----------------------------- MODULE AtLeastOnce -----------------------------
(***************************************************************************)
(* What jbd_rw() promises its callers when the registers of a script of    *)
(* calls are all different: an at-least-once remote call.  A call that     *)
(* returns success was executed by the BMS; one that fails may have been   *)
(* executed, never, once or several times, and even after it returned;     *)
(* but nothing is executed more than Limit times or after the execution of *)
(* a later call.                                                           *)
(***************************************************************************)
EXTENDS Naturals

CONSTANTS N,       \* number of calls in the script
          Limit    \* most executions of one call

VARIABLES cur,     \* the last call made, 0 before the first
          busy,    \* it has not returned yet
          execs,   \* how often the BMS executed each call
          result   \* what each call returned

avars == <<cur, busy, execs, result>>

Results == {"none", "ok", "fail"}

Init == /\ cur = 0
        /\ busy = FALSE
        /\ execs = [i \in 1..N |-> 0]
        /\ result = [i \in 1..N |-> "none"]

\* The caller goes on to a later call of its script.
Call == \E i \in 1..N : /\ ~busy
                        /\ i > cur
                        /\ cur' = i
                        /\ busy' = TRUE
                        /\ UNCHANGED <<execs, result>>

\* The BMS executes a call already made, never out of order.
Exec == \E i \in 1..N : /\ i <= cur
                        /\ execs[i] < Limit
                        /\ \A j \in 1..N : j > i => execs[j] = 0
                        /\ execs' = [execs EXCEPT ![i] = @ + 1]
                        /\ UNCHANGED <<cur, busy, result>>

Succeed == /\ busy
           /\ execs[cur] >= 1
           /\ busy' = FALSE
           /\ result' = [result EXCEPT ![cur] = "ok"]
           /\ UNCHANGED <<cur, execs>>

Fail == /\ busy
        /\ busy' = FALSE
        /\ result' = [result EXCEPT ![cur] = "fail"]
        /\ UNCHANGED <<cur, execs>>

Next == Call \/ Exec \/ Succeed \/ Fail

Spec == Init /\ [][Next]_avars
=============================================================================
