-------------------------------- MODULE JbdRw --------------------------------
(***************************************************************************)
(* jbd_rw() (jbd.c): one register exchange with the BMS over a serial, ip  *)
(* or bt transport.  The function writes the request, reads whatever the   *)
(* transport has, verifies it and retries.  Nothing ties a reply to the    *)
(* request it answers but the register number: no sequence number, and     *)
(* neither the status byte nor read-versus-write is looked at.             *)
(*                                                                         *)
(* A caller makes the calls of Script in order and may leave some out.     *)
(* The link is asynchronous and FIFO: answers may be late (after a timeout *)
(* and a retry, or after the call has failed), arrive in two pieces, or be *)
(* lost or garbled.  Requests and replies carry the number of the call     *)
(* they belong to as a ghost; the code sees only Script[id].               *)
(***************************************************************************)
EXTENDS Naturals, Sequences

CONSTANTS N,            \* calls in the script
          Reg,          \* registers
          Script,       \* the calls: [act, reg] each
          RETRIES,      \* "retries" in jbd_rw, 5 in the code
          ClearOnWrite, \* bt_write empties the receive buffer; serial, ip don't
          MaxFaults     \* losses, garblings and transport errors (bound)

Act == {"read", "write"}
Call == 1..N

ASSUME NAssumption       == N \in Nat
ASSUME ScriptAssumption  == Script \in [Call -> [act : Act, reg : Reg]]
ASSUME RetriesAssumption == RETRIES \in Nat
ASSUME LinkAssumption    == ClearOnWrite \in BOOLEAN /\ MaxFaults \in Nat

VARIABLES pc,       \* idle: no call; top: at the head of the while(1); read: written
          cur,      \* the call being made, or the last one
          retries,  \* local variable of jbd_rw
          result,   \* none | ok | fail, per call
          answer,   \* ghost: the call whose reply was accepted, 0 none
          wire,     \* requests on their way to the BMS
          execs,    \* ghost: executions by the BMS, per call
          back,     \* replies on their way to the transport
          rx,       \* what the transport has received and not handed out
          faults    \* faults so far

vars == <<pc, cur, retries, result, answer, wire, execs, back, rx, faults>>

Request  == [id : Call, try : 1..RETRIES]
Fragment == [id : Call, part : {"whole", "head", "tail", "bad"}]

Init == /\ pc = "idle" /\ cur = 0 /\ retries = 0 /\ faults = 0
        /\ result = [i \in Call |-> "none"]
        /\ answer = [i \in Call |-> 0]
        /\ execs  = [i \in Call |-> 0]
        /\ wire = <<>> /\ back = <<>> /\ rx = <<>>

-----------------------------------------------------------------------------
(* The client: jbd_rw() and its caller. *)

\* Mutant of CallRw: one attempt too many.
CallRw_OneMore == /\ pc = "idle"
                  /\ \E i \in Call : i > cur /\ cur' = i
                  /\ pc' = "top"
                  /\ retries' = RETRIES + 1
                  /\ UNCHANGED <<result, answer, wire, execs, back, rx, faults>>

CallRw == /\ pc = "idle"
          /\ \E i \in Call : i > cur /\ cur' = i
          /\ pc' = "top"
          /\ retries' = RETRIES
          /\ UNCHANGED <<result, answer, wire, execs, back, rx, faults>>

Return(res, id) == /\ pc' = "idle"
                   /\ result' = [result EXCEPT ![cur] = res]
                   /\ answer' = [answer EXCEPT ![cur] = id]

\* Mutant of GiveUp: 0 returned when the retries are used up.
GiveUp_ReturnsZero == /\ pc = "top"
                      /\ retries = 0
                      /\ Return("ok", cur)
                      /\ UNCHANGED <<cur, retries, wire, execs, back, rx, faults>>

\* if (!retries--) return -1;
GiveUp == /\ pc = "top"
          /\ retries = 0
          /\ Return("fail", 0)
          /\ UNCHANGED <<cur, retries, wire, execs, back, rx, faults>>

\* tp->write(), whose result is ignored.
Write == /\ pc = "top"
         /\ retries > 0
         /\ retries' = retries - 1
         /\ wire' = Append(wire, [id |-> cur, try |-> RETRIES - retries'])
         /\ rx' = IF ClearOnWrite THEN <<>> ELSE rx
         /\ pc' = "read"
         /\ UNCHANGED <<cur, result, answer, execs, back, faults>>

\* jbd_verify(): start, register, length, checksum and stop byte of what one
\* read() returned.  Two pieces pass when together they are one frame; the
\* pieces of two equal frames are equal.
Intact(chunk) == \/ Len(chunk) = 1 /\ chunk[1].part = "whole"
                 \/ /\ Len(chunk) = 2
                    /\ chunk[1].part = "head" /\ chunk[2].part = "tail"
                    /\ Script[chunk[1].id] = Script[chunk[2].id]

\* Mutant of Verify: the register of the reply is not compared.
Verify_AnyRegister(chunk, reg) == Intact(chunk)

Verify(chunk, reg) == Intact(chunk) /\ Script[chunk[Len(chunk)].id].reg = reg

\* tp->read() hands out all there is (nothing: its timeout) and it verifies.
ReadGood == /\ pc = "read"
            /\ Verify(rx, Script[cur].reg)
            /\ Return("ok", rx[Len(rx)].id)
            /\ rx' = <<>>
            /\ UNCHANGED <<cur, retries, wire, execs, back, faults>>

\* Mutant of ReadBad: a read that blocks until something arrives.
ReadBad_Blocking == /\ pc = "read"
                    /\ rx # <<>>
                    /\ ~Verify(rx, Script[cur].reg)
                    /\ pc' = "top"
                    /\ rx' = <<>>
                    /\ UNCHANGED <<cur, retries, result, answer, wire, execs, back, faults>>

\* Anything else, nothing included, is thrown away and the loop goes round.
ReadBad == /\ pc = "read"
           /\ ~Verify(rx, Script[cur].reg)
           /\ pc' = "top"
           /\ rx' = <<>>
           /\ UNCHANGED <<cur, retries, result, answer, wire, execs, back, faults>>

Fault == faults < MaxFaults /\ faults' = faults + 1

\* tp->read() returns -1 (the link went away): no retry.
ReadError == /\ pc = "read"
             /\ Fault
             /\ Return("fail", 0)
             /\ UNCHANGED <<cur, retries, wire, execs, back, rx>>

-----------------------------------------------------------------------------
(* The BMS and the link (external). *)

\* The BMS takes the next request, executes it and answers.
Execute == /\ wire # <<>>
           /\ execs' = [execs EXCEPT ![Head(wire).id] = @ + 1]
           /\ back' = Append(back, [id |-> Head(wire).id, part |-> "whole"])
           /\ wire' = Tail(wire)
           /\ UNCHANGED <<pc, cur, retries, result, answer, rx, faults>>

\* A request never reaches the BMS, or it finds it damaged.
LoseRequest == /\ wire # <<>>
               /\ Fault
               /\ wire' = Tail(wire)
               /\ UNCHANGED <<pc, cur, retries, result, answer, execs, back, rx>>

\* The next piece of a reply arrives.
Deliver == /\ back # <<>>
           /\ rx' = Append(rx, Head(back))
           /\ back' = Tail(back)
           /\ UNCHANGED <<pc, cur, retries, result, answer, wire, execs, faults>>

\* Only the first bytes of a reply arrive; the rest is still to come.
DeliverHead == /\ back # <<>>
               /\ Head(back).part = "whole"
               /\ rx' = Append(rx, [Head(back) EXCEPT !.part = "head"])
               /\ back' = [back EXCEPT ![1].part = "tail"]
               /\ UNCHANGED <<pc, cur, retries, result, answer, wire, execs, faults>>

LoseReply == /\ back # <<>>
             /\ Fault
             /\ back' = Tail(back)
             /\ UNCHANGED <<pc, cur, retries, result, answer, wire, execs, rx>>

Garble == /\ back # <<>>
          /\ Fault
          /\ back' = [back EXCEPT ![1].part = "bad"]
          /\ UNCHANGED <<pc, cur, retries, result, answer, wire, execs, rx>>

-----------------------------------------------------------------------------
Client == CallRw \/ GiveUp \/ Write \/ ReadGood \/ ReadBad \/ ReadError
Link   == Execute \/ LoseRequest \/ Deliver \/ DeliverHead \/ LoseReply \/ Garble
Next   == Client \/ Link

Spec == Init /\ [][Next]_vars

\* jbd_rw() is straight-line code around transports whose reads time out.
\* Nothing is assumed of the BMS or of the link.
FairSpec == Spec /\ WF_vars(GiveUp \/ Write \/ ReadGood \/ ReadBad)

-----------------------------------------------------------------------------
TypeOK == /\ pc \in {"idle", "top", "read"}
          /\ cur \in 0..N
          /\ pc # "idle" => cur \in Call
          /\ retries \in 0..RETRIES
          /\ result \in [Call -> {"none", "ok", "fail"}]
          /\ answer \in [Call -> 0..N]
          /\ wire \in Seq(Request)
          /\ execs \in [Call -> Nat]
          /\ back \in Seq(Fragment)
          /\ rx \in Seq(Fragment)
          /\ faults \in 0..MaxFaults

\* A call the caller did make, and one with a register no call made before it
\* has.
Made(i)  == i = cur \/ result[i] # "none"
Alone(i) == \A j \in 1..(i - 1) : Made(j) => Script[j].reg # Script[i].reg

\* Whatever reply jbd_rw takes for its own answers this call or an earlier
\* one to the same register that the BMS did execute: the register check of
\* jbd_verify keeps late answers of all other calls out.
AnswersSameRegister ==
    \A i \in Call : result[i] = "ok" =>
        /\ answer[i] \in 1..i
        /\ Script[answer[i]].reg = Script[i].reg
        /\ execs[answer[i]] >= 1

\* A success is genuine when no earlier call was to its register: the BMS
\* executed this very call.
GenuineSuccess ==
    \A i \in Call : result[i] = "ok" /\ Alone(i) => answer[i] = i /\ execs[i] >= 1

\* After such a success no copy of an earlier call is still on its way to the
\* BMS.  In particular no parameter write is executed after jbd_eeprom_end()
\* was acknowledged, whatever timed out before.
SettledBySuccess ==
    \A i \in Call : result[i] = "ok" /\ Alone(i) =>
        \A k \in 1..Len(wire) : wire[k].id >= i

\* The retry loop executes no call more than RETRIES times.
AtMostRetries == \A i \in Call : execs[i] <= RETRIES

\* The abstract specification jbd_rw implements as long as no two calls made
\* have the same register.
Rpc == INSTANCE AtLeastOnce WITH Limit <- RETRIES, busy <- (pc # "idle")

AllAlone == \A i \in Call : Made(i) => Alone(i)

ImplementsRpc == Rpc!Init /\ [][AllAlone => Rpc!Next]_(Rpc!avars)

\* Every call returns although nothing is assumed of the BMS: the transport's
\* read times out and the retries are counted.
CallReturns == (pc # "idle") ~> (pc = "idle")
=============================================================================
