--------------------------------- MODULE Can ---------------------------------
(***************************************************************************)
(* jbdtool over a CAN bus: can_open(), can_read() and can_write() (can.c), *)
(* jbd_can_get() (jbd.c) and the sequence of requests jbd_can_get_info()   *)
(* (jbd_info.c) makes.                                                     *)
(*                                                                         *)
(* Each item of information has its own CAN id.  A request is an empty     *)
(* frame with that id, the answer an eight byte frame with the same id,    *)
(* and every node of the bus sees every frame.  So a request another node  *)
(* (a jbdtool on another host) makes looks like an answer without data.    *)
(***************************************************************************)
EXTENDS Integers, Sequences

CONSTANTS HEAD,      \* ids before the temperatures, 0x100..0x104: 5
          TEMPS,     \* ids of temperatures, 0x105..0x106: 2
          CELLS,     \* ids of cell voltages, 0x107..0x110: 10
          TAIL,      \* ids of the model name, not checked, 0x111..0x114: 4
          PER,       \* temperatures or cells in a frame: 3
          RETRIES,   \* retries in jbd_can_get: 3
          STRINGS,   \* cells the BMS has
          PROBES,    \* temperature probes the BMS has
          MaxFaults, \* bad frames, lost answers, failing calls (bound)
          MaxPeer    \* requests of other nodes (bound)

ASSUME IdAssumption == /\ HEAD \in Nat \ {0} /\ TEMPS \in Nat \ {0} /\ CELLS \in Nat \ {0}
                       /\ TAIL \in Nat \ {0} /\ PER \in Nat \ {0}
ASSUME BmsAssumption == STRINGS \in Nat /\ PROBES \in Nat
ASSUME BoundAssumption == RETRIES \in Nat /\ MaxFaults \in Nat /\ MaxPeer \in Nat

\* Ids are numbered from 1; the last one before the temperatures carries the
\* numbers of cells and probes.
SizesId   == HEAD
FirstTemp == HEAD + 1
FirstCell == FirstTemp + TEMPS
FirstTail == FirstCell + CELLS
LastId    == FirstTail + TAIL - 1
Id        == 1..LastId

\* good: data with its CRC; nocrc: data, CRC bytes zero; bad: CRC differs;
\* empty: no data.
Frame == [id : Id, kind : {"good", "nocrc", "bad", "empty"}]

VARIABLES pc,      \* closed, bind: opening; write, read: of the current get;
                   \* ok, fail: returned
          ifup,    \* interface up
          rate,    \* its bitrate is the one wanted
          id,      \* id being asked for
          i,       \* temperatures or cells read so far
          retries, \* local of jbd_can_get
          strings, probes, \* in info
          cells,   \* info->cellvolt: none, true (of the BMS) or wrong
          pend,    \* requests the BMS has not answered
          sock,    \* frames received by the socket
          skipped, \* frame of can_read holds a frame that was not ours, or {}
          asked,   \* history: requests made for the current id
          errors,  \* history: read() failures
          lost,    \* history: requests that got no answer
          faults, peers

bus  == <<pend, sock>>
info == <<id, i, strings, probes, cells>>
vars == <<pc, ifup, rate, info, retries, bus, skipped, asked, errors, lost, faults, peers>>

Fault == faults < MaxFaults /\ faults' = faults + 1

Init == /\ pc = "closed" /\ ifup \in BOOLEAN /\ rate \in {"wanted", "other"}
        /\ id = 1 /\ i = 0 /\ retries = RETRIES
        /\ strings = 0 /\ probes = 0
        /\ cells = [j \in 1..(CELLS * PER) |-> "none"]
        /\ pend = <<>> /\ sock = <<>> /\ skipped = {}
        /\ asked = 0 /\ errors = 0 /\ lost = 0 /\ faults = 0 /\ peers = 0

-----------------------------------------------------------------------------
(* can_open() *)

\* Mutant of Settled: the bitrate is always set.
Settled_Never == FALSE

\* The interface is used as it is: nothing is set.
Settled == ifup /\ rate = "wanted"

Opened == <<info, retries, bus, skipped, asked, errors, lost, peers>>

UseAsIs == /\ pc = "closed"
           /\ Settled
           /\ pc' = "bind"
           /\ UNCHANGED <<ifup, rate, faults, Opened>>

\* Down if need be, the bitrate, up.
SetRate == /\ pc = "closed"
           /\ ~Settled
           /\ ifup' = TRUE /\ rate' = "wanted"
           /\ pc' = "bind"
           /\ UNCHANGED <<faults, Opened>>

\* up_down_up() fails, which can_open() does not look at: the interface is
\* down after its first or third call, up after the second.
SetRateBlind == /\ pc = "closed"
                /\ ~Settled
                /\ Fault
                /\ ifup' \in BOOLEAN /\ rate' = "wanted"
                /\ pc' = "bind"
                /\ UNCHANGED Opened

\* The bitrate cannot be set: the interface stays down, one that was up with
\* another bitrate as well.
SetRateFails == /\ pc = "closed"
                /\ ~Settled
                /\ Fault
                /\ ifup' = FALSE
                /\ pc' = "fail"
                /\ UNCHANGED <<rate, Opened>>

\* Index and bind().
Bind == /\ pc = "bind"
        /\ pc' = "write"
        /\ UNCHANGED <<ifup, rate, faults, Opened>>

\* socket, the flags or the timing, or index and bind() fail.
OpenFails == /\ pc \in {"closed", "bind"}
             /\ Fault
             /\ pc' = "fail"
             /\ UNCHANGED <<ifup, rate, Opened>>

-----------------------------------------------------------------------------
(* jbd_can_get(), and where jbd_can_get_info() goes with its result. *)

Checked(n) == n < FirstTail

\* The request is sent; a failing write makes the get fail.
Write == /\ pc = "write"
         /\ ifup
         /\ pend' = Append(pend, id)
         /\ asked' = asked + 1
         /\ skipped' = {}
         /\ pc' = "read"
         /\ UNCHANGED <<ifup, rate, info, retries, sock, errors, lost, faults, peers>>

WriteFails == /\ pc = "write"
              /\ IF ifup THEN Fault ELSE UNCHANGED faults
              /\ pc' = "fail"
              /\ UNCHANGED <<ifup, rate, info, retries, bus, skipped, asked, errors, lost, peers>>

\* Mutant of Usable: the CRC is not compared.
Usable_Any(f) == TRUE
Usable(f) == Checked(id) => f.kind # "bad"

\* i after the frame: an item is taken before i is compared with the count.
AfterFrame(n) == IF n <= i THEN i + 1 ELSE IF n < i + PER THEN n ELSE i + PER

\* jbd_can_get() returned 0 with the data of f: the next id, and what is kept.
\* f is the answer if it is an answer to this id with data.
TakeSizes(f) == \/ f.id = id /\ f.kind # "empty" /\ strings' = STRINGS /\ probes' = PROBES
                \/ f.kind = "empty" /\ strings' = 0 /\ probes' = 0
                \/ f.id # id /\ f.kind # "empty" /\ strings' \in 0..STRINGS /\ probes' \in 0..PROBES

TakeCells(f) ==
    cells' = [j \in DOMAIN cells |->
                IF j \in (i + 1)..AfterFrame(strings)
                THEN IF f.id = id /\ f.kind \in {"good", "nocrc"} THEN "true" ELSE "wrong"
                ELSE cells[j]]

NextGet == retries' = RETRIES /\ asked' = 0

Accept(f) ==
    /\ Usable(f)
    /\ NextGet
    /\ \/ /\ id < SizesId
          /\ id' = id + 1 /\ pc' = "write"
          /\ UNCHANGED <<i, strings, probes, cells>>
       \/ /\ id = SizesId
          /\ TakeSizes(f)
          /\ id' = FirstTemp /\ i' = 0 /\ pc' = "write"
          /\ UNCHANGED cells
       \/ /\ id \in FirstTemp..(FirstCell - 1)
          /\ IF AfterFrame(probes) >= probes \/ id + 1 = FirstCell
             THEN id' = FirstCell /\ i' = 0
             ELSE id' = id + 1 /\ i' = AfterFrame(probes)
          /\ pc' = "write"
          /\ UNCHANGED <<strings, probes, cells>>
       \/ /\ id \in FirstCell..(FirstTail - 1)
          /\ TakeCells(f)
          /\ IF AfterFrame(strings) >= strings \/ id + 1 = FirstTail
             THEN id' = FirstTail /\ i' = 0
             ELSE id' = id + 1 /\ i' = AfterFrame(strings)
          /\ pc' = "write"
          /\ UNCHANGED <<strings, probes>>
       \/ /\ id >= FirstTail
          /\ IF id = LastId THEN pc' = "ok" /\ id' = id ELSE pc' = "write" /\ id' = id + 1
          /\ UNCHANGED <<i, strings, probes, cells>>

\* Mutant of Refuse: while (retries-- >= 0).
Refuse_OneMore(f) ==
    /\ ~Usable(f)
    /\ retries' = retries - 1
    /\ pc' = IF retries < 0 THEN "fail" ELSE "write"
    /\ UNCHANGED <<info, asked>>

\* The CRC differs: while (retries--).
Refuse(f) ==
    /\ ~Usable(f)
    /\ retries' = retries - 1
    /\ pc' = IF retries = 0 THEN "fail" ELSE "write"
    /\ UNCHANGED <<info, asked>>

Take(f) == Accept(f) \/ Refuse(f)

\* Mutant of Ours: the comparison is off.
Ours_Never(f) == f.id = id + 1
Ours(f) == f.id = id

\* can_read(): frames of other ids are passed over.
ReadOther == /\ pc = "read"
             /\ sock # <<>>
             /\ ~Ours(Head(sock))
             /\ skipped' = {Head(sock)}
             /\ sock' = Tail(sock)
             /\ UNCHANGED <<pc, ifup, rate, info, retries, pend, asked, errors, lost, faults, peers>>

ReadOurs == /\ pc = "read"
            /\ sock # <<>>
            /\ Ours(Head(sock))
            /\ Take(Head(sock))
            /\ sock' = Tail(sock)
            /\ UNCHANGED <<ifup, rate, pend, skipped, errors, lost, faults, peers>>

\* read() fails: the loop is left, and what frame holds is returned as if it
\* had been read: the frame passed over last, or what was on the stack.
ReadError == /\ pc = "read"
             /\ Fault
             /\ errors' = errors + 1
             /\ \E f \in IF skipped # {} THEN skipped ELSE Frame : Take(f)
             /\ UNCHANGED <<ifup, rate, bus, skipped, lost, peers>>

-----------------------------------------------------------------------------
(* The bus (external). *)

\* The BMS answers the next request, if need be with a wrong CRC.
Answer == /\ pend # <<>>
          /\ pend' = Tail(pend)
          /\ \/ \E kd \in {"good", "nocrc"} : sock' = Append(sock, [id |-> Head(pend), kind |-> kd])
                /\ UNCHANGED faults
             \/ Fault /\ sock' = Append(sock, [id |-> Head(pend), kind |-> "bad"])
          /\ UNCHANGED <<pc, ifup, rate, info, retries, skipped, asked, errors, lost, peers>>

\* No answer comes.
Silent == /\ pend # <<>>
          /\ Fault
          /\ pend' = Tail(pend)
          /\ lost' = lost + 1
          /\ UNCHANGED <<pc, ifup, rate, info, retries, sock, skipped, asked, errors, peers>>

\* Another node asks for an id; a socket sees what comes after it was opened.
Peer == /\ peers < MaxPeer
        /\ pc \in {"write", "read"}
        /\ peers' = peers + 1
        /\ \E n \in Id : /\ sock' = Append(sock, [id |-> n, kind |-> "empty"])
                         /\ pend' = Append(pend, n)
        /\ UNCHANGED <<pc, ifup, rate, info, retries, skipped, asked, errors, lost, faults>>

-----------------------------------------------------------------------------
Opening == UseAsIs \/ SetRate \/ SetRateBlind \/ SetRateFails \/ Bind \/ OpenFails
Getting == Write \/ WriteFails \/ ReadOther \/ ReadOurs \/ ReadError
Bus     == Answer \/ Silent \/ Peer

Next == Opening \/ Getting \/ Bus

Spec == Init /\ [][Next]_vars

\* jbdtool runs, and the BMS answers what reaches it.
FairSpec == Spec /\ WF_vars(UseAsIs \/ SetRate \/ Bind) /\ WF_vars(Write \/ WriteFails)
                 /\ WF_vars(ReadOther \/ ReadOurs) /\ WF_vars(Answer)

-----------------------------------------------------------------------------
\* Types; the retry count is below zero only when the call has failed, and no
\* get makes more than RETRIES + 1 requests.
TypeOK == /\ pc \in {"closed", "bind", "write", "read", "ok", "fail"}
          /\ ifup \in BOOLEAN /\ rate \in {"wanted", "other"}
          /\ id \in Id /\ i \in 0..(CELLS * PER + TEMPS * PER)
          /\ retries \in (IF pc = "fail" THEN -1 ELSE 0)..RETRIES
          /\ asked \in 0..(RETRIES + 1)
          /\ strings \in 0..STRINGS /\ probes \in 0..PROBES
          /\ cells \in [1..(CELLS * PER) -> {"none", "true", "wrong"}]
          /\ pend \in Seq(Id) /\ sock \in Seq(Frame)
          /\ skipped \subseteq Frame
          /\ errors \in 0..faults /\ lost \in 0..(faults - errors)
          /\ faults \in 0..MaxFaults /\ peers \in 0..MaxPeer

\* What jbd_can_get_info() returns with success on a bus without other nodes
\* and read errors: every cell the BMS has, as far as there are ids, is the
\* BMS's, whatever was lost, late or damaged.
LastCell == IF STRINGS > CELLS * PER THEN CELLS * PER ELSE STRINGS

InfoComplete ==
    pc = "ok" /\ errors = 0 /\ peers = 0 =>
        /\ strings = STRINGS /\ probes = PROBES
        /\ \A j \in 1..LastCell : cells[j] = "true"

\* An interface that is up with the bitrate wanted stays so, whatever fails:
\* others use it.
BusLeftAlone == [][ifup /\ rate = "wanted" => ifup' /\ rate' = "wanted"]_vars

\* jbd_can_get_info() returns as long as the BMS answers: can_read() has no
\* timeout, but it passes over all that is not its own.
GetReturns == pc = "read" ~> pc \in {"ok", "fail"} \/ lost > 0
=============================================================================
