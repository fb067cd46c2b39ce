----------------------------- MODULE JbdRwProofs -----------------------------
(***************************************************************************)
(* Proofs about JbdRw for every script, number of retries and faults.      *)
(*                                                                         *)
(* A reply is tied to its request only through what the FIFO link implies. *)
(* RwInv says it: requests travel in the order of the calls (WireOrder),   *)
(* what has been executed is no later than what is still on the wire       *)
(* (ExecOrder), and every reply under way is of an executed call           *)
(* (Executed).  The numbering of the attempts (WireTry, ExecBound) bounds  *)
(* the executions by RETRIES.                                              *)
(***************************************************************************)
EXTENDS JbdRw, SequenceTheorems, TLAPS

WireOrder ==
    \A k, l \in 1..Len(wire) : k < l =>
        /\ wire[k].id <= wire[l].id
        /\ wire[k].id = wire[l].id => wire[k].try < wire[l].try

WireTry ==
    \A k \in 1..Len(wire) :
        /\ wire[k].id <= cur
        /\ execs[wire[k].id] < wire[k].try
        /\ wire[k].id = cur => wire[k].try <= RETRIES - retries

ExecOrder ==
    \A k \in 1..Len(wire), j \in Call : execs[j] >= 1 => j <= wire[k].id

ExecBound ==
    \A j \in Call : /\ execs[j] <= RETRIES
                    /\ j = cur => execs[j] <= RETRIES - retries
                    /\ j > cur => execs[j] = 0

Executed == /\ \A k \in 1..Len(back) : execs[back[k].id] >= 1
            /\ \A k \in 1..Len(rx) : execs[rx[k].id] >= 1

\* Only calls the caller made are on the wire or executed.
MadeOnly == /\ pc = "idle" /\ cur \in Call => result[cur] # "none"
            /\ \A k \in 1..Len(wire) : Made(wire[k].id)
            /\ \A j \in Call : execs[j] >= 1 => Made(j)

RwInv == /\ TypeOK
         /\ WireOrder
         /\ WireTry
         /\ ExecOrder
         /\ ExecBound
         /\ Executed
         /\ MadeOnly
         /\ AnswersSameRegister

-----------------------------------------------------------------------------
\* No call made, nothing on the link: the invariant holds.
LEMMA InitRwInv == Init => RwInv
  BY NAssumption, ScriptAssumption, RetriesAssumption, LinkAssumption
     DEF Init, RwInv, TypeOK, WireOrder, WireTry, ExecOrder, ExecBound,
         Executed, MadeOnly, AnswersSameRegister, Call

\* Every step of jbd_rw and of the link keeps the types.
LEMMA TypeStep == TypeOK /\ [Next]_vars => TypeOK'
  <1> SUFFICES ASSUME TypeOK, [Next]_vars PROVE TypeOK'
    OBVIOUS
  <1> USE NAssumption, RetriesAssumption, LinkAssumption DEF TypeOK, Call
  <1>1. CASE UNCHANGED vars
    BY <1>1 DEF vars
  <1>2. CASE CallRw
    BY <1>2 DEF CallRw
  <1>3. CASE GiveUp
    BY <1>3 DEF GiveUp, Return
  <1>4. CASE Write
    <2>1. [id |-> cur, try |-> RETRIES - retries'] \in Request
      BY <1>4 DEF Write, Request
    <2>2. wire' \in Seq(Request)
      BY <1>4, <2>1, AppendProperties DEF Write
    <2>3. rx' \in Seq(Fragment)
      BY <1>4, EmptySeq DEF Write
    <2>4. pc' = "read" /\ retries' = retries - 1 /\ retries > 0
          /\ UNCHANGED <<cur, result, answer, execs, back, faults>>
      BY <1>4 DEF Write
    <2>5. retries' \in 0..RETRIES /\ cur' \in Call
      BY <1>4, <2>4 DEF Write
    <2> QED BY <2>2, <2>3, <2>4, <2>5
  <1>5. CASE ReadGood
    <2>1. Len(rx) \in {1, 2}
      BY <1>5 DEF ReadGood, Verify, Intact
    <2>2. rx[Len(rx)].id \in 0..N
      <3>1. \A n \in {1, 2} : n \in 1..n
        OBVIOUS
      <3>2. rx[Len(rx)] \in Fragment
        BY <2>1, <3>1, ElementOfSeq
      <3> QED BY <3>2 DEF Fragment
    <2>3. rx' \in Seq(Fragment)
      BY <1>5, EmptySeq DEF ReadGood
    <2> QED BY <1>5, <2>2, <2>3 DEF ReadGood, Return
  <1>6. CASE ReadBad
    BY <1>6, EmptySeq DEF ReadBad
  <1>7. CASE ReadError
    BY <1>7 DEF ReadError, Return, Fault
  <1>8. CASE Execute
    <2>1. Head(wire).id \in Call
      <3>1. Head(wire) \in Request
        BY <1>8, HeadTailProperties DEF Execute
      <3> QED BY <3>1 DEF Request
    <2>2. [id |-> Head(wire).id, part |-> "whole"] \in Fragment
      BY <2>1 DEF Fragment
    <2>3. back' \in Seq(Fragment)
      BY <1>8, <2>2, AppendProperties DEF Execute
    <2>4. wire' \in Seq(Request)
      BY <1>8, HeadTailProperties DEF Execute
    <2>5. execs' \in [Call -> Nat]
      <3> DEFINE h == Head(wire).id
      <3>1. execs' = [execs EXCEPT ![h] = @ + 1]
        BY <1>8 DEF Execute
      <3>2. h \in Call
        BY <2>1
      <3> HIDE DEF h
      <3> QED BY <3>1, <3>2
    <2> QED BY <1>8, <2>3, <2>4, <2>5 DEF Execute
  <1>9. CASE LoseRequest
    <2>1. wire' \in Seq(Request)
      BY <1>9, HeadTailProperties DEF LoseRequest
    <2> QED BY <1>9, <2>1 DEF LoseRequest, Fault
  <1>10. CASE Deliver
    <2>1. Head(back) \in Fragment /\ back' \in Seq(Fragment)
      BY <1>10, HeadTailProperties DEF Deliver
    <2>2. rx' \in Seq(Fragment)
      BY <1>10, <2>1, AppendProperties DEF Deliver
    <2> QED BY <1>10, <2>1, <2>2 DEF Deliver
  <1>11. CASE DeliverHead
    <2>1. Head(back) \in Fragment /\ back[1] \in Fragment /\ Len(back) >= 1
      BY <1>11, HeadTailProperties DEF DeliverHead
    <2>2. /\ [Head(back) EXCEPT !.part = "head"] \in Fragment
          /\ [back[1] EXCEPT !.part = "tail"] \in Fragment
      BY <2>1 DEF Fragment
    <2>3. rx' \in Seq(Fragment)
      BY <1>11, <2>2, AppendProperties DEF DeliverHead
    <2>4. back' = [back EXCEPT ![1] = [back[1] EXCEPT !.part = "tail"]]
      BY <1>11 DEF DeliverHead
    <2>5. back' \in Seq(Fragment)
      BY <2>1, <2>2, <2>4, ExceptSeq
    <2> QED BY <1>11, <2>3, <2>5 DEF DeliverHead
  <1>12. CASE LoseReply
    <2>1. back' \in Seq(Fragment)
      BY <1>12, HeadTailProperties DEF LoseReply
    <2> QED BY <1>12, <2>1 DEF LoseReply, Fault
  <1>13. CASE Garble
    <2>1. back[1] \in Fragment /\ Len(back) >= 1
      BY <1>13, HeadTailProperties DEF Garble
    <2>2. [back[1] EXCEPT !.part = "bad"] \in Fragment
      BY <2>1 DEF Fragment
    <2>3. back' = [back EXCEPT ![1] = [back[1] EXCEPT !.part = "bad"]]
      BY <1>13 DEF Garble
    <2>4. back' \in Seq(Fragment)
      BY <2>1, <2>2, <2>3, ExceptSeq
    <2> QED BY <1>13, <2>4 DEF Garble, Fault
  <1> QED BY <1>1, <1>2, <1>3, <1>4, <1>5, <1>6, <1>7, <1>8, <1>9, <1>10,
             <1>11, <1>12, <1>13 DEF Next, Client, Link

\* The members of the queues have the ranges of their types.
LEMMA QueueTypes ==
    TypeOK => /\ \A k \in 1..Len(wire) : wire[k].id \in Call /\ wire[k].try \in 1..RETRIES
              /\ \A k \in 1..Len(back) : back[k].id \in Call
              /\ \A k \in 1..Len(rx) : rx[k].id \in Call
              /\ Len(wire) \in Nat /\ Len(back) \in Nat /\ Len(rx) \in Nat
  <1> SUFFICES ASSUME TypeOK
               PROVE  /\ \A k \in 1..Len(wire) : wire[k] \in Request
                      /\ \A k \in 1..Len(back) : back[k] \in Fragment
                      /\ \A k \in 1..Len(rx) : rx[k] \in Fragment
                      /\ Len(wire) \in Nat /\ Len(back) \in Nat /\ Len(rx) \in Nat
    BY DEF Request, Fragment
  <1> QED BY ElementOfSeq, LenProperties DEF TypeOK

WireInv == WireOrder /\ WireTry /\ ExecOrder /\ ExecBound

\* The order and numbering of the requests, and what they imply for the
\* executions, survive every step.  Only CallRw, Write, Execute and
\* LoseRequest touch what they speak of.
LEMMA WireStep == RwInv /\ [Next]_vars => WireInv'
  <1> SUFFICES ASSUME RwInv, [Next]_vars PROVE WireInv'
    OBVIOUS
  <1> USE NAssumption, RetriesAssumption
  <1>0. TypeOK /\ TypeOK'
    BY TypeStep DEF RwInv
  <1>t. /\ \A k \in 1..Len(wire) : wire[k].id \in Call /\ wire[k].try \in 1..RETRIES
        /\ Len(wire) \in Nat
    BY <1>0, QueueTypes
  <1>r. /\ execs \in [Call -> Nat] /\ cur \in 0..N /\ retries \in 0..RETRIES
        /\ wire \in Seq(Request)
        /\ pc # "idle" => cur \in Call
    BY <1>0 DEF TypeOK
  <1>1. CASE UNCHANGED <<wire, execs, cur, retries>>
    BY <1>1 DEF RwInv, WireInv, WireOrder, WireTry, ExecOrder, ExecBound
  <1>2. CASE CallRw
    <2>1. /\ cur' \in Call /\ cur' > cur /\ retries' = RETRIES
          /\ wire' = wire /\ execs' = execs
      BY <1>2 DEF CallRw
    <2>2. WireOrder' /\ ExecOrder'
      BY <2>1 DEF RwInv, WireOrder, ExecOrder
    <2>3. WireTry'
      BY <1>t, <1>r, <2>1 DEF RwInv, WireTry, Call
    <2>4. ExecBound'
      BY <1>r, <2>1 DEF RwInv, ExecBound, Call
    <2> QED BY <2>2, <2>3, <2>4 DEF WireInv
  <1>3. CASE Write
    <2> DEFINE new == [id |-> cur, try |-> RETRIES - retries']
    <2>1. /\ cur \in Call /\ cur' = cur /\ retries' = retries - 1 /\ retries > 0
          /\ wire' = Append(wire, new) /\ execs' = execs
      BY <1>3, <1>r DEF Write
    <2>2. new \in Request /\ new.id = cur /\ new.try = RETRIES - retries + 1
      BY <1>r, <2>1 DEF Request
    <2> HIDE DEF new
    <2>3. /\ Len(wire') = Len(wire) + 1
          /\ \A k \in 1..Len(wire) : wire'[k] = wire[k]
          /\ wire'[Len(wire) + 1] = new
      BY <1>r, <2>1, <2>2, AppendProperties
    <2>4. WireOrder'
      BY <1>t, <1>r, <2>1, <2>2, <2>3 DEF RwInv, WireOrder, WireTry, Call
    <2>5. WireTry'
      <3> SUFFICES ASSUME NEW k \in 1..Len(wire')
                   PROVE  /\ wire'[k].id <= cur
                          /\ execs[wire'[k].id] < wire'[k].try
                          /\ wire'[k].id = cur => wire'[k].try <= RETRIES - retries + 1
        BY <1>r, <2>1 DEF WireTry
      <3>1. CASE k \in 1..Len(wire)
        BY <1>t, <1>r, <2>1, <2>3, <3>1 DEF RwInv, WireTry, Call
      <3>2. CASE k = Len(wire) + 1
        <4>1. wire'[k].id = cur /\ wire'[k].try = RETRIES - retries + 1
          BY <2>2, <2>3, <3>2
        <4>2. execs[cur] <= RETRIES - retries /\ execs[cur] \in Nat
          BY <1>r, <2>1 DEF RwInv, ExecBound
        <4> QED BY <1>r, <4>1, <4>2 DEF Call
      <3> QED BY <1>t, <2>3, <3>1, <3>2
    <2>6. ExecOrder'
      <3> SUFFICES ASSUME NEW k \in 1..Len(wire'), NEW j \in Call, execs[j] >= 1
                   PROVE  j <= wire'[k].id
        BY <2>1 DEF ExecOrder
      <3>1. CASE k \in 1..Len(wire)
        BY <2>3, <3>1 DEF RwInv, ExecOrder
      <3>2. CASE k = Len(wire) + 1
        <4>1. wire'[k].id = cur
          BY <2>2, <2>3, <3>2
        <4>2. ~(j > cur)
          BY DEF RwInv, ExecBound
        <4> QED BY <1>r, <4>1, <4>2 DEF Call
      <3> QED BY <1>t, <2>3, <3>1, <3>2
    <2>7. ExecBound'
      BY <1>r, <2>1 DEF RwInv, ExecBound, Call
    <2> QED BY <2>4, <2>5, <2>6, <2>7 DEF WireInv
  <1>4. CASE Execute
    <2>1. /\ wire # <<>> /\ wire' = Tail(wire) /\ cur' = cur /\ retries' = retries
          /\ execs' = [execs EXCEPT ![Head(wire).id] = @ + 1]
          /\ Head(wire) = wire[1]
      BY <1>4, <1>r DEF Execute
    <2>2. /\ 1 \in 1..Len(wire)
          /\ Len(wire') = Len(wire) - 1
          /\ \A k \in 1..Len(wire') : wire'[k] = wire[k+1] /\ k+1 \in 1..Len(wire)
      BY <1>r, <1>t, <2>1, HeadTailProperties, EmptySeq
    <2>3. WireOrder'
      <3> SUFFICES ASSUME NEW k \in 1..Len(wire'), NEW l \in 1..Len(wire'), k < l
                   PROVE  /\ wire'[k].id <= wire'[l].id
                          /\ wire'[k].id = wire'[l].id => wire'[k].try < wire'[l].try
        BY DEF WireOrder
      <3>1. /\ wire'[k] = wire[k+1] /\ k+1 \in 1..Len(wire)
            /\ wire'[l] = wire[l+1] /\ l+1 \in 1..Len(wire)
        BY <2>2
      <3>2. k+1 < l+1
        OBVIOUS
      <3> QED BY <3>1, <3>2 DEF RwInv, WireOrder
    <2>i. /\ wire[1].id \in Call /\ wire[1].try \in 1..RETRIES
          /\ execs' = [execs EXCEPT ![wire[1].id] = execs[wire[1].id] + 1]
          /\ execs[wire[1].id] < wire[1].try /\ wire[1].id <= cur
          /\ wire[1].id = cur => wire[1].try <= RETRIES - retries
      BY <1>t, <2>1, <2>2 DEF RwInv, WireTry
    <2>4. WireTry'
      <3> SUFFICES ASSUME NEW k \in 1..Len(wire')
                   PROVE  /\ wire'[k].id <= cur
                          /\ execs'[wire'[k].id] < wire'[k].try
                          /\ wire'[k].id = cur => wire'[k].try <= RETRIES - retries
        BY <2>1 DEF WireTry
      <3>1. wire'[k] = wire[k+1] /\ k+1 \in 1..Len(wire) /\ 1 < k+1
        BY <2>2
      <3>2. wire[1].id = wire[k+1].id => wire[1].try < wire[k+1].try
        BY <2>2, <3>1 DEF RwInv, WireOrder
      <3> QED BY <1>t, <1>r, <2>i, <3>1, <3>2 DEF RwInv, WireTry
    <2>5. ExecOrder'
      <3> SUFFICES ASSUME NEW k \in 1..Len(wire'), NEW j \in Call, execs'[j] >= 1
                   PROVE  j <= wire'[k].id
        BY DEF ExecOrder
      <3>1. wire'[k] = wire[k+1] /\ k+1 \in 1..Len(wire) /\ 1 < k+1
        BY <2>2
      <3>2. wire[1].id <= wire[k+1].id
        BY <2>2, <3>1 DEF RwInv, WireOrder
      <3> QED BY <1>r, <2>i, <3>1, <3>2 DEF RwInv, ExecOrder
    <2>6. ExecBound'
      <3> DEFINE h == wire[1].id
                 t == wire[1].try
      <3>1. /\ h \in Call /\ t \in 1..RETRIES /\ h <= cur
            /\ execs[h] < t /\ execs[h] \in Nat
            /\ h = cur => t <= RETRIES - retries
        BY <1>r, <2>i
      <3>2. \A j \in Call : execs'[j] = IF j = h THEN execs[h] + 1 ELSE execs[j]
        BY <1>r, <2>i
      <3> HIDE DEF h, t
      <3>3. ASSUME NEW j \in Call
            PROVE  /\ execs'[j] <= RETRIES
                   /\ j = cur => execs'[j] <= RETRIES - retries
                   /\ j > cur => execs'[j] = 0
        <4>1. CASE j = h
          BY <1>r, <3>1, <3>2, <4>1 DEF Call
        <4>2. CASE j # h
          BY <3>2, <4>2 DEF RwInv, ExecBound
        <4> QED BY <4>1, <4>2
      <3> QED BY <2>1, <3>3 DEF ExecBound
    <2> QED BY <2>3, <2>4, <2>5, <2>6 DEF WireInv
  <1>5. CASE LoseRequest
    <2>1. wire # <<>> /\ wire' = Tail(wire) /\ UNCHANGED <<cur, retries, execs>>
      BY <1>5 DEF LoseRequest
    <2>2. /\ Len(wire') = Len(wire) - 1
          /\ \A k \in 1..Len(wire') : wire'[k] = wire[k+1] /\ k+1 \in 1..Len(wire)
      BY <1>r, <1>t, <2>1, HeadTailProperties
    <2>3. WireOrder'
      <3> SUFFICES ASSUME NEW k \in 1..Len(wire'), NEW l \in 1..Len(wire'), k < l
                   PROVE  /\ wire'[k].id <= wire'[l].id
                          /\ wire'[k].id = wire'[l].id => wire'[k].try < wire'[l].try
        BY DEF WireOrder
      <3>1. /\ wire'[k] = wire[k+1] /\ k+1 \in 1..Len(wire)
            /\ wire'[l] = wire[l+1] /\ l+1 \in 1..Len(wire)
        BY <2>2
      <3>2. k+1 < l+1
        OBVIOUS
      <3> QED BY <3>1, <3>2 DEF RwInv, WireOrder
    <2>4. WireTry' /\ ExecOrder' /\ ExecBound'
      BY <1>t, <2>1, <2>2 DEF RwInv, WireTry, ExecOrder, ExecBound
    <2> QED BY <2>3, <2>4 DEF WireInv
  <1> QED BY <1>1, <1>2, <1>3, <1>4, <1>5
          DEF Next, Client, Link, vars, GiveUp, ReadGood, ReadBad, ReadError,
              Deliver, DeliverHead, LoseReply, Garble

\* Executions are never taken back.
LEMMA ExecsGrow ==
    TypeOK /\ [Next]_vars =>
        \A j \in Call : execs'[j] >= execs[j] /\ execs[j] \in Nat
  <1> SUFFICES ASSUME TypeOK, [Next]_vars, NEW j \in Call
               PROVE  execs'[j] >= execs[j] /\ execs[j] \in Nat
    OBVIOUS
  <1>1. execs \in [Call -> Nat]
    BY DEF TypeOK
  <1>2. CASE execs' = execs
    BY <1>1, <1>2
  <1>3. CASE Execute
    BY <1>1, <1>3 DEF Execute
  <1> QED BY <1>2, <1>3
          DEF Next, Client, Link, vars, CallRw, GiveUp, Write, ReadGood,
              ReadBad, ReadError, LoseRequest, Deliver, DeliverHead,
              LoseReply, Garble

\* A reply is only ever under way for a call the BMS has executed.
LEMMA ExecutedStep == RwInv /\ [Next]_vars => Executed'
  <1> SUFFICES ASSUME RwInv, [Next]_vars PROVE Executed'
    OBVIOUS
  <1>0. TypeOK
    BY DEF RwInv
  <1>t. /\ \A k \in 1..Len(wire) : wire[k].id \in Call
        /\ \A k \in 1..Len(back) : back[k].id \in Call
        /\ \A k \in 1..Len(rx) : rx[k].id \in Call
        /\ Len(wire) \in Nat /\ Len(back) \in Nat /\ Len(rx) \in Nat
    BY <1>0, QueueTypes
  <1>s. /\ wire \in Seq(Request) /\ back \in Seq(Fragment) /\ rx \in Seq(Fragment)
        /\ execs \in [Call -> Nat]
    BY <1>0 DEF TypeOK
  <1>g. \A j \in Call : execs[j] >= 1 => execs'[j] >= 1
    <2> SUFFICES ASSUME NEW j \in Call, execs[j] >= 1 PROVE execs'[j] >= 1
      OBVIOUS
    <2>1. execs'[j] >= execs[j] /\ execs[j] \in Nat /\ execs'[j] \in Nat
      BY <1>0, ExecsGrow, TypeStep DEF TypeOK
    <2> QED BY <2>1
  <1>b. \A k \in 1..Len(back) : execs'[back[k].id] >= 1
    BY <1>t, <1>g DEF RwInv, Executed
  <1>x. \A k \in 1..Len(rx) : execs'[rx[k].id] >= 1
    BY <1>t, <1>g DEF RwInv, Executed
  <1>e. \A f : f = <<>> => \A k \in 1..Len(f) : FALSE
    OBVIOUS
  <1>1. CASE UNCHANGED back /\ rx' \in {rx, <<>>}
    BY <1>1, <1>b, <1>x, <1>e DEF Executed
  <1>2. CASE Execute
    <2> DEFINE new == [id |-> Head(wire).id, part |-> "whole"]
    <2>1. Head(wire) = wire[1] /\ 1 \in 1..Len(wire)
      BY <1>2, <1>s, <1>t, EmptySeq DEF Execute
    <2>2. Head(wire).id \in Call /\ new \in Fragment /\ new.id = Head(wire).id
      BY <1>t, <2>1 DEF Fragment
    <2>3. execs'[new.id] >= 1
      BY <1>2, <1>s, <2>2 DEF Execute
    <2>4. back' = Append(back, new) /\ rx' = rx
      BY <1>2 DEF Execute
    <2> HIDE DEF new
    <2>5. /\ Len(back') = Len(back) + 1
          /\ \A k \in 1..Len(back) : back'[k] = back[k]
          /\ back'[Len(back) + 1] = new
      BY <1>s, <2>2, <2>4, AppendProperties
    <2>6. \A k \in 1..Len(back') : execs'[back'[k].id] >= 1
      BY <1>t, <1>b, <2>3, <2>5
    <2> QED BY <1>x, <2>4, <2>6 DEF Executed
  <1>3. ASSUME NEW f \in Fragment, back # <<>>, f.id = back[1].id,
               rx' = Append(rx, f)
        PROVE  \A k \in 1..Len(rx') : execs'[rx'[k].id] >= 1
    <2>1. execs'[f.id] >= 1
      BY <1>3, <1>b, <1>s, <1>t, EmptySeq
    <2>2. /\ Len(rx') = Len(rx) + 1
          /\ \A k \in 1..Len(rx) : rx'[k] = rx[k]
          /\ rx'[Len(rx) + 1] = f
      BY <1>s, <1>3, AppendProperties
    <2> QED BY <1>t, <1>x, <2>1, <2>2
  <1>4. ASSUME back # <<>>, back' = Tail(back)
        PROVE  \A k \in 1..Len(back') : execs'[back'[k].id] >= 1
    <2>1. /\ Len(back') = Len(back) - 1
          /\ \A k \in 1..Len(back') : back'[k] = back[k+1] /\ k+1 \in 1..Len(back)
      BY <1>s, <1>t, <1>4, HeadTailProperties
    <2> QED BY <1>b, <2>1
  <1>5. ASSUME back # <<>>, NEW v, back' = [back EXCEPT ![1] = [back[1] EXCEPT !.part = v]],
               v \in {"tail", "bad"}
        PROVE  \A k \in 1..Len(back') : execs'[back'[k].id] >= 1
    <2>1. 1 \in 1..Len(back) /\ back[1] \in Fragment
      BY <1>5, <1>s, <1>t, EmptySeq, ElementOfSeq
    <2>2. /\ [back[1] EXCEPT !.part = v] \in Fragment
          /\ [back[1] EXCEPT !.part = v].id = back[1].id
      BY <1>5, <2>1 DEF Fragment
    <2>3. /\ Len(back') = Len(back)
          /\ \A k \in 1..Len(back) : back'[k].id = back[k].id
      BY <1>5, <1>s, <2>1, <2>2, ExceptSeq
    <2> QED BY <1>b, <2>3
  <1>6. CASE Deliver
    <2>1. /\ back # <<>> /\ rx' = Append(rx, Head(back)) /\ back' = Tail(back)
          /\ Head(back) = back[1] /\ Head(back) \in Fragment
      BY <1>6, <1>s, HeadTailProperties DEF Deliver
    <2> QED BY <1>3, <1>4, <2>1 DEF Executed
  <1>7. CASE DeliverHead
    <2>1. /\ back # <<>> /\ rx' = Append(rx, [Head(back) EXCEPT !.part = "head"])
          /\ back' = [back EXCEPT ![1] = [back[1] EXCEPT !.part = "tail"]]
          /\ Head(back) = back[1] /\ Head(back) \in Fragment
      BY <1>7, <1>s, HeadTailProperties DEF DeliverHead
    <2>2. /\ [Head(back) EXCEPT !.part = "head"] \in Fragment
          /\ [Head(back) EXCEPT !.part = "head"].id = back[1].id
      BY <2>1 DEF Fragment
    <2> QED BY <1>3, <1>5, <2>1, <2>2 DEF Executed
  <1>8. CASE LoseReply
    BY <1>4, <1>8, <1>x DEF LoseReply, Executed
  <1>9. CASE Garble
    <2>1. /\ back # <<>> /\ rx' = rx
          /\ back' = [back EXCEPT ![1] = [back[1] EXCEPT !.part = "bad"]]
      BY <1>9 DEF Garble
    <2> QED BY <1>5, <2>1, <1>x DEF Executed
  <1> QED BY <1>1, <1>2, <1>6, <1>7, <1>8, <1>9
          DEF Next, Client, Link, vars, CallRw, GiveUp, Write, ReadGood,
              ReadBad, ReadError, LoseRequest

\* The reply a ReadGood step accepts is of an executed call, not later than
\* the current one, to the same register.
LEMMA AcceptedReply ==
    RwInv /\ ReadGood =>
        \E a \in 1..cur : /\ a \in Call
                          /\ answer' = [answer EXCEPT ![cur] = a]
                          /\ execs[a] >= 1
                          /\ Script[a].reg = Script[cur].reg
  <1> SUFFICES ASSUME RwInv, ReadGood
               PROVE  \E a \in 1..cur : /\ a \in Call
                                        /\ answer' = [answer EXCEPT ![cur] = a]
                                        /\ execs[a] >= 1
                                        /\ Script[a].reg = Script[cur].reg
    OBVIOUS
  <1>0. TypeOK
    BY DEF RwInv
  <1>1. Len(rx) \in {1, 2}
    BY DEF ReadGood, Verify, Intact
  <1>2. \A n \in {1, 2} : n \in 1..n
    OBVIOUS
  <1>3. rx[Len(rx)].id \in Call /\ execs[rx[Len(rx)].id] >= 1
    BY <1>0, <1>1, <1>2, QueueTypes DEF RwInv, Executed
  <1>4. rx[Len(rx)].id \in 1..cur
    <2> DEFINE a == rx[Len(rx)].id
    <2>1. a \in Call /\ execs[a] >= 1
      BY <1>3
    <2> HIDE DEF a
    <2>2. ~(a > cur)
      BY <2>1 DEF RwInv, ExecBound
    <2>3. cur \in 0..N
      BY <1>0 DEF TypeOK
    <2>4. a \in 1..cur
      BY <2>1, <2>2, <2>3, NAssumption DEF Call
    <2> QED BY <2>4 DEF a
  <1>5. Script[rx[Len(rx)].id].reg = Script[cur].reg
    BY DEF ReadGood, Verify
  <1>6. answer' = [answer EXCEPT ![cur] = rx[Len(rx)].id]
    BY DEF ReadGood, Return
  <1> QED BY <1>3, <1>4, <1>5, <1>6

\* Every step keeps accepted replies answers of executed calls to the same
\* register.
LEMMA AnswersStep == RwInv /\ [Next]_vars => AnswersSameRegister'
  <1> SUFFICES ASSUME RwInv, [Next]_vars, NEW i \in Call, result'[i] = "ok"
               PROVE  /\ answer'[i] \in 1..i
                      /\ Script[answer'[i]].reg = Script[i].reg
                      /\ execs'[answer'[i]] >= 1
    BY DEF AnswersSameRegister
  <1>0. TypeOK
    BY DEF RwInv
  <1>s. /\ result \in [Call -> {"none", "ok", "fail"}]
        /\ answer \in [Call -> 0..N] /\ cur \in 0..N
        /\ pc # "idle" => cur \in Call
    BY <1>0 DEF TypeOK
  <1>g. \A j \in Call : execs[j] >= 1 => execs'[j] >= 1
    <2> SUFFICES ASSUME NEW j \in Call, execs[j] >= 1 PROVE execs'[j] >= 1
      OBVIOUS
    <2>1. execs'[j] >= execs[j] /\ execs[j] \in Nat /\ execs'[j] \in Nat
      BY <1>0, ExecsGrow, TypeStep DEF TypeOK
    <2> QED BY <2>1
  <1>1. CASE result[i] = "ok" /\ answer'[i] = answer[i]
    <2>1. /\ answer[i] \in 1..i
          /\ Script[answer[i]].reg = Script[i].reg
          /\ execs[answer[i]] >= 1
      BY <1>1 DEF RwInv, AnswersSameRegister
    <2>2. answer[i] \in Call
      BY <2>1, NAssumption DEF Call
    <2> QED BY <1>1, <1>g, <2>1, <2>2
  <1>2. CASE ReadGood /\ i = cur
    <2>1. PICK a \in 1..cur : /\ a \in Call
                              /\ answer' = [answer EXCEPT ![cur] = a]
                              /\ execs[a] >= 1
                              /\ Script[a].reg = Script[cur].reg
      BY <1>2, AcceptedReply
    <2>2. answer'[i] = a
      BY <1>2, <1>s, <2>1
    <2> QED BY <1>2, <1>g, <2>1, <2>2
  <1>3. CASE ReadGood /\ i # cur
    <2>1. result'[i] = result[i] /\ answer'[i] = answer[i]
      BY <1>3, <1>s DEF ReadGood, Return
    <2> QED BY <1>1, <2>1
  <1>4. CASE GiveUp \/ ReadError
    <2>1. /\ cur \in Call
          /\ result' = [result EXCEPT ![cur] = "fail"]
          /\ answer' = [answer EXCEPT ![cur] = 0]
      BY <1>4, <1>s DEF GiveUp, ReadError, Return
    <2>2. i # cur /\ result[i] = "ok" /\ answer'[i] = answer[i]
      BY <1>s, <2>1
    <2> QED BY <1>1, <2>2
  <1>5. CASE UNCHANGED <<result, answer>>
    BY <1>1, <1>5
  <1> QED BY <1>2, <1>3, <1>4, <1>5
          DEF Next, Client, Link, vars, CallRw, Write, ReadBad, Execute,
              LoseRequest, Deliver, DeliverHead, LoseReply, Garble

\* No step forgets a call made, and only a call made gets on the wire.
LEMMA MadeStep == RwInv /\ [Next]_vars => MadeOnly'
  <1> SUFFICES ASSUME RwInv, [Next]_vars PROVE MadeOnly'
    OBVIOUS
  <1>0. TypeOK
    BY DEF RwInv
  <1>t. /\ \A k \in 1..Len(wire) : wire[k].id \in Call
        /\ Len(wire) \in Nat
    BY <1>0, QueueTypes
  <1>s. /\ result \in [Call -> {"none", "ok", "fail"}]
        /\ execs \in [Call -> Nat] /\ cur \in 0..N
        /\ wire \in Seq(Request)
        /\ pc # "idle" => cur \in Call
        /\ pc \in {"idle", "top", "read"}
    BY <1>0 DEF TypeOK
  <1>m. MadeOnly
    BY DEF RwInv
  <1>1. CASE UNCHANGED <<pc, cur, result, wire, execs>>
    BY <1>1, <1>m DEF MadeOnly, Made
  <1>2. CASE CallRw
    <2>1. /\ pc = "idle" /\ pc' = "top" /\ cur' > cur
          /\ UNCHANGED <<result, wire, execs>>
      BY <1>2 DEF CallRw
    <2>2. \A j \in Call : Made(j) => Made(j)'
      BY <1>m, <1>s, <2>1 DEF MadeOnly, Made
    <2> QED BY <1>m, <1>t, <2>1, <2>2 DEF MadeOnly
  <1>3. CASE GiveUp \/ ReadGood \/ ReadError
    <2>1. /\ cur \in Call /\ cur' = cur /\ UNCHANGED <<wire, execs>>
          /\ \E v \in {"ok", "fail"} : result' = [result EXCEPT ![cur] = v]
      BY <1>3, <1>s DEF GiveUp, ReadGood, ReadError, Return
    <2>2. result'[cur] # "none"
      BY <1>s, <2>1
    <2>3. \A j \in Call : Made(j) => Made(j)'
      BY <1>s, <2>1 DEF Made
    <2> QED BY <1>m, <1>t, <2>1, <2>2, <2>3 DEF MadeOnly
  <1>4. CASE Write
    <2> DEFINE new == [id |-> cur, try |-> RETRIES - retries']
    <2>1. /\ pc = "top" /\ pc' = "read" /\ cur' = cur
          /\ UNCHANGED <<result, execs>> /\ wire' = Append(wire, new)
      BY <1>4 DEF Write
    <2>2. new \in Request /\ new.id = cur
      BY <1>0, <1>4, RetriesAssumption DEF Write, TypeOK, Request
    <2> HIDE DEF new
    <2>3. /\ Len(wire') = Len(wire) + 1
          /\ \A k \in 1..Len(wire) : wire'[k] = wire[k]
          /\ wire'[Len(wire) + 1] = new
      BY <1>s, <2>1, <2>2, AppendProperties
    <2>4. \A j : Made(j)' <=> Made(j)
      BY <2>1 DEF Made
    <2>5. (\A k \in 1..Len(wire) : Made(wire[k].id))'
      <3> SUFFICES ASSUME NEW k \in 1..Len(wire') PROVE Made(wire'[k].id)
        BY <2>4
      <3>1. CASE k \in 1..Len(wire)
        BY <1>m, <2>3, <3>1 DEF MadeOnly
      <3>2. CASE k = Len(wire) + 1
        BY <2>2, <2>3, <3>2 DEF Made
      <3> QED BY <1>t, <2>3, <3>1, <3>2
    <2>6. \A j \in Call : execs'[j] >= 1 => Made(j)'
      BY <1>m, <2>1, <2>4 DEF MadeOnly
    <2>7. pc' # "idle"
      BY <2>1
    <2> QED BY <2>5, <2>6, <2>7 DEF MadeOnly
  <1>5. CASE ReadBad
    BY <1>5, <1>m DEF ReadBad, MadeOnly, Made
  <1>6. ASSUME wire # <<>>, wire' = Tail(wire)
        PROVE  /\ Len(wire') = Len(wire) - 1
               /\ \A k \in 1..Len(wire') : wire'[k] = wire[k+1] /\ k+1 \in 1..Len(wire)
    BY <1>s, <1>t, <1>6, HeadTailProperties
  <1>7. CASE Execute
    <2>1. /\ wire # <<>> /\ wire' = Tail(wire) /\ UNCHANGED <<pc, cur, result>>
          /\ execs' = [execs EXCEPT ![Head(wire).id] = @ + 1]
          /\ Head(wire) = wire[1]
      BY <1>7, <1>s DEF Execute
    <2>2. 1 \in 1..Len(wire)
      BY <1>s, <1>t, <2>1, EmptySeq
    <2>3. \A j : Made(j)' <=> Made(j)
      BY <2>1 DEF Made
    <2>4. Made(wire[1].id) /\ wire[1].id \in Call
      BY <1>m, <1>t, <2>2 DEF MadeOnly
    <2>5. \A j \in Call : execs'[j] >= 1 => Made(j)
      <3> SUFFICES ASSUME NEW j \in Call, execs'[j] >= 1 PROVE Made(j)
        OBVIOUS
      <3>1. CASE j = wire[1].id
        BY <2>4, <3>1
      <3>2. CASE j # wire[1].id
        BY <1>m, <1>s, <2>1, <2>4, <3>2 DEF MadeOnly
      <3> QED BY <3>1, <3>2
    <2>6. \A k \in 1..Len(wire') : Made(wire'[k].id)
      BY <1>6, <1>m, <2>1 DEF MadeOnly
    <2> QED BY <1>m, <2>1, <2>3, <2>5, <2>6 DEF MadeOnly
  <1>8. CASE LoseRequest
    <2>1. /\ wire # <<>> /\ wire' = Tail(wire)
          /\ UNCHANGED <<pc, cur, result, execs>>
      BY <1>8 DEF LoseRequest
    <2>2. \A j : Made(j)' <=> Made(j)
      BY <2>1 DEF Made
    <2>3. \A k \in 1..Len(wire') : Made(wire'[k].id)
      BY <1>6, <1>m, <2>1 DEF MadeOnly
    <2> QED BY <1>m, <2>1, <2>2, <2>3 DEF MadeOnly
  <1> QED BY <1>1, <1>2, <1>3, <1>4, <1>5, <1>7, <1>8
          DEF Next, Client, Link, vars, Deliver, DeliverHead, LoseReply, Garble

-----------------------------------------------------------------------------
\* The strengthened invariant of the exchange, for every script.
THEOREM RwInvariant == Spec => []RwInv
  <1>1. RwInv /\ [Next]_vars => RwInv'
    <2>1. RwInv => TypeOK
      BY DEF RwInv
    <2> QED BY <2>1, TypeStep, WireStep, ExecutedStep, MadeStep, AnswersStep
           DEF RwInv, WireInv
  <1> QED BY InitRwInv, <1>1, PTL DEF Spec

\* Type correctness of jbd_rw's state and of the link.
THEOREM TypeCorrect == Spec => []TypeOK
  <1>1. RwInv => TypeOK
    BY DEF RwInv
  <1> QED BY RwInvariant, <1>1, PTL

\* However late, duplicated, split or lost its messages are, jbd_rw accepts
\* only replies of executed calls to the register it asked for.
THEOREM AnswersAreOfTheRegister == Spec => []AnswersSameRegister
  <1>1. RwInv => AnswersSameRegister
    BY DEF RwInv
  <1> QED BY RwInvariant, <1>1, PTL

\* The retry loop of jbd_rw executes no request more than RETRIES times.
THEOREM RetriesBound == Spec => []AtMostRetries
  <1>1. RwInv => AtMostRetries
    BY DEF RwInv, ExecBound, AtMostRetries
  <1> QED BY RwInvariant, <1>1, PTL

\* When no call made before has its register, the answer accepted for a call
\* is the call's own.
LEMMA OwnAnswer ==
    RwInv => \A i \in Call : result[i] = "ok" /\ Alone(i) => answer[i] = i /\ execs[i] >= 1
  <1> SUFFICES ASSUME RwInv, NEW i \in Call, result[i] = "ok", Alone(i)
               PROVE  answer[i] = i /\ execs[i] >= 1
    OBVIOUS
  <1>1. /\ answer[i] \in 1..i
        /\ Script[answer[i]].reg = Script[i].reg
        /\ execs[answer[i]] >= 1
    BY DEF RwInv, AnswersSameRegister
  <1>2. answer[i] \in Call
    BY <1>1, NAssumption DEF Call
  <1>3. Made(answer[i])
    BY <1>1, <1>2 DEF RwInv, MadeOnly
  <1>4. answer[i] \notin 1..(i - 1)
    BY <1>1, <1>3 DEF Alone
  <1> QED BY <1>1, <1>4, NAssumption DEF Call

\* A successful jbd_rw was executed by the BMS when no call made before it
\* was to its register.
THEOREM SuccessIsGenuine == Spec => []GenuineSuccess
  <1>1. RwInv => GenuineSuccess
    BY OwnAnswer DEF GenuineSuccess
  <1> QED BY RwInvariant, <1>1, PTL

\* After such a success nothing earlier can still reach the BMS: no write is executed after jbd_eeprom_end() was acknowledged.
THEOREM SuccessSettles == Spec => []SettledBySuccess
  <1>1. RwInv => SettledBySuccess
    BY OwnAnswer DEF RwInv, ExecOrder, SettledBySuccess
  <1> QED BY RwInvariant, <1>1, PTL

-----------------------------------------------------------------------------
\* Every step of jbd_rw and of the link is a step of the at-least-once call,
\* or a stutter.
LEMMA StepSimulation ==
    RwInv /\ RwInv' /\ [Next]_vars => [AllAlone => Rpc!Next]_(Rpc!avars)
  <1> SUFFICES ASSUME RwInv, RwInv', [Next]_vars, AllAlone
               PROVE  Rpc!Next \/ UNCHANGED Rpc!avars
    OBVIOUS
  <1>s. /\ TypeOK
        /\ result \in [Call -> {"none", "ok", "fail"}]
        /\ execs \in [Call -> Nat] /\ cur \in 0..N
        /\ pc # "idle" => cur \in Call
        /\ wire \in Seq(Request)
    BY DEF RwInv, TypeOK
  <1>1. CASE CallRw
    BY <1>1, Zenon DEF CallRw, Call, Rpc!Next, Rpc!Call
  <1>2. CASE GiveUp \/ ReadError
    BY <1>2 DEF GiveUp, ReadError, Return, Rpc!Next, Rpc!Fail
  <1>3. CASE ReadGood
    <2>1. /\ pc # "idle" /\ cur \in Call /\ cur' = cur /\ execs' = execs
          /\ result' = [result EXCEPT ![cur] = "ok"] /\ pc' = "idle"
      BY <1>3, <1>s DEF ReadGood, Return
    <2>2. result'[cur] = "ok"
      BY <1>s, <2>1
    <2>3. execs[cur] >= 1
      <3>1. PICK a \in 1..cur : /\ a \in Call /\ execs[a] >= 1
                                /\ Script[a].reg = Script[cur].reg
        BY <1>3, AcceptedReply
      <3>2. Made(a) /\ Alone(cur)
        BY <1>s, <2>1, <3>1 DEF RwInv, MadeOnly, AllAlone, Made
      <3>3. a \notin 1..(cur - 1)
        BY <3>1, <3>2 DEF Alone
      <3> QED BY <1>s, <3>1, <3>3, NAssumption DEF Call
    <2> QED BY <2>1, <2>3 DEF Rpc!Next, Rpc!Succeed
  <1>4. CASE Execute
    <2> DEFINE h == wire[1].id
    <2>1. Head(wire) = wire[1] /\ 1 \in 1..Len(wire) /\ h \in Call
      BY <1>4, <1>s, QueueTypes, EmptySeq DEF Execute
    <2>2. /\ execs' = [execs EXCEPT ![h] = @ + 1]
          /\ UNCHANGED <<cur, pc, result>>
      BY <1>4, <2>1 DEF Execute
    <2>3. h <= cur /\ execs[h] < wire[1].try /\ wire[1].try \in 1..RETRIES
      BY <1>s, <2>1, QueueTypes DEF RwInv, WireTry
    <2>4. execs[h] < RETRIES
      BY <1>s, <2>1, <2>3, RetriesAssumption
    <2>5. \A j \in 1..N : j > h => execs[j] = 0
      BY <1>s, <2>1, NAssumption DEF RwInv, ExecOrder, Call
    <2> HIDE DEF h
    <2>6. Rpc!Exec
      BY <2>1, <2>2, <2>3, <2>4, <2>5 DEF Rpc!Exec, Call
    <2> QED BY <2>6 DEF Rpc!Next
  <1>5. CASE UNCHANGED <<cur, execs, result>> /\ (pc' # "idle") = (pc # "idle")
    BY <1>5 DEF Rpc!avars
  <1>6. ASSUME Write \/ ReadBad \/ LoseRequest \/ Deliver \/ DeliverHead \/
               LoseReply \/ Garble \/ UNCHANGED vars
        PROVE  UNCHANGED <<cur, execs, result>> /\ (pc' # "idle") = (pc # "idle")
    BY <1>6 DEF Write, ReadBad, LoseRequest, Deliver, DeliverHead, LoseReply,
                Garble, vars
  <1> QED BY <1>1, <1>2, <1>3, <1>4, <1>5, <1>6 DEF Next, Client, Link

\* jbd_rw over an arbitrary FIFO link implements the at-least-once call as
\* long as no two calls made have the same register.
THEOREM RwImplementsRpc == Spec => ImplementsRpc
  <1>1. Init => Rpc!Init
    BY DEF Init, Rpc!Init, Call
  <1> QED BY <1>1, RwInvariant, StepSimulation, PTL DEF Spec, ImplementsRpc
=============================================================================
