----------------------------- MODULE SessionProofs -----------------------------
(***************************************************************************)
(* Theorems about Session, for every set of command lines, every number of *)
(* parameters and items and every number of faults.                        *)
(*                                                                         *)
(* BracketInv follows the EEPROM through a block and needs nothing of the  *)
(* plan.  The rest relates the current block to the command line: what is  *)
(* left of the plan is an end of it (PlanInv), so the block that sets FETs *)
(* is the first one, and the one that writes items is the only writer.     *)
(* Of an answer that may come late it is enough to know that it shows its  *)
(* register after some of the items so far (LateKnown).                    *)
(***************************************************************************)
EXTENDS Session, SequenceTheorems, TLAPS

Before == {"next", "info", "start"}
Inside == {"loop", "modify", "fset", "reset", "freset", "end"}
After  == {"close", "end2"}

\* Where main() is in a block, and what the transport is there.
Shape == /\ pc \in Before \cup Inside \cup After \cup {"exit"}
         /\ pc \notin {"next", "end2", "exit"} => tp = "open"
         /\ pc \in {"next", "end2"} => tp = "closed"
         /\ pc \notin {"next", "exit"} => plan # <<>>
         /\ code \in {-1, 0, 1} /\ (pc = "exit") = (code # -1)
         /\ faults \in Nat

\* The answers that may come late: those to START carry nothing.
Answers == [ret : {0, 2}, data : Word]

LinkInv == /\ late \in [Reg \cup {START} -> SUBSET Answers]
           /\ late[START] \subseteq {Empty}
           /\ misled # {} => faults # 0

\* Inside the bracket the start was acknowledged, by an earlier answer at worst;
\* outside of it, on a quiet link, the EEPROM is shut.
BracketInv == /\ pc \in Before \cup After => bracket # "in" /\ (faults = 0 => eeprom = "shut")
              /\ pc \in Inside => bracket = "in"
              /\ pc \in {"loop", "modify", "fset"} => eeprom = "open" \/ START \in misled
              /\ CleanExit

\* What is left to do is an end of the command line.
PlanInv == /\ job.plan \in Plans
           /\ \E n \in 0..Len(job.plan) : plan = SubSeq(job.plan, n + 1, Len(job.plan))

FetFirst == job.plan[1].kind = "fet"

\* That block has no loop and no reset, and only it sets FETs.
FetPlace == pc \notin {"next", "exit"} =>
               /\ Kind = "fet" => pc \in {"info", "start", "fset", "end", "close"}
               /\ pc = "fset" => Kind = "fet"

\* The block of -g and -G is past its write.
FetDone == plan = <<>> \/ Kind # "fet" \/ pc \in {"end", "close", "exit"}

FetsSet == \A f \in Fet : /\ job.plan[1].want[f] = "off" => f \in off
                          /\ job.plan[1].want[f] = "on"  => f \notin off

FetInv == FetFirst /\ faults = 0 /\ FetDone => FetsSet

\* Without an empty answer or an active protection the mask is made of what is.
InfoTrue == FetFirst /\ ~emptied /\ prot = {} /\ pc \in {"start", "fset"} /\ Kind = "fet" =>
               info = Fet \ off

\* Nothing is written before the block of the writer, and nothing else was read.
Writer(b) == plan[b].kind \in WriteKinds
AllZero   == [r \in Reg |-> Zero]
Untouched == (\E b \in 1..Len(plan) : Writer(b) /\ (b > 1 \/ pc \in Before)) =>
                regs = AllZero /\ \A r \in Reg : \A a \in late[r] : a.data = Zero

\* A word that register r holds after some of the first n items.
Partly(items, n, r, w) == \E S \in SUBSET (1..n) : WordAfter(items, S, r, w)

LateKnown(items, n) ==
    \A r \in Reg : HasPacked(items, r) \/ \A a \in late[r] : Partly(items, n, r, a.data)

\* In the writer's loop the items before the current one are applied, or none is
\* because main() was misled about the start.
Done(n) == IF eeprom = "open" THEN RegsAfter(Written, n) ELSE regs = AllZero

LoopInv == /\ k \in Nat \ {0}
           /\ pc \in Before => k = 1
           /\ pc \in {"loop", "modify"} /\ Kind \in WriteKinds =>
                 /\ k - 1 <= Len(Written) /\ NoneRefused(Written, k - 1)
                 /\ Done(k - 1) /\ LateKnown(Written, k - 1)
           /\ pc = "modify" =>
                 /\ Kind \in WriteKinds /\ ~NoItemLeft
                 /\ Item.kind \in {"byte0", "byte1"} /\ data \in Word
                 /\ Item.reg \notin misled => data = regs[Item.reg]
                 /\ HasPacked(Written, Item.reg) \/ Partly(Written, k - 1, Item.reg, data)

WriteInv == /\ regs \in [Reg -> Word]
            /\ Untouched /\ LoopInv /\ AppliedInOrder

SessionInv == Shape /\ LinkInv /\ BracketInv /\ PlanInv /\ FetPlace /\ FetInv /\ InfoTrue /\ OtherFetKept /\ WriteInv

-----------------------------------------------------------------------------
(* What an exchange may return. *)

\* An exchange that one of the answers to earlier ones settles.
SettledBy(o, earlier) == \E a \in earlier : o.ret = a.ret /\ o.data = a.data

\* Only a read returns 2, and with what the BMS has.
TwoIsRead(o, act, value) == o.ret = 2 => act = "read" /\ o.data = value

\* 0 from a write means that the BMS has executed it or that an earlier answer
\* settled it, what a read returns is the BMS's or that of an earlier answer, and
\* without a fault every exchange is answered.
LEMMA OutcomeFacts ==
    ASSUME Shape, NEW act, NEW value, NEW earlier, NEW o \in Outcome(act, value, earlier), Cost(o)
    PROVE  /\ o.exec \in BOOLEAN /\ o.old \in BOOLEAN
           /\ faults' \in Nat /\ (faults' = 0 => faults = 0)
           /\ tp = "open" /\ faults' = 0 =>
                 o.exec /\ o.ret = (IF act = "read" THEN 2 ELSE 0)
           /\ tp = "closed" => o.exec = FALSE
           /\ o.old => faults' # 0 /\ SettledBy(o, earlier)
           /\ ~o.old => o.ret \in {-1, 0, 2} /\ (o.ret = 0 => o.exec)
           /\ ~o.old => TwoIsRead(o, act, value)
  <1> DEFINE with(a, x, c, s) == [ret |-> a.ret, data |-> a.data, exec |-> x, cost |-> c, old |-> s]
             failed == [ret |-> -1, data |-> Zero]
  <1>1. ASSUME o.cost \in {0, 1}
        PROVE  faults' \in Nat /\ (faults' = 0 => faults = 0) /\ (faults' = 0 => o.cost # 1)
    BY <1>1 DEF Shape, Cost
  <1>2. CASE tp = "closed"
    <2>1. o = with(failed, FALSE, 0, FALSE)
      BY <1>2 DEF Outcome
    <2>2. o.ret = -1 /\ o.exec = FALSE /\ o.cost = 0 /\ o.old = FALSE
      BY <2>1
    <2>3. o.ret \in {-1, 0, 2} /\ o.ret \notin {0, 2} /\ o.cost \in {0, 1}
      BY <2>2
    <2> HIDE DEF with, failed
    <2> QED BY <1>1, <1>2, <2>2, <2>3 DEF TwoIsRead
  <1>3. CASE tp # "closed"
    <2>1. \/ o = with(Answer(act, value), TRUE, 0, FALSE)
          \/ act = "read" /\ o = with(Empty, TRUE, 1, FALSE)
          \/ \E x \in BOOLEAN : o = with(failed, x, 1, FALSE)
          \/ \E a \in earlier, x \in BOOLEAN : o = with(a, x, 1, TRUE)
      BY <1>3 DEF Outcome
    <2>2. CASE o = with(Answer(act, value), TRUE, 0, FALSE)
      <3>1. /\ o.ret = (IF act = "read" THEN 2 ELSE 0) /\ o.exec = TRUE /\ o.cost = 0 /\ o.old = FALSE
            /\ act = "read" => o.data = value
        BY <2>2 DEF Answer, Empty
      <3>2. o.ret \in {-1, 0, 2} /\ (o.ret = 2 => act = "read")
        BY <3>1
      <3>3. TwoIsRead(o, act, value)
        BY <3>1, <3>2 DEF TwoIsRead
      <3> HIDE DEF with, failed
      <3> QED BY <1>1, <1>3, <3>1, <3>2, <3>3
    <2>3. CASE act = "read" /\ o = with(Empty, TRUE, 1, FALSE)
      <3>1. o.ret = 0 /\ o.ret # 2 /\ o.exec = TRUE /\ o.cost = 1 /\ o.old = FALSE
        BY <2>3 DEF Empty
      <3> HIDE DEF with, failed
      <3> QED BY <1>1, <1>3, <3>1 DEF TwoIsRead
    <2>4. CASE \E x \in BOOLEAN : o = with(failed, x, 1, FALSE)
      <3>1. o.ret = -1 /\ o.ret \notin {0, 2} /\ o.exec \in BOOLEAN /\ o.cost = 1 /\ o.old = FALSE
        BY <2>4
      <3> HIDE DEF with, failed
      <3> QED BY <1>1, <1>3, <3>1 DEF TwoIsRead
    <2>5. CASE \E a \in earlier, x \in BOOLEAN : o = with(a, x, 1, TRUE)
      <3>1. /\ o.exec \in BOOLEAN /\ o.cost = 1 /\ o.old = TRUE
            /\ SettledBy(o, earlier)
        BY <2>5 DEF SettledBy
      <3> HIDE DEF with, failed
      <3> QED BY <1>1, <1>3, <3>1 DEF TwoIsRead
    <2> QED BY <2>1, <2>2, <2>3, <2>4, <2>5
  <1> QED BY <1>2, <1>3

\* The same of a write, which returns 0 or -1 unless an earlier answer settles it.
LEMMA WriteFacts ==
    ASSUME Shape, NEW earlier, NEW o \in Outcome("write", Zero, earlier), Cost(o)
    PROVE  /\ o.exec \in BOOLEAN /\ o.old \in BOOLEAN
           /\ faults' \in Nat /\ (faults' = 0 => faults = 0)
           /\ tp = "open" /\ faults' = 0 => o.exec /\ o.ret = 0
           /\ o.old => faults' # 0 /\ SettledBy(o, earlier)
           /\ ~o.old => o.ret \in {-1, 0} /\ (o.ret = 0 => o.exec)
  <1>1. "write" # "read"
    OBVIOUS
  <1>2. o.exec \in BOOLEAN /\ o.old \in BOOLEAN
    BY OutcomeFacts
  <1>3. faults' \in Nat /\ (faults' = 0 => faults = 0)
    BY OutcomeFacts
  <1>4. tp = "open" /\ faults' = 0 => o.exec /\ o.ret = 0
    BY <1>1, OutcomeFacts
  <1>5. o.old => faults' # 0 /\ SettledBy(o, earlier)
    BY OutcomeFacts
  <1>6. ~o.old => o.ret \in {-1, 0, 2} /\ (o.ret = 0 => o.exec) /\ TwoIsRead(o, "write", Zero)
    BY OutcomeFacts
  <1>7. o.ret \in {-1, 0, 2} /\ TwoIsRead(o, "write", Zero) => o.ret \in {-1, 0}
    BY <1>1 DEF TwoIsRead
  <1> QED BY <1>2, <1>3, <1>4, <1>5, <1>6, <1>7

\* The same of a read.
LEMMA ReadFacts ==
    ASSUME Shape, NEW value, NEW earlier, NEW o \in Outcome("read", value, earlier), Cost(o)
    PROVE  /\ o.exec \in BOOLEAN /\ o.old \in BOOLEAN
           /\ o.old => SettledBy(o, earlier)
           /\ ~o.old => o.ret \in {-1, 0, 2} /\ TwoIsRead(o, "read", value)
  <1>1. o.exec \in BOOLEAN /\ o.old \in BOOLEAN
    BY OutcomeFacts
  <1>2. o.old => SettledBy(o, earlier)
    BY OutcomeFacts
  <1>3. ~o.old => o.ret \in {-1, 0, 2}
    BY OutcomeFacts
  <1>4. ~o.old => TwoIsRead(o, "read", value)
    BY OutcomeFacts
  <1> QED BY <1>1, <1>2, <1>3, <1>4

-----------------------------------------------------------------------------
(* Where main() is, and the bracket. *)

\* A holder of the lock begins outside of the bracket, with its first block.
LEMMA InitBracket == Init => Shape /\ BracketInv
  BY DEF Init, Shape, BracketInv, CleanExit, Before, Inside, After

\* jbd_eeprom_start(), and what its result decides.
LEMMA StartStep == Shape /\ LinkInv /\ BracketInv /\ Start => Shape' /\ BracketInv'
  <1> SUFFICES ASSUME Shape, LinkInv, BracketInv, Start PROVE Shape' /\ BracketInv'
    OBVIOUS
  <1>1. PICK o \in Outcome("write", Zero, late[START]) :
           /\ Exchanged("write", Zero, START, o)
           /\ eeprom' = IF o.exec THEN "open" ELSE eeprom
           /\ bracket' = IF o.ret = 0 THEN "in" ELSE bracket
           /\ IF AfterStart(o.ret) = "exit" THEN Exit(1) ELSE GoOn(AfterStart(o.ret))
    BY DEF Start
  <1>2. /\ pc = "start" /\ tp = "open" /\ plan # <<>> /\ bracket # "in"
        /\ faults = 0 => eeprom = "shut"
        /\ code = -1 /\ UNCHANGED <<plan, tp>>
    BY DEF Start, Shape, BracketInv, Before
  <1>3. /\ o.ret \in {-1, 0} /\ o.exec \in BOOLEAN /\ (o.ret = 0 => o.exec \/ START \in misled')
        /\ faults' \in Nat /\ (faults' = 0 => o.exec /\ o.ret = 0)
    <2>1. /\ o.exec \in BOOLEAN /\ faults' \in Nat
          /\ tp = "open" /\ faults' = 0 => o.exec /\ o.ret = 0
          /\ o.old => SettledBy(o, late[START])
          /\ ~o.old => o.ret \in {-1, 0, 2} /\ o.ret # 2 /\ (o.ret = 0 => o.exec)
          /\ o.old \in BOOLEAN
      <3>1. Cost(o)
        BY <1>1 DEF Exchanged
      <3>2. o.ret \in {-1, 0} => o.ret \in {-1, 0, 2} /\ o.ret # 2
        OBVIOUS
      <3> QED BY <3>1, <3>2, WriteFacts, Zenon
    <2>2. o.old => o.ret = 0 /\ START \in misled'
      BY <1>1, <2>1 DEF LinkInv, Empty, Exchanged, SettledBy
    <2> QED BY <1>2, <2>1, <2>2
  <1>4. CASE o.ret = 0
    <2>1. AfterStart(o.ret) \in {"fset", "reset", "loop"}
      BY <1>4 DEF AfterStart
    <2>2. pc' \in {"fset", "reset", "loop"} /\ code' = -1 /\ bracket' = "in"
          /\ (eeprom' = "open" \/ START \in misled')
          /\ (faults' = 0 => eeprom' = "open")
      BY <1>1, <1>2, <1>3, <1>4, <2>1 DEF GoOn
    <2> QED BY <1>2, <1>3, <2>2 DEF Shape, BracketInv, CleanExit, Before, Inside, After
  <1>5. CASE o.ret = -1
    <2>1. AfterStart(o.ret) \in {"close", "exit"}
      BY <1>5 DEF AfterStart
    <2>2. /\ \/ pc' = "close" /\ code' = -1
             \/ pc' = "exit" /\ code' = 1
          /\ bracket' = bracket /\ faults' # 0
      BY <1>1, <1>2, <1>3, <1>5, <2>1 DEF GoOn, Exit
    <2> QED BY <1>2, <1>3, <2>2 DEF Shape, BracketInv, CleanExit, Before, Inside, After
  <1> QED BY <1>3, <1>4, <1>5

\* jbd_eeprom_end() shuts the EEPROM when nothing goes wrong, and does nothing
\* on a transport that is closed.
LEMMA EndFacts ==
    ASSUME Shape, EndExchange
    PROVE  /\ faults' \in Nat /\ (faults' = 0 => faults = 0)
           /\ tp = "open" /\ faults' = 0 => eeprom' = "shut"
           /\ tp = "closed" => eeprom' = eeprom
  <1>1. PICK o \in Outcome("write", Zero, {}) :
           Cost(o) /\ eeprom' = IF o.exec THEN "shut" ELSE eeprom
    BY DEF EndExchange
  <1>2. /\ faults' \in Nat /\ (faults' = 0 => faults = 0)
        /\ tp = "open" /\ faults' = 0 => o.exec
        /\ tp = "closed" => o.exec = FALSE
    BY <1>1, OutcomeFacts
  <1> QED BY <1>1, <1>2

\* Faults, empty answers, an active protection and a register whose calls were
\* misled are never forgotten.
LEMMA HistoryGrows ==
    Shape /\ [Next]_vars =>
       /\ faults' \in Nat /\ (faults' = 0 => faults = 0)
       /\ (emptied => emptied') /\ prot \subseteq prot' /\ misled \subseteq misled'
  <1> SUFFICES ASSUME Shape, [Next]_vars
               PROVE  /\ faults' \in Nat /\ (faults' = 0 => faults = 0)
                      /\ (emptied => emptied') /\ prot \subseteq prot' /\ misled \subseteq misled'
    OBVIOUS
  <1>1. CASE Finish \/ Open \/ Close \/ LoopDone \/ UnknownName \/ SkipItem
    BY <1>1 DEF Finish, Open, Close, LoopDone, UnknownName, SkipItem, host, bms, link, Shape
  <1>2. CASE Start
    <2>1. \E o \in Outcome("write", Zero, late[START]) : Exchanged("write", Zero, START, o)
      BY <1>2 DEF Start
    <2>2. UNCHANGED <<emptied, prot>>
      BY <1>2 DEF Start
    <2> QED BY <2>1, <2>2, OutcomeFacts DEF Exchanged
  <1>3. CASE End \/ EndAgain
    <2>1. EndExchange /\ UNCHANGED <<emptied, prot>>
      BY <1>3 DEF End, EndAgain
    <2>2. UNCHANGED link
      BY <2>1 DEF EndExchange
    <2> QED BY <2>1, <2>2, EndFacts DEF link
  <1>4. CASE GetInfo
    <2>1. \E o \in Outcome("read", Zero, {}) : Cost(o) /\ emptied' = (emptied \/ o.ret = 0)
      BY <1>4 DEF GetInfo
    <2>2. prot \subseteq prot' /\ misled' = misled
      BY <1>4 DEF GetInfo, link
    <2> QED BY <2>1, <2>2, OutcomeFacts
  <1>5. CASE ReadItem \/ ReadForModify
    <2>1. \E o \in Outcome("read", regs[Item.reg], late[Item.reg]) :
             Exchanged("read", regs[Item.reg], Item.reg, o) /\ emptied' = (emptied \/ o.ret = 0)
      BY <1>5 DEF ReadItem, ReadForModify
    <2>2. prot' = prot
      BY <1>5 DEF ReadItem, ReadForModify
    <2> QED BY <2>1, <2>2, OutcomeFacts DEF Exchanged
  <1>6. CASE SetMosfet \/ Reset \/ FullReset
    <2>1. \E o \in Outcome("write", Zero, {}) : Cost(o)
      BY <1>6 DEF SetMosfet, Reset, FullReset
    <2>2. UNCHANGED <<emptied, prot, misled>>
      BY <1>6 DEF SetMosfet, Reset, FullReset, host, link
    <2> QED BY <2>1, <2>2, OutcomeFacts
  <1>7. CASE WriteItem \/ ModifyItem
    <2>1. \E o \in Outcome("write", Zero, late[Item.reg]) : Exchanged("write", Zero, Item.reg, o)
      BY <1>7 DEF WriteItem, ModifyItem
    <2>2. UNCHANGED <<emptied, prot>>
      BY <1>7 DEF WriteItem, ModifyItem
    <2> QED BY <2>1, <2>2, OutcomeFacts DEF Exchanged
  <1>8. CASE UNCHANGED vars
    BY <1>8 DEF vars, Shape
  <1> QED BY <1>1, <1>2, <1>3, <1>4, <1>5, <1>6, <1>7, <1>8 DEF Next, Exchange, Control

\* The other exchanges of a block stay inside the bracket, or before it.
LEMMA InsideStep ==
    ASSUME Shape, BracketInv,
           faults' \in Nat, faults' = 0 => faults = 0, misled \subseteq misled',
           UNCHANGED <<plan, tp, bracket, code>>,
           \/ /\ pc = "info" /\ pc' \in {"start", "close"} /\ eeprom' = eeprom
           \/ /\ pc \in {"loop", "modify", "fset"} /\ eeprom' = eeprom
              /\ pc' \in {"loop", "modify", "end"}
           \/ /\ pc \in {"reset", "freset"} /\ pc' \in {"freset", "end"}
    PROVE  Shape' /\ BracketInv'
  BY DEF Shape, BracketInv, CleanExit, Before, Inside, After

\* Every step keeps them.
LEMMA BracketStep == Shape /\ LinkInv /\ BracketInv /\ [Next]_vars => Shape' /\ BracketInv'
  <1> SUFFICES ASSUME Shape, LinkInv, BracketInv, [Next]_vars PROVE Shape' /\ BracketInv'
    OBVIOUS
  <1>0. faults' \in Nat /\ (faults' = 0 => faults = 0) /\ misled \subseteq misled'
    BY HistoryGrows
  <1>1. CASE Finish
    BY <1>1 DEF Finish, Exit, bms, Shape, BracketInv, CleanExit, Before, Inside, After
  <1>2. CASE Open
    <2>1. /\ pc = "next" /\ plan # <<>> /\ UNCHANGED <<plan, bracket, eeprom>>
          /\ \/ /\ tp' = "open" /\ pc' \in {"info", "start"} /\ UNCHANGED <<code, faults>>
             \/ /\ pc' = "exit" /\ code' = 1 /\ tp' = tp /\ faults' \in {faults, faults + 1}
      BY <1>2 DEF Open, Exit, GoOn, bms
    <2> QED BY <2>1 DEF Shape, BracketInv, CleanExit, Before, Inside, After
  <1>3. CASE Start
    BY <1>3, StartStep
  <1>4. CASE End
    <2>1. EndExchange /\ pc = "end" /\ pc' = "close" /\ bracket' = "ended"
          /\ UNCHANGED <<code, plan, tp>>
      BY <1>4 DEF End, GoOn
    <2>2. tp = "open" /\ plan # <<>> /\ code = -1
      BY <2>1 DEF Shape
    <2>3. faults' \in Nat /\ (faults' = 0 => eeprom' = "shut")
      BY <2>1, <2>2, EndFacts
    <2> QED BY <2>1, <2>2, <2>3 DEF Shape, BracketInv, CleanExit, Before, Inside, After
  <1>5. CASE EndAgain
    <2>1. EndExchange /\ pc = "end2" /\ pc' = "next" /\ UNCHANGED <<code, bracket, tp>>
      BY <1>5 DEF EndAgain, NextBlock, GoOn
    <2>2. /\ tp = "closed" /\ code = -1 /\ bracket # "in"
          /\ faults = 0 => eeprom = "shut"
      BY <2>1 DEF Shape, BracketInv, After
    <2>3. faults' \in Nat /\ (faults' = 0 => faults = 0) /\ eeprom' = eeprom
      BY <2>1, <2>2, EndFacts
    <2> QED BY <2>1, <2>2, <2>3 DEF Shape, BracketInv, CleanExit, Before, Inside, After
  <1>6. CASE Close
    <2>1. /\ pc = "close" /\ tp' = "closed" /\ UNCHANGED <<bracket, faults, eeprom>>
          /\ \/ pc' = "exit" /\ code' \in {0, 1}
             \/ pc' = "end2" /\ UNCHANGED <<plan, code>>
             \/ pc' = "next" /\ code' = code
      BY <1>6 DEF Close, Exit, GoOn, NextBlock, bms
    <2> QED BY <2>1 DEF Shape, BracketInv, CleanExit, Before, Inside, After
  <1>7. CASE GetInfo
    <2>1. /\ pc = "info" /\ pc' \in {"start", "close"}
          /\ UNCHANGED <<plan, tp, bracket, eeprom, code>>
      BY <1>7 DEF GetInfo, GoOn, bms
    <2> QED BY <1>0, <2>1, InsideStep
  <1>8. CASE SetMosfet
    <2>1. pc = "fset" /\ pc' = "end" /\ UNCHANGED <<plan, tp, bracket, eeprom, code>>
      BY <1>8 DEF SetMosfet, host, GoOn
    <2> QED BY <1>0, <2>1, InsideStep
  <1>9. CASE Reset
    <2>1. pc = "reset" /\ pc' \in {"freset", "end"} /\ UNCHANGED <<plan, tp, bracket, eeprom, code>>
      BY <1>9 DEF Reset, host, bms, GoOn
    <2> QED BY <1>0, <2>1, InsideStep
  <1>10. CASE FullReset
    <2>1. pc = "freset" /\ pc' = "end" /\ UNCHANGED <<plan, tp, bracket, code>>
      BY <1>10 DEF FullReset, host, GoOn
    <2> QED BY <1>0, <2>1, InsideStep
  <1>11. CASE LoopDone
    BY <1>0, <1>11, InsideStep DEF LoopDone, GoOn, host, bms
  <1>12. CASE UnknownName
    <2>1. /\ pc = "loop" /\ UNCHANGED <<plan, tp, bracket, faults, eeprom, misled>>
          /\ \/ pc' \in {"loop", "end"} /\ code' = code
             \/ pc' = "exit" /\ code' = 1
      BY <1>12 DEF UnknownName, Exit, GoOn, bms, link
    <2> QED BY <2>1 DEF Shape, BracketInv, CleanExit, Before, Inside, After
  <1>13. CASE ReadItem
    <2>1. pc = "loop" /\ pc' \in {"loop", "end"} /\ UNCHANGED <<plan, tp, bracket, eeprom, code>>
      BY <1>13 DEF ReadItem, bms, GoOn, OnReadFailure
    <2> QED BY <1>0, <2>1, InsideStep
  <1>14. CASE SkipItem
    BY <1>0, <1>14, InsideStep DEF SkipItem, GoOn, bms
  <1>15. CASE WriteItem
    <2>1. pc = "loop" /\ pc' \in {"loop", "end"} /\ UNCHANGED <<plan, tp, bracket, eeprom, code>>
      BY <1>15 DEF WriteItem, AfterWrite, GoOn
    <2> QED BY <1>0, <2>1, InsideStep
  <1>16. CASE ReadForModify
    <2>1. pc = "loop" /\ pc' \in {"modify", "end"} /\ UNCHANGED <<plan, tp, bracket, eeprom, code>>
      BY <1>16 DEF ReadForModify, bms, GoOn
    <2> QED BY <1>0, <2>1, InsideStep
  <1>17. CASE ModifyItem
    <2>1. pc = "modify" /\ pc' \in {"loop", "end"} /\ UNCHANGED <<plan, tp, bracket, eeprom, code>>
      BY <1>17 DEF ModifyItem, AfterWrite, GoOn
    <2> QED BY <1>0, <2>1, InsideStep
  <1>18. CASE UNCHANGED vars
    BY <1>18 DEF vars, Shape, BracketInv, CleanExit
  <1> QED BY <1>1, <1>2, <1>3, <1>4, <1>5, <1>6, <1>7, <1>8, <1>9, <1>10, <1>11, <1>12,
             <1>13, <1>14, <1>15, <1>16, <1>17, <1>18 DEF Next, Exchange, Control

-----------------------------------------------------------------------------
(* The command line and the block that runs. *)

\* The current block is a block of the command line, and the rest is what
\* follows it there.
LEMMA PlanFacts ==
    ASSUME PlanInv, plan # <<>>
    PROVE  \E n \in 1..Len(job.plan) :
              /\ Block = job.plan[n] /\ Block \in Blocks
              /\ Len(plan) = Len(job.plan) - n + 1
              /\ \A b \in 1..Len(plan) : plan[b] = job.plan[n - 1 + b]
              /\ Tail(plan) = SubSeq(job.plan, n + 1, Len(job.plan))
              /\ Len(Tail(plan)) = Len(plan) - 1
              /\ \A b \in 1..Len(Tail(plan)) : Tail(plan)[b] = plan[b + 1]
  <1>1. job.plan \in Seq(Blocks)
    BY PlanAssumption DEF PlanInv
  <1> DEFINE jp == job.plan
  <1>2. PICK m \in 0..Len(jp) : plan = SubSeq(jp, m + 1, Len(jp))
    BY DEF PlanInv
  <1>3. /\ plan \in Seq(Blocks) /\ Len(plan) = Len(jp) - m
        /\ \A b \in 1..Len(plan) : plan[b] = jp[m + b]
    <2> HIDE DEF jp
    <2> QED BY <1>1, <1>2, SubSeqProperties DEF jp
  <1>4. m + 1 \in 1..Len(jp)
    BY <1>1, <1>3
  <1>5. Block = jp[m + 1] /\ Block \in Blocks
    BY <1>1, <1>3, <1>4 DEF Block
  <1>6. /\ Tail(plan) \in Seq(Blocks) /\ Len(Tail(plan)) = Len(plan) - 1
        /\ \A b \in 1..Len(Tail(plan)) : Tail(plan)[b] = plan[b + 1]
    BY <1>3, HeadTailProperties
  <1>7. Tail(plan) = SubSeq(jp, m + 2, Len(jp))
    <2> HIDE DEF jp
    <2> QED BY <1>1, <1>2, <1>4, HeadTailOfSubSeq DEF jp
  <1>8. /\ m + 2 = (m + 1) + 1 /\ Len(jp) - m = Len(jp) - (m + 1) + 1
        /\ \A b \in 1..Len(plan) : m + b = (m + 1) - 1 + b
    BY <1>1, <1>3
  <1>9. Tail(plan) = SubSeq(jp, (m + 1) + 1, Len(jp))
    BY <1>7, <1>8
  <1> WITNESS m + 1 \in 1..Len(job.plan)
  <1> QED BY <1>3, <1>5, <1>6, <1>8, <1>9

\* What is left of the plan stays an end of the command line.
LEMMA PlanStep ==
    ASSUME PlanInv, plan # <<>>, job' = job, plan' \in {plan, Tail(plan)}
    PROVE  PlanInv'
  <1>1. CASE plan' = plan
    BY <1>1 DEF PlanInv
  <1>2. CASE plan' = Tail(plan)
    <2>1. PICK n \in 1..Len(job.plan) : Tail(plan) = SubSeq(job.plan, n + 1, Len(job.plan))
      BY PlanFacts
    <2>2. n \in 0..Len(job'.plan) /\ plan' = SubSeq(job'.plan, n + 1, Len(job'.plan))
      BY <1>2, <2>1
    <2> QED BY <2>2 DEF PlanInv
  <1> QED BY <1>1, <1>2
\* _putshort() and the value of a byte stay within their width.
LEMMA PutShortWord ==
    ASSUME NEW v \in Int
    PROVE  v % B \in Byte /\ PutShort(v) \in Word
  <1>1. \A x \in Int : x % B \in Byte
    BY SizeAssumption DEF Byte
  <1>2. v \div B \in Int
    BY SizeAssumption
  <1>3. (v \div B) % B \in Byte /\ v % B \in Byte
    BY <1>1, <1>2
  <1> QED BY <1>3 DEF PutShort, Word

\* There is one block that writes, and its items are the ones Written names.
LEMMA WriterFacts ==
    ASSUME PlanInv, plan # <<>>, Kind \in WriteKinds
    PROVE  Block.items = Written /\ \A b \in 2..Len(plan) : ~Writer(b)
  <1> DEFINE jp == job.plan
  <1>1. /\ Len(jp) \in Nat
        /\ \A b, c \in 1..Len(jp) : jp[b].kind \in WriteKinds /\ jp[c].kind \in WriteKinds => b = c
    BY PlanAssumption DEF PlanInv
  <1>2. PICK n \in 1..Len(jp) : /\ Block = jp[n]
                                /\ Len(plan) = Len(jp) - n + 1
                                /\ \A b \in 1..Len(plan) : plan[b] = jp[n - 1 + b]
    BY PlanFacts
  <1>3. jp[n].kind \in WriteKinds
    BY <1>2 DEF Kind
  <1> HIDE DEF jp
  <1>4. \A b \in 2..Len(plan) : ~Writer(b)
    <2> SUFFICES ASSUME NEW b \in 2..Len(plan), Writer(b) PROVE FALSE
      OBVIOUS
    <2>1. n - 1 + b \in 1..Len(jp) /\ n - 1 + b # n /\ plan[b] = jp[n - 1 + b]
      BY <1>1, <1>2
    <2> QED BY <1>1, <1>3, <2>1 DEF Writer
  <1>5. (CHOOSE b \in 1..Len(jp) : jp[b].kind \in WriteKinds) = n
    BY <1>1, <1>3
  <1>6. Written = jp[CHOOSE b \in 1..Len(jp) : jp[b].kind \in WriteKinds].items
    BY <1>2, <1>3 DEF Written, jp
  <1>7. Written = jp[n].items
    BY <1>5, <1>6
  <1> QED BY <1>2, <1>4, <1>7

\* The block of -g and -G is the first one of the command line.
LEMMA FetFacts ==
    ASSUME PlanInv, plan # <<>>, Kind = "fet"
    PROVE  Block = job.plan[1] /\ FetFirst
  <1>1. PICK n \in 1..Len(job.plan) : Block = job.plan[n]
    BY PlanFacts
  <1>2. \A b \in 2..Len(job.plan) : job.plan[b].kind # "fet"
    BY PlanAssumption DEF PlanInv
  <1>3. n = 1
    BY <1>1, <1>2 DEF Kind
  <1> QED BY <1>1, <1>3 DEF Kind, FetFirst

\* An item names a register and a number.
LEMMA ItemFacts ==
    ASSUME PlanInv, plan # <<>>
    PROVE  /\ Len(Block.items) \in Nat /\ Kind \in Kinds
           /\ k \in 1..Len(Block.items) =>
                 Item.kind \in ItemKinds /\ Item.reg \in Reg /\ Item.val \in Int
  <1>1. Block \in Blocks
    BY PlanFacts
  <1>2. Block.items \in Seq([kind : ItemKinds, reg : Reg, val : Int]) /\ Block.kind \in Kinds
    BY <1>1 DEF Blocks
  <1> DEFINE items == Block.items
             S == [kind : ItemKinds, reg : Reg, val : Int]
  <1> HIDE DEF items, S
  <1>3. items \in Seq(S)
    BY <1>2 DEF items, S
  <1>4. k \in 1..Len(items) => items[k] \in S
    BY <1>3, ElementOfSeq
  <1>5. \A it \in S : it.kind \in ItemKinds /\ it.reg \in Reg /\ it.val \in Int
    BY DEF S
  <1> QED BY <1>2, <1>3, <1>4, <1>5 DEF Kind, Item, items

\* An item that sets a byte decides it.
LEMMA ByteSet ==
    ASSUME NEW items, NEW n \in Nat, NEW S \in SUBSET (1..n), NEW r, NEW b, Sets(items[n + 1], r, b)
    PROVE  ByteAfter(items, S \cup {n + 1}, r, b, ItemByte(items[n + 1], b))
  <1>1. \A m \in S \cup {n + 1} : m <= n + 1
    OBVIOUS
  <1>2. n + 1 \in Setters(items, S \cup {n + 1}, r, b)
    BY DEF Setters
  <1>3. \A m \in Setters(items, S \cup {n + 1}, r, b) : m <= n + 1
    BY <1>1 DEF Setters
  <1> QED BY <1>2, <1>3 DEF ByteAfter

\* An item that does not leaves it alone.
LEMMA ByteKept ==
    ASSUME NEW items, NEW n \in Nat, NEW S \in SUBSET (1..n), NEW r, NEW b, NEW v,
           ~Sets(items[n + 1], r, b), ByteAfter(items, S, r, b, v)
    PROVE  ByteAfter(items, S \cup {n + 1}, r, b, v)
  <1>1. Setters(items, S \cup {n + 1}, r, b) = Setters(items, S, r, b)
    BY DEF Setters
  <1> QED BY <1>1 DEF ByteAfter

\* Carrying out an item leads from the word after some items to the word after
\* these and it: the bytes it sets are as it says, the others as they were.
LEMMA Carried ==
    ASSUME NEW items, NEW n \in Nat, NEW S \in SUBSET (1..n), NEW r, NEW v, NEW w,
           \A b \in {1, 2} : \/ Sets(items[n + 1], r, b) /\ w[b] = ItemByte(items[n + 1], b)
                             \/ /\ ~Sets(items[n + 1], r, b) /\ w[b] = v[b]
                                /\ ByteAfter(items, S, r, b, v[b])
    PROVE  WordAfter(items, S \cup {n + 1}, r, w)
  <1> SUFFICES ASSUME NEW b \in {1, 2} PROVE ByteAfter(items, S \cup {n + 1}, r, b, w[b])
    BY DEF WordAfter
  <1>1. CASE Sets(items[n + 1], r, b) /\ w[b] = ItemByte(items[n + 1], b)
    BY <1>1, ByteSet
  <1>2. CASE ~Sets(items[n + 1], r, b) /\ w[b] = v[b] /\ ByteAfter(items, S, r, b, v[b])
    BY <1>2, ByteKept
  <1> QED BY <1>1, <1>2

\* A register that the next item sets no byte of, and that keeps its word.
LEMMA AppliedOn ==
    ASSUME NEW items, NEW n \in Nat, NEW r, misled \subseteq misled', regs'[r] = regs[r],
           Applied(items, n, r), \A b \in {1, 2} : ~Sets(items[n + 1], r, b)
    PROVE  Applied(items, n + 1, r)'
  <1> DEFINE w == regs[r]
  <1>1. ASSUME NEW S \in SUBSET (1..n), WordAfter(items, S, r, w)
        PROVE  WordAfter(items, S \cup {n + 1}, r, w)
    <2>1. \A b \in {1, 2} : ~Sets(items[n + 1], r, b) /\ ByteAfter(items, S, r, b, w[b])
      BY <1>1 DEF WordAfter
    <2> HIDE DEF w
    <2> QED BY <2>1, Carried
  <1>2. CASE WordAfter(items, 1..n, r, w)
    <2>1. (1..n) \cup {n + 1} = 1..(n + 1)
      OBVIOUS
    <2>2. WordAfter(items, 1..(n + 1), r, w)
      BY <1>1, <1>2, <2>1
    <2> QED BY <2>2 DEF Applied
  <1>3. CASE r \in misled /\ \E S \in SUBSET (1..n) : WordAfter(items, S, r, w)
    <2>1. PICK S \in SUBSET (1..n) : WordAfter(items, S, r, w)
      BY <1>3
    <2>2. S \in SUBSET (1..(n + 1))
      OBVIOUS
    <2> QED BY <1>3, <2>1, <2>2 DEF Applied
  <1> QED BY <1>2, <1>3 DEF Applied

\* What holds after some of n items holds after some of more.
LEMMA PartlyOn ==
    ASSUME NEW items, NEW n \in Nat, NEW r, NEW w, Partly(items, n, r, w)
    PROVE  Partly(items, n + 1, r, w)
  <1>1. PICK S \in SUBSET (1..n) : WordAfter(items, S, r, w)
    BY DEF Partly
  <1>2. S \in SUBSET (1..(n + 1))
    OBVIOUS
  <1> QED BY <1>1, <1>2 DEF Partly

\* Zeros are what a register holds after none.
LEMMA PartlyZero ==
    ASSUME NEW items, NEW n \in Nat, NEW r
    PROVE  WordAfter(items, {}, r, Zero) /\ Partly(items, n, r, Zero)
  <1>1. WordAfter(items, {}, r, Zero)
    BY DEF WordAfter, ByteAfter, Setters, Zero
  <1> QED BY <1>1 DEF Partly

\* A register that is as the first n items ask for holds a word after some of them.
LEMMA AppliedPartly ==
    ASSUME NEW items, NEW n \in Nat, NEW r, Applied(items, n, r)
    PROVE  Partly(items, n, r, regs[r])
  BY DEF Applied, Partly

-----------------------------------------------------------------------------
(* The plan and the FETs, action by action. *)

\* Every step leaves the plan alone or goes on to its next block.
LEMMA PlanNext ==
    Shape /\ PlanInv /\ [Next]_vars =>
       /\ PlanInv' /\ job' = job
       /\ \/ plan' = plan
          \/ /\ plan # <<>> /\ plan' = Tail(plan) /\ pc \in After
             /\ pc' = "next" /\ k' = 1 /\ regs' = regs
  <1> SUFFICES ASSUME Shape, PlanInv, [Next]_vars
               PROVE  /\ PlanInv' /\ job' = job
                      /\ \/ plan' = plan
                         \/ /\ plan # <<>> /\ plan' = Tail(plan) /\ pc \in After
                            /\ pc' = "next" /\ k' = 1 /\ regs' = regs
    OBVIOUS
  <1>1. CASE Finish \/ Open \/ LoopDone \/ UnknownName \/ SkipItem
    BY <1>1 DEF Finish, Open, LoopDone, UnknownName, SkipItem, host, PlanInv
  <1>2. CASE Start \/ End \/ GetInfo \/ SetMosfet \/ Reset \/ FullReset
    BY <1>2 DEF Start, End, GetInfo, SetMosfet, Reset, FullReset, host, PlanInv
  <1>3. CASE ReadItem \/ ReadForModify \/ WriteItem \/ ModifyItem
    BY <1>3 DEF ReadItem, ReadForModify, WriteItem, ModifyItem, PlanInv
  <1>4. CASE UNCHANGED vars
    BY <1>4 DEF vars, PlanInv
  <1>5. CASE Close \/ EndAgain
    <2>1. /\ job' = job /\ pc \in After /\ regs' = regs
          /\ \/ plan' = plan
             \/ plan' = Tail(plan) /\ k' = 1 /\ pc' = "next"
      BY <1>5 DEF Close, EndAgain, NextBlock, GoOn, After, bms
    <2>2. plan # <<>>
      BY <2>1 DEF Shape, After
    <2> QED BY <2>1, <2>2, PlanStep
  <1> QED BY <1>1, <1>2, <1>3, <1>4, <1>5 DEF Next, Exchange, Control

\* The block of -g and -G runs open, info, start, set, end and close, and no
\* other block sets FETs.
LEMMA FetPlaceStep == Shape /\ FetPlace /\ [Next]_vars => FetPlace'
  <1> SUFFICES ASSUME Shape, FetPlace, [Next]_vars PROVE FetPlace'
    OBVIOUS
  <1>1. CASE Finish \/ Open \/ LoopDone \/ UnknownName \/ SkipItem
    BY <1>1 DEF Finish, Open, LoopDone, UnknownName, SkipItem, GoOn, Exit, host, FetPlace,
                Kind, Block
  <1>2. CASE Start
    <2>1. pc = "start" /\ plan' = plan
          /\ \/ pc' = "exit"
             \/ \E o : pc' = AfterStart(o.ret)
      BY <1>2 DEF Start, GoOn, Exit
    <2> QED BY <2>1 DEF AfterStart, FetPlace, Kind, Block
  <1>3. CASE End \/ GetInfo \/ SetMosfet \/ Reset \/ FullReset
    BY <1>3 DEF End, GetInfo, SetMosfet, Reset, FullReset, GoOn, host, FetPlace, Kind, Block
  <1>4. CASE ReadItem \/ ReadForModify \/ WriteItem \/ ModifyItem
    <2>1. pc \in {"loop", "modify"} /\ plan' = plan /\ pc' \in {"loop", "modify", "end"}
      BY <1>4 DEF ReadItem, ReadForModify, WriteItem, ModifyItem, GoOn, OnReadFailure, AfterWrite
    <2> QED BY <2>1 DEF FetPlace, Kind, Block
  <1>5. CASE Close \/ EndAgain
    <2>1. \/ pc' \in {"next", "exit"}
          \/ Kind = "wjson" /\ pc' = "end2" /\ plan' = plan
      BY <1>5 DEF Close, EndAgain, NextBlock, GoOn, Exit
    <2> QED BY <2>1 DEF FetPlace, Kind, Block
  <1>6. CASE UNCHANGED vars
    BY <1>6 DEF vars, FetPlace, Kind, Block
  <1> QED BY <1>1, <1>2, <1>3, <1>4, <1>5, <1>6 DEF Next, Exchange, Control

\* A step that switches no FET keeps what is known of them, if it neither ends
\* the block of -g and -G early nor goes on to its write with another mask.
LEMMA FetQuiet ==
    ASSUME Shape, FetInv, InfoTrue, OtherFetKept, UNCHANGED <<off, job>>,
           faults' = 0 => faults = 0, emptied => emptied', prot \subseteq prot',
           FetDone \/ ~FetDone' \/ faults' # 0,
           (pc' \in {"start", "fset"} /\ Kind' = "fet") =>
           \/ pc \in {"start", "fset"} /\ Kind = "fet" /\ info' = info
           \/ ~emptied' /\ prot' = {} => info' = Fet \ off
    PROVE  FetInv' /\ InfoTrue' /\ OtherFetKept'
  <1>1. FetInv'
    BY DEF FetInv, FetsSet, FetFirst
  <1>2. OtherFetKept'
    BY DEF OtherFetKept
  <1>3. InfoTrue'
    BY DEF InfoTrue, FetFirst
  <1> QED BY <1>1, <1>2, <1>3

\* jbd_set_mosfet() writes the mask: each FET named as asked for, the other one
\* as HWINFO found it.
LEMMA FetWritten ==
    ASSUME Shape, LinkInv, BracketInv, PlanInv, FetPlace, FetInv, InfoTrue, OtherFetKept, SetMosfet
    PROVE  FetInv' /\ InfoTrue' /\ OtherFetKept'
  <1>1. PICK o \in Outcome("write", Zero, {}) :
           Cost(o) /\ off' = IF o.exec /\ eeprom = "open" THEN MosfetMask ELSE off
    BY DEF SetMosfet
  <1>2. /\ pc = "fset" /\ pc' = "end" /\ tp = "open" /\ plan # <<>> /\ Kind = "fet"
        /\ faults = 0 => eeprom = "open"
        /\ UNCHANGED <<plan, prot, emptied, job>>
    BY DEF SetMosfet, host, GoOn, Shape, LinkInv, BracketInv, FetPlace
  <1>3. o.exec \in BOOLEAN /\ (faults' = 0 => faults = 0 /\ o.exec)
    BY <1>1, <1>2, OutcomeFacts
  <1>4. FetFirst /\ Block.want = job.plan[1].want
    BY <1>2, FetFacts
  <1>5. ~emptied /\ prot = {} => info = Fet \ off
    BY <1>2, <1>4 DEF InfoTrue
  <1>6. faults' = 0 => FetsSet'
    <2> SUFFICES ASSUME faults' = 0 PROVE FetsSet'
      OBVIOUS
    <2>1. off' = {f \in Fet : \/ job.plan[1].want[f] = "off"
                              \/ job.plan[1].want[f] = "keep" /\ f \notin info}
      BY <1>1, <1>2, <1>3, <1>4 DEF MosfetMask
    <2> QED BY <1>2, <2>1 DEF FetsSet
  <1>7. FetInv'
    BY <1>6 DEF FetInv
  <1>8. InfoTrue'
    BY <1>2 DEF InfoTrue
  <1>9. OtherFetKept'
    <2> SUFFICES ASSUME ~emptied, prot = {}, NEW f \in Fet, job.plan[1].want[f] = "keep"
                 PROVE  (f \in off') = (f \in job.off)
      BY <1>2 DEF OtherFetKept
    <2>1. (f \in off) = (f \in job.off)
      BY <1>4 DEF OtherFetKept, FetFirst
    <2>2. f \in MosfetMask <=> f \in off
      BY <1>4, <1>5 DEF MosfetMask
    <2> QED BY <1>1, <1>3, <2>1, <2>2
  <1> QED BY <1>7, <1>8, <1>9

\* Every step keeps what is known of the FETs.
LEMMA FetStep ==
    Shape /\ LinkInv /\ BracketInv /\ PlanInv /\ FetPlace /\ FetInv /\ InfoTrue /\ OtherFetKept
    /\ [Next]_vars => FetInv' /\ InfoTrue' /\ OtherFetKept'
  <1> SUFFICES ASSUME Shape, LinkInv, BracketInv, PlanInv, FetPlace, FetInv, InfoTrue, OtherFetKept,
                      [Next]_vars
               PROVE  FetInv' /\ InfoTrue' /\ OtherFetKept'
    OBVIOUS
  <1>1. /\ faults' = 0 => faults = 0
        /\ emptied => emptied'
        /\ prot \subseteq prot' /\ job' = job
    BY HistoryGrows, PlanNext
  <1>2. CASE SetMosfet
    BY <1>2, FetWritten
  <1>3. CASE Open
    <2>1. /\ pc = "next" /\ UNCHANGED <<plan, off, job>>
          /\ \/ pc' \in {"info", "start"} /\ (Kind = "fet" => pc' = "info")
             \/ faults' = faults + 1
             \/ Kind # "fet"
      BY <1>3 DEF Open, GoOn, bms
    <2>2. FetDone \/ ~FetDone' \/ faults' # 0
      BY <2>1 DEF FetDone, Kind, Block, Shape
    <2>3. ~(pc' \in {"start", "fset"} /\ Kind' = "fet")
      BY <1>3, <2>1 DEF Open, GoOn, Exit, Kind, Block
    <2> QED BY <1>1, <2>1, <2>2, <2>3, FetQuiet
  <1>4. CASE Start
    <2>1. PICK o \in Outcome("write", Zero, late[START]) :
             /\ Exchanged("write", Zero, START, o)
             /\ IF AfterStart(o.ret) = "exit" THEN Exit(1) ELSE GoOn(AfterStart(o.ret))
      BY <1>4 DEF Start
    <2>2. pc = "start" /\ tp = "open" /\ UNCHANGED <<plan, off, job, info, emptied, prot>>
      BY <1>4 DEF Start, Shape
    <2>3. faults' = 0 => o.ret = 0
      BY <2>1, <2>2, OutcomeFacts DEF Exchanged
    <2>4. FetDone \/ ~FetDone' \/ faults' # 0
      <3> SUFFICES ASSUME Kind = "fet", faults' = 0, plan # <<>> PROVE ~FetDone'
        BY DEF FetDone
      <3>1. pc' = "fset"
        BY <2>1, <2>3 DEF AfterStart, GoOn
      <3> QED BY <2>2, <3>1 DEF FetDone, Kind, Block
    <2> QED BY <1>1, <2>2, <2>4, FetQuiet DEF Kind, Block
  <1>5. CASE GetInfo
    <2>1. PICK o \in Outcome("read", Zero, {}), p \in SUBSET Fet :
             /\ Cost(o)
             /\ prot' = prot \cup p
             /\ info' = IF o.ret > 0 THEN Fet \ (off \cup p) ELSE {}
             /\ emptied' = (emptied \/ o.ret = 0)
             /\ GoOn(IF Kind = "fet" /\ o.ret >= 0 THEN "start" ELSE "close")
      BY <1>5 DEF GetInfo
    <2>2. pc = "info" /\ tp = "open" /\ UNCHANGED <<plan, off, job>>
      BY <1>5 DEF GetInfo, Shape, bms
    <2>3. o.ret \in {-1, 0, 2} /\ (faults' = 0 => o.ret = 2)
      <3>1. ~SettledBy(o, {})
        BY DEF SettledBy
      <3>2. o.ret \in {-1, 0, 2}
        BY <2>1, <3>1, ReadFacts
      <3> QED BY <2>1, <2>2, <3>2, OutcomeFacts
    <2>4. FetDone \/ ~FetDone' \/ faults' # 0
      <3> SUFFICES ASSUME Kind = "fet", faults' = 0, plan # <<>> PROVE ~FetDone'
        BY DEF FetDone
      <3>1. pc' = "start"
        BY <2>1, <2>3 DEF GoOn
      <3> QED BY <2>2, <3>1 DEF FetDone, Kind, Block
    <2>5. pc' \in {"start", "fset"} => o.ret \in {0, 2}
      BY <2>1, <2>3 DEF GoOn
    <2>6. o.ret = 2 /\ prot' = {} => info' = Fet \ off
      BY <2>1
    <2>7. ~emptied' => o.ret # 0
      BY <2>1
    <2> QED BY <1>1, <2>2, <2>4, <2>5, <2>6, <2>7, FetQuiet
  <1>6. CASE Finish \/ LoopDone \/ UnknownName \/ SkipItem \/ ReadItem \/ ReadForModify
                \/ WriteItem \/ ModifyItem
    <2>1. /\ (pc = "next" /\ plan = <<>>) \/ pc \in {"loop", "modify"}
          /\ pc' \in {"loop", "modify", "end", "exit"}
          /\ UNCHANGED <<off, job>>
      BY <1>6 DEF Finish, LoopDone, UnknownName, SkipItem, ReadItem, ReadForModify, WriteItem,
                  ModifyItem, GoOn, Exit, OnReadFailure, AfterWrite, host, bms
    <2>2. FetDone
      BY <2>1 DEF FetDone, FetPlace
    <2> QED BY <1>1, <2>1, <2>2, FetQuiet
  <1>7. CASE Reset \/ FullReset \/ End \/ Close \/ EndAgain
    <2>1. /\ pc \in {"reset", "freset", "end", "close", "end2"}
          /\ pc' \in {"freset", "end", "close", "next", "end2", "exit"}
          /\ UNCHANGED <<off, job>>
      BY <1>7 DEF Reset, FullReset, End, Close, EndAgain, NextBlock, GoOn, Exit, bms
    <2>2. FetDone
      BY <2>1 DEF FetDone, FetPlace
    <2> QED BY <1>1, <2>1, <2>2, FetQuiet
  <1>8. CASE UNCHANGED vars
    BY <1>8 DEF vars, FetInv, FetDone, FetsSet, FetFirst, InfoTrue, OtherFetKept, Kind, Block
  <1> QED BY <1>2, <1>3, <1>4, <1>5, <1>6, <1>7, <1>8 DEF Next, Exchange, Control

-----------------------------------------------------------------------------
(* The registers and the answers on the link, action by action. *)

\* What an exchange leaves on the link.
LEMMA Remembered ==
    ASSUME Shape, LinkInv, regs \in [Reg -> Word], NEW act, NEW value, NEW r \in Reg \cup {START},
           \/ act = "write" /\ value = Zero
           \/ act = "read" /\ r \in Reg /\ value = regs[r],
           NEW o \in Outcome(act, value, late[r]), Exchanged(act, value, r, o)
    PROVE  /\ LinkInv'
           /\ \A q \in Reg : late'[q] \subseteq late[q] \cup {Answer("read", regs[q]), Empty}
  <1>1. /\ Cost(o)
        /\ late' = IF o.exec THEN [late EXCEPT ![r] = @ \cup {Answer(act, value), Empty}] ELSE late
        /\ misled' = IF o.old THEN misled \cup {r} ELSE misled
    BY DEF Exchanged
  <1>2. /\ o.exec \in BOOLEAN /\ o.old \in BOOLEAN /\ (faults' = 0 => faults = 0)
        /\ o.old => faults' # 0
    BY <1>1, OutcomeFacts
  <1>3. Zero \in Word /\ Empty \in Answers
    BY SizeAssumption DEF Zero, Word, Byte, Empty, Answers
  <1>4. /\ Answer(act, value) \in Answers
        /\ r = START => Answer(act, value) = Empty
        /\ r \in Reg => Answer(act, value) \in {Answer("read", regs[r]), Empty}
    BY <1>3, StartAssumption DEF Answer, Answers
  <1>5. late \in [Reg \cup {START} -> SUBSET Answers] /\ late[START] \subseteq {Empty}
    BY DEF LinkInv
  <1> DEFINE more == {Answer(act, value), Empty}
  <1>6. more \subseteq Answers /\ (r = START => more = {Empty})
        /\ (r \in Reg => more \subseteq {Answer("read", regs[r]), Empty})
    BY <1>3, <1>4
  <1> HIDE DEF more
  <1>7. /\ late' \in [Reg \cup {START} -> SUBSET Answers] /\ late'[START] \subseteq {Empty}
        /\ \A q \in Reg : late'[q] \subseteq late[q] \cup {Answer("read", regs[q]), Empty}
    <2>1. CASE o.exec
      <3>1. late' = [late EXCEPT ![r] = @ \cup more]
        BY <1>1, <2>1 DEF more
      <3>2. late' \in [Reg \cup {START} -> SUBSET Answers]
        BY <1>5, <1>6, <3>1
      <3>3. \A q \in Reg \cup {START} : late'[q] = IF q = r THEN late[r] \cup more ELSE late[q]
        BY <1>5, <3>1
      <3> QED BY <1>5, <1>6, <3>2, <3>3
    <2>2. CASE ~o.exec
      BY <1>1, <1>5, <2>2
    <2> QED BY <1>2, <2>1, <2>2
  <1>8. misled' # {} => faults' # 0
    BY <1>1, <1>2 DEF LinkInv
  <1> QED BY <1>7, <1>8 DEF LinkInv

\* Every step leaves on the link what was there and, of a register, what it holds.
LEMMA LinkStep ==
    ASSUME Shape, LinkInv, PlanInv, WriteInv, [Next]_vars
    PROVE  /\ LinkInv'
           /\ \A q \in Reg : late'[q] \subseteq late[q] \cup {Answer("read", regs[q]), Empty}
  <1>0. regs \in [Reg -> Word] /\ (faults' = 0 => faults = 0)
    BY HistoryGrows DEF WriteInv
  <1>1. CASE UNCHANGED link
    BY <1>0, <1>1 DEF link, LinkInv
  <1>2. CASE Start
    <2>1. PICK o \in Outcome("write", Zero, late[START]) : Exchanged("write", Zero, START, o)
      BY <1>2 DEF Start
    <2> QED BY <1>0, <2>1, Remembered
  <1>3. CASE ReadItem \/ ReadForModify \/ WriteItem \/ ModifyItem
    <2>1. Item.reg \in Reg
      <3>1. plan # <<>> /\ k \in Nat \ {0} /\ ~NoItemLeft
        BY <1>3 DEF ReadItem, ReadForModify, WriteItem, ModifyItem, Shape, WriteInv, LoopInv
      <3> QED BY <3>1, ItemFacts DEF NoItemLeft
    <2>2. CASE ReadItem \/ ReadForModify
      <3>1. PICK o \in Outcome("read", regs[Item.reg], late[Item.reg]) :
               Exchanged("read", regs[Item.reg], Item.reg, o)
        BY <2>2 DEF ReadItem, ReadForModify
      <3> DEFINE r == Item.reg
      <3> HIDE DEF r
      <3> QED BY <1>0, <2>1, <3>1, Remembered DEF r
    <2>3. CASE WriteItem \/ ModifyItem
      <3>1. PICK o \in Outcome("write", Zero, late[Item.reg]) :
               Exchanged("write", Zero, Item.reg, o)
        BY <2>3 DEF WriteItem, ModifyItem
      <3> QED BY <1>0, <2>1, <3>1, Remembered
    <2> QED BY <1>3, <2>2, <2>3
  <1>4. CASE Finish \/ Open \/ Close \/ LoopDone \/ UnknownName \/ SkipItem
    BY <1>1, <1>4 DEF Finish, Open, Close, LoopDone, UnknownName, SkipItem
  <1>5. CASE End \/ EndAgain \/ GetInfo \/ SetMosfet \/ Reset \/ FullReset
    BY <1>1, <1>5 DEF End, EndAgain, EndExchange, GetInfo, SetMosfet, Reset, FullReset, link
  <1>6. CASE UNCHANGED vars
    BY <1>1, <1>6 DEF vars, link
  <1> QED BY <1>2, <1>3, <1>4, <1>5, <1>6 DEF Next, Exchange, Control

\* What a step does to the link.
LinkGrows == /\ misled \subseteq misled'
             /\ \A q \in Reg : late'[q] \subseteq late[q] \cup {Answer("read", regs[q]), Empty}

\* While nothing is written every answer on the link is zeros.
LEMMA ZerosStay ==
    ASSUME LinkGrows, regs = AllZero, \A r \in Reg : \A a \in late[r] : a.data = Zero
    PROVE  \A r \in Reg : \A a \in late'[r] : a.data = Zero
  <1>1. \A r \in Reg : Answer("read", regs[r]).data = Zero /\ Empty.data = Zero
    BY DEF AllZero, Answer, Empty
  <1> QED BY <1>1 DEF LinkGrows

\* A step that writes no register takes nothing from what was applied.
LEMMA OrderKept ==
    ASSUME AppliedInOrder, LinkGrows, regs' = regs, job' = job
    PROVE  AppliedInOrder' /\ Written' = Written /\ \A n : RegsAfter(Written, n) => RegsAfter(Written, n)'
  <1>1. Written' = Written
    BY DEF Written
  <1>2. \A n : RegsAfter(Written, n) => RegsAfter(Written, n)'
    BY <1>1 DEF RegsAfter, Applied, LinkGrows
  <1> QED BY <1>1, <1>2 DEF AppliedInOrder

\* A step that writes no register and stays in its block.
LEMMA RegsKept ==
    ASSUME WriteInv, LinkGrows, UNCHANGED <<plan, regs, job>>, pc' \in Before => pc \in Before
    PROVE  Untouched' /\ AppliedInOrder' /\ regs' \in [Reg -> Word] /\ Written' = Written
  <1>1. AppliedInOrder' /\ Written' = Written
    BY OrderKept DEF WriteInv
  <1>2. Untouched'
    BY ZerosStay DEF WriteInv, Untouched, Writer
  <1> QED BY <1>1, <1>2 DEF WriteInv

\* Answers stay known in the loop.
LEMMA KnownStays ==
    ASSUME LinkGrows, NEW n \in Nat, Done(n), LateKnown(Written, n), job' = job
    PROVE  LateKnown(Written, n)'
  <1>1. PICK items : items = Written
    OBVIOUS
  <1>2. Written' = items
    BY <1>1 DEF Written
  <1> SUFFICES ASSUME NEW r \in Reg, ~HasPacked(items, r), NEW a \in late'[r]
               PROVE  Partly(items, n, r, a.data)
    BY <1>2 DEF LateKnown
  <1>3. CASE a \in late[r]
    BY <1>1, <1>3 DEF LateKnown
  <1>4. CASE a = Empty
    BY <1>4, PartlyZero DEF Empty
  <1>5. CASE a = Answer("read", regs[r])
    <2>1. a.data = regs[r]
      BY <1>5 DEF Answer
    <2>2. CASE RegsAfter(Written, n)
      BY <1>1, <2>1, <2>2, AppliedPartly DEF RegsAfter
    <2>3. CASE regs = AllZero
      BY <2>1, <2>3, PartlyZero DEF AllZero
    <2> QED BY <2>2, <2>3 DEF Done
  <1> QED BY <1>3, <1>4, <1>5 DEF LinkGrows

\* A step that writes no register and goes neither on in a loop nor back to the
\* start of a block keeps what is known of the registers.
LEMMA RegsQuiet ==
    ASSUME Shape, PlanInv, WriteInv, LinkGrows, UNCHANGED <<regs, job>>,
           \/ /\ plan' = plan /\ k' = k /\ pc' \notin {"loop", "modify"}
              /\ pc' \in Before => pc \in Before
           \/ plan # <<>> /\ plan' = Tail(plan) /\ k' = 1 /\ pc' = "next"
           \/ plan' = plan /\ k' = k /\ pc = "start" /\ pc' = "loop"
    PROVE  WriteInv'
  <1>1. regs' \in [Reg -> Word] /\ AppliedInOrder' /\ Written' = Written
    BY OrderKept DEF WriteInv
  <1>2. CASE /\ plan' = plan /\ k' = k /\ pc' \notin {"loop", "modify"}
             /\ pc' \in Before => pc \in Before
    <2>1. Untouched'
      BY <1>2, RegsKept
    <2>2. LoopInv'
      BY <1>2 DEF WriteInv, LoopInv
    <2> QED BY <1>1, <2>1, <2>2 DEF WriteInv
  <1>3. CASE plan # <<>> /\ plan' = Tail(plan) /\ k' = 1 /\ pc' = "next"
    <2>1. /\ Len(plan') = Len(plan) - 1 /\ Len(plan) \in Nat
          /\ \A b \in 1..Len(plan') : plan'[b] = plan[b + 1]
      <3>1. PICK n \in 1..Len(job.plan) :
               /\ Len(plan) = Len(job.plan) - n + 1
               /\ Len(Tail(plan)) = Len(plan) - 1
               /\ \A b \in 1..Len(Tail(plan)) : Tail(plan)[b] = plan[b + 1]
        BY <1>3, PlanFacts
      <3>2. Len(job.plan) \in Nat
        BY PlanAssumption DEF PlanInv
      <3> QED BY <1>3, <3>1, <3>2
    <2>2. Untouched'
      <3> SUFFICES ASSUME NEW b \in 1..Len(plan'), Writer(b)'
                   PROVE  regs = AllZero /\ \A r \in Reg : \A a \in late'[r] : a.data = Zero
        BY DEF Untouched
      <3>1. b + 1 \in 1..Len(plan) /\ b + 1 > 1 /\ Writer(b + 1)
        BY <2>1 DEF Writer
      <3> QED BY <3>1, ZerosStay DEF WriteInv, Untouched
    <2>3. LoopInv'
      BY <1>3 DEF LoopInv, Before
    <2> QED BY <1>1, <2>2, <2>3 DEF WriteInv
  <1>4. CASE plan' = plan /\ k' = k /\ pc = "start" /\ pc' = "loop"
    <2>1. k = 1 /\ plan # <<>> /\ Kind' = Kind
      BY <1>4 DEF WriteInv, LoopInv, Before, Shape, Kind, Block
    <2>2. Untouched'
      BY <1>4, RegsKept DEF Before
    <2>3. ASSUME Kind \in WriteKinds
          PROVE  /\ 0 <= Len(Written') /\ NoneRefused(Written, 0)'
                 /\ regs' = AllZero /\ RegsAfter(Written, 0)' /\ LateKnown(Written, 0)'
      <3>1. Len(Block.items) \in Nat /\ Block.items = Written
        BY <2>1, <2>3, ItemFacts, WriterFacts
      <3>2. Len(plan) \in Nat \ {0} /\ plan[1] = Head(plan)
        <4>1. PICK n \in 1..Len(job.plan) : Len(plan) = Len(job.plan) - n + 1
          BY <2>1, PlanFacts
        <4>2. Len(job.plan) \in Nat
          BY PlanAssumption DEF PlanInv
        <4> QED BY <4>1, <4>2
      <3>3. regs = AllZero /\ \A r \in Reg : \A a \in late'[r] : a.data = Zero
        <4>1. 1 \in 1..Len(plan) /\ Writer(1) /\ pc \in Before
          BY <1>4, <2>3, <3>2 DEF Writer, Before, Kind, Block
        <4> QED BY <4>1, ZerosStay DEF WriteInv, Untouched
      <3>4. PICK items : items = Written
        OBVIOUS
      <3>5. 1..0 = {}
        OBVIOUS
      <3>6. \A r \in Reg : WordAfter(items, 1..0, r, Zero) /\ Partly(items, 0, r, Zero)
        BY <3>5, PartlyZero
      <3>7. RegsAfter(Written, 0)'
        BY <1>1, <3>3, <3>4, <3>6 DEF RegsAfter, Applied, AllZero
      <3>8. LateKnown(Written, 0)'
        BY <1>1, <3>3, <3>4, <3>6 DEF LateKnown
      <3> QED BY <1>1, <3>1, <3>3, <3>5, <3>7, <3>8 DEF NoneRefused
    <2>4. LoopInv'
      <3>1. k' - 1 = 0 /\ k' \in Nat \ {0} /\ pc' \notin Before
        BY <1>4, <2>1 DEF Before
      <3>2. ASSUME Kind \in WriteKinds
            PROVE  /\ k' - 1 <= Len(Written') /\ NoneRefused(Written', k' - 1)
                   /\ Done(k - 1)' /\ LateKnown(Written, k - 1)'
        BY <2>3, <3>1, <3>2 DEF Done, RegsAfter, Applied, LateKnown, AllZero
      <3> QED BY <1>4, <2>1, <3>1, <3>2 DEF LoopInv
    <2> QED BY <1>1, <2>2, <2>4 DEF WriteInv
  <1> QED BY <1>2, <1>3, <1>4

\* In the writer's loop: an item is carried out, or the loop is left as it is, or
\* the BMS executes nothing.
LEMMA RegsLoop ==
    ASSUME Shape, PlanInv, WriteInv, LinkGrows, pc \in {"loop", "modify"}, Kind \in WriteKinds,
           ~NoItemLeft, Item.kind \notin {"badbits", "novalue"},
           regs' \in [Reg -> Word], UNCHANGED <<plan, job, eeprom>>,
           NEW items, items = Written, NEW n \in Nat, k = n + 1,
           \/ pc' = "end" /\ k' = k
           \/ pc' = "loop" /\ k' = k + 1,
           \/ regs' = regs /\ (pc' = "end" \/ eeprom # "open")
           \/ eeprom = "open" /\ RegsAfter(items, n + 1)'
    PROVE  WriteInv'
  <1>1. plan # <<>> /\ k \in Nat \ {0} /\ Kind' = Kind /\ Written' = Written
    BY DEF Shape, WriteInv, LoopInv, Kind, Block, Written
  <1>2. items = Written
    OBVIOUS
  <1>3. k = n + 1
    OBVIOUS
  <1>4. /\ items = Block.items /\ Len(items) \in Nat /\ n + 1 <= Len(items)
        /\ Item = items[n + 1]
        /\ \A b \in 2..Len(plan) : ~Writer(b)
    BY <1>1, <1>2, <1>3, ItemFacts, WriterFacts DEF NoItemLeft, Item
  <1>5. NoneRefused(items, n) /\ Done(n) /\ LateKnown(items, n)
    <2>1. k - 1 = n
      BY <1>3
    <2> QED BY <1>2, <2>1 DEF WriteInv, LoopInv
  <1>6. NoneRefused(items, n + 1)
    <2>1. \A j \in 1..(n + 1) : j \in 1..n \/ j = n + 1
      OBVIOUS
    <2> QED BY <1>4, <1>5, <2>1 DEF NoneRefused
  <1>7. LateKnown(items, n + 1)'
    <2>1. LateKnown(items, n)'
      BY <1>1, <1>2, <1>5, KnownStays DEF LateKnown
    <2> QED BY <2>1, PartlyOn DEF LateKnown
  <1>8. Untouched'
    <2>1. ~ \E b \in 1..Len(plan) : Writer(b) /\ b > 1
      BY <1>4
    <2>2. pc' \notin Before
      BY DEF Before
    <2> QED BY <2>1, <2>2 DEF Untouched, Writer
  <1>9. AppliedInOrder'
    <2>1. CASE regs' = regs
      BY <2>1, OrderKept DEF WriteInv
    <2>2. CASE RegsAfter(items, n + 1)'
      <3>1. n + 1 \in 0..Len(items)
        BY <1>4
      <3> QED BY <1>1, <1>2, <1>6, <2>2, <3>1 DEF AppliedInOrder, RegsAfter, Applied
    <2> QED BY <2>1, <2>2
  <1>10. LoopInv'
    <2>1. CASE pc' = "end" /\ k' = k
      BY <2>1, <1>1 DEF LoopInv, Before
    <2>2. CASE pc' = "loop" /\ k' = k + 1
      <3>1. k' - 1 = n + 1 /\ k' \in Nat \ {0}
        BY <1>3, <2>2
      <3>2. Done(n + 1)'
        <4>1. CASE regs' = regs /\ eeprom # "open"
          BY <1>5, <4>1 DEF Done, AllZero
        <4>2. CASE eeprom = "open" /\ RegsAfter(items, n + 1)'
          BY <1>1, <1>2, <4>2 DEF Done, RegsAfter, Applied
        <4> QED BY <2>2, <4>1, <4>2
      <3>3. /\ k' - 1 <= Len(Written') /\ NoneRefused(Written', k' - 1)
            /\ Done(k - 1)' /\ LateKnown(Written, k - 1)'
        BY <1>1, <1>2, <1>4, <1>6, <1>7, <3>1, <3>2 DEF Done, RegsAfter, Applied, LateKnown
      <3> QED BY <2>2, <3>1, <3>3 DEF LoopInv, Before
    <2> QED BY <2>1, <2>2
  <1> QED BY <1>8, <1>9, <1>10 DEF WriteInv

\* A parameter write, of a whole register or of the merged bytes: the item is
\* carried out, or the loop is left, or main() is misled about this register.
LEMMA ItemWritten ==
    ASSUME Shape, BracketInv, PlanInv, WriteInv, LinkGrows, pc \in {"loop", "modify"},
           Kind \in WriteKinds, ~NoItemLeft, Item.kind \in {"word", "packed", "byte0", "byte1"},
           UNCHANGED <<plan, job, eeprom>>,
           NEW o \in Outcome("write", Zero, late[Item.reg]),
           Exchanged("write", Zero, Item.reg, o), AfterWrite(o.ret),
           NEW w \in Word, WriteReg(o, Item.reg, w),
           \/ HasPacked(Written, Item.reg)
           \/ eeprom = "open" /\ RegsAfter(Written, k - 1) =>
                 \/ WordAfter(Written, 1..k, Item.reg, w)
                 \/ /\ Item.reg \in misled'
                    /\ \E S \in SUBSET (1..k) : WordAfter(Written, S, Item.reg, w)
    PROVE  WriteInv'
  <1>1. /\ plan # <<>> /\ regs \in [Reg -> Word] /\ k \in Nat \ {0} /\ k - 1 \in Nat
        /\ Done(k - 1)
    BY DEF Shape, WriteInv, LoopInv
  <1>2. Item.reg \in Reg /\ Written = Block.items /\ Item = Written[k] /\ Written' = Written
    <2>1. Written = Block.items
      BY <1>1, WriterFacts
    <2>2. Item.reg \in Reg
      BY <1>1, ItemFacts DEF NoItemLeft
    <2> QED BY <2>1, <2>2 DEF Item, Written
  <1>3. PICK r \in Reg : r = Item.reg
    BY <1>2
  <1>4. PICK items : items = Written
    OBVIOUS
  <1>5. PICK n \in Nat : k = n + 1
    <2>1. k = (k - 1) + 1
      BY <1>1
    <2> QED BY <1>1, <2>1
  <1>6. /\ o.exec \in BOOLEAN /\ o.old \in BOOLEAN
        /\ o.ret = 0 => o.exec \/ o.old
    <2>1. Cost(o)
      BY DEF Exchanged
    <2> QED BY <2>1, WriteFacts, Zenon
  <1>7. \/ pc' = "end" /\ k' = k
        \/ pc' = "loop" /\ k' = k + 1 /\ o.ret = 0
    BY DEF AfterWrite, GoOn
  <1>8. \A q \in Reg \ {r}, b \in {1, 2} : ~Sets(items[n + 1], q, b)
    BY <1>2, <1>3, <1>4, <1>5 DEF Sets
  <1>9. /\ regs' \in [Reg -> Word] /\ \A q \in Reg \ {r} : regs'[q] = regs[q]
        /\ regs'[r] = IF o.exec /\ eeprom = "open" THEN w ELSE regs[r]
    BY <1>1, <1>3 DEF WriteReg
  <1>10. CASE eeprom # "open"
    <2>1. regs' = regs
      BY <1>10 DEF WriteReg
    <2> QED BY <1>4, <1>5, <1>7, <1>9, <1>10, <2>1, RegsLoop
  <1>11. CASE ~o.exec /\ pc' = "end"
    <2>1. regs' = regs
      BY <1>11 DEF WriteReg
    <2> QED BY <1>4, <1>5, <1>7, <1>9, <1>11, <2>1, RegsLoop
  <1>12. CASE eeprom = "open" /\ (o.exec \/ pc' # "end")
    <2>1. RegsAfter(items, n)
      <3>1. k - 1 = n
        BY <1>5
      <3> QED BY <1>1, <1>4, <1>12, <3>1 DEF Done
    <2>2. ASSUME NEW q \in Reg \ {r}
          PROVE  Applied(items, n + 1, q)' \/ HasPacked(items, q)
      <3>1. Applied(items, n, q) \/ HasPacked(items, q)
        BY <2>1 DEF RegsAfter
      <3>2. regs'[q] = regs[q] /\ misled \subseteq misled'
        BY <1>9 DEF LinkGrows
      <3> QED BY <1>8, <3>1, <3>2, AppliedOn
    <2>3. ASSUME ~HasPacked(items, r)
          PROVE  Applied(items, n + 1, r)'
      <3>1. CASE o.exec
        <4>1. regs'[r] = w
          BY <1>9, <1>12, <3>1
        <4>2. RegsAfter(Written, k - 1)
          BY <1>1, <1>12 DEF Done
        <4>3. \/ WordAfter(items, 1..(n + 1), r, w)
              \/ r \in misled' /\ \E S \in SUBSET (1..(n + 1)) : WordAfter(items, S, r, w)
          BY <1>3, <1>4, <1>5, <1>12, <2>3, <4>2
        <4> QED BY <4>1, <4>3 DEF Applied
      <3>2. CASE ~o.exec
        <4>1. regs'[r] = regs[r]
          BY <1>9, <3>2
        <4>2. Partly(items, n + 1, r, regs[r])
          BY <2>1, <2>3, AppliedPartly, PartlyOn DEF RegsAfter
        <4>3. r \in misled'
          BY <1>3, <1>6, <1>7, <1>12, <3>2 DEF Exchanged
        <4> QED BY <4>1, <4>2, <4>3 DEF Applied, Partly
      <3> QED BY <1>6, <3>1, <3>2
    <2>4. RegsAfter(items, n + 1)'
      <3>1. \A q \in Reg : Applied(items, n + 1, q)' \/ HasPacked(items, q)
        BY <2>2, <2>3
      <3> QED BY <3>1 DEF RegsAfter
    <2> QED BY <1>4, <1>5, <1>7, <1>9, <1>12, <2>4, RegsLoop
  <1> QED BY <1>6, <1>10, <1>11, <1>12

\* write_parm() of a whole register: nothing, or the item and all of it.
LEMMA WholeWritten ==
    ASSUME Shape, BracketInv, PlanInv, WriteInv, LinkGrows, WriteItem
    PROVE  WriteInv'
  <1>1. PICK o \in Outcome("write", Zero, late[Item.reg]) :
           /\ Exchanged("write", Zero, Item.reg, o)
           /\ \E w \in IF Item.kind = "word" THEN {PutShort(Item.val)} ELSE Word :
                 WriteReg(o, Item.reg, w)
           /\ AfterWrite(o.ret)
    BY DEF WriteItem
  <1>2. PICK w \in IF Item.kind = "word" THEN {PutShort(Item.val)} ELSE Word :
           WriteReg(o, Item.reg, w)
    BY <1>1
  <1>3. /\ pc = "loop" /\ plan # <<>> /\ ~NoItemLeft
        /\ Kind \in WriteKinds /\ Item.kind \in {"word", "packed"}
        /\ UNCHANGED <<plan, job, eeprom>>
    BY DEF WriteItem, Shape
  <1>4. /\ k \in 1..Len(Block.items) /\ Item.reg \in Reg /\ Item.val \in Int
        /\ Written = Block.items /\ Item = Written[k]
    BY <1>3, ItemFacts, WriterFacts DEF WriteInv, LoopInv, NoItemLeft, Item
  <1>5. w \in Word /\ (Item.kind = "word" => w = PutShort(Item.val))
    BY <1>2, <1>4, PutShortWord
  <1>6. CASE Item.kind = "packed"
    <2>1. HasPacked(Written, Item.reg)
      BY <1>4, <1>6 DEF HasPacked
    <2> QED BY <1>1, <1>2, <1>3, <1>5, <2>1, ItemWritten
  <1>7. CASE Item.kind = "word"
    <2>1. PICK items : items = Written
      OBVIOUS
    <2>2. PICK n \in Nat : k = n + 1
      <3>1. k - 1 \in Nat /\ k = (k - 1) + 1
        BY <1>4
      <3> QED BY <3>1
    <2>3. WordAfter(items, (1..n) \cup {n + 1}, Item.reg, w)
      <3>1. items[n + 1] = Item
        BY <1>4, <2>1, <2>2
      <3>2. \A b \in {1, 2} : Sets(items[n + 1], Item.reg, b) /\ w[b] = ItemByte(items[n + 1], b)
        BY <1>5, <1>7, <3>1 DEF Sets, ItemBytes, ItemByte
      <3> QED BY <3>2, Carried
    <2>4. (1..n) \cup {n + 1} = 1..k
      BY <2>2
    <2>5. WordAfter(Written, 1..k, Item.reg, w)
      BY <2>1, <2>3, <2>4
    <2> QED BY <1>1, <1>2, <1>3, <1>5, <2>5, ItemWritten
  <1> QED BY <1>3, <1>6, <1>7

\* The write after the read of a B0/B1 item: nothing, or the byte of the item
\* and the other byte as the read had it.
LEMMA ByteWritten ==
    ASSUME Shape, BracketInv, PlanInv, WriteInv, LinkGrows, ModifyItem
    PROVE  WriteInv'
  <1>1. PICK o \in Outcome("write", Zero, late[Item.reg]) :
           /\ Exchanged("write", Zero, Item.reg, o)
           /\ WriteReg(o, Item.reg, Merge) /\ AfterWrite(o.ret)
    BY DEF ModifyItem
  <1>2. /\ pc = "modify" /\ plan # <<>> /\ ~NoItemLeft
        /\ Kind \in WriteKinds /\ Item.kind \in {"byte0", "byte1"} /\ data \in Word
        /\ Item.reg \notin misled => data = regs[Item.reg]
        /\ HasPacked(Written, Item.reg) \/ Partly(Written, k - 1, Item.reg, data)
        /\ UNCHANGED <<plan, job, eeprom>>
    BY DEF ModifyItem, Shape, WriteInv, LoopInv
  <1>3. /\ k \in 1..Len(Block.items) /\ Item.reg \in Reg /\ Item.val \in Int
        /\ Item = Written[k]
    BY <1>2, ItemFacts, WriterFacts DEF WriteInv, LoopInv, NoItemLeft, Item
  <1>4. Item.val % B \in Byte
    BY <1>3, PutShortWord
  <1>5. /\ Merge \in Word
        /\ \A b \in {1, 2} : Merge[b] = IF b \in ItemBytes(Item) THEN Item.val % B ELSE data[b]
    BY <1>2, <1>4 DEF Merge, Word, ItemBytes
  <1>6. PICK items : items = Written
    OBVIOUS
  <1>7. PICK n \in Nat : k = n + 1 /\ k - 1 = n
    <2>1. k - 1 \in Nat /\ k = (k - 1) + 1
      BY <1>3
    <2> QED BY <2>1
  <1>8. ASSUME NEW S \in SUBSET (1..n), WordAfter(items, S, Item.reg, data)
        PROVE  WordAfter(items, S \cup {n + 1}, Item.reg, Merge)
    <2>1. items[n + 1] = Item
      BY <1>3, <1>6, <1>7
    <2>2. \A b \in {1, 2} :
             \/ Sets(items[n + 1], Item.reg, b) /\ Merge[b] = ItemByte(items[n + 1], b)
             \/ /\ ~Sets(items[n + 1], Item.reg, b) /\ Merge[b] = data[b]
                /\ ByteAfter(items, S, Item.reg, b, data[b])
      BY <1>2, <1>5, <1>8, <2>1 DEF Sets, ItemByte, WordAfter
    <2> HIDE DEF Merge
    <2> QED BY <2>2, Carried
  <1>9. ASSUME ~HasPacked(Written, Item.reg), RegsAfter(Written, k - 1)
        PROVE  \/ WordAfter(Written, 1..k, Item.reg, Merge)
               \/ /\ Item.reg \in misled'
                  /\ \E S \in SUBSET (1..k) : WordAfter(Written, S, Item.reg, Merge)
    <2>1. CASE Item.reg \in misled
      <3>1. PICK S \in SUBSET (1..n) : WordAfter(items, S, Item.reg, data)
        BY <1>2, <1>6, <1>7, <1>9 DEF Partly
      <3>2. S \cup {n + 1} \in SUBSET (1..k)
        BY <1>7
      <3> QED BY <1>6, <1>8, <2>1, <3>1, <3>2 DEF LinkGrows
    <2>2. CASE Item.reg \notin misled
      <3>1. WordAfter(items, 1..n, Item.reg, data)
        BY <1>2, <1>3, <1>6, <1>7, <1>9, <2>2 DEF RegsAfter, Applied
      <3>2. (1..n) \cup {n + 1} = 1..k
        BY <1>7
      <3>3. WordAfter(items, (1..n) \cup {n + 1}, Item.reg, Merge)
        BY <1>8, <3>1
      <3> QED BY <1>6, <3>2, <3>3
    <2> QED BY <2>1, <2>2
  <1> HIDE DEF Merge
  <1> QED BY <1>1, <1>2, <1>5, <1>9, ItemWritten

\* An item that is passed over in the writer's loop.
LEMMA ItemSkipped ==
    ASSUME Shape, PlanInv, WriteInv, LinkGrows, pc = "loop", Kind \in WriteKinds, ~NoItemLeft,
           Item.kind \in {"unknown", "badtype"}, UNCHANGED <<plan, regs, job, eeprom>>,
           pc' = "loop", k' = k + 1
    PROVE  WriteInv'
  <1>1. /\ plan # <<>> /\ regs' \in [Reg -> Word] /\ k \in Nat \ {0} /\ Done(k - 1)
    BY DEF Shape, WriteInv, LoopInv
  <1>2. Written = Block.items /\ Item = Written[k] /\ Written' = Written
    BY <1>1, WriterFacts DEF Item, Written
  <1>3. PICK items : items = Written
    OBVIOUS
  <1>4. PICK n \in Nat : k = n + 1 /\ k - 1 = n
    <2>1. k - 1 \in Nat /\ k = (k - 1) + 1
      BY <1>1
    <2> QED BY <2>1
  <1>5. CASE eeprom # "open"
    BY <1>1, <1>3, <1>4, <1>5, RegsLoop
  <1>6. CASE eeprom = "open"
    <2>1. RegsAfter(items, n)
      BY <1>1, <1>3, <1>4, <1>6 DEF Done
    <2>2. \A r \in Reg, b \in {1, 2} : ~Sets(items[n + 1], r, b)
      BY <1>2, <1>3, <1>4 DEF Sets, ItemBytes
    <2>3. ASSUME NEW r \in Reg PROVE Applied(items, n + 1, r)' \/ HasPacked(items, r)
      BY <2>1, <2>2, AppliedOn DEF RegsAfter, LinkGrows
    <2>4. RegsAfter(items, n + 1)'
      BY <2>3 DEF RegsAfter
    <2> QED BY <1>1, <1>3, <1>4, <1>6, <2>4, RegsLoop
  <1> QED BY <1>5, <1>6

\* The read of a B0/B1 item: the register, or what it was after some of the items.
LEMMA ReadBefore ==
    ASSUME Shape, LinkInv, PlanInv, WriteInv, LinkGrows, ReadForModify
    PROVE  WriteInv'
  <1>1. PICK o \in Outcome("read", regs[Item.reg], late[Item.reg]) :
           /\ Exchanged("read", regs[Item.reg], Item.reg, o)
           /\ data' = o.data
           /\ GoOn(IF ReadUsable(o.ret) THEN "modify" ELSE "end")
    BY DEF ReadForModify
  <1>2. /\ pc = "loop" /\ ~NoItemLeft /\ Kind \in WriteKinds /\ Item.kind \in {"byte0", "byte1"}
        /\ UNCHANGED <<plan, k, regs, job, eeprom>> /\ plan # <<>> /\ k \in Nat \ {0}
    BY DEF ReadForModify, bms, Shape, WriteInv, LoopInv
  <1>3. /\ o.old \in BOOLEAN
        /\ o.old => SettledBy(o, late[Item.reg])
        /\ ~o.old => o.ret \in {-1, 0, 2} /\ TwoIsRead(o, "read", regs[Item.reg])
    <2>1. Cost(o)
      BY <1>1 DEF Exchanged
    <2> QED BY <2>1, ReadFacts, Zenon
  <1>4. Item.reg \in Reg /\ Written = Block.items
    BY <1>2, ItemFacts, WriterFacts DEF NoItemLeft
  <1>5. CASE ~ReadUsable(o.ret)
    <2>1. pc' = "end"
      BY <1>1, <1>5 DEF GoOn
    <2> QED BY <1>2, <2>1, RegsQuiet DEF Before
  <1>6. CASE ReadUsable(o.ret)
    <2>1. pc' = "modify"
      BY <1>1, <1>6 DEF GoOn
    <2>2. Kind' = Kind /\ Item' = Item /\ NoItemLeft' = NoItemLeft /\ Written' = Written
      BY <1>2 DEF Kind, Item, NoItemLeft, Block, Written
    <2>3. PICK n \in Nat : k - 1 = n
      BY <1>2
    <2>4. n <= Len(Written) /\ NoneRefused(Written, n) /\ Done(n) /\ LateKnown(Written, n)
      BY <1>2, <2>3 DEF WriteInv, LoopInv
    <2>5. LateKnown(Written, n)' /\ Done(n)'
      <3>1. LateKnown(Written, n)'
        BY <1>2, <2>4, KnownStays
      <3>2. RegsAfter(Written, n) => RegsAfter(Written, n)'
        BY <1>2, OrderKept DEF WriteInv
      <3> QED BY <1>2, <2>4, <3>1, <3>2 DEF Done, AllZero
    <2>6. /\ data' \in Word
          /\ Item.reg \notin misled' => data' = regs[Item.reg]
          /\ HasPacked(Written, Item.reg) \/ Partly(Written, n, Item.reg, data')
      <3>1. CASE o.old
        <4>1. PICK a \in late[Item.reg] : o.data = a.data
          BY <1>3, <3>1 DEF SettledBy
        <4>2. a \in Answers
          BY <1>4 DEF LinkInv
        <4>3. Item.reg \in misled'
          BY <1>1, <3>1 DEF Exchanged
        <4> QED BY <1>1, <1>4, <2>4, <4>1, <4>2, <4>3 DEF LateKnown, Answers
      <3>2. CASE ~o.old
        <4>1. data' = regs[Item.reg]
          BY <1>1, <1>3, <1>6, <3>2 DEF ReadUsable, TwoIsRead
        <4>2. CASE eeprom = "open"
          BY <1>4, <2>4, <4>1, <4>2, AppliedPartly DEF Done, RegsAfter, WriteInv
        <4>3. CASE eeprom # "open"
          BY <1>4, <2>4, <4>1, <4>3, PartlyZero DEF Done, AllZero, WriteInv
        <4> QED BY <4>2, <4>3
      <3> QED BY <1>3, <3>1, <3>2
    <2>7. Untouched' /\ AppliedInOrder' /\ regs' \in [Reg -> Word]
      BY <1>2, <2>1, RegsKept DEF Before
    <2>8. LoopInv'
      <3>1. k' = k /\ k' - 1 = n /\ pc' \notin Before
        BY <1>2, <2>1, <2>3 DEF Before
      <3>2. Done(k - 1)' /\ LateKnown(Written, k - 1)'
        BY <1>2, <2>2, <2>3, <2>5 DEF Done, RegsAfter, Applied, LateKnown
      <3> QED BY <1>2, <2>1, <2>2, <2>3, <2>4, <2>6, <3>1, <3>2 DEF LoopInv, Partly
    <2> QED BY <2>7, <2>8 DEF WriteInv
  <1> QED BY <1>5, <1>6

\* Every step keeps what is known of the registers.
LEMMA RegsStep ==
    Shape /\ LinkInv /\ BracketInv /\ PlanInv /\ WriteInv /\ [Next]_vars => WriteInv'
  <1> SUFFICES ASSUME Shape, LinkInv, BracketInv, PlanInv, WriteInv, [Next]_vars PROVE WriteInv'
    OBVIOUS
  <1>0. LinkGrows
    BY LinkStep, HistoryGrows DEF LinkGrows
  <1>1. CASE Finish \/ Open \/ GetInfo \/ LoopDone
    BY <1>0, <1>1, RegsQuiet DEF Finish, Open, GetInfo, LoopDone, GoOn, Exit, bms, host, Before
  <1>2. CASE SetMosfet \/ Reset \/ FullReset \/ End
    BY <1>0, <1>2, RegsQuiet DEF SetMosfet, Reset, FullReset, End, GoOn, bms, host, Before
  <1>3. CASE Start
    <2>1. /\ pc = "start" /\ UNCHANGED <<plan, k, regs, job>>
          /\ \/ pc' = "exit"
             \/ \E o : pc' = AfterStart(o.ret)
      BY <1>3 DEF Start, GoOn, Exit
    <2>2. pc' \in {"exit", "close", "fset", "reset", "loop"}
      BY <2>1 DEF AfterStart
    <2> QED BY <1>0, <2>1, <2>2, RegsQuiet DEF Before
  <1>4. CASE Close \/ EndAgain
    <2>1. UNCHANGED <<regs, job>> /\ plan # <<>>
      BY <1>4 DEF Close, EndAgain, bms, Shape
    <2>2. \/ plan' = plan /\ k' = k /\ pc' \in {"exit", "end2"}
          \/ plan' = Tail(plan) /\ k' = 1 /\ pc' = "next"
      BY <1>4 DEF Close, EndAgain, NextBlock, GoOn, Exit
    <2> QED BY <1>0, <2>1, <2>2, RegsQuiet DEF Before
  <1>5. CASE ReadItem
    <2>1. /\ pc' \in {"loop", "end"} /\ k' = k + 1 /\ UNCHANGED <<plan, regs, job>>
          /\ pc = "loop" /\ Kind \in ReadKinds
      BY <1>5 DEF ReadItem, GoOn, OnReadFailure, bms
    <2>2. Kind \notin WriteKinds /\ Kind' = Kind
      BY <2>1 DEF ReadKinds, WriteKinds, Kind, Block
    <2>3. Untouched' /\ AppliedInOrder' /\ regs' \in [Reg -> Word]
      BY <1>0, <2>1, RegsKept DEF Before
    <2> QED BY <2>1, <2>2, <2>3 DEF WriteInv, LoopInv, Before
  <1>6. CASE UnknownName
    <2>1. /\ pc = "loop" /\ ~NoItemLeft /\ Item.kind = "unknown"
          /\ UNCHANGED <<plan, regs, job, eeprom>>
          /\ \/ pc' \in {"exit", "end"} /\ k' = k
             \/ pc' = "loop" /\ k' = k + 1
      BY <1>6 DEF UnknownName, GoOn, Exit, bms
    <2>2. CASE pc' \in {"exit", "end"} /\ k' = k
      BY <1>0, <2>1, <2>2, RegsQuiet DEF Before
    <2>3. CASE pc' = "loop" /\ k' = k + 1 /\ Kind \in WriteKinds
      BY <1>0, <2>1, <2>3, ItemSkipped
    <2>4. CASE pc' = "loop" /\ k' = k + 1 /\ Kind \notin WriteKinds
      <3>1. Kind' = Kind
        BY <2>1 DEF Kind, Block
      <3>2. Untouched' /\ AppliedInOrder' /\ regs' \in [Reg -> Word]
        BY <1>0, <2>1, <2>4, RegsKept DEF Before
      <3> QED BY <2>1, <2>4, <3>1, <3>2 DEF WriteInv, LoopInv, Before
    <2> QED BY <2>1, <2>2, <2>3, <2>4
  <1>7. CASE SkipItem
    <2>1. /\ pc = "loop" /\ ~NoItemLeft /\ Kind \in WriteKinds /\ UNCHANGED <<plan, regs, job, eeprom>>
          /\ \/ pc' = "end" /\ k' = k
             \/ Item.kind = "badtype" /\ pc' = "loop" /\ k' = k + 1
      BY <1>7 DEF SkipItem, GoOn, bms
    <2>2. CASE pc' = "end" /\ k' = k
      BY <1>0, <2>1, <2>2, RegsQuiet DEF Before
    <2>3. CASE Item.kind = "badtype" /\ pc' = "loop" /\ k' = k + 1
      BY <1>0, <2>1, <2>3, ItemSkipped
    <2> QED BY <2>1, <2>2, <2>3
  <1>8. CASE WriteItem
    BY <1>0, <1>8, WholeWritten
  <1>9. CASE ReadForModify
    BY <1>0, <1>9, ReadBefore
  <1>10. CASE ModifyItem
    BY <1>0, <1>10, ByteWritten
  <1>11. CASE UNCHANGED vars
    <2>1. /\ UNCHANGED <<Kind, Item, NoItemLeft, Written>>
          /\ UNCHANGED <<pc, k, plan, data, regs, job, eeprom, late, misled>>
      BY <1>11 DEF vars, Kind, Item, NoItemLeft, Block, Written
    <2>2. WriteInv' <=> WriteInv
      BY <2>1 DEF WriteInv, Untouched, Writer, LoopInv, Done, LateKnown, AppliedInOrder, RegsAfter,
                  Applied, Partly, AllZero
    <2> QED BY <2>2
  <1> QED BY <1>1, <1>2, <1>3, <1>4, <1>5, <1>6, <1>7, <1>8, <1>9, <1>10, <1>11
          DEF Next, Exchange, Control

-----------------------------------------------------------------------------
(* The theorems. *)

\* A holder of the lock has done nothing yet.
LEMMA InitSession == Init => SessionInv
  <1> SUFFICES ASSUME Init PROVE SessionInv
    OBVIOUS
  <1>1. PICK p \in Plans, o \in SUBSET Fet : plan = p /\ off = o /\ job = [plan |-> p, off |-> o]
    BY DEF Init
  <1>2. p \in Seq(Blocks) /\ p # <<>> /\ Len(p) \in Nat
    BY PlanAssumption
  <1>3. PlanInv
    <2>1. SubSeq(p, 0 + 1, Len(p)) = p
      BY <1>2, SubSeqFull
    <2>2. 0 \in 0..Len(p)
      BY <1>2
    <2> QED BY <1>1, <2>1, <2>2 DEF PlanInv
  <1>4. Shape /\ BracketInv
    BY InitBracket
  <1>5. /\ pc = "next" /\ k = 1 /\ regs = AllZero
        /\ late = [r \in Reg \cup {START} |-> {}] /\ misled = {}
    BY DEF Init, AllZero
  <1>6. FetPlace /\ InfoTrue /\ OtherFetKept
    BY <1>1, <1>5 DEF FetPlace, InfoTrue, OtherFetKept
  <1>7. FetInv
    <2>1. FetFirst => plan # <<>> /\ Kind = "fet"
      BY <1>1, <1>2 DEF FetFirst, Kind, Block
    <2> QED BY <1>5, <2>1 DEF FetInv, FetDone
  <1>8. regs \in [Reg -> Word] /\ Untouched /\ LoopInv
    <2>1. Zero \in Word
      BY SizeAssumption DEF Zero, Word, Byte
    <2> QED BY <1>5, <2>1 DEF Untouched, LoopInv, AllZero
  <1>9. AppliedInOrder
    <2>1. Len(Written) \in Nat
      <3>1. ASSUME NEW b \in 1..Len(p) PROVE Len(p[b].items) \in Nat
        <4>1. p[b] \in Blocks
          BY <1>2
        <4> QED BY <4>1 DEF Blocks
      <3>2. \/ Written = <<>>
            \/ \E b \in 1..Len(p) : Written = p[b].items
        BY <1>1 DEF Written
      <3> QED BY <3>1, <3>2
    <2>2. 1..0 = {} /\ 0 \in 0..Len(Written)
      BY <2>1
    <2>3. \A r \in Reg : WordAfter(Written, 1..0, r, regs[r])
      BY <1>5, <2>2, PartlyZero DEF AllZero
    <2> QED BY <2>2, <2>3 DEF AppliedInOrder, NoneRefused, RegsAfter, Applied
  <1>10. LinkInv
    BY <1>5 DEF LinkInv
  <1> QED BY <1>10, <1>3, <1>4, <1>6, <1>7, <1>8, <1>9 DEF SessionInv, WriteInv

\* The invariant of a run of main(): what has happened so far of the command
\* line, in every block and whatever goes wrong on the link.
THEOREM SessionInvariant == Spec => []SessionInv
  <1>1. SessionInv /\ [Next]_vars => SessionInv'
    BY BracketStep, LinkStep, PlanNext, FetPlaceStep, FetStep, RegsStep DEF SessionInv
  <1> QED BY InitSession, <1>1, PTL DEF Spec

\* A run that returns 0 has ended its last bracket and closed the transport, and
\* over a quiet link it leaves the BMS's EEPROM shut.
THEOREM ExitsClean == Spec => []CleanExit
  <1>1. SessionInv => CleanExit
    BY DEF SessionInv, BracketInv
  <1> QED BY SessionInvariant, <1>1, PTL

\* On no path does main() write a parameter or switch a FET other than between
\* an acknowledged jbd_eeprom_start() and the end of the bracket.
THEOREM WritesBracketed == Spec => WritesInsideBracket
  <1>1. SessionInv /\ [Next]_vars => (regs' # regs \/ off' # off => bracket = "in")
    <2> SUFFICES ASSUME SessionInv, [Next]_vars, pc \notin Inside PROVE regs' = regs /\ off' = off
      BY DEF SessionInv, BracketInv
    <2>1. CASE Finish \/ Open \/ Close \/ LoopDone \/ UnknownName \/ SkipItem
      BY <2>1 DEF Finish, Open, Close, LoopDone, UnknownName, SkipItem, bms
    <2>2. CASE Start \/ End \/ EndAgain \/ GetInfo \/ Reset \/ FullReset
      BY <2>2 DEF Start, End, EndAgain, GetInfo, Reset, FullReset, bms
    <2>3. CASE SetMosfet \/ ReadItem \/ ReadForModify \/ WriteItem \/ ModifyItem
      BY <2>3 DEF SetMosfet, ReadItem, ReadForModify, WriteItem, ModifyItem, Inside
    <2>4. CASE UNCHANGED vars
      BY <2>4 DEF vars
    <2> QED BY <2>1, <2>2, <2>3, <2>4 DEF Next, Exchange, Control
  <1>2. SessionInv /\ [Next]_vars => [regs' # regs \/ off' # off => bracket = "in"]_vars
    BY <1>1
  <1> QED BY SessionInvariant, <1>2, PTL DEF Spec, WritesInsideBracket

\* Over a quiet link -g and -G leave each FET they name as asked for, whatever
\* the protection does meanwhile and whatever block runs after them.
THEOREM FetsSetAsRequested == Spec => []FetsAsRequested
  <1>1. SessionInv => FetsAsRequested
    BY DEF SessionInv, FetInv, FetDone, FetsSet, FetFirst, FetsAsRequested
  <1> QED BY SessionInvariant, <1>1, PTL

\* A FET that is not named is never switched, whatever is lost on the link,
\* unless an empty answer or an active protection misled the mask.
THEOREM UnnamedFetKept == Spec => []OtherFetKept
  <1>1. SessionInv => OtherFetKept
    BY DEF SessionInv
  <1> QED BY SessionInvariant, <1>1, PTL

\* Wherever the run stops, the registers hold what a prefix of the items asks
\* for, whole items and in their order; items may be missing only of a register
\* for which jbd_rw() took an answer to an earlier exchange for its own.
THEOREM WritesInOrder == Spec => []AppliedInOrder
  <1>1. SessionInv => AppliedInOrder
    BY DEF SessionInv, WriteInv
  <1> QED BY SessionInvariant, <1>1, PTL
=============================================================================
