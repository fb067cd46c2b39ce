------------------------------- MODULE Session -------------------------------
(***************************************************************************)
(* One invocation of jbdtool from the moment it holds the target's lock to *)
(* its exit: the control flow of main() with write_parm(),                 *)
(* jbd_set_mosfet(), jbd_reset() and jbd_eeprom_start()/end().             *)
(*                                                                         *)
(* The command line is a plan, a sequence of blocks main() runs one after  *)
(* the other, each opening and closing the transport itself.  An exchange  *)
(* (jbd_rw) is one step here, with every outcome module JbdRw allows:      *)
(* answered, answered with an empty frame, executed but unanswered, never  *)
(* executed, or settled by an answer to an earlier exchange with the same  *)
(* register (jbd_verify() matches the register only), itself executed or   *)
(* not.  Which answers may still come is a set per register: they may come *)
(* more than once and in any order, more than a FIFO link allows.  One     *)
(* step is enough because requests keep their order: one executed late is  *)
(* still executed before those that follow it.  The BMS (external) changes *)
(* a register only while its EEPROM is open, and refuses nothing then.     *)
(***************************************************************************)
EXTENDS Integers, Sequences

CONSTANTS Plans,     \* the command lines considered: sequences of blocks
          Reg,       \* parameter registers
          B,         \* values of a byte, 256 in the code
          MaxFaults  \* exchanges and opens that go wrong (bound)

ASSUME SizeAssumption == B \in Nat \ {0} /\ MaxFaults \in Nat

\* JBD_REG_EEPROM, which jbd_eeprom_start() writes, is no parameter.
START == "start"
ASSUME StartAssumption == START \notin Reg

Byte == 0..(B - 1)
Word == Byte \X Byte
Fet  == {"charge", "discharge"}

ReadKinds  == {"dump", "rreg", "rall", "rargs", "rjson", "rtext"}
WriteKinds == {"wargs", "wjson", "wtext"}
Kinds      == {"fet", "reset", "info"} \cup ReadKinds \cup WriteKinds

\* word: UINT, INT, TEMP, DATE, PCT, FLOAT, good bit names; byte0, byte1: B0,
\* B1; packed: the sub-fields of HCOC and HTRT that write_parm() has no case
\* for; badbits: parse_bits() fails; unknown: _getp() fails; novalue: the
\* last argument stands alone; badtype: JSON null or object.
ItemKinds == {"word", "byte0", "byte1", "packed", "badbits", "unknown",
              "novalue", "badtype"}

Blocks == [kind  : Kinds,
           items : Seq([kind : ItemKinds, reg : Reg, val : Int]),
           want  : [Fet -> {"on", "off", "keep"}]]

\* main() looks at -g and -G first and once, and one command line has one list
\* of values to write, or none.
ASSUME PlanAssumption ==
    \A p \in Plans :
       /\ p \in Seq(Blocks) /\ p # <<>>
       /\ \A b \in 2..Len(p) : p[b].kind # "fet"
       /\ \A b, c \in 1..Len(p) : {p[b].kind, p[c].kind} \subseteq WriteKinds => b = c

VARIABLES plan,    \* blocks to run, the current one first
          pc,      \* place in the current block
          k,       \* index of the current item
          tp,      \* the transport is open
          data,    \* write_parm's data[], after its read
          info,    \* FETs that are on, as jbd_get_info() reported
          code,    \* exit status, -1 while running
          bracket, \* EEPROM bracket as main() knows it: none | in | ended
          faults,  \* things gone wrong
          emptied, \* history: a read was answered with an empty frame
          late,    \* link: per register, the answers that may still come
          misled,  \* history: registers with an exchange that one of them settled
          eeprom,  \* BMS: EEPROM open
          regs,    \* BMS: parameter registers
          off,     \* BMS: FETs switched off by command
          prot,    \* history: FETs the BMS's protection held off when asked
          job      \* the command line and the FETs found off (never change)

bms  == <<eeprom, regs, off>>
host == <<plan, k, tp, data, info, code, bracket, emptied>>
link == <<late, misled>>
vars == <<plan, pc, k, tp, data, info, code, bracket, faults, emptied,
          late, misled, eeprom, regs, off, prot, job>>

Zero == <<0, 0>>

Init == /\ \E p \in Plans, o \in SUBSET Fet :
             /\ plan = p
             /\ off = o
             /\ job = [plan |-> p, off |-> o]
        /\ regs = [r \in Reg |-> Zero] /\ prot = {}
        /\ pc = "next" /\ k = 1 /\ tp = "closed" /\ data = Zero /\ info = {}
        /\ code = -1 /\ bracket = "none" /\ faults = 0 /\ emptied = FALSE
        /\ eeprom = "shut" /\ late = [r \in Reg \cup {START} |-> {}] /\ misled = {}

Block == Head(plan)
Kind  == Block.kind
Item  == Block.items[k]
NoItemLeft == k > Len(Block.items)

-----------------------------------------------------------------------------
(* Exchanges. *)

\* An answer as jbd_rw() returns it: that to a read carries a word, that to a
\* write nothing.
Empty == [ret |-> 0, data |-> Zero]
Answer(act, value) == IF act = "read" THEN [ret |-> 2, data |-> value] ELSE Empty

\* What jbd_rw() can return and whether the BMS executed the request.  "value":
\* what the BMS has for a read; "earlier": answers to earlier exchanges with the
\* register, which jbd_verify() takes as well.
Outcome(act, value, earlier) ==
    LET with(a, x, c, s) == [ret |-> a.ret, data |-> a.data, exec |-> x, cost |-> c, old |-> s]
        failed   == [ret |-> -1, data |-> Zero]
        answered == {with(Answer(act, value), TRUE, 0, FALSE)}
        nothing  == IF act = "read" THEN {with(Empty, TRUE, 1, FALSE)} ELSE {}
        lost     == {with(failed, x, 1, FALSE) : x \in BOOLEAN}
        settled  == {with(a, x, 1, TRUE) : a \in earlier, x \in BOOLEAN}
    IN  IF tp = "closed" THEN {with(failed, FALSE, 0, FALSE)}
                         ELSE answered \cup nothing \cup lost \cup settled

Cost(o) == /\ faults + o.cost <= MaxFaults
           /\ faults' = faults + o.cost

\* An exchange with a parameter register or with START: once executed, its
\* answers may come late or again.
Exchanged(act, value, r, o) ==
    /\ Cost(o)
    /\ late' = IF o.exec THEN [late EXCEPT ![r] = @ \cup {Answer(act, value), Empty}] ELSE late
    /\ misled' = IF o.old THEN misled \cup {r} ELSE misled

\* The other registers are called once on a command line, or the result of the
\* later call decides nothing: an earlier answer to it is like a lost one.

\* The BMS executes a parameter write only with the EEPROM open.
WriteReg(o, r, w) ==
    regs' = IF o.exec /\ eeprom = "open" THEN [regs EXCEPT ![r] = w] ELSE regs

\* _putshort(): high byte first, both cut to a byte.
PutShort(v) == <<(v \div B) % B, v % B>>

Exit(c) == pc' = "exit" /\ code' = c
GoOn(to) == pc' = to /\ UNCHANGED code

-----------------------------------------------------------------------------
(* Every block: open, start, ..., end, close. *)

\* The plan is done: main() returns 0.
Finish == /\ pc = "next"
          /\ plan = <<>>
          /\ Exit(0)
          /\ UNCHANGED <<plan, k, tp, data, info, bracket, faults, emptied, link, bms, prot, job>>

\* pack.open(); every caller returns 1 when it fails, and before it when the
\* parameter file cannot be read.
Open == /\ pc = "next"
        /\ plan # <<>>
        /\ \/ /\ tp' = "open"
              /\ GoOn(IF Kind \in {"fet", "info"} THEN "info" ELSE "start")
              /\ UNCHANGED faults
           \/ /\ faults < MaxFaults
              /\ faults' = faults + 1
              /\ Exit(1)
              /\ UNCHANGED tp
           \/ /\ Kind \in {"rjson", "rtext", "wjson", "wtext"}
              /\ Exit(1)
              /\ UNCHANGED <<tp, faults>>
        /\ UNCHANGED <<plan, k, data, info, bracket, emptied, link, bms, prot, job>>

\* Where main() goes with the result of jbd_eeprom_start(): "exit" is
\* "return 1" with the transport open.  (Mutant: the result is not checked.)
AfterStart_Unchecked(ret) ==
    CASE Kind = "fet"   -> "fset"
      [] Kind = "reset" -> "reset"
      [] OTHER          -> "loop"

AfterStart(ret) ==
    CASE Kind = "fet"   -> IF ret < 0 THEN "close" ELSE "fset"
      [] Kind = "reset" -> IF ret # 0 THEN "close" ELSE "reset"
      [] OTHER          -> IF ret # 0 THEN "exit" ELSE "loop"

Start == /\ pc = "start"
         /\ \E o \in Outcome("write", Zero, late[START]) :
              /\ Exchanged("write", Zero, START, o)
              /\ eeprom' = IF o.exec THEN "open" ELSE eeprom
              /\ bracket' = IF o.ret = 0 THEN "in" ELSE bracket
              /\ IF AfterStart(o.ret) = "exit" THEN Exit(1) ELSE GoOn(AfterStart(o.ret))
         /\ UNCHANGED <<plan, k, tp, data, info, emptied, regs, off, prot, job>>

\* jbd_eeprom_end(), its result not looked at.
EndExchange == /\ \E o \in Outcome("write", Zero, {}) :
                    /\ Cost(o)
                    /\ eeprom' = IF o.exec THEN "shut" ELSE eeprom
               /\ UNCHANGED link

End == /\ pc = "end"
       /\ EndExchange
       /\ bracket' = "ended"
       /\ GoOn("close")
       /\ UNCHANGED <<plan, k, tp, data, info, emptied, regs, off, prot, job>>

NextBlock == plan' = Tail(plan) /\ k' = 1 /\ GoOn("next")

\* pack.close().  -X then returns 1, -D returns 0, the JSON writer goes on to
\* end and close a second time, the others are done.
Close == /\ pc = "close"
         /\ tp' = "closed"
         /\ CASE Kind = "reset" -> Exit(1) /\ UNCHANGED <<plan, k>>
              [] Kind = "dump"  -> Exit(0) /\ UNCHANGED <<plan, k>>
              [] Kind = "wjson" -> GoOn("end2") /\ UNCHANGED <<plan, k>>
              [] OTHER          -> NextBlock
         /\ UNCHANGED <<data, info, bracket, faults, emptied, link, bms, prot, job>>

\* The shared jbd_eeprom_end() and close() after the JSON writer's own: the
\* transport is closed already.
EndAgain == /\ pc = "end2"
            /\ EndExchange
            /\ NextBlock
            /\ UNCHANGED <<tp, data, info, bracket, emptied, regs, off, prot, job>>

-----------------------------------------------------------------------------
(* -g and -G, -X, and the default action. *)

\* jbd_get_info(): HWINFO carries the FET state, which is what is really on.
\* An empty answer is taken as data, all zero.
GetInfo == /\ pc = "info"
           /\ \E o \in Outcome("read", Zero, {}), p \in SUBSET Fet :
                /\ Cost(o)
                /\ prot' = prot \cup p
                /\ info' = IF o.ret > 0 THEN Fet \ (off \cup p) ELSE {}
                /\ emptied' = (emptied \/ o.ret = 0)
                /\ GoOn(IF Kind = "fet" /\ o.ret >= 0 THEN "start" ELSE "close")
           /\ UNCHANGED <<plan, k, tp, data, bracket, link, bms, job>>

\* opt: the FETs to switch off.  A FET not named keeps the state it is in.
\* (Mutants: the reported state is not used; "on" does not clear the bit.)
MosfetMask_ArgsOnly == {f \in Fet : Block.want[f] = "off"}
MosfetMask_NoClear  == {f \in Fet : Block.want[f] = "off" \/ f \notin info}

MosfetMask == {f \in Fet : \/ Block.want[f] = "off"
                           \/ Block.want[f] = "keep" /\ f \notin info}

SetMosfet == /\ pc = "fset"
             /\ \E o \in Outcome("write", Zero, {}) :
                  /\ Cost(o)
                  /\ off' = IF o.exec /\ eeprom = "open" THEN MosfetMask ELSE off
             /\ GoOn("end")
             /\ UNCHANGED <<host, link, eeprom, regs, prot, job>>

\* jbd_reset(): the reset register, then, once answered, the full reset,
\* after which the BMS may have lost its open EEPROM.
Reset == /\ pc = "reset"
         /\ \E o \in Outcome("write", Zero, {}) :
              /\ Cost(o)
              /\ GoOn(IF o.ret = 0 THEN "freset" ELSE "end")
         /\ UNCHANGED <<host, link, bms, prot, job>>

FullReset == /\ pc = "freset"
             /\ \E o \in Outcome("write", Zero, {}), e \in {"open", "shut"} :
                  /\ Cost(o)
                  /\ eeprom' = IF o.exec THEN e ELSE eeprom
             /\ GoOn("end")
             /\ UNCHANGED <<host, link, regs, off, prot, job>>

-----------------------------------------------------------------------------
(* The loops over parameters. *)

\* fgets, argc, count, params[] or 0xFF reached: break out of the loop.
LoopDone == /\ pc = "loop"
            /\ NoItemLeft
            /\ GoOn("end")
            /\ UNCHANGED <<host, faults, link, bms, prot, job>>

\* What a name _getp() does not know does, per loop.
OnUnknown == CASE Kind \in {"rargs", "rjson", "wjson"} -> "return"
               [] Kind \in {"rtext", "wtext"}          -> "continue"
               [] OTHER                                -> "break"

UnknownName == /\ pc = "loop"
               /\ ~NoItemLeft
               /\ Item.kind = "unknown"
               /\ \/ OnUnknown = "return"   /\ Exit(1)      /\ k' = k
                  \/ OnUnknown = "continue" /\ GoOn("loop") /\ k' = k + 1
                  \/ OnUnknown = "break"    /\ GoOn("end")  /\ k' = k
               /\ UNCHANGED <<plan, tp, data, info, bracket, faults, emptied, link, bms, prot, job>>

\* After a failed read -r -a breaks, the other loops go on.
OnReadFailure == IF Kind = "rall" THEN "end" ELSE "loop"

\* One jbd_rw read per parameter or register.
ReadItem == /\ pc = "loop"
            /\ ~NoItemLeft
            /\ Kind \in ReadKinds
            /\ Item.kind # "unknown"
            /\ \E o \in Outcome("read", regs[Item.reg], late[Item.reg]) :
                 /\ Exchanged("read", regs[Item.reg], Item.reg, o)
                 /\ emptied' = (emptied \/ o.ret = 0)
                 /\ GoOn(IF o.ret < 0 THEN OnReadFailure ELSE "loop")
                 /\ k' = k + 1
            /\ UNCHANGED <<plan, tp, data, info, bracket, bms, prot, job>>

\* Items that stop or skip before anything is sent: a bad bit name makes
\* write_parm() return -1, a missing value breaks, a JSON type continues.
SkipItem == /\ pc = "loop"
            /\ ~NoItemLeft
            /\ Kind \in WriteKinds
            /\ \/ Item.kind \in {"badbits", "novalue"} /\ GoOn("end") /\ k' = k
               \/ Item.kind = "badtype" /\ GoOn("loop") /\ k' = k + 1
            /\ UNCHANGED <<plan, tp, data, info, bracket, faults, emptied, link, bms, prot, job>>

\* if (write_parm(...)) break;  (Mutants: the result ignored; a return that
\* skips jbd_eeprom_end.)
AfterWrite_SkipsEnd(ret) == IF ret = 0 THEN GoOn("loop") /\ k' = k + 1
                                       ELSE GoOn("close") /\ k' = k
AfterWrite_Continue(ret) == GoOn("loop") /\ k' = k + 1
AfterWrite(ret) == IF ret = 0 THEN GoOn("loop") /\ k' = k + 1
                              ELSE GoOn("end") /\ k' = k

\* write_parm(): one write.  data[] is never set for a packed sub-field.
WriteItem == /\ pc = "loop"
             /\ ~NoItemLeft
             /\ Kind \in WriteKinds
             /\ Item.kind \in {"word", "packed"}
             /\ \E o \in Outcome("write", Zero, late[Item.reg]) :
                  /\ Exchanged("write", Zero, Item.reg, o)
                  /\ \E w \in IF Item.kind = "word" THEN {PutShort(Item.val)} ELSE Word :
                        WriteReg(o, Item.reg, w)
                  /\ AfterWrite(o.ret)
             /\ UNCHANGED <<plan, tp, data, info, bracket, emptied, eeprom, off, prot, job>>

\* write_parm() of B0/B1: the read; fewer than one byte is a failure.
ReadUsable(ret) == ret >= 1

ReadForModify == /\ pc = "loop"
                 /\ ~NoItemLeft
                 /\ Kind \in WriteKinds
                 /\ Item.kind \in {"byte0", "byte1"}
                 /\ \E o \in Outcome("read", regs[Item.reg], late[Item.reg]) :
                      /\ Exchanged("read", regs[Item.reg], Item.reg, o)
                      /\ emptied' = (emptied \/ o.ret = 0)
                      /\ data' = o.data
                      /\ GoOn(IF ReadUsable(o.ret) THEN "modify" ELSE "end")
                 /\ UNCHANGED <<plan, k, tp, info, bracket, bms, prot, job>>

Merge == IF Item.kind = "byte0" THEN <<Item.val % B, data[2]>>
                                ELSE <<data[1], Item.val % B>>

ModifyItem == /\ pc = "modify"
              /\ \E o \in Outcome("write", Zero, late[Item.reg]) :
                   /\ Exchanged("write", Zero, Item.reg, o)
                   /\ WriteReg(o, Item.reg, Merge)
                   /\ AfterWrite(o.ret)
              /\ UNCHANGED <<plan, tp, data, info, bracket, emptied, eeprom, off, prot, job>>

-----------------------------------------------------------------------------
Exchange == \/ Start     \/ End       \/ EndAgain \/ GetInfo       \/ SetMosfet
            \/ Reset     \/ FullReset \/ ReadItem \/ ReadForModify
            \/ WriteItem \/ ModifyItem
Control  == Finish \/ Open \/ Close \/ LoopDone \/ UnknownName \/ SkipItem

Next == Exchange \/ Control

Spec == Init /\ [][Next]_vars

-----------------------------------------------------------------------------
\* docs/main.md, Gotchas: "EEPROM access must be bracketed by
\* jbd_eeprom_start() / jbd_eeprom_end(). Every read/write path in main()
\* does this".  So a run in which nothing goes wrong on the link leaves the
\* EEPROM shut.
BracketClosed == pc = "exit" /\ faults = 0 => eeprom = "shut"

\* What the code does: a run that returns 0 has issued jbd_eeprom_end() for
\* its last bracket and closed the transport, and with no trouble on the
\* link the BMS's EEPROM is shut.
CleanExit ==
    code = 0 => /\ tp = "closed"
                /\ bracket # "in"
                /\ faults = 0 => eeprom = "shut"

\* Parameters and FETs change only between an acknowledged start and the end
\* of the bracket: on no path does main() go on writing after a start that
\* failed, not even when the BMS did open its EEPROM.
WritesInsideBracket ==
    [][regs' # regs \/ off' # off => bracket = "in"]_vars

\* The writer's items, if the command line has one.
Written == IF \E b \in 1..Len(job.plan) : job.plan[b].kind \in WriteKinds
           THEN job.plan[CHOOSE b \in 1..Len(job.plan) : job.plan[b].kind \in WriteKinds].items
           ELSE <<>>

\* What an item writes: byte b (1 is the high one) of its register.
ItemBytes(it) == CASE it.kind = "word"  -> {1, 2}
                   [] it.kind = "byte0" -> {1}
                   [] it.kind = "byte1" -> {2}
                   [] OTHER             -> {}

Sets(it, r, b)   == it.reg = r /\ b \in ItemBytes(it)
ItemByte(it, b)  == IF it.kind = "word" THEN PutShort(it.val)[b] ELSE it.val % B

\* Byte b of register r is v once the items at the places S have been carried
\* out in their order: the last one that sets it counts.
Setters(items, S, r, b) == {j \in S : Sets(items[j], r, b)}

ByteAfter(items, S, r, b, v) ==
    \/ v = 0 /\ Setters(items, S, r, b) = {}
    \/ \E j \in Setters(items, S, r, b) :
          v = ItemByte(items[j], b) /\ \A m \in Setters(items, S, r, b) : m <= j

WordAfter(items, S, r, w) == \A b \in {1, 2} : ByteAfter(items, S, r, b, w[b])

HasPacked(items, r) == \E j \in 1..Len(items) : items[j].kind = "packed" /\ items[j].reg = r

\* Register r after the first n items: only where an earlier answer settled an
\* exchange may some of them be missing.
Applied(items, n, r) == \/ WordAfter(items, 1..n, r, regs[r])
                        \/ r \in misled /\ \E S \in SUBSET (1..n) : WordAfter(items, S, r, regs[r])

RegsAfter(items, n) == \A r \in Reg : Applied(items, n, r) \/ HasPacked(items, r)

NoneRefused(items, n) == \A j \in 1..n : items[j].kind \notin {"badbits", "novalue"}

\* Whatever fails, the registers hold what a prefix of the items asks for, up
\* to the first bad bit name or missing value: nothing is written after a
\* failure, no item is half applied, and a B0/B1 write leaves the other byte
\* alone.  Where jbd_rw() took an answer to an earlier exchange for its own,
\* items for that register, and no other, may be missing without main() knowing;
\* those that are not missing still count in their order, and no value appears
\* that was not asked for.  (Registers of packed items are excepted: see
\* SettingsRoundTrip.)
AppliedInOrder ==
    \E n \in 0..Len(Written) : NoneRefused(Written, n) /\ RegsAfter(Written, n)

\* docs/main.md, JSON round trip: "a settings file dumped with -j can be
\* written back as-is".  The registers hold zeros; a file that asks for zeros
\* in every item is such a dump, and writing it changes nothing.
IsDump(items) == \A j \in 1..Len(items) :
                    /\ items[j].kind \in {"word", "byte0", "byte1", "packed"}
                    /\ items[j].val = 0

SettingsRoundTrip ==
    pc = "exit" /\ faults = 0 /\ IsDump(Written) => regs = [r \in Reg |-> Zero]

\* After -g/-G over a quiet link each FET named is as asked for, whatever the
\* protection did meanwhile and whichever block ran after it.
FetsAsRequested ==
    pc = "exit" /\ faults = 0 /\ job.plan[1].kind = "fet" =>
        \A f \in Fet : /\ job.plan[1].want[f] = "off" => f \in off
                       /\ job.plan[1].want[f] = "on"  => f \notin off

\* Even with losses on the link, a FET not named is never switched: only an
\* empty answer or an active protection can mislead the mask.
OtherFetKept ==
    ~emptied /\ prot = {} /\ job.plan[1].kind = "fet" =>
        \A f \in Fet : job.plan[1].want[f] = "keep" => (f \in off) = (f \in job.off)
=============================================================================
