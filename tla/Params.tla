-------------------------------- MODULE Params --------------------------------
(***************************************************************************)
(* The values of the parameters: what pdisp() prints for a register, what  *)
(* becomes of it in a settings file, and what write_parm() and             *)
(* parse_bits() make of it when the file is written back, to a BMS that    *)
(* may have changed meanwhile and from a file the user may have edited.    *)
(* Every exchange succeeds here; modules JbdRw and Session are about those *)
(* that do not.                                                            *)
(*                                                                         *)
(* A register holds two bytes, the high one first, or, for STR, text: a    *)
(* sequence of words.  A value is a number, a truth value, a sequence of   *)
(* names or of the words of a text, or JSON's null.  Names are an array in *)
(* a JSON file and kept together by commas in a text file; the words of a  *)
(* text are kept apart by blanks.  A word that is a numeral is a Num.      *)
(***************************************************************************)
EXTENDS Integers, SequencesExt

CONSTANTS Lists,    \* the settings files considered: sequences of params[] entries
          Bytes,    \* bytes registers hold to begin with
          Texts,    \* texts registers hold to begin with
          Edits,    \* values a user may put in a file
          ListSize, \* room for the names of a mask in pdisp(), 192 in the code
          JoinSize, \* temp[], where main() joins the names of a JSON array, 128
          LineSize  \* line[], for a line of a text file, 128

\* INT stands for INT, TEMP, DATE and PCT, which are treated alike; DOUBLE,
\* SCVAL and the others are fields packed in a register.
Packed  == {"DOUBLE", "SCVAL", "SCDELAY", "DSGOC2", "DSGOC2DELAY", "HCOVPDELAY",
            "HCUVPDELAY"}
Numbers == {"UINT", "INT"}
Masks   == {"FUNC", "NTC"}

func_bits == <<"Switch", "SCRL", "BALANCE_EN", "CHG_BALANCE", "LED_EN", "LED_NUM",
               "RTC", "EDV">>
ntc_bits  == <<"NTC1", "NTC2", "NTC3", "NTC4", "NTC5", "NTC6", "NTC7", "NTC8">>
Bits(dt)  == IF dt = "FUNC" THEN func_bits ELSE ntc_bits

\* The mask of bit i.
BitMask == <<1, 2, 4, 8, 16, 32, 64, 128>>

Separators == ","   \* a word with nothing in it but , | or +
NotString  == "[]"  \* an element of a JSON array that is no string

Num(n)      == [kind |-> "num",   n |-> n, names |-> <<>>]
Bool(n)     == [kind |-> "bool",  n |-> n, names |-> <<>>]
Names(s)    == [kind |-> "names", n |-> 0, names |-> s]
Text(words) == [kind |-> "text",  n |-> 0, names |-> words]
Null        == [kind |-> "null",  n |-> 0, names |-> <<>>]

Parm == [label : STRING, reg : 0..255,
         dt : Numbers \cup Masks \cup Packed \cup {"B0", "B1", "STR"}]

\* A sequence of words, which have a letter each.
IsWords(s) == s \in Seq(ToSet(s)) /\ \A i \in 1..Len(s) : Len(s[i]) \in Nat \ {0}

ASSUME BytesAssumption == Bytes \subseteq 0..255
ASSUME TextsAssumption == \A t \in Texts : IsWords(t)
ASSUME EditsAssumption ==
    \A v \in Edits : v.kind \in {"num", "bool", "names", "text", "null"} /\ IsWords(v.names)

\* What entries of params[] have in common when they share a register.
ASSUME ListsAssumption ==
    /\ Lists \subseteq Seq(Parm)
    /\ \A l \in Lists : \A j, k \in DOMAIN l :
          l[j].reg = l[k].reg => \/ l[j].dt = l[k].dt
                                \/ {l[j].dt, l[k].dt} \subseteq {"B0", "B1"} \cup Packed

\* Names have up to eleven letters, and all eight fit, with quotes and separators.
ASSUME NamesAssumption == \A i \in 1..8 : /\ Len(func_bits[i]) \in 1..11
                                          /\ Len(ntc_bits[i])  \in 1..11
ASSUME SizeAssumption  == ListSize \in Nat /\ ListSize > 8 * (11 + 3)
ASSUME JoinAssumption  == JoinSize \in Nat /\ JoinSize > 8 * (11 + 1)
ASSUME LineAssumption  == LineSize \in Nat /\ LineSize > 26 + 8 * (11 + 1)

VARIABLES list,    \* the parameters dumped
          fmt,     \* outfmt: json, text or csv
          dont_interpret,
          bms,     \* content of each register
          orig,    \* ghost: its content when it was dumped
          file,    \* the settings file: [parm, value] each
          edited,  \* ghost: the entry the user has changed, 0 none
          pos,     \* entry being dumped or written
          stage    \* dump, file, load, done; stopped: writing ended at pos

vars == <<list, fmt, dont_interpret, bms, orig, file, edited, pos, stage>>

Regs(l)      == {l[k].reg : k \in DOMAIN l}
IsText(l, r) == \E k \in DOMAIN l : l[k].reg = r /\ l[k].dt = "STR"

Contents(l) == {[r \in Regs(l) |-> IF IsText(l, r) THEN t[r] ELSE w[r]] :
                   w \in [Regs(l) -> Bytes \X Bytes], t \in [Regs(l) -> Texts]}

Init == /\ list \in Lists
        /\ fmt \in {"json", "text", "csv"}
        /\ dont_interpret \in BOOLEAN
        /\ bms \in Contents(list)
        /\ orig = bms
        /\ file = <<>> /\ edited = 0 /\ pos = 1 /\ stage = "dump"

-----------------------------------------------------------------------------
(* Register to value: pdisp(). *)

Unsigned(w) == 256 * w[1] + w[2]
Signed(w)   == IF w[1] >= 128 THEN Unsigned(w) - 65536 ELSE Unsigned(w)

\* Bits lo and up of a byte, width of them.
Field(byte, lo, width) == (byte \div 2^lo) % 2^width

\* _addstr(): separator, quotes in JSON, and room for the final NUL; a name
\* that does not fit is dropped.
AddStr(str, name, size) ==
    LET need == (IF str.len > 0 THEN 1 ELSE 0) + Len(name)
                   + (IF fmt = "json" THEN 2 ELSE 0) + 1
    IN  IF str.len + need > size THEN str
        ELSE [len |-> str.len + need - 1, names |-> Append(str.names, name)]

\* val & bp->mask
HasBit(byte, i) == (byte \div BitMask[i]) % 2 = 1

SetNames(bits, byte, size) ==
    LET str[i \in 0..8] == IF i = 0 THEN [len |-> 0, names |-> <<>>]
                           ELSE IF HasBit(byte, i) THEN AddStr(str[i - 1], bits[i], size)
                           ELSE str[i - 1]
    IN str[8].names

\* Mutant of MaskNames: the buffer pdisp() had before 1.9.1.
MaskNames_Short(dt, w) == Names(SetNames(Bits(dt), w[2], 64))

\* The bits of the high byte have no names.
MaskNames(dt, w) == Names(SetNames(Bits(dt), w[2], ListSize))

\* A packed field prints as its number or as an entry of a table by it.
PackedField(dt, w) ==
    CASE dt = "DOUBLE"      -> Bool(Field(w[1], 7, 1))
      [] dt = "SCVAL"       -> Num(Field(w[1], 0, 3))
      [] dt = "SCDELAY"     -> Num(Field(w[1], 3, 2))
      [] dt = "DSGOC2"      -> Num(Field(w[2], 0, 4))
      [] dt = "DSGOC2DELAY" -> Num(Field(w[2], 4, 3))
      [] dt = "HCOVPDELAY"  -> Num(Field(w[1], 4, 2))
      [] dt = "HCUVPDELAY"  -> Num(Field(w[1], 6, 2))

pdisp(dt, w) ==
    CASE dt = "UINT" -> Num(Unsigned(w))
      [] dt = "INT"  -> Num(Signed(w))
      [] dt = "B0"   -> Num(w[1])
      [] dt = "B1"   -> Num(w[2])
      [] dt = "STR"  -> Text(w)
      [] dt \in Masks  -> IF dont_interpret THEN Num(Signed(w)) ELSE MaskNames(dt, w)
      [] dt \in Packed -> PackedField(dt, w)

\* One turn of the loop over params[] or the arguments.
DumpParm == /\ stage = "dump" /\ pos <= Len(list)
            /\ file' = Append(file, [parm |-> list[pos],
                                     value |-> pdisp(list[pos].dt, bms[list[pos].reg])])
            /\ pos' = pos + 1
            /\ UNCHANGED <<list, fmt, dont_interpret, bms, orig, edited, stage>>

DumpEnd == /\ stage = "dump" /\ pos > Len(list)
           /\ stage' = "file"
           /\ UNCHANGED <<list, fmt, dont_interpret, bms, orig, file, edited, pos>>

-----------------------------------------------------------------------------
(* The world while the file is kept (external). *)

\* The user changes one value; names and device names are what a text may be.
Edit == /\ stage = "file" /\ edited = 0
        /\ \E k \in 1..Len(file), v \in Edits :
              /\ file[k].parm.dt = "STR" => v.kind = "text"
              /\ file' = [file EXCEPT ![k].value = v]
              /\ edited' = k
        /\ UNCHANGED <<list, fmt, dont_interpret, bms, orig, pos, stage>>

\* The file is written to this BMS or, the registers all at their extremes, to
\* another one.
WriteFile == /\ stage = "file"
             /\ \/ bms' = bms
                \/ \E b \in {0, 255} :
                      bms' = [r \in DOMAIN bms |-> IF IsText(list, r) THEN <<>>
                                                   ELSE <<b, b>>]
             /\ pos' = 1 /\ stage' = "load"
             /\ UNCHANGED <<list, fmt, dont_interpret, orig, file, edited>>

-----------------------------------------------------------------------------
(* Value to register: the file readers of main(), parse_bits(), write_parm(). *)

\* Room for a value in line[]: the label takes 26 columns, and a NUL ends it.
ValueRoom == LineSize - 27

Comma(str) == IF str.len > 0 THEN 1 ELSE 0

Fits(str, word) == IF fmt = "json" THEN str.len + Len(word) + 2 <= JoinSize
                   ELSE str.len + Comma(str) + Len(word) <= ValueRoom

\* What fgets() still has room for of a word.  (The rest is a line of its own, which
\* has no label of params[].)
Beginning(str, word) == LET room == ValueRoom - str.len - Comma(str)
                        IN  IF fmt = "text" /\ room > 0 THEN <<SubSeq(word, 1, room)>> ELSE <<>>

\* The next word of a value.  After one that does not fit there is no other.
JoinWord(str, word) ==
    IF str.full \/ (fmt = "json" /\ word = NotString) THEN str
    ELSE IF Fits(str, word)
    THEN [len |-> str.len + Comma(str) + Len(word), names |-> Append(str.names, word),
          full |-> FALSE]
    ELSE [len |-> str.len, names |-> str.names \o Beginning(str, word), full |-> TRUE]

Join(words) ==
    LET str[i \in 0..Len(words)] == IF i = 0 THEN [len |-> 0, names |-> <<>>, full |-> FALSE]
                                    ELSE JoinWord(str[i - 1], words[i])
    IN str[Len(words)].names

\* In a text file a value ends at the first blank.
FirstWord(words) == IF words = <<>> THEN <<>> ELSE <<Head(words)>>

\* The string the reader hands to write_parm(): JSON numbers and truth values
\* as numbers, arrays joined in temp[]; a line of a text file as far as line[] has it.
Loaded(v) ==
    CASE v.kind = "names" -> Names(Join(v.names))
      [] fmt = "json" /\ v.kind = "bool" -> Num(v.n)
      [] fmt = "text" /\ v.kind = "bool" ->
             IF dont_interpret THEN Num(v.n)
             ELSE Names(IF v.n = 1 THEN <<"true">> ELSE <<"false">>)
      [] fmt = "text" /\ v.kind = "text" -> Text(Join(FirstWord(v.names)))
      [] fmt = "text" /\ v.kind = "null" -> Names(<<"null">>)
      [] OTHER -> v

\* A word that is no number counts as 0.
atoi(v) == v.n

\* _putshort(): what does not fit wraps.
PutShort(n) == <<(n \div 256) % 256, n % 256>>

\* mask |= bp->mask for each bit that is named.
NamedMask(dt, names) ==
    LET mask[i \in 0..8] == IF i = 0 THEN 0
                            ELSE IF Bits(dt)[i] \in ToSet(names) THEN mask[i - 1] + BitMask[i]
                            ELSE mask[i - 1]
    IN mask[8]

\* Words of separators only are passed over.
Known(dt, names) == ToSet(names) \ {Separators} \subseteq ToSet(Bits(dt))

\* What a uint16_t holds.
MaskRange == 0..65535

\* Mutants of parse_bits: a name that is not found is passed over; a number may
\* only have bits that have names.
parse_bits_Skips(dt, v) ==
    IF v.kind = "num" THEN IF v.n \in MaskRange THEN v.n ELSE -1
    ELSE IF v.names = <<>> THEN -1 ELSE NamedMask(dt, v.names)

parse_bits_LowByte(dt, v) ==
    IF v.kind = "num" THEN IF v.n \in 0..255 THEN v.n ELSE -1
    ELSE IF v.names = <<>> \/ ~Known(dt, v.names) THEN -1 ELSE NamedMask(dt, v.names)

\* The mask, or -1: empty, out of range, or a name that is not in the table.
parse_bits(dt, v) ==
    IF v.kind = "num" THEN IF v.n \in MaskRange THEN v.n ELSE -1
    ELSE IF v.names = <<>> \/ ~Known(dt, v.names) THEN -1 ELSE NamedMask(dt, v.names)

\* What write_parm() may send for a value when the register reads as old.  It
\* has no case for the packed types: data[] then was never set.
SentBytes(dt, v, old) ==
    CASE dt \in Numbers -> {PutShort(atoi(v))}
      [] dt \in Masks   -> {PutShort(parse_bits(dt, v))}
      [] dt = "B0"      -> {<<atoi(v) % 256, old[2]>>}
      [] dt = "B1"      -> {<<old[1], atoi(v) % 256>>}
      [] dt = "STR"     -> {v.names}
      [] dt \in Packed  -> Bytes \X Bytes

Entry   == file[pos]
Pending == stage = "load" /\ pos <= Len(file)

\* A line of -c output, "label,value", has no label of params[]; a JSON null
\* is reported.  Both readers go on.
Skipped == fmt = "csv" \/ (fmt = "json" /\ Entry.value.kind = "null")
Refused == Entry.parm.dt \in Masks /\ parse_bits(Entry.parm.dt, Loaded(Entry.value)) = -1

SkipParm == /\ Pending /\ Skipped
            /\ pos' = pos + 1
            /\ UNCHANGED <<list, fmt, dont_interpret, bms, orig, file, edited, stage>>

\* write_parm() fails: the loop ends.
RefuseParm == /\ Pending /\ ~Skipped /\ Refused
              /\ stage' = "stopped"
              /\ UNCHANGED <<list, fmt, dont_interpret, bms, orig, file, edited, pos>>

write_parm == /\ Pending /\ ~Skipped /\ ~Refused
              /\ LET r == Entry.parm.reg
                 IN  \E data \in SentBytes(Entry.parm.dt, Loaded(Entry.value), bms[r]) :
                        bms' = [bms EXCEPT ![r] = data]
              /\ pos' = pos + 1
              /\ UNCHANGED <<list, fmt, dont_interpret, orig, file, edited, stage>>

WriteEnd == /\ stage = "load" /\ pos > Len(file)
            /\ stage' = "done"
            /\ UNCHANGED <<list, fmt, dont_interpret, bms, orig, file, edited, pos>>

Next == \/ DumpParm \/ DumpEnd
        \/ Edit \/ WriteFile
        \/ SkipParm \/ RefuseParm \/ write_parm \/ WriteEnd

Spec == Init /\ [][Next]_vars

-----------------------------------------------------------------------------
\* Entry k says all there is to know of its part of the register: fields packed
\* with others do not, and a text file keeps one word of a text, if line[] has room.
Complete(k) == LET p == file[k].parm
               IN  /\ \A j \in 1..Len(file) : file[j].parm.reg = p.reg
                                                  => file[j].parm.dt \notin Packed
                   /\ p.dt = "STR" => \/ fmt = "json"
                                      \/ orig[p.reg] = <<>>
                                      \/ /\ Len(orig[p.reg]) = 1
                                         /\ Len(orig[p.reg][1]) <= ValueRoom

\* The part of the register the parameter of entry k names is as it was dumped.
\* A mask has its named bits only, unless dumped as a number.
Restored(k) == LET p == file[k].parm  now == bms[p.reg]  then == orig[p.reg]
               IN  CASE p.dt = "B0" -> now[1] = then[1]
                     [] p.dt = "B1" -> now[2] = then[2]
                     [] p.dt \in Masks /\ ~dont_interpret -> now = <<0, then[2]>>
                     [] OTHER -> now = then

\* docs/main.md, "JSON round trip", as far as it goes: when a file of
\* pdisp()'s output is written back, each parameter the writer has passed is
\* as it was, whatever the registers held meanwhile, also when two
\* parameters share one register.
RoundTrip ==
    stage \in {"load", "done", "stopped"} /\ fmt # "csv" /\ edited = 0 =>
        \A k \in 1..(pos - 1) : Complete(k) => Restored(k)

\* An unedited dump is refused in two cases only: a mask with no named bit
\* set, which prints as an empty list, and a mask that -n prints as a negative
\* number.  (The writer stops there: what follows is not written.)
RefusedDump ==
    stage = "stopped" /\ edited = 0 =>
        LET w == orig[Entry.parm.reg]
        IN  IF dont_interpret THEN w[1] >= 128 ELSE w[2] = 0

WritesMask(k) == write_parm /\ k = pos /\ file[k].parm.dt \in Masks

\* The register of entry k gets mask bits for these words, all of them in the table, and
\* no others.
MaskOf(k, words) ==
    LET p == file[k].parm  now == bms'[p.reg]
    IN  /\ words \ {Separators} \subseteq ToSet(Bits(p.dt))
        /\ now[1] = 0
        /\ \A b \in 1..8 : HasBit(now[2], b) <=> Bits(p.dt)[b] \in words

GivenNumber(k) == file[k].value.kind \in {"num", "bool"}
NumberKept(k)  == Unsigned(bms'[file[k].parm.reg]) = file[k].value.n

\* The words that get as far as parse_bits() are those up to some place in the value.
\* (All of a JSON string and of a value as short as the names of all bits; an array
\* without what is no string; of a long line also the beginning of a word.)
Upto(words, n) == {words[i] : i \in 1..n} \ (IF fmt = "json" THEN {NotString} ELSE {})

Short(words) == Len(words) <= 8 /\ \A i \in 1..Len(words) : Len(words[i]) <= 11

Taken(v) ==
    IF fmt = "json" /\ v.kind = "text" THEN {ToSet(v.names)}
    ELSE LET words == IF v.kind = "text" THEN FirstWord(v.names) ELSE v.names
         IN  IF Short(words) THEN {Upto(words, Len(words))}
             ELSE UNION {{Upto(words, n)} \cup {Upto(words, n - 1) \cup {SubSeq(words[n], 1, j)} :
                                                  j \in 1..Len(words[n])} :
                            n \in 1..Len(words)}

\* Whatever is in the file, what a mask register is sent is the number there or, from a
\* list of names, exactly the bits named as far as the readers took it, at least a word: a
\* word among these that is not in the table refuses the value.
MaskFromNames == [][\A k \in 1..Len(file) : WritesMask(k) =>
                       IF GivenNumber(k) THEN NumberKept(k)
                       ELSE \E words \in Taken(file[k].value) :
                               words # {} /\ MaskOf(k, words)]_vars
=============================================================================
