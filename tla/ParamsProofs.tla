----------------------------- MODULE ParamsProofs -----------------------------
(***************************************************************************)
(* Theorems about Params, for every settings file, every content of the    *)
(* registers, every edit and every buffer that has room for all names.     *)
(*                                                                         *)
(* The loops of pdisp() and parse_bits() over a table of bits are compared *)
(* with the sum of a byte's bits: the names printed are those of the bits  *)
(* set, none is dropped, and read back they are the same byte.  The        *)
(* words the readers take of a list are those up to one that does not fit  *)
(* (SoFar), and all of a list as short as the names of all bits.  The      *)
(* invariant says that an unedited entry shows what was dumped (FileTrue); *)
(* a write then restores its own part of the register, and the part of     *)
(* another parameter stays because only bytes share a register.            *)
(***************************************************************************)
EXTENDS Params, SequenceTheorems, WellFoundedInduction, TLAPS

-----------------------------------------------------------------------------
(* Bits and masks. *)

Choice == [1..8 -> {0, 1}]

SumOf(b) == b[1] + 2 * b[2] + 4 * b[3] + 8 * b[4] + 16 * b[5] + 32 * b[6] + 64 * b[7]
              + 128 * b[8]

BitsOf(c) == [i \in 1..8 |-> IF HasBit(c, i) THEN 1 ELSE 0]

\* The masks, written out.
LEMMA MaskValues == /\ BitMask[1] = 1   /\ BitMask[2] = 2   /\ BitMask[3] = 4
                    /\ BitMask[4] = 8   /\ BitMask[5] = 16  /\ BitMask[6] = 32
                    /\ BitMask[7] = 64  /\ BitMask[8] = 128
  BY DEF BitMask

\* A sum of masks has the bits it is made of, and no others.
LEMMA BitsOfSum ==
    ASSUME NEW b \in Choice
    PROVE  SumOf(b) \in 0..255 /\ BitsOf(SumOf(b)) = b
  <1> DEFINE c == SumOf(b)
  <1>1. /\ b[1] \in {0, 1} /\ b[2] \in {0, 1} /\ b[3] \in {0, 1} /\ b[4] \in {0, 1}
        /\ b[5] \in {0, 1} /\ b[6] \in {0, 1} /\ b[7] \in {0, 1} /\ b[8] \in {0, 1}
    BY DEF Choice
  <1>2. c \in 0..255
    BY <1>1 DEF SumOf
  <1>3. /\ (c \div 1) % 2 = b[1]  /\ (c \div 2) % 2 = b[2]
        /\ (c \div 4) % 2 = b[3]  /\ (c \div 8) % 2 = b[4]
    BY <1>1 DEF SumOf
  <1>4. /\ (c \div 16) % 2 = b[5] /\ (c \div 32) % 2 = b[6]
        /\ (c \div 64) % 2 = b[7] /\ (c \div 128) % 2 = b[8]
    BY <1>1 DEF SumOf
  <1> HIDE DEF c
  <1>5. \A i \in 1..8 : HasBit(c, i) <=> b[i] = 1
    <2>1. \A i \in 1..8 : i = 1 \/ i = 2 \/ i = 3 \/ i = 4 \/ i = 5 \/ i = 6 \/ i = 7 \/ i = 8
      OBVIOUS
    <2>2. \A i \in 1..8 : (c \div BitMask[i]) % 2 = b[i]
      BY <2>1, <1>3, <1>4, MaskValues
    <2> QED BY <2>2 DEF HasBit
  <1>6. BitsOf(c) = b
    BY <1>5 DEF BitsOf, Choice
  <1> QED BY <1>2, <1>6 DEF c

\* A number is twice its half and a bit.
LEMMA Halving == \A n \in Nat : \E q \in Nat, b \in {0, 1} : n = 2 * q + b
  <1> TAKE n \in Nat
  <1> DEFINE q == n \div 2
             b == n % 2
  <1>1. q \in Nat
    OBVIOUS
  <1>2. b \in {0, 1}
    OBVIOUS
  <1>3. n = 2 * q + b
    OBVIOUS
  <1> HIDE DEF q, b
  <1> QED BY <1>1, <1>2, <1>3

\* A byte is the sum of its bits.
LEMMA SumOfBits == \A c \in 0..255 : SumOf(BitsOf(c)) = c
  <1> TAKE c \in 0..255
  <1>1. PICK q1 \in Nat, b1 \in {0, 1} : c = 2 * q1 + b1
    <2>1. c \in Nat
      OBVIOUS
    <2> QED BY <2>1, Halving
  <1>2. PICK q2 \in Nat, b2 \in {0, 1} : q1 = 2 * q2 + b2
    BY Halving
  <1>3. PICK q3 \in Nat, b3 \in {0, 1} : q2 = 2 * q3 + b3
    BY Halving
  <1>4. PICK q4 \in Nat, b4 \in {0, 1} : q3 = 2 * q4 + b4
    BY Halving
  <1>5. PICK q5 \in Nat, b5 \in {0, 1} : q4 = 2 * q5 + b5
    BY Halving
  <1>6. PICK q6 \in Nat, b6 \in {0, 1} : q5 = 2 * q6 + b6
    BY Halving
  <1>7. PICK q7 \in Nat, b7 \in {0, 1} : q6 = 2 * q7 + b7
    BY Halving
  <1>8. c = b1 + 2 * b2 + 4 * b3 + 8 * b4 + 16 * b5 + 32 * b6 + 64 * b7 + 128 * q7
    BY <1>1, <1>2, <1>3, <1>4, <1>5, <1>6, <1>7
  <1>9. q7 \in {0, 1}
    BY <1>8
  <1> DEFINE b == <<b1, b2, b3, b4, b5, b6, b7, q7>>
  <1>10. /\ b \in Choice
         /\ b[1] = b1 /\ b[2] = b2 /\ b[3] = b3 /\ b[4] = b4
         /\ b[5] = b5 /\ b[6] = b6 /\ b[7] = b7 /\ b[8] = q7
    BY <1>9 DEF Choice
  <1> HIDE DEF b
  <1>11. SumOf(b) = c
    BY <1>8, <1>10 DEF SumOf
  <1>12. BitsOf(SumOf(b)) = b
    BY <1>10, BitsOfSum
  <1> QED BY <1>11, <1>12

-----------------------------------------------------------------------------
(* From names to a mask: the loops of parse_bits(). *)

\* Which bits of the table a set of names has.
Chosen(dt, S) == [i \in 1..8 |-> IF Bits(dt)[i] \in S THEN 1 ELSE 0]

\* The mask parse_bits() makes of names is the sum of the masks named.
LEMMA MaskIsSum ==
    ASSUME NEW dt, NEW names
    PROVE  NamedMask(dt, names) = SumOf(Chosen(dt, ToSet(names)))
  <1> DEFINE N    == ToSet(names)
             b    == Chosen(dt, N)
             Step(f) == [i \in 0..8 |-> IF i = 0 THEN 0
                                       ELSE IF Bits(dt)[i] \in N THEN f[i - 1] + BitMask[i]
                                       ELSE f[i - 1]]
             mask == CHOOSE f : f = Step(f)
             m    == <<b[1], b[1] + 2 * b[2], b[1] + 2 * b[2] + 4 * b[3],
                       b[1] + 2 * b[2] + 4 * b[3] + 8 * b[4],
                       b[1] + 2 * b[2] + 4 * b[3] + 8 * b[4] + 16 * b[5],
                       b[1] + 2 * b[2] + 4 * b[3] + 8 * b[4] + 16 * b[5] + 32 * b[6],
                       b[1] + 2 * b[2] + 4 * b[3] + 8 * b[4] + 16 * b[5] + 32 * b[6]
                         + 64 * b[7],
                       SumOf(b)>>
             f    == [i \in 0..8 |-> IF i = 0 THEN 0 ELSE m[i]]
  <1>1. \A i \in 1..8 : (Bits(dt)[i] \in N => b[i] = 1) /\ (Bits(dt)[i] \notin N => b[i] = 0)
    <2> HIDE DEF N
    <2> QED BY DEF Chosen
  <1>2. \A i \in 1..8 : b[i] \in {0, 1}
    <2> HIDE DEF N, b
    <2> QED BY <1>1
  <1> HIDE DEF N, b
  <1>3. \A i \in 1..8 : i = 1 \/ i = 2 \/ i = 3 \/ i = 4 \/ i = 5 \/ i = 6 \/ i = 7 \/ i = 8
    OBVIOUS
  <1>4. /\ m[1] = b[1]             /\ m[2] = m[1] + 2 * b[2]  /\ m[3] = m[2] + 4 * b[3]
        /\ m[4] = m[3] + 8 * b[4]  /\ m[5] = m[4] + 16 * b[5] /\ m[6] = m[5] + 32 * b[6]
        /\ m[7] = m[6] + 64 * b[7] /\ m[8] = m[7] + 128 * b[8] /\ m[8] = SumOf(b)
    BY <1>2 DEF SumOf
  <1>5. \A i \in 1..8 : m[i] \in Int
    BY <1>2, <1>3 DEF SumOf
  <1> HIDE DEF m
  <1>6. f[0] = 0 /\ \A i \in 1..8 : f[i] = m[i]
    OBVIOUS
  <1>7. \A i \in 1..8 : f[i] = f[i - 1] + BitMask[i] * b[i] /\ f[i - 1] \in Int
    <2> HIDE DEF f
    <2>1. /\ f[1] = f[0] + 1 * b[1]  /\ f[2] = f[1] + 2 * b[2]  /\ f[3] = f[2] + 4 * b[3]
          /\ f[4] = f[3] + 8 * b[4]  /\ f[5] = f[4] + 16 * b[5] /\ f[6] = f[5] + 32 * b[6]
          /\ f[7] = f[6] + 64 * b[7] /\ f[8] = f[7] + 128 * b[8]
      BY <1>2, <1>4, <1>6
    <2>2. \A i \in 1..8 : f[i - 1] \in Int
      BY <1>3, <1>5, <1>6
    <2> QED BY <1>3, <2>1, <2>2, MaskValues
  <1>8. \A i \in 1..8 : f[i] = IF Bits(dt)[i] \in N THEN f[i - 1] + BitMask[i] ELSE f[i - 1]
    <2> HIDE DEF f
    <2> TAKE i \in 1..8
    <2>1. BitMask[i] \in Int
      BY <1>3, MaskValues
    <2> QED BY <1>1, <1>7, <2>1
  <1>9. f = Step(f)
    <2>1. \A i \in 0..8 : f[i] = Step(f)[i]
      <3> HIDE DEF f
      <3> QED BY <1>6, <1>8
    <2>2. f = [i \in 0..8 |-> f[i]]
      OBVIOUS
    <2> HIDE DEF f
    <2> QED BY <2>1, <2>2
  <1>10. mask = Step(mask)
    <2> HIDE DEF f, Step
    <2> QED BY <1>9
  <1>11. NamedMask(dt, names) = mask[8]
    BY DEF NamedMask, N
  <1> HIDE DEF f, mask
  <1>12. mask[0] = 0 /\ \A i \in 1..8 : mask[i] = IF Bits(dt)[i] \in N THEN mask[i - 1] + BitMask[i]
                                                 ELSE mask[i - 1]
    BY <1>10
  <1>13. mask[8] = f[8]
    <2>1. mask[0] = f[0]
      BY <1>6, <1>12
    <2>2. \A i \in 1..8 : mask[i - 1] = f[i - 1] => mask[i] = f[i]
      BY <1>8, <1>12
    <2> QED BY <2>1, <2>2
  <1>14. f[8] = SumOf(b)
    BY <1>4, <1>6
  <1> QED BY <1>11, <1>13, <1>14 DEF b, N

-----------------------------------------------------------------------------
(* From a mask to names: the loop of pdisp(). *)

\* s holds what pdisp() has in str[] after each turn of the loop.
NamesLoop(s, bits, byte, size) ==
    /\ s[0] = [len |-> 0, names |-> <<>>]
    /\ \A i \in 1..8 : s[i] = IF HasBit(byte, i) THEN AddStr(s[i - 1], bits[i], size)
                              ELSE s[i - 1]

\* The loop of pdisp() can be run, and what it ends with are the names.
LEMMA NamesLoopRuns ==
    ASSUME NEW bits, NEW byte, NEW size
    PROVE  \E s : NamesLoop(s, bits, byte, size) /\ SetNames(bits, byte, size) = s[8].names
  <1> DEFINE Turn(str, i) == IF HasBit(byte, i) THEN AddStr(str, bits[i], size) ELSE str
             Step(f) == [i \in 0..8 |-> IF i = 0 THEN [len |-> 0, names |-> <<>>]
                                       ELSE IF HasBit(byte, i)
                                       THEN AddStr(f[i - 1], bits[i], size) ELSE f[i - 1]]
             str == CHOOSE f : f = Step(f)
             s0  == [len |-> 0, names |-> <<>>]
             s1  == Turn(s0, 1)   s2 == Turn(s1, 2)   s3 == Turn(s2, 3)   s4 == Turn(s3, 4)
             s5  == Turn(s4, 5)   s6 == Turn(s5, 6)   s7 == Turn(s6, 7)   s8 == Turn(s7, 8)
             g   == [i \in 0..8 |-> CASE i = 0 -> s0 [] i = 1 -> s1 [] i = 2 -> s2
                                      [] i = 3 -> s3 [] i = 4 -> s4 [] i = 5 -> s5
                                      [] i = 6 -> s6 [] i = 7 -> s7 [] i = 8 -> s8]
  <1>1. /\ s1 = Turn(s0, 1) /\ s2 = Turn(s1, 2) /\ s3 = Turn(s2, 3) /\ s4 = Turn(s3, 4)
        /\ s5 = Turn(s4, 5) /\ s6 = Turn(s5, 6) /\ s7 = Turn(s6, 7) /\ s8 = Turn(s7, 8)
    OBVIOUS
  <1> HIDE DEF s0, s1, s2, s3, s4, s5, s6, s7, s8
  <1>2. /\ g[0] = s0 /\ g[1] = s1 /\ g[2] = s2 /\ g[3] = s3 /\ g[4] = s4
        /\ g[5] = s5 /\ g[6] = s6 /\ g[7] = s7 /\ g[8] = s8
    OBVIOUS
  <1>3. g = [i \in 0..8 |-> g[i]]
    OBVIOUS
  <1> HIDE DEF g, Turn
  <1>4. \A i \in 1..8 : g[i] = Turn(g[i - 1], i)
    <2>1. \A i \in 1..8 : i = 1 \/ i = 2 \/ i = 3 \/ i = 4 \/ i = 5 \/ i = 6 \/ i = 7 \/ i = 8
      OBVIOUS
    <2>2. /\ g[1] = Turn(g[1 - 1], 1) /\ g[2] = Turn(g[2 - 1], 2) /\ g[3] = Turn(g[3 - 1], 3)
          /\ g[4] = Turn(g[4 - 1], 4) /\ g[5] = Turn(g[5 - 1], 5) /\ g[6] = Turn(g[6 - 1], 6)
          /\ g[7] = Turn(g[7 - 1], 7) /\ g[8] = Turn(g[8 - 1], 8)
      BY <1>1, <1>2
    <2> QED BY <2>1, <2>2
  <1>5. g = Step(g)
    <2>1. \A i \in 0..8 : g[i] = Step(g)[i]
      BY <1>2, <1>4 DEF Turn, s0
    <2> QED BY <1>3, <2>1
  <1>6. str = Step(str)
    <2> HIDE DEF Step
    <2> QED BY <1>5
  <1>7. SetNames(bits, byte, size) = str[8].names
    BY DEF SetNames
  <1> HIDE DEF str
  <1>8. NamesLoop(str, bits, byte, size)
    <2>1. str[0] = [len |-> 0, names |-> <<>>]
      BY <1>6
    <2>2. ASSUME NEW i \in 1..8
          PROVE  str[i] = IF HasBit(byte, i) THEN AddStr(str[i - 1], bits[i], size)
                          ELSE str[i - 1]
      BY <1>6
    <2> QED BY <2>1, <2>2 DEF NamesLoop
  <1> QED BY <1>7, <1>8

\* Names of up to eleven letters.
ShortNames(bits) == \A i \in 1..8 : Len(bits[i]) \in 1..11

\* The names of the first i bits that are set, in the room they take at most.
NamesSoFar(str, bits, byte, i) ==
    /\ str.len \in 0..(14 * i)
    /\ str.names \in Seq({bits[j] : j \in 1..8}) /\ Len(str.names) <= i
    /\ ToSet(str.names) = {bits[j] : j \in {k \in 1..i : HasBit(byte, k)}}

\* Nothing is dropped when there is room for another name with its quotes.
LEMMA AddStrAdds ==
    ASSUME NEW bits, ShortNames(bits), NEW byte, NEW i \in 1..8, HasBit(byte, i), NEW size \in Nat,
           size > 8 * (11 + 3), NEW str, NamesSoFar(str, bits, byte, i - 1)
    PROVE  NamesSoFar(AddStr(str, bits[i], size), bits, byte, i)
  <1> DEFINE n    == Len(bits[i])
             more == (IF str.len > 0 THEN 1 ELSE 0) + n + (IF fmt = "json" THEN 2 ELSE 0) + 1
             A    == {bits[j] : j \in 1..8}
             S    == {bits[j] : j \in {k \in 1..(i - 1) : HasBit(byte, k)}}
  <1>1. /\ str.len \in 0..(14 * (i - 1)) /\ str.names \in Seq(A) /\ ToSet(str.names) = S
        /\ Len(str.names) <= i - 1
    BY DEF NamesSoFar
  <1>2. bits[i] \in A /\ n \in 1..11
    BY DEF ShortNames
  <1>3. AddStr(str, bits[i], size) =
           IF str.len + more > size THEN str
           ELSE [len |-> str.len + more - 1, names |-> Append(str.names, bits[i])]
    BY DEF AddStr
  <1>4. more \in 1..15
    <2> HIDE DEF n
    <2>1. (IF str.len > 0 THEN 1 ELSE 0) \in {0, 1} /\ (IF fmt = "json" THEN 2 ELSE 0) \in {0, 2}
      OBVIOUS
    <2> QED BY <1>2, <2>1
  <1> HIDE DEF more, S, A
  <1>5. str.len + more - 1 \in 0..(14 * i) /\ ~(str.len + more > size)
    BY <1>1, <1>4
  <1>6. Append(str.names, bits[i]) \in Seq(A) /\ Len(Append(str.names, bits[i])) <= i
    BY <1>1, <1>2
  <1>7. ToSet(Append(str.names, bits[i])) = S \cup {bits[i]}
    <2> DEFINE t == Append(str.names, bits[i])
    <2>1. /\ DOMAIN t = 1..(Len(str.names) + 1) /\ t[Len(str.names) + 1] = bits[i]
          /\ \A k \in 1..Len(str.names) : t[k] = str.names[k]
          /\ DOMAIN str.names = 1..Len(str.names) /\ Len(str.names) \in Nat
      BY <1>1, <1>2
    <2> HIDE DEF t
    <2>2. ToSet(t) = {t[k] : k \in 1..(Len(str.names) + 1)} /\ S = {str.names[k] : k \in 1..Len(str.names)}
      BY <1>1, <2>1 DEF ToSet
    <2>3. ToSet(t) = S \cup {bits[i]}
      BY <2>1, <2>2
    <2> QED BY <2>3 DEF t
  <1>8. {bits[j] : j \in {k \in 1..i : HasBit(byte, k)}} = S \cup {bits[i]}
    BY DEF S
  <1>9. /\ AddStr(str, bits[i], size).len = str.len + more - 1
        /\ AddStr(str, bits[i], size).names = Append(str.names, bits[i])
    BY <1>3, <1>5
  <1> QED BY <1>5, <1>6, <1>7, <1>8, <1>9 DEF NamesSoFar, A

\* What pdisp() prints of a mask are the names of the bits that are set.
LEMMA SetNamesAreBits ==
    ASSUME NEW bits, ShortNames(bits), NEW byte, NEW size \in Nat, size > 8 * (11 + 3)
    PROVE  /\ ToSet(SetNames(bits, byte, size)) = {bits[j] : j \in {k \in 1..8 : HasBit(byte, k)}}
           /\ SetNames(bits, byte, size) \in Seq({bits[j] : j \in 1..8})
           /\ Len(SetNames(bits, byte, size)) <= 8
  <1>1. PICK s : NamesLoop(s, bits, byte, size) /\ SetNames(bits, byte, size) = s[8].names
    BY NamesLoopRuns
  <1>2. NamesSoFar(s[0], bits, byte, 0)
    <2>1. s[0].len = 0 /\ s[0].names = <<>>
      BY <1>1 DEF NamesLoop
    <2> QED BY <2>1 DEF NamesSoFar, ToSet
  <1>3. ASSUME NEW i \in 1..8, NamesSoFar(s[i - 1], bits, byte, i - 1)
        PROVE  NamesSoFar(s[i], bits, byte, i)
    <2>1. CASE HasBit(byte, i)
      <3>1. s[i] = AddStr(s[i - 1], bits[i], size)
        BY <1>1, <2>1 DEF NamesLoop
      <3> QED BY <1>3, <2>1, <3>1, AddStrAdds
    <2>2. CASE ~HasBit(byte, i)
      <3>1. s[i] = s[i - 1]
        BY <1>1, <2>2 DEF NamesLoop
      <3>2. {k \in 1..i : HasBit(byte, k)} = {k \in 1..(i - 1) : HasBit(byte, k)}
        BY <2>2
      <3> QED BY <1>3, <3>1, <3>2 DEF NamesSoFar
    <2> QED BY <2>1, <2>2
  <1>4. NamesSoFar(s[8], bits, byte, 8)
    <2> DEFINE P(i) == NamesSoFar(s[i], bits, byte, i)
    <2>1. \A i \in 1..8 : P(i - 1) => P(i)
      BY <1>3
    <2>2. P(0)
      BY <1>2
    <2> HIDE DEF P
    <2> QED BY <2>1, <2>2 DEF P
  <1> QED BY <1>1, <1>4 DEF NamesSoFar

-----------------------------------------------------------------------------
(* Masks there and back. *)

NoNames == {Separators, NotString, "true", "false", "null"}

\* The names of a table are short, and no two are the same.
LEMMA Tables ==
    \A dt : /\ ShortNames(Bits(dt)) /\ DOMAIN Bits(dt) = 1..8
            /\ \A i, j \in 1..8 : Bits(dt)[i] = Bits(dt)[j] => i = j
            /\ \A i \in 1..8 : Bits(dt)[i] \notin NoNames
  <1> DEFINE OneOf(i) == i = 1 \/ i = 2 \/ i = 3 \/ i = 4 \/ i = 5 \/ i = 6 \/ i = 7 \/ i = 8
             Good(bits) == /\ ShortNames(bits) /\ DOMAIN bits = 1..8
                           /\ \A i, j \in 1..8 : bits[i] = bits[j] => i = j
                           /\ \A i \in 1..8 : bits[i] \notin NoNames
  <1>1. \A i \in 1..8 : OneOf(i)
    OBVIOUS
  <1>2. Good(func_bits)
    <2>1. /\ func_bits[1] = "Switch"     /\ func_bits[2] = "SCRL"
          /\ func_bits[3] = "BALANCE_EN" /\ func_bits[4] = "CHG_BALANCE"
          /\ func_bits[5] = "LED_EN"     /\ func_bits[6] = "LED_NUM"
          /\ func_bits[7] = "RTC"        /\ func_bits[8] = "EDV"
          /\ DOMAIN func_bits = 1..8
      BY DEF func_bits
    <2>2. ShortNames(func_bits)
      BY NamesAssumption DEF ShortNames
    <2>3. \A i, j \in 1..8 : func_bits[i] = func_bits[j] => i = j
      BY <1>1, <2>1
    <2>4. \A i \in 1..8 : func_bits[i] \notin NoNames
      BY <1>1, <2>1 DEF NoNames, Separators, NotString
    <2> QED BY <2>1, <2>2, <2>3, <2>4
  <1>3. Good(ntc_bits)
    <2>1. /\ ntc_bits[1] = "NTC1" /\ ntc_bits[2] = "NTC2" /\ ntc_bits[3] = "NTC3"
          /\ ntc_bits[4] = "NTC4" /\ ntc_bits[5] = "NTC5" /\ ntc_bits[6] = "NTC6"
          /\ ntc_bits[7] = "NTC7" /\ ntc_bits[8] = "NTC8"
          /\ DOMAIN ntc_bits = 1..8
      BY DEF ntc_bits
    <2>2. ShortNames(ntc_bits)
      BY NamesAssumption DEF ShortNames
    <2>3. \A i, j \in 1..8 : ntc_bits[i] = ntc_bits[j] => i = j
      BY <1>1, <2>1
    <2>4. \A i \in 1..8 : ntc_bits[i] \notin NoNames
      BY <1>1, <2>1 DEF NoNames, Separators, NotString
    <2> QED BY <2>1, <2>2, <2>3, <2>4
  <1> HIDE DEF Good
  <1>4. \A dt : Good(Bits(dt))
    BY <1>2, <1>3 DEF Bits
  <1> QED BY <1>4 DEF Good

\* Up to eleven letters, in other words.
LEMMA Eleven == \A n : n \in 1..11 <=> n \in Nat \ {0} /\ n <= 11
  OBVIOUS

\* Some of the names of a table are words, and few.
LEMMA TableWords ==
    ASSUME NEW dt, NEW s \in Seq({Bits(dt)[j] : j \in 1..8}), Len(s) <= 8
    PROVE  IsWords(s) /\ Short(s) /\ NotString \notin ToSet(s)
  <1>1. /\ Len(s) \in Nat /\ DOMAIN s = 1..Len(s)
        /\ \A i \in 1..Len(s) : \E j \in 1..8 : s[i] = Bits(dt)[j]
    OBVIOUS
  <1>2. \A i \in 1..Len(s) : s[i] \notin NoNames /\ Len(s[i]) \in 1..11
    BY <1>1, Tables DEF ShortNames
  <1>3. s \in Seq(ToSet(s))
    <2>1. s \in [1..Len(s) -> ToSet(s)]
      <3>1. s = [i \in 1..Len(s) |-> s[i]]
        OBVIOUS
      <3> QED BY <1>1, <3>1 DEF ToSet
    <2> QED BY <1>1, <2>1
  <1>4. \A i \in 1..Len(s) : Len(s[i]) \in Nat \ {0} /\ Len(s[i]) <= 11
    BY <1>2, Eleven
  <1>5. IsWords(s)
    BY <1>3, <1>4 DEF IsWords
  <1>6. Short(s)
    BY <1>4 DEF Short
  <1>7. NotString \notin ToSet(s)
    BY <1>1, <1>2 DEF ToSet, NoNames
  <1> QED BY <1>5, <1>6, <1>7

\* The names of the set bits of a byte.
BitNames(dt, byte) == {Bits(dt)[j] : j \in {k \in 1..8 : HasBit(byte, k)}}

\* Reading the names of a byte's bits gives the byte.
LEMMA NamesGiveMask ==
    ASSUME NEW dt, NEW byte \in 0..255, NEW names, ToSet(names) = BitNames(dt, byte)
    PROVE  NamedMask(dt, names) = byte /\ Known(dt, names)
  <1>1. Chosen(dt, ToSet(names)) = BitsOf(byte)
    <2>1. \A i \in 1..8 : Bits(dt)[i] \in BitNames(dt, byte) <=> HasBit(byte, i)
      BY Tables DEF BitNames
    <2> QED BY <2>1 DEF Chosen, BitsOf
  <1>2. NamedMask(dt, names) = byte
    BY <1>1, MaskIsSum, SumOfBits
  <1>3. Known(dt, names)
    <2>1. ToSet(Bits(dt)) = {Bits(dt)[i] : i \in 1..8}
      BY Tables DEF ToSet
    <2> QED BY <2>1 DEF Known, BitNames
  <1> QED BY <1>2, <1>3

\* A mask made of names has the bits named, and no others.
LEMMA MaskHasNames ==
    ASSUME NEW dt, NEW names
    PROVE  /\ NamedMask(dt, names) \in 0..255
           /\ \A i \in 1..8 : HasBit(NamedMask(dt, names), i) <=> Bits(dt)[i] \in ToSet(names)
  <1> DEFINE b == Chosen(dt, ToSet(names))
             c == NamedMask(dt, names)
  <1>1. b \in Choice
    BY DEF Chosen, Choice
  <1>2. c \in 0..255 /\ BitsOf(c) = b
    BY <1>1, MaskIsSum, BitsOfSum
  <1>3. ASSUME NEW i \in 1..8 PROVE HasBit(c, i) <=> Bits(dt)[i] \in ToSet(names)
    <2>1. BitsOf(c)[i] = 1 <=> HasBit(c, i)
      BY DEF BitsOf
    <2>2. b[i] = 1 <=> Bits(dt)[i] \in ToSet(names)
      BY DEF Chosen
    <2> QED BY <1>2, <2>1, <2>2
  <1> QED BY <1>2, <1>3

-----------------------------------------------------------------------------
(* Words. *)

Octet == 0..255
Word(w) == w \in Octet \X Octet

\* The two bytes of a number.
LEMMA BytesOfNumber ==
    ASSUME NEW hi \in Octet, NEW lo \in Octet
    PROVE  /\ (256 * hi + lo) \div 256 = hi /\ (256 * hi + lo) % 256 = lo
           /\ (256 * hi + lo - 65536) \div 256 = hi - 256
           /\ (256 * hi + lo - 65536) % 256 = lo
           /\ hi % 256 = hi /\ (hi - 256) % 256 = hi
  <1>1. hi \in Int /\ 0 <= hi /\ hi < 256 /\ lo \in Int /\ 0 <= lo /\ lo < 256
    BY DEF Octet
  <1>2. hi % 256 = hi /\ (hi - 256) % 256 = hi
    BY <1>1
  <1>3. (256 * hi + lo) \div 256 = hi /\ (256 * hi + lo) % 256 = lo
    BY <1>1
  <1>4. (256 * hi + lo - 65536) \div 256 = hi - 256 /\ (256 * hi + lo - 65536) % 256 = lo
    BY <1>1
  <1> QED BY <1>2, <1>3, <1>4

\* _putshort() undoes _getushort() and _getshort().
LEMMA PutShortRestores ==
    ASSUME NEW w, Word(w)
    PROVE  PutShort(Unsigned(w)) = w /\ PutShort(Signed(w)) = w
  <1>1. PICK hi \in Octet, lo \in Octet : w = <<hi, lo>> /\ w[1] = hi /\ w[2] = lo
    BY DEF Word
  <1>2. PutShort(Unsigned(w)) = <<hi, lo>>
    BY <1>1, BytesOfNumber DEF PutShort, Unsigned
  <1>3. PutShort(256 * hi + lo - 65536) = <<hi, lo>>
    BY BytesOfNumber DEF PutShort
  <1>4. Signed(w) = Unsigned(w) \/ Signed(w) = 256 * hi + lo - 65536
    <2>1. Unsigned(w) = 256 * hi + lo
      BY <1>1 DEF Unsigned
    <2>2. Signed(w) = Unsigned(w) \/ Signed(w) = Unsigned(w) - 65536
      BY DEF Signed
    <2>3. hi \in Int /\ lo \in Int
      BY DEF Octet
    <2> QED BY <2>1, <2>2, <2>3
  <1> QED BY <1>1, <1>2, <1>3, <1>4

\* A number that fits is read back as it was put.
LEMMA PutShortReads ==
    ASSUME NEW n \in Nat, n < 65536
    PROVE  Unsigned(PutShort(n)) = n
  <1> DEFINE q == n \div 256
             r == n % 256
  <1>1. q \in Nat /\ q < 256
    OBVIOUS
  <1>2. r \in Nat
    OBVIOUS
  <1>3. n = 256 * q + r
    OBVIOUS
  <1>4. q % 256 = q
    BY <1>1
  <1>5. PutShort(n) = <<q, r>>
    BY <1>4 DEF PutShort
  <1> HIDE DEF q, r
  <1>6. Unsigned(<<q, r>>) = 256 * q + r
    BY DEF Unsigned
  <1> QED BY <1>3, <1>5, <1>6

\* A mask of one byte has a high byte of zero.
LEMMA PutShortLow ==
    ASSUME NEW c \in 0..255
    PROVE  PutShort(c) = <<0, c>>
  <1>1. (c \div 256) % 256 = 0 /\ c % 256 = c
    OBVIOUS
  <1> QED BY <1>1 DEF PutShort

-----------------------------------------------------------------------------
(* Values: what pdisp() prints, and what becomes of it when it is written. *)

\* What a register holds that a parameter of this type is part of.
Content(dt, w) == IF dt = "STR" THEN IsWords(w) ELSE Word(w)

Types == Numbers \cup Masks \cup Packed \cup {"B0", "B1", "STR"}

\* The names of all bits set.
NamesShown(dt, w, v) ==
    /\ v.kind = "names" /\ ToSet(v.names) = BitNames(dt, w[2])
    /\ IsWords(v.names) /\ Short(v.names) /\ NotString \notin ToSet(v.names)

\* v is what a parameter of this type is printed as: numbers and texts as they are,
\* masks as a number or with the names of all bits set, a packed field somehow.
Shows(dt, w, v) ==
    /\ dt = "UINT" => v = Num(Unsigned(w))
    /\ dt = "INT"  => v = Num(Signed(w))
    /\ dt = "B0"   => v = Num(w[1])
    /\ dt = "B1"   => v = Num(w[2])
    /\ dt = "STR"  => v = Text(w)
    /\ dt \in Masks /\ dont_interpret  => v = Num(Signed(w))
    /\ dt \in Masks /\ ~dont_interpret => NamesShown(dt, w, v)
    /\ dt \in Packed => v.kind \in {"num", "bool"}

\* pdisp() does that: no name of a mask is missing, whatever the format.
LEMMA PdispShows == \A dt \in Types : \A w : Shows(dt, w, pdisp(dt, w))
  <1> TAKE dt \in Types
  <1> TAKE w
  <1>1. CASE dt = "UINT"
    <2>1. pdisp("UINT", w) = Num(Unsigned(w))
      BY DEF pdisp, Masks, Packed
    <2> QED BY <1>1, <2>1 DEF Shows, Masks, Packed
  <1>2. CASE dt = "INT"
    <2>1. pdisp("INT", w) = Num(Signed(w))
      BY DEF pdisp, Masks, Packed
    <2> QED BY <1>2, <2>1 DEF Shows, Masks, Packed
  <1>3. CASE dt = "B0"
    <2>1. pdisp("B0", w) = Num(w[1])
      BY DEF pdisp, Masks, Packed
    <2> QED BY <1>3, <2>1 DEF Shows, Masks, Packed
  <1>4. CASE dt = "B1"
    <2>1. pdisp("B1", w) = Num(w[2])
      BY DEF pdisp, Masks, Packed
    <2> QED BY <1>4, <2>1 DEF Shows, Masks, Packed
  <1>5. CASE dt = "STR"
    <2>1. pdisp("STR", w) = Text(w)
      BY DEF pdisp, Masks, Packed
    <2> QED BY <1>5, <2>1 DEF Shows, Masks, Packed
  <1>6. CASE dt \in Masks
    <2>1. pdisp(dt, w) = IF dont_interpret THEN Num(Signed(w)) ELSE MaskNames(dt, w)
      <3>1. pdisp("FUNC", w) = IF dont_interpret THEN Num(Signed(w)) ELSE MaskNames("FUNC", w)
        BY DEF pdisp, Masks, Packed
      <3>2. pdisp("NTC", w) = IF dont_interpret THEN Num(Signed(w)) ELSE MaskNames("NTC", w)
        BY DEF pdisp, Masks, Packed
      <3> QED BY <1>6, <3>1, <3>2 DEF Masks
    <2>2. MaskNames(dt, w).kind = "names"
          /\ MaskNames(dt, w).names = SetNames(Bits(dt), w[2], ListSize)
      BY DEF MaskNames, Names
    <2>3. NamesShown(dt, w, MaskNames(dt, w))
      <3> DEFINE s == SetNames(Bits(dt), w[2], ListSize)
      <3>1. /\ ToSet(s) = BitNames(dt, w[2]) /\ s \in Seq({Bits(dt)[j] : j \in 1..8})
            /\ Len(s) <= 8
        BY Tables, SetNamesAreBits, SizeAssumption DEF BitNames
      <3> HIDE DEF s
      <3>2. IsWords(s) /\ Short(s) /\ NotString \notin ToSet(s)
        BY <3>1, TableWords
      <3> QED BY <2>2, <3>1, <3>2 DEF NamesShown, s
    <2>4. dt \notin Packed /\ dt \notin {"UINT", "INT", "B0", "B1", "STR"}
      BY <1>6 DEF Masks, Packed
    <2> QED BY <1>6, <2>1, <2>2, <2>3, <2>4 DEF Shows
  <1>7. CASE dt \in Packed
    <2>1. pdisp(dt, w) = PackedField(dt, w)
      <3> DEFINE Fine(d) == pdisp(d, w) = PackedField(d, w)
      <3>1. Fine("DOUBLE") /\ Fine("SCVAL") /\ Fine("SCDELAY") /\ Fine("DSGOC2")
        BY DEF pdisp, Masks, Packed
      <3>2. Fine("DSGOC2DELAY") /\ Fine("HCOVPDELAY") /\ Fine("HCUVPDELAY")
        BY DEF pdisp, Masks, Packed
      <3> QED BY <1>7, <3>1, <3>2 DEF Packed
    <2>2. PackedField(dt, w).kind \in {"num", "bool"}
      BY <1>7 DEF PackedField, Packed, Num, Bool
    <2>3. dt \notin Masks /\ dt \notin {"UINT", "INT", "B0", "B1", "STR"}
      BY <1>7 DEF Masks, Packed
    <2> QED BY <2>1, <2>2, <2>3 DEF Shows
  <1> QED BY <1>1, <1>2, <1>3, <1>4, <1>5, <1>6, <1>7 DEF Types, Numbers

-----------------------------------------------------------------------------
(* What the readers take of a list of words: the loop of main() over a JSON *)
(* array, and a line of a text file.                                        *)

\* Each set of numbers that is not empty has a least element.
Below == {ss \in Nat \X Nat : ss[1] < ss[2]}

LEMMA NatLess == IsWellFoundedOn(Below, Nat)
  BY NatLessThanWellFounded DEF Below, OpToRel

\* A set that has 0, and with a number the next, has all.
LEMMA SetInduction ==
    ASSUME NEW S, 0 \in S, \A n \in Nat : n \in S => n + 1 \in S
    PROVE  Nat \subseteq S
  <1> SUFFICES ASSUME NEW x \in Nat, x \notin S PROVE FALSE
    OBVIOUS
  <1> DEFINE T == Nat \ S
  <1>1. PICK m \in T : \A y \in T : ~(<<y, m>> \in Below)
    <2>1. T \subseteq Nat /\ T # {}
      OBVIOUS
    <2> HIDE DEF T
    <2> QED BY NatLess, WFMin, <2>1
  <1>2. m \in Nat /\ m # 0
    BY <1>1
  <1>3. m - 1 \in Nat /\ (m - 1) + 1 = m
    BY <1>2
  <1>4. m - 1 \in S
    <2>1. <<m - 1, m>> \in Below
      <3>1. m - 1 < m
        BY <1>2
      <3>2. /\ <<m - 1, m>> \in Nat \X Nat
            /\ <<m - 1, m>>[1] = m - 1 /\ <<m - 1, m>>[2] = m
        BY <1>2, <1>3
      <3> QED BY <3>1, <3>2 DEF Below
    <2> QED BY <1>1, <1>3, <2>1
  <1> QED BY <1>1, <1>3, <1>4

EmptyJoin == [len |-> 0, names |-> <<>>, full |-> FALSE]

\* s holds what the reader has after each of the first m words.
JoinLoop(s, words, m) ==
    /\ s = [i \in 0..m |-> s[i]]
    /\ s[0] = EmptyJoin
    /\ \A i \in 1..m : s[i] = JoinWord(s[i - 1], words[i])

\* The loop can be run over any number of words: a round more extends it.
LEMMA JoinLoopExists ==
    ASSUME NEW words, NEW m \in Nat
    PROVE  \E s : JoinLoop(s, words, m)
  <1> DEFINE Done == {k \in Nat : \E s : JoinLoop(s, words, k)}
  <1>1. 0 \in Done
    <2> DEFINE z == [i \in 0..0 |-> EmptyJoin]
    <2>1. z[0] = EmptyJoin /\ z = [i \in 0..0 |-> z[i]]
      OBVIOUS
    <2> HIDE DEF z
    <2>2. JoinLoop(z, words, 0)
      BY <2>1 DEF JoinLoop
    <2> QED BY <2>2
  <1>2. ASSUME NEW k \in Nat, k \in Done PROVE k + 1 \in Done
    <2>1. PICK s : JoinLoop(s, words, k)
      BY <1>2
    <2> DEFINE v == JoinWord(s[k], words[k + 1])
               g == [i \in 0..(k + 1) |-> IF i = k + 1 THEN v ELSE s[i]]
    <2> HIDE DEF v
    <2>2. /\ g = [i \in 0..(k + 1) |-> g[i]] /\ g[k + 1] = v
          /\ \A i \in 0..k : g[i] = s[i]
      OBVIOUS
    <2> HIDE DEF g
    <2>3. ASSUME NEW i \in 1..(k + 1) PROVE g[i] = JoinWord(g[i - 1], words[i])
      <3>1. CASE i = k + 1
        <4>1. i - 1 = k /\ k \in 0..k
          BY <3>1
        <4> QED BY <2>2, <3>1, <4>1 DEF v
      <3>2. CASE i # k + 1
        <4>1. i \in 1..k /\ i \in 0..k /\ i - 1 \in 0..k
          BY <3>2
        <4> QED BY <2>1, <2>2, <4>1 DEF JoinLoop
      <3> QED BY <3>1, <3>2
    <2>4. g[0] = EmptyJoin
      BY <2>1, <2>2 DEF JoinLoop
    <2>5. JoinLoop(g, words, k + 1)
      BY <2>2, <2>3, <2>4 DEF JoinLoop
    <2> QED BY <2>5
  <1> HIDE DEF Done
  <1>3. m \in Done
    BY <1>1, <1>2, SetInduction
  <1> QED BY <1>3 DEF Done

\* What the loop ends with are the words that are taken.
LEMMA JoinRuns ==
    ASSUME NEW words, Len(words) \in Nat
    PROVE  \E s : JoinLoop(s, words, Len(words)) /\ Join(words) = s[Len(words)].names
  <1> DEFINE m       == Len(words)
             Step(f) == [i \in 0..m |-> IF i = 0 THEN EmptyJoin
                                        ELSE JoinWord(f[i - 1], words[i])]
             str     == CHOOSE f : f = Step(f)
  <1>1. PICK g : JoinLoop(g, words, m)
    BY JoinLoopExists
  <1>2. g = Step(g)
    <2>1. g = [i \in 0..m |-> g[i]]
      BY <1>1 DEF JoinLoop
    <2>2. \A i \in 0..m : g[i] = IF i = 0 THEN EmptyJoin ELSE JoinWord(g[i - 1], words[i])
      <3> TAKE i \in 0..m
      <3>1. CASE i = 0
        BY <1>1, <3>1 DEF JoinLoop
      <3>2. CASE i # 0
        <4>1. i \in 1..m
          BY <3>2
        <4> QED BY <1>1, <3>2, <4>1 DEF JoinLoop
      <3> QED BY <3>1, <3>2
    <2> HIDE DEF m
    <2> QED BY <2>1, <2>2
  <1>3. str = Step(str)
    <2> HIDE DEF Step
    <2> QED BY <1>2
  <1>4. Join(words) = str[m].names
    BY DEF Join, EmptyJoin
  <1> HIDE DEF str
  <1>5. JoinLoop(str, words, m)
    <2>1. str[0] = EmptyJoin
      <3>1. 0 \in 0..m
        OBVIOUS
      <3> HIDE DEF m
      <3> QED BY <1>3, <3>1
    <2>2. ASSUME NEW i \in 1..m PROVE str[i] = JoinWord(str[i - 1], words[i])
      <3>1. i \in 0..m /\ i # 0
        OBVIOUS
      <3> HIDE DEF m
      <3> QED BY <1>3, <3>1
    <2>3. str = [i \in 0..m |-> str[i]]
      BY <1>3
    <2> QED BY <2>1, <2>2, <2>3 DEF JoinLoop
  <1> QED BY <1>4, <1>5

\* What a piece of a value may be: a word of it or the beginning of one.
Pieces(words) == {words[i] : i \in 1..Len(words)}
                     \cup {SubSeq(words[i], 1, j) : i \in 1..Len(words), j \in Nat}

\* The words before the n-th, with or without a beginning of that.
CutAt(words, n, S) == \/ S = Upto(words, n - 1)
                      \/ \E j \in 1..Len(words[n]) :
                            S = Upto(words, n - 1) \cup {SubSeq(words[n], 1, j)}

\* What the reader has of the first i words: all, or those before one that did not fit.
SoFar(str, words, i) ==
    /\ str.len \in Nat
    /\ str.full \in BOOLEAN
    /\ str.names \in Seq(Pieces(words))
    /\ ~str.full => ToSet(str.names) = Upto(words, i)
    /\ str.full => \E n \in 1..i : CutAt(words, n, ToSet(str.names))

\* Of a short value the reader takes each word.
RoomLeft(str, i) == str.len \in 0..(12 * i) /\ ~str.full

\* Adding a word.
LEMMA ToSetAppend ==
    ASSUME NEW A, NEW s \in Seq(A), NEW x \in A
    PROVE  ToSet(Append(s, x)) = ToSet(s) \cup {x}
  <1> DEFINE t == Append(s, x)
  <1>1. /\ DOMAIN t = 1..(Len(s) + 1) /\ t[Len(s) + 1] = x
        /\ \A k \in 1..Len(s) : t[k] = s[k]
        /\ DOMAIN s = 1..Len(s) /\ Len(s) \in Nat
    OBVIOUS
  <1> HIDE DEF t
  <1>2. ToSet(t) = {t[k] : k \in 1..(Len(s) + 1)} /\ ToSet(s) = {s[k] : k \in 1..Len(s)}
    BY <1>1 DEF ToSet
  <1>3. ToSet(t) = ToSet(s) \cup {x}
    BY <1>1, <1>2
  <1> QED BY <1>3 DEF t

\* One word more.
LEMMA UptoNext ==
    ASSUME NEW words, NEW i \in Nat \ {0}
    PROVE  Upto(words, i) = IF fmt = "json" /\ words[i] = NotString THEN Upto(words, i - 1)
                            ELSE Upto(words, i - 1) \cup {words[i]}
  <1> DEFINE A == {words[k] : k \in 1..i}
             B == {words[k] : k \in 1..(i - 1)}
  <1>1. 1..i = 1..(i - 1) \cup {i}
    OBVIOUS
  <1>2. A = B \cup {words[i]}
    BY <1>1
  <1>3. /\ Upto(words, i) = A \ (IF fmt = "json" THEN {NotString} ELSE {})
        /\ Upto(words, i - 1) = B \ (IF fmt = "json" THEN {NotString} ELSE {})
    BY DEF Upto
  <1> HIDE DEF A, B
  <1> QED BY <1>2, <1>3

\* What is kept of a word that does not fit: nothing, or a beginning.
LEMMA BeginningIs ==
    ASSUME NEW str, str.len \in Nat, NEW word, Len(word) \in Nat, ~Fits(str, word)
    PROVE  \/ Beginning(str, word) = <<>>
           \/ \E j \in 1..Len(word) : Beginning(str, word) = <<SubSeq(word, 1, j)>>
  <1> DEFINE room == ValueRoom - str.len - Comma(str)
  <1>1. ValueRoom \in Int /\ Comma(str) \in {0, 1}
    BY LineAssumption DEF ValueRoom, Comma
  <1>2. CASE fmt = "text" /\ room > 0
    <2>1. Beginning(str, word) = <<SubSeq(word, 1, room)>>
      BY <1>2 DEF Beginning
    <2>2. ~(str.len + Comma(str) + Len(word) <= ValueRoom)
      BY <1>2 DEF Fits
    <2>3. room \in 1..Len(word)
      BY <1>1, <1>2, <2>2
    <2> QED BY <2>1, <2>3
  <1>3. CASE ~(fmt = "text" /\ room > 0)
    BY <1>3 DEF Beginning
  <1> QED BY <1>2, <1>3

\* Each turn of the loop keeps SoFar.
LEMMA JoinTurn ==
    ASSUME NEW words, IsWords(words), NEW i \in 1..Len(words), NEW str,
           SoFar(str, words, i - 1)
    PROVE  SoFar(JoinWord(str, words[i]), words, i)
  <1> DEFINE w    == words[i]
             next == JoinWord(str, w)
             P    == Pieces(words)
  <1>1. Len(words) \in Nat /\ i \in Nat \ {0} /\ Len(w) \in Nat /\ w \in P
    BY DEF IsWords, Pieces
  <1>2. /\ str.len \in Nat /\ str.full \in BOOLEAN /\ str.names \in Seq(P)
        /\ ~str.full => ToSet(str.names) = Upto(words, i - 1)
        /\ str.full => \E n \in 1..(i - 1) : CutAt(words, n, ToSet(str.names))
    BY DEF SoFar
  <1>3. \A j \in Nat : SubSeq(w, 1, j) \in P
    BY DEF Pieces
  <1>4. CASE str.full
    <2>1. next = str
      BY <1>4 DEF JoinWord
    <2>2. \E n \in 1..i : CutAt(words, n, ToSet(str.names))
      BY <1>1, <1>2, <1>4
    <2> HIDE DEF next, P
    <2> QED BY <1>2, <1>4, <2>1, <2>2 DEF SoFar, next, P
  <1>5. CASE ~str.full /\ fmt = "json" /\ w = NotString
    <2>1. next = str
      BY <1>5 DEF JoinWord
    <2>2. Upto(words, i) = Upto(words, i - 1)
      BY <1>1, <1>5, UptoNext
    <2> HIDE DEF next, P
    <2> QED BY <1>2, <1>5, <2>1, <2>2 DEF SoFar, next, P
  <1>6. CASE ~str.full /\ ~(fmt = "json" /\ w = NotString) /\ Fits(str, w)
    <2>1. /\ next.len = str.len + Comma(str) + Len(w) /\ next.full = FALSE
          /\ next.names = Append(str.names, w)
      BY <1>6 DEF JoinWord
    <2>2. next.len \in Nat
      <3>1. Comma(str) \in {0, 1}
        BY DEF Comma
      <3> HIDE DEF next, w
      <3> QED BY <1>1, <1>2, <2>1, <3>1
    <2>3. next.names \in Seq(P)
      BY <1>1, <1>2, <2>1
    <2>4. ToSet(next.names) = Upto(words, i - 1) \cup {w}
      <3> HIDE DEF next, w, P
      <3> QED BY <1>1, <1>2, <1>6, <2>1, ToSetAppend
    <2>5. ToSet(next.names) = Upto(words, i)
      BY <1>1, <1>6, <2>4, UptoNext
    <2>6. next.full \in BOOLEAN
      BY <2>1
    <2> HIDE DEF next, w, P
    <2> QED BY <2>1, <2>2, <2>3, <2>5, <2>6 DEF SoFar, next, w, P
  <1>7. CASE ~str.full /\ ~(fmt = "json" /\ w = NotString) /\ ~Fits(str, w)
    <2>1. /\ next.len = str.len /\ next.full = TRUE
          /\ next.names = str.names \o Beginning(str, w)
      BY <1>7 DEF JoinWord
    <2>2. next.names \in Seq(P) /\ CutAt(words, i, ToSet(next.names))
      <3>1. CASE Beginning(str, w) = <<>>
        <4>1. next.names = str.names
          BY <1>2, <2>1, <3>1
        <4> QED BY <1>2, <1>7, <4>1 DEF CutAt
      <3>2. ASSUME NEW j \in 1..Len(w), Beginning(str, w) = <<SubSeq(w, 1, j)>>
            PROVE  next.names \in Seq(P) /\ CutAt(words, i, ToSet(next.names))
        <4> DEFINE x == SubSeq(w, 1, j)
        <4>1. x \in P
          BY <1>1, <1>3, <3>2
        <4>2. next.names = str.names \o <<x>>
          BY <2>1, <3>2
        <4> HIDE DEF x, next, P
        <4>3. next.names = Append(str.names, x)
          BY <1>2, <4>1, <4>2
        <4>4. next.names \in Seq(P) /\ ToSet(next.names) = Upto(words, i - 1) \cup {x}
          BY <1>2, <1>7, <4>1, <4>3, ToSetAppend
        <4> QED BY <3>2, <4>4 DEF CutAt, x
      <3>3. \/ Beginning(str, w) = <<>>
            \/ \E j \in 1..Len(w) : Beginning(str, w) = <<SubSeq(w, 1, j)>>
        <4> HIDE DEF w
        <4> QED BY <1>1, <1>2, <1>7, BeginningIs
      <3> QED BY <3>1, <3>2, <3>3
    <2> HIDE DEF next, w, P
    <2>3. i \in 1..i /\ next.len \in Nat /\ next.full \in BOOLEAN
      <3>1. i \in 1..i
        BY <1>1
      <3>2. next.len \in Nat
        BY <1>2, <2>1
      <3>3. next.full \in BOOLEAN
        BY <2>1
      <3> QED BY <3>1, <3>2, <3>3
    <2> QED BY <2>1, <2>2, <2>3 DEF SoFar, next, w, P
  <1> QED BY <1>2, <1>4, <1>5, <1>6, <1>7

\* A word of a short value fits.
LEMMA ShortTurn ==
    ASSUME NEW words, IsWords(words), Short(words), NEW i \in 1..Len(words), NEW str,
           RoomLeft(str, i - 1)
    PROVE  RoomLeft(JoinWord(str, words[i]), i)
  <1> DEFINE w == words[i]
             n == Len(w)
             next == JoinWord(str, w)
  <1>1. n \in 1..11
    <2>1. n \in Nat \ {0} /\ n <= 11
      BY DEF IsWords, Short
    <2> QED BY <2>1, Eleven
  <1>2. i \in 1..8
    <2>1. Len(words) \in Nat /\ Len(words) <= 8
      BY DEF IsWords, Short
    <2> QED BY <2>1
  <1>3. str.len \in 0..(12 * (i - 1)) /\ ~str.full
    BY DEF RoomLeft
  <1> DEFINE used  == str.len
             comma == Comma(str)
  <1>4. comma \in {0, 1}
    BY DEF Comma
  <1> HIDE DEF w, n, used, comma
  <1>5. used \in 0..84 /\ used \in 0..(12 * (i - 1))
    <2>1. used \in 0..(12 * (i - 1))
      BY <1>3 DEF used
    <2> QED BY <1>2, <2>1
  <1>6. Fits(str, w)
    <2>1. used + n + 2 <= JoinSize
      BY <1>1, <1>5, JoinAssumption
    <2>2. used + comma + n <= ValueRoom
      BY <1>1, <1>4, <1>5, LineAssumption DEF ValueRoom
    <2> QED BY <2>1, <2>2 DEF Fits, used, comma, n
  <1>7. CASE fmt = "json" /\ w = NotString
    <2>1. next = str
      BY <1>7 DEF JoinWord
    <2>2. used \in 0..(12 * i)
      BY <1>2, <1>5
    <2>3. next.len \in 0..(12 * i)
      BY <2>1, <2>2 DEF used
    <2>4. ~next.full
      BY <1>3, <2>1
    <2> QED BY <2>3, <2>4 DEF RoomLeft, w
  <1>8. CASE ~(fmt = "json" /\ w = NotString)
    <2>1. next.len = used + comma + n /\ next.full = FALSE
      BY <1>3, <1>6, <1>8 DEF JoinWord, used, comma, n
    <2>2. used + comma + n \in 0..(12 * i)
      BY <1>1, <1>2, <1>4, <1>5
    <2>3. next.len \in 0..(12 * i)
      BY <2>1, <2>2
    <2>4. ~next.full
      BY <2>1
    <2> QED BY <2>3, <2>4 DEF RoomLeft, w
  <1> QED BY <1>7, <1>8

\* The loop keeps SoFar, and RoomLeft for a short value.
LEMMA JoinLoopKeeps ==
    ASSUME NEW words, IsWords(words), NEW s, JoinLoop(s, words, Len(words))
    PROVE  /\ SoFar(s[Len(words)], words, Len(words))
           /\ Short(words) => RoomLeft(s[Len(words)], Len(words))
  <1> DEFINE m     == Len(words)
             Fine(i) == SoFar(s[i], words, i) /\ (Short(words) => RoomLeft(s[i], i))
             S     == {i \in Nat : i <= m => Fine(i)}
  <1>1. m \in Nat
    BY DEF IsWords
  <1>2. Fine(0)
    <2>1. s[0].len = 0 /\ s[0].names = <<>> /\ s[0].full = FALSE
      BY DEF JoinLoop, EmptyJoin
    <2>2. ToSet(s[0].names) = {} /\ Upto(words, 0) = {}
      BY <2>1 DEF ToSet, Upto
    <2>3. s[0].len \in Nat /\ s[0].full \in BOOLEAN /\ s[0].names \in Seq(Pieces(words))
      <3>1. s[0].len \in Nat
        BY <2>1
      <3>2. s[0].full \in BOOLEAN
        BY <2>1
      <3>3. <<>> \in Seq(Pieces(words))
        OBVIOUS
      <3> QED BY <2>1, <3>1, <3>2, <3>3
    <2>4. SoFar(s[0], words, 0)
      BY <2>1, <2>2, <2>3 DEF SoFar
    <2>5. RoomLeft(s[0], 0)
      BY <2>1 DEF RoomLeft
    <2> QED BY <2>4, <2>5
  <1>3. ASSUME NEW k \in Nat, k \in S PROVE k + 1 \in S
    <2> SUFFICES ASSUME k + 1 <= m PROVE Fine(k + 1)
      OBVIOUS
    <2> DEFINE i == k + 1
    <2>1. i \in 1..m /\ i - 1 = k /\ k <= m
      BY <1>1
    <2>2. Fine(k)
      BY <1>3, <2>1
    <2> HIDE DEF i
    <2>3. s[i] = JoinWord(s[k], words[i])
      BY <2>1 DEF JoinLoop
    <2>4. SoFar(s[i], words, i)
      BY <2>1, <2>2, <2>3, JoinTurn
    <2>5. Short(words) => RoomLeft(s[i], i)
      BY <2>1, <2>2, <2>3, ShortTurn
    <2> QED BY <2>4, <2>5 DEF i
  <1>4. 0 \in S
    BY <1>2
  <1> HIDE DEF S
  <1>5. m \in S
    BY <1>1, <1>3, <1>4, SetInduction
  <1> QED BY <1>1, <1>5 DEF S

\* The words that are taken: all, or those before one that did not fit; of a short value
\* all.
Partly(words, S) == \/ S = Upto(words, Len(words))
                    \/ \E n \in 1..Len(words) : CutAt(words, n, S)

LEMMA JoinTakes ==
    ASSUME NEW words, IsWords(words)
    PROVE  /\ Join(words) \in Seq(Pieces(words))
           /\ Partly(words, ToSet(Join(words)))
           /\ Short(words) => ToSet(Join(words)) = Upto(words, Len(words))
  <1>1. Len(words) \in Nat
    BY DEF IsWords
  <1>2. PICK s : JoinLoop(s, words, Len(words)) /\ Join(words) = s[Len(words)].names
    BY <1>1, JoinRuns
  <1>3. /\ SoFar(s[Len(words)], words, Len(words))
        /\ Short(words) => RoomLeft(s[Len(words)], Len(words))
    BY <1>2, JoinLoopKeeps
  <1>4. Join(words) \in Seq(Pieces(words)) /\ Partly(words, ToSet(Join(words)))
    BY <1>2, <1>3 DEF SoFar, Partly
  <1>5. Short(words) => ToSet(Join(words)) = Upto(words, Len(words))
    BY <1>2, <1>3 DEF SoFar, RoomLeft
  <1> QED BY <1>4, <1>5

\* The readers leave numbers as they are, and take what they can of names.
LEMMA LoadedAsIs ==
    \A v : /\ v.kind = "num" => Loaded(v) = v
           /\ v.kind = "names" => Loaded(v).kind = "names" /\ Loaded(v).names = Join(v.names)
  BY DEF Loaded, Names

\* A text that a line of a text file has room for.
OneWord(w) == w = <<>> \/ (Len(w) = 1 /\ Len(w[1]) <= ValueRoom)

\* A text comes back whole from a JSON file, from a text file if it is one word.
LEMMA LoadedText ==
    ASSUME NEW w, IsWords(w), fmt = "json" \/ (fmt = "text" /\ OneWord(w))
    PROVE  Loaded(Text(w)).names = w
  <1>1. Text(w).kind = "text" /\ Text(w).names = w
    BY DEF Text
  <1>2. CASE fmt = "json"
    BY <1>1, <1>2 DEF Loaded
  <1>3. CASE fmt = "text" /\ OneWord(w)
    <2>1. Loaded(Text(w)) = Text(Join(FirstWord(w)))
      BY <1>1, <1>3 DEF Loaded
    <2>2. Loaded(Text(w)).names = Join(FirstWord(w))
      BY <2>1 DEF Text
    <2>3. FirstWord(w) = w
      <3>1. CASE w = <<>>
        BY <3>1 DEF FirstWord
      <3>2. CASE Len(w) = 1
        <4>1. w \in Seq(ToSet(w))
          BY DEF IsWords
        <4>2. w # <<>> /\ w = <<w[1]>> /\ Head(w) = w[1]
          BY <3>2, <4>1
        <4> QED BY <4>2 DEF FirstWord
      <3> QED BY <1>3, <3>1, <3>2 DEF OneWord
    <2>4. PICK s : JoinLoop(s, w, Len(w)) /\ Join(w) = s[Len(w)].names
      BY JoinRuns DEF IsWords
    <2>5. s[0] = EmptyJoin /\ s[0].len = 0 /\ s[0].names = <<>> /\ s[0].full = FALSE
      BY <2>4 DEF JoinLoop, EmptyJoin
    <2>6. Join(w) = w
      <3>1. CASE w = <<>>
        <4>1. Len(w) = 0
          BY <3>1
        <4> QED BY <2>4, <2>5, <3>1, <4>1
      <3>2. CASE Len(w) = 1 /\ Len(w[1]) <= ValueRoom
        <4>1. s[1] = JoinWord(s[0], w[1])
          BY <2>4, <3>2 DEF JoinLoop
        <4>2. Len(w[1]) \in Nat
          BY <3>2 DEF IsWords
        <4>3. Fits(s[0], w[1])
          <5>1. Comma(s[0]) = 0
            BY <2>5 DEF Comma
          <5> QED BY <1>3, <2>5, <3>2, <4>2, <5>1 DEF Fits
        <4>4. s[1].names = Append(<<>>, w[1])
          BY <1>3, <2>5, <4>1, <4>3 DEF JoinWord
        <4>5. w \in Seq(ToSet(w))
          BY DEF IsWords
        <4>6. Append(<<>>, w[1]) = w
          BY <3>2, <4>5
        <4> QED BY <2>4, <3>2, <4>4, <4>6
      <3> QED BY <1>3, <3>1, <3>2 DEF OneWord
    <2> QED BY <2>2, <2>3, <2>6
  <1> QED BY <1>2, <1>3

\* The names of a dump are taken whole.
LEMMA LoadedShown ==
    ASSUME NEW dt, NEW w, NEW v, NamesShown(dt, w, v)
    PROVE  /\ Loaded(v).kind = "names" /\ ToSet(Loaded(v).names) = BitNames(dt, w[2])
           /\ Loaded(v).names = <<>> <=> ToSet(Loaded(v).names) = {}
  <1> DEFINE words == v.names
             names == Join(words)
  <1>1. /\ v.kind = "names" /\ ToSet(words) = BitNames(dt, w[2])
        /\ IsWords(words) /\ Short(words) /\ NotString \notin ToSet(words)
    BY DEF NamesShown
  <1>2. Loaded(v).kind = "names" /\ Loaded(v).names = names
    BY <1>1, LoadedAsIs
  <1> HIDE DEF words
  <1>3. names \in Seq(Pieces(words)) /\ ToSet(names) = Upto(words, Len(words))
    BY <1>1, JoinTakes
  <1>4. Upto(words, Len(words)) = ToSet(words)
    <2>1. DOMAIN words = 1..Len(words)
      BY <1>1 DEF IsWords
    <2>2. ToSet(words) = {words[i] : i \in 1..Len(words)}
      BY <2>1 DEF ToSet
    <2>3. {words[i] : i \in 1..Len(words)} \ {NotString} = ToSet(words)
      BY <1>1, <2>2
    <2> QED BY <2>2, <2>3 DEF Upto
  <1> HIDE DEF names
  <1>5. names = <<>> <=> ToSet(names) = {}
    <2>1. Len(names) \in Nat /\ DOMAIN names = 1..Len(names) /\ (names = <<>> <=> Len(names) = 0)
      BY <1>3
    <2>2. Len(names) # 0 => names[1] \in ToSet(names)
      BY <2>1 DEF ToSet
    <2>3. names = <<>> => ToSet(names) = {}
      BY DEF ToSet
    <2> QED BY <2>1, <2>2, <2>3
  <1> QED BY <1>1, <1>2, <1>3, <1>4, <1>5

\* The part of a register that a parameter of this type names is the same.  (Restored.)
Same(dt, now, then) ==
    CASE dt = "B0" -> now[1] = then[1]
      [] dt = "B1" -> now[2] = then[2]
      [] dt \in Masks /\ ~dont_interpret -> now = <<0, then[2]>>
      [] OTHER -> now = then

\* Sixteen bits, as an inequality.
LEMMA InMaskRange == \A n : n \in MaskRange <=> n \in Nat /\ n < 65536
  <1> DEFINE b == 65535
  <1>1. b \in Nat /\ b + 1 = 65536
    OBVIOUS
  <1>2. MaskRange = 0..b
    BY DEF MaskRange
  <1> HIDE DEF b
  <1>3. \A n : n \in 0..b <=> n \in Nat /\ n < 65536
    BY <1>1
  <1> QED BY <1>2, <1>3

\* What is printed of a mask is read back as that mask, or refused.
LEMMA MaskBack ==
    ASSUME NEW dt \in Masks, NEW w, Word(w), NEW v, Shows(dt, w, v)
    PROVE  IF parse_bits(dt, Loaded(v)) = -1
           THEN IF dont_interpret THEN w[1] >= 128 ELSE w[2] = 0
           ELSE Same(dt, PutShort(parse_bits(dt, Loaded(v))), w)
  <1>1. PICK hi \in Octet, lo \in Octet : w = <<hi, lo>> /\ w[1] = hi /\ w[2] = lo
    BY DEF Word
  <1>2. hi \in 0..255 /\ lo \in 0..255 /\ hi \in Int /\ lo \in Int
    BY DEF Octet
  <1>3. CASE dont_interpret
    <2>1. v = Num(Signed(w))
      BY <1>3 DEF Shows
    <2>2. Loaded(v) = v /\ v.kind = "num" /\ v.n = Signed(w)
      BY <2>1, LoadedAsIs DEF Num
    <2> DEFINE InRange == Signed(w) \in MaskRange
    <2>3. parse_bits(dt, v) = IF InRange THEN Signed(w) ELSE -1
      BY <2>2 DEF parse_bits
    <2>4. hi < 128 => InRange
      <3>1. hi < 128 => Signed(w) = 256 * hi + lo
        BY <1>1, <1>2 DEF Signed, Unsigned
      <3> QED BY <1>2, <3>1, InMaskRange
    <2>5. Same(dt, w, w) /\ PutShort(Signed(w)) = w
      BY PutShortRestores, <1>3 DEF Same, Masks
    <2>6. InRange => Signed(w) # -1
      <3>1. -1 \notin Nat
        OBVIOUS
      <3> QED BY <3>1, InMaskRange
    <2> HIDE DEF InRange
    <2>7. CASE InRange
      BY <2>2, <2>3, <2>5, <2>6, <2>7
    <2>8. CASE ~InRange
      <3>1. hi >= 128
        BY <1>2, <2>4, <2>8
      <3> QED BY <1>1, <1>3, <2>2, <2>3, <2>8, <3>1
    <2> QED BY <2>7, <2>8
  <1>4. CASE ~dont_interpret
    <2> DEFINE u == Loaded(v)
    <2>1. /\ u.kind = "names" /\ ToSet(u.names) = BitNames(dt, lo)
          /\ u.names = <<>> <=> ToSet(u.names) = {}
      <3>1. NamesShown(dt, w, v)
        BY <1>4 DEF Shows
      <3> QED BY <1>1, <3>1, LoadedShown
    <2> HIDE DEF u
    <2>3. NamedMask(dt, u.names) = lo /\ Known(dt, u.names)
      BY <1>2, <2>1, NamesGiveMask
    <2>4. parse_bits(dt, u) = IF u.names = <<>> THEN -1 ELSE lo
      BY <2>1, <2>3 DEF parse_bits
    <2>5. u.names = <<>> => lo = 0
      <3> SUFFICES ASSUME u.names = <<>> PROVE lo = 0
        OBVIOUS
      <3>1. ToSet(u.names) = {}
        BY <2>1
      <3>2. \A i \in 1..8 : ~HasBit(lo, i)
        BY <2>1, <3>1 DEF BitNames
      <3>3. \A i \in 1..8 : BitsOf(lo)[i] = 0
        BY <3>2 DEF BitsOf
      <3>4. SumOf(BitsOf(lo)) = 0
        BY <3>3 DEF SumOf
      <3> QED BY <1>2, <3>4, SumOfBits
    <2>6. Same(dt, <<0, lo>>, w) /\ PutShort(lo) = <<0, lo>>
      BY <1>1, <1>2, <1>4, PutShortLow DEF Same, Masks
    <2>7. CASE u.names = <<>>
      BY <1>1, <1>4, <2>4, <2>5, <2>7 DEF u
    <2>8. CASE u.names # <<>>
      <3>1. lo # -1
        BY <1>2
      <3> QED BY <2>4, <2>6, <2>8, <3>1 DEF u
    <2> QED BY <2>7, <2>8
  <1> QED BY <1>3, <1>4

\* What write_parm() sends of a number.
LEMMA SentNumber ==
    \A dt \in Numbers : \A v, old : SentBytes(dt, v, old) = {PutShort(v.n)}
  <1>1. \A v, old : /\ SentBytes("UINT", v, old) = {PutShort(v.n)}
                    /\ SentBytes("INT", v, old) = {PutShort(v.n)}
    BY DEF SentBytes, atoi, Numbers, Masks, Packed
  <1> QED BY <1>1 DEF Numbers

\* What it sends of a mask.
LEMMA SentMask ==
    \A dt \in Masks : \A v, old : SentBytes(dt, v, old) = {PutShort(parse_bits(dt, v))}
  <1>1. \A v, old : /\ SentBytes("FUNC", v, old) = {PutShort(parse_bits("FUNC", v))}
                    /\ SentBytes("NTC", v, old) = {PutShort(parse_bits("NTC", v))}
    BY DEF SentBytes, Numbers, Masks, Packed
  <1> QED BY <1>1 DEF Masks

\* What it sends of one byte of two, and of a text.
LEMMA SentOthers ==
    \A v, old : /\ SentBytes("B0", v, old) = {<<v.n % 256, old[2]>>}
                /\ SentBytes("B1", v, old) = {<<old[1], v.n % 256>>}
                /\ SentBytes("STR", v, old) = {v.names}
  BY DEF SentBytes, atoi, Numbers, Masks, Packed

\* What is printed of a parameter, written back, restores its part of the register and
\* leaves the other byte alone.
LEMMA WriteRestores ==
    ASSUME NEW dt \in Types \ Packed, NEW w, Content(dt, w), NEW v, Shows(dt, w, v),
           dt = "STR" => fmt = "json" \/ (fmt = "text" /\ OneWord(w)),
           dt \in Masks => parse_bits(dt, Loaded(v)) # -1,
           NEW old, NEW data \in SentBytes(dt, Loaded(v), old)
    PROVE  /\ Same(dt, data, w)
           /\ dt = "B0" => data[2] = old[2]
           /\ dt = "B1" => data[1] = old[1]
  <1>1. CASE dt \in Numbers
    <2>1. (v = Num(Unsigned(w)) \/ v = Num(Signed(w))) /\ Word(w)
      BY <1>1 DEF Shows, Numbers, Content
    <2>2. Loaded(v) = v /\ (v.n = Unsigned(w) \/ v.n = Signed(w))
      BY <2>1, LoadedAsIs DEF Num
    <2>3. data = PutShort(v.n)
      <3>1. SentBytes(dt, v, old) = {PutShort(v.n)}
        BY <1>1, SentNumber
      <3> QED BY <2>2, <3>1
    <2>4. data = w
      BY <2>1, <2>2, <2>3, PutShortRestores
    <2> QED BY <1>1, <2>4 DEF Same, Numbers, Masks
  <1>2. CASE dt \in Masks
    <2>1. Word(w) /\ data = PutShort(parse_bits(dt, Loaded(v)))
      BY <1>2, SentMask DEF Masks, Content
    <2>2. Same(dt, data, w)
      BY <1>2, <2>1, MaskBack
    <2> QED BY <1>2, <2>2 DEF Masks
  <1>3. CASE dt \in {"B0", "B1"}
    <2>1. PICK hi \in Octet, lo \in Octet : w = <<hi, lo>> /\ w[1] = hi /\ w[2] = lo
      BY <1>3 DEF Content, Word
    <2>2. hi % 256 = hi /\ lo % 256 = lo
      BY BytesOfNumber
    <2>3. v = IF dt = "B0" THEN Num(hi) ELSE Num(lo)
      BY <1>3, <2>1 DEF Shows
    <2>4. Loaded(v) = v /\ v.n = IF dt = "B0" THEN hi ELSE lo
      BY <2>3, LoadedAsIs DEF Num
    <2>5. data = IF dt = "B0" THEN <<hi, old[2]>> ELSE <<old[1], lo>>
      BY <1>3, <2>2, <2>4, SentOthers
    <2>6. CASE dt = "B0"
      BY <2>1, <2>5, <2>6 DEF Same, Masks
    <2>7. CASE dt = "B1"
      BY <2>1, <2>5, <2>7 DEF Same, Masks
    <2> QED BY <1>3, <2>6, <2>7
  <1>4. CASE dt = "STR"
    <2>1. IsWords(w) /\ v = Text(w)
      BY <1>4 DEF Content, Shows
    <2>2. data = Loaded(v).names
      BY <1>4, SentOthers
    <2>3. data = w
      BY <1>4, <2>1, <2>2, LoadedText
    <2> QED BY <1>4, <2>3 DEF Same, Masks
  <1> QED BY <1>1, <1>2, <1>3, <1>4 DEF Types

\* What is printed is never JSON's null.
LEMMA NeverNull == \A dt \in Types : \A w, v : Shows(dt, w, v) => v.kind # "null"
  <1> SUFFICES ASSUME NEW dt \in Types, NEW w, NEW v, Shows(dt, w, v) PROVE v.kind # "null"
    OBVIOUS
  <1>1. CASE dt \in {"UINT", "INT", "B0", "B1", "STR"}
    BY <1>1 DEF Shows, Num, Text
  <1>2. CASE dt \in Masks
    BY <1>2 DEF Shows, NamesShown, Num
  <1>3. CASE dt \in Packed
    BY <1>3 DEF Shows
  <1> QED BY <1>1, <1>2, <1>3 DEF Types, Numbers

-----------------------------------------------------------------------------
(* The invariant. *)

Shape == /\ list \in Lists /\ orig \in Contents(list)
         /\ bms = [r \in Regs(list) |-> bms[r]]
         /\ \E S : file \in Seq(S)
         /\ fmt \in {"json", "text", "csv"}
         /\ edited \in Nat /\ pos \in Nat \ {0}
         /\ stage \in {"dump", "file", "load", "done", "stopped"}

\* How far the file has come; while it is dumped nothing changes.
Place == /\ stage = "dump" => /\ Len(file) = pos - 1 /\ pos <= Len(list) + 1
                              /\ bms = orig /\ edited = 0
         /\ stage # "dump" => Len(file) = Len(list)
         /\ stage \in {"load", "done"} => pos <= Len(file) + 1
         /\ stage = "stopped" => pos <= Len(file)

\* The file has the parameters of the list and what they were, but for an edit.
FileTrue == \A k \in 1..Len(file) :
               /\ file[k].parm = list[k] /\ DOMAIN file[k] = {"parm", "value"}
               /\ k = edited => file[k].value \in Edits
               /\ k # edited => Shows(list[k].dt, orig[list[k].reg], file[k].value)

Inv == Shape /\ Place /\ FileTrue /\ RoundTrip /\ RefusedDump

\* The entries of a list and what their registers hold.
LEMMA Entries ==
    ASSUME NEW l \in Lists, NEW c \in Contents(l)
    PROVE  /\ l \in Seq(Parm)
           /\ c = [r \in Regs(l) |-> c[r]]
           /\ \A k \in 1..Len(l) : /\ l[k].dt \in Types /\ l[k].reg \in Regs(l)
                                   /\ Content(l[k].dt, c[l[k].reg])
           /\ \A j, k \in 1..Len(l) :
                 l[j].reg = l[k].reg => \/ l[j].dt = l[k].dt
                                       \/ {l[j].dt, l[k].dt} \subseteq {"B0", "B1"} \cup Packed
  <1>1. l \in Seq(Parm) /\ DOMAIN l = 1..Len(l)
    BY ListsAssumption
  <1>2. \A j, k \in 1..Len(l) :
           l[j].reg = l[k].reg => \/ l[j].dt = l[k].dt
                                 \/ {l[j].dt, l[k].dt} \subseteq {"B0", "B1"} \cup Packed
    BY <1>1, ListsAssumption
  <1>3. PICK w \in [Regs(l) -> Bytes \X Bytes], t \in [Regs(l) -> Texts] :
           c = [r \in Regs(l) |-> IF IsText(l, r) THEN t[r] ELSE w[r]]
    BY DEF Contents
  <1>4. c = [r \in Regs(l) |-> c[r]]
    BY <1>3
  <1>5. ASSUME NEW k \in 1..Len(l)
        PROVE  l[k].dt \in Types /\ l[k].reg \in Regs(l) /\ Content(l[k].dt, c[l[k].reg])
    <2>1. l[k] \in Parm
      BY <1>1
    <2>2. l[k].dt \in Types
      BY <2>1 DEF Parm, Types
    <2>3. l[k].reg \in Regs(l)
      BY <1>1 DEF Regs
    <2>4. IsText(l, l[k].reg) <=> l[k].dt = "STR"
      <3>1. l[k].dt = "STR" => IsText(l, l[k].reg)
        BY <1>1 DEF IsText
      <3>2. ASSUME NEW j \in 1..Len(l), l[j].reg = l[k].reg, l[j].dt = "STR"
            PROVE  l[k].dt = "STR"
        <4>1. "STR" \notin {"B0", "B1"} \cup Packed
          BY DEF Packed
        <4> QED BY <1>2, <3>2, <4>1
      <3> QED BY <1>1, <3>1, <3>2 DEF IsText
    <2>5. CASE l[k].dt = "STR"
      <3>1. c[l[k].reg] \in Texts
        BY <1>3, <2>3, <2>4, <2>5
      <3> QED BY <2>2, <2>3, <2>5, <3>1, TextsAssumption DEF Content
    <2>6. CASE l[k].dt # "STR"
      <3>1. c[l[k].reg] \in Bytes \X Bytes
        BY <1>3, <2>3, <2>4, <2>6
      <3>2. Word(c[l[k].reg])
        BY <3>1, BytesAssumption DEF Word, Octet
      <3> QED BY <2>2, <2>3, <2>6, <3>2 DEF Content
    <2> QED BY <2>5, <2>6
  <1> QED BY <1>1, <1>2, <1>4, <1>5

\* To begin with nothing has been dumped.
LEMMA InitInv == Init => Inv
  <1> SUFFICES ASSUME Init PROVE Inv
    OBVIOUS
  <1> USE DEF Init
  <1>1. Shape
    <2>1. bms = [r \in Regs(list) |-> bms[r]]
      BY Entries
    <2>2. file \in Seq({})
      OBVIOUS
    <2> QED BY <2>1, <2>2 DEF Shape
  <1>2. Place
    <2>1. list \in Seq(Parm) /\ Len(list) \in Nat
      BY ListsAssumption
    <2> QED BY <2>1 DEF Place
  <1>3. FileTrue /\ RoundTrip /\ RefusedDump
    BY DEF FileTrue, RoundTrip, RefusedDump
  <1> QED BY <1>1, <1>2, <1>3 DEF Inv

-----------------------------------------------------------------------------
(* The steps. *)

\* What holds of the entries in a state the invariant allows.
LEMMA FileFacts ==
    ASSUME Inv
    PROVE  /\ list \in Seq(Parm) /\ Len(list) \in Nat /\ Len(file) \in Nat
           /\ DOMAIN file = 1..Len(file) /\ Len(file) <= Len(list)
           /\ \A k \in 1..Len(list) : /\ list[k].dt \in Types /\ list[k].reg \in Regs(list)
                                      /\ Content(list[k].dt, orig[list[k].reg])
           /\ \A j, k \in 1..Len(list) :
                 list[j].reg = list[k].reg =>
                    \/ list[j].dt = list[k].dt
                    \/ {list[j].dt, list[k].dt} \subseteq {"B0", "B1"} \cup Packed
  <1>1. list \in Lists /\ orig \in Contents(list)
    BY DEF Inv, Shape
  <1>2. PICK S : file \in Seq(S)
    BY DEF Inv, Shape
  <1>3. list \in Seq(Parm)
    BY <1>1, Entries
  <1>4. Len(file) \in Nat /\ DOMAIN file = 1..Len(file) /\ Len(list) \in Nat
    BY <1>2, <1>3
  <1>5. Len(file) <= Len(list)
    BY <1>4 DEF Inv, Place, Shape
  <1> QED BY <1>1, <1>3, <1>4, <1>5, Entries

\* What a value shows depends on -n only.
LEMMA ShowsStays ==
    ASSUME UNCHANGED dont_interpret, NEW dt, NEW w, NEW v
    PROVE  Shows(dt, w, v)' <=> Shows(dt, w, v)
  BY DEF Shows

\* When list, file and what was dumped stay, so does the truth of the file.
LEMMA FileStays ==
    ASSUME FileTrue, UNCHANGED <<list, dont_interpret, orig, file, edited>>
    PROVE  FileTrue'
  BY DEF FileTrue, Shows

\* Dumping a parameter adds what its register holds.
LEMMA DumpParmStep == Inv /\ DumpParm => Inv'
  <1> SUFFICES ASSUME Inv, DumpParm PROVE Inv'
    OBVIOUS
  <1> DEFINE p == list[pos]
             e == [parm |-> p, value |-> pdisp(p.dt, bms[p.reg])]
  <1>1. /\ stage = "dump" /\ pos <= Len(list) /\ file' = Append(file, e) /\ pos' = pos + 1
        /\ UNCHANGED <<list, fmt, dont_interpret, bms, orig, edited, stage>>
    BY DEF DumpParm
  <1>2. Len(file) = pos - 1 /\ bms = orig /\ edited = 0 /\ pos \in Nat \ {0}
    BY <1>1 DEF Inv, Place, Shape
  <1>3. PICK S : file \in Seq(S)
    BY DEF Inv, Shape
  <1>4. e.parm = p /\ e.value = pdisp(p.dt, orig[p.reg])
    BY <1>2
  <1>5. Shows(p.dt, orig[p.reg], e.value)
    <2>1. p.dt \in Types
      BY <1>1, <1>2, FileFacts
    <2> QED BY <1>4, <2>1, PdispShows
  <1> HIDE DEF e
  <1>6. /\ file' \in Seq(S \cup {e}) /\ Len(file') = pos /\ file'[pos] = e
        /\ \A k \in 1..(pos - 1) : file'[k] = file[k]
    BY <1>1, <1>2, <1>3
  <1>7. Shape'
    BY <1>1, <1>2, <1>6 DEF Inv, Shape
  <1>8. Place'
    <2>1. Len(list) \in Nat
      BY FileFacts
    <2> QED BY <1>1, <1>2, <1>6, <2>1 DEF Place
  <1>9. FileTrue'
    <2>1. ASSUME NEW k \in 1..Len(file')
          PROVE  /\ file'[k].parm = list[k] /\ DOMAIN file'[k] = {"parm", "value"}
                 /\ Shows(list[k].dt, orig[list[k].reg], file'[k].value)
      <3>1. CASE k = pos
        <4>1. DOMAIN e = {"parm", "value"}
          BY DEF e
        <4> QED BY <1>4, <1>5, <1>6, <3>1, <4>1
      <3>2. CASE k \in 1..(pos - 1)
        BY <1>2, <1>6, <3>2 DEF Inv, FileTrue
      <3> QED BY <1>2, <1>6, <3>1, <3>2
    <2>2. \A k \in 1..Len(file') : k # edited'
      BY <1>1, <1>2
    <2> QED BY <1>1, <2>1, <2>2 DEF FileTrue, Shows
  <1>10. RoundTrip' /\ RefusedDump'
    BY <1>1 DEF RoundTrip, RefusedDump
  <1> QED BY <1>7, <1>8, <1>9, <1>10 DEF Inv

\* Ending the dump.
LEMMA DumpEndStep == Inv /\ DumpEnd => Inv'
  <1> SUFFICES ASSUME Inv, DumpEnd PROVE Inv'
    OBVIOUS
  <1>1. /\ stage = "dump" /\ pos > Len(list) /\ stage' = "file"
        /\ UNCHANGED <<list, fmt, dont_interpret, bms, orig, file, edited, pos>>
    BY DEF DumpEnd
  <1>2. Shape'
    BY <1>1 DEF Inv, Shape
  <1>3. Place'
    BY <1>1, FileFacts DEF Inv, Place, Shape
  <1>4. FileTrue'
    BY <1>1, FileStays DEF Inv
  <1>5. RoundTrip' /\ RefusedDump'
    BY <1>1 DEF RoundTrip, RefusedDump
  <1> QED BY <1>2, <1>3, <1>4, <1>5 DEF Inv

\* An edit leaves the parameters of the file as they are.
LEMMA EditStep == Inv /\ Edit => Inv'
  <1> SUFFICES ASSUME Inv, Edit PROVE Inv'
    OBVIOUS
  <1>1. /\ stage = "file" /\ edited = 0
        /\ UNCHANGED <<list, fmt, dont_interpret, bms, orig, pos, stage>>
    BY DEF Edit
  <1>2. PICK k \in 1..Len(file), v \in Edits :
           file' = [file EXCEPT ![k].value = v] /\ edited' = k
    BY DEF Edit
  <1>3. PICK S : file \in Seq(S)
    BY DEF Inv, Shape
  <1> DEFINE e == [file[k] EXCEPT !.value = v]
  <1>4. file' = [file EXCEPT ![k] = e]
    BY <1>2
  <1>5. file[k].parm = list[k] /\ e.parm = list[k]
    <2>1. file[k].parm = list[k]
      BY DEF Inv, FileTrue
    <2> QED BY <2>1
  <1> HIDE DEF e
  <1>6. /\ file' \in Seq(S \cup {e}) /\ Len(file') = Len(file)
        /\ file'[k] = e /\ \A j \in 1..Len(file) : j # k => file'[j] = file[j]
    BY <1>3, <1>4
  <1>7. edited' \in Nat \ {0}
    BY <1>2, FileFacts
  <1>8. Shape'
    BY <1>1, <1>6, <1>7 DEF Inv, Shape
  <1>9. Place'
    BY <1>1, <1>6 DEF Inv, Place
  <1>10. FileTrue'
    <2>1. e.value = v
      <3>1. DOMAIN file[k] = {"parm", "value"}
        BY DEF Inv, FileTrue
      <3> QED BY <3>1 DEF e
    <2>2. ASSUME NEW j \in 1..Len(file')
          PROVE  /\ file'[j].parm = list[j] /\ DOMAIN file'[j] = {"parm", "value"}
                 /\ j = k => file'[j].value \in Edits
                 /\ j # k => Shows(list[j].dt, orig[list[j].reg], file'[j].value)
      <3>1. CASE j = k
        <4>1. DOMAIN e = {"parm", "value"}
          BY DEF Inv, FileTrue, e
        <4> QED BY <1>5, <1>6, <2>1, <3>1, <4>1
      <3>2. CASE j # k
        BY <1>1, <1>6, <1>7, <2>2, <3>2 DEF Inv, FileTrue
      <3> QED BY <3>1, <3>2
    <2> QED BY <1>1, <1>2, <2>2 DEF FileTrue, Shows
  <1>11. RoundTrip' /\ RefusedDump'
    BY <1>1 DEF RoundTrip, RefusedDump
  <1> QED BY <1>8, <1>9, <1>10, <1>11 DEF Inv

\* Another BMS has the same registers.
LEMMA WriteFileStep == Inv /\ WriteFile => Inv'
  <1> SUFFICES ASSUME Inv, WriteFile PROVE Inv'
    OBVIOUS
  <1>1. /\ stage = "file" /\ pos' = 1 /\ stage' = "load"
        /\ UNCHANGED <<list, fmt, dont_interpret, orig, file, edited>>
    BY DEF WriteFile
  <1>2. bms' = [r \in Regs(list) |-> bms'[r]]
    <2>1. bms = [r \in Regs(list) |-> bms[r]]
      BY DEF Inv, Shape
    <2>2. CASE bms' = bms
      BY <2>1, <2>2
    <2>3. CASE \E b \in {0, 255} : bms' = [r \in DOMAIN bms |-> IF IsText(list, r) THEN <<>>
                                                               ELSE <<b, b>>]
      <3>1. PICK b \in {0, 255} : bms' = [r \in DOMAIN bms |-> IF IsText(list, r) THEN <<>>
                                                               ELSE <<b, b>>]
        BY <2>3
      <3>2. DOMAIN bms = Regs(list)
        BY <2>1
      <3> QED BY <3>1, <3>2
    <2> QED BY <2>2, <2>3 DEF WriteFile
  <1>3. Shape'
    <2>1. Regs(list)' = Regs(list)
      BY <1>1 DEF Regs
    <2>2. (bms = [r \in Regs(list) |-> bms[r]])'
      BY <1>2, <2>1
    <2>3. /\ list' \in Lists /\ orig' \in Contents(list') /\ (\E S : file' \in Seq(S))
          /\ fmt' \in {"json", "text", "csv"} /\ edited' \in Nat
      BY <1>1 DEF Inv, Shape
    <2> QED BY <1>1, <2>2, <2>3 DEF Shape
  <1>4. Place'
    BY <1>1, FileFacts DEF Inv, Place
  <1>5. FileTrue'
    BY <1>1, FileStays DEF Inv
  <1>6. RoundTrip' /\ RefusedDump'
    BY <1>1 DEF RoundTrip, RefusedDump
  <1> QED BY <1>3, <1>4, <1>5, <1>6 DEF Inv

\* Restored in terms of Same.
LEMMA RestoredSame ==
    \A k : Restored(k) <=> Same(file[k].parm.dt, bms[file[k].parm.reg], orig[file[k].parm.reg])
  BY DEF Restored, Same

\* The entry being written.
LEMMA EntryFacts ==
    ASSUME Inv, stage = "load", pos <= Len(file)
    PROVE  /\ pos \in 1..Len(list) /\ pos \in 1..Len(file) /\ Entry.parm = list[pos]
           /\ pos = edited => Entry.value \in Edits
           /\ pos # edited => Shows(list[pos].dt, orig[list[pos].reg], Entry.value)
  <1>1. pos \in 1..Len(file) /\ pos \in 1..Len(list)
    BY FileFacts DEF Inv, Shape
  <1> QED BY <1>1 DEF Inv, FileTrue, Entry

\* No line of an unedited file is passed over.
LEMMA SkipParmStep == Inv /\ SkipParm => Inv'
  <1> SUFFICES ASSUME Inv, SkipParm PROVE Inv'
    OBVIOUS
  <1>1. /\ stage = "load" /\ pos <= Len(file) /\ Skipped /\ pos' = pos + 1
        /\ UNCHANGED <<list, fmt, dont_interpret, bms, orig, file, edited, stage>>
    BY DEF SkipParm, Pending
  <1>2. Shape'
    BY <1>1 DEF Inv, Shape
  <1>3. Place'
    BY <1>1, FileFacts DEF Inv, Place, Shape
  <1>4. FileTrue'
    BY <1>1, FileStays DEF Inv
  <1>5. fmt = "csv" \/ edited # 0
    <2> SUFFICES ASSUME fmt # "csv", edited = 0 PROVE FALSE
      OBVIOUS
    <2>1. Entry.value.kind = "null"
      BY <1>1 DEF Skipped
    <2>2. list[pos].dt \in Types /\ Shows(list[pos].dt, orig[list[pos].reg], Entry.value)
      BY <1>1, EntryFacts, FileFacts
    <2> QED BY <2>1, <2>2, NeverNull
  <1>6. RoundTrip' /\ RefusedDump'
    BY <1>1, <1>5 DEF RoundTrip, RefusedDump
  <1> QED BY <1>2, <1>3, <1>4, <1>6 DEF Inv

\* An unedited value that is refused is one of the two kinds RefusedDump names.
LEMMA RefuseParmStep == Inv /\ RefuseParm => Inv'
  <1> SUFFICES ASSUME Inv, RefuseParm PROVE Inv'
    OBVIOUS
  <1>1. /\ stage = "load" /\ pos <= Len(file) /\ Refused /\ stage' = "stopped"
        /\ UNCHANGED <<list, fmt, dont_interpret, bms, orig, file, edited, pos>>
    BY DEF RefuseParm, Pending
  <1>2. Shape'
    BY <1>1 DEF Inv, Shape
  <1>3. Place'
    BY <1>1, FileFacts DEF Inv, Place, Shape
  <1>4. FileTrue'
    BY <1>1, FileStays DEF Inv
  <1>5. RoundTrip'
    <2>1. RoundTrip /\ stage = "load"
      BY <1>1 DEF Inv
    <2> QED BY <1>1, <2>1 DEF RoundTrip, Complete, Restored
  <1>6. RefusedDump'
    <2> SUFFICES ASSUME edited = 0
                 PROVE  LET w == orig[Entry.parm.reg]
                        IN  IF dont_interpret THEN w[1] >= 128 ELSE w[2] = 0
      BY <1>1 DEF RefusedDump, Entry
    <2> DEFINE p == list[pos]
               w == orig[p.reg]
               v == Entry.value
    <2>1. Entry.parm = p /\ Shows(p.dt, w, v)
      BY <1>1, EntryFacts
    <2>2. p.dt \in Masks /\ parse_bits(p.dt, Loaded(v)) = -1
      BY <1>1, <2>1 DEF Refused
    <2>3. Content(p.dt, w)
      BY <1>1, EntryFacts, FileFacts
    <2> HIDE DEF p, w, v
    <2>4. Word(w)
      BY <2>2, <2>3 DEF Content, Masks
    <2>5. IF dont_interpret THEN w[1] >= 128 ELSE w[2] = 0
      BY <2>1, <2>2, <2>4, MaskBack
    <2> QED BY <2>1, <2>5 DEF w
  <1> QED BY <1>2, <1>3, <1>4, <1>5, <1>6 DEF Inv

\* A write restores its own parameter and leaves those restored that are there.
LEMMA WriteParmStep == Inv /\ write_parm => Inv'
  <1> SUFFICES ASSUME Inv, write_parm PROVE Inv'
    OBVIOUS
  <1> DEFINE p == list[pos]
             r == p.reg
             v == Entry.value
  <1>1. /\ stage = "load" /\ pos <= Len(file) /\ ~Skipped /\ ~Refused /\ pos' = pos + 1
        /\ UNCHANGED <<list, fmt, dont_interpret, orig, file, edited, stage>>
    BY DEF write_parm, Pending
  <1>2. /\ pos \in 1..Len(list) /\ pos \in 1..Len(file) /\ Entry.parm = p
        /\ edited = 0 => Shows(p.dt, orig[r], v)
    <2>1. pos # 0
      BY <1>1, EntryFacts
    <2> QED BY <1>1, <2>1, EntryFacts
  <1>3. PICK data \in SentBytes(p.dt, Loaded(v), bms[r]) : bms' = [bms EXCEPT ![r] = data]
    BY <1>2 DEF write_parm
  <1>4. p.dt \in Types /\ r \in Regs(list) /\ Content(p.dt, orig[r])
    BY <1>2, FileFacts
  <1>5. /\ bms' = [q \in Regs(list) |-> bms'[q]]
        /\ bms'[r] = data /\ \A q \in Regs(list) : q # r => bms'[q] = bms[q]
    <2>1. bms = [q \in Regs(list) |-> bms[q]]
      BY DEF Inv, Shape
    <2> HIDE DEF r, v
    <2> QED BY <1>3, <1>4, <2>1
  <1>6. Shape'
    <2>1. Regs(list)' = Regs(list)
      BY <1>1 DEF Regs
    <2>2. (bms = [q \in Regs(list) |-> bms[q]])'
      BY <1>5, <2>1
    <2>3. /\ list' \in Lists /\ orig' \in Contents(list') /\ (\E S : file' \in Seq(S))
          /\ fmt' \in {"json", "text", "csv"} /\ edited' \in Nat /\ pos' \in Nat \ {0}
      BY <1>1 DEF Inv, Shape
    <2> QED BY <1>1, <2>2, <2>3 DEF Shape
  <1>7. Place'
    BY <1>1, FileFacts DEF Inv, Place, Shape
  <1>8. FileTrue'
    BY <1>1, FileStays DEF Inv
  <1>9. ASSUME fmt # "csv", edited = 0, NEW k \in 1..pos, Complete(k)
        PROVE  Same(list[k].dt, bms'[list[k].reg], orig[list[k].reg])
    <2> DEFINE q == list[k]
    <2>1. k \in 1..Len(list) /\ k \in 1..Len(file)
      BY <1>2, FileFacts
    <2>2. file[k].parm = q /\ file[pos].parm = p
      BY <1>2, <2>1 DEF Inv, FileTrue
    <2>3. q.dt \in Types /\ q.reg \in Regs(list)
      BY <2>1, FileFacts
    <2>4. k # pos => Same(q.dt, bms[q.reg], orig[q.reg])
      <3>1. k # pos => Restored(k)
        BY <1>1, <1>2, <1>9 DEF Inv, RoundTrip
      <3> QED BY <2>2, <3>1, RestoredSame
    <2>5. CASE q.reg # r
      <3>1. k # pos /\ bms'[q.reg] = bms[q.reg]
        BY <1>5, <2>3, <2>5
      <3> QED BY <2>4, <3>1
    <2>6. CASE q.reg = r
      <3>1. p.dt \notin Packed /\ q.dt \notin Packed
        BY <1>2, <1>9, <2>1, <2>2, <2>6 DEF Complete
      <3>2. \/ q.dt = p.dt
            \/ q.dt = "B0" /\ p.dt = "B1"
            \/ q.dt = "B1" /\ p.dt = "B0"
        <4>1. q.dt = p.dt \/ {q.dt, p.dt} \subseteq {"B0", "B1"} \cup Packed
          BY <1>2, <2>1, <2>6, FileFacts
        <4> QED BY <3>1, <4>1
      <3>3. p.dt = "STR" => fmt = "json" \/ (fmt = "text" /\ OneWord(orig[r]))
        <4>1. p.dt = "STR" => q.dt = "STR"
          BY <3>2
        <4>2. fmt \in {"json", "text"}
          BY <1>9 DEF Inv, Shape
        <4> QED BY <1>9, <2>2, <2>6, <4>1, <4>2 DEF Complete, OneWord
      <3>4. p.dt \in Masks => parse_bits(p.dt, Loaded(v)) # -1
        BY <1>1, <1>2 DEF Refused
      <3>5. /\ Same(p.dt, data, orig[r])
            /\ p.dt = "B0" => data[2] = bms[r][2]
            /\ p.dt = "B1" => data[1] = bms[r][1]
        <4>1. Shows(p.dt, orig[r], v)
          BY <1>2, <1>9
        <4> HIDE DEF p, r, v
        <4> QED BY <1>3, <1>4, <3>1, <3>3, <3>4, <4>1, WriteRestores
      <3>6. CASE q.dt = p.dt
        BY <1>5, <2>6, <3>5, <3>6
      <3>7. CASE q.dt = "B0" /\ p.dt = "B1"
        <4>1. Same("B0", bms[r], orig[r])
          BY <2>4, <2>6, <3>7
        <4>2. data[1] = orig[r][1]
          BY <3>5, <3>7, <4>1 DEF Same, Masks
        <4> QED BY <1>5, <2>6, <3>7, <4>2 DEF Same, Masks
      <3>8. CASE q.dt = "B1" /\ p.dt = "B0"
        <4>1. Same("B1", bms[r], orig[r])
          BY <2>4, <2>6, <3>8
        <4>2. data[2] = orig[r][2]
          BY <3>5, <3>8, <4>1 DEF Same, Masks
        <4> QED BY <1>5, <2>6, <3>8, <4>2 DEF Same, Masks
      <3> QED BY <3>2, <3>6, <3>7, <3>8
    <2> QED BY <2>5, <2>6
  <1>10. RoundTrip'
    <2> SUFFICES ASSUME fmt # "csv", edited = 0, NEW k \in 1..pos, Complete(k)
                 PROVE  Restored(k)'
      <3>1. \A k : Complete(k)' <=> Complete(k)
        BY <1>1 DEF Complete
      <3>2. (pos - 1)' = pos
        BY <1>1, <1>2
      <3> QED BY <1>1, <3>1, <3>2 DEF RoundTrip
    <2>1. Same(list[k].dt, bms'[list[k].reg], orig[list[k].reg])
      BY <1>9
    <2>2. file'[k].parm = list[k]
      BY <1>1, <1>2 DEF Inv, FileTrue
    <2> QED BY <1>1, <2>1, <2>2 DEF Restored, Same
  <1>11. RefusedDump'
    BY <1>1 DEF RefusedDump
  <1> QED BY <1>6, <1>7, <1>8, <1>10, <1>11 DEF Inv

\* The end of the file.
LEMMA WriteEndStep == Inv /\ WriteEnd => Inv'
  <1> SUFFICES ASSUME Inv, WriteEnd PROVE Inv'
    OBVIOUS
  <1>1. /\ stage = "load" /\ stage' = "done"
        /\ UNCHANGED <<list, fmt, dont_interpret, bms, orig, file, edited, pos>>
    BY DEF WriteEnd
  <1>2. Shape'
    BY <1>1 DEF Inv, Shape
  <1>3. Place'
    BY <1>1 DEF Inv, Place
  <1>4. FileTrue'
    BY <1>1, FileStays DEF Inv
  <1>5. RoundTrip'
    <2>1. RoundTrip /\ stage = "load"
      BY <1>1 DEF Inv
    <2> QED BY <1>1, <2>1 DEF RoundTrip, Complete, Restored
  <1>6. RefusedDump'
    BY <1>1 DEF RefusedDump
  <1> QED BY <1>2, <1>3, <1>4, <1>5, <1>6 DEF Inv

\* Every step keeps the invariant.
LEMMA NextInv == Inv /\ [Next]_vars => Inv'
  <1> SUFFICES ASSUME Inv, [Next]_vars PROVE Inv'
    OBVIOUS
  <1>1. CASE Next
    BY <1>1, DumpParmStep, DumpEndStep, EditStep, WriteFileStep, SkipParmStep, RefuseParmStep,
       WriteParmStep, WriteEndStep DEF Next
  <1>2. CASE UNCHANGED vars
    <2>1. UNCHANGED <<list, fmt, dont_interpret, bms, orig, file, edited, pos, stage>>
      BY <1>2 DEF vars
    <2>2. Shape'
      BY <2>1 DEF Inv, Shape
    <2>3. Place'
      BY <2>1 DEF Inv, Place
    <2>4. FileTrue'
      BY <2>1, FileStays DEF Inv
    <2>5. RoundTrip'
      BY <2>1 DEF Inv, RoundTrip, Complete, Restored
    <2>6. RefusedDump'
      BY <2>1 DEF Inv, RefusedDump, Entry
    <2> QED BY <2>2, <2>3, <2>4, <2>5, <2>6 DEF Inv
  <1> QED BY <1>1, <1>2

\* The file stays true to the list, and to what was dumped until it is edited, for any
\* settings file.
THEOREM ParamsInvariant == Spec => []Inv
  <1>1. Init => Inv
    BY InitInv
  <1>2. Inv /\ [Next]_vars => Inv'
    BY NextInv
  <1> QED BY <1>1, <1>2, PTL DEF Spec

\* Writing back an unedited file restores every parameter the writer has passed that the
\* file says all about, whatever the registers held meanwhile.
THEOREM RoundTripRestores == Spec => []RoundTrip
  <1>1. Inv => RoundTrip
    BY DEF Inv
  <1> QED BY <1>1, ParamsInvariant, PTL

\* write_parm() refuses a value of an unedited file in two cases only.
THEOREM DumpsRefused == Spec => []RefusedDump
  <1>1. Inv => RefusedDump
    BY DEF Inv
  <1> QED BY <1>1, ParamsInvariant, PTL

-----------------------------------------------------------------------------
(* Masks from edited files. *)

\* A mask has the bits of these words, all of them in the table, and no others.  (MaskOf.)
MaskOfWords(dt, m, words) ==
    /\ words # {} /\ words \ {Separators} \subseteq ToSet(Bits(dt))
    /\ m[1] = 0
    /\ \A b \in 1..8 : HasBit(m[2], b) <=> Bits(dt)[b] \in words

MaskFrom(dt, m, v) == IF v.kind \in {"num", "bool"} THEN Unsigned(m) = v.n
                      ELSE \E words \in Taken(v) : MaskOfWords(dt, m, words)

\* The set of a sequence that is not empty is not.
LEMMA SomeMember ==
    ASSUME NEW A, NEW s \in Seq(A), s # <<>>
    PROVE  ToSet(s) # {}
  <1>1. Len(s) \in Nat /\ DOMAIN s = 1..Len(s) /\ Len(s) # 0
    OBVIOUS
  <1>2. s[1] \in ToSet(s)
    BY <1>1 DEF ToSet
  <1> QED BY <1>2

\* Some of the words, up to a place in the value.
LEMMA PartlyTaken ==
    ASSUME NEW words, IsWords(words), NEW S, S # {}, Partly(words, S),
           Short(words) => S = Upto(words, Len(words))
    PROVE  S \in IF Short(words) THEN {Upto(words, Len(words))}
                 ELSE UNION {{Upto(words, n)} \cup
                                {Upto(words, n - 1) \cup {SubSeq(words[n], 1, j)} :
                                   j \in 1..Len(words[n])} : n \in 1..Len(words)}
  <1> DEFINE At(n) == {Upto(words, n)} \cup
                         {Upto(words, n - 1) \cup {SubSeq(words[n], 1, j)} :
                            j \in 1..Len(words[n])}
  <1>1. Len(words) \in Nat
    BY DEF IsWords
  <1>2. Upto(words, 0) = {}
    BY DEF Upto
  <1>3. ASSUME NEW n \in 0..Len(words), S = Upto(words, n) PROVE \E k \in 1..Len(words) : S \in At(k)
    <2>1. n \in 1..Len(words)
      BY <1>1, <1>2, <1>3
    <2> QED BY <1>3, <2>1
  <1>4. ASSUME NEW n \in 1..Len(words), CutAt(words, n, S)
        PROVE  \E k \in 1..Len(words) : S \in At(k)
    <2>1. CASE S = Upto(words, n - 1)
      <3>1. n - 1 \in 0..Len(words)
        BY <1>1
      <3> QED BY <1>3, <2>1, <3>1
    <2>2. CASE \E j \in 1..Len(words[n]) : S = Upto(words, n - 1) \cup {SubSeq(words[n], 1, j)}
      BY <2>2
    <2> QED BY <1>4, <2>1, <2>2 DEF CutAt
  <1>5. \E k \in 1..Len(words) : S \in At(k)
    <2>1. Len(words) \in 0..Len(words)
      BY <1>1
    <2> QED BY <1>3, <1>4, <2>1 DEF Partly
  <1>6. S \in UNION {At(n) : n \in 1..Len(words)}
    <2> HIDE DEF At
    <2> QED BY <1>5
  <1> QED BY <1>6

\* parse_bits() gets some of the words of a value, as far as the readers take it.
LEMMA TakenWords ==
    ASSUME NEW v, v.kind \in {"names", "text"}, IsWords(v.names), fmt \in {"json", "text"},
           Loaded(v).names # <<>>
    PROVE  ToSet(Loaded(v).names) # {} /\ ToSet(Loaded(v).names) \in Taken(v)
  <1> DEFINE S == ToSet(Loaded(v).names)
             words == IF v.kind = "text" THEN FirstWord(v.names) ELSE v.names
  <1>1. CASE fmt = "json" /\ v.kind = "text"
    <2>1. Loaded(v) = v
      BY <1>1 DEF Loaded
    <2>2. v.names \in Seq(ToSet(v.names))
      BY DEF IsWords
    <2>3. S # {}
      BY <2>1, <2>2, SomeMember
    <2> QED BY <1>1, <2>1, <2>3 DEF Taken
  <1>2. CASE ~(fmt = "json" /\ v.kind = "text")
    <2>1. Loaded(v).names = Join(words)
      <3>1. CASE v.kind = "names"
        BY <3>1, LoadedAsIs
      <3>2. CASE v.kind = "text"
        <4>1. fmt = "text"
          BY <1>2, <3>2
        <4>2. Loaded(v) = Text(Join(FirstWord(v.names)))
          BY <3>2, <4>1 DEF Loaded
        <4> QED BY <3>2, <4>2 DEF Text
      <3> QED BY <3>1, <3>2
    <2>2. IsWords(words)
      <3>1. IsWords(FirstWord(v.names))
        <4>1. CASE v.names = <<>>
          BY <4>1 DEF FirstWord
        <4>2. CASE v.names # <<>>
          <5>1. v.names \in Seq(ToSet(v.names)) /\ 1 \in 1..Len(v.names) /\ Head(v.names) = v.names[1]
            <6>1. v.names \in Seq(ToSet(v.names))
              BY DEF IsWords
            <6>2. Len(v.names) \in Nat /\ Len(v.names) # 0
              BY <4>2, <6>1
            <6> QED BY <6>1, <6>2
          <5>2. Len(v.names[1]) \in Nat \ {0}
            BY <5>1 DEF IsWords
          <5> DEFINE x == v.names[1]
          <5>3. FirstWord(v.names) = <<x>>
            BY <4>2, <5>1 DEF FirstWord
          <5> HIDE DEF x
          <5>4. Len(x) \in Nat \ {0}
            BY <5>2 DEF x
          <5>5. <<x>> \in Seq(ToSet(<<x>>)) /\ Len(<<x>>) = 1 /\ <<x>>[1] = x
            <6>1. DOMAIN <<x>> = {1} /\ <<x>>[1] = x /\ Len(<<x>>) = 1
              OBVIOUS
            <6>2. ToSet(<<x>>) = {x}
              BY <6>1 DEF ToSet
            <6> QED BY <6>1, <6>2
          <5>6. \A i \in 1..1 : i = 1
            OBVIOUS
          <5>7. IsWords(<<x>>)
            BY <5>4, <5>5, <5>6 DEF IsWords
          <5> QED BY <5>3, <5>7
        <4> QED BY <4>1, <4>2
      <3> QED BY <3>1
    <2> HIDE DEF words
    <2>3. /\ Join(words) \in Seq(Pieces(words)) /\ Partly(words, S)
          /\ Short(words) => S = Upto(words, Len(words))
      BY <2>1, <2>2, JoinTakes
    <2>4. S # {}
      BY <2>1, <2>3, SomeMember
    <2> HIDE DEF S
    <2>5. S \in IF Short(words) THEN {Upto(words, Len(words))}
                ELSE UNION {{Upto(words, n)} \cup
                               {Upto(words, n - 1) \cup {SubSeq(words[n], 1, j)} :
                                  j \in 1..Len(words[n])} : n \in 1..Len(words)}
      BY <2>2, <2>3, <2>4, PartlyTaken
    <2>6. S \in Taken(v)
      BY <1>2, <2>5 DEF Taken, words
    <2> QED BY <2>4, <2>6 DEF S
  <1> QED BY <1>1, <1>2

\* parse_bits() takes a number or all of the names it gets, or nothing.
LEMMA ParsedMask ==
    ASSUME NEW dt \in Masks, NEW v, v.kind \in {"num", "bool", "names", "text", "null"},
           v.kind \in {"names", "text"} => IsWords(v.names),
           parse_bits(dt, Loaded(v)) # -1,
           fmt \in {"json", "text"}, ~(fmt = "json" /\ v.kind = "null"),
           NEW m, m = PutShort(parse_bits(dt, Loaded(v)))
    PROVE  MaskFrom(dt, m, v)
  <1>1. ASSUME NEW u, u.kind = "num", parse_bits(dt, u) # -1
        PROVE  u.n \in Nat /\ u.n < 65536 /\ parse_bits(dt, u) = u.n
    <2>1. parse_bits(dt, u) = IF u.n \in MaskRange THEN u.n ELSE -1
      BY <1>1 DEF parse_bits
    <2>2. u.n \in MaskRange
      BY <1>1, <2>1
    <2> QED BY <2>1, <2>2, InMaskRange
  <1>2. ASSUME NEW u, u.kind = "num", parse_bits(dt, u) # -1
        PROVE  Unsigned(PutShort(parse_bits(dt, u))) = u.n
    <2>1. u.n \in Nat /\ u.n < 65536 /\ parse_bits(dt, u) = u.n
      BY <1>1, <1>2
    <2> QED BY <2>1, PutShortReads
  <1>3. ASSUME NEW u, u.kind # "num", parse_bits(dt, u) # -1
        PROVE  /\ Known(dt, u.names) /\ parse_bits(dt, u) = NamedMask(dt, u.names)
               /\ u.names # <<>>
    BY <1>3 DEF parse_bits
  <1>4. \A w \in {"true", "false", "null"} : ~Known(dt, <<w>>)
    <2> SUFFICES ASSUME NEW w \in {"true", "false", "null"}, Known(dt, <<w>>) PROVE FALSE
      OBVIOUS
    <2>1. ToSet(<<w>>) = {w}
      <3>1. DOMAIN <<w>> = {1} /\ <<w>>[1] = w
        OBVIOUS
      <3> QED BY <3>1 DEF ToSet
    <2>2. ToSet(Bits(dt)) = {Bits(dt)[b] : b \in 1..8}
      BY Tables DEF ToSet
    <2>3. w = Separators \/ \E b \in 1..8 : w = Bits(dt)[b]
      BY <2>1, <2>2 DEF Known
    <2> QED BY <2>3, Tables DEF Separators, NoNames
  <1>5. CASE v.kind = "num"
    <2>1. Loaded(v) = v
      BY <1>5, LoadedAsIs
    <2> QED BY <1>2, <1>5, <2>1 DEF MaskFrom
  <1>6. CASE v.kind = "bool"
    <2>1. Num(v.n).kind = "num" /\ Num(v.n).n = v.n
      BY DEF Num
    <2>2. \/ Loaded(v) = Num(v.n)
          \/ Loaded(v) = Names(<<"true">>) \/ Loaded(v) = Names(<<"false">>)
      <3>1. CASE fmt = "json"
        BY <1>6, <3>1 DEF Loaded
      <3>2. CASE fmt = "text"
        BY <1>6, <3>2 DEF Loaded
      <3> QED BY <3>1, <3>2
    <2>3. Names(<<"true">>).kind # "num" /\ Names(<<"true">>).names = <<"true">>
          /\ Names(<<"false">>).kind # "num" /\ Names(<<"false">>).names = <<"false">>
      BY DEF Names
    <2>4. Loaded(v) = Num(v.n)
      BY <1>3, <1>4, <2>2, <2>3
    <2> QED BY <1>2, <1>6, <2>1, <2>4 DEF MaskFrom
  <1>7. CASE v.kind = "null"
    <2>1. Loaded(v) = Names(<<"null">>)
      BY <1>7 DEF Loaded
    <2>2. Names(<<"null">>).kind # "num" /\ Names(<<"null">>).names = <<"null">>
      BY DEF Names
    <2> QED BY <1>3, <1>4, <2>1, <2>2
  <1>8. CASE v.kind \in {"names", "text"}
    <2> DEFINE u == Loaded(v)
               c == NamedMask(dt, u.names)
               S == ToSet(u.names)
    <2>1. u.kind # "num"
      <3>1. CASE v.kind = "names"
        BY <3>1, LoadedAsIs
      <3>2. CASE v.kind = "text"
        <4>1. Loaded(v) = v \/ Loaded(v) = Text(Join(FirstWord(v.names)))
          BY <3>2 DEF Loaded
        <4> QED BY <3>2, <4>1 DEF Text
      <3> QED BY <1>8, <3>1, <3>2
    <2>2. Known(dt, u.names) /\ parse_bits(dt, u) = c /\ u.names # <<>>
      BY <1>3, <2>1
    <2>3. c \in 0..255 /\ \A b \in 1..8 : HasBit(c, b) <=> Bits(dt)[b] \in S
      BY MaskHasNames
    <2>4. m = <<0, c>>
      <3> HIDE DEF c
      <3> QED BY <2>2, <2>3, PutShortLow
    <2>5. m[1] = 0 /\ m[2] = c
      BY <2>4
    <2>6. S # {} /\ S \in Taken(v)
      BY <1>8, <2>2, TakenWords
    <2>7. S \ {Separators} \subseteq ToSet(Bits(dt))
      BY <2>2 DEF Known
    <2> HIDE DEF c, S
    <2>8. MaskOfWords(dt, m, S)
      BY <2>3, <2>5, <2>6, <2>7 DEF MaskOfWords
    <2> QED BY <1>8, <2>6, <2>8 DEF MaskFrom
  <1> QED BY <1>5, <1>6, <1>7, <1>8

\* A mask the writer sends is the number in the file or exactly the bits named as far as
\* the reader took the list, also when the file was edited: a name among these that is not
\* in the table refuses the value.
THEOREM MasksFromNames == Spec => MaskFromNames
  <1> DEFINE Good(k) == WritesMask(k) =>
                          IF GivenNumber(k) THEN NumberKept(k)
                          ELSE \E words \in Taken(file[k].value) :
                                  words # {} /\ MaskOf(k, words)
  <1>1. ASSUME Inv, WritesMask(pos) PROVE Good(pos)
    <2> DEFINE p == file[pos].parm
               v == file[pos].value
               r == p.reg
    <2>1. /\ stage = "load" /\ pos <= Len(file) /\ ~Skipped /\ ~Refused /\ p.dt \in Masks
          /\ \E data \in SentBytes(p.dt, Loaded(v), bms[r]) : bms' = [bms EXCEPT ![r] = data]
      BY <1>1 DEF WritesMask, write_parm, Pending, Entry
    <2>2. p = list[pos] /\ pos \in 1..Len(list)
      BY <1>1, <2>1, EntryFacts DEF Entry
    <2>3. r \in DOMAIN bms
      <3>1. bms = [q \in Regs(list) |-> bms[q]]
        BY <1>1 DEF Inv, Shape
      <3>2. r \in Regs(list)
        BY <1>1, <2>2, FileFacts
      <3> QED BY <3>1, <3>2
    <2>4. /\ fmt \in {"json", "text"} /\ ~(fmt = "json" /\ v.kind = "null")
          /\ parse_bits(p.dt, Loaded(v)) # -1
      BY <1>1, <2>1 DEF Inv, Shape, Skipped, Refused, Entry
    <2>5. /\ v.kind \in {"num", "bool", "names", "text", "null"}
          /\ v.kind \in {"names", "text"} => IsWords(v.names)
      <3>1. CASE pos = edited
        <4>1. v \in Edits
          BY <1>1, <2>1, <3>1, EntryFacts DEF Entry
        <4> QED BY <4>1, EditsAssumption
      <3>2. CASE pos # edited
        <4>1. Shows(p.dt, orig[r], v)
          BY <1>1, <2>1, <2>2, <3>2, EntryFacts DEF Entry
        <4> HIDE DEF p, v, r
        <4>2. v.kind = "num" \/ NamesShown(p.dt, orig[r], v)
          BY <2>1, <4>1 DEF Shows, Num
        <4> QED BY <4>2 DEF NamesShown
      <3> QED BY <3>1, <3>2
    <2> HIDE DEF p, v, r
    <2>6. bms'[r] = PutShort(parse_bits(p.dt, Loaded(v)))
      <3>1. SentBytes(p.dt, Loaded(v), bms[r]) = {PutShort(parse_bits(p.dt, Loaded(v)))}
        BY <2>1, SentMask
      <3> QED BY <2>1, <2>3, <3>1
    <2>7. MaskFrom(p.dt, bms'[r], v)
      BY <2>1, <2>4, <2>5, <2>6, ParsedMask
    <2>8. \A words : MaskOfWords(p.dt, bms'[r], words) => words # {} /\ MaskOf(pos, words)
      BY DEF MaskOfWords, MaskOf, p, r
    <2> QED BY <2>7, <2>8 DEF MaskFrom, GivenNumber, NumberKept, p, v, r
  <1>2. Inv => \A k \in 1..Len(file) : Good(k)
    <2> SUFFICES ASSUME Inv, NEW k \in 1..Len(file) PROVE Good(k)
      OBVIOUS
    <2>1. CASE WritesMask(k)
      <3>1. k = pos
        BY <2>1 DEF WritesMask
      <3> QED BY <1>1, <2>1, <3>1
    <2>2. CASE ~WritesMask(k)
      BY <2>2
    <2> QED BY <2>1, <2>2
  <1> HIDE DEF Good
  <1>3. Inv => (\A k \in 1..Len(file) : WritesMask(k) =>
                   IF GivenNumber(k) THEN NumberKept(k)
                   ELSE \E words \in Taken(file[k].value) : words # {} /\ MaskOf(k, words))
    BY <1>2 DEF Good
  <1> QED BY <1>3, ParamsInvariant, PTL DEF MaskFromNames
=============================================================================
