----------------------------- MODULE StreamProofs -----------------------------
(***************************************************************************)
(* Theorems about Frame and Stream, for every set of requests, every data, *)
(* buffer and number of faults.                                            *)
(*                                                                         *)
(* jbd_verify accepts exactly the replies.  The bytes of a frame are       *)
(* bytes: for its checksum that takes an induction over the data.  What    *)
(* ip_read has gathered and what the kernel holds are one sequence: buf is *)
(* empty outside of a read and always on serial (GatheredInRead), and      *)
(* nothing waits in a transport that is closed (ClosedEmpty).              *)
(***************************************************************************)
EXTENDS Stream, SequenceTheorems, WellFoundedInduction, TLAPS

-----------------------------------------------------------------------------
(* Induction over the natural numbers, from the fact that a set of them has *)
(* a least one.                                                             *)

Below == {ss \in Nat \X Nat : ss[1] < ss[2]}

\* Each set of numbers that is not empty has a least element.
LEMMA NatLess == IsWellFoundedOn(Below, Nat)
  BY NatLessThanWellFounded DEF Below, OpToRel

\* The relation is that of the numbers.
LEMMA BelowIsLess == \A a, b \in Nat : <<a, b>> \in Below <=> a < b
  <1> TAKE a, b \in Nat
  <1>1. <<a, b>> \in Nat \X Nat /\ <<a, b>>[1] = a /\ <<a, b>>[2] = b
    OBVIOUS
  <1> QED BY <1>1 DEF Below

\* A set that has 0, and with a number the next, has all.
LEMMA SetInduction ==
    ASSUME NEW S, 0 \in S, \A n \in Nat : n \in S => n + 1 \in S
    PROVE  Nat \subseteq S
  <1> SUFFICES ASSUME NEW x \in Nat, x \notin S PROVE FALSE
    OBVIOUS
  <1> DEFINE T == Nat \ S
  <1>1. PICK m \in T : \A y \in T : ~(<<y, m>> \in Below)
    <2>1. T \subseteq Nat /\ T # {}
      OBVIOUS
    <2> HIDE DEF T
    <2> QED BY NatLess, WFMin, <2>1
  <1>2. m \in Nat /\ m # 0
    BY <1>1
  <1>3. m - 1 \in Nat /\ (m - 1) + 1 = m
    BY <1>2
  <1>4. m - 1 \in S
    <2>1. <<m - 1, m>> \in Below
      BY <1>2, <1>3, BelowIsLess
    <2> QED BY <1>1, <1>3, <2>1
  <1> QED BY <1>1, <1>3, <1>4


-----------------------------------------------------------------------------
(* The checksum. *)

\* The values of sixteen bits.  (Written as 0..65535 it is too long for the provers.)
Short == {c \in Nat : c < 65536}

\* What an unsigned short holds after a subtraction.
LEMMA Wraps == \A a, b \in Int : (a - b) % 65536 \in Short
  BY DEF Short

\* f is the loop of jbd_crc() over the first m bytes of s.
CrcLoop(f, m, s) == /\ f \in [0..m -> Short]
                    /\ f[0] = 0
                    /\ \A n \in 1..m : f[n] = (f[n - 1] - s[n]) % 65536

\* The loop can be run over any number of bytes: a round more extends it.
LEMMA CrcLoopExists ==
    ASSUME NEW s \in Seq(Nat), NEW m \in Nat, m <= Len(s)
    PROVE  \E f : CrcLoop(f, m, s)
  <1> DEFINE Done == {k \in Nat : k <= Len(s) => \E f : CrcLoop(f, k, s)}
  <1>1. Len(s) \in Nat /\ \A n \in 1..Len(s) : s[n] \in Nat
    BY LenProperties, ElementOfSeq
  <1>2. 0 \in Done
    <2> DEFINE z == [n \in 0..0 |-> 0]
    <2>1. CrcLoop(z, 0, s)
      BY DEF CrcLoop, Short
    <2> HIDE DEF z
    <2> QED BY <2>1
  <1>3. ASSUME NEW k \in Nat, k \in Done PROVE k + 1 \in Done
    <2> SUFFICES ASSUME k + 1 <= Len(s) PROVE \E f : CrcLoop(f, k + 1, s)
      OBVIOUS
    <2>1. PICK f : CrcLoop(f, k, s)
      BY <1>1, <1>3
    <2>2. /\ f \in [0..k -> Short] /\ f[0] = 0
          /\ \A n \in 1..k : f[n] = (f[n - 1] - s[n]) % 65536
      BY <2>1 DEF CrcLoop
    <2> DEFINE v == (f[k] - s[k + 1]) % 65536
               g == [n \in 0..(k + 1) |-> IF n = k + 1 THEN v ELSE f[n]]
    <2>3. v \in Short
      <3>1. f[k] \in Int /\ s[k + 1] \in Int
        BY <1>1, <2>2 DEF Short
      <3> QED BY <3>1, Wraps
    <2>4. /\ g \in [0..(k + 1) -> Short]
          /\ \A n \in 0..k : g[n] = f[n]
          /\ g[k + 1] = (f[k] - s[k + 1]) % 65536
      <3> HIDE DEF v
      <3>1. /\ g \in [0..(k + 1) -> Short]
            /\ \A n \in 0..k : g[n] = f[n]
            /\ g[k + 1] = v
        BY <2>2, <2>3
      <3> QED BY <3>1 DEF v
    <2> HIDE DEF g
    <2>5. CrcLoop(g, k + 1, s)
      <3>1. ASSUME NEW n \in 1..(k + 1) PROVE g[n] = (g[n - 1] - s[n]) % 65536
        <4>1. CASE n = k + 1
          BY <2>4, <4>1
        <4>2. CASE n \in 1..k
          BY <2>2, <2>4, <4>2
        <4> QED BY <4>1, <4>2
      <3> QED BY <2>2, <2>4, <3>1 DEF CrcLoop
    <2> QED BY <2>5
  <1>4. Nat \subseteq Done
    <2> HIDE DEF Done
    <2> QED BY <1>2, <1>3, SetInduction
  <1> QED BY <1>4

\* jbd_crc() is what such a loop ends with.
LEMMA CrcRange ==
    ASSUME NEW s \in Seq(Nat)
    PROVE  jbd_crc(s) \in Short
  <1> DEFINE Step(f) == [n \in 0..Len(s) |-> IF n = 0 THEN 0 ELSE (f[n - 1] - s[n]) % 65536]
             crc == CHOOSE f : f = Step(f)
  <1>1. Len(s) \in Nat /\ \A n \in 1..Len(s) : s[n] \in Nat
    BY LenProperties, ElementOfSeq
  <1>2. crc = Step(crc)
    <2>1. PICK f : CrcLoop(f, Len(s), s)
      BY <1>1, CrcLoopExists
    <2>2. f = Step(f)
      BY <1>1, <2>1 DEF CrcLoop
    <2> HIDE DEF Step
    <2> QED BY <2>2
  <1>3. jbd_crc(s) = crc[Len(s)]
    BY DEF jbd_crc
  <1> HIDE DEF crc
  <1>4. crc[0] = 0 /\ \A n \in 1..Len(s) : crc[n] = (crc[n - 1] - s[n]) % 65536
    <2>1. ASSUME NEW n \in 0..Len(s)
          PROVE  crc[n] = IF n = 0 THEN 0 ELSE (crc[n - 1] - s[n]) % 65536
      <3>1. crc[n] = Step(crc)[n]
        <4> HIDE DEF Step
        <4> QED BY <1>2
      <3> QED BY <3>1
    <2> QED BY <1>1, <2>1
  <1> DEFINE In == {m \in Nat : m <= Len(s) => crc[m] \in Short}
  <1>5. 0 \in In
    BY <1>4 DEF Short
  <1>6. ASSUME NEW m \in Nat, m \in In PROVE m + 1 \in In
    <2> SUFFICES ASSUME m + 1 <= Len(s) PROVE crc[m + 1] \in Short
      OBVIOUS
    <2>1. crc[m] \in Int /\ s[m + 1] \in Int
      BY <1>1, <1>6 DEF Short
    <2>2. crc[m + 1] = (crc[m] - s[m + 1]) % 65536
      <3>1. m + 1 \in 1..Len(s) /\ (m + 1) - 1 = m
        BY <1>1
      <3> QED BY <1>4, <3>1
    <2> QED BY <2>1, <2>2, Wraps
  <1>7. Nat \subseteq In
    <2> HIDE DEF In
    <2> QED BY <1>5, <1>6, SetInduction
  <1> QED BY <1>1, <1>3, <1>7

-----------------------------------------------------------------------------
(* Frames. *)

\* Bytes are numbers.
LEMMA ByteIsNat == Byte \subseteq Nat
  BY DEF Byte

\* A byte is a number below 256.
LEMMA Bytes8 == \A n \in Nat : n < 256 <=> n \in Byte
  BY DEF Byte

\* The two halves of a checksum are bytes, and make it up.
LEMMA Halves == \A c \in Short : /\ c \div 256 \in Byte /\ c % 256 \in Byte
                                 /\ Word(c \div 256, c % 256) = c
  <1> TAKE c \in Short
  <1>1. c \in Nat /\ c < 65536
    BY DEF Short
  <1>2. c \div 256 \in Nat /\ c \div 256 < 256 /\ c % 256 \in Nat /\ c % 256 < 256
    BY <1>1
  <1> DEFINE q == c \div 256
             r == c % 256
  <1>3. 256 * q + r = c
    BY <1>1
  <1>4. q \in Nat /\ q < 256 /\ r \in Nat /\ r < 256
    BY <1>2
  <1> HIDE DEF q, r
  <1>5. q \in Byte /\ r \in Byte
    BY <1>4, Bytes8
  <1>6. Word(q, r) = c
    BY <1>3, <1>4 DEF Word
  <1> QED BY <1>5, <1>6 DEF q, r

\* The halves of a number are its only ones.
LEMMA HalvesOnly ==
    ASSUME NEW hi \in Byte, NEW lo \in Byte, NEW c \in Short, Word(hi, lo) = c
    PROVE  hi = c \div 256 /\ lo = c % 256
  <1>1. /\ hi \in Nat /\ hi < 256 /\ lo \in Nat /\ lo < 256 /\ c \in Nat
        /\ hi * 256 + lo = c
    BY DEF Byte, Short, Word
  <1> QED BY <1>1

\* f is START or what stands for it, the byte after it, and s with its checksum.
IsClosed(f, a, b, s, n) ==
    /\ f \in Seq(Byte) /\ Len(f) = n + 5
    /\ f[1] = a /\ f[2] = b
    /\ \A i \in 1..n : f[i + 2] = s[i]
    /\ f[n + 3] = jbd_crc(s) \div 256
    /\ f[n + 4] = jbd_crc(s) % 256
    /\ f[n + 5] = END

\* A frame byte by byte.
LEMMA ClosedFrame ==
    ASSUME NEW a \in Byte, NEW b \in Byte, NEW s \in Seq(Byte)
    PROVE  IsClosed(Closed(a, b, s), a, b, s, Len(s))
  <1> DEFINE head == <<a, b>>
             hi   == jbd_crc(s) \div 256
             lo   == jbd_crc(s) % 256
             tail == <<hi, lo, END>>
             n    == Len(s)
  <1>1. head \in Seq(Byte) /\ Len(head) = 2 /\ head[1] = a /\ head[2] = b
    OBVIOUS
  <1>2. n \in Nat /\ s \in Seq(Byte)
    BY LenProperties
  <1>3. hi \in Byte /\ lo \in Byte /\ END \in Byte
    <2>1. s \in Seq(Nat)
      BY SeqMonotonic, ByteIsNat
    <2>2. END \in Byte
      BY Bytes8 DEF END
    <2> QED BY <2>1, <2>2, CrcRange, Halves
  <1> HIDE DEF head, hi, lo, n
  <1>4. tail \in Seq(Byte) /\ Len(tail) = 3 /\ tail[1] = hi /\ tail[2] = lo /\ tail[3] = END
    BY <1>3
  <1> HIDE DEF tail
  <1>5. /\ head \o s \in Seq(Byte) /\ Len(head \o s) = n + 2
        /\ (head \o s)[1] = a /\ (head \o s)[2] = b
        /\ \A i \in 1..n : (head \o s)[i + 2] = s[i]
    <2>1. /\ head \o s \in Seq(Byte) /\ Len(head \o s) = Len(head) + Len(s)
          /\ \A i \in 1..(Len(head) + Len(s)) :
                (head \o s)[i] = IF i <= Len(head) THEN head[i] ELSE s[i - Len(head)]
      BY <1>1, <1>2, ConcatProperties
    <2> QED BY <1>1, <1>2, <2>1 DEF n
  <1> DEFINE front == head \o s
             f     == front \o tail
  <1> HIDE DEF front
  <1>6. /\ front \in Seq(Byte) /\ Len(front) = n + 2
        /\ front[1] = a /\ front[2] = b
        /\ \A i \in 1..n : front[i + 2] = s[i]
    BY <1>5 DEF front
  <1>7. /\ f \in Seq(Byte) /\ Len(f) = Len(front) + Len(tail)
        /\ \A i \in 1..(Len(front) + Len(tail)) :
              f[i] = IF i <= Len(front) THEN front[i] ELSE tail[i - Len(front)]
    BY <1>4, <1>6, ConcatProperties
  <1>8. Closed(a, b, s) = f
    BY DEF Closed, f, front, head, tail, hi, lo
  <1> HIDE DEF f
  <1>9. /\ f[1] = a /\ f[2] = b
        /\ \A i \in 1..n : f[i + 2] = s[i]
    <2>1. \A i \in 1..(n + 2) : f[i] = front[i]
      BY <1>2, <1>4, <1>6, <1>7
    <2>2. 1 \in 1..(n + 2) /\ 2 \in 1..(n + 2) /\ \A i \in 1..n : i + 2 \in 1..(n + 2)
      BY <1>2
    <2> QED BY <1>6, <2>1, <2>2
  <1>10. f[n + 3] = hi /\ f[n + 4] = lo /\ f[n + 5] = END
    <2>1. \A i \in 1..3 : f[n + 2 + i] = tail[i]
      <3> TAKE i \in 1..3
      <3> DEFINE j == n + 2 + i
      <3>1. j \in 1..(Len(front) + Len(tail)) /\ ~(j <= Len(front)) /\ j - Len(front) = i
        BY <1>2, <1>4, <1>6
      <3> HIDE DEF j
      <3>2. f[j] = tail[i]
        BY <1>7, <3>1
      <3> QED BY <3>2 DEF j
    <2>2. f[n + 2 + 1] = hi /\ f[n + 2 + 2] = lo /\ f[n + 2 + 3] = END
      BY <1>4, <2>1
    <2>3. n + 2 + 1 = n + 3 /\ n + 2 + 2 = n + 4 /\ n + 2 + 3 = n + 5
      BY <1>2
    <2> QED BY <2>2, <2>3
  <1>11. f \in Seq(Byte) /\ Len(f) = n + 5
    BY <1>2, <1>4, <1>6, <1>7
  <1> QED BY <1>8, <1>9, <1>10, <1>11 DEF n, hi, lo, IsClosed

\* s is a, the number of bytes of d, and d.
IsSummed(s, a, d, n) == /\ s \in Seq(Byte) /\ Len(s) = n + 2
                        /\ s[1] = a /\ s[2] = n
                        /\ \A i \in 1..n : s[i + 2] = d[i]

\* What the checksum is over: a byte, the length, the data.
LEMMA SummedPart ==
    ASSUME NEW a \in Byte, NEW d \in Seq(Byte), Len(d) < 256
    PROVE  IsSummed(<<a, Len(d)>> \o d, a, d, Len(d))
  <1> DEFINE h == <<a, Len(d)>>
  <1>1. Len(d) \in Nat /\ Len(d) \in Byte
    BY LenProperties, Bytes8
  <1>2. h \in Seq(Byte) /\ Len(h) = 2 /\ h[1] = a /\ h[2] = Len(d)
    BY <1>1
  <1> HIDE DEF h
  <1>3. /\ h \o d \in Seq(Byte) /\ Len(h \o d) = Len(h) + Len(d)
        /\ \A i \in 1..(Len(h) + Len(d)) :
              (h \o d)[i] = IF i <= Len(h) THEN h[i] ELSE d[i - Len(h)]
    BY <1>2, ConcatProperties
  <1>4. /\ (h \o d)[1] = a /\ (h \o d)[2] = Len(d)
        /\ \A i \in 1..Len(d) : (h \o d)[i + 2] = d[i]
    BY <1>1, <1>2, <1>3
  <1> QED BY <1>1, <1>2, <1>3, <1>4 DEF h, IsSummed

\* f is a reply with data d and checksum c.
IsReply(f, reg, status, d, n, c) ==
    /\ f \in Seq(Byte) /\ Len(f) = n + 7
    /\ f[1] = START /\ f[2] = reg /\ f[3] = status /\ f[4] = n
    /\ \A i \in 1..n : f[i + 4] = d[i]
    /\ f[n + 5] = c \div 256 /\ f[n + 6] = c % 256 /\ f[n + 7] = END

\* A reply byte by byte.
LEMMA ReplyFrame ==
    ASSUME NEW reg \in Byte, NEW status \in Byte, NEW d \in Seq(Byte), Len(d) < 256
    PROVE  IsReply(Reply(reg, status, d), reg, status, d, Len(d),
                   jbd_crc(<<status, Len(d)>> \o d))
  <1> DEFINE s == <<status, Len(d)>> \o d
             f == Closed(START, reg, s)
             n == Len(d)
  <1>1. START \in Byte /\ n \in Nat
    BY Bytes8, LenProperties DEF START
  <1>2. /\ s \in Seq(Byte) /\ Len(s) = n + 2
        /\ s[1] = status /\ s[2] = n /\ \A i \in 1..n : s[i + 2] = d[i]
    BY SummedPart DEF IsSummed
  <1>3. Reply(reg, status, d) = f
    BY DEF Reply
  <1> HIDE DEF s, n
  <1>4. /\ f \in Seq(Byte) /\ Len(f) = Len(s) + 5
        /\ f[1] = START /\ f[2] = reg
        /\ \A i \in 1..Len(s) : f[i + 2] = s[i]
        /\ f[Len(s) + 3] = jbd_crc(s) \div 256
        /\ f[Len(s) + 4] = jbd_crc(s) % 256
        /\ f[Len(s) + 5] = END
    <2>1. IsClosed(Closed(START, reg, s), START, reg, s, Len(s))
      BY <1>1, <1>2, ClosedFrame
    <2> QED BY <2>1 DEF IsClosed
  <1> HIDE DEF f
  <1>5. f[3] = status /\ f[4] = n
    <2>1. f[1 + 2] = s[1] /\ f[2 + 2] = s[2]
      BY <1>1, <1>2, <1>4
    <2> QED BY <1>2, <2>1
  <1>6. \A i \in 1..n : f[i + 4] = d[i]
    <2>1. ASSUME NEW i \in 1..n PROVE f[i + 4] = d[i]
      <3>1. i + 2 \in 1..Len(s) /\ (i + 2) + 2 = i + 4
        BY <1>1, <1>2
      <3> QED BY <1>2, <1>4, <3>1
    <2> QED BY <2>1
  <1>7. n + 2 + 3 = n + 5 /\ n + 2 + 4 = n + 6 /\ n + 2 + 5 = n + 7
    BY <1>1
  <1> QED BY <1>2, <1>3, <1>4, <1>5, <1>6, <1>7 DEF n, s, IsReply

\* jbd_verify() lets through what is a reply to this register, whole and nothing
\* more, with any status and any data, and nothing else.
THEOREM VerifyAcceptsReplies ==
    ASSUME NEW s \in Seq(Byte), NEW reg \in Byte
    PROVE  jbd_verify(s, reg) <=>
              \E status \in Byte, d \in Seq(Byte) : Len(d) < 256 /\ s = Reply(reg, status, d)
  <1>1. ASSUME NEW status \in Byte, NEW d \in Seq(Byte), Len(d) < 256, s = Reply(reg, status, d)
        PROVE  jbd_verify(s, reg)
    <2> DEFINE n == Len(d)
               sum == <<status, n>> \o d
    <2>1. n \in Nat
      BY LenProperties
    <2>2. /\ sum \in Seq(Byte) /\ Len(sum) = n + 2
          /\ sum[1] = status /\ sum[2] = n /\ \A i \in 1..n : sum[i + 2] = d[i]
      BY <1>1, SummedPart DEF IsSummed
    <2>3. /\ s \in Seq(Byte) /\ Len(s) = n + 7
          /\ s[1] = START /\ s[2] = reg /\ s[3] = status /\ s[4] = n
          /\ \A i \in 1..n : s[i + 4] = d[i]
          /\ s[n + 5] = jbd_crc(sum) \div 256 /\ s[n + 6] = jbd_crc(sum) % 256 /\ s[n + 7] = END
      <3>1. IsReply(Reply(reg, status, d), reg, status, d, Len(d), jbd_crc(<<status, Len(d)>> \o d))
        BY <1>1, ReplyFrame
      <3> QED BY <1>1, <3>1 DEF IsReply
    <2> HIDE DEF sum, n
    <2>4. SubSeq(s, 3, n + 4) = sum
      <3>1. \A i \in 3..(n + 4) : s[i] \in Byte
        BY <2>1, <2>3, ElementOfSeq
      <3> DEFINE u == SubSeq(s, 3, n + 4)
      <3>2. /\ u \in Seq(Byte)
            /\ Len(u) = (IF 3 <= n + 4 THEN n + 4 - 3 + 1 ELSE 0)
            /\ \A i \in 1..(n + 4 - 3 + 1) : u[i] = s[3 + i - 1]
        BY <2>1, <3>1, SubSeqProperties
      <3> HIDE DEF u
      <3>3. Len(u) = n + 2 /\ \A i \in 1..(n + 2) : u[i] = s[i + 2]
        BY <2>1, <3>2
      <3>4. \A i \in 1..(n + 2) : s[i + 2] = sum[i]
        <4>1. ASSUME NEW i \in 1..(n + 2) PROVE s[i + 2] = sum[i]
          <5>1. i = 1 \/ i = 2 \/ (i - 2 \in 1..n /\ (i - 2) + 4 = i + 2 /\ (i - 2) + 2 = i)
            BY <2>1
          <5> QED BY <2>2, <2>3, <5>1
        <4> QED BY <4>1
      <3>5. u = sum
        BY <2>2, <3>2, <3>3, <3>4, SeqEqual
      <3> QED BY <3>5 DEF u
    <2>5. sum \in Seq(Nat)
      BY <2>2, SeqMonotonic, ByteIsNat
    <2>6. Word(s[n + 5], s[n + 6]) = jbd_crc(sum)
      BY <2>3, <2>5, CrcRange, Halves
    <2>7. 5 + n = n + 5 /\ 6 + n = n + 6 /\ 7 + n = n + 7 /\ 4 + n = n + 4
          /\ n + 7 >= 7 /\ (n + 7) - 7 = n
      BY <2>1
    <2> QED BY <2>3, <2>4, <2>6, <2>7 DEF jbd_verify, OVERHEAD
  <1>2. ASSUME jbd_verify(s, reg)
        PROVE  \E status \in Byte, d \in Seq(Byte) : Len(d) < 256 /\ s = Reply(reg, status, d)
    <2> DEFINE n == s[4]
    <2>1. /\ Len(s) \in Nat /\ Len(s) >= 7 /\ \A i \in 1..Len(s) : s[i] \in Byte
      BY <1>2, LenProperties, ElementOfSeq DEF jbd_verify, OVERHEAD
    <2>2. /\ n \in Nat /\ n < 256 /\ Len(s) = n + 7
      <3>1. n \in Byte /\ n = Len(s) - 7
        BY <1>2, <2>1 DEF jbd_verify, OVERHEAD
      <3> QED BY <2>1, <3>1, ByteIsNat, Bytes8
    <2> DEFINE d == SubSeq(s, 5, n + 4)
               sum == <<s[3], n>> \o d
               r == Reply(reg, s[3], d)
    <2>3. d \in Seq(Byte) /\ Len(d) = n /\ \A i \in 1..n : d[i] = s[i + 4]
      <3> HIDE DEF n
      <3>1. \A i \in 5..(n + 4) : s[i] \in Byte
        BY <2>1, <2>2
      <3>2. /\ d \in Seq(Byte)
            /\ Len(d) = (IF 5 <= n + 4 THEN n + 4 - 5 + 1 ELSE 0)
            /\ \A i \in 1..(n + 4 - 5 + 1) : d[i] = s[5 + i - 1]
        BY <2>2, <3>1, SubSeqProperties
      <3> HIDE DEF d
      <3> QED BY <2>2, <3>2
    <2> HIDE DEF d
    <2>4. s[3] \in Byte
      BY <2>1
    <2>5. /\ sum \in Seq(Byte) /\ Len(sum) = n + 2
          /\ sum[1] = s[3] /\ sum[2] = n /\ \A i \in 1..n : sum[i + 2] = d[i]
      <3>1. IsSummed(<<s[3], Len(d)>> \o d, s[3], d, Len(d))
        BY <2>2, <2>3, <2>4, SummedPart
      <3> QED BY <2>3, <3>1 DEF IsSummed
    <2>6. /\ r \in Seq(Byte) /\ Len(r) = n + 7
          /\ r[1] = START /\ r[2] = reg /\ r[3] = s[3] /\ r[4] = n
          /\ \A i \in 1..n : r[i + 4] = d[i]
          /\ r[n + 5] = jbd_crc(sum) \div 256 /\ r[n + 6] = jbd_crc(sum) % 256 /\ r[n + 7] = END
      <3>1. IsReply(Reply(reg, s[3], d), reg, s[3], d, Len(d), jbd_crc(<<s[3], Len(d)>> \o d))
        BY <2>2, <2>3, <2>4, ReplyFrame
      <3> QED BY <2>3, <3>1 DEF IsReply
    <2>7. SubSeq(s, 3, n + 4) = sum
      <3> HIDE DEF n, sum
      <3>1. \A i \in 3..(n + 4) : s[i] \in Byte
        BY <2>1, <2>2
      <3> DEFINE u == SubSeq(s, 3, n + 4)
      <3>2. /\ u \in Seq(Byte)
            /\ Len(u) = (IF 3 <= n + 4 THEN n + 4 - 3 + 1 ELSE 0)
            /\ \A i \in 1..(n + 4 - 3 + 1) : u[i] = s[3 + i - 1]
        BY <2>2, <3>1, SubSeqProperties
      <3> HIDE DEF u
      <3>3. Len(u) = n + 2 /\ \A i \in 1..(n + 2) : u[i] = s[i + 2]
        BY <2>2, <3>2
      <3>4. \A i \in 1..(n + 2) : s[i + 2] = sum[i]
        <4>1. ASSUME NEW i \in 1..(n + 2) PROVE s[i + 2] = sum[i]
          <5>1. i = 1 \/ i = 2 \/ (i - 2 \in 1..n /\ (i - 2) + 4 = i + 2 /\ (i - 2) + 2 = i)
            BY <2>2
          <5>2. s[4] = n
            BY DEF n
          <5> QED BY <2>3, <2>5, <5>1, <5>2
        <4> QED BY <4>1
      <3>5. u = sum
        BY <2>5, <3>2, <3>3, <3>4, SeqEqual
      <3> QED BY <3>5 DEF u
    <2>8. /\ s[1] = START /\ s[2] = reg /\ s[n + 7] = END
          /\ Word(s[n + 5], s[n + 6]) = jbd_crc(sum)
      <3>1. 5 + n = n + 5 /\ 6 + n = n + 6 /\ 7 + n = n + 7 /\ 4 + n = n + 4
        BY <2>2
      <3> HIDE DEF sum
      <3> QED BY <1>2, <2>7, <3>1 DEF jbd_verify
    <2>9. s[n + 5] = jbd_crc(sum) \div 256 /\ s[n + 6] = jbd_crc(sum) % 256
      <3>1. sum \in Seq(Nat)
        BY <2>5, SeqMonotonic, ByteIsNat
      <3>2. s[n + 5] \in Byte /\ s[n + 6] \in Byte
        BY <2>1, <2>2
      <3> HIDE DEF sum
      <3> QED BY <2>8, <3>1, <3>2, CrcRange, HalvesOnly
    <2>10. \A i \in 1..Len(s) : s[i] = r[i]
      <3> HIDE DEF r, sum
      <3>1. ASSUME NEW i \in 1..Len(s) PROVE s[i] = r[i]
        <4>1. \/ i \in {1, 2, 3, 4} \/ i \in {n + 5, n + 6, n + 7}
              \/ (i - 4 \in 1..n /\ (i - 4) + 4 = i)
          BY <2>2
        <4>2. CASE i \in {1, 2, 3, 4}
          BY <2>6, <2>8, <4>2
        <4>3. CASE i \in {n + 5, n + 6, n + 7}
          BY <2>6, <2>8, <2>9, <4>3
        <4>4. CASE i - 4 \in 1..n /\ (i - 4) + 4 = i
          BY <2>3, <2>6, <4>4
        <4> QED BY <4>1, <4>2, <4>3, <4>4
      <3> QED BY <3>1
    <2>11. s = r
      <3> HIDE DEF r
      <3> QED BY <2>2, <2>6, <2>10, SeqEqual
    <2> QED BY <2>2, <2>3, <2>4, <2>11
  <1> QED BY <1>1, <1>2

-----------------------------------------------------------------------------
(* The requests, and what the BMS answers to them. *)

Commands == {jbd_cmd(PKTSIZE, r.action, r.reg, r.data) : r \in Requests}

\* A command is made of bytes and has its action and its register where the BMS
\* looks for them.
LEMMA CommandFrame ==
    ASSUME NEW r \in Requests
    PROVE  LET w == jbd_cmd(PKTSIZE, r.action, r.reg, r.data)
           IN  w \in Seq(Byte) /\ w[2] = r.action /\ w[3] = r.reg
  <1> DEFINE w    == jbd_cmd(PKTSIZE, r.action, r.reg, r.data)
             body == IF r.action = READ THEN <<>> ELSE r.data
             s    == <<r.reg, Len(body)>> \o body
  <1>1. /\ r.action \in Byte /\ START \in Byte /\ r.reg \in Byte
        /\ r.data \in Seq(Byte) /\ Len(r.data) < 256 /\ w # <<>>
    BY RequestAssumption, Bytes8 DEF READ, WRITE, START
  <1>2. body \in Seq(Byte) /\ Len(body) < 256
    BY <1>1, EmptySeq
  <1>3. w = Closed(START, r.action, s)
    BY <1>1 DEF jbd_cmd
  <1> HIDE DEF body, w
  <1>4. IsSummed(s, r.reg, body, Len(body))
    BY <1>1, <1>2, SummedPart
  <1>5. s \in Seq(Byte) /\ s[1] = r.reg /\ Len(s) \in Nat /\ Len(s) >= 1
    BY <1>2, <1>4, LenProperties DEF IsSummed
  <1> HIDE DEF s
  <1>6. IsClosed(Closed(START, r.action, s), START, r.action, s, Len(s))
    BY <1>1, <1>5, ClosedFrame
  <1>7. w \in Seq(Byte) /\ w[2] = r.action /\ \A i \in 1..Len(s) : w[i + 2] = s[i]
    BY <1>3, <1>6 DEF IsClosed
  <1>8. w[1 + 2] = s[1]
    BY <1>5, <1>7
  <1> QED BY <1>5, <1>7, <1>8 DEF w

\* Whatever the BMS answers to a command is made of bytes.
LEMMA AnswerIsSeq ==
    ASSUME NEW w \in Commands, NEW a \in Answers(w)
    PROVE  a \in Seq(Byte)
  <1>1. PICK r \in Requests : w = jbd_cmd(PKTSIZE, r.action, r.reg, r.data)
    BY DEF Commands
  <1>2. w[2] = r.action /\ w[3] = r.reg
    BY <1>1, CommandFrame
  <1>3. r.reg \in Byte /\ 0 \in Byte /\ 128 \in Byte
    BY RequestAssumption, Bytes8
  <1> DEFINE d == IF w[2] = READ THEN Data[w[3]] ELSE <<>>
  <1>4. d \in Seq(Byte) /\ Len(d) < 256
    BY <1>2, RequestAssumption, EmptySeq
  <1>5. ASSUME NEW status \in Byte, NEW data \in Seq(Byte), Len(data) < 256
        PROVE  Reply(r.reg, status, data) \in Seq(Byte)
    <2>1. IsReply(Reply(r.reg, status, data), r.reg, status, data, Len(data),
                  jbd_crc(<<status, Len(data)>> \o data))
      BY <1>3, <1>5, ReplyFrame
    <2> QED BY <2>1 DEF IsReply
  <1>6. Answers(w) = {Reply(r.reg, 0, d), Reply(r.reg, 128, <<>>)}
    BY <1>2 DEF Answers
  <1> HIDE DEF d
  <1>7. <<>> \in Seq(Byte) /\ Len(<<>>) < 256
    BY EmptySeq
  <1>8. Reply(r.reg, 0, d) \in Seq(Byte)
    BY <1>3, <1>4, <1>5
  <1>9. Reply(r.reg, 128, <<>>) \in Seq(Byte)
    BY <1>3, <1>5, <1>7
  <1> QED BY <1>6, <1>8, <1>9

-----------------------------------------------------------------------------
(* The invariant. *)

Places == {"closed", "opening", "open", "reading", "failed", "killed"}

Queues == /\ wire \in Seq(Commands) /\ line \in Seq(Byte)
          /\ queue \in Seq(Byte) /\ buf \in Seq(Byte)

GatheredInRead == (pc # "reading" \/ kind = "serial") => buf = <<>>
RoomLeft       == Len(buf) < BUFLEN
ClosedEmpty    == pc = "closed" => queue = <<>>

StreamInv == /\ kind \in {"serial", "ip"} /\ pc \in Places
             /\ Queues
             /\ GatheredInRead
             /\ RoomLeft
             /\ ClosedEmpty

\* What is asked for, what has been read, and the counts.
ReadFits == /\ link \in {"up", "closed", "broken"}
            /\ asked \in {0} \cup {r.reg : r \in Requests}
            /\ last # Err => last \in Seq(Byte) /\ Len(last) =< BUFLEN
            /\ asks \in 0..MaxAsk /\ opens \in 0..MaxOpen /\ faults \in 0..MaxFaults

\* A transport nobody has opened holds nothing.
LEMMA InitStreamInv == Init => StreamInv
  BY BufAssumption, EmptySeq
     DEF Init, StreamInv, Queues, GatheredInRead, RoomLeft, ClosedEmpty, Places

\* One request more is on the wire, or none.
LEMMA RequestStep ==
    ASSUME StreamInv, NEW r \in Requests
    PROVE  Append(wire, jbd_cmd(PKTSIZE, r.action, r.reg, r.data)) \in Seq(Commands)
  <1>1. jbd_cmd(PKTSIZE, r.action, r.reg, r.data) \in Commands
    BY DEF Commands
  <1> QED BY <1>1, AppendProperties DEF StreamInv, Queues

\* A read that returns leaves nothing gathered.
LEMMA ReturnStep ==
    ASSUME StreamInv, NEW s, NEW rest \in Seq(Byte), pc = "reading", Returns(s, rest)
    PROVE  StreamInv'
  <1>1. /\ pc' = "open" /\ buf' = <<>> /\ queue' \in Seq(Byte)
        /\ UNCHANGED <<kind, wire, line>>
    BY DEF Returns
  <1>2. buf' \in Seq(Byte) /\ Len(buf') < BUFLEN
    BY <1>1, EmptySeq, BufAssumption
  <1> QED BY <1>1, <1>2 DEF StreamInv, Queues, GatheredInRead, RoomLeft, ClosedEmpty, Places

\* What is left after n bytes.
LEMMA RestIsSeq ==
    ASSUME NEW s \in Seq(Byte), NEW n \in 0..Len(s)
    PROVE  Rest(n, s) \in Seq(Byte)
  <1>1. \A k \in (n + 1)..Len(s) : s[k] \in Byte
    BY LenProperties, ElementOfSeq
  <1> QED BY <1>1, LenProperties, SubSeqProperties DEF Rest

\* Every step of the transports, the BMS and the link keeps the invariant.
LEMMA StepStreamInv == StreamInv /\ [Next]_vars => StreamInv'
  <1> SUFFICES ASSUME StreamInv, [Next]_vars PROVE StreamInv'
    OBVIOUS
  <1> DEFINE Here == /\ kind \in {"serial", "ip"} /\ pc \in Places
                     /\ GatheredInRead /\ RoomLeft /\ ClosedEmpty
  <1>0. Here /\ Queues /\ Len(queue) \in Nat /\ Len(buf) \in Nat
    BY LenProperties DEF StreamInv, Queues
  <1>nil. <<>> \in Seq(Byte)
    BY EmptySeq
  <1>1. CASE UNCHANGED vars
    BY <1>1 DEF vars, StreamInv, Queues, GatheredInRead, RoomLeft, ClosedEmpty
  \* Opening, closing, and writes that go nowhere leave line and buf.
  <1>2. CASE SerialOpen \/ Configure \/ OpenFails \/ Close \/ WriteKills
    BY <1>2, <1>0, <1>nil
       DEF SerialOpen, Configure, OpenFails, Close, WriteKills, Opened,
           StreamInv, Queues, GatheredInRead, RoomLeft, ClosedEmpty, Places
  <1>3. CASE IpOpen
    BY <1>3, <1>0, <1>nil
       DEF IpOpen, Opened, StreamInv, Queues, GatheredInRead, RoomLeft, ClosedEmpty, Places
  <1>4. CASE Write
    <2>1. PICK r \in Requests :
             /\ Ask(r)
             /\ wire' = Append(wire, jbd_cmd(PKTSIZE, r.action, r.reg, r.data))
      BY <1>4 DEF Write
    <2>2. wire' \in Seq(Commands)
      BY <2>1, RequestStep
    <2> QED BY <2>1, <2>2, <1>0
            DEF Ask, StreamInv, Queues, GatheredInRead, RoomLeft, ClosedEmpty, Places
  <1>5. CASE WriteLost
    <2>1. PICK r \in Requests : Ask(r) /\ UNCHANGED wire
      BY <1>5 DEF WriteLost
    <2> QED BY <2>1, <1>0
            DEF Ask, StreamInv, Queues, GatheredInRead, RoomLeft, ClosedEmpty, Places
  <1>6. CASE SerialTake
    <2> DEFINE n == Least(BUFLEN, Len(queue))
    <2>1. Returns(Take(n, queue), Rest(n, queue)) /\ pc = "reading"
      BY <1>6 DEF SerialTake, Reading
    <2>2. n \in 0..Len(queue)
      BY <1>0, BufAssumption DEF Least
    <2>3. Rest(n, queue) \in Seq(Byte)
      BY <1>0, <2>2, RestIsSeq DEF Queues
    <2> HIDE DEF n
    <2> QED BY <2>1, <2>3, ReturnStep
  <1>7. CASE SerialTimeout
    BY <1>7, <1>nil, ReturnStep DEF SerialTimeout, Reading
  <1>8. CASE SerialError
    BY <1>8, <1>0, ReturnStep DEF SerialError, Reading, Queues
  <1>9. CASE IpRecv
    <2>1. /\ pc = "reading" /\ kind = "ip" /\ Len(buf \o queue) < BUFLEN
          /\ buf' = buf \o queue /\ queue' = <<>>
          /\ UNCHANGED <<kind, pc, wire, line>>
      BY <1>9 DEF IpRecv, Reading
    <2>2. buf' \in Seq(Byte)
      BY <1>0, <2>1, ConcatProperties DEF Queues
    <2> QED BY <2>1, <2>2, <1>0, <1>nil
            DEF StreamInv, Queues, GatheredInRead, RoomLeft, ClosedEmpty, Places
  <1>10. CASE IpFull
    <2>1. /\ pc = "reading" /\ Len(buf \o queue) >= BUFLEN
          /\ Returns(Take(BUFLEN, buf \o queue), Rest(BUFLEN, buf \o queue))
      BY <1>10 DEF IpFull, Reading
    <2>2. buf \o queue \in Seq(Byte) /\ Len(buf \o queue) \in Nat
      BY <1>0, ConcatProperties, LenProperties DEF Queues
    <2>3. BUFLEN \in 0..Len(buf \o queue)
      BY <2>1, <2>2, BufAssumption
    <2>4. Rest(BUFLEN, buf \o queue) \in Seq(Byte)
      BY <2>2, <2>3, RestIsSeq
    <2> QED BY <2>1, <2>4, ReturnStep
  <1>11. CASE IpTimeout \/ IpEof \/ IpError
    <2>1. PICK s : pc = "reading" /\ Returns(s, <<>>)
      BY <1>11 DEF IpTimeout, IpEof, IpError, Reading
    <2> QED BY <2>1, <1>nil, ReturnStep
  <1>12. CASE Execute
    <2>1. /\ wire # <<>> /\ wire' = Tail(wire)
          /\ line' \in Answers(Head(wire)) \cup {<<>>}
          /\ UNCHANGED <<kind, pc, queue, buf>>
      BY <1>12 DEF Execute
    <2>2. Head(wire) \in Commands /\ wire' \in Seq(Commands)
      BY <1>0, <2>1, HeadTailProperties DEF Queues
    <2>3. line' \in Seq(Byte)
      BY <2>1, <2>2, <1>nil, AnswerIsSeq
    <2> QED BY <2>1, <2>2, <2>3, <1>0
            DEF StreamInv, Queues, GatheredInRead, RoomLeft, ClosedEmpty, Places
  <1>13. CASE Silent
    <2>1. wire # <<>> /\ wire' = Tail(wire) /\ UNCHANGED <<kind, pc, line, queue, buf>>
      BY <1>13 DEF Silent
    <2>2. wire' \in Seq(Commands)
      BY <1>0, <2>1, HeadTailProperties DEF Queues
    <2> QED BY <2>1, <2>2, <1>0
            DEF StreamInv, Queues, GatheredInRead, RoomLeft, ClosedEmpty, Places
  <1>14. CASE Arrive \/ Damage
    <2>1. PICK b \in Byte : Comes(b)
      <3>1. CASE Arrive
        <4>1. line # <<>> /\ Comes(Head(line))
          BY <3>1 DEF Arrive, Comes
        <4>2. Head(line) \in Byte
          BY <1>0, <4>1, HeadTailProperties DEF Queues
        <4> QED BY <4>1, <4>2
      <3>2. CASE Damage
        BY <3>2, NoiseAssumption DEF Damage
      <3> QED BY <1>14, <3>1, <3>2
    <2>2. /\ line # <<>> /\ line' = Tail(line)
          /\ queue' = (IF Listening THEN Append(queue, b) ELSE queue)
          /\ UNCHANGED <<kind, pc, wire, buf>>
      BY <2>1 DEF Comes
    <2>3. line' \in Seq(Byte)
      BY <1>0, <2>2, HeadTailProperties DEF Queues
    <2>4. Append(queue, b) \in Seq(Byte)
      BY <1>0, AppendProperties DEF Queues
    <2>5. queue' \in Seq(Byte) /\ ClosedEmpty'
      BY <1>0, <2>2, <2>4 DEF Queues, ClosedEmpty, Listening
    <2> QED BY <2>2, <2>3, <2>5, <1>0
            DEF StreamInv, Queues, GatheredInRead, RoomLeft, ClosedEmpty, Places
  <1>15. CASE Lose
    <2>1. line # <<>> /\ line' = Tail(line) /\ UNCHANGED <<kind, pc, wire, queue, buf>>
      BY <1>15 DEF Lose
    <2>2. line' \in Seq(Byte)
      BY <1>0, <2>1, HeadTailProperties DEF Queues
    <2> QED BY <2>1, <2>2, <1>0
            DEF StreamInv, Queues, GatheredInRead, RoomLeft, ClosedEmpty, Places
  <1>16. CASE PeerCloses \/ Break
    BY <1>16, <1>0, <1>nil
       DEF PeerCloses, Break, StreamInv, Queues, GatheredInRead, RoomLeft, ClosedEmpty, Places
  <1> QED BY <1>1, <1>2, <1>3, <1>4, <1>5, <1>6, <1>7, <1>8, <1>9, <1>10, <1>11, <1>12,
             <1>13, <1>14, <1>15, <1>16 DEF Next, Client, Read, Peer

-----------------------------------------------------------------------------
(* Types. *)

\* The first n bytes of what there is, or all of it, fit into the caller's buffer.
LEMMA TakeFits ==
    ASSUME NEW s \in Seq(Byte), NEW n \in 0..Len(s), n =< BUFLEN
    PROVE  Take(n, s) \in Seq(Byte) /\ Len(Take(n, s)) =< BUFLEN
  <1>1. \A k \in 1..n : s[k] \in Byte
    BY LenProperties, ElementOfSeq
  <1>2. n \in Nat /\ BUFLEN \in Nat
    BY LenProperties, BufAssumption
  <1>3. /\ SubSeq(s, 1, n) \in Seq(Byte)
        /\ Len(SubSeq(s, 1, n)) = (IF 1 <= n THEN n - 1 + 1 ELSE 0)
    BY <1>1, <1>2, SubSeqProperties
  <1> QED BY <1>2, <1>3 DEF Take

\* Each step keeps what has been read within buflen, and the counts.
LEMMA StepReadFits == StreamInv /\ ReadFits /\ [Next]_vars => ReadFits'
  <1> SUFFICES ASSUME StreamInv, ReadFits, [Next]_vars PROVE ReadFits'
    OBVIOUS
  <1>0. /\ <<>> \in Seq(Byte) /\ Len(<<>>) = 0 /\ BUFLEN \in Nat
        /\ buf \in Seq(Byte) /\ Len(buf) =< BUFLEN /\ Len(buf) \in Nat
        /\ queue \in Seq(Byte) /\ Len(queue) \in Nat
    BY EmptySeq, BufAssumption, LenProperties DEF StreamInv, Queues, RoomLeft
  <1>1. ASSUME NEW s, NEW rest, Returns(s, rest), s = Err \/ (s \in Seq(Byte) /\ Len(s) =< BUFLEN)
        PROVE  ReadFits'
    BY <1>1 DEF Returns, ReadFits
  <1>2. CASE UNCHANGED vars
    BY <1>2 DEF vars, ReadFits
  <1>3. CASE SerialOpen \/ IpOpen
    BY <1>3, BoundAssumption DEF SerialOpen, IpOpen, Opened, ReadFits
  <1>4. CASE Configure \/ OpenFails \/ WriteKills \/ IpRecv \/ Execute \/ Silent \/ Arrive
    BY <1>4 DEF Configure, OpenFails, WriteKills, IpRecv, Execute, Silent, Arrive, Comes, ReadFits
  <1>5. CASE Close
    BY <1>0, <1>5 DEF Close, ReadFits
  <1>6. CASE Write \/ WriteLost
    <2>1. PICK r \in Requests : Ask(r) /\ link' \in {link, "closed", "broken"}
      BY <1>6 DEF Write, WriteLost
    <2> QED BY <1>0, <2>1, BoundAssumption DEF Ask, ReadFits
  <1>7. CASE SerialTake
    <2> DEFINE n == Least(BUFLEN, Len(queue))
    <2>1. n \in 0..Len(queue) /\ n =< BUFLEN
      BY <1>0, BufAssumption DEF Least
    <2>2. Returns(Take(n, queue), Rest(n, queue))
      BY <1>7 DEF SerialTake
    <2> HIDE DEF n
    <2> QED BY <1>0, <1>1, <2>1, <2>2, TakeFits
  <1>8. CASE SerialTimeout \/ SerialError \/ IpTimeout \/ IpEof \/ IpError
    <2>1. PICK s \in {<<>>, Err, buf}, rest \in {<<>>, queue} : Returns(s, rest)
      BY <1>8 DEF SerialTimeout, SerialError, IpTimeout, IpEof, IpError
    <2>2. s = Err \/ (s \in Seq(Byte) /\ Len(s) =< BUFLEN)
      <3>1. CASE s = <<>>
        BY <1>0, <3>1
      <3> QED BY <1>0, <3>1
    <2> QED BY <1>1, <2>1, <2>2
  <1>9. CASE IpFull
    <2>1. /\ Len(buf \o queue) >= BUFLEN
          /\ Returns(Take(BUFLEN, buf \o queue), Rest(BUFLEN, buf \o queue))
      BY <1>9 DEF IpFull
    <2>2. buf \o queue \in Seq(Byte) /\ Len(buf \o queue) \in Nat
      BY <1>0, ConcatProperties, LenProperties
    <2>3. BUFLEN \in 0..Len(buf \o queue) /\ BUFLEN =< BUFLEN
      BY <1>0, <2>1, <2>2
    <2> QED BY <1>1, <2>1, <2>2, <2>3, TakeFits
  <1>10. CASE Damage \/ Lose \/ PeerCloses \/ Break
    BY <1>10, BoundAssumption DEF Damage, Lose, PeerCloses, Break, Comes, Fault, ReadFits
  <1> QED BY <1>2, <1>3, <1>4, <1>5, <1>6, <1>7, <1>8, <1>9, <1>10 DEF Next, Client, Read, Peer

-----------------------------------------------------------------------------
(* The refinement.  avail is buf and queue together while the transport is  *)
(* open.                                                                    *)

Avail == IF IsUp THEN buf \o queue ELSE <<>>

\* avail is a sequence, as long as its two parts; one part empty, it is the other.
LEMMA AvailIsSeq ==
    ASSUME StreamInv
    PROVE  /\ Avail \in Seq(Byte) /\ Len(Avail) \in Nat
           /\ buf \o queue \in Seq(Byte)
           /\ Len(buf \o queue) = Len(buf) + Len(queue)
           /\ Len(buf) \in Nat /\ Len(queue) \in Nat
           /\ buf = <<>> => buf \o queue = queue
           /\ queue = <<>> => buf \o queue = buf
  <1>1. buf \in Seq(Byte) /\ queue \in Seq(Byte)
    BY DEF StreamInv, Queues
  <1>2. /\ buf \o queue \in Seq(Byte) /\ Len(buf \o queue) = Len(buf) + Len(queue)
    BY <1>1, ConcatProperties
  <1>3. buf \o <<>> = buf /\ <<>> \o queue = queue
    BY <1>1, ConcatEmptySeq
  <1> QED BY <1>1, <1>2, <1>3, LenProperties, EmptySeq DEF Avail

\* What is put behind a sequence has it as a prefix.
LEMMA PrefixOfConcat ==
    ASSUME NEW s \in Seq(Byte), NEW t \in Seq(Byte)
    PROVE  IsPrefix(s, s \o t)
  <1>1. /\ Len(s) \in Nat /\ Len(t) \in Nat /\ Len(s \o t) = Len(s) + Len(t)
        /\ \A i \in 1..(Len(s) + Len(t)) :
              (s \o t)[i] = IF i <= Len(s) THEN s[i] ELSE t[i - Len(s)]
    BY LenProperties, ConcatProperties
  <1>2. SubSeq(s, 1, Len(s)) = s
    BY SubSeqFull
  <1>3. SubSeq(s \o t, 1, Len(s)) = s
    <2>1. \A i \in 1..Len(s) : (s \o t)[i] = s[i] /\ s[i] \in Byte
      BY <1>1, ElementOfSeq
    <2> DEFINE u == SubSeq(s \o t, 1, Len(s))
    <2>2. /\ u \in Seq(Byte) /\ Len(u) = (IF 1 <= Len(s) THEN Len(s) - 1 + 1 ELSE 0)
          /\ \A i \in 1..(Len(s) - 1 + 1) : u[i] = (s \o t)[1 + i - 1]
      BY <1>1, <2>1, SubSeqProperties
    <2> HIDE DEF u
    <2>3. Len(u) = Len(s) /\ \A i \in 1..Len(u) : u[i] = s[i]
      BY <1>1, <2>1, <2>2
    <2>4. u = s
      BY <2>2, <2>3, SeqEqual
    <2> QED BY <2>4 DEF u
  <1> QED BY <1>1, <1>2, <1>3 DEF IsPrefix

\* Each sequence begins and ends with itself and with nothing.
LEMMA PrefixFacts ==
    ASSUME NEW s \in Seq(Byte)
    PROVE  IsPrefix(s, s) /\ IsPrefix(<<>>, s) /\ IsSuffix(s, s) /\ IsSuffix(<<>>, s)
  <1>1. Len(s) \in Nat /\ Len(<<>>) = 0
    BY LenProperties, EmptySeq
  <1>2. ASSUME NEW u PROVE SubSeq(u, 1, 0) = <<>>
    BY SubSeqEmpty
  <1>3. Reverse(s) = [i \in 1..Len(s) |-> s[Len(s) - i + 1]]
    BY DEF Reverse
  <1>4. Reverse(s) \in Seq(Byte)
    BY <1>1, <1>3, LenProperties
  <1>5. Len(Reverse(<<>>)) = 0
    BY <1>1 DEF Reverse
  <1>6. Len(Reverse(s)) \in Nat
    BY <1>4, LenProperties
  <1> QED BY <1>1, <1>2, <1>5, <1>6 DEF IsPrefix, IsSuffix

\* ByteStream has its own copy of the operators of SequencesExt.
LEMMA SameOperators ==
    ASSUME NEW s, NEW t
    PROVE  /\ Bytes!IsPrefix(s, t) = IsPrefix(s, t)
           /\ Bytes!IsStrictPrefix(s, t) = (IsPrefix(s, t) /\ s # t)
           /\ Bytes!IsSuffix(s, t) = IsSuffix(s, t)
  BY DEF IsPrefix, IsSuffix, Reverse,
         Bytes!IsPrefix, Bytes!IsStrictPrefix, Bytes!IsSuffix, Bytes!Reverse

\* The whole of what was gathered and held is handed out up to the room there
\* is, and the rest is kept.
LEMMA ReadMaps ==
    ASSUME StreamInv, pc = "reading",
           NEW n, n = Bytes!Least(BUFLEN, Len(Avail)),
           Returns(SubSeq(Avail, 1, n), SubSeq(Avail, n + 1, Len(Avail)))
    PROVE  Bytes!Read
  <1>1. IsUp /\ IsUp'
    BY DEF Returns, IsUp
  <1>2. last' = SubSeq(Avail, 1, n) /\ queue' = SubSeq(Avail, n + 1, Len(Avail)) /\ buf' = <<>>
    BY DEF Returns
  <1>3. n \in 0..Len(Avail)
    BY AvailIsSeq, BufAssumption DEF Bytes!Least
  <1>4. queue' \in Seq(Byte)
    BY <1>2, <1>3, AvailIsSeq, RestIsSeq DEF Rest
  <1>5. Avail' = queue'
    BY <1>1, <1>2, <1>4, ConcatEmptySeq DEF Avail
  <1> QED BY <1>1, <1>2, <1>5 DEF Bytes!Read, Bytes!Take, Bytes!Rest, Avail

\* The ways out of serial_read and ip_read are reads or failures of the stream.
LEMMA ReturnsMap ==
    ASSUME StreamInv,
           SerialTake \/ SerialTimeout \/ SerialError \/ IpFull \/ IpTimeout \/ IpEof \/ IpError
    PROVE  Bytes!Read \/ Bytes!Fail
  <1>1. pc = "reading" /\ IsUp /\ Avail = buf \o queue
    BY DEF SerialTake, SerialTimeout, SerialError, IpFull, IpTimeout, IpEof, IpError,
           Reading, IsUp, Avail
  <1>2. /\ Len(Avail) \in Nat /\ Len(Avail) = Len(buf) + Len(queue)
        /\ Avail \in Seq(Byte) /\ buf \in Seq(Byte) /\ queue \in Seq(Byte)
        /\ Len(buf) \in Nat /\ Len(queue) \in Nat /\ Len(buf) < BUFLEN
        /\ kind = "serial" => buf = <<>>
    BY <1>1, AvailIsSeq DEF StreamInv, Queues, RoomLeft, GatheredInRead
  <1>3. CASE SerialTake
    <2>1. Avail = queue
      BY <1>1, <1>2, <1>3, AvailIsSeq DEF SerialTake, Reading
    <2> QED BY <1>1, <1>3, <2>1, ReadMaps
            DEF SerialTake, Least, Bytes!Least, Take, Rest
  <1>4. ASSUME queue = <<>>, Returns(buf, <<>>) PROVE Bytes!Read
    <2>1. Avail = buf /\ Len(Avail) < BUFLEN
      BY <1>1, <1>2, <1>4, AvailIsSeq
    <2>2. Bytes!Least(BUFLEN, Len(Avail)) = Len(Avail)
      BY <1>2, <2>1, BufAssumption DEF Bytes!Least
    <2>3. /\ SubSeq(Avail, 1, Len(Avail)) = buf
          /\ SubSeq(Avail, Len(Avail) + 1, Len(Avail)) = <<>>
      BY <1>2, <2>1, SubSeqFull, SubSeqEmpty
    <2> QED BY <1>1, <1>4, <2>2, <2>3, ReadMaps
  <1>5. CASE SerialTimeout
    BY <1>2, <1>4, <1>5 DEF SerialTimeout, Reading
  <1>6. CASE IpTimeout \/ IpEof
    BY <1>4, <1>6 DEF IpTimeout, IpEof
  <1>7. CASE IpFull
    <2>1. Len(Avail) >= BUFLEN /\ Returns(Take(BUFLEN, Avail), Rest(BUFLEN, Avail))
      BY <1>1, <1>7 DEF IpFull
    <2>2. Returns(SubSeq(Avail, 1, BUFLEN), SubSeq(Avail, BUFLEN + 1, Len(Avail)))
      BY <2>1 DEF Take, Rest
    <2>3. BUFLEN = Bytes!Least(BUFLEN, Len(Avail))
      BY <1>2, <2>1, BufAssumption DEF Bytes!Least
    <2> QED BY <1>1, <2>2, <2>3, ReadMaps
  <1>8. CASE SerialError \/ IpError
    <2>1. PICK rest \in {queue, <<>>} : Returns(Err, rest) /\ (rest = <<>> \/ Avail = queue)
      BY <1>1, <1>2, <1>8, AvailIsSeq DEF SerialError, IpError, Reading
    <2>2. IsUp' /\ last' = Err /\ queue' = rest /\ buf' = <<>>
      BY <2>1 DEF Returns, IsUp
    <2>3. rest \in Seq(Byte)
      BY <1>2, EmptySeq
    <2>4. Avail' = rest
      BY <2>2, <2>3, ConcatEmptySeq DEF Avail
    <2>5. Bytes!IsSuffix(rest, Avail)
      BY <1>2, <2>1, PrefixFacts, SameOperators
    <2> QED BY <1>1, <2>2, <2>4, <2>5 DEF Bytes!Fail, Avail
  <1> QED BY <1>3, <1>5, <1>6, <1>7, <1>8

\* A byte that comes in is behind all others.
LEMMA ComesMaps ==
    ASSUME StreamInv, NEW b \in Byte, Comes(b)
    PROVE  Bytes!Arrive \/ UNCHANGED Bytes!svars
  <1>1. UNCHANGED <<IsUp, last, buf>>
    BY DEF Comes, IsUp
  <1>2. CASE ~IsUp
    BY <1>1, <1>2 DEF Bytes!svars
  <1>3. CASE IsUp
    <2>1. buf \in Seq(Byte) /\ queue \in Seq(Byte) /\ <<b>> \in Seq(Byte)
      BY DEF StreamInv, Queues
    <2>2. queue' = Append(queue, b)
      BY <1>3 DEF Comes, Listening, IsUp
    <2>3. Append(queue, b) = queue \o <<b>>
      BY <2>1, AppendIsConcat
    <2>4. Avail' = Avail \o <<b>>
      BY <1>1, <1>3, <2>1, <2>2, <2>3, ConcatAssociative DEF Avail
    <2>5. Avail # Avail'
      BY <2>1, <2>4, AvailIsSeq, ConcatProperties
    <2>6. Bytes!IsStrictPrefix(Avail, Avail')
      <3>1. IsPrefix(Avail, Avail')
        BY <2>1, <2>4, AvailIsSeq, PrefixOfConcat
      <3> QED BY <2>5, <3>1, SameOperators
    <2> QED BY <1>1, <1>3, <2>6 DEF Bytes!Arrive, Avail
  <1> QED BY <1>2, <1>3

\* A link that breaks keeps the front of what has come.
LEMMA BreakMaps ==
    ASSUME StreamInv, Break
    PROVE  Bytes!Drop \/ UNCHANGED Bytes!svars
  <1>1. UNCHANGED <<IsUp, last, buf>> /\ queue' \in {queue, <<>>}
    BY DEF Break, IsUp
  <1>2. CASE ~IsUp
    BY <1>1, <1>2 DEF Bytes!svars
  <1>3. CASE IsUp
    <2>1. buf \in Seq(Byte) /\ queue \in Seq(Byte)
      BY DEF StreamInv, Queues
    <2>2. Avail = buf \o queue /\ Avail' \in {buf \o queue, buf}
      BY <1>1, <1>3, <2>1, ConcatEmptySeq DEF Avail
    <2>3. IsPrefix(Avail', Avail)
      BY <2>1, <2>2, AvailIsSeq, PrefixOfConcat, PrefixFacts
    <2>4. Bytes!IsPrefix(Avail', Avail)
      BY <2>3, SameOperators
    <2> QED BY <1>1, <1>3, <2>4 DEF Bytes!Drop, Avail
  <1> QED BY <1>2, <1>3

\* Every step is one of the stream, or none.
LEMMA StepMaps == StreamInv /\ [Next]_vars => [Bytes!Next]_(Bytes!svars)
  <1> SUFFICES ASSUME StreamInv, [Next]_vars PROVE Bytes!Next \/ UNCHANGED Bytes!svars
    OBVIOUS
  <1>0. /\ pc # "reading" => buf = <<>>
        /\ pc = "closed" => queue = <<>> /\ buf = <<>>
        /\ buf \in Seq(Byte) /\ queue \in Seq(Byte)
        /\ <<>> \o <<>> = <<>>
    BY EmptySeq, ConcatEmptySeq DEF StreamInv, Queues, GatheredInRead, ClosedEmpty
  <1>1. CASE UNCHANGED vars
    BY <1>1 DEF vars, Bytes!svars, IsUp
  \* Not open before nor after.
  <1>2. CASE SerialOpen \/ OpenFails
    BY <1>2 DEF SerialOpen, OpenFails, Opened, Bytes!svars, IsUp
  \* Opening: nothing is there.
  <1>3. CASE Configure \/ IpOpen
    <2>1. ~IsUp /\ IsUp' /\ last' = last
      BY <1>3 DEF Configure, IpOpen, Opened, IsUp
    <2>2. buf' = <<>> /\ queue' = <<>>
      BY <1>0, <1>3 DEF Configure, IpOpen, Opened
    <2> QED BY <1>0, <2>1, <2>2 DEF Bytes!Next, Bytes!Open
  <1>4. CASE Close \/ WriteKills
    <2>1. IsUp /\ ~IsUp' /\ last' \in {<<>>, last}
      BY <1>4 DEF Close, WriteKills, IsUp
    <2> QED BY <2>1 DEF Bytes!Next, Bytes!Close
  <1>5. CASE Write \/ WriteLost
    <2>1. PICK r \in Requests : Ask(r)
      BY <1>5 DEF Write, WriteLost
    <2>2. IsUp /\ IsUp' /\ last' = <<>> /\ UNCHANGED <<buf, queue>>
      BY <2>1 DEF Ask, IsUp
    <2> QED BY <2>2 DEF Bytes!Next, Bytes!Write
  <1>6. CASE \/ SerialTake \/ SerialTimeout \/ SerialError
             \/ IpFull \/ IpTimeout \/ IpEof \/ IpError
    BY <1>6, ReturnsMap DEF Bytes!Next
  \* What moves from the kernel to buf stays where it is in the stream.
  <1>7. CASE IpRecv
    <2>1. /\ UNCHANGED <<IsUp, last>> /\ IsUp
          /\ buf' = buf \o queue /\ queue' = <<>>
      BY <1>7 DEF IpRecv, Reading, IsUp
    <2>2. (buf \o queue) \o <<>> = buf \o queue
      BY AvailIsSeq, ConcatEmptySeq
    <2> QED BY <2>1, <2>2 DEF Bytes!svars
  <1>8. CASE Execute \/ Silent \/ Lose \/ PeerCloses
    BY <1>8 DEF Execute, Silent, Lose, PeerCloses, Bytes!svars, IsUp
  <1>9. CASE Arrive \/ Damage
    <2>1. PICK b \in Byte : Comes(b)
      <3>1. CASE Arrive
        <4>1. line # <<>> /\ line \in Seq(Byte) /\ Comes(Head(line))
          BY <3>1 DEF Arrive, Comes, StreamInv, Queues
        <4>2. Head(line) \in Byte
          BY <4>1, HeadTailProperties
        <4> QED BY <4>1, <4>2
      <3>2. CASE Damage
        BY <3>2, NoiseAssumption DEF Damage
      <3> QED BY <1>9, <3>1, <3>2
    <2> QED BY <2>1, ComesMaps DEF Bytes!Next
  <1>10. CASE Break
    BY <1>10, BreakMaps DEF Bytes!Next
  <1> QED BY <1>1, <1>2, <1>3, <1>4, <1>5, <1>6, <1>7, <1>8, <1>9, <1>10
          DEF Next, Client, Read, Peer

-----------------------------------------------------------------------------
\* Nothing is gathered outside of a read, nothing waits in a closed transport,
\* and there is always room for a byte more.
THEOREM StreamInvariant == Spec => []StreamInv
  <1>1. Init => StreamInv
    BY InitStreamInv
  <1>2. StreamInv /\ [Next]_vars => StreamInv'
    BY StepStreamInv
  <1> QED BY <1>1, <1>2, PTL DEF Spec

\* What a read returns are bytes, never more than buflen of them, whatever comes;
\* what is on the wire are frames of bytes.
THEOREM TypeCorrect == Spec => []TypeOK
  <1>1. Init => ReadFits
    BY EmptySeq, BufAssumption, BoundAssumption DEF Init, ReadFits
  <1>2. Commands \subseteq Seq(Byte)
    BY CommandFrame DEF Commands
  <1>3. StreamInv /\ ReadFits => TypeOK
    <2>1. Seq(Commands) \subseteq Seq(Seq(Byte))
      BY <1>2, SeqMonotonic
    <2> QED BY <2>1 DEF StreamInv, Queues, RoomLeft, Places, ReadFits, TypeOK
  <1>4. Spec => []ReadFits
    BY <1>1, StepReadFits, StreamInvariant, PTL DEF Spec
  <1> QED BY <1>3, <1>4, StreamInvariant, PTL

\* serial.c and ip.c hand out each byte that came since the transport was
\* opened once and in order, and nothing only when there is nothing, whatever
\* the BMS, the link and the peer do.
THEOREM TransportsImplementStream == Spec => ImplementsStream
  <1>1. Init => Bytes!Init
    BY DEF Init, Bytes!Init, IsUp
  <1>2. StreamInv /\ [Next]_vars => [Bytes!Next]_(Bytes!svars)
    BY StepMaps
  <1> QED BY <1>1, <1>2, StreamInvariant, PTL DEF Spec, ImplementsStream, Bytes!Spec
=============================================================================
