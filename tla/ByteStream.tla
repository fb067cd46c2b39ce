----------------------------- MODULE ByteStream -----------------------------
(***************************************************************************)
(* What jbd_rw() needs of serial and ip: a stream that is empty when it is *)
(* opened, to which bytes are added at the end, and from which a read      *)
(* hands out the front, each byte once and in order.  A read returns all   *)
(* there is, up to the room its caller has, and nothing only when there is *)
(* nothing; the rest stays for the next one.  A read that fails may lose   *)
(* bytes, but never their order.                                           *)
(***************************************************************************)
EXTENDS Naturals, Sequences, SequencesExt

CONSTANTS Most,   \* bytes a read hands out at most
          Err     \* what a read that fails returns

VARIABLES up,     \* open
          avail,  \* bytes that have come since it was opened and wait to be read
          last    \* what the last read returned, nothing since the last write or close

svars == <<up, avail, last>>

Take(n, s) == SubSeq(s, 1, n)
Rest(n, s) == SubSeq(s, n + 1, Len(s))
Least(a, b) == IF a < b THEN a ELSE b

Init == up = FALSE /\ avail = <<>> /\ last = <<>>

Open == ~up /\ up' = TRUE /\ avail' = <<>> /\ UNCHANGED last

Close == up /\ up' = FALSE /\ avail' = <<>> /\ last' \in {<<>>, last}

Arrive == up /\ IsStrictPrefix(avail, avail') /\ UNCHANGED <<up, last>>

Write == up /\ last' = <<>> /\ UNCHANGED <<up, avail>>

Read == /\ up
        /\ LET n == Least(Most, Len(avail))
           IN last' = Take(n, avail) /\ avail' = Rest(n, avail)
        /\ UNCHANGED up

Fail == up /\ last' = Err /\ IsSuffix(avail', avail) /\ UNCHANGED up

\* The line breaks down; what has come may go with it.
Drop == up /\ IsPrefix(avail', avail) /\ UNCHANGED <<up, last>>

Next == Open \/ Close \/ Arrive \/ Write \/ Read \/ Fail \/ Drop

Spec == Init /\ [][Next]_svars
=============================================================================
