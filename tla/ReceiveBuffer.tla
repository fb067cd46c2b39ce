---------------------------- MODULE ReceiveBuffer ----------------------------
(***************************************************************************)
(* What jbd_rw() needs of a transport that receives in the background: a   *)
(* byte buffer with atomic operations.  Numbered notifications are added   *)
(* whole, or dropped whole when there is no room; a read hands out the     *)
(* front and empties the buffer; a write empties it before it sends.       *)
(***************************************************************************)
EXTENDS Naturals, Sequences

CONSTANTS Size,   \* bytes the buffer holds
          Most,   \* bytes one read hands out at most
          Chunk   \* lengths of notifications

VARIABLES buf,    \* bytes waiting, each the number of its notification
          last,   \* number of the last notification added
          read    \* what the last read handed out

bvars == <<buf, last, read>>

Init == buf = <<>> /\ last = 0 /\ read = <<>>

Front(s) == SubSeq(s, 1, IF Len(s) < Most THEN Len(s) ELSE Most)

\* Numbers only grow; the ones left out were dropped.
Arrive == \E n \in Chunk :
            /\ Len(buf) + n <= Size
            /\ last' > last
            /\ buf' = buf \o [i \in 1..n |-> last']
            /\ UNCHANGED read

Take == /\ buf # <<>>
        /\ read' = Front(buf)
        /\ buf' = <<>>
        /\ UNCHANGED last

\* A read that found nothing in time.
TimeOut == read' = <<>> /\ UNCHANGED <<buf, last>>

Clear == buf' = <<>> /\ UNCHANGED <<last, read>>

Next == Arrive \/ Take \/ TimeOut \/ Clear

Spec == Init /\ [][Next]_bvars
=============================================================================
