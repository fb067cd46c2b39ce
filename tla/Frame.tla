-------------------------------- MODULE Frame --------------------------------
(***************************************************************************)
(* The bytes jbd_rw() puts on a stream and takes from it (jbd.c).  A       *)
(* request is START action reg len data crc END, a reply START reg status  *)
(* len data crc END.  The checksum is minus the sum of the bytes from reg  *)
(* (a request) or status (a reply) to the end of the data, in 16 bits; it  *)
(* does not cover the register a reply names.                              *)
(***************************************************************************)
EXTENDS Integers, Sequences, SequencesExt

Byte     == 0..255
START    == 221      \* 0xDD
END      == 119      \* 0x77
READ     == 165      \* 0xA5
WRITE    == 90       \* 0x5A
OVERHEAD == 7        \* bytes of a frame that are not data

\* crc -= data[i] for each byte, an unsigned short.
jbd_crc(data) ==
    LET crc[n \in 0..Len(data)] == IF n = 0 THEN 0 ELSE (crc[n - 1] - data[n]) % 65536
    IN crc[Len(data)]

Word(hi, lo) == hi * 256 + lo

\* START a b len data crc END, the checksum over what follows a or b.
Closed(a, b, summed) ==
    <<a, b>> \o summed \o <<jbd_crc(summed) \div 256, jbd_crc(summed) % 256, END>>

\* The request, or nothing when the data does not fit (pkt_size).  A read has none.
jbd_cmd(pkt_size, action, reg, data) ==
    LET body == IF action = READ THEN <<>> ELSE data
    IN IF 4 + Len(body) > pkt_size THEN <<>>
       ELSE Closed(START, action, <<reg, Len(body)>> \o body)

\* The reply of the BMS.
Reply(reg, status, data) == Closed(START, reg, <<status, Len(data)>> \o data)

\* Mutant of jbd_verify: what comes after the frame does not matter.
jbd_verify_AnyLength(buf, reg) ==
    /\ Len(buf) >= OVERHEAD
    /\ buf[1] = START /\ buf[2] = reg
    /\ buf[4] =< Len(buf) - OVERHEAD
    /\ Word(buf[5 + buf[4]], buf[6 + buf[4]]) = jbd_crc(SubSeq(buf, 3, 4 + buf[4]))
    /\ buf[7 + buf[4]] = END

\* What one read() returned is one frame that answers reg.  The status byte is
\* summed, but not looked at.
jbd_verify(buf, reg) ==
    /\ Len(buf) >= OVERHEAD
    /\ buf[1] = START /\ buf[2] = reg
    /\ buf[4] = Len(buf) - OVERHEAD
    /\ Word(buf[5 + buf[4]], buf[6 + buf[4]]) = jbd_crc(SubSeq(buf, 3, 4 + buf[4]))
    /\ buf[7 + buf[4]] = END
=============================================================================
