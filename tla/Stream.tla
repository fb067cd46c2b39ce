-------------------------------- MODULE Stream --------------------------------
(***************************************************************************)
(* The serial and ip transports (serial.c, ip.c) under jbd_rw(): bytes of  *)
(* replies arrive one by one in the kernel's buffer; a read is select()    *)
(* with a time limit and read() or recv().  serial takes what one read()   *)
(* gives, ip goes on until nothing comes for a while or its buffer is      *)
(* full.  Neither knows where a frame ends: jbd_verify() looks at whatever *)
(* one read returned.                                                      *)
(*                                                                         *)
(* The BMS answers a request late or not at all, with its data or with an  *)
(* error status; a byte may be lost or damaged; the peer of a TCP          *)
(* connection may close it, and either link may break down.                *)
(***************************************************************************)
EXTENDS Frame

CONSTANTS Requests,   \* what callers ask: [action, reg, data] each
          Data,       \* what the BMS answers to a read, per register
          Options,    \* -t options of serial: [speed, data, parity, stop], 0 or "" when not given
          BUFLEN,     \* sizeof(buf) in jbd_rw, 256 in the code
          PKTSIZE,    \* sizeof(cmd) there, 256 in the code
          Noise,      \* values a damaged byte takes
          Err,        \* -1
          MaxAsk,     \* requests made (bound)
          MaxOpen,    \* times the transport is opened (bound)
          MaxFaults   \* bytes lost or damaged, links broken or closed (bound)

ASSUME BufAssumption   == BUFLEN \in Nat \ {0} /\ PKTSIZE \in Nat
ASSUME ErrAssumption   == Err \notin Seq(Byte)
ASSUME NoiseAssumption == Noise \subseteq Byte
\* Every request fits into cmd[], there is data for every register read, and the
\* number of bytes fits into the byte a frame has for it.
ASSUME RequestAssumption ==
    \A r \in Requests : /\ r.action \in {READ, WRITE} /\ r.reg \in Byte
                        /\ r.data \in Seq(Byte) /\ Len(r.data) < 256
                        /\ jbd_cmd(PKTSIZE, r.action, r.reg, r.data) # <<>>
                        /\ r.action = READ => Data[r.reg] \in Seq(Byte) /\ Len(Data[r.reg]) < 256
ASSUME BoundAssumption == MaxAsk \in Nat /\ MaxOpen \in Nat /\ MaxFaults \in Nat

VARIABLES kind,     \* serial | ip
          tty,      \* how the serial line is set
          pc,       \* closed, opening: before tcflush(), open, reading: from the write on;
                    \* failed: open() did, and main() ends; killed
          link,     \* up, closed: by the peer, broken
          asked,    \* register of the last request
          wire,     \* requests on their way to the BMS
          line,     \* bytes on their way back
          queue,    \* bytes the kernel holds for the reader
          buf,      \* what ip_read has gathered
          last,     \* what the read returned, nothing since the last write
          replied,  \* ghost: requests the BMS has answered
          asks, opens, faults

vars == <<kind, tty, pc, link, asked, wire, line, queue, buf, last, replied, asks, opens, faults>>

-----------------------------------------------------------------------------
(* The settings of the line. *)

Given(n, default) == IF n = 0 THEN default ELSE n

\* serial_new(): atoi() of an element that is missing is 0.
serial_new(o) == [speed  |-> Given(o.speed, 9600),
                  data   |-> Given(o.data, 8),
                  parity |-> CASE o.parity = "E" -> 1 [] o.parity = "O" -> 2 [] OTHER -> 0,
                  stop   |-> Given(o.stop, 1)]

Rates == {110, 150, 300, 600, 1200, 2400, 4800, 9600, 19200, 38400, 57600, 115200, 230400,
          460800, 500000, 576000, 921600}

\* set_interface_attribs(): the rate of an unknown speed is whatever the driver
\* makes of it (0 here).  vmin and vtime do not matter after FNDELAY.
attribs(s) == [rate   |-> IF s.speed \in Rates THEN s.speed ELSE 0,
               data   |-> IF s.data \in 5..8 THEN s.data ELSE 8,
               parity |-> s.parity,
               stop   |-> IF s.stop = 2 THEN 2 ELSE 1]

BmsLine == [rate |-> 9600, data |-> 8, parity |-> 0, stop |-> 1]

\* The BMS understands what is sent.  (On ip the line is not ours to set.)
Matched == tty = BmsLine

Init == /\ kind \in {"serial", "ip"}
        /\ IF kind = "serial" THEN tty \in {attribs(serial_new(o)) : o \in Options}
                              ELSE tty = BmsLine
        /\ pc = "closed" /\ link = "up" /\ asks = 0 /\ opens = 0 /\ faults = 0 /\ asked = 0
        /\ wire = <<>> /\ line = <<>> /\ queue = <<>> /\ buf = <<>> /\ last = <<>>
        /\ replied = {}

-----------------------------------------------------------------------------
(* Opening and closing. *)

Opened == opens < MaxOpen /\ opens' = opens + 1 /\ link' = "up"

\* open(): bytes that come from now on are kept.
SerialOpen == /\ kind = "serial" /\ pc = "closed"
              /\ Opened
              /\ pc' = "opening"
              /\ UNCHANGED <<kind, tty, asked, wire, line, queue, buf, last, replied, asks, faults>>

\* Mutant of Configure: no tcflush().
Configure_NoFlush == /\ pc = "opening"
                     /\ pc' = "open"
                     /\ UNCHANGED <<kind, tty, link, asked, wire, line, queue, buf, last, replied, asks, opens, faults>>

\* set_interface_attribs(), tcflush() at its end.
Configure == /\ pc = "opening"
             /\ queue' = <<>>
             /\ pc' = "open"
             /\ UNCHANGED <<kind, tty, link, asked, wire, line, buf, last, replied, asks, opens, faults>>

\* socket(), connect(): what was sent on an earlier connection is gone.
IpOpen == /\ kind = "ip" /\ pc = "closed"
          /\ Opened
          /\ line' = <<>>
          /\ pc' = "open"
          /\ UNCHANGED <<kind, tty, asked, wire, queue, buf, last, replied, asks, faults>>

\* main() ends when the transport does not open; ip_open() keeps the socket.
OpenFails == /\ pc = "closed"
             /\ pc' = "failed"
             /\ UNCHANGED <<kind, tty, link, asked, wire, line, queue, buf, last, replied, asks, opens, faults>>

Close == /\ pc = "open"
         /\ queue' = <<>>
         /\ link' = IF kind = "ip" THEN "closed" ELSE link
         /\ asked' = 0 /\ last' = <<>>
         /\ pc' = "closed"
         /\ UNCHANGED <<kind, tty, wire, line, buf, replied, asks, opens, faults>>

-----------------------------------------------------------------------------
(* Writing. *)

Ask(r) == /\ pc = "open"
          /\ asks < MaxAsk /\ asks' = asks + 1
          /\ asked' = r.reg
          /\ last' = <<>>
          /\ pc' = "reading"
          /\ UNCHANGED <<kind, tty, line, queue, buf, replied, opens, faults>>

\* The whole request goes out.
Write == \E r \in Requests :
            /\ Ask(r)
            /\ link = "up" /\ Matched
            /\ wire' = Append(wire, jbd_cmd(PKTSIZE, r.action, r.reg, r.data))
            /\ UNCHANGED link

\* It gets lost, and jbd_rw() does not look at the result: the line is set
\* wrong, or the link is not what it was.  The other side of a connection it has
\* closed answers with a reset.
WriteLost == \E r \in Requests :
                /\ Ask(r)
                /\ ~Matched \/ link = "closed" \/ (link = "broken" /\ kind = "serial")
                /\ link' \in IF link = "closed" THEN {"closed", "broken"} ELSE {link}
                /\ UNCHANGED wire

\* send() on a connection that was reset: SIGPIPE, which nobody handles.
WriteKills == /\ pc = "open"
              /\ kind = "ip" /\ link = "broken"
              /\ pc' = "killed"
              /\ UNCHANGED <<kind, tty, link, asked, wire, line, queue, buf, last, replied, asks, opens, faults>>

-----------------------------------------------------------------------------
(* Reading. *)

Take(n, s) == SubSeq(s, 1, n)
Rest(n, s) == SubSeq(s, n + 1, Len(s))
Least(a, b) == IF a < b THEN a ELSE b

\* The read returns s and leaves rest in the kernel.
Returns(s, rest) == /\ last' = s /\ queue' = rest
                    /\ buf' = <<>>
                    /\ pc' = "open"
                    /\ UNCHANGED <<kind, tty, link, asked, wire, line, replied, asks, opens, faults>>

Reading(k) == pc = "reading" /\ kind = k

\* One read() of at most buflen bytes.
SerialTake == /\ Reading("serial") /\ queue # <<>>
              /\ LET n == Least(BUFLEN, Len(queue))
                 IN Returns(Take(n, queue), Rest(n, queue))

\* select() < 1: nothing came in half a second.
SerialTimeout == Reading("serial") /\ queue = <<>> /\ Returns(<<>>, <<>>)

\* read() < 0.
SerialError == Reading("serial") /\ link = "broken" /\ Returns(Err, queue)

\* recv() took all there was, and there is room for more.
IpRecv == /\ Reading("ip") /\ queue # <<>>
          /\ Len(buf \o queue) < BUFLEN
          /\ buf' = buf \o queue /\ queue' = <<>>
          /\ UNCHANGED <<kind, tty, pc, link, asked, wire, line, last, replied, asks, opens, faults>>

\* Mutant of IpFull: recv() is given the whole length again.
IpFull_SameLength == /\ Reading("ip")
                     /\ Len(buf \o queue) >= BUFLEN
                     /\ Returns(buf \o Take(Least(BUFLEN, Len(queue)), queue), Rest(BUFLEN, queue))

\* if (buflen < 1) break;
IpFull == /\ Reading("ip")
          /\ Len(buf \o queue) >= BUFLEN
          /\ Returns(Take(BUFLEN, buf \o queue), Rest(BUFLEN, buf \o queue))

\* Mutant of IpTimeout: select() without a time limit.
IpTimeout_Never == Reading("ip") /\ FALSE /\ Returns(buf, <<>>)

\* if (!num) break; the time limit is for all rounds together.
IpTimeout == /\ Reading("ip") /\ queue = <<>>
             /\ link = "up" \/ line # <<>>
             /\ Returns(buf, <<>>)

\* recv() = 0: the peer has closed, and all it had sent was read.
IpEof == /\ Reading("ip") /\ queue = <<>> /\ line = <<>>
         /\ link # "up"
         /\ Returns(buf, <<>>)

\* recv() < 0: -1 is returned, and what was gathered is lost.
IpError == Reading("ip") /\ queue = <<>> /\ link = "broken" /\ Returns(Err, <<>>)

-----------------------------------------------------------------------------
(* The BMS and the link (external). *)

Fault == faults < MaxFaults /\ faults' = faults + 1

\* The BMS answers one request after the other, in its own time: with its data,
\* or with an error status.
Answers(request) == {Reply(request[3], 0, IF request[2] = READ THEN Data[request[3]] ELSE <<>>),
                     Reply(request[3], 128, <<>>)}

Execute == /\ wire # <<>> /\ line = <<>>
           /\ replied' = replied \cup {Head(wire)}
           /\ line' \in IF link = "up" THEN Answers(Head(wire)) ELSE {<<>>}
           /\ wire' = Tail(wire)
           /\ UNCHANGED <<kind, tty, pc, link, asked, queue, buf, last, asks, opens, faults>>

\* The request never reaches the BMS, or it does not answer.
Silent == /\ wire # <<>>
          /\ wire' = Tail(wire)
          /\ UNCHANGED <<kind, tty, pc, link, asked, line, queue, buf, last, replied, asks, opens, faults>>

Listening == pc \in {"opening", "open", "reading"}

\* A byte comes in as b; one that comes while nobody has the line open is gone.
Comes(b) == /\ line # <<>> /\ link # "broken"
            /\ line' = Tail(line)
            /\ queue' = IF Listening THEN Append(queue, b) ELSE queue
            /\ UNCHANGED <<kind, tty, pc, link, asked, wire, buf, last, replied, asks, opens>>

Arrive == Comes(Head(line)) /\ UNCHANGED faults

Damage == /\ Fault
          /\ line # <<>>
          /\ \E b \in Noise \ {Head(line)} : Comes(b)

Lose == /\ Fault
        /\ line # <<>>
        /\ line' = Tail(line)
        /\ UNCHANGED <<kind, tty, pc, link, asked, wire, queue, buf, last, replied, asks, opens>>

PeerCloses == /\ kind = "ip" /\ Listening /\ link = "up"
              /\ Fault
              /\ link' = "closed"
              /\ UNCHANGED <<kind, tty, pc, asked, wire, line, queue, buf, last, replied, asks, opens>>

\* A reset, or the device is unplugged: what the kernel holds may be lost.
Break == /\ Listening /\ link # "broken"
         /\ Fault
         /\ link' = "broken"
         /\ line' = <<>>
         /\ queue' \in {queue, <<>>}
         /\ UNCHANGED <<kind, tty, pc, asked, wire, buf, last, replied, asks, opens>>

-----------------------------------------------------------------------------
Read == \/ SerialTake \/ SerialTimeout \/ SerialError
        \/ IpRecv \/ IpFull \/ IpTimeout \/ IpEof \/ IpError

Client == \/ SerialOpen \/ Configure \/ IpOpen \/ OpenFails \/ Close
          \/ Write \/ WriteLost \/ WriteKills \/ Read

\* (What goes on when the program has ended is nobody's business.)
Peer == /\ pc \notin {"failed", "killed"}
        /\ \/ Execute \/ Silent \/ Arrive \/ Damage \/ Lose \/ PeerCloses \/ Break

Next == Client \/ Peer

Spec == Init /\ [][Next]_vars

\* The time limits of select(), and that the program goes on.
FairSpec == Spec /\ WF_vars(Read)

-----------------------------------------------------------------------------
TypeOK == /\ kind \in {"serial", "ip"}
          /\ pc \in {"closed", "opening", "open", "reading", "failed", "killed"}
          /\ link \in {"up", "closed", "broken"}
          /\ asked \in {0} \cup {r.reg : r \in Requests}
          /\ wire \in Seq(Seq(Byte))
          /\ line \in Seq(Byte) /\ queue \in Seq(Byte)
          /\ buf \in Seq(Byte) /\ Len(buf) < BUFLEN
          /\ last # Err => last \in Seq(Byte) /\ Len(last) =< BUFLEN
          /\ asks \in 0..MaxAsk /\ opens \in 0..MaxOpen /\ faults \in 0..MaxFaults

Accepted == pc = "open" /\ last # Err /\ jbd_verify(last, asked)

\* However replies are cut, run together, delayed past a timeout, a close or
\* an open, and whatever one fault does to them: what jbd_verify() lets through is
\* the whole answer to a request that was sent, from its status to its end, and
\* without damage it is one to a request for this register.  (The register byte
\* is not part of the checksum.)
AcceptedIsReply ==
    Accepted => \E request \in replied : \E reply \in Answers(request) :
                   /\ Rest(2, last) = Rest(2, reply)
                   /\ faults = 0 => last = reply

\* Every read returns, whatever comes: serial after one select(), ip when
\* nothing comes for its time or buf is full.
ReadReturns == (pc = "reading") ~> (pc # "reading")

\* The stream the transports implement: what ip_read has gathered and what the
\* kernel holds.  Bytes from before tcflush() never come up.
IsUp == pc \in {"open", "reading"}
Bytes == INSTANCE ByteStream WITH
            up <- IsUp, avail <- IF IsUp THEN buf \o queue ELSE <<>>, Most <- BUFLEN

ImplementsStream == Bytes!Spec
=============================================================================
