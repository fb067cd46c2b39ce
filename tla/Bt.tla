---------------------------------- MODULE Bt ----------------------------------
(***************************************************************************)
(* The Bluetooth transport (bt.c): the thread of main() that opens, writes,*)
(* reads and closes, and the GLib thread bt_open() starts, which runs      *)
(* on_properties_changed() for every notification of the BMS.  The two     *)
(* share data[] and len under data_lock.                                   *)
(*                                                                         *)
(* Two things outlive bt_close(): the mutex is destroyed there but made    *)
(* only in bt_new(), so from the second open on the lock calls may do      *)
(* nothing; and the signal subscription is never cancelled, it goes when   *)
(* GLib drops the bus connection.  D-Bus and GLib are external.            *)
(***************************************************************************)
EXTENDS Naturals, Sequences

CONSTANTS SIZE,      \* sizeof(data), 4096 in the code
          BUFLEN,    \* buflen of the caller, 256 in jbd_rw
          RETRIES,   \* looks at the buffer per read, 10 in the code
          Chunk,     \* lengths of notifications
          MaxNote,   \* notifications the BMS sends (bound)
          MaxOpen    \* times the transport is opened (bound)

ASSUME SizeAssumption  == SIZE \in Nat \ {0} /\ BUFLEN \in Nat \ {0} /\ RETRIES \in Nat \ {0}
ASSUME ChunkAssumption == Chunk \subseteq Nat \ {0}
ASSUME BoundAssumption == MaxNote \in Nat /\ MaxOpen \in Nat

VARIABLES pc,      \* the main thread
          retries, \* local of bt_read
          out,     \* the caller's buffer, as bt_read fills it
          ret,     \* what the last bt_read handed to its caller
          got,     \* history: last notification handed to the caller
          data, len, \* the receive buffer
          mutex,   \* owner of data_lock: none, main, loop
          dead,    \* the lock was destroyed and excludes nobody any more
          thread,  \* the GLib thread
          note,    \* the notification the callback works on
          at,      \* s->len as the callback read it first
          added,   \* history: last notification added to the buffer
          running, \* main_loop's flag
          subs,    \* live subscriptions to the notifications
          queue,   \* signals waiting to be dispatched
          sent,    \* notifications sent so far
          opens    \* times opened

main == <<pc, retries, out, ret, got>>
loop == <<thread, note, at, added>>
glib == <<running, subs, queue>>
vars == <<main, data, len, mutex, dead, loop, glib, sent, opens>>

Note == [id : 1..MaxNote, n : Chunk]
NoNote == [id |-> 0, n |-> 0]

Init == /\ pc = "closed" /\ retries = 0 /\ out = <<>> /\ ret = <<>> /\ got = 0
        /\ data = [i \in 1..SIZE |-> 0] /\ len = 0
        /\ mutex = "none" /\ dead = FALSE
        /\ thread = "none" /\ note = NoNote /\ at = 0 /\ added = 0
        /\ running = FALSE /\ subs = 0 /\ queue = <<>>
        /\ sent = 0 /\ opens = 0

\* pthread_mutex_lock()/unlock(), their results ignored.
Lock(t)  == IF dead THEN UNCHANGED mutex ELSE mutex = "none" /\ mutex' = t
Unlock   == IF dead THEN UNCHANGED mutex ELSE mutex' = "none"

-----------------------------------------------------------------------------
(* bt_open() *)

\* D-Bus, Connect or the search for the two characteristics fails, or after
\* them pthread_create(): 1, and every caller exits.
OpenFails == /\ pc \in {"closed", "create"}
             /\ pc' = "exit"
             /\ UNCHANGED <<retries, out, ret, got, data, len, mutex, dead, loop, glib, sent, opens>>

\* Connected and found: a new main loop, and one more subscription.
Subscribe == /\ pc = "closed"
             /\ opens < MaxOpen
             /\ opens' = opens + 1
             /\ running' = FALSE
             /\ subs' = subs + 1
             /\ pc' = "create"
             /\ UNCHANGED <<retries, out, ret, got, data, len, mutex, dead, loop, queue, sent>>

CreateThread == /\ pc = "create"
                /\ thread' = "created"
                /\ pc' = "open"
                /\ UNCHANGED <<retries, out, ret, got, data, len, mutex, dead, note, at, added, glib, sent, opens>>

-----------------------------------------------------------------------------
(* bt_write() *)

WriteLock == /\ pc = "open"
             /\ Lock("main")
             /\ pc' = "clear"
             /\ UNCHANGED <<retries, out, ret, got, data, len, dead, loop, glib, sent, opens>>

\* The buffer is emptied, then the request sent (or not: the result is the
\* caller's).
WriteClear == /\ pc = "clear"
              /\ len' = 0
              /\ Unlock
              /\ pc' = "open"
              /\ UNCHANGED <<retries, out, ret, got, data, dead, loop, glib, sent, opens>>

-----------------------------------------------------------------------------
(* bt_read() *)

ReadCall == /\ pc = "open"
            /\ retries' = RETRIES
            /\ pc' = "read"
            /\ UNCHANGED <<out, ret, got, data, len, mutex, dead, loop, glib, sent, opens>>

ReadLock == /\ pc = "read"
            /\ Lock("main")
            /\ pc' = "look"
            /\ UNCHANGED <<retries, out, ret, got, data, len, dead, loop, glib, sent, opens>>

\* len > 0: copied to the caller, as much as fits.
ReadCopy == /\ pc = "look"
            /\ len > 0
            /\ out' = SubSeq(data, 1, IF len > BUFLEN THEN BUFLEN ELSE len)
            /\ pc' = "empty"
            /\ UNCHANGED <<retries, ret, got, data, len, mutex, dead, loop, glib, sent, opens>>

\* Mutant of ReadEmpty: the buffer keeps what was handed out.
ReadEmpty_KeepsLen == /\ pc = "empty"
                      /\ Unlock
                      /\ ret' = out
                      /\ got' = out[Len(out)]
                      /\ pc' = "open"
                      /\ UNCHANGED <<retries, out, data, len, dead, loop, glib, sent, opens>>

ReadEmpty == /\ pc = "empty"
             /\ len' = 0
             /\ Unlock
             /\ ret' = out
             /\ got' = out[Len(out)]
             /\ pc' = "open"
             /\ UNCHANGED <<retries, out, data, dead, loop, glib, sent, opens>>

\* Mutant of ReadNothing: the looks are not counted.
ReadNothing_Uncounted == /\ pc = "look"
                         /\ len = 0
                         /\ Unlock
                         /\ pc' = "read"
                         /\ UNCHANGED <<retries, out, ret, got, data, len, dead, loop, glib, sent, opens>>

\* Nothing there: sleep and look again, or return 0 the last time.
ReadNothing == /\ pc = "look"
               /\ len = 0
               /\ Unlock
               /\ retries' = retries - 1
               /\ IF retries' = 0 THEN pc' = "open" /\ ret' = <<>>
                                  ELSE pc' = "read" /\ UNCHANGED ret
               /\ UNCHANGED <<out, got, data, len, dead, loop, glib, sent, opens>>

-----------------------------------------------------------------------------
(* bt_close() *)

\* Mutant of Quit: it is done under the lock.
Quit_Locked == /\ pc = "open"
               /\ Lock("main")
               /\ running' = FALSE
               /\ pc' = "join"
               /\ UNCHANGED <<retries, out, ret, got, data, len, dead, loop, subs, queue, sent, opens>>

\* StopNotify (its failure ignored), then g_main_loop_quit().
Quit == /\ pc = "open"
        /\ running' = FALSE
        /\ pc' = "join"
        /\ UNCHANGED <<retries, out, ret, got, data, len, mutex, dead, loop, subs, queue, sent, opens>>

\* Mutant of Join: the thread is left to itself.
Join_NoWait == /\ pc = "join"
               /\ pc' = "destroy"
               /\ UNCHANGED <<retries, out, ret, got, data, len, mutex, dead, loop, glib, sent, opens>>

Join == /\ pc = "join"
        /\ thread = "ended"
        /\ pc' = "destroy"
        /\ UNCHANGED <<retries, out, ret, got, data, len, mutex, dead, loop, glib, sent, opens>>

\* Disconnect, drop the bus connection, destroy the mutex.  A signal still
\* waiting keeps the connection and its subscriptions alive.  What locking a
\* destroyed mutex does depends on the C library: it works on, or nothing.
Destroy == /\ pc = "destroy"
           /\ \E d \in BOOLEAN : dead' = (dead \/ d)
           /\ subs' = IF queue = <<>> THEN 0 ELSE subs
           /\ pc' = "closed"
           /\ UNCHANGED <<retries, out, ret, got, data, len, mutex, loop, running, queue, sent, opens>>

-----------------------------------------------------------------------------
(* The GLib thread. *)

\* g_main_loop_run() raises the flag when the thread gets there.
RunLoop == /\ thread = "created"
           /\ running' = TRUE
           /\ thread' = "loop"
           /\ UNCHANGED <<main, data, len, mutex, dead, note, at, added, subs, queue, sent, opens>>

\* The flag is looked at between rounds; a round may dispatch many signals.
LoopEnds == /\ thread = "loop"
            /\ ~running
            /\ thread' = "ended"
            /\ UNCHANGED <<main, data, len, mutex, dead, note, at, added, glib, sent, opens>>

\* on_properties_changed() is called for the next signal.
Dispatch == /\ thread = "loop"
            /\ queue # <<>>
            /\ note' = Head(queue)
            /\ queue' = Tail(queue)
            /\ thread' = "lock"
            /\ UNCHANGED <<main, data, len, mutex, dead, at, added, running, subs, sent, opens>>

\* Mutant of CallbackLock: the callback does not lock.
CallbackLock_None == /\ thread = "lock"
                     /\ thread' = "check"
                     /\ UNCHANGED <<main, data, len, mutex, dead, note, at, added, glib, sent, opens>>

CallbackLock == /\ thread = "lock"
                /\ Lock("loop")
                /\ thread' = "check"
                /\ UNCHANGED <<main, data, len, dead, note, at, added, glib, sent, opens>>

\* Mutant of Fits: off by one.
Fits_OneMore(n) == len + n <= SIZE + 1
Fits(n) == len + n <= SIZE

Check == /\ thread = "check"
         /\ at' = len
         /\ IF Fits(note.n) THEN thread' = "copy" /\ UNCHANGED mutex
                            ELSE thread' = "loop" /\ Unlock
         /\ UNCHANGED <<main, data, len, dead, note, added, glib, sent, opens>>

\* memcpy(&s->data[s->len], ...) and s->len += data_len: a build reads
\* s->len again or keeps the first value, which only matters without a lock.
Copy == /\ thread = "copy"
        /\ \E i \in {at, len} :
              data' = [j \in 1..SIZE |-> IF j \in (i + 1)..(i + note.n) THEN note.id ELSE data[j]]
        /\ thread' = "add"
        /\ UNCHANGED <<main, len, mutex, dead, note, at, added, glib, sent, opens>>

Add == /\ thread = "add"
       /\ \E i \in {at, len} : len' = i + note.n
       /\ added' = note.id
       /\ Unlock
       /\ thread' = "loop"
       /\ UNCHANGED <<main, data, dead, note, at, glib, sent, opens>>

\* The BMS notifies; every subscription gets its own signal.
Notify == /\ subs > 0
          /\ sent < MaxNote
          /\ sent' = sent + 1
          /\ \E n \in Chunk :
                queue' = queue \o [i \in 1..subs |-> [id |-> sent', n |-> n]]
          /\ UNCHANGED <<main, data, len, mutex, dead, loop, running, subs, opens>>

-----------------------------------------------------------------------------
Main == \/ OpenFails \/ Subscribe   \/ CreateThread \/ WriteLock \/ WriteClear
        \/ ReadCall  \/ ReadLock    \/ ReadCopy     \/ ReadEmpty \/ ReadNothing
        \/ Quit      \/ Join        \/ Destroy
Loop == RunLoop \/ LoopEnds \/ Dispatch \/ CallbackLock \/ Check \/ Copy \/ Add

Next == Main \/ Loop \/ Notify

Spec == Init /\ [][Next]_vars

\* Both threads run on; nothing makes main() call anything, or the BMS send.
InCall == WriteClear \/ ReadLock \/ ReadCopy \/ ReadEmpty \/ ReadNothing \/ Join \/ Destroy

FairSpec == Spec /\ WF_vars(InCall) /\ WF_vars(Loop)

-----------------------------------------------------------------------------
TypeOK == /\ pc \in {"closed", "exit", "create", "open", "clear", "read", "look",
                     "empty", "join", "destroy"}
          /\ retries \in 0..RETRIES
          /\ data \in [1..SIZE -> 0..MaxNote]
          /\ len \in 0..SIZE
          /\ out \in Seq(0..MaxNote) /\ ret \in Seq(0..MaxNote)
          /\ Len(out) <= BUFLEN /\ Len(ret) <= BUFLEN
          /\ got \in 0..MaxNote /\ added \in 0..MaxNote
          /\ mutex \in {"none", "main", "loop"} /\ dead \in BOOLEAN
          /\ thread \in {"none", "created", "loop", "lock", "check", "copy", "add", "ended"}
          /\ note \in Note \cup {NoNote}
          /\ at \in 0..SIZE
          /\ running \in BOOLEAN /\ subs \in 0..MaxOpen
          /\ queue \in Seq(Note)
          /\ sent \in 0..MaxNote /\ opens \in 0..MaxOpen

\* The callback stays inside data[], whichever value of s->len the build uses
\* and even when the lock excludes nobody: only the callback makes s->len
\* larger.
InsideData == thread \in {"copy", "add"} => len <= at /\ at + note.n <= SIZE

\* The callback never runs on a transport that is closed or about to destroy
\* its lock, and the lock is destroyed unheld.
LockUnusedAtDestroy ==
    pc \in {"destroy", "closed"} => thread \in {"none", "ended"} /\ mutex = "none"

\* While the transport is open for the first time, a read hands out only
\* notifications that no read has handed out, in the order they came.
AnswersFresh ==
    [][opens = 1 /\ pc = "empty" /\ pc' = "open" =>
          /\ ret'[1] > got
          /\ \A i \in 1..(Len(ret') - 1) : ret'[i] <= ret'[i + 1]]_vars

\* Until it is closed the first time the transport is an atomic buffer.
Buffer == INSTANCE ReceiveBuffer
            WITH Size <- SIZE, Most <- BUFLEN,
                 buf <- SubSeq(data, 1, len), last <- added, read <- ret

ImplementsBuffer == Buffer!Init /\ [][opens <= 1 => Buffer!Next]_Buffer!bvars

\* A read ends, with or without data, whatever the BMS and the lock do.
ReadReturns == pc \in {"read", "look", "empty"} ~> pc = "open"

\* The join does end once the GLib thread was in its loop at the quit.
JoinReturns == (pc = "join" /\ thread # "created" /\ ~running) ~> pc = "closed"
=============================================================================
