------------------------------- MODULE BtProofs -------------------------------
(* Theorems about Bt.  The safety of the buffer bounds does not rest on the  *)
(* lock: it holds although the lock may exclude nobody (dead).  What the     *)
(* first open promises does: FirstOpen adds to BtInv that the lock excludes  *)
(* (Excludes, Undisturbed) and that notes keep their order (InOrder,         *)
(* Waiting), and from it Bt implements ReceiveBuffer.                        *)
EXTENDS Bt, SequenceTheorems, TLAPS

\* Who holds the lock is inside its critical section.
LockOwner == /\ mutex = "main" => pc \in {"clear", "look", "empty"}
             /\ mutex = "loop" => thread \in {"check", "copy", "add"}
             /\ dead => mutex = "none"

\* There is a GLib thread only between CreateThread and Join.
ThreadAlive ==
    pc \in {"closed", "create", "destroy", "exit"} => thread \in {"none", "ended"}

\* bt_read copied something before it empties the buffer.
OutFilled == pc = "empty" => out # <<>>

\* bt_read's loop: while (retries > 0).
LooksLeft == pc \in {"read", "look"} => retries > 0

\* No more subscriptions than opens.
SubsBound == subs <= opens

BtInv == /\ TypeOK /\ InsideData
         /\ LockOwner /\ ThreadAlive /\ OutFilled /\ LooksLeft /\ SubsBound

\* The initial state: a new transport, nothing received, lock free.
LEMMA InitBtInv == Init => BtInv
  <1> SUFFICES ASSUME Init PROVE BtInv
      OBVIOUS
  <1> USE SizeAssumption, BoundAssumption DEF Init
  <1>1. out \in Seq(0..MaxNote) /\ ret \in Seq(0..MaxNote) /\ queue \in Seq(Note)
      OBVIOUS
  <1>2. Len(out) <= BUFLEN /\ Len(ret) <= BUFLEN
      OBVIOUS
  <1>3. dead \in BOOLEAN /\ running \in BOOLEAN
      BY Zenon
  <1>4. data \in [1..SIZE -> 0..MaxNote]
      OBVIOUS
  <1>5. TypeOK
      BY <1>1, <1>2, <1>3, <1>4 DEF TypeOK
  <1> QED BY <1>5 DEF BtInv, LockOwner, ThreadAlive, OutFilled, InsideData, LooksLeft, SubsBound

\* A function on 1..n is a sequence of length n.
LEMMA FunctionIsSeq ==
  ASSUME NEW S, NEW n \in Nat, NEW f \in [1..n -> S]
  PROVE  f \in Seq(S) /\ Len(f) = n
  OBVIOUS

\* What ReadCopy hands out: at least one byte, and no more than fits.
LEMMA CopyOut ==
  ASSUME BtInv, ReadCopy
  PROVE  out' \in Seq(0..MaxNote) /\ Len(out') \in 1..BUFLEN
  <1> DEFINE n == IF len > BUFLEN THEN BUFLEN ELSE len
  <1> USE SizeAssumption DEF BtInv, TypeOK, ReadCopy
  <1>1. n \in Nat /\ n \in 1..SIZE /\ n \in 1..BUFLEN
      OBVIOUS
  <1>2. out' = [i \in 1..n |-> data[i]]
      BY <1>1
  <1>4. data \in [1..SIZE -> 0..MaxNote]
      OBVIOUS
  <1> HIDE DEF n, TypeOK, BtInv, ReadCopy
  <1>3. out' \in [1..n -> 0..MaxNote]
      <2>1. \A i \in 1..n : data[i] \in 0..MaxNote
          BY <1>1, <1>4
      <2> QED BY <1>2, <2>1
  <1> QED BY <1>1, <1>3, FunctionIsSeq

\* Every step of main() and of the GLib thread keeps the types.
LEMMA TypeStep == BtInv /\ [Next]_vars => TypeOK'
  <1> SUFFICES ASSUME BtInv, [Next]_vars PROVE TypeOK'
      OBVIOUS
  <1> USE SizeAssumption, BoundAssumption, ChunkAssumption
      DEF BtInv, TypeOK, Lock, Unlock, main, loop, glib
  <1>1. CASE OpenFails
      BY <1>1 DEF OpenFails
  <1>2. CASE Subscribe
      <2>1. subs' \in 0..MaxOpen /\ opens' \in 0..MaxOpen
          BY <1>2 DEF Subscribe, SubsBound
      <2>2. running' \in BOOLEAN
          BY <1>2, Zenon DEF Subscribe
      <2> QED BY <1>2, <2>1, <2>2 DEF Subscribe
  <1>3. CASE CreateThread
      BY <1>3 DEF CreateThread
  <1>4. CASE WriteLock
      BY <1>4 DEF WriteLock
  <1>5. CASE WriteClear
      BY <1>5 DEF WriteClear
  <1>6. CASE ReadCall
      BY <1>6 DEF ReadCall
  <1>7. CASE ReadLock
      BY <1>7 DEF ReadLock
  <1>8. CASE ReadCopy
      <2>1. out' \in Seq(0..MaxNote) /\ Len(out') \in 1..BUFLEN
          BY <1>8, CopyOut
      <2> QED BY <1>8, <2>1 DEF ReadCopy
  <1>9. CASE ReadEmpty
      <2>1. out[Len(out)] \in 0..MaxNote
          BY <1>9 DEF ReadEmpty, OutFilled
      <2> QED BY <1>9, <2>1 DEF ReadEmpty
  <1>10. CASE ReadNothing
      <2>1. retries' \in 0..RETRIES
          BY <1>10 DEF ReadNothing, LooksLeft
      <2>2. ret' \in Seq(0..MaxNote) /\ Len(ret') <= BUFLEN
          <3>1. ret' = <<>> \/ ret' = ret
              BY <1>10, Zenon DEF ReadNothing
          <3>2. <<>> \in Seq(0..MaxNote) /\ Len(<<>>) <= BUFLEN
              OBVIOUS
          <3> QED BY <3>1, <3>2
      <2>3. pc' \in {"open", "read"} /\ mutex' \in {"none", "main", "loop"}
          BY <1>10 DEF ReadNothing
      <2> QED BY <1>10, <2>1, <2>2, <2>3 DEF ReadNothing
  <1>11. CASE Quit
      BY <1>11 DEF Quit
  <1>12. CASE Join
      BY <1>12 DEF Join
  <1>13. CASE Destroy
      BY <1>13 DEF Destroy
  <1>14. CASE RunLoop
      BY <1>14 DEF RunLoop
  <1>15. CASE LoopEnds
      BY <1>15 DEF LoopEnds
  <1>16. CASE Dispatch
      BY <1>16 DEF Dispatch
  <1>17. CASE CallbackLock
      BY <1>17 DEF CallbackLock
  <1>18. CASE Check
      BY <1>18 DEF Check
  <1>19. CASE Copy
      BY <1>19 DEF Copy, Note, NoNote
  <1>20. CASE Add
      <2>1. note.n \in Nat /\ note.id \in 0..MaxNote
          <3>1. CASE note \in Note
              <4>1. note.n \in Chunk /\ note.id \in 1..MaxNote
                  BY <3>1 DEF Note
              <4>2. note.n \in Nat
                  BY <4>1, Zenon
              <4>3. note.id \in 0..MaxNote
                  BY <4>1
              <4> QED BY <4>2, <4>3
          <3>2. CASE note = NoNote
              BY <3>2 DEF NoNote
          <3> QED BY <3>1, <3>2
      <2>2. len' \in 0..SIZE
          <3>1. thread = "add" /\ (len' = at + note.n \/ len' = len + note.n)
              BY <1>20, Zenon DEF Add
          <3>2. len <= at /\ at + note.n <= SIZE
              BY <3>1 DEF InsideData
          <3> HIDE DEF TypeOK
          <3>3. len \in 0..SIZE /\ at \in 0..SIZE
              BY DEF TypeOK
          <3> QED BY <2>1, <3>1, <3>2, <3>3
      <2> QED BY <1>20, <2>1, <2>2 DEF Add
  <1>21. CASE Notify
      <2> PICK n \in Chunk : queue' = queue \o [i \in 1..subs |-> [id |-> sent', n |-> n]]
          BY <1>21 DEF Notify
      <2>1. [id |-> sent', n |-> n] \in Note /\ sent' \in 0..MaxNote
          BY <1>21 DEF Notify, Note
      <2>2. [i \in 1..subs |-> [id |-> sent', n |-> n]] \in Seq(Note)
          BY <2>1, FunctionIsSeq
      <2> DEFINE new == [i \in 1..subs |-> [id |-> sent', n |-> n]]
      <2> HIDE DEF new
      <2>4. \A q, r \in Seq(Note) : q \o r \in Seq(Note)
          OBVIOUS
      <2>3. queue' \in Seq(Note)
          <3>1. new \in Seq(Note)
              BY <2>2 DEF new
          <3>2. queue' = queue \o new
              BY DEF new
          <3> QED BY <2>4, <3>1, <3>2, Zenon
      <2> QED BY <1>21, <2>1, <2>3 DEF Notify
  <1>22. CASE UNCHANGED vars
      BY <1>22 DEF vars
  <1> QED
      BY <1>1, <1>2, <1>3, <1>4, <1>5, <1>6, <1>7, <1>8, <1>9, <1>10, <1>11, <1>12, <1>13,
         <1>14, <1>15, <1>16, <1>17, <1>18, <1>19, <1>20, <1>21, <1>22
      DEF Next, Main, Loop

\* data_lock stays with the thread that took it until that thread gives it up.
LEMMA LockOwnerStep == BtInv /\ [Next]_vars => LockOwner'
  <1> SUFFICES ASSUME BtInv, [Next]_vars PROVE LockOwner'
      OBVIOUS
  <1> USE DEF BtInv, LockOwner, Lock, Unlock
  <1>1. CASE OpenFails \/ Subscribe \/ CreateThread \/ ReadCall \/ ReadCopy \/ Quit \/ Join
        BY <1>1, SMT DEF OpenFails, Subscribe, CreateThread, ReadCall, ReadCopy, Quit, Join,
                         ThreadAlive, main, loop, glib
  <1>2. CASE WriteLock \/ WriteClear \/ ReadLock \/ ReadEmpty \/ ReadNothing
        BY <1>2, SMT DEF WriteLock, WriteClear, ReadLock, ReadEmpty, ReadNothing, main, loop, glib
  <1>3. CASE Destroy
        BY <1>3, SMT DEF Destroy, ThreadAlive, TypeOK, main, loop, glib
  <1>4. CASE Loop \/ Notify
        BY <1>4, SMT DEF Loop, RunLoop, LoopEnds, Dispatch, CallbackLock, Check, Copy, Add,
                         Notify, main, loop, glib
  <1>5. CASE UNCHANGED vars
        BY <1>5 DEF vars, main, loop, glib
  <1> QED BY <1>1, <1>2, <1>3, <1>4, <1>5 DEF Next, Main

\* The callback's index stays inside data[]: main() only makes s->len smaller.
LEMMA InsideStep == BtInv /\ [Next]_vars => InsideData'
  <1> SUFFICES ASSUME BtInv, [Next]_vars PROVE InsideData'
      OBVIOUS
  <1> USE SizeAssumption DEF BtInv, TypeOK, InsideData, main, loop, glib
  <1>1. CASE Check
      BY <1>1 DEF Check, Fits
  <1>2. CASE Add
      BY <1>2 DEF Add
  <1>3. CASE RunLoop \/ LoopEnds \/ Dispatch \/ CallbackLock \/ Copy \/ Notify
      BY <1>3 DEF RunLoop, LoopEnds, Dispatch, CallbackLock, Copy, Notify
  <1>4. CASE Main
      <2>1. CASE CreateThread
          BY <2>1 DEF CreateThread
      <2>2. CASE WriteClear \/ ReadEmpty
          BY <2>2 DEF WriteClear, ReadEmpty
      <2>3. CASE OpenFails \/ Subscribe \/ WriteLock \/ ReadCall \/ ReadLock
          BY <2>3 DEF OpenFails, Subscribe, WriteLock, ReadCall, ReadLock
      <2>4. CASE ReadCopy \/ ReadNothing \/ Quit \/ Join \/ Destroy
          BY <2>4 DEF ReadCopy, ReadNothing, Quit, Join, Destroy
      <2> QED BY <1>4, <2>1, <2>2, <2>3, <2>4 DEF Main
  <1>5. CASE UNCHANGED vars
      BY <1>5 DEF vars
  <1> QED BY <1>1, <1>2, <1>3, <1>4, <1>5 DEF Next, Loop

\* The parts about the thread's life, the caller's buffer, the looks left and
\* the subscriptions.
LEMMA RestStep ==
  BtInv /\ [Next]_vars => ThreadAlive' /\ OutFilled' /\ LooksLeft' /\ SubsBound'
  <1> SUFFICES ASSUME BtInv, [Next]_vars 
               PROVE ThreadAlive' /\ OutFilled' /\ LooksLeft' /\ SubsBound'
      OBVIOUS
  <1> USE SizeAssumption DEF BtInv, TypeOK, ThreadAlive, OutFilled, LooksLeft, SubsBound, main, loop, glib
  <1>1. CASE ReadCopy
      <2>1. Len(out') # 0
          BY <1>1, CopyOut
      <2> QED BY <1>1, <2>1 DEF ReadCopy
  <1>2. CASE OpenFails \/ Subscribe \/ CreateThread \/ Quit \/ Join
      <2>1. CASE Subscribe
          <3>1. subs' <= opens'
              BY <2>1 DEF Subscribe
          <3> QED BY <2>1, <3>1 DEF Subscribe
      <2>2. CASE OpenFails
          BY <2>2 DEF OpenFails
      <2>3. CASE CreateThread
          BY <2>3 DEF CreateThread
      <2>4. CASE Quit
          BY <2>4 DEF Quit
      <2>5. CASE Join
          BY <2>5 DEF Join
      <2> QED BY <1>2, <2>1, <2>2, <2>3, <2>4, <2>5
  <1>3. CASE WriteLock
      BY <1>3 DEF WriteLock
  <1>8. CASE WriteClear
      BY <1>8 DEF WriteClear
  <1>9. CASE ReadCall
      BY <1>9 DEF ReadCall
  <1>10. CASE ReadLock
      BY <1>10 DEF ReadLock
  <1>11. CASE ReadEmpty
      BY <1>11 DEF ReadEmpty
  <1>6. CASE ReadNothing
      BY <1>6 DEF ReadNothing
  <1>7. CASE Destroy
      BY <1>7 DEF Destroy
  <1>4. CASE Loop \/ Notify
      BY <1>4 DEF Loop, RunLoop, LoopEnds, Dispatch, CallbackLock, Check, Copy, Add, Notify
  <1>5. CASE UNCHANGED vars
      BY <1>5 DEF vars
  <1> QED BY <1>1, <1>2, <1>3, <1>4, <1>5, <1>6, <1>7, <1>8, <1>9, <1>10, <1>11 DEF Next, Main

\* The inductive invariant of both threads.
THEOREM BtInvariant == Spec => []BtInv
  <1>1. BtInv /\ [Next]_vars => BtInv'
      BY TypeStep, InsideStep, LockOwnerStep, RestStep DEF BtInv
  <1> QED BY InitBtInv, <1>1, PTL DEF Spec

\* Types of the transport's state: the receive buffer is never longer than
\* data[], and bt_read never returns more than the caller has room for.
THEOREM TypeCorrect == Spec => []TypeOK
  <1>1. BtInv => TypeOK
      BY DEF BtInv
  <1> QED BY <1>1, BtInvariant, PTL

\* on_properties_changed() never writes outside data[], for any sizes, even
\* on a transport opened again whose lock excludes nobody.
THEOREM CallbackInsideData == Spec => []InsideData
  <1>1. BtInv => InsideData
      BY DEF BtInv
  <1> QED BY <1>1, BtInvariant, PTL

\* bt_close() destroys the lock unheld and with the callback's thread gone.
THEOREM LockQuietAtDestroy == Spec => []LockUnusedAtDestroy
  <1>1. BtInv => LockUnusedAtDestroy
      BY DEF BtInv, LockUnusedAtDestroy, LockOwner, ThreadAlive, TypeOK
  <1> QED BY <1>1, BtInvariant, PTL

-----------------------------------------------------------------------------
(* Until the transport is closed the first time the lock excludes, and what  *)
(* is read is what came.                                                     *)

\* Before the first open there is nothing.
Fresh == opens = 0 => /\ pc \in {"closed", "exit"} /\ thread = "none" /\ dead = FALSE
                      /\ len = 0 /\ queue = <<>> /\ sent = 0 /\ added = 0 /\ got = 0

\* The lock works, and is held by whoever is between lock and unlock.
Excludes == opens <= 1 =>
               /\ dead => pc \in {"closed", "exit"}
               /\ pc \in {"clear", "look", "empty"} => mutex = "main"
               /\ thread \in {"check", "copy", "add"} => mutex = "loop"

\* Under the lock nobody else changes len and data[].
Undisturbed == opens <= 1 =>
    /\ thread \in {"copy", "add"} => at = len
    /\ thread = "add" => \A j \in (at + 1)..(at + note.n) : data[j] = note.id
    /\ pc = "empty" => len > 0 /\ out = SubSeq(data, 1, IF len > BUFLEN THEN BUFLEN ELSE len)

\* One subscription, so every notification comes once, in its order.
Coming == thread \in {"lock", "check", "copy", "add"}

InOrder == opens <= 1 =>
    /\ added <= sent
    /\ Coming => added < note.id /\ note.id <= sent /\ note \in Note
    /\ \A j \in 1..Len(queue) :
          /\ added < queue[j].id /\ queue[j].id <= sent
          /\ Coming => note.id < queue[j].id
    /\ \A j, m \in 1..Len(queue) : j < m => queue[j].id < queue[m].id

\* What waits in data[] came after what was handed out, in its order.
Waiting == opens <= 1 =>
    /\ got <= added
    /\ \A j \in 1..len : got < data[j] /\ data[j] <= added
    /\ \A j, m \in 1..len : j <= m => data[j] <= data[m]

FirstOpen == BtInv /\ Fresh /\ Excludes /\ Undisturbed /\ InOrder /\ Waiting

\* A new transport has no lock taken, no note under way and nothing handed out.
LEMMA InitFirstOpen == Init => FirstOpen
  <1> SUFFICES ASSUME Init PROVE FirstOpen
      OBVIOUS
  <1>1. BtInv
      BY InitBtInv
  <1>2. Fresh /\ Excludes
      BY Zenon DEF Init, Fresh, Excludes
  <1>3. Undisturbed /\ InOrder /\ Waiting
      <2>1. /\ pc = "closed" /\ thread = "none" /\ len = 0 /\ queue = <<>>
            /\ added = 0 /\ sent = 0 /\ got = 0
          BY DEF Init
      <2> QED BY <2>1 DEF Undisturbed, InOrder, Waiting, Coming
  <1> QED BY <1>1, <1>2, <1>3 DEF FirstOpen

\* Nothing but the failure of bt_open() can happen before it has succeeded.
LEMMA FreshStep == FirstOpen /\ [Next]_vars => Fresh'
  <1> SUFFICES ASSUME FirstOpen, [Next]_vars, opens' = 0
               PROVE  /\ pc' \in {"closed", "exit"} /\ thread' = "none" /\ dead' = FALSE
                      /\ len' = 0 /\ queue' = <<>> /\ sent' = 0 /\ added' = 0 /\ got' = 0
      BY DEF Fresh
  <1>1. opens \in Nat /\ subs \in Nat /\ subs <= opens
      BY DEF FirstOpen, BtInv, TypeOK, SubsBound
  <1>2. opens = 0 => /\ pc \in {"closed", "exit"} /\ thread = "none" /\ dead = FALSE
                     /\ len = 0 /\ queue = <<>> /\ sent = 0 /\ added = 0 /\ got = 0
      BY DEF FirstOpen, Fresh
  <1>3. CASE OpenFails
      BY <1>2, <1>3 DEF OpenFails, loop, glib
  <1>4. CASE UNCHANGED vars
      BY <1>2, <1>4 DEF vars, main, loop, glib
  <1>5. CASE Subscribe
      BY <1>1, <1>5 DEF Subscribe
  <1>6. ASSUME opens = 0, Next, ~OpenFails, ~Subscribe PROVE FALSE
      BY <1>1, <1>2, <1>6 DEF Next, Main, Loop, CreateThread, WriteLock, WriteClear, ReadCall,
         ReadLock, ReadCopy, ReadEmpty, ReadNothing, Quit, Join, Destroy, RunLoop, LoopEnds,
         Dispatch, CallbackLock, Check, Copy, Add, Notify
  <1>7. CASE Next /\ ~Subscribe
      <2>1. opens' = opens
          BY <1>7 DEF Next, Main, Loop, OpenFails, CreateThread, WriteLock, WriteClear, ReadCall,
             ReadLock, ReadCopy, ReadEmpty, ReadNothing, Quit, Join, Destroy, RunLoop, LoopEnds,
             Dispatch, CallbackLock, Check, Copy, Add, Notify
      <2> QED BY <1>3, <1>6, <1>7, <2>1
  <1> QED BY <1>4, <1>5, <1>7

\* The transport is opened a first time only once.
LEMMA OpensGrow ==
  FirstOpen /\ [Next]_vars /\ opens' <= 1 =>
     /\ opens \in Nat /\ opens <= 1 /\ subs \in {0, 1}
     /\ Subscribe => dead = FALSE /\ thread = "none"
  <1> SUFFICES ASSUME FirstOpen, [Next]_vars, opens' <= 1
               PROVE  /\ opens \in Nat /\ opens <= 1 /\ subs \in {0, 1}
                      /\ Subscribe => dead = FALSE /\ thread = "none"
      OBVIOUS
  <1>1. opens \in Nat /\ subs \in Nat /\ subs <= opens
      BY DEF FirstOpen, BtInv, TypeOK, SubsBound
  <1>2. opens' = opens \/ (Subscribe /\ opens' = opens + 1)
      BY DEF Next, Main, Loop, OpenFails, Subscribe, CreateThread, WriteLock, WriteClear, ReadCall,
         ReadLock, ReadCopy, ReadEmpty, ReadNothing, Quit, Join, Destroy, RunLoop, LoopEnds,
         Dispatch, CallbackLock, Check, Copy, Add, Notify, vars
  <1>3. opens <= 1 /\ subs \in {0, 1}
      BY <1>1, <1>2
  <1>4. Subscribe => opens = 0
      BY <1>1 DEF Subscribe
  <1> QED BY <1>1, <1>3, <1>4 DEF FirstOpen, Fresh

\* The lock works as long as bt_close() has not destroyed it.
LEMMA ExcludesStep == FirstOpen /\ [Next]_vars => Excludes'
  <1> SUFFICES ASSUME FirstOpen, [Next]_vars, opens' <= 1
               PROVE  /\ dead' => pc' \in {"closed", "exit"}
                      /\ pc' \in {"clear", "look", "empty"} => mutex' = "main"
                      /\ thread' \in {"check", "copy", "add"} => mutex' = "loop"
      BY DEF Excludes
  <1>1. /\ dead => pc \in {"closed", "exit"}
        /\ pc \in {"clear", "look", "empty"} => mutex = "main"
        /\ thread \in {"check", "copy", "add"} => mutex = "loop"
        /\ pc \in {"closed", "create", "destroy", "exit"} => thread \in {"none", "ended"}
        /\ Subscribe => dead = FALSE /\ thread = "none"
      BY OpensGrow DEF FirstOpen, Excludes, BtInv, ThreadAlive
  <1>2. CASE OpenFails \/ Subscribe \/ CreateThread \/ ReadCall \/ ReadCopy \/ Quit \/ Join \/ Destroy
      BY <1>1, <1>2 DEF OpenFails, Subscribe, CreateThread, ReadCall, ReadCopy, Quit, Join,
                        Destroy, main, loop, glib
  <1>3. CASE WriteLock \/ WriteClear \/ ReadLock \/ ReadEmpty \/ ReadNothing
      BY <1>1, <1>3 DEF WriteLock, WriteClear, ReadLock, ReadEmpty, ReadNothing, Lock, Unlock,
                        main, loop, glib
  <1>4. CASE Loop \/ Notify
      BY <1>1, <1>4 DEF Loop, RunLoop, LoopEnds, Dispatch, CallbackLock, Check, Copy, Add, Notify,
                        Lock, Unlock, main, loop, glib
  <1>5. CASE UNCHANGED vars
      BY <1>1, <1>5 DEF vars, main, loop, glib
  <1> QED BY <1>2, <1>3, <1>4, <1>5 DEF Next, Main

\* What a thread found under the lock is still so when it uses it.
LEMMA UndisturbedStep == FirstOpen /\ [Next]_vars => Undisturbed'
  <1> SUFFICES ASSUME FirstOpen, [Next]_vars, opens' <= 1 PROVE Undisturbed'
      BY DEF Undisturbed
  <1>1. /\ opens <= 1
        /\ pc \in {"clear", "look", "empty"} => thread \notin {"check", "copy", "add"}
        /\ thread \in {"copy", "add"} => at = len
        /\ thread = "add" => \A j \in (at + 1)..(at + note.n) : data[j] = note.id
        /\ pc = "empty" => len > 0 /\ out = SubSeq(data, 1, IF len > BUFLEN THEN BUFLEN ELSE len)
      BY OpensGrow DEF FirstOpen, Excludes, Undisturbed
  <1>2. CASE OpenFails \/ Subscribe \/ CreateThread \/ WriteLock \/ ReadCall \/ ReadLock
             \/ ReadNothing \/ Quit \/ Join \/ Destroy
      <2>1. /\ UNCHANGED <<at, len, note, data>> /\ pc' # "empty"
            /\ thread' = thread \/ thread' = "created"
          BY <1>2 DEF OpenFails, Subscribe, CreateThread, WriteLock, ReadCall, ReadLock,
                      ReadNothing, Quit, Join, Destroy, loop
      <2> QED BY <1>1, <2>1 DEF Undisturbed
  <1>3. CASE WriteClear \/ ReadEmpty
      <2>1. UNCHANGED <<thread, at, note, data>> /\ pc' # "empty" /\ pc \in {"clear", "empty"}
          BY <1>3 DEF WriteClear, ReadEmpty, loop
      <2> QED BY <1>1, <2>1 DEF Undisturbed
  <1>4. CASE ReadCopy
      <2>1. /\ UNCHANGED <<thread, at, note, data, len>> /\ len > 0
            /\ out' = SubSeq(data, 1, IF len > BUFLEN THEN BUFLEN ELSE len)
          BY <1>4 DEF ReadCopy, loop
      <2> QED BY <1>1, <2>1 DEF Undisturbed
  <1>5. CASE RunLoop \/ LoopEnds \/ Dispatch \/ CallbackLock
      <2>1. UNCHANGED <<pc, out, data, len>> /\ thread' \notin {"copy", "add"}
          BY <1>5 DEF RunLoop, LoopEnds, Dispatch, CallbackLock, main
      <2> QED BY <1>1, <2>1 DEF Undisturbed
  <1>6. CASE Check
      <2>1. UNCHANGED <<pc, out, data, len>> /\ at' = len /\ thread' # "add"
          BY <1>6 DEF Check, main
      <2> QED BY <1>1, <2>1 DEF Undisturbed
  <1>7. CASE Copy
      <2>1. /\ thread = "copy" /\ thread' = "add" /\ UNCHANGED <<pc, len, at, note>>
            /\ \E i \in {at, len} :
                  data' = [j \in 1..SIZE |-> IF j \in (i + 1)..(i + note.n) THEN note.id ELSE data[j]]
          BY <1>7 DEF Copy, main
      <2>2. data' = [j \in 1..SIZE |-> IF j \in (at + 1)..(at + note.n) THEN note.id ELSE data[j]]
          BY <1>1, <2>1
      <2>3. (at + 1)..(at + note.n) \subseteq 1..SIZE
          <3>1. at \in Nat /\ note.n \in Nat /\ at + note.n <= SIZE
              <4>1. at \in Nat /\ note \in Note /\ at + note.n <= SIZE
                  BY <1>1, <2>1 DEF FirstOpen, BtInv, TypeOK, InsideData, InOrder, Coming
              <4> QED BY <4>1, ChunkAssumption DEF Note
          <3> QED BY <3>1, SizeAssumption
      <2>4. pc # "empty"
          BY <1>1, <2>1
      <2> QED BY <1>1, <2>1, <2>2, <2>3, <2>4 DEF Undisturbed
  <1>8. CASE Add
      <2>1. thread = "add" /\ thread' = "loop" /\ pc' = pc
          BY <1>8 DEF Add, main
      <2> QED BY <1>1, <2>1 DEF Undisturbed
  <1>9. CASE Notify \/ UNCHANGED vars
      <2>1. UNCHANGED <<pc, out, data, len, thread, at, note>>
          BY <1>9 DEF Notify, vars, main, loop
      <2> QED BY <1>1, <2>1 DEF Undisturbed
  <1> QED BY <1>2, <1>3, <1>4, <1>5, <1>6, <1>7, <1>8, <1>9 DEF Next, Main, Loop

\* Notifications are dispatched and added in the order they are sent, each once.
LEMMA InOrderStep == FirstOpen /\ [Next]_vars => InOrder'
  <1> SUFFICES ASSUME FirstOpen, [Next]_vars, opens' <= 1 PROVE InOrder'
      BY DEF InOrder
  <1>1. /\ added <= sent
        /\ Coming => added < note.id /\ note.id <= sent /\ note \in Note
        /\ \A j \in 1..Len(queue) :
              /\ added < queue[j].id /\ queue[j].id <= sent
              /\ Coming => note.id < queue[j].id
        /\ \A j, m \in 1..Len(queue) : j < m => queue[j].id < queue[m].id
      BY OpensGrow DEF FirstOpen, InOrder
  <1>2. added \in Nat /\ sent \in Nat /\ queue \in Seq(Note) /\ subs \in {0, 1}
      BY OpensGrow, BoundAssumption DEF FirstOpen, BtInv, TypeOK
  <1>3. \A q \in Note : q.id \in Nat
      BY BoundAssumption DEF Note
  <1>4. ASSUME UNCHANGED <<queue, sent, added, note>>, Coming' => Coming PROVE InOrder'
      BY <1>1, <1>4 DEF InOrder
  <1>5. CASE Main
      <2>1. UNCHANGED <<queue, sent, added, note>> /\ thread' \in {thread, "created"}
          BY <1>5 DEF Main, OpenFails, Subscribe, CreateThread, WriteLock, WriteClear, ReadCall,
             ReadLock, ReadCopy, ReadEmpty, ReadNothing, Quit, Join, Destroy, loop, glib
      <2> QED BY <1>4, <2>1 DEF Coming
  <1>6. CASE RunLoop \/ LoopEnds \/ CallbackLock \/ Check \/ Copy
      <2>1. UNCHANGED <<queue, sent, added, note>> /\ (Coming' => Coming)
          BY <1>6 DEF RunLoop, LoopEnds, CallbackLock, Check, Copy, glib, Coming
      <2> QED BY <1>4, <2>1
  <1>7. CASE Dispatch
      <2>1. /\ queue # <<>> /\ note' = queue[1] /\ queue' = Tail(queue)
            /\ UNCHANGED <<sent, added>> /\ note' \in Note
          BY <1>2, <1>7, HeadTailProperties DEF Dispatch
      <2>2. /\ Len(queue') = Len(queue) - 1 /\ Len(queue) \in Nat \ {0}
            /\ \A j \in 1..Len(queue') : queue'[j] = queue[j + 1]
          BY <1>2, <2>1, HeadTailProperties
      <2>3. 1 \in 1..Len(queue) /\ \A j \in 1..Len(queue') : j + 1 \in 1..Len(queue) /\ 1 < j + 1
          BY <2>2
      <2>4. added < note'.id /\ note'.id <= sent
          BY <1>1, <2>1, <2>3
      <2>5. \A j \in 1..Len(queue') : /\ added < queue'[j].id /\ queue'[j].id <= sent
                                      /\ note'.id < queue'[j].id
          BY <1>1, <2>1, <2>2, <2>3
      <2>6. \A j, m \in 1..Len(queue') : j < m => queue'[j].id < queue'[m].id
          <3> SUFFICES ASSUME NEW j \in 1..Len(queue'), NEW m \in 1..Len(queue'), j < m
                       PROVE  queue'[j].id < queue'[m].id
              OBVIOUS
          <3>1. j + 1 \in 1..Len(queue) /\ m + 1 \in 1..Len(queue) /\ j + 1 < m + 1
              BY <2>2
          <3> QED BY <1>1, <2>2, <3>1
      <2> QED BY <1>1, <2>1, <2>4, <2>5, <2>6 DEF InOrder
  <1>8. CASE Add
      <2>1. thread = "add" /\ thread' = "loop" /\ UNCHANGED <<queue, sent>> /\ added' = note.id
          BY <1>8 DEF Add, glib
      <2> QED BY <1>1, <2>1 DEF InOrder, Coming
  <1>9. CASE Notify
      <2>1. PICK n \in Chunk : queue' = queue \o [i \in 1..subs |-> [id |-> sent', n |-> n]]
          BY <1>9 DEF Notify
      <2>2. subs = 1 /\ sent' = sent + 1 /\ UNCHANGED <<added, note, thread>>
          BY <1>2, <1>9 DEF Notify, loop
      <2> DEFINE r == [id |-> sent', n |-> n]
      <2>3. r.id = sent + 1
          BY <2>2
      <2> HIDE DEF r
      <2>4. queue' = queue \o [i \in 1..1 |-> r]
          BY <2>1, <2>2 DEF r
      <2>5. /\ Len(queue') = Len(queue) + 1 /\ Len(queue) \in Nat
            /\ \A j \in 1..Len(queue) : queue'[j] = queue[j]
            /\ queue'[Len(queue) + 1] = r
          BY <1>2, <2>4
      <2>6. \A j \in 1..Len(queue') : j \in 1..Len(queue) \/ j = Len(queue) + 1
          BY <2>5
      <2>7. \A j \in 1..Len(queue) : queue[j].id \in Nat
          BY <1>2, <1>3
      <2>8. Coming => note.id \in Nat
          BY <1>1, <1>3
      <2>9. \A j \in 1..Len(queue') : /\ added < queue'[j].id /\ queue'[j].id <= sent'
                                      /\ Coming => note.id < queue'[j].id
          <3> SUFFICES ASSUME NEW j \in 1..Len(queue')
                       PROVE  /\ added < queue'[j].id /\ queue'[j].id <= sent'
                              /\ Coming => note.id < queue'[j].id
              OBVIOUS
          <3>1. CASE j \in 1..Len(queue)
              BY <1>1, <1>2, <2>2, <2>5, <2>7, <3>1
          <3>2. CASE j = Len(queue) + 1
              BY <1>1, <1>2, <2>2, <2>3, <2>5, <2>8, <3>2
          <3> QED BY <2>6, <3>1, <3>2
      <2>10. \A j, m \in 1..Len(queue') : j < m => queue'[j].id < queue'[m].id
          <3> SUFFICES ASSUME NEW j \in 1..Len(queue'), NEW m \in 1..Len(queue'), j < m
                       PROVE  queue'[j].id < queue'[m].id
              OBVIOUS
          <3>1. j \in 1..Len(queue)
              BY <2>5, <2>6
          <3>2. CASE m \in 1..Len(queue)
              BY <1>1, <2>5, <3>1, <3>2
          <3>3. CASE m = Len(queue) + 1
              BY <1>1, <1>2, <2>3, <2>5, <2>7, <3>1, <3>3
          <3> QED BY <2>6, <3>2, <3>3
      <2>11. added' <= sent' /\ (Coming' => added' < note'.id /\ note'.id <= sent' /\ note' \in Note)
          BY <1>1, <1>2, <2>2, <2>8 DEF Coming
      <2> QED BY <2>2, <2>9, <2>10, <2>11 DEF InOrder, Coming
  <1>10. CASE UNCHANGED vars
      BY <1>4, <1>10 DEF vars, loop, glib, Coming
  <1> QED BY <1>5, <1>6, <1>7, <1>8, <1>9, <1>10 DEF Next, Loop

\* What bt_read is about to hand out is the front of what waits.
LEMMA HandedOut ==
  ASSUME FirstOpen, opens <= 1, ReadEmpty
  PROVE  /\ len \in 1..SIZE /\ out \in Seq(0..MaxNote) /\ Len(out) \in 1..len
         /\ Len(out) = (IF len > BUFLEN THEN BUFLEN ELSE len)
         /\ \A j \in 1..Len(out) : out[j] = data[j]
  <1>1. pc = "empty"
      BY DEF ReadEmpty
  <1>2. len > 0 /\ out = SubSeq(data, 1, IF len > BUFLEN THEN BUFLEN ELSE len)
      BY <1>1 DEF FirstOpen, Undisturbed
  <1>3. len \in 1..SIZE /\ data \in [1..SIZE -> 0..MaxNote] /\ BUFLEN \in Nat \ {0} /\ SIZE \in Nat
      BY <1>2, SizeAssumption DEF FirstOpen, BtInv, TypeOK
  <1>4. PICK m \in 1..len : m = IF len > BUFLEN THEN BUFLEN ELSE len
      BY <1>3
  <1>5. \A j \in 1..m : data[j] \in 0..MaxNote
      BY <1>3
  <1>6. /\ SubSeq(data, 1, m) \in Seq(0..MaxNote) /\ Len(SubSeq(data, 1, m)) = m
        /\ \A j \in 1..m : SubSeq(data, 1, m)[j] = data[j]
      BY <1>4, <1>5, SubSeqProperties
  <1> QED BY <1>2, <1>3, <1>4, <1>6

\* What waits is newer than what was handed out, and in its order.
LEMMA WaitingStep == FirstOpen /\ [Next]_vars => Waiting'
  <1> SUFFICES ASSUME FirstOpen, [Next]_vars, opens' <= 1 PROVE Waiting'
      BY DEF Waiting
  <1>1. /\ opens <= 1 /\ got <= added
        /\ \A j \in 1..len : got < data[j] /\ data[j] <= added
        /\ \A j, m \in 1..len : j <= m => data[j] <= data[m]
      BY OpensGrow DEF FirstOpen, Waiting
  <1>2. /\ got \in Nat /\ added \in Nat /\ len \in 0..SIZE /\ SIZE \in Nat
        /\ data \in [1..SIZE -> 0..MaxNote] /\ MaxNote \in Nat
      BY SizeAssumption, BoundAssumption DEF FirstOpen, BtInv, TypeOK
  <1>3. ASSUME UNCHANGED <<got, added, len, data>> PROVE Waiting'
      BY <1>1, <1>3 DEF Waiting
  <1>4. CASE OpenFails \/ Subscribe \/ CreateThread \/ WriteLock \/ ReadCall \/ ReadLock \/ ReadCopy
             \/ ReadNothing \/ Quit \/ Join \/ Destroy
      BY <1>3, <1>4 DEF OpenFails, Subscribe, CreateThread, WriteLock, ReadCall, ReadLock, ReadCopy,
                        ReadNothing, Quit, Join, Destroy, loop
  <1>5. CASE WriteClear
      BY <1>1, <1>5 DEF WriteClear, loop, Waiting
  <1>6. CASE ReadEmpty
      <2>1. /\ Len(out) \in 1..len /\ out[Len(out)] = data[Len(out)]
          BY <1>1, <1>6, HandedOut
      <2>2. len' = 0 /\ added' = added /\ got' <= added
          BY <1>1, <1>6, <2>1 DEF ReadEmpty, loop
      <2> QED BY <2>2 DEF Waiting
  <1>7. CASE RunLoop \/ LoopEnds \/ Dispatch \/ CallbackLock \/ Check \/ Notify
      BY <1>3, <1>7 DEF RunLoop, LoopEnds, Dispatch, CallbackLock, Check, Notify, main, loop
  <1>8. CASE Copy
      <2>1. thread = "copy" /\ at = len /\ UNCHANGED <<got, added, len>>
          BY <1>1, <1>8 DEF Copy, main, FirstOpen, Undisturbed
      <2>2. data' = [j \in 1..SIZE |-> IF j \in (len + 1)..(len + note.n) THEN note.id ELSE data[j]]
          BY <1>8, <2>1 DEF Copy
      <2>3. \A j \in 1..len : data'[j] = data[j]
          BY <1>2, <2>2
      <2> QED BY <1>1, <2>1, <2>3 DEF Waiting
  <1>9. CASE Add
      <2>1. /\ thread = "add" /\ at = len /\ len' = len + note.n /\ added' = note.id
            /\ UNCHANGED <<got, data>>
            /\ \A j \in (len + 1)..(len + note.n) : data[j] = note.id
          BY <1>1, <1>9 DEF Add, main, FirstOpen, Undisturbed
      <2>2. note.n \in Nat /\ note.id \in Nat /\ added < note.id
          <3>1. note \in Note /\ added < note.id
              BY <1>1, <2>1 DEF FirstOpen, InOrder, Coming
          <3>2. note.n \in Chunk /\ note.id \in 1..MaxNote
              BY <3>1 DEF Note
          <3>3. note.n \in Nat
              BY <3>2, ChunkAssumption, Zenon
          <3>4. note.id \in Nat
              BY <3>2
          <3> QED BY <3>1, <3>3, <3>4
      <2>3. \A j \in 1..len' : j \in 1..len \/ j \in (len + 1)..(len + note.n)
          BY <1>2, <2>1, <2>2
      <2>4. len' \in 0..SIZE
          BY <2>1, <1>9, TypeStep DEF FirstOpen, TypeOK
      <2>5. \A j \in 1..len : data[j] \in Nat
          BY <1>2
      <2>6. \A j \in 1..len' : got < data[j] /\ data[j] <= note.id
          BY <1>1, <1>2, <2>1, <2>2, <2>3, <2>5
      <2>7. \A j, m \in 1..len' : j <= m => data[j] <= data[m]
          <3> SUFFICES ASSUME NEW j \in 1..len', NEW m \in 1..len', j <= m
                       PROVE  data[j] <= data[m]
              OBVIOUS
          <3>1. CASE m \in 1..len
              BY <1>1, <1>2, <2>3, <3>1
          <3>2. CASE m \in (len + 1)..(len + note.n)
              BY <2>1, <2>6, <3>2
          <3> QED BY <2>3, <3>1, <3>2
      <2> QED BY <1>1, <1>2, <2>1, <2>2, <2>6, <2>7 DEF Waiting
  <1>10. CASE UNCHANGED vars
      BY <1>3, <1>10 DEF vars, main, loop
  <1> QED BY <1>4, <1>5, <1>6, <1>7, <1>8, <1>9, <1>10 DEF Next, Main, Loop

\* The inductive invariant of the first open.
THEOREM FirstOpenInvariant == Spec => []FirstOpen
  <1>1. FirstOpen /\ [Next]_vars => FirstOpen'
      BY TypeStep, InsideStep, LockOwnerStep, RestStep, FreshStep, ExcludesStep, UndisturbedStep,
         InOrderStep, WaitingStep DEF FirstOpen, BtInv
  <1> QED BY InitFirstOpen, <1>1, PTL DEF Spec

\* While the transport is open for the first time a read hands out only what no
\* read has handed out, in the order it came.
THEOREM ReadsAreFresh == Spec => AnswersFresh
  <1>1. FirstOpen /\ [Next]_vars =>
           [opens = 1 /\ pc = "empty" /\ pc' = "open" =>
               /\ ret'[1] > got
               /\ \A i \in 1..(Len(ret') - 1) : ret'[i] <= ret'[i + 1]]_vars
      <2> SUFFICES ASSUME FirstOpen, Next, opens = 1, pc = "empty", pc' = "open"
                   PROVE  /\ ret'[1] > got
                          /\ \A i \in 1..(Len(ret') - 1) : ret'[i] <= ret'[i + 1]
          OBVIOUS
      <2>1. ReadEmpty
          BY DEF Next, Main, Loop, OpenFails, Subscribe, CreateThread, WriteLock, WriteClear,
             ReadCall, ReadLock, ReadCopy, ReadNothing, Quit, Join, Destroy, RunLoop, LoopEnds,
             Dispatch, CallbackLock, Check, Copy, Add, Notify, main
      <2>2. /\ len \in 1..SIZE /\ Len(out) \in 1..len /\ SIZE \in Nat
            /\ \A j \in 1..Len(out) : out[j] = data[j]
          BY <2>1, HandedOut, SizeAssumption
      <2>3. ret' = out
          BY <2>1 DEF ReadEmpty
      <2>4. /\ \A j \in 1..len : got < data[j]
            /\ \A j, m \in 1..len : j <= m => data[j] <= data[m]
          BY DEF FirstOpen, Waiting
      <2>5. out[1] > got
          <3>1. 1 \in 1..len /\ 1 \in 1..Len(out) /\ out[1] = data[1]
              BY <2>2
          <3>2. got \in Nat /\ data[1] \in Nat
              BY <2>2, BoundAssumption DEF FirstOpen, BtInv, TypeOK
          <3> QED BY <2>4, <3>1, <3>2
      <2>6. \A i \in 1..(Len(out) - 1) : out[i] <= out[i + 1]
          <3> SUFFICES ASSUME NEW i \in 1..(Len(out) - 1) PROVE out[i] <= out[i + 1]
              OBVIOUS
          <3>1. /\ i \in 1..Len(out) /\ i + 1 \in 1..Len(out) /\ i \in 1..len /\ i + 1 \in 1..len
                /\ i <= i + 1
              BY <2>2
          <3> QED BY <2>2, <2>4, <3>1
      <2> QED BY <2>3, <2>5, <2>6
  <1> QED BY <1>1, FirstOpenInvariant, PTL DEF Spec, AnswersFresh

-----------------------------------------------------------------------------
(* The refinement of ReceiveBuffer. *)

\* The bytes that wait, whatever they are.
LEMMA Contents ==
  ASSUME NEW d \in [1..SIZE -> 0..MaxNote], NEW n \in 0..SIZE
  PROVE  /\ SubSeq(d, 1, n) \in Seq(0..MaxNote) /\ Len(SubSeq(d, 1, n)) = n
         /\ \A j \in 1..n : SubSeq(d, 1, n)[j] = d[j] /\ SubSeq(d, 1, n)[j] \in 0..MaxNote
  <1>1. n \in Nat /\ SIZE \in Nat
      BY SizeAssumption
  <1>2. \A j \in 1..n : d[j] \in 0..MaxNote
      BY <1>1
  <1> QED BY <1>1, <1>2, SubSeqProperties

\* Two sequences one after the other.
LEMMA Appended ==
  ASSUME NEW S, NEW s \in Seq(S), NEW t \in Seq(S)
  PROVE  /\ s \o t \in Seq(S) /\ Len(s \o t) = Len(s) + Len(t)
         /\ Len(s) \in Nat /\ Len(t) \in Nat
         /\ \A j \in 1..Len(s) : (s \o t)[j] = s[j]
         /\ \A j \in 1..Len(t) : (s \o t)[Len(s) + j] = t[j]
  OBVIOUS

\* bt_read hands out the front of the buffer and empties it.
LEMMA ReadTakes == ASSUME FirstOpen, opens <= 1, ReadEmpty PROVE Buffer!Take
  <1> DEFINE buf == SubSeq(data, 1, len)
             top == IF Len(buf) < BUFLEN THEN Len(buf) ELSE BUFLEN
  <1>1. /\ len \in 1..SIZE /\ out \in Seq(0..MaxNote) /\ Len(out) \in 1..len
        /\ Len(out) = (IF len > BUFLEN THEN BUFLEN ELSE len)
        /\ \A j \in 1..Len(out) : out[j] = data[j]
      BY HandedOut
  <1>2. /\ buf \in Seq(0..MaxNote) /\ Len(buf) = len
        /\ \A j \in 1..len : buf[j] = data[j] /\ buf[j] \in 0..MaxNote
      BY Contents DEF FirstOpen, BtInv, TypeOK
  <1>3. BUFLEN \in Nat \ {0} /\ SIZE \in Nat
      BY SizeAssumption
  <1> HIDE DEF buf
  <1>4. top = Len(out) /\ top \in 1..len
      BY <1>1, <1>2, <1>3
  <1>5. SubSeq(buf, 1, top) = out
      <2>1. \A j \in 1..top : j \in 1..len
          BY <1>1, <1>3, <1>4
      <2>2. /\ SubSeq(buf, 1, top) \in Seq(0..MaxNote) /\ Len(SubSeq(buf, 1, top)) = top
            /\ \A j \in 1..top : SubSeq(buf, 1, top)[j] = buf[j]
          BY <1>1, <1>2, <1>3, <1>4, <2>1, SubSeqProperties
      <2>3. \A j \in 1..top : SubSeq(buf, 1, top)[j] = out[j]
          BY <1>1, <1>2, <1>4, <2>2
      <2> HIDE DEF top
      <2> QED BY <1>1, <1>4, <2>2, <2>3, SeqEqual
  <1>6. buf # <<>>
      BY <1>1, <1>2
  <1>7. SubSeq(data', 1, len') = <<>> /\ ret' = out /\ added' = added
      <2>1. len' = 0 /\ ret' = out /\ added' = added
          BY DEF ReadEmpty, loop
      <2> QED BY <2>1, SubSeqEmpty
  <1> QED BY <1>5, <1>6, <1>7 DEF Buffer!Take, Buffer!Front, buf

\* on_properties_changed() adds a notification whole.
LEMMA AddArrives == ASSUME FirstOpen, FirstOpen', opens <= 1, Add PROVE Buffer!Arrive
  <1> DEFINE buf == SubSeq(data, 1, len)
             new == [i \in 1..note.n |-> note.id]
  <1>1. /\ thread = "add" /\ at = len /\ len' = len + note.n /\ added' = note.id
        /\ UNCHANGED <<ret, data>>
        /\ \A j \in (len + 1)..(len + note.n) : data[j] = note.id
      BY DEF Add, main, FirstOpen, Undisturbed
  <1>2. note \in Note /\ added < note.id
      BY <1>1 DEF FirstOpen, InOrder, Coming
  <1>3. note.n \in Chunk /\ note.id \in 0..MaxNote
      BY <1>2, BoundAssumption DEF Note
  <1>4. note.n \in Nat
      BY <1>3, ChunkAssumption, Zenon
  <1>5. /\ buf \in Seq(0..MaxNote) /\ Len(buf) = len
        /\ \A j \in 1..len : buf[j] = data[j]
      BY Contents DEF FirstOpen, BtInv, TypeOK
  <1>6. /\ buf' \in Seq(0..MaxNote) /\ Len(buf') = len'
        /\ \A j \in 1..len' : buf'[j] = data'[j]
      BY Contents DEF FirstOpen, BtInv, TypeOK
  <1>7. len + note.n <= SIZE /\ len \in Nat
      BY <1>1 DEF FirstOpen, BtInv, TypeOK, InsideData
  <1>8. new \in Seq(0..MaxNote) /\ Len(new) = note.n /\ \A j \in 1..note.n : new[j] = note.id
      <2>1. new \in [1..note.n -> 0..MaxNote] /\ \A j \in 1..note.n : new[j] = note.id
          BY <1>3
      <2> HIDE DEF new
      <2> QED BY <1>4, <2>1, FunctionIsSeq
  <1>9. buf' = buf \o new
      <2> HIDE DEF buf, new
      <2>1. /\ buf \o new \in Seq(0..MaxNote) /\ Len(buf \o new) = len + note.n
            /\ \A j \in 1..len : (buf \o new)[j] = buf[j]
            /\ \A j \in 1..note.n : (buf \o new)[len + j] = new[j]
          <3>1. /\ buf \o new \in Seq(0..MaxNote) /\ Len(buf \o new) = Len(buf) + Len(new)
                /\ \A j \in 1..Len(buf) : (buf \o new)[j] = buf[j]
                /\ \A j \in 1..Len(new) : (buf \o new)[Len(buf) + j] = new[j]
              <4>1. buf \in Seq(0..MaxNote) /\ new \in Seq(0..MaxNote)
                  BY <1>5, <1>8
              <4> DEFINE S == 0..MaxNote
              <4> HIDE DEF S
              <4>2. buf \in Seq(S) /\ new \in Seq(S)
                  BY <4>1 DEF S
              <4> QED BY <4>2, Appended DEF S
          <3> QED BY <1>5, <1>8, <3>1
      <2>2. \A j \in 1..(len + note.n) : buf'[j] = (buf \o new)[j]
          <3> SUFFICES ASSUME NEW j \in 1..(len + note.n) PROVE buf'[j] = (buf \o new)[j]
              OBVIOUS
          <3>1. buf'[j] = data[j]
              BY <1>1, <1>6
          <3>2. j \in 1..len \/ j \in (len + 1)..(len + note.n)
              BY <1>4, <1>7
          <3>3. CASE j \in 1..len
              BY <1>5, <2>1, <3>1, <3>3
          <3>4. CASE j \in (len + 1)..(len + note.n)
              <4>1. j - len \in 1..note.n /\ len + (j - len) = j
                  BY <1>4, <1>7, <3>4
              <4>2. (buf \o new)[len + (j - len)] = new[j - len] /\ new[j - len] = note.id
                  BY <1>8, <2>1, <4>1
              <4> QED BY <1>1, <3>1, <3>4, <4>1, <4>2
          <3> QED BY <3>2, <3>3, <3>4
      <2>3. Len(buf') = Len(buf \o new)
          BY <1>1, <1>6, <2>1
      <2>4. \A j \in 1..Len(buf') : buf'[j] = (buf \o new)[j]
          BY <2>1, <2>2, <2>3
      <2> QED BY <1>6, <2>1, <2>3, <2>4, SeqEqual
  <1> QED BY <1>1, <1>2, <1>3, <1>5, <1>7, <1>9 DEF Buffer!Arrive

\* Every step on the transport until it is closed the first time is a step of
\* the atomic buffer, or none.
LEMMA StepIsBufferStep ==
  FirstOpen /\ FirstOpen' /\ [Next]_vars /\ opens <= 1 => Buffer!Next \/ UNCHANGED Buffer!bvars
  <1> SUFFICES ASSUME FirstOpen, FirstOpen', [Next]_vars, opens <= 1
               PROVE  Buffer!Next \/ UNCHANGED Buffer!bvars
      OBVIOUS
  <1>1. ASSUME UNCHANGED <<data, len, added, ret>> PROVE UNCHANGED Buffer!bvars
      BY <1>1 DEF Buffer!bvars
  <1>2. CASE WriteClear
      <2>1. len' = 0 /\ UNCHANGED <<ret, added>>
          BY <1>2 DEF WriteClear, loop
      <2>2. SubSeq(data', 1, len') = <<>>
          BY <2>1, SubSeqEmpty
      <2>3. Buffer!Clear
          BY <2>1, <2>2 DEF Buffer!Clear
      <2> QED BY <2>3 DEF Buffer!Next
  <1>3. CASE ReadEmpty
      BY <1>3, ReadTakes DEF Buffer!Next
  <1>4. CASE ReadNothing
      <2>1. UNCHANGED <<data, len, added>> /\ (ret' = <<>> \/ ret' = ret)
          BY <1>4, Zenon DEF ReadNothing, loop
      <2>2. CASE ret' = <<>>
          <3>1. Buffer!TimeOut
              BY <2>1, <2>2 DEF Buffer!TimeOut
          <3> QED BY <3>1 DEF Buffer!Next
      <2> QED BY <1>1, <2>1, <2>2
  <1>5. CASE OpenFails \/ Subscribe \/ CreateThread \/ WriteLock \/ ReadCall \/ ReadLock \/ ReadCopy
             \/ Quit \/ Join \/ Destroy
      BY <1>1, <1>5 DEF OpenFails, Subscribe, CreateThread, WriteLock, ReadCall, ReadLock, ReadCopy,
                        Quit, Join, Destroy, loop
  <1>6. CASE RunLoop \/ LoopEnds \/ Dispatch \/ CallbackLock \/ Check \/ Notify
      BY <1>1, <1>6 DEF RunLoop, LoopEnds, Dispatch, CallbackLock, Check, Notify, main, loop
  <1>7. CASE Copy
      <2>1. thread = "copy" /\ at = len /\ UNCHANGED <<ret, added, len>>
          BY <1>7 DEF Copy, main, FirstOpen, Undisturbed
      <2>2. data' = [j \in 1..SIZE |-> IF j \in (len + 1)..(len + note.n) THEN note.id ELSE data[j]]
          BY <1>7, <2>1 DEF Copy
      <2>3. len \in 0..SIZE /\ SIZE \in Nat
          BY SizeAssumption DEF FirstOpen, BtInv, TypeOK
      <2>4. \A j \in 1..len : data'[j] = data[j]
          BY <2>2, <2>3
      <2> DEFINE buf == SubSeq(data, 1, len)
      <2>5. /\ buf \in Seq(0..MaxNote) /\ Len(buf) = len
            /\ \A j \in 1..len : buf[j] = data[j]
          BY Contents DEF FirstOpen, BtInv, TypeOK
      <2>6. /\ buf' \in Seq(0..MaxNote) /\ Len(buf') = len'
            /\ \A j \in 1..len' : buf'[j] = data'[j]
          BY Contents DEF FirstOpen, BtInv, TypeOK
      <2>7. buf' = buf
          <3> HIDE DEF buf
          <3> QED BY <2>1, <2>4, <2>5, <2>6, SeqEqual
      <2> QED BY <2>1, <2>7 DEF Buffer!bvars
  <1>8. CASE Add
      BY <1>8, AddArrives DEF Buffer!Next
  <1>9. CASE UNCHANGED vars
      BY <1>1, <1>9 DEF vars, main, loop
  <1> QED BY <1>2, <1>3, <1>4, <1>5, <1>6, <1>7, <1>8, <1>9 DEF Next, Main, Loop

\* Two threads and a mutex are, until bt_close(), one atomic buffer.
THEOREM IsAtomicBuffer == Spec => ImplementsBuffer
  <1>1. Init => Buffer!Init
      <2>1. Init => SubSeq(data, 1, len) = <<>> /\ added = 0 /\ ret = <<>>
          BY SubSeqEmpty DEF Init
      <2> QED BY <2>1 DEF Buffer!Init
  <1>2. FirstOpen /\ FirstOpen' /\ [Next]_vars => [opens <= 1 => Buffer!Next]_(Buffer!bvars)
      BY StepIsBufferStep
  <1> QED BY <1>1, <1>2, FirstOpenInvariant, PTL DEF Spec, ImplementsBuffer
=============================================================================
