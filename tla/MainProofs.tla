------------------------------ MODULE MainProofs ------------------------------
(***************************************************************************)
(* Proofs about main(): the lock it takes, and the loop it then goes       *)
(* through.                                                                *)
(*                                                                         *)
(* TargetLock, for any number of processes, inodes and kills.  Exclusion   *)
(* is not inductive by itself: that two processes do not hold the lock at  *)
(* once rests on every open descriptor being on the inode that has the     *)
(* name, as long as no unlink hit a file in use, and on fcntl keeping      *)
(* holders of one inode apart.  LockInv adds both.                         *)
(*                                                                         *)
(* MqttLoop, for any number of rounds.  What is delivered is the    *)
(* document, for nothing is under way once the broker is disconnected      *)
(* (InFlight); the document is the result of one read that went well       *)
(* (OneRead, ReadSoFar), and never older than what was delivered (Ages).   *)
(***************************************************************************)
EXTENDS TargetLock, MqttLoop, TLAPS

\* Every open descriptor is on the linked inode, until the first orphan.
OnPath == ~orphaned => \A p \in Proc : HasFile(p) => fd[p] = path

\* fcntl: one holder per inode.
OneHolderPerInode ==
    \A p, q \in Proc : pc[p] = "held" /\ pc[q] = "held" /\ fd[p] = fd[q] => p = q

LockInv == TypeOK /\ OnPath /\ OneHolderPerInode

-----------------------------------------------------------------------------
\* The initial state, with no process running, satisfies the invariant.
LEMMA InitLockInv == Init => LockInv
  <1> SUFFICES ASSUME Init PROVE LockInv
    OBVIOUS
  <1>1. \A p \in Proc : pc[p] = "gone" /\ ~HasFile(p)
    BY DEF Init, HasFile
  <1>2. TypeOK
    <2>1. wait \in [Proc -> BOOLEAN] /\ orphaned \in BOOLEAN
      BY Zenon DEF Init
    <2>2. /\ pc \in [Proc -> PC]
          /\ fd \in [Proc -> Inode \cup {NoInode}]
          /\ path \in Inode \cup {NoInode}
      BY DEF Init, PC
    <2>3. crashes \in 0..MaxCrash
      BY MaxCrashAssumption DEF Init
    <2> QED BY <1>1, <2>1, <2>2, <2>3 DEF TypeOK
  <1>3. OnPath /\ OneHolderPerInode
    BY <1>1 DEF OnPath, OneHolderPerInode
  <1> QED BY <1>2, <1>3 DEF LockInv

\* Every step of every process preserves the types of main()'s and
\* lock_file()'s state, and that a descriptor is open exactly while the
\* process is between open() and close().
LEMMA TypeStep == TypeOK /\ [Next]_vars => TypeOK'
  <1> SUFFICES ASSUME TypeOK, [Next]_vars PROVE TypeOK'
    OBVIOUS
  <1> USE NoInodeAssumption, MaxCrashAssumption DEF TypeOK, HasFile, PC
  <1>1. CASE UNCHANGED vars
    BY <1>1 DEF vars
  <1>2. ASSUME NEW p \in Proc, Invoke(p) PROVE TypeOK'
    BY <1>2 DEF Invoke
  <1>3. ASSUME NEW p \in Proc, Open(p) PROVE TypeOK'
    BY <1>3 DEF Open
  <1>4. ASSUME NEW p \in Proc, OpenFails(p) PROVE TypeOK'
    BY <1>4 DEF OpenFails
  <1>5. ASSUME NEW p \in Proc, Acquire(p) PROVE TypeOK'
    BY <1>5 DEF Acquire
  <1>6. ASSUME NEW p \in Proc, Deny(p) PROVE TypeOK'
    BY <1>6 DEF Deny
  <1>7. ASSUME NEW p \in Proc, Unlock(p) PROVE TypeOK'
    BY <1>7 DEF Unlock
  <1>8. ASSUME NEW p \in Proc, Unlink(p) PROVE TypeOK'
    BY <1>8 DEF Unlink
  <1>9. ASSUME NEW p \in Proc, Crash(p) PROVE TypeOK'
    BY <1>9 DEF Crash
  <1> QED BY <1>1, <1>2, <1>3, <1>4, <1>5, <1>6, <1>7, <1>8, <1>9 DEF Next

\* A step keeps every descriptor on the linked inode unless it is the
\* unlink that orphans one.
LEMMA OnPathStep == LockInv /\ [Next]_vars => OnPath'
  <1> SUFFICES ASSUME LockInv, [Next]_vars PROVE OnPath'
    OBVIOUS
  <1> USE NoInodeAssumption DEF LockInv, TypeOK, OnPath, HasFile
  <1>1. CASE UNCHANGED vars
    BY <1>1 DEF vars
  <1>2. ASSUME NEW p \in Proc, Invoke(p) PROVE OnPath'
    BY <1>2 DEF Invoke
  <1>3. ASSUME NEW p \in Proc, Open(p) PROVE OnPath'
    BY <1>3 DEF Open
  <1>4. ASSUME NEW p \in Proc, OpenFails(p) PROVE OnPath'
    BY <1>4 DEF OpenFails
  <1>5. ASSUME NEW p \in Proc, Acquire(p) PROVE OnPath'
    BY <1>5 DEF Acquire
  <1>6. ASSUME NEW p \in Proc, Deny(p) PROVE OnPath'
    BY <1>6 DEF Deny
  <1>7. ASSUME NEW p \in Proc, Unlock(p) PROVE OnPath'
    BY <1>7 DEF Unlock
  <1>8. ASSUME NEW p \in Proc, Unlink(p) PROVE OnPath'
    BY <1>8 DEF Unlink
  <1>9. ASSUME NEW p \in Proc, Crash(p) PROVE OnPath'
    BY <1>9 DEF Crash
  <1> QED BY <1>1, <1>2, <1>3, <1>4, <1>5, <1>6, <1>7, <1>8, <1>9 DEF Next

\* A step never gives one inode's lock to two processes.
LEMMA OneHolderStep == LockInv /\ [Next]_vars => OneHolderPerInode'
  <1> SUFFICES ASSUME LockInv, [Next]_vars PROVE OneHolderPerInode'
    OBVIOUS
  <1> USE NoInodeAssumption DEF LockInv, TypeOK, OneHolderPerInode, HasFile
  <1>1. CASE UNCHANGED vars
    BY <1>1 DEF vars
  <1>2. ASSUME NEW p \in Proc, Invoke(p) PROVE OneHolderPerInode'
    BY <1>2 DEF Invoke
  <1>3. ASSUME NEW p \in Proc, Open(p) PROVE OneHolderPerInode'
    BY <1>3 DEF Open
  <1>4. ASSUME NEW p \in Proc, OpenFails(p) PROVE OneHolderPerInode'
    BY <1>4 DEF OpenFails
  <1>5. ASSUME NEW p \in Proc, Acquire(p) PROVE OneHolderPerInode'
    BY <1>5 DEF Acquire, LockedByOther
  <1>6. ASSUME NEW p \in Proc, Deny(p) PROVE OneHolderPerInode'
    BY <1>6 DEF Deny
  <1>7. ASSUME NEW p \in Proc, Unlock(p) PROVE OneHolderPerInode'
    BY <1>7 DEF Unlock
  <1>8. ASSUME NEW p \in Proc, Unlink(p) PROVE OneHolderPerInode'
    BY <1>8 DEF Unlink
  <1>9. ASSUME NEW p \in Proc, Crash(p) PROVE OneHolderPerInode'
    BY <1>9 DEF Crash
  <1> QED BY <1>1, <1>2, <1>3, <1>4, <1>5, <1>6, <1>7, <1>8, <1>9 DEF Next

\* The strengthened invariant of the locking protocol.
THEOREM LockInvariant == Spec => []LockInv
  <1>1. LockInv /\ [Next]_vars => LockInv'
    BY TypeStep, OnPathStep, OneHolderStep DEF LockInv
  <1> QED BY InitLockInv, <1>1, PTL DEF Spec

\* Type correctness, with the descriptor open exactly between open() and
\* close() of lock_file()/unlock_file().
THEOREM TypeCorrect == Spec => []TypeOK
  <1>1. LockInv => TypeOK
    BY DEF LockInv
  <1> QED BY LockInvariant, <1>1, PTL

\* The exclusion docs/main.md promises holds for any number of concurrent,
\* killed and -N invocations up to the first exit handler that unlinks the
\* lock file under another process.
THEOREM ExclusionUntilOrphaned == Spec => []ExclusiveUntilOrphaned
  <1>1. LockInv => ExclusiveUntilOrphaned
    BY NoInodeAssumption
       DEF LockInv, TypeOK, OnPath, OneHolderPerInode, HasFile,
           ExclusiveUntilOrphaned, MutualExclusion
  <1> QED BY LockInvariant, <1>1, PTL

-----------------------------------------------------------------------------
\* Without kills a linked lock file has a process that will unlink it.
LitterInv == TypeOK /\ NoLitter

\* A step without a kill leaves the linked file a process that unlinks it:
\* only the last user of the name ever leaves, and it leaves by Unlink.
LEMMA LitterStep == LitterInv /\ [Next]_vars => LitterInv'
  <1> SUFFICES ASSUME LitterInv, [Next]_vars PROVE LitterInv'
    OBVIOUS
  <1>0. TypeOK /\ TypeOK'
    BY TypeStep DEF LitterInv
  <1> SUFFICES NoLitter'
    BY <1>0 DEF LitterInv
  <1> USE <1>0, NoInodeAssumption, MaxCrashAssumption
      DEF LitterInv, TypeOK, NoLitter, HasFile, PC
  <1>1. CASE UNCHANGED vars
    BY <1>1 DEF vars
  <1>2. ASSUME NEW p \in Proc, Invoke(p) PROVE NoLitter'
    BY <1>2 DEF Invoke
  <1>3. ASSUME NEW p \in Proc, Open(p) PROVE NoLitter'
    BY <1>3 DEF Open
  <1>4. ASSUME NEW p \in Proc, OpenFails(p) PROVE NoLitter'
    BY <1>4 DEF OpenFails
  <1>5. ASSUME NEW p \in Proc, Acquire(p) PROVE NoLitter'
    BY <1>5 DEF Acquire
  <1>6. ASSUME NEW p \in Proc, Deny(p) PROVE NoLitter'
    BY <1>6 DEF Deny, LockedByOther
  <1>7. ASSUME NEW p \in Proc, Unlock(p) PROVE NoLitter'
    BY <1>7 DEF Unlock
  <1>8. ASSUME NEW p \in Proc, Unlink(p) PROVE NoLitter'
    BY <1>8 DEF Unlink
  <1>9. ASSUME NEW p \in Proc, Crash(p) PROVE NoLitter'
    BY <1>9 DEF Crash
  <1> QED BY <1>1, <1>2, <1>3, <1>4, <1>5, <1>6, <1>7, <1>8, <1>9 DEF Next

\* The lock file outlives its users only after a kill.
THEOREM LockFileRemoved == Spec => []NoLitter
  <1>1. Init => LitterInv
    BY InitLockInv DEF Init, LockInv, LitterInv, NoLitter
  <1>2. LitterInv => NoLitter
    BY DEF LitterInv
  <1> QED BY <1>1, <1>2, LitterStep, PTL DEF Spec

-----------------------------------------------------------------------------
(* The loop. *)

Places == {"test", "open", "hwinfo", "cells", "model", "display", "close", "connect",
           "publish", "wait", "disconnect", "sleep", "exit"}

TypeInv == /\ at \in Places
           /\ round \in 1..MaxRound
           /\ read \in BOOLEAN
           /\ info \in [Part -> Age]
           /\ doc \in [Part -> Age]
           /\ got \in [Part -> Age]

InFlight == /\ flight \subseteq {doc}
            /\ flight # {} => at \in {"wait", "disconnect"}

\* The parts of info the exchanges before at have set.
Done == CASE at = "cells" -> {"hwinfo"}
          [] at = "model" -> {"hwinfo", "cells"}
          [] at = "display" -> Part
          [] OTHER -> {}

ReadSoFar == \A p \in Done : info[p] \in {round, Unset}

\* The tail of a round, where read tells of this round.
Told == {"close", "connect", "publish", "wait", "disconnect"}

OneRead == /\ Whole(doc)
           /\ at \in {"cells", "model"} => ~read
           /\ at \in Told /\ read => \A p \in Part : doc[p] \in {round, Unset}

Ages == \A p \in Part : /\ doc[p] <= round /\ got[p] <= round
                        /\ doc[p] = Unset \/ got[p] <= doc[p]

LoopInv == TypeInv /\ InFlight /\ ReadSoFar /\ OneRead /\ Ages

-----------------------------------------------------------------------------
\* A read of one round is whole.
LEMMA OneRound == ASSUME NEW m \in [Part -> Age], NEW r,
                         \A p \in Part : m[p] \in {r, Unset}
                  PROVE  Whole(m)
  BY DEF Whole

\* Before the first round all is empty.
LEMMA InitLoopInv == LoopInit => LoopInv
  <1> SUFFICES ASSUME LoopInit PROVE LoopInv
    OBVIOUS
  <1>1. None \in [Part -> Age] /\ \A p \in Part : None[p] = 0
    BY RoundAssumption DEF None, Age, Unset
  <1>2. TypeInv
    <2>1. at \in Places /\ read \in BOOLEAN
      BY DEF LoopInit, Places
    <2>2. round \in 1..MaxRound
      BY RoundAssumption DEF LoopInit
    <2> QED BY <1>1, <2>1, <2>2 DEF LoopInit, TypeInv
  <1>3. Whole(None)
    BY <1>1 DEF Whole
  <1>4. InFlight /\ ReadSoFar
    BY DEF LoopInit, InFlight, ReadSoFar, Done
  <1>5. OneRead
    BY <1>3 DEF LoopInit, OneRead, Told
  <1>6. Ages
    BY <1>1 DEF LoopInit, Ages
  <1> QED BY <1>2, <1>4, <1>5, <1>6 DEF LoopInv

\* Every step of the program, the broker and the network keeps the invariant.
LEMMA StepLoopInv == LoopInv /\ [LoopNext]_loopVars => LoopInv'
  <1> SUFFICES ASSUME LoopInv, [LoopNext]_loopVars PROVE LoopInv'
    OBVIOUS
  <1> USE DEF LoopInv
  <1>t. /\ round \in Nat /\ round \in Age /\ Unset \in Age
        /\ \A a \in Age : a \in Int /\ a >= Unset
    BY RoundAssumption DEF TypeInv, Age, Unset
  <1>1. CASE Test \/ OpenPort \/ OpenPortFails \/ Close \/ Connect \/ ConnectFails \/ WaitOver
    BY <1>1 DEF Test, OpenPort, OpenPortFails, Close, Connect, ConnectFails, WaitOver,
                TypeInv, Places, InFlight, ReadSoFar, Done, OneRead, Told, Ages
  <1>2. CASE Exchange
    <2>1. PICK age \in {round, Unset} : info' = [info EXCEPT ![at] = age]
      BY <1>2 DEF Exchange
    <2>2. /\ at \in Part /\ at' = After(at) /\ read' = (at = "model")
          /\ UNCHANGED <<round, doc, flight, got>>
      BY <1>2 DEF Exchange
    <2>3. \/ at = "hwinfo" /\ at' = "cells"
          \/ at = "cells" /\ at' = "model"
          \/ at = "model" /\ at' = "display"
      BY <2>2 DEF After, Part
    <2>4. info' \in [Part -> Age]
      BY <1>t, <2>1 DEF TypeInv
    <2>5. \A p \in Part : info'[p] = IF p = at THEN age ELSE info[p]
      BY <2>1 DEF TypeInv
    <2>6. TypeInv'
      BY <2>2, <2>3, <2>4 DEF TypeInv, Places
    <2>7. Done' \subseteq Done \cup {at} /\ Done' \subseteq Part
      BY <2>3 DEF Done, Part
    <2>8. ReadSoFar'
      BY <2>1, <2>2, <2>5, <2>7 DEF ReadSoFar
    <2>9. OneRead'
      BY <2>2, <2>3 DEF OneRead, Told, Whole
    <2> QED BY <2>2, <2>3, <2>6, <2>8, <2>9 DEF InFlight, Ages
  <1>3. CASE ExchangeFails
    BY <1>3 DEF ExchangeFails, TypeInv, Places, InFlight, ReadSoFar, Done, OneRead,
                Told, Ages, Part
  <1>4. CASE Display
    <2>1. /\ at = "display" /\ at' = "close" /\ doc' = info
          /\ UNCHANGED <<round, read, info, flight, got>>
      BY <1>4 DEF Display
    <2>2. \A p \in Part : doc'[p] \in {round, Unset}
      BY <2>1 DEF ReadSoFar, Done
    <2>3. TypeInv' /\ InFlight' /\ ReadSoFar'
      BY <2>1 DEF TypeInv, Places, InFlight, ReadSoFar, Done
    <2>4. OneRead'
      BY <2>1, <2>2, <2>3, OneRound DEF OneRead, TypeInv
    <2>5. Ages'
      BY <1>t, <2>1, <2>2 DEF Ages, Unset, TypeInv
    <2> QED BY <2>3, <2>4, <2>5
  <1>5. CASE Publish
    BY <1>5 DEF Publish, TypeInv, Places, InFlight, ReadSoFar, Done, OneRead, Told, Ages
  <1>6. CASE Disconnect
    BY <1>6 DEF Disconnect, TypeInv, Places, InFlight, ReadSoFar, Done, OneRead, Told, Ages
  <1>7. CASE Sleep
    <2>1. /\ at = "sleep" /\ at' \in {"open", "exit"} /\ round' \in 1..MaxRound
          /\ round' >= round /\ UNCHANGED <<read, info, doc, flight, got>>
      BY <1>7, RoundAssumption DEF Sleep, TypeInv
    <2>2. TypeInv' /\ InFlight' /\ ReadSoFar' /\ OneRead'
      BY <2>1 DEF TypeInv, Places, InFlight, ReadSoFar, Done, OneRead, Told
    <2>3. ASSUME NEW p \in Part
          PROVE  /\ doc[p] <= round' /\ got[p] <= round'
      <3>1. doc[p] \in Int /\ got[p] \in Int /\ doc[p] <= round /\ got[p] <= round
        BY <1>t DEF Ages, TypeInv
      <3> QED BY <1>t, <2>1, <3>1
    <2> QED BY <2>1, <2>2, <2>3 DEF Ages
  <1>8. CASE Deliver
    <2>1. got' = doc /\ flight' \subseteq flight /\ UNCHANGED <<at, round, read, info, doc>>
      BY <1>8 DEF Deliver, InFlight
    <2>2. TypeInv' /\ InFlight' /\ ReadSoFar' /\ OneRead'
      BY <2>1 DEF TypeInv, Places, InFlight, ReadSoFar, Done, OneRead, Told
    <2>3. \A p \in Part : doc[p] \in Int
      BY <1>t DEF TypeInv
    <2> QED BY <2>1, <2>2, <2>3 DEF Ages
  <1>9. CASE ConnectionLost
    BY <1>9 DEF ConnectionLost, TypeInv, Places, InFlight, ReadSoFar, Done, OneRead, Told, Ages
  <1>10. CASE UNCHANGED loopVars
    BY <1>10 DEF loopVars, TypeInv, Places, InFlight, ReadSoFar, Done, OneRead, Told, Ages
  <1> QED BY <1>1, <1>2, <1>3, <1>4, <1>5, <1>6, <1>7, <1>8, <1>9, <1>10 DEF LoopNext, Main

\* A delivery hands over the document, with all the properties asked of it.
LEMMA StepDelivers ==
    LoopInv /\ [LoopNext]_loopVars =>
        [got' # got => /\ Whole(got')
                       /\ read => \A p \in Part : got'[p] \in {round, Unset}
                       /\ \A p \in Part : Unset \in {got[p], got'[p]} \/ got'[p] >= got[p]]_loopVars
  <1> SUFFICES ASSUME LoopInv, LoopNext, got' # got
               PROVE  /\ Whole(got')
                      /\ read => \A p \in Part : got'[p] \in {round, Unset}
                      /\ \A p \in Part : Unset \in {got[p], got'[p]} \/ got'[p] >= got[p]
    BY DEF loopVars
  <1>1. Deliver
    BY DEF LoopNext, Main, Test, OpenPort, OpenPortFails, Exchange,
           ExchangeFails, Display, Close, Connect, ConnectFails,
           Publish, WaitOver, Disconnect, Sleep, ConnectionLost
  <1>2. got' = doc /\ at \in {"wait", "disconnect"}
    BY <1>1 DEF Deliver, LoopInv, InFlight
  <1>3. Whole(got')
    BY <1>2 DEF LoopInv, OneRead
  <1>4. read => \A p \in Part : got'[p] \in {round, Unset}
    BY <1>2 DEF LoopInv, OneRead, Told
  <1>5. ASSUME NEW p \in Part PROVE Unset \in {got[p], got'[p]} \/ got'[p] >= got[p]
    <2>1. doc[p] \in Int /\ got[p] \in Int
      BY RoundAssumption DEF LoopInv, TypeInv, Age, Unset
    <2> QED BY <1>2, <2>1 DEF LoopInv, Ages
  <1> QED BY <1>3, <1>4, <1>5

\* What the broker is sent was read in one go and is never older than what it
\* had, whichever exchanges, connections and deliveries fail in whichever round.
THEOREM MessagesWhole == LoopSpec => DeliveredWhole
  <1>1. LoopInit => LoopInv
    BY InitLoopInv
  <1>2. LoopInv /\ [LoopNext]_loopVars => LoopInv'
    BY StepLoopInv
  <1>3. LoopInv /\ [LoopNext]_loopVars =>
           [got' # got =>
              /\ Whole(got')
              /\ read => \A p \in Part : got'[p] \in {round, Unset}
              /\ \A p \in Part : Unset \in {got[p], got'[p]} \/ got'[p] >= got[p]]_loopVars
    BY StepDelivers
  <1> QED BY <1>1, <1>2, <1>3, PTL DEF LoopSpec, DeliveredWhole
=============================================================================
