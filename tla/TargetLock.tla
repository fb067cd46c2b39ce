----------------------------- MODULE TargetLock -----------------------------
(***************************************************************************)
(* The per-target lock of jbdtool (utils.c lock_file/unlock_file, main.c   *)
(* clear_lock and the places of main() that take and give back the lock).  *)
(*                                                                         *)
(* Every invocation for one target opens the same name, /tmp/<target>.lock,*)
(* creating the file when the name is free, and takes an fcntl write lock  *)
(* on what it opened.  On the way out it closes the descriptor (which      *)
(* drops the lock) and then unlinks the NAME.  The lock therefore belongs  *)
(* to an inode while the protocol is about a name; this module keeps the   *)
(* two apart.                                                              *)
(***************************************************************************)
EXTENDS Naturals

CONSTANTS Proc,      \* invocations of jbdtool for one target (pids)
          Inode,     \* inodes of /tmp the lock file can live on
          NoInode,   \* "no file" / "no descriptor"
          MaxCrash   \* how many times a process may be killed (bound)

ASSUME NoInodeAssumption  == NoInode \notin Inode
ASSUME MaxCrashAssumption == MaxCrash \in Nat

VARIABLES path,      \* inode linked under the lock file's name, or NoInode
          pc,        \* where each invocation is
          fd,        \* inode each invocation has open, or NoInode
          wait,      \* FALSE for -N (dont_wait)
          crashes,   \* kills so far
          orphaned   \* history: the name was unlinked while another
                     \* invocation had that inode open

vars == <<path, pc, fd, wait, crashes, orphaned>>

\* gone    not running            start   about to call lock_file()
\* opened  in fcntl(), not locked held    holds the fcntl lock
\* closed  descriptor closed, exit handler has yet to unlink the name
PC == {"gone", "start", "opened", "held", "closed"}

HasFile(p) == fd[p] # NoInode

Init == /\ path = NoInode
        /\ pc = [p \in Proc |-> "gone"]
        /\ fd = [p \in Proc |-> NoInode]
        /\ wait = [p \in Proc |-> TRUE]
        /\ crashes = 0
        /\ orphaned = FALSE

\* A user or cron starts jbdtool, with or without -N.
Invoke(p) == /\ pc[p] = "gone"
             /\ pc' = [pc EXCEPT ![p] = "start"]
             /\ \E w \in BOOLEAN : wait' = [wait EXCEPT ![p] = w]
             /\ UNCHANGED <<path, fd, crashes, orphaned>>

\* open(path, O_CREAT|O_RDWR): the linked inode, or a fresh one.
Fresh(i) == i # path /\ \A q \in Proc : fd[q] # i

Open(p) == /\ pc[p] = "start"
           /\ \E i \in Inode :
                /\ IF path = NoInode THEN Fresh(i) ELSE i = path
                /\ path' = i
                /\ fd' = [fd EXCEPT ![p] = i]
           /\ pc' = [pc EXCEPT ![p] = "opened"]
           /\ UNCHANGED <<wait, crashes, orphaned>>

\* open() fails (permissions): no descriptor, exit handler not installed.
OpenFails(p) == /\ pc[p] = "start"
                /\ pc' = [pc EXCEPT ![p] = "gone"]
                /\ UNCHANGED <<path, fd, wait, crashes, orphaned>>

LockedByOther(p) == \E q \in Proc \ {p} : pc[q] = "held" /\ fd[q] = fd[p]

\* fcntl(F_SETLKW or F_SETLK) grants the lock of the inode.
Acquire(p) == /\ pc[p] = "opened"
              /\ ~LockedByOther(p)
              /\ pc' = [pc EXCEPT ![p] = "held"]
              /\ UNCHANGED <<path, fd, wait, crashes, orphaned>>

\* Mutants of Deny: the exit handler installed before the lock is checked,
\* and -N ignored (always F_SETLKW).
Deny_Unlinks(p) == /\ pc[p] = "opened"
                   /\ ~wait[p]
                   /\ LockedByOther(p)
                   /\ path' = NoInode
                   /\ pc' = [pc EXCEPT ![p] = "gone"]
                   /\ fd' = [fd EXCEPT ![p] = NoInode]
                   /\ UNCHANGED <<wait, crashes, orphaned>>

Deny_Waits(p) == pc[p] = "opened" /\ FALSE /\ UNCHANGED vars

\* -N: F_SETLK fails at once, the descriptor is closed, main returns 1
\* before atexit(clear_lock): the name stays.
Deny(p) == /\ pc[p] = "opened"
           /\ ~wait[p]
           /\ LockedByOther(p)
           /\ pc' = [pc EXCEPT ![p] = "gone"]
           /\ fd' = [fd EXCEPT ![p] = NoInode]
           /\ UNCHANGED <<path, wait, crashes, orphaned>>

\* Mutant of Unlock: the descriptor is never closed.
Unlock_KeepsFd(p) == /\ pc[p] = "held"
                     /\ pc' = [pc EXCEPT ![p] = "closed"]
                     /\ UNCHANGED <<path, fd, wait, crashes, orphaned>>

\* unlock_file(lockfd): main's explicit call or clear_lock's own.
Unlock(p) == /\ pc[p] = "held"
             /\ pc' = [pc EXCEPT ![p] = "closed"]
             /\ fd' = [fd EXCEPT ![p] = NoInode]
             /\ UNCHANGED <<path, wait, crashes, orphaned>>

\* Mutant of Unlink: the exit handler leaves the name alone.
Unlink_Skipped(p) == /\ pc[p] = "closed"
                     /\ pc' = [pc EXCEPT ![p] = "gone"]
                     /\ UNCHANGED <<path, fd, wait, crashes, orphaned>>

\* unlink(lockfile) in clear_lock: whatever file has the name now loses it.
Unlink(p) == /\ pc[p] = "closed"
             /\ path' = NoInode
             /\ orphaned' = (orphaned \/ \E q \in Proc : HasFile(q) /\ fd[q] = path)
             /\ pc' = [pc EXCEPT ![p] = "gone"]
             /\ UNCHANGED <<fd, wait, crashes>>

\* Killed by a signal: the kernel closes the descriptor, no exit handler.
Crash(p) == /\ pc[p] # "gone"
            /\ crashes < MaxCrash
            /\ crashes' = crashes + 1
            /\ pc' = [pc EXCEPT ![p] = "gone"]
            /\ fd' = [fd EXCEPT ![p] = NoInode]
            /\ UNCHANGED <<path, wait, orphaned>>

Next == \E p \in Proc : \/ Invoke(p)  \/ Open(p)   \/ OpenFails(p)
                        \/ Acquire(p) \/ Deny(p)   \/ Unlock(p)
                        \/ Unlink(p)  \/ Crash(p)

Spec == Init /\ [][Next]_vars

-----------------------------------------------------------------------------
(* Fairness.  A running process keeps running: weak fairness of each of    *)
(* its steps but Unlock, for an MQTT loop (-i) or a hung transport never   *)
(* unlocks.  Nothing makes the kernel's hand-over of the lock fair, so     *)
(* Acquire is only weakly fair.                                            *)

Steps(p) == Open(p) \/ Acquire(p) \/ Deny(p) \/ Unlink(p)

FairSpec == Spec /\ \A p \in Proc : WF_vars(Steps(p))

\* One-shot invocations: a holder ends.
HoldersEnd == \A p \in Proc : WF_vars(Unlock(p))

-----------------------------------------------------------------------------
(* State predicates the properties use. *)

\* Types, and a descriptor is open exactly between open() and close().
TypeOK == /\ path \in Inode \cup {NoInode}
          /\ pc \in [Proc -> PC]
          /\ fd \in [Proc -> Inode \cup {NoInode}]
          /\ wait \in [Proc -> BOOLEAN]
          /\ crashes \in 0..MaxCrash
          /\ orphaned \in BOOLEAN
          /\ \A p \in Proc : HasFile(p) <=> pc[p] \in {"opened", "held"}

\* The promise of docs/main.md, "Locking": concurrent invocations cannot
\* interleave on the same bus, i.e. at most one process is past lock_file().
MutualExclusion ==
    \A p, q \in Proc : pc[p] = "held" /\ pc[q] = "held" => p = q

\* What the code does guarantee: two holders only after some exit handler
\* has unlinked the name under another process; kills, -N losers and stale
\* lock files left by kills never cause it.
ExclusiveUntilOrphaned == ~orphaned => MutualExclusion

\* The lock file outlives its users only after a kill: as long as nobody
\* was killed, a linked lock file has a process that is going to unlink it.
NoLitter ==
    path # NoInode /\ crashes = 0 =>
        \E p \in Proc : fd[p] = path \/ pc[p] = "closed"

\* When holders end, an invocation that has the file open gets the lock
\* in the end, gives up with -N or is killed, although hand-over is not fair
\* and new invocations keep coming: each exit unlinks the name, so no
\* newcomer joins the same inode.
WaiterServed ==
    HoldersEnd => \A p \in Proc : pc[p] = "opened" ~> pc[p] # "opened"

\* "-N fails instead of waiting" (docs/main.md): a -N invocation leaves
\* lock_file() although the holder never lets go.
NoWaitAnswered ==
    \A p \in Proc : (pc[p] = "opened" /\ ~wait[p]) ~> pc[p] # "opened"
=============================================================================
