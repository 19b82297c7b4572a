----------------------------- MODULE LinkedLock -----------------------------
(***************************************************************************)
(* The lock file of modules/checkpoint/linkedLock.ts, which keeps the       *)
(* takes, rewinds and undos of an org apart, the applies and destroys of an *)
(* environment, and the writers of an automation-mute journal.              *)
(*                                                                          *)
(* One lock file and the processes that contend for it.  Inside a process   *)
(* the code is synchronous; between processes every system call (link,      *)
(* read, rename, unlink) is a step, since the file system is all the        *)
(* processes share.  A process may end between any two of them.             *)
(***************************************************************************)
EXTENDS Naturals, FiniteSets

CONSTANTS
    Proc,        \* the processes that ever run: each starts once, ends once
    Host,        \* the machines sharing the home folder
    HostOf,      \* the machine of each process
    Pid,         \* the process ids a machine hands out, reused once free
    Quiet,       \* WRITER_QUIET_MS
    Leeway,      \* STARTED_LEEWAY_MS
    MayFail,     \* whether file system calls may fail for want of space or rights
    NoLock,      \* no lock file, and nothing held
    MaxRunning,  \* bound: processes running at once
    MaxTime,     \* bound: the last instant
    MaxTakes     \* bound: acquires of one process

ASSUME ProcessAssumption ==
    /\ HostOf \in [Proc -> Host]
    /\ MayFail \in BOOLEAN
ASSUME BoundAssumption ==
    /\ Quiet \in Nat \ {0} /\ Leeway \in Nat
    /\ MaxRunning \in Nat /\ MaxTime \in Nat /\ MaxTakes \in Nat

OneAttempt == 1
Attempts == 3    \* the tries of one acquire

(* A lock file's content.  Its host, pid and hostStartedAt are those of     *)
(* `owner`; `owner` and `n` together are its token.                         *)
Lock == [owner : Proc, n : Nat, at : Nat]

ASSUME NoLockAssumption == NoLock \notin Lock

VARIABLES
    file,       \* the lock file's content, or NoLock
    status,     \* "new", "running" or "gone", per process
    pid,        \* the id of each process, once started
    startedAt,  \* when each process started
    booted,     \* when each machine last started
    now,        \* the clock the machines share
    heldHere,   \* heldHere of each process: the lock it believes it holds
    pc,         \* where each process is in acquire or release
    attempt,    \* the try acquire is at
    takes,      \* how many acquires each process began
    mine,       \* the lock an acquire is about to link
    seen,       \* raw: the content acquire read and judges
    aside       \* the lock file takeAway moved to a name of its own

machine == <<status, pid, startedAt, booted, now>>
vars == <<file, status, pid, startedAt, booted, now, heldHere, pc, attempt,
          takes, mine, seen, aside>>

Running(p) == status[p] = "running"

(* kill(pid, 0) on p's machine. *)
processRunning(p, id) ==
    \E q \in Proc : Running(q) /\ HostOf[q] = HostOf[p] /\ pid[q] = id

(* A mutant: a process started at the instant of the boot is taken for one before it. *)
StartedAfterBoot(p, lock) ==
    LET w == lock.owner IN
    /\ pid[w] # pid[p]
    /\ startedAt[w] + Leeway > booted[HostOf[p]]
    /\ now <= lock.at + Quiet
    /\ processRunning(p, pid[w])

(* Is another process than p, alive on p's machine, at work on the lock? *)
writtenElsewhere(p, lock) ==
    LET w == lock.owner IN
    /\ pid[w] # pid[p]
    /\ startedAt[w] + Leeway >= booted[HostOf[p]]
    /\ now <= lock.at + Quiet
    /\ processRunning(p, pid[w])

(* A mutant: a process of another machine is looked for on this one. *)
AskedHere(p, lock) ==
    IF lock.owner = p THEN heldHere[p] = lock ELSE writtenElsewhere(p, lock)

(* Is the process a lock names still at work, as p judges it? *)
isAlive(p, lock) ==
    IF HostOf[lock.owner] # HostOf[p] THEN now < lock.at + Quiet
    ELSE IF lock.owner = p THEN heldHere[p] = lock
    ELSE writtenElsewhere(p, lock)

(* holder(): who holds the lock, alive, as p is told. *)
holder(p) ==
    IF heldHere[p] # NoLock THEN heldHere[p]
    ELSE IF file # NoLock /\ isAlive(p, file) THEN file
    ELSE NoLock

-----------------------------------------------------------------------------
Init ==
    /\ file = NoLock
    /\ status = [p \in Proc |-> "new"]
    /\ \E id \in Pid : pid = [p \in Proc |-> id]
    /\ startedAt = [p \in Proc |-> 0]
    /\ booted = [h \in Host |-> 0]
    /\ now = 0
    /\ heldHere = [p \in Proc |-> NoLock]
    /\ pc = [p \in Proc |-> "idle"]
    /\ attempt = [p \in Proc |-> 0]
    /\ takes = [p \in Proc |-> 0]
    /\ mine = [p \in Proc |-> NoLock]
    /\ seen = [p \in Proc |-> NoLock]
    /\ aside = [p \in Proc |-> NoLock]

(* The machine: processes start and end, it restarts, time passes.          *)
Start(p) ==
    /\ status[p] = "new"
    /\ Cardinality({q \in Proc : Running(q)}) < MaxRunning
    /\ \E id \in Pid :
          /\ ~ processRunning(p, id)
          /\ pid' = [pid EXCEPT ![p] = id]
    /\ status' = [status EXCEPT ![p] = "running"]
    /\ startedAt' = [startedAt EXCEPT ![p] = now]
    /\ UNCHANGED <<file, booted, now, heldHere, pc, attempt, takes, mine, seen, aside>>

(* Nothing of a process outlives it but its files: the map heldHere, its    *)
(* place in the code and its locals go with it.  A lock it had moved aside  *)
(* stays where it is, and nobody reads it again.                            *)
Ended(P) ==
    /\ status' = [p \in Proc |-> IF p \in P THEN "gone" ELSE status[p]]
    /\ heldHere' = [p \in Proc |-> IF p \in P THEN NoLock ELSE heldHere[p]]
    /\ pc' = [p \in Proc |-> IF p \in P THEN "idle" ELSE pc[p]]
    /\ attempt' = [p \in Proc |-> IF p \in P THEN 0 ELSE attempt[p]]
    /\ mine' = [p \in Proc |-> IF p \in P THEN NoLock ELSE mine[p]]
    /\ seen' = [p \in Proc |-> IF p \in P THEN NoLock ELSE seen[p]]
    /\ UNCHANGED <<file, pid, startedAt, takes, aside>>

Crash(p) ==
    /\ Running(p)
    /\ Ended({p})
    /\ UNCHANGED <<booted, now>>

Reboot(h) ==
    /\ now > booted[h]
    /\ \E p \in Proc : HostOf[p] = h /\ Running(p)
    /\ Ended({p \in Proc : HostOf[p] = h /\ Running(p)})
    /\ booted' = [booted EXCEPT ![h] = now]
    /\ UNCHANGED now

Tick ==
    /\ now < MaxTime
    /\ now' = now + 1
    /\ UNCHANGED <<file, status, pid, startedAt, booted, heldHere, pc, attempt,
                   takes, mine, seen, aside>>

-----------------------------------------------------------------------------
(* acquire() returns or throws: its locals are gone. *)
Return(p) ==
    /\ pc' = [pc EXCEPT ![p] = "idle"]
    /\ attempt' = [attempt EXCEPT ![p] = 0]
    /\ mine' = [mine EXCEPT ![p] = NoLock]
    /\ seen' = [seen EXCEPT ![p] = NoLock]
    /\ aside' = [aside EXCEPT ![p] = NoLock]

(* The next turn of acquire's loop, or its last read once the tries are up. *)
NextAttempt(p) ==
    /\ attempt' = [attempt EXCEPT ![p] = @ + 1]
    /\ pc' = [pc EXCEPT ![p] = IF attempt[p] + 1 < Attempts THEN "link" ELSE "last"]
    /\ seen' = [seen EXCEPT ![p] = NoLock]
    /\ aside' = [aside EXCEPT ![p] = NoLock]
    /\ UNCHANGED mine

(* acquire(): refused at once when this process holds the lock (no change), *)
(* else the lock to link is written whole in a file of its own.             *)
Begin(p) ==
    /\ Running(p) /\ pc[p] = "idle"
    /\ heldHere[p] = NoLock
    /\ takes[p] < MaxTakes
    /\ takes' = [takes EXCEPT ![p] = @ + 1]
    /\ mine' = [mine EXCEPT ![p] = [owner |-> p, n |-> takes[p], at |-> now]]
    /\ pc' = [pc EXCEPT ![p] = "link"]
    /\ UNCHANGED <<file, machine, heldHere, attempt, seen, aside>>

(* linkedFresh(): link fails when the name is taken. *)
Link(p) ==
    /\ Running(p) /\ pc[p] = "link"
    /\ IF file = NoLock
         THEN /\ file' = mine[p]
              /\ heldHere' = [heldHere EXCEPT ![p] = mine[p]]
              /\ Return(p)
         ELSE /\ pc' = [pc EXCEPT ![p] = "read"]
              /\ UNCHANGED <<file, heldHere, attempt, mine, seen, aside>>
    /\ UNCHANGED <<machine, takes>>

(* readQuietly(file), in acquire's loop: a lock gone meanwhile is a try. *)
Read(p) ==
    /\ Running(p) /\ pc[p] = "read"
    /\ IF file = NoLock
         THEN NextAttempt(p)
         ELSE /\ seen' = [seen EXCEPT ![p] = file]
              /\ pc' = [pc EXCEPT ![p] = "judge"]
              /\ UNCHANGED <<attempt, mine, aside>>
    /\ UNCHANGED <<file, machine, heldHere, takes>>

(* A mutant: acquire waits for a holder that is alive. *)
WaitForHolder(p) ==
    /\ Running(p) /\ pc[p] = "judge"
    /\ pc' = [pc EXCEPT ![p] = IF isAlive(p, seen[p]) THEN "link" ELSE "rename"]
    /\ UNCHANGED <<file, machine, heldHere, attempt, takes, mine, seen, aside>>

(* A holder alive refuses the acquire; one gone is about to be moved aside. *)
Judge(p) ==
    /\ Running(p) /\ pc[p] = "judge"
    /\ IF isAlive(p, seen[p])
         THEN Return(p)
         ELSE /\ pc' = [pc EXCEPT ![p] = "rename"]
              /\ UNCHANGED <<attempt, mine, seen, aside>>
    /\ UNCHANGED <<file, machine, heldHere, takes>>

(* takeAway(): whatever the name holds by now is moved to a name of p's own. *)
Rename(p) ==
    /\ Running(p) /\ pc[p] = "rename"
    /\ IF file = NoLock
         THEN NextAttempt(p)
         ELSE /\ aside' = [aside EXCEPT ![p] = file]
              /\ pc' = [pc EXCEPT ![p] = "aside"]
              /\ UNCHANGED <<attempt, mine, seen>>
    /\ file' = NoLock
    /\ UNCHANGED <<machine, heldHere, takes>>

(* A mutant: what was moved aside is removed unread. *)
DropAside(p) ==
    /\ Running(p) /\ pc[p] = "aside"
    /\ NextAttempt(p)
    /\ UNCHANGED <<file, machine, heldHere, takes>>

(* takeAway(), after the move: a lock that is not the judged one is linked  *)
(* back unless the name is taken, and the file aside is removed.            *)
PutBack(p) ==
    /\ Running(p) /\ pc[p] = "aside"
    /\ file' = IF aside[p] # seen[p] /\ file = NoLock THEN aside[p] ELSE file
    /\ NextAttempt(p)
    /\ UNCHANGED <<machine, heldHere, takes>>

(* The tries are up: acquire reads once more for whom to name, and refuses. *)
GiveUp(p) ==
    /\ Running(p) /\ pc[p] = "last"
    /\ Return(p)
    /\ UNCHANGED <<file, machine, heldHere, takes>>

(* A mutant: release forgets the lock and leaves its file. *)
ForgetOnly(p) ==
    /\ Running(p) /\ pc[p] = "idle"
    /\ heldHere[p] # NoLock
    /\ heldHere' = [heldHere EXCEPT ![p] = NoLock]
    /\ UNCHANGED <<file, machine, pc, attempt, takes, mine, seen, aside>>

(* release(): forget the lock, then read the file ... *)
Release(p) ==
    /\ Running(p) /\ pc[p] = "idle"
    /\ heldHere[p] # NoLock
    /\ heldHere' = [heldHere EXCEPT ![p] = NoLock]
    /\ pc' = [pc EXCEPT ![p] = IF file = heldHere[p] THEN "unlink" ELSE "idle"]
    /\ UNCHANGED <<file, machine, attempt, takes, mine, seen, aside>>

(* ... and remove whatever the name holds by then. *)
Unlink(p) ==
    /\ Running(p) /\ pc[p] = "unlink"
    /\ file' = NoLock
    /\ pc' = [pc EXCEPT ![p] = "idle"]
    /\ UNCHANGED <<machine, heldHere, attempt, takes, mine, seen, aside>>

(* A file system call fails for another reason than the ones the code       *)
(* expects.  Linking or reading the lock then throws out of acquire, or     *)
(* out of release once the lock is forgotten; a rename or a link back that  *)
(* fails is one more try, and a failed unlink is passed over.               *)
IoError(p) ==
    /\ MayFail /\ Running(p)
    /\ \/ /\ pc[p] \in {"link", "read", "last"}
          /\ Return(p)
          /\ UNCHANGED heldHere
       \/ /\ pc[p] \in {"rename", "aside"}
          /\ NextAttempt(p)
          /\ UNCHANGED heldHere
       \/ /\ \/ pc[p] = "unlink"
             \/ pc[p] = "idle" /\ heldHere[p] # NoLock
          /\ pc' = [pc EXCEPT ![p] = "idle"]
          /\ heldHere' = [heldHere EXCEPT ![p] = NoLock]
          /\ UNCHANGED <<attempt, mine, seen, aside>>
    /\ UNCHANGED <<file, machine, takes>>

-----------------------------------------------------------------------------
Calling(p) ==
    \/ Link(p) \/ Read(p) \/ Judge(p) \/ Rename(p) \/ PutBack(p) \/ GiveUp(p)
    \/ Unlink(p)

Next ==
    \/ \E p \in Proc :
          \/ Start(p) \/ Crash(p)
          \/ Begin(p) \/ Calling(p) \/ Release(p)
          \/ IoError(p)
    \/ \E h \in Host : Reboot(h)
    \/ Tick

Spec == Init /\ [][Next]_vars

(* A process that is not ended goes on to the next system call: nothing in  *)
(* acquire or release waits for another process.                            *)
FairSpec == Spec /\ \A p \in Proc : WF_vars(Calling(p))
-----------------------------------------------------------------------------
(* Types of the state. *)
TypeOK ==
    /\ file \in Lock \cup {NoLock}
    /\ status \in [Proc -> {"new", "running", "gone"}]
    /\ pid \in [Proc -> Pid]
    /\ startedAt \in [Proc -> Nat]
    /\ booted \in [Host -> Nat]
    /\ now \in Nat
    /\ heldHere \in [Proc -> Lock \cup {NoLock}]
    /\ pc \in [Proc -> {"idle", "link", "read", "judge", "rename", "aside",
                        "last", "unlink"}]
    /\ attempt \in [Proc -> 0..Attempts]
    /\ takes \in [Proc -> Nat]
    /\ mine \in [Proc -> Lock \cup {NoLock}]
    /\ seen \in [Proc -> Lock \cup {NoLock}]
    /\ aside \in [Proc -> Lock \cup {NoLock}]

Holds(p) == heldHere[p] # NoLock

(* A lock one process of this machine holds at a time: the first sentence   *)
(* of linkedLock.ts.  No two processes are at work under one lock.          *)
MutualExclusion == \A p, q \in Proc : Holds(p) /\ Holds(q) => p = q

(* A process ended in takeAway, with a lock it had moved aside.             *)
LeftAside == \E p \in Proc : status[p] = "gone" /\ aside[p] # NoLock

(* Of two processes at a time, whichever ended before them, wherever they   *)
(* ended and whatever locks they left, one works under the lock: a process  *)
(* that moves the other's new lock aside puts it back in time.  Excepted    *)
(* are a process that ends before it has put the lock back, a call that     *)
(* fails there, and locks a day old; and a third process would find the     *)
(* name free.                                                               *)
TwoStayApart ==
    MaxRunning <= 2 /\ ~ MayFail /\ now < Quiet /\ ~ LeftAside => MutualExclusion

(* No process ended, and no lock can have been held longer than a run       *)
(* lasts: no holder can be judged gone by another process.                  *)
NobodyGone == now < Quiet /\ \A p \in Proc : status[p] # "gone"

(* As long as no process ended and no lock is a day old, the lock keeps its *)
(* processes apart, whatever their number, their machines and the file      *)
(* system calls that fail: acquire's tries, the locks a failed release left *)
(* behind and their take-over by the process that left them included.       *)
ExclusiveWhileNobodyGone == NobodyGone => MutualExclusion

(* What the users of the lock rely on: seen from outside, the calls on the  *)
(* lock file are takes of a free lock and releases by its holder, one       *)
(* holder at a time, until somebody is gone or a lock is a day old.         *)
Abstract ==
    INSTANCE ExclusiveLock WITH Client <- Proc,
                                holders <- {p \in Proc : Holds(p)},
                                trusted <- NobodyGone
ImplementsExclusiveLock == Abstract!Spec

(* holder() names the process at work to every process that asks, in the    *)
(* same circumstances: none is told that the org is free while it is not.   *)
HolderNamesWorker ==
    NobodyGone =>
        \A p, q \in Proc : Running(p) /\ Holds(q) => holder(p) = heldHere[q]

(* The lock file names work under way, or work that just ended and is about *)
(* to remove it: a lock a running process let go refuses nobody.            *)
LockFileHasWork ==
    file # NoLock /\ Running(file.owner) =>
        \/ heldHere[file.owner] = file
        \/ pc[file.owner] = "unlink"

(* ... which holds while nobody is gone and no file system call fails.      *)
LockFileHasWorkWhileNobodyGone == NobodyGone /\ ~ MayFail => LockFileHasWork

(* acquire and release return, whatever the other processes do meanwhile.   *)
CallsReturn == \A p \in Proc : pc[p] # "idle" ~> pc[p] = "idle"

(* A lock whose holder is gone is taken over: when every other process has  *)
(* ended, whatever lock files they left and wherever each of them was, an   *)
(* acquire the last one begins takes the lock.                              *)
LastOneTakesOver ==
    \A p \in Proc :
        /\ pc[p] = "link" /\ attempt[p] = 0
        /\ \A q \in Proc \ {p} : status[q] = "gone"
        ~> Holds(p) \/ ~ Running(p)
=============================================================================
