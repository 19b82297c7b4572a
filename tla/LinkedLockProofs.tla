-------------------------- MODULE LinkedLockProofs --------------------------
(***************************************************************************)
(* Proofs about LinkedLock for every set of processes, machines and         *)
(* process ids, every bound, and file system calls that fail or do not.     *)
(***************************************************************************)
EXTENDS LinkedLock, FiniteSetTheorems, TLAPS

Trying == {"link", "read", "judge", "rename", "aside", "last"}

(* Processes at work or in a call are running; those of one machine have    *)
(* ids of their own, and no machine restarted.                              *)
ProcessesApart ==
    /\ \A p \in Proc : pc[p] # "idle" \/ Holds(p) => Running(p)
    /\ \A p, q \in Proc :
          Running(p) /\ Running(q) /\ HostOf[p] = HostOf[q] /\ p # q
             => pid[p] # pid[q]
    /\ \A h \in Host : booted[h] = 0

(* Every lock there is was made by a process that runs. *)
LocksOfTheLiving ==
    /\ file # NoLock => Running(file.owner)
    /\ \A p \in Proc :
          /\ pc[p] \in Trying => mine[p] # NoLock /\ mine[p].owner = p
          /\ pc[p] \in {"judge", "rename", "aside"} =>
                seen[p] # NoLock /\ Running(seen[p].owner)

(* The lock held is the one the file names; a process in a call holds none, *)
(* and removes or moves aside no lock file but its own.                     *)
OwnLockOnly ==
    \A p \in Proc :
        /\ Holds(p) => file = heldHere[p] /\ heldHere[p].owner = p
        /\ pc[p] # "idle" => ~ Holds(p)
        /\ pc[p] = "unlink" => file # NoLock /\ file.owner = p
        /\ pc[p] = "judge" /\ seen[p].owner = p => file = seen[p]
        /\ pc[p] = "rename" => seen[p].owner = p /\ file = seen[p]
        /\ pc[p] = "aside" => seen[p].owner = p /\ aside[p] = seen[p]

Apart == ProcessesApart /\ LocksOfTheLiving /\ OwnLockOnly

-----------------------------------------------------------------------------
(* acquire has a try left wherever it may still use one. *)
TriesLeft == \A p \in Proc : attempt[p] < Attempts \/ pc[p] = "last"

TypeInv == TypeOK /\ TriesLeft

(* The inductive invariant: it speaks of nothing once somebody is gone.     *)
IInv == TypeInv /\ (NobodyGone => Apart)

(* The state keeps its types through every step of every process, machine   *)
(* and clock.                                                               *)
LEMMA TypeStep == ASSUME TypeInv, [Next]_vars PROVE TypeInv'
<1> USE ProcessAssumption, BoundAssumption, NoLockAssumption
    DEF TypeInv, TypeOK, TriesLeft, Attempts
<1>1. ASSUME NEW p \in Proc, Start(p) PROVE TypeInv'
  BY <1>1 DEF Start
<1>2. ASSUME NEW P \in SUBSET Proc, Ended(P), booted' \in [Host -> Nat], now' \in Nat
      PROVE  TypeInv'
  BY <1>2 DEF Ended
<1>3. ASSUME NEW p \in Proc, Crash(p) PROVE TypeInv'
  BY <1>2, <1>3 DEF Crash
<1>4. ASSUME NEW h \in Host, Reboot(h) PROVE TypeInv'
  <2>1. booted' \in [Host -> Nat] /\ now' \in Nat
    BY <1>4 DEF Reboot
  <2> QED BY <1>2, <1>4, <2>1 DEF Reboot
<1>5. CASE Tick
  BY <1>5 DEF Tick
<1>6. ASSUME NEW p \in Proc, Begin(p) PROVE TypeInv'
  <2>1. [owner |-> p, n |-> takes[p], at |-> now] \in Lock
    BY DEF Lock
  <2> QED BY <1>6, <2>1 DEF Begin, machine
<1>7. ASSUME NEW p \in Proc, NextAttempt(p), pc[p] # "last",
             UNCHANGED <<machine, heldHere, takes>>, file' \in Lock \cup {NoLock}
      PROVE  TypeInv'
  BY <1>7 DEF NextAttempt, machine
<1>8. ASSUME NEW p \in Proc, Return(p), UNCHANGED <<machine, takes>>,
             file' \in Lock \cup {NoLock}, heldHere' \in [Proc -> Lock \cup {NoLock}]
      PROVE  TypeInv'
  BY <1>8 DEF Return, machine
<1>9. ASSUME NEW p \in Proc, Link(p) PROVE TypeInv'
  <2>1. CASE file = NoLock
    BY <1>8, <1>9, <2>1 DEF Link
  <2>2. CASE file # NoLock
    BY <1>9, <2>2 DEF Link, machine
  <2> QED BY <2>1, <2>2
<1>10. ASSUME NEW p \in Proc, Read(p) PROVE TypeInv'
  <2>1. CASE file = NoLock
    BY <1>7, <1>10, <2>1 DEF Read
  <2>2. CASE file # NoLock
    BY <1>10, <2>2 DEF Read, machine
  <2> QED BY <2>1, <2>2
<1>11. ASSUME NEW p \in Proc, Judge(p) PROVE TypeInv'
  <2>1. CASE isAlive(p, seen[p])
    BY <1>8, <1>11, <2>1 DEF Judge
  <2>2. CASE ~ isAlive(p, seen[p])
    BY <1>11, <2>2 DEF Judge, machine
  <2> QED BY <2>1, <2>2
<1>12. ASSUME NEW p \in Proc, Rename(p) PROVE TypeInv'
  <2>1. CASE file = NoLock
    BY <1>7, <1>12, <2>1 DEF Rename
  <2>2. CASE file # NoLock
    BY <1>12, <2>2 DEF Rename, machine
  <2> QED BY <2>1, <2>2
<1>13. ASSUME NEW p \in Proc, PutBack(p) PROVE TypeInv'
  BY <1>7, <1>13 DEF PutBack
<1>14. ASSUME NEW p \in Proc, GiveUp(p) PROVE TypeInv'
  BY <1>8, <1>14 DEF GiveUp
<1>15. ASSUME NEW p \in Proc, Release(p) PROVE TypeInv'
  BY <1>15 DEF Release, machine
<1>16. ASSUME NEW p \in Proc, Unlink(p) PROVE TypeInv'
  BY <1>16 DEF Unlink, machine
<1>17. ASSUME NEW p \in Proc, IoError(p) PROVE TypeInv'
  <2>1. CASE pc[p] \in {"link", "read", "last"}
    BY <1>8, <1>17, <2>1 DEF IoError
  <2>2. CASE pc[p] \in {"rename", "aside"}
    BY <1>7, <1>17, <2>2 DEF IoError
  <2>3. CASE pc[p] \in {"unlink", "idle"}
    BY <1>17, <2>3 DEF IoError, machine
  <2>4. pc[p] # "judge"
    BY <1>17 DEF IoError
  <2> QED BY <2>1, <2>2, <2>3, <2>4
<1>18. CASE UNCHANGED vars
  BY <1>18 DEF vars
<1> QED
  BY <1>1, <1>3, <1>4, <1>5, <1>6, <1>9, <1>10, <1>11, <1>12, <1>13, <1>14,
     <1>15, <1>16, <1>17, <1>18 DEF Next, Calling

(* Every state a run of acquires, releases, ends and restarts reaches has   *)
(* the types TypeOK gives it.                                               *)
THEOREM TypeCorrect == Spec => []TypeOK
<1>1. Init => TypeInv
  BY ProcessAssumption, BoundAssumption
  DEF Init, TypeInv, TypeOK, TriesLeft, Attempts
<1>2. TypeInv /\ [Next]_vars => TypeInv'
  BY TypeStep
<1>3. TypeInv => TypeOK
  BY DEF TypeInv
<1> QED BY <1>1, <1>2, <1>3, PTL DEF Spec

-----------------------------------------------------------------------------
(* isAlive never takes a running process for gone while nobody is gone:     *)
(* neither its machine, its id nor the age of its lock tells against it.    *)
LEMMA LivingIsAlive ==
    ASSUME TypeOK, NobodyGone, ProcessesApart,
           NEW p \in Proc, NEW lock \in Lock,
           Running(p), Running(lock.owner), lock.owner # p
    PROVE  isAlive(p, lock)
<1>1. lock.owner \in Proc /\ lock.at \in Nat
  BY DEF Lock
<1>2. now < lock.at + Quiet
  BY <1>1, BoundAssumption DEF NobodyGone, TypeOK
<1>3. ASSUME HostOf[lock.owner] = HostOf[p] PROVE writtenElsewhere(p, lock)
  <2>1. pid[lock.owner] # pid[p]
    BY <1>1, <1>3 DEF ProcessesApart
  <2>2. startedAt[lock.owner] + Leeway >= booted[HostOf[p]]
    BY <1>1, ProcessAssumption, BoundAssumption DEF ProcessesApart, TypeOK
  <2>3. now <= lock.at + Quiet
    BY <1>1, <1>2, BoundAssumption DEF TypeOK
  <2>4. processRunning(p, pid[lock.owner])
    BY <1>1, <1>3 DEF processRunning
  <2> QED BY <2>1, <2>2, <2>3, <2>4 DEF writtenElsewhere
<1> QED BY <1>2, <1>3 DEF isAlive

(* Somebody gone stays gone, and time does not go back. *)
LEMMA GoneStaysGone ==
    ASSUME TypeOK, [Next]_vars, NobodyGone' PROVE NobodyGone
<1> USE DEF NobodyGone, TypeOK
<1>1. ASSUME NEW P \in SUBSET Proc, Ended(P), UNCHANGED now PROVE NobodyGone
  BY <1>1 DEF Ended
<1>2. ASSUME NEW p \in Proc, Start(p) PROVE NobodyGone
  BY <1>2 DEF Start
<1>3. ASSUME NEW p \in Proc, Crash(p) PROVE NobodyGone
  BY <1>1, <1>3 DEF Crash
<1>4. ASSUME NEW h \in Host, Reboot(h) PROVE NobodyGone
  BY <1>1, <1>4 DEF Reboot
<1>5. CASE Tick
  BY <1>5, BoundAssumption DEF Tick
<1>6. ASSUME UNCHANGED machine PROVE NobodyGone
  BY <1>6 DEF machine
<1> QED
  BY <1>2, <1>3, <1>4, <1>5, <1>6
  DEF Next, Calling, Begin, Link, Read, Judge, Rename, PutBack, GiveUp, Release,
      Unlink, IoError, vars, machine

(* One step keeps the processes apart while nobody is gone.                 *)
LEMMA ApartStep ==
    ASSUME TypeInv, Apart, NobodyGone, NobodyGone', [Next]_vars
    PROVE  Apart'
<1> USE ProcessAssumption, BoundAssumption, NoLockAssumption
    DEF TypeInv, TypeOK, Apart, ProcessesApart, LocksOfTheLiving, OwnLockOnly,
        Trying, Holds, Running
<1>0. \A l \in Lock : l # NoLock /\ l.owner \in Proc
  BY DEF Lock
<1>1. ASSUME NEW p \in Proc, Start(p) PROVE Apart'
  BY <1>0, <1>1 DEF Start, processRunning
<1>2. ASSUME NEW p \in Proc, Crash(p) PROVE Apart'
  BY <1>2 DEF Crash, Ended, NobodyGone
<1>3. ASSUME NEW h \in Host, Reboot(h) PROVE Apart'
  BY <1>3 DEF Reboot, Ended, NobodyGone
<1>4. CASE Tick
  BY <1>4 DEF Tick
<1>5. ASSUME NEW p \in Proc, Begin(p) PROVE Apart'
  BY <1>0, <1>5 DEF Begin, machine, Lock
<1>6. ASSUME NEW p \in Proc, Link(p) PROVE Apart'
  BY <1>0, <1>6 DEF Link, Return, machine
<1>7. ASSUME NEW p \in Proc, Read(p) PROVE Apart'
  BY <1>0, <1>7 DEF Read, NextAttempt, machine
<1>8. ASSUME NEW p \in Proc, Judge(p) PROVE Apart'
  <2>1. CASE isAlive(p, seen[p])
    BY <1>8, <2>1 DEF Judge, Return, machine
  <2>2. CASE ~ isAlive(p, seen[p])
    <3>1. seen[p].owner = p
      BY <1>8, <2>2, LivingIsAlive DEF Judge
    <3> QED BY <1>8, <2>2, <3>1 DEF Judge, machine
  <2> QED BY <2>1, <2>2
<1>9. ASSUME NEW p \in Proc, Rename(p) PROVE Apart'
  BY <1>0, <1>9 DEF Rename, NextAttempt, machine
<1>10. ASSUME NEW p \in Proc, PutBack(p) PROVE Apart'
  <2>1. file' = file
    BY <1>10 DEF PutBack
  <2> QED BY <1>10, <2>1 DEF PutBack, NextAttempt, machine
<1>11. ASSUME NEW p \in Proc, GiveUp(p) PROVE Apart'
  BY <1>11 DEF GiveUp, Return, machine
<1>12. ASSUME NEW p \in Proc, Release(p) PROVE Apart'
  BY <1>0, <1>12 DEF Release, machine
<1>13. ASSUME NEW p \in Proc, Unlink(p) PROVE Apart'
  BY <1>0, <1>13 DEF Unlink, machine
<1>14. ASSUME NEW p \in Proc, IoError(p) PROVE Apart'
  BY <1>0, <1>14 DEF IoError, Return, NextAttempt, machine
<1>15. CASE UNCHANGED vars
  BY <1>15 DEF vars
<1> QED
  BY <1>1, <1>2, <1>3, <1>4, <1>5, <1>6, <1>7, <1>8, <1>9, <1>10, <1>11, <1>12,
     <1>13, <1>14, <1>15 DEF Next, Calling

LEMMA ApartAlways == Spec => []IInv
<1>1. Init => IInv
  BY ProcessAssumption, BoundAssumption
  DEF Init, IInv, TypeInv, TypeOK, TriesLeft, Attempts, Apart, ProcessesApart,
      LocksOfTheLiving, OwnLockOnly, Trying, Holds, Running
<1>2. IInv /\ [Next]_vars => IInv'
  BY TypeStep, GoneStaysGone, ApartStep DEF IInv, TypeInv
<1> QED BY <1>1, <1>2, PTL DEF Spec

(* As long as no process has ended and no lock is a day old, no two         *)
(* processes work under one lock: for every number of processes, machines   *)
(* and acquires, and whichever file system calls fail.                      *)
THEOREM LockKeepsApart == Spec => []ExclusiveWhileNobodyGone
<1>1. IInv => ExclusiveWhileNobodyGone
  BY DEF IInv, ExclusiveWhileNobodyGone, MutualExclusion, Apart, OwnLockOnly, Holds
<1> QED BY <1>1, ApartAlways, PTL

(* Under the same condition holder() names the process at work to every     *)
(* process that asks.                                                       *)
THEOREM HolderIsRight == Spec => []HolderNamesWorker
<1>1. IInv => HolderNamesWorker
  <2> SUFFICES ASSUME IInv, NobodyGone, NEW p \in Proc, NEW q \in Proc,
                      Running(p), Holds(q)
               PROVE  holder(p) = heldHere[q]
    BY DEF HolderNamesWorker
  <2>1. file = heldHere[q] /\ file \in Lock /\ file.owner = q /\ Running(q)
    BY DEF IInv, TypeInv, TypeOK, Apart, ProcessesApart, OwnLockOnly, Holds
  <2>2. CASE p = q
    BY <2>2 DEF holder, Holds
  <2>3. CASE p # q
    <3>1. isAlive(p, file)
      BY <2>1, <2>3, LivingIsAlive DEF IInv, TypeInv, Apart
    <3>2. heldHere[p] = NoLock
      BY <2>1, <2>3 DEF IInv, Apart, OwnLockOnly, Holds
    <3> QED BY <2>1, <3>1, <3>2, NoLockAssumption DEF holder
  <2> QED BY <2>2, <2>3
<1> QED BY <1>1, ApartAlways, PTL

-----------------------------------------------------------------------------
(* With no file system call failing, the lock file names work under way,    *)
(* and so no process gets as far as moving a lock aside.                    *)
NothingLeft ==
    NobodyGone /\ ~ MayFail =>
        /\ LockFileHasWork
        /\ \A p \in Proc : pc[p] \notin {"rename", "aside"}

(* One step leaves no lock file behind that refuses for nobody's work.      *)
LEMMA NothingLeftStep ==
    ASSUME IInv, IInv', NothingLeft, [Next]_vars PROVE NothingLeft'
<1> SUFFICES ASSUME NobodyGone', ~ MayFail
             PROVE  /\ LockFileHasWork'
                    /\ \A q \in Proc : pc'[q] \notin {"rename", "aside"}
  BY DEF NothingLeft
<1>0. NobodyGone /\ Apart /\ LockFileHasWork /\ TypeOK
      /\ \A q \in Proc : pc[q] \notin {"rename", "aside"}
  BY GoneStaysGone DEF IInv, TypeInv, NothingLeft
<1> USE <1>0, ProcessAssumption, NoLockAssumption
    DEF LockFileHasWork, Apart, ProcessesApart, LocksOfTheLiving, OwnLockOnly, TypeOK,
        Holds, Running, Trying
<1>1. \A l \in Lock : l # NoLock /\ l.owner \in Proc
  BY DEF Lock
<1> DEFINE Goal == /\ LockFileHasWork'
                   /\ \A q \in Proc : pc'[q] \notin {"rename", "aside"}
<1>2. ASSUME NEW p \in Proc, Start(p) PROVE Goal
  BY <1>1, <1>2 DEF Start
<1>3. ASSUME NEW p \in Proc, Crash(p) PROVE Goal
  BY <1>3 DEF Crash, Ended, NobodyGone
<1>4. ASSUME NEW h \in Host, Reboot(h) PROVE Goal
  BY <1>4 DEF Reboot, Ended, NobodyGone
<1>5. CASE Tick
  BY <1>5 DEF Tick
<1>6. ASSUME NEW p \in Proc, Begin(p) PROVE Goal
  BY <1>1, <1>6 DEF Begin, machine
<1>7. ASSUME NEW p \in Proc, Link(p) PROVE Goal
  BY <1>1, <1>7 DEF Link, Return, machine
<1>8. ASSUME NEW p \in Proc, Read(p) PROVE Goal
  BY <1>1, <1>8 DEF Read, NextAttempt, machine
<1>9. ASSUME NEW p \in Proc, Judge(p) PROVE Goal
  <2>1. isAlive(p, seen[p])
    <3>1. CASE seen[p].owner = p
      BY <1>1, <1>9, <3>1 DEF Judge
    <3>2. CASE seen[p].owner # p
      BY <1>9, <3>2, LivingIsAlive DEF Judge
    <3> QED BY <3>1, <3>2
  <2> QED BY <1>1, <1>9, <2>1 DEF Judge, Return, machine
<1>10. ASSUME NEW p \in Proc, Rename(p) \/ PutBack(p) PROVE Goal
  BY <1>10 DEF Rename, PutBack
<1>11. ASSUME NEW p \in Proc, GiveUp(p) PROVE Goal
  BY <1>1, <1>11 DEF GiveUp, Return, machine
<1>12. ASSUME NEW p \in Proc, Release(p) PROVE Goal
  BY <1>1, <1>12 DEF Release, machine
<1>13. ASSUME NEW p \in Proc, Unlink(p) PROVE Goal
  BY <1>1, <1>13 DEF Unlink, machine
<1>14. ASSUME NEW p \in Proc, IoError(p) PROVE Goal
  BY <1>14 DEF IoError
<1>15. CASE UNCHANGED vars
  BY <1>15 DEF vars
<1> QED
  BY <1>2, <1>3, <1>4, <1>5, <1>6, <1>7, <1>8, <1>9, <1>10, <1>11, <1>12, <1>13,
     <1>14, <1>15 DEF Next, Calling

(* While nobody is gone and no file system call fails, a lock file names a  *)
(* process at work under it or about to remove it, for every number of      *)
(* processes and acquires: acquire refuses nobody for nothing.              *)
THEOREM NoLockLeftBehind == Spec => []LockFileHasWorkWhileNobodyGone
<1>1. Init => NothingLeft
  BY DEF Init, NothingLeft, LockFileHasWork
<1>2. IInv /\ IInv' /\ NothingLeft /\ [Next]_vars => NothingLeft'
  BY NothingLeftStep
<1>3. NothingLeft => LockFileHasWorkWhileNobodyGone
  BY DEF NothingLeft, LockFileHasWorkWhileNobodyGone
<1> QED BY <1>1, <1>2, <1>3, ApartAlways, PTL DEF Spec

-----------------------------------------------------------------------------
Holders == {p \in Proc : Holds(p)}

(* A step that leaves what every process holds as it is. *)
LEMMA HoldersStay == ASSUME UNCHANGED heldHere PROVE UNCHANGED Holders
BY DEF Holders, Holds

(* What the steps of acquire and release are to those outside: a Take when  *)
(* the link succeeds, a Free when the lock is forgotten, nothing otherwise. *)
LEMMA SeenFromOutside ==
    ASSUME IInv, NobodyGone, NobodyGone', [Next]_vars
    PROVE  \/ UNCHANGED Holders
           \/ \E p \in Proc : Holders = {} /\ Holders' = {p}
           \/ \E p \in Proc : p \in Holders /\ Holders' = Holders \ {p}
<1> DEFINE Goal == \/ UNCHANGED Holders
                   \/ \E q \in Proc : Holders = {} /\ Holders' = {q}
                   \/ \E q \in Proc : q \in Holders /\ Holders' = Holders \ {q}
<1>0. TypeOK /\ OwnLockOnly /\ LocksOfTheLiving
  BY DEF IInv, TypeInv, Apart
<1>1. ASSUME UNCHANGED heldHere PROVE Goal
  BY <1>1, HoldersStay
<1>2. ASSUME NEW p \in Proc, Holds(p), heldHere' = [heldHere EXCEPT ![p] = NoLock]
      PROVE  Goal
  BY <1>0, <1>2 DEF Holders, Holds, TypeOK
<1>3. ASSUME NEW p \in Proc, Link(p) PROVE Goal
  <2>1. CASE file = NoLock
    <3>1. Holders = {}
      BY <1>0, <2>1 DEF OwnLockOnly, Holders, Holds
    <3>2. mine[p] # NoLock /\ heldHere' = [heldHere EXCEPT ![p] = mine[p]]
      BY <1>0, <1>3, <2>1 DEF Link, LocksOfTheLiving, Trying
    <3>3. Holders' = {p}
      BY <1>0, <3>1, <3>2 DEF Holders, Holds, TypeOK
    <3> QED BY <3>1, <3>3
  <2>2. CASE file # NoLock
    BY <1>1, <1>3, <2>2 DEF Link
  <2> QED BY <2>1, <2>2
<1>4. ASSUME NEW p \in Proc, Release(p) PROVE Goal
  BY <1>2, <1>4 DEF Release, Holds
<1>5. ASSUME NEW p \in Proc, IoError(p) PROVE Goal
  <2>1. CASE UNCHANGED heldHere
    BY <1>1, <2>1
  <2>2. CASE ~ UNCHANGED heldHere
    <3>1. heldHere' = [heldHere EXCEPT ![p] = NoLock]
      BY <1>5, <2>2 DEF IoError
    <3>2. Holds(p)
      BY <1>0, <2>2, <3>1 DEF TypeOK, Holds
    <3> QED BY <1>2, <3>1, <3>2
  <2> QED BY <2>1, <2>2
<1>6. ASSUME NEW p \in Proc, Crash(p) PROVE Goal
  BY <1>0, <1>6 DEF Crash, Ended, NobodyGone, TypeOK
<1>7. ASSUME NEW h \in Host, Reboot(h) PROVE Goal
  BY <1>0, <1>7 DEF Reboot, Ended, NobodyGone, TypeOK
<1> QED
  BY <1>1, <1>3, <1>4, <1>5, <1>6, <1>7
  DEF Next, Calling, Start, Tick, Begin, Read, Judge, Rename, PutBack, GiveUp, Unlink, vars

(* linkedLock.ts implements the lock its users rely on: one holder at a     *)
(* time until somebody is gone or a lock is a day old, for every number of  *)
(* processes and machines and whichever file system calls fail.             *)
THEOREM LockRefines == Spec => ImplementsExclusiveLock
<1>1. Init => Abstract!Init
  BY BoundAssumption DEF Init, Abstract!Init, Holds, NobodyGone
<1>2. ASSUME IInv, [Next]_vars PROVE [Abstract!Next]_(Abstract!lockVars)
  <2>1. CASE ~ NobodyGone'
    BY <2>1 DEF Abstract!Next, Abstract!Distrust
  <2>2. CASE NobodyGone'
    <3>1. NobodyGone
      BY <1>2, <2>2, GoneStaysGone DEF IInv, TypeInv
    <3>2. \/ UNCHANGED Holders
          \/ \E p \in Proc : Holders = {} /\ Holders' = {p}
          \/ \E p \in Proc : p \in Holders /\ Holders' = Holders \ {p}
      BY <1>2, <2>2, <3>1, SeenFromOutside
    <3> QED
      BY <2>2, <3>1, <3>2
      DEF Abstract!Next, Abstract!Take, Abstract!Free, Abstract!lockVars, Holders
  <2> QED BY <2>1, <2>2
<1> QED BY <1>1, <1>2, ApartAlways, PTL DEF Spec, ImplementsExclusiveLock, Abstract!Spec
-----------------------------------------------------------------------------
(* Two processes at a time, after others have ended.                        *)

Circumstances == MaxRunning <= 2 /\ ~ MayFail /\ now < Quiet /\ ~ LeftAside

Runners == {p \in Proc : Running(p)}

(* Two processes run at most; those at work or in a call do, they started   *)
(* after their machine, and have ids of their own.                          *)
TwoRun ==
    /\ IsFiniteSet(Runners)
    /\ \A p, q, r \in Proc :
          Running(p) /\ Running(q) /\ Running(r) => p = q \/ q = r \/ p = r
    /\ \A p, q \in Proc :
          Running(p) /\ Running(q) /\ HostOf[p] = HostOf[q] /\ p # q
             => pid[p] # pid[q]
    /\ \A p \in Proc :
          /\ pc[p] # "idle" \/ Holds(p) => Running(p)
          /\ Running(p) => startedAt[p] >= booted[HostOf[p]]
    /\ \A h \in Host : booted[h] <= now

(* A lock of a process that has started, whether it runs or is gone. *)
Begun(lock) == lock # NoLock /\ status[lock.owner] # "new"

(* Every lock there is was made by a process that started; one about to be  *)
(* removed was made by the process that removes it or by one that is gone.  *)
LocksOfTheBegun ==
    /\ file # NoLock => Begun(file)
    /\ \A p \in Proc :
          /\ pc[p] \in Trying => mine[p] # NoLock /\ mine[p].owner = p
          /\ pc[p] \in {"judge", "rename", "aside"} => Begun(seen[p])
          /\ pc[p] = "aside" => Begun(aside[p])
          /\ pc[p] \in {"rename", "aside"} => ~ Running(seen[p].owner) \/ seen[p].owner = p

(* A lock in use, held or about to be removed by p that let it go, is the   *)
(* one the file names, or the other process has it aside and puts it back.  *)
AtHand(p) ==
    \/ file # NoLock /\ file.owner = p /\ (Holds(p) => file = heldHere[p])
    \/ /\ file = NoLock
       /\ \E q \in Proc :
             /\ q # p /\ pc[q] = "aside" /\ aside[q].owner = p
             /\ Holds(p) => aside[q] = heldHere[p]

InUse ==
    \A p \in Proc :
        /\ Holds(p) => pc[p] = "idle" /\ heldHere[p].owner = p
        /\ Holds(p) \/ pc[p] = "unlink" => AtHand(p)

Survivors == TwoRun /\ LocksOfTheBegun /\ InUse

SurvivorsInv == Circumstances => Survivors

(* What the circumstances exclude does not pass: nobody comes back for a    *)
(* lock aside, and time does not go back.                                   *)
LEMMA CircumstancesBefore ==
    ASSUME TypeOK, [Next]_vars, Circumstances' PROVE Circumstances
<1> USE DEF Circumstances, LeftAside, TypeOK
<1>1. ASSUME NEW P \in SUBSET Proc, Ended(P), UNCHANGED now PROVE Circumstances
  BY <1>1 DEF Ended
<1>2. ASSUME NEW p \in Proc, Start(p) PROVE Circumstances
  BY <1>2 DEF Start
<1>3. ASSUME NEW p \in Proc, Crash(p) PROVE Circumstances
  BY <1>1, <1>3 DEF Crash
<1>4. ASSUME NEW h \in Host, Reboot(h) PROVE Circumstances
  BY <1>1, <1>4 DEF Reboot
<1>5. CASE Tick
  BY <1>5, BoundAssumption DEF Tick
<1>6. ASSUME NEW p \in Proc, Running(p), UNCHANGED machine,
             \A q \in Proc : q # p => aside'[q] = aside[q]
      PROVE  Circumstances
  BY <1>6 DEF machine, Running
<1>7. ASSUME NEW p \in Proc,
             Begin(p) \/ Link(p) \/ Read(p) \/ Judge(p) \/ Rename(p) \/ PutBack(p)
             \/ GiveUp(p) \/ Release(p) \/ Unlink(p) \/ IoError(p)
      PROVE  Circumstances
  <2>1. Running(p) /\ UNCHANGED machine
    BY <1>7
    DEF Begin, Link, Read, Judge, Rename, PutBack, GiveUp, Release, Unlink, IoError
  <2>2. \A q \in Proc : q # p => aside'[q] = aside[q]
    BY <1>7
    DEF Begin, Link, Read, Judge, Rename, PutBack, GiveUp, Release, Unlink, IoError,
        Return, NextAttempt
  <2> QED BY <1>6, <2>1, <2>2
<1>8. CASE UNCHANGED vars
  BY <1>8 DEF vars
<1> QED BY <1>2, <1>3, <1>4, <1>5, <1>7, <1>8 DEF Next, Calling

(* isAlive never takes a running process for gone, whatever machines        *)
(* restarted and processes ended before.                                    *)
LEMMA RunnerIsAlive ==
    ASSUME TypeOK, now < Quiet, TwoRun, NEW p \in Proc, NEW lock \in Lock,
           Running(p), Running(lock.owner), lock.owner # p
    PROVE  isAlive(p, lock)
<1>1. lock.owner \in Proc /\ lock.at \in Nat
  BY DEF Lock
<1>2. now < lock.at + Quiet
  BY <1>1, BoundAssumption DEF TypeOK
<1>3. ASSUME HostOf[lock.owner] = HostOf[p] PROVE writtenElsewhere(p, lock)
  <2>1. pid[lock.owner] # pid[p]
    BY <1>1, <1>3 DEF TwoRun
  <2>2. startedAt[lock.owner] + Leeway >= booted[HostOf[p]]
    <3>1. startedAt[lock.owner] >= booted[HostOf[p]]
      BY <1>1, <1>3 DEF TwoRun
    <3>2. startedAt[lock.owner] \in Nat /\ booted[HostOf[p]] \in Nat
      BY <1>1, ProcessAssumption DEF TypeOK
    <3> QED BY <3>1, <3>2, BoundAssumption
  <2>3. now <= lock.at + Quiet
    BY <1>1, <1>2, BoundAssumption DEF TypeOK
  <2>4. processRunning(p, pid[lock.owner])
    BY <1>1, <1>3 DEF processRunning
  <2> QED BY <2>1, <2>2, <2>3, <2>4 DEF writtenElsewhere
<1> QED BY <1>2, <1>3 DEF isAlive

(* A step of a process that leaves the machines alone leaves TwoRun, once   *)
(* it is seen to be that of a running process.                              *)
LEMMA TwoRunStays ==
    ASSUME TwoRun, UNCHANGED machine, NEW p \in Proc, Running(p),
           \A q \in Proc : q # p => pc'[q] = pc[q] /\ heldHere'[q] = heldHere[q]
    PROVE  TwoRun'
<1>1. UNCHANGED Runners
  BY DEF Runners, Running, machine
<1>2. IsFiniteSet(Runners)'
  BY <1>1 DEF TwoRun
<1> QED BY <1>2 DEF TwoRun, Running, Holds, machine

(* A process that starts is one of two. *)
LEMMA TwoRunStart ==
    ASSUME TypeOK, TwoRun, MaxRunning <= 2, NEW p \in Proc, Start(p) PROVE TwoRun'
<1> DEFINE Card == Cardinality(Runners)
<1>1. IsFiniteSet(Runners) /\ Card \in Nat /\ Card < 2
  <2>1. IsFiniteSet(Runners)
    BY DEF TwoRun
  <2>2. Card \in Nat
    BY <2>1, FS_CardinalityType
  <2>3. Card < MaxRunning
    BY DEF Start, Runners
  <2> QED BY <2>1, <2>2, <2>3, BoundAssumption
<1>2. ASSUME NEW q \in Proc, NEW r \in Proc, Running(q), Running(r) PROVE q = r
  <2> SUFFICES ASSUME q # r PROVE FALSE
    OBVIOUS
  <2>1. {q, r} \subseteq Runners
    BY <1>2 DEF Runners
  <2>2. Cardinality({q, r}) <= Card
    BY <1>1, <2>1, FS_Subset
  <2>3. IsFiniteSet({q}) /\ Cardinality({q}) = 1
    BY FS_Singleton
  <2>4. Cardinality({q} \cup {r}) = 2
    <3>1. r \notin {q}
      OBVIOUS
    <3> QED BY <2>3, <3>1, FS_AddElement
  <2>5. {q} \cup {r} = {q, r}
    OBVIOUS
  <2> QED BY <1>1, <2>2, <2>4, <2>5
<1>3. Runners' = Runners \cup {p} /\ ~ Running(p)
  BY DEF Start, Runners, Running, TypeOK
<1>4. IsFiniteSet(Runners)'
  BY <1>1, <1>3, FS_AddElement
<1>5. \A q \in Proc : Running(q)' <=> Running(q) \/ q = p
  BY DEF Start, Running, TypeOK
<1>6. (\A q, r, t \in Proc :
          Running(q) /\ Running(r) /\ Running(t) => q = r \/ r = t \/ q = t)'
  BY <1>2, <1>5
<1>7. (\A q, r \in Proc :
          Running(q) /\ Running(r) /\ HostOf[q] = HostOf[r] /\ q # r
             => pid[q] # pid[r])'
  BY <1>5 DEF TwoRun, Start, processRunning, TypeOK
<1>8. (\A q \in Proc :
          /\ pc[q] # "idle" \/ Holds(q) => Running(q)
          /\ Running(q) => startedAt[q] >= booted[HostOf[q]])'
  <2>1. startedAt'[p] >= booted'[HostOf[p]]
    BY ProcessAssumption DEF TwoRun, Start, TypeOK
  <2> QED BY <1>3, <1>5, <2>1 DEF TwoRun, Start, Holds, TypeOK
<1>9. (\A h \in Host : booted[h] <= now)'
  BY DEF TwoRun, Start
<1> QED BY <1>4, <1>6, <1>7, <1>8, <1>9 DEF TwoRun

(* Nor are there more once some have ended. *)
LEMMA SurvivorsOfEnd ==
    ASSUME TypeOK, Survivors, NEW P \in SUBSET Proc, Ended(P), ~ LeftAside',
           UNCHANGED now, \A h \in Host : booted'[h] <= now,
           \A q \in Proc : Running(q)' => booted'[HostOf[q]] = booted[HostOf[q]]
    PROVE  Survivors'
<1>1. \A q \in Proc : Running(q)' <=> Running(q) /\ q \notin P
  BY DEF Ended, Running, TypeOK
<1>2. \A q \in P : aside[q] = NoLock
  BY DEF Ended, LeftAside, TypeOK
<1>3. TwoRun'
  <2>1. Runners' \subseteq Runners
    BY <1>1 DEF Runners
  <2>2. IsFiniteSet(Runners)'
    BY <2>1, FS_Subset DEF Survivors, TwoRun
  <2> QED BY <1>1, <2>2 DEF Survivors, TwoRun, Ended, Holds, TypeOK
<1>4. LocksOfTheBegun'
  BY <1>1, NoLockAssumption
  DEF Survivors, LocksOfTheBegun, Begun, Ended, TypeOK, Lock, Trying
<1>5. InUse'
  <2> SUFFICES ASSUME NEW p \in Proc, Holds(p)' \/ pc'[p] = "unlink"
               PROVE  /\ Holds(p)' => pc'[p] = "idle" /\ heldHere'[p].owner = p
                      /\ AtHand(p)'
    BY DEF InUse
  <2>1. p \notin P /\ heldHere'[p] = heldHere[p] /\ pc'[p] = pc[p]
    BY DEF Ended, Holds, TypeOK
  <2>2. AtHand(p)
    BY <2>1 DEF Survivors, InUse, Holds
  <2>3. \A q \in Proc : pc[q] = "aside" => q \notin P
    BY <1>2 DEF Survivors, LocksOfTheBegun, Begun
  <2>4. AtHand(p)'
    BY <2>1, <2>2, <2>3 DEF AtHand, Ended, Holds, TypeOK
  <2> QED BY <2>1, <2>4 DEF Survivors, InUse, Holds
<1> QED BY <1>3, <1>4, <1>5 DEF Survivors

(* One step of a call keeps every lock in use at hand. *)
LEMMA SurvivorsCall ==
    ASSUME TypeOK, TypeOK', Survivors, Circumstances, NEW p \in Proc,
           Begin(p) \/ Calling(p) \/ Release(p)
    PROVE  Survivors'
<1> USE ProcessAssumption, BoundAssumption, NoLockAssumption
<1>0. \A l \in Lock : l # NoLock /\ l.owner \in Proc
  BY DEF Lock
<1>1. TwoRun'
  <2>1. Running(p) /\ UNCHANGED machine
    BY DEF Calling, Begin, Link, Read, Judge, Rename, PutBack, GiveUp, Release, Unlink
  <2>2. \A q \in Proc : q # p => pc'[q] = pc[q] /\ heldHere'[q] = heldHere[q]
    BY DEF Calling, Begin, Link, Read, Judge, Rename, PutBack, GiveUp, Release, Unlink,
           Return, NextAttempt, TypeOK
  <2> QED BY <2>1, <2>2, TwoRunStays DEF Survivors
<1>2. \A q, r \in Proc :
          /\ q # p /\ r # p /\ (pc[q] # "idle" \/ Holds(q)) /\ (pc[r] # "idle" \/ Holds(r))
             => q = r
          /\ Running(p)
  BY DEF Survivors, TwoRun, Calling, Begin, Link, Read, Judge, Rename, PutBack, GiveUp,
         Release, Unlink
<1> USE <1>0 DEF Survivors, LocksOfTheBegun, InUse, Begun, Trying, TypeOK, machine
<1>3. CASE Begin(p)
  <2>1. LocksOfTheBegun'
    BY <1>3 DEF Begin, Lock, Running
  <2>2. InUse'
    BY <1>3 DEF Begin, AtHand, Holds
  <2> QED BY <1>1, <2>1, <2>2
<1>4. CASE Link(p)
  <2>1. LocksOfTheBegun'
    BY <1>4 DEF Link, Return, Running
  <2>2. CASE file # NoLock
    BY <1>1, <1>4, <2>1, <2>2 DEF Link, AtHand, Holds
  <2>3. CASE file = NoLock
    <3>1. \A q \in Proc : ~ (Holds(q) \/ pc[q] = "unlink")
      <4> SUFFICES ASSUME NEW q \in Proc, Holds(q) \/ pc[q] = "unlink" PROVE FALSE
        OBVIOUS
      <4>1. PICK r \in Proc : r # q /\ pc[r] = "aside"
        BY <2>3 DEF AtHand
      <4> QED BY <1>2, <1>4, <4>1 DEF Link
    <3>2. InUse'
      BY <1>4, <2>3, <3>1 DEF Link, Return, AtHand, Holds
    <3> QED BY <1>1, <2>1, <3>2
  <2> QED BY <2>2, <2>3
<1>5. CASE Read(p)
  <2>1. LocksOfTheBegun'
    BY <1>5 DEF Read, NextAttempt, Running
  <2>2. InUse'
    BY <1>5 DEF Read, NextAttempt, AtHand, Holds
  <2> QED BY <1>1, <2>1, <2>2
<1>6. CASE Judge(p)
  <2>1. LocksOfTheBegun'
    <3>1. CASE isAlive(p, seen[p])
      BY <1>6, <3>1 DEF Judge, Return, Running
    <3>2. CASE ~ isAlive(p, seen[p])
      <4>1. seen[p] \in Lock
        BY <1>6 DEF Judge
      <4>2. ~ Running(seen[p].owner) \/ seen[p].owner = p
        BY <1>2, <3>2, <4>1, RunnerIsAlive DEF Circumstances
      <4> QED BY <1>6, <3>2, <4>2 DEF Judge, Running
    <3> QED BY <3>1, <3>2
  <2>2. InUse'
    BY <1>6 DEF Judge, Return, AtHand, Holds
  <2> QED BY <1>1, <2>1, <2>2
<1>7. CASE Rename(p)
  <2>1. LocksOfTheBegun'
    BY <1>7 DEF Rename, NextAttempt, Running
  <2>2. InUse'
    <3> SUFFICES ASSUME NEW q \in Proc, Holds(q)' \/ pc'[q] = "unlink" PROVE AtHand(q)'
      BY <1>7 DEF Rename, NextAttempt, Holds
    <3>1. q # p /\ AtHand(q) /\ heldHere' = heldHere
      BY <1>7 DEF Rename, NextAttempt, Holds
    <3>2. CASE file = NoLock
      BY <1>7, <3>1, <3>2 DEF Rename, NextAttempt, AtHand, Holds
    <3>3. CASE file # NoLock
      <4>1. file' = NoLock /\ pc'[p] = "aside" /\ aside'[p] = file
        BY <1>7, <3>3 DEF Rename
      <4> QED BY <3>1, <3>3, <4>1 DEF AtHand, Holds
    <3> QED BY <3>2, <3>3
  <2> QED BY <1>1, <2>1, <2>2
<1>8. CASE PutBack(p)
  <2>1. LocksOfTheBegun'
    BY <1>8 DEF PutBack, NextAttempt, Running
  <2>2. InUse'
    <3> SUFFICES ASSUME NEW q \in Proc, Holds(q)' \/ pc'[q] = "unlink" PROVE AtHand(q)'
      BY <1>8 DEF PutBack, NextAttempt, Holds
    <3>1. q # p /\ AtHand(q) /\ heldHere' = heldHere /\ Running(q)
      BY <1>8 DEF PutBack, NextAttempt, Holds, TwoRun
    <3>2. CASE file # NoLock
      BY <1>8, <3>1, <3>2 DEF PutBack, AtHand, Holds
    <3>3. CASE file = NoLock
      <4>1. PICK r \in Proc : /\ r # q /\ pc[r] = "aside" /\ aside[r].owner = q
                              /\ Holds(q) => aside[r] = heldHere[q]
        BY <3>1, <3>3 DEF AtHand
      <4>2. r = p
        BY <1>2, <3>1, <4>1, <1>8 DEF PutBack, NextAttempt, Holds
      <4>3. aside[p] # seen[p]
        BY <3>1, <4>1, <4>2
      <4>4. file' = aside[p]
        BY <1>8, <3>3, <4>3 DEF PutBack
      <4> QED BY <3>1, <4>1, <4>2, <4>4, <1>8 DEF AtHand, Holds
    <3> QED BY <3>2, <3>3
  <2> QED BY <1>1, <2>1, <2>2
<1>9. CASE GiveUp(p)
  <2>1. LocksOfTheBegun'
    BY <1>9 DEF GiveUp, Return, Running
  <2>2. InUse'
    BY <1>9 DEF GiveUp, Return, AtHand, Holds
  <2> QED BY <1>1, <2>1, <2>2
<1>10. CASE Release(p)
  <2>1. LocksOfTheBegun'
    BY <1>10 DEF Release, Running
  <2>2. InUse'
    BY <1>10 DEF Release, AtHand, Holds
  <2> QED BY <1>1, <2>1, <2>2
<1>11. CASE Unlink(p)
  <2>1. LocksOfTheBegun'
    BY <1>11 DEF Unlink, Running
  <2>2. \A q \in Proc : q # p => ~ (Holds(q) \/ pc[q] = "unlink")
    <3> SUFFICES ASSUME NEW q \in Proc, q # p, Holds(q) \/ pc[q] = "unlink" PROVE FALSE
      OBVIOUS
    <3>1. AtHand(p) /\ AtHand(q)
      BY <1>11 DEF Unlink
    <3>2. CASE file # NoLock
      BY <3>1, <3>2 DEF AtHand
    <3>3. CASE file = NoLock
      <4>1. PICK r \in Proc : r # q /\ pc[r] = "aside"
        BY <3>1, <3>3 DEF AtHand
      <4> QED BY <1>2, <1>11, <4>1 DEF Unlink
    <3> QED BY <3>2, <3>3
  <2>3. InUse'
    BY <1>11, <2>2 DEF Unlink, Holds
  <2> QED BY <1>1, <2>1, <2>3
<1> QED BY <1>3, <1>4, <1>5, <1>6, <1>7, <1>8, <1>9, <1>10, <1>11 DEF Calling

LEMMA SurvivorsStep ==
    ASSUME TypeOK, TypeOK', SurvivorsInv, [Next]_vars PROVE SurvivorsInv'
<1> SUFFICES ASSUME Circumstances' PROVE Survivors'
  BY DEF SurvivorsInv
<1>0. Circumstances /\ Survivors
  BY CircumstancesBefore DEF SurvivorsInv
<1>1. ASSUME NEW p \in Proc, Start(p) PROVE Survivors'
  <2>1. TwoRun'
    BY <1>0, <1>1, TwoRunStart DEF Circumstances, Survivors
  <2>2. LocksOfTheBegun'
    BY <1>0, <1>1, NoLockAssumption
    DEF Start, Survivors, LocksOfTheBegun, Begun, Running, TypeOK, Lock, Trying
  <2>3. InUse'
    BY <1>0, <1>1 DEF Start, Survivors, InUse, AtHand, Holds
  <2> QED BY <2>1, <2>2, <2>3 DEF Survivors
<1>2. ASSUME NEW p \in Proc, Crash(p) PROVE Survivors'
  <2>1. \A h \in Host : booted'[h] <= now
    BY <1>0, <1>2 DEF Crash, Survivors, TwoRun
  <2> QED BY <1>0, <1>2, <2>1, SurvivorsOfEnd DEF Crash, Circumstances
<1>3. ASSUME NEW h \in Host, Reboot(h) PROVE Survivors'
  <2> DEFINE P == {p \in Proc : HostOf[p] = h /\ Running(p)}
  <2>1. \A k \in Host : booted'[k] <= now
    BY <1>0, <1>3 DEF Reboot, Survivors, TwoRun, TypeOK
  <2>2. \A q \in Proc : Running(q)' => booted'[HostOf[q]] = booted[HostOf[q]]
    <3>1. \A q \in Proc : Running(q)' => HostOf[q] # h
      BY <1>3 DEF Reboot, Ended, Running
    <3> QED BY <1>3, <3>1, ProcessAssumption DEF Reboot, TypeOK
  <2>3. Ended(P) /\ UNCHANGED now /\ ~ LeftAside'
    BY <1>3 DEF Reboot, Circumstances
  <2> QED BY <1>0, <2>1, <2>2, <2>3, SurvivorsOfEnd
<1>4. CASE Tick
  <2>1. TwoRun'
    <3>1. UNCHANGED Runners
      BY <1>4 DEF Tick, Runners, Running
    <3>2. IsFiniteSet(Runners)'
      BY <1>0, <3>1 DEF Survivors, TwoRun
    <3> QED BY <1>0, <1>4, <3>2 DEF Tick, Survivors, TwoRun, Running, Holds, TypeOK
  <2>2. LocksOfTheBegun' /\ InUse'
    BY <1>0, <1>4
    DEF Tick, Survivors, LocksOfTheBegun, Begun, InUse, AtHand, Holds, Running
  <2> QED BY <2>1, <2>2 DEF Survivors
<1>5. ASSUME NEW p \in Proc, Begin(p) \/ Calling(p) \/ Release(p) PROVE Survivors'
  BY <1>0, <1>5, SurvivorsCall
<1>6. ASSUME NEW p \in Proc, IoError(p) PROVE Survivors'
  BY <1>0, <1>6 DEF IoError, Circumstances
<1>7. CASE UNCHANGED vars
  <2>1. UNCHANGED Runners
    BY <1>7 DEF vars, Runners, Running
  <2>2. TwoRun'
    BY <1>0, <1>7, <2>1 DEF vars, Survivors, TwoRun, Running, Holds
  <2>3. LocksOfTheBegun' /\ InUse'
    BY <1>0, <1>7
    DEF vars, Survivors, LocksOfTheBegun, Begun, InUse, AtHand, Holds, Running
  <2> QED BY <2>2, <2>3 DEF Survivors
<1> QED BY <1>1, <1>2, <1>3, <1>4, <1>5, <1>6, <1>7 DEF Next

(* takeAway after processes have ended: of two processes at a time, however *)
(* many ended before them and whatever locks those left, one works under    *)
(* the lock, as long as nobody ends with another's lock aside, no call      *)
(* fails and no lock is a day old.                                          *)
THEOREM TakeOverKeepsApart == Spec => []TwoStayApart
<1>1. Init => SurvivorsInv
  <2> SUFFICES ASSUME Init PROVE Survivors
    BY DEF SurvivorsInv
  <2>1. Runners = {}
    BY DEF Init, Runners, Running
  <2>2. IsFiniteSet(Runners)
    BY <2>1, FS_EmptySet
  <2> QED BY <2>2
    DEF Init, Survivors, TwoRun, LocksOfTheBegun, InUse, Trying, Holds, Running
<1>2. TypeOK /\ TypeOK' /\ SurvivorsInv /\ [Next]_vars => SurvivorsInv'
  BY SurvivorsStep
<1>3. SurvivorsInv => TwoStayApart
  <2> SUFFICES ASSUME Survivors, NEW p \in Proc, NEW q \in Proc, Holds(p), Holds(q), p # q
               PROVE  FALSE
    BY DEF SurvivorsInv, TwoStayApart, Circumstances, MutualExclusion
  <2>1. AtHand(p) /\ AtHand(q)
    BY DEF Survivors, InUse
  <2>2. CASE file # NoLock
    BY <2>1, <2>2 DEF AtHand
  <2>3. CASE file = NoLock
    <3>1. PICK r \in Proc : r # p /\ pc[r] = "aside"
      BY <2>1, <2>3 DEF AtHand
    <3> QED BY <3>1 DEF Survivors, TwoRun, InUse
  <2> QED BY <2>2, <2>3
<1> QED BY <1>1, <1>2, <1>3, TypeCorrect, PTL DEF Spec
=============================================================================
