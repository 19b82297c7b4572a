------------------------------ MODULE MuteLease ------------------------------
(***************************************************************************)
(* The automation-mute leases of modules/forge/AutomationMuteLease.ts.     *)
(*                                                                          *)
(* A run that writes to an org with its automation quiet assigns the user   *)
(* it writes as the permission sets the automation is bypassed with, and    *)
(* takes them back as it ends.  Runs of other processes and machines may    *)
(* need the same sets at the same time: who needs what, and who assigned    *)
(* what, is in a journal file of the org and user, changed under a lock.    *)
(*                                                                          *)
(* A step is one call to the org or one write of the journal.  A process    *)
(* may end between any two of them.  The journal's lock is ExclusiveLock;   *)
(* the lock of a process that ended is free again, as linkedLock.ts takes   *)
(* it over.                                                                 *)
(***************************************************************************)
EXTENDS Naturals, Sequences, FiniteSets

CONSTANTS
    Run,          \* the runs that ask to mute the org: each asks once
    Process,      \* the processes they run in: windows and command lines
    Machine,      \* the machines sharing the folder of the journals
    ProcessOf,    \* the process of each run
    MachineOf,    \* the machine of each process
    Recycled,     \* processes whose id another process gets once they end
    Set,          \* the permission sets
    NeedsOf,      \* the sets each run needs, in the order it assigns them
    NoLine,       \* no lease of a run in the journal
    Nobody,       \* nobody made an assignment; nobody holds the lock
    Admin,        \* an admin of the org
    MaxTrouble    \* bound: calls that fail, processes that end, leases that
                  \* run out and sets an admin assigns or removes, in all

ASSUME RunAssumption ==
    /\ ProcessOf \in [Run -> Process]
    /\ MachineOf \in [Process -> Machine]
    /\ NeedsOf \in [Run -> Seq(Set)]
    /\ \A r \in Run : \A i, j \in DOMAIN NeedsOf[r] : NeedsOf[r][i] = NeedsOf[r][j] => i = j
    /\ Recycled \subseteq Process
    /\ Admin \notin Run /\ Nobody \notin Run \cup {Admin}
ASSUME FaultAssumption == MaxTrouble \in Nat

(* An assignment's id: the org gives each one its own, and a run makes at   *)
(* most one of a set.                                                       *)
Assignment == [by : Run \cup {Admin}, set : Set]

(* A lease's line in the journal.  Its end is in `term`; `over` is the end  *)
(* of 1970 a release writes when the org kept some of its assignments.      *)
Line == [over : BOOLEAN, assigning : Seq(Set), created : SUBSET Assignment]
Journal == [Run -> Line \cup {NoLine}]

ASSUME NoLineAssumption == NoLine \notin Line

(* The releases a process finishes later: what it took back already, and    *)
(* what it holds that the journal may not name.                             *)
Finishing == [on : BOOLEAN, gone : SUBSET Assignment, still : SUBSET Assignment]
NotFinishing == [on |-> FALSE, gone |-> {}, still |-> {}]

(* Why a run uses the journal. *)
Job == {"take", "renew", "end", "finish"}
Task == [run : Run, job : Job]

VARIABLES
    org,        \* who made the assignment of each set the user holds
    journal,    \* the journal on disk
    term,       \* a lease's end: "ahead", "past", or "renewed" after it was past
    alive,      \* the processes that run
    heldHere,   \* heldHere of each process: the runs whose leases it holds
    phase,      \* where each run is
    renewing,   \* the runs whose renewal timer fired and is not done
    finish,     \* finishLater of each run
    holders,    \* who holds the journal's lock
    copy,       \* the journal as its holder has it in memory
    at,         \* where the holder is
    unseen,     \* the leases releaseStale has yet to look at
    rel,        \* the releaseLease under way
    fails,      \* calls that failed
    slipped,    \* history: assignments whose answer was lost, or not found by a lookup that failed
    admin       \* sets an admin assigned, removed, and had taken back by a run

lock == <<holders, copy, at, unseen, rel>>
faults == <<fails, slipped>>
vars == <<org, journal, term, alive, heldHere, phase, renewing, finish, lock, faults, admin>>

(* The journal's lock.  A process that ended never holds it. *)
JournalLock == INSTANCE ExclusiveLock WITH Client <- Task, trusted <- TRUE

Running(r) == ProcessOf[r] \in alive
Needs(r) == {NeedsOf[r][i] : i \in DOMAIN NeedsOf[r]}

(* isLive(): does the lease of l, as `line` has it, hold, as run r judges?  *)
(* Before its end, its sets all assigned, and its process at work as far as *)
(* r's process can tell: its own by heldHere, one of its machine by its id, *)
(* one of another machine cannot be asked.                                  *)
isLive(r, l, line) ==
    /\ ~ line.over /\ term[l] # "past" /\ line.assigning = <<>>
    /\ \/ MachineOf[ProcessOf[l]] # MachineOf[ProcessOf[r]]
       \/ ProcessOf[l] = ProcessOf[r] /\ l \in heldHere
       \/ /\ MachineOf[ProcessOf[l]] = MachineOf[ProcessOf[r]] /\ ProcessOf[l] # ProcessOf[r]
          /\ ProcessOf[l] \in alive \cup Recycled

NoRelease == [line |-> Nobody, todo |-> {}, others |-> {}, removed |-> {},
              passed |-> {}, left |-> {}, then |-> "none"]

Init ==
    /\ org = [s \in Set |-> Nobody]
    /\ journal = [r \in Run |-> NoLine]
    /\ term = [r \in Run |-> "ahead"]
    /\ alive = Process
    /\ heldHere = {}
    /\ phase = [r \in Run |-> "idle"]
    /\ renewing = {}
    /\ finish = [r \in Run |-> NotFinishing]
    /\ holders = {}
    /\ copy = [r \in Run |-> NoLine]
    /\ at = "free" /\ unseen = {} /\ rel = NoRelease
    /\ fails = 0 /\ slipped = {}
    /\ admin = [assigned |-> {}, removed |-> {}, taken |-> {}]

MayTrouble ==
    fails + Cardinality(Process \ alive) + Cardinality(admin.assigned)
        + Cardinality(admin.removed) + Cardinality({r \in Run : term[r] # "ahead"})
    < MaxTrouble

(* A call to the file system or to the org fails, and `lost` is not known.  *)
FailLosing(lost) == MayTrouble /\ fails' = fails + 1 /\ slipped' = slipped \cup lost
Fail == FailLosing({})

-----------------------------------------------------------------------------
(* The org, the clock and the machines.                                     *)

AdminAssigns(s) ==
    /\ MayTrouble
    /\ org[s] = Nobody /\ s \notin admin.assigned
    /\ org' = [org EXCEPT ![s] = Admin]
    /\ admin' = [admin EXCEPT !.assigned = @ \cup {s}]
    /\ UNCHANGED <<journal, term, alive, heldHere, phase, renewing, finish, lock, faults>>

AdminRemoves(s) ==
    /\ MayTrouble
    /\ org[s] # Nobody /\ s \notin admin.removed
    /\ org' = [org EXCEPT ![s] = Nobody]
    /\ admin' = [admin EXCEPT !.removed = @ \cup {s}]
    /\ UNCHANGED <<journal, term, alive, heldHere, phase, renewing, finish, lock, faults>>

(* An hour without a renewal that was kept: the machine slept, the journal  *)
(* could not be used, or the process is gone.  At most once per lease.      *)
Lapse(r) ==
    /\ journal[r] # NoLine /\ term[r] = "ahead"
    /\ MayTrouble
    /\ term' = [term EXCEPT ![r] = "past"]
    /\ UNCHANGED <<org, journal, alive, heldHere, phase, renewing, finish, lock, faults, admin>>

(* The lock of a process that ended is free. *)
FreeLock ==
    /\ holders' = {} /\ copy' = [r \in Run |-> NoLine]
    /\ at' = "free" /\ unseen' = {} /\ rel' = NoRelease

Crash(p) ==
    LET mine == {r \in Run : ProcessOf[r] = p} IN
    /\ p \in alive /\ MayTrouble
    /\ alive' = alive \ {p}
    /\ heldHere' = heldHere \ mine
    /\ phase' = [r \in Run |-> IF r \in mine THEN "gone" ELSE phase[r]]
    /\ renewing' = renewing \ mine
    /\ finish' = [r \in Run |-> IF r \in mine THEN NotFinishing ELSE finish[r]]
    /\ IF \E t \in holders : t.run \in mine THEN FreeLock ELSE UNCHANGED lock
    /\ UNCHANGED <<org, journal, term, faults, admin>>

-----------------------------------------------------------------------------
(* withJournal(): a task takes the lock and reads the journal.              *)

(* finishLater(): the process tries the release again from time to time. *)
FinishLater(r, gone, still) ==
    finish' = IF finish[r].on THEN finish
              ELSE [finish EXCEPT ![r] = [on |-> TRUE, gone |-> gone, still |-> still]]

(* The holder is done with the journal.                                     *)
Leave(t) ==
    /\ JournalLock!Free(t)
    /\ copy' = [r \in Run |-> NoLine]
    /\ at' = "free" /\ unseen' = {} /\ rel' = NoRelease

Wants(t) ==
    /\ Running(t.run)
    /\ \/ t.job = "take" /\ phase[t.run] = "idle"
       \/ t.job = "renew" /\ t.run \in renewing
       \/ t.job = "end" /\ phase[t.run] = "ending"
       \/ t.job = "finish" /\ finish[t.run].on

(* The lock stays held for a minute, or it or the journal cannot be used:   *)
(* a lease asked for is refused, a renewal left, a release put off.         *)
Unreached(t) ==
    /\ Wants(t) /\ t \notin holders
    /\ Fail
    /\ \/ /\ t.job = "take"
          /\ phase' = [phase EXCEPT ![t.run] = "refused"]
          /\ UNCHANGED <<heldHere, renewing, finish>>
       \/ /\ t.job = "renew"
          /\ renewing' = renewing \ {t.run}
          /\ UNCHANGED <<phase, heldHere, finish>>
       \/ /\ t.job = "end"
          /\ phase' = [phase EXCEPT ![t.run] = "done"]
          /\ heldHere' = heldHere \ {t.run}
          /\ FinishLater(t.run, {}, {})
          /\ UNCHANGED renewing
       \/ t.job = "finish" /\ UNCHANGED <<phase, heldHere, renewing, finish>>
    /\ UNCHANGED <<org, journal, term, alive, lock, admin>>

(* The set l's run was assigning as its process died, the first it named,   *)
(* looked up by user and set: taken for its own unless another lease        *)
(* created it.                                                              *)
InDoubt(c, l) ==
    LET s == Head(c[l].assigning)
        a == [by |-> org[s], set |-> s]
    IN  {b \in {a} : /\ org[s] # Nobody
                     /\ \A o \in Run \ {l} : c[o] # NoLine => b \notin c[o].created}

(* releaseLease() of l's lease in the journal c begins, `found` looked up.  *)
ReleasingWith(r, c, l, found, then) ==
    rel' = [line |-> l, todo |-> c[l].created \cup found,
            others |-> {o \in Run \ {l} : c[o] # NoLine /\ isLive(r, o, c[o])},
            removed |-> {}, passed |-> {}, left |-> {}, then |-> then]

(* With nothing in doubt nothing is looked up; a lookup that fails is read  *)
(* as one that found nothing.                                               *)
Releasing(r, c, l, then) ==
    \/ /\ c[l].assigning = <<>>
       /\ ReleasingWith(r, c, l, {}, then) /\ UNCHANGED faults
    \/ /\ c[l].assigning # <<>>
       /\ ReleasingWith(r, c, l, InDoubt(c, l), then) /\ UNCHANGED faults
    \/ /\ c[l].assigning # <<>>
       /\ ReleasingWith(r, c, l, {}, then) /\ FailLosing(InDoubt(c, l))

(* A task takes the lock and reads the journal.  Taking a lease:            *)
(* releaseStale looks at every lease, one by one.                           *)
BeginTake(r) ==
    /\ Wants([run |-> r, job |-> "take"])
    /\ JournalLock!Take([run |-> r, job |-> "take"])
    /\ phase' = [phase EXCEPT ![r] = "taking"]
    /\ copy' = journal
    /\ unseen' = {l \in Run : journal[l] # NoLine}
    /\ at' = "stale"
    /\ UNCHANGED <<org, journal, term, alive, heldHere, renewing, finish, rel, faults, admin>>

(* Renewing: nothing is renewed once the lease is gone or let go.           *)
BeginRenew(r) ==
    /\ Wants([run |-> r, job |-> "renew"])
    /\ IF journal[r] = NoLine \/ r \notin heldHere
         THEN /\ holders = {}
              /\ renewing' = renewing \ {r}
              /\ UNCHANGED lock
         ELSE /\ JournalLock!Take([run |-> r, job |-> "renew"])
              /\ copy' = journal
              /\ at' = "save"
              /\ UNCHANGED <<renewing, unseen, rel>>
    /\ UNCHANGED <<org, journal, term, alive, heldHere, phase, finish, faults, admin>>

(* release(): the process lets go of the lease, and begins to release it if *)
(* the journal still has it.                                                *)
BeginEnd(r) ==
    /\ Wants([run |-> r, job |-> "end"])
    /\ heldHere' = heldHere \ {r}
    /\ IF journal[r] = NoLine
         THEN /\ holders = {}
              /\ phase' = [phase EXCEPT ![r] = "done"]
              /\ UNCHANGED <<lock, faults>>
         ELSE /\ JournalLock!Take([run |-> r, job |-> "end"])
              /\ copy' = journal
              /\ Releasing(r, journal, r, "save")
              /\ at' = "release"
              /\ UNCHANGED <<phase, unseen>>
    /\ UNCHANGED <<org, journal, term, alive, renewing, finish, admin>>

(* finishLater's try: the lease is released with what the journal may not   *)
(* name, and without what is gone already.  Nothing is looked up.           *)
Remembered(r) ==
    [journal EXCEPT ![r] = [over |-> journal[r].over, assigning |-> <<>>,
        created |-> (journal[r].created \cup finish[r].still) \ finish[r].gone]]

BeginFinish(r) ==
    /\ Wants([run |-> r, job |-> "finish"])
    /\ IF journal[r] = NoLine
         THEN /\ holders = {}
              /\ finish' = [finish EXCEPT ![r] = NotFinishing]
              /\ UNCHANGED <<lock, faults>>
         ELSE /\ JournalLock!Take([run |-> r, job |-> "finish"])
              /\ copy' = Remembered(r)
              /\ Releasing(r, Remembered(r), r, "save")
              /\ at' = "release"
              /\ UNCHANGED <<finish, unseen>>
    /\ UNCHANGED <<org, journal, term, alive, heldHere, phase, renewing, admin>>

-----------------------------------------------------------------------------
(* releaseStale() and releaseLease(), under the lock.                       *)

LookAt(t, l) ==
    /\ t \in holders /\ at = "stale" /\ l \in unseen
    /\ unseen' = unseen \ {l}
    /\ IF isLive(t.run, l, copy[l])
         THEN UNCHANGED <<at, rel, faults>>
         ELSE Releasing(t.run, copy, l, "stale") /\ at' = "release"
    /\ UNCHANGED <<org, journal, term, alive, heldHere, phase, renewing, finish,
                   holders, copy, admin>>

(* A mutant: an assignment is deleted whoever needs its set. *)
NobodyNeeds(a) == {}

(* The live leases an assignment can pass to. *)
Takers(a) == {o \in rel.others : a.set \in Needs(o)}

Pass(t, a) ==
    /\ t \in holders /\ at = "release" /\ a \in rel.todo
    /\ \E o \in Takers(a) : copy' = [copy EXCEPT ![o].created = @ \cup {a}]
    /\ rel' = [rel EXCEPT !.todo = @ \ {a}, !.passed = @ \cup {a}]
    /\ UNCHANGED <<org, journal, term, alive, heldHere, phase, renewing, finish,
                   holders, at, unseen, faults, admin>>

(* deleteAssignment(): done, or gone already. *)
Delete(t, a) ==
    /\ t \in holders /\ at = "release" /\ a \in rel.todo /\ Takers(a) = {}
    /\ rel' = [rel EXCEPT !.todo = @ \ {a}, !.removed = @ \cup {a}]
    /\ IF org[a.set] = a.by
         THEN /\ org' = [org EXCEPT ![a.set] = Nobody]
              /\ admin' = [admin EXCEPT !.taken =
                              IF a.by = Admin THEN @ \cup {a.set} ELSE @]
         ELSE UNCHANGED <<org, admin>>
    /\ UNCHANGED <<journal, term, alive, heldHere, phase, renewing, finish,
                   holders, copy, at, unseen, faults>>

(* deleteAssignment(): refused by the org. *)
DeleteRefused(t, a) ==
    /\ t \in holders /\ at = "release" /\ a \in rel.todo /\ Takers(a) = {}
    /\ org[a.set] = a.by
    /\ Fail
    /\ rel' = [rel EXCEPT !.todo = @ \ {a}, !.left = @ \cup {a}]
    /\ UNCHANGED <<org, journal, term, alive, heldHere, phase, renewing, finish,
                   holders, copy, at, unseen, admin>>

(* A mutant: the lease goes from the journal with what the org kept. *)
ForgetLine == NoLine

(* What a release leaves of its lease in the journal. *)
LeftLine ==
    IF rel.left = {} THEN NoLine
    ELSE [over |-> TRUE, assigning |-> <<>>, created |-> rel.left]

(* releaseLease() ends; undo then lets go of the lease. *)
Released(t) ==
    /\ t \in holders /\ at = "release" /\ rel.todo = {}
    /\ copy' = [copy EXCEPT ![rel.line] = LeftLine]
    /\ at' = rel.then
    /\ heldHere' = IF rel.then = "undone" THEN heldHere \ {t.run} ELSE heldHere
    /\ rel' = IF rel.then = "stale" THEN NoRelease ELSE rel
    /\ UNCHANGED <<org, journal, term, alive, phase, renewing, finish, holders,
                   unseen, faults, admin>>

-----------------------------------------------------------------------------
(* acquireMute(), under the lock.                                           *)

(* The sets a run needs and the user lacks, in the order it assigns them:   *)
(* there is one such sequence.                                              *)
MissingOf(r) ==
    LET missing == {s \in Needs(r) : org[s] = Nobody} IN
    {q \in UNION {[1..n -> missing] : n \in 0..Len(NeedsOf[r])} :
        /\ \A s \in missing : \E i \in DOMAIN q : q[i] = s
        /\ \A i, j \in DOMAIN q : i < j =>
              \E k, l \in DOMAIN NeedsOf[r] : k < l /\ NeedsOf[r][k] = q[i] /\ NeedsOf[r][l] = q[j]}

(* A lease's first line: the sets the user lacks are to be assigned.        *)
FirstLine(missing) == [over |-> FALSE, assigning |-> missing, created |-> {}]

(* Every stale lease is released; the sets the user holds are read, or not. *)
ReadHeld(t) ==
    /\ t \in holders /\ at = "stale" /\ unseen = {}
    /\ \E missing \in MissingOf(t.run) :
          copy' = [copy EXCEPT ![t.run] = FirstLine(missing)]
    /\ heldHere' = heldHere \cup {t.run}
    /\ at' = "first"
    /\ UNCHANGED <<org, journal, term, alive, phase, renewing, finish, holders,
                   unseen, rel, faults, admin>>

HeldUnread(t) ==
    /\ t \in holders /\ at = "stale" /\ unseen = {}
    /\ Fail
    /\ phase' = [phase EXCEPT ![t.run] = "refused"]
    /\ Leave(t)
    /\ UNCHANGED <<org, journal, term, alive, heldHere, renewing, finish, admin>>

(* undo(): what this run created it takes back by id, and looks up nothing. *)
Undo(t, line) ==
    LET c == [copy EXCEPT ![t.run] = [line EXCEPT !.assigning = <<>>]] IN
    /\ copy' = c
    /\ ReleasingWith(t.run, c, t.run, {}, "undone")
    /\ at' = "release"

(* createAssignment() of the next set: made; held already, by another run   *)
(* or an admin meanwhile; or refused.                                       *)
Assigned(r) == [copy[r] EXCEPT !.assigning = Tail(@)]

(* A mutant: a set assigned meanwhile is taken for this lease's own. *)
CreateClaims(t) ==
    LET r == t.run s == Head(copy[t.run].assigning) IN
    /\ t \in holders /\ at = "assign" /\ copy[r].assigning # <<>>
    /\ org' = [org EXCEPT ![s] = IF @ = Nobody THEN r ELSE @]
    /\ copy' = [copy EXCEPT ![r] =
                  [Assigned(r) EXCEPT !.created = @ \cup {[by |-> org'[s], set |-> s]}]]
    /\ at' = "note"
    /\ UNCHANGED <<journal, term, alive, heldHere, phase, renewing, finish,
                   holders, unseen, rel, faults, admin>>

Create(t) ==
    LET r == t.run s == Head(copy[t.run].assigning) IN
    /\ t \in holders /\ at = "assign" /\ copy[r].assigning # <<>>
    /\ IF org[s] = Nobody
         THEN /\ org' = [org EXCEPT ![s] = r]
              /\ copy' = [copy EXCEPT ![r] =
                            [Assigned(r) EXCEPT !.created = @ \cup {[by |-> r, set |-> s]}]]
         ELSE /\ copy' = [copy EXCEPT ![r] = Assigned(r)]
              /\ UNCHANGED org
    /\ at' = "note"
    /\ UNCHANGED <<journal, term, alive, heldHere, phase, renewing, finish,
                   holders, unseen, rel, faults, admin>>

CreateRefused(t) ==
    LET r == t.run s == Head(copy[t.run].assigning) IN
    /\ t \in holders /\ at = "assign" /\ copy[r].assigning # <<>>
    /\ org[s] = Nobody
    /\ \/ Fail /\ UNCHANGED org
       \/ FailLosing({[by |-> r, set |-> s]}) /\ org' = [org EXCEPT ![s] = r]
    /\ Undo(t, Assigned(r))
    /\ UNCHANGED <<journal, term, alive, heldHere, phase, renewing, finish,
                   holders, unseen, admin>>

(* Every set is read back held before the run writes. *)
ReadBack(t) ==
    /\ t \in holders /\ at = "assign" /\ copy[t.run].assigning = <<>>
    /\ \/ /\ \A s \in Needs(t.run) : org[s] # Nobody
          /\ phase' = [phase EXCEPT ![t.run] = "writing"]
          /\ Leave(t)
          /\ UNCHANGED faults
       \/ /\ \/ (\E s \in Needs(t.run) : org[s] = Nobody) /\ UNCHANGED faults
             \/ Fail
          /\ Undo(t, copy[t.run])
          /\ UNCHANGED <<phase, holders, unseen>>
    /\ UNCHANGED <<org, journal, term, alive, heldHere, renewing, finish, admin>>

-----------------------------------------------------------------------------
(* The journal is written whole, and what follows.                          *)

SaveFirst(t) ==
    /\ t \in holders /\ at = "first"
    /\ \/ /\ journal' = copy
          /\ at' = "assign"
          /\ UNCHANGED <<phase, heldHere, holders, copy, unseen, rel, faults>>
       \/ /\ Fail
          /\ phase' = [phase EXCEPT ![t.run] = "refused"]
          /\ heldHere' = heldHere \ {t.run}
          /\ Leave(t)
          /\ UNCHANGED journal
    /\ UNCHANGED <<org, term, alive, renewing, finish, admin>>

SaveNote(t) ==
    /\ t \in holders /\ at = "note"
    /\ \/ /\ journal' = copy
          /\ at' = "assign"
          /\ UNCHANGED <<copy, rel, faults>>
       \/ /\ Fail
          /\ Undo(t, copy[t.run])
          /\ UNCHANGED journal
    /\ UNCHANGED <<org, term, alive, heldHere, phase, renewing, finish, holders,
                   unseen, admin>>

SaveUndone(t) ==
    /\ t \in holders /\ at = "undone"
    /\ \/ journal' = copy /\ UNCHANGED <<finish, faults>>
       \/ /\ Fail
          /\ FinishLater(t.run, rel.removed, rel.passed \cup rel.left)
          /\ UNCHANGED journal
    /\ phase' = [phase EXCEPT ![t.run] = "refused"]
    /\ Leave(t)
    /\ UNCHANGED <<org, term, alive, heldHere, renewing, admin>>

SaveEnd(t) ==
    /\ t \in holders /\ at = "save" /\ t.job = "end"
    /\ \/ journal' = copy /\ UNCHANGED <<finish, faults>>
       \/ /\ Fail
          /\ FinishLater(t.run, rel.removed, rel.passed \cup rel.left)
          /\ UNCHANGED journal
    /\ phase' = [phase EXCEPT ![t.run] = "done"]
    /\ Leave(t)
    /\ UNCHANGED <<org, term, alive, heldHere, renewing, admin>>

SaveFinish(t) ==
    /\ t \in holders /\ at = "save" /\ t.job = "finish"
    /\ \/ /\ journal' = copy
          /\ finish' = [finish EXCEPT ![t.run] = NotFinishing]
          /\ UNCHANGED faults
       \/ /\ Fail
          /\ finish' = [finish EXCEPT ![t.run].gone = @ \cup rel.removed]
          /\ UNCHANGED journal
    /\ Leave(t)
    /\ UNCHANGED <<org, term, alive, heldHere, phase, renewing, admin>>

SaveRenew(t) ==
    /\ t \in holders /\ at = "save" /\ t.job = "renew"
    /\ \/ /\ term' = [term EXCEPT ![t.run] = IF @ = "past" THEN "renewed" ELSE @]
          /\ UNCHANGED faults
       \/ Fail /\ UNCHANGED term
    /\ renewing' = renewing \ {t.run}
    /\ Leave(t)
    /\ UNCHANGED <<org, journal, alive, heldHere, phase, finish, admin>>

-----------------------------------------------------------------------------
(* The run itself: its renewal timer fires while it writes; it ends, and    *)
(* the timer is cleared, a renewal under way excepted.                      *)
RenewFires(r) ==
    /\ phase[r] = "writing" /\ r \notin renewing
    /\ renewing' = renewing \cup {r}
    /\ UNCHANGED <<org, journal, term, alive, heldHere, phase, finish, lock, faults, admin>>

EndRun(r) ==
    /\ phase[r] = "writing"
    /\ phase' = [phase EXCEPT ![r] = "ending"]
    /\ UNCHANGED <<org, journal, term, alive, heldHere, renewing, finish, lock, faults, admin>>

(* What the holder of the journal's lock does next. *)
Step(t) ==
    \/ \E l \in Run : LookAt(t, l)
    \/ \E a \in rel.todo : Pass(t, a) \/ Delete(t, a) \/ DeleteRefused(t, a)
    \/ Released(t)
    \/ ReadHeld(t) \/ HeldUnread(t)
    \/ Create(t) \/ CreateRefused(t) \/ ReadBack(t)
    \/ SaveFirst(t) \/ SaveNote(t) \/ SaveUndone(t)
    \/ SaveEnd(t) \/ SaveFinish(t) \/ SaveRenew(t)

Begin(t) ==
    \/ t.job = "take" /\ BeginTake(t.run)
    \/ t.job = "renew" /\ BeginRenew(t.run)
    \/ t.job = "end" /\ BeginEnd(t.run)
    \/ t.job = "finish" /\ BeginFinish(t.run)

Next ==
    \/ \E t \in Task : Begin(t) \/ Unreached(t) \/ Step(t)
    \/ \E r \in Run : RenewFires(r) \/ EndRun(r) \/ Lapse(r)
    \/ \E s \in Set : AdminAssigns(s) \/ AdminRemoves(s)
    \/ \E p \in Process : Crash(p)

Spec == Init /\ [][Next]_vars

-----------------------------------------------------------------------------
(* Types of the state. *)
TypeOK ==
    /\ org \in [Set -> Run \cup {Admin, Nobody}]
    /\ journal \in Journal /\ copy \in Journal
    /\ term \in [Run -> {"ahead", "past", "renewed"}]
    /\ alive \subseteq Process
    /\ heldHere \subseteq Run
    /\ phase \in [Run -> {"idle", "taking", "writing", "ending", "done", "refused", "gone"}]
    /\ renewing \subseteq Run
    /\ finish \in [Run -> Finishing]
    /\ holders \subseteq Task
    /\ at \in {"free", "stale", "release", "first", "assign", "note", "undone", "save"}
    /\ unseen \subseteq Run
    /\ rel.line \in Run \cup {Nobody} /\ rel.others \subseteq Run
    /\ rel.then \in {"none", "stale", "undone", "save"}
    /\ \A S \in {rel.todo, rel.removed, rel.passed, rel.left} : S \subseteq Assignment
    /\ fails \in Nat /\ slipped \subseteq Assignment
    /\ admin \in [assigned : SUBSET Set, removed : SUBSET Set, taken : SUBSET Set]

(* A run writes with its automation quiet: for as long as its lease did not *)
(* run out, every set it needs stays assigned, whichever run assigned it,   *)
(* whichever runs end, die or put off their release meanwhile, unless an    *)
(* admin removes it.                                                        *)
QuietWhileWriting ==
    \A r \in Run : phase[r] = "writing" /\ term[r] = "ahead" =>
        \A s \in Needs(r) \ admin.removed : org[s] # Nobody

(* Some line of the journal leads to the assignment: by its id, or as the   *)
(* set its run was assigning, which the release looks up.                   *)
Named(a) ==
    \/ \E l \in Run : journal[l] # NoLine /\ a \in journal[l].created
    \/ /\ a.by \in Run /\ journal[a.by] # NoLine
       /\ journal[a.by].assigning # <<>> /\ Head(journal[a.by].assigning) = a.set

(* Nothing a run assigned is forgotten: whatever process dies and whatever  *)
(* write fails, the journal on disk leads the next run to it - unless the   *)
(* answer of the assignment was lost, or the lookup that would find it      *)
(* failed.                                                                  *)
NothingForgotten ==
    \A s \in Set : org[s] \in Run =>
        Named([by |-> org[s], set |-> s]) \/ [by |-> org[s], set |-> s] \in slipped

(* What an admin assigned is an admin's to remove, unless a process died or *)
(* a journal could not be written and its lease is released by a lookup.    *)
AdminsKept == alive = Process /\ fails = 0 => admin.taken = {}

=============================================================================
