--------------------------- MODULE MuteLeaseProofs ---------------------------
(***************************************************************************)
(* What the automation-mute leases keep, proved for every number of runs,  *)
(* processes, machines and permission sets, and whatever fails.            *)
(***************************************************************************)
EXTENDS MuteLease, TLAPS

(* The releases under way. *)
Release ==
    [line : Run \cup {Nobody}, todo : SUBSET Assignment, others : SUBSET Run,
     removed : SUBSET Assignment, passed : SUBSET Assignment, left : SUBSET Assignment,
     then : {"none", "stale", "undone", "save"}]

(***************************************************************************)
(* Where the holder of the journal's lock may be.                          *)
(***************************************************************************)

(* A holder that takes a lease and has written nothing of it yet. *)
Early == at = "stale" \/ (at = "release" /\ rel.then = "stale")

(* A holder that assigns the sets of the lease it takes. *)
Assigning == at \in {"first", "assign", "note"}

HolderAt(t) ==
    /\ Running(t.run)
    /\ t.job = "take" => /\ phase[t.run] = "taking"
                         /\ Early \/ Assigning \/ at = "undone" \/ (at = "release" /\ rel.then = "undone")
    /\ t.job = "renew" => at = "save"
    /\ t.job = "end" => /\ phase[t.run] = "ending" /\ t.run \notin heldHere
    /\ t.job = "finish" => finish[t.run].on
    /\ t.job \in {"end", "finish"} =>
          /\ at = "save" \/ (at = "release" /\ rel.then = "save")
    /\ at = "release" /\ rel.then # "stale" => rel.line = t.run
    /\ at = "release" => rel.line \in Run
    /\ Early => journal[t.run] = NoLine /\ copy[t.run] = NoLine /\ rel.line # t.run
    /\ at = "first" => journal[t.run] = NoLine
    /\ at = "assign" => copy = journal
    /\ Assigning => copy[t.run] # NoLine /\ ~ copy[t.run].over /\ t.run \in heldHere

Held ==
    /\ at = "free" <=> holders = {}
    /\ at = "free" => rel = NoRelease /\ copy = [r \in Run |-> NoLine]
    /\ \A t, u \in holders : t = u
    /\ \A t \in holders : HolderAt(t)
    /\ ~ Early => unseen = {}
    /\ \A l \in unseen : copy[l] # NoLine
    /\ at = "release" =>
          /\ copy[rel.line] # NoLine /\ rel.line \notin unseen
          /\ \A o \in rel.others : copy[o] # NoLine /\ o # rel.line

(* Where a run may be, and what the journal then has of it. *)
PhaseOf(r) ==
    /\ phase[r] # "gone" => Running(r)
    /\ phase[r] = "taking" => [run |-> r, job |-> "take"] \in holders
    /\ phase[r] = "idle" => journal[r] = NoLine /\ copy[r] = NoLine
    /\ finish[r].on => phase[r] \in {"done", "refused"}
    /\ ~ finish[r].on => finish[r] = NotFinishing
    /\ phase[r] \in {"writing", "ending", "done"} =>
          \A c \in {journal, copy} : c[r] = NoLine \/ c[r].assigning = <<>>

(* A lease a release has to spare. *)
InForce(line) == line # NoLine /\ ~ line.over /\ line.assigning = <<>>

(* A run that writes, its lease not run out: its lease holds, on disk and   *)
(* in memory, and a release under way can pass assignments to it.           *)
Writing(r) == phase[r] = "writing" /\ term[r] = "ahead"

SparedRun(r) ==
    /\ r \in heldHere /\ InForce(journal[r])
    /\ at # "free" => InForce(copy[r])
    /\ at = "release" => r \in rel.others

Spared == \A r \in Run : Writing(r) => SparedRun(r)

(***************************************************************************)
(* What leads to the assignments of the runs.                              *)
(***************************************************************************)

(* The assignment of a set the user holds. *)
Own(s) == [by |-> org[s], set |-> s]

(* The line of l in the journal c leads to the assignment a. *)
ByLine(c, l, a) ==
    /\ c[l] # NoLine
    /\ \/ a \in c[l].created
       \/ a.by = l /\ c[l].assigning # <<>> /\ Head(c[l].assigning) = a.set

(* What the journal in memory leads to, or the release under way has in     *)
(* hand.                                                                    *)
Traced(a) ==
    \/ a \in slipped \/ at = "free"
    \/ at # "release" /\ \E l \in Run : ByLine(copy, l, a)
    \/ at = "release" /\ \E l \in Run \ {rel.line} : ByLine(copy, l, a)
    \/ at = "release" /\ a \in rel.todo \cup rel.left

Traces == \A s \in Set : org[s] \in Run => Traced(Own(s))

(* An assignment the org, a journal or a release knows of. *)
Listed(c, a) == \E l \in Run : c[l] # NoLine /\ a \in c[l].created
Handled(a) == a \in rel.todo \cup rel.removed \cup rel.passed \cup rel.left
Remembers(x, a) == a \in finish[x].gone \cup finish[x].still

Seen(a) ==
    \/ org[a.set] = a.by
    \/ Listed(journal, a) \/ Listed(copy, a)
    \/ Handled(a)
    \/ \E x \in Run : Remembers(x, a)

(* Nothing is known of a run's assignments before its lease is written.     *)
Started(r) ==
    /\ phase[r] # "idle"
    /\ [run |-> r, job |-> "take"] \in holders => ~ Early /\ at # "first"

Unseen == \A a \in Assignment : a.by \in Run /\ Seen(a) => Started(a.by)

(* What was taken back stays so. *)
TakenBack(S) == \A a \in S : a.by \in Run => org[a.set] # a.by

Back == TakenBack(rel.removed) /\ \A x \in Run : TakenBack(finish[x].gone)

(* What r was assigning as its line was written is among S. *)
Awaited(c, r, S) ==
    c[r] # NoLine /\ c[r].assigning # <<>> /\ org[Head(c[r].assigning)] = r
      => [by |-> r, set |-> Head(c[r].assigning)] \in S \cup slipped

(* A holder that assigns has every assignment it made in its line, and none *)
(* of them was taken back before; one that undoes has them in hand.         *)
MadeBy(r) ==
    /\ \A s \in Set : org[s] = r => [by |-> r, set |-> s] \in copy[r].created \cup slipped
    /\ \A x \in Run : \A a \in finish[x].gone : a.by # r

Undoing == at = "undone" \/ (at = "release" /\ rel.then = "undone")

InHand == rel.todo \cup rel.passed \cup rel.left

Clean ==
    /\ at = "stale" \/ Assigning => rel = NoRelease
    /\ at = "undone" => rel.todo = {}

Hands ==
    \A t \in holders :
        /\ Assigning => MadeBy(t.run)
        /\ Undoing => Awaited(journal, t.run, InHand)

(* What a release put off may find assigned without an id, it remembers.    *)
Later ==
    \A r \in Run : finish[r].on =>
        Awaited(journal, r, finish[r].still) /\ Awaited(copy, r, finish[r].still)

Trail == NothingForgotten /\ Traces /\ Unseen /\ Clean /\ Back /\ Hands /\ Later

(* No assignment of an admin is among those a run takes for its own. *)
OfRuns(S) == \A a \in S : a.by # Admin

Untroubled ==
    /\ \A l \in Run : journal[l] # NoLine =>
          /\ OfRuns(journal[l].created)
          /\ journal[l].assigning # <<>> =>
                at \in {"assign", "note"} /\ [run |-> l, job |-> "take"] \in holders
    /\ \A l \in Run : copy[l] # NoLine =>
          /\ OfRuns(copy[l].created)
          /\ copy[l].assigning # <<>> => Assigning /\ [run |-> l, job |-> "take"] \in holders
    /\ OfRuns(rel.todo) /\ OfRuns(rel.passed) /\ OfRuns(rel.left)
    /\ \A r \in Run : OfRuns(finish[r].still)
    /\ admin.taken = {}

Kept == alive = Process /\ fails = 0 => Untroubled

Types == TypeOK /\ rel \in Release
Phases == \A r \in Run : PhaseOf(r)
IInv == Types /\ Held /\ Phases /\ Spared /\ QuietWhileWriting

-----------------------------------------------------------------------------
(* The types.                                                              *)

(* A line is not the absence of one. *)
LEMMA LineOf ==
    ASSUME NEW c \in Journal, NEW l \in Run
    PROVE  c[l] \in Line \/ c[l] = NoLine
  BY DEF Journal

(* What a release looks up is an assignment the org has. *)
LEMMA InDoubtType ==
    ASSUME TypeOK, NEW c \in Journal, NEW l \in Run, c[l] \in Line, c[l].assigning # <<>>
    PROVE  InDoubt(c, l) \subseteq Assignment
  <1> DEFINE s == Head(c[l].assigning)
  <1>1. s \in Set
    BY DEF Line
  <1>2. org[s] \in Run \cup {Admin, Nobody}
    BY <1>1 DEF TypeOK
  <1>3. org[s] # Nobody => [by |-> org[s], set |-> s] \in Assignment
    BY <1>1, <1>2 DEF Assignment
  <1>4. QED BY <1>3 DEF InDoubt

LEMMA ReleasingType ==
    ASSUME TypeOK, NEW r \in Run, NEW c \in Journal, NEW l \in Run, c[l] \in Line,
           NEW then \in {"none", "stale", "undone", "save"},
           NEW found \in SUBSET Assignment, ReleasingWith(r, c, l, found, then)
    PROVE  rel' \in Release
  BY DEF ReleasingWith, Release, Line

(* The releases that begin are well formed, and look up what is in doubt. *)
LEMMA ReleasingTypes ==
    ASSUME TypeOK, NEW r \in Run, NEW c \in Journal, NEW l \in Run, c[l] \in Line,
           NEW then \in {"none", "stale", "undone", "save"}, Releasing(r, c, l, then)
    PROVE  rel' \in Release /\ fails' \in Nat /\ slipped' \subseteq Assignment
  <1>1. CASE c[l].assigning = <<>> /\ ReleasingWith(r, c, l, {}, then) /\ UNCHANGED faults
    BY <1>1, ReleasingType DEF TypeOK, faults
  <1>2. CASE c[l].assigning # <<>> /\ ReleasingWith(r, c, l, InDoubt(c, l), then) /\ UNCHANGED faults
    BY <1>2, ReleasingType, InDoubtType DEF TypeOK, faults
  <1>3. CASE c[l].assigning # <<>> /\ ReleasingWith(r, c, l, {}, then) /\ FailLosing(InDoubt(c, l))
    BY <1>3, ReleasingType, InDoubtType DEF TypeOK, FailLosing
  <1>4. QED BY <1>1, <1>2, <1>3 DEF Releasing

(* A release that is put off keeps assignments. *)
LEMMA FinishLaterType ==
    ASSUME TypeOK, NEW r \in Run, NEW gone \in SUBSET Assignment, NEW still \in SUBSET Assignment,
           FinishLater(r, gone, still)
    PROVE  finish' \in [Run -> Finishing]
  BY DEF FinishLater, TypeOK, Finishing

(* What the holder leaves behind as it lets go of the journal. *)
LEMMA LeaveDoes ==
    ASSUME NEW t, Leave(t)
    PROVE  /\ t \in holders /\ holders' = holders \ {t}
           /\ copy' = [r \in Run |-> NoLine] /\ at' = "free" /\ unseen' = {} /\ rel' = NoRelease
  BY DEF Leave, JournalLock!Free

LEMMA TakeDoes ==
    ASSUME NEW t, JournalLock!Take(t)
    PROVE  holders = {} /\ holders' = {t}
  BY DEF JournalLock!Take

LEMMA NothingType ==
    /\ NoRelease \in Release /\ NotFinishing \in Finishing
    /\ [r \in Run |-> NoLine] \in Journal
  BY DEF NoRelease, Release, NotFinishing, Finishing, Journal

(* A lease's first line. *)
LEMMA MissingType ==
    ASSUME NEW r \in Run, NEW missing \in MissingOf(r)
    PROVE  missing \in Seq(Set) /\ FirstLine(missing) \in Line
  <1>1. PICK n \in 0..Len(NeedsOf[r]) : missing \in [1..n -> {s \in Needs(r) : org[s] = Nobody}]
    BY DEF MissingOf
  <1>2. Needs(r) \subseteq Set
    BY RunAssumption DEF Needs
  <1>3. n \in Nat
    <2>1. Len(NeedsOf[r]) \in Nat
      BY RunAssumption
    <2>2. QED BY <2>1
  <1>4. missing \in [1..n -> Set]
    BY <1>1, <1>2
  <1>5. missing \in Seq(Set)
    BY <1>3, <1>4
  <1>6. QED BY <1>5 DEF FirstLine, Line

(* What undoing a refused mute leaves in memory. *)
LEMMA UndoTypes ==
    ASSUME TypeOK, NEW t \in Task, NEW line \in Line, Undo(t, line)
    PROVE  copy' \in Journal /\ rel' \in Release /\ at' = "release"
  <1> DEFINE c == [copy EXCEPT ![t.run] = [line EXCEPT !.assigning = <<>>]]
  <1>1. t.run \in Run
    BY DEF Task
  <1>2. [line EXCEPT !.assigning = <<>>] \in Line
    <2>1. <<>> \in Seq(Set)
      OBVIOUS
    <2>2. QED BY <2>1 DEF Line
  <1>3. c \in Journal /\ c[t.run] \in Line
    BY <1>1, <1>2 DEF TypeOK, Journal
  <1>4. copy' = c /\ at' = "release" /\ ReleasingWith(t.run, c, t.run, {}, "undone")
    BY DEF Undo
  <1> HIDE DEF c
  <1>5. rel' \in Release
    BY <1>1, <1>3, <1>4, ReleasingType
  <1>6. QED BY <1>3, <1>4, <1>5

(* A line whose holder assigns its sets. *)
LEMMA AssigningLine ==
    ASSUME Types, Held, NEW t \in Task, t \in holders, Assigning
    PROVE  /\ copy[t.run] \in Line /\ t.run \in Run
           /\ copy[t.run].assigning # <<>> =>
                 /\ Head(copy[t.run].assigning) \in Set
                 /\ Assigned(t.run) \in Line
  <1>1. t.run \in Run /\ copy[t.run] # NoLine
    BY DEF Task, Held, HolderAt
  <1>2. copy[t.run] \in Line
    BY <1>1, LineOf DEF Types, TypeOK
  <1>3. ASSUME copy[t.run].assigning # <<>>
        PROVE  Head(copy[t.run].assigning) \in Set /\ Tail(copy[t.run].assigning) \in Seq(Set)
    BY <1>2, <1>3 DEF Line
  <1>4. QED BY <1>1, <1>2, <1>3 DEF Assigned, Line

(* The steps of the holder keep the types. *)
LEMMA StepTypes ==
    ASSUME Types, Held, NEW t \in Task, Step(t)
    PROVE  Types'
  <1> USE DEF lock, faults
  <1>0. TypeOK /\ t.run \in Run /\ rel \in Release
    BY DEF Types, Task
  <1>1. ASSUME NEW l \in Run, LookAt(t, l) PROVE Types'
    <2>1. copy[l] \in Line /\ copy \in Journal
      BY <1>0, <1>1, LineOf DEF LookAt, Held, TypeOK
    <2>2. CASE isLive(t.run, l, copy[l])
      BY <1>0, <1>1, <2>2 DEF LookAt, Types, TypeOK
    <2>3. CASE ~ isLive(t.run, l, copy[l])
      <3>1. rel' \in Release /\ fails' \in Nat /\ slipped' \subseteq Assignment /\ at' = "release"
        BY <1>0, <1>1, <2>1, <2>3, ReleasingTypes DEF LookAt
      <3>2. QED BY <1>0, <1>1, <3>1 DEF LookAt, Types, TypeOK, Release
    <2>4. QED BY <2>2, <2>3
  <1>2. ASSUME NEW a \in rel.todo, Pass(t, a) PROVE Types'
    <2>1. PICK o \in Takers(a) : copy' = [copy EXCEPT ![o].created = @ \cup {a}]
      BY <1>2 DEF Pass
    <2>2. o \in Run /\ copy[o] \in Line /\ a \in Assignment
      BY <1>0, <1>2, LineOf DEF Pass, Held, Takers, Release, TypeOK
    <2>3. [copy[o] EXCEPT !.created = @ \cup {a}] \in Line
      BY <2>2 DEF Line
    <2>4. copy' \in Journal
      <3>1. copy' = [copy EXCEPT ![o] = [copy[o] EXCEPT !.created = @ \cup {a}]]
        BY <2>1
      <3>2. QED BY <1>0, <2>2, <2>3, <3>1 DEF TypeOK, Journal
    <2>5. rel' \in Release
      BY <1>0, <1>2, <2>2 DEF Pass, Release
    <2>6. QED BY <1>0, <1>2, <2>4, <2>5 DEF Pass, Types, TypeOK, Release
  <1>3. ASSUME NEW a \in rel.todo, Delete(t, a) PROVE Types'
    <2>1. rel' \in Release /\ a.set \in Set
      BY <1>0, <1>3 DEF Delete, Release, Assignment
    <2>2. org' \in [Set -> Run \cup {Admin, Nobody}]
      BY <1>0, <1>3 DEF Delete, TypeOK
    <2>3. admin' \in [assigned : SUBSET Set, removed : SUBSET Set, taken : SUBSET Set]
      BY <1>0, <1>3, <2>1 DEF Delete, TypeOK
    <2>4. QED BY <1>0, <1>3, <2>1, <2>2, <2>3 DEF Delete, Types, TypeOK, Release
  <1>4. ASSUME NEW a \in rel.todo, DeleteRefused(t, a) PROVE Types'
    <2>1. rel' \in Release
      BY <1>0, <1>4 DEF DeleteRefused, Release
    <2>2. QED BY <1>0, <1>4, <2>1 DEF DeleteRefused, Fail, FailLosing, Types, TypeOK, Release
  <1>5. ASSUME Released(t) PROVE Types'
    <2>1. LeftLine \in Line \cup {NoLine}
      BY <1>0 DEF LeftLine, Line, Release
    <2>2. copy' \in Journal
      BY <1>0, <1>5, <2>1 DEF Released, TypeOK, Journal
    <2>3. rel' \in Release /\ at' \in {"free", "stale", "release", "first", "assign", "note", "undone", "save"}
      <3>1. rel.then \in {"stale", "undone", "save"}
        <4>1. HolderAt(t) /\ at = "release" /\ t.job \in {"take", "renew", "end", "finish"}
          BY <1>5 DEF Released, Held, Task, Job
        <4>2. QED BY <4>1 DEF HolderAt, Early, Assigning
      <3>2. QED BY <1>0, <1>5, <3>1, NothingType DEF Released
    <2>4. heldHere' \subseteq Run
      BY <1>0, <1>5 DEF Released, TypeOK
    <2>5. QED BY <1>0, <1>5, <2>2, <2>3, <2>4 DEF Released, Types, TypeOK, Release
  <1>6. ASSUME ReadHeld(t) PROVE Types'
    <2>1. PICK missing \in MissingOf(t.run) : copy' = [copy EXCEPT ![t.run] = FirstLine(missing)]
      BY <1>6 DEF ReadHeld
    <2>2. copy' \in Journal
      BY <1>0, <2>1, MissingType DEF TypeOK, Journal
    <2>3. QED BY <1>0, <1>6, <2>2 DEF ReadHeld, Types, TypeOK
  <1>7. ASSUME HeldUnread(t) PROVE Types'
    BY <1>0, <1>7, LeaveDoes, NothingType DEF HeldUnread, Fail, FailLosing, Types, TypeOK, Release
  <1>8. ASSUME Create(t) PROVE Types'
    <2> DEFINE r == t.run
               s == Head(copy[t.run].assigning)
    <2>1. copy[r] \in Line /\ s \in Set /\ Assigned(r) \in Line
      BY <1>8, AssigningLine DEF Create, Assigning
    <2>2. [by |-> r, set |-> s] \in Assignment
      BY <1>0, <2>1 DEF Assignment
    <2>3. [Assigned(r) EXCEPT !.created = @ \cup {[by |-> r, set |-> s]}] \in Line
      BY <2>1, <2>2 DEF Line
    <2>4. /\ org' \in [Set -> Run \cup {Admin, Nobody}]
          /\ copy' \in Journal
      BY <1>0, <1>8, <2>1, <2>3 DEF Create, TypeOK, Journal
    <2>5. QED BY <1>0, <1>8, <2>4 DEF Create, Types, TypeOK
  <1>9. ASSUME CreateRefused(t) PROVE Types'
    <2> DEFINE r == t.run
               s == Head(copy[t.run].assigning)
    <2>1. copy[r] \in Line /\ s \in Set /\ Assigned(r) \in Line
      BY <1>9, AssigningLine DEF CreateRefused, Assigning
    <2>2. [by |-> r, set |-> s] \in Assignment
      BY <1>0, <2>1 DEF Assignment
    <2>3. copy' \in Journal /\ rel' \in Release /\ at' = "release"
      BY <1>0, <1>9, <2>1, UndoTypes DEF CreateRefused
    <2>4. org' \in [Set -> Run \cup {Admin, Nobody}] /\ fails' \in Nat /\ slipped' \subseteq Assignment
      BY <1>0, <1>9, <2>2 DEF CreateRefused, Fail, FailLosing, TypeOK
    <2>5. QED BY <1>0, <1>9, <2>3, <2>4 DEF CreateRefused, Types, TypeOK, Release
  <1>10. ASSUME ReadBack(t) PROVE Types'
    <2>1. copy[t.run] \in Line
      BY <1>10, AssigningLine DEF ReadBack, Assigning
    <2>2. CASE Leave(t) /\ phase' = [phase EXCEPT ![t.run] = "writing"] /\ UNCHANGED faults
      BY <1>0, <1>10, <2>2, LeaveDoes, NothingType DEF ReadBack, Types, TypeOK, Release
    <2>3. CASE /\ Undo(t, copy[t.run]) /\ UNCHANGED <<phase, holders, unseen>>
               /\ (UNCHANGED faults \/ Fail)
      <3>1. copy' \in Journal /\ rel' \in Release /\ at' = "release"
        BY <1>0, <2>1, <2>3, UndoTypes
      <3>2. fails' \in Nat /\ slipped' \subseteq Assignment
        BY <1>0, <2>3 DEF Fail, FailLosing, TypeOK
      <3>3. QED BY <1>0, <1>10, <2>3, <3>1, <3>2 DEF ReadBack, Types, TypeOK, Release
    <2>4. QED BY <1>10, <2>2, <2>3 DEF ReadBack
  <1>11. ASSUME SaveFirst(t) PROVE Types'
    BY <1>0, <1>11, LeaveDoes, NothingType DEF SaveFirst, Fail, FailLosing, Types, TypeOK, Release
  <1>12. ASSUME SaveNote(t) PROVE Types'
    <2>1. copy[t.run] \in Line
      BY <1>12, AssigningLine DEF SaveNote, Assigning
    <2>2. CASE journal' = copy /\ at' = "assign" /\ UNCHANGED <<copy, rel, faults>>
      BY <1>0, <1>12, <2>2 DEF SaveNote, Types, TypeOK
    <2>3. CASE Fail /\ Undo(t, copy[t.run]) /\ UNCHANGED journal
      <3>1. copy' \in Journal /\ rel' \in Release /\ at' = "release"
        BY <1>0, <2>1, <2>3, UndoTypes
      <3>2. QED BY <1>0, <1>12, <2>3, <3>1 DEF SaveNote, Fail, FailLosing, Types, TypeOK, Release
    <2>4. QED BY <1>12, <2>2, <2>3 DEF SaveNote
  <1>13. ASSUME SaveUndone(t) \/ SaveEnd(t) PROVE Types'
    <2>1. finish' \in [Run -> Finishing] /\ journal' \in Journal /\ fails' \in Nat /\ slipped' \subseteq Assignment
      <3>1. CASE journal' = copy /\ UNCHANGED <<finish, faults>>
        BY <1>0, <3>1 DEF TypeOK
      <3>2. CASE /\ Fail /\ FinishLater(t.run, rel.removed, rel.passed \cup rel.left)
                 /\ UNCHANGED journal
        <4>1. rel.removed \subseteq Assignment /\ rel.passed \cup rel.left \subseteq Assignment
          BY <1>0 DEF Release
        <4>2. finish' \in [Run -> Finishing]
          BY <1>0, <3>2, <4>1, FinishLaterType
        <4>3. QED BY <1>0, <3>2, <4>2 DEF Fail, FailLosing, TypeOK
      <3>3. QED BY <1>13, <3>1, <3>2 DEF SaveUndone, SaveEnd
    <2>2. /\ UNCHANGED <<org, term, alive, heldHere, renewing, admin>> /\ Leave(t)
          /\ phase' \in [Run -> {"idle", "taking", "writing", "ending", "done", "refused", "gone"}]
      BY <1>0, <1>13 DEF SaveUndone, SaveEnd, TypeOK
    <2>3. QED BY <1>0, <2>1, <2>2, LeaveDoes, NothingType DEF Types, TypeOK, Release
  <1>14. ASSUME SaveFinish(t) PROVE Types'
    <2>1. finish' \in [Run -> Finishing] /\ journal' \in Journal /\ fails' \in Nat /\ slipped' \subseteq Assignment
      <3>1. CASE /\ journal' = copy /\ finish' = [finish EXCEPT ![t.run] = NotFinishing]
                 /\ UNCHANGED faults
        BY <1>0, <3>1, NothingType DEF TypeOK
      <3>2. CASE /\ Fail /\ finish' = [finish EXCEPT ![t.run].gone = @ \cup rel.removed]
                 /\ UNCHANGED journal
        <4>1. [finish[t.run] EXCEPT !.gone = @ \cup rel.removed] \in Finishing
          BY <1>0 DEF TypeOK, Finishing, Release
        <4>2. finish' = [finish EXCEPT ![t.run] = [finish[t.run] EXCEPT !.gone = @ \cup rel.removed]]
          BY <3>2
        <4>3. QED BY <1>0, <3>2, <4>1, <4>2 DEF Fail, FailLosing, TypeOK
      <3>3. QED BY <1>14, <3>1, <3>2 DEF SaveFinish
    <2>2. Leave(t) /\ UNCHANGED <<org, term, alive, heldHere, phase, renewing, admin>>
      BY <1>14 DEF SaveFinish
    <2>3. QED BY <1>0, <2>1, <2>2, LeaveDoes, NothingType DEF Types, TypeOK, Release
  <1>15. ASSUME SaveRenew(t) PROVE Types'
    BY <1>0, <1>15, LeaveDoes, NothingType DEF SaveRenew, Fail, FailLosing, Types, TypeOK, Release
  <1> HIDE DEF lock, faults
  <1>16. QED BY <1>1, <1>2, <1>3, <1>4, <1>5, <1>6, <1>7, <1>8, <1>9, <1>10, <1>11, <1>12, <1>13,
     <1>14, <1>15 DEF Step

(* What a release tried again knows of its lease. *)
LEMMA RememberedType ==
    ASSUME TypeOK, NEW r \in Run, journal[r] # NoLine
    PROVE  Remembered(r) \in Journal /\ Remembered(r)[r] \in Line
  <1>1. journal[r] \in Line /\ finish[r] \in Finishing /\ <<>> \in Seq(Set)
    BY LineOf DEF TypeOK
  <1>2. [over |-> journal[r].over, assigning |-> <<>>,
         created |-> (journal[r].created \cup finish[r].still) \ finish[r].gone] \in Line
    BY <1>1 DEF Line, Finishing
  <1>3. QED BY <1>2 DEF Remembered, TypeOK, Journal

(* The steps that take the lock keep the types. *)
LEMMA BeginTypes ==
    ASSUME Types, NEW t \in Task, Begin(t)
    PROVE  Types'
  <1> USE DEF lock, faults
  <1>0. TypeOK /\ t.run \in Run /\ rel \in Release
    BY DEF Types, Task
  <1>1. ASSUME NEW j, JournalLock!Take([run |-> t.run, job |-> j]), j \in Job
        PROVE  holders' \subseteq Task
    BY <1>0, <1>1, TakeDoes DEF Task
  <1>2. CASE BeginTake(t.run)
    BY <1>0, <1>1, <1>2 DEF BeginTake, Job, Types, TypeOK, Release
  <1>3. CASE BeginRenew(t.run)
    BY <1>0, <1>1, <1>3 DEF BeginRenew, Job, Types, TypeOK, Release
  <1>4. CASE BeginEnd(t.run)
    <2>1. CASE journal[t.run] = NoLine
      BY <1>0, <1>4, <2>1 DEF BeginEnd, Types, TypeOK, Release
    <2>2. CASE journal[t.run] # NoLine
      <3>1. journal[t.run] \in Line /\ journal \in Journal
        BY <1>0, <2>2, LineOf DEF TypeOK
      <3>2. rel' \in Release /\ fails' \in Nat /\ slipped' \subseteq Assignment
        BY <1>0, <1>4, <2>2, <3>1, ReleasingTypes DEF BeginEnd
      <3>3. holders' \subseteq Task
        BY <1>1, <1>4, <2>2 DEF BeginEnd, Job
      <3>4. QED BY <1>0, <1>4, <2>2, <3>2, <3>3 DEF BeginEnd, Types, TypeOK, Release
    <2>3. QED BY <2>1, <2>2
  <1>5. CASE BeginFinish(t.run)
    <2>1. CASE journal[t.run] = NoLine
      BY <1>0, <1>5, <2>1, NothingType DEF BeginFinish, Types, TypeOK, Release
    <2>2. CASE journal[t.run] # NoLine
      <3>1. Remembered(t.run) \in Journal /\ Remembered(t.run)[t.run] \in Line
        BY <1>0, <2>2, RememberedType
      <3>2. rel' \in Release /\ fails' \in Nat /\ slipped' \subseteq Assignment
        BY <1>0, <1>5, <2>2, <3>1, ReleasingTypes DEF BeginFinish
      <3>3. holders' \subseteq Task
        BY <1>1, <1>5, <2>2 DEF BeginFinish, Job
      <3>4. QED BY <1>0, <1>5, <2>2, <3>1, <3>2, <3>3 DEF BeginFinish, Types, TypeOK, Release
    <2>3. QED BY <2>1, <2>2
  <1> HIDE DEF lock, faults
  <1>6. QED BY <1>2, <1>3, <1>4, <1>5 DEF Begin

(* So do the steps of the runs, the org, the clock and the machines. *)
LEMMA NextTypes ==
    ASSUME Types, Held, [Next]_vars
    PROVE  Types'
  <1> USE DEF lock, faults
  <1>0. TypeOK /\ rel \in Release
    BY DEF Types
  <1>1. ASSUME NEW t \in Task, Unreached(t) PROVE Types'
    <2>1. t.run \in Run
      BY DEF Task
    <2>2. finish' \in [Run -> Finishing]
      BY <1>0, <1>1, <2>1, FinishLaterType DEF Unreached, TypeOK
    <2>3. fails' \in Nat /\ slipped' \subseteq Assignment
      BY <1>0, <1>1 DEF Unreached, Fail, FailLosing, TypeOK
    <2>4. /\ phase' \in [Run -> {"idle", "taking", "writing", "ending", "done", "refused", "gone"}]
          /\ heldHere' \subseteq Run /\ renewing' \subseteq Run
      BY <1>0, <1>1, <2>1 DEF Unreached, TypeOK
    <2>5. QED BY <1>0, <1>1, <2>2, <2>3, <2>4 DEF Unreached, Types, TypeOK, Release
  <1>2. ASSUME NEW r \in Run, RenewFires(r) \/ EndRun(r) \/ Lapse(r) PROVE Types'
    BY <1>0, <1>2 DEF RenewFires, EndRun, Lapse, Types, TypeOK, Release
  <1>3. ASSUME NEW s \in Set, AdminAssigns(s) \/ AdminRemoves(s) PROVE Types'
    BY <1>0, <1>3 DEF AdminAssigns, AdminRemoves, Types, TypeOK, Release
  <1>4. ASSUME NEW p \in Process, Crash(p) PROVE Types'
    <2>1. /\ phase' \in [Run -> {"idle", "taking", "writing", "ending", "done", "refused", "gone"}]
          /\ finish' \in [Run -> Finishing]
          /\ heldHere' \subseteq Run /\ renewing' \subseteq Run /\ alive' \subseteq Process
      BY <1>0, <1>4, NothingType DEF Crash, TypeOK
    <2>2. /\ holders' \subseteq Task /\ copy' \in Journal /\ unseen' \subseteq Run /\ rel' \in Release
          /\ at' \in {"free", "stale", "release", "first", "assign", "note", "undone", "save"}
      <3>1. CASE FreeLock
        BY <1>0, <3>1, NothingType DEF FreeLock
      <3>2. CASE UNCHANGED lock
        BY <1>0, <3>2 DEF TypeOK
      <3>3. QED BY <1>4, <3>1, <3>2 DEF Crash
    <2>3. QED BY <1>0, <1>4, <2>1, <2>2 DEF Crash, Types, TypeOK, Release
  <1>5. CASE UNCHANGED vars
    BY <1>0, <1>5 DEF vars, Types, TypeOK, Release
  <1> HIDE DEF lock, faults
  <1>6. QED BY <1>1, <1>2, <1>3, <1>4, <1>5, StepTypes, BeginTypes DEF Next

-----------------------------------------------------------------------------
(* Where the holder is.                                                    *)

(* There is one holder. *)
LEMMA OneHolder ==
    ASSUME Held, NEW t \in holders
    PROVE  /\ holders = {t} /\ HolderAt(t)
           /\ at # "free"
  BY DEF Held

(* A holder that lets go of the journal leaves nothing behind. *)
LEMMA LeaveHeld ==
    ASSUME Held, NEW t, Leave(t)
    PROVE  Held' /\ holders' = {}
  <1>1. t \in holders /\ holders' = holders \ {t}
        /\ copy' = [r \in Run |-> NoLine] /\ at' = "free" /\ unseen' = {} /\ rel' = NoRelease
    BY LeaveDoes
  <1>2. holders' = {}
    BY <1>1, OneHolder
  <1>3. QED BY <1>1, <1>2 DEF Held, Early

(* A holder that goes on. *)
LEMMA HeldOn ==
    ASSUME Held, NEW t \in holders, UNCHANGED holders, at' # "free", HolderAt(t)',
           ~ Early' => unseen' = {},
           \A l \in unseen' : copy'[l] # NoLine,
           at' = "release" =>
              /\ copy'[rel'.line] # NoLine /\ rel'.line \notin unseen'
              /\ \A o \in rel'.others : copy'[o] # NoLine /\ o # rel'.line
    PROVE  Held'
  <1>1. holders = {t} /\ holders' = {t}
    BY OneHolder
  <1>2. QED BY <1>1 DEF Held

(* The lease a release that begins looks at, and the leases it may pass     *)
(* assignments to.                                                          *)
LEMMA ReleasingDoes ==
    ASSUME NEW r, NEW c, NEW l, NEW then, Releasing(r, c, l, then)
    PROVE  /\ rel'.line = l /\ rel'.then = then
           /\ rel'.others = {o \in Run \ {l} : c[o] # NoLine /\ isLive(r, o, c[o])}
           /\ rel'.removed = {} /\ rel'.passed = {} /\ rel'.left = {}
           /\ \E found \in {{}, InDoubt(c, l)} : rel'.todo = c[l].created \cup found
  BY DEF Releasing, ReleasingWith

(* A refused mute is undone. *)
LEMMA UndoDoes ==
    ASSUME Types, NEW t \in Task, NEW line \in Line, Undo(t, line)
    PROVE  /\ copy' = [copy EXCEPT ![t.run] = [line EXCEPT !.assigning = <<>>]]
           /\ copy'[t.run] \in Line /\ copy'[t.run].assigning = <<>>
           /\ copy'[t.run].over = line.over /\ copy'[t.run].created = line.created
           /\ copy' \in Journal
           /\ at' = "release" /\ rel'.line = t.run /\ rel'.then = "undone"
           /\ rel'.others = {o \in Run \ {t.run} : copy'[o] # NoLine /\ isLive(t.run, o, copy'[o])}
           /\ rel'.todo = line.created
           /\ rel'.removed = {} /\ rel'.passed = {} /\ rel'.left = {}
  <1> DEFINE undone == [line EXCEPT !.assigning = <<>>]
             c == [copy EXCEPT ![t.run] = undone]
  <1>1. t.run \in Run /\ copy \in Journal
    BY DEF Task, Types, TypeOK
  <1>2. undone \in Line /\ undone.assigning = <<>> /\ undone.over = line.over
        /\ undone.created = line.created
    <2>1. <<>> \in Seq(Set)
      OBVIOUS
    <2>2. QED BY <2>1 DEF Line
  <1> HIDE DEF undone
  <1>3. c[t.run] = undone /\ c \in Journal
    BY <1>1, <1>2 DEF Journal
  <1>4. copy' = c /\ at' = "release" /\ ReleasingWith(t.run, c, t.run, {}, "undone")
    BY DEF Undo, undone
  <1> HIDE DEF c
  <1>5. /\ rel'.line = t.run /\ rel'.then = "undone"
        /\ rel'.others = {o \in Run \ {t.run} : c[o] # NoLine /\ isLive(t.run, o, c[o])}
        /\ rel'.todo = c[t.run].created
        /\ rel'.removed = {} /\ rel'.passed = {} /\ rel'.left = {}
    BY <1>4 DEF ReleasingWith
  <1>6. copy' = [copy EXCEPT ![t.run] = [line EXCEPT !.assigning = <<>>]]
    BY <1>4 DEF c, undone
  <1>7. QED BY <1>2, <1>3, <1>4, <1>5, <1>6

(* What is undone is the release of the holder's own lease. *)
LEMMA UndoHeld ==
    ASSUME Types, Held, NEW t \in Task, t \in holders, Assigning, NEW line \in Line, Undo(t, line),
           UNCHANGED <<journal, alive, heldHere, phase, finish, holders, unseen>>
    PROVE  Held'
  <1>1. /\ copy'[t.run] \in Line
        /\ at' = "release" /\ rel'.line = t.run /\ rel'.then = "undone"
        /\ \A o \in rel'.others : copy'[o] # NoLine /\ o # t.run
    BY UndoDoes
  <1>2. HolderAt(t) /\ unseen = {} /\ t.job = "take" /\ t.run \in Run
    BY OneHolder DEF Held, HolderAt, Assigning, Early, Task, Job
  <1>3. HolderAt(t)'
    BY <1>1, <1>2 DEF HolderAt, Assigning, Early, Running
  <1>4. copy'[t.run] # NoLine
    BY <1>1, NoLineAssumption
  <1>5. QED BY <1>1, <1>2, <1>3, <1>4, HeldOn

LEMMA StepHeld ==
    ASSUME Types, Held, Phases, NEW t \in Task, Step(t)
    PROVE  Held'
  <1> USE DEF lock, faults
  <1>0. TypeOK /\ t.run \in Run /\ rel \in Release /\ t.job \in Job
    BY DEF Types, Task
  <1>a. t \in holders => /\ HolderAt(t) /\ holders = {t} /\ at # "free"
                         /\ (Early \/ Assigning => t.job = "take")
    BY <1>0, OneHolder DEF HolderAt, Early, Assigning, Job
  <1>1. ASSUME NEW l \in Run, LookAt(t, l) PROVE Held'
    <2>1. CASE isLive(t.run, l, copy[l])
      <3>1. HolderAt(t)'
        BY <1>1, <1>a, <2>1 DEF LookAt, HolderAt, Running, Early, Assigning
      <3>2. QED BY <1>1, <1>a, <2>1, <3>1, HeldOn DEF LookAt, Held, Early
    <2>2. CASE ~ isLive(t.run, l, copy[l])
      <3>1. /\ rel'.line = l /\ rel'.then = "stale" /\ at' = "release"
            /\ \A o \in rel'.others : copy[o] # NoLine /\ o # l
        BY <1>1, <2>2, ReleasingDoes DEF LookAt
      <3>2. copy[l] # NoLine /\ Early /\ l # t.run
        BY <1>1, <1>a DEF LookAt, Held, HolderAt, Early
      <3>3. HolderAt(t)'
        BY <1>0, <1>1, <1>a, <3>1, <3>2 DEF LookAt, HolderAt, Running, Early, Assigning
      <3>4. QED BY <1>1, <1>a, <3>1, <3>2, <3>3, HeldOn DEF LookAt, Held, Early
    <2>3. QED BY <2>1, <2>2
  <1>2. ASSUME NEW a \in rel.todo, Pass(t, a) PROVE Held'
    <2>1. PICK o \in Takers(a) : copy' = [copy EXCEPT ![o].created = @ \cup {a}]
      BY <1>2 DEF Pass
    <2>2. o \in Run /\ copy[o] \in Line /\ o # rel.line /\ a \in Assignment
      BY <1>0, <1>2, <2>1, LineOf DEF Pass, Held, Takers, Release, TypeOK
    <2>3. /\ copy' = [copy EXCEPT ![o] = [copy[o] EXCEPT !.created = @ \cup {a}]]
          /\ [copy[o] EXCEPT !.created = @ \cup {a}] \in Line
      BY <2>1, <2>2 DEF Line
    <2>4. /\ \A l \in Run : copy'[l] = NoLine <=> copy[l] = NoLine
          /\ \A l \in Run \ {o} : copy'[l] = copy[l]
      BY <1>0, <2>2, <2>3, NoLineAssumption DEF TypeOK, Journal
    <2>5. rel'.line = rel.line /\ rel'.then = rel.then /\ rel'.others = rel.others
      BY <1>0, <1>2 DEF Pass, Release
    <2>6. HolderAt(t)'
      BY <1>0, <1>2, <1>a, <2>4, <2>5 DEF Pass, HolderAt, Running, Early, Assigning
    <2>7. QED BY <1>0, <1>2, <1>a, <2>4, <2>5, <2>6, HeldOn DEF Pass, Held, Early, Release, TypeOK, HolderAt
  <1>3. ASSUME NEW a \in rel.todo, Delete(t, a) \/ DeleteRefused(t, a) PROVE Held'
    <2>1. rel'.line = rel.line /\ rel'.then = rel.then /\ rel'.others = rel.others
      BY <1>0, <1>3 DEF Delete, DeleteRefused, Release
    <2>2. /\ t \in holders /\ at = "release"
          /\ UNCHANGED <<journal, alive, heldHere, phase, finish, holders, copy, at, unseen>>
      BY <1>3 DEF Delete, DeleteRefused
    <2>3. HolderAt(t)'
      BY <1>a, <2>1, <2>2 DEF HolderAt, Running, Early, Assigning
    <2>4. QED BY <1>a, <2>1, <2>2, <2>3, HeldOn DEF Held, Early
  <1>4. ASSUME Released(t) PROVE Held'
    <2>1. /\ at = "release" /\ t \in holders /\ HolderAt(t) /\ rel.line \in Run
          /\ rel.then \in {"stale", "undone", "save"}
      <3>1. HolderAt(t) /\ at = "release"
        BY <1>4, <1>a DEF Released
      <3>2. QED BY <1>0, <1>4, <3>1 DEF HolderAt, Early, Assigning, Job, Released
    <2>2. \A l \in Run \ {rel.line} : copy'[l] = copy[l]
      BY <1>0, <1>4 DEF Released, TypeOK, Journal
    <2>3. \A l \in unseen' : copy'[l] # NoLine
      BY <1>0, <1>4, <2>1, <2>2 DEF Released, Held, TypeOK
    <2>4. CASE rel.then = "stale"
      <3>1. rel' = NoRelease /\ at' = "stale" /\ rel'.line = Nobody /\ Early
        BY <1>4, <2>1, <2>4 DEF Released, NoRelease, Early
      <3>2. HolderAt(t)'
        BY <1>0, <1>4, <2>1, <2>2, <2>4, <3>1, RunAssumption
           DEF Released, HolderAt, Running, Early, Assigning
      <3>3. QED BY <1>4, <2>1, <2>3, <3>1, <3>2, HeldOn DEF Released, Held, Early
    <2>5. CASE rel.then # "stale"
      <3>1. rel' = rel /\ at' = rel.then /\ at' \in {"undone", "save"} /\ unseen' = {} /\ ~ Early /\ ~ Early'
        BY <1>4, <2>1, <2>5 DEF Released, Early, Held
      <3>2. HolderAt(t)'
        BY <1>0, <1>4, <2>1, <2>5, <3>1 DEF Released, HolderAt, Running, Early, Assigning, Job
      <3>3. QED BY <1>4, <2>1, <3>1, <3>2, HeldOn DEF Released
    <2>6. QED BY <2>4, <2>5
  <1>5. ASSUME ReadHeld(t) PROVE Held'
    <2>1. PICK missing \in MissingOf(t.run) : copy' = [copy EXCEPT ![t.run] = FirstLine(missing)]
      BY <1>5 DEF ReadHeld
    <2>2. copy'[t.run] = FirstLine(missing) /\ FirstLine(missing) \in Line /\ ~ FirstLine(missing).over
      BY <1>0, <2>1, MissingType DEF TypeOK, Journal, FirstLine
    <2>3. HolderAt(t)'
      BY <1>0, <1>5, <1>a, <2>2, NoLineAssumption DEF ReadHeld, HolderAt, Running, Early, Assigning
    <2>4. QED BY <1>5, <1>a, <2>3, HeldOn DEF ReadHeld
  <1>6. ASSUME HeldUnread(t) PROVE Held'
    BY <1>6, LeaveHeld DEF HeldUnread
  <1>7. ASSUME Create(t) PROVE Held'
    <2>1. Assigned(t.run) \in Line /\ copy[t.run] \in Line /\ Assigned(t.run).over = copy[t.run].over
          /\ Head(copy[t.run].assigning) \in Set
      BY <1>7, AssigningLine DEF Create, Assigning, Assigned, Line
    <2>2. copy'[t.run] \in Line /\ copy'[t.run].over = copy[t.run].over
      <3> DEFINE a == [by |-> t.run, set |-> Head(copy[t.run].assigning)]
      <3>1. a \in Assignment
        BY <1>0, <2>1 DEF Assignment
      <3>2. [Assigned(t.run) EXCEPT !.created = @ \cup {a}] \in Line
            /\ [Assigned(t.run) EXCEPT !.created = @ \cup {a}].over = copy[t.run].over
        BY <2>1, <3>1 DEF Line
      <3>3. copy'[t.run] \in {Assigned(t.run), [Assigned(t.run) EXCEPT !.created = @ \cup {a}]}
        BY <1>0, <1>7 DEF Create, TypeOK, Journal
      <3>4. QED BY <2>1, <3>2, <3>3
    <2>3. HolderAt(t)'
      BY <1>0, <1>7, <1>a, <2>2, NoLineAssumption DEF Create, HolderAt, Running, Early, Assigning
    <2>4. QED BY <1>7, <1>a, <2>3, HeldOn DEF Create, Held, Early
  <1>8. ASSUME CreateRefused(t) PROVE Held'
    <2>1. Assigned(t.run) \in Line /\ Assigning
      BY <1>8, AssigningLine DEF CreateRefused, Assigning
    <2>2. QED BY <1>8, <2>1, UndoHeld DEF CreateRefused
  <1>9. ASSUME ReadBack(t) PROVE Held'
    <2>1. copy[t.run] \in Line /\ Assigning
      BY <1>9, AssigningLine DEF ReadBack, Assigning
    <2>2. QED BY <1>9, <2>1, UndoHeld, LeaveHeld DEF ReadBack
  <1>10. ASSUME SaveFirst(t) PROVE Held'
    <2>1. CASE Leave(t)
      BY <2>1, LeaveHeld
    <2>2. CASE /\ journal' = copy /\ at' = "assign"
               /\ UNCHANGED <<phase, heldHere, holders, copy, unseen, rel, faults>>
      <3>1. HolderAt(t)'
        BY <1>0, <1>10, <1>a, <2>2 DEF SaveFirst, HolderAt, Running, Early, Assigning
      <3>2. QED BY <1>10, <1>a, <2>2, <3>1, HeldOn DEF SaveFirst, Held, Early
    <2>3. QED BY <1>10, <2>1, <2>2 DEF SaveFirst
  <1>11. ASSUME SaveNote(t) PROVE Held'
    <2>1. copy[t.run] \in Line /\ Assigning
      BY <1>11, AssigningLine DEF SaveNote, Assigning
    <2>2. CASE Undo(t, copy[t.run]) /\ UNCHANGED journal
      BY <1>11, <2>1, <2>2, UndoHeld DEF SaveNote
    <2>3. CASE journal' = copy /\ at' = "assign" /\ UNCHANGED <<copy, rel, faults>>
      <3>1. HolderAt(t)'
        BY <1>0, <1>11, <1>a, <2>3 DEF SaveNote, HolderAt, Running, Early, Assigning
      <3>2. QED BY <1>11, <1>a, <2>3, <3>1, HeldOn DEF SaveNote, Held, Early
    <2>4. QED BY <1>11, <2>2, <2>3 DEF SaveNote
  <1>12. ASSUME SaveUndone(t) \/ SaveEnd(t) \/ SaveFinish(t) \/ SaveRenew(t) PROVE Held'
    BY <1>12, LeaveHeld DEF SaveUndone, SaveEnd, SaveFinish, SaveRenew
  <1> HIDE DEF lock, faults
  <1>13. QED BY <1>1, <1>2, <1>3, <1>4, <1>5, <1>6, <1>7, <1>8, <1>9, <1>10, <1>11, <1>12 DEF Step

(* The steps that take the lock, or find that there is nothing to do. *)
LEMMA BeginHeld ==
    ASSUME Types, Held, Phases, NEW t \in Task, Begin(t)
    PROVE  Held'
  <1> USE DEF lock, faults
  <1>0. /\ TypeOK /\ t.run \in Run /\ rel \in Release /\ t.job \in Job
        /\ t = [run |-> t.run, job |-> t.job]
    BY DEF Types, Task
  <1>1. ASSUME holders = {}
        PROVE  at = "free" /\ unseen = {} /\ rel = NoRelease /\ rel.line = Nobody /\ Nobody \notin Run
    BY <1>1, RunAssumption DEF Held, NoRelease, Early
  <1>2. CASE t.job = "take" /\ BeginTake(t.run)
    <2>1. holders = {} /\ holders' = {t} /\ journal[t.run] = NoLine
      BY <1>0, <1>2, TakeDoes DEF BeginTake, Wants, Phases, PhaseOf
    <2>2. HolderAt(t)'
      BY <1>0, <1>1, <1>2, <2>1 DEF BeginTake, Wants, HolderAt, Running, Early, Assigning, TypeOK
    <2>3. QED BY <1>1, <1>2, <2>1, <2>2 DEF BeginTake, Held, Early
  <1>3. CASE t.job = "renew" /\ BeginRenew(t.run)
    <2>1. CASE UNCHANGED lock
      BY <1>3, <2>1 DEF BeginRenew, Held, HolderAt, Running, Early, Assigning
    <2>2. CASE ~ UNCHANGED lock
      <3>1. holders = {} /\ holders' = {t} /\ at' = "save"
        BY <1>0, <1>3, <2>2, TakeDoes DEF BeginRenew
      <3>2. HolderAt(t)'
        BY <1>0, <1>3, <3>1 DEF BeginRenew, Wants, HolderAt, Running, Early, Assigning
      <3>3. QED BY <1>1, <1>3, <2>2, <3>1, <3>2 DEF BeginRenew, Held, Early
    <2>3. QED BY <2>1, <2>2
  <1>4. CASE t.job = "end" /\ BeginEnd(t.run)
    <2>1. CASE journal[t.run] = NoLine
      BY <1>4, <2>1 DEF BeginEnd, Held, Early
    <2>2. CASE journal[t.run] # NoLine
      <3>1. holders = {} /\ holders' = {t} /\ at' = "release" /\ copy' = journal
        BY <1>0, <1>4, <2>2, TakeDoes DEF BeginEnd
      <3>2. /\ rel'.line = t.run /\ rel'.then = "save"
            /\ \A o \in rel'.others : copy'[o] # NoLine /\ o # t.run
        BY <1>4, <2>2, <3>1, ReleasingDoes DEF BeginEnd
      <3>3. HolderAt(t)'
        BY <1>0, <1>4, <2>2, <3>1, <3>2 DEF BeginEnd, Wants, HolderAt, Running, Early, Assigning
      <3>4. QED BY <1>1, <1>4, <2>2, <3>1, <3>2, <3>3 DEF BeginEnd, Held, Early
    <2>3. QED BY <2>1, <2>2
  <1>5. CASE t.job = "finish" /\ BeginFinish(t.run)
    <2>1. CASE journal[t.run] = NoLine
      BY <1>5, <2>1 DEF BeginFinish, Held, Early
    <2>2. CASE journal[t.run] # NoLine
      <3>1. holders = {} /\ holders' = {t} /\ at' = "release" /\ copy' = Remembered(t.run)
        BY <1>0, <1>5, <2>2, TakeDoes DEF BeginFinish
      <3>2. /\ rel'.line = t.run /\ rel'.then = "save"
            /\ \A o \in rel'.others : copy'[o] # NoLine /\ o # t.run
        BY <1>5, <2>2, <3>1, ReleasingDoes DEF BeginFinish
      <3>3. HolderAt(t)'
        BY <1>0, <1>5, <2>2, <3>1, <3>2 DEF BeginFinish, Wants, HolderAt, Running, Early, Assigning
      <3>4. copy'[t.run] # NoLine
        BY <1>0, <2>2, <3>1, RememberedType, NoLineAssumption
      <3>5. QED BY <1>1, <1>5, <2>2, <3>1, <3>2, <3>3, <3>4 DEF BeginFinish, Held, Early
    <2>3. QED BY <2>1, <2>2
  <1> HIDE DEF lock, faults
  <1>6. QED BY <1>2, <1>3, <1>4, <1>5 DEF Begin

(* The lock stays with its holder. *)
LEMMA LockStays ==
    ASSUME Held, UNCHANGED <<journal, lock>>, \A t \in holders : HolderAt(t)'
    PROVE  Held'
  BY DEF Held, Early, lock

LEMMA NextHeld ==
    ASSUME Types, Held, Phases, [Next]_vars
    PROVE  Held'
  <1>0. TypeOK /\ \A t \in holders : t \in Task /\ t.run \in Run /\ t.job \in Job /\ HolderAt(t)
    BY DEF Types, TypeOK, Task, Held
  <1>1. ASSUME NEW t \in Task, Unreached(t) PROVE Held'
    <2>1. t.run \in Run /\ t.job \in Job /\ t \notin holders /\ t = [run |-> t.run, job |-> t.job]
      BY <1>1 DEF Task, Unreached
    <2>2. ASSUME NEW u \in holders PROVE HolderAt(u)'
      <3>1. HolderAt(u) /\ u.run \in Run /\ u.job \in Job /\ u = [run |-> u.run, job |-> u.job]
        BY <1>0 DEF Task
      <3>2. u.run = t.run => u.job # t.job
        BY <2>1, <3>1
      <3>3. /\ u.job = "take" => phase'[u.run] = phase[u.run]
            /\ u.job = "end" => phase'[u.run] = phase[u.run]
            /\ heldHere' \subseteq heldHere
            /\ u.job = "take" /\ u.run \in heldHere => u.run \in heldHere'
        BY <1>0, <1>1, <2>1, <3>1, <3>2 DEF Unreached, Wants, HolderAt, TypeOK, Job
      <3>4. finish[u.run].on => finish'[u.run].on
        BY <1>0, <1>1, <2>1, <3>1 DEF Unreached, FinishLater, TypeOK
      <3>5. /\ Running(u.run)' <=> Running(u.run)
            /\ UNCHANGED <<holders, copy, at, unseen, rel, journal>>
        BY <1>1 DEF Unreached, Running, lock
      <3>6. Assigning => u.job = "take"
        BY <3>1 DEF HolderAt, Assigning, Job
      <3>7. QED BY <3>1, <3>3, <3>4, <3>5, <3>6 DEF HolderAt, Early, Assigning
    <2>3. QED BY <1>1, <2>2, LockStays DEF Unreached
  <1>2. ASSUME NEW r \in Run, RenewFires(r) \/ EndRun(r) \/ Lapse(r) PROVE Held'
    <2>1. UNCHANGED <<journal, lock, alive, heldHere, finish>>
      BY <1>2 DEF RenewFires, EndRun, Lapse
    <2>2. ASSUME NEW u \in holders PROVE HolderAt(u)'
      <3>1. phase[u.run] \in {"taking", "ending"} => phase'[u.run] = phase[u.run]
        BY <1>0, <1>2, <2>2 DEF RenewFires, EndRun, Lapse, TypeOK
      <3>2. QED BY <1>0, <2>1, <2>2, <3>1 DEF HolderAt, Running, Early, Assigning, lock
    <2>3. QED BY <2>1, <2>2, LockStays
  <1>3. ASSUME NEW s \in Set, AdminAssigns(s) \/ AdminRemoves(s) PROVE Held'
    <2>1. UNCHANGED <<journal, lock, alive, heldHere, finish, phase>>
      BY <1>3 DEF AdminAssigns, AdminRemoves
    <2>2. ASSUME NEW u \in holders PROVE HolderAt(u)'
      BY <1>0, <2>1, <2>2 DEF HolderAt, Running, Early, Assigning, lock
    <2>3. QED BY <2>1, <2>2, LockStays
  <1>4. ASSUME NEW p \in Process, Crash(p) PROVE Held'
    <2> DEFINE mine == {r \in Run : ProcessOf[r] = p}
    <2>1. CASE FreeLock
      BY <2>1 DEF FreeLock, Held, Early
    <2>2. CASE ~ FreeLock
      <3>1. UNCHANGED <<journal, lock>> /\ \A u \in holders : u.run \notin mine
        BY <1>4, <2>2 DEF Crash
      <3>2. ASSUME NEW u \in holders PROVE HolderAt(u)'
        <4>1. u.run \notin mine /\ HolderAt(u) /\ u.run \in Run
          BY <1>0, <3>1, <3>2
        <4>2. /\ phase'[u.run] = phase[u.run] /\ finish'[u.run] = finish[u.run]
              /\ u.run \in heldHere <=> u.run \in heldHere'
              /\ Running(u.run)'
          BY <1>4, <4>1 DEF Crash, HolderAt, Running
        <4>3. QED BY <3>1, <4>1, <4>2 DEF HolderAt, Early, Assigning, lock
      <3>3. QED BY <3>1, <3>2, LockStays
    <2>3. QED BY <2>1, <2>2
  <1>5. CASE UNCHANGED vars
    BY <1>5 DEF vars, lock, Held, HolderAt, Running, Early, Assigning
  <1>6. QED BY <1>1, <1>2, <1>3, <1>4, <1>5, StepHeld, BeginHeld DEF Next

-----------------------------------------------------------------------------
(* Where the runs are.                                                     *)

(* A run that stays where it is, and whose lines are as they were or have   *)
(* nothing left to assign.                                                  *)
LEMMA PhaseStays ==
    ASSUME NEW r \in Run, PhaseOf(r), phase[r] # "gone" => Running(r)', phase'[r] = phase[r],
           finish'[r].on \/ finish'[r] = NotFinishing,
           finish'[r].on => phase[r] \in {"done", "refused"},
           phase[r] = "taking" => [run |-> r, job |-> "take"] \in holders',
           \A c \in {journal', copy'} :
              \/ c[r] \in {NoLine, journal[r], copy[r]}
              \/ phase[r] # "idle" /\ c[r].assigning = <<>>
              \/ phase[r] # "idle" /\ \E d \in {journal, copy} :
                    d[r] # NoLine /\ c[r].assigning = d[r].assigning
    PROVE  PhaseOf(r)'
  <1>1. finish[r].on \/ finish[r] = NotFinishing
    BY DEF PhaseOf
  <1>2. phase'[r] = "idle" => journal'[r] = NoLine /\ copy'[r] = NoLine
    BY DEF PhaseOf
  <1>3. ASSUME phase'[r] \in {"writing", "ending", "done"}, NEW c \in {journal', copy'}
        PROVE  c[r] = NoLine \/ c[r].assigning = <<>>
    BY <1>3 DEF PhaseOf
  <1>4. ~ NotFinishing.on
    BY DEF NotFinishing
  <1>5. QED BY <1>1, <1>2, <1>3, <1>4 DEF PhaseOf

(* A step of the holder moves no other run. *)
LEMMA OthersStay ==
    ASSUME Phases, NEW t \in holders, holders = {t}, UNCHANGED alive,
           \A r \in Run \ {t.run} :
              /\ phase'[r] = phase[r] /\ finish'[r] = finish[r]
              /\ \A c \in {journal', copy'} : c[r] \in {NoLine, journal[r], copy[r]},
           PhaseOf(t.run)'
    PROVE  Phases'
  <1>1. SUFFICES ASSUME NEW r \in Run, r # t.run PROVE PhaseOf(r)'
    BY DEF Phases
  <1>2. PhaseOf(r) /\ phase[r] # "taking" /\ (phase[r] # "gone" => Running(r)')
    BY <1>1 DEF Phases, PhaseOf, Running
  <1>3. /\ finish'[r].on \/ finish'[r] = NotFinishing
        /\ finish'[r].on => phase[r] \in {"done", "refused"}
    BY <1>1, <1>2 DEF PhaseOf
  <1>4. QED BY <1>1, <1>2, <1>3, PhaseStays

(* What a run that takes a lease does to its own line. *)
LEMMA TakerStays ==
    ASSUME Types, Phases, NEW t \in Task, holders = {t}, t.job = "take", HolderAt(t),
           UNCHANGED <<alive, phase, finish, holders>>,
           \A r \in Run \ {t.run} : \A c \in {journal', copy'} : c[r] \in {journal[r], copy[r]}
    PROVE  Phases'
  <1>1. t.run \in Run /\ t = [run |-> t.run, job |-> "take"] /\ phase[t.run] = "taking"
    BY DEF Task, HolderAt
  <1>2. PhaseOf(t.run)'
    BY <1>1 DEF Phases, PhaseOf, Running
  <1>3. QED BY <1>2, OthersStay

LEMMA StepPhases ==
    ASSUME Types, Held, Phases, NEW t \in Task, Step(t)
    PROVE  Phases'
  <1> USE DEF lock, faults
  <1>0. /\ TypeOK /\ t.run \in Run /\ rel \in Release /\ t.job \in Job
        /\ t = [run |-> t.run, job |-> t.job]
    BY DEF Types, Task
  <1>a. t \in holders =>
           /\ HolderAt(t) /\ holders = {t} /\ at # "free"
           /\ Early \/ Assigning \/ at = "undone" => t.job = "take"
           /\ t.job = "take" => phase[t.run] = "taking"
    BY <1>0, OneHolder DEF HolderAt, Early, Assigning, Job
  <1>b. \A r \in Run :
           /\ PhaseOf(r)
           /\ finish[r].on \/ finish[r] = NotFinishing
           /\ finish[r].on => phase[r] \in {"done", "refused"}
           /\ phase[r] # "gone" => Running(r)
           /\ phase[r] = "taking" => [run |-> r, job |-> "take"] \in holders
    BY DEF Phases, PhaseOf
  <1>c. ASSUME UNCHANGED <<alive, phase, finish, holders, journal>>, NEW l \in Run, copy[l] # NoLine,
               \A r \in Run \ {l} : copy'[r] = copy[r],
               copy'[l] = NoLine \/ copy'[l].assigning = <<>> \/ copy'[l].assigning = copy[l].assigning
        PROVE  Phases'
    <2>1. SUFFICES ASSUME NEW r \in Run PROVE PhaseOf(r)'
      BY DEF Phases
    <2>2. r = l => phase[r] # "idle"
      BY <1>b, <1>c DEF PhaseOf
    <2>3. QED BY <1>b, <1>c, <2>2, PhaseStays DEF Running
  <1>1. ASSUME NEW l \in Run, LookAt(t, l) PROVE Phases'
    BY <1>1 DEF LookAt, Phases, PhaseOf, Running
  <1>2. ASSUME NEW a \in rel.todo, Pass(t, a) PROVE Phases'
    <2>1. PICK o \in Takers(a) : copy' = [copy EXCEPT ![o].created = @ \cup {a}]
      BY <1>2 DEF Pass
    <2>2. o \in Run /\ copy[o] \in Line /\ copy[o] # NoLine
      BY <1>0, <1>2, <2>1, LineOf DEF Pass, Held, Takers, Release, TypeOK
    <2>3. copy'[o].assigning = copy[o].assigning /\ \A r \in Run \ {o} : copy'[r] = copy[r]
      BY <1>0, <2>1, <2>2 DEF TypeOK, Journal, Line
    <2>4. QED BY <1>2, <1>c, <2>2, <2>3 DEF Pass
  <1>3. ASSUME NEW a \in rel.todo, Delete(t, a) \/ DeleteRefused(t, a) PROVE Phases'
    <2>1. UNCHANGED <<journal, alive, phase, finish, holders, copy>>
      BY <1>3 DEF Delete, DeleteRefused
    <2>2. QED BY <2>1 DEF Phases, PhaseOf, Running
  <1>4. ASSUME Released(t) PROVE Phases'
    <2>1. rel.line \in Run /\ copy[rel.line] # NoLine
      BY <1>4, <1>a DEF Released, Held, HolderAt
    <2>2. LeftLine = NoLine \/ LeftLine.assigning = <<>>
      BY DEF LeftLine
    <2>3. copy'[rel.line] = LeftLine /\ \A r \in Run \ {rel.line} : copy'[r] = copy[r]
      BY <1>0, <1>4, <2>1 DEF Released, TypeOK, Journal
    <2>4. QED BY <1>4, <1>c, <2>1, <2>2, <2>3 DEF Released
  <1>5. ASSUME ReadHeld(t) PROVE Phases'
    <2>1. \A r \in Run \ {t.run} : copy'[r] = copy[r]
      BY <1>0, <1>5 DEF ReadHeld, TypeOK, Journal
    <2>2. QED BY <1>5, <1>a, <2>1, TakerStays DEF ReadHeld, Early
  <1>6. ASSUME Create(t) PROVE Phases'
    <2>1. \A r \in Run \ {t.run} : copy'[r] = copy[r]
      BY <1>0, <1>6 DEF Create, TypeOK, Journal
    <2>2. QED BY <1>6, <1>a, <2>1, TakerStays DEF Create, Assigning
  <1>7. ASSUME NEW line \in Line, Undo(t, line), t \in holders, Assigning,
               UNCHANGED <<journal, alive, phase, finish, holders>>
        PROVE  Phases'
    <2>1. \A r \in Run \ {t.run} : copy'[r] = copy[r]
      BY <1>0, <1>7, UndoDoes DEF TypeOK, Journal
    <2>2. QED BY <1>7, <1>a, <2>1, TakerStays
  <1>8. ASSUME CreateRefused(t) PROVE Phases'
    <2>1. Assigned(t.run) \in Line /\ Assigning
      BY <1>8, AssigningLine DEF CreateRefused, Assigning
    <2>2. QED BY <1>8, <1>7, <2>1 DEF CreateRefused
  <1>9. ASSUME Leave(t), UNCHANGED alive,
               \A r \in Run \ {t.run} : phase'[r] = phase[r] /\ finish'[r] = finish[r],
               journal' \in {journal, copy}, PhaseOf(t.run)'
        PROVE  Phases'
    <2>1. t \in holders /\ holders = {t} /\ copy' = [r \in Run |-> NoLine]
      BY <1>9, <1>a, LeaveDoes
    <2>2. \A r \in Run \ {t.run} : \A c \in {journal', copy'} : c[r] \in {NoLine, journal[r], copy[r]}
      BY <1>9, <2>1
    <2>3. QED BY <1>9, <2>1, <2>2, OthersStay
  <1>10. ASSUME ReadBack(t) PROVE Phases'
    <2>1. copy[t.run] \in Line /\ Assigning /\ t \in holders
      BY <1>10, AssigningLine DEF ReadBack, Assigning
    <2>2. CASE Leave(t) /\ phase' = [phase EXCEPT ![t.run] = "writing"]
      <3>1. copy' = [r \in Run |-> NoLine] /\ copy = journal /\ journal' = journal
        BY <1>10, <1>a, <2>2, LeaveDoes DEF ReadBack, HolderAt
      <3>2. PhaseOf(t.run)'
        BY <1>0, <1>10, <1>a, <1>b, <2>1, <2>2, <3>1 DEF ReadBack, PhaseOf, Running, TypeOK
      <3>3. QED BY <1>0, <1>9, <1>10, <2>2, <3>1, <3>2 DEF ReadBack, TypeOK
    <2>3. CASE Undo(t, copy[t.run]) /\ UNCHANGED <<phase, holders, unseen>>
      BY <1>7, <1>10, <2>1, <2>3 DEF ReadBack
    <2>4. QED BY <1>10, <2>2, <2>3 DEF ReadBack
  <1>11. ASSUME Leave(t), UNCHANGED <<alive, journal, finish>>, t.job = "take",
                phase' = [phase EXCEPT ![t.run] = "refused"]
         PROVE  Phases'
    <2>1. t \in holders /\ copy' = [r \in Run |-> NoLine]
      BY <1>11, LeaveDoes
    <2>2. PhaseOf(t.run)'
      BY <1>0, <1>11, <1>a, <1>b, <2>1 DEF PhaseOf, Running, TypeOK
    <2>3. QED BY <1>0, <1>9, <1>11, <2>2 DEF TypeOK
  <1>12. ASSUME HeldUnread(t) PROVE Phases'
    BY <1>12, <1>11, <1>a DEF HeldUnread, Early
  <1>13. ASSUME SaveFirst(t) PROVE Phases'
    <2>1. t \in holders /\ t.job = "take"
      BY <1>13, <1>a DEF SaveFirst, Assigning
    <2>2. CASE journal' = copy /\ UNCHANGED <<phase, holders, copy>>
      BY <1>13, <1>a, <2>1, <2>2, TakerStays DEF SaveFirst
    <2>3. CASE Leave(t) /\ phase' = [phase EXCEPT ![t.run] = "refused"] /\ UNCHANGED journal
      BY <1>11, <1>13, <2>1, <2>3 DEF SaveFirst
    <2>4. QED BY <1>13, <2>2, <2>3 DEF SaveFirst
  <1>14. ASSUME SaveNote(t) PROVE Phases'
    <2>1. copy[t.run] \in Line /\ Assigning /\ t \in holders
      BY <1>14, AssigningLine DEF SaveNote, Assigning
    <2>2. CASE journal' = copy /\ UNCHANGED <<copy, rel, faults>>
      BY <1>14, <1>a, <2>1, <2>2, TakerStays DEF SaveNote
    <2>3. CASE Undo(t, copy[t.run]) /\ UNCHANGED journal
      BY <1>7, <1>14, <2>1, <2>3 DEF SaveNote
    <2>4. QED BY <1>14, <2>2, <2>3 DEF SaveNote
  <1>d. ASSUME NEW gone, NEW still, FinishLater(t.run, gone, still)
        PROVE  /\ finish'[t.run].on
               /\ \A r \in Run \ {t.run} : finish'[r] = finish[r]
    BY <1>0, <1>d DEF FinishLater, TypeOK
  <1>15. ASSUME SaveUndone(t) \/ SaveEnd(t) PROVE Phases'
    <2>1. /\ Leave(t) /\ UNCHANGED alive /\ t \in holders /\ copy' = [r \in Run |-> NoLine]
          /\ journal' \in {journal, copy}
          /\ phase' = [phase EXCEPT ![t.run] = IF t.job = "take" THEN "refused" ELSE "done"]
      BY <1>15, <1>a, LeaveDoes DEF SaveUndone, SaveEnd
    <2>2. /\ finish'[t.run].on \/ finish'[t.run] = NotFinishing
          /\ \A r \in Run \ {t.run} : finish'[r] = finish[r]
      <3>1. finish' = finish \/ \E gone, still : FinishLater(t.run, gone, still)
        BY <1>15 DEF SaveUndone, SaveEnd
      <3>2. QED BY <3>1, <1>b, <1>d, <1>0
    <2>3. t.job # "take" => phase[t.run] = "ending"
      BY <1>15, <1>a DEF SaveUndone, SaveEnd, HolderAt
    <2>4. t.job # "take" => \A c \in {journal, copy} : c[t.run] = NoLine \/ c[t.run].assigning = <<>>
      BY <1>0, <1>b, <2>3 DEF PhaseOf
    <2>5. PhaseOf(t.run)'
      BY <1>0, <1>a, <2>1, <2>2, <2>4 DEF PhaseOf, Running, HolderAt, TypeOK, NotFinishing
    <2>6. QED BY <1>0, <1>9, <2>1, <2>2, <2>5 DEF TypeOK
  <1>16. ASSUME SaveFinish(t) \/ SaveRenew(t) PROVE Phases'
    <2>1. /\ Leave(t) /\ UNCHANGED <<alive, phase>> /\ t \in holders /\ copy' = [r \in Run |-> NoLine]
          /\ journal' \in {journal, copy} /\ t.job \in {"finish", "renew"}
      BY <1>16, LeaveDoes DEF SaveFinish, SaveRenew
    <2>2. /\ finish'[t.run].on \/ finish'[t.run] = NotFinishing
          /\ finish'[t.run].on => finish[t.run].on
          /\ \A r \in Run \ {t.run} : finish'[r] = finish[r]
      <3>1. CASE finish' = finish
        BY <1>0, <1>b, <3>1
      <3>2. CASE finish' = [finish EXCEPT ![t.run] = NotFinishing]
        BY <1>0, <3>2 DEF TypeOK, NotFinishing
      <3>3. CASE finish' = [finish EXCEPT ![t.run].gone = @ \cup rel.removed] /\ SaveFinish(t)
        <4>1. finish[t.run].on /\ finish[t.run] \in Finishing
          BY <1>0, <1>a, <3>3 DEF SaveFinish, HolderAt, TypeOK
        <4>2. [finish[t.run] EXCEPT !.gone = @ \cup rel.removed].on
          BY <4>1 DEF Finishing
        <4>3. QED BY <1>0, <3>3, <4>1, <4>2 DEF TypeOK
      <3>4. QED BY <1>16, <3>1, <3>2, <3>3 DEF SaveFinish, SaveRenew
    <2>3. phase[t.run] # "taking"
      <3>1. [run |-> t.run, job |-> "take"] # t
        BY <2>1
      <3>2. QED BY <1>0, <1>a, <1>b, <2>1, <3>1
    <2>4. PhaseOf(t.run)'
      <3>1. phase[t.run] # "gone" => Running(t.run)'
        BY <1>0, <1>b, <2>1 DEF Running
      <3>2. QED BY <1>0, <1>b, <2>1, <2>2, <2>3, <3>1, PhaseStays
    <2>5. QED BY <1>0, <1>9, <2>1, <2>2, <2>4
  <1> HIDE DEF lock, faults
  <1>17. QED BY <1>1, <1>2, <1>3, <1>4, <1>5, <1>6, <1>8, <1>10, <1>12, <1>13, <1>14, <1>15, <1>16 DEF Step

LEMMA BeginPhases ==
    ASSUME Types, Held, Phases, NEW t \in Task, Begin(t)
    PROVE  Phases'
  <1> USE DEF lock, faults
  <1>0. /\ TypeOK /\ t.run \in Run /\ rel \in Release /\ t.job \in Job
        /\ t = [run |-> t.run, job |-> t.job]
    BY DEF Types, Task
  <1>b. \A r \in Run :
           /\ PhaseOf(r)
           /\ finish[r].on \/ finish[r] = NotFinishing
           /\ finish[r].on => phase[r] \in {"done", "refused"}
           /\ phase[r] # "gone" => Running(r)
           /\ phase[r] = "taking" => [run |-> r, job |-> "take"] \in holders
    BY DEF Phases, PhaseOf
  <1>1. CASE t.job = "take" /\ BeginTake(t.run)
    <2>1. holders = {} /\ holders' = {t} /\ UNCHANGED <<journal, alive, finish>> /\ copy' = journal
      BY <1>0, <1>1, TakeDoes DEF BeginTake
    <2>2. phase' = [phase EXCEPT ![t.run] = "taking"] /\ phase[t.run] = "idle" /\ Running(t.run)
      BY <1>0, <1>1 DEF BeginTake, Wants
    <2>3. SUFFICES ASSUME NEW r \in Run PROVE PhaseOf(r)'
      BY DEF Phases
    <2>4. CASE r = t.run
      BY <1>0, <1>1, <1>b, <2>1, <2>2, <2>4 DEF PhaseOf, Running, TypeOK
    <2>5. CASE r # t.run
      <3>1. phase'[r] = phase[r] /\ phase[r] # "taking" /\ (phase[r] # "gone" => Running(r)')
        BY <1>0, <1>b, <2>1, <2>2, <2>5 DEF Running, TypeOK
      <3>2. QED BY <1>b, <2>1, <3>1, PhaseStays
    <2>6. QED BY <2>4, <2>5
  <1>2. CASE t.job = "renew" /\ BeginRenew(t.run)
    <2>1. UNCHANGED <<journal, alive, finish, phase>>
      BY <1>2 DEF BeginRenew
    <2>2. UNCHANGED <<holders, copy>> \/ (holders = {} /\ copy' = journal)
      BY <1>0, <1>2, TakeDoes DEF BeginRenew
    <2>3. SUFFICES ASSUME NEW r \in Run PROVE PhaseOf(r)'
      BY DEF Phases
    <2>4. (phase[r] # "gone" => Running(r)')
          /\ (phase[r] = "taking" => [run |-> r, job |-> "take"] \in holders')
      BY <1>b, <2>1, <2>2 DEF Running
    <2>5. QED BY <1>b, <2>1, <2>2, <2>4, PhaseStays
  <1>3. CASE t.job = "end" /\ BeginEnd(t.run)
    <2>1. phase[t.run] = "ending" /\ Running(t.run) /\ UNCHANGED <<journal, alive, finish>>
      BY <1>3 DEF BeginEnd, Wants
    <2>2. CASE journal[t.run] = NoLine
      <3>1. /\ holders = {} /\ UNCHANGED <<holders, copy>>
            /\ phase' = [phase EXCEPT ![t.run] = "done"]
        BY <1>3, <2>2 DEF BeginEnd
      <3>2. SUFFICES ASSUME NEW r \in Run PROVE PhaseOf(r)'
        BY DEF Phases
      <3>3. CASE r = t.run
        <4>1. copy[r] = NoLine \/ copy[r].assigning = <<>>
          BY <1>b, <2>1, <3>3 DEF PhaseOf
        <4>2. QED BY <1>0, <1>b, <2>1, <2>2, <3>1, <3>3, <4>1 DEF PhaseOf, Running, TypeOK
      <3>4. CASE r # t.run
        <4>1. phase'[r] = phase[r] /\ phase[r] # "taking" /\ (phase[r] # "gone" => Running(r)')
          BY <1>0, <1>b, <2>1, <3>1, <3>4 DEF Running, TypeOK
        <4>2. QED BY <1>b, <2>1, <3>1, <4>1, PhaseStays
      <3>5. QED BY <3>3, <3>4
    <2>3. CASE journal[t.run] # NoLine
      <3>1. holders = {} /\ copy' = journal /\ UNCHANGED phase
        BY <1>3, <2>3, TakeDoes DEF BeginEnd
      <3>2. SUFFICES ASSUME NEW r \in Run PROVE PhaseOf(r)'
        BY DEF Phases
      <3>3. phase[r] # "taking" /\ (phase[r] # "gone" => Running(r)')
        BY <1>b, <2>1, <3>1 DEF Running
      <3>4. QED BY <1>b, <2>1, <3>1, <3>3, PhaseStays
    <2>4. QED BY <2>2, <2>3
  <1>4. CASE t.job = "finish" /\ BeginFinish(t.run)
    <2>1. finish[t.run].on /\ UNCHANGED <<journal, alive, phase>>
      BY <1>4 DEF BeginFinish, Wants
    <2>2. SUFFICES ASSUME NEW r \in Run PROVE PhaseOf(r)'
      BY DEF Phases
    <2>3. holders = {}
      BY <1>4, TakeDoes DEF BeginFinish
    <2>4. phase[r] # "taking" /\ (phase[r] # "gone" => Running(r)')
      BY <1>b, <2>1, <2>3 DEF Running
    <2>5. /\ finish'[r].on \/ finish'[r] = NotFinishing
          /\ finish'[r].on => phase[r] \in {"done", "refused"}
      <3>1. finish' = finish \/ finish' = [finish EXCEPT ![t.run] = NotFinishing]
        BY <1>4 DEF BeginFinish
      <3>2. QED BY <1>0, <1>b, <3>1 DEF TypeOK, NotFinishing
    <2>6. CASE journal[t.run] = NoLine
      <3>1. UNCHANGED copy
        BY <1>4, <2>6 DEF BeginFinish
      <3>2. QED BY <1>b, <2>1, <2>4, <2>5, <3>1, PhaseStays
    <2>7. CASE journal[t.run] # NoLine
      <3>1. copy' = Remembered(t.run)
        BY <1>4, <2>7 DEF BeginFinish
      <3>2. CASE r = t.run
        <4>1. copy'[r].assigning = <<>> /\ phase[r] # "idle"
          BY <1>0, <1>b, <2>1, <3>1, <3>2 DEF Remembered, TypeOK, Journal
        <4>2. QED BY <1>b, <2>1, <2>4, <2>5, <4>1, PhaseStays
      <3>3. CASE r # t.run
        <4>1. copy'[r] = journal[r]
          BY <1>0, <3>1, <3>3 DEF Remembered, TypeOK, Journal
        <4>2. QED BY <1>b, <2>1, <2>4, <2>5, <4>1, PhaseStays
      <3>4. QED BY <3>2, <3>3
    <2>8. QED BY <2>6, <2>7
  <1> HIDE DEF lock, faults
  <1>5. QED BY <1>1, <1>2, <1>3, <1>4 DEF Begin

LEMMA NextPhases ==
    ASSUME Types, Held, Phases, [Next]_vars
    PROVE  Phases'
  <1>0. TypeOK /\ \A t \in holders : t \in Task /\ t.run \in Run
    BY DEF Types, TypeOK, Task
  <1>b. \A r \in Run :
           /\ PhaseOf(r)
           /\ finish[r].on \/ finish[r] = NotFinishing
           /\ finish[r].on => phase[r] \in {"done", "refused"}
           /\ phase[r] # "gone" => Running(r)
           /\ phase[r] = "taking" => [run |-> r, job |-> "take"] \in holders
    BY DEF Phases, PhaseOf
  <1>1. ASSUME NEW t \in Task, Unreached(t) PROVE Phases'
    <2>1. t.run \in Run /\ UNCHANGED <<journal, alive, copy, holders>>
      BY <1>1 DEF Task, Unreached, lock
    <2>2. SUFFICES ASSUME NEW r \in Run PROVE PhaseOf(r)'
      BY DEF Phases
    <2>3. phase[r] # "gone" => Running(r)'
      BY <1>b, <2>1 DEF Running
    <2>4. CASE phase'[r] = phase[r] /\ finish'[r] = finish[r]
      BY <1>b, <2>1, <2>3, <2>4, PhaseStays
    <2>5. CASE r = t.run /\ t.job = "take"
      <3>1. phase[r] = "idle" /\ phase'[r] = "refused" /\ finish'[r] = finish[r]
        BY <1>0, <1>1, <2>1, <2>5 DEF Unreached, Wants, TypeOK
      <3>2. QED BY <1>b, <2>1, <2>3, <3>1 DEF PhaseOf
    <2>6. CASE r = t.run /\ t.job = "end"
      <3>1. phase[r] = "ending" /\ phase'[r] = "done" /\ finish'[r].on
        BY <1>0, <1>1, <2>1, <2>6 DEF Unreached, Wants, TypeOK, FinishLater
      <3>2. \A c \in {journal, copy} : c[r] = NoLine \/ c[r].assigning = <<>>
        BY <1>b, <3>1 DEF PhaseOf
      <3>3. QED BY <2>1, <2>3, <3>1, <3>2 DEF PhaseOf
    <2>7. (phase'[r] = phase[r] /\ finish'[r] = finish[r]) \/ (r = t.run /\ t.job \in {"take", "end"})
      BY <1>0, <1>1, <2>1 DEF Unreached, TypeOK, FinishLater
    <2>8. QED BY <2>4, <2>5, <2>6, <2>7
  <1>2. ASSUME NEW r \in Run, RenewFires(r) \/ EndRun(r) \/ Lapse(r) PROVE Phases'
    <2>1. /\ UNCHANGED <<journal, alive, copy, holders, finish>>
          /\ phase' = phase \/ (phase[r] = "writing" /\ phase' = [phase EXCEPT ![r] = "ending"])
      BY <1>2 DEF RenewFires, EndRun, Lapse, lock
    <2>2. SUFFICES ASSUME NEW u \in Run PROVE PhaseOf(u)'
      BY DEF Phases
    <2>3. phase[u] # "gone" => Running(u)'
      BY <1>b, <2>1 DEF Running
    <2>4. CASE phase'[u] = phase[u]
      BY <1>b, <2>1, <2>3, <2>4, PhaseStays
    <2>5. CASE phase'[u] # phase[u]
      <3>1. phase[u] = "writing" /\ phase'[u] = "ending"
        BY <1>0, <2>1, <2>5 DEF TypeOK
      <3>2. \A c \in {journal, copy} : c[u] = NoLine \/ c[u].assigning = <<>>
        BY <1>b, <3>1 DEF PhaseOf
      <3>3. QED BY <1>b, <2>1, <2>3, <3>1, <3>2 DEF PhaseOf
    <2>6. QED BY <2>4, <2>5
  <1>3. ASSUME NEW s \in Set, AdminAssigns(s) \/ AdminRemoves(s) PROVE Phases'
    <2>1. UNCHANGED <<journal, alive, phase, finish, holders, copy>>
      BY <1>3 DEF AdminAssigns, AdminRemoves, lock
    <2>2. QED BY <2>1 DEF Phases, PhaseOf, Running
  <1>4. ASSUME NEW p \in Process, Crash(p) PROVE Phases'
    <2> DEFINE mine == {r \in Run : ProcessOf[r] = p}
    <2>1. SUFFICES ASSUME NEW r \in Run PROVE PhaseOf(r)'
      BY DEF Phases
    <2>2. CASE r \in mine
      BY <1>4, <2>2 DEF Crash, PhaseOf, NotFinishing
    <2>3. CASE r \notin mine
      <3>1. /\ phase'[r] = phase[r] /\ finish'[r] = finish[r] /\ UNCHANGED journal
            /\ Running(r) => Running(r)'
        BY <1>4, <2>3 DEF Crash, Running
      <3>2. CASE FreeLock /\ \E t \in holders : t.run \in mine
        <4>1. PICK t \in holders : t.run \in mine
          BY <3>2
        <4>2. holders = {t}
          BY OneHolder
        <4>3. phase[r] # "taking" /\ copy' = [x \in Run |-> NoLine]
          BY <1>b, <2>3, <3>2, <4>1, <4>2 DEF FreeLock
        <4>4. QED BY <1>b, <3>1, <4>3, PhaseStays
      <3>3. CASE UNCHANGED lock
        BY <1>b, <3>1, <3>3, PhaseStays DEF lock
      <3>4. QED BY <1>4, <3>2, <3>3 DEF Crash
    <2>4. QED BY <2>2, <2>3
  <1>5. CASE UNCHANGED vars
    <2>1. UNCHANGED <<journal, alive, phase, finish, holders, copy>>
      BY <1>5 DEF vars, lock
    <2>2. QED BY <2>1 DEF Phases, PhaseOf, Running
  <1>6. QED BY <1>1, <1>2, <1>3, <1>4, <1>5, StepPhases, BeginPhases DEF Next

-----------------------------------------------------------------------------
(* The leases of the runs that write.                                      *)

(* The lease of a run that writes is live to every process that asks.      *)
LEMMA WritersLive ==
    ASSUME Phases, NEW r \in Run, Writing(r), r \in heldHere, NEW line, InForce(line), NEW x \in Run
    PROVE  isLive(x, r, line)
  <1>1. Running(r) /\ term[r] # "past"
    BY DEF Phases, PhaseOf, Writing
  <1>2. QED BY <1>1 DEF isLive, InForce, Running

(* A run goes on writing, and no step takes its lease from the journal.    *)
LEMMA SparedStays ==
    ASSUME NEW r \in Run, SparedRun(r), r \in heldHere',
           journal'[r] = journal[r] \/ (at # "free" /\ journal'[r] = copy[r]),
           \/ copy'[r] = copy[r] /\ at # "free"
           \/ copy'[r] = journal[r]
           \/ InForce(copy'[r])
           \/ at' = "free",
           at' = "release" => r \in rel'.others
    PROVE  SparedRun(r)'
  BY DEF SparedRun, InForce

LEMMA StepSpared ==
    ASSUME Types, Held, Phases, Spared, NEW t \in Task, Step(t), NEW r \in Run, Writing(r)'
    PROVE  SparedRun(r)'
  <1> USE DEF lock, faults
  <1>0. /\ TypeOK /\ t.run \in Run /\ rel \in Release /\ t.job \in Job
    BY DEF Types, Task
  <1>a. t \in holders =>
           /\ HolderAt(t) /\ holders = {t} /\ at # "free"
           /\ Early \/ Assigning \/ at = "undone" => t.job = "take"
           /\ t.job = "take" => phase[t.run] = "taking"
    BY <1>0, OneHolder DEF HolderAt, Early, Assigning, Job
  <1>b. Writing(r) => /\ SparedRun(r) /\ r \in heldHere /\ InForce(journal[r]) /\ phase[r] = "writing"
                      /\ at # "free" => InForce(copy[r])
                      /\ at = "release" => r \in rel.others
    BY DEF Spared, SparedRun, Writing
  <1>1. ASSUME NEW l \in Run, LookAt(t, l) PROVE SparedRun(r)'
    <2>1. Writing(r) /\ UNCHANGED <<heldHere, journal, copy>> /\ t \in holders
      BY <1>1 DEF LookAt, Writing
    <2>2. isLive(t.run, r, copy[r]) /\ copy[r] # NoLine
      BY <1>0, <1>a, <1>b, <2>1, WritersLive DEF InForce
    <2>3. at' = "release" => r \in rel'.others
      <3>1. CASE isLive(t.run, l, copy[l])
        BY <1>1, <3>1 DEF LookAt
      <3>2. CASE ~ isLive(t.run, l, copy[l])
        BY <1>1, <2>2, <3>2, ReleasingDoes DEF LookAt
      <3>3. QED BY <3>1, <3>2
    <2>4. QED BY <1>a, <1>b, <2>1, <2>3, SparedStays
  <1>2. ASSUME NEW a \in rel.todo, Pass(t, a) PROVE SparedRun(r)'
    <2>1. PICK o \in Takers(a) : copy' = [copy EXCEPT ![o].created = @ \cup {a}]
      BY <1>2 DEF Pass
    <2>2. o \in Run /\ copy[o] \in Line /\ a \in Assignment
      BY <1>0, <1>2, <2>1, LineOf DEF Pass, Held, Takers, Release, TypeOK
    <2>3. /\ copy' = [copy EXCEPT ![o] = [copy[o] EXCEPT !.created = @ \cup {a}]]
          /\ [copy[o] EXCEPT !.created = @ \cup {a}] \in Line
          /\ [copy[o] EXCEPT !.created = @ \cup {a}].over = copy[o].over
          /\ [copy[o] EXCEPT !.created = @ \cup {a}].assigning = copy[o].assigning
      BY <2>1, <2>2 DEF Line
    <2>4. Writing(r) /\ UNCHANGED <<heldHere, journal, at>> /\ t \in holders /\ rel'.others = rel.others
      BY <1>0, <1>2 DEF Pass, Writing, Release
    <2>5. InForce(copy'[r])
      BY <1>0, <1>a, <1>b, <2>2, <2>3, <2>4, NoLineAssumption DEF InForce, TypeOK, Journal
    <2>6. QED BY <1>a, <1>b, <2>4, <2>5, SparedStays
  <1>3. ASSUME NEW a \in rel.todo, Delete(t, a) \/ DeleteRefused(t, a) PROVE SparedRun(r)'
    <2>1. /\ Writing(r) /\ UNCHANGED <<heldHere, journal, copy, at>> /\ t \in holders
          /\ rel'.others = rel.others
      BY <1>0, <1>3 DEF Delete, DeleteRefused, Writing, Release
    <2>2. QED BY <1>a, <1>b, <2>1, SparedStays
  <1>4. ASSUME Released(t) PROVE SparedRun(r)'
    <2>0. HolderAt(t) /\ at = "release" /\ (t.job = "take" => phase[t.run] = "taking")
      BY <1>4, <1>a DEF Released
    <2>1. Writing(r) /\ t \in holders /\ UNCHANGED journal /\ r \in rel.others /\ rel.line \in Run
          /\ (rel.then = "undone" => phase[t.run] = "taking")
      <3>1. Writing(r) /\ t \in holders /\ UNCHANGED journal
        BY <1>4 DEF Released, Writing
      <3>2. rel.line \in Run /\ (rel.then = "undone" => t.job = "take")
        BY <1>0, <2>0 DEF HolderAt, Job, Early, Assigning
      <3>3. QED BY <1>b, <2>0, <3>1, <3>2
    <2>2. r # rel.line
      BY <1>4, <2>1 DEF Released, Held
    <2>3. copy'[r] = copy[r] /\ r \in heldHere'
      BY <1>0, <1>4, <1>b, <2>1, <2>2 DEF Released, TypeOK, Journal
    <2>4. at' # "release"
      BY <1>0, <1>4 DEF Released, Release
    <2>5. QED BY <1>a, <1>b, <2>1, <2>3, <2>4, SparedStays
  <1>5. ASSUME ReadHeld(t) PROVE SparedRun(r)'
    <2>1. Writing(r) /\ t \in holders /\ UNCHANGED journal /\ at' = "first" /\ r \in heldHere'
      BY <1>5, <1>b DEF ReadHeld, Writing
    <2>2. r # t.run
      BY <1>5, <1>a, <1>b, <2>1 DEF ReadHeld, Early
    <2>3. copy'[r] = copy[r]
      BY <1>0, <1>5, <2>2 DEF ReadHeld, TypeOK, Journal
    <2>4. QED BY <1>a, <1>b, <2>1, <2>3, SparedStays
  <1>6. ASSUME Create(t) PROVE SparedRun(r)'
    <2>1. Writing(r) /\ t \in holders /\ UNCHANGED <<journal, heldHere>> /\ at' = "note"
      BY <1>6 DEF Create, Writing
    <2>2. r # t.run
      BY <1>6, <1>a, <1>b, <2>1 DEF Create, Assigning
    <2>3. copy'[r] = copy[r]
      BY <1>0, <1>6, <2>2 DEF Create, TypeOK, Journal
    <2>4. QED BY <1>a, <1>b, <2>1, <2>3, SparedStays
  <1>7. ASSUME NEW line \in Line, Undo(t, line), t \in holders, Assigning,
               UNCHANGED <<journal, heldHere, term, phase>>
        PROVE  SparedRun(r)'
    <2>1. Writing(r) /\ r # t.run
      BY <1>7, <1>a, <1>b DEF Writing
    <2>2. /\ copy'[r] = copy[r] /\ at' = "release"
          /\ rel'.others = {o \in Run \ {t.run} : copy'[o] # NoLine /\ isLive(t.run, o, copy'[o])}
      BY <1>0, <1>7, <2>1, UndoDoes DEF TypeOK, Journal
    <2>3. isLive(t.run, r, copy[r]) /\ copy[r] # NoLine
      BY <1>0, <1>7, <1>a, <1>b, <2>1, WritersLive DEF InForce
    <2>4. (isLive(t.run, r, copy'[r]) <=> isLive(t.run, r, copy[r]))
      BY <2>2
    <2>5. QED BY <1>7, <1>a, <1>b, <2>1, <2>2, <2>3, <2>4, SparedStays
  <1>8. ASSUME CreateRefused(t) PROVE SparedRun(r)'
    <2>1. Assigned(t.run) \in Line /\ Assigning
      BY <1>8, AssigningLine DEF CreateRefused, Assigning
    <2>2. QED BY <1>8, <1>7, <2>1 DEF CreateRefused
  <1>9. ASSUME Leave(t), Writing(r), r \in heldHere', journal' \in {journal, copy}
        PROVE  SparedRun(r)'
    <2>1. t \in holders /\ at' = "free"
      BY <1>9, LeaveDoes
    <2>2. QED BY <1>9, <1>a, <1>b, <2>1, SparedStays
  <1>10. ASSUME ReadBack(t) PROVE SparedRun(r)'
    <2>1. copy[t.run] \in Line /\ Assigning /\ t \in holders /\ UNCHANGED <<journal, heldHere, term>>
      BY <1>10, AssigningLine DEF ReadBack, Assigning
    <2>2. CASE Leave(t) /\ phase' = [phase EXCEPT ![t.run] = "writing"]
      <3>1. CASE r = t.run
        <4>1. at' = "free" /\ copy = journal /\ InForce(journal[r]) /\ r \in heldHere
          BY <1>10, <1>a, <2>1, <2>2, <3>1, LeaveDoes DEF ReadBack, HolderAt, InForce
        <4>2. QED BY <2>1, <4>1 DEF SparedRun, InForce
      <3>2. CASE r # t.run
        <4>1. Writing(r)
          BY <1>0, <2>1, <2>2, <3>2 DEF Writing, TypeOK
        <4>2. QED BY <1>9, <1>b, <2>1, <2>2, <4>1
      <3>3. QED BY <3>1, <3>2
    <2>3. CASE Undo(t, copy[t.run]) /\ UNCHANGED <<phase, holders, unseen>>
      BY <1>7, <1>10, <2>1, <2>3 DEF ReadBack
    <2>4. QED BY <1>10, <2>2, <2>3 DEF ReadBack
  <1>11. ASSUME HeldUnread(t) PROVE SparedRun(r)'
    <2>1. Writing(r)
      BY <1>0, <1>11 DEF HeldUnread, Writing, TypeOK
    <2>2. QED BY <1>9, <1>11, <1>b, <2>1 DEF HeldUnread
  <1>12. ASSUME SaveFirst(t) PROVE SparedRun(r)'
    <2>1. Writing(r) /\ t \in holders /\ phase[t.run] = "taking"
      BY <1>0, <1>12, <1>a DEF SaveFirst, Writing, TypeOK, Assigning
    <2>2. r # t.run /\ r \in heldHere'
      BY <1>12, <1>b, <2>1 DEF SaveFirst
    <2>3. CASE Leave(t) /\ UNCHANGED journal
      BY <1>9, <2>1, <2>2, <2>3
    <2>4. CASE journal' = copy /\ at' = "assign" /\ UNCHANGED <<holders, copy, rel>>
      BY <1>a, <1>b, <2>1, <2>2, <2>4, SparedStays
    <2>5. QED BY <1>12, <2>3, <2>4 DEF SaveFirst
  <1>13. ASSUME SaveNote(t) PROVE SparedRun(r)'
    <2>1. copy[t.run] \in Line /\ Assigning /\ t \in holders /\ UNCHANGED <<heldHere, term, phase>>
          /\ Writing(r)
      BY <1>13, AssigningLine DEF SaveNote, Assigning, Writing
    <2>2. CASE journal' = copy /\ at' = "assign" /\ UNCHANGED <<copy, rel, faults>>
      BY <1>a, <1>b, <2>1, <2>2, SparedStays
    <2>3. CASE Undo(t, copy[t.run]) /\ UNCHANGED journal
      BY <1>7, <2>1, <2>3
    <2>4. QED BY <1>13, <2>2, <2>3 DEF SaveNote
  <1>14. ASSUME SaveUndone(t) \/ SaveEnd(t) \/ SaveFinish(t) \/ SaveRenew(t) PROVE SparedRun(r)'
    <2>1. Leave(t) /\ UNCHANGED heldHere /\ journal' \in {journal, copy}
      BY <1>14 DEF SaveUndone, SaveEnd, SaveFinish, SaveRenew
    <2>2. phase'[r] = "writing" => phase[r] = "writing"
      BY <1>0, <1>14 DEF SaveUndone, SaveEnd, SaveFinish, SaveRenew, TypeOK
    <2>3. term'[r] = "ahead" => term[r] = "ahead"
      BY <1>0, <1>14 DEF SaveUndone, SaveEnd, SaveFinish, SaveRenew, TypeOK
    <2>4. Writing(r)
      BY <2>2, <2>3 DEF Writing
    <2>5. QED BY <1>9, <1>b, <2>1, <2>4
  <1> HIDE DEF lock, faults
  <1>15. QED BY <1>1, <1>2, <1>3, <1>4, <1>5, <1>6, <1>8, <1>10, <1>11, <1>12, <1>13, <1>14 DEF Step

LEMMA NextSpared ==
    ASSUME Types, Held, Phases, Spared, [Next]_vars
    PROVE  Spared'
  <1> USE DEF lock
  <1>0. TypeOK
    BY DEF Types
  <1>1. SUFFICES ASSUME NEW r \in Run, Writing(r)' PROVE SparedRun(r)'
    BY DEF Spared
  <1>b. Writing(r) => /\ SparedRun(r) /\ r \in heldHere /\ InForce(journal[r]) /\ phase[r] = "writing"
                      /\ at # "free" => InForce(copy[r])
                      /\ at = "release" => r \in rel.others
    BY DEF Spared, SparedRun, Writing
  <1>2. ASSUME NEW t \in Task, Begin(t) PROVE SparedRun(r)'
    <2>1. t.run \in Run /\ UNCHANGED <<journal, term>>
      BY <1>2 DEF Task, Begin, BeginTake, BeginRenew, BeginEnd, BeginFinish
    <2>2. phase'[r] = "writing" => phase[r] = "writing"
      BY <1>0, <1>2, <2>1 DEF Begin, BeginTake, BeginRenew, BeginEnd, BeginFinish, TypeOK
    <2>3. Writing(r)
      BY <1>1, <2>1, <2>2 DEF Writing
    <2>4. r \in heldHere'
      BY <1>2, <1>b, <2>3 DEF Begin, BeginTake, BeginRenew, BeginEnd, BeginFinish, Wants
    <2>5. CASE UNCHANGED lock
      BY <1>b, <2>1, <2>3, <2>4, <2>5 DEF SparedRun, InForce
    <2>6. CASE BeginTake(t.run) \/ (BeginRenew(t.run) /\ ~ UNCHANGED lock)
      <3>1. copy' = journal /\ at' # "release"
        BY <2>6 DEF BeginTake, BeginRenew
      <3>2. QED BY <1>b, <2>1, <2>3, <2>4, <3>1, SparedStays
    <2>7. CASE BeginEnd(t.run) /\ ~ UNCHANGED lock
      <3>1. copy' = journal /\ Releasing(t.run, journal, t.run, "save") /\ phase[t.run] = "ending"
        BY <2>7 DEF BeginEnd, Wants
      <3>2. r # t.run /\ isLive(t.run, r, journal[r]) /\ journal[r] # NoLine
        BY <1>b, <2>1, <2>3, <3>1, WritersLive DEF InForce
      <3>3. r \in rel'.others
        BY <3>1, <3>2, ReleasingDoes
      <3>4. QED BY <1>b, <2>1, <2>3, <2>4, <3>1, <3>3, SparedStays
    <2>8. CASE BeginFinish(t.run) /\ ~ UNCHANGED lock
      <3>1. /\ copy' = Remembered(t.run) /\ Releasing(t.run, Remembered(t.run), t.run, "save")
            /\ finish[t.run].on
        BY <2>8 DEF BeginFinish, Wants
      <3>2. r # t.run
        BY <1>b, <2>1, <2>3, <3>1 DEF Phases, PhaseOf
      <3>3. Remembered(t.run)[r] = journal[r]
        BY <1>0, <2>1, <3>2 DEF Remembered, TypeOK, Journal
      <3>4. isLive(t.run, r, Remembered(t.run)[r]) /\ Remembered(t.run)[r] # NoLine
        BY <1>b, <2>1, <2>3, <3>3, WritersLive DEF InForce
      <3>5. r \in rel'.others
        BY <3>1, <3>2, <3>4, ReleasingDoes
      <3>6. QED BY <1>b, <2>1, <2>3, <2>4, <3>1, <3>3, <3>5, SparedStays
    <2>9. QED BY <1>2, <2>5, <2>6, <2>7, <2>8 DEF Begin
  <1>3. ASSUME NEW t \in Task, Unreached(t) PROVE SparedRun(r)'
    <2>1. t.run \in Run /\ UNCHANGED <<journal, term, lock>>
      BY <1>3 DEF Task, Unreached
    <2>2. phase'[r] = "writing" => phase[r] = "writing"
      BY <1>0, <1>3, <2>1 DEF Unreached, TypeOK
    <2>3. Writing(r)
      BY <1>1, <2>1, <2>2 DEF Writing
    <2>4. r \in heldHere'
      BY <1>3, <1>b, <2>3 DEF Unreached, Wants
    <2>5. QED BY <1>b, <2>1, <2>3, <2>4 DEF SparedRun, InForce
  <1>4. ASSUME NEW x \in Run, RenewFires(x) \/ EndRun(x) \/ Lapse(x) PROVE SparedRun(r)'
    <2>1. UNCHANGED <<journal, heldHere, lock>>
      BY <1>4 DEF RenewFires, EndRun, Lapse
    <2>2. Writing(r)
      BY <1>0, <1>1, <1>4 DEF RenewFires, EndRun, Lapse, Writing, TypeOK
    <2>3. QED BY <1>b, <2>1, <2>2 DEF SparedRun, InForce
  <1>5. ASSUME NEW s \in Set, AdminAssigns(s) \/ AdminRemoves(s) PROVE SparedRun(r)'
    BY <1>1, <1>5, <1>b DEF AdminAssigns, AdminRemoves, Writing, SparedRun, InForce
  <1>6. ASSUME NEW p \in Process, Crash(p) PROVE SparedRun(r)'
    <2>1. Writing(r) /\ r \in heldHere' /\ UNCHANGED journal
      BY <1>0, <1>1, <1>6, <1>b DEF Crash, Writing, TypeOK
    <2>2. CASE UNCHANGED lock
      BY <1>b, <2>1, <2>2 DEF SparedRun, InForce
    <2>3. CASE FreeLock
      BY <1>b, <2>1, <2>3 DEF FreeLock, SparedRun, InForce
    <2>4. QED BY <1>6, <2>2, <2>3 DEF Crash
  <1>7. CASE UNCHANGED vars
    BY <1>1, <1>7, <1>b DEF vars, Writing, SparedRun, InForce
  <1> HIDE DEF lock
  <1>8. QED BY <1>1, <1>2, <1>3, <1>4, <1>5, <1>6, <1>7, StepSpared DEF Next

-----------------------------------------------------------------------------
(* What a run that writes needs stays assigned.                            *)

LEMMA NextQuiet ==
    ASSUME Types, Held, Phases, Spared, QuietWhileWriting, [Next]_vars
    PROVE  QuietWhileWriting'
  <1>0. TypeOK /\ rel \in Release
    BY DEF Types
  <1>1. SUFFICES ASSUME NEW r \in Run, phase'[r] = "writing", term'[r] = "ahead",
                        NEW s \in Needs(r), s \notin admin'.removed
                 PROVE  org'[s] # Nobody
    BY DEF QuietWhileWriting, Needs
  <1>2. s \in Set /\ org[s] \in Run \cup {Admin, Nobody} /\ Nobody \notin Run \cup {Admin}
    BY <1>0, <1>1, RunAssumption DEF Needs, TypeOK
  <1>3. Writing(r) /\ s \notin admin.removed => org[s] # Nobody
    BY <1>1 DEF QuietWhileWriting, Writing
  <1>4. ASSUME UNCHANGED org, phase'[r] = "writing" => phase[r] = "writing",
               term'[r] = "ahead" => term[r] = "ahead", admin'.removed = admin.removed
        PROVE  org'[s] # Nobody
    BY <1>1, <1>3, <1>4 DEF Writing
  <1>5. ASSUME NEW t \in Task, Step(t) PROVE org'[s] # Nobody
    <2>1. t.run \in Run
      BY DEF Task
    <2>2. CASE \E l \in Run : LookAt(t, l)
      BY <1>4, <2>2 DEF LookAt
    <2>3. CASE \E a \in rel.todo : Pass(t, a) \/ DeleteRefused(t, a)
      BY <1>4, <2>3 DEF Pass, DeleteRefused
    <2>4. ASSUME NEW a \in rel.todo, Delete(t, a) PROVE org'[s] # Nobody
      <3>1. Writing(r) /\ admin'.removed = admin.removed /\ at = "release" /\ Takers(a) = {}
        BY <1>0, <1>1, <2>4 DEF Delete, Writing, TypeOK
      <3>2. r \in rel.others
        BY <3>1 DEF Spared, SparedRun
      <3>3. a.set # s
        BY <1>1, <3>1, <3>2 DEF Takers
      <3>4. org'[s] = org[s]
        BY <1>0, <1>2, <2>4, <3>3 DEF Delete, TypeOK
      <3>5. QED BY <1>1, <1>3, <3>1, <3>4
    <2>5. CASE Released(t) \/ ReadHeld(t)
      BY <1>4, <2>5 DEF Released, ReadHeld
    <2>6. CASE HeldUnread(t) \/ SaveFirst(t) \/ SaveNote(t)
      <3>1. phase' = phase \/ phase' = [phase EXCEPT ![t.run] = "refused"]
        BY <2>6 DEF HeldUnread, SaveFirst, SaveNote
      <3>2. phase'[r] = "writing" => phase[r] = "writing"
        BY <1>0, <2>1, <3>1 DEF TypeOK
      <3>3. QED BY <1>4, <2>6, <3>2 DEF HeldUnread, SaveFirst, SaveNote
    <2>7. CASE Create(t) \/ CreateRefused(t)
      <3>1. Writing(r) /\ admin' = admin
        BY <1>1, <2>7 DEF Create, CreateRefused, Writing
      <3>2. org'[s] \in {org[s], t.run}
        BY <1>0, <1>2, <2>7 DEF Create, CreateRefused, TypeOK
      <3>3. QED BY <1>1, <1>2, <1>3, <2>1, <3>1, <3>2
    <2>8. CASE ReadBack(t)
      <3>1. CASE phase[r] = "writing"
        BY <1>4, <2>8, <3>1 DEF ReadBack
      <3>2. CASE phase[r] # "writing"
        <4>1. r = t.run /\ \A x \in Needs(t.run) : org[x] # Nobody
          BY <1>0, <1>1, <2>8, <3>2 DEF ReadBack, TypeOK
        <4>2. QED BY <1>1, <2>8, <4>1 DEF ReadBack
      <3>3. QED BY <3>1, <3>2
    <2>9. CASE SaveUndone(t) \/ SaveEnd(t) \/ SaveFinish(t) \/ SaveRenew(t)
      <3>1. phase'[r] = "writing" => phase[r] = "writing"
        BY <1>0, <2>1, <2>9 DEF SaveUndone, SaveEnd, SaveFinish, SaveRenew, TypeOK
      <3>2. term'[r] = "ahead" => term[r] = "ahead"
        BY <1>0, <2>1, <2>9 DEF SaveUndone, SaveEnd, SaveFinish, SaveRenew, TypeOK
      <3>3. UNCHANGED <<org, admin>>
        BY <2>9 DEF SaveUndone, SaveEnd, SaveFinish, SaveRenew
      <3>4. QED BY <1>4, <3>1, <3>2, <3>3
    <2>10. QED BY <1>5, <2>2, <2>3, <2>4, <2>5, <2>6, <2>7, <2>8, <2>9 DEF Step
  <1>6. ASSUME NEW t \in Task, Begin(t) \/ Unreached(t) PROVE org'[s] # Nobody
    <2>1. t.run \in Run
      BY DEF Task
    <2>2. UNCHANGED <<org, term, admin>>
      BY <1>6 DEF Begin, BeginTake, BeginRenew, BeginEnd, BeginFinish, Unreached
    <2>3. phase'[r] = "writing" => phase[r] = "writing"
      BY <1>0, <1>6, <2>1 DEF Begin, BeginTake, BeginRenew, BeginEnd, BeginFinish, Unreached, TypeOK
    <2>4. QED BY <1>4, <2>2, <2>3
  <1>7. ASSUME NEW x \in Run, RenewFires(x) \/ EndRun(x) \/ Lapse(x) PROVE org'[s] # Nobody
    <2>1. /\ phase'[r] = "writing" => phase[r] = "writing"
          /\ term'[r] = "ahead" => term[r] = "ahead"
      BY <1>0, <1>7 DEF RenewFires, EndRun, Lapse, TypeOK
    <2>2. QED BY <1>4, <1>7, <2>1 DEF RenewFires, EndRun, Lapse
  <1>8. ASSUME NEW x \in Set, AdminAssigns(x) PROVE org'[s] # Nobody
    <2>1. Writing(r) /\ admin'.removed = admin.removed /\ org'[s] \in {org[s], Admin}
      BY <1>0, <1>1, <1>2, <1>8 DEF AdminAssigns, Writing, TypeOK
    <2>2. QED BY <1>1, <1>2, <1>3, <2>1
  <1>9. ASSUME NEW x \in Set, AdminRemoves(x) PROVE org'[s] # Nobody
    <2>1. Writing(r) /\ admin'.removed = admin.removed \cup {x}
      BY <1>0, <1>1, <1>9 DEF AdminRemoves, Writing, TypeOK
    <2>2. org'[s] = org[s] /\ s \notin admin.removed
      BY <1>0, <1>1, <1>2, <1>9, <2>1 DEF AdminRemoves, TypeOK
    <2>3. QED BY <1>3, <2>1, <2>2
  <1>10. ASSUME NEW p \in Process, Crash(p) PROVE org'[s] # Nobody
    <2>1. /\ phase'[r] = "writing" => phase[r] = "writing"
          /\ UNCHANGED <<org, term, admin>>
      BY <1>10 DEF Crash
    <2>2. QED BY <1>4, <2>1
  <1>11. CASE UNCHANGED vars
    BY <1>4, <1>11 DEF vars
  <1>12. QED BY <1>5, <1>6, <1>7, <1>8, <1>9, <1>10, <1>11 DEF Next

-----------------------------------------------------------------------------
(* What an admin assigned is not taken back, while nothing fails.          *)

LEMMA StepKept ==
    ASSUME Types, Held, Phases, Untroubled, NEW t \in Task, Step(t), fails' = fails
    PROVE  Untroubled'
  <1> USE DEF lock, faults
  <1>0. /\ TypeOK /\ t.run \in Run /\ rel \in Release /\ t.job \in Job
        /\ t = [run |-> t.run, job |-> t.job] /\ Admin \notin Run
    BY RunAssumption DEF Types, Task
  <1>a. t \in holders =>
           /\ HolderAt(t) /\ holders = {t} /\ at # "free"
           /\ Early \/ Assigning \/ at = "undone" => t.job = "take"
    BY <1>0, OneHolder DEF HolderAt, Early, Assigning, Job
  <1>b. /\ \A l \in Run : journal[l] # NoLine => OfRuns(journal[l].created)
        /\ \A l \in Run : copy[l] # NoLine => OfRuns(copy[l].created)
        /\ OfRuns(rel.todo) /\ OfRuns(rel.passed) /\ OfRuns(rel.left)
        /\ \A x \in Run : OfRuns(finish[x].still)
        /\ admin.taken = {}
    BY DEF Untroubled
  <1>c. \A l \in Run :
           /\ journal[l] # NoLine /\ journal[l].assigning # <<>> =>
                 at \in {"assign", "note"} /\ [run |-> l, job |-> "take"] \in holders
           /\ copy[l] # NoLine /\ copy[l].assigning # <<>> =>
                 Assigning /\ [run |-> l, job |-> "take"] \in holders
    BY DEF Untroubled
  <1>d. ~ Fail /\ \A lost : ~ FailLosing(lost)
    BY <1>0 DEF Fail, FailLosing, TypeOK
  <1>1. ASSUME NEW l \in Run, LookAt(t, l) PROVE Untroubled'
    <2>1. CASE isLive(t.run, l, copy[l])
      BY <1>1, <1>b, <1>c, <2>1 DEF LookAt, Untroubled, Assigning
    <2>2. CASE ~ isLive(t.run, l, copy[l])
      <3>1. copy[l] # NoLine /\ copy[l].assigning = <<>>
        BY <1>1, <1>c DEF LookAt, Held, Assigning
      <3>2. rel'.todo = copy[l].created /\ rel'.passed = {} /\ rel'.left = {}
        BY <1>1, <2>2, <3>1 DEF LookAt, Releasing, ReleasingWith
      <3>3. UNCHANGED <<journal, copy, finish, admin, holders>> /\ at' = "release" /\ at = "stale"
        BY <1>1, <2>2 DEF LookAt
      <3>4. OfRuns(rel'.todo) /\ OfRuns(rel'.passed) /\ OfRuns(rel'.left)
        BY <1>b, <3>1, <3>2 DEF OfRuns
      <3>5. QED BY <1>b, <1>c, <3>3, <3>4 DEF Untroubled, Assigning
    <2>3. QED BY <2>1, <2>2
  <1>2. ASSUME NEW a \in rel.todo, Pass(t, a) PROVE Untroubled'
    <2>1. PICK o \in Takers(a) : copy' = [copy EXCEPT ![o].created = @ \cup {a}]
      BY <1>2 DEF Pass
    <2>2. o \in Run /\ copy[o] \in Line /\ a \in Assignment /\ a.by # Admin
      BY <1>0, <1>2, <1>b, <2>1, LineOf DEF Pass, Held, Takers, Release, TypeOK, OfRuns
    <2>3. /\ copy'[o].created = copy[o].created \cup {a} /\ copy'[o].assigning = copy[o].assigning
          /\ \A l \in Run \ {o} : copy'[l] = copy[l]
      BY <1>0, <2>1, <2>2 DEF TypeOK, Journal, Line
    <2>4. /\ UNCHANGED <<journal, finish, admin, holders, at>> /\ at = "release"
          /\ rel'.todo = rel.todo \ {a} /\ rel'.passed = rel.passed \cup {a} /\ rel'.left = rel.left
      BY <1>0, <1>2 DEF Pass, Release
    <2>5. \A l \in Run : copy'[l] # NoLine => OfRuns(copy'[l].created)
      BY <1>b, <2>2, <2>3, NoLineAssumption DEF OfRuns
    <2>6. \A l \in Run : copy'[l] # NoLine => copy'[l].assigning = <<>>
      BY <1>c, <2>2, <2>3, <2>4, NoLineAssumption DEF Assigning
    <2>7. OfRuns(rel'.todo) /\ OfRuns(rel'.passed) /\ OfRuns(rel'.left)
      BY <1>b, <2>2, <2>4 DEF OfRuns
    <2>8. QED BY <1>b, <1>c, <2>4, <2>5, <2>6, <2>7 DEF Untroubled
  <1>3. ASSUME NEW a \in rel.todo, Delete(t, a) PROVE Untroubled'
    <2>1. a.by # Admin
      BY <1>b DEF OfRuns
    <2>2. admin'.taken = {}
      BY <1>0, <1>3, <1>b, <2>1 DEF Delete, TypeOK
    <2>3. /\ UNCHANGED <<journal, copy, finish, holders, at>> /\ at = "release"
          /\ rel'.todo = rel.todo \ {a} /\ rel'.passed = rel.passed /\ rel'.left = rel.left
      BY <1>0, <1>3 DEF Delete, Release
    <2>4. OfRuns(rel'.todo) /\ OfRuns(rel'.passed) /\ OfRuns(rel'.left)
      BY <1>b, <2>3 DEF OfRuns
    <2>5. QED BY <1>b, <1>c, <2>2, <2>3, <2>4 DEF Untroubled, Assigning
  <1>4. ASSUME Released(t) PROVE Untroubled'
    <2>1. rel.line \in Run /\ at = "release"
      BY <1>4, <1>a DEF Released, HolderAt
    <2>2. /\ LeftLine # NoLine => OfRuns(LeftLine.created) /\ LeftLine.assigning = <<>>
      BY <1>b DEF LeftLine
    <2>3. copy'[rel.line] = LeftLine /\ \A l \in Run \ {rel.line} : copy'[l] = copy[l]
      BY <1>0, <1>4, <2>1 DEF Released, TypeOK, Journal
    <2>4. \A l \in Run : copy'[l] # NoLine => OfRuns(copy'[l].created) /\ copy'[l].assigning = <<>>
      BY <1>b, <1>c, <2>1, <2>2, <2>3 DEF Assigning
    <2>5. OfRuns(rel'.todo) /\ OfRuns(rel'.passed) /\ OfRuns(rel'.left)
      BY <1>4, <1>b DEF Released, NoRelease, OfRuns
    <2>6. UNCHANGED <<journal, finish, admin, holders>>
      BY <1>4 DEF Released
    <2>7. QED BY <1>b, <1>c, <2>1, <2>4, <2>5, <2>6 DEF Untroubled
  <1>5. ASSUME ReadHeld(t) PROVE Untroubled'
    <2>1. PICK missing \in MissingOf(t.run) : copy' = [copy EXCEPT ![t.run] = FirstLine(missing)]
      BY <1>5 DEF ReadHeld
    <2>2. copy'[t.run].created = {} /\ \A l \in Run \ {t.run} : copy'[l] = copy[l]
      BY <1>0, <2>1 DEF TypeOK, Journal, FirstLine
    <2>3. /\ UNCHANGED <<journal, finish, admin, holders, rel>> /\ at = "stale" /\ at' = "first"
          /\ t = [run |-> t.run, job |-> "take"] /\ t \in holders
      BY <1>0, <1>5, <1>a DEF ReadHeld, Early
    <2>4. \A l \in Run : copy'[l] # NoLine => OfRuns(copy'[l].created)
      BY <1>b, <2>2 DEF OfRuns
    <2>5. \A l \in Run \ {t.run} : copy'[l] # NoLine => copy'[l].assigning = <<>>
      BY <1>c, <2>2, <2>3 DEF Assigning
    <2>6. QED BY <1>b, <1>c, <2>3, <2>4, <2>5 DEF Untroubled, Assigning
  <1>6. ASSUME Create(t) PROVE Untroubled'
    <2> DEFINE r == t.run
               a == [by |-> r, set |-> Head(copy[t.run].assigning)]
    <2>1. copy[r] \in Line /\ Assigned(r) \in Line /\ a \in Assignment /\ a.by # Admin
          /\ Assigned(r).created = copy[r].created
      <3>1. copy[r] \in Line /\ Assigned(r) \in Line /\ Head(copy[r].assigning) \in Set
        BY <1>6, AssigningLine DEF Create, Assigning
      <3>2. QED BY <1>0, <3>1 DEF Assignment, Assigned, Line
    <2>2. [Assigned(r) EXCEPT !.created = @ \cup {a}].created = copy[r].created \cup {a}
      BY <2>1 DEF Line
    <2>3. copy'[r] \in {Assigned(r), [Assigned(r) EXCEPT !.created = @ \cup {a}]}
          /\ \A l \in Run \ {r} : copy'[l] = copy[l]
      BY <1>0, <1>6 DEF Create, TypeOK, Journal
    <2>4. copy'[r].created \subseteq copy[r].created \cup {a}
      BY <2>1, <2>2, <2>3
    <2>5. /\ UNCHANGED <<journal, finish, admin, holders, rel>> /\ at = "assign" /\ at' = "note"
          /\ t = [run |-> t.run, job |-> "take"] /\ t \in holders /\ copy[r] # NoLine
      BY <1>0, <1>6, <1>a, <2>1, NoLineAssumption DEF Create, Assigning
    <2>6. \A l \in Run : copy'[l] # NoLine => OfRuns(copy'[l].created)
      BY <1>0, <1>b, <2>1, <2>3, <2>4, <2>5 DEF OfRuns
    <2>7. \A l \in Run \ {r} : copy'[l] # NoLine /\ copy'[l].assigning # <<>> =>
             [run |-> l, job |-> "take"] \in holders
      BY <1>c, <2>3
    <2>8. QED BY <1>b, <1>c, <2>5, <2>6, <2>7 DEF Untroubled, Assigning
  <1>7. ~ CreateRefused(t) /\ ~ HeldUnread(t)
    BY <1>d DEF CreateRefused, HeldUnread
  <1>8. ASSUME Leave(t), journal' \in {journal, copy}, UNCHANGED <<finish, admin>>,
               \A l \in Run : journal'[l] # NoLine => journal'[l].assigning = <<>>
        PROVE  Untroubled'
    <2>1. copy' = [r \in Run |-> NoLine] /\ rel' = NoRelease
      BY <1>8, LeaveDoes
    <2>2. OfRuns({})
      BY DEF OfRuns
    <2>3. QED BY <1>b, <1>8, <2>1, <2>2 DEF Untroubled, NoRelease
  <1>9. ASSUME ReadBack(t) PROVE Untroubled'
    <2>1. copy[t.run] \in Line /\ at = "assign" /\ t \in holders /\ copy[t.run].assigning = <<>>
          /\ UNCHANGED <<journal, finish, admin>> /\ copy = journal
      BY <1>9, <1>a, AssigningLine DEF ReadBack, Assigning, HolderAt
    <2>2. \A l \in Run : copy[l] # NoLine => copy[l].assigning = <<>>
      <3>1. \A l \in Run : [run |-> l, job |-> "take"] \in holders => l = t.run
        BY <1>0, <1>a, <2>1
      <3>2. QED BY <1>c, <2>1, <3>1
    <2>3. CASE Leave(t)
      BY <1>8, <2>1, <2>2, <2>3
    <2>4. CASE Undo(t, copy[t.run]) /\ UNCHANGED <<phase, holders, unseen>>
      <3>1. /\ copy' = [copy EXCEPT ![t.run] = [copy[t.run] EXCEPT !.assigning = <<>>]]
            /\ copy'[t.run].assigning = <<>> /\ copy'[t.run].created = copy[t.run].created
            /\ rel'.todo = copy[t.run].created /\ rel'.passed = {} /\ rel'.left = {}
        BY <2>1, <2>4, UndoDoes
      <3>2. copy[t.run] # NoLine /\ \A l \in Run \ {t.run} : copy'[l] = copy[l]
        BY <1>0, <2>1, <3>1, NoLineAssumption DEF TypeOK, Journal
      <3>3. OfRuns(rel'.todo) /\ OfRuns(rel'.passed) /\ OfRuns(rel'.left)
        BY <1>0, <1>b, <3>1, <3>2 DEF OfRuns
      <3>4. \A l \in Run : copy'[l] # NoLine => OfRuns(copy'[l].created) /\ copy'[l].assigning = <<>>
        BY <1>0, <1>b, <2>2, <3>1, <3>2
      <3>5. QED BY <1>b, <2>1, <2>2, <3>3, <3>4 DEF Untroubled
    <2>5. QED BY <1>9, <2>3, <2>4 DEF ReadBack
  <1>10. ASSUME SaveFirst(t) \/ SaveNote(t) PROVE Untroubled'
    <2>1. /\ journal' = copy /\ at' = "assign" /\ UNCHANGED <<copy, rel, finish, admin, holders>>
          /\ Assigning
      BY <1>10, <1>d DEF SaveFirst, SaveNote, Assigning
    <2>2. QED BY <1>b, <1>c, <2>1 DEF Untroubled, Assigning
  <1>11. ASSUME SaveUndone(t) \/ SaveEnd(t) \/ SaveRenew(t) PROVE Untroubled'
    <2>1. /\ Leave(t) /\ UNCHANGED <<finish, admin>> /\ journal' \in {journal, copy}
          /\ at \in {"undone", "save"}
      BY <1>11, <1>d DEF SaveUndone, SaveEnd, SaveRenew
    <2>2. \A l \in Run : journal'[l] # NoLine => journal'[l].assigning = <<>>
      BY <1>c, <2>1 DEF Assigning
    <2>3. QED BY <1>8, <2>1, <2>2
  <1>12. ASSUME SaveFinish(t) PROVE Untroubled'
    <2>1. /\ Leave(t) /\ UNCHANGED admin /\ journal' = copy /\ at = "save"
          /\ finish' = [finish EXCEPT ![t.run] = NotFinishing]
      BY <1>12, <1>d DEF SaveFinish
    <2>2. \A l \in Run : journal'[l] # NoLine => journal'[l].assigning = <<>>
      BY <1>c, <2>1 DEF Assigning
    <2>3. copy' = [r \in Run |-> NoLine] /\ rel' = NoRelease /\ OfRuns({})
      BY <2>1, LeaveDoes DEF OfRuns
    <2>4. \A x \in Run : OfRuns(finish'[x].still)
      BY <1>0, <1>b, <2>1, <2>3 DEF TypeOK, NotFinishing
    <2>5. QED BY <1>b, <2>1, <2>2, <2>3, <2>4 DEF Untroubled, NoRelease
  <1> HIDE DEF lock, faults
  <1>13. QED BY <1>1, <1>2, <1>3, <1>4, <1>5, <1>6, <1>7, <1>9, <1>10, <1>11, <1>12, <1>d
     DEF Step, DeleteRefused

LEMMA NextKept ==
    ASSUME Types, Held, Phases, Kept, [Next]_vars
    PROVE  Kept'
  <1> USE DEF lock, faults
  <1>0. TypeOK /\ fails \in Nat
    BY DEF Types, TypeOK
  <1>1. SUFFICES ASSUME alive' = Process, fails' = 0 PROVE Untroubled'
    BY DEF Kept
  <1>2. \A lost : ~ FailLosing(lost)
    BY <1>0, <1>1 DEF FailLosing
  <1>3. CASE UNCHANGED vars
    BY <1>1, <1>3 DEF vars, Kept, Untroubled, Assigning
  <1>4. CASE Next
    <2>1. ASSUME NEW p \in Process, Crash(p) PROVE FALSE
      BY <1>1, <2>1 DEF Crash
    <2>2. fails' = fails /\ alive' = alive
      <3>1. ASSUME NEW t \in Task, Step(t) PROVE UNCHANGED <<fails, alive>>
        BY <1>2, <3>1 DEF Step, LookAt, Releasing, Pass, Delete, DeleteRefused, Released, ReadHeld,
          HeldUnread, Create, CreateRefused, ReadBack, SaveFirst, SaveNote, SaveUndone, SaveEnd,
          SaveFinish, SaveRenew, Fail
      <3>2. ASSUME NEW t \in Task, Begin(t) \/ Unreached(t) PROVE UNCHANGED <<fails, alive>>
        BY <1>2, <3>2 DEF Begin, BeginTake, BeginRenew, BeginEnd, BeginFinish, Releasing, Unreached, Fail
      <3>3. ASSUME NEW r \in Run, RenewFires(r) \/ EndRun(r) \/ Lapse(r)
            PROVE  UNCHANGED <<fails, alive>>
        BY <3>3 DEF RenewFires, EndRun, Lapse
      <3>4. ASSUME NEW s \in Set, AdminAssigns(s) \/ AdminRemoves(s) PROVE UNCHANGED <<fails, alive>>
        BY <3>4 DEF AdminAssigns, AdminRemoves
      <3>5. QED BY <1>4, <2>1, <3>1, <3>2, <3>3, <3>4 DEF Next
    <2>3. Untroubled
      BY <1>1, <2>2 DEF Kept
    <2>4. ASSUME NEW t \in Task, Step(t) PROVE Untroubled'
      BY <2>2, <2>3, <2>4, StepKept
    <2>5. ASSUME NEW t \in Task, Begin(t) PROVE Untroubled'
      <3>1. t.run \in Run /\ UNCHANGED <<journal, admin>>
        BY <2>5 DEF Task, Begin, BeginTake, BeginRenew, BeginEnd, BeginFinish
      <3>2. holders = {}
        BY <2>5, TakeDoes DEF Begin, BeginTake, BeginRenew, BeginEnd, BeginFinish
      <3>3. /\ \A l \in Run : journal[l] # NoLine =>
                 OfRuns(journal[l].created) /\ journal[l].assigning = <<>>
            /\ \A l \in Run : copy[l] = NoLine
            /\ OfRuns(rel.todo) /\ OfRuns(rel.passed) /\ OfRuns(rel.left)
            /\ \A x \in Run : OfRuns(finish[x].still)
            /\ admin.taken = {}
        BY <2>3, <3>2 DEF Untroubled, Held
      <3>4. CASE UNCHANGED lock /\ UNCHANGED finish
        BY <3>1, <3>3, <3>4 DEF Untroubled
      <3>5. CASE copy' = journal /\ UNCHANGED <<rel, finish>>
        BY <3>1, <3>3, <3>5 DEF Untroubled
      <3>6. CASE UNCHANGED lock /\ finish' = [finish EXCEPT ![t.run] = NotFinishing]
        <4>1. \A x \in Run : OfRuns(finish'[x].still)
          BY <1>0, <3>3, <3>6 DEF TypeOK, NotFinishing, OfRuns
        <4>2. QED BY <3>1, <3>3, <3>6, <4>1 DEF Untroubled
      <3>7. ASSUME NEW c \in Journal, copy' = c, Releasing(t.run, c, t.run, "save"), UNCHANGED finish,
                   \A l \in Run : c[l] # NoLine => OfRuns(c[l].created) /\ c[l].assigning = <<>>,
                   c[t.run] # NoLine
            PROVE  Untroubled'
        <4>1. rel'.todo = c[t.run].created /\ rel'.passed = {} /\ rel'.left = {}
          BY <3>1, <3>7 DEF Releasing, ReleasingWith
        <4>2. OfRuns(rel'.todo) /\ OfRuns(rel'.passed) /\ OfRuns(rel'.left)
          BY <3>1, <3>7, <4>1 DEF OfRuns
        <4>3. QED BY <3>1, <3>3, <3>7, <4>2 DEF Untroubled
      <3>8. CASE BeginFinish(t.run) /\ journal[t.run] # NoLine
        <4>1. /\ copy' = Remembered(t.run) /\ Releasing(t.run, Remembered(t.run), t.run, "save")
              /\ UNCHANGED finish
          BY <3>8 DEF BeginFinish
        <4>2. Remembered(t.run) \in Journal /\ Remembered(t.run)[t.run] # NoLine
          BY <1>0, <3>1, <3>8, RememberedType, NoLineAssumption
        <4>3. /\ Remembered(t.run)[t.run].assigning = <<>>
              /\ Remembered(t.run)[t.run].created
                   = (journal[t.run].created \cup finish[t.run].still) \ finish[t.run].gone
              /\ \A l \in Run \ {t.run} : Remembered(t.run)[l] = journal[l]
          BY <1>0, <3>1 DEF Remembered, TypeOK, Journal
        <4>4. OfRuns(Remembered(t.run)[t.run].created)
          BY <3>1, <3>3, <3>8, <4>3 DEF OfRuns
        <4>5. \A l \in Run : Remembered(t.run)[l] # NoLine =>
                 OfRuns(Remembered(t.run)[l].created) /\ Remembered(t.run)[l].assigning = <<>>
          BY <3>3, <4>3, <4>4
        <4>6. QED BY <3>7, <4>1, <4>2, <4>5
      <3>9. CASE BeginEnd(t.run) /\ journal[t.run] # NoLine
        <4>1. copy' = journal /\ Releasing(t.run, journal, t.run, "save") /\ UNCHANGED finish
          BY <3>9 DEF BeginEnd
        <4>2. journal \in Journal
          BY <1>0 DEF TypeOK
        <4>3. QED BY <3>3, <3>7, <3>9, <4>1, <4>2
      <3>10. QED BY <2>5, <3>4, <3>5, <3>6, <3>8, <3>9
         DEF Begin, BeginTake, BeginRenew, BeginEnd, BeginFinish
    <2>6. ASSUME NEW t \in Task PROVE ~ Unreached(t)
      BY <1>2 DEF Unreached, Fail
    <2>7. ASSUME NEW r \in Run, RenewFires(r) \/ EndRun(r) \/ Lapse(r) PROVE Untroubled'
      BY <2>3, <2>7 DEF RenewFires, EndRun, Lapse, Untroubled, Assigning
    <2>8. ASSUME NEW s \in Set, AdminAssigns(s) \/ AdminRemoves(s) PROVE Untroubled'
      <3>1. admin'.taken = admin.taken
        BY <1>0, <2>8 DEF AdminAssigns, AdminRemoves, TypeOK
      <3>2. QED BY <2>3, <2>8, <3>1 DEF AdminAssigns, AdminRemoves, Untroubled, Assigning
    <2>9. QED BY <1>4, <2>1, <2>4, <2>5, <2>6, <2>7, <2>8 DEF Next
  <1>5. QED BY <1>3, <1>4

-----------------------------------------------------------------------------
(* What the steps change.                                                  *)

(* An assignment is a run's because its holder made it, of the set its line *)
(* names first.                                                             *)
LEMMA OrgChanges ==
    ASSUME Types, Held, [Next]_vars, NEW s \in Set, org'[s] \in Run, org'[s] # org[s]
    PROVE  \E t \in holders :
              /\ at = "assign" /\ copy[t.run].assigning # <<>> /\ s = Head(copy[t.run].assigning)
              /\ org[s] = Nobody /\ org'[s] = t.run
              /\ Create(t) \/ (CreateRefused(t) /\ [by |-> t.run, set |-> s] \in slipped')
  <1> USE DEF lock, faults
  <1>0. org \in [Set -> Run \cup {Admin, Nobody}] /\ Nobody \notin Run /\ Admin \notin Run
    BY RunAssumption DEF Types, TypeOK
  <1>1. ~ UNCHANGED org
    OBVIOUS
  <1>2. ASSUME NEW t \in Task, Step(t) PROVE Create(t) \/ CreateRefused(t)
    <2>1. ASSUME NEW a \in rel.todo, Delete(t, a) PROVE FALSE
      <3>1. a.set \in Set /\ (org' = org \/ org' = [org EXCEPT ![a.set] = Nobody])
        BY <2>1 DEF Types, TypeOK, Delete, Assignment
      <3>2. QED BY <1>0, <3>1
    <2>2. QED BY <1>1, <1>2, <2>1 DEF Step, LookAt, Pass, DeleteRefused, Released, ReadHeld,
          HeldUnread, ReadBack, SaveFirst, SaveNote, SaveUndone, SaveEnd, SaveFinish, SaveRenew
  <1>3. ASSUME NEW t \in Task, Create(t) \/ CreateRefused(t)
        PROVE  /\ t \in holders /\ at = "assign" /\ copy[t.run].assigning # <<>>
               /\ s = Head(copy[t.run].assigning) /\ org[s] = Nobody /\ org'[s] = t.run
               /\ Create(t) \/ (CreateRefused(t) /\ [by |-> t.run, set |-> s] \in slipped')
    <2>1. t \in holders /\ at = "assign" /\ copy[t.run].assigning # <<>>
      BY <1>3 DEF Create, CreateRefused
    <2>2. Head(copy[t.run].assigning) \in Set
      BY <2>1, AssigningLine DEF Assigning
    <2>3. org[Head(copy[t.run].assigning)] = Nobody /\ org' = [org EXCEPT ![Head(copy[t.run].assigning)] = t.run]
      BY <1>1, <1>3 DEF Create, CreateRefused
    <2>4. s = Head(copy[t.run].assigning)
      BY <1>0, <2>2, <2>3
    <2>5. CreateRefused(t) => [by |-> t.run, set |-> s] \in slipped'
      BY <1>1, <2>4 DEF CreateRefused, FailLosing
    <2>6. QED BY <1>0, <1>3, <2>1, <2>2, <2>3, <2>4, <2>5
  <1>4. ASSUME NEW t \in Task PROVE ~ Begin(t) /\ ~ Unreached(t)
    BY <1>1 DEF Begin, BeginTake, BeginRenew, BeginEnd, BeginFinish, Unreached
  <1>5. ASSUME NEW r \in Run PROVE ~ RenewFires(r) /\ ~ EndRun(r) /\ ~ Lapse(r)
    BY <1>1 DEF RenewFires, EndRun, Lapse
  <1>6. ASSUME NEW x \in Set PROVE ~ AdminAssigns(x) /\ ~ AdminRemoves(x)
    BY <1>0 DEF AdminAssigns, AdminRemoves
  <1>7. ASSUME NEW p \in Process PROVE ~ Crash(p)
    BY <1>1 DEF Crash
  <1>8. Next
    BY <1>1 DEF vars
  <1>9. PICK t \in Task : Step(t)
    BY <1>4, <1>5, <1>6, <1>7, <1>8 DEF Next
  <1>10. QED BY <1>2, <1>3, <1>9

(* What is lost stays lost. *)
LEMMA SlippedGrows == ASSUME [Next]_vars PROVE slipped \subseteq slipped'
  <1> USE DEF lock, faults
  <1>1. ASSUME NEW lost, FailLosing(lost) PROVE slipped \subseteq slipped'
    BY <1>1 DEF FailLosing
  <1>2. Fail => slipped \subseteq slipped'
    BY <1>1 DEF Fail
  <1>3. ASSUME NEW r, NEW c, NEW l, NEW then, Releasing(r, c, l, then) PROVE slipped \subseteq slipped'
    BY <1>1, <1>3 DEF Releasing
  <1>4. ASSUME NEW t \in Task, Step(t) PROVE slipped \subseteq slipped'
    BY <1>1, <1>2, <1>3, <1>4 DEF Step, LookAt, Pass, Delete, DeleteRefused, Released, ReadHeld,
          HeldUnread, Create, CreateRefused, ReadBack, SaveFirst, SaveNote, SaveUndone, SaveEnd,
          SaveFinish, SaveRenew
  <1>5. ASSUME NEW t \in Task, Begin(t) \/ Unreached(t) PROVE slipped \subseteq slipped'
    BY <1>1, <1>2, <1>3, <1>5 DEF Begin, BeginTake, BeginRenew, BeginEnd, BeginFinish, Unreached
  <1>6. ASSUME UNCHANGED slipped PROVE slipped \subseteq slipped'
    BY <1>6
  <1>7. QED BY <1>4, <1>5, <1>6 DEF Next, vars, RenewFires, EndRun, Lapse, AdminAssigns, AdminRemoves, Crash

(* The journal is written as its holder has it, and not while it assigns.  *)
LEMMA JournalChanges ==
    ASSUME [Next]_vars
    PROVE  journal' = journal \/ (journal' = copy /\ at \in {"first", "note", "undone", "save"})
  <1> USE DEF lock, faults
  <1>1. ASSUME NEW t \in Task, Step(t)
        PROVE  journal' = journal \/ (journal' = copy /\ at \in {"first", "note", "undone", "save"})
    BY <1>1 DEF Step, LookAt, Pass, Delete, DeleteRefused, Released, ReadHeld,
          HeldUnread, Create, CreateRefused, ReadBack, SaveFirst, SaveNote, SaveUndone, SaveEnd,
          SaveFinish, SaveRenew
  <1>2. ASSUME NEW t \in Task, Begin(t) \/ Unreached(t) PROVE UNCHANGED journal
    BY <1>2 DEF Begin, BeginTake, BeginRenew, BeginEnd, BeginFinish, Unreached
  <1>3. QED BY <1>1, <1>2 DEF Next, vars, RenewFires, EndRun, Lapse, AdminAssigns, AdminRemoves, Crash

(* A release put off remembers what was in hand, and loses nothing of it.  *)
LEMMA FinishChanges ==
    ASSUME Types, Held, [Next]_vars, NEW x \in Run
    PROVE  \/ finish'[x] = finish[x] \/ finish'[x] = NotFinishing
           \/ /\ finish'[x].on /\ ~ finish[x].on /\ finish'[x].gone = {} /\ finish'[x].still = {}
              /\ phase[x] = "ending" /\ UNCHANGED <<journal, copy>>
           \/ /\ finish'[x].on /\ ~ finish[x].on /\ at' = "free"
              /\ finish'[x].gone = rel.removed /\ finish'[x].still = rel.passed \cup rel.left
              /\ \/ at = "undone" /\ \E t \in holders : t.run = x
                 \/ at = "save" /\ phase[x] = "ending"
              /\ UNCHANGED journal /\ copy' = [r \in Run |-> NoLine]
           \/ /\ finish'[x].on = finish[x].on /\ finish'[x].still = finish[x].still
              /\ finish'[x].gone = finish[x].gone \cup rel.removed
              /\ at = "save" /\ at' = "free"
  <1> USE DEF lock, faults
  <1> DEFINE Goal == \/ finish'[x] = finish[x] \/ finish'[x] = NotFinishing
           \/ /\ finish'[x].on /\ ~ finish[x].on /\ finish'[x].gone = {} /\ finish'[x].still = {}
              /\ phase[x] = "ending" /\ UNCHANGED <<journal, copy>>
           \/ /\ finish'[x].on /\ ~ finish[x].on /\ at' = "free"
              /\ finish'[x].gone = rel.removed /\ finish'[x].still = rel.passed \cup rel.left
              /\ \/ at = "undone" /\ \E t \in holders : t.run = x
                 \/ at = "save" /\ phase[x] = "ending"
              /\ UNCHANGED journal /\ copy' = [r \in Run |-> NoLine]
           \/ /\ finish'[x].on = finish[x].on /\ finish'[x].still = finish[x].still
              /\ finish'[x].gone = finish[x].gone \cup rel.removed
              /\ at = "save" /\ at' = "free"
  <1>0. finish \in [Run -> Finishing]
    BY DEF Types, TypeOK
  <1>1. ASSUME NEW r \in Run, NEW gone, NEW still, FinishLater(r, gone, still)
        PROVE  \/ finish'[x] = finish[x]
               \/ /\ x = r /\ ~ finish[x].on
                  /\ finish'[x].on /\ finish'[x].gone = gone /\ finish'[x].still = still
    <2>1. \/ finish'[x] = finish[x]
          \/ x = r /\ ~ finish[x].on /\ finish'[x] = [on |-> TRUE, gone |-> gone, still |-> still]
      BY <1>0, <1>1 DEF FinishLater
    <2>2. QED BY <2>1
  <1>2. ASSUME UNCHANGED finish PROVE Goal
    BY <1>2
  <1>3. ASSUME NEW t \in Task, SaveUndone(t) \/ SaveEnd(t) PROVE Goal
    <2>1. /\ t \in holders /\ t.run \in Run /\ Leave(t) /\ HolderAt(t)
          /\ at = "undone" \/ (at = "save" /\ t.job = "end")
      BY <1>3, OneHolder DEF SaveUndone, SaveEnd, Task
    <2>2. UNCHANGED finish \/ (FinishLater(t.run, rel.removed, rel.passed \cup rel.left) /\ UNCHANGED journal)
      BY <1>3 DEF SaveUndone, SaveEnd
    <2>3. at' = "free" /\ copy' = [r \in Run |-> NoLine] /\ (at = "save" => phase[t.run] = "ending")
      BY <2>1, LeaveDoes DEF HolderAt
    <2>4. QED BY <1>1, <1>2, <2>1, <2>2, <2>3
  <1>4. ASSUME NEW t \in Task, SaveFinish(t) PROVE Goal
    <2>1. t.run \in Run /\ Leave(t) /\ at = "save"
      BY <1>4 DEF SaveFinish, Task
    <2>2. CASE finish' = [finish EXCEPT ![t.run] = NotFinishing]
      BY <1>0, <2>1, <2>2
    <2>3. CASE finish' = [finish EXCEPT ![t.run].gone = @ \cup rel.removed]
      <3>1. CASE x = t.run
        <4>1. /\ finish'[x].on = finish[x].on /\ finish'[x].still = finish[x].still
              /\ finish'[x].gone = finish[x].gone \cup rel.removed
          BY <1>0, <2>3, <3>1 DEF Finishing
        <4>2. QED BY <2>1, <4>1, LeaveDoes
      <3>2. CASE x # t.run
        BY <1>0, <2>1, <2>3, <3>2
      <3>3. QED BY <3>1, <3>2
    <2>4. QED BY <1>4, <2>2, <2>3 DEF SaveFinish
  <1>5. ASSUME NEW t \in Task, Step(t) PROVE Goal
    BY <1>2, <1>3, <1>4, <1>5 DEF Step, LookAt, Pass, Delete, DeleteRefused, Released, ReadHeld,
          HeldUnread, Create, CreateRefused, ReadBack, SaveFirst, SaveNote, SaveRenew
  <1>6. ASSUME NEW t \in Task, Begin(t) PROVE Goal
    <2>1. t.run \in Run
      BY DEF Task
    <2>2. UNCHANGED finish \/ finish' = [finish EXCEPT ![t.run] = NotFinishing]
      BY <1>6 DEF Begin, BeginTake, BeginRenew, BeginEnd, BeginFinish
    <2>3. QED BY <1>0, <2>1, <2>2
  <1>7. ASSUME NEW t \in Task, Unreached(t) PROVE Goal
    <2>1. t.run \in Run /\ UNCHANGED <<journal, copy>>
      BY <1>7 DEF Task, Unreached
    <2>2. UNCHANGED finish \/ (phase[t.run] = "ending" /\ FinishLater(t.run, {}, {}))
      BY <1>7 DEF Unreached, Wants
    <2>3. QED BY <1>1, <1>2, <2>1, <2>2
  <1>8. ASSUME NEW p \in Process, Crash(p) PROVE Goal
    BY <1>0, <1>8 DEF Crash
  <1>9. QED BY <1>2, <1>5, <1>6, <1>7, <1>8 DEF Next, vars, RenewFires, EndRun, Lapse, AdminAssigns, AdminRemoves

(* The holder that goes on with a lease it has written does not begin anew, *)
(* and a lease is taken once.                                               *)
LEMMA HolderChanges ==
    ASSUME Types, Held, [Next]_vars, NEW u \in holders'
    PROVE  \/ /\ u \notin holders /\ holders = {} /\ (u.job = "take" => phase[u.run] = "idle")
              /\ at' \in {"stale", "save", "release"}
           \/ /\ u \in holders
              /\ Early' \/ at' = "first" => Early \/ at = "first"
              /\ at' = "first" => at \in {"stale", "first"}
              /\ at' \in {"assign", "note"} => Assigning
  <1> USE DEF lock, faults
  <1> DEFINE Same == /\ u \in holders
                     /\ Early' \/ at' = "first" => Early \/ at = "first"
                     /\ at' = "first" => at \in {"stale", "first"}
                     /\ at' \in {"assign", "note"} => Assigning
  <1>0. TypeOK /\ rel \in Release
    BY DEF Types
  <1>1. ASSUME UNCHANGED lock PROVE Same
    BY <1>1 DEF Early, Assigning
  <1>2. ASSUME NEW t \in Task, Leave(t) PROVE FALSE
    BY <1>2, LeaveDoes DEF Held
  <1>3. ASSUME NEW t \in Task, NEW line \in Line, Undo(t, line), holders' = holders PROVE Same
    BY <1>3, UndoDoes DEF Early
  <1>4. ASSUME NEW t \in Task, Create(t) \/ CreateRefused(t) \/ ReadBack(t) PROVE Same
    <2>1. t \in holders /\ at = "assign" /\ copy[t.run] \in Line
      BY <1>4, AssigningLine DEF Create, CreateRefused, ReadBack, Assigning
    <2>2. CASE Create(t)
      BY <2>1, <2>2 DEF Create, Early, Assigning
    <2>3. CASE CreateRefused(t)
      <3>1. Assigned(t.run) \in Line
        BY <2>1, <2>3, AssigningLine DEF CreateRefused, Assigning
      <3>2. QED BY <1>3, <2>3, <3>1 DEF CreateRefused
    <2>4. CASE ReadBack(t)
      BY <1>2, <1>3, <2>1, <2>4 DEF ReadBack
    <2>5. QED BY <1>4, <2>2, <2>3, <2>4
  <1>5. ASSUME NEW t \in Task, SaveFirst(t) \/ SaveNote(t) PROVE Same
    <2>1. t \in holders /\ Assigning /\ copy[t.run] \in Line
      BY <1>5, AssigningLine DEF SaveFirst, SaveNote, Assigning
    <2>2. QED BY <1>2, <1>3, <1>5, <2>1 DEF SaveFirst, SaveNote, Early, Assigning
  <1>6. ASSUME NEW t \in Task, SaveUndone(t) \/ SaveEnd(t) \/ SaveFinish(t) \/ SaveRenew(t) \/ HeldUnread(t)
        PROVE  FALSE
    BY <1>2, <1>6 DEF SaveUndone, SaveEnd, SaveFinish, SaveRenew, HeldUnread
  <1>7. ASSUME NEW t \in Task, ReadHeld(t) PROVE Same
    BY <1>7 DEF ReadHeld, Early, Assigning
  <1>8. ASSUME NEW t \in Task, NEW l \in Run, LookAt(t, l) PROVE Same
    BY <1>8 DEF LookAt, Early, Assigning
  <1>9. ASSUME NEW t \in Task, NEW a \in rel.todo, Pass(t, a) \/ Delete(t, a) \/ DeleteRefused(t, a) PROVE Same
    <2>1. rel'.then = rel.then /\ UNCHANGED <<at, holders>>
      BY <1>0, <1>9 DEF Pass, Delete, DeleteRefused, Release
    <2>2. QED BY <2>1 DEF Early, Assigning
  <1>10. ASSUME NEW t \in Task, Released(t) PROVE Same
    <2>1. rel'.then \in {"none", rel.then} /\ at' = rel.then /\ UNCHANGED holders /\ at = "release"
      BY <1>10 DEF Released, NoRelease
    <2>2. QED BY <1>0, <2>1 DEF Early, Assigning, Release
  <1>11. ASSUME NEW t \in Task, Step(t) PROVE Same
    BY <1>4, <1>5, <1>6, <1>7, <1>8, <1>9, <1>10, <1>11 DEF Step
  <1>12. ASSUME NEW t \in Task, Begin(t)
         PROVE  \/ Same
                \/ /\ u \notin holders /\ holders = {} /\ (u.job = "take" => phase[u.run] = "idle")
                   /\ at' \in {"stale", "save", "release"}
    <2>1. UNCHANGED lock \/ (JournalLock!Take([run |-> t.run, job |-> t.job]) /\ at' \in {"stale", "save", "release"})
      BY <1>12 DEF Begin, BeginTake, BeginRenew, BeginEnd, BeginFinish
    <2>2. t.job = "take" => phase[t.run] = "idle"
      BY <1>12 DEF Begin, BeginTake, Wants
    <2>3. JournalLock!Take([run |-> t.run, job |-> t.job]) => holders = {} /\ u = [run |-> t.run, job |-> t.job]
      BY TakeDoes
    <2>4. QED BY <1>1, <2>1, <2>2, <2>3
  <1>13. ASSUME NEW t \in Task, Unreached(t) PROVE Same
    BY <1>1, <1>13 DEF Unreached
  <1>14. ASSUME NEW p \in Process, Crash(p) PROVE Same
    <2>1. UNCHANGED lock \/ holders' = {}
      BY <1>14 DEF Crash, FreeLock
    <2>2. QED BY <1>1, <2>1
  <1>15. ASSUME UNCHANGED vars PROVE Same
    BY <1>1, <1>15 DEF vars
  <1>16. QED BY <1>1, <1>11, <1>12, <1>13, <1>14, <1>15 DEF Next, RenewFires, EndRun, Lapse, AdminAssigns, AdminRemoves

(* No run goes back to its beginning. *)
LEMMA StartedStays ==
    ASSUME Types, Held, [Next]_vars, NEW r \in Run, Started(r)
    PROVE  Started(r)'
  <1> USE DEF lock, faults
  <1>0. phase \in [Run -> {"idle", "taking", "writing", "ending", "done", "refused", "gone"}]
    BY DEF Types, TypeOK
  <1>1. phase'[r] # "idle"
    <2>1. ASSUME NEW x \in Run, NEW v \in {"taking", "writing", "ending", "done", "refused", "gone"},
                 phase' = [phase EXCEPT ![x] = v]
          PROVE  phase'[r] # "idle"
      BY <1>0, <2>1 DEF Started
    <2>2. ASSUME UNCHANGED phase PROVE phase'[r] # "idle"
      BY <2>2 DEF Started
    <2>3. ASSUME NEW t \in Task, Step(t) PROVE phase'[r] # "idle"
      <3>1. t.run \in Run
        BY DEF Task
      <3>2. \/ UNCHANGED phase
            \/ \E v \in {"taking", "writing", "ending", "done", "refused", "gone"} :
                  phase' = [phase EXCEPT ![t.run] = v]
        BY <2>3 DEF Step, LookAt, Pass, Delete, DeleteRefused, Released, ReadHeld,
          HeldUnread, Create, CreateRefused, ReadBack, SaveFirst, SaveNote, SaveUndone, SaveEnd,
          SaveFinish, SaveRenew
      <3>3. QED BY <2>1, <2>2, <3>1, <3>2
    <2>4. ASSUME NEW t \in Task, Begin(t) \/ Unreached(t) PROVE phase'[r] # "idle"
      <3>1. t.run \in Run
        BY DEF Task
      <3>2. \/ UNCHANGED phase
            \/ \E v \in {"taking", "writing", "ending", "done", "refused", "gone"} :
                  phase' = [phase EXCEPT ![t.run] = v]
        BY <2>4 DEF Begin, BeginTake, BeginRenew, BeginEnd, BeginFinish, Unreached
      <3>3. QED BY <2>1, <2>2, <3>1, <3>2
    <2>5. ASSUME NEW x \in Run, RenewFires(x) \/ EndRun(x) \/ Lapse(x) PROVE phase'[r] # "idle"
      BY <2>1, <2>2, <2>5 DEF RenewFires, EndRun, Lapse
    <2>6. ASSUME NEW p \in Process, Crash(p) PROVE phase'[r] # "idle"
      BY <2>6 DEF Crash, Started
    <2>7. QED BY <2>2, <2>3, <2>4, <2>5, <2>6 DEF Next, vars, AdminAssigns, AdminRemoves
  <1>2. CASE [run |-> r, job |-> "take"] \in holders'
    BY <1>1, <1>2, HolderChanges DEF Started
  <1>3. QED BY <1>1, <1>2 DEF Started, Early

(* A release finds what the line names, or what the org has.               *)
LEMMA ReleasingFinds ==
    ASSUME NEW r, NEW c, NEW l, NEW then, Releasing(r, c, l, then), NEW a \in rel'.todo
    PROVE  a \in c[l].created \/ org[a.set] = a.by
  <1>1. PICK found \in {{}, InDoubt(c, l)} : rel'.todo = c[l].created \cup found
    BY ReleasingDoes
  <1>2. CASE a \in InDoubt(c, l)
    <2>1. a = [by |-> org[Head(c[l].assigning)], set |-> Head(c[l].assigning)]
      BY <1>2 DEF InDoubt
    <2>2. QED BY <2>1
  <1>3. QED BY <1>1, <1>2

(* What the holder has in memory was known before, or it made it.          *)
LEMMA MemoryChanges ==
    ASSUME Types, Held, [Next]_vars, NEW a \in Assignment, Listed(copy, a)' \/ Handled(a)'
    PROVE  Seen(a) \/ (at = "assign" /\ \E t \in holders : a.by = t.run)
  <1> USE DEF lock, faults
  <1> DEFINE Goal == Seen(a) \/ (at = "assign" /\ \E t \in holders : a.by = t.run)
  <1>0. TypeOK /\ rel \in Release /\ copy \in Journal /\ journal \in Journal
    BY DEF Types, TypeOK
  <1>1. ASSUME UNCHANGED <<copy, rel>> PROVE Goal
    BY <1>1 DEF Seen, Listed, Handled
  <1>2. ASSUME copy' = [r \in Run |-> NoLine], rel' = NoRelease PROVE FALSE
    BY <1>2 DEF Listed, Handled, NoRelease
  <1>3. ASSUME NEW c \in Journal, copy' = c \/ copy' = copy, NEW r, NEW l \in Run, NEW then,
               c[l] # NoLine, Releasing(r, c, l, then), ~ Goal
        PROVE  Listed(c, a) \/ Listed(copy, a)
    <2>1. Handled(a)' => a \in rel'.todo
      BY <1>3, ReleasingDoes DEF Handled
    <2>2. a \in rel'.todo => Listed(c, a)
      BY <1>3, ReleasingFinds DEF Seen, Listed
    <2>3. Listed(copy, a)' => Listed(c, a) \/ Listed(copy, a)
      BY <1>3 DEF Listed
    <2>4. QED BY <2>1, <2>2, <2>3
  <1>4. ASSUME NEW t \in Task, NEW line \in Line, Undo(t, line), copy[t.run] # NoLine,
               line.created = copy[t.run].created
        PROVE  Goal
    <2>1. /\ copy' = [copy EXCEPT ![t.run] = [line EXCEPT !.assigning = <<>>]]
          /\ copy'[t.run].created = copy[t.run].created
          /\ rel'.todo = copy[t.run].created
          /\ rel'.removed = {} /\ rel'.passed = {} /\ rel'.left = {}
      BY <1>4, UndoDoes
    <2>2. t.run \in Run /\ \A l \in Run \ {t.run} : copy'[l] = copy[l]
      BY <1>0, <2>1 DEF Task, Journal
    <2>3. Listed(copy, a)
      BY <1>4, <2>1, <2>2 DEF Listed, Handled
    <2>4. QED BY <2>3 DEF Seen
  <1>5. ASSUME NEW t \in Task, NEW l \in Run, LookAt(t, l) PROVE Goal
    <2>1. CASE isLive(t.run, l, copy[l])
      BY <1>1, <1>5, <2>1 DEF LookAt
    <2>2. CASE ~ isLive(t.run, l, copy[l])
      <3>1. Releasing(t.run, copy, l, "stale") /\ copy' = copy /\ copy[l] # NoLine
        BY <1>5, <2>2 DEF LookAt, Held
      <3>2. QED BY <1>0, <1>3, <3>1 DEF Seen
    <2>3. QED BY <2>1, <2>2
  <1>6. ASSUME NEW t \in Task, NEW b \in rel.todo, Pass(t, b) PROVE Goal
    <2>1. PICK o \in Takers(b) : copy' = [copy EXCEPT ![o].created = @ \cup {b}]
      BY <1>6 DEF Pass
    <2>2. o \in Run /\ copy[o] \in Line
      BY <1>0, <1>6, <2>1, LineOf DEF Pass, Held, Takers, Release
    <2>3. copy'[o].created = copy[o].created \cup {b} /\ \A l \in Run \ {o} : copy'[l] = copy[l]
      BY <1>0, <2>1, <2>2 DEF Journal, Line
    <2>4. rel'.todo = rel.todo \ {b} /\ rel'.passed = rel.passed \cup {b}
          /\ rel'.left = rel.left /\ rel'.removed = rel.removed
      BY <1>0, <1>6 DEF Pass, Release
    <2>5. Listed(copy, a)' => Listed(copy, a) \/ a = b
      BY <2>2, <2>3, NoLineAssumption DEF Listed
    <2>6. QED BY <2>4, <2>5 DEF Seen, Handled
  <1>7. ASSUME NEW t \in Task, NEW b \in rel.todo, Delete(t, b) \/ DeleteRefused(t, b) PROVE Goal
    <2>1. /\ UNCHANGED copy /\ rel'.todo = rel.todo \ {b} /\ rel'.passed = rel.passed
          /\ rel'.left \subseteq rel.left \cup {b} /\ rel'.removed \subseteq rel.removed \cup {b}
      BY <1>0, <1>7 DEF Delete, DeleteRefused, Release
    <2>2. QED BY <2>1 DEF Seen, Handled, Listed
  <1>8. ASSUME NEW t \in Task, Released(t) PROVE Goal
    <2>1. rel' = rel \/ rel' = NoRelease
      BY <1>8 DEF Released
    <2>2. copy' = [copy EXCEPT ![rel.line] = LeftLine]
      BY <1>8 DEF Released
    <2>3. Listed(copy, a)' => Listed(copy, a) \/ a \in rel.left
      BY <1>0, <2>2 DEF Listed, LeftLine, Journal
    <2>4. Handled(a)' => Handled(a)
      BY <2>1 DEF Handled, NoRelease
    <2>5. QED BY <2>3, <2>4 DEF Seen, Handled
  <1>9. ASSUME NEW t \in Task, ReadHeld(t) PROVE Goal
    <2>1. PICK missing \in MissingOf(t.run) : copy' = [copy EXCEPT ![t.run] = FirstLine(missing)]
      BY <1>9 DEF ReadHeld
    <2>2. Listed(copy, a)' => Listed(copy, a)
      BY <1>0, <2>1 DEF Listed, FirstLine, Journal
    <2>3. UNCHANGED rel
      BY <1>9 DEF ReadHeld
    <2>4. QED BY <2>2, <2>3 DEF Seen, Handled
  <1>10. ASSUME NEW t \in Task, Create(t) \/ CreateRefused(t) \/ ReadBack(t) PROVE Goal
    <2>0. t.run \in Run /\ t \in holders /\ at = "assign" /\ copy[t.run] \in Line
          /\ (copy[t.run].assigning # <<>> => Assigned(t.run) \in Line)
      BY <1>10, AssigningLine DEF Create, CreateRefused, ReadBack, Assigning
    <2>1. Assigned(t.run).created = copy[t.run].created /\ copy[t.run] # NoLine
      BY <2>0, NoLineAssumption DEF Assigned, Line
    <2>2. CASE Create(t)
      <3> DEFINE n == [by |-> t.run, set |-> Head(copy[t.run].assigning)]
      <3>1. UNCHANGED rel /\ Assigned(t.run) \in Line
        BY <2>0, <2>2 DEF Create
      <3>2. copy'[t.run] \in {Assigned(t.run), [Assigned(t.run) EXCEPT !.created = @ \cup {n}]}
            /\ \A l \in Run \ {t.run} : copy'[l] = copy[l]
        BY <1>0, <2>0, <2>2 DEF Create, Journal
      <3>3. [Assigned(t.run) EXCEPT !.created = @ \cup {n}].created = copy[t.run].created \cup {n}
        BY <2>1, <3>1 DEF Line
      <3>4. Listed(copy, a)' => Listed(copy, a) \/ a = n
        BY <2>0, <2>1, <3>2, <3>3 DEF Listed
      <3>5. QED BY <2>0, <3>1, <3>4 DEF Seen, Handled
    <2>3. CASE CreateRefused(t)
      BY <1>4, <2>0, <2>1, <2>3 DEF CreateRefused
    <2>4. CASE ReadBack(t)
      <3>1. CASE Undo(t, copy[t.run])
        BY <1>4, <2>0, <2>1, <3>1
      <3>2. CASE Leave(t)
        BY <1>2, <3>2, LeaveDoes
      <3>3. QED BY <2>4, <3>1, <3>2 DEF ReadBack
    <2>5. QED BY <1>10, <2>2, <2>3, <2>4
  <1>11. ASSUME NEW t \in Task, SaveFirst(t) \/ SaveNote(t) PROVE Goal
    <2>1. copy[t.run] \in Line /\ copy[t.run] # NoLine
      BY <1>11, AssigningLine, NoLineAssumption DEF SaveFirst, SaveNote, Assigning
    <2>2. UNCHANGED <<copy, rel>> \/ Leave(t) \/ Undo(t, copy[t.run])
      BY <1>11 DEF SaveFirst, SaveNote
    <2>3. QED BY <1>1, <1>2, <1>4, <2>1, <2>2, LeaveDoes
  <1>12. ASSUME NEW t \in Task, SaveUndone(t) \/ SaveEnd(t) \/ SaveFinish(t) \/ SaveRenew(t) \/ HeldUnread(t)
         PROVE  FALSE
    <2>1. Leave(t)
      BY <1>12 DEF SaveUndone, SaveEnd, SaveFinish, SaveRenew, HeldUnread
    <2>2. QED BY <1>2, <2>1, LeaveDoes
  <1>13. ASSUME NEW t \in Task, Step(t) PROVE Goal
    BY <1>5, <1>6, <1>7, <1>8, <1>9, <1>10, <1>11, <1>12, <1>13 DEF Step
  <1>14. ASSUME NEW t \in Task, Begin(t) PROVE Goal
    <2>1. t.run \in Run
      BY DEF Task
    <2>2. UNCHANGED <<copy, rel>> => Goal
      BY <1>1
    <2>3. CASE copy' = journal /\ UNCHANGED rel
      BY <2>3 DEF Seen, Listed, Handled
    <2>4. CASE journal[t.run] # NoLine /\ copy' = journal /\ Releasing(t.run, journal, t.run, "save")
      BY <1>0, <1>3, <2>1, <2>4 DEF Seen
    <2>5. CASE journal[t.run] # NoLine /\ copy' = Remembered(t.run)
               /\ Releasing(t.run, Remembered(t.run), t.run, "save")
      <3>1. Remembered(t.run) \in Journal /\ Remembered(t.run)[t.run] # NoLine
        BY <1>0, <2>1, <2>5, RememberedType, NoLineAssumption
      <3>2. Listed(Remembered(t.run), a) => Listed(journal, a) \/ a \in finish[t.run].still
        BY <1>0, <2>1, <2>5 DEF Listed, Remembered, Journal
      <3>3. a \in finish[t.run].still => Seen(a)
        BY <2>1 DEF Seen, Remembers
      <3>4. QED BY <1>3, <2>1, <2>5, <3>1, <3>2, <3>3 DEF Seen
    <2>6. QED BY <1>14, <2>2, <2>3, <2>4, <2>5 DEF Begin, BeginTake, BeginRenew, BeginEnd, BeginFinish
  <1>15. ASSUME NEW p \in Process, Crash(p) PROVE Goal
    BY <1>1, <1>2, <1>15 DEF Crash, FreeLock
  <1>16. QED BY <1>1, <1>13, <1>14, <1>15
     DEF Next, vars, Unreached, RenewFires, EndRun, Lapse, AdminAssigns, AdminRemoves

(* Nothing is known of the assignments of a run before it is under way.    *)
LEMMA NextUnseen ==
    ASSUME Types, Held, Phases, Unseen, [Next]_vars
    PROVE  Unseen'
  <1>1. SUFFICES ASSUME NEW a \in Assignment, a.by \in Run, Seen(a)' PROVE Started(a.by)'
    BY DEF Unseen
  <1>2. a.set \in Set /\ a = [by |-> a.by, set |-> a.set]
    BY DEF Assignment
  <1>3. Seen(a) \/ (at = "assign" /\ \E t \in holders : a.by = t.run)
    <2>1. CASE org'[a.set] = a.by
      BY <1>1, <1>2, <2>1, OrgChanges DEF Seen
    <2>2. CASE Listed(journal, a)'
      BY <2>2, JournalChanges DEF Seen, Listed
    <2>3. CASE Listed(copy, a)' \/ Handled(a)'
      BY <2>3, MemoryChanges
    <2>4. ASSUME NEW x \in Run, Remembers(x, a)' PROVE Seen(a)
      <3>1. \/ Remembers(x, a) \/ a \in {} \/ Handled(a)
        BY <2>4, FinishChanges DEF Remembers, Handled, NotFinishing
      <3>2. QED BY <3>1 DEF Seen
    <2>5. QED BY <1>1, <2>1, <2>2, <2>3, <2>4 DEF Seen
  <1>4. CASE Seen(a)
    BY <1>1, <1>4, StartedStays DEF Unseen
  <1>5. ASSUME at = "assign", NEW t \in holders, a.by = t.run PROVE Started(a.by)
    <2>1. t \in Task /\ t.job \in Job /\ HolderAt(t)
      BY OneHolder DEF Types, TypeOK, Task
    <2>2. t.job = "take" /\ phase[t.run] = "taking"
      BY <1>5, <2>1 DEF HolderAt, Job
    <2>3. QED BY <1>5, <2>2 DEF Started, Early
  <1>6. QED BY <1>1, <1>3, <1>4, <1>5, StartedStays

-----------------------------------------------------------------------------
(* What is taken back stays so.                                            *)

(* A release is over before the next begins. *)
LEMMA NextClean ==
    ASSUME Types, Held, Clean, [Next]_vars
    PROVE  Clean'
  <1> USE DEF lock, faults
  <1>1. CASE UNCHANGED <<at, rel>>
    BY <1>1 DEF Clean, Assigning
  <1>2. CASE at' \in {"free", "release", "save"}
    BY <1>2 DEF Clean, Assigning
  <1>3. ASSUME NEW t \in Task, Step(t) PROVE Clean'
    <2>1. ASSUME Leave(t) PROVE at' = "free"
      BY <2>1, LeaveDoes
    <2>2. ASSUME NEW line, Undo(t, line) PROVE at' = "release"
      BY <2>2 DEF Undo
    <2>3. CASE Released(t)
      <3>1. /\ at' = rel.then /\ rel.todo = {} /\ rel.then \in {"none", "stale", "undone", "save"}
            /\ rel' = IF rel.then = "stale" THEN NoRelease ELSE rel
        BY <2>3 DEF Released, Types, Release
      <3>2. QED BY <3>1 DEF Clean, Assigning
    <2>4. CASE ReadHeld(t) \/ Create(t)
      BY <2>4 DEF ReadHeld, Create, Clean, Assigning
    <2>5. CASE SaveFirst(t) \/ SaveNote(t)
      BY <1>2, <2>1, <2>2, <2>5 DEF SaveFirst, SaveNote, Clean, Assigning
    <2>6. ASSUME NEW l \in Run, LookAt(t, l) PROVE Clean'
      BY <1>1, <1>2, <2>6 DEF LookAt
    <2>7. ASSUME NEW a \in rel.todo, Pass(t, a) \/ Delete(t, a) \/ DeleteRefused(t, a) PROVE Clean'
      BY <1>2, <2>7 DEF Pass, Delete, DeleteRefused
    <2>8. QED BY <1>2, <1>3, <2>1, <2>2, <2>3, <2>4, <2>5, <2>6, <2>7
       DEF Step, HeldUnread, CreateRefused, ReadBack, SaveUndone, SaveEnd, SaveFinish, SaveRenew
  <1>4. ASSUME NEW t \in Task, Begin(t) PROVE Clean'
    <2>1. ASSUME BeginTake(t.run) PROVE Clean'
      <3>1. holders = {} /\ UNCHANGED rel /\ at' = "stale"
        BY <2>1, TakeDoes DEF BeginTake
      <3>2. QED BY <3>1 DEF Held, Clean
    <2>2. QED BY <1>1, <1>2, <1>4, <2>1 DEF Begin, BeginRenew, BeginEnd, BeginFinish
  <1>5. ASSUME NEW p \in Process, Crash(p) PROVE Clean'
    BY <1>1, <1>2, <1>5 DEF Crash, FreeLock
  <1>6. QED BY <1>1, <1>3, <1>4, <1>5
     DEF Next, vars, Unreached, RenewFires, EndRun, Lapse, AdminAssigns, AdminRemoves

(* What a release deletes the org no longer has. *)
LEMMA RemovedChanges ==
    ASSUME Types, [Next]_vars, NEW a \in rel'.removed
    PROVE  a \in rel.removed \/ (a.by \in Run => org'[a.set] # a.by)
  <1> USE DEF lock, faults
  <1>0. TypeOK /\ rel \in Release /\ Nobody \notin Run
    BY RunAssumption DEF Types
  <1>1. ASSUME UNCHANGED rel PROVE a \in rel.removed
    BY <1>1
  <1>2. ASSUME rel'.removed = {} PROVE FALSE
    BY <1>2
  <1>3. ASSUME NEW t, Leave(t) PROVE FALSE
    BY <1>2, <1>3, LeaveDoes DEF NoRelease
  <1>4. ASSUME NEW r, NEW c, NEW l, NEW then, Releasing(r, c, l, then) PROVE FALSE
    BY <1>2, <1>4, ReleasingDoes
  <1>5. ASSUME NEW t, NEW line, Undo(t, line) PROVE FALSE
    BY <1>2, <1>5 DEF Undo, ReleasingWith
  <1>6. ASSUME NEW t \in Task, NEW b \in rel.todo, Delete(t, b)
        PROVE  a \in rel.removed \/ (a.by \in Run => org'[a.set] # a.by)
    <2>1. rel'.removed = rel.removed \cup {b} /\ b.set \in Set
      BY <1>0, <1>6 DEF Delete, Release, Assignment
    <2>2. IF org[b.set] = b.by THEN org' = [org EXCEPT ![b.set] = Nobody] ELSE org' = org
      BY <1>6 DEF Delete
    <2>3. b.by \in Run => org'[b.set] # b.by
      BY <1>0, <2>1, <2>2 DEF TypeOK
    <2>4. QED BY <2>1, <2>3
  <1>7. ASSUME NEW t \in Task, NEW b \in rel.todo, Pass(t, b) \/ DeleteRefused(t, b)
        PROVE  a \in rel.removed
    <2>1. rel'.removed = rel.removed
      BY <1>0, <1>7 DEF Pass, DeleteRefused, Release
    <2>2. QED BY <2>1
  <1>8. ASSUME NEW t \in Task, Step(t)
        PROVE  a \in rel.removed \/ (a.by \in Run => org'[a.set] # a.by)
    <2>1. Released(t) => a \in rel.removed
      BY <1>2 DEF Released, NoRelease
    <2>2. ASSUME NEW l \in Run, LookAt(t, l) PROVE a \in rel.removed
      BY <1>4, <2>2 DEF LookAt
    <2>3. QED BY <1>1, <1>3, <1>5, <1>6, <1>7, <1>8, <2>1, <2>2
       DEF Step, ReadHeld, HeldUnread, Create, CreateRefused, ReadBack, SaveFirst, SaveNote,
           SaveUndone, SaveEnd, SaveFinish, SaveRenew
  <1>9. ASSUME NEW t \in Task, Begin(t) PROVE a \in rel.removed
    BY <1>1, <1>4, <1>9 DEF Begin, BeginTake, BeginRenew, BeginEnd, BeginFinish
  <1>10. ASSUME NEW p \in Process, Crash(p) PROVE a \in rel.removed
    BY <1>1, <1>2, <1>10 DEF Crash, FreeLock, NoRelease
  <1>11. QED BY <1>1, <1>8, <1>9, <1>10
     DEF Next, vars, Unreached, RenewFires, EndRun, Lapse, AdminAssigns, AdminRemoves

LEMMA NextBack ==
    ASSUME Types, Held, Clean, Back, Hands, [Next]_vars
    PROVE  Back'
  <1>0. TypeOK /\ rel \in Release /\ TypeOK' /\ rel' \in Release
    BY NextTypes DEF Types
  <1>1. ASSUME NEW a \in rel'.removed, a.by \in Run PROVE org'[a.set] # a.by
    <2>1. SUFFICES ASSUME a \in rel.removed, org'[a.set] = a.by PROVE FALSE
      BY <1>1, RemovedChanges
    <2>2. org[a.set] # a.by /\ a.set \in Set
      BY <1>0, <1>1, <2>1 DEF Back, TakenBack, Release, Assignment
    <2>3. at = "assign"
      BY <1>1, <2>1, <2>2, OrgChanges
    <2>4. QED BY <2>1, <2>3 DEF Clean, Assigning, NoRelease
  <1>2. ASSUME NEW x \in Run, NEW a \in finish'[x].gone, a.by \in Run PROVE org'[a.set] # a.by
    <2>1. SUFFICES ASSUME org'[a.set] = a.by PROVE FALSE
      OBVIOUS
    <2>2. a \in finish[x].gone \/ (a \in rel.removed /\ at \in {"undone", "save"})
      BY <1>2, FinishChanges DEF NotFinishing
    <2>3. a.set \in Set /\ org[a.set] # a.by
      BY <1>0, <1>2, <2>2 DEF Back, TakenBack, Release, Assignment, TypeOK, Finishing
    <2>4. at = "assign" /\ \E t \in holders : t.run = a.by
      BY <1>2, <2>1, <2>3, OrgChanges
    <2>5. QED BY <2>2, <2>4 DEF Hands, MadeBy, Assigning
  <1>3. QED BY <1>1, <1>2 DEF Back, TakenBack

-----------------------------------------------------------------------------
(* What a holder made is in its hands.                                     *)

(* The line a holder assigns by only grows. *)
LEMMA LineKept ==
    ASSUME Types, Held, [Next]_vars, NEW t \in holders, t \in holders', Assigning, Assigning'
    PROVE  copy[t.run].created \subseteq copy'[t.run].created
  <1> USE DEF lock, faults
  <1> DEFINE Goal == copy[t.run].created \subseteq copy'[t.run].created
  <1>1. UNCHANGED copy => Goal
    OBVIOUS
  <1>2. holders = {t} /\ at \notin {"free", "stale", "release", "undone", "save"}
    BY OneHolder DEF Assigning
  <1>3. ASSUME NEW u, Leave(u) PROVE FALSE
    BY <1>3, LeaveDoes DEF Assigning
  <1>4. ASSUME NEW u, NEW line, Undo(u, line) PROVE FALSE
    BY <1>4 DEF Undo, Assigning
  <1>5. ASSUME NEW u \in Task, Create(u) PROVE Goal
    <2>1. u = t /\ copy[t.run] \in Line /\ t.run \in Run /\ Assigned(t.run) \in Line
          /\ Assigned(t.run).created = copy[t.run].created
      <3>1. u = t
        BY <1>2, <1>5 DEF Create
      <3>2. copy[t.run] \in Line /\ t.run \in Run /\ Assigned(t.run) \in Line
        BY <1>5, <3>1, AssigningLine DEF Create
      <3>3. QED BY <3>1, <3>2 DEF Assigned, Line
    <2>2. \A n : [Assigned(t.run) EXCEPT !.created = @ \cup {n}].created = copy[t.run].created \cup {n}
      BY <2>1 DEF Line
    <2>3. copy \in Journal
      BY DEF Types, TypeOK
    <2>4. copy'[t.run] \in {Assigned(t.run), [Assigned(t.run) EXCEPT !.created =
             @ \cup {[by |-> t.run, set |-> Head(copy[t.run].assigning)]}]}
      <3>1. \/ copy' = [copy EXCEPT ![t.run] = Assigned(t.run)]
            \/ copy' = [copy EXCEPT ![t.run] = [Assigned(t.run) EXCEPT !.created =
                  @ \cup {[by |-> t.run, set |-> Head(copy[t.run].assigning)]}]]
        BY <1>5, <2>1 DEF Create
      <3>2. QED BY <2>1, <2>3, <3>1 DEF Journal
    <2>5. QED BY <2>1, <2>2, <2>4
  <1>6. ASSUME NEW u \in Task, Step(u) PROVE Goal
    BY <1>1, <1>2, <1>3, <1>4, <1>5, <1>6 DEF Step, LookAt, Pass, Delete, DeleteRefused, Released,
       ReadHeld, HeldUnread, CreateRefused, ReadBack, SaveFirst, SaveNote, SaveUndone, SaveEnd,
       SaveFinish, SaveRenew
  <1>7. ASSUME NEW u \in Task, Begin(u) PROVE Goal
    <2>1. \A v : ~ JournalLock!Take(v)
      BY <1>2, TakeDoes
    <2>2. QED BY <1>1, <1>7, <2>1 DEF Begin, BeginTake, BeginRenew, BeginEnd, BeginFinish
  <1>8. ASSUME NEW p \in Process, Crash(p) PROVE Goal
    BY <1>1, <1>8 DEF Crash, FreeLock
  <1>9. QED BY <1>1, <1>6, <1>7, <1>8
     DEF Next, vars, Unreached, RenewFires, EndRun, Lapse, AdminAssigns, AdminRemoves

(* A holder that assigns has in its line all it made. *)
LEMMA NextMadeBy ==
    ASSUME Types, Held, Phases, Unseen, Clean, Hands, [Next]_vars, NEW t \in holders', Assigning'
    PROVE  MadeBy(t.run)'
  <1>0. TypeOK /\ t \in holders /\ t.run \in Run /\ t.job = "take"
    <2>1. t \in holders
      BY HolderChanges DEF Assigning
    <2>2. TypeOK /\ HolderAt(t) /\ t.job \in Job /\ t.run \in Run
      BY <2>1 DEF Types, TypeOK, Task, Held
    <2>3. (at = "stale" /\ at' = "first") \/ Assigning
      BY <2>1, HolderChanges DEF Assigning
    <2>4. QED BY <2>1, <2>2, <2>3 DEF HolderAt, Job, Assigning
  <1>1. at = "stale" \/ Assigning
    BY <1>0, HolderChanges DEF Assigning
  <1>2. ASSUME NEW x \in Run, NEW a \in finish'[x].gone
        PROVE  a \in finish[x].gone
    BY <1>1, <1>2, FinishChanges DEF NotFinishing, Assigning
  <1>3. CASE at = "stale"
    <2>1. ASSUME NEW a \in Assignment, a.by = t.run PROVE ~ Seen(a)
      <3>1. t = [run |-> t.run, job |-> "take"]
        BY <1>0 DEF TypeOK, Task
      <3>2. ~ Started(t.run)
        BY <1>0, <1>3, <3>1 DEF Started, Early
      <3>3. QED BY <1>0, <2>1, <3>2 DEF Unseen
    <2>2. ASSUME NEW s \in Set PROVE org'[s] # t.run
      <3>1. org[s] # t.run
        <4>1. [by |-> t.run, set |-> s] \in Assignment
          BY <1>0 DEF Assignment
        <4>2. ~ Seen([by |-> t.run, set |-> s])
          BY <2>1, <4>1
        <4>3. QED BY <4>2 DEF Seen
      <3>2. QED BY <1>0, <1>3, <3>1, OrgChanges
    <2>3. ASSUME NEW x \in Run, NEW a \in finish'[x].gone PROVE a.by # t.run
      <3>1. a \in finish[x].gone /\ a \in Assignment
        BY <1>0, <1>2, <2>3 DEF TypeOK, Finishing
      <3>2. Seen(a)
        BY <3>1 DEF Seen, Remembers
      <3>3. QED BY <2>1, <3>1, <3>2
    <2>4. QED BY <2>2, <2>3 DEF MadeBy
  <1>4. CASE Assigning
    <2>1. MadeBy(t.run) /\ holders = {t}
      BY <1>0, <1>4, OneHolder DEF Hands
    <2>2. copy[t.run].created \subseteq copy'[t.run].created /\ slipped \subseteq slipped'
      BY <1>0, <1>4, LineKept, SlippedGrows
    <2>3. ASSUME NEW s \in Set, org'[s] = t.run
          PROVE  [by |-> t.run, set |-> s] \in copy'[t.run].created \cup slipped'
      <3>1. CASE org[s] = t.run
        BY <2>1, <2>2, <3>1 DEF MadeBy
      <3>2. CASE org[s] # t.run
        <4>1. /\ at = "assign" /\ copy[t.run].assigning # <<>> /\ s = Head(copy[t.run].assigning)
              /\ org[s] = Nobody
              /\ Create(t) \/ [by |-> t.run, set |-> s] \in slipped'
          BY <1>0, <2>1, <2>3, <3>2, OrgChanges
        <4>2. CASE Create(t)
          <5>1. Assigned(t.run) \in Line /\ copy \in Journal
            BY <1>0, <1>4, <4>1, AssigningLine DEF TypeOK
          <5>2. copy'[t.run] = [Assigned(t.run) EXCEPT !.created = @ \cup {[by |-> t.run, set |-> s]}]
            BY <1>0, <4>1, <4>2, <5>1 DEF Create, Journal
          <5>3. [Assigned(t.run) EXCEPT !.created = @ \cup {[by |-> t.run, set |-> s]}].created
                  = Assigned(t.run).created \cup {[by |-> t.run, set |-> s]}
            BY <5>1 DEF Line
          <5>4. QED BY <5>2, <5>3
        <4>3. QED BY <4>1, <4>2
      <3>3. QED BY <3>1, <3>2
    <2>4. ASSUME NEW x \in Run, NEW a \in finish'[x].gone PROVE a.by # t.run
      BY <1>2, <2>1, <2>4 DEF MadeBy
    <2>5. QED BY <2>3, <2>4 DEF MadeBy
  <1>5. QED BY <1>1, <1>3, <1>4

(* What a holder that undoes made is in its hands, or taken back. *)
LEMMA NextUndoing ==
    ASSUME Types, Held, Phases, Hands, [Next]_vars, NEW t \in holders', Undoing'
    PROVE  Awaited(journal, t.run, InHand)'
  <1> USE DEF lock, faults
  <1> DEFINE r == t.run
             Goal == Awaited(journal, r, InHand)'
  <1>0. TypeOK /\ rel \in Release /\ TypeOK' /\ r \in Run /\ t \in Task /\ Nobody \notin Run
    BY NextTypes, RunAssumption DEF Types, TypeOK, Task
  <1>1. slipped \subseteq slipped'
    BY SlippedGrows
  <1>2. SUFFICES ASSUME journal'[r] # NoLine, journal'[r].assigning # <<>>,
                        org'[Head(journal'[r].assigning)] = r
                 PROVE  [by |-> r, set |-> Head(journal'[r].assigning)] \in InHand' \cup slipped'
    BY DEF Awaited
  <1> DEFINE s == Head(journal'[r].assigning)
             a == [by |-> r, set |-> s]
  <1>3. s \in Set
    BY <1>0, <1>2 DEF TypeOK, Journal, Line
  <1>4. at # "assign" => org[s] = r
    BY <1>0, <1>2, <1>3, OrgChanges
  <1>5. ASSUME UNCHANGED lock, UNCHANGED journal PROVE a \in InHand' \cup slipped'
    <2>1. Undoing /\ InHand' = InHand /\ at # "assign"
      BY <1>5 DEF Undoing, InHand
    <2>2. t \in holders
      BY <1>5
    <2>3. QED BY <1>1, <1>2, <1>4, <1>5, <2>1, <2>2 DEF Hands, Awaited
  <1>6. ASSUME NEW u \in Task, NEW line \in Line, Undo(u, line), u \in holders, UNCHANGED holders,
               UNCHANGED journal, line.created = copy[u.run].created, Assigning,
               org[s] = r \/ a \in slipped'
        PROVE  a \in InHand' \cup slipped'
    <2>1. u = t /\ rel'.todo = copy[r].created /\ MadeBy(r)
      BY <1>6, UndoDoes, OneHolder DEF Hands
    <2>2. QED BY <1>1, <1>3, <1>6, <2>1 DEF MadeBy, InHand
  <1>7. ASSUME NEW u, Leave(u) PROVE FALSE
    BY <1>7, LeaveDoes DEF Held
  <1>8. ASSUME NEW u \in Task, CreateRefused(u) PROVE a \in InHand' \cup slipped'
    <2>1. /\ u \in holders /\ Assigning /\ UNCHANGED <<journal, holders>> /\ at = "assign"
          /\ copy[u.run].assigning # <<>> /\ Undo(u, Assigned(u.run))
      BY <1>8 DEF CreateRefused, Assigning
    <2>2. Assigned(u.run) \in Line /\ Assigned(u.run).created = copy[u.run].created
      <3>1. Assigned(u.run) \in Line /\ copy[u.run] \in Line
        BY <2>1, AssigningLine
      <3>2. QED BY <3>1 DEF Assigned, Line
    <2>3. org[s] = r \/ a \in slipped'
      <3>1. SUFFICES ASSUME org[s] # r PROVE a \in slipped'
        OBVIOUS
      <3>2. \E v \in holders : s = Head(copy[v.run].assigning) /\ r = v.run /\ org[s] = Nobody
        BY <1>0, <1>2, <1>3, <3>1, OrgChanges
      <3>3. u = t
        BY <2>1, OneHolder
      <3>4. CASE Fail /\ UNCHANGED org
        BY <1>2, <3>1, <3>4
      <3>5. CASE FailLosing({[by |-> u.run, set |-> Head(copy[u.run].assigning)]})
        <4>1. [by |-> u.run, set |-> Head(copy[u.run].assigning)] \in slipped'
          BY <3>5 DEF FailLosing
        <4>2. \A v \in holders : v = u
          BY <2>1, OneHolder
        <4>3. QED BY <3>2, <3>3, <4>1, <4>2
      <3>6. QED BY <1>8, <3>4, <3>5 DEF CreateRefused
    <2>4. QED BY <1>6, <2>1, <2>2, <2>3
  <1>9. ASSUME NEW u \in Task, ReadBack(u) \/ SaveNote(u) PROVE a \in InHand' \cup slipped'
    <2>1. u \in holders /\ Assigning /\ UNCHANGED <<holders, journal>> /\ Undo(u, copy[u.run]) /\ org' = org
      <3>1. u \in holders /\ Assigning /\ org' = org
        BY <1>9 DEF ReadBack, SaveNote, Assigning
      <3>2. CASE ReadBack(u)
        BY <1>7, <3>1, <3>2 DEF ReadBack
      <3>3. CASE SaveNote(u)
        BY <3>1, <3>3 DEF SaveNote, Undoing
      <3>4. QED BY <1>9, <3>1, <3>2, <3>3
    <2>2. copy[u.run] \in Line
      BY <2>1, AssigningLine
    <2>3. QED BY <1>2, <1>6, <2>1, <2>2
  <1>10. ASSUME NEW u \in Task, NEW b \in rel.todo, Pass(u, b) \/ Delete(u, b) \/ DeleteRefused(u, b)
         PROVE  a \in InHand' \cup slipped'
    <2>0. /\ rel'.todo = rel.todo \ {b}
          /\ Pass(u, b) => rel'.passed = rel.passed \cup {b} /\ rel'.left = rel.left
          /\ Delete(u, b) => rel'.passed = rel.passed /\ rel'.left = rel.left
          /\ DeleteRefused(u, b) => rel'.passed = rel.passed /\ rel'.left = rel.left \cup {b}
          /\ rel'.then = rel.then
      BY <1>0, <1>10 DEF Pass, Delete, DeleteRefused, Release
    <2>1. /\ UNCHANGED <<at, holders, journal>> /\ at = "release" /\ rel'.then = rel.then
          /\ InHand \subseteq InHand' \cup {b}
          /\ Pass(u, b) \/ DeleteRefused(u, b) => InHand' = InHand
      BY <1>10, <2>0 DEF Pass, Delete, DeleteRefused, InHand
    <2>2. a \in InHand \cup slipped
      BY <1>2, <1>4, <2>1 DEF Hands, Undoing, Awaited
    <2>3. ASSUME Delete(u, b), a = b PROVE FALSE
      <3>1. org' = [org EXCEPT ![s] = Nobody]
        BY <1>4, <2>1, <2>3 DEF Delete
      <3>2. QED BY <1>0, <1>2, <1>3, <3>1 DEF TypeOK
    <2>4. QED BY <1>1, <1>10, <2>1, <2>2, <2>3
  <1>11. ASSUME NEW u \in Task, Released(u) PROVE a \in InHand' \cup slipped'
    <2>1. rel' = rel /\ rel.then = "undone" /\ at = "release" /\ UNCHANGED <<journal, holders>>
      BY <1>0, <1>11 DEF Released, Undoing, Release
    <2>2. QED BY <1>1, <1>2, <1>4, <2>1 DEF Hands, Undoing, Awaited, InHand
  <1>12. ASSUME NEW u \in Task, Step(u) PROVE a \in InHand' \cup slipped'
    <2>1. ASSUME NEW l \in Run, LookAt(u, l) PROVE FALSE
      <3>1. at = "stale" /\ (UNCHANGED at \/ (at' = "release" /\ rel'.then = "stale"))
        BY <2>1, ReleasingDoes DEF LookAt
      <3>2. QED BY <3>1 DEF Undoing
    <2>2. ~ ReadHeld(u) /\ ~ Create(u) /\ ~ SaveFirst(u)
      BY <1>7 DEF ReadHeld, Create, SaveFirst, Undoing
    <2>3. ~ HeldUnread(u) /\ ~ SaveUndone(u) /\ ~ SaveEnd(u) /\ ~ SaveFinish(u) /\ ~ SaveRenew(u)
      BY <1>7 DEF HeldUnread, SaveUndone, SaveEnd, SaveFinish, SaveRenew
    <2>4. QED BY <1>8, <1>9, <1>10, <1>11, <1>12, <2>1, <2>2, <2>3 DEF Step
  <1>13. ASSUME NEW u \in Task, Begin(u) PROVE a \in InHand' \cup slipped'
    <2>1. UNCHANGED journal
      BY <1>13 DEF Begin, BeginTake, BeginRenew, BeginEnd, BeginFinish
    <2>2. UNCHANGED lock \/ at' \in {"stale", "save"} \/ (at' = "release" /\ rel'.then = "save")
      BY <1>13, ReleasingDoes DEF Begin, BeginTake, BeginRenew, BeginEnd, BeginFinish
    <2>3. QED BY <1>5, <2>1, <2>2 DEF Undoing
  <1>14. ASSUME NEW p \in Process, Crash(p) PROVE a \in InHand' \cup slipped'
    <2>1. UNCHANGED journal /\ (UNCHANGED lock \/ holders' = {})
      BY <1>14 DEF Crash, FreeLock
    <2>2. QED BY <1>5, <2>1
  <1>15. QED BY <1>5, <1>12, <1>13, <1>14
     DEF Next, vars, Unreached, RenewFires, EndRun, Lapse, AdminAssigns, AdminRemoves

LEMMA NextHands ==
    ASSUME Types, Held, Phases, Unseen, Clean, Hands, [Next]_vars
    PROVE  Hands'
  BY NextMadeBy, NextUndoing DEF Hands

(* Only a run that takes a lease changes what its line is assigning, but to *)
(* nothing.                                                                 *)
LEMMA AssigningChanges ==
    ASSUME Types, Held, [Next]_vars, NEW r \in Run, phase[r] # "taking",
           copy'[r] # NoLine, copy'[r].assigning # <<>>
    PROVE  \/ copy[r] # NoLine /\ copy[r].assigning = copy'[r].assigning
           \/ journal[r] # NoLine /\ journal[r].assigning = copy'[r].assigning
  <1> USE DEF lock, faults
  <1> DEFINE Goal == \/ copy[r] # NoLine /\ copy[r].assigning = copy'[r].assigning
                     \/ journal[r] # NoLine /\ journal[r].assigning = copy'[r].assigning
  <1>0. TypeOK /\ rel \in Release /\ copy \in Journal /\ journal \in Journal
    BY DEF Types, TypeOK
  <1>1. copy'[r] = copy[r] \/ copy'[r] = journal[r] => Goal
    OBVIOUS
  <1>2. ASSUME NEW t, Leave(t) PROVE FALSE
    BY <1>2, LeaveDoes
  <1>3. ASSUME NEW t \in Task, t \in holders, Early \/ Assigning PROVE t.run # r /\ t.run \in Run
    <2>1. HolderAt(t) /\ t.job \in Job /\ t.run \in Run
      BY <1>3, OneHolder DEF Task
    <2>2. QED BY <1>3, <2>1 DEF HolderAt, Job, Early, Assigning
  <1>4. ASSUME NEW t \in Task, NEW line, Undo(t, line), t \in holders, Assigning PROVE Goal
    BY <1>0, <1>3, <1>4 DEF Undo, Journal
  <1>5. ASSUME NEW t \in Task, NEW a \in rel.todo, Pass(t, a) PROVE Goal
    <2>1. PICK o \in Takers(a) : copy' = [copy EXCEPT ![o].created = @ \cup {a}]
      BY <1>5 DEF Pass
    <2>2. o \in Run /\ copy[o] \in Line /\ copy[o] # NoLine
      BY <1>0, <1>5, <2>1, LineOf DEF Pass, Held, Takers, Release
    <2>3. copy'[o].assigning = copy[o].assigning /\ \A l \in Run \ {o} : copy'[l] = copy[l]
      BY <1>0, <2>1, <2>2 DEF Journal, Line
    <2>4. QED BY <2>2, <2>3
  <1>6. ASSUME NEW t \in Task, Released(t) PROVE Goal
    <2>1. copy' = [copy EXCEPT ![rel.line] = LeftLine]
      BY <1>6 DEF Released
    <2>2. LeftLine = NoLine \/ LeftLine.assigning = <<>>
      BY DEF LeftLine
    <2>3. QED BY <1>0, <2>1, <2>2 DEF Journal
  <1>7. ASSUME NEW t \in Task, ReadHeld(t) PROVE Goal
    <2>1. t.run # r /\ t.run \in Run
      BY <1>3, <1>7 DEF ReadHeld, Early
    <2>2. QED BY <1>0, <1>7, <2>1 DEF ReadHeld, Journal
  <1>8. ASSUME NEW t \in Task, Create(t) PROVE Goal
    <2>1. t.run # r /\ t.run \in Run
      BY <1>3, <1>8 DEF Create, Assigning
    <2>2. QED BY <1>0, <1>8, <2>1 DEF Create, Journal
  <1>9. ASSUME NEW t \in Task, Step(t) PROVE Goal
    <2>1. CreateRefused(t) \/ ReadBack(t) \/ SaveFirst(t) \/ SaveNote(t) => Goal
      BY <1>1, <1>2, <1>4 DEF CreateRefused, ReadBack, SaveFirst, SaveNote, Assigning
    <2>2. QED BY <1>1, <1>2, <1>5, <1>6, <1>7, <1>8, <1>9, <2>1 DEF Step, LookAt, Delete,
       DeleteRefused, HeldUnread, SaveUndone, SaveEnd, SaveFinish, SaveRenew
  <1>10. ASSUME NEW t \in Task, Begin(t) PROVE Goal
    <2>1. copy' \in {copy, journal} \/ (BeginFinish(t.run) /\ journal[t.run] # NoLine)
      BY <1>10 DEF Begin, BeginTake, BeginRenew, BeginEnd, BeginFinish
    <2>2. CASE BeginFinish(t.run) /\ journal[t.run] # NoLine
      <3>1. copy' = Remembered(t.run) /\ t.run \in Run
        BY <2>2 DEF BeginFinish, Task
      <3>2. QED BY <1>0, <1>1, <3>1 DEF Remembered, Journal
    <2>3. QED BY <1>1, <2>1, <2>2
  <1>11. ASSUME NEW p \in Process, Crash(p) PROVE Goal
    BY <1>1, <1>11 DEF Crash, FreeLock
  <1>12. QED BY <1>1, <1>9, <1>10, <1>11
     DEF Next, vars, Unreached, RenewFires, EndRun, Lapse, AdminAssigns, AdminRemoves

(* A release put off remembers what its line is assigning. *)
LEMMA NextLater ==
    ASSUME Types, Held, Phases, Clean, Hands, Later, [Next]_vars
    PROVE  Later'
  <1>0. TypeOK /\ TypeOK' /\ slipped \subseteq slipped'
    BY NextTypes, SlippedGrows DEF Types
  <1>1. SUFFICES ASSUME NEW r \in Run, finish'[r].on,
                        NEW d \in Journal, d = journal' \/ d = copy',
                        d[r] # NoLine, d[r].assigning # <<>>, org'[Head(d[r].assigning)] = r
                 PROVE  [by |-> r, set |-> Head(d[r].assigning)] \in finish'[r].still \cup slipped'
    BY <1>0 DEF Later, Awaited, TypeOK
  <1> DEFINE s == Head(d[r].assigning)
             a == [by |-> r, set |-> s]
  <1>2. s \in Set
    BY <1>0, <1>1 DEF Journal, Line
  <1>3. CASE finish[r].on
    <2>1. phase[r] # "taking"
      BY <1>3 DEF Phases, PhaseOf
    <2>2. \A t \in holders : at # "release" /\ Assigning => t.run # r
      <3>1. ASSUME NEW t \in holders, Assigning PROVE phase[t.run] = "taking"
        <4>1. HolderAt(t) /\ t.job \in Job
          BY <3>1, OneHolder DEF Types, TypeOK, Task
        <4>2. QED BY <3>1, <4>1 DEF HolderAt, Job, Assigning
      <3>2. QED BY <2>1, <3>1
    <2>3. org[s] = r
      BY <1>1, <1>2, <2>2, OrgChanges DEF Assigning
    <2>4. \E e \in {journal, copy} : e[r] # NoLine /\ e[r].assigning = d[r].assigning
      BY <1>1, <2>1, AssigningChanges, JournalChanges
    <2>5. a \in finish[r].still \cup slipped
      BY <1>1, <1>3, <2>3, <2>4 DEF Later, Awaited
    <2>6. finish'[r].still = finish[r].still
      BY <1>1, <1>3, FinishChanges DEF NotFinishing
    <2>7. QED BY <1>0, <2>5, <2>6
  <1>4. CASE ~ finish[r].on
    <2>1. \/ phase[r] = "ending" /\ UNCHANGED <<journal, copy>>
          \/ /\ finish'[r].still = rel.passed \cup rel.left
             /\ \/ at = "undone" /\ \E t \in holders : t.run = r
                \/ at = "save" /\ phase[r] = "ending"
             /\ UNCHANGED journal /\ copy' = [x \in Run |-> NoLine]
      BY <1>1, <1>4, FinishChanges DEF NotFinishing
    <2>2. phase[r] # "ending"
      <3>1. d = journal \/ d = copy
        BY <1>1, <2>1
      <3>2. PhaseOf(r)
        BY DEF Phases
      <3>3. QED BY <1>1, <3>1, <3>2 DEF PhaseOf
    <2>3. /\ finish'[r].still = rel.passed \cup rel.left /\ at = "undone"
          /\ (\E t \in holders : t.run = r) /\ d = journal
      BY <1>1, <2>1, <2>2
    <2>4. org[s] = r
      BY <1>1, <1>2, <2>3, OrgChanges
    <2>5. a \in InHand \cup slipped
      BY <1>1, <2>3, <2>4 DEF Hands, Undoing, Awaited
    <2>6. QED BY <1>0, <2>3, <2>5 DEF InHand, Clean
  <1>5. QED BY <1>3, <1>4

-----------------------------------------------------------------------------
(* The journal leads to what is assigned.                                  *)

(* On disk, in the terms of memory. *)
LEMMA NamedByLine ==
    ASSUME NothingForgotten, NEW s \in Set, org[s] \in Run
    PROVE  Own(s) \in slipped \/ \E l \in Run : ByLine(journal, l, Own(s))
  BY DEF NothingForgotten, Named, Own, ByLine

(* A release that begins has in hand what only its line leads to. *)
LEMMA ReleasingTraces ==
    ASSUME Types, NEW r, NEW c \in Journal, NEW l \in Run, NEW then, Releasing(r, c, l, then),
           NEW s \in Set, org[s] \in Run, NEW k \in Run, ByLine(c, k, Own(s))
    PROVE  \/ Own(s) \in slipped' \/ Own(s) \in rel'.todo
           \/ \E o \in Run \ {l} : ByLine(c, o, Own(s))
  <1> USE DEF faults
  <1>1. CASE k # l
    BY <1>1
  <1>2. CASE Own(s) \in c[l].created
    BY <1>2, ReleasingDoes
  <1>3. CASE k = l /\ Own(s) \notin c[l].created
    <2>1. Own(s).by = l /\ c[l].assigning # <<>> /\ Head(c[l].assigning) = s
      BY <1>3 DEF ByLine, Own
    <2>2. CASE \E o \in Run \ {l} : c[o] # NoLine /\ Own(s) \in c[o].created
      BY <2>2 DEF ByLine
    <2>3. CASE ~ \E o \in Run \ {l} : c[o] # NoLine /\ Own(s) \in c[o].created
      <3>1. Own(s) \in InDoubt(c, l)
        <4>1. org[s] # Nobody
          BY RunAssumption
        <4>2. QED BY <2>1, <2>3, <4>1 DEF InDoubt, Own
      <3>2. CASE ReleasingWith(r, c, l, InDoubt(c, l), then)
        BY <3>1, <3>2 DEF ReleasingWith
      <3>3. CASE FailLosing(InDoubt(c, l))
        BY <3>1, <3>3 DEF FailLosing
      <3>4. QED BY <2>1, <3>2, <3>3 DEF Releasing
    <2>4. QED BY <2>2, <2>3
  <1>4. QED BY <1>1, <1>2, <1>3

(* A lease's undoing has in hand all its run made. *)
LEMMA UndoTraces ==
    ASSUME Types, Held, NEW t \in Task, t \in holders, Assigning, MadeBy(t.run),
           NEW line \in Line, Undo(t, line), line.created = copy[t.run].created,
           NEW s \in Set, org[s] \in Run, Own(s)' = Own(s), slipped \subseteq slipped', Traced(Own(s))
    PROVE  Traced(Own(s))'
  <1>0. t.run \in Run /\ copy \in Journal /\ copy[t.run] # NoLine
    BY AssigningLine, NoLineAssumption DEF Types, TypeOK
  <1>1. at' = "release" /\ rel'.line = t.run /\ rel'.todo = copy[t.run].created
        /\ copy' = [copy EXCEPT ![t.run] = [line EXCEPT !.assigning = <<>>]]
    BY UndoDoes
  <1>2. CASE Own(s) \in slipped
    BY <1>2 DEF Traced
  <1>3. CASE Own(s).by = t.run
    <2>1. Own(s) \in copy[t.run].created \cup slipped
      BY <1>3 DEF MadeBy, Own
    <2>2. QED BY <1>1, <2>1 DEF Traced
  <1>4. CASE Own(s).by # t.run /\ Own(s) \notin slipped
    <2>1. PICK l \in Run : ByLine(copy, l, Own(s))
      BY <1>4 DEF Traced, Assigning
    <2>2. CASE l = t.run
      BY <1>1, <1>4, <2>1, <2>2 DEF ByLine, Traced
    <2>3. CASE l # t.run
      <3>1. copy'[l] = copy[l]
        BY <1>0, <1>1, <2>3 DEF Journal
      <3>2. ByLine(copy', l, Own(s)')
        BY <2>1, <3>1 DEF ByLine
      <3>3. QED BY <1>1, <2>3, <3>2 DEF Traced
    <2>4. QED BY <2>2, <2>3
  <1>5. QED BY <1>2, <1>3, <1>4

(* Every assignment of a run is led to by the journal in memory, or in the *)
(* hands of a release.                                                      *)
LEMMA StepTraces ==
    ASSUME Types, Held, Hands, [Next]_vars, NEW t \in Task, Step(t),
           NEW s \in Set, org[s] \in Run, Own(s)' = Own(s), Traced(Own(s))
    PROVE  Traced(Own(s))'
  <1> USE DEF lock, faults
  <1> DEFINE a == Own(s)
  <1>0. TypeOK /\ rel \in Release /\ copy \in Journal /\ slipped \subseteq slipped' /\ t.run \in Run
    BY SlippedGrows DEF Types, TypeOK, Task
  <1>1. SUFFICES ASSUME a \notin slipped' PROVE Traced(Own(s))'
    BY DEF Traced
  <1>2. t \in holders => HolderAt(t) /\ at # "free" /\ (Assigning => MadeBy(t.run))
    BY OneHolder DEF Hands
  <1>3. at # "free" => \/ at # "release" /\ \E l \in Run : ByLine(copy, l, a)
                       \/ at = "release" /\ \E l \in Run \ {rel.line} : ByLine(copy, l, a)
                       \/ at = "release" /\ a \in rel.todo \cup rel.left
    BY <1>0, <1>1 DEF Traced
  <1>4. Leave(t) => Traced(Own(s))'
    BY LeaveDoes DEF Traced
  <1>5. ASSUME NEW l \in Run, copy'[l] # NoLine, ByLine(copy, l, a),
               copy[l].created \subseteq copy'[l].created,
               copy'[l].assigning = copy[l].assigning
        PROVE  ByLine(copy, l, a)'
    BY <1>5 DEF ByLine
  <1>6. ASSUME NEW l \in Run, ByLine(copy, l, a), copy'[l] = copy[l] PROVE ByLine(copy, l, a)'
    BY <1>6 DEF ByLine
  <1>7. ASSUME NEW line \in Line, Undo(t, line), t \in holders, Assigning,
               line.created = copy[t.run].created
        PROVE  Traced(Own(s))'
    BY <1>0, <1>2, <1>7, UndoTraces
  <1>8. ASSUME NEW l \in Run, LookAt(t, l) PROVE Traced(Own(s))'
    <2>1. at = "stale" /\ copy' = copy /\ copy[l] # NoLine /\ t \in holders
      BY <1>8 DEF LookAt, Held
    <2>2. PICK k \in Run : ByLine(copy, k, a)
      BY <1>2, <1>3, <2>1
    <2>3. CASE UNCHANGED <<at, rel>>
      <3>1. ByLine(copy, k, a)'
        BY <1>6, <2>1, <2>2
      <3>2. QED BY <2>1, <2>3, <3>1 DEF Traced
    <2>4. CASE Releasing(t.run, copy, l, "stale") /\ at' = "release"
      <3>1. a \in rel'.todo \/ \E o \in Run \ {l} : ByLine(copy, o, a)
        BY <1>0, <1>1, <2>2, <2>4, ReleasingTraces
      <3>2. rel'.line = l
        BY <2>4, ReleasingDoes
      <3>3. (\E o \in Run \ {l} : ByLine(copy, o, a)) => \E o \in Run \ {l} : ByLine(copy, o, a)'
        BY <1>6, <2>1
      <3>4. QED BY <2>4, <3>1, <3>2, <3>3 DEF Traced
    <2>5. QED BY <1>8, <2>3, <2>4 DEF LookAt
  <1>9. ASSUME NEW b \in rel.todo, Pass(t, b) PROVE Traced(Own(s))'
    <2>1. PICK o \in Takers(b) : copy' = [copy EXCEPT ![o].created = @ \cup {b}]
      BY <1>9 DEF Pass
    <2>2. o \in Run /\ copy[o] \in Line /\ o # rel.line
      BY <1>0, <1>9, <2>1, LineOf DEF Pass, Held, Takers, Release
    <2>3. /\ copy'[o].created = copy[o].created \cup {b} /\ copy'[o].assigning = copy[o].assigning
          /\ copy'[o] \in Line /\ \A l \in Run \ {o} : copy'[l] = copy[l]
      BY <1>0, <1>9, <2>1, <2>2 DEF Journal, Line, Release
    <2>4. /\ at = "release" /\ at' = "release" /\ rel'.line = rel.line /\ rel'.todo = rel.todo \ {b}
          /\ rel'.left = rel.left
      BY <1>0, <1>9 DEF Pass, Release
    <2>5. ASSUME NEW l \in Run \ {rel.line}, ByLine(copy, l, a) PROVE ByLine(copy, l, a)'
      BY <1>5, <1>6, <2>2, <2>3, <2>5, NoLineAssumption
    <2>6. a = b => ByLine(copy, o, a)'
      BY <2>3, NoLineAssumption DEF ByLine
    <2>7. QED BY <1>3, <2>2, <2>4, <2>5, <2>6 DEF Traced
  <1>10. ASSUME NEW b \in rel.todo, Delete(t, b) \/ DeleteRefused(t, b) PROVE Traced(Own(s))'
    <2>1. /\ at = "release" /\ at' = "release" /\ rel'.line = rel.line /\ copy' = copy
          /\ rel'.todo = rel.todo \ {b}
          /\ Delete(t, b) => rel'.left = rel.left
          /\ DeleteRefused(t, b) => rel'.left = rel.left \cup {b}
      BY <1>0, <1>10 DEF Delete, DeleteRefused, Release
    <2>2. ASSUME Delete(t, b), a = b PROVE FALSE
      <3>1. org' = [org EXCEPT ![s] = Nobody]
        BY <2>2 DEF Delete, Own
      <3>2. org'[s] = org[s]
        BY DEF Own
      <3>3. QED BY <1>0, <3>1, <3>2, RunAssumption DEF TypeOK
    <2>3. ASSUME NEW l \in Run \ {rel.line}, ByLine(copy, l, a) PROVE ByLine(copy, l, a)'
      BY <1>6, <2>1, <2>3
    <2>4. QED BY <1>3, <1>10, <2>1, <2>2, <2>3 DEF Traced
  <1>11. ASSUME Released(t) PROVE Traced(Own(s))'
    <2>1. /\ at = "release" /\ rel.todo = {} /\ at' = rel.then /\ rel.line \in Run /\ t \in holders
          /\ rel.then \in {"stale", "undone", "save"}
      <3>1. /\ at = "release" /\ rel.todo = {} /\ at' = rel.then /\ t \in holders /\ t.job \in Job
        BY <1>11 DEF Released, Task
      <3>2. QED BY <1>2, <3>1 DEF HolderAt, Job, Early, Assigning
    <2>2. copy'[rel.line] = LeftLine /\ \A l \in Run \ {rel.line} : copy'[l] = copy[l]
      BY <1>0, <1>11, <2>1 DEF Released, Journal
    <2>3. ASSUME a \in rel.left PROVE \E l \in Run : ByLine(copy, l, a)'
      <3>1. LeftLine = [over |-> TRUE, assigning |-> <<>>, created |-> rel.left]
        BY <2>3 DEF LeftLine
      <3>2. rel.left \subseteq Assignment
        BY <1>0 DEF Release
      <3>3. LeftLine \in Line
        BY <3>1, <3>2 DEF Line
      <3>4. LeftLine # NoLine /\ a \in LeftLine.created
        BY <2>3, <3>1, <3>3, NoLineAssumption
      <3>5. PICK l \in Run : l = rel.line
        BY <2>1
      <3>6. a' = a
        OBVIOUS
      <3>7. ByLine(copy, l, a)'
        BY <2>2, <3>4, <3>5, <3>6 DEF ByLine
      <3>8. QED BY <3>7
    <2>4. ASSUME NEW l \in Run \ {rel.line}, ByLine(copy, l, a) PROVE ByLine(copy, l, a)'
      BY <1>6, <2>2, <2>4
    <2>5. \E l \in Run : ByLine(copy, l, a)'
      BY <1>3, <2>1, <2>3, <2>4
    <2>6. QED BY <2>1, <2>5 DEF Traced
  <1>12. ASSUME ReadHeld(t) PROVE Traced(Own(s))'
    <2>1. at = "stale" /\ at' = "first" /\ copy[t.run] = NoLine /\ t \in holders
      BY <1>2, <1>12 DEF ReadHeld, HolderAt, Early
    <2>2. \A l \in Run \ {t.run} : copy'[l] = copy[l]
      BY <1>0, <1>12 DEF ReadHeld, Journal
    <2>3. PICK l \in Run : ByLine(copy, l, a)
      BY <1>2, <1>3, <2>1
    <2>4. l # t.run
      BY <2>1, <2>3 DEF ByLine
    <2>5. QED BY <1>6, <2>1, <2>2, <2>3, <2>4 DEF Traced
  <1>13. ASSUME Create(t) PROVE Traced(Own(s))'
    <2>0. at = "assign" /\ at' = "note" /\ t \in holders /\ copy[t.run] \in Line /\ Assigned(t.run) \in Line
      BY <1>13, AssigningLine DEF Create, Assigning
    <2> DEFINE n == [by |-> t.run, set |-> Head(copy[t.run].assigning)]
    <2>1. /\ copy'[t.run] \in {Assigned(t.run), [Assigned(t.run) EXCEPT !.created = @ \cup {n}]}
          /\ \A l \in Run \ {t.run} : copy'[l] = copy[l]
      BY <1>0, <1>13 DEF Create, Journal
    <2>2. copy'[t.run] # NoLine /\ copy[t.run].created \subseteq copy'[t.run].created
      <3>1. Assigned(t.run).created = copy[t.run].created
        BY <2>0 DEF Assigned, Line
      <3>2. [Assigned(t.run) EXCEPT !.created = @ \cup {n}].created = copy[t.run].created \cup {n}
        BY <2>0, <3>1 DEF Line
      <3>3. copy'[t.run] # NoLine
        <4>1. n \in Assignment
          BY <1>0, <1>13, <2>0, AssigningLine DEF Create, Assigning, Assignment
        <4>2. [Assigned(t.run) EXCEPT !.created = @ \cup {n}] \in Line
          BY <2>0, <4>1 DEF Line
        <4>3. QED BY <2>0, <2>1, <4>2, NoLineAssumption
      <3>4. QED BY <2>1, <3>1, <3>2, <3>3
    <2>3. PICK l \in Run : ByLine(copy, l, a)
      BY <1>2, <1>3, <2>0
    <2>4. \E k \in Run : ByLine(copy, k, a)'
      <3>1. CASE l # t.run
        BY <1>6, <2>1, <2>3, <3>1
      <3>2. CASE a.by = t.run
        <4>1. a \in copy[t.run].created
          BY <1>0, <1>1, <1>2, <2>0, <3>2 DEF MadeBy, Own, Assigning
        <4>2. QED BY <1>0, <2>2, <4>1 DEF ByLine
      <3>3. CASE l = t.run /\ a.by # t.run
        BY <2>2, <2>3, <3>3 DEF ByLine
      <3>4. QED BY <3>1, <3>2, <3>3
    <2>5. QED BY <2>0, <2>4 DEF Traced
  <1>14. ASSUME CreateRefused(t) \/ ReadBack(t) \/ SaveNote(t) PROVE Traced(Own(s))'
    <2>1. t \in holders /\ Assigning /\ copy[t.run] \in Line
      BY <1>14, AssigningLine DEF CreateRefused, ReadBack, SaveNote, Assigning
    <2>2. copy[t.run].assigning # <<>> => Assigned(t.run) \in Line /\ Assigned(t.run).created = copy[t.run].created
      <3>1. copy[t.run].assigning # <<>> => Assigned(t.run) \in Line
        BY <2>1, AssigningLine
      <3>2. QED BY <2>1, <3>1 DEF Assigned, Line
    <2>3. CASE CreateRefused(t)
      BY <1>7, <2>1, <2>2, <2>3 DEF CreateRefused
    <2>4. CASE Undo(t, copy[t.run])
      BY <1>7, <2>1, <2>4
    <2>5. CASE at = "note" /\ at' = "assign" /\ copy' = copy
      BY <1>2, <1>3, <1>6, <2>1, <2>5 DEF Traced
    <2>6. QED BY <1>4, <1>14, <2>3, <2>4, <2>5 DEF ReadBack, SaveNote
  <1>15. ASSUME SaveFirst(t) PROVE Traced(Own(s))'
    <2>1. Leave(t) \/ (at = "first" /\ at' = "assign" /\ copy' = copy)
      BY <1>15 DEF SaveFirst
    <2>2. t \in holders
      BY <1>15 DEF SaveFirst
    <2>3. QED BY <1>2, <1>3, <1>4, <1>6, <2>1, <2>2 DEF Traced
  <1>16. QED BY <1>4, <1>8, <1>9, <1>10, <1>11, <1>12, <1>13, <1>14, <1>15
     DEF Step, HeldUnread, SaveUndone, SaveEnd, SaveFinish, SaveRenew

LEMMA BeginTraces ==
    ASSUME Types, Held, Phases, NothingForgotten, Back, Later, NEW t \in Task, Begin(t),
           UNCHANGED org, slipped \subseteq slipped', NEW s \in Set, org[s] \in Run, Traced(Own(s))
    PROVE  Traced(Own(s))'
  <1> USE DEF lock, faults
  <1> DEFINE a == Own(s)
             r == t.run
  <1>0. TypeOK /\ journal \in Journal /\ r \in Run /\ Own(s)' = Own(s)
    BY DEF Types, TypeOK, Task, Own
  <1>1. SUFFICES ASSUME a \notin slipped' PROVE Traced(Own(s))'
    BY <1>0 DEF Traced
  <1>2. PICK k \in Run : ByLine(journal, k, a)
    BY <1>1, NamedByLine
  <1>3. UNCHANGED lock => Traced(Own(s))'
    BY <1>0, <1>1 DEF Traced, ByLine
  <1>4. CASE copy' = journal /\ at' \in {"stale", "save"}
    <2>1. ByLine(copy, k, a)'
      BY <1>0, <1>2, <1>4 DEF ByLine
    <2>2. QED BY <1>4, <2>1 DEF Traced
  <1>5. ASSUME NEW c \in Journal, copy' = c, Releasing(r, c, r, "save"), at' = "release",
               NEW l \in Run, ByLine(c, l, a)
        PROVE  Traced(Own(s))'
    <2>1. a \in rel'.todo \/ \E o \in Run \ {r} : ByLine(c, o, a)
      BY <1>0, <1>1, <1>5, ReleasingTraces
    <2>2. rel'.line = r
      BY <1>5, ReleasingDoes
    <2>3. ASSUME NEW o \in Run \ {r}, ByLine(c, o, a) PROVE ByLine(copy, o, a)'
      BY <1>0, <1>5, <2>3 DEF ByLine
    <2>4. QED BY <1>0, <1>5, <2>1, <2>2, <2>3 DEF Traced
  <1>6. CASE BeginEnd(r) /\ journal[r] # NoLine
    BY <1>0, <1>2, <1>5, <1>6 DEF BeginEnd
  <1>7. CASE BeginFinish(r) /\ journal[r] # NoLine
    <2>1. /\ copy' = Remembered(r) /\ Releasing(r, Remembered(r), r, "save") /\ at' = "release"
          /\ finish[r].on
      BY <1>7 DEF BeginFinish, Wants
    <2>2. Remembered(r) \in Journal /\ Remembered(r)[r] # NoLine
      BY <1>0, <1>7, RememberedType, NoLineAssumption
    <2>3. /\ Remembered(r)[r].created = (journal[r].created \cup finish[r].still) \ finish[r].gone
          /\ \A l \in Run \ {r} : Remembered(r)[l] = journal[l]
      BY <1>0 DEF Remembered, Journal
    <2>4. CASE k # r
      <3>1. ByLine(Remembered(r), k, a)
        BY <1>2, <2>3, <2>4 DEF ByLine
      <3>2. QED BY <1>5, <2>1, <2>2, <3>1
    <2>5. CASE k = r
      <3>1. a \notin finish[r].gone
        BY <1>0 DEF Back, TakenBack, Own
      <3>2. a \in journal[r].created \cup finish[r].still
        <4>1. CASE a \in journal[r].created
          BY <4>1
        <4>2. CASE a.by = r /\ journal[r].assigning # <<>> /\ Head(journal[r].assigning) = a.set
          <5>1. Awaited(journal, r, finish[r].still) /\ a = [by |-> r, set |-> s] /\ org[s] = r /\ a.set = s
            BY <1>0, <2>1, <4>2 DEF Later, Own
          <5>2. QED BY <1>1, <1>7, <4>2, <5>1 DEF Awaited
        <4>3. QED BY <1>2, <2>5, <4>1, <4>2 DEF ByLine
      <3>3. ByLine(Remembered(r), r, a)
        BY <2>2, <2>3, <3>1, <3>2 DEF ByLine
      <3>4. QED BY <1>0, <1>5, <2>1, <2>2, <3>3
    <2>6. QED BY <2>4, <2>5
  <1>8. QED BY <1>3, <1>4, <1>6, <1>7 DEF Begin, BeginTake, BeginRenew, BeginEnd, BeginFinish

LEMMA NextTraces ==
    ASSUME Types, Held, Phases, NothingForgotten, Traces, Back, Hands, Later, [Next]_vars
    PROVE  Traces'
  <1> USE DEF lock, faults
  <1>1. SUFFICES ASSUME NEW s \in Set, org'[s] \in Run PROVE Traced(Own(s))'
    BY DEF Traces
  <1>2. slipped \subseteq slipped'
    BY SlippedGrows
  <1>3. CASE org'[s] # org[s]
    <2>1. PICK t \in holders :
             /\ at = "assign" /\ copy[t.run].assigning # <<>> /\ s = Head(copy[t.run].assigning)
             /\ org[s] = Nobody /\ org'[s] = t.run
             /\ Create(t) \/ (CreateRefused(t) /\ [by |-> t.run, set |-> s] \in slipped')
      BY <1>1, <1>3, OrgChanges
    <2>2. CASE Create(t)
      <3>1. t \in Task /\ t.run \in Run /\ Assigned(t.run) \in Line /\ copy \in Journal
        BY <1>1, <2>1, AssigningLine DEF Types, TypeOK, Assigning
      <3>2. /\ at' = "note"
            /\ copy'[t.run] = [Assigned(t.run) EXCEPT !.created = @ \cup {[by |-> t.run, set |-> s]}]
        BY <2>1, <2>2, <3>1 DEF Create, Journal
      <3>3. /\ [Assigned(t.run) EXCEPT !.created = @ \cup {[by |-> t.run, set |-> s]}].created
                  = Assigned(t.run).created \cup {[by |-> t.run, set |-> s]}
        BY <3>1 DEF Line
      <3>4. copy'[t.run] # NoLine
        <4>1. [by |-> t.run, set |-> s] \in Assignment
          BY <3>1 DEF Assignment
        <4>2. [Assigned(t.run) EXCEPT !.created = @ \cup {[by |-> t.run, set |-> s]}] \in Line
          BY <3>1, <4>1 DEF Line
        <4>3. QED BY <3>2, <4>2, NoLineAssumption
      <3>5. ByLine(copy, t.run, Own(s))'
        BY <2>1, <3>2, <3>3, <3>4 DEF ByLine, Own
      <3>6. QED BY <3>1, <3>2, <3>5 DEF Traced
    <2>3. CASE [by |-> t.run, set |-> s] \in slipped'
      BY <2>1, <2>3 DEF Traced, Own
    <2>4. QED BY <2>1, <2>2, <2>3
  <1>4. CASE org'[s] = org[s]
    <2>1. Own(s)' = Own(s) /\ org[s] \in Run /\ Traced(Own(s))
      BY <1>1, <1>4 DEF Own, Traces
    <2>2. UNCHANGED lock => Traced(Own(s))'
      BY <1>2, <2>1 DEF Traced, ByLine
    <2>3. ASSUME NEW t \in Task, Step(t) PROVE Traced(Own(s))'
      BY <2>1, <2>3, StepTraces
    <2>4. ASSUME NEW t \in Task, Begin(t) PROVE Traced(Own(s))'
      <3>1. UNCHANGED org
        BY <2>4 DEF Begin, BeginTake, BeginRenew, BeginEnd, BeginFinish
      <3>2. QED BY <1>2, <2>1, <2>4, <3>1, BeginTraces
    <2>5. ASSUME NEW p \in Process, Crash(p) PROVE Traced(Own(s))'
      BY <2>2, <2>5 DEF Crash, FreeLock, Traced
    <2>6. QED BY <2>2, <2>3, <2>4, <2>5
       DEF Next, vars, Unreached, RenewFires, EndRun, Lapse, AdminAssigns, AdminRemoves
  <1>5. QED BY <1>3, <1>4

(* What is written leads to what is assigned, and what is assigned was       *)
(* written before.                                                           *)
LEMMA NextNothingForgotten ==
    ASSUME Types, Held, NothingForgotten, Traces, [Next]_vars
    PROVE  NothingForgotten'
  <1>1. SUFFICES ASSUME NEW s \in Set, org'[s] \in Run, Own(s)' \notin slipped'
                 PROVE  \E l \in Run : ByLine(journal, l, Own(s))'
    BY DEF NothingForgotten, Named, Own, ByLine
  <1>2. slipped \subseteq slipped'
    BY SlippedGrows
  <1>3. CASE journal' = journal
    <2>1. CASE org'[s] = org[s]
      <3>1. Own(s)' = Own(s)
        BY <2>1 DEF Own
      <3>2. PICK l \in Run : ByLine(journal, l, Own(s))
        BY <1>1, <1>2, <2>1, <3>1, NamedByLine
      <3>3. QED BY <1>3, <3>1, <3>2 DEF ByLine
    <2>2. CASE org'[s] # org[s]
      <3>1. PICK t \in holders :
               /\ at = "assign" /\ copy[t.run].assigning # <<>> /\ s = Head(copy[t.run].assigning)
               /\ org'[s] = t.run
        BY <1>1, <2>2, OrgChanges
      <3>2. t \in Task /\ HolderAt(t) /\ copy[t.run] # NoLine
        BY <3>1, OneHolder, AssigningLine, NoLineAssumption DEF Types, TypeOK, Assigning
      <3>3. copy = journal
        BY <3>1, <3>2 DEF HolderAt
      <3>4. ByLine(journal, t.run, Own(s))'
        BY <1>3, <3>1, <3>2, <3>3 DEF ByLine, Own
      <3>5. QED BY <1>1, <3>1, <3>4
    <2>3. QED BY <2>1, <2>2
  <1>4. CASE journal' = copy /\ at \in {"first", "note", "undone", "save"}
    <2>1. org'[s] = org[s]
      BY <1>1, <1>4, OrgChanges
    <2>2. Own(s)' = Own(s)
      BY <2>1 DEF Own
    <2>3. PICK l \in Run : ByLine(copy, l, Own(s))
      BY <1>1, <1>2, <1>4, <2>1, <2>2 DEF Traces, Traced
    <2>4. QED BY <1>4, <2>2, <2>3 DEF ByLine
  <1>5. QED BY <1>3, <1>4, JournalChanges

-----------------------------------------------------------------------------
(* The invariant.                                                          *)

LEMMA InitIInv == Init => IInv
  <1> SUFFICES ASSUME Init PROVE IInv
    OBVIOUS
  <1>1. Types
    BY NothingType, FaultAssumption, RunAssumption DEF Init, Types, TypeOK, NoRelease, Release, Journal
  <1>2. Held
    BY DEF Init, Held, Early
  <1>3. Phases
    <2>1. \A r \in Run : Running(r)
      BY RunAssumption DEF Init, Running
    <2>2. QED BY <2>1 DEF Init, Phases, PhaseOf, NotFinishing
  <1>4. Spared /\ QuietWhileWriting
    BY DEF Init, Spared, Writing, QuietWhileWriting
  <1>5. QED BY <1>1, <1>2, <1>3, <1>4 DEF IInv

LEMMA NextIInv == IInv /\ [Next]_vars => IInv'
  BY NextTypes, NextHeld, NextPhases, NextSpared, NextQuiet DEF IInv

LEMMA Invariance == Spec => []IInv
  BY InitIInv, NextIInv, PTL DEF Spec

(* The state keeps its types: the journal's lines, the releases under way   *)
(* and those put off are well formed.                                       *)
THEOREM LeaseTypes == Spec => []TypeOK
  <1>1. IInv => TypeOK
    BY DEF IInv, Types
  <1>2. QED BY <1>1, Invariance, PTL

(* A run whose lease did not run out writes with every set it needs         *)
(* assigned, unless an admin removes it.                                    *)
THEOREM MutedWhileWriting == Spec => []QuietWhileWriting
  <1>1. IInv => QuietWhileWriting
    BY DEF IInv
  <1>2. QED BY <1>1, Invariance, PTL

LEMMA InitTrail == Init => Trail
  <1> SUFFICES ASSUME Init PROVE Trail
    OBVIOUS
  <1>0. \A s \in Set : org[s] \notin Run
    BY RunAssumption DEF Init
  <1>1. NothingForgotten /\ Traces
    BY <1>0 DEF NothingForgotten, Traces
  <1>2. Unseen
    <2>1. ASSUME NEW a \in Assignment, a.by \in Run PROVE ~ Seen(a)
      <3>1. org[a.set] # a.by
        BY <1>0, <2>1 DEF Assignment
      <3>2. QED BY <3>1 DEF Init, Seen, Listed, Handled, Remembers, NoRelease, NotFinishing
    <2>2. QED BY <2>1 DEF Unseen
  <1>3. Clean /\ Back /\ Hands /\ Later
    BY DEF Init, Clean, Assigning, Back, TakenBack, Hands, Later, NoRelease, NotFinishing
  <1>4. QED BY <1>1, <1>2, <1>3 DEF Trail

LEMMA NextTrail == IInv /\ Trail /\ [Next]_vars => Trail'
  BY NextNothingForgotten, NextTraces, NextUnseen, NextClean, NextBack, NextHands, NextLater
     DEF IInv, Trail

(* Nothing a run assigned is forgotten: whatever process dies and whatever  *)
(* write fails, the journal on disk leads to it, unless the org's answer or *)
(* a lookup was lost.                                                       *)
THEOREM JournalLeads == Spec => []NothingForgotten
  <1>1. Init => IInv /\ Trail
    BY InitIInv, InitTrail
  <1>2. IInv /\ Trail /\ [Next]_vars => IInv' /\ Trail'
    BY NextIInv, NextTrail
  <1>3. IInv /\ Trail => NothingForgotten
    BY DEF Trail
  <1>4. QED BY <1>1, <1>2, <1>3, PTL DEF Spec

LEMMA InitKept == Init => Kept
  <1> SUFFICES ASSUME Init PROVE Untroubled
    BY DEF Kept
  <1>1. OfRuns({})
    BY DEF OfRuns
  <1>2. QED BY <1>1 DEF Init, Untroubled, NoRelease, NotFinishing

(* While no process died and no call failed, what an admin assigned is an   *)
(* admin's to remove: no run takes it back.                                 *)
THEOREM AdminsSetsStay == Spec => []AdminsKept
  <1>1. Init => IInv /\ Kept
    BY InitIInv, InitKept
  <1>2. IInv /\ Kept /\ [Next]_vars => IInv' /\ Kept'
    BY NextIInv, NextKept DEF IInv
  <1>3. IInv /\ Kept => AdminsKept
    BY DEF Kept, Untroubled, AdminsKept
  <1>4. QED BY <1>1, <1>2, <1>3, PTL DEF Spec
=============================================================================
