--------------------------- MODULE AutomationProofs ---------------------------
(***************************************************************************)
(* Proofs about pipelines.                                                 *)
(*                                                                         *)
(* TriggerSchedule: whatever the windows know of the plan and however long *)
(* their looks take, one of them at most makes or reports a start, for     *)
(* every number of windows, instants and openings.                         *)
(*                                                                         *)
(* PipelineRun, for every set of pipelines: each step is accounted for, a  *)
(* guarded Sync runs on the nearest approval only, nothing starts once the *)
(* run is stopped, and a budget held for a question is resumed by a        *)
(* handler given up before and by nothing else.                            *)
(***************************************************************************)
EXTENDS TriggerSchedule, PipelineRun, SequenceTheorems, FiniteSetTheorems,
        WellFoundedInduction, TLAPS

(***************************************************************************)
(* The triggers.                                                           *)
(***************************************************************************)

(* What may stand in the plan: an instant the schedule falls due at, the    *)
(* first one past the bound, or nothing.                                    *)
Planned == Due \cup {MaxTime + 1, NoPlan}

(* A plan is one nextRun() gave, so a start a look finds due is one of the  *)
(* schedule's.                                                              *)
PlansAreDue == stored \in Planned /\ known \in [Window -> Planned]

(* The claims of a start that windows keep in memory. *)
KeptOf(d) == {k \in kept : k[3] = d}

(* A start is made or reported for a claim: the one whose file was made, and *)
(* each that a window keeps in its memory.                                   *)
SettledAreClaimed ==
    \A d \in Due :
        /\ IsFiniteSet(KeptOf(d))
        /\ settled[d] <= (IF d \in claimed THEN 1 ELSE 0) + Cardinality(KeptOf(d))

(* So is the refresh, which windows that claimed it are yet to make. *)
RefreshClaimed ==
    /\ IsFiniteSet(refreshing) /\ IsFiniteSet(keptRefresh)
    /\ refreshes + Cardinality(refreshing)
          <= (IF refresh = "claimed" THEN 1 ELSE 0) + Cardinality(keptRefresh)

ScheduleInv ==
    /\ ScheduleTypeOK
    /\ PlansAreDue
    /\ SettledAreClaimed
    /\ RefreshClaimed

-----------------------------------------------------------------------------
(* The least of a set of naturals, and the greatest of a bounded one.       *)

LEMMA NatMin ==
    ASSUME NEW S \in SUBSET Nat, S # {}
    PROVE  \E x \in S : \A y \in S : x <= y
<1> DEFINE R == OpToRel(<, Nat)
<1>1. IsWellFoundedOn(R, Nat)
  BY NatLessThanWellFounded
<1>2. R = {ss \in Nat \X Nat : ss[1] < ss[2]}
  BY DEF OpToRel
<1> HIDE DEF R
<1>3. PICK x \in S : \A y \in S : ~ (<<y, x>> \in R)
  BY <1>1, WFMin
<1>4. ASSUME NEW y \in S PROVE x <= y
  <2>1. ~ (<<y, x>> \in {ss \in Nat \X Nat : ss[1] < ss[2]})
    BY <1>2, <1>3
  <2>2. y \in Nat /\ x \in Nat
    OBVIOUS
  <2> QED BY <2>1, <2>2
<1> QED BY <1>4

LEMMA BoundedMax ==
    ASSUME NEW n \in Nat, NEW S \in SUBSET (0..n), S # {}
    PROVE  \E x \in S : \A y \in S : y <= x
<1> DEFINE T == {n - d : d \in S}
<1>1. T \in SUBSET Nat /\ T # {}
  <2>1. ASSUME NEW d \in S PROVE n - d \in Nat
    OBVIOUS
  <2> QED BY <2>1, Zenon
<1>2. PICK t \in T : \A u \in T : t <= u
  <2> HIDE DEF T
  <2> QED BY <1>1, NatMin
<1>3. PICK x \in S : t = n - x
  OBVIOUS
<1>4. ASSUME NEW y \in S PROVE y <= x
  <2>1. n - y \in T
    OBVIOUS
  <2>2. n - x <= n - y
    BY <1>2, <1>3, <2>1
  <2>3. x \in 0..n /\ y \in 0..n
    OBVIOUS
  <2> HIDE DEF T
  <2> QED BY <2>2, <2>3
<1> QED BY <1>4

LEMMA PlannedType == Planned \subseteq Nat \cup {NoPlan}
<1>1. MaxTime + 1 \in Nat
  BY ScheduleAssumption
<1>2. ASSUME NEW d \in Due PROVE d \in Nat
  BY ScheduleAssumption
<1> QED BY <1>1, <1>2, Zenon DEF Planned

(* nextRun() gives an instant the schedule falls due at, or none before the *)
(* bound.                                                                   *)
LEMMA NextRunPlanned ==
    ASSUME NEW t \in Nat
    PROVE  nextRun(t) \in Due \cup {MaxTime + 1}
<1> DEFINE later == {d \in Due : d > t}
<1>1. CASE later = {}
  BY <1>1 DEF nextRun
<1>2. CASE later # {}
  <2>1. later \in SUBSET Nat
    <3>1. ASSUME NEW d \in later PROVE d \in Nat
      BY ScheduleAssumption
    <3> QED BY <3>1, Zenon
  <2>2. \E x \in later : \A y \in later : x <= y
    <3> HIDE DEF later
    <3> QED BY <1>2, <2>1, NatMin
  <2>3. Earliest(later) \in later
    <3> HIDE DEF later
    <3> QED BY <2>2 DEF Earliest
  <2> QED BY <1>2, <2>3 DEF nextRun
<1> QED BY <1>1, <1>2

(* The starts a look finds due are the schedule's, and the one it makes on  *)
(* time is one of them.                                                     *)
LEMMA DuesOfSchedule ==
    ASSUME NEW w \in Window, ScheduleInv, known[w] # NoPlan, ~ (known[w] > at[w])
    PROVE  Dues(w) \in SUBSET Due /\ OnTime(w) \in SUBSET Dues(w)
<1>1. known[w] \in Due
  BY ScheduleAssumption DEF ScheduleInv, ScheduleTypeOK, PlansAreDue, Planned
<1>2. Dues(w) \in SUBSET Due /\ Dues(w) # {}
  BY <1>1 DEF Dues, dueBetween, DuesBetween
<1>3. Latest(Dues(w)) \in Dues(w)
  <2> DEFINE S == Dues(w)
  <2>1. S \in SUBSET (0..MaxTime) /\ S # {} /\ MaxTime \in Nat
    BY <1>2, ScheduleAssumption
  <2> HIDE DEF S
  <2>2. \E x \in S : \A y \in S : y <= x
    BY <2>1, BoundedMax
  <2>3. Latest(S) \in S
    BY <2>2 DEF Latest
  <2> QED BY <2>3 DEF S
<1> QED BY <1>2, <1>3 DEF OnTime

(* What one start's part in a set counts for. *)
LEMMA CountOfOne ==
    ASSUME NEW d, NEW S
    PROVE  Cardinality({d} \cap S) = IF d \in S THEN 1 ELSE 0
<1>1. CASE d \in S
  <2>1. {d} \cap S = {d}
    BY <1>1
  <2> QED BY <1>1, <2>1, FS_Singleton
<1>2. CASE d \notin S
  <2>1. {d} \cap S = {}
    BY <1>2
  <2> QED BY <1>2, <2>1, FS_EmptySet
<1> QED BY <1>1, <1>2

-----------------------------------------------------------------------------
(* Each operation keeps the invariant.                                      *)

LEMMA InitScheduleInv == ScheduleInit => ScheduleInv
<1> SUFFICES ASSUME ScheduleInit PROVE ScheduleInv
  OBVIOUS
<1> USE ScheduleAssumption DEF ScheduleInit
<1>1. nextRun(0) \in Due \cup {MaxTime + 1}
  BY NextRunPlanned
<1>2. stored \in Planned /\ known \in [Window -> Planned]
  BY <1>1 DEF Planned
<1>3. Planned \subseteq Nat \cup {NoPlan}
  BY PlannedType
<1>4. ScheduleTypeOK
  BY <1>2, <1>3 DEF ScheduleTypeOK
<1>5. SettledAreClaimed /\ RefreshClaimed
  <2>1. \A d \in Due : KeptOf(d) = {}
    BY DEF KeptOf
  <2>2. IsFiniteSet({}) /\ Cardinality({}) = 0
    BY FS_EmptySet
  <2>3. SettledAreClaimed
    <3>1. ASSUME NEW d \in Due
          PROVE  /\ IsFiniteSet(KeptOf(d))
                 /\ settled[d] <= (IF d \in claimed THEN 1 ELSE 0) + Cardinality(KeptOf(d))
      <4>1. KeptOf(d) = {} /\ settled[d] = 0 /\ d \notin claimed
        BY <2>1
      <4> QED BY <2>2, <4>1
    <3> QED BY <3>1 DEF SettledAreClaimed
  <2>4. RefreshClaimed
    BY <2>2 DEF RefreshClaimed
  <2> QED BY <2>3, <2>4
<1> QED BY <1>2, <1>4, <1>5 DEF ScheduleInv, PlansAreDue

(* plan() leaves a plan nextRun() gave. *)
LEMMA PlanStep ==
    ASSUME ScheduleInv, NEW w \in Window, Plan(w)
    PROVE  /\ stored' \in Planned /\ known' \in [Window -> Planned]
           /\ stored' \in Nat \cup {NoPlan} /\ known' \in [Window -> Nat \cup {NoPlan}]
<1>1. nextRun(at[w]) \in Due \cup {MaxTime + 1}
  BY NextRunPlanned, ScheduleAssumption DEF ScheduleInv, ScheduleTypeOK
<1>2. stored' \in Planned /\ known' \in [Window -> Planned]
  BY <1>1 DEF Plan, Planned, ScheduleInv, PlansAreDue
<1>3. Planned \subseteq Nat \cup {NoPlan}
  BY PlannedType
<1> QED BY <1>2, <1>3

(* fire() keeps the types of the run it starts or the entry it records. *)
LEMMA FireStep ==
    ASSUME ScheduleInv, NEW w \in Window, NEW trigger \in {"schedule", "sandbox_refresh"},
           NEW able \in BOOLEAN, NEW starting \in BOOLEAN,
           Fire(w, trigger, able, starting)
    PROVE  /\ run' \in 0..MaxRuns /\ runs' \in 0..MaxRuns
           /\ entries' \subseteq (1..MaxRuns) \X {"schedule", "sandbox_refresh"} \X Window
<1> USE ScheduleAssumption DEF ScheduleInv, ScheduleTypeOK
<1>1. CASE starting /\ able /\ run = 0
  BY <1>1 DEF Fire
<1>2. CASE starting /\ able /\ run # 0
  <2>1. run \in 1..MaxRuns
    BY <1>2
  <2>2. entries' = entries \cup {<<run, trigger, w>>} /\ UNCHANGED <<run, runs>>
    BY <1>2 DEF Fire
  <2> QED BY <2>1, <2>2
<1>3. CASE ~ (starting /\ able)
  <2>1. UNCHANGED runVars
    BY <1>3 DEF Fire
  <2> QED BY <2>1 DEF runVars
<1> QED BY <1>1, <1>2, <1>3

(* What w gets of a start it finds due counts for one, and is claimed.      *)
LEMMA ClaimCounts ==
    ASSUME ScheduleInv, NEW w \in Window, NEW d \in Due, NEW dues \in SUBSET Due,
           NEW failing \in SUBSET dues, NEW taken,
           d \in taken <=> d \in claim(w, dues, failing),
           claimed' = claimed \cup (dues \ failing),
           kept' = kept \cup ({w} \X {opened[w]} \X failing),
           settled'[d] = settled[d] + (IF d \in taken THEN 1 ELSE 0)
    PROVE  /\ IsFiniteSet(KeptOf(d)')
           /\ settled'[d] <= (IF d \in claimed' THEN 1 ELSE 0) + Cardinality(KeptOf(d)')
<1> DEFINE k == <<w, opened[w], d>>
           c == Cardinality(KeptOf(d))
<1>1. /\ IsFiniteSet(KeptOf(d)) /\ settled[d] \in Nat
      /\ settled[d] <= (IF d \in claimed THEN 1 ELSE 0) + c
  BY DEF ScheduleInv, ScheduleTypeOK, SettledAreClaimed
<1>2. c \in Nat
  BY <1>1, FS_CardinalityType
<1>3. CASE d \in failing
  <2>1. KeptOf(d)' = KeptOf(d) \cup {k}
    BY <1>3 DEF KeptOf
  <2>2. /\ IsFiniteSet(KeptOf(d) \cup {k})
        /\ Cardinality(KeptOf(d) \cup {k}) = IF k \in KeptOf(d) THEN c ELSE c + 1
    BY <1>1, FS_AddElement
  <2>3. d \in taken => k \notin KeptOf(d)
    BY <1>3 DEF claim, KeptOf
  <2>4. d \in claimed => d \in claimed'
    OBVIOUS
  <2> HIDE DEF c, k
  <2> QED BY <1>1, <1>2, <2>1, <2>2, <2>3, <2>4
<1>4. CASE d \notin failing
  <2>1. KeptOf(d)' = KeptOf(d)
    BY <1>4 DEF KeptOf
  <2>2. d \in taken => d \notin claimed /\ d \in claimed'
    BY <1>4 DEF claim
  <2>3. d \in claimed => d \in claimed'
    OBVIOUS
  <2>4. IsFiniteSet(KeptOf(d)') /\ Cardinality(KeptOf(d)') = c
    BY <1>1, <2>1
  <2> HIDE DEF c
  <2> QED BY <1>1, <1>2, <2>2, <2>3, <2>4
<1> QED BY <1>3, <1>4

(* A look that finds starts due settles those it gets, and claims them with *)
(* the rest.                                                                *)
LEMMA LookAtStep ==
    ASSUME ScheduleInv, NEW w \in Window, NEW able \in BOOLEAN, LookAt(w, able)
    PROVE  ScheduleInv'
<1> USE DEF LookAt, LookEnds
<1>0. /\ looking' \subseteq open
      /\ at' \in [Window -> 0..MaxTime] /\ closed' \in [Window -> BOOLEAN]
      /\ UNCHANGED <<now, switch, windows, lookAgain, refreshVars>>
  BY ScheduleAssumption DEF ScheduleInv, ScheduleTypeOK
<1>1. CASE known[w] = NoPlan
  <2>1. Plan(w) /\ UNCHANGED <<starts, runVars>>
    BY <1>1
  <2> HIDE DEF LookAt, LookEnds
  <2> QED BY <1>0, <2>1, PlanStep
      DEF ScheduleInv, ScheduleTypeOK, PlansAreDue, SettledAreClaimed, RefreshClaimed, KeptOf,
          starts, runVars, switch, windows, refreshVars
<1>2. CASE known[w] # NoPlan /\ known[w] > at[w]
  <2>1. UNCHANGED <<shared, starts, runVars>>
    BY <1>2
  <2> HIDE DEF LookAt, LookEnds
  <2> QED BY <1>0, <2>1
      DEF ScheduleInv, ScheduleTypeOK, PlansAreDue, SettledAreClaimed, RefreshClaimed, KeptOf,
          shared, starts, runVars, switch, windows, refreshVars
<1>3. CASE known[w] # NoPlan /\ ~ (known[w] > at[w])
  <2>1. PICK failing \in SUBSET Dues(w) :
          LET dues == Dues(w)
              onTime == OnTime(w)
              missed == claim(w, dues \ onTime, failing)
              starting == claim(w, onTime, failing)
          IN /\ Plan(w)
             /\ claimed' = claimed \cup (dues \ failing)
             /\ kept' = kept \cup ({w} \X {opened[w]} \X failing)
             /\ settled' = [d \in Due |-> settled[d]
                                         + Cardinality({d} \cap (missed \cup starting))]
             /\ outcome' = [d \in Due |->
                              IF d \in starting THEN StartOutcome(able)
                              ELSE IF d \in missed THEN IF closed[w] THEN "closed" ELSE "asleep"
                              ELSE outcome[d]]
             /\ covered' = IF missed = {} THEN covered
                           ELSE covered \cup DuesBetween(Latest(dues), at[w])
             /\ Fire(w, "schedule", able, starting # {})
    BY <1>3
  <2> DEFINE onTime == OnTime(w)
             dues == Dues(w)
             missed == claim(w, dues \ onTime, failing)
             starting == claim(w, onTime, failing)
             taken == missed \cup starting
  <2>2. dues \in SUBSET Due /\ onTime \in SUBSET dues
    BY <1>3, DuesOfSchedule
  <2>3. \A d \in Due : d \in taken <=> d \in claim(w, dues, failing)
    BY <2>2 DEF claim
  <2>4. \A d \in Due : settled'[d] = settled[d] + (IF d \in taken THEN 1 ELSE 0)
    <3>1. settled' = [d \in Due |-> settled[d] + Cardinality({d} \cap taken)]
      BY <2>1
    <3> HIDE DEF taken
    <3> QED BY <3>1, CountOfOne
  <2>5. settled' \in [Due -> Nat]
    <3>1. settled' = [d \in Due |-> settled'[d]]
      BY <2>1
    <3>2. \A d \in Due : settled[d] \in Nat
      BY DEF ScheduleInv, ScheduleTypeOK
    <3> HIDE DEF taken
    <3> QED BY <3>1, <3>2, <2>4
  <2>6. SettledAreClaimed'
    <3>1. /\ claimed' = claimed \cup (dues \ failing)
          /\ kept' = kept \cup ({w} \X {opened[w]} \X failing)
      BY <2>1
    <3>2. failing \in SUBSET dues
      BY <2>1
    <3> HIDE DEF LookAt, LookEnds, dues, taken
    <3>3. ASSUME NEW d \in Due
          PROVE  /\ IsFiniteSet(KeptOf(d)')
                 /\ settled'[d] <= (IF d \in claimed' THEN 1 ELSE 0) + Cardinality(KeptOf(d)')
      BY <2>2, <2>3, <2>4, <3>1, <3>2, ClaimCounts
    <3> QED BY <3>3 DEF SettledAreClaimed
  <2>7. claimed' \subseteq Due /\ covered' \subseteq Due /\ kept' \subseteq Window \X Nat \X Due
    <3>1. claimed \subseteq Due /\ covered \subseteq Due /\ kept \subseteq Window \X Nat \X Due
          /\ opened[w] \in Nat
      BY DEF ScheduleInv, ScheduleTypeOK
    <3>2. /\ claimed' = claimed \cup (dues \ failing)
          /\ kept' = kept \cup ({w} \X {opened[w]} \X failing)
          /\ covered' \subseteq covered \cup DuesBetween(Latest(dues), at[w])
      BY <2>1
    <3>3. failing \subseteq Due
      BY <2>1, <2>2
    <3> HIDE DEF LookAt, LookEnds, dues
    <3> QED BY <2>2, <3>1, <3>2, <3>3 DEF DuesBetween
  <2>8. outcome' \in [Due -> {"none", "started", "busy", "cannotRun", "closed", "asleep"}]
    <3>1. StartOutcome(able) \in {"cannotRun", "started", "busy"}
      BY DEF StartOutcome
    <3> HIDE DEF missed, starting
    <3> QED BY <3>1, <2>1 DEF ScheduleInv, ScheduleTypeOK
  <2>9. /\ run' \in 0..MaxRuns /\ runs' \in 0..MaxRuns
        /\ entries' \subseteq (1..MaxRuns) \X {"schedule", "sandbox_refresh"} \X Window
    <3> HIDE DEF starting
    <3> QED BY <2>1, FireStep
  <2>10. /\ stored' \in Planned /\ known' \in [Window -> Planned]
         /\ stored' \in Nat \cup {NoPlan} /\ known' \in [Window -> Nat \cup {NoPlan}]
    BY <2>1, PlanStep
  <2> HIDE DEF LookAt, LookEnds, dues, onTime, missed, starting, taken
  <2>12. ScheduleTypeOK'
    BY <1>0, <2>5, <2>7, <2>8, <2>9, <2>10 DEF ScheduleInv, ScheduleTypeOK, switch, windows, refreshVars
  <2>13. RefreshClaimed'
    BY <1>0 DEF ScheduleInv, RefreshClaimed, refreshVars
  <2> QED BY <2>6, <2>10, <2>12, <2>13 DEF ScheduleInv, PlansAreDue
<1> QED BY <1>1, <1>2, <1>3

(* An element more makes a finite set larger by one at most. *)
LEMMA OneMore ==
    ASSUME NEW S, IsFiniteSet(S), NEW x
    PROVE  /\ IsFiniteSet(S \cup {x})
           /\ Cardinality(S \cup {x}) \in Nat
           /\ Cardinality(S \cup {x}) <= Cardinality(S) + 1
<1>1. /\ IsFiniteSet(S \cup {x})
      /\ Cardinality(S \cup {x}) = IF x \in S THEN Cardinality(S) ELSE Cardinality(S) + 1
  BY FS_AddElement
<1>2. Cardinality(S) \in Nat
  BY FS_CardinalityType
<1> QED BY <1>1, <1>2

(* A window that claims the refresh is yet to make it; one that makes it,   *)
(* or closes, no longer is.                                                 *)
LEMMA RefreshStep ==
    ASSUME ScheduleInv, NEW w \in Window, NEW by \in {"file", "memory"}, NEW able \in BOOLEAN,
           \/ ClaimRefresh(w) \/ ClaimRefreshInMemory(w)
           \/ FireRefresh(w, by, able) \/ Close(w)
    PROVE  RefreshClaimed'
<1> USE DEF refreshVars
<1>1. /\ IsFiniteSet(refreshing) /\ IsFiniteSet(keptRefresh) /\ refreshes \in Nat
      /\ refreshes + Cardinality(refreshing)
            <= (IF refresh = "claimed" THEN 1 ELSE 0) + Cardinality(keptRefresh)
  BY DEF ScheduleInv, ScheduleTypeOK, RefreshClaimed
<1>2. Cardinality(refreshing) \in Nat /\ Cardinality(keptRefresh) \in Nat
  BY <1>1, FS_CardinalityType
<1>3. CASE ClaimRefresh(w)
  <2>1. /\ refresh = "noticed" /\ refresh' = "claimed"
        /\ refreshing' = refreshing \cup {<<w, "file">>}
        /\ UNCHANGED <<keptRefresh, refreshes>>
    BY <1>3 DEF ClaimRefresh
  <2>2. /\ IsFiniteSet(refreshing')
        /\ Cardinality(refreshing') <= Cardinality(refreshing) + 1
        /\ Cardinality(refreshing') \in Nat
    BY <1>1, <1>2, <2>1, OneMore
  <2> QED BY <1>1, <1>2, <2>1, <2>2 DEF RefreshClaimed
<1>4. CASE ClaimRefreshInMemory(w)
  <2>1. /\ <<w, opened[w]>> \notin keptRefresh
        /\ keptRefresh' = keptRefresh \cup {<<w, opened[w]>>}
        /\ refreshing' = refreshing \cup {<<w, "memory">>}
        /\ UNCHANGED <<refresh, refreshes>>
    BY <1>4 DEF ClaimRefreshInMemory
  <2>2. /\ IsFiniteSet(refreshing')
        /\ Cardinality(refreshing') <= Cardinality(refreshing) + 1
        /\ Cardinality(refreshing') \in Nat
    BY <1>1, <1>2, <2>1, OneMore
  <2>3. IsFiniteSet(keptRefresh') /\ Cardinality(keptRefresh') = Cardinality(keptRefresh) + 1
    BY <1>1, <2>1, FS_AddElement
  <2> QED BY <1>1, <1>2, <2>1, <2>2, <2>3 DEF RefreshClaimed
<1>5. CASE FireRefresh(w, by, able)
  <2>1. /\ <<w, by>> \in refreshing
        /\ refreshing' = refreshing \ {<<w, by>>}
        /\ refreshes' = refreshes + 1
        /\ UNCHANGED <<refresh, keptRefresh>>
    BY <1>5 DEF FireRefresh
  <2>2. IsFiniteSet(refreshing') /\ Cardinality(refreshing') = Cardinality(refreshing) - 1
    BY <1>1, <2>1, FS_RemoveElement
  <2> QED BY <1>1, <1>2, <2>1, <2>2 DEF RefreshClaimed
<1>6. CASE Close(w)
  <2>1. /\ refreshing' \subseteq refreshing
        /\ UNCHANGED <<refresh, keptRefresh, refreshes>>
    BY <1>6 DEF Close
  <2>2. IsFiniteSet(refreshing') /\ Cardinality(refreshing') <= Cardinality(refreshing)
    BY <1>1, <2>1, FS_Subset
  <2>3. Cardinality(refreshing') \in Nat
    BY <2>2, FS_CardinalityType
  <2> QED BY <1>1, <1>2, <2>1, <2>2, <2>3 DEF RefreshClaimed
<1> QED BY <1>3, <1>4, <1>5, <1>6

(* Every other step leaves the starts alone. *)
LEMMA NextScheduleInv == ScheduleInv /\ [ScheduleNext]_scheduleVars => ScheduleInv'
<1> SUFFICES ASSUME ScheduleInv, [ScheduleNext]_scheduleVars PROVE ScheduleInv'
  OBVIOUS
<1> USE ScheduleAssumption DEF ScheduleTypeOK, PlansAreDue, SettledAreClaimed, KeptOf,
      shared, windows, look, starts, runVars, switch
<1>0. ScheduleTypeOK /\ PlansAreDue /\ SettledAreClaimed /\ RefreshClaimed
  BY DEF ScheduleInv
<1>1. ASSUME NEW w \in Window, Open(w) PROVE ScheduleInv'
  BY <1>0, <1>1 DEF Open, ScheduleInv, RefreshClaimed, refreshVars
<1>2. ASSUME NEW w \in Window, Close(w) PROVE ScheduleInv'
  <2>1. RefreshClaimed'
    BY <1>2, RefreshStep
  <2>2. ScheduleTypeOK'
    BY <1>0, <1>2 DEF Close, LookEnds
  <2>3. PlansAreDue' /\ SettledAreClaimed'
    BY <1>0, <1>2 DEF Close, Planned
  <2> QED BY <2>1, <2>2, <2>3 DEF ScheduleInv
<1>3. ASSUME NEW w \in Window, Told(w) PROVE ScheduleInv'
  BY <1>0, <1>3 DEF Told, ScheduleInv, RefreshClaimed, refreshVars
<1>4. ASSUME NEW w \in Window, Look(w) PROVE ScheduleInv'
  BY <1>0, <1>4 DEF Look, unplan, Planned, ScheduleInv, RefreshClaimed, refreshVars
<1>5. ASSUME NEW w \in Window, Switch(w) PROVE ScheduleInv'
  BY <1>0, <1>5 DEF Switch, ScheduleInv, RefreshClaimed, refreshVars
<1>6. ASSUME NEW w \in Window, ClaimRefresh(w) \/ ClaimRefreshInMemory(w) PROVE ScheduleInv'
  <2>1. RefreshClaimed'
    BY <1>6, RefreshStep
  <2>2. CASE ClaimRefresh(w)
    <3>1. ScheduleTypeOK'
      BY <1>0, <2>2 DEF ClaimRefresh
    <3>2. PlansAreDue' /\ SettledAreClaimed'
      BY <1>0, <2>2 DEF ClaimRefresh
    <3> QED BY <2>1, <3>1, <3>2 DEF ScheduleInv
  <2>3. CASE ClaimRefreshInMemory(w)
    <3>1. ScheduleTypeOK'
      BY <1>0, <2>3 DEF ClaimRefreshInMemory
    <3>2. PlansAreDue' /\ SettledAreClaimed'
      BY <1>0, <2>3 DEF ClaimRefreshInMemory
    <3> QED BY <2>1, <3>1, <3>2 DEF ScheduleInv
  <2> QED BY <1>6, <2>2, <2>3
<1>7. ASSUME NEW w \in Window, NEW able \in BOOLEAN, LookAt(w, able) PROVE ScheduleInv'
  BY <1>7, LookAtStep
<1>8. ASSUME NEW w \in Window, NEW by \in {"file", "memory"}, NEW able \in BOOLEAN,
             FireRefresh(w, by, able)
      PROVE  ScheduleInv'
  <2>1. /\ run' \in 0..MaxRuns /\ runs' \in 0..MaxRuns
        /\ entries' \subseteq (1..MaxRuns) \X {"schedule", "sandbox_refresh"} \X Window
    BY <1>8, FireStep DEF FireRefresh
  <2>2. RefreshClaimed'
    BY <1>8, RefreshStep
  <2>3. ScheduleTypeOK' /\ PlansAreDue' /\ SettledAreClaimed'
    BY <1>0, <1>8, <2>1 DEF FireRefresh
  <2> QED BY <2>2, <2>3 DEF ScheduleInv
<1>9. CASE Tick
  BY <1>0, <1>9 DEF Tick, ScheduleInv, RefreshClaimed, refreshVars
<1>10. CASE RunIsOver
  BY <1>0, <1>10 DEF RunIsOver, ScheduleInv, RefreshClaimed, refreshVars
<1>11. CASE Refreshed
  BY <1>0, <1>11 DEF Refreshed, ScheduleInv, RefreshClaimed
<1>12. CASE UNCHANGED scheduleVars
  BY <1>0, <1>12 DEF scheduleVars, ScheduleInv, RefreshClaimed, refreshVars
<1> QED BY <1>1, <1>2, <1>3, <1>4, <1>5, <1>6, <1>7, <1>8, <1>9, <1>10, <1>11, <1>12 DEF ScheduleNext

(* The windows of one machine share a plan each of them may know too late,  *)
(* and claim() is all that stands between two of them making one start: in  *)
(* every state each start, and the sandbox refresh, has been made or        *)
(* reported once at most for the file of its claim, and once for each       *)
(* window that, while it was open, had to keep the claim in its memory.     *)
THEOREM OneWindowStartsIt == ScheduleSpec => [](ScheduleTypeOK /\ SettledOnce)
<1>1. ScheduleInv => ScheduleTypeOK /\ SettledOnce
  <2> SUFFICES ASSUME ScheduleInv PROVE SettledOnce
    BY DEF ScheduleInv
  <2>1. ASSUME NEW d \in Due PROVE settled[d] <= 1 + Cardinality(KeptOf(d))
    <3>1. /\ settled[d] \in Nat /\ IsFiniteSet(KeptOf(d))
          /\ settled[d] <= (IF d \in claimed THEN 1 ELSE 0) + Cardinality(KeptOf(d))
      BY DEF ScheduleInv, ScheduleTypeOK, SettledAreClaimed
    <3>2. Cardinality(KeptOf(d)) \in Nat
      BY <3>1, FS_CardinalityType
    <3> QED BY <3>1, <3>2
  <2>2. refreshes <= 1 + Cardinality(keptRefresh)
    <3>1. /\ refreshes \in Nat /\ IsFiniteSet(keptRefresh) /\ IsFiniteSet(refreshing)
          /\ refreshes + Cardinality(refreshing)
                <= (IF refresh = "claimed" THEN 1 ELSE 0) + Cardinality(keptRefresh)
      BY DEF ScheduleInv, ScheduleTypeOK, RefreshClaimed
    <3>2. Cardinality(keptRefresh) \in Nat /\ Cardinality(refreshing) \in Nat
      BY <3>1, FS_CardinalityType
    <3> QED BY <3>1, <3>2
  <2> QED BY <2>1, <2>2 DEF SettledOnce, KeptOf
<1> QED BY <1>1, InitScheduleInv, NextScheduleInv, PTL DEF ScheduleSpec

-----------------------------------------------------------------------------
(***************************************************************************)
(* The runs.                                                               *)
(***************************************************************************)

Running == {"loop", "attempt", "trying"}
Outcomes == {"completed", "unmet", "failed", "stopped"}
StepResult == [step : Nat, status : {"completed", "failed", "skipped", "stopped"},
               decision : Decisions]

(***************************************************************************)
(* The walk: the results name the steps one by one, a run that goes on is  *)
(* right behind them with none of them stopped, and only a run that took   *)
(* every step says it completed.                                           *)
(***************************************************************************)
Walk ==
    /\ results \in Seq(StepResult)
    /\ \A k \in 1..Len(results) : results[k].step = k
    /\ Len(results) <= Len(steps)
    /\ phase \in Running \cup {"idle", "ended"}
    /\ phase = "idle" => results = <<>> /\ index = 1 /\ status = "pending"
    /\ phase \in Running =>
          /\ index = Len(results) + 1 /\ status = "running"
          /\ \A k \in 1..Len(results) : results[k].status # "stopped"
    /\ phase \in {"attempt", "trying"} => index <= Len(steps)
    /\ status \in {"completed", "completed_with_warnings"} =>
          /\ phase = "ended" /\ Len(results) = Len(steps)
          /\ \A k \in 1..Len(results) : results[k].status # "stopped"
          /\ status = "completed" <=> ~HasFailures(results)

(* Only an Approval step's result says approved. *)
OnlyApprovalsApprove ==
    \A k \in 1..Len(results) : results[k].decision = "approved" => steps[k].kind = "approval"

(***************************************************************************)
(* The gate: a question that waits is that of the try in progress, and its *)
(* handler has not returned.                                               *)
(***************************************************************************)
Gate ==
    /\ try \in Nat /\ (phase \in {"attempt", "trying"} => try # 0)
    /\ waiting \in [1..Len(steps) -> Nat]
    /\ \A i \in 1..Len(steps) : waiting[i] # 0 =>
          /\ InStep /\ i = index /\ waiting[i] = try
          /\ Here.kind = "approval" /\ Current \in going
    /\ \A t \in notes : t.step \in 1..Len(steps)

(* A Sync run that went through is that of a step taken, or of the one the *)
(* run is at, and rests on the nearest approval before it.                 *)
Writes ==
    /\ \A w \in wrote : w.step \in 1..Len(steps) /\ w.step <= Len(results) + 1
    /\ GuardedWritesApproved

(* A refused pipeline runs nothing. *)
NothingRan ==
    /\ phase \in {"idle", "ended"}
    /\ going = {} /\ wrote = {} /\ notes = {}
    /\ \A i \in 1..Len(steps) : waiting[i] = 0

Started == Walk /\ OnlyApprovalsApprove /\ Gate /\ Writes
        /\ (phase = "idle" => going = {} /\ wrote = {} /\ notes = {})

IInv ==
    /\ steps \in Pipelines
    /\ IF Accepted THEN Started ELSE NothingRan

(* Results are only ever added at the end. *)
Grows ==
    /\ Len(results) <= Len(results')
    /\ \A k \in 1..Len(results) : results'[k] = results[k]

--------------------------------------------------------------------------------
(* Facts about the sequences and the routes the walk is made of. *)

LEMMA AddedFacts ==
    ASSUME NEW S, NEW r \in Seq(S), NEW x \in S, NEW p \in Seq(S),
           NEW q, q = Append(r, x) \o p
    PROVE  /\ q \in Seq(S) /\ Len(q) = Len(r) + 1 + Len(p)
           /\ \A k \in 1..Len(r) : q[k] = r[k]
           /\ q[Len(r) + 1] = x
           /\ \A k \in Len(r) + 2..Len(q) : q[k] = p[k - (Len(r) + 1)]
<1> DEFINE a == Append(r, x)
<1>1. /\ a \in Seq(S) /\ Len(a) = Len(r) + 1 /\ a[Len(r) + 1] = x
      /\ \A k \in 1..Len(r) : a[k] = r[k]
  BY AppendProperties
<1>0. q = a \o p
  OBVIOUS
<1> HIDE DEF a
<1>2. /\ q \in Seq(S) /\ Len(q) = Len(a) + Len(p)
      /\ \A k \in 1..Len(a) + Len(p) : q[k] = IF k <= Len(a) THEN a[k] ELSE p[k - Len(a)]
  <2>1. /\ a \o p \in Seq(S) /\ Len(a \o p) = Len(a) + Len(p)
        /\ \A k \in 1..Len(a) + Len(p) :
              (a \o p)[k] = IF k <= Len(a) THEN a[k] ELSE p[k - Len(a)]
    BY <1>1, ConcatProperties
  <2> QED BY <1>0, <2>1, Zenon
<1>3. Len(r) \in Nat /\ Len(p) \in Nat
  OBVIOUS
<1> QED BY <1>1, <1>2, <1>3

LEMMA StepsTyped ==
    ASSUME steps \in Pipelines
    PROVE  /\ Len(steps) \in Nat /\ steps \in Seq(Step)
           /\ \A i \in 1..Len(steps) : steps[i] \in Step
<1>1. steps \in Seq(Step)
  BY PipelinesAreSteps
<1> QED BY <1>1

LEMMA SameSteps ==
    ASSUME steps' = steps
    PROVE  Accepted' <=> Accepted
BY DEF Accepted, Refused, RouteProblem, ApprovalBefore

(* A pipeline that is not refused routes ahead, and no further than the end. *)
LEMMA NextIndexAhead ==
    ASSUME steps \in Pipelines, Accepted, index \in 1..Len(steps), NEW o \in Outcomes
    PROVE  NextIndex(o) \in index + 1..Len(steps) + 1
<1>1. /\ Len(steps) \in Nat /\ Here \in Step
  BY StepsTyped DEF Here
<1>2. ~ RouteProblem(index)
  BY DEF Accepted, Refused
<1>3. Target(o) \in {Here.onSuccess, Here.onFailure} /\ Target(o) \in Nat
  BY <1>1 DEF Target, Step
<1>4. Target(o) = 0 \/ Target(o) \in index + 1..Len(steps)
  BY <1>2, <1>3 DEF RouteProblem, Here
<1> QED BY <1>1, <1>3, <1>4 DEF NextIndex

--------------------------------------------------------------------------------
(* The end of a step. *)

(***************************************************************************)
(* What a step's end adds to the results: its own, then one "skipped" for  *)
(* each step it jumps over.                                                *)
(***************************************************************************)
Added(o, d) ==
    /\ results' \in Seq(StepResult) /\ Grows
    /\ Len(results') \in index..Len(steps)
    /\ results'[index] = Result(index, IF o = "unmet" THEN "completed" ELSE o, d)
    /\ \A k \in index + 1..Len(results') : results'[k] = Result(k, "skipped", "none")

LEMMA StepEndsAdds ==
    ASSUME steps \in Pipelines, Accepted, Walk, phase \in Running, index <= Len(steps),
           NEW o \in Outcomes, NEW d \in Decisions, NEW s \in BOOLEAN, NEW b,
           StepEnds(o, d, s, b)
    PROVE  /\ Added(o, d)
           /\ \/ phase' = "ended" /\ status' \in {"cancelled", "failed"}
              \/ /\ phase' = "loop" /\ o # "stopped" /\ UNCHANGED status
                 /\ index' = Len(results') + 1
<1> DEFINE st == IF o = "unmet" THEN "completed" ELSE o
           x == Result(index, st, d)
<1>1. /\ Len(steps) \in Nat /\ Len(results) \in Nat /\ results \in Seq(StepResult)
      /\ index = Len(results) + 1 /\ index \in 1..Len(steps)
  BY StepsTyped DEF Walk
<1>2. x \in StepResult
  BY <1>1 DEF Result, StepResult, Outcomes
<1>3. CASE results' = Append(results, x) /\ phase' = "ended"
             /\ status' \in {"cancelled", "failed"}
  <2>1. /\ results' \in Seq(StepResult) /\ Len(results') = index
        /\ results'[index] = x /\ \A k \in 1..Len(results) : results'[k] = results[k]
    <3> HIDE DEF x
    <3> QED BY <1>1, <1>2, <1>3, AppendProperties
  <2> QED BY <1>1, <1>3, <2>1 DEF Added, Grows
<1>4. CASE /\ results' = Append(results, x) \o PassedOver(NextIndex(o))
           /\ phase' = "loop" /\ index' = NextIndex(o) /\ o # "stopped" /\ UNCHANGED status
  <2> DEFINE n == NextIndex(o)
             p == PassedOver(n)
  <2>1. n \in index + 1..Len(steps) + 1
    BY <1>1, NextIndexAhead
  <2> HIDE DEF n
  <2>2. /\ p \in Seq(StepResult) /\ Len(p) = n - index - 1
        /\ \A k \in 1..Len(p) : p[k] = Result(index + k, "skipped", "none")
    <3>1. n - index - 1 \in Nat
      BY <1>1, <2>1
    <3> DEFINE m == n - index - 1
    <3>2. \A k \in 1..m : Result(index + k, "skipped", "none") \in StepResult
      BY <1>1, <2>1 DEF Result, StepResult, Decisions
    <3>3. p = [k \in 1..m |-> Result(index + k, "skipped", "none")]
      BY DEF PassedOver
    <3> HIDE DEF m, p
    <3>4. m \in Nat
      BY <3>1 DEF m
    <3>5. p \in Seq(StepResult) /\ Len(p) = m
      BY <3>2, <3>3, <3>4
    <3> QED BY <3>3, <3>5 DEF m
  <2> HIDE DEF p, x
  <2>3. results' = Append(results, x) \o p
    BY <1>4 DEF p, n
  <2>4. /\ results' \in Seq(StepResult) /\ Len(results') = Len(results) + 1 + Len(p)
        /\ \A k \in 1..Len(results) : results'[k] = results[k]
        /\ results'[Len(results) + 1] = x
        /\ \A k \in Len(results) + 2..Len(results') : results'[k] = p[k - (Len(results) + 1)]
    <3>1. results \in Seq(StepResult)
      BY <1>1
    <3>2. p \in Seq(StepResult)
      BY <2>2
    <3> QED BY <3>1, <1>2, <3>2, <2>3, AddedFacts
  <2>5. Len(results') = n - 1 /\ Len(results') \in index..Len(steps)
    BY <1>1, <2>1, <2>2, <2>4
  <2>6. ASSUME NEW k \in index + 1..Len(results')
        PROVE  results'[k] = Result(k, "skipped", "none")
    <3>1. k - index \in 1..Len(p) /\ index + (k - index) = k
      BY <1>1, <2>1, <2>2, <2>5
    <3>2. results'[k] = p[k - index]
      BY <1>1, <2>4
    <3> QED BY <2>2, <3>1, <3>2
  <2>7. Added(o, d)
    BY <1>1, <2>4, <2>5, <2>6 DEF Added, Grows, x
  <2>8. index' = Len(results') + 1
    BY <1>4, <2>5, <2>1, <1>1 DEF n
  <2> QED BY <1>4, <2>7, <2>8
<1> QED BY <1>3, <1>4 DEF StepEnds

(* It keeps the walk, and the answers in it. *)
LEMMA StepEndsWalks ==
    ASSUME steps \in Pipelines, Accepted, Walk, OnlyApprovalsApprove, phase \in Running,
           index <= Len(steps), steps' = steps,
           NEW o \in Outcomes, NEW d \in Decisions, NEW s \in BOOLEAN, NEW b,
           d = "approved" => Here.kind = "approval",
           StepEnds(o, d, s, b)
    PROVE  Walk' /\ OnlyApprovalsApprove' /\ Grows /\ phase' \in {"loop", "ended"}
<1>1. /\ Added(o, d)
      /\ \/ phase' = "ended" /\ status' \in {"cancelled", "failed"}
         \/ /\ phase' = "loop" /\ o # "stopped" /\ UNCHANGED status
            /\ index' = Len(results') + 1
  BY StepEndsAdds
<1>2. /\ Len(steps) \in Nat /\ Len(results) \in Nat /\ status = "running"
      /\ index = Len(results) + 1 /\ index \in 1..Len(steps)
  BY StepsTyped DEF Walk
<1>3. ASSUME NEW k \in 1..Len(results')
      PROVE  /\ results'[k].step = k
             /\ o # "stopped" => results'[k].status # "stopped"
             /\ results'[k].decision = "approved" => steps[k].kind = "approval"
  <2>1. k \in 1..Len(results) \/ k = index \/ k \in index + 1..Len(results')
    BY <1>1, <1>2 DEF Added
  <2>2. CASE k \in 1..Len(results)
    BY <1>1, <2>2 DEF Added, Grows, Walk, OnlyApprovalsApprove
  <2>3. CASE k = index
    BY <1>1, <2>3 DEF Added, Result, Here, Outcomes
  <2>4. CASE k \in index + 1..Len(results')
    <3>1. results'[k] = Result(k, "skipped", "none")
      BY <1>1, <2>4 DEF Added
    <3> QED BY <3>1 DEF Result
  <2> QED BY <2>1, <2>2, <2>3, <2>4
<1>4. OnlyApprovalsApprove'
  BY <1>3 DEF OnlyApprovalsApprove
<1>5. Walk'
  <2>1. results' \in Seq(StepResult) /\ Len(results') <= Len(steps)
    BY <1>1, <1>2 DEF Added
  <2> QED BY <1>1, <1>2, <1>3, <2>1 DEF Walk, Running
<1> QED BY <1>1, <1>4, <1>5 DEF Added

--------------------------------------------------------------------------------
(* The gate and the writes. *)

(* No question waits unless an Approval step is being tried. *)
LEMMA QuietGate ==
    ASSUME Gate, ~InStep \/ Here.kind # "approval"
    PROVE  \A i \in 1..Len(steps) : waiting[i] = 0
BY DEF Gate

(* What settles the question leaves none waiting. *)
Cleared ==
    \/ waiting' = waiting /\ (~InStep \/ Here.kind # "approval")
    \/ waiting' = [waiting EXCEPT ![index] = 0]

LEMMA ClearedGate ==
    ASSUME Gate, Cleared, steps' = steps, notes' \subseteq notes,
           try' \in Nat, phase' \in {"attempt", "trying"} => try' # 0
    PROVE  Gate'
<1>1. waiting' \in [1..Len(steps) -> Nat] /\ \A i \in 1..Len(steps) : waiting'[i] = 0
  <2>1. CASE waiting' = [waiting EXCEPT ![index] = 0]
    BY <2>1 DEF Gate
  <2>2. CASE waiting' = waiting /\ (~InStep \/ Here.kind # "approval")
    BY <2>2, QuietGate DEF Gate
  <2> QED BY <2>1, <2>2 DEF Cleared
<1> QED BY <1>1 DEF Gate

LEMMA WritesKept ==
    ASSUME steps \in Pipelines, Walk, Writes, Grows, steps' = steps, wrote' = wrote,
           Len(results') \in Nat
    PROVE  Writes'
<1>1. Len(results) \in Nat /\ Len(steps) \in Nat
  BY StepsTyped DEF Walk
<1>2. ASSUME NEW w \in wrote
      PROVE  /\ w.step \in 1..Len(steps) /\ w.step <= Len(results') + 1
             /\ steps[w.step].asks =>
                  \E i \in 1..w.step - 1 :
                     /\ steps[i].kind = "approval" /\ results'[i].decision = "approved"
                     /\ \A j \in i + 1..w.step - 1 : steps[j].kind # "approval"
  <2>1. w.step \in 1..Len(steps) /\ w.step <= Len(results) + 1
    BY DEF Writes
  <2>2. \A i \in 1..w.step - 1 : results'[i] = results[i]
    BY <1>1, <2>1 DEF Grows
  <2>3. steps[w.step].asks =>
                  \E i \in 1..w.step - 1 :
                     /\ steps[i].kind = "approval" /\ results[i].decision = "approved"
                     /\ \A j \in i + 1..w.step - 1 : steps[j].kind # "approval"
    BY DEF Writes, GuardedWritesApproved
  <2> QED BY <1>1, <2>1, <2>2, <2>3 DEF Grows
<1> QED BY <1>2 DEF Writes, GuardedWritesApproved

--------------------------------------------------------------------------------
(* The steps of a run that was not refused. *)

(* The end of a step, whatever ended it. *)
LEMMA StepTaken ==
    ASSUME IInv, Accepted, phase \in Running, index <= Len(steps),
           NEW o \in Outcomes, NEW d \in Decisions, NEW s \in BOOLEAN, NEW b,
           d = "approved" => Here.kind = "approval",
           StepEnds(o, d, s, b), Cleared,
           UNCHANGED <<steps, try, wrote>>, notes' \subseteq notes
    PROVE  IInv'
<1>1. steps \in Pipelines /\ Started /\ steps' = steps
  BY DEF IInv
<1>2. Walk' /\ OnlyApprovalsApprove' /\ Grows /\ phase' \in {"loop", "ended"}
  BY <1>1, StepEndsWalks DEF Started
<1>3. Gate'
  BY <1>1, <1>2, ClearedGate DEF Started, Gate
<1>4. Writes'
  BY <1>1, <1>2, WritesKept DEF Started, Walk
<1>5. Accepted'
  BY <1>1, SameSteps
<1> QED BY <1>1, <1>2, <1>3, <1>4, <1>5 DEF IInv, Started

(* The step is tried again. *)
LEMMA StepRetried ==
    ASSUME IInv, Accepted, InStep, TriedAgain, Cleared,
           UNCHANGED <<steps, notes, wrote>>
    PROVE  IInv'
<1>1. steps \in Pipelines /\ Started /\ steps' = steps
  BY DEF IInv
<1>2. Walk' /\ OnlyApprovalsApprove' /\ phase' = "attempt"
  BY <1>1 DEF Started, Walk, OnlyApprovalsApprove, TriedAgain, InStep, Running, HasFailures
<1>3. Gate'
  <2>1. try' \in Nat \ {0}
    BY <1>1 DEF TriedAgain, Started, Gate
  <2> QED BY <1>1, <2>1, ClearedGate DEF Started
<1>4. Writes'
  BY <1>1 DEF TriedAgain, Started, Writes, GuardedWritesApproved
<1>5. Accepted'
  BY <1>1, SameSteps
<1> QED BY <1>1, <1>2, <1>3, <1>4, <1>5 DEF IInv, Started

LEMMA TryFailed ==
    ASSUME IInv, Accepted, InStep, NEW b, TryFails(b), Cleared,
           UNCHANGED <<steps, notes, wrote>>
    PROVE  IInv'
<1>1. CASE TriedAgain
  BY <1>1, StepRetried
<1>2. CASE StepEnds("failed", "none", FALSE, b) /\ UNCHANGED try
  <2>1. phase \in Running /\ index <= Len(steps)
    BY DEF IInv, Started, Walk, InStep, Running
  <2> QED BY <1>2, <2>1, StepTaken DEF Outcomes, Decisions
<1> QED BY <1>1, <1>2 DEF TryFails

(* A question is settled: its step ends as it was answered. *)
LEMMA Settled ==
    ASSUME IInv, Accepted, NEW i \in 1..Len(steps), waiting[i] # 0,
           NEW d \in {"approved", "rejected", "timedOut"}, Settle(d), notes' \subseteq notes
    PROVE  IInv'
<1>1. InStep /\ i = index /\ Here.kind = "approval"
  BY DEF IInv, Started, Gate
<1>2. phase \in Running /\ index <= Len(steps)
  BY <1>1 DEF IInv, Started, Walk, InStep, Running
<1>3. PICK o \in {"completed", "failed"} : StepEnds(o, d, FALSE, Left(Current))
  BY DEF Settle
<1> QED BY <1>1, <1>2, <1>3, StepTaken DEF Settle, Cleared, Outcomes, Decisions

(* The handler of a try starts: a guarded Sync only on the answer given. *)
LEMMA AttemptStep ==
    ASSUME IInv, Accepted, Attempt
    PROVE  IInv'
<1> USE DEF Attempt
<1>1. /\ steps \in Pipelines /\ Started /\ steps' = steps /\ Len(steps) \in Nat
      /\ UNCHANGED <<results, index, try, status>> /\ phase = "attempt" /\ phase' = "trying"
  BY StepsTyped DEF IInv
<1>2. /\ index = Len(results) + 1 /\ Len(results) \in Nat /\ index \in 1..Len(steps)
      /\ \A k \in 1..Len(results) : results[k].step = k
  BY <1>1 DEF Started, Walk, Running
<1>3. Walk' /\ OnlyApprovalsApprove'
  BY <1>1 DEF Started, Walk, OnlyApprovalsApprove, Running, HasFailures
<1>4. Gate'
  <2>1. /\ try \in Nat \ {0} /\ waiting \in [1..Len(steps) -> Nat]
        /\ \A t \in notes : t.step \in 1..Len(steps)
        /\ \A i \in 1..Len(steps) : waiting[i] = 0
    BY <1>1, QuietGate DEF Started, Gate, InStep
  <2>2. CASE Here.kind = "approval"
    <3>1. waiting' = [waiting EXCEPT ![index] = try] /\ notes' = notes \cup {Current}
          /\ going' = going \cup {Current}
      BY <2>2
    <3>2. InStep' /\ Here' = Here /\ Current' = Current
      BY <1>1 DEF InStep, Here, Current
    <3>3. \A t \in notes' : t.step \in 1..Len(steps)
      BY <1>2, <2>1, <3>1 DEF Current
    <3>4. \A i \in 1..Len(steps) : waiting'[i] # 0 => i = index /\ waiting'[i] = try
      BY <2>1, <3>1
    <3>5. waiting' \in [1..Len(steps) -> Nat] /\ Current' \in going'
      BY <2>1, <3>1, <3>2
    <3> QED BY <1>1, <2>1, <2>2, <3>2, <3>3, <3>4, <3>5 DEF Gate
  <2>3. CASE Here.kind # "approval"
    BY <1>1, <2>1, <2>3 DEF Gate
  <2> QED BY <2>2, <2>3
<1>5. Writes'
  <2> SUFFICES ASSUME NEW w \in wrote'
               PROVE  /\ w.step \in 1..Len(steps) /\ w.step <= Len(results) + 1
                      /\ steps[w.step].asks =>
                           \E i \in 1..w.step - 1 :
                              /\ steps[i].kind = "approval"
                              /\ results[i].decision = "approved"
                              /\ \A j \in i + 1..w.step - 1 : steps[j].kind # "approval"
    BY <1>1 DEF Writes, GuardedWritesApproved
  <2>1. CASE w \in wrote
    BY <1>1, <2>1 DEF Started, Writes, GuardedWritesApproved
  <2>2. CASE w = Current /\ Here.kind = "sync" /\ ~Declined
    <3>1. w.step = index
      BY <2>2 DEF Current
    <3>2. Here.asks => GivenAnswer
      BY <2>2 DEF Declined
    <3>3. ASSUME steps[w.step].asks
          PROVE  \E i \in 1..w.step - 1 :
                    /\ steps[i].kind = "approval" /\ results[i].decision = "approved"
                    /\ \A j \in i + 1..w.step - 1 : steps[j].kind # "approval"
      <4>1. GivenAnswer
        BY <3>1, <3>2, <3>3 DEF Here
      <4>2. PICK k \in 1..Len(results) :
               /\ results[k].decision = "approved"
               /\ \A j \in k + 1..Len(results) : steps[results[j].step].kind # "approval"
        BY <4>1 DEF GivenAnswer
      <4>3. steps[k].kind = "approval"
        BY <1>1, <4>2 DEF Started, OnlyApprovalsApprove
      <4>4. \A j \in k + 1..Len(results) : steps[j].kind # "approval"
        BY <1>2, <4>2
      <4>5. w.step - 1 = Len(results)
        BY <1>2, <3>1
      <4> QED BY <4>2, <4>3, <4>4, <4>5
    <3> QED BY <1>2, <3>1, <3>3
  <2> QED BY <2>1, <2>2
<1>6. Accepted'
  BY <1>1, SameSteps
<1> QED BY <1>1, <1>3, <1>4, <1>5, <1>6 DEF IInv, Started

(* A step that leaves the walk, the gate's questions and the writes alone. *)
LEMMA OtherStep ==
    ASSUME IInv, Accepted, ~ InStep \/ \A i \in 1..Len(steps) : waiting[i] # 0 => Current \in going',
           UNCHANGED <<steps, phase, status, index, try, results, waiting, wrote>>,
           notes' \subseteq notes, going' \subseteq going
    PROVE  IInv'
<1>1. steps \in Pipelines /\ Started /\ steps' = steps
  BY DEF IInv
<1>2. Walk' /\ OnlyApprovalsApprove' /\ Writes'
  BY <1>1 DEF Started, Walk, OnlyApprovalsApprove, Writes, GuardedWritesApproved, HasFailures
<1>3. Gate'
  BY <1>1 DEF Started, Gate, InStep, Here, Current
<1>4. Accepted'
  BY <1>1, SameSteps
<1> QED BY <1>1, <1>2, <1>3, <1>4 DEF IInv, Started

--------------------------------------------------------------------------------
(* The invariant. *)

LEMMA InitIInv == Init => IInv
<1> SUFFICES ASSUME Init PROVE IInv
  OBVIOUS
<1>1. Len(steps) \in Nat /\ steps \in Pipelines
  BY StepsTyped DEF Init
<1>2. results \in Seq(StepResult) /\ Len(results) = 0
  BY DEF Init
<1>3. Walk /\ OnlyApprovalsApprove
  BY <1>1, <1>2 DEF Init, Walk, OnlyApprovalsApprove, Running
<1>4. Gate /\ Writes
  BY <1>1 DEF Init, Gate, Writes, GuardedWritesApproved
<1>5. NothingRan
  BY DEF Init, NothingRan
<1> QED BY <1>1, <1>3, <1>4, <1>5 DEF IInv, Started, Init

(* A refused pipeline stays as it was but for the refusals. *)
LEMMA RefusedStep ==
    ASSUME IInv, ~Accepted, Next
    PROVE  NothingRan' /\ steps' = steps
<1>1. /\ phase \in {"idle", "ended"} /\ going = {} /\ wrote = {} /\ notes = {}
      /\ \A i \in 1..Len(steps) : waiting[i] = 0
  BY DEF IInv, NothingRan
<1>2. Execute
  BY <1>1 DEF Next, LoopEnds, StepSkipped, StepUnevaluable, StepStarted, Takes, AttemptStopped,
       Attempt, HandlerReturns, HandlerThrows, WorkCancelled, StepTimesOut, InStep,
       ApprovalTimesOut, PageAnswers, Cancel, BudgetFires, Abort
<1> QED BY <1>1, <1>2 DEF Execute, NothingRan

LEMMA AcceptedStep ==
    ASSUME IInv, Accepted, Next
    PROVE  IInv'
<1>1. /\ steps \in Pipelines /\ Started /\ Len(steps) \in Nat /\ Len(results) \in Nat
      /\ \A i \in 1..Len(steps) : waiting[i] # 0 => InStep
  BY StepsTyped DEF IInv, Started, Walk, Gate
<1>2. InStep => phase \in Running /\ index <= Len(steps)
  BY <1>1 DEF Started, Walk, InStep, Running
<1>3. CASE Execute
  <2>1. /\ phase = "idle" /\ phase' = "loop" /\ status' = "running"
        /\ UNCHANGED <<results, steps, index, try, going, aborted, outOfTime, waiting,
                       notes, wrote>>
    BY <1>3 DEF Execute
  <2>2. Walk' /\ OnlyApprovalsApprove' /\ Writes'
    BY <1>1, <2>1 DEF Started, Walk, OnlyApprovalsApprove, Writes, GuardedWritesApproved,
         HasFailures, Running
  <2>3. Gate'
    BY <1>1, <2>1 DEF Started, Gate, InStep
  <2>4. Accepted'
    BY <2>1, SameSteps
  <2> QED BY <1>1, <2>1, <2>2, <2>3, <2>4 DEF IInv, Started
<1>4. CASE LoopEnds
  <2>1. /\ phase = "loop" /\ phase' = "ended"
        /\ status' = IF index <= Len(steps) THEN "cancelled"
                     ELSE IF HasFailures(results) THEN "completed_with_warnings"
                     ELSE "completed"
        /\ UNCHANGED <<steps, index, try, results, going, waiting, notes, wrote>>
    BY <1>4 DEF LoopEnds
  <2>2. OnlyApprovalsApprove' /\ Writes'
    BY <1>1, <2>1 DEF Started, OnlyApprovalsApprove, Writes, GuardedWritesApproved
  <2>3. Walk'
    BY <1>1, <2>1 DEF Started, Walk, Running, HasFailures
  <2>4. Gate'
    BY <1>1, <2>1 DEF Started, Gate, InStep
  <2>5. Accepted'
    BY <2>1, SameSteps
  <2> QED BY <1>1, <2>1, <2>2, <2>3, <2>4, <2>5 DEF IInv, Started
<1>5. CASE StepSkipped
  <2> DEFINE x == Result(index, "skipped", "none")
  <2>1. /\ phase = "loop" /\ index = Len(results) + 1 /\ index \in 1..Len(steps)
        /\ results' = Append(results, x) /\ index' = index + 1
        /\ UNCHANGED <<steps, phase, status, try, going, waiting, notes, wrote>>
    BY <1>1, <1>5 DEF StepSkipped, Takes, Started, Walk, Running
  <2>2. x \in StepResult
    BY <2>1 DEF Result, StepResult, Decisions
  <2>3. /\ results' \in Seq(StepResult) /\ Len(results') = index /\ results'[index] = x
        /\ \A k \in 1..Len(results) : results'[k] = results[k]
    <3>1. results \in Seq(StepResult)
      BY <1>1 DEF Started, Walk
    <3> HIDE DEF x
    <3> QED BY <2>1, <2>2, <3>1, AppendProperties
  <2>4. ASSUME NEW k \in 1..Len(results')
        PROVE  /\ results'[k].step = k /\ results'[k].status # "stopped"
               /\ results'[k].decision = "approved" => steps[k].kind = "approval"
    <3>1. CASE k = index
      BY <2>3, <3>1 DEF Result
    <3>2. CASE k \in 1..Len(results)
      BY <1>1, <2>1, <2>3, <3>2 DEF Started, Walk, Running, OnlyApprovalsApprove
    <3> QED BY <1>1, <2>1, <2>3, <3>1, <3>2
  <2>5. Walk' /\ OnlyApprovalsApprove'
    <3>1. status = "running"
      BY <1>1, <2>1 DEF Started, Walk, Running
    <3> QED BY <1>1, <2>1, <2>3, <2>4, <3>1 DEF Walk, OnlyApprovalsApprove, Running
  <2>6. Grows
    BY <1>1, <2>1, <2>3 DEF Grows
  <2>7. Writes'
    BY <1>1, <2>1, <2>3, <2>6, WritesKept DEF Started
  <2>8. Gate'
    BY <1>1, <2>1 DEF Started, Gate, InStep
  <2>9. Accepted'
    BY <2>1, SameSteps
  <2> QED BY <1>1, <2>1, <2>5, <2>7, <2>8, <2>9 DEF IInv, Started
<1>6. CASE StepUnevaluable
  BY <1>6, StepTaken DEF StepUnevaluable, Takes, Cleared, InStep, Outcomes, Decisions, Running
<1>7. CASE StepStarted
  <2>1. /\ phase = "loop" /\ phase' = "attempt" /\ index <= Len(steps) /\ try' = 1
        /\ UNCHANGED <<steps, status, index, results, going, waiting, notes, wrote>>
    BY <1>7 DEF StepStarted, Takes
  <2>2. OnlyApprovalsApprove' /\ Writes'
    BY <1>1, <2>1 DEF Started, OnlyApprovalsApprove, Writes, GuardedWritesApproved
  <2>3. Walk'
    BY <1>1, <2>1 DEF Started, Walk, Running, HasFailures
  <2>4. Gate'
    BY <1>1, <2>1 DEF Started, Gate, InStep
  <2>5. Accepted'
    BY <2>1, SameSteps
  <2> QED BY <1>1, <2>1, <2>2, <2>3, <2>4, <2>5 DEF IInv, Started
<1>8. CASE AttemptStopped
  <2>1. phase \in Running /\ index <= Len(steps) /\ ~InStep
    BY <1>1, <1>8 DEF AttemptStopped, Started, Walk, Running, InStep
  <2> QED BY <1>8, <2>1, StepTaken DEF AttemptStopped, Cleared, Outcomes, Decisions
<1>9. CASE Attempt
  BY <1>9, AttemptStep
<1>10. ASSUME NEW o \in {"completed", "unmet", "failed"}, HandlerReturns(o) PROVE IInv'
  BY <1>2, <1>10, StepTaken DEF HandlerReturns, Cleared, Outcomes, Decisions
<1>11. CASE HandlerThrows
  BY <1>11, TryFailed DEF HandlerThrows, Cleared
<1>12. CASE WorkCancelled
  BY <1>2, <1>12, StepTaken DEF WorkCancelled, Cleared, Outcomes, Decisions
<1>13. CASE StepTimesOut
  BY <1>13, TryFailed DEF StepTimesOut, GiveUp, Cleared
<1>14. ASSUME NEW t \in going, LateReturn(t) PROVE IInv'
  <2>1. ~InStep \/ \A i \in 1..Len(steps) : waiting[i] # 0 => Current \in going'
    BY <1>1, <1>14 DEF LateReturn, Started, Gate
  <2> QED BY <1>14, <2>1, OtherStep DEF LateReturn
<1>15. CASE ApprovalTimesOut
  <2>1. index \in 1..Len(steps) /\ waiting[index] # 0
    BY <1>1, <1>2, <1>15 DEF ApprovalTimesOut, Started, Walk, Gate, InStep
  <2> QED BY <1>15, <2>1, Settled DEF ApprovalTimesOut
<1>16. ASSUME NEW d \in {"approved", "rejected"}, PageAnswers(d) PROVE IInv'
  <2>1. index \in 1..Len(steps) /\ waiting[index] # 0
    BY <1>1, <1>2, <1>16 DEF PageAnswers, Started, Walk, Gate, InStep
  <2> QED BY <1>16, <2>1, Settled DEF PageAnswers
<1>17. ASSUME NEW d \in {"approved", "rejected"}, NEW t \in notes, NotificationAnswers(t, d)
       PROVE  IInv'
  <2>1. t.step \in 1..Len(steps) /\ notes' \subseteq notes
    BY <1>1, <1>17 DEF Started, Gate, NotificationAnswers
  <2>2. CASE waiting[t.step] # 0 /\ Settle(d)
    BY <2>1, <2>2, Settled
  <2>3. CASE UNCHANGED <<steps, phase, status, index, try, results, going, aborted,
                         outOfTime, budget, waiting, wrote>>
    <3>1. ~InStep \/ \A i \in 1..Len(steps) : waiting[i] # 0 => Current \in going'
      BY <1>1, <2>3 DEF Started, Gate
    <3> QED BY <2>1, <2>3, <3>1, OtherStep
  <2> QED BY <1>17, <2>2, <2>3 DEF NotificationAnswers
<1>18. CASE Abort
  <2>1. CASE InStep /\ GiveUp /\ StepEnds("stopped", "none", TRUE, budget)
    BY <1>2, <1>18, <2>1, StepTaken DEF Abort, GiveUp, Cleared, Outcomes, Decisions
  <2>2. CASE ~InStep /\ UNCHANGED <<phase, status, index, results, going, waiting>>
    BY <1>18, <2>2, OtherStep DEF Abort
  <2> QED BY <1>18, <2>1, <2>2 DEF Abort
<1> QED BY <1>3, <1>4, <1>5, <1>6, <1>7, <1>8, <1>9, <1>10, <1>11, <1>12, <1>13, <1>14,
       <1>15, <1>16, <1>17, <1>18 DEF Next, Cancel, BudgetFires

LEMMA NextIInv == IInv /\ [Next]_vars => IInv'
<1> SUFFICES ASSUME IInv, [Next]_vars PROVE IInv'
  OBVIOUS
<1>1. CASE UNCHANGED vars
  <2>1. Accepted' <=> Accepted
    BY <1>1, SameSteps DEF vars
  <2>2. Started => Started'
    BY <1>1 DEF vars, Started, Walk, OnlyApprovalsApprove, Gate, Writes, GuardedWritesApproved,
         HasFailures, InStep, Here, Current
  <2>3. NothingRan => NothingRan'
    BY <1>1 DEF vars, NothingRan
  <2> QED BY <1>1, <2>1, <2>2, <2>3 DEF IInv, vars
<1>2. CASE Next /\ Accepted
  BY <1>2, AcceptedStep
<1>3. CASE Next /\ ~Accepted
  <2>1. NothingRan' /\ steps' = steps
    BY <1>3, RefusedStep
  <2>2. ~Accepted'
    BY <1>3, <2>1, SameSteps
  <2> QED BY <2>1, <2>2 DEF IInv
<1> QED BY <1>1, <1>2, <1>3

LEMMA Invariant == Spec => []IInv
BY InitIInv, NextIInv, PTL DEF Spec

--------------------------------------------------------------------------------
(* The theorems. *)

(***************************************************************************)
(* PipelineOrchestrator.execute, whatever the pipeline's routes,           *)
(* conditions, retries and timeouts, and whenever the run is stopped: its  *)
(* results name the steps one by one and without a gap, a run that goes on *)
(* is right behind them, one that completed has them all and says whether  *)
(* one failed; a refused pipeline starts nothing.                          *)
(***************************************************************************)
THEOREM StepsAccounted == Spec => []EveryStepAccounted
<1>1. IInv => EveryStepAccounted
  <2> SUFFICES ASSUME IInv PROVE EveryStepAccounted
    OBVIOUS
  <2>1. CASE Accepted
    BY <2>1 DEF IInv, Started, Walk, Running, Accepted, EveryStepAccounted
  <2>2. CASE ~Accepted
    BY <2>2 DEF IInv, NothingRan, Accepted, EveryStepAccounted
  <2> QED BY <2>1, <2>2
<1> QED BY <1>1, Invariant, PTL

(***************************************************************************)
(* givenAnswer: in every run of every pipeline, a Sync the Production      *)
(* Guard asks about went through only when the nearest Approval step       *)
(* before it was approved.                                                 *)
(***************************************************************************)
THEOREM SyncsAreApproved == Spec => []GuardedWritesApproved
<1>1. IInv => GuardedWritesApproved
  BY DEF IInv, Started, Writes, NothingRan, GuardedWritesApproved
<1> QED BY <1>1, Invariant, PTL

(***************************************************************************)
(* StepExecutor.attempt and the loop of execute: no step of the run starts *)
(* a handler once the run's signal is aborted or the run is over.          *)
(***************************************************************************)
THEOREM StoppedStartsNothing == Spec => NothingStartsOnceStopped
<1>1. [Next]_vars => [aborted \/ phase = "ended" => going' \subseteq going]_vars
  <2> SUFFICES ASSUME Next, aborted \/ phase = "ended" PROVE going' \subseteq going
    OBVIOUS
  <2> USE DEF Execute, LoopEnds, StepSkipped, StepUnevaluable, StepStarted, AttemptStopped,
        Attempt, MayTry, HandlerReturns, HandlerThrows, WorkCancelled, StepTimesOut, GiveUp,
        LateReturn, ApprovalTimesOut, PageAnswers, NotificationAnswers, Settle, Cancel,
        BudgetFires, Abort
  <2> QED BY DEF Next
<1> QED BY <1>1, PTL DEF Spec, NothingStartsOnceStopped

(***************************************************************************)
(* runPipeline's budget, held while a question waits: in every run, only   *)
(* the late end of an earlier handler that holds the budget too, given up  *)
(* at its timeout, makes it count again under the question.                *)
(***************************************************************************)
THEOREM HeldUnlessStray == Spec => OnlyStrayResumes
<1> DEFINE Stray ==
      \A i \in 1..Len(steps) :
          /\ waiting[i] # 0 /\ waiting'[i] = waiting[i]
          /\ budget = "held" /\ budget' = "counting"
          => \E t \in going \ going' : t # Current /\ Holds(t)
<1>1. IInv /\ [Next]_vars => [Stray]_vars
  <2> SUFFICES ASSUME IInv, Next, NEW i \in 1..Len(steps),
                      waiting[i] # 0, waiting'[i] = waiting[i],
                      budget = "held", budget' = "counting"
               PROVE  \E t \in going \ going' : t # Current /\ Holds(t)
    OBVIOUS
  <2>1. /\ InStep /\ i = index /\ Here.kind = "approval"
        /\ waiting \in [1..Len(steps) -> Nat]
    BY DEF IInv, Started, Gate, NothingRan
  <2>2. \E t \in going : LateReturn(t)
    BY <2>1 DEF Next, Execute, LoopEnds, StepSkipped, StepUnevaluable, StepStarted, Takes,
         AttemptStopped, Attempt, HandlerReturns, HandlerThrows, WorkCancelled, StepTimesOut,
         GiveUp, ApprovalTimesOut, PageAnswers, NotificationAnswers, Settle, Cancel,
         BudgetFires, Abort, InStep
  <2>3. PICK t \in going : LateReturn(t)
    BY <2>2
  <2> QED BY <2>1, <2>3 DEF LateReturn, Left
<1> QED BY <1>1, Invariant, PTL DEF Spec, OnlyStrayResumes

=============================================================================
