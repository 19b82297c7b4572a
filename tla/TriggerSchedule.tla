--------------------------- MODULE TriggerSchedule ---------------------------
(***************************************************************************)
(* The schedule and the sandbox refresh trigger of one saved pipeline, as   *)
(* the windows of VS Code open on a machine fire them                       *)
(* (automation/PipelineTriggerScheduler.ts), each start claimed once by     *)
(* claim() of automation/TriggerClaims.ts: a file, or the memory of the     *)
(* window when the file cannot be made.                                     *)
(*                                                                          *)
(* The plan (when the schedule falls due next) is kept in globalState: a    *)
(* window knows what another wrote once VS Code has told it.                *)
(***************************************************************************)
EXTENDS Naturals, FiniteSets

CONSTANTS
    Window,     \* the windows of the machine; one may open again
    Due,        \* the instants the schedule falls due at
    LateAfter,  \* LATE_AFTER_MS
    Limit,      \* MISSED_COUNT_LIMIT
    NoPlan,     \* a schedule with no plan
    MaxTime,    \* bound: the last instant
    MaxRuns,    \* bound: runs of the pipeline
    MaxOpen,    \* bound: openings of one window
    MaxTrouble  \* bound: times the schedule is switched on or off, and claims
                \* whose file cannot be made, together

ASSUME ScheduleAssumption ==
    /\ Due \subseteq 0..MaxTime /\ LateAfter \in Nat /\ Limit \in Nat \ {0}
    /\ MaxTime \in Nat /\ MaxRuns \in Nat /\ MaxOpen \in Nat /\ MaxTrouble \in Nat
    /\ NoPlan \notin Nat

VARIABLES
    now,        \* the clock; it runs on while the computer sleeps
    enabled,    \* the schedule is switched on
    switches,   \* how often it was switched on or off
    stored,     \* the plan VS Code keeps
    known,      \* the plan as each window knows it
    open,       \* the windows that are open
    opened,     \* how often each window opened
    firstLook,  \* the window has not looked since it opened
    looking,    \* the window awaits problemsOf()
    lookAgain,  \* a look asked for meanwhile
    at,         \* `now` as the look under way read it
    closed,     \* `closed` of the look under way
    claimed,    \* the starts claimed, each by its file
    kept,       \* claims kept in memory: which window, at which opening, the start
    outcome,    \* what was made, or said, of each start
    settled,    \* history: how many times it was
    covered,    \* starts an "at least" report counts without naming them
    run,        \* the run going: its number, or 0
    runs,       \* runs started
    entries,    \* history entries for starts missed during a run
    refresh,    \* the sandbox refresh: "none", "noticed" or "claimed", by a file
    keptRefresh,\* claims of it kept in memory: which window, at which opening
    refreshing, \* the windows that claimed it, and how, and await problemsOf()
    refreshes   \* history: how many times it was made or reported

shared == <<stored, known>>
windows == <<open, opened, firstLook>>
look == <<looking, lookAgain, at, closed>>
starts == <<claimed, kept, outcome, settled, covered>>
runVars == <<run, runs, entries>>
refreshVars == <<refresh, keptRefresh, refreshing, refreshes>>
switch == <<enabled, switches>>
scheduleVars == <<now, switch, shared, windows, look, starts, runVars, refreshVars>>

Earliest(S) == CHOOSE d \in S : \A e \in S : d <= e
Latest(S) == CHOOSE d \in S : \A e \in S : e <= d

(* The first time after t the schedule falls due; past the bound, the next  *)
(* instant after it.                                                        *)
nextRun(t) ==
    LET later == {d \in Due : d > t}
    IN IF later = {} THEN MaxTime + 1 ELSE Earliest(later)

(* The times after `from` and up to `to`, the first Limit of them.          *)
DuesBetween(from, to) == {d \in Due : from < d /\ d <= to}

dueBetween(from, to) ==
    {d \in DuesBetween(from, to) : Cardinality(DuesBetween(from, d)) <= Limit}

ScheduleInit ==
    /\ now = 0 /\ enabled \in BOOLEAN /\ switches = 0
    /\ stored = IF enabled THEN nextRun(0) ELSE NoPlan
    /\ known = [w \in Window |-> NoPlan]
    /\ open = {} /\ opened = [w \in Window |-> 0]
    /\ firstLook = [w \in Window |-> TRUE]
    /\ looking = {} /\ lookAgain = {}
    /\ at = [w \in Window |-> 0] /\ closed = [w \in Window |-> FALSE]
    /\ claimed = {} /\ kept = {} /\ covered = {}
    /\ outcome = [d \in Due |-> "none"] /\ settled = [d \in Due |-> 0]
    /\ run = 0 /\ runs = 0 /\ entries = {}
    /\ refresh = "none" /\ keptRefresh = {} /\ refreshing = {} /\ refreshes = 0

-----------------------------------------------------------------------------
(* Windows, time, and what VS Code tells the windows.                       *)

Open(w) ==
    /\ w \notin open /\ opened[w] < MaxOpen
    /\ open' = open \cup {w}
    /\ opened' = [opened EXCEPT ![w] = @ + 1]
    /\ firstLook' = [firstLook EXCEPT ![w] = TRUE]
    /\ known' = [known EXCEPT ![w] = stored]
    /\ UNCHANGED <<now, switch, stored, look, starts, runVars, refreshVars>>

(* A look that ends forgets its locals. *)
LookEnds(w) ==
    /\ looking' = looking \ {w}
    /\ at' = [at EXCEPT ![w] = 0] /\ closed' = [closed EXCEPT ![w] = FALSE]

(* The extension host ends, with the looks it had under way and the claims  *)
(* of its memory, which are those of one opening.                           *)
Close(w) ==
    /\ w \in open
    /\ open' = open \ {w}
    /\ lookAgain' = lookAgain \ {w}
    /\ refreshing' = {r \in refreshing : r[1] # w}
    /\ firstLook' = [firstLook EXCEPT ![w] = TRUE]
    /\ known' = [known EXCEPT ![w] = NoPlan]
    /\ LookEnds(w)
    /\ UNCHANGED <<now, switch, stored, opened, starts, runVars, refresh, keptRefresh,
                   refreshes>>

Told(w) ==
    /\ w \in open /\ known[w] # stored
    /\ known' = [known EXCEPT ![w] = stored]
    /\ UNCHANGED <<now, switch, stored, windows, look, starts, runVars, refreshVars>>

(* An instant is a minute: what was written is known everywhere within it,  *)
(* while a look may wait for longer.                                        *)
Tick ==
    /\ now < MaxTime
    /\ \A w \in open : known[w] = stored
    /\ now' = now + 1
    /\ UNCHANGED <<switch, shared, windows, look, starts, runVars, refreshVars>>

-----------------------------------------------------------------------------
(* look()                                                                   *)

(* unplan(): a schedule switched off owes no start. *)
unplan(w) ==
    IF known[w] = NoPlan THEN UNCHANGED shared
    ELSE stored' = NoPlan /\ known' = [known EXCEPT ![w] = NoPlan]

(* lookNow(), up to its await: one look at a time. *)
Look(w) ==
    /\ w \in open /\ w \notin looking
    /\ firstLook' = [firstLook EXCEPT ![w] = FALSE]
    /\ lookAgain' = lookAgain \ {w}
    /\ IF enabled
         THEN /\ looking' = looking \cup {w}
              /\ at' = [at EXCEPT ![w] = now]
              /\ closed' = [closed EXCEPT ![w] = firstLook[w]]
              /\ UNCHANGED shared
         ELSE /\ unplan(w)
              /\ UNCHANGED <<looking, at, closed>>
    /\ UNCHANGED <<now, switch, open, opened, starts, runVars, refreshVars>>

(* plan(): the next start after the time the look read. *)
Plan(w) ==
    /\ stored' = nextRun(at[w])
    /\ known' = [known EXCEPT ![w] = nextRun(at[w])]

(* A mutant: the planned start is not one of those that fell due since. *)
DuesSincePlan(w) ==
    IF dueBetween(known[w], at[w]) = {} THEN {known[w]} ELSE dueBetween(known[w], at[w])

(* The starts the look of w finds due, and the one it makes on time. *)
Dues(w) == {known[w]} \cup dueBetween(known[w], at[w])

OnTime(w) ==
    IF ~ closed[w] /\ at[w] - Latest(Dues(w)) <= LateAfter
      THEN {Latest(Dues(w))} ELSE {}

(* fire(), or refuseStart() when a step of the pipeline cannot run: what    *)
(* becomes of a start that is made.                                         *)
StartOutcome(able) ==
    IF ~ able THEN "cannotRun" ELSE IF run = 0 THEN "started" ELSE "busy"

Fire(w, trigger, able, starting) ==
    CASE starting /\ able /\ run = 0 ->
            runs < MaxRuns /\ run' = runs + 1 /\ runs' = runs + 1 /\ UNCHANGED entries
      [] starting /\ able /\ run # 0 ->
            entries' = entries \cup {<<run, trigger, w>>} /\ UNCHANGED <<run, runs>>
      [] OTHER -> UNCHANGED runVars

(* A mutant: the file of a claim is made anew by whoever asks. *)
ClaimAnew(w, S, failing) ==
    (S \ failing) \cup {d \in S \cap failing : <<w, opened[w], d>> \notin kept}

(* claim(): the starts of S that w gets.  It makes a file for each, which    *)
(* works once in all windows; where the file cannot be made for another      *)
(* reason (failing) it asks its own memory, which works once in this window. *)
claim(w, S, failing) ==
    ((S \ failing) \ claimed) \cup {d \in S \cap failing : <<w, opened[w], d>> \notin kept}

(* lookAt(), after the await. *)
LookAt(w, able) ==
    /\ w \in looking
    /\ LookEnds(w)
    /\ CASE known[w] = NoPlan -> Plan(w) /\ UNCHANGED <<starts, runVars>>
         [] known[w] # NoPlan /\ known[w] > at[w] -> UNCHANGED <<shared, starts, runVars>>
         [] OTHER ->
              \E failing \in SUBSET Dues(w) :
              LET dues == Dues(w)
                  onTime == OnTime(w)
                  missed == claim(w, dues \ onTime, failing)
                  starting == claim(w, onTime, failing)
              IN /\ Plan(w)
                 /\ claimed' = claimed \cup (dues \ failing)
                 /\ kept' = kept \cup ({w} \X {opened[w]} \X failing)
                 /\ Cardinality(kept') + Cardinality(keptRefresh) + switches <= MaxTrouble
                 /\ settled' = [d \in Due |-> settled[d]
                                 + Cardinality({d} \cap (missed \cup starting))]
                 /\ outcome' = [d \in Due |->
                                  IF d \in starting THEN StartOutcome(able)
                                  ELSE IF d \in missed
                                    THEN IF closed[w] THEN "closed" ELSE "asleep"
                                  ELSE outcome[d]]
                 /\ covered' = IF missed = {} THEN covered
                               ELSE covered \cup DuesBetween(Latest(dues), at[w])
                 /\ Fire(w, "schedule", able, starting # {})
    /\ UNCHANGED <<now, switch, windows, lookAgain, refreshVars>>

RunIsOver ==
    /\ run # 0
    /\ run' = 0
    /\ UNCHANGED <<now, switch, shared, windows, look, starts, runs, entries, refreshVars>>

(* A pipeline is saved, its schedule switched on or off: reload() of the    *)
(* window it is saved in looks, or has the look under way followed by one.  *)
Switch(w) ==
    /\ Cardinality(kept) + Cardinality(keptRefresh) + switches < MaxTrouble
    /\ w \in open /\ w \notin lookAgain
    /\ enabled' = ~ enabled /\ switches' = switches + 1
    /\ lookAgain' = lookAgain \cup {w}
    /\ UNCHANGED <<now, shared, windows, looking, at, closed, starts, runVars, refreshVars>>

-----------------------------------------------------------------------------
(* onSandboxRefresh()                                                       *)

(* A refresh of the sandbox is noticed, and each open window is told. *)
Refreshed ==
    /\ refresh = "none"
    /\ open # {}
    /\ refresh' = "noticed"
    /\ UNCHANGED <<now, switch, shared, windows, look, starts, runVars, keptRefresh,
                   refreshing, refreshes>>

(* claim() of the refresh, by its file; one that is refused does nothing. *)
ClaimRefresh(w) ==
    /\ w \in open /\ refresh = "noticed"
    /\ refresh' = "claimed"
    /\ refreshing' = refreshing \cup {<<w, "file">>}
    /\ UNCHANGED <<now, switch, shared, windows, look, starts, runVars, keptRefresh,
                   refreshes>>

(* claim() of the refresh, whose file cannot be made. *)
ClaimRefreshInMemory(w) ==
    /\ Cardinality(kept) + Cardinality(keptRefresh) + switches < MaxTrouble
    /\ w \in open /\ refresh # "none" /\ <<w, opened[w]>> \notin keptRefresh
    /\ keptRefresh' = keptRefresh \cup {<<w, opened[w]>>}
    /\ refreshing' = refreshing \cup {<<w, "memory">>}
    /\ UNCHANGED <<now, switch, shared, windows, look, starts, runVars, refresh, refreshes>>

FireRefresh(w, by, able) ==
    /\ <<w, by>> \in refreshing
    /\ refreshing' = refreshing \ {<<w, by>>}
    /\ refreshes' = refreshes + 1
    /\ Fire(w, "sandbox_refresh", able, TRUE)
    /\ UNCHANGED <<now, switch, shared, windows, look, starts, refresh, keptRefresh>>

-----------------------------------------------------------------------------
ScheduleNext ==
    \/ \E w \in Window :
          \/ Open(w) \/ Close(w) \/ Told(w)
          \/ Look(w) \/ Switch(w)
          \/ ClaimRefresh(w) \/ ClaimRefreshInMemory(w)
          \/ \E able \in BOOLEAN :
                \/ LookAt(w, able)
                \/ \E by \in {"file", "memory"} : FireRefresh(w, by, able)
    \/ Tick \/ RunIsOver \/ Refreshed

ScheduleSpec == ScheduleInit /\ [][ScheduleNext]_scheduleVars

(* A window that is open is told of the plan and looks at least once a      *)
(* minute; problemsOf() answers, and runs end.                              *)
FairScheduleSpec ==
    /\ ScheduleSpec
    /\ WF_scheduleVars(RunIsOver)
    /\ \A w \in Window :
          /\ WF_scheduleVars(Told(w)) /\ WF_scheduleVars(Look(w))
          /\ WF_scheduleVars(\E able \in BOOLEAN : LookAt(w, able))
          /\ WF_scheduleVars(\E by \in {"file", "memory"}, able \in BOOLEAN :
                                FireRefresh(w, by, able))

-----------------------------------------------------------------------------
(* Types of the state; a look or a refresh under way is that of a window    *)
(* that is open.                                                            *)
ScheduleTypeOK ==
    /\ now \in 0..MaxTime /\ enabled \in BOOLEAN /\ switches \in Nat
    /\ stored \in Nat \cup {NoPlan} /\ known \in [Window -> Nat \cup {NoPlan}]
    /\ open \subseteq Window /\ looking \subseteq open /\ lookAgain \subseteq open
    /\ opened \in [Window -> Nat] /\ firstLook \in [Window -> BOOLEAN]
    /\ at \in [Window -> 0..MaxTime] /\ closed \in [Window -> BOOLEAN]
    /\ claimed \subseteq Due /\ covered \subseteq Due
    /\ kept \subseteq Window \X Nat \X Due
    /\ outcome \in [Due -> {"none", "started", "busy", "cannotRun", "closed", "asleep"}]
    /\ settled \in [Due -> Nat]
    /\ run \in 0..MaxRuns /\ runs \in 0..MaxRuns
    /\ entries \subseteq (1..MaxRuns) \X {"schedule", "sandbox_refresh"} \X Window
    /\ refresh \in {"none", "noticed", "claimed"} /\ refreshes \in Nat
    /\ keptRefresh \subseteq Window \X Nat
    /\ refreshing \subseteq open \X {"file", "memory"}

(* "The windows claim each start, so exactly one of them makes it or        *)
(* reports it": none is made or reported twice, whatever the windows know   *)
(* of the plan and however long their looks take, but for the windows that  *)
(* could not make the file of their claim.  Each of those makes or reports  *)
(* the start once more, and no more often than that while it is open; and   *)
(* so it is with the refresh.                                               *)
SettledOnce ==
    /\ \A d \in Due : settled[d] <= 1 + Cardinality({k \in kept : k[3] = d})
    /\ refreshes <= 1 + Cardinality(keptRefresh)

(* "Nothing is replayed", and nothing is passed over: a start that falls    *)
(* due at or after the stored plan is made, reported or counted by an "at   *)
(* least", in the end, unless the schedule is switched or every window      *)
(* closes for good.                                                         *)
DueIsSettled ==
    \A d \in Due :
        (enabled /\ stored # NoPlan /\ stored <= d /\ now >= d)
            ~> (settled[d] > 0 \/ d \in covered \/ switches > 0 \/ [](open = {}))
=============================================================================
