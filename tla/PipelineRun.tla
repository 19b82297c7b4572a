------------------------------ MODULE PipelineRun ------------------------------
(***************************************************************************)
(* One run of a pipeline: the orchestrator's walk over the steps           *)
(* (PipelineOrchestrator.ts), a step's tries, its timeout and the run's    *)
(* stop (StepExecutor.ts), the question of an Approval step                *)
(* (ApprovalGate.ts), and the run's time budget, which Approval and Sync   *)
(* steps hold (AutomationHandler.ts).                                      *)
(*                                                                         *)
(* A try whose step timed out, or whose run was stopped, is given up at    *)
(* once; its handler is told through its signal and may go on for a while. *)
(* An Approval's handler ends with the signal (the gate settles its        *)
(* question in the abort listener), every other handler ends when it does. *)
(*                                                                         *)
(* A step is a record: its kind; `when`, whether it carries a condition of *)
(* its own; the steps it routes to, 0 for none; whether the run goes on    *)
(* when it fails; its retries; whether it has a timeout; and whether the   *)
(* Production Guard asks about what it writes.  What a handler works on,   *)
(* the variables it hands on and the length of waits are left out: a       *)
(* condition holds or not, a timer that runs may fire.                     *)
(***************************************************************************)
EXTENDS Integers, Sequences, FiniteSets

CONSTANT Pipelines      \* the pipelines a person or a trigger may run

(***************************************************************************)
(* The kinds with a handler.  "plain" stands for Delay, Backup, Compare,   *)
(* Pre-check and Notification; "sync" for Sync and for the other kinds     *)
(* whose run holds the budget (untimed).                                   *)
(***************************************************************************)
Handled == {"plain", "condition", "approval", "sync"}

Step == [kind : Handled \cup {"restore"}, when : BOOLEAN,
         onSuccess : Nat, onFailure : Nat, continueOnError : BOOLEAN,
         retries : Nat, timed : BOOLEAN, asks : BOOLEAN]

ASSUME PipelinesAreSteps == Pipelines \subseteq Seq(Step)

VARIABLES
    steps,      \* the definition the run walks
    phase,      \* where execute() is: "idle", "loop", "attempt", "trying", "ended"
    status,     \* run.status
    index,      \* the step the loop is at
    try,        \* which try of that step
    results,    \* run.stepResults
    going,      \* the handlers that have not returned, those given up included
    aborted,    \* the run's signal
    outOfTime,  \* whether the budget aborted it
    budget,     \* its timer: "off", "counting", "held", "over"
    waiting,    \* the gate's map: for each step, the try whose question waits, or 0
    notes,      \* the notifications on screen
    wrote       \* the Sync runs the guard let through

vars == <<steps, phase, status, index, try, results, going, aborted, outOfTime,
          budget, waiting, notes, wrote>>

Try == [step : Nat, n : Nat]
Decisions == {"none", "approved", "rejected", "timedOut"}

Current == [step |-> index, n |-> try]
Here == steps[index]
Kind(t) == steps[t.step].kind
Holds(t) == Kind(t) \in {"approval", "sync"}
InStep == phase = "trying"

Init ==
    /\ steps \in Pipelines
    /\ phase = "idle" /\ status = "pending"
    /\ index = 1 /\ try = 0
    /\ results = <<>> /\ going = {} /\ wrote = {}
    /\ aborted = FALSE /\ outOfTime = FALSE /\ budget = "off"
    /\ waiting = [i \in 1..Len(steps) |-> 0] /\ notes = {}

--------------------------------------------------------------------------------
(* The run's time budget. *)

Held(b) == IF b = "counting" THEN "held" ELSE b
Resumed(b) == IF b = "held" THEN "counting" ELSE b

(***************************************************************************)
(* What the end of handler t leaves of the budget: the finally of          *)
(* askApproval, untimed and runSyncUntimed.                                *)
(***************************************************************************)
Resumes(t) == Resumed(budget)
Left(t) == IF Holds(t) THEN Resumed(budget) ELSE budget

--------------------------------------------------------------------------------
(* What is refused before the run starts. *)

RouteProblem(i) ==
    \E target \in {steps[i].onSuccess, steps[i].onFailure} :
        target # 0 /\ target \notin i + 1..Len(steps)

ApprovalBefore(i) == \E j \in 1..i - 1 : steps[j].kind = "approval"

Refused(i) ==
    \/ steps[i].kind \notin Handled
    \/ steps[i].kind = "sync" /\ steps[i].asks /\ ~ApprovalBefore(i)
    \/ RouteProblem(i)

Result(i, st, d) == [step |-> i, status |-> st, decision |-> d]

Accepted == \A i \in 1..Len(steps) : ~Refused(i)

Refusals == SelectSeq([i \in 1..Len(steps) |-> i], Refused)

Execute ==
    /\ phase = "idle"
    /\ IF Accepted
       THEN /\ phase' = "loop" /\ status' = "running" /\ budget' = "counting"
            /\ UNCHANGED results
       ELSE /\ phase' = "ended" /\ status' = "failed" /\ budget' = "over"
            /\ results' = [k \in 1..Len(Refusals) |->
                              Result(Refusals[k], "failed", "none")]
    /\ UNCHANGED <<steps, index, try, going, aborted, outOfTime, waiting, notes,
                   wrote>>

--------------------------------------------------------------------------------
(* The walk over the steps. *)

(***************************************************************************)
(* The step the run goes on from after an outcome: "unmet" is a Condition  *)
(* step whose condition does not hold.                                     *)
(***************************************************************************)
Target(o) == IF o = "completed" THEN Here.onSuccess ELSE Here.onFailure

NextIndex(o) ==
    IF o = "unmet" /\ Here.onFailure = 0 THEN Len(steps) + 1
    ELSE IF Target(o) > index THEN Target(o) ELSE index + 1

(* The results of the steps jumped over. *)
Jump(next) == <<>>
PassedOver(next) ==
    [k \in 1..next - index - 1 |-> Result(index + k, "skipped", "none")]

HasFailures(rs) == \E k \in 1..Len(rs) : rs[k].status = "failed"

(***************************************************************************)
(* The step ended with outcome o, the run's signal being s, the budget     *)
(* left as b: its result is pushed, and the run ends or goes on.           *)
(***************************************************************************)
StepEnds(o, d, s, b) ==
    LET st == IF o = "unmet" THEN "completed" ELSE o
        pushed == Append(results, Result(index, st, d))
    IN \/ /\ s \/ o = "stopped"
          /\ phase' = "ended" /\ status' = "cancelled" /\ budget' = "over"
          /\ results' = pushed
          /\ UNCHANGED index
       \/ /\ ~s /\ o = "failed" /\ ~Here.continueOnError
          /\ phase' = "ended" /\ status' = "failed" /\ budget' = "over"
          /\ results' = pushed
          /\ UNCHANGED index
       \/ /\ ~s /\ o # "stopped" /\ (o = "failed" => Here.continueOnError)
          /\ phase' = "loop" /\ index' = NextIndex(o) /\ budget' = b
          /\ results' = pushed \o PassedOver(NextIndex(o))
          /\ UNCHANGED status

(* The loop finds the run cancelled, or every step taken. *)
LoopEnds ==
    /\ phase = "loop"
    /\ aborted \/ index > Len(steps)
    /\ phase' = "ended" /\ budget' = "over"
    /\ status' = IF index <= Len(steps) THEN "cancelled"
                 ELSE IF HasFailures(results) THEN "completed_with_warnings"
                 ELSE "completed"
    /\ UNCHANGED <<steps, index, try, results, going, aborted, outOfTime, waiting,
                   notes, wrote>>

Takes == phase = "loop" /\ index <= Len(steps) /\ ~aborted
Conditional == Here.when /\ Here.kind # "condition"

(* The step's own condition does not hold, or has no answer. *)
StepSkipped ==
    /\ Takes /\ Conditional
    /\ results' = Append(results, Result(index, "skipped", "none"))
    /\ index' = index + 1
    /\ UNCHANGED <<steps, phase, status, try, going, aborted, outOfTime, budget,
                   waiting, notes, wrote>>

StepUnevaluable ==
    /\ Takes /\ Conditional
    /\ StepEnds("failed", "none", FALSE, budget)
    /\ UNCHANGED <<steps, try, going, aborted, outOfTime, waiting, notes, wrote>>

StepStarted ==
    /\ Takes
    /\ phase' = "attempt" /\ try' = 1
    /\ UNCHANGED <<steps, status, index, results, going, aborted, outOfTime,
                   budget, waiting, notes, wrote>>

--------------------------------------------------------------------------------
(* One try at a step. *)

(* The answer of the last Approval step the run took or passed over. *)
AnyApproval == \E k \in 1..Len(results) : results[k].decision = "approved"
GivenAnswer ==
    \E k \in 1..Len(results) :
        /\ results[k].decision = "approved"
        /\ \A j \in k + 1..Len(results) : steps[results[j].step].kind # "approval"

Always == TRUE
MayTry == ~aborted

AttemptStopped ==
    /\ phase = "attempt" /\ ~MayTry
    /\ StepEnds("stopped", "none", TRUE, budget)
    /\ UNCHANGED <<steps, try, going, aborted, outOfTime, waiting, notes, wrote>>

Declined == Here.kind = "sync" /\ Here.asks /\ ~GivenAnswer

Attempt ==
    /\ phase = "attempt" /\ MayTry
    /\ phase' = "trying"
    /\ going' = going \cup {Current}
    /\ budget' = IF Holds(Current) THEN Held(budget) ELSE budget
    /\ IF Here.kind = "approval"
       THEN waiting' = [waiting EXCEPT ![index] = try] /\ notes' = notes \cup {Current}
       ELSE UNCHANGED <<waiting, notes>>
    /\ wrote' = IF Here.kind = "sync" /\ ~Declined THEN wrote \cup {Current} ELSE wrote
    /\ UNCHANGED <<steps, status, index, try, results, aborted, outOfTime>>

(* The try gave no result: the step is tried again, or failed. *)
TriedAgain == phase' = "attempt" /\ try' = try + 1 /\ UNCHANGED <<status, index, results>>

TryFails(b) ==
    \/ try <= Here.retries /\ TriedAgain /\ budget' = b
    \/ try > Here.retries /\ StepEnds("failed", "none", FALSE, b) /\ UNCHANGED try

(***************************************************************************)
(* The handler of the try in progress returns its result.  A Sync run the  *)
(* guard declined rejects: it ends as HandlerThrows.                       *)
(***************************************************************************)
HandlerReturns(o) ==
    /\ InStep /\ Here.kind # "approval"
    /\ o = "unmet" => Here.kind = "condition"
    /\ ~Declined
    /\ going' = going \ {Current}
    /\ StepEnds(o, "none", FALSE, Left(Current))
    /\ UNCHANGED <<steps, try, aborted, outOfTime, waiting, notes, wrote>>

HandlerThrows ==
    /\ InStep /\ Here.kind # "approval"
    /\ going' = going \ {Current}
    /\ TryFails(Left(Current))
    /\ UNCHANGED <<steps, aborted, outOfTime, waiting, notes, wrote>>

(* The step's own work was cancelled in Live Operations. *)
WorkCancelled ==
    /\ InStep /\ Here.kind \in {"plain", "sync"}
    /\ going' = going \ {Current}
    /\ StepEnds("stopped", "none", FALSE, Left(Current))
    /\ UNCHANGED <<steps, try, aborted, outOfTime, waiting, notes, wrote>>

(***************************************************************************)
(* What giving up a try does to its handler: an Approval's question is     *)
(* settled as cancelled and its handler ends; any other goes on.           *)
(***************************************************************************)
GiveUp ==
    IF Here.kind = "approval"
    THEN going' = going \ {Current} /\ waiting' = [waiting EXCEPT ![index] = 0]
    ELSE UNCHANGED <<going, waiting>>

GivenUpBudget == IF Here.kind = "approval" THEN Left(Current) ELSE budget

StepTimesOut ==
    /\ InStep /\ Here.timed
    /\ GiveUp
    /\ TryFails(GivenUpBudget)
    /\ UNCHANGED <<steps, aborted, outOfTime, notes, wrote>>

(* A handler given up returns at last. *)
LateReturn(t) ==
    /\ t # Current \/ ~InStep
    /\ going' = going \ {t}
    /\ budget' = Left(t)
    /\ UNCHANGED <<steps, phase, status, index, try, results, aborted, outOfTime,
                   waiting, notes, wrote>>

--------------------------------------------------------------------------------
(* The Approval gate: settled by whichever comes first. *)

Settle(d) ==
    /\ waiting' = [waiting EXCEPT ![index] = 0]
    /\ going' = going \ {Current}
    /\ StepEnds(IF d = "approved" THEN "completed" ELSE "failed", d, FALSE,
                Left(Current))
    /\ UNCHANGED <<steps, try, aborted, outOfTime, wrote>>

ApprovalTimesOut ==
    /\ InStep /\ waiting[index] = try
    /\ Settle("timedOut")
    /\ UNCHANGED notes

PageAnswers(d) ==
    /\ InStep /\ waiting[index] = try
    /\ Settle(d)
    /\ UNCHANGED notes

(* A button of notification t: answers whatever question its step has waiting. *)
NotificationAnswers(t, d) ==
    /\ notes' = notes \ {t}
    /\ \/ waiting[t.step] # 0 /\ Settle(d)
       \/ waiting[t.step] = 0
          /\ UNCHANGED <<steps, phase, status, index, try, results, going, aborted,
                         outOfTime, budget, waiting, wrote>>

--------------------------------------------------------------------------------
(***************************************************************************)
(* The run is stopped: its signal aborts the try in progress.  Between two *)
(* steps the extension host runs nothing else; the model lets a stop come  *)
(* there too, which the loop and a try look for.                           *)
(***************************************************************************)

Abort ==
    /\ phase \in {"loop", "attempt", "trying"} /\ ~aborted
    /\ aborted' = TRUE
    /\ \/ /\ InStep
          /\ GiveUp
          /\ StepEnds("stopped", "none", TRUE, budget)
       \/ /\ ~InStep
          /\ budget' = IF outOfTime' THEN "over" ELSE budget
          /\ UNCHANGED <<phase, status, index, results, going, waiting>>
    /\ UNCHANGED <<steps, try, notes, wrote>>

Cancel == UNCHANGED outOfTime /\ Abort

BudgetGivesUp ==
    /\ budget = "counting" /\ budget' = "over" /\ outOfTime' = TRUE
    /\ UNCHANGED <<steps, phase, status, index, try, results, going, aborted,
                   waiting, notes, wrote>>
BudgetFires == budget = "counting" /\ outOfTime' = TRUE /\ Abort

--------------------------------------------------------------------------------
Next ==
    \/ Execute \/ LoopEnds \/ StepSkipped \/ StepUnevaluable \/ StepStarted
    \/ AttemptStopped \/ Attempt
    \/ \E o \in {"completed", "unmet", "failed"} : HandlerReturns(o)
    \/ HandlerThrows \/ WorkCancelled \/ StepTimesOut
    \/ \E t \in going : LateReturn(t)
    \/ ApprovalTimesOut
    \/ \E d \in {"approved", "rejected"} :
          PageAnswers(d) \/ \E t \in notes : NotificationAnswers(t, d)
    \/ Cancel \/ BudgetFires

Spec == Init /\ [][Next]_vars

(***************************************************************************)
(* The timers fire and the loop goes on.  Nothing is assumed of handlers,  *)
(* of a person's answer or of a cancel: a handler may never return.        *)
(***************************************************************************)
Fairness ==
    /\ WF_vars(LoopEnds) /\ WF_vars(StepStarted)
    /\ WF_vars(AttemptStopped) /\ WF_vars(Attempt)
    /\ WF_vars(StepTimesOut) /\ WF_vars(ApprovalTimesOut) /\ WF_vars(BudgetFires)

FairSpec == Spec /\ Fairness

--------------------------------------------------------------------------------
(* Type invariant. *)
TypeOK ==
    /\ steps \in Pipelines
    /\ phase \in {"idle", "loop", "attempt", "trying", "ended"}
    /\ status \in {"pending", "running", "completed", "completed_with_warnings",
                   "failed", "cancelled"}
    /\ index \in 1..Len(steps) + 1
    /\ try \in Nat
    /\ results \in Seq([step : 1..Len(steps),
                        status : {"completed", "failed", "skipped", "stopped"},
                        decision : Decisions])
    /\ going \cup notes \cup wrote \subseteq Try
    /\ aborted \in BOOLEAN /\ outOfTime \in BOOLEAN
    /\ budget \in {"off", "counting", "held", "over"}
    /\ waiting \in [1..Len(steps) -> Nat]

(***************************************************************************)
(* PipelineOrchestrator.execute: a run takes each step once, in order, and *)
(* a route only skips ahead: the results name the steps one by one without *)
(* a gap, the steps jumped over included; a run that goes on is right      *)
(* behind them, and one that completed has them all, none of them failed   *)
(* unless it says so.  A refused pipeline has run nothing.                 *)
(***************************************************************************)
EveryStepAccounted ==
    IF \E i \in 1..Len(steps) : Refused(i)
    THEN going = {} /\ wrote = {} /\ notes = {}
    ELSE /\ \A k \in 1..Len(results) : results[k].step = k
         /\ phase \in {"loop", "attempt", "trying"} => index = Len(results) + 1
         /\ status \in {"completed", "completed_with_warnings"} =>
                /\ Len(results) = Len(steps)
                /\ \A k \in 1..Len(results) : results[k].status # "stopped"
                /\ status = "completed" <=> ~HasFailures(results)

(***************************************************************************)
(* StepExecutor.attempt and the loop: once the run's signal is aborted, or *)
(* the run is over, no handler starts - no retry, no step after it.        *)
(***************************************************************************)
NothingStartsOnceStopped ==
    [][aborted \/ phase = "ended" => going' \subseteq going]_vars

(***************************************************************************)
(* givenAnswer: a Sync run the Production Guard asks about goes through    *)
(* only when the nearest Approval step before it was approved by a person: *)
(* one rejected, left, timed out or passed over since does not count.      *)
(***************************************************************************)
GuardedWritesApproved ==
    \A w \in wrote : steps[w.step].asks =>
        \E i \in 1..w.step - 1 :
            /\ steps[i].kind = "approval" /\ results[i].decision = "approved"
            /\ \A j \in i + 1..w.step - 1 : steps[j].kind # "approval"

(***************************************************************************)
(* runBudget and StepExecutor.attempt: a run that started ends, its steps' *)
(* handlers returning or not, by the handler's return, the step's timeout, *)
(* the gate's or the budget's - unless a Sync that never returns (hung, or *)
(* paused and never resumed) keeps the budget held for good, untimed or    *)
(* given up at its timeout: then only a person's Stop ends the run.        *)
(***************************************************************************)
SyncHoldsOn ==
    /\ budget = "held"
    /\ \E t \in going : Kind(t) = "sync" /\ (InStep /\ t = Current => ~Here.timed)

RunEnds == (status = "running" ~> phase = "ended") \/ <>[]SyncHoldsOn

(***************************************************************************)
(* runPipeline: "The time an Approval step waits for a person is not       *)
(* counted": while its question waits, the held budget counts again only   *)
(* when an earlier handler that holds it too, given up at its timeout,     *)
(* ends at last.  (Then it does count: hold and resume are a flag, not a   *)
(* count of holders.)                                                      *)
(***************************************************************************)
OnlyStrayResumes ==
    [][\A i \in 1..Len(steps) :
          /\ waiting[i] # 0 /\ waiting'[i] = waiting[i]
          /\ budget = "held" /\ budget' = "counting"
          => \E t \in going \ going' : t # Current /\ Holds(t)]_vars
================================================================================
