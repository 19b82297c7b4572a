---------------------------- MODULE MCPipelineRun ----------------------------
(* Pipelines that meet every route, refusal, retry and approval. *)
EXTENDS PipelineRun

Plain == [kind |-> "plain", when |-> FALSE, onSuccess |-> 0, onFailure |-> 0,
          continueOnError |-> FALSE, retries |-> 0, timed |-> FALSE, asks |-> FALSE]
Approval == [Plain EXCEPT !.kind = "approval"]
Sync == [Plain EXCEPT !.kind = "sync"]
Condition == [Plain EXCEPT !.kind = "condition"]

Retried(s) == [s EXCEPT !.retries = 1, !.timed = TRUE]
GoesOn(s) == [s EXCEPT !.continueOnError = TRUE]
Asks(s) == [s EXCEPT !.asks = TRUE]
When(s) == [s EXCEPT !.when = TRUE]

(* Two approvals before a guarded Sync, each of which may be retried. *)
Approved == <<GoesOn(Retried(Approval)), When(GoesOn(Approval)),
              GoesOn(Asks(Retried(Sync)))>>

(* A Sync given up before an Approval waits. *)
SyncFirst == <<GoesOn(Retried(Sync)), GoesOn(Approval), Asks(Sync)>>

(* Routes: past a step on success, past two on failure, a Condition last. *)
Routed == <<[Condition EXCEPT !.onFailure = 4], When([GoesOn(Retried(Plain)) EXCEPT !.onSuccess = 4]),
            Sync, Condition, When(Plain)>>

(* A step that does not hold the budget given up before an Approval waits. *)
PlainFirst == <<GoesOn(Retried(Plain)), GoesOn(Approval)>>

Small == {Approved, SyncFirst, PlainFirst, Routed,
          <<Plain, [Plain EXCEPT !.onFailure = 1]>>,
          <<[Plain EXCEPT !.onSuccess = 1]>>,
          <<Asks(Sync), Approval>>,
          <<Plain, [Plain EXCEPT !.kind = "restore"]>>}

(* Every pipeline of three such steps, runnable or not. *)
Templates == {GoesOn(Retried(Approval)), When(Approval), Asks(Sync), GoesOn(Retried(Sync)),
              Retried(GoesOn(Plain)), [Condition EXCEPT !.onFailure = 3],
              [GoesOn(Plain) EXCEPT !.onSuccess = 3]}

Many == Small \cup [1..3 -> Templates]
================================================================================
