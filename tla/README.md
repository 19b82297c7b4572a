# SandForge: a verification project

TLA+ models of the parts of SandForge whose correctness depends on the order in
which several actors act: windows of VS Code, processes of one machine, calls
that overlap at their awaits, an org that sends events. The models are checked
with TLC on small instances and, where the property allows, proved with TLAPS
for every value of the constants. `PROJECT.json` lists the components, the runs,
the lines each definition stands for, the hazards and the theorems.

## The system

SandForge is a VS Code extension (`packages/extension/src`), its command line
tools (`packages/extension/cli`), a webview (`packages/webview`) and shared types
(`packages/shared`). One extension host runs per window, so several hosts, and
command line runs, share one machine, one home folder, one `globalState` and the
same Salesforce orgs. Inside a host the code is single threaded: it interleaves
at awaits only. Between hosts it interleaves at every file system call.

| Component | State it keeps | Operations | How it interacts | What is hard |
|---|---|---|---|---|
| Linked lock (`modules/checkpoint/linkedLock.ts`) | a lock file, `heldHere` | acquire, release, holder | checkpoints, rewinds, environments and mute leases run under it | processes that end between two system calls, ids reused, machines that restart |
| ConfigStore (`core/storage`) | a memento per window, the main process's copy | set, delete, clearCategory, clearAll | every module stores through it | each window writes the whole data from a copy that may be old |
| Run markers (`modules/automation/TriggerClaims.ts`, `AutomationHandler.ts`) | a marker file, `held`, a time budget | hold, release, budget hold and resume | starts of a pipeline, from a page or a trigger | a marker is created and written by two calls; a crash leaves it behind |
| Pipeline triggers (`PipelineTriggerScheduler.ts`, `TriggerEngine.ts`) | the plan in globalState, claims as files | look, plan, fire, reload, onSandboxRefresh | start runs, through the markers | several windows find the same start due; looks wait |
| Real-time sessions (`modules/realtime`, `RealtimeHandler.ts`) | connection, buffer, batch, resume points, held changes | start, stop, reconnect, receive, flush, resolve | source org, target org, Production Guard | stop and reconnect race the flush, resume points outlive the session |
| Circuit breaker (`core/connection`, `adapters/ai`) | state, failures, permits | acquirePermit, record, releasePermit | before every connection to an org and every AI request | calls of before the trip end after it |
| Automation-mute leases (`modules/forge/AutomationMuteLease.ts`) | a journal file per org and user, permission sets assigned in the org | take, renew, release, release of stale leases, finish later | under the linked lock; runs of several processes need the same sets | a process ends between the org's answer and the journal's write |
| Offline queue (`core/connection/OfflineManager.ts`) | the queue in memory and in the store, timers | enqueue, probe, drain | syncs that could not reach their org | the one event that drains a sync may be past; a failed replay is dropped |
| Pipeline runs (`PipelineOrchestrator.ts`, `StepExecutor.ts`, `ApprovalGate.ts`, `AutomationHandler.ts`) | the run's results, its signal, its budget, questions waiting | execute, attempt, ask, answer, hold and resume | started through the markers; Sync steps rest on approvals | handlers given up go on; stop, timeout and answer race |
| Org connections (`core/connection`) | credentials in the vault, one pooled connection, `lastValidatedAt` | getJsforceConnection, import, disconnect | every module connects through it; the CLI renews sessions | calls validate, renew and pool side by side at their awaits |
| Sandbox refresh (`SandboxRefreshDetector.ts`, `SandboxRefreshTracker.ts`, `describeCache.ts`) | which org an entry was last, refreshes noticed, cached describes | observe, noteCompletedRefresh, fetch, forgetOrg | told by connections, the Monitor and the production org | answers of the org before the refresh come late; two parties tell of one refresh |
| Retries, sync, forge, rewind journal, environments, ... | see `PROJECT.json` | | | left out, below |

The hosts' handlers (`bridge/handlers`) call the modules; the modules reach orgs
through `getJsforceConnection`, and so through the breaker; they store through
ConfigStore; the runs that write to an org are kept apart by the lock, the
markers or the claims.

What makes each correct: the lock, one process at work at a time and a lock left
behind taken over; the store, no write lost and windows that agree; the markers,
one run of a pipeline at a time and none refused but for a reason; the triggers, each
start made or reported once and none passed over; the sessions, each
change written in order and none skipped by a resume point; the breaker, an org
never locked out and never flooded while it is down; the leases, automation
quiet while a run writes and every set taken back in the end; the queue, each
sync kept until it was replayed, once; the pipeline runs, every step accounted
for and nothing guarded written without the nearest approval; the connections,
sessions that heal and a disconnect that leaves nothing; refresh detection, each
refresh told once and nothing of the old org served.

## Modules

`X.tla` is the component, `MCX.tla` with its `.cfg` files its small instances,
`XProofs.tla` its theorems. The theorems of `CircuitBreaker` and `OrgConnection`,
which one call to an org goes through, are together in `ConnectionProofs`, those of
`TriggerSchedule` and `PipelineRun`, which plan and run a pipeline, in
`AutomationProofs`; the breaker's and the schedule's definitions carry their
component's name where the other one has its own (`BreakerSpec`, `ScheduleSpec`).
`ExclusiveLock` is an abstract specification, which
`LinkedLock` implements and `MuteLease` is built on (next section); otherwise the
modules stand side by side, each abstracting the others to what it needs of them. Where the mutated form of an operator is kept
for the mutation checks, it stands before the operator and says "A mutant".

**LinkedLock.** One lock file, the processes that contend for it, their machines
and the clock. `acquire` is `Begin`, `Link`, `Read`, `Judge`, `Rename`, `PutBack`
and `GiveUp`, a step per system call; `release` is `Release` and `Unlink`;
`holder` is an operator. A lock's token is its owner and its number. `Start`,
`Crash`, `Reboot`, `Tick` and `IoError` are what happens around it. A process is
identified by `owner` where the code compares host, process id and start time:
the code's comparison of start times is the reason an id alone is not enough.

**ConfigStore.** Windows with a memento each, the main process's copy, and the
messages between them. `write` stamps the data with its writer and number, as
`REVISION_KEY` does; `current` chooses between the memento and the last write.
`Keep` and `Echo` are VS Code: a memento changes at once in its own window, is
sent to the main process, and comes back to every window, its own included. Two
windows' messages have no order.

**RunMarkers.** `hold()` call by call (`Begin`, `Create`, `Write`, `Read`,
`Judge`, `Remove`), its fallback to memory (`KeepInMemory`), `End` for
`release()`, and the run's time budget (`Tick`, `HoldBudget`, `ResumeBudget`),
since a marker is believed only for as long as a run was thought to last. With
`MayFail` any of its file system calls may fail: `removeQuietly`, in `Remove` and
`End`, then leaves the marker where it is, and a marker that cannot be read is taken
for one half written. History: `raced`, two holds overlapped; `outlived`, a run
outlived its marker; `misread`, a marker could not be read while a run was going;
`stuck`, the windows that failed to remove the marker there is.

**TriggerSchedule.** `Look` is `lookNow()` up to its await, `LookAt` what follows
it: the starts due since the plan, those on time and those missed, the claims,
the new plan and the start itself (`Fire`), busy or refused cases included. A claim
is a file, or, when the file cannot be made, an entry in the window's own memory
(`claim`, `kept`, `keptRefresh`), which is forgotten as the window closes.
`Switch` is a saved pipeline and `reload()`; `ClaimRefresh` and `FireRefresh` are
the two halves of `onSandboxRefresh()`. Cron expressions are the set `Due`.

**RealtimeSession.** The handler's start (`StartWatching`, `AskGuard`,
`GuardAllows`, `GuardRefuses`), the transport and the subscriptions
(`TransportOpens`, `Accept`, `Refuse`, `Started`), the loss of the connection
(`Down`, `Drained`, `Retry`, `Reopened`), the flow of changes (`Receive`,
`TimerFires`, `TakeBatch`, `Apply`, `Save`, `FlushEnds`), `Stop` and `StopEnds`,
and decisions on held changes (`Decide`, `Decided`). Changes are numbered per
channel, as replay ids are ordered.

**CircuitBreaker.** The breaker's methods as functions of its fields, and the
calls it stands before: `Ask`, then `Succeed`, `Fail`, `Refresh` or `Cancel`,
each ending with the release of the permit in the same step, as the code has no
await between. `guards` chooses an org's validations or an AI provider's
requests, which look at the clock once more after each call. `overtaken` is
history: the breaker became half open before every earlier call had ended.

**MuteLease.** The journal, who made each assignment in the org, and the runs of
several processes. Under the journal's lock (`ExclusiveLock`) a task takes,
renews, ends or finishes a lease: `BeginTake`, `BeginRenew`, `BeginEnd` and
`BeginFinish` read the journal; `LookAt`, `Pass`, `Delete` and `Released` are
`releaseStale` and `releaseLease`; `ReadHeld`, `Create` and `ReadBack` are
`acquireMute`; the `Save...` actions write the journal. A step is one call to the
org or one write. Around it: `Crash`, `Lapse` (a lease past its end), an admin who
assigns and removes sets, and calls that fail, counted together by `MaxTrouble`.
`slipped` is history: assignments whose answer was lost, or whose lookup failed.
`MissingOf` gives the one sequence of the sets the user lacks, in the order the run
needs them, by what distinguishes it and not by a filter, so that it can be reasoned
about.

**OfflineQueue.** Every window's queue, status and timers, and the stored queue
they share. `Enqueue`, `ProbeTick`, `CheckAnswers`, `DrainDue` and `HandedOver`
run from one await or timer to the next; `Open`, `Wire` and `Close` are the
window's life, `Close` at any await. `shared` is history: two windows were open at
once. `cut` names the syncs a window was handing over as it closed.

**PipelineRun.** The orchestrator's loop (`Execute`, `StepStarted`, `StepSkipped`,
`LoopEnds`), a step's tries (`Attempt`, `HandlerReturns`, `HandlerThrows`,
`StepTimesOut`, `AttemptStopped`), the Approval gate (`PageAnswers`,
`NotificationAnswers`, `ApprovalTimesOut`), the budget (`Held`, `Resumed`, `Left`,
`BudgetFires`) and the stop (`Cancel`, `Abort`). A pipeline is a sequence of step
records, an initial choice; a handler given up stays in `going` until `LateReturn`.

**OrgConnection.** One registered sandbox. A call of `getJsforceConnection` is
`Begin`, `Read`, `OrgAnswers` and `Validated`, or `Rejected`, `CliAnswers`,
`Rechecked` and `Recovered`, with `Failed` and `GivesUp` at its awaits. The pool is
one entry: address, token, whether `lastValidatedAt` is recent. The org itself has
a number (a refresh makes it another org), an address and the sessions it accepts;
`Expire`, `Move`, `RefreshStarts` and `RefreshCompletes` change them, the CLI renews
its session when asked (`Renew`). `Observe` is `reportIdentity` with all that
follows it: the detector's record, the notice, `forgetOrg`. `Fetched` is a read of
the production org's history; `MonitorReads` and `MonitorReports` are the Monitor's
question to the sandbox and its late answer. `Import...`, `Disconnect`,
`VaultDeletes` and `Disconnected` are the Organizations page, from await to await;
`ImportFails` and `VaultKeeps` are the vault failing either of them.

## Refinement

`ExclusiveLock` is what a user of the lock file relies on: `Take` of a free lock,
`Free` by its holder, and `Distrust`, after which nothing is promised.
`LinkedLock!ImplementsExclusiveLock` maps `holders` to the processes whose
`heldHere` is set and `trusted` to `NobodyGone` (no process ended, no lock a day
old). TLC checks it in `lock_apart`; `LinkedLockProofs!LockRefines` proves it for
every set of processes and machines. `MuteLease` takes the journal's lock through
`JournalLock!Take` and `JournalLock!Free`: what is shown of the leases rests on the
interface, not on the file protocol. The one step beyond it is that the lock of a
process that ended is free again, which is `LastOneTakesOver` of `LinkedLock`.

## Runs

The runs spend their time on the properties below; `TypeOK`, one in each module,
states what every variable holds and is part of the inductive invariants that the
proofs use.

| Run | Instance | Shows |
|---|---|---|
| `lock_apart` | 3 processes, 2 machines, file system calls failing | implements the exclusive lock, and `holder` right, while nobody is gone |
| `lock_takeover` | 2 processes at once, a third one's lock left, restarts | two survivors stay apart, calls return, the last one takes the lock, no lock without work |
| `store_windows` | 2 windows, 2 keys, 2 writes each | a sole writer loses nothing; windows agree; no write is lost but to a race |
| `marker_holds` | 3 windows, 2 process ids, failures, budgets | holds that do not overlap keep runs apart and are refused for a reason; the last window's hold starts its run unless it cannot remove the marker |
| `schedule_windows` | 2 windows, 2 starts, a refresh, 1 switch or 1 claim kept in memory | each start, and the refresh, settled once at most, and once more for a claim in memory; every start settled in the end, none passed over |
| `realtime_order` | 2 sessions one after the other, 2 changes | no resume point skips a change; written once, in order |
| `realtime_channels` | 1 session that writes, 2 channels | a stopped session is quiet; what is received is processed |
| `breaker_probes` | 3 callers, 2 failures trip | permits come back, rest is kept, one probe, recovery |
| `mute_leases` | 3 runs of 2 processes, 2 sets, an admin, 2 troubles | quiet while writing; nothing assigned is forgotten; an admin's sets stay |
| `offline_queues` | 2 windows, 3 syncs, room for 2 | never parked, kept until replayed, once and in order, drained in the end |
| `pipeline_runs` | every pipeline of 3 steps out of 7 kinds, 8 more | every step accounted for, guarded writes approved, only a given-up step resumes a held budget, nothing starts once stopped, a run ends unless a Sync that never returns holds its budget |
| `org_connections` | 2 calls side by side, a refresh, 2 troubles (another refresh is one), a vault that may fail | a clean disconnect leaves nothing; refreshes told once; nothing of the old org; never back; connections heal unless the pool kept an address the org left or the entry has no credentials |

Why the bounds are enough. The lock and the markers involve a reader, the
process whose file it read and one that acts between; three processes over two
ids have every such case, reuse of an id included. `MaxTakes` 2 lets a process
meet its own earlier lock. Two windows with two writes each have every echo
overtaken by a later write. `Lifetime` 2 and `Budget` 1 are the two kinds of
marker age. A schedule of two starts has a look that finds both due and one that
finds them apart; with `Limit` 1 it reaches the report's limit (a planned start and
one later) and does not pass it. `MaxTrouble` 1 has one claim made by file in one
window and in memory in the other. Two changes with a batch of one have a batch written while another waits.
Three callers have a probe, a late call and a call refused. Of the leases, one run
needs both sets and two need one of them, two of the runs in one process: two
troubles have a crash followed by a failure of what clears up after it. Three syncs
and room for two fill the queue. Three steps have an approval, another and what
rests on them; the templates carry retries, timeouts, routes and conditions. Two
calls have one that pools beside one that recovers; two refreshes have an answer of
one org delivered after the next, and a report of one refresh beside another. An
import of an entry that was disconnected and a failure of the vault are not counted
as trouble, so that a disconnect, the import after it and its failure all happen; two
troubles have a disconnect and a failure beside a refresh, so that a renewal whose save
fails after the disconnect happens too. Describes and reads of the Monitor are counted
as trouble, to keep the run small; the first refresh is not. Deadlock is not
checked where the bounds (takes, writes, runs, time) or the system itself (every
window closed, every session stopped) end a behaviour; the breaker's run checks
it.

## Fairness

Every liveness property is checked under fairness the code's scheduling gives:

- `LinkedLock`, `RunMarkers`: a process that does not end goes on to its next
  system call; `acquire` and `hold` are synchronous.
- `TriggerSchedule`: an open window is told of the plan and looks once a minute
  (its interval timer), `problemsOf()` answers, runs end within their budget.
- `RealtimeSession`: timers fire, promises settle, the org answers each request
  and delivers what it holds to a live subscription. Nothing makes people start,
  stop or decide.
- `CircuitBreaker`: time passes, calls go on being made, a pooled connection
  comes to be revalidated after five minutes, and a call is answered or meets
  its deadline. The last is strong fairness, since an AI request may be cancelled
  before it is answered: it says that not every request is cancelled for ever.
- `OfflineQueue`: timers fire, probes answer (the production probe aborts before
  the check's deadline), handlers return.
- `PipelineRun`: timers fire (the step's, the gate's, the budget's) and the loop goes
  on. No handler is taken to return, and nobody to answer or stop.
- `OrgConnection`: each caller keeps asking and its call goes on (every check and
  every CLI command has a deadline), and the pool's entry ages. Nothing makes a person
  import, log in or leave, or the vault answer an import.

## Proofs

| Theorem | Says, for every value of the constants |
|---|---|
| `LinkedLockProofs!TypeCorrect` | types; `acquire` never passes its three tries |
| `LinkedLockProofs!LockKeepsApart` | exclusive while nobody is gone and no lock is a day old |
| `LinkedLockProofs!HolderIsRight` | `holder()` names the process at work, likewise |
| `LinkedLockProofs!NoLockLeftBehind` | a lock file names work under way, when in addition no file system call fails |
| `LinkedLockProofs!LockRefines` | the protocol implements `ExclusiveLock` |
| `LinkedLockProofs!TakeOverKeepsApart` | two processes at a time stay apart after others have ended, unless one ended in the middle of `takeAway` |
| `ConfigStoreProofs!SoleWriterLosesNothing` | a sole writer reads every entry it wrote |
| `ConfigStoreProofs!WindowsComeToAgree` | once every message has arrived, every open window reads what the main process keeps |
| `ConfigStoreProofs!NoWriteLostUnlessRaced` | while no write raced, a window with nothing on its way to it reads the latest of every key |
| `RunMarkersProofs!MarkersKeepRunsApart` | runs apart when holds do not overlap and no run outlives its marker |
| `RunMarkersProofs!HoldsRefusedForAReason` | holds that do not overlap are refused only by a run that is going or ended since, a marker somebody failed to remove, or a reused process id |
| `ConnectionProofs!BreakerTyped` | the counters stay natural numbers |
| `ConnectionProofs!PermitsComeBack` | no permit taken without its probe |
| `ConnectionProofs!LateFailuresReopen` | half open only after a rest without failures |
| `ConnectionProofs!ProbesOneByOne` | one probe at a time |
| `AutomationProofs!OneWindowStartsIt` | types; a start, and a refresh, made or reported once at most, and once more for each claim of it kept in memory |
| `AutomationProofs!StepsAccounted` | results name the steps one by one, a completed run has them all, a refused one runs nothing |
| `AutomationProofs!SyncsAreApproved` | a guarded Sync rests on the nearest approval before it |
| `AutomationProofs!StoppedStartsNothing` | no handler starts once the run is stopped or over |
| `AutomationProofs!HeldUnlessStray` | only a handler given up earlier resumes a held budget |
| `OfflineQueueProofs!QueueNeverParked` | types; something queued is always on its way out |
| `OfflineQueueProofs!QueuedIsKept` | a sync queued was handed back or is kept, one window at a time |
| `OfflineQueueProofs!HandedBackInOrder` | once and in order, one window at a time |
| `RealtimeSessionProofs!RealtimeTypes` | types |
| `RealtimeSessionProofs!ResumesRightAfter` | no resume point skips a change of a channel |
| `RealtimeSessionProofs!StopIsFinal` | a session whose stop returned writes no more |
| `RealtimeSessionProofs!WrittenInOrder` | undisturbed, each change is written once and in order |
| `MuteLeaseProofs!LeaseTypes` | types |
| `MuteLeaseProofs!MutedWhileWriting` | a run whose lease did not run out writes with every set it needs assigned |
| `MuteLeaseProofs!JournalLeads` | the journal on disk leads to every assignment of a run |
| `MuteLeaseProofs!AdminsSetsStay` | while nothing fails, what an admin assigned stays |
| `ConnectionProofs!TypesHold` | types |
| `ConnectionProofs!DisconnectHolds` | a clean disconnect leaves nothing, and nothing comes back |
| `ConnectionProofs!RefreshToldOnce` | no refresh told twice, whatever their number |
| `ConnectionProofs!OldOrgForgotten` | no describe of an org before a refresh that was told |
| `ConnectionProofs!EntryNeverBack` | the entry never goes back to an org it was |

Each safety theorem rests on an inductive invariant stronger than itself.

- *Linked lock.* `IInv` adds what each step of `acquire` knows: while nobody is
  gone every lock was made by a running process, so a process judges only its own
  forgotten lock to be gone, and what it moves aside or unlinks is that lock.
  Without it the move in `takeAway` could be of anybody's lock, which is exactly
  what happens once a process has ended (below). The refinement follows from the
  same invariant: when the name is free nobody holds the lock, so a link that
  succeeds is a `Take`; a forgotten lock is a `Free`; a step after which somebody is
  gone is a `Distrust`, and somebody gone stays gone; every other step stutters. For
  `NoLockLeftBehind`, `NothingLeft` adds that without failures no process gets as
  far as moving a lock aside. After processes have ended (`Survivors`) a lock in use
  is in the file, or the other process has it aside while the file is absent; what a
  process judged gone is its own or of a process that is gone, which never runs again,
  so the lock it finds aside is not the judged one and goes back. A third process
  alone could link the name meanwhile.
- *ConfigStore.* `AllStamped`: data under way carries no number above its
  writer's count, and the highest number only on the last write. A memento's
  echo of the window's own earlier write is thereby always recognised. That windows
  agree needs what the queues end with (`AgreeInv`): the last data on its way to a
  window is what the main process keeps, and a window's own last write is the last
  it sends. That no write is lost needs in addition, while nothing raced (`Unraced`),
  that one window at most has writes under way, that its last one is the latest, and
  that no echo of a window's own write follows another window's data: otherwise the
  store would prefer a replaced write of its own for a while and build on it.
- *Run markers.* `HoldKnows`: at each step of a hold, what is known of the runs
  going. A hold about to remove a marker knows that no run is marked. Why a marker is
  there is accounted for (`MarkerAccounted`): once written it names a run that is going,
  one of a window that is gone, or somebody failed to remove it, and whoever failed so is
  on record only while a marker is there (`StuckIsThere`); from these follow the reasons
  of a refusal (`Reasons`).
- *Breaker.* A permit counted is bounded by the probes under way; releases by
  calls that took none are harmless as the counter stops at zero. For one probe
  at a time, `ProbeHasPermit` says that a probe is alone and that the permit is
  still counted.
- *Triggers.* A start is settled no more often than it was claimed, by its file once
  and by memories (`SettledAreClaimed`), so a second window's `claim()` refuses it
  unless it falls back; a plan is an instant `nextRun()` gave
  (`PlansAreDue`), so what a look settles is a start of the schedule and not an
  instant nobody claims. Each claim of the refresh is of one window, which makes
  it or closes (`RefreshClaimed`). The least and greatest start of a look exist by the
  well-foundedness of the naturals (`NatMin`, `BoundedMax`).
- *Pipeline runs.* `Walk`: the run is right behind its results, and none of them was
  stopped. `Gate`: a question that waits is that of the try in progress, whose
  handler has not returned, so an answer reaches the step the run is at. `Writes`: a
  Sync that went through is of a step taken or the one the run is at; what comes
  later is appended, so the nearest approval before it stays the nearest. A pipeline
  that was refused is kept apart (`NothingRan`): nothing is known of its routes.
- *Offline queue.* `Timers`: the probe timer runs exactly while something is queued
  or the network is known to be down; with it a queue cannot be parked. While one
  window at a time is open, what is kept is the end of what was queued
  (`KeptIsTheEnd`), what left it was handed back, and of the rest the head alone may
  have been (`HandedBack`).
- *Org connections.* `Disconnecting`: between the three steps of a disconnect with
  nothing under way, no call is out and nothing is pooled. `OrgsSeen`: an answer
  under way, the Monitor's too (`MonitorKnown`), is of an org the record knows or of
  the org the sandbox is, so it is recognised as late or is new. `Telling`: a refresh that was told has been seen in
  the production org's history, or is found told there, and waits for the sandbox's
  answer or has had it; each of the two ways of telling therefore finds that the
  other came first.

- *Real-time sessions.* `Control` says where a session may be: no batch without a
  flush (`Flushing`), nothing received that it still keeps while it is stopped,
  pausing or opening a connection (`Connecting`, `Emptying`), and nothing of a
  channel it has yet to subscribe to (`Subscribed`). On it rests `Reading`: what a
  session keeps of a channel, its batch before its buffer, is in order and goes on
  from what is finished with, and what it is sent next goes on from that
  (`KeptInOrder`). A resume point is saved from a batch, so nothing is missing below
  it. For the order of writes, `Undisturbed` adds that all sessions but one are
  `Quiet`, that what is kept is newer than what was written (`NewerKept`), and that
  what was written is saved as the point or is still in the batch that will save it
  (`Saved`): a session that starts from the point then starts after it.
- *Leases, quiet while writing.* `Held` and `HolderAt` say where the one holder of
  the journal's lock is and what it has in memory, `Phases` what the journal has of a
  run at each phase: a run that writes has nothing left to assign. `Spared`: its lease
  is in force on disk and in memory, and is among those a release under way passes
  assignments to. A deletion happens only when no such lease needs the set, so it is
  of a set no writing run needs.
- *Leases, nothing forgotten.* `Trail`. What the holder of the lock has in memory
  leads to every assignment, or the release under way has it in hand (`Traces`), so
  that each write of the journal leads to them too; and an assignment is made only
  while disk and memory agree and name its set first. What a release put off must
  remember is in `Later` and `Hands`: the line on disk may still name the set as being
  assigned, its id known in memory alone. That what it remembers as taken back is
  so (`Back`) needs that no run assigns a set once more after it was taken back,
  hence that nothing is known of a run's assignments before its lease is written
  (`Unseen`). With the line of a release forgotten, whatever the org kept of it, the
  one step that fails is the end of the release.
- *Leases, an admin's sets.* `Kept`: while nothing failed no line is in doubt but
  that of the holder, so nothing is looked up, and what lines and releases list was
  assigned by runs.

Assumptions: those named in the modules (`ASSUME`), all evaluated by the runs.
Notably a time budget below a marker's lifetime, positive thresholds, and
distinguished values for "nothing".

Only model-checked: the liveness properties (`CallsReturn`, `LastOneTakesOver`,
`LastWindowRuns`, `DueIsSettled`, `ReceivedIsProcessed`, `Recovers`, `DrainedOnceBack`,
`RunEnds`, `Heals`), as TLAPS does not reason about fairness. Every safety property a
run checks is a theorem; `ImplementsExclusiveLock` is `LockRefines`.

## Disagreements met

Where the code does other than a comment says, or than one would expect. Each was
seen in a trace of the models. Where a property excepts one of them it names the
exception (`LeftAside`, `raced`, `outlived`, `misread`, `stuck`, `kept`, `overtaken`,
`slipped`, `cut`, `LeftAddress`, `NoCredentials`, `SyncHoldsOn`), so that what is
checked is that nothing else goes wrong.

- *Lock, three takers.* `takeAway` renames whatever lock the name holds by then
  (`linkedLock.ts:243`). If it is the lock a second process has just taken, the name
  is free until it is linked back, and a third process may take it: two at work,
  against "A lock one process of this machine holds at a time" (`:2`). The same
  happens with two processes at a time when the one that moved the lock ends before
  it has put it back: the name stays free, and the next process takes it. The second
  was met in looking for the invariant of `TakeOverKeepsApart`; it takes four
  processes, and `lock_takeover` has three. `TwoStayApart` excepts both.
- *Store, a write lost.* Two windows write different keys before either has heard
  of the other; the later data replaces the earlier whole (`ConfigStore.ts:213`),
  against "every write re-reads it and changes only the entries it names" (`:41`).
  `KeptUnlessRaced` excepts exactly this.
- *Marker, read while empty.* A marker between `openSync` and `writeSync` is taken
  for a stale one and removed (`TriggerClaims.ts:225`): two runs, against "the one
  window whose create succeeds holds the claim" (`:112`). `OneRunUnlessRaced`
  excepts holds that overlap.
- *Marker, not removed.* `removeQuietly` swallows an unlink that fails
  (`TriggerClaims.ts:165-171`). The marker of a run that ended then goes on being
  believed by other windows while its window is open, for 65 minutes at most
  (`:203-206`); and a stale marker that cannot be removed meets the second create,
  and the hold is refused although nothing runs (`:225-234`), against "triggers keep
  firing" (`:115-118`). `RefusedForAReason` and `LastWindowRuns` except the windows
  that failed so (`stuck`).
- *Marker, not read.* A read that fails is taken for a marker half written
  (`TriggerClaims.ts:156-159`): the marker of a run that is going is removed, and a
  second run starts. `OneRunUnlessRaced` excepts it (`misread`).
- *Claims in memory.* When the file of a claim cannot be made each window asks its own
  memory (`TriggerClaims.ts:181-182`): two windows then make or report one start or
  one refresh, against "exactly one of them makes it or
  reports it" (`PipelineTriggerScheduler.ts:179`).
  `SettledOnce` allows one for each window that fell back (`kept`, `keptRefresh`).
- *Entry without credentials.* `saveOrg` lists the entry and then goes to the vault
  (`OrgRegistry.ts:188-193`). A write that fails once the old credentials are gone - an
  import after a disconnect, a renewal during one - leaves an entry of which every call
  throws (`ConnectionHelper.ts:437`) until it is imported again, against "heals on its
  own" (`:418`). `Heals` excepts it (`NoCredentials`). And a delete the vault fails
  leaves the org listed, its credentials kept, in the window that disconnected it
  (`OrgRegistry.ts:199`), while the stored entry is gone already: there it goes on
  working until that window is reloaded.
- *A Sync that never returns.* Sync steps hold the run's budget until they return
  (`AutomationHandler.ts:379-383`). One that hangs, or that is paused in Live
  Operations and never resumed (`PauseGate.ts:43-54`), keeps it held, untimed or given
  up at its step's timeout: the run, or a later step that never returns either, is
  ended by nothing but a Stop. `RunEnds` excepts it (`SyncHoldsOn`).
- *Real time, not replayed.* A channel stopped before its first batch has no resume
  point, and what was received is not asked for again (`RealtimeSession.ts:189`),
  against "replayed, not lost" (`:95`).
- *Leases, forgotten sets.* A lookup that fails is read as one that found nothing
  (`AutomationMuteLease.ts:559`), and the set a process died assigning stays
  assigned with nothing that names it, against "the release looks it up" (`:236`). A
  create whose answer is lost is likewise undone without it (`:1094`).
  `NothingForgotten` excepts both (`slipped`). After a crash a lookup by user and
  set may take an admin's assignment for the dead run's (`AdminsKept` excepts it).
- *Offline queue.* "So when a probe is available, check first"
  (`OfflineManager.ts:430`): the drain timer set for one sync also replays one queued
  after its check (`:456`), into a network that may be down again. And two windows
  that load one stored queue each keep their whole copy back: syncs are replayed
  twice or lost; `KeptUntilReplayed` and `ReplayedOnceInOrder` are for one window at
  a time.
- *Pipeline budget.* Hold and resume are a flag, not a count
  (`AutomationHandler.ts:383`): a Sync given up at its timeout resumes, when it ends
  at last, the budget a later Approval holds, against "The time an Approval step
  waits for a person is not counted" (`:1181`). `OnlyStrayResumes` shows that nothing
  else resumes it.
- *Approval notifications.* The gate's map is keyed by run and step: when an Approval
  step is tried again, a button pressed on the first try's notification answers the
  second's question, against "told the question no longer waits"
  (`ApprovalGate.ts:58-61`). `GuardedWritesApproved` counts that answer as one given.
- *Connections, an address kept.* `ConnectionPool.acquire` of an org that is pooled
  takes the new token and keeps the old address (`ConnectionPool.ts:59`). A call
  that recovers beside one that pooled the address the org has left pools a session
  that works nowhere, and every pool hit is handed it, against "an expired session
  heals on its own" (`ConnectionHelper.ts:418`): once it has aged the check
  succeeds at the vault's address and renews the entry with the pool's. `Heals`
  excepts it (`LeftAddress`).
- *Disconnect.* A call or an import under way when an org is disconnected pools or
  saves it again (`OrgHandler.ts:803-808`). `DisconnectedIsGone` is for a disconnect
  with nothing under way.
- *Refresh notices.* A production report that comes late, once the sandbox has
  answered as the next org, stays pending, and the refresh after that completes it
  instead of being told (`SandboxRefreshDetector.ts:235`); this takes three refreshes.
  `forgetOrg` runs only for a refresh that is told, so the describe of the org before
  it goes on being served until the production org reports it. This was met as the
  proof of `NothingOfTheOldOrg` failed for a third refresh, where the run has two;
  the property excepts a refresh not told, and `OldOrgForgotten` proves it for every
  number of them.
  And an answer of an org that was never recorded, delivered after a newer org's, takes
  the record back to it; the true org is then ignored as a former one (`:230`). The
  model excludes this by assuming that an org answers before the answer under way as
  its refresh completes.
- *Lock.* A process whose lock has been taken over after a day compares the
  token and then unlinks in two calls; the new holder's file may go with the
  second (`linkedLock.ts:181`). And a lock its owner released while another
  process had it aside is linked back, and refuses everybody until its owner
  takes it over or ends (`:250`).
- *Markers.* An Approval or a module's step holds the budget, so a run can last
  longer than the 65 minutes its marker is believed for; another window then
  runs the pipeline beside it (`AutomationHandler.ts:329,350,380` against
  `TriggerClaims.ts:65`).
- *Real time.* A stop while the connection opens leaves the connection that then
  opens without an owner (`RealtimeSession.ts:265`). A connection lost while the
  session subscribes is never reopened: `reconnect()` acts only on a session
  that is syncing (`:276`). Two starts that both wait for the Production Guard
  both go on (`RealtimeHandler.ts:531`, `:688`). A held change can be counted as
  dropped by a stop and still be written by a decision under way
  (`RealtimeSession.ts:191`).
- *Schedule.* `now` is read before the await of `problemsOf()`, so a start is
  "on time" however long that takes (`PipelineTriggerScheduler.ts:346`). A window
  just opened reports "VS Code was closed" for a start that another open window
  was about to make (`:444`). Two windows may both add an entry to one run's
  history (`:197`). A refresh claimed by a window that closes before it fires is
  lost (`:255`). With more missed starts than the report's limit and two windows
  with different plans, a start can be neither made nor counted (`:441`).
- *Breaker.* The validation of an org may last two 20-second deadlines and a CLI
  call, longer than the 30 seconds after which the breaker is half open. Such a
  call gives back the probe's permit when it ends, and a second probe may go
  beside the first. `OneProbe` excepts these (`overtaken`).

## Assumptions of the models

- The probe of the offline queue answers before its check's deadline.
- The lock of a process that ended is free again (`MuteLease`).
- A sandbox is refreshed a day after the last refresh at the earliest: an org with
  an answer under way as its refresh completes has answered before.
- The sf CLI, when it can renew, gives a session the org accepts. Its two commands
  for one renewal are one step.
- The machines that share a home folder share a clock.
- `hold()` takes no measurable time; minutes pass outside it.
- What a window writes to `globalState` is known in every window within a
  minute. Claims are not pruned within the run (they are kept for two days).
- A connected real-time session is never three days behind the org.
- A subscribe request and its answer are one step of the session.
- An org that answers can also have its session renewed (`up`).
- The breaker's failure count stops at the threshold, and its age at the reset
  timeout: it is compared with nothing beyond.

## Not modelled

- *Data transformations*: field mapping, anonymising, generation, diffing, SOQL,
  CSV, reports, migrations. Sequential, large, and well served by unit tests.
- *Pure I/O*: the sf CLI, the transports, the vault, dialogs, the webview.
- *Test-only entry points*: `resetCircuitBreakers`, `resetConnectionValidation`,
  `clearQueue`, `removeFromQueue`, `executeBatch`.
- *Caches other than the describes* that `forgetOrg` clears: the same call clears
  them, each in its handler.
- *Most of the repository by size*: `ForgeExecutor`, the clone command line, the
  frozen dataset loader, DataOps and their handlers are long sequential programs
  over records and metadata. Their order-dependent parts (the run journal, the
  rewind journal, the masking checkpoint, the environment state) are listed below;
  the rest is data, and a model of it would be a transliteration.

## Plan

Done: the lock, the store, the markers, the triggers, the sessions, the breaker, the
leases over an abstract lock, the offline queue, pipeline runs, org connections with
refresh detection, and a theorem for every safety property. Next, in this order:

1. `RewindJournal` (`rewindJournal.ts`, `rewindLedger.ts`): resuming after a crash at
   any line of the journal, under `ExclusiveLock`.
2. `EnvApply` (`cli/env`): apply, state, lock, recover, under `ExclusiveLock`.
3. `RealtimeApplier`: one record of the target, held changes decided late.
4. `RetryAndPause` (`RetryableOperation.ts`, `PauseGate.ts`, bulk executors).
