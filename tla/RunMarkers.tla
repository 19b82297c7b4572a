------------------------------ MODULE RunMarkers ------------------------------
(***************************************************************************)
(* The run marker of one pipeline: hold() of automation/TriggerClaims.ts,   *)
(* by which the windows of VS Code open on a machine run the pipeline one   *)
(* at a time, and the time budget of the run it is held for                 *)
(* (bridge/handlers/AutomationHandler.ts).                                  *)
(*                                                                          *)
(* Each window is a process; a file system call on the marker is a step.    *)
(* Unlike a linked lock, the marker is created empty and written after.     *)
(***************************************************************************)
EXTENDS Naturals

CONSTANTS
    Window,     \* the windows that ever open, each a process of its own
    Pid,        \* the process ids the machine hands out, reused once free
    Lifetime,   \* MARKER_LIFETIME_MS
    Budget,     \* sandforge.pipeline.timeout, an hour at most
    MayFail,    \* whether file system calls may fail
    NoRun,      \* no marker file, and no run
    MaxTime,    \* bound: the last instant
    MaxRuns     \* bound: holds of one window

ASSUME RunAssumption ==
    /\ Lifetime \in Nat /\ Budget \in Nat /\ Budget < Lifetime
    /\ MayFail \in BOOLEAN
    /\ MaxTime \in Nat /\ MaxRuns \in Nat

Tries == 2       \* the tries of one hold

(* A run as its marker names it: the window, which of its runs, when the    *)
(* marker was made.                                                         *)
Run == [owner : Window, n : Nat, at : Nat]

ASSUME NoRunAssumption == NoRun \notin Run

VARIABLES
    marker,     \* the run whose marker file is there, or NoRun
    whole,      \* whether that file is written, or still empty
    status,     \* "new", "open" or "gone", per window
    pid,        \* the process id of each window
    now,        \* the clock
    held,       \* held of each window: the run going in it, or NoRun
    inMemory,   \* whether that run is kept in the window's memory alone
    pc,         \* where each window is in hold()
    attempt,    \* the try hold() is at
    mine,       \* the run hold() is called for
    seen,       \* the marker hold() read: NoRun when gone or half written
    runs,       \* how many holds each window began
    used,       \* the budget each window's run has used
    waiting,    \* whether the budget is held: an Approval or a module's step
    raced,      \* history: a hold began while another window was in one
    outlived,   \* history: a run lasted as long as a marker is believed
    misread,    \* history: a marker could not be read while a run was going
    stuck       \* history: the windows that failed to remove the marker there is

machine == <<status, pid, now>>
budget == <<used, waiting>>
history == <<raced, outlived, misread, stuck>>
vars == <<marker, whole, status, pid, now, held, inMemory, pc, attempt, mine,
          seen, runs, used, waiting, raced, outlived, misread, stuck>>

IsOpen(w) == status[w] = "open"
Going(w) == held[w] # NoRun
Marked(w) == Going(w) /\ ~ inMemory[w]

processIsAlive(id) == \E v \in Window : IsOpen(v) /\ pid[v] = id

(* A mutant: a marker is believed for as long as a run may count. *)
LiveForBudget(w, run) ==
    /\ pid[run.owner] # pid[w]
    /\ processIsAlive(pid[run.owner])
    /\ now < run.at + Budget

(* Does w believe the marker it read?  One of its own process id is left by *)
(* a crash: w looked in `held` first.                                       *)
isLive(w, run) ==
    /\ pid[run.owner] # pid[w]
    /\ processIsAlive(pid[run.owner])
    /\ now < run.at + Lifetime

-----------------------------------------------------------------------------
Init ==
    /\ marker = NoRun /\ whole = FALSE
    /\ status = [w \in Window |-> "new"]
    /\ \E id \in Pid : pid = [w \in Window |-> id]
    /\ now = 0
    /\ held = [w \in Window |-> NoRun]
    /\ inMemory = [w \in Window |-> FALSE]
    /\ pc = [w \in Window |-> "idle"]
    /\ attempt = [w \in Window |-> 0]
    /\ mine = [w \in Window |-> NoRun]
    /\ seen = [w \in Window |-> NoRun]
    /\ runs = [w \in Window |-> 0]
    /\ used = [w \in Window |-> 0]
    /\ waiting = [w \in Window |-> FALSE]
    /\ raced = FALSE /\ outlived = FALSE /\ misread = FALSE
    /\ stuck = {}

Open(w) ==
    /\ status[w] = "new"
    /\ \E id \in Pid :
          /\ ~ processIsAlive(id)
          /\ pid' = [pid EXCEPT ![w] = id]
    /\ status' = [status EXCEPT ![w] = "open"]
    /\ UNCHANGED <<marker, whole, now, held, inMemory, pc, attempt, mine, seen,
                   runs, budget, history>>

(* The extension host ends, its run with it; the marker file stays. *)
Crash(w) ==
    /\ IsOpen(w)
    /\ status' = [status EXCEPT ![w] = "gone"]
    /\ held' = [held EXCEPT ![w] = NoRun]
    /\ inMemory' = [inMemory EXCEPT ![w] = FALSE]
    /\ pc' = [pc EXCEPT ![w] = "idle"]
    /\ attempt' = [attempt EXCEPT ![w] = 0]
    /\ mine' = [mine EXCEPT ![w] = NoRun]
    /\ seen' = [seen EXCEPT ![w] = NoRun]
    /\ used' = [used EXCEPT ![w] = 0]
    /\ waiting' = [waiting EXCEPT ![w] = FALSE]
    /\ UNCHANGED <<marker, whole, pid, now, runs, history>>

(* Time passes, and counts against the budget of every run that does not    *)
(* hold it.  A run that has used its budget is stopped before more passes.  *)
(* hold() is a few calls of one turn of the event loop: minutes do not pass *)
(* inside it.                                                               *)
Tick ==
    /\ now < MaxTime
    /\ \A w \in Window : pc[w] = "idle"
    /\ \A w \in Window : Going(w) /\ ~ waiting[w] => used[w] < Budget
    /\ now' = now + 1
    /\ used' = [w \in Window |->
                  IF Going(w) /\ ~ waiting[w] THEN used[w] + 1 ELSE used[w]]
    /\ outlived' = (outlived \/ \E w \in Window : Marked(w) /\ now' >= held[w].at + Lifetime)
    /\ UNCHANGED <<marker, whole, status, pid, held, inMemory, pc, attempt, mine,
                   seen, runs, waiting, raced, misread, stuck>>

-----------------------------------------------------------------------------
(* hold() returns: its locals are gone. *)
Return(w) ==
    /\ pc' = [pc EXCEPT ![w] = "idle"]
    /\ attempt' = [attempt EXCEPT ![w] = 0]
    /\ mine' = [mine EXCEPT ![w] = NoRun]
    /\ seen' = [seen EXCEPT ![w] = NoRun]

(* hold(): busy at once when a run of this window is going (no change). *)
Begin(w) ==
    /\ IsOpen(w) /\ pc[w] = "idle"
    /\ ~ Going(w)
    /\ runs[w] < MaxRuns
    /\ runs' = [runs EXCEPT ![w] = @ + 1]
    /\ mine' = [mine EXCEPT ![w] = [owner |-> w, n |-> runs[w], at |-> now]]
    /\ pc' = [pc EXCEPT ![w] = "create"]
    /\ raced' = (raced \/ \E v \in Window : pc[v] # "idle")
    /\ UNCHANGED <<marker, whole, machine, held, inMemory, attempt, seen, budget, outlived,
                   misread, stuck>>

(* openSync(file, 'wx') *)
Create(w) ==
    /\ IsOpen(w) /\ pc[w] = "create"
    /\ IF marker = NoRun
         THEN /\ marker' = mine[w] /\ whole' = FALSE
              /\ pc' = [pc EXCEPT ![w] = "write"]
         ELSE /\ pc' = [pc EXCEPT ![w] = "read"]
              /\ UNCHANGED <<marker, whole>>
    /\ UNCHANGED <<machine, held, inMemory, attempt, mine, seen, runs, budget, history>>

(* The run starts: a full budget, counted. *)
StartRun(w, memory) ==
    /\ held' = [held EXCEPT ![w] = mine[w]]
    /\ inMemory' = [inMemory EXCEPT ![w] = memory]
    /\ used' = [used EXCEPT ![w] = 0]
    /\ Return(w)

(* writeSync(fd): into the file created, were it unlinked meanwhile. *)
Write(w) ==
    /\ IsOpen(w) /\ pc[w] = "write"
    /\ whole' = (whole \/ marker = mine[w])
    /\ StartRun(w, FALSE)
    /\ UNCHANGED <<marker, machine, runs, waiting, history>>

(* readMarker(): a file gone or half written is no run anyone can prove, nor *)
(* is one that cannot be read.                                              *)
Read(w) ==
    /\ IsOpen(w) /\ pc[w] = "read"
    /\ \/ /\ seen' = [seen EXCEPT ![w] = IF whole THEN marker ELSE NoRun]
          /\ UNCHANGED misread
       \/ /\ MayFail
          /\ seen' = [seen EXCEPT ![w] = NoRun]
          /\ misread' = (misread \/ \E v \in Window : Marked(v))
    /\ pc' = [pc EXCEPT ![w] = "judge"]
    /\ UNCHANGED <<marker, whole, machine, held, inMemory, attempt, mine, runs, budget,
                   raced, outlived, stuck>>

(* A mutant: the age of a marker is all that counts. *)
JudgeByAge(w) ==
    /\ IsOpen(w) /\ pc[w] = "judge"
    /\ IF seen[w] # NoRun /\ now < seen[w].at + Lifetime
         THEN Return(w)
         ELSE /\ pc' = [pc EXCEPT ![w] = "remove"]
              /\ seen' = [seen EXCEPT ![w] = NoRun]
              /\ UNCHANGED <<attempt, mine>>
    /\ UNCHANGED <<marker, whole, machine, held, inMemory, runs, budget, history>>

(* A marker that is live refuses the run; any other is about to be removed. *)
Judge(w) ==
    /\ IsOpen(w) /\ pc[w] = "judge"
    /\ IF seen[w] # NoRun /\ isLive(w, seen[w])
         THEN Return(w)
         ELSE /\ pc' = [pc EXCEPT ![w] = "remove"]
              /\ seen' = [seen EXCEPT ![w] = NoRun]
              /\ UNCHANGED <<attempt, mine>>
    /\ UNCHANGED <<marker, whole, machine, held, inMemory, runs, budget, history>>

(* removeQuietly(file), by w: whatever marker is there by now.  When the     *)
(* unlink fails the marker stays and nobody hears of it.                    *)
removeQuietly(w) ==
    \/ marker' = NoRun /\ whole' = FALSE /\ stuck' = {}
    \/ /\ MayFail /\ marker # NoRun
       /\ stuck' = stuck \cup {w}
       /\ UNCHANGED <<marker, whole>>

(* A marker that is not believed is removed; then the next try, or a refusal *)
(* once the tries are up.                                                   *)
Remove(w) ==
    /\ IsOpen(w) /\ pc[w] = "remove"
    /\ removeQuietly(w)
    /\ IF attempt[w] + 1 < Tries
         THEN /\ pc' = [pc EXCEPT ![w] = "create"]
              /\ attempt' = [attempt EXCEPT ![w] = @ + 1]
              /\ UNCHANGED <<mine, seen>>
         ELSE Return(w)
    /\ UNCHANGED <<machine, held, inMemory, runs, budget, raced, outlived, misread>>

(* Creating or writing the marker fails for another reason than its being   *)
(* there: the run is kept in this window's memory, and starts.              *)
KeepInMemory(w) ==
    /\ MayFail
    /\ IsOpen(w) /\ pc[w] \in {"create", "write"}
    /\ StartRun(w, TRUE)
    /\ UNCHANGED <<marker, whole, machine, runs, waiting, history>>

(* A mutant: release() leaves the marker. *)
EndKeepingMarker(w) ==
    /\ IsOpen(w) /\ Going(w)
    /\ held' = [held EXCEPT ![w] = NoRun]
    /\ inMemory' = [inMemory EXCEPT ![w] = FALSE]
    /\ waiting' = [waiting EXCEPT ![w] = FALSE]
    /\ used' = [used EXCEPT ![w] = 0]
    /\ UNCHANGED <<marker, whole, machine, pc, attempt, mine, seen, runs, history>>

(* The run ends: release() forgets it and removes whatever marker is there, *)
(* unless the run was kept in memory.                                       *)
End(w) ==
    /\ IsOpen(w) /\ Going(w)
    /\ held' = [held EXCEPT ![w] = NoRun]
    /\ inMemory' = [inMemory EXCEPT ![w] = FALSE]
    /\ waiting' = [waiting EXCEPT ![w] = FALSE]
    /\ used' = [used EXCEPT ![w] = 0]
    /\ IF inMemory[w]
         THEN UNCHANGED <<marker, whole, stuck>>
         ELSE removeQuietly(w)
    /\ UNCHANGED <<machine, pc, attempt, mine, seen, runs, raced, outlived, misread>>

(* budget.hold() and budget.resume(), around an Approval step's wait and a  *)
(* Sync, Seed, Anonymize, Checkpoint or Rewind step's run.                  *)
HoldBudget(w) ==
    /\ IsOpen(w) /\ Going(w) /\ ~ waiting[w]
    /\ waiting' = [waiting EXCEPT ![w] = TRUE]
    /\ UNCHANGED <<marker, whole, machine, held, inMemory, pc, attempt, mine, seen,
                   runs, used, history>>

ResumeBudget(w) ==
    /\ IsOpen(w) /\ Going(w) /\ waiting[w]
    /\ waiting' = [waiting EXCEPT ![w] = FALSE]
    /\ UNCHANGED <<marker, whole, machine, held, inMemory, pc, attempt, mine, seen,
                   runs, used, history>>

-----------------------------------------------------------------------------
InHold(w) ==
    Create(w) \/ Write(w) \/ Read(w) \/ Judge(w) \/ Remove(w)

Next ==
    \/ \E w \in Window :
          \/ Open(w) \/ Crash(w)
          \/ Begin(w) \/ InHold(w) \/ KeepInMemory(w)
          \/ End(w) \/ HoldBudget(w) \/ ResumeBudget(w)
    \/ Tick

Spec == Init /\ [][Next]_vars

(* hold() is synchronous: a window that is open goes through it. *)
FairSpec == Spec /\ \A w \in Window : WF_vars(InHold(w))

-----------------------------------------------------------------------------
(* Types of the state. *)
TypeOK ==
    /\ marker \in Run \cup {NoRun}
    /\ status \in [Window -> {"new", "open", "gone"}]
    /\ pid \in [Window -> Pid]
    /\ now \in Nat
    /\ held \in [Window -> Run \cup {NoRun}]
    /\ inMemory \in [Window -> BOOLEAN]
    /\ pc \in [Window -> {"idle", "create", "write", "read", "judge", "remove"}]
    /\ attempt \in [Window -> Nat]
    /\ mine \in [Window -> Run \cup {NoRun}]
    /\ seen \in [Window -> Run \cup {NoRun}]
    /\ runs \in [Window -> Nat]
    /\ used \in [Window -> Nat]
    /\ waiting \in [Window -> BOOLEAN]
    /\ whole \in BOOLEAN
    /\ raced \in BOOLEAN /\ outlived \in BOOLEAN /\ misread \in BOOLEAN
    /\ stuck \in SUBSET Window

(* "One run of a pipeline at a time": in this window or another.            *)
OneRunAtATime == \A v, w \in Window : Going(v) /\ Going(w) => v = w

(* Holds that do not overlap keep the runs apart, whatever windows end in   *)
(* the middle of a hold or of a run, whichever process ids are reused,      *)
(* whichever markers could not be removed and whatever runs were kept in    *)
(* memory before, as long as no run outlives its marker, none is kept in    *)
(* memory now and no marker of a run could not be read.                     *)
OneRunUnlessRaced ==
    ~ raced /\ ~ outlived /\ ~ misread /\ (\A w \in Window : ~ inMemory[w]) =>
        OneRunAtATime

(* "Triggers keep firing": a marker left by a window that ended, at any     *)
(* step, stops no run for good.  When every other window has ended, the     *)
(* last one's hold starts it, or that window failed to remove the marker.   *)
LastWindowRuns ==
    \A w \in Window :
        /\ pc[w] = "create" /\ attempt[w] = 0
        /\ \A v \in Window \ {w} : status[v] = "gone"
        ~> Going(w) \/ ~ IsOpen(w) \/ w \in stuck

(* Holds that do not overlap are refused for a reason.  The marker believed *)
(* is of a run that is going, or that ended since the marker was read, or   *)
(* one a window failed to remove, or of a window that ended and whose       *)
(* process id is in use again; a run that ended as it should refuses nobody.*)
(* And the tries of a hold are up only when it failed to remove the marker, *)
(* whose owner may have removed it since.                                   *)
RefusedForAReason ==
    ~ raced => \A w \in Window :
        /\ pc[w] = "judge" /\ seen[w] # NoRun /\ isLive(w, seen[w]) =>
              \/ held[seen[w].owner] = seen[w]
              \/ marker # seen[w]
              \/ stuck # {}
              \/ status[seen[w].owner] = "gone"
        /\ pc[w] = "remove" /\ attempt[w] + 1 = Tries => w \in stuck \/ marker = NoRun
=============================================================================
