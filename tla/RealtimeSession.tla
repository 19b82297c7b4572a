--------------------------- MODULE RealtimeSession ---------------------------
(***************************************************************************)
(* Real-time replication: the sessions of realtime/RealtimeSession.ts over  *)
(* their subscription (CdcSubscription.ts), the resume points they share    *)
(* (ReplayStore.ts) and the handler that starts and stops them              *)
(* (bridge/handlers/RealtimeHandler.ts).                                    *)
(*                                                                          *)
(* The source org numbers the changes of each channel from 1.  A session    *)
(* receives them into its buffer, processes them by batches, and stores per *)
(* channel how far it got.  Every await of the code ends a step.            *)
(***************************************************************************)
EXTENDS Integers, Sequences, FiniteSets

CONSTANTS
    Session,        \* the sessions ever asked for, one object each
    Channel,        \* the watched objects, one channel each
    Applies,        \* the sessions that write to a target: the guard is asked
    NoSession,      \* no current session
    maxBatchSize,   \* most changes processed together
    Retries,        \* the number of RECONNECT_DELAYS_MS
    MayCrash,       \* whether the extension host may end
    MaxMade         \* bound: changes of one channel

ASSUME SessionAssumption ==
    /\ Applies \subseteq Session /\ NoSession \notin Session
    /\ maxBatchSize \in Nat \ {0} /\ Retries \in Nat \ {0}
    /\ MayCrash \in BOOLEAN /\ MaxMade \in Nat

Change == Channel \X Nat
NoPoint == -1       \* a channel never read

VARIABLES
    made,       \* the changes the org made on each channel
    gone,       \* those of them it no longer holds
    point,      \* ReplayStore: how far each channel was read
    current,    \* the handler's current session
    state,      \* state of each session; "new" before it starts
    stopped,    \* stop() was called
    job,        \* what start(), reconnect() or the handler awaits
    tries,      \* attempts to reconnect
    link,       \* the session's connection
    todo,       \* channels CdcSubscription.open() has still to subscribe to
    accepted,   \* channels the open connection is subscribed to
    watched,    \* channels of the session
    at,         \* how far each channel was delivered to the session
    buffer,     \* received, not processed
    timer,      \* flushTimer is set
    flushes,    \* flush() calls chained on `flushing`
    batch,      \* the batch process() is at
    left,       \* channels of the batch still to be written
    held,       \* changes held for a decision
    deciding,   \* decisions being written
    stopping,   \* how far stop() is
    dropped,    \* changes stop() counted as dropped
    decided,    \* history: changes a decision wrote
    done,       \* history: changes any session finished with
    newest,     \* history: the change last written of each channel
    since,      \* history: where reading began, or resumed after the org let go
    disturbed   \* history: a session began beside another, or a host ended

org == <<made, gone>>
opening == <<job, tries, link, todo, accepted, watched>>
flow == <<buffer, timer, flushes, batch, left>>
decisions == <<held, deciding, decided, dropped>>
history == <<done, newest, since, disturbed>>
vars == <<made, gone, point, current, state, stopped, opening, at, flow, decisions,
          stopping, history>>

running(s) == state[s] \in {"syncing", "connecting"}

(* The numbers of c's changes in a sequence of changes. *)
NumbersOf(seq, c) == {seq[i][2] : i \in {j \in DOMAIN seq : seq[j][1] = c}}
Last(S) == CHOOSE n \in S : \A m \in S : m <= n

Init ==
    /\ made = [c \in Channel |-> 0] /\ gone = [c \in Channel |-> 0]
    /\ point = [c \in Channel |-> NoPoint]
    /\ current = NoSession
    /\ state = [s \in Session |-> "new"]
    /\ stopped = [s \in Session |-> FALSE]
    /\ job = [s \in Session |-> "none"]
    /\ tries = [s \in Session |-> 0]
    /\ link = [s \in Session |-> "none"]
    /\ todo = [s \in Session |-> {}]
    /\ accepted = [s \in Session |-> {}]
    /\ watched = [s \in Session |-> {}]
    /\ at = [s \in Session |-> [c \in Channel |-> 0]]
    /\ buffer = [s \in Session |-> <<>>]
    /\ timer = [s \in Session |-> FALSE]
    /\ flushes = [s \in Session |-> 0]
    /\ batch = [s \in Session |-> <<>>]
    /\ left = [s \in Session |-> {}]
    /\ held = [s \in Session |-> {}]
    /\ deciding = [s \in Session |-> {}]
    /\ stopping = [s \in Session |-> "no"]
    /\ dropped = [s \in Session |-> {}] /\ decided = [s \in Session |-> {}]
    /\ done = {}
    /\ newest = [c \in Channel |-> 0] /\ since = [c \in Channel |-> 0]
    /\ disturbed = FALSE

-----------------------------------------------------------------------------
(* The source org.  It holds a change for three days; a session that is     *)
(* connected is never that far behind.                                      *)
Make(c) ==
    /\ made[c] < MaxMade
    /\ made' = [made EXCEPT ![c] = @ + 1]
    /\ UNCHANGED <<gone, point, current, state, stopped, opening, at, flow, decisions,
                   stopping, history>>

LetGo(c) ==
    /\ gone[c] < made[c]
    /\ \A s \in Session : link[s] # "none" /\ c \in accepted[s] => at[s][c] > gone[c]
    /\ gone' = [gone EXCEPT ![c] = @ + 1]
    /\ UNCHANGED <<made, point, current, state, stopped, opening, at, flow, decisions,
                   stopping, history>>

-----------------------------------------------------------------------------
(* The handler: starting a session.                                         *)

NoneRunning == \A t \in Session : current = t => ~ running(t)

Disturbs(s) == \E t \in Session \ {s} : flushes[t] > 0 \/ running(t)

(* The session is made current and start() awaits its connection. *)
Begin(s) ==
    /\ current' = s
    /\ state' = [state EXCEPT ![s] = "connecting"]
    /\ job' = [job EXCEPT ![s] = "starting"]
    /\ link' = [link EXCEPT ![s] = "opening"]
    /\ todo' = [todo EXCEPT ![s] = Channel]
    /\ disturbed' = (disturbed \/ Disturbs(s))
    /\ UNCHANGED <<org, point, stopped, tries, accepted, watched, at, flow, decisions,
                   stopping, done, newest, since>>

StartWatching(s) ==
    /\ s \notin Applies
    /\ state[s] = "new" /\ NoneRunning
    /\ Begin(s)

(* A session that writes waits for the Production Guard. *)
AskGuard(s) ==
    /\ s \in Applies
    /\ state[s] = "new" /\ job[s] = "none" /\ NoneRunning
    /\ job' = [job EXCEPT ![s] = "guard"]
    /\ UNCHANGED <<org, point, current, state, stopped, tries, link, todo, accepted,
                   watched, at, flow, decisions, stopping, history>>

GuardAllows(s) ==
    /\ job[s] = "guard"
    /\ Begin(s)

GuardRefuses(s) ==
    /\ job[s] = "guard"
    /\ job' = [job EXCEPT ![s] = "none"]
    /\ state' = [state EXCEPT ![s] = "disconnected"]
    /\ UNCHANGED <<org, point, current, stopped, tries, link, todo, accepted, watched,
                   at, flow, decisions, stopping, history>>

-----------------------------------------------------------------------------
(* open(): a connection, then one subscription after another.               *)

TransportOpens(s) ==
    /\ link[s] = "opening"
    /\ link' = [link EXCEPT ![s] = "live"]
    /\ accepted' = [accepted EXCEPT ![s] = {}]
    /\ UNCHANGED <<org, point, current, state, stopped, job, tries, todo, watched, at,
                   flow, decisions, stopping, history>>

(* Where the org delivers c from: the next change the first time, after the *)
(* stored point, or from the oldest change it holds when that point is not. *)
From(c) ==
    IF point[c] = NoPoint THEN made[c]
    ELSE IF point[c] < gone[c] THEN gone[c] ELSE point[c]

Accept(s, c) ==
    /\ link[s] = "live" /\ c \in todo[s]
    /\ todo' = [todo EXCEPT ![s] = @ \ {c}]
    /\ accepted' = [accepted EXCEPT ![s] = @ \cup {c}]
    /\ at' = [at EXCEPT ![s][c] = From(c)]
    /\ since' = IF From(c) = point[c] \/ From(c) < since[c]
                  THEN since ELSE [since EXCEPT ![c] = From(c)]
    /\ UNCHANGED <<org, point, current, state, stopped, job, tries, link, watched,
                   flow, decisions, stopping, done, newest, disturbed>>

(* A subscription the org refuses, or whose connection went meanwhile. *)
Refuse(s, c) ==
    /\ link[s] # "opening" /\ c \in todo[s]
    /\ todo' = [todo EXCEPT ![s] = @ \ {c}]
    /\ UNCHANGED <<org, point, current, state, stopped, job, tries, link, accepted,
                   watched, at, flow, decisions, stopping, history>>

(* start() has its answer: a session with no channel ends in error. *)
Started(s) ==
    /\ job[s] = "starting" /\ link[s] # "opening" /\ todo[s] = {}
    /\ job' = [job EXCEPT ![s] = "none"]
    /\ watched' = [watched EXCEPT ![s] = accepted[s]]
    /\ IF accepted[s] = {}
         THEN /\ state' = [state EXCEPT ![s] = "error"]
              /\ link' = [link EXCEPT ![s] = "none"]
         ELSE /\ state' = [state EXCEPT ![s] = "syncing"]
              /\ UNCHANGED link
    /\ UNCHANGED <<org, point, current, stopped, tries, todo, accepted, at, flow,
                   decisions, stopping, history>>

(* After an attempt to reconnect that failed: the next one, or giving up. *)
NextTry(s) ==
    IF tries[s] < Retries
      THEN job' = [job EXCEPT ![s] = "pausing"] /\ UNCHANGED state
      ELSE /\ job' = [job EXCEPT ![s] = "none"]
           /\ state' = IF stopped[s] THEN state ELSE [state EXCEPT ![s] = "error"]

(* openTransport() rejects: start() fails, reconnect() tries again. *)
TransportFails(s) ==
    /\ link[s] = "opening"
    /\ link' = [link EXCEPT ![s] = "none"]
    /\ todo' = [todo EXCEPT ![s] = {}]
    /\ IF job[s] = "starting"
         THEN /\ job' = [job EXCEPT ![s] = "none"]
              /\ state' = [state EXCEPT ![s] = "error"]
         ELSE NextTry(s)
    /\ UNCHANGED <<org, point, current, stopped, tries, accepted, watched, at, flow,
                   decisions, stopping, history>>

-----------------------------------------------------------------------------
(* reconnect()                                                              *)

(* The org closes the connection for good.  A session that syncs closes its *)
(* side and lets the flush under way end; any other takes no notice.        *)
Down(s) ==
    /\ link[s] = "live"
    /\ IF ~ stopped[s] /\ state[s] = "syncing"
         THEN /\ state' = [state EXCEPT ![s] = "connecting"]
              /\ job' = [job EXCEPT ![s] = "draining"]
              /\ link' = [link EXCEPT ![s] = "none"]
              /\ timer' = [timer EXCEPT ![s] = FALSE]
         ELSE /\ link' = [link EXCEPT ![s] = "dead"]
              /\ UNCHANGED <<state, job, timer>>
    /\ UNCHANGED <<org, point, current, stopped, tries, todo, accepted, watched, at,
                   buffer, flushes, batch, left, decisions, stopping, history>>

(* A mutant: the flush under way is not waited for. *)
DrainedAtOnce(s) ==
    /\ job[s] = "draining"
    /\ buffer' = [buffer EXCEPT ![s] = <<>>]
    /\ tries' = [tries EXCEPT ![s] = 0]
    /\ job' = [job EXCEPT ![s] = "pausing"]
    /\ UNCHANGED <<org, point, current, state, stopped, link, todo, accepted, watched,
                   at, timer, flushes, batch, left, decisions, stopping, history>>

(* What was received and not processed is left to the new subscription. *)
Drained(s) ==
    /\ job[s] = "draining" /\ flushes[s] = 0
    /\ buffer' = [buffer EXCEPT ![s] = <<>>]
    /\ tries' = [tries EXCEPT ![s] = 0]
    /\ job' = [job EXCEPT ![s] = "pausing"]
    /\ UNCHANGED <<org, point, current, state, stopped, link, todo, accepted, watched,
                   at, timer, flushes, batch, left, decisions, stopping, history>>

Retry(s) ==
    /\ job[s] = "pausing"
    /\ IF stopped[s]
         THEN job' = [job EXCEPT ![s] = "none"] /\ UNCHANGED <<tries, link, todo>>
         ELSE /\ job' = [job EXCEPT ![s] = "reopening"]
              /\ tries' = [tries EXCEPT ![s] = @ + 1]
              /\ link' = [link EXCEPT ![s] = "opening"]
              /\ todo' = [todo EXCEPT ![s] = watched[s]]
    /\ UNCHANGED <<org, point, current, state, stopped, accepted, watched, at, flow,
                   decisions, stopping, history>>

Reopened(s) ==
    /\ job[s] = "reopening" /\ link[s] # "opening" /\ todo[s] = {}
    /\ IF accepted[s] # {}
         THEN /\ watched' = [watched EXCEPT ![s] = accepted[s]]
              /\ state' = [state EXCEPT ![s] = "syncing"]
              /\ job' = [job EXCEPT ![s] = "none"]
              /\ UNCHANGED link
         ELSE /\ link' = [link EXCEPT ![s] = "none"]
              /\ NextTry(s)
              /\ UNCHANGED watched
    /\ UNCHANGED <<org, point, current, stopped, tries, todo, accepted, at, flow,
                   decisions, stopping, history>>

-----------------------------------------------------------------------------
(* receive() and flush()                                                    *)

Receive(s, c) ==
    /\ link[s] = "live" /\ c \in accepted[s]
    /\ at[s][c] < made[c]
    /\ at' = [at EXCEPT ![s][c] = @ + 1]
    /\ IF stopped[s]
         THEN UNCHANGED <<buffer, timer>>
         ELSE /\ buffer' = [buffer EXCEPT ![s] = Append(@, <<c, at'[s][c]>>)]
              /\ timer' = [timer EXCEPT ![s] = TRUE]
    /\ UNCHANGED <<org, point, current, state, stopped, opening, flushes, batch, left,
                   decisions, stopping, done, newest, since, disturbed>>

TimerFires(s) ==
    /\ timer[s]
    /\ timer' = [timer EXCEPT ![s] = FALSE]
    /\ flushes' = [flushes EXCEPT ![s] = @ + 1]
    /\ UNCHANGED <<org, point, current, state, stopped, opening, at, buffer, batch, left,
                   decisions, stopping, history>>

FirstOf(seq) == SubSeq(seq, 1, IF Len(seq) < maxBatchSize THEN Len(seq) ELSE maxBatchSize)
RestOf(seq) == SubSeq(seq, Len(FirstOf(seq)) + 1, Len(seq))
ChannelsOf(seq) == {seq[i][1] : i \in DOMAIN seq}

TakeBatch(s) ==
    /\ flushes[s] > 0 /\ batch[s] = <<>>
    /\ buffer[s] # <<>> /\ ~ stopped[s]
    /\ batch' = [batch EXCEPT ![s] = FirstOf(buffer[s])]
    /\ left' = [left EXCEPT ![s] = ChannelsOf(FirstOf(buffer[s]))]
    /\ buffer' = [buffer EXCEPT ![s] = RestOf(buffer[s])]
    /\ UNCHANGED <<org, point, current, state, stopped, opening, at, timer, flushes,
                   decisions, stopping, history>>

(* A mutant: a flush is one batch, whatever is left. *)
FlushEndsEarly(s) ==
    /\ flushes[s] > 0 /\ batch[s] = <<>>
    /\ flushes' = [flushes EXCEPT ![s] = @ - 1]
    /\ UNCHANGED <<org, point, current, state, stopped, opening, at, buffer, timer, batch,
                   left, decisions, stopping, history>>

FlushEnds(s) ==
    /\ flushes[s] > 0 /\ batch[s] = <<>>
    /\ buffer[s] = <<>> \/ stopped[s]
    /\ flushes' = [flushes EXCEPT ![s] = @ - 1]
    /\ UNCHANGED <<org, point, current, state, stopped, opening, at, buffer, timer, batch,
                   left, decisions, stopping, history>>

(* process(): the changes of one object are written, refused or skipped,    *)
(* and some held for a decision by a session that writes.                   *)
Apply(s, c) ==
    /\ c \in left[s]
    /\ left' = [left EXCEPT ![s] = @ \ {c}]
    /\ \E H \in SUBSET NumbersOf(batch[s], c) :
          /\ s \notin Applies => H = {}
          /\ held' = [held EXCEPT ![s] = @ \cup {<<c, n>> : n \in H}]
    /\ done' = done \cup {<<c, n>> : n \in NumbersOf(batch[s], c)}
    /\ newest' = [newest EXCEPT ![c] = Last(NumbersOf(batch[s], c))]
    /\ UNCHANGED <<org, point, current, state, stopped, opening, at, buffer, timer, flushes,
                   batch, deciding, decided, dropped, stopping, since, disturbed>>

(* A mutant: a resume point taken from what was received. *)
SaveReceived(s) ==
    /\ batch[s] # <<>> /\ left[s] = {}
    /\ point' = [c \in Channel |-> IF c \in ChannelsOf(batch[s])
                                     THEN at[s][c] ELSE point[c]]
    /\ batch' = [batch EXCEPT ![s] = <<>>]
    /\ UNCHANGED <<org, current, state, stopped, opening, at, buffer, timer, flushes, left,
                   decisions, stopping, history>>

(* The end of process(): replayStore.save(). *)
Save(s) ==
    /\ batch[s] # <<>> /\ left[s] = {}
    /\ point' = [c \in Channel |-> IF c \in ChannelsOf(batch[s])
                                     THEN Last(NumbersOf(batch[s], c)) ELSE point[c]]
    /\ batch' = [batch EXCEPT ![s] = <<>>]
    /\ UNCHANGED <<org, current, state, stopped, opening, at, buffer, timer, flushes, left,
                   decisions, stopping, history>>

-----------------------------------------------------------------------------
(* stop() of the current session, and decisions on the changes it holds.    *)

Stop(s) ==
    /\ current = s
    /\ current' = NoSession
    /\ stopped' = [stopped EXCEPT ![s] = TRUE]
    /\ state' = [state EXCEPT ![s] = "disconnected"]
    /\ timer' = [timer EXCEPT ![s] = FALSE]
    /\ link' = IF link[s] = "opening" THEN link ELSE [link EXCEPT ![s] = "none"]
    /\ buffer' = [buffer EXCEPT ![s] = <<>>]
    /\ stopping' = [stopping EXCEPT ![s] = "draining"]
    /\ UNCHANGED <<org, point, job, tries, todo, accepted, watched, at, flushes, batch,
                   left, decisions, history>>

(* A mutant: the flush under way is not waited for. *)
StopWithoutWaiting(s) ==
    /\ stopping[s] = "draining"
    /\ dropped' = [dropped EXCEPT ![s] = held[s]]
    /\ held' = [held EXCEPT ![s] = {}]
    /\ stopping' = [stopping EXCEPT ![s] = "done"]
    /\ UNCHANGED <<org, point, current, state, stopped, opening, at, flow, deciding,
                   decided, history>>

StopEnds(s) ==
    /\ stopping[s] = "draining" /\ flushes[s] = 0
    /\ dropped' = [dropped EXCEPT ![s] = held[s]]
    /\ held' = [held EXCEPT ![s] = {}]
    /\ stopping' = [stopping EXCEPT ![s] = "done"]
    /\ UNCHANGED <<org, point, current, state, stopped, opening, at, flow, deciding,
                   decided, history>>

(* resolveConflict() of the current session: a decision is being written... *)
Decide(s, e) ==
    /\ current = s /\ e \in held[s]
    /\ deciding' = [deciding EXCEPT ![s] = @ \cup {e}]
    /\ UNCHANGED <<org, point, current, state, stopped, opening, at, flow, held, decided,
                   dropped, stopping, history>>

(* ... and is written, or not: then the change stays held. *)
Decided(s, e, success) ==
    /\ e \in deciding[s]
    /\ deciding' = [deciding EXCEPT ![s] = @ \ {e}]
    /\ IF success
         THEN /\ held' = [held EXCEPT ![s] = @ \ {e}]
              /\ decided' = [decided EXCEPT ![s] = @ \cup {e}]
         ELSE UNCHANGED <<held, decided>>
    /\ UNCHANGED <<org, point, current, state, stopped, opening, at, flow, dropped,
                   stopping, history>>

(* The extension host ends: what sessions held in memory is gone. *)
Crash ==
    /\ MayCrash
    /\ \E s \in Session : running(s) \/ flushes[s] > 0
    /\ current' = NoSession
    /\ state' = [s \in Session |-> IF state[s] = "new" THEN "new" ELSE "disconnected"]
    /\ stopped' = [s \in Session |-> state[s] # "new"]
    /\ job' = [s \in Session |-> "none"] /\ tries' = [s \in Session |-> 0]
    /\ link' = [s \in Session |-> "none"] /\ todo' = [s \in Session |-> {}]
    /\ accepted' = [s \in Session |-> {}] /\ watched' = [s \in Session |-> {}]
    /\ buffer' = [s \in Session |-> <<>>] /\ timer' = [s \in Session |-> FALSE]
    /\ flushes' = [s \in Session |-> 0] /\ batch' = [s \in Session |-> <<>>]
    /\ left' = [s \in Session |-> {}]
    /\ held' = [s \in Session |-> {}] /\ deciding' = [s \in Session |-> {}]
    /\ stopping' = [s \in Session |-> IF state[s] = "new" THEN "no" ELSE "done"]
    /\ disturbed' = TRUE
    /\ UNCHANGED <<org, point, at, decided, dropped, done, newest, since>>

-----------------------------------------------------------------------------
Flush(s) == TimerFires(s) \/ TakeBatch(s) \/ FlushEnds(s) \/ Save(s)
            \/ \E c \in Channel : Apply(s, c)

Opening(s) ==
    \/ TransportOpens(s) \/ TransportFails(s)
    \/ \E c \in Channel : Accept(s, c) \/ Refuse(s, c)
    \/ Started(s) \/ Reopened(s) \/ Drained(s) \/ Retry(s)

Next ==
    \/ \E c \in Channel : Make(c) \/ LetGo(c)
    \/ \E s \in Session :
          \/ StartWatching(s) \/ AskGuard(s) \/ GuardAllows(s) \/ GuardRefuses(s)
          \/ Opening(s) \/ Down(s)
          \/ \E c \in Channel : Receive(s, c)
          \/ Flush(s)
          \/ Stop(s) \/ StopEnds(s)
          \/ \E e \in held[s] : Decide(s, e)
          \/ \E e \in deciding[s], success \in BOOLEAN : Decided(s, e, success)
    \/ Crash

Spec == Init /\ [][Next]_vars

(* Timers fire, promises settle, the org answers every request and delivers *)
(* every change it holds to a subscriber it is connected to.                *)
FairSpec ==
    /\ Spec
    /\ \A s \in Session :
          /\ WF_vars(Flush(s)) /\ WF_vars(Opening(s)) /\ WF_vars(StopEnds(s))
          /\ \A c \in Channel : WF_vars(Receive(s, c))

-----------------------------------------------------------------------------
(* Types of the state; reconnect() tries no more often than it has delays. *)
TypeOK ==
    /\ made \in [Channel -> Nat] /\ gone \in [Channel -> Nat]
    /\ point \in [Channel -> Nat \cup {NoPoint}]
    /\ current \in Session \cup {NoSession}
    /\ state \in [Session -> {"new", "connecting", "syncing", "error", "disconnected"}]
    /\ stopped \in [Session -> BOOLEAN]
    /\ job \in [Session -> {"none", "guard", "starting", "draining", "pausing", "reopening"}]
    /\ tries \in [Session -> 0..Retries]
    /\ link \in [Session -> {"none", "opening", "live", "dead"}]
    /\ todo \in [Session -> SUBSET Channel]
    /\ accepted \in [Session -> SUBSET Channel]
    /\ watched \in [Session -> SUBSET Channel]
    /\ at \in [Session -> [Channel -> Nat]]
    /\ buffer \in [Session -> Seq(Change)] /\ batch \in [Session -> Seq(Change)]
    /\ timer \in [Session -> BOOLEAN]
    /\ flushes \in [Session -> Nat]
    /\ left \in [Session -> SUBSET Channel]
    /\ \A f \in {held, deciding, decided, dropped} : f \in [Session -> SUBSET Change]
    /\ stopping \in [Session -> {"no", "draining", "done"}]
    /\ done \subseteq Change
    /\ newest \in [Channel -> Nat] /\ since \in [Channel -> Nat]
    /\ disturbed \in BOOLEAN

(* A session resumes "right after" the last change finished with: no change *)
(* between where reading began and a resume point was left out, whichever   *)
(* sessions stored it and wherever one was stopped, reconnected or ended.   *)
NothingSkipped ==
    \A c \in Channel : \A n \in since[c] + 1 .. point[c] : <<c, n>> \in done

(* "Changes are processed in batches, in the order the org sent them": and  *)
(* once each, through reconnections and from one session to the next, when  *)
(* no session begins beside another and no host ends.                       *)
InOrder ==
    [][ ~ disturbed' =>
          \A s \in Session : \A c \in left[s] \ left'[s] :
              \A n \in NumbersOf(batch[s], c) : n > newest[c] ]_vars

(* "one stopped is still writing its last batch": once stop() has returned  *)
(* the session writes no more of what it received.                          *)
StoppedWritesNoMore ==
    \A s \in Session : stopping[s] = "done" =>
        batch[s] = <<>> /\ flushes[s] = 0 /\ ~ timer[s]

(* A change received is processed, unless its session stops or reconnects.  *)
ReceivedIsProcessed ==
    \A s \in Session : buffer[s] # <<>> ~> buffer[s] = <<>>

=============================================================================
