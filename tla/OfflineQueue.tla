---------------------------- MODULE OfflineQueue ----------------------------
(***************************************************************************)
(* The offline queue of core/connection/OfflineManager.ts, as the windows   *)
(* of a machine use it: a sync whose org could not be reached is queued,    *)
(* kept in the store, and handed back to its handler once the network is    *)
(* back.  A step runs from one await or timer to the next.  The probe       *)
(* answers before the check's deadline, as the production probe, which      *)
(* aborts after half of it, does.                                           *)
(***************************************************************************)
EXTENDS Naturals, Sequences, FiniteSets

CONSTANTS
    Window,        \* the windows of the machine
    Op,            \* the syncs that fail for want of a network
    maxQueueSize,  \* MAX_QUEUE_SIZE
    MaxOpens       \* bound: windows opened in all

ASSUME BoundAssumption == maxQueueSize \in Nat \ {0} /\ MaxOpens \in Nat

VARIABLES
    up,          \* whether the network is up
    stored,      \* 'offline:queue' in the store the windows share
    open,        \* "closed", "probing" or "wired", per window
    queue,       \* the queue of each window
    status,      \* "online" or "offline", per window
    probeTimer,  \* whether the probe timer of a window runs
    checking,    \* pendingCheck: a check is in flight
    waiting,     \* drainIfReachable waits for the check in flight
    drainTimer,  \* whether the drain timer of a window is set
    draining,    \* whether a drain hands the head of the queue over
    opens,       \* how many times a window was opened
    accepted,    \* the syncs enqueue took, in order
    refused,     \* the syncs enqueue found no room for
    replays,     \* how many times each was handed back to its handler
    shared,      \* whether two windows were ever open at once
    cut          \* the syncs a window was handing over as it closed

history == <<opens, accepted, refused, replays, shared, cut>>
vars == <<up, stored, open, queue, status, probeTimer, checking, waiting,
          drainTimer, draining, history>>

Elements(seq) == {seq[i] : i \in DOMAIN seq}

Init ==
    /\ up \in BOOLEAN
    /\ stored = <<>>
    /\ open = [w \in Window |-> "closed"]
    /\ queue = [w \in Window |-> <<>>]
    /\ status = [w \in Window |-> "online"]
    /\ probeTimer = [w \in Window |-> FALSE]
    /\ checking = [w \in Window |-> FALSE]
    /\ waiting = [w \in Window |-> FALSE]
    /\ drainTimer = [w \in Window |-> FALSE]
    /\ draining = [w \in Window |-> FALSE]
    /\ opens = 0 /\ accepted = <<>> /\ refused = {}
    /\ replays = [o \in Op |-> 0]
    /\ shared = FALSE /\ cut = {}

(* syncProbeTimer(): it runs while something is queued or the network down. *)
syncProbeTimer(w, q, st) ==
    probeTimer' = [probeTimer EXCEPT ![w] = q # <<>> \/ st # "online"]

(* drainIfReachable(): a check is made, or the one in flight shared, and    *)
(* the queue drained if it answers online.                                  *)
drainIfReachable(w) ==
    /\ checking' = [checking EXCEPT ![w] = TRUE]
    /\ waiting' = [waiting EXCEPT ![w] = TRUE]

(* drainQueue() begins, unless it is under way or there is nothing to do:   *)
(* the head of the queue is handed over.                                    *)
drainQueue(w) ==
    IF draining[w] \/ queue[w] = <<>> \/ open[w] # "wired"
      THEN UNCHANGED <<draining, replays>>
      ELSE /\ draining' = [draining EXCEPT ![w] = TRUE]
           /\ replays' = [replays EXCEPT ![Head(queue[w])] = @ + 1]

-----------------------------------------------------------------------------
NetworkChanges ==
    /\ up' = ~ up
    /\ UNCHANGED <<stored, open, queue, status, probeTimer, checking, waiting,
                   drainTimer, draining, history>>

(* The constructor loads the stored queue, and probing starts. *)
Open(w) ==
    /\ open[w] = "closed" /\ opens < MaxOpens
    /\ open' = [open EXCEPT ![w] = "probing"]
    /\ queue' = [queue EXCEPT ![w] = stored]
    /\ syncProbeTimer(w, stored, status[w])
    /\ opens' = opens + 1
    /\ shared' = (shared \/ \E v \in Window : open[v] # "closed")
    /\ UNCHANGED <<up, stored, status, checking, waiting, drainTimer, draining,
                   accepted, refused, replays, cut>>

(* A mutant: a recovered queue waits for the network to come back. *)
WireOnly(w) ==
    /\ open[w] = "probing"
    /\ open' = [open EXCEPT ![w] = "wired"]
    /\ UNCHANGED <<up, stored, queue, status, probeTimer, checking, waiting, drainTimer,
                   draining, history>>

(* setOperationExecutor(): what the store kept of an earlier window is      *)
(* drained too.                                                             *)
Wire(w) ==
    /\ open[w] = "probing"
    /\ open' = [open EXCEPT ![w] = "wired"]
    /\ IF queue[w] # <<>> /\ status[w] = "online"
         THEN drainIfReachable(w) ELSE UNCHANGED <<checking, waiting>>
    /\ UNCHANGED <<up, stored, queue, status, probeTimer, drainTimer, draining, history>>

(* Nothing of a window that closes or crashes is left but the store. *)
Close(w) ==
    /\ open[w] # "closed"
    /\ open' = [open EXCEPT ![w] = "closed"]
    /\ cut' = IF draining[w] THEN cut \cup {Head(queue[w])} ELSE cut
    /\ queue' = [queue EXCEPT ![w] = <<>>]
    /\ status' = [status EXCEPT ![w] = "online"]
    /\ probeTimer' = [probeTimer EXCEPT ![w] = FALSE]
    /\ checking' = [checking EXCEPT ![w] = FALSE]
    /\ waiting' = [waiting EXCEPT ![w] = FALSE]
    /\ drainTimer' = [drainTimer EXCEPT ![w] = FALSE]
    /\ draining' = [draining EXCEPT ![w] = FALSE]
    /\ UNCHANGED <<up, stored, opens, accepted, refused, replays, shared>>

-----------------------------------------------------------------------------
HasRoom(w) == Len(queue[w]) < maxQueueSize

(* enqueue(): refused when the queue is full. *)
EnqueueRefused(w, o) ==
    /\ open[w] = "wired" /\ o \notin Elements(accepted) \cup refused
    /\ ~ HasRoom(w)
    /\ refused' = refused \cup {o}
    /\ UNCHANGED <<up, stored, open, queue, status, probeTimer, checking, waiting,
                   drainTimer, draining, opens, accepted, replays, shared, cut>>

(* A mutant: the queue is kept only as it drains. *)
EnqueueUnkept(w, o) ==
    /\ open[w] = "wired" /\ o \notin Elements(accepted) \cup refused
    /\ HasRoom(w)
    /\ queue' = [queue EXCEPT ![w] = Append(@, o)]
    /\ accepted' = Append(accepted, o)
    /\ syncProbeTimer(w, Append(queue[w], o), status[w])
    /\ IF status[w] = "online" THEN drainIfReachable(w) ELSE UNCHANGED <<checking, waiting>>
    /\ UNCHANGED <<up, stored, open, status, drainTimer, draining, opens, refused,
                   replays, shared, cut>>

Enqueue(w, o) ==
    /\ open[w] = "wired" /\ o \notin Elements(accepted) \cup refused
    /\ HasRoom(w)
    /\ queue' = [queue EXCEPT ![w] = Append(@, o)]
    /\ stored' = Append(queue[w], o)
    /\ accepted' = Append(accepted, o)
    /\ syncProbeTimer(w, Append(queue[w], o), status[w])
    /\ IF status[w] = "online" THEN drainIfReachable(w) ELSE UNCHANGED <<checking, waiting>>
    /\ UNCHANGED <<up, open, status, drainTimer, draining, opens, refused, replays,
                   shared, cut>>

(* The probe timer's tick: a check, or a share of the one in flight. *)
ProbeTick(w) ==
    /\ probeTimer[w]
    /\ checking' = [checking EXCEPT ![w] = TRUE]
    /\ UNCHANGED <<up, stored, open, queue, status, probeTimer, waiting, drainTimer,
                   draining, history>>

(* runConnectivityCheck() answers.  Back online, the queue is drained; a    *)
(* drainIfReachable that waited sets the drain timer if it answers online.  *)
CheckAnswers(w) ==
    LET answer == IF up THEN "online" ELSE "offline" IN
    /\ checking[w]
    /\ checking' = [checking EXCEPT ![w] = FALSE]
    /\ waiting' = [waiting EXCEPT ![w] = FALSE]
    /\ status' = [status EXCEPT ![w] = answer]
    /\ IF answer # status[w] THEN syncProbeTimer(w, queue[w], answer) ELSE UNCHANGED probeTimer
    /\ IF answer = "online" /\ status[w] = "offline"
         THEN drainQueue(w) ELSE UNCHANGED <<draining, replays>>
    /\ drainTimer' = [drainTimer EXCEPT ![w] = @ \/ (waiting[w] /\ up)]
    /\ UNCHANGED <<up, stored, open, queue, opens, accepted, refused, shared, cut>>

(* A mutant: the drain is put off while a check is in flight. *)
DrainWhenQuiet(w) ==
    /\ drainTimer[w] /\ ~ checking[w]
    /\ drainTimer' = [drainTimer EXCEPT ![w] = FALSE]
    /\ drainQueue(w)
    /\ UNCHANGED <<up, stored, open, queue, status, probeTimer, checking, waiting,
                   opens, accepted, refused, shared, cut>>

(* The drain timer fires. *)
DrainDue(w) ==
    /\ drainTimer[w]
    /\ drainTimer' = [drainTimer EXCEPT ![w] = FALSE]
    /\ drainQueue(w)
    /\ UNCHANGED <<up, stored, open, queue, status, probeTimer, checking, waiting,
                   opens, accepted, refused, shared, cut>>

(* A mutant: the handed-over sync leaves the queue in memory alone. *)
ShiftUnkept(w) ==
    /\ draining[w]
    /\ queue' = [queue EXCEPT ![w] = Tail(@)]
    /\ IF Len(queue[w]) > 1
         THEN /\ replays' = [replays EXCEPT ![queue[w][2]] = @ + 1]
              /\ UNCHANGED <<draining, probeTimer>>
         ELSE /\ draining' = [draining EXCEPT ![w] = FALSE]
              /\ syncProbeTimer(w, <<>>, status[w])
              /\ UNCHANGED replays
    /\ UNCHANGED <<up, stored, open, status, checking, waiting, drainTimer, opens,
                   accepted, refused, shared, cut>>

(* The handler answers, or throws: either way the sync leaves the queue,    *)
(* the queue is kept, and the next one is handed over.                      *)
HandedOver(w) ==
    /\ draining[w]
    /\ queue' = [queue EXCEPT ![w] = Tail(@)]
    /\ stored' = Tail(queue[w])
    /\ IF Len(queue[w]) > 1
         THEN /\ replays' = [replays EXCEPT ![queue[w][2]] = @ + 1]
              /\ UNCHANGED <<draining, probeTimer>>
         ELSE /\ draining' = [draining EXCEPT ![w] = FALSE]
              /\ syncProbeTimer(w, <<>>, status[w])
              /\ UNCHANGED replays
    /\ UNCHANGED <<up, open, status, checking, waiting, drainTimer, opens, accepted,
                   refused, shared, cut>>

-----------------------------------------------------------------------------
Runs(w) == ProbeTick(w) \/ CheckAnswers(w) \/ DrainDue(w) \/ HandedOver(w)

Next ==
    \/ NetworkChanges
    \/ \E w \in Window :
          \/ Open(w) \/ Wire(w) \/ Close(w)
          \/ \E o \in Op : Enqueue(w, o) \/ EnqueueRefused(w, o)
          \/ Runs(w)

Spec == Init /\ [][Next]_vars

(* Timers fire, probes answer and handlers return. *)
FairSpec ==
    /\ Spec
    /\ \A w \in Window :
          /\ WF_vars(Wire(w)) /\ WF_vars(ProbeTick(w)) /\ WF_vars(CheckAnswers(w))
          /\ WF_vars(DrainDue(w)) /\ WF_vars(HandedOver(w))
-----------------------------------------------------------------------------
(* Types of the state; a window's queue is within its limit. *)
TypeOK ==
    /\ up \in BOOLEAN /\ shared \in BOOLEAN
    /\ stored \in Seq(Op) /\ accepted \in Seq(Op)
    /\ open \in [Window -> {"closed", "probing", "wired"}]
    /\ queue \in [Window -> Seq(Op)]
    /\ \A w \in Window : Len(queue[w]) <= maxQueueSize
    /\ status \in [Window -> {"online", "offline"}]
    /\ \A f \in {probeTimer, checking, waiting, drainTimer, draining} : f \in [Window -> BOOLEAN]
    /\ opens \in Nat /\ replays \in [Op -> Nat]
    /\ refused \subseteq Op /\ cut \subseteq Op

(* A queue is never parked: while a window has something queued, it drains  *)
(* it, is about to, or waits for a check; or it knows the network is down   *)
(* and its probe timer runs.  Whatever the order of the timers, of the      *)
(* probe's answers, of the syncs that fail and of the wiring of a window.   *)
NeverParked ==
    \A w \in Window : open[w] = "wired" /\ queue[w] # <<>> =>
        \/ draining[w] \/ drainTimer[w]
        \/ checking[w] /\ waiting[w]
        \/ status[w] = "offline" /\ probeTimer[w]

(* Whatever closes when, a sync that was queued was handed back to its      *)
(* handler or is in the store for the next window, for as long as one       *)
(* window at a time is open.                                                *)
KeptUntilReplayed ==
    ~ shared => \A o \in Elements(accepted) : replays[o] > 0 \/ o \in Elements(stored)

(* ... it is handed back once, unless its window closed as it handed it     *)
(* over, and in the order the syncs were queued.                            *)
ReplayedOnceInOrder ==
    ~ shared =>
        /\ \A o \in Op \ cut : replays[o] <= 1
        /\ \A i, j \in DOMAIN accepted :
              i < j /\ replays[accepted[j]] > 0 => replays[accepted[i]] > 0

(* Once the network is back for good and the window stays open, its queue   *)
(* is drained.                                                              *)
DrainedOnceBack ==
    \A w \in Window :
        <>[](up /\ open[w] # "closed") => []<>(queue[w] = <<>>)
=============================================================================
