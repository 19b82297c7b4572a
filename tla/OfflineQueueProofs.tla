-------------------------- MODULE OfflineQueueProofs --------------------------
(***************************************************************************)
(* Proofs about OfflineQueue, for every number of windows and syncs and     *)
(* every limit of the queue: a queue is never parked, and while one window  *)
(* at a time is open, a sync that was queued is kept until it is handed     *)
(* back, once and in order.                                                 *)
(***************************************************************************)
EXTENDS OfflineQueue, SequenceTheorems, TLAPS

Flags == [Window -> BOOLEAN]

(* Types of the state; the queue kept is one that was within the limit. *)
Types ==
    /\ up \in BOOLEAN /\ shared \in BOOLEAN
    /\ stored \in Seq(Op) /\ Len(stored) <= maxQueueSize
    /\ accepted \in Seq(Op)
    /\ open \in [Window -> {"closed", "probing", "wired"}]
    /\ queue \in [Window -> Seq(Op)]
    /\ \A w \in Window : Len(queue[w]) <= maxQueueSize
    /\ status \in [Window -> {"online", "offline"}]
    /\ probeTimer \in Flags /\ checking \in Flags /\ waiting \in Flags
    /\ drainTimer \in Flags /\ draining \in Flags
    /\ opens \in Nat /\ replays \in [Op -> Nat]
    /\ refused \subseteq Op /\ cut \subseteq Op

(* A window drains what it has queued once it is wired; its probe timer     *)
(* runs exactly while it has something queued or its network is down.       *)
Timers ==
    \A w \in Window :
        /\ draining[w] => open[w] = "wired" /\ queue[w] # <<>>
        /\ open[w] # "closed" =>
              (probeTimer[w] <=> queue[w] # <<>> \/ status[w] # "online")

Inv == Types /\ Timers /\ NeverParked

(* How many of the syncs that were queued have left the queue. *)
Left == Len(accepted) - Len(stored)

(* One window at a time: its queue is the one kept. *)
OneWindow ==
    /\ \A v, w \in Window : open[v] # "closed" /\ open[w] # "closed" => v = w
    /\ \A w \in Window : open[w] # "closed" => queue[w] = stored

(* What is kept is the end of what was queued, each sync queued once. *)
KeptIsTheEnd ==
    /\ Len(stored) <= Len(accepted)
    /\ \A i \in 1..Len(stored) : stored[i] = accepted[Left + i]
    /\ \A i, j \in 1..Len(accepted) : accepted[i] = accepted[j] => i = j

(* Those that left were handed back; of the others the head alone may have  *)
(* been, by the drain under way or by a window that closed as it did.       *)
HandedBack ==
    /\ \A i \in 1..Left : replays[accepted[i]] > 0
    /\ \A o \in Op : replays[o] > 0 =>
          \E i \in 1..Len(accepted) : i <= Left + 1 /\ accepted[i] = o
    /\ stored # <<>> /\ replays[stored[1]] > 0 =>
          stored[1] \in cut \/ \E w \in Window : draining[w]
    /\ \A w \in Window : draining[w] => replays[stored[1]] > 0
    /\ \A o \in Op \ cut : replays[o] <= 1

Alone == OneWindow /\ KeptIsTheEnd /\ HandedBack

IInv == Inv /\ (~ shared => Alone)

-----------------------------------------------------------------------------
(* Facts about the sequences the queue is made of.                          *)

LEMMA AppendFacts ==
    ASSUME NEW q \in Seq(Op), NEW o \in Op
    PROVE  /\ Append(q, o) \in Seq(Op) /\ Append(q, o) # <<>>
           /\ Len(Append(q, o)) = Len(q) + 1 /\ Len(q) \in Nat
           /\ \A i \in 1..Len(q) : Append(q, o)[i] = q[i]
           /\ Append(q, o)[Len(q) + 1] = o
BY AppendProperties

LEMMA QueueFacts ==
    ASSUME NEW q \in Seq(Op), q # <<>>
    PROVE  /\ Head(q) \in Op /\ Head(q) = q[1] /\ Len(q) \in Nat \ {0}
           /\ Tail(q) \in Seq(Op) /\ Len(Tail(q)) = Len(q) - 1
           /\ \A i \in 1..Len(q) - 1 : Tail(q)[i] = q[i + 1]
           /\ Tail(q) = <<>> <=> ~ (Len(q) > 1)
           /\ \A i \in 1..Len(q) : q[i] \in Op
<1>1. Len(q) \in Nat \ {0}
  BY EmptySeq
<1>2. /\ Tail(q) \in Seq(Op) /\ Len(Tail(q)) = Len(q) - 1
      /\ \A i \in 1..Len(q) - 1 : Tail(q)[i] = q[i + 1]
  BY <1>1
<1>3. Tail(q) = <<>> <=> ~ (Len(q) > 1)
  <2>1. Tail(q) = <<>> <=> Len(Tail(q)) = 0
    BY <1>2, EmptySeq
  <2> QED BY <1>1, <1>2, <2>1
<1>4. \A i \in 1..Len(q) : q[i] \in Op
  OBVIOUS
<1>5. Head(q) = q[1] /\ Head(q) \in Op
  BY <1>1
<1> QED BY <1>1, <1>2, <1>3, <1>4, <1>5

-----------------------------------------------------------------------------
(* The queue of a window is never parked.                                   *)

LEMMA InitInv == Init => Inv
<1> SUFFICES ASSUME Init PROVE Inv
  OBVIOUS
<1>1. <<>> \in Seq(Op) /\ Len(<<>>) = 0
  OBVIOUS
<1>2. Types
  <2>1. /\ stored \in Seq(Op) /\ Len(stored) <= maxQueueSize /\ accepted \in Seq(Op)
        /\ queue \in [Window -> Seq(Op)] /\ \A w \in Window : Len(queue[w]) <= maxQueueSize
    <3> DEFINE empty == <<>>
    <3>1. /\ stored = empty /\ accepted = empty /\ queue = [w \in Window |-> empty]
          /\ empty \in Seq(Op) /\ Len(empty) = 0
      BY <1>1 DEF Init
    <3> HIDE DEF empty
    <3> QED BY <3>1, BoundAssumption
  <2>2. /\ probeTimer \in Flags /\ checking \in Flags /\ waiting \in Flags
        /\ drainTimer \in Flags /\ draining \in Flags /\ shared \in BOOLEAN /\ up \in BOOLEAN
    BY DEF Init, Flags
  <2>3. /\ open \in [Window -> {"closed", "probing", "wired"}]
        /\ status \in [Window -> {"online", "offline"}]
        /\ opens \in Nat /\ replays \in [Op -> Nat] /\ refused \subseteq Op /\ cut \subseteq Op
    BY DEF Init
  <2> QED BY <2>1, <2>2, <2>3 DEF Types
<1>3. Timers /\ NeverParked
  BY DEF Init, Timers, NeverParked
<1> QED BY <1>2, <1>3 DEF Inv

(* drainQueue() begins a drain when there is something to do. *)
LEMMA DrainBegins ==
    ASSUME Inv, NEW w \in Window, drainQueue(w)
    PROVE  /\ draining' \in Flags /\ replays' \in [Op -> Nat]
           /\ open[w] = "wired" /\ queue[w] # <<>> => draining'[w]
           /\ draining'[w] => open[w] = "wired" /\ queue[w] # <<>>
           /\ \A v \in Window \ {w} : draining'[v] = draining[v]
<1> USE DEF Inv, Types, Timers, Flags
<1>1. CASE draining[w] \/ queue[w] = <<>> \/ open[w] # "wired"
  <2>1. UNCHANGED <<draining, replays>>
    BY <1>1 DEF drainQueue
  <2> QED BY <1>1, <2>1
<1>2. CASE ~ (draining[w] \/ queue[w] = <<>> \/ open[w] # "wired")
  <2>1. /\ draining' = [draining EXCEPT ![w] = TRUE]
        /\ replays' = [replays EXCEPT ![Head(queue[w])] = @ + 1]
    BY <1>2 DEF drainQueue
  <2>2. Head(queue[w]) \in Op
    <3>1. queue[w] \in Seq(Op)
      OBVIOUS
    <3> HIDE DEF Inv, Types, Timers
    <3> QED BY <1>2, <3>1, QueueFacts
  <2> QED BY <1>2, <2>1, <2>2
<1> QED BY <1>1, <1>2

LEMMA EnqueueInv ==
    ASSUME Inv, NEW w \in Window, NEW o \in Op, Enqueue(w, o)
    PROVE  Inv'
<1> DEFINE q == Append(queue[w], o)
<1>1. q \in Seq(Op) /\ q # <<>> /\ Len(q) <= maxQueueSize
  <2>1. queue[w] \in Seq(Op) /\ Len(queue[w]) < maxQueueSize
    BY DEF Inv, Types, Enqueue, HasRoom
  <2> QED BY <2>1, AppendFacts, BoundAssumption
<1>2. Append(accepted, o) \in Seq(Op)
  <2>1. accepted \in Seq(Op)
    BY DEF Inv, Types
  <2> QED BY <2>1, AppendFacts
<1>3. /\ queue' = [queue EXCEPT ![w] = q] /\ stored' = q
      /\ accepted' = Append(accepted, o)
      /\ probeTimer' = [probeTimer EXCEPT ![w] = TRUE]
      /\ UNCHANGED <<up, open, status, drainTimer, draining, opens, refused, replays,
                     shared, cut>>
  BY <1>1 DEF Enqueue, syncProbeTimer
<1>4. /\ checking' \in Flags /\ waiting' \in Flags
      /\ status[w] = "online" => checking'[w] /\ waiting'[w]
      /\ \A v \in Window \ {w} : checking'[v] = checking[v] /\ waiting'[v] = waiting[v]
  BY DEF Enqueue, drainIfReachable, Inv, Types, Flags
<1> HIDE DEF q
<1>5. Types'
  BY <1>1, <1>2, <1>3, <1>4 DEF Inv, Types, Flags
<1>6. Timers' /\ NeverParked'
  BY <1>1, <1>3, <1>4 DEF Inv, Types, Timers, NeverParked, Flags
<1> QED BY <1>5, <1>6 DEF Inv

LEMMA HandedOverInv ==
    ASSUME Inv, NEW w \in Window, HandedOver(w)
    PROVE  Inv'
<1> DEFINE q == queue[w]
           t == Tail(queue[w])
<1>1. q \in Seq(Op) /\ q # <<>> /\ Len(q) <= maxQueueSize
  BY DEF Inv, Types, Timers, HandedOver
<1>2. /\ t \in Seq(Op) /\ Len(t) <= maxQueueSize /\ (t = <<>> <=> ~ (Len(q) > 1))
      /\ (Len(q) > 1 => q[2] \in Op)
  <2> HIDE DEF q
  <2>1. /\ Tail(q) \in Seq(Op) /\ Len(Tail(q)) = Len(q) - 1 /\ Len(q) \in Nat
        /\ (Tail(q) = <<>> <=> ~ (Len(q) > 1)) /\ \A i \in 1..Len(q) : q[i] \in Op
    BY <1>1, QueueFacts
  <2>2. /\ Tail(q) \in Seq(Op) /\ Len(Tail(q)) <= maxQueueSize
        /\ (Tail(q) = <<>> <=> ~ (Len(q) > 1)) /\ (Len(q) > 1 => q[2] \in Op)
    BY <1>1, <2>1, BoundAssumption
  <2> QED BY <2>2 DEF q
<1>3. /\ queue' = [queue EXCEPT ![w] = t] /\ stored' = t /\ draining[w]
      /\ UNCHANGED <<up, open, status, checking, waiting, drainTimer, opens, accepted,
                     refused, shared, cut>>
  BY DEF HandedOver
<1>4. CASE Len(q) > 1
  <2>1. replays' = [replays EXCEPT ![q[2]] = @ + 1] /\ UNCHANGED <<draining, probeTimer>>
    BY <1>4 DEF HandedOver
  <2> HIDE DEF q, t
  <2>2. Types'
    BY <1>1, <1>2, <1>3, <1>4, <2>1 DEF Inv, Types, Flags
  <2>3. Timers' /\ NeverParked'
    <3>1. q = queue[w]
      BY DEF q
    <3> QED BY <1>1, <1>2, <1>3, <1>4, <2>1, <3>1 DEF Inv, Types, Timers, NeverParked, Flags
  <2> QED BY <2>2, <2>3 DEF Inv
<1>5. CASE ~ (Len(q) > 1)
  <2>1. /\ draining' = [draining EXCEPT ![w] = FALSE] /\ UNCHANGED replays
        /\ probeTimer' = [probeTimer EXCEPT ![w] = status[w] # "online"]
    BY <1>5 DEF HandedOver, syncProbeTimer
  <2> HIDE DEF q, t
  <2>2. Types'
    BY <1>1, <1>2, <1>3, <1>5, <2>1 DEF Inv, Types, Flags
  <2>3. Timers' /\ NeverParked'
    BY <1>1, <1>2, <1>3, <1>5, <2>1 DEF Inv, Types, Timers, NeverParked, Flags
  <2> QED BY <2>2, <2>3 DEF Inv
<1> QED BY <1>4, <1>5

LEMMA CheckAnswersInv ==
    ASSUME Inv, NEW w \in Window, CheckAnswers(w)
    PROVE  Inv'
<1> DEFINE answer == IF up THEN "online" ELSE "offline"
<1>1. /\ checking' = [checking EXCEPT ![w] = FALSE]
      /\ waiting' = [waiting EXCEPT ![w] = FALSE]
      /\ status' = [status EXCEPT ![w] = answer]
      /\ drainTimer' = [drainTimer EXCEPT ![w] = @ \/ (waiting[w] /\ up)]
      /\ UNCHANGED <<up, stored, open, queue, opens, accepted, refused, shared, cut>>
  BY DEF CheckAnswers
<1>2. probeTimer' = [probeTimer EXCEPT ![w] = IF answer # status[w]
                        THEN queue[w] # <<>> \/ answer # "online" ELSE @]
  BY DEF CheckAnswers, syncProbeTimer, Inv, Types, Flags
<1>3. /\ draining' \in Flags /\ replays' \in [Op -> Nat]
      /\ draining'[w] => open[w] = "wired" /\ queue[w] # <<>>
      /\ draining[w] => draining'[w]
      /\ answer = "online" /\ status[w] = "offline" /\ open[w] = "wired" /\ queue[w] # <<>>
            => draining'[w]
      /\ \A v \in Window \ {w} : draining'[v] = draining[v]
  <2>1. CASE answer = "online" /\ status[w] = "offline"
    <3>1. drainQueue(w)
      BY <2>1 DEF CheckAnswers
    <3> QED BY <3>1, DrainBegins DEF Inv, Timers
  <2>2. CASE ~ (answer = "online" /\ status[w] = "offline")
    <3>1. UNCHANGED <<draining, replays>>
      BY <2>2 DEF CheckAnswers
    <3> QED BY <2>2, <3>1 DEF Inv, Types, Timers
  <2> QED BY <2>1, <2>2
<1>4. answer \in {"online", "offline"} /\ (up <=> answer = "online")
  OBVIOUS
<1> HIDE DEF answer
<1>5. Types'
  BY <1>1, <1>2, <1>3, <1>4 DEF Inv, Types, Flags
<1>6. Timers'
  BY <1>1, <1>2, <1>3, <1>4 DEF Inv, Types, Timers, Flags
<1>7. NeverParked'
  BY <1>1, <1>2, <1>3, <1>4 DEF Inv, Types, Timers, NeverParked, Flags
<1> QED BY <1>5, <1>6, <1>7 DEF Inv

LEMMA NextInv == Inv /\ [Next]_vars => Inv'
<1> SUFFICES ASSUME Inv, [Next]_vars PROVE Inv'
  OBVIOUS
<1> USE BoundAssumption DEF Inv, Types, Timers, NeverParked, Flags, history
<1>1. CASE NetworkChanges
  BY <1>1 DEF NetworkChanges
<1>2. ASSUME NEW w \in Window, Open(w) PROVE Inv'
  <2> DEFINE p == stored # <<>> \/ status[w] # "online"
  <2>1. /\ p \in BOOLEAN /\ open[w] = "closed"
        /\ open' = [open EXCEPT ![w] = "probing"]
        /\ queue' = [queue EXCEPT ![w] = stored]
        /\ probeTimer' = [probeTimer EXCEPT ![w] = p]
        /\ opens' = opens + 1 /\ shared' \in BOOLEAN
        /\ UNCHANGED <<up, stored, status, checking, waiting, drainTimer, draining,
                       accepted, refused, replays, cut>>
    BY <1>2 DEF Open, syncProbeTimer
  <2>2. p <=> stored # <<>> \/ status[w] # "online"
    OBVIOUS
  <2> HIDE DEF p
  <2>3. Types'
    BY <2>1
  <2>4. Timers' /\ NeverParked'
    BY <2>1, <2>2
  <2> QED BY <2>3, <2>4
<1>3. ASSUME NEW w \in Window, Wire(w) PROVE Inv'
  <2>1. /\ open[w] = "probing" /\ open' = [open EXCEPT ![w] = "wired"]
        /\ checking' \in Flags /\ waiting' \in Flags
        /\ queue[w] # <<>> /\ status[w] = "online" => checking'[w] /\ waiting'[w]
        /\ \A v \in Window \ {w} : checking'[v] = checking[v] /\ waiting'[v] = waiting[v]
        /\ UNCHANGED <<up, stored, queue, status, probeTimer, drainTimer, draining, history>>
    <3>1. CASE queue[w] # <<>> /\ status[w] = "online"
      <4>1. checking' = [checking EXCEPT ![w] = TRUE] /\ waiting' = [waiting EXCEPT ![w] = TRUE]
        BY <1>3, <3>1 DEF Wire, drainIfReachable
      <4> QED BY <1>3, <4>1 DEF Wire
    <3>2. CASE ~ (queue[w] # <<>> /\ status[w] = "online")
      <4>1. checking' = checking /\ waiting' = waiting
        BY <1>3, <3>2 DEF Wire
      <4> QED BY <1>3, <3>2, <4>1 DEF Wire
    <3> QED BY <3>1, <3>2
  <2>2. Types'
    BY <2>1
  <2>3. Timers' /\ NeverParked'
    BY <2>1
  <2> QED BY <2>2, <2>3
<1>4. ASSUME NEW w \in Window, Close(w) PROVE Inv'
  <2>1. cut' \subseteq Op
    <3>1. draining[w] => Head(queue[w]) \in Op
      <4>1. queue[w] \in Seq(Op) /\ (draining[w] => queue[w] # <<>>)
        OBVIOUS
      <4> HIDE DEF Inv, Types, Timers, NeverParked
      <4> QED BY <4>1, QueueFacts
    <3> QED BY <1>4, <3>1 DEF Close
  <2>2. <<>> \in Seq(Op) /\ Len(<<>>) = 0
    OBVIOUS
  <2> QED BY <1>4, <2>1, <2>2 DEF Close
<1>5. ASSUME NEW w \in Window, NEW o \in Op, Enqueue(w, o) PROVE Inv'
  BY <1>5, EnqueueInv
<1>6. ASSUME NEW w \in Window, NEW o \in Op, EnqueueRefused(w, o) PROVE Inv'
  BY <1>6 DEF EnqueueRefused
<1>7. ASSUME NEW w \in Window, ProbeTick(w) PROVE Inv'
  BY <1>7 DEF ProbeTick
<1>8. ASSUME NEW w \in Window, CheckAnswers(w) PROVE Inv'
  BY <1>8, CheckAnswersInv
<1>9. ASSUME NEW w \in Window, DrainDue(w) PROVE Inv'
  <2>1. /\ draining' \in Flags /\ replays' \in [Op -> Nat]
        /\ open[w] = "wired" /\ queue[w] # <<>> => draining'[w]
        /\ draining'[w] => open[w] = "wired" /\ queue[w] # <<>>
        /\ \A v \in Window \ {w} : draining'[v] = draining[v]
    BY <1>9, DrainBegins DEF DrainDue
  <2> QED BY <1>9, <2>1 DEF DrainDue
<1>10. ASSUME NEW w \in Window, HandedOver(w) PROVE Inv'
  BY <1>10, HandedOverInv
<1>11. CASE UNCHANGED vars
  BY <1>11 DEF vars
<1> QED BY <1>1, <1>2, <1>3, <1>4, <1>5, <1>6, <1>7, <1>8, <1>9, <1>10, <1>11 DEF Next, Runs

-----------------------------------------------------------------------------
(* One window at a time.                                                    *)

LEMMA LeftFacts ==
    ASSUME Inv, KeptIsTheEnd
    PROVE  /\ Len(stored) \in Nat /\ Len(accepted) \in Nat /\ Left \in Nat
           /\ Left + Len(stored) = Len(accepted)
           /\ \A i \in 1..Len(stored) : stored[i] \in Op
           /\ \A i \in 1..Len(accepted) : accepted[i] \in Op
BY DEF Inv, Types, KeptIsTheEnd, Left

LEMMA InitAlone == Init => Alone
<1> SUFFICES ASSUME Init PROVE Alone
  OBVIOUS
<1>1. Len(stored) = 0 /\ Len(accepted) = 0
  BY DEF Init
<1>2. OneWindow
  BY DEF Init, OneWindow
<1>3. KeptIsTheEnd
  BY <1>1 DEF KeptIsTheEnd, Left
<1>4. HandedBack
  BY <1>1 DEF Init, HandedBack, Left
<1> QED BY <1>2, <1>3, <1>4 DEF Alone

(* A step that leaves the queue, what is kept and what was handed over alone. *)
LEMMA AloneKept ==
    ASSUME Alone, UNCHANGED <<stored, accepted, queue, replays, cut, draining>>,
           \A w \in Window : (open'[w] # "closed") <=> (open[w] # "closed")
    PROVE  Alone'
<1>1. OneWindow'
  BY DEF Alone, OneWindow
<1>2. KeptIsTheEnd'
  BY DEF Alone, KeptIsTheEnd, Left
<1>3. HandedBack'
  BY DEF Alone, HandedBack, Left
<1> QED BY <1>1, <1>2, <1>3 DEF Alone

(* A drain hands the head of the queue over, for the first time unless the  *)
(* window that did before closed meanwhile.                                 *)
LEMMA DrainAlone ==
    ASSUME Inv, Alone, NEW w \in Window, drainQueue(w),
           UNCHANGED <<stored, accepted, queue, open, cut>>
    PROVE  Alone'
<1>1. CASE draining[w] \/ queue[w] = <<>> \/ open[w] # "wired"
  <2>1. UNCHANGED <<draining, replays>>
    BY <1>1 DEF drainQueue
  <2> QED BY <2>1, AloneKept
<1>2. CASE ~ (draining[w] \/ queue[w] = <<>> \/ open[w] # "wired")
  <2> DEFINE h == stored[1]
  <2>1. queue[w] = stored /\ stored # <<>> /\ \A v \in Window : open[v] # "closed" => v = w
    BY <1>2 DEF Alone, OneWindow
  <2>2. /\ stored \in Seq(Op) /\ Head(stored) = h /\ h \in Op /\ Len(stored) \in Nat \ {0}
    <3>1. stored \in Seq(Op)
      BY DEF Inv, Types
    <3> QED BY <2>1, <3>1, QueueFacts
  <2>3. /\ draining' = [draining EXCEPT ![w] = TRUE]
        /\ replays' = [replays EXCEPT ![h] = @ + 1]
    BY <1>2, <2>1, <2>2 DEF drainQueue
  <2>4. \A v \in Window : ~ draining[v]
    BY <1>2, <2>1 DEF Inv, Timers
  <2>5. OneWindow' /\ KeptIsTheEnd'
    BY DEF Alone, OneWindow, KeptIsTheEnd, Left
  <2>6. Left \in Nat /\ Left + 1 \in 1..Len(accepted) /\ accepted[Left + 1] = h
    <3>1. KeptIsTheEnd
      BY DEF Alone
    <3>2. Len(accepted) \in Nat /\ Left \in Nat /\ Left + Len(stored) = Len(accepted)
      BY <3>1, LeftFacts
    <3>3. h = accepted[Left + 1]
      BY <2>2, <3>1 DEF KeptIsTheEnd
    <3> QED BY <2>2, <3>2, <3>3
  <2>7. h \in cut \/ replays[h] = 0
    BY <2>1, <2>2, <2>4 DEF Alone, HandedBack, Inv, Types
  <2>8. \A o \in Op : replays[o] \in Nat /\ replays'[o] = IF o = h THEN replays[o] + 1 ELSE replays[o]
    BY <2>2, <2>3 DEF Inv, Types
  <2> HIDE DEF h
  <2>9. \A i \in 1..Left' : replays'[accepted'[i]] > 0
    BY <2>8, LeftFacts DEF Alone, HandedBack, Left
  <2>10. \A o \in Op : replays'[o] > 0 =>
            \E i \in 1..Len(accepted') : i <= Left' + 1 /\ accepted'[i] = o
    BY <2>6, <2>8 DEF Alone, HandedBack, Left
  <2>11. draining'[w]
    BY <2>3 DEF Inv, Types, Flags
  <2>12. replays'[stored'[1]] > 0
    BY <2>2, <2>8 DEF h
  <2>13. \A o \in Op \ cut' : replays'[o] <= 1
    BY <2>7, <2>8 DEF Alone, HandedBack
  <2>14. HandedBack'
    BY <2>9, <2>10, <2>11, <2>12, <2>13 DEF HandedBack
  <2> QED BY <2>5, <2>14 DEF Alone
<1> QED BY <1>1, <1>2

(* A sync that is queued joins the end of what is kept. *)
LEMMA EnqueueAlone ==
    ASSUME Inv, Alone, NEW w \in Window, NEW o \in Op, Enqueue(w, o)
    PROVE  Alone'
<1>1. /\ queue[w] = stored /\ \A v \in Window : open[v] # "closed" => v = w
      /\ stored' = Append(stored, o) /\ accepted' = Append(accepted, o)
      /\ queue' = [queue EXCEPT ![w] = Append(stored, o)]
      /\ UNCHANGED <<open, draining, replays, cut>>
  BY DEF Enqueue, Alone, OneWindow
<1>2. /\ Len(stored') = Len(stored) + 1 /\ stored'[Len(stored) + 1] = o
      /\ \A i \in 1..Len(stored) : stored'[i] = stored[i]
  <2>1. stored \in Seq(Op)
    BY DEF Inv, Types
  <2> QED BY <1>1, <2>1, AppendFacts
<1>3. /\ Len(accepted') = Len(accepted) + 1 /\ accepted'[Len(accepted) + 1] = o
      /\ \A i \in 1..Len(accepted) : accepted'[i] = accepted[i]
  <2>1. accepted \in Seq(Op)
    BY DEF Inv, Types
  <2> QED BY <1>1, <2>1, AppendFacts
<1>4. /\ Len(stored) \in Nat /\ Len(accepted) \in Nat /\ Left \in Nat
      /\ Left + Len(stored) = Len(accepted)
      /\ \A i \in 1..Len(stored) : stored[i] = accepted[Left + i]
      /\ \A i, j \in 1..Len(accepted) : accepted[i] = accepted[j] => i = j
      /\ \A i \in 1..Len(accepted) : accepted[i] \in Op
  BY LeftFacts DEF Alone, KeptIsTheEnd
<1>5. \A i \in 1..Len(accepted) : accepted[i] # o
  <2>1. DOMAIN accepted = 1..Len(accepted)
    BY DEF Inv, Types
  <2> QED BY <2>1 DEF Enqueue, Elements
<1>6. Left' = Left
  BY <1>2, <1>3, <1>4 DEF Left
<1>7. OneWindow'
  <2>1. queue'[w] = stored'
    BY <1>1 DEF Inv, Types
  <2> QED BY <1>1, <2>1 DEF OneWindow
<1>8. KeptIsTheEnd'
  <2>1. ASSUME NEW i \in 1..Len(stored') PROVE stored'[i] = accepted'[Left + i]
    <3>1. CASE i \in 1..Len(stored)
      <4>1. Left + i \in 1..Len(accepted)
        BY <1>4, <3>1
      <4> QED BY <1>2, <1>3, <1>4, <3>1, <4>1
    <3>2. CASE i = Len(stored) + 1
      <4>1. Left + i = Len(accepted) + 1
        BY <1>4, <3>2
      <4> QED BY <1>2, <1>3, <3>2, <4>1
    <3> QED BY <1>2, <1>4, <3>1, <3>2
  <2>2. \A i, j \in 1..Len(accepted') : accepted'[i] = accepted'[j] => i = j
    BY <1>3, <1>4, <1>5
  <2>3. Len(stored') <= Len(accepted')
    BY <1>2, <1>3, <1>4
  <2> QED BY <1>6, <2>1, <2>2, <2>3 DEF KeptIsTheEnd
<1>9. HandedBack'
  <2>1. \A i \in 1..Left' : replays'[accepted'[i]] > 0
    <3>1. \A i \in 1..Left : i \in 1..Len(accepted)
      BY <1>4
    <3> QED BY <1>1, <1>3, <1>6, <3>1 DEF Alone, HandedBack
  <2>2. ASSUME NEW p \in Op, replays'[p] > 0
        PROVE  \E i \in 1..Len(accepted') : i <= Left' + 1 /\ accepted'[i] = p
    <3>1. PICK i \in 1..Len(accepted) : i <= Left + 1 /\ accepted[i] = p
      BY <1>1, <2>2 DEF Alone, HandedBack
    <3> QED BY <1>3, <1>4, <1>6, <3>1
  <2>3. replays[o] = 0
    <3>1. ~ (replays[o] > 0)
      BY <1>5 DEF Alone, HandedBack
    <3> QED BY <3>1 DEF Inv, Types
  <2>4. CASE Len(stored) = 0
    <3>1. stored'[1] = o /\ \A v \in Window : ~ draining[v]
      <4>1. stored'[1] = o
        BY <1>2, <2>4
      <4>2. stored = <<>>
        BY <2>4, EmptySeq DEF Inv, Types
      <4>3. \A v \in Window : ~ draining[v]
        BY <1>1, <4>2 DEF Inv, Timers
      <4> QED BY <4>1, <4>3
    <3>2. ~ (replays'[stored'[1]] > 0) /\ \A v \in Window : ~ draining'[v]
      BY <1>1, <2>3, <3>1
    <3>3. \A p \in Op \ cut' : replays'[p] <= 1
      BY <1>1 DEF Alone, HandedBack
    <3> QED BY <2>1, <2>2, <3>2, <3>3 DEF HandedBack
  <2>5. CASE Len(stored) # 0
    <3>1. stored'[1] = stored[1] /\ stored # <<>>
      BY <1>2, <1>4, <2>5
    <3> QED BY <1>1, <2>1, <2>2, <3>1 DEF Alone, HandedBack
  <2> QED BY <2>4, <2>5
<1> QED BY <1>7, <1>8, <1>9 DEF Alone

(* The sync handed over leaves the queue; the next is handed over for the   *)
(* first time.                                                              *)
LEMMA HandedOverAlone ==
    ASSUME Inv, Alone, NEW w \in Window, HandedOver(w)
    PROVE  Alone'
<1> DEFINE h == stored[1]
           n == stored[2]
<1>1. /\ draining[w] /\ open[w] = "wired" /\ queue[w] = stored /\ stored # <<>>
      /\ \A v \in Window : open[v] # "closed" => v = w
  BY DEF HandedOver, Inv, Timers, Alone, OneWindow
<1>2. /\ queue' = [queue EXCEPT ![w] = Tail(stored)] /\ stored' = Tail(stored)
      /\ UNCHANGED <<open, accepted, cut>>
  BY <1>1 DEF HandedOver
<1>3. /\ Len(stored) \in Nat \ {0} /\ Len(stored') = Len(stored) - 1
      /\ \A i \in 1..Len(stored) - 1 : stored'[i] = stored[i + 1]
      /\ \A i \in 1..Len(stored) : stored[i] \in Op
      /\ stored' = <<>> <=> ~ (Len(stored) > 1)
  <2>1. stored \in Seq(Op)
    BY DEF Inv, Types
  <2> QED BY <1>1, <1>2, <2>1, QueueFacts
<1>4. /\ Len(accepted) \in Nat /\ Left \in Nat /\ Left + Len(stored) = Len(accepted)
      /\ \A i \in 1..Len(stored) : stored[i] = accepted[Left + i]
      /\ \A i, j \in 1..Len(accepted) : accepted[i] = accepted[j] => i = j
      /\ \A i \in 1..Len(accepted) : accepted[i] \in Op
  <2>1. KeptIsTheEnd
    BY DEF Alone
  <2> QED BY <2>1, LeftFacts DEF KeptIsTheEnd
<1>5. Left' = Left + 1
  BY <1>2, <1>3, <1>4 DEF Left
<1>6. OneWindow'
  <2>1. queue'[w] = stored'
    BY <1>2 DEF Inv, Types
  <2> QED BY <1>1, <1>2, <2>1 DEF OneWindow
<1>7. KeptIsTheEnd'
  <2>1. ASSUME NEW i \in 1..Len(stored') PROVE stored'[i] = accepted'[Left' + i]
    <3>1. i + 1 \in 1..Len(stored) /\ i \in 1..Len(stored) - 1 /\ Left' + i = Left + (i + 1)
      BY <1>3, <1>4, <1>5
    <3> QED BY <1>2, <1>3, <1>4, <3>1
  <2>2. Len(stored') <= Len(accepted')
    BY <1>2, <1>3, <1>4
  <2> QED BY <1>2, <1>4, <2>1, <2>2 DEF KeptIsTheEnd
<1>8. /\ h \in Op /\ replays[h] > 0 /\ replays \in [Op -> Nat]
      /\ Left + 1 \in 1..Len(accepted) /\ accepted[Left + 1] = h
  <2>1. h \in Op /\ Left + 1 \in 1..Len(accepted) /\ accepted[Left + 1] = h
    BY <1>3, <1>4
  <2> QED BY <1>1, <2>1 DEF Alone, HandedBack, Inv, Types
<1>9. \A v \in Window : draining[v] => v = w
  BY <1>1 DEF Inv, Timers
<1>10. CASE Len(stored) > 1
  <2>1. replays' = [replays EXCEPT ![n] = @ + 1] /\ UNCHANGED draining
    BY <1>1, <1>10 DEF HandedOver
  <2>2. n \in Op /\ Left + 2 \in 1..Len(accepted) /\ accepted[Left + 2] = n /\ stored'[1] = n
    BY <1>3, <1>4, <1>10
  <2>3. replays[n] = 0
    <3>1. ASSUME replays[n] > 0 PROVE FALSE
      <4>1. PICK i \in 1..Len(accepted) : i <= Left + 1 /\ accepted[i] = n
        BY <2>2, <3>1 DEF Alone, HandedBack
      <4> QED BY <1>4, <2>2, <4>1
    <3> QED BY <1>8, <2>2, <3>1
  <2> HIDE DEF n, h
  <2>4. \A o \in Op : replays[o] \in Nat
                       /\ replays'[o] = IF o = n THEN 1 ELSE replays[o]
    BY <1>8, <2>1, <2>2, <2>3
  <2>5. \A i \in 1..Left' : replays'[accepted'[i]] > 0
    <3>1. \A i \in 1..Left : replays[accepted[i]] > 0
      BY DEF Alone, HandedBack
    <3>2. \A i \in 1..Left + 1 : replays[accepted[i]] > 0 /\ accepted[i] \in Op
      BY <1>4, <1>8, <3>1
    <3> QED BY <1>2, <1>5, <2>4, <3>2
  <2>6. ASSUME NEW o \in Op, replays'[o] > 0
        PROVE  \E i \in 1..Len(accepted') : i <= Left' + 1 /\ accepted'[i] = o
    <3>1. CASE o = n
      BY <1>2, <1>4, <1>5, <2>2, <3>1
    <3>2. CASE o # n
      <4>1. PICK i \in 1..Len(accepted) : i <= Left + 1 /\ accepted[i] = o
        BY <2>4, <2>6, <3>2 DEF Alone, HandedBack
      <4> QED BY <1>2, <1>4, <1>5, <4>1
    <3> QED BY <3>1, <3>2
  <2>7. draining'[w] /\ replays'[stored'[1]] > 0
    BY <1>1, <2>1, <2>2, <2>4
  <2>8. \A o \in Op \ cut' : replays'[o] <= 1
    BY <1>2, <2>4 DEF Alone, HandedBack
  <2>9. HandedBack'
    BY <2>5, <2>6, <2>7, <2>8 DEF HandedBack
  <2> QED BY <1>6, <1>7, <2>9 DEF Alone
<1>11. CASE ~ (Len(stored) > 1)
  <2>1. draining' = [draining EXCEPT ![w] = FALSE] /\ replays' = replays
    BY <1>1, <1>11 DEF HandedOver
  <2>2. stored' = <<>> /\ \A v \in Window : ~ draining'[v]
    BY <1>3, <1>9, <1>11, <2>1 DEF Inv, Types, Flags
  <2> HIDE DEF n, h
  <2>3. \A i \in 1..Left' : replays'[accepted'[i]] > 0
    <3>1. \A i \in 1..Left : replays[accepted[i]] > 0
      BY DEF Alone, HandedBack
    <3> QED BY <1>2, <1>4, <1>5, <1>8, <2>1, <3>1
  <2>4. ASSUME NEW o \in Op, replays'[o] > 0
        PROVE  \E i \in 1..Len(accepted') : i <= Left' + 1 /\ accepted'[i] = o
    <3>1. PICK i \in 1..Len(accepted) : i <= Left + 1 /\ accepted[i] = o
      BY <2>1, <2>4 DEF Alone, HandedBack
    <3> QED BY <1>2, <1>4, <1>5, <3>1
  <2>5. \A o \in Op \ cut' : replays'[o] <= 1
    BY <1>2, <2>1 DEF Alone, HandedBack
  <2>6. HandedBack'
    BY <2>2, <2>3, <2>4, <2>5 DEF HandedBack
  <2> QED BY <1>6, <1>7, <2>6 DEF Alone
<1> QED BY <1>10, <1>11

LEMMA CloseAlone ==
    ASSUME Inv, Alone, NEW w \in Window, Close(w)
    PROVE  Alone'
<1>1. /\ open[w] # "closed" /\ queue[w] = stored
      /\ \A v \in Window : open[v] # "closed" => v = w
      /\ cut' = IF draining[w] THEN cut \cup {Head(queue[w])} ELSE cut
      /\ \A v \in Window : open'[v] = "closed"
      /\ \A v \in Window : ~ draining'[v]
      /\ UNCHANGED <<stored, accepted, replays>>
  BY DEF Close, Inv, Types, Timers, Flags, Alone, OneWindow
<1>2. OneWindow' /\ KeptIsTheEnd'
  BY <1>1 DEF OneWindow, Alone, KeptIsTheEnd, Left
<1>3. stored # <<>> /\ replays[stored[1]] > 0 => stored[1] \in cut'
  <2> SUFFICES ASSUME stored # <<>>, replays[stored[1]] > 0 PROVE stored[1] \in cut'
    OBVIOUS
  <2>1. Head(stored) = stored[1]
    <3>1. stored \in Seq(Op)
      BY DEF Inv, Types
    <3> QED BY <3>1, QueueFacts
  <2>2. stored[1] \in cut \/ draining[w]
    BY <1>1 DEF Alone, HandedBack, Inv, Timers
  <2> QED BY <1>1, <2>1, <2>2
<1>4. HandedBack'
  <2>1. cut \subseteq cut'
    BY <1>1
  <2> QED BY <1>1, <1>3, <2>1 DEF Alone, HandedBack, Left
<1> QED BY <1>2, <1>4 DEF Alone

LEMMA NextAlone ==
    ASSUME Inv, ~ shared => Alone, [Next]_vars, ~ shared'
    PROVE  Alone'
<1>1. ~ shared
  <2>1. shared => shared'
    BY DEF Next, NetworkChanges, Open, Wire, Close, Enqueue, EnqueueRefused, Runs, ProbeTick,
         CheckAnswers, DrainDue, HandedOver, vars, history, Inv, Types
  <2> QED BY <2>1
<1>2. Alone
  BY <1>1
<1> USE DEF history
<1>3. CASE NetworkChanges
  BY <1>2, <1>3, AloneKept DEF NetworkChanges
<1>4. ASSUME NEW w \in Window, Open(w) PROVE Alone'
  <2>1. /\ \A v \in Window : open[v] = "closed"
        /\ open' = [open EXCEPT ![w] = "probing"] /\ queue' = [queue EXCEPT ![w] = stored]
        /\ UNCHANGED <<stored, accepted, replays, cut, draining>>
    BY <1>4 DEF Open
  <2>2. OneWindow'
    BY <2>1 DEF OneWindow, Inv, Types
  <2>3. KeptIsTheEnd' /\ HandedBack'
    BY <1>2, <2>1 DEF Alone, KeptIsTheEnd, HandedBack, Left
  <2> QED BY <2>2, <2>3 DEF Alone
<1>5. ASSUME NEW w \in Window, Wire(w) PROVE Alone'
  <2>1. \A v \in Window : (open'[v] # "closed") <=> (open[v] # "closed")
    BY <1>5 DEF Wire, Inv, Types
  <2> QED BY <1>2, <1>5, <2>1, AloneKept DEF Wire
<1>6. ASSUME NEW w \in Window, Close(w) PROVE Alone'
  BY <1>2, <1>6, CloseAlone
<1>7. ASSUME NEW w \in Window, NEW o \in Op, Enqueue(w, o) PROVE Alone'
  BY <1>2, <1>7, EnqueueAlone
<1>8. ASSUME NEW w \in Window, NEW o \in Op, EnqueueRefused(w, o) PROVE Alone'
  BY <1>2, <1>8, AloneKept DEF EnqueueRefused
<1>9. ASSUME NEW w \in Window, ProbeTick(w) PROVE Alone'
  BY <1>2, <1>9, AloneKept DEF ProbeTick
<1>10. ASSUME NEW w \in Window, CheckAnswers(w) PROVE Alone'
  <2>1. drainQueue(w) \/ UNCHANGED <<draining, replays>>
    BY <1>10 DEF CheckAnswers
  <2>2. UNCHANGED <<stored, accepted, queue, open, cut>>
    BY <1>10 DEF CheckAnswers
  <2> QED BY <1>2, <2>1, <2>2, DrainAlone, AloneKept
<1>11. ASSUME NEW w \in Window, DrainDue(w) PROVE Alone'
  BY <1>2, <1>11, DrainAlone DEF DrainDue
<1>12. ASSUME NEW w \in Window, HandedOver(w) PROVE Alone'
  BY <1>2, <1>12, HandedOverAlone
<1>13. CASE UNCHANGED vars
  BY <1>2, <1>13, AloneKept DEF vars
<1> QED BY <1>3, <1>4, <1>5, <1>6, <1>7, <1>8, <1>9, <1>10, <1>11, <1>12, <1>13 DEF Next, Runs

LEMMA Invariant == Spec => []IInv
<1>1. Init => IInv
  BY InitInv, InitAlone DEF IInv
<1>2. IInv /\ [Next]_vars => IInv'
  BY NextInv, NextAlone DEF IInv
<1> QED BY <1>1, <1>2, PTL DEF Spec

-----------------------------------------------------------------------------
(* OfflineManager, in any number of windows: whatever the order of timers,  *)
(* probe answers, failing syncs and wiring, a window with something queued  *)
(* drains it, is about to, waits for a check, or probes a network it knows  *)
(* to be down; and no queue outgrows its limit.                             *)
THEOREM QueueNeverParked == Spec => [](TypeOK /\ NeverParked)
<1>1. IInv => TypeOK /\ NeverParked
  BY DEF IInv, Inv, Types, Flags, TypeOK
<1> QED BY <1>1, Invariant, PTL

(* The store of the queue: while one window at a time is open, whatever     *)
(* closes or crashes when, a sync that was queued was handed back to its    *)
(* handler or is kept for the next window.                                  *)
THEOREM QueuedIsKept == Spec => []KeptUntilReplayed
<1>1. IInv => KeptUntilReplayed
  <2> SUFFICES ASSUME IInv, ~ shared, NEW o \in Elements(accepted)
               PROVE  replays[o] > 0 \/ o \in Elements(stored)
    BY DEF KeptUntilReplayed
  <2>1. Inv /\ KeptIsTheEnd /\ HandedBack
    BY DEF IInv, Alone
  <2>2. /\ Len(stored) \in Nat /\ Len(accepted) \in Nat /\ Left \in Nat
        /\ Left + Len(stored) = Len(accepted)
    BY <2>1, LeftFacts
  <2>3. DOMAIN accepted = 1..Len(accepted) /\ DOMAIN stored = 1..Len(stored)
    BY <2>1 DEF Inv, Types
  <2>4. PICK i \in 1..Len(accepted) : accepted[i] = o
    BY <2>3 DEF Elements
  <2>5. CASE i <= Left
    BY <2>1, <2>2, <2>4, <2>5 DEF HandedBack
  <2>6. CASE ~ (i <= Left)
    <3>1. i - Left \in 1..Len(stored) /\ Left + (i - Left) = i
      BY <2>2, <2>6
    <3>2. stored[i - Left] = o
      BY <2>1, <2>4, <3>1 DEF KeptIsTheEnd
    <3> QED BY <2>3, <3>1, <3>2 DEF Elements
  <2> QED BY <2>5, <2>6
<1> QED BY <1>1, Invariant, PTL

(* drainQueue(): while one window at a time is open, a sync is handed back  *)
(* once, unless its window closed as it handed it over, and in the order    *)
(* the syncs were queued.                                                   *)
THEOREM HandedBackInOrder == Spec => []ReplayedOnceInOrder
<1>1. IInv => ReplayedOnceInOrder
  <2> SUFFICES ASSUME IInv, ~ shared
               PROVE  /\ \A o \in Op \ cut : replays[o] <= 1
                      /\ \A i, j \in DOMAIN accepted :
                            i < j /\ replays[accepted[j]] > 0 => replays[accepted[i]] > 0
    BY DEF ReplayedOnceInOrder
  <2>1. Inv /\ KeptIsTheEnd /\ HandedBack
    BY DEF IInv, Alone
  <2>2. /\ Len(accepted) \in Nat /\ Left \in Nat /\ DOMAIN accepted = 1..Len(accepted)
        /\ \A i \in 1..Len(accepted) : accepted[i] \in Op
    BY <2>1, LeftFacts DEF Inv, Types
  <2>3. ASSUME NEW i \in 1..Len(accepted), NEW j \in 1..Len(accepted),
               i < j, replays[accepted[j]] > 0
        PROVE  replays[accepted[i]] > 0
    <3>1. PICK k \in 1..Len(accepted) : k <= Left + 1 /\ accepted[k] = accepted[j]
      BY <2>1, <2>2, <2>3 DEF HandedBack
    <3>2. k = j
      BY <2>1, <3>1 DEF KeptIsTheEnd
    <3>3. i \in 1..Left
      BY <2>2, <2>3, <3>1, <3>2
    <3> QED BY <2>1, <3>3 DEF HandedBack
  <2> QED BY <2>1, <2>2, <2>3 DEF HandedBack
<1> QED BY <1>1, Invariant, PTL
===============================================================================
