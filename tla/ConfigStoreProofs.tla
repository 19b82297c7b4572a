-------------------------- MODULE ConfigStoreProofs --------------------------
(***************************************************************************)
(* Proofs about ConfigStore for every number of windows, keys, categories   *)
(* and writes.                                                              *)
(***************************************************************************)
EXTENDS ConfigStore, TLAPS

(* Data a store stamped: no number above the writes its store made, and the *)
(* last number on the last data only.                                       *)
Stamped(d, count, last) ==
    /\ d.revision.writer \in Window
    /\ d.revision.write \in 1..count[d.revision.writer]
    /\ d.revision.write = count[d.revision.writer] => d = last[d.revision.writer]

(* What is under way is stamped; what is kept is too, or nothing is.        *)
AllStamped ==
    /\ \A w \in Window : \A i \in 1..Len(toMain[w]) : Stamped(toMain[w][i], writes, written)
    /\ \A w \in Window : \A i \in 1..Len(toWindow[w]) : Stamped(toWindow[w][i], writes, written)
    /\ \A w \in Window : Stamped(memento[w], writes, written) \/ (memento[w] = Nothing /\ writes[w] = 0)
    /\ Stamped(stored, writes, written) \/ stored = Nothing

(* What a store alone in writing wrote last is the history's latest.        *)
LatestOfSole ==
    /\ \A w \in Window : SoleWriter(w) /\ writes[w] > 0 => written[w].entries = latest
    /\ (\A w \in Window : writes[w] = 0) => latest = Nothing.entries

IInv == TypeOK /\ AllStamped /\ LatestOfSole

-----------------------------------------------------------------------------
(* The last data on its way along a queue. *)
LastOf(q) == q[Len(q)]

(* A window's own writes are on their way to the main process, its last one *)
(* last; once none is, a write of its own the main process keeps is that.   *)
OwnInOrder ==
    \A w \in Window :
        /\ \A i \in 1..Len(toMain[w]) : toMain[w][i].revision.writer = w
        /\ toMain[w] # <<>> => LastOf(toMain[w]).revision.write = writes[w]
        /\ toMain[w] = <<>> /\ stored.revision.writer = w
             => stored.revision.write = writes[w]

(* What reaches an open window last is what the main process keeps; with    *)
(* nothing on its way, the window holds it or has a write under way.        *)
StoredReaches ==
    \A w \in open :
        IF toWindow[w] # <<>> THEN LastOf(toWindow[w]) = stored
        ELSE memento[w] = stored \/ toMain[w] # <<>>

AgreeInv == OwnInOrder /\ StoredReaches

(* While nothing raced, one window at most has writes under way, and its    *)
(* last one, or the data kept when none is under way, is the latest.        *)
OneUnderWay ==
    \A v, w \in Window : v # w => toMain[v] = <<>> \/ toMain[w] = <<>>

LatestUnderWay ==
    /\ \A w \in Window : toMain[w] # <<>> => written[w].entries = latest
    /\ (\A w \in Window : toMain[w] = <<>>) => stored.entries = latest

(* Nor does an echo of a window's own write follow another window's data.   *)
OwnFirst ==
    \A w \in Window :
        /\ toMain[w] # <<>> =>
              /\ memento[w].revision.writer = w
              /\ \A i \in 1..Len(toWindow[w]) : toWindow[w][i].revision.writer = w
        /\ \A j \in 1..Len(toWindow[w]) : toWindow[w][j].revision.writer = w =>
              /\ memento[w].revision.writer = w
              /\ \A i \in 1..j : toWindow[w][i].revision.writer = w

Unraced == OneUnderWay /\ LatestUnderWay /\ OwnFirst

KeepInv == IInv /\ AgreeInv /\ (~raced => Unraced)

-----------------------------------------------------------------------------
LEMMA NothingIsData == Nothing \in Data
  BY DEF Nothing, Data, Revision, Value

(* A store alone in writing reads its last write, or nothing before it.     *)
LEMMA SoleReadsLatest ==
    ASSUME IInv, NEW w \in Window, SoleWriter(w)
    PROVE  current(w).entries = latest
<1> USE DEF IInv, TypeOK
<1>1. CASE writes[w] > 0
  <2>1. Stamped(memento[w], writes, written)
    BY <1>1 DEF AllStamped
  <2>2. memento[w].revision.writer = w
    BY <2>1, <1>1 DEF Stamped, SoleWriter
  <2>3. current(w) = written[w]
    BY <1>1, <2>1, <2>2 DEF Stamped, current
  <2> QED BY <1>1, <2>3 DEF LatestOfSole
<1>2. CASE ~ (writes[w] > 0)
  <2>0. writes[w] = 0
    BY <1>2
  <2>1. \A v \in Window : writes[v] = 0
    <3> SUFFICES ASSUME NEW v \in Window, v # w PROVE writes[v] = 0
      BY <2>0
    <3> QED BY DEF SoleWriter
  <2>2. ~ Stamped(memento[w], writes, written)
    BY <2>1 DEF Stamped
  <2>3. memento[w] = Nothing
    BY <2>2 DEF AllStamped
  <2>4. current(w) = Nothing
    BY <1>2, <2>3 DEF current
  <2> QED BY <2>1, <2>4 DEF LatestOfSole
<1> QED BY <1>1, <1>2

LEMMA CurrentType ==
    ASSUME TypeOK, NEW w \in Window
    PROVE  current(w) \in Data /\ current(w).entries \in [Key -> Value]
  BY DEF TypeOK, current, Data

(* A write leaves every stamp true: the new one is the last, and data of an *)
(* earlier number is behind it.                                             *)
LEMMA WriteStep ==
    ASSUME IInv, NEW w \in Window, NEW entries \in [Key -> Value],
           write(w, entries), latest' \in [Key -> Value],
           SoleWriter(w) => entries = latest'
    PROVE  IInv'
<1> DEFINE data == [entries |-> entries,
                    revision |-> [writer |-> w, write |-> writes[w] + 1]]
<1> USE DEF IInv
<1>1. data \in Data
  BY DEF Data, Revision, TypeOK
<1>2. /\ writes' = [writes EXCEPT ![w] = @ + 1]
      /\ written' = [written EXCEPT ![w] = data]
      /\ memento' = [memento EXCEPT ![w] = data]
      /\ toMain' = [toMain EXCEPT ![w] = Append(@, data)]
      /\ UNCHANGED <<stored, toWindow, open>>
  BY DEF write
<1>r. raced' \in BOOLEAN
  BY DEF write
<1> HIDE DEF data
<1>3. TypeOK'
  BY <1>1, <1>2, <1>r DEF TypeOK
<1>4. ASSUME NEW d \in Data, Stamped(d, writes, written) PROVE Stamped(d, writes', written')
  BY <1>2, <1>4 DEF TypeOK, Stamped
<1>5. Stamped(data, writes', written')
  BY <1>2, <1>3 DEF Stamped, data, TypeOK
<1>6. AllStamped'
  <2>1. \A v \in Window : \A i \in 1..Len(toMain'[v]) : Stamped(toMain'[v][i], writes', written')
    <3> SUFFICES ASSUME NEW v \in Window, NEW i \in 1..Len(toMain'[v])
                 PROVE  Stamped(toMain'[v][i], writes', written')
      OBVIOUS
    <3>1. CASE v # w
      <4>1. toMain'[v] = toMain[v] /\ toMain[v] \in Seq(Data)
        BY <1>2, <3>1 DEF TypeOK
      <4>2. toMain[v][i] \in Data /\ Stamped(toMain[v][i], writes, written)
        BY <4>1 DEF AllStamped
      <4> QED BY <1>4, <4>1, <4>2
    <3>2. CASE v = w
      <4>1. toMain'[w] = Append(toMain[w], data) /\ toMain[w] \in Seq(Data)
        BY <1>2 DEF TypeOK
      <4>2. CASE i = Len(toMain[w]) + 1
        BY <1>5, <3>2, <4>1, <4>2
      <4>3. CASE i \in 1..Len(toMain[w])
        <5>1. toMain'[w][i] = toMain[w][i] /\ toMain[w][i] \in Data
          BY <4>1, <4>3
        <5> QED BY <1>4, <3>2, <4>3, <5>1 DEF AllStamped
      <4> QED BY <3>2, <4>1, <4>2, <4>3, <1>1
    <3> QED BY <3>1, <3>2
  <2>2. \A v \in Window : \A i \in 1..Len(toWindow'[v]) : Stamped(toWindow'[v][i], writes', written')
    <3> SUFFICES ASSUME NEW v \in Window, NEW i \in 1..Len(toWindow[v])
                 PROVE  Stamped(toWindow[v][i], writes', written')
      BY <1>2
    <3>1. toWindow[v] \in Seq(Data)
      BY DEF TypeOK
    <3>2. toWindow[v][i] \in Data /\ Stamped(toWindow[v][i], writes, written)
      BY <3>1 DEF AllStamped
    <3> QED BY <1>4, <3>2
  <2>3. \A v \in Window :
           Stamped(memento'[v], writes', written') \/ (memento'[v] = Nothing /\ writes'[v] = 0)
    BY <1>2, <1>4, <1>5 DEF AllStamped, TypeOK
  <2>4. Stamped(stored', writes', written') \/ stored' = Nothing
    BY <1>2, <1>4 DEF AllStamped, TypeOK
  <2> QED BY <2>1, <2>2, <2>3, <2>4 DEF AllStamped
<1>7. LatestOfSole'
  <2>1. writes'[w] > 0
    BY <1>2 DEF TypeOK
  <2>2. SoleWriter(w)' => SoleWriter(w)
    BY <1>2 DEF SoleWriter, TypeOK
  <2>3. \A v \in Window \ {w} : ~ SoleWriter(v)'
    BY <2>1, <1>2 DEF SoleWriter, TypeOK
  <2>4. written'[w].entries = entries
    BY <1>2 DEF TypeOK, data
  <2> QED BY <2>1, <2>2, <2>3, <2>4 DEF LatestOfSole
<1> QED BY <1>3, <1>6, <1>7

(* A write by any operation, with the entries it makes of the current data. *)
LEMMA Writes ==
    ASSUME TypeOK, NEW w \in Window,
           \/ \E k \in Key : Set(w, k) \/ delete(w, k)
           \/ \E c \in Category : clearCategory(w, c)
           \/ clearAll(w)
    PROVE  \E entries \in [Key -> Value] :
             /\ write(w, entries)
             /\ latest' \in [Key -> Value]
             /\ current(w).entries = latest => entries = latest'
<1> USE DEF TypeOK
<1>1. ASSUME NEW k \in Key, Set(w, k)
      PROVE  \E entries \in [Key -> Value] :
               /\ write(w, entries) /\ latest' \in [Key -> Value]
               /\ current(w).entries = latest => entries = latest'
  <2> DEFINE value == <<w, writes[w] + 1>>
             entries == [current(w).entries EXCEPT ![k] = value]
  <2>1. value \in Value
    BY DEF Value
  <2>2. entries \in [Key -> Value]
    BY <2>1, CurrentType
  <2>3. write(w, entries) /\ latest' = [latest EXCEPT ![k] = value]
    BY <1>1 DEF Set
  <2>4. latest' \in [Key -> Value] /\ (current(w).entries = latest => entries = latest')
    BY <2>1, <2>3
  <2> HIDE DEF entries
  <2> QED BY <2>2, <2>3, <2>4
<1>2. ASSUME NEW keys \in SUBSET Key, Remove(w, keys)
      PROVE  \E entries \in [Key -> Value] :
               /\ write(w, entries) /\ latest' \in [Key -> Value]
               /\ current(w).entries = latest => entries = latest'
  <2> DEFINE entries == [k \in Key |-> IF k \in keys THEN NoValue ELSE current(w).entries[k]]
  <2>1. entries \in [Key -> Value]
    BY CurrentType DEF Value
  <2>2. write(w, entries)
        /\ latest' = [k \in Key |-> IF k \in keys THEN NoValue ELSE latest[k]]
    BY <1>2 DEF Remove
  <2>3. latest' \in [Key -> Value] /\ (current(w).entries = latest => entries = latest')
    BY <2>2 DEF Value
  <2> HIDE DEF entries
  <2> QED BY <2>1, <2>2, <2>3
<1>3. ASSUME clearAll(w)
      PROVE  \E entries \in [Key -> Value] :
               /\ write(w, entries) /\ latest' \in [Key -> Value]
               /\ current(w).entries = latest => entries = latest'
  <2>1. Nothing.entries \in [Key -> Value]
    BY DEF Nothing, Value
  <2> QED BY <1>3, <2>1 DEF clearAll
<1> QED BY <1>1, <1>2, <1>3, KeyAssumption DEF delete, clearCategory

LEMMA InvariantStep == ASSUME IInv, [Next]_vars PROVE IInv'
<1> USE DEF IInv
<1>1. ASSUME NEW w \in Window,
             \/ \E k \in Key : Set(w, k) \/ delete(w, k)
             \/ \E c \in Category : clearCategory(w, c)
             \/ clearAll(w)
      PROVE  IInv'
  BY <1>1, Writes, WriteStep, SoleReadsLatest
<1>2. ASSUME NEW w \in Window, Open(w) PROVE IInv'
  <2>1. /\ memento' = [memento EXCEPT ![w] = stored]
        /\ open' = open \cup {w} /\ writes[w] = 0
        /\ UNCHANGED <<stored, toMain, toWindow, writes, written, latest, raced>>
    BY <1>2 DEF Open
  <2>2. TypeOK'
    BY <2>1 DEF TypeOK
  <2>3. AllStamped'
    BY <2>1 DEF AllStamped, TypeOK
  <2>4. LatestOfSole'
    BY <2>1 DEF LatestOfSole, SoleWriter
  <2> QED BY <2>2, <2>3, <2>4
<1>3. ASSUME NEW w \in Window, Close(w) PROVE IInv'
  <2>1. /\ open' = open \ {w}
        /\ toWindow' = [toWindow EXCEPT ![w] = <<>>]
        /\ UNCHANGED <<stored, memento, toMain, writes, written, latest, raced>>
    BY <1>3 DEF Close
  <2>2. TypeOK'
    BY <2>1 DEF TypeOK
  <2>3. \A v \in Window : v # w => toWindow'[v] = toWindow[v]
    BY <2>1 DEF TypeOK
  <2>4. toWindow'[w] = <<>>
    BY <2>1 DEF TypeOK
  <2>5. AllStamped'
    BY <2>1, <2>3, <2>4 DEF AllStamped
  <2>6. LatestOfSole'
    BY <2>1 DEF LatestOfSole, SoleWriter
  <2> QED BY <2>2, <2>5, <2>6
<1>4. ASSUME NEW w \in Window, Keep(w) PROVE IInv'
  <2>1. /\ toMain[w] # <<>> /\ toMain[w] \in Seq(Data)
        /\ stored' = Head(toMain[w])
        /\ toMain' = [toMain EXCEPT ![w] = Tail(@)]
        /\ toWindow' = [v \in Window |->
                          IF v \in open THEN Append(toWindow[v], Head(toMain[w]))
                                        ELSE toWindow[v]]
        /\ UNCHANGED <<memento, writes, written, open, latest, raced>>
    BY <1>4 DEF Keep, TypeOK
  <2>2. Head(toMain[w]) \in Data /\ Stamped(Head(toMain[w]), writes, written)
    BY <2>1 DEF AllStamped
  <2>3. TypeOK'
    BY <2>1, <2>2 DEF TypeOK
  <2>4. \A d : Stamped(d, writes', written') <=> Stamped(d, writes, written)
    BY <2>1 DEF Stamped
  <2>5. \A v \in Window : \A i \in 1..Len(toMain'[v]) : Stamped(toMain'[v][i], writes, written)
    BY <2>1 DEF AllStamped, TypeOK
  <2>6. \A v \in Window : \A i \in 1..Len(toWindow'[v]) : Stamped(toWindow'[v][i], writes, written)
    BY <2>1, <2>2 DEF AllStamped, TypeOK
  <2>7. AllStamped'
    BY <2>1, <2>2, <2>4, <2>5, <2>6 DEF AllStamped
  <2>8. LatestOfSole'
    BY <2>1 DEF LatestOfSole, SoleWriter
  <2> QED BY <2>3, <2>7, <2>8
<1>5. ASSUME NEW w \in Window, Echo(w) PROVE IInv'
  <2>1. /\ toWindow[w] # <<>> /\ toWindow[w] \in Seq(Data)
        /\ memento' = [memento EXCEPT ![w] = Head(toWindow[w])]
        /\ toWindow' = [toWindow EXCEPT ![w] = Tail(@)]
        /\ UNCHANGED <<stored, toMain, writes, written, open, latest, raced>>
    BY <1>5 DEF Echo, TypeOK
  <2>2. Head(toWindow[w]) \in Data /\ Stamped(Head(toWindow[w]), writes, written)
    BY <2>1 DEF AllStamped
  <2>3. TypeOK'
    BY <2>1, <2>2 DEF TypeOK
  <2>4. \A d : Stamped(d, writes', written') <=> Stamped(d, writes, written)
    BY <2>1 DEF Stamped
  <2>5. \A v \in Window : \A i \in 1..Len(toWindow'[v]) : Stamped(toWindow'[v][i], writes, written)
    BY <2>1 DEF AllStamped, TypeOK
  <2>6. AllStamped'
    BY <2>1, <2>2, <2>4, <2>5 DEF AllStamped, TypeOK
  <2>7. LatestOfSole'
    BY <2>1 DEF LatestOfSole, SoleWriter
  <2> QED BY <2>3, <2>6, <2>7
<1>6. CASE UNCHANGED vars
  BY <1>6 DEF vars, TypeOK, AllStamped, Stamped, LatestOfSole, SoleWriter
<1> QED
  BY <1>1, <1>2, <1>3, <1>4, <1>5, <1>6 DEF Next

LEMMA InitIsRight == Init => IInv
<1> SUFFICES ASSUME Init PROVE IInv
  OBVIOUS
<1>0. /\ raced \in BOOLEAN
      /\ latest \in [Key -> Value]
      /\ memento \in [Window -> Data] /\ written \in [Window -> Data]
  BY NothingIsData DEF Init, Value
<1>1. TypeOK
  BY <1>0, NothingIsData DEF Init, TypeOK
<1>2. AllStamped
  BY DEF Init, AllStamped
<1>3. LatestOfSole
  BY DEF Init, LatestOfSole, Nothing
<1> QED BY <1>1, <1>2, <1>3 DEF IInv

(* A window that alone writes, among any number that read, reads every key  *)
(* as its last write left it, whichever echoes of its earlier writes arrive *)
(* in between, and loses none by building the next write on one of them.    *)
THEOREM SoleWriterLosesNothing == Spec => []SoleWriterKeepsAll
<1>1. Init => IInv
  BY InitIsRight
<1>2. IInv /\ [Next]_vars => IInv'
  BY InvariantStep
<1>3. IInv => SoleWriterKeepsAll
  BY SoleReadsLatest DEF SoleWriterKeepsAll, IInv, TypeOK
<1> QED BY <1>1, <1>2, <1>3, PTL DEF Spec

-----------------------------------------------------------------------------
(* What is put at the end of a queue is last, and the rest stays. *)
LEMMA AppendFacts ==
    ASSUME NEW S, NEW q \in Seq(S), NEW x \in S
    PROVE  /\ Append(q, x) \in Seq(S) /\ Append(q, x) # <<>>
           /\ Len(Append(q, x)) = Len(q) + 1 /\ Len(q) \in Nat
           /\ LastOf(Append(q, x)) = x
           /\ \A i \in 1..Len(q) : Append(q, x)[i] = q[i]
<1>1. /\ Append(q, x) \in Seq(S)
      /\ Len(Append(q, x)) = Len(q) + 1 /\ Len(q) \in Nat
      /\ \A i \in 1..Len(q) : Append(q, x)[i] = q[i]
  OBVIOUS
<1>2. LastOf(Append(q, x)) = x
  BY <1>1 DEF LastOf
<1>3. Append(q, x) # <<>>
  BY <1>1
<1> QED BY <1>1, <1>2, <1>3

LEMMA EmptyLength == Len(<<>>) = 0
  OBVIOUS

(* What is taken from the front of a queue leaves its last as it was. *)
LEMMA TailFacts ==
    ASSUME NEW S, NEW q \in Seq(S), q # <<>>
    PROVE  /\ Tail(q) \in Seq(S) /\ Len(q) \in Nat \ {0} /\ Len(Tail(q)) = Len(q) - 1
           /\ Head(q) = q[1] /\ Head(q) \in S
           /\ \A i \in 1..Len(Tail(q)) : Tail(q)[i] = q[i + 1]
           /\ Tail(q) # <<>> => LastOf(Tail(q)) = LastOf(q)
           /\ Tail(q) = <<>> => LastOf(q) = Head(q)
<1>1. /\ Tail(q) \in Seq(S) /\ Len(q) \in Nat \ {0} /\ Len(Tail(q)) = Len(q) - 1
      /\ Head(q) = q[1] /\ Head(q) \in S
      /\ \A i \in 1..Len(Tail(q)) : Tail(q)[i] = q[i + 1]
  OBVIOUS
<1>2. ASSUME Tail(q) # <<>> PROVE LastOf(Tail(q)) = LastOf(q)
  <2> DEFINE r == Tail(q)
  <2>1. r \in Seq(S) /\ r # <<>> /\ Len(r) = Len(q) - 1
    BY <1>1, <1>2
  <2> HIDE DEF r
  <2>2. Len(r) \in 1..Len(r) /\ Len(r) + 1 = Len(q)
    BY <1>1, <2>1
  <2> QED BY <1>1, <2>2 DEF LastOf, r
<1>3. ASSUME Tail(q) = <<>> PROVE LastOf(q) = Head(q)
  <2> DEFINE n == Len(Tail(q))
  <2>1. n = 0 /\ n = Len(q) - 1 /\ Len(q) \in Nat
    BY <1>1, <1>3, EmptyLength, Zenon
  <2> HIDE DEF n
  <2>2. Len(q) = 1
    BY <2>1
  <2> QED BY <1>1, <2>2 DEF LastOf
<1> QED BY <1>1, <1>2, <1>3

(* The shape of a write, for the steps that follow. *)
LEMMA WriteIs ==
    ASSUME TypeOK, NEW w \in Window, NEW entries \in [Key -> Value], write(w, entries)
    PROVE  /\ w \in open
           /\ \E data \in Data :
                /\ data.entries = entries
                /\ data.revision = [writer |-> w, write |-> writes[w] + 1]
                /\ writes' = [writes EXCEPT ![w] = @ + 1]
                /\ written' = [written EXCEPT ![w] = data]
                /\ memento' = [memento EXCEPT ![w] = data]
                /\ toMain' = [toMain EXCEPT ![w] = Append(@, data)]
           /\ raced' = (raced \/ Unheard(w))
           /\ UNCHANGED <<stored, toWindow, open>>
<1> DEFINE data == [entries |-> entries,
                    revision |-> [writer |-> w, write |-> writes[w] + 1]]
<1>1. data \in Data
  BY DEF Data, Revision, TypeOK
<1>2. data.entries = entries /\ data.revision = [writer |-> w, write |-> writes[w] + 1]
  OBVIOUS
<1>3. /\ w \in open
      /\ writes' = [writes EXCEPT ![w] = @ + 1]
      /\ written' = [written EXCEPT ![w] = data]
      /\ memento' = [memento EXCEPT ![w] = data]
      /\ toMain' = [toMain EXCEPT ![w] = Append(@, data)]
      /\ raced' = (raced \/ Unheard(w))
      /\ UNCHANGED <<stored, toWindow, open>>
  BY DEF write
<1> HIDE DEF data
<1> QED BY <1>1, <1>2, <1>3

LEMMA AgreeAfterWrite ==
    ASSUME IInv, AgreeInv, NEW w \in Window, NEW entries \in [Key -> Value],
           write(w, entries)
    PROVE  AgreeInv'
<1> USE DEF IInv, TypeOK
<1>1. PICK data \in Data :
           /\ data.revision = [writer |-> w, write |-> writes[w] + 1]
           /\ writes' = [writes EXCEPT ![w] = @ + 1]
           /\ memento' = [memento EXCEPT ![w] = data]
           /\ toMain' = [toMain EXCEPT ![w] = Append(@, data)]
           /\ UNCHANGED <<stored, toWindow, open>>
  BY WriteIs
<1>a. toMain'[w] = Append(toMain[w], data) /\ toMain[w] \in Seq(Data) /\ writes'[w] = writes[w] + 1
  BY <1>1
<1>b. /\ Append(toMain[w], data) # <<>>
      /\ Len(Append(toMain[w], data)) = Len(toMain[w]) + 1 /\ Len(toMain[w]) \in Nat
      /\ LastOf(Append(toMain[w], data)) = data
      /\ \A i \in 1..Len(toMain[w]) : Append(toMain[w], data)[i] = toMain[w][i]
  <2> HIDE DEF IInv, TypeOK
  <2> QED BY <1>a, AppendFacts
<1>2. /\ toMain'[w] = Append(toMain[w], data) /\ toMain[w] \in Seq(Data)
      /\ Len(toMain'[w]) = Len(toMain[w]) + 1
      /\ toMain'[w] # <<>>
      /\ LastOf(toMain'[w]) = data
      /\ \A i \in 1..Len(toMain[w]) : toMain'[w][i] = toMain[w][i]
      /\ writes'[w] = writes[w] + 1
  BY <1>a, <1>b, Zenon
<1>3. \A v \in Window : v # w => toMain'[v] = toMain[v] /\ writes'[v] = writes[v]
                                 /\ memento'[v] = memento[v]
  BY <1>1
<1>4. OwnInOrder'
  <2> SUFFICES ASSUME NEW v \in Window
        PROVE  /\ \A i \in 1..Len(toMain'[v]) : toMain'[v][i].revision.writer = v
               /\ toMain'[v] # <<>> => LastOf(toMain'[v]).revision.write = writes'[v]
               /\ toMain'[v] = <<>> /\ stored'.revision.writer = v
                    => stored'.revision.write = writes'[v]
    BY DEF OwnInOrder, LastOf
  <2>1. CASE v = w
    <3>1. \A i \in 1..Len(toMain[w]) : toMain[w][i].revision.writer = w
      BY DEF AgreeInv, OwnInOrder
    <3>2. \A i \in 1..Len(toMain'[w]) : toMain'[w][i].revision.writer = w
      <4> TAKE i \in 1..Len(toMain'[w])
      <4>1. i \in 1..Len(toMain[w]) \/ i = Len(toMain'[w])
        BY <1>2
      <4> QED BY <4>1, <3>1, <1>1, <1>2 DEF LastOf
    <3>3. LastOf(toMain'[w]).revision.write = writes'[w]
      BY <1>1, <1>2
    <3> QED BY <2>1, <3>2, <3>3, <1>2
  <2>2. CASE v # w
    BY <2>2, <1>1, <1>3 DEF AgreeInv, OwnInOrder
  <2> QED BY <2>1, <2>2
<1>5. StoredReaches'
  BY <1>1, <1>2, <1>3 DEF AgreeInv, StoredReaches, LastOf
<1> QED BY <1>4, <1>5 DEF AgreeInv

LEMMA AgreeAfterKeep ==
    ASSUME IInv, AgreeInv, NEW w \in Window, Keep(w) PROVE AgreeInv'
<1> USE DEF IInv, TypeOK
<1>1. /\ toMain[w] # <<>> /\ toMain[w] \in Seq(Data)
      /\ stored' = Head(toMain[w]) /\ Head(toMain[w]) = toMain[w][1]
      /\ toMain'[w] = Tail(toMain[w])
      /\ \A v \in Window : v # w => toMain'[v] = toMain[v]
      /\ \A v \in open : toWindow'[v] = Append(toWindow[v], stored') /\ toWindow[v] \in Seq(Data)
      /\ UNCHANGED <<memento, writes, written, open, latest, raced>>
  BY DEF Keep
<1>2. /\ Len(toMain[w]) \in Nat \ {0}
      /\ Len(toMain'[w]) = Len(toMain[w]) - 1
      /\ \A i \in 1..Len(toMain'[w]) : toMain'[w][i] = toMain[w][i + 1]
  BY <1>1, TailFacts
<1>3. /\ \A i \in 1..Len(toMain[w]) : toMain[w][i].revision.writer = w
      /\ LastOf(toMain[w]).revision.write = writes[w]
  BY <1>1 DEF AgreeInv, OwnInOrder
<1>4. OwnInOrder'
  <2> SUFFICES ASSUME NEW v \in Window
        PROVE  /\ \A i \in 1..Len(toMain'[v]) : toMain'[v][i].revision.writer = v
               /\ toMain'[v] # <<>> => LastOf(toMain'[v]).revision.write = writes'[v]
               /\ toMain'[v] = <<>> /\ stored'.revision.writer = v
                    => stored'.revision.write = writes'[v]
    BY DEF OwnInOrder, LastOf
  <2>1. CASE v = w
    <3>1. \A i \in 1..Len(toMain'[w]) : toMain'[w][i].revision.writer = w
      <4> TAKE i \in 1..Len(toMain'[w])
      <4>1. i + 1 \in 1..Len(toMain[w])
        BY <1>2
      <4> QED BY <4>1, <1>2, <1>3
    <3>2. toMain'[w] # <<>> => LastOf(toMain'[w]) = LastOf(toMain[w])
      BY <1>1, <1>2 DEF LastOf
    <3>3. toMain'[w] = <<>> => stored' = LastOf(toMain[w])
      BY <1>1, <1>2 DEF LastOf
    <3> QED BY <2>1, <3>1, <3>2, <3>3, <1>1, <1>3
  <2>2. CASE v # w
    <3>1. stored'.revision.writer = w
      BY <1>1, <1>2, <1>3
    <3> QED BY <2>2, <3>1, <1>1 DEF AgreeInv, OwnInOrder
  <2> QED BY <2>1, <2>2
<1>5. StoredReaches'
  <2> SUFFICES ASSUME NEW v \in open PROVE toWindow'[v] # <<>> /\ LastOf(toWindow'[v]) = stored'
    BY <1>1 DEF StoredReaches, LastOf
  <2>1. stored' \in Data
    BY <1>1
  <2> QED BY <1>1, <2>1 DEF LastOf
<1> QED BY <1>4, <1>5 DEF AgreeInv

LEMMA AgreeAfterEcho ==
    ASSUME IInv, AgreeInv, NEW w \in Window, Echo(w) PROVE AgreeInv'
<1> USE DEF IInv, TypeOK
<1>1. /\ toWindow[w] # <<>> /\ toWindow[w] \in Seq(Data)
      /\ memento'[w] = Head(toWindow[w])
      /\ toWindow'[w] = Tail(toWindow[w])
      /\ \A v \in Window : v # w => toWindow'[v] = toWindow[v] /\ memento'[v] = memento[v]
      /\ UNCHANGED <<stored, toMain, writes, written, open, latest, raced>>
  BY DEF Echo
<1>2. OwnInOrder'
  BY <1>1 DEF AgreeInv, OwnInOrder, LastOf
<1>3. StoredReaches'
  <2> SUFFICES ASSUME NEW v \in open
        PROVE  IF toWindow'[v] # <<>> THEN LastOf(toWindow'[v]) = stored
               ELSE memento'[v] = stored \/ toMain[v] # <<>>
    BY <1>1 DEF StoredReaches, LastOf
  <2>1. CASE v # w
    BY <1>1, <2>1 DEF AgreeInv, StoredReaches
  <2>2. CASE v = w
    <3>1. LastOf(toWindow[w]) = stored
      BY <1>1, <2>2 DEF AgreeInv, StoredReaches
    <3>2. toWindow'[w] # <<>> => LastOf(toWindow'[w]) = LastOf(toWindow[w])
      BY <1>1 DEF LastOf
    <3>3. toWindow'[w] = <<>> => memento'[w] = LastOf(toWindow[w])
      BY <1>1 DEF LastOf
    <3> QED BY <2>2, <3>1, <3>2, <3>3
  <2> QED BY <2>1, <2>2
<1> QED BY <1>2, <1>3 DEF AgreeInv

LEMMA AgreeAfterOpenOrClose ==
    ASSUME IInv, AgreeInv, NEW w \in Window, Open(w) \/ Close(w) PROVE AgreeInv'
<1> USE DEF IInv, TypeOK
<1>1. UNCHANGED <<stored, toMain, writes, written, latest, raced>>
  BY DEF Open, Close
<1>2. OwnInOrder'
  BY <1>1 DEF AgreeInv, OwnInOrder, LastOf
<1>3. CASE Open(w)
  <2>1. toWindow' = toWindow /\ toWindow[w] = <<>> /\ memento'[w] = stored /\ open' = open \cup {w}
        /\ \A v \in Window : v # w => memento'[v] = memento[v]
    BY <1>3 DEF Open
  <2> QED BY <1>1, <1>2, <2>1 DEF AgreeInv, StoredReaches, LastOf
<1>4. CASE Close(w)
  <2>1. open' = open \ {w} /\ memento' = memento
        /\ \A v \in Window : v # w => toWindow'[v] = toWindow[v]
    BY <1>4 DEF Close
  <2> QED BY <1>1, <1>2, <2>1 DEF AgreeInv, StoredReaches, LastOf
<1> QED BY <1>3, <1>4

LEMMA AgreeStep == ASSUME IInv, AgreeInv, [Next]_vars PROVE AgreeInv'
<1>1. ASSUME NEW w \in Window,
             \/ \E k \in Key : Set(w, k) \/ delete(w, k)
             \/ \E c \in Category : clearCategory(w, c)
             \/ clearAll(w)
      PROVE  AgreeInv'
  BY <1>1, Writes, AgreeAfterWrite DEF IInv
<1>2. CASE UNCHANGED vars
  BY <1>2 DEF vars, AgreeInv, OwnInOrder, StoredReaches, LastOf
<1> QED
  BY <1>1, <1>2, AgreeAfterKeep, AgreeAfterEcho, AgreeAfterOpenOrClose DEF Next

(* With nothing on its way, an open window reads what the main process      *)
(* keeps: its own last write, if that is what is kept.                      *)
LEMMA QuietReadsStored ==
    ASSUME IInv, AgreeInv, NEW w \in open, toMain[w] = <<>>, toWindow[w] = <<>>
    PROVE  current(w) = stored
<1>1. memento[w] = stored
  BY DEF AgreeInv, StoredReaches
<1>2. w \in Window
  BY DEF IInv, TypeOK
<1>3. stored.revision.writer = w => stored.revision.write = writes[w]
  BY <1>2 DEF AgreeInv, OwnInOrder
<1>4. writes[w] \in Nat
  BY <1>2 DEF IInv, TypeOK
<1> QED BY <1>1, <1>3, <1>4 DEF current

LEMMA InitAgrees == Init => IInv /\ AgreeInv
<1> SUFFICES ASSUME Init PROVE IInv /\ AgreeInv
  OBVIOUS
<1>1. IInv
  BY InitIsRight
<1>2. AgreeInv
  BY EmptyLength, NoneAssumption DEF Init, AgreeInv, OwnInOrder, StoredReaches, Nothing
<1> QED BY <1>1, <1>2

(* Whatever windows open, write and close in whatever order, once every     *)
(* message has arrived every window reads what the main process keeps: a    *)
(* store never goes on preferring a write of its own that was replaced.     *)
THEOREM WindowsComeToAgree == Spec => []WindowsAgree
<1>1. Init => IInv /\ AgreeInv
  BY InitAgrees
<1>2. IInv /\ AgreeInv /\ [Next]_vars => (IInv /\ AgreeInv)'
  BY InvariantStep, AgreeStep
<1>3. IInv /\ AgreeInv => WindowsAgree
  BY QuietReadsStored DEF WindowsAgree, IInv, TypeOK
<1> QED BY <1>1, <1>2, <1>3, PTL DEF Spec

-----------------------------------------------------------------------------
(* A store whose memento holds data of its own reads its last write. *)
LEMMA OwnReads ==
    ASSUME IInv, NEW w \in Window, memento[w].revision.writer = w
    PROVE  current(w) = written[w]
<1> USE DEF IInv, TypeOK
<1>1. memento[w] # Nothing
  BY NoneAssumption DEF Nothing
<1>2. Stamped(memento[w], writes, written)
  BY <1>1 DEF AllStamped
<1> QED BY <1>2 DEF Stamped, current

(* A window that has heard of every write reads what was last written. *)
LEMMA HeardReadsLatest ==
    ASSUME IInv, AgreeInv, Unraced, NEW w \in open, ~ Unheard(w)
    PROVE  current(w).entries = latest
<1>0. w \in Window /\ toMain[w] \in Seq(Data) /\ toWindow[w] \in Seq(Data) /\ writes[w] \in Nat
  BY DEF IInv, TypeOK
<1>1. /\ \A v \in Window : v # w => toMain[v] = <<>>
      /\ \A i \in 1..Len(toWindow[w]) : toWindow[w][i].revision.writer = w
  BY <1>0 DEF Unheard
<1>2. CASE toMain[w] # <<>>
  <2>1. memento[w].revision.writer = w
    BY <1>0, <1>2 DEF Unraced, OwnFirst
  <2> QED BY <1>0, <1>2, <2>1, OwnReads DEF Unraced, LatestUnderWay
<1>3. CASE toMain[w] = <<>> /\ toWindow[w] # <<>>
  <2>1. Len(toWindow[w]) \in 1..Len(toWindow[w])
    BY <1>0, <1>3
  <2>2. LastOf(toWindow[w]) = stored
    BY <1>3 DEF AgreeInv, StoredReaches
  <2>3. toWindow[w][Len(toWindow[w])] = stored
    BY <2>2 DEF LastOf
  <2>4. stored.revision.writer = w
    BY <1>1, <2>1, <2>3
  <2>5. stored.revision.write = writes[w]
    BY <1>0, <1>3, <2>4 DEF AgreeInv, OwnInOrder
  <2>6. memento[w].revision.writer = w
    BY <1>0, <2>1, <2>3, <2>4 DEF Unraced, OwnFirst
  <2>7. Stamped(stored, writes, written)
    BY <1>0, <2>1, <2>3 DEF IInv, AllStamped
  <2>8. stored = written[w]
    BY <2>4, <2>5, <2>7 DEF Stamped
  <2>9. stored.entries = latest
    BY <1>1, <1>3 DEF Unraced, LatestUnderWay
  <2> QED BY <1>0, <2>6, <2>8, <2>9, OwnReads
<1>4. CASE toMain[w] = <<>> /\ toWindow[w] = <<>>
  <2>1. current(w) = stored
    BY <1>4, QuietReadsStored
  <2> QED BY <1>1, <1>4, <2>1 DEF Unraced, LatestUnderWay
<1> QED BY <1>2, <1>3, <1>4

LEMMA UnracedAfterWrite ==
    ASSUME IInv, AgreeInv, Unraced, NEW w \in Window, NEW entries \in [Key -> Value],
           write(w, entries), ~ raced', current(w).entries = latest => entries = latest'
    PROVE  Unraced'
<1> USE DEF IInv, TypeOK
<1>0. /\ w \in open /\ raced' = (raced \/ Unheard(w))
      /\ UNCHANGED <<stored, toWindow, open>>
  BY DEF write
<1>1. w \in open /\ ~ Unheard(w) /\ UNCHANGED <<stored, toWindow, open>>
  BY <1>0, Zenon
<1>2. PICK data \in Data :
           /\ data.entries = entries /\ data.revision.writer = w
           /\ written' = [written EXCEPT ![w] = data]
           /\ memento' = [memento EXCEPT ![w] = data]
           /\ toMain' = [toMain EXCEPT ![w] = Append(@, data)]
  <2> HIDE DEF IInv, TypeOK
  <2>1. TypeOK
    BY DEF IInv
  <2>2. PICK data \in Data :
           /\ data.entries = entries
           /\ data.revision = [writer |-> w, write |-> writes[w] + 1]
           /\ written' = [written EXCEPT ![w] = data]
           /\ memento' = [memento EXCEPT ![w] = data]
           /\ toMain' = [toMain EXCEPT ![w] = Append(@, data)]
    BY <2>1, WriteIs
  <2>3. data.revision.writer = w
    BY <2>2
  <2> QED BY <2>2, <2>3
<1>3. entries = latest'
  BY <1>1, HeardReadsLatest
<1>4. /\ \A v \in Window : v # w => toMain[v] = <<>>
      /\ \A i \in 1..Len(toWindow[w]) : toWindow[w][i].revision.writer = w
  BY <1>1 DEF Unheard
<1>5. \A v \in Window : v # w => toMain'[v] = <<>> /\ memento'[v] = memento[v]
  BY <1>2, <1>4
<1>6. memento'[w] = data /\ written'[w] = data
  BY <1>2
<1>7. toMain'[w] = Append(toMain[w], data) /\ toMain[w] \in Seq(Data)
  BY <1>2
<1>8. toMain'[w] # <<>>
  <2> HIDE DEF IInv, TypeOK
  <2> QED BY <1>7, AppendFacts
<1>9. OneUnderWay'
  BY <1>5 DEF OneUnderWay
<1>10. LatestUnderWay'
  BY <1>2, <1>3, <1>5, <1>6, <1>8 DEF LatestUnderWay
<1>11. OwnFirst'
  BY <1>1, <1>2, <1>4, <1>5, <1>6 DEF Unraced, OwnFirst
<1> QED BY <1>9, <1>10, <1>11 DEF Unraced

LEMMA UnracedAfterKeep ==
    ASSUME IInv, AgreeInv, Unraced, NEW w \in Window, Keep(w) PROVE Unraced'
<1> USE DEF IInv, TypeOK
<1> DEFINE data == Head(toMain[w])
<1>1. /\ toMain[w] # <<>> /\ toMain[w] \in Seq(Data)
      /\ stored' = data /\ data = toMain[w][1]
      /\ toMain'[w] = Tail(toMain[w])
      /\ \A v \in Window : v # w => toMain'[v] = toMain[v]
      /\ \A v \in Window : toWindow[v] \in Seq(Data)
      /\ \A v \in open : toWindow'[v] = Append(toWindow[v], data)
      /\ \A v \in Window \ open : toWindow'[v] = toWindow[v]
      /\ UNCHANGED <<memento, writes, written, open, latest, raced>>
  BY DEF Keep
<1>2. Len(toMain[w]) \in Nat \ {0} /\ data \in Data
  BY <1>1
<1>3. data.revision.writer = w
  BY <1>1, <1>2 DEF AgreeInv, OwnInOrder
<1>4. \A v \in Window : v # w => toMain[v] = <<>> /\ toMain'[v] = <<>>
  BY <1>1 DEF Unraced, OneUnderWay
<1>5. OneUnderWay'
  BY <1>4 DEF OneUnderWay
<1>6. LatestUnderWay'
  <2>1. toMain'[w] = <<>> => stored'.entries = latest
    <3> SUFFICES ASSUME toMain'[w] = <<>> PROVE stored'.entries = latest
      OBVIOUS
    <3>1. LastOf(toMain[w]) = data
      <4> HIDE DEF IInv, TypeOK
      <4> QED BY <1>1, TailFacts
    <3>2. data.revision.write = writes[w]
      BY <1>1, <3>1 DEF AgreeInv, OwnInOrder
    <3>3. Stamped(data, writes, written)
      BY <1>1, <1>2 DEF AllStamped
    <3>4. data = written[w]
      BY <1>3, <3>2, <3>3 DEF Stamped
    <3> QED BY <1>1, <3>4 DEF Unraced, LatestUnderWay
  <2> QED BY <1>1, <1>4, <2>1 DEF Unraced, LatestUnderWay
<1>7. OwnFirst'
  <2> SUFFICES ASSUME NEW v \in Window
        PROVE  /\ toMain'[v] # <<>> =>
                    /\ memento[v].revision.writer = v
                    /\ \A i \in 1..Len(toWindow'[v]) : toWindow'[v][i].revision.writer = v
               /\ \A j \in 1..Len(toWindow'[v]) : toWindow'[v][j].revision.writer = v =>
                    /\ memento[v].revision.writer = v
                    /\ \A i \in 1..j : toWindow'[v][i].revision.writer = v
    BY <1>1 DEF OwnFirst
  <2>1. CASE v = w
    <3>1. memento[w].revision.writer = w
          /\ \A i \in 1..Len(toWindow[w]) : toWindow[w][i].revision.writer = w
      BY <1>1 DEF Unraced, OwnFirst
    <3>2. \A i \in 1..Len(toWindow'[w]) : toWindow'[w][i].revision.writer = w
      <4>1. CASE w \in open
        <5>1. Len(toWindow'[w]) = Len(toWindow[w]) + 1 /\ Len(toWindow[w]) \in Nat
              /\ LastOf(toWindow'[w]) = data
              /\ \A i \in 1..Len(toWindow[w]) : toWindow'[w][i] = toWindow[w][i]
          <6>1. toWindow[w] \in Seq(Data) /\ toWindow'[w] = Append(toWindow[w], data)
            BY <1>1, <4>1
          <6> HIDE DEF IInv, TypeOK, data
          <6> QED BY <1>2, <6>1, AppendFacts
        <5> TAKE i \in 1..Len(toWindow'[w])
        <5>2. i \in 1..Len(toWindow[w]) \/ i = Len(toWindow'[w])
          BY <5>1
        <5> QED BY <1>3, <3>1, <5>1, <5>2 DEF LastOf
      <4>2. CASE w \notin open
        BY <1>1, <3>1, <4>2
      <4> QED BY <4>1, <4>2
    <3>2a. Len(toWindow'[w]) \in Nat
      <4>1. toWindow' \in [Window -> Seq(Data)]
        BY InvariantStep DEF Next
      <4> QED BY <4>1
    <3>3. ASSUME NEW j \in 1..Len(toWindow'[w]), NEW i \in 1..j
          PROVE  i \in 1..Len(toWindow'[w])
      BY <3>2a, <3>3
    <3> QED BY <2>1, <3>1, <3>2, <3>3
  <2>2. CASE v # w
    <3>1. toMain'[v] = <<>>
      BY <1>4, <2>2
    <3>2. \A j \in 1..Len(toWindow[v]) : toWindow[v][j].revision.writer = v =>
             /\ memento[v].revision.writer = v
             /\ \A i \in 1..j : toWindow[v][i].revision.writer = v
      BY DEF Unraced, OwnFirst
    <3>3. CASE v \in open
      <4>1. Len(toWindow'[v]) = Len(toWindow[v]) + 1 /\ Len(toWindow[v]) \in Nat
            /\ LastOf(toWindow'[v]) = data
            /\ \A i \in 1..Len(toWindow[v]) : toWindow'[v][i] = toWindow[v][i]
        <5>1. toWindow[v] \in Seq(Data) /\ toWindow'[v] = Append(toWindow[v], data)
          BY <1>1, <3>3
        <5> HIDE DEF IInv, TypeOK, data
        <5> QED BY <1>2, <5>1, AppendFacts
      <4>2. ASSUME NEW j \in 1..Len(toWindow'[v]), toWindow'[v][j].revision.writer = v
            PROVE  /\ memento[v].revision.writer = v
                   /\ \A i \in 1..j : toWindow'[v][i].revision.writer = v
        <5>1. j # Len(toWindow'[v])
          BY <1>3, <2>2, <4>1, <4>2 DEF LastOf
        <5>2. j \in 1..Len(toWindow[v])
          BY <4>1, <5>1
        <5>3. toWindow[v][j].revision.writer = v
          BY <4>1, <4>2, <5>2
        <5>4. \A i \in 1..j : i \in 1..Len(toWindow[v])
          BY <4>1, <5>2
        <5> QED BY <3>2, <4>1, <5>2, <5>3, <5>4
      <4> QED BY <3>1, <4>2
    <3>4. CASE v \notin open
      BY <1>1, <3>1, <3>2, <3>4
    <3> QED BY <3>3, <3>4
  <2> QED BY <2>1, <2>2
<1> QED BY <1>5, <1>6, <1>7 DEF Unraced

LEMMA UnracedAfterEcho ==
    ASSUME IInv, Unraced, NEW w \in Window, Echo(w) PROVE Unraced'
<1> USE DEF IInv, TypeOK
<1>1. /\ toWindow[w] # <<>> /\ toWindow[w] \in Seq(Data)
      /\ memento'[w] = Head(toWindow[w])
      /\ toWindow'[w] = Tail(toWindow[w])
      /\ \A v \in Window : v # w => toWindow'[v] = toWindow[v] /\ memento'[v] = memento[v]
      /\ UNCHANGED <<stored, toMain, writes, written, open, latest, raced>>
  BY DEF Echo
<1>2. /\ Len(toWindow[w]) \in Nat \ {0} /\ Len(toWindow'[w]) = Len(toWindow[w]) - 1
      /\ memento'[w] = toWindow[w][1]
      /\ \A i \in 1..Len(toWindow'[w]) : toWindow'[w][i] = toWindow[w][i + 1]
  <2> HIDE DEF IInv, TypeOK
  <2> QED BY <1>1, TailFacts
<1>3. OneUnderWay' /\ LatestUnderWay'
  BY <1>1 DEF Unraced, OneUnderWay, LatestUnderWay
<1>4. OwnFirst'
  <2> SUFFICES ASSUME NEW v \in Window
        PROVE  /\ toMain[v] # <<>> =>
                    /\ memento'[v].revision.writer = v
                    /\ \A i \in 1..Len(toWindow'[v]) : toWindow'[v][i].revision.writer = v
               /\ \A j \in 1..Len(toWindow'[v]) : toWindow'[v][j].revision.writer = v =>
                    /\ memento'[v].revision.writer = v
                    /\ \A i \in 1..j : toWindow'[v][i].revision.writer = v
    BY <1>1 DEF OwnFirst
  <2>1. CASE v # w
    BY <1>1, <2>1 DEF Unraced, OwnFirst
  <2>2. CASE v = w
    <3>1. ASSUME NEW j \in 1..Len(toWindow[w]),
                 \A i \in 1..j : toWindow[w][i].revision.writer = w
          PROVE  /\ memento'[w].revision.writer = w
                 /\ \A i \in 1..(j - 1) : toWindow'[w][i].revision.writer = w
      <4>1. memento'[w].revision.writer = w
        BY <1>2, <3>1
      <4>2. ASSUME NEW i \in 1..(j - 1) PROVE toWindow'[w][i].revision.writer = w
        <5>1. i + 1 \in 1..j /\ i \in 1..Len(toWindow'[w])
          BY <1>2, <3>1
        <5> QED BY <1>2, <3>1, <5>1
      <4> QED BY <4>1, <4>2
    <3>2. ASSUME toMain[w] # <<>>
          PROVE  /\ memento'[w].revision.writer = w
                 /\ \A i \in 1..Len(toWindow'[w]) : toWindow'[w][i].revision.writer = w
      <4>1. \A i \in 1..Len(toWindow[w]) : toWindow[w][i].revision.writer = w
        BY <3>2 DEF Unraced, OwnFirst
      <4> QED BY <1>2, <3>1, <4>1
    <3>3. ASSUME NEW j \in 1..Len(toWindow'[w]), toWindow'[w][j].revision.writer = w
          PROVE  /\ memento'[w].revision.writer = w
                 /\ \A i \in 1..j : toWindow'[w][i].revision.writer = w
      <4>1. j + 1 \in 1..Len(toWindow[w]) /\ (j + 1) - 1 = j
            /\ toWindow[w][j + 1].revision.writer = w
        BY <1>2, <3>3
      <4>2. \A i \in 1..(j + 1) : toWindow[w][i].revision.writer = w
        BY <4>1 DEF Unraced, OwnFirst
      <4>3. \A i \in 1..((j + 1) - 1) : toWindow'[w][i].revision.writer = w
        BY <3>1, <4>1, <4>2
      <4> QED BY <3>1, <4>1, <4>2, <4>3
    <3> QED BY <2>2, <3>2, <3>3
  <2> QED BY <2>1, <2>2
<1> QED BY <1>3, <1>4 DEF Unraced

LEMMA UnracedAfterOpenOrClose ==
    ASSUME IInv, AgreeInv, Unraced, NEW w \in Window, Open(w) \/ Close(w) PROVE Unraced'
<1> USE DEF IInv, TypeOK
<1>1. UNCHANGED <<stored, toMain, writes, written, latest, raced>>
  BY DEF Open, Close
<1>2. OneUnderWay' /\ LatestUnderWay'
  BY <1>1 DEF Unraced, OneUnderWay, LatestUnderWay
<1>3. CASE Open(w)
  <2>1. /\ toWindow' = toWindow /\ toWindow[w] = <<>> /\ writes[w] = 0
        /\ \A v \in Window : v # w => memento'[v] = memento[v]
    BY <1>3 DEF Open
  <2>2. toMain[w] = <<>>
    <3> SUFFICES ASSUME toMain[w] # <<>> PROVE FALSE
      OBVIOUS
    <3>1. toMain[w] \in Seq(Data)
      OBVIOUS
    <3>2. 1 \in 1..Len(toMain[w])
      BY <3>1
    <3>3. Stamped(toMain[w][1], writes, written) /\ toMain[w][1].revision.writer = w
      BY <3>2 DEF AllStamped, AgreeInv, OwnInOrder
    <3> QED BY <2>1, <3>3 DEF Stamped
  <2>3. OwnFirst'
    <3>1. \A v \in Window : v = w => toMain'[v] = <<>> /\ Len(toWindow'[v]) = 0
      BY <1>1, <2>1, <2>2, EmptyLength
    <3> SUFFICES ASSUME NEW v \in Window
          PROVE  /\ toMain'[v] # <<>> =>
                      /\ memento'[v].revision.writer = v
                      /\ \A i \in 1..Len(toWindow'[v]) : toWindow'[v][i].revision.writer = v
                 /\ \A j \in 1..Len(toWindow'[v]) : toWindow'[v][j].revision.writer = v =>
                      /\ memento'[v].revision.writer = v
                      /\ \A i \in 1..j : toWindow'[v][i].revision.writer = v
      BY DEF OwnFirst
    <3>2. CASE v # w
      BY <1>1, <2>1, <3>2 DEF Unraced, OwnFirst
    <3>3. CASE v = w
      BY <3>1, <3>3
    <3> QED BY <3>2, <3>3
  <2> QED BY <1>2, <2>3 DEF Unraced
<1>4. CASE Close(w)
  <2>1. /\ memento' = memento /\ toWindow'[w] = <<>>
        /\ \A v \in Window : v # w => toWindow'[v] = toWindow[v]
    BY <1>4 DEF Close
  <2>2. OwnFirst'
    <3>1. Len(toWindow'[w]) = 0
      BY <2>1, EmptyLength
    <3> SUFFICES ASSUME NEW v \in Window
          PROVE  /\ toMain'[v] # <<>> =>
                      /\ memento'[v].revision.writer = v
                      /\ \A i \in 1..Len(toWindow'[v]) : toWindow'[v][i].revision.writer = v
                 /\ \A j \in 1..Len(toWindow'[v]) : toWindow'[v][j].revision.writer = v =>
                      /\ memento'[v].revision.writer = v
                      /\ \A i \in 1..j : toWindow'[v][i].revision.writer = v
      BY DEF OwnFirst
    <3>2. CASE v # w
      BY <1>1, <2>1, <3>2 DEF Unraced, OwnFirst
    <3>3. CASE v = w
      BY <1>1, <2>1, <3>1, <3>3 DEF Unraced, OwnFirst
    <3> QED BY <3>2, <3>3
  <2> QED BY <1>2, <2>2 DEF Unraced
<1> QED BY <1>3, <1>4

LEMMA UnracedStep ==
    ASSUME IInv, AgreeInv, ~ raced => Unraced, [Next]_vars, ~ raced' PROVE Unraced'
<1>0. ~ raced
  BY DEF Next, vars, IInv, TypeOK, Open, Close, Keep, Echo, Set, delete, clearCategory,
         Remove, clearAll, write
<1>1. ASSUME NEW w \in Window,
             \/ \E k \in Key : Set(w, k) \/ delete(w, k)
             \/ \E c \in Category : clearCategory(w, c)
             \/ clearAll(w)
      PROVE  Unraced'
  BY <1>0, <1>1, Writes, UnracedAfterWrite DEF IInv
<1>2. CASE UNCHANGED vars
  BY <1>0, <1>2 DEF vars, Unraced, OneUnderWay, LatestUnderWay, OwnFirst
<1> QED
  BY <1>0, <1>1, <1>2, UnracedAfterKeep, UnracedAfterEcho, UnracedAfterOpenOrClose DEF Next

(* As long as no window wrote before it had heard of the others' writes, no *)
(* write is lost, whichever windows write: one that has nothing on its way  *)
(* to it reads every key as it was last written.                            *)
THEOREM NoWriteLostUnlessRaced == Spec => []KeptUnlessRaced
<1>1. Init => KeepInv
  <2> SUFFICES ASSUME Init PROVE ~ raced => Unraced
    BY InitAgrees DEF KeepInv
  <2> QED
    BY EmptyLength DEF Init, Unraced, OneUnderWay, LatestUnderWay, OwnFirst, Nothing
<1>2. KeepInv /\ [Next]_vars => KeepInv'
  BY InvariantStep, AgreeStep, UnracedStep DEF KeepInv
<1>3. KeepInv => KeptUnlessRaced
  BY HeardReadsLatest DEF KeepInv, KeptUnlessRaced
<1> QED BY <1>1, <1>2, <1>3, PTL DEF Spec
=============================================================================
