------------------------ MODULE RealtimeSessionProofs ------------------------
(***************************************************************************)
(* What a real-time session keeps, proved for every number of sessions,    *)
(* channels and changes.                                                   *)
(***************************************************************************)
EXTENDS RealtimeSession, SequenceTheorems, NaturalsInduction,
        WellFoundedInduction, TLAPS

(* The numbers of c's changes in the batch a session writes, and of those   *)
(* that wait in its buffer.                                                 *)
Written(s, c) == NumbersOf(batch[s], c)
Waiting(s, c) == NumbersOf(buffer[s], c)

(* Of two changes of a channel the one received first has the lower number. *)
Ordered(q) ==
    \A i, j \in 1..Len(q) : i < j /\ q[i][1] = q[j][1] => q[i][2] < q[j][2]

(***************************************************************************)
(* Where a session may be.  A flush writes a batch, and none is written    *)
(* without one; a session stopped, pausing or opening a connection has     *)
(* received nothing it still keeps; and one that is not running receives   *)
(* nothing any more.                                                       *)
(***************************************************************************)
Emptied(s) == buffer[s] = <<>> /\ ~ timer[s]

Flushing(s) ==
    /\ flushes[s] = 0 => batch[s] = <<>>
    /\ left[s] \subseteq ChannelsOf(batch[s])
    /\ stopping[s] # "no" => stopped[s]
    /\ stopping[s] = "done" => flushes[s] = 0

Connecting(s) ==
    /\ link[s] = "opening" => job[s] \in {"starting", "reopening"}
    /\ job[s] \in {"draining", "pausing"} => link[s] = "none"
    /\ job[s] = "guard" => state[s] = "new"
    /\ job[s] = "pausing" => tries[s] < Retries
    /\ state[s] = "new" => current # s
    /\ state[s] = "new" =>
          link[s] = "none" /\ job[s] \in {"none", "guard"} /\ todo[s] = {} /\ flushes[s] = 0
    /\ ~ running(s) => stopped[s] \/ (link[s] = "none" /\ job[s] \in {"none", "guard"})

Emptying(s) ==
    /\ stopped[s] \/ ~ running(s) => Emptied(s)
    /\ job[s] = "draining" => ~ timer[s]
    /\ job[s] = "pausing" \/ link[s] = "opening" => Emptied(s) /\ batch[s] = <<>>

(* Only changes of channels it is subscribed to reach a session, and none   *)
(* of a channel it has yet to subscribe to.                                 *)
Subscribed(s) ==
    /\ link[s] = "live" => accepted[s] \cap todo[s] = {}
    /\ \A c \in todo[s] : Written(s, c) = {} /\ Waiting(s, c) = {}
    /\ job[s] \in {"starting", "reopening"} /\ link[s] # "opening" =>
          /\ \A c \in Channel \ accepted[s] : Written(s, c) = {} /\ Waiting(s, c) = {}
          /\ accepted[s] = {} => ~ timer[s]

Control == \A s \in Session : Flushing(s) /\ Connecting(s) /\ Emptying(s) /\ Subscribed(s)

(* A session is being sent the changes of a channel. *)
Sent(s, c) == link[s] = "live" /\ c \in accepted[s] /\ ~ stopped[s]

(* Every change up to n since reading began is finished with, or kept by s. *)
ReadUpTo(s, c, n) ==
    \A m \in since[c] + 1 .. n : <<c, m>> \in done \/ m \in Written(s, c) \cup Waiting(s, c)

(* What a session keeps of a channel is in order, and goes on from what is  *)
(* finished with; what it is sent next goes on from that.                   *)
InOrderKept(s, c) ==
    /\ \A n \in Written(s, c), m \in Waiting(s, c) : n < m
    /\ \A n \in Written(s, c) \cup Waiting(s, c) : n <= made[c]
    /\ c \notin left[s] => \A n \in Written(s, c) : <<c, n>> \in done
    /\ \A n \in Written(s, c) \cup Waiting(s, c) : ReadUpTo(s, c, n)
    /\ Sent(s, c) => ReadUpTo(s, c, at[s][c])
    /\ Sent(s, c) => \A n \in Written(s, c) \cup Waiting(s, c) : n <= at[s][c]

KeptInOrder(s, c) == at[s][c] <= made[c] /\ InOrderKept(s, c)

Reading ==
    /\ \A s \in Session : Ordered(buffer[s])
    /\ \A s \in Session, c \in Channel : KeptInOrder(s, c)
    /\ \A c \in Channel : gone[c] <= made[c] /\ point[c] <= made[c]

IInv == TypeOK /\ Control /\ Reading /\ NothingSkipped

(* A session with nothing to write, and nothing that could bring it some.   *)
Quiet(s) ==
    /\ Emptied(s) /\ flushes[s] = 0
    /\ stopped[s] \/ (link[s] = "none" /\ job[s] \in {"none", "guard"})

(* Undisturbed, one session at most is not quiet, what is kept is newer     *)
(* than what was written, and what was written has been saved or is being.  *)
NewerKept(s, c) ==
    /\ \A n \in Waiting(s, c) : n > newest[c]
    /\ c \in left[s] => \A n \in Written(s, c) : n > newest[c]
    /\ c \notin left[s] /\ Written(s, c) # {} => newest[c] = Last(Written(s, c))
    /\ Sent(s, c) => at[s][c] >= newest[c]

Saved(c) ==
    newest[c] = 0 \/ newest[c] <= point[c] \/ \E s \in Session : c \notin left[s] /\ Written(s, c) # {}

Undisturbed ==
    /\ \A s, t \in Session : s # t => Quiet(s) \/ Quiet(t)
    /\ \A s \in Session, c \in Channel : NewerKept(s, c)
    /\ \A c \in Channel : Saved(c)

OrderInv == ~ disturbed => Undisturbed

-----------------------------------------------------------------------------
(* The sequences of changes a session keeps.                               *)

(* The numbers of a channel in a sequence are natural numbers. *)
LEMMA NumbersNat ==
    ASSUME NEW q \in Seq(Change), NEW c
    PROVE  NumbersOf(q, c) \subseteq Nat
  BY DEF NumbersOf, Change

(* An empty sequence has none. *)
LEMMA NumbersEmpty ==
    ASSUME NEW c
    PROVE  NumbersOf(<<>>, c) = {}
  BY DEF NumbersOf

(* A change received adds its number to those of its channel. *)
LEMMA NumbersAppend ==
    ASSUME NEW q \in Seq(Change), NEW d \in Channel, NEW n \in Nat, NEW c
    PROVE  /\ Append(q, <<d, n>>) \in Seq(Change)
           /\ NumbersOf(Append(q, <<d, n>>), c)
                = NumbersOf(q, c) \cup (IF c = d THEN {n} ELSE {})
  <1> DEFINE p == Append(q, <<d, n>>)
  <1>1. p \in Seq(Change) /\ Len(p) = Len(q) + 1 /\ DOMAIN p = 1..Len(p)
        /\ p[Len(q) + 1] = <<d, n>> /\ \A i \in 1..Len(q) : p[i] = q[i]
    BY DEF Change
  <1>2. DOMAIN q = 1..Len(q) /\ Len(q) \in Nat
    OBVIOUS
  <1>3. NumbersOf(p, c) \subseteq NumbersOf(q, c) \cup (IF c = d THEN {n} ELSE {})
    <2>1. SUFFICES ASSUME NEW i \in DOMAIN p, p[i][1] = c
                   PROVE  p[i][2] \in NumbersOf(q, c) \cup (IF c = d THEN {n} ELSE {})
      BY DEF NumbersOf
    <2>2. CASE i = Len(q) + 1
      BY <1>1, <2>1, <2>2
    <2>3. CASE i \in 1..Len(q)
      BY <1>1, <1>2, <2>1, <2>3 DEF NumbersOf
    <2>4. QED BY <1>1, <1>2, <2>2, <2>3
  <1>4. ASSUME NEW m \in NumbersOf(q, c) PROVE m \in NumbersOf(p, c)
    <2>1. PICK i \in DOMAIN q : q[i][1] = c /\ q[i][2] = m
      BY <1>4 DEF NumbersOf
    <2>2. QED BY <2>1, <1>1, <1>2 DEF NumbersOf
  <1>5. c = d => n \in NumbersOf(p, c)
    BY <1>1, <1>2 DEF NumbersOf
  <1>6. QED BY <1>1, <1>3, <1>4, <1>5

(* A channel of a sequence is one that has numbers in it. *)
LEMMA ChannelsHaveNumbers ==
    ASSUME NEW q \in Seq(Change), NEW c
    PROVE  c \in ChannelsOf(q) <=> NumbersOf(q, c) # {}
  BY DEF NumbersOf, ChannelsOf

(* A sequence without numbers is empty. *)
LEMMA NoNumbers ==
    ASSUME NEW q \in Seq(Change), \A c \in Channel : NumbersOf(q, c) = {}
    PROVE  q = <<>>
  <1>1. ASSUME NEW i \in 1..Len(q) PROVE FALSE
    <2>1. q[i] \in Change /\ DOMAIN q = 1..Len(q)
      OBVIOUS
    <2>2. q[i][1] \in Channel /\ q[i][2] \in NumbersOf(q, q[i][1])
      BY <2>1 DEF Change, NumbersOf
    <2>3. QED BY <2>2
  <1>2. Len(q) = 0
    <2>1. Len(q) \in Nat
      OBVIOUS
    <2>2. QED BY <1>1, <2>1
  <1>3. QED BY <1>2

(* The channels of a sequence are channels. *)
LEMMA ChannelsOfType ==
    ASSUME NEW q \in Seq(Change)
    PROVE  ChannelsOf(q) \subseteq Channel
  BY DEF ChannelsOf, Change

(* Receiving in order keeps the order. *)
LEMMA OrderedAppend ==
    ASSUME NEW q \in Seq(Change), NEW d \in Channel, NEW n \in Nat, Ordered(q),
           \A m \in NumbersOf(q, d) : m < n
    PROVE  Ordered(Append(q, <<d, n>>))
  <1> DEFINE p == Append(q, <<d, n>>)
  <1>1. p \in Seq(Change) /\ Len(p) = Len(q) + 1 /\ Len(q) \in Nat
        /\ p[Len(q) + 1] = <<d, n>> /\ \A i \in 1..Len(q) : p[i] = q[i]
    BY DEF Change
  <1>2. SUFFICES ASSUME NEW i \in 1..Len(p), NEW j \in 1..Len(p), i < j, p[i][1] = p[j][1]
                 PROVE  p[i][2] < p[j][2]
    BY DEF Ordered
  <1>3. CASE j \in 1..Len(q)
    BY <1>1, <1>2, <1>3 DEF Ordered
  <1>4. CASE j = Len(q) + 1
    <2>1. i \in 1..Len(q) /\ q[i][1] = d
      BY <1>1, <1>2, <1>4
    <2>2. q[i][2] \in NumbersOf(q, d)
      BY <2>1 DEF NumbersOf
    <2>3. QED BY <2>1, <2>2, <1>1, <1>4
  <1>5. QED BY <1>1, <1>2, <1>3, <1>4

(* Taking a batch splits the buffer: in order, with nothing lost, and with  *)
(* a batch that is not empty.                                               *)
LEMMA BatchSplits ==
    ASSUME NEW q \in Seq(Change), q # <<>>
    PROVE  /\ FirstOf(q) \in Seq(Change) /\ RestOf(q) \in Seq(Change)
           /\ FirstOf(q) # <<>>
           /\ \A c : NumbersOf(q, c) = NumbersOf(FirstOf(q), c) \cup NumbersOf(RestOf(q), c)
           /\ Ordered(q) =>
                /\ Ordered(RestOf(q))
                /\ \A c : \A n \in NumbersOf(FirstOf(q), c), m \in NumbersOf(RestOf(q), c) : n < m
  <1> DEFINE k == IF Len(q) < maxBatchSize THEN Len(q) ELSE maxBatchSize
             f == FirstOf(q)
             r == RestOf(q)
  <1>1. Len(q) \in Nat /\ Len(q) # 0 /\ k \in 1..Len(q) /\ DOMAIN q = 1..Len(q)
    BY SessionAssumption
  <1> HIDE DEF k
  <1>2. f = SubSeq(q, 1, k)
    BY DEF FirstOf, k
  <1>3. f \in Seq(Change) /\ Len(f) = k /\ DOMAIN f = 1..k /\ \A i \in 1..k : f[i] = q[i]
    BY <1>1, <1>2
  <1>4. r = SubSeq(q, k + 1, Len(q))
    BY <1>3 DEF RestOf
  <1> HIDE DEF f
  <1> HIDE DEF r
  <1>5. r \in Seq(Change) /\ Len(r) = Len(q) - k /\ DOMAIN r = 1..(Len(q) - k)
        /\ \A i \in 1..(Len(q) - k) : r[i] = q[k + i]
    <2>1. \A i \in (k + 1)..Len(q) : q[i] \in Change
      BY <1>1
    <2>2. /\ r \in Seq(Change)
          /\ Len(r) = IF k + 1 <= Len(q) THEN Len(q) - (k + 1) + 1 ELSE 0
          /\ \A i \in 1..(Len(q) - (k + 1) + 1) : r[i] = q[(k + 1) + i - 1]
      BY <1>1, <1>4, <2>1, SubSeqProperties
    <2>3. Len(r) = Len(q) - k
      <3>1. Len(r) = IF k + 1 <= Len(q) THEN Len(q) - (k + 1) + 1 ELSE 0
        BY <2>2
      <3>2. k \in Nat /\ k <= Len(q) /\ Len(q) \in Nat
        BY <1>1
      <3>3. QED BY <3>1, <3>2
    <2>4. ASSUME NEW i \in 1..(Len(q) - k) PROVE r[i] = q[k + i]
      <3>1. i \in 1..(Len(q) - (k + 1) + 1) /\ (k + 1) + i - 1 = k + i
        BY <1>1
      <3>2. QED BY <2>2, <3>1
    <2>5. QED BY <2>2, <2>3, <2>4
  <1>6. ASSUME NEW c, NEW n \in NumbersOf(f, c)
        PROVE  \E i \in 1..k : q[i][1] = c /\ q[i][2] = n
    BY <1>3, <1>6 DEF NumbersOf
  <1>7. ASSUME NEW c, NEW n \in NumbersOf(r, c)
        PROVE  \E i \in (k + 1)..Len(q) : q[i][1] = c /\ q[i][2] = n
    <2>1. PICK i \in 1..(Len(q) - k) : r[i][1] = c /\ r[i][2] = n
      BY <1>5, <1>7 DEF NumbersOf
    <2>2. k + i \in (k + 1)..Len(q) /\ q[k + i] = r[i]
      BY <2>1, <1>5, <1>1
    <2>3. QED BY <2>1, <2>2
  <1>8. ASSUME NEW c, NEW i \in 1..Len(q), q[i][1] = c
        PROVE  q[i][2] \in NumbersOf(f, c) \cup NumbersOf(r, c)
    <2>1. CASE i \in 1..k
      BY <1>3, <1>8, <2>1 DEF NumbersOf
    <2>2. CASE i \in (k + 1)..Len(q)
      <3>1. i - k \in 1..(Len(q) - k) /\ r[i - k] = q[i]
        BY <1>1, <1>5, <2>2
      <3>2. QED BY <3>1, <1>5, <1>8 DEF NumbersOf
    <2>3. QED BY <1>1, <1>8, <2>1, <2>2
  <1>9. ASSUME NEW c PROVE NumbersOf(q, c) = NumbersOf(f, c) \cup NumbersOf(r, c)
    <2>1. NumbersOf(f, c) \cup NumbersOf(r, c) \subseteq NumbersOf(q, c)
      <3>1. ASSUME NEW n \in NumbersOf(f, c) PROVE n \in NumbersOf(q, c)
        <4>1. PICK i \in 1..k : q[i][1] = c /\ q[i][2] = n
          BY <1>6
        <4>2. QED BY <4>1, <1>1 DEF NumbersOf
      <3>2. ASSUME NEW n \in NumbersOf(r, c) PROVE n \in NumbersOf(q, c)
        <4>1. PICK i \in (k + 1)..Len(q) : q[i][1] = c /\ q[i][2] = n
          BY <1>7
        <4>2. QED BY <4>1, <1>1 DEF NumbersOf
      <3>3. QED BY <3>1, <3>2
    <2>2. NumbersOf(q, c) \subseteq NumbersOf(f, c) \cup NumbersOf(r, c)
      <3>1. SUFFICES ASSUME NEW n \in NumbersOf(q, c)
                     PROVE  n \in NumbersOf(f, c) \cup NumbersOf(r, c)
        OBVIOUS
      <3>2. PICK i \in 1..Len(q) : q[i][1] = c /\ q[i][2] = n
        BY <1>1 DEF NumbersOf
      <3>3. QED BY <3>2, <1>8
    <2>3. QED BY <2>1, <2>2
  <1>10. ASSUME Ordered(q) PROVE Ordered(r)
    <2>1. SUFFICES ASSUME NEW i \in 1..Len(r), NEW j \in 1..Len(r), i < j, r[i][1] = r[j][1]
                   PROVE  r[i][2] < r[j][2]
      BY DEF Ordered
    <2>2. r[i] = q[k + i] /\ r[j] = q[k + j] /\ k + i \in 1..Len(q) /\ k + j \in 1..Len(q)
          /\ k + i < k + j
      BY <2>1, <1>1, <1>5
    <2>3. QED BY <2>1, <2>2, <1>10 DEF Ordered
  <1>11. ASSUME Ordered(q), NEW c, NEW n \in NumbersOf(f, c), NEW m \in NumbersOf(r, c)
         PROVE  n < m
    <2>1. PICK i \in 1..k : q[i][1] = c /\ q[i][2] = n
      BY <1>6, <1>11
    <2>2. PICK j \in (k + 1)..Len(q) : q[j][1] = c /\ q[j][2] = m
      BY <1>7, <1>11
    <2>3. i \in 1..Len(q) /\ j \in 1..Len(q) /\ i < j
      BY <1>1, <2>1, <2>2
    <2>4. QED BY <1>11, <2>1, <2>2, <2>3 DEF Ordered
  <1>12. f # <<>>
    BY <1>1, <1>3
  <1>13. QED BY <1>3, <1>5, <1>9, <1>10, <1>11, <1>12 DEF f, r

(* A set of natural numbers has a least one. *)
LEMMA LeastNumber ==
    ASSUME NEW S \in SUBSET Nat, S # {}
    PROVE  \E x \in S : \A y \in S : x <= y
  <1> DEFINE R == OpToRel(<, Nat)
  <1>1. IsWellFoundedOn(R, Nat)
    BY NatLessThanWellFounded
  <1>2. R = {p \in Nat \X Nat : p[1] < p[2]}
    BY DEF OpToRel
  <1> HIDE DEF R
  <1>3. PICK x \in S : \A y \in S : ~ (<<y, x>> \in R)
    BY <1>1, WFMin
  <1>4. ASSUME NEW y \in S PROVE x <= y
    <2>1. ~ (<<y, x>> \in {p \in Nat \X Nat : p[1] < p[2]})
      BY <1>2, <1>3
    <2>2. y \in Nat /\ x \in Nat
      OBVIOUS
    <2>3. QED BY <2>1, <2>2
  <1>5. QED BY <1>4

(* Numbers that are bounded have a last one. *)
LEMMA LastIsGreatest ==
    ASSUME NEW n \in Nat, NEW S \in SUBSET Nat, S # {}, \A m \in S : m <= n
    PROVE  Last(S) \in S /\ \A m \in S : m <= Last(S)
  <1> DEFINE T == {n - d : d \in S}
  <1>1. T \in SUBSET Nat /\ T # {}
    <2>1. ASSUME NEW d \in S PROVE n - d \in Nat
      OBVIOUS
    <2>2. QED BY <2>1, Zenon
  <1>2. PICK t \in T : \A u \in T : t <= u
    <2> HIDE DEF T
    <2> QED BY <1>1, LeastNumber
  <1>3. PICK x \in S : t = n - x
    OBVIOUS
  <1>4. ASSUME NEW y \in S PROVE y <= x
    <2>1. n - y \in T
      OBVIOUS
    <2>2. n - x <= n - y
      BY <1>2, <1>3, <2>1
    <2>3. x \in Nat /\ y \in Nat
      OBVIOUS
    <2> HIDE DEF T
    <2>4. QED BY <2>2, <2>3
  <1>5. QED BY <1>4 DEF Last

(* The last number of what a session writes of a channel is one of them. *)
LEMMA LastWritten ==
    ASSUME IInv, NEW s \in Session, NEW c \in Channel, Written(s, c) # {}
    PROVE  /\ Last(Written(s, c)) \in Written(s, c) /\ Last(Written(s, c)) \in Nat
           /\ \A n \in Written(s, c) : n <= Last(Written(s, c))
           /\ Last(Written(s, c)) <= made[c]
  <1>1. Written(s, c) \in SUBSET Nat
    BY NumbersNat DEF Written, IInv, TypeOK
  <1>2. \A n \in Written(s, c) : n <= made[c]
    BY DEF IInv, Reading, KeptInOrder, InOrderKept
  <1>3. made[c] \in Nat
    BY DEF IInv, TypeOK
  <1> HIDE DEF Written
  <1>4. Last(Written(s, c)) \in Written(s, c) /\ \A m \in Written(s, c) : m <= Last(Written(s, c))
    BY <1>1, <1>2, <1>3, LastIsGreatest
  <1>5. QED BY <1>1, <1>2, <1>4

(* What a step may leave of a session as it was: where it stands, its       *)
(* connection, and what it keeps.                                           *)
SameStanding(t) ==
    /\ current' = t => current = t
    /\ state'[t] = state[t] /\ stopped'[t] = stopped[t] /\ stopping'[t] = stopping[t]

SameLink(t) ==
    /\ job'[t] = job[t] /\ tries'[t] = tries[t] /\ link'[t] = link[t]
    /\ todo'[t] = todo[t] /\ accepted'[t] = accepted[t]

SameFlow(t) ==
    /\ buffer'[t] = buffer[t] /\ timer'[t] = timer[t] /\ flushes'[t] = flushes[t]
    /\ batch'[t] = batch[t] /\ left'[t] = left[t]

Same(t) == SameStanding(t) /\ SameLink(t) /\ SameFlow(t)

InControl(t) == Flushing(t) /\ Connecting(t) /\ Emptying(t) /\ Subscribed(t)

(* A step of another session keeps where a session may be. *)
LEMMA ControlElsewhere ==
    ASSUME NEW t, InControl(t), Same(t)
    PROVE  InControl(t)'
  BY DEF InControl, Same, SameStanding, SameLink, SameFlow, Emptied, Flushing, Connecting,
       Emptying, Subscribed, Written,
         Waiting, running

-----------------------------------------------------------------------------
(* The types.                                                              *)

(* Every step keeps the types. *)
LEMMA NextTypeOK ==
    IInv /\ [Next]_vars => TypeOK'
  <1> SUFFICES ASSUME IInv, [Next]_vars PROVE TypeOK'
    OBVIOUS
  <1>0. TypeOK
    BY DEF IInv
  <1> USE <1>0, SessionAssumption DEF TypeOK, NoPoint
  <1> USE DEF org, opening, flow, decisions, history
  <1>1. ASSUME NEW c \in Channel, Make(c) PROVE TypeOK'
    <2>1. made' \in [Channel -> Nat]
      BY <1>1 DEF Make
    <2>2. QED BY <1>1, <2>1 DEF Make
  <1>2. ASSUME NEW c \in Channel, LetGo(c) PROVE TypeOK'
    <2>1. gone' \in [Channel -> Nat]
      BY <1>2 DEF LetGo
    <2>2. QED BY <1>2, <2>1 DEF LetGo
  <1>3. ASSUME NEW s \in Session, StartWatching(s) \/ GuardAllows(s) PROVE TypeOK'
    <2>1. Begin(s)
      BY <1>3 DEF StartWatching, GuardAllows
    <2>2. disturbed' \in BOOLEAN
      BY <2>1, Zenon DEF Begin
    <2>3. QED BY <2>1, <2>2 DEF Begin
  <1>4. ASSUME NEW s \in Session, AskGuard(s) PROVE TypeOK'
    BY <1>4 DEF AskGuard
  <1>5. ASSUME NEW s \in Session, GuardRefuses(s) PROVE TypeOK'
    BY <1>5 DEF GuardRefuses
  <1>6. ASSUME NEW s \in Session, TransportOpens(s) PROVE TypeOK'
    BY <1>6 DEF TransportOpens
  <1>7. ASSUME NEW s \in Session, TransportFails(s) PROVE TypeOK'
    BY <1>7 DEF TransportFails, NextTry
  <1>8. ASSUME NEW s \in Session, NEW c \in Channel, Accept(s, c) PROVE TypeOK'
    <2>1. From(c) \in Nat
      BY DEF From
    <2> QED BY <1>8, <2>1 DEF Accept
  <1>9. ASSUME NEW s \in Session, NEW c \in Channel, Refuse(s, c) PROVE TypeOK'
    BY <1>9 DEF Refuse
  <1>10. ASSUME NEW s \in Session, Started(s) PROVE TypeOK'
    BY <1>10 DEF Started
  <1>11. ASSUME NEW s \in Session, Reopened(s) PROVE TypeOK'
    <2>1. CASE accepted[s] # {}
      <3>1. watched' \in [Session -> SUBSET Channel]
        <4>1. accepted[s] \in SUBSET Channel /\ watched \in [Session -> SUBSET Channel]
              /\ watched' = [watched EXCEPT ![s] = accepted[s]]
          BY <1>11, <2>1 DEF Reopened
        <4> HIDE <1>0
        <4>2. QED BY <4>1
      <3>2. QED BY <1>11, <2>1, <3>1 DEF Reopened
    <2>2. CASE accepted[s] = {}
      BY <1>11, <2>2 DEF Reopened, NextTry
    <2>3. QED BY <2>1, <2>2
  <1>12. ASSUME NEW s \in Session, Drained(s) PROVE TypeOK'
    BY <1>12 DEF Drained
  <1>13. ASSUME NEW s \in Session, Retry(s) PROVE TypeOK'
    <2>1. tries[s] < Retries
      BY <1>13 DEF Retry, IInv, Control, Connecting
    <2>2. tries' \in [Session -> 0..Retries] /\ todo' \in [Session -> SUBSET Channel]
      <3>1. watched[s] \in SUBSET Channel /\ todo \in [Session -> SUBSET Channel]
            /\ (todo' = todo \/ todo' = [todo EXCEPT ![s] = watched[s]])
        BY <1>13 DEF Retry
      <3>2. /\ tries[s] + 1 \in 0..Retries /\ tries \in [Session -> 0..Retries]
            /\ (tries' = tries \/ tries' = [tries EXCEPT ![s] = tries[s] + 1])
        BY <1>13, <2>1 DEF Retry
      <3> HIDE <1>0
      <3>3. QED BY <3>1, <3>2
    <2>3. QED BY <1>13, <2>2 DEF Retry
  <1>14. ASSUME NEW s \in Session, Down(s) PROVE TypeOK'
    BY <1>14 DEF Down
  <1>15. ASSUME NEW s \in Session, NEW c \in Channel, Receive(s, c) PROVE TypeOK'
    <2>1. at' \in [Session -> [Channel -> Nat]] /\ at'[s][c] \in Nat
      BY <1>15 DEF Receive
    <2>2. buffer' \in [Session -> Seq(Change)] /\ timer' \in [Session -> BOOLEAN]
      <3>1. <<c, at'[s][c]>> \in Change
        BY <2>1 DEF Change
      <3>2. Append(buffer[s], <<c, at'[s][c]>>) \in Seq(Change)
        BY <3>1
      <3>3. CASE stopped[s]
        BY <1>15, <3>3 DEF Receive
      <3>4. CASE ~ stopped[s]
        <4>1. /\ buffer \in [Session -> Seq(Change)] /\ timer \in [Session -> BOOLEAN]
              /\ buffer' = [buffer EXCEPT ![s] = Append(buffer[s], <<c, at'[s][c]>>)]
              /\ timer' = [timer EXCEPT ![s] = TRUE]
          BY <1>15, <3>4 DEF Receive
        <4> HIDE <1>0
        <4>2. QED BY <3>2, <4>1
      <3>5. QED BY <3>3, <3>4
    <2>3. QED BY <1>15, <2>1, <2>2 DEF Receive
  <1>16. ASSUME NEW s \in Session, TimerFires(s) PROVE TypeOK'
    <2>1. timer' \in [Session -> BOOLEAN] /\ flushes' \in [Session -> Nat]
      BY <1>16 DEF TimerFires
    <2>2. QED BY <1>16, <2>1 DEF TimerFires
  <1>17. ASSUME NEW s \in Session, TakeBatch(s) PROVE TypeOK'
    BY <1>17, BatchSplits, ChannelsOfType DEF TakeBatch
  <1>18. ASSUME NEW s \in Session, FlushEnds(s) PROVE TypeOK'
    <2>1. flushes' \in [Session -> Nat]
      BY <1>18 DEF FlushEnds
    <2>2. QED BY <1>18, <2>1 DEF FlushEnds
  <1>19. ASSUME NEW s \in Session, Save(s) PROVE TypeOK'
    <2>1. ASSUME NEW c \in Channel, c \in ChannelsOf(batch[s])
          PROVE  Last(NumbersOf(batch[s], c)) \in Nat
      BY <2>1, ChannelsHaveNumbers, LastWritten DEF Written
    <2>2. point' \in [Channel -> Nat \cup {NoPoint}]
      BY <1>19, <2>1 DEF Save
    <2>3. QED BY <1>19, <2>2 DEF Save
  <1>20. ASSUME NEW s \in Session, NEW c \in Channel, Apply(s, c) PROVE TypeOK'
    <2>1. Written(s, c) # {}
      BY <1>20, ChannelsHaveNumbers DEF Apply, Written, IInv, Control, Flushing
    <2>2. newest' \in [Channel -> Nat]
      BY <1>20, <2>1, LastWritten DEF Apply, Written
    <2>3. \A n \in NumbersOf(batch[s], c) : <<c, n>> \in Change
      BY NumbersNat DEF Change
    <2>4. done' \subseteq Change /\ held' \in [Session -> SUBSET Change]
      BY <1>20, <2>3 DEF Apply
    <2>5. QED BY <1>20, <2>2, <2>4 DEF Apply
  <1>21. ASSUME NEW s \in Session, Stop(s) PROVE TypeOK'
    BY <1>21 DEF Stop
  <1>22. ASSUME NEW s \in Session, StopEnds(s) PROVE TypeOK'
    BY <1>22 DEF StopEnds
  <1>23. ASSUME NEW s \in Session, NEW e \in held[s], Decide(s, e) PROVE TypeOK'
    BY <1>23 DEF Decide
  <1>24. ASSUME NEW s \in Session, NEW e \in deciding[s], NEW success \in BOOLEAN,
                Decided(s, e, success) PROVE TypeOK'
    <2>1. CASE success
      <3>1. decided' \in [Session -> SUBSET Change] /\ held' \in [Session -> SUBSET Change]
            /\ deciding' \in [Session -> SUBSET Change]
        <4>1. /\ held \in [Session -> SUBSET Change] /\ decided \in [Session -> SUBSET Change]
              /\ deciding \in [Session -> SUBSET Change] /\ deciding[s] \subseteq Change
          OBVIOUS
        <4>2. /\ held' = [held EXCEPT ![s] = @ \ {e}]
              /\ deciding' = [deciding EXCEPT ![s] = @ \ {e}]
              /\ decided' = [decided EXCEPT ![s] = @ \cup {e}]
          BY <1>24, <2>1 DEF Decided
        <4> HIDE <1>0
        <4>3. QED BY <4>1, <4>2
      <3>2. QED BY <1>24, <3>1 DEF Decided
    <2>2. CASE ~ success
      BY <1>24, <2>2 DEF Decided
    <2>3. QED BY <2>1, <2>2
  <1>25. CASE Crash
    BY <1>25 DEF Crash
  <1>26. CASE UNCHANGED vars
    BY <1>26 DEF vars
  <1> HIDE <1>0, SessionAssumption DEF TypeOK, NoPoint, org, opening, flow, decisions, history
  <1>27. QED
    BY <1>1, <1>2, <1>3, <1>4, <1>5, <1>6, <1>7, <1>8, <1>9, <1>10, <1>11, <1>12, <1>13,
       <1>14, <1>15, <1>16, <1>17, <1>18, <1>19, <1>20, <1>21, <1>22, <1>23, <1>24, <1>25,
       <1>26 DEF Next, Opening, Flush

-----------------------------------------------------------------------------
(* Where a session may be.                                                 *)

(* Every step keeps it. *)
LEMMA NextControl ==
    IInv /\ [Next]_vars => Control'
  <1> SUFFICES ASSUME IInv, [Next]_vars, NEW t \in Session PROVE InControl(t)'
    BY DEF Control, InControl
  <1>0. TypeOK /\ InControl(t)
    BY DEF IInv, Control, InControl
  <1> USE DEF org, opening, flow, decisions, history
  <1>1. ASSUME NEW c \in Channel, Make(c) \/ LetGo(c) PROVE InControl(t)'
    BY <1>0, <1>1, ControlElsewhere DEF Make, LetGo, Same, SameStanding, SameLink, SameFlow
  <1>2. ASSUME NEW s \in Session, StartWatching(s) \/ GuardAllows(s) PROVE InControl(t)'
    <2>1. CASE t # s
      <3>1. Same(t)
        BY <1>0, <1>2, <2>1 DEF StartWatching, GuardAllows, Begin, Same, SameStanding,
           SameLink, SameFlow, TypeOK
      <3>2. QED BY <1>0, <3>1, ControlElsewhere
    <2>2. CASE t = s
      <3>1. /\ Flushing(s) /\ Connecting(s) /\ Emptying(s) /\ Subscribed(s)
            /\ tries[s] \in Nat /\ flushes[s] \in Nat
        BY <1>0, <2>2, SessionAssumption DEF InControl, TypeOK
      <3>2. /\ state[s] = "new" /\ current' = s /\ state'[s] = "connecting"
            /\ job'[s] = "starting" /\ link'[s] = "opening" /\ todo'[s] = Channel
        BY <1>0, <1>2, <3>1 DEF StartWatching, GuardAllows, Begin, TypeOK, Connecting
      <3>3. /\ stopped'[s] = stopped[s] /\ stopping'[s] = stopping[s] /\ tries'[s] = tries[s]
            /\ accepted'[s] = accepted[s] /\ SameFlow(s)
        BY <1>0, <1>2 DEF StartWatching, GuardAllows, Begin, SameFlow, TypeOK
      <3>4. Flushing(s)' /\ Connecting(s)'
        BY <3>1, <3>2, <3>3 DEF SameStanding, SameLink, SameFlow, Flushing, Connecting,
           Emptying, Emptied, running
      <3>5. Emptying(s)'
        BY <3>1, <3>2, <3>3, NumbersEmpty DEF SameStanding, SameLink, SameFlow, Flushing,
           Connecting, Subscribed, Emptying, Emptied, running, Written, Waiting
      <3>6. Subscribed(s)'
        BY <3>1, <3>2, <3>3, NumbersEmpty DEF SameStanding, SameLink, SameFlow, Connecting,
           Flushing, Emptying, Emptied, Subscribed, Written, Waiting, running
      <3>7. QED BY <2>2, <3>4, <3>5, <3>6 DEF InControl
    <2>3. QED BY <2>1, <2>2
  <1>3. ASSUME NEW s \in Session, AskGuard(s) PROVE InControl(t)'
    <2>1. CASE t # s
      <3>1. Same(t)
        BY <1>0, <1>3, <2>1 DEF AskGuard, Same, SameStanding, SameLink, SameFlow, TypeOK
      <3>2. QED BY <1>0, <3>1, ControlElsewhere
    <2>2. CASE t = s
      <3>1. /\ Flushing(s) /\ Connecting(s) /\ Emptying(s) /\ Subscribed(s)
            /\ tries[s] \in Nat /\ flushes[s] \in Nat
        BY <1>0, <2>2, SessionAssumption DEF InControl, TypeOK
      <3>2. /\ job'[s] = "guard" /\ state[s] = "new" /\ job[s] = "none"
        BY <1>0, <1>3, <3>1 DEF AskGuard, TypeOK, Connecting
      <3>3. /\ SameStanding(s) /\ tries'[s] = tries[s] /\ link'[s] = link[s]
            /\ todo'[s] = todo[s] /\ accepted'[s] = accepted[s] /\ SameFlow(s)
        BY <1>0, <1>3 DEF AskGuard, SameStanding, SameFlow, TypeOK
      <3>4. Flushing(s)' /\ Connecting(s)'
        BY <3>1, <3>2, <3>3 DEF SameStanding, SameLink, SameFlow, Flushing, Connecting,
           Emptying, Emptied, running
      <3>5. Emptying(s)'
        BY <3>1, <3>2, <3>3 DEF SameStanding, SameLink, SameFlow, Flushing, Connecting,
           Subscribed, Emptying, Emptied, running, Written, Waiting
      <3>6. Subscribed(s)'
        BY <3>1, <3>2, <3>3 DEF SameStanding, SameLink, SameFlow, Connecting, Flushing,
           Emptying, Emptied, Subscribed, Written, Waiting, running
      <3>7. QED BY <2>2, <3>4, <3>5, <3>6 DEF InControl
    <2>3. QED BY <2>1, <2>2
  <1>4. ASSUME NEW s \in Session, GuardRefuses(s) PROVE InControl(t)'
    <2>1. CASE t # s
      <3>1. Same(t)
        BY <1>0, <1>4, <2>1 DEF GuardRefuses, Same, SameStanding, SameLink, SameFlow, TypeOK
      <3>2. QED BY <1>0, <3>1, ControlElsewhere
    <2>2. CASE t = s
      <3>1. /\ Flushing(s) /\ Connecting(s) /\ Emptying(s) /\ Subscribed(s)
            /\ tries[s] \in Nat /\ flushes[s] \in Nat
        BY <1>0, <2>2, SessionAssumption DEF InControl, TypeOK
      <3>2. /\ job'[s] = "none" /\ state'[s] = "disconnected" /\ job[s] = "guard"
        BY <1>0, <1>4, <3>1 DEF GuardRefuses, TypeOK, Connecting
      <3>3. /\ (current' = s => current = s) /\ stopped'[s] = stopped[s]
            /\ stopping'[s] = stopping[s] /\ tries'[s] = tries[s] /\ link'[s] = link[s]
            /\ todo'[s] = todo[s] /\ accepted'[s] = accepted[s] /\ SameFlow(s)
        BY <1>0, <1>4 DEF GuardRefuses, SameFlow, TypeOK
      <3>4. Flushing(s)' /\ Connecting(s)'
        BY <3>1, <3>2, <3>3 DEF SameStanding, SameLink, SameFlow, Flushing, Connecting,
           Emptying, Emptied, running
      <3>5. Emptying(s)'
        BY <3>1, <3>2, <3>3 DEF SameStanding, SameLink, SameFlow, Flushing, Connecting,
           Subscribed, Emptying, Emptied, running, Written, Waiting
      <3>6. Subscribed(s)'
        BY <3>1, <3>2, <3>3 DEF SameStanding, SameLink, SameFlow, Connecting, Flushing,
           Emptying, Emptied, Subscribed, Written, Waiting, running
      <3>7. QED BY <2>2, <3>4, <3>5, <3>6 DEF InControl
    <2>3. QED BY <2>1, <2>2
  <1>5. ASSUME NEW s \in Session, TransportOpens(s) PROVE InControl(t)'
    <2>1. CASE t # s
      <3>1. Same(t)
        BY <1>0, <1>5, <2>1 DEF TransportOpens, Same, SameStanding, SameLink, SameFlow,
           TypeOK
      <3>2. QED BY <1>0, <3>1, ControlElsewhere
    <2>2. CASE t = s
      <3>1. /\ Flushing(s) /\ Connecting(s) /\ Emptying(s) /\ Subscribed(s)
            /\ tries[s] \in Nat /\ flushes[s] \in Nat
        BY <1>0, <2>2, SessionAssumption DEF InControl, TypeOK
      <3>2. /\ link[s] = "opening" /\ link'[s] = "live" /\ accepted'[s] = {}
        BY <1>0, <1>5 DEF TransportOpens, TypeOK
      <3>3. /\ SameStanding(s) /\ job'[s] = job[s] /\ tries'[s] = tries[s]
            /\ todo'[s] = todo[s] /\ SameFlow(s)
        BY <1>0, <1>5 DEF TransportOpens, SameStanding, SameFlow, TypeOK
      <3>4. Flushing(s)' /\ Connecting(s)'
        BY <3>1, <3>2, <3>3 DEF SameStanding, SameLink, SameFlow, Flushing, Connecting,
           Emptying, Emptied, running
      <3>5. Emptying(s)'
        BY <3>1, <3>2, <3>3, NumbersEmpty DEF SameStanding, SameLink, SameFlow, Flushing,
           Connecting, Subscribed, Emptying, Emptied, running, Written, Waiting
      <3>6. Subscribed(s)'
        BY <3>1, <3>2, <3>3, NumbersEmpty DEF SameStanding, SameLink, SameFlow, Connecting,
           Flushing, Emptying, Emptied, Subscribed, Written, Waiting, running
      <3>7. QED BY <2>2, <3>4, <3>5, <3>6 DEF InControl
    <2>3. QED BY <2>1, <2>2
  <1>6. ASSUME NEW s \in Session, TransportFails(s) PROVE InControl(t)'
    <2>1. CASE t # s
      <3>1. Same(t)
        BY <1>0, <1>6, <2>1 DEF TransportFails, NextTry, Same, SameStanding, SameLink,
           SameFlow, TypeOK
      <3>2. QED BY <1>0, <3>1, ControlElsewhere
    <2>2. CASE t = s
      <3>1. /\ Flushing(s) /\ Connecting(s) /\ Emptying(s) /\ Subscribed(s)
            /\ tries[s] \in Nat /\ flushes[s] \in Nat
        BY <1>0, <2>2, SessionAssumption DEF InControl, TypeOK
      <3>2. /\ link[s] = "opening" /\ link'[s] = "none" /\ todo'[s] = {}
            /\ \/ job'[s] = "pausing" /\ tries[s] < Retries /\ state'[s] = state[s]
               \/ job'[s] = "none" /\ (~ stopped[s] => state'[s] = "error")
                   /\ state'[s] \in {"error", state[s]}
        <4>1. CASE job[s] = "starting"
          BY <1>0, <1>6, <4>1 DEF TransportFails, TypeOK
        <4>2. CASE job[s] # "starting" /\ tries[s] < Retries
          BY <1>0, <1>6, <4>2 DEF TransportFails, NextTry, TypeOK
        <4>3. CASE job[s] # "starting" /\ ~ (tries[s] < Retries)
          BY <1>0, <1>6, <4>3 DEF TransportFails, NextTry, TypeOK
        <4>4. QED BY <4>1, <4>2, <4>3
      <3>3. /\ (current' = s => current = s) /\ stopped'[s] = stopped[s]
            /\ stopping'[s] = stopping[s] /\ tries'[s] = tries[s]
            /\ accepted'[s] = accepted[s] /\ SameFlow(s)
        BY <1>0, <1>6 DEF TransportFails, NextTry, SameFlow, TypeOK
      <3>4. Flushing(s)' /\ Connecting(s)'
        BY <3>1, <3>2, <3>3 DEF SameStanding, SameLink, SameFlow, Flushing, Connecting,
           Emptying, Emptied, running
      <3>5. Emptying(s)'
        BY <3>1, <3>2, <3>3 DEF SameStanding, SameLink, SameFlow, Flushing, Connecting,
           Subscribed, Emptying, Emptied, running, Written, Waiting
      <3>6. Subscribed(s)'
        BY <3>1, <3>2, <3>3 DEF SameStanding, SameLink, SameFlow, Connecting, Flushing,
           Emptying, Emptied, Subscribed, Written, Waiting, running
      <3>7. QED BY <2>2, <3>4, <3>5, <3>6 DEF InControl
    <2>3. QED BY <2>1, <2>2
  <1>7. ASSUME NEW s \in Session, NEW c \in Channel, Accept(s, c) PROVE InControl(t)'
    <2>1. CASE t # s
      <3>1. Same(t)
        BY <1>0, <1>7, <2>1 DEF Accept, Same, SameStanding, SameLink, SameFlow, TypeOK
      <3>2. QED BY <1>0, <3>1, ControlElsewhere
    <2>2. CASE t = s
      <3>1. /\ Flushing(s) /\ Connecting(s) /\ Emptying(s) /\ Subscribed(s)
            /\ tries[s] \in Nat /\ flushes[s] \in Nat
        BY <1>0, <2>2, SessionAssumption DEF InControl, TypeOK
      <3>2. /\ link[s] = "live" /\ todo'[s] = todo[s] \ {c} /\ accepted'[s] = accepted[s] \cup {c}
        BY <1>0, <1>7 DEF Accept, TypeOK
      <3>3. /\ SameStanding(s) /\ job'[s] = job[s] /\ tries'[s] = tries[s]
            /\ link'[s] = link[s] /\ SameFlow(s)
        BY <1>0, <1>7 DEF Accept, SameStanding, SameFlow, TypeOK
      <3>4. Flushing(s)' /\ Connecting(s)'
        BY <3>1, <3>2, <3>3 DEF SameStanding, SameLink, SameFlow, Flushing, Connecting,
           Emptying, Emptied, running
      <3>5. Emptying(s)'
        BY <3>1, <3>2, <3>3 DEF SameStanding, SameLink, SameFlow, Flushing, Connecting,
           Subscribed, Emptying, Emptied, running, Written, Waiting
      <3>6. Subscribed(s)'
        BY <3>1, <3>2, <3>3 DEF SameStanding, SameLink, SameFlow, Connecting, Flushing,
           Emptying, Emptied, Subscribed, Written, Waiting, running
      <3>7. QED BY <2>2, <3>4, <3>5, <3>6 DEF InControl
    <2>3. QED BY <2>1, <2>2
  <1>8. ASSUME NEW s \in Session, NEW c \in Channel, Refuse(s, c) PROVE InControl(t)'
    <2>1. CASE t # s
      <3>1. Same(t)
        BY <1>0, <1>8, <2>1 DEF Refuse, Same, SameStanding, SameLink, SameFlow, TypeOK
      <3>2. QED BY <1>0, <3>1, ControlElsewhere
    <2>2. CASE t = s
      <3>1. /\ Flushing(s) /\ Connecting(s) /\ Emptying(s) /\ Subscribed(s)
            /\ tries[s] \in Nat /\ flushes[s] \in Nat
        BY <1>0, <2>2, SessionAssumption DEF InControl, TypeOK
      <3>2. /\ todo'[s] = todo[s] \ {c} /\ link[s] # "opening"
        BY <1>0, <1>8 DEF Refuse, TypeOK
      <3>3. /\ SameStanding(s) /\ job'[s] = job[s] /\ tries'[s] = tries[s]
            /\ link'[s] = link[s] /\ accepted'[s] = accepted[s] /\ SameFlow(s)
        BY <1>0, <1>8 DEF Refuse, SameStanding, SameFlow, TypeOK
      <3>4. Flushing(s)' /\ Connecting(s)'
        BY <3>1, <3>2, <3>3 DEF SameStanding, SameLink, SameFlow, Flushing, Connecting,
           Emptying, Emptied, running
      <3>5. Emptying(s)'
        BY <3>1, <3>2, <3>3 DEF SameStanding, SameLink, SameFlow, Flushing, Connecting,
           Subscribed, Emptying, Emptied, running, Written, Waiting
      <3>6. Subscribed(s)'
        BY <3>1, <3>2, <3>3 DEF SameStanding, SameLink, SameFlow, Connecting, Flushing,
           Emptying, Emptied, Subscribed, Written, Waiting, running
      <3>7. QED BY <2>2, <3>4, <3>5, <3>6 DEF InControl
    <2>3. QED BY <2>1, <2>2
  <1>9. ASSUME NEW s \in Session, Started(s) PROVE InControl(t)'
    <2>1. CASE t # s
      <3>1. Same(t)
        BY <1>0, <1>9, <2>1 DEF Started, Same, SameStanding, SameLink, SameFlow, TypeOK
      <3>2. QED BY <1>0, <3>1, ControlElsewhere
    <2>2. CASE t = s
      <3>1. /\ Flushing(s) /\ Connecting(s) /\ Emptying(s) /\ Subscribed(s)
            /\ tries[s] \in Nat /\ flushes[s] \in Nat
        BY <1>0, <2>2, SessionAssumption DEF InControl, TypeOK
      <3>2. /\ job[s] = "starting" /\ link[s] # "opening" /\ job'[s] = "none" /\ todo[s] = {}
            /\ \/ accepted[s] = {} /\ state'[s] = "error" /\ link'[s] = "none"
               \/ accepted[s] # {} /\ state'[s] = "syncing" /\ link'[s] = link[s]
        BY <1>0, <1>9 DEF Started, TypeOK
      <3>3. /\ (current' = s => current = s) /\ stopped'[s] = stopped[s]
            /\ stopping'[s] = stopping[s] /\ tries'[s] = tries[s] /\ todo'[s] = todo[s]
            /\ accepted'[s] = accepted[s] /\ SameFlow(s)
        BY <1>0, <1>9 DEF Started, SameFlow, TypeOK
      <3>4. Flushing(s)' /\ Connecting(s)'
        BY <3>1, <3>2, <3>3 DEF SameStanding, SameLink, SameFlow, Flushing, Connecting,
           Emptying, Emptied, running
      <3>5. Emptying(s)'
        <4>1. accepted[s] = {} => buffer[s] = <<>> /\ batch[s] = <<>> /\ ~ timer[s]
          BY <1>0, <3>1, <3>2, NoNumbers DEF Subscribed, Written, Waiting, TypeOK
        <4>2. QED BY <3>1, <3>2, <3>3, <4>1 DEF SameStanding, SameLink, SameFlow, Connecting,
             Emptying, Emptied, running
      <3>6. Subscribed(s)'
        BY <3>1, <3>2, <3>3 DEF SameStanding, SameLink, SameFlow, Connecting, Flushing,
           Emptying, Emptied, Subscribed, Written, Waiting, running
      <3>7. QED BY <2>2, <3>4, <3>5, <3>6 DEF InControl
    <2>3. QED BY <2>1, <2>2
  <1>10. ASSUME NEW s \in Session, Reopened(s) PROVE InControl(t)'
    <2>1. CASE t # s
      <3>1. Same(t)
        BY <1>0, <1>10, <2>1 DEF Reopened, NextTry, Same, SameStanding, SameLink, SameFlow,
           TypeOK
      <3>2. QED BY <1>0, <3>1, ControlElsewhere
    <2>2. CASE t = s
      <3>1. /\ Flushing(s) /\ Connecting(s) /\ Emptying(s) /\ Subscribed(s)
            /\ tries[s] \in Nat /\ flushes[s] \in Nat
        BY <1>0, <2>2, SessionAssumption DEF InControl, TypeOK
      <3>2. /\ job[s] = "reopening" /\ link[s] # "opening" /\ todo[s] = {}
            /\ \/ accepted[s] # {} /\ state'[s] = "syncing" /\ job'[s] = "none" /\ link'[s] = link[s]
               \/ /\ accepted[s] = {} /\ link'[s] = "none"
                  /\ \/ job'[s] = "pausing" /\ tries[s] < Retries /\ state'[s] = state[s]
                     \/ job'[s] = "none" /\ (~ stopped[s] => state'[s] = "error")
                   /\ state'[s] \in {"error", state[s]}
        <4>1. CASE accepted[s] # {}
          BY <1>0, <1>10, <4>1 DEF Reopened, TypeOK
        <4>2. CASE accepted[s] = {} /\ tries[s] < Retries
          BY <1>0, <1>10, <4>2 DEF Reopened, NextTry, TypeOK
        <4>3. CASE accepted[s] = {} /\ ~ (tries[s] < Retries)
          BY <1>0, <1>10, <4>3 DEF Reopened, NextTry, TypeOK
        <4>4. QED BY <4>1, <4>2, <4>3
      <3>3. /\ (current' = s => current = s) /\ stopped'[s] = stopped[s]
            /\ stopping'[s] = stopping[s] /\ tries'[s] = tries[s] /\ todo'[s] = todo[s]
            /\ accepted'[s] = accepted[s] /\ SameFlow(s)
        BY <1>0, <1>10 DEF Reopened, NextTry, SameFlow, TypeOK
      <3>4. Flushing(s)' /\ Connecting(s)'
        BY <3>1, <3>2, <3>3 DEF SameStanding, SameLink, SameFlow, Flushing, Connecting,
           Emptying, Emptied, running
      <3>5. Emptying(s)'
        <4>1. accepted[s] = {} => buffer[s] = <<>> /\ batch[s] = <<>> /\ ~ timer[s]
          BY <1>0, <3>1, <3>2, NoNumbers DEF Subscribed, Written, Waiting, TypeOK
        <4>2. QED BY <3>1, <3>2, <3>3, <4>1 DEF SameStanding, SameLink, SameFlow, Connecting,
             Emptying, Emptied, running
      <3>6. Subscribed(s)'
        BY <3>1, <3>2, <3>3 DEF SameStanding, SameLink, SameFlow, Connecting, Flushing,
           Emptying, Emptied, Subscribed, Written, Waiting, running
      <3>7. QED BY <2>2, <3>4, <3>5, <3>6 DEF InControl
    <2>3. QED BY <2>1, <2>2
  <1>11. ASSUME NEW s \in Session, Drained(s) PROVE InControl(t)'
    <2>1. CASE t # s
      <3>1. Same(t)
        BY <1>0, <1>11, <2>1 DEF Drained, Same, SameStanding, SameLink, SameFlow, TypeOK
      <3>2. QED BY <1>0, <3>1, ControlElsewhere
    <2>2. CASE t = s
      <3>1. /\ Flushing(s) /\ Connecting(s) /\ Emptying(s) /\ Subscribed(s)
            /\ tries[s] \in Nat /\ flushes[s] \in Nat
        BY <1>0, <2>2, SessionAssumption DEF InControl, TypeOK
      <3>2. /\ job[s] = "draining" /\ flushes[s] = 0 /\ buffer'[s] = <<>> /\ job'[s] = "pausing" /\ tries'[s] = 0
        BY <1>0, <1>11 DEF Drained, TypeOK
      <3>3. /\ SameStanding(s) /\ link'[s] = link[s] /\ todo'[s] = todo[s]
            /\ accepted'[s] = accepted[s] /\ timer'[s] = timer[s] /\ flushes'[s] = flushes[s]
            /\ batch'[s] = batch[s] /\ left'[s] = left[s]
        BY <1>0, <1>11 DEF Drained, SameStanding, TypeOK
      <3>4. Flushing(s)' /\ Connecting(s)'
        BY <3>1, <3>2, <3>3, SessionAssumption DEF SameStanding, SameLink, SameFlow,
           Flushing, Connecting, Emptying, Emptied, running
      <3>5. Emptying(s)'
        BY <3>1, <3>2, <3>3, NumbersEmpty DEF SameStanding, SameLink, SameFlow, Flushing,
           Connecting, Subscribed, Emptying, Emptied, running, Written, Waiting
      <3>6. Subscribed(s)'
        BY <3>1, <3>2, <3>3, NumbersEmpty DEF SameStanding, SameLink, SameFlow, Connecting,
           Flushing, Emptying, Emptied, Subscribed, Written, Waiting, running
      <3>7. QED BY <2>2, <3>4, <3>5, <3>6 DEF InControl
    <2>3. QED BY <2>1, <2>2
  <1>12. ASSUME NEW s \in Session, Retry(s) PROVE InControl(t)'
    <2>1. CASE t # s
      <3>1. Same(t)
        BY <1>0, <1>12, <2>1 DEF Retry, Same, SameStanding, SameLink, SameFlow, TypeOK
      <3>2. QED BY <1>0, <3>1, ControlElsewhere
    <2>2. CASE t = s
      <3>1. /\ Flushing(s) /\ Connecting(s) /\ Emptying(s) /\ Subscribed(s)
            /\ tries[s] \in Nat /\ flushes[s] \in Nat
        BY <1>0, <2>2, SessionAssumption DEF InControl, TypeOK
      <3>2. /\ job[s] = "pausing"
            /\ \/ stopped[s] /\ job'[s] = "none" /\ link'[s] = link[s] /\ todo'[s] = todo[s]
               \/ job'[s] = "reopening" /\ link'[s] = "opening"
        BY <1>0, <1>12 DEF Retry, TypeOK
      <3>3. SameStanding(s) /\ accepted'[s] = accepted[s] /\ SameFlow(s)
        BY <1>0, <1>12 DEF Retry, SameStanding, SameFlow, TypeOK
      <3>4. Flushing(s)' /\ Connecting(s)'
        BY <3>1, <3>2, <3>3 DEF SameStanding, SameLink, SameFlow, Flushing, Connecting,
           Emptying, Emptied, running
      <3>5. Emptying(s)'
        BY <3>1, <3>2, <3>3, NumbersEmpty DEF SameStanding, SameLink, SameFlow, Flushing,
           Connecting, Subscribed, Emptying, Emptied, running, Written, Waiting
      <3>6. Subscribed(s)'
        BY <3>1, <3>2, <3>3, NumbersEmpty DEF SameStanding, SameLink, SameFlow, Connecting,
           Flushing, Emptying, Emptied, Subscribed, Written, Waiting, running
      <3>7. QED BY <2>2, <3>4, <3>5, <3>6 DEF InControl
    <2>3. QED BY <2>1, <2>2
  <1>13. ASSUME NEW s \in Session, Down(s) PROVE InControl(t)'
    <2>1. CASE t # s
      <3>1. Same(t)
        BY <1>0, <1>13, <2>1 DEF Down, Same, SameStanding, SameLink, SameFlow, TypeOK
      <3>2. QED BY <1>0, <3>1, ControlElsewhere
    <2>2. CASE t = s
      <3>1. /\ Flushing(s) /\ Connecting(s) /\ Emptying(s) /\ Subscribed(s)
            /\ tries[s] \in Nat /\ flushes[s] \in Nat
        BY <1>0, <2>2, SessionAssumption DEF InControl, TypeOK
      <3>2. /\ link[s] = "live"
            /\ \/ /\ ~ stopped[s] /\ state[s] = "syncing" /\ state'[s] = "connecting"
                  /\ job'[s] = "draining" /\ link'[s] = "none" /\ ~ timer'[s]
               \/ /\ ~ (~ stopped[s] /\ state[s] = "syncing") /\ link'[s] = "dead"
                  /\ state'[s] = state[s] /\ job'[s] = job[s] /\ timer'[s] = timer[s]
        BY <1>0, <1>13 DEF Down, TypeOK
      <3>3. /\ (current' = s => current = s) /\ stopped'[s] = stopped[s]
            /\ stopping'[s] = stopping[s] /\ tries'[s] = tries[s] /\ todo'[s] = todo[s]
            /\ accepted'[s] = accepted[s] /\ buffer'[s] = buffer[s]
            /\ flushes'[s] = flushes[s] /\ batch'[s] = batch[s] /\ left'[s] = left[s]
        BY <1>0, <1>13 DEF Down, TypeOK
      <3>4. Flushing(s)' /\ Connecting(s)'
        BY <3>1, <3>2, <3>3 DEF SameStanding, SameLink, SameFlow, Flushing, Connecting,
           Emptying, Emptied, running
      <3>5. Emptying(s)'
        BY <3>1, <3>2, <3>3 DEF SameStanding, SameLink, SameFlow, Flushing, Connecting,
           Subscribed, Emptying, Emptied, running, Written, Waiting
      <3>6. Subscribed(s)'
        BY <3>1, <3>2, <3>3 DEF SameStanding, SameLink, SameFlow, Connecting, Flushing,
           Emptying, Emptied, Subscribed, Written, Waiting, running
      <3>7. QED BY <2>2, <3>4, <3>5, <3>6 DEF InControl
    <2>3. QED BY <2>1, <2>2
  <1>14. ASSUME NEW s \in Session, NEW c \in Channel, Receive(s, c) PROVE InControl(t)'
    <2>1. CASE t # s
      <3>1. Same(t)
        BY <1>0, <1>14, <2>1 DEF Receive, Same, SameStanding, SameLink, SameFlow, TypeOK
      <3>2. QED BY <1>0, <3>1, ControlElsewhere
    <2>2. CASE t = s
      <3>1. /\ Flushing(s) /\ Connecting(s) /\ Emptying(s) /\ Subscribed(s)
            /\ tries[s] \in Nat /\ flushes[s] \in Nat
        BY <1>0, <2>2, SessionAssumption DEF InControl, TypeOK
      <3>2. /\ link[s] = "live" /\ c \in accepted[s]
            /\ \/ stopped[s] /\ buffer'[s] = buffer[s] /\ timer'[s] = timer[s]
               \/ ~ stopped[s] /\ buffer'[s] = Append(buffer[s], <<c, at'[s][c]>>) /\ timer'[s]
        BY <1>0, <1>14 DEF Receive, TypeOK
      <3>3. /\ SameStanding(s) /\ SameLink(s) /\ flushes'[s] = flushes[s]
            /\ batch'[s] = batch[s] /\ left'[s] = left[s]
        BY <1>0, <1>14 DEF Receive, SameStanding, SameLink, TypeOK
      <3>4. Flushing(s)' /\ Connecting(s)'
        BY <3>1, <3>2, <3>3 DEF SameStanding, SameLink, SameFlow, Flushing, Connecting,
           Emptying, Emptied, running
      <3>5. Emptying(s)'
        BY <3>1, <3>2, <3>3 DEF SameStanding, SameLink, SameFlow, Flushing, Connecting,
           Subscribed, Emptying, Emptied, running, Written, Waiting
      <3>6. Subscribed(s)'
        <4>1. /\ buffer[s] \in Seq(Change) /\ at'[s][c] \in Nat
          <5>1. at \in [Session -> [Channel -> Nat]] /\ at' = [at EXCEPT ![s][c] = @ + 1]
                /\ buffer[s] \in Seq(Change)
            BY <1>0, <1>14 DEF Receive, TypeOK
          <5>2. QED BY <5>1
        <4>2. ASSUME NEW d \in Channel, d # c
              PROVE  NumbersOf(buffer'[s], d) = NumbersOf(buffer[s], d)
          <5>1. NumbersOf(Append(buffer[s], <<c, at'[s][c]>>), d)
                  = NumbersOf(buffer[s], d) \cup (IF d = c THEN {at'[s][c]} ELSE {})
            BY <4>1, NumbersAppend
          <5>2. QED BY <3>2, <4>2, <5>1
        <4>3. c \in accepted[s] /\ c \notin todo[s] /\ accepted[s] # {} /\ todo[s] \subseteq Channel
          BY <1>0, <3>1, <3>2 DEF Subscribed, TypeOK
        <4>4. QED BY <3>1, <3>2, <3>3, <4>2, <4>3 DEF SameStanding, SameLink, SameFlow,
             Subscribed, Written, Waiting
      <3>7. QED BY <2>2, <3>4, <3>5, <3>6 DEF InControl
    <2>3. QED BY <2>1, <2>2
  <1>15. ASSUME NEW s \in Session, TimerFires(s) PROVE InControl(t)'
    <2>1. CASE t # s
      <3>1. Same(t)
        BY <1>0, <1>15, <2>1 DEF TimerFires, Same, SameStanding, SameLink, SameFlow, TypeOK
      <3>2. QED BY <1>0, <3>1, ControlElsewhere
    <2>2. CASE t = s
      <3>1. /\ Flushing(s) /\ Connecting(s) /\ Emptying(s) /\ Subscribed(s)
            /\ tries[s] \in Nat /\ flushes[s] \in Nat
        BY <1>0, <2>2, SessionAssumption DEF InControl, TypeOK
      <3>2. /\ timer[s] /\ ~ timer'[s] /\ flushes'[s] = flushes[s] + 1
        BY <1>0, <1>15 DEF TimerFires, TypeOK
      <3>3. /\ SameStanding(s) /\ SameLink(s) /\ buffer'[s] = buffer[s]
            /\ batch'[s] = batch[s] /\ left'[s] = left[s]
        BY <1>0, <1>15 DEF TimerFires, SameStanding, SameLink, TypeOK
      <3>4. Flushing(s)' /\ Connecting(s)'
        BY <3>1, <3>2, <3>3 DEF SameStanding, SameLink, SameFlow, Flushing, Connecting,
           Emptying, Emptied, running
      <3>5. Emptying(s)'
        BY <3>1, <3>2, <3>3 DEF SameStanding, SameLink, SameFlow, Flushing, Connecting,
           Subscribed, Emptying, Emptied, running, Written, Waiting
      <3>6. Subscribed(s)'
        BY <3>1, <3>2, <3>3 DEF SameStanding, SameLink, SameFlow, Connecting, Flushing,
           Emptying, Emptied, Subscribed, Written, Waiting, running
      <3>7. QED BY <2>2, <3>4, <3>5, <3>6 DEF InControl
    <2>3. QED BY <2>1, <2>2
  <1>16. ASSUME NEW s \in Session, TakeBatch(s) PROVE InControl(t)'
    <2>1. CASE t # s
      <3>1. Same(t)
        BY <1>0, <1>16, <2>1 DEF TakeBatch, Same, SameStanding, SameLink, SameFlow, TypeOK
      <3>2. QED BY <1>0, <3>1, ControlElsewhere
    <2>2. CASE t = s
      <3>1. /\ flushes[s] > 0 /\ buffer[s] # <<>> /\ ~ stopped[s] /\ batch'[s] = FirstOf(buffer[s])
            /\ left'[s] = ChannelsOf(FirstOf(buffer[s])) /\ buffer'[s] = RestOf(buffer[s])
        BY <1>0, <1>16 DEF TakeBatch, TypeOK
      <3>2. /\ SameStanding(s) /\ SameLink(s) /\ timer'[s] = timer[s]
            /\ flushes'[s] = flushes[s]
        BY <1>0, <1>16 DEF TakeBatch, SameStanding, SameLink, TypeOK
      <3>3. \A c : NumbersOf(buffer[s], c)
                  = NumbersOf(FirstOf(buffer[s]), c) \cup NumbersOf(RestOf(buffer[s]), c)
        BY <1>0, <3>1, BatchSplits DEF TypeOK
      <3>4. Flushing(s)' /\ Connecting(s)'
        BY <1>0, <2>2, <3>1, <3>2 DEF SameStanding, SameLink, SameFlow, InControl, Flushing,
           Connecting, running
      <3>5. Emptying(s)'
        BY <1>0, <2>2, <3>1, <3>2 DEF SameStanding, SameLink, SameFlow, InControl, Emptying,
           Emptied, running
      <3>6. Subscribed(s)'
        BY <1>0, <2>2, <3>1, <3>2, <3>3 DEF SameStanding, SameLink, SameFlow, InControl,
           Subscribed, Written, Waiting
      <3>7. QED BY <2>2, <3>4, <3>5, <3>6 DEF InControl
    <2>3. QED BY <2>1, <2>2
  <1>17. ASSUME NEW s \in Session, FlushEnds(s) PROVE InControl(t)'
    <2>1. CASE t # s
      <3>1. Same(t)
        BY <1>0, <1>17, <2>1 DEF FlushEnds, Same, SameStanding, SameLink, SameFlow, TypeOK
      <3>2. QED BY <1>0, <3>1, ControlElsewhere
    <2>2. CASE t = s
      <3>1. /\ Flushing(s) /\ Connecting(s) /\ Emptying(s) /\ Subscribed(s)
            /\ tries[s] \in Nat /\ flushes[s] \in Nat
        BY <1>0, <2>2, SessionAssumption DEF InControl, TypeOK
      <3>2. /\ batch[s] = <<>> /\ flushes[s] > 0 /\ flushes'[s] = flushes[s] - 1
        BY <1>0, <1>17 DEF FlushEnds, TypeOK
      <3>3. /\ SameStanding(s) /\ SameLink(s) /\ buffer'[s] = buffer[s]
            /\ timer'[s] = timer[s] /\ batch'[s] = batch[s] /\ left'[s] = left[s]
        BY <1>0, <1>17 DEF FlushEnds, SameStanding, SameLink, TypeOK
      <3>4. Flushing(s)' /\ Connecting(s)'
        BY <3>1, <3>2, <3>3 DEF SameStanding, SameLink, SameFlow, Flushing, Connecting,
           Emptying, Emptied, running
      <3>5. Emptying(s)'
        BY <3>1, <3>2, <3>3 DEF SameStanding, SameLink, SameFlow, Flushing, Connecting,
           Subscribed, Emptying, Emptied, running, Written, Waiting
      <3>6. Subscribed(s)'
        BY <3>1, <3>2, <3>3 DEF SameStanding, SameLink, SameFlow, Connecting, Flushing,
           Emptying, Emptied, Subscribed, Written, Waiting, running
      <3>7. QED BY <2>2, <3>4, <3>5, <3>6 DEF InControl
    <2>3. QED BY <2>1, <2>2
  <1>18. ASSUME NEW s \in Session, Save(s) PROVE InControl(t)'
    <2>1. CASE t # s
      <3>1. Same(t)
        BY <1>0, <1>18, <2>1 DEF Save, Same, SameStanding, SameLink, SameFlow, TypeOK
      <3>2. QED BY <1>0, <3>1, ControlElsewhere
    <2>2. CASE t = s
      <3>1. /\ Flushing(s) /\ Connecting(s) /\ Emptying(s) /\ Subscribed(s)
            /\ tries[s] \in Nat /\ flushes[s] \in Nat
        BY <1>0, <2>2, SessionAssumption DEF InControl, TypeOK
      <3>2. /\ left[s] = {} /\ batch'[s] = <<>>
        BY <1>0, <1>18 DEF Save, TypeOK
      <3>3. /\ SameStanding(s) /\ SameLink(s) /\ buffer'[s] = buffer[s]
            /\ timer'[s] = timer[s] /\ flushes'[s] = flushes[s] /\ left'[s] = left[s]
        BY <1>0, <1>18 DEF Save, SameStanding, SameLink, TypeOK
      <3>4. Flushing(s)' /\ Connecting(s)'
        BY <3>1, <3>2, <3>3 DEF SameStanding, SameLink, SameFlow, Flushing, Connecting,
           Emptying, Emptied, running
      <3>5. Emptying(s)'
        BY <3>1, <3>2, <3>3, NumbersEmpty DEF SameStanding, SameLink, SameFlow, Flushing,
           Connecting, Subscribed, Emptying, Emptied, running, Written, Waiting
      <3>6. Subscribed(s)'
        BY <3>1, <3>2, <3>3, NumbersEmpty DEF SameStanding, SameLink, SameFlow, Connecting,
           Flushing, Emptying, Emptied, Subscribed, Written, Waiting, running
      <3>7. QED BY <2>2, <3>4, <3>5, <3>6 DEF InControl
    <2>3. QED BY <2>1, <2>2
  <1>19. ASSUME NEW s \in Session, NEW c \in Channel, Apply(s, c) PROVE InControl(t)'
    <2>1. CASE t # s
      <3>1. Same(t)
        BY <1>0, <1>19, <2>1 DEF Apply, Same, SameStanding, SameLink, SameFlow, TypeOK
      <3>2. QED BY <1>0, <3>1, ControlElsewhere
    <2>2. CASE t = s
      <3>1. /\ Flushing(s) /\ Connecting(s) /\ Emptying(s) /\ Subscribed(s)
            /\ tries[s] \in Nat /\ flushes[s] \in Nat
        BY <1>0, <2>2, SessionAssumption DEF InControl, TypeOK
      <3>2. /\ left'[s] = left[s] \ {c}
        BY <1>0, <1>19 DEF Apply, TypeOK
      <3>3. /\ SameStanding(s) /\ SameLink(s) /\ buffer'[s] = buffer[s]
            /\ timer'[s] = timer[s] /\ flushes'[s] = flushes[s] /\ batch'[s] = batch[s]
        BY <1>0, <1>19 DEF Apply, SameStanding, SameLink, TypeOK
      <3>4. Flushing(s)' /\ Connecting(s)'
        BY <3>1, <3>2, <3>3 DEF SameStanding, SameLink, SameFlow, Flushing, Connecting,
           Emptying, Emptied, running
      <3>5. Emptying(s)'
        BY <3>1, <3>2, <3>3 DEF SameStanding, SameLink, SameFlow, Flushing, Connecting,
           Subscribed, Emptying, Emptied, running, Written, Waiting
      <3>6. Subscribed(s)'
        BY <3>1, <3>2, <3>3 DEF SameStanding, SameLink, SameFlow, Connecting, Flushing,
           Emptying, Emptied, Subscribed, Written, Waiting, running
      <3>7. QED BY <2>2, <3>4, <3>5, <3>6 DEF InControl
    <2>3. QED BY <2>1, <2>2
  <1>20. ASSUME NEW s \in Session, Stop(s) PROVE InControl(t)'
    <2>1. CASE t # s
      <3>1. Same(t)
        BY <1>0, <1>20, <2>1, SessionAssumption DEF Stop, Same, SameStanding, SameLink,
           SameFlow, TypeOK
      <3>2. QED BY <1>0, <3>1, ControlElsewhere
    <2>2. CASE t = s
      <3>1. /\ Flushing(s) /\ Connecting(s) /\ Emptying(s) /\ Subscribed(s)
            /\ tries[s] \in Nat /\ flushes[s] \in Nat
        BY <1>0, <2>2, SessionAssumption DEF InControl, TypeOK
      <3>2. /\ current = s /\ current' = NoSession
            /\ stopped'[s] /\ state'[s] = "disconnected" /\ ~ timer'[s] /\ buffer'[s] = <<>>
            /\ stopping'[s] = "draining"
            /\ link'[s] = IF link[s] = "opening" THEN link[s] ELSE "none"
        BY <1>0, <1>20 DEF Stop, TypeOK
      <3>3. /\ job'[s] = job[s] /\ tries'[s] = tries[s] /\ todo'[s] = todo[s]
            /\ accepted'[s] = accepted[s] /\ flushes'[s] = flushes[s] /\ batch'[s] = batch[s]
            /\ left'[s] = left[s]
        BY <1>0, <1>20 DEF Stop, TypeOK
      <3>4. Flushing(s)' /\ Connecting(s)'
        BY <3>1, <3>2, <3>3, SessionAssumption DEF SameStanding, SameLink, SameFlow,
           Flushing, Connecting, Emptying, Emptied, running
      <3>5. Emptying(s)'
        BY <3>1, <3>2, <3>3, NumbersEmpty DEF SameStanding, SameLink, SameFlow, Flushing,
           Connecting, Subscribed, Emptying, Emptied, running, Written, Waiting
      <3>6. Subscribed(s)'
        BY <3>1, <3>2, <3>3, NumbersEmpty DEF SameStanding, SameLink, SameFlow, Connecting,
           Flushing, Emptying, Emptied, Subscribed, Written, Waiting, running
      <3>7. QED BY <2>2, <3>4, <3>5, <3>6 DEF InControl
    <2>3. QED BY <2>1, <2>2
  <1>21. ASSUME NEW s \in Session, StopEnds(s) PROVE InControl(t)'
    <2>1. CASE t # s
      <3>1. Same(t)
        BY <1>0, <1>21, <2>1 DEF StopEnds, Same, SameStanding, SameLink, SameFlow, TypeOK
      <3>2. QED BY <1>0, <3>1, ControlElsewhere
    <2>2. CASE t = s
      <3>1. /\ Flushing(s) /\ Connecting(s) /\ Emptying(s) /\ Subscribed(s)
            /\ tries[s] \in Nat /\ flushes[s] \in Nat
        BY <1>0, <2>2, SessionAssumption DEF InControl, TypeOK
      <3>2. /\ stopping[s] = "draining" /\ flushes[s] = 0 /\ stopping'[s] = "done"
        BY <1>0, <1>21 DEF StopEnds, TypeOK
      <3>3. /\ (current' = s => current = s) /\ state'[s] = state[s]
            /\ stopped'[s] = stopped[s] /\ SameLink(s) /\ SameFlow(s)
        BY <1>0, <1>21 DEF StopEnds, SameLink, SameFlow, TypeOK
      <3>4. Flushing(s)' /\ Connecting(s)'
        BY <3>1, <3>2, <3>3 DEF SameStanding, SameLink, SameFlow, Flushing, Connecting,
           Emptying, Emptied, running
      <3>5. Emptying(s)'
        BY <3>1, <3>2, <3>3 DEF SameStanding, SameLink, SameFlow, Flushing, Connecting,
           Subscribed, Emptying, Emptied, running, Written, Waiting
      <3>6. Subscribed(s)'
        BY <3>1, <3>2, <3>3 DEF SameStanding, SameLink, SameFlow, Connecting, Flushing,
           Emptying, Emptied, Subscribed, Written, Waiting, running
      <3>7. QED BY <2>2, <3>4, <3>5, <3>6 DEF InControl
    <2>3. QED BY <2>1, <2>2
  <1>22. ASSUME NEW s \in Session, NEW e \in held[s], Decide(s, e) PROVE InControl(t)'
    BY <1>0, <1>22, ControlElsewhere DEF Decide, Same, SameStanding, SameLink, SameFlow
  <1>23. ASSUME NEW s \in Session, NEW e \in deciding[s], NEW success \in BOOLEAN,
                Decided(s, e, success) PROVE InControl(t)'
    BY <1>0, <1>23, ControlElsewhere DEF Decided, Same, SameStanding, SameLink, SameFlow
  <1>24. CASE Crash
    <2>1. /\ Flushing(t)' /\ Connecting(t)' /\ Emptying(t)'
      BY <1>0, <1>24, SessionAssumption DEF Crash, Flushing, Connecting, Emptying, Emptied,
         running, InControl, TypeOK
    <2>2. Subscribed(t)'
      BY <1>0, <1>24, NumbersEmpty DEF Crash, Subscribed, Written, Waiting
    <2>3. QED BY <2>1, <2>2 DEF InControl
  <1>25. CASE UNCHANGED vars
    BY <1>0, <1>25, ControlElsewhere DEF vars, Same, SameStanding, SameLink, SameFlow
  <1>26. QED
    BY <1>1, <1>2, <1>3, <1>4, <1>5, <1>6, <1>7, <1>8, <1>9, <1>10, <1>11, <1>12, <1>13,
       <1>14, <1>15, <1>16, <1>17, <1>18, <1>19, <1>20, <1>21, <1>22, <1>23, <1>24, <1>25
       DEF Next, Opening, Flush

-----------------------------------------------------------------------------
(* What a session keeps of a channel.                                      *)

(* What a step adds never takes away: changes made, changes finished with,  *)
(* and where reading resumed after the org let go.                          *)
Onward ==
    /\ \A c \in Channel : made[c] <= made'[c] /\ since[c] <= since'[c]
    /\ done \subseteq done'

(* A step that leaves what a session keeps of a channel as it is. *)
Untouched(t, d) ==
    /\ Written(t, d)' = Written(t, d) /\ Waiting(t, d)' = Waiting(t, d)
    /\ d \in left'[t] <=> d \in left[t]
    /\ Sent(t, d)' => Sent(t, d) /\ at'[t][d] = at[t][d]
    /\ at'[t][d] <= made'[d]

LEMMA NumbersKept ==
    ASSUME IInv, NEW t \in Session, NEW d \in Channel
    PROVE  Written(t, d) \subseteq Nat /\ Waiting(t, d) \subseteq Nat
  BY NumbersNat DEF IInv, TypeOK, Written, Waiting

(* ... keeps its order. *)
LEMMA KeptUntouched ==
    ASSUME IInv, TypeOK', Onward, NEW t \in Session, NEW d \in Channel, Untouched(t, d)
    PROVE  KeptInOrder(t, d)'
  <1>1. InOrderKept(t, d)
    BY DEF IInv, Reading, KeptInOrder
  <1>2. /\ made[d] \in Nat /\ made'[d] \in Nat /\ since[d] \in Nat /\ since'[d] \in Nat
        /\ made[d] <= made'[d] /\ since[d] <= since'[d] /\ at[t][d] \in Nat
        /\ Written(t, d) \subseteq Nat /\ Waiting(t, d) \subseteq Nat
    <2>1. TypeOK
      BY DEF IInv
    <2>2. Written(t, d) \subseteq Nat /\ Waiting(t, d) \subseteq Nat
      BY NumbersKept
    <2>3. made[d] \in Nat /\ since[d] \in Nat /\ at[t][d] \in Nat
      BY <2>1 DEF TypeOK
    <2>4. made'[d] \in Nat /\ since'[d] \in Nat
      BY DEF TypeOK
    <2>5. QED BY <2>2, <2>3, <2>4 DEF Onward
  <1>3. ASSUME NEW n \in Nat, ReadUpTo(t, d, n) PROVE ReadUpTo(t, d, n)'
    BY <1>2, <1>3 DEF ReadUpTo, Onward, Untouched
  <1>4. \A n \in Written(t, d)' \cup Waiting(t, d)' : n <= made'[d] /\ ReadUpTo(t, d, n)'
    BY <1>1, <1>2, <1>3 DEF InOrderKept, Untouched
  <1>5. /\ \A n \in Written(t, d)', m \in Waiting(t, d)' : n < m
        /\ d \notin left'[t] => \A n \in Written(t, d)' : <<d, n>> \in done'
    BY <1>1 DEF InOrderKept, Untouched, Onward
  <1>6. Sent(t, d)' => /\ ReadUpTo(t, d, at[t][d])'
                       /\ \A n \in Written(t, d)' \cup Waiting(t, d)' : n <= at'[t][d]
    BY <1>1, <1>2, <1>3 DEF InOrderKept, Untouched
  <1>7. InOrderKept(t, d)'
    <2>1. Sent(t, d)' => ReadUpTo(t, d, at[t][d])' /\ at'[t][d] = at[t][d]
      BY <1>6 DEF Untouched
    <2>2. QED BY <1>4, <1>5, <1>6, <2>1 DEF InOrderKept, ReadUpTo
  <1>8. QED BY <1>7 DEF KeptInOrder, Untouched

(* A step that reads nothing, writes nothing and stores no resume point. *)
LEMMA ReadingBystander ==
    ASSUME IInv, TypeOK', UNCHANGED <<point, at, buffer, batch, left, done, since>>,
           \A c \in Channel : made[c] <= made'[c] /\ gone'[c] <= made'[c],
           \A t \in Session, d \in Channel : Sent(t, d)' => Sent(t, d)
    PROVE  Reading' /\ NothingSkipped'
  <1>1. Onward
    BY DEF Onward, IInv, TypeOK
  <1>2. ASSUME NEW t \in Session, NEW d \in Channel PROVE Untouched(t, d)
    <2>1. at[t][d] \in Nat /\ made[d] \in Nat /\ made'[d] \in Nat /\ at[t][d] <= made[d]
      BY DEF IInv, TypeOK, Reading, KeptInOrder
    <2>2. at[t][d] <= made'[d]
      BY <2>1
    <2>3. QED BY <2>2 DEF Untouched, Written, Waiting
  <1>3. \A t \in Session, d \in Channel : KeptInOrder(t, d)'
    BY <1>1, <1>2, KeptUntouched
  <1>4. \A c \in Channel : point'[c] <= made'[c]
    <2>1. ASSUME NEW c \in Channel PROVE point[c] <= made'[c]
      <3>1. point[c] \in Int /\ made[c] \in Nat /\ made'[c] \in Nat /\ point[c] <= made[c]
        BY DEF IInv, TypeOK, Reading, NoPoint
      <3>2. QED BY <3>1
    <2>2. QED BY <2>1
  <1>5. NothingSkipped'
    BY DEF IInv, NothingSkipped
  <1>6. QED BY <1>3, <1>4, <1>5 DEF IInv, Reading

(* A session whose buffer is emptied for good: a stop, a reconnection, the  *)
(* end of a host.  The batch it may still write goes on from what is        *)
(* finished with.                                                           *)
LEMMA KeptEmptied ==
    ASSUME IInv, TypeOK', Onward, NEW t \in Session, NEW d \in Channel,
           buffer'[t] = <<>>, ~ Sent(t, d)', at'[t][d] = at[t][d],
           batch'[t] = <<>> \/ (batch'[t] = batch[t] /\ left'[t] = left[t])
    PROVE  KeptInOrder(t, d)'
  <1>1. InOrderKept(t, d) /\ at[t][d] <= made[d]
    BY DEF IInv, Reading, KeptInOrder
  <1>2. /\ made[d] \in Nat /\ made'[d] \in Nat /\ since[d] \in Nat /\ since'[d] \in Nat
        /\ made[d] <= made'[d] /\ since[d] <= since'[d] /\ at[t][d] \in Nat
        /\ Written(t, d) \subseteq Nat /\ Waiting(t, d) \subseteq Nat
    <2>1. TypeOK
      BY DEF IInv
    <2>2. Written(t, d) \subseteq Nat /\ Waiting(t, d) \subseteq Nat
      BY NumbersKept
    <2>3. made[d] \in Nat /\ since[d] \in Nat /\ at[t][d] \in Nat
      BY <2>1 DEF TypeOK
    <2>4. made'[d] \in Nat /\ since'[d] \in Nat
      BY DEF TypeOK
    <2>5. QED BY <2>2, <2>3, <2>4 DEF Onward
  <1>3. Waiting(t, d)' = {} /\ Written(t, d)' \subseteq Written(t, d)
        /\ (Written(t, d)' = {} \/ (Written(t, d)' = Written(t, d) /\ left'[t] = left[t]))
    BY NumbersEmpty DEF Waiting, Written
  <1>4. ASSUME NEW n \in Written(t, d)' PROVE ReadUpTo(t, d, n)'
    <2>1. n \in Written(t, d) /\ Written(t, d)' = Written(t, d) /\ n \in Nat
      BY <1>2, <1>3, <1>4
    <2>2. SUFFICES ASSUME NEW m \in since'[d] + 1 .. n
                   PROVE  <<d, m>> \in done' \/ m \in Written(t, d)'
      BY DEF ReadUpTo
    <2>3. m \in since[d] + 1 .. n
      BY <1>2, <2>1, <2>2
    <2>4. <<d, m>> \in done \/ m \in Written(t, d) \cup Waiting(t, d)
      BY <1>1, <2>1, <2>3 DEF InOrderKept, ReadUpTo
    <2>5. m \notin Waiting(t, d)
      BY <1>1, <1>2, <2>1, <2>2 DEF InOrderKept
    <2>6. QED BY <2>1, <2>4, <2>5 DEF Onward
  <1>5. \A n \in Written(t, d)' : n <= made'[d]
    BY <1>1, <1>2, <1>3 DEF InOrderKept
  <1>6. d \notin left'[t] => \A n \in Written(t, d)' : <<d, n>> \in done'
    BY <1>1, <1>3 DEF InOrderKept, Onward
  <1>7. InOrderKept(t, d)'
    BY <1>3, <1>4, <1>5, <1>6 DEF InOrderKept
  <1>8. at'[t][d] <= made'[d]
    BY <1>1, <1>2
  <1>9. QED BY <1>7, <1>8 DEF KeptInOrder

(* A step that moves no resume point and takes nothing back skips nothing. *)
LEMMA SkipsNothing ==
    ASSUME IInv, TypeOK', Onward, point' = point
    PROVE  NothingSkipped'
  <1>1. SUFFICES ASSUME NEW c \in Channel, NEW n \in since'[c] + 1 .. point'[c]
                 PROVE  <<c, n>> \in done'
    BY DEF NothingSkipped
  <1>2. since[c] \in Nat /\ since'[c] \in Nat /\ since[c] <= since'[c] /\ point[c] \in Int
    BY DEF IInv, TypeOK, Onward, NoPoint
  <1>3. n \in since[c] + 1 .. point[c]
    BY <1>1, <1>2
  <1>4. QED BY <1>3 DEF IInv, NothingSkipped, Onward

(* Where the org delivers a channel from is among the changes it made. *)
LEMMA FromMade ==
    ASSUME IInv, NEW c \in Channel
    PROVE  From(c) \in Nat /\ From(c) <= made[c]
  BY DEF From, IInv, TypeOK, Reading, NoPoint

(* A subscription goes on from what is finished with, or begins anew. *)
LEMMA ReadingAccept ==
    ASSUME IInv, TypeOK', NEW s \in Session, NEW c \in Channel, Accept(s, c)
    PROVE  Reading' /\ NothingSkipped'
  <1> USE DEF org, opening, flow, decisions, history
  <1>1. UNCHANGED <<made, gone, point, buffer, batch, left, done, stopped, link>>
    BY DEF Accept
  <1>2. /\ since[c] \in Nat /\ point[c] \in Int /\ since \in [Channel -> Nat]
        /\ at \in [Session -> [Channel -> Nat]] /\ accepted \in [Session -> SUBSET Channel]
        /\ made \in [Channel -> Nat]
    <2>1. TypeOK
      BY DEF IInv
    <2>2. point[c] \in Int
      BY <2>1 DEF TypeOK, NoPoint
    <2>3. QED BY <2>1, <2>2 DEF TypeOK
  <1>3. Onward
    <2>1. ASSUME NEW d \in Channel PROVE since[d] <= since'[d]
      BY <1>2, FromMade DEF Accept
    <2>2. QED BY <1>1, <1>2, <2>1 DEF Onward
  <1>4. /\ at'[s][c] = From(c) /\ \A t \in Session, d \in Channel :
               t # s \/ d # c => at'[t][d] = at[t][d] /\ (Sent(t, d)' => Sent(t, d))
    BY <1>1, <1>2 DEF Accept, Sent
  <1>5. ASSUME NEW t \in Session, NEW d \in Channel, t # s \/ d # c PROVE KeptInOrder(t, d)'
    <2>1. Untouched(t, d)
      BY <1>1, <1>4, <1>5 DEF Untouched, Written, Waiting, IInv, Reading, KeptInOrder
    <2>2. QED BY <1>3, <2>1, KeptUntouched
  <1>6. KeptInOrder(s, c)'
    <2>1. Written(s, c) = {} /\ Waiting(s, c) = {}
      BY DEF Accept, IInv, Control, Subscribed
    <2>2. Written(s, c)' = {} /\ Waiting(s, c)' = {}
      BY <1>1, <2>1 DEF Written, Waiting
    <2>3. ReadUpTo(s, c, at[s][c])'
      <3>1. SUFFICES ASSUME NEW m \in since'[c] + 1 .. From(c) PROVE <<c, m>> \in done'
        BY <1>4 DEF ReadUpTo
      <3>2. CASE From(c) = point[c]
        <4>1. since' = since
          BY <3>2 DEF Accept
        <4>2. QED BY <1>1, <3>1, <3>2, <4>1 DEF IInv, NothingSkipped
      <3>3. CASE From(c) # point[c]
        <4>1. From(c) <= since'[c]
          BY <1>2, <3>3, FromMade DEF Accept
        <4>2. since'[c] \in Nat /\ From(c) \in Nat
          BY FromMade DEF TypeOK
        <4>3. QED BY <3>1, <4>1, <4>2
      <3>4. QED BY <3>2, <3>3
    <2>4. QED BY <1>1, <1>4, <2>2, <2>3, FromMade DEF KeptInOrder, InOrderKept
  <1>7. NothingSkipped'
    BY <1>1, <1>3, SkipsNothing
  <1>8. QED BY <1>1, <1>5, <1>6, <1>7 DEF Reading, IInv

(* A change received goes on from what the session keeps. *)
LEMMA ReadingReceive ==
    ASSUME IInv, TypeOK', NEW s \in Session, NEW c \in Channel, Receive(s, c)
    PROVE  Reading' /\ NothingSkipped'
  <1> USE DEF org, opening, flow, decisions, history
  <1> DEFINE n == at[s][c] + 1
  <1>1. UNCHANGED <<made, gone, point, batch, left, done, since, stopped, link, accepted>>
    BY DEF Receive
  <1>2. /\ at \in [Session -> [Channel -> Nat]] /\ made \in [Channel -> Nat]
        /\ since \in [Channel -> Nat] /\ buffer \in [Session -> Seq(Change)]
    BY DEF IInv, TypeOK
  <1>3. Onward
    BY <1>1, <1>2 DEF Onward
  <1>4. /\ at' = [at EXCEPT ![s][c] = n] /\ at[s][c] < made[c] /\ n \in Nat /\ n <= made[c]
        /\ at'[s][c] = n
        /\ \A t \in Session, d \in Channel : t # s \/ d # c => at'[t][d] = at[t][d]
    BY <1>2 DEF Receive
  <1>5. \/ stopped[s] /\ buffer' = buffer
        \/ ~ stopped[s] /\ buffer' = [buffer EXCEPT ![s] = Append(@, <<c, n>>)]
    BY <1>4 DEF Receive
  <1>6. \A t \in Session, d \in Channel : Sent(t, d)' <=> Sent(t, d)
    BY <1>1 DEF Sent
  <1> HIDE DEF n
  <1>7. ASSUME NEW t \in Session, NEW d \in Channel, t # s \/ d # c
        PROVE  NumbersOf(buffer'[t], d) = NumbersOf(buffer[t], d)
    <2>1. CASE buffer'[t] = buffer[t]
      BY <2>1
    <2>2. CASE t = s /\ buffer'[s] = Append(buffer[s], <<c, n>>)
      <3>1. NumbersOf(Append(buffer[s], <<c, n>>), d)
              = NumbersOf(buffer[s], d) \cup (IF d = c THEN {n} ELSE {})
        BY <1>2, <1>4, NumbersAppend
      <3>2. QED BY <1>7, <2>2, <3>1
    <2>3. QED BY <1>2, <1>5, <2>1, <2>2
  <1>8. ASSUME NEW t \in Session, NEW d \in Channel, t # s \/ d # c PROVE KeptInOrder(t, d)'
    <2>1. Untouched(t, d)
      BY <1>1, <1>4, <1>6, <1>7, <1>8 DEF Untouched, Written, Waiting, IInv, Reading,
           KeptInOrder
    <2>2. QED BY <1>3, <2>1, KeptUntouched
  <1>9. CASE stopped[s]
    <2>1. Untouched(s, c)
      BY <1>1, <1>4, <1>5, <1>9 DEF Untouched, Written, Waiting, Sent
    <2>2. KeptInOrder(s, c)'
      BY <1>3, <2>1, KeptUntouched
    <2>3. buffer' = buffer
      BY <1>5, <1>9
    <2>4. QED BY <1>1, <1>3, <1>8, <2>2, <2>3, SkipsNothing DEF Reading, IInv
  <1>10. CASE ~ stopped[s]
    <2>1. Sent(s, c) /\ InOrderKept(s, c)
      BY <1>10 DEF Sent, Receive, IInv, Reading, KeptInOrder
    <2>2. Written(s, c) \subseteq Nat /\ Waiting(s, c) \subseteq Nat /\ since[c] \in Nat
          /\ at[s][c] \in Nat /\ buffer[s] \in Seq(Change)
      BY <1>2, NumbersKept
    <2>3. \A m \in Written(s, c) \cup Waiting(s, c) : m < n
      <3>1. \A m \in Written(s, c) \cup Waiting(s, c) : m <= at[s][c]
        BY <2>1 DEF InOrderKept
      <3>2. QED BY <2>2, <3>1 DEF n
    <2>4. buffer'[s] = Append(buffer[s], <<c, n>>)
          /\ \A t \in Session : t # s => buffer'[t] = buffer[t]
      BY <1>2, <1>5, <1>10
    <2>5. Waiting(s, c)' = Waiting(s, c) \cup {n} /\ Written(s, c)' = Written(s, c)
      <3>1. NumbersOf(Append(buffer[s], <<c, n>>), c)
              = NumbersOf(buffer[s], c) \cup (IF c = c THEN {n} ELSE {})
        BY <1>4, <2>2, NumbersAppend
      <3>2. QED BY <1>1, <2>4, <3>1 DEF Waiting, Written
    <2>6. ASSUME NEW m \in Nat, m <= n PROVE ReadUpTo(s, c, m)'
      <3>1. SUFFICES ASSUME NEW i \in since[c] + 1 .. m
                     PROVE  <<c, i>> \in done \/ i \in Written(s, c) \cup Waiting(s, c) \cup {n}
        BY <1>1, <2>5 DEF ReadUpTo
      <3>2. i = n \/ i \in since[c] + 1 .. at[s][c]
        BY <1>4, <2>2, <2>6, <3>1 DEF n
      <3>3. QED BY <2>1, <3>2 DEF InOrderKept, ReadUpTo
    <2>7. InOrderKept(s, c)'
      <3>1. \A i \in Written(s, c)', m \in Waiting(s, c)' : i < m
        BY <2>1, <2>3, <2>5 DEF InOrderKept
      <3>2. \A i \in Written(s, c)' \cup Waiting(s, c)' : i <= n /\ i \in Nat
        BY <1>4, <2>2, <2>3, <2>5
      <3>3. \A i \in Written(s, c)' \cup Waiting(s, c)' : i <= made'[c]
        BY <1>1, <1>2, <1>4, <3>2
      <3>4. c \notin left'[s] => \A i \in Written(s, c)' : <<c, i>> \in done'
        BY <1>1, <2>1, <2>5 DEF InOrderKept
      <3>5. \A i \in Written(s, c)' \cup Waiting(s, c)' : ReadUpTo(s, c, i)'
        BY <2>6, <3>2
      <3>6. ReadUpTo(s, c, at[s][c])'
        BY <1>4, <2>6 DEF ReadUpTo
      <3>7. QED BY <1>4, <3>1, <3>2, <3>3, <3>4, <3>5, <3>6 DEF InOrderKept
    <2>8. KeptInOrder(s, c)'
      BY <1>1, <1>4, <2>7 DEF KeptInOrder
    <2>9. Ordered(buffer'[s])
      BY <1>4, <2>2, <2>3, <2>4, OrderedAppend DEF Waiting, IInv, Reading
    <2>10. QED BY <1>1, <1>3, <1>8, <2>4, <2>8, <2>9, SkipsNothing DEF Reading, IInv
  <1>11. QED BY <1>9, <1>10

(* Taking a batch splits what waits, in order. *)
LEMMA ReadingTakeBatch ==
    ASSUME IInv, TypeOK', NEW s \in Session, TakeBatch(s)
    PROVE  Reading' /\ NothingSkipped'
  <1> USE DEF org, opening, flow, decisions, history
  <1>1. UNCHANGED <<made, gone, point, at, done, since, stopped, link, accepted>>
    BY DEF TakeBatch
  <1>2. /\ at \in [Session -> [Channel -> Nat]] /\ made \in [Channel -> Nat]
        /\ since \in [Channel -> Nat] /\ buffer \in [Session -> Seq(Change)]
        /\ batch \in [Session -> Seq(Change)] /\ left \in [Session -> SUBSET Channel]
    BY DEF IInv, TypeOK
  <1>3. Onward
    BY <1>1, <1>2 DEF Onward
  <1>4. /\ batch[s] = <<>> /\ batch'[s] = FirstOf(buffer[s]) /\ buffer'[s] = RestOf(buffer[s])
        /\ buffer[s] # <<>> /\ left'[s] = ChannelsOf(FirstOf(buffer[s]))
        /\ \A t \in Session : t # s => /\ batch'[t] = batch[t] /\ buffer'[t] = buffer[t]
                                       /\ left'[t] = left[t]
    BY <1>2 DEF TakeBatch
  <1>5. \A t \in Session, d \in Channel : Sent(t, d)' <=> Sent(t, d)
    BY <1>1 DEF Sent
  <1>6. ASSUME NEW t \in Session, NEW d \in Channel, t # s PROVE KeptInOrder(t, d)'
    <2>1. Untouched(t, d)
      BY <1>1, <1>4, <1>5, <1>6 DEF Untouched, Written, Waiting, IInv, Reading, KeptInOrder
    <2>2. QED BY <1>3, <2>1, KeptUntouched
  <1>7. ASSUME NEW d \in Channel PROVE KeptInOrder(s, d)'
    <2>1. InOrderKept(s, d) /\ Ordered(buffer[s]) /\ buffer[s] \in Seq(Change)
      BY <1>2 DEF IInv, Reading, KeptInOrder
    <2>2. /\ Written(s, d) = {} /\ Waiting(s, d) = Written(s, d)' \cup Waiting(s, d)'
          /\ \A n \in Written(s, d)', m \in Waiting(s, d)' : n < m
          /\ FirstOf(buffer[s]) \in Seq(Change)
      BY <1>4, <2>1, BatchSplits, NumbersEmpty DEF Written, Waiting
    <2>3. d \notin left'[s] => Written(s, d)' = {}
      BY <1>4, <2>2, ChannelsHaveNumbers DEF Written
    <2>4. \A n : ReadUpTo(s, d, n)' <=> ReadUpTo(s, d, n)
      BY <1>1, <2>2 DEF ReadUpTo
    <2>5. ReadUpTo(s, d, at[s][d])' <=> ReadUpTo(s, d, at[s][d])
      BY <1>1, <2>4
    <2>6. InOrderKept(s, d)'
      BY <1>1, <1>5, <2>1, <2>2, <2>3, <2>4, <2>5 DEF InOrderKept
    <2>7. QED BY <1>1, <2>6 DEF KeptInOrder, IInv, Reading
  <1>8. Ordered(buffer'[s])
    BY <1>2, <1>4, BatchSplits DEF IInv, Reading
  <1>9. QED BY <1>1, <1>3, <1>4, <1>6, <1>7, <1>8, SkipsNothing DEF Reading, IInv

(* Writing the changes of a channel finishes with them. *)
LEMMA ReadingApply ==
    ASSUME IInv, TypeOK', NEW s \in Session, NEW c \in Channel, Apply(s, c)
    PROVE  Reading' /\ NothingSkipped'
  <1> USE DEF org, opening, flow, decisions, history
  <1>1. UNCHANGED <<made, gone, point, at, buffer, batch, since, stopped, link, accepted>>
    BY DEF Apply
  <1>2. /\ made \in [Channel -> Nat] /\ since \in [Channel -> Nat]
        /\ left \in [Session -> SUBSET Channel]
    BY DEF IInv, TypeOK
  <1>3. Onward
    BY <1>1, <1>2 DEF Onward, Apply
  <1>4. \A t \in Session, d \in Channel :
          /\ Sent(t, d)' <=> Sent(t, d)
          /\ Written(t, d)' = Written(t, d) /\ Waiting(t, d)' = Waiting(t, d)
          /\ t # s \/ d # c => (d \in left'[t] <=> d \in left[t])
    BY <1>1, <1>2 DEF Sent, Written, Waiting, Apply
  <1>5. ASSUME NEW t \in Session, NEW d \in Channel, t # s \/ d # c PROVE KeptInOrder(t, d)'
    <2>1. Untouched(t, d)
      BY <1>1, <1>4, <1>5 DEF Untouched, IInv, Reading, KeptInOrder
    <2>2. QED BY <1>3, <2>1, KeptUntouched
  <1>6. KeptInOrder(s, c)'
    <2>1. InOrderKept(s, c)
      BY DEF IInv, Reading, KeptInOrder
    <2>2. \A n : ReadUpTo(s, c, n) => ReadUpTo(s, c, n)'
      BY <1>1, <1>3, <1>4 DEF ReadUpTo, Onward
    <2>3. ReadUpTo(s, c, at[s][c]) => ReadUpTo(s, c, at[s][c])'
      BY <1>1, <2>2
    <2>4. \A n \in Written(s, c)' : <<c, n>> \in done'
      BY <1>4 DEF Apply, Written
    <2>5. InOrderKept(s, c)'
      BY <1>1, <1>4, <2>1, <2>2, <2>3, <2>4 DEF InOrderKept
    <2>6. QED BY <1>1, <2>5 DEF KeptInOrder, IInv, Reading
  <1>7. QED BY <1>1, <1>3, <1>5, <1>6, SkipsNothing DEF Reading, IInv

(* A resume point is stored once everything up to it is finished with. *)
LEMMA ReadingSave ==
    ASSUME IInv, TypeOK', NEW s \in Session, Save(s)
    PROVE  Reading' /\ NothingSkipped'
  <1> USE DEF org, opening, flow, decisions, history
  <1>1. UNCHANGED <<made, gone, at, buffer, left, done, since, stopped, link, accepted>>
    BY DEF Save
  <1>2. /\ made \in [Channel -> Nat] /\ since \in [Channel -> Nat]
        /\ batch \in [Session -> Seq(Change)] /\ left[s] = {} /\ batch'[s] = <<>>
        /\ \A t \in Session : t # s => batch'[t] = batch[t]
    BY DEF IInv, TypeOK, Save
  <1>3. Onward
    BY <1>1, <1>2 DEF Onward
  <1>4. \A t \in Session, d \in Channel : Sent(t, d)' <=> Sent(t, d)
    BY <1>1 DEF Sent
  <1>5. ASSUME NEW t \in Session, NEW d \in Channel, t # s PROVE KeptInOrder(t, d)'
    <2>1. Untouched(t, d)
      BY <1>1, <1>2, <1>4, <1>5 DEF Untouched, Written, Waiting, IInv, Reading, KeptInOrder
    <2>2. QED BY <1>3, <2>1, KeptUntouched
  <1>6. ASSUME NEW d \in Channel
        PROVE  InOrderKept(s, d) /\ \A n \in Written(s, d) : <<d, n>> \in done
    BY <1>2 DEF IInv, Reading, KeptInOrder, InOrderKept
  <1>7. ASSUME NEW d \in Channel PROVE KeptInOrder(s, d)'
    <2>1. Written(s, d)' = {} /\ Waiting(s, d)' = Waiting(s, d)
      BY <1>1, <1>2, NumbersEmpty DEF Written, Waiting
    <2>2. \A n : ReadUpTo(s, d, n) => ReadUpTo(s, d, n)'
      BY <1>1, <1>6, <2>1 DEF ReadUpTo
    <2>3. ReadUpTo(s, d, at[s][d]) => ReadUpTo(s, d, at[s][d])'
      BY <1>1, <2>2
    <2>4. InOrderKept(s, d)'
      BY <1>1, <1>4, <1>6, <2>1, <2>2, <2>3 DEF InOrderKept
    <2>5. QED BY <1>1, <2>4 DEF KeptInOrder, IInv, Reading
  <1>8. ASSUME NEW d \in Channel
        PROVE  point'[d] <= made'[d] /\ \A n \in since'[d] + 1 .. point'[d] : <<d, n>> \in done'
    <2>1. CASE d \notin ChannelsOf(batch[s])
      <3>1. point'[d] = point[d]
        BY <2>1 DEF Save
      <3>2. QED BY <1>1, <3>1 DEF IInv, Reading, NothingSkipped
    <2>2. CASE d \in ChannelsOf(batch[s])
      <3> DEFINE l == Last(Written(s, d))
      <3>1. point'[d] = l
        BY <2>2 DEF Save, Written
      <3>2. Written(s, d) # {}
        BY <1>2, <2>2, ChannelsHaveNumbers DEF Written
      <3>3. l \in Written(s, d) /\ l \in Nat /\ l <= made[d]
        BY <3>2, LastWritten
      <3> HIDE DEF l
      <3>4. ASSUME NEW n \in since[d] + 1 .. l PROVE <<d, n>> \in done
        <4>1. <<d, n>> \in done \/ n \in Written(s, d) \cup Waiting(s, d)
          BY <1>6, <3>3, <3>4 DEF InOrderKept, ReadUpTo
        <4>2. n \notin Waiting(s, d)
          <5>1. n <= l /\ n \in Int /\ l \in Int
            BY <1>2, <3>3, <3>4
          <5>2. \A m \in Waiting(s, d) : l < m
            BY <1>6, <3>3 DEF InOrderKept
          <5>3. QED BY <5>1, <5>2
        <4>3. QED BY <1>6, <4>1, <4>2
      <3>5. QED BY <1>1, <3>1, <3>3, <3>4
    <2>3. QED BY <2>1, <2>2
  <1>9. QED BY <1>1, <1>5, <1>7, <1>8 DEF Reading, IInv, NothingSkipped

(* Steps that empty a buffer for good: a reconnection, a stop, the end of   *)
(* the host.                                                                *)
LEMMA ReadingEmptied ==
    ASSUME IInv, TypeOK',
           (\E s \in Session : Drained(s) \/ Stop(s)) \/ Crash
    PROVE  Reading' /\ NothingSkipped'
  <1> USE DEF org, opening, flow, decisions, history
  <1>1. UNCHANGED <<made, gone, point, at, done, since>>
    BY DEF Drained, Stop, Crash
  <1>2. Onward
    <2>1. TypeOK
      BY DEF IInv
    <2>2. \A c \in Channel : made[c] \in Nat /\ since[c] \in Nat
      BY <2>1 DEF TypeOK
    <2>3. QED BY <1>1, <2>2 DEF Onward
  <1>3. ASSUME NEW t \in Session, NEW d \in Channel
        PROVE  KeptInOrder(t, d)' /\ Ordered(buffer'[t])
    <2>1. TypeOK /\ InControl(t)
      BY DEF IInv, Control, InControl
    <2>2. CASE Crash
      <3>1. buffer'[t] = <<>> /\ batch'[t] = <<>> /\ ~ Sent(t, d)'
        BY <2>2 DEF Crash, Sent
      <3>2. KeptInOrder(t, d)'
        BY <1>1, <1>2, <3>1, KeptEmptied
      <3>3. QED BY <3>1, <3>2 DEF Ordered
    <2>3. ASSUME NEW s \in Session, Drained(s) \/ Stop(s)
          PROVE  KeptInOrder(t, d)' /\ Ordered(buffer'[t])
      <3>1. CASE t # s
        <4>1. /\ buffer'[t] = buffer[t] /\ batch'[t] = batch[t] /\ left'[t] = left[t]
              /\ Sent(t, d)' => Sent(t, d)
          BY <2>1, <2>3, <3>1 DEF Drained, Stop, Sent, TypeOK
        <4>2. Untouched(t, d)
          BY <1>1, <4>1 DEF Untouched, Written, Waiting, IInv, Reading, KeptInOrder
        <4>3. QED BY <1>2, <4>1, <4>2, KeptUntouched DEF IInv, Reading
      <3>2. CASE t = s
        <4>1. /\ buffer'[t] = <<>> /\ batch'[t] = batch[t] /\ left'[t] = left[t]
              /\ ~ Sent(t, d)'
          BY <2>1, <2>3, <3>2 DEF Drained, Stop, Sent, TypeOK, InControl, Connecting
        <4>2. KeptInOrder(t, d)'
          BY <1>1, <1>2, <4>1, KeptEmptied
        <4>3. QED BY <4>1, <4>2 DEF Ordered
      <3>3. QED BY <3>1, <3>2
    <2>4. QED BY <2>2, <2>3
  <1>4. NothingSkipped'
    BY <1>1, <1>2, SkipsNothing
  <1>5. ASSUME NEW t \in Session PROVE Ordered(buffer'[t])
    <2>1. TypeOK
      BY DEF IInv
    <2>2. CASE Crash
      BY <2>2 DEF Crash, Ordered
    <2>3. ASSUME NEW s \in Session, Drained(s) \/ Stop(s) PROVE Ordered(buffer'[t])
      <3>1. buffer'[t] \in {<<>>, buffer[t]}
        BY <2>1, <2>3 DEF Drained, Stop, TypeOK
      <3>2. QED BY <3>1 DEF Ordered, IInv, Reading
    <2>4. QED BY <2>2, <2>3
  <1>6. QED BY <1>1, <1>3, <1>4, <1>5 DEF IInv, Reading

(* No step but a subscription has a session sent the changes of a channel.  *)
LEMMA SentNoMore ==
    ASSUME TypeOK, NEW s \in Session,
           \/ StartWatching(s) \/ AskGuard(s) \/ GuardAllows(s) \/ GuardRefuses(s)
           \/ TransportOpens(s) \/ TransportFails(s) \/ Started(s) \/ Reopened(s)
           \/ Retry(s) \/ Down(s) \/ TimerFires(s) \/ FlushEnds(s) \/ StopEnds(s)
           \/ Drained(s) \/ Stop(s),
           NEW t \in Session, NEW d \in Channel, Sent(t, d)'
    PROVE  Sent(t, d)
  <1> USE DEF org, opening, flow, decisions, history, Sent, TypeOK
  <1>1. CASE StartWatching(s) \/ GuardAllows(s)
    BY <1>1 DEF StartWatching, GuardAllows, Begin
  <1>2. CASE TransportOpens(s) \/ TransportFails(s)
    BY <1>2 DEF TransportOpens, TransportFails
  <1>3. CASE Started(s) \/ Reopened(s)
    BY <1>3 DEF Started, Reopened
  <1>4. CASE Retry(s) \/ Down(s)
    BY <1>4 DEF Retry, Down
  <1>5. CASE AskGuard(s) \/ GuardRefuses(s) \/ TimerFires(s) \/ FlushEnds(s) \/ StopEnds(s)
             \/ Drained(s)
    BY <1>5 DEF AskGuard, GuardRefuses, TimerFires, FlushEnds, StopEnds, Drained
  <1>6. CASE Stop(s)
    BY <1>6 DEF Stop
  <1>7. QED BY <1>1, <1>2, <1>3, <1>4, <1>5, <1>6

(* Every step keeps what sessions keep in order, and skips nothing. *)
LEMMA NextReading ==
    IInv /\ TypeOK' /\ [Next]_vars => Reading' /\ NothingSkipped'
  <1> SUFFICES ASSUME IInv, TypeOK', [Next]_vars PROVE Reading' /\ NothingSkipped'
    OBVIOUS
  <1> USE DEF org, opening, flow, decisions, history
  <1>0. TypeOK /\ \A c \in Channel : gone[c] <= made[c] /\ gone[c] \in Nat /\ made[c] \in Nat
    BY DEF IInv, Reading, TypeOK
  <1>1. ASSUME NEW c \in Channel, Make(c) \/ LetGo(c) PROVE Reading' /\ NothingSkipped'
    <2>1. \A d \in Channel : made[d] <= made'[d] /\ gone'[d] <= made'[d]
      <3>1. made \in [Channel -> Nat] /\ gone \in [Channel -> Nat]
        BY <1>0 DEF TypeOK
      <3>2. CASE Make(c)
        BY <1>0, <3>1, <3>2 DEF Make
      <3>3. CASE LetGo(c)
        BY <1>0, <3>1, <3>3 DEF LetGo
      <3>4. QED BY <1>1, <3>2, <3>3
    <2>2. UNCHANGED <<link, accepted, stopped, point, at, buffer, batch, left, done, since>>
      BY <1>1 DEF Make, LetGo
    <2>3. QED BY <2>1, <2>2, ReadingBystander DEF Sent
  <1>2. ASSUME NEW s \in Session,
               \/ StartWatching(s) \/ AskGuard(s) \/ GuardAllows(s) \/ GuardRefuses(s)
               \/ TransportOpens(s) \/ TransportFails(s) \/ Started(s) \/ Reopened(s)
               \/ Retry(s) \/ Down(s) \/ TimerFires(s) \/ FlushEnds(s) \/ StopEnds(s)
        PROVE  Reading' /\ NothingSkipped'
    <2>1. UNCHANGED <<made, gone, point, at, buffer, batch, left, done, since, stopped>> \/ StopEnds(s)
      BY <1>2 DEF StartWatching, AskGuard, GuardAllows, GuardRefuses, Begin, TransportOpens,
         TransportFails, Started, Reopened, Retry, Down, TimerFires, FlushEnds, StopEnds
    <2>2. UNCHANGED <<made, gone, point, at, buffer, batch, left, done, since, stopped>>
      BY <2>1 DEF StopEnds
    <2>4. \A t \in Session, d \in Channel : Sent(t, d)' => Sent(t, d)
      BY <1>0, <1>2, SentNoMore
    <2>5. \A d \in Channel : made[d] <= made'[d] /\ gone'[d] <= made'[d]
      BY <1>0, <2>2
    <2>6. QED BY <2>2, <2>4, <2>5, ReadingBystander
  <1>3. ASSUME NEW s \in Session, NEW c \in Channel, Refuse(s, c)
        PROVE  Reading' /\ NothingSkipped'
    BY <1>0, <1>3, ReadingBystander DEF Refuse, Sent
  <1>4. ASSUME NEW s \in Session, NEW e \in held[s], Decide(s, e)
        PROVE  Reading' /\ NothingSkipped'
    BY <1>0, <1>4, ReadingBystander DEF Decide, Sent
  <1>5. ASSUME NEW s \in Session, NEW e \in deciding[s], NEW success \in BOOLEAN,
               Decided(s, e, success)
        PROVE  Reading' /\ NothingSkipped'
    BY <1>0, <1>5, ReadingBystander DEF Decided, Sent
  <1>6. CASE UNCHANGED vars
    BY <1>0, <1>6, ReadingBystander DEF vars, Sent
  <1> HIDE DEF org, opening, flow, decisions, history
  <1>7. QED
    BY <1>1, <1>2, <1>3, <1>4, <1>5, <1>6, ReadingAccept, ReadingReceive, ReadingTakeBatch,
       ReadingApply, ReadingSave, ReadingEmptied DEF Next, Opening, Flush

-----------------------------------------------------------------------------
(* The invariants.                                                         *)

LEMMA InitIInv == Init => IInv
  <1> SUFFICES ASSUME Init PROVE IInv
    OBVIOUS
  <1> USE DEF Init
  <1>1. TypeOK
    <2>1. 0 \in 0..Retries
      BY SessionAssumption
    <2>2. <<>> \in Seq(Change)
      OBVIOUS
    <2>3. /\ made \in [Channel -> Nat] /\ gone \in [Channel -> Nat]
          /\ point \in [Channel -> Nat \cup {NoPoint}]
          /\ newest \in [Channel -> Nat] /\ since \in [Channel -> Nat]
          /\ at \in [Session -> [Channel -> Nat]]
      OBVIOUS
    <2>4. /\ tries \in [Session -> 0..Retries] /\ flushes \in [Session -> Nat]
          /\ buffer \in [Session -> Seq(Change)] /\ batch \in [Session -> Seq(Change)]
      BY <2>1, <2>2
    <2>5. \A f \in {todo, accepted, watched, left} : f \in [Session -> SUBSET Channel]
      OBVIOUS
    <2>6. /\ held \in [Session -> SUBSET Change] /\ deciding \in [Session -> SUBSET Change]
          /\ decided \in [Session -> SUBSET Change] /\ dropped \in [Session -> SUBSET Change]
      OBVIOUS
    <2>7. /\ state \in [Session -> {"new", "connecting", "syncing", "error", "disconnected"}]
          /\ stopped \in [Session -> BOOLEAN] /\ timer \in [Session -> BOOLEAN]
          /\ job \in [Session -> {"none", "guard", "starting", "draining", "pausing", "reopening"}]
          /\ link \in [Session -> {"none", "opening", "live", "dead"}]
          /\ stopping \in [Session -> {"no", "draining", "done"}]
      OBVIOUS
    <2>8. current \in Session \cup {NoSession} /\ done \subseteq Change /\ disturbed \in BOOLEAN
      OBVIOUS
    <2> HIDE DEF Init
    <2>9. QED BY <2>3, <2>4, <2>5, <2>6, <2>7, <2>8 DEF TypeOK
  <1>2. Control
    BY SessionAssumption, NumbersEmpty DEF Control, Flushing, Connecting, Emptying, Emptied,
         Subscribed, Written,
       Waiting, running
  <1>3. Reading
    BY NumbersEmpty DEF Reading, KeptInOrder, InOrderKept, ReadUpTo, Sent, Ordered, Written,
       Waiting, NoPoint
  <1>4. NothingSkipped
    BY DEF NothingSkipped, NoPoint
  <1>5. QED BY <1>1, <1>2, <1>3, <1>4 DEF IInv

LEMMA NextIInv == IInv /\ [Next]_vars => IInv'
  BY NextTypeOK, NextControl, NextReading DEF IInv

LEMMA Invariance == Spec => []IInv
  BY InitIInv, NextIInv, PTL DEF Spec

(* The state of every session has its types; reconnect() has a delay for    *)
(* every attempt.                                                           *)
THEOREM RealtimeTypes == Spec => []TypeOK
  <1>1. IInv => TypeOK
    BY DEF IInv
  <1>2. QED BY <1>1, Invariance, PTL

(* No change is left out between where reading of a channel began and the   *)
(* resume point stored for it.                                              *)
THEOREM ResumesRightAfter == Spec => []NothingSkipped
  <1>1. IInv => NothingSkipped
    BY DEF IInv
  <1>2. QED BY <1>1, Invariance, PTL

(* Once stop() has returned, the session writes no more. *)
THEOREM StopIsFinal == Spec => []StoppedWritesNoMore
  <1>1. IInv => StoppedWritesNoMore
    BY DEF IInv, Control, Flushing, Emptying, Emptied, StoppedWritesNoMore
  <1>2. QED BY <1>1, Invariance, PTL

-----------------------------------------------------------------------------
(* Changes are written in order, and once.                                 *)

(* No step but the beginning of a session brings a quiet session something  *)
(* to write.                                                                *)
LEMMA StaysQuiet ==
    ASSUME IInv, Next, ~ disturbed', NEW t \in Session, Quiet(t),
           ~ (StartWatching(t) \/ GuardAllows(t))
    PROVE  Quiet(t)'
  <1> USE DEF org, opening, flow, decisions, history, Quiet, Emptied
  <1>0. TypeOK /\ Connecting(t)
    BY DEF IInv, Control
  <1>1. ASSUME NEW c \in Channel, Make(c) \/ LetGo(c) PROVE Quiet(t)'
    BY <1>1 DEF Make, LetGo
  <1>2. ASSUME NEW s \in Session, StartWatching(s) \/ GuardAllows(s) PROVE Quiet(t)'
    BY <1>0, <1>2 DEF StartWatching, GuardAllows, Begin, TypeOK
  <1>3. ASSUME NEW s \in Session, AskGuard(s) \/ GuardRefuses(s) PROVE Quiet(t)'
    BY <1>0, <1>3 DEF AskGuard, GuardRefuses, TypeOK
  <1>4. ASSUME NEW s \in Session, TransportOpens(s) PROVE Quiet(t)'
    BY <1>0, <1>4 DEF TransportOpens, TypeOK
  <1>5. ASSUME NEW s \in Session, TransportFails(s) PROVE Quiet(t)'
    <2>1. CASE t # s
      BY <1>0, <1>5, <2>1 DEF TransportFails, NextTry, TypeOK
    <2>2. CASE t = s
      BY <1>0, <1>5, <2>2 DEF TransportFails, TypeOK
    <2>3. QED BY <2>1, <2>2
  <1>6. ASSUME NEW s \in Session, NEW c \in Channel, Accept(s, c) \/ Refuse(s, c)
        PROVE  Quiet(t)'
    BY <1>6 DEF Accept, Refuse
  <1>7. ASSUME NEW s \in Session, Started(s) PROVE Quiet(t)'
    BY <1>0, <1>7 DEF Started, TypeOK
  <1>8. ASSUME NEW s \in Session, Reopened(s) PROVE Quiet(t)'
    <2>1. CASE t # s
      BY <1>0, <1>8, <2>1 DEF Reopened, NextTry, TypeOK
    <2>2. CASE t = s
      BY <1>0, <1>8, <2>2 DEF Reopened, TypeOK
    <2>3. QED BY <2>1, <2>2
  <1>9. ASSUME NEW s \in Session, Drained(s) \/ Retry(s) PROVE Quiet(t)'
    BY <1>0, <1>9 DEF Drained, Retry, TypeOK
  <1>10. ASSUME NEW s \in Session, Down(s) PROVE Quiet(t)'
    BY <1>0, <1>10 DEF Down, TypeOK
  <1>11. ASSUME NEW s \in Session, NEW c \in Channel, Receive(s, c) PROVE Quiet(t)'
    BY <1>0, <1>11 DEF Receive, TypeOK
  <1>12. ASSUME NEW s \in Session, TimerFires(s) \/ TakeBatch(s) \/ FlushEnds(s) \/ Save(s)
         PROVE  Quiet(t)'
    BY <1>0, <1>12 DEF TimerFires, TakeBatch, FlushEnds, Save, TypeOK
  <1>13. ASSUME NEW s \in Session, NEW c \in Channel, Apply(s, c) PROVE Quiet(t)'
    BY <1>13 DEF Apply
  <1>14. ASSUME NEW s \in Session, Stop(s) \/ StopEnds(s) PROVE Quiet(t)'
    BY <1>0, <1>14 DEF Stop, StopEnds, TypeOK
  <1>15. ASSUME NEW s \in Session, NEW e \in held[s], Decide(s, e) PROVE Quiet(t)'
    BY <1>15 DEF Decide
  <1>16. ASSUME NEW s \in Session, NEW e \in deciding[s], NEW success \in BOOLEAN,
                Decided(s, e, success) PROVE Quiet(t)'
    BY <1>16 DEF Decided
  <1>17. ~ Crash
    BY DEF Crash
  <1> HIDE DEF org, opening, flow, decisions, history, Quiet, Emptied
  <1>18. QED BY <1>1, <1>2, <1>3, <1>4, <1>5, <1>6, <1>7, <1>8, <1>9, <1>10, <1>11, <1>12,
     <1>13, <1>14, <1>15, <1>16, <1>17 DEF Next, Opening, Flush

(* A session begins beside quiet ones only, or the order is disturbed. *)
LEMMA BeginsAlone ==
    ASSUME IInv, NEW s \in Session, Begin(s), ~ disturbed', NEW t \in Session, t # s
    PROVE  Quiet(t)
  <1>1. ~ Disturbs(s)
    BY DEF Begin
  <1>2. ~ (flushes[t] > 0) /\ ~ running(t) /\ flushes[t] \in Nat
    BY <1>1 DEF Disturbs, IInv, TypeOK
  <1>3. Emptying(t) /\ Connecting(t)
    BY DEF IInv, Control
  <1>4. QED BY <1>2, <1>3 DEF Emptying, Connecting, Quiet

(* Of two sessions one stays quiet. *)
LEMMA OneWrites ==
    ASSUME IInv, OrderInv, Next, ~ disturbed, ~ disturbed',
           NEW s \in Session, NEW t \in Session, s # t
    PROVE  Quiet(s)' \/ Quiet(t)'
  <1>1. Quiet(s) \/ Quiet(t)
    BY DEF OrderInv, Undisturbed
  <1>2. ASSUME NEW u \in Session, NEW v \in Session, u # v, StartWatching(v) \/ GuardAllows(v)
        PROVE  Quiet(u)'
    <2>1. Begin(v)
      BY <1>2 DEF StartWatching, GuardAllows
    <2>2. Quiet(u)
      BY <1>2, <2>1, BeginsAlone
    <2>3. ~ (StartWatching(u) \/ GuardAllows(u))
      BY <1>2, <2>1 DEF StartWatching, GuardAllows, Begin
    <2>4. QED BY <2>2, <2>3, StaysQuiet
  <1>3. QED BY <1>1, <1>2, StaysQuiet

(* Quiet, a session keeps nothing and is sent nothing. *)
LEMMA QuietKeepsNothing ==
    ASSUME IInv, NEW s \in Session, Quiet(s), NEW c \in Channel
    PROVE  Written(s, c) = {} /\ Waiting(s, c) = {} /\ ~ Sent(s, c) /\ c \notin left[s]
  <1>1. batch[s] = <<>> /\ buffer[s] = <<>> /\ left[s] \subseteq ChannelsOf(<<>>)
    BY DEF Quiet, Emptied, IInv, Control, Flushing
  <1>2. ~ Sent(s, c)
    BY DEF Quiet, Sent
  <1>3. ChannelsOf(<<>>) = {}
    BY DEF ChannelsOf
  <1>4. QED BY <1>1, <1>2, <1>3, NumbersEmpty DEF Written, Waiting

(* A step that leaves, or empties, what a session keeps of a channel, and   *)
(* writes nothing of the channel.                                           *)
LEMMA NewerUntouched ==
    ASSUME NEW t \in Session, NEW d \in Channel, NewerKept(t, d), newest'[d] = newest[d],
           Written(t, d)' = Written(t, d), d \in left'[t] <=> d \in left[t],
           Waiting(t, d)' = Waiting(t, d) \/ Waiting(t, d)' = {},
           Sent(t, d)' => Sent(t, d) /\ at'[t][d] = at[t][d]
    PROVE  NewerKept(t, d)'
  BY DEF NewerKept

(* What was written stays saved, or being saved, when nothing is written    *)
(* and no batch ends.                                                       *)
LEMMA SavedUntouched ==
    ASSUME NEW d \in Channel, Saved(d), newest'[d] = newest[d], point'[d] = point[d],
           \A t \in Session : d \notin left[t] /\ Written(t, d) # {} =>
               d \notin left'[t] /\ Written(t, d)' # {}
    PROVE  Saved(d)'
  BY DEF Saved

(* Steps that write nothing and take no batch. *)
LEMMA OrderBystander ==
    ASSUME IInv, Undisturbed, UNCHANGED <<point, batch, left, newest, at>>,
           \A t \in Session : buffer'[t] = buffer[t] \/ buffer'[t] = <<>>,
           \A t \in Session, d \in Channel : Sent(t, d)' => Sent(t, d),
           NEW d \in Channel
    PROVE  Saved(d)' /\ \A t \in Session : NewerKept(t, d)'
  <1>1. \A t \in Session : /\ Written(t, d)' = Written(t, d)
                           /\ Waiting(t, d)' = Waiting(t, d) \/ Waiting(t, d)' = {}
    BY NumbersEmpty DEF Written, Waiting
  <1>2. Saved(d)'
    BY <1>1, SavedUntouched DEF Undisturbed
  <1>3. ASSUME NEW t \in Session PROVE NewerKept(t, d)'
    BY <1>1, NewerUntouched DEF Undisturbed
  <1>4. QED BY <1>2, <1>3

(* A subscription goes on from what was written last, or later. *)
LEMMA OrderAccept ==
    ASSUME IInv, Undisturbed, NEW s \in Session, NEW c \in Channel, Accept(s, c),
           NEW d \in Channel
    PROVE  Saved(d)' /\ \A t \in Session : NewerKept(t, d)'
  <1> USE DEF org, opening, flow, decisions, history
  <1>1. UNCHANGED <<made, point, buffer, batch, left, newest, stopped, link>>
    BY DEF Accept
  <1>2. /\ at \in [Session -> [Channel -> Nat]] /\ accepted \in [Session -> SUBSET Channel]
        /\ newest[c] \in Nat /\ point[c] \in Int /\ made[c] \in Nat
    <2>1. TypeOK
      BY DEF IInv
    <2>2. point[c] \in Int
      BY <2>1 DEF TypeOK, NoPoint
    <2>3. QED BY <2>1, <2>2 DEF TypeOK
  <1>3. /\ at'[s][c] = From(c) /\ \A t \in Session :
               t # s \/ d # c => at'[t][d] = at[t][d] /\ (Sent(t, d)' => Sent(t, d))
    BY <1>1, <1>2 DEF Accept, Sent
  <1>4. \A t \in Session : Written(t, d)' = Written(t, d) /\ Waiting(t, d)' = Waiting(t, d)
    BY <1>1 DEF Written, Waiting
  <1>5. Saved(d)'
    BY <1>1, <1>4, SavedUntouched DEF Undisturbed
  <1>6. ASSUME NEW t \in Session, t # s \/ d # c PROVE NewerKept(t, d)'
    BY <1>1, <1>3, <1>4, <1>6, NewerUntouched DEF Undisturbed
  <1>7. CASE stopped[s]
    <2>1. ~ Sent(s, c)'
      BY <1>1, <1>7 DEF Sent
    <2>2. d = c => NewerKept(s, d)'
      BY <1>1, <1>4, <2>1, NewerUntouched DEF Undisturbed
    <2>3. QED BY <1>5, <1>6, <2>2
  <1>8. CASE ~ stopped[s]
    <2>1. ~ Quiet(s)
      BY <1>8 DEF Quiet, Accept
    <2>2. ASSUME NEW t \in Session PROVE Written(t, c) = {}
      <3>1. CASE t = s
        BY <3>1 DEF Accept, IInv, Control, Subscribed
      <3>2. CASE t # s
        BY <2>1, <3>2, QuietKeepsNothing DEF Undisturbed
      <3>3. QED BY <3>1, <3>2
    <2>3. newest[c] = 0 \/ newest[c] <= point[c]
      BY <2>2 DEF Undisturbed, Saved
    <2>4. From(c) >= newest[c] /\ Written(s, c) = {} /\ Waiting(s, c) = {}
      <3>1. From(c) >= newest[c]
        <4>1. From(c) \in Nat
          BY FromMade
        <4>2. CASE newest[c] = 0
          BY <4>1, <4>2
        <4>3. CASE newest[c] <= point[c]
          <5>1. point[c] # NoPoint /\ From(c) >= point[c]
            <6>1. point[c] # NoPoint
              BY <1>2, <4>3 DEF NoPoint
            <6>2. gone[c] \in Nat
              BY DEF IInv, TypeOK
            <6>3. QED BY <1>2, <6>1, <6>2 DEF From
          <5>2. QED BY <1>2, <4>1, <4>3, <5>1
        <4>4. QED BY <2>3, <4>2, <4>3
      <3>2. QED BY <3>1 DEF Accept, IInv, Control, Subscribed
    <2>5. NewerKept(s, c)'
      <3>1. Written(s, c)' = {} /\ Waiting(s, c)' = {}
        BY <1>1, <2>4 DEF Written, Waiting
      <3>2. QED BY <1>1, <1>3, <2>4, <3>1 DEF NewerKept
    <2>6. QED BY <1>5, <1>6, <2>5
  <1>9. QED BY <1>7, <1>8

(* A change received is newer than what was written. *)
LEMMA OrderReceive ==
    ASSUME IInv, Undisturbed, NEW s \in Session, NEW c \in Channel, Receive(s, c),
           NEW d \in Channel
    PROVE  Saved(d)' /\ \A t \in Session : NewerKept(t, d)'
  <1> USE DEF org, opening, flow, decisions, history
  <1>1. UNCHANGED <<point, batch, left, newest, stopped, link, accepted>>
    BY DEF Receive
  <1>2. /\ at \in [Session -> [Channel -> Nat]] /\ newest[c] \in Nat
        /\ buffer \in [Session -> Seq(Change)]
    BY DEF IInv, TypeOK
  <1>3. /\ at'[s][c] = at[s][c] + 1 /\ at[s][c] \in Nat
        /\ \A t \in Session : t # s \/ d # c => at'[t][d] = at[t][d]
    BY <1>2 DEF Receive
  <1>4. \A t \in Session : (Sent(t, d)' <=> Sent(t, d)) /\ Written(t, d)' = Written(t, d)
    BY <1>1 DEF Sent, Written
  <1>5. Saved(d)'
    BY <1>1, <1>4, SavedUntouched DEF Undisturbed
  <1>6. CASE stopped[s]
    <2>1. buffer' = buffer /\ ~ Sent(s, c)
      BY <1>6 DEF Receive, Sent
    <2>2. \A t \in Session : Waiting(t, d)' = Waiting(t, d)
      BY <2>1 DEF Waiting
    <2>3. ASSUME NEW t \in Session PROVE NewerKept(t, d)'
      BY <1>1, <1>3, <1>4, <2>1, <2>2, NewerUntouched DEF Undisturbed
    <2>4. QED BY <1>5, <2>3
  <1>7. CASE ~ stopped[s]
    <2> DEFINE n == at[s][c] + 1
    <2>1. buffer' = [buffer EXCEPT ![s] = Append(@, <<c, n>>)] /\ n \in Nat /\ Sent(s, c)
      BY <1>3, <1>7 DEF Receive, Sent
    <2>2. NumbersOf(Append(buffer[s], <<c, n>>), d)
            = NumbersOf(buffer[s], d) \cup (IF d = c THEN {n} ELSE {})
      BY <1>2, <2>1, NumbersAppend
    <2>3. \A t \in Session : Waiting(t, d)' =
              IF t = s /\ d = c THEN Waiting(t, d) \cup {n} ELSE Waiting(t, d)
      BY <1>2, <2>1, <2>2 DEF Waiting
    <2>4. n > newest[c] /\ n >= newest[c]
      BY <1>2, <1>3, <2>1 DEF Undisturbed, NewerKept
    <2>5. d = c => NewerKept(s, d)'
      BY <1>1, <1>3, <1>4, <2>3, <2>4 DEF Undisturbed, NewerKept
    <2>6. ASSUME NEW t \in Session, t # s \/ d # c PROVE NewerKept(t, d)'
      BY <1>1, <1>3, <1>4, <2>3, <2>6, NewerUntouched DEF Undisturbed
    <2>7. QED BY <1>5, <2>5, <2>6
  <1>8. QED BY <1>6, <1>7

(* A batch holds the first of what waited: newer than what was written. *)
LEMMA OrderTakeBatch ==
    ASSUME IInv, Undisturbed, NEW s \in Session, TakeBatch(s), NEW d \in Channel
    PROVE  Saved(d)' /\ \A t \in Session : NewerKept(t, d)'
  <1> USE DEF org, opening, flow, decisions, history
  <1>1. UNCHANGED <<point, at, newest, stopped, link, accepted>>
    BY DEF TakeBatch
  <1>2. /\ buffer \in [Session -> Seq(Change)] /\ batch \in [Session -> Seq(Change)]
        /\ left \in [Session -> SUBSET Channel]
    BY DEF IInv, TypeOK
  <1>3. /\ batch[s] = <<>> /\ batch'[s] = FirstOf(buffer[s]) /\ buffer'[s] = RestOf(buffer[s])
        /\ buffer[s] # <<>> /\ left'[s] = ChannelsOf(FirstOf(buffer[s]))
        /\ \A t \in Session : t # s => /\ batch'[t] = batch[t] /\ buffer'[t] = buffer[t]
                                       /\ left'[t] = left[t]
    BY <1>2 DEF TakeBatch
  <1>4. \A t \in Session : Sent(t, d)' <=> Sent(t, d)
    BY <1>1 DEF Sent
  <1>5. \A t \in Session : t # s => Written(t, d)' = Written(t, d) /\ Waiting(t, d)' = Waiting(t, d)
    BY <1>3 DEF Written, Waiting
  <1>6. /\ Written(s, d) = {} /\ Waiting(s, d) = Written(s, d)' \cup Waiting(s, d)'
        /\ FirstOf(buffer[s]) \in Seq(Change)
    BY <1>2, <1>3, BatchSplits, NumbersEmpty DEF Written, Waiting
  <1>7. d \in left'[s] <=> Written(s, d)' # {}
    BY <1>3, <1>6, ChannelsHaveNumbers DEF Written
  <1>8. Saved(d)'
    BY <1>1, <1>3, <1>5, <1>6, SavedUntouched DEF Undisturbed
  <1>9. NewerKept(s, d)'
    BY <1>1, <1>4, <1>6, <1>7 DEF Undisturbed, NewerKept
  <1>10. ASSUME NEW t \in Session, t # s PROVE NewerKept(t, d)'
    BY <1>1, <1>3, <1>4, <1>5, <1>10, NewerUntouched DEF Undisturbed
  <1>11. QED BY <1>8, <1>9, <1>10

(* Only one session writes, and what it keeps is newer than what it wrote. *)
LEMMA OrderApply ==
    ASSUME IInv, Undisturbed, NEW s \in Session, NEW c \in Channel, Apply(s, c),
           NEW d \in Channel
    PROVE  Saved(d)' /\ \A t \in Session : NewerKept(t, d)'
  <1> USE DEF org, opening, flow, decisions, history
  <1>1. UNCHANGED <<point, at, buffer, batch, stopped, link, accepted>>
    BY DEF Apply
  <1>2. left \in [Session -> SUBSET Channel] /\ newest \in [Channel -> Nat]
    BY DEF IInv, TypeOK
  <1>3. \A t \in Session : /\ Sent(t, d)' <=> Sent(t, d)
                           /\ Written(t, d)' = Written(t, d) /\ Waiting(t, d)' = Waiting(t, d)
                           /\ t # s \/ d # c => (d \in left'[t] <=> d \in left[t])
    BY <1>1, <1>2 DEF Sent, Written, Waiting, Apply
  <1>4. c \in left[s] /\ c \notin left'[s] /\ newest'[c] = Last(Written(s, c))
        /\ (d # c => newest'[d] = newest[d])
    BY <1>2 DEF Apply, Written
  <1>5. CASE d # c
    <2>1. Saved(d)'
      BY <1>1, <1>3, <1>4, <1>5, SavedUntouched DEF Undisturbed
    <2>2. ASSUME NEW t \in Session PROVE NewerKept(t, d)'
      BY <1>1, <1>3, <1>4, <1>5, NewerUntouched DEF Undisturbed
    <2>3. QED BY <2>1, <2>2
  <1>6. CASE d = c
    <2>1. Written(s, c) # {}
      BY <1>4, ChannelsHaveNumbers DEF IInv, TypeOK, Control, Flushing, Written
    <2>2. /\ Last(Written(s, c)) \in Written(s, c) /\ Last(Written(s, c)) \in Nat
      BY <2>1, LastWritten
    <2>3. Saved(c)'
      BY <1>3, <1>4, <1>6, <2>1 DEF Saved
    <2>4. NewerKept(s, c)'
      <3>1. InOrderKept(s, c)
        BY DEF IInv, Reading, KeptInOrder
      <3>2. \A m \in Waiting(s, c) : m > Last(Written(s, c))
        <4>1. Waiting(s, c) \subseteq Nat
          BY NumbersKept
        <4>2. QED BY <2>2, <3>1, <4>1 DEF InOrderKept
      <3>3. Sent(s, c) => at[s][c] >= Last(Written(s, c))
        <4>1. at[s][c] \in Nat
          BY DEF IInv, TypeOK
        <4>2. QED BY <2>2, <3>1, <4>1 DEF InOrderKept
      <3>4. QED BY <1>1, <1>3, <1>4, <1>6, <3>2, <3>3 DEF NewerKept
    <2>5. ASSUME NEW t \in Session, t # s PROVE NewerKept(t, c)'
      <3>1. ~ Quiet(s)
        BY <1>4, QuietKeepsNothing
      <3>2. Quiet(t)
        BY <2>5, <3>1 DEF Undisturbed
      <3>3. Written(t, c) = {} /\ Waiting(t, c) = {} /\ ~ Sent(t, c)
        BY <3>2, QuietKeepsNothing
      <3>4. QED BY <1>3, <1>6, <3>3 DEF NewerKept
    <2>6. QED BY <1>6, <2>3, <2>4, <2>5
  <1>7. QED BY <1>5, <1>6

(* The resume point stored is what was written last. *)
LEMMA OrderSave ==
    ASSUME IInv, Undisturbed, NEW s \in Session, Save(s), NEW d \in Channel
    PROVE  Saved(d)' /\ \A t \in Session : NewerKept(t, d)'
  <1> USE DEF org, opening, flow, decisions, history
  <1>1. UNCHANGED <<at, buffer, left, newest, stopped, link, accepted>>
    BY DEF Save
  <1>2. /\ batch \in [Session -> Seq(Change)] /\ left[s] = {} /\ batch'[s] = <<>>
        /\ \A t \in Session : t # s => batch'[t] = batch[t]
        /\ newest[d] \in Nat
    BY DEF IInv, TypeOK, Save
  <1>3. \A t \in Session : /\ Sent(t, d)' <=> Sent(t, d)
                           /\ Waiting(t, d)' = Waiting(t, d)
                           /\ t # s => Written(t, d)' = Written(t, d)
    BY <1>1, <1>2 DEF Sent, Written, Waiting
  <1>4. Written(s, d)' = {}
    BY <1>2, NumbersEmpty DEF Written
  <1>5. NewerKept(s, d)'
    BY <1>1, <1>2, <1>3, <1>4 DEF Undisturbed, NewerKept
  <1>6. ASSUME NEW t \in Session, t # s PROVE NewerKept(t, d)'
    BY <1>1, <1>3, <1>6, NewerUntouched DEF Undisturbed
  <1>7. CASE d \in ChannelsOf(batch[s])
    <2>1. Written(s, d) # {} /\ point'[d] = Last(Written(s, d))
      BY <1>2, <1>7, ChannelsHaveNumbers DEF Save, Written
    <2>2. newest[d] = Last(Written(s, d))
      BY <1>2, <2>1 DEF Undisturbed, NewerKept
    <2>3. newest'[d] <= point'[d]
      BY <1>1, <1>2, <2>1, <2>2
    <2>4. QED BY <1>5, <1>6, <2>3 DEF Saved
  <1>8. CASE d \notin ChannelsOf(batch[s])
    <2>1. Written(s, d) = {} /\ point'[d] = point[d]
      BY <1>2, <1>8, ChannelsHaveNumbers DEF Save, Written
    <2>2. Saved(d)'
      BY <1>1, <1>3, <2>1, SavedUntouched DEF Undisturbed
    <2>3. QED BY <1>5, <1>6, <2>2
  <1>9. QED BY <1>7, <1>8

(* A disturbed order stays disturbed. *)
LEMMA Calm ==
    ASSUME [Next]_vars, ~ disturbed'
    PROVE  ~ disturbed
  <1> USE DEF org, opening, flow, decisions, history
  <1>1. ASSUME NEW c \in Channel, Make(c) \/ LetGo(c) PROVE ~ disturbed
    BY <1>1 DEF Make, LetGo
  <1>2. ASSUME NEW s \in Session, StartWatching(s) \/ GuardAllows(s) PROVE ~ disturbed
    BY <1>2 DEF StartWatching, GuardAllows, Begin
  <1>3. ASSUME NEW s \in Session, AskGuard(s) \/ GuardRefuses(s) \/ Down(s) PROVE ~ disturbed
    BY <1>3 DEF AskGuard, GuardRefuses, Down
  <1>4. ASSUME NEW s \in Session, Opening(s) PROVE ~ disturbed
    BY <1>4 DEF Opening, TransportOpens, TransportFails, Accept, Refuse, Started, Reopened,
       Drained, Retry
  <1>5. ASSUME NEW s \in Session, Flush(s) PROVE ~ disturbed
    BY <1>5 DEF Flush, TimerFires, TakeBatch, FlushEnds, Save, Apply
  <1>6. ASSUME NEW s \in Session, NEW c \in Channel, Receive(s, c) PROVE ~ disturbed
    BY <1>6 DEF Receive
  <1>7. ASSUME NEW s \in Session, Stop(s) \/ StopEnds(s) PROVE ~ disturbed
    BY <1>7 DEF Stop, StopEnds
  <1>8. ASSUME NEW s \in Session, NEW e \in held[s], Decide(s, e) PROVE ~ disturbed
    BY <1>8 DEF Decide
  <1>9. ASSUME NEW s \in Session, NEW e \in deciding[s], NEW success \in BOOLEAN,
               Decided(s, e, success) PROVE ~ disturbed
    BY <1>9 DEF Decided
  <1>10. CASE Crash \/ UNCHANGED vars
    BY <1>10 DEF Crash, vars
  <1> HIDE DEF org, opening, flow, decisions, history
  <1>11. QED BY <1>1, <1>2, <1>3, <1>4, <1>5, <1>6, <1>7, <1>8, <1>9, <1>10 DEF Next

(* Every step keeps the order, until a session begins beside another or the *)
(* host ends.                                                               *)
LEMMA NextOrder ==
    IInv /\ OrderInv /\ [Next]_vars => OrderInv'
  <1> SUFFICES ASSUME IInv, OrderInv, [Next]_vars, ~ disturbed' PROVE Undisturbed'
    BY DEF OrderInv
  <1> USE DEF org, opening, flow, decisions, history
  <1>0. ~ disturbed /\ Undisturbed /\ TypeOK
    <2>1. ~ disturbed
      BY Calm
    <2>2. QED BY <2>1 DEF OrderInv, IInv
  <1>1. CASE UNCHANGED vars
    BY <1>0, <1>1 DEF vars, Undisturbed, Quiet, Emptied, NewerKept, Saved, Written, Waiting,
         Sent
  <1>2. CASE Next
    <2>1. \A s, t \in Session : s # t => Quiet(s)' \/ Quiet(t)'
      BY <1>0, <1>2, OneWrites
    <2>2. ASSUME NEW d \in Channel PROVE Saved(d)' /\ \A t \in Session : NewerKept(t, d)'
      <3> DEFINE Kept == Saved(d)' /\ \A t \in Session : NewerKept(t, d)'
      <3>1. ASSUME NEW c \in Channel, Make(c) \/ LetGo(c) PROVE Kept
        BY <1>0, <3>1, OrderBystander DEF Make, LetGo, Sent
      <3>2. ASSUME NEW s \in Session,
                   \/ StartWatching(s) \/ AskGuard(s) \/ GuardAllows(s) \/ GuardRefuses(s)
                   \/ TransportOpens(s) \/ TransportFails(s) \/ Started(s) \/ Reopened(s)
                   \/ Retry(s) \/ Down(s) \/ TimerFires(s) \/ FlushEnds(s) \/ StopEnds(s)
                   \/ Drained(s) \/ Stop(s)
            PROVE  Kept
        <4>1. UNCHANGED <<point, at, batch, left, newest>>
          BY <3>2 DEF StartWatching, AskGuard, GuardAllows, GuardRefuses, Begin, TransportOpens,
             TransportFails, Started, Reopened, Retry, Down, TimerFires, FlushEnds, StopEnds,
             Drained, Stop
        <4>2. ASSUME NEW t \in Session PROVE buffer'[t] = buffer[t] \/ buffer'[t] = <<>>
          BY <1>0, <3>2 DEF StartWatching, AskGuard, GuardAllows, GuardRefuses, Begin,
             TransportOpens, TransportFails, Started, Reopened, Retry, Down, TimerFires,
             FlushEnds, StopEnds, Drained, Stop, TypeOK
        <4>3. \A t \in Session, e \in Channel : Sent(t, e)' => Sent(t, e)
          BY <1>0, <3>2, SentNoMore
        <4>4. QED BY <1>0, <4>1, <4>2, <4>3, OrderBystander
      <3>3. ASSUME NEW s \in Session, NEW c \in Channel, Refuse(s, c) PROVE Kept
        BY <1>0, <3>3, OrderBystander DEF Refuse, Sent
      <3>4. ASSUME NEW s \in Session, NEW e \in held[s], Decide(s, e) PROVE Kept
        BY <1>0, <3>4, OrderBystander DEF Decide, Sent
      <3>5. ASSUME NEW s \in Session, NEW e \in deciding[s], NEW success \in BOOLEAN,
                   Decided(s, e, success) PROVE Kept
        BY <1>0, <3>5, OrderBystander DEF Decided, Sent
      <3>6. ~ Crash
        BY DEF Crash
      <3> HIDE DEF org, opening, flow, decisions, history
      <3>7. QED
        BY <1>0, <1>2, <3>1, <3>2, <3>3, <3>4, <3>5, <3>6, OrderAccept, OrderReceive,
           OrderTakeBatch, OrderApply, OrderSave DEF Next, Opening, Flush
    <2>3. QED BY <2>1, <2>2 DEF Undisturbed
  <1>3. QED BY <1>1, <1>2

(* Changes are written in the order the org sent them, and once each, until *)
(* a session begins beside another or the host ends.                        *)
THEOREM WrittenInOrder == Spec => InOrder
  <1>1. Init => OrderInv
    BY NumbersEmpty DEF Init, OrderInv, Undisturbed, Quiet, Emptied, NewerKept, Saved, Written,
       Waiting, Sent
  <1>2. IInv /\ OrderInv /\ IInv' /\ OrderInv' /\ [Next]_vars =>
          [ ~ disturbed' => \A s \in Session : \A c \in left[s] \ left'[s] :
                \A n \in NumbersOf(batch[s], c) : n > newest[c] ]_vars
    <2> SUFFICES ASSUME IInv, OrderInv, Next, ~ disturbed', NEW s \in Session,
                        NEW c \in left[s] \ left'[s], NEW n \in NumbersOf(batch[s], c)
                 PROVE  n > newest[c]
      OBVIOUS
    <2>1. ~ disturbed
      BY Calm
    <2>2. NewerKept(s, c) /\ c \in left[s]
      BY <2>1 DEF OrderInv, Undisturbed, IInv, TypeOK
    <2>3. QED BY <2>2 DEF NewerKept, Written
  <1>3. QED BY <1>1, <1>2, Invariance, NextOrder, PTL DEF Spec, InOrder
=============================================================================
