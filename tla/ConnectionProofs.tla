--------------------------- MODULE ConnectionProofs ---------------------------
(***************************************************************************)
(* Proofs about what stands between SandForge and an org.                  *)
(*                                                                         *)
(* CircuitBreaker, for every number of callers, threshold, timeout and     *)
(* number of half-open requests.                                           *)
(*                                                                         *)
(* OrgConnection, for every number of calls, refreshes and troubles: a     *)
(* disconnected org is gone, the entry never goes back to an org it was    *)
(* before, a refresh is told once, and no describe of an org before it is  *)
(* served then.                                                            *)
(***************************************************************************)
EXTENDS CircuitBreaker, OrgConnection, SequenceTheorems, FiniteSetTheorems, TLAPS

(***************************************************************************)
(* The circuit breaker.                                                    *)
(***************************************************************************)

Probes == {c \in Caller : probe[c]}

(* While no call from before a trip is still under way when the breaker     *)
(* becomes half open, calls under way then are probes, of which there is    *)
(* one at most, and it holds the permit.                                    *)
ProbeHasPermit ==
    ~ overtaken /\ halfOpenRequests = 1 =>
        /\ \A c \in Caller : probe[c] =>
              /\ breaker.state = "half_open"
              /\ breaker.halfOpenInFlight > 0
              /\ \A d \in Caller : phase[d] # "idle" => d = c
        /\ breaker.state = "half_open" =>
              \A c \in Caller : phase[c] # "idle" => probe[c]

ProbeIsUnderWay == \A c \in Caller : probe[c] => phase[c] # "idle"

Results(b) == {b, recordSuccess(b), recordFailure(b)}

-----------------------------------------------------------------------------
(* One field changed leaves a breaker. *)
LEMMA Updates ==
    ASSUME NEW b \in Breaker
    PROVE  /\ \A v \in {"closed", "open", "half_open"} : [b EXCEPT !.state = v] \in Breaker
           /\ \A v \in 0..failureThreshold : [b EXCEPT !.failureCount = v] \in Breaker
           /\ \A v \in 0..resetTimeout : [b EXCEPT !.age = v] \in Breaker
           /\ \A v \in Nat : [b EXCEPT !.halfOpenSuccesses = v] \in Breaker
           /\ \A v \in Nat : [b EXCEPT !.halfOpenInFlight = v] \in Breaker
  BY DEF Breaker

(* What the methods return: a breaker, with no more permits taken.          *)
LEMMA MethodTypes ==
    ASSUME NEW b \in Breaker
    PROVE  /\ getState(b) \in Breaker /\ acquirePermit(b) \in Breaker
           /\ recordSuccess(b) \in Breaker /\ recordFailure(b) \in Breaker
           /\ releasePermit(b) \in Breaker
<1> USE BreakerAssumption DEF Breaker
<1>0. 0 \in 0..failureThreshold /\ 0 \in 0..resetTimeout
  OBVIOUS
<1>1. getState(b) \in Breaker
  <2>1. [b EXCEPT !.state = "half_open"] \in Breaker
    BY Updates
  <2>2. [[b EXCEPT !.state = "half_open"] EXCEPT !.halfOpenSuccesses = 0] \in Breaker
    BY <2>1, Updates
  <2> QED BY <2>2 DEF getState
<1>2. \A n \in Nat : OneLess(n) \in Nat
  BY DEF OneLess
<1>3. recordSuccess(b) \in Breaker
  <2>1. CASE b.state # "half_open"
    BY <2>1 DEF recordSuccess
  <2>2. CASE b.state = "half_open" /\ b.halfOpenSuccesses + 1 >= halfOpenRequests
    <3>1. recordSuccess(b) = reset(b)
      BY <2>2 DEF recordSuccess
    <3>2. [b EXCEPT !.state = "closed"] \in Breaker
      BY Updates
    <3>3. [[b EXCEPT !.state = "closed"] EXCEPT !.failureCount = 0] \in Breaker
      BY <1>0, <3>2, Updates
    <3>4. [[[b EXCEPT !.state = "closed"] EXCEPT !.failureCount = 0]
             EXCEPT !.halfOpenSuccesses = 0] \in Breaker
      BY <3>3, Updates
    <3>5. [[[[b EXCEPT !.state = "closed"] EXCEPT !.failureCount = 0]
             EXCEPT !.halfOpenSuccesses = 0] EXCEPT !.halfOpenInFlight = 0] \in Breaker
      BY <3>4, Updates
    <3> QED BY <3>1, <3>5 DEF reset
  <2>3. CASE b.state = "half_open" /\ ~ (b.halfOpenSuccesses + 1 >= halfOpenRequests)
    <3>1. [b EXCEPT !.halfOpenSuccesses = @ + 1] \in Breaker
      BY Updates
    <3>2. [[b EXCEPT !.halfOpenSuccesses = @ + 1] EXCEPT
             !.halfOpenInFlight = OneLess(b.halfOpenInFlight)] \in Breaker
      BY <1>2, <3>1, Updates
    <3> QED BY <2>3, <3>2 DEF recordSuccess
  <2> QED BY <2>1, <2>2, <2>3
<1>4. Counted(b) \in Breaker
  <2> DEFINE n == IF b.failureCount < failureThreshold THEN b.failureCount + 1
                                                       ELSE b.failureCount
  <2>1. n \in 0..failureThreshold
    OBVIOUS
  <2>2. [b EXCEPT !.failureCount = n] \in Breaker
    BY <2>1, Updates
  <2>3. [[b EXCEPT !.failureCount = n] EXCEPT !.age = 0] \in Breaker
    BY <1>0, <2>2, Updates
  <2>4. Counted(b) = [[b EXCEPT !.failureCount = n] EXCEPT !.age = 0]
    BY DEF Counted
  <2> HIDE DEF n
  <2> QED BY <2>3, <2>4
<1>5. recordFailure(b) \in Breaker
  BY <1>4 DEF recordFailure
<1>6. releasePermit(b) \in Breaker
  BY <1>2 DEF releasePermit
<1>7. acquirePermit(b) \in Breaker
  BY DEF acquirePermit
<1> QED BY <1>1, <1>3, <1>5, <1>6, <1>7

LEMMA RecordingTakesNone ==
    ASSUME NEW b \in Breaker, NEW r \in Results(b)
    PROVE  r \in Breaker /\ r.halfOpenInFlight <= b.halfOpenInFlight
<1>1. r \in Breaker
  BY MethodTypes DEF Results
<1>2. recordFailure(b).halfOpenInFlight = b.halfOpenInFlight
  BY DEF recordFailure, Counted, Breaker
<1>3. recordSuccess(b).halfOpenInFlight
        \in {b.halfOpenInFlight, 0, OneLess(b.halfOpenInFlight)}
  BY DEF recordSuccess, reset, Breaker
<1> QED BY <1>1, <1>2, <1>3 DEF Results, OneLess, Breaker

(* A half-open breaker is one that was half open already, or rested.        *)
LEMMA RecordingRests ==
    ASSUME NEW b \in Breaker, NEW r \in Results(b),
           b.state = "half_open" => b.age = resetTimeout
    PROVE  r.state = "half_open" => b.state = "half_open" /\ r.age = resetTimeout
  BY BreakerAssumption
     DEF Results, Breaker, recordSuccess, reset, recordFailure, Counted, OneLess

(* Reading the clock takes no permit and opens nothing but a rested breaker. *)
LEMMA ReadingTheClock ==
    ASSUME NEW b \in Breaker
    PROVE  /\ getState(b) \in Breaker
           /\ getState(b).halfOpenInFlight = b.halfOpenInFlight
           /\ getState(b).age = b.age
           /\ getState(b).state = b.state => getState(b) = b
           /\ getState(b).state # b.state =>
                 getState(b).state = "half_open" /\ b.age = resetTimeout
<1>1. getState(b) \in Breaker
  BY MethodTypes
<1>2. CASE b.state = "open" /\ b.age >= resetTimeout
  <2>1. b.age = resetTimeout
    BY <1>2, BreakerAssumption DEF Breaker
  <2>2. /\ getState(b).state = "half_open" /\ getState(b).age = b.age
        /\ getState(b).halfOpenInFlight = b.halfOpenInFlight
    BY <1>2 DEF getState, Breaker
  <2> QED BY <1>1, <1>2, <2>1, <2>2
<1>3. CASE ~ (b.state = "open" /\ b.age >= resetTimeout)
  BY <1>1, <1>3 DEF getState
<1> QED BY <1>2, <1>3

(* The end of a call records a success, a failure or nothing.               *)
LEMMA EndOfCall ==
    ASSUME NEW c \in Caller, Succeed(c) \/ Fail(c) \/ Cancel(c)
    PROVE  phase[c] # "idle" /\ \E r \in Results(breaker) : End(c, r)
  BY DEF Succeed, Fail, Cancel, Results

(* The fields keep their types through every method. *)
LEMMA TypeStep == ASSUME BreakerTypeOK, [BreakerNext]_breakerVars PROVE BreakerTypeOK'
<1> USE DEF BreakerTypeOK
<1>1. ASSUME NEW c \in Caller, Ask(c) PROVE BreakerTypeOK'
  <2>1. getState(breaker) \in Breaker /\ acquirePermit(getState(breaker)) \in Breaker
    BY MethodTypes
  <2>2. breaker' \in Breaker /\ overtaken' \in BOOLEAN /\ UNCHANGED <<guards, pooled, up>>
    BY <1>1, <2>1 DEF Ask
  <2>3. /\ phase' \in [Caller -> {"idle", "asking", "refreshing"}]
        /\ probe' \in [Caller -> BOOLEAN] /\ doomed' \in [Caller -> BOOLEAN]
    BY <1>1 DEF Ask, callers
  <2> QED BY <2>2, <2>3
<1>2. ASSUME NEW c \in Caller, Succeed(c) \/ Fail(c) \/ Cancel(c) PROVE BreakerTypeOK'
  <2>1. PICK r \in Results(breaker) : End(c, r)
    BY <1>2, EndOfCall
  <2>2. releasePermit(r) \in Breaker /\ getState(releasePermit(r)) \in Breaker
    BY RecordingTakesNone, MethodTypes
  <2>3. pooled' \in BOOLEAN
    BY <1>2 DEF Succeed, Fail, Cancel
  <2> QED BY <2>1, <2>2, <2>3 DEF End
<1>3. ASSUME NEW c \in Caller, Refresh(c) PROVE BreakerTypeOK'
  BY <1>3 DEF Refresh
<1>4. CASE Unpool \/ UpOrDown
  BY <1>4 DEF Unpool, UpOrDown, callers
<1>5. CASE Tick
  BY <1>5, BreakerAssumption DEF Tick, callers, Breaker
<1>6. CASE UNCHANGED breakerVars
  BY <1>6 DEF breakerVars
<1> QED BY <1>1, <1>2, <1>3, <1>4, <1>5, <1>6 DEF BreakerNext

(* The type invariant of the breaker and of the calls before it. *)
THEOREM BreakerTyped == BreakerSpec => []BreakerTypeOK
<1>1. BreakerInit => BreakerTypeOK
  <2> SUFFICES ASSUME BreakerInit PROVE BreakerTypeOK
    OBVIOUS
  <2>1. breaker \in Breaker
    BY BreakerAssumption DEF BreakerInit, Breaker
  <2>2. /\ phase \in [Caller -> {"idle", "asking", "refreshing"}]
        /\ probe \in [Caller -> BOOLEAN] /\ doomed \in [Caller -> BOOLEAN]
    BY DEF BreakerInit
  <2>3. /\ guards \in {"org", "ai"}
        /\ pooled \in BOOLEAN /\ up \in BOOLEAN /\ overtaken \in BOOLEAN
    BY DEF BreakerInit
  <2> QED BY <2>1, <2>2, <2>3 DEF BreakerTypeOK
<1> QED BY <1>1, TypeStep, PTL DEF BreakerSpec

-----------------------------------------------------------------------------
(* A late failure opens the half-open breaker for another resetTimeout.     *)
THEOREM LateFailuresReopen == BreakerSpec => []HalfOpenIsRested
<1>1. BreakerInit => HalfOpenIsRested
  BY DEF BreakerInit, HalfOpenIsRested
<1>2. BreakerTypeOK /\ HalfOpenIsRested /\ [BreakerNext]_breakerVars => HalfOpenIsRested'
  <2> SUFFICES ASSUME BreakerTypeOK, HalfOpenIsRested, [BreakerNext]_breakerVars PROVE HalfOpenIsRested'
    OBVIOUS
  <2> USE BreakerAssumption DEF BreakerTypeOK, HalfOpenIsRested
  <2>1. ASSUME NEW c \in Caller, Ask(c) PROVE HalfOpenIsRested'
    <3> DEFINE b == getState(breaker)
    <3>1. b \in Breaker /\ (b.state = "half_open" => b.age = resetTimeout)
      BY ReadingTheClock
    <3>2. breaker' = b \/ breaker' = acquirePermit(b)
      BY <2>1 DEF Ask
    <3> QED BY <3>1, <3>2 DEF acquirePermit, Breaker
  <2>2. ASSUME NEW c \in Caller, Succeed(c) \/ Fail(c) \/ Cancel(c) PROVE HalfOpenIsRested'
    <3>1. PICK r \in Results(breaker) : End(c, r)
      BY <2>2, EndOfCall
    <3>2. r \in Breaker /\ (r.state = "half_open" => r.age = resetTimeout)
      BY RecordingRests, RecordingTakesNone
    <3> DEFINE over == releasePermit(r)
    <3>3. over \in Breaker /\ over.state = r.state /\ over.age = r.age
      BY <3>2, MethodTypes DEF releasePermit, Breaker
    <3>4. breaker' = over \/ breaker' = getState(over)
      BY <3>1 DEF End
    <3> QED BY <3>2, <3>3, <3>4, ReadingTheClock
  <2>3. CASE Tick
    BY <2>3 DEF Tick, Breaker
  <2>4. CASE UNCHANGED breaker
    BY <2>4
  <2> QED BY <2>1, <2>2, <2>3, <2>4 DEF BreakerNext, Refresh, Unpool, UpOrDown, breakerVars
<1> QED BY <1>1, <1>2, BreakerTyped, PTL DEF BreakerSpec

-----------------------------------------------------------------------------
BackedInv == ProbeIsUnderWay /\ PermitsAreBacked

LEMMA BackedStep == ASSUME BreakerTypeOK, BackedInv, [BreakerNext]_breakerVars PROVE BackedInv'
<1> USE BreakerAssumption DEF BreakerTypeOK, BackedInv, ProbeIsUnderWay, PermitsAreBacked
<1>0. /\ IsFiniteSet(Probes) /\ Cardinality(Probes) \in Nat
      /\ breaker.halfOpenInFlight <= Cardinality(Probes)
  BY FS_Subset, FS_CardinalityType DEF Probes
<1>1. ASSUME NEW c \in Caller, Ask(c) PROVE BackedInv'
  <2> DEFINE b == getState(breaker)
  <2>1. b \in Breaker /\ b.halfOpenInFlight = breaker.halfOpenInFlight
    BY ReadingTheClock
  <2>2. CASE canExecute(b)
    <3>1. /\ breaker' = acquirePermit(b)
          /\ phase' = [phase EXCEPT ![c] = "asking"]
          /\ probe' = [probe EXCEPT ![c] = b.state = "half_open"]
          /\ c \notin Probes
      BY <1>1, <2>2 DEF Ask, Probes
    <3>2. CASE b.state = "half_open"
      <4>1. Probes' = Probes \cup {c}
        BY <3>1, <3>2 DEF Probes
      <4>2. Cardinality(Probes') = Cardinality(Probes) + 1
        BY <1>0, <3>1, <4>1, FS_AddElement
      <4>3. breaker'.halfOpenInFlight = breaker.halfOpenInFlight + 1
        BY <2>1, <3>1, <3>2 DEF acquirePermit, Breaker
      <4>4. PermitsAreBacked'
        BY <1>0, <4>2, <4>3 DEF Probes, Breaker
      <4> QED BY <3>1, <4>4
    <3>3. CASE b.state # "half_open"
      <4>1. Probes' = Probes
        BY <3>1, <3>3 DEF Probes
      <4>2. breaker'.halfOpenInFlight = breaker.halfOpenInFlight
        BY <2>1, <3>1, <3>3 DEF acquirePermit
      <4> QED BY <1>0, <3>1, <4>1, <4>2 DEF Probes
    <3> QED BY <3>2, <3>3
  <2>3. CASE ~ canExecute(b)
    BY <1>1, <2>1, <2>3 DEF Ask, callers
  <2> QED BY <2>2, <2>3
<1>2. ASSUME NEW c \in Caller, Succeed(c) \/ Fail(c) \/ Cancel(c) PROVE BackedInv'
  <2>1. PICK r \in Results(breaker) : End(c, r)
    BY <1>2, EndOfCall
  <2>2. r \in Breaker /\ r.halfOpenInFlight <= breaker.halfOpenInFlight
    BY RecordingTakesNone
  <2>3. Probes' = Probes \ {c}
    BY <2>1 DEF End, Probes
  <2>4. /\ Cardinality(Probes') = IF c \in Probes THEN Cardinality(Probes) - 1
                                                  ELSE Cardinality(Probes)
    BY <1>0, <2>3, FS_RemoveElement
  <2>5. breaker'.halfOpenInFlight = OneLess(r.halfOpenInFlight)
    <3>1. releasePermit(r) \in Breaker
      BY <2>2, MethodTypes
    <3>2. breaker'.halfOpenInFlight = releasePermit(r).halfOpenInFlight
      BY <2>1, <3>1, ReadingTheClock DEF End
    <3> QED BY <2>2, <3>2 DEF releasePermit, Breaker
  <2>6. /\ r.halfOpenInFlight \in Nat /\ breaker.halfOpenInFlight \in Nat
        /\ c \in Probes => Cardinality(Probes) # 0
    BY <1>0, <2>2, FS_EmptySet DEF Breaker
  <2>7. breaker'.halfOpenInFlight <= Cardinality(Probes')
    BY <1>0, <2>2, <2>4, <2>5, <2>6 DEF OneLess
  <2>8. ProbeIsUnderWay'
    BY <2>1 DEF End
  <2> QED BY <2>7, <2>8 DEF Probes
<1>3. ASSUME NEW c \in Caller, Refresh(c) PROVE BackedInv'
  BY <1>3 DEF Refresh
<1>4. CASE Unpool \/ UpOrDown
  BY <1>4 DEF Unpool, UpOrDown, callers
<1>5. CASE Tick
  BY <1>5 DEF Tick, callers, Breaker
<1>6. CASE UNCHANGED breakerVars
  BY <1>6 DEF breakerVars
<1> QED BY <1>1, <1>2, <1>3, <1>4, <1>5, <1>6 DEF BreakerNext

(* No permit of a half-open breaker is lost: the calls of before the trip   *)
(* that end in it, and its own probes, each release at least what they took *)
(* and never count as one under way.                                        *)
THEOREM PermitsComeBack == BreakerSpec => []PermitsAreBacked
<1>1. BreakerInit => BackedInv
  <2> SUFFICES ASSUME BreakerInit PROVE BackedInv
    OBVIOUS
  <2>1. ProbeIsUnderWay /\ {c \in Caller : probe[c]} = {}
    BY DEF BreakerInit, ProbeIsUnderWay
  <2>2. breaker.halfOpenInFlight = 0
    BY DEF BreakerInit
  <2> QED BY <2>1, <2>2, FS_EmptySet DEF BackedInv, PermitsAreBacked
<1>2. BackedInv => PermitsAreBacked
  BY DEF BackedInv
<1> QED BY <1>1, <1>2, BackedStep, BreakerTyped, PTL DEF BreakerSpec

-----------------------------------------------------------------------------
OneProbeInv == ProbeIsUnderWay /\ ProbeHasPermit

LEMMA OneProbeStep == ASSUME BreakerTypeOK, OneProbeInv, [BreakerNext]_breakerVars PROVE OneProbeInv'
<1> USE BreakerAssumption DEF BreakerTypeOK, OneProbeInv, ProbeIsUnderWay
<1>1. ASSUME NEW c \in Caller, Ask(c) PROVE OneProbeInv'
  <2> DEFINE b == getState(breaker)
  <2>1. ProbeIsUnderWay'
    BY <1>1 DEF Ask, callers
  <2> SUFFICES ASSUME ~ overtaken', halfOpenRequests = 1 PROVE ProbeHasPermit'
    BY <2>1 DEF ProbeHasPermit
  <2>2. /\ ~ overtaken
        /\ b.state # breaker.state => \A d \in Caller : phase[d] = "idle"
    BY <1>1 DEF Ask
  <2>3. /\ b \in Breaker /\ b.halfOpenInFlight = breaker.halfOpenInFlight
        /\ b.state # breaker.state => b.state = "half_open"
        /\ b.state = breaker.state => b = breaker
    BY ReadingTheClock
  <2>4. CASE canExecute(b)
    <3>1. /\ breaker' = acquirePermit(b)
          /\ phase' = [phase EXCEPT ![c] = "asking"]
          /\ probe' = [probe EXCEPT ![c] = b.state = "half_open"]
      BY <1>1, <2>4 DEF Ask
    <3>2. CASE b.state = "half_open"
      <4>1. \A d \in Caller : phase[d] = "idle"
        BY <2>2, <2>3, <2>4, <3>2 DEF ProbeHasPermit, canExecute, Breaker
      <4>2. breaker'.state = "half_open" /\ breaker'.halfOpenInFlight > 0
        BY <2>3, <3>1, <3>2 DEF acquirePermit, Breaker
      <4> QED BY <3>1, <3>2, <4>1, <4>2 DEF ProbeHasPermit
    <3>3. CASE b.state # "half_open"
      <4>1. breaker' = breaker /\ \A d \in Caller : ~ probe[d]
        BY <2>2, <2>3, <3>1, <3>3 DEF acquirePermit, ProbeHasPermit
      <4>2. \A d \in Caller : ~ probe'[d]
        BY <3>1, <3>3, <4>1
      <4> QED BY <2>3, <3>3, <4>1, <4>2 DEF ProbeHasPermit
    <3> QED BY <3>2, <3>3
  <2>5. CASE ~ canExecute(b)
    <3>1. breaker' = b /\ UNCHANGED <<phase, probe>>
      BY <1>1, <2>5 DEF Ask, callers
    <3>2. CASE b = breaker
      BY <2>2, <3>1, <3>2 DEF ProbeHasPermit
    <3>3. CASE b.state # breaker.state
      BY <2>2, <3>1, <3>3 DEF ProbeHasPermit
    <3> QED BY <2>3, <3>2, <3>3
  <2> QED BY <2>4, <2>5
<1>2. ASSUME NEW c \in Caller, Succeed(c) \/ Fail(c) \/ Cancel(c) PROVE OneProbeInv'
  <2>1. PICK r \in Results(breaker) : End(c, r)
    BY <1>2, EndOfCall
  <2>2. phase[c] # "idle"
    BY <1>2, EndOfCall
  <2> DEFINE over == releasePermit(r)
  <2>3. /\ phase' = [phase EXCEPT ![c] = "idle"]
        /\ probe' = [probe EXCEPT ![c] = FALSE]
        /\ breaker' = over \/ breaker' = getState(over)
        /\ ~ overtaken' => /\ ~ overtaken
                           /\ breaker'.state # over.state =>
                                 \A d \in Caller : phase'[d] = "idle"
    BY <2>1 DEF End
  <2>4. r.state = "half_open" => breaker.state = "half_open"
    BY DEF Results, recordSuccess, reset, recordFailure, Counted, Breaker
  <2>5. over \in Breaker /\ over.state = r.state
    BY RecordingTakesNone, MethodTypes DEF releasePermit, Breaker
  <2>6. ProbeIsUnderWay'
    BY <2>3
  <2> SUFFICES ASSUME ~ overtaken', halfOpenRequests = 1 PROVE ProbeHasPermit'
    BY <2>6 DEF ProbeHasPermit
  <2>7. CASE \A d \in Caller : phase'[d] = "idle"
    BY <2>6, <2>7 DEF ProbeHasPermit
  <2>8. CASE ~ \A d \in Caller : phase'[d] = "idle"
    <3>1. ~ overtaken /\ breaker'.state = over.state
      BY <2>3, <2>8
    <3>2. ~ probe[c]
      BY <2>3, <2>8, <3>1 DEF ProbeHasPermit
    <3>3. breaker.state # "half_open" /\ \A d \in Caller : ~ probe[d]
      BY <2>2, <3>1, <3>2 DEF ProbeHasPermit
    <3>4. breaker'.state # "half_open" /\ \A d \in Caller : ~ probe'[d]
      BY <2>3, <2>4, <2>5, <3>1, <3>3
    <3> QED BY <3>4 DEF ProbeHasPermit
  <2> QED BY <2>7, <2>8
<1>3. ASSUME NEW c \in Caller, Refresh(c) PROVE OneProbeInv'
  BY <1>3 DEF Refresh, ProbeHasPermit
<1>4. CASE Unpool \/ UpOrDown
  BY <1>4 DEF Unpool, UpOrDown, callers, ProbeHasPermit
<1>5. CASE Tick
  <2>1. breaker'.state = breaker.state /\ breaker'.halfOpenInFlight = breaker.halfOpenInFlight
    BY <1>5 DEF Tick, Breaker
  <2> QED BY <1>5, <2>1 DEF Tick, callers, ProbeHasPermit
<1>6. CASE UNCHANGED breakerVars
  BY <1>6 DEF breakerVars, ProbeHasPermit
<1> QED BY <1>1, <1>2, <1>3, <1>4, <1>5, <1>6 DEF BreakerNext

(* One call at a time tries a half-open breaker of one request, unless a    *)
(* call from before the trip outlasted the reset timeout.                   *)
THEOREM ProbesOneByOne == BreakerSpec => []OneProbe
<1>1. BreakerInit => OneProbeInv
  BY DEF BreakerInit, OneProbeInv, ProbeIsUnderWay, ProbeHasPermit
<1>2. OneProbeInv => OneProbe
  BY DEF OneProbeInv, ProbeIsUnderWay, ProbeHasPermit, OneProbe
<1> QED BY <1>1, <1>2, OneProbeStep, BreakerTyped, PTL DEF BreakerSpec

-----------------------------------------------------------------------------
(***************************************************************************)
(* The connections of an org.                                              *)
(***************************************************************************)

Good == [url : Nat \ {0}, token : Nat]
Places == {"idle", "reading", "asking", "answered", "renewing", "rechecking", "saving"}
CallState == [at : Places, cred : Good \cup {None}, says : {0} \cup Orgs]
RefreshNotice == [production : BOOLEAN, id : Nat, at : Nat]

(***************************************************************************)
(* Types of the state, and what a call has at each place: credentials      *)
(* once it has read them, the org's answer once it has one.                *)
(***************************************************************************)
WorldTypes ==
    /\ org \in [id : Orgs, url : Nat \ {0}, alive : SUBSET Nat, last : Nat]
    /\ started \in Nat /\ started <= MaxRefreshes
    /\ org.id - 1 <= started /\ started <= org.id
    /\ cli \in [url : Nat \ {0}, token : Nat, org : Orgs]
    /\ able \in BOOLEAN

EntryTypes ==
    /\ known \in BOOLEAN /\ vault \in Good \cup {None}
    /\ pool \in [url : Nat, token : Nat, recent : BOOLEAN]
    /\ import \in [at : {"idle", "listed", "saving"}, cred : Good \cup {None},
                   org : {0} \cup Orgs]
    /\ leaving \in {"no", "vault", "manager"}
    /\ clean \in BOOLEAN /\ gone \in BOOLEAN

CallTypes ==
    /\ calls \in [Call -> CallState]
    /\ \A c \in Call :
          /\ calls[c].at \notin {"idle", "reading"} => calls[c].cred \in Good
          /\ calls[c].at \in {"answered", "saving"} => calls[c].says # 0
    /\ conn \in Nat

NoticedTypes ==
    /\ record \in [id : Orgs, former : SUBSET Orgs, refreshes : Seq(RefreshNotice)]
    /\ told \in [Orgs -> Nat] /\ seen \subseteq Orgs
    /\ describe \in {0} \cup Orgs

Types == WorldTypes /\ EntryTypes /\ CallTypes /\ NoticedTypes

(***************************************************************************)
(* Disconnecting: as long as nothing came in between, no call is under way *)
(* and no import saves, nothing is pooled, and what was deleted stays so.  *)
(***************************************************************************)
Disconnecting ==
    /\ clean => leaving # "no" /\ (leaving = "manager" => vault = None)
    /\ gone => leaving = "no" /\ ~known /\ vault = None
    /\ clean \/ gone =>
          /\ \A c \in Call : calls[c] = Idle
          /\ import.at # "saving" /\ pool = Empty

(***************************************************************************)
(* The org the entry is at, and those it was before, are none to come; an  *)
(* answer under way is of one of them, or of the org the sandbox is.       *)
(***************************************************************************)
OrgsSeen ==
    /\ record.id <= org.id /\ \A o \in record.former : o < record.id
    /\ \A c \in Call : calls[c].says \in {0, org.id, record.id} \cup record.former
MonitorKnown == monitor \in {0, org.id, record.id} \cup record.former

(***************************************************************************)
(* A refresh that was told is one that completed; the tracker of the       *)
(* production org has seen it, or finds that the sandbox told of it; and   *)
(* the one into the org the sandbox is now waits for the sandbox's answer, *)
(* or has had it.                                                          *)
(***************************************************************************)
Telling ==
    /\ \A o \in Orgs : told[o] > 0 => o <= org.id /\ (o \in seen \/ AlreadyTold(o))
    /\ told[org.id] > 0 => Pending \/ org.id = record.id
    /\ ToldOnce

IInv ==
    /\ Types /\ Disconnecting /\ OrgsSeen /\ MonitorKnown
    /\ Telling /\ NothingOfTheOldOrg

-----------------------------------------------------------------------------
(* Facts about the list of refreshes. *)

(* Whatever the sandbox told is still there. *)
Kept(s, t) ==
    \A i \in 1..Len(s) : \E j \in 1..Len(t) :
        t[j].production = s[i].production /\ t[j].at = s[i].at

LEMMA CompletedFacts ==
    ASSUME NEW s \in Seq(RefreshNotice), s # <<>>, NEW o \in Nat,
           NEW t, t = [s EXCEPT ![1].id = o]
    PROVE  t \in Seq(RefreshNotice) /\ Kept(s, t)
<1>1. Len(s) \in Nat /\ 1 \in 1..Len(s)
  BY EmptySeq
<1>2. s[1] \in RefreshNotice
  BY <1>1
<1> DEFINE r == [s[1] EXCEPT !.id = o]
<1>3. r \in RefreshNotice /\ r.production = s[1].production /\ r.at = s[1].at
  BY <1>2 DEF RefreshNotice
<1>4. t = [s EXCEPT ![1] = r]
  OBVIOUS
<1> HIDE DEF r
<1>5. t \in Seq(RefreshNotice) /\ Len(t) = Len(s) /\ t[1] = r /\ \A i \in 2..Len(s) : t[i] = s[i]
  BY <1>1, <1>3, <1>4
<1>6. \A i \in 1..Len(s) : t[i].production = s[i].production /\ t[i].at = s[i].at
  BY <1>1, <1>3, <1>5
<1> QED BY <1>5, <1>6 DEF Kept

LEMMA PutFirstFacts ==
    ASSUME NEW s \in Seq(RefreshNotice), NEW r \in Seq(RefreshNotice), NEW t, t = r \o s
    PROVE  /\ t \in Seq(RefreshNotice) /\ Kept(s, t)
           /\ Len(t) = Len(r) + Len(s) /\ \A i \in 1..Len(r) : t[i] = r[i]
<1>1. /\ r \o s \in Seq(RefreshNotice) /\ Len(r \o s) = Len(r) + Len(s)
      /\ \A i \in 1..Len(r) + Len(s) :
            (r \o s)[i] = IF i <= Len(r) THEN r[i] ELSE s[i - Len(r)]
  BY ConcatProperties
<1>2. /\ t \in Seq(RefreshNotice) /\ Len(t) = Len(r) + Len(s)
      /\ \A i \in 1..Len(r) + Len(s) : t[i] = IF i <= Len(r) THEN r[i] ELSE s[i - Len(r)]
  BY <1>1, Zenon
<1>3. Len(r) \in Nat /\ Len(s) \in Nat
  OBVIOUS
<1>4. \A i \in 1..Len(r) : t[i] = r[i]
  BY <1>2, <1>3
<1>5. ASSUME NEW i \in 1..Len(s)
      PROVE  \E j \in 1..Len(t) : t[j].production = s[i].production /\ t[j].at = s[i].at
  <2>1. Len(r) + i \in 1..Len(t) /\ ~ (Len(r) + i <= Len(r)) /\ (Len(r) + i) - Len(r) = i
    BY <1>2, <1>3
  <2>2. t[Len(r) + i] = s[i]
    BY <1>2, <2>1
  <2> QED BY <2>1, <2>2
<1> QED BY <1>2, <1>4, <1>5 DEF Kept

LEMMA StillTold ==
    ASSUME Kept(record.refreshes, record'.refreshes), NEW o, AlreadyTold(o)
    PROVE  AlreadyTold(o)'
<1>1. PICK i \in 1..Len(record.refreshes) :
         ~record.refreshes[i].production /\ record.refreshes[i].at >= o - 1
  BY DEF AlreadyTold
<1>2. PICK j \in 1..Len(record'.refreshes) :
         /\ record'.refreshes[j].production = record.refreshes[i].production
         /\ record'.refreshes[j].at = record.refreshes[i].at
  BY DEF Kept
<1> QED BY <1>1, <1>2 DEF AlreadyTold

-----------------------------------------------------------------------------
(* What is noticed. *)

LEMMA OrgsAreNumbers == \A o \in Orgs : o \in Nat \ {0}
BY BoundAssumption DEF Orgs

Noticing == NoticedTypes /\ OrgsSeen /\ Telling /\ NothingOfTheOldOrg

(* Nothing of it changes. *)
LEMMA NothingNoticed ==
    ASSUME Noticing, UNCHANGED <<record, told, seen, describe>>, org'.id = org.id,
           \A c \in Call : calls'[c].says \in {0, org.id, record.id} \cup record.former
    PROVE  Noticing'
BY DEF Noticing, NoticedTypes, OrgsSeen, Telling, NothingOfTheOldOrg, ToldOnce, Pending,
     AlreadyTold

(* An answer is heard: it names the org the sandbox is, or one heard of. *)
LEMMA ObserveStep ==
    ASSUME WorldTypes, Noticing, NEW o \in Orgs,
           o \in {org.id, record.id} \cup record.former,
           NEW before, Observe(o, before), UNCHANGED <<org, started, seen>>,
           \A c \in Call : calls'[c].says \in {0, org.id, record.id} \cup record.former
    PROVE  Noticing' /\ record'.id >= record.id /\ pool' \in {Empty, before}
<1> USE DEF Observe
<1>0. pool' \in {Empty, before}
  BY DEF Forget
<1>1. /\ org.id \in Nat /\ started \in Nat /\ org.id - 1 <= started /\ org.id \in Orgs
      /\ record.id \in Nat /\ record.id \in Orgs /\ record.refreshes \in Seq(RefreshNotice)
      /\ record.former \in SUBSET Orgs /\ o \in Nat
      /\ record.id <= org.id /\ \A f \in record.former : f < record.id
      /\ \A p \in Orgs : p \in Nat
  BY OrgsAreNumbers DEF WorldTypes, Noticing, NoticedTypes, OrgsSeen
<1>2. CASE ~Reveals(o)
  <2>1. record' = record /\ told' = told /\ describe' = describe
    BY <1>2 DEF Observed, Tells, Forget
  <2> QED BY <1>0, <1>1, <2>1, NothingNoticed
<1>3. CASE Reveals(o)
  <2>1. o = org.id /\ record.id < org.id
    BY <1>1, <1>3 DEF Reveals
  <2>2. /\ record'.id = o /\ record'.former = record.former \cup {record.id}
        /\ record' = [id |-> o, former |-> record.former \cup {record.id},
                      refreshes |-> record'.refreshes]
        /\ record'.refreshes = IF Pending THEN [record.refreshes EXCEPT ![1].id = o]
              ELSE <<[production |-> FALSE, id |-> o, at |-> started]>> \o record.refreshes
    BY <1>3 DEF Observed
  <2>3. OrgsSeen'
    BY <1>1, <2>1, <2>2 DEF OrgsSeen
  <2>4. \A f \in record'.former : f < record'.id
    BY <2>3 DEF OrgsSeen
  <2>5. CASE Pending
    <3>1. told' = told /\ describe' = describe
      BY <2>5 DEF Tells, Forget
    <3>2. record'.refreshes \in Seq(RefreshNotice) /\ Kept(record.refreshes, record'.refreshes)
      <4>1. record.refreshes # <<>> /\ record'.refreshes = [record.refreshes EXCEPT ![1].id = o]
        BY <2>2, <2>5 DEF Pending
      <4> QED BY <1>1, <4>1, CompletedFacts
    <3>3. NoticedTypes'
      BY <1>1, <2>2, <3>1, <3>2 DEF Noticing, NoticedTypes
    <3>4. Telling'
      <4>1. \A p \in Orgs : told'[p] > 0 => p <= org'.id /\ (p \in seen' \/ AlreadyTold(p)')
        BY <3>1, <3>2, StillTold DEF Noticing, Telling
      <4> QED BY <2>1, <2>2, <3>1, <4>1 DEF Noticing, Telling, ToldOnce
    <3>5. NothingOfTheOldOrg'
      <4> SUFFICES ASSUME describe # 0
                   PROVE  /\ \A p \in Orgs : told[p] > 0 => describe >= p
                          /\ describe \in record'.former => told[record'.id] = 0
        BY <3>1 DEF NothingOfTheOldOrg
      <4>1. \A p \in Orgs : told[p] > 0 => describe >= p
        BY DEF Noticing, NothingOfTheOldOrg
      <4>2. ASSUME describe \in record'.former PROVE told[record'.id] = 0
        <5>1. describe < o /\ describe \in Nat
          BY <1>1, <2>2, <2>4, <4>2
        <5>2. ~ (told[o] > 0)
          BY <1>1, <4>1, <5>1
        <5> QED BY <2>2, <5>2 DEF Noticing, NoticedTypes
      <4> QED BY <4>1, <4>2
    <3> QED BY <1>0, <1>1, <2>1, <2>2, <2>3, <3>3, <3>4, <3>5 DEF Noticing
  <2>6. CASE ~Pending
    <3> DEFINE first == [production |-> FALSE, id |-> o, at |-> started]
               r == <<first>>
    <3>1. told' = [told EXCEPT ![o] = @ + 1] /\ describe' = 0
      BY <1>3, <2>6 DEF Tells, Forget
    <3>2. /\ first \in RefreshNotice /\ r \in Seq(RefreshNotice) /\ Len(r) = 1 /\ r[1] = first
      BY <1>1 DEF RefreshNotice
    <3>3. record'.refreshes = r \o record.refreshes
      BY <2>2, <2>6
    <3> HIDE DEF r
    <3>4. /\ record'.refreshes \in Seq(RefreshNotice) /\ Kept(record.refreshes, record'.refreshes)
          /\ 1 \in 1..Len(record'.refreshes) /\ record'.refreshes[1] = first
      <4>1. Len(record.refreshes) \in Nat
        BY <1>1
      <4>2. /\ record'.refreshes \in Seq(RefreshNotice) /\ Kept(record.refreshes, record'.refreshes)
            /\ Len(record'.refreshes) = Len(r) + Len(record.refreshes)
            /\ \A i \in 1..Len(r) : record'.refreshes[i] = r[i]
        BY <1>1, <3>2, <3>3, PutFirstFacts
      <4>3. 1 \in 1..Len(r) /\ 1 \in 1..Len(record'.refreshes)
        BY <3>2, <4>1, <4>2
      <4> QED BY <3>2, <4>2, <4>3
    <3>5. NoticedTypes'
      <4>1. told' \in [Orgs -> Nat] /\ describe' \in {0} \cup Orgs /\ seen' \subseteq Orgs
        BY <3>1 DEF Noticing, NoticedTypes
      <4>2. record' \in [id : Orgs, former : SUBSET Orgs, refreshes : Seq(RefreshNotice)]
        <5>1. record.former \cup {record.id} \in SUBSET Orgs
          BY <1>1
        <5> QED BY <2>2, <3>4, <5>1
      <4> QED BY <4>1, <4>2 DEF NoticedTypes
    <3>6. told[o] = 0
      <4>1. ~ (told[o] > 0)
        BY <1>1, <2>1, <2>6 DEF Noticing, Telling
      <4> QED BY <4>1 DEF Noticing, NoticedTypes
    <3>7. AlreadyTold(o)'
      <4>1. ~first.production /\ first.at >= o - 1
        BY <1>1, <2>1
      <4> QED BY <3>4, <4>1 DEF AlreadyTold
    <3>8. \A p \in Orgs : told'[p] = IF p = o THEN 1 ELSE told[p]
      BY <3>1, <3>6 DEF Noticing, NoticedTypes
    <3>9. Telling'
      <4>1. ASSUME NEW p \in Orgs, told'[p] > 0
            PROVE  p <= org'.id /\ (p \in seen' \/ AlreadyTold(p)')
        <5>1. CASE p = o
          BY <1>1, <2>1, <3>7, <5>1
        <5>2. CASE p # o
          BY <3>4, <3>8, <4>1, <5>2, StillTold DEF Noticing, Telling
        <5> QED BY <5>1, <5>2
      <4>2. ToldOnce'
        BY <3>8 DEF Noticing, Telling, ToldOnce
      <4> QED BY <2>1, <2>2, <4>1, <4>2 DEF Telling
    <3>10. NothingOfTheOldOrg'
      BY <3>1 DEF NothingOfTheOldOrg
    <3> QED BY <1>0, <1>1, <2>1, <2>2, <2>3, <3>5, <3>9, <3>10 DEF Noticing
  <2> QED BY <2>5, <2>6
<1> QED BY <1>2, <1>3

(* The production org's tracker reports the refreshes it had not seen. *)
LEMMA FetchedStep ==
    ASSUME WorldTypes, Noticing, Fetched
    PROVE  Noticing' /\ record'.id = record.id /\ pool' \in {Empty, pool}
<1> DEFINE unseen == (2..org.id) \ seen
           telling == {o \in unseen : known /\ ~AlreadyTold(o)}
           n == Cardinality(telling)
           report == [production |-> TRUE, id |-> 0, at |-> started]
           reports == [i \in 1..n |-> report]
<1>1. /\ seen' = seen \cup unseen
      /\ record' = [record EXCEPT !.refreshes = reports \o @]
      /\ told' = [o \in Orgs |-> IF o \in telling THEN told[o] + 1 ELSE told[o]]
      /\ Forget(telling # {}, pool)
      /\ UNCHANGED <<org, started, calls>>
  BY DEF Fetched, World
<1>2. /\ org.id \in Nat /\ org.id \in Orgs /\ started \in Nat
      /\ record.refreshes \in Seq(RefreshNotice) /\ told \in [Orgs -> Nat]
  BY OrgsAreNumbers DEF WorldTypes, Noticing, NoticedTypes
<1>3. unseen \subseteq Orgs /\ \A o \in unseen : o <= org.id
  BY <1>2, BoundAssumption DEF Orgs
<1>4. IsFiniteSet(telling) /\ telling \subseteq unseen
  <2>1. IsFiniteSet(2..org.id)
    BY <1>2, FS_Interval
  <2>2. telling \subseteq 2..org.id
    OBVIOUS
  <2> HIDE DEF telling
  <2>3. IsFiniteSet(telling)
    BY <2>1, <2>2, FS_Subset
  <2> QED BY <2>3 DEF telling
<1>5. n \in Nat /\ (n = 0 <=> telling = {})
  <2> HIDE DEF telling
  <2> QED BY <1>4, FS_EmptySet, FS_CardinalityType
<1>6. reports \in Seq(RefreshNotice) /\ Len(reports) = n /\ \A i \in 1..n : reports[i] = report
  <2>1. report \in RefreshNotice
    BY <1>2 DEF RefreshNotice
  <2> HIDE DEF n, report
  <2> QED BY <1>5, <2>1
<1>7. record'.refreshes = reports \o record.refreshes
      /\ record'.id = record.id /\ record'.former = record.former
  BY <1>1 DEF Noticing, NoticedTypes
<1> HIDE DEF reports, telling, unseen, n
<1>8. /\ record'.refreshes \in Seq(RefreshNotice) /\ Kept(record.refreshes, record'.refreshes)
      /\ Len(record'.refreshes) = n + Len(record.refreshes)
      /\ \A i \in 1..n : record'.refreshes[i] = reports[i]
  BY <1>2, <1>6, <1>7, PutFirstFacts
<1>9. NoticedTypes'
  <2>1. told' \in [Orgs -> Nat] /\ seen' \subseteq Orgs /\ describe' \in {0} \cup Orgs
    BY <1>1, <1>2, <1>3 DEF Forget, Noticing, NoticedTypes
  <2>2. record' \in [id : Orgs, former : SUBSET Orgs, refreshes : Seq(RefreshNotice)]
    BY <1>1, <1>7, <1>8 DEF Noticing, NoticedTypes
  <2> QED BY <2>1, <2>2 DEF NoticedTypes
<1>10. OrgsSeen'
  BY <1>1, <1>7 DEF Noticing, OrgsSeen
<1>11. ASSUME NEW o \in Orgs
       PROVE  told'[o] = IF o \in telling THEN 1 ELSE told[o]
  <2>1. CASE o \in telling
    <3>1. ~ (told[o] > 0)
      BY <2>1 DEF telling, unseen, Noticing, Telling
    <3> QED BY <1>1, <1>2, <2>1, <3>1
  <2>2. CASE o \notin telling
    BY <1>1, <2>2
  <2> QED BY <2>1, <2>2
<1>12. ASSUME NEW o \in Orgs, told'[o] > 0
       PROVE  o <= org'.id /\ (o \in seen' \/ AlreadyTold(o)')
  <2>1. CASE o \in telling
    BY <1>1, <1>3, <1>4, <2>1
  <2>2. CASE o \notin telling
    BY <1>1, <1>8, <1>11, <1>12, <2>2, StillTold DEF Noticing, Telling
  <2> QED BY <2>1, <2>2
<1>13. ToldOnce'
  BY <1>11 DEF ToldOnce, Noticing, Telling
<1>14. CASE telling # {}
  <2>1. describe' = 0 /\ pool' = Empty
    BY <1>1, <1>14 DEF Forget
  <2>2. Pending'
    <3>1. 1 \in 1..n /\ Len(record.refreshes) \in Nat
      BY <1>2, <1>5, <1>14
    <3>2. record'.refreshes[1] = report /\ Len(record'.refreshes) > 0
      <4> HIDE DEF report
      <4>1. record'.refreshes[1] = reports[1] /\ reports[1] = report
        BY <1>6, <1>8, <3>1
      <4> QED BY <1>5, <1>8, <3>1, <4>1
    <3>3. record'.refreshes # <<>> /\ Head(record'.refreshes) = report
      BY <1>8, <3>2
    <3> QED BY <3>3 DEF Pending
  <2>3. Telling'
    BY <1>12, <1>13, <2>2 DEF Telling
  <2>4. NothingOfTheOldOrg'
    BY <2>1 DEF NothingOfTheOldOrg
  <2> QED BY <1>7, <1>9, <1>10, <2>1, <2>3, <2>4 DEF Noticing
<1>15. CASE telling = {}
  <2>1. describe' = describe /\ pool' = pool /\ \A o \in Orgs : told'[o] = told[o]
    BY <1>1, <1>11, <1>15 DEF Forget
  <2>2. record'.refreshes = record.refreshes
    <3>1. reports = <<>>
      BY <1>5, <1>6, <1>15, EmptySeq
    <3> QED BY <1>2, <1>7, <3>1, ConcatEmptySeq
  <2>3. Pending' <=> Pending
    BY <2>2 DEF Pending
  <2>4. Telling'
    BY <1>1, <1>2, <1>7, <1>12, <1>13, <2>1, <2>3 DEF Telling, Noticing
  <2>5. NothingOfTheOldOrg'
    BY <1>7, <2>1 DEF NothingOfTheOldOrg, Noticing, NoticedTypes
  <2> QED BY <1>7, <1>9, <1>10, <2>1, <2>4, <2>5 DEF Noticing
<1> QED BY <1>14, <1>15

-----------------------------------------------------------------------------
(* The sandbox and the CLI. *)

LEMMA RenewStep ==
    ASSUME WorldTypes, Renew, UNCHANGED <<started, able>>
    PROVE  WorldTypes' /\ org'.id = org.id
<1>1. CASE ~Renews
  BY <1>1 DEF WorldTypes, Renew
<1>2. CASE Renews
  <2>1. /\ org' = [org EXCEPT !.last = @ + 1, !.alive = @ \cup {org.last + 1}]
        /\ cli' = [url |-> org.url, token |-> org.last + 1, org |-> org.id]
    BY <1>2 DEF Renew
  <2>2. /\ org' \in [id : Orgs, url : Nat \ {0}, alive : SUBSET Nat, last : Nat]
        /\ org'.id = org.id
    <3> DEFINE l == org.last + 1
               a == org.alive \cup {l}
    <3>1. /\ org \in [id : Orgs, url : Nat \ {0}, alive : SUBSET Nat, last : Nat]
          /\ l \in Nat /\ a \in SUBSET Nat
      BY DEF WorldTypes
    <3>2. org' = [org EXCEPT !.last = l, !.alive = a]
      BY <2>1
    <3> HIDE DEF l, a
    <3> QED BY <3>1, <3>2
  <2>3. cli' \in [url : Nat \ {0}, token : Nat, org : Orgs]
    BY <2>1 DEF WorldTypes
  <2> QED BY <2>2, <2>3 DEF WorldTypes
<1> QED BY <1>1, <1>2

LEMMA WorldStep ==
    ASSUME WorldTypes, Next
    PROVE  WorldTypes'
<1>1. CASE UNCHANGED World
  BY <1>1 DEF WorldTypes, World
<1>2. CASE Renew /\ UNCHANGED <<started, able>>
  BY <1>2, RenewStep
<1>3. ASSUME NEW t \in org.alive, Expire(t) PROVE WorldTypes'
  BY <1>3 DEF Expire, WorldTypes
<1>4. CASE Move
  BY <1>4 DEF Move, WorldTypes
<1>5. CASE RefreshStarts
  BY <1>5, OrgsAreNumbers, BoundAssumption DEF RefreshStarts, WorldTypes
<1>6. CASE RefreshCompletes
  <2>1. org.id + 1 \in Orgs /\ org.id \in Nat
    BY <1>6, BoundAssumption DEF RefreshCompletes, WorldTypes, Orgs
  <2>2. /\ org' \in [id : Orgs, url : Nat \ {0}, alive : SUBSET Nat, last : Nat]
        /\ org'.id = org.id + 1
    <3> DEFINE i == org.id + 1
               u == org.url + 1
    <3>1. /\ org \in [id : Orgs, url : Nat \ {0}, alive : SUBSET Nat, last : Nat]
          /\ i \in Orgs /\ u \in Nat \ {0}
      BY <2>1 DEF WorldTypes
    <3>2. org' = [org EXCEPT !.id = i, !.url = u, !.alive = {}]
      BY <1>6 DEF RefreshCompletes
    <3>3. i = org.id + 1
      OBVIOUS
    <3> HIDE DEF i, u
    <3> QED BY <3>1, <3>2, <3>3
  <2>3. started' = org.id /\ started \in Nat /\ started <= MaxRefreshes
        /\ cli' = cli /\ able' = able
    BY <1>6 DEF RefreshCompletes, WorldTypes
  <2>4. org'.id - 1 <= started' /\ started' <= org'.id /\ started' <= MaxRefreshes
        /\ started' \in Nat
    BY <1>6, <2>1, <2>2, <2>3 DEF RefreshCompletes
  <2> QED BY <2>2, <2>3, <2>4 DEF WorldTypes
<1>7. CASE CliLosesSession \/ CliLogin
  BY <1>7 DEF CliLosesSession, CliLogin, WorldTypes
<1> QED BY <1>1, <1>2, <1>3, <1>4, <1>5, <1>6, <1>7
     DEF Next, CallStep, Begin, Read, OrgAnswers, Validated, Rejected, CliAnswers, Rechecked,
         Recovered, Failed, GivesUp, MonitorReads, MonitorReports, Fetched, Describe, DescribeGoes, Age,
         evictOldest, Import, ImportSaves, ImportStored, ImportFails, Disconnect, VaultDeletes, VaultKeeps,
         Disconnected

-----------------------------------------------------------------------------
(* The calls and the entry. *)

(* A call goes on to a state it may be in, the others stay where they are. *)
LEMMA GoesStep ==
    ASSUME CallTypes, NEW c \in Call, NEW s \in CallState, Goes(c, s),
           s.at \notin {"idle", "reading"} => s.cred \in Good,
           s.at \in {"answered", "saving"} => s.says # 0,
           conn' \in Nat
    PROVE  CallTypes' /\ calls'[c] = s /\ \A d \in Call \ {c} : calls'[d] = calls[d]
BY DEF CallTypes, Goes

LEMMA IdleState ==
    /\ Idle \in CallState /\ Idle.at = "idle" /\ Idle.says = 0
    /\ None \notin Good
BY DEF Idle, CallState, Places, None, Good

LEMMA EndsStep ==
    ASSUME CallTypes, NEW c \in Call, Ends(c), conn' \in Nat
    PROVE  CallTypes' /\ calls'[c] = Idle /\ \A d \in Call \ {c} : calls'[d] = calls[d]
BY IdleState, GoesStep DEF Ends

LEMMA CallTypesStep ==
    ASSUME Types, Next
    PROVE  CallTypes'
<1> USE DEF Types
<1>1. CASE calls' = calls /\ conn' \in {0, conn}
  BY <1>1 DEF CallTypes
<1>2. ASSUME NEW c \in Call, Begin(c) PROVE CallTypes'
  <2> DEFINE s == [Idle EXCEPT !.at = "reading"]
  <2>1. s \in CallState /\ s.at = "reading"
    BY DEF Idle, CallState, Places
  <2>2. Goes(c, s) /\ conn' \in Nat
    BY <1>2 DEF Begin, CallTypes
  <2> HIDE DEF s
  <2> QED BY <2>1, <2>2, GoesStep
<1>3. ASSUME NEW c \in Call, Read(c) PROVE CallTypes'
  <2>1. CASE Ends(c) /\ conn' \in {conn, 0, pool.token}
    BY <2>1, EndsStep DEF CallTypes, EntryTypes
  <2>2. CASE HasCredentials /\ Goes(c, [Idle EXCEPT !.at = "asking", !.cred = vault])
             /\ UNCHANGED conn
    <3> DEFINE s == [Idle EXCEPT !.at = "asking", !.cred = vault]
    <3>1. vault \in Good
      BY <2>2 DEF EntryTypes, HasCredentials
    <3>2. s \in CallState /\ s.at = "asking" /\ s.cred = vault
      BY <3>1 DEF Idle, CallState, Places
    <3> HIDE DEF s
    <3>3. Goes(c, s) /\ conn' \in Nat
      BY <2>2 DEF CallTypes, s
    <3> QED BY <3>1, <3>2, <3>3, GoesStep
  <2> QED BY <1>3, <2>1, <2>2 DEF Read, HandOut
<1>4. ASSUME NEW c \in Call, OrgAnswers(c) PROVE CallTypes'
  <2> DEFINE s == [calls[c] EXCEPT !.at = "answered", !.says = org.id]
  <2>1. calls[c] \in CallState /\ calls[c].cred \in Good /\ org.id \in Orgs /\ org.id # 0
    BY <1>4, OrgsAreNumbers DEF OrgAnswers, CallTypes, WorldTypes
  <2>2. s \in CallState /\ s.at = "answered" /\ s.cred = calls[c].cred /\ s.says = org.id
    BY <2>1 DEF CallState, Places
  <2>3. Goes(c, s) /\ conn' \in Nat
    BY <1>4 DEF OrgAnswers, CallTypes
  <2> HIDE DEF s
  <2> QED BY <2>1, <2>2, <2>3, GoesStep
<1>5. ASSUME NEW c \in Call, Validated(c) \/ Recovered(c) PROVE CallTypes'
  <2>1. calls[c].cred \in Good
    BY <1>5 DEF Validated, Recovered, CallTypes
  <2>2. Ends(c) /\ conn' \in Nat
    BY <1>5, <2>1 DEF Validated, Recovered, HandOut, Good
  <2> QED BY <2>2, EndsStep
<1>6. ASSUME NEW c \in Call, Rejected(c) PROVE CallTypes'
  <2> DEFINE s == [calls[c] EXCEPT !.at = "renewing"]
  <2>1. calls[c] \in CallState /\ calls[c].cred \in Good
    BY <1>6 DEF Rejected, CallTypes
  <2>2. s \in CallState /\ s.at = "renewing" /\ s.cred = calls[c].cred
    BY <2>1 DEF CallState, Places
  <2>3. Goes(c, s) /\ conn' \in Nat
    BY <1>6 DEF Rejected, CallTypes
  <2> HIDE DEF s
  <2> QED BY <2>1, <2>2, <2>3, GoesStep
<1>7. ASSUME NEW c \in Call, CliAnswers(c) PROVE CallTypes'
  <2>1. calls[c].cred \in Good /\ cli.url \in Nat \ {0} /\ cli'.token \in Nat
    <3>1. WorldTypes'
      BY <1>7, RenewStep DEF CliAnswers
    <3> QED BY <1>7, <3>1 DEF CliAnswers, CallTypes, WorldTypes
  <2>2. PICK url \in {cli.url, calls[c].cred.url} :
          LET fresh == [url |-> url, token |-> cli'.token]
          IN  IF fresh = calls[c].cred THEN Ends(c)
              ELSE Goes(c, [Idle EXCEPT !.at = "rechecking", !.cred = fresh])
    BY <1>7 DEF CliAnswers
  <2> DEFINE fresh == [url |-> url, token |-> cli'.token]
             s == [Idle EXCEPT !.at = "rechecking", !.cred = fresh]
  <2>3. fresh \in Good
    BY <2>1 DEF Good
  <2> HIDE DEF fresh
  <2>4. s \in CallState /\ s.at = "rechecking" /\ s.cred = fresh
    BY <2>3 DEF Idle, CallState, Places
  <2>5. Ends(c) \/ Goes(c, s)
    BY <2>2 DEF fresh
  <2>6. conn' \in Nat
    BY <1>7 DEF CliAnswers, CallTypes
  <2> HIDE DEF s
  <2> QED BY <2>3, <2>4, <2>5, <2>6, GoesStep, EndsStep
<1>8. ASSUME NEW c \in Call, Rechecked(c) PROVE CallTypes'
  <2> DEFINE s == [calls[c] EXCEPT !.at = "saving", !.says = org.id]
  <2>1. calls[c] \in CallState /\ calls[c].cred \in Good /\ org.id \in Orgs /\ org.id # 0
    BY <1>8, OrgsAreNumbers DEF Rechecked, CallTypes, WorldTypes
  <2>2. s \in CallState /\ s.at = "saving" /\ s.cred = calls[c].cred /\ s.says = org.id
    BY <2>1 DEF CallState, Places
  <2>3. (Goes(c, s) \/ Ends(c)) /\ conn' \in Nat
    BY <1>8 DEF Rechecked, CallTypes
  <2> HIDE DEF s
  <2> QED BY <2>1, <2>2, <2>3, GoesStep, EndsStep
<1>9. ASSUME NEW c \in Call, Failed(c) \/ GivesUp(c) PROVE CallTypes'
  BY <1>9, EndsStep DEF Failed, GivesUp, CallTypes
<1> QED BY <1>1, <1>2, <1>3, <1>4, <1>5, <1>6, <1>7, <1>8, <1>9
     DEF Next, CallStep, Expire, Move, RefreshStarts, RefreshCompletes, CliLosesSession, CliLogin,
         MonitorReads, MonitorReports, Fetched, Describe, DescribeGoes, Age, evictOldest, Import, ImportSaves,
         ImportStored, ImportFails, Disconnect, VaultDeletes, VaultKeeps,
         Disconnected

LEMMA EntryTypesStep ==
    ASSUME Types, Next
    PROVE  EntryTypes'
<1> DEFINE Pooled == [url : Nat, token : Nat, recent : BOOLEAN]
<1> USE DEF Types
<1>0. Empty \in Pooled /\ None \in Good \cup {None}
  BY DEF Empty
<1>1. CASE UNCHANGED <<known, vault, import, leaving, clean, gone>> /\ pool' \in {Empty, pool}
  BY <1>0, <1>1 DEF EntryTypes
<1>2. ASSUME NEW c \in Call, Begin(c) PROVE EntryTypes'
  BY <1>2 DEF Begin, EntryTypes, Entry, Cached, Others
<1>3. ASSUME NEW c \in Call, Validated(c) \/ Recovered(c) PROVE EntryTypes'
  <2>1. calls[c].cred \in Good
    BY <1>3 DEF Validated, Recovered, CallTypes
  <2>2. acquire(calls[c].cred) \in Pooled
    BY <2>1 DEF acquire, EntryTypes, Good
  <2>3. pool' \in {Empty, acquire(calls[c].cred)}
    BY <1>3 DEF Validated, Recovered, Observe, Forget
  <2>4. /\ UNCHANGED <<known, import, leaving, clean, gone>>
        /\ vault' \in {vault, calls[c].cred}
    BY <1>3 DEF Validated, Recovered, Entry, Others, History
  <2> HIDE DEF Pooled
  <2>5. pool' \in Pooled /\ vault' \in Good \cup {None}
    BY <1>0, <2>1, <2>2, <2>3, <2>4 DEF EntryTypes
  <2> QED BY <2>4, <2>5 DEF EntryTypes, Pooled
<1>4. ASSUME NEW c \in Call, Rechecked(c) PROVE EntryTypes'
  BY <1>4 DEF Rechecked, EntryTypes, Cached, Others, History
<1>5. CASE Age
  BY <1>5 DEF Age, EntryTypes, Entry, Others, History
<1>6. CASE Import
  <2>1. cli'.url \in Nat \ {0} /\ cli'.token \in Nat /\ cli'.org \in Orgs
    <3>1. WorldTypes'
      BY <1>6, RenewStep DEF Import
    <3> QED BY <3>1 DEF WorldTypes
  <2>2. import' \in [at : {"idle", "listed", "saving"}, cred : Good \cup {None},
                     org : {0} \cup Orgs]
    BY <1>6, <2>1 DEF Import, Good
  <2> QED BY <1>6, <2>2 DEF Import, EntryTypes, Entry, Cached, History
<1>7. CASE ImportSaves
  <2>1. import' \in [at : {"idle", "listed", "saving"}, cred : Good \cup {None},
                     org : {0} \cup Orgs]
    BY <1>7 DEF ImportSaves, EntryTypes, NoImport
  <2> QED BY <1>7, <2>1 DEF ImportSaves, EntryTypes, Cached
<1>8. CASE ImportStored \/ ImportFails
  <2>1. import' \in [at : {"idle", "listed", "saving"}, cred : Good \cup {None},
                     org : {0} \cup Orgs]
    BY <1>8 DEF ImportStored, ImportFails, NoImport
  <2> QED BY <1>8, <2>1 DEF ImportStored, ImportFails, EntryTypes, Entry, Cached, History
<1>9. CASE Disconnect
  BY <1>0, <1>9 DEF Disconnect, EntryTypes, Entry, Quiet
<1>10. CASE VaultDeletes \/ VaultKeeps
  BY <1>10 DEF VaultDeletes, VaultKeeps, EntryTypes, Entry, Cached, History
<1>11. CASE Disconnected
  BY <1>11 DEF Disconnected, EntryTypes, Cached
<1> QED BY <1>1, <1>2, <1>3, <1>4, <1>5, <1>6, <1>7, <1>8, <1>9, <1>10, <1>11
     DEF Next, CallStep, Read, OrgAnswers, Rejected, CliAnswers, Failed, GivesUp, Expire, Move,
         RefreshStarts, RefreshCompletes, CliLosesSession, CliLogin, MonitorReads, MonitorReports, Fetched,
         Observe, Forget, Describe, DescribeGoes, evictOldest, Entry, Cached, Others, History

-----------------------------------------------------------------------------
(* Disconnecting. *)

LEMMA DisconnectingStep ==
    ASSUME Types, Disconnecting, Next
    PROVE  Disconnecting'
<1>1. CASE UNCHANGED <<known, vault, import, leaving, clean, gone, calls>>
           /\ pool' \in {Empty, pool}
  BY <1>1 DEF Disconnecting
<1>2. CASE ~clean' /\ ~gone'
  BY <1>2 DEF Disconnecting
<1>3. ASSUME NEW c \in Call, Begin(c) PROVE Disconnecting'
  <2>1. ~clean' /\ ~gone'
    BY <1>3 DEF Begin, Disconnecting
  <2> QED BY <2>1, <1>2
<1>4. ASSUME NEW c \in Call, calls[c].at # "idle", UNCHANGED History PROVE Disconnecting'
  <2>1. ~clean /\ ~gone
    BY <1>4, IdleState DEF Disconnecting
  <2> QED BY <1>2, <1>4, <2>1 DEF History
<1>5. CASE Age
  <2>1. pool # Empty
    BY <1>5 DEF Age, Empty
  <2> QED BY <1>2, <1>5, <2>1 DEF Age, Disconnecting, History
<1>6. CASE Import
  <2>1. import'.at = "listed"
    BY <1>6 DEF Import
  <2> QED BY <1>6, <2>1 DEF Import, Disconnecting, Entry, Cached, History
<1>7. CASE ImportSaves
  <2>1. ~clean'
    BY <1>7 DEF ImportSaves, Disconnecting
  <2>2. CASE gone' = FALSE
    BY <1>2, <2>1, <2>2
  <2>3. CASE import' = NoImport /\ UNCHANGED <<known, gone>>
    BY <1>7, <2>1, <2>3 DEF ImportSaves, Disconnecting, Cached, NoImport
  <2> QED BY <1>7, <2>2, <2>3 DEF ImportSaves
<1>8. CASE ImportStored \/ ImportFails
  BY <1>2, <1>8 DEF ImportStored, ImportFails, Disconnecting, History
<1>9. CASE Disconnect
  <2>1. ~gone /\ leaving' = "vault" /\ pool' = Empty
    BY <1>9 DEF Disconnect, Disconnecting
  <2>2. clean' => (\A c \in Call : calls'[c] = Idle) /\ import' = NoImport
    BY <1>9 DEF Disconnect, Quiet
  <2>3. NoImport.at = "idle"
    BY DEF NoImport
  <2> QED BY <1>9, <2>1, <2>2, <2>3 DEF Disconnect, Disconnecting
<1>10. CASE VaultDeletes \/ VaultKeeps
  BY <1>10 DEF VaultDeletes, VaultKeeps, Disconnecting, Cached, History
<1>11. CASE Disconnected
  BY <1>11 DEF Disconnected, Disconnecting, Cached
<1> QED BY <1>1, <1>3, <1>4, <1>5, <1>6, <1>7, <1>8, <1>9, <1>10, <1>11
     DEF Next, CallStep, Read, OrgAnswers, Validated, Rejected, CliAnswers, Rechecked, Recovered,
         Failed, GivesUp, Expire, Move, RefreshStarts, RefreshCompletes, CliLosesSession,
         CliLogin, MonitorReads, MonitorReports, Fetched, Observe, Forget, Describe, DescribeGoes, evictOldest,
         Entry, Cached, Others, History

-----------------------------------------------------------------------------
(* Noticing. *)

(* The answers under way, as an action leaves them. *)
Answers == \A c \in Call : calls'[c].says \in {0, org.id, record.id} \cup record.former

LEMMA AnswersStep ==
    ASSUME Types, OrgsSeen, Next
    PROVE  Answers
<1> USE DEF Types
<1>1. CASE calls' = calls
  BY <1>1 DEF Answers, OrgsSeen
<1>2. ASSUME NEW c \in Call, NEW s, Goes(c, s), s.says \in {0, org.id, calls[c].says}
      PROVE  Answers
  <2>1. \A d \in Call : calls'[d] = IF d = c THEN s ELSE calls[d]
    BY <1>2 DEF Goes, CallTypes
  <2> QED BY <1>2, <2>1 DEF Answers, OrgsSeen
<1>3. ASSUME NEW c \in Call, Ends(c) PROVE Answers
  BY <1>2, <1>3, IdleState DEF Ends
<1>4. ASSUME NEW c \in Call, Begin(c) \/ Read(c) PROVE Answers
  <2> DEFINE s == [Idle EXCEPT !.at = "reading"]
             t == [Idle EXCEPT !.at = "asking", !.cred = vault]
  <2>1. s.says = 0 /\ t.says = 0
    BY DEF Idle
  <2>2. Goes(c, s) \/ Goes(c, t) \/ Ends(c)
    BY <1>4 DEF Begin, Read
  <2> HIDE DEF s, t
  <2> QED BY <1>2, <1>3, <2>1, <2>2
<1>5. ASSUME NEW c \in Call, OrgAnswers(c) \/ Rejected(c) \/ Rechecked(c) PROVE Answers
  <2> DEFINE s == [calls[c] EXCEPT !.at = "answered", !.says = org.id]
             t == [calls[c] EXCEPT !.at = "renewing"]
             u == [calls[c] EXCEPT !.at = "saving", !.says = org.id]
  <2>1. s.says = org.id /\ t.says = calls[c].says /\ u.says = org.id
    BY DEF CallTypes, CallState
  <2>2. Goes(c, s) \/ Goes(c, t) \/ Goes(c, u) \/ Ends(c)
    BY <1>5 DEF OrgAnswers, Rejected, Rechecked
  <2> HIDE DEF s, t, u
  <2> QED BY <1>2, <1>3, <2>1, <2>2
<1>6. ASSUME NEW c \in Call, CliAnswers(c) PROVE Answers
  <2>1. PICK fresh : Ends(c) \/ Goes(c, [Idle EXCEPT !.at = "rechecking", !.cred = fresh])
    BY <1>6 DEF CliAnswers
  <2> DEFINE s == [Idle EXCEPT !.at = "rechecking", !.cred = fresh]
  <2>2. s.says = 0
    BY DEF Idle
  <2> HIDE DEF s
  <2>3. Ends(c) \/ Goes(c, s)
    BY <2>1 DEF s
  <2> QED BY <1>2, <1>3, <2>2, <2>3
<1> QED BY <1>1, <1>3, <1>4, <1>5, <1>6
     DEF Next, CallStep, Validated, Recovered, Failed, GivesUp, Expire, Move, RefreshStarts,
         RefreshCompletes, CliLosesSession, CliLogin, MonitorReads, MonitorReports, Fetched, Describe,
         DescribeGoes, Age, evictOldest, Import, ImportSaves, ImportStored, ImportFails,
         Disconnect, VaultDeletes, VaultKeeps, Disconnected

(* What the detector has on record stays there. *)
LEMMA RecordGrows ==
    ASSUME Types, Next
    PROVE  {record.id} \cup record.former \subseteq {record'.id} \cup record'.former
<1> USE DEF Types, NoticedTypes
<1>1. CASE record' = record
  BY <1>1
<1>2. ASSUME NEW o, NEW before, Observe(o, before)
      PROVE  {record.id} \cup record.former \subseteq {record'.id} \cup record'.former
  <2>1. CASE ~Reveals(o)
    BY <1>1, <1>2, <2>1 DEF Observe, Observed
  <2>2. CASE Reveals(o)
    <3>1. record'.former = record.former \cup {record.id}
      BY <1>2, <2>2 DEF Observe, Observed
    <3> QED BY <3>1
  <2> QED BY <2>1, <2>2
<1>3. CASE Fetched
  <2>1. record'.id = record.id /\ record'.former = record.former
    BY <1>3 DEF Fetched
  <2> QED BY <2>1
<1> QED BY <1>1, <1>2, <1>3
     DEF Next, CallStep, Begin, Read, OrgAnswers, Validated, Rejected, CliAnswers, Rechecked,
         Recovered, Failed, GivesUp, Expire, Move, RefreshStarts, RefreshCompletes,
         CliLosesSession, CliLogin, MonitorReads, MonitorReports, Describe, DescribeGoes, Age,
         evictOldest, Import, ImportSaves, ImportStored, ImportFails, Disconnect, VaultDeletes,
         VaultKeeps, Disconnected, Noticed

(* The sandbox becomes another org by a refresh that completes. *)
LEMMA SameOrg ==
    ASSUME Types, Next, ~RefreshCompletes
    PROVE  org'.id = org.id
<1> USE DEF Types
<1>1. CASE org' = org
  BY <1>1
<1>2. ASSUME NEW t \in org.alive, Expire(t) PROVE org'.id = org.id
  BY <1>2 DEF Expire, WorldTypes
<1>3. CASE Move
  BY <1>3 DEF Move, WorldTypes
<1>4. ASSUME Renew, UNCHANGED <<started, able>> PROVE org'.id = org.id
  BY <1>4, RenewStep
<1> QED BY <1>1, <1>2, <1>3, <1>4
     DEF Next, CallStep, Begin, Read, OrgAnswers, Validated, Rejected, CliAnswers, Rechecked,
         Recovered, Failed, GivesUp, RefreshStarts, CliLosesSession, CliLogin, MonitorReads,
         MonitorReports, Fetched, Describe, DescribeGoes, Age, evictOldest, Import,
         ImportSaves, ImportStored, ImportFails, Disconnect, VaultDeletes, VaultKeeps,
         Disconnected, World

LEMMA MonitorStep ==
    ASSUME Types, MonitorKnown, Next
    PROVE  MonitorKnown'
<1>1. CASE RefreshCompletes
  <2>1. UNCHANGED <<record, monitor>> /\ monitor \in {0, record.id}
    BY <1>1 DEF RefreshCompletes, Noticed, Others
  <2> QED BY <2>1 DEF MonitorKnown
<1>2. CASE ~RefreshCompletes
  <2>1. monitor' \in {0, monitor, org.id}
    BY <1>2 DEF Next, CallStep, Begin, Read, OrgAnswers, Validated, Rejected, CliAnswers,
         Rechecked, Recovered, Failed, GivesUp, Expire, Move, RefreshStarts, CliLosesSession,
         CliLogin, MonitorReads, MonitorReports, Fetched, Describe, DescribeGoes, Age,
         evictOldest, Import, ImportSaves, ImportStored, ImportFails, Disconnect, VaultDeletes,
         VaultKeeps, Disconnected, Others
  <2> QED BY <1>2, <2>1, RecordGrows, SameOrg DEF MonitorKnown
<1> QED BY <1>1, <1>2

LEMMA NoticingStep ==
    ASSUME Types, Noticing, MonitorKnown, Next
    PROVE  Noticing' /\ record'.id >= record.id
<1>1. Answers
  BY AnswersStep DEF Noticing
<1>2. /\ WorldTypes /\ org.id \in Orgs /\ org.id \in Nat /\ record.id \in Nat
      /\ \A o \in Orgs : o \in Nat \ {0}
  BY OrgsAreNumbers DEF Types, WorldTypes, NoticedTypes
<1>3. CASE UNCHANGED <<record, told, seen, describe>> /\ org'.id = org.id
  BY <1>1, <1>2, <1>3, NothingNoticed DEF Answers
<1>4. CASE MonitorReports
  <2>1. monitor \in Orgs /\ monitor \in {org.id, record.id} \cup record.former
    BY <1>2, <1>4 DEF MonitorReports, MonitorKnown, Types, NoticedTypes
  <2> QED BY <1>1, <1>2, <1>4, <2>1, ObserveStep DEF MonitorReports, World, Answers
<1>5. ASSUME NEW c \in Call, Validated(c) \/ Recovered(c)
      PROVE  Noticing' /\ record'.id >= record.id
  <2> DEFINE o == calls[c].says
  <2>1. o \in Orgs /\ o \in {org.id, record.id} \cup record.former
    BY <1>5 DEF Validated, Recovered, Types, CallTypes, CallState, Noticing, OrgsSeen
  <2>2. PICK before : Observe(o, before)
    BY <1>5 DEF Validated, Recovered
  <2>3. UNCHANGED <<org, started, seen>>
    BY <1>5 DEF Validated, Recovered, World, Others
  <2> HIDE DEF o
  <2> QED BY <1>1, <1>2, <2>1, <2>2, <2>3, ObserveStep DEF Answers
<1>6. CASE Fetched
  <2>1. Noticing' /\ record'.id = record.id
    BY <1>2, <1>6, FetchedStep
  <2> QED BY <1>2, <2>1
<1>7. CASE Describe \/ DescribeGoes
  <2>1. /\ describe' \in {0, org.id}
        /\ UNCHANGED <<org, record, told, seen, calls>>
    BY <1>7 DEF Describe, DescribeGoes, World, Noticed, Others
  <2>2. \A o \in Orgs : told[o] > 0 => org.id >= o
    BY <1>2 DEF Noticing, Telling
  <2>3. org.id \notin record.former
    BY <1>2 DEF Noticing, OrgsSeen, NoticedTypes
  <2>4. NothingOfTheOldOrg'
    BY <2>1, <2>2, <2>3 DEF NothingOfTheOldOrg
  <2>5. NoticedTypes' /\ OrgsSeen' /\ Telling'
    BY <1>2, <2>1 DEF Noticing, NoticedTypes, OrgsSeen, Telling, ToldOnce, Pending, AlreadyTold
  <2> QED BY <1>2, <2>1, <2>4, <2>5 DEF Noticing
<1>8. CASE RefreshCompletes
  <2>1. /\ org'.id = org.id + 1 /\ org'.id \in Orgs
        /\ \A c \in Call : calls'[c].says \in {0, record.id}
        /\ UNCHANGED <<record, told, seen, describe, calls>>
    <3>1. WorldTypes'
      BY <1>2, WorldStep
    <3>2. org'.id = org.id + 1
      BY <1>8 DEF RefreshCompletes, Types, WorldTypes
    <3> QED BY <1>8, <3>1, <3>2 DEF RefreshCompletes, WorldTypes, Cached, Noticed, Others
  <2>2. told[org'.id] = 0
    <3>1. ~ (told[org'.id] > 0)
      BY <1>2, <2>1 DEF Noticing, Telling
    <3> QED BY <2>1, <3>1 DEF Noticing, NoticedTypes
  <2>3. OrgsSeen'
    BY <1>2, <2>1 DEF Noticing, OrgsSeen
  <2>4. Telling'
    <3>1. \A o \in Orgs : told'[o] > 0 => o <= org'.id /\ (o \in seen' \/ AlreadyTold(o)')
      BY <1>2, <2>1 DEF Noticing, Telling, AlreadyTold
    <3> QED BY <2>1, <2>2, <3>1 DEF Noticing, Telling, ToldOnce
  <2>5. NoticedTypes' /\ NothingOfTheOldOrg'
    BY <2>1 DEF Noticing, NoticedTypes, NothingOfTheOldOrg
  <2> QED BY <1>2, <2>1, <2>3, <2>4, <2>5 DEF Noticing
<1>9. ~RefreshCompletes => org'.id = org.id
  BY SameOrg
<1> QED BY <1>3, <1>4, <1>5, <1>6, <1>7, <1>8, <1>9
     DEF Next, CallStep, Begin, Read, OrgAnswers, Rejected, CliAnswers, Rechecked, Failed,
         GivesUp, Expire, Move, RefreshStarts, CliLosesSession, CliLogin, MonitorReads, Age,
         evictOldest, Import, ImportSaves, ImportStored, ImportFails, Disconnect, VaultDeletes,
         VaultKeeps, Disconnected, Cached, Noticed, Others

-----------------------------------------------------------------------------
(* The invariant. *)

LEMMA InitIInv == Init => IInv
<1> SUFFICES ASSUME Init PROVE IInv
  OBVIOUS
<1> USE DEF Init
<1>1. 1 \in Orgs /\ \A o \in Orgs : o \in Nat \ {0}
  BY BoundAssumption, OrgsAreNumbers DEF Orgs
<1>2. WorldTypes
  BY <1>1, BoundAssumption DEF WorldTypes
<1>3. EntryTypes
  BY DEF EntryTypes, Good, None, Empty, NoImport
<1>4. CallTypes
  BY IdleState DEF CallTypes
<1>5. NoticedTypes
  BY <1>1 DEF NoticedTypes
<1>6. Disconnecting
  BY DEF Disconnecting
<1>7. OrgsSeen
  BY IdleState DEF OrgsSeen
<1>8. Telling /\ NothingOfTheOldOrg /\ MonitorKnown
  BY <1>1 DEF Telling, ToldOnce, NothingOfTheOldOrg, MonitorKnown
<1> QED BY <1>2, <1>3, <1>4, <1>5, <1>6, <1>7, <1>8 DEF IInv, Types

LEMMA NextIInv == IInv /\ [Next]_vars => IInv'
<1> SUFFICES ASSUME IInv, [Next]_vars PROVE IInv'
  OBVIOUS
<1>1. Types /\ Noticing /\ Disconnecting /\ MonitorKnown
  BY DEF IInv, Types, Noticing
<1>2. CASE Next
  <2>1. /\ WorldTypes' /\ EntryTypes' /\ CallTypes' /\ Disconnecting' /\ Noticing'
        /\ MonitorKnown'
    BY <1>1, <1>2, WorldStep, EntryTypesStep, CallTypesStep, DisconnectingStep, NoticingStep,
       MonitorStep
       DEF Types
  <2> QED BY <2>1 DEF IInv, Types, Noticing
<1>3. CASE UNCHANGED vars
  <2>1. WorldTypes' /\ EntryTypes' /\ CallTypes' /\ NoticedTypes' /\ Disconnecting'
    BY <1>1, <1>3 DEF vars, Types, WorldTypes, EntryTypes, CallTypes, NoticedTypes, Disconnecting
  <2>2. OrgsSeen' /\ MonitorKnown' /\ Telling' /\ NothingOfTheOldOrg'
    BY <1>1, <1>3 DEF vars, Noticing, OrgsSeen, MonitorKnown, Telling, ToldOnce, Pending, AlreadyTold,
         NothingOfTheOldOrg
  <2> QED BY <2>1, <2>2 DEF IInv, Types
<1> QED BY <1>2, <1>3

LEMMA Invariant == Spec => []IInv
BY InitIInv, NextIInv, PTL DEF Spec

-----------------------------------------------------------------------------
(* The theorems. *)

(***************************************************************************)
(* The state has its types: in particular no empty credentials are ever    *)
(* shown to the org.                                                       *)
(***************************************************************************)
THEOREM TypesHold == Spec => []TypeOK
<1>1. IInv => TypeOK
  <2> SUFFICES ASSUME IInv PROVE TypeOK
    OBVIOUS
  <2>1. Good \subseteq Cred /\ None \in Cred /\ None \notin Good
    BY DEF Good, Cred, None
  <2>2. \A c \in Call :
          /\ calls[c].at \in Places /\ calls[c].cred \in Cred
          /\ calls[c].at \notin {"idle", "reading"} => calls[c].cred # None
          /\ calls[c].says \in {0} \cup Orgs
    BY <2>1 DEF IInv, Types, CallTypes, CallState
  <2>3. vault \in Cred /\ import.cred \in Cred /\ import.at \in {"idle", "listed", "saving"}
    BY <2>1 DEF IInv, Types, EntryTypes
  <2>4. monitor \in {0} \cup Orgs
    BY DEF IInv, Types, WorldTypes, NoticedTypes, MonitorKnown
  <2> QED BY <2>2, <2>3, <2>4 DEF IInv, Types, WorldTypes, EntryTypes, CallTypes, NoticedTypes,
        TypeOK, Places
<1> QED BY <1>1, Invariant, PTL

(***************************************************************************)
(* handleOrgDisconnect: with any number of calls that may begin, renew and *)
(* save side by side, an org disconnected with nothing under way leaves no *)
(* token, no credentials and no entry, and none come back on their own.    *)
(***************************************************************************)
THEOREM DisconnectHolds == Spec => []DisconnectedIsGone
<1>1. IInv => DisconnectedIsGone
  BY DEF IInv, Disconnecting, DisconnectedIsGone
<1> QED BY <1>1, Invariant, PTL

(***************************************************************************)
(* SandboxRefreshDetector: however many refreshes the sandbox goes         *)
(* through, whoever misses them and in whichever order answers and reports *)
(* come, no refresh is told twice.                                         *)
(***************************************************************************)
THEOREM RefreshToldOnce == Spec => []ToldOnce
<1>1. IInv => ToldOnce
  BY DEF IInv, Telling
<1> QED BY <1>1, Invariant, PTL

(***************************************************************************)
(* forgetOrg: once a refresh is told no describe of an org before it is    *)
(* served, for any number of refreshes.                                    *)
(***************************************************************************)
THEOREM OldOrgForgotten == Spec => []NothingOfTheOldOrg
<1>1. IInv => NothingOfTheOldOrg
  BY DEF IInv
<1> QED BY <1>1, Invariant, PTL

(***************************************************************************)
(* observe(): an answer that comes late never takes the entry back to an   *)
(* org it was before.                                                      *)
(***************************************************************************)
THEOREM EntryNeverBack == Spec => NeverBack
<1>1. IInv /\ [Next]_vars => [record'.id >= record.id]_vars
  <2> SUFFICES ASSUME IInv, Next PROVE record'.id >= record.id
    OBVIOUS
  <2>1. Types /\ Noticing /\ MonitorKnown
    BY DEF IInv, Types, Noticing
  <2> QED BY <2>1, NoticingStep
<1> QED BY <1>1, Invariant, PTL DEF Spec, NeverBack

=============================================================================
