---------------------------- MODULE CircuitBreaker ----------------------------
(***************************************************************************)
(* The circuit breaker of core/connection/CircuitBreaker.ts and the calls   *)
(* it stands before: the validations of one org's connection                *)
(* (getJsforceConnection() of core/connection/ConnectionHelper.ts), or the  *)
(* requests to one AI provider (runWithBreaker() of adapters/ai).           *)
(*                                                                          *)
(* Calls overlap at their awaits.  Between two awaits the code is one step: *)
(* a result is recorded and the permit released in the same one.            *)
(***************************************************************************)
EXTENDS Naturals, FiniteSets

CONSTANTS
    Caller,            \* the callers, each with a call under way at most
    failureThreshold,
    resetTimeout,
    halfOpenRequests

ASSUME BreakerAssumption ==
    /\ IsFiniteSet(Caller)
    /\ failureThreshold \in Nat \ {0}
    /\ resetTimeout \in Nat \ {0}
    /\ halfOpenRequests \in Nat \ {0}

VARIABLES
    breaker,    \* the fields of the breaker
    guards,     \* what it stands before: an "org" or an "ai" provider
    phase,      \* where each call is: "idle", "asking" or "refreshing"
    probe,      \* whether the call took a permit of the half-open breaker
    pooled,     \* the org has a pooled connection, validated recently
    up,         \* the org or provider answers, and its session can be renewed
    doomed,     \* the call began while it did not
    overtaken   \* history: the breaker became half open before every call ended

callers == <<phase, probe, doomed>>
breakerVars == <<breaker, guards, phase, probe, pooled, up, doomed, overtaken>>

(* The breaker's fields.  `failureCount` is only compared with the          *)
(* threshold, and counts no further; `age` is the time since                *)
(* lastFailureTime, up to resetTimeout.                                     *)
Breaker ==
    [state : {"closed", "open", "half_open"},
     failureCount : 0..failureThreshold,
     age : 0..resetTimeout,
     halfOpenSuccesses : Nat,
     halfOpenInFlight : Nat]

-----------------------------------------------------------------------------
(* The methods of the breaker, as functions of its fields.                  *)

getState(b) ==
    IF b.state = "open" /\ b.age >= resetTimeout
      THEN [b EXCEPT !.state = "half_open", !.halfOpenSuccesses = 0]
      ELSE b

(* A mutant: the half-open breaker lets every call through. *)
LetAllProbe(b) == b.state # "open"

(* canExecute(), once getState() has looked at the clock. *)
canExecute(b) ==
    \/ b.state = "closed"
    \/ b.state = "half_open" /\ b.halfOpenInFlight < halfOpenRequests

reset(b) ==
    [b EXCEPT !.state = "closed", !.failureCount = 0, !.halfOpenSuccesses = 0,
              !.halfOpenInFlight = 0]

OneLess(n) == IF n = 0 THEN 0 ELSE n - 1

(* A mutant: a half-open breaker is not closed by a success. *)
CountSuccess(b) ==
    IF b.state = "half_open"
      THEN [b EXCEPT !.halfOpenInFlight = OneLess(@)]
      ELSE [b EXCEPT !.failureCount = 0]

recordSuccess(b) ==
    CASE b.state # "half_open" -> [b EXCEPT !.failureCount = 0]
      [] b.state = "half_open" /\ b.halfOpenSuccesses + 1 >= halfOpenRequests -> reset(b)
      [] OTHER -> [b EXCEPT !.halfOpenSuccesses = @ + 1, !.halfOpenInFlight = OneLess(@)]

Counted(b) ==
    [b EXCEPT !.failureCount = IF @ < failureThreshold THEN @ + 1 ELSE @, !.age = 0]

(* A mutant: the threshold is what trips a half-open breaker too. *)
TripAtThreshold(b) ==
    IF Counted(b).failureCount >= failureThreshold
      THEN [Counted(b) EXCEPT !.state = "open"] ELSE Counted(b)

recordFailure(b) ==
    IF b.state = "half_open" \/ Counted(b).failureCount >= failureThreshold
      THEN [Counted(b) EXCEPT !.state = "open"] ELSE Counted(b)

acquirePermit(b) ==
    IF b.state = "half_open" THEN [b EXCEPT !.halfOpenInFlight = @ + 1] ELSE b

(* A mutant: a permit never given back. *)
KeepPermit(b) == b

releasePermit(b) == [b EXCEPT !.halfOpenInFlight = OneLess(@)]

-----------------------------------------------------------------------------
BreakerInit ==
    /\ breaker = [state |-> "closed", failureCount |-> 0, age |-> resetTimeout,
                  halfOpenSuccesses |-> 0, halfOpenInFlight |-> 0]
    /\ guards \in {"org", "ai"}
    /\ phase = [c \in Caller |-> "idle"]
    /\ probe = [c \in Caller |-> FALSE]
    /\ doomed = [c \in Caller |-> FALSE]
    /\ pooled = FALSE /\ up \in BOOLEAN /\ overtaken = FALSE

(* A connection is asked for that the pool does not have, or a request is   *)
(* made: it is let through and awaited, or refused.                         *)
Ask(c) ==
    /\ phase[c] = "idle" /\ ~ pooled
    /\ LET b == getState(breaker)
       IN /\ overtaken' = (overtaken \/ /\ b.state # breaker.state
                                        /\ \E d \in Caller : phase[d] # "idle")
          /\ IF canExecute(b)
               THEN /\ breaker' = acquirePermit(b)
                    /\ phase' = [phase EXCEPT ![c] = "asking"]
                    /\ probe' = [probe EXCEPT ![c] = b.state = "half_open"]
                    /\ doomed' = [doomed EXCEPT ![c] = ~ up]
               ELSE breaker' = b /\ UNCHANGED callers
    /\ UNCHANGED <<guards, pooled, up>>

(* The call is over: its permit is released whatever became of it, and an   *)
(* AI provider's status is looked at, which reads the clock.                *)
End(c, b) ==
    LET over == releasePermit(b)
    IN /\ breaker' = IF guards = "ai" THEN getState(over) ELSE over
       /\ phase' = [phase EXCEPT ![c] = "idle"]
       /\ probe' = [probe EXCEPT ![c] = FALSE]
       /\ overtaken' = (overtaken \/ /\ breaker'.state # over.state
                                     /\ \E d \in Caller : phase'[d] # "idle")
       /\ UNCHANGED <<guards, up, doomed>>

(* identity() answers, the first time or after the token was refreshed; or  *)
(* the provider does.  A provider's errors other than overload (its rate    *)
(* limit, a key it refuses, a lost connection) are recorded as successes.   *)
Succeed(c) ==
    /\ phase[c] # "idle"
    /\ guards = "ai" \/ up \/ ~ doomed[c]
    /\ End(c, recordSuccess(breaker))
    /\ pooled' = (guards = "org")

(* An error, an answer past its deadline, or a refresh of the token that    *)
(* failed: it had taken the connection out of the pool when it began.       *)
Fail(c) ==
    /\ phase[c] # "idle"
    /\ ~ up \/ doomed[c]
    /\ End(c, recordFailure(breaker))
    /\ pooled' = (pooled /\ phase[c] = "refreshing")

(* The org refuses the token: the CLI is asked for another. *)
Refresh(c) ==
    /\ guards = "org" /\ phase[c] = "asking"
    /\ up \/ ~ doomed[c]
    /\ phase' = [phase EXCEPT ![c] = "refreshing"]
    /\ pooled' = FALSE
    /\ UNCHANGED <<breaker, guards, probe, up, doomed, overtaken>>

(* A request to a provider is cancelled: nothing is recorded. *)
Cancel(c) ==
    /\ guards = "ai" /\ phase[c] # "idle"
    /\ End(c, breaker)
    /\ UNCHANGED pooled

(* The pooled connection is due for validation again, or lost its token. *)
Unpool ==
    /\ pooled
    /\ pooled' = FALSE
    /\ UNCHANGED <<breaker, guards, callers, up, overtaken>>

Tick ==
    /\ breaker.age < resetTimeout
    /\ breaker' = [breaker EXCEPT !.age = @ + 1]
    /\ UNCHANGED <<guards, callers, pooled, up, overtaken>>

(* The org or provider goes down, or comes back. *)
UpOrDown ==
    /\ up' = ~ up
    /\ UNCHANGED <<breaker, guards, callers, pooled, overtaken>>

BreakerNext ==
    \/ \E c \in Caller : Ask(c) \/ Succeed(c) \/ Fail(c) \/ Refresh(c) \/ Cancel(c)
    \/ Unpool \/ Tick \/ UpOrDown

BreakerSpec == BreakerInit /\ [][BreakerNext]_breakerVars

(* Connections go on being asked for; a call is answered, or fails at its   *)
(* deadline, unless it is cancelled, and not all are; time passes.          *)
FairBreakerSpec ==
    /\ BreakerSpec
    /\ WF_breakerVars(Tick) /\ WF_breakerVars(Unpool)
    /\ \A c \in Caller : WF_breakerVars(Ask(c)) /\ SF_breakerVars(Succeed(c) \/ Fail(c))

-----------------------------------------------------------------------------
(* Types of the state: the counters stay natural numbers, however many     *)
(* permits calls of before the trip give back.                              *)
BreakerTypeOK ==
    /\ breaker \in Breaker
    /\ guards \in {"org", "ai"}
    /\ phase \in [Caller -> {"idle", "asking", "refreshing"}]
    /\ probe \in [Caller -> BOOLEAN]
    /\ doomed \in [Caller -> BOOLEAN]
    /\ pooled \in BOOLEAN /\ up \in BOOLEAN /\ overtaken \in BOOLEAN

(* "Without this a failure in half-open leaves halfOpenInFlight stuck": a   *)
(* permit counted as taken is that of a probe under way, whatever calls of  *)
(* before the trip end meanwhile, so a breaker with no call under way has   *)
(* its permits back.                                                        *)
PermitsAreBacked ==
    breaker.halfOpenInFlight <= Cardinality({c \in Caller : probe[c]})

(* A half-open breaker has had no failure for resetTimeout, late failures   *)
(* of calls from before the trip included: each opens it for as long again. *)
HalfOpenIsRested == breaker.state = "half_open" => breaker.age = resetTimeout

(* One call at a time tries a half-open breaker, and is the only one under  *)
(* way then, as long as every call from before the trip ended before the    *)
(* reset timeout did.                                                       *)
OneProbe ==
    ~ overtaken /\ halfOpenRequests = 1 =>
        \A c, d \in Caller :
            /\ probe[c]
            /\ probe[d] \/ (breaker.state = "half_open" /\ phase[d] # "idle")
            => c = d

(* An org or provider that answers again is let through for good: no        *)
(* sequence of late failures, probes and cancelled probes locks it out.     *)
Recovers == <>[]up => <>[](breaker.state = "closed")
=============================================================================
