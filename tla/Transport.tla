----------------------------- MODULE Transport -----------------------------
(***************************************************************************)
(* The retry transport of the GitHub client and its circuit breaker        *)
(* (internal/github/retry.go, circuitbreaker.go), shared by every          *)
(* goroutine of a process.  A replayable read asks the breaker once, then  *)
(* makes its attempts whatever the breaker does meanwhile, and reports one *)
(* outcome; any other request bypasses both and is not modelled.           *)
(*                                                                         *)
(* Time is counted in ticks.  The breaker only asks whether an age has     *)
(* reached a limit, so that ages stop growing there and nothing else       *)
(* bounds the behaviours.                                                  *)
(***************************************************************************)
EXTENDS Naturals, FiniteSets

CONSTANTS
    Requests,       \* goroutines that call RoundTrip, one read after another
    MaxAttempts,    \* RetryConfig.MaxAttempts
    FailureLimit,   \* maxFailures of the breaker
    HalfOpenWait,   \* ticks an open circuit refuses
    ProbeTimeout    \* ticks a probe is waited for

ASSUME TransportAssumption ==
    /\ IsFiniteSet(Requests)
    /\ MaxAttempts \in Nat \ {0} /\ FailureLimit \in Nat \ {0}
    /\ HalfOpenWait \in Nat \ {0} /\ ProbeTimeout \in Nat \ {0}

VARIABLES
    circuit,        \* "closed", "open" or "half_open"
    failed,         \* consecutiveFailures, up to FailureLimit
    failureAge,     \* ticks since lastFailure, up to HalfOpenWait
    probeAge,       \* ticks since probeStarted, up to ProbeTimeout
    attempt,        \* the attempt each request is at, 0 for none
    probeGap,       \* history: ticks since a probe was let through, up to
                    \* HalfOpenWait
    refused,        \* history: the breaker refused a request in this tick
    blackout        \* history: ticks with a refusal since a request was let
                    \* through, up to one more than they may be

transportVars == <<circuit, failed, failureAge, probeAge, attempt,
                   probeGap, refused, blackout>>
-----------------------------------------------------------------------------
Older(age, limit) == IF age < limit THEN age + 1 ELSE age

\* A refusal lasts for one wait after the failure that opened the circuit or
\* the probe that was given up, and each request that was already under way may
\* restart it once.
LongestBlackout == ProbeTimeout + Cardinality(Requests) * HalfOpenWait

TransportInit ==
    /\ circuit = "closed"
    /\ failed = 0
    /\ failureAge = HalfOpenWait
    /\ probeAge = ProbeTimeout
    /\ attempt = [q \in Requests |-> 0]
    /\ probeGap = HalfOpenWait
    /\ refused = FALSE
    /\ blackout = 0

Tick ==
    /\ failureAge' = Older(failureAge, HalfOpenWait)
    /\ probeAge' = Older(probeAge, ProbeTimeout)
    /\ probeGap' = Older(probeGap, HalfOpenWait)
    /\ blackout' = IF refused THEN Older(blackout, LongestBlackout + 1) ELSE blackout
    /\ refused' = FALSE
    /\ UNCHANGED <<circuit, failed, attempt>>
-----------------------------------------------------------------------------
(***************************************************************************)
(* allow, called once at the head of RoundTrip.                            *)
(***************************************************************************)
LetThrough(q) ==
    /\ attempt' = [attempt EXCEPT ![q] = 1]
    /\ refused' = FALSE /\ blackout' = 0

Refuse == refused' = TRUE /\ UNCHANGED <<attempt, blackout>>

AllowClosed(q) ==
    /\ attempt[q] = 0 /\ circuit = "closed"
    /\ LetThrough(q)
    /\ UNCHANGED <<circuit, failed, failureAge, probeAge, probeGap>>

AllowProbe(q) ==
    /\ attempt[q] = 0 /\ circuit = "open" /\ failureAge >= HalfOpenWait
    /\ circuit' = "half_open"
    /\ probeAge' = 0
    /\ probeGap' = 0
    /\ LetThrough(q)
    /\ UNCHANGED <<failed, failureAge>>

RefuseOpen(q) ==
    /\ attempt[q] = 0 /\ circuit = "open" /\ failureAge < HalfOpenWait
    /\ Refuse
    /\ UNCHANGED <<circuit, failed, failureAge, probeAge, probeGap>>

\* Reopens with the old failure time: mutant.
RefuseHalfOpenAtOnce(q) ==
    /\ attempt[q] = 0 /\ circuit = "half_open"
    /\ Refuse
    /\ \/ probeAge < ProbeTimeout /\ UNCHANGED circuit
       \/ probeAge >= ProbeTimeout /\ circuit' = "open"
    /\ UNCHANGED <<failed, failureAge, probeAge, probeGap>>

\* Waits for the probe for ever: mutant.
RefuseHalfOpenForEver(q) ==
    /\ attempt[q] = 0 /\ circuit = "half_open"
    /\ Refuse
    /\ UNCHANGED <<circuit, failed, failureAge, probeAge, probeGap>>

\* The probe is still waited for, or the caller finds that it is overdue and the
\* circuit opens again, from now on.
RefuseHalfOpen(q) ==
    /\ attempt[q] = 0 /\ circuit = "half_open"
    /\ Refuse
    /\ \/ probeAge < ProbeTimeout /\ UNCHANGED <<circuit, failureAge>>
       \/ probeAge >= ProbeTimeout /\ circuit' = "open" /\ failureAge' = 0
    /\ UNCHANGED <<failed, probeAge, probeGap>>
-----------------------------------------------------------------------------
(***************************************************************************)
(* The loop of RoundTrip.                                                  *)
(***************************************************************************)
Return(q) == attempt' = [attempt EXCEPT ![q] = 0]

\* GitHub answers: recordSuccess, whatever the breaker knows of this request.
Succeed(q) ==
    /\ attempt[q] > 0
    /\ Return(q)
    /\ failed' = 0
    /\ circuit' = IF circuit = "half_open" THEN "closed" ELSE circuit
    /\ UNCHANGED <<failureAge, probeAge, probeGap, refused, blackout>>

\* The context of the caller or the timeout of the attempt ends, before, during
\* or after an attempt: the breaker hears nothing.
ContextEnds(q) ==
    /\ attempt[q] > 0
    /\ Return(q)
    /\ UNCHANGED <<circuit, failed, failureAge, probeAge, probeGap, refused, blackout>>

Retry(q) ==
    /\ attempt[q] \in 1..(MaxAttempts - 1)
    /\ attempt' = [attempt EXCEPT ![q] = @ + 1]
    /\ UNCHANGED <<circuit, failed, failureAge, probeAge, probeGap, refused, blackout>>

\* One failure too late: mutant.
ExhaustLate(q) ==
    /\ attempt[q] = MaxAttempts
    /\ Return(q)
    /\ failed' = Older(failed, FailureLimit)
    /\ failureAge' = 0
    /\ circuit' = IF failed >= FailureLimit THEN "open" ELSE circuit
    /\ UNCHANGED <<probeAge, probeGap, refused, blackout>>

\* The last attempt fails: recordFailure.
Exhaust(q) ==
    /\ attempt[q] = MaxAttempts
    /\ Return(q)
    /\ failed' = Older(failed, FailureLimit)
    /\ failureAge' = 0
    /\ circuit' = IF failed' >= FailureLimit THEN "open" ELSE circuit
    /\ UNCHANGED <<probeAge, probeGap, refused, blackout>>

TransportNext ==
    \/ Tick
    \/ \E q \in Requests :
          \/ AllowClosed(q) \/ AllowProbe(q) \/ RefuseOpen(q) \/ RefuseHalfOpen(q)
          \/ Succeed(q) \/ ContextEnds(q) \/ Retry(q) \/ Exhaust(q)

TransportSpec == TransportInit /\ [][TransportNext]_transportVars
-----------------------------------------------------------------------------
(***************************************************************************)
(* Properties                                                              *)
(***************************************************************************)
\* Types.  A circuit with FailureLimit failures in a row is not closed, whatever
\* requests that started before report.
TransportTypeOK ==
    /\ circuit \in {"closed", "open", "half_open"}
    /\ failed \in 0..FailureLimit
    /\ failureAge \in 0..HalfOpenWait
    /\ probeAge \in 0..ProbeTimeout
    /\ attempt \in [Requests -> 0..MaxAttempts]
    /\ probeGap \in 0..HalfOpenWait
    /\ refused \in BOOLEAN
    /\ blackout \in 0..(LongestBlackout + 1)
    /\ circuit = "closed" => failed < FailureLimit

\* A GitHub that fails is not asked again too soon: whatever becomes of a probe
\* (it fails, it is given up, its caller goes away, the circuit closes and opens
\* again), the next one comes a whole wait later.
ProbesAreSpaced ==
    [][(\E q \in Requests : AllowProbe(q)) => probeGap >= HalfOpenWait]_transportVars

\* The breaker is never stuck: a probe whose outcome nobody reports, and the
\* failures of requests that started before the circuit opened, cannot make it
\* refuse callers for longer than LongestBlackout.
BlackoutIsBounded == blackout <= LongestBlackout
=============================================================================
