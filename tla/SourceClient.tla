--------------------------- MODULE SourceClient ---------------------------
(***************************************************************************)
(* The Aigenis client of one run (scraper/sources/aigenis/client.py, API   *)
(* mode): calls of `_api_request` that share a circuit breaker.  A call    *)
(* makes up to MaxRetries attempts; each attempt enters the breaker, which *)
(* refuses it while it is open, and leaves it with an outcome.  Transport  *)
(* errors, 429 and 5xx are transient: they count against the source and    *)
(* are retried.  Everything else, a 404 or a refused login too, counts as  *)
(* a success of the source and ends the call.                              *)
(***************************************************************************)
EXTENDS Integers, FiniteSets

CONSTANTS
    Calls,              \* the calls the run can have under way, one per name
    MaxRetries,         \* attempts of one call (settings.max_retries)
    FailureThreshold    \* failures in a row that open the breaker

ASSUME ClientAssumption ==
    /\ MaxRetries \in Nat \ {0}
    /\ FailureThreshold \in Nat \ {0}

VARIABLES
    breaker,    \* _CircuitBreaker
    call        \* Calls -> the state of the call

clientVars == <<breaker, call>>

---------------------------------------------------------------------------
(* The breaker.  `cooled` says that recovery_timeout has passed since the  *)
(* last failure.  The count of failures saturates at the threshold: the    *)
(* code only asks whether it has been reached.                             *)

Breaker == [failures: 0 .. FailureThreshold,
            state: {"closed", "open", "half-open"},
            cooled: BOOLEAN]

Untripped == [failures |-> 0, state |-> "closed", cooled |-> FALSE]

\* Mutant: an open breaker does not wait for its cool-down.
MutNoCoolDown(b) ==
    IF b.state = "open" THEN [b EXCEPT !.state = "half-open"] ELSE b

\* The property `state`: reading it lets an open breaker half-open.
StateRead(b) ==
    IF b.state = "open" /\ b.cooled THEN [b EXCEPT !.state = "half-open"] ELSE b

RecordSuccess(b) == [b EXCEPT !.failures = 0, !.state = "closed"]

RecordFailure(b) ==
    LET reached == b.failures + 1 >= FailureThreshold IN
    [failures |-> IF reached THEN FailureThreshold ELSE b.failures + 1,
     state |-> IF reached THEN "open" ELSE b.state,
     cooled |-> FALSE]

\* Only an open breaker looks at the time.
CoolDown == /\ breaker.state = "open" /\ ~breaker.cooled
            /\ breaker' = [breaker EXCEPT !.cooled = TRUE]
            /\ UNCHANGED call

---------------------------------------------------------------------------
(* Calls.  A result other than "ok" is the exception the call ends with:   *)
(* NotFoundError, FatalError (or another), TransientError after the last   *)
(* attempt, CircuitBreakerOpenError.                                       *)

Results == {"ok", "missing", "fatal", "transient", "refused"}

Call == [pc: {"idle"}, tries: {0}, result: {"none"}]
        \cup [pc: {"entering"}, tries: 0 .. (MaxRetries - 1), result: {"none"}]
        \cup [pc: {"sent"}, tries: 1 .. MaxRetries, result: {"none"}]
        \cup [pc: {"done"}, tries: {0}, result: Results]

NoCall == [pc |-> "idle", tries |-> 0, result |-> "none"]
Placed == [pc |-> "entering", tries |-> 0, result |-> "none"]
Ended(result) == [pc |-> "done", tries |-> 0, result |-> result]

\* __aenter__: a refusal is no TransientError, so it is not retried.
Enter(c) ==
    LET b == StateRead(breaker) IN
    /\ call[c].pc = "entering"
    /\ breaker' = b
    /\ call' = [call EXCEPT ![c] =
                  IF b.state = "open" THEN Ended("refused")
                  ELSE [pc |-> "sent", tries |-> @.tries + 1, result |-> "none"]]

\* An answer that is no transient failure.
Answered(c, result) ==
    /\ call[c].pc = "sent"
    /\ breaker' = RecordSuccess(breaker)
    /\ call' = [call EXCEPT ![c] = Ended(result)]

Unanswered(c) ==
    /\ call[c].pc = "sent"
    /\ breaker' = RecordFailure(breaker)
    /\ call' = [call EXCEPT ![c] =
                  IF @.tries < MaxRetries THEN [@ EXCEPT !.pc = "entering"]
                  ELSE Ended("transient")]

---------------------------------------------------------------------------
ClientTypeOK == /\ breaker \in Breaker
                /\ call \in [Calls -> Call]

\* The breaker has tripped exactly when the threshold has been reached and
\* the source has not answered since: a failed probe opens it again, and no
\* path leaves it half-open with the count reset (client.py:327-356).
BreakerTracksFailures ==
    breaker.state = "closed" <=> breaker.failures < FailureThreshold

\* Nothing is sent to a source that failed FailureThreshold times in a row
\* until recovery_timeout has passed since the latest failure, whatever the
\* calls that were under way when it failed do (client.py:352-356).
SourceLeftAlone ==
    [][\A c \in Calls : call[c].pc = "entering" /\ call'[c].pc = "sent" =>
          breaker.failures < FailureThreshold \/ breaker.cooled]_clientVars
===========================================================================
