----------------------------- MODULE RetryLoop -----------------------------
(***************************************************************************)
(* One call of the client: Client.send, attempt and attemptError           *)
(* (client.go), RetryPolicy.retryable and retryState.wait (retry.go).      *)
(*                                                                         *)
(* Time is a counter.  It passes while an attempt is under way, while the  *)
(* call sleeps before a retry and while it waits for its context's         *)
(* deadline; the steps in between take none.  The context's own timer may  *)
(* run before or after any other step of the instant of its deadline, and  *)
(* a cancellation comes at any time.                                       *)
(***************************************************************************)
EXTENDS Integers

CONSTANTS Policies,     \* the retry policies a call may be made with
          Deadlines,    \* the deadlines a call's context may have
          Timeouts,     \* the per-attempt timeouts; 0 is WithNoTimeout
          ServerWaits,  \* the waits a response may ask for; NoWait is none
          MaxLatency    \* how long the longest attempt takes

\* No deadline, no Retry-After, no budget.
Never == -1
NoWait == -1
NoBudget == -1

Statuses == {"2xx", "4xx", "429"}

Policy ==
  [max : Nat, budget : Nat \cup {NoBudget}, initial : Nat, maximum : Nat, jitter : BOOLEAN,
   statuses : SUBSET Statuses, timeouts : BOOLEAN, connections : BOOLEAN,
   respect : BOOLEAN, predicate : BOOLEAN]

ASSUME PoliciesAssumption == Policies \subseteq Policy
ASSUME DeadlinesAssumption == Deadlines \subseteq Nat \cup {Never}
ASSUME TimeoutsAssumption == Timeouts \subseteq Nat
ASSUME WaitsAssumption == ServerWaits \subseteq Nat \cup {NoWait}
ASSUME LatencyAssumption == MaxLatency \in Nat

(***************************************************************************)
(* The SDK's errors: "canceled" is ctx.Err() itself; "timeout0" a          *)
(* TimeoutError without a timeout, "timeout" one with; "conn" a            *)
(* ConnectionError; "timeoutCanceled" and "connCanceled" are such that     *)
(* wrap a context.Canceled which is not the caller's; "config" is          *)
(* ErrHTTP2NotNegotiated; "4xx" and "429" are APIErrors; "invalid" and     *)
(* "tooLarge" are failures of a 2xx response.                              *)
(***************************************************************************)
APIErrors == {"4xx", "429"}
ResponseErrors == APIErrors \cup {"invalid", "tooLarge"}
Canceled == {"canceled", "timeoutCanceled", "connCanceled"}
Errors == ResponseErrors \cup Canceled \cup {"timeout0", "timeout", "conn", "config"}

\* What a transport returns in place of a response: errors the SDK's own
\* transport has mapped already, and errors left to attemptError.
Mapped == {"mappedTimeout", "mappedConn", "mappedConfig"}
Failures == Mapped \cup {"deadline", "canceled", "other"}

VARIABLES now, ctx, deadline,                \* the clock and the call's context
          policy, timeout,                   \* the call's settings
          pc, attempt, began, adl, expired,  \* the loop; the attempt's own deadline
          err, asked, d, wake, result        \* the last failure, its wait, the result

loopVars == <<now, ctx, deadline, policy, timeout, pc, attempt, began, adl, expired,
              err, asked, d, wake, result>>

CallInit ==
  /\ now = 0 /\ ctx = "live" /\ deadline \in Deadlines
  /\ policy \in Policies /\ timeout \in Timeouts
  /\ pc = "send" /\ attempt = 0 /\ began = 0 /\ adl = Never /\ expired = FALSE
  /\ err = "none" /\ asked = NoWait /\ d = 0 /\ wake = 0 /\ result = "none"

Past(t) == t # Never /\ now >= t

-----------------------------------------------------------------------------
(* The world: the clock, the caller's context, the attempt's context. *)

\* A timer that is due runs before time passes on.
Tick ==
  /\ \/ pc = "attempt" /\ now < began + MaxLatency /\ ~(Past(adl) /\ ~expired)
     \/ pc = "sleep" /\ now < wake
     \/ pc = "await" /\ now < deadline
  /\ ctx = "live" => ~Past(deadline)
  /\ now' = now + 1
  /\ UNCHANGED <<ctx, deadline, policy, timeout, pc, attempt, began, adl, expired,
                 err, asked, d, wake, result>>

CtxEnds(how) ==
  /\ pc # "done" /\ ctx = "live" /\ (how = "expired" => Past(deadline))
  /\ ctx' = how
  /\ UNCHANGED <<now, deadline, policy, timeout, pc, attempt, began, adl, expired,
                 err, asked, d, wake, result>>

AttemptExpires ==
  /\ pc = "attempt" /\ Past(adl) /\ ~expired
  /\ expired' = TRUE
  /\ UNCHANGED <<now, ctx, deadline, policy, timeout, pc, attempt, began, adl,
                 err, asked, d, wake, result>>

-----------------------------------------------------------------------------
(* Client.attempt *)

\* context.WithTimeout makes no timer when the parent's deadline is earlier.
OwnDeadline ==
  IF timeout = 0 \/ (deadline # Never /\ deadline < now + timeout) THEN Never ELSE now + timeout

StartAttempt(n) ==
  /\ pc' = "attempt" /\ attempt' = n /\ began' = now /\ adl' = OwnDeadline /\ expired' = FALSE
  /\ UNCHANGED <<now, ctx, deadline, policy, timeout, err, asked, d, wake, result>>

Send == pc = "send" /\ StartAttempt(0)

TimeoutOf(t) == IF t = 0 THEN "timeout0" ELSE "timeout"

\* transportError
MappedError(e) ==
  CASE e = "mappedTimeout" -> TimeoutOf(timeout)
    [] e = "mappedConn" -> "conn"
    [] e = "mappedConfig" -> "config"

\* attemptError: the caller's cancellation, the transport's own mapping, the
\* caller's deadline, the attempt's, and what is left.  What a TimeoutError
\* wraps is told only where the caller's context lives: past its deadline
\* wait returns the error, retried or not.
AttemptError(e) ==
  CASE ctx = "canceled" -> "canceled"
    [] ctx # "canceled" /\ e \in Mapped -> MappedError(e)
    [] ctx = "expired" /\ e \notin Mapped -> "timeout0"
    [] ctx = "live" /\ e \notin Mapped ->
         IF e = "canceled" THEN IF expired THEN "timeoutCanceled" ELSE "connCanceled"
         ELSE IF expired \/ e = "deadline" THEN TimeoutOf(timeout) ELSE "conn"

Finish(r) ==
  /\ pc' = "done" /\ result' = r
  /\ UNCHANGED <<now, ctx, deadline, policy, timeout, attempt, began, adl, expired,
                 err, asked, d, wake>>

FailAttempt(e, w) ==
  /\ pc' = "policy" /\ err' = e /\ asked' = w
  /\ UNCHANGED <<now, ctx, deadline, policy, timeout, attempt, began, adl, expired,
                 d, wake, result>>

\* A response read whole, or over the limit; a 2xx one is decoded.
ResponseError(status, body) ==
  CASE status # "2xx" -> status
    [] status = "2xx" -> body

Respond(status, body, w) ==
  /\ pc = "attempt"
  /\ IF status = "2xx" /\ body = "whole" THEN Finish("ok")
     ELSE FailAttempt(ResponseError(status, body), w)

\* The transport failed, or the body was cut short.
Fail(e) == pc = "attempt" /\ FailAttempt(AttemptError(e), NoWait)

-----------------------------------------------------------------------------
(* retryState.wait *)

RetriesStatus(s) == s # "2xx" /\ s \in policy.statuses

Retryable(e) ==
  /\ e \notin Canceled
  /\ \/ e \in {"timeout", "timeout0"} /\ policy.timeouts
     \/ e = "conn" /\ policy.connections
     \/ e \in APIErrors /\ RetriesStatus(e)
     \/ policy.predicate

\* backoff: the initial wait doubled n times, at most the maximum, less the
\* jitter's part of it; no wait when one of them is zero.
Doubled(n) == policy.initial * 2 ^ n

Backoff(n) ==
  LET most == IF Doubled(n) >= policy.maximum THEN policy.maximum ELSE Doubled(n)
  IN  {w \in 0 .. policy.maximum : w = most \/ (policy.jitter /\ w < most)}

\* delay: the server's wait, or the backoff before retry n + 1.
Delay(n) ==
  IF policy.respect /\ err \in ResponseErrors /\ asked # NoWait THEN {asked} ELSE Backoff(n)

\* The first attempt starts at 0.
BudgetAllows(w) == policy.budget = NoBudget \/ w < policy.budget - now

MayRetry(e) == Retryable(e) /\ attempt < policy.max

WaitPolicy ==
  /\ pc = "policy"
  /\ \/ ~MayRetry(err) /\ Finish(err)
     \/ /\ MayRetry(err)
        /\ \E w \in Delay(attempt) :
             \/ ~BudgetAllows(w) /\ Finish(err)
             \/ /\ BudgetAllows(w) /\ pc' = "check" /\ d' = w
                /\ UNCHANGED <<now, ctx, deadline, policy, timeout, attempt, began, adl,
                               expired, err, asked, wake, result>>

\* waitError
WaitError == IF ctx = "expired" THEN "timeout0" ELSE "canceled"

Goto(l) ==
  /\ pc' = l
  /\ UNCHANGED <<now, ctx, deadline, policy, timeout, attempt, began, adl, expired,
                 err, asked, d, wake, result>>

WaitCheck ==
  /\ pc = "check"
  /\ \/ ctx # "live" /\ Finish(IF err = "timeout0" /\ ctx = "expired" THEN err ELSE WaitError)
     \/ ctx = "live" /\ Goto("deadline")

\* Variant: a context without a deadline compares as one in the past.
DeadlineFirstZero == deadline <= now + d

\* Variant: a deadline at the end of the wait is let through.
DeadlineFirstPassed == deadline # Never /\ deadline < now + d

DeadlineFirst == deadline # Never /\ deadline <= now + d

WaitDeadline ==
  /\ pc = "deadline"
  /\ \/ DeadlineFirst /\ Goto("await")
     \/ ~DeadlineFirst /\ d = 0 /\ StartAttempt(attempt + 1)
     \/ /\ ~DeadlineFirst /\ d > 0 /\ pc' = "sleep" /\ wake' = now + d
        /\ UNCHANGED <<now, ctx, deadline, policy, timeout, attempt, began, adl, expired,
                       err, asked, d, result>>

Await == pc = "await" /\ ctx # "live" /\ Finish(WaitError)

\* The select of a sleeping call; the context is looked at again.
SleepEnds ==
  /\ pc = "sleep" /\ now >= wake
  /\ \/ ctx # "live" /\ Finish(WaitError)
     \/ ctx = "live" /\ StartAttempt(attempt + 1)

\* Variant: a context that ended returns the last attempt's error.
SleepCtxKept == pc = "sleep" /\ ctx # "live" /\ Finish(err)

SleepCtx == pc = "sleep" /\ ctx # "live" /\ Finish(WaitError)

-----------------------------------------------------------------------------
CallStep ==
  \/ Send \/ WaitPolicy \/ WaitCheck \/ WaitDeadline \/ Await \/ SleepEnds \/ SleepCtx

AttemptEnds ==
  \/ \E status \in Statuses, body \in {"whole", "invalid", "tooLarge"}, w \in ServerWaits :
       Respond(status, body, w)
  \/ \E e \in Failures : Fail(e)

CallNext ==
  \/ Tick \/ CtxEnds("expired") \/ CtxEnds("canceled") \/ AttemptExpires
  \/ AttemptEnds \/ CallStep

CallSpec == CallInit /\ [][CallNext]_loopVars

\* The call's goroutine runs, attempts end, clocks and timers run.
FairCallSpec ==
  /\ CallSpec
  /\ WF_loopVars(CallStep) /\ WF_loopVars(AttemptEnds)
  /\ WF_loopVars(Tick) /\ WF_loopVars(CtxEnds("expired"))

-----------------------------------------------------------------------------
\* The types of the call's state.
CallTypeOK ==
  /\ now \in Nat /\ deadline \in Nat \cup {Never} /\ ctx \in {"live", "canceled", "expired"}
  /\ policy \in Policies /\ timeout \in Nat
  /\ pc \in {"send", "attempt", "policy", "check", "deadline", "await", "sleep", "done"}
  /\ attempt \in 0 .. policy.max /\ began \in Nat /\ adl \in Nat \cup {Never}
  /\ expired \in BOOLEAN
  /\ err \in Errors \cup {"none"} /\ asked \in Nat \cup {NoWait} /\ d \in Nat /\ wake \in Nat
  /\ result \in Errors \cup {"none", "ok"}

\* retry.go, Budget: no retry starts at or beyond the budget, however the
\* server's waits, the backoff and the attempts' durations add up.
RetryBeforeBudget ==
  attempt > 0 /\ policy.budget # NoBudget => began < policy.budget

\* retry.go, wait: no retry starts at or after the caller's deadline, even
\* when the context's own timer has not run yet.
RetryBeforeDeadline == attempt > 0 /\ deadline # Never => began < deadline

\* retry.go, wait: every retry starts within the budget and before the
\* deadline, whichever is the nearer.
RetryInTime == RetryBeforeBudget /\ RetryBeforeDeadline

\* A call that returns a cancellation or a TimeoutError without a timeout
\* blames the caller's context, and the context did end so; a call whose
\* context ends before a retry it was to make blames it.
BlamesContext ==
  /\ result = "canceled" => ctx = "canceled"
  /\ result = "timeout0" /\ timeout # 0 => ctx = "expired"
  /\ pc = "done" /\ result \notin {"ok", "canceled", "timeout0"} =>
       result = err /\ (~MayRetry(err) \/ \E w \in Delay(attempt) : ~BudgetAllows(w))

\* A 2xx response is billed: no further attempt follows one unless the
\* predicate asks for it; and none follows a cancellation whatever it says.
RetriesOnlyWhatMay ==
  [][attempt' > attempt =>
       /\ err \notin Canceled
       /\ err \in {"invalid", "tooLarge", "config"} => policy.predicate
       /\ pc = "sleep" => ctx = "live"]_loopVars

\* retry.go, Budget: a call with a budget takes at most one attempt more than
\* it, whatever its retries' waits and the caller's deadline add up to.
WithinBudget == policy.budget # NoBudget => now <= policy.budget + MaxLatency

\* Every call returns.
CallEnds == <>(pc = "done")
=============================================================================
