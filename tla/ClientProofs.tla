---------------------------- MODULE ClientProofs ----------------------------
(***************************************************************************)
(* Proofs about what the client keeps and does around one call: the retry  *)
(* loop (RetryLoop), the reading of a body (ReadBody) and the cache of     *)
(* plans (PlanCache).                                                      *)
(***************************************************************************)
EXTENDS RetryLoop, ReadBody, PlanCache, TLAPS

(***************************************************************************)
(* RetryLoop, for every set of policies, deadlines, timeouts and server    *)
(* waits and for every latency.                                            *)
(***************************************************************************)
\* The call is on its way to another attempt.
Deciding == pc \in {"check", "deadline", "await", "sleep"}

\* What a call that may still retry has established: its last error is one
\* its policy retries, a retry is left, and the wait fits the budget; a sleep
\* also ends before the deadline.  Time stands still while it decides.
WaitInv ==
  /\ Deciding => MayRetry(err)
  /\ pc \in {"check", "deadline"} /\ policy.budget # NoBudget => now + d < policy.budget
  /\ pc = "sleep" /\ policy.budget # NoBudget => wake < policy.budget
  /\ pc = "sleep" /\ deadline # Never => wake < deadline
  /\ pc = "sleep" => now <= wake

\* An error that blames the caller's context is right about it.
ErrInv ==
  /\ err = "canceled" => ctx = "canceled"
  /\ err = "timeout0" /\ timeout # 0 => ctx = "expired"
  /\ pc = "policy" => err \in Errors

LoopInv ==
  /\ CallTypeOK /\ WaitInv /\ ErrInv
  /\ RetryBeforeBudget /\ RetryBeforeDeadline /\ BlamesContext

\* A policy's fields have their types.
LEMMA PolicyFields ==
  ASSUME policy \in Policies
  PROVE  /\ policy.max \in Nat /\ policy.budget \in Nat \cup {NoBudget}
         /\ policy.initial \in Nat /\ policy.maximum \in Nat
BY PoliciesAssumption DEF Policy

\* attemptError returns one of the SDK's errors, and one that blames the
\* caller's context only when that has ended so.
LEMMA AttemptErrorRight ==
  ASSUME ctx \in {"live", "canceled", "expired"}, NEW e \in Failures
  PROVE  /\ AttemptError(e) \in Errors
         /\ AttemptError(e) = "canceled" => ctx = "canceled"
         /\ AttemptError(e) = "timeout0" /\ timeout # 0 => ctx = "expired"
BY DEF AttemptError, MappedError, TimeoutOf, Failures, Mapped, Errors, Canceled, ResponseErrors, APIErrors

\* A response that ends an attempt with a failure makes a response's error.
LEMMA ResponseErrorRight ==
  ASSUME NEW status \in Statuses, NEW body \in {"whole", "invalid", "tooLarge"},
         ~(status = "2xx" /\ body = "whole")
  PROVE  ResponseError(status, body) \in ResponseErrors
BY DEF ResponseError, Statuses, ResponseErrors, APIErrors

\* A wait is a number.
LEMMA DelayType ==
  ASSUME policy \in Policies, asked \in Nat \cup {NoWait}, NEW n, NEW w \in Delay(n)
  PROVE  w \in Nat
BY PolicyFields DEF Delay, Backoff, NoWait

\* The initial states.
LEMMA LoopInitially == CallInit => LoopInv
<1> SUFFICES ASSUME CallInit PROVE LoopInv
  OBVIOUS
<1>1. policy.max \in Nat
  BY PolicyFields DEF CallInit
<1>2. deadline \in Nat \cup {Never} /\ timeout \in Nat
  BY DeadlinesAssumption, TimeoutsAssumption DEF CallInit
<1>3. CallTypeOK
  <2>1. attempt \in 0 .. policy.max /\ now \in Nat /\ began \in Nat /\ d \in Nat /\ wake \in Nat
    BY <1>1 DEF CallInit
  <2>2. /\ adl \in Nat \cup {Never} /\ asked \in Nat \cup {NoWait} /\ expired \in BOOLEAN
        /\ policy \in Policies /\ ctx \in {"live", "canceled", "expired"}
    BY DEF CallInit
  <2>3. /\ pc \in {"send", "attempt", "policy", "check", "deadline", "await", "sleep", "done"}
        /\ err \in Errors \cup {"none"} /\ result \in Errors \cup {"none", "ok"}
    BY DEF CallInit
  <2> QED
    BY <1>2, <2>1, <2>2, <2>3 DEF CallTypeOK
<1>4. WaitInv /\ ErrInv /\ RetryBeforeBudget /\ RetryBeforeDeadline /\ BlamesContext
  BY DEF CallInit, WaitInv, ErrInv, RetryBeforeBudget, RetryBeforeDeadline, BlamesContext, Deciding
<1> QED
  BY <1>3, <1>4 DEF LoopInv

\* Starting attempt n at a time before the budget and the deadline.
LEMMA StartKeeps ==
  ASSUME LoopInv, NEW n \in Nat, n <= policy.max, StartAttempt(n),
         n > 0 /\ policy.budget # NoBudget => now < policy.budget,
         n > 0 /\ deadline # Never => now < deadline,
         pc # "done"
  PROVE  LoopInv'
<1>1. policy.max \in Nat /\ policy \in Policies
  BY PolicyFields DEF LoopInv, CallTypeOK
<1>2. OwnDeadline \in Nat \cup {Never}
  BY DEF LoopInv, CallTypeOK, OwnDeadline
<1>3. CallTypeOK'
  <2>1. adl' \in Nat \cup {Never} /\ attempt' \in 0 .. policy'.max
    BY <1>1, <1>2 DEF StartAttempt
  <2> QED
    BY <2>1 DEF LoopInv, CallTypeOK, StartAttempt
<1>4. WaitInv' /\ ErrInv'
  BY DEF LoopInv, WaitInv, ErrInv, StartAttempt, Deciding
<1>5. RetryBeforeBudget' /\ RetryBeforeDeadline'
  BY DEF StartAttempt, RetryBeforeBudget, RetryBeforeDeadline
<1>6. BlamesContext'
  BY DEF LoopInv, StartAttempt, BlamesContext
<1> QED
  BY <1>3, <1>4, <1>5, <1>6 DEF LoopInv

\* Returning r, which is right about the context or ends the policy.
LEMMA FinishKeeps ==
  ASSUME LoopInv, NEW r \in Errors \cup {"ok"}, Finish(r),
         r = "canceled" => ctx = "canceled",
         r = "timeout0" /\ timeout # 0 => ctx = "expired",
         r \notin {"ok", "canceled", "timeout0"} =>
           r = err /\ (~MayRetry(err) \/ \E w \in Delay(attempt) : ~BudgetAllows(w))
  PROVE  LoopInv'
<1>1. CallTypeOK'
  BY DEF LoopInv, CallTypeOK, Finish
<1>2. WaitInv' /\ ErrInv'
  BY DEF LoopInv, WaitInv, ErrInv, Finish, Deciding
<1>3. RetryBeforeBudget' /\ RetryBeforeDeadline'
  BY DEF LoopInv, Finish, RetryBeforeBudget, RetryBeforeDeadline
<1>4. BlamesContext'
  BY DEF Finish, BlamesContext, MayRetry, Retryable, RetriesStatus, Delay, Backoff, Doubled,
         BudgetAllows
<1> QED
  BY <1>1, <1>2, <1>3, <1>4 DEF LoopInv

\* An attempt that fails with e leaves the decision to wait.
LEMMA FailKeeps ==
  ASSUME LoopInv, pc = "attempt", NEW e \in Errors, NEW w \in Nat \cup {NoWait}, FailAttempt(e, w),
         e = "canceled" => ctx = "canceled",
         e = "timeout0" /\ timeout # 0 => ctx = "expired"
  PROVE  LoopInv'
<1>1. CallTypeOK'
  BY DEF LoopInv, CallTypeOK, FailAttempt
<1>2. WaitInv' /\ ErrInv'
  BY DEF FailAttempt, WaitInv, ErrInv, Deciding
<1>3. RetryBeforeBudget' /\ RetryBeforeDeadline' /\ BlamesContext'
  BY DEF LoopInv, FailAttempt, RetryBeforeBudget, RetryBeforeDeadline, BlamesContext
<1> QED
  BY <1>1, <1>2, <1>3 DEF LoopInv

\* The error a wait returns when the context has ended is right about it.
LEMMA WaitErrorRight ==
  ASSUME ctx \in {"canceled", "expired"}
  PROVE  /\ WaitError \in Errors /\ WaitError \in {"canceled", "timeout0"}
         /\ WaitError = "canceled" => ctx = "canceled"
         /\ WaitError = "timeout0" => ctx = "expired"
BY DEF WaitError, Errors, Canceled

\* Every step keeps the invariant.
LEMMA LoopStep == LoopInv /\ [CallNext]_loopVars => LoopInv'
<1> SUFFICES ASSUME LoopInv, [CallNext]_loopVars PROVE LoopInv'
  OBVIOUS
<1>0. /\ CallTypeOK /\ policy \in Policies /\ policy.max \in Nat
      /\ policy.budget \in Nat \cup {NoBudget}
  BY PolicyFields DEF LoopInv, CallTypeOK
<1>1. CASE UNCHANGED loopVars
  BY <1>1 DEF loopVars, LoopInv, CallTypeOK, WaitInv, ErrInv, RetryBeforeBudget,
              RetryBeforeDeadline, BlamesContext, Deciding, MayRetry, Retryable, RetriesStatus,
              Delay, Backoff, Doubled, BudgetAllows
<1>2. CASE Tick
  <2>1. CallTypeOK'
    BY <1>0, <1>2 DEF Tick, CallTypeOK
  <2>2. WaitInv'
    BY <1>0, <1>2 DEF Tick, LoopInv, CallTypeOK, WaitInv, Deciding, MayRetry, Retryable,
                      RetriesStatus
  <2>3. ErrInv' /\ RetryBeforeBudget' /\ RetryBeforeDeadline'
    BY <1>2 DEF Tick, LoopInv, ErrInv, RetryBeforeBudget, RetryBeforeDeadline
  <2>4. BlamesContext'
    BY <1>2 DEF Tick, LoopInv, BlamesContext
  <2> QED
    BY <2>1, <2>2, <2>3, <2>4 DEF LoopInv
<1>3. ASSUME NEW how \in {"expired", "canceled"}, CtxEnds(how) PROVE LoopInv'
  <2>1. CallTypeOK' /\ ErrInv' /\ RetryBeforeBudget' /\ RetryBeforeDeadline'
    BY <1>3 DEF CtxEnds, LoopInv, CallTypeOK, ErrInv, RetryBeforeBudget, RetryBeforeDeadline
  <2>2. WaitInv'
    BY <1>3 DEF CtxEnds, LoopInv, WaitInv, Deciding, MayRetry, Retryable, RetriesStatus
  <2>3. BlamesContext'
    BY <1>3 DEF CtxEnds, LoopInv, BlamesContext
  <2> QED
    BY <2>1, <2>2, <2>3 DEF LoopInv
<1>4. CASE AttemptExpires
  <2>1. CallTypeOK' /\ ErrInv' /\ RetryBeforeBudget' /\ RetryBeforeDeadline'
    BY <1>4 DEF AttemptExpires, LoopInv, CallTypeOK, ErrInv, RetryBeforeBudget, RetryBeforeDeadline
  <2>2. WaitInv'
    BY <1>4 DEF AttemptExpires, LoopInv, WaitInv, Deciding
  <2>3. BlamesContext'
    BY <1>4 DEF AttemptExpires, LoopInv, BlamesContext
  <2> QED
    BY <2>1, <2>2, <2>3 DEF LoopInv
<1>5. ASSUME NEW status \in Statuses, NEW body \in {"whole", "invalid", "tooLarge"},
             NEW w \in ServerWaits, Respond(status, body, w)
      PROVE  LoopInv'
  <2>1. CASE status = "2xx" /\ body = "whole"
    BY <1>5, <2>1, FinishKeeps DEF Respond
  <2>2. CASE ~(status = "2xx" /\ body = "whole")
    <3>1. ResponseError(status, body) \in ResponseErrors
      BY <2>2, ResponseErrorRight
    <3>2. ResponseError(status, body) \in Errors \ {"canceled", "timeout0"}
      BY <3>1 DEF Errors, ResponseErrors, APIErrors
    <3>3. w \in Nat \cup {NoWait}
      BY WaitsAssumption
    <3> QED
      BY <1>5, <2>2, <3>2, <3>3, FailKeeps DEF Respond
  <2> QED
    BY <2>1, <2>2
<1>6. ASSUME NEW e \in Failures, Fail(e) PROVE LoopInv'
  BY <1>0, <1>6, AttemptErrorRight, FailKeeps DEF Fail, CallTypeOK
<1>7. CASE Send
  BY <1>0, <1>7, StartKeeps DEF Send
<1>8. CASE WaitPolicy
  <2>1. pc = "policy" /\ err \in Errors
    BY <1>8 DEF WaitPolicy, LoopInv, ErrInv
  <2>2. CASE Finish(err) /\ (~MayRetry(err) \/ \E w \in Delay(attempt) : ~BudgetAllows(w))
    BY <2>1, <2>2, FinishKeeps DEF LoopInv, ErrInv
  <2>3. ASSUME NEW w \in Delay(attempt), MayRetry(err), BudgetAllows(w), pc' = "check", d' = w,
               UNCHANGED <<now, ctx, deadline, policy, timeout, attempt, began, adl,
                           expired, err, asked, wake, result>>
        PROVE  LoopInv'
    <3>1. w \in Nat
      BY <1>0, DelayType DEF CallTypeOK
    <3>2. CallTypeOK'
      BY <1>0, <2>3, <3>1 DEF CallTypeOK
    <3>3. WaitInv'
      <4>1. MayRetry(err)'
        BY <2>3 DEF MayRetry, Retryable, RetriesStatus
      <4>2. policy'.budget # NoBudget => now' + d' < policy'.budget
        BY <1>0, <2>3, <3>1 DEF BudgetAllows, CallTypeOK
      <4> QED
        BY <2>3, <4>1, <4>2 DEF WaitInv
    <3>4. ErrInv' /\ RetryBeforeBudget' /\ RetryBeforeDeadline'
      BY <2>3 DEF LoopInv, ErrInv, RetryBeforeBudget, RetryBeforeDeadline
    <3>5. BlamesContext'
      BY <2>3 DEF LoopInv, BlamesContext
    <3> QED
      BY <3>2, <3>3, <3>4, <3>5 DEF LoopInv
  <2> QED
    BY <1>8, <2>2, <2>3 DEF WaitPolicy
<1>9. ASSUME NEW l \in {"deadline", "await"}, Goto(l), pc \in {"check", "deadline"}
      PROVE  LoopInv'
  <2>1. CallTypeOK' /\ ErrInv' /\ RetryBeforeBudget' /\ RetryBeforeDeadline'
    BY <1>9 DEF Goto, LoopInv, CallTypeOK, ErrInv, RetryBeforeBudget, RetryBeforeDeadline
  <2>2. WaitInv'
    BY <1>9 DEF Goto, LoopInv, WaitInv, Deciding, MayRetry, Retryable, RetriesStatus
  <2>3. BlamesContext'
    BY <1>9 DEF Goto, LoopInv, BlamesContext
  <2> QED
    BY <2>1, <2>2, <2>3 DEF LoopInv
<1>10. ASSUME ctx # "live", Finish(WaitError) PROVE LoopInv'
  BY <1>0, <1>10, WaitErrorRight, FinishKeeps DEF CallTypeOK
<1>11. CASE WaitCheck
  <2>1. CASE ctx = "live"
    BY <1>9, <1>11, <2>1 DEF WaitCheck
  <2>2. CASE ctx # "live" /\ err = "timeout0" /\ ctx = "expired"
    BY <1>11, <2>2, FinishKeeps DEF WaitCheck, Errors
  <2>3. CASE ctx # "live" /\ ~(err = "timeout0" /\ ctx = "expired")
    BY <1>10, <1>11, <2>3 DEF WaitCheck
  <2> QED
    BY <2>1, <2>2, <2>3
<1>12. CASE WaitDeadline
  <2>1. CASE Goto("await")
    BY <1>9, <1>12, <2>1 DEF WaitDeadline
  <2>2. CASE ~DeadlineFirst /\ d = 0 /\ StartAttempt(attempt + 1)
    <3>1. /\ policy.budget # NoBudget => now < policy.budget
          /\ deadline # Never => now < deadline
          /\ attempt + 1 \in Nat /\ attempt + 1 <= policy.max
      BY <1>0, <1>12, <2>2 DEF WaitDeadline, DeadlineFirst, LoopInv, WaitInv, CallTypeOK, Deciding,
                               MayRetry, NoBudget, Never
    <3> QED
      BY <1>12, <2>2, <3>1, StartKeeps DEF WaitDeadline
  <2>3. CASE /\ ~DeadlineFirst /\ d > 0 /\ pc' = "sleep" /\ wake' = now + d
             /\ UNCHANGED <<now, ctx, deadline, policy, timeout, attempt, began, adl, expired,
                            err, asked, d, result>>
    <3>1. CallTypeOK'
      BY <1>0, <2>3 DEF CallTypeOK
    <3>2. WaitInv'
      <4>1. MayRetry(err)'
        BY <1>12, <2>3 DEF WaitDeadline, LoopInv, WaitInv, Deciding, MayRetry, Retryable,
                           RetriesStatus
      <4>2. /\ policy'.budget # NoBudget => wake' < policy'.budget
            /\ deadline' # Never => wake' < deadline'
            /\ now' <= wake'
        BY <1>0, <1>12, <2>3 DEF WaitDeadline, LoopInv, WaitInv, CallTypeOK, DeadlineFirst,
                                 NoBudget, Never
      <4> QED
        BY <2>3, <4>1, <4>2 DEF WaitInv
    <3>3. ErrInv' /\ RetryBeforeBudget' /\ RetryBeforeDeadline'
      BY <2>3 DEF LoopInv, ErrInv, RetryBeforeBudget, RetryBeforeDeadline
    <3>4. BlamesContext'
      BY <2>3 DEF LoopInv, BlamesContext
    <3> QED
      BY <3>1, <3>2, <3>3, <3>4 DEF LoopInv
  <2> QED
    BY <1>12, <2>1, <2>2, <2>3 DEF WaitDeadline
<1>13. CASE Await \/ SleepCtx
  BY <1>10, <1>13 DEF Await, SleepCtx
<1>14. CASE SleepEnds
  <2>1. CASE ctx # "live"
    BY <1>10, <1>14, <2>1 DEF SleepEnds
  <2>2. CASE ctx = "live"
    <3>1. /\ policy.budget # NoBudget => now < policy.budget
          /\ deadline # Never => now < deadline
          /\ attempt + 1 \in Nat /\ attempt + 1 <= policy.max
      BY <1>0, <1>14 DEF SleepEnds, LoopInv, WaitInv, CallTypeOK, Deciding, MayRetry, NoBudget, Never
    <3> QED
      BY <1>14, <2>2, <3>1, StartKeeps DEF SleepEnds
  <2> QED
    BY <2>1, <2>2
<1> QED
  BY <1>1, <1>2, <1>3, <1>4, <1>5, <1>6, <1>7, <1>8, <1>11, <1>12, <1>13, <1>14
     DEF CallNext, CallStep, AttemptEnds

\* The loop's inductive invariant.
THEOREM CallInvariant == CallSpec => []LoopInv
BY LoopInitially, LoopStep, PTL DEF CallSpec

\* Type correctness, with no more attempts than the policy's retries allow.
THEOREM CallTypes == CallSpec => []CallTypeOK
BY CallInvariant, PTL DEF LoopInv

\* No retry starts at or beyond the budget, nor at or after the caller's
\* deadline.
THEOREM CallRetriesInTime == CallSpec => []RetryInTime
BY CallInvariant, PTL DEF LoopInv, RetryInTime

\* A call blames its context exactly when that ended it.
THEOREM CallBlamesContext == CallSpec => []BlamesContext
BY CallInvariant, PTL DEF LoopInv

\* Only what the policy may retry is followed by another attempt, and no
\* attempt follows a sleep during which the context ended.
THEOREM CallRetriesOnlyWhatMay == CallSpec => RetriesOnlyWhatMay
<1>1. LoopInv /\ [CallNext]_loopVars =>
        [attempt' > attempt =>
           /\ err \notin Canceled
           /\ err \in {"invalid", "tooLarge", "config"} => policy.predicate
           /\ pc = "sleep" => ctx = "live"]_loopVars
  <2> SUFFICES ASSUME LoopInv, CallNext, attempt' > attempt
               PROVE  /\ err \notin Canceled
                      /\ err \in {"invalid", "tooLarge", "config"} => policy.predicate
                      /\ pc = "sleep" => ctx = "live"
    OBVIOUS
  <2>1. attempt \in Nat
    BY PolicyFields DEF LoopInv, CallTypeOK
  <2>2. pc \in {"deadline", "sleep"}
    <3>1. ASSUME attempt' = attempt PROVE FALSE
      BY <2>1, <3>1
    <3>2. ASSUME Send PROVE FALSE
      BY <2>1, <3>2 DEF Send, StartAttempt
    <3> QED
      BY <3>1, <3>2
         DEF CallNext, CallStep, AttemptEnds, Tick, CtxEnds, AttemptExpires, Respond, Fail,
             FailAttempt, Finish, WaitPolicy, WaitCheck, WaitDeadline, Await, SleepEnds, SleepCtx,
             Goto
  <2>3. Retryable(err)
    BY <2>2 DEF LoopInv, WaitInv, Deciding, MayRetry
  <2>4. attempt' # attempt
    BY <2>1
  <2>5. pc = "sleep" => ctx = "live"
    BY <2>4 DEF CallNext, CallStep, AttemptEnds, Tick, CtxEnds, AttemptExpires, Respond, Fail,
                Send, Finish, WaitPolicy, WaitCheck, WaitDeadline, Await, SleepEnds, SleepCtx
  <2> QED
    BY <2>3, <2>5 DEF Retryable, APIErrors
<1> QED
  BY <1>1, CallInvariant, PTL DEF CallSpec, RetriesOnlyWhatMay

\* Where the time of a call goes: an attempt takes MaxLatency at most, the
\* first starts at 0, and a call that waits for its context's end waits for a
\* deadline that is within the budget.
TimeInv ==
  /\ pc = "send" => now = 0 /\ began = 0
  /\ pc \in {"attempt", "policy"} => now <= began + MaxLatency
  /\ attempt = 0 => began = 0
  /\ pc = "await" /\ policy.budget # NoBudget => now < policy.budget /\ deadline < policy.budget
  /\ WithinBudget

\* A step of a call that was within its budget keeps it there.
LEMMA TimeStep == LoopInv /\ TimeInv /\ [CallNext]_loopVars => TimeInv'
<1> SUFFICES ASSUME LoopInv, TimeInv, [CallNext]_loopVars PROVE TimeInv'
  OBVIOUS
<1>0. /\ now \in Nat /\ began \in Nat /\ d \in Nat /\ wake \in Nat /\ attempt \in Nat
      /\ deadline \in Nat \cup {Never} /\ policy.budget \in Nat \cup {NoBudget} /\ MaxLatency \in Nat
  BY PolicyFields, LatencyAssumption DEF LoopInv, CallTypeOK
<1>1. CASE UNCHANGED loopVars
  BY <1>1 DEF loopVars, TimeInv, WithinBudget
<1>2. CASE Tick
  <2>1. UNCHANGED <<deadline, policy, pc, attempt, began>> /\ now' = now + 1
    BY <1>2 DEF Tick
  <2>2. CASE pc = "attempt" /\ now < began + MaxLatency
    <3>1. policy.budget # NoBudget => began <= policy.budget
      BY <1>0 DEF LoopInv, RetryBeforeBudget, TimeInv, NoBudget
    <3> QED BY <1>0, <2>1, <2>2, <3>1 DEF TimeInv, WithinBudget, NoBudget
  <2>3. CASE pc = "sleep" /\ now < wake
    BY <1>0, <2>1, <2>3 DEF LoopInv, WaitInv, TimeInv, WithinBudget, NoBudget
  <2>4. CASE pc = "await" /\ now < deadline
    BY <1>0, <2>1, <2>4 DEF TimeInv, WithinBudget, NoBudget, Never
  <2> QED BY <1>2, <2>2, <2>3, <2>4 DEF Tick
<1>3. ASSUME NEW n \in Nat, StartAttempt(n), n = 0 => pc = "send"
      PROVE  TimeInv'
  BY <1>0, <1>3 DEF StartAttempt, TimeInv, WithinBudget
<1>4. ASSUME NEW r, Finish(r) PROVE TimeInv'
  BY <1>4 DEF Finish, TimeInv, WithinBudget
<1>5. ASSUME pc = "attempt", NEW e, NEW w, FailAttempt(e, w) PROVE TimeInv'
  BY <1>5 DEF FailAttempt, TimeInv, WithinBudget
<1>6. CASE \E how \in {"expired", "canceled"} : CtxEnds(how)
  BY <1>6 DEF CtxEnds, TimeInv, WithinBudget
<1>7. CASE AttemptExpires
  BY <1>7 DEF AttemptExpires, TimeInv, WithinBudget
<1>8. CASE AttemptEnds
  BY <1>4, <1>5, <1>8 DEF AttemptEnds, Respond, Fail
<1>9. CASE Send
  BY <1>3, <1>9 DEF Send
<1>10. CASE WaitPolicy
  <2>1. ASSUME pc' = "check", UNCHANGED <<now, deadline, policy, attempt, began>> PROVE TimeInv'
    BY <2>1 DEF TimeInv, WithinBudget
  <2> QED BY <1>4, <1>10, <2>1 DEF WaitPolicy
<1>11. CASE WaitCheck
  <2>1. CASE Goto("deadline")
    BY <2>1 DEF Goto, TimeInv, WithinBudget
  <2> QED BY <1>4, <1>11, <2>1 DEF WaitCheck
<1>12. CASE WaitDeadline
  <2>1. CASE DeadlineFirst /\ Goto("await")
    <3>1. policy.budget # NoBudget => now + d < policy.budget
      BY <1>12 DEF WaitDeadline, LoopInv, WaitInv
    <3>2. policy.budget # NoBudget => now < policy.budget /\ deadline < policy.budget
      BY <1>0, <2>1, <3>1 DEF DeadlineFirst, NoBudget, Never
    <3> QED BY <2>1, <3>2 DEF Goto, TimeInv, WithinBudget
  <2>2. CASE StartAttempt(attempt + 1)
    BY <1>0, <1>3, <2>2
  <2>3. CASE pc' = "sleep" /\ UNCHANGED <<now, deadline, policy, attempt, began>>
    BY <2>3 DEF TimeInv, WithinBudget
  <2> QED BY <1>12, <2>1, <2>2, <2>3 DEF WaitDeadline
<1>13. CASE Await \/ SleepCtx
  BY <1>4, <1>13 DEF Await, SleepCtx
<1>14. CASE SleepEnds
  BY <1>0, <1>3, <1>4, <1>14 DEF SleepEnds
<1> QED
  BY <1>1, <1>2, <1>6, <1>7, <1>8, <1>9, <1>10, <1>11, <1>12, <1>13, <1>14 DEF CallNext, CallStep

\* A call with a budget takes at most one attempt more than the budget.
THEOREM CallWithinBudget == CallSpec => []WithinBudget
<1>1. CallInit => TimeInv
  BY PolicyFields, LatencyAssumption DEF CallInit, TimeInv, WithinBudget, NoBudget
<1>2. TimeInv => WithinBudget
  BY DEF TimeInv
<1> QED
  BY <1>1, <1>2, TimeStep, CallInvariant, PTL DEF CallSpec

-----------------------------------------------------------------------------
(***************************************************************************)
(* ReadBody returns what it should, and never reads without room, for      *)
(* every limit, declared length and body, and for every choice of the      *)
(* first buffers and of the smallest growth.                               *)
(***************************************************************************)
\* The buffer while ReadBody works: it can hold the limit and a byte at most,
\* it holds bytes the reader had, and it never ends exactly at a declared
\* length that the body keeps to, so it is never full before that body ends.
Buffered ==
    /\ readpc \in {"start", "loop", "read"} => limit > 0
    /\ readpc \in {"idle", "start"} => held = 0 /\ room = 0
    /\ readpc \in {"loop", "read"} =>
          /\ declared <= limit
          /\ held <= room /\ held <= sent
          /\ room >= 1
          /\ sent <= declared => room # declared

ReadInv == ReadTypeOK /\ ReadsWhole /\ RoomToRead /\ Buffered

\* The first buffer has room, within the limit and the declared length.
LEMMA FirstRoomFits ==
    ASSUME declared \in Nat \cup {Undeclared}, limit \in Nat \ {0}, declared <= limit
    PROVE  /\ FirstRoom \in Nat
           /\ 1 <= FirstRoom /\ FirstRoom <= limit + 1
           /\ declared >= 0 => FirstRoom <= declared + 1 /\ FirstRoom # declared
  BY BufferAssumption, SMT DEF FirstRoom, Less, Undeclared

\* grow makes room, within the limit; while the declared length is ahead it
\* stays within it too, and never ends at it.
LEMMA GrownFits ==
    ASSUME declared \in Nat \cup {Undeclared}, limit \in Nat \ {0}, held \in Nat,
           declared <= limit, held <= limit
    PROVE  /\ Grown \in Nat
           /\ held < Grown /\ Grown <= limit + 1
           /\ declared > held => Grown <= declared + 1 /\ Grown # declared
<1> DEFINE end  == IF declared > held THEN declared ELSE limit
           next == More(2 * held, MinGrow)
<1>1. end \in Nat /\ held <= end /\ end <= limit
  BY SMT DEF Undeclared
<1>2. next \in Nat /\ next >= 1 /\ next > held
  BY BufferAssumption, SMT DEF More
<1>3. Grown = IF 2 * next > end THEN end + 1 ELSE next
  BY DEF Grown
<1>4. declared > held => end = declared
  OBVIOUS
<1> HIDE DEF end, next
<1> QED
  BY <1>1, <1>2, <1>3, <1>4, SMT

LEMMA ReadInitially == ReadInit => ReadInv
  BY BufferAssumption, SMT
  DEF ReadInit, ReadInv, ReadTypeOK, ReadsWhole, RoomToRead, Buffered, Undeclared

LEMMA TypesKept ==
    ASSUME ReadInv, [ReadNext]_rvars
    PROVE  ReadTypeOK'
<1> USE BufferAssumption DEF ReadInv, ReadTypeOK, Returns
<1>1. CASE \E n \in Lengths \cup {Undeclared}, l \in Limits, s \in Sizes, e \in {"eof", "error"} :
            CallRead(n, l, s, e)
  BY <1>1, SMT DEF CallRead
<1>2. CASE RefuseDeclared
  BY <1>2, SMT DEF RefuseDeclared
<1>3. CASE MakeBuffer
  <2>1. FirstRoom \in Nat
    BY <1>3, FirstRoomFits, SMT DEF MakeBuffer, Buffered
  <2> QED
    BY <1>3, <2>1, SMT DEF MakeBuffer
<1>4. CASE EndPastLimit
  BY <1>4, SMT DEF EndPastLimit
<1>5. CASE MakeRoom
  <2>1. held = room => Grown \in Nat
    BY <1>5, GrownFits, SMT DEF MakeRoom, PastLimit, Buffered
  <2> QED
    BY <1>5, <2>1, SMT DEF MakeRoom
<1>6. CASE ReadSome
  BY <1>6, SMT DEF ReadSome, Less
<1>7. CASE ReadLast
  BY <1>7, SMT DEF ReadLast
<1>8. CASE ReturnRead
  BY <1>8, SMT DEF ReturnRead, Undeclared
<1>9. CASE UNCHANGED rvars
  BY <1>9, SMT DEF rvars
<1> QED
  BY <1>1, <1>2, <1>3, <1>4, <1>5, <1>6, <1>7, <1>8, <1>9 DEF ReadNext

LEMMA BufferKept ==
    ASSUME ReadInv, [ReadNext]_rvars
    PROVE  (RoomToRead /\ Buffered)'
<1> USE BufferAssumption DEF ReadInv, ReadTypeOK, RoomToRead, Buffered, Returns
<1>1. CASE \E n \in Lengths \cup {Undeclared}, l \in Limits, s \in Sizes, e \in {"eof", "error"} :
            CallRead(n, l, s, e)
  <2>1. PICK n \in Lengths \cup {Undeclared}, l \in Limits, s \in Sizes, e \in {"eof", "error"} :
          CallRead(n, l, s, e)
    BY <1>1
  <2> QED
    BY <2>1, SMT DEF CallRead, Undeclared
<1>2. CASE RefuseDeclared
  BY <1>2, SMT DEF RefuseDeclared
<1>3. CASE MakeBuffer
  <2>1. /\ FirstRoom \in Nat
        /\ 1 <= FirstRoom /\ FirstRoom <= limit + 1
        /\ declared >= 0 => FirstRoom <= declared + 1 /\ FirstRoom # declared
    BY <1>3, FirstRoomFits, SMT DEF MakeBuffer
  <2> QED
    BY <1>3, <2>1, SMT DEF MakeBuffer, Undeclared
<1>4. CASE EndPastLimit
  BY <1>4, SMT DEF EndPastLimit
<1>5. CASE MakeRoom
  <2>1. held = room =>
          /\ Grown \in Nat
          /\ held < Grown /\ Grown <= limit + 1
          /\ declared > held => Grown <= declared + 1 /\ Grown # declared
    BY <1>5, GrownFits, SMT DEF MakeRoom, PastLimit
  <2>2. sent <= declared /\ held = room => declared > held
    BY <1>5, SMT DEF MakeRoom, Undeclared
  <2> QED
    BY <1>5, <2>1, <2>2, SMT DEF MakeRoom, Undeclared
<1>6. CASE ReadSome
  BY <1>6, SMT DEF ReadSome, Less
<1>7. CASE ReadLast
  BY <1>7, SMT DEF ReadLast
<1>8. CASE ReturnRead
  BY <1>8, SMT DEF ReturnRead, Undeclared
<1>9. CASE UNCHANGED rvars
  BY <1>9, SMT DEF rvars
<1> QED
  BY <1>1, <1>2, <1>3, <1>4, <1>5, <1>6, <1>7, <1>8, <1>9 DEF ReadNext

\* Only three actions return: each returns what the whole body deserves.
LEMMA WholeKept ==
    ASSUME ReadInv, [ReadNext]_rvars
    PROVE  ReadsWhole'
<1> USE BufferAssumption DEF ReadInv, ReadTypeOK, ReadsWhole, Returns
<1>1. CASE RefuseDeclared
  BY <1>1, SMT DEF RefuseDeclared
<1>2. CASE EndPastLimit
  BY <1>2, SMT DEF EndPastLimit, PastLimit, Buffered, Undeclared
<1>3. CASE ReadLast
  BY <1>3, SMT DEF ReadLast, Buffered, Undeclared
<1>4. CASE MakeBuffer \/ MakeRoom \/ ReadSome \/ ReturnRead
  BY <1>4, SMT DEF MakeBuffer, MakeRoom, ReadSome, ReturnRead
<1>5. CASE \E n \in Lengths \cup {Undeclared}, l \in Limits, s \in Sizes, e \in {"eof", "error"} :
            CallRead(n, l, s, e)
  BY <1>5, SMT DEF CallRead
<1>6. CASE UNCHANGED rvars
  BY <1>6, SMT DEF rvars
<1> QED
  BY <1>1, <1>2, <1>3, <1>4, <1>5, <1>6 DEF ReadNext

LEMMA ReadInvariant == ReadSpec => []ReadInv
<1>1. ReadInit => ReadInv
  BY ReadInitially
<1>2. ReadInv /\ [ReadNext]_rvars => ReadInv'
  BY TypesKept, BufferKept, WholeKept DEF ReadInv
<1> QED
  BY <1>1, <1>2, PTL DEF ReadSpec

\* ReadBody returns the whole body, ErrTooLarge or the reader's error, each
\* exactly when it should, whatever pieces the reader hands over.
THEOREM ReadBodyReadsWhole == ReadSpec => []ReadsWhole
<1>1. ReadInv => ReadsWhole
  BY DEF ReadInv
<1> QED
  BY <1>1, ReadInvariant, PTL

\* ReadBody never hands its reader an empty slice, and its buffer stays within
\* the limit, and within a declared length the body keeps to, but for a byte.
THEOREM ReadBodyHasRoom == ReadSpec => []RoomToRead
<1>1. ReadInv => RoomToRead
  BY DEF ReadInv
<1> QED
  BY <1>1, ReadInvariant, PTL

-----------------------------------------------------------------------------
(***************************************************************************)
(* PlanCache, for every set of goroutines and of types and any number of   *)
(* calls.                                                                  *)
(***************************************************************************)

\* What planFor has in hand: the plan a goroutine built is of the type it
\* asked about, and one it was given is the entry of that type.
InHand ==
  \A g \in Goroutines :
    /\ tpc[g] # "idle" => wants[g] \in Types
    /\ tpc[g] = "store" => built[g] \in Plan /\ built[g].of = wants[g]
    /\ tpc[g] = "use" => wants[g] \in DOMAIN plans /\ chosen[g] = plans[wants[g]]

\* The cache's entries are of their types, and every plan that was used is one.
Kept ==
  /\ \A t \in DOMAIN plans : plans[t].of = t
  /\ \A u \in returned : u.type \in DOMAIN plans /\ u.plan = plans[u.type]

PlanInv == CacheTypeOK /\ InHand /\ Kept

LEMMA PlanInvInit == CacheInit => PlanInv
  BY DEF CacheInit, PlanInv, CacheTypeOK, InHand, Kept

LEMMA LoadKeeps ==
  ASSUME PlanInv, NEW g \in Goroutines, NEW t \in Types, Load(g, t)
  PROVE  PlanInv'
<1>1. CacheTypeOK'
  BY DEF Load, Step, PlanInv, CacheTypeOK
<1>2. InHand'
  BY DEF Load, Step, PlanInv, CacheTypeOK, InHand
<1>3. Kept'
  BY DEF Load, PlanInv, Kept
<1> QED BY <1>1, <1>2, <1>3 DEF PlanInv

LEMMA BuildKeeps ==
  ASSUME PlanInv, NEW g \in Goroutines, Build(g)
  PROVE  PlanInv'
<1>1. [of |-> wants[g], by |-> g, call |-> calls[g]] \in Plan
  BY DEF Build, Step, PlanInv, CacheTypeOK, InHand, Plan
<1>2. CacheTypeOK'
  BY <1>1 DEF Build, Step, PlanInv, CacheTypeOK
<1>3. InHand'
  BY <1>1 DEF Build, Step, PlanInv, CacheTypeOK, InHand
<1>4. Kept'
  BY DEF Build, PlanInv, Kept
<1> QED BY <1>2, <1>3, <1>4 DEF PlanInv

\* The entries that are there stay, and the goroutine gets the one of its type.
LEMMA LoadOrStoreKeeps ==
  ASSUME PlanInv, NEW g \in Goroutines, LoadOrStore(g)
  PROVE  /\ PlanInv'
         /\ \A t \in DOMAIN plans : t \in DOMAIN plans' /\ plans'[t] = plans[t]
<1>1. /\ wants[g] \in Types
      /\ built[g] \in Plan /\ built[g].of = wants[g]
  BY DEF LoadOrStore, Step, PlanInv, InHand
<1>2. /\ DOMAIN plans' = DOMAIN plans \cup {wants[g]}
      /\ \A t \in DOMAIN plans : plans'[t] = plans[t]
      /\ wants[g] \notin DOMAIN plans => plans'[wants[g]] = built[g]
  BY DEF LoadOrStore
<1>3. \A t \in DOMAIN plans' : plans'[t] \in Plan /\ plans'[t].of = t
  BY <1>1, <1>2 DEF PlanInv, CacheTypeOK, Kept
<1>4. CacheTypeOK'
  BY <1>1, <1>2, <1>3 DEF LoadOrStore, Step, PlanInv, CacheTypeOK
<1>5. InHand'
  BY <1>1, <1>2 DEF LoadOrStore, Step, PlanInv, CacheTypeOK, InHand
<1>6. Kept'
  BY <1>2, <1>3 DEF LoadOrStore, PlanInv, Kept
<1> QED BY <1>2, <1>4, <1>5, <1>6 DEF PlanInv

LEMMA UseKeeps ==
  ASSUME PlanInv, NEW g \in Goroutines, Use(g)
  PROVE  PlanInv'
<1>1. /\ wants[g] \in Types /\ wants[g] \in DOMAIN plans
      /\ chosen[g] = plans[wants[g]] /\ chosen[g] \in Plan
  BY DEF Use, Step, PlanInv, InHand, CacheTypeOK
<1>2. CacheTypeOK'
  BY <1>1 DEF Use, Step, PlanInv, CacheTypeOK
<1>3. InHand'
  BY DEF Use, Step, PlanInv, CacheTypeOK, InHand
<1>4. Kept'
  BY <1>1 DEF Use, PlanInv, Kept
<1> QED BY <1>2, <1>3, <1>4 DEF PlanInv

\* A step keeps the invariant and every entry.
LEMMA CacheStepKeeps ==
  ASSUME PlanInv, [CacheNext]_cacheVars
  PROVE  /\ PlanInv'
         /\ \A t \in DOMAIN plans : t \in DOMAIN plans' /\ plans'[t] = plans[t]
<1>1. CASE UNCHANGED cacheVars
  BY <1>1 DEF cacheVars, PlanInv, CacheTypeOK, InHand, Kept
<1>2. ASSUME NEW g \in Goroutines, NEW t \in Types, Load(g, t) PROVE PlanInv' /\ UNCHANGED plans
  BY <1>2, LoadKeeps DEF Load
<1>3. ASSUME NEW g \in Goroutines, Build(g) PROVE PlanInv' /\ UNCHANGED plans
  BY <1>3, BuildKeeps DEF Build
<1>4. ASSUME NEW g \in Goroutines, Use(g) PROVE PlanInv' /\ UNCHANGED plans
  BY <1>4, UseKeeps DEF Use
<1> QED BY <1>1, <1>2, <1>3, <1>4, LoadOrStoreKeeps DEF CacheNext

THEOREM PlanCacheInvariant == CacheSpec => []PlanInv
<1> QED BY PlanInvInit, CacheStepKeeps, PTL DEF CacheSpec

\* The cache and the goroutines' state are well typed.
THEOREM PlanCacheTyped == CacheSpec => []CacheTypeOK
<1>1. PlanInv => CacheTypeOK
  BY DEF PlanInv
<1> QED BY <1>1, PlanCacheInvariant, PTL

\* planFor: however many goroutines build a type's plan at once, every call
\* for the type uses the same plan for the life of the process, one built of it.
THEOREM PlanCacheOnePlan == CacheSpec => []OnePlan
<1>1. PlanInv => OnePlan
  BY DEF PlanInv, Kept, OnePlan
<1> QED BY <1>1, PlanCacheInvariant, PTL

\* LoadOrStore: an entry of typedPlans is never replaced or lost.
THEOREM PlanCacheOnlyGrows == CacheSpec => PlansOnlyGrow
<1>1. PlanInv /\ [CacheNext]_cacheVars
        => [\A t \in DOMAIN plans : t \in DOMAIN plans' /\ plans'[t] = plans[t]]_cacheVars
  BY CacheStepKeeps
<1> QED BY <1>1, PlanCacheInvariant, PTL DEF CacheSpec, PlansOnlyGrow
=============================================================================
