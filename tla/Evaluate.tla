------------------------------ MODULE Evaluate ------------------------------
(***************************************************************************)
(* One System One call answered by the Adapter: Adapter.serve and          *)
(* failureReply (adapter/seam.go), evaluate's run with its corrective      *)
(* requests (adapter/evaluate.go), the retries of each provider request    *)
(* (adapter/retry.go), the Report's accounting and the attempt log.        *)
(*                                                                         *)
(* Two loops are nested: a corrective round asks the model again after an  *)
(* output that does not match the schema, and in each round the provider's *)
(* transient failures are retried under the policy, whose budget and retry *)
(* count start afresh.  The caller's context may end at any step; the      *)
(* clock passes while the provider works and while the call waits.         *)
(* Providers, the schema validator and the probabilities are external to   *)
(* the control modelled here: a provider's answer is one of Outcomes.      *)
(***************************************************************************)
EXTENDS Integers, Sequences, FiniteSets

CONSTANTS
    Requests,      \* what may be wrong with a request: sets of Defects
    Policies,      \* the retry policies a call may be made under
    Deadlines,     \* the deadlines of the caller's context; Never is none
    Corrections,   \* the values of malformedRetries
    MaxLatency     \* how long the longest provider request takes

Never    == -1
NoBudget == -1

Policy == [max : Nat, delay : Nat, budget : Nat \cup {NoBudget},
           timeouts : BOOLEAN, connections : BOOLEAN, predicate : BOOLEAN]

ASSUME EvalPolicies    == Policies \subseteq Policy
ASSUME EvalDeadlines   == Deadlines \subseteq Nat \cup {Never}
ASSUME EvalCorrections == Corrections \subseteq Nat
ASSUME EvalLatency     == MaxLatency \in Nat

(***************************************************************************)
(* What Provider.Do returns: a result whose text matches the schema        *)
(* ("valid") or not ("invalid"), with its token count or without           *)
(* ("uncounted" ones), or one of llm's typed errors, an error of its own,  *)
(* or neither a result nor an error.                                       *)
(***************************************************************************)
Matching == {"valid", "validUncounted"}
Results  == Matching \cup {"invalid", "invalidUncounted"}
Failures == {"timeout", "connection", "status5xx", "status4xx", "nonAnswer", "other", "noResult"}
Outcomes == Results \cup Failures

Counted(o) == o \in {"valid", "invalid"}

\* What keeps a request from its evaluation, in the order serve looks; a GET
\* of the models is answered with their list.
Checks == <<"models", "path", "read", "body", "model", "provider", "state", "questions",
            "policy", "depth">>
Defects == {Checks[i] : i \in DOMAIN Checks}

ASSUME EvalRequests == Requests \subseteq SUBSET Defects

VARIABLES
    now, ctx, deadline,                 \* the clock and the caller's context
    defects, policy, corrections,       \* the request and the call's settings
    pc,                                 \* where the call is
    start, until,                       \* when the round's retries and the request began; the wait's end
    round, retries, messages,           \* corrective rounds, retries of this round, the conversation's length
    got, err,                           \* what the provider returned; what ended the evaluation
    attempts, reasons,                  \* Report.Debug: Attempts and RetryReasons
    nRetries, nMalformed, total,        \* Report.Usage: the counters, and the token total or Unknown
    pending, records,                   \* the attempt log: the record not yet written, those written
    reply                               \* what RoundTrip returns

world  == <<now, ctx, deadline>>
config == <<defects, policy, corrections>>
loop   == <<start, until, round, retries, messages, got>>
report == <<attempts, reasons, nRetries, nMalformed, total>>
log    == <<pending, records>>

vars == <<now, ctx, deadline, defects, policy, corrections, pc, start, until, round, retries,
          messages, got, err, attempts, reasons, nRetries, nMalformed, total, pending, records,
          reply>>

Unknown   == -1
NoRecord  == [attempt |-> 0, outcome |-> "none", retry |-> FALSE]
NoReply   == [kind |-> "none", status |-> 0, reported |-> FALSE]

Init ==
    /\ now = 0 /\ ctx = "live" /\ deadline \in Deadlines
    /\ defects \in Requests /\ policy \in Policies /\ corrections \in Corrections
    /\ pc = "serve" /\ start = 0 /\ until = 0 /\ round = 0 /\ retries = 0 /\ messages = 2
    /\ got = "none" /\ err = "none"
    /\ attempts = <<>> /\ reasons = <<>> /\ nRetries = 0 /\ nMalformed = 0 /\ total = 0
    /\ pending = NoRecord /\ records = <<>> /\ reply = NoReply

Past(t) == t # Never /\ now >= t
Ended == ctx # "live"

-----------------------------------------------------------------------------
(* The world: the clock and the caller's context.  The context's timer may *)
(* run before or after any other step of the instant of its deadline.      *)

Tick ==
    /\ \/ pc = "provider" /\ now < until + MaxLatency
       \/ pc = "sleep" /\ now < until
       \/ pc = "await" /\ now < deadline
    /\ ctx = "live" => ~Past(deadline)
    /\ now' = now + 1
    /\ UNCHANGED <<ctx, deadline, config, pc, loop, err, report, log, reply>>

CtxEnds(how) ==
    /\ pc \notin {"done", "panicked"} /\ ctx = "live" /\ (how = "expired" => Past(deadline))
    /\ ctx' = how
    /\ UNCHANGED <<now, deadline, config, pc, loop, err, report, log, reply>>

-----------------------------------------------------------------------------
(* serve: the first defect in its order is the refusal.                    *)

RefusalStatus(d) ==
    CASE d = "models" -> 200
      [] d = "path" -> 404
      [] d \in {"read", "body", "model", "provider", "policy"} -> 400
      [] d \in {"state", "questions", "depth"} -> 422

FirstDefect == Checks[CHOOSE i \in DOMAIN Checks :
                          Checks[i] \in defects /\ \A j \in 1..(i - 1) : Checks[j] \notin defects]

Refused ==
    /\ pc = "serve" /\ defects # {}
    /\ reply' = [kind |-> FirstDefect, status |-> RefusalStatus(FirstDefect), reported |-> FALSE]
    /\ pc' = "done"
    /\ UNCHANGED <<world, config, loop, err, report, log>>

Accepted ==
    /\ pc = "serve" /\ defects = {}
    /\ pc' = "round"
    /\ UNCHANGED <<world, config, loop, err, report, log, reply>>

-----------------------------------------------------------------------------
(* runWithRetries, one per corrective round.                               *)

\* The round ends without a result: its retries are added to the Report.
RoundFails(e) ==
    /\ err' = e /\ pc' = "reply"
    /\ nRetries' = nRetries + retries
    /\ UNCHANGED <<world, config, loop, attempts, reasons, nMalformed, total, log, reply>>

\* No attempt starts on a context that is done; the retries and the budget
\* of the round start here.
RoundCtxDone == pc = "round" /\ Ended /\ RoundFails("ctx")

RoundStarts ==
    /\ pc = "round" /\ ~Ended
    /\ start' = now /\ pc' = "request"
    /\ UNCHANGED <<world, config, until, round, retries, messages, got, err, report, log, reply>>

\* The log record of the attempt before is written when the next one starts.
Flushed(rs, p) == IF p.attempt = 0 THEN rs ELSE Append(rs, p)

\* Variant: the pending record is dropped.
RequestUnflushed ==
    /\ pc = "request"
    /\ pending' = NoRecord /\ until' = now /\ pc' = "provider"
    /\ UNCHANGED <<world, config, start, round, retries, messages, got, err, report, records, reply>>

\* request: attemptLog.start, then Provider.Do.
Request ==
    /\ pc = "request"
    /\ records' = Flushed(records, pending) /\ pending' = NoRecord
    /\ until' = now /\ pc' = "provider"
    /\ UNCHANGED <<world, config, start, round, retries, messages, got, err, report, reply>>

\* attemptOutcome: a cancelled call first, then the error's own type, then a
\* passed deadline.
AttemptOutcome(o) ==
    CASE o \in Results    -> "ok"
      [] o = "noResult"   -> "error"
      [] o \in Failures \ {"noResult"} ->
            IF ctx = "canceled" THEN "error"
            ELSE IF o \in {"status5xx", "status4xx"} THEN "status"
            ELSE IF o = "other" THEN IF ctx = "expired" THEN "timeout" ELSE "error"
            ELSE o

\* classifyError: what the Attempt records of the failure; "" is nothing.
ErrorClass(o) ==
    IF o \in Results \/ ctx = "canceled" THEN ""
    ELSE IF o \in {"timeout", "connection", "status5xx", "status4xx", "nonAnswer"} THEN o
    ELSE IF ctx = "expired" THEN "timeout" ELSE "other"

\* The provider returns: the log's pending record, the Report's Attempt.
Returns(o) ==
    /\ pc = "provider"
    /\ pending' = [attempt |-> Len(attempts) + 1, outcome |-> AttemptOutcome(o), retry |-> FALSE]
    /\ attempts' = Append(attempts, [messages |-> messages, got |-> o, class |-> ErrorClass(o)])
    /\ got' = o
    /\ pc' = IF o \in Results THEN "decode" ELSE "failed"
    /\ UNCHANGED <<world, config, start, until, round, retries, messages, err, reasons,
                   nRetries, nMalformed, total, records, reply>>

\* The provider panics in Do: nothing of this attempt is recorded.
PanicsInDo ==
    /\ pc = "provider"
    /\ pc' = "panicked"
    /\ UNCHANGED <<world, config, loop, err, report, log, reply>>

\* The provider panics in Model, with the attempt's record pending: serve's
\* deferred flush writes it as the panic unwinds.
PanicsInModel(o) ==
    /\ pc = "provider"
    /\ records' = Append(records, [attempt |-> Len(attempts) + 1, outcome |-> AttemptOutcome(o),
                                   retry |-> FALSE])
    /\ pc' = "panicked"
    /\ UNCHANGED <<world, config, loop, err, report, pending, reply>>

Retryable(o) ==
    /\ o # "nonAnswer"
    /\ \/ o = "timeout" /\ policy.timeouts
       \/ o = "connection" /\ policy.connections
       \/ o = "status5xx"
       \/ policy.predicate

BudgetAllows == policy.budget = NoBudget \/ policy.delay < policy.budget - (now - start)

MayRetry == Retryable(got) /\ retries < policy.max /\ BudgetAllows

FailedCtx == pc = "failed" /\ Ended /\ RoundFails("ctx")

GivesUp == pc = "failed" /\ ~Ended /\ ~MayRetry /\ RoundFails(got)

\* record: the reason is in the Report and on the attempt's log record
\* before the wait.
RetryDecided ==
    /\ pc = "failed" /\ ~Ended /\ MayRetry
    /\ reasons' = Append(reasons, "provider")
    /\ pending' = [pending EXCEPT !.retry = TRUE]
    /\ pc' = "wait"
    /\ UNCHANGED <<world, config, loop, err, attempts, nRetries, nMalformed, total, records, reply>>

\* Variant: a context without a deadline is taken for one whose deadline is
\* the zero time.
DeadlineFirstZero == deadline <= now + policy.delay

\* waitRetry: a deadline no later than the wait's end is waited for.
DeadlineFirst == deadline # Never /\ deadline <= now + policy.delay

WaitBegins ==
    /\ pc = "wait"
    /\ pc' = IF DeadlineFirst THEN "await" ELSE "sleep"
    /\ until' = now + policy.delay
    /\ UNCHANGED <<world, config, start, round, retries, messages, got, err, report, log, reply>>

AwaitEnds == pc = "await" /\ Ended /\ RoundFails("ctx")

SleepCtx == pc = "sleep" /\ Ended /\ RoundFails("ctx")

SleepEnds ==
    /\ pc = "sleep" /\ now >= until /\ ~Ended
    /\ retries' = retries + 1 /\ pc' = "request"
    /\ UNCHANGED <<world, config, start, until, round, messages, got, err, report, log, reply>>

-----------------------------------------------------------------------------
(* decode: the output is validated, corrected, or given up.                *)

\* The total stays unknown once a result did not report its count; every
\* result that does reports one token here.
Added(t, o) == IF t = Unknown \/ ~Counted(o) THEN Unknown ELSE t + 1

Matches ==
    /\ pc = "decode" /\ got \in Matching
    /\ nRetries' = nRetries + retries /\ total' = Added(total, got)
    /\ err' = "none" /\ pc' = "reply"
    /\ UNCHANGED <<world, config, loop, attempts, reasons, nMalformed, log, reply>>

Malformed ==
    /\ pc = "decode" /\ got \notin Matching /\ round >= corrections
    /\ nRetries' = nRetries + retries /\ total' = Added(total, got)
    /\ pending' = [pending EXCEPT !.outcome = "malformed"]
    /\ err' = "malformed" /\ pc' = "reply"
    /\ UNCHANGED <<world, config, loop, attempts, reasons, nMalformed, records, reply>>

\* The answer and the correction prompt join the conversation.
Corrects ==
    /\ pc = "decode" /\ got \notin Matching /\ round < corrections
    /\ nRetries' = nRetries + retries /\ total' = Added(total, got)
    /\ pending' = [pending EXCEPT !.outcome = "malformed", !.retry = TRUE]
    /\ reasons' = Append(reasons, "malformed") /\ nMalformed' = nMalformed + 1
    /\ messages' = messages + 2
    /\ round' = round + 1 /\ retries' = 0 /\ pc' = "round"
    /\ UNCHANGED <<world, config, start, until, got, err, attempts, records, reply>>

-----------------------------------------------------------------------------
(* The reply.                                                              *)

\* Variant: an output that does not match is reported before the context.
FailureReplyMalformedFirst(e) ==
    CASE e = "malformed" -> [kind |-> "malformed", status |-> 200, reported |-> TRUE]
      [] e # "malformed" /\ ctx = "canceled" -> [kind |-> "canceled", status |-> 0, reported |-> FALSE]
      [] e # "malformed" /\ ctx = "expired"  -> [kind |-> "timeout", status |-> 0, reported |-> TRUE]
      [] OTHER -> [kind |-> e, status |-> 424, reported |-> TRUE]

\* failureReply: the caller's context decides first, whatever the provider
\* returned; then the error's own type.  Status 0 is an error in place of a
\* response; a cancelled call returns no Report.
FailureReply(e) ==
    IF ctx = "canceled" THEN [kind |-> "canceled", status |-> 0, reported |-> FALSE]
    ELSE IF ctx = "expired" THEN [kind |-> "timeout", status |-> 0, reported |-> TRUE]
    ELSE CASE e = "malformed" -> [kind |-> e, status |-> 200, reported |-> TRUE]
           [] e \in {"timeout", "connection"} -> [kind |-> e, status |-> 0, reported |-> TRUE]
           [] e = "status5xx" -> [kind |-> e, status |-> 500, reported |-> TRUE]
           [] e = "status4xx" -> [kind |-> e, status |-> 400, reported |-> TRUE]
           [] OTHER -> [kind |-> e, status |-> 424, reported |-> TRUE]

\* finish, attemptLog.call, and the reply.
Reply ==
    /\ pc = "reply"
    /\ records' = Flushed(records, pending) /\ pending' = NoRecord
    /\ reply' = IF err = "none" THEN [kind |-> "answers", status |-> 200, reported |-> TRUE]
                ELSE FailureReply(err)
    /\ pc' = "done"
    /\ UNCHANGED <<world, config, loop, err, report>>

-----------------------------------------------------------------------------
CallSteps ==
    \/ Refused \/ Accepted
    \/ RoundCtxDone \/ RoundStarts \/ Request
    \/ FailedCtx \/ GivesUp \/ RetryDecided
    \/ WaitBegins \/ AwaitEnds \/ SleepCtx \/ SleepEnds
    \/ Matches \/ Malformed \/ Corrects
    \/ Reply

ProviderEnds ==
    \/ \E o \in Outcomes : Returns(o) \/ PanicsInModel(o)
    \/ PanicsInDo

Next == Tick \/ CtxEnds("expired") \/ CtxEnds("canceled") \/ ProviderEnds \/ CallSteps

Spec == Init /\ [][Next]_vars

\* The call's goroutine runs, the provider returns, clocks and timers run.
FairSpec ==
    /\ Spec
    /\ WF_vars(CallSteps) /\ WF_vars(ProviderEnds)
    /\ WF_vars(Tick) /\ WF_vars(CtxEnds("expired"))

-----------------------------------------------------------------------------
(* Properties.                                                             *)

Words == {"ok", "status", "timeout", "connection", "nonAnswer", "malformed", "error"}

\* The types of the call's state; the retries of a round never exceed the
\* policy's, nor the corrective rounds the Adapter's setting.
EvalTypeOK ==
    /\ now \in Nat /\ ctx \in {"live", "expired", "canceled"} /\ deadline \in Deadlines
    /\ defects \in Requests /\ policy \in Policies /\ corrections \in Corrections
    /\ pc \in {"serve", "round", "request", "provider", "failed", "wait", "await", "sleep",
               "decode", "reply", "done", "panicked"}
    /\ start \in Nat /\ until \in Nat
    /\ round \in 0 .. corrections /\ retries \in 0 .. policy.max /\ messages \in Nat
    /\ got \in Outcomes \cup {"none"} /\ err \in Failures \cup {"none", "ctx", "malformed"}
    /\ attempts \in Seq([messages : Nat, got : Outcomes,
                         class : Failures \cup {""}])
    /\ reasons \in Seq({"provider", "malformed"})
    /\ nRetries \in Nat /\ nMalformed \in Nat /\ total \in Nat \cup {Unknown}
    /\ records \in Seq([attempt : Nat, outcome : Words, retry : BOOLEAN])
    /\ pending \in [attempt : Nat, outcome : Words \cup {"none"}, retry : BOOLEAN]

\* How many of the first n reasons, and of the attempts, satisfy a test.
Corrected(n) == Cardinality({j \in 1 .. n : reasons[j] = "malformed"})
Answered     == {k \in DOMAIN attempts : attempts[k].got \in Results}

\* The log and the Report of a call that returned tell the same story as its
\* provider requests (record, finish, attemptLog): one record per attempt in
\* order, a reason for each attempt that was followed by another and no
\* other unless the context cut the wait short, the category the attempt's
\* outcome calls for, the two counters, the conversation each attempt was
\* sent, and a token total that is known only when every result told its own.
ReportAccounts ==
    pc = "done" =>
      /\ Len(records) = Len(attempts)
      /\ \A k \in DOMAIN attempts :
           /\ records[k].attempt = k
           /\ records[k].retry <=> k \in DOMAIN reasons
           /\ (records[k].outcome = "malformed") <=> (attempts[k].got \in Results \ Matching)
           /\ attempts[k].messages = 2 + 2 * Corrected(k - 1)
      /\ \A k \in DOMAIN reasons :
           reasons[k] = IF records[k].outcome = "malformed" THEN "malformed" ELSE "provider"
      /\ \/ Len(reasons) = Len(attempts) - 1
         \/ Len(reasons) = Len(attempts) /\ (attempts # <<>> => err = "ctx")
      /\ nMalformed = Corrected(Len(reasons))
      /\ \/ nRetries + nMalformed + 1 = Len(attempts)
         \/ nRetries + nMalformed = Len(attempts) /\ (attempts # <<>> => err = "ctx")
      /\ total = IF \A k \in Answered : Counted(attempts[k].got)
                 THEN Cardinality(Answered) ELSE Unknown

Last == attempts[Len(attempts)].got

\* What the caller receives names what ended the call (serve, failureReply):
\* answers only from a last output that matches the schema; a refusal before
\* any provider request; otherwise a cancelled call its own error without a
\* Report, a passed deadline a timeout, whatever the provider last returned;
\* and only on a live context the last attempt's own failure, an output
\* that does not match only after every correction allowed.
ReplyNamesCause ==
    pc = "done" =>
      IF defects # {} THEN attempts = <<>> /\ reply.kind \in defects /\ ~reply.reported
      ELSE IF err = "none" THEN reply.kind = "answers" /\ Last \in Matching
      ELSE /\ ctx = "canceled" => reply.kind = "canceled" /\ ~reply.reported
           /\ ctx = "expired" => reply.kind = "timeout" /\ reply.reported
           /\ ctx = "live" =>
                /\ reply.reported
                /\ IF reply.kind = "malformed"
                   THEN Last \in Results \ Matching /\ nMalformed = corrections
                   ELSE reply.kind = Last /\ Last \in Failures

\* Retries and corrective rounds multiply: a call makes at most as many
\* provider requests as a round may make in each round there may be
\* (runWithRetries is entered afresh for every round).
BoundedRequests == Len(attempts) <= (corrections + 1) * (policy.max + 1)

\* The budget is a round's, not the call's: with one, each round takes at most
\* one provider request more than it.
RoundsWithinBudget ==
    policy.budget # NoBudget => now <= (corrections + 1) * (policy.budget + MaxLatency)

\* Every call returns, or its provider's panic leaves RoundTrip.
EvalEnds == <>(pc \in {"done", "panicked"})
=============================================================================
