---------------------------- MODULE AdapterReport ----------------------------
(***************************************************************************)
(* The Adapter's reply and the Report in it: what a provider's exchanges   *)
(* leave in the Report (adapter/evaluate.go, llm/trace.go), the body that  *)
(* is written (seam.go, Report.MarshalJSON of report.go) and what a caller *)
(* reads back from a response or an error (ReportOf, ReportFromError).     *)
(* Composes AnswerSchema, whose evaluation decides what the reply says,    *)
(* and DecodeReference, the meaning of a body to the SDK that receives it. *)
(*                                                                         *)
(* A body of a provider is bytes: text names them, one says that they are  *)
(* one JSON text, tree is its value.  A float is spelled as a fraction;    *)
(* equal spellings are equal values (the repr of a float64 reads back to   *)
(* it).  The call's context lives until the reply (Evaluate has the rest). *)
(***************************************************************************)
EXTENDS AnswerReference, TLC

CONSTANTS
    Exchanges,      \* by the call's family: [requests to the provider, in order; whether the
                    \* output is structured; the header X-TypeSafe-Retry-Count]
    MaxEmbedDepth,  \* maxEmbedDepth: the deepest body written as JSON (1000)
    MaxNesting,     \* maxNesting of the SDK's decoder (4096)
    MaxInt          \* the largest integer a Report holds in the instance

\* Root, answers, answer and legend around a criterion, and root, debug,
\* llm_attempts and attempt around a body, stay within what the SDK reads.
ASSUME ReportLimits ==
    /\ {MaxEmbedDepth, MaxNesting, MaxInt} \subseteq Nat
    /\ MaxValueDepth + 4 < MaxNesting /\ MaxEmbedDepth + 4 < MaxNesting

VARIABLES
    report,   \* the Report of the evaluation, or NoReport before one
    sent,     \* the reply: a status with its body, or a Go error (status 0)
    got       \* what the caller read: [ok, report]

reply == <<report, sent, got>>

SDK == INSTANCE DecodeReference WITH Bodies <- {}, LinearSet <- 1, MaxSkipped <- 1,
                                     body <- sent, v <- sent, raws <- sent, out <- sent

-----------------------------------------------------------------------------
(* Bytes and texts.                                                        *)

Nil == [text |-> "nil", one |-> FALSE, tree |-> Null]
Text(s) == [text |-> s, one |-> FALSE, tree |-> Null]

\* The compact JSON text of x.
Compact(x) == [text |-> "compact", one |-> TRUE, tree |-> x]

\* A recorded body is present even when it is empty.
NonNil(b) == IF b = Nil THEN Text("") ELSE b

\* Each byte that is not UTF-8 is written as U+FFFD.
Utf8(s) == IF s = "utf8" THEN "fffd" ELSE s
String(s) == Str(Utf8(s))

\* embeddable: one JSON value with no name twice in an object, no integer that
\* jsonx.Read refuses, and not too deep.
RECURSIVE Embeds(_, _)
Embeds(x, depth) ==
    CASE IsObj(x) -> /\ depth < MaxEmbedDepth /\ IsInjective([i \in DOMAIN x.m |-> x.m[i].key])
                     /\ \A i \in DOMAIN x.m : Embeds(x.m[i].val, depth + 1)
      [] IsArr(x) -> depth < MaxEmbedDepth /\ \A i \in DOMAIN x.e : Embeds(x.e[i], depth + 1)
      [] OTHER    -> x # Bad /\ (x.k = "num" => ~(Numbers[x.v].int /\ Numbers[x.v].long))

Embeddable(b) == b.one /\ Embeds(b.tree, 0)

Float(num, den) == Num(ToString(num) \o "/" \o ToString(den))
IntValue(n) == Num(ToString(n))

NoCount == [known |-> FALSE, n |-> 0]
CountValue(c) == IF c.known THEN IntValue(c.n) ELSE Null

-----------------------------------------------------------------------------
(* One provider request: what the provider recorded in its Trace, then     *)
(* what it returned.                                                       *)

NoTrace == [api |-> "", requested |-> FALSE, request |-> Nil,
            responded |-> FALSE, response |-> Nil, finish |-> Null]

RecordRequest(t, r)  == [t EXCEPT !.api = r.api, !.request = r.body, !.requested = TRUE]
RecordResponse(t, r) == [t EXCEPT !.response = r.body, !.finish = r.finish, !.responded = TRUE]

\* A second record replaces the first.
TraceOf(e) ==
    FoldLeft(LAMBDA t, r : IF r.of = "request" THEN RecordRequest(t, r) ELSE RecordResponse(t, r),
             NoTrace, e.records)

StatusClass(status) ==
    CASE status = 400 -> "TypeSafeBadRequestError"
      [] status = 401 -> "TypeSafeAuthenticationError"
      [] status = 403 -> "TypeSafePermissionDeniedError"
      [] status = 404 -> "TypeSafeNotFoundError"
      [] status = 422 -> "TypeSafeUnprocessableEntityError"
      [] status = 429 -> "TypeSafeRateLimitError"
      [] status >= 500 -> "TypeSafeInternalServerError"
      [] OTHER -> "TypeSafeAPIError"

ErrorType(e) ==
    CASE e.kind = "timeout"    -> "TypeSafeAPITimeoutError"
      [] e.kind = "connection" -> "TypeSafeAPIConnectionError"
      [] e.kind = "status"     -> StatusClass(e.status)
      [] OTHER                 -> "TypeSafeError"

\* What a provider that recorded no response returned.
ResultBody(e) ==
    Compact(Obj(<<Mem("text", String(e.text)), Mem("input_tokens", CountValue(e.input)),
                  Mem("output_tokens", CountValue(e.output))>>))

Messages == << [role |-> "system", content |-> "prompt"], [role |-> "user", content |-> "state"] >>

\* The answer schema's text; what it says is AnswerSchema's.
SchemaText == Compact(Obj(<<Mem("type", Str("object"))>>))

Encoding(b) == IF b # Nil /\ ~Embeddable(b) THEN "text" ELSE ""

\* run.request: the attempt of one provider request.
AttemptOf(e, structured) ==
    LET t        == TraceOf(e)
        request  == IF t.requested THEN NonNil(t.request) ELSE Nil
        response == IF t.responded THEN NonNil(t.response)
                    ELSE IF e.kind = "ok" THEN ResultBody(e) ELSE Nil
        failed   == e.kind # "ok"
    IN  [messages |-> Messages, schema |-> SchemaText, structured |-> structured,
         response |-> response, request |-> request,
         info |-> [modelName |-> "model", provider |-> "provider", api |-> t.api,
                   responded |-> t.responded, finishReason |-> t.finish,
                   error |-> IF failed THEN e.text ELSE "",
                   errorType |-> IF failed THEN ErrorType(e) ELSE "",
                   responseEncoding |-> Encoding(response),
                   requestEncoding  |-> Encoding(request)]]

AddCount(total, c) == IF total.known /\ c.known THEN [known |-> TRUE, n |-> total.n + c.n] ELSE NoCount

\* The Report's usage after these requests, of which the last may have failed.
UsageOf(es) ==
    LET results == SelectSeq(es, LAMBDA e : e.kind = "ok")
        last(c) == IF results = <<>> THEN NoCount ELSE c[Len(results)]
        total(c) == FoldLeft(AddCount, [known |-> TRUE, n |-> 0], c)
        inputs  == [i \in DOMAIN results |-> results[i].input]
        outputs == [i \in DOMAIN results |-> results[i].output]
    IN  [inputTokens |-> last(inputs), outputTokens |-> last(outputs),
         inputTokensTotal |-> total(inputs), outputTokensTotal |-> total(outputs),
         retries |-> Len(es) - 1, malformedRetries |-> 0, latency |-> "1/1000"]

\* One to nine digits that start with no zero; anything else records nothing.
ParseRetryCount(header) ==
    IF header \in {ToString(n) : n \in 1..MaxInt} THEN CHOOSE n \in 1..MaxInt : ToString(n) = header ELSE 0

InOrder(S) == SetToSortSeq(S, LAMBDA a, b : a < b)

\* The Report when the evaluation ends, with what convert found of each distribution.
ReportOfRun(x) ==
    LET es    == x.requests
        debug == IF result.debug = <<>> THEN DebugData(<<>>, {}) ELSE result.debug[1]
        qs    == spec.questions
        off   == InOrder(debug.invalid)
        scaled == InOrder(debug.rescaled)
    IN  [usage |-> UsageOf(es),
         debug |-> [maxError |-> Float(debug.maxError, Unit).v,
                    invalidProbs |-> Len(off),
                    probabilityErrors |-> [n \in DOMAIN off |->
                        [question |-> qs[off[n]].id, value |-> Float(debug.error[off[n]], Unit).v]],
                    originalProbabilities |-> [n \in DOMAIN scaled |->
                        [question |-> qs[scaled[n]].id,
                         probabilities |-> [j \in DOMAIN qs[scaled[n]].labels |->
                            [label |-> qs[scaled[n]].labels[j],
                             value |-> Float(debug.original[scaled[n]][j], Unit).v]]]],
                    attempts |-> [i \in DOMAIN es |-> AttemptOf(es[i], x.structured)],
                    retryReasons |-> [i \in 1..(Len(es) - 1) |->
                        [category |-> "provider_error", message |-> es[i].text]],
                    sdkRetryCount |-> ParseRetryCount(x.header)]]

-----------------------------------------------------------------------------
(* Writing a Report: MarshalJSON.                                          *)

UsageValue(u) ==
    Obj(<<Mem("input_tokens", CountValue(u.inputTokens)),
          Mem("output_tokens", CountValue(u.outputTokens)),
          Mem("input_tokens_total", CountValue(u.inputTokensTotal)),
          Mem("output_tokens_total", CountValue(u.outputTokensTotal)),
          Mem("n_retries", IntValue(u.retries)),
          Mem("n_retries_malformed_structure", IntValue(u.malformedRetries)),
          Mem("latency", Num(u.latency))>>)

\* A body is null, JSON, or a string of its text.
IsText(b, encoding) == b # Nil /\ ~(encoding = "" /\ Embeddable(b))
BodyValue(b, encoding) ==
    IF b = Nil THEN Null ELSE IF IsText(b, encoding) THEN String(b.text) ELSE b.tree

Given(c, m) == IF c THEN <<m>> ELSE <<>>

InfoValue(a) ==
    LET i == a.info IN
    Obj(<<Mem("model_name", String(i.modelName)), Mem("provider", String(i.provider))>>
        \o Given(i.api # "", Mem("api", String(i.api)))
        \o Given(i.responded, Mem("finish_reason",
                IF IsStr(i.finishReason) THEN String(i.finishReason.v) ELSE Null))
        \o (IF i.error # "" \/ i.errorType # ""
            THEN <<Mem("error", String(i.error)), Mem("error_type", String(i.errorType))>> ELSE <<>>)
        \o Given(IsText(a.response, i.responseEncoding), Mem("llm_response_encoding", Str("text")))
        \o Given(IsText(a.request, i.requestEncoding), Mem("request_encoding", Str("text"))))

AttemptValue(a) ==
    Obj(<<Mem("messages", Arr([i \in DOMAIN a.messages |->
                Obj(<<Mem("role", String(a.messages[i].role)), Mem("content", String(a.messages[i].content))>>)])),
          Mem("model_request_parameters",
              Obj(<<Mem("schema", BodyValue(a.schema, "")), Mem("structured", IF a.structured THEN Bool ELSE False)>>)),
          Mem("llm_response", BodyValue(a.response, a.info.responseEncoding)),
          Mem("debug_info", InfoValue(a))>>
        \o Given(a.request # Nil, Mem("request", BodyValue(a.request, a.info.requestEncoding))))

DebugValue(d) ==
    LET dist(q) == Obj([j \in DOMAIN q.probabilities |->
                        Mem(q.probabilities[j].label, Num(q.probabilities[j].value))])
    IN  Obj(<<Mem("max_error", Num(d.maxError)), Mem("invalid_probs", IntValue(d.invalidProbs)),
              Mem("probability_errors", Obj([n \in DOMAIN d.probabilityErrors |->
                Mem(d.probabilityErrors[n].question, Num(d.probabilityErrors[n].value))]))>>
            \o Given(d.originalProbabilities # <<>>,
                     Mem("original_probabilities", Obj([n \in DOMAIN d.originalProbabilities |->
                        Mem(d.originalProbabilities[n].question, dist(d.originalProbabilities[n]))])))
            \o <<Mem("llm_attempts", Arr([i \in DOMAIN d.attempts |-> AttemptValue(d.attempts[i])])),
                 Mem("retry_reasons", Arr([i \in DOMAIN d.retryReasons |->
                    Arr(<<String(d.retryReasons[i].category), String(d.retryReasons[i].message)>>)]))>>
            \o Given(d.sdkRetryCount # 0, Mem("sdk_retry_count", IntValue(d.sdkRetryCount))))

\* A Report that cannot be written: a schema that is not one JSON value, or an
\* encoding that is none.
Refuses(r) ==
    \E i \in DOMAIN r.debug.attempts :
        LET a == r.debug.attempts[i] IN
        \/ a.schema # Nil /\ ~Embeddable(a.schema)
        \/ {a.info.responseEncoding, a.info.requestEncoding} \ {"", "text"} # {}

\* The members usage and debug.
ReportMembers(r) == <<Mem("usage", UsageValue(r.usage)), Mem("debug", DebugValue(r.debug))>>

-----------------------------------------------------------------------------
(* The bodies of the replies.                                              *)

\* A criterion in a legend: json.loads and json.dumps have read and written it.
RECURSIVE NodeValue(_)
NodeValue(x) ==
    CASE IsObj(x)    -> Obj([i \in DOMAIN x.m |-> Mem(x.m[i].key, NodeValue(x.m[i].val))])
      [] IsArr(x)    -> Arr([i \in DOMAIN x.e |-> NodeValue(x.e[i])])
      [] x.k = "num" -> IF IsFloat(x) THEN Num(NumText(x.v)) ELSE Null
      [] OTHER       -> x

Labelled(q, vs) == Obj([j \in DOMAIN q.labels |-> Mem(q.labels[j], vs[j])])

\* Variant: the legend names its levels from one.
AnswerValueFromOne(q, a) ==
    LET fraction(f)   == Float(f.num, f.den)
        probabilities == Labelled(q, [j \in DOMAIN q.labels |-> Float(a.dist.ps[j], a.dist.den)])
        legend        == Obj([j \in DOMAIN q.labels |-> Mem(ToString(j), NodeValue(q.texts[j]))])
    IN  Obj(<<Mem("type", Str(q.kind))>> \o
            CASE q.kind = "noul"  -> <<Mem("noul", Float(a.noul, Unit))>>
              [] q.kind = "score" -> <<Mem("score", fraction(a.score)), Mem("confidence", fraction(a.confidence)),
                                       Mem("legend", legend), Mem("probabilities", probabilities)>>
              [] OTHER            -> <<Mem("choice", Str(a.choice)), Mem("confidence", fraction(a.confidence)),
                                       Mem("probabilities", probabilities)>>)

AnswerValue(q, a) ==
    LET fraction(f)   == Float(f.num, f.den)
        probabilities == Labelled(q, [j \in DOMAIN q.labels |-> Float(a.dist.ps[j], a.dist.den)])
        legend        == Labelled(q, [j \in DOMAIN q.labels |-> NodeValue(q.texts[j])])
    IN  Obj(<<Mem("type", Str(q.kind))>> \o
            CASE q.kind = "noul"  -> <<Mem("noul", Float(a.noul, Unit))>>
              [] q.kind = "score" -> <<Mem("score", fraction(a.score)), Mem("confidence", fraction(a.confidence)),
                                       Mem("legend", legend), Mem("probabilities", probabilities)>>
              [] OTHER            -> <<Mem("choice", Str(a.choice)), Mem("confidence", fraction(a.confidence)),
                                       Mem("probabilities", probabilities)>>)

SuccessBody(r) ==
    LET ud == ReportMembers(r) IN
    Obj(<<Mem("model", Str("model")), ud[1],
          Mem("answers", Obj([i \in DOMAIN spec.questions |->
                Mem(spec.questions[i].id, AnswerValue(spec.questions[i], result.answers[i]))])),
          ud[2]>>)

\* Output that does not match the schema: no answers.
MalformedBody(r) ==
    LET ud == ReportMembers(r) IN Obj(<<Mem("model", Str("model")), ud[1], Mem("answers", Null), ud[2]>>)

ErrorBody(message, errorType, extra, members) ==
    Obj(<<Mem("detail", Obj(<<Mem("message", String(message)), Mem("error_type", Str(errorType))>> \o extra))>>
        \o members)

\* The refusal of a question set, with a defect for each fault of a question.
QuestionsBody ==
    LET issues == result.issues[2]
        defect(q) == Obj(<<Mem("loc", Arr(<<Str("body"), Str("questions")>> \o [i \in DOMAIN q.loc |-> Str(q.loc[i])])),
                           Mem("msg", Str(q.msg))>>)
    IN  ErrorBody(result.issues[1], "invalid_questions",
                  Given(issues # <<>>, Mem("errors", Arr([i \in DOMAIN issues |-> defect(issues[i])]))), <<>>)

\* jsonx.Marshal refuses a name twice in an object, jsonx.Read what it cannot read.
RECURSIVE Marshals(_)
Marshals(x) ==
    CASE IsObj(x) -> /\ IsInjective([i \in DOMAIN x.m |-> x.m[i].key])
                     /\ \A i \in DOMAIN x.m : Marshals(x.m[i].val)
      [] IsArr(x) -> \A i \in DOMAIN x.e : Marshals(x.e[i])
      [] OTHER    -> x # Bad

EncodingFailed == [status |-> 424, body |-> ErrorBody("encoding failed", "adapter_internal", <<>>, <<>>)]
BodyReply(status, refused, x) ==
    IF ~refused /\ Marshals(x) THEN [status |-> status, body |-> x] ELSE EncodingFailed

GoError == [status |-> 0, body |-> Null]

\* failureReply for a call whose context lives: a timeout or a connection
\* failure is a Go error that carries the Report, any other failure a body.
FailureReply(e, r) ==
    CASE e.kind \in {"timeout", "connection"} -> GoError
      [] e.kind = "status" ->
            BodyReply(IF e.status \in 400..599 THEN e.status ELSE 424, Refuses(r),
                      ErrorBody(e.text, "provider_status", <<>>, ReportMembers(r)))
      [] OTHER -> BodyReply(424, Refuses(r),
                      ErrorBody(e.text, IF e.kind = "nonAnswer" THEN "non_answer" ELSE "provider_error",
                                <<>>, ReportMembers(r)))

-----------------------------------------------------------------------------
(* Reading a Report: UnmarshalJSON.  Each part has what it accepts and     *)
(* what it makes of it; members of other names are ignored.                *)

Required(x, n, k) == HasMember(x, n) /\ LastOf(x, n).k = k
Allowed(x, n, k)  == HasMember(x, n) => LastOf(x, n).k = k
IsInt(x) == x.k = "num" /\ x.v \in {ToString(n) : n \in 0..MaxInt}
Atoi(x)  == CHOOSE n \in 0..MaxInt : ToString(n) = x.v

CountReads(x, n) == HasMember(x, n) /\ (LastOf(x, n) = Null \/ IsInt(LastOf(x, n)))
ReadCount(x, n)  == IF LastOf(x, n) = Null THEN NoCount ELSE [known |-> TRUE, n |-> Atoi(LastOf(x, n))]

UsageReads(x) ==
    /\ \A n \in {"input_tokens", "output_tokens", "input_tokens_total", "output_tokens_total"} : CountReads(x, n)
    /\ \A n \in {"n_retries", "n_retries_malformed_structure"} : HasMember(x, n) /\ IsInt(LastOf(x, n))
    /\ Allowed(x, "latency", "num")

ReadUsage(x) ==
    [inputTokens |-> ReadCount(x, "input_tokens"), outputTokens |-> ReadCount(x, "output_tokens"),
     inputTokensTotal |-> ReadCount(x, "input_tokens_total"),
     outputTokensTotal |-> ReadCount(x, "output_tokens_total"),
     retries |-> Atoi(LastOf(x, "n_retries")),
     malformedRetries |-> Atoi(LastOf(x, "n_retries_malformed_structure")),
     latency |-> IF HasMember(x, "latency") THEN LastOf(x, "latency").v ELSE "0"]

\* The text of an optional string, "" when it is absent.
OptionalText(x, n) == IF HasMember(x, n) THEN LastOf(x, n).v ELSE ""

EncodingReads(x, n) == HasMember(x, n) => LastOf(x, n) = Str("text")
BodyReads(x, encoding) == encoding = "text" => IsStr(x)
RawBytes(x) == IF x = Null THEN Nil ELSE Compact(x)
ReadBody(x, encoding) == IF encoding = "text" THEN Text(x.v) ELSE RawBytes(x)

InfoReads(x) ==
    /\ Required(x, "model_name", "str") /\ Required(x, "provider", "str")
    /\ \A n \in {"api", "error", "error_type"} : Allowed(x, n, "str")
    /\ HasMember(x, "finish_reason") => LastOf(x, "finish_reason").k \in {"str", "null"}
    /\ EncodingReads(x, "llm_response_encoding") /\ EncodingReads(x, "request_encoding")

AttemptReads(x) ==
    /\ IsObj(x)
    /\ Required(x, "messages", "[")
    /\ \A i \in DOMAIN LastOf(x, "messages").e :
        LET m == LastOf(x, "messages").e[i] IN IsObj(m) /\ Required(m, "role", "str") /\ Required(m, "content", "str")
    /\ Required(x, "model_request_parameters", "{")
    /\ LET p == LastOf(x, "model_request_parameters") IN HasMember(p, "schema") /\ Required(p, "structured", "bool")
    /\ Required(x, "debug_info", "{") /\ InfoReads(LastOf(x, "debug_info"))
    /\ HasMember(x, "llm_response")
    /\ LET i == LastOf(x, "debug_info") IN
        /\ BodyReads(LastOf(x, "llm_response"), OptionalText(i, "llm_response_encoding"))
        /\ HasMember(x, "request") => BodyReads(LastOf(x, "request"), OptionalText(i, "request_encoding"))

\* Variant: a request that is null is no request.
ReadRequestPlain(x, encoding) == IF HasMember(x, "request") THEN ReadBody(LastOf(x, "request"), encoding) ELSE Nil

\* A request member that is null is a recorded body "null".
ReadRequest(x, encoding) ==
    IF ~HasMember(x, "request") THEN Nil
    ELSE IF encoding # "text" /\ LastOf(x, "request") = Null THEN Compact(Null)
    ELSE ReadBody(LastOf(x, "request"), encoding)

ReadAttempt(x) ==
    LET i == LastOf(x, "debug_info")
        p == LastOf(x, "model_request_parameters")
        messages == LastOf(x, "messages").e
        responseEncoding == OptionalText(i, "llm_response_encoding")
        requestEncoding  == OptionalText(i, "request_encoding")
    IN  [messages |-> [n \in DOMAIN messages |->
            [role |-> LastOf(messages[n], "role").v, content |-> LastOf(messages[n], "content").v]],
         schema |-> RawBytes(LastOf(p, "schema")), structured |-> LastOf(p, "structured") = Bool,
         response |-> ReadBody(LastOf(x, "llm_response"), responseEncoding),
         request |-> ReadRequest(x, requestEncoding),
         info |-> [modelName |-> LastOf(i, "model_name").v, provider |-> LastOf(i, "provider").v,
                   api |-> OptionalText(i, "api"), responded |-> HasMember(i, "finish_reason"),
                   finishReason |-> Member(i, "finish_reason"),
                   error |-> OptionalText(i, "error"), errorType |-> OptionalText(i, "error_type"),
                   responseEncoding |-> responseEncoding, requestEncoding |-> requestEncoding]]

NumbersOf(x) == \A i \in DOMAIN x.m : x.m[i].val.k = "num"

DebugReads(x) ==
    /\ Required(x, "max_error", "num") /\ HasMember(x, "invalid_probs") /\ IsInt(LastOf(x, "invalid_probs"))
    /\ Required(x, "probability_errors", "{") /\ NumbersOf(LastOf(x, "probability_errors"))
    /\ HasMember(x, "original_probabilities") =>
        LET dists == LastOf(x, "original_probabilities") IN
        IsObj(dists) /\ \A i \in DOMAIN dists.m : IsObj(dists.m[i].val) /\ NumbersOf(dists.m[i].val)
    /\ Required(x, "llm_attempts", "[")
    /\ \A i \in DOMAIN LastOf(x, "llm_attempts").e : AttemptReads(LastOf(x, "llm_attempts").e[i])
    /\ Required(x, "retry_reasons", "[")
    /\ \A i \in DOMAIN LastOf(x, "retry_reasons").e :
        LET pair == LastOf(x, "retry_reasons").e[i] IN
        IsArr(pair) /\ Len(pair.e) = 2 /\ IsStr(pair.e[1]) /\ IsStr(pair.e[2])
    /\ HasMember(x, "sdk_retry_count") => IsInt(LastOf(x, "sdk_retry_count"))

ReadDebug(x) ==
    LET errs     == LastOf(x, "probability_errors").m
        dists    == IF HasMember(x, "original_probabilities") THEN LastOf(x, "original_probabilities").m ELSE <<>>
        attempts == LastOf(x, "llm_attempts").e
        reasons  == LastOf(x, "retry_reasons").e
    IN  [maxError |-> LastOf(x, "max_error").v, invalidProbs |-> Atoi(LastOf(x, "invalid_probs")),
         probabilityErrors |-> [n \in DOMAIN errs |-> [question |-> errs[n].key, value |-> errs[n].val.v]],
         originalProbabilities |-> [n \in DOMAIN dists |->
            [question |-> dists[n].key, probabilities |-> [j \in DOMAIN dists[n].val.m |->
                [label |-> dists[n].val.m[j].key, value |-> dists[n].val.m[j].val.v]]]],
         attempts |-> [i \in DOMAIN attempts |-> ReadAttempt(attempts[i])],
         retryReasons |-> [i \in DOMAIN reasons |->
            [category |-> reasons[i].e[1].v, message |-> reasons[i].e[2].v]],
         sdkRetryCount |-> IF HasMember(x, "sdk_retry_count") THEN Atoi(LastOf(x, "sdk_retry_count")) ELSE 0]

NoReport == [usage |-> <<>>, debug |-> <<>>]
Unread   == [ok |-> FALSE, report |-> NoReport]

Unmarshal(text) ==
    LET x     == ReadNode(text)
        reads == /\ IsObj(x) /\ Required(x, "usage", "{") /\ Required(x, "debug", "{")
                 /\ UsageReads(LastOf(x, "usage")) /\ DebugReads(LastOf(x, "debug"))
    IN  IF reads THEN [ok |-> TRUE, report |-> [usage |-> ReadUsage(LastOf(x, "usage")),
                                                debug |-> ReadDebug(LastOf(x, "debug"))]]
        ELSE Unread

-----------------------------------------------------------------------------
ReportInit == Init /\ report = NoReport /\ sent = GoError /\ got = Unread

\* serve, after the evaluation: the answers or their absence, with the Report
\* of the requests that were made.
Replies ==
    /\ phase \in {"answered", "malformed"}
    /\ \E x \in Exchanges[call.family] :
        /\ Last(x.requests).kind = "ok"
        /\ report' = ReportOfRun(x)
        /\ sent' = BodyReply(200, Refuses(report'),
                             IF phase = "answered" THEN SuccessBody(report') ELSE MalformedBody(report'))
    /\ phase' = "replied"
    /\ UNCHANGED <<call, spec, output, toks, read, result, got>>

\* The last request failed and there is no retry left: no output is read.
Fails ==
    /\ phase = "asked"
    /\ \E x \in Exchanges[call.family] :
        /\ Last(x.requests).kind # "ok"
        /\ report' = ReportOfRun(x)
        /\ sent' = FailureReply(Last(x.requests), report')
    /\ phase' = "replied"
    /\ UNCHANGED <<call, spec, output, toks, read, result, got>>

\* questionsReply: no evaluation started, so there is no Report.
RefusesQuestions ==
    /\ phase = "refused"
    /\ sent' = BodyReply(422, FALSE, QuestionsBody)
    /\ phase' = "replied"
    /\ UNCHANGED <<call, spec, output, toks, read, result, report, got>>

\* ReportOf and ReportFromError: the Report an error carries, or the one in
\* the body of a response or of the SDK's error.
ReadsReport ==
    /\ phase = "replied"
    /\ got' = IF sent.status = 0 THEN [ok |-> report # NoReport, report |-> report] ELSE Unmarshal(sent.body)
    /\ phase' = "read"
    /\ UNCHANGED <<call, spec, output, toks, read, result, report, sent>>

NextCall ==
    /\ phase = "read"
    /\ Forget /\ report' = NoReport /\ sent' = GoError /\ got' = Unread

ReportNext ==
    \/ Evaluates /\ UNCHANGED reply
    \/ Replies
    \/ Fails
    \/ RefusesQuestions
    \/ ReadsReport
    \/ NextCall

ReportSpec == ReportInit /\ [][ReportNext]_<<vars, reply>>

-----------------------------------------------------------------------------
(* Properties.                                                             *)

\* What is left of a body: its value when it was written as JSON, else its
\* text with U+FFFD for what is not UTF-8.
Left(b) == IF b = Nil THEN Nil ELSE IF Embeddable(b) THEN Compact(b.tree) ELSE Text(Utf8(b.text))

LeftOfAttempt(a) ==
    [a EXCEPT !.request = Left(@), !.response = IF Embeddable(@) /\ @.tree = Null THEN Nil ELSE Left(@),
              !.info.error = Utf8(@), !.info.api = Utf8(@)]

Delivered(r) ==
    [r EXCEPT !.debug.attempts = [i \in DOMAIN @ |-> LeftOfAttempt(@[i])],
              !.debug.retryReasons = [i \in DOMAIN @ |-> [@[i] EXCEPT !.message = Utf8(@)]]]

\* A caller reads from the reply, success, malformed output or provider failure
\* alike, the Report of the call that made it: every count, distribution,
\* attempt and reason, each provider body as JSON exactly when it can be
\* embedded and as its text otherwise, a recorded body told from none (a
\* response that is the text null is the one exception), and nothing when no
\* evaluation ran.  What was read is written and read to itself.
ReportReadsBack ==
    phase = "read" =>
        /\ got.ok <=> report # NoReport
        /\ got.ok /\ sent.status = 0 => got.report = report
        /\ got.ok /\ sent.status # 0 =>
            /\ got.report = Delivered(report)
            /\ Unmarshal(Obj(ReportMembers(got.report))) = got

\* What the SDK must make of an answer.
DecodedAnswer(q, a) ==
    LET levels(vs) == [j \in DOMAIN q.labels |-> [id |-> q.labels[j], val |-> vs[j]]]
        spelled    == [j \in DOMAIN q.labels |-> Float(a.dist.ps[j], a.dist.den).v]
    IN  [name |-> q.id, kind |-> q.kind, ans |->
          CASE q.kind = "noul"   -> [SDK!NoValue EXCEPT !.noul = Float(a.noul, Unit).v]
            [] q.kind = "choice" -> [SDK!NoValue EXCEPT !.choice = a.choice,
                  !.confidence = Float(a.confidence.num, a.confidence.den).v,
                  !.probabilities = levels(spelled)]
            [] q.kind = "score"  -> [SDK!NoValue EXCEPT !.score = Float(a.score.num, a.score.den).v,
                  !.confidence = Float(a.confidence.num, a.confidence.den).v,
                  !.legend = levels([j \in DOMAIN q.labels |-> NodeValue(q.texts[j])]),
                  !.probabilities = levels(spelled)]]

CountText(c) == IF c.known THEN ToString(c.n) ELSE "absent"

\* The SDK's decoder takes every reply with status 200: within its nesting,
\* whatever a provider recorded, with the answers the evaluation made, one for
\* each question and in their order, each level with its criterion; and reads
\* malformed output as a failure of the answers alone.
ReplyDecodes ==
    phase = "replied" /\ sent.status = 200 =>
        LET b == Body("systemOne", sent.body, "clean")
            m == SDK!Meaning(b)
        IN  /\ SDK!WellFormed(b, Tokens(sent.body))
            /\ IF result.issues = <<>>
               THEN /\ m.ok /\ m.input = CountText(report.usage.inputTokens)
                    /\ m.output = CountText(report.usage.outputTokens)
                    /\ m.answers = [i \in DOMAIN spec.questions |->
                                        DecodedAnswer(spec.questions[i], result.answers[i])]
               ELSE ~m.ok /\ m.path.Top = "answers" /\ m.err = "notObject"
=============================================================================
