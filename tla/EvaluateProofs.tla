--------------------------- MODULE EvaluateProofs ---------------------------
(***************************************************************************)
(* The safety properties of Evaluate, for every set of requests, policies, *)
(* deadlines and corrections and every latency.                            *)
(*                                                                         *)
(* The invariant says, at each point of the two nested loops, how far the  *)
(* log, the reasons, the counters and the token total lag behind the       *)
(* attempts: the log by the pending record, the reasons by the attempt     *)
(* that was not followed by another, the retries by those of the round,    *)
(* the total by an output that was not looked at yet.                      *)
(***************************************************************************)
EXTENDS Evaluate, FiniteSetTheorems, SequenceTheorems, WellFoundedInduction, TLAPS

Bad == Results \ Matching

\* A record's attempt, whether it was followed by another, and its category;
\* an output that was not looked at yet counts as ok.
RecordOK(rec, k) ==
    /\ rec.attempt = k
    /\ rec.retry <=> k <= Len(reasons)
    /\ rec.outcome = "malformed" <=>
         attempts[k].got \in Bad /\ ~(pc = "decode" /\ k = Len(attempts))
    /\ rec.outcome # "none"

\* The log lags by the record of the last attempt until the next one starts.
Logged ==
    /\ \A k \in 1 .. Len(records) : RecordOK(records[k], k)
    /\ pending.attempt # 0 => RecordOK(pending, Len(attempts))
    /\ IF pc \in {"provider", "done"}
       THEN pending.attempt = 0 /\ Len(records) = Len(attempts)
       ELSE /\ pending.attempt = Len(attempts)
            /\ Len(records) = IF attempts = <<>> THEN 0 ELSE Len(attempts) - 1

\* An attempt has a reason once it is decided that another one follows.
Reasoned ==
    /\ CASE pc \in {"failed", "decode"} -> Len(attempts) = Len(reasons) + 1
         [] pc \in {"reply", "done"} ->
              \/ Len(attempts) = Len(reasons) + 1
              \/ Len(attempts) = Len(reasons) /\ (attempts # <<>> => err = "ctx")
         [] OTHER -> Len(attempts) = Len(reasons)
    /\ \A k \in 1 .. Len(reasons) :
         reasons[k] = IF attempts[k].got \in Bad THEN "malformed" ELSE "provider"

\* The conversation grows by a correction, and by nothing else.
Conversed ==
    /\ nMalformed = Corrected(Len(reasons)) /\ round = nMalformed
    /\ messages = 2 + 2 * nMalformed
    /\ \A k \in 1 .. Len(attempts) : attempts[k].messages = 2 + 2 * Corrected(k - 1)

\* Every attempt is the first of its round or a retry.
Tallied ==
    /\ pc \in {"serve", "round"} => retries = 0
    /\ CASE pc \in {"serve", "round", "request", "provider"} ->
              nRetries + nMalformed + retries = Len(attempts)
         [] pc \in {"failed", "decode", "wait", "await", "sleep"} ->
              nRetries + nMalformed + retries + 1 = Len(attempts)
         [] OTHER ->
              \/ nRetries + nMalformed + 1 = Len(attempts)
              \/ nRetries + nMalformed = Len(attempts) /\ (attempts # <<>> => err = "ctx")
    /\ pc \in {"wait", "await", "sleep"} => retries < policy.max

AnsweredTo(n) == {k \in 1 .. n : attempts[k].got \in Results}

TotalOf(n) ==
    IF \A k \in AnsweredTo(n) : Counted(attempts[k].got)
    THEN Cardinality(AnsweredTo(n)) ELSE Unknown

Totalled == total = TotalOf(IF pc = "decode" THEN Len(attempts) - 1 ELSE Len(attempts))

\* What was returned last, and what it made of the call.
Caused ==
    /\ pc \in {"failed", "decode", "wait", "await", "sleep"} => attempts # <<>> /\ got = Last
    /\ pc = "decode" => got \in Results
    /\ pc \in {"failed", "wait", "await", "sleep"} => got \in Failures
    /\ pc \notin {"reply", "done"} => err = "none"
    /\ pc \in {"reply", "done"} /\ defects = {} =>
         /\ err \in {"none", "malformed"} \cup Failures => attempts # <<>>
         /\ err = "none" => Last \in Matching
         /\ err = "malformed" => Last \in Bad /\ nMalformed = corrections
         /\ err = "ctx" => Ended
         /\ err \in Failures => Last = err

\* A request with a defect is answered before anything else happens.
Served ==
    /\ pc \notin {"serve", "done"} => defects = {}
    /\ pc = "serve" \/ defects # {} => attempts = <<>>
    /\ pc = "done" /\ defects # {} => reply.kind \in defects /\ ~reply.reported
    /\ pc = "done" /\ defects = {} =>
         reply = IF err = "none" THEN [kind |-> "answers", status |-> 200, reported |-> TRUE]
                 ELSE FailureReply(err)

Accounts == Logged /\ Reasoned /\ Conversed /\ Tallied /\ Totalled /\ Caused /\ Served

EInv == EvalTypeOK /\ (pc # "panicked" => Accounts)

-----------------------------------------------------------------------------
(* Counting. *)

\* The corrections among the first reasons are finitely many.
LEMMA CorrectedNat == \A n \in Nat : Corrected(n) \in Nat
<1> SUFFICES ASSUME NEW n \in Nat PROVE Corrected(n) \in Nat
  OBVIOUS
<1>1. IsFiniteSet(1 .. n)
  BY FS_Interval
<1>2. {j \in 1 .. n : reasons[j] = "malformed"} \in SUBSET (1 .. n)
  OBVIOUS
<1> QED
  BY <1>1, <1>2, FS_Subset, FS_CardinalityType DEF Corrected

\* With the reasons unchanged, so is their count.
LEMMA CorrectedStays == ASSUME reasons' = reasons PROVE \A n : Corrected(n)' = Corrected(n)
BY DEF Corrected

\* A new reason is counted when it is a correction.
LEMMA CorrectedAppends ==
  ASSUME reasons \in Seq({"provider", "malformed"}), NEW x \in {"provider", "malformed"},
         reasons' = Append(reasons, x), NEW R, R = Len(reasons)
  PROVE  /\ \A n \in 0 .. R : Corrected(n)' = Corrected(n)
         /\ Corrected(R + 1)' = Corrected(R) + (IF x = "malformed" THEN 1 ELSE 0)
<1> DEFINE C == {j \in 1 .. R : reasons[j] = "malformed"}
<1>1. /\ R \in Nat /\ \A j \in 1 .. R : reasons'[j] = reasons[j]
      /\ reasons'[R + 1] = x
  BY AppendProperties, LenProperties
<1>2. ASSUME NEW n \in 0 .. R PROVE Corrected(n)' = Corrected(n)
  <2>1. {j \in 1 .. n : reasons'[j] = "malformed"} = {j \in 1 .. n : reasons[j] = "malformed"}
    BY <1>1
  <2> QED
    BY <2>1 DEF Corrected
<1>3. IsFiniteSet(C) /\ Cardinality(C) \in Nat /\ Cardinality(C) = Corrected(R)
  <2>1. IsFiniteSet(1 .. R) /\ C \in SUBSET (1 .. R)
    BY <1>1, FS_Interval
  <2> QED
    BY <2>1, FS_Subset, FS_CardinalityType DEF Corrected
<1>4. {j \in 1 .. R + 1 : reasons'[j] = "malformed"} = IF x = "malformed" THEN C \cup {R + 1} ELSE C
  <2>1. 1 .. R + 1 = (1 .. R) \cup {R + 1}
    BY <1>1
  <2> QED
    BY <1>1, <2>1
<1>5. R + 1 \notin C
  BY <1>1
<1>6. Cardinality(C \cup {R + 1}) = Cardinality(C) + 1
  BY <1>3, <1>5, FS_AddElement
<1>7. Corrected(R + 1)' = Cardinality({j \in 1 .. R + 1 : reasons'[j] = "malformed"})
  BY DEF Corrected
<1>8. Corrected(R + 1)' = Corrected(R) + (IF x = "malformed" THEN 1 ELSE 0)
  <2> HIDE DEF C
  <2>1. CASE x = "malformed"
    BY <1>3, <1>4, <1>6, <1>7, <2>1
  <2>2. CASE x # "malformed"
    <3>1. {j \in 1 .. R + 1 : reasons'[j] = "malformed"} = C
      BY <1>4, <2>2
    <3>2. Corrected(R + 1)' = Cardinality(C)
      BY <1>7, <3>1
    <3> QED
      BY <1>3, <2>2, <3>2
  <2> QED
    BY <2>1, <2>2
<1> QED
  BY <1>2, <1>8

\* With the attempts unchanged, so is what they add up to.
LEMMA TotalStays == ASSUME attempts' = attempts PROVE \A n : TotalOf(n)' = TotalOf(n)
BY DEF TotalOf, AnsweredTo

\* The next attempt's result, if it has one, is added.
LEMMA TotalAdds ==
  \A n \in Nat :
    TotalOf(n + 1) = IF attempts[n + 1].got \in Results
                     THEN Added(TotalOf(n), attempts[n + 1].got) ELSE TotalOf(n)
<1> SUFFICES ASSUME NEW n \in Nat
             PROVE  TotalOf(n + 1) = IF attempts[n + 1].got \in Results
                                     THEN Added(TotalOf(n), attempts[n + 1].got) ELSE TotalOf(n)
  OBVIOUS
<1>1. IsFiniteSet(AnsweredTo(n)) /\ Cardinality(AnsweredTo(n)) \in Nat
  <2>1. IsFiniteSet(1 .. n) /\ AnsweredTo(n) \in SUBSET (1 .. n)
    BY FS_Interval DEF AnsweredTo
  <2> QED
    BY <2>1, FS_Subset, FS_CardinalityType
<1>2. AnsweredTo(n + 1) = IF attempts[n + 1].got \in Results
                          THEN AnsweredTo(n) \cup {n + 1} ELSE AnsweredTo(n)
  <2>1. 1 .. n + 1 = (1 .. n) \cup {n + 1}
    OBVIOUS
  <2> QED
    BY <2>1 DEF AnsweredTo
<1>3. n + 1 \notin AnsweredTo(n)
  BY DEF AnsweredTo
<1>4. Cardinality(AnsweredTo(n) \cup {n + 1}) = Cardinality(AnsweredTo(n)) + 1
  BY <1>1, <1>3, FS_AddElement
<1>5. CASE attempts[n + 1].got \notin Results
  BY <1>2, <1>5 DEF TotalOf
<1>6. CASE attempts[n + 1].got \in Results
  <2>1. AnsweredTo(n + 1) = AnsweredTo(n) \cup {n + 1}
    BY <1>2, <1>6
  <2>2. CASE \A k \in AnsweredTo(n) : Counted(attempts[k].got)
    BY <1>1, <1>4, <1>6, <2>1, <2>2 DEF TotalOf, Added, Unknown
  <2>3. CASE ~\A k \in AnsweredTo(n) : Counted(attempts[k].got)
    BY <1>6, <2>1, <2>3 DEF TotalOf, Added
  <2> QED
    BY <2>2, <2>3
<1> QED
  BY <1>5, <1>6

\* A new attempt changes nothing about those before it.
LEMMA TotalAppends ==
  ASSUME NEW S, attempts \in Seq(S), NEW a \in S, attempts' = Append(attempts, a),
         NEW N, N = Len(attempts)
  PROVE  TotalOf(N)' = TotalOf(N)
<1>1. \A k \in 1 .. N : attempts'[k] = attempts[k]
  BY AppendProperties
<1>2. {k \in 1 .. N : attempts'[k].got \in Results} = AnsweredTo(N)
  BY <1>1 DEF AnsweredTo
<1>3. \A k \in AnsweredTo(N) : attempts'[k] = attempts[k]
  BY <1>1 DEF AnsweredTo
<1> QED
  BY <1>2, <1>3 DEF TotalOf, AnsweredTo

\* What the types give the proofs: lengths, counters and the policy's fields.
Sizes ==
    /\ Len(attempts) \in Nat /\ Len(reasons) \in Nat /\ Len(records) \in Nat
    /\ attempts = <<>> <=> Len(attempts) = 0
    /\ policy.max \in Nat /\ policy.delay \in Nat /\ corrections \in Nat
    /\ round \in 0 .. corrections /\ retries \in 0 .. policy.max /\ now \in Nat
    /\ nRetries \in Nat /\ nMalformed \in Nat /\ messages \in Nat
    /\ total \in Nat \cup {Unknown}

\* The types give them.
LEMMA TypeFacts == ASSUME EvalTypeOK PROVE Sizes
<1>1. /\ Len(attempts) \in Nat /\ Len(reasons) \in Nat /\ Len(records) \in Nat
      /\ attempts = <<>> <=> Len(attempts) = 0
  BY LenProperties, EmptySeq DEF EvalTypeOK
<1>2. policy.max \in Nat /\ policy.delay \in Nat /\ corrections \in Nat
  BY EvalPolicies, EvalCorrections DEF EvalTypeOK, Policy
<1>3. /\ round \in 0 .. corrections /\ retries \in 0 .. policy.max /\ now \in Nat
      /\ nRetries \in Nat /\ nMalformed \in Nat /\ messages \in Nat
      /\ total \in Nat \cup {Unknown}
  BY DEF EvalTypeOK
<1> QED
  BY <1>1, <1>2, <1>3 DEF Sizes

-----------------------------------------------------------------------------
(* The invariant holds initially, and every step keeps it. *)

\* The invariant holds of a call that has just come in.
LEMMA EInvInit == Init => EInv
<1> SUFFICES ASSUME Init PROVE EInv
  OBVIOUS
<1>0. /\ policy.max \in Nat /\ corrections \in Nat
  BY EvalPolicies, EvalCorrections DEF Init, Policy
<1>1. EvalTypeOK
  <2>1. /\ attempts \in Seq([messages : Nat, got : Outcomes, class : Failures \cup {""}])
        /\ reasons \in Seq({"provider", "malformed"})
        /\ records \in Seq([attempt : Nat, outcome : Words, retry : BOOLEAN])
    BY EmptySeq DEF Init
  <2>2. round \in 0 .. corrections /\ retries \in 0 .. policy.max
    BY <1>0 DEF Init
  <2>3. pending \in [attempt : Nat, outcome : Words \cup {"none"}, retry : BOOLEAN]
    BY DEF Init, NoRecord
  <2> QED
    BY <2>1, <2>2, <2>3 DEF Init, EvalTypeOK
<1>2. Corrected(0) = 0 /\ TotalOf(0) = 0
  <2>1. {j \in 1 .. 0 : reasons[j] = "malformed"} = {} /\ AnsweredTo(0) = {}
    BY DEF AnsweredTo
  <2> QED
    BY <2>1, FS_EmptySet DEF Corrected, TotalOf
<1>3. Len(attempts) = 0 /\ Len(reasons) = 0 /\ Len(records) = 0 /\ attempts = <<>>
  BY EmptySeq DEF Init
<1>4. Logged /\ Reasoned /\ Conversed /\ Tallied /\ Totalled
  BY <1>2, <1>3 DEF Init, Logged, NoRecord, Reasoned, Conversed, Tallied, Totalled
<1>5. Caused /\ Served
  BY <1>3 DEF Init, Caused, Served
<1> QED
  BY <1>1, <1>4, <1>5 DEF EInv, Accounts

\* serve lets the request in.
LEMMA AcceptedKeeps == ASSUME EInv, Accepted PROVE EInv'
<1> USE DEF world, config, loop, report, log
<1>0. EvalTypeOK /\ Accounts /\ Sizes
  BY TypeFacts DEF EInv, Accepted
<1> USE DEF Accounts, Sizes
<1>1. /\ \A n : Corrected(n)' = Corrected(n)
      /\ \A n : TotalOf(n)' = TotalOf(n)
      /\ attempts' = attempts /\ reasons' = reasons
  BY CorrectedStays, TotalStays DEF Accepted
<1>2. EvalTypeOK'
  BY <1>0 DEF EvalTypeOK, Accepted
<1>3. Logged'
  BY <1>0, <1>1 DEF Logged, RecordOK, Accepted
<1>4. Reasoned'
  BY <1>0, <1>1 DEF Reasoned, Accepted
<1>5. Conversed'
  BY <1>0, <1>1 DEF Conversed, Accepted
<1>6. Tallied'
  BY <1>0, <1>1 DEF Tallied, Accepted, EvalTypeOK
<1>7. Totalled'
  BY <1>0, <1>1 DEF Totalled, Accepted
<1>8. Caused'
  BY <1>0, <1>1 DEF Caused, Last, Ended, Accepted
<1>9. Served'
  BY <1>0, <1>1 DEF Served, Accepted
<1> QED
  BY <1>2, <1>3, <1>4, <1>5, <1>6, <1>7, <1>8, <1>9 DEF EInv

\* A round's retries and budget start.
LEMMA RoundStartsKeeps == ASSUME EInv, RoundStarts PROVE EInv'
<1> USE DEF world, config, loop, report, log
<1>0. EvalTypeOK /\ Accounts /\ Sizes
  BY TypeFacts DEF EInv, RoundStarts
<1> USE DEF Accounts, Sizes
<1>1. /\ \A n : Corrected(n)' = Corrected(n)
      /\ \A n : TotalOf(n)' = TotalOf(n)
      /\ attempts' = attempts /\ reasons' = reasons
  BY CorrectedStays, TotalStays DEF RoundStarts
<1>2. EvalTypeOK'
  BY <1>0 DEF EvalTypeOK, RoundStarts
<1>3. Logged'
  BY <1>0, <1>1 DEF Logged, RecordOK, RoundStarts
<1>4. Reasoned'
  BY <1>0, <1>1 DEF Reasoned, RoundStarts
<1>5. Conversed'
  BY <1>0, <1>1 DEF Conversed, RoundStarts
<1>6. Tallied'
  BY <1>0, <1>1 DEF Tallied, RoundStarts, EvalTypeOK
<1>7. Totalled'
  BY <1>0, <1>1 DEF Totalled, RoundStarts
<1>8. Caused'
  BY <1>0, <1>1 DEF Caused, Last, Ended, RoundStarts
<1>9. Served'
  BY <1>0, <1>1 DEF Served, RoundStarts
<1> QED
  BY <1>2, <1>3, <1>4, <1>5, <1>6, <1>7, <1>8, <1>9 DEF EInv

\* The wait before a retry begins.
LEMMA WaitBeginsKeeps == ASSUME EInv, WaitBegins PROVE EInv'
<1> USE DEF world, config, loop, report, log
<1>0. EvalTypeOK /\ Accounts /\ Sizes
  BY TypeFacts DEF EInv, WaitBegins
<1> USE DEF Accounts, Sizes
<1>1. /\ \A n : Corrected(n)' = Corrected(n)
      /\ \A n : TotalOf(n)' = TotalOf(n)
      /\ attempts' = attempts /\ reasons' = reasons
  BY CorrectedStays, TotalStays DEF WaitBegins
<1>2. EvalTypeOK'
  <2>1. until' \in Nat
    BY <1>0 DEF WaitBegins
  <2> QED
    BY <1>0, <2>1 DEF EvalTypeOK, WaitBegins
<1>3. Logged'
  BY <1>0, <1>1 DEF Logged, RecordOK, WaitBegins
<1>4. Reasoned'
  BY <1>0, <1>1 DEF Reasoned, WaitBegins
<1>5. Conversed'
  BY <1>0, <1>1 DEF Conversed, WaitBegins
<1>6. Tallied'
  BY <1>0, <1>1 DEF Tallied, WaitBegins, EvalTypeOK
<1>7. Totalled'
  BY <1>0, <1>1 DEF Totalled, WaitBegins
<1>8. Caused'
  BY <1>0, <1>1 DEF Caused, Last, Ended, WaitBegins
<1>9. Served'
  BY <1>0, <1>1 DEF Served, WaitBegins
<1> QED
  BY <1>2, <1>3, <1>4, <1>5, <1>6, <1>7, <1>8, <1>9 DEF EInv

\* The wait ends and the request is made again.
LEMMA SleepEndsKeeps == ASSUME EInv, SleepEnds PROVE EInv'
<1> USE DEF world, config, loop, report, log
<1>0. EvalTypeOK /\ Accounts /\ Sizes
  BY TypeFacts DEF EInv, SleepEnds
<1> USE DEF Accounts, Sizes
<1>1. /\ \A n : Corrected(n)' = Corrected(n)
      /\ \A n : TotalOf(n)' = TotalOf(n)
      /\ attempts' = attempts /\ reasons' = reasons
  BY CorrectedStays, TotalStays DEF SleepEnds
<1>2. EvalTypeOK'
  <2>1. retries' \in 0 .. policy'.max
    <3>1. retries < policy.max /\ retries' = retries + 1 /\ policy' = policy
      BY <1>0 DEF SleepEnds, Tallied
    <3>2. policy.max \in Nat /\ retries \in 0 .. policy.max
      BY <1>0
    <3> QED
      BY <3>1, <3>2
  <2> QED
    BY <1>0, <2>1 DEF EvalTypeOK, SleepEnds
<1>3. Logged'
  BY <1>0, <1>1 DEF Logged, RecordOK, SleepEnds
<1>4. Reasoned'
  BY <1>0, <1>1 DEF Reasoned, SleepEnds
<1>5. Conversed'
  BY <1>0, <1>1 DEF Conversed, SleepEnds
<1>6. Tallied'
  <2>1. nRetries \in Nat /\ nMalformed \in Nat /\ retries \in Nat
    BY <1>0
  <2>2. nRetries + nMalformed + retries + 1 = Len(attempts)
    BY <1>0 DEF Tallied, SleepEnds
  <2>3. nRetries' + nMalformed' + retries' = Len(attempts')
    BY <1>0, <1>1, <2>1, <2>2 DEF SleepEnds
  <2>4. pc' = "request"
    BY DEF SleepEnds
  <2> QED
    BY <1>1, <2>3, <2>4 DEF Tallied
<1>7. Totalled'
  BY <1>0, <1>1 DEF Totalled, SleepEnds
<1>8. Caused'
  BY <1>0, <1>1 DEF Caused, Last, Ended, SleepEnds
<1>9. Served'
  BY <1>0, <1>1 DEF Served, SleepEnds
<1> QED
  BY <1>2, <1>3, <1>4, <1>5, <1>6, <1>7, <1>8, <1>9 DEF EInv

\* The output matches the schema.
LEMMA MatchesKeeps == ASSUME EInv, Matches PROVE EInv'
<1> USE DEF world, config, loop, report, log
<1>0. EvalTypeOK /\ Accounts /\ Sizes
  BY TypeFacts DEF EInv, Matches
<1> USE DEF Accounts, Sizes
<1>1. /\ \A n : Corrected(n)' = Corrected(n)
      /\ \A n : TotalOf(n)' = TotalOf(n)
      /\ attempts' = attempts /\ reasons' = reasons
  BY CorrectedStays, TotalStays DEF Matches
<1>2. EvalTypeOK'
  <2>1. nRetries' \in Nat /\ total' \in Nat \cup {Unknown}
    BY <1>0 DEF Matches, Added, Unknown
  <2> QED
    BY <1>0, <2>1 DEF EvalTypeOK, Matches
<1>3. Logged'
  <2>1. /\ pc = "decode" /\ pc' = "reply" /\ records' = records
        /\ Len(attempts) \in Nat \ {0} /\ Len(records) = Len(attempts) - 1
        /\ pending.attempt = Len(attempts) /\ got = attempts[Len(attempts)].got
    BY <1>0 DEF Matches, Logged, Caused, Last
  <2>2. \A k \in 1 .. Len(records) : RecordOK(records[k], k)'
    <3> SUFFICES ASSUME NEW k \in 1 .. Len(records) PROVE RecordOK(records[k], k)'
      OBVIOUS
    <3>1. RecordOK(records[k], k) /\ k # Len(attempts)
      BY <1>0, <2>1 DEF Logged
    <3> QED
      BY <1>1, <2>1, <3>1 DEF RecordOK
  <2>3. RecordOK(pending, Len(attempts))'
    <3>1. RecordOK(pending, Len(attempts))
      BY <1>0, <2>1 DEF Logged
    <3> QED
      BY <1>0, <1>1, <2>1, <3>1 DEF RecordOK, Matches, EvalTypeOK, Bad, Caused
  <2> QED
    BY <1>0, <1>1, <2>1, <2>2, <2>3 DEF Logged, Matches
<1>4. Reasoned'
  BY <1>0, <1>1 DEF Reasoned, Matches
<1>5. Conversed'
  BY <1>0, <1>1 DEF Conversed, Matches
<1>6. Tallied'
  <2>1. nRetries \in Nat /\ nMalformed \in Nat /\ retries \in Nat
    BY <1>0
  <2>2. nRetries + nMalformed + retries + 1 = Len(attempts)
    BY <1>0 DEF Tallied, Matches
  <2>3. nRetries' + nMalformed' + 1 = Len(attempts')
    BY <1>0, <1>1, <2>1, <2>2 DEF Matches
  <2>4. pc' = "reply"
    BY DEF Matches
  <2> QED
    BY <1>1, <2>3, <2>4 DEF Tallied
<1>7. Totalled'
  <2>1. /\ Len(attempts) - 1 \in Nat /\ (Len(attempts) - 1) + 1 = Len(attempts)
        /\ got = attempts[Len(attempts)].got /\ got \in Results
    BY <1>0 DEF Matches, Caused, Last
  <2>2. TotalOf((Len(attempts) - 1) + 1) = Added(TotalOf(Len(attempts) - 1), got)
    BY <2>1, TotalAdds
  <2>3. total = TotalOf(Len(attempts) - 1) /\ total' = Added(total, got) /\ pc' = "reply"
    BY <1>0 DEF Matches, Totalled
  <2>4. total' = TotalOf(Len(attempts))
    BY <2>1, <2>2, <2>3
  <2> QED
    BY <1>1, <2>3, <2>4 DEF Totalled
<1>8. Caused'
  <2>1. pc' = "reply" /\ err' = "none" /\ got = Last /\ attempts # <<>> /\ got \in Matching
    BY <1>0 DEF Matches, Caused
  <2>2. Last' = Last
    BY <1>1 DEF Last
  <2> QED
    BY <1>0, <1>1, <2>1, <2>2 DEF Caused, Failures
<1>9. Served'
  BY <1>0, <1>1 DEF Served, Matches
<1> QED
  BY <1>2, <1>3, <1>4, <1>5, <1>6, <1>7, <1>8, <1>9 DEF EInv

\* The output does not match and no correction is left.
LEMMA MalformedKeeps == ASSUME EInv, Malformed PROVE EInv'
<1> USE DEF world, config, loop, report, log
<1>0. EvalTypeOK /\ Accounts /\ Sizes
  BY TypeFacts DEF EInv, Malformed
<1> USE DEF Accounts, Sizes
<1>1. /\ \A n : Corrected(n)' = Corrected(n)
      /\ \A n : TotalOf(n)' = TotalOf(n)
      /\ attempts' = attempts /\ reasons' = reasons
  BY CorrectedStays, TotalStays DEF Malformed
<1>2. EvalTypeOK'
  <2>1. nRetries' \in Nat /\ total' \in Nat \cup {Unknown}
    BY <1>0 DEF Malformed, Added, Unknown
  <2>2. pending' \in [attempt : Nat, outcome : Words \cup {"none"}, retry : BOOLEAN]
    BY <1>0 DEF EvalTypeOK, Malformed, Words
  <2> QED
    BY <1>0, <2>1, <2>2 DEF EvalTypeOK, Malformed
<1>3. Logged'
  <2>1. /\ pc = "decode" /\ pc' = "reply" /\ records' = records
        /\ Len(attempts) \in Nat \ {0} /\ Len(records) = Len(attempts) - 1
        /\ pending.attempt = Len(attempts) /\ got = attempts[Len(attempts)].got
    BY <1>0 DEF Malformed, Logged, Caused, Last
  <2>2. \A k \in 1 .. Len(records) : RecordOK(records[k], k)'
    <3> SUFFICES ASSUME NEW k \in 1 .. Len(records) PROVE RecordOK(records[k], k)'
      OBVIOUS
    <3>1. RecordOK(records[k], k) /\ k # Len(attempts)
      BY <1>0, <2>1 DEF Logged
    <3> QED
      BY <1>1, <2>1, <3>1 DEF RecordOK
  <2>3. RecordOK(pending, Len(attempts))' /\ pending'.attempt = pending.attempt
    <3>1. RecordOK(pending, Len(attempts))
      BY <1>0, <2>1 DEF Logged
    <3> QED
      BY <1>0, <1>1, <2>1, <3>1 DEF RecordOK, Malformed, EvalTypeOK, Bad, Caused
  <2> QED
    BY <1>0, <1>1, <2>1, <2>2, <2>3 DEF Logged, Malformed
<1>4. Reasoned'
  BY <1>0, <1>1 DEF Reasoned, Malformed
<1>5. Conversed'
  BY <1>0, <1>1 DEF Conversed, Malformed
<1>6. Tallied'
  <2>1. nRetries \in Nat /\ nMalformed \in Nat /\ retries \in Nat
    BY <1>0
  <2>2. nRetries + nMalformed + retries + 1 = Len(attempts)
    BY <1>0 DEF Tallied, Malformed
  <2>3. nRetries' + nMalformed' + 1 = Len(attempts')
    BY <1>0, <1>1, <2>1, <2>2 DEF Malformed
  <2>4. pc' = "reply"
    BY DEF Malformed
  <2> QED
    BY <1>1, <2>3, <2>4 DEF Tallied
<1>7. Totalled'
  <2>1. /\ Len(attempts) - 1 \in Nat /\ (Len(attempts) - 1) + 1 = Len(attempts)
        /\ got = attempts[Len(attempts)].got /\ got \in Results
    BY <1>0 DEF Malformed, Caused, Last
  <2>2. TotalOf((Len(attempts) - 1) + 1) = Added(TotalOf(Len(attempts) - 1), got)
    BY <2>1, TotalAdds
  <2>3. total = TotalOf(Len(attempts) - 1) /\ total' = Added(total, got) /\ pc' = "reply"
    BY <1>0 DEF Malformed, Totalled
  <2>4. total' = TotalOf(Len(attempts))
    BY <2>1, <2>2, <2>3
  <2> QED
    BY <1>1, <2>3, <2>4 DEF Totalled
<1>8. Caused'
  <2>1. pc' = "reply" /\ err' = "malformed" /\ got = Last /\ attempts # <<>> /\ got \in Bad
    BY <1>0 DEF Malformed, Caused, Bad
  <2>2. nMalformed' = nMalformed /\ nMalformed = corrections /\ corrections' = corrections
    BY <1>0 DEF Malformed, Conversed
  <2>3. Last' = Last
    BY <1>1 DEF Last
  <2> QED
    BY <1>0, <1>1, <2>1, <2>2, <2>3 DEF Caused, Failures
<1>9. Served'
  BY <1>0, <1>1 DEF Served, Malformed
<1> QED
  BY <1>2, <1>3, <1>4, <1>5, <1>6, <1>7, <1>8, <1>9 DEF EInv

\* Writing the pending record brings the log up to the attempts.
LEMMA FlushedLogs ==
  ASSUME EvalTypeOK, Logged, pc \notin {"provider", "done"}
  PROVE  LET w == Flushed(records, pending)
         IN  /\ w \in Seq([attempt : Nat, outcome : Words, retry : BOOLEAN])
             /\ Len(w) = Len(attempts) /\ \A k \in 1 .. Len(attempts) : RecordOK(w[k], k)
<1> DEFINE w == Flushed(records, pending)
           T == [attempt : Nat, outcome : Words, retry : BOOLEAN]
<1>0. /\ Len(attempts) \in Nat /\ Len(records) \in Nat /\ records \in Seq(T)
      /\ pending \in [attempt : Nat, outcome : Words \cup {"none"}, retry : BOOLEAN]
      /\ attempts = <<>> <=> Len(attempts) = 0
      /\ pending.attempt = Len(attempts)
      /\ Len(records) = IF attempts = <<>> THEN 0 ELSE Len(attempts) - 1
      /\ \A k \in 1 .. Len(records) : RecordOK(records[k], k)
      /\ pending.attempt # 0 => RecordOK(pending, Len(attempts))
  BY TypeFacts DEF EvalTypeOK, Logged, Sizes
<1>1. CASE pending.attempt = 0
  <2>1. w = records /\ Len(attempts) = 0 /\ Len(records) = 0
    BY <1>0, <1>1 DEF Flushed
  <2> QED
    BY <1>0, <2>1
<1>2. CASE pending.attempt # 0
  <2>1. w = Append(records, pending)
    BY <1>2 DEF Flushed
  <2>2. RecordOK(pending, Len(attempts))
    BY <1>0, <1>2
  <2>3. pending \in T
    <3>1. pending.outcome # "none"
      BY <2>2 DEF RecordOK
    <3> QED
      BY <1>0, <3>1
  <2> HIDE DEF w, T
  <2>4. Len(records) + 1 = Len(attempts)
    BY <1>0, <1>2
  <2>5. /\ w \in Seq(T) /\ Len(w) = Len(attempts) /\ w[Len(attempts)] = pending
        /\ \A k \in 1 .. Len(records) : w[k] = records[k]
    BY <1>0, <2>1, <2>3, <2>4, AppendProperties
  <2>6. ASSUME NEW k \in 1 .. Len(attempts) PROVE RecordOK(w[k], k)
    <3>1. CASE k = Len(attempts)
      BY <2>2, <2>5, <3>1
    <3>2. CASE k # Len(attempts)
      <4>1. k \in 1 .. Len(records)
        BY <1>0, <2>4, <3>2
      <4> QED
        BY <1>0, <2>5, <4>1
    <3> QED
      BY <3>1, <3>2
  <2> QED
    BY <2>5, <2>6 DEF w, T
<1> QED
  BY <1>1, <1>2

\* The pending record is written and the provider is asked.
LEMMA RequestKeeps == ASSUME EInv, Request PROVE EInv'
<1> USE DEF world, config, loop, report, log
<1>0. EvalTypeOK /\ Accounts /\ Sizes
  BY TypeFacts DEF EInv, Request
<1> USE DEF Accounts, Sizes
<1>1. /\ \A n : Corrected(n)' = Corrected(n)
      /\ \A n : TotalOf(n)' = TotalOf(n)
      /\ attempts' = attempts /\ reasons' = reasons
  BY CorrectedStays, TotalStays DEF Request
<1>2. EvalTypeOK'
  <2>1. records' \in Seq([attempt : Nat, outcome : Words, retry : BOOLEAN])
    BY <1>0, FlushedLogs DEF Request
  <2>2. pending' \in [attempt : Nat, outcome : Words \cup {"none"}, retry : BOOLEAN]
    BY <1>0 DEF Request, NoRecord
  <2> QED
    BY <1>0, <2>1, <2>2 DEF EvalTypeOK, Request
<1>3. Logged'
  <2>1. Len(records') = Len(attempts) /\ \A k \in 1 .. Len(attempts) : RecordOK(records'[k], k)
    BY <1>0, FlushedLogs DEF Request
  <2>2. pc # "decode" /\ pc' \in {"provider", "done"} /\ pending'.attempt = 0
    BY DEF Request, NoRecord
  <2>3. \A k \in 1 .. Len(records') : RecordOK(records[k], k)'
    BY <1>1, <2>1, <2>2 DEF RecordOK
  <2> QED
    BY <1>1, <2>1, <2>2, <2>3 DEF Logged
<1>4. Reasoned'
  BY <1>0, <1>1 DEF Reasoned, Request
<1>5. Conversed'
  BY <1>0, <1>1 DEF Conversed, Request
<1>6. Tallied'
  BY <1>0, <1>1 DEF Tallied, Request, EvalTypeOK
<1>7. Totalled'
  BY <1>0, <1>1 DEF Totalled, Request
<1>8. Caused'
  BY <1>0, <1>1 DEF Caused, Last, Ended, Request
<1>9. Served'
  BY <1>0, <1>1 DEF Served, Request
<1> QED
  BY <1>2, <1>3, <1>4, <1>5, <1>6, <1>7, <1>8, <1>9 DEF EInv

\* The last record is written and the call is answered.
LEMMA ReplyKeeps == ASSUME EInv, Reply PROVE EInv'
<1> USE DEF world, config, loop, report, log
<1>0. EvalTypeOK /\ Accounts /\ Sizes
  BY TypeFacts DEF EInv, Reply
<1> USE DEF Accounts, Sizes
<1>1. /\ \A n : Corrected(n)' = Corrected(n)
      /\ \A n : TotalOf(n)' = TotalOf(n)
      /\ attempts' = attempts /\ reasons' = reasons
  BY CorrectedStays, TotalStays DEF Reply
<1>2. EvalTypeOK'
  <2>1. records' \in Seq([attempt : Nat, outcome : Words, retry : BOOLEAN])
    BY <1>0, FlushedLogs DEF Reply
  <2>2. pending' \in [attempt : Nat, outcome : Words \cup {"none"}, retry : BOOLEAN]
    BY <1>0 DEF Reply, NoRecord
  <2> QED
    BY <1>0, <2>1, <2>2 DEF EvalTypeOK, Reply
<1>3. Logged'
  <2>1. Len(records') = Len(attempts) /\ \A k \in 1 .. Len(attempts) : RecordOK(records'[k], k)
    BY <1>0, FlushedLogs DEF Reply
  <2>2. pc # "decode" /\ pc' \in {"provider", "done"} /\ pending'.attempt = 0
    BY DEF Reply, NoRecord
  <2>3. \A k \in 1 .. Len(records') : RecordOK(records[k], k)'
    BY <1>1, <2>1, <2>2 DEF RecordOK
  <2> QED
    BY <1>1, <2>1, <2>2, <2>3 DEF Logged
<1>4. Reasoned'
  BY <1>0, <1>1 DEF Reasoned, Reply
<1>5. Conversed'
  BY <1>0, <1>1 DEF Conversed, Reply
<1>6. Tallied'
  BY <1>0, <1>1 DEF Tallied, Reply, EvalTypeOK
<1>7. Totalled'
  BY <1>0, <1>1 DEF Totalled, Reply
<1>8. Caused'
  BY <1>0, <1>1 DEF Caused, Last, Ended, Reply
<1>9. Served'
  BY <1>0, <1>1 DEF Served, Reply, FailureReply
<1> QED
  BY <1>2, <1>3, <1>4, <1>5, <1>6, <1>7, <1>8, <1>9 DEF EInv

\* A request with a defect has a first one, in the order serve looks.
LEMMA FirstDefectFound == ASSUME EvalTypeOK, defects # {} PROVE FirstDefect \in defects
<1> DEFINE I == {n \in DOMAIN Checks : Checks[n] \in defects}
<1>1. DOMAIN Checks = 1 .. 10
  BY DEF Checks
<1>2. defects \subseteq Defects
  BY EvalRequests DEF EvalTypeOK
<1>3. I # {} /\ I \subseteq Nat
  BY <1>1, <1>2 DEF Defects
<1> HIDE DEF I
<1>4. PICK n \in I : \A m \in I : ~(<<m, n>> \in OpToRel(<, Nat))
  BY <1>3, WFMin, NatLessThanWellFounded
<1>5. \A m \in I : ~(m < n)
  BY <1>3, <1>4 DEF OpToRel
<1>6. n \in DOMAIN Checks /\ Checks[n] \in defects
  BY DEF I
<1>7. \A m \in 1 .. n - 1 : Checks[m] \notin defects
  <2> SUFFICES ASSUME NEW m \in 1 .. n - 1, Checks[m] \in defects PROVE FALSE
    OBVIOUS
  <2>1. n \in 1 .. 10
    BY <1>1, <1>6
  <2>2. m \in 1 .. 10 /\ m < n
    BY <2>1
  <2>3. m \in I
    BY <1>1, <2>2 DEF I
  <2> QED
    BY <1>5, <2>2, <2>3
<1> QED
  BY <1>6, <1>7 DEF FirstDefect

\* A request with a defect is refused.
LEMMA RefusedKeeps == ASSUME EInv, Refused PROVE EInv'
<1> USE DEF world, config, loop, report, log
<1>0. EvalTypeOK /\ Accounts /\ Sizes
  BY TypeFacts DEF EInv, Refused
<1> USE DEF Accounts, Sizes
<1>1. /\ \A n : Corrected(n)' = Corrected(n)
      /\ \A n : TotalOf(n)' = TotalOf(n)
      /\ attempts' = attempts /\ reasons' = reasons
  BY CorrectedStays, TotalStays DEF Refused
<1>2. EvalTypeOK'
  BY <1>0 DEF EvalTypeOK, Refused
<1>3. Logged'
  <2>1. pc = "serve" /\ pc' = "done" /\ attempts = <<>> /\ Len(attempts) = 0
    BY <1>0 DEF Refused, Served
  <2>2. Len(records) = 0 /\ pending.attempt = 0 /\ records' = records /\ pending' = pending
    BY <1>0, <2>1 DEF Logged, Refused
  <2> QED
    BY <1>1, <2>1, <2>2 DEF Logged
<1>4. Reasoned'
  <2>1. pc = "serve" /\ pc' = "done" /\ attempts = <<>> /\ Len(attempts) = 0
    BY <1>0 DEF Refused, Served
  <2>2. Len(attempts) = Len(reasons)
    BY <1>0, <2>1 DEF Reasoned
  <2> QED
    BY <1>0, <1>1, <2>1, <2>2 DEF Reasoned
<1>5. Conversed'
  BY <1>0, <1>1 DEF Conversed, Refused
<1>6. Tallied'
  <2>1. pc = "serve" /\ pc' = "done" /\ attempts = <<>> /\ Len(attempts) = 0
    BY <1>0 DEF Refused, Served
  <2>2. /\ nRetries + nMalformed + retries = Len(attempts) /\ retries = 0
        /\ nRetries' = nRetries /\ nMalformed' = nMalformed
    BY <1>0, <2>1 DEF Tallied, Refused
  <2>3. nRetries' + nMalformed' = Len(attempts')
    BY <1>0, <1>1, <2>2
  <2> QED
    BY <1>0, <1>1, <2>1, <2>3 DEF Tallied
<1>7. Totalled'
  BY <1>0, <1>1 DEF Totalled, Refused
<1>8. Caused'
  BY <1>0, <1>1 DEF Caused, Last, Ended, Refused
<1>9. Served'
  <2>1. /\ reply'.kind \in defects /\ ~reply'.reported
        /\ defects' = defects /\ defects # {} /\ pc' = "done"
    BY <1>0, FirstDefectFound DEF Refused
  <2>2. attempts = <<>>
    BY <1>0 DEF Served, Refused
  <2> QED
    BY <1>1, <2>1, <2>2 DEF Served
<1> QED
  BY <1>2, <1>3, <1>4, <1>5, <1>6, <1>7, <1>8, <1>9 DEF EInv

\* A round ends without a result: on a context that is done, or with the
\* last attempt's failure.
LEMMA RoundFailsKeeps == ASSUME EInv, NEW e, pc \in {"round", "failed", "await", "sleep"},
         (e = "ctx" /\ Ended) \/ (e = got /\ pc = "failed"), RoundFails(e) PROVE EInv'
<1> USE DEF world, config, loop, report, log
<1>0. EvalTypeOK /\ Accounts /\ Sizes
  BY TypeFacts DEF EInv, RoundFails
<1> USE DEF Accounts, Sizes
<1>1. /\ \A n : Corrected(n)' = Corrected(n)
      /\ \A n : TotalOf(n)' = TotalOf(n)
      /\ attempts' = attempts /\ reasons' = reasons
  BY CorrectedStays, TotalStays DEF RoundFails
<1>2. EvalTypeOK'
  <2>1. nRetries' \in Nat
    BY <1>0 DEF RoundFails
  <2>2. e \in Failures \cup {"none", "ctx", "malformed"}
    BY <1>0 DEF Caused
  <2> QED
    BY <1>0, <2>1, <2>2 DEF EvalTypeOK, RoundFails
<1>3. Logged'
  BY <1>0, <1>1 DEF Logged, RecordOK, RoundFails
<1>4. Reasoned'
  BY <1>0, <1>1 DEF Reasoned, RoundFails
<1>5. Conversed'
  BY <1>0, <1>1 DEF Conversed, RoundFails
<1>6. Tallied'
  <2>1. pc' = "reply" /\ nRetries' = nRetries + retries /\ nMalformed' = nMalformed /\ err' = e
    BY DEF RoundFails
  <2>2. CASE pc = "round"
    <3>1. retries = 0 /\ nRetries + nMalformed + retries = Len(attempts) /\ e = "ctx"
      BY <1>0, <2>2 DEF Tallied
    <3>2. nRetries' + nMalformed' = Len(attempts')
      BY <1>0, <1>1, <2>1, <3>1
    <3> QED
      BY <1>1, <2>1, <3>1, <3>2 DEF Tallied
  <2>3. CASE pc \in {"failed", "await", "sleep"}
    <3>1. nRetries + nMalformed + retries + 1 = Len(attempts)
      BY <1>0, <2>3 DEF Tallied
    <3>2. nRetries' + nMalformed' + 1 = Len(attempts')
      BY <1>0, <1>1, <2>1, <3>1
    <3> QED
      BY <1>1, <2>1, <3>2 DEF Tallied
  <2> QED
    BY <2>2, <2>3
<1>7. Totalled'
  BY <1>0, <1>1 DEF Totalled, RoundFails
<1>8. Caused'
  <2>1. pc' = "reply" /\ err' = e /\ defects' = defects /\ ctx' = ctx
    BY DEF RoundFails
  <2>2. Last' = Last
    BY <1>1 DEF Last
  <2>3. (e = "ctx" /\ Ended) \/ (e = Last /\ e \in Failures /\ attempts # <<>>)
    BY <1>0 DEF Caused
  <2>4. {"none", "malformed", "ctx"} \cap Failures = {}
    BY DEF Failures
  <2> QED
    BY <1>1, <2>1, <2>2, <2>3, <2>4 DEF Caused, Ended
<1>9. Served'
  BY <1>0, <1>1 DEF Served, RoundFails
<1> QED
  BY <1>2, <1>3, <1>4, <1>5, <1>6, <1>7, <1>8, <1>9 DEF EInv

\* The provider returns: an attempt joins the Report, its record is pending.
LEMMA ReturnsKeeps == ASSUME EInv, NEW o \in Outcomes, Returns(o) PROVE EInv'
<1> USE DEF world, config, loop, report, log
<1>0. EvalTypeOK /\ Accounts /\ Sizes
  BY TypeFacts DEF EInv, Returns
<1> USE DEF Accounts, Sizes
<1> DEFINE S == [messages : Nat, got : Outcomes, class : Failures \cup {""}]
           a == [messages |-> messages, got |-> o, class |-> ErrorClass(o)]
           w == AttemptOutcome(o)
<1>1. PICK N \in Nat : N = Len(attempts)
  BY <1>0
<1>2. a \in S /\ a.got = o /\ a.messages = messages
  <2>1. ErrorClass(o) \in Failures \cup {""}
    BY DEF ErrorClass, Outcomes, Failures
  <2> QED
    BY <1>0, <2>1
<1>3. w \in Words \ {"malformed"}
  BY DEF AttemptOutcome, Words, Outcomes, Failures, Results
<1> HIDE DEF a, w, S
<1>4. attempts \in Seq(S) /\ attempts' = Append(attempts, a)
  BY <1>0 DEF EvalTypeOK, Returns, S, a
<1>5. /\ attempts' \in Seq(S) /\ Len(attempts') = N + 1 /\ attempts' # <<>>
      /\ \A k \in 1 .. N : attempts'[k] = attempts[k]
      /\ attempts'[N + 1] = a
  <2>1. /\ attempts' \in Seq(S) /\ Len(attempts') = N + 1
        /\ \A k \in 1 .. N : attempts'[k] = attempts[k]
        /\ attempts'[N + 1] = a
    BY <1>1, <1>2, <1>4, AppendProperties
  <2>2. Len(<<>>) = 0
    BY EmptySeq
  <2> QED
    BY <1>1, <2>1, <2>2
<1>6. /\ pending' = [attempt |-> N + 1, outcome |-> w, retry |-> FALSE]
      /\ pc = "provider" /\ got' = o /\ records' = records /\ reasons' = reasons
      /\ pc' = IF o \in Results THEN "decode" ELSE "failed"
  BY <1>1 DEF Returns, w
<1>7. Len(records) = N /\ Len(reasons) = N
  BY <1>0, <1>1, <1>6 DEF Logged, Reasoned
<1>8. /\ \A n : Corrected(n)' = Corrected(n)
      /\ TotalOf(N)' = TotalOf(N)
  BY <1>1, <1>2, <1>4, <1>6, CorrectedStays, TotalAppends
<1>9. EvalTypeOK'
  <2>1. pending' \in [attempt : Nat, outcome : Words \cup {"none"}, retry : BOOLEAN]
    BY <1>1, <1>3, <1>6
  <2> QED
    BY <1>0, <1>5, <1>6, <2>1 DEF EvalTypeOK, Returns, S
<1>10. Logged'
  <2>1. ASSUME NEW k \in 1 .. N PROVE RecordOK(records[k], k)'
    <3>1. RecordOK(records[k], k) /\ k # N + 1
      BY <1>0, <1>7 DEF Logged
    <3> QED
      BY <1>5, <1>6, <3>1 DEF RecordOK
  <2>2. RecordOK(pending, Len(attempts))'
    <3>1. /\ pending'.attempt = N + 1 /\ pending'.outcome = w /\ pending'.retry = FALSE
      BY <1>6
    <3>2. w # "malformed" /\ w # "none"
      BY <1>3 DEF Words
    <3>3. ~(attempts'[N + 1].got \in Bad /\ ~(pc' = "decode"))
      BY <1>2, <1>5, <1>6 DEF Bad
    <3>4. ~(N + 1 <= Len(reasons'))
      BY <1>1, <1>6, <1>7
    <3> QED
      BY <1>5, <3>1, <3>2, <3>3, <3>4 DEF RecordOK
  <2>3. Len(records') = Len(attempts') - 1 /\ pending'.attempt = Len(attempts')
    BY <1>1, <1>5, <1>6, <1>7
  <2>4. pc' \notin {"provider", "done"}
    BY <1>6
  <2> QED
    BY <1>5, <1>6, <1>7, <2>1, <2>2, <2>3, <2>4 DEF Logged
<1>11. Reasoned'
  <2>1. pc' \in {"failed", "decode"} /\ Len(attempts') = Len(reasons') + 1
    BY <1>5, <1>6, <1>7
  <2>2. \A k \in 1 .. Len(reasons') :
          reasons'[k] = IF attempts'[k].got \in Bad THEN "malformed" ELSE "provider"
    BY <1>0, <1>5, <1>6, <1>7 DEF Reasoned
  <2> QED
    BY <2>1, <2>2 DEF Reasoned
<1>12. Conversed'
  <2>1. /\ nMalformed' = nMalformed /\ round' = round /\ messages' = messages
        /\ nMalformed = Corrected(N) /\ round = nMalformed /\ messages = 2 + 2 * nMalformed
    BY <1>0, <1>7 DEF Returns, Conversed
  <2>2. ASSUME NEW k \in 1 .. N + 1
        PROVE  attempts'[k].messages = 2 + 2 * Corrected(k - 1)
    <3>1. CASE k = N + 1
      <4>1. k - 1 = N
        BY <1>1, <3>1
      <4> QED
        BY <1>2, <1>5, <2>1, <3>1, <4>1
    <3>2. CASE k # N + 1
      <4>1. k \in 1 .. N
        BY <1>1, <3>2
      <4> QED
        BY <1>0, <1>1, <1>5, <4>1 DEF Conversed
    <3> QED
      BY <3>1, <3>2
  <2> QED
    BY <1>5, <1>6, <1>7, <1>8, <2>1, <2>2 DEF Conversed
<1>13. Tallied'
  <2>1. nRetries + nMalformed + retries = N
    BY <1>0, <1>1, <1>6 DEF Tallied
  <2>2. /\ nRetries' = nRetries /\ nMalformed' = nMalformed /\ retries' = retries
    BY DEF Returns
  <2>3. nRetries' + nMalformed' + retries' + 1 = Len(attempts')
    BY <1>0, <1>5, <2>1, <2>2
  <2>4. pc' \in {"failed", "decode"}
    BY <1>6
  <2> QED
    BY <2>3, <2>4 DEF Tallied
<1>14. Totalled'
  <2>1. total' = total /\ total = TotalOf(N)
    BY <1>0, <1>1, <1>6 DEF Returns, Totalled
  <2>2. CASE o \in Results
    <3>1. pc' = "decode" /\ Len(attempts') - 1 = N
      BY <1>1, <1>5, <1>6, <2>2
    <3> QED
      BY <1>8, <2>1, <3>1 DEF Totalled
  <2>3. CASE o \notin Results
    <3>1. pc' = "failed"
      BY <1>6, <2>3
    <3>2. (\A n \in Nat :
             TotalOf(n + 1) = IF attempts[n + 1].got \in Results
                              THEN Added(TotalOf(n), attempts[n + 1].got) ELSE TotalOf(n))'
      BY TotalAdds, PTL
    <3>3. attempts'[N + 1].got \notin Results
      BY <1>2, <1>5, <2>3
    <3>4. TotalOf(N + 1)' = TotalOf(N)'
      BY <1>1, <3>2, <3>3
    <3> QED
      BY <1>5, <1>8, <2>1, <3>1, <3>4 DEF Totalled
  <2> QED
    BY <2>2, <2>3
<1>15. Caused'
  <2>1. Last' = o
    BY <1>2, <1>5 DEF Last
  <2>2. o \notin Results => o \in Failures
    BY DEF Outcomes
  <2>3. err' = err /\ err = "none"
    BY <1>0, <1>6 DEF Returns, Caused
  <2> QED
    BY <1>5, <1>6, <2>1, <2>2, <2>3 DEF Caused
<1>16. Served'
  BY <1>0, <1>6 DEF Served, Returns
<1> QED
  BY <1>9, <1>10, <1>11, <1>12, <1>13, <1>14, <1>15, <1>16 DEF EInv

\* A retry is decided: its reason is in the Report before the wait.
LEMMA RetryDecidedKeeps == ASSUME EInv, RetryDecided PROVE EInv'
<1> USE DEF world, config, loop, report, log
<1>0. EvalTypeOK /\ Accounts /\ Sizes
  BY TypeFacts DEF EInv, RetryDecided
<1> USE DEF Accounts, Sizes
<1>1. PICK R \in Nat : R = Len(reasons)
  BY <1>0
<1>2. /\ pc = "failed" /\ pc' = "wait" /\ attempts' = attempts /\ records' = records
      /\ reasons' = Append(reasons, "provider") /\ reasons \in Seq({"provider", "malformed"})
  BY <1>0 DEF RetryDecided, EvalTypeOK
<1>3. /\ reasons' \in Seq({"provider", "malformed"}) /\ Len(reasons') = R + 1
      /\ \A k \in 1 .. R : reasons'[k] = reasons[k]
      /\ reasons'[R + 1] = "provider"
  BY <1>1, <1>2, AppendProperties
<1>4. /\ \A n \in 0 .. R : Corrected(n)' = Corrected(n)
      /\ Corrected(R + 1)' = Corrected(R) + 0
  <2>1. /\ \A n \in 0 .. R : Corrected(n)' = Corrected(n)
        /\ Corrected(R + 1)' = Corrected(R) + (IF "provider" = "malformed" THEN 1 ELSE 0)
    BY <1>1, <1>2, CorrectedAppends
  <2> QED
    BY <2>1
<1>5. /\ Len(attempts) = R + 1 /\ Len(records) = R /\ pending.attempt = R + 1
      /\ got = attempts[R + 1].got /\ RecordOK(pending, R + 1)
  BY <1>0, <1>1, <1>2 DEF Logged, Reasoned, Caused, Last
<1>6. got \in Failures /\ got \notin Bad
  BY <1>0, <1>2 DEF Caused, Bad, Results, Matching, Failures
<1>7. EvalTypeOK'
  <2>1. pending' \in [attempt : Nat, outcome : Words \cup {"none"}, retry : BOOLEAN]
    BY <1>0 DEF EvalTypeOK, RetryDecided
  <2> QED
    BY <1>0, <1>3, <2>1 DEF EvalTypeOK, RetryDecided
<1>8. Logged'
  <2>1. ASSUME NEW k \in 1 .. R PROVE RecordOK(records[k], k)'
    <3>1. RecordOK(records[k], k) /\ k # R + 1 /\ k <= R /\ k <= R + 1
      BY <1>0, <1>1, <1>5 DEF Logged
    <3> QED
      BY <1>1, <1>2, <1>3, <1>5, <3>1 DEF RecordOK
  <2>2. RecordOK(pending, Len(attempts))'
    <3>1. /\ pending'.attempt = R + 1 /\ pending'.retry = TRUE
          /\ pending'.outcome = pending.outcome
      BY <1>0, <1>5 DEF RetryDecided, EvalTypeOK
    <3>2. R + 1 <= Len(reasons')
      BY <1>1, <1>3
    <3> QED
      BY <1>2, <1>5, <1>6, <3>1, <3>2 DEF RecordOK
  <2>3. Len(records') = Len(attempts') - 1 /\ pending'.attempt = Len(attempts') /\ attempts' # <<>>
    <3>1. pending'.attempt = pending.attempt
      BY <1>0 DEF RetryDecided, EvalTypeOK
    <3>2. Len(attempts) # 0
      BY <1>1, <1>5
    <3>3. attempts # <<>>
      BY <1>0, <3>2
    <3>4. R = (R + 1) - 1
      BY <1>1
    <3> QED
      BY <1>2, <1>5, <3>1, <3>3, <3>4
  <2> QED
    BY <1>2, <1>5, <2>1, <2>2, <2>3 DEF Logged
<1>9. Reasoned'
  <2>1. Len(attempts') = Len(reasons')
    BY <1>2, <1>3, <1>5
  <2>2. ASSUME NEW k \in 1 .. R + 1
        PROVE  reasons'[k] = IF attempts[k].got \in Bad THEN "malformed" ELSE "provider"
    <3>1. CASE k = R + 1
      BY <1>3, <1>5, <1>6, <3>1
    <3>2. CASE k # R + 1
      <4>1. k \in 1 .. R
        BY <1>1, <3>2
      <4> QED
        BY <1>0, <1>1, <1>3, <4>1 DEF Reasoned
    <3> QED
      BY <3>1, <3>2
  <2> QED
    BY <1>2, <1>3, <2>1, <2>2 DEF Reasoned
<1>10. Conversed'
  <2>1. nMalformed = Corrected(R) /\ round = nMalformed /\ messages = 2 + 2 * nMalformed
    BY <1>0, <1>1 DEF Conversed
  <2>2. nMalformed' = nMalformed /\ round' = round /\ messages' = messages
    BY DEF RetryDecided
  <2>3. nMalformed' = Corrected(R + 1)' /\ round' = nMalformed' /\ messages' = 2 + 2 * nMalformed'
    BY <1>0, <1>4, <2>1, <2>2
  <2>4. ASSUME NEW k \in 1 .. R + 1 PROVE attempts[k].messages = 2 + 2 * Corrected(k - 1)'
    <3> DEFINE n == k - 1
    <3>1. n \in 0 .. R
      BY <1>1
    <3>2. attempts[k].messages = 2 + 2 * Corrected(n)
      BY <1>0, <1>5 DEF Conversed
    <3> HIDE DEF n
    <3>3. Corrected(n)' = Corrected(n)
      BY <1>4, <3>1
    <3> QED
      BY <3>2, <3>3 DEF n
  <2> QED
    BY <1>2, <1>3, <1>5, <2>3, <2>4 DEF Conversed
<1>11. Tallied'
  <2>1. nRetries + nMalformed + retries + 1 = R + 1
    BY <1>0, <1>2, <1>5 DEF Tallied
  <2>2. /\ nRetries' = nRetries /\ nMalformed' = nMalformed /\ retries' = retries
        /\ retries < policy.max /\ policy' = policy
    BY DEF RetryDecided, MayRetry
  <2>3. nRetries' + nMalformed' + retries' + 1 = Len(attempts')
    BY <1>2, <1>5, <2>1, <2>2
  <2> QED
    BY <1>2, <2>2, <2>3 DEF Tallied
<1>12. Totalled'
  BY <1>0, <1>2, TotalStays DEF Totalled, RetryDecided
<1>13. Caused'
  <2>1. Last' = Last
    BY <1>2 DEF Last
  <2> QED
    BY <1>0, <1>2, <2>1 DEF Caused, RetryDecided
<1>14. Served'
  BY <1>0, <1>2 DEF Served, RetryDecided
<1> QED
  BY <1>7, <1>8, <1>9, <1>10, <1>11, <1>12, <1>13, <1>14 DEF EInv

\* The output does not match and is corrected in a new round.
LEMMA CorrectsKeeps == ASSUME EInv, Corrects PROVE EInv'
<1> USE DEF world, config, loop, report, log
<1>0. EvalTypeOK /\ Accounts /\ Sizes
  BY TypeFacts DEF EInv, Corrects
<1> USE DEF Accounts, Sizes
<1>1. PICK R \in Nat : R = Len(reasons)
  BY <1>0
<1>2. /\ pc = "decode" /\ pc' = "round" /\ attempts' = attempts /\ records' = records
      /\ reasons' = Append(reasons, "malformed") /\ reasons \in Seq({"provider", "malformed"})
  BY <1>0 DEF Corrects, EvalTypeOK
<1>3. /\ reasons' \in Seq({"provider", "malformed"}) /\ Len(reasons') = R + 1
      /\ \A k \in 1 .. R : reasons'[k] = reasons[k]
      /\ reasons'[R + 1] = "malformed"
  BY <1>1, <1>2, AppendProperties
<1>4. /\ \A n \in 0 .. R : Corrected(n)' = Corrected(n)
      /\ Corrected(R + 1)' = Corrected(R) + 1
  <2>1. /\ \A n \in 0 .. R : Corrected(n)' = Corrected(n)
        /\ Corrected(R + 1)' = Corrected(R) + (IF "malformed" = "malformed" THEN 1 ELSE 0)
    BY <1>1, <1>2, CorrectedAppends
  <2> QED
    BY <2>1
<1>5. /\ Len(attempts) = R + 1 /\ Len(records) = R /\ pending.attempt = R + 1
      /\ got = attempts[R + 1].got /\ RecordOK(pending, R + 1)
  BY <1>0, <1>1, <1>2 DEF Logged, Reasoned, Caused, Last
<1>6. got \in Bad
  BY <1>0, <1>2 DEF Corrects, Caused, Bad
<1>7. EvalTypeOK'
  <2>1. pending' \in [attempt : Nat, outcome : Words \cup {"none"}, retry : BOOLEAN]
    BY <1>0 DEF EvalTypeOK, Corrects, Words
  <2>2. /\ nRetries' \in Nat /\ nMalformed' \in Nat /\ messages' \in Nat
        /\ round' \in 0 .. corrections' /\ retries' \in 0 .. policy'.max
        /\ total' \in Nat \cup {Unknown}
    <3>1. /\ nRetries' = nRetries + retries /\ nMalformed' = nMalformed + 1
          /\ messages' = messages + 2 /\ round' = round + 1 /\ round < corrections
          /\ corrections' = corrections /\ policy' = policy /\ retries' = 0
      BY DEF Corrects
    <3>2. total' \in Nat \cup {Unknown}
      <4>1. total' = Added(total, got)
        BY DEF Corrects
      <4>2. total \in Nat \cup {Unknown}
        BY <1>0
      <4> QED
        BY <4>1, <4>2 DEF Added, Unknown
    <3>3. retries \in Nat /\ round \in Nat
      BY <1>0
    <3>4. /\ nRetries' \in Nat /\ nMalformed' \in Nat /\ messages' \in Nat
          /\ round' \in 0 .. corrections'
      BY <1>0, <3>1, <3>3
    <3>5. retries' \in 0 .. policy'.max
      BY <1>0, <3>1
    <3> QED
      BY <3>2, <3>4, <3>5
  <2> QED
    BY <1>0, <1>3, <2>1, <2>2 DEF EvalTypeOK, Corrects
<1>8. Logged'
  <2>1. ASSUME NEW k \in 1 .. R PROVE RecordOK(records[k], k)'
    <3>1. RecordOK(records[k], k) /\ k # R + 1 /\ k <= R /\ k <= R + 1
      BY <1>0, <1>1, <1>5 DEF Logged
    <3> QED
      BY <1>1, <1>2, <1>3, <1>5, <3>1 DEF RecordOK
  <2>2. RecordOK(pending, Len(attempts))'
    <3>1. /\ pending'.attempt = R + 1 /\ pending'.retry = TRUE
          /\ pending'.outcome = "malformed"
      BY <1>0, <1>5 DEF Corrects, EvalTypeOK
    <3>2. R + 1 <= Len(reasons')
      BY <1>1, <1>3
    <3> QED
      BY <1>2, <1>5, <1>6, <3>1, <3>2 DEF RecordOK
  <2>3. Len(records') = Len(attempts') - 1 /\ pending'.attempt = Len(attempts') /\ attempts' # <<>>
    <3>1. pending'.attempt = pending.attempt
      BY <1>0 DEF Corrects, EvalTypeOK
    <3>2. Len(attempts) # 0
      BY <1>1, <1>5
    <3>3. attempts # <<>>
      BY <1>0, <3>2
    <3>4. R = (R + 1) - 1
      BY <1>1
    <3> QED
      BY <1>2, <1>5, <3>1, <3>3, <3>4
  <2> QED
    BY <1>2, <1>5, <2>1, <2>2, <2>3 DEF Logged
<1>9. Reasoned'
  <2>1. Len(attempts') = Len(reasons')
    BY <1>2, <1>3, <1>5
  <2>2. ASSUME NEW k \in 1 .. R + 1
        PROVE  reasons'[k] = IF attempts[k].got \in Bad THEN "malformed" ELSE "provider"
    <3>1. CASE k = R + 1
      BY <1>3, <1>5, <1>6, <3>1
    <3>2. CASE k # R + 1
      <4>1. k \in 1 .. R
        BY <1>1, <3>2
      <4> QED
        BY <1>0, <1>1, <1>3, <4>1 DEF Reasoned
    <3> QED
      BY <3>1, <3>2
  <2> QED
    BY <1>2, <1>3, <2>1, <2>2 DEF Reasoned
<1>10. Conversed'
  <2>1. nMalformed = Corrected(R) /\ round = nMalformed /\ messages = 2 + 2 * nMalformed
    BY <1>0, <1>1 DEF Conversed
  <2>2. nMalformed' = nMalformed + 1 /\ round' = round + 1 /\ messages' = messages + 2
    BY DEF Corrects
  <2>3. nMalformed' = Corrected(R + 1)' /\ round' = nMalformed' /\ messages' = 2 + 2 * nMalformed'
    <3>1. nMalformed \in Nat
      BY <1>0
    <3>2. messages' = 2 + 2 * (nMalformed + 1)
      BY <2>1, <2>2, <3>1
    <3> QED
      BY <1>4, <2>1, <2>2, <3>2
  <2>4. ASSUME NEW k \in 1 .. R + 1 PROVE attempts[k].messages = 2 + 2 * Corrected(k - 1)'
    <3> DEFINE n == k - 1
    <3>1. n \in 0 .. R
      BY <1>1
    <3>2. attempts[k].messages = 2 + 2 * Corrected(n)
      BY <1>0, <1>5 DEF Conversed
    <3> HIDE DEF n
    <3>3. Corrected(n)' = Corrected(n)
      BY <1>4, <3>1
    <3> QED
      BY <3>2, <3>3 DEF n
  <2> QED
    BY <1>2, <1>3, <1>5, <2>3, <2>4 DEF Conversed
<1>11. Tallied'
  <2>1. nRetries + nMalformed + retries + 1 = R + 1
    BY <1>0, <1>2, <1>5 DEF Tallied
  <2>2. nRetries' = nRetries + retries /\ nMalformed' = nMalformed + 1 /\ retries' = 0
    BY DEF Corrects
  <2>3. nRetries' + nMalformed' + retries' = Len(attempts')
    BY <1>0, <1>1, <1>2, <1>5, <2>1, <2>2
  <2> QED
    BY <1>2, <2>2, <2>3 DEF Tallied
<1>12. Totalled'
  <2>1. total = TotalOf(R) /\ total' = Added(total, got)
    <3>1. Len(attempts) - 1 = R
      BY <1>1, <1>5
    <3> QED
      BY <1>0, <1>2, <3>1 DEF Corrects, Totalled
  <2>2. TotalOf(R + 1) = Added(TotalOf(R), got)
    BY <1>1, <1>5, <1>6, TotalAdds DEF Bad
  <2>3. TotalOf(R + 1)' = TotalOf(R + 1)
    BY <1>2, TotalStays
  <2> QED
    BY <1>2, <1>5, <2>1, <2>2, <2>3 DEF Totalled
<1>13. Caused'
  <2>1. Last' = Last
    BY <1>2 DEF Last
  <2> QED
    BY <1>0, <1>2, <2>1 DEF Caused, Corrects
<1>14. Served'
  BY <1>0, <1>2 DEF Served, Corrects
<1> QED
  BY <1>7, <1>8, <1>9, <1>10, <1>11, <1>12, <1>13, <1>14 DEF EInv

\* Time passes.
LEMMA TickKeeps == ASSUME EInv, Tick PROVE EInv'
<1> USE DEF world, config, loop, report, log
<1>0. EvalTypeOK /\ Accounts /\ Sizes
  BY TypeFacts DEF EInv, Tick
<1> USE DEF Accounts, Sizes
<1>1. /\ \A n : Corrected(n)' = Corrected(n)
      /\ \A n : TotalOf(n)' = TotalOf(n)
      /\ attempts' = attempts /\ reasons' = reasons
  BY CorrectedStays, TotalStays DEF Tick
<1>2. EvalTypeOK'
  <2>1. now' \in Nat
    BY <1>0 DEF Tick
  <2> QED
    BY <1>0, <2>1 DEF EvalTypeOK, Tick
<1>3. Logged'
  BY <1>0, <1>1 DEF Logged, RecordOK, Tick
<1>4. Reasoned'
  BY <1>0, <1>1 DEF Reasoned, Tick
<1>5. Conversed'
  BY <1>0, <1>1 DEF Conversed, Tick
<1>6. Tallied'
  BY <1>0, <1>1 DEF Tallied, Tick, EvalTypeOK
<1>7. Totalled'
  BY <1>0, <1>1 DEF Totalled, Tick
<1>8. Caused'
  BY <1>0, <1>1 DEF Caused, Last, Ended, Tick
<1>9. Served'
  BY <1>0, <1>1 DEF Served, Tick
<1> QED
  BY <1>2, <1>3, <1>4, <1>5, <1>6, <1>7, <1>8, <1>9 DEF EInv

\* The caller's context ends.
LEMMA CtxEndsKeeps == ASSUME EInv, NEW how \in {"expired", "canceled"}, CtxEnds(how) PROVE EInv'
<1> USE DEF world, config, loop, report, log
<1>0. EvalTypeOK /\ Accounts /\ Sizes
  BY TypeFacts DEF EInv, CtxEnds
<1> USE DEF Accounts, Sizes
<1>1. /\ \A n : Corrected(n)' = Corrected(n)
      /\ \A n : TotalOf(n)' = TotalOf(n)
      /\ attempts' = attempts /\ reasons' = reasons
  BY CorrectedStays, TotalStays DEF CtxEnds
<1>2. EvalTypeOK'
  BY <1>0 DEF EvalTypeOK, CtxEnds
<1>3. Logged'
  BY <1>0, <1>1 DEF Logged, RecordOK, CtxEnds
<1>4. Reasoned'
  BY <1>0, <1>1 DEF Reasoned, CtxEnds
<1>5. Conversed'
  BY <1>0, <1>1 DEF Conversed, CtxEnds
<1>6. Tallied'
  BY <1>0, <1>1 DEF Tallied, CtxEnds, EvalTypeOK
<1>7. Totalled'
  BY <1>0, <1>1 DEF Totalled, CtxEnds
<1>8. Caused'
  BY <1>0, <1>1 DEF Caused, Last, Ended, CtxEnds
<1>9. Served'
  BY <1>0, <1>1 DEF Served, CtxEnds
<1> QED
  BY <1>2, <1>3, <1>4, <1>5, <1>6, <1>7, <1>8, <1>9 DEF EInv

\* The provider panics: no Report is returned.
LEMMA PanicsKeep == ASSUME EInv, PanicsInDo \/ \E o \in Outcomes : PanicsInModel(o) PROVE EInv'
<1> USE DEF world, config, loop, report, log
<1>1. CASE PanicsInDo
  BY <1>1 DEF EInv, EvalTypeOK, PanicsInDo
<1>2. ASSUME NEW o \in Outcomes, PanicsInModel(o) PROVE EInv'
  <2> DEFINE r == [attempt |-> Len(attempts) + 1, outcome |-> AttemptOutcome(o), retry |-> FALSE]
  <2>1. r \in [attempt : Nat, outcome : Words, retry : BOOLEAN]
    <3>1. AttemptOutcome(o) \in Words
      BY DEF AttemptOutcome, Words, Outcomes, Failures, Results
    <3>2. Len(attempts) + 1 \in Nat
      BY TypeFacts DEF EInv, Sizes
    <3> QED
      BY <3>1, <3>2
  <2>2. records' = Append(records, r)
    BY <1>2 DEF PanicsInModel
  <2> HIDE DEF r
  <2>3. records' \in Seq([attempt : Nat, outcome : Words, retry : BOOLEAN])
    BY <2>1, <2>2, AppendProperties DEF EInv, EvalTypeOK
  <2> QED
    BY <1>2, <2>3 DEF EInv, EvalTypeOK, PanicsInModel
<1> QED
  BY <1>1, <1>2

\* A round that ends on a done context, or with a failure that is not
\* retried, keeps the invariant.
LEMMA RoundEndsKeep ==
  ASSUME EInv, RoundCtxDone \/ FailedCtx \/ GivesUp \/ AwaitEnds \/ SleepCtx
  PROVE  EInv'
<1>1. CASE RoundCtxDone
  BY <1>1, RoundFailsKeeps DEF RoundCtxDone
<1>2. CASE FailedCtx
  BY <1>2, RoundFailsKeeps DEF FailedCtx
<1>3. CASE GivesUp
  BY <1>3, RoundFailsKeeps DEF GivesUp
<1>4. CASE AwaitEnds
  BY <1>4, RoundFailsKeeps DEF AwaitEnds
<1>5. CASE SleepCtx
  BY <1>5, RoundFailsKeeps DEF SleepCtx
<1> QED
  BY <1>1, <1>2, <1>3, <1>4, <1>5

\* Every step keeps the invariant.
LEMMA EInvStep == EInv /\ [Next]_vars => EInv'
<1> SUFFICES ASSUME EInv, [Next]_vars PROVE EInv'
  OBVIOUS
<1>1. CASE CallSteps
  BY <1>1, RefusedKeeps, AcceptedKeeps, RoundStartsKeeps, RequestKeeps, RetryDecidedKeeps,
     WaitBeginsKeeps, SleepEndsKeeps, MatchesKeeps, MalformedKeeps, CorrectsKeeps, ReplyKeeps,
     RoundEndsKeep
  DEF CallSteps
<1>2. CASE ProviderEnds
  BY <1>2, ReturnsKeeps, PanicsKeep DEF ProviderEnds
<1>3. CASE Tick \/ CtxEnds("expired") \/ CtxEnds("canceled")
  BY <1>3, TickKeeps, CtxEndsKeeps
<1>4. CASE UNCHANGED vars
  <2> USE <1>4 DEF vars
  <2>1. (\A n : Corrected(n)' = Corrected(n)) /\ (\A n : TotalOf(n)' = TotalOf(n))
    BY CorrectedStays, TotalStays
  <2>2. EvalTypeOK'
    <3>1. /\ now' = now /\ ctx' = ctx /\ deadline' = deadline /\ defects' = defects
          /\ policy' = policy /\ corrections' = corrections /\ pc' = pc /\ start' = start
          /\ until' = until /\ round' = round /\ retries' = retries /\ messages' = messages
          /\ got' = got /\ err' = err /\ attempts' = attempts /\ reasons' = reasons
          /\ nRetries' = nRetries /\ nMalformed' = nMalformed /\ total' = total
          /\ pending' = pending /\ records' = records
      OBVIOUS
    <3> QED
      BY <3>1 DEF EInv, EvalTypeOK
  <2>3. ASSUME Accounts PROVE Accounts'
    <3>1. Logged'
      BY <2>3 DEF Accounts, Logged, RecordOK
    <3>2. Reasoned' /\ Tallied'
      BY <2>3 DEF Accounts, Reasoned, Tallied
    <3>3. Conversed' /\ Totalled'
      BY <2>1, <2>3 DEF Accounts, Conversed, Totalled
    <3>4. Caused'
      BY <2>3 DEF Accounts, Caused, Last, Ended
    <3>5. Served'
      BY <2>3 DEF Accounts, Served, FailureReply
    <3> QED
      BY <3>1, <3>2, <3>3, <3>4, <3>5 DEF Accounts
  <2> QED
    BY <2>2, <2>3 DEF EInv
<1> QED
  BY <1>1, <1>2, <1>3, <1>4 DEF Next

\* The invariant holds of every behaviour.
LEMMA EInvAlways == Spec => []EInv
BY EInvInit, EInvStep, PTL DEF Spec

-----------------------------------------------------------------------------
(* The properties. *)

\* The call's state has its types; the retries of a round stay within the
\* policy's and the corrective rounds within the Adapter's setting.
THEOREM EvaluateTyped == Spec => []EvalTypeOK
<1>1. EInv => EvalTypeOK
  BY DEF EInv
<1> QED
  BY <1>1, EInvAlways, PTL

\* The log and the Report of a call that returned tell the same story as
\* its provider requests, however its retries and corrections interleave
\* with the end of the caller's context.
THEOREM EvaluateReportAccounts == Spec => []ReportAccounts
<1>1. ASSUME EInv PROVE ReportAccounts
  <2> SUFFICES ASSUME pc = "done" PROVE ReportAccounts
    BY DEF ReportAccounts
  <2>0. /\ EvalTypeOK /\ Accounts
        /\ Len(attempts) \in Nat /\ Len(reasons) \in Nat
        /\ attempts = <<>> <=> Len(attempts) = 0
        /\ nRetries \in Nat /\ nMalformed \in Nat
    BY <1>1, TypeFacts DEF EInv, Sizes
  <2>1. DOMAIN attempts = 1 .. Len(attempts) /\ DOMAIN reasons = 1 .. Len(reasons)
    BY <2>0, LenProperties DEF EvalTypeOK
  <2>2. /\ Len(records) = Len(attempts)
        /\ \A k \in 1 .. Len(attempts) : RecordOK(records[k], k)
    BY <2>0 DEF Accounts, Logged
  <2>3. /\ \/ Len(attempts) = Len(reasons) + 1
           \/ Len(attempts) = Len(reasons) /\ (attempts # <<>> => err = "ctx")
        /\ \A k \in 1 .. Len(reasons) :
             reasons[k] = IF attempts[k].got \in Bad THEN "malformed" ELSE "provider"
    <3>1. Reasoned
      BY <2>0 DEF Accounts
    <3> QED
      BY <3>1 DEF Reasoned
  <2>4. ASSUME NEW k \in DOMAIN attempts
        PROVE  /\ records[k].attempt = k
               /\ records[k].retry <=> k \in DOMAIN reasons
               /\ (records[k].outcome = "malformed") <=> (attempts[k].got \in Bad)
               /\ attempts[k].messages = 2 + 2 * Corrected(k - 1)
    <3>1. k \in 1 .. Len(attempts) /\ RecordOK(records[k], k)
      BY <2>1, <2>2
    <3>2. k <= Len(reasons) <=> k \in DOMAIN reasons
      BY <2>0, <2>1, <3>1
    <3> QED
      BY <2>0, <3>1, <3>2 DEF RecordOK, Accounts, Conversed
  <2>5. ASSUME NEW k \in DOMAIN reasons
        PROVE  reasons[k] = IF records[k].outcome = "malformed" THEN "malformed" ELSE "provider"
    <3>1. k \in DOMAIN attempts /\ k \in 1 .. Len(reasons)
      <4>1. Len(attempts) = Len(reasons) + 1 \/ Len(attempts) = Len(reasons)
        BY <2>3
      <4>2. Len(attempts) \in Nat /\ Len(reasons) \in Nat
        BY <2>0
      <4>3. k \in 1 .. Len(reasons)
        BY <2>1
      <4>4. k \in 1 .. Len(attempts)
        BY <4>1, <4>2, <4>3
      <4> QED
        BY <2>1, <4>3, <4>4
    <3> QED
      BY <2>3, <2>4, <3>1
  <2>6. \/ Len(reasons) = Len(attempts) - 1
        \/ Len(reasons) = Len(attempts) /\ (attempts # <<>> => err = "ctx")
    BY <2>0, <2>3
  <2>7. nMalformed = Corrected(Len(reasons))
    BY <2>0 DEF Accounts, Conversed
  <2>8. \/ nRetries + nMalformed + 1 = Len(attempts)
        \/ nRetries + nMalformed = Len(attempts) /\ (attempts # <<>> => err = "ctx")
    BY <2>0 DEF Accounts, Tallied
  <2>9. total = IF \A k \in Answered : Counted(attempts[k].got)
                THEN Cardinality(Answered) ELSE Unknown
    <3>1. Answered = AnsweredTo(Len(attempts))
      BY <2>1 DEF Answered, AnsweredTo
    <3>2. total = TotalOf(Len(attempts))
      BY <2>0 DEF Accounts, Totalled
    <3> QED
      BY <3>1, <3>2 DEF TotalOf
  <2> QED
    BY <2>2, <2>4, <2>5, <2>6, <2>7, <2>8, <2>9 DEF ReportAccounts, Bad
<1> QED
  BY <1>1, EInvAlways, PTL

\* What the caller receives names what ended the call: the refusal, the
\* answers, the end of its context, or the last attempt's own failure.
THEOREM EvaluateReplyNamesCause == Spec => []ReplyNamesCause
<1>1. ASSUME EInv PROVE ReplyNamesCause
  <2> SUFFICES ASSUME pc = "done" PROVE ReplyNamesCause
    BY DEF ReplyNamesCause
  <2>0. EvalTypeOK /\ Caused /\ Served
    BY <1>1 DEF EInv, Accounts
  <2>1. CASE defects # {}
    BY <2>0, <2>1 DEF Served, ReplyNamesCause
  <2>2. CASE defects = {} /\ err = "none"
    <3>1. reply = [kind |-> "answers", status |-> 200, reported |-> TRUE] /\ Last \in Matching
      BY <2>0, <2>2 DEF Served, Caused
    <3> QED
      BY <2>2, <3>1 DEF ReplyNamesCause
  <2>3. CASE defects = {} /\ err # "none"
    <3>1. reply = FailureReply(err)
      BY <2>0, <2>3 DEF Served
    <3>2. /\ err = "malformed" => Last \in Bad /\ nMalformed = corrections
          /\ err = "ctx" => ctx # "live"
          /\ err \in Failures => Last = err
          /\ err \in Failures \cup {"ctx", "malformed"}
      BY <2>0, <2>3 DEF Caused, Ended, EvalTypeOK
    <3>3. ctx = "canceled" => reply.kind = "canceled" /\ ~reply.reported
      BY <3>1 DEF FailureReply
    <3>4. ctx = "expired" => reply.kind = "timeout" /\ reply.reported
      BY <3>1 DEF FailureReply
    <3>5. ctx = "live" => reply.kind = err /\ reply.reported
      BY <3>1, <3>2 DEF FailureReply, Failures
    <3>6. "malformed" \notin Failures
      BY DEF Failures
    <3> QED
      BY <2>3, <3>2, <3>3, <3>4, <3>5, <3>6 DEF ReplyNamesCause, Bad
  <2> QED
    BY <2>1, <2>2, <2>3
<1> QED
  BY <1>1, EInvAlways, PTL

-----------------------------------------------------------------------------
(* What a call may cost. *)

\* A round's provider requests under the policy, and its time with a budget.
PerRound == policy.max + 1
Span     == policy.budget + MaxLatency

\* The rounds that are over made at most PerRound requests each, this one
\* one more than its retries so far.
Drawn ==
    LET before == round * PerRound IN
    /\ pc \in {"serve", "round"}      => Len(attempts) <= before
    /\ pc \in {"request", "provider"} => Len(attempts) <= before + retries
    /\ pc \in {"failed", "decode", "wait", "await", "sleep"} => Len(attempts) <= before + retries + 1
    /\ Len(attempts) <= before + PerRound

\* The rounds that are over took at most Span each; this one started then, and
\* waits for nothing that lies past its budget.
Timed ==
    LET before == round * Span IN
    policy.budget # NoBudget =>
      CASE pc \in {"serve", "round"} -> now <= before
        [] pc \in {"reply", "done"}  -> now <= before + Span
        [] OTHER ->
             /\ start <= before
             /\ pc = "request"  => now <= start + policy.budget
             /\ pc = "provider" => until <= start + policy.budget /\ now <= until + MaxLatency
             /\ pc \in {"failed", "decode", "panicked"} => now <= start + Span
             /\ pc = "wait"     => now + policy.delay < start + policy.budget
             /\ pc = "sleep"    => now <= until /\ until < start + policy.budget
             /\ pc = "await"    => now < start + policy.budget /\ deadline < start + policy.budget

Spent == Drawn /\ Timed

\* Where a call can be.
Points == {"serve", "round", "request", "provider", "failed", "wait", "await", "sleep", "decode",
           "reply", "done", "panicked"}

\* The numbers the bounds are about.
LEMMA Amounts ==
    ASSUME EvalTypeOK
    PROVE  /\ now \in Nat /\ start \in Nat /\ until \in Nat /\ deadline \in Nat \cup {Never}
           /\ round \in Nat /\ retries \in Nat /\ corrections \in Nat
           /\ round <= corrections /\ retries <= policy.max
           /\ policy.max \in Nat /\ policy.delay \in Nat /\ policy.budget \in Nat \cup {NoBudget}
           /\ PerRound \in Nat /\ (policy.budget # NoBudget => Span \in Nat)
           /\ round * PerRound \in Nat /\ (policy.budget # NoBudget => round * Span \in Nat)
           /\ Len(attempts) \in Nat /\ MaxLatency \in Nat
<1>1. policy \in Policies /\ deadline \in Deadlines /\ start \in Nat /\ until \in Nat
  BY DEF EvalTypeOK
<1>2. /\ policy.max \in Nat /\ policy.delay \in Nat /\ policy.budget \in Nat \cup {NoBudget}
      /\ MaxLatency \in Nat /\ deadline \in Nat \cup {Never}
  BY <1>1, EvalPolicies, EvalLatency, EvalDeadlines DEF Policy
<1>3. /\ now \in Nat /\ Len(attempts) \in Nat /\ corrections \in Nat
      /\ round \in Nat /\ retries \in Nat /\ round <= corrections /\ retries <= policy.max
  BY <1>2, TypeFacts DEF Sizes
<1>4. PerRound \in Nat /\ (policy.budget # NoBudget => Span \in Nat)
  BY <1>2 DEF PerRound, Span
<1>5. round * PerRound \in Nat /\ (policy.budget # NoBudget => round * Span \in Nat)
  BY <1>3, <1>4
<1> QED
  BY <1>1, <1>2, <1>3, <1>4, <1>5

\* One round more.
LEMMA RoundMore == \A r, s \in Nat : (r + 1) * s = r * s + s
OBVIOUS

\* Rounds within the setting cost no more than all it allows.
LEMMA RoundsMonotone == \A r, c, s \in Nat : r <= c => r * s + s <= (c + 1) * s
<1> SUFFICES ASSUME NEW r \in Nat, NEW c \in Nat, NEW s \in Nat, r <= c
             PROVE  r * s + s <= (c + 1) * s
  OBVIOUS
<1>1. PICK e \in Nat : c = r + e
  <2>1. c - r \in Nat /\ c = r + (c - r)
    OBVIOUS
  <2> QED BY <2>1
<1>2. (c + 1) * s = r * s + s + e * s
  BY <1>1
<1>3. e * s \in Nat /\ r * s \in Nat
  OBVIOUS
<1> QED
  BY <1>2, <1>3

\* Nothing is spent by a call that has just come in.
LEMMA SpentInit == Init => Spent
<1> SUFFICES ASSUME Init PROVE Spent
  OBVIOUS
<1>1. Len(attempts) = 0 /\ round = 0 /\ pc = "serve" /\ now = 0
  BY EmptySeq DEF Init
<1>2. PerRound \in Nat /\ (policy.budget # NoBudget => Span \in Nat)
  BY EvalPolicies, EvalLatency DEF Init, Policy, PerRound, Span
<1>3. 0 * PerRound = 0 /\ (policy.budget # NoBudget => 0 * Span = 0)
  BY <1>2
<1> QED
  <2>1. Drawn
    BY <1>1, <1>2, <1>3 DEF Drawn
  <2>2. Timed
    BY <1>1, <1>3 DEF Timed
  <2> QED
    BY <2>1, <2>2 DEF Spent

\* The attempts of a round stay within what the policy draws.
LEMMA DrawnStep == EInv /\ Drawn /\ [Next]_vars => Drawn'
<1> SUFFICES ASSUME EInv, Drawn, [Next]_vars PROVE Drawn'
  OBVIOUS
<1> USE DEF world, config, loop, report, log
<1>0. EvalTypeOK
  BY DEF EInv
<1>1. UNCHANGED policy /\ PerRound' = PerRound
  BY DEF Next, Tick, CtxEnds, ProviderEnds, CallSteps, Returns, PanicsInModel, PanicsInDo, Refused,
         Accepted, RoundCtxDone, RoundStarts, Request, FailedCtx, GivesUp, RetryDecided, WaitBegins,
         AwaitEnds, SleepCtx, SleepEnds, Matches, Malformed, Corrects, Reply, RoundFails, vars, PerRound
<1>2. /\ round \in Nat /\ retries \in Nat /\ retries <= policy.max /\ policy.max \in Nat
      /\ PerRound \in Nat /\ Len(attempts) \in Nat
  BY <1>0, Amounts
<1>3. /\ pc = "sleep" => retries < policy.max
      /\ PerRound = policy.max + 1
  BY DEF EInv, Accounts, Tallied, PerRound
<1>4. PICK B \in Nat : B = round * PerRound
  BY <1>0, Amounts
<1> DEFINE L == Len(attempts)
<1> HIDE DEF L
<1>d. /\ pc \in {"serve", "round"}      => L <= B
      /\ pc \in {"request", "provider"} => L <= B + retries
      /\ pc \in {"failed", "decode", "wait", "await", "sleep"} => L <= B + retries + 1
      /\ L <= B + PerRound
  BY <1>4 DEF Drawn, L
<1>s. ASSUME NEW C \in Nat, C = round' * PerRound,
             /\ pc' \in {"serve", "round"}      => Len(attempts') <= C
             /\ pc' \in {"request", "provider"} => Len(attempts') <= C + retries'
             /\ pc' \in {"failed", "decode", "wait", "await", "sleep"} => Len(attempts') <= C + retries' + 1
             /\ Len(attempts') <= C + PerRound
      PROVE  Drawn'
  BY <1>1, <1>s DEF Drawn
<1>5. ASSUME UNCHANGED <<attempts, round, retries>>,
             \/ pc' \in {"reply", "done", "panicked"}
             \/ pc' = pc
             \/ pc \in {"serve", "round"} /\ pc' \in {"round", "request", "provider"}
             \/ pc \in {"request", "provider"} /\ pc' \in {"request", "provider"}
             \/ pc \in {"failed", "wait"} /\ pc' \in {"wait", "await", "sleep"}
      PROVE  Drawn'
  <2>1. B = round' * PerRound /\ retries' = retries /\ Len(attempts') = L /\ L \in Nat
    BY <1>2, <1>4, <1>5 DEF L
  <2> QED
    BY <1>2, <1>5, <1>d, <1>s, <2>1
<1>6. ASSUME NEW o \in Outcomes, Returns(o) PROVE Drawn'
  <2> DEFINE S == [messages : Nat, got : Outcomes, class : Failures \cup {""}]
             a == [messages |-> messages, got |-> o, class |-> ErrorClass(o)]
  <2>1. a \in S
    <3>1. ErrorClass(o) \in Failures \cup {""}
      BY DEF ErrorClass, Outcomes, Failures
    <3> QED
      BY <1>0, <3>1 DEF EvalTypeOK
  <2>2. attempts \in Seq(S) /\ attempts' = Append(attempts, a)
    BY <1>0, <1>6 DEF EvalTypeOK, Returns
  <2> HIDE DEF S, a
  <2>3. Len(attempts') = Len(attempts) + 1
    BY <2>1, <2>2, AppendProperties
  <2>4. L \in Nat /\ Len(attempts') = L + 1
    BY <1>2, <2>3 DEF L
  <2>5. /\ pc = "provider" /\ pc' \in {"decode", "failed"} /\ retries' = retries
    BY <1>6 DEF Returns
  <2>6. B = round' * PerRound
    BY <1>4, <1>6 DEF Returns
  <2>7. /\ pc' \in {"serve", "round"}      => Len(attempts') <= B
        /\ pc' \in {"request", "provider"} => Len(attempts') <= B + retries'
        /\ pc' \in {"failed", "decode", "wait", "await", "sleep"} => Len(attempts') <= B + retries' + 1
        /\ Len(attempts') <= B + PerRound
    BY <1>2, <1>3, <1>d, <2>4, <2>5
  <2> QED
    BY <1>s, <2>6, <2>7
<1>7. CASE SleepEnds
  <2>1. L \in Nat /\ Len(attempts') = L /\ B = round' * PerRound
    BY <1>2, <1>4, <1>7 DEF L, SleepEnds
  <2>2. pc = "sleep" /\ pc' = "request" /\ retries' = retries + 1
    BY <1>7 DEF SleepEnds
  <2> QED
    BY <1>2, <1>3, <1>d, <1>s, <2>1, <2>2
<1>8. CASE Corrects
  <2>1. (round + 1) * PerRound = round * PerRound + PerRound
    BY <1>2, RoundMore
  <2>2. pc' = "round" /\ round' = round + 1 /\ attempts' = attempts
    BY <1>8 DEF Corrects
  <2>3. B + PerRound = round' * PerRound /\ B + PerRound \in Nat
    BY <1>2, <1>4, <2>1, <2>2
  <2>4. L \in Nat /\ Len(attempts') = L
    BY <1>2, <2>2 DEF L
  <2> QED
    BY <1>2, <1>d, <1>s, <2>2, <2>3, <2>4
<1>9. CASE Tick \/ CtxEnds("expired") \/ CtxEnds("canceled") \/ UNCHANGED vars
  BY <1>5, <1>9 DEF Tick, CtxEnds, vars
<1>10. CASE PanicsInDo \/ \E o \in Outcomes : PanicsInModel(o)
  BY <1>5, <1>10 DEF PanicsInDo, PanicsInModel
<1>11. CASE Refused \/ Accepted \/ RoundStarts \/ Request \/ RetryDecided \/ WaitBegins
            \/ Matches \/ Malformed \/ Reply
  BY <1>5, <1>11 DEF Refused, Accepted, RoundStarts, Request, RetryDecided, WaitBegins, Matches,
                     Malformed, Reply
<1>12. CASE RoundCtxDone \/ FailedCtx \/ GivesUp \/ AwaitEnds \/ SleepCtx
  BY <1>5, <1>12 DEF RoundCtxDone, FailedCtx, GivesUp, AwaitEnds, SleepCtx, RoundFails
<1> QED
  BY <1>6, <1>7, <1>8, <1>9, <1>10, <1>11, <1>12 DEF Next, ProviderEnds, CallSteps

\* The rounds take no longer than their budget and a provider request.
LEMMA TimedStep == EInv /\ Timed /\ [Next]_vars => Timed'
<1> SUFFICES ASSUME EInv, Timed, [Next]_vars PROVE Timed'
  OBVIOUS
<1> USE DEF world, config, loop, report, log
<1>0. EvalTypeOK
  BY DEF EInv
<1>1. UNCHANGED policy /\ Span' = Span
  BY DEF Next, Tick, CtxEnds, ProviderEnds, CallSteps, Returns, PanicsInModel, PanicsInDo, Refused,
         Accepted, RoundCtxDone, RoundStarts, Request, FailedCtx, GivesUp, RetryDecided, WaitBegins,
         AwaitEnds, SleepCtx, SleepEnds, Matches, Malformed, Corrects, Reply, RoundFails, vars, Span
<1> SUFFICES ASSUME policy.budget # NoBudget PROVE Timed'
  BY <1>1 DEF Timed
<1>2. /\ now \in Nat /\ start \in Nat /\ until \in Nat /\ deadline \in Nat \cup {Never}
      /\ policy.delay \in Nat /\ policy.budget \in Nat /\ MaxLatency \in Nat
  BY <1>0, Amounts
<1>3. Span \in Nat /\ Span = policy.budget + MaxLatency
  BY <1>2 DEF Span
<1>4. PICK B \in Nat : B = round * Span
  BY <1>0, Amounts
<1> DEFINE Within(b, t, s, u, at) ==
             /\ at \in {"serve", "round"} => t <= b
             /\ at \in {"reply", "done"}  => t <= b + Span
             /\ at \notin {"serve", "round", "reply", "done"} => s <= b
             /\ at = "request"  => t <= s + policy.budget
             /\ at = "provider" => u <= s + policy.budget /\ t <= u + MaxLatency
             /\ at \in {"failed", "decode", "panicked"} => t <= s + Span
             /\ at = "wait"     => t + policy.delay < s + policy.budget
             /\ at = "sleep"    => t <= u /\ u < s + policy.budget
             /\ at = "await"    => t < s + policy.budget /\ deadline < s + policy.budget
<1>5. Within(B, now, start, until, pc)
  BY <1>4 DEF Timed
<1>6. ASSUME NEW C \in Nat, C = round' * Span, UNCHANGED deadline,
             Within(C, now', start', until', pc')
      PROVE  Timed'
  BY <1>1, <1>6 DEF Timed
<1>7. now <= B + Span
  <2>1. pc \in Points
    BY <1>0 DEF EvalTypeOK, Points
  <2> QED
    BY <1>2, <1>3, <1>5, <2>1 DEF Points
<1>8. ASSUME UNCHANGED <<deadline, round>>, Within(B, now', start', until', pc') PROVE Timed'
  BY <1>4, <1>6, <1>8
<1>9. CASE Corrects
  <2>1. /\ round \in Nat /\ round' = round + 1
        /\ UNCHANGED <<now, deadline>> /\ pc' = "round"
    BY <1>0, <1>9, Amounts DEF Corrects
  <2>2. B + Span = round' * Span /\ B + Span \in Nat
    BY <1>3, <1>4, <2>1, RoundMore
  <2>3. Within(B + Span, now', start', until', pc')
    BY <1>7, <2>1
  <2> HIDE DEF Within
  <2> QED
    BY <1>6, <2>1, <2>2, <2>3
<1>10. ASSUME NEW e, RoundFails(e) PROVE Timed'
  BY <1>7, <1>8, <1>10 DEF RoundFails
<1>11. CASE RoundCtxDone \/ FailedCtx \/ GivesUp \/ AwaitEnds \/ SleepCtx
  BY <1>10, <1>11 DEF RoundCtxDone, FailedCtx, GivesUp, AwaitEnds, SleepCtx
<1>12. CASE Tick
  <2>1. UNCHANGED <<deadline, round, start, until, pc>> /\ now' = now + 1
    BY <1>12 DEF Tick
  <2>2. \/ pc = "provider" /\ now < until + MaxLatency
        \/ pc = "sleep" /\ now < until
        \/ pc = "await" /\ now < deadline
    BY <1>12 DEF Tick
  <2>3. deadline # Never => deadline \in Nat
    BY <1>2
  <2>4. Within(B, now', start', until', pc')
    BY <1>2, <1>5, <2>1, <2>2 DEF Never
  <2> QED
    BY <1>8, <2>1, <2>4
<1>13. CASE RetryDecided
  <2>1. now + policy.delay < start + policy.budget
    BY <1>2, <1>13 DEF RetryDecided, MayRetry, BudgetAllows
  <2>2. Within(B, now', start', until', pc')
    BY <1>5, <1>13, <2>1 DEF RetryDecided
  <2> QED
    BY <1>8, <1>13, <2>2 DEF RetryDecided
<1>14. CASE WaitBegins
  <2>1. /\ pc = "wait" /\ until' = now + policy.delay /\ UNCHANGED <<now, deadline, round, start>>
        /\ pc' = IF DeadlineFirst THEN "await" ELSE "sleep"
    BY <1>14 DEF WaitBegins
  <2>2. now + policy.delay < start + policy.budget /\ start <= B
    BY <1>5, <2>1
  <2>3. DeadlineFirst => deadline < start + policy.budget
    BY <1>2, <2>2 DEF DeadlineFirst, Never
  <2>4. Within(B, now', start', until', pc')
    BY <1>2, <2>1, <2>2, <2>3
  <2> QED
    BY <1>8, <2>1, <2>4
<1>15. CASE SleepEnds
  <2>1. Within(B, now', start', until', pc')
    BY <1>2, <1>5, <1>15 DEF SleepEnds
  <2> QED
    BY <1>8, <1>15, <2>1 DEF SleepEnds
<1>16. CASE Request
  <2>1. Within(B, now', start', until', pc')
    BY <1>2, <1>5, <1>16 DEF Request
  <2> QED
    BY <1>8, <1>16, <2>1 DEF Request
<1>17. CASE RoundStarts
  <2>1. Within(B, now', start', until', pc')
    BY <1>2, <1>5, <1>17 DEF RoundStarts
  <2> QED
    BY <1>8, <1>17, <2>1 DEF RoundStarts
<1>18. CASE PanicsInDo \/ \E o \in Outcomes : Returns(o) \/ PanicsInModel(o)
  <2>1. /\ pc = "provider" /\ pc' \in {"panicked", "decode", "failed"}
        /\ UNCHANGED <<now, deadline, round, start, until>>
    BY <1>18 DEF PanicsInDo, PanicsInModel, Returns
  <2>2. Within(B, now', start', until', pc')
    BY <1>2, <1>3, <1>5, <2>1
  <2> QED
    BY <1>8, <2>1, <2>2
<1>19. CASE Refused \/ Accepted \/ Matches \/ Malformed \/ Reply
  <2>1. /\ UNCHANGED <<now, deadline, round, start, until>>
        /\ \/ pc' \in {"reply", "done"}
           \/ pc = "serve" /\ pc' = "round"
    BY <1>19 DEF Refused, Accepted, Matches, Malformed, Reply
  <2>2. Within(B, now', start', until', pc')
    BY <1>5, <1>7, <2>1
  <2> QED
    BY <1>8, <2>1, <2>2
<1>20. CASE CtxEnds("expired") \/ CtxEnds("canceled") \/ UNCHANGED vars
  <2>1. UNCHANGED <<now, deadline, round, start, until, pc>>
    BY <1>20 DEF CtxEnds, vars
  <2> QED
    BY <1>5, <1>8, <2>1
<1> QED
  BY <1>9, <1>11, <1>12, <1>13, <1>14, <1>15, <1>16, <1>17, <1>18, <1>19, <1>20
  DEF Next, ProviderEnds, CallSteps

\* What is spent holds of every behaviour.
LEMMA SpentAlways == Spec => []Spent
<1>1. EInv /\ Spent /\ [Next]_vars => Spent'
  BY DrawnStep, TimedStep DEF Spent
<1> QED
  BY <1>1, SpentInit, EInvAlways, PTL DEF Spec

\* Retries and corrective rounds multiply, and no more: a call never makes more
\* provider requests than a round may make in each round there may be.
THEOREM EvaluateBoundedRequests == Spec => []BoundedRequests
<1>1. EInv /\ Spent => BoundedRequests
  <2> SUFFICES ASSUME EInv, Spent PROVE BoundedRequests
    OBVIOUS
  <2>1. EvalTypeOK
    BY DEF EInv
  <2>2. /\ round \in Nat /\ corrections \in Nat /\ round <= corrections /\ PerRound \in Nat
        /\ Len(attempts) \in Nat /\ round * PerRound \in Nat
    BY <2>1, Amounts
  <2>3. Len(attempts) <= round * PerRound + PerRound
    BY DEF Spent, Drawn
  <2>4. round * PerRound + PerRound <= (corrections + 1) * PerRound
    BY <2>2, RoundsMonotone
  <2>5. (corrections + 1) * PerRound \in Nat
    BY <2>2
  <2>6. Len(attempts) <= (corrections + 1) * PerRound
    BY <2>2, <2>3, <2>4, <2>5
  <2> QED
    BY <2>6 DEF BoundedRequests, PerRound
<1> QED
  BY <1>1, EInvAlways, SpentAlways, PTL

\* The retry budget bounds each corrective round: with it, a call takes at most
\* the budget and one provider request for each round there may be.
THEOREM EvaluateWithinBudget == Spec => []RoundsWithinBudget
<1>1. EInv /\ Spent => RoundsWithinBudget
  <2> SUFFICES ASSUME EInv, Spent, policy.budget # NoBudget
               PROVE  now <= (corrections + 1) * (policy.budget + MaxLatency)
    BY DEF RoundsWithinBudget
  <2>1. EvalTypeOK
    BY DEF EInv
  <2>2. /\ round \in Nat /\ corrections \in Nat /\ round <= corrections /\ Span \in Nat
        /\ now \in Nat /\ start \in Nat /\ until \in Nat /\ round * Span \in Nat
    BY <2>1, Amounts
  <2>3. policy.budget \in Nat /\ policy.delay \in Nat /\ MaxLatency \in Nat /\ Span = policy.budget + MaxLatency
    BY <2>1, Amounts DEF Span
  <2>4. PICK B \in Nat : B = round * Span
    BY <2>2
  <2>5. now <= B + Span
    <3>1. pc \in Points
      BY <2>1 DEF EvalTypeOK, Points
    <3> QED
      BY <2>2, <2>3, <2>4, <3>1 DEF Spent, Timed, Points
  <2>6. B + Span <= (corrections + 1) * Span
    BY <2>2, <2>4, RoundsMonotone
  <2>7. (corrections + 1) * Span \in Nat
    BY <2>2
  <2>8. now <= (corrections + 1) * Span
    BY <2>2, <2>5, <2>6, <2>7
  <2> QED
    BY <2>3, <2>8
<1> QED
  BY <1>1, EInvAlways, SpentAlways, PTL
=============================================================================
