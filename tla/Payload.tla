------------------------------- MODULE Payload -------------------------------
(***************************************************************************)
(* A response written as JSON and read back: the payload writer            *)
(* (internal/wire/payload.go) behind the MarshalJSON of a response, and    *)
(* its UnmarshalJSON (response.go), which decodes the payload as the body  *)
(* of a response is decoded, by the pooled decoder the call itself used.   *)
(***************************************************************************)
EXTENDS DecodeReference

VARIABLE resp       \* the response a call returned to its caller, or NoResponse

pvars == <<body, toks, phase, at, v, raws, out, resp>>

NoResponse == [mode |-> "none", r |-> NoResult]

\* A float as appendFloat spells it: an integral one has a fraction.
WrittenFloat(f) == Num(CASE f = "0" -> "0.0" [] f = "1" -> "1.0" [] f = "2" -> "2.0" [] OTHER -> f)

\* A count the response left out is null.
WrittenCountZero(n) == Num(IF n = "absent" THEN "0" ELSE n)
WrittenCount(n) == IF n = "absent" THEN Null ELSE Num(n)

\* Labels are strings, levels decimal member names.
WrittenProbabilities(ps) == Obj([i \in DOMAIN ps |-> Mem(ps[i].id, WrittenFloat(ps[i].val))])

\* A text level is a string; a structured one is the bytes it arrived as.
WrittenLegend(ls) == Obj([i \in DOMAIN ls |-> Mem(ls[i].id, ls[i].val)])

\* The members of an answer in the order of the Python SDK's models.
WrittenAnswer(kind, a) ==
    Obj(<<Mem("type", Str(kind))>> \o
        CASE kind = "noul"   -> <<Mem("noul", WrittenFloat(a.noul))>>
          [] kind = "choice" -> <<Mem("choice", Str(a.choice)),
                                  Mem("confidence", WrittenFloat(a.confidence)),
                                  Mem("probabilities", WrittenProbabilities(a.probabilities))>>
          [] kind = "score"  -> <<Mem("score", WrittenFloat(a.score)),
                                  Mem("confidence", WrittenFloat(a.confidence)),
                                  Mem("legend", WrittenLegend(a.legend)),
                                  Mem("probabilities", WrittenProbabilities(a.probabilities))>>)

WrittenAnswers(as) == Obj([i \in DOMAIN as |-> Mem(as[i].name, WrittenAnswer(as[i].kind, as[i].ans))])

WrittenSystemOne(r) ==
    Obj(<<Mem("model", Str(r.model)),
          Mem("usage", Obj(<<Mem("input_tokens", WrittenCount(r.input)),
                             Mem("output_tokens", WrittenCount(r.output))>>)),
          Mem("answers", WrittenAnswers(r.answers))>>)

WrittenModels(r) ==
    Obj(<<Mem("models", Arr([i \in DOMAIN r.cards |->
            Obj([n \in DOMAIN CardSchema |->
                    Mem(CardSchema[n], Str(r.cards[i][CardSchema[n]]))])]))>>)

\* What MarshalJSON returns for the response.
MarshalJSON(p) == IF p.mode = "models" THEN WrittenModels(p.r) ELSE WrittenSystemOne(p.r)

-----------------------------------------------------------------------------
\* A body arrives for a call.
ReceiveBody == resp = NoResponse /\ Get /\ UNCHANGED resp

\* The caller's response goes through JSON and is read back.
UnmarshalJSON ==
    /\ phase = "idle" /\ resp # NoResponse
    /\ Decode(Body(resp.mode, MarshalJSON(resp), "clean"))
    /\ UNCHANGED resp

\* The decode returns: a call that succeeded hands its caller a response; the
\* one that was read back is the caller's no more.
ReturnDecoded ==
    /\ Release
    /\ resp' = IF resp = NoResponse /\ out.ok THEN [mode |-> body.mode, r |-> out] ELSE NoResponse

PayloadInit == Init /\ resp = NoResponse

PayloadNext == ReceiveBody \/ UnmarshalJSON \/ (Work /\ UNCHANGED resp) \/ ReturnDecoded

PayloadSpec == PayloadInit /\ [][PayloadNext]_pvars

-----------------------------------------------------------------------------
(* Properties.                                                             *)

\* UnmarshalJSON reads back what MarshalJSON wrote: every answer in its place
\* with its values, absent counts absent, structured levels with the bytes
\* they arrived as however deep they are; only the answers of unknown types,
\* which the response does not hold, are gone from the log.
WritesBack ==
    (phase = "done" /\ resp # NoResponse) =>
        out = [resp.r EXCEPT !.named = <<>>, !.skipped = 0]
=============================================================================
