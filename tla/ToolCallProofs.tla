--------------------------- MODULE ToolCallProofs ---------------------------
(***************************************************************************)
(* For any number of calls, even an unbounded supply of them, and any cap  *)
(* on the pending events: the tool-call pipeline keeps its types and emits *)
(* at most one audit line per call, the right one.                         *)
(***************************************************************************)
EXTENDS ToolCall, TLAPS, FiniteSetTheorems, SequenceTheorems

(* The audit lines of a call that has emitted one.                         *)
Line(x) == <<x>>

(* The line says what the caller was told, unless an exception after it    *)
(* made that an internal error.                                            *)
LineOfAnswer(c) ==
  \/ lines[c] = Line(call[c].answer)
  \/ call[c].answer = "internal_error" /\ \E x \in UpstreamsLines : lines[c] = Line(x)

(* What the audit lines of a call can be at each place of the pipeline.    *)
LinesFit(c) ==
  /\ call[c].pc \in {"idle", "limiter", "upstream"} =>
       lines[c] = <<>> /\ call[c].answer = "ok"
  /\ call[c].pc \in {"idle", "limiter"} => c \notin arrived /\ event[c] = "none"
  /\ call[c].pc = "pictures" => lines[c] = Line("ok") /\ call[c].answer = "ok"
  /\ call[c].pc = "answered" => LineOfAnswer(c)
  /\ call[c].pc = "cancelled" => lines[c] \in {<<>>, Line("ok")} /\ call[c].answer = "ok"
  /\ lines[c] = Line("ok") => c \in arrived \/ call[c].local
  /\ lines[c] = Line("upstream_error") => c \in arrived
  /\ lines[c] \in {Line("rate_limited"), Line("invalid_arguments")} => c \notin arrived
  /\ lines[c] = Line("rate_limited") => event[c] = "none"

(* Calls may be infinite: it is the pending events that are few.           *)
PendingFew == IsFiniteSet(Pending) /\ Cardinality(Pending) <= MaxPending

AuditInv == TypeOK /\ PendingFew /\ \A c \in Calls : LinesFit(c)

----------------------------------------------------------------------------
(* How the pieces of an action change the variables they speak of.         *)
LEMMA AnswerEffect ==
  ASSUME TypeOK, NEW c \in Calls, NEW x \in Outcomes, Answer(c, x)
  PROVE  /\ call' \in [Calls -> Call]
         /\ call'[c].pc = "answered" /\ call'[c].answer = x
         /\ call'[c].local = call[c].local
         /\ \A d \in Calls \ {c} : call'[d] = call[d]
BY DEF TypeOK, Answer, Call

LEMMA GoesEffect ==
  ASSUME TypeOK, NEW c \in Calls, NEW pc \in {"limiter", "upstream", "pictures"}, Goes(c, pc)
  PROVE  /\ call' \in [Calls -> Call]
         /\ call'[c].pc = pc /\ call'[c].answer = call[c].answer
         /\ call'[c].local = call[c].local
         /\ \A d \in Calls \ {c} : call'[d] = call[d]
BY DEF TypeOK, Goes, Call

(* One line is not none, and says one thing.                               *)
LEMMA FirstLine ==
  ASSUME NEW x \in Outcomes
  PROVE  /\ Append(<<>>, x) = Line(x) /\ Line(x) \in Seq(Outcomes) /\ Line(x) # <<>>
         /\ Len(Line(x)) = 1
         /\ \A y \in Outcomes : Line(x) = Line(y) => x = y
BY DEF Line

LEMMA EmitEffect ==
  ASSUME TypeOK, NEW c \in Calls, NEW x \in Outcomes, lines[c] = <<>>, Emit(c, x)
  PROVE  /\ lines' \in [Calls -> Seq(Outcomes)]
         /\ lines'[c] = Line(x)
         /\ \A d \in Calls \ {c} : lines'[d] = lines[d]
<1>1. lines' = [lines EXCEPT ![c] = Line(x)]
  BY FirstLine DEF Emit
<1>2. Line(x) \in Seq(Outcomes)
  BY FirstLine
<1>. QED BY <1>1, <1>2 DEF TypeOK

LEMMA CatchAllEffect ==
  ASSUME TypeOK, NEW c \in Calls, CatchAll(c)
  PROVE  /\ call' \in [Calls -> Call]
         /\ call'[c].pc = "answered" /\ call'[c].answer = "internal_error"
         /\ call'[c].local = call[c].local
         /\ lines' \in [Calls -> Seq(Outcomes)]
         /\ lines'[c] = IF lines[c] = <<>> THEN Line("internal_error") ELSE lines[c]
         /\ \A d \in Calls \ {c} : call'[d] = call[d] /\ lines'[d] = lines[d]
<1>1. "internal_error" \in Outcomes
  BY DEF Outcomes, Errors
<1>2. Line("internal_error") \in Seq(Outcomes)
  BY <1>1, FirstLine
<1>3. lines' = [lines EXCEPT ![c] = IF @ = <<>> THEN Line("internal_error") ELSE @]
  BY DEF CatchAll, Line
<1>4. Answer(c, "internal_error")
  BY DEF CatchAll
<1>5. lines \in [Calls -> Seq(Outcomes)]
  BY DEF TypeOK
<1>. QED BY <1>1, <1>2, <1>3, <1>4, <1>5, AnswerEffect

(* An event that ends leaves no more of them pending.                      *)
LEMMA PendingShrinks ==
  ASSUME PendingFew, Pending' \subseteq Pending
  PROVE  PendingFew'
<1>1. IsFiniteSet(Pending) /\ Cardinality(Pending) <= MaxPending
  BY DEF PendingFew
<1>2. Pending' \in SUBSET Pending
  OBVIOUS
<1>. HIDE DEF Pending
<1>3. IsFiniteSet(Pending') /\ Cardinality(Pending') <= Cardinality(Pending)
  BY <1>1, <1>2, FS_Subset
<1>4. Cardinality(Pending) \in Nat /\ Cardinality(Pending') \in Nat
  BY <1>1, <1>3, FS_CardinalityType
<1>. QED BY <1>1, <1>3, <1>4, ToolCallAssumption DEF PendingFew

(* A tracked call adds one pending event, and only below the cap.          *)
LEMMA TrackEffect ==
  ASSUME TypeOK, PendingFew, NEW c \in Calls, Track(c)
  PROVE  /\ event' \in [Calls -> {"none", "pending", "sent", "lost"}]
         /\ PendingFew'
         /\ \A d \in Calls \ {c} : event'[d] = event[d]
<1>0. MaxPending \in Nat
  BY ToolCallAssumption
<1>1. /\ event \in [Calls -> {"none", "pending", "sent", "lost"}]
      /\ event' = [event EXCEPT ![c] =
                     IF ~call[c].identified THEN @
                     ELSE IF Cardinality(Pending) < MaxPending THEN "pending" ELSE "lost"]
  BY DEF TypeOK, Track
<1>2. /\ event' \in [Calls -> {"none", "pending", "sent", "lost"}]
      /\ \A d \in Calls \ {c} : event'[d] = event[d]
  BY <1>1
<1>3. CASE Cardinality(Pending) < MaxPending
  <2>1. Pending' \subseteq Pending \cup {c}
    BY <1>2 DEF Pending
  <2>2. IsFiniteSet(Pending) /\ Cardinality(Pending) \in Nat
    BY FS_CardinalityType DEF PendingFew
  <2>. HIDE DEF Pending
  <2>3. /\ IsFiniteSet(Pending \cup {c})
        /\ Cardinality(Pending \cup {c}) =
             IF c \in Pending THEN Cardinality(Pending) ELSE Cardinality(Pending) + 1
    BY <2>2, FS_AddElement
  <2>4. Cardinality(Pending \cup {c}) \in Nat /\ Cardinality(Pending \cup {c}) <= MaxPending
    BY <1>0, <1>3, <2>2, <2>3
  <2>5. Pending' \in SUBSET (Pending \cup {c})
    BY <2>1
  <2>6. IsFiniteSet(Pending') /\ Cardinality(Pending') <= Cardinality(Pending \cup {c})
    BY <2>3, <2>5, FS_Subset
  <2>7. Cardinality(Pending') \in Nat
    BY <2>6, FS_CardinalityType
  <2>. QED BY <1>0, <1>2, <2>4, <2>6, <2>7 DEF PendingFew
<1>4. CASE ~(Cardinality(Pending) < MaxPending)
  <2>1. event' = [event EXCEPT ![c] = IF ~call[c].identified THEN @ ELSE "lost"]
    BY <1>1, <1>4
  <2>2. Pending' \subseteq Pending
    BY <1>1, <2>1 DEF Pending
  <2>. QED BY <1>0, <1>2, <2>2, PendingShrinks
<1>. QED BY <1>3, <1>4

(* A step of one call leaves every other call's lines fitting.             *)
LEMMA OneCallSteps ==
  ASSUME AuditInv, NEW c \in Calls,
         \A d \in Calls \ {c} : call'[d] = call[d] /\ lines'[d] = lines[d] /\ event'[d] = event[d],
         call' \in [Calls -> Call], lines' \in [Calls -> Seq(Outcomes)],
         event' \in [Calls -> {"none", "pending", "sent", "lost"}],
         arrived' \in {arrived, arrived \cup {c}}, UNCHANGED server,
         PendingFew', LinesFit(c)'
  PROVE  AuditInv'
<1>1. ASSUME NEW d \in Calls, d # c PROVE LinesFit(d)'
  <2>1. /\ call'[d] = call[d] /\ lines'[d] = lines[d]
        /\ event'[d] = event[d] /\ (d \in arrived' <=> d \in arrived)
    BY <1>1
  <2>2. LinesFit(d)
    BY DEF AuditInv
  <2>. QED BY <2>1, <2>2 DEF LinesFit, LineOfAnswer
<1>2. TypeOK'
  BY DEF AuditInv, TypeOK, PendingFew, Pending, server
<1>. QED BY <1>1, <1>2 DEF AuditInv

LEMMA InitAuditInv == Init => AuditInv
<1>. SUFFICES ASSUME Init PROVE AuditInv
  OBVIOUS
<1>1. Pending = {}
  BY DEF Init, Pending
<1>2. PendingFew
  BY <1>1, FS_EmptySet, ToolCallAssumption DEF PendingFew
<1>3. TypeOK
  <2>1. call \in [Calls -> Call]
    BY DEF Init
  <2>2. lines \in [Calls -> Seq(Outcomes)]
    BY DEF Init
  <2>3. phase \in {Phases[n] : n \in DOMAIN Phases}
    BY DEF Init, Phases
  <2>. QED BY <1>2, <2>1, <2>2, <2>3 DEF Init, TypeOK, PendingFew, Pending
<1>4. ASSUME NEW c \in Calls PROVE LinesFit(c)
  <2>1. call[c].pc = "idle" /\ call[c].answer = "ok"
    BY DEF Init
  <2>2. lines[c] = <<>> /\ event[c] = "none" /\ arrived = {}
    BY DEF Init
  <2>3. \A x \in {"ok", "rate_limited", "invalid_arguments", "upstream_error"} : Line(x) # <<>>
    BY FirstLine DEF Outcomes, Errors
  <2>. QED BY <2>1, <2>2, <2>3 DEF LinesFit
<1>. QED BY <1>2, <1>3, <1>4 DEF AuditInv

----------------------------------------------------------------------------
(* From admission to the answer, one step per action of a call.            *)
LEMMA CallAuditInv ==
  ASSUME AuditInv, NEW c \in Calls, Receive(c) \/ Handle(c)
  PROVE  AuditInv'
<1>1. /\ TypeOK /\ PendingFew /\ LinesFit(c)
      /\ call \in [Calls -> Call] /\ lines \in [Calls -> Seq(Outcomes)]
      /\ event \in [Calls -> {"none", "pending", "sent", "lost"}]
      /\ arrived \in SUBSET Calls
  BY DEF AuditInv, TypeOK
<1>2. ASSUME UNCHANGED event PROVE PendingFew'
  BY <1>1, <1>2 DEF PendingFew, Pending
<1>3. /\ {"ok", "rate_limited", "invalid_arguments", "upstream_unreachable",
          "upstream_error", "internal_error"} \subseteq Outcomes
      /\ \A x \in Outcomes : Line(x) # <<>>
      /\ \A x, y \in Outcomes : Line(x) = Line(y) => x = y
  BY FirstLine DEF Outcomes, Errors
<1>4. CASE Receive(c)
  <2>1. Goes(c, "limiter") /\ call[c].pc = "idle" /\ UNCHANGED <<lines, event, arrived, server>>
    BY <1>4 DEF Receive
  <2>2. lines[c] = <<>> /\ call[c].answer = "ok"
    BY <1>1, <2>1 DEF LinesFit, LineOfAnswer, UpstreamsLines
  <2>3. /\ call' \in [Calls -> Call] /\ lines' \in [Calls -> Seq(Outcomes)]
        /\ event' \in [Calls -> {"none", "pending", "sent", "lost"}] /\ PendingFew'
        /\ \A d \in Calls \ {c} : call'[d] = call[d] /\ lines'[d] = lines[d] /\ event'[d] = event[d]
    BY <1>1, <1>2, <2>1, <2>2, GoesEffect
  <2>4. LinesFit(c)'
    BY <1>1, <2>1, <2>2, <1>3, GoesEffect DEF LinesFit, LineOfAnswer, UpstreamsLines
  <2>. QED BY <1>1, <2>1, <2>3, <2>4, OneCallSteps
<1>5. CASE Refuse(c)
  <2>1. /\ call[c].pc = "limiter" /\ Emit(c, "rate_limited") /\ Answer(c, "rate_limited")
        /\ UNCHANGED <<event, arrived, server>>
    BY <1>5 DEF Refuse, EmitAndAnswer
  <2>2. lines[c] = <<>> /\ call[c].answer = "ok"
    BY <1>1, <2>1 DEF LinesFit, LineOfAnswer, UpstreamsLines
  <2>3. /\ call' \in [Calls -> Call] /\ lines' \in [Calls -> Seq(Outcomes)]
        /\ event' \in [Calls -> {"none", "pending", "sent", "lost"}] /\ PendingFew'
        /\ \A d \in Calls \ {c} : call'[d] = call[d] /\ lines'[d] = lines[d] /\ event'[d] = event[d]
    BY <1>1, <1>2, <2>1, <2>2, <1>3, AnswerEffect, EmitEffect
  <2>4. LinesFit(c)'
    BY <1>1, <2>1, <2>2, <1>3, AnswerEffect, EmitEffect DEF LinesFit, LineOfAnswer, UpstreamsLines
  <2>. QED BY <1>1, <2>1, <2>3, <2>4, OneCallSteps
<1>6. CASE LimiterRaises(c)
  <2>1. /\ call[c].pc = "limiter" /\ CatchAll(c) /\ UNCHANGED <<event, arrived, server>>
    BY <1>6 DEF LimiterRaises
  <2>2. lines[c] = <<>> /\ call[c].answer = "ok"
    BY <1>1, <2>1 DEF LinesFit, LineOfAnswer, UpstreamsLines
  <2>3. /\ call' \in [Calls -> Call] /\ lines' \in [Calls -> Seq(Outcomes)]
        /\ event' \in [Calls -> {"none", "pending", "sent", "lost"}] /\ PendingFew'
        /\ \A d \in Calls \ {c} : call'[d] = call[d] /\ lines'[d] = lines[d] /\ event'[d] = event[d]
    BY <1>1, <1>2, <2>1, <2>2, CatchAllEffect
  <2>4. LinesFit(c)'
    <3>1. /\ call'[c].pc = "answered" /\ call'[c].answer = "internal_error"
          /\ lines'[c] = Line("internal_error")
      BY <1>1, <2>1, <2>2, CatchAllEffect
    <3>. QED BY <1>3, <3>1 DEF LinesFit, LineOfAnswer, UpstreamsLines
  <2>. QED BY <1>1, <2>1, <2>3, <2>4, OneCallSteps
<1>7. CASE AdmitInvalid(c)
  <2>1. /\ call[c].pc = "limiter" /\ Track(c)
        /\ Emit(c, "invalid_arguments") /\ Answer(c, "invalid_arguments")
        /\ UNCHANGED <<arrived, server>>
    BY <1>7 DEF AdmitInvalid, EmitAndAnswer
  <2>2. lines[c] = <<>> /\ call[c].answer = "ok"
    BY <1>1, <2>1 DEF LinesFit, LineOfAnswer, UpstreamsLines
  <2>3. /\ call' \in [Calls -> Call] /\ lines' \in [Calls -> Seq(Outcomes)]
        /\ event' \in [Calls -> {"none", "pending", "sent", "lost"}] /\ PendingFew'
        /\ \A d \in Calls \ {c} : call'[d] = call[d] /\ lines'[d] = lines[d] /\ event'[d] = event[d]
    BY <1>1, <2>1, <2>2, <1>3, AnswerEffect, EmitEffect, TrackEffect
  <2>4. LinesFit(c)'
    BY <1>1, <2>1, <2>2, <1>3, AnswerEffect, EmitEffect, TrackEffect DEF LinesFit, LineOfAnswer, UpstreamsLines
  <2>. QED BY <1>1, <2>1, <2>3, <2>4, OneCallSteps
<1>8. CASE AdmitRaises(c)
  <2>1. /\ call[c].pc = "limiter" /\ Track(c) /\ CatchAll(c) /\ UNCHANGED <<arrived, server>>
    BY <1>8 DEF AdmitRaises
  <2>2. lines[c] = <<>> /\ call[c].answer = "ok"
    BY <1>1, <2>1 DEF LinesFit, LineOfAnswer, UpstreamsLines
  <2>3. /\ call' \in [Calls -> Call] /\ lines' \in [Calls -> Seq(Outcomes)]
        /\ event' \in [Calls -> {"none", "pending", "sent", "lost"}] /\ PendingFew'
        /\ \A d \in Calls \ {c} : call'[d] = call[d] /\ lines'[d] = lines[d] /\ event'[d] = event[d]
    BY <1>1, <2>1, <2>2, CatchAllEffect, TrackEffect
  <2>4. LinesFit(c)'
    <3>1. /\ call'[c].pc = "answered" /\ call'[c].answer = "internal_error"
          /\ lines'[c] = Line("internal_error")
      BY <1>1, <2>1, <2>2, CatchAllEffect
    <3>. QED BY <1>3, <3>1 DEF LinesFit, LineOfAnswer, UpstreamsLines
  <2>. QED BY <1>1, <2>1, <2>3, <2>4, OneCallSteps
<1>9. ASSUME lines[c] = <<>>, Succeed(c)
      PROVE  /\ call' \in [Calls -> Call] /\ lines' \in [Calls -> Seq(Outcomes)]
             /\ lines'[c] = Line("ok")
             /\ \/ call'[c].pc = "pictures" /\ call'[c].answer = call[c].answer
                \/ call'[c].pc = "answered" /\ call'[c].answer \in {"ok", "internal_error"}
             /\ call'[c].local = call[c].local
             /\ \A d \in Calls \ {c} : call'[d] = call[d] /\ lines'[d] = lines[d]
  BY <1>1, <1>3, <1>9, AnswerEffect, GoesEffect, EmitEffect DEF Succeed
<1>10. CASE AdmitLocal(c)
  <2>1. /\ call[c].pc = "limiter" /\ call[c].local /\ Track(c)
        /\ Succeed(c)
        /\ UNCHANGED <<arrived, server>>
    BY <1>10 DEF AdmitLocal
  <2>2. lines[c] = <<>> /\ call[c].answer = "ok"
    BY <1>1, <2>1 DEF LinesFit, LineOfAnswer, UpstreamsLines
  <2>3. /\ call' \in [Calls -> Call] /\ lines' \in [Calls -> Seq(Outcomes)]
        /\ event' \in [Calls -> {"none", "pending", "sent", "lost"}] /\ PendingFew'
        /\ \A d \in Calls \ {c} : call'[d] = call[d] /\ lines'[d] = lines[d] /\ event'[d] = event[d]
    BY <1>1, <2>1, <2>2, <1>9, TrackEffect
  <2>4. LinesFit(c)'
    <3>1. /\ lines'[c] = Line("ok") /\ call'[c].local
          /\ call'[c].pc \in {"pictures", "answered"}
          /\ call'[c].answer \in {"ok", "internal_error"}
          /\ call'[c].pc = "pictures" => call'[c].answer = "ok"
      BY <1>9, <2>1, <2>2
    <3>. QED BY <1>3, <3>1 DEF LinesFit, LineOfAnswer, UpstreamsLines
  <2>. QED BY <1>1, <2>1, <2>3, <2>4, OneCallSteps
<1>11. CASE AdmitForwarded(c)
  <2>1. /\ call[c].pc = "limiter" /\ Track(c) /\ Goes(c, "upstream")
        /\ UNCHANGED <<lines, arrived, server>>
    BY <1>11 DEF AdmitForwarded
  <2>2. lines[c] = <<>> /\ call[c].answer = "ok"
    BY <1>1, <2>1 DEF LinesFit, LineOfAnswer, UpstreamsLines
  <2>3. /\ call' \in [Calls -> Call] /\ lines' \in [Calls -> Seq(Outcomes)]
        /\ event' \in [Calls -> {"none", "pending", "sent", "lost"}] /\ PendingFew'
        /\ \A d \in Calls \ {c} : call'[d] = call[d] /\ lines'[d] = lines[d] /\ event'[d] = event[d]
    BY <1>1, <2>1, <2>2, TrackEffect, GoesEffect
  <2>4. LinesFit(c)'
    BY <1>1, <2>1, <2>2, <1>3, TrackEffect, GoesEffect DEF LinesFit, LineOfAnswer, UpstreamsLines
  <2>. QED BY <1>1, <2>1, <2>3, <2>4, OneCallSteps
<1>12. CASE Arrive(c)
  <2>1. /\ call[c].pc = "upstream" /\ arrived' = arrived \cup {c}
        /\ UNCHANGED <<call, lines, event, server>>
    BY <1>12 DEF Arrive
  <2>2. lines[c] = <<>> /\ call[c].answer = "ok"
    BY <1>1, <2>1 DEF LinesFit, LineOfAnswer, UpstreamsLines
  <2>3. /\ call' \in [Calls -> Call] /\ lines' \in [Calls -> Seq(Outcomes)]
        /\ event' \in [Calls -> {"none", "pending", "sent", "lost"}] /\ PendingFew'
        /\ \A d \in Calls \ {c} : call'[d] = call[d] /\ lines'[d] = lines[d] /\ event'[d] = event[d]
    BY <1>1, <1>2, <2>1, <2>2
  <2>4. LinesFit(c)'
    BY <1>1, <2>1, <2>2, <1>3 DEF LinesFit, LineOfAnswer, UpstreamsLines
  <2>. QED BY <1>1, <2>1, <2>3, <2>4, OneCallSteps
<1>13. CASE RespondOk(c)
  <2>1. /\ call[c].pc = "upstream" /\ c \in arrived
        /\ Succeed(c)
        /\ UNCHANGED <<event, arrived, server>>
    BY <1>13 DEF RespondOk
  <2>2. lines[c] = <<>> /\ call[c].answer = "ok"
    BY <1>1, <2>1 DEF LinesFit, LineOfAnswer, UpstreamsLines
  <2>3. /\ call' \in [Calls -> Call] /\ lines' \in [Calls -> Seq(Outcomes)]
        /\ event' \in [Calls -> {"none", "pending", "sent", "lost"}] /\ PendingFew'
        /\ \A d \in Calls \ {c} : call'[d] = call[d] /\ lines'[d] = lines[d] /\ event'[d] = event[d]
    BY <1>1, <1>2, <2>1, <2>2, <1>9
  <2>4. LinesFit(c)'
    BY <1>1, <2>1, <2>2, <1>3, <1>9 DEF LinesFit, LineOfAnswer, UpstreamsLines
  <2>. QED BY <1>1, <2>1, <2>3, <2>4, OneCallSteps
<1>14. CASE RespondError(c)
  <2>1. /\ call[c].pc = "upstream" /\ FailUpstream(c, "upstream_error")
        /\ UNCHANGED <<event, arrived, server>> /\ c \in arrived
    BY <1>14 DEF RespondError
  <2>2. lines[c] = <<>> /\ call[c].answer = "ok"
    BY <1>1, <2>1 DEF LinesFit
  <2>3. /\ call' \in [Calls -> Call] /\ lines' \in [Calls -> Seq(Outcomes)]
        /\ event' \in [Calls -> {"none", "pending", "sent", "lost"}] /\ PendingFew'
        /\ \A d \in Calls \ {c} : call'[d] = call[d] /\ lines'[d] = lines[d] /\ event'[d] = event[d]
    BY <1>1, <1>2, <2>1, <2>2, <1>3, AnswerEffect, EmitEffect DEF FailUpstream
  <2>4. LinesFit(c)'
    <3>1. /\ call'[c].pc = "answered" /\ call'[c].answer \in {"upstream_error", "internal_error"}
          /\ lines'[c] = Line("upstream_error")
      BY <1>1, <1>3, <2>1, <2>2, AnswerEffect, EmitEffect DEF FailUpstream
    <3>. QED BY <1>3, <2>1, <3>1 DEF LinesFit, LineOfAnswer, UpstreamsLines
  <2>. QED BY <1>1, <2>1, <2>3, <2>4, OneCallSteps
<1>15. CASE Unreachable(c)
  <2>1. /\ call[c].pc = "upstream" /\ FailUpstream(c, "upstream_unreachable")
        /\ UNCHANGED <<event, arrived, server>>
    BY <1>15 DEF Unreachable
  <2>2. lines[c] = <<>> /\ call[c].answer = "ok"
    BY <1>1, <2>1 DEF LinesFit
  <2>3. /\ call' \in [Calls -> Call] /\ lines' \in [Calls -> Seq(Outcomes)]
        /\ event' \in [Calls -> {"none", "pending", "sent", "lost"}] /\ PendingFew'
        /\ \A d \in Calls \ {c} : call'[d] = call[d] /\ lines'[d] = lines[d] /\ event'[d] = event[d]
    BY <1>1, <1>2, <2>1, <2>2, <1>3, AnswerEffect, EmitEffect DEF FailUpstream
  <2>4. LinesFit(c)'
    <3>1. /\ call'[c].pc = "answered" /\ call'[c].answer \in {"upstream_unreachable", "internal_error"}
          /\ lines'[c] = Line("upstream_unreachable")
      BY <1>1, <1>3, <2>1, <2>2, AnswerEffect, EmitEffect DEF FailUpstream
    <3>. QED BY <1>3, <2>1, <3>1 DEF LinesFit, LineOfAnswer, UpstreamsLines
  <2>. QED BY <1>1, <2>1, <2>3, <2>4, OneCallSteps
<1>16. CASE DispatchRaises(c)
  <2>1. /\ call[c].pc = "upstream" /\ CatchAll(c) /\ UNCHANGED <<event, arrived, server>>
    BY <1>16 DEF DispatchRaises
  <2>2. lines[c] = <<>> /\ call[c].answer = "ok"
    BY <1>1, <2>1 DEF LinesFit, LineOfAnswer, UpstreamsLines
  <2>3. /\ call' \in [Calls -> Call] /\ lines' \in [Calls -> Seq(Outcomes)]
        /\ event' \in [Calls -> {"none", "pending", "sent", "lost"}] /\ PendingFew'
        /\ \A d \in Calls \ {c} : call'[d] = call[d] /\ lines'[d] = lines[d] /\ event'[d] = event[d]
    BY <1>1, <1>2, <2>1, <2>2, CatchAllEffect
  <2>4. LinesFit(c)'
    <3>1. /\ call'[c].pc = "answered" /\ call'[c].answer = "internal_error"
          /\ lines'[c] = Line("internal_error")
      BY <1>1, <2>1, <2>2, CatchAllEffect
    <3>. QED BY <1>3, <3>1 DEF LinesFit, LineOfAnswer, UpstreamsLines
  <2>. QED BY <1>1, <2>1, <2>3, <2>4, OneCallSteps
<1>17. CASE PicturesDone(c)
  <2>1. call[c].pc = "pictures" /\ Answer(c, "ok") /\ UNCHANGED <<lines, event, arrived, server>>
    BY <1>17 DEF PicturesDone
  <2>2. lines[c] = Line("ok") /\ Line("ok") # <<>>
    BY <1>1, <1>3, <2>1 DEF LinesFit, LineOfAnswer, UpstreamsLines
  <2>3. /\ call' \in [Calls -> Call] /\ lines' \in [Calls -> Seq(Outcomes)]
        /\ event' \in [Calls -> {"none", "pending", "sent", "lost"}] /\ PendingFew'
        /\ \A d \in Calls \ {c} : call'[d] = call[d] /\ lines'[d] = lines[d] /\ event'[d] = event[d]
    BY <1>1, <1>2, <2>1, <2>2, <1>3, AnswerEffect
  <2>4. LinesFit(c)'
    BY <1>1, <2>1, <2>2, <1>3, AnswerEffect DEF LinesFit, LineOfAnswer, UpstreamsLines
  <2>. QED BY <1>1, <2>1, <2>3, <2>4, OneCallSteps
<1>18. CASE PicturesRaise(c)
  <2>1. call[c].pc = "pictures" /\ CatchAll(c) /\ UNCHANGED <<event, arrived, server>>
    BY <1>18 DEF PicturesRaise
  <2>2. lines[c] = Line("ok") /\ Line("ok") # <<>>
    BY <1>1, <1>3, <2>1 DEF LinesFit, LineOfAnswer, UpstreamsLines
  <2>3. /\ call' \in [Calls -> Call] /\ lines' \in [Calls -> Seq(Outcomes)]
        /\ event' \in [Calls -> {"none", "pending", "sent", "lost"}] /\ PendingFew'
        /\ \A d \in Calls \ {c} : call'[d] = call[d] /\ lines'[d] = lines[d] /\ event'[d] = event[d]
    BY <1>1, <1>2, <2>1, <2>2, CatchAllEffect
  <2>4. LinesFit(c)'
    BY <1>1, <2>1, <2>2, <1>3, CatchAllEffect DEF LinesFit, LineOfAnswer, UpstreamsLines
  <2>. QED BY <1>1, <2>1, <2>3, <2>4, OneCallSteps
<1>. QED BY <1>4, <1>5, <1>6, <1>7, <1>8, <1>10, <1>11, <1>12, <1>13, <1>14, <1>15,
            <1>16, <1>17, <1>18 DEF Handle

----------------------------------------------------------------------------
(* Shutdown touches no line: it loses events and cancels what is in        *)
(* flight, whose lines are still none or the success line.                 *)
LEMMA ServerAuditInv ==
  AuditInv /\ (Sigterm \/ Shutdown) => AuditInv'
<1>. SUFFICES ASSUME AuditInv, Sigterm \/ Shutdown PROVE AuditInv'
  OBVIOUS
<1>1. /\ TypeOK /\ PendingFew /\ \A c \in Calls : LinesFit(c)
      /\ call \in [Calls -> Call]
      /\ event \in [Calls -> {"none", "pending", "sent", "lost"}]
  BY DEF AuditInv, TypeOK
<1>2. ASSUME NEW n \in 1 .. 5, phase' = Phases[n] PROVE phase' \in {Phases[m] : m \in DOMAIN Phases}
  BY <1>2 DEF Phases
<1>3. ASSUME phase' \in {"terminating", "draining", "closing", "stopped"}
      PROVE  phase' \in {Phases[n] : n \in DOMAIN Phases}
  <2>1. Phases[2] = "terminating" /\ Phases[3] = "draining" /\ Phases[4] = "closing" /\ Phases[5] = "stopped"
    BY DEF Phases
  <2>. QED BY <1>2, <1>3, <2>1
<1>4. ASSUME UNCHANGED <<call, lines, event, arrived>>,
             phase' \in {"terminating", "draining", "closing", "stopped"}, awaited' \in SUBSET Calls
      PROVE  AuditInv'
  <2>1. PendingFew'
    BY <1>1, <1>4 DEF PendingFew, Pending
  <2>2. TypeOK'
    BY <1>1, <1>3, <1>4, <2>1 DEF TypeOK, PendingFew, Pending
  <2>3. ASSUME NEW c \in Calls PROVE LinesFit(c)'
    BY <1>1, <1>4 DEF LinesFit, LineOfAnswer
  <2>. QED BY <2>1, <2>2, <2>3 DEF AuditInv
<1>5. CASE Sigterm
  BY <1>1, <1>4, <1>5 DEF Sigterm, TypeOK
<1>6. CASE WindowCloses
  BY <1>1, <1>4, <1>6 DEF WindowCloses, Pending
<1>7. CASE DrainDone
  BY <1>1, <1>4, <1>7 DEF DrainDone, TypeOK
<1>8. CASE DrainTimesOut
  <2>1. /\ phase' = "closing" /\ UNCHANGED <<call, lines, arrived, awaited>>
        /\ event' = [c \in Calls |-> IF c \in awaited \cap Pending THEN "lost" ELSE event[c]]
    BY <1>8 DEF DrainTimesOut
  <2>2. /\ event' \in [Calls -> {"none", "pending", "sent", "lost"}]
        /\ \A c \in Calls : event[c] = "none" => event'[c] = "none"
    BY <1>1, <2>1 DEF Pending
  <2>3. Pending' \subseteq Pending
    BY <2>1 DEF Pending
  <2>4. PendingFew'
    BY <1>1, <2>3, PendingShrinks
  <2>5. TypeOK'
    BY <1>1, <1>3, <2>1, <2>2, <2>4 DEF TypeOK, PendingFew, Pending
  <2>6. ASSUME NEW c \in Calls PROVE LinesFit(c)'
    BY <1>1, <2>1, <2>2 DEF LinesFit, LineOfAnswer
  <2>. QED BY <2>4, <2>5, <2>6 DEF AuditInv
<1>9. CASE Stop
  <2>1. /\ phase' = "stopped" /\ UNCHANGED <<lines, event, arrived, awaited>>
        /\ call' = [c \in Calls |-> IF c \in InFlight THEN [call[c] EXCEPT !.pc = "cancelled"]
                                                      ELSE call[c]]
    BY <1>9 DEF Stop
  <2>2. call' \in [Calls -> Call]
    BY <1>1, <2>1 DEF Call
  <2>3. PendingFew'
    BY <1>1, <2>1 DEF PendingFew, Pending
  <2>4. TypeOK'
    BY <1>1, <1>3, <2>1, <2>2, <2>3 DEF TypeOK, PendingFew, Pending
  <2>5. ASSUME NEW c \in Calls PROVE LinesFit(c)'
    <3>1. CASE c \in InFlight
      <4>1. /\ call'[c].pc = "cancelled" /\ call'[c].answer = call[c].answer
            /\ call'[c].local = call[c].local
        BY <1>1, <2>1, <3>1 DEF Call
      <4>2. lines[c] = <<>> \/ lines[c] = Line("ok")
        BY <1>1, <3>1 DEF LinesFit, InFlight
      <4>3. /\ call[c].answer = "ok"
            /\ lines[c] = Line("ok") => c \in arrived \/ call[c].local
            /\ \A x \in {"rate_limited", "invalid_arguments", "upstream_error"} : lines[c] # Line(x)
        <5>1. \A x \in {"rate_limited", "invalid_arguments", "upstream_error"} : Line(x) # <<>> /\ Line(x) # Line("ok")
          BY FirstLine DEF Outcomes, Errors
        <5>. QED BY <1>1, <3>1, <4>2, <5>1 DEF LinesFit, InFlight
      <4>. QED BY <2>1, <4>1, <4>2, <4>3 DEF LinesFit
    <3>2. CASE c \notin InFlight
      <4>1. call'[c] = call[c]
        BY <2>1, <3>2
      <4>2. LinesFit(c) /\ lines' = lines /\ event' = event /\ arrived' = arrived
        BY <1>1, <2>1
      <4>3. LineOfAnswer(c)' <=> LineOfAnswer(c)
        BY <4>1, <4>2 DEF LineOfAnswer
      <4>. QED BY <4>1, <4>2, <4>3 DEF LinesFit
    <3>. QED BY <3>1, <3>2
  <2>. QED BY <2>3, <2>4, <2>5 DEF AuditInv
<1>. QED BY <1>5, <1>6, <1>7, <1>8, <1>9 DEF Shutdown

LEMMA SendAuditInv ==
  ASSUME AuditInv, NEW c \in Calls, SendEnds(c)
  PROVE  AuditInv'
<1>1. /\ TypeOK /\ PendingFew /\ LinesFit(c)
      /\ call \in [Calls -> Call] /\ lines \in [Calls -> Seq(Outcomes)]
      /\ event \in [Calls -> {"none", "pending", "sent", "lost"}]
  BY DEF AuditInv, TypeOK
<1>2. PICK result \in {"sent", "lost"} : event' = [event EXCEPT ![c] = result]
  BY DEF SendEnds
<1>3. event[c] = "pending" /\ UNCHANGED <<call, lines, arrived, server>>
  BY DEF SendEnds
<1>4. Pending' \subseteq Pending
  BY <1>1, <1>2 DEF Pending
<1>5. PendingFew'
  BY <1>1, <1>4, PendingShrinks
<1>6. LinesFit(c)'
  BY <1>1, <1>2, <1>3 DEF LinesFit, LineOfAnswer
<1>. QED BY <1>1, <1>2, <1>3, <1>5, <1>6, OneCallSteps

LEMMA NextAuditInv == AuditInv /\ [Next]_vars => AuditInv'
<1>. SUFFICES ASSUME AuditInv, [Next]_vars PROVE AuditInv'
  OBVIOUS
<1>1. ASSUME NEW c \in Calls, Receive(c) \/ Handle(c) PROVE AuditInv'
  BY <1>1, CallAuditInv
<1>2. ASSUME NEW c \in Calls, SendEnds(c) PROVE AuditInv'
  BY <1>2, SendAuditInv
<1>3. CASE Sigterm \/ Shutdown
  BY <1>3, ServerAuditInv
<1>4. CASE UNCHANGED vars
  BY <1>4 DEF vars, AuditInv, TypeOK, PendingFew, Pending, LinesFit, LineOfAnswer
<1>. QED BY <1>1, <1>2, <1>3, <1>4 DEF Next

(* The lines of every call fit its place in the pipeline, and the pending  *)
(* events are few: the inductive invariant of the pipeline.                *)
THEOREM AuditInvariant == Spec => []AuditInv
BY InitAuditInv, NextAuditInv, PTL DEF Spec

(* Every variable keeps its type, and Mixpanel's backlog its cap, however  *)
(* many calls there are.                                                   *)
THEOREM ToolCallTypeCorrect == Spec => []TypeOK
<1>1. AuditInv => TypeOK
  BY DEF AuditInv
<1>. QED BY <1>1, AuditInvariant, PTL

(* One audit line per answered call, saying what the caller was told, or   *)
(* what the upstream did before an exception turned it into an internal    *)
(* error; and no refused call ever reaches the upstream.                   *)
THEOREM AuditedOnceHolds == Spec => []AuditedOnce
<1>1. AuditInv => AuditedOnce
  <2>. SUFFICES ASSUME AuditInv, NEW c \in Calls
                PROVE  /\ Len(lines[c]) <= 1
                       /\ call[c].pc = "answered" =>
                            \/ lines[c] = <<call[c].answer>>
                            \/ /\ call[c].answer = "internal_error"
                               /\ \E x \in UpstreamsLines : lines[c] = <<x>>
                       /\ lines[c] = <<"ok">> => c \in arrived \/ call[c].local
                       /\ lines[c] = <<"upstream_error">> => c \in arrived
                       /\ lines[c] \in {<<"rate_limited">>, <<"invalid_arguments">>} => c \notin arrived
                       /\ lines[c] = <<"rate_limited">> => event[c] = "none"
    BY DEF AuditedOnce
  <2>1. LinesFit(c) /\ call[c] \in Call
    BY DEF AuditInv, TypeOK
  <2>2. call[c].answer \in Outcomes /\ "ok" \in Outcomes /\ UpstreamsLines \subseteq Outcomes
    BY <2>1 DEF Call, Outcomes, Errors, UpstreamsLines
  <2>3. Len(lines[c]) <= 1
    <3>1. lines[c] = <<>> \/ \E x \in Outcomes : lines[c] = Line(x)
      BY <2>1, <2>2 DEF LinesFit, LineOfAnswer, Call
    <3>2. Len(<<>>) = 0
      OBVIOUS
    <3>3. \A x \in Outcomes : Len(Line(x)) = 1
      BY FirstLine
    <3>4. Len(lines[c]) \in {0, 1}
      BY <3>1, <3>2, <3>3, Zenon
    <3>5. PICK n : n = Len(lines[c])
      OBVIOUS
    <3>6. n \in {0, 1}
      BY <3>4, <3>5, Zenon
    <3>7. n <= 1
      BY <3>6
    <3>. QED BY <3>5, <3>7, Zenon
  <2>. QED BY <2>1, <2>3 DEF LinesFit, LineOfAnswer, Line
<1>. QED BY <1>1, AuditInvariant, PTL

=============================================================================
