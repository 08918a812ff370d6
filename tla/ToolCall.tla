------------------------------ MODULE ToolCall ------------------------------
(***************************************************************************)
(* on_call_tool of mcp_transport.py, the analytics of analytics.py it      *)
(* feeds, and the shutdown of mcp_lifespan that may overtake both.         *)
(*                                                                         *)
(* A call is suspended at the rate limiter, at the upstream request and    *)
(* while thumbnails are fetched; the code between two of these is one      *)
(* action, and so is the way from an exception to the answer.  Handlers    *)
(* run in the session manager's task group: the end of a graceful window   *)
(* does not stop them, the end of the lifespan cancels them.               *)
(*                                                                         *)
(* Where the code guards against an exception, the model lets it happen.   *)
(* arrived is an observation: the upstream has received the request, and   *)
(* may have acted on it.                                                   *)
(***************************************************************************)
EXTENDS Integers, Sequences, FiniteSets

CONSTANTS Calls,      \* tool calls
          MaxPending  \* _MAX_PENDING

ASSUME ToolCallAssumption == MaxPending \in Nat \ {0}

VARIABLES call,     \* per call: where it is, its tool, its answer
          lines,    \* per call, the tool_call audit lines emitted
          event,    \* per call, its "MCP Call Received" event
          arrived,  \* the calls whose request reached the upstream
          phase,    \* of the process
          awaited   \* the events drain waits for

vars == <<call, lines, event, arrived, phase, awaited>>

Errors == {"rate_limited", "invalid_arguments", "upstream_unreachable",
           "upstream_error", "internal_error"}

Outcomes == Errors \cup {"ok"}

(* local: the tool is answered by a handler of this process.  pictures: it *)
(* offers base64 images and the caller wants them.  identified: the        *)
(* caller's AutoDS user id is known.                                       *)
Call == [pc : {"idle", "limiter", "upstream", "pictures", "answered", "cancelled"},
         local : BOOLEAN, pictures : BOOLEAN, identified : BOOLEAN,
         answer : Outcomes]

Phases == <<"serving", "terminating", "draining", "closing", "stopped">>

TypeOK ==
  /\ call \in [Calls -> Call]
  /\ lines \in [Calls -> Seq(Outcomes)]
  /\ event \in [Calls -> {"none", "pending", "sent", "lost"}]
  /\ Cardinality({c \in Calls : event[c] = "pending"}) <= MaxPending
  /\ arrived \in SUBSET Calls
  /\ phase \in {Phases[n] : n \in DOMAIN Phases}
  /\ awaited \in SUBSET Calls

Init ==
  /\ call \in [Calls -> {c \in Call : /\ c.pc = "idle" /\ c.answer = "ok"
                                     /\ ~(c.local /\ c.pictures)}]
  /\ lines = [c \in Calls |-> <<>>]
  /\ event = [c \in Calls |-> "none"]
  /\ arrived = {}
  /\ phase = "serving"
  /\ awaited = {}

----------------------------------------------------------------------------
Pending == {c \in Calls : event[c] = "pending"}

InFlight == {c \in Calls : call[c].pc \in {"limiter", "upstream", "pictures"}}

server == <<phase, awaited>>

Goes(c, pc) == call' = [call EXCEPT ![c].pc = pc]

Answer(c, outcome) ==
  call' = [call EXCEPT ![c].pc = "answered", ![c].answer = outcome]

Emit(c, outcome) == lines' = [lines EXCEPT ![c] = Append(@, outcome)]

EmitAndAnswer(c, outcome) == Emit(c, outcome) /\ Answer(c, outcome)

(* The catch-all: the line is emitted unless one already was.              *)
CatchAllForgetful(c) == EmitAndAnswer(c, "internal_error")

CatchAll(c) ==
  /\ Answer(c, "internal_error")
  /\ lines' = [lines EXCEPT ![c] = IF @ = <<>> THEN <<"internal_error">> ELSE @]

----------------------------------------------------------------------------
Receive(c) ==
  /\ phase = "serving"
  /\ call[c].pc = "idle"
  /\ Goes(c, "limiter")
  /\ UNCHANGED <<lines, event, arrived, server>>

(* An identified caller's call is tracked; at the cap the event is shed.   *)
TrackUncapped(c) ==
  event' = [event EXCEPT ![c] = IF call[c].identified THEN "pending" ELSE @]

Track(c) ==
  event' = [event EXCEPT ![c] =
    IF ~call[c].identified THEN @
    ELSE IF Cardinality(Pending) < MaxPending THEN "pending" ELSE "lost"]

Refuse(c) ==
  /\ call[c].pc = "limiter"
  /\ EmitAndAnswer(c, "rate_limited")
  /\ UNCHANGED <<event, arrived, server>>

LimiterRaises(c) ==
  /\ call[c].pc = "limiter"
  /\ CatchAll(c)
  /\ UNCHANGED <<event, arrived, server>>

(* The line comes first; the envelope is built next, which may raise, and  *)
(* the pictures are fetched last.                                          *)
Succeed(c) ==
  /\ Emit(c, "ok")
  /\ \/ IF call[c].pictures THEN Goes(c, "pictures") ELSE Answer(c, "ok")
     \/ Answer(c, "internal_error")

(* So does a failure's line; the detail is logged and reported next and    *)
(* the hint rendered, all of it inside the catch-all's try.                *)
FailUpstream(c, outcome) ==
  /\ Emit(c, outcome)
  /\ Answer(c, outcome) \/ Answer(c, "internal_error")

(* From the limiter's consent to the next await: tracking, validation, and *)
(* the local handler or the building of the upstream request, each of      *)
(* which may turn the call down or raise.                                  *)
AdmitInvalid(c) ==
  /\ call[c].pc = "limiter"
  /\ Track(c)
  /\ EmitAndAnswer(c, "invalid_arguments")
  /\ UNCHANGED <<arrived, server>>

AdmitRaises(c) ==
  /\ call[c].pc = "limiter"
  /\ Track(c)
  /\ CatchAll(c)
  /\ UNCHANGED <<arrived, server>>

AdmitLocal(c) ==
  /\ call[c].pc = "limiter" /\ call[c].local
  /\ Track(c)
  /\ Succeed(c)
  /\ UNCHANGED <<arrived, server>>

AdmitForwarded(c) ==
  /\ call[c].pc = "limiter" /\ ~call[c].local
  /\ Track(c)
  /\ Goes(c, "upstream")
  /\ UNCHANGED <<lines, arrived, server>>

----------------------------------------------------------------------------
HttpOpen == phase \notin {"closing", "stopped"}

(* The upstream receives the request; what becomes of the answer is open.  *)
Arrive(c) ==
  /\ call[c].pc = "upstream" /\ c \notin arrived
  /\ HttpOpen
  /\ arrived' = arrived \cup {c}
  /\ UNCHANGED <<call, lines, event, server>>

RespondOk(c) ==
  /\ call[c].pc = "upstream" /\ c \in arrived /\ HttpOpen
  /\ Succeed(c)
  /\ UNCHANGED <<event, arrived, server>>

RespondError(c) ==
  /\ call[c].pc = "upstream" /\ c \in arrived /\ HttpOpen
  /\ FailUpstream(c, "upstream_error")
  /\ UNCHANGED <<event, arrived, server>>

(* A timeout, a lost connection, a closed client: before the request       *)
(* arrived or after.                                                       *)
Unreachable(c) ==
  /\ call[c].pc = "upstream"
  /\ FailUpstream(c, "upstream_unreachable")
  /\ UNCHANGED <<event, arrived, server>>

DispatchRaises(c) ==
  /\ call[c].pc = "upstream"
  /\ CatchAll(c)
  /\ UNCHANGED <<event, arrived, server>>

(* _attach_thumbnails swallows its failures; the result is wrapped last.   *)
PicturesDone(c) ==
  /\ call[c].pc = "pictures"
  /\ Answer(c, "ok")
  /\ UNCHANGED <<lines, event, arrived, server>>

PicturesRaise(c) ==
  /\ call[c].pc = "pictures"
  /\ CatchAll(c)
  /\ UNCHANGED <<event, arrived, server>>

----------------------------------------------------------------------------
(* _send in its thread: delivered, or a failure that is only logged.       *)
SendEnds(c) ==
  /\ event[c] = "pending"
  /\ event' \in {[event EXCEPT ![c] = result] : result \in {"sent", "lost"}}
  /\ UNCHANGED <<call, lines, arrived, server>>

Sigterm ==
  /\ phase = "serving"
  /\ phase' = "terminating"
  /\ UNCHANGED <<call, lines, event, arrived, awaited>>

(* uvicorn's graceful window closes when every call has ended, or at its   *)
(* timeout; the lifespan then drains the sends pending at this moment.     *)
WindowClosesUndrained ==
  /\ phase = "terminating"
  /\ phase' = "draining"
  /\ UNCHANGED <<call, lines, event, arrived, awaited>>

WindowCloses ==
  /\ phase = "terminating"
  /\ phase' = "draining"
  /\ awaited' = Pending
  /\ UNCHANGED <<call, lines, event, arrived>>

DrainDone ==
  /\ phase = "draining"
  /\ awaited \cap Pending = {}
  /\ phase' = "closing"
  /\ UNCHANGED <<call, lines, event, arrived, awaited>>

(* Ten seconds are over: what drain was waiting for is abandoned.          *)
DrainForgetsTimeout == DrainDone

DrainTimesOut ==
  /\ phase = "draining"
  /\ awaited \cap Pending # {}
  /\ phase' = "closing"
  /\ event' = [c \in Calls |-> IF c \in awaited \cap Pending THEN "lost" ELSE event[c]]
  /\ UNCHANGED <<call, lines, arrived, awaited>>

(* The clients are closed; the task group's exit cancels every handler.    *)
(* CancelledError passes the catch-all by.                                 *)
Stop ==
  /\ phase = "closing"
  /\ phase' = "stopped"
  /\ call' = [c \in Calls |-> IF c \in InFlight THEN [call[c] EXCEPT !.pc = "cancelled"]
                                                ELSE call[c]]
  /\ UNCHANGED <<lines, event, arrived, awaited>>

Handle(c) ==
  \/ Refuse(c) \/ LimiterRaises(c)
  \/ AdmitInvalid(c) \/ AdmitRaises(c) \/ AdmitLocal(c) \/ AdmitForwarded(c)
  \/ Arrive(c) \/ RespondOk(c) \/ RespondError(c) \/ Unreachable(c) \/ DispatchRaises(c)
  \/ PicturesDone(c) \/ PicturesRaise(c)

Shutdown == WindowCloses \/ DrainDone \/ DrainTimesOut \/ Stop

Next ==
  \/ \E c \in Calls : Receive(c) \/ Handle(c) \/ SendEnds(c)
  \/ Sigterm
  \/ Shutdown

(* uvicorn's window, drain's wait_for and the closing of the clients all   *)
(* end by themselves; nothing is assumed of limiter, upstream or Mixpanel. *)
Spec == Init /\ [][Next]_vars /\ WF_vars(Shutdown)

----------------------------------------------------------------------------
(* The lines after which code still runs that may raise.                   *)
UpstreamsLines == {"ok", "upstream_error", "upstream_unreachable"}

(* A call that is answered has emitted one tool_call line, which says what *)
(* the caller was told; only an exception after the upstream's outcome was *)
(* logged, good or bad, tells the caller otherwise, and then it tells of   *)
(* an internal error.  No exception, wherever it is raised, adds a second  *)
(* line.  A line that reports the upstream's answer is one to a request    *)
(* that arrived; the upstream never hears of a call whose line says it was *)
(* refused, nor Mixpanel of one that the limiter refused.                  *)
AuditedOnce ==
  \A c \in Calls :
    /\ Len(lines[c]) <= 1
    /\ call[c].pc = "answered" =>
         \/ lines[c] = <<call[c].answer>>
         \/ call[c].answer = "internal_error" /\ \E x \in UpstreamsLines : lines[c] = <<x>>
    /\ lines[c] = <<"ok">> => c \in arrived \/ call[c].local
    /\ lines[c] = <<"upstream_error">> => c \in arrived
    /\ lines[c] \in {<<"rate_limited">>, <<"invalid_arguments">>} => c \notin arrived
    /\ lines[c] = <<"rate_limited">> => event[c] = "none"

(* SIGTERM always ends in an exit, with hung upstreams, hung tracking and  *)
(* calls still in flight.                                                  *)
ShutdownCompletes == phase # "serving" ~> phase = "stopped"

(* Of a call that the limiter has let pass by the time the window closes,  *)
(* or refused, no event is left behind pending, whatever else is still in  *)
(* flight: it was delivered, failed, shed, or given its ten seconds.  The  *)
(* snapshot that drain takes can miss a call at the limiter only.          *)
ShutdownFlushes ==
  \A c \in Calls :
    phase = "terminating" /\ call[c].pc # "limiter"
      ~> phase = "stopped" /\ event[c] # "pending"

(* README.md: "Every tool call emits one structured `tool_call` line".     *)
EveryForwardedCallAudited ==
  phase = "stopped" => \A c \in arrived : lines[c] # <<>>

=============================================================================
