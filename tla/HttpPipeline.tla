---------------------------- MODULE HttpPipeline ----------------------------
(***************************************************************************)
(* One HTTP request from the outermost middleware to its response:         *)
(* RequestContextMiddleware and OriginAllowlistMiddleware of middleware.py *)
(* in the order of app.py, the routes, get_current_user and verify_token   *)
(* of auth/, and the hand-over of mount_mcp to the MCP session manager.    *)
(*                                                                         *)
(* verify_token waits for JwksClient and nowhere else, so the step that    *)
(* ends its get_key also decides about the token, up to the await of the   *)
(* identity resolver or to the response.  What is wrong with a token is    *)
(* chosen when it matters; flawless, an observation, remembers whether     *)
(* something was.  Signatures are PyJWT's to check, the identity resolver  *)
(* is IdentityCache, what happens to a tool call is ToolCall.              *)
(***************************************************************************)
EXTENDS JwksClient

CONSTANT QuietRoutes  \* quiet_paths of create_app: empty when debugging

ASSUME HttpAssumption == QuietRoutes \subseteq {"health"}

VARIABLE http         \* per request: where it is, what it was answered

httpVars == <<vars, http>>

Routes == {"mcp", "oauth", "health"}

ProtectedRoutes == {"mcp", "oauth"}   \* DEFAULT_PROTECTED_PATTERNS

(* request.state as the access log reads it: nobody until get_current_user *)
(* has verified a token, then its subject, with the AutoDS identity if it  *)
(* was resolved.                                                           *)
Users == {"nobody", "sub", "sub and AutoDS user"}

(* 200 stands for whatever a route answers, 500 for an exception.          *)
Statuses == {200, 401, 403, 500, 503}

NoLine == [status |-> 0, user |-> "nobody"]

Line == {NoLine} \cup [status : Statuses, user : Users]

Progress ==
  [at : {"idle", "auth", "identity"}]
  \cup [at : {"mcp"}, user : Users]
  \cup [at : {"answered"}, route : Routes, flawless : BOOLEAN, status : Statuses, line : Line]

(* A request is at get_key, or past it with a key, as the pipeline says.   *)
HttpTypeOK ==
  /\ TypeOK
  /\ http \in [Requests -> Progress]
  /\ \A r \in Requests :
       /\ http[r].at = "auth" <=> calls[r].pc \in {"waiting", "fetching"}
       /\ http[r].at \in {"identity", "mcp"} => calls[r].pc = "done" /\ calls[r].answer = "key"

HttpInit == Init /\ http = [r \in Requests |-> [at |-> "idle"]]

----------------------------------------------------------------------------
(* The access line: every response and every exception has one, except the *)
(* responses of the quiet routes.                                          *)
AccessLine(route, status, user) ==
  IF status # 500 /\ route \in QuietRoutes THEN NoLine ELSE [status |-> status, user |-> user]

Response(route, flawless, status, user) ==
  [at |-> "answered", route |-> route, flawless |-> flawless, status |-> status,
   line |-> AccessLine(route, status, user)]

(* What a flaw makes verify_token raise once it has the key.               *)
Rejection ==
  [expired   |-> "TokenExpired",
   issuer    |-> "InvalidIssuer",
   signature |-> "InvalidSignature",
   structure |-> "MalformedToken",
   token_use |-> "InvalidAudience",
   client_id |-> "InvalidAudience",
   no_sub    |-> "ValidationError"]

GetKeyRaises ==
  [unknown |-> "UnknownKid", unavailable |-> "JWKSUnavailable", crash |-> "AttributeError"]

AuthErrors ==
  {"MalformedToken", "UnknownKid", "InvalidSignature", "TokenExpired", "InvalidAudience",
   "InvalidIssuer", "JWKSUnavailable"}

(* The except clauses of get_current_user, in order; what is no AuthError  *)
(* passes them by.                                                         *)
StatusOf(exception) ==
  CASE exception \in AuthErrors \ {"JWKSUnavailable"} -> 401
    [] exception = "JWKSUnavailable" -> 503
    [] OTHER -> 500

Rejected(flawless, exception) == Response("mcp", flawless, StatusOf(exception), "nobody")

(* The rest of verify_token, given what get_key answered: a published key  *)
(* may turn out not to be an RSA key, which no clause expects.             *)
Verified(answer) ==
  IF answer = "key"
  THEN {[at |-> "identity"], Rejected(TRUE, "InvalidKeyError")}
         \cup {Rejected(FALSE, Rejection[flaw]) : flaw \in DOMAIN Rejection}
  ELSE {Rejected(flawless, GetKeyRaises[answer]) : flawless \in BOOLEAN}

Goes(r, next) == http' = [http EXCEPT ![r] = next]

GetKeyAnswers(r) == \E next \in Verified(calls'[r].answer) : Goes(r, next)

AwaitsGetKey(r) ==
  IF calls'[r].pc = "done" THEN GetKeyAnswers(r) ELSE Goes(r, [at |-> "auth"])

----------------------------------------------------------------------------
(* The Origin check, inside the access log, which therefore sees it.       *)
ForbidUnlogged(r, route) ==
  /\ http[r].at = "idle" /\ route \in ProtectedRoutes
  /\ Goes(r, [Response(route, FALSE, 403, "nobody") EXCEPT !.line = NoLine])
  /\ UNCHANGED vars

Forbid(r, route) ==
  /\ http[r].at = "idle" /\ route \in ProtectedRoutes
  /\ Goes(r, Response(route, FALSE, 403, "nobody"))
  /\ UNCHANGED vars

(* Health, the OAuth documents and registration: no await, no user.        *)
ServeDirectly(r, route) ==
  /\ http[r].at = "idle" /\ route # "mcp"
  /\ Goes(r, Response(route, FALSE, 200, "nobody"))
  /\ UNCHANGED vars

(* No bearer token, or a header without a kid.                             *)
RefuseUnread(r) ==
  /\ http[r].at = "idle"
  /\ Goes(r, Rejected(FALSE, "MalformedToken"))
  /\ UNCHANGED vars

Authenticate(r, k) ==
  /\ http[r].at = "idle"
  /\ FastPath(r, k) \/ GoIn(r, k) \/ Enqueue(r, k)
  /\ AwaitsGetKey(r)

ResumeWaiter == WakeUp /\ AwaitsGetKey(Head(waiters))

FetchEnds == (FetchSucceeds \/ FetchFails) /\ GetKeyAnswers(lock)

(* The identity resolver, which fails open.                                *)
Identify(r) ==
  /\ http[r].at = "identity"
  /\ \E user \in Users \ {"nobody"} : Goes(r, [at |-> "mcp", user |-> user])
  /\ UNCHANGED vars

(* The session manager starts its response, or raises before it does.      *)
SessionResponds(r) ==
  /\ http[r].at = "mcp"
  /\ \E status \in {200, 500} : Goes(r, Response("mcp", TRUE, status, http[r].user))
  /\ UNCHANGED vars

(* The next request may come.                                              *)
End(r) ==
  /\ http[r].at = "answered"
  /\ Goes(r, [at |-> "idle"])
  /\ IF calls[r].pc = "done" THEN Return(r) ELSE UNCHANGED vars

Environment ==
  CognitoAnswers \/ Tick \/ \E k \in CognitoKids : Publish(k) \/ Withdraw(k)

HttpNext ==
  \/ \E r \in Requests, route \in Routes : Forbid(r, route) \/ ServeDirectly(r, route)
  \/ \E r \in Requests : RefuseUnread(r) \/ Identify(r) \/ SessionResponds(r) \/ End(r)
  \/ \E r \in Requests, k \in Kids : Authenticate(r, k)
  \/ ResumeWaiter
  \/ FetchEnds
  \/ Environment /\ UNCHANGED http

(* The event loop runs a woken waiter; timeouts end a fetch and an         *)
(* identity lookup one way or the other; the session manager starts its    *)
(* event stream without waiting for a tool.  Nothing obliges anyone to     *)
(* call.                                                                   *)
HttpFairness ==
  /\ WF_httpVars(ResumeWaiter) /\ WF_httpVars(FetchEnds)
  /\ \A r \in Requests : WF_httpVars(Identify(r)) /\ WF_httpVars(SessionResponds(r))

HttpSpec == HttpInit /\ [][HttpNext]_httpVars /\ HttpFairness

----------------------------------------------------------------------------
(* r is refused with a 401 in this step: the client is told that its token *)
(* is at fault, and will not come back with the same one.                  *)
ToldItsTokenIsBad(r) ==
  /\ http[r].at # "answered"
  /\ http'[r].at = "answered" /\ http'[r].status = 401

(* A flawless token whose key Cognito has been publishing for a full       *)
(* interval, and for longer than a fetch lasts, gets a 401 only if the     *)
(* last refresh failed: key rotation does not log anybody out.             *)
RotationLogsNobodyOut ==
  [][\A r \in Requests :
       (/\ ToldItsTokenIsBad(r) /\ http'[r].flawless
        /\ calls'[r].kid \in published) =>
          \/ failed'
          \/ now - since[calls'[r].kid] < MinInterval
          \/ now - since[calls'[r].kid] <= FetchTimeout]_httpVars

(* A flawless token never gets a 401 from a process that has never seen    *)
(* Cognito's keys, however waiters and failures interleave: the outage is  *)
(* a 503, for a 401 makes the client throw its token away.                 *)
OutageIsNotTheTokensFault ==
  \A r \in Requests :
    http[r].at = "answered" /\ http[r].status = 401 /\ http[r].flawless =>
      fetchedAt # Never

(* A key that Cognito has withdrawn lets nobody in once the document that  *)
(* held it has expired, except while the refresh that should have replaced *)
(* it has just failed: revocation takes effect within a TTL and the length *)
(* of a fetch.                                                             *)
WithdrawnKeysForgotten ==
  [][\A r \in Requests :
       (/\ http[r].at # "identity" /\ http'[r].at = "identity"
        /\ calls'[r].kid \notin published) =>
          \/ now - since[calls'[r].kid] < TTL + FetchTimeout
          \/ failed' /\ now - lastAttempt' < MinInterval]_httpVars

(* Every response has its access line, the refusals of the inner layers    *)
(* and exceptions included, except a quiet route's; a line names a user    *)
(* only if that user's token was verified with a key Cognito has served    *)
(* and nothing was wrong with it.                                          *)
AccessLineTrue ==
  \A r \in Requests : http[r].at = "answered" =>
    LET line == http[r].line IN
    /\ line = NoLine <=> http[r].route \in QuietRoutes /\ http[r].status # 500
    /\ line # NoLine => line.status = http[r].status
    /\ line.user # "nobody" =>
         http[r].flawless /\ calls[r].pc = "done" /\ calls[r].answer = "key"
    /\ http[r].route = "mcp" /\ http[r].status = 200 => line.user # "nobody"

(* Every request is answered, whatever Cognito does: the lock is released  *)
(* on every path and its waiters are served in turn.                       *)
EveryRequestAnswered ==
  \A r \in Requests : http[r].at \in {"auth", "identity", "mcp"} ~> http[r].at = "answered"
=============================================================================
