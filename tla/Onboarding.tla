------------------------------ MODULE Onboarding ------------------------------
(***************************************************************************)
(* How a client that knows nothing but the server's URL comes to a token   *)
(* the server accepts: the validators of settings.py at boot, the 401      *)
(* challenge of auth/dependency.py, the two documents and the registration *)
(* shim of oauth/, the base URL of urls.py they are all derived from, and  *)
(* the client_id check of auth/verify.py.  The client is one that follows  *)
(* the standards the documents cite; Cognito's login is external.          *)
(*                                                                         *)
(* A URL is an origin, its scheme and host; the paths are constants of the *)
(* code.  Scopes, endpoints at Cognito and error texts are left out.       *)
(***************************************************************************)
CONSTANTS Hosts, ClientIds, RedirectUris, Origins,
          LocalOrigins,    \* what the patterns of a local server match
          ProdOrigins, StagingOrigins,
          Unset

Url == [scheme : {"http", "https"}, host : Hosts]

ASSUME OnboardingAssumption ==
  /\ LocalOrigins \cup ProdOrigins \cup StagingOrigins \subseteq Origins
  /\ Unset \notin Hosts \cup ClientIds \cup Origins \cup Url

VARIABLES settings,
          client     \* where it is, what it is, what it was told

onboardingVars == <<settings, client>>

(* The fields that the validators or the discovery read.                   *)
Settings ==
  [mcp_env : {"local", "staging", "prod"}, force_https : BOOLEAN,
   public_hostname : Hosts \cup {Unset}, redis_url : BOOLEAN,
   public_client_id : ClientIds, allowed_client_ids : SUBSET ClientIds,
   redirect_uris : SUBSET RedirectUris, allowed_origins_override : SUBSET Origins]

(* url is what the user entered; forwards, whether the proxy in front of   *)
(* the server passes on that it speaks https; told, the URL to go to next; *)
(* id, the client_id given to it.                                          *)
Client ==
  [at : {"entered", "challenged", "resource", "issuer", "registered", "in", "stuck"},
   url : Url, forwards : BOOLEAN, origin : Origins \cup {Unset}, redirect : RedirectUris,
   told : Url \cup {Unset}, id : ClientIds \cup {Unset}]

OnboardingTypeOK ==
  /\ settings \in Settings
  /\ client \in Client \cup {Unset}
  /\ client # Unset =>
       /\ client.at \in {"challenged", "resource", "issuer"} => client.told # Unset
       /\ client.at \in {"registered", "in"} => client.id # Unset

----------------------------------------------------------------------------
(* The validators; settings they refuse serve nobody.                      *)
AcceptsUnlisted(s) ==
  s.mcp_env # "local" => s.force_https /\ s.public_hostname # Unset /\ s.redis_url

Accepts(s) ==
  /\ s.mcp_env # "local" => s.force_https
  /\ s.mcp_env # "local" => s.public_hostname # Unset
  /\ s.mcp_env # "local" => s.redis_url
  /\ s.public_client_id \in s.allowed_client_ids

AllowedOrigins(s) ==
  CASE s.allowed_origins_override # {} -> s.allowed_origins_override
    [] s.allowed_origins_override = {} /\ s.mcp_env = "local" -> LocalOrigins
    [] s.allowed_origins_override = {} /\ s.mcp_env = "staging" -> ProdOrigins \cup StagingOrigins
    [] OTHER -> ProdOrigins

(* A client that is no browser sends no Origin.                            *)
Passes(s, origin) == origin = Unset \/ origin \in AllowedOrigins(s)

(* What a request to url looks like to the server, behind its proxy.       *)
SeenAs(url, forwards) == [url EXCEPT !.scheme = IF forwards THEN @ ELSE "http"]

EffectiveBaseUrl(s, seen) ==
  IF s.public_hostname # Unset
  THEN [scheme |-> IF s.force_https THEN "https" ELSE "http", host |-> s.public_hostname]
  ELSE seen

(* The one value the challenge and both documents are built from, when the *)
(* client asks at url.                                                     *)
BaseUrl(url) == EffectiveBaseUrl(settings, SeenAs(url, client.forwards))

----------------------------------------------------------------------------
OnboardingInit ==
  /\ settings \in {s \in Settings : Accepts(s)}
  /\ client = Unset

Arrive(url, forwards, origin, redirect) ==
  /\ client = Unset
  /\ client' = [at |-> "entered", url |-> url, forwards |-> forwards, origin |-> origin,
                redirect |-> redirect, told |-> Unset, id |-> Unset]
  /\ UNCHANGED settings

Stuck == client' = [client EXCEPT !.at = "stuck"]

(* Every route on the way checks the Origin before anything else.          *)
Forbidden ==
  /\ client # Unset /\ client.at \notin {"in", "stuck"}
  /\ ~Passes(settings, client.origin)
  /\ Stuck
  /\ UNCHANGED settings

Reaches(at) ==
  /\ client # Unset /\ client.at = at
  /\ Passes(settings, client.origin)
  /\ UNCHANGED settings

(* A call without a token: 401, with the address of the PRM.               *)
Challenge ==
  /\ Reaches("entered")
  /\ client' = [client EXCEPT !.at = "challenged", !.told = BaseUrl(client.url)]

(* build_prm: resource and authorization server are the same base URL.     *)
(* The client refuses a resource that is not the URL it was challenged at. *)
ReadResourceMetadata ==
  /\ Reaches("challenged")
  /\ LET base == BaseUrl(client.told) IN
     IF base = client.url
     THEN client' = [client EXCEPT !.at = "resource", !.told = base]
     ELSE Stuck

(* build_as_metadata; the client refuses an issuer that is not the URL it  *)
(* asked at.                                                               *)
ReadServerMetadata ==
  /\ Reaches("resource")
  /\ LET base == BaseUrl(client.told) IN
     IF base = client.told
     THEN client' = [client EXCEPT !.at = "issuer", !.told = base]
     ELSE Stuck

(* register_client, with an allowlist that may be empty.                   *)
Register ==
  /\ Reaches("issuer")
  /\ IF client.redirect \in settings.redirect_uris
     THEN client' = [client EXCEPT !.at = "registered", !.id = settings.public_client_id]
     ELSE Stuck

(* Cognito issues an access token for that client_id; verify_token looks   *)
(* at whether it is one of ours.                                           *)
CallWithToken ==
  /\ Reaches("registered")
  /\ IF client.id \in settings.allowed_client_ids
     THEN client' = [client EXCEPT !.at = "in"]
     ELSE Stuck

Step ==
  Forbidden \/ Challenge \/ ReadResourceMetadata \/ ReadServerMetadata \/ Register \/ CallWithToken

OnboardingNext ==
  \/ \E url \in Url, forwards \in BOOLEAN, origin \in Origins \cup {Unset}, redirect \in RedirectUris :
       Arrive(url, forwards, origin, redirect)
  \/ Step

OnboardingSpec == OnboardingInit /\ [][OnboardingNext]_onboardingVars

----------------------------------------------------------------------------
(* The URL the server answers for: its public name, or, for a local server *)
(* without one, whatever URL reaches it through a proxy that says https.   *)
AnswersFor(url, forwards) ==
  IF settings.public_hostname # Unset
  THEN url.host = settings.public_hostname /\ (url.scheme = "https" <=> settings.force_https)
  ELSE url.scheme = "https" => forwards

(* Every deployment the validators let boot can be used: a client that     *)
(* enters the server's URL and has a redirect URI and an origin that are   *)
(* listed never finds a document it must refuse, and its token is          *)
(* accepted.  A staging or production server sends nobody to another host, *)
(* or to http, whatever the request looked like.                           *)
OnboardingSound ==
  client # Unset =>
    /\ client.at = "stuck" =>
         \/ ~AnswersFor(client.url, client.forwards)
         \/ client.redirect \notin settings.redirect_uris
         \/ client.origin # Unset /\ client.origin \notin AllowedOrigins(settings)
    /\ settings.mcp_env # "local" /\ client.told # Unset =>
         client.told = [scheme |-> "https", host |-> settings.public_hostname]
=============================================================================
