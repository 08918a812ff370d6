# A TLA+ development of the AutoDS MCP server

The server (`src/autods_mcp_server`) lets an MCP client call AutoDS REST
operations as tools. Every request carries a Cognito token; every tool call is
rate limited, tracked, validated, forwarded with the caller's own token, mapped
to a typed answer and audited. It runs as 2-10 replicas of 5 uvicorn workers that
share nothing but Redis.

This directory models in TLA+ its concurrent and time-dependent parts, a request's
way through middleware and authentication, a client's way from the server's URL to a
token and to answers, the boot lints and validators that protect them, and the playbook
hints a client follows. TLC checks the modules on small instances; TLAPS proves the
safety of all of them for every value of their parameters: every invariant that holds on
a run is also a theorem.
`PROJECT.json` lists the runs, the mutants that show that each property can fail, the
source lines behind each definition, the hazards, the findings and the theorems.

## Inventory

Paths are relative to `src/autods_mcp_server`.

| Component | State | Operations | Talks to |
|---|---|---|---|
| rate limiter, in process (`ratelimit.py`) | bucket states per user, asyncio lock | `acquire` | called by `on_call_tool` |
| rate limiter, Redis (`ratelimit.py`, `ratelimit.lua`) | a hash and a TTL per user and bucket | `acquire`: read the host's clock, await the script | Redis, shared by all workers |
| JWKS client (`auth/jwks.py`) | key cache, last success, last attempt, lock | `get_key` (`refresh` is unused) | Cognito; called by `verify_token` |
| authentication (`auth/dependency.py`, `auth/verify.py`, `auth/exceptions.py`) | what it writes to `request.state` | `get_current_user` | JWKS client, identity resolver; its answer is the request's |
| identity (`identity.py`) | L1 ordered dictionary per worker, L2 keys in Redis | `resolve` | Redis, upstream |
| tool call pipeline (`mcp_transport.py`) | per call: position, `audited` | `on_call_tool`, `mcp_lifespan` | limiter, analytics, dispatcher, thumbnails |
| dispatcher (`dispatch.py`) | none | build a request, send, parse | upstream |
| analytics (`analytics.py`) | pending sends | track, `drain` | Mixpanel, worker threads |
| thumbnails (`image_fetch.py`) | gate, per-call semaphores, decode pool | `fetch_thumbnails` | supplier CDNs, threads |
| answer builders (`business_errors.py`, `images.py`, `product_links.py`, `omit.py`, `payload_paths.py`, `errors.py`) | none | pure functions of a payload | `on_call_tool` |
| CDN table (`image_rewrites.py`) | a table of families | rewrite a URL, check an origin | `images.py`, `image_fetch.py`, the widgets' policy |
| widgets and resources (`widgets/`, `mcp_transport.py`) | none | `resources/list`, `resources/read` | playbooks, clients |
| playbooks and manifests (`manifests/`, `tools.py`) | registries built at boot | lints, lookups, hints | `on_call_tool`, `list_tools` |
| OAuth discovery and registration (`oauth/`, `urls.py`) | none | the 401 challenge, two documents, registration | settings, the request's URL |
| middleware and app (`middleware.py`, `app.py`) | request context variables | access log around Origin check around routes | every request |
| settings (`settings.py`) | read once | validators that refuse to start | everything above |
| logging, Sentry, Redis factory | none | reporting | none |

Hard behaviours, and what makes each component correct:

* **Limiter**: a call passes only if it fits under both buckets; no pattern of
  bursts, refusals and pauses mints or loses allowance; the retry hint is the first
  moment that can succeed. With Redis: clocks of several hosts, commands that
  overtake one another or arrive after their hash has expired, lost replies.
* **JWKS client and authentication**: one fetch at a time and per interval, outages
  included; no deadlock on the lock; a key is refused or served stale only for the
  documented reasons. A client that is told 401 throws its token away, so an outage and
  a key rotation must read as something else; the access line must name a user only if
  the token was accepted, and no refusal may escape it.
* **Identity**: two cache tiers without locks; bounded age of what is served;
  failures are not cached for longer than intended.
* **Tool call**: exactly one audit line per answered call whatever raises and wherever,
  after the line included; nothing before admission; shutdown ends although calls and
  sends hang, and leaves no event behind that it could have waited for.
* **Thumbnails**: two semaphores, a bounded pool whose threads cannot be cancelled,
  a shared deadline: no place leaks, nobody starves, memory is bounded.
* **Pictures**: every hop of a download goes to a host, and by a scheme, that a browser
  showing the widget would use too; what the answer says of its pictures is true after any partial failure.
* **Answer builders, lints**: sequential, and far apart: a lint at boot is all that
  bounds what a builder does to a payload whose shape the upstream changes at will.
  What `omit` removes hides no error code and no picture, a credential path that removed
  nothing is reported, links open pages that exist, the caller learns nothing from a 5xx
  and of a 4xx one harmless line.
* **Onboarding**: challenge, documents, registration and token check are separate
  stateless requests, answered from settings, or from what a proxy passes on; a client
  stops at the first that contradicts another.
* **Resources**: two kinds share a list and a handler; what is advertised can be read.
* **Playbooks**: the server has no session, so a hint must be true whichever of the
  chains that share an operation the caller is in; a chain has no unreachable step;
  following the hints ends the chain and repeats no effect that may not be repeated.

## Modules

| Module | Models | How state and actions correspond |
|---|---|---|
| `TokenBucket` | `evaluate_buckets`, the Lua arithmetic | operators only. A level counts refill ticks: a token is `Per` ticks, so all quantities are integers and the retry hint is the missing level |
| `RateCeiling` | the abstract promise, no bucket in it | a call is allowed iff it fits every window; a refusal names the first moment that fits |
| `InMemoryLimiter` | `InMemoryRateLimiter` | `states` is `_states`, `Acquire` the whole locked body; `used` and `verdict` are observations; refines `RateCeiling` |
| `RateLimiter` | `build_rate_limiter` | composes the two limiters: `limiter` is the one the settings pick, the other's variables stand still |
| `RedisLimiter` | `RedisRateLimiter` and the script | `Send` fixes the stamp, `Execute` is the script with its EXPIRE, `Deliver` / `RedisFails` end the await; `granted`, `latest`, `late`, `ranAt` and `overdue` are observations |
| `JwksClient` | `JWKSClient` | actions only, no specification of its own: `GoIn`, `Enqueue`, `WakeUp` are the FIFO lock, `InLock` the code up to the next await, `FetchSucceeds` / `FetchFails` the code after it; `Publish`, `Withdraw` are Cognito's |
| `HttpPipeline` | `middleware.py`, `get_current_user`, `verify_token`, `mount_mcp` | extends `JwksClient`: `http[r]` is where request `r` is. `Forbid`, `ServeDirectly`, `RefuseUnread` end without an await; `Authenticate`, `ResumeWaiter`, `FetchEnds` are `JwksClient`'s steps with what the except clauses make of their outcome; `Identify` and `SessionResponds` follow |
| `Thumbnails` | `fetch_thumbnails` and the pool | a stage per image; `slots` and `gate` are the semaphores' counters; a body whose task was cancelled belongs to `Nobody` |
| `IdentityCache` | `CachedIdentityResolver`, `SelfIdentityResolver` | `l1` is the ordered dictionary (a sequence), `l2` the Redis keys; one action between two awaits |
| `ToolCall` | `on_call_tool`, `MixpanelClient`, `mcp_lifespan` | `call[c].pc` is the await a call is suspended at, `lines` the audit log, `phase` the process's shutdown |
| `Playbooks` | `manifests/playbooks.py` | operators: the registry's lookups, the lints, both hints in both forms. A hint is a record of what its text tells the reader |
| `Chains` | the boot of the registry, and a client | `Load`, `LintNext`, `Visit`, `Judge` are the boot (`frontier` and `reachable` are lint 3b's walk); the client is external and knows only what the answers say |
| `Payloads` | `payload_paths.py` | a JSON document is a function from addresses to nodes, a path resolves to addresses |
| `Envelopes` | the manifest's records, the lints of `tools.py`, `images.py` and `omit.py`, the builders, `_build_request` | operators of the manifest, the arguments and a payload; a text of a failed reply is an identifier, which `OnOneLine` takes to that of its one-line form, and `Leaky` holds those with a marker in them |
| `ThumbnailUrls` | `image_rewrites.py` | operators over the table of CDN families; a URL stands for a shape the patterns tell apart and has a scheme, a host and a port, of which the origin check reads the first two |
| `Resources` | the resource list and `on_read_resource` | a URI is the sequence of its parts and marks |
| `Answer` | `build_tools` and the data path of `on_call_tool` | actions only: `Boot` is the lints; `Receive` validates and forwards, or hands over to `_playbook_result`; `Succeed` is the envelope in the code's order, `Fail` the mapped error; `TakePicture` to `BatchRaises` are `_fetch_one`'s hops and what `_attach_thumbnails` makes of the batch; `Read` is `resources/read` |
| `Onboarding` | `settings.py`, `urls.py`, `oauth/`, the challenge, the `client_id` check | `settings` is what the validators let boot; `client` walks challenge, PRM, AS metadata, registration and first call, and is `"stuck"` where it must refuse what it is told |
| `Session` | `create_app` and a client | composes `Onboarding` and `Answer`: no call before the boot, none before the token is accepted |
| `MC*` | | parameter values and symmetry sets only |
| `PayloadProofs` | | lemmas about `Payloads`: what flattening, selecting, `Resolve` and `Without` return, for sequences and paths of any length |
| `*Proofs` | | the theorems below, one module per component (`LimiterProofs` for both limiters, `SessionProofs` for `Onboarding`, `Answer` and `Session`) |

`InMemoryLimiter`, `RedisLimiter` and `RateCeiling` share `TokenBucket`; the two
limiters have no name in common, so that `RateLimiter` composes them, and `LimiterProofs`
extends both and states the lemmas about buckets once.
`ToolCall` composes the pipeline with analytics and the lifespan, and takes the
limiter, the upstream and the thumbnails as environments that may answer anything,
in any order, at any time; their own modules say what they answer. `ToolCall` knows
of an answer only that it is one; what is in it is `Answer`'s, which uses `Envelopes`,
`Payloads`, `ThumbnailUrls` and `Resources`. In `Answer` the downloads of one call are
taken one after the other: they share nothing but the result, and their concurrency is
`Thumbnails`'s. `Chains` uses `Playbooks`. `InMemoryLimiter` names its abstract
specification `Ceiling == INSTANCE RateCeiling WITH ...`, and `ImplementsCeiling` is
that specification's own formula under that mapping.

Conventions. Coroutines interleave only at awaits, so an action is the code between
two awaits. Time is an integer clock with a `Horizon`; every such bound is a
constant. A definition that only differs from the code (`ChargedRegardless`,
`CachedKey`, `GateQueueKept`, ...) stands right before the definition it deviates
from: it is the plausible bug the corresponding property is shown to catch, and no
specification uses it.

## Runs

| Run | Question | Bounds and why they are enough |
|---|---|---|
| `rate_limiter` | are both ceilings kept in every window, is every answer due, and what of it is left with late commands, failures and TTLs? | capacities 1 and 2, a token per 1 and 2 ticks: both buckets are drained, either is the deficient one, a token comes back between refusals. In process: two users, symmetric, 6 ticks. Redis: two workers, symmetric, up to two ticks of delay where EXPIRE adds one, so that commands are late, overdue or both; 5 ticks, within which both hashes expire and are written anew |
| `redis_ceiling` | does the limit hold cluster-wide? (violated) | no delay, no failure, one clock a tick ahead |
| `http` | who is told that a token is bad, what is logged, how often Cognito is asked, is everyone answered? | two requests; a key that rotates and one that never exists; TTL, interval and fetch of 2 over 4 ticks: a document expires, its refresh fails, the stale key is served, a waiter meets the throttle. `WithdrawnKeysForgotten` allows a TTL and the length of a fetch, because a fetch that began before the withdrawal may install the key when it ends |
| `thumbnails` | places, pool, deadline, progress | batches of up to 3 over 2 slots, a gate of 3 for two calls, one thread, 3 batches: every queue is contended and a deadline leaves orphans behind that a later batch meets |
| `thumbnail_bodies` | are the bodies in memory bounded by the gate? (violated) | same |
| `identity_cache` | how old can an answer be? | TTLs 2 and 1, a delay of 1, one L1 entry for two subs, two workers, 4 ticks: one tick beyond the bound, so an overrun would show |
| `tool_call` | is the audit line true, and does shutdown end? | two calls with every tool kind, one pending send allowed: the cap, the drain and its timeout all happen, with the other call at any of its awaits, and an exception strikes before and after each line |
| `tool_call_audit` | is every forwarded call audited? (violated) | same |
| `chains` | do the lints accept what they should, and what comes of a client that follows the hints? | every graph on three steps and every kind of broken file for the lints; for the hints, two files that share an operation, at the entry or later, with every pair of `on_failure` blocks |
| `chain_tail` | is a merged "idempotent" true for every candidate? (violated) | same |
| `session` | what do validators and lints guarantee a client, from its first request to its answers? | *Onboarding*: settings (every environment, https or not, named or not, public client listed or not, redirect and origin lists empty or not) against every visitor (URL, proxy, origin, redirect URI), with one operation. *Answers*: one search whose manifest varies part by part (omits, caps, links, constants, and each lint's refusals), a local operation, calls with and without a body, with one the schema refuses and with undeclared arguments, payloads with fields missing, null, moved, bare or wrapped, every status class, with the usual settings. Up to three items of up to three pictures over caps of 1 to 3 and a ceiling of 4; two redirects; hosts that look like a CDN, and a CDN at a port of its own; details whose marker survives the joining of blanks and one whose marker does not; URIs with query, fragment, both, unknown |
| `error_markers` | is no text with a marker forwarded? (violated) | same |

Deadlock checking is off in `Thumbnails*.cfg` (all batches may be over), in
`ToolCall*.cfg` (the process stops), in `MCChains.cfg` and `ChainTail.cfg` (the boot
is refused, or the client is done) and in `MCSession.cfg` and `ErrorMarkers.cfg` (the
boot is refused, or the client is stuck), and on elsewhere. The two limiter modules and
`IdentityCache` have no deadlock at the horizon because calls go on while the clock
stands still.

### Fairness

* `HttpPipeline`: weak fairness of the woken waiter (the event loop runs what is
  ready), of the end of a fetch and of an identity lookup (httpx's timeouts end them,
  one way or the other), and of the session manager's response, which starts its event
  stream without waiting for a tool. Nobody is obliged to call, to rotate or to let
  time pass.
* `Thumbnails`: weak fairness of every step of the event loop and of the threads,
  and of the end of a download: each read is timed and `max_bytes` bounds their
  number. The deadline gets none, so progress is shown without its help.
* `ToolCall`: only the shutdown sequence is fair, because uvicorn's window and
  drain's `wait_for` are timeouts. Limiter, upstream, Mixpanel and CDNs may hang.
* The others have safety properties only.

## What the checks found

1. **The Redis ceiling is not cluster-wide in the presence of clock skew**
   (`redis_ceiling`). The script clamps a negative elapsed time to zero but still
   stores the older stamp, so the next call refills the same interval again; even a
   refused late call does it. Scripts in the order of their stamps are not enough
   either: `EXPIRE` counts on Redis's clock from the moment a script runs, the refill
   counts the hosts' stamps, and one second is all that `ratelimit.lua:36` adds for the
   difference. A command that is longer under way (the Redis client has no socket
   timeout), or whose host's clock is further off, finds the hash gone and a full bucket
   at a stamp at which it was not full. `PromptCeiling` shows that these two are all: in
   order, and no more than that second behind, the ceilings hold through lost replies,
   failures after the charge and expiring hashes.
2. **The gate does not bound the bodies in memory** (`thumbnail_bodies`): a deadline
   returns the gate's place at once, but the body stays with the executor until a
   thread is done with it.
3. **A cancelled call leaves no audit line** (`tool_call_audit`), even when its
   request reached the upstream; the repository's README promises a line for every call.
4. **A merged hint can say "idempotent" for a step that does not say so**
   (`chain_tail`): the tail asks only the candidates that declare `on_failure`, so a
   silent chain counts as agreeing. `NoDuplicateWrite` limits the consequence: no
   effect declared not to be repeatable is ever repeated.
5. **One leak marker is never found** (`error_markers`): the detail of a 4xx is joined
   with single blanks (`errors.py:77`) before it is searched for `"  at "`, which begins
   with two, so the stack of a script is forwarded on one line. `ErrorsSafe` is what
   holds: no marker is in the line that the caller is told.

Worth knowing, though no run is about it alone:

* An identity can be served for the sum of both cache tiers' TTLs, and for no longer
  (`IdentityAgeBounded`). Within the JWKS throttle window an unknown key is reported
  without a refresh; `RotationLogsNobodyOut` bounds for how long a rotation can cost
  anyone their token.
* A JWKS document that is JSON but not an object raises `AttributeError` past
  `_refresh`'s handler (`jwks.py:140`), and a key that is not RSA raises out of
  `_load_public_key`, before the `try` of `verify_token` (`verify.py:78`): both are a
  500 where the repository's README promises a 503 for malformed JWKS. The model has
  both; lock, cache and access log survive them.
* `OriginAllowlistMiddleware`'s docstring promises a Host check that `dispatch` does
  not make (`_host_from_header` is unused).
* A comment at `tools.py:184` says that the validator rejects a field it has not been
  told about; the schema lets unknown names through, and it is `_build_request` that
  drops them (`ForwardedExactly`).
* `is_allowed_origin` compares scheme and host name (`image_rewrites.py:308-319`), so the
  server follows a redirect to an allowed host at a port of its own, where the widget's
  policy, whose sources name no port, allows the scheme's default port only. The
  docstring's "never looser than the sandboxed one" holds of hosts and schemes:
  `NoOtherHostThanTheWidget`, with such a redirect among its URLs.
* An exception after the line of an upstream outcome (while the envelope is built, a detail
  reported, a hint rendered) answers `internal_error` under a line that says something
  else; `AuditedOnce` says so, and that no second line follows.
* A credential path that removed the token of one item is not reported for another item
  whose shape has moved: `unmatched_credential_paths` reports per path, as its docstring
  says, and `OmitHonest` states no more.
* An unknown `base_url_key` passes the boot and fails at the first call
  (`settings.py:222`), as an internal error.

## What is proved

`LimiterProofs`, of the in-process limiter, for any set of users, any subset of the two buckets, any
positive capacities and refill periods and any horizon (the assumptions of
`TokenBucket` and `InMemoryLimiter`):

* `TypeCorrect`: levels stay within 0 and capacity, stamps never run ahead.
* `WindowCeilingHolds`: no user is over a ceiling in any window.
* `LimiterImplementsCeiling`: the limiter refines `RateCeiling`; its answers and
  retry hints are exactly those of a specification without buckets.

The argument rests on `IInv`. A bucket remembers one number, a window ceiling
quantifies over every past moment; `IInv` ties them together: what a bucket holds
now is the slack of the tightest window that ends now. *Never more*
(`LevelWithinSlack`) gives the ceiling: a token is only handed out when every window
has room. *Never less* (`LevelIsSomeSlack`) gives the converse half of the
refinement: a refused call really does not fit some window, and one tick before the
hinted moment it still would not. `NothingUsedAhead` is needed when the clock
advances and a new, empty window opens. TLC checks the parts of the argument on the
small instance; `InductiveInvariant` proves that `IInv` is one.

`ChainsProofs`, for any playbook files and any operations (the assumptions of
`Playbooks`, and that a configuration is a sequence of files):

* `BootIsExact`: the boot serves exactly the sound sets of files, in whatever order
  lint 3b's walk takes its frontier.
* `HintsStayInChain`, `DoneOnlyAtTheEnd`: a client that follows the hints never leaves
  its chain, and is told that nothing more is needed only at its end.
* `ChainsTypeCorrect`: among the types, that a client is only ever at an operation the
  server serves, because every file that is served was found to name no other.
* `NothingRepeated`: what a failure hint says holds for the caller's own step, and no
  effect that may not be repeated takes place twice.

The argument has two invariants. `IInv` is the walk's: what has been seen is
reachable from the entry, and every successor of what has been left behind has been
seen, so an empty frontier means that the seen positions are the reachable ones.
`ClientInv` adds what the client relies on without knowing it: the operation it is at
is a step of its own chain (`InChain`), hence among the candidates every hint is
rendered from, the hint it holds after a failure is the one for that operation
(`TailIsHint`), and an effect has landed twice only where the step's own block lets it
be repeated (`LandedOnce`).

`SessionProofs`, for any deployment, operation, arguments and replies (the assumptions of
`Onboarding`, `Answer`, `Resources` and `Session`: what values the constants are). Seen
from the client's place a session is an onboarding (`SessionOnboards`), so of the way in:

* `EveryDeploymentUsable`: whatever settings the validators accept, a client that enters
  the URL the server answers for, with a listed redirect URI and no unlisted origin, is
  never stuck; and a staging or production server never names any URL but its public one
  over https.
* `OnboardingTyped`.

`OnboardingSound` is not inductive: it says nothing of what a client that is not stuck has
been told. `Consistent` adds it: a client at the server's own URL has been told that very
URL by every document (`BaseUrlOfOwn`), so it finds no contradiction at the next; and the
`client_id` it was given is the public one, which the validators found among the allowed.

And of the calls that follow:

* `NothingElseForwarded`: `ForwardedExactly`, for every operation the lints let through.
* `ErrorsAreSafe`: `ErrorsSafe`, for every status and document, and whatever texts are
  one another's one-line form (`EnvelopesAssumption`: putting on one line twice is once).
* `LinksAreHonest`: `LinksHonest`, for every payload and arguments.
* `ResourcesAreReadable`: `ResourcesReadable`, for every URI and any names without a mark.

`CallInv` carries the lints' verdict from the boot into each later phase, that a call under
way has no result yet (nor, before the answer, a reply), and that pictures are added to
the very envelope made of the reply (`PhaseOK`); links are true before the pictures
have come as well (`LinksTrue`), and what was read is what the handler made of the URI
(`ReadTrue`). The rest is said of the operators, for any input: `RequestExact`,
`DetailIsSaid`, `LinksOfBlock`, `AddressIsMeant`, `ReadAtAddress`. Two assumptions are about
data of the repository and no code checks them: a body field that chooses a route whose
path holds a status is the status (`ManifestsAssumption`; the lint compares the value
only, so a manifest that gated `store_draft` on `page` would boot), and names of playbooks
and widgets hold no `?` or `#` (`ResourcesAssumption`).

And of the answers, for payloads, paths and blocks of any size:

* `NothingIsHidden`: `NothingHidden`, whatever `omit` removes.
* `OmitsAreHonest`: `OmitHonest`, for overlapping paths and wildcards too: what is gone
  from `data`, which paths `omitted` names, and which ones the log reports, each exactly.
* `PicturesAreHonest`: `PicturesHonest`, whichever pictures land.
* `AsksNoMoreThanTheWidget`: `NoOtherHostThanTheWidget`, over any chain of redirects.
* `AnswersTyped`: `TypeOK`, a trimmed payload's being a document included.

These rest on three layers. `PayloadProofs` says what the operators on sequences and
documents return: `Resolve` finds exactly the addresses its path leads to (`ResolveFinds`),
a document without some of its nodes is a document again (`WithoutIsWellFormed`), and
removing twice is removing the union (`WithoutTwice`). From that, in `SessionProofs`,
what a builder makes of any payload: an omit entry removes what its path leads to *in the
document the entries before it have left* (`TrimIs`), and `OmitStep` shows by induction
that this adds up to what the paths lead to in the payload as it came: an entry whose
targets are gone already, with a parent that an earlier entry removed, changes nothing.
`UrlsAre` and `ExtractIs` bound and place the pictures; the ceiling on a result follows
from the lint's product of items and pictures per item, by no cut of its own
(`PicturesAre`). Last, `HonestInv` ties the state to them: an answer that is out is the
envelope of its very reply, with the pictures that landed (`AnswerTrue`), a batch under
way fetches that envelope's pictures (`BatchTrue`, `Fetching`), and every URL it has
asked was allowed when it did (`AllowedIsLoaded`). None of the properties is inductive
alone: they speak of delivered answers only, and of a payload that the answer no longer
shows.

`NoOtherHostThanTheWidget` compares the origin check of `image_rewrites.py` with what the
policy lets a browser load, by the policy's own matching rules (`PolicyAllows`: a wildcard
stands for one label or more, http admits https), not by `Covers`; the theorem is that the
check, which compares suffixes of reversed hosts, never goes beyond them, the port aside.
With the port it does. The remaining assumptions fix the values the constants stand for: every
URL that is published has a scheme and a host (`EnvelopesAssumption`), `None` is no
request and no batch (`NoneAssumption`), and the names the model gives to the elements of
a list occur in no path (`Path`), since a path of the manifest cannot index a list.

`HttpPipelineProofs`, for any requests, key ids, TTL, refresh interval, fetch timeout
and horizon (the assumption of `JwksClient`: these are numbers, and `NoOne` is no
request):

* `HttpTypeCorrect`, `OutageSparesTokens`, `AccessLineHolds`: the types, and
  `OutageIsNotTheTokensFault` and `AccessLineTrue`.
* `AttemptsAreSpaced`, `RotationIsHarmless`, `RevocationTakesEffect`: the three action
  properties, `AttemptsSpaced`, `RotationLogsNobodyOut`, `WithdrawnKeysForgotten`.

`ClientInv` is inductive for the client whatever requests surround it: whoever holds the
lock is the one that fetches, it has stamped its attempt and is not overdue, and the
queue holds each waiter once (`LockInv`); every document was true at a known time, the
one on the wire since the attempt began, the cached one since a fetch before it arrived
(`DocumentInv`, by `TrueSince`). The two bounds on rotation and revocation are what
`TrueSince` says at the moment a waiter resumes. `HttpInv` adds where a request may be
given its call (`PlaceOK`).

`ToolCallProofs`, for any calls, an infinite set of them included, any tools and any cap on
the pending events: `ToolCallTypeCorrect` and `AuditedOnceHolds`. An exception may follow the
line of an upstream outcome, good or bad, and the caller is then told of an internal error
under that line; nothing else may differ. `AuditedOnce` speaks
of answered calls only; `LinesFit` says for every place of the pipeline which audit lines a
call can have there and what it has been answered, so that none of the exits, the
catch-all and the cancellation emits a second one or the wrong one. That there are few
pending events has to be carried along (`PendingFew`), for nothing else makes their set
finite.

`LimiterProofs`, of the Redis limiter, for any workers, clock offsets, delays and ceilings:

* `RedisTypeCorrect`, and `RefusalsAreDue`: `RefusedOnlyAtCeiling`, in whatever order
  the scripts run. Out of order the limiter grants too much, never too little: a stored
  level is never below what some window has left (`NoTokenLost`).
* `PromptCeilingHolds`: `PromptCeiling`. While scripts run in the order of their stamps
  and promptly, no bucket holds more than any window has left, and every hash expires a
  full refill and `Grace` after its script ran (`InOrder`); so one that has expired
  would have refilled (`ExpiredIsFull`).

"Promptly" is not for the prover's sake. `overdue` records that some script ran, on
Redis's clock, more than `Grace` longer after its predecessor than their stamps are apart,
`Grace` being the constant second that `ratelimit.lua:36` adds. The code bounds neither the
skew of the clocks nor the delay of a command, so no condition on the constants could be
justified by it: the history of a run has to say whether the second was enough. Without
`~overdue` the ceiling is violated on the very instance of `rate_limiter`: a command sent at
once, and two ticks under way, finds the hash of its bucket expired.

`IdentityCacheProofs`, for any workers, requests, subs, TTLs, cap and delay:
`IdentityTypeCorrect`, `IdentityAgeHolds` and `FailureRetriedHolds`. `AgeInv` bounds the
expiry and not the age: an L2 key expires at most a delay and a TTL after its lookup
(`KeyFresh`), an L1 entry, which may be copied from it in its last tick, at most a TTL
later (`EntryFresh`); and a resolution under way has looked the user up since it began
(`CallTimed`). A dictionary has one entry for a sub after any move, eviction and
put (`WithoutDictionary`, `AppendDictionary`, `TailDictionary`).

`ThumbnailsProofs`, for any calls (infinitely many included), images, widths and threads:
`ThumbnailsTypeCorrect`, `SlotsAreConserved`, `PoolIsConsistent` and `LandedStay`. What
`FetchInv` adds to the properties: who is in the gate's queue waits for the gate and is
in it once (`GateQueueSound`), the pool's items are the images at the decode stage
(`PoolSound`), the slots add up for a call that does not run either (`SlotsCounted`), and
the sets that are counted are finite although `Calls` need not be.

Only model-checked:

* Liveness (`EveryRequestAnswered`, `ShutdownCompletes`, `ShutdownFlushes`,
  `BatchesAnswered`): fairness and ENABLED are out of the prover's reach.
* Absence of deadlock, where TLC checks it.

The provers know nothing of `SelectSeq`, of `FoldLeft` and of `@@`, and the library's
induction theorems, which take an operator as a parameter, cannot be used. Where a
specification is proved about it therefore says directly what these would compute:
`IdentityCache!Without` removes the one entry of a sub by its place,
`Thumbnails!GateQueueLeft` keeps the waiters of other calls by the one increasing map of
the places that remain, the link of an item and the detail of an error are the first of
their kind by their index (`LeastOf` is what is known of a least index),
`Envelopes!Updated` is a dictionary's update, and `Payloads!Only` selects by flattening
pieces of one element or none. `Resolve` and `ApplyOmit` are recursive functions.
Induction is then done over sets: a set of numbers that has 0 and the successor of each
of its members has all of `Nat` (`NatIsClosed`, from the well-foundedness of `<`), and a
set of sequences that has the empty one and every extension of its members has them all
(`SeqIsClosed`).

## What is not modelled

* Float rounding of token levels and the millisecond ceiling of the Redis hint:
  levels are integers in refill ticks.
* redis-py's own reconnects and retries, asyncio's and httpx's internals, the MCP
  SDK's session manager beyond "handlers run in its task group".
* The cancellation of a request that waits for the JWKS lock; the cancellation of
  its fetch is the `"crash"` outcome of `FetchFails`.
* The Pillow decode (its outcome only); `shutdown_encoders`, which runs when the process
  is about to end.
* What PyJWT checks: a flawed token is refused with one of the exceptions it may raise.
* Request ids, headers, the bodies of errors; the other fields of the OAuth documents,
  Cognito's login.
* The text of answers, hints and log lines, and the lints about it (size budgets of
  rendered hints, notation of paths, words the notes must contain); the lints on
  annotations, parameter patterns and integer enums, a check of one field each.
* The cut of an error detail to 200 characters; of several redirect URIs in one
  registration (`registration.py:86` wants each of them listed) the model has one; an
  L2 value that is JSON and not an object (`identity.py:241`).
* Labels of pictures (read as identifiers are); the patterns of the CDN table, of which
  each URL of the model stands for one outcome; the wire spelling of arguments.
* Names of playbooks and widgets with a `?` or `#` in them, which would be advertised and
  not be readable; the shipped ones have none.
* Loading of manifests (a parse, a merge and a duplicate check at boot), logging, Sentry
  (one scrubbing pass per event, read by nobody in the program), the Redis factory.
* Scripts, tests and data.

## Plan

Done: 1-12.

1. `TokenBucket`, `RateCeiling`, `InMemoryLimiter` with its proofs.
2. `RedisLimiter`, `RateLimiter`.
3. `JwksClient`.
4. `Thumbnails`.
5. `IdentityCache`.
6. `ToolCall` with analytics and the lifespan.
7. `Payloads`, `Envelopes`, `Answer`.
8. `Playbooks`, `Chains` with its proofs.
9. `HttpPipeline` over `JwksClient`.
10. `ThumbnailUrls`, `Resources`, `Onboarding`, `Session`, with the proofs about `Onboarding`.
11. Proofs: `HttpPipelineProofs` (with `JwksClient`'s part), `ToolCallProofs`,
    the Redis limiter's part of `LimiterProofs`, `IdentityCacheProofs`, `ThumbnailsProofs`, `SessionProofs` for
    the calls, `Chains`' `TypeOK`.
12. `PayloadProofs`, and in `SessionProofs` the answers, their pictures and the types.

Left: liveness, for which TLC's runs stand alone.
