------------------------------- MODULE Answer -------------------------------
(***************************************************************************)
(* One operation from boot to answer, as seen by its caller: the boot      *)
(* lints, the request that is forwarded, and the envelope or the error     *)
(* made of what comes back.  Between two awaits the handler builds the     *)
(* whole envelope, so that is one action; a caller that asked for pictures *)
(* waits for them on top, and a client may read resources in between.      *)
(*                                                                         *)
(* Admission and the audit line are in ToolCall, the playbook fields in    *)
(* Chains.  The pictures of a batch are fetched concurrently, as           *)
(* Thumbnails has it; the walks share nothing but the deadline, so here    *)
(* they are taken one at a time, in any order.                             *)
(***************************************************************************)
EXTENDS Envelopes

CONSTANTS Operations,    \* the operations a manifest may declare
          ArgumentSets,  \* the arguments a caller may send: a body, parameters, others
          Replies,       \* what an upstream may answer: a status and a document
          MaxRedirects,  \* _MAX_REDIRECTS
          Uris           \* what a client may ask resources/read for

ASSUME AnswerAssumption ==
  /\ \A o \in Operations : ManifestOperation(o)
  /\ \A r \in Replies : r.status \in 100 .. 599 /\ WellFormed(r.data)
  /\ \A name \in DOMAIN Runbooks : WellFormed(Runbooks[name])
  /\ MaxRedirects \in Nat
  /\ Uris \subseteq Seq(STRING)

DefaultPort(scheme) == IF scheme = "https" THEN 443 ELSE 80

(* The policy a host makes of the widget's origins, as a browser reads it: *)
(* a wildcard stands for one label or more, http is good for https, and an *)
(* origin that names no port, as they all do, means the scheme's own.      *)
PolicyAllows(origin, place) ==
  /\ place.port = DefaultPort(place.scheme)
  /\ \/ place.scheme = origin.scheme
     \/ origin.scheme = "http" /\ place.scheme = "https"
  /\ \/ ~origin.wildcard /\ place.host = origin.host
     \/ /\ origin.wildcard
        /\ \E n \in 1 .. Len(place.host) :
             SubSeq(place.host, n + 1, Len(place.host)) = origin.host

(* What the manifests of the repository do and no lint asks of them: where *)
(* a field of the body chooses a route whose path holds a status, that     *)
(* field is the status.                                                    *)
ASSUME ManifestsAssumption ==
  \A o \in Operations : o.images # None =>
    \A i \in DOMAIN o.images.links :
      LET link == o.images.links[i] IN
      (/\ link.route \in DOMAIN Routes
       /\ Routes[link.route].status # None
       /\ link.field \in DOMAIN o.body_fields) => link.field = "product_status"

VARIABLES op,       \* the operation, from its manifest
          phase,
          args,     \* of the current call
          request,  \* what was forwarded for it
          reply,    \* what the upstream, or the local handler, answered
          result,   \* what the caller is told, once it is serving again
          logged,   \* what only the server's log holds
          batch,    \* the thumbnails being fetched for the call
          read      \* the last resource read since the last call

vars == <<op, phase, args, request, reply, result, logged, batch, read>>

(* _playbook_result: a missing or an unknown name is an invalid argument.  *)
PlaybookResult(a) ==
  IF "name" \in DOMAIN a /\ a.name \in DOMAIN Runbooks
  THEN [status |-> 200, data |-> Runbooks[a.name]] ELSE None

Nothing == [reported |-> {}, detail |-> None]

(* image is the place in urls of the picture being fetched; asked is the   *)
(* URL requested for it while the response is awaited, hops the requests   *)
(* made for it so far.                                                     *)
Walk ==
  [image : 1 .. MaxImages, target : DOMAIN Location, asked : Optional(DOMAIN Location),
   hops : 0 .. MaxRedirects + 1]

(* left are the places nobody has taken, landed those of the thumbnails.   *)
Batch ==
  [urls : Seq(DOMAIN Location), left : SUBSET (1 .. MaxImages),
   landed : SUBSET (1 .. MaxImages), walk : Optional(Walk)]

ASSUME NoneAssumption ==
  /\ None \notin Batch
  /\ \A o \in Operations, a \in ArgumentSets : BuildRequest(o, a) # None

TypeOK ==
  /\ op \in Operations
  /\ phase \in {"boot", "refused", "serving", "sent", "replied", "pictures"}
  /\ args \in ArgumentSets \cup {None}
  /\ reply \in Replies \cup {None} \cup {PlaybookResult(a) : a \in ArgumentSets}
  /\ phase \in {"sent", "replied"} => result = None /\ (request # None <=> op.handler = None)
  /\ result # None => phase \in {"serving", "pictures"}
  /\ batch # None <=> phase = "pictures"
  /\ batch # None =>
       /\ batch \in Batch
       /\ batch.landed \cup batch.left \subseteq DOMAIN batch.urls
       /\ batch.landed \cap batch.left = {}
       /\ batch.walk # None =>
            batch.walk.image \in DOMAIN batch.urls \ (batch.landed \cup batch.left)
  /\ (result # None /\ result.ok) => WellFormed(result.data)
  /\ logged.reported \subseteq {op.omit[i].path : i \in DOMAIN op.omit}

Init ==
  /\ op \in Operations
  /\ phase = "boot"
  /\ args = None /\ request = None /\ reply = None /\ result = None
  /\ logged = Nothing /\ batch = None /\ read = None

(* build_tools: an operation that a lint rejects stops the boot.           *)
Boot ==
  /\ phase = "boot"
  /\ phase' = IF Usable(op) THEN "serving" ELSE "refused"
  /\ UNCHANGED <<op, args, request, reply, result, logged, batch, read>>

----------------------------------------------------------------------------
ErrorOf(type, detail) == [ok |-> FALSE, error_type |-> type, detail |-> detail]

Answered(answer, log) ==
  /\ phase' = "serving"
  /\ result' = answer
  /\ logged' = log

(* A local handler answers in the dispatcher's place.                      *)
Receive ==
  /\ phase = "serving"
  /\ \E a \in ArgumentSets :
       /\ args' = a
       /\ \/ /\ ~SchemaAccepts(op, a) \/ (op.handler # None /\ PlaybookResult(a) = None)
             /\ request' = None /\ reply' = None
             /\ Answered(ErrorOf("invalid_arguments", None), Nothing)
          \/ /\ SchemaAccepts(op, a) /\ op.handler = None
             /\ request' = BuildRequest(op, a) /\ reply' = None
             /\ phase' = "sent" /\ result' = None /\ logged' = Nothing
          \/ /\ SchemaAccepts(op, a) /\ op.handler # None /\ PlaybookResult(a) # None
             /\ request' = None /\ reply' = PlaybookResult(a)
             /\ phase' = "replied" /\ result' = None /\ logged' = Nothing
  /\ read' = None
  /\ UNCHANGED <<op, batch>>

Reply ==
  /\ phase = "sent"
  /\ phase' = "replied"
  /\ reply' \in Replies
  /\ UNCHANGED <<op, args, request, result, logged, batch, read>>

Unreachable ==
  /\ phase = "sent"
  /\ Answered(ErrorOf("upstream_unreachable", None), Nothing)
  /\ UNCHANGED <<op, args, request, reply, batch, read>>

(* business_error and images read the payload before omit edits it.        *)
EnvelopeTrimmedFirst(data) ==
  LET trimmed == ApplyOmit(op, data) IN
  [ok |-> TRUE, data |-> trimmed.data, omitted |-> trimmed.omitted,
   business_error |-> DetectBusinessErrors(op, trimmed.data),
   images |-> ExtractImages(op, trimmed.data, args), thumbnails |-> <<>>]

Envelope(data) ==
  LET trimmed == ApplyOmit(op, data) IN
  [ok |-> TRUE, data |-> trimmed.data, omitted |-> trimmed.omitted,
   business_error |-> DetectBusinessErrors(op, data),
   images |-> ExtractImages(op, data, args), thumbnails |-> <<>>]

(* With pictures to fetch the envelope waits for them.                     *)
Succeed ==
  /\ phase = "replied"
  /\ reply.status \in 200 .. 299
  /\ LET envelope == Envelope(reply.data)
         wanted   == envelope.images # None /\ IncludeImages(op, args)
         urls     == PicturesOf(envelope.images)
     IN  /\ result' = envelope
         /\ logged' = [reported |-> UnmatchedCredentials(op, envelope.data, envelope.omitted),
                       detail |-> None]
         /\ \/ /\ wanted
               /\ phase' = "pictures"
               /\ batch' = [urls |-> urls, left |-> DOMAIN urls, landed |-> {}, walk |-> None]
            \/ /\ ~wanted
               /\ phase' = "serving"
               /\ UNCHANGED batch
  /\ UNCHANGED <<op, args, request, reply, read>>

Fail ==
  /\ phase = "replied"
  /\ reply.status \notin 200 .. 299
  /\ LET mapped == MapUpstreamError(reply.status, reply.data) IN
     Answered(ErrorOf(mapped.error_type, mapped.detail),
              [reported |-> {}, detail |-> mapped.log_full])
  /\ UNCHANGED <<op, args, request, reply, batch, read>>

----------------------------------------------------------------------------
Goes(next) ==
  /\ batch' = next
  /\ UNCHANGED <<op, phase, args, request, reply, result, logged, read>>

TakePicture(i) ==
  /\ phase = "pictures" /\ batch.walk = None
  /\ i \in batch.left
  /\ Goes([batch EXCEPT !.left = @ \ {i},
             !.walk = [image |-> i, target |-> batch.urls[i], asked |-> None, hops |-> 0]])

Walking == phase = "pictures" /\ batch.walk # None

(* Hops are walked by hand, and each origin is checked before it is asked. *)
MayAsk ==
  /\ batch.walk.asked = None
  /\ batch.walk.hops <= MaxRedirects /\ IsAllowedOrigin(batch.walk.target)

Ask ==
  /\ Walking /\ MayAsk
  /\ Goes([batch EXCEPT !.walk = [batch.walk EXCEPT !.asked = batch.walk.target,
                                                    !.hops = @ + 1]])

Asking == Walking /\ batch.walk.asked # None

Redirected(location) ==
  /\ Asking
  /\ Goes([batch EXCEPT !.walk = [batch.walk EXCEPT !.target = location, !.asked = None]])

(* An image that decodes is a thumbnail.                                   *)
Lands ==
  /\ Asking
  /\ Goes([batch EXCEPT !.landed = @ \cup {batch.walk.image}, !.walk = None])

(* A forbidden origin or too many hops; or the server fails, redirects     *)
(* nowhere, answers anything but 200, sends nothing, too much or no image. *)
Drop ==
  /\ Walking
  /\ Goes([batch EXCEPT !.walk = None])

(* _attach_thumbnails and _success_result, given what has landed.          *)
Attach(landed) ==
  /\ phase = "pictures"
  /\ phase' = "serving"
  /\ result' = [result EXCEPT
                  !.images = WithThumbnails(@, batch.urls, landed),
                  !.thumbnails = AtPlaces(batch.urls, landed)]
  /\ batch' = None
  /\ UNCHANGED <<op, args, request, reply, logged, read>>

(* All pictures have ended, or the deadline strikes the others.            *)
BatchEnds == Attach(batch.landed)

(* An exception past the batch loses all of it, never the answer.          *)
BatchRaises == Attach({})

FetchPictures ==
  \/ \E i \in 1 .. MaxImages : TakePicture(i)
  \/ \E location \in DOMAIN Location : Redirected(location)
  \/ Ask \/ Lands \/ Drop \/ BatchEnds \/ BatchRaises

----------------------------------------------------------------------------
(* resources/read; nothing of the calls before it matters.                 *)
Read(uri) ==
  /\ phase = "serving"
  /\ read' = [uri |-> uri, answer |-> ReadResource(uri)]
  /\ args' = None /\ request' = None /\ reply' = None /\ result' = None
  /\ logged' = Nothing
  /\ UNCHANGED <<op, phase, batch>>

Calls ==
  \/ Receive \/ Reply \/ Unreachable \/ Succeed \/ Fail
  \/ FetchPictures
  \/ \E uri \in Uris : Read(uri)

----------------------------------------------------------------------------
Delivered == phase = "serving" /\ result # None /\ result.ok

(* What the upstream said, read without resolve_path.                      *)
CodesSaid ==
  IF op.business_errors = None THEN {} ELSE
  {reply.data[a].text : a \in {b \in DOMAIN reply.data :
     Says(reply.data[b]) /\ \E i \in DOMAIN op.business_errors :
                              Leads(op.business_errors[i], b)}}

UrlsOf(item) ==
  {reply.data[a].text : a \in {b \in DOMAIN reply.data :
     /\ IsPrefix(item, b)
     /\ reply.data[b].kind = "str" /\ reply.data[b].text \in Urls
     /\ \E i \in DOMAIN op.images.image_paths :
          Leads(op.images.image_paths[i], SubSeq(b, Len(item) + 1, Len(b)))}}

(* No field that omit removes hides an error code or a picture: each code  *)
(* in the payload as it came is published, and each item with a picture    *)
(* shows one, even when the very field it came from is gone from data.     *)
NothingHidden ==
  Delivered =>
    /\ ToSet(result.business_error) = CodesSaid
    /\ result.images # None =>
         \A k \in DOMAIN result.images.items :
           LET shown == ToSet(result.images.items[k].images)
               had   == UrlsOf(Items(op.images, reply.data)[k])
           IN  /\ shown \subseteq {PublishedUrl(url) : url \in had}
               /\ shown = {} => had = {}

(* Where the first n entries of an operation lead in a payload.            *)
Led(o, d, n) == {a \in DOMAIN d : \E j \in 1 .. n : Leads(o.omit[j].path, a)}

(* An entry takes something away where its path leads to what the entries  *)
(* before it have left.                                                    *)
Takes(o, d, i) == Addressed(Without(d, Led(o, d, i - 1)), o.omit[i].path) # {}

Taking(o, d) == {i \in DOMAIN o.omit : Takes(o, d, i)}

(* data is the upstream's payload, untouched except that nothing is left   *)
(* where a declared path leads, though an entry edits what the entries     *)
(* before it have left; omitted names each path that took something away,  *)
(* and no other.  The log reports each credential path that took nothing   *)
(* from an answer that is not empty, for the upstream may have moved it:   *)
(* one item out of place is not noticed as long as another is in place.    *)
OmitHonest ==
  Delivered =>
    LET taking == Taking(op, reply.data) IN
    /\ result.data = Without(reply.data, Led(op, reply.data, Len(op.omit)))
    /\ ToSet(result.omitted) = {op.omit[i].path : i \in taking}
    /\ ~Empty(result.data) =>
         logged.reported = {op.omit[i].path : i \in {j \in DOMAIN op.omit \ taking :
                                                      op.omit[j].reason = "credential"}}

(* What the caller is told of its pictures is true.  A result carries no   *)
(* more than the ceiling, which no step of the extraction looks at: the    *)
(* lint bounds items and pictures per item.  The first results are shown,  *)
(* unrenumbered.  The thumbnails attached are some of those pictures, in   *)
(* their order, and counted, asked for or by default.  Whatever is missing *)
(* of either is said, after a deadline or an exception too.                *)
PicturesHonest ==
  Delivered /\ result.images # None =>
    LET block == result.images
        all   == FlattenSeq([k \in DOMAIN block.items |-> block.items[k].images])
        items == Items(op.images, reply.data)
        asked == "attached" \in DOMAIN block
    IN  /\ Len(all) <= MaxImages
        /\ Len(block.items) = Min({Len(items), op.images.max})
        /\ \A k \in DOMAIN block.items :
             block.items[k].id = FirstStr(reply.data, items[k], op.images.id_path)
        /\ "more in data" \in block.note <=> Len(block.items) < Len(items)
        /\ \E place \in [DOMAIN result.thumbnails -> DOMAIN all] :
             /\ \A i, j \in DOMAIN place : i < j => place[i] < place[j]
             /\ \A i \in DOMAIN place : result.thumbnails[i] = all[place[i]]
        /\ asked => block.attached = Len(result.thumbnails)
        /\ "short" \in block.note <=> asked /\ Len(result.thumbnails) < Len(all)
        /\ "include_images" \in DOMAIN args /\ op.images.base64 # "off" =>
             (asked <=> args.include_images)
        /\ op.images.base64 = "off" => ~asked

LoadsPortAside(url) ==
  LET place == [Location[url] EXCEPT !.port = DefaultPort(Location[url].scheme)] IN
  \E origin \in ResourceDomains : PolicyAllows(origin, place)

(* The docstring of is_allowed_origin: "the server-side fetch is never     *)
(* looser than the sandboxed one".  Of that holds: over any chain of       *)
(* redirects, the server asks no other host for a picture, by no other     *)
(* scheme, than the widget may in a browser, however alike the names are.  *)
(* The port is whatever the redirect says, and a browser would look at it. *)
NoOtherHostThanTheWidget ==
  Asking => LoadsPortAside(batch.walk.asked)

(* A link opens the page of a product of the status the call asked for,    *)
(* and its path has no hole in it.                                         *)
LinksHonest ==
  Delivered /\ result.images # None =>
    \A k \in DOMAIN result.images.items :
      LET link == result.images.items[k].link IN
      link # None =>
        /\ Routes[link.route].status # None =>
             /\ "body" \in DOMAIN args
             /\ "product_status" \in DOMAIN args.body
             /\ args.body["product_status"] = Routes[link.route].status
        /\ Routes[link.route].id => link.id # None
        /\ Routes[link.route].internal => link.internal # None

PartOf(sent, location) ==
  [path |-> sent.path, query |-> sent.query, header |-> sent.headers][location]

(* The upstream gets the manifest's constants with their own values, the   *)
(* declared parameters the caller gave, each where it is declared to go    *)
(* and with its own value, and in the query nothing else the caller sent:  *)
(* include_images stays here.                                              *)
ForwardedExactly ==
  request # None =>
    /\ op.handler = None
    /\ \A n \in DOMAIN op.fixed_query : request.query[n] = op.fixed_query[n]
    /\ \A n \in DOMAIN request.query \ DOMAIN op.fixed_query :
         \E p \in op.parameters : p.name = n /\ request.query[n] = args[n]
    /\ \A p \in op.parameters : p.name \in DOMAIN args =>
         LET part == PartOf(request, p.location) IN
         p.name \in DOMAIN part /\ part[p.name] = args[p.name]
    /\ request.body # None => op.has_json_body /\ request.body = args.body

(* What the server advertises, in resources/list and in the descriptor of  *)
(* the tool, can be read back as what it was advertised as, mime type and  *)
(* policy included, with whatever query or fragment a client puts behind   *)
(* it; and the log tells each kind of read from the others.                *)
ResourcesReadable ==
  read # None =>
    LET meant == {uri \in DOMAIN Listed :
                    /\ IsPrefix(uri, read.uri)
                    /\ Len(read.uri) = 2 \/ read.uri[3] \in {"?", "#"}}
    IN
    /\ \A uri \in meant :
         read.answer = [kind |-> Listed[uri].kind, contents |-> Listed[uri]]
    /\ meant = {} => read.answer = [kind |-> "unknown", contents |-> "error"]
    /\ op.images # None /\ op.images.widget # None =>
         WidgetUri(op.images.widget) \in DOMAIN Listed

(* A text of the upstream reaches the caller only out of a 4xx other than  *)
(* 401 and 403, and on one line, in which there is no leak marker; what    *)
(* the caller is not told of a redirect or of a server error is in the     *)
(* log.                                                                    *)
ErrorsSafe ==
  result # None /\ ~result.ok /\ reply # None =>
    /\ result.detail # None =>
         /\ reply.status \in (400 .. 499) \ {401, 403}
         /\ result.detail \notin Leaky
         /\ \E a \in DOMAIN reply.data : OnOneLine(reply.data[a].text) = result.detail
    /\ (reply.status \notin 400 .. 499) => logged.detail = reply.data
    /\ (reply.status \in 400 .. 499) => logged.detail = None

(* errors.py on its leak markers: they "indicate the upstream leaked       *)
(* internals we must not forward".  What a caller is told comes from no    *)
(* text that holds one.                                                    *)
NoMarkedTextForwarded ==
  result # None /\ ~result.ok /\ result.detail # None =>
    \E a \in DOMAIN reply.data :
      /\ OnOneLine(reply.data[a].text) = result.detail
      /\ reply.data[a].text \notin Leaky
=============================================================================
