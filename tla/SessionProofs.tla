---------------------------- MODULE SessionProofs ----------------------------
(***************************************************************************)
(* A session for any deployment, operation, arguments and replies.         *)
(*                                                                         *)
(* The client at the door: OnboardingSound is made inductive by what a     *)
(* client has been told.  One at the URL the server answers for is told    *)
(* that same URL by every document (BaseUrlOfOwn), and a client_id handed  *)
(* out is the public one, which the validators found among the allowed.    *)
(*                                                                         *)
(* The call: what is forwarded, what an error tells, where a link leads    *)
(* and what a read returns follow from the lints of the boot, which are    *)
(* known to hold from then on (CallInv), and from what BuildRequest,       *)
(* MapUpstreamError, ExtractImages and ReadResource make of any input.     *)
(*                                                                         *)
(* The answer: what ApplyOmit leaves and what the builders find, for paths *)
(* and payloads of any size, with the lemmas of PayloadProofs.  HonestInv  *)
(* says that an answer is the envelope of its reply, with the pictures     *)
(* that landed, and that the pictures being fetched are that envelope's.   *)
(***************************************************************************)
EXTENDS Session, PayloadProofs

Consistent ==
  client # Unset =>
    /\ AnswersFor(client.url, client.forwards) /\ client.told # Unset =>
         client.told = client.url
    /\ client.at = "registered" => client.id = settings.public_client_id

OnboardingInv ==
  /\ OnboardingTypeOK
  /\ Accepts(settings)
  /\ Consistent
  /\ OnboardingSound

----------------------------------------------------------------------------
USE DEF Url

(* urls.py: the base URL a deployment derives is a URL, and it is the      *)
(* public one, over https, wherever the validators ask for a public name.  *)
LEMMA BaseUrlOfAny ==
  ASSUME NEW s \in Settings, NEW url \in Url, NEW forwards \in BOOLEAN
  PROVE  /\ EffectiveBaseUrl(s, SeenAs(url, forwards)) \in Url
         /\ Accepts(s) /\ s.mcp_env # "local" =>
              EffectiveBaseUrl(s, SeenAs(url, forwards))
                = [scheme |-> "https", host |-> s.public_hostname]
  BY DEF EffectiveBaseUrl, SeenAs, Settings, Accepts

(* urls.py, dependency.py, metadata.py: asked at the URL it answers for, a *)
(* server names that URL.                                                  *)
LEMMA BaseUrlOfOwn ==
  ASSUME settings \in Settings, client \in Client, AnswersFor(client.url, client.forwards)
  PROVE  BaseUrl(client.url) = client.url
<1>1. client.url \in Url /\ client.forwards \in BOOLEAN
  BY DEF Client
<1>2. client.url = [scheme |-> client.url.scheme, host |-> client.url.host]
  BY <1>1
<1>3. CASE settings.public_hostname # Unset
  <2>1. client.url.host = settings.public_hostname
        /\ (client.url.scheme = "https" <=> settings.force_https)
    BY <1>3 DEF AnswersFor
  <2>2. client.url.scheme = IF settings.force_https THEN "https" ELSE "http"
    BY <2>1, <1>1
  <2> QED
    BY <1>2, <1>3, <2>1, <2>2 DEF BaseUrl, EffectiveBaseUrl
<1>4. CASE settings.public_hostname = Unset
  <2>1. client.url.scheme = "https" => client.forwards
    BY <1>4 DEF AnswersFor
  <2>2. SeenAs(client.url, client.forwards) = client.url
    BY <1>1, <1>2, <2>1 DEF SeenAs
  <2> QED
    BY <1>4, <2>2 DEF BaseUrl, EffectiveBaseUrl
<1> QED
  BY <1>3, <1>4

----------------------------------------------------------------------------
LEMMA Initially == OnboardingInit => OnboardingInv
  BY DEF OnboardingInit, OnboardingInv, OnboardingTypeOK, Consistent, OnboardingSound

(* A client that gets stuck at a guard keeps everything but its place.     *)
LEMMA StuckKeeps ==
  ASSUME OnboardingInv, client # Unset, Stuck, UNCHANGED settings,
         \/ ~AnswersFor(client.url, client.forwards)
         \/ client.redirect \notin settings.redirect_uris
         \/ client.origin # Unset /\ client.origin \notin AllowedOrigins(settings)
  PROVE  OnboardingInv'
<1>1. client \in Client /\ settings' = settings
  BY DEF OnboardingInv, OnboardingTypeOK
<1>2. client' = [client EXCEPT !.at = "stuck"]
  BY DEF Stuck
<1>3. /\ client' \in Client /\ client'.at = "stuck"
      /\ client'.url = client.url /\ client'.forwards = client.forwards
      /\ client'.origin = client.origin /\ client'.redirect = client.redirect
      /\ client'.told = client.told
  BY <1>1, <1>2 DEF Client
<1>4. OnboardingTypeOK' /\ Accepts(settings)' /\ Consistent'
  BY <1>1, <1>3 DEF OnboardingInv, OnboardingTypeOK, Accepts, Consistent, AnswersFor
<1>5. OnboardingSound'
  BY <1>1, <1>3 DEF OnboardingInv, OnboardingSound, AnswersFor, AllowedOrigins
<1> QED
  BY <1>4, <1>5 DEF OnboardingInv

(* A client that is told a base URL learns one that is right.              *)
LEMMA ToldKeeps ==
  ASSUME OnboardingInv, client # Unset, UNCHANGED settings,
         NEW url \in Url, NEW at \in {"challenged", "resource", "issuer"},
         url = client.url \/ url = client.told,
         client' = [client EXCEPT !.at = at, !.told = BaseUrl(url)]
  PROVE  OnboardingInv'
<1>1. client \in Client /\ settings \in Settings /\ settings' = settings /\ Accepts(settings)
  BY DEF OnboardingInv, OnboardingTypeOK
<1>2. BaseUrl(url) \in Url
      /\ (settings.mcp_env # "local" =>
            BaseUrl(url) = [scheme |-> "https", host |-> settings.public_hostname])
  BY <1>1, BaseUrlOfAny DEF BaseUrl, Client
<1>3. /\ client' \in Client /\ client'.at = at
      /\ client'.url = client.url /\ client'.forwards = client.forwards
      /\ client'.told = BaseUrl(url)
  BY <1>1, <1>2 DEF Client
<1>4. url # Unset /\ BaseUrl(url) # Unset
  BY <1>2, OnboardingAssumption
<1>5. AnswersFor(client.url, client.forwards) => BaseUrl(url) = client.url
  <2> SUFFICES ASSUME AnswersFor(client.url, client.forwards)
               PROVE  BaseUrl(url) = client.url
    OBVIOUS
  <2>1. url = client.url
    BY <1>4 DEF OnboardingInv, Consistent
  <2> QED
    BY <1>1, <2>1, BaseUrlOfOwn
<1>6. OnboardingTypeOK' /\ Accepts(settings)' /\ Consistent'
  BY <1>1, <1>3, <1>4, <1>5 DEF OnboardingTypeOK, Accepts, Consistent, AnswersFor
<1>7. OnboardingSound'
  BY <1>1, <1>2, <1>3 DEF OnboardingSound
<1> QED
  BY <1>6, <1>7 DEF OnboardingInv

(* One step of a client through the discovery, or a new client.            *)
LEMMA StepKeeps == OnboardingInv /\ [OnboardingNext]_onboardingVars => OnboardingInv'
<1> SUFFICES ASSUME OnboardingInv, [OnboardingNext]_onboardingVars
             PROVE  OnboardingInv'
  OBVIOUS
<1>1. settings \in Settings /\ client \in Client \cup {Unset} /\ Accepts(settings)
  BY DEF OnboardingInv, OnboardingTypeOK
<1>2. ASSUME NEW url \in Url, NEW forwards \in BOOLEAN,
             NEW origin \in Origins \cup {Unset}, NEW redirect \in RedirectUris,
             Arrive(url, forwards, origin, redirect)
      PROVE  OnboardingInv'
  <2>1. /\ settings' = settings /\ client' \in Client
        /\ client'.at = "entered" /\ client'.told = Unset
    BY <1>2 DEF Arrive, Client
  <2>2. OnboardingTypeOK' /\ Accepts(settings)' /\ Consistent' /\ OnboardingSound'
    BY <1>1, <2>1 DEF OnboardingTypeOK, Accepts, Consistent, OnboardingSound
  <2> QED
    BY <2>2 DEF OnboardingInv
<1>3. CASE Forbidden
  <2>1. client.origin # Unset /\ client.origin \notin AllowedOrigins(settings)
    BY <1>3 DEF Forbidden, Passes
  <2> QED
    BY <1>3, <2>1, StuckKeeps DEF Forbidden
<1>4. CASE Challenge
  <2>1. client.url \in Url
    BY <1>1, <1>4 DEF Challenge, Reaches, Client
  <2> QED
    BY <1>4, <2>1, ToldKeeps DEF Challenge, Reaches
<1>5. CASE ReadResourceMetadata
  <2>1. client # Unset /\ client.at = "challenged" /\ settings' = settings
    BY <1>5 DEF ReadResourceMetadata, Reaches
  <2>2. client.told \in Url
    BY <1>1, <2>1 DEF OnboardingInv, OnboardingTypeOK, Client
  <2>3. CASE BaseUrl(client.told) = client.url
    BY <1>5, <2>1, <2>2, <2>3, ToldKeeps DEF ReadResourceMetadata
  <2>4. CASE BaseUrl(client.told) # client.url
    <3>1. Stuck
      BY <1>5, <2>4 DEF ReadResourceMetadata
    <3>2. ~AnswersFor(client.url, client.forwards)
      BY <1>1, <2>1, <2>2, <2>4, BaseUrlOfOwn, OnboardingAssumption
         DEF OnboardingInv, Consistent
    <3> QED
      BY <2>1, <3>1, <3>2, StuckKeeps
  <2> QED
    BY <2>3, <2>4
<1>6. CASE ReadServerMetadata
  <2>1. client # Unset /\ client.at = "resource" /\ settings' = settings
    BY <1>6 DEF ReadServerMetadata, Reaches
  <2>2. client.told \in Url
    BY <1>1, <2>1 DEF OnboardingInv, OnboardingTypeOK, Client
  <2>3. CASE BaseUrl(client.told) = client.told
    BY <1>6, <2>1, <2>2, <2>3, ToldKeeps DEF ReadServerMetadata
  <2>4. CASE BaseUrl(client.told) # client.told
    <3>1. Stuck
      BY <1>6, <2>4 DEF ReadServerMetadata
    <3>2. ~AnswersFor(client.url, client.forwards)
      BY <1>1, <2>1, <2>2, <2>4, BaseUrlOfOwn, OnboardingAssumption
         DEF OnboardingInv, Consistent
    <3> QED
      BY <2>1, <3>1, <3>2, StuckKeeps
  <2> QED
    BY <2>3, <2>4
<1>7. CASE Register
  <2>1. client # Unset /\ settings' = settings
    BY <1>7 DEF Register, Reaches
  <2>2. CASE client.redirect \in settings.redirect_uris
    <3>1. client' = [client EXCEPT !.at = "registered", !.id = settings.public_client_id]
      BY <1>7, <2>2 DEF Register
    <3>2. /\ client' \in Client /\ client'.at = "registered"
          /\ client'.id = settings.public_client_id /\ client'.id # Unset
          /\ client'.url = client.url /\ client'.forwards = client.forwards
          /\ client'.told = client.told
      BY <1>1, <2>1, <3>1, OnboardingAssumption DEF Client, Settings
    <3>3. OnboardingTypeOK' /\ Accepts(settings)' /\ Consistent' /\ OnboardingSound'
      BY <1>1, <2>1, <3>2
         DEF OnboardingInv, OnboardingTypeOK, Accepts, Consistent, AnswersFor, OnboardingSound
    <3> QED
      BY <3>3 DEF OnboardingInv
  <2>3. CASE client.redirect \notin settings.redirect_uris
    BY <1>7, <2>1, <2>3, StuckKeeps DEF Register
  <2> QED
    BY <2>2, <2>3
<1>8. CASE CallWithToken
  <2>1. client # Unset /\ client.at = "registered" /\ settings' = settings
    BY <1>8 DEF CallWithToken, Reaches
  <2>2. client.id \in settings.allowed_client_ids
    BY <1>1, <2>1 DEF OnboardingInv, Consistent, Accepts
  <2>3. client' = [client EXCEPT !.at = "in"]
    BY <1>8, <2>2 DEF CallWithToken
  <2>4. /\ client' \in Client /\ client'.at = "in"
        /\ client'.url = client.url /\ client'.forwards = client.forwards
        /\ client'.told = client.told /\ client'.id = client.id
    BY <1>1, <2>1, <2>3 DEF Client
  <2>5. OnboardingTypeOK' /\ Accepts(settings)' /\ Consistent' /\ OnboardingSound'
    BY <1>1, <2>1, <2>4
       DEF OnboardingInv, OnboardingTypeOK, Accepts, Consistent, AnswersFor, OnboardingSound
  <2> QED
    BY <2>5 DEF OnboardingInv
<1>9. CASE UNCHANGED onboardingVars
  BY <1>9 DEF onboardingVars, OnboardingInv, OnboardingTypeOK, Accepts, Consistent,
              AnswersFor, OnboardingSound, AllowedOrigins
<1> QED
  BY <1>2, <1>3, <1>4, <1>5, <1>6, <1>7, <1>8, <1>9 DEF OnboardingNext, Step

----------------------------------------------------------------------------
(* Seen from the client's place, a session is an onboarding and then       *)
(* nothing more.                                                           *)
LEMMA SessionOnboards == SessionSpec => OnboardingSpec
<1>1. SessionInit => OnboardingInit
  BY DEF SessionInit
<1>2. [SessionNext]_<<vars, onboardingVars>> => [OnboardingNext]_onboardingVars
  <2> SUFFICES ASSUME [SessionNext]_<<vars, onboardingVars>>
               PROVE  OnboardingNext \/ UNCHANGED onboardingVars
    OBVIOUS
  <2>1. ASSUME Visit PROVE OnboardingNext
    BY <2>1, SessionAssumption DEF Visit, OnboardingNext
  <2> QED
    BY <2>1 DEF SessionNext, OnboardingNext
<1> QED
  BY <1>1, <1>2, PTL DEF SessionSpec, OnboardingSpec

(* Every deployment that the validators of settings.py let boot can be     *)
(* used by the clients it lists, and one that is not local sends nobody to *)
(* another host or to http: OnboardingSound, in every reachable state.     *)
THEOREM EveryDeploymentUsable == SessionSpec => []OnboardingSound
<1>1. OnboardingInv => OnboardingSound
  BY DEF OnboardingInv
<1> QED
  BY <1>1, SessionOnboards, Initially, StepKeeps, PTL DEF OnboardingSpec

(* The type invariant of the same.                                         *)
THEOREM OnboardingTyped == SessionSpec => []OnboardingTypeOK
<1>1. OnboardingInv => OnboardingTypeOK
  BY DEF OnboardingInv
<1> QED
  BY <1>1, SessionOnboards, Initially, StepKeeps, PTL DEF OnboardingSpec

----------------------------------------------------------------------------
(* Helpers.                                                                *)
(* dispatch.py _build_request, for an operation that the lint of its       *)
(* constants let through.                                                  *)
LEMMA RequestExact ==
  ASSUME NEW o \in Operations, Usable(o), o.handler = None, NEW a
  PROVE  LET sent == BuildRequest(o, a) IN
         /\ \A n \in DOMAIN o.fixed_query : sent.query[n] = o.fixed_query[n]
         /\ \A n \in DOMAIN sent.query \ DOMAIN o.fixed_query :
              \E p \in o.parameters : p.name = n /\ sent.query[n] = a[n]
         /\ \A p \in o.parameters : p.name \in DOMAIN a =>
              LET part == PartOf(sent, p.location) IN
              p.name \in DOMAIN part /\ part[p.name] = a[p.name]
         /\ sent.body # None => o.has_json_body /\ sent.body = a.body
<1> DEFINE path    == Given(o, a, "path")
           query   == Given(o, a, "query")
           headers == Given(o, a, "header")
           sent    == BuildRequest(o, a)
<1>1. o.parameters \subseteq ManifestParameter
  BY AnswerAssumption DEF ManifestOperation
<1>2. /\ sent.path = path
      /\ sent.query = Updated(o.fixed_query, query)
      /\ sent.headers = Updated([authorization |-> "the caller's token"], headers)
      /\ sent.body = IF o.has_json_body /\ "body" \in DOMAIN a THEN a.body ELSE None
  BY DEF BuildRequest
<1>3. DOMAIN query \cap DOMAIN o.fixed_query = {}
  BY DEF Given, Usable, FixedQueryUsable
<1>4. /\ DOMAIN sent.query = DOMAIN query \cup DOMAIN o.fixed_query
      /\ \A n \in DOMAIN query : sent.query[n] = query[n]
      /\ \A n \in DOMAIN o.fixed_query : sent.query[n] = o.fixed_query[n]
      /\ DOMAIN headers \subseteq DOMAIN sent.headers
      /\ \A n \in DOMAIN headers : sent.headers[n] = headers[n]
  BY <1>2, <1>3 DEF Updated
<1>5. \A n \in DOMAIN query : \E p \in o.parameters : p.name = n /\ query[n] = a[n]
  BY DEF Given
<1>6. ASSUME NEW p \in o.parameters, p.name \in DOMAIN a
      PROVE  LET part == PartOf(sent, p.location) IN
             p.name \in DOMAIN part /\ part[p.name] = a[p.name]
  <2>1. p.location \in {"path", "query", "header"}
    BY <1>1 DEF ManifestParameter
  <2>2. CASE p.location = "path"
    <3>1. p.name \in DOMAIN path /\ path[p.name] = a[p.name]
      BY <1>6, <2>2 DEF Given
    <3>2. PartOf(sent, p.location) = sent.path
      BY <2>2 DEF PartOf
    <3> HIDE DEF path, sent
    <3> QED
      BY <1>2, <3>1, <3>2
  <2>3. CASE p.location = "query"
    <3>1. p.name \in DOMAIN query /\ query[p.name] = a[p.name]
      BY <1>6, <2>3 DEF Given
    <3>2. PartOf(sent, p.location) = sent.query
      BY <2>3 DEF PartOf
    <3> HIDE DEF query, sent
    <3> QED
      BY <1>4, <3>1, <3>2
  <2>4. CASE p.location = "header"
    <3>1. p.name \in DOMAIN headers /\ headers[p.name] = a[p.name]
      BY <1>6, <2>4 DEF Given
    <3>2. PartOf(sent, p.location) = sent.headers
      BY <2>4 DEF PartOf
    <3> HIDE DEF headers, sent
    <3> QED
      BY <1>4, <3>1, <3>2
  <2> QED
    BY <2>1, <2>2, <2>3, <2>4
<1> HIDE DEF path, query, headers, sent
<1>7. /\ \A n \in DOMAIN o.fixed_query : sent.query[n] = o.fixed_query[n]
      /\ \A n \in DOMAIN sent.query \ DOMAIN o.fixed_query :
           \E p \in o.parameters : p.name = n /\ sent.query[n] = a[n]
      /\ sent.body # None => o.has_json_body /\ sent.body = a.body
  BY <1>2, <1>4, <1>5
<1> QED
  BY <1>6, <1>7 DEF sent

(* errors.py _sanitize_detail: whatever it lets through holds no leak      *)
(* marker and is a text of the document on one line.                       *)
LEMMA DetailIsSaid ==
  ASSUME NEW data, WellFormed(data), SanitizeDetail(data) # None
  PROVE  /\ SanitizeDetail(data) \notin Leaky
         /\ \E a \in DOMAIN data : OnOneLine(data[a].text) = SanitizeDetail(data)
<1> DEFINE said == {i \in DOMAIN DetailFields :
                      /\ <<DetailFields[i]>> \in DOMAIN data
                      /\ data[<<DetailFields[i]>>].kind = "str" /\ Says(data[<<DetailFields[i]>>])}
           text == CASE data[<<>>].kind = "str" -> data[<<>>].text
                     [] data[<<>>].kind = "dict" /\ said # {} ->
                          data[<<DetailFields[Min(said)]>>].text
                     [] OTHER -> None
<1>1. SanitizeDetail(data) = IF text = None \/ OnOneLine(text) \in Leaky \cup {""}
                             THEN None ELSE OnOneLine(text)
  BY DEF SanitizeDetail
<1>2. <<>> \in DOMAIN data
  BY DEF WellFormed
<1>3. said # {} => <<DetailFields[Min(said)]>> \in DOMAIN data
  <2>1. DOMAIN DetailFields \subseteq Nat
    BY DEF DetailFields
  <2>2. said \in SUBSET Nat
    BY <2>1
  <2> HIDE DEF said
  <2>3. said # {} => Min(said) \in said
    BY <2>2, LeastOf
  <2> QED
    BY <2>3 DEF said
<1> HIDE DEF said
<1>4. \/ text = None
      \/ \E a \in DOMAIN data : data[a].text = text
  <2>1. CASE data[<<>>].kind = "str"
    BY <1>2, <2>1
  <2>2. CASE data[<<>>].kind # "str" /\ data[<<>>].kind = "dict" /\ said # {}
    BY <1>3, <2>2
  <2>3. CASE data[<<>>].kind # "str" /\ ~(data[<<>>].kind = "dict" /\ said # {})
    BY <2>3
  <2> QED
    BY <2>1, <2>2, <2>3
<1> HIDE DEF text
<1> QED
  BY <1>1, <1>4

(* product_links.py: every link an item is given was built for it.         *)
LEMMA LinkIsBuilt ==
  ASSUME NEW block, block.links \in Seq(LinkBlock), NEW data, NEW a, NEW item,
         ItemEntry(block, data, a, item).link # None
  PROVE  \E i \in DOMAIN block.links :
           ItemEntry(block, data, a, item).link
             = BuildLink(block.links[i], a, FirstStr(data, item, block.id_path),
                         FirstStr(data, item, block.links[i].internal_id_path))
<1> DEFINE built == [i \in DOMAIN block.links |->
                       BuildLink(block.links[i], a, FirstStr(data, item, block.id_path),
                                 FirstStr(data, item, block.links[i].internal_id_path))]
           made  == {i \in DOMAIN block.links : built[i] # None}
<1>1. ItemEntry(block, data, a, item).link = IF made = {} THEN None ELSE built[Min(made)]
  BY DEF ItemEntry
<1>2. made \in SUBSET Nat
  OBVIOUS
<1>3. made # {} => Min(made) \in DOMAIN block.links
  <2> HIDE DEF made
  <2>1. made # {} => Min(made) \in made
    BY <1>2, LeastOf
  <2> QED
    BY <2>1 DEF made
<1> HIDE DEF made
<1> QED
  BY <1>1, <1>3

LinkTrue(link, a) ==
  link # None =>
    /\ Routes[link.route].status # None =>
         /\ "body" \in DOMAIN a
         /\ "product_status" \in DOMAIN a.body
         /\ a.body["product_status"] = Routes[link.route].status
    /\ Routes[link.route].id => link.id # None
    /\ Routes[link.route].internal => link.internal # None

(* images.py, product_links.py: each link of the block keeps its word,     *)
(* given that the lints let the operation through.                         *)
LEMMA LinksOfBlock ==
  ASSUME NEW o \in Operations, Usable(o), NEW data, NEW a,
         ExtractImages(o, data, a) # None,
         NEW k \in DOMAIN ExtractImages(o, data, a).items
  PROVE  LinkTrue(ExtractImages(o, data, a).items[k].link, a)
<1> DEFINE link == ExtractImages(o, data, a).items[k].link
<1>1. o.images # None
  BY DEF ExtractImages
<1>2. o.images.links \in Seq(LinkBlock)
  BY <1>1, AnswerAssumption DEF ManifestOperation, Optional, ImagesBlock
<1>3. PICK item : ExtractImages(o, data, a).items[k] = ItemEntry(o.images, data, a, item)
  BY DEF ExtractImages
<1>4. CASE link = None
  BY <1>4 DEF LinkTrue
<1>5. CASE link # None
  <2>1. PICK i \in DOMAIN o.images.links :
          link = BuildLink(o.images.links[i], a, FirstStr(data, item, o.images.id_path),
                           FirstStr(data, item, o.images.links[i].internal_id_path))
    BY <1>2, <1>3, <1>5, LinkIsBuilt
  <2> DEFINE block    == o.images.links[i]
             id       == FirstStr(data, item, o.images.id_path)
             internal == FirstStr(data, item, o.images.links[i].internal_id_path)
  <2>2. /\ GateMatches(block, a)
        /\ link = [route |-> block.route, id |-> id, internal |-> internal]
        /\ Routes[block.route].id => id # None
        /\ Routes[block.route].internal => internal # None
    BY <1>5, <2>1 DEF BuildLink
  <2>3. LinkUsable(o, block)
    BY <1>1 DEF Usable, ImagesUsable, LinksUsable
  <2>4. ASSUME Routes[block.route].status # None
        PROVE  /\ "body" \in DOMAIN a
               /\ "product_status" \in DOMAIN a.body
               /\ a.body["product_status"] = Routes[block.route].status
    <3>1. Routes[block.route].status = block.equals /\ block.equals # None
      BY <2>3, <2>4 DEF LinkUsable
    <3>2. block.field # None /\ block.field \in DOMAIN o.body_fields
      BY <2>3, <3>1 DEF LinkUsable
    <3>3. block.field = "product_status"
      BY <1>1, <2>3, <2>4, <3>2, ManifestsAssumption DEF LinkUsable
    <3>4. /\ "body" \in DOMAIN a
          /\ block.equals = IF block.field \in DOMAIN a.body THEN a.body[block.field] ELSE None
      BY <2>2, <3>2 DEF GateMatches
    <3> QED
      BY <3>1, <3>3, <3>4
  <2> HIDE DEF link, block, id, internal
  <2>5. link.route = block.route /\ link.id = id /\ link.internal = internal
    BY <2>2
  <2> QED
    BY <2>2, <2>4, <2>5 DEF LinkTrue, link
<1> QED
  BY <1>4, <1>5

----------------------------------------------------------------------------
(* The parts of the invariant.  Only an operation the lints let through    *)
(* gets past the boot; while a call is under way its result is still to    *)
(* come; pictures are added to the envelope that was made of the reply.    *)
PhaseOK ==
  /\ op \in Operations
  /\ phase \in {"boot", "refused", "serving", "sent", "replied", "pictures"}
  /\ phase \notin {"boot", "refused"} => Usable(op)
  /\ phase \in {"boot", "refused"} => request = None /\ result = None /\ read = None
  /\ phase \in {"sent", "replied"} => result = None
  /\ phase = "sent" => reply = None
  /\ phase = "replied" => reply.status \in 100 .. 599 /\ WellFormed(reply.data)
  /\ phase = "pictures" => result = Envelope(reply.data) /\ result.images # None

LinksTrue ==
  result # None /\ result.ok /\ result.images # None =>
    \A k \in DOMAIN result.images.items : LinkTrue(result.images.items[k].link, args)

ReadTrue ==
  read # None => Usable(op) /\ read.uri \in Uris /\ read.answer = ReadResource(read.uri)

CallInv == PhaseOK /\ ForwardedExactly /\ ErrorsSafe /\ LinksTrue /\ ReadTrue

(* An error that says nothing, and none at all.                            *)
LEMMA ToldNothing ==
  ASSUME result' = None \/ reply' = None
  PROVE  ErrorsSafe'
BY DEF ErrorsSafe

LEMMA NoLinks ==
  ASSUME result' = None \/ \E type, detail : result' = ErrorOf(type, detail)
  PROVE  LinksTrue'
BY DEF LinksTrue, ErrorOf

LEMMA SameRequest ==
  ASSUME ForwardedExactly, UNCHANGED <<op, args, request>>
  PROVE  ForwardedExactly'
BY DEF ForwardedExactly

LEMMA SameRead ==
  ASSUME ReadTrue, UNCHANGED <<op, read>>
  PROVE  ReadTrue'
BY DEF ReadTrue

LEMMA ReceiveKeeps ==
  ASSUME CallInv, Receive
  PROVE  CallInv'
<1>1. /\ phase = "serving" /\ op' = op /\ op \in Operations /\ Usable(op)
      /\ read' = None
  BY DEF Receive, CallInv, PhaseOK
<1>2. PICK a \in ArgumentSets :
        /\ args' = a
        /\ \/ /\ ~SchemaAccepts(op, a) \/ (op.handler # None /\ PlaybookResult(a) = None)
              /\ request' = None /\ reply' = None
              /\ Answered(ErrorOf("invalid_arguments", None), Nothing)
           \/ /\ SchemaAccepts(op, a) /\ op.handler = None
              /\ request' = BuildRequest(op, a) /\ reply' = None
              /\ phase' = "sent" /\ result' = None /\ logged' = Nothing
           \/ /\ SchemaAccepts(op, a) /\ op.handler # None /\ PlaybookResult(a) # None
              /\ request' = None /\ reply' = PlaybookResult(a)
              /\ phase' = "replied" /\ result' = None /\ logged' = Nothing
  BY DEF Receive
<1>3. ReadTrue'
  BY <1>1 DEF ReadTrue
<1>4. CASE request' = None /\ reply' = None
           /\ Answered(ErrorOf("invalid_arguments", None), Nothing)
  <2>1. PhaseOK'
    BY <1>1, <1>4 DEF PhaseOK, Answered
  <2>2. ForwardedExactly'
    BY <1>4 DEF ForwardedExactly
  <2>3. LinksTrue'
    BY <1>4, NoLinks DEF Answered
  <2> QED
    BY <1>3, <1>4, <2>1, <2>2, <2>3, ToldNothing DEF CallInv
<1>5. CASE /\ SchemaAccepts(op, a) /\ op.handler = None
           /\ request' = BuildRequest(op, a) /\ reply' = None
           /\ phase' = "sent" /\ result' = None /\ logged' = Nothing
  <2>1. PhaseOK'
    BY <1>1, <1>5 DEF PhaseOK
  <2>2. ForwardedExactly'
    BY <1>1, <1>2, <1>5, RequestExact DEF ForwardedExactly
  <2> QED
    BY <1>3, <1>5, <2>1, <2>2, ToldNothing, NoLinks DEF CallInv
<1>6. CASE /\ SchemaAccepts(op, a) /\ op.handler # None /\ PlaybookResult(a) # None
           /\ request' = None /\ reply' = PlaybookResult(a)
           /\ phase' = "replied" /\ result' = None /\ logged' = Nothing
  <2>1. reply'.status = 200 /\ WellFormed(reply'.data)
    BY <1>6, AnswerAssumption DEF PlaybookResult
  <2>2. PhaseOK'
    BY <1>1, <1>6, <2>1 DEF PhaseOK
  <2>3. ForwardedExactly'
    BY <1>6 DEF ForwardedExactly
  <2> QED
    BY <1>3, <1>6, <2>2, <2>3, ToldNothing, NoLinks DEF CallInv
<1> QED
  BY <1>2, <1>4, <1>5, <1>6

LEMMA ReplyKeeps ==
  ASSUME CallInv, Reply \/ Unreachable
  PROVE  CallInv'
<1>1. /\ phase = "sent" /\ op \in Operations /\ Usable(op) /\ result = None /\ reply = None
      /\ UNCHANGED <<op, args, request, read>>
  BY DEF Reply, Unreachable, CallInv, PhaseOK
<1>2. ForwardedExactly' /\ ReadTrue'
  BY <1>1, SameRequest, SameRead DEF CallInv
<1>3. CASE Reply
  <2>1. phase' = "replied" /\ reply' \in Replies /\ result' = None
    BY <1>1, <1>3 DEF Reply
  <2>2. reply'.status \in 100 .. 599 /\ WellFormed(reply'.data)
    BY <2>1, AnswerAssumption
  <2>3. PhaseOK'
    BY <1>1, <2>1, <2>2 DEF PhaseOK
  <2> QED
    BY <1>2, <2>1, <2>3, ToldNothing, NoLinks DEF CallInv
<1>4. CASE Unreachable
  <2>1. /\ phase' = "serving" /\ reply' = None
        /\ result' = ErrorOf("upstream_unreachable", None)
    BY <1>1, <1>4 DEF Unreachable, Answered
  <2>2. PhaseOK'
    BY <1>1, <2>1 DEF PhaseOK
  <2> QED
    BY <1>2, <2>1, <2>2, ToldNothing, NoLinks DEF CallInv
<1> QED
  BY <1>3, <1>4

LEMMA SucceedKeeps ==
  ASSUME CallInv, Succeed
  PROVE  CallInv'
<1>1. /\ phase = "replied" /\ op \in Operations /\ Usable(op)
      /\ UNCHANGED <<op, args, request, reply, read>>
  BY DEF Succeed, CallInv, PhaseOK
<1>2. ForwardedExactly' /\ ReadTrue'
  BY <1>1, SameRequest, SameRead DEF CallInv
<1>3. /\ result' = Envelope(reply.data)
      /\ phase' \in {"serving", "pictures"}
      /\ phase' = "pictures" => Envelope(reply.data).images # None
  BY DEF Succeed
<1>4. /\ result'.ok /\ result'.images = ExtractImages(op, reply.data, args)
      /\ Envelope(reply.data)' = Envelope(reply.data)
  BY <1>1, <1>3 DEF Envelope
<1>5. PhaseOK'
  BY <1>1, <1>3, <1>4 DEF PhaseOK
<1>6. ErrorsSafe'
  BY <1>4 DEF ErrorsSafe
<1>7. LinksTrue'
  BY <1>1, <1>4, LinksOfBlock DEF LinksTrue
<1> QED
  BY <1>2, <1>5, <1>6, <1>7 DEF CallInv

LEMMA FailKeeps ==
  ASSUME CallInv, Fail
  PROVE  CallInv'
<1> DEFINE mapped == MapUpstreamError(reply.status, reply.data)
<1>1. /\ phase = "replied" /\ op \in Operations /\ Usable(op)
      /\ reply.status \in 100 .. 599 /\ WellFormed(reply.data)
      /\ reply.status \notin 200 .. 299
      /\ UNCHANGED <<op, args, request, reply, read>>
  BY DEF Fail, CallInv, PhaseOK
<1>2. ForwardedExactly' /\ ReadTrue'
  BY <1>1, SameRequest, SameRead DEF CallInv
<1>3. /\ phase' = "serving"
      /\ result' = ErrorOf(mapped.error_type, mapped.detail)
      /\ logged' = [reported |-> {}, detail |-> mapped.log_full]
  BY DEF Fail, Answered
<1>4. result'.detail = mapped.detail /\ logged'.detail = mapped.log_full
  BY <1>3 DEF ErrorOf
<1>5. PhaseOK'
  BY <1>1, <1>3 DEF PhaseOK
<1>6. ErrorsSafe'
  <2> HIDE DEF mapped
  <2>1. /\ mapped.detail # None => /\ reply.status \in (400 .. 499) \ {401, 403}
                                   /\ mapped.detail = SanitizeDetail(reply.data)
        /\ reply.status \notin 400 .. 499 => mapped.log_full = reply.data
        /\ reply.status \in 400 .. 499 => mapped.log_full = None
    <3>1. CASE reply.status = 401
      BY <3>1 DEF mapped, MapUpstreamError
    <3>2. CASE reply.status = 403
      BY <3>2 DEF mapped, MapUpstreamError
    <3>3. CASE reply.status \in (400 .. 499) \ {401, 403}
      BY <3>3 DEF mapped, MapUpstreamError
    <3>4. CASE reply.status \notin 400 .. 499
      BY <3>4 DEF mapped, MapUpstreamError
    <3> QED
      BY <3>1, <3>2, <3>3, <3>4
  <2>2. mapped.detail # None =>
          /\ mapped.detail \notin Leaky
          /\ \E a \in DOMAIN reply.data : OnOneLine(reply.data[a].text) = mapped.detail
    BY <1>1, <2>1, DetailIsSaid
  <2> QED
    BY <1>1, <1>4, <2>1, <2>2 DEF ErrorsSafe
<1> QED
  BY <1>2, <1>3, <1>5, <1>6, NoLinks DEF CallInv

LEMMA PicturesKeep ==
  ASSUME CallInv, FetchPictures
  PROVE  CallInv'
<1>1. /\ phase = "pictures" /\ op \in Operations /\ Usable(op)
      /\ UNCHANGED <<op, args, request, reply, read, logged>>
      /\ \/ UNCHANGED <<phase, result>>
         \/ \E landed : Attach(landed)
  BY DEF FetchPictures, TakePicture, Ask, Redirected, Lands, Drop, Asking, Walking, Goes,
         BatchEnds, BatchRaises, Attach, CallInv, PhaseOK
<1>2. ForwardedExactly' /\ ReadTrue'
  BY <1>1, SameRequest, SameRead DEF CallInv
<1>3. CASE UNCHANGED <<phase, result>>
  <2>1. Envelope(reply.data)' = Envelope(reply.data)
    BY <1>1 DEF Envelope
  <2>2. PhaseOK'
    BY <1>1, <1>3, <2>1 DEF CallInv, PhaseOK
  <2> QED
    BY <1>1, <1>2, <1>3, <2>2 DEF CallInv, ErrorsSafe, LinksTrue
<1>4. ASSUME NEW landed, Attach(landed)
      PROVE  CallInv'
  <2>1. /\ phase' = "serving"
        /\ \E thumbnails :
             result' = [result EXCEPT !.images = WithThumbnails(@, batch.urls, landed),
                                      !.thumbnails = thumbnails]
    BY <1>4 DEF Attach
  <2>2. result = Envelope(reply.data) /\ result.images # None
    BY <1>1 DEF CallInv, PhaseOK
  <2>3. /\ result.ok /\ result'.ok
        /\ result'.images = WithThumbnails(result.images, batch.urls, landed)
    BY <2>1, <2>2 DEF Envelope
  <2>4. result'.images.items = result.images.items
    BY <2>3 DEF WithThumbnails
  <2>5. LinksTrue'
    <3>1. result.images = ExtractImages(op, reply.data, args)
      BY <2>2 DEF Envelope
    <3> QED
      BY <1>1, <2>2, <2>4, <3>1, LinksOfBlock DEF LinksTrue
  <2>6. PhaseOK'
    BY <1>1, <2>1 DEF PhaseOK
  <2> QED
    BY <1>2, <2>3, <2>5, <2>6 DEF CallInv, ErrorsSafe
<1> QED
  BY <1>1, <1>3, <1>4

LEMMA ReadKeeps ==
  ASSUME CallInv, NEW uri \in Uris, Read(uri)
  PROVE  CallInv'
<1>1. /\ phase = "serving" /\ phase' = phase /\ op' = op /\ op \in Operations /\ Usable(op)
      /\ read' = [uri |-> uri, answer |-> ReadResource(uri)]
      /\ request' = None /\ result' = None
  BY DEF Read, CallInv, PhaseOK
<1>2. PhaseOK' /\ ForwardedExactly' /\ ReadTrue'
  BY <1>1 DEF PhaseOK, ForwardedExactly, ReadTrue
<1> QED
  BY <1>1, <1>2, ToldNothing, NoLinks DEF CallInv

LEMMA CallInitially == SessionInit => CallInv
BY DEF SessionInit, Init, CallInv, PhaseOK, ForwardedExactly, ErrorsSafe, LinksTrue, ReadTrue

LEMMA CallInvariant == CallInv /\ [SessionNext]_<<vars, onboardingVars>> => CallInv'
<1> SUFFICES ASSUME CallInv, [SessionNext]_<<vars, onboardingVars>>
             PROVE  CallInv'
  OBVIOUS
<1>1. CASE Boot
  <2>1. /\ phase = "boot" /\ phase' = IF Usable(op) THEN "serving" ELSE "refused"
        /\ UNCHANGED <<op, args, request, reply, result, logged, read>>
        /\ op \in Operations /\ request = None /\ result = None /\ read = None
    BY <1>1 DEF Boot, CallInv, PhaseOK
  <2>2. PhaseOK'
    BY <2>1 DEF PhaseOK
  <2> QED
    BY <2>1, <2>2, SameRequest, SameRead, ToldNothing, NoLinks DEF CallInv
<1>2. CASE Calls
  BY <1>2, ReceiveKeeps, ReplyKeeps, SucceedKeeps, FailKeeps, PicturesKeep, ReadKeeps DEF Calls
<1>3. CASE UNCHANGED vars
  <2>1. Envelope(reply.data)' = Envelope(reply.data)
    BY <1>3 DEF vars, Envelope
  <2> QED
    BY <1>3, <2>1 DEF vars, CallInv, PhaseOK, ForwardedExactly, ErrorsSafe, LinksTrue, ReadTrue
<1> QED
  BY <1>1, <1>2, <1>3 DEF SessionNext

(* The upstream gets the constants of the manifest with their own values,  *)
(* the declared parameters, and nothing else the caller sent: whatever the *)
(* arguments, for every operation the lints let through.                   *)
THEOREM NothingElseForwarded == SessionSpec => []ForwardedExactly
<1>1. CallInv => ForwardedExactly
  BY DEF CallInv
<1> QED
  BY <1>1, CallInitially, CallInvariant, PTL DEF SessionSpec

(* Whatever an upstream answers, its words reach the caller only out of a  *)
(* 4xx other than 401 and 403, on one line and with no leak marker in that *)
(* line, and what the caller is not told of a redirect or of a server      *)
(* error is in the log.                                                    *)
THEOREM ErrorsAreSafe == SessionSpec => []ErrorsSafe
<1>1. CallInv => ErrorsSafe
  BY DEF CallInv
<1> QED
  BY <1>1, CallInitially, CallInvariant, PTL DEF SessionSpec

(* Whatever the payload and the arguments, a link opens a page of the      *)
(* status that was asked for, with no hole in its path; after the pictures *)
(* were attached, too.                                                     *)
THEOREM LinksAreHonest == SessionSpec => []LinksHonest
<1>1. CallInv => LinksHonest
  BY DEF CallInv, LinksTrue, LinkTrue, LinksHonest, Delivered
<1> QED
  BY <1>1, CallInitially, CallInvariant, PTL DEF SessionSpec

----------------------------------------------------------------------------
(* mcp_transport.py on_read_resource: what a URI is without what follows a *)
(* mark.                                                                   *)
LEMMA BeforeMark ==
  ASSUME NEW S, NEW uri \in Seq(S), NEW mark
  PROVE  \E n \in 0 .. Len(uri) :
           /\ Before(uri, mark) = SubSeq(uri, 1, n)
           /\ n = Len(uri) \/ uri[n + 1] = mark
           /\ \A i \in 1 .. n : uri[i] # mark
<1> DEFINE marks == {i \in 1 .. Len(uri) : uri[i] = mark}
           at    == SelectInSeq(uri, LAMBDA part : part = mark)
<1>1. at = IF marks # {} THEN Min(marks) ELSE 0
  BY DEF SelectInSeq
<1>2. Before(uri, mark) = IF at = 0 THEN uri ELSE SubSeq(uri, 1, at - 1)
  BY DEF Before
<1>3. Len(uri) \in Nat
  OBVIOUS
<1>4. marks \in SUBSET Nat /\ marks \subseteq 1 .. Len(uri)
  <2>1. marks \subseteq 1 .. Len(uri)
    BY Zenon
  <2>2. 1 .. Len(uri) \subseteq Nat
    BY <1>3
  <2> HIDE DEF marks
  <2> QED
    BY <2>1, <2>2
<1>5. \A i \in 1 .. Len(uri) : i \in marks <=> uri[i] = mark
  OBVIOUS
<1> HIDE DEF marks, at
<1>6. CASE marks = {}
  <2>1. uri = SubSeq(uri, 1, Len(uri))
    OBVIOUS
  <2>2. \A i \in 1 .. Len(uri) : uri[i] # mark
    BY <1>5, <1>6
  <2>3. Len(uri) \in 0 .. Len(uri)
    BY <1>3
  <2> QED
    BY <1>1, <1>2, <1>6, <2>1, <2>2, <2>3
<1>7. CASE marks # {}
  <2>1. at \in marks /\ \A i \in marks : at <= i
    BY <1>1, <1>4, <1>7, LeastOf
  <2>2. at \in 1 .. Len(uri) /\ uri[at] = mark
    BY <1>4, <1>5, <2>1
  <2>3. at - 1 \in 0 .. Len(uri) /\ (at - 1) + 1 = at
    BY <1>3, <2>2
  <2>4. ASSUME NEW i \in 1 .. (at - 1) PROVE uri[i] # mark
    <3>1. i \in 1 .. Len(uri) /\ ~(at <= i)
      BY <1>3, <2>2
    <3> QED
      BY <1>5, <2>1, <3>1
  <2>5. Before(uri, mark) = SubSeq(uri, 1, at - 1)
    BY <1>2, <2>2, <1>3
  <2> QED
    BY <2>2, <2>3, <2>4, <2>5
<1> QED
  BY <1>6, <1>7

Marks == {"?", "#"}

LEMMA AddressIsCut ==
  ASSUME NEW S, NEW uri \in Seq(S)
  PROVE  \E n \in 0 .. Len(uri) :
           /\ Address(uri) = SubSeq(uri, 1, n)
           /\ n = Len(uri) \/ uri[n + 1] \in Marks
           /\ \A i \in 1 .. n : uri[i] \notin Marks
<1>1. PICK query, fragment : query = "?" /\ fragment = "#"
  OBVIOUS
<1>2. PICK m \in 0 .. Len(uri) :
        /\ Before(uri, query) = SubSeq(uri, 1, m)
        /\ m = Len(uri) \/ uri[m + 1] = query
        /\ \A i \in 1 .. m : uri[i] # query
  BY BeforeMark
<1>3. PICK path : path = SubSeq(uri, 1, m)
  OBVIOUS
<1>4. Len(uri) \in Nat /\ m \in Nat /\ m <= Len(uri)
  BY <1>2
<1>5. path \in Seq(S) /\ Len(path) = m /\ \A i \in 1 .. m : path[i] = uri[i]
  BY <1>3, <1>4
<1>6. PICK n \in 0 .. Len(path) :
        /\ Before(path, fragment) = SubSeq(path, 1, n)
        /\ n = Len(path) \/ path[n + 1] = fragment
        /\ \A i \in 1 .. n : path[i] # fragment
  BY <1>5, BeforeMark
<1>7. n \in 0 .. m /\ n \in 0 .. Len(uri) /\ n \in Nat
  BY <1>4, <1>5, <1>6
<1>8. Address(uri) = SubSeq(path, 1, n)
  BY <1>1, <1>2, <1>3, <1>6 DEF Address
<1>9. SubSeq(path, 1, n) = SubSeq(uri, 1, n)
  <2>1. /\ SubSeq(path, 1, n) \in Seq(S) /\ SubSeq(uri, 1, n) \in Seq(S)
        /\ Len(SubSeq(path, 1, n)) = n /\ Len(SubSeq(uri, 1, n)) = n
    BY <1>4, <1>5, <1>7
  <2>2. \A i \in 1 .. n : SubSeq(path, 1, n)[i] = SubSeq(uri, 1, n)[i]
    BY <1>4, <1>5, <1>7
  <2> QED
    BY <2>1, <2>2, SeqEqual
<1>10. n = Len(uri) \/ uri[n + 1] \in Marks
  <2>1. CASE n = m
    BY <1>1, <1>2, <2>1 DEF Marks
  <2>2. CASE n # m
    <3>1. n + 1 \in 1 .. m
      BY <1>4, <1>7, <2>2
    <3>2. path[n + 1] = fragment
      BY <1>5, <1>6, <2>2
    <3> QED
      BY <1>1, <1>5, <3>1, <3>2 DEF Marks
  <2> QED
    BY <2>1, <2>2
<1>11. ASSUME NEW i \in 1 .. n PROVE uri[i] \notin Marks
  <2>1. i \in 1 .. m
    BY <1>4, <1>7
  <2>2. uri[i] # query /\ uri[i] # fragment
    BY <1>2, <1>5, <1>6, <2>1
  <2> QED
    BY <1>1, <2>2 DEF Marks
<1> QED
  BY <1>7, <1>8, <1>9, <1>10, <1>11

(* What is read at uri is what is listed under meant.                      *)
Means(uri, meant) ==
  IsPrefix(meant, uri) /\ (Len(uri) = 2 \/ uri[3] \in Marks)

LEMMA AddressIsMeant ==
  ASSUME NEW S, NEW uri \in Seq(S), NEW meant \in Seq(S), Len(meant) = 2,
         meant[1] \notin Marks, meant[2] \notin Marks
  PROVE  Address(uri) = meant <=> Means(uri, meant)
<1>1. PICK n \in 0 .. Len(uri) :
        /\ Address(uri) = SubSeq(uri, 1, n)
        /\ n = Len(uri) \/ uri[n + 1] \in Marks
        /\ \A i \in 1 .. n : uri[i] \notin Marks
  BY AddressIsCut
<1>2. Len(uri) \in Nat /\ n \in Nat /\ n <= Len(uri)
  BY <1>1
<1>3. \A m \in 0 .. Len(uri) :
        /\ SubSeq(uri, 1, m) \in Seq(S) /\ Len(SubSeq(uri, 1, m)) = m
        /\ \A i \in 1 .. m : SubSeq(uri, 1, m)[i] = uri[i]
  BY <1>2
<1>4. SubSeq(meant, 1, Len(meant)) = meant
  OBVIOUS
<1>5. IsPrefix(meant, uri) <=> 2 <= Len(uri) /\ SubSeq(uri, 1, 2) = meant
  BY <1>4 DEF IsPrefix
<1>6. ASSUME Address(uri) = meant PROVE Means(uri, meant)
  <2>1. n = 2
    <3>1. Len(SubSeq(uri, 1, n)) = n
      BY <1>2, <1>3
    <3> QED
      BY <1>1, <1>6, <3>1
  <2>2. 2 <= Len(uri) /\ SubSeq(uri, 1, 2) = meant
    BY <1>1, <1>2, <1>6, <2>1
  <2>3. Len(uri) = 2 \/ uri[3] \in Marks
    <3>1. 2 = Len(uri) \/ uri[2 + 1] \in Marks
      BY <1>1, <2>1
    <3>2. 2 + 1 = 3
      OBVIOUS
    <3> QED
      BY <3>1, <3>2
  <2> QED
    BY <1>5, <2>2, <2>3 DEF Means
<1>7. ASSUME Means(uri, meant) PROVE Address(uri) = meant
  <2>1. 2 <= Len(uri) /\ SubSeq(uri, 1, 2) = meant
    BY <1>5, <1>7 DEF Means
  <2>2. uri[1] = meant[1] /\ uri[2] = meant[2]
    <3>1. /\ 2 \in 0 .. Len(uri) /\ 1 \in 1 .. 2 /\ 2 \in 1 .. 2
      BY <1>2, <2>1
    <3> QED
      BY <1>3, <2>1, <3>1
  <2>3. n # 0
    <3>1. n = 0 => n # Len(uri) /\ n + 1 = 1
      BY <1>2, <2>1
    <3> QED
      BY <1>1, <2>2, <3>1
  <2>4. n # 1
    <3>1. n = 1 => n # Len(uri) /\ n + 1 = 2
      BY <1>2, <2>1
    <3> QED
      BY <1>1, <2>2, <3>1
  <2>5. n < 3
    <3> SUFFICES ASSUME 3 <= n PROVE FALSE
      BY <1>2
    <3>1. 3 \in 1 .. n
      BY <1>2
    <3>2. ASSUME Len(uri) = 2 PROVE FALSE
      <4>1. n <= 2
        BY <1>2, <3>2
      <4> QED
        BY <1>2, <4>1
    <3> QED
      BY <1>1, <1>7, <3>1, <3>2 DEF Means
  <2>6. n = 2
    BY <1>2, <2>3, <2>4, <2>5
  <2> QED
    BY <1>1, <2>1, <2>6
<1> QED
  BY <1>6, <1>7

(* What is listed under an address is what is read there.                  *)
LEMMA ReadAtAddress ==
  ASSUME NEW uri
  PROVE  /\ Address(uri) \in DOMAIN Listed =>
              ReadResource(uri) = [kind |-> Listed[Address(uri)].kind,
                                   contents |-> Listed[Address(uri)]]
         /\ Address(uri) \notin DOMAIN Listed =>
              ReadResource(uri) = [kind |-> "unknown", contents |-> "error"]
<1> DEFINE address == Address(uri)
           widgets == {w \in Widgets : WidgetUri(w) = address}
           names   == {n \in DOMAIN Runbooks : <<PlaybookScheme, n>> = address}
<1>1. ReadResource(uri) =
        CASE widgets # {} ->
               [kind |-> "widget", contents |-> Widget(CHOOSE w \in widgets : TRUE)]
          [] widgets = {} /\ names # {} ->
               [kind |-> "playbook", contents |-> Playbook(CHOOSE n \in names : TRUE)]
          [] OTHER -> [kind |-> "unknown", contents |-> "error"]
  BY DEF ReadResource
<1>2. address \in DOMAIN Listed <=> widgets # {} \/ names # {}
  BY DEF Listed
<1>3. \A u \in DOMAIN Listed :
        Listed[u] = IF u[1] = WidgetScheme THEN Widget(u[2]) ELSE Playbook(u[2])
  BY DEF Listed
<1>4. ASSUME widgets # {}
      PROVE  ReadResource(uri) = [kind |-> Listed[address].kind, contents |-> Listed[address]]
  <2>1. PICK w : w = (CHOOSE v \in widgets : TRUE)
    OBVIOUS
  <2>2. w \in widgets
    BY <1>4, <2>1
  <2>3. address[1] = WidgetScheme /\ address[2] = w
    BY <2>2 DEF WidgetUri
  <2>4. Listed[address] = Widget(w)
    BY <1>2, <1>3, <1>4, <2>3
  <2>5. ReadResource(uri) = [kind |-> "widget", contents |-> Widget(w)]
    BY <1>1, <1>4, <2>1
  <2> QED
    BY <2>4, <2>5 DEF Widget
<1>5. ASSUME widgets = {}, names # {}
      PROVE  ReadResource(uri) = [kind |-> Listed[address].kind, contents |-> Listed[address]]
  <2>1. PICK n : n = (CHOOSE v \in names : TRUE)
    OBVIOUS
  <2>2. n \in names
    BY <1>5, <2>1
  <2>3. address[1] = PlaybookScheme /\ address[2] = n
    BY <2>2
  <2>4. Listed[address] = Playbook(n)
    <3>1. PlaybookScheme # WidgetScheme
      BY DEF PlaybookScheme, WidgetScheme
    <3> QED
      BY <1>2, <1>3, <1>5, <2>3, <3>1
  <2>5. ReadResource(uri) = [kind |-> "playbook", contents |-> Playbook(n)]
    BY <1>1, <1>5, <2>1
  <2> QED
    BY <2>4, <2>5 DEF Playbook
<1>6. ASSUME widgets = {}, names = {}
      PROVE  ReadResource(uri) = [kind |-> "unknown", contents |-> "error"]
  BY <1>1, <1>6
<1> QED
  BY <1>2, <1>4, <1>5, <1>6

(* Every URI that is listed is made of two parts, no mark among them.      *)
LEMMA ListedAreMarked ==
  ASSUME NEW meant \in DOMAIN Listed
  PROVE  /\ meant \in Seq(STRING \cup {PlaybookScheme, WidgetScheme})
         /\ Len(meant) = 2 /\ meant[1] \notin Marks /\ meant[2] \notin Marks
<1> DEFINE schemes == {PlaybookScheme, WidgetScheme}
           parts   == STRING \cup schemes
<1>1. PICK scheme \in schemes, name \in DOMAIN Runbooks \cup Widgets : meant = <<scheme, name>>
  BY DEF Listed, WidgetUri
<1>2. scheme \in parts /\ name \in parts
  BY ResourcesAssumption
<1>3. scheme \notin Marks /\ name \notin Marks
  BY ResourcesAssumption DEF Marks, PlaybookScheme, WidgetScheme
<1> HIDE DEF schemes, parts
<1>4. meant \in Seq(parts) /\ Len(meant) = 2 /\ meant[1] = scheme /\ meant[2] = name
  BY <1>1, <1>2
<1> QED
  BY <1>3, <1>4 DEF parts, schemes

(* Whatever the shipped playbooks and widgets are called, as long as no    *)
(* name holds a mark: each can be read at every URI that means it, as what *)
(* it is listed as; nothing else can.                                      *)
THEOREM ResourcesAreReadable == SessionSpec => []ResourcesReadable
<1>1. CallInv => ResourcesReadable
  <2> SUFFICES ASSUME CallInv, read # None
               PROVE  LET meant == {uri \in DOMAIN Listed : Means(read.uri, uri)} IN
                      /\ \A uri \in meant :
                           read.answer = [kind |-> Listed[uri].kind, contents |-> Listed[uri]]
                      /\ meant = {} => read.answer = [kind |-> "unknown", contents |-> "error"]
                      /\ op.images # None /\ op.images.widget # None =>
                           WidgetUri(op.images.widget) \in DOMAIN Listed
    BY DEF ResourcesReadable, Means, Marks
  <2> DEFINE meant == {uri \in DOMAIN Listed : Means(read.uri, uri)}
  <2>1. Usable(op) /\ read.uri \in Uris /\ read.answer = ReadResource(read.uri)
    BY DEF CallInv, ReadTrue
  <2>2. read.uri \in Seq(STRING \cup {PlaybookScheme, WidgetScheme})
    BY <2>1, AnswerAssumption, SeqMonotonic
  <2>3. \A uri \in DOMAIN Listed : Address(read.uri) = uri <=> Means(read.uri, uri)
    BY <2>2, ListedAreMarked, AddressIsMeant
  <2>4. \A uri \in meant :
          read.answer = [kind |-> Listed[uri].kind, contents |-> Listed[uri]]
    BY <2>1, <2>3, ReadAtAddress
  <2>5. meant = {} => read.answer = [kind |-> "unknown", contents |-> "error"]
    BY <2>1, <2>3, ReadAtAddress
  <2>6. op.images # None /\ op.images.widget # None =>
          WidgetUri(op.images.widget) \in DOMAIN Listed
    BY <2>1 DEF Usable, ImagesUsable, Optional, Listed
  <2> QED
    BY <2>4, <2>5, <2>6
<1> QED
  BY <1>1, CallInitially, CallInvariant, PTL DEF SessionSpec

----------------------------------------------------------------------------
(* omit.py.  One entry takes away what its path addresses: the last key is *)
(* no wildcard, and a key that a path uses hangs from dictionaries only.   *)
LEMMA TrimIs ==
  ASSUME NEW acc, WellFormed(acc.data),
         NEW entry, entry.path \in Seq(Segment), entry.path # <<>>, Last(entry.path) # Wildcard
  PROVE  /\ Addressed(acc.data, entry.path) = {} => Trim(acc, entry) = acc
         /\ Addressed(acc.data, entry.path) # {} =>
              Trim(acc, entry) = [data |-> Without(acc.data, Addressed(acc.data, entry.path)),
                                  omitted |-> Append(acc.omitted, entry.path)]
<1> DEFINE e       == acc.data
           path    == entry.path
           n       == Len(path)
           key     == Last(path)
           parents == IF n = 1 THEN {<<>>} ELSE ToSet(Resolve(e, <<>>, Front(path)))
           victims == {Append(p, key) : p \in {q \in parents : e[q].kind = "dict"}} \cap DOMAIN e
<1>1. /\ Front(path) \in Seq(Segment) /\ n \in Nat \ {0} /\ Len(Front(path)) = n - 1
      /\ \A i \in 1 .. n - 1 : Front(path)[i] = path[i]
      /\ key \in Segment /\ key = path[n] /\ key # Wildcard
  BY FrontLast
<1>2. parents = IF n = 1 THEN {<<>>} ELSE Addressed(e, Front(path))
  BY <1>1, ResolveFromRoot
<1>3. Trim(acc, entry) = IF victims = {} THEN acc
                         ELSE [data |-> Without(e, victims), omitted |-> Append(acc.omitted, path)]
  BY DEF Trim
<1> HIDE DEF parents
<1>4. \A a \in Seq(STRING) : Leads(path, a) <=>
         Len(a) = n /\ \A i \in 1 .. n : path[i] \in {Wildcard, a[i]}
  BY <1>1 DEF Leads
<1>5. ASSUME n # 1
      PROVE  \A a \in Seq(STRING) : Leads(Front(path), a) <=>
                Len(a) = n - 1 /\ \A i \in 1 .. n - 1 : path[i] \in {Wildcard, a[i]}
  <2> HIDE DEF path, n
  <2>1. PICK f \in Seq(Segment) : f = Front(path)
    BY <1>1
  <2>2. Len(f) = n - 1 /\ Len(f) # 0
    BY <1>1, <1>5, <2>1
  <2>3. f # <<>> /\ DOMAIN f = 1 .. n - 1
    <3>1. f # <<>>
      BY <2>2, NotEmpty
    <3>2. DOMAIN f = 1 .. Len(f)
      OBVIOUS
    <3> QED
      BY <2>2, <3>1, <3>2
  <2>4. \A i \in 1 .. n - 1 : f[i] = path[i]
    BY <1>1, <2>1
  <2>5. \A a : Leads(f, a) <=> Len(a) = n - 1 /\ \A i \in 1 .. n - 1 : path[i] \in {Wildcard, a[i]}
    BY <2>2, <2>3, <2>4 DEF Leads
  <2> QED
    BY <2>1, <2>5
<1>6. DOMAIN e \subseteq Seq(STRING) /\ <<>> \in DOMAIN e
  BY DEF WellFormed
<1>7. ASSUME NEW p \in parents, e[p].kind = "dict", Append(p, key) \in DOMAIN e
      PROVE  Append(p, key) \in Addressed(e, path)
  <2>1. /\ p \in DOMAIN e /\ p \in Seq(STRING) /\ Len(p) = n - 1
        /\ \A i \in 1 .. n - 1 : path[i] \in {Wildcard, p[i]}
    <3>1. CASE n = 1
      <4>1. p = <<>>
        BY <1>2, <1>7, <3>1
      <4> QED
        BY <1>1, <1>6, <3>1, <4>1, EmptySeq
    <3>2. CASE n # 1
      <4>1. p \in DOMAIN e /\ Leads(Front(path), p)
        BY <1>2, <1>7, <3>2 DEF Addressed
      <4> QED
        BY <1>5, <1>6, <3>2, <4>1
    <3> QED
      BY <3>1, <3>2
  <2> DEFINE a == Append(p, key)
  <2>2. key \in STRING
    BY <1>1 DEF Segment
  <2>3. a \in Seq(STRING) /\ Len(a) = n /\ a[n] = key /\ \A i \in 1 .. n - 1 : a[i] = p[i]
    <3>1. a \in Seq(STRING) /\ Len(a) = Len(p) + 1 /\ a[Len(p) + 1] = key
          /\ \A i \in 1 .. Len(p) : a[i] = p[i]
      BY <2>1, <2>2, AppendProperties
    <3>2. Len(p) + 1 = n
      BY <1>1, <2>1
    <3> QED
      BY <2>1, <3>1, <3>2
  <2> HIDE DEF a
  <2>4. \A i \in 1 .. n : path[i] \in {Wildcard, a[i]}
    <3> TAKE i \in 1 .. n
    <3>1. i = n \/ i \in 1 .. n - 1
      BY <1>1
    <3> QED
      BY <1>1, <2>1, <2>3, <3>1
  <2>5. Leads(path, a)
    BY <1>4, <2>3, <2>4
  <2> QED
    BY <1>7, <2>5 DEF Addressed, a
<1>8. ASSUME NEW a \in Addressed(e, path)
      PROVE  a \in victims
  <2>1. /\ a \in DOMAIN e /\ a \in Seq(STRING) /\ Len(a) = n
        /\ \A i \in 1 .. n : path[i] \in {Wildcard, a[i]}
    BY <1>4, <1>6 DEF Addressed
  <2>2. a # <<>>
    BY <1>1, <2>1, EmptySeq
  <2>3. /\ Front(a) \in Seq(STRING) /\ Len(Front(a)) = n - 1
        /\ \A i \in 1 .. n - 1 : Front(a)[i] = a[i]
        /\ Last(a) = a[n] /\ Append(Front(a), Last(a)) = a
    BY <2>1, <2>2, FrontLast
  <2>4. Last(a) = key
    BY <1>1, <2>1, <2>3
  <2>5. Front(a) \in DOMAIN e /\ key \in ToSet(e[Front(a)].keys)
    BY <2>1, <2>2, <2>4, NodesOf
  <2>6. e[Front(a)].kind = "dict"
    <3>1. e[Front(a)].keys # <<>>
      BY <2>5 DEF ToSet
    <3>2. key \notin ToSet(ElementNames)
      BY <1>1 DEF Segment
    <3> QED
      BY <2>5, <3>1, <3>2 DEF WellFormed
  <2>7. Front(a) \in parents
    <3>1. CASE n = 1
      <4>1. Front(a) = <<>>
        BY <2>3, <3>1, EmptySeq
      <4> QED
        BY <1>2, <3>1, <4>1
    <3>2. CASE n # 1
      <4>1. \A i \in 1 .. n - 1 : path[i] \in {Wildcard, Front(a)[i]}
        BY <1>1, <2>1, <2>3
      <4>2. Leads(Front(path), Front(a))
        BY <1>5, <2>3, <3>2, <4>1
      <4> QED
        BY <1>2, <2>5, <3>2, <4>2 DEF Addressed
    <3> QED
      BY <3>1, <3>2
  <2> QED
    BY <2>1, <2>3, <2>4, <2>6, <2>7
<1>9. victims = Addressed(e, path)
  <2>1. victims \subseteq Addressed(e, path)
    BY <1>7
  <2>2. Addressed(e, path) \subseteq victims
    BY <1>8
  <2> HIDE DEF victims, path
  <2> QED
    BY <2>1, <2>2
<1> HIDE DEF victims
<1> QED
  BY <1>3, <1>9

(* The entries are applied one after the other.                            *)
Trims(o, d, n, f) ==
  f = [i \in 0 .. n |->
         IF i = 0 THEN [data |-> d, omitted |-> <<>>] ELSE Trim(f[i - 1], o.omit[i])]

LEMMA TrimsExists ==
  ASSUME NEW o, NEW d
  PROVE  \A n \in Nat : \E f : Trims(o, d, n, f)
<1> DEFINE Z == {n \in Nat : \E f : Trims(o, d, n, f)}
           none == [data |-> d, omitted |-> <<>>]
<1>1. 0 \in Z
  <2>1. Trims(o, d, 0, [i \in 0 .. 0 |-> none])
    BY DEF Trims
  <2> QED
    BY <2>1
<1> HIDE DEF none
<1>2. ASSUME NEW n \in Nat, n \in Z PROVE n + 1 \in Z
  <2>1. PICK f : Trims(o, d, n, f)
    BY <1>2
  <2> DEFINE g == [i \in 0 .. n + 1 |-> IF i = n + 1 THEN Trim(f[n], o.omit[i]) ELSE f[i]]
  <2>2. \A i \in 0 .. n : f[i] = IF i = 0 THEN none ELSE Trim(f[i - 1], o.omit[i])
    BY <2>1 DEF Trims, none
  <2>3. \A i \in 0 .. n : g[i] = f[i]
    OBVIOUS
  <2>4. ASSUME NEW i \in 0 .. n + 1
        PROVE  g[i] = IF i = 0 THEN none ELSE Trim(g[i - 1], o.omit[i])
    <3>1. CASE i = n + 1
      <4>1. i - 1 = n /\ n \in 0 .. n /\ i # 0
        BY <3>1
      <4>2. g[i] = Trim(f[n], o.omit[i]) /\ g[i - 1] = f[n]
        BY <2>3, <3>1, <4>1
      <4> HIDE DEF g
      <4> QED
        BY <4>1, <4>2
    <3>2. CASE i # n + 1 /\ i # 0
      <4>1. i \in 0 .. n /\ i - 1 \in 0 .. n
        BY <3>2
      <4> HIDE DEF g
      <4> QED
        BY <2>2, <2>3, <3>2, <4>1
    <3>3. CASE i = 0
      BY <2>2, <2>3, <3>3
    <3> QED
      BY <3>1, <3>2, <3>3
  <2>5. Trims(o, d, n + 1, g)
    <3>1. g = [i \in 0 .. n + 1 |-> g[i]]
      OBVIOUS
    <3> HIDE DEF g
    <3> QED
      BY <2>4, <3>1 DEF Trims, none
  <2> HIDE DEF g
  <2> QED
    BY <2>5
<1>3. Nat \subseteq Z
  <2> HIDE DEF Z
  <2> QED
    BY <1>1, <1>2, NatIsClosed
<1> QED
  BY <1>3

LEMMA ApplyOmitIs ==
  ASSUME NEW o, NEW d, NEW T, o.omit \in Seq(T)
  PROVE  \E f : Trims(o, d, Len(o.omit), f) /\ ApplyOmit(o, d) = f[Len(o.omit)]
<1> DEFINE f == CHOOSE f : Trims(o, d, Len(o.omit), f)
<1>1. Len(o.omit) \in Nat
  OBVIOUS
<1>2. Trims(o, d, Len(o.omit), f)
  <2>1. \E g : Trims(o, d, Len(o.omit), g)
    BY <1>1, TrimsExists
  <2> QED
    BY <2>1
<1>3. ApplyOmit(o, d) = f[Len(o.omit)]
  BY Zenon DEF Trims, ApplyOmit
<1> HIDE DEF f
<1> QED
  BY <1>2, <1>3

(* The paths of the first n entries that take something away.              *)
Taken(o, d, n) == {o.omit[i].path : i \in {j \in 1 .. n : Takes(o, d, j)}}

(* What is left and told once the first n entries are applied.             *)
Trimmed(o, d, n, acc) ==
  /\ acc = [data |-> Without(d, Led(o, d, n)), omitted |-> acc.omitted]
  /\ acc.omitted \in Seq(Seq(Segment))
  /\ ToSet(acc.omitted) = Taken(o, d, n)

LEMMA OmitEntries ==
  ASSUME NEW o \in Operations, Usable(o)
  PROVE  /\ o.omit \in Seq(OmitEntry)
         /\ \A i \in DOMAIN o.omit : /\ o.omit[i].path \in Seq(Segment)
                                     /\ o.omit[i].path # <<>> /\ Last(o.omit[i].path) # Wildcard
<1>1. o.omit \in Seq(OmitEntry)
  BY AnswerAssumption DEF ManifestOperation
<1>2. \A i \in DOMAIN o.omit : o.omit[i].path \in Seq(Segment)
  <2>1. ASSUME NEW i \in DOMAIN o.omit PROVE o.omit[i].path \in Path
    <3>1. o.omit[i] \in OmitEntry
      BY <1>1
    <3> QED
      BY <3>1 DEF OmitEntry
  <2>2. Path = Seq(Segment)
    BY DEF Path, Segment
  <2> QED
    BY <2>1, <2>2
<1> QED
  BY <1>1, <1>2 DEF Usable, OmitUsable

LEMMA LedIs ==
  ASSUME NEW o \in Operations, Usable(o), NEW d, WellFormed(d), NEW n \in 0 .. Len(o.omit)
  PROVE  Led(o, d, n) \in SUBSET Seq(STRING) /\ Led(o, d, n) \subseteq DOMAIN d
         /\ <<>> \notin Led(o, d, n)
<1>1. DOMAIN d \subseteq Seq(STRING)
  BY DEF WellFormed
<1>2. o.omit \in Seq(OmitEntry) /\ Len(o.omit) \in Nat
      /\ \A j \in 1 .. n : o.omit[j].path \in Seq(Segment) /\ o.omit[j].path # <<>>
  BY OmitEntries
<1>3. ASSUME NEW path \in Seq(Segment), Leads(path, <<>>) PROVE FALSE
  <2>1. path # <<>> /\ Len(path) = Len(<<>>)
    BY <1>3 DEF Leads
  <2>2. Len(path) = 0
    BY <2>1, EmptySeq
  <2> QED
    BY <2>1, <2>2, EmptySeq
<1>4. <<>> \notin Led(o, d, n)
  BY <1>2, <1>3 DEF Led
<1> QED
  BY <1>1, <1>4 DEF Led

LEMMA OmitFirst ==
  ASSUME NEW o, NEW d, WellFormed(d), NEW f, NEW n \in Nat, Trims(o, d, n, f)
  PROVE  Trimmed(o, d, 0, f[0])
<1>1. f[0] = [data |-> d, omitted |-> <<>>]
  BY DEF Trims
<1>2. Led(o, d, 0) = {}
  BY DEF Led
<1>3. Without(d, Led(o, d, 0)) = d
  BY <1>2, WithoutNothing
<1>4. f[0].omitted = <<>> /\ <<>> \in Seq(Seq(Segment)) /\ ToSet(<<>>) = {}
  BY <1>1, EmptySeq DEF ToSet
<1>5. Taken(o, d, 0) = {}
  BY DEF Taken
<1> QED
  BY <1>1, <1>2, <1>3, <1>4, <1>5 DEF Trimmed

LEMMA OmitStep ==
  ASSUME NEW o \in Operations, Usable(o), NEW d, WellFormed(d),
         NEW n \in Nat, n + 1 \in 1 .. Len(o.omit), NEW acc, Trimmed(o, d, n, acc)
  PROVE  Trimmed(o, d, n + 1, Trim(acc, o.omit[n + 1]))
<1> DEFINE path == o.omit[n + 1].path
           V    == Led(o, d, n)
           W    == Addressed(d, path)
           Y    == Led(o, d, n + 1)
           e    == Without(d, V)
           more == Append(acc.omitted, path)
           next == Trim(acc, o.omit[n + 1])
<1>1. /\ o.omit \in Seq(OmitEntry) /\ Len(o.omit) \in Nat
      /\ path \in Seq(Segment) /\ path # <<>> /\ Last(path) # Wildcard
  BY OmitEntries
<1>2. V \in SUBSET Seq(STRING) /\ V \subseteq DOMAIN d /\ <<>> \notin V
  BY <1>1, LedIs
<1>3. W \in SUBSET DOMAIN d
  BY DEF Addressed
<1>4. Y = V \cup W
  <2>1. \A j \in 1 .. n + 1 : j = n + 1 \/ j \in 1 .. n
    OBVIOUS
  <2>2. \A j \in 1 .. n : j \in 1 .. n + 1
    OBVIOUS
  <2>3. n + 1 \in 1 .. n + 1
    OBVIOUS
  <2> QED
    BY <2>1, <2>2, <2>3 DEF Led, Addressed
<1>5. WellFormed(e) /\ DOMAIN e = Kept(d, V)
  BY <1>2, WithoutIsWellFormed, WithoutIs
<1>6. Addressed(e, path) = StillThere(d, V, W)
  BY <1>5 DEF Addressed, StillThere, Kept
<1>7. acc = [data |-> e, omitted |-> acc.omitted] /\ acc.omitted \in Seq(Seq(Segment))
      /\ ToSet(acc.omitted) = Taken(o, d, n)
  BY DEF Trimmed
<1> HIDE DEF V, W, Y
<1>8. /\ StillThere(d, V, W) = {} => Taken(o, d, n + 1) = Taken(o, d, n)
      /\ StillThere(d, V, W) # {} => Taken(o, d, n + 1) = Taken(o, d, n) \cup {path}
  <2>1. (n + 1) - 1 = n
    OBVIOUS
  <2>2. Takes(o, d, n + 1) <=> StillThere(d, V, W) # {}
    BY <1>6, <2>1 DEF Takes, V
  <2>3. 1 .. n + 1 = (1 .. n) \cup {n + 1}
    OBVIOUS
  <2>4. {j \in 1 .. n + 1 : Takes(o, d, j)} =
          {j \in 1 .. n : Takes(o, d, j)}
            \cup (IF StillThere(d, V, W) = {} THEN {} ELSE {n + 1})
    BY <2>2, <2>3
  <2> QED
    BY <2>4, Zenon DEF Taken
<1>9. Without(e, StillThere(d, V, W)) = Without(d, Y)
  BY <1>2, <1>3, <1>4, WithoutTwice
<1> HIDE DEF e, path, next
<1>10. PICK entry : entry = o.omit[n + 1]
  OBVIOUS
<1>11. /\ entry.path = path /\ next = Trim(acc, entry)
       /\ entry.path \in Seq(Segment) /\ entry.path # <<>> /\ Last(entry.path) # Wildcard
  BY <1>10, <1>1 DEF path, next
<1>12. acc.data = e
  BY <1>7
<1>13. WellFormed(acc.data) /\ Addressed(acc.data, entry.path) = StillThere(d, V, W)
  BY <1>5, <1>6, <1>11, <1>12
<1>14. /\ Addressed(acc.data, entry.path) = {} => Trim(acc, entry) = acc
       /\ Addressed(acc.data, entry.path) # {} =>
            Trim(acc, entry) = [data |-> Without(acc.data, Addressed(acc.data, entry.path)),
                                omitted |-> Append(acc.omitted, entry.path)]
  BY <1>11, <1>13, TrimIs
<1>15. CASE StillThere(d, V, W) = {}
  <2>1. next = acc
    BY <1>15, <1>11, <1>13, <1>14
  <2>2. Without(d, Y) = e
    BY <1>5, <1>9, <1>15, WithoutNothing
  <2>3. Taken(o, d, n + 1) = Taken(o, d, n)
    BY <1>8, <1>15
  <2>4. Without(d, Led(o, d, n + 1)) = e
    BY <2>2 DEF Y
  <2>5. Trimmed(o, d, n + 1, acc)
    BY <1>7, <2>3, <2>4 DEF Trimmed
  <2> QED
    BY <2>1, <2>5 DEF next
<1>16. CASE StillThere(d, V, W) # {}
  <2>1. next = [data |-> Without(e, StillThere(d, V, W)), omitted |-> more]
    BY <1>16, <1>11, <1>12, <1>13, <1>14
  <2>2. next.data = Without(d, Y) /\ next.omitted = more
    BY <1>9, <2>1
  <2>3. more \in Seq(Seq(Segment)) /\ ToSet(more) = ToSet(acc.omitted) \cup {path}
    BY <1>1, <1>7, AppendProperties, AppendSet
  <2> HIDE DEF more
  <2>4. ToSet(more) = Taken(o, d, n + 1)
    <3>1. Taken(o, d, n + 1) = Taken(o, d, n) \cup {path}
      BY <1>8, <1>16
    <3>2. ToSet(acc.omitted) = Taken(o, d, n)
      BY <1>7
    <3> QED
      BY <2>3, <3>1, <3>2
  <2> QED
    BY <2>1, <2>2, <2>3, <2>4 DEF Trimmed, Y, next
<1> QED
  BY <1>15, <1>16 DEF next

(* What the declared paths lead to is gone, no more and no less, and the   *)
(* paths told of are those that took something away.                       *)
LEMMA OmitResult ==
  ASSUME NEW o \in Operations, Usable(o), NEW d, WellFormed(d)
  PROVE  LET trimmed == ApplyOmit(o, d) IN
         /\ trimmed.data = Without(d, Led(o, d, Len(o.omit)))
         /\ ToSet(trimmed.omitted) = Taken(o, d, Len(o.omit))
         /\ WellFormed(trimmed.data)
<1>1. o.omit \in Seq(OmitEntry) /\ Len(o.omit) \in Nat
  BY OmitEntries
<1>2. PICK f : Trims(o, d, Len(o.omit), f) /\ ApplyOmit(o, d) = f[Len(o.omit)]
  BY <1>1, ApplyOmitIs
<1> DEFINE Z == {n \in Nat : n <= Len(o.omit) => Trimmed(o, d, n, f[n])}
<1>3. 0 \in Z
  BY <1>1, <1>2, OmitFirst
<1>4. ASSUME NEW n \in Nat, n \in Z PROVE n + 1 \in Z
  <2> SUFFICES ASSUME n + 1 <= Len(o.omit) PROVE Trimmed(o, d, n + 1, f[n + 1])
    OBVIOUS
  <2>1. n + 1 \in 1 .. Len(o.omit) /\ n + 1 \in 0 .. Len(o.omit) /\ n + 1 # 0
        /\ (n + 1) - 1 = n /\ n <= Len(o.omit)
    BY <1>1
  <2>2. f[n + 1] = Trim(f[n], o.omit[n + 1])
    BY <1>2, <2>1 DEF Trims
  <2>3. Trimmed(o, d, n, f[n])
    BY <1>4, <2>1
  <2> QED
    BY <2>1, <2>2, <2>3, OmitStep
<1>5. Nat \subseteq Z
  <2> HIDE DEF Z
  <2> QED
    BY <1>3, <1>4, NatIsClosed
<1>6. Trimmed(o, d, Len(o.omit), ApplyOmit(o, d))
  <2>1. Trimmed(o, d, Len(o.omit), f[Len(o.omit)])
    BY <1>1, <1>5
  <2> QED
    BY <1>2, <2>1
<1>7. /\ ApplyOmit(o, d).data = Without(d, Led(o, d, Len(o.omit)))
      /\ ToSet(ApplyOmit(o, d).omitted) = Taken(o, d, Len(o.omit))
  BY <1>6 DEF Trimmed
<1>8. Led(o, d, Len(o.omit)) \in SUBSET Seq(STRING) /\ <<>> \notin Led(o, d, Len(o.omit))
  BY <1>1, LedIs
<1>9. WellFormed(ApplyOmit(o, d).data)
  BY <1>7, <1>8, WithoutIsWellFormed
<1> QED
  BY <1>7, <1>9

----------------------------------------------------------------------------
(* The first occurrences are of every value.                               *)
LEMMA DistinctSame ==
  ASSUME NEW T, NEW s \in Seq(T)
  PROVE  Distinct(s) \in Seq(T) /\ ToSet(Distinct(s)) = ToSet(s)
<1> DEFINE firsts == {i \in DOMAIN s : \A j \in 1 .. i - 1 : s[j] # s[i]}
<1>1. Distinct(s) = AtPlaces(s, firsts)
  BY DEF Distinct
<1>2. DOMAIN s = 1 .. Len(s) /\ Len(s) \in Nat
  OBVIOUS
<1>3. ASSUME NEW k \in DOMAIN s
      PROVE  \E i \in DOMAIN s \cap firsts : s[i] = s[k]
  <2> DEFINE same == {i \in DOMAIN s : s[i] = s[k]}
  <2>1. same \in SUBSET Nat /\ same # {}
    BY <1>2
  <2>2. PICK i : i = Min(same)
    OBVIOUS
  <2>3. i \in same /\ \A j \in same : i <= j
    <3> HIDE DEF same
    <3> QED
      BY <2>1, <2>2, LeastOf
  <2>4. i \in DOMAIN s /\ s[i] = s[k] /\ i \in 1 .. Len(s)
    BY <1>2, <2>3
  <2>5. ASSUME NEW j \in 1 .. i - 1 PROVE s[j] # s[i]
    <3>1. j \in DOMAIN s /\ ~(i <= j)
      BY <1>2, <2>4
    <3> QED
      BY <2>3, <2>4, <3>1
  <2> HIDE DEF same
  <2> QED
    BY <2>4, <2>5
<1> HIDE DEF firsts
<1>4. AtPlaces(s, firsts) \in Seq(T)
      /\ ToSet(AtPlaces(s, firsts)) = {s[i] : i \in DOMAIN s \cap firsts}
  BY AtPlacesType, AtPlacesSet
<1>5. {s[i] : i \in DOMAIN s \cap firsts} = {s[i] : i \in DOMAIN s}
  BY <1>3
<1> QED
  BY <1>1, <1>4, <1>5 DEF ToSet

LEMMA TextsAre ==
  ASSUME NEW d, WellFormed(d), NEW s \in Seq(DOMAIN d)
  PROVE  Texts(d, s) \in Seq(STRING) /\ ToSet(Texts(d, s)) = {d[a].text : a \in ToSet(s)}
<1>1. \A a \in DOMAIN d : d[a].text \in STRING
  BY NodesOf
<1>2. DOMAIN s = 1 .. Len(s) /\ Len(s) \in Nat /\ \A i \in DOMAIN s : s[i] \in DOMAIN d
  OBVIOUS
<1>3. Texts(d, s) \in Seq(STRING)
  BY <1>1, <1>2 DEF Texts
<1> QED
  BY <1>3 DEF Texts, ToSet

LEMMA UpToIs ==
  ASSUME NEW T, NEW s \in Seq(T), NEW n \in Nat
  PROVE  /\ UpTo(s, n) \in Seq(T)
         /\ Len(UpTo(s, n)) = IF Len(s) < n THEN Len(s) ELSE n
         /\ \A i \in DOMAIN UpTo(s, n) : i \in DOMAIN s /\ UpTo(s, n)[i] = s[i]
         /\ Len(s) <= n => UpTo(s, n) = s
<1> DEFINE m == IF Len(s) < n THEN Len(s) ELSE n
<1>1. Len(s) \in Nat /\ m \in Nat /\ m <= Len(s) /\ (Len(s) <= n => m = Len(s))
  OBVIOUS
<1>2. UpTo(s, n) = SubSeq(s, 1, m)
  BY DEF UpTo
<1> HIDE DEF m
<1>3. SubSeq(s, 1, m) \in Seq(T) /\ Len(SubSeq(s, 1, m)) = m
      /\ \A i \in 1 .. m : i \in DOMAIN s /\ SubSeq(s, 1, m)[i] = s[i]
  BY <1>1
<1>4. Len(s) <= n => SubSeq(s, 1, m) = s
  <2>1. SubSeq(s, 1, Len(s)) = s
    OBVIOUS
  <2> QED
    BY <1>1, <2>1
<1>5. PICK t : t = SubSeq(s, 1, m)
  OBVIOUS
<1>6. /\ t \in Seq(T) /\ Len(t) = m
      /\ \A i \in DOMAIN t : i \in DOMAIN s /\ t[i] = s[i]
      /\ Len(s) <= n => t = s
  <2>1. t \in Seq(T) /\ Len(t) = m /\ \A i \in 1 .. m : i \in DOMAIN s /\ t[i] = s[i]
    BY <1>3, <1>5
  <2>2. DOMAIN t = 1 .. m
    BY <2>1
  <2> QED
    BY <1>4, <1>5, <2>1, <2>2
<1>7. UpTo(s, n) = t
  BY <1>2, <1>5
<1> QED
  BY <1>6, <1>7 DEF m

----------------------------------------------------------------------------
(* business_errors.py: the codes published are those the payload holds.    *)
LEMMA CodesFound ==
  ASSUME NEW o \in Operations, NEW d, WellFormed(d), o.business_errors # None
  PROVE  ToSet(DetectBusinessErrors(o, d)) =
           {d[a].text : a \in {b \in DOMAIN d :
              Says(d[b]) /\ \E i \in DOMAIN o.business_errors : Leads(o.business_errors[i], b)}}
<1> DEFINE paths  == o.business_errors
           parts  == [i \in DOMAIN paths |-> Resolve(d, <<>>, paths[i])]
           found  == FlattenSeq(parts)
           saying == {a \in ToSet(found) : Says(d[a])}
           said   == Only(found, saying)
<1>1. paths \in Seq(Seq(Segment))
  <2>1. Path = Seq(Segment)
    BY DEF Path, Segment
  <2> QED
    BY <2>1, AnswerAssumption DEF ManifestOperation, Optional
<1>2. ASSUME NEW i \in DOMAIN paths
      PROVE  parts[i] \in Seq(DOMAIN d) /\ ToSet(parts[i]) = Addressed(d, paths[i])
  <2>1. paths[i] \in Seq(Segment)
    BY <1>1
  <2> QED
    BY <2>1, ResolveFromRoot
<1>3. parts \in Seq(Seq(DOMAIN d)) /\ DOMAIN parts = DOMAIN paths
  <2>1. DOMAIN paths = 1 .. Len(paths) /\ Len(paths) \in Nat
    BY <1>1
  <2>2. parts = [i \in 1 .. Len(paths) |-> parts[i]]
    BY <2>1
  <2> HIDE DEF parts
  <2> QED
    BY <1>2, <2>1, <2>2
<1>4. DetectBusinessErrors(o, d) = Distinct(Texts(d, said))
  BY DEF DetectBusinessErrors
<1> HIDE DEF parts
<1>5. found \in Seq(DOMAIN d) /\ ToSet(found) = AllOf(parts)
  BY <1>3, FlattenType, FlattenHolds
<1>6. ToSet(found) = {b \in DOMAIN d : \E i \in DOMAIN paths : Leads(paths[i], b)}
  BY <1>2, <1>3, <1>5 DEF AllOf, Addressed
<1> HIDE DEF found
<1>7. said \in Seq(DOMAIN d) /\ ToSet(said) = ToSet(found) \cap saying
  BY <1>5, OnlyType, OnlySet
<1> HIDE DEF said
<1>8. ToSet(said) = {b \in DOMAIN d : Says(d[b]) /\ \E i \in DOMAIN paths : Leads(paths[i], b)}
  BY <1>6, <1>7
<1>9. Texts(d, said) \in Seq(STRING) /\ ToSet(Texts(d, said)) = {d[a].text : a \in ToSet(said)}
  BY <1>7, TextsAre
<1>10. ToSet(Distinct(Texts(d, said))) = ToSet(Texts(d, said))
  BY <1>9, DistinctSame
<1> HIDE DEF paths
<1>11. ToSet(DetectBusinessErrors(o, d)) = {d[a].text : a \in ToSet(said)}
  BY <1>4, <1>9, <1>10
<1> QED
  BY <1>8, <1>11 DEF paths

----------------------------------------------------------------------------
(* images.py.  What the manifest's schema says of a block.                 *)
LEMMA BlockIs ==
  ASSUME NEW o \in Operations, Usable(o), o.images # None
  PROVE  /\ o.images \in ImagesBlock
         /\ o.images.item_path \in Seq(Segment) /\ o.images.id_path \in Seq(Segment)
         /\ o.images.image_paths \in Seq(Seq(Segment))
         /\ o.images.per_item \in Nat /\ o.images.per_item >= 1
         /\ o.images.max \in Nat /\ o.images.max >= 1
         /\ o.images.per_item * o.images.max <= MaxImages
<1>1. o.images \in ImagesBlock
  BY AnswerAssumption DEF ManifestOperation, Optional
<1>2. Path = Seq(Segment)
  BY DEF Path, Segment
<1>3. /\ o.images.item_path \in Path /\ o.images.id_path \in Path
      /\ o.images.image_paths \in Seq(Path)
      /\ o.images.per_item \in Int /\ o.images.max \in Int
  BY <1>1 DEF ImagesBlock
<1>4. /\ o.images.per_item >= 1 /\ o.images.max >= 1
      /\ o.images.per_item * o.images.max <= MaxImages
  BY DEF Usable, ImagesUsable
<1> QED
  BY <1>1, <1>2, <1>3, <1>4

LEMMA ItemsAre ==
  ASSUME NEW block, block.item_path \in Seq(Segment), NEW d, WellFormed(d)
  PROVE  Items(block, d) \in Seq(DOMAIN d)
<1> DEFINE Elements(a) == [i \in DOMAIN d[a].keys |-> Append(a, d[a].keys[i])]
           Flat(a) == IF d[a].kind = "list" THEN Elements(a)
                      ELSE IF d[a].kind = "null" THEN <<>> ELSE <<a>>
           found == Resolve(d, <<>>, block.item_path)
           flat  == [i \in DOMAIN found |-> Flat(found[i])]
           there == {a \in DOMAIN d : d[a].kind # "null"}
<1>1. ASSUME NEW a \in DOMAIN d PROVE Elements(a) \in Seq(DOMAIN d)
  <2>1. d[a].keys \in Seq(STRING) /\ \A k \in ToSet(d[a].keys) : Append(a, k) \in DOMAIN d
    BY NodesOf
  <2>2. DOMAIN d[a].keys = 1 .. Len(d[a].keys) /\ Len(d[a].keys) \in Nat
    BY <2>1
  <2>3. \A i \in DOMAIN d[a].keys : Append(a, d[a].keys[i]) \in DOMAIN d
    BY <2>1 DEF ToSet
  <2> QED
    BY <2>2, <2>3
<1>2. <<>> \in DOMAIN d
  BY DEF WellFormed
<1> HIDE DEF Elements
<1>3. ASSUME NEW a \in DOMAIN d PROVE Flat(a) \in Seq(DOMAIN d)
  <2>1. <<a>> \in Seq(DOMAIN d) /\ <<>> \in Seq(DOMAIN d)
    OBVIOUS
  <2> QED
    BY <1>1, <2>1
<1>4. found \in Seq(DOMAIN d)
  BY ResolveFromRoot
<1> HIDE DEF Flat, found
<1>5. flat \in Seq(Seq(DOMAIN d))
  <2>1. DOMAIN found = 1 .. Len(found) /\ Len(found) \in Nat
    BY <1>4
  <2>2. \A i \in DOMAIN found : Flat(found[i]) \in Seq(DOMAIN d)
    BY <1>3, <1>4
  <2> QED
    BY <2>1, <2>2
<1> HIDE DEF flat
<1>6. FlattenSeq(flat) \in Seq(DOMAIN d)
  BY <1>5, FlattenType
<1>7. Only(Elements(<<>>), there) \in Seq(DOMAIN d)
  BY <1>1, <1>2, OnlyType
<1>8. <<(<<>>)>> \in Seq(DOMAIN d) /\ <<>> \in Seq(DOMAIN d)
  BY <1>2
<1>9. Items(block, d) = IF block.item_path # <<>> THEN FlattenSeq(flat)
                        ELSE CASE d[<<>>].kind = "list" -> Only(Elements(<<>>), there)
                               [] d[<<>>].kind = "dict" -> <<(<<>>)>>
                               [] OTHER -> <<>>
  BY Zenon DEF Items, flat, Flat, found, Elements
<1> HIDE DEF there
<1>10. CASE block.item_path # <<>>
  BY <1>6, <1>9, <1>10
<1>11. CASE block.item_path = <<>> /\ d[<<>>].kind = "list"
  BY <1>7, <1>9, <1>11
<1>12. CASE block.item_path = <<>> /\ d[<<>>].kind = "dict"
  BY <1>8, <1>9, <1>12
<1>13. CASE block.item_path = <<>> /\ d[<<>>].kind \notin {"list", "dict"}
  BY <1>8, <1>9, <1>13
<1> QED
  BY <1>10, <1>11, <1>12, <1>13

(* The pictures an item had, read without the search.                      *)
Had(block, d, item) ==
  {d[a].text : a \in {b \in DOMAIN d :
     /\ IsPrefix(item, b)
     /\ d[b].kind = "str" /\ d[b].text \in Urls
     /\ \E i \in DOMAIN block.image_paths :
          Leads(block.image_paths[i], SubSeq(b, Len(item) + 1, Len(b)))}}

LEMMA UrlsAre ==
  ASSUME NEW block, block.image_paths \in Seq(Seq(Segment)),
         block.per_item \in Nat, block.per_item >= 1,
         NEW d, WellFormed(d), NEW item \in DOMAIN d
  PROVE  /\ UrlsFor(block, d, item) \in Seq(Urls)
         /\ Len(UrlsFor(block, d, item)) <= block.per_item
         /\ ToSet(UrlsFor(block, d, item)) \subseteq Had(block, d, item)
         /\ UrlsFor(block, d, item) = <<>> => Had(block, d, item) = {}
<1> DEFINE paths == block.image_paths
           UrlsAt(path) == Distinct(Texts(d, Only(Resolve(d, item, path), Pictured(d))))
           At(path) == {b \in DOMAIN d : /\ IsPrefix(item, b)
                                         /\ d[b].kind = "str" /\ d[b].text \in Urls
                                         /\ Leads(path, SubSeq(b, Len(item) + 1, Len(b)))}
           any  == {i \in DOMAIN paths : UrlsAt(paths[i]) # <<>>}
           urls == UrlsAt(paths[Min(any)])
<1>1. ASSUME NEW path \in Seq(Segment)
      PROVE  UrlsAt(path) \in Seq(Urls) /\ ToSet(UrlsAt(path)) = {d[b].text : b \in At(path)}
  <2>1. PICK found : found = Resolve(d, item, path)
    OBVIOUS
  <2>2. /\ found \in Seq(DOMAIN d)
        /\ ToSet(found) = {b \in DOMAIN d : IsPrefix(item, b)
                                            /\ Leads(path, SubSeq(b, Len(item) + 1, Len(b)))}
    BY <2>1, ResolveFinds
  <2>3. PICK some : some = Only(found, Pictured(d))
    OBVIOUS
  <2>4. some \in Seq(DOMAIN d) /\ ToSet(some) = ToSet(found) \cap Pictured(d)
    BY <2>2, <2>3, OnlyType, OnlySet
  <2>5. ToSet(some) = At(path)
    BY <2>2, <2>4 DEF Pictured
  <2>6. PICK texts : texts = Texts(d, some)
    OBVIOUS
  <2>7. texts \in Seq(STRING) /\ ToSet(texts) = {d[b].text : b \in ToSet(some)}
    BY <2>4, <2>6, TextsAre
  <2>8. ToSet(texts) \subseteq Urls
    BY <2>5, <2>7
  <2>9. texts \in Seq(Urls)
    BY <2>7, <2>8 DEF ToSet
  <2>10. Distinct(texts) \in Seq(Urls) /\ ToSet(Distinct(texts)) = ToSet(texts)
    BY <2>9, DistinctSame
  <2>11. UrlsAt(path) = Distinct(texts)
    BY <2>1, <2>3, <2>6
  <2> HIDE DEF UrlsAt, At
  <2> QED
    BY <2>5, <2>7, <2>10, <2>11
<1>2. UrlsFor(block, d, item) = IF any = {} THEN <<>> ELSE UpTo(urls, block.per_item)
  BY Zenon DEF UrlsFor
<1>3. Had(block, d, item) = {d[b].text : b \in {c \in DOMAIN d : \E i \in DOMAIN paths : c \in At(paths[i])}}
  BY DEF Had
<1> HIDE DEF UrlsAt, At
<1>4. DOMAIN paths \in SUBSET Nat /\ \A i \in DOMAIN paths : paths[i] \in Seq(Segment)
  OBVIOUS
<1>5. CASE any = {}
  <2>1. ASSUME NEW i \in DOMAIN paths, NEW b \in At(paths[i]) PROVE FALSE
    <3>1. UrlsAt(paths[i]) = <<>>
      BY <1>5
    <3>2. ToSet(UrlsAt(paths[i])) = {}
      BY <3>1 DEF ToSet
    <3>3. PICK path \in Seq(Segment) : path = paths[i]
      BY <1>4
    <3>4. ToSet(UrlsAt(path)) = {d[c].text : c \in At(path)} /\ b \in At(path)
      BY <1>1, <3>3
    <3>5. d[b].text \in ToSet(UrlsAt(path))
      BY <3>4
    <3> QED
      BY <3>2, <3>3, <3>5
  <2>2. Had(block, d, item) = {}
    BY <1>3, <2>1
  <2>3. <<>> \in Seq(Urls) /\ Len(<<>>) = 0 /\ ToSet(<<>>) = {}
    BY EmptySeq DEF ToSet
  <2>4. UrlsFor(block, d, item) = <<>>
    BY <1>2, <1>5
  <2> QED
    BY <2>2, <2>3, <2>4
<1>6. CASE any # {}
  <2>1. PICK i : i = Min(any)
    OBVIOUS
  <2>2. i \in any
    <3>1. any \in SUBSET Nat
      BY <1>4
    <3> HIDE DEF any
    <3> QED
      BY <1>6, <2>1, <3>1, LeastOf
  <2>3. i \in DOMAIN paths /\ urls = UrlsAt(paths[i]) /\ urls # <<>>
    BY <2>1, <2>2
  <2>4. urls \in Seq(Urls) /\ ToSet(urls) = {d[b].text : b \in At(paths[i])}
    BY <1>1, <1>4, <2>3
  <2>5. PICK out : out = UpTo(urls, block.per_item)
    OBVIOUS
  <2>6. At(paths[i]) \subseteq {c \in DOMAIN d : \E j \in DOMAIN paths : c \in At(paths[j])}
    BY <2>3 DEF At
  <2>7. ToSet(urls) \subseteq Had(block, d, item)
    BY <1>3, <2>4, <2>6
  <2> HIDE DEF urls, any
  <2>8. PICK m \in Nat : m = block.per_item
    OBVIOUS
  <2>9. /\ out \in Seq(Urls) /\ Len(out) = IF Len(urls) < m THEN Len(urls) ELSE m
        /\ \A k \in DOMAIN out : k \in DOMAIN urls /\ out[k] = urls[k]
    BY <2>4, <2>5, <2>8, UpToIs
  <2>10. Len(urls) \in Nat /\ Len(urls) # 0
    BY <2>3, <2>4, EmptySeq
  <2>11. Len(out) <= m /\ Len(out) # 0
    BY <2>8, <2>9, <2>10
  <2>12. out # <<>>
    BY <2>9, <2>11, NotEmpty
  <2>13. ToSet(out) \subseteq ToSet(urls)
    BY <2>9 DEF ToSet
  <2>14. UrlsFor(block, d, item) = out
    BY <1>2, <1>6, <2>5
  <2> QED
    BY <2>7, <2>8, <2>9, <2>11, <2>12, <2>13, <2>14
<1> QED
  BY <1>5, <1>6

LEMMA EntryIs ==
  ASSUME NEW block, block.image_paths \in Seq(Seq(Segment)),
         block.per_item \in Nat, block.per_item >= 1,
         NEW d, WellFormed(d), NEW item \in DOMAIN d, NEW a
  PROVE  LET images == ItemEntry(block, d, a, item).images IN
         /\ images \in Seq(DOMAIN Location) /\ Len(images) <= block.per_item
         /\ ToSet(images) \subseteq {PublishedUrl(url) : url \in Had(block, d, item)}
         /\ ToSet(images) = {} => Had(block, d, item) = {}
         /\ ItemEntry(block, d, a, item).id = FirstStr(d, item, block.id_path)
<1>1. PICK urls : urls = UrlsFor(block, d, item)
  OBVIOUS
<1>2. /\ urls \in Seq(Urls) /\ Len(urls) <= block.per_item
      /\ ToSet(urls) \subseteq Had(block, d, item)
      /\ urls = <<>> => Had(block, d, item) = {}
  BY <1>1, UrlsAre
<1> DEFINE images == [i \in DOMAIN urls |-> PublishedUrl(urls[i])]
<1>3. /\ ItemEntry(block, d, a, item).images = images
      /\ ItemEntry(block, d, a, item).id = FirstStr(d, item, block.id_path)
  BY <1>1 DEF ItemEntry
<1>4. DOMAIN urls = 1 .. Len(urls) /\ Len(urls) \in Nat
      /\ \A i \in DOMAIN urls : urls[i] \in ToSet(urls) /\ PublishedUrl(urls[i]) \in DOMAIN Location
  BY <1>2, EnvelopesAssumption DEF ToSet
<1>5. /\ images \in Seq(DOMAIN Location) /\ Len(images) = Len(urls)
      /\ DOMAIN images = DOMAIN urls
      /\ \A i \in DOMAIN urls : images[i] = PublishedUrl(urls[i])
  BY <1>4
<1> HIDE DEF images
<1>6. ToSet(images) \subseteq {PublishedUrl(url) : url \in Had(block, d, item)}
  BY <1>2, <1>4, <1>5 DEF ToSet
<1>7. ToSet(images) = {} => urls = <<>>
  <2> SUFFICES ASSUME urls # <<>> PROVE ToSet(images) # {}
    OBVIOUS
  <2>1. Len(urls) # 0
    BY <1>2, EmptySeq
  <2>2. 1 \in DOMAIN images
    BY <1>4, <1>5, <2>1
  <2> QED
    BY <2>2 DEF ToSet
<1> QED
  BY <1>2, <1>3, <1>5, <1>6, <1>7

(* What _extract makes of the items of a payload.                          *)
Extracted(block, d, a, x, items) ==
  /\ DOMAIN x = {"items", "total", "note"}
  /\ Len(x.items) \in Nat /\ DOMAIN x.items = 1 .. Len(x.items)
  /\ Len(x.items) = IF Len(items) < block.max THEN Len(items) ELSE block.max
  /\ \A k \in DOMAIN x.items :
       items[k] \in DOMAIN d /\ x.items[k] = ItemEntry(block, d, a, items[k])
  /\ x.note = IF Len(x.items) < Len(items) THEN {"more in data"} ELSE {}

LEMMA ExtractIs ==
  ASSUME NEW o \in Operations, Usable(o), NEW d, WellFormed(d), NEW a,
         ExtractImages(o, d, a) # None
  PROVE  /\ o.images # None
         /\ Extracted(o.images, d, a, ExtractImages(o, d, a), Items(o.images, d))
<1> DEFINE block == o.images
<1>1. o.images # None
  BY DEF ExtractImages
<1>2. PICK items : items = Items(block, d)
  OBVIOUS
<1>3. items \in Seq(DOMAIN d) /\ Len(items) \in Nat
  BY <1>1, <1>2, BlockIs, ItemsAre
<1>4. PICK max \in Nat : max = block.max
  BY <1>1, BlockIs
<1>5. PICK shown : shown = UpTo(items, max)
  OBVIOUS
<1>6. /\ shown \in Seq(DOMAIN d) /\ Len(shown) = IF Len(items) < max THEN Len(items) ELSE max
      /\ \A k \in DOMAIN shown : k \in DOMAIN items /\ shown[k] = items[k]
  BY <1>3, <1>5, UpToIs
<1> DEFINE entries == [k \in DOMAIN shown |-> ItemEntry(block, d, a, shown[k])]
           note    == IF Len(shown) < Len(items) THEN {"more in data"} ELSE {}
<1>7. ExtractImages(o, d, a) = [items |-> entries, total |-> Len(items), note |-> note]
  BY <1>2, <1>4, <1>5 DEF ExtractImages
<1>8. DOMAIN shown = 1 .. Len(shown) /\ Len(shown) \in Nat
      /\ \A k \in DOMAIN shown : shown[k] \in DOMAIN d
  BY <1>6
<1>9. /\ DOMAIN entries = DOMAIN shown /\ Len(entries) = Len(shown)
      /\ \A k \in DOMAIN entries : items[k] \in DOMAIN d /\ entries[k] = ItemEntry(block, d, a, items[k])
  <2> DEFINE any == {ItemEntry(block, d, a, shown[k]) : k \in DOMAIN shown}
  <2>1. \A k \in DOMAIN shown : entries[k] \in any
    OBVIOUS
  <2> HIDE DEF any
  <2>2. entries = [k \in 1 .. Len(shown) |-> entries[k]]
    BY <1>8
  <2>3. entries \in Seq(any) /\ Len(entries) = Len(shown)
    <3> HIDE DEF entries
    <3> QED
      BY <1>8, <2>1, <2>2
  <2>4. \A k \in DOMAIN shown : shown[k] = items[k] /\ entries[k] = ItemEntry(block, d, a, shown[k])
    BY <1>6
  <2>5. DOMAIN entries = DOMAIN shown
    OBVIOUS
  <2> HIDE DEF entries
  <2> QED
    BY <1>8, <2>3, <2>4, <2>5
<1> HIDE DEF entries, note
<1>10. /\ DOMAIN ExtractImages(o, d, a) = {"items", "total", "note"}
       /\ ExtractImages(o, d, a).items = entries /\ ExtractImages(o, d, a).note = note
  BY <1>7
<1> QED
  BY <1>1, <1>2, <1>4, <1>6, <1>8, <1>9, <1>10 DEF note, Extracted

(* As many pictures as the lint allows, and then no more are cut.          *)
Shown(x) == FlattenSeq([k \in DOMAIN x.items |-> x.items[k].images])

LEMMA PicturesAre ==
  ASSUME NEW o \in Operations, Usable(o), NEW d, WellFormed(d), NEW a,
         ExtractImages(o, d, a) # None
  PROVE  LET x == ExtractImages(o, d, a) IN
         /\ Shown(x) \in Seq(DOMAIN Location) /\ Len(Shown(x)) <= MaxImages
         /\ PicturesOf(x) = Shown(x)
<1>1. PICK x, items : x = ExtractImages(o, d, a) /\ items = Items(o.images, d)
  OBVIOUS
<1>2. o.images # None /\ Extracted(o.images, d, a, x, items)
  BY <1>1, ExtractIs, Zenon
<1>3. items \in Seq(DOMAIN d)
  BY <1>1, <1>2, BlockIs, ItemsAre
<1>4. PICK per, max \in Nat : /\ per = o.images.per_item /\ max = o.images.max
                              /\ per >= 1 /\ per * max <= MaxImages
  BY <1>2, BlockIs
<1> DEFINE parts == [k \in DOMAIN x.items |-> x.items[k].images]
<1>5. Len(x.items) \in Nat /\ DOMAIN x.items = 1 .. Len(x.items) /\ Len(x.items) <= max
  <2>1. Len(items) \in Nat
    BY <1>3
  <2>2. /\ Len(x.items) \in Nat /\ DOMAIN x.items = 1 .. Len(x.items)
        /\ Len(x.items) = IF Len(items) < max THEN Len(items) ELSE max
    BY <1>2, <1>4 DEF Extracted
  <2> QED
    BY <2>1, <2>2
<1>6. ASSUME NEW k \in DOMAIN x.items
      PROVE  x.items[k].images \in Seq(DOMAIN Location) /\ Len(x.items[k].images) <= per
  <2>1. PICK item \in DOMAIN d : x.items[k] = ItemEntry(o.images, d, a, item)
    BY <1>2 DEF Extracted
  <2>2. o.images.image_paths \in Seq(Seq(Segment)) /\ o.images.per_item \in Nat
        /\ o.images.per_item >= 1
    BY <1>2, BlockIs
  <2> QED
    BY <1>4, <2>1, <2>2, EntryIs
<1>7. parts \in Seq(Seq(DOMAIN Location)) /\ Len(parts) = Len(x.items) /\ DOMAIN parts = DOMAIN x.items
  BY <1>5, <1>6
<1>8. \A k \in DOMAIN parts : Len(parts[k]) <= per
  BY <1>6
<1> HIDE DEF parts
<1>9. FlattenSeq(parts) \in Seq(DOMAIN Location) /\ Len(FlattenSeq(parts)) <= per * Len(parts)
  BY <1>4, <1>7, <1>8, FlattenType, FlattenLen
<1>10. per * Len(parts) <= per * max
  <2>1. Len(parts) \in Nat /\ Len(parts) <= max
    BY <1>5, <1>7
  <2> QED
    BY <1>4, <2>1
<1>11. Len(FlattenSeq(parts)) <= MaxImages /\ MaxImages \in Nat
  <2>1. Len(FlattenSeq(parts)) \in Nat /\ per * Len(parts) \in Nat /\ per * max \in Nat
    BY <1>4, <1>5, <1>7, <1>9
  <2> QED
    BY <1>4, <1>9, <1>10, <2>1, EnvelopesAssumption
<1>12. UpTo(FlattenSeq(parts), MaxImages) = FlattenSeq(parts)
  BY <1>9, <1>11, UpToIs
<1> QED
  BY <1>1, <1>9, <1>11, <1>12 DEF PicturesOf, Shown, parts

----------------------------------------------------------------------------
(* The answer is the envelope of what was replied, with the pictures that  *)
(* landed added to it where the caller is to have them.                    *)
Wanted == Envelope(reply.data).images # None /\ IncludeImages(op, args)

WithPictures(landed) ==
  LET e == Envelope(reply.data) IN
  [e EXCEPT !.images = WithThumbnails(e.images, PicturesOf(e.images), landed),
            !.thumbnails = AtPlaces(PicturesOf(e.images), landed)]

AnswerTrue ==
  result # None /\ result.ok =>
    LET e == Envelope(reply.data) IN
    /\ WellFormed(reply.data)
    /\ logged.reported = UnmatchedCredentials(op, e.data, e.omitted)
    /\ phase = "serving" =>
         IF Wanted
         THEN \E landed \in SUBSET DOMAIN PicturesOf(e.images) : result = WithPictures(landed)
         ELSE result = e

BatchTrue ==
  phase = "pictures" =>
    /\ Wanted /\ batch.urls = PicturesOf(result.images)
    /\ WellFormed(reply.data) /\ WellFormed(result.data)
    /\ logged.reported = UnmatchedCredentials(op, result.data, result.omitted)

LEMMA EnvelopeIs ==
  LET e == Envelope(reply.data) IN
  /\ e.ok /\ e.data = ApplyOmit(op, reply.data).data
  /\ e.omitted = ApplyOmit(op, reply.data).omitted
  /\ e.business_error = DetectBusinessErrors(op, reply.data)
  /\ e.images = ExtractImages(op, reply.data, args) /\ e.thumbnails = <<>>
BY DEF Envelope

LEMMA AddingPictures ==
  ASSUME NEW landed
  PROVE  LET e == Envelope(reply.data)
             r == WithPictures(landed)
         IN  /\ r.ok = e.ok /\ r.data = e.data /\ r.omitted = e.omitted
             /\ r.business_error = e.business_error
             /\ r.images = WithThumbnails(e.images, PicturesOf(e.images), landed)
             /\ r.thumbnails = AtPlaces(PicturesOf(e.images), landed)
BY DEF WithPictures, Envelope

(* Pictures or not, the rest of an answer is the envelope's.               *)
LEMMA AnswerIs ==
  ASSUME CallInv, AnswerTrue, Delivered
  PROVE  /\ op \in Operations /\ Usable(op) /\ WellFormed(reply.data)
         /\ result.data = ApplyOmit(op, reply.data).data
         /\ result.omitted = ApplyOmit(op, reply.data).omitted
         /\ result.business_error = DetectBusinessErrors(op, reply.data)
         /\ logged.reported = UnmatchedCredentials(op, result.data, result.omitted)
         /\ result.images # None =>
              /\ ExtractImages(op, reply.data, args) # None
              /\ result.images.items = ExtractImages(op, reply.data, args).items
<1>1. op \in Operations /\ Usable(op) /\ phase = "serving" /\ result # None /\ result.ok
  BY DEF CallInv, PhaseOK, Delivered
<1>2. PICK e : e = Envelope(reply.data)
  OBVIOUS
<1>3. /\ e.data = ApplyOmit(op, reply.data).data
      /\ e.omitted = ApplyOmit(op, reply.data).omitted
      /\ e.business_error = DetectBusinessErrors(op, reply.data)
      /\ e.images = ExtractImages(op, reply.data, args)
  BY <1>2, EnvelopeIs
<1>4. /\ WellFormed(reply.data)
      /\ logged.reported = UnmatchedCredentials(op, e.data, e.omitted)
      /\ IF Wanted THEN \E landed : result = WithPictures(landed) ELSE result = e
  BY <1>1, <1>2 DEF AnswerTrue
<1>5. CASE Wanted
  <2>1. PICK landed : result = WithPictures(landed)
    BY <1>4, <1>5
  <2>2. /\ result.data = e.data /\ result.omitted = e.omitted
        /\ result.business_error = e.business_error
        /\ result.images = WithThumbnails(e.images, PicturesOf(e.images), landed)
    BY <1>2, <2>1, AddingPictures
  <2>3. result.images.items = e.images.items
    BY <2>2 DEF WithThumbnails
  <2>4. e.images # None
    BY <1>2, <1>5 DEF Wanted
  <2> QED
    BY <1>1, <1>3, <1>4, <2>2, <2>3, <2>4
<1>6. CASE ~Wanted
  BY <1>1, <1>3, <1>4, <1>6
<1> QED
  BY <1>5, <1>6

LEMMA HidesNothing ==
  ASSUME CallInv, AnswerTrue
  PROVE  NothingHidden
<1> SUFFICES ASSUME Delivered
             PROVE  /\ ToSet(result.business_error) = CodesSaid
                    /\ result.images # None =>
                         \A k \in DOMAIN result.images.items :
                           LET shown == ToSet(result.images.items[k].images)
                               had   == UrlsOf(Items(op.images, reply.data)[k])
                           IN  /\ shown \subseteq {PublishedUrl(url) : url \in had}
                               /\ shown = {} => had = {}
  BY DEF NothingHidden
<1>1. /\ op \in Operations /\ Usable(op) /\ WellFormed(reply.data)
      /\ result.business_error = DetectBusinessErrors(op, reply.data)
      /\ result.images # None =>
           /\ ExtractImages(op, reply.data, args) # None
           /\ result.images.items = ExtractImages(op, reply.data, args).items
  BY AnswerIs
<1>2. ToSet(result.business_error) = CodesSaid
  <2>1. CASE op.business_errors = None
    <3>1. DetectBusinessErrors(op, reply.data) = <<>>
      BY <2>1 DEF DetectBusinessErrors
    <3>2. ToSet(<<>>) = {}
      BY DEF ToSet
    <3> QED
      BY <1>1, <2>1, <3>1, <3>2 DEF CodesSaid
  <2>2. CASE op.business_errors # None
    BY <1>1, <2>2, CodesFound DEF CodesSaid
  <2> QED
    BY <2>1, <2>2
<1>3. ASSUME result.images # None, NEW k \in DOMAIN result.images.items
      PROVE  LET shown == ToSet(result.images.items[k].images)
                 had   == UrlsOf(Items(op.images, reply.data)[k])
             IN  /\ shown \subseteq {PublishedUrl(url) : url \in had}
                 /\ shown = {} => had = {}
  <2>1. PICK x, items : x = ExtractImages(op, reply.data, args) /\ items = Items(op.images, reply.data)
    OBVIOUS
  <2>2. op.images # None /\ Extracted(op.images, reply.data, args, x, items)
    BY <1>1, <1>3, <2>1, ExtractIs, Zenon
  <2>3. result.images.items = x.items
    BY <1>1, <1>3, <2>1
  <2>4. PICK item \in DOMAIN reply.data :
          items[k] = item /\ x.items[k] = ItemEntry(op.images, reply.data, args, item)
    BY <1>3, <2>2, <2>3 DEF Extracted
  <2>5. op.images.image_paths \in Seq(Seq(Segment)) /\ op.images.per_item \in Nat
        /\ op.images.per_item >= 1
    BY <1>1, <2>2, BlockIs
  <2>6. PICK block, data : block = op.images /\ data = reply.data
    OBVIOUS
  <2>7. LET images == ItemEntry(block, data, args, item).images IN
        /\ ToSet(images) \subseteq {PublishedUrl(url) : url \in Had(block, data, item)}
        /\ ToSet(images) = {} => Had(block, data, item) = {}
    BY <1>1, <2>5, <2>6, EntryIs
  <2>8. Had(block, data, item) = UrlsOf(item)
    BY <2>6 DEF Had, UrlsOf
  <2>9. result.images.items[k].images = ItemEntry(block, data, args, item).images
    BY <2>3, <2>4, <2>6
  <2> QED
    BY <2>1, <2>4, <2>7, <2>8, <2>9
<1> QED
  BY <1>2, <1>3

LEMMA OmitsHonestly ==
  ASSUME CallInv, AnswerTrue
  PROVE  OmitHonest
<1> DEFINE taking   == Taking(op, reply.data)
           untaking == {j \in DOMAIN op.omit \ taking : op.omit[j].reason = "credential"}
           failed   == {e \in ToSet(op.omit) : e.reason = "credential" /\ e.path \notin ToSet(result.omitted)}
<1> SUFFICES ASSUME Delivered
             PROVE  /\ result.data = Without(reply.data, Led(op, reply.data, Len(op.omit)))
                    /\ ToSet(result.omitted) = {op.omit[i].path : i \in taking}
                    /\ ~Empty(result.data) => logged.reported = {op.omit[i].path : i \in untaking}
  BY DEF OmitHonest
<1>1. /\ op \in Operations /\ Usable(op) /\ WellFormed(reply.data)
      /\ result.data = ApplyOmit(op, reply.data).data
      /\ result.omitted = ApplyOmit(op, reply.data).omitted
      /\ logged.reported = UnmatchedCredentials(op, result.data, result.omitted)
  BY AnswerIs
<1>2. /\ DOMAIN op.omit = 1 .. Len(op.omit)
      /\ \A i, j \in DOMAIN op.omit : op.omit[i].path = op.omit[j].path => i = j
  <2>1. op.omit \in Seq(OmitEntry)
    BY <1>1, OmitEntries
  <2>2. DOMAIN op.omit = 1 .. Len(op.omit)
    BY <2>1
  <2>3. OmitUsable(op)
    BY <1>1 DEF Usable
  <2>4. \A i, j \in DOMAIN op.omit : op.omit[i].path = op.omit[j].path => i = j
    BY <2>3, Zenon DEF OmitUsable
  <2> QED
    BY <2>2, <2>4
<1>3. /\ result.data = Without(reply.data, Led(op, reply.data, Len(op.omit)))
      /\ ToSet(result.omitted) = Taken(op, reply.data, Len(op.omit))
  BY <1>1, OmitResult
<1>4. ToSet(result.omitted) = {op.omit[i].path : i \in taking}
  BY <1>2, <1>3, Zenon DEF Taken, Taking
<1>5. taking \subseteq DOMAIN op.omit
  BY DEF Taking
<1> HIDE DEF taking
<1>6. \A i \in DOMAIN op.omit : op.omit[i].path \in ToSet(result.omitted) <=> i \in taking
  BY <1>2, <1>4, <1>5
<1>7. {e.path : e \in failed} = {op.omit[i].path : i \in untaking}
  <2>1. ToSet(op.omit) = {op.omit[i] : i \in DOMAIN op.omit}
    BY DEF ToSet
  <2>2. ASSUME NEW e \in failed PROVE e.path \in {op.omit[i].path : i \in untaking}
    BY <1>6, <2>1
  <2>3. ASSUME NEW i \in untaking PROVE op.omit[i].path \in {e.path : e \in failed}
    BY <1>6, <2>1
  <2> QED
    BY <2>2, <2>3
<1>8. ~Empty(result.data) => logged.reported = {e.path : e \in failed}
  BY <1>1 DEF UnmatchedCredentials
<1> QED
  BY <1>3, <1>4, <1>7, <1>8

(* The block before and after the pictures were added to it.               *)
LEMMA BlockOfAnswer ==
  ASSUME CallInv, AnswerTrue, Delivered, result.images # None
  PROVE  LET x == ExtractImages(op, reply.data, args) IN
         /\ x # None
         /\ \/ /\ IncludeImages(op, args)
               /\ \E landed \in SUBSET DOMAIN PicturesOf(x) :
                    /\ result.images = WithThumbnails(x, PicturesOf(x), landed)
                    /\ result.thumbnails = AtPlaces(PicturesOf(x), landed)
            \/ /\ ~IncludeImages(op, args)
               /\ result.images = x /\ result.thumbnails = <<>>
<1>1. PICK e, x : e = Envelope(reply.data) /\ x = ExtractImages(op, reply.data, args)
  OBVIOUS
<1>2. e.images = x /\ e.thumbnails = <<>>
  BY <1>1, EnvelopeIs
<1>3. IF Wanted THEN \E landed \in SUBSET DOMAIN PicturesOf(e.images) : result = WithPictures(landed)
      ELSE result = e
  BY <1>1 DEF AnswerTrue, Delivered
<1>4. Wanted <=> x # None /\ IncludeImages(op, args)
  BY <1>1, <1>2 DEF Wanted
<1>5. CASE Wanted
  <2>1. PICK landed \in SUBSET DOMAIN PicturesOf(x) : result = WithPictures(landed)
    BY <1>2, <1>3, <1>5
  <2>2. /\ result.images = WithThumbnails(x, PicturesOf(x), landed)
        /\ result.thumbnails = AtPlaces(PicturesOf(x), landed)
    BY <1>1, <1>2, <2>1, AddingPictures
  <2> QED
    BY <1>1, <1>4, <1>5, <2>2
<1>6. CASE ~Wanted
  BY <1>1, <1>2, <1>3, <1>4, <1>6
<1> QED
  BY <1>5, <1>6

(* What landed is attached in the order of the block, and counted.         *)
LEMMA Landed ==
  ASSUME NEW T, NEW all \in Seq(T), NEW landed \in SUBSET DOMAIN all
  PROVE  LET thumbnails == AtPlaces(all, landed) IN
         /\ Len(thumbnails) = Cardinality(landed)
         /\ \E place \in [DOMAIN thumbnails -> DOMAIN all] :
              /\ \A i, j \in DOMAIN place : i < j => place[i] < place[j]
              /\ \A i \in DOMAIN place : thumbnails[i] = all[place[i]]
<1>1. PICK thumbnails : thumbnails = AtPlaces(all, landed)
  OBVIOUS
<1>2. DOMAIN all \cap landed = landed
  OBVIOUS
<1>3. Len(thumbnails) = Cardinality(landed)
  <2>1. Len(AtPlaces(all, landed)) = Cardinality(DOMAIN all \cap landed)
    BY AtPlacesLen
  <2> QED
    BY <1>1, <1>2, <2>1
<1>4. thumbnails \in Seq(T)
  BY <1>1, AtPlacesType
<1>5. DOMAIN thumbnails = 1 .. Len(thumbnails)
  BY <1>4
<1>6. PICK place : Ordered(all, landed, place)
  BY AtPlacesOrder
<1>7. /\ place \in [1 .. Len(thumbnails) -> DOMAIN all]
      /\ \A i, j \in 1 .. Len(thumbnails) : i < j => place[i] < place[j]
      /\ \A i \in 1 .. Len(thumbnails) : thumbnails[i] = all[place[i]]
  BY <1>1, <1>6 DEF Ordered
<1>8. DOMAIN place = DOMAIN thumbnails
  BY <1>5, <1>7
<1>9. \E p \in [DOMAIN thumbnails -> DOMAIN all] :
        /\ \A i, j \in DOMAIN p : i < j => p[i] < p[j]
        /\ \A i \in DOMAIN p : thumbnails[i] = all[p[i]]
  <2>1. place \in [DOMAIN thumbnails -> DOMAIN all]
    BY <1>5, <1>7
  <2> QED
    BY <1>5, <1>7, <1>8, <2>1
<1> QED
  BY <1>1, <1>3, <1>9

(* What a block says of itself.                                            *)
Told(block, thumbnails, items, all) ==
  /\ "more in data" \in block.note <=> Len(block.items) < Len(items)
  /\ "attached" \in DOMAIN block <=> IncludeImages(op, args)
  /\ "attached" \in DOMAIN block => block.attached = Len(thumbnails)
  /\ "short" \in block.note <=> "attached" \in DOMAIN block /\ Len(thumbnails) < Len(all)

LEMMA TellsOfPictures ==
  ASSUME CallInv, AnswerTrue
  PROVE  PicturesHonest
<1> SUFFICES ASSUME Delivered, result.images # None
             PROVE  PicturesHonest
  BY DEF PicturesHonest
<1>1. op \in Operations /\ Usable(op) /\ WellFormed(reply.data)
  BY AnswerIs
<1>2. PICK x, items, block : /\ x = ExtractImages(op, reply.data, args)
                             /\ items = Items(op.images, reply.data)
                             /\ block = result.images
  OBVIOUS
<1>3. x # None /\ op.images # None /\ Extracted(op.images, reply.data, args, x, items)
  BY <1>1, <1>2, ExtractIs, BlockOfAnswer, Zenon
<1>4. PICK all : all = Shown(x)
  OBVIOUS
<1>5. all \in Seq(DOMAIN Location) /\ Len(all) \in Nat /\ Len(all) <= MaxImages /\ PicturesOf(x) = all
  BY <1>1, <1>2, <1>3, <1>4, PicturesAre
<1>6. \/ /\ IncludeImages(op, args)
         /\ \E landed \in SUBSET DOMAIN all :
              block = WithThumbnails(x, all, landed) /\ result.thumbnails = AtPlaces(all, landed)
      \/ /\ ~IncludeImages(op, args)
         /\ block = x /\ result.thumbnails = <<>>
  BY <1>2, <1>5, BlockOfAnswer
<1>7. block.items = x.items
  BY <1>6 DEF WithThumbnails
<1>8. FlattenSeq([k \in DOMAIN block.items |-> block.items[k].images]) = all
  BY <1>4, <1>7 DEF Shown
<1>9. Len(items) \in Nat /\ op.images.max \in Nat
  <2>1. items \in Seq(DOMAIN reply.data)
    BY <1>1, <1>2, <1>3, BlockIs, ItemsAre
  <2> QED
    BY <1>1, <1>3, <2>1, BlockIs
<1>10. Len(block.items) = Min({Len(items), op.images.max})
  <2>1. PICK m, n \in Nat : m = Len(items) /\ n = op.images.max
    BY <1>9
  <2>2. Min({m, n}) \in {m, n} /\ \A i \in {m, n} : Min({m, n}) <= i
    <3>1. PICK S \in SUBSET Nat : S = {m, n}
      OBVIOUS
    <3>2. S # {}
      BY <3>1
    <3>3. Min(S) \in S /\ \A i \in S : Min(S) <= i
      BY <3>2, LeastOf
    <3> QED
      BY <3>1, <3>3
  <2>3. Len(x.items) = IF m < n THEN m ELSE n
    BY <1>3, <2>1 DEF Extracted
  <2> QED
    BY <1>7, <2>1, <2>2, <2>3
<1>11. ASSUME NEW k \in DOMAIN block.items
       PROVE  block.items[k].id = FirstStr(reply.data, items[k], op.images.id_path)
  <2>1. items[k] \in DOMAIN reply.data
        /\ x.items[k] = ItemEntry(op.images, reply.data, args, items[k])
    BY <1>3, <1>7 DEF Extracted
  <2>2. PICK entry : entry = ItemEntry(op.images, reply.data, args, items[k])
    OBVIOUS
  <2>3. entry.id = FirstStr(reply.data, items[k], op.images.id_path)
    BY <2>2 DEF ItemEntry
  <2>4. block.items[k] = entry
    BY <1>7, <2>1, <2>2
  <2> QED
    BY <2>3, <2>4
<1>12. x.note = IF Len(block.items) < Len(items) THEN {"more in data"} ELSE {}
  BY <1>3, <1>7 DEF Extracted
<1>13. DOMAIN x = {"items", "total", "note"}
  BY <1>3 DEF Extracted
<1> DEFINE thumbnails == result.thumbnails
           Placed == \E place \in [DOMAIN thumbnails -> DOMAIN all] :
                       /\ \A i, j \in DOMAIN place : i < j => place[i] < place[j]
                       /\ \A i \in DOMAIN place : thumbnails[i] = all[place[i]]
<1>14. ASSUME IncludeImages(op, args)
       PROVE  Told(block, thumbnails, items, all) /\ Placed
  <2>1. PICK landed \in SUBSET DOMAIN all :
          block = WithThumbnails(x, all, landed) /\ thumbnails = AtPlaces(all, landed)
    BY <1>6, <1>14
  <2>2. Len(thumbnails) = Cardinality(landed) /\ Placed
    BY <1>5, <2>1, Landed
  <2>3. "attached" \in DOMAIN block /\ block.attached = Len(thumbnails)
    BY <2>1, <2>2 DEF WithThumbnails
  <2>4. block.note = x.note \cup (IF Len(thumbnails) < Len(all) THEN {"short"} ELSE {})
    BY <2>1, <2>2 DEF WithThumbnails
  <2>5. "more in data" \in block.note <=> Len(block.items) < Len(items)
    BY <1>12, <2>4
  <2>6. "short" \in block.note <=> Len(thumbnails) < Len(all)
    <3>1. "short" \notin x.note
      BY <1>12, "short" # "more in data"
    <3>2. CASE Len(thumbnails) < Len(all)
      BY <2>4, <3>2
    <3>3. CASE ~(Len(thumbnails) < Len(all))
      <4>1. block.note = x.note
        BY <2>4, <3>3
      <4> QED
        BY <3>1, <3>3, <4>1
    <3> QED
      BY <3>2, <3>3
  <2> QED
    BY <1>14, <2>2, <2>3, <2>5, <2>6 DEF Told
<1>15. ASSUME ~IncludeImages(op, args)
       PROVE  Told(block, thumbnails, items, all) /\ Placed
  <2>1. block = x /\ thumbnails = <<>>
    BY <1>6, <1>15
  <2>2. "attached" \notin DOMAIN block
    BY <1>13, <2>1
  <2>3. Placed
    <3>1. DOMAIN thumbnails = {}
      BY <2>1
    <3>2. PICK place : place = [i \in {} |-> 0]
      OBVIOUS
    <3>3. DOMAIN place = {} /\ place \in [DOMAIN thumbnails -> DOMAIN all]
      BY <3>1, <3>2
    <3> QED
      BY <3>3
  <2>4. "more in data" \in block.note <=> Len(block.items) < Len(items)
    BY <1>12, <2>1
  <2>5. "short" \notin block.note
    BY <1>12, <2>1, "short" # "more in data"
  <2> QED
    BY <1>15, <2>2, <2>3, <2>4, <2>5 DEF Told
<1>16. Told(block, thumbnails, items, all) /\ Placed
  BY <1>14, <1>15
<1>17. /\ "include_images" \in DOMAIN args /\ op.images.base64 # "off" =>
            ("attached" \in DOMAIN block <=> args.include_images)
       /\ op.images.base64 = "off" => "attached" \notin DOMAIN block
  BY <1>3, <1>16 DEF IncludeImages, Told
<1> QED
  BY <1>2, <1>5, <1>8, <1>10, <1>11, <1>16, <1>17 DEF PicturesHonest, Told

----------------------------------------------------------------------------
(* A server this process may ask is one that the widget's policy allows.   *)
LEMMA SuffixIs ==
  ASSUME NEW T, NEW s \in Seq(T), NEW t \in Seq(T), IsSuffix(s, t), Len(t) > Len(s)
  PROVE  \E n \in 1 .. Len(t) : SubSeq(t, n + 1, Len(t)) = s
<1>1. PICK m, n \in Nat : m = Len(s) /\ n = Len(t)
  OBVIOUS
<1>2. PICK r, q : r = Reverse(s) /\ q = Reverse(t)
  OBVIOUS
<1>3. /\ r \in Seq(T) /\ Len(r) = m /\ \A i \in 1 .. m : r[i] = s[(m - i) + 1]
      /\ q \in Seq(T) /\ Len(q) = n /\ \A i \in 1 .. n : q[i] = t[(n - i) + 1]
  BY <1>1, <1>2 DEF Reverse
<1>4. m < n /\ SubSeq(r, 1, m) = SubSeq(q, 1, m)
  BY <1>1, <1>2, <1>3 DEF IsSuffix, IsPrefix
<1>5. ASSUME NEW i \in 1 .. m PROVE r[i] = q[i]
  <2>1. SubSeq(r, 1, m)[i] = r[i] /\ SubSeq(q, 1, m)[i] = q[i]
    BY <1>3, <1>4
  <2> QED
    BY <1>4, <2>1
<1>6. PICK k \in Nat : k = n - m
  BY <1>4
<1>7. ASSUME NEW j \in 1 .. m PROVE t[k + j] = s[j]
  <2>1. PICK i \in 1 .. m : i = (m - j) + 1
    OBVIOUS
  <2>2. r[i] = s[j]
    <3>1. (m - i) + 1 = j
      BY <2>1
    <3> QED
      BY <1>3, <3>1
  <2>3. q[i] = t[k + j]
    <3>1. i \in 1 .. n /\ (n - i) + 1 = k + j
      BY <1>4, <1>6, <2>1
    <3> QED
      BY <1>3, <3>1
  <2> QED
    BY <1>5, <2>2, <2>3
<1>8. PICK u : u = SubSeq(t, k + 1, n)
  OBVIOUS
<1>9. u \in Seq(T) /\ Len(u) = m /\ \A j \in 1 .. m : u[j] = t[k + j]
  BY <1>1, <1>4, <1>6, <1>8
<1>10. u = s
  BY <1>1, <1>7, <1>9, SeqEqual
<1>11. k \in 1 .. Len(t) /\ SubSeq(t, k + 1, Len(t)) = s
  <2>1. k \in 1 .. n
    BY <1>4, <1>6
  <2> QED
    BY <1>1, <1>8, <1>10, <2>1
<1> QED
  BY <1>11

LEMMA AllowedIsLoaded ==
  ASSUME NEW url \in DOMAIN Location, IsAllowedOrigin(url)
  PROVE  LoadsPortAside(url)
<1>1. PICK origin \in ResourceDomains : Covers(origin, Location[url])
  BY DEF IsAllowedOrigin
<1>2. origin.host \in Seq(STRING)
  <2>1. PICK i \in DOMAIN Families : origin \in Families[i].resource_domains
    BY DEF ResourceDomains
  <2>2. HostFamily(Families[i])
    BY ThumbnailUrlsAssumption
  <2> QED
    BY <2>1, <2>2 DEF HostFamily, Origin
<1>3. PICK place : place = [Location[url] EXCEPT !.port = DefaultPort(Location[url].scheme)]
  OBVIOUS
<1>4. /\ place.host \in Seq(STRING) /\ Covers(origin, place)
      /\ place.port = DefaultPort(place.scheme)
  <2>1. Location[url] \in [scheme : STRING, host : Seq(STRING), port : Nat]
    BY ThumbnailUrlsAssumption
  <2>2. /\ place.scheme = Location[url].scheme /\ place.host = Location[url].host
        /\ place.port = DefaultPort(place.scheme)
    BY <1>3, <2>1
  <2> QED
    BY <1>1, <2>1, <2>2 DEF Covers
<1>5. PolicyAllows(origin, place)
  <2>1. CASE origin.wildcard
    <3>1. IsSuffix(origin.host, place.host) /\ Len(place.host) > Len(origin.host)
      BY <1>4, <2>1 DEF Covers
    <3>2. \E n \in 1 .. Len(place.host) :
            SubSeq(place.host, n + 1, Len(place.host)) = origin.host
      BY <1>2, <1>4, <3>1, SuffixIs
    <3> QED
      BY <1>4, <2>1, <3>2 DEF Covers, PolicyAllows
  <2>2. CASE ~origin.wildcard
    BY <1>4, <2>2 DEF Covers, PolicyAllows
  <2> QED
    BY <2>1, <2>2
<1> QED
  BY <1>1, <1>3, <1>5 DEF LoadsPortAside

----------------------------------------------------------------------------
(* The rest of the invariant: the types of the call and of its batch, that *)
(* an answer is the envelope of its reply, with or without pictures, and   *)
(* that the pictures being fetched are the ones of that envelope.          *)
CallTyped ==
  /\ op \in Operations
  /\ phase \in {"boot", "refused", "serving", "sent", "replied", "pictures"}
  /\ args \in ArgumentSets \cup {None}
  /\ reply \in Replies \cup {None} \cup {PlaybookResult(a) : a \in ArgumentSets}
  /\ phase \in {"sent", "replied"} => result = None /\ (request # None <=> op.handler = None)
  /\ result # None => phase \in {"serving", "pictures"}
  /\ (result # None /\ result.ok) => WellFormed(result.data)
  /\ logged.reported \subseteq {op.omit[i].path : i \in DOMAIN op.omit}

Fetching(b) ==
  /\ b \in Batch
  /\ b.landed \cup b.left \subseteq DOMAIN b.urls
  /\ b.landed \cap b.left = {}
  /\ b.walk # None => b.walk.image \in DOMAIN b.urls \ (b.landed \cup b.left)

BatchTyped ==
  /\ batch # None <=> phase = "pictures"
  /\ batch # None => Fetching(batch)

LEMMA TypeIs == TypeOK <=> CallTyped /\ BatchTyped
BY DEF TypeOK, CallTyped, BatchTyped, Fetching

PicturesInv == BatchTyped /\ BatchTrue /\ NoOtherHostThanTheWidget

HonestInv == CallInv /\ CallTyped /\ AnswerTrue /\ PicturesInv

(* Where no pictures are fetched, before or after.                         *)
LEMMA NoPictures ==
  ASSUME BatchTyped, phase' # "pictures",
         batch' = None \/ (UNCHANGED batch /\ phase # "pictures")
  PROVE  PicturesInv'
<1>1. batch' = None
  BY DEF BatchTyped
<1> QED
  BY <1>1 DEF PicturesInv, BatchTyped, BatchTrue, NoOtherHostThanTheWidget, Asking, Walking

LEMMA HonestInitially == SessionInit => HonestInv
<1> SUFFICES ASSUME SessionInit PROVE HonestInv
  OBVIOUS
<1>1. /\ op \in Operations /\ phase = "boot" /\ args = None /\ reply = None /\ result = None
      /\ logged.reported = {} /\ batch = None
  BY DEF SessionInit, Init, Nothing
<1>2. CallTyped /\ AnswerTrue
  BY <1>1 DEF CallTyped, AnswerTrue
<1>3. PicturesInv
  BY <1>1 DEF PicturesInv, BatchTyped, BatchTrue, NoOtherHostThanTheWidget, Asking, Walking
<1> QED
  BY <1>2, <1>3, CallInitially DEF HonestInv

LEMMA BootIsHonest ==
  ASSUME HonestInv, Boot
  PROVE  CallTyped' /\ AnswerTrue' /\ PicturesInv'
<1>1. /\ phase = "boot" /\ phase' \in {"serving", "refused"}
      /\ UNCHANGED <<op, args, request, reply, result, logged, batch>>
  BY DEF Boot
<1>2. result = None
  BY <1>1 DEF HonestInv, CallTyped
<1>3. CallTyped' /\ AnswerTrue'
  BY <1>1, <1>2 DEF HonestInv, CallTyped, AnswerTrue
<1> QED
  BY <1>1, <1>3, NoPictures DEF HonestInv, PicturesInv

LEMMA ReceiveIsHonest ==
  ASSUME HonestInv, Receive
  PROVE  CallTyped' /\ AnswerTrue' /\ PicturesInv'
<1>1. PICK a \in ArgumentSets :
        /\ args' = a
        /\ \/ /\ request' = None /\ reply' = None
              /\ Answered(ErrorOf("invalid_arguments", None), Nothing)
           \/ /\ op.handler = None
              /\ request' = BuildRequest(op, a) /\ reply' = None
              /\ phase' = "sent" /\ result' = None /\ logged' = Nothing
           \/ /\ op.handler # None
              /\ request' = None /\ reply' = PlaybookResult(a)
              /\ phase' = "replied" /\ result' = None /\ logged' = Nothing
  BY DEF Receive
<1>2. /\ phase = "serving" /\ op \in Operations
      /\ UNCHANGED <<op, batch>>
  BY DEF Receive, HonestInv, CallTyped
<1>3. /\ logged' = Nothing /\ logged'.reported = {}
      /\ phase' \in {"serving", "sent", "replied"}
      /\ result' # None => phase' = "serving" /\ ~result'.ok
  BY <1>1 DEF Answered, Nothing, ErrorOf
<1>4. reply' \in Replies \cup {None} \cup {PlaybookResult(b) : b \in ArgumentSets}
  BY <1>1
<1>5. phase' \in {"sent", "replied"} =>
        result' = None /\ (request' # None <=> op'.handler = None)
  <2>1. BuildRequest(op, a) # None
    BY <1>2, NoneAssumption
  <2> QED
    BY <1>1, <1>2, <2>1 DEF Answered
<1>6. CallTyped'
  BY <1>1, <1>2, <1>3, <1>4, <1>5 DEF CallTyped
<1>7. AnswerTrue'
  BY <1>3 DEF AnswerTrue
<1> QED
  BY <1>2, <1>3, <1>6, <1>7, NoPictures DEF HonestInv, PicturesInv

LEMMA ReplyIsHonest ==
  ASSUME HonestInv, Reply \/ Unreachable \/ Fail
  PROVE  CallTyped' /\ AnswerTrue' /\ PicturesInv'
<1>1. /\ phase \in {"sent", "replied"} /\ phase' \in {"serving", "replied"}
      /\ UNCHANGED <<op, args, request, batch>>
      /\ reply' = reply \/ reply' \in Replies
      /\ result' # None => phase' = "serving" /\ ~result'.ok
      /\ phase' = "replied" => phase = "sent" /\ result' = result
      /\ logged' = logged \/ logged'.reported = {}
  BY DEF Reply, Unreachable, Fail, Answered, ErrorOf, Nothing, HonestInv, CallTyped
<1>2. CallTyped' /\ AnswerTrue'
  BY <1>1 DEF HonestInv, CallTyped, AnswerTrue
<1> QED
  BY <1>1, <1>2, NoPictures DEF HonestInv, PicturesInv

LEMMA ReadIsHonest ==
  ASSUME HonestInv, NEW uri \in Uris, Read(uri)
  PROVE  CallTyped' /\ AnswerTrue' /\ PicturesInv'
<1>1. /\ phase = "serving" /\ phase' = "serving" /\ op' = op /\ batch' = batch
      /\ args' = None /\ reply' = None /\ result' = None /\ logged'.reported = {}
  BY DEF Read, Nothing
<1>2. CallTyped' /\ AnswerTrue'
  BY <1>1 DEF HonestInv, CallTyped, AnswerTrue
<1> QED
  BY <1>1, <1>2, NoPictures DEF HonestInv, PicturesInv

LEMMA SucceedIsHonest ==
  ASSUME HonestInv, Succeed
  PROVE  CallTyped' /\ AnswerTrue' /\ PicturesInv'
<1>1. /\ phase = "replied" /\ op \in Operations /\ Usable(op) /\ WellFormed(reply.data)
      /\ UNCHANGED <<op, args, request, reply>>
  BY DEF Succeed, HonestInv, CallInv, PhaseOK
<1>2. PICK e, urls : e = Envelope(reply.data) /\ urls = PicturesOf(e.images)
  OBVIOUS
<1>3. /\ e.ok /\ e.data = ApplyOmit(op, reply.data).data
      /\ e.images = ExtractImages(op, reply.data, args)
  BY <1>2, EnvelopeIs
<1>4. WellFormed(e.data)
  BY <1>1, <1>3, OmitResult
<1>5. Wanted <=> e.images # None /\ IncludeImages(op, args)
  BY <1>2 DEF Wanted
<1>6. /\ result' = e
      /\ logged'.reported = UnmatchedCredentials(op, e.data, e.omitted)
      /\ \/ /\ Wanted /\ phase' = "pictures"
            /\ batch' = [urls |-> urls, left |-> DOMAIN urls, landed |-> {}, walk |-> None]
         \/ /\ ~Wanted /\ phase' = "serving" /\ UNCHANGED batch
  BY <1>2, <1>5 DEF Succeed
<1>7. /\ Envelope(reply.data)' = e
      /\ UnmatchedCredentials(op, e.data, e.omitted)' = UnmatchedCredentials(op, e.data, e.omitted)
  BY <1>1, <1>2 DEF Envelope
<1>8. CallTyped'
  <2>1. logged'.reported \subseteq {op.omit[i].path : i \in DOMAIN op.omit}
    <3>1. UnmatchedCredentials(op, e.data, e.omitted) \subseteq {f.path : f \in ToSet(op.omit)}
      BY DEF UnmatchedCredentials
    <3> QED
      BY <1>6, <3>1 DEF ToSet
  <2>2. phase' \in {"pictures", "serving"} /\ result'.ok
    BY <1>3, <1>6
  <2> QED
    BY <1>1, <1>4, <1>6, <2>1, <2>2 DEF HonestInv, CallTyped
<1>9. Wanted' <=> Wanted
  BY <1>1, <1>2, <1>7 DEF Wanted
<1>10. AnswerTrue'
  <2>1. phase' = "serving" => ~Wanted' /\ result' = Envelope(reply.data)'
    BY <1>6, <1>7, <1>9
  <2>2. WellFormed(reply'.data)
    BY <1>1
  <2>3. logged'.reported = UnmatchedCredentials(op', Envelope(reply.data)'.data, Envelope(reply.data)'.omitted)
    BY <1>1, <1>6, <1>7
  <2> QED
    BY <2>1, <2>2, <2>3 DEF AnswerTrue
<1>11. CASE Wanted
  <2>1. phase' = "pictures"
        /\ batch' = [urls |-> urls, left |-> DOMAIN urls, landed |-> {}, walk |-> None]
    BY <1>6, <1>11
  <2>2. urls \in Seq(DOMAIN Location) /\ Len(urls) <= MaxImages
    <3>1. ExtractImages(op, reply.data, args) # None
      BY <1>3, <1>5, <1>11
    <3>2. PICK x : x = ExtractImages(op, reply.data, args)
      OBVIOUS
    <3>3. PicturesOf(x) = Shown(x) /\ Shown(x) \in Seq(DOMAIN Location) /\ Len(Shown(x)) <= MaxImages
      BY <1>1, <3>1, <3>2, PicturesAre
    <3> QED
      BY <1>2, <1>3, <3>2, <3>3
  <2>3. DOMAIN urls \subseteq 1 .. MaxImages
    BY <2>2, EnvelopesAssumption
  <2>4. Fetching(batch')
    <3>1. batch' \in Batch
      BY <2>1, <2>2, <2>3 DEF Batch, Optional
    <3> QED
      BY <2>1, <3>1 DEF Fetching
  <2>5. BatchTyped'
    BY <2>1, <2>4, NoneAssumption DEF BatchTyped, Fetching
  <2>6. BatchTrue'
    <3>1. batch'.urls = PicturesOf(result'.images) /\ WellFormed(reply'.data) /\ Wanted'
      BY <1>1, <1>2, <1>6, <1>9, <1>11, <2>1
    <3>2. logged'.reported = UnmatchedCredentials(op', result'.data, result'.omitted)
      BY <1>1, <1>6
    <3> QED
      BY <1>4, <1>6, <3>1, <3>2 DEF BatchTrue
  <2>7. NoOtherHostThanTheWidget'
    BY <2>1 DEF NoOtherHostThanTheWidget, Asking, Walking
  <2> QED
    BY <1>8, <1>10, <2>5, <2>6, <2>7 DEF PicturesInv
<1>12. CASE ~Wanted
  BY <1>1, <1>6, <1>8, <1>10, <1>12, NoPictures DEF HonestInv, PicturesInv
<1> QED
  BY <1>11, <1>12

(* Fetching leaves the call alone.                                         *)
LEMMA SameCall ==
  ASSUME HonestInv, phase = "pictures", NEW b, Goes(b), Fetching(b), b.urls = batch.urls,
         b.walk # None /\ b.walk.asked # None => LoadsPortAside(b.walk.asked)
  PROVE  CallTyped' /\ AnswerTrue' /\ PicturesInv'
<1>1. batch' = b /\ UNCHANGED <<op, phase, args, request, reply, result, logged>>
  BY DEF Goes
<1>2. Envelope(reply.data)' = Envelope(reply.data)
  BY <1>1 DEF Envelope
<1>3. Wanted' <=> Wanted
  BY <1>1, <1>2 DEF Wanted
<1>4. CallTyped'
  BY <1>1 DEF HonestInv, CallTyped
<1>5. AnswerTrue'
  BY <1>1, <1>2 DEF HonestInv, AnswerTrue
<1>6. BatchTyped'
  BY <1>1, NoneAssumption DEF BatchTyped, Fetching
<1>7. BatchTrue'
  BY <1>1, <1>3 DEF HonestInv, PicturesInv, BatchTrue
<1>8. NoOtherHostThanTheWidget'
  BY <1>1 DEF NoOtherHostThanTheWidget, Asking, Walking
<1> QED
  BY <1>4, <1>5, <1>6, <1>7, <1>8 DEF PicturesInv

(* A batch, field by field.                                                *)
LEMMA BatchIs ==
  ASSUME HonestInv, phase = "pictures"
  PROVE  /\ batch \in Batch /\ Fetching(batch)
         /\ batch.urls \in Seq(DOMAIN Location)
         /\ batch.left \subseteq 1 .. MaxImages /\ batch.landed \subseteq 1 .. MaxImages
         /\ batch.walk \in Walk \cup {None}
<1>1. Fetching(batch)
  BY DEF HonestInv, PicturesInv, BatchTyped
<1> QED
  BY <1>1 DEF Fetching, Batch, Optional

LEMMA TakeIsHonest ==
  ASSUME HonestInv, NEW i \in 1 .. MaxImages, TakePicture(i)
  PROVE  CallTyped' /\ AnswerTrue' /\ PicturesInv'
<1>1. /\ phase = "pictures" /\ batch.walk = None /\ i \in batch.left
  BY DEF TakePicture
<1>2. PICK walk : walk = [image |-> i, target |-> batch.urls[i], asked |-> None, hops |-> 0]
  OBVIOUS
<1>3. PICK b : b = [batch EXCEPT !.left = @ \ {i}, !.walk = walk]
  OBVIOUS
<1>4. Goes(b)
  BY <1>2, <1>3 DEF TakePicture
<1>5. i \in DOMAIN batch.urls /\ i \notin batch.landed
  BY <1>1, BatchIs DEF Fetching
<1>6. walk \in Walk
  <2>1. batch.urls[i] \in DOMAIN Location
    BY <1>1, <1>5, BatchIs
  <2> QED
    BY <1>2, <2>1, AnswerAssumption DEF Walk, Optional
<1>7. /\ b.urls = batch.urls /\ b.left = batch.left \ {i} /\ b.landed = batch.landed
      /\ b.walk = walk /\ b \in Batch
  BY <1>1, <1>3, <1>6, BatchIs DEF Batch, Optional
<1>8. Fetching(b)
  BY <1>1, <1>2, <1>5, <1>7, BatchIs DEF Fetching
<1>9. walk.asked = None
  BY <1>2
<1> QED
  BY <1>1, <1>4, <1>7, <1>8, <1>9, SameCall

LEMMA AskIsHonest ==
  ASSUME HonestInv, Ask
  PROVE  CallTyped' /\ AnswerTrue' /\ PicturesInv'
<1>1. /\ phase = "pictures" /\ batch.walk # None
      /\ batch.walk.hops <= MaxRedirects /\ IsAllowedOrigin(batch.walk.target)
  BY DEF Ask, Walking, MayAsk
<1>2. PICK walk : walk = [batch.walk EXCEPT !.asked = batch.walk.target, !.hops = @ + 1]
  OBVIOUS
<1>3. PICK b : b = [batch EXCEPT !.walk = walk]
  OBVIOUS
<1>4. Goes(b)
  BY <1>2, <1>3 DEF Ask
<1>5. batch.walk \in Walk
  BY <1>1, BatchIs
<1>6. walk \in Walk /\ walk.image = batch.walk.image /\ walk.asked = batch.walk.target
  <2>1. /\ batch.walk.hops \in 0 .. MaxRedirects + 1 /\ batch.walk.image \in 1 .. MaxImages
        /\ batch.walk.target \in DOMAIN Location
    BY <1>5 DEF Walk
  <2>2. batch.walk.hops + 1 \in 0 .. MaxRedirects + 1
    BY <1>1, <2>1, AnswerAssumption
  <2>3. walk = [image |-> batch.walk.image, target |-> batch.walk.target,
                asked |-> batch.walk.target, hops |-> batch.walk.hops + 1]
    BY <1>2, <1>5 DEF Walk
  <2> QED
    BY <2>1, <2>2, <2>3 DEF Walk, Optional
<1>7. /\ b.urls = batch.urls /\ b.left = batch.left /\ b.landed = batch.landed
      /\ b.walk = walk /\ b \in Batch
  BY <1>1, <1>3, <1>6, BatchIs DEF Batch, Optional
<1>8. Fetching(b)
  BY <1>1, <1>6, <1>7, BatchIs DEF Fetching
<1>9. LoadsPortAside(walk.asked)
  BY <1>1, <1>5, <1>6, AllowedIsLoaded DEF Walk
<1> QED
  BY <1>1, <1>4, <1>7, <1>8, <1>9, SameCall

LEMMA RedirectIsHonest ==
  ASSUME HonestInv, NEW location \in DOMAIN Location, Redirected(location)
  PROVE  CallTyped' /\ AnswerTrue' /\ PicturesInv'
<1>1. phase = "pictures" /\ batch.walk # None
  BY DEF Redirected, Asking, Walking
<1>2. PICK walk : walk = [batch.walk EXCEPT !.target = location, !.asked = None]
  OBVIOUS
<1>3. PICK b : b = [batch EXCEPT !.walk = walk]
  OBVIOUS
<1>4. Goes(b)
  BY <1>2, <1>3 DEF Redirected
<1>5. batch.walk \in Walk
  BY <1>1, BatchIs
<1>6. walk \in Walk /\ walk.image = batch.walk.image /\ walk.asked = None
  BY <1>2, <1>5 DEF Walk, Optional
<1>7. /\ b.urls = batch.urls /\ b.left = batch.left /\ b.landed = batch.landed
      /\ b.walk = walk /\ b \in Batch
  BY <1>1, <1>3, <1>6, BatchIs DEF Batch, Optional
<1>8. Fetching(b)
  BY <1>1, <1>6, <1>7, BatchIs DEF Fetching
<1> QED
  BY <1>1, <1>4, <1>6, <1>7, <1>8, SameCall

LEMMA WalkEndsHonestly ==
  ASSUME HonestInv, Lands \/ Drop
  PROVE  CallTyped' /\ AnswerTrue' /\ PicturesInv'
<1>1. phase = "pictures" /\ batch.walk # None
  BY DEF Lands, Drop, Asking, Walking
<1>2. PICK landed : /\ landed = batch.landed \/ landed = batch.landed \cup {batch.walk.image}
                    /\ Goes([batch EXCEPT !.landed = landed, !.walk = None])
  <2>1. CASE Lands
    BY <2>1 DEF Lands
  <2>2. CASE Drop
    <3>1. [batch EXCEPT !.walk = None] = [batch EXCEPT !.landed = batch.landed, !.walk = None]
      BY <1>1, BatchIs DEF Batch
    <3> QED
      BY <2>2, <3>1 DEF Drop
  <2> QED
    BY <2>1, <2>2
<1>3. PICK b : b = [batch EXCEPT !.landed = landed, !.walk = None]
  OBVIOUS
<1>4. batch.walk.image \in 1 .. MaxImages
      /\ batch.walk.image \in DOMAIN batch.urls \ (batch.landed \cup batch.left)
  BY <1>1, BatchIs DEF Walk, Fetching
<1>5. landed \subseteq 1 .. MaxImages
  BY <1>1, <1>2, <1>4, BatchIs
<1>6. /\ b.urls = batch.urls /\ b.left = batch.left /\ b.landed = landed
      /\ b.walk = None /\ b \in Batch
  BY <1>1, <1>3, <1>5, BatchIs DEF Batch, Optional
<1>7. Fetching(b)
  BY <1>1, <1>2, <1>4, <1>6, BatchIs DEF Fetching
<1> QED
  BY <1>1, <1>2, <1>3, <1>6, <1>7, SameCall

LEMMA AttachIsHonest ==
  ASSUME HonestInv, BatchEnds \/ BatchRaises
  PROVE  CallTyped' /\ AnswerTrue' /\ PicturesInv'
<1>1. PICK landed : Attach(landed) /\ (landed = batch.landed \/ landed = {})
  BY DEF BatchEnds, BatchRaises
<1>2. /\ phase = "pictures" /\ phase' = "serving" /\ batch' = None
      /\ UNCHANGED <<op, args, request, reply, logged>>
      /\ result' = [result EXCEPT !.images = WithThumbnails(@, batch.urls, landed),
                                  !.thumbnails = AtPlaces(batch.urls, landed)]
  BY <1>1 DEF Attach
<1>3. landed \in SUBSET DOMAIN batch.urls
  BY <1>1, <1>2, BatchIs DEF Fetching
<1>4. result = Envelope(reply.data) /\ batch.urls = PicturesOf(result.images) /\ Wanted
  BY <1>2 DEF HonestInv, CallInv, PhaseOK, PicturesInv, BatchTrue
<1>5. result' = WithPictures(landed)
  BY <1>2, <1>4 DEF WithPictures
<1>6. PICK e : e = Envelope(reply.data)
  OBVIOUS
<1>7. result'.data = e.data
  BY <1>5, <1>6, AddingPictures
<1>8. /\ WellFormed(reply.data) /\ WellFormed(result'.data)
      /\ logged.reported = UnmatchedCredentials(op, e.data, e.omitted)
  BY <1>2, <1>4, <1>6, <1>7 DEF HonestInv, PicturesInv, BatchTrue
<1>9. CallTyped'
  BY <1>2, <1>8 DEF HonestInv, CallTyped
<1>10. Envelope(reply.data)' = e
  BY <1>2, <1>6 DEF Envelope
<1>11. Wanted'
  BY <1>2, <1>4, <1>6, <1>10 DEF Wanted
<1>12. WithPictures(landed)' = WithPictures(landed)
  BY <1>6, <1>10 DEF WithPictures
<1>13. AnswerTrue'
  <2>1. \E l \in SUBSET DOMAIN PicturesOf(Envelope(reply.data).images)' : result' = WithPictures(l)'
    BY <1>3, <1>4, <1>5, <1>6, <1>10, <1>12
  <2>2. WellFormed(reply'.data) /\ logged'.reported = UnmatchedCredentials(op', e.data, e.omitted)
    BY <1>2, <1>8
  <2> QED
    BY <1>10, <1>11, <2>1, <2>2 DEF AnswerTrue
<1> QED
  BY <1>2, <1>9, <1>13, NoPictures DEF HonestInv, PicturesInv


LEMMA HonestInvariant == HonestInv /\ [SessionNext]_<<vars, onboardingVars>> => HonestInv'
<1> SUFFICES ASSUME HonestInv, [SessionNext]_<<vars, onboardingVars>>
             PROVE  CallTyped' /\ AnswerTrue' /\ PicturesInv'
  BY CallInvariant DEF HonestInv
<1>1. CASE Boot
  BY <1>1, BootIsHonest
<1>2. CASE Calls
  <2>1. CASE FetchPictures
    BY <2>1, TakeIsHonest, AskIsHonest, RedirectIsHonest, WalkEndsHonestly, AttachIsHonest DEF FetchPictures
  <2> QED
    BY <1>2, <2>1, ReceiveIsHonest, ReplyIsHonest, SucceedIsHonest, ReadIsHonest DEF Calls
<1>3. CASE UNCHANGED vars
  <2>1. UNCHANGED <<op, phase, args, request, reply, result, logged, batch>>
    BY <1>3 DEF vars
  <2>2. Envelope(reply.data)' = Envelope(reply.data)
    BY <2>1 DEF Envelope
  <2>3. Wanted' <=> Wanted
    BY <2>1, <2>2 DEF Wanted
  <2>4. CallTyped'
    BY <2>1 DEF HonestInv, CallTyped
  <2>5. AnswerTrue'
    BY <2>1, <2>2, <2>3 DEF HonestInv, AnswerTrue, WithPictures
  <2>6. PicturesInv'
    BY <2>1, <2>3 DEF HonestInv, PicturesInv, BatchTyped, Fetching, BatchTrue,
                      NoOtherHostThanTheWidget, Asking, Walking
  <2> QED
    BY <2>4, <2>5, <2>6
<1> QED
  BY <1>1, <1>2, <1>3 DEF SessionNext

(* The type invariant of a call, of its batch of pictures and of the       *)
(* walks, and that what is left of a payload after omit is a document.     *)
THEOREM AnswersTyped == SessionSpec => []TypeOK
<1>1. HonestInv => TypeOK
  BY TypeIs DEF HonestInv, PicturesInv
<1> QED
  BY <1>1, HonestInitially, HonestInvariant, PTL DEF SessionSpec

(* business_errors.py and images.py see the payload as it came: no field   *)
(* that omit.py removes hides an error code or a picture, for any paths    *)
(* and any payload.                                                        *)
THEOREM NothingIsHidden == SessionSpec => []NothingHidden
<1>1. HonestInv => NothingHidden
  BY HidesNothing DEF HonestInv
<1> QED
  BY <1>1, HonestInitially, HonestInvariant, PTL DEF SessionSpec

(* omit.py: data is the payload without what the declared paths lead to,   *)
(* and nothing else is gone; omitted names the paths that took something   *)
(* away, and no other; from an answer that is not empty, every credential  *)
(* path that took nothing is reported, and no other.                       *)
THEOREM OmitsAreHonest == SessionSpec => []OmitHonest
<1>1. HonestInv => OmitHonest
  BY OmitsHonestly DEF HonestInv
<1> QED
  BY <1>1, HonestInitially, HonestInvariant, PTL DEF SessionSpec

(* images.py and dispatch.py: what a result tells of its pictures is true, *)
(* however many of them landed before the deadline or an exception.        *)
THEOREM PicturesAreHonest == SessionSpec => []PicturesHonest
<1>1. HonestInv => PicturesHonest
  BY TellsOfPictures DEF HonestInv
<1> QED
  BY <1>1, HonestInitially, HonestInvariant, PTL DEF SessionSpec

(* image_fetch.py: over any chain of redirects, the server asks no host    *)
(* for a picture, and by no scheme, that the widget's policy would keep a  *)
(* browser from, the port aside.                                           *)
THEOREM AsksNoMoreThanTheWidget == SessionSpec => []NoOtherHostThanTheWidget
<1>1. HonestInv => NoOtherHostThanTheWidget
  BY DEF HonestInv, PicturesInv
<1> QED
  BY <1>1, HonestInitially, HonestInvariant, PTL DEF SessionSpec
=============================================================================
