------------------------------ MODULE Envelopes ------------------------------
(***************************************************************************)
(* What the server makes of one upstream response, and of the arguments    *)
(* that lead to it: business_errors.py, images.py with product_links.py,   *)
(* omit.py, errors.py and _build_request.  Functions of the operation's    *)
(* manifest, the call's arguments and the payload; the order in which they *)
(* are put together is in Answer.                                          *)
(*                                                                         *)
(* Left out: labels (read as ids are), messages, the cut of a long detail, *)
(* and the lints about the notes' wording and notation.                    *)
(***************************************************************************)
EXTENDS Integers, Payloads, ThumbnailUrls, Resources, TLC

CONSTANTS Served,     \* the operation ids of the server
          Routes,     \* the route table: status, and the ids its path takes
          Urls,       \* the scalars that start with http(s)://
          Leaky,      \* the texts that hold a leak marker
          Flattened,  \* of a text with runs of blanks or breaks: one with single blanks
          MaxImages   \* the ceiling on images in one result

ASSUME EnvelopesAssumption ==
  /\ \A u \in Urls : PublishedUrl(u) \in DOMAIN Location
  /\ Urls \subseteq DOMAIN Location
  /\ \A text \in DOMAIN Flattened : Flattened[text] \notin DOMAIN Flattened
  /\ MaxImages \in Nat

(* The manifest's records, as its schema declares them.                    *)
Path == Seq(STRING \ ToSet(ElementNames))

Optional(S) == S \cup {None}

LinkBlock ==
  [route : STRING, field : Optional(STRING), equals : Optional(STRING), internal_id_path : Path]

ImagesBlock ==
  [item_path : Path, image_paths : Seq(Path), id_path : Path,
   per_item : Int, max : Int, links : Seq(LinkBlock),
   widget : Optional(STRING), base64 : {"off", "opt_in", "default_on"}]

OmitEntry ==
  [path : Path, see : Optional(STRING),
   reason : {"duplicate", "internal_detail", "available_from_tool", "credential"}]

ManifestParameter ==
  [name : STRING, location : {"path", "query", "header"}, required : BOOLEAN]

(* body_fields has the fields of body_schema and the values each may take, *)
(* {} for any.                                                             *)
ManifestOperation(op) ==
  /\ op.operation_id \in STRING
  /\ op.handler \in Optional(STRING)
  /\ op.base_url_key \in Optional(STRING)
  /\ op.parameters \subseteq ManifestParameter
  /\ \A n \in DOMAIN op.fixed_query : op.fixed_query[n] \in STRING
  /\ {op.has_json_body, op.request_body_required} \subseteq BOOLEAN
  /\ \A n \in DOMAIN op.body_fields : op.body_fields[n] \subseteq STRING
  /\ op.business_errors \in Optional(Seq(Path))
  /\ op.images \in Optional(ImagesBlock)
  /\ op.omit \in Seq(OmitEntry)

(* An answer a document gives as a code or an identifier: a string that is *)
(* not blank, or an integer.                                               *)
Says(node) == node.kind \in {"str", "int"} /\ node.text # ""

Texts(document, addresses) == [i \in DOMAIN addresses |-> document[addresses[i]].text]

Distinct(s) == AtPlaces(s, {i \in DOMAIN s : \A j \in 1 .. i - 1 : s[j] # s[i]})

FirstOf(s) == IF s = <<>> THEN None ELSE Head(s)

UpTo(s, n) == SubSeq(s, 1, IF Len(s) < n THEN Len(s) ELSE n)

----------------------------------------------------------------------------
(* The distinct codes in first-seen order.                                 *)
DetectBusinessErrors(op, data) ==
  LET found == FlattenSeq([i \in DOMAIN op.business_errors |->
                             Resolve(data, <<>>, op.business_errors[i])])
  IN  IF op.business_errors = None THEN <<>>
      ELSE Distinct(Texts(data, Only(found, {a \in ToSet(found) : Says(data[a])})))

----------------------------------------------------------------------------
(* _items: a missing item_path means that the root is the item, or a list  *)
(* of them; a path that ends at a list means the list's elements.          *)
Items(block, data) ==
  LET Elements(a) == [i \in DOMAIN data[a].keys |-> Append(a, data[a].keys[i])]
      Flat(a) == IF data[a].kind = "list" THEN Elements(a)
                 ELSE IF data[a].kind = "null" THEN <<>> ELSE <<a>>
      found == Resolve(data, <<>>, block.item_path)
  IN  IF block.item_path # <<>>
      THEN FlattenSeq([i \in DOMAIN found |-> Flat(found[i])])
      ELSE CASE data[<<>>].kind = "list" ->
                  Only(Elements(<<>>), {a \in DOMAIN data : data[a].kind # "null"})
             [] data[<<>>].kind = "dict" -> <<(<<>>)>>
             [] OTHER -> <<>>

FirstStr(data, item, path) ==
  FirstOf(Texts(data, Only(Resolve(data, item, path), {a \in DOMAIN data : Says(data[a])})))

Pictured(data) == {a \in DOMAIN data : data[a].kind = "str" /\ data[a].text \in Urls}

(* The URLs of the first image path that has any, up to per_item.          *)
UrlsFor(block, data, item) ==
  LET UrlsAt(path) == Distinct(Texts(data, Only(Resolve(data, item, path), Pictured(data))))
      any  == {i \in DOMAIN block.image_paths : UrlsAt(block.image_paths[i]) # <<>>}
      urls == UrlsAt(block.image_paths[Min(any)])
  IN  IF any = {} THEN <<>> ELSE UpTo(urls, block.per_item)

(* An absent field reads as None, which an absent equals would match.      *)
GateMatches(link, args) ==
  \/ link.field = None
  \/ /\ "body" \in DOMAIN args
     /\ link.equals = IF link.field \in DOMAIN args.body THEN args.body[link.field] ELSE None

BuildLink(link, args, id, internal) ==
  IF /\ GateMatches(link, args)
     /\ Routes[link.route].id => id # None
     /\ Routes[link.route].internal => internal # None
  THEN [route |-> link.route, id |-> id, internal |-> internal]
  ELSE None

ItemEntry(block, data, args, item) ==
  LET id == FirstStr(data, item, block.id_path)
      built == [i \in DOMAIN block.links |->
                  BuildLink(block.links[i], args, id,
                            FirstStr(data, item, block.links[i].internal_id_path))]
      made == {i \in DOMAIN block.links : built[i] # None}
      urls == UrlsFor(block, data, item)
  IN  [images |-> [i \in DOMAIN urls |-> PublishedUrl(urls[i])], id |-> id,
       link |-> IF made = {} THEN None ELSE built[Min(made)]]

ExtractImages(op, data, args) ==
  LET items == Items(op.images, data)
      shown == UpTo(items, op.images.max)
  IN  IF op.images = None \/ items = <<>> THEN None
      ELSE [items |-> [i \in DOMAIN shown |-> ItemEntry(op.images, data, args, shown[i])],
            total |-> Len(items),
            note  |-> IF Len(shown) < Len(items) THEN {"more in data"} ELSE {}]

----------------------------------------------------------------------------
(* A caller's include_images, or the default the manifest declares: the    *)
(* schema announces defaults, nobody applies them.                         *)
IncludeImages(op, args) ==
  /\ op.images # None
  /\ op.images.base64 # "off"
  /\ IF "include_images" \in DOMAIN args THEN args.include_images
     ELSE op.images.base64 = "default_on"

(* The pictures of a block, in its order.                                  *)
PicturesOf(images) ==
  UpTo(FlattenSeq([i \in DOMAIN images.items |-> images.items[i].images]), MaxImages)

(* What the block says of the pictures that landed: places in urls.        *)
WithThumbnails(images, urls, landed) ==
  LET short == IF Cardinality(landed) < Len(urls) THEN {"short"} ELSE {}
  IN  [items |-> images.items, total |-> images.total,
       attached |-> Cardinality(landed), note |-> images.note \cup short]

----------------------------------------------------------------------------
(* One omit entry: its key goes from every dictionary its parents address. *)
TrimFirst(acc, entry) ==
  LET victim == FirstOf(Resolve(acc.data, <<>>, entry.path))
  IN  IF victim = None THEN acc
      ELSE [data |-> Without(acc.data, {victim}), omitted |-> Append(acc.omitted, entry.path)]

Trim(acc, entry) ==
  LET key     == Last(entry.path)
      parents == IF Len(entry.path) = 1 THEN {<<>>}
                 ELSE ToSet(Resolve(acc.data, <<>>, Front(entry.path)))
      victims == {Append(p, key) : p \in {q \in parents : acc.data[q].kind = "dict"}}
                   \cap DOMAIN acc.data
  IN  IF victims = {} THEN acc
      ELSE [data |-> Without(acc.data, victims), omitted |-> Append(acc.omitted, entry.path)]

ApplyOmit(op, data) ==
  LET acc[i \in 0 .. Len(op.omit)] ==
        IF i = 0 THEN [data |-> data, omitted |-> <<>>] ELSE Trim(acc[i - 1], op.omit[i])
  IN  acc[Len(op.omit)]

UnmatchedCredentials(op, data, omitted) ==
  IF Empty(data) THEN {}
  ELSE {e.path : e \in {f \in ToSet(op.omit) : /\ f.reason = "credential"
                                               /\ f.path \notin ToSet(omitted)}}

----------------------------------------------------------------------------
(* The first field that says anything decides, even if it leaks.           *)
DetailFields == <<"error_description", "detail", "message", "error", "title">>

OnOneLine(text) == IF text \in DOMAIN Flattened THEN Flattened[text] ELSE text

(* The markers are looked for in the text on one line, not as it came.     *)
SanitizeDetail(data) ==
  LET said == {i \in DOMAIN DetailFields :
                 /\ <<DetailFields[i]>> \in DOMAIN data
                 /\ data[<<DetailFields[i]>>].kind = "str" /\ Says(data[<<DetailFields[i]>>])}
      text == CASE data[<<>>].kind = "str" -> data[<<>>].text
                [] data[<<>>].kind = "dict" /\ said # {} -> data[<<DetailFields[Min(said)]>>].text
                [] OTHER -> None
  IN  IF text = None \/ OnOneLine(text) \in Leaky \cup {""} THEN None ELSE OnOneLine(text)

(* Redirects and everything that is not 4xx tell the caller nothing and    *)
(* are logged in full.                                                     *)
MapUpstreamErrorEchoing(status, data) ==
  [error_type |-> IF status \in 400 .. 499 THEN "upstream_client_error" ELSE "upstream_error",
   detail |-> SanitizeDetail(data), log_full |-> IF status \in 400 .. 499 THEN None ELSE data]

MapUpstreamError(status, data) ==
  CASE status = 401 -> [error_type |-> "unauthenticated", detail |-> None, log_full |-> None]
    [] status = 403 -> [error_type |-> "forbidden", detail |-> None, log_full |-> None]
    [] status \in (400 .. 499) \ {401, 403} ->
         [error_type |-> "upstream_client_error", detail |-> SanitizeDetail(data), log_full |-> None]
    [] OTHER -> [error_type |-> "upstream_error", detail |-> None, log_full |-> data]

----------------------------------------------------------------------------
Missing(op, args) ==
  \/ \E p \in op.parameters : p.required /\ p.name \notin DOMAIN args
  \/ op.request_body_required /\ "body" \notin DOMAIN args

(* The input schema: a body must fit the declared one, a name it does not  *)
(* know is let through.                                                    *)
SchemaAccepts(op, args) ==
  /\ ~Missing(op, args)
  /\ (op.has_json_body /\ "body" \in DOMAIN args) =>
       \A f \in DOMAIN op.body_fields \cap DOMAIN args.body :
         op.body_fields[f] # {} => args.body[f] \in op.body_fields[f]

Given(op, args, location) ==
  [n \in {p.name : p \in {q \in op.parameters : q.location = location}} \cap DOMAIN args
     |-> args[n]]

(* A dictionary that starts from constants: a later value replaces one.    *)
Updated(constants, given) ==
  [n \in DOMAIN constants \cup DOMAIN given |->
     IF n \in DOMAIN given THEN given[n] ELSE constants[n]]

BuildRequestOfAll(op, args) ==
  [path |-> Given(op, args, "path"), query |-> Updated(op.fixed_query, args),
   headers |-> Given(op, args, "header"), body |-> None]

BuildRequest(op, args) ==
  [path |-> Given(op, args, "path"),
   query |-> Updated(op.fixed_query, Given(op, args, "query")),
   headers |-> Updated([authorization |-> "the caller's token"], Given(op, args, "header")),
   body |-> IF op.has_json_body /\ "body" \in DOMAIN args THEN args.body ELSE None]

----------------------------------------------------------------------------
(* The boot lints of tools.py, images.py and omit.py on what is modelled.  *)
BusinessErrorsUsable(op) == op.business_errors # <<>>

(* Forwarded, or served here by the one handler there is: never both.      *)
HandlerOrUpstream(op) ==
  \/ op.handler = None /\ op.base_url_key \notin {None, ""}
  \/ /\ op.handler = "playbook" /\ DOMAIN Runbooks # {}
     /\ op.base_url_key \in {None, ""}

FixedQueryUsable(op) ==
  DOMAIN op.fixed_query # {} =>
    op.handler = None /\ {p.name : p \in op.parameters} \cap DOMAIN op.fixed_query = {}

LinkUsableLoosely(op, link) ==
  /\ link.route \in DOMAIN Routes
  /\ (link.field = None) = (link.equals = None)
  /\ link.field # None => link.field \in DOMAIN op.body_fields

LinkUsable(op, link) ==
  /\ link.route \in DOMAIN Routes
  /\ (link.field = None) = (link.equals = None)
  /\ link.field # None => /\ link.field \in DOMAIN op.body_fields
                          /\ op.body_fields[link.field] = {} \/ link.equals \in op.body_fields[link.field]
  /\ Routes[link.route].status \in {None, link.equals}
  /\ Routes[link.route].id => op.images.id_path # <<>>
  /\ Routes[link.route].internal = (link.internal_id_path # <<>>)

LinksUsable(op) ==
  LET links == op.images.links IN
  /\ \A i \in DOMAIN links : LinkUsable(op, links[i])
  /\ \A i \in DOMAIN links : links[i].field = None => i = Len(links)

ImagesUsablePerItem(op) ==
  op.images # None =>
    /\ op.images.image_paths # <<>>
    /\ op.images.per_item \in 1 .. MaxImages
    /\ op.images.max \in 1 .. MaxImages
    /\ op.images.widget \in Optional(Widgets)
    /\ LinksUsable(op)

ImagesUsable(op) ==
  op.images # None =>
    /\ op.images.image_paths # <<>>
    /\ op.images.per_item >= 1 /\ op.images.max >= 1
    /\ op.images.per_item * op.images.max <= MaxImages
    /\ op.images.widget \in Optional(Widgets)
    /\ LinksUsable(op)

OmitUsable(op) ==
  /\ op.omit # <<>> => op.handler = None
  /\ \A i \in DOMAIN op.omit :
       LET e == op.omit[i] IN
       /\ e.path # <<>> /\ "" \notin ToSet(e.path) /\ Last(e.path) # Wildcard
       /\ IF e.reason = "available_from_tool"
          THEN e.see \in Served \ {op.operation_id} ELSE e.see = None
  /\ \A i, j \in DOMAIN op.omit : op.omit[i].path = op.omit[j].path => i = j

Usable(op) ==
  /\ BusinessErrorsUsable(op)
  /\ HandlerOrUpstream(op)
  /\ FixedQueryUsable(op)
  /\ ImagesUsable(op)
  /\ OmitUsable(op)
=============================================================================
