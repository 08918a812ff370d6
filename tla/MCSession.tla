------------------------------ MODULE MCSession ------------------------------
(***************************************************************************)
(* Operations, calls and payloads for Session.  The operations are one     *)
(* catalogue search with one part of its manifest varied at a time: what   *)
(* it omits, how many pictures it shows, where its links lead, which       *)
(* constants it sends.  The payloads are pages of results whose shape the  *)
(* upstream changes: fields missing, null, moved, items bare or wrapped.   *)
(* Their pictures are on a sharded CDN, on one that takes parameters and   *)
(* on a merchant's own server whose name resembles the first.              *)
(***************************************************************************)
EXTENDS Session

MCServed == {"search", "get_product"}
MCUrls == {"sharded", "queried", "lookalike"}
(* A traceback is known on one line too, the stack of a script only by the *)
(* two blanks before an "at".                                              *)
MCLeaky == {"traceback", "traceback on one line", "script stack"}
MCFlattened == ("traceback" :> "traceback on one line") @@ ("script stack" :> "script stack on one line")

MCElementNames == <<"#1", "#2", "#3", "#4">>

MCRoutes ==
  [store_draft |-> [status |-> "1", id |-> TRUE, internal |-> FALSE],
   store_product |-> [status |-> "2", id |-> TRUE, internal |-> FALSE],
   marketplace_product |-> [status |-> None, id |-> TRUE, internal |-> FALSE],
   tiktok_analytics_product |-> [status |-> None, id |-> TRUE, internal |-> TRUE]]

----------------------------------------------------------------------------
From(scheme, host) == [scheme |-> scheme, host |-> host]

At(scheme, host) == From(scheme, host) @@ [port |-> DefaultPort(scheme)]

MCLocation ==
  [sharded     |-> At("https", <<"ae01", "alicdn", "com">>),
   sharded_220 |-> At("https", <<"ae01", "alicdn", "com">>),
   sharded_8443 |-> [At("https", <<"ae01", "alicdn", "com">>) EXCEPT !.port = 8443],
   plain       |-> At("http", <<"ae01", "alicdn", "com">>),
   apex        |-> At("https", <<"alicdn", "com">>),
   lookalike   |-> At("https", <<"alicdn", "shop">>),
   queried     |-> At("https", <<"cdn", "shopify", "com">>),
   queried_256 |-> At("https", <<"cdn", "shopify", "com">>),
   merchant    |-> At("https", <<"merchant", "shop">>)]

MCFamilies ==
  <<[hosts |-> {<<"ae01", "alicdn", "com">>, <<"alicdn", "com">>, <<"alicdn", "shop">>},
     resource_domains |-> {From("https", <<"alicdn", "com">>) @@ [wildcard |-> TRUE]},
     subs |-> <<[sharded_220 |-> "sharded_220"],
                [sharded |-> "sharded_220", sharded_220 |-> "sharded_220_220"]>>,
     query |-> <<>>],
    [hosts |-> {<<"cdn", "shopify", "com">>},
     resource_domains |-> {From("https", <<"cdn", "shopify", "com">>) @@ [wildcard |-> FALSE]},
     subs |-> <<>>,
     query |-> [queried |-> "queried_256", queried_256 |-> "queried_256"]]>>

MCWidgets == {"product-grid"}

MCUris ==
  LET Followed(uri) == {uri \o tail : tail \in {<<>>, <<"?", "includeContent=true">>, <<"#", "top">>,
                                               <<"?", "a", "#", "b">>, <<"#", "a", "?", "b">>}}
  IN  Followed(<<"autods://playbook/", "research">>) \cup Followed(<<"ui://autods/", "product-grid">>)
        \cup Followed(<<"ui://autods/", "research">>)
        \cup {<<"autods://playbook/">>, <<"autods://playbook/", "ghost">>,
              <<"autods://playbook/", "research", "/", "a">>, <<"https://", "product-grid">>}

----------------------------------------------------------------------------
Parameter(name, required, location) ==
  [name |-> name, required |-> required, location |-> location]

Entry(path, reason, see) == [path |-> path, reason |-> reason, see |-> see]

Copied(path) == Entry(path, "duplicate", None)
Credential(path) == Entry(path, "credential", None)

Link(route, field, equals, internal) ==
  [route |-> route, field |-> field, equals |-> equals, internal_id_path |-> internal]

Block(item_path, per_item, max, links) ==
  [item_path |-> item_path, image_paths |-> <<<<"image">>, <<"gallery", "*">>>>,
   id_path |-> <<"id">>, per_item |-> per_item, max |-> max, links |-> links,
   widget |-> "product-grid", base64 |-> "opt_in"]

ByStatus == <<Link("store_draft", "product_status", "1", <<>>),
              Link("store_product", "product_status", "2", <<>>)>>

Search ==
  [operation_id |-> "search", handler |-> None, base_url_key |-> "autods_api",
   parameters |-> {Parameter("store", TRUE, "path"), Parameter("q", FALSE, "query"),
                   Parameter("trace", FALSE, "header")},
   fixed_query |-> [source |-> "1688"],
   has_json_body |-> TRUE, request_body_required |-> FALSE,
   body_fields |-> [product_status |-> {"1", "2"}, page |-> {}],
   business_errors |-> <<<<"error", "code">>, <<"results", "*", "code">>>>,
   images |-> Block(<<"results">>, 2, 2, ByStatus),
   omit |-> <<Copied(<<"results", "*", "gallery">>)>>]

Omits ==
  {<<>>,
   <<Copied(<<"error">>)>>,
   <<Copied(<<"error">>), Credential(<<"results", "*", "store", "token">>)>>,
   <<Credential(<<"results", "*", "store", "token">>), Copied(<<"results", "*", "store">>)>>,
   <<Copied(<<"results", "*", "store">>), Credential(<<"results", "*", "store", "token">>)>>,
   <<Credential(<<"token">>), Copied(<<"results", "*", "image">>)>>,
   <<Copied(<<"results">>)>>,
   <<Entry(<<"*", "*", "gallery">>, "available_from_tool", "get_product")>>,
   \* what the lint refuses
   <<Entry(<<"results">>, "available_from_tool", "search")>>,
   <<Entry(<<"results">>, "internal_detail", "get_product")>>,
   <<Copied(<<"results", "*">>)>>,
   <<Copied(<<"results", "", "image">>)>>,
   <<Copied(<<"error">>), Copied(<<"error">>)>>}

Blocks ==
  {None}
  \cup {Block(<<"results">>, p, m, ByStatus) : p, m \in 1 .. 3}
  \cup {Block(<<>>, 2, 2, ByStatus), Block(<<"results", "*", "product">>, 1, 3, ByStatus)}
  \cup {Block(<<"results">>, 1, 2, links) : links \in
         {<<Link("store_draft", "product_status", "1", <<>>), Link("marketplace_product", None, None, <<>>)>>,
          <<Link("tiktok_analytics_product", None, None, <<"internal">>)>>,
          \* what the lint refuses
          <<Link("store_draft", "product_status", "2", <<>>)>>,
          <<Link("store_draft", None, None, <<>>)>>,
          <<Link("store_draft", "product_status", None, <<>>)>>,
          <<Link("store_product", "status", "2", <<>>)>>,
          <<Link("ghost", None, None, <<>>)>>,
          <<Link("marketplace_product", None, None, <<>>), Link("store_draft", "product_status", "1", <<>>)>>,
          <<Link("tiktok_analytics_product", None, None, <<>>)>>}}

(* An operation served by the server itself, and what the lints refuse     *)
(* about either kind.                                                      *)
GetPlaybook ==
  [operation_id |-> "get_playbook", handler |-> "playbook", base_url_key |-> None,
   parameters |-> {Parameter("name", TRUE, "query")}, fixed_query |-> <<>>,
   has_json_body |-> FALSE, request_body_required |-> FALSE, body_fields |-> <<>>,
   business_errors |-> None, images |-> None, omit |-> <<>>]

Refused ==
  {[Search EXCEPT !.base_url_key = None], [Search EXCEPT !.base_url_key = ""],
   [Search EXCEPT !.business_errors = <<>>], [Search EXCEPT !.images.widget = "ghost"],
   [GetPlaybook EXCEPT !.base_url_key = "autods_api"],
   [GetPlaybook EXCEPT !.handler = "cookbook"],
   [GetPlaybook EXCEPT !.fixed_query = [source |-> "1688"]],
   [GetPlaybook EXCEPT !.omit = <<Copied(<<"markdown">>)>>]}

MCOperations ==
  {[Search EXCEPT !.omit = o] : o \in Omits}
  \cup {[Search EXCEPT !.images = b] : b \in Blocks}
  \cup {[Search EXCEPT !.images.base64 = "default_on"],
        [Search EXCEPT !.images.base64 = "off", !.images.widget = None],
        [Search EXCEPT !.fixed_query = [q |-> "1688"]],
        [Search EXCEPT !.request_body_required = TRUE],
        [Search EXCEPT !.has_json_body = FALSE],
        [Search EXCEPT !.body_fields = [product_status |-> {}, page |-> {}]],
        [Search EXCEPT !.business_errors = None], GetPlaybook}
  \cup Refused

----------------------------------------------------------------------------
MCArgumentSets ==
  {[q |-> "shoes"],
   [name |-> "research"], [name |-> "ghost"],
   [store |-> "s"],
   [store |-> "s", q |-> "shoes", trace |-> "t", include_images |-> TRUE],
   [store |-> "s", q |-> "shoes", include_images |-> FALSE],
   [store |-> "s", source |-> "other", body |-> [page |-> "1"]],
   [store |-> "s", q |-> "shoes", body |-> [product_status |-> "1"]],
   [store |-> "s", body |-> [product_status |-> "2"]],
   [store |-> "s", body |-> [product_status |-> "two", page |-> "1"]]}

----------------------------------------------------------------------------
Str(text) == Scalar("str", text)
Null == Scalar("null", "")

Gallery == List(<<Str("queried"), Str("lookalike"), Str("queried"), Str("ftp://d")>>)
Store == Dict(<<"token", "name">>, <<Str("secret"), Str("shop")>>)

Product(id, image) ==
  Dict(<<"id", "image", "gallery", "code", "store">>,
       <<id, image, Gallery, Str("E2"), Store>>)

Bare == Dict(<<"image", "code", "token">>, <<Null, Str(""), Str("secret")>>)
Wrapped == Dict(<<"product", "internal">>, <<Product(Scalar("int", "7"), Str("sharded")), Str("88")>>)
Both == Dict(<<"id", "internal", "gallery", "store">>, <<Str("9"), Str("88"), Gallery, List(<<Store>>)>>)

Page(products) ==
  Dict(<<"error", "results">>, <<Dict(<<"code">>, <<Str("E1")>>), List(products)>>)

Three == <<Product(Scalar("int", "7"), Str("sharded")), Bare, Product(Str("8"), Null)>>

Documents ==
  {Page(Three), Page(<<Both, Wrapped>>), Page(<<Bare, Null>>), Page(<<>>),
   Dict(<<"results">>, <<Null>>),
   Dict(<<"results">>, <<Dict(<<"x", "y">>, <<Wrapped, Bare>>)>>),
   Dict(<<"data">>, <<Page(<<Both>>)>>),
   Page(<<Both, Both, Both>>), List(Three), List(<<>>), List(<<Null, Both>>),
   Product(Str("5"), Str("queried")), Bare, Dict(<<>>, <<>>), Null, Str("done")}

Details ==
  {Null, Str("try again"), Str("traceback"), Str("script stack"),
   Dict(<<"message", "detail">>, <<Str("bad query"), Str("")>>),
   Dict(<<"error", "title">>, <<Dict(<<"code">>, <<Str("E1")>>), Str("Gone")>>),
   Dict(<<"title", "detail">>, <<Str("Gone"), Str("traceback")>>),
   Dict(<<"detail", "title">>, <<Str("script stack"), Str("Gone")>>)}

MCRunbooks == [research |-> Dict(<<"name", "markdown">>, <<Str("research"), Str("step 1")>>)]

MCReplies ==
  {[status |-> 200, data |-> d] : d \in Documents}
  \cup {[status |-> s, data |-> d] : s \in {302, 401, 403, 422, 503}, d \in Details}

----------------------------------------------------------------------------
Usual ==
  [mcp_env |-> "prod", force_https |-> TRUE, public_hostname |-> "mcp", redis_url |-> TRUE,
   public_client_id |-> "public", allowed_client_ids |-> {"public"},
   redirect_uris |-> {"callback"}, allowed_origins_override |-> {}]

MCSettings ==
  {s \in Settings : /\ s.redirect_uris \in {{}, {"callback"}}
                    /\ s.allowed_origins_override \in {{}, {"inspector"}}
                    /\ s.redis_url = (s.mcp_env # "local")
                    /\ "other" \in s.allowed_client_ids}

Visitors == [url : Url, forwards : BOOLEAN, origin : {Unset, "claude", "localhost", "inspector"},
             redirect : RedirectUris]

MCDeployments ==
  [op : MCOperations, settings : {Usual},
   visitors : {{v \in Visitors : /\ v.url = [scheme |-> "https", host |-> "mcp"]
                                 /\ v.forwards /\ v.origin = Unset /\ v.redirect = "callback"}}]
  \cup [op : {GetPlaybook}, settings : MCSettings, visitors : {Visitors}]
=============================================================================
