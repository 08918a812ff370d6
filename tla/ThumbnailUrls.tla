---------------------------- MODULE ThumbnailUrls ----------------------------
(***************************************************************************)
(* image_rewrites.py: the table of CDN families, read in two ways.  Its    *)
(* host tests and rules choose the URL that is published for a picture;    *)
(* its origins say which servers the widget, and this process, may load    *)
(* from.  The two must not be confused: a host test is a substring match,  *)
(* good enough to pick a rule and no more.                                 *)
(*                                                                         *)
(* A URL is a model value; Location gives its scheme, its host, a sequence *)
(* of labels, and its port, the scheme's own where it names none.  A rule  *)
(* is a partial function on URLs: a pattern matches the URLs of its        *)
(* domain, itself included when the URL is sized already.                  *)
(***************************************************************************)
EXTENDS Naturals, SequencesExt

CONSTANTS Families,  \* HOST_FAMILIES, in table order
          Location,  \* of a URL: its scheme, host and port
          None

Origin == [scheme : {"http", "https"}, host : Seq(STRING), wildcard : BOOLEAN]

HostFamily(family) ==
  /\ \A h \in family.hosts : h \in Seq(STRING)
  /\ family.resource_domains \subseteq Origin
  /\ \A i \in DOMAIN family.subs : DOMAIN family.subs[i] \subseteq DOMAIN Location
  /\ DOMAIN family.query \subseteq DOMAIN Location

ASSUME ThumbnailUrlsAssumption ==
  /\ \A u \in DOMAIN Location :
       Location[u] \in [scheme : STRING, host : Seq(STRING), port : Nat]
  /\ \A i \in DOMAIN Families : HostFamily(Families[i])

----------------------------------------------------------------------------
(* The first family of the table whose tests accept the host.              *)
FamilyOf(url) ==
  LET serving == SelectSeq(Families, LAMBDA f : Location[url].host \in f.hosts)
  IN  IF serving = <<>> THEN None ELSE Head(serving)

(* The first pattern that matches decides; a family has patterns or query  *)
(* parameters.  None: this host has no small variant.                      *)
RewriteThumbnail(url) ==
  LET family  == FamilyOf(url)
      matched == SelectSeq(family.subs, LAMBDA s : url \in DOMAIN s)
  IN  CASE family = None -> None
        [] family # None /\ matched # <<>> -> Head(matched)[url]
        [] OTHER -> IF url \in DOMAIN family.query THEN family.query[url] ELSE None

PublishedUrl(url) ==
  IF RewriteThumbnail(url) = None THEN url ELSE RewriteThumbnail(url)

ResourceDomains == UNION {Families[i].resource_domains : i \in DOMAIN Families}

(* A wildcard covers subdomains and not the domain itself.  Whatever the   *)
(* port: the host name is compared without it.                             *)
Covers(origin, place) ==
  /\ origin.scheme = place.scheme
  /\ IF origin.wildcard
     THEN IsSuffix(origin.host, place.host) /\ Len(place.host) > Len(origin.host)
     ELSE place.host = origin.host

(* As a slip would have it: the host tests in place of the origins.        *)
IsAllowedHost(url) == FamilyOf(url) # None

IsAllowedOrigin(url) == \E origin \in ResourceDomains : Covers(origin, Location[url])
=============================================================================
