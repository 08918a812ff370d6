------------------------------ MODULE Payloads ------------------------------
(***************************************************************************)
(* payload_paths.py, and the JSON documents it reads.                      *)
(*                                                                         *)
(* A document is a function from addresses to nodes.  An address is the    *)
(* sequence of keys that leads to a node, <<>> for the root.  A node has a *)
(* kind ("dict", "list", "str", "int" or "null"), the keys of its children *)
(* in document order, and the text of a scalar, "" when it is blank.  The  *)
(* elements of a list have names of their own, which no path uses: a list  *)
(* cannot be indexed.                                                      *)
(***************************************************************************)
EXTENDS Naturals, Sequences, SequencesExt

CONSTANT ElementNames  \* of the elements of a list, in their order

Wildcard == "*"

Kinds == {"dict", "list", "str", "int", "null"}

Node(kind, keys, text) == [kind |-> kind, keys |-> keys, text |-> text]

Scalar(kind, text) == [a \in {<<>>} |-> Node(kind, <<>>, text)]

Compose(kind, keys, documents) ==
  LET below == UNION {{<<keys[i]>> \o a : a \in DOMAIN documents[i]} : i \in DOMAIN keys}
  IN  [a \in {<<>>} \cup below |->
         IF a = <<>> THEN Node(kind, keys, "")
         ELSE documents[CHOOSE i \in DOMAIN keys : keys[i] = Head(a)][Tail(a)]]

Dict(keys, documents) == Compose("dict", keys, documents)

List(documents) == Compose("list", SubSeq(ElementNames, 1, Len(documents)), documents)

WellFormed(document) ==
  /\ <<>> \in DOMAIN document /\ DOMAIN document \subseteq Seq(STRING)
  /\ document \in [DOMAIN document -> [kind : Kinds, keys : Seq(STRING), text : STRING]]
  /\ \A a \in DOMAIN document :
       /\ document[a].kind = "list" => ToSet(document[a].keys) \subseteq ToSet(ElementNames)
       /\ document[a].kind \notin {"dict", "list"} => document[a].keys = <<>>
       /\ \A k \in ToSet(document[a].keys) : Append(a, k) \in DOMAIN document
  /\ \A a \in DOMAIN document : a # <<>> =>
       /\ Front(a) \in DOMAIN document
       /\ Last(a) \in ToSet(document[Front(a)].keys)

----------------------------------------------------------------------------
(* The elements of a sequence at some of its places, or of some values, in *)
(* their order.                                                            *)
AtPlaces(s, places) ==
  FlattenSeq([i \in DOMAIN s |-> IF i \in places THEN <<s[i]>> ELSE <<>>])

Only(s, values) == AtPlaces(s, {i \in DOMAIN s : s[i] \in values})

----------------------------------------------------------------------------
(* What one segment leads to from a node: all children, or the one value   *)
(* of that key in a dictionary.                                            *)
Children(document, a, segment) ==
  LET node  == document[a]
      taken == Only(node.keys, {k \in ToSet(node.keys) :
                                  segment = Wildcard \/ (node.kind = "dict" /\ k = segment)})
  IN  [i \in DOMAIN taken |-> Append(a, taken[i])]

Below(document, at, segment) ==
  FlattenSeq([i \in DOMAIN at |-> Children(document, at[i], segment)])

(* resolve_path from a node, as the addresses of the values it returns.    *)
Resolve(document, from, path) ==
  LET at[i \in 0 .. Len(path)] ==
        IF i = 0 THEN <<from>> ELSE Below(document, at[i - 1], path[i])
  IN  IF path = <<>> THEN <<>> ELSE at[Len(path)]

(* The same without the search: does a path lead from the root to here?    *)
(* An empty path leads nowhere, not to the root.                           *)
Leads(path, a) ==
  /\ path # <<>> /\ Len(a) = Len(path)
  /\ \A i \in DOMAIN path : path[i] \in {Wildcard, a[i]}

Addressed(document, path) == {a \in DOMAIN document : Leads(path, a)}

(* A document with some of its nodes, and all that hangs from them, gone.  *)
Within(document, a, kept) ==
  Node(document[a].kind,
       Only(document[a].keys, {k \in ToSet(document[a].keys) : Append(a, k) \in kept}),
       document[a].text)

UnlinkedOnly(document, victims) ==
  [a \in DOMAIN document |-> Within(document, a, DOMAIN document \ victims)]

Without(document, victims) ==
  LET kept == {a \in DOMAIN document : \A v \in victims : ~IsPrefix(v, a)}
  IN  [a \in kept |-> Within(document, a, kept)]

(* Python's truth of a document.                                           *)
Empty(document) == document[<<>>].keys = <<>> /\ document[<<>>].text = ""
=============================================================================
