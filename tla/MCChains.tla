------------------------------ MODULE MCChains ------------------------------
(***************************************************************************)
(* Small sets of playbook files for Chains.  One file at a time for the    *)
(* lints: every graph on three steps, references that lead nowhere, every  *)
(* on_failure of a destructive step.  Two files for the hints: they share  *)
(* an operation, about which they may disagree.                            *)
(***************************************************************************)
EXTENDS Chains

MCRegistered == {"search", "upload", "charge", "list"}
MCDestructive == {"charge"}
MCReadOnly == {"search", "list"}
MCInputs == [o \in MCRegistered |-> {"query", "id"}]

Step(operation, then, failure) ==
  [operation_id |-> operation, then |-> then, requires |-> {},
   incomplete_alone |-> TRUE, on_failure |-> failure]

File(name, entry, steps) ==
  [name |-> name, entry_operation |-> entry, steps |-> steps]

Failure(idempotent, left_behind, verify, ask) ==
  [idempotent |-> idempotent, left_behind |-> left_behind,
   verify_with |-> verify, ask_user |-> ask]

By(operation) == [operation_id |-> operation, how |-> "by id"]

Failures3 == {None, Failure(TRUE, None, None, FALSE)}
  \cup {Failure(FALSE, l, v, a) : l \in {None, "a job may run"},
          v \in {None, By("list"), By("upload")}, a \in BOOLEAN}

Graphs3 ==
  {File("a", entry, <<Step("search", t1, None), Step("upload", t2, None),
                      Step("list", t3, None)>>)
   : entry \in {"search", "upload"},
     t1 \in SUBSET {"search", "upload", "list"}, t2 \in SUBSET {"search", "upload", "list"},
     t3 \in {{}, {"search"}, {"upload"}, {"list"}}}

Broken ==
  {File("a", "search", <<>>),
   File("a", "search", <<Step("search", {}, None), Step("search", {}, None)>>),
   File("a", "list", <<Step("search", {}, None), Step("upload", {}, None)>>),
   File("a", "search", <<Step("search", {"upload", "charge"}, None), Step("upload", {}, None)>>),
   File("a", "search", <<Step("search", {"upload", "ghost"}, None), Step("upload", {}, None)>>),
   File("a", "ghost", <<Step("ghost", {}, None)>>),
   File("a", "charge", <<Step("charge", {}, Failure(FALSE, None, By("ghost"), FALSE))>>),
   File("a", "charge", <<[Step("charge", {"list"}, None) EXCEPT !.incomplete_alone = FALSE],
                         Step("list", {}, None)>>),
   File("a", "upload", <<[Step("upload", {}, None) EXCEPT
                           !.requires = {[param |-> {"asin"}, from_operation |-> "search"]}]>>),
   File("a", "upload", <<[Step("upload", {}, None) EXCEPT
                           !.requires = {[param |-> {"id"}, from_operation |-> "search"]}]>>)}

Writing(name, operation, failure) ==
  {File(name, operation, <<Step(operation, {}, failure), Step("list", {}, None)>>),
   File(name, "search", <<Step("search", {}, None), Step(operation, {}, failure)>>)}

Pairs ==
  {<<f, g>> : f \in UNION {Writing("a", o, x) : o \in {"charge", "upload"}, x \in Failures3},
              g \in UNION {Writing("b", "charge", x) : x \in Failures3}}

MCConfigurations ==
  {<<f>> : f \in Graphs3 \cup Broken}
  \cup Pairs
  \cup {<<>>, <<File("a", "list", <<Step("list", {}, None)>>),
                File("a", "search", <<Step("search", {}, None)>>)>>}
=============================================================================
