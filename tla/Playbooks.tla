----------------------------- MODULE Playbooks -----------------------------
(***************************************************************************)
(* manifests/playbooks.py without its texts: chains of tool calls, the     *)
(* hints rendered from them, and the lints a chain has to pass at boot.    *)
(*                                                                         *)
(* Everything here is a function of the playbook files.  files is the      *)
(* sequence of playbooks in load order; a chain is a position in it.       *)
(* Lists whose order decides nothing (then, requires) are sets, and the    *)
(* size budgets of the rendered texts are left out.                        *)
(***************************************************************************)
EXTENDS Naturals, Sequences

CONSTANTS Registered,   \* the operation ids the server serves
          Destructive,  \* those that carry destructiveHint
          ReadOnly,     \* those that carry readOnlyHint
          Inputs,       \* per operation, its parameters and body fields
          None

ASSUME PlaybooksAssumption ==
  /\ Destructive \subseteq Registered
  /\ ReadOnly \subseteq Registered
  /\ None \notin Registered

(* A playbook: name, entry_operation, steps.  A step: operation_id, then,  *)
(* requires, incomplete_alone (is it there), on_failure, which is None or  *)
(* idempotent, left_behind, verify_with (None or operation_id and how),    *)
(* ask_user.                                                               *)
Positions(playbook) == DOMAIN playbook.steps

OperationsOf(playbook) ==
  {playbook.steps[i].operation_id : i \in Positions(playbook)}

PositionOf(playbook, operation) ==
  CHOOSE i \in Positions(playbook) : playbook.steps[i].operation_id = operation

----------------------------------------------------------------------------
(* The authored successors, else the next step in the list.                *)
NextOperations(playbook, i) ==
  IF playbook.steps[i].then # {} THEN playbook.steps[i].then
  ELSE {playbook.steps[j].operation_id : j \in Positions(playbook) \cap {i + 1}}

IsFinal(playbook, i) == NextOperations(playbook, i) = {}

NamesUnique(files) ==
  \A c, d \in DOMAIN files : files[c].name = files[d].name => c = d

StepsFor(files, operation) ==
  UNION {{[chain |-> c, index |-> i] : i \in {j \in Positions(files[c]) :
           files[c].steps[j].operation_id = operation}} : c \in DOMAIN files}

StepAt(files, ref) == files[ref.chain].steps[ref.index]

----------------------------------------------------------------------------
(* What the server says beside a result, or appends to an error.  A hint   *)
(* of one chain states its step; the hint of several only names them.      *)
NoHint == [in |-> {}, step |-> None, next |-> {}]

Alike(S) == \A x, y \in S : x = y

SuccessHintOfFirst(files, operation) ==
  LET refs == StepsFor(files, operation)
      ref == CHOOSE r \in refs : TRUE
  IN  IF refs = {} \/ IsFinal(files[ref.chain], ref.index) THEN NoHint
      ELSE [in |-> {ref.chain}, step |-> ref.index,
            next |-> NextOperations(files[ref.chain], ref.index)]

SuccessHint(files, operation) ==
  LET refs    == StepsFor(files, operation)
      pending == {r \in refs : ~IsFinal(files[r.chain], r.index)}
      ref     == CHOOSE r \in refs : TRUE
  IN  IF pending = {} THEN NoHint
      ELSE IF Alike(refs)
           THEN [in |-> {ref.chain}, step |-> ref.index,
                 next |-> NextOperations(files[ref.chain], ref.index)]
           ELSE [in |-> {r.chain : r \in pending}, step |-> None, next |-> {}]

(* The value all members agree on, None when they do not.                  *)
Agreed(values) == IF Alike(values) THEN CHOOSE v \in values : TRUE ELSE None

MergedBoldly(declared) ==
  [idempotent  |-> \E f \in declared : f.idempotent,
   left_behind |-> Agreed({f.left_behind : f \in declared}),
   verify_with |-> Agreed({f.verify_with : f \in declared}),
   ask_user    |-> \E f \in declared : f.ask_user]

Merged(declared) ==
  [idempotent  |-> \A f \in declared : f.idempotent,
   left_behind |-> Agreed({f.left_behind : f \in declared}),
   verify_with |-> Agreed({f.verify_with : f \in declared}),
   ask_user    |-> \E f \in declared : f.ask_user]

FailureHint(files, operation) ==
  LET refs     == StepsFor(files, operation)
      declared == {StepAt(files, r).on_failure : r \in refs} \ {None}
  IN  IF declared = {} THEN None
      ELSE IF Alike(refs) THEN CHOOSE f \in declared : TRUE
           ELSE Merged(declared)

----------------------------------------------------------------------------
(* The lints.  The walk of lint 3b is in Chains, this is what it rests on. *)
OutwardReferences(playbook) ==
  UNION {LET step == playbook.steps[i] IN
           {q.from_operation : q \in step.requires}
           \cup (IF step.on_failure = None \/ step.on_failure.verify_with = None
                 THEN {} ELSE {step.on_failure.verify_with.operation_id})
         : i \in Positions(playbook)}

References(playbook) ==
  {playbook.entry_operation} \cup OperationsOf(playbook)
  \cup UNION {playbook.steps[i].then : i \in Positions(playbook)}
  \cup OutwardReferences(playbook)

ReferencesResolve(playbook) == References(playbook) \subseteq Registered

RequiresResolve(playbook) ==
  \A i \in Positions(playbook) : \A q \in playbook.steps[i].requires :
    q.param \subseteq Inputs[playbook.steps[i].operation_id]

StepsDistinct(playbook) ==
  /\ playbook.steps # <<>>
  /\ \A i, j \in Positions(playbook) :
       playbook.steps[i].operation_id = playbook.steps[j].operation_id => i = j
  /\ playbook.entry_operation \in OperationsOf(playbook)

StepsNamed(playbook) ==
  /\ StepsDistinct(playbook)
  /\ \A i \in Positions(playbook) : playbook.steps[i].then \subseteq OperationsOf(playbook)

DestructiveDeclared(playbook) ==
  \A i \in Positions(playbook) :
    LET step    == playbook.steps[i]
        failure == step.on_failure
    IN
    step.operation_id \in Destructive =>
      /\ IsFinal(playbook, i) \/ step.incomplete_alone
      /\ (failure # None /\ ~failure.idempotent) =>
           /\ failure.verify_with # None
           /\ failure.verify_with.operation_id \in ReadOnly
=============================================================================
