------------------------------- MODULE Chains -------------------------------
(***************************************************************************)
(* The boot of the playbook registry, and a client that then follows one   *)
(* of its chains by nothing but what the server's answers say.             *)
(*                                                                         *)
(* At boot assert_playbooks_valid lints the files one by one; lint 3b      *)
(* walks a chain's graph from its entry.  The walk's frontier is a set:    *)
(* the code pops the last element of a list, any element will do.          *)
(*                                                                         *)
(* The server keeps no session, so it answers a call from the operation    *)
(* alone, whatever chain the caller is in.  The client is external: a      *)
(* careful model that goes on to a step the answer names, asks             *)
(* get_playbook when the answer names only chains, and repeats a failed    *)
(* call only when told that it may or when a check shows that nothing      *)
(* landed (a check is taken to write nothing).  landed counts the times    *)
(* the effect of its current step took place, up to two; an attempt can    *)
(* take effect and fail all the same.                                      *)
(***************************************************************************)
EXTENDS Playbooks

CONSTANT Configurations  \* the sequences of playbook files that may be deployed

ASSUME ConfigurationsAssumption ==
  \A fs \in Configurations : Len(fs) \in Nat /\ DOMAIN fs = 1 .. Len(fs)

VARIABLES files, phase, linted, frontier, reachable,  \* the server
          chain, at, mode, landed, tail               \* the client

server == <<files, phase, linted, frontier, reachable>>

client == <<chain, at, mode, landed, tail>>

vars == <<server, client>>

TypeOK ==
  /\ files \in Configurations
  /\ phase \in {"load", "lint", "walk", "serving", "refused"}
  /\ linted \in 0 .. Len(files)
  /\ phase = "walk" => /\ linted < Len(files)
                       /\ frontier \subseteq Positions(files[linted + 1])
                       /\ reachable \subseteq Positions(files[linted + 1])
  /\ mode \in {"idle", "calling", "succeeded", "failed", "done", "gave up"}
  /\ mode # "idle" => chain \in DOMAIN files /\ at \in Registered
  /\ landed \in 0 .. 2

Init ==
  /\ files \in Configurations
  /\ phase = "load" /\ linted = 0 /\ frontier = {} /\ reachable = {}
  /\ chain = 1 /\ at = None /\ mode = "idle" /\ landed = 0 /\ tail = None

----------------------------------------------------------------------------
Current == files[linted + 1]

Refuse ==
  /\ phase' = "refused"
  /\ UNCHANGED <<files, linted, frontier, reachable, client>>

(* The registry raises on a name that is taken.                            *)
Load ==
  /\ phase = "load"
  /\ \/ ~NamesUnique(files) /\ Refuse
     \/ /\ NamesUnique(files)
        /\ phase' = IF files = <<>> THEN "serving" ELSE "lint"
        /\ UNCHANGED <<files, linted, frontier, reachable, client>>

Well(playbook) ==
  /\ ReferencesResolve(playbook)
  /\ RequiresResolve(playbook)
  /\ StepsNamed(playbook)

LintNext ==
  /\ phase = "lint"
  /\ \/ ~Well(Current) /\ Refuse
     \/ /\ Well(Current)
        /\ phase' = "walk"
        /\ frontier' = {PositionOf(Current, Current.entry_operation)}
        /\ reachable' = {}
        /\ UNCHANGED <<files, linted, client>>

Successors(playbook, i) ==
  {j \in Positions(playbook) :
     playbook.steps[j].operation_id \in NextOperations(playbook, i)}

(* Visited positions are dropped, or a chain with a cycle never ends.      *)
PushedListOrder(i) ==
  (frontier \ {i}) \cup (IF i \in reachable THEN {} ELSE {i + 1} \cap Positions(Current))

Pushed(i) ==
  (frontier \ {i}) \cup (IF i \in reachable THEN {} ELSE Successors(Current, i))

Visit ==
  /\ phase = "walk"
  /\ \E i \in frontier : /\ frontier' = Pushed(i)
                         /\ reachable' = reachable \cup {i}
  /\ UNCHANGED <<files, phase, linted, client>>

Accepts(playbook) ==
  /\ Positions(playbook) \subseteq reachable
  /\ DestructiveDeclared(playbook)

Judge ==
  /\ phase = "walk"
  /\ frontier = {}
  /\ \/ ~Accepts(Current) /\ Refuse
     \/ /\ Accepts(Current)
        /\ linted' = linted + 1
        /\ phase' = IF linted' = Len(files) THEN "serving" ELSE "lint"
        /\ UNCHANGED <<files, frontier, reachable, client>>

----------------------------------------------------------------------------
Calls(operation) ==
  /\ at' = operation
  /\ mode' = "calling"
  /\ landed' = 0
  /\ tail' = None

Ends(how) ==
  /\ mode' = how
  /\ UNCHANGED <<at, landed, tail>>

(* The caller's own step, as get_playbook shows it.                        *)
Own == [chain |-> chain, index |-> PositionOf(files[chain], at)]

OwnFailure == StepAt(files, Own).on_failure

Start ==
  /\ phase = "serving" /\ mode = "idle"
  /\ \E c \in DOMAIN files : /\ chain' = c
                             /\ Calls(files[c].entry_operation)
  /\ UNCHANGED server

Lands == landed' = IF landed < 2 THEN landed + 1 ELSE landed

Succeed ==
  /\ mode = "calling"
  /\ mode' = "succeeded"
  /\ Lands
  /\ UNCHANGED <<server, chain, at, tail>>

(* No hint, or one that leaves the caller's chain out, means that the      *)
(* chain is over; one step's hint is followed; several chains' hint sends  *)
(* the caller to the runbook of its own.                                   *)
GoOn ==
  /\ mode = "succeeded"
  /\ LET hint == SuccessHint(files, at) IN
     \/ chain \notin hint.in /\ Ends("done")
     \/ /\ chain \in hint.in
        /\ \E o \in IF hint.step # None THEN hint.next
                    ELSE NextOperations(files[chain], Own.index) : Calls(o)
  /\ UNCHANGED <<server, chain>>

(* A failed call's text carries the tail when the upstream could not be    *)
(* reached or answered with an error; not when the arguments were refused  *)
(* or the envelope could not be built.  Refused ones have no effect.       *)
Ambiguous == {"upstream_unreachable", "upstream_error"}

Failures == Ambiguous \cup {"invalid_arguments", "internal_error"}

Fail ==
  /\ mode = "calling"
  /\ mode' = "failed"
  /\ \E kind \in Failures :
       /\ tail' = IF kind \in Ambiguous THEN FailureHint(files, at) ELSE None
       /\ UNCHANGED landed \/ (kind # "invalid_arguments" /\ Lands)
  /\ UNCHANGED <<server, chain, at>>

(* What the tail leaves open, the runbook of the caller's own chain says.  *)
Verifier ==
  IF tail.verify_with # None THEN tail.verify_with
  ELSE IF OwnFailure # None THEN OwnFailure.verify_with ELSE None

Retry ==
  /\ mode = "failed" /\ tail # None
  /\ tail.idempotent
  /\ mode' = "calling" /\ tail' = None
  /\ UNCHANGED <<server, chain, at, landed>>

Verify ==
  /\ mode = "failed" /\ tail # None
  /\ ~tail.idempotent
  /\ Verifier # None
  /\ mode' = IF landed > 0 THEN "succeeded" ELSE "calling"
  /\ tail' = None
  /\ UNCHANGED <<server, chain, at, landed>>

GiveUp ==
  /\ mode = "failed"
  /\ Ends("gave up")
  /\ UNCHANGED <<server, chain>>

----------------------------------------------------------------------------
Boot == Load \/ LintNext \/ Visit \/ Judge

Next == Boot \/ Start \/ Succeed \/ GoOn \/ Fail \/ Retry \/ Verify \/ GiveUp

Spec == Init /\ [][Next]_vars

----------------------------------------------------------------------------
(* Every step of the chain can be reached: a set of positions that holds   *)
(* the entry and every successor of its members holds them all.            *)
Closed(playbook, S) ==
  /\ PositionOf(playbook, playbook.entry_operation) \in S
  /\ \A i \in S : Successors(playbook, i) \subseteq S

Connected(playbook) ==
  \A S \in SUBSET Positions(playbook) : Closed(playbook, S) => S = Positions(playbook)

Sound(playbook) ==
  Well(playbook) /\ Connected(playbook) /\ DestructiveDeclared(playbook)

(* The server serves exactly the sound sets of playbooks: whatever order   *)
(* the walk takes, it neither lets a chain with an unreachable step        *)
(* through nor refuses one whose steps all are.                            *)
BootExact ==
  /\ phase = "serving" => NamesUnique(files) /\ \A c \in DOMAIN files : Sound(files[c])
  /\ phase = "refused" => ~(NamesUnique(files) /\ \A c \in DOMAIN files : Sound(files[c]))

(* Following the answers never leads out of the chain the client is in,    *)
(* although the server cannot know which one that is.                      *)
StaysInChain == mode # "idle" => at \in OperationsOf(files[chain])

(* A client that stops because nothing more is asked of it has come to the *)
(* end of its own chain, not of another one with the same operation.       *)
DoneMeansOver == mode = "done" => IsFinal(files[chain], Own.index)

(* Each clause of an error's tail is true of the step the client is at, if *)
(* that step says anything, whichever chains the tail was merged from.     *)
TailTrueOfOwnStep ==
  mode = "failed" /\ tail # None /\ OwnFailure # None =>
    /\ tail.idempotent => OwnFailure.idempotent
    /\ tail.verify_with \in {None, OwnFailure.verify_with}
    /\ tail.left_behind \in {None, OwnFailure.left_behind}
    /\ OwnFailure.ask_user => tail.ask_user

(* The point of the tail: no effect that may not be repeated takes place   *)
(* twice, however often its call failed with or without taking effect.     *)
NoDuplicateWrite ==
  landed = 2 /\ OwnFailure # None => OwnFailure.idempotent

(* README.md says of an operation in several chains: "the error text keeps *)
(* only the clauses every candidate agrees on".  A chain that declares no  *)
(* on_failure agrees on nothing.                                           *)
IdempotentForEveryCandidate ==
  mode = "failed" /\ tail # None /\ tail.idempotent =>
    \A r \in StepsFor(files, at) :
      /\ StepAt(files, r).on_failure # None
      /\ StepAt(files, r).on_failure.idempotent
=============================================================================
