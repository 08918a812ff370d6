---------------------------- MODULE ChainsProofs ----------------------------
(***************************************************************************)
(* The boot decides correctly about every set of playbook files, and a     *)
(* client that follows the hints stays in its chain, ends where the chain  *)
(* ends and repeats nothing that may not be repeated.                      *)
(*                                                                         *)
(* The walk's invariant: what was visited or waits to be visited lies in   *)
(* every closed set of positions, and is itself closed once nothing waits. *)
(* The client's: its operation is a step of its chain, so its own step is  *)
(* one of those a hint was merged from.                                    *)
(***************************************************************************)
EXTENDS Chains, TLAPS

Seen == frontier \cup reachable

Walk(playbook) ==
  /\ Well(playbook)
  /\ Seen \subseteq Positions(playbook)
  /\ PositionOf(playbook, playbook.entry_operation) \in Seen
  /\ \A i \in reachable : Successors(playbook, i) \subseteq Seen
  /\ \A S \in SUBSET Positions(playbook) : Closed(playbook, S) => Seen \subseteq S

AllSound == NamesUnique(files) /\ \A c \in DOMAIN files : Sound(files[c])

IInv ==
  /\ files \in Configurations
  /\ linted \in 0 .. Len(files)
  /\ phase \in {"load", "lint", "walk", "serving", "refused"}
  /\ phase \in {"lint", "walk", "serving"} => NamesUnique(files)
  /\ \A c \in 1 .. linted : Sound(files[c])
  /\ phase = "load" => linted = 0
  /\ phase = "lint" => linted < Len(files)
  /\ phase = "walk" => linted < Len(files) /\ Walk(Current)
  /\ phase = "serving" => linted = Len(files)
  /\ phase = "refused" => ~AllSound

----------------------------------------------------------------------------
(* A position found for an operation of a playbook is one of its positions. *)
LEMMA PositionFound ==
  ASSUME NEW playbook, NEW o \in OperationsOf(playbook)
  PROVE  /\ PositionOf(playbook, o) \in Positions(playbook)
         /\ playbook.steps[PositionOf(playbook, o)].operation_id = o
<1>1. PICK i \in Positions(playbook) : playbook.steps[i].operation_id = o
  BY DEF OperationsOf
<1>2. QED
  BY <1>1 DEF PositionOf

(* In a playbook whose steps are named, every hint's next is a step.       *)
LEMMA NextInPlaybook ==
  ASSUME NEW playbook, StepsNamed(playbook), NEW i \in Positions(playbook)
  PROVE  NextOperations(playbook, i) \subseteq OperationsOf(playbook)
<1>1. playbook.steps[i].then \subseteq OperationsOf(playbook)
  BY DEF StepsNamed
<1>2. {playbook.steps[j].operation_id : j \in Positions(playbook) \cap {i + 1}}
        \subseteq OperationsOf(playbook)
  BY DEF OperationsOf
<1>3. QED
  BY <1>1, <1>2 DEF NextOperations

LEMMA SuccessorsInPlaybook ==
  ASSUME NEW playbook, NEW i \in Positions(playbook)
  PROVE  Successors(playbook, i) \subseteq Positions(playbook)
BY DEF Successors

(* A walk that has ended accepts exactly the connected playbooks.          *)
LEMMA WalkDecides ==
  ASSUME NEW playbook, Walk(playbook), frontier = {}
  PROVE  Positions(playbook) \subseteq reachable <=> Connected(playbook)
<1>1. /\ Seen = reachable
      /\ reachable \in SUBSET Positions(playbook)
      /\ Closed(playbook, reachable)
  BY DEF Walk, Seen, Closed
<1>2. ASSUME Positions(playbook) \subseteq reachable
      PROVE  Connected(playbook)
  BY <1>1, <1>2 DEF Walk, Connected
<1>3. ASSUME Connected(playbook)
      PROVE  Positions(playbook) \subseteq reachable
  BY <1>1, <1>3 DEF Connected
<1>4. QED
  BY <1>2, <1>3

(* A walk starts at the entry, which every closed set holds.               *)
LEMMA WalkStarts ==
  ASSUME NEW playbook, Well(playbook),
         frontier' = {PositionOf(playbook, playbook.entry_operation)},
         reachable' = {}
  PROVE  Walk(playbook)'
<1>1. Seen' = {PositionOf(playbook, playbook.entry_operation)}
  BY DEF Seen
<1>2. PositionOf(playbook, playbook.entry_operation) \in Positions(playbook)
  BY PositionFound DEF Well, StepsNamed, StepsDistinct
<1>3. QED
  BY <1>1, <1>2 DEF Walk, Closed

(* A visited position only adds its successors, which every closed set     *)
(* that holds it holds too.                                                *)
LEMMA VisitKeepsWalk ==
  ASSUME NEW playbook, playbook = Current, Walk(playbook), Visit
  PROVE  Walk(playbook)'
<1>1. PICK i \in frontier : frontier' = Pushed(i) /\ reachable' = reachable \cup {i}
  BY DEF Visit
<1>2. Pushed(i) = (frontier \ {i}) \cup
                    (IF i \in reachable THEN {} ELSE Successors(playbook, i))
  BY DEF Pushed
<1>3. i \in Positions(playbook)
  BY DEF Walk, Seen
<1>4. Successors(playbook, i) \subseteq Positions(playbook)
  BY <1>3, SuccessorsInPlaybook
<1>5. Seen \subseteq Seen' /\ Seen' \subseteq Seen \cup Successors(playbook, i)
  BY <1>1, <1>2 DEF Seen
<1>6. Successors(playbook, i) \subseteq Seen'
  BY <1>1, <1>2, <1>5 DEF Walk, Seen
<1>7. Seen' \subseteq Positions(playbook)
  BY <1>4, <1>5 DEF Walk
<1>8. PositionOf(playbook, playbook.entry_operation) \in Seen'
  BY <1>5 DEF Walk
<1>9. \A j \in reachable' : Successors(playbook, j) \subseteq Seen'
  BY <1>1, <1>5, <1>6 DEF Walk
<1>10. \A S \in SUBSET Positions(playbook) : Closed(playbook, S) => Seen' \subseteq S
  <2>1. TAKE S \in SUBSET Positions(playbook)
  <2>2. HAVE Closed(playbook, S)
  <2>3. Seen \subseteq S
    BY <2>2 DEF Walk
  <2>4. Successors(playbook, i) \subseteq S
    BY <2>2, <2>3 DEF Closed, Seen
  <2>5. QED
    BY <1>5, <2>3, <2>4
<1>11. QED
  BY <1>7, <1>8, <1>9, <1>10 DEF Walk

----------------------------------------------------------------------------
LEMMA InitInvariant == Init => IInv
<1>1. SUFFICES ASSUME Init PROVE IInv
  OBVIOUS
<1>2. Len(files) \in Nat
  BY <1>1, ConfigurationsAssumption DEF Init
<1>3. QED
  BY <1>1, <1>2 DEF Init, IInv

(* The current file, while there is one left.                              *)
LEMMA CurrentIsAFile ==
  ASSUME IInv, linted < Len(files)
  PROVE  linted + 1 \in DOMAIN files /\ Len(files) \in Nat /\ linted \in Nat
BY ConfigurationsAssumption DEF IInv

LEMMA RefusalJustified ==
  ASSUME IInv, Refuse, ~AllSound
  PROVE  IInv'
<1>1. AllSound' <=> AllSound
  BY DEF Refuse, AllSound
<1>2. QED
  BY <1>1 DEF IInv, Refuse

LEMMA NextInvariant == IInv /\ [Next]_vars => IInv'
<1> SUFFICES ASSUME IInv, [Next]_vars PROVE IInv'
  OBVIOUS
<1>1. CASE Load
  <2>1. CASE ~NamesUnique(files) /\ Refuse
    BY <2>1, RefusalJustified DEF AllSound
  <2>2. CASE ~Refuse \/ NamesUnique(files)
    <3>1. /\ NamesUnique(files) /\ phase = "load"
          /\ phase' = IF files = <<>> THEN "serving" ELSE "lint"
          /\ UNCHANGED <<files, linted, frontier, reachable, client>>
      BY <1>1, <2>2 DEF Load
    <3>2. Len(files) \in Nat /\ DOMAIN files = 1 .. Len(files) /\ linted = 0
      BY <3>1, ConfigurationsAssumption DEF IInv
    <3>3. files # <<>> => 0 < Len(files)
      BY <3>2
    <3>4. QED
      BY <3>1, <3>2, <3>3 DEF IInv
  <2>3. QED
    BY <2>1, <2>2
<1>2. CASE LintNext
  <2>1. phase = "lint" /\ linted < Len(files) /\ linted + 1 \in DOMAIN files
    BY <1>2, CurrentIsAFile DEF LintNext, IInv
  <2>2. CASE ~Well(Current) /\ Refuse
    BY <2>1, <2>2, RefusalJustified DEF AllSound, Sound, Current
  <2>3. CASE Well(Current) /\ UNCHANGED <<files, linted, client>>
    <3>1. PICK p : p = Current
      OBVIOUS
    <3>2. Walk(p)' /\ phase' = "walk"
      BY <1>2, <2>3, <3>1, WalkStarts DEF LintNext, Refuse
    <3>3. QED
      BY <2>1, <2>3, <3>1, <3>2 DEF IInv, Current
  <2>4. QED
    BY <1>2, <2>2, <2>3 DEF LintNext
<1>3. CASE Visit
  <2>1. PICK p : p = Current
    OBVIOUS
  <2>2. Walk(p)'
    BY <1>3, <2>1, VisitKeepsWalk DEF IInv, Visit
  <2>3. QED
    BY <1>3, <2>1, <2>2 DEF IInv, Visit, Current
<1>4. CASE Judge
  <2>1. /\ phase = "walk" /\ linted < Len(files) /\ Walk(Current)
        /\ linted + 1 \in DOMAIN files /\ Len(files) \in Nat /\ linted \in Nat
        /\ frontier = {}
    BY <1>4, CurrentIsAFile DEF Judge, IInv
  <2>2. Accepts(Current) <=> Sound(Current)
    <3>1. PICK p : p = Current
      OBVIOUS
    <3>2. Accepts(p) <=> Sound(p)
      BY <2>1, <3>1, WalkDecides DEF Accepts, Sound, Walk
    <3>3. QED
      BY <3>1, <3>2
  <2>3. CASE ~Accepts(Current) /\ Refuse
    BY <2>1, <2>2, <2>3, RefusalJustified DEF AllSound, Current
  <2>4. CASE /\ Accepts(Current) /\ linted' = linted + 1
             /\ phase' = IF linted' = Len(files) THEN "serving" ELSE "lint"
             /\ UNCHANGED <<files, frontier, reachable, client>>
    <3>1. \A c \in 1 .. linted' : Sound(files[c])
      BY <2>1, <2>2, <2>4 DEF IInv, Current
    <3>2. QED
      BY <2>1, <2>4, <3>1 DEF IInv
  <2>5. QED
    BY <1>4, <2>3, <2>4 DEF Judge
<1>5. CASE UNCHANGED server
  BY <1>5 DEF server, IInv, Walk, Seen, Current, AllSound
<1>6. QED
  BY <1>1, <1>2, <1>3, <1>4, <1>5 DEF Next, Boot, Start, Succeed, GoOn, Fail,
    Retry, Verify, GiveUp, vars

(* The boot serves exactly the sound sets of files: for any playbooks and  *)
(* any order of the walk.                                                  *)
THEOREM BootIsExact == Spec => []BootExact
<1>1. IInv => BootExact
  BY ConfigurationsAssumption DEF IInv, BootExact, AllSound
<1>2. QED
  BY <1>1, InitInvariant, NextInvariant, PTL DEF Spec

----------------------------------------------------------------------------
(* What the client relies on between two answers.                          *)
InChain ==
  mode # "idle" => /\ phase = "serving"
                   /\ chain \in DOMAIN files
                   /\ at \in OperationsOf(files[chain])

TailIsHint == mode = "failed" => tail \in {None, FailureHint(files, at)}

MayRepeat == OwnFailure # None => OwnFailure.idempotent

LandedOnce ==
  /\ landed \in 0 .. 2
  /\ mode = "calling" /\ landed > 0 => MayRepeat
  /\ landed = 2 => MayRepeat

ClientInv == IInv /\ InChain /\ DoneMeansOver /\ TailIsHint /\ LandedOnce

(* The client's own step is one of those the server finds.                 *)
LEMMA OwnIsCandidate ==
  ASSUME chain \in DOMAIN files, at \in OperationsOf(files[chain])
  PROVE  Own \in StepsFor(files, at)
<1>1. /\ PositionOf(files[chain], at) \in Positions(files[chain])
      /\ files[chain].steps[PositionOf(files[chain], at)].operation_id = at
  BY PositionFound
<1>2. QED
  BY <1>1 DEF Own, StepsFor

(* What the server finds for an operation are steps of its files.          *)
LEMMA CandidateIsStep ==
  ASSUME NEW fs, NEW o, NEW r \in StepsFor(fs, o)
  PROVE  r.chain \in DOMAIN fs /\ r.index \in Positions(fs[r.chain])
BY DEF StepsFor

(* A hint that states a step names successors of it.                       *)
LEMMA HintOfOneStep ==
  ASSUME NEW fs, NEW o,
         NEW hint, hint = SuccessHint(fs, o), hint.step # None
  PROVE  \E r \in StepsFor(fs, o) :
           hint.in = {r.chain} /\ hint.next = NextOperations(fs[r.chain], r.index)
<1> DEFINE refs == StepsFor(fs, o)
           pending == {r \in refs : ~IsFinal(fs[r.chain], r.index)}
           ref == CHOOSE r \in refs : TRUE
<1>1. pending # {}
  BY DEF SuccessHint, NoHint
<1>2. ref \in refs
  BY <1>1
<1>3. hint = IF Alike(refs)
             THEN [in |-> {ref.chain}, step |-> ref.index,
                   next |-> NextOperations(fs[ref.chain], ref.index)]
             ELSE [in |-> {r.chain : r \in pending}, step |-> None, next |-> {}]
  BY <1>1 DEF SuccessHint
<1>4. CASE Alike(refs)
  <2> HIDE DEF ref
  <2>1. hint.in = {ref.chain} /\ hint.next = NextOperations(fs[ref.chain], ref.index)
    BY <1>3, <1>4
  <2>2. QED
    BY <1>2, <2>1
<1>5. CASE ~Alike(refs)
  BY <1>3, <1>5
<1>6. QED
  BY <1>4, <1>5

(* A candidate that declares something agrees with each clause of the tail. *)
LEMMA TailAgreed ==
  ASSUME NEW fs, NEW o, NEW own \in StepsFor(fs, o),
         NEW hint, hint = FailureHint(fs, o), hint # None,
         NEW failure, failure = StepAt(fs, own).on_failure, failure # None
  PROVE  /\ hint.idempotent => failure.idempotent
         /\ hint.verify_with \in {None, failure.verify_with}
         /\ hint.left_behind \in {None, failure.left_behind}
         /\ failure.ask_user => hint.ask_user
<1> DEFINE refs == StepsFor(fs, o)
           declared == {StepAt(fs, r).on_failure : r \in refs} \ {None}
<1>1. failure \in declared
  OBVIOUS
<1>2. hint = IF Alike(refs) THEN CHOOSE f \in declared : TRUE ELSE Merged(declared)
  BY <1>1 DEF FailureHint
<1>3. CASE Alike(refs)
  <2>1. (CHOOSE f \in declared : TRUE) \in declared
    BY <1>1
  <2>2. hint = failure
    BY <1>2, <1>3, <2>1 DEF Alike
  <2>3. QED
    BY <2>2
<1>4. CASE ~Alike(refs)
  <2> HIDE DEF declared
  <2>1. hint = Merged(declared)
    BY <1>2, <1>4
  <2>2. ASSUME NEW values, NEW v \in values
        PROVE  Agreed(values) \in {None, v}
    BY <2>2 DEF Agreed, Alike
  <2>3. hint.verify_with \in {None, failure.verify_with}
    BY <1>1, <2>1, <2>2 DEF Merged
  <2>4. hint.left_behind \in {None, failure.left_behind}
    BY <1>1, <2>1, <2>2 DEF Merged
  <2>5. hint.idempotent = \A f \in declared : f.idempotent
    BY <2>1 DEF Merged
  <2>6. hint.ask_user = \E f \in declared : f.ask_user
    BY <2>1 DEF Merged
  <2>7. QED
    BY <1>1, <2>3, <2>4, <2>5, <2>6
<1>5. QED
  BY <1>3, <1>4

(* The same, of the client's tail and its own step.                        *)
LEMMA OwnTailTrue ==
  ASSUME InChain, TailIsHint
  PROVE  TailTrueOfOwnStep
<1> SUFFICES ASSUME mode = "failed", tail # None, OwnFailure # None
             PROVE  /\ tail.idempotent => OwnFailure.idempotent
                    /\ tail.verify_with \in {None, OwnFailure.verify_with}
                    /\ tail.left_behind \in {None, OwnFailure.left_behind}
                    /\ OwnFailure.ask_user => tail.ask_user
  BY DEF TailTrueOfOwnStep
<1>1. Own \in StepsFor(files, at)
  BY OwnIsCandidate DEF InChain
<1>2. tail = FailureHint(files, at)
  BY DEF TailIsHint
<1>3. QED
  BY <1>1, <1>2, TailAgreed DEF OwnFailure

(* A client that goes on takes a step of its chain; one that stops has     *)
(* come to the chain's end.                                                *)
LEMMA GoOnStays ==
  ASSUME IInv, InChain, GoOn
  PROVE  InChain' /\ DoneMeansOver'
<1> DEFINE hint == SuccessHint(files, at)
<1>1. /\ mode = "succeeded" /\ phase = "serving" /\ chain \in DOMAIN files
      /\ at \in OperationsOf(files[chain])
      /\ UNCHANGED <<files, phase, chain>>
  BY DEF GoOn, InChain, server
<1>2. \A c \in DOMAIN files : StepsNamed(files[c])
  BY <1>1, ConfigurationsAssumption DEF IInv, Sound, Well
<1>3. Own \in StepsFor(files, at) /\ Own.chain = chain
  BY <1>1, OwnIsCandidate DEF Own
<1>4. CASE chain \notin hint.in
  <2>1. IsFinal(files[chain], Own.index)
    <3> DEFINE refs == StepsFor(files, at)
               pending == {r \in refs : ~IsFinal(files[r.chain], r.index)}
               ref == CHOOSE r \in refs : TRUE
    <3>1. SUFFICES ASSUME Own \in pending PROVE FALSE
      BY <1>3
    <3>2. hint.in = IF Alike(refs) THEN {ref.chain} ELSE {r.chain : r \in pending}
      BY <3>1 DEF SuccessHint
    <3>3. CASE Alike(refs)
      <4>1. ref = Own
        BY <1>3, <3>3 DEF Alike
      <4>2. QED
        BY <1>3, <1>4, <3>2, <3>3, <4>1
    <3>4. CASE ~Alike(refs)
      BY <1>3, <1>4, <3>1, <3>2, <3>4
    <3>5. QED
      BY <3>3, <3>4
  <2>2. mode' = "done" /\ at' = at
    BY <1>4 DEF GoOn, Ends
  <2>3. QED
    BY <1>1, <2>1, <2>2 DEF InChain, DoneMeansOver, Own
<1>5. CASE chain \in hint.in
  <2>1. PICK o \in IF hint.step # None THEN hint.next
                   ELSE NextOperations(files[chain], Own.index) : Calls(o)
    BY <1>5 DEF GoOn
  <2>2. o \in OperationsOf(files[chain])
    <3>1. CASE hint.step # None
      <4>1. PICK r \in StepsFor(files, at) :
              hint.in = {r.chain} /\ hint.next = NextOperations(files[r.chain], r.index)
        BY <1>5, <3>1, HintOfOneStep
      <4>2. r.chain = chain /\ r.index \in Positions(files[chain])
        BY <1>5, <4>1, CandidateIsStep
      <4>3. QED
        BY <1>1, <1>2, <2>1, <3>1, <4>1, <4>2, NextInPlaybook
    <3>2. CASE hint.step = None
      <4>1. Own.index \in Positions(files[chain])
        BY <1>3, CandidateIsStep
      <4>2. QED
        BY <1>1, <1>2, <2>1, <3>2, <4>1, NextInPlaybook
    <3>3. QED
      BY <3>1, <3>2
  <2>3. QED
    BY <1>1, <2>1, <2>2 DEF InChain, DoneMeansOver, Calls
<1>6. QED
  BY <1>4, <1>5

(* The four steps that leave the client at its operation.                  *)
LEMMA SameOperation ==
  ASSUME ClientInv, UNCHANGED <<server, chain, at>>, mode # "idle", mode' # "idle",
         mode' # "done"
  PROVE  InChain' /\ DoneMeansOver' /\ (MayRepeat' <=> MayRepeat)
BY DEF ClientInv, InChain, DoneMeansOver, MayRepeat, OwnFailure, Own, server

LEMMA ClientInvariant == ClientInv /\ [Next]_vars => ClientInv'
<1> SUFFICES ASSUME ClientInv, [Next]_vars PROVE ClientInv'
  OBVIOUS
<1>0. IInv'
  BY NextInvariant DEF ClientInv
<1>1. CASE Boot
  <2>1. mode = "idle" /\ UNCHANGED client
    BY <1>1 DEF Boot, Load, LintNext, Visit, Judge, Refuse, ClientInv, InChain
  <2>2. files' = files
    BY <1>1 DEF Boot, Load, LintNext, Visit, Judge, Refuse
  <2>3. QED
    BY <1>0, <2>1, <2>2 DEF ClientInv, client, InChain, DoneMeansOver, TailIsHint,
      LandedOnce, MayRepeat, OwnFailure, Own
<1>2. CASE Start
  <2>1. PICK c \in DOMAIN files : chain' = c /\ Calls(files[c].entry_operation)
    BY <1>2 DEF Start
  <2>2. /\ mode' = "calling" /\ landed' = 0 /\ at' = files[c].entry_operation
        /\ phase' = "serving" /\ files' = files
    BY <1>2, <2>1 DEF Start, Calls, server
  <2>3. files[c].entry_operation \in OperationsOf(files[c])
    BY <1>2, <2>1, ConfigurationsAssumption
       DEF Start, ClientInv, IInv, Sound, Well, StepsNamed, StepsDistinct
  <2>4. QED
    BY <1>0, <2>1, <2>2, <2>3 DEF ClientInv, InChain, DoneMeansOver, TailIsHint, LandedOnce
<1>3. CASE Succeed
  <2>1. /\ mode = "calling" /\ mode' = "succeeded" /\ UNCHANGED <<server, chain, at>>
        /\ landed' = IF landed < 2 THEN landed + 1 ELSE landed
    BY <1>3 DEF Succeed, Lands
  <2>2. InChain' /\ DoneMeansOver' /\ (MayRepeat' <=> MayRepeat)
    BY <2>1, SameOperation
  <2>3. QED
    BY <1>0, <2>1, <2>2 DEF ClientInv, TailIsHint, LandedOnce
<1>4. CASE GoOn
  <2>1. InChain' /\ DoneMeansOver'
    BY <1>4, GoOnStays DEF ClientInv
  <2>2. \/ landed' = 0 /\ mode' = "calling"
        \/ UNCHANGED <<landed, files, chain, at>> /\ mode' = "done"
    BY <1>4 DEF GoOn, Calls, Ends, server
  <2>3. QED
    BY <1>0, <2>1, <2>2 DEF ClientInv, TailIsHint, LandedOnce, MayRepeat, OwnFailure, Own
<1>5. CASE Fail
  <2>1. /\ mode = "calling" /\ mode' = "failed" /\ UNCHANGED <<server, chain, at>>
        /\ tail' \in {None, FailureHint(files, at)}
        /\ landed' \in {landed, IF landed < 2 THEN landed + 1 ELSE landed}
    BY <1>5 DEF Fail, Lands
  <2>2. InChain' /\ DoneMeansOver' /\ (MayRepeat' <=> MayRepeat)
    BY <2>1, SameOperation
  <2>3. QED
    BY <1>0, <2>1, <2>2 DEF ClientInv, TailIsHint, LandedOnce, server
<1>6. CASE Retry
  <2>1. /\ mode = "failed" /\ mode' = "calling" /\ UNCHANGED <<server, chain, at, landed>>
        /\ tail # None /\ tail.idempotent
    BY <1>6 DEF Retry
  <2>2. InChain' /\ DoneMeansOver' /\ (MayRepeat' <=> MayRepeat)
    BY <2>1, SameOperation
  <2>3. MayRepeat
    BY <2>1, OwnTailTrue DEF ClientInv, TailTrueOfOwnStep, MayRepeat
  <2>4. QED
    BY <1>0, <2>1, <2>2, <2>3 DEF ClientInv, TailIsHint, LandedOnce
<1>7. CASE Verify
  <2>1. /\ mode = "failed" /\ mode' = IF landed > 0 THEN "succeeded" ELSE "calling"
        /\ UNCHANGED <<server, chain, at, landed>>
    BY <1>7 DEF Verify
  <2>2. InChain' /\ DoneMeansOver' /\ (MayRepeat' <=> MayRepeat)
    BY <2>1, SameOperation
  <2>3. QED
    BY <1>0, <2>1, <2>2 DEF ClientInv, TailIsHint, LandedOnce
<1>8. CASE GiveUp
  <2>1. /\ mode = "failed" /\ mode' = "gave up"
        /\ UNCHANGED <<server, chain, at, landed>>
    BY <1>8 DEF GiveUp, Ends
  <2>2. InChain' /\ DoneMeansOver' /\ (MayRepeat' <=> MayRepeat)
    BY <2>1, SameOperation
  <2>3. QED
    BY <1>0, <2>1, <2>2 DEF ClientInv, TailIsHint, LandedOnce
<1>9. CASE UNCHANGED vars
  BY <1>0, <1>9 DEF vars, server, client, ClientInv, InChain, DoneMeansOver, TailIsHint,
    LandedOnce, MayRepeat, OwnFailure, Own
<1>10. QED
  BY <1>1, <1>2, <1>3, <1>4, <1>5, <1>6, <1>7, <1>8, <1>9 DEF Next

LEMMA ClientInitially == Init => ClientInv
BY InitInvariant DEF Init, ClientInv, InChain, DoneMeansOver, TailIsHint, LandedOnce

(* Following the hints never leads out of a chain, whatever the playbooks  *)
(* share.                                                                  *)
THEOREM HintsStayInChain == Spec => []StaysInChain
<1>1. ClientInv => StaysInChain
  BY DEF ClientInv, InChain, StaysInChain
<1>2. QED
  BY <1>1, ClientInitially, ClientInvariant, PTL DEF Spec

(* A client that the server sends no further is at the end of its chain.   *)
THEOREM DoneOnlyAtTheEnd == Spec => []DoneMeansOver
<1>1. ClientInv => DoneMeansOver
  BY DEF ClientInv
<1>2. QED
  BY <1>1, ClientInitially, ClientInvariant, PTL DEF Spec

(* However often calls fail, with or without effect, and whichever chains  *)
(* a tail was merged from, what must not be repeated is not.               *)
THEOREM NothingRepeated == Spec => [](TailTrueOfOwnStep /\ NoDuplicateWrite)
<1>1. ClientInv => TailTrueOfOwnStep /\ NoDuplicateWrite
  BY OwnTailTrue DEF ClientInv, LandedOnce, MayRepeat, NoDuplicateWrite
<1>2. QED
  BY <1>1, ClientInitially, ClientInvariant, PTL DEF Spec

ModeOK == mode \in {"idle", "calling", "succeeded", "failed", "done", "gave up"}

LEMMA ModesStay == ModeOK /\ [Next]_vars => ModeOK'
BY DEF ModeOK, Next, Boot, Load, LintNext, Visit, Judge, Refuse, Start, Succeed, GoOn, Fail,
       Retry, Verify, GiveUp, Calls, Ends, vars, server, client

(* The type invariant: the walk stays among the steps of the file being    *)
(* linted, and a client is only ever at an operation the server serves,    *)
(* because every file that is served was found to name no other.           *)
THEOREM ChainsTypeCorrect == Spec => []TypeOK
<1>1. ClientInv /\ ModeOK => TypeOK
  <2> SUFFICES ASSUME ClientInv, ModeOK PROVE TypeOK
    OBVIOUS
  <2>1. ASSUME phase = "walk"
        PROVE  /\ linted < Len(files)
               /\ frontier \cup reachable \subseteq Positions(files[linted + 1])
    BY <2>1 DEF ClientInv, IInv, Walk, Seen, Current
  <2>2. ASSUME mode # "idle"
        PROVE  chain \in DOMAIN files /\ at \in Registered
    <3>1. /\ phase = "serving" /\ chain \in DOMAIN files
          /\ at \in OperationsOf(files[chain])
      BY <2>2 DEF ClientInv, InChain
    <3>2. chain \in 1 .. linted
      BY <3>1, ConfigurationsAssumption DEF ClientInv, IInv
    <3>3. ReferencesResolve(files[chain])
      BY <3>2 DEF ClientInv, IInv, Sound, Well
    <3> QED
      BY <3>1, <3>3 DEF ReferencesResolve, References
  <2> QED
    BY <2>1, <2>2 DEF ClientInv, IInv, LandedOnce, ModeOK, TypeOK
<1>2. Init => ModeOK
  BY DEF Init, ModeOK
<1>3. QED
  BY <1>1, <1>2, ModesStay, ClientInitially, ClientInvariant, PTL DEF Spec

=============================================================================
