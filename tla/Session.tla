------------------------------- MODULE Session -------------------------------
(***************************************************************************)
(* A client from the server's URL to its answers: Onboarding until its     *)
(* token is accepted, then the calls and reads of Answer.  The server      *)
(* loads its settings first and refuses to start on bad ones, then lints   *)
(* its manifest; nobody calls a server that has not started, or without a  *)
(* token.                                                                  *)
(***************************************************************************)
EXTENDS Answer, Onboarding

(* What is tried together: an operation, settings, and who comes along.    *)
CONSTANT Deployments

ASSUME SessionAssumption ==
  \A d \in Deployments : d.visitors \subseteq
    [url : Url, forwards : BOOLEAN, origin : Origins \cup {Unset}, redirect : RedirectUris]

SessionInit ==
  /\ \E d \in Deployments : op = d.op /\ settings = d.settings
  /\ Init /\ OnboardingInit

Visit ==
  /\ client = Unset
  /\ \E d \in Deployments :
       /\ settings = d.settings /\ op = d.op
       /\ \E v \in d.visitors : Arrive(v.url, v.forwards, v.origin, v.redirect)

SessionNext ==
  \/ Boot /\ UNCHANGED onboardingVars
  \/ phase = "serving" /\ (Visit \/ Step) /\ UNCHANGED vars
  \/ client # Unset /\ client.at = "in" /\ Calls /\ UNCHANGED onboardingVars

SessionSpec == SessionInit /\ [][SessionNext]_<<vars, onboardingVars>>
=============================================================================
