----------------------------- MODULE Admission ------------------------------
(***************************************************************************)
(* The whole: requests are reviewed by the process that registers itself.  *)
(*                                                                         *)
(* Which requests the API server asks about is what is registered at the   *)
(* time.  Its call reaches a handler if the process listens with a         *)
(* certificate the API server trusts.  Handlers end with the process; a    *)
(* reload of the certificate waits for them.                               *)
(***************************************************************************)
EXTENDS Startup

CONSTANTS
  Call, Body, Config, Absent, NoRequest, Resource, TypeOf, Lower, NoSpec,
  LabelsOn, ImmutablesOn, ExclusivesOn, Listing \* as in ApiServer and Rules

VARIABLES
  store, rules, pc, req, stale, seen, at, local, \* as in ApiServer and Validator
  served,     \* the calls that have a handler in the process
  undisturbed \* the calls made while the process answered and not cut off since

reviewVars    == <<store, rules, pc, req, stale, seen, at, local>>
admissionVars == <<vars, reviewVars, served, undisturbed>>

\* The rules of every validating configuration, the process's own or not.
Reviewed ==
  UNION {Pairs(registered[o].rules) :
           o \in {p \in Configuration : p[1] = "validating" /\ registered[p] # None}}

Asking == {"CREATE", "UPDATE", "DELETE"} \X Resource

Review ==
  INSTANCE Promises
    WITH watched <- Reviewed, NetworkFaults <- TRUE, Registrations <- SUBSET Asking

\* Both components are given what they suppose, and the files ask for
\* operations on the resources there are.
ASSUME ReviewAssumption ==
  /\ Review!NamesAssumption /\ Review!SwitchAssumption
  /\ Review!RulesAssumption /\ Review!BodiesAssumption
ASSUME PairsAssumption ==
  /\ \A f \in Files : \A t \in WebhookType : Listed(f[t]) \subseteq Asking
  /\ \A list \in Edits : Pairs(list) \subseteq Asking

\* The API server's call gets through to /validate.
Reaches ==
  /\ server.loaded # None /\ server.loaded.age <= Lifetime
  /\ \E o \in DOMAIN server.built :
       /\ o[1] = "validating" /\ registered[o] # None
       /\ registered[o].ca = server.loaded.ca

AdmissionInit ==
  /\ Init /\ Review!Init
  /\ served = {} /\ undisturbed = {}

-----------------------------------------------------------------------------
Arrive(c) ==
  /\ UNCHANGED vars
  /\ Review!Begin(c)
  /\ served' = IF pc'[c] = "review" /\ Reaches THEN served \cup {c} ELSE served
  /\ undisturbed' = IF Answers THEN undisturbed \cup {c} ELSE undisturbed

\* A handler returns its verdict, or goes on.
Handle(c) ==
  /\ c \in served
  /\ UNCHANGED <<vars, undisturbed>>
  /\ Review!Handler(c)
  /\ served' = IF pc'[c] = "review" THEN served ELSE served \ {c}

\* A call that did not get through would be made again.
LostAskedAgain(c) ==
  /\ c \notin served
  /\ pc[c] = "review"
  /\ at' = [at EXCEPT ![c] = "labels"]
  /\ local' = [local EXCEPT ![c] = Review!Blank]
  /\ UNCHANGED <<vars, store, rules, pc, req, stale, seen, served, undisturbed>>

\* The call was refused, or its handler is gone.  (Calls that fail although
\* there is a handler are in Validator.)
Lost(c) ==
  /\ c \notin served
  /\ UNCHANGED <<vars, served, undisturbed>>
  /\ Review!CallFails(c)

Finish(c) ==
  /\ UNCHANGED <<vars, served>>
  /\ Review!End(c)
  /\ undisturbed' = undisturbed \ {c}

NewRules ==
  /\ UNCHANGED <<vars, at, local, served, undisturbed>>
  /\ Review!ChangeRules

SurvivingWithoutDrain == IF server'.loaded = None THEN {} ELSE served

\* The handlers that outlive a step of the process.
Surviving == IF server'.phase = "down" THEN {} ELSE served

\* Shutdown waits for the handlers before the server listens again.
Drained == server.phase = "load" /\ server'.phase = "serving" => served = {}

\* A step of the process and its surroundings.  A request under way is
\* disturbed when the process ends.
Around(step) ==
  /\ step
  /\ Drained
  /\ served' = Surviving
  /\ undisturbed' = IF server'.phase = "down" THEN {} ELSE undisturbed
  /\ UNCHANGED reviewVars

AdmissionNext ==
  \/ Around(Next)
  \/ NewRules
  \/ \E c \in Call : Arrive(c) \/ Handle(c) \/ Lost(c) \/ Finish(c)

AdmissionSpec == AdmissionInit /\ [][AdmissionNext]_admissionVars

\* As in Registration; a handler runs to its end, the API server acts on its
\* answer, and a call that is refused or cut off ends for the API server, at
\* the latest by its timeout.  Users and the administrators owe nothing.
AdmissionFairSpec ==
  /\ AdmissionSpec
  /\ WF_admissionVars(Around(Process))
  /\ WF_admissionVars(Around(SyncMount))
  /\ WF_admissionVars(Around(\E days \in Periods : RefreshCert(days)))
  /\ \A c \in Call : /\ WF_admissionVars(Handle(c))
                     /\ WF_admissionVars(Lost(c))
                     /\ WF_admissionVars(Finish(c))

-----------------------------------------------------------------------------
(***************************************************************************)
(* Requests reviewed by a process that starts, registers, reloads and      *)
(* crashes are reviewed as Validator says, with what is registered now as  *)
(* what is watched: what is shown of a review by itself holds of those of  *)
(* the process (the handlers' goroutines, which end with main).            *)
(***************************************************************************)
ImplementsReview == Review!Spec

ListedNow(c) ==
  \A f \in Files : Built(f) = server.built =>
    FewRules(f.validating) /\ <<req[c].op, req[c].res>> \in Listed(f.validating)

(***************************************************************************)
(* Only an outage lets a listed update through that changes an immutable   *)
(* path: one that was submitted while the process answered and that the    *)
(* process lived through, also through a renewal of the certificate, is    *)
(* neither bypassed nor lost (startWebhookServer's rules, the failure      *)
(* policy, the graceful shutdown of Server.run, validateImmutables).       *)
(***************************************************************************)
OnlyOutagesAdmit ==
  [][\A c \in undisturbed :
       (/\ pc[c] # "idle" /\ pc'[c] = "idle"
        /\ ListedNow(c) /\ Review!Replaced(req[c].res)) =>
         LET kind == TypeOf[req[c].res].kind
         IN  \A q \in UNION {Review!Protected(cfg, kind) : cfg \in Config} :
               (\A cfg \in Config : q \in Review!Protected(cfg, kind)) =>
                 Review!Kept(kind, store[req[c].res].spec, req[c].body.spec, q)]_admissionVars

(***************************************************************************)
(* Every request is answered, whatever becomes of the process that reviews *)
(* it (the exits of main, the failure policy).                             *)
(***************************************************************************)
RequestsOutliveTheProcess ==
  \A c \in Call : pc[c] # "idle" ~> pc[c] = "idle"
=============================================================================
