------------------------------ MODULE Startup -------------------------------
(***************************************************************************)
(* What the process promises about registration, across crashes, edits and *)
(* the renewal of certificates.                                            *)
(***************************************************************************)
EXTENDS Registration, FiniteSets

RulesOf(o) == IF registered[o] = None THEN None ELSE registered[o].rules

Promise ==
  INSTANCE Declaration
    WITH Declarations <- {Built(f) : f \in {g \in Files : Starts(g)}},
         Object <- Configuration, Nowhere <- None, declared <- server.built,
         published <- [o \in Configuration |-> RulesOf(o)],
         changed <- edited \ {Secret}

(***************************************************************************)
(* Create, Get and Update, the crashes between them and between the two    *)
(* configurations, and a Create that finds the work of an earlier process, *)
(* come to publishing one whole declaration at a time (batchCreateOrReplace*)
(* and createOrReplaceHelper behind startWebhookServer).                   *)
(***************************************************************************)
ImplementsDeclaration == Promise!DeclarationSpec

-----------------------------------------------------------------------------
CompleteRules(file) == {i \in DOMAIN file.rules : file.rules[i].complete}

Listed(file) ==
  IF file = Unreadable THEN {}
  ELSE UNION {file.rules[i].pairs : i \in CompleteRules(file)}

FewRules(file) == file # Unreadable /\ Cardinality(CompleteRules(file)) <= 5

(***************************************************************************)
(* While the process serves, a configuration nobody else has changed since *)
(* asks for nothing but what the file of the settings it started with      *)
(* lists, and for all of that when five rules or fewer are complete        *)
(* (checkRules and the switch of buildWebhook).                            *)
(***************************************************************************)
ListedIsReviewed ==
  server.phase = "serving" =>
    \A o \in DOMAIN server.built \ edited :
      /\ registered[o] # None
      /\ \E f \in Files :
           /\ Built(f) = server.built
           /\ Pairs(registered[o].rules) \subseteq Listed(f[o[1]])
           /\ FewRules(f[o[1]]) => Pairs(registered[o].rules) = Listed(f[o[1]])

(***************************************************************************)
(* A certificate too old to be found valid is in use for two refreshes at  *)
(* most: renewed by the first, mounted in time for the second.  A secret   *)
(* deleted in between costs one more.  (validCert, and RefreshCert which   *)
(* reloads even when nothing has changed.)                                 *)
(***************************************************************************)
CertificateReplacedInTime ==
  server.loaded # None =>
    server.loaded.age <= (Lifetime - SixMonths) + (2 + Faults - faults) * Longest

(***************************************************************************)
(* Unless the secret was deleted, the API server trusts the certificate in *)
(* use: the renewed one and the older one that is still mounted have the   *)
(* same CA (SetCA in the secret's reader, EnsureCert before the            *)
(* configurations are written).                                            *)
(***************************************************************************)
TrustedUnlessDeleted ==
  (Secret \notin edited /\ server.loaded # None) =>
    \A o \in DOMAIN server.built :
      registered[o] # None => registered[o].ca = server.loaded.ca

-----------------------------------------------------------------------------
Answers ==
  /\ server.phase = "serving"
  /\ server.loaded.age <= Lifetime
  /\ \E o \in DOMAIN server.built :
       /\ o[1] = "validating"
       /\ registered[o] = [rules |-> server.built[o], ca |-> server.loaded.ca]

\* Settings a process can work with; one refused rule of either file is enough
\* to stop it.
Usable(f) ==
  /\ f.validating # Unreadable /\ Asked(f.validating) # <<>>
  /\ \A o \in DOMAIN Built(f) : Accepted(Built(f)[o])

\* An edit of the files takes effect when the process is started again.
InForce(f) == server.built \in {Nothing, Built(f)}

(***************************************************************************)
(* Whatever was edited, deleted, renewed or stopped, a process with usable *)
(* settings answers again and again: conflicts, a mounted directory that   *)
(* lags behind and a certificate of another CA do not stop it for good     *)
(* (the exits of Start, and RefreshCert).                                  *)
(***************************************************************************)
KeepsAnswering == <>[](Usable(files) /\ InForce(files)) => []<>Answers

-----------------------------------------------------------------------------
(***************************************************************************)
(* A promise of the documentation that is not kept: rules written into the *)
(* registered configuration stay there until somebody writes others.       *)
(* (createOrReplace at every start and refresh.)                           *)
(***************************************************************************)
EditsAreKept ==
  [][\A o \in Configuration :
       (o \in edited /\ registered[o] # None /\ RulesOf(o) # RulesOf(o)') =>
         o \in edited']_vars
=============================================================================
