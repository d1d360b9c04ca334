----------------------------- MODULE ApiServer ------------------------------
(***************************************************************************)
(* The API server as the webhook meets it: it reads the stored object,     *)
(* asks the webhook about the request, and applies an admitted request     *)
(* provided the object is still the one it read.                           *)
(*                                                                         *)
(* The mounted ConfigMap is here too: the kubelet may replace it under a   *)
(* running review.  How a review is decided is left to the modules that    *)
(* extend this one.                                                        *)
(***************************************************************************)
EXTENDS Rules

CONSTANTS
  Call,          \* requests the API server handles at the same time
  Body,          \* contents of a resource: [labels, spec]
  Config,        \* contents of the ConfigMap: [labels, immutables, exclusives]
  Registrations, \* what the webhook may be registered for: sets of <<operation, resource>>
  NetworkFaults, \* TRUE when calls between the parties may fail or time out
  Absent,        \* the content of a resource that does not exist
  NoRequest      \* a call slot that is free

Operation == {"CREATE", "UPDATE", "DELETE"}

Request ==
  [op : {"CREATE", "UPDATE"}, res : Resource, body : Body]
    \cup [op : {"DELETE"}, res : Resource, body : {Absent}]

ASSUME NamesAssumption == /\ Absent \notin Body
                          /\ NoRequest \notin Request
ASSUME SwitchAssumption ==
  {LabelsOn, ImmutablesOn, ExclusivesOn, NetworkFaults} \subseteq BOOLEAN

\* A file that can be read holds a sequence of rules.
ASSUME RulesAssumption ==
  \A cfg \in Config :
    \A list \in {cfg.labels, cfg.immutables, cfg.exclusives} \ {Unreadable} :
      DOMAIN list = 1 .. Len(list)

\* What a spec holds is JSON.
ASSUME BodiesAssumption ==
  \A body \in Body : body.spec # NoSpec =>
    \A p \in DOMAIN body.spec : body.spec[p].json \in JsonKind

VARIABLES
  store,   \* resource -> its content
  rules,   \* the ConfigMap as it is mounted now
  watched, \* what the webhook is registered for now
  pc,      \* call -> how far the request is
  req,     \* call -> the request
  stale,   \* call -> whether the resource was written since the request read it
  seen     \* call -> the ConfigMaps mounted at some time during the review

apiVars == <<store, rules, watched, pc, req, stale, seen>>

Status == {"idle", "review", "allowed", "denied", "failed", "bypassed"}

New(c)    == req[c].body \* the object the request is about to store
Target(c) == req[c].res  \* the resource it is about

ApiTypeOK ==
  /\ store \in [Resource -> Body \cup {Absent}]
  /\ rules \in Config
  /\ watched \in Registrations
  /\ pc \in [Call -> Status]
  /\ req \in [Call -> Request \cup {NoRequest}]
  /\ \A c \in Call : req[c] = NoRequest <=> pc[c] = "idle"
  /\ stale \in [Call -> BOOLEAN]
  /\ seen \in [Call -> SUBSET Config]

ApiInit ==
  /\ store \in [Resource -> Body \cup {Absent}]
  /\ rules \in Config
  /\ watched \in Registrations
  /\ pc = [c \in Call |-> "idle"]
  /\ req = [c \in Call |-> NoRequest]
  /\ stale = [c \in Call |-> FALSE]
  /\ seen = [c \in Call |-> {}]

-----------------------------------------------------------------------------
\* buildWebhook sets no failure policy: the API's default applies.
FailurePolicy == "Ignore"

\* A user creates, updates or deletes a resource.  The webhook is asked when
\* it is registered for the operation on the resource.
Submit(c, r) ==
  /\ pc[c] = "idle"
  /\ (r.op = "CREATE") = (store[r.res] = Absent)
  /\ req' = [req EXCEPT ![c] = r]
  /\ IF <<r.op, r.res>> \in watched
     THEN /\ pc' = [pc EXCEPT ![c] = "review"]
          /\ seen' = [seen EXCEPT ![c] = {rules}]
     ELSE /\ pc' = [pc EXCEPT ![c] = "bypassed"]
          /\ UNCHANGED seen
  /\ UNCHANGED <<store, rules, watched, stale>>

\* The answer to a review: a verdict, or "failed" when there is none.
Answer(c, verdict) ==
  /\ pc' = [pc EXCEPT ![c] = verdict]
  /\ UNCHANGED <<store, rules, watched, req, stale, seen>>

Admitted(c) ==
  \/ pc[c] \in {"allowed", "bypassed"}
  \/ pc[c] = "failed" /\ FailurePolicy = "Ignore"

Refused(c) ==
  \/ pc[c] = "denied"
  \/ pc[c] = "failed" /\ FailurePolicy = "Fail"

Free(c) ==
  /\ pc' = [pc EXCEPT ![c] = "idle"]
  /\ req' = [req EXCEPT ![c] = NoRequest]
  /\ seen' = [seen EXCEPT ![c] = {}]

UnmovedNotChecked(c) == TRUE

\* The object is still the one the request read (its resource version).
Unmoved(c) == ~stale[c]

Rivals(c) == {d \in Call : pc[d] # "idle" /\ req[d].res = req[c].res}

Write(c) ==
  /\ Admitted(c)
  /\ Unmoved(c)
  /\ store' = [store EXCEPT ![req[c].res] = req[c].body]
  /\ stale' = [d \in Call |-> IF d = c THEN FALSE
                              ELSE d \in Rivals(c) \/ stale[d]]
  /\ Free(c)
  /\ UNCHANGED <<rules, watched>>

\* A write that lost the race is not applied.  The client's or the API
\* server's own retry of it is a new request, reviewed anew.
Conflict(c) ==
  /\ Admitted(c)
  /\ stale[c]
  /\ stale' = [stale EXCEPT ![c] = FALSE]
  /\ Free(c)
  /\ UNCHANGED <<store, rules, watched>>

Refuse(c) ==
  /\ Refused(c)
  /\ stale' = [stale EXCEPT ![c] = FALSE]
  /\ Free(c)
  /\ UNCHANGED <<store, rules, watched>>

Complete(c) == Write(c) \/ Conflict(c) \/ Refuse(c)

\* The administrator edits the ConfigMap and the kubelet swaps the mounted
\* directory: the three files change together.
ChangeRules ==
  /\ rules' \in Config \ {rules}
  /\ seen' = [c \in Call |-> IF pc[c] = "review" THEN seen[c] \cup {rules'}
                             ELSE seen[c]]
  /\ UNCHANGED <<store, watched, pc, req, stale>>

\* What is registered changes.  A request under way is not asked about again.
Reregister ==
  /\ watched' \in Registrations \ {watched}
  /\ UNCHANGED <<store, rules, pc, req, stale, seen>>
=============================================================================
