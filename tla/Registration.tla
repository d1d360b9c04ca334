---------------------------- MODULE Registration ----------------------------
(***************************************************************************)
(* The webhook's process: it reads the files that say what to review,      *)
(* makes sure there is a certificate, registers the two configurations at  *)
(* the API server, serves, and does the last three again every 90 days.    *)
(*                                                                         *)
(* It may stop between any two steps and exits on every error; the kubelet *)
(* starts it again.  There is one replica.  Several parties write what it  *)
(* works with: administrators edit the files, the registered               *)
(* configurations and the secret, the kubelet copies the secret to the     *)
(* mounted directory some time after it changed.                           *)
(***************************************************************************)
EXTENDS Integers, Sequences

CONSTANTS
  Files,      \* mounted settings: [validating : file, mutating : file, mutation : BOOLEAN]
  Names,      \* names of configurations
  Periods,    \* days between two refreshes
  Partial,    \* days from a refresh to a crash
  Edits,      \* what administrators write in a registered configuration: rules
  Faults,     \* bound on what administrators do and on crashes
  Unreadable, \* a file that is absent or does not parse
  Unnamed,    \* the name in a file that gives none
  None        \* a configuration, a certificate or a CA that does not exist

(***************************************************************************)
(* A file is [name, rules]; a rule is [complete, accepted, pairs]: whether *)
(* its four lists have entries, whether the API server accepts it, and the *)
(* <<operation, resource>> pairs it asks to be called for.                 *)
(***************************************************************************)
WebhookType == {"mutating", "validating"}
DefaultName == [mutating |-> "mutating-webhook", validating |-> "validating-webhook"]

Configuration == (WebhookType \X Names) \cup {<<t, DefaultName[t]>> : t \in WebhookType}

Secret        == <<"secret", "admission-webhook-certs">>

ASSUME FilesAssumption ==
  \A f \in Files : \A t \in WebhookType :
    f[t] # Unreadable =>
      /\ f[t].name \in Names \cup {Unnamed}
      /\ f[t].rules \in Seq({f[t].rules[i] : i \in DOMAIN f[t].rules})

-----------------------------------------------------------------------------
(* Days.  A certificate lasts a year and is renewed when less than six     *)
(* months are left (the shortest six months are 181 days).  The timer is   *)
(* 90 days with up to 10% of jitter; a crash comes at any time before it.  *)

Lifetime  == 365
SixMonths == 181
Longest   == 99

ASSUME PeriodsAssumption == Periods \subseteq 90 .. Longest /\ Partial \subseteq 0 .. Longest
ASSUME FaultsAssumption  == Faults \in Nat

\* validCert
Valid(cert) == cert # None /\ cert.age + SixMonths <= Lifetime
Older(cert, days) == IF cert = None THEN None ELSE [cert EXCEPT !.age = @ + days]

-----------------------------------------------------------------------------
(* What startWebhookServer makes of the files.                             *)

\* checkRules: what its loop has kept of the first n rules.
Complete(rules) ==
  LET kept[n \in 0 .. Len(rules)] ==
        IF n = 0 THEN <<>>
        ELSE IF rules[n].complete THEN Append(kept[n - 1], rules[n]) ELSE kept[n - 1]
  IN  kept[Len(rules)]

FirstFour(rules) == SubSeq(rules, 1, IF Len(rules) < 4 THEN Len(rules) ELSE 4)

\* buildWebhook
FirstFive(rules) == SubSeq(rules, 1, IF Len(rules) < 5 THEN Len(rules) ELSE 5)

Asked(file) == IF file = Unreadable THEN <<>> ELSE FirstFive(Complete(file.rules))

NameOf(type, file) == IF file.name = Unnamed THEN DefaultName[type] ELSE file.name

Switched(files) == {"validating"} \cup IF files.mutation THEN {"mutating"} ELSE {}

\* The configurations the server is given, and their rules.
Built(files) ==
  LET types == {t \in Switched(files) : Asked(files[t]) # <<>>}
  IN  [o \in {<<t, NameOf(t, files[t])>> : t \in types} |-> Asked(files[o[1]])]

Starts(files) == files.validating # Unreadable /\ DOMAIN Built(files) # {}

Accepted(rules) == \A i \in DOMAIN rules : rules[i].accepted
Pairs(rules)    == UNION {rules[i].pairs : i \in DOMAIN rules}

-----------------------------------------------------------------------------
VARIABLES
  files,      \* the settings as they are mounted now
  server,     \* the process
  secret,     \* the certificate in the secret: [ca, age]
  mounted,    \* the certificate in the mounted directory
  registered, \* configuration -> [rules, ca], as the API server has it
  edited,     \* what others have changed since the process wrote it
  cas,        \* number of CAs made so far
  faults      \* faults left

vars == <<files, server, secret, mounted, registered, edited, cas, faults>>

(***************************************************************************)
(* The process: its phase, the configurations it built, those it has yet   *)
(* to register, whether the copy it read of the one in turn is current,    *)
(* the CA it registers, the CA its generator remembers, and the            *)
(* certificate it serves with, None when it does not listen.               *)
(***************************************************************************)
Phase == {"down", "starting", "provision", "apply", "update", "load", "serving"}

Nothing == [o \in {} |-> <<>>]
Down == [phase |-> "down", built |-> Nothing, todo |-> {}, current |-> FALSE,
         ca |-> None, remembered |-> None, loaded |-> None]

CA   == 1 .. Faults + 1
Cert == [ca : CA, age : Nat]

ASSUME NoneAssumption ==
  /\ None \notin CA /\ None \notin Cert
  /\ \A rules \in Edits \cup UNION {{Built(f)[o] : o \in DOMAIN Built(f)} : f \in Files} :
       None # rules /\ \A ca \in CA : None # [rules |-> rules, ca |-> ca]

\* A process that is past its start has built something, and listens from
\* when it serves until it reloads.
TypeOK ==
  /\ files \in Files
  /\ server.phase \in Phase
  /\ \E f \in Files : server.built \in {Nothing, Built(f)}
  /\ server.built = Nothing <=> server.phase \in {"down", "starting"}
  /\ server.todo \subseteq DOMAIN server.built
  /\ server.current \in BOOLEAN
  /\ {server.ca, server.remembered} \subseteq CA \cup {None}
  /\ {secret, mounted, server.loaded} \subseteq Cert \cup {None}
  /\ server.phase = "serving" => server.loaded # None
  /\ server.phase \in {"down", "starting", "load"} => server.loaded = None
  /\ \A o \in Configuration : registered[o] # None => registered[o].ca \in CA
  /\ edited \subseteq Configuration \cup {Secret}
  /\ cas \in 0 .. Faults + 1 /\ faults \in 0 .. Faults

\* The release ships an empty secret and registers nothing itself.
Init ==
  /\ files \in Files
  /\ server = Down
  /\ secret = None /\ mounted = None
  /\ registered = [o \in Configuration |-> None]
  /\ edited = {}
  /\ cas = 0 /\ faults = Faults

-----------------------------------------------------------------------------
(* The process.                                                            *)

ExitKeepingLocals == server' = [server EXCEPT !.phase = "down"]

\* An error ends it: AddToManager and the manager return it, main exits.
Exit == server' = Down

Launch ==
  /\ server.phase = "down"
  /\ server' = [Down EXCEPT !.phase = "starting"]
  /\ UNCHANGED <<files, secret, mounted, registered, edited, cas, faults>>

\* startWebhookServer, up to Register
StartWebhookServer ==
  /\ server.phase = "starting"
  /\ IF Starts(files)
     THEN server' = [server EXCEPT !.phase = "provision", !.built = Built(files),
                                   !.todo = DOMAIN Built(files)]
     ELSE Exit
  /\ UNCHANGED <<files, secret, mounted, registered, edited, cas, faults>>

NotRemembered == None

\* The CA a new certificate is signed with: the generator's, if it has one.
KnownCA == IF secret # None THEN secret.ca ELSE server.remembered

\* EnsureCert: the certificate in the secret, or a new one in its place.
EnsureCert ==
  /\ server.phase = "provision"
  /\ cas' = IF Valid(secret) \/ KnownCA # None THEN cas ELSE cas + 1
  /\ secret' = IF Valid(secret) THEN secret
               ELSE [ca |-> IF KnownCA # None THEN KnownCA ELSE cas', age |-> 0]
  /\ server' = [server EXCEPT !.phase = "apply", !.ca = secret'.ca, !.remembered = KnownCA]
  /\ UNCHANGED <<files, mounted, registered, edited, faults>>

\* The mutating configuration is registered first.
InTurn == {o \in server.todo : o[1] = "mutating" \/ \A p \in server.todo : p[1] = o[1]}

Merged(o) ==
  [rules |-> server.built[o] \o (IF registered[o] = None THEN <<>> ELSE registered[o].rules),
   ca |-> server.ca]
KeepingCA(o) ==
  [rules |-> server.built[o],
   ca |-> IF registered[o] = None THEN server.ca ELSE registered[o].ca]
Ours(o) == [rules |-> server.built[o], ca |-> server.ca]

Register(o) ==
  /\ registered' = [registered EXCEPT ![o] = Ours(o)]
  /\ edited' = edited \ {o}
  /\ server' = [server EXCEPT !.phase = "apply", !.todo = @ \ {o}, !.current = FALSE]

\* createOrReplaceHelper: Create; when the configuration exists, Get.
Create(o) ==
  /\ server.phase = "apply"
  /\ IF ~Accepted(server.built[o]) THEN Exit /\ UNCHANGED <<registered, edited>>
     ELSE IF registered[o] = None THEN Register(o)
     ELSE /\ server' = [server EXCEPT !.phase = "update", !.current = TRUE]
          /\ UNCHANGED <<registered, edited>>
  /\ UNCHANGED <<files, secret, mounted, cas, faults>>

\* createOrReplaceHelper: Update, which fails when somebody else wrote or
\* deleted the configuration since it was read.
Update(o) ==
  /\ server.phase = "update"
  /\ IF server.current THEN Register(o) ELSE Exit /\ UNCHANGED <<registered, edited>>
  /\ UNCHANGED <<files, secret, mounted, cas, faults>>

\* Provision finds the CA missing from a bundle that is always empty: every
\* refresh counts as a change.
ReloadIfRenewed ==
  server.loaded = None \/ secret = None \/ secret.age = 0
Reload == TRUE

\* All is registered.  A server that listens shuts down.
Shutdown ==
  /\ server.phase = "apply" /\ server.todo = {}
  /\ server' = IF Reload THEN [server EXCEPT !.phase = "load", !.loaded = None]
               ELSE [server EXCEPT !.phase = "serving"]
  /\ UNCHANGED <<files, secret, mounted, registered, edited, cas, faults>>

\* ListenAndServeTLS reads the mounted directory.
Serve ==
  /\ server.phase = "load"
  /\ IF mounted = None THEN Exit
     ELSE server' = [server EXCEPT !.phase = "serving", !.loaded = mounted]
  /\ UNCHANGED <<files, secret, mounted, registered, edited, cas, faults>>

Process ==
  \/ Launch \/ StartWebhookServer \/ EnsureCert \/ Shutdown \/ Serve
  \/ \E o \in InTurn : Create(o) \/ Update(o)

-----------------------------------------------------------------------------
(* Time, the kubelet and the administrators.                               *)

Pass(days) == /\ secret' = Older(secret, days)
              /\ mounted' = Older(mounted, days)

\* The timer of a serving process: RefreshCert begins.  Meanwhile the
\* kubelet, which takes minutes, has copied the secret.
RefreshCert(days) ==
  /\ server.phase = "serving"
  /\ mounted = secret \/ secret = None
  /\ Pass(days)
  /\ server' = [server EXCEPT !.phase = "provision", !.todo = DOMAIN server.built,
                              !.loaded = Older(@, days)]
  /\ UNCHANGED <<files, registered, edited, cas, faults>>

SyncMount ==
  /\ secret # None /\ mounted # secret
  /\ mounted' = secret
  /\ UNCHANGED <<files, server, secret, registered, edited, cas, faults>>

Fault == faults > 0 /\ faults' = faults - 1

\* The process or its node is stopped, some days after the last refresh.
Crash(days) ==
  /\ Fault
  /\ server.phase # "down"
  /\ days > 0 => server.phase = "serving" /\ mounted = secret
  /\ Pass(days)
  /\ Exit
  /\ UNCHANGED <<files, registered, edited, cas>>

EditFiles ==
  /\ Fault
  /\ files' \in Files \ {files}
  /\ UNCHANGED <<server, secret, mounted, registered, edited, cas>>

\* kubectl edit, or delete, of what is registered.
EditRegistered(o) ==
  /\ Fault
  /\ registered[o] # None
  /\ registered' \in {[registered EXCEPT ![o] = None]}
       \cup {[registered EXCEPT ![o].rules = rules] : rules \in Edits}
  /\ edited' = edited \cup {o}
  /\ server' = [server EXCEPT !.current = @ /\ o \notin InTurn]
  /\ UNCHANGED <<files, secret, mounted, cas>>

DeleteSecret ==
  /\ Fault
  /\ secret # None
  /\ secret' = None
  /\ edited' = edited \cup {Secret}
  /\ UNCHANGED <<files, server, mounted, registered, cas>>

Next ==
  \/ Process \/ SyncMount \/ EditFiles \/ DeleteSecret
  \/ \E days \in Periods : RefreshCert(days)
  \/ \E days \in Partial : Crash(days)
  \/ \E o \in Configuration : EditRegistered(o)

Spec == Init /\ [][Next]_vars

\* The process runs and is started again, the kubelet copies the secret, and
\* time passes.
FairSpec ==
  /\ Spec
  /\ WF_vars(Process)
  /\ WF_vars(SyncMount)
  /\ WF_vars(\E days \in Periods : RefreshCert(days))
=============================================================================
