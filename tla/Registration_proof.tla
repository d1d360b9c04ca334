------------------------- MODULE Registration_proof -------------------------
(***************************************************************************)
(* Theorems about the process, its certificates and what it publishes, for *)
(* any settings, names, edits and any number of faults.                    *)
(***************************************************************************)
EXTENDS Startup, TLAPS

Declared == {Built(f) : f \in Files}
AnyRules == Edits \cup UNION {{b[o] : o \in DOMAIN b} : b \in Declared}

ServerType ==
  [phase : Phase, built : {Nothing} \cup Declared,
   todo : SUBSET UNION {DOMAIN b : b \in Declared}, current : BOOLEAN,
   ca : CA \cup {None}, remembered : CA \cup {None}, loaded : Cert \cup {None}]

Listening == {"serving", "provision", "apply", "update"}

TypeInv ==
  /\ files \in Files
  /\ server \in ServerType
  /\ server.built = Nothing <=> server.phase \in {"down", "starting"}
  /\ server.todo \subseteq DOMAIN server.built
  /\ server.phase \in {"apply", "update"} => server.ca \in CA
  /\ server.phase = "serving" => server.loaded # None
  /\ server.phase \in {"down", "starting", "load"} => server.loaded = None
  /\ secret \in Cert \cup {None}
  /\ mounted \in Cert \cup {None}
  /\ registered \in [Configuration -> [rules : AnyRules, ca : CA] \cup {None}]
  /\ edited \subseteq Configuration \cup {Secret}
  /\ cas \in Nat /\ faults \in 0 .. Faults
  /\ cas + faults <= Faults + (IF secret = None THEN 0 ELSE 1)

-----------------------------------------------------------------------------
\* An invariant that says of cas only that deletions of the secret bound it
\* implies TypeOK.
LEMMA TypeInvType == TypeInv => TypeOK
BY FaultsAssumption, NoneAssumption, SMTT(60) DEF TypeInv, TypeOK, ServerType, Declared, Phase, CA

LEMMA DownTyped ==
  Down \in ServerType /\ Down.built = Nothing /\ Down.todo \subseteq DOMAIN Down.built
BY DEF Down, ServerType, Phase

LEMMA InitTyped == Init => TypeInv
BY DownTyped, FaultsAssumption DEF Init, TypeInv, Down

LEMMA BuiltIsDeclared ==
  ASSUME NEW f \in Files
  PROVE  /\ Built(f) \in Declared
         /\ Starts(f) => Built(f) # Nothing
BY DEF Declared, Starts, Nothing

\* An error, or a crash.
LEMMA ExitTyped ==
  ASSUME TypeInv, Exit, UNCHANGED files,
         secret' \in Cert \cup {None}, secret' = None <=> secret = None,
         mounted' \in Cert \cup {None},
         registered' \in [Configuration -> [rules : AnyRules, ca : CA] \cup {None}],
         edited' \subseteq Configuration \cup {Secret},
         cas' = cas, faults' \in 0 .. faults
  PROVE  TypeInv'
<1>1. /\ server' \in ServerType /\ server'.phase = "down" /\ server'.loaded = None
      /\ server'.built = Nothing /\ server'.todo \subseteq DOMAIN server'.built
  BY DownTyped DEF Exit, Down
<1>2. /\ cas' \in Nat /\ faults' \in 0 .. Faults
      /\ cas' + faults' <= Faults + (IF secret' = None THEN 0 ELSE 1)
  BY FaultsAssumption DEF TypeInv
<1> QED
  BY <1>1, <1>2 DEF TypeInv

LEMMA RegisterTyped ==
  ASSUME TypeInv, NEW o \in InTurn, server.phase \in {"apply", "update"}, Register(o),
         UNCHANGED <<files, secret, mounted, cas, faults>>
  PROVE  TypeInv'
<1>1. /\ o \in server.todo /\ server.built \in Declared
      /\ server.built[o] \in AnyRules /\ server.ca \in CA
  BY DEF TypeInv, ServerType, InTurn, AnyRules
<1>2. registered' \in [Configuration -> [rules : AnyRules, ca : CA] \cup {None}]
  BY <1>1 DEF TypeInv, Register, Ours
<1>3. server' \in ServerType /\ server'.todo \subseteq DOMAIN server'.built
  BY DEF TypeInv, Register, ServerType, Phase
<1> QED
  BY <1>1, <1>2, <1>3 DEF TypeInv, Register, ServerType

LEMMA EnsureCertTyped == TypeInv /\ EnsureCert => TypeInv' /\ secret' \in Cert
<1> SUFFICES ASSUME TypeInv, EnsureCert PROVE TypeInv' /\ secret' \in Cert
  OBVIOUS
<1>1. KnownCA \in CA \cup {None} /\ (secret # None => KnownCA = secret.ca /\ KnownCA # None)
  BY NoneAssumption DEF TypeInv, KnownCA, ServerType, Cert
<1>2. cas' \in Nat /\ cas' + faults <= Faults + 1
  BY <1>1, FaultsAssumption DEF TypeInv, EnsureCert, Valid
<1>3. secret' \in Cert
  <2>1. KnownCA = None => cas' \in CA
    BY <1>1, <1>2, FaultsAssumption DEF TypeInv, EnsureCert, Valid, CA
  <2> QED
    BY <1>1, <2>1 DEF TypeInv, EnsureCert, Valid, Cert
<1>4. server' \in ServerType
  BY <1>1, <1>3 DEF TypeInv, EnsureCert, ServerType, Phase, Cert
<1> QED
  BY <1>2, <1>3, <1>4, NoneAssumption DEF TypeInv, EnsureCert, ServerType, Cert

LEMMA ProcessTyped == TypeInv /\ Process => TypeInv'
<1> SUFFICES ASSUME TypeInv, Process PROVE TypeInv'
  OBVIOUS
<1>1. CASE Launch
  BY <1>1, DownTyped DEF TypeInv, Launch, Down, ServerType, Phase
<1>2. CASE StartWebhookServer
  <2>1. CASE Starts(files)
    <3> DEFINE b == Built(files)
    <3>1. /\ server' = [server EXCEPT !.phase = "provision", !.built = b, !.todo = DOMAIN b]
          /\ UNCHANGED <<files, secret, mounted, registered, edited, cas, faults>>
      BY <1>2, <2>1 DEF StartWebhookServer
    <3>2. b \in Declared /\ b # Nothing
      BY <2>1, BuiltIsDeclared DEF TypeInv
    <3> HIDE DEF b
    <3>3. /\ server' \in ServerType /\ server'.phase = "provision"
          /\ server'.built = b /\ server'.todo = DOMAIN b
      BY <3>1, <3>2 DEF TypeInv, ServerType, Phase
    <3> QED
      BY <3>1, <3>2, <3>3 DEF TypeInv
  <2>2. CASE ~Starts(files)
    BY <1>2, <2>2, ExitTyped DEF StartWebhookServer, TypeInv
  <2> QED
    BY <2>1, <2>2
<1>3. CASE EnsureCert
  BY <1>3, EnsureCertTyped
<1>4. CASE Shutdown
  BY <1>4 DEF TypeInv, Shutdown, Reload, ServerType, Phase
<1>5. CASE Serve
  <2>1. CASE mounted = None
    BY <1>5, <2>1, ExitTyped DEF Serve, TypeInv
  <2>2. CASE mounted # None
    <3>1. /\ server.phase = "load"
          /\ server' = [server EXCEPT !.phase = "serving", !.loaded = mounted]
          /\ UNCHANGED <<files, secret, mounted, registered, edited, cas, faults>>
      BY <1>5, <2>2 DEF Serve
    <3>2. /\ server' \in ServerType /\ server'.phase = "serving"
          /\ server'.loaded = mounted /\ server'.built = server.built
          /\ server'.todo = server.todo
      BY <3>1 DEF TypeInv, ServerType, Phase
    <3> QED
      BY <2>2, <3>1, <3>2 DEF TypeInv
  <2> QED
    BY <2>1, <2>2
<1>6. ASSUME NEW o \in InTurn, Create(o) PROVE TypeInv'
  <2>1. CASE ~Accepted(server.built[o])
    BY <1>6, <2>1, ExitTyped DEF Create, TypeInv
  <2>2. CASE Accepted(server.built[o]) /\ registered[o] = None
    BY <1>6, <2>2, RegisterTyped DEF Create
  <2>3. CASE Accepted(server.built[o]) /\ registered[o] # None
    BY <1>6, <2>3 DEF TypeInv, Create, ServerType, Phase
  <2> QED
    BY <2>1, <2>2, <2>3
<1>7. ASSUME NEW o \in InTurn, Update(o) PROVE TypeInv'
  <2>1. CASE server.current
    BY <1>7, <2>1, RegisterTyped DEF Update
  <2>2. CASE ~server.current
    BY <1>7, <2>2, ExitTyped DEF Update, TypeInv
  <2> QED
    BY <2>1, <2>2
<1> QED
  BY <1>1, <1>2, <1>3, <1>4, <1>5, <1>6, <1>7 DEF Process

LEMMA OlderTyped ==
  ASSUME NEW cert \in Cert \cup {None}, NEW days \in Nat
  PROVE  /\ Older(cert, days) \in Cert \cup {None}
         /\ Older(cert, days) = None <=> cert = None
         /\ cert # None => /\ Older(cert, days).ca = cert.ca
                           /\ Older(cert, days).age = cert.age + days
BY NoneAssumption DEF Older, Cert

LEMMA SurroundingsTyped ==
  ASSUME TypeInv,
         \/ SyncMount \/ EditFiles \/ DeleteSecret
         \/ \E days \in Periods : RefreshCert(days)
         \/ \E days \in Partial : Crash(days)
         \/ \E o \in Configuration : EditRegistered(o)
  PROVE  TypeInv'
<1>0. Periods \subseteq Nat /\ Partial \subseteq Nat
  BY PeriodsAssumption DEF Longest
<1>1. CASE SyncMount
  BY <1>1 DEF TypeInv, SyncMount
<1>2. CASE EditFiles
  BY <1>2, FaultsAssumption DEF TypeInv, EditFiles, Fault
<1>3. CASE DeleteSecret
  BY <1>3, FaultsAssumption DEF TypeInv, DeleteSecret, Fault
<1>4. ASSUME NEW days \in Periods, RefreshCert(days) PROVE TypeInv'
  <2>1. server.loaded \in Cert \cup {None} /\ days \in Nat
    BY <1>0 DEF TypeInv, ServerType
  <2>2. /\ secret' \in Cert \cup {None} /\ (secret' = None <=> secret = None)
        /\ mounted' \in Cert \cup {None}
    BY <1>4, <2>1, OlderTyped DEF TypeInv, RefreshCert, Pass
  <2>3. /\ server.phase = "serving"
        /\ server' = [server EXCEPT !.phase = "provision", !.todo = DOMAIN server.built,
                                    !.loaded = Older(server.loaded, days)]
        /\ UNCHANGED <<files, registered, edited, cas, faults>>
    BY <1>4 DEF RefreshCert
  <2>4. server.built \in Declared
    BY <2>3 DEF TypeInv, ServerType
  <2> DEFINE todo == DOMAIN server.built
             loaded == Older(server.loaded, days)
  <2>a. todo \in SUBSET UNION {DOMAIN b : b \in Declared} /\ loaded \in Cert \cup {None}
    BY <2>1, <2>4, OlderTyped
  <2>b. server' = [server EXCEPT !.phase = "provision", !.todo = todo, !.loaded = loaded]
    BY <2>3
  <2> HIDE DEF todo, loaded
  <2>5. /\ server' \in ServerType /\ server'.phase = "provision"
        /\ server'.built = server.built /\ server'.todo = todo
    BY <2>a, <2>b DEF TypeInv, ServerType, Phase
  <2>6. cas' + faults' <= Faults + (IF secret' = None THEN 0 ELSE 1)
    BY <2>2, <2>3 DEF TypeInv
  <2> QED
    BY <2>2, <2>3, <2>5, <2>6 DEF TypeInv, todo
<1>5. ASSUME NEW days \in Partial, Crash(days) PROVE TypeInv'
  <2>1. days \in Nat
    BY <1>0
  <2>2. /\ secret' \in Cert \cup {None} /\ (secret' = None <=> secret = None)
        /\ mounted' \in Cert \cup {None}
    BY <1>5, <2>1, OlderTyped DEF TypeInv, Crash, Pass
  <2>3. Exit /\ UNCHANGED <<files, registered, edited, cas>> /\ faults' \in 0 .. faults
    BY <1>5, FaultsAssumption DEF TypeInv, Crash, Fault
  <2> QED
    BY <2>2, <2>3, ExitTyped DEF TypeInv
<1>6. ASSUME NEW o \in Configuration, EditRegistered(o) PROVE TypeInv'
  <2>1. registered' \in [Configuration -> [rules : AnyRules, ca : CA] \cup {None}]
    <3>1. CASE registered' = [registered EXCEPT ![o] = None]
      BY <3>1 DEF TypeInv
    <3>2. ASSUME NEW list \in Edits, registered' = [registered EXCEPT ![o].rules = list]
          PROVE  registered' \in [Configuration -> [rules : AnyRules, ca : CA] \cup {None}]
      <4>1. registered[o] \in [rules : AnyRules, ca : CA] /\ list \in AnyRules
        BY <1>6 DEF TypeInv, EditRegistered, AnyRules
      <4>2. [registered[o] EXCEPT !.rules = list] \in [rules : AnyRules, ca : CA]
        BY <4>1
      <4> QED
        BY <3>2, <4>2 DEF TypeInv
    <3> QED
      BY <1>6, <3>1, <3>2 DEF EditRegistered
  <2>2. /\ server' = [server EXCEPT !.current = server.current /\ o \notin InTurn]
        /\ UNCHANGED <<files, secret, mounted, cas>> /\ edited' = edited \cup {o}
        /\ faults > 0 /\ faults' = faults - 1
    BY <1>6 DEF EditRegistered, Fault
  <2>3. /\ server' \in ServerType
        /\ server'.phase = server.phase /\ server'.built = server.built
        /\ server'.todo = server.todo /\ server'.loaded = server.loaded
        /\ server'.ca = server.ca
    BY <2>2 DEF TypeInv, ServerType
  <2>4. /\ faults' \in 0 .. Faults
        /\ cas' + faults' <= Faults + (IF secret' = None THEN 0 ELSE 1)
    BY <2>2, FaultsAssumption DEF TypeInv
  <2> QED
    BY <2>1, <2>2, <2>3, <2>4 DEF TypeInv
<1> QED
  BY <1>1, <1>2, <1>3, <1>4, <1>5, <1>6

LEMMA StepTyped == TypeInv /\ [Next]_vars => TypeInv'
<1>1. TypeInv /\ UNCHANGED vars => TypeInv'
  BY DEF TypeInv, vars
<1> QED
  BY <1>1, ProcessTyped, SurroundingsTyped DEF Next

LEMMA AlwaysTyped == Spec => []TypeInv
BY InitTyped, StepTyped, PTL DEF Spec

(***************************************************************************)
(* The process has built something exactly when it is past its start, is   *)
(* listening exactly while it has a certificate to listen with, and makes  *)
(* at most one CA per deletion of the secret and one at first, in every    *)
(* order of starts, refreshes, crashes and edits (main, Server.Start,      *)
(* handleCommon).                                                          *)
(***************************************************************************)
THEOREM ProcessTypeCorrect == Spec => []TypeOK
BY AlwaysTyped, TypeInvType, PTL

-----------------------------------------------------------------------------
(* Trust.  As long as the secret is not deleted there is one CA.           *)

OfCA(cert) == cert = None \/ cert.ca \in 1 .. cas

TrustInv ==
  /\ OfCA(secret) /\ OfCA(mounted) /\ OfCA(server.loaded)
  /\ \A o \in Configuration : OfCA(registered[o])
  /\ server.ca \in 1 .. cas \cup {None}
  /\ server.remembered \in 1 .. cas \cup {None}
  /\ Secret \notin edited => cas <= 1 /\ (secret = None => cas = 0)

LEMMA BuiltAreConfigurations ==
  ASSUME NEW b \in {Nothing} \cup Declared
  PROVE  DOMAIN b \subseteq Configuration /\ Secret \notin DOMAIN b
<1>1. CASE b = Nothing
  BY <1>1 DEF Nothing
<1>2. ASSUME NEW f \in Files, b = Built(f), NEW o \in DOMAIN b
      PROVE  o \in Configuration /\ o # Secret
  <2>1. PICK t \in Switched(f) : o = <<t, NameOf(t, f[t])>> /\ Asked(f[t]) # <<>>
    BY <1>2 DEF Built
  <2>2. t \in WebhookType /\ f[t] # Unreadable
    BY <2>1 DEF Switched, WebhookType, Asked
  <2> QED
    BY <2>1, <2>2, FilesAssumption DEF NameOf, Configuration, Secret, WebhookType
<1> QED
  BY <1>1, <1>2 DEF Declared

LEMMA InitTrust == Init => TrustInv
BY DEF Init, TrustInv, OfCA, Down

LEMMA ExitTrust ==
  ASSUME TrustInv, Exit, UNCHANGED <<secret, mounted, registered, edited, cas>>
  PROVE  TrustInv'
BY DEF TrustInv, OfCA, Exit, Down

LEMMA RegisterTrust ==
  ASSUME TypeInv, TrustInv, NEW o \in InTurn, server.phase \in {"apply", "update"},
         Register(o), UNCHANGED <<files, secret, mounted, cas, faults>>
  PROVE  TrustInv'
<1>1. o # Secret /\ server.ca \in 1 .. cas
  BY BuiltAreConfigurations, NoneAssumption DEF TypeInv, TrustInv, ServerType, InTurn
<1>2. \A p \in Configuration : OfCA(registered[p])'
  BY <1>1 DEF TypeInv, TrustInv, OfCA, Register, Ours
<1>3. /\ server'.loaded = server.loaded /\ server'.ca = server.ca
      /\ server'.remembered = server.remembered
  BY DEF TypeInv, Register, ServerType
<1> QED
  BY <1>1, <1>2, <1>3 DEF TrustInv, OfCA, Register

LEMMA EnsureCertTrust == TypeInv /\ TrustInv /\ EnsureCert => TrustInv'
<1> SUFFICES ASSUME TypeInv, TrustInv, EnsureCert PROVE TrustInv'
  OBVIOUS
<1>1. KnownCA \in 1 .. cas \cup {None} /\ (secret # None => KnownCA # None)
  BY NoneAssumption DEF TypeInv, TrustInv, OfCA, KnownCA, Cert
<1>2. cas' \in Nat /\ cas <= cas' /\ (cas' # cas => cas' = cas + 1 /\ KnownCA = None)
  BY <1>1 DEF TypeInv, EnsureCert, Valid
<1>3. secret' \in Cert /\ secret'.ca \in 1 .. cas' /\ secret' # None
  <2>1. CASE Valid(secret)
    BY <1>2, <2>1 DEF TypeInv, TrustInv, OfCA, EnsureCert, Valid
  <2>2. CASE ~Valid(secret)
    <3>1. (IF KnownCA # None THEN KnownCA ELSE cas') \in 1 .. cas'
      BY <1>1, <1>2, <2>2 DEF TypeInv, EnsureCert
    <3>2. secret'.ca = IF KnownCA # None THEN KnownCA ELSE cas'
      BY <2>2 DEF EnsureCert
    <3> QED
      BY <3>1, <3>2, EnsureCertTyped, NoneAssumption
  <2> QED
    BY <2>1, <2>2
<1>4. /\ server'.loaded = server.loaded /\ server'.ca = secret'.ca
      /\ server'.remembered = KnownCA
      /\ UNCHANGED <<mounted, registered, edited>>
  BY DEF TypeInv, EnsureCert, ServerType
<1>5. 1 .. cas \subseteq 1 .. cas'
  BY <1>2 DEF TypeInv
<1>6. Secret \notin edited => cas' <= 1
  <2>1. CASE secret = None /\ Secret \notin edited
    BY <1>2, <2>1 DEF TrustInv
  <2>2. CASE secret # None /\ Secret \notin edited
    BY <1>1, <1>2, <2>2 DEF TrustInv
  <2> QED
    BY <2>1, <2>2
<1>7. \A o \in Configuration : OfCA(registered[o])'
  BY <1>4, <1>5 DEF TrustInv, OfCA
<1> QED
  BY <1>1, <1>3, <1>4, <1>5, <1>6, <1>7 DEF TrustInv, OfCA

LEMMA ProcessTrust == TypeInv /\ TrustInv /\ Process => TrustInv'
<1> SUFFICES ASSUME TypeInv, TrustInv, Process PROVE TrustInv'
  OBVIOUS
<1>1. CASE Launch
  BY <1>1 DEF TrustInv, OfCA, Launch, Down
<1>2. CASE StartWebhookServer
  <2>1. CASE Starts(files)
    <3>1. /\ server' = [server EXCEPT !.phase = "provision", !.built = Built(files),
                                      !.todo = DOMAIN Built(files)]
          /\ UNCHANGED <<secret, mounted, registered, edited, cas>>
      BY <1>2, <2>1 DEF StartWebhookServer
    <3>2. /\ server'.loaded = server.loaded /\ server'.ca = server.ca
          /\ server'.remembered = server.remembered
      BY <3>1 DEF TypeInv, ServerType
    <3> QED
      BY <3>1, <3>2 DEF TrustInv, OfCA
  <2>2. CASE ~Starts(files)
    BY <1>2, <2>2, ExitTrust DEF StartWebhookServer
  <2> QED
    BY <2>1, <2>2
<1>3. CASE EnsureCert
  BY <1>3, EnsureCertTrust
<1>4. CASE Shutdown
  BY <1>4 DEF TypeInv, TrustInv, OfCA, Shutdown, Reload, ServerType
<1>5. CASE Serve
  <2>1. CASE mounted = None
    BY <1>5, <2>1, ExitTrust DEF Serve
  <2>2. CASE mounted # None
    <3>1. /\ server' = [server EXCEPT !.phase = "serving", !.loaded = mounted]
          /\ UNCHANGED <<secret, mounted, registered, edited, cas>>
      BY <1>5, <2>2 DEF Serve
    <3>2. /\ server'.loaded = mounted /\ server'.ca = server.ca
          /\ server'.remembered = server.remembered
      BY <3>1 DEF TypeInv, ServerType
    <3> QED
      BY <3>1, <3>2 DEF TrustInv, OfCA
  <2> QED
    BY <2>1, <2>2
<1>6. ASSUME NEW o \in InTurn, Create(o) PROVE TrustInv'
  <2>1. CASE ~Accepted(server.built[o])
    BY <1>6, <2>1, ExitTrust DEF Create
  <2>2. CASE Accepted(server.built[o]) /\ registered[o] = None
    BY <1>6, <2>2, RegisterTrust DEF Create
  <2>3. CASE Accepted(server.built[o]) /\ registered[o] # None
    BY <1>6, <2>3 DEF TypeInv, TrustInv, OfCA, Create, ServerType
  <2> QED
    BY <2>1, <2>2, <2>3
<1>7. ASSUME NEW o \in InTurn, Update(o) PROVE TrustInv'
  <2>1. CASE server.current
    BY <1>7, <2>1, RegisterTrust DEF Update
  <2>2. CASE ~server.current
    BY <1>7, <2>2, ExitTrust DEF Update
  <2> QED
    BY <2>1, <2>2
<1> QED
  BY <1>1, <1>2, <1>3, <1>4, <1>5, <1>6, <1>7 DEF Process

LEMMA SurroundingsTrust ==
  ASSUME TypeInv, TrustInv,
         \/ SyncMount \/ EditFiles \/ DeleteSecret
         \/ \E days \in Periods : RefreshCert(days)
         \/ \E days \in Partial : Crash(days)
         \/ \E o \in Configuration : EditRegistered(o)
  PROVE  TrustInv'
<1>0. Periods \subseteq Nat /\ Partial \subseteq Nat
  BY PeriodsAssumption DEF Longest
<1>1. CASE SyncMount
  BY <1>1 DEF TrustInv, OfCA, SyncMount
<1>2. CASE EditFiles
  BY <1>2 DEF TrustInv, OfCA, EditFiles, Fault
<1>3. CASE DeleteSecret
  BY <1>3 DEF TrustInv, OfCA, DeleteSecret, Fault
<1>4. ASSUME NEW days \in Periods, RefreshCert(days) PROVE TrustInv'
  <2>1. /\ server' = [server EXCEPT !.phase = "provision", !.todo = DOMAIN server.built,
                                    !.loaded = Older(server.loaded, days)]
        /\ UNCHANGED <<registered, edited, cas>>
    BY <1>4 DEF RefreshCert
  <2>2. /\ server'.loaded = Older(server.loaded, days) /\ server'.ca = server.ca
        /\ server'.remembered = server.remembered
    BY <2>1 DEF TypeInv, ServerType
  <2>3. OfCA(secret)' /\ OfCA(mounted)' /\ (secret' = None => secret = None)
    BY <1>0, <1>4, <2>1, OlderTyped DEF TypeInv, TrustInv, OfCA, RefreshCert, Pass
  <2>4. server.loaded \in Cert \cup {None}
    BY DEF TypeInv, ServerType
  <2>5. OfCA(server.loaded)'
    BY <1>0, <2>1, <2>2, <2>4, OlderTyped DEF TrustInv, OfCA
  <2> QED
    BY <2>1, <2>2, <2>3, <2>5 DEF TrustInv, OfCA
<1>5. ASSUME NEW days \in Partial, Crash(days) PROVE TrustInv'
  <2>1. server' = Down /\ UNCHANGED <<registered, edited, cas>>
    BY <1>5 DEF Crash, Exit
  <2>2. OfCA(secret)' /\ OfCA(mounted)' /\ (secret' = None => secret = None)
    BY <1>0, <1>5, <2>1, OlderTyped DEF TypeInv, TrustInv, OfCA, Crash, Pass
  <2> QED
    BY <2>1, <2>2 DEF TrustInv, OfCA, Down
<1>6. ASSUME NEW o \in Configuration, EditRegistered(o) PROVE TrustInv'
  <2>1. /\ server' = [server EXCEPT !.current = server.current /\ o \notin InTurn]
        /\ UNCHANGED <<secret, mounted, cas>> /\ edited' = edited \cup {o}
    BY <1>6 DEF EditRegistered
  <2>2. /\ server'.loaded = server.loaded /\ server'.ca = server.ca
        /\ server'.remembered = server.remembered
    BY <2>1 DEF TypeInv, ServerType
  <2>3. \A p \in Configuration : registered'[p] = None \/ registered'[p].ca = registered[p].ca
    <3>1. CASE registered' = [registered EXCEPT ![o] = None]
      BY <3>1 DEF TypeInv
    <3>2. ASSUME NEW list \in Edits, registered' = [registered EXCEPT ![o].rules = list]
          PROVE  \A p \in Configuration : registered'[p].ca = registered[p].ca
      <4>1. registered[o] \in [rules : AnyRules, ca : CA]
        BY <1>6 DEF TypeInv, EditRegistered
      <4>2. [registered[o] EXCEPT !.rules = list].ca = registered[o].ca
        BY <4>1
      <4> QED
        BY <3>2, <4>2 DEF TypeInv
    <3> QED
      BY <1>6, <3>1, <3>2 DEF EditRegistered
  <2>4. \A p \in Configuration : registered[p] = None => registered'[p] = None
    BY <1>6 DEF TypeInv, EditRegistered
  <2> QED
    BY <2>1, <2>2, <2>3, <2>4 DEF TrustInv, OfCA
<1> QED
  BY <1>1, <1>2, <1>3, <1>4, <1>5, <1>6

LEMMA StepTrust == TypeInv /\ TrustInv /\ [Next]_vars => TrustInv'
<1>1. TrustInv /\ UNCHANGED vars => TrustInv'
  BY DEF TrustInv, OfCA, vars
<1> QED
  BY <1>1, ProcessTrust, SurroundingsTrust DEF Next

LEMMA TrustHolds == TypeInv /\ TrustInv => TrustedUnlessDeleted
<1> SUFFICES ASSUME TypeInv, TrustInv, Secret \notin edited, server.loaded # None,
                    NEW o \in DOMAIN server.built, registered[o] # None
             PROVE  registered[o].ca = server.loaded.ca
  BY DEF TrustedUnlessDeleted
<1>1. o \in Configuration
  BY BuiltAreConfigurations DEF TypeInv, ServerType
<1>2. cas <= 1 /\ registered[o].ca \in 1 .. cas /\ server.loaded.ca \in 1 .. cas
  BY <1>1 DEF TrustInv, OfCA
<1> QED
  BY <1>2 DEF TypeInv

(***************************************************************************)
(* Without a deletion of the secret the API server trusts the certificate  *)
(* the process serves with, through any number of renewals, crashes and    *)
(* edits, and although the mounted copy lags behind (SetCA, EnsureCert).   *)
(***************************************************************************)
THEOREM AlwaysTrusted == Spec => []TrustedUnlessDeleted
<1>1. Init /\ TypeInv => TrustInv
  BY InitTrust
<1> QED
  BY <1>1, AlwaysTyped, StepTrust, TrustHolds, PTL DEF Spec

-----------------------------------------------------------------------------
(* Ages.  After EnsureCert the certificate in the secret is valid, until   *)
(* the next refresh; what is mounted is at most one refresh behind, unless *)
(* the secret was deleted, and what is in use at most one more.            *)

Settled == {"apply", "update", "load", "serving"}

NoOlder(cert, days) == cert = None \/ cert.age <= days

Renewable == Lifetime - SixMonths

\* A secret deleted since EnsureCert has used up one of the faults.
Behind == (Faults - faults) - (IF secret = None /\ server.phase \in Settled THEN 1 ELSE 0)

AgeInv ==
  /\ NoOlder(secret, Renewable + Longest)
  /\ server.phase \in Settled => NoOlder(secret, Renewable)
  /\ NoOlder(mounted, Renewable + Longest + Longest * Behind)
  /\ server.phase = "serving" =>
       NoOlder(server.loaded, Renewable + Longest + Longest * (Faults - faults))
  /\ NoOlder(server.loaded, Renewable + 2 * Longest + Longest * (Faults - faults))

LEMMA InitAge == Init => AgeInv
BY DEF Init, AgeInv, NoOlder, Down

LEMMA FaultsLeft ==
  ASSUME NEW m \in 0 .. Faults, NEW n \in 0 .. m
  PROVE  /\ Faults - m \in Nat /\ Faults - n \in Nat
         /\ Faults - m <= Faults - n
BY FaultsAssumption

LEMMA FaultSpent ==
  ASSUME NEW m \in 0 .. Faults, NEW n, m > 0, n = m - 1
  PROVE  n \in 0 .. m /\ Faults - m \in Nat /\ Faults - n = Faults - m + 1
BY FaultsAssumption

LEMMA OlderBound ==
  ASSUME NEW cert \in Cert \cup {None}, NEW m \in Int, NEW n \in Int, NEW days \in Nat,
         NoOlder(cert, m), m + days <= n
  PROVE  NoOlder(Older(cert, days), n)
BY OlderTyped DEF NoOlder, Cert

\* The process or its surroundings do something the ages do not depend on.
LEMMA SameAges ==
  ASSUME TypeInv, TypeInv', AgeInv, UNCHANGED <<secret, mounted>>, faults' \in 0 .. faults,
         server'.loaded \in {None, server.loaded},
         server'.phase \in Settled => server.phase \in Settled,
         server'.phase = "serving" => server.phase = "serving"
  PROVE  AgeInv'
<1>0. faults \in 0 .. Faults
  BY DEF TypeInv
<1>1. /\ Faults - faults \in Nat /\ Faults - faults' \in Nat
      /\ Faults - faults <= Faults - faults'
  BY <1>0, FaultsLeft
<1>2. Behind \in Int /\ Behind' \in Int /\ Behind <= Behind'
  BY <1>1 DEF Behind
<1>3. NoOlder(mounted, Renewable + Longest + Longest * Behind')
  BY <1>2 DEF AgeInv, NoOlder, TypeInv, Cert, Renewable, Lifetime, SixMonths, Longest
<1>4. /\ server'.loaded = None \/ server'.loaded = server.loaded
      /\ server.loaded \in Cert \cup {None}
  BY DEF TypeInv, ServerType
<1>5. NoOlder(server'.loaded, Renewable + 2 * Longest + Longest * (Faults - faults'))
  BY <1>1, <1>4 DEF AgeInv, NoOlder, Cert, Renewable, Lifetime, SixMonths, Longest
<1>6. server'.phase = "serving" =>
        NoOlder(server'.loaded, Renewable + Longest + Longest * (Faults - faults'))
  BY <1>1, <1>4 DEF AgeInv, NoOlder, Cert, Renewable, Lifetime, SixMonths, Longest
<1> QED
  BY <1>3, <1>5, <1>6 DEF AgeInv, NoOlder

LEMMA ExitAge ==
  ASSUME TypeInv, TypeInv', AgeInv, Exit, UNCHANGED <<secret, mounted>>, faults' \in 0 .. faults
  PROVE  AgeInv'
BY SameAges DEF Exit, Down, Settled

LEMMA EnsureCertAge == TypeInv /\ AgeInv /\ EnsureCert => AgeInv'
<1> SUFFICES ASSUME TypeInv, AgeInv, EnsureCert PROVE AgeInv'
  OBVIOUS
<1>1. /\ server.phase = "provision" /\ server'.phase = "apply"
      /\ server'.loaded = server.loaded
      /\ UNCHANGED <<mounted, faults>>
  BY DEF TypeInv, EnsureCert, ServerType
<1>2. secret' \in Cert /\ secret'.age <= Renewable
  BY EnsureCertTyped DEF TypeInv, EnsureCert, Valid, Cert, Renewable, Lifetime, SixMonths
<1>3. Behind' = Behind /\ Behind = Faults - faults
  BY <1>1, <1>2, NoneAssumption, FaultsAssumption DEF Behind, Settled, TypeInv
<1> QED
  BY <1>1, <1>2, <1>3 DEF AgeInv, NoOlder, Cert, Renewable, Lifetime, SixMonths, Longest

LEMMA ServeAge ==
  ASSUME TypeInv, TypeInv', AgeInv, mounted # None, server.phase = "load",
         server' = [server EXCEPT !.phase = "serving", !.loaded = mounted],
         UNCHANGED <<secret, mounted, faults>>
  PROVE  AgeInv'
<1>1. server'.phase = "serving" /\ server'.loaded = mounted
  BY DEF TypeInv, ServerType
<1>2. Behind' = Behind /\ Behind \in Int /\ Behind <= Faults - faults /\ Faults - faults \in Nat
  BY <1>1, FaultsAssumption DEF Behind, Settled, TypeInv
<1>3. NoOlder(mounted, Renewable + Longest + Longest * (Faults - faults))
  BY <1>2 DEF TypeInv, AgeInv, NoOlder, Cert, Renewable, Lifetime, SixMonths, Longest
<1>4. NoOlder(mounted, Renewable + 2 * Longest + Longest * (Faults - faults))
  BY <1>2, <1>3 DEF TypeInv, NoOlder, Cert, Renewable, Lifetime, SixMonths, Longest
<1> QED
  BY <1>1, <1>2, <1>3, <1>4 DEF AgeInv, NoOlder, Settled

LEMMA ProcessAge == TypeInv /\ AgeInv /\ Process => AgeInv'
<1> SUFFICES ASSUME TypeInv, AgeInv, Process PROVE AgeInv'
  OBVIOUS
<1>0. TypeInv' /\ faults \in 0 .. faults
  BY ProcessTyped, FaultsAssumption DEF TypeInv
<1>1. CASE Launch
  BY <1>0, <1>1, SameAges DEF Launch, Down, Settled
<1>2. CASE StartWebhookServer
  <2>1. CASE Starts(files)
    <3>1. /\ server' = [server EXCEPT !.phase = "provision", !.built = Built(files),
                                      !.todo = DOMAIN Built(files)]
          /\ UNCHANGED <<secret, mounted, faults>>
      BY <1>2, <2>1 DEF StartWebhookServer
    <3>2. server'.loaded = server.loaded /\ server'.phase = "provision"
      BY <3>1 DEF TypeInv, ServerType
    <3> QED
      BY <1>0, <3>1, <3>2, SameAges DEF Settled
  <2>2. CASE ~Starts(files)
    BY <1>0, <1>2, <2>2, ExitAge DEF StartWebhookServer
  <2> QED
    BY <2>1, <2>2
<1>3. CASE EnsureCert
  BY <1>3, EnsureCertAge
<1>4. CASE Shutdown
  <2>1. /\ server'.loaded = None /\ server'.phase = "load" /\ server.phase = "apply"
        /\ UNCHANGED <<secret, mounted, faults>>
    BY <1>4 DEF TypeInv, ServerType, Shutdown, Reload
  <2> QED
    BY <1>0, <2>1, SameAges DEF Settled
<1>5. CASE Serve
  <2>1. CASE mounted = None
    BY <1>0, <1>5, <2>1, ExitAge DEF Serve
  <2>2. CASE mounted # None
    BY <1>0, <1>5, <2>2, ServeAge DEF Serve
  <2> QED
    BY <2>1, <2>2
<1>6. ASSUME NEW o \in InTurn, Create(o) PROVE AgeInv'
  <2>1. CASE ~Accepted(server.built[o])
    BY <1>0, <1>6, <2>1, ExitAge DEF Create
  <2>2. CASE Accepted(server.built[o])
    <3>1. /\ server.phase = "apply" /\ server'.phase \in {"apply", "update"}
          /\ server'.loaded = server.loaded /\ UNCHANGED <<secret, mounted, faults>>
      BY <1>6, <2>2 DEF TypeInv, ServerType, Create, Register
    <3> QED
      BY <1>0, <3>1, SameAges DEF Settled
  <2> QED
    BY <2>1, <2>2
<1>7. ASSUME NEW o \in InTurn, Update(o) PROVE AgeInv'
  <2>1. CASE server.current
    <3>1. /\ server.phase = "update" /\ server'.phase = "apply"
          /\ server'.loaded = server.loaded /\ UNCHANGED <<secret, mounted, faults>>
      BY <1>7, <2>1 DEF TypeInv, ServerType, Update, Register
    <3> QED
      BY <1>0, <3>1, SameAges DEF Settled
  <2>2. CASE ~server.current
    BY <1>0, <1>7, <2>2, ExitAge DEF Update
  <2> QED
    BY <2>1, <2>2
<1> QED
  BY <1>1, <1>2, <1>3, <1>4, <1>5, <1>6, <1>7 DEF Process

LEMMA SurroundingsAge ==
  ASSUME TypeInv, TypeInv', AgeInv,
         \/ SyncMount \/ EditFiles \/ DeleteSecret
         \/ \E days \in Periods : RefreshCert(days)
         \/ \E days \in Partial : Crash(days)
         \/ \E o \in Configuration : EditRegistered(o)
  PROVE  AgeInv'
<1>a. faults \in 0 .. Faults /\ secret \in Cert \cup {None} /\ mounted \in Cert \cup {None}
  BY DEF TypeInv
<1>0. /\ faults \in Nat /\ Faults - faults \in Nat
      /\ (faults > 0 /\ faults' = faults - 1) =>
           (faults' \in 0 .. faults /\ Faults - faults' = Faults - faults + 1)
  BY <1>a, FaultsLeft, FaultSpent
<1>b. Renewable = 184 /\ Longest = 99
  BY DEF Renewable, Lifetime, SixMonths, Longest
<1>1. CASE SyncMount
  <2>1. /\ secret # None /\ mounted' = secret /\ UNCHANGED <<server, secret, faults>>
    BY <1>1 DEF SyncMount
  <2>2. Behind' = Faults - faults
    BY <1>0, <2>1 DEF Behind
  <2>3. NoOlder(secret, Renewable + Longest + Longest * (Faults - faults))
    BY <1>0, <2>1 DEF AgeInv, NoOlder, TypeInv, Cert, Renewable, Lifetime, SixMonths, Longest
  <2> QED
    BY <2>1, <2>2, <2>3 DEF AgeInv, NoOlder
<1>2. CASE EditFiles
  BY <1>0, <1>2, SameAges DEF EditFiles, Fault
<1>3. CASE DeleteSecret
  <2>1. /\ secret # None /\ secret' = None /\ UNCHANGED <<server, mounted>>
        /\ faults > 0 /\ faults' = faults - 1
    BY <1>3 DEF DeleteSecret, Fault
  <2>2. Behind \in Int /\ Behind' \in Int /\ Behind <= Behind'
    BY <1>0, <2>1 DEF Behind
  <2>3. NoOlder(mounted, Renewable + Longest + Longest * Behind')
    BY <2>2 DEF AgeInv, NoOlder, TypeInv, Cert, Renewable, Lifetime, SixMonths, Longest
  <2>4. server.loaded \in Cert \cup {None}
    BY DEF TypeInv, ServerType
  <2>5. /\ NoOlder(server.loaded, Renewable + 2 * Longest + Longest * (Faults - faults'))
        /\ server.phase = "serving" =>
             NoOlder(server.loaded, Renewable + Longest + Longest * (Faults - faults'))
    BY <1>0, <2>1, <2>4 DEF AgeInv, NoOlder, Cert, Renewable, Lifetime, SixMonths, Longest
  <2> QED
    BY <2>1, <2>3, <2>5 DEF AgeInv, NoOlder
<1>4. ASSUME NEW days \in Periods, RefreshCert(days) PROVE AgeInv'
  <2>1. days \in 0 .. Longest
    BY PeriodsAssumption DEF Longest
  <2>2. /\ server.phase = "serving" /\ (mounted = secret \/ secret = None)
        /\ server' = [server EXCEPT !.phase = "provision", !.todo = DOMAIN server.built,
                                    !.loaded = Older(server.loaded, days)]
        /\ secret' = Older(secret, days) /\ mounted' = Older(mounted, days)
        /\ faults' = faults
    BY <1>4 DEF RefreshCert, Pass
  <2>3. server'.phase = "provision" /\ server'.loaded = Older(server.loaded, days)
    BY <2>2 DEF TypeInv, ServerType
  <2>4. Behind' = Faults - faults
    BY <1>0, <2>2, <2>3 DEF Behind, Settled
  <2>5. NoOlder(secret', Renewable + Longest)
    <3>1. NoOlder(secret, Renewable)
      BY <2>2 DEF AgeInv, Settled
    <3>2. /\ Renewable \in Int /\ Renewable + Longest \in Int
          /\ Renewable + days <= Renewable + Longest
      BY <1>b, <2>1
    <3>3. secret' = Older(secret, days)
      BY <2>2
    <3> QED
      BY <1>a, <2>1, <3>1, <3>2, <3>3, OlderBound
  <2>6. NoOlder(mounted', Renewable + Longest + Longest * (Faults - faults))
    <3>1. CASE secret = None
      <4>1. Behind = Faults - faults - 1
        BY <1>0, <2>2, <3>1 DEF Behind, Settled
      <4> QED
        BY <1>0, <2>1, <2>2, <4>1, OlderTyped
           DEF AgeInv, NoOlder, TypeInv, Cert, Renewable, Lifetime, SixMonths, Longest
    <3>2. CASE secret # None
      BY <1>0, <2>2, <2>5, <3>2, OlderTyped
         DEF NoOlder, TypeInv, Cert, Renewable, Lifetime, SixMonths, Longest
    <3> QED
      BY <3>1, <3>2
  <2>7. server.loaded \in Cert \cup {None}
    BY DEF TypeInv, ServerType
  <2>8. NoOlder(server'.loaded, Renewable + 2 * Longest + Longest * (Faults - faults))
    BY <1>0, <2>1, <2>2, <2>3, <2>7, OlderTyped
       DEF AgeInv, NoOlder, Cert, Renewable, Lifetime, SixMonths, Longest
  <2> QED
    BY <2>2, <2>3, <2>4, <2>5, <2>6, <2>8 DEF AgeInv, NoOlder, Settled
<1>5. ASSUME NEW days \in Partial, Crash(days) PROVE AgeInv'
  <2>1. days \in 0 .. Longest
    BY PeriodsAssumption DEF Longest
  <2>2. /\ faults > 0 /\ faults' = faults - 1
        /\ server' = Down
        /\ days > 0 => server.phase = "serving" /\ mounted = secret
        /\ secret' = Older(secret, days) /\ mounted' = Older(mounted, days)
    BY <1>5 DEF Crash, Pass, Fault, Exit
  <2>3. Behind' = Faults - faults + 1 /\ Behind \in Int /\ Behind <= Faults - faults
    BY <1>0, <2>2 DEF Behind, Settled, Down
  <2>4. NoOlder(secret', Renewable + Longest)
    <3>1. CASE days = 0
      BY <1>a, <1>b, <2>2, <3>1, OlderBound DEF AgeInv
    <3>2. CASE days > 0
      <4>1. NoOlder(secret, Renewable)
        BY <2>2, <3>2 DEF AgeInv, Settled
      <4> QED
        BY <1>a, <1>b, <2>1, <2>2, <4>1, OlderBound
    <3> QED
      BY <2>1, <3>1, <3>2
  <2>5. NoOlder(mounted', Renewable + Longest + Longest * Behind')
    <3>1. CASE days = 0
      <4> DEFINE m == Renewable + Longest + Longest * Behind
                 n == Renewable + Longest + Longest * Behind'
      <4>1. NoOlder(mounted, m)
        BY DEF AgeInv
      <4>2. m \in Int /\ n \in Int /\ m + days <= n
        BY <1>0, <1>b, <2>3, <3>1
      <4> HIDE DEF m
      <4>3. NoOlder(mounted', n)
        BY <1>a, <2>1, <2>2, <4>1, <4>2, OlderBound
      <4> QED
        BY <4>3
    <3>2. CASE days > 0
      BY <1>0, <2>2, <2>3, <2>4, <3>2, OlderTyped
         DEF NoOlder, TypeInv, Cert, Renewable, Lifetime, SixMonths, Longest
    <3> QED
      BY <2>1, <3>1, <3>2
  <2> QED
    BY <2>2, <2>4, <2>5 DEF AgeInv, NoOlder, Settled, Down
<1>6. ASSUME NEW o \in Configuration, EditRegistered(o) PROVE AgeInv'
  <2>1. /\ server'.loaded = server.loaded /\ server'.phase = server.phase
        /\ faults > 0 /\ faults' = faults - 1 /\ UNCHANGED <<secret, mounted>>
    BY <1>6 DEF TypeInv, ServerType, EditRegistered, Fault
  <2> QED
    BY <1>0, <2>1, SameAges
<1> QED
  BY <1>1, <1>2, <1>3, <1>4, <1>5, <1>6

LEMMA StepAge == TypeInv /\ AgeInv /\ [Next]_vars => AgeInv'
<1>1. TypeInv /\ AgeInv /\ UNCHANGED vars => AgeInv'
  BY DEF AgeInv, Behind, NoOlder, vars
<1> QED
  BY <1>1, StepTyped, ProcessAge, SurroundingsAge DEF Next

LEMMA AgeIsEnough == TypeInv /\ AgeInv => CertificateReplacedInTime
BY FaultsAssumption
   DEF AgeInv, NoOlder, TypeInv, ServerType, Cert, CertificateReplacedInTime,
       Renewable, Lifetime, SixMonths, Longest

(***************************************************************************)
(* However refreshes, crashes, the kubelet and deletions of the secret are *)
(* ordered, a certificate too old to be found valid is in use for at most  *)
(* two refreshes and one more per deletion (validCert, RefreshCert).       *)
(***************************************************************************)
THEOREM AlwaysReplacedInTime == Spec => []CertificateReplacedInTime
<1>1. Init /\ TypeInv => AgeInv
  BY InitAge
<1> QED
  BY <1>1, AlwaysTyped, StepAge, AgeIsEnough, PTL DEF Spec

-----------------------------------------------------------------------------
(* The refinement: Create, Get, Update and the crashes between them        *)
(* implement publishing one whole declaration at a time, for any settings, *)
(* names and edits.                                                        *)

Published == [o \in Configuration |-> RulesOf(o)]

\* A configuration that exists is told from one that does not by its rules.
LEMMA NowhereIsNone ==
  /\ \A r \in [rules : AnyRules, ca : CA] : r # None
  /\ None \notin AnyRules
<1>1. \A list \in AnyRules : None # list /\ \A ca \in CA : None # [rules |-> list, ca |-> ca]
  BY NoneAssumption DEF AnyRules, Declared
<1>2. \A r \in [rules : AnyRules, ca : CA] :
        r = [rules |-> r.rules, ca |-> r.ca] /\ r.rules \in AnyRules /\ r.ca \in CA
  OBVIOUS
<1> QED
  BY <1>1, <1>2

LEMMA InitDeclares == Init => Promise!DeclarationInit
BY DEF Init, Down, RulesOf, Promise!DeclarationInit

-----------------------------------------------------------------------------
(* The shapes a step of the process or of its surroundings can have.       *)

LEMMA Stutters ==
  ASSUME server'.built = server.built, registered' = registered,
         edited' \ {Secret} = edited \ {Secret}
  PROVE  UNCHANGED Promise!declarationVars
BY DEF Promise!declarationVars, RulesOf

LEMMA Withdraws ==
  ASSUME Exit, UNCHANGED <<registered, edited>>
  PROVE  Promise!DeclarationNext
BY DEF Exit, Down, Promise!DeclarationNext, Promise!Withdraw, RulesOf

LEMMA Declares ==
  ASSUME server.built = Nothing, files \in Files, Starts(files),
         server'.built = Built(files), UNCHANGED <<registered, edited>>
  PROVE  Promise!DeclarationNext
BY DEF Promise!DeclarationNext, Promise!Declare, RulesOf

LEMMA Publishes ==
  ASSUME TypeInv, NEW o \in InTurn, server.phase \in {"apply", "update"}, Register(o)
  PROVE  Promise!DeclarationNext
<1>1. /\ server.built \in Declared \cup {Nothing}
      /\ o \in DOMAIN server.built
  BY DEF TypeInv, ServerType, InTurn
<1>2. o \in Configuration
  BY <1>1, BuiltAreConfigurations DEF Nothing
<1>3. server'.built = server.built
  BY DEF TypeInv, ServerType, Register
<1>4. /\ registered' = [registered EXCEPT ![o] = Ours(o)]
      /\ Ours(o) # None /\ Ours(o).rules = server.built[o]
  <2>1. server.built[o] \in AnyRules
    BY <1>1 DEF AnyRules, Nothing
  <2>2. server.ca \in CA
    BY DEF TypeInv
  <2> QED
    BY <2>1, <2>2, NowhereIsNone DEF Register, Ours
<1>5. Published' = [Published EXCEPT ![o] = server.built[o]]
  BY <1>2, <1>4 DEF Published, RulesOf, TypeInv
<1>6. edited' \ {Secret} = (edited \ {Secret}) \ {o}
  BY DEF Register
<1> QED
  BY <1>1, <1>2, <1>3, <1>5, <1>6
     DEF Promise!DeclarationNext, Promise!Publish, Published

LEMMA ChangedByOthers ==
  ASSUME TypeInv, NEW o \in Configuration, EditRegistered(o)
  PROVE  Promise!DeclarationNext
<1>1. server'.built = server.built
  BY DEF TypeInv, ServerType, EditRegistered
<1>2. Published[o] # None
  <2>1. registered[o] \in [rules : AnyRules, ca : CA]
    BY DEF TypeInv, EditRegistered
  <2> QED
    BY <2>1, NowhereIsNone DEF Published, RulesOf
<1>3. \A p \in Configuration \ {o} : registered'[p] = registered[p]
  <2>1. CASE registered' = [registered EXCEPT ![o] = None]
    BY <2>1 DEF TypeInv
  <2>2. ASSUME NEW list \in Edits, registered' = [registered EXCEPT ![o].rules = list]
        PROVE  \A p \in Configuration \ {o} : registered'[p] = registered[p]
    BY <2>2 DEF TypeInv
  <2> QED
    BY <2>1, <2>2 DEF EditRegistered
<1>4. Published' = [Published EXCEPT ![o] = Published'[o]]
  BY <1>3 DEF Published, RulesOf
<1>5. edited' \ {Secret} = (edited \ {Secret}) \cup {o}
  BY DEF EditRegistered, Configuration, Secret, WebhookType
<1> QED
  BY <1>1, <1>2, <1>4, <1>5
     DEF Promise!DeclarationNext, Promise!ChangedByOthers, Published

-----------------------------------------------------------------------------
LEMMA StepDeclares ==
  TypeInv /\ [Next]_vars => [Promise!DeclarationNext]_(Promise!declarationVars)
<1> SUFFICES ASSUME TypeInv, Next
             PROVE  Promise!DeclarationNext \/ UNCHANGED Promise!declarationVars
  BY DEF vars, RulesOf, Promise!declarationVars
<1>1. CASE Launch
  BY <1>1, Stutters DEF Launch, TypeInv, Down
<1>2. CASE StartWebhookServer
  <2>1. CASE Starts(files)
    <3>1. server.built = Nothing /\ server'.built = Built(files)
      BY <1>2, <2>1 DEF TypeInv, ServerType, StartWebhookServer
    <3> QED
      BY <1>2, <2>1, <3>1, Declares DEF TypeInv, StartWebhookServer
  <2>2. CASE ~Starts(files)
    BY <1>2, <2>2, Withdraws DEF StartWebhookServer
  <2> QED
    BY <2>1, <2>2
<1>3. CASE EnsureCert
  BY <1>3, Stutters DEF EnsureCert, TypeInv, ServerType
<1>4. CASE Shutdown
  BY <1>4, Stutters DEF Shutdown, Reload, TypeInv, ServerType
<1>5. CASE Serve
  BY <1>5, Stutters, Withdraws DEF Serve, TypeInv, ServerType
<1>6. ASSUME NEW o \in InTurn, Create(o)
      PROVE  Promise!DeclarationNext \/ UNCHANGED Promise!declarationVars
  <2>1. CASE ~Accepted(server.built[o])
    BY <1>6, <2>1, Withdraws DEF Create
  <2>2. CASE Accepted(server.built[o]) /\ registered[o] = None
    BY <1>6, <2>2, Publishes DEF Create
  <2>3. CASE Accepted(server.built[o]) /\ registered[o] # None
    BY <1>6, <2>3, Stutters DEF Create, TypeInv, ServerType
  <2> QED
    BY <2>1, <2>2, <2>3
<1>7. ASSUME NEW o \in InTurn, Update(o)
      PROVE  Promise!DeclarationNext \/ UNCHANGED Promise!declarationVars
  BY <1>7, Publishes, Withdraws DEF Update
<1>8. CASE SyncMount \/ EditFiles
  BY <1>8, Stutters DEF SyncMount, EditFiles
<1>9. CASE DeleteSecret
  BY <1>9, Stutters DEF DeleteSecret
<1>10. ASSUME NEW days \in Periods, RefreshCert(days)
       PROVE  UNCHANGED Promise!declarationVars
  BY <1>10, Stutters DEF RefreshCert, TypeInv, ServerType
<1>11. ASSUME NEW days \in Partial, Crash(days) PROVE Promise!DeclarationNext
  BY <1>11, Withdraws DEF Crash
<1> QED
  BY <1>1, <1>2, <1>3, <1>4, <1>5, <1>6, <1>7, <1>8, <1>9, <1>10, <1>11, ChangedByOthers
     DEF Next, Process

(***************************************************************************)
(* Every behaviour of the process, its crashes, refreshes and conflicts    *)
(* included, publishes whole declarations of settings it could start with, *)
(* one configuration at a time, and what it publishes is changed by others *)
(* only (batchCreateOrReplace, createOrReplaceHelper).                     *)
(***************************************************************************)
THEOREM RegistrationRefines == Spec => ImplementsDeclaration
BY InitDeclares, AlwaysTyped, StepDeclares, PTL
   DEF Spec, ImplementsDeclaration, Promise!DeclarationSpec
=============================================================================
