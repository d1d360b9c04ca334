---------------------------- MODULE Startup_proof -----------------------------
(***************************************************************************)
(* What is registered while the process serves, compared with the file:    *)
(* the loops of checkRules and buildWebhook for files of any length, and   *)
(* the registrations of any number of starts and refreshes.                *)
(***************************************************************************)
EXTENDS Registration_proof, Induction

-----------------------------------------------------------------------------
(* checkRules.                                                             *)

NextKept(list, rule) == IF rule.complete THEN Append(list, rule) ELSE list

\* kept[n] is what the loop has kept of the first n rules, for n up to m.
IsKept(kept, rules, m) ==
  kept = [n \in 0 .. m |-> IF n = 0 THEN <<>> ELSE NextKept(kept[n - 1], rules[n])]

LEMMA KeptExists ==
  ASSUME NEW rules, Len(rules) \in Nat
  PROVE  \E kept : IsKept(kept, rules, Len(rules))
<1> DEFINE S == {m \in 0 .. Len(rules) : \E kept : IsKept(kept, rules, m)}
<1>1. 0 \in S
  <2>1. IsKept([n \in 0 .. 0 |-> <<>>], rules, 0)
    BY DEF IsKept
  <2> QED
    BY <2>1
<1>2. ASSUME NEW m \in 0 .. Len(rules) - 1, m \in S PROVE m + 1 \in S
  <2>1. PICK kept : IsKept(kept, rules, m)
    BY <1>2
  <2> DEFINE longer == [n \in 0 .. m + 1 |->
                          IF n = m + 1 THEN NextKept(kept[m], rules[m + 1]) ELSE kept[n]]
  <2>2. IsKept(longer, rules, m + 1)
    BY <2>1 DEF IsKept
  <2> QED
    BY <2>2
<1> HIDE DEF S
<1>3. 0 .. Len(rules) \subseteq S
  BY <1>1, <1>2, InductionUpTo
<1>4. Len(rules) \in S
  BY <1>3
<1> QED
  BY <1>4 DEF S

\* What Complete computes is what its loop keeps.
LEMMA CompleteIsKept ==
  ASSUME NEW rules, Len(rules) \in Nat
  PROVE  \E kept : IsKept(kept, rules, Len(rules)) /\ Complete(rules) = kept[Len(rules)]
<1> DEFINE kept == CHOOSE f : IsKept(f, rules, Len(rules))
<1>1. IsKept(kept, rules, Len(rules))
  BY KeptExists
<1>2. Complete(rules) = kept[Len(rules)]
  BY DEF Complete, IsKept, NextKept
<1> QED
  BY <1>1, <1>2

CompleteUpTo(rules, n) == {i \in 1 .. n : rules[i].complete}

\* list holds the complete ones of the first n rules, and nothing else.
HoldsUpTo(list, rules, n) ==
  /\ list \in Seq({rules[i] : i \in DOMAIN rules})
  /\ \A k \in DOMAIN list : \E i \in CompleteUpTo(rules, n) : list[k] = rules[i]
  /\ \A i \in CompleteUpTo(rules, n) : \E k \in DOMAIN list : list[k] = rules[i]
  /\ IsFiniteSet(CompleteUpTo(rules, n))
  /\ Len(list) = Cardinality(CompleteUpTo(rules, n))

LEMMA KeepsHolding ==
  ASSUME NEW rules, rules \in Seq({rules[i] : i \in DOMAIN rules}),
         NEW n \in 0 .. Len(rules) - 1, NEW list, HoldsUpTo(list, rules, n)
  PROVE  HoldsUpTo(NextKept(list, rules[n + 1]), rules, n + 1)
<1> DEFINE R == {rules[i] : i \in DOMAIN rules}
           last == n + 1
<1>1. n \in Nat /\ last \in DOMAIN rules /\ rules[last] \in R /\ last \notin CompleteUpTo(rules, n)
  BY DEF CompleteUpTo
<1>2. CASE rules[last].complete
  <2>1. CompleteUpTo(rules, last) = CompleteUpTo(rules, n) \cup {last}
    BY <1>1, <1>2 DEF CompleteUpTo
  <2>2. NextKept(list, rules[last]) = Append(list, rules[last])
    BY <1>2 DEF NextKept
  <2>3. /\ IsFiniteSet(CompleteUpTo(rules, last))
        /\ Cardinality(CompleteUpTo(rules, last)) = Cardinality(CompleteUpTo(rules, n)) + 1
    <3>1. IsFiniteSet(CompleteUpTo(rules, n)) /\ last \notin CompleteUpTo(rules, n)
      BY <1>1 DEF HoldsUpTo
    <3> HIDE DEF last
    <3> QED
      BY <2>1, <3>1, FS_AddElement
  <2> DEFINE longer == Append(list, rules[last])
  <2>4. list \in Seq(R) /\ rules[last] \in R
    BY <1>1 DEF HoldsUpTo
  <2> HIDE DEF R
  <2>5. /\ longer \in Seq(R) /\ Len(longer) = Len(list) + 1
        /\ DOMAIN longer = DOMAIN list \cup {Len(list) + 1}
        /\ \A k \in DOMAIN list : longer[k] = list[k]
        /\ longer[Len(list) + 1] = rules[last]
    BY <2>4
  <2> HIDE DEF longer
  <2>6. \A k \in DOMAIN longer : \E i \in CompleteUpTo(rules, last) : longer[k] = rules[i]
    BY <2>1, <2>5 DEF HoldsUpTo
  <2>7. \A i \in CompleteUpTo(rules, last) : \E k \in DOMAIN longer : longer[k] = rules[i]
    BY <2>1, <2>5 DEF HoldsUpTo
  <2> QED
    <3>1. /\ longer \in Seq({rules[i] : i \in DOMAIN rules})
          /\ Len(longer) = Cardinality(CompleteUpTo(rules, last))
      BY <2>3, <2>5 DEF HoldsUpTo, R
    <3>2. NextKept(list, rules[last]) = longer
      BY <2>2 DEF longer
    <3> QED
      BY <2>3, <2>6, <2>7, <3>1, <3>2 DEF HoldsUpTo
<1>3. CASE ~rules[last].complete
  <2>1. CompleteUpTo(rules, last) = CompleteUpTo(rules, n)
    BY <1>1, <1>3 DEF CompleteUpTo
  <2> QED
    BY <1>3, <2>1 DEF NextKept, HoldsUpTo
<1> QED
  BY <1>2, <1>3

LEMMA CompleteHolds ==
  ASSUME NEW rules, rules \in Seq({rules[i] : i \in DOMAIN rules})
  PROVE  HoldsUpTo(Complete(rules), rules, Len(rules))
<1>1. Len(rules) \in Nat
  OBVIOUS
<1>2. PICK kept : IsKept(kept, rules, Len(rules)) /\ Complete(rules) = kept[Len(rules)]
  BY <1>1, CompleteIsKept
<1> DEFINE S == {n \in 0 .. Len(rules) : HoldsUpTo(kept[n], rules, n)}
<1>3. 0 \in S
  <2>1. CompleteUpTo(rules, 0) = {}
    BY DEF CompleteUpTo
  <2>2. kept[0] = <<>>
    BY <1>1, <1>2 DEF IsKept
  <2>3. IsFiniteSet({}) /\ Cardinality({}) = 0
    BY FS_EmptySet
  <2>4. /\ <<>> \in Seq({rules[i] : i \in DOMAIN rules})
        /\ Len(<<>>) = 0 /\ DOMAIN <<>> = {}
    OBVIOUS
  <2>5. HoldsUpTo(<<>>, rules, 0)
    BY <2>1, <2>3, <2>4 DEF HoldsUpTo
  <2> QED
    BY <1>1, <2>2, <2>5
<1>4. ASSUME NEW n \in 0 .. Len(rules) - 1, n \in S PROVE n + 1 \in S
  <2>1. kept[n + 1] = NextKept(kept[n], rules[n + 1])
    BY <1>1, <1>2 DEF IsKept
  <2> QED
    BY <1>1, <1>4, <2>1, KeepsHolding
<1> HIDE DEF S
<1>5. 0 .. Len(rules) \subseteq S
  BY <1>1, <1>3, <1>4, InductionUpTo
<1>6. Len(rules) \in S
  BY <1>1, <1>5
<1> QED
  BY <1>2, <1>6 DEF S

-----------------------------------------------------------------------------
(* buildWebhook.                                                           *)

\* What a configuration is given to ask for is listed in its file, and all
\* that is listed when five rules or fewer are complete.
LEMMA AskedIsListed ==
  ASSUME NEW f \in Files, NEW t \in WebhookType, f[t] # Unreadable
  PROVE  /\ Pairs(Asked(f[t])) \subseteq Listed(f[t])
         /\ FewRules(f[t]) => Pairs(Asked(f[t])) = Listed(f[t])
<1> DEFINE rules == f[t].rules
           R == {rules[i] : i \in DOMAIN rules}
           list == Complete(rules)
<1>1. rules \in Seq(R)
  BY FilesAssumption
<1>2. HoldsUpTo(list, rules, Len(rules))
  BY <1>1, CompleteHolds
<1>3. CompleteUpTo(rules, Len(rules)) = CompleteRules(f[t])
  <2>1. DOMAIN rules = 1 .. Len(rules)
    <3> HIDE DEF R
    <3> QED
      BY <1>1
  <2> QED
    BY <2>1 DEF CompleteUpTo, CompleteRules
<1>4. /\ list \in Seq(R)
      /\ \A k \in DOMAIN list : \E i \in CompleteRules(f[t]) : list[k] = rules[i]
      /\ \A i \in CompleteRules(f[t]) : \E k \in DOMAIN list : list[k] = rules[i]
      /\ Len(list) = Cardinality(CompleteRules(f[t]))
  BY <1>2, <1>3 DEF HoldsUpTo
<1> HIDE DEF list, R
<1> DEFINE first == FirstFive(list)
<1>5. /\ DOMAIN first \subseteq DOMAIN list
      /\ \A k \in DOMAIN first : first[k] = list[k]
      /\ Len(list) <= 5 => DOMAIN first = DOMAIN list
  BY <1>4 DEF FirstFive
<1>6. Asked(f[t]) = first
  BY DEF Asked, list
<1> HIDE DEF first
<1>7. /\ Pairs(first) = UNION {first[k].pairs : k \in DOMAIN first}
      /\ Listed(f[t]) = UNION {rules[i].pairs : i \in CompleteRules(f[t])}
  BY DEF Pairs, Listed
<1> HIDE DEF rules
<1>8. Pairs(first) \subseteq Listed(f[t])
  BY <1>4, <1>5, <1>7
<1>9. ASSUME FewRules(f[t]) PROVE Listed(f[t]) \subseteq Pairs(first)
  <2>1. DOMAIN first = DOMAIN list
    BY <1>4, <1>5, <1>9 DEF FewRules
  <2> QED
    BY <1>4, <1>5, <1>7, <2>1
<1> QED
  BY <1>6, <1>8, <1>9

-----------------------------------------------------------------------------
(* What has been registered, from when the certificate is there.           *)

InForceAt(o) == registered[o] # None /\ registered[o].rules = server.built[o]

RegisteredInv ==
  /\ server.phase = "provision" => server.todo = DOMAIN server.built
  /\ server.phase \in {"load", "serving"} => server.todo = {}
  /\ server.phase \in Settled =>
       \A o \in (DOMAIN server.built \ server.todo) \ edited : InForceAt(o)

LEMMA InitRegistered == Init => RegisteredInv
BY DEF Init, RegisteredInv, Down, Settled

LEMMA ExitRegistered == Exit => RegisteredInv'
BY DEF Exit, Down, RegisteredInv, Settled

LEMMA RegisterRegistered ==
  ASSUME TypeInv, RegisteredInv, NEW o \in InTurn, server.phase \in {"apply", "update"},
         Register(o)
  PROVE  RegisteredInv'
<1>1. /\ server'.phase = "apply" /\ server'.built = server.built
      /\ server'.todo = server.todo \ {o}
  BY DEF TypeInv, ServerType, Register
<1>2. \A p \in DOMAIN server.built : p \in Configuration
  BY BuiltAreConfigurations DEF TypeInv, ServerType
<1>3. o \in DOMAIN server.built /\ o \in Configuration
  BY <1>2 DEF TypeInv, InTurn
<1>4. registered' = [registered EXCEPT ![o] = Ours(o)] /\ edited' = edited \ {o}
  BY DEF Register
<1>5. registered'[o] = Ours(o)
  BY <1>3, <1>4 DEF TypeInv
<1>6. registered'[o] \in [rules : AnyRules, ca : CA] /\ registered'[o].rules = server.built[o]
  BY <1>3, <1>5 DEF TypeInv, ServerType, AnyRules, Ours, Nothing
<1>7. \A p \in Configuration \ {o} : registered'[p] = registered[p]
  BY <1>4 DEF TypeInv
<1>8. registered'[o] # None
  BY <1>6, NowhereIsNone
<1>9. ASSUME NEW p \in (DOMAIN server.built \ server'.todo) \ edited'
      PROVE  InForceAt(p)'
  <2>1. CASE p = o
    BY <1>1, <1>6, <1>8, <2>1 DEF InForceAt
  <2>2. CASE p # o
    <3>1. InForceAt(p)
      BY <1>1, <1>4, <1>9, <2>2 DEF RegisteredInv, Settled
    <3> QED
      BY <1>1, <1>2, <1>7, <1>9, <2>2, <3>1 DEF InForceAt
  <2> QED
    BY <2>1, <2>2
<1> QED
  BY <1>1, <1>9 DEF RegisteredInv

\* A step that leaves the process past its start with what it has registered.
LEMMA GoesOnRegistered ==
  ASSUME RegisteredInv, server'.built = server.built, server'.todo = server.todo,
         UNCHANGED <<registered, edited>>, server.phase \in Settled, server'.phase \in Settled,
         server'.phase \in {"load", "serving"} => server.todo = {}
  PROVE  RegisteredInv'
BY DEF RegisteredInv, InForceAt, Settled

LEMMA ProcessRegistered == TypeInv /\ RegisteredInv /\ Process => RegisteredInv'
<1> SUFFICES ASSUME TypeInv, RegisteredInv, Process PROVE RegisteredInv'
  OBVIOUS
<1>1. CASE Launch
  BY <1>1 DEF Launch, Down, RegisteredInv, Settled
<1>2. CASE StartWebhookServer
  <2>1. CASE Starts(files)
    <3> DEFINE b == Built(files)
    <3>1. server' = [server EXCEPT !.phase = "provision", !.built = b, !.todo = DOMAIN b]
      BY <1>2, <2>1 DEF StartWebhookServer
    <3> HIDE DEF b
    <3>2. server'.phase = "provision" /\ server'.todo = DOMAIN server'.built
      BY <3>1 DEF TypeInv, ServerType
    <3> QED
      BY <3>2 DEF RegisteredInv, Settled
  <2>2. CASE ~Starts(files)
    BY <1>2, <2>2, ExitRegistered DEF StartWebhookServer
  <2> QED
    BY <2>1, <2>2
<1>3. CASE EnsureCert
  <2>1. server.phase = "provision" /\ UNCHANGED <<registered, edited>>
    BY <1>3 DEF EnsureCert
  <2>2. /\ server'.phase = "apply" /\ server'.built = server.built
        /\ server'.todo = server.todo
    BY <1>3 DEF EnsureCert, TypeInv, ServerType
  <2> QED
    BY <2>1, <2>2 DEF RegisteredInv
<1>4. CASE Shutdown
  <2>1. /\ server.phase = "apply" /\ server.todo = {} /\ server'.phase = "load"
        /\ server'.built = server.built /\ server'.todo = server.todo
        /\ UNCHANGED <<registered, edited>>
    BY <1>4 DEF Shutdown, Reload, TypeInv, ServerType
  <2> QED
    BY <2>1, GoesOnRegistered DEF Settled
<1>5. CASE Serve
  <2>1. CASE mounted = None
    BY <1>5, <2>1, ExitRegistered DEF Serve
  <2>2. CASE mounted # None
    <3>1. /\ server.phase = "load" /\ server'.phase = "serving"
          /\ server'.built = server.built /\ server'.todo = server.todo
          /\ UNCHANGED <<registered, edited>>
      BY <1>5, <2>2 DEF Serve, TypeInv, ServerType
    <3>2. server.todo = {}
      BY <3>1 DEF RegisteredInv
    <3> QED
      BY <3>1, <3>2, GoesOnRegistered DEF Settled
  <2> QED
    BY <2>1, <2>2
<1>6. ASSUME NEW o \in InTurn, Create(o) PROVE RegisteredInv'
  <2>1. CASE ~Accepted(server.built[o])
    BY <1>6, <2>1, ExitRegistered DEF Create
  <2>2. CASE Accepted(server.built[o]) /\ registered[o] = None
    BY <1>6, <2>2, RegisterRegistered DEF Create
  <2>3. CASE Accepted(server.built[o]) /\ registered[o] # None
    <3>1. /\ server.phase = "apply" /\ server'.phase = "update"
          /\ server'.built = server.built /\ server'.todo = server.todo
          /\ UNCHANGED <<registered, edited>>
      BY <1>6, <2>3 DEF Create, TypeInv, ServerType
    <3> QED
      BY <3>1, GoesOnRegistered DEF Settled
  <2> QED
    BY <2>1, <2>2, <2>3
<1>7. ASSUME NEW o \in InTurn, Update(o) PROVE RegisteredInv'
  BY <1>7, RegisterRegistered, ExitRegistered DEF Update
<1> QED
  BY <1>1, <1>2, <1>3, <1>4, <1>5, <1>6, <1>7 DEF Process

LEMMA SurroundingsRegistered ==
  ASSUME TypeInv, RegisteredInv,
         \/ SyncMount \/ EditFiles \/ DeleteSecret
         \/ \E days \in Periods : RefreshCert(days)
         \/ \E days \in Partial : Crash(days)
         \/ \E o \in Configuration : EditRegistered(o)
  PROVE  RegisteredInv'
<1>1. CASE SyncMount \/ EditFiles \/ DeleteSecret
  <2>1. UNCHANGED <<server, registered>> /\ edited \subseteq edited'
    BY <1>1 DEF SyncMount, EditFiles, DeleteSecret
  <2> QED
    BY <2>1 DEF RegisteredInv, InForceAt
<1>2. ASSUME NEW days \in Periods, RefreshCert(days) PROVE RegisteredInv'
  <2>1. server'.phase = "provision" /\ server'.todo = DOMAIN server'.built
    BY <1>2 DEF RefreshCert, TypeInv, ServerType
  <2> QED
    BY <2>1 DEF RegisteredInv, Settled
<1>3. ASSUME NEW days \in Partial, Crash(days) PROVE RegisteredInv'
  BY <1>3, ExitRegistered DEF Crash
<1>4. ASSUME NEW o \in Configuration, EditRegistered(o) PROVE RegisteredInv'
  <2>1. /\ server'.phase = server.phase /\ server'.built = server.built
        /\ server'.todo = server.todo
    BY <1>4 DEF EditRegistered, TypeInv, ServerType
  <2>2. \A p \in Configuration \ {o} : registered'[p] = registered[p]
    <3>1. CASE registered' = [registered EXCEPT ![o] = None]
      BY <3>1 DEF TypeInv
    <3>2. ASSUME NEW list \in Edits, registered' = [registered EXCEPT ![o].rules = list]
          PROVE  \A p \in Configuration \ {o} : registered'[p] = registered[p]
      BY <3>2 DEF TypeInv
    <3> QED
      BY <1>4, <3>1, <3>2 DEF EditRegistered
  <2>3. edited' = edited \cup {o}
    BY <1>4 DEF EditRegistered
  <2>4. DOMAIN server.built \subseteq Configuration
    BY BuiltAreConfigurations DEF TypeInv, ServerType
  <2>5. ASSUME server.phase \in Settled, NEW p \in (DOMAIN server.built \ server.todo) \ edited'
        PROVE  InForceAt(p)'
    <3>1. InForceAt(p) /\ p \in Configuration \ {o}
      BY <2>3, <2>4, <2>5 DEF RegisteredInv
    <3> QED
      BY <2>1, <2>2, <3>1 DEF InForceAt
  <2> QED
    BY <2>1, <2>5 DEF RegisteredInv
<1> QED
  BY <1>1, <1>2, <1>3, <1>4

LEMMA StepRegistered == TypeInv /\ RegisteredInv /\ [Next]_vars => RegisteredInv'
<1>1. CASE UNCHANGED vars
  BY <1>1 DEF vars, RegisteredInv, InForceAt
<1> QED
  BY <1>1, ProcessRegistered, SurroundingsRegistered DEF Next

LEMMA RegisteredIsListed == TypeInv /\ RegisteredInv => ListedIsReviewed
<1> SUFFICES ASSUME TypeInv, RegisteredInv, server.phase = "serving",
                    NEW o \in DOMAIN server.built \ edited
             PROVE  /\ registered[o] # None
                    /\ \E f \in Files :
                         /\ Built(f) = server.built
                         /\ Pairs(registered[o].rules) \subseteq Listed(f[o[1]])
                         /\ FewRules(f[o[1]]) => Pairs(registered[o].rules) = Listed(f[o[1]])
  BY DEF ListedIsReviewed
<1>1. InForceAt(o)
  BY DEF RegisteredInv, Settled
<1>2. PICK f \in Files : Built(f) = server.built
  BY DEF TypeInv, ServerType, Declared
<1>3. PICK t \in Switched(f) : o = <<t, NameOf(t, f[t])>> /\ Asked(f[t]) # <<>>
  BY <1>2 DEF Built
<1>4. t \in WebhookType /\ f[t] # Unreadable /\ o[1] = t
  BY <1>3 DEF Switched, WebhookType, Asked
<1>5. server.built[o] = Asked(f[o[1]])
  BY <1>2 DEF Built
<1> QED
  BY <1>1, <1>2, <1>4, <1>5, AskedIsListed DEF InForceAt

(***************************************************************************)
(* While the process serves, what it registered and nobody else changed    *)
(* asks for what its file lists: nothing else, and all of it when five     *)
(* rules or fewer are complete, for files of any number of rules and       *)
(* through any number of crashes, refreshes and edits (checkRules, the     *)
(* switch of buildWebhook, batchCreateOrReplace).                          *)
(***************************************************************************)
THEOREM AlwaysListed == Spec => []ListedIsReviewed
BY InitRegistered, AlwaysTyped, StepRegistered, RegisteredIsListed, PTL DEF Spec
=============================================================================
