----------------------------- MODULE Declaration ----------------------------
(***************************************************************************)
(* What registering promises, without the process, the certificates and    *)
(* the crashes: a configuration the API server has is, as a whole, what    *)
(* the settings in force declared when it was published, or somebody else  *)
(* changed it since.  Settings take effect by a stop and a new start.      *)
(***************************************************************************)
CONSTANTS
  Object,       \* configurations
  Declarations, \* what settings may declare: configuration -> rules, some of them
  Nothing,      \* what is declared while nothing runs
  Nowhere       \* a configuration that does not exist

VARIABLES
  declared,  \* what the running process declares
  published, \* configuration -> its rules
  changed    \* configurations somebody else changed since they were published

declarationVars == <<declared, published, changed>>

DeclarationInit ==
  /\ declared = Nothing
  /\ published = [o \in Object |-> Nowhere]
  /\ changed = {}

Declare ==
  /\ declared = Nothing /\ declared' \in Declarations
  /\ UNCHANGED <<published, changed>>

Withdraw ==
  /\ declared' = Nothing
  /\ UNCHANGED <<published, changed>>

Publish(o) ==
  /\ o \in DOMAIN declared
  /\ published' = [published EXCEPT ![o] = declared[o]]
  /\ changed' = changed \ {o}
  /\ UNCHANGED declared

ChangedByOthers(o) ==
  /\ published[o] # Nowhere
  /\ published' = [published EXCEPT ![o] = published'[o]]
  /\ changed' = changed \cup {o}
  /\ UNCHANGED declared

DeclarationNext ==
  \/ Declare \/ Withdraw
  \/ \E o \in Object : Publish(o) \/ ChangedByOthers(o)

DeclarationSpec == DeclarationInit /\ [][DeclarationNext]_declarationVars
=============================================================================
