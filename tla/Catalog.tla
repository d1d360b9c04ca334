------------------------------ MODULE Catalog -------------------------------
(***************************************************************************)
(* The IBM Cloud catalog, asked by the webhook whether the plan of a       *)
(* service may be changed.                                                 *)
(*                                                                         *)
(* A reply is [ok |-> BOOLEAN, resources |-> a sequence]: ok is FALSE for  *)
(* a call that times out (15 s), is refused or has a status other than     *)
(* 200.  An entry is [kind, name, updateable].                             *)
(***************************************************************************)
EXTENDS Integers, Sequences

\* getPlanUpdateables: the services of the listing it returns, as positions.
\* The kind is read from every entry, plan_updateable from the first one.
PlanUpdateables(resources) ==
  {i \in DOMAIN resources : /\ resources[i].kind = "service"
                            /\ resources[1].updateable}

\* isUpdateable
Updateable(reply) ==
  /\ reply.ok
  /\ PlanUpdateables(reply.resources) # {}
=============================================================================
