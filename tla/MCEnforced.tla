----------------------------- MODULE MCEnforced -----------------------------
(***************************************************************************)
(* The instance that satisfies, besides, what the promises of the README   *)
(* suppose.                                                                *)
(***************************************************************************)
EXTENDS MCReviews

ASSUME ReviewAssumption == EveryWriteIsReviewed
ASSUME LabelsAssumption == OneLabelRule
ASSUME ExclusivesAssumption == ExclusivesAreObjects
=============================================================================
