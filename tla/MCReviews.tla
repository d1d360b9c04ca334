----------------------------- MODULE MCReviews ------------------------------
(***************************************************************************)
(* The instances that keep the promises: their values and listings satisfy *)
(* what the theorems about Promises suppose.                               *)
(***************************************************************************)
EXTENDS MCValidator

ASSUME TextsAssumption == TextsAreMeanings
ASSUME ListingAssumption == FirstEntryIsRight
=============================================================================
