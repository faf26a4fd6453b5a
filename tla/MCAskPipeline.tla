--------------------------- MODULE MCAskPipeline ---------------------------
(***************************************************************************)
(* Instances of AskPipeline for TLC.                                       *)
(***************************************************************************)
EXTENDS AskPipeline, TLC

\* All questions are near duplicates of each other.
AllNear == Questions \X Questions

Symmetry == Permutations(Requests)
=============================================================================
