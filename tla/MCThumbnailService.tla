--------------------------- MODULE MCThumbnailService --------------------------
(* TLC instances of ThumbnailService: the symmetry of the safety run.       *)
EXTENDS ThumbnailService, TLC

Symmetry == Permutations(Requests) \cup Permutations(Tiers)
================================================================================
