--------------------------- MODULE MCMediaAssets ----------------------------
(* Instances of MediaAssets for TLC.                                       *)
EXTENDS MediaAssets
=============================================================================
