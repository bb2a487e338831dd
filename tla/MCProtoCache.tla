---------------------------- MODULE MCProtoCache ----------------------------
(* Instances of ProtoCache for TLC.                                        *)
EXTENDS ProtoCache
=============================================================================
