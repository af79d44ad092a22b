---------------------------- MODULE MCSlabKvCache ----------------------------
(* Two slots of three tokens, one layer, two leases per slot: both slots can   *)
(* be leased, freed and leased again while every old handle is still presented.*)
EXTENDS SlabKvCache
=============================================================================
