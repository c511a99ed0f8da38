---------------------------- MODULE MCServiceBook ----------------------------
(* ServiceBookProperties on small instances; the bounds are in the configurations. *)
EXTENDS ServiceBookProperties
=============================================================================
