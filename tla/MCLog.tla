------------------------------- MODULE MCLog -------------------------------
(***************************************************************************)
(* The log on small instances, sized as SizedAssumption of LogInvariant    *)
(* demands.                                                                *)
(***************************************************************************)
EXTENDS LogProofs
=============================================================================
