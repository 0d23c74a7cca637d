------------------------- MODULE MCReleasePipeline -------------------------
(* A small instance of ReleasePipeline for TLC: the full tables of sites and *)
(* registries, two versions.                                                *)
EXTENDS ReleasePipeline
=============================================================================
