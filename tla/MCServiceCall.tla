---------------------------- MODULE MCServiceCall ---------------------------
(* A small instance of ServiceCall for TLC.                                *)
EXTENDS ServiceCall

CONSTANTS t1, t2        \* the transporters of the mesh

MCRpcs == <<t1, t2>>
=============================================================================
