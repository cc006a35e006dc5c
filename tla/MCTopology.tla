----------------------------- MODULE MCTopology -----------------------------
(* Small instances of Topology for TLC: nothing but a symmetry.            *)
EXTENDS Topology, TLC

\* The transporters are interchangeable: no action treats one differently.
TransporterSymmetry == Permutations(Transporters)
=============================================================================
