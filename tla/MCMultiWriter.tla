--------------------------- MODULE MCMultiWriter ----------------------------
(***************************************************************************)
(* MultiWriter for TLC: hosts are interchangeable, and so are the          *)
(* processes of a host.                                                    *)
(***************************************************************************)
EXTENDS MultiWriter, TLC

Symmetry == Permutations(Hosts) \cup Permutations(Procs)
=============================================================================
