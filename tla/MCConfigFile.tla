------------------------------ MODULE MCConfigFile ------------------------------
(***************************************************************************)
(* Two processes, two profiles, two accounts: enough for a profile to be   *)
(* lost, a default to be moved and a session of the outgoing profile to be *)
(* somebody else's.                                                        *)
(***************************************************************************)
EXTENDS ConfigFile, TLC

CONSTANTS p1, p2, w1, w2

ConfigSymmetry == Permutations({p1, p2}) \cup Permutations({w1, w2})
===============================================================================
