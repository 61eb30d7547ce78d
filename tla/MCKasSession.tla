------------------------------ MODULE MCKasSession ------------------------------
(***************************************************************************)
(* Two processes and two sessions.  A run has no session flags (the        *)
(* default lifetime of one tick, a fixed window) or asks for a session of  *)
(* two ticks that every request extends.                                   *)
(***************************************************************************)
EXTENDS KasSession, TLC

CONSTANTS t1, t2, p1, p2

MCOptions == {[lifetime |-> 0, update |-> FALSE], [lifetime |-> 2, update |-> TRUE]}

KasSymmetry == Permutations({p1, p2}) \cup Permutations({t1, t2})
===============================================================================
