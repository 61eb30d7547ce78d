---------------------------- MODULE MCSessionStore ----------------------------
(***************************************************************************)
(* Two processes, two logins, two tokens.  The entries: t1 with the        *)
(* default lifetime, t2 with a lifetime of one tick, both with the expiry  *)
(* left to the store.                                                      *)
(***************************************************************************)
EXTENDS SessionStore, TLC

CONSTANTS t1, t2, p1, p2

MCGiven == {[token |-> t1, expiresAt |-> 0, lifetime |-> 0, update |-> TRUE],
            [token |-> t2, expiresAt |-> 0, lifetime |-> 1, update |-> FALSE]}

ProcSymmetry == Permutations({p1, p2})
===============================================================================
