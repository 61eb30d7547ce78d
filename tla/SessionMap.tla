------------------------------ MODULE SessionMap ------------------------------
(***************************************************************************)
(* What session.Store promises its callers: a table of sessions on which   *)
(* every Load, Save, Refresh and Delete of every process takes effect at   *)
(* one instant between its call and its return, or fails and leaves the    *)
(* table alone.  A process that dies loses its call; the call has then     *)
(* taken effect entirely or not at all.  Files and locks do not appear.    *)
(***************************************************************************)
EXTENDS SessionOps

CONSTANTS Proc,       \* kasapi-cli processes (one slot is reused by later runs)
          MaxTime     \* bound on the clock

VARIABLES now,   \* the wall clock, shared by all processes of the machine
          table, \* the cached sessions
          req,   \* req[p]: the call p is in, or NoReq
          out    \* out[p]: its outcome once it took effect

vars == <<now, table, req, out>>

TypeOK ==
    /\ now \in 0..MaxTime
    /\ table \in Table
    /\ req \in [Proc -> Request \cup {NoReq}]
    /\ out \in [Proc -> Outcome]

Init ==
    /\ now = 0
    /\ table \in Table
    /\ req = [p \in Proc |-> NoReq]
    /\ out = [p \in Proc |-> Answer("pending")]

Tick ==
    /\ now < MaxTime
    /\ now' = now + 1
    /\ UNCHANGED <<table, req, out>>

Call(p, r) ==
    /\ req[p] = NoReq
    /\ req' = [req EXCEPT ![p] = r]
    /\ UNCHANGED <<now, table, out>>

Pending(p, op) ==
    /\ req[p] # NoReq
    /\ req[p].op = op
    /\ out[p] = Answer("pending")

Finish(p, answer) ==
    /\ out' = [out EXCEPT ![p] = answer]
    /\ UNCHANGED <<now, req>>

DoLoad(p) ==
    /\ Pending(p, "Load")
    /\ LET l == req[p].login IN
       \/ /\ table[l] = NoEntry
          /\ Finish(p, Answer("nil"))
          /\ UNCHANGED table
       \/ /\ table[l] # NoEntry
          /\ ~Expired(table[l], now)
          /\ Finish(p, Found(table[l]))
          /\ UNCHANGED table
       \/ /\ table[l] # NoEntry
          /\ Expired(table[l], now)
          /\ Finish(p, Answer("nil"))
          /\ table' = Drop(table, l)

DoSave(p) ==
    /\ Pending(p, "Save")
    /\ Finish(p, Answer("ok"))
    /\ table' = Put(table, req[p].login, req[p].entry)

DoRefresh(p) ==
    /\ Pending(p, "Refresh")
    /\ Finish(p, Answer("ok"))
    /\ table' = IF Matches(table, req[p].login, req[p].entry)
                THEN Put(table, req[p].login, req[p].entry) ELSE table

DoDelete(p) ==
    /\ Pending(p, "Delete")
    /\ Finish(p, Answer("ok"))
    /\ table' = Drop(table, req[p].login)

\* An I/O error or an unobtainable lock: reported, and without effect.  That is so of a
\* Load of an expired entry too: the comment over it says that it returns no error and
\* that the entry is removed as well as may be, but the code returns the error of the
\* removal, and this is the promise its callers can rely on.
Fail(p) ==
    /\ req[p] # NoReq
    /\ out[p] = Answer("pending")
    /\ Finish(p, Answer("error"))
    /\ UNCHANGED table

Return(p) ==
    /\ req[p] # NoReq
    /\ out[p] # Answer("pending")
    /\ req' = [req EXCEPT ![p] = NoReq]
    /\ out' = [out EXCEPT ![p] = Answer("pending")]
    /\ UNCHANGED <<now, table>>

\* The process dies inside the call, before or after it took effect.
Crash(p) ==
    /\ req[p] # NoReq
    /\ req' = [req EXCEPT ![p] = NoReq]
    /\ out' = [out EXCEPT ![p] = Answer("pending")]
    /\ UNCHANGED <<now, table>>

Next ==
    \/ Tick
    \/ \E p \in Proc :
         \/ \E r \in RequestsAt(now) : Call(p, r)
         \/ DoLoad(p) \/ DoSave(p) \/ DoRefresh(p) \/ DoDelete(p)
         \/ Fail(p) \/ Return(p) \/ Crash(p)

Spec == Init /\ [][Next]_vars
===============================================================================
