------------------------------ MODULE SessionOps ------------------------------
(***************************************************************************)
(* The pure part of internal/session: what an operation of the store does  *)
(* to the table of cached sessions (login -> entry), whatever file, lock   *)
(* or process it goes through.  An entry is                                *)
(*     [token, expiresAt, lifetime, update]                                *)
(* with the fields of session.Entry: expiresAt = 0 is Go's zero time,      *)
(* lifetime = 0 an unset lifetime_seconds.  NoEntry marks a login the      *)
(* table does not hold.                                                    *)
(***************************************************************************)
EXTENDS Integers

CONSTANTS Login,            \* KAS logins, the keys of sessions.toml
          Token,            \* credential tokens
          NoEntry,          \* what the table holds for an absent login
          DefaultLifetime   \* session.DefaultLifetime, in ticks of the clock

ASSUME DefaultLifetimeAssumption == DefaultLifetime \in Nat \ {0}

Entry == [token : Token, expiresAt : Nat, lifetime : Nat, update : BOOLEAN]

ASSUME NoEntryAssumption == NoEntry \notin Entry

Table == [Login -> Entry \cup {NoEntry}]

\* The table without a session, and the test for it that deleteLocked makes.
NoSessions == [l \in Login |-> NoEntry]

KeepsEmpty(table) == FALSE
IsEmpty(table) == \A l \in Login : table[l] = NoEntry

\* Store.lifetime: an unset lifetime means the documented KasAuth default.
LifetimeOf(e) == IF e.lifetime > 0 THEN e.lifetime ELSE DefaultLifetime

\* Save and Refresh fill a zero expires_at from the clock before they lock.
Filled(e, now) ==
    IF e.expiresAt = 0 THEN [e EXCEPT !.expiresAt = now + LifetimeOf(e)] ELSE e

\* Load's test: a zero expires_at counts as expired.
Expired(e, now) == e.expiresAt = 0 \/ now >= e.expiresAt

\* Refresh writes only while the stored entry carries the same token.
MatchesAny(table, l, e) == table[l] # NoEntry
Matches(table, l, e) == table[l] # NoEntry /\ table[l].token = e.token

Put(table, l, e) == [table EXCEPT ![l] = e]

\* Deleting the key of l; a slip would leave a blank entry in its place.
Blank(table, l) == [table EXCEPT ![l] = [token |-> NoEntry, expiresAt |-> 0,
                                         lifetime |-> 0, update |-> FALSE]]
Drop(table, l) == [table EXCEPT ![l] = NoEntry]

-------------------------------------------------------------------------------
\* Requests of the store's callers, and what they get back.

CONSTANTS Given, \* the entries callers pass to Save and Refresh
          NoReq  \* what a process outside the store has asked for

ASSUME GivenAssumption == Given \subseteq Entry

Request == [op : {"Load", "Delete"}, login : Login, entry : {NoEntry}]
           \cup [op : {"Save", "Refresh"}, login : Login, entry : Entry]

ASSUME NoReqAssumption == NoReq \notin Request

\* What may be asked for at time now: Save and Refresh fill a zero expiry.
RequestsAt(now) ==
    [op : {"Load", "Delete"}, login : Login, entry : {NoEntry}]
    \cup [op : {"Save", "Refresh"}, login : Login,
          entry : {Filled(e, now) : e \in Given}]

\* An outcome: not known yet, no error, nil without error, or an error ...
Answer(what) == [what |-> what, entry |-> NoEntry]
\* ... or the entry a Load found.
Found(e) == [what |-> "entry", entry |-> e]

Outcome == [what : {"pending", "ok", "nil", "error"}, entry : {NoEntry}]
           \cup [what : {"entry"}, entry : Entry]
===============================================================================
