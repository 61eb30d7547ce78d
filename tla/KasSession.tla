------------------------------- MODULE KasSession -------------------------------
(***************************************************************************)
(* The life of a KAS session token: kasapi-cli processes of one login that *)
(* use auth_type=session, the sessions.toml they share and the KAS server. *)
(*                                                                         *)
(* A process runs api.Client.Call over an auth.SessionTokenSource          *)
(* (Credentials, Invalidate, Heartbeat), or logs out (`sessions delete`,   *)
(* the logout in `config use-profile`).  The store appears as what         *)
(* SessionMap promises: each of its operations is one step, which may fail *)
(* without effect.  The command line makes one Call per process; with      *)
(* Reuse a source serves several, as the packages allow.                   *)
(*                                                                         *)
(* The server is external.  It issues tokens, extends the sessions created *)
(* with session_update_lifetime=Y, forgets expired and revoked ones, and   *)
(* may drop a session at any time.                                         *)
(***************************************************************************)
EXTENDS SessionOps

CONSTANTS Proc,     \* processes (a slot is used by one run after another)
          me,       \* the login they all use
          NoToken,  \* no token in memory
          Options,  \* [lifetime, update]: the session flags of a run
          Reuse,    \* whether a source serves more than one Call
          MaxTime   \* bound on the clock

ASSUME MeAssumption == me \in Login
ASSUME NoTokenAssumption == NoToken \notin Token
ASSUME OptionsAssumption == Options \subseteq [lifetime : Nat, update : BOOLEAN]
ASSUME ReuseAssumption == Reuse \in BOOLEAN
ASSUME MaxTimeAssumption == MaxTime \in Nat

VARIABLES now,      \* the clock of machine and server
          table,    \* the cached sessions
          server,   \* server[t]: the session of token t at the KAS server
          pc,       \* where each process is
          mem,      \* its SessionTokenSource
          found,    \* the entry Load gave it
          retried,  \* whether its Call is past the auth-failure retry
          reply,    \* how its Call ended
          rejected, \* the tokens the server refused its current Call
          gone      \* the tokens that have left the cache

procVars == <<pc, mem, found, retried, reply, rejected>>
vars == <<now, table, server, procVars, gone>>

Flags == [lifetime : Nat, update : BOOLEAN]
NoFlags == [lifetime |-> 0, update |-> FALSE]

\* lifetime and update are what the source works with, flags what the run's
\* command line says (and what its KasAuth request carries).
Source == [token : Token \cup {NoToken}, expiresAt : Nat, loaded : BOOLEAN,
           lifetime : Nat, update : BOOLEAN, flags : Flags]

NewSource(o) == [token |-> NoToken, expiresAt |-> 0, loaded |-> FALSE,
                 lifetime |-> o.lifetime, update |-> o.update, flags |-> o]

Session == [status : {"unissued", "live", "revoked"}, expiresAt : Nat,
            lifetime : Nat, update : BOOLEAN]

Steps == {"off", "idle", "cred", "adopt", "auth", "granted", "save", "post",
          "invalidate", "beat", "refresh", "revoke", "drop"}

Replies == {"none", "ok", "auth_fault", "error", "login_failed"}

TypeOK ==
    /\ now \in 0..MaxTime
    /\ table \in Table
    /\ server \in [Token -> Session]
    /\ pc \in [Proc -> Steps]
    /\ mem \in [Proc -> Source]
    /\ found \in [Proc -> Entry \cup {NoEntry}]
    /\ retried \in [Proc -> BOOLEAN]
    /\ reply \in [Proc -> Replies]
    /\ rejected \in [Proc -> SUBSET Token]
    /\ gone \in SUBSET Token

Init ==
    /\ now = 0
    /\ table = NoSessions
    /\ server = [t \in Token |-> [status |-> "unissued", expiresAt |-> 0,
                                  lifetime |-> 0, update |-> FALSE]]
    /\ pc = [p \in Proc |-> "off"]
    /\ mem = [p \in Proc |-> NewSource(NoFlags)]
    /\ found = [p \in Proc |-> NoEntry]
    /\ retried = [p \in Proc |-> FALSE]
    /\ reply = [p \in Proc |-> "none"]
    /\ rejected = [p \in Proc |-> {}]
    /\ gone = {}

Tick ==
    /\ now < MaxTime
    /\ now' = now + 1
    /\ UNCHANGED <<table, server, procVars, gone>>

-------------------------------------------------------------------------------
\* The server.

Alive(t) == server[t].status = "live" /\ now < server[t].expiresAt

\* The session KasAuth creates for the flags o.
Granted(o) == [status |-> "live", expiresAt |-> now + LifetimeOf(o),
               lifetime |-> LifetimeOf(o), update |-> o.update]

\* The sessions after a request with token t was served.
Served(t) ==
    IF Alive(t) /\ server[t].update
    THEN [server EXCEPT ![t].expiresAt = now + server[t].lifetime] ELSE server

Revoked(t) == [server EXCEPT ![t].status = "revoked"]

\* A restart of the server, or another tool, ends a session.
Kill(t) ==
    /\ server[t].status = "live"
    /\ server' = Revoked(t)
    /\ UNCHANGED <<now, table, procVars, gone>>

-------------------------------------------------------------------------------
\* Frames and the cached session.

Goto(p, label) == pc' = [pc EXCEPT ![p] = label]
Cached == table[me]

\* The cache becomes t; the token it held before may have left it.
Store(t) ==
    /\ table' = t
    /\ gone' = IF Cached # NoEntry /\ (t[me] = NoEntry \/ t[me].token # Cached.token)
               THEN gone \cup {Cached.token} ELSE gone

KeepStore == UNCHANGED <<table, gone>>

\* An operation of the store: done, or failed and logged by its caller.
TryStore(t) == Store(t) \/ KeepStore

-------------------------------------------------------------------------------
\* The decisions of auth.SessionTokenSource, and slips the properties catch.

\* cachedValid: a token without an expiry counts as valid.
cachedValid(p) ==
    /\ mem[p].token # NoToken
    /\ mem[p].expiresAt = 0 \/ now < mem[p].expiresAt

\* What Credentials does with a valid persisted entry.
TokenOnly(m, e) == [m EXCEPT !.token = e.token, !.expiresAt = e.expiresAt]
Adopted(m, e) ==
    [m EXCEPT !.token = e.token, !.expiresAt = e.expiresAt,
              !.lifetime = IF e.lifetime > 0 THEN e.lifetime ELSE @,
              !.update = e.update]

\* Invalidate in memory: loaded keeps Credentials from reading back what the
\* delete could not remove, and the run's flags count again.
LoadsAgain(m) == [m EXCEPT !.token = NoToken, !.expiresAt = 0, !.loaded = FALSE,
                           !.lifetime = m.flags.lifetime, !.update = m.flags.update]
KeepsAdopted(m) == [m EXCEPT !.token = NoToken, !.expiresAt = 0, !.loaded = TRUE]
Cleared(m) == [m EXCEPT !.token = NoToken, !.expiresAt = 0, !.loaded = TRUE,
                        !.lifetime = m.flags.lifetime, !.update = m.flags.update]

\* The entry Save and Refresh persist for the token in memory.
EntryOf(m) == [token |-> m.token, expiresAt |-> m.expiresAt,
               lifetime |-> LifetimeOf(m), update |-> m.update]

\* The table after a heartbeat: Refresh, not Save.
SavedAgain(e) == Put(table, me, e)
Refreshed(e) == IF Matches(table, me, e) THEN Put(table, me, e) ELSE table

-------------------------------------------------------------------------------
\* A run of the program.

\* A fresh process with the flags o calls the API.
Start(p, o) ==
    /\ pc[p] = "off"
    /\ Goto(p, "cred")
    /\ mem' = [mem EXCEPT ![p] = NewSource(o)]
    /\ UNCHANGED <<now, table, server, found, retried, reply, rejected, gone>>

\* The process ends, or is killed wherever it is.
Stop(p) ==
    /\ pc[p] # "off"
    /\ Goto(p, "off")
    /\ mem' = [mem EXCEPT ![p] = NewSource(NoFlags)]
    /\ found' = [found EXCEPT ![p] = NoEntry]
    /\ retried' = [retried EXCEPT ![p] = FALSE]
    /\ reply' = [reply EXCEPT ![p] = "none"]
    /\ rejected' = [rejected EXCEPT ![p] = {}]
    /\ UNCHANGED <<now, table, server, gone>>

\* The next Call over the same source.
Call(p) ==
    /\ Reuse
    /\ pc[p] = "idle"
    /\ Goto(p, "cred")
    /\ retried' = [retried EXCEPT ![p] = FALSE]
    /\ reply' = [reply EXCEPT ![p] = "none"]
    /\ UNCHANGED <<now, table, server, mem, found, rejected, gone>>

\* Call returns r.  The source is done with unless it serves another Call.
Return(p, r) ==
    /\ Goto(p, "idle")
    /\ reply' = [reply EXCEPT ![p] = r]
    /\ mem' = IF Reuse THEN mem ELSE [mem EXCEPT ![p] = NewSource(NoFlags)]
    /\ rejected' = [rejected EXCEPT ![p] = {}]

-------------------------------------------------------------------------------
\* Credentials: the token in memory, the persisted one, or a login.

UseCached(p) ==
    /\ pc[p] = "cred"
    /\ cachedValid(p)
    /\ Goto(p, "post")
    /\ UNCHANGED <<now, table, server, mem, found, retried, reply, rejected, gone>>

\* The store is read once per source.
LoadStored(p) ==
    /\ pc[p] = "cred"
    /\ ~cachedValid(p) /\ ~mem[p].loaded
    /\ mem' = [mem EXCEPT ![p].loaded = TRUE]
    /\ \/ /\ Cached # NoEntry /\ ~Expired(Cached, now)
          /\ found' = [found EXCEPT ![p] = Cached]
          /\ Goto(p, "adopt")
          /\ KeepStore
       \/ /\ Cached # NoEntry /\ Expired(Cached, now)
          /\ Store(Drop(table, me))
          /\ Goto(p, "auth")
          /\ UNCHANGED found
       \/ \* no entry, or Load fails: the warning is all that is left of it
          /\ Goto(p, "auth")
          /\ KeepStore
          /\ UNCHANGED found
    /\ UNCHANGED <<now, server, retried, reply, rejected>>

\* The entry was valid when Load looked; Credentials looks again.
Adopt(p) ==
    /\ pc[p] = "adopt"
    /\ IF Expired(found[p], now)
       THEN Goto(p, "auth") /\ UNCHANGED mem
       ELSE /\ Goto(p, "post")
            /\ mem' = [mem EXCEPT ![p] = Adopted(@, found[p])]
    /\ found' = [found EXCEPT ![p] = NoEntry]
    /\ UNCHANGED <<now, table, server, retried, reply, rejected, gone>>

\* Neither memory nor, any more, the store has a valid token.
NothingCached(p) ==
    /\ pc[p] = "cred"
    /\ ~cachedValid(p) /\ mem[p].loaded
    /\ Goto(p, "auth")
    /\ UNCHANGED <<now, table, server, mem, found, retried, reply, rejected, gone>>

\* KasAuth creates a session for the flags of the run ...
LoginGranted(p, t) ==
    /\ pc[p] = "auth"
    /\ server[t].status = "unissued"
    /\ server' = [server EXCEPT ![t] = Granted(mem[p].flags)]
    /\ mem' = [mem EXCEPT ![p].token = t]
    /\ Goto(p, "granted")
    /\ UNCHANGED <<now, table, found, retried, reply, rejected, gone>>

\* ... or refuses, or the answer is lost: callOnce wraps the error.
LoginFails(p) ==
    /\ pc[p] = "auth"
    /\ \/ UNCHANGED server
       \/ \E t \in Token : /\ server[t].status = "unissued"
                           /\ server' = [server EXCEPT ![t] = Granted(mem[p].flags)]
    /\ Return(p, "login_failed")
    /\ UNCHANGED <<now, table, found, retried, gone>>

\* The expiry is counted from the arrival of the answer.
TakeToken(p) ==
    /\ pc[p] = "granted"
    /\ mem' = [mem EXCEPT ![p].expiresAt = now + LifetimeOf(mem[p])]
    /\ Goto(p, "save")
    /\ UNCHANGED <<now, table, server, found, retried, reply, rejected, gone>>

SaveToken(p) ==
    /\ pc[p] = "save"
    /\ TryStore(Put(table, me, EntryOf(mem[p])))
    /\ Goto(p, "post")
    /\ UNCHANGED <<now, server, mem, found, retried, reply, rejected>>

-------------------------------------------------------------------------------
\* The request and what Call makes of its outcome.

PostServed(p) ==
    /\ pc[p] = "post"
    /\ Alive(mem[p].token)
    /\ server' = Served(mem[p].token)
    /\ Goto(p, "beat")
    /\ UNCHANGED <<now, table, mem, found, retried, reply, rejected, gone>>

\* A fault IsAuthFailure knows: for a dead token, and kas_access_forbidden
\* for one that is alive.  The first one leads to the retry.
PostRefused(p) ==
    /\ pc[p] = "post"
    /\ \/ /\ ~retried[p]
          /\ Goto(p, "invalidate")
          /\ rejected' = [rejected EXCEPT ![p] = @ \cup {mem[p].token}]
          /\ UNCHANGED <<mem, reply>>
       \/ /\ retried[p]
          /\ Return(p, "auth_fault")
    /\ UNCHANGED <<now, table, server, found, retried, gone>>

\* Any other fault or a transport error; the server may have served it.
PostFails(p) ==
    /\ pc[p] = "post"
    /\ server' \in {server, Served(mem[p].token)}
    /\ Return(p, "error")
    /\ UNCHANGED <<now, table, found, retried, gone>>

\* Invalidate, on an empty context so that the delete is not cut off, and the
\* second callOnce.  The delete does not look at the token it drops.
Invalidate(p) ==
    /\ pc[p] = "invalidate"
    /\ mem' = [mem EXCEPT ![p] = Cleared(@)]
    /\ TryStore(Drop(table, me))
    /\ retried' = [retried EXCEPT ![p] = TRUE]
    /\ Goto(p, "cred")
    /\ UNCHANGED <<now, server, found, reply, rejected>>

\* Heartbeat computes the new expiry ...
Beat(p) ==
    /\ pc[p] = "beat"
    /\ mem[p].update /\ mem[p].token # NoToken
    /\ mem' = [mem EXCEPT ![p].expiresAt = now + LifetimeOf(mem[p])]
    /\ Goto(p, "refresh")
    /\ UNCHANGED <<now, table, server, found, retried, reply, rejected, gone>>

\* ... unless the session has a fixed window.
NoBeat(p) ==
    /\ pc[p] = "beat"
    /\ ~mem[p].update \/ mem[p].token = NoToken
    /\ Return(p, "ok")
    /\ UNCHANGED <<now, table, server, found, retried, gone>>

\* Refresh persists it.
RefreshStored(p) ==
    /\ pc[p] = "refresh"
    /\ TryStore(Refreshed(EntryOf(mem[p])))
    /\ Return(p, "ok")
    /\ UNCHANGED <<now, server, found, retried>>

-------------------------------------------------------------------------------
\* Logging out: Load, delete_session, Delete.

\* Nothing is done without an entry, or when Load fails.
Logout(p) ==
    /\ pc[p] = "off"
    /\ Cached # NoEntry
    /\ \/ /\ ~Expired(Cached, now)
          /\ found' = [found EXCEPT ![p] = Cached]
          /\ Goto(p, "revoke")
          /\ KeepStore
       \/ /\ Expired(Cached, now)
          /\ Store(Drop(table, me))
          /\ UNCHANGED <<found, pc>>
    /\ UNCHANGED <<now, server, mem, retried, reply, rejected>>

\* delete_session works, or fails (unknown_session, a lost request or answer).
RevokeToken(p) ==
    /\ pc[p] = "revoke"
    /\ \/ UNCHANGED server
       \/ Alive(found[p].token) /\ server' = Revoked(found[p].token)
    /\ Goto(p, "drop")
    /\ UNCHANGED <<now, table, mem, found, retried, reply, rejected, gone>>

\* The cache entry goes whatever became of the session.
DropCached(p) ==
    /\ pc[p] = "drop"
    /\ TryStore(Drop(table, me))
    /\ Goto(p, "off")
    /\ found' = [found EXCEPT ![p] = NoEntry]
    /\ UNCHANGED <<now, server, mem, retried, reply, rejected>>

Credentials(p) ==
    \/ UseCached(p) \/ LoadStored(p) \/ Adopt(p) \/ NothingCached(p)
    \/ (\E t \in Token : LoginGranted(p, t)) \/ LoginFails(p)
    \/ TakeToken(p) \/ SaveToken(p)

Exchange(p) == PostServed(p) \/ PostRefused(p) \/ PostFails(p)
Heartbeat(p) == Beat(p) \/ NoBeat(p) \/ RefreshStored(p)
SessionsDelete(p) == Logout(p) \/ RevokeToken(p) \/ DropCached(p)

Next ==
    \/ Tick
    \/ \E t \in Token : Kill(t)
    \/ \E p \in Proc :
          \/ \E o \in Options : Start(p, o)
          \/ Stop(p) \/ Call(p) \/ Credentials(p) \/ Exchange(p)
          \/ Invalidate(p) \/ Heartbeat(p) \/ SessionsDelete(p)

Spec == Init /\ [][Next]_vars

-------------------------------------------------------------------------------
\* Properties.

\* A token the server refused is not sent again by the same Call, not even when
\* the delete of its cache entry failed or another process wrote the entry back:
\* the one retry is never spent on a token known to be dead.
NoReuseOfRejected ==
    \A p \in Proc : pc[p] = "post" => mem[p].token \notin rejected[p]

\* What is known about a session is what the server was asked for when it was
\* created.  The cached entry says so, whichever process wrote or refreshed it
\* and whatever flags that process was started with; and a source works with the
\* properties of the session whose token it holds: a login made for the flags of
\* this run is not described by the session adopted before ("the next fresh
\* session honours the current run's CLI flags").
SessionsAreDescribed ==
    /\ Cached # NoEntry =>
          /\ server[Cached.token].status # "unissued"
          /\ Cached.lifetime = server[Cached.token].lifetime
          /\ Cached.update = server[Cached.token].update
    /\ \A p \in Proc : pc[p] \in {"save", "post", "beat", "refresh"} =>
          /\ LifetimeOf(mem[p]) = server[mem[p].token].lifetime
          /\ mem[p].update = server[mem[p].token].update

\* The expiry of a session with a fixed window is never moved: no heartbeat of
\* a run with --session-update-lifetime=Y makes it look alive for longer.
FixedWindowIsKept ==
    [][Cached # NoEntry /\ Cached' # NoEntry /\ Cached'.token = Cached.token
         /\ ~server[Cached.token].update
       => Cached'.expiresAt = Cached.expiresAt]_vars

\* A token that left the cache, by a newer login, an invalidation or a logout,
\* does not come back: the late heartbeat of a process that still uses it does
\* not undo what the others did since ("would clobber that update").
LeftStoreNeverReturns == Cached # NoEntry => Cached.token \notin gone

\* internal/session/doc.go: a login is not repeated while the server keeps the
\* session alive.  So an invalidation drops no live session but its own.
LiveSessionSurvives ==
    [][\A p \in Proc :
         pc[p] = "invalidate" /\ Cached # NoEntry /\ Cached' = NoEntry
         => Cached.token \in rejected[p] \/ ~Alive(Cached.token)]_vars
===============================================================================
