---------------------------- MODULE KasSessionProofs ----------------------------
(***************************************************************************)
(* Proofs about KasSession, for any processes, tokens, session flags and   *)
(* bound on the clock: no call sends a token again that was refused to it, *)
(* no token that left the cache returns (both with or without Reuse), and, *)
(* for one Call per process as the command line makes it, that what is     *)
(* known of a session is what it was created for, and that a fixed window  *)
(* is not moved.                                                           *)
(***************************************************************************)
EXTENDS KasSession, TLAPS

-------------------------------------------------------------------------------
\* The operators on entries and sources.

\* The lifetime in force is at least one tick.
LEMMA LifetimeFact ==
    ASSUME NEW e, e.lifetime \in Nat
    PROVE  /\ LifetimeOf(e) \in Nat \ {0}
           /\ e.lifetime > 0 => LifetimeOf(e) = e.lifetime
BY DefaultLifetimeAssumption DEF LifetimeOf

\* The sources a run works with.
LEMMA NewSourceFact == ASSUME NEW o \in Flags PROVE NewSource(o) \in Source
BY DEF NewSource, Source, Flags

LEMMA AdoptedFact ==
    ASSUME NEW m \in Source, NEW e \in Entry
    PROVE  /\ Adopted(m, e) \in Source
           /\ Adopted(m, e).token = e.token
BY DEF Adopted, Source, Entry

LEMMA ClearedFact ==
    ASSUME NEW m \in Source
    PROVE  /\ Cleared(m) \in Source
           /\ Cleared(m).token = NoToken /\ Cleared(m).loaded
BY DEF Cleared, Source, Flags

LEMMA FieldsFact ==
    ASSUME NEW m \in Source
    PROVE  /\ [m EXCEPT !.loaded = TRUE] \in Source
           /\ [m EXCEPT !.loaded = TRUE].token = m.token
           /\ \A t \in Token : /\ [m EXCEPT !.token = t] \in Source
                               /\ [m EXCEPT !.token = t].token = t
           /\ \A n \in Nat : /\ [m EXCEPT !.expiresAt = n] \in Source
                             /\ [m EXCEPT !.expiresAt = n].token = m.token
                             /\ [m EXCEPT !.expiresAt = n].update = m.update
BY DEF Source

\* What a source with a token persists.
LEMMA EntryFact ==
    ASSUME NEW m \in Source, m.token # NoToken
    PROVE  EntryOf(m) \in Entry /\ EntryOf(m).token = m.token
<1>1. LifetimeOf(m) \in Nat
  BY LifetimeFact DEF Source
<1> QED
  BY <1>1 DEF EntryOf, Source, Entry

\* What happens to the sessions at the server when a request is served, a
\* session ends, or one is created: an issued one keeps what it was created for.
Issued(t) == server[t].status # "unissued"

Kept(old, new) ==
    \A t \in Token : old[t].status # "unissued" =>
       /\ new[t].status # "unissued"
       /\ new[t].lifetime = old[t].lifetime /\ new[t].update = old[t].update

LEMMA ServedFact ==
    ASSUME TypeOK, NEW t \in Token
    PROVE  /\ Served(t) \in [Token -> Session] /\ Kept(server, Served(t))
           /\ \A u \in Token : Served(t)[u].status = server[u].status
BY DEF TypeOK, Session, Served, Kept

LEMMA RevokedFact ==
    ASSUME TypeOK, NEW t \in Token
    PROVE  Revoked(t) \in [Token -> Session]
           /\ (Issued(t) => Kept(server, Revoked(t)))
BY DEF TypeOK, Session, Revoked, Kept, Issued

LEMMA GrantedFact ==
    ASSUME TypeOK, NEW t \in Token, ~Issued(t), NEW o \in Flags
    PROVE  /\ [server EXCEPT ![t] = Granted(o)] \in [Token -> Session]
           /\ Kept(server, [server EXCEPT ![t] = Granted(o)])
           /\ [server EXCEPT ![t] = Granted(o)][t].status # "unissued"
           /\ [server EXCEPT ![t] = Granted(o)][t].lifetime = LifetimeOf(o)
           /\ [server EXCEPT ![t] = Granted(o)][t].update = o.update
<1>1. LifetimeOf(o) \in Nat
  BY LifetimeFact DEF Flags
<1>2. Granted(o) \in Session
  BY <1>1, MaxTimeAssumption DEF Granted, Session, TypeOK, Flags
<1> QED
  BY <1>2 DEF TypeOK, Kept, Issued, Granted

\* Storing and dropping an entry of the login.
LEMMA PutFact ==
    ASSUME NEW tab \in Table, NEW e \in Entry
    PROVE  Put(tab, me, e) \in Table /\ Put(tab, me, e)[me] = e
BY MeAssumption DEF Put, Table

LEMMA DropFact ==
    ASSUME NEW tab \in Table
    PROVE  Drop(tab, me) \in Table /\ Drop(tab, me)[me] = NoEntry
BY MeAssumption DEF Drop, Table

-------------------------------------------------------------------------------
\* The inductive invariant.

\* The steps at which a source holds the token of a session.
Holding == {"granted", "save", "post", "beat", "refresh"}

\* What a process has at each step.
StepInv(p) ==
    /\ pc[p] \in Holding => mem[p].token # NoToken
    /\ pc[p] \in {"adopt", "revoke"} => found[p] # NoEntry
    /\ pc[p] = "refresh" => mem[p].update

\* A Call that was refused a token has let go of it and never reads the cache
\* again: what it sends next it was granted since.
RefusalInv(p) ==
    /\ pc[p] \in {"off", "idle", "adopt", "revoke", "drop"} => rejected[p] = {}
    /\ pc[p] = "cred" /\ rejected[p] # {} => mem[p].token = NoToken /\ mem[p].loaded
    /\ pc[p] \in {"granted", "save", "post"} => mem[p].token \notin rejected[p]

\* A token anybody knows was issued, for a lifetime of at least one tick.
KnownInv ==
    /\ \A t \in Token : Issued(t) => server[t].lifetime > 0
    /\ Cached # NoEntry => Issued(Cached.token)
    /\ \A t \in gone : Issued(t)
    /\ \A p \in Proc :
          /\ mem[p].token # NoToken => Issued(mem[p].token)
          /\ found[p] # NoEntry => Issued(found[p].token)
          /\ \A t \in rejected[p] : Issued(t)

\* Between its login and its Save a process is alone with the new token.
AloneInv ==
    \A p \in Proc : pc[p] \in {"granted", "save"} =>
       /\ mem[p].token \notin gone
       /\ Cached # NoEntry => Cached.token # mem[p].token
       /\ \A q \in Proc : found[q] # NoEntry => found[q].token # mem[p].token
       /\ \A q \in Proc \ {p} : mem[q].token # mem[p].token

KInv ==
    /\ TypeOK
    /\ \A p \in Proc : StepInv(p) /\ RefusalInv(p)
    /\ KnownInv
    /\ AloneInv
    /\ LeftStoreNeverReturns

\* For a source that serves one Call: before a login it works with the flags of
\* the run, and whoever knows a token knows what its session was created for.
AsCreated(e) ==
    e.lifetime = server[e.token].lifetime /\ e.update = server[e.token].update

SourceInv(p) ==
    /\ pc[p] = "cred" => mem[p].token = NoToken
    /\ pc[p] \in {"cred", "adopt", "auth"} =>
          mem[p].lifetime = mem[p].flags.lifetime /\ mem[p].update = mem[p].flags.update
    /\ pc[p] \in Holding =>
          /\ LifetimeOf(mem[p]) = server[mem[p].token].lifetime
          /\ mem[p].update = server[mem[p].token].update
    /\ found[p] # NoEntry => AsCreated(found[p])

CreatedInv ==
    /\ Cached # NoEntry => AsCreated(Cached)
    /\ \A p \in Proc : SourceInv(p)

-------------------------------------------------------------------------------
\* What a step may do.

RunStep(p) ==
    \/ \E o \in Options : Start(p, o)
    \/ Stop(p) \/ Call(p) \/ Credentials(p) \/ Exchange(p)
    \/ Invalidate(p) \/ Heartbeat(p) \/ SessionsDelete(p)

\* A process changes its own source only, to a source.
LEMMA MemStep ==
    ASSUME TypeOK, NEW p \in Proc, RunStep(p), StepInv(p)
    PROVE  UNCHANGED mem \/ \E m \in Source : mem' = [mem EXCEPT ![p] = m]
<1> DEFINE Goal == UNCHANGED mem \/ \E m \in Source : mem' = [mem EXCEPT ![p] = m]
<1>1. mem[p] \in Source /\ NewSource(NoFlags) \in Source
  BY NewSourceFact DEF TypeOK, NoFlags, Flags
<1>2. LifetimeOf(mem[p]) \in Nat
  BY <1>1, LifetimeFact DEF Source
<1>3. now + LifetimeOf(mem[p]) \in Nat
  BY <1>2, MaxTimeAssumption DEF TypeOK
<1>4. ASSUME NEW o \in Options, Start(p, o) PROVE Goal
  BY <1>4, NewSourceFact, OptionsAssumption DEF Start, Flags
<1>5. CASE Stop(p)
  BY <1>5, <1>1 DEF Stop
<1>6. CASE LoadStored(p)
  BY <1>6, <1>1, FieldsFact DEF LoadStored
<1>7. CASE Adopt(p)
  BY <1>7, <1>1, AdoptedFact DEF Adopt, StepInv, TypeOK
<1>8. ASSUME NEW t \in Token, LoginGranted(p, t) PROVE Goal
  BY <1>8, <1>1, FieldsFact DEF LoginGranted
<1>9. CASE TakeToken(p) \/ Beat(p)
  BY <1>9, <1>1, <1>3, FieldsFact DEF TakeToken, Beat
<1>10. CASE Invalidate(p)
  BY <1>10, <1>1, ClearedFact DEF Invalidate
<1>11. CASE LoginFails(p) \/ Exchange(p) \/ NoBeat(p) \/ RefreshStored(p)
  BY <1>11, <1>1
  DEF LoginFails, Exchange, PostServed, PostRefused, PostFails, NoBeat, RefreshStored, Return
<1>12. CASE Call(p) \/ UseCached(p) \/ NothingCached(p) \/ SaveToken(p)
            \/ SessionsDelete(p)
  BY <1>12 DEF Call, UseCached, NothingCached, SaveToken, SessionsDelete, Logout,
     RevokeToken, DropCached
<1> QED
  BY <1>4, <1>5, <1>6, <1>7, <1>8, <1>9, <1>10, <1>11, <1>12
  DEF RunStep, Credentials, Heartbeat

\* What a step does at the server: it serves a request, ends a session, or
\* creates one for the flags of the run.
ServerStep ==
    \/ UNCHANGED server
    \/ \E t \in Token : server' = Served(t) \/ (Issued(t) /\ server' = Revoked(t))
    \/ \E t \in Token, o \in Flags :
          ~Issued(t) /\ server' = [server EXCEPT ![t] = Granted(o)]

LEMMA ServerSteps ==
    ASSUME TypeOK, \A p \in Proc : StepInv(p), Next
    PROVE  ServerStep
<1>1. \A p \in Proc : mem[p] \in Source /\ mem[p].flags \in Flags
  BY DEF TypeOK, Source
<1>2. CASE Tick
  BY <1>2 DEF Tick, ServerStep
<1>3. CASE \E t \in Token : Kill(t)
  BY <1>3 DEF Kill, ServerStep, Issued
<1>4. ASSUME NEW p \in Proc, RunStep(p) PROVE ServerStep
  <2>1. CASE Credentials(p)
    BY <2>1, <1>1 DEF Credentials, ServerStep, UseCached, LoadStored, Adopt,
       NothingCached, LoginGranted, LoginFails, TakeToken, SaveToken, Issued
  <2>2. CASE Exchange(p)
    <3>1. pc[p] = "post" => mem[p].token \in Token
      BY <1>1 DEF StepInv, Holding, Source
    <3> QED
      BY <2>2, <3>1 DEF Exchange, PostServed, PostRefused, PostFails, ServerStep
  <2>3. CASE SessionsDelete(p)
    <3>1. pc[p] = "revoke" => found[p].token \in Token
      BY DEF StepInv, TypeOK, Entry
    <3> QED
      BY <2>3, <3>1 DEF SessionsDelete, Logout, RevokeToken, DropCached, ServerStep,
         Alive, Issued
  <2>4. CASE Stop(p) \/ Call(p) \/ Invalidate(p) \/ Heartbeat(p)
             \/ \E o \in Options : Start(p, o)
    BY <2>4 DEF Stop, Call, Invalidate, Heartbeat, Beat, NoBeat, RefreshStored, Start,
       ServerStep
  <2> QED
    BY <1>4, <2>1, <2>2, <2>3, <2>4 DEF RunStep
<1> QED
  BY <1>2, <1>3, <1>4 DEF Next, RunStep

\* Whatever a step does at the server, it keeps what is known.
LEMMA ServerKept ==
    ASSUME TypeOK, ServerStep
    PROVE  server' \in [Token -> Session] /\ Kept(server, server')
BY ServedFact, RevokedFact, GrantedFact DEF ServerStep, TypeOK, Kept

\* What a step does to the cache: an entry is dropped, a process saves the session
\* it was granted, or a heartbeat writes its session again over the same token.
CacheStep ==
    \/ KeepStore
    \/ Store(Drop(table, me))
    \/ \E p \in Proc :
          /\ \/ pc[p] = "save" /\ pc'[p] = "post"
             \/ pc[p] = "refresh" /\ Cached # NoEntry /\ Cached.token = mem[p].token
          /\ Store(Put(table, me, EntryOf(mem[p])))

LEMMA CacheSteps ==
    ASSUME TypeOK, Next
    PROVE  CacheStep
<1>1. CASE Tick \/ \E t \in Token : Kill(t)
  BY <1>1 DEF Tick, Kill, CacheStep, KeepStore
<1>2. ASSUME NEW p \in Proc, RunStep(p) PROVE CacheStep
  <2>1. CASE Credentials(p)
    BY <2>1 DEF Credentials, CacheStep, UseCached, LoadStored, Adopt, NothingCached,
       LoginGranted, LoginFails, TakeToken, SaveToken, TryStore, KeepStore, Goto, TypeOK
  <2>2. CASE Exchange(p) \/ SessionsDelete(p)
    BY <2>2 DEF Exchange, PostServed, PostRefused, PostFails, SessionsDelete, Logout,
       RevokeToken, DropCached, CacheStep, TryStore, KeepStore
  <2>3. CASE RefreshStored(p)
    <3>1. CASE Matches(table, me, EntryOf(mem[p]))
      BY <2>3, <3>1, EntryOf(mem[p]).token = mem[p].token
      DEF RefreshStored, CacheStep, TryStore, Refreshed, Matches, Cached, EntryOf
    <3>2. CASE ~Matches(table, me, EntryOf(mem[p]))
      BY <2>3, <3>2 DEF RefreshStored, CacheStep, TryStore, Refreshed, Store, KeepStore,
         Cached
    <3> QED
      BY <3>1, <3>2
  <2>4. CASE Stop(p) \/ Call(p) \/ Invalidate(p) \/ Beat(p) \/ NoBeat(p)
             \/ \E o \in Options : Start(p, o)
    BY <2>4 DEF Stop, Call, Invalidate, Beat, NoBeat, Start, CacheStep, TryStore,
       KeepStore
  <2> QED
    BY <1>2, <2>1, <2>2, <2>3, <2>4 DEF RunStep, Heartbeat
<1> QED
  BY <1>1, <1>2 DEF Next, RunStep

\* What that means for the cached entry and the tokens that left.
Left == IF Cached # NoEntry THEN {Cached.token} ELSE {}

CacheEffect ==
    /\ table' \in Table
    /\ gone' \subseteq gone \cup Left
    /\ Cached' # NoEntry =>
          \/ Cached' = Cached /\ gone' = gone
          \/ \E p \in Proc :
                /\ Cached' = EntryOf(mem[p])
                /\ mem[p].token \in Token /\ mem[p].token \notin gone' \ gone
                /\ \/ pc[p] = "save" /\ pc'[p] = "post"
                   \/ pc[p] = "refresh" /\ Cached # NoEntry /\ Cached.token = mem[p].token

LEMMA CacheEffects ==
    ASSUME TypeOK, \A p \in Proc : StepInv(p), CacheStep
    PROVE  CacheEffect
<1>1. CASE KeepStore
  BY <1>1 DEF KeepStore, CacheEffect, Cached, TypeOK
<1>2. CASE Store(Drop(table, me))
  BY <1>2, DropFact DEF Store, CacheEffect, Cached, TypeOK, Left
<1>3. ASSUME NEW p \in Proc,
             \/ pc[p] = "save" /\ pc'[p] = "post"
             \/ pc[p] = "refresh" /\ Cached # NoEntry /\ Cached.token = mem[p].token,
             Store(Put(table, me, EntryOf(mem[p])))
      PROVE  CacheEffect
  <2>1. mem[p] \in Source /\ mem[p].token # NoToken
    BY <1>3 DEF StepInv, Holding, TypeOK
  <2>2. EntryOf(mem[p]) \in Entry /\ EntryOf(mem[p]).token = mem[p].token
    BY <2>1, EntryFact
  <2>3. table' \in Table /\ Cached' = EntryOf(mem[p]) /\ EntryOf(mem[p]) # NoEntry
    BY <1>3, <2>2, PutFact, NoEntryAssumption DEF Store, TypeOK, Cached
  <2>4. gone' \subseteq gone \cup Left /\ mem[p].token \notin gone' \ gone
    BY <1>3, <2>2, <2>3, PutFact DEF Store, Left, TypeOK
  <2> QED
    BY <1>3, <2>1, <2>3, <2>4 DEF CacheEffect, Source
<1> QED
  BY <1>1, <1>2, <1>3 DEF CacheStep

\* The other processes are left alone.
LEMMA OthersKeep ==
    ASSUME TypeOK, NEW p \in Proc, RunStep(p), StepInv(p), NEW q \in Proc \ {p}
    PROVE  /\ mem'[q] = mem[q] /\ pc'[q] = pc[q]
           /\ found'[q] = found[q] /\ rejected'[q] = rejected[q]
<1>1. mem'[q] = mem[q]
  BY MemStep DEF TypeOK
<1>2. pc'[q] = pc[q] /\ found'[q] = found[q] /\ rejected'[q] = rejected[q]
  <2> USE DEF TypeOK, Goto
  <2>1. CASE Credentials(p)
    BY <2>1 DEF Credentials, UseCached, LoadStored, Adopt, NothingCached, LoginGranted,
       LoginFails, TakeToken, SaveToken, Return
  <2>2. CASE Exchange(p)
    BY <2>2 DEF Exchange, PostServed, PostRefused, PostFails, Return
  <2>3. CASE Heartbeat(p)
    BY <2>3 DEF Heartbeat, Beat, NoBeat, RefreshStored, Return
  <2>4. CASE SessionsDelete(p)
    BY <2>4 DEF SessionsDelete, Logout, RevokeToken, DropCached
  <2>5. CASE Stop(p) \/ Call(p) \/ Invalidate(p) \/ \E o \in Options : Start(p, o)
    BY <2>5 DEF Stop, Call, Invalidate, Start
  <2> QED
    BY <2>1, <2>2, <2>3, <2>4, <2>5 DEF RunStep
<1> QED
  BY <1>1, <1>2

\* How a process comes by a token: it keeps the one it has, adopts the one Load
\* gave it, or is granted one nobody had.
Granting(p, t) ==
    /\ mem'[p].token = t /\ ~Issued(t) /\ Issued(t)'
    /\ pc[p] = "auth" /\ pc'[p] = "granted"
    /\ UNCHANGED <<table, gone, found, rejected>>

TokenEffect(p) ==
    /\ \/ \E t \in Token : Granting(p, t)
       \/ /\ pc'[p] # "granted"
          /\ \/ mem'[p].token \in {mem[p].token, NoToken}
             \/ pc[p] = "adopt" /\ pc'[p] = "post" /\ mem'[p].token = found[p].token
    /\ pc'[p] = "save" => pc[p] = "granted" /\ mem'[p].token = mem[p].token
    /\ found'[p] \in {found[p], NoEntry, Cached}
    /\ \/ rejected'[p] \in {{}, rejected[p]}
       \/ pc[p] = "post" /\ rejected'[p] = rejected[p] \cup {mem[p].token}

LEMMA TokenEffects ==
    ASSUME TypeOK, NEW p \in Proc, RunStep(p), StepInv(p)
    PROVE  TokenEffect(p)
<1> USE NewSourceFact, AdoptedFact, ClearedFact, FieldsFact DEF TypeOK, Goto, TokenEffect
<1>1. NewSource(NoFlags).token = NoToken
  BY DEF NewSource
<1>2. CASE LoadStored(p)
  BY <1>2 DEF LoadStored
<1>3. CASE Adopt(p)
  BY <1>3 DEF Adopt, StepInv
<1>4. ASSUME NEW t \in Token, LoginGranted(p, t) PROVE TokenEffect(p)
  <2>1. Granting(p, t)
    BY <1>4 DEF LoginGranted, Granting, Issued, Granted
  <2> QED
    BY <1>4, <2>1 DEF LoginGranted
<1>5. CASE LoginFails(p) \/ Exchange(p) \/ NoBeat(p) \/ RefreshStored(p)
  BY <1>5, <1>1 DEF LoginFails, Exchange, PostServed, PostRefused, PostFails, NoBeat,
     RefreshStored, Return
<1>6. CASE TakeToken(p) \/ Beat(p)
  <2>1. now + LifetimeOf(mem[p]) \in Nat
    BY LifetimeFact, MaxTimeAssumption DEF Source
  <2>2. [mem[p] EXCEPT !.expiresAt = now + LifetimeOf(mem[p])].token = mem[p].token
    BY <2>1
  <2> QED
    BY <1>6, <2>2 DEF TakeToken, Beat
<1>7. CASE UseCached(p) \/ NothingCached(p) \/ Call(p) \/ SaveToken(p)
  BY <1>7 DEF UseCached, NothingCached, Call, SaveToken
<1>8. CASE Invalidate(p)
  BY <1>8 DEF Invalidate
<1>9. CASE SessionsDelete(p)
  BY <1>9 DEF SessionsDelete, Logout, RevokeToken, DropCached
<1>10. CASE Stop(p) \/ \E o \in Options : Start(p, o)
  BY <1>10 DEF Stop, Start, NewSource
<1> QED
  BY <1>2, <1>3, <1>4, <1>5, <1>6, <1>7, <1>8, <1>9, <1>10
  DEF RunStep, Credentials, Heartbeat

-------------------------------------------------------------------------------
\* The invariant is inductive.

LEMMA InitInv == Init => KInv /\ CreatedInv
<1> SUFFICES ASSUME Init PROVE KInv /\ CreatedInv
  OBVIOUS
<1>1. Cached = NoEntry
  BY MeAssumption DEF Init, Cached, NoSessions
<1>2. NewSource(NoFlags) \in Source /\ NewSource(NoFlags).token = NoToken
  BY NewSourceFact DEF NoFlags, Flags, NewSource
<1>3. TypeOK
  <2>1. table \in Table
    BY DEF Init, Table, NoSessions
  <2>2. [t \in Token |-> [status |-> "unissued", expiresAt |-> 0, lifetime |-> 0,
                          update |-> FALSE]] \in [Token -> Session]
    BY DEF Session
  <2> QED
    BY <1>2, <2>1, <2>2, MaxTimeAssumption DEF Init, TypeOK, Steps, Replies
<1>4. \A p \in Proc : StepInv(p) /\ RefusalInv(p)
  BY DEF Init, StepInv, RefusalInv, Holding
<1>5. KnownInv /\ AloneInv /\ LeftStoreNeverReturns
  BY <1>1, <1>2 DEF Init, KnownInv, AloneInv, LeftStoreNeverReturns, Issued
<1>6. CreatedInv
  BY <1>1 DEF Init, CreatedInv, SourceInv, Holding
<1> QED
  BY <1>3, <1>4, <1>5, <1>6 DEF KInv

LEMMA TypeStep ==
    ASSUME TypeOK, \A p \in Proc : StepInv(p), Next
    PROVE  TypeOK'
<1>1. server' \in [Token -> Session]
  BY ServerSteps, ServerKept
<1>2. table' \in Table /\ gone' \in SUBSET Token
  <2>1. Left \subseteq Token
    BY MeAssumption DEF Left, Cached, TypeOK, Table, Entry
  <2> QED
    BY <2>1, CacheSteps, CacheEffects DEF CacheEffect, TypeOK
<1>3. mem' \in [Proc -> Source]
  <2>1. CASE Tick \/ \E t \in Token : Kill(t)
    BY <2>1 DEF Tick, Kill, procVars, TypeOK
  <2>2. ASSUME NEW p \in Proc, RunStep(p) PROVE mem' \in [Proc -> Source]
    BY <2>2, MemStep DEF TypeOK
  <2> QED
    BY <2>1, <2>2 DEF Next, RunStep
<1>4. /\ now' \in 0..MaxTime
      /\ pc' \in [Proc -> Steps]
      /\ found' \in [Proc -> Entry \cup {NoEntry}]
      /\ retried' \in [Proc -> BOOLEAN]
      /\ reply' \in [Proc -> Replies]
      /\ rejected' \in [Proc -> SUBSET Token]
  <2> DEFINE Rest == /\ now' \in 0..MaxTime
                     /\ pc' \in [Proc -> Steps]
                     /\ found' \in [Proc -> Entry \cup {NoEntry}]
                     /\ retried' \in [Proc -> BOOLEAN]
                     /\ reply' \in [Proc -> Replies]
                     /\ rejected' \in [Proc -> SUBSET Token]
  <2>1. CASE Tick \/ \E t \in Token : Kill(t)
    BY <2>1, MaxTimeAssumption DEF Tick, Kill, procVars, TypeOK
  <2>2. ASSUME NEW p \in Proc, RunStep(p) PROVE Rest
    <3>1. Cached \in Entry \cup {NoEntry}
      BY MeAssumption DEF Cached, TypeOK, Table
    <3>2. pc[p] = "post" => mem[p].token \in Token
      BY DEF StepInv, Holding, TypeOK, Source
    <3> USE DEF TypeOK, Steps, Replies, Goto
    <3>3. CASE Credentials(p)
      BY <3>1, <3>3 DEF Credentials, UseCached, LoadStored, Adopt, NothingCached,
         LoginGranted, LoginFails, TakeToken, SaveToken, Return
    <3>4. CASE Exchange(p)
      BY <3>2, <3>4 DEF Exchange, PostServed, PostRefused, PostFails, Return
    <3>5. CASE Heartbeat(p)
      BY <3>5 DEF Heartbeat, Beat, NoBeat, RefreshStored, Return
    <3>6. CASE SessionsDelete(p)
      BY <3>1, <3>6 DEF SessionsDelete, Logout, RevokeToken, DropCached
    <3>7. CASE Stop(p) \/ Call(p) \/ Invalidate(p) \/ \E o \in Options : Start(p, o)
      BY <3>7 DEF Stop, Call, Invalidate, Start
    <3> QED
      BY <2>2, <3>3, <3>4, <3>5, <3>6, <3>7 DEF RunStep
  <2> QED
    BY <2>1, <2>2 DEF Next, RunStep
<1> QED
  BY <1>1, <1>2, <1>3, <1>4 DEF TypeOK

\* What a process knows of its own steps is about itself alone.
LEMMA ProcessStep ==
    ASSUME KInv, Next, NEW q \in Proc
    PROVE  (StepInv(q) /\ RefusalInv(q))'
<1>1. TypeOK /\ \A p \in Proc : StepInv(p) /\ RefusalInv(p)
  BY DEF KInv
<1>2. CASE Tick \/ \E t \in Token : Kill(t)
  BY <1>1, <1>2 DEF Tick, Kill, procVars, StepInv, RefusalInv
<1>3. ASSUME NEW p \in Proc \ {q}, RunStep(p) PROVE (StepInv(q) /\ RefusalInv(q))'
  BY <1>1, <1>3, OthersKeep DEF StepInv, RefusalInv
<1>4. CASE RunStep(q)
  <2>1. StepInv(q) /\ RefusalInv(q) /\ mem[q] \in Source
    BY <1>1 DEF TypeOK
  <2>2. KnownInv
    BY DEF KInv
  <2> USE DEF TypeOK, StepInv, RefusalInv, Holding, Goto
  <2>3. CASE LoadStored(q)
    BY <1>1, <2>1, <2>3, FieldsFact DEF LoadStored
  <2>4. CASE Adopt(q)
    BY <1>1, <2>1, <2>4, AdoptedFact, NoTokenAssumption DEF Adopt, Entry
  <2>5. ASSUME NEW t \in Token, LoginGranted(q, t) PROVE (StepInv(q) /\ RefusalInv(q))'
    <3>1. t \notin rejected[q]
      BY <2>2, <2>5 DEF KnownInv, LoginGranted, Issued
    <3> QED
      BY <1>1, <2>1, <2>5, <3>1, FieldsFact, NoTokenAssumption DEF LoginGranted
  <2>6. CASE UseCached(q) \/ NothingCached(q) \/ SaveToken(q) \/ Call(q)
    BY <1>1, <2>1, <2>6 DEF UseCached, cachedValid, NothingCached, SaveToken, Call
  <2>7. CASE LoginFails(q) \/ Exchange(q) \/ NoBeat(q) \/ RefreshStored(q)
    BY <1>1, <2>1, <2>7 DEF LoginFails, Exchange, PostServed, PostRefused, PostFails,
       NoBeat, RefreshStored, Return
  <2>8. CASE TakeToken(q) \/ Beat(q)
    <3>1. now + LifetimeOf(mem[q]) \in Nat
      BY <1>1, LifetimeFact, MaxTimeAssumption DEF Source
    <3> DEFINE m == [mem[q] EXCEPT !.expiresAt = now + LifetimeOf(mem[q])]
    <3>2. m.token = mem[q].token /\ m.update = mem[q].update
      BY <2>1, <3>1, FieldsFact
    <3>3. mem'[q] = m
      BY <1>1, <2>8 DEF TakeToken, Beat
    <3> HIDE DEF m
    <3> QED
      BY <1>1, <2>1, <2>8, <3>2, <3>3 DEF TakeToken, Beat
  <2>9. CASE Invalidate(q)
    BY <1>1, <2>1, <2>9, ClearedFact DEF Invalidate
  <2>10. CASE SessionsDelete(q)
    BY <1>1, <2>1, <2>10 DEF SessionsDelete, Logout, RevokeToken, DropCached
  <2>11. CASE Stop(q) \/ \E o \in Options : Start(q, o)
    BY <1>1, <2>1, <2>11 DEF Stop, Start
  <2> QED
    BY <1>4, <2>3, <2>4, <2>5, <2>6, <2>7, <2>8, <2>9, <2>10, <2>11
    DEF RunStep, Credentials, Heartbeat
<1> QED
  BY <1>2, <1>3, <1>4 DEF Next, RunStep

\* Who does what, in one place for the facts about several processes: somebody
\* runs, or nobody does and only the clock or the server moves.
LEMMA Movers ==
    ASSUME KInv, Next
    PROVE  /\ Kept(server, server')
           /\ CacheEffect
           /\ \/ UNCHANGED <<procVars, table, gone>>
              \/ \E p \in Proc :
                    /\ TokenEffect(p)
                    /\ \A q \in Proc \ {p} :
                          /\ mem'[q] = mem[q] /\ pc'[q] = pc[q]
                          /\ found'[q] = found[q] /\ rejected'[q] = rejected[q]
<1>1. TypeOK /\ \A p \in Proc : StepInv(p)
  BY DEF KInv
<1>2. Kept(server, server') /\ CacheEffect
  BY <1>1, ServerSteps, ServerKept, CacheSteps, CacheEffects
<1>3. CASE Tick \/ \E t \in Token : Kill(t)
  BY <1>2, <1>3 DEF Tick, Kill
<1>4. ASSUME NEW p \in Proc, RunStep(p)
      PROVE  /\ TokenEffect(p)
             /\ \A q \in Proc \ {p} :
                   /\ mem'[q] = mem[q] /\ pc'[q] = pc[q]
                   /\ found'[q] = found[q] /\ rejected'[q] = rejected[q]
  BY <1>1, <1>4, TokenEffects, OthersKeep
<1> QED
  BY <1>2, <1>3, <1>4 DEF Next, RunStep

LEMMA KnownStep == ASSUME KInv, Next PROVE KnownInv'
<1> USE DEF Kept, Issued
<1>1. TypeOK /\ KnownInv /\ (\A p \in Proc : StepInv(p)) /\ TypeOK'
  BY TypeStep DEF KInv
<1>2. Kept(server, server') /\ CacheEffect
  BY Movers
<1>3. \A t \in Token : Issued(t)' => server'[t].lifetime > 0
  <2>1. ASSUME NEW t \in Token, NEW o \in Flags,
               ~Issued(t), server' = [server EXCEPT ![t] = Granted(o)]
        PROVE  \A u \in Token : Issued(u)' => server'[u].lifetime > 0
    BY <1>1, <2>1, GrantedFact, LifetimeFact DEF KnownInv, TypeOK, Flags
  <2>2. CASE UNCHANGED server \/ \E t \in Token :
               server' = Served(t) \/ (Issued(t) /\ server' = Revoked(t))
    <3>1. \A u \in Token : server'[u].status # "unissued" => Issued(u)
      BY <1>1, <2>2, ServedFact DEF TypeOK, Revoked, Session
    <3> QED
      BY <1>1, <1>2, <3>1 DEF KnownInv
  <2> QED
    BY <1>1, <2>1, <2>2, ServerSteps DEF ServerStep
<1>4. Cached \in Entry \cup {NoEntry} /\ Cached' \in Entry \cup {NoEntry}
  BY <1>1, MeAssumption DEF TypeOK, Table, Cached
<1>5. \A t \in gone' : Issued(t)'
  BY <1>1, <1>2, <1>4 DEF CacheEffect, Left, KnownInv, TypeOK, Entry
<1>6. Cached' # NoEntry => server'[Cached'.token].status # "unissued"
  <2>1. ASSUME NEW p \in Proc, mem[p].token \in Token, Cached' = EntryOf(mem[p])
        PROVE  server'[Cached'.token].status # "unissued"
    BY <1>1, <1>2, <2>1, NoTokenAssumption DEF KnownInv, EntryOf
  <2> QED
    BY <1>1, <1>2, <1>4, <2>1 DEF CacheEffect, KnownInv, Entry
<1>7. \A p \in Proc : /\ mem'[p].token # NoToken => server'[mem'[p].token].status # "unissued"
                      /\ found'[p] # NoEntry => server'[found'[p].token].status # "unissued"
                      /\ \A t \in rejected'[p] : Issued(t)'
  <2> DEFINE Knows(p) ==
               /\ mem'[p].token # NoToken => server'[mem'[p].token].status # "unissued"
               /\ found'[p] # NoEntry => server'[found'[p].token].status # "unissued"
               /\ \A t \in rejected'[p] : Issued(t)'
  <2>1. ASSUME NEW p \in Proc, mem'[p] = mem[p], found'[p] = found[p],
               rejected'[p] = rejected[p]
        PROVE  Knows(p)
    BY <1>1, <1>2, <2>1 DEF KnownInv, TypeOK, Source, Entry
  <2>2. ASSUME NEW p \in Proc, TokenEffect(p) PROVE Knows(p)
    <3>1. mem[p].token \in Token \cup {NoToken} /\ found[p] \in Entry \cup {NoEntry}
      BY <1>1 DEF TypeOK, Source
    <3>2. pc[p] = "adopt" => found[p] # NoEntry
      BY <1>1 DEF StepInv
    <3>3. mem'[p].token # NoToken => server'[mem'[p].token].status # "unissued"
      BY <1>1, <1>2, <2>2, <3>1, <3>2 DEF TokenEffect, Granting, KnownInv, Entry
    <3>4. found'[p] # NoEntry => server'[found'[p].token].status # "unissued"
      BY <1>1, <1>2, <1>4, <2>2, <3>1 DEF TokenEffect, KnownInv, Entry
    <3>5. pc[p] = "post" => mem[p].token \in Token /\ Issued(mem[p].token)
      BY <1>1, <3>1 DEF StepInv, Holding, KnownInv
    <3>6. \A t \in rejected'[p] : Issued(t)'
      BY <1>1, <1>2, <2>2, <3>5 DEF TokenEffect, KnownInv, TypeOK
    <3> QED
      BY <3>3, <3>4, <3>6
  <2> HIDE DEF Knows
  <2>3. \A p \in Proc : Knows(p)
    BY <2>1, <2>2, Movers DEF procVars
  <2> QED
    BY <2>3 DEF Knows
<1> QED
  BY <1>3, <1>5, <1>6, <1>7 DEF KnownInv

LEMMA AloneStep == ASSUME KInv, Next PROVE AloneInv'
<1> SUFFICES ASSUME NEW p \in Proc, pc'[p] \in {"granted", "save"}
             PROVE  /\ mem'[p].token \notin gone'
                    /\ Cached' # NoEntry => Cached'.token # mem'[p].token
                    /\ \A q \in Proc : found'[q] # NoEntry => found'[q].token # mem'[p].token
                    /\ \A q \in Proc \ {p} : mem'[q].token # mem'[p].token
  BY DEF AloneInv
<1>1. TypeOK /\ KnownInv /\ AloneInv /\ \A q \in Proc : StepInv(q)
  BY DEF KInv
<1>2. CacheEffect
  BY Movers
<1>3. Cached \in Entry \cup {NoEntry} /\ Cached' \in Entry \cup {NoEntry}
  BY <1>1, TypeStep, MeAssumption DEF TypeOK, Table, Cached
<1>4. CASE UNCHANGED <<procVars, table, gone>>
  BY <1>1, <1>4 DEF AloneInv, procVars, Cached
<1>5. ASSUME NEW r \in Proc, TokenEffect(r),
             \A q \in Proc \ {r} : /\ mem'[q] = mem[q] /\ pc'[q] = pc[q]
                                   /\ found'[q] = found[q] /\ rejected'[q] = rejected[q]
      PROVE  /\ mem'[p].token \notin gone'
             /\ Cached' # NoEntry => Cached'.token # mem'[p].token
             /\ \A q \in Proc : found'[q] # NoEntry => found'[q].token # mem'[p].token
             /\ \A q \in Proc \ {p} : mem'[q].token # mem'[p].token
  <2>1. CASE r = p /\ \E t \in Token : Granting(p, t)
    \* A new token: everything known so far was issued before.
    <3>1. PICK t \in Token : Granting(p, t)
      BY <2>1
    <3>2. Cached' = Cached /\ gone' = gone /\ found' = found
      BY <3>1 DEF Granting, Cached
    <3>3. \A q \in Proc \ {p} : mem[q].token # t
      BY <1>1, <3>1, NoTokenAssumption DEF KnownInv, Granting
    <3> QED
      BY <1>1, <1>5, <2>1, <3>1, <3>2, <3>3 DEF KnownInv, Granting
  <2>2. CASE ~(r = p /\ \E t \in Token : Granting(p, t))
    <3>1. pc[p] \in {"granted", "save"} /\ mem'[p].token = mem[p].token
      BY <1>5, <2>2 DEF TokenEffect, TypeOK
    <3>2. mem[p].token \in Token /\ Issued(mem[p].token)
      BY <1>1, <3>1 DEF StepInv, Holding, TypeOK, Source, KnownInv
    <3>3. mem'[p].token \notin gone'
      BY <1>1, <1>2, <3>1 DEF CacheEffect, Left, AloneInv
    <3>4. Cached' # NoEntry => Cached'.token # mem'[p].token
      <4>1. ASSUME NEW q \in Proc, Cached' = EntryOf(mem[q]), pc[q] = "save", q # p
            PROVE  Cached'.token # mem'[p].token
        BY <1>1, <3>1, <4>1 DEF AloneInv, EntryOf
      <4>2. ASSUME NEW q \in Proc, Cached' = EntryOf(mem[q]),
                   Cached # NoEntry, Cached.token = mem[q].token
            PROVE  Cached'.token # mem'[p].token
        BY <1>1, <3>1, <4>2 DEF AloneInv, EntryOf
      <4> QED
        BY <1>1, <1>2, <3>1, <4>1, <4>2 DEF CacheEffect, AloneInv
    <3>5. \A q \in Proc : found'[q] # NoEntry => found'[q].token # mem'[p].token
      BY <1>1, <1>5, <3>1 DEF AloneInv, TokenEffect
    <3>6. \A q \in Proc \ {p} : mem'[q].token # mem'[p].token
      <4> SUFFICES ASSUME NEW q \in Proc \ {p} PROVE mem'[q].token # mem'[p].token
        OBVIOUS
      <4>1. CASE q # r
        BY <1>1, <1>5, <3>1, <4>1 DEF AloneInv
      <4>2. CASE q = r
        BY <1>1, <1>5, <3>1, <3>2, <4>2, NoTokenAssumption
        DEF AloneInv, TokenEffect, Granting, StepInv
      <4> QED
        BY <4>1, <4>2
    <3> QED
      BY <3>3, <3>4, <3>5, <3>6
  <2> QED
    BY <2>1, <2>2
<1> QED
  BY <1>4, <1>5, Movers

LEMMA ReturnStep == ASSUME KInv, Next PROVE LeftStoreNeverReturns'
<1>1. TypeOK /\ AloneInv /\ LeftStoreNeverReturns /\ CacheEffect
  BY Movers DEF KInv
<1>2. ASSUME NEW p \in Proc, Cached' = EntryOf(mem[p]), mem[p].token \notin gone' \ gone,
             \/ pc[p] = "save"
             \/ pc[p] = "refresh" /\ Cached # NoEntry /\ Cached.token = mem[p].token
      PROVE  Cached'.token \notin gone'
  BY <1>1, <1>2 DEF AloneInv, LeftStoreNeverReturns, EntryOf
<1> QED
  BY <1>1, <1>2 DEF CacheEffect, LeftStoreNeverReturns

LEMMA NextInv == KInv /\ [Next]_vars => KInv'
<1> SUFFICES ASSUME KInv, [Next]_vars PROVE KInv'
  OBVIOUS
<1>1. CASE UNCHANGED vars
  BY <1>1 DEF vars, procVars, KInv, TypeOK, StepInv, RefusalInv, KnownInv, AloneInv,
     LeftStoreNeverReturns, Issued, Cached
<1>2. CASE Next
  <2>1. TypeOK'
    BY <1>2, TypeStep DEF KInv
  <2>2. \A p \in Proc : (StepInv(p) /\ RefusalInv(p))'
    BY <1>2, ProcessStep
  <2> QED
    BY <1>2, <2>1, <2>2, KnownStep, AloneStep, ReturnStep DEF KInv
<1> QED
  BY <1>1, <1>2

LEMMA Invariance == Spec => []KInv
BY InitInv, NextInv, PTL DEF Spec

-------------------------------------------------------------------------------
\* One Call per source.

\* The entry a process writes describes the session as its source does.
LEMMA EntryIsAsCreated ==
    ASSUME KInv, CreatedInv, Next, NEW p \in Proc, pc[p] \in Holding,
           Cached' = EntryOf(mem[p])
    PROVE  AsCreated(Cached)'
<1>1. Issued(mem[p].token) /\ mem[p].token \in Token
  BY DEF KInv, KnownInv, StepInv, TypeOK, Source
<1>2. Kept(server, server')
  BY Movers
<1> QED
  BY <1>1, <1>2 DEF CreatedInv, SourceInv, EntryOf, AsCreated, Kept, Issued

LEMMA CreatedStep == ASSUME ~Reuse, KInv, CreatedInv, Next PROVE CreatedInv'
<1>1. /\ TypeOK /\ KnownInv
      /\ (\A p \in Proc : StepInv(p)) /\ TypeOK' /\ (\A p \in Proc : StepInv(p))'
  BY TypeStep, ProcessStep DEF KInv
<1>2. Kept(server, server') /\ CacheEffect
  BY Movers
<1>3. Cached \in Entry \cup {NoEntry}
  BY <1>1, MeAssumption DEF TypeOK, Table, Cached
<1>4. Cached' # NoEntry => AsCreated(Cached)'
  <2>1. CASE Cached # NoEntry /\ Cached' = Cached
    BY <1>1, <1>2, <1>3, <2>1 DEF KnownInv, CreatedInv, AsCreated, Kept, Issued, Entry
  <2>2. ASSUME NEW p \in Proc, pc[p] \in {"save", "refresh"}, Cached' = EntryOf(mem[p])
        PROVE  AsCreated(Cached)'
    BY <2>2, EntryIsAsCreated DEF Holding
  <2> QED
    BY <1>2, <2>1, <2>2 DEF CacheEffect
<1>5. ASSUME NEW q \in Proc, found'[q] # NoEntry PROVE AsCreated(found[q])'
  <2>1. found'[q] \in {found[q], Cached}
    BY <1>5, Movers DEF TokenEffect, procVars
  <2>2. ASSUME NEW e \in Entry, Issued(e.token), AsCreated(e), found'[q] = e
        PROVE  AsCreated(found[q])'
    BY <1>2, <2>2 DEF AsCreated, Kept, Issued, Entry
  <2> QED
    BY <1>1, <1>3, <1>5, <2>1, <2>2 DEF KnownInv, CreatedInv, SourceInv, TypeOK
\* The rest of SourceInv: what a source works with.
<1> DEFINE Works(q) ==
             /\ pc[q] = "cred" => mem[q].token = NoToken
             /\ pc[q] \in {"cred", "adopt", "auth"} =>
                   /\ mem[q].lifetime = mem[q].flags.lifetime
                   /\ mem[q].update = mem[q].flags.update
             /\ pc[q] \in Holding =>
                   /\ LifetimeOf(mem[q]) = server[mem[q].token].lifetime
                   /\ mem[q].update = server[mem[q].token].update
<1>6. \A q \in Proc : Works(q)
  BY DEF CreatedInv, SourceInv
\* A source that does not change still describes its session.
<1>7. ASSUME NEW q \in Proc, mem'[q] = mem[q],
             pc'[q] = "cred" => pc[q] = "cred",
             pc'[q] \in {"cred", "adopt", "auth"} => pc[q] \in {"cred", "adopt", "auth"},
             pc'[q] \in Holding => pc[q] \in Holding
      PROVE  Works(q)'
  <2>1. pc[q] \in Holding => mem[q].token \in Token /\ Issued(mem[q].token)
    BY <1>1 DEF StepInv, KnownInv, TypeOK, Source
  <2> QED
    BY <1>2, <1>6, <1>7, <2>1 DEF Kept, Issued
<1>8. ASSUME NEW q \in Proc PROVE Works(q)'
  <2>1. CASE Tick \/ \E t \in Token : Kill(t)
    BY <1>7, <2>1 DEF Tick, Kill, procVars
  <2>2. ASSUME NEW p \in Proc \ {q}, RunStep(p) PROVE Works(q)'
    BY <1>1, <1>7, <2>2, OthersKeep
  <2>3. CASE RunStep(q)
    <3> HIDE DEF Works
    <3>1. mem[q] \in Source /\ LifetimeOf(mem[q]) \in Nat
      BY <1>1, LifetimeFact DEF TypeOK, Source
    <3>2. ASSUME NEW o \in Options, Start(q, o) PROVE Works(q)'
      BY <1>1, <3>2 DEF Start, Works, TypeOK, NewSource, Goto, Holding
    <3>3. CASE Stop(q)
      BY <1>1, <3>3 DEF Stop, Works, TypeOK, Goto, Holding
    <3>4. CASE Call(q)
      BY <3>4 DEF Call
    <3>5. CASE LoadStored(q)
      <4>1. /\ mem'[q] = [mem[q] EXCEPT !.loaded = TRUE]
            /\ pc[q] = "cred" /\ pc'[q] \in {"adopt", "auth"}
        BY <1>1, <3>5 DEF LoadStored, TypeOK, Goto
      <4> QED
        BY <1>6, <3>1, <4>1 DEF Works, Holding, Source
    <3>6. CASE Adopt(q)
      <4>1. CASE Expired(found[q], now)
        BY <1>1, <1>7, <3>6, <4>1 DEF Adopt, TypeOK, Goto, Holding
      <4>2. CASE ~Expired(found[q], now)
        <5>1. mem'[q] = Adopted(mem[q], found[q]) /\ pc'[q] = "post" /\ server' = server
          BY <1>1, <3>6, <4>2 DEF Adopt, TypeOK, Goto
        <5>2. /\ found[q] \in Entry /\ AsCreated(found[q])
              /\ server[found[q].token].lifetime > 0
          BY <1>1, <3>6 DEF Adopt, StepInv, TypeOK, CreatedInv, SourceInv, KnownInv, Entry
        <5>3. /\ Adopted(mem[q], found[q]).token = found[q].token
              /\ Adopted(mem[q], found[q]).lifetime = found[q].lifetime
              /\ Adopted(mem[q], found[q]).update = found[q].update
          BY <3>1, <5>2 DEF Adopted, Source, AsCreated
        <5>4. LifetimeOf(mem'[q]) = found[q].lifetime
          BY <5>1, <5>2, <5>3 DEF LifetimeOf, AsCreated
        <5> QED
          BY <5>1, <5>2, <5>3, <5>4 DEF Works, AsCreated
      <4> QED
        BY <4>1, <4>2
    <3>7. ASSUME NEW t \in Token, LoginGranted(q, t) PROVE Works(q)'
      <4>1. mem[q].flags \in Flags /\ mem[q].lifetime = mem[q].flags.lifetime
            /\ mem[q].update = mem[q].flags.update
        BY <1>6, <3>1, <3>7 DEF LoginGranted, Works, Source
      <4>2. /\ mem'[q] = [mem[q] EXCEPT !.token = t] /\ pc'[q] = "granted"
            /\ server' = [server EXCEPT ![t] = Granted(mem[q].flags)]
        BY <1>1, <3>7 DEF LoginGranted, TypeOK, Goto
      <4>3. /\ server'[t].lifetime = LifetimeOf(mem[q].flags)
            /\ server'[t].update = mem[q].flags.update
        BY <1>1, <4>2 DEF Granted, TypeOK
      <4>4. /\ mem'[q].token = t /\ mem'[q].lifetime = mem[q].lifetime
            /\ mem'[q].update = mem[q].update
        BY <3>1, <4>2 DEF Source
      <4> QED
        BY <4>1, <4>2, <4>3, <4>4 DEF Works, LifetimeOf
    <3>8. CASE TakeToken(q) \/ Beat(q)
      <4>1. /\ mem'[q] = [mem[q] EXCEPT !.expiresAt = now + LifetimeOf(mem[q])]
            /\ pc[q] \in Holding /\ pc'[q] \in {"save", "refresh"} /\ server' = server
        BY <1>1, <3>8 DEF TakeToken, Beat, TypeOK, Goto, Holding
      <4>2. /\ mem'[q].token = mem[q].token /\ mem'[q].lifetime = mem[q].lifetime
            /\ mem'[q].update = mem[q].update
        BY <3>1, <4>1 DEF Source
      <4> QED
        BY <1>6, <4>1, <4>2 DEF Works, LifetimeOf
    <3>9. CASE Invalidate(q)
      <4>1. mem'[q] = Cleared(mem[q]) /\ pc'[q] = "cred"
        BY <1>1, <3>9 DEF Invalidate, TypeOK, Goto
      <4> QED
        BY <3>1, <4>1 DEF Works, Holding, Cleared, Source, Flags
    <3>10. CASE UseCached(q)
      BY <1>6, <3>10 DEF Works, UseCached, cachedValid
    <3>12. CASE NothingCached(q) \/ SaveToken(q) \/ PostServed(q) \/ SessionsDelete(q)
      BY <1>1, <1>7, <3>12 DEF NothingCached, SaveToken, PostServed, SessionsDelete,
         Logout, RevokeToken, DropCached, TypeOK, Goto, Holding
    <3>11. CASE LoginFails(q) \/ PostRefused(q) \/ PostFails(q) \/ NoBeat(q)
                \/ RefreshStored(q)
      BY <1>1, <3>11 DEF LoginFails, PostRefused, PostFails, NoBeat, RefreshStored, Return,
         Goto, TypeOK, Works, Holding
    <3> QED
      BY <2>3, <3>2, <3>3, <3>4, <3>5, <3>6, <3>7, <3>8, <3>9, <3>10, <3>11, <3>12
      DEF RunStep, Credentials, Exchange, Heartbeat
  <2> QED
    BY <2>1, <2>2, <2>3 DEF Next, RunStep
<1> QED
  BY <1>4, <1>5, <1>8 DEF CreatedInv, SourceInv

LEMMA NextCreated == ~Reuse /\ KInv /\ CreatedInv /\ [Next]_vars => CreatedInv'
<1> SUFFICES ASSUME ~Reuse, KInv, CreatedInv, [Next]_vars PROVE CreatedInv'
  OBVIOUS
<1>1. CASE UNCHANGED vars
  BY <1>1 DEF vars, procVars, CreatedInv, SourceInv, AsCreated, Cached
<1> QED
  BY <1>1, CreatedStep

LEMMA CreatedInvariance == ~Reuse => (Spec => []CreatedInv)
<1>1. ~Reuse => (KInv /\ CreatedInv /\ [Next]_vars => CreatedInv')
  BY NextCreated
<1>2. CASE ~Reuse
  <2>1. KInv /\ CreatedInv /\ [Next]_vars => CreatedInv'
    BY <1>1, <1>2
  <2> QED
    BY <2>1, InitInv, Invariance, PTL DEF Spec
<1> QED
  BY <1>2

-------------------------------------------------------------------------------
\* The theorems.

\* Every variable keeps its type.
THEOREM TypeCorrect == Spec => []TypeOK
<1>1. KInv => TypeOK
  BY DEF KInv
<1> QED
  BY <1>1, Invariance, PTL

\* The retry of a Call never sends a token the server has refused to it, whatever
\* became of the delete and whatever other processes store meanwhile.
THEOREM RefusedIsNotReused == Spec => []NoReuseOfRejected
<1>1. KInv => NoReuseOfRejected
  BY DEF KInv, RefusalInv, NoReuseOfRejected
<1> QED
  BY <1>1, Invariance, PTL

\* A token that has left the cache stays out of it, heartbeats or not.
THEOREM LeftStaysAway == Spec => []LeftStoreNeverReturns
<1>1. KInv => LeftStoreNeverReturns
  BY DEF KInv
<1> QED
  BY <1>1, Invariance, PTL

\* With one Call per source, cache and sources know a session as it was created.
THEOREM DescriptionCorrect == ~Reuse => (Spec => []SessionsAreDescribed)
<1>1. KInv /\ CreatedInv => SessionsAreDescribed
  BY DEF KInv, KnownInv, CreatedInv, SourceInv, AsCreated, SessionsAreDescribed, Holding,
     Issued
<1> QED
  BY <1>1, Invariance, CreatedInvariance, PTL

\* With one Call per source, no step of any process moves the expiry of a session
\* with a fixed window while it is cached.
THEOREM FixedWindowCorrect == ~Reuse => (Spec => FixedWindowIsKept)
<1> DEFINE Moves == Cached # NoEntry /\ Cached' # NoEntry /\ Cached'.token = Cached.token
                    /\ ~server[Cached.token].update
                    /\ Cached'.expiresAt # Cached.expiresAt
<1>1. KInv /\ CreatedInv /\ [Next]_vars => ~Moves
  <2> SUFFICES ASSUME KInv, CreatedInv, [Next]_vars, Moves PROVE FALSE
    OBVIOUS
  <2>1. Next
    BY DEF vars, Cached
  <2>2. PICK p \in Proc :
           /\ Cached' = EntryOf(mem[p])
           /\ \/ pc[p] = "save"
              \/ pc[p] = "refresh" /\ Cached.token = mem[p].token
    BY <2>1, Movers DEF CacheEffect
  <2>3. Cached'.token = mem[p].token
    BY <2>2 DEF EntryOf
  \* what is saved is new, what is refreshed is not fixed
  <2>4. CASE pc[p] = "save"
    BY <2>3, <2>4 DEF KInv, AloneInv
  <2>5. CASE pc[p] = "refresh"
    BY <2>3, <2>5 DEF KInv, StepInv, CreatedInv, SourceInv, Holding
  <2> QED
    BY <2>2, <2>4, <2>5
<1>2. ~Moves => (Cached # NoEntry /\ Cached' # NoEntry /\ Cached'.token = Cached.token
                   /\ ~server[Cached.token].update
                 => Cached'.expiresAt = Cached.expiresAt)
  OBVIOUS
<1> HIDE DEF Moves
<1> QED
  BY <1>1, <1>2, Invariance, CreatedInvariance, PTL DEF Spec, FixedWindowIsKept
===============================================================================
