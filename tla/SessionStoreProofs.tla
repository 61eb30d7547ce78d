-------------------------- MODULE SessionStoreProofs --------------------------
(***************************************************************************)
(* Proofs about SessionStore, for any processes, logins and tokens: the    *)
(* type invariant, mutual exclusion, what a writer may rely on between its *)
(* read and its rename, that a step changes the writer's own login only,   *)
(* and that the store implements SessionMap.                               *)
(***************************************************************************)
EXTENDS SessionStore, TLAPS

\* Small conditions of the code that every proof below sees through.
USE DEF LockFree, Failure, Readable

-------------------------------------------------------------------------------
\* The operators of SessionOps.

\* An entry whose expiry has been filled in is an entry.
LEMMA FilledIsEntry ==
    ASSUME NEW e \in Entry, NEW t \in Nat
    PROVE  Filled(e, t) \in Entry
<1>1. LifetimeOf(e) \in Nat
  BY DefaultLifetimeAssumption DEF LifetimeOf, Entry
<1>2. t + LifetimeOf(e) \in Nat
  BY <1>1
<1> QED
  BY <1>2 DEF Filled, Entry

\* Everything a caller may ask for is a request.
LEMMA RequestsAreRequests ==
    ASSUME NEW t \in Nat, NEW r \in RequestsAt(t)
    PROVE  r \in Request
<1>1. {Filled(e, t) : e \in Given} \subseteq Entry
  BY FilledIsEntry, GivenAssumption
<1> QED
  BY <1>1 DEF RequestsAt, Request

\* Writing and dropping an entry leaves a table, and every other login alone.
LEMMA PutFact ==
    ASSUME NEW t \in Table, NEW l \in Login, NEW e \in Entry
    PROVE  /\ Put(t, l, e) \in Table
           /\ Put(t, l, e)[l] = e
           /\ \A m \in Login \ {l} : Put(t, l, e)[m] = t[m]
           /\ ~IsEmpty(Put(t, l, e))
<1>1. /\ Put(t, l, e) \in Table
      /\ Put(t, l, e)[l] = e
      /\ \A m \in Login \ {l} : Put(t, l, e)[m] = t[m]
  BY DEF Put, Table
<1>2. e # NoEntry
  BY NoEntryAssumption
<1> QED
  BY <1>1, <1>2 DEF IsEmpty

LEMMA DropTable ==
    ASSUME NEW t \in Table, NEW l
    PROVE  Drop(t, l) \in Table
BY DEF Drop, Table

LEMMA DropFact ==
    ASSUME NEW t \in Table, NEW l \in Login
    PROVE  /\ Drop(t, l) \in Table
           /\ Drop(t, l)[l] = NoEntry
           /\ \A m \in Login \ {l} : Drop(t, l)[m] = t[m]
           /\ Drop(t, l) = t <=> t[l] = NoEntry
           /\ IsEmpty(Drop(t, l)) => Drop(t, l) = NoSessions
<1>1. /\ Drop(t, l) \in Table
      /\ Drop(t, l)[l] = NoEntry
      /\ \A m \in Login \ {l} : Drop(t, l)[m] = t[m]
  BY DEF Drop, Table
<1>2. Drop(t, l) = t <=> t[l] = NoEntry
  BY DEF Drop, Table
<1>3. IsEmpty(Drop(t, l)) => Drop(t, l) = NoSessions
  BY <1>1 DEF IsEmpty, NoSessions, Table
<1> QED
  BY <1>1, <1>2, <1>3

-------------------------------------------------------------------------------
\* The inductive invariant: mutual exclusion, together with what a process
\* inside a body knows about its request and about the file.

\* A process has a request while it is inside an operation, and an outcome
\* once the body is over.
RequestOpen ==
    \A p \in Proc :
       /\ req[p] = NoReq <=> pc[p] = "idle"
       /\ out[p] = Answer("pending") <=> pc[p] \notin {"unlock", "return"}

OwnEntry(p) == file.sessions[req[p].login]

\* p is about to put its entry: a Save, or a Refresh that still matches.
Puts(p) ==
    /\ \/ req[p].op = "Save"
       \/ req[p].op = "Refresh" /\ Matches(file.sessions, req[p].login, req[p].entry)
    /\ buf[p] = Put(file.sessions, req[p].login, req[p].entry)

\* p is about to drop its entry: a Delete, or a Load that found it expired.
Drops(p) ==
    /\ OwnEntry(p) # NoEntry
    /\ \/ req[p].op = "Delete"
       \/ req[p].op = "Load" /\ Expired(OwnEntry(p), now)

WriterKnows ==
    \A p \in Proc :
       /\ pc[p] \in {"reread", "write", "rename", "remove"} => file.kind # "corrupt"
       /\ pc[p] = "reread" => Drops(p) /\ req[p].op = "Load"
       /\ pc[p] \in {"write", "rename"} =>
             \/ Puts(p)
             \/ /\ Drops(p)
                /\ buf[p] = Drop(file.sessions, req[p].login)
                /\ ~IsEmpty(buf[p])
       /\ pc[p] = "remove" =>
             Drops(p) /\ IsEmpty(Drop(file.sessions, req[p].login))

IInv == TypeOK /\ MutualExclusion /\ RequestOpen /\ WriterKnows /\ NoEmptyFile

-------------------------------------------------------------------------------
\* Type correctness.

LEMMA InitType == Init => TypeOK
<1> SUFFICES ASSUME Init PROVE TypeOK
  OBVIOUS
<1>1. NoSessions \in Table
  BY DEF NoSessions, Table
<1>2. InitialTables \subseteq Table
  BY FilledIsEntry, GivenAssumption DEF InitialTables, Table
<1>3. file \in FileType
  BY <1>1, <1>2 DEF Init, FileType, NoFile, CorruptFile, TomlFile
<1> QED
  BY <1>1, <1>3, MaxTimeAssumption
  DEF Init, TypeOK, Answer, Outcome

LEMMA StepType == TypeOK /\ RequestOpen /\ [Next]_vars => TypeOK'
<1> SUFFICES ASSUME TypeOK, RequestOpen, [Next]_vars PROVE TypeOK'
  OBVIOUS
<1>a. /\ now \in Nat
      /\ NoSessions \in Table
      /\ \A w \in {"pending", "ok", "nil", "error"} : Answer(w) \in Outcome
      /\ \A e \in Entry : Found(e) \in Outcome
      /\ \A p \in Proc : Result(p) \in Outcome
  BY MaxTimeAssumption
  DEF TypeOK, NoSessions, Table, Answer, Found, Outcome, Result
<1>1. CASE Tick
  BY <1>1, MaxTimeAssumption DEF Tick, TypeOK
<1>2. ASSUME NEW p \in Proc, Step(p) PROVE TypeOK'
  <2>1. CASE \E r \in RequestsAt(now) : Call(p, r)
    BY <2>1, <1>a, RequestsAreRequests DEF Call, TypeOK
  <2>2. CASE Acquire(p) \/ LockFails(p) \/ Unlock(p) \/ Return(p) \/ Crash(p)
    BY <2>2, <1>a DEF Acquire, LockFails, Unlock, Return, Crash, TypeOK, Locked
  <2>3. CASE Unreadable(p) \/ DiskFails(p) \/ WriteTemp(p)
    BY <2>3, <1>a DEF Unreadable, DiskFails, WriteTemp, Goto, Done, TypeOK, Locked
  <2>4. CASE Load(p)
    <3>1. req[p].login \in Login
      BY <2>4 DEF Load, Read, TypeOK, RequestOpen, Request
    <3>2. file.sessions[req[p].login] \in Entry \cup {NoEntry}
      BY <3>1 DEF TypeOK, FileType, Table
    <3> QED
      BY <2>4, <3>2, <1>a DEF Load, Goto, Done, TypeOK, Locked
  <2>5. CASE Save(p)
    <3>1. req[p].login \in Login /\ req[p].entry \in Entry
      BY <2>5, NoReqAssumption DEF Save, Read, TypeOK, RequestOpen, Request
    <3>2. Put(file.sessions, req[p].login, req[p].entry) \in Table
      BY <3>1, PutFact DEF TypeOK, FileType
    <3> QED
      BY <2>5, <3>2 DEF Save, WriteBack, Goto, TypeOK, Locked
  <2>6. CASE Refresh(p)
    <3>1. req[p].login \in Login /\ req[p].entry \in Entry
      BY <2>6, NoReqAssumption DEF Refresh, Read, TypeOK, RequestOpen, Request
    <3>2. Put(file.sessions, req[p].login, req[p].entry) \in Table
      BY <3>1, PutFact DEF TypeOK, FileType
    <3> QED
      BY <2>6, <3>2, <1>a DEF Refresh, WriteBack, Done, Goto, TypeOK, Locked
  <2>7. CASE deleteLocked(p)
    <3>2. Drop(file.sessions, req[p].login) \in Table
      BY DropTable DEF TypeOK, FileType
    <3> QED
      BY <2>7, <3>2, <1>a DEF deleteLocked, WriteBack, Done, Goto, TypeOK, Locked
  <2>8. CASE Rename(p) \/ Remove(p)
    BY <2>8, <1>a DEF Rename, Remove, Done, NoFile, TomlFile, TypeOK, Locked, FileType
  <2> QED
    BY <1>2, <2>1, <2>2, <2>3, <2>4, <2>5, <2>6, <2>7, <2>8 DEF Step, Body
<1> QED
  BY <1>1, <1>2 DEF Next, vars, TypeOK

LEMMA InitIInv == Init => IInv
<1> SUFFICES ASSUME Init PROVE IInv
  OBVIOUS
<1>1. TypeOK
  BY InitType
<1>2. MutualExclusion
  BY NoProcAssumption DEF Init, MutualExclusion, Locked
<1>3. RequestOpen /\ WriterKnows
  BY DEF Init, RequestOpen, WriterKnows
<1>4. NoEmptyFile
  BY DEF Init, NoEmptyFile, NoFile, CorruptFile, TomlFile, IsEmpty, NoSessions
<1> QED
  BY <1>1, <1>2, <1>3, <1>4 DEF IInv

\* The invariant survives the passing of time: what has expired stays expired.
LEMMA TickIInv == IInv /\ Tick => IInv'
<1> SUFFICES ASSUME IInv, Tick PROVE IInv'
  OBVIOUS
<1> USE DEF IInv
<1>1. TypeOK'
  BY StepType DEF Next
<1>2. MutualExclusion' /\ RequestOpen' /\ NoEmptyFile'
  BY DEF Tick, MutualExclusion, RequestOpen, NoEmptyFile
<1>3. ASSUME NEW p \in Proc PROVE Drops(p) /\ req[p] # NoReq => Drops(p)'
  <2> SUFFICES ASSUME Drops(p), req[p] # NoReq PROVE Drops(p)'
    OBVIOUS
  <2>1. OwnEntry(p) \in Entry /\ now \in Nat
    BY MaxTimeAssumption
    DEF Drops, OwnEntry, TypeOK, FileType, Table, Request
  <2>2. Expired(OwnEntry(p), now) => Expired(OwnEntry(p), now + 1)
    BY <2>1 DEF Expired, Entry
  <2> QED
    BY <2>2 DEF Tick, Drops, OwnEntry
<1>4. WriterKnows'
  <2> SUFFICES ASSUME NEW p \in Proc PROVE WriterKnows!(p)'
    BY DEF WriterKnows
  <2>1. Puts(p) => Puts(p)'
    BY DEF Tick, Puts
  <2> QED
    BY <2>1, <1>3 DEF Tick, WriterKnows, RequestOpen
<1> QED
  BY <1>1, <1>2, <1>4

\* What a step of p does outside its own body: the bodies leave the lock and
\* the requests alone, and only Rename and Remove touch the file.
LEMMA BodyFrame ==
    ASSUME NEW p \in Proc, TypeOK, Body(p)
    PROVE  /\ pc[p] \in Locked \ {"unlock"}
           /\ now' = now /\ lock' = lock /\ req' = req
           /\ \E label \in Locked : pc' = [pc EXCEPT ![p] = label]
           /\ \A q \in Proc \ {p} : buf'[q] = buf[q] /\ out'[q] = out[q]
           /\ file' # file => pc[p] \in {"rename", "remove"}
BY DEF Body, Unreadable, Load, Save, Refresh, deleteLocked, WriteTemp, Rename,
       Remove, DiskFails, Done, Goto, WriteBack, Read, Locked, TypeOK

LEMMA StepMutualExclusion ==
    ASSUME NEW p \in Proc, IInv, Step(p)
    PROVE  MutualExclusion'
<1> USE DEF IInv
<1>1. CASE Body(p)
  BY <1>1, BodyFrame DEF MutualExclusion, TypeOK
<1>2. CASE Acquire(p)
  BY <1>2, NoProcAssumption DEF Acquire, MutualExclusion, Locked, TypeOK
<1>3. CASE Unlock(p) \/ Crash(p)
  BY <1>3, NoProcAssumption DEF Unlock, Crash, MutualExclusion, Locked, TypeOK
<1>4. CASE LockFails(p) \/ Return(p) \/ \E r \in RequestsAt(now) : Call(p, r)
  BY <1>4 DEF LockFails, Return, Call, MutualExclusion, Locked, TypeOK
<1> QED
  BY <1>1, <1>2, <1>3, <1>4 DEF Step

LEMMA StepRequestOpen ==
    ASSUME NEW p \in Proc, IInv, Step(p)
    PROVE  RequestOpen'
<1> USE DEF IInv
<1>a. /\ \A w \in {"ok", "nil", "error"} : Answer(w) # Answer("pending")
      /\ \A e : Found(e) # Answer("pending")
  BY DEF Answer, Found
<1>1. CASE \E r \in RequestsAt(now) : Call(p, r)
  <2> PICK r \in RequestsAt(now) : Call(p, r)
    BY <1>1
  <2>1. r # NoReq
    BY RequestsAreRequests, NoReqAssumption, MaxTimeAssumption DEF TypeOK
  <2> QED
    BY <2>1 DEF Call, RequestOpen, TypeOK
<1>2. CASE Acquire(p) \/ LockFails(p) \/ Unlock(p) \/ Return(p) \/ Crash(p)
  BY <1>2, <1>a DEF Acquire, LockFails, Unlock, Return, Crash, RequestOpen, TypeOK
<1>3. CASE Unreadable(p) \/ DiskFails(p) \/ Rename(p) \/ Remove(p) \/ WriteTemp(p)
  BY <1>3, <1>a DEF Unreadable, DiskFails, Rename, Remove, WriteTemp, Done, Goto,
                    Result, RequestOpen, TypeOK
<1>4. CASE Load(p) \/ Save(p) \/ Refresh(p) \/ deleteLocked(p)
  BY <1>4, <1>a DEF Load, Save, Refresh, deleteLocked, Read, WriteBack, Done, Goto,
                    Result, RequestOpen, TypeOK
<1> QED
  BY <1>1, <1>2, <1>3, <1>4 DEF Step, Body

LEMMA StepNoEmptyFile ==
    ASSUME NEW p \in Proc, IInv, Step(p)
    PROVE  NoEmptyFile'
<1> USE DEF IInv
<1>1. CASE Rename(p)
  <2>1. req[p] \in Request
    BY <1>1 DEF Rename, RequestOpen, TypeOK
  <2>2. Puts(p) => ~IsEmpty(buf[p])
    BY <2>1, PutFact, NoReqAssumption DEF Puts, TypeOK, FileType, Request
  <2> QED
    BY <1>1, <2>2 DEF Rename, WriterKnows, NoEmptyFile, IsEmpty, TomlFile, Done
<1>2. CASE Remove(p)
  BY <1>2 DEF Remove, NoEmptyFile, NoFile, IsEmpty, NoSessions
<1>3. CASE file' = file
  BY <1>3 DEF NoEmptyFile
<1>4. Body(p) => file' = file \/ Rename(p) \/ Remove(p)
  BY DEF Body, Unreadable, Load, Save, Refresh, deleteLocked, WriteTemp, Rename,
         Remove, DiskFails, Done, Goto, WriteBack
<1> QED
  BY <1>1, <1>2, <1>3, <1>4
  DEF Step, Call, Acquire, LockFails, Unlock, Return, Crash

\* What another process knows stays true: it holds no lock while p writes.
LEMMA StepWriterKnowsOther ==
    ASSUME NEW p \in Proc, IInv, Step(p), NEW q \in Proc \ {p}
    PROVE  WriterKnows!(q)'
<1> USE DEF IInv
<1>1. CASE file' = file /\ Body(p)
  <2>1. pc'[q] = pc[q] /\ UNCHANGED <<now, req>> /\ buf'[q] = buf[q]
    BY <1>1, BodyFrame DEF TypeOK
  <2> QED
    BY <1>1, <2>1 DEF WriterKnows, Puts, Drops, OwnEntry
<1>2. CASE ~Body(p)
  <2>1. /\ pc'[q] = pc[q] /\ req'[q] = req[q] /\ buf'[q] = buf[q]
        /\ now' = now /\ file' = file
    BY <1>2 DEF Step, Call, Acquire, LockFails, Unlock, Return, Crash, TypeOK
  <2> QED
    BY <2>1 DEF WriterKnows, Puts, Drops, OwnEntry
<1>3. CASE file' # file /\ Body(p)
  <2>1. pc'[q] = pc[q] /\ pc[p] \in Locked
    BY <1>3, BodyFrame DEF TypeOK
  <2>2. pc[q] \notin Locked
    BY <2>1 DEF MutualExclusion
  <2> QED
    BY <2>1, <2>2 DEF Locked
<1> QED
  BY <1>1, <1>2, <1>3

\* What p itself knows after its step.
LEMMA StepWriterKnowsOwn ==
    ASSUME NEW p \in Proc, IInv, Step(p)
    PROVE  WriterKnows!(p)'
<1> USE DEF IInv
<1>1. CASE pc'[p] \notin {"reread", "write", "rename", "remove"}
  BY <1>1
<1>2. CASE Load(p)
  <2>1. req[p].login \in Login
    BY <1>2 DEF Load, Read, RequestOpen, TypeOK, Request
  <2> QED
    BY <1>2 DEF Load, Read, Done, Goto, Drops, OwnEntry, TypeOK
<1>3. CASE Save(p)
  BY <1>3 DEF Save, Read, WriteBack, Goto, Puts, TypeOK
<1>4. CASE Refresh(p)
  BY <1>4 DEF Refresh, Read, WriteBack, Done, Goto, Puts, TypeOK
<1>5. CASE deleteLocked(p)
  <2>1. req[p].login \in Login /\ file.sessions \in Table
    BY <1>5 DEF deleteLocked, Read, RequestOpen, TypeOK, FileType, Request
  <2>2. Drop(file.sessions, req[p].login) # file.sessions => OwnEntry(p) # NoEntry
    BY <2>1, DropFact DEF OwnEntry
  <2>3. Drop(file.sessions, req[p].login) # file.sessions => Drops(p)
    BY <1>5, <2>2 DEF deleteLocked, Read, WriterKnows, Drops
  <2> QED
    BY <1>5, <2>3
    DEF deleteLocked, Read, WriteBack, Done, Goto, Drops, OwnEntry, WriterKnows, TypeOK
<1>6. CASE WriteTemp(p)
  BY <1>6 DEF WriteTemp, Goto, WriterKnows, Puts, Drops, OwnEntry, TypeOK
<1>7. CASE Unreadable(p) \/ DiskFails(p) \/ Rename(p) \/ Remove(p)
  BY <1>7, <1>1 DEF Unreadable, DiskFails, Rename, Remove, Done, TypeOK
<1>8. CASE \/ \E r \in RequestsAt(now) : Call(p, r)
           \/ Acquire(p) \/ LockFails(p) \/ Unlock(p) \/ Return(p) \/ Crash(p)
  BY <1>8, <1>1 DEF Call, Acquire, LockFails, Unlock, Return, Crash, TypeOK
<1> QED
  BY <1>2, <1>3, <1>4, <1>5, <1>6, <1>7, <1>8 DEF Step, Body

\* IInv is inductive.
LEMMA NextIInv == IInv /\ [Next]_vars => IInv'
<1> SUFFICES ASSUME IInv, [Next]_vars PROVE IInv'
  OBVIOUS
<1>1. CASE Tick
  BY <1>1, TickIInv
<1>2. ASSUME NEW p \in Proc, Step(p) PROVE IInv'
  <2>1. TypeOK'
    BY StepType DEF IInv
  <2>2. WriterKnows'
    <3>1. \A q \in Proc : WriterKnows!(q)'
      BY <1>2, StepWriterKnowsOwn, StepWriterKnowsOther
    <3> QED
      BY <3>1 DEF WriterKnows
  <2> QED
    BY <1>2, <2>1, <2>2, StepMutualExclusion, StepRequestOpen, StepNoEmptyFile
    DEF IInv
<1>3. CASE UNCHANGED vars
  BY <1>3 DEF vars, IInv, TypeOK, MutualExclusion, RequestOpen, WriterKnows,
              NoEmptyFile, Puts, Drops, OwnEntry
<1> QED
  BY <1>1, <1>2, <1>3 DEF Next

LEMMA Invariance == Spec => []IInv
BY InitIInv, NextIInv, PTL DEF Spec

-------------------------------------------------------------------------------
\* The theorems.

\* Every variable keeps its type in every behaviour of the store.
THEOREM TypeCorrect == Spec => []TypeOK
<1>1. IInv => TypeOK
  BY DEF IInv
<1> QED
  BY <1>1, Invariance, PTL

\* The flock keeps the bodies of two operations apart, and every way out of
\* a body (return, error, death of the process) gives it back.
THEOREM MutexCorrect == Spec => []MutualExclusion
<1>1. IInv => MutualExclusion
  BY DEF IInv
<1> QED
  BY <1>1, Invariance, PTL

\* sessions.toml disappears with its last entry and is never left empty.
THEOREM NoEmptyFileCorrect == Spec => []NoEmptyFile
<1>1. IInv => NoEmptyFile
  BY DEF IInv
<1> QED
  BY <1>1, Invariance, PTL

\* Between its read and its rename or remove a process works on the sessions
\* that are on disk: no other process's Save is lost.
THEOREM ReadIsFreshCorrect == Spec => []ReadIsFresh
<1>1. IInv => ReadIsFresh
  <2> SUFFICES ASSUME IInv, NEW p \in Proc PROVE ReadIsFresh!(p)
    BY DEF ReadIsFresh
  <2>1. CASE pc[p] \in {"write", "rename", "remove"}
    <3>1. req[p] \in Request /\ req[p].login \in Login /\ file.sessions \in Table
      BY <2>1 DEF IInv, RequestOpen, TypeOK, FileType, Request
    <3>2. Puts(p) => \A l \in Others(p) : buf[p][l] = file.sessions[l]
      BY <3>1, PutFact, NoReqAssumption DEF Puts, Others, Request, Put, Table
    <3>3. \A l \in Others(p) : Drop(file.sessions, req[p].login)[l] = file.sessions[l]
      BY <3>1, DropFact DEF Others
    <3>4. IsEmpty(Drop(file.sessions, req[p].login))
            => \A l \in Others(p) : file.sessions[l] = NoEntry
      BY <3>3 DEF IsEmpty, Others
    <3> QED
      BY <2>1, <3>2, <3>3, <3>4 DEF IInv, WriterKnows
  <2> QED
    BY <2>1
<1> QED
  BY <1>1, Invariance, PTL

\* A Heartbeat that is about to write still sees its own token on disk.
THEOREM RefreshIsCurrentCorrect == Spec => []RefreshIsCurrent
<1>1. IInv => RefreshIsCurrent
  BY DEF IInv, RefreshIsCurrent, WriterKnows, Puts, Drops, Matches
<1> QED
  BY <1>1, Invariance, PTL

\* Load drops an entry only while that very entry, as it is on disk, is expired.
THEOREM LoadDropsOnlyExpiredCorrect == Spec => []LoadDropsOnlyExpired
<1>1. IInv => LoadDropsOnlyExpired
  BY DEF IInv, LoadDropsOnlyExpired, WriterKnows, Puts, Drops, OwnEntry
<1> QED
  BY <1>1, Invariance, PTL

\* Whatever Rename or Remove puts on disk is the table of the writer's
\* request applied to the table that was there.
LEMMA Commit ==
    ASSUME NEW p \in Proc, IInv, Rename(p) \/ Remove(p)
    PROVE  /\ req[p] \in Request
           /\ out[p] = Answer("pending") /\ lock = p
           /\ \/ /\ Puts(p)
                 /\ req[p].entry \in Entry
                 /\ file'.sessions = Put(file.sessions, req[p].login, req[p].entry)
              \/ /\ Drops(p)
                 /\ file'.sessions = Drop(file.sessions, req[p].login)
<1> USE DEF IInv
<1>1. /\ req[p] \in Request /\ req[p].login \in Login
      /\ out[p] = Answer("pending") /\ lock = p
  BY DEF Rename, Remove, RequestOpen, MutualExclusion, Locked, TypeOK, Request
<1>2. Puts(p) => req[p].entry \in Entry
  BY <1>1 DEF Puts, Request
<1>3. CASE Rename(p)
  BY <1>1, <1>2, <1>3 DEF Rename, WriterKnows, TomlFile, Puts
<1>4. CASE Remove(p)
  <2>1. Drop(file.sessions, req[p].login) = NoSessions
    BY <1>1, <1>4, DropFact DEF Remove, WriterKnows, TypeOK, FileType
  <2> QED
    BY <1>1, <1>4, <2>1 DEF Remove, WriterKnows, NoFile
<1> QED
  BY <1>1, <1>3, <1>4

\* Only Rename and Remove change the file.
LEMMA OnlyCommits ==
    ASSUME [Next]_vars, file' # file
    PROVE  \E p \in Proc : Rename(p) \/ Remove(p)
BY DEF Next, Tick, Step, Call, Acquire, LockFails, Unlock, Return, Crash, Body,
       Unreadable, Load, Save, Refresh, deleteLocked, WriteTemp, DiskFails, Done,
       Goto, WriteBack, vars

\* A step changes the session of the login its writer names, and no other.
THEOREM OnlyOwnEntryChangesCorrect == Spec => OnlyOwnEntryChanges
<1>1. ASSUME IInv, [Next]_vars, NEW l \in Login,
             file.sessions'[l] # file.sessions[l]
      PROVE  \E p \in Proc : lock = p /\ req[p].login = l
  <2>1. file' # file
    BY <1>1
  <2> PICK p \in Proc : Rename(p) \/ Remove(p)
    BY <1>1, <2>1, OnlyCommits
  <2>2. req[p].login \in Login /\ lock = p /\ file.sessions \in Table
    BY <1>1, Commit DEF IInv, TypeOK, FileType, Request
  <2>3. \A m \in Login \ {req[p].login} : file'.sessions[m] = file.sessions[m]
    <3>1. \A e \in Entry, m \in Login \ {req[p].login} :
             Put(file.sessions, req[p].login, e)[m] = file.sessions[m]
      BY <2>2, PutFact
    <3>2. \A m \in Login \ {req[p].login} :
             Drop(file.sessions, req[p].login)[m] = file.sessions[m]
      BY <2>2, DropFact
    <3> QED
      BY <1>1, <3>1, <3>2, Commit
  <2> QED
    BY <1>1, <2>2, <2>3
<1>2. IInv /\ [Next]_vars =>
        [\A l \in Login : file.sessions'[l] # file.sessions[l]
            => \E p \in Proc : lock = p /\ req[p].login = l]_vars
  BY <1>1
<1> QED
  BY <1>2, Invariance, PTL DEF Spec, OnlyOwnEntryChanges

\* No operation overwrites or removes a file that does not parse.
THEOREM CorruptFileIsKeptCorrect == Spec => CorruptFileIsKept
<1>1. IInv /\ [Next]_vars => [file.kind = "corrupt" => file' = file]_vars
  <2> SUFFICES ASSUME IInv, [Next]_vars, file' # file
               PROVE  file.kind # "corrupt"
    OBVIOUS
  <2> PICK p \in Proc : Rename(p) \/ Remove(p)
    BY OnlyCommits
  <2> QED
    BY DEF Rename, Remove, IInv, WriterKnows
<1> QED
  BY <1>1, Invariance, PTL DEF Spec, CorruptFileIsKept

-------------------------------------------------------------------------------
\* Refinement: file, lock, temporary files and deaths of processes together
\* behave as one table on which each operation takes effect at an instant.

\* The instance's copies of the operators of SessionOps mean the same.
LEMMA SameOperators ==
    /\ Abstract!Entry = Entry
    /\ Abstract!Request = Request
    /\ Abstract!Table = Table
    /\ \A t : Abstract!RequestsAt(t) = RequestsAt(t)
    /\ \A w : Abstract!Answer(w) = Answer(w)
    /\ \A e : Abstract!Found(e) = Found(e)
    /\ \A e, t : Abstract!Expired(e, t) <=> Expired(e, t)
    /\ \A t, l, e : Abstract!Matches(t, l, e) <=> Matches(t, l, e)
    /\ \A t, l, e : Abstract!Put(t, l, e) = Put(t, l, e)
    /\ \A t, l : Abstract!Drop(t, l) = Drop(t, l)
<1>1. Abstract!Entry = Entry /\ Abstract!Request = Request /\ Abstract!Table = Table
  BY DEF Abstract!Entry, Entry, Abstract!Request, Request, Abstract!Table, Table
<1>2. \A t : Abstract!RequestsAt(t) = RequestsAt(t)
  BY DEF Abstract!RequestsAt, RequestsAt, Abstract!Filled, Filled,
         Abstract!LifetimeOf, LifetimeOf
<1>3. /\ \A w : Abstract!Answer(w) = Answer(w)
      /\ \A e : Abstract!Found(e) = Found(e)
      /\ \A e, t : Abstract!Expired(e, t) <=> Expired(e, t)
      /\ \A t, l, e : Abstract!Matches(t, l, e) <=> Matches(t, l, e)
      /\ \A t, l, e : Abstract!Put(t, l, e) = Put(t, l, e)
      /\ \A t, l : Abstract!Drop(t, l) = Drop(t, l)
  BY DEF Abstract!Answer, Answer, Abstract!Found, Found, Abstract!Expired, Expired,
         Abstract!Matches, Matches, Abstract!Put, Put, Abstract!Drop, Drop
<1> QED
  BY <1>1, <1>2, <1>3

LEMMA InitRefines == Init => Abstract!Init
<1> SUFFICES ASSUME Init PROVE Abstract!Init
  OBVIOUS
<1>1. file.sessions \in Table
  BY InitType DEF TypeOK, FileType
<1> QED
  BY <1>1, SameOperators DEF Init, Abstract!Init

LEMMA StepRefines ==
    ASSUME IInv, [Next]_vars
    PROVE  [Abstract!Next]_(Abstract!vars)
<1> USE DEF IInv
<1>1. CASE Tick
  BY <1>1 DEF Tick, Abstract!Tick, Abstract!Next
<1>2. CASE UNCHANGED vars
  BY <1>2 DEF vars, Abstract!vars
<1>3. ASSUME NEW p \in Proc, Step(p)
      PROVE  [Abstract!Next]_(Abstract!vars)
  <2>0. SUFFICES ASSUME ~UNCHANGED Abstract!vars
                 PROVE  \/ \E r \in Abstract!RequestsAt(now) : Abstract!Call(p, r)
                        \/ Abstract!DoLoad(p) \/ Abstract!DoSave(p)
                        \/ Abstract!DoRefresh(p) \/ Abstract!DoDelete(p)
                        \/ Abstract!Fail(p) \/ Abstract!Return(p) \/ Abstract!Crash(p)
    BY DEF Abstract!Next
  <2>a. req[p] = NoReq <=> pc[p] = "idle"
    BY DEF RequestOpen
  <2>b. out[p] = Answer("pending") <=> pc[p] \notin {"unlock", "return"}
    BY DEF RequestOpen
  <2>1. CASE \E r \in RequestsAt(now) : Call(p, r)
    BY <2>1, <2>a, SameOperators DEF Call, Abstract!Call
  <2>2. CASE Acquire(p) \/ Unlock(p) \/ WriteTemp(p) \/ Save(p)
    BY <2>0, <2>2 DEF Acquire, Unlock, WriteTemp, Save, WriteBack, Goto, Abstract!vars
  <2>3. CASE LockFails(p)
    BY <2>3, <2>a, <2>b, SameOperators
    DEF LockFails, Abstract!Fail, Abstract!Finish
  <2>4. CASE Unreadable(p) \/ DiskFails(p)
    BY <2>4, <2>a, <2>b, SameOperators
    DEF Unreadable, DiskFails, Done, Abstract!Fail, Abstract!Finish
  <2>5. CASE Return(p)
    BY <2>5, <2>a, <2>b, SameOperators DEF Return, Abstract!Return
  <2>6. CASE Crash(p)
    BY <2>6, <2>a, SameOperators DEF Crash, Abstract!Crash
  <2>7. CASE Load(p)
    BY <2>0, <2>7, <2>a, <2>b, SameOperators
    DEF Load, Read, Done, Goto, Abstract!DoLoad, Abstract!Pending, Abstract!Finish,
        Abstract!vars
  <2>8. CASE Refresh(p)
    BY <2>0, <2>8, <2>a, <2>b, SameOperators
    DEF Refresh, Read, WriteBack, Done, Goto, Abstract!DoRefresh, Abstract!Pending,
        Abstract!Finish, Abstract!vars
  <2>9. CASE deleteLocked(p)
    <3>1. req[p].login \in Login /\ file.sessions \in Table
      BY <2>9, <2>a DEF deleteLocked, Read, TypeOK, FileType, Request
    <3>2. CASE Drop(file.sessions, req[p].login) = file.sessions
      <4>1. OwnEntry(p) = NoEntry
        BY <3>1, <3>2, DropFact DEF OwnEntry
      <4>2. req[p].op = "Delete"
        BY <2>9, <4>1 DEF deleteLocked, Read, WriterKnows, Drops
      <4> QED
        BY <2>9, <3>2, <4>2, <2>a, <2>b, SameOperators
        DEF deleteLocked, Read, Done, Result, Abstract!DoDelete, Abstract!Pending,
            Abstract!Finish
    <3>3. CASE Drop(file.sessions, req[p].login) # file.sessions
      BY <2>0, <2>9, <3>3 DEF deleteLocked, WriteBack, Goto, Abstract!vars
    <3> QED
      BY <3>2, <3>3
  <2>10. CASE Rename(p) \/ Remove(p)
    <3>1. /\ now' = now /\ req' = req
          /\ out' = [out EXCEPT ![p] = Result(p)]
      BY <2>10 DEF Rename, Remove, Done
    <3>2. req[p] # NoReq
      BY <2>10, <2>a DEF Rename, Remove
    <3>3. CASE /\ Puts(p)
               /\ file'.sessions = Put(file.sessions, req[p].login, req[p].entry)
      BY <3>1, <3>2, <3>3, <2>10, Commit, SameOperators
      DEF Puts, Result, Abstract!DoSave, Abstract!DoRefresh, Abstract!Pending,
          Abstract!Finish
    <3>4. CASE /\ Drops(p)
               /\ file'.sessions = Drop(file.sessions, req[p].login)
      BY <3>1, <3>2, <3>4, <2>10, Commit, SameOperators
      DEF Drops, OwnEntry, Result, Abstract!DoDelete, Abstract!DoLoad,
          Abstract!Pending, Abstract!Finish
    <3> QED
      BY <2>10, <3>3, <3>4, Commit
  <2> QED
    BY <1>3, <2>1, <2>2, <2>3, <2>4, <2>5, <2>6, <2>7, <2>8, <2>9, <2>10
    DEF Step, Body
<1> QED
  BY <1>1, <1>2, <1>3 DEF Next

\* The store is a linearizable table of sessions: it implements SessionMap.
THEOREM StoreImplementsMap == Spec => AbstractSpec
<1>1. IInv /\ [Next]_vars => [Abstract!Next]_(Abstract!vars)
  BY StepRefines
<1> QED
  BY <1>1, InitRefines, Invariance, PTL DEF Spec, AbstractSpec, Abstract!Spec
==============================================================================
