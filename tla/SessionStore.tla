----------------------------- MODULE SessionStore -----------------------------
(***************************************************************************)
(* internal/session/store.go: sessions.toml, shared by kasapi-cli          *)
(* processes.  Every operation takes the advisory lock (withLock), reads   *)
(* the whole file, changes it in memory, writes it to a temporary file and *)
(* renames that over the original, or removes the file with its last       *)
(* entry.  Each of those is a step of its own here: another process runs   *)
(* between any two, and a process may die between any two.                 *)
(*                                                                         *)
(* Not modelled: MkdirAll, Chmod and the file mode, and the names of       *)
(* temporary files (os.CreateTemp makes them unique, so a file a dead      *)
(* process left behind is never read or renamed by another).               *)
(***************************************************************************)
EXTENDS SessionOps

CONSTANTS Proc,       \* kasapi-cli processes (one slot is reused by later runs)
          NoProc,     \* the owner of a free lock
          MaxTime     \* bound on the clock

ASSUME NoProcAssumption == NoProc \notin Proc
ASSUME MaxTimeAssumption == MaxTime \in Nat

VARIABLES now,  \* the wall clock
          file, \* sessions.toml: is it there and readable, and its sessions
          lock, \* the process that holds the flock on sessions.toml.lock
          pc,   \* where each process is inside an operation
          req,  \* the operation it executes
          buf,  \* the table it is about to write
          out   \* the result it is about to return

vars == <<now, file, lock, pc, req, buf, out>>

\* The steps at which a process holds the lock.
Locked == {"read", "reread", "write", "rename", "remove", "unlock"}

\* "corrupt" is a file toml.DecodeFile rejects (somebody edited it).
FileType == [kind : {"absent", "toml", "corrupt"}, sessions : Table]

NoFile      == [kind |-> "absent", sessions |-> NoSessions]
CorruptFile == [kind |-> "corrupt", sessions |-> NoSessions]
TomlFile(t) == [kind |-> "toml", sessions |-> t]

TypeOK ==
    /\ now \in 0..MaxTime
    /\ file \in FileType
    /\ lock \in Proc \cup {NoProc}
    /\ pc \in [Proc -> {"idle", "lock", "return"} \cup Locked]
    /\ req \in [Proc -> Request \cup {NoReq}]
    /\ buf \in [Proc -> Table]
    /\ out \in [Proc -> Outcome]

\* A file a person left: none, one that does not parse, or any sessions, an
\* entry without expires_at among them.
InitialTables ==
    [Login -> {NoEntry} \cup Given \cup {Filled(e, 0) : e \in Given}]

Init ==
    /\ now = 0
    /\ file \in {NoFile, CorruptFile}
                \cup {TomlFile(t) : t \in {u \in InitialTables : ~IsEmpty(u)}}
    /\ lock = NoProc
    /\ pc = [p \in Proc |-> "idle"]
    /\ req = [p \in Proc |-> NoReq]
    /\ buf = [p \in Proc |-> NoSessions]
    /\ out = [p \in Proc |-> Answer("pending")]

Tick ==
    /\ now < MaxTime
    /\ now' = now + 1
    /\ UNCHANGED <<file, lock, pc, req, buf, out>>

-------------------------------------------------------------------------------
\* Calling an operation, and the flock around its body.

Call(p, r) ==
    /\ pc[p] = "idle"
    /\ pc' = [pc EXCEPT ![p] = "lock"]
    /\ req' = [req EXCEPT ![p] = r]
    /\ UNCHANGED <<now, file, lock, buf, out>>

\* TryLockContext polls until it gets the lock.
Unguarded == TRUE
LockFree == lock = NoProc

Acquire(p) ==
    /\ pc[p] = "lock"
    /\ LockFree
    /\ lock' = p
    /\ pc' = [pc EXCEPT ![p] = "read"]
    /\ UNCHANGED <<now, file, req, buf, out>>

\* The lock directory or file cannot be made, or ctx ends the wait.
LockFails(p) ==
    /\ pc[p] = "lock"
    /\ pc' = [pc EXCEPT ![p] = "return"]
    /\ out' = [out EXCEPT ![p] = Answer("error")]
    /\ UNCHANGED <<now, file, lock, req, buf>>

\* The deferred Unlock: whatever the body did, the lock is given back.
Unlock(p) ==
    /\ pc[p] = "unlock"
    /\ lock' = NoProc
    /\ pc' = [pc EXCEPT ![p] = "return"]
    /\ buf' = [buf EXCEPT ![p] = NoSessions]
    /\ UNCHANGED <<now, file, req, out>>

Return(p) ==
    /\ pc[p] = "return"
    /\ pc' = [pc EXCEPT ![p] = "idle"]
    /\ req' = [req EXCEPT ![p] = NoReq]
    /\ out' = [out EXCEPT ![p] = Answer("pending")]
    /\ UNCHANGED <<now, file, lock, buf>>

\* The process is killed: the kernel drops its lock, a temporary file stays.
Crash(p) ==
    /\ pc[p] # "idle"
    /\ lock' = IF lock = p THEN NoProc ELSE lock
    /\ pc' = [pc EXCEPT ![p] = "idle"]
    /\ req' = [req EXCEPT ![p] = NoReq]
    /\ buf' = [buf EXCEPT ![p] = NoSessions]
    /\ out' = [out EXCEPT ![p] = Answer("pending")]
    /\ UNCHANGED <<now, file>>

-------------------------------------------------------------------------------
\* The bodies that run under the lock.

\* The body is over: its result is known and the deferred Unlock is next.
Done(p, answer) ==
    /\ pc' = [pc EXCEPT ![p] = "unlock"]
    /\ out' = [out EXCEPT ![p] = answer]
    /\ UNCHANGED <<now, lock, req, buf>>

Goto(p, label) ==
    /\ pc' = [pc EXCEPT ![p] = label]
    /\ UNCHANGED <<now, file, lock, req, out>>

\* The body goes on to write t.
WriteBack(p, t) ==
    /\ buf' = [buf EXCEPT ![p] = t]
    /\ Goto(p, "write")

\* What a body returns when nothing failed: Load drops an expired entry and
\* returns nil, the others return no error.
Result(p) == IF req[p].op = "Load" THEN Answer("nil") ELSE Answer("ok")

\* What it returns when a step of it failed: the error, also for a Load that could not
\* remove the expired entry it found (a slip would take a Delete that removed nothing
\* for done).
DeleteSwallows(p) == IF req[p].op = "Delete" THEN Result(p) ELSE Answer("error")
Failure(p) == Answer("error")

\* read() fails on a file that does not parse; one that is absent is empty.
CorruptIsEmpty == TRUE
Readable == file.kind # "corrupt"

Unreadable(p) ==
    /\ pc[p] \in {"read", "reread"}
    /\ ~Readable
    /\ Done(p, Failure(p))
    /\ UNCHANGED file

Read(p, op) ==
    /\ pc[p] = "read"
    /\ req[p].op = op
    /\ Readable

Load(p) ==
    /\ Read(p, "Load")
    /\ LET e == file.sessions[req[p].login] IN
       \/ e = NoEntry  /\ Done(p, Answer("nil")) /\ UNCHANGED file
       \/ e # NoEntry  /\ Expired(e, now) /\ UNCHANGED buf /\ Goto(p, "reread")
       \/ e # NoEntry  /\ ~Expired(e, now) /\ Done(p, Found(e)) /\ UNCHANGED file

Save(p) ==
    /\ Read(p, "Save")
    /\ WriteBack(p, Put(file.sessions, req[p].login, req[p].entry))

Refresh(p) ==
    /\ Read(p, "Refresh")
    /\ LET l == req[p].login  e == req[p].entry IN
       \/ Matches(file.sessions, l, e) /\ WriteBack(p, Put(file.sessions, l, e))
       \/ ~Matches(file.sessions, l, e) /\ Done(p, Answer("ok")) /\ UNCHANGED file

\* Delete, and the deletion of the expired entry a Load found.
deleteLocked(p) ==
    /\ Read(p, "Delete") \/ (pc[p] = "reread" /\ Readable)
    /\ LET rest == Drop(file.sessions, req[p].login) IN
       \/ rest = file.sessions /\ Done(p, Result(p)) /\ UNCHANGED file
       \/ rest # file.sessions /\ ~IsEmpty(rest) /\ WriteBack(p, rest)
       \/ rest # file.sessions /\ IsEmpty(rest) /\ UNCHANGED buf /\ Goto(p, "remove")

\* The last entry went: the file goes with it.
Remove(p) ==
    /\ pc[p] = "remove"
    /\ file' = NoFile
    /\ Done(p, Result(p))

\* write(): a temporary file, complete and closed, then the rename.
WriteTemp(p) ==
    /\ pc[p] = "write"
    /\ UNCHANGED buf
    /\ Goto(p, "rename")

Rename(p) ==
    /\ pc[p] = "rename"
    /\ file' = TomlFile(buf[p])
    /\ Done(p, Result(p))

\* A full disk, a missing permission: the original file is untouched.
DiskFails(p) ==
    /\ pc[p] \in {"write", "rename", "remove"}
    /\ Done(p, Failure(p))
    /\ UNCHANGED file

Body(p) ==
    \/ Unreadable(p) \/ Load(p) \/ Save(p) \/ Refresh(p) \/ deleteLocked(p)
    \/ WriteTemp(p) \/ Rename(p) \/ Remove(p) \/ DiskFails(p)

Step(p) ==
    \/ \E r \in RequestsAt(now) : Call(p, r)
    \/ Acquire(p) \/ LockFails(p) \/ Body(p) \/ Unlock(p) \/ Return(p) \/ Crash(p)

Next == Tick \/ \E p \in Proc : Step(p)

Spec == Init /\ [][Next]_vars

-------------------------------------------------------------------------------
\* Properties.

\* At most one process is inside a body, and it is the one the flock names:
\* Crash and every error path of withLock give the lock back.
MutualExclusion ==
    /\ \A p, q \in Proc : pc[p] \in Locked /\ pc[q] \in Locked => p = q
    /\ \A p \in Proc : pc[p] \in Locked <=> lock = p

\* What a process read is still on disk when it replaces the file: between
\* read and rename (or remove) only its own login may differ, so no other
\* process's Save is lost (the comment at LockPath).
Others(p) == Login \ {req[p].login}
ReadIsFresh ==
    \A p \in Proc :
       /\ pc[p] \in {"write", "rename"} =>
             \A l \in Others(p) : buf[p][l] = file.sessions[l]
       /\ pc[p] = "remove" => \A l \in Others(p) : file.sessions[l] = NoEntry

\* A Heartbeat never writes over another token: a Refresh that is about to
\* write still sees its own token on disk.
RefreshIsCurrent ==
    \A p \in Proc :
       pc[p] \in {"write", "rename"} /\ req[p].op = "Refresh"
          => /\ file.sessions[req[p].login] # NoEntry
             /\ file.sessions[req[p].login].token = req[p].entry.token

\* The only entry Load ever drops is one that has expired: no entry another
\* process saved between its two reads goes with it.
LoadDropsOnlyExpired ==
    \A p \in Proc :
       /\ pc[p] \in {"reread", "write", "rename", "remove"}
       /\ req[p].op = "Load"
       => LET e == file.sessions[req[p].login] IN e # NoEntry /\ Expired(e, now)

\* Delete takes the file away with the last entry; none is left empty.
NoEmptyFile == file.kind = "toml" <=> \E l \in Login : file.sessions[l] # NoEntry

\* In a step the file changes in one login at most, the one the writer names.
OnlyOwnEntryChanges ==
    [][\A l \in Login :
         file.sessions'[l] # file.sessions[l]
            => \E p \in Proc : lock = p /\ req[p].login = l]_vars

\* A file that does not parse is never overwritten: Save reports it instead.
CorruptFileIsKept == [][file.kind = "corrupt" => file' = file]_vars

\* Every operation takes effect at one instant or fails without effect.
Abstract == INSTANCE SessionMap WITH table <- file.sessions
AbstractSpec == Abstract!Spec
===============================================================================
