# kasapi-cli in TLA+

This directory is the verification project for `kasapi-cli`, a Go command line
client for the KAS API of All-Inkl (SOAP over HTTPS). It models the parts of the
program whose behaviour depends on order, time, failure or other processes,
checks them with TLC on small instances, and proves the central results with
TLAPS for every value of the constants.

## The system

One run of `kasapi-cli` is one process that does one thing: it parses flags
(`internal/cli`, cobra), resolves credentials from flags, environment and
`config.toml` (`internal/config`), and issues one KAS action. Reads go through
`kasread.ListGet`, writes through the write pipeline of `internal/cli`
(confirmation, dry run, audit record) and `kaswrite.Call`. Either way they reach
`api.Client.Call`, which takes credentials from a token source
(`api.StaticTokenSource` for a plain password, `auth.SessionTokenSource` for a
session), encodes the request (`internal/soap`) and posts it with
`transport.Client.Do`.

```
 cli (cobra) ── run.go: runListE / runGetE / runWriteE ── audit.go, confirm.go, dryrun.go
     │                        │
     │ config.toml            ├─ kasread.ListGet ─┐
     │ (no lock)              └─ kaswrite.Call ───┤
 config.Load/Save/Resolve                         ▼
                                           api.Client.Call ── soap
                                             │        │
                      auth.SessionTokenSource┘        └ transport.Client.Do ── KAS server
                        │            │                  (flood gate, retries)
              session.Store      auth.Client (KasAuth) ── transport ──┘
              sessions.toml + flock
```

There are no goroutines in the production code, and contexts are never
cancelled by it. What makes the system hard is around it: several processes run
at once (cron jobs, scripts, terminals) and share `sessions.toml` (under an
advisory lock), `config.toml` (without one) and the sessions and the rate limit
the KAS server keeps per login; each can be killed between any two system calls;
answers of the server are lost or late; sinks, files and prompts fail.

### Components

| Part | State | Operations | What makes it correct |
|---|---|---|---|
| session store (`session/store.go`) | `sessions.toml`, its flock, a temporary file | `Load`, `Save`, `Refresh`, `Delete` | mutual exclusion, no lost update, each operation atomic or without effect |
| transport (`transport/client.go`) | flood gate, attempt counter, backoff | `RecordDelay`, `Do` | the gate is waited for, only transient failures are retried, `Do` ends |
| token source (`auth/source.go`) | token, expiry, adopted lifetime, `loaded` | `Credentials`, `Invalidate`, `Heartbeat` | a refused token is not used again, a session is described by its own properties, heartbeats resurrect nothing |
| API client (`api/client.go`, `errors.go`) | none of its own | `Call`, `callOnce` | one retry, only after a fresh login |
| logout (`cli/sessions.go`, `cli/config.go`) | none of its own | `sessions delete`, the logout in `use-profile` | the server's session and the cache entry go together, as far as each can |
| write pipeline (`cli/run.go`, `confirm.go`, `dryrun.go`, `audit.go`, `kaswrite`) | audit sinks, exit code | gate, preview, dispatch, audit, render | nothing sent without consent, every dispatch on record, the exit code true |
| configuration (`config/config.go`, `cli/config.go`) | `config.toml` | `init`, `add-profile`, `use-profile` | always loadable, no profile lost, the switch logs out |
| credentials, wiring (`config/credentials.go`, `cli/wire.go`) | none | `Resolve`, `tokenSource` | precedence of flag, environment, profile; session flags are refused or go along with every login |
| codec (`soap`), read helpers (`kasread`) | none | `Decode`, `As*`, `List`, `Get` | lenient and strict coercions, uniqueness: what is shown is what was sent |
| write clients (10 packages), their commands | none | `Add`, `Update`, `Delete`, `add`, `update`, `delete` | the request is what was asked for, no more and no less; what destroys is gated; records carry no secrets |
| read clients (17 packages), their commands | none | `List`, `Get`, `list`, `get` | the right entry, whole, without passwords in tables |

`PROJECT.json` lists every part with its status, and under `hazards` what in
this code a test would hardly reach, at its line, with the property that watches
over it or the reason why none does.

## The modules

| Module | Models | Extends |
|---|---|---|
| `SessionOps` | entries, tables and the decisions of the store (`Expired`, `Matches`, `Put`, `Drop`, ...) | |
| `SessionMap` | the abstract specification: one table, each operation one step | `SessionOps` |
| `SessionStore` | `store.go` as it runs: lock, read, second read, temporary file, rename, remove, unlock, crash | `SessionOps`, instance of `SessionMap` |
| `Transport` | `transport/client.go`, and how `callOnce` feeds the gate | |
| `KasSession` | the life of a session token: several processes, the shared cache, the server | `SessionOps` |
| `WriteRunner` | `runWriteE` from arguments to exit code, over `kaswrite.Call`, `Call` and `Do` | |
| `ConfigFile` | `config.toml` and the three commands that write it | |
| `ResourceTable` | the abstract specification of a write command: one setting-by-setting change of the entry asked for, or none | |
| `WriteClients` | `Add`, `Update`, `Delete` of ten resources: argument checks and request parameters | |
| `CommandLine` | flags and `writeSpec` of every `add`, `update`, `delete` | `WriteClients` |
| `ReadClients` | `List`, `Get`, the filters, decoders and tables of those resources | |
| `KasResources` | the KAS server: which parameter names an entry, which column it is stored in | `CommandLine`, `ReadClients` |
| `Commands` | the resource commands from command line to server and back, with preview and audit record | `KasResources`, instance of `ResourceTable` |
| `SoapValue` | values, accessors and envelopes of the SOAP codec, tokens of KasAuth | |
| `Decoders` | the read-only resources: fields, decoders, tables | `SoapValue` |
| `Credentials` | `Resolve`, `tokenSource`, `buildAuthOptions` | |
| `ReadRunner` | a read command from flags to output, over any answer of the server | `Decoders`, `Credentials` |
| `SessionStoreProofs`, `TransportProofs`, `KasSessionProofs`, `WriteRunnerProofs`, `ConfigFileProofs`, `CommandsProofs`, `ReadRunnerProofs` | the theorems | the module they are about |
| `CommandsSecretsProofs` | the theorem on passwords | `CommandsProofs` |
| `MCSessionStore`, `MCKasSession`, `MCConfigFile`, `MCReadRunner` | constants for TLC | the module they check |

Every definition that stands for code has a `map` entry in `PROJECT.json` with
the lines it stands for. Some modules define a *slip* next to a decision of the
code (`Unguarded` next to `LockFree`, `InPlace` next to `ToTemp`): a plausible
bug that no specification uses; each property is known to catch the slip that
`PROJECT.json` names for it under `mutants`.

### SessionStore, SessionMap

`SessionStore` keeps the file (`absent`, `toml`, `corrupt`), the flock, and per
process a program counter, the operation, the table read and the result. A
process takes the lock (`Acquire`), reads (`Read`), and goes on as `Load`,
`Save`, `Refresh` or `deleteLocked` do; a write is a temporary file and a rename
(`WriteTemp`, `Rename`), the last deletion a `Remove`. `DiskFails`, `LockFails`
and `Crash` may happen wherever the code can fail or die; the kernel drops a dead
process's flock. Another process runs between any two of these steps.

`SessionMap` is what callers rely on: `DoLoad`, `DoSave`, `DoRefresh`, `DoDelete`
change one table in one step, or fail without effect. The refinement maps the
table to the sessions of the file; the commit points are `Rename` and `Remove`.

### Transport

A client is idle, waits for the gate, posts, waits for the answer, sleeps, or
returns. Deadlines are kept as remaining time, so the clock needs no bound.
`Answer` lets server and network do everything `doOnce` tells apart: a body, a
5xx, a network error, a 4xx, a body beyond the limit, with or without the
context cancelled. `Decode` records the flood delay of a response, or the fallback
after a `flood_protection` fault, as `callOnce` does. `asked` is what the server
still wants the login to wait, which the client does not see.

### KasSession

The store appears as `SessionMap` promises it, which is what the refinement
buys: each operation is one step and may fail (`TryStore`). A process runs
`Call`: credentials from memory, from the store (`LoadStored`, `Adopt`) or by a
login (`LoginGranted`, `TakeToken`, `SaveToken`), one post, and after an auth
fault `Invalidate` and one more round; after success a heartbeat (`Beat`,
`RefreshStored`). `Logout`, `RevokeToken` and `DropCached` are `sessions delete`
and the logout of `use-profile`. Between any two of these steps time passes, the
server drops sessions, other processes run, and the process may be killed
(`Stop`). `Reuse` says whether a token source serves more than one `Call`; the
command line makes one per process, the packages allow more.

`rejected` and `gone` are history variables: the tokens the current `Call` was
refused with, and the tokens that have left the cache.

### WriteRunner

One process, one write command. `cmd` holds the flags and surroundings (a
destructive command or not, `--dry-run`, `--yes`, a terminal, `--audit-log`,
session mode, flags the client construction accepts), `sent` and `applied` count
what went out and what the server did. `Lost` is a request or an answer that got
lost: the transport posts again, so `applied` may exceed one. A refused request
may have been applied (`delete_mailstandardfilter` is known to fault after the
effect). Each sink of the audit record, the preview and the result line may fail,
and the process may be killed at every step.

### ConfigFile

A profile is its account, the file a default and a function from names to
accounts, or missing, or cut off. A command loads, prompts, writes a temporary
file and renames it; `use-profile` looks up, revokes and drops the outgoing
session in between. There is no lock. `cached` is what the commands see of
`sessions.toml`: the accounts with an entry, to which a run of any account may
add one (`CacheSession`). `stale` is a history variable: the processes whose file
another has replaced since they loaded it. `logout` is another, what became of the
outgoing session: it was found, an error kept it, it is gone, or another run has
cached a new one. `SwitchDropsSession` says that the default moves away from a
profile whose session is still cached in the last case and after an error only.
The file may be hand-edited (and invalid) before the first command, not while one
runs.

### Commands

One kind of resource and its table at the server, one command after another. A
command line is an operation, its argument and the flags that were typed, each
with its text; an absent flag is absent, which is what `update` is about
(`Changed`). `Build` is the `build` closure of the command (`CommandLine`), and
makes a `writeSpec`: whether it is destructive, its target, and the request that
the client (`WriteClients`) would send with the parameters under their wire keys.
`Gate` is the dry run and the consent, `Dispatch` the client's own checks and the
server, `Finish` the record, `Read` is `get` and `list`. What `WriteRunner`
models step by step (prompts, sinks, retries) is one step here.

The server (`KasResources`) is external: it stores a parameter under the column
`get` reads it from, ignores parameters it does not know, and makes the
identifiers of the resources it names itself (`Generated`), mail lists included:
an add of one carries a name and a domain, and the server makes its identifier of
them. The answer to an add may leave out which (`reply.told`). That is taken from the wire keys,
comments and fixtures in `src/`; the spelling of each key is the code's
(`mail_adress`, `ddns_login` beside `dyndns_*`).

`ResourceTable` is what the user relies on: rows of settings, and a request
(`asked`) that adds, changes, replaces or removes one of them or leaves all as
they are. `AsksImplemented` is the refinement: `Meaning` and `Setting` say what a
flag stands for, whatever keys, defaults and joins carry it.

### ReadRunner

A document is what the XML decoder delivers: a `<return>` of typed elements, a
fault, or less. The answers tried are a good row, and the row with one field
missing, doubled, nil, of another type or with a text that does not parse, in
first or second place, and containers of another shape. `Decoders` lists for each
action which fields it reads as text, leniently as numbers, or strictly. The run
from flags to exit code is `PreRun`, `ResolveCreds`, `BuildClient`, `Fetch`,
`LoadSession`, `Authenticate`, `Call`, `DecodeAnswer`, `Render`. `LoadSession`
adopts the session an earlier run left in `sessions.toml` (`setup.cached` has the
logins with one) before KasAuth is asked; a session the server refuses is given
up, and the call made once more after a login. What the cache does meanwhile is
`KasSession`'s subject and left out here.

## What is checked

| Run | Instance | States | Shows |
|---|---|---|---|
| `session_store` | 2 processes, 2 logins, 2 tokens, 2 clock values, symmetric processes | 325,000 | lock, no lost update, atomicity of each operation, refinement of `SessionMap` |
| `transport` | 1 client, 3 retries, delays 0, 1, 3 | 2,900 | gate, retry loop, cancellation; every `Do` returns |
| `kas_session` | 2 processes, 2 tokens, 3 clock values, one call per process | 1,520,000 | the cache and the memory describe the sessions they hold, the retry is not wasted |
| `kas_session_reuse` | the same, 2 clock values, sources that serve call after call | 796,000 | nothing that left the store returns, with a second cache in the memory of the source |
| `write_runner` | all 128 commands, 3 retries | 40,000 | consent, audit trail, exit code |
| `config_file` | 2 processes, 2 profiles, 2 accounts | 569,000 | the file stays loadable, a command that no other overtakes keeps profiles and default, the switch drops the cached session unless an error keeps it |
| `commands` | 10 kinds of resources, 2 entries each, 2 commands, each flag absent, present or with another value | 204,000 | requests do what was asked (refinement of `ResourceTable`), gates, secrets, records, `get` |
| `read_runner` | 13 actions, good answers with one thing wrong, 7 texts; 3,300 combinations of sources, cached sessions and flags | 96,000 | nothing made up, each credential from its highest source, session flags go along with every login |
| `transport_two`, `kas_session_live`, `write_runner_fault`, `config_file_race` | | | the disagreements below |

**Bounds, and why they are enough.** Two processes are enough for every race
here: each is between one reader or writer and one interferer, and a slot is
used by one run after another, so three and more runs take part in a behaviour.
Two logins are needed for a lost update (the writer's and another's). Two tokens
make an old and a new session; what a third adds is a longer chain of the same
steps. The clock (`MaxTime`) is bounded by 1 or 2 ticks with lifetimes of 1 and
2, so that a session expires before, between and after each step of another one.
Three retries are the code's default (`MaxRetries` is a constant and arbitrary
in the proofs). Delays 0, 1 and 3 lie around the fallback of 2, so that a gate
is cleared, shortened in vain and extended. `SinceCap` stops a stopwatch once
no property looks at it. Symmetry is used for safety only.
In `commands` flags are independent of each other in the code (each is one
assignment under one condition), so lines with all flags, all but one, one alone
and one with another value reach every condition; the second command shows the
effect of the first, so only the first varies its flags. Two entries tell the
right one from another. In `read_runner` fields are read independently, so one
wrong field at a time is enough, and two rows show that none is lost or moved.
The texts are one for each way a number or a boolean parses or does not; the
numbers are small, so what a machine word does to large ones is not shown.
`SoapValue` reads eight levels of nesting, one operator each: the deepest document
the clients read, the answer of `get_accountsettings`, has eight.

**Fairness.** Only `Transport` assumes any: a timer that is due fires, a request
is answered or times out (`http.Client` has a timeout), and the process runs on.
Nothing is assumed about cancellation, new calls or the content of answers.
`DoReturns` holds under that, for a `Do` that waits in the gate as well, and fails
without the timeout. The session store
claims no liveness: waiters poll the flock, and nothing in the code makes the
lock fair.

**Deadlock** is checked everywhere but in `WriteRunner`, `Commands` and `ReadRunner`,
whose processes exit.

## What is proved

| Theorem | For every |
|---|---|
| `SessionStoreProofs`: `TypeCorrect`, `MutexCorrect`, `NoEmptyFileCorrect`, `ReadIsFreshCorrect`, `RefreshIsCurrentCorrect`, `LoadDropsOnlyExpiredCorrect`, `OnlyOwnEntryChangesCorrect`, `CorruptFileIsKeptCorrect`, and the refinement `StoreImplementsMap` | set of processes, logins, tokens, entries, clock bound |
| `TransportProofs`: `TypeCorrect`, `ResultIsFaithfulCorrect`, `OnlyTransientIsRetriedCorrect`, `RetriesAreSpacedCorrect`, and `DelayHonouredCorrect` for one client | number of clients and retries, first backoff, delays |
| `KasSessionProofs`: `TypeCorrect`, `RefusedIsNotReused`, `LeftStaysAway`, with or without `Reuse`; `DescriptionCorrect`, `FixedWindowCorrect` without | set of processes, logins, tokens and session flags, clock bound |
| `ConfigFileProofs`: `TypeCorrect`, `ConfigStaysUsable`, `ConfigKeepsBrokenFile`, `ProfilesKept`, `DefaultKept`, `SwitchDropped` | set of processes, profiles, accounts |
| `WriteRunnerProofs`: `TypeCorrect`, `ConsentCorrect`, `RecordCorrect`, `ExitCodeCorrect`, `TraceCorrect` | number of retries |
| `CommandsProofs`: `TypeCorrect`, `NothingOverwrittenUnaskedCorrect`, `GetShowsEntryCorrect`, `RecordNamesEntryCorrect`, and the refinement `AsksImplementedCorrect` of `ResourceTable`; `CommandsSecretsProofs`: `SecretsNotLoggedCorrect` | number of commands, each with any flags |
| `ReadRunnerProofs`: `CredentialsCorrect`, `FlagsCorrect`, `ShownCorrect` | set of combinations of sources and flags, texts of the answer |

**SessionStore.** The inductive invariant is `TypeOK /\ MutualExclusion /\
RequestOpen /\ WriterKnows /\ NoEmptyFile`. Mutual exclusion alone is not enough:
`WriterKnows` says, for every step between lock and unlock, what the process's
buffer and request know about the file (its other logins are the file's; what it
drops is expired or its own to drop; the token it refreshes is there), and
`RequestOpen` that whoever is inside an operation has one. A step of another
process cannot disturb this because it does not hold the lock. The refinement
follows: every step but `Rename`, `Remove` and the answers is a stutter, and those
are the step of `SessionMap` named by the request. Assumed are that markers
(`NoEntry`, `NoReq`, `NoProc`) are not among the values they stand beside and
that given entries are entries.

**Transport.** `LoopInv` ties the program counter to the attempt counter, the
posts sent and the last answer. For `RetriesAreSpaced`, `Spaced` adds that the
backoff is that of the attempt, and that what a client has slept and what is left
of its sleep make up the backoff. That the backoffs double is a recursive function
on the numbers (`backoffs`): the proof shows that there is one, by taking the
least number no piece of it reaches. For
`DelayHonoured` the invariant is that the gate is never shorter than what the
server asked for, which is true of one client only: that is what the run
`transport_two` shows.

**KasSession.** The inductive invariant, `KInv`, adds to the types what each
process has at each step (`StepInv`), and three facts on tokens. `RefusalInv`: a
`Call` that was refused a token has let go of it and does not read the cache
again, so what it sends next it was granted since. `KnownInv`: a token anybody
knows was issued, so a new one is nobody's. `AloneInv`: between its login and its
`Save` a process is the only one that knows the token, which is why a `Save`
brings back no token that left; a `Refresh` brings none back because it writes
over the same token. A step of the system is described by what it does to the
server, to the cache and to the token of the process that takes it, and those
three effects carry the proof. `CreatedInv` says that a source knows what its
session was created for. It needs `~Reuse`, the command line's one `Call` per
process: with `Reuse` the property is false (below). `FixedWindowIsKept`
follows: a token that is saved is new, and one that is refreshed has no fixed
window.

**ConfigFile.** The invariant is small (`Checked`: who renames has validated what
it writes, and nobody works on a file that could not be loaded) and suffices for
the integrity of the file whatever overlaps. The second part, `Fresh`, says that
what a process has in memory extends the file, but for the name it was given with
`--force`, until someone else replaces the file. The third, `Owed`, is about the
logout: a session that is `gone` is not cached, and a `use-profile` that has not
yet an outcome has not yet come to `Save`.

**WriteRunner.** `RunInv` adds four facts to the exit code and the trace.
`Progress` says what has been decided and what not yet sent or written at each
step of `runWriteE`; `OutcomeExplained` that an outcome comes from the dispatch
it is computed from, or from a command that sent nothing; `TrailKept` that a sink
has this outcome or none, and none only once it broke; `RequestsCounted` that a
command makes two rounds of at most `1 + MaxRetries` requests, the last of which
has not been carried out while it is under way. Consent survives the retries
because it is decided before the first request and never looked at again. The
only assumption is that `MaxRetries` is a natural number.

**Commands.** `CommandInv` says that past `build` the `writeSpec` is what `build`
makes of the command line, and that past the gate there is no dry run and a
destructive command has its consent. The refinement is then a matter of keys. Kind
by kind, the lemmas show that a flag's wire key is stored in the column of the
setting it stands for, that no other parameter touches a setting, and that the
parameters name the entry of the argument (`UpdateAsAsked`, `AddAsAsked`), so what
the server does with the parameters is the change of the settings that was asked
for. `RecordInv` adds that what is about to be recorded has the target for its
entry, unless the server made a new one and said which, or did not say (`Untold`). For the passwords, `TableInv` says that
the server keeps them in their columns only, which is why a table view, which
leaves those columns out, shows none; and each parameter that carries one has a
name `redactParam` knows.

Two assumptions are made. `NoRowIsNoEntry`, a hypothesis of two theorems, says that
the mark of an absent entry is no entry itself; in the configuration it is a model
value. `JoinsAssumption` says that joining the texts of a repeated flag does not
spell the password; the provers do not know what joining strings makes, and TLC
evaluates it. Functions are written out where the library's `@@` and `:>` would
do, because the provers know nothing of those.

**ReadRunner.** `RequestInv` and `OrderInv` say that every request carries the
credentials that were resolved, or the token of a session of their login
(`Owned`: the cached one, or one KasAuth was asked for), that nothing is sent before they are complete and
the client is built, and that an error of the user means that nothing was sent or
that an answer had come. `SetupsAssumption` is what the command line guarantees: a
setup has flags, an environment and session flags, of the right types.
`ResolvedPicks` is the fact about `Resolve` under them: what it accepts is valid,
and each field comes from the highest source that gives it, which is what
`CredentialsFollowPrecedence` says of the requests.
`ShownIsSent` is proved in three steps. `Known` is what the server may send: an
answer around a list of rows, or a document without one. `Told` is what entries
say of it: every number of an entry is one its row has under that key, or, where
the reading is lenient, the zero of a missing one. Then what is rendered comes
from the entries, and its tables leave the passwords out. The lemmas go down the
codec: what an element reads as (`ListRead`, `NumberRead`), what its fields denote
(`FieldDenotes`), what an entry makes of them (`EntryTrue`), and what the envelope
leaves of the document (`ReturnRead`, `ResponseRead`).

**Only model-checked.** `DoReturns`: liveness under fairness is out of the prover's
reach. Deadlock freedom, which is about `ENABLED`. And of course the four
disagreements below, which are violations. Every other property of a passing run
is a theorem; `DelayHonoured` has the hypothesis of its run (one client), and
`SessionsAreDescribed` and `FixedWindowIsKept` that of theirs (`~Reuse`).

## Where code and documentation disagree

Each of these is a run that expects a violation, with the quotation in
`PROJECT.json`.

1. `transport_two`: the flood gate lives in one process; the README says the
   second of two back-to-back calls waits. A second invocation does not.
2. `kas_session_live`: `Invalidate` deletes the cache entry of the login
   whatever token it holds, so the refusal of an old token drops a newer, live
   session another process has logged in for.
3. `write_runner_fault`: the audit outcome of a fault of KasAuth is a bare
   `failure`, not `failure:<kas_code>`.
4. `config_file_race`: two commands that overlap lose a profile, or move the
   default back, without `--force`.

Met while modelling, and left without a run of their own:

- A `Call` whose retry fails because the login before it is refused returns
  that error; the README (line 143) promises the original fault.
- `sessions delete` revokes the token it loaded and then deletes whatever entry
  the login has by then: a token cached in between is dropped unrevoked.
- The client is built after the confirmation gate (`run.go:168`): flags it
  refuses (a session lifetime out of range, `--otp` with a plain login) end a
  confirmed destructive command without an audit record, and pass a dry run.
- Login, password and mode are resolved one by one (README, line 63): a login of
  the environment goes out with the password of the profile if nothing else gives
  one. That is documented, and nothing here excludes it.
- A failure of stderr keeps the record out of a healthy `--audit-log` file.
- `Load` says (`store.go:134-136`) that an expired entry is removed as far as
  possible and nil returned without error. It returns the error of a failed removal
  (line 162). `Credentials` logs it and asks KasAuth, as it would have; `use-profile`
  logs it and goes on; `sessions delete` ends with it. `SessionMap` has what the code does.
- `use-profile` says (`cli/config.go:437`) that the entry of the outgoing session is
  removed unconditionally. When the look-up fails (468-473) the switch goes on
  without an attempt to revoke or remove it, and says so with `--verbose` only.
- The success record of an add whose identifier the server makes carries it as
  `created_id` (`docs/usage/destructive-writes.md:117`), unless the answer has no
  ReturnInfo: then the record names no entry (`run.go:182`).
- `wire.go:29` says that session flags are forwarded to KasAuth on first use. While
  `sessions.toml` has a session for the login there is no such use: `--otp`,
  `--session-lifetime` and `--session-update-lifetime` are accepted and have no
  effect (`source.go:90-117`), until the server refuses that session.
- A one-time password is sent with every KasAuth of a run, the one after an
  invalidation included.
- A source that adopted a persisted session and logs in again after its expiry,
  without an `Invalidate`, describes the new session by the old one's lifetime and
  window (`source.go:123`; the comment at 29-33 says otherwise). The command line
  makes one call per source and does not reach it; `SessionsAreDescribed` fails
  with `Reuse`, and is checked without.
- Input that only the clients check (`update ""`, `get ""`, `--protocol ""`) ends
  with exit code 2, which `errors.go:8` keeps for API errors; the record is a
  `failure` although nothing was sent.
- A read whose output cannot be written exits with 1, the code of a user error.
- `decode.go:37` says unknown keys of `get_accountresources` are dropped; a Map
  under an unknown key that lacks a number makes the whole command fail.
- In `get_traffic` the day is read leniently: a daily row whose day is malformed
  is shown with `*`, as a second summary of the month.
- Of equal keys `Value.Get` takes the first, the envelope the last.
- `mailaccount.go:175` says the table omits the legacy keys; it also omits the
  password and the text of the responder. `mail.go:18` of `cli` calls mail accounts
  read-only; they have `add`, `update` and `delete`. `docs/usage/mail.md` lists
  members of a mailing list in the JSON; no field holds them.
- `summarisePEM` shortens a key of several lines; one of a single line is shown
  in the table as it is.

## What is not modelled, and why

XML and TOML syntax, file modes, log lines, column widths and help texts: no
property is about them. Integers are small: a float beyond int64, and an int on a
32-bit target, convert to what the machine gives. The period of `usage traffic`
and the directory of `usage space-detail` are not part of the modelled requests.
What the server does with a one-time password is not modelled. `gendocs`, the
version and cobra's own errors (argument counts, unknown subcommands) touch no
state. The order in which waiters get the flock, and how long a stopped process
keeps it, is up to the operating system. Hand edits of `config.toml` or
`sessions.toml` happen before the first step only.

## Plan

Modules are written in this order; those marked * exist.

1. * `SessionOps`, `SessionMap`, `SessionStore` and their proofs: the shared
   file is the base of everything about sessions.
2. * `Transport` and its proofs.
3. * `KasSession`, composed of the token source, the API client, the logout and
   the server over `SessionMap`, and its proofs.
4. * `WriteRunner` and its proofs.
5. * `ConfigFile` and its proofs.
6. * `WriteClients`, `CommandLine`, `ReadClients`, `KasResources`, `Commands` over
   `ResourceTable`, and their proofs.
7. * `SoapValue`, `Decoders`, `Credentials`, `ReadRunner`, and their proofs.
8. `KasSession` with a one-time password, and the cache shown to implement
   `SessionMap` step by step (its store actions are the abstract ones).
