------------------------------ MODULE WriteRunner ------------------------------
(***************************************************************************)
(* internal/cli/run.go: runWriteE, the one seam every write subcommand     *)
(* goes through, with the gate (ResolveWrite, ResolveDestructive,          *)
(* GateDestructive, Confirm), the dry run (previewAndAudit), the dispatch  *)
(* through kaswrite.Call, api.Client.Call and transport.Client.Do, the     *)
(* audit record (OutcomeFor, WriteAudit) and the exit code (CodeFor).      *)
(*                                                                         *)
(* One process runs one command.  Its flags and terminal, what its streams *)
(* and files do, the user, the network and the server are chosen by the    *)
(* environment; the process may be killed at any step.                     *)
(***************************************************************************)
EXTENDS Integers

CONSTANT MaxRetries \* transport.Client.MaxRetries

ASSUME MaxRetriesAssumption == MaxRetries \in Nat

VARIABLES cmd,      \* the command: its kind, flags and surroundings
          pc,       \* where runWriteE is
          answer,   \* the user's answer to the prompt
          retried,  \* whether api.Client.Call is past its auth-failure retry
          attempt,  \* the attempts of the current transport.Client.Do
          sent,     \* the requests posted to the KAS server
          applied,  \* how often the server has carried out the write
          fate,     \* what the dispatch came back with
          outcome,  \* the outcome of the audit record being written
          errLog,   \* the record on stderr
          fileLog,  \* the record in the --audit-log file
          sinks,    \* the audit sinks that still take a line
          exit      \* the exit code

call == <<retried, attempt, sent, applied>>
trail == <<errLog, fileLog, sinks>>
vars == <<cmd, pc, answer, call, fate, outcome, trail, exit>>

Command == [destructive : BOOLEAN, \* writeSpec.destructive
            dryRun : BOOLEAN, yes : BOOLEAN,
            tty : BOOLEAN,         \* stdin is a terminal
            auditLog : BOOLEAN,    \* --audit-log or KAS_AUDIT_LOG
            session : BOOLEAN,     \* auth_type=session, not plain
            buildable : BOOLEAN]   \* buildAPIClientFromCreds accepts the flags

Refusals == {"declined", "refused", "aborted"}
Outcomes == {"success", "failure:code", "failure", "dry-run"} \cup Refusals
Failures == {"failure:code", "failure"}

\* How a dispatch ends: done, not even sent, a fault of KasApi or KasAuth, a
\* ReturnString other than TRUE, an error of the transport.
Fates == {"none", "done", "invalid", "fault", "auth_fault", "drift", "transport"}

Steps == {"start", "open", "resolve", "preview", "confirm", "build", "dispatch",
          "sent", "record", "append", "render", "exit", "killed"}

TypeOK ==
    /\ cmd \in Command
    /\ pc \in Steps
    /\ answer \in {"none", "yes", "no"}
    /\ retried \in BOOLEAN
    /\ attempt \in 0..(MaxRetries + 1)
    /\ sent \in 0..(2 * (MaxRetries + 1))
    /\ applied \in 0..sent
    /\ fate \in Fates
    /\ outcome \in Outcomes \cup {"none"}
    /\ errLog \in Outcomes \cup {"none"}
    /\ fileLog \in Outcomes \cup {"none"}
    /\ sinks \in SUBSET {"stderr", "file"}
    /\ exit \in {"none", "ok", "user", "api"}

Init ==
    /\ cmd \in Command
    /\ pc = "start"
    /\ answer = "none"
    /\ retried = FALSE /\ attempt = 0
    /\ sent = 0 /\ applied = 0
    /\ fate = "none"
    /\ outcome = "none"
    /\ errLog = "none" /\ fileLog = "none"
    /\ sinks = {"stderr", "file"}
    /\ exit = "none"

-------------------------------------------------------------------------------
\* The decisions of the code, and slips the properties catch.

\* previewAndAudit: --dry-run comes before --yes.
YesFirst(c) == c.dryRun /\ ~c.yes
Previews(c) == c.dryRun

\* GateDestructive: --yes answers the prompt in advance.
NeedsNoPrompt(c) == c.yes \/ ~c.destructive

\* OutcomeFor: success, the code of an *api.Error, or a bare failure.
TrustsReturn(f) == CASE f \in {"done", "drift"} -> "success"
                     [] f = "fault" -> "failure:code"
                     [] OTHER -> "failure"
OutcomeFor(f) == CASE f = "done" -> "success"
                   [] f = "fault" -> "failure:code"
                   [] OTHER -> "failure"

\* The exit code once the record is out (or a sink broke): the outcome of the
\* dispatch outranks the audit trail, which outranks nothing.
AuditFirst(f, broken) ==
    IF broken THEN "user" ELSE IF f # "done" THEN "api" ELSE "ok"
ExitCode(f, broken) ==
    IF f # "done" THEN "api" ELSE IF broken THEN "user" ELSE "ok"

\* The sinks of WriteAudit that did not take the record.
SinkBroke == errLog = "none" \/ (cmd.auditLog /\ fileLog = "none")

Goto(label) == pc' = label
ExitWith(code) == pc' = "exit" /\ exit' = code

\* An audit record with this outcome is to be written.
Record(o) == pc' = "record" /\ outcome' = o

-------------------------------------------------------------------------------
\* Before anything is sent.

\* build parses the arguments, resolveCreds the credentials.
Prepare ==
    /\ pc = "start"
    /\ \/ Goto("open") /\ UNCHANGED exit
       \/ ExitWith("user")
    /\ UNCHANGED <<cmd, answer, call, fate, outcome, trail>>

\* The audit file is opened before the gate and before the dispatch.
OpenAuditFile ==
    /\ pc = "open"
    /\ \/ Goto("resolve") /\ UNCHANGED exit
       \/ cmd.auditLog /\ ExitWith("user")
    /\ UNCHANGED <<cmd, answer, call, fate, outcome, trail>>

\* ResolveWrite and ResolveDestructive up to the prompt.
Resolve ==
    /\ pc = "resolve"
    /\ \/ Previews(cmd) /\ Goto("preview") /\ UNCHANGED outcome
       \/ ~Previews(cmd) /\ NeedsNoPrompt(cmd) /\ Goto("build") /\ UNCHANGED outcome
       \/ ~Previews(cmd) /\ ~NeedsNoPrompt(cmd) /\ ~cmd.tty /\ Record("refused")
       \/ ~Previews(cmd) /\ ~NeedsNoPrompt(cmd) /\ cmd.tty
          /\ Goto("confirm") /\ UNCHANGED outcome
    /\ UNCHANGED <<cmd, answer, call, fate, trail, exit>>

\* The preview goes to stdout; without it there is no record either.
Preview ==
    /\ pc = "preview"
    /\ \/ Record("dry-run") /\ UNCHANGED exit
       \/ ExitWith("user") /\ UNCHANGED outcome
    /\ UNCHANGED <<cmd, answer, call, fate, trail>>

\* Confirm: only y or yes goes on; the prompt or the read may fail.
Confirm ==
    /\ pc = "confirm"
    /\ \/ answer' = "yes" /\ Goto("build") /\ UNCHANGED outcome
       \/ answer' = "no" /\ Record("declined")
       \/ UNCHANGED answer /\ Record("aborted")
    /\ UNCHANGED <<cmd, call, fate, trail, exit>>

\* Only now are the session flags looked at.
BuildClient ==
    /\ pc = "build"
    /\ \/ cmd.buildable /\ Goto("dispatch") /\ UNCHANGED exit
       \/ ~cmd.buildable /\ ExitWith("user")
    /\ UNCHANGED <<cmd, answer, call, fate, outcome, trail>>

-------------------------------------------------------------------------------
\* The dispatch.

\* It is over: its record is due, whatever its error (a slip records only what
\* worked).
RecordsSuccess(f) ==
    /\ fate' = f
    /\ IF f = "done" THEN Record(OutcomeFor(f)) /\ UNCHANGED exit
                     ELSE ExitWith("api") /\ UNCHANGED outcome
Dispatched(f) ==
    /\ fate' = f
    /\ Record(OutcomeFor(f))
    /\ UNCHANGED exit

\* The loop of Do.
OneTooMany == attempt <= MaxRetries + 1
AttemptsLeft == attempt <= MaxRetries

\* The module client rejects the arguments; or a session token is needed (none
\* is cached, or the retry wants a new one) and KasAuth refuses or is silent.
NotSent ==
    /\ pc = "dispatch" /\ attempt = 0
    /\ \/ sent = 0 /\ Dispatched("invalid")
       \/ cmd.session /\ \E f \in {"auth_fault", "transport"} : Dispatched(f)
    /\ UNCHANGED <<cmd, answer, call, trail>>

Post ==
    /\ pc = "dispatch"
    /\ attempt' = attempt + 1
    /\ sent' = sent + 1
    /\ Goto("sent")
    /\ UNCHANGED <<cmd, answer, retried, applied, fate, outcome, trail, exit>>

\* The server does what it was asked and says so.
Served ==
    /\ pc = "sent"
    /\ applied' = applied + 1
    /\ Dispatched("done")
    /\ UNCHANGED <<cmd, answer, retried, attempt, sent, trail>>

\* A fault, or an answer that is not TRUE; some faults come after the effect.
Refused ==
    /\ pc = "sent"
    /\ applied' \in {applied, applied + 1}
    /\ \E f \in {"fault", "drift"} : Dispatched(f)
    /\ UNCHANGED <<cmd, answer, retried, attempt, sent, trail>>

\* The token is no longer good: Call gets another one and tries once more.
Unauthorized ==
    /\ pc = "sent"
    /\ cmd.session /\ ~retried
    /\ retried' = TRUE
    /\ attempt' = 0
    /\ Goto("dispatch")
    /\ UNCHANGED <<cmd, answer, sent, applied, fate, outcome, trail, exit>>

\* The request or its answer is lost: Do posts the same request again while it
\* has attempts left, whether or not the server has carried it out.
Lost ==
    /\ pc = "sent"
    /\ applied' \in {applied, applied + 1}
    /\ \/ AttemptsLeft /\ Goto("dispatch") /\ UNCHANGED <<fate, outcome, exit>>
       \/ ~AttemptsLeft /\ Dispatched("transport")
    /\ UNCHANGED <<cmd, answer, retried, attempt, sent, trail>>

-------------------------------------------------------------------------------
\* The record and the exit code.

\* Where runWriteE goes when WriteAudit is back: a refusal or a dry run ends
\* here, a failed dispatch is an API error, a success is rendered.
AfterAudit(broken) ==
    IF fate = "none"
    THEN ExitWith(IF outcome = "dry-run" /\ ~broken THEN "ok" ELSE "user")
    ELSE IF fate = "done" THEN Goto("render") /\ UNCHANGED exit
    ELSE ExitWith(ExitCode(fate, broken))

\* WriteAudit writes the line on stderr first ...
WriteStderr ==
    /\ pc = "record"
    /\ \/ /\ errLog' = outcome
          /\ UNCHANGED sinks
          /\ IF cmd.auditLog THEN Goto("append") /\ UNCHANGED exit ELSE AfterAudit(FALSE)
       \/ /\ sinks' = sinks \ {"stderr"}
          /\ UNCHANGED errLog
          /\ AfterAudit(TRUE)
    /\ UNCHANGED <<cmd, answer, call, fate, outcome, fileLog>>

\* ... and then appends it to the file.
AppendFile ==
    /\ pc = "append"
    /\ \/ /\ fileLog' = outcome
          /\ UNCHANGED sinks
          /\ AfterAudit(FALSE)
       \/ /\ sinks' = sinks \ {"file"}
          /\ UNCHANGED fileLog
          /\ AfterAudit(TRUE)
    /\ UNCHANGED <<cmd, answer, call, fate, outcome, errLog>>

\* The success line is printed; a broken sink is reported after it.
Render ==
    /\ pc = "render"
    /\ \/ ExitWith(ExitCode(fate, SinkBroke))
       \/ ExitWith("user")
    /\ UNCHANGED <<cmd, answer, call, fate, outcome, trail>>

Kill ==
    /\ pc \notin {"exit", "killed"}
    /\ Goto("killed")
    /\ UNCHANGED <<cmd, answer, call, fate, outcome, trail, exit>>

Dispatch == NotSent \/ Post \/ Served \/ Refused \/ Unauthorized \/ Lost
WriteAudit == WriteStderr \/ AppendFile

Run == Prepare \/ OpenAuditFile \/ Resolve \/ Preview \/ Confirm \/ BuildClient
       \/ Dispatch \/ WriteAudit \/ Render

Next == Run \/ Kill

Spec == Init /\ [][Next]_vars

-------------------------------------------------------------------------------
\* Properties.

\* Nothing is sent under --dry-run, and nothing destructive unless --yes was
\* given or somebody at a terminal said yes (docs/usage/destructive-writes.md).
NothingSentWithoutConsent ==
    sent > 0 => /\ ~cmd.dryRun
                /\ cmd.destructive => cmd.yes \/ (cmd.tty /\ answer = "yes")

\* A record tells what happened to the write: "success" only after the server
\* has done it, a failure only of a dispatch that failed, and a refusal or
\* "dry-run" only if nothing was ever sent.
RecordTellsFate ==
    \A log \in {errLog, fileLog} :
       /\ log = "success" => fate = "done" /\ applied > 0
       /\ log \in Failures => fate \notin {"none", "done"}
       /\ log \in Refusals \cup {"dry-run"} => sent = 0

\* The exit code tells the fate of the write.  0: it is done (or nothing was sent,
\* under --dry-run) and every configured sink holds the record of it.  2: the
\* dispatch failed, whatever else broke.  1: if anything was sent, the server has
\* confirmed it.
ExitCodeTellsFate ==
    /\ exit = "ok" =>
          /\ IF cmd.dryRun THEN sent = 0 /\ errLog = "dry-run"
                           ELSE applied > 0 /\ errLog = "success"
          /\ cmd.auditLog => fileLog = errLog
    /\ exit = "api" => fate \notin {"none", "done"}
    /\ exit = "user" /\ sent > 0 => fate = "done" /\ applied > 0

\* A write that was sent is on record when the command exits, in every sink that
\* took a line: the audit trail loses one only to a sink that broke.
DispatchLeavesTrace ==
    exit # "none" /\ sent > 0 =>
       /\ "stderr" \in sinks => errLog # "none"
       /\ cmd.auditLog /\ sinks = {"stderr", "file"} => fileLog = errLog

\* The contract: outcome is "failure:<kas_code>" for a typed KAS fault.
FaultKeepsItsCode ==
    fate \in {"fault", "auth_fault"} /\ errLog # "none" => errLog = "failure:code"
===============================================================================
