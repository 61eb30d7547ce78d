--------------------------- MODULE WriteRunnerProofs ---------------------------
(***************************************************************************)
(* Proofs about WriteRunner, for every number of retries: types (with them *)
(* the bound on the requests of one command), consent, the audit trail and *)
(* the exit code.                                                          *)
(***************************************************************************)
EXTENDS WriteRunner, TLAPS

\* Before the dispatch nothing has been sent, before the record none written.
Early == {"start", "open", "resolve", "preview", "confirm", "build"}

NothingSent == sent = 0 /\ applied = 0 /\ attempt = 0 /\ ~retried /\ fate = "none"
NoTrail == errLog = "none" /\ fileLog = "none" /\ sinks = {"stderr", "file"}

Consented == ~cmd.dryRun /\ (cmd.destructive => cmd.yes \/ (cmd.tty /\ answer = "yes"))

\* An outcome tells of a dispatch that came back, or of a command that sent
\* nothing; a dry run is called one.
OutcomeExplained ==
    outcome # "none" =>
       \/ /\ fate # "none" /\ outcome = OutcomeFor(fate)
          /\ Consented
          /\ fate = "done" => applied > 0
       \/ /\ fate = "none" /\ sent = 0
          /\ outcome \in Refusals \cup {"dry-run"}
          /\ outcome = "dry-run" => cmd.dryRun

\* The sinks have the outcome or nothing, and nothing only if one is broken.
TrailKept ==
    /\ errLog \in {"none", outcome} /\ fileLog \in {"none", outcome}
    /\ pc = "render" =>
          /\ "stderr" \in sinks => errLog = outcome
          /\ cmd.auditLog /\ sinks = {"stderr", "file"} => fileLog = outcome

\* Two rounds of at most 1 + MaxRetries requests, and the one that is under way
\* has not been carried out yet.
RequestsCounted ==
    /\ pc = "sent" => applied < sent
    /\ pc = "dispatch" => attempt <= MaxRetries
    /\ pc \in {"dispatch", "sent"} =>
          sent = attempt \/ (retried /\ sent <= MaxRetries + 1 + attempt)

\* Where the command is, and what is so there.
Progress ==
    /\ pc \in Early => NothingSent /\ outcome = "none"
    /\ pc \in Early \cup {"dispatch", "sent", "record"} => NoTrail
    /\ pc = "preview" => cmd.dryRun
    /\ pc = "confirm" => ~cmd.dryRun /\ cmd.tty
    /\ pc \in {"build", "dispatch", "sent"} => Consented
    /\ pc \in {"dispatch", "sent"} => fate = "none" /\ outcome = "none"
    /\ pc \in {"record", "append", "render"} => outcome # "none"
    /\ pc = "append" => cmd.auditLog /\ errLog = outcome
                        /\ fileLog = "none" /\ sinks = {"stderr", "file"}
    /\ pc = "render" => fate = "done"
    /\ exit # "none" => pc = "exit"
    /\ sent > 0 => Consented

RunInv ==
    /\ TypeOK /\ OutcomeExplained /\ TrailKept /\ RequestsCounted /\ Progress
    /\ ExitCodeTellsFate /\ DispatchLeavesTrace

LEMMA InitRun == Init => RunInv
<1> SUFFICES ASSUME Init PROVE RunInv
  OBVIOUS
<1>1. TypeOK
  <2>1. /\ attempt \in 0..(MaxRetries + 1)
        /\ sent \in 0..(2 * (MaxRetries + 1)) /\ applied \in 0..sent
    BY MaxRetriesAssumption DEF Init
  <2> QED
    BY <2>1 DEF Init, TypeOK, Steps, Fates
<1>2. OutcomeExplained /\ TrailKept /\ RequestsCounted
  BY MaxRetriesAssumption DEF Init, OutcomeExplained, TrailKept, RequestsCounted
<1>3. Progress
  BY DEF Init, Progress, Early, NothingSent, NoTrail
<1>4. ExitCodeTellsFate /\ DispatchLeavesTrace
  BY DEF Init, ExitCodeTellsFate, DispatchLeavesTrace
<1> QED
  BY <1>1, <1>2, <1>3, <1>4 DEF RunInv

\* The steps before the dispatch.
LEMMA EarlySteps ==
    ASSUME RunInv, Prepare \/ OpenAuditFile \/ Resolve \/ Preview \/ Confirm \/ BuildClient
    PROVE  RunInv'
<1> USE MaxRetriesAssumption
    DEF RunInv, TypeOK, OutcomeExplained, TrailKept, RequestsCounted, Progress,
        ExitCodeTellsFate, DispatchLeavesTrace, Early, NothingSent, NoTrail, Steps, Fates,
        Outcomes, Refusals, Consented, Goto, ExitWith, Record, call, trail, Command
<1>1. CASE Prepare
  BY <1>1 DEF Prepare
<1>2. CASE OpenAuditFile
  BY <1>2 DEF OpenAuditFile
<1>3. CASE Resolve
  BY <1>3 DEF Resolve, Previews, NeedsNoPrompt
<1>4. CASE Preview
  BY <1>4 DEF Preview
<1>5. CASE Confirm
  BY <1>5 DEF Confirm
<1>6. CASE BuildClient
  BY <1>6 DEF BuildClient
<1> QED
  BY <1>1, <1>2, <1>3, <1>4, <1>5, <1>6

\* The dispatch, up to its record.
LEMMA DispatchSteps == ASSUME RunInv, Dispatch PROVE RunInv'
<1> USE MaxRetriesAssumption
    DEF RunInv, TypeOK, OutcomeExplained, TrailKept, RequestsCounted, Progress,
        ExitCodeTellsFate, DispatchLeavesTrace, Early, NothingSent, NoTrail, Steps, Fates,
        Outcomes, Consented, Goto, Record, call, trail, Dispatched, OutcomeFor
<1>1. CASE NotSent
  BY <1>1 DEF NotSent
<1>2. CASE Post
  BY <1>2 DEF Post
<1>3. CASE Served
  BY <1>3 DEF Served
<1>4. CASE Refused
  BY <1>4 DEF Refused
<1>5. CASE Unauthorized
  BY <1>5 DEF Unauthorized
<1>6. CASE Lost
  BY <1>6 DEF Lost, AttemptsLeft
<1> QED
  BY <1>1, <1>2, <1>3, <1>4, <1>5, <1>6 DEF Dispatch

\* The record, the result, the exit.
LEMMA FinalSteps == ASSUME RunInv, WriteAudit \/ Render \/ Kill PROVE RunInv'
<1> USE MaxRetriesAssumption
    DEF RunInv, TypeOK, OutcomeExplained, TrailKept, RequestsCounted, Progress,
        ExitCodeTellsFate, DispatchLeavesTrace, Early, NothingSent, NoTrail, Steps, Fates,
        Outcomes, Refusals, Consented, Goto, ExitWith, call, trail, OutcomeFor, ExitCode
<1>1. CASE WriteStderr
  BY <1>1 DEF WriteStderr, AfterAudit
<1>2. CASE AppendFile
  BY <1>2 DEF AppendFile, AfterAudit
<1>3. CASE Render
  BY <1>3 DEF Render, SinkBroke
<1>4. CASE Kill
  BY <1>4 DEF Kill
<1> QED
  BY <1>1, <1>2, <1>3, <1>4 DEF WriteAudit

LEMMA NextRun == RunInv /\ [Next]_vars => RunInv'
<1> SUFFICES ASSUME RunInv, [Next]_vars PROVE RunInv'
  OBVIOUS
<1>1. CASE UNCHANGED vars
  BY <1>1 DEF vars, call, trail, RunInv, TypeOK, OutcomeExplained, TrailKept,
     RequestsCounted, Progress, ExitCodeTellsFate, DispatchLeavesTrace, NothingSent,
     NoTrail, Consented
<1>2. CASE Next
  BY <1>2, EarlySteps, DispatchSteps, FinalSteps DEF Next, Run
<1> QED
  BY <1>1, <1>2

LEMMA RunInvariance == Spec => []RunInv
BY InitRun, NextRun, PTL DEF Spec

\* Types; one command sends at most 2 * (1 + MaxRetries) requests, whatever the
\* server and the network do.
THEOREM TypeCorrect == Spec => []TypeOK
<1>1. RunInv => TypeOK
  BY DEF RunInv
<1> QED
  BY <1>1, RunInvariance, PTL

\* Nothing is sent by a dry run, and nothing destructive without a yes.
THEOREM ConsentCorrect == Spec => []NothingSentWithoutConsent
<1>1. RunInv => NothingSentWithoutConsent
  BY DEF RunInv, Progress, Consented, NothingSentWithoutConsent
<1> QED
  BY <1>1, RunInvariance, PTL

\* No record claims what did not happen.
THEOREM RecordCorrect == Spec => []RecordTellsFate
<1>1. RunInv => RecordTellsFate
  <2> SUFFICES ASSUME RunInv, NEW log \in {errLog, fileLog}
               PROVE  /\ log = "success" => fate = "done" /\ applied > 0
                      /\ log \in Failures => fate \notin {"none", "done"}
                      /\ log \in Refusals \cup {"dry-run"} => sent = 0
    BY DEF RecordTellsFate
  <2>1. log = "none" \/ log = outcome
    BY DEF RunInv, TrailKept
  <2> QED
    BY <2>1 DEF RunInv, OutcomeExplained, OutcomeFor, Failures, Refusals
<1> QED
  BY <1>1, RunInvariance, PTL

\* The exit code is true, whatever broke on the way to it.
THEOREM ExitCodeCorrect == Spec => []ExitCodeTellsFate
<1>1. RunInv => ExitCodeTellsFate
  BY DEF RunInv
<1> QED
  BY <1>1, RunInvariance, PTL

\* No dispatch is lost from the audit trail but to a sink that broke.
THEOREM TraceCorrect == Spec => []DispatchLeavesTrace
<1>1. RunInv => DispatchLeavesTrace
  BY DEF RunInv
<1> QED
  BY <1>1, RunInvariance, PTL
===============================================================================
