SPECIFICATION Spec
CONSTANTS
  MaxRetries = 3
CHECK_DEADLOCK FALSE
INVARIANTS TypeOK NothingSentWithoutConsent RecordTellsFate ExitCodeTellsFate DispatchLeavesTrace
