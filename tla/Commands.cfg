SPECIFICATION Spec
CONSTANTS
  NoRow = NoRow
  MaxRuns = 2
CHECK_DEADLOCK FALSE
INVARIANTS TypeOK SecretsNotLogged RecordNamesEntry GetShowsEntry
PROPERTIES AsksImplemented NothingOverwrittenUnasked
