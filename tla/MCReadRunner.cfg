SPECIFICATION Spec
CONSTANTS
  Texts = {"0", "7", "-1", "1.5", "word", "true", ""}
  Setups <- MCSetups
  Usual <- MCTables
CHECK_DEADLOCK FALSE
INVARIANTS ShownIsSent FlagsTakeEffectOrRefuse CredentialsFollowPrecedence
