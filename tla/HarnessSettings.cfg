SPECIFICATION SettingsSpec
CONSTANTS
  Configurers = {c1, c2}
  MaxEdits = 2
  None = None
CHECK_DEADLOCK FALSE
INVARIANTS RestoredMeansUsersOwn ProviderHasCredential
PROPERTIES ForeignChangesKept
