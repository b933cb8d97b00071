CONSTANTS
  Slugs <- MCSlugs
  BaseOf <- MCBaseOf
  Suffixed <- MCSuffixed
  NameWithId <- MCNameWithId
  Cmds <- MCCmds
  Acts <- MCActs
  EqOf <- MCEqOf
  Signature <- MCSignature
  Names <- MCNames
  ActName <- MCActName
  DiscoverUnlinked = TRUE
  NoDevice = NoDevice
  Messages = {m1, m2}
  Eqs <- MCEqs
  NameOf <- MCNameOf
  Catalogs <- MCTwoCatalogs
  FirstCatalog <- Unlinked
  Caches <- MCCaches
  Controls = TRUE
  Valued = {TRUE}
  Serial = FALSE
  MaxMessages = 2
  MaxCatalogs = 1
  MaxReplays = 0
  MaxFailures = 0
  MaxLapses = 0
  MaxCrashes = 0
  None = None
SPECIFICATION Spec
CHECK_DEADLOCK FALSE
SYMMETRY MCSymmetry
INVARIANTS NoGateDeadlock NewestShown
PROPERTY NeverBack
