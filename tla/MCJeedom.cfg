CONSTANTS
  Slugs <- MCSlugs
  BaseOf <- MCBaseOf
  Suffixed <- MCSuffixed
  NameWithId <- MCNameWithId
  Cmds <- MCCmds
  Acts <- MCActs
  EqOf <- MCEqOf
  Signature <- MCSignature
  Names <- MCNames
  ActName <- MCActName
  DiscoverUnlinked = TRUE
  NoDevice = NoDevice
  Messages = {m1}
  Eqs <- MCEqs
  NameOf <- MCNameOf
  Catalogs <- MCCatalogs
  FirstCatalog <- Unlinked
  Caches <- MCOldCache
  Controls = TRUE
  Valued = {TRUE}
  Serial = TRUE
  MaxMessages = 2
  MaxCatalogs = 1
  MaxReplays = 1
  MaxFailures = 1
  MaxLapses = 1
  MaxCrashes = 1
  None = None
SPECIFICATION Spec
CONSTRAINT FourThings
CHECK_DEADLOCK FALSE
INVARIANTS TypeOK OneOwner NoPendingOwned NoOrphan NoOrphanControl Converged
