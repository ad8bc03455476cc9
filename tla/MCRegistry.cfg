SPECIFICATION Spec
CONSTANTS
    Ids <- MCIds
    SeedEntries <- MCSeedEntries
    Foreign <- MCForeign
    Patches <- MCPatches
    NewEntries <- MCNewEntries
    ImportModes <- MCModes
    ExportNames <- MCExportNames
    ExportRefs <- MCExportRefs
    ActorRoles <- MCAdmin
    MaxAudits = 3
    MaxManifests = 1
    MaxCrashes = 1
INVARIANTS
    HistoryCoversEntries
    RollbackRestoresGates
    ImportsApplied
    QueueAgreesWithGates
CHECK_DEADLOCK FALSE
