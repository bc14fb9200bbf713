SPECIFICATION JoinSpec
CONSTANTS
    None = None
    RemoteRegion = "FRA"
    MaxEvents = 5
    Catalog <- MCCatalog
    Answers <- MCAnswers
    ZoneGwp <- MCZoneGwp
INVARIANTS
    EnergyIsConserved
    CpuCountedOnce
    CoverageIsUnion
    
PROPERTIES
    NewSpanOnlyTakes
CHECK_DEADLOCK FALSE
