SPECIFICATION GroupSpec
CONSTANTS
    Menus <- RecordMenus
    NoNumber <- MCMissing
    T <- MCThresholds
    Learned <- MCUnlearned
    Tier <- MCTiers
    Entities = {"id"}
    AllGround <- GroundMenus
    AllCross <- CrossMenus
    DomainOf <- MCDomains
INVARIANTS
    VerdictsAgree
    DestinationsHeldToWhatWasTold
    RefusedCallsExact
    HandoffFromWhatWasKnown
CHECK_DEADLOCK FALSE
