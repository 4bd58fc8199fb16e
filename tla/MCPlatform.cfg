SPECIFICATION Spec
CHECK_DEADLOCK FALSE
INVARIANTS
    KeysInOrder
    AspectsNest
    EveryJobAccounted
    StoreTruthful
    NothingDeadLettered
    MoneyMovesOnce
    TenantsApart
    NothingSkipped
    BootVerdictsHold
    SignalsSound
    StandInsHold
    AnnouncedOnce
    FormsReadBack
    ServesItsPeers
PROPERTIES
    DiskIsStore
    SharedStands
