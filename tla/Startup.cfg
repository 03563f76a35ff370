SPECIFICATION Spec
CONSTANTS
    Environments <- AllEnvirons
    DotEnvs <- Files
    MayBeDown = TRUE
INVARIANTS
    TypeOK
    ProductionSendsMail
    ServingIsConfigured
