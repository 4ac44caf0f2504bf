SPECIFICATION FairSpec
CONSTANTS
    old = old
    new = new
    fork = fork
    m1 = m1
    m2 = m2
    f2 = f2
    f3 = f3
    Deployments <- MCDeployments
    Migrations <- MCMigrationSet
    Carries <- MCCarries
    NoLogin = NoLogin
    MaxFaults = 1
INVARIANTS SchemaIsLedger CompletedIsReady
PROPERTIES ImplementsHistory BootstrapsComplete
