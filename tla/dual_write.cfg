SPECIFICATION DualSpec
CONSTANTS
    Procs = {p1, p2}
    Main = main
    boss = boss
    p1 = p1
    p2 = p2
    own = own
    Names = {admin, boss}
    Legacy = admin
    Jtis = {j1}
    Configs <- MCConfigs
    BootPassword = env
    Passwords = {env, own}
    MaxFailures = 1
    Keep = Keep
    NoUser = NoUser
    Ops <- MCOps
    Updates <- MCUpdates
    Overlap = FALSE
    Faults = TRUE
    CountBound = 1
INVARIANTS
    
    EndedEverywhere
    StartFailsOnStranded
PROPERTIES
    BootAligns
    PrimaryImplementsAccounts
