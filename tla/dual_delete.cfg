SPECIFICATION DualSpec
CONSTANTS
    Procs = {p1}
    Main = main
    boss = boss
    p1 = p1
    p2 = p2
    own = own
    Names = {admin, boss}
    Legacy = admin
    Jtis = {j1}
    Configs <- MCDualOnly
    BootPassword = env
    Passwords = {env, own}
    MaxFailures = 1
    Keep = Keep
    NoUser = NoUser
    Ops <- MCOneClient
    Updates <- MCUpdates
    Overlap = FALSE
    Faults = FALSE
    CountBound = 1
INVARIANT BackendsInSync
