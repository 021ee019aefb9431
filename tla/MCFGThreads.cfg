CONSTANTS
    main = main
    t1 = t1
    t2 = t2
    pt = pt
    null = null
    Thread <- MCThread4
    Main = main
    Progress = pt
    NoThread = null
    WorldRank <- MCRank4
SPECIFICATION MCFairSpec
INVARIANTS
    SanityCounts
    PlacedOnce
    SleepersSuspended
    JoinHandshake
    ReapsTheExited
    MainInExit
PROPERTIES
    NoStarvation
