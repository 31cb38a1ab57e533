SPECIFICATION Spec
CONSTANTS
    main8 = main8
    main10 = main10
    primary = primary
    extra = extra
    Formats = {main8, main10}
    Planes = {primary, extra}
    Supports <- MCSupports
    PoolSize = 2
    CacheSize = 2
    Objects = 2
    MaxRetry = 1
    None = None
    Hud = Hud
INVARIANTS
    TypeOK
    NothingLeaks
    StopShowsOne
PROPERTIES
    ScanoutBacked
    ShowsAgain
CHECK_DEADLOCK FALSE
