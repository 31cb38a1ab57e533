SPECIFICATION Spec
CONSTANTS
    main8 = main8
    main10 = main10
    primary = primary
    extra = extra
    Formats = {main8, main10}
    Planes = {primary, extra}
    Supports <- MCSupports
    PoolSize = 2
    CacheSize = 2
    Objects = 1
    MaxRetry = 1
    None = None
    Hud = Hud
PROPERTIES
    DecodesAside
CHECK_DEADLOCK FALSE
