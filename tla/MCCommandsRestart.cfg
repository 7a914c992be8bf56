CONSTANTS
    ctx1 = ctx1
    ctx2 = ctx2
    ctx3 = ctx3
    eng1 = eng1
    eng2 = eng2
    p1 = p1
    p2 = p2
    db = db
    cache1 = cache1
    exact = exact
    prefix = prefix
    Torn = Torn
    Broken = Broken
    None = None
    Failed = Failed
    Asked = Asked
    Silent = Silent
    Procs = {p1, p2}
    Runners = {p1}
    MaxStarts = 1
    Selectors = {exact}
    MaxVersion = 2
    Says <- MCSays
    KeepsPath = FALSE
    Contexts <- MCContexts
    EngineOf <- MCEngineOf
    Items = {db}
    Covers <- MCCovers
CHECK_DEADLOCK FALSE
SPECIFICATION Spec
INVARIANTS
    OfferContinues
