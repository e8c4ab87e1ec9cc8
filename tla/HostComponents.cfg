SPECIFICATION HostSpec
CONSTANTS
    r1 = r1  r2 = r2  i1 = i1  i2 = i2
    t1 = t1  p1 = p1  p2 = p2  a1 = a1  sa = sa  sb = sb
    th1 = th1  th2 = th2  k1 = k1  k2 = k2  e1 = e1  e2 = e2  e3 = e3
    ctxA = ctxA  ctxB = ctxB  X = X  Y = Y
    d1 = d1  d2 = d2  d3 = d3  x = x  y = y  z = z  scope = scope
    p3 = p3  nm = nm  nn = nn
    s1 = s1  s2 = s2  hand = hand  c1 = c1  c2 = c2  c3 = c3
    Req = {r1, r2}
    Ids = {i1, i2}
    IdOf <- MC_IdOf
    NoReq = NoReq
    NoId = NoId
    Tab = {t1}
    Filter <- MC_Filter
    NoFilter = NoFilter
    Post = {p1, p2}
    SessionOf <- MC_SessionOf
    Agent = {a1}
    MaxRequests = 2
    Thread = {th1, th2}
    Task = {k1, k2}
    Event = {e1, e2, e3}
    NoEvent = NoEvent
    Ctx = {ctxA, ctxB}
    CtxOf <- MC_CtxOf
    TypeOf <- MC_TypeOf
    Listeners <- MC_Listeners
    MaxBuffer = 3
    Entry = {x, y, z}
    NoEntry = NoEntry
    Disposer = {d1, d2, d3}
    FlagOf <- MC_FlagOf
    CtxFlag = ctxA
    AsyncEntry = {x, y, z}
    AsyncDisposer = {d1, d2}
    NoAsyncEntry = NoAsyncEntry
    Plugin = {p1, p2, p3}
    NoPlugin = NoPlugin
    PluginName = {nm, nn}
    NameOf <- MC_NameOf
    Manifests <- MC_Manifests
    Linked = {1, 2, 3}
    Saver = {s1, s2}
    Chunks = 2
    Blank = Blank
    Edit = {hand}
    ReadsReported = {FALSE, TRUE}
    Unlisted = 0
    Key = {x, y}
    Scalar = {sa, sb}
    Depth = 2
    NoValue = NoValue
    Sid = {sa}
    RecCall = {c1, c2, c3}
    NoCaller = NoCaller
    FinalState = {"closed", "errored"}
    Threshold = 2
    Cooldown = 2
    MaxNow = 5
    MaxFailures = 4
    Provider = {"openai", "anthropic"}
    EventKind = {"delta", "other", "stop"}
    MaxEvents = 3
    RunId = {x, y}
    KeepRecent = 1
    MaxArrivals = 4
    Dags <- MC_Dags
CHECK_DEADLOCK FALSE
INVARIANTS
    KeyDecidesShown
    EventsAreDelivered
    ResourcesAreReleased
    
    
    ServersKeepTheirWord
    TasksRunInOrder
PROPERTIES
    EveryRequestResolved
    LoopsMoveOn
