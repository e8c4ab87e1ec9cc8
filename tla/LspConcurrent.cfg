SPECIFICATION RpcSpec
CONSTANTS
    k1 = k1  k2 = k2  c1 = c1  c2 = c2  c3 = c3  c4 = c4
    Child = {k1, k2}
    NoChild = NoChild
    Call = {c1, c2, c3, c4}
    NoCall = NoCall
    Timed = {c1, c4}
    LspCaller = {c1, c2}
    Respawner = {c3}
    Closer = {c2}
    MaxRespawn = 1
    Kinds = {"lsp"}
    Proc = {k1}
    NoProc = NoProc
    SubCall = {c1, c2, c3}
    Program <- MC_Program
    PipeCap = 1
    Term = {k1, k2}
    NoTerm = NoTerm
    TermCall = {c1, c2}
    NoTermCall = NoTermCall
    MaxOut = 1
    TtyCap = 1
CHECK_DEADLOCK FALSE
PROPERTY
    AnsweredRequestsEnd
