SPECIFICATION MCSpec
CONSTANTS
    Visits = {v1, v2}
    Queries = {q1}
    EbayTTL = 3
    FailTTL = 1
    EdgeTTL = 2
    Deadline = 1
    Latency = 2
    Callers = {c1, c2, c3}
    Life = 7
    Margin = 3
    Delay = 1
    Embedders = {e1, e2}
    Batches <- MCBatches
    EmbedTTL = 1
    EmbedMax = 2
    NoThread = NoThread
    Horizon = 2
INVARIANTS
    ShownInTime
    TokenFresh
    EmbedSound
PROPERTIES
    SearchEnds
