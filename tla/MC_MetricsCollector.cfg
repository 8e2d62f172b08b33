\* Collector, with or without its database at each start: authenticity of
\* stored rows, counter accounting, sound admin statistics and eventual
\* handling of every queued publication across connection losses, a crash
\* and a graceful shutdown.
SPECIFICATION Spec
CONSTANTS
    Services <- MCServices
    Payloads <- MCPayloadsCore
    Now <- MCNow
    MaxPublishes = 2
    MaxRestarts = 1
    MaxDisconnects = 1
INVARIANT TypeOK
PROPERTY ImplementsPipeline
INVARIANT CountersAccount
INVARIANT StatsRatesSound
INVARIANT NoQueuedMessageLost
PROPERTY EveryQueuedMessageHandled
CHECK_DEADLOCK FALSE
