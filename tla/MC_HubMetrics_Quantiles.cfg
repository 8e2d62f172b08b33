\* Are the exported quantiles ordered for every non-empty sample?
SPECIFICATION Spec
CONSTANTS
    Requests = {r1, r2}
    Outcomes <- MCOutcomes
    DurationValues = {1, 2}
    HistogramLimit = 4
    HistogramDrop = 2
    MaxRequests = 3
    Mentions <- MCMentions
INVARIANT QuantilesOrdered
CHECK_DEADLOCK FALSE
