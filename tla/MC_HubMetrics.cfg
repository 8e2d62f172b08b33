\* The sample buffer across repeated trims under concurrent requests.
SPECIFICATION Spec
CONSTANTS
    Requests = {r1, r2}
    Outcomes <- MCOutcomes
    DurationValues = {1, 2}
    HistogramLimit = 2
    HistogramDrop = 1
    MaxRequests = 4
    Mentions <- MCMentions
INVARIANT TypeOK
INVARIANT HistogramKeepsNewest
INVARIANT SnapshotAccountsRequests
CHECK_DEADLOCK FALSE
