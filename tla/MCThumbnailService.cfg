SPECIFICATION Spec
CONSTANTS
    Elements = {e1}
    Tiers = {t1, t2}
    Requests = {r1, r2}
    Capacity = 1
    Sizes = {1, 2}
    MaxEdits = 1
    PrepareFails = TRUE
SYMMETRY Symmetry
INVARIANTS CacheConsistent FreshAnswers PipelineReturned Custody Served
PROPERTIES PinnedSurvive RequestsPromise
CHECK_DEADLOCK FALSE
