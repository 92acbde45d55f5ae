CONSTANTS
    batched = batched
    single = single
    NoJob = NoJob
    Jobs = {batched, single}
    Size <- Sizes
    Batch <- Batches
    Secret <- Secrets
    Prefetch = 1
    MaxPrefetch = 4
    Cancelable = {batched}
SPECIFICATION FairSpec
INVARIANTS ResultsComplete CallDiscipline CanceledForAReason RevokedOnceBetween
PROPERTIES JobsFinish
CHECK_DEADLOCK FALSE
