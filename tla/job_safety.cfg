SPECIFICATION Spec
CONSTANTS
    w1 = w1  w2 = w2  u1 = u1  u2 = u2
    j1 = j1  j2 = j2  j3 = j3  r1 = r1  r2 = r2
    Workers = {w1, w2}
    Users = {u1}
    Jobs = {j1, j2}
    Requests = {r1, r2}
    Owner <- MCOwner
    TrainJobs <- MCTrainJobs
    Host <- MCHost
    BaseLaunches = 2
    BatchSize = 2
    MaxFaults = 1
    None = None
INVARIANTS
    InductiveInv
    NoDoubleProcessing
    BalanceWithinCharges
    ChargedJobsSucceeded
    OverlapBoundsOngoing
PROPERTIES
    VerdictIsFinal
    StrandedForGood
    BoardSpec
