SPECIFICATION FairSpec
CONSTANTS
    w1 = w1  w2 = w2  u1 = u1  u2 = u2
    j1 = j1  j2 = j2  j3 = j3  r1 = r1  r2 = r2
    Workers = {w1, w2}
    Users = {u1, u2}
    Jobs = {j2, j3}
    Requests = {r1}
    Owner <- MCOwner
    TrainJobs <- MCTrainJobs
    Host <- MCHost
    BaseLaunches = 1
    BatchSize = 2
    MaxFaults = 2
    None = None
PROPERTIES
    JobsComplete
    NewJobsAreClaimed
