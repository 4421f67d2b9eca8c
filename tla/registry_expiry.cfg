SPECIFICATION FairSpec
CONSTANTS
    u1 = u1  u2 = u2  q1 = q1  q2 = q2
    t1 = t1  t2 = t2  l1 = l1  s1 = s1
    None = None
    Trainer <- MCTrainer
    Users = {u1}
    Requests = {q1}
    Trainings = {t1}
    Loops = {l1}
    Sweeps = {s1}
    TtlSetting = "days"
    Batch = 1
    OnDisk = TRUE
    MaxKeys = 1
    MaxDatasets = 2
    MaxFaults = 1
PROPERTIES
    ExpiredDatasetsGo
CHECK_DEADLOCK FALSE
