SPECIFICATION Spec
CONSTANTS
    s1 = s1  s2 = s2
    jobs = jobs  ttl = ttl
    k1 = k1
    Servers = {s1, s2}
    Loops = {jobs, ttl}
    Catching = {ttl}
    Keys = {k1}
    Configured = "minio"
    RetryAttempts = 2
    MaxFaults = 2
INVARIANTS
    TypeOK
    RowsAreStored
    StraysAreAccounted
    FallbacksBounded
PROPERTIES
    StopIsFinal
    LoopsRun
    StopsEnd
CHECK_DEADLOCK FALSE
