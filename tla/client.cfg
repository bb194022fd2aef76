SPECIFICATION FairSpec
CONSTANTS
    Caller = {c1, c2}
    Blob = {b1}
    Publishers = 2
    Aggregators = 2
    MaxRetries = 1
    HealthyPublisher = {2}
    HealthyAggregator = {}
INVARIANTS
    TypeOK
    HealthyEndpointServes
PROPERTIES
    Implements
    CallsReturn
