SPECIFICATION HealthSpec
CONSTANT MemoryConnects = {TRUE, FALSE}
INVARIANTS ReportsAgree
PROPERTY WorldIsReported
