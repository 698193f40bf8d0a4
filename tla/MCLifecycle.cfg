SPECIFICATION Spec
CONSTANTS
    Databases <- MCDatabases
    Bodies = {"db", "junk", "empty"}
    maxRetries = 3
    ScrapeTimeouts = {3}
    callRetries = 3
    shutdownGrace = 5
    lateArrival = 1
INVARIANTS
    TypeOK
    ScrapeKeepsDeadline
    UpMeansAnswered
    ConnectionOutlivesScrapes
PROPERTIES
    UsableStaysUsable
    StartsServing
    ScrapesEnd
    ShutdownEnds
