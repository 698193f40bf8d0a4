SPECIFICATION Spec
CONSTANTS
    Databases <- MCDatabases
    Bodies = {"db", "junk", "empty"}
    maxRetries = 3
    ScrapeTimeouts = {3}
    callRetries = 3
    shutdownGrace = 5
    lateArrival = 1
INVARIANT ReadersOutliveLookups
