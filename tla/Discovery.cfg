SPECIFICATION Spec
CONSTANTS
    Crawlers = {c1, c2}
    Listings <- MCListings
    Source <- MCSource
    Queries <- MCQueries
    Controls <- MCControls
    Readings <- MCReadings
    Legacy <- MCLegacy
    Removed = {"gone"}
    NoJob = NoJob
    MaxScrapes = 2
    MaxFaults = 1
    MaxCrashes = 1
INVARIANTS
    CrawlInv
    QueuedOnce
    StoredIsQueuedOrLost
    FormAsksOnce
PROPERTY
    FoundIsStored
