\* Two endpoints; ids and seconds wrap several times.
SPECIFICATION FairSpec
CONSTANTS
    Endpoints = 2
    Slots = 2
    Ids = 2
    Half = 2
    ZdoWait = 1
    MatchWait = 1
    Wait = {0, 1}
    Rebirth = FALSE
    MaxGap = 1
    MaxRequest = 2
    MaxIssue = 3
INVARIANTS OwnAnswer NeverEarly LookupAwaited
PROPERTIES Implements Settles
CHECK_DEADLOCK FALSE
