\* Timeouts of one to three ticks.
SPECIFICATION FairSpec
CONSTANTS
    Ticks = {1, 2, 3}
INVARIANTS NoTimeoutLost
PROPERTY TimeoutFires
