CONSTANTS
    ShortPress <- MCShortPress
    LongPress <- MCLongPress
    Window = 2
    Boot = 3
    ClockRange = 7
    TimerQueue = 2
SPECIFICATION FairSpec
INVARIANTS NoLostWakeup
PROPERTIES ClassifiedOnce DoubleMeansTwo PressPolled
