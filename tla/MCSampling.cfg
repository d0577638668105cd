SPECIFICATION FairSpec
CONSTANTS
    Keys <- MCKeys
    Deliveries <- MCDeliveries
    ClockRange = 3
    Interval = 2
    MaxGap = 2
    Rate = 2
    MaxSamples = 3
INVARIANTS TypeOK PublishedTogether OneMeasurement AlwaysDue
PROPERTIES NeverBackward StoredIsPublished
