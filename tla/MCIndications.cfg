SPECIFICATION FairSpec
CONSTANT MaxPackets = 3
INVARIANTS TypeOK OneOutstanding NoneDiscarded ChangeOnItsWay
PROPERTIES ChangeTold
