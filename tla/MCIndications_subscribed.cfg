SPECIFICATION Spec
CONSTANT MaxPackets = 3
INVARIANT Subscribed
