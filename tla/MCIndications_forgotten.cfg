SPECIFICATION Spec
CONSTANT MaxPackets = 3
PROPERTY NoneForgotten
