CONSTANTS
    p1 = p1
    p2 = p2
    p3 = p3
    Players <- MCPlayers
    Effects <- MCEffects
SPECIFICATION FairSpec
INVARIANTS MotorFollowsEffect
PROPERTY MotorStops
