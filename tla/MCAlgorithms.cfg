SPECIFICATION Spec
CONSTANTS
    RateTableSize = 2
    Window = 2
    MaxPerWindow = 1
    Senders = {1, 2, 3}
    Gaps = {0, 1, 2, 3}
    DebounceSamples = 2
    VbusMin = 2
    VbusHysteresis = 1
    Samples <- MCSamples
    QOne = 20
    MaxPackets = 5
    MaxSamples = 6
INVARIANT ModestServed
INVARIANT GreedyHeldBack
INVARIANT PowerFollowsSteadyInput
 
INVARIANT CurveMonotone
INVARIANT CurveWholeBursts
CHECK_DEADLOCK FALSE
