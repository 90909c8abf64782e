SPECIFICATION FairSpec
CONSTANTS
    pop = pop
    stranger = stranger
    victim = victim
    victim2 = victim2
    outside = outside
    Dst <- MCDst
    Own <- MCOwn
    Observation <- MCObservations
    expected_sampling <- MCExpected
    Window = 2
    HoldDown = 2
    PpsThreshold = 10
    BpsThreshold = 60
    MinSamples = 2
    ConfiguredFactor = 0
    U32Max = 63
    MaxSamples = 3
INVARIANT EstimateInBand
PROPERTIES ImplementsSource AttackEnds
