SPECIFICATION Spec
CONSTANTS
    Values <- MC_Values
    Bases = {1000, 1024}
    RoundLimits <- MC_RoundLimits
    Percents <- MC_Percents
INVARIANTS
    UnitMinimal
    PercentWidth
