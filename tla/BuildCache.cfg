CONSTANTS
    Types <- MCTypes
    Kids <- MCKids
    Compound <- MCCompound
    Absorbing <- MCAbsorbing
    Unions <- MCUnions
    Circular <- MCCircular
    Plain <- MCPlain
    Patterned <- MCPatterned
    Refused <- MCRefused
    Warned <- MCWarned
    Used <- MCUsed
    Builtins <- MCBuiltins
    Programs <- MCPrograms
    Project <- MCProject
    Short <- MCShort
    DepthCap <- MCDepthCap
    Told <- MCTold
    Builders = {b1, b2}
    MaxBuilds = 2
    MaxFaults = 1
    MaxRounds = 8
SPECIFICATION Spec
INVARIANTS TextsAreCurrent EveryCallIsBound OverridesAreServed
    FindingsAreExact
PROPERTIES BuildsFinish
CHECK_DEADLOCK FALSE
