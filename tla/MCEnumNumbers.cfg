SPECIFICATION Program
CONSTANTS
    Bodies <- DerivedBodies
    MaxValues = 7
    Used = {"values"}
    Types <- SomeTypes
    Unions <- SomeUnions
    Classes <- SomeClasses
    MaxMade = 2
INVARIANTS MatchedAsMade
CHECK_DEADLOCK FALSE
