SPECIFICATION Program
CONSTANTS
    Bodies <- DerivedBodies
    MaxValues = 7
    Used = {"body"}
    Types <- SomeTypes
    Unions <- SomeUnions
    Classes <- SomeClasses
    MaxMade = 2
INVARIANTS ReferencesNeverDangle
CHECK_DEADLOCK FALSE
