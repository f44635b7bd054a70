SPECIFICATION Program
CONSTANTS
    Bodies <- AllBodies
    MaxValues = 8
    Used = {"body", "values"}
    Types <- SomeTypes
    Unions <- SomeUnions
    Classes <- SomeClasses
    MaxMade = 2
INVARIANTS LoweredIsValid EndedOnce ReadsOwnedValue DropsYoungestFirst ReferencesValid DisposedUnlessCancelled ValuesKept
CHECK_DEADLOCK FALSE
