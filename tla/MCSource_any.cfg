CONSTANTS EF = EF BB = BB BF = BF CR = CR NL = NL Plain = Plain
 MaxBytes = 5
 MaxUnits = 5
 Files <- AllFiles
SPECIFICATION Spec
INVARIANTS TypeOK PositionOK LineEndingsOK BoolMeansGet
PROPERTIES ImplementsStream Drained
CHECK_DEADLOCK FALSE
