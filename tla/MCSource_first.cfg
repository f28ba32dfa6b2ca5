CONSTANTS EF = EF BB = BB BF = BF CR = CR NL = NL Plain = Plain
 MaxBytes = 5
 MaxUnits = 3
 Files <- ValidFiles
SPECIFICATION Spec
INVARIANT FirstPointKept
CHECK_DEADLOCK FALSE
