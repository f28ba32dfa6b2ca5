CONSTANTS
 Char <- Characters
 NL = "NL"
 NUL = "NUL"
 ColWidth = 32
 MaxLen = 6
 Texts <- AllTexts
SPECIFICATION Spec
INVARIANTS TypeOK Lookahead Recorded BeginOK EndOK StringsOK NumbersOK EscapesOK
PROPERTY ImplementsTokens
CHECK_DEADLOCK FALSE
