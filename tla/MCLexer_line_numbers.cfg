CONSTANTS
 Char <- Characters
 NL = "NL"
 NUL = "NUL"
 ColWidth = 32
 MaxLen = 5
 Texts <- LineTexts
SPECIFICATION Spec
INVARIANT LineNumbersOK
CHECK_DEADLOCK FALSE
