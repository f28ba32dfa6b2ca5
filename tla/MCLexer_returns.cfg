CONSTANTS
 Char <- Characters
 NL = "NL"
 NUL = "NUL"
 ColWidth = 32
 MaxLen = 4
 Texts <- MixedTexts
SPECIFICATION Spec
PROPERTIES LexReturns
CHECK_DEADLOCK FALSE
