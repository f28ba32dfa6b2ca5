CONSTANTS
 Char <- Characters
 NL = "NL"
 NUL = "NUL"
 ColWidth = 32
 MaxLen = 5
 Texts <- RaggedTexts
SPECIFICATION Spec
PROPERTY LexReturns
CHECK_DEADLOCK FALSE
