------------------------------- MODULE MCLexer -------------------------------
(* The texts the lexer is checked on, one set per part of the language.    *)
EXTENDS LexerProperties

CONSTANT MaxLen       \* length of a text

Characters ==
  Quote \union IdChar \union Single \union Doubled \union AnyEnd
    \union {"sp", "wsp", "/", "\\", ".", "+", "NL", "NUL"}

Over(alphabet, n) == UNION {[1..k -> alphabet] : k \in 0..n}

(* Lines: tokens of every simple kind, spaces, comments and line ends.  In *)
(* LineTexts the last line is complete; in RaggedTexts it need not be.     *)
LineAlphabet == {"sp", "NL", "/", "a", "-", "&", "NUL"}
RaggedTexts == Over(LineAlphabet, MaxLen - 2)
LineTexts == {Append(t, "NL") : t \in Over(LineAlphabet, MaxLen - 2)}

(* Identifiers and keywords.                                               *)
WordTexts == Over({"f", "n", "u", "8", "uni", "_", "sp"}, MaxLen - 2)

(* Spaces outside ASCII, where they are and where they are not spaces.     *)
WideTexts == {Append(t, "NL") : t \in Over({"'", "/", "a", "wsp", "sp"}, MaxLen - 2)}

(* Strings, short and long, and ANY types.                                 *)
StringTexts == Over({"'", "a", "NL", "sp"}, MaxLen) \union Over({"'", "\"", "a"}, MaxLen)
LongTexts == {<<"'", "'", "'">> \o t : t \in Over({"'", "a", "NL"}, MaxLen + 1)}

(* Strings with one or two escapes.                                        *)
Hex2 == {<<"\\", "x">> \o d : d \in [1..2 -> {"0", "a", "'", "n"}]}
Hex4 == {<<"\\", "u">> \o d : d \in [1..4 -> {"0", "d", "8", "n"}]}
Short == {<<"\\", "n">>, <<"\\", "\\">>, <<"\\", "'">>, <<"\\", "a">>, <<"\\">>, <<"a">>}
EscapeTexts ==
  {<<"'">> \o u \o v \o end : u \in Hex2 \union Hex4 \union Short, v \in Hex2 \union Short,
                              end \in {<<"'">>, <<"'", "a">>}}

(* Numbers.                                                                *)
NumberTexts ==
  {t \in Over({"0", "1", "x", "b", "e", ".", "_", "-", ")"}, MaxLen - 1) :
     t # << >> /\ t[1] \in Decimal}

(* A little of everything, the last line complete.                         *)
Mixed(n) ==
  {Append(t, "NL") : t \in Over({"'", "\\", "x", "0", ".", "e", "/", "sp", "&"}, n)}

MixedTexts == Mixed(MaxLen - 1)

AllTexts ==
  LineTexts \union WideTexts \union WordTexts \union StringTexts \union LongTexts
    \union EscapeTexts \union NumberTexts \union Mixed(MaxLen - 2)

=============================================================================
