---------------------------- MODULE MessageFormat ----------------------------
(***************************************************************************)
(* Diagnostic::FormatDiagnostic (lib/Basic/Diagnostic.cpp): a consumer     *)
(* that is handed a diagnostic substitutes its arguments into the message. *)
(*                                                                         *)
(* The code scans a string of characters, where a select may hold further  *)
(* placeholders, selects and escaped characters.  The characters of a      *)
(* message are those that Written makes of its parts; Rendered is the      *)
(* reference, which follows the parts and never scans.                     *)
(***************************************************************************)
EXTENDS Diagnostic, TLC

CONSTANT Forms    \* further messages that the table could hold

Digit == {ToString(d) : d \in 0..9}
Punctuation == {"%", "{", "}", "|", "."}
Unprintable == {"bell"}

(* How tok::getPunctuatorSpelling, getKeywordSpelling and getTokenName     *)
(* spell the kind of a token.                                              *)
Punctuator == [minus |-> "-"]
Keyword    == [kw_fn |-> "fn"]

Spelling(kind) ==
  IF kind \in DOMAIN Punctuator THEN <<"'", Punctuator[kind], "'">>
  ELSE IF kind \in DOMAIN Keyword THEN <<Keyword[kind]>>
  ELSE <<"<", kind, ">">>

OrdinalSuffix(n) ==                    \* llvm::getOrdinalSuffix
  IF n % 100 \in 11..13 THEN "th"
  ELSE CASE n % 10 = 1 -> "st" [] n % 10 = 2 -> "nd" [] n % 10 = 3 -> "rd" [] OTHER -> "th"

(* A number with the modifier of its placeholder; a select is not here.    *)
Number(n, modifier) ==
  CASE modifier = "s"       -> IF n # 1 THEN <<"s">> ELSE << >>
    [] modifier = "ordinal" -> <<ToString(n), OrdinalSuffix(n)>>
    [] OTHER                -> <<ToString(n)>>

IsNumber(arg) == arg.kind \in {"ak_sint", "ak_uint"}

(* The text of an argument in a placeholder without options.               *)
Shown(arg, modifier) ==
  CASE IsNumber(arg)              -> Number(arg.val, modifier)
    [] arg.kind = "ak_tokenkind"  -> Spelling(arg.str[1])
    [] arg.kind = "ak_c_string"   -> IF arg.val = 0 THEN <<"(null)">> ELSE arg.str
    [] arg.kind = "ak_std_string" -> arg.str

-----------------------------------------------------------------------------
(* The scanner.  Positions are those of a sequence s of symbols, a word of *)
(* text or the name of a modifier being one.                               *)

(* The position at which the symbol at i, and what is skipped with it,     *)
(* ends: behind a percent sign an escaped character, a digit, or a         *)
(* modifier up to its brace or its digit.                                  *)
Modifier(s, i) == s[i] = "%" /\ i < Len(s) /\ s[i + 1] \notin Digit \union Punctuation

Step(s, i) == i + (IF s[i] # "%" THEN 1 ELSE IF Modifier(s, i) THEN 3 ELSE 2)

RECURSIVE ScanFrom_bug(_, _, _, _), ScanFrom(_, _, _, _)
ScanFrom_bug(s, i, target, depth) ==   \* the braces are not counted
  IF i > Len(s) \/ s[i] = target THEN i
  ELSE ScanFrom_bug(s, Step(s, i), target, depth)

(* The first target at depth 0, or the position behind the end.            *)
ScanFrom(s, i, target, depth) ==
  IF i > Len(s) THEN Len(s) + 1
  ELSE IF depth = 0 /\ s[i] = target THEN i
  ELSE LET opens  == Modifier(s, i) /\ i + 2 <= Len(s) /\ s[i + 2] = "{"
           closes == depth # 0 /\ s[i] = "}"
       IN  ScanFrom(s, Step(s, i), target,
                    depth + (IF opens THEN 1 ELSE 0) - (IF closes THEN 1 ELSE 0))

ScanFormat(s, target) == ScanFrom(s, 1, target, 0)

From(s, i) == SubSeq(s, i, Len(s))

(* HandleSelectModifier: skip n options, end at the next bar.              *)
RECURSIVE Option(_, _)
Option(options, n) ==
  LET end == ScanFormat(options, "|")
  IN  IF n = 0 THEN SubSeq(options, 1, end - 1) ELSE Option(From(options, end + 1), n - 1)

RECURSIVE FormatDiagnostic(_, _), Substitute(_, _)
(* The loop over the message.                                              *)
Substitute(s, args) ==
  IF s = << >> THEN << >>
  ELSE IF s[1] # "%" THEN <<s[1]>> \o Substitute(Tail(s), args)
  ELSE IF s[2] \in Punctuation THEN <<s[2]>> \o Substitute(From(s, 3), args)
  ELSE
    LET named   == s[2] \notin Digit
        braces  == named /\ s[3] = "{"
        inside  == From(s, 4)                   \* behind the brace
        close   == ScanFormat(inside, "}")
        digit   == IF braces THEN 4 + close ELSE IF named THEN 3 ELSE 2
        ArgNo   == CHOOSE d \in 0..9 : ToString(d) = s[digit]
        arg     == args[ArgNo + 1]
    IN  (IF braces
         THEN FormatDiagnostic(Option(SubSeq(inside, 1, close - 1), arg.val), args)
         ELSE Shown(arg, IF named THEN s[2] ELSE ""))
        \o Substitute(From(s, digit + 1), args)

(* A message that is only "%0" is a string from outside.                   *)
FormatDiagnostic(s, args) ==
  IF s = <<"%", "0">> /\ args[1].kind = "ak_std_string"
  THEN SelectSeq(args[1].str, LAMBDA c : c \notin Unprintable)
  ELSE Substitute(s, args)

-----------------------------------------------------------------------------
(* The characters of a message.                                            *)
RECURSIVE Written(_), Joined(_)
Written(m) ==
  IF m = << >> THEN << >>
  ELSE LET p == m[1]
       IN  (CASE p.form = "text"   -> <<p.word>>
              [] p.form = "escape" -> <<"%", p.word>>
              [] p.form = "slot"   ->
                   <<"%">> \o (IF p.word = "" THEN << >> ELSE <<p.word>>)
                   \o (IF p.options = << >> THEN << >> ELSE <<"{">> \o Joined(p.options) \o <<"}">>)
                   \o <<ToString(p.arg)>>)
           \o Written(Tail(m))

Joined(options) ==
  Written(options[1])
  \o (IF Len(options) = 1 THEN << >> ELSE <<"|">> \o Joined(Tail(options)))

(* The arguments that a message asks for, in the options it comes to, are  *)
(* there and of a kind that its modifiers take: what the code asserts.     *)
RECURSIVE Accepts(_, _)
Accepts(m, args) ==
  \A i \in 1..Len(m) : m[i].form = "slot" =>
    /\ m[i].arg < Len(args)
    /\ LET arg == args[m[i].arg + 1]
       IN  /\ m[i].word # "" => IsNumber(arg)
           /\ m[i].word = "ordinal" => arg.val > 0
           /\ m[i].word = "select" =>
                arg.val \in 0..(Len(m[i].options) - 1) /\ Accepts(m[i].options[arg.val + 1], args)

RECURSIVE Rendered(_, _)
Rendered(m, args) ==
  IF m = << >> THEN << >>
  ELSE LET p == m[1]
           arg == args[p.arg + 1]
           here ==
             IF p.form # "slot" THEN <<p.word>>
             ELSE IF p.options # << >> THEN Rendered(p.options[arg.val + 1], args)
             ELSE Shown(arg, p.word)
       IN  IF m = <<Slot(0)>> THEN SelectSeq(here, LAMBDA c : c \notin Unprintable)
           ELSE here \o Rendered(Tail(m), args)

(* FormattedOK: of each diagnostic as it reaches a consumer, if its        *)
(* arguments fit its message, the text is the message's parts with those   *)
(* arguments in place: nested selects, escaped bars, braces and percent    *)
(* signs never make the scanner lose its place.                            *)
FormattedOK ==
  emitted # << >> =>
    LET d == emitted[Len(emitted)]
    IN  \A m \in Forms \union {Table[d.id].Message} :
          Accepts(m, d.args) => FormatDiagnostic(Written(m), d.args) = Rendered(m, d.args)

=============================================================================
