---------------------------- MODULE DiagnosticIDs ----------------------------
(***************************************************************************)
(* The table of diagnostics (include/u-lang/Basic/DiagnosticIDs.def) that  *)
(* DiagnosticMapping looks severities and messages up in, and the forms    *)
(* that the parts of a message take.  Of the unit-test entries those with  *)
(* a message of their own are kept.                                        *)
(***************************************************************************)
EXTENDS Integers, Sequences

(* A message is a sequence of parts: text, a character behind a percent    *)
(* sign, or a placeholder for argument number arg, with a modifier and the *)
(* options of a select in braces.  A word of text is one symbol.           *)
Part(form, word, options, arg) ==
  [form |-> form, word |-> word, options |-> options, arg |-> arg]

Text(word)          == Part("text", word, << >>, 0)
Escape(punct)       == Part("escape", punct, << >>, 0)
Slot(n)             == Part("slot", "", << >>, n)
Modified(word, n)   == Part("slot", word, << >>, n)
Select(options, n)  == Part("slot", "select", options, n)

Entry(level, message) == [Level |-> level, Message |-> message]

Choice(middle) == << <<Text("a")>>, <<middle>>, <<Text("c")>> >>

Table ==
  [unterminated_string |-> Entry("Fatal", <<Text("An unterminated string")>>),
   bad_escape_sequence |-> Entry("Warning", <<Text("An invalid escape code"), Slot(0), Text("found")>>),
   bad_hex_digit       |-> Entry("Warning", <<Text("An invalid digit"), Slot(0), Text("found")>>),
   apreal_overflow     |-> Entry("Fatal", <<Text("The real number"), Slot(0), Text("overflowed")>>),
   apreal_underflow    |-> Entry("Fatal", <<Text("The real number"), Slot(0), Text("underflowed")>>),
   apreal_unknown      |-> Entry("Fatal", <<Text("An unknown error")>>),
   unit_test_0001      |-> Entry("Ignore", <<Text("I have"), Slot(0), Text("sense"), Text(".")>>),
   unit_test_0002      |-> Entry("Ignore", <<Text("I have"), Slot(0), Text("sense"), Modified("s", 0), Text(".")>>),
   unit_test_0003      |-> Entry("Ignore", <<Text("The"), Modified("ordinal", 0), Text("sense"), Text(".")>>),
   unit_test_0007      |-> Entry("Ignore", <<Text("Token"), Slot(0), Text(".")>>),
   unit_test_0008      |-> Entry("Ignore", <<Escape("%"), Text(".")>>),
   unit_test_0009      |-> Entry("Ignore", <<Slot(0)>>),
   unit_test_0010      |-> Entry("Ignore", <<Select(Choice(Text("b")), 0)>>),
   unit_test_0011      |-> Entry("Ignore", <<Select(Choice(Escape("%")), 0)>>)]

DiagnosticID == DOMAIN Table

(* The value of CurDiagID when no diagnostic is in flight.                 *)
NUM_DIAGNOSTICS == "NUM_DIAGNOSTICS"

(* What operator<< makes of an int, an unsigned, a token kind, a C string  *)
(* and a std::string: a kind, and a value in one of two arrays.  That of a *)
(* C string is its address, 0 for the null pointer.                        *)
Argument(kind, str, val) == [kind |-> kind, str |-> str, val |-> val]

Sint(i)     == Argument("ak_sint", << >>, i)
Uint(i)     == Argument("ak_uint", << >>, i)
Token(name) == Argument("ak_tokenkind", <<name>>, 0)
CString(s)  == Argument("ak_c_string", s, 1)
NullCString == Argument("ak_c_string", << >>, 0)
String(s)   == Argument("ak_std_string", s, 0)

=============================================================================
