---------------------------- MODULE MCDiagnostic ----------------------------
(* What the clients of the engine report, and messages with nested parts.  *)
EXTENDS MessageFormat

JunkArgument == Uint(99)

(* One diagnostic of each severity that the table has, with arguments of   *)
(* every kind, too few and too many among them.                            *)
AnyCallSites ==
  {<<"unterminated_string", << >> >>,
   <<"bad_hex_digit", << >> >>,
   <<"bad_hex_digit", <<CString(<<"p">>)>> >>,
   <<"bad_hex_digit", <<NullCString>> >>,
   <<"unit_test_0009", <<String(<<"Hello", "bell">>)>> >>,
   <<"unit_test_0002", <<Sint(1), Uint(12)>> >>,
   <<"unit_test_0010", <<Uint(2), String(<<"Hello", "bell">>)>> >>,
   <<"unit_test_0011", <<Uint(1), Sint(0)>> >>,
   <<"unit_test_0007", <<Token("minus"), Token("identifier")>> >>}

ArgumentsOf(sites) ==
  {JunkArgument} \union UNION {{site[2][i] : i \in 1..Len(site[2])} : site \in sites}

AnyArguments   == ArgumentsOf(AnyCallSites)

(* Options of one or two parts, one of them a select itself.               *)
Inner == <<Select(<< <<Text("x")>>, <<Slot(1)>> >>, 1)>>

Options ==
  {<< >>, <<Slot(0)>>, <<Text("a"), Modified("s", 0)>>, <<Escape("|")>>, <<Escape("}"), Text("b")>>,
   <<Modified("ordinal", 0), Escape("{")>>, Inner, <<Text("c")>> \o Inner \o <<Text("d")>>}

AnyForms ==
  {<<Select(<<o, <<Text("a"), Escape("|")>>, o>>, 0), Text("end")>> : o \in Options}
  \union {<<Select(<<Inner, o, << >> >>, 0), Slot(0)>> : o \in Options}

=============================================================================
