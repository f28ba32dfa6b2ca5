---------------------------- MODULE MCInMemoryFS ----------------------------
(* Paths over two names, absolute and relative, some climbing.             *)
EXTENDS InMemoryFS

Names == <<"", "/", "a", "b">>

Rests == {<< >>, <<"a">>, <<"b">>, <<"a", "b">>, <<"a", "a">>}

PathInputs ==
  [abs : {TRUE}, up : {0}, rest : Rests] \union
  [abs : {FALSE}, up : {0, 1}, rest : {<< >>, <<"a">>}]

=============================================================================
