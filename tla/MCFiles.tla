------------------------------- MODULE MCFiles -------------------------------
(* Directories of modules, one within the other, one named by a relative   *)
(* path, and a module path that may be a file; and a process that runs in  *)
(* one of the directories or above.                                        *)
EXTENDS Files

Path(abs, up, rest) == [abs |-> abs, up |-> up, rest |-> rest]

Below(names) == Root \o [i \in DOMAIN names |-> <<names[i]>>]

AllPaths == {Path(TRUE, 0, << >>), Path(TRUE, 0, << <<"m">> >>), Path(TRUE, 0, << <<"x">> >>),
             Path(TRUE, 0, << <<"m">>, <<"n">> >>), Path(FALSE, 0, << >>),
             Path(FALSE, 0, << <<"n">> >>), Path(FALSE, 1, << >>)}

AllDirectories == {Root, Below(<<"m">>), Below(<<"m", "n">>)}

M  == <<"/", "m">>
MN == <<"/", "m", "/", "n">>
N  == <<"n">>
X  == <<"/", "x">>

AllMounts == {M, MN, N, X}

AllRequests == {<<"/", "b">>, <<"b">>, <<"/", "n", "/", "b">>, <<"/", "n", "/">>, M \o <<"/", "b">>, X}

SystemPaths == {<<MN>>, <<X, N>>}
UserPaths   == <<M>>

AllFiles == {Below(<<"m", "b">>), Below(<<"m", "n", "b">>), Below(<<"x">>)}

AllTexts == {<<"a">>, <<"newline">>}

=============================================================================
