------------------------------ MODULE MCSource ------------------------------
(* The files a source is checked on.                                       *)
EXTENDS Source, SequencesExt

CONSTANTS MaxBytes,   \* length of an arbitrary file
          MaxUnits    \* code points of a well-formed file

(* The noncharacter EF BF BF (U+FFFF) is left out: the releases of utf8cpp *)
(* disagree on whether it is valid.                                        *)
NoNonchar(f) == \A i \in 1..(Len(f) - 2) : SubSeq(f, i, i + 2) # <<EF, BF, BF>>

(* Any bytes at all.                                                       *)
AnyFiles == {f \in UNION {[1..n -> Byte] : n \in 0..MaxBytes} : NoNonchar(f)}

BOM == <<EF, BB, BF>>

Unit == {<<CR>>, <<NL>>, <<Plain>>, <<EF, BB, BB>>, BOM}

Texts == UNION {[1..n -> Unit] : n \in 0..MaxUnits}

(* Valid UTF-8 of any shape.                                               *)
ValidFiles == {f \in {FlattenSeq(t) : t \in Texts} : f # << >>}

(* Short files of any bytes, and longer valid ones.                        *)
AllFiles == AnyFiles \union ValidFiles

=============================================================================
