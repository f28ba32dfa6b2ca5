------------------------------- MODULE Source -------------------------------
(***************************************************************************)
(* The byte sources of the front end: FileSource, StringSource and         *)
(* MemoryBufferSource (lib/Basic/Source.cpp).  Their Get() is the same     *)
(* text three times over different streams; it is modelled once.           *)
(*                                                                         *)
(* A source reads bytes from a stream buffer through istreambuf_iterators. *)
(* Every copy of such an iterator reads from the same buffer, so a byte    *)
(* consumed through a copy (utf8::starts_with_bom takes its arguments by   *)
(* value) is consumed for the source as well: that is why Get() gives back *)
(* one byte with unget() when there was no byte order mark.                *)
(*                                                                         *)
(* A code point is named by the sequence of bytes that encodes it.         *)
(***************************************************************************)
EXTENDS Text

CONSTANTS
  EF, BB, BF,    \* the three bytes of a byte order mark
  CR, NL,        \* carriage return, line feed
  Plain,         \* any other one-byte character
  Files          \* the contents a source may be opened on

Ascii == {CR, NL, Plain}
Trail == {BB, BF}                     \* these two may continue a code point
Byte  == Ascii \union {EF} \union Trail

ASSUME BytesAssumption ==
  LET byte == <<EF, BB, BF, CR, NL, Plain>>
  IN  \A i, j \in 1..6 : i # j => byte[i] # byte[j]

ASSUME FilesAssumption == Files \subseteq Seq(Byte)

VARIABLES
  file,          \* the bytes of the stream
  pos,           \* index of the byte the stream buffer returns next
  first_, hasBOM_, gotNewLine_, foundFF_, foundNL_,
  line, col,     \* position_
  out,           \* the code points returned by Get() so far
  status         \* "open", or "threw" once a utf8 exception has left Get()

vars == <<file, pos, first_, hasBOM_, gotNewLine_, foundFF_, foundNL_,
          line, col, out, status>>

-----------------------------------------------------------------------------
(* External: utf8::next and utf8::starts_with_bom of utf8cpp.              *)

(* A complete, valid encoding starts at p.  In this alphabet that is a     *)
(* one-byte character, or EF and two continuation bytes (U+FEC0..U+FFFF).  *)
Decodable(p) ==
  /\ p \in 1..Len(file)
  /\ \/ file[p] \in Ascii
     \/ /\ file[p] = EF
        /\ p + 2 <= Len(file)
        /\ {file[p + 1], file[p + 2]} \subseteq Trail

Width(p) == IF file[p] = EF THEN 3 ELSE 1

PointAt(p) == SubSeq(file, p, p + Width(p) - 1)

StartsWithBOM == Len(file) >= 3 /\ SubSeq(file, 1, 3) = <<EF, BB, BF>>

(* The bytes starts_with_bom takes out of the stream buffer: it moves past *)
(* a byte before it compares it, except for the third one, and stops at    *)
(* the first that differs.                                                 *)
ProbeConsumed ==
  IF file[1] = EF /\ Len(file) >= 2 THEN 2 ELSE 1

-----------------------------------------------------------------------------
(* The definitions whose names end in _bug are mutants: what the           *)
(* definition after each would be with a mistake in it.  They are not part *)
(* of the specification.                                                   *)

(* operator bool: it_ != end_.                                             *)
HasMore_bug == pos < Len(file)

HasMore == pos <= Len(file)

(* Where decoding starts once the byte order mark has been looked for.     *)
Start_bug ==          \* no unget()
  IF first_ THEN ProbeConsumed + (IF StartsWithBOM THEN 2 ELSE 1) ELSE pos

Start ==
  CASE ~first_                  -> pos
    [] first_ /\ StartsWithBOM  -> ProbeConsumed + 2     \* ++it_
    [] first_ /\ ~StartsWithBOM -> ProbeConsumed         \* unget()

(* The first byte from p on that is not a carriage return.                 *)
SkipCR_bug(p) == IF p <= Len(file) /\ file[p] = CR THEN p + 1 ELSE p   \* only one

SkipCR(p) ==
  CHOOSE q \in p..(Len(file) + 1) :
    /\ \A i \in p..(q - 1) : file[i] = CR
    /\ q <= Len(file) => file[q] # CR

(* Where a source is before the first character.                           *)
FirstLine_bug == 0

FirstLine == 1

Init ==
  /\ file \in Files
  /\ pos = 1
  /\ first_ = TRUE
  /\ hasBOM_ = FALSE
  /\ gotNewLine_ = FALSE
  /\ foundFF_ = FALSE
  /\ foundNL_ = FALSE
  /\ line = FirstLine
  /\ col = 0
  /\ out = << >>
  /\ status = "open"

(* The line end of the previous call takes effect.                         *)
NextLine == IF gotNewLine_ THEN line + 1 ELSE line

NextCol_bug == col

NextCol == IF gotNewLine_ THEN 0 ELSE col

(* What every Get() does before it decodes: the byte order mark, the line  *)
(* end of the previous call, and the carriage returns.                     *)
Prologue ==
  /\ status = "open"
  /\ HasMore
  /\ hasBOM_' = (hasBOM_ \/ (first_ /\ StartsWithBOM))
  /\ first_' = FALSE
  /\ line' = NextLine
  /\ foundFF_' = (foundFF_ \/ SkipCR(Start) # Start)
  /\ UNCHANGED file

(* Get() returns a code point.                                             *)
Get ==
  LET q == SkipCR(Start)
  IN  /\ Prologue
      /\ Decodable(q)
      /\ pos' = q + Width(q)
      /\ col' = NextCol + 1
      /\ gotNewLine_' = (file[q] = NL)
      /\ foundNL_' = (foundNL_ \/ file[q] = NL)
      /\ out' = Append(out, PointAt(q))
      /\ UNCHANGED status

(* utf8::next throws: no byte left, or not the start of a code point.  The *)
(* column counts a carriage return that was read before the throw.  No     *)
(* caller catches the exception, so where the stream is left is of no      *)
(* consequence.                                                            *)
GetThrows ==
  LET q == SkipCR(Start)
  IN  /\ Prologue
      /\ ~Decodable(q)
      /\ col' = NextCol + (IF q # Start THEN 1 ELSE 0)
      /\ gotNewLine_' = FALSE
      /\ status' = "threw"
      /\ UNCHANGED <<pos, foundNL_, out>>

Next == Get \/ GetThrows

(* The callers of a source loop on operator bool and Get().                *)
Spec == Init /\ [][Next]_vars /\ WF_vars(Next)

(* detectedLineEndings()                                                   *)
detectedLineEndings_bug ==
  CASE foundFF_ \/ foundNL_   -> "WindowsLineEndings"
    [] foundFF_ /\ ~foundNL_  -> "MacLineEndings"
    [] ~foundFF_ /\ foundNL_  -> "UnixLineEndings"
    [] OTHER                  -> "Unknown"

detectedLineEndings ==
  CASE foundFF_ /\ foundNL_   -> "WindowsLineEndings"
    [] foundFF_ /\ ~foundNL_  -> "MacLineEndings"
    [] ~foundFF_ /\ foundNL_  -> "UnixLineEndings"
    [] OTHER                  -> "Unknown"

-----------------------------------------------------------------------------
(* What a source is for.                                                   *)

(* TypeOK: every field of a source holds a value of its C++ type, and the  *)
(* stream position never passes the end of the file by more than one.      *)
TypeOK ==
  /\ file \in Files
  /\ pos \in 1..(Len(file) + 1)
  /\ {first_, hasBOM_, gotNewLine_, foundFF_, foundNL_} \subseteq BOOLEAN
  /\ line \in Nat \ {0}
  /\ col \in Nat
  /\ out \in Seq(Seq(Byte))
  /\ status \in {"open", "threw"}

(* PositionOK: after Get() the location is that of the code point it       *)
(* returned, counted over all code points returned since the file was      *)
(* opened.  Get() never computes this: it defers each line end by one call *)
(* (gotNewLine_) and adds one to one of two counters.                      *)
PositionOK ==
  status = "open" /\ out # << >> =>
    /\ line = LineOf(out, <<NL>>, Len(out))
    /\ col = ColOf(out, <<NL>>, Len(out))

(* LineEndingsOK: when the last byte has been read, the detected line      *)
(* endings say which of the two control characters the file contains.      *)
(* They are noted byte by byte in Get(), which never sees the bytes that   *)
(* the probe for the byte order mark has taken.                            *)
LineEndingsOK ==
  status = "open" /\ ~HasMore /\ ~first_ =>
    detectedLineEndings =
      LET in(b) == \E i \in 1..Len(file) : file[i] = b
      IN  CASE in(CR) /\ in(NL) -> "WindowsLineEndings"
            [] in(CR) /\ ~in(NL) -> "MacLineEndings"
            [] ~in(CR) /\ in(NL) -> "UnixLineEndings"
            [] OTHER -> "Unknown"

(* FirstPointKept: the first Get() on a file that opens with an ordinary  *)
(* character and no byte order mark returns that character, as the sanity  *)
(* tests of the sources expect: looking for the mark loses nothing.        *)
FirstPointKept ==
  ~first_ /\ ~StartsWithBOM /\ Decodable(1) /\ file[1] # CR =>
    out # << >> /\ out[1] = PointAt(1)

(* Valid UTF-8 that does not end in a carriage return, is not a lone byte  *)
(* order mark, and whose first character's encoding begins with EF only if *)
(* it is the byte order mark.                                              *)
WellFormed ==
  /\ \A i \in 1..Len(file) :
       /\ file[i] = EF => Decodable(i)
       /\ file[i] \in Trail => \E k \in 1..Len(file) : k \in {i - 1, i - 2} /\ file[k] = EF
  /\ Len(file) > 0 => file[Len(file)] # CR /\ (file[1] = EF => StartsWithBOM /\ Len(file) > 3)

(* BoolMeansGet: in a well-formed file, when operator bool is true, Get()  *)
(* returns a character.  The lexer's GetChar() relies on it.               *)
BoolMeansGet == WellFormed => status = "open"

(* The text that a file encodes: its code points, without the byte order   *)
(* mark at its beginning and without carriage returns.                     *)
PointsFrom[p \in 1..(Len(file) + 1)] ==
  IF ~Decodable(p) THEN << >>
  ELSE (IF file[p] = CR THEN << >> ELSE <<PointAt(p)>>) \o PointsFrom[p + Width(p)]

TextOf == PointsFrom[IF StartsWithBOM THEN 4 ELSE 1]

Stream == INSTANCE CharStream WITH
  Char <- Seq(Byte), NL <- <<NL>>,
  text <- TextOf, got <- out, more <- HasMore

(* ImplementsStream: a source delivers the text of a well-formed file,     *)
(* character by character, with the right location and a truthful          *)
(* operator bool.                                                          *)
ImplementsStream ==
  /\ WellFormed => Stream!Init
  /\ [][WellFormed => Stream!Deliver]_Stream!vars

(* Drained: a consumer that keeps calling Get() while operator bool holds  *)
(* reaches the end of the text of a well-formed file.                      *)
Drained == <>(WellFormed => ~HasMore /\ out = TextOf)

=============================================================================
