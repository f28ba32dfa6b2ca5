---------------------------- MODULE SourceProofs ----------------------------
(***************************************************************************)
(* For any set of files, of any length and any content: a source keeps its *)
(* types, its location is that of the code point it returned last, the     *)
(* line endings it detects are the file's, operator bool tells the truth,  *)
(* and all of it together is a CharStream of the text of the file.         *)
(***************************************************************************)
EXTENDS Source, TextProofs, SequenceTheorems, TLAPS

-----------------------------------------------------------------------------
(* What Get() takes out of the stream.                                     *)

LEMMA PointType ==
  ASSUME NEW q, Decodable(q), file \in Files
  PROVE  /\ q + Width(q) \in 1..(Len(file) + 1)
         /\ PointAt(q) \in Seq(Byte)
         /\ PointAt(q) = <<NL>> <=> file[q] = NL
<1>1. file \in Seq(Byte) /\ q \in 1..Len(file)
  BY FilesAssumption DEF Decodable
<1>2. CASE file[q] = EF
  <2>1. Width(q) = 3 /\ q + 2 <= Len(file)
    BY <1>2, BytesAssumption DEF Width, Decodable, Ascii
  <2>2. PointAt(q) \in Seq(Byte) /\ Len(PointAt(q)) = 3
    <3>1. q \in Int /\ q + 2 \in Int /\ \A i \in q..(q + 2) : file[i] \in Byte
      BY <1>1, <2>1
    <3>2. PointAt(q) = SubSeq(file, q, q + 2)
      BY <1>1, <2>1 DEF PointAt
    <3>3. /\ SubSeq(file, q, q + 2) \in Seq(Byte)
          /\ Len(SubSeq(file, q, q + 2)) = IF q <= q + 2 THEN q + 2 - q + 1 ELSE 0
      BY <3>1, SubSeqProperties, SMTT(60)
    <3>4. Len(SubSeq(file, q, q + 2)) = 3
      BY <1>1, <3>3
    <3> QED
      BY <3>2, <3>3, <3>4, Zenon
  <2>3. file[q] # NL
    BY <1>2, BytesAssumption
  <2> QED
    BY <1>1, <2>1, <2>2, <2>3
<1>3. CASE file[q] # EF
  <2>1. Width(q) = 1 /\ PointAt(q) = SubSeq(file, q, q)
    <3>1. Width(q) = 1
      BY <1>3 DEF Width
    <3>2. q + Width(q) - 1 = q
      BY <1>1, <3>1
    <3> QED
      BY <3>1, <3>2 DEF PointAt
  <2>2. PointAt(q) \in Seq(Byte) /\ Len(PointAt(q)) = 1 /\ PointAt(q)[1] = file[q]
    <3>1. q \in Int /\ \A i \in q..q : file[i] \in Byte
      BY <1>1
    <3>2. /\ SubSeq(file, q, q) \in Seq(Byte)
          /\ Len(SubSeq(file, q, q)) = IF q <= q THEN q - q + 1 ELSE 0
          /\ \A i \in 1..(q - q + 1) : SubSeq(file, q, q)[i] = file[q + i - 1]
      BY <3>1, SubSeqProperties, SMTT(60)
    <3>3. Len(SubSeq(file, q, q)) = 1 /\ SubSeq(file, q, q)[1] = file[q]
      BY <3>1, <3>2
    <3> QED
      BY <2>1, <3>2, <3>3, Zenon
  <2>3. PointAt(q) = <<PointAt(q)[1]>>
    BY <2>2
  <2>4. PointAt(q) = <<NL>> <=> PointAt(q)[1] = NL
    BY <2>3
  <2>5. q + Width(q) \in 1..(Len(file) + 1)
    BY <1>1, <2>1
  <2> QED
    BY <2>1, <2>2, <2>4, <2>5
<1> QED
  BY <1>2, <1>3

(* TypeCorrect: a source keeps its types, and however a file ends it never *)
(* reads past its end.                                                     *)
THEOREM TypeCorrect == Spec => []TypeOK
<1>1. Init => TypeOK
  <2> SUFFICES ASSUME Init
               PROVE  TypeOK
    OBVIOUS
  <2>1. pos \in 1..(Len(file) + 1)
    BY FilesAssumption DEF Init
  <2>2. out \in Seq(Seq(Byte))
    BY DEF Init
  <2>3. {first_, hasBOM_, gotNewLine_, foundFF_, foundNL_} \subseteq BOOLEAN
    BY DEF Init
  <2> QED
    BY <2>1, <2>2, <2>3 DEF Init, FirstLine, TypeOK
<1>2. TypeOK /\ [Next]_vars => TypeOK'
  <2> SUFFICES ASSUME TypeOK, [Next]_vars
               PROVE  TypeOK'
    OBVIOUS
  <2>1. CASE Get
    <3> DEFINE q == SkipCR(Start)
    <3>1. Decodable(q) /\ pos' = q + Width(q) /\ out' = Append(out, PointAt(q)) /\ file' = file
      BY <2>1 DEF Get, Prologue
    <3> HIDE DEF q
    <3>2. pos' \in 1..(Len(file') + 1) /\ out' \in Seq(Seq(Byte))
      BY <3>1, PointType DEF TypeOK
    <3>3. {first_', hasBOM_', gotNewLine_', foundFF_', foundNL_'} \subseteq BOOLEAN
      BY <2>1 DEF Get, Prologue, NextLine, NextCol, TypeOK
    <3>4. line' \in Nat \ {0} /\ col' \in Nat
      BY <2>1 DEF Get, Prologue, NextLine, NextCol, TypeOK
    <3> QED
      BY <2>1, <3>1, <3>2, <3>3, <3>4 DEF Get, TypeOK
  <2>2. CASE GetThrows
    <3>1. {first_', hasBOM_', gotNewLine_', foundFF_', foundNL_'} \subseteq BOOLEAN
      BY <2>2 DEF GetThrows, Prologue, NextLine, NextCol, TypeOK
    <3>2. line' \in Nat \ {0} /\ col' \in Nat
      BY <2>2 DEF GetThrows, Prologue, NextLine, NextCol, TypeOK
    <3> QED
      BY <2>2, <3>1, <3>2 DEF GetThrows, Prologue, TypeOK
  <2>3. CASE UNCHANGED vars
    BY <2>3 DEF vars, TypeOK
  <2> QED
    BY <2>1, <2>2, <2>3 DEF Next
<1> QED
  BY <1>1, <1>2, PTL DEF Spec

-----------------------------------------------------------------------------
(* PositionOK is not inductive: the next location depends on whether the   *)
(* last character ended its line, which Get() remembers in gotNewLine_.    *)

PositionInv ==
  status = "open" =>
    LET n == Len(out)
    IN  /\ gotNewLine_ = (out # << >> /\ out[n] = <<NL>>)
        /\ out = << >> => line = 1 /\ col = 0
        /\ out # << >> => /\ line = LineOf(out, <<NL>>, n)
                          /\ IsLastBreak(out, <<NL>>, n, n - col)

LEMMA PositionStep ==
  ASSUME TypeOK, PositionInv, Get
  PROVE  PositionInv'
<1> DEFINE q == SkipCR(Start)
           p == PointAt(q)
           n == Len(out)
           nl == <<NL>>
<1>1. Decodable(q) /\ out' = Append(out, p) /\ status = "open"
  BY DEF Get, Prologue
<1>2. /\ line' = IF gotNewLine_ THEN line + 1 ELSE line
      /\ col' = (IF gotNewLine_ THEN 0 ELSE col) + 1
      /\ gotNewLine_' <=> file[q] = NL
  BY DEF Get, Prologue, NextLine, NextCol
<1> HIDE DEF q
<1>3. p \in Seq(Byte) /\ (p = nl <=> file[q] = NL)
  BY <1>1, PointType DEF TypeOK
<1>4. out \in Seq(Seq(Byte)) /\ n \in Nat /\ line \in Nat /\ col \in Nat
  BY DEF TypeOK
<1>5. Len(out') = n + 1 /\ out' # << >> /\ out'[n + 1] = p
  BY <1>1, <1>3, <1>4
<1>6. gotNewLine_' <=> out'[n + 1] = nl
  BY <1>2, <1>3, <1>5
<1> HIDE DEF p, nl
<1>7. line' = LineOf(out', nl, n + 1) /\ IsLastBreak(out', nl, n + 1, n + 1 - col')
  <2>1. CASE out = << >>
    <3>0. ~gotNewLine_ /\ line = 1 /\ col = 0
      BY <1>1, <2>1 DEF PositionInv
    <3>1. n = 0 /\ line' = 1 /\ col' = 1
      BY <1>2, <2>1, <3>0
    <3>2. Breaks(out', nl, n + 1) = {}
      BY <3>1 DEF Breaks
    <3> QED
      BY <3>1, <3>2, FS_EmptySet DEF LineOf, IsLastBreak
  <2>2. CASE out # << >>
    <3>1. /\ gotNewLine_ <=> out[n] = nl
          /\ line = LineOf(out, nl, n)
          /\ IsLastBreak(out, nl, n, n - col)
      BY <1>1, <2>2 DEF PositionInv, nl
    <3>2. LineOf(out', nl, n + 1) = LineOf(out, nl, n) + (IF out[n] = nl THEN 1 ELSE 0)
      BY <1>1, <1>3, <1>4, <2>2, LineOfNext
    <3>3. IsLastBreak(out', nl, n + 1, IF out[n] = nl THEN n ELSE n - col)
      BY <1>1, <1>3, <1>4, <2>2, <3>1, LastBreakNext
    <3>4. line' = LineOf(out', nl, n + 1)
      BY <1>2, <1>4, <3>1, <3>2
    <3>5. (IF out[n] = nl THEN n ELSE n - col) = n + 1 - col'
      BY <1>2, <1>4, <3>1
    <3> QED
      BY <3>3, <3>4, <3>5
  <2> QED
    BY <2>1, <2>2
<1>8. Len(out') = n + 1 /\ out' # << >>
  BY <1>5
<1> HIDE DEF n
<1>9. line' = LineOf(out', nl, Len(out')) /\ IsLastBreak(out', nl, Len(out'), Len(out') - col')
  <2>1. n + 1 = Len(out') /\ n + 1 - col' = Len(out') - col'
    BY <1>2, <1>4, <1>8
  <2> QED
    BY <1>7, <2>1, Zenon
<1>10. gotNewLine_' <=> out'[Len(out')] = nl
  BY <1>6, <1>8
<1> QED
  BY <1>8, <1>9, <1>10 DEF PositionInv, nl

(* What makes it inductive holds after every Get().                        *)
LEMMA PositionInvariant == Spec => []PositionInv
<1>1. Init => PositionInv
  BY DEF Init, FirstLine, PositionInv
<1>2. TypeOK /\ PositionInv /\ [Next]_vars => PositionInv'
  <2>1. ASSUME PositionInv, GetThrows
        PROVE  PositionInv'
    BY <2>1 DEF GetThrows, PositionInv
  <2>2. ASSUME PositionInv, UNCHANGED vars
        PROVE  PositionInv'
    BY <2>2 DEF vars, PositionInv, LineOf, Breaks, IsLastBreak
  <2> QED
    BY <2>1, <2>2, PositionStep DEF Next
<1> QED
  BY <1>1, <1>2, TypeCorrect, PTL DEF Spec

(* PositionCorrect: after every Get() the location of the source is that   *)
(* of the code point returned, for files of any length.                    *)
THEOREM PositionCorrect == Spec => []PositionOK
<1>1. TypeOK /\ PositionInv => PositionOK
  <2> SUFFICES ASSUME TypeOK, PositionInv, status = "open", out # << >>
               PROVE  line = LineOf(out, <<NL>>, Len(out)) /\ col = ColOf(out, <<NL>>, Len(out))
    BY DEF PositionOK
  <2>1. Len(out) \in Nat \ {0} /\ col \in Nat
    BY DEF TypeOK
  <2>2. IsLastBreak(out, <<NL>>, Len(out), Len(out) - col)
    BY DEF PositionInv
  <2>3. LastBreak(out, <<NL>>, Len(out)) = Len(out) - col
    BY <2>1, <2>2, LastBreakUnique
  <2> QED
    BY <2>1, <2>3 DEF ColOf, PositionInv
<1> QED
  BY <1>1, PositionInvariant, TypeCorrect, PTL

-----------------------------------------------------------------------------
(* The bytes that one call goes through.                                   *)

(* SkipCR stops at the first byte that is no carriage return.              *)
LEMMA SkipCRStops ==
  ASSUME file \in Seq(Byte), NEW p \in 1..(Len(file) + 1)
  PROVE  /\ SkipCR(p) \in p..(Len(file) + 1)
         /\ \A i \in p..(SkipCR(p) - 1) : file[i] = CR
         /\ SkipCR(p) <= Len(file) => file[SkipCR(p)] # CR
<1> DEFINE T == {q \in p..(Len(file) + 1) : q <= Len(file) => file[q] # CR}
           Stop(q) == /\ \A i \in p..(q - 1) : file[i] = CR
                      /\ q <= Len(file) => file[q] # CR
<1>1. T \subseteq Nat /\ Len(file) + 1 \in T
  OBVIOUS
<1>2. PICK q \in T : \A m \in T : q <= m
  <2> HIDE DEF T
  <2> QED
    BY <1>1, Least
<1>3. \A i \in p..(q - 1) : i \notin T
  BY <1>2
<1>4. q \in p..(Len(file) + 1) /\ Stop(q)
  BY <1>2, <1>3
<1>5. SkipCR(p) = CHOOSE r \in p..(Len(file) + 1) : Stop(r)
  BY DEF SkipCR
<1> HIDE DEF Stop
<1>6. SkipCR(p) \in p..(Len(file) + 1) /\ Stop(SkipCR(p))
  BY <1>4, <1>5
<1> QED
  BY <1>6 DEF Stop

LEMMA MarkBytes ==
  ASSUME file \in Seq(Byte), StartsWithBOM
  PROVE  Len(file) >= 3 /\ file[1] = EF /\ file[2] = BB /\ file[3] = BF
<1> DEFINE s == SubSeq(file, 1, 3)
<1>1. Len(file) >= 3 /\ s = <<EF, BB, BF>>
  BY DEF StartsWithBOM
<1>2. s[1] = file[1] /\ s[2] = file[2] /\ s[3] = file[3]
  BY <1>1
<1> HIDE DEF s
<1>3. s[1] = EF /\ s[2] = BB /\ s[3] = BF
  BY <1>1
<1> QED
  BY <1>1, <1>2, <1>3

(* What the probe for the mark has taken for good is neither a carriage    *)
(* return nor a line end.                                                  *)
LEMMA StartSkips ==
  ASSUME TypeOK, first_ => pos = 1, pos <= Len(file)
  PROVE  /\ Start \in pos..(Len(file) + 1)
         /\ \A i \in pos..(Start - 1) : file[i] \in {EF} \union Trail
         /\ first_ /\ ~StartsWithBOM /\ file[1] # EF => Start = 1
<1>1. file \in Seq(Byte) /\ Len(file) \in Nat /\ pos \in 1..(Len(file) + 1) /\ first_ \in BOOLEAN
  BY FilesAssumption DEF TypeOK
<1>2. CASE ~first_
  <2>1. Start = pos
    BY <1>2 DEF Start
  <2> QED
    BY <1>1, <1>2, <2>1
<1>3. CASE first_ /\ StartsWithBOM
  <2>1. Len(file) >= 3
    BY <1>1, <1>3, MarkBytes
  <2>3. file[1] = EF /\ file[2] = BB /\ file[3] = BF
    BY <1>1, <1>3, MarkBytes
  <2>4. Start = 4
    BY <1>3, <2>1, <2>3 DEF Start, ProbeConsumed
  <2> QED
    BY <1>1, <1>3, <2>1, <2>3, <2>4 DEF Trail
<1>4. CASE first_ /\ ~StartsWithBOM
  <2>1. Start = IF file[1] = EF /\ Len(file) >= 2 THEN 2 ELSE 1
    BY <1>4 DEF Start, ProbeConsumed
  <2> QED
    BY <1>1, <1>4, <2>1
<1> QED
  BY <1>1, <1>2, <1>3, <1>4

-----------------------------------------------------------------------------
(* LineEndingsCorrect: the line endings detected at the end of a file, of  *)
(* any length and content, are those it has.                               *)

(* Of the bytes a..r - 1 of one call, those before p are the probe's,      *)
(* those from p to q - 1 carriage returns, and q begins the code point.    *)
Scanned(a, p, q, r) ==
  /\ a \in Nat \ {0} /\ p \in Nat \ {0} /\ q \in Nat /\ r \in Nat
  /\ a <= p /\ p <= q /\ q < r
  /\ \A i \in a..(p - 1) : file[i] \in {EF} \union Trail
  /\ \A i \in p..(q - 1) : file[i] = CR
  /\ file[q] # CR
  /\ \A i \in (q + 1)..(r - 1) : file[i] \in Trail

Before(n, ch) == \E i \in 1..(n - 1) : file[i] = ch

LEMMA ScanStep ==
  ASSUME NEW a, NEW p, NEW q, NEW r, Scanned(a, p, q, r)
  PROVE  /\ Before(r, CR) <=> Before(a, CR) \/ q # p
         /\ Before(r, NL) <=> Before(a, NL) \/ file[q] = NL
<1> USE DEF Scanned, Before
<1>1. CR \notin {EF} \union Trail /\ NL \notin {EF} \union Trail /\ CR # NL
  BY BytesAssumption DEF Trail
<1>2. \A i \in 1..(r - 1) :
        i \in 1..(a - 1) \/ i \in a..(p - 1) \/ i \in p..(q - 1) \/ i = q \/ i \in (q + 1)..(r - 1)
  OBVIOUS
<1>3. 1..(a - 1) \subseteq 1..(r - 1) /\ q \in 1..(r - 1)
  OBVIOUS
<1>4. ASSUME NEW i \in 1..(r - 1), file[i] = CR
      PROVE  i \in 1..(a - 1) \/ i \in p..(q - 1)
  BY <1>1, <1>2, <1>4
<1>5. ASSUME NEW i \in 1..(r - 1), file[i] = NL
      PROVE  i \in 1..(a - 1) \/ i = q
  BY <1>1, <1>2, <1>5
<1>6. p..(q - 1) # {} <=> q # p
  <2>1. q # p => p \in p..(q - 1)
    OBVIOUS
  <2> QED
    BY <2>1
<1>7. p..(q - 1) \subseteq 1..(r - 1)
  OBVIOUS
<1> QED
  BY <1>3, <1>4, <1>5, <1>6, <1>7

EndingsInv ==
  status = "open" =>
    /\ first_ => pos = 1
    /\ foundFF_ <=> Before(pos, CR)
    /\ foundNL_ <=> Before(pos, NL)

LEMMA EndingsStep ==
  ASSUME TypeOK, EndingsInv, Get
  PROVE  EndingsInv'
<1> DEFINE p == Start
           q == SkipCR(p)
<1>1. file \in Seq(Byte) /\ Len(file) \in Nat /\ pos \in 1..(Len(file) + 1)
  BY FilesAssumption DEF TypeOK
<1>2. /\ status = "open" /\ pos <= Len(file) /\ ~first_' /\ file' = file
      /\ Decodable(q) /\ pos' = q + Width(q)
      /\ foundFF_' <=> (foundFF_ \/ q # p)
      /\ foundNL_' <=> (foundNL_ \/ file[q] = NL)
  BY DEF Get, Prologue, HasMore
<1>3. p \in pos..(Len(file) + 1) /\ \A i \in pos..(p - 1) : file[i] \in {EF} \union Trail
  BY <1>2, StartSkips DEF EndingsInv
<1> HIDE DEF p
<1>4. /\ q \in p..(Len(file) + 1) /\ \A i \in p..(q - 1) : file[i] = CR
      /\ q <= Len(file) => file[q] # CR
  BY <1>1, <1>3, SkipCRStops
<1> HIDE DEF q
<1>5. q \in 1..Len(file) /\ file[q] # CR
  BY <1>2, <1>4 DEF Decodable
<1>6. \A i \in (q + 1)..(pos' - 1) : file[i] \in Trail
  <2>1. CASE file[q] = EF
    <3>1. pos' = q + 3 /\ file[q + 1] \in Trail /\ file[q + 2] \in Trail
      BY <1>2, <2>1, BytesAssumption DEF Width, Decodable, Ascii
    <3> QED
      BY <1>5, <3>1
  <2>2. CASE file[q] # EF
    BY <1>2, <1>5, <2>2 DEF Width
  <2> QED
    BY <2>1, <2>2
<1>7. pos' \in Nat /\ q < pos' /\ pos <= p /\ p <= q /\ p \in Nat \ {0}
  BY <1>1, <1>2, <1>3, <1>4, <1>5 DEF Width
<1>8. Scanned(pos, p, q, pos')
  <2>1. pos \in Nat \ {0} /\ q \in Nat /\ pos' \in Nat
    BY <1>1, <1>5, <1>7
  <2>2. \A i \in pos..(p - 1) : file[i] \in {EF} \union Trail
    BY <1>3
  <2>3. \A i \in p..(q - 1) : file[i] = CR
    BY <1>4
  <2> QED
    BY <1>5, <1>6, <1>7, <2>1, <2>2, <2>3, Zenon DEF Scanned
<1>9. /\ Before(pos', CR) <=> Before(pos, CR) \/ q # p
      /\ Before(pos', NL) <=> Before(pos, NL) \/ file[q] = NL
  BY <1>8, ScanStep
<1>11. Before(pos, CR)' <=> Before(pos, CR) \/ q # p
  BY <1>2, <1>9 DEF Before
<1>12. Before(pos, NL)' <=> Before(pos, NL) \/ file[q] = NL
  BY <1>2, <1>9 DEF Before
<1> QED
  BY <1>2, <1>11, <1>12 DEF EndingsInv

(* LineEndingsCorrect: at the end of any file the detected line endings    *)
(* are those that occur in it.                                             *)
THEOREM LineEndingsCorrect == Spec => []LineEndingsOK
<1>1. Init => EndingsInv
  BY DEF Init, EndingsInv, Before
<1>2. TypeOK /\ EndingsInv /\ [Next]_vars => EndingsInv'
  <2>1. ASSUME EndingsInv, GetThrows
        PROVE  EndingsInv'
    BY <2>1 DEF GetThrows, EndingsInv
  <2>2. ASSUME EndingsInv, UNCHANGED vars
        PROVE  EndingsInv'
    BY <2>2 DEF vars, EndingsInv, Before
  <2> QED
    BY <2>1, <2>2, EndingsStep DEF Next
<1>3. TypeOK /\ EndingsInv => LineEndingsOK
  <2> SUFFICES ASSUME TypeOK, EndingsInv, status = "open", ~HasMore, ~first_
               PROVE  LineEndingsOK
    BY DEF LineEndingsOK
  <2>1. pos - 1 = Len(file)
    BY FilesAssumption DEF TypeOK, HasMore
  <2> QED
    BY <2>1 DEF EndingsInv, Before, LineEndingsOK, detectedLineEndings
<1> QED
  BY <1>1, <1>2, <1>3, TypeCorrect, PTL DEF Spec

-----------------------------------------------------------------------------
(* BoolMeansGet: the stream position is always at the beginning of a code  *)
(* point, or of what the probe has to look at.                             *)

BoundaryInv ==
  WellFormed =>
    /\ status = "open"
    /\ first_ => pos = 1
    /\ pos <= Len(file) => file[pos] \notin Trail

(* In a well-formed file there is a code point behind carriage returns.    *)
LEMMA BoundaryDecodes ==
  ASSUME file \in Files, WellFormed, NEW p \in 1..Len(file), file[p] \notin Trail
  PROVE  Decodable(SkipCR(p)) /\ SkipCR(p) \in p..Len(file) /\ file[SkipCR(p)] # CR
<1> DEFINE q == SkipCR(p)
           n == Len(file)
<1>1. file \in Seq(Byte) /\ n \in Nat
  BY FilesAssumption
<1>2. file[n] # CR
  BY <1>1 DEF WellFormed
<1>5. /\ q \in p..(n + 1) /\ \A i \in p..(q - 1) : file[i] = CR
      /\ q <= n => file[q] # CR
  BY <1>1, SkipCRStops
<1> HIDE DEF q
<1>6. q \in 1..n /\ q \in p..n
  <2>1. q # n + 1
    BY <1>1, <1>2, <1>5
  <2> QED
    BY <1>1, <1>5, <2>1
<1>7. file[q] \notin Trail
  <2> SUFFICES ASSUME file[q] \in Trail
               PROVE  FALSE
    OBVIOUS
  <2>1. q # p
    OBVIOUS
  <2>2. file[q - 1] = CR
    BY <1>5, <2>1
  <2>3. PICK k \in 1..n : k \in {q - 1, q - 2} /\ file[k] = EF
    BY <1>6 DEF WellFormed
  <2>4. k = q - 2
    BY <2>2, <2>3, BytesAssumption
  <2>5. Decodable(k)
    BY <2>3 DEF WellFormed
  <2>6. file[k + 1] \in Trail
    BY <2>3, <2>5, BytesAssumption DEF Decodable, Ascii
  <2>7. k + 1 = q - 1
    BY <1>6, <2>4
  <2> QED
    BY <2>2, <2>6, <2>7, BytesAssumption DEF Trail
<1>8. file[q] = EF \/ file[q] \in Ascii
  BY <1>1, <1>6, <1>7 DEF Byte
<1>9. Decodable(q)
  BY <1>6, <1>8 DEF Decodable, WellFormed
<1> QED
  BY <1>5, <1>6, <1>9 DEF q

(* The text that is left to decode starts here.                            *)
Rest == IF ~first_ THEN pos ELSE IF StartsWithBOM THEN 4 ELSE 1

LEMMA BoundaryStart ==
  ASSUME TypeOK, BoundaryInv, WellFormed, HasMore
  PROVE  Start = Rest /\ Rest \in 1..Len(file) /\ file[Rest] \notin Trail
<1> DEFINE p == Start
           n == Len(file)
<1>1. file \in Seq(Byte) /\ n \in Nat /\ pos \in 1..n
  BY FilesAssumption DEF TypeOK, HasMore
<1>2. file[1] = EF => StartsWithBOM /\ n > 3
  BY <1>1 DEF WellFormed
<1>3. first_ /\ ~StartsWithBOM /\ file[1] # EF => p = 1
  BY <1>1, StartSkips DEF BoundaryInv
<1>4. CASE ~first_
  <2>1. p = pos /\ Rest = pos
    BY <1>4 DEF Start, Rest
  <2> QED
    BY <1>1, <2>1 DEF BoundaryInv
<1>5. CASE first_ /\ StartsWithBOM
  <2>1. n >= 3
    BY <1>1, <1>5, MarkBytes
  <2>2. file[1] = EF /\ file[2] = BB /\ file[3] = BF
    BY <1>1, <1>5, MarkBytes
  <2>3. p = 4 /\ n > 3 /\ Rest = 4
    BY <1>2, <1>5, <2>1, <2>2 DEF Start, ProbeConsumed, Rest
  <2>4. file[2] # EF /\ file[3] # EF
    BY <2>2, BytesAssumption
  <2> QED
    BY <1>1, <2>3, <2>4 DEF WellFormed
<1>6. CASE first_ /\ ~StartsWithBOM
  <2>1. p = 1 /\ Rest = 1
    BY <1>2, <1>3, <1>6 DEF Rest
  <2> QED
    BY <1>1, <1>6, <2>1 DEF BoundaryInv
<1> QED
  BY <1>4, <1>5, <1>6 DEF TypeOK

(* In a well-formed file there is something to decode at q.                *)
LEMMA BoundaryGet ==
  ASSUME TypeOK, BoundaryInv, WellFormed, Prologue
  PROVE  Decodable(SkipCR(Start))
<1>1. Start \in 1..Len(file) /\ file[Start] \notin Trail /\ file \in Files
  BY BoundaryStart DEF Prologue, TypeOK
<1> QED
  BY <1>1, BoundaryDecodes

(* A code point is followed by the beginning of another one.               *)
LEMMA BoundaryNext ==
  ASSUME file \in Files, WellFormed, NEW q, Decodable(q), q + Width(q) <= Len(file)
  PROVE  file[q + Width(q)] \notin Trail
<1> DEFINE r == q + Width(q)
<1>1. file \in Seq(Byte) /\ q \in 1..Len(file)
  BY FilesAssumption DEF Decodable
<1> SUFFICES ASSUME file[r] \in Trail
             PROVE  FALSE
  OBVIOUS
<1>2. r \in 1..Len(file)
  BY <1>1 DEF Width
<1>3. PICK k \in 1..Len(file) : k \in {r - 1, r - 2} /\ file[k] = EF
  BY <1>2 DEF WellFormed
<1>4. CASE file[q] = EF
  <2>1. r = q + 3 /\ file[q + 1] \in Trail /\ file[q + 2] \in Trail
    BY <1>1, <1>4, BytesAssumption DEF Width, Decodable, Ascii
  <2> QED
    BY <1>1, <1>3, <2>1, BytesAssumption DEF Trail
<1>5. CASE file[q] # EF
  <2>1. r = q + 1 /\ file[q] \in Ascii
    BY <1>5 DEF Width, Decodable
  <2>2. k = q - 1
    BY <1>1, <1>3, <1>5, <2>1
  <2>3. Decodable(k) /\ k + 1 = q
    BY <1>1, <1>3, <2>2 DEF WellFormed
  <2>4. file[q] \in Trail
    BY <1>3, <2>3, BytesAssumption DEF Decodable, Ascii
  <2> QED
    BY <2>1, <2>4, BytesAssumption DEF Ascii, Trail
<1> QED
  BY <1>4, <1>5

(* Every Get() leaves the stream at such a place.                          *)
LEMMA BoundaryInvariant == Spec => []BoundaryInv
<1>1. Init => BoundaryInv
  <2> SUFFICES ASSUME Init, WellFormed, Len(file) >= 1
               PROVE  file[1] \notin Trail
    BY DEF Init, BoundaryInv
  <2>1. file \in Seq(Byte)
    BY FilesAssumption DEF Init
  <2> QED
    BY <2>1 DEF WellFormed
<1>2. TypeOK /\ BoundaryInv /\ [Next]_vars => BoundaryInv'
  <2> SUFFICES ASSUME TypeOK, BoundaryInv, [Next]_vars
               PROVE  BoundaryInv'
    OBVIOUS
  <2>1. file' = file
    BY DEF Next, Get, GetThrows, Prologue, vars
  <2>2. WellFormed' <=> WellFormed
    BY <2>1 DEF WellFormed, Decodable, StartsWithBOM
  <2> SUFFICES ASSUME WellFormed
               PROVE  BoundaryInv'
    BY <2>2 DEF BoundaryInv
  <2>3. CASE Get
    <3> DEFINE q == SkipCR(Start)
    <3>1. Decodable(q) /\ pos' = q + Width(q) /\ ~first_' /\ status' = "open"
      BY <2>3 DEF Get, Prologue
    <3> HIDE DEF q
    <3>2. pos' <= Len(file) => file[pos'] \notin Trail
      BY <3>1, BoundaryNext DEF TypeOK
    <3> QED
      BY <2>1, <3>1, <3>2 DEF BoundaryInv
  <2>4. CASE GetThrows
    BY <2>4, BoundaryGet DEF GetThrows
  <2>5. CASE UNCHANGED vars
    BY <2>5, <2>2 DEF vars, BoundaryInv
  <2> QED
    BY <2>3, <2>4, <2>5 DEF Next
<1> QED
  BY <1>1, <1>2, TypeCorrect, PTL DEF Spec

(* BoolCorrect: on a well-formed file of any length, a source that says it *)
(* has more never throws.                                                  *)
THEOREM BoolCorrect == Spec => []BoolMeansGet
<1>1. BoundaryInv => BoolMeansGet
  BY DEF BoundaryInv, BoolMeansGet
<1> QED
  BY <1>1, BoundaryInvariant, PTL

-----------------------------------------------------------------------------
(* The text of a file.  PointsFrom is the function that satisfies its      *)
(* equation: there is one, defined from the end of the file backwards.     *)

Points == Seq(Seq(Byte))

Unfolded(f, p) ==
  IF ~Decodable(p) THEN << >>
  ELSE (IF file[p] = CR THEN << >> ELSE <<PointAt(p)>>) \o f[p + Width(p)]

LEMMA UnfoldedType ==
  ASSUME file \in Files, NEW p \in 1..(Len(file) + 1), NEW f,
         \A r \in (p + 1)..(Len(file) + 1) : f[r] \in Points
  PROVE  Unfolded(f, p) \in Points
<1>1. CASE ~Decodable(p)
  BY <1>1 DEF Unfolded, Points
<1>2. CASE Decodable(p)
  <2>1. p + Width(p) \in (p + 1)..(Len(file) + 1) /\ PointAt(p) \in Seq(Byte)
    BY <1>2, PointType, FilesAssumption DEF Width
  <2>2. (IF file[p] = CR THEN << >> ELSE <<PointAt(p)>>) \in Points
    BY <2>1 DEF Points
  <2>3. f[p + Width(p)] \in Points
    BY <2>1
  <2> QED
    BY <1>2, <2>2, <2>3 DEF Unfolded, Points
<1> QED
  BY <1>1, <1>2

LEMMA UnfoldedSame ==
  ASSUME file \in Files, NEW p \in 1..(Len(file) + 1), NEW f, NEW g,
         \A r \in (p + 1)..(Len(file) + 1) : f[r] = g[r]
  PROVE  Unfolded(f, p) = Unfolded(g, p)
<1>1. CASE ~Decodable(p)
  BY <1>1 DEF Unfolded
<1>2. CASE Decodable(p)
  <2>1. p + Width(p) \in (p + 1)..(Len(file) + 1)
    BY <1>2, PointType, FilesAssumption DEF Width
  <2>2. f[p + Width(p)] = g[p + Width(p)]
    BY <2>1
  <2> QED
    BY <2>2 DEF Unfolded
<1> QED
  BY <1>1, <1>2

LEMMA PointsExist ==
  ASSUME file \in Files
  PROVE  \E f : f = [p \in 1..(Len(file) + 1) |-> Unfolded(f, p)]
<1> DEFINE N == Len(file)
           From(m, f) == /\ f \in [(N + 1 - m)..(N + 1) -> Points]
                         /\ \A p \in (N + 1 - m)..(N + 1) : f[p] = Unfolded(f, p)
           S == {m \in 0..N : \E f : From(m, f)}
<1>1. N \in Nat
  BY FilesAssumption
<1>2. 0 \in S
  <2> DEFINE f == [p \in (N + 1)..(N + 1) |-> << >>]
  <2>1. f \in [(N + 1 - 0)..(N + 1) -> Points] /\ f[N + 1] = << >>
    BY <1>1 DEF Points
  <2>2. ~Decodable(N + 1)
    BY <1>1 DEF Decodable
  <2> HIDE DEF f
  <2>3. From(0, f)
    BY <1>1, <2>1, <2>2 DEF Unfolded
  <2> QED
    BY <1>1, <2>3
<1>3. ASSUME NEW m \in 1..N, m - 1 \in S
      PROVE  m \in S
  <2>1. PICK f : From(m - 1, f)
    BY <1>3
  <2>2. PICK a : a = N + 1 - m
    OBVIOUS
  <2>3. a \in 1..N /\ N + 1 - (m - 1) = a + 1
    BY <1>1, <2>2
  <2>4. f \in [(a + 1)..(N + 1) -> Points] /\ \A p \in (a + 1)..(N + 1) : f[p] = Unfolded(f, p)
    BY <2>1, <2>3
  <2> DEFINE g == [p \in a..(N + 1) |-> IF p = a THEN Unfolded(f, a) ELSE f[p]]
  <2>5. Unfolded(f, a) \in Points
    BY <1>1, <2>3, <2>4, UnfoldedType
  <2>6. g \in [a..(N + 1) -> Points] /\ \A p \in (a + 1)..(N + 1) : g[p] = f[p]
    BY <1>1, <2>3, <2>4, <2>5
  <2>7. g[a] = Unfolded(f, a)
    BY <1>1, <2>3
  <2> HIDE DEF g
  <2>8. ASSUME NEW p \in a..(N + 1)
        PROVE  g[p] = Unfolded(g, p)
    <3>1. \A r \in (p + 1)..(N + 1) : f[r] = g[r]
      BY <1>1, <2>3, <2>6
    <3>2. Unfolded(f, p) = Unfolded(g, p)
      BY <1>1, <2>3, <3>1, UnfoldedSame
    <3> QED
      BY <1>1, <2>3, <2>4, <2>6, <2>7, <3>2
  <2>9. From(m, g)
    BY <2>2, <2>6, <2>8
  <2> QED
    BY <2>9
<1> HIDE DEF S
<1>4. N \in S
  <2>1. 0..N \subseteq S
    BY <1>1, <1>2, <1>3, UpTo
  <2> QED
    BY <1>1, <2>1
<1>5. PICK f : From(N, f)
  BY <1>4 DEF S
<1>6. N + 1 - N = 1
  BY <1>1
<1>7. f = [p \in 1..(N + 1) |-> Unfolded(f, p)]
  BY <1>5, <1>6
<1> QED
  BY <1>7

LEMMA PointsUnfold ==
  ASSUME file \in Files, NEW p \in 1..(Len(file) + 1)
  PROVE  PointsFrom[p] = Unfolded(PointsFrom, p) /\ PointsFrom[p] \in Points
<1> DEFINE N == Len(file)
           Is(f) == f = [r \in 1..(N + 1) |-> Unfolded(f, r)]
<1>1. PointsFrom = CHOOSE f : Is(f)
  BY DEF PointsFrom, Unfolded
<1>2. Is(PointsFrom)
  <2>1. \E f : Is(f)
    BY PointsExist
  <2> HIDE DEF Is
  <2> QED
    BY <1>1, <2>1
<1>3. \A r \in 1..(N + 1) : PointsFrom[r] = Unfolded(PointsFrom, r)
  BY <1>2
<1> DEFINE S == {m \in 0..N : \A r \in (N + 1 - m)..(N + 1) : PointsFrom[r] \in Points}
<1>4. N \in Nat
  BY FilesAssumption
<1>5. 0 \in S
  <2>1. ~Decodable(N + 1)
    BY <1>4 DEF Decodable
  <2>2. N + 1 \in 1..(N + 1)
    BY <1>4
  <2>3. PointsFrom[N + 1] = << >>
    BY <1>3, <2>1, <2>2 DEF Unfolded
  <2>4. << >> \in Points
    BY DEF Points
  <2>5. PointsFrom[N + 1] \in Points
    BY <2>3, <2>4
  <2> QED
    BY <1>4, <2>5
<1>6. ASSUME NEW m \in 1..N, m - 1 \in S
      PROVE  m \in S
  <2>1. PICK a : a = N + 1 - m
    OBVIOUS
  <2>2. a \in 1..N /\ N + 1 - (m - 1) = a + 1
    BY <1>4, <2>1
  <2>3. \A r \in (a + 1)..(N + 1) : PointsFrom[r] \in Points
    BY <1>6, <2>2
  <2>4. PointsFrom[a] \in Points
    BY <1>3, <1>4, <2>2, <2>3, UnfoldedType
  <2> QED
    BY <1>4, <2>1, <2>2, <2>3, <2>4
<1> HIDE DEF S
<1>7. N \in S
  <2>1. 0..N \subseteq S
    BY <1>4, <1>5, <1>6, UpTo
  <2> QED
    BY <1>4, <2>1
<1>8. PointsFrom[p] \in Points
  BY <1>4, <1>7 DEF S
<1> QED
  BY <1>3, <1>8

(* Carriage returns are no part of the text.                               *)
LEMMA PointsSkip ==
  ASSUME file \in Files, NEW p \in 1..(Len(file) + 1), NEW q \in p..(Len(file) + 1),
         \A i \in p..(q - 1) : file[i] = CR
  PROVE  PointsFrom[p] = PointsFrom[q]
<1> DEFINE S == {m \in 0..(q - p) : PointsFrom[q - m] = PointsFrom[q]}
<1>1. Len(file) \in Nat /\ q - p \in Nat
  BY FilesAssumption
<1>2. 0 \in S
  BY <1>1
<1>3. ASSUME NEW m \in 1..(q - p), m - 1 \in S
      PROVE  m \in S
  <2>1. PICK r : r = q - m
    OBVIOUS
  <2>2. r \in p..(q - 1) /\ r \in 1..Len(file) /\ q - (m - 1) = r + 1 /\ r + 1 \in 1..(Len(file) + 1)
    BY <1>1, <2>1
  <2>3. file[r] = CR /\ Decodable(r) /\ Width(r) = 1
    BY <2>2, BytesAssumption DEF Decodable, Ascii, Width
  <2>4. PointsFrom[r] = << >> \o PointsFrom[r + 1] /\ PointsFrom[r + 1] \in Points
    <3>1. r \in 1..(Len(file) + 1)
      BY <1>1, <2>2
    <3>2. PointsFrom[r] = Unfolded(PointsFrom, r) /\ PointsFrom[r + 1] \in Points
      BY <2>2, <3>1, PointsUnfold
    <3>3. Unfolded(PointsFrom, r) = << >> \o PointsFrom[r + 1]
      BY <2>3 DEF Unfolded
    <3> QED
      BY <3>2, <3>3
  <2>5. PointsFrom[r] = PointsFrom[r + 1]
    BY <2>4 DEF Points
  <2>6. PointsFrom[r + 1] = PointsFrom[q]
    BY <1>3, <2>2
  <2> QED
    BY <1>1, <2>1, <2>5, <2>6
<1> HIDE DEF S
<1>4. q - p \in S
  <2>1. 0..(q - p) \subseteq S
    BY <1>1, <1>2, <1>3, UpTo
  <2> QED
    BY <1>1, <2>1
<1>5. q - (q - p) = p
  BY <1>1
<1> QED
  BY <1>4, <1>5 DEF S

(* What is decoded next heads the rest of the text.                        *)
LEMMA PointsHead ==
  ASSUME file \in Files, WellFormed, NEW p \in 1..Len(file), file[p] \notin Trail,
         NEW q, q = SkipCR(p)
  PROVE  /\ PointsFrom[p] = <<PointAt(q)>> \o PointsFrom[q + Width(q)]
         /\ PointAt(q) \in Seq(Byte) /\ PointsFrom[q + Width(q)] \in Points
<1>1. file \in Seq(Byte) /\ p \in 1..(Len(file) + 1)
  BY FilesAssumption
<1>2. Decodable(q) /\ q \in p..Len(file) /\ file[q] # CR
  BY BoundaryDecodes
<1>3. \A i \in p..(q - 1) : file[i] = CR
  BY <1>1, SkipCRStops
<1>4. PointsFrom[p] = PointsFrom[q]
  BY <1>1, <1>2, <1>3, PointsSkip
<1>5. q + Width(q) \in 1..(Len(file) + 1) /\ PointAt(q) \in Seq(Byte)
  BY <1>2, PointType
<1>6. PointsFrom[q + Width(q)] \in Points
  BY <1>5, PointsUnfold
<1>7. PointsFrom[q] = <<PointAt(q)>> \o PointsFrom[q + Width(q)]
  <2>1. q \in 1..(Len(file) + 1)
    BY <1>1, <1>2
  <2>2. PointsFrom[q] = Unfolded(PointsFrom, q)
    BY <2>1, PointsUnfold
  <2>3. Unfolded(PointsFrom, q) = <<PointAt(q)>> \o PointsFrom[q + Width(q)]
    BY <1>2 DEF Unfolded
  <2> QED
    BY <2>2, <2>3
<1> QED
  BY <1>4, <1>5, <1>6, <1>7

(* The rest of the text is empty when there are no more bytes.             *)
LEMMA PointsMore ==
  ASSUME file \in Files, WellFormed, NEW p \in 1..(Len(file) + 1), p <= Len(file) => file[p] \notin Trail
  PROVE  p <= Len(file) <=> PointsFrom[p] # << >>
<1>1. CASE p <= Len(file)
  <2>1. p \in 1..Len(file)
    BY <1>1
  <2>2. PICK h, t : PointsFrom[p] = <<h>> \o t /\ h \in Seq(Byte) /\ t \in Points
    <3>1. PICK q : q = SkipCR(p)
      OBVIOUS
    <3>2. /\ PointsFrom[p] = <<PointAt(q)>> \o PointsFrom[q + Width(q)]
          /\ PointAt(q) \in Seq(Byte) /\ PointsFrom[q + Width(q)] \in Points
      BY <1>1, <2>1, <3>1, PointsHead
    <3> QED
      BY <3>2
  <2>3. Len(PointsFrom[p]) = 1 + Len(t) /\ Len(t) \in Nat
    BY <2>2 DEF Points
  <2> QED
    BY <1>1, <2>3
<1>2. CASE ~(p <= Len(file))
  <2>1. ~Decodable(p)
    BY <1>2 DEF Decodable
  <2> QED
    BY <1>2, <2>1, PointsUnfold DEF Unfolded
<1> QED
  BY <1>1, <1>2

(* A file and its text do not change.                                      *)
LEMMA SameText ==
  ASSUME file' = file
  PROVE  TextOf' = TextOf /\ PointsFrom' = PointsFrom /\ WellFormed' = WellFormed
<1>1. PointsFrom' = PointsFrom
  BY DEF PointsFrom, Decodable, PointAt, Width
<1>2. StartsWithBOM' = StartsWithBOM
  BY DEF StartsWithBOM
<1>3. TextOf' = TextOf
  BY <1>1, <1>2 DEF TextOf
<1> QED
  BY <1>1, <1>3 DEF WellFormed, Decodable, StartsWithBOM

(* ImplementsStream is not inductive: the text of the file is what was     *)
(* returned followed by what is left to decode.                            *)
StreamInv == WellFormed => TextOf = out \o PointsFrom[Rest]

(* A text with the character h between those returned and the rest.        *)
LEMMA NextOf ==
  ASSUME NEW S, NEW o \in Seq(S), NEW h \in S, NEW r \in Seq(S), NEW t, t = o \o (<<h>> \o r)
  PROVE  /\ t = Append(o, h) \o r
         /\ Len(t) = Len(o) + 1 + Len(r) /\ t[Len(o) + 1] = h
         /\ \A j \in 1..Len(o) : t[j] = Append(o, h)[j]
<1>1. PICK oh : oh = Append(o, h)
  OBVIOUS
<1>2. t = (o \o <<h>>) \o r /\ oh = o \o <<h>>
  <2>1. <<h>> \in Seq(S)
    OBVIOUS
  <2> QED
    BY <1>1, <2>1, ConcatAssociative, AppendIsConcat
<1>3. /\ oh \in Seq(S) /\ Len(oh) = Len(o) + 1 /\ oh[Len(o) + 1] = h /\ \A i \in 1..Len(o) : oh[i] = o[i]
  BY <1>1, AppendProperties
<1>4. /\ Len(oh \o r) = Len(oh) + Len(r)
      /\ \A i \in 1..(Len(oh) + Len(r)) : (oh \o r)[i] = IF i <= Len(oh) THEN oh[i] ELSE r[i - Len(oh)]
  BY <1>3, ConcatProperties
<1>5. t = oh \o r
  BY <1>2
<1>6. Len(o) \in Nat /\ Len(r) \in Nat
  OBVIOUS
<1>7. \A i \in 1..(Len(o) + 1) : t[i] = oh[i]
  BY <1>3, <1>4, <1>5, <1>6
<1>8. t[Len(o) + 1] = h
  BY <1>3, <1>6, <1>7
<1>9. \A j \in 1..Len(o) : t[j] = oh[j]
  BY <1>6, <1>7
<1> QED
  BY <1>1, <1>3, <1>4, <1>5, <1>8, <1>9

LEMMA NextPoint ==
  ASSUME NEW o \in Points, NEW h \in Seq(Byte), NEW r \in Points, NEW x, x = o \o (<<h>> \o r)
  PROVE  /\ x = Append(o, h) \o r
         /\ Len(x) = Len(o) + 1 + Len(r) /\ x[Len(o) + 1] = h
         /\ \A j \in 1..Len(o) : x[j] = Append(o, h)[j]
<1>1. PICK S : S = Seq(Byte)
  OBVIOUS
<1>2. o \in Seq(S) /\ h \in S /\ r \in Seq(S)
  BY <1>1 DEF Points
<1> QED
  BY <1>2, NextOf

(* The location of a character depends on those before it.                 *)
LEMMA SamePosition ==
  ASSUME NEW s, NEW x, NEW nl, NEW m \in Nat \ {0}, NEW c \in Nat,
         \A j \in 1..(m - 1) : s[j] = x[j], IsLastBreak(x, nl, m, m - c)
  PROVE  LineOf(s, nl, m) = LineOf(x, nl, m) /\ ColOf(s, nl, m) = c
<1>1. Breaks(s, nl, m) = Breaks(x, nl, m)
  BY DEF Breaks
<1>2. IsLastBreak(s, nl, m, m - c)
  BY DEF IsLastBreak
<1>3. LastBreak(s, nl, m) = m - c
  BY <1>2, LastBreakUnique
<1> QED
  BY <1>1, <1>3 DEF LineOf, ColOf

(* One step of the abstract stream.                                        *)
LEMMA Delivers ==
  ASSUME NEW m, m = Len(out) + 1, m <= Len(TextOf), out' = Append(out, TextOf[m]),
         line' = LineOf(TextOf, <<NL>>, m), col' = ColOf(TextOf, <<NL>>, m),
         HasMore' = (m < Len(TextOf)), TextOf' = TextOf
  PROVE  Stream!Deliver
<1>1. Stream!LineOf(TextOf, <<NL>>, m) = LineOf(TextOf, <<NL>>, m)
  <2>1. Stream!Breaks(TextOf, <<NL>>, m) = Breaks(TextOf, <<NL>>, m)
    BY DEF Stream!Breaks, Breaks
  <2>2. \A S : Stream!Cardinality(S) = Cardinality(S)
    BY DEF Stream!Cardinality, Cardinality, Stream!IsFiniteSet, IsFiniteSet
  <2> QED
    BY <2>1, <2>2 DEF Stream!LineOf, LineOf
<1>2. Stream!ColOf(TextOf, <<NL>>, m) = ColOf(TextOf, <<NL>>, m)
  BY DEF Stream!ColOf, ColOf, Stream!LastBreak, LastBreak, Stream!IsLastBreak, IsLastBreak
<1>3. line' = Stream!LineOf(TextOf, <<NL>>, m) /\ col' = Stream!ColOf(TextOf, <<NL>>, m)
  BY <1>1, <1>2
<1> QED
  BY <1>3 DEF Stream!Deliver

(* Get() delivers the next character of the text.                          *)
LEMMA StreamGet ==
  ASSUME TypeOK, TypeOK', BoundaryInv, StreamInv, PositionInv', WellFormed, Get
  PROVE  StreamInv' /\ Stream!Deliver
<1> DEFINE q == SkipCR(Start)
           h == PointAt(q)
           r == q + Width(q)
           t == PointsFrom[r]
           n == Len(out)
           nl == <<NL>>
<1>1. /\ Prologue /\ file' = file /\ pos' = r /\ ~first_' /\ out' = Append(out, h) /\ status' = "open"
      /\ HasMore /\ file \in Files /\ Decodable(q)
  BY DEF Get, Prologue, TypeOK
<1>2. Start = Rest /\ Rest \in 1..Len(file) /\ file[Rest] \notin Trail
  BY <1>1, BoundaryStart
<1>3. PointsFrom[Rest] = <<h>> \o t /\ h \in Seq(Byte) /\ t \in Points
  BY <1>1, <1>2, PointsHead
<1>4. r \in 1..(Len(file) + 1) /\ (r <= Len(file) => file[r] \notin Trail)
  BY <1>1, PointType, BoundaryNext
<1>5. r <= Len(file) <=> t # << >>
  BY <1>1, <1>4, PointsMore
<1> HIDE DEF q, r, t, h
<1>6. out \in Points /\ n \in Nat /\ TextOf = out \o (<<h>> \o t)
  <2>1. out \in Points
    BY DEF TypeOK, Points
  <2>2. n \in Nat
    BY <2>1 DEF Points
  <2>3. TextOf = out \o PointsFrom[Rest]
    BY DEF StreamInv
  <2> QED
    BY <1>3, <2>1, <2>2, <2>3
<1>7. /\ TextOf = Append(out, h) \o t
      /\ Len(TextOf) = n + 1 + Len(t) /\ TextOf[n + 1] = h
      /\ \A j \in 1..n : TextOf[j] = Append(out, h)[j]
  <2> HIDE DEF n
  <2>1. PICK x : x = TextOf
    OBVIOUS
  <2>2. x = out \o (<<h>> \o t)
    BY <1>6, <2>1
  <2>3. /\ x = Append(out, h) \o t
        /\ Len(x) = Len(out) + 1 + Len(t) /\ x[Len(out) + 1] = h
        /\ \A j \in 1..Len(out) : x[j] = Append(out, h)[j]
    <3> HIDE <2>1
    <3> QED
      BY <1>3, <1>6, <2>2, NextPoint
  <2> QED
    BY <2>1, <2>3 DEF n
<1>8. TextOf' = TextOf /\ PointsFrom' = PointsFrom
  BY <1>1, SameText
<1>9. StreamInv'
  <2>1. Rest' = r
    BY <1>1 DEF Rest
  <2>2. TextOf' = out' \o (PointsFrom')[Rest']
    BY <1>1, <1>7, <1>8, <2>1 DEF t
  <2> QED
    BY <2>2 DEF StreamInv
<1>10. Len(t) \in Nat /\ (t # << >> <=> Len(t) > 0)
  BY <1>3 DEF Points
<1>11. HasMore' = (n + 1 < Len(TextOf))
  <2>1. HasMore' <=> r <= Len(file)
    BY <1>1 DEF HasMore
  <2>2. HasMore' <=> n + 1 < Len(TextOf)
    BY <1>5, <1>6, <1>7, <1>10, <2>1
  <2>3. HasMore' \in BOOLEAN /\ (n + 1 < Len(TextOf)) \in BOOLEAN
    BY DEF HasMore
  <2> QED
    BY <2>2, <2>3
<1> HIDE DEF nl
<1>12. line' = LineOf(TextOf, nl, n + 1) /\ col' = ColOf(TextOf, nl, n + 1)
  <2>1. out' # << >> /\ Len(out') = n + 1
    BY <1>1, <1>3, <1>6 DEF Points
  <2> HIDE DEF n
  <2>2. PICK m : m = n + 1
    OBVIOUS
  <2>3. m = Len(out') /\ m \in Nat \ {0} /\ col' \in Nat /\ m - 1 = n
    BY <1>6, <2>1, <2>2 DEF TypeOK
  <2>4. line' = LineOf(out', nl, m) /\ IsLastBreak(out', nl, m, m - col')
    <3>1. line' = LineOf(out', nl, Len(out')) /\ IsLastBreak(out', nl, Len(out'), Len(out') - col')
      BY <1>1, <2>1 DEF PositionInv, nl
    <3>2. m - col' = Len(out') - col'
      BY <2>3
    <3> QED
      BY <2>3, <3>1, <3>2, Zenon
  <2>5. \A j \in 1..(m - 1) : TextOf[j] = out'[j]
    BY <1>1, <1>7, <2>3
  <2>6. LineOf(TextOf, nl, m) = LineOf(out', nl, m) /\ ColOf(TextOf, nl, m) = col'
    BY <2>3, <2>4, <2>5, SamePosition
  <2> QED
    BY <2>2, <2>4, <2>6
<1>13. n + 1 <= Len(TextOf)
  BY <1>6, <1>7, <1>10
<1>14. out' = Append(out, TextOf[n + 1])
  BY <1>1, <1>7
<1>15. PICK m : m = n + 1
  OBVIOUS
<1>16. Stream!Deliver
  <2>1. m = Len(out) + 1
    BY <1>15
  <2> HIDE DEF n
  <2> QED
    BY <1>8, <1>11, <1>12, <1>13, <1>14, <1>15, <2>1, Delivers DEF nl
<1> QED
  BY <1>9, <1>16

(* At the beginning all of the text is left to decode.                     *)
LEMMA StreamInit ==
  ASSUME Init
  PROVE  StreamInv /\ (WellFormed => Stream!Init)
<1>1. file \in Files /\ file \in Seq(Byte) /\ Len(file) \in Nat /\ first_ /\ out = << >>
  BY FilesAssumption DEF Init
<1> SUFFICES ASSUME WellFormed
             PROVE  StreamInv /\ Stream!Init
  BY DEF StreamInv
<1>2. TextOf = PointsFrom[Rest]
  BY <1>1 DEF TextOf, Rest
<1>3. Rest \in 1..(Len(file) + 1)
  BY <1>1, MarkBytes DEF Rest
<1>4. TextOf \in Points
  BY <1>1, <1>2, <1>3, PointsUnfold
<1>5. StreamInv
  BY <1>1, <1>2, <1>4 DEF StreamInv, Points
<1>6. HasMore <=> Rest <= Len(file)
  <2>1. HasMore <=> 1 <= Len(file)
    BY DEF HasMore, Init
  <2>2. StartsWithBOM => Len(file) > 3
    BY <1>1, MarkBytes DEF WellFormed
  <2> QED
    BY <1>1, <2>1, <2>2 DEF Rest
<1>7. Rest <= Len(file) => file[Rest] \notin Trail
  <2>1. CASE StartsWithBOM
    <3> SUFFICES ASSUME 4 <= Len(file), file[4] \in Trail
                 PROVE  FALSE
      BY <1>1, <2>1 DEF Rest
    <3>1. file[2] = BB /\ file[3] = BF
      BY <1>1, <2>1, MarkBytes
    <3>2. PICK k \in 1..Len(file) : k \in {3, 2} /\ file[k] = EF
      BY DEF WellFormed
    <3> QED
      BY <3>1, <3>2, BytesAssumption
  <2>2. CASE ~StartsWithBOM
    <3> SUFFICES ASSUME 1 <= Len(file), file[1] \in Trail
                 PROVE  FALSE
      BY <1>1, <2>2 DEF Rest
    <3> QED
      BY <1>1 DEF WellFormed
  <2> QED
    BY <2>1, <2>2
<1>8. HasMore = (TextOf # << >>)
  <2>1. HasMore <=> TextOf # << >>
    BY <1>1, <1>2, <1>3, <1>6, <1>7, PointsMore
  <2>2. HasMore \in BOOLEAN
    BY DEF HasMore
  <2> QED
    BY <2>1, <2>2
<1>9. Stream!Init
  BY <1>1, <1>4, <1>8 DEF Stream!Init, Points, Init, FirstLine
<1> QED
  BY <1>5, <1>9

(* Every step delivers a character or changes nothing of the stream.       *)
LEMMA StreamNext ==
  ASSUME TypeOK, TypeOK', BoundaryInv, PositionInv', StreamInv, [Next]_vars
  PROVE  StreamInv' /\ [WellFormed => Stream!Deliver]_Stream!vars
<1>1. file' = file
  BY DEF Next, Get, GetThrows, Prologue, vars
<1>2. TextOf' = TextOf /\ PointsFrom' = PointsFrom /\ WellFormed' = WellFormed
  BY <1>1, SameText
<1>3. CASE ~WellFormed
  BY <1>2, <1>3 DEF StreamInv
<1>4. CASE WellFormed
  <2>1. CASE Get
    BY <1>4, <2>1, StreamGet
  <2>2. CASE GetThrows
    BY <1>4, <2>2, BoundaryGet DEF GetThrows
  <2>3. CASE UNCHANGED vars
    <3>1. Rest' = Rest /\ out' = out /\ HasMore' = HasMore /\ line' = line /\ col' = col
      BY <2>3 DEF vars, Rest, StartsWithBOM, HasMore
    <3>2. StreamInv'
      <4>1. (TextOf = out \o PointsFrom[Rest])' <=> TextOf = out \o PointsFrom[Rest]
        BY <1>2, <3>1
      <4> QED
        BY <1>2, <4>1 DEF StreamInv
    <3> QED
      BY <1>2, <3>1, <3>2 DEF Stream!vars
  <2> QED
    BY <2>1, <2>2, <2>3 DEF Next
<1> QED
  BY <1>3, <1>4

(* StreamCorrect: whatever well-formed file a source is opened on, what    *)
(* Get(), the location and operator bool show of it is a behaviour of      *)
(* CharStream: its text, character by character.                           *)
THEOREM StreamCorrect == Spec => ImplementsStream
<1>1. Init => StreamInv /\ (WellFormed => Stream!Init)
  BY StreamInit
<1>2. /\ TypeOK /\ TypeOK' /\ BoundaryInv /\ PositionInv' /\ StreamInv /\ [Next]_vars
      => StreamInv' /\ [WellFormed => Stream!Deliver]_Stream!vars
  BY StreamNext
<1> QED
  BY <1>1, <1>2, TypeCorrect, BoundaryInvariant, PositionInvariant, PTL DEF Spec, ImplementsStream

=============================================================================
