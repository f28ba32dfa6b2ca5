----------------------------- MODULE TextProofs -----------------------------
(***************************************************************************)
(* Lemmas on the positions of the characters of a text: where one stands   *)
(* follows from where the one before it stands, and from whether that one  *)
(* ends its line.  From them: what SourceManager keeps of the characters   *)
(* read so far is each of them, where it stands.                           *)
(***************************************************************************)
EXTENDS Text, SourceManager, FiniteSetTheorems, WellFoundedInduction, TLAPS

-----------------------------------------------------------------------------
(* A set of natural numbers has a least one.                               *)
LEMMA Least ==
  ASSUME NEW T, T \subseteq Nat, T # {}
  PROVE  \E n \in T : \A m \in T : n <= m
<1>1. PICK n \in T : \A m \in T : ~(<<m, n>> \in OpToRel(<, Nat))
  BY NatLessThanWellFounded, WFMin
<1>2. \A m \in T : ~(m < n)
  BY <1>1 DEF OpToRel
<1> QED
  BY <1>2

(* Induction up to a bound, with a set for the property.                   *)
LEMMA UpTo ==
  ASSUME NEW N \in Nat, NEW S, 0 \in S, \A n \in 1..N : n - 1 \in S => n \in S
  PROVE  0..N \subseteq S
<1> DEFINE T == {n \in 0..N : n \notin S}
<1>1. SUFFICES ASSUME T # {}
               PROVE  FALSE
  OBVIOUS
<1>2. T \subseteq Nat
  OBVIOUS
<1>3. PICK n \in T : \A m \in T : n <= m
  <2> HIDE DEF T
  <2> QED
    BY <1>1, <1>2, Least
<1>4. n \in 1..N /\ n \notin S
  BY <1>3
<1>5. n - 1 \in S
  BY <1>3, <1>4
<1> QED
  BY <1>4, <1>5

(* A recursive function on 0..N, which starts with a and goes on with step.*)
Iterates(f, T, a, N, step) ==
  f \in [0..N -> T] /\ f[0] = a /\ \A n \in 1..N : f[n] = step[<<n, f[n - 1]>>]

(* There is one.                                                           *)
LEMMA Recursion ==
  ASSUME NEW T, NEW a \in T, NEW N \in Nat, NEW step \in [(1..N) \X T -> T]
  PROVE  \E f : Iterates(f, T, a, N, step)
<1> DEFINE Upto(m, f) == f \in [0..m -> T] /\ f[0] = a /\ \A n \in 1..m : f[n] = step[<<n, f[n - 1]>>]
           S == {m \in 0..N : \E f : Upto(m, f)}
<1>1. 0 \in S
  <2> DEFINE f == [n \in 0..0 |-> a]
  <2>1. f \in [0..0 -> T] /\ f[0] = a /\ 1..0 = {}
    OBVIOUS
  <2> HIDE DEF f
  <2>2. Upto(0, f)
    BY <2>1
  <2> QED
    BY <2>2
<1>2. ASSUME NEW m \in 1..N, m - 1 \in S
      PROVE  m \in S
  <2>1. PICK f : Upto(m - 1, f)
    BY <1>2
  <2> DEFINE g == [n \in 0..m |-> IF n = m THEN step[<<m, f[m - 1]>>] ELSE f[n]]
  <2>2. f[m - 1] \in T
    BY <2>1
  <2>3. step[<<m, f[m - 1]>>] \in T
    BY <2>2
  <2>4. g \in [0..m -> T] /\ g[0] = a
    BY <2>1, <2>3
  <2>5. \A n \in 1..m : g[n - 1] = f[n - 1]
    OBVIOUS
  <2>6. ASSUME NEW n \in 1..m
        PROVE  g[n] = step[<<n, g[n - 1]>>]
    <3>1. CASE n = m
      <4>1. g[m] = step[<<m, f[m - 1]>>] /\ g[m - 1] = f[m - 1]
        BY <2>5
      <4> HIDE DEF g
      <4> QED
        BY <3>1, <4>1
    <3>2. CASE n # m
      <4>1. n \in 1..(m - 1) /\ g[n] = f[n]
        BY <3>2
      <4> QED
        BY <2>1, <2>5, <4>1
    <3> QED
      BY <3>1, <3>2
  <2> HIDE DEF g
  <2>7. Upto(m, g)
    BY <2>4, <2>6
  <2> QED
    BY <2>7
<1> HIDE DEF S
<1>3. N \in S
  BY <1>1, <1>2, UpTo
<1> QED
  BY <1>3 DEF S, Iterates

-----------------------------------------------------------------------------
(* A position has one last line end before it.                             *)
LEMMA LastBreakUnique ==
  ASSUME NEW t, NEW nl, NEW i \in Nat \ {0}, NEW k, IsLastBreak(t, nl, i, k)
  PROVE  LastBreak(t, nl, i) = k
<1>1. \A m \in 0..(i - 1) : IsLastBreak(t, nl, i, m) => m = k
  BY DEF IsLastBreak
<1>2. k \in 0..(i - 1)
  BY DEF IsLastBreak
<1> QED
  BY <1>1, <1>2 DEF LastBreak

LEMMA BreaksFinite ==
  ASSUME NEW t, NEW nl, NEW i \in Nat
  PROVE  IsFiniteSet(Breaks(t, nl, i)) /\ Cardinality(Breaks(t, nl, i)) \in Nat
<1>1. IsFiniteSet(1..(i - 1))
  BY FS_Interval
<1>2. Breaks(t, nl, i) \subseteq 1..(i - 1)
  BY DEF Breaks
<1> QED
  BY <1>1, <1>2, FS_Subset, FS_CardinalityType

LEMMA LineOfType ==
  ASSUME NEW t, NEW nl, NEW i \in Nat
  PROVE  LineOf(t, nl, i) \in Nat \ {0}
BY BreaksFinite DEF LineOf

(* The first character stands on line 1, with no line end before it.       *)
LEMMA FirstPosition ==
  ASSUME NEW t, NEW nl
  PROVE  LineOf(t, nl, 1) = 1 /\ IsLastBreak(t, nl, 1, 0)
<1>1. Breaks(t, nl, 1) = {}
  BY DEF Breaks
<1> QED
  BY <1>1, FS_EmptySet DEF LineOf, IsLastBreak

(* The character after the i-th stands on the same line as that, or on the *)
(* next line when that one ends its line.                                  *)
LEMMA LineOfStep ==
  ASSUME NEW t, NEW nl, NEW i \in Nat \ {0}
  PROVE  LineOf(t, nl, i + 1) = LineOf(t, nl, i) + (IF t[i] = nl THEN 1 ELSE 0)
<1> DEFINE before == Breaks(t, nl, i)
           after == Breaks(t, nl, i + 1)
<1>1. after = {j \in 1..i : t[j] = nl}
  BY DEF Breaks
<1>2. IsFiniteSet(before) /\ Cardinality(before) \in Nat
  BY BreaksFinite
<1>3. i \notin before
  BY DEF Breaks
<1>4. CASE t[i] = nl
  <2>1. after = before \union {i}
    BY <1>1, <1>4 DEF Breaks
  <2>2. Cardinality(after) = Cardinality(before) + 1
    BY <1>2, <1>3, <2>1, FS_AddElement
  <2> QED
    BY <1>2, <1>4, <2>2 DEF LineOf
<1>5. CASE t[i] # nl
  <2>1. after = before
    BY <1>1, <1>5 DEF Breaks
  <2> QED
    BY <1>2, <1>5, <2>1 DEF LineOf
<1> QED
  BY <1>4, <1>5

(* The last line end before it: the i-th character if it ends its line,    *)
(* the one before that otherwise.                                          *)
LEMMA LastBreakStep ==
  ASSUME NEW t, NEW nl, NEW i \in Nat \ {0}, NEW k, IsLastBreak(t, nl, i, k)
  PROVE  IsLastBreak(t, nl, i + 1, IF t[i] = nl THEN i ELSE k)
BY DEF IsLastBreak

(* Every position has a last line end before it, or 0.                     *)
LEMMA LastBreakIs ==
  ASSUME NEW t, NEW nl, NEW i \in Nat \ {0}
  PROVE  IsLastBreak(t, nl, i, LastBreak(t, nl, i))
<1> DEFINE S == {n \in Nat : \E k : IsLastBreak(t, nl, n + 1, k)}
<1>1. 0 \in S
  BY FirstPosition
<1>2. ASSUME NEW n \in 1..(i - 1), n - 1 \in S
      PROVE  n \in S
  <2>1. PICK k : IsLastBreak(t, nl, n, k)
    <3>1. n - 1 + 1 = n
      OBVIOUS
    <3> QED
      BY <1>2, <3>1
  <2>2. IsLastBreak(t, nl, n + 1, IF t[n] = nl THEN n ELSE k)
    BY <2>1, LastBreakStep
  <2> QED
    BY <2>2
<1> HIDE DEF S
<1>3. 0..(i - 1) \subseteq S
  BY <1>1, <1>2, UpTo
<1>4. PICK k : IsLastBreak(t, nl, i, k)
  <2>1. i - 1 \in S /\ i - 1 + 1 = i
    BY <1>3
  <2> QED
    BY <2>1 DEF S
<1> QED
  BY <1>4, LastBreakUnique

(* The column of the character after another one.                          *)
LEMMA ColOfStep ==
  ASSUME NEW t, NEW nl, NEW i \in Nat \ {0}
  PROVE  /\ ColOf(t, nl, i) \in 1..i
         /\ ColOf(t, nl, i + 1) = IF t[i] = nl THEN 1 ELSE ColOf(t, nl, i) + 1
<1>1. IsLastBreak(t, nl, i, LastBreak(t, nl, i))
  BY LastBreakIs
<1>2. LastBreak(t, nl, i) \in 0..(i - 1)
  BY <1>1 DEF IsLastBreak
<1>3. IsLastBreak(t, nl, i + 1, IF t[i] = nl THEN i ELSE LastBreak(t, nl, i))
  BY <1>1, LastBreakStep
<1>4. LastBreak(t, nl, i + 1) = IF t[i] = nl THEN i ELSE LastBreak(t, nl, i)
  BY <1>3, LastBreakUnique
<1> QED
  BY <1>2, <1>4 DEF ColOf

(* The same for a text that grows by one character.                        *)
LEMMA LineOfNext ==
  ASSUME NEW S, NEW t \in Seq(S), NEW c \in S, NEW nl, t # << >>
  PROVE  LineOf(Append(t, c), nl, Len(t) + 1)
           = LineOf(t, nl, Len(t)) + (IF t[Len(t)] = nl THEN 1 ELSE 0)
<1> DEFINE n == Len(t)
           longer == Append(t, c)
<1>1. n \in Nat \ {0} /\ \A j \in 1..n : longer[j] = t[j]
  OBVIOUS
<1>2. Breaks(longer, nl, n) = Breaks(t, nl, n)
  BY <1>1 DEF Breaks
<1> HIDE DEF longer
<1>3. LineOf(longer, nl, n + 1) = LineOf(longer, nl, n) + (IF longer[n] = nl THEN 1 ELSE 0)
  BY <1>1, LineOfStep
<1>4. LineOf(longer, nl, n + 1) = LineOf(t, nl, n) + (IF t[n] = nl THEN 1 ELSE 0)
  BY <1>1, <1>2, <1>3 DEF LineOf
<1> QED
  BY <1>4 DEF longer

LEMMA LastBreakNext ==
  ASSUME NEW S, NEW t \in Seq(S), NEW c \in S, NEW nl, t # << >>,
         NEW k, IsLastBreak(t, nl, Len(t), k)
  PROVE  IsLastBreak(Append(t, c), nl, Len(t) + 1, IF t[Len(t)] = nl THEN Len(t) ELSE k)
<1>1. \A j \in 1..Len(t) : Append(t, c)[j] = t[j]
  OBVIOUS
<1> QED
  BY <1>1 DEF IsLastBreak

-----------------------------------------------------------------------------
(* Where the next character will be recorded: the last line is filled up   *)
(* to the column of the character taken last.                              *)
LastLineOK(lines, t, nl, n) ==
  n # 0 => /\ Len(lines[Len(lines)]) = ColOf(t, nl, n)
           /\ IsLastBreak(t, nl, n, LastBreak(t, nl, n))

KeptOK(lines, t, nl, n) == RecordedIn(lines, t, nl, n) /\ LastLineOK(lines, t, nl, n)

(* AddCharacter() keeps a list of lines one.                               *)
LEMMA AddCharacterType ==
  ASSUME NEW S, NEW lines \in Seq(Seq(S)), NEW n \in Nat, NEW ch \in S
  PROVE  AddCharacter(lines, n, ch) \in Seq(Seq(S))
<1> DEFINE m == IF Len(lines) < n THEN n ELSE Len(lines)
           line(l) == (IF l <= Len(lines) THEN lines[l] ELSE << >>)
                        \o (IF l = n THEN <<ch>> ELSE << >>)
<1>1. m \in Nat
  OBVIOUS
<1>2. ASSUME NEW l \in 1..m
      PROVE  line(l) \in Seq(S)
  <2>1. (IF l <= Len(lines) THEN lines[l] ELSE << >>) \in Seq(S)
    OBVIOUS
  <2>2. (IF l = n THEN <<ch>> ELSE << >>) \in Seq(S)
    OBVIOUS
  <2> QED
    BY <2>1, <2>2
<1> HIDE DEF m, line
<1>3. [l \in 1..m |-> line(l)] \in [1..m -> Seq(S)]
  BY <1>2
<1>4. [l \in 1..m |-> line(l)] \in Seq(Seq(S))
  BY <1>1, <1>3
<1> QED
  BY <1>4 DEF AddCharacter, m, line

(* AddCharacter() puts the next character where it stands in the text: at  *)
(* the end of the last line, or at the start of a new one after a line end.*)
LEMMA AddCharacterPlace ==
  ASSUME NEW S, NEW t \in Seq(S), NEW nl, NEW lines \in Seq(Seq(S)), NEW n \in Nat, n < Len(t),
         KeptOK(lines, t, nl, n),
         NEW l, l = LineOf(t, nl, n + 1),
         NEW before, before = IF l <= Len(lines) THEN lines[l] ELSE << >>
  PROVE  /\ l \in Nat \ {0}
         /\ Len(lines) \in {l - 1, l}
         /\ before \in Seq(S)
         /\ ColOf(t, nl, n + 1) = Len(before) + 1
         /\ IsLastBreak(t, nl, n + 1, LastBreak(t, nl, n + 1))
<1>1. l \in Nat \ {0}
  BY LineOfType
<1>2. CASE n = 0
  <2>1. l = 1 /\ lines = << >> /\ before = << >>
    BY <1>2, FirstPosition DEF KeptOK, RecordedIn
  <2>2. IsLastBreak(t, nl, 1, 0) /\ LastBreak(t, nl, 1) = 0
    <3>1. IsLastBreak(t, nl, 1, 0) /\ 1 \in Nat \ {0}
      BY FirstPosition
    <3> QED
      BY <3>1, LastBreakUnique
  <2> QED
    BY <1>2, <2>1, <2>2 DEF ColOf
<1>3. CASE n # 0
  <2> DEFINE m == Len(lines)
             k == LastBreak(t, nl, n)
             k2 == IF t[n] = nl THEN n ELSE k
  <2>1. /\ m = LineOf(t, nl, n) /\ m \in Nat \ {0}
        /\ lines[m] \in Seq(S) /\ Len(lines[m]) = n - k
        /\ IsLastBreak(t, nl, n, k) /\ k \in 0..(n - 1)
    BY <1>3, LineOfType DEF KeptOK, RecordedIn, LastLineOK, ColOf, IsLastBreak
  <2> HIDE DEF k
  <2>2. l = m + (IF t[n] = nl THEN 1 ELSE 0)
    <3>1. n \in Nat \ {0}
      BY <1>3
    <3>2. LineOf(t, nl, n + 1) = LineOf(t, nl, n) + (IF t[n] = nl THEN 1 ELSE 0)
      BY <3>1, LineOfStep, Zenon
    <3> QED
      BY <2>1, <3>2, Zenon
  <2>3. IsLastBreak(t, nl, n + 1, k2) /\ LastBreak(t, nl, n + 1) = k2
    <3>1. IsLastBreak(t, nl, n + 1, k2)
      BY <1>3, <2>1, LastBreakStep
    <3> QED
      BY <3>1, LastBreakUnique
  <2>4. CASE t[n] = nl
    BY <1>1, <2>1, <2>2, <2>3, <2>4 DEF ColOf
  <2>5. CASE t[n] # nl
    BY <1>1, <2>1, <2>2, <2>3, <2>5 DEF ColOf
  <2> QED
    BY <2>4, <2>5
<1> QED
  BY <1>2, <1>3

LEMMA AddCharacterOK ==
  ASSUME NEW S, NEW t \in Seq(S), NEW nl, NEW lines \in Seq(Seq(S)), NEW n \in Nat, n < Len(t),
         KeptOK(lines, t, nl, n),
         NEW new, new = AddCharacter(lines, LineOf(t, nl, n + 1), t[n + 1])
  PROVE  KeptOK(new, t, nl, n + 1)
<1> DEFINE l == LineOf(t, nl, n + 1)
           k == ColOf(t, nl, n + 1)
           before == IF l <= Len(lines) THEN lines[l] ELSE << >>
<1>1. /\ l \in Nat \ {0} /\ Len(lines) \in {l - 1, l} /\ before \in Seq(S)
      /\ k = Len(before) + 1
      /\ IsLastBreak(t, nl, n + 1, LastBreak(t, nl, n + 1))
  BY AddCharacterPlace
<1>2. t[n + 1] \in S
  OBVIOUS
<1>3. /\ Len(new) = l
      /\ new[l] = Append(before, t[n + 1])
      /\ \A j \in 1..(l - 1) : new[j] = lines[j]
  <2> DEFINE m == IF Len(lines) < l THEN l ELSE Len(lines)
             line(j) == (IF j <= Len(lines) THEN lines[j] ELSE << >>)
                          \o (IF j = l THEN <<t[n + 1]>> ELSE << >>)
  <2>1. m = l
    BY <1>1
  <2>2. new = [j \in 1..l |-> line(j)]
    BY <2>1 DEF AddCharacter
  <2>3. line(l) = Append(before, t[n + 1])
    BY <1>1, <1>2
  <2>4. ASSUME NEW j \in 1..(l - 1)
        PROVE  line(j) = lines[j]
    <3>1. j <= Len(lines) /\ j # l /\ lines[j] \in Seq(S)
      BY <1>1
    <3> QED
      BY <3>1
  <2> HIDE DEF line, l
  <2>5. Len(new) = l
    BY <1>1, <2>2
  <2> QED
    BY <1>1, <2>2, <2>3, <2>4, <2>5
<1> HIDE DEF l, k, before
<1>4. /\ Len(new[l]) = k /\ new[l][k] = t[n + 1]
      /\ \A c \in 1..Len(before) : new[l][c] = before[c]
      /\ Len(before) \in Nat
  <2>1. before \in Seq(S) /\ k = Len(before) + 1 /\ new[l] = Append(before, t[n + 1])
    BY <1>1, <1>3
  <2>2. ASSUME NEW x \in S, NEW longer, longer = Append(before, x)
        PROVE  /\ Len(longer) = Len(before) + 1 /\ longer[Len(before) + 1] = x
               /\ \A c \in 1..Len(before) : longer[c] = before[c]
    BY <2>1, <2>2
  <2>3. Len(before) \in Nat
    BY <2>1
  <2>4. /\ Len(new[l]) = Len(before) + 1 /\ new[l][Len(before) + 1] = t[n + 1]
        /\ \A c \in 1..Len(before) : new[l][c] = before[c]
    <3>1. PICK x \in S : x = t[n + 1]
      BY <1>2
    <3>2. PICK longer : longer = new[l]
      OBVIOUS
    <3>3. longer = Append(before, x)
      BY <2>1, <3>1, <3>2
    <3>4. /\ Len(longer) = Len(before) + 1 /\ longer[Len(before) + 1] = x
          /\ \A c \in 1..Len(before) : longer[c] = before[c]
      BY <2>2, <3>3
    <3> QED
      BY <3>1, <3>2, <3>4
  <2> QED
    BY <2>1, <2>3, <2>4
<1>0. l \in Nat \ {0} /\ Len(lines) \in {l - 1, l} /\ k = Len(before) + 1 /\ Len(new) = l
  BY <1>1, <1>3
<1>5. ASSUME NEW i \in 1..(n + 1)
      PROVE  /\ LineOf(t, nl, i) \in 1..Len(new)
             /\ ColOf(t, nl, i) \in 1..Len(new[LineOf(t, nl, i)])
             /\ new[LineOf(t, nl, i)][ColOf(t, nl, i)] = t[i]
  <2>1. CASE i = n + 1
    BY <1>1, <1>3, <1>4, <2>1 DEF l, k
  <2>2. CASE i \in 1..n
    <3> DEFINE li == LineOf(t, nl, i)
               ki == ColOf(t, nl, i)
    <3>1. li \in 1..Len(lines) /\ ki \in 1..Len(lines[li]) /\ lines[li][ki] = t[i]
      BY <2>2 DEF KeptOK, RecordedIn
    <3> HIDE DEF li, ki
    <3>2. CASE li = l
      <4>1. before = lines[l]
        BY <1>1, <3>1, <3>2 DEF before
      <4>2. ki \in 1..Len(before) /\ before[ki] = t[i]
        BY <3>1, <3>2, <4>1
      <4>3. li \in 1..Len(new) /\ ki \in 1..Len(new[l])
        BY <1>0, <1>4, <3>2, <4>2
      <4>4. new[l][ki] = t[i]
        BY <1>4, <4>2
      <4> QED
        BY <3>2, <4>3, <4>4, Zenon DEF li, ki
    <3>3. CASE li # l
      <4>1. li \in 1..(l - 1)
        BY <1>0, <3>1, <3>3
      <4>2. new[li] = lines[li] /\ li \in 1..Len(new)
        BY <1>0, <1>3, <4>1
      <4> QED
        BY <3>1, <4>2 DEF li, ki
    <3> QED
      BY <3>2, <3>3
  <2> QED
    BY <2>1, <2>2
<1>6. ASSUME NEW a \in 1..Len(new), NEW c \in 1..Len(new[a])
      PROVE  \E i \in 1..(n + 1) : LineOf(t, nl, i) = a /\ ColOf(t, nl, i) = c
  <2>1. CASE a = l /\ c = k
    BY <2>1 DEF l, k
  <2>2. CASE ~(a = l /\ c = k)
    <3>1. a \in 1..Len(lines) /\ c \in 1..Len(lines[a])
      <4>1. CASE a = l
        <5>1. c \in 1..Len(before)
          BY <1>1, <1>4, <2>2, <4>1
        <5>2. l <= Len(lines) /\ before = lines[l]
          BY <5>1 DEF before
        <5> QED
          BY <1>1, <4>1, <5>1, <5>2
      <4>2. CASE a # l
        <5>1. a \in 1..(l - 1)
          BY <1>0, <4>2
        <5>2. new[a] = lines[a] /\ a \in 1..Len(lines)
          BY <1>0, <1>3, <5>1
        <5> QED
          BY <5>2
      <4> QED
        BY <4>1, <4>2
    <3>2. \E i \in 1..n : LineOf(t, nl, i) = a /\ ColOf(t, nl, i) = c
      BY <3>1 DEF KeptOK, RecordedIn
    <3> QED
      BY <3>2
  <2> QED
    BY <2>1, <2>2
<1>7. RecordedIn(new, t, nl, n + 1)
  <2>1. Len(new) = IF n + 1 = 0 THEN 0 ELSE LineOf(t, nl, n + 1)
    BY <1>3 DEF l
  <2>2. \A i \in 1..(n + 1) :
          /\ LineOf(t, nl, i) \in 1..Len(new)
          /\ ColOf(t, nl, i) \in 1..Len(new[LineOf(t, nl, i)])
          /\ new[LineOf(t, nl, i)][ColOf(t, nl, i)] = t[i]
    BY <1>5
  <2>3. \A a \in 1..Len(new) : \A c \in 1..Len(new[a]) :
          \E i \in 1..(n + 1) : LineOf(t, nl, i) = a /\ ColOf(t, nl, i) = c
    BY <1>6
  <2> QED
    BY <2>1, <2>2, <2>3, Zenon DEF RecordedIn
<1>8. LastLineOK(new, t, nl, n + 1)
  BY <1>1, <1>3, <1>4 DEF LastLineOK, k
<1> QED
  BY <1>7, <1>8 DEF KeptOK

=============================================================================
