--------------------------- MODULE DiagnosticProofs ---------------------------
(***************************************************************************)
(* For any number of builders, any call sites and any MaxArguments, the    *)
(* engine never loses or duplicates a diagnostic, and it implements        *)
(* ReportLog.                                                              *)
(***************************************************************************)
EXTENDS Diagnostic, FiniteSetTheorems, TLAPS

Delivered == [id : DiagnosticID, args : Seq(ArgumentValue)]

(* OneInFlight: copies and destructors in any order leave exactly one      *)
(* holder of the diagnostic in flight (the property InFlight).             *)
THEOREM OneInFlight == Spec => []InFlight
<1>1. Init => InFlight
  BY DEF Init, InFlight
<1>2. InFlight /\ [Next]_vars => InFlight'
  <2> SUFFICES ASSUME InFlight, [Next]_vars
               PROVE  InFlight'
    OBVIOUS
  <2> USE DEF InFlight
  <2>1. ASSUME NEW b \in Builder, NEW site \in CallSites, Report(b, site)
        PROVE  InFlight'
    <3>1. CurDiagID' # NUM_DIAGNOSTICS
      BY <2>1, DiagnosticAssumption DEF Report
    <3>2. IsActive' = {b} /\ IsActive' \subseteq alive'
      BY <2>1 DEF Report
    <3> QED
      BY <3>1, <3>2
  <2>2. ASSUME NEW b \in Builder, NEW d \in Builder, Copy(b, d)
        PROVE  InFlight'
    <3>1. CASE d \in IsActive
      <4>1. IsActive = {d} /\ IsActive' = {b}
        BY <2>2, <3>1 DEF Copy
      <4> QED
        BY <2>2, <3>1, <4>1 DEF Copy, engine
    <3>2. CASE d \notin IsActive
      BY <2>2, <3>2 DEF Copy, engine
    <3> QED
      BY <3>1, <3>2
  <2>3. ASSUME NEW b \in Builder, AddArgument(b)
        PROVE  InFlight'
    BY <2>3 DEF AddArgument
  <2>4. ASSUME NEW b \in Builder, getEmpty(b)
        PROVE  InFlight'
    BY <2>4 DEF getEmpty, engine
  <2>5. ASSUME NEW b \in Builder, Emit(b)
        PROVE  InFlight'
    <3>1. IsActive' = {} /\ CurDiagID' = NUM_DIAGNOSTICS
      BY <2>5 DEF Emit, EmitCurrentDiagnostic, FlushCounts
    <3> QED
      BY <3>1
  <2>6. ASSUME NEW b \in Builder, Destroy(b)
        PROVE  InFlight'
    BY <2>6 DEF Destroy, engine
  <2>7. CASE clear
    BY <2>7 DEF clear, engine, builders
  <2>8. CASE UNCHANGED vars
    BY <2>8 DEF vars, engine, builders
  <2> QED
    BY <2>1, <2>2, <2>3, <2>4, <2>5, <2>6, <2>7, <2>8 DEF Next
<1> QED
  BY <1>1, <1>2, PTL DEF Spec

(* What Info reads out of the engine is a diagnostic with its arguments.   *)
LEMMA InfoType ==
  ASSUME NEW n \in 0..MaxArguments, CurDiagID \in DiagnosticID,
         DiagArguments \in [Index -> ArgumentValue]
  PROVE  Info(n) \in Delivered
<1>1. [i \in 1..n |-> DiagArguments[i - 1]] \in [1..n -> ArgumentValue]
  BY DiagnosticAssumption DEF Index
<1>2. [i \in 1..n |-> DiagArguments[i - 1]] \in Seq(ArgumentValue)
  BY <1>1
<1> QED
  BY <1>2 DEF Info, Delivered

(* Room: there are free places for the arguments still to be streamed in   *)
(* behind those that the holder of the diagnostic has counted.             *)
Room == \A b \in IsActive : NumArgs[b] + Len(want) <= MaxArguments

LEMMA CallSiteArguments ==
  ASSUME NEW site \in CallSites
  PROVE  /\ site[1] \in DiagnosticID
         /\ site[2] \in Seq(ArgumentValue) /\ Len(site[2]) <= MaxArguments
BY DiagnosticAssumption

(* What is left to be streamed in after the first argument.                *)
LEMMA TailOf ==
  ASSUME want \in Seq(ArgumentValue), want # << >>
  PROVE  /\ Head(want) \in ArgumentValue /\ Tail(want) \in Seq(ArgumentValue)
         /\ Len(want) \in Nat \ {0} /\ Len(Tail(want)) = Len(want) - 1
OBVIOUS

LEMMA RoomNext ==
  ASSUME TypeOK, InFlight, Room, [Next]_vars
  PROVE  Room'
<1> USE DEF TypeOK, Room
<1>1. ASSUME NEW b \in Builder, NEW site \in CallSites, Report(b, site)
      PROVE  Room'
  <2>1. IsActive' = {b} /\ NumArgs'[b] = 0 /\ want' = site[2]
    BY <1>1 DEF Report, InFlight
  <2>2. Len(site[2]) \in Nat /\ Len(site[2]) <= MaxArguments
    BY CallSiteArguments
  <2> QED
    BY <2>1, <2>2
<1>2. ASSUME NEW b \in Builder, NEW d \in Builder, Copy(b, d)
      PROVE  Room'
  BY <1>2 DEF Copy, InFlight
<1>3. ASSUME NEW b \in Builder, AddArgument(b)
      PROVE  Room'
  <2>1. IsActive' = IsActive /\ IsActive = {b} /\ NumArgs'[b] = NumArgs[b] + 1 /\ want' = Tail(want)
    BY <1>3 DEF AddArgument, InFlight
  <2> QED
    BY <1>3, <2>1, TailOf, DiagnosticAssumption DEF AddArgument
<1>4. ASSUME NEW b \in Builder, getEmpty(b)
      PROVE  Room'
  <2>1. b \notin IsActive
    BY <1>4 DEF getEmpty, InFlight
  <2> QED
    BY <1>4, <2>1 DEF getEmpty
<1>5. ASSUME NEW b \in Builder, Emit(b)
      PROVE  Room'
  BY <1>5 DEF Emit, InFlight
<1>6. ASSUME NEW b \in Builder, Destroy(b)
      PROVE  Room'
  BY <1>6 DEF Destroy
<1>7. CASE clear \/ UNCHANGED vars
  BY <1>7 DEF clear, vars, builders
<1> QED
  BY <1>1, <1>2, <1>3, <1>4, <1>5, <1>6, <1>7 DEF Next

(* TypeCorrect: the members of engine, builders and consumer keep their    *)
(* types; in particular no builder writes outside the argument arrays.     *)
THEOREM TypeCorrect == Spec => []TypeOK
<1> USE DiagnosticAssumption DEF TypeOK
<1>1. Init => TypeOK /\ Room
  BY DEF Init, Room
<1>2. TypeOK /\ Room /\ InFlight /\ [Next]_vars => TypeOK'
  <2> SUFFICES ASSUME TypeOK, Room, InFlight, [Next]_vars
               PROVE  TypeOK'
    OBVIOUS
  <2>1. ASSUME NEW b \in Builder, NEW site \in CallSites, Report(b, site)
        PROVE  TypeOK'
    BY <2>1, CallSiteArguments DEF Report, consumer
  <2>2. ASSUME NEW b \in Builder, NEW d \in Builder, Copy(b, d)
        PROVE  TypeOK'
    BY <2>2 DEF Copy, consumer, engine
  <2>3. ASSUME NEW b \in Builder, AddArgument(b)
        PROVE  TypeOK'
    <3>1. NumArgs[b] \in Index
      BY <2>3, TailOf DEF AddArgument, Room, Index
    <3> QED
      BY <2>3, <3>1, TailOf DEF AddArgument, consumer, Index
  <2>4. ASSUME NEW b \in Builder, getEmpty(b)
        PROVE  TypeOK'
    BY <2>4 DEF getEmpty, consumer, engine
  <2>5. ASSUME NEW b \in Builder, Emit(b)
        PROVE  TypeOK'
    <3>1. CurDiagID \in DiagnosticID /\ NumDiagArgs' \in 0..MaxArguments
      BY <2>5 DEF Emit, EmitCurrentDiagnostic, FlushCounts, InFlight
    <3>2. Info(NumDiagArgs') \in Delivered
      BY <3>1, InfoType
    <3>3. emitted' = Append(emitted, Info(NumDiagArgs')) /\ cleared' = cleared
      BY <2>5 DEF Emit, EmitCurrentDiagnostic, FlushCounts
    <3>4. emitted' \in Seq(Delivered) /\ cleared' \in 0..Len(emitted')
      BY <3>2, <3>3 DEF Delivered
    <3>5. NumWarnings' \in Nat /\ NumErrors' \in Nat
      BY <2>5 DEF Emit, EmitCurrentDiagnostic, FlushCounts, HandleDiagnostic
    <3> QED
      BY <2>5, <3>1, <3>4, <3>5 DEF Emit, EmitCurrentDiagnostic, FlushCounts, Delivered
  <2>6. ASSUME NEW b \in Builder, Destroy(b)
        PROVE  TypeOK'
    BY <2>6 DEF Destroy, engine, consumer
  <2>7. CASE clear
    BY <2>7 DEF clear, engine, builders
  <2>8. CASE UNCHANGED vars
    BY <2>8 DEF vars, engine, builders, consumer
  <2> QED
    BY <2>1, <2>2, <2>3, <2>4, <2>5, <2>6, <2>7, <2>8 DEF Next
<1>3. TypeOK /\ InFlight /\ Room /\ [Next]_vars => Room'
  BY RoomNext
<1> QED
  BY <1>1, <1>2, <1>3, OneInFlight, PTL DEF Spec

-----------------------------------------------------------------------------
(* The counts.                                                             *)

LEMMA SinceFinite ==
  ASSUME TypeOK, NEW L
  PROVE  IsFiniteSet(Since(L)) /\ Cardinality(Since(L)) \in Nat
<1>1. IsFiniteSet((cleared + 1)..Len(emitted))
  BY FS_Interval DEF TypeOK
<1>2. Since(L) \subseteq (cleared + 1)..Len(emitted)
  BY DEF Since
<1> QED
  BY <1>1, <1>2, FS_Subset, FS_CardinalityType

(* Emitting one more diagnostic adds one to the counts it belongs to.      *)
LEMMA SinceGrows ==
  ASSUME TypeOK, NEW L, NEW d \in Delivered,
         emitted' = Append(emitted, d), cleared' = cleared
  PROVE  Cardinality(Since(L)')
           = Cardinality(Since(L)) + (IF Table[d.id].Level \in L THEN 1 ELSE 0)
<1> DEFINE n == Len(emitted) + 1
           In(e) == Table[e.id].Level \in L
<1>1. emitted \in Seq(Delivered) /\ cleared \in 0..Len(emitted)
  BY DEF TypeOK, Delivered
<1>2. Len(emitted') = n /\ emitted'[n] = d /\ \A i \in 1..Len(emitted) : emitted'[i] = emitted[i]
  BY <1>1
<1>3. Since(L) = {i \in (cleared + 1)..Len(emitted) : In(emitted[i])}
  BY DEF Since
<1>4. Since(L)' = {i \in (cleared + 1)..n : In(emitted'[i])}
  BY <1>2 DEF Since
<1>5. n \notin Since(L)
  BY <1>1, <1>3
<1>6. IsFiniteSet(Since(L)) /\ Cardinality(Since(L)) \in Nat
  BY SinceFinite
<1> HIDE DEF In
<1>7. CASE In(d)
  <2>1. Since(L)' = Since(L) \union {n}
    BY <1>1, <1>2, <1>3, <1>4, <1>7
  <2> QED
    BY <1>5, <1>6, <1>7, <2>1, FS_AddElement DEF In
<1>8. CASE ~In(d)
  <2>1. Since(L)' = Since(L)
    BY <1>1, <1>2, <1>3, <1>4, <1>8
  <2> QED
    BY <1>6, <1>8, <2>1 DEF In
<1> QED
  BY <1>7, <1>8

(* CountsCorrect: the counters of a counting consumer are the numbers of   *)
(* warnings and errors delivered since they were cleared.                  *)
THEOREM CountsCorrect == Spec => []CountsOK
<1>1. Init => CountsOK
  <2>1. ASSUME Init, NEW L
        PROVE  Since(L) = {}
    BY <2>1 DEF Init, Since
  <2> QED
    BY <2>1, FS_EmptySet DEF Init, CountsOK
<1>2. TypeOK /\ InFlight /\ CountsOK /\ [Next]_vars => CountsOK'
  <2> SUFFICES ASSUME TypeOK, InFlight, CountsOK, [Next]_vars
               PROVE  CountsOK'
    OBVIOUS
  <2>1. ASSUME consumer' = consumer
        PROVE  CountsOK'
    BY <2>1 DEF consumer, CountsOK, Since
  <2>2. ASSUME NEW b \in Builder, Emit(b)
        PROVE  CountsOK'
    <3> DEFINE d == Info(NumDiagArgs')
    <3>1. CurDiagID \in DiagnosticID /\ NumDiagArgs' \in 0..MaxArguments
      BY <2>2 DEF Emit, EmitCurrentDiagnostic, FlushCounts, InFlight, TypeOK
    <3>2. d \in Delivered /\ d.id = CurDiagID
      BY <3>1, InfoType DEF TypeOK, Info
    <3>3. emitted' = Append(emitted, d) /\ cleared' = cleared /\ counting' = counting
      BY <2>2 DEF Emit, EmitCurrentDiagnostic, FlushCounts
    <3> HIDE DEF d
    <3>4. \A L : Cardinality(Since(L)')
                  = Cardinality(Since(L)) + (IF Table[CurDiagID].Level \in L THEN 1 ELSE 0)
      BY <3>2, <3>3, SinceGrows
    <3>5. \A L : Cardinality(Since(L)) \in Nat
      BY SinceFinite
    <3>6. NumWarnings' = NumWarnings + (IF counting /\ Table[CurDiagID].Level = "Warning" THEN 1 ELSE 0)
      BY <2>2 DEF Emit, EmitCurrentDiagnostic, FlushCounts, HandleDiagnostic
    <3>7. NumErrors' = NumErrors + (IF counting /\ Table[CurDiagID].Level \in {"Error", "Fatal"} THEN 1 ELSE 0)
      BY <2>2 DEF Emit, EmitCurrentDiagnostic, FlushCounts, HandleDiagnostic
    <3>8. NumWarnings' = IF counting' THEN Cardinality(Since({"Warning"})') ELSE 0
      BY <3>3, <3>4, <3>5, <3>6 DEF CountsOK
    <3>9. NumErrors' = IF counting' THEN Cardinality(Since({"Error", "Fatal"})') ELSE 0
      BY <3>3, <3>4, <3>5, <3>7 DEF CountsOK
    <3> QED
      BY <3>8, <3>9 DEF CountsOK
  <2>3. CASE clear
    <3>1. \A L : Since(L)' = {}
      BY <2>3 DEF clear, Since, TypeOK
    <3> QED
      BY <2>3, <3>1, FS_EmptySet DEF clear, CountsOK
  <2>4. CASE Next /\ ~clear /\ ~\E b \in Builder : Emit(b)
    BY <2>4, <2>1 DEF Next, Report, Copy, AddArgument, getEmpty, Destroy
  <2>5. CASE UNCHANGED vars
    BY <2>5, <2>1 DEF vars
  <2> QED
    BY <2>2, <2>3, <2>4, <2>5
<1> QED
  BY <1>1, <1>2, OneInFlight, TypeCorrect, PTL DEF Spec

-----------------------------------------------------------------------------
(* The refinement.                                                         *)

(* The holder of the diagnostic in flight is the one active builder.       *)
LEMMA HolderIs ==
  ASSUME NEW b, IsActive = {b}
  PROVE  Holder = b
BY DEF Holder

LEMMA NoArguments == Info(0) = [id |-> CurDiagID, args |-> << >>]
BY DEF Info

(* With nothing in flight, Flight is the empty diagnostic without an id.   *)
LEMMA NoFlight ==
  ASSUME CurDiagID = NUM_DIAGNOSTICS
  PROVE  Flight = ReportLog!Empty(NUM_DIAGNOSTICS)
BY NoArguments DEF Flight, ReportLog!Empty

LEMMA FlightOf ==
  ASSUME NEW b \in Builder, IsActive = {b}, InFlight
  PROVE  Flight = Info(NumArgs[b])
<1>1. CurDiagID # NUM_DIAGNOSTICS
  BY DEF InFlight
<1> QED
  BY <1>1, HolderIs DEF Flight

(* Implements: every step of the engine is a step of ReportLog or leaves   *)
(* the diagnostic in flight and the log of delivered ones as they are.     *)
THEOREM Implements == Spec => ImplementsLog
<1>1. Init => ReportLog!Init
  BY NoFlight DEF Init, ReportLog!Init
<1>2. TypeOK /\ Room /\ InFlight /\ InFlight' /\ [Next]_vars => [ReportLog!Next]_ReportLog!vars
  <2> SUFFICES ASSUME TypeOK, Room, InFlight, InFlight', [Next]_vars
               PROVE  [ReportLog!Next]_ReportLog!vars
    OBVIOUS
  <2> DEFINE Stutter == Flight' = Flight /\ emitted' = emitted
  <2>0. Stutter => UNCHANGED ReportLog!vars
    BY DEF ReportLog!vars
  <2>1. ASSUME NEW b \in Builder, NEW site \in CallSites, Report(b, site)
        PROVE  ReportLog!Open(site[1])
    <3>1. Flight.id = NUM_DIAGNOSTICS
      BY <2>1 DEF Report, Flight, Info
    <3>2. IsActive' = {b} /\ NumArgs'[b] = 0 /\ CurDiagID' = site[1]
      BY <2>1 DEF Report, InFlight, TypeOK
    <3>3. CurDiagID' # NUM_DIAGNOSTICS /\ Holder' = b
      BY <3>2 DEF InFlight, Holder
    <3>4. Flight' = [id |-> site[1], args |-> << >>]
      BY <3>2, <3>3 DEF Flight, Info
    <3> QED
      BY <2>1, <3>1, <3>4 DEF Report, consumer, ReportLog!Open, ReportLog!Empty
  <2>2. ASSUME NEW b \in Builder, NEW d \in Builder, Copy(b, d)
        PROVE  Stutter
    <3>1. emitted' = emitted /\ CurDiagID' = CurDiagID /\ DiagArguments' = DiagArguments
      BY <2>2 DEF Copy, consumer, engine
    <3>2. CASE CurDiagID = NUM_DIAGNOSTICS
      BY <3>1, <3>2 DEF Flight, Info
    <3>3. CASE CurDiagID # NUM_DIAGNOSTICS
      <4>1. PICK c \in Builder : IsActive = {c}
        BY <3>3 DEF InFlight
      <4>2. CASE c = d
        <5>1. IsActive' = {b} /\ NumArgs'[b] = NumArgs[d]
          BY <2>2, <4>1, <4>2 DEF Copy, TypeOK
        <5> QED
          BY <3>1, <3>3, <4>1, <4>2, <5>1 DEF Flight, Holder, Info
      <4>3. CASE c # d
        <5>1. IsActive' = {c} /\ NumArgs'[c] = NumArgs[c]
          BY <2>2, <4>1, <4>3 DEF Copy, TypeOK, InFlight
        <5> QED
          BY <3>1, <3>3, <4>1, <5>1 DEF Flight, Holder, Info
      <4> QED
        BY <4>2, <4>3
    <3> QED
      BY <3>2, <3>3
  <2>3. ASSUME NEW b \in Builder, AddArgument(b)
        PROVE  Head(want) \in ArgumentValue /\ ReportLog!Add(Head(want))
    <3> DEFINE k == Head(want)
               n == NumArgs[b]
               old == [i \in 1..n |-> DiagArguments[i - 1]]
               new == [i \in 1..(n + 1) |-> DiagArguments'[i - 1]]
    <3>1. IsActive = {b} /\ IsActive' = {b} /\ CurDiagID' = CurDiagID
      BY <2>3 DEF AddArgument, InFlight
    <3>2. n \in 0..(MaxArguments - 1) /\ NumArgs'[b] = n + 1
      BY <2>3, TailOf, DiagnosticAssumption DEF AddArgument, TypeOK, Room
    <3>3. Flight = [id |-> CurDiagID, args |-> old]
      BY <3>1, FlightOf DEF Info
    <3>4. Flight' = [id |-> CurDiagID, args |-> new]
      BY <3>1, <3>2 DEF Flight, Holder, Info, InFlight
    <3>5. new = Append(old, k)
      BY <2>3, <3>2, DiagnosticAssumption DEF AddArgument, TypeOK, Index
    <3>6. Flight.id # NUM_DIAGNOSTICS /\ Flight' = [Flight EXCEPT !.args = Append(@, k)]
      <4> HIDE DEF old, new, k
      <4>1. CurDiagID # NUM_DIAGNOSTICS
        BY <3>1 DEF InFlight
      <4>2. Flight.id = CurDiagID /\ Flight.args = old
        BY <3>3
      <4>3. [Flight EXCEPT !.args = Append(@, k)] = [id |-> CurDiagID, args |-> Append(old, k)]
        BY <3>3
      <4> QED
        BY ONLY <3>4, <3>5, <4>1, <4>2, <4>3
    <3> QED
      BY <2>3, <3>6, TailOf DEF AddArgument, consumer, TypeOK, ReportLog!Add
  <2>4. ASSUME NEW b \in Builder, getEmpty(b)
        PROVE  Stutter
    <3>1. CASE CurDiagID = NUM_DIAGNOSTICS
      BY <2>4, <3>1 DEF getEmpty, engine, consumer, Flight, Info
    <3>2. CASE CurDiagID # NUM_DIAGNOSTICS
      <4>1. PICK c \in Builder : IsActive = {c}
        BY <3>2 DEF InFlight
      <4>2. NumArgs'[c] = NumArgs[c] /\ IsActive' = {c}
        BY <2>4, <4>1 DEF getEmpty, InFlight, TypeOK
      <4> QED
        BY <2>4, <3>2, <4>1, <4>2 DEF getEmpty, engine, consumer, Flight, Holder, Info
    <3> QED
      BY <3>1, <3>2
  <2>5. ASSUME NEW b \in Builder, Emit(b)
        PROVE  ReportLog!Deliver
    <3>1. IsActive = {b} /\ CurDiagID # NUM_DIAGNOSTICS
      BY <2>5 DEF Emit, EmitCurrentDiagnostic, FlushCounts, InFlight
    <3>2. Flight = Info(NumArgs[b])
      BY <3>1, FlightOf
    <3>3. emitted' = Append(emitted, Flight)
      BY <2>5, <3>2 DEF Emit, EmitCurrentDiagnostic, FlushCounts, Info
    <3>4. Flight' = ReportLog!Empty(NUM_DIAGNOSTICS)
      BY <2>5 DEF Emit, EmitCurrentDiagnostic, FlushCounts, Flight, Info, ReportLog!Empty
    <3>5. Flight.id # NUM_DIAGNOSTICS
      BY <3>1, <3>2 DEF Info
    <3> QED
      BY <3>3, <3>4, <3>5 DEF ReportLog!Deliver
  <2>6. ASSUME NEW b \in Builder, Destroy(b)
        PROVE  Stutter
    BY <2>6 DEF Destroy, engine, consumer, Flight, Holder, Info
  <2>7. CASE clear
    BY <2>7, <2>0 DEF clear, engine, builders, Flight, Holder, Info
  <2>8. CASE UNCHANGED vars
    BY <2>8, <2>0 DEF vars, engine, builders, consumer, Flight, Holder, Info
  <2>9. CASE \E b \in Builder : \E site \in CallSites : Report(b, site)
    BY <2>1, <2>9, CallSiteArguments DEF ReportLog!Next
  <2>10. CASE \E b \in Builder : AddArgument(b)
    BY <2>3, <2>10 DEF ReportLog!Next
  <2>11. CASE \E b \in Builder : Emit(b)
    BY <2>5, <2>11 DEF ReportLog!Next
  <2>12. CASE \E b \in Builder : getEmpty(b) \/ Destroy(b) \/ \E d \in Builder : Copy(b, d)
    BY <2>0, <2>2, <2>4, <2>6, <2>12
  <2> QED
    BY <2>7, <2>8, <2>9, <2>10, <2>11, <2>12 DEF Next
<1>3. Init => Room
  BY DEF Init, Room
<1>4. TypeOK /\ InFlight /\ Room /\ [Next]_vars => Room'
  BY RoomNext
<1> QED
  BY <1>1, <1>2, <1>3, <1>4, OneInFlight, TypeCorrect, PTL DEF Spec, ImplementsLog, ReportLog!Spec

=============================================================================
