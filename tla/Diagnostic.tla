------------------------------ MODULE Diagnostic ------------------------------
(***************************************************************************)
(* The diagnostic engine, its builders and its consumer                    *)
(* (include/u-lang/Basic/Diagnostic.hpp, lib/Basic/Diagnostic.cpp).        *)
(*                                                                         *)
(* Report() hands out a DiagnosticBuilder.  Arguments streamed into the    *)
(* builder are written into arrays of the engine, but the builder counts   *)
(* them; copying a builder moves the diagnostic to the copy; destroying    *)
(* the one that holds it tells the engine the count and emits it.  The     *)
(* arrays are never cleared, so a wrong count shows arguments of an        *)
(* earlier diagnostic.                                                     *)
(*                                                                         *)
(* Clients keep the two rules that the engine asserts: one diagnostic in   *)
(* flight at a time, and nothing is streamed into a builder that does not  *)
(* hold one.  Not modelled: the location, the force flag (unused by        *)
(* EmitCurrentDiagnostic), and DiagObj, which is null exactly when the     *)
(* builder is not active.  Reset() has no effect when nothing is in        *)
(* flight, and nobody calls it otherwise.  How the consumer formats the    *)
(* diagnostic it is shown is the business of MessageFormat.                *)
(***************************************************************************)
EXTENDS DiagnosticIDs, FiniteSets

CONSTANTS
  Builder,        \* the builder objects of the clients
  ArgumentValue,  \* what can be streamed into them
  Junk,           \* what the arrays of a new engine hold
  MaxArguments,   \* 10 in the code
  CallSites,      \* what clients report: an id, and its arguments
  MaxReports      \* bound on the number of reports

ASSUME DiagnosticAssumption ==
  /\ MaxArguments \in Nat
  /\ Junk \in ArgumentValue
  /\ CallSites \subseteq DiagnosticID \X {a \in Seq(ArgumentValue) : Len(a) <= MaxArguments}
  /\ NUM_DIAGNOSTICS \notin DiagnosticID

VARIABLES
  CurDiagID, NumDiagArgs,    \* the engine
  DiagArguments,  \* its arrays DiagArgumentsKind, Str and Val, as one
  alive,          \* the builders that exist
  IsActive,       \* those that hold the diagnostic
  NumArgs,        \* of each builder
  want,           \* the arguments the client has still to stream
  counting,       \* the consumer counts; IgnoringDiagConsumer, or none, does not
  NumWarnings, NumErrors,
  emitted,        \* every Diagnostic that EmitCurrentDiagnostic has processed
  cleared         \* how many of them when the counts were last cleared

engine   == <<CurDiagID, NumDiagArgs, DiagArguments>>
builders == <<alive, IsActive, NumArgs, want>>
consumer == <<counting, NumWarnings, NumErrors, emitted, cleared>>
vars     == <<engine, builders, consumer>>

Index == 0..(MaxArguments - 1)

(* The definitions whose names end in _bug are mutants: what the           *)
(* definition after each would be with a mistake in it.  They are not part *)
(* of the specification.                                                   *)

(* A new engine: Reset() has set CurDiagID, the rest is uninitialised.     *)
Init ==
  /\ CurDiagID = NUM_DIAGNOSTICS
  /\ NumDiagArgs \in 0..MaxArguments
  /\ DiagArguments = [i \in Index |-> Junk]
  /\ alive = {}
  /\ IsActive = {}
  /\ NumArgs = [b \in Builder |-> 0]
  /\ want = << >>
  /\ counting \in BOOLEAN
  /\ NumWarnings = 0
  /\ NumErrors = 0
  /\ emitted = << >>
  /\ cleared = 0

Report(b, site) ==
  /\ CurDiagID = NUM_DIAGNOSTICS       \* the assertion in Report()
  /\ Len(emitted) < MaxReports
  /\ b \notin alive
  /\ CurDiagID' = site[1]
  /\ want' = site[2]
  /\ alive' = alive \union {b}
  /\ IsActive' = IsActive \union {b}
  /\ NumArgs' = [NumArgs EXCEPT ![b] = 0]
  /\ UNCHANGED <<NumDiagArgs, DiagArguments, consumer>>

(* getEmpty()                                                              *)
getEmpty(b) ==
  /\ b \notin alive
  /\ alive' = alive \union {b}
  /\ NumArgs' = [NumArgs EXCEPT ![b] = 0]
  /\ UNCHANGED <<engine, IsActive, want, consumer>>

(* The copy constructor: c takes over what d holds, if anything.           *)
Copy_bug(c, d) ==                      \* no D.Clear()
  /\ c \notin alive /\ d \in alive
  /\ alive' = alive \union {c}
  /\ IsActive' = IF d \in IsActive THEN IsActive \union {c} ELSE IsActive
  /\ NumArgs' = [NumArgs EXCEPT ![c] = NumArgs[d]]
  /\ UNCHANGED <<engine, want, consumer>>

Copy(c, d) ==
  /\ c \notin alive /\ d \in alive
  /\ alive' = alive \union {c}
  /\ IsActive' = IF d \in IsActive THEN (IsActive \ {d}) \union {c} ELSE IsActive
  /\ NumArgs' = [NumArgs EXCEPT ![c] = NumArgs[d]]
  /\ UNCHANGED <<engine, want, consumer>>

(* AddString and AddTaggedVal, called by operator<<.  Their assertion that *)
(* NumArgs is below MaxArguments is no guard here: TypeOK shows it.        *)
AddArgument(b) ==
  /\ b \in IsActive
  /\ want # << >>
  /\ DiagArguments' = [DiagArguments EXCEPT ![NumArgs[b]] = Head(want)]
  /\ NumArgs' = [NumArgs EXCEPT ![b] = @ + 1]
  /\ want' = Tail(want)
  /\ UNCHANGED <<CurDiagID, NumDiagArgs, alive, IsActive, consumer>>

(* What getNumArgs(), getArgKind() and the accessors of the arguments show *)
(* of the current diagnostic.                                              *)
Info(n) == [id |-> CurDiagID, args |-> [i \in 1..n |-> DiagArguments[i - 1]]]

HandleDiagnostic_bug(level) ==
  /\ NumWarnings' = NumWarnings + (IF counting /\ level = "Warning" THEN 1 ELSE 0)
  /\ NumErrors' = NumErrors + (IF counting /\ level = "Error" THEN 1 ELSE 0)

HandleDiagnostic(level) ==
  /\ NumWarnings' = NumWarnings + (IF counting /\ level = "Warning" THEN 1 ELSE 0)
  /\ NumErrors' = NumErrors + (IF counting /\ level \in {"Error", "Fatal"} THEN 1 ELSE 0)

EmitCurrentDiagnostic_bug(n) ==        \* ended before it is handled
  /\ CurDiagID' = NUM_DIAGNOSTICS
  /\ HandleDiagnostic(Table[CurDiagID].Level)
  /\ emitted' = Append(emitted, [Info(n) EXCEPT !.id = CurDiagID'])

EmitCurrentDiagnostic(n) ==
  /\ HandleDiagnostic(Table[CurDiagID].Level)
  /\ emitted' = Append(emitted, Info(n))
  /\ CurDiagID' = NUM_DIAGNOSTICS

FlushCounts_bug(b) == UNCHANGED NumDiagArgs

FlushCounts(b) == NumDiagArgs' = NumArgs[b]

(* The destructor of the builder that holds the diagnostic: Emit() flushes *)
(* the count, EmitCurrentDiagnostic() calls the consumer and ends it.      *)
Emit(b) ==
  /\ b \in IsActive /\ want = << >>
  /\ FlushCounts(b)
  /\ EmitCurrentDiagnostic(NumDiagArgs')
  /\ IsActive' = IsActive \ {b}
  /\ alive' = alive \ {b}
  /\ UNCHANGED <<DiagArguments, NumArgs, want, counting, cleared>>

(* The destructor of any other builder: its soul was stolen.               *)
Destroy(b) ==
  /\ b \in alive \ IsActive
  /\ alive' = alive \ {b}
  /\ UNCHANGED <<engine, IsActive, NumArgs, want, consumer>>

(* DiagnosticConsumer::clear()                                             *)
clear ==
  /\ NumWarnings' = 0
  /\ NumErrors' = 0
  /\ cleared' = Len(emitted)
  /\ UNCHANGED <<engine, builders, counting, emitted>>

Next ==
  \/ \E b \in Builder :
       \/ \E site \in CallSites : Report(b, site)
       \/ \E d \in Builder : Copy(b, d)
       \/ AddArgument(b) \/ getEmpty(b) \/ Emit(b) \/ Destroy(b)
  \/ clear

Spec == Init /\ [][Next]_vars

-----------------------------------------------------------------------------
(* TypeOK: every member holds a value of its type; no builder counts more  *)
(* arguments than the arrays of the engine have room for.                  *)
TypeOK ==
  /\ CurDiagID \in DiagnosticID \union {NUM_DIAGNOSTICS}
  /\ NumDiagArgs \in 0..MaxArguments
  /\ DiagArguments \in [Index -> ArgumentValue]
  /\ alive \subseteq Builder
  /\ IsActive \subseteq Builder
  /\ NumArgs \in [Builder -> 0..MaxArguments]
  /\ want \in Seq(ArgumentValue)
  /\ counting \in BOOLEAN
  /\ NumWarnings \in Nat
  /\ NumErrors \in Nat
  /\ emitted \in Seq([id : DiagnosticID, args : Seq(ArgumentValue)])
  /\ cleared \in 0..Len(emitted)

(* InFlight: while a diagnostic is in flight exactly one builder, and one  *)
(* that still exists, holds it; otherwise none does.  Copies and           *)
(* destructors in any order neither lose the diagnostic nor emit it twice, *)
(* and the engine is always free again for the next Report().              *)
InFlight ==
  /\ IsActive \subseteq alive
  /\ CurDiagID = NUM_DIAGNOSTICS => IsActive = {}
  /\ CurDiagID # NUM_DIAGNOSTICS => \E b \in Builder : IsActive = {b}

(* CountsOK: a counting consumer has counted each warning and each error   *)
(* or fatal error emitted since it was cleared, and nothing else.          *)
Since(levels) ==
  {i \in (cleared + 1)..Len(emitted) : Table[emitted[i].id].Level \in levels}

CountsOK ==
  /\ NumWarnings = IF counting THEN Cardinality(Since({"Warning"})) ELSE 0
  /\ NumErrors = IF counting THEN Cardinality(Since({"Error", "Fatal"})) ELSE 0

(* ImplementsLog: what reaches the consumer is, diagnostic by diagnostic,  *)
(* what was reported, with the arguments that were streamed into whatever  *)
(* builder held it at the time, in that order and no others.               *)
Holder == CHOOSE b \in IsActive : TRUE

Flight == Info(IF CurDiagID = NUM_DIAGNOSTICS THEN 0 ELSE NumArgs[Holder])

ReportLog == INSTANCE ReportLog WITH
  ID <- DiagnosticID, Kind <- ArgumentValue, None <- NUM_DIAGNOSTICS,
  flight <- Flight, log <- emitted

ImplementsLog == ReportLog!Spec

=============================================================================
