------------------------------ MODULE ReportLog ------------------------------
(***************************************************************************)
(* What the diagnostic engine promises to those who report: a diagnostic   *)
(* is opened, takes its arguments in the order they are given, and is      *)
(* delivered to the consumer once, complete, before the next is opened.    *)
(***************************************************************************)
EXTENDS Sequences

CONSTANTS ID, Kind,   \* the diagnostics, and what an argument can be
          None        \* in the place of an id: nothing is in flight

VARIABLES flight,     \* the diagnostic being put together
          log         \* those delivered

vars == <<flight, log>>

Empty(id) == [id |-> id, args |-> << >>]

Init == flight = Empty(None) /\ log = << >>

Open(id) ==
  /\ flight.id = None
  /\ flight' = Empty(id)
  /\ UNCHANGED log

Add(k) ==
  /\ flight.id # None
  /\ flight' = [flight EXCEPT !.args = Append(@, k)]
  /\ UNCHANGED log

Deliver ==
  /\ flight.id # None
  /\ log' = Append(log, flight)
  /\ flight' = Empty(None)

Next == (\E id \in ID : Open(id)) \/ (\E k \in Kind : Add(k)) \/ Deliver

Spec == Init /\ [][Next]_vars

=============================================================================
