----------------------------- MODULE VersionLog -----------------------------
(***************************************************************************)
(* What a patch chain promises: a growing history of versions, and readers   *)
(* that are only ever shown versions of it, in order.  A reader's pass ends  *)
(* at any time and a new pass starts at the beginning.                       *)
(***************************************************************************)
EXTENDS Naturals, Sequences

CONSTANTS States,     \* the versions there can be
          Form(_),    \* the form in which a version is shown
          Nothing     \* what a reader that was shown nothing yet has

VARIABLES history,    \* the versions published
          at,         \* number of the version shown, 0 for none
          shown       \* the version shown

vars == <<history, at, shown>>

Init == history = <<>> /\ at = 0 /\ shown = Nothing

Publish ==
  /\ \E s \in States : history' = Append(history, s)
  /\ UNCHANGED <<at, shown>>

Show ==
  \E k \in 1..Len(history) :
    /\ k >= at
    /\ at' = k
    /\ shown' = Form(history[k])
    /\ UNCHANGED history

EndPass == at' = 0 /\ shown' = Nothing /\ UNCHANGED history

Next == Publish \/ Show \/ EndPass

Spec == Init /\ [][Next]_vars
=============================================================================
