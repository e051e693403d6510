------------------------------- MODULE MCOhci -------------------------------
(* Model checking of Ohci. *)
EXTENDS Ohci, TLC

\* The units of the pool are interchangeable.
Symmetry == Permutations(Unit)

\* Bound: units that failed submissions have forgotten.
MaxOrphan == 1
FewLost == Cardinality(orphan) <= MaxOrphan

\* A behaviour is followed until a callback submits a transfer again while
\* its ED is being removed: what that leads to is the subject of MCOhciQuit.
NotAgain == again = {}
==============================================================================
