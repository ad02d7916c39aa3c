----------------------------- MODULE AtomicRecord -----------------------------
(***************************************************************************)
(* What docs/supervisor.md promises of desired.json: a record whose writers *)
(* each set one field, in one step, and keep the others as they are.  A    *)
(* fragile record may also be lost as a whole.                             *)
(***************************************************************************)
CONSTANTS
  Fields,   \* the fields that writers set
  Empty     \* the record that is left when it is lost

VARIABLES rec, fragile

recordVars == <<rec, fragile>>

\* f takes some value.
Set(f) == rec' = [rec EXCEPT ![f] = rec'[f]] /\ UNCHANGED fragile

Lose == fragile /\ rec' = Empty /\ UNCHANGED fragile

Init == fragile \in BOOLEAN     \* of any record

Next == (\E f \in Fields : Set(f)) \/ Lose

Spec == Init /\ [][Next]_recordVars
=============================================================================
