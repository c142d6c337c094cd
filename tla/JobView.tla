------------------------------ MODULE JobView ------------------------------
(***************************************************************************)
(* What the window promises the user about a job: one job at a time, its    *)
(* progress counted from 0 one entry after another up to an announced       *)
(* total, never beyond it and never backwards.                              *)
(***************************************************************************)
EXTENDS Integers

VARIABLES
  busy,     \* a job is under way
  shown,    \* the progress the user sees
  of        \* the total it is measured against

view == <<busy, shown, of>>

Blank == shown = -1 /\ of = 100

ViewInit == ~busy /\ Blank

NewWindow == ~busy /\ UNCHANGED busy /\ Blank'

Begin == ~busy /\ busy' /\ shown' = 0 /\ UNCHANGED of

\* The total is told before anything is counted against it.
Announce == busy /\ shown = 0 /\ of' \in Nat /\ UNCHANGED <<busy, shown>>

Advance == busy /\ shown < of /\ shown' = shown + 1 /\ UNCHANGED <<busy, of>>

\* The job ends, or the window goes away with it.
End == busy /\ ~busy' /\ (UNCHANGED <<shown, of>> \/ Blank')

ViewNext == NewWindow \/ Begin \/ Announce \/ Advance \/ End

ViewSpec == ViewInit /\ [][ViewNext]_view
=============================================================================
