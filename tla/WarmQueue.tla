----------------------------- MODULE WarmQueue -----------------------------
(***************************************************************************)
(* What the executor promises of the entries it is handed, whatever its    *)
(* queue, its batches and its pools look like (workers/executor/src/       *)
(* index.ts): an entry is done when its own tile has been warmed, it is    *)
(* dropped only when it has been tried as often as it may be, no tile is   *)
(* fetched of an entry it did not take in, and every entry ends.           *)
(***************************************************************************)
EXTENDS Naturals

CONSTANTS
  Messages,  \* the entries of all plans
  MaxTries   \* deliveries of one entry, the first included

VARIABLES
  fate,   \* what has become of each entry
  tries,  \* how often each has been tried
  warm    \* the entries whose tile has been generated

vars == <<fate, tries, warm>>

Init ==
  /\ fate = [m \in Messages |-> "outside"]
  /\ tries = [m \in Messages |-> 0]
  /\ warm = {}

Pending == {m \in Messages : fate[m] = "pending"}

Fates == {"outside", "pending", "done", "dropped"}

\* Entries are taken in.
TakeIn ==
  /\ fate' \in [Messages -> Fates]
  /\ \A m \in Messages : fate'[m] = fate[m] \/ (fate[m] = "outside" /\ fate'[m] = "pending")
  /\ UNCHANGED <<tries, warm>>

\* Pending entries are tried once more.
Try ==
  /\ tries' \in [Messages -> 0..MaxTries]
  /\ \A m \in Messages : tries'[m] = tries[m] \/ (m \in Pending /\ tries'[m] = tries[m] + 1)
  /\ UNCHANGED <<fate, warm>>

\* An entry ends: done with its own tile warm, or dropped after its last try.
Ends(m) ==
  /\ fate[m] = "pending"
  /\ \/ fate'[m] = "done" /\ m \in warm'
     \/ fate'[m] = "dropped" /\ tries[m] = MaxTries

\* Tiles of entries that are being tried get generated, and entries end.
Conclude ==
  /\ warm \subseteq warm'
  /\ \A m \in warm' \ warm : m \in Pending /\ tries[m] > 0
  /\ fate' \in [Messages -> Fates]
  /\ \A m \in Messages : fate'[m] = fate[m] \/ Ends(m)
  /\ UNCHANGED tries

Next == TakeIn \/ Try \/ Conclude

Spec == Init /\ [][Next]_vars

\* The abstract specification and its liveness: what is taken in ends.
Promise ==
  /\ Spec
  /\ \A m \in Messages : (fate[m] = "pending") ~> (fate[m] \in {"done", "dropped"})
=============================================================================
