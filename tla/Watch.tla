-------------------------------- MODULE Watch --------------------------------
(***************************************************************************)
(* actions/watch: a scheduled job that compares the epochs a service       *)
(* reports with those recorded in R2 by an earlier run, plans and hands    *)
(* over one plan per tileset that moved, and records what it saw.          *)
(*                                                                         *)
(* One run at a time: the workflow puts the job in a concurrency group     *)
(* that does not cancel (examples/service-workflow.yml).  The script runs  *)
(* under set -e, so a step that fails ends the run where it is.  The       *)
(* service's own deploys and upstreams move its epochs at any moment.      *)
(***************************************************************************)
EXTENDS Naturals, FiniteSets

CONSTANTS
  Tilesets,     \* the tilesets of the service
  Rank,         \* where the glob has the file named after each
  Versions,     \* what a tileset's epochs can be
  Absent,       \* the tileset is not in the epochs file
  Nothing,      \* no epochs file
  Unplannable,  \* tilesets whose plan is refused, by the planner or the executor
  MaxMoves,     \* bound: how often the service's epochs move
  MaxFailures,  \* bound: steps that fail for another reason
  MaxMisses     \* bound: reads of the record that fail though there is one

ASSUME WatchAssumption ==
  /\ Rank \in [Tilesets -> Nat]
  /\ \A t, u \in Tilesets : Rank[t] = Rank[u] => t = u
  /\ Absent \notin Versions
  /\ Nothing \notin [Tilesets -> Versions \union {Absent}]
  /\ MaxMoves \in Nat /\ MaxFailures \in Nat /\ MaxMisses \in Nat

VARIABLES
  served,    \* the epochs the service reports
  recorded,  \* okibi/epochs.json in the service's bucket
  stage,     \* how far the run is, or how the last one ended
  now,       \* .okibi/state/now.json
  todo,      \* the events the loop has left
  handed,    \* the plans handed over since the record was last written
  kept,      \* those of them stored in the bucket
  moves, failures, misses

run == <<stage, now, todo>>
plans == <<handed, kept>>
bounds == <<moves, failures, misses>>
vars == <<served, recorded, run, plans, bounds>>

EpochsFile == [Tilesets -> Versions \union {Absent}]

Resting == stage \in {"idle", "failed"}

-----------------------------------------------------------------------------

\* Slip: a tileset that is new counts as moved.
MovedOrNew(before, after) ==
  {t \in Tilesets : after[t] # Absent /\ after[t] # before[t]}

\* invalidations_between: the tilesets of both files whose epochs differ.
Moved(before, after) ==
  {t \in Tilesets : before[t] # Absent /\ after[t] # Absent /\ after[t] # before[t]}

\* Slip: the files are taken last name first.
FirstReversed(S) == {t \in S : \A u \in S : Rank[u] <= Rank[t]}

\* for event in .okibi/events/*.json: the names in order.
First(S) == {t \in S : \A u \in S : Rank[t] <= Rank[u]}

\* Slip: the record is written before the loop is through.
LoopOverEarly == TRUE

\* The loop has no event left.
LoopOver == todo = {}

Init ==
  /\ served \in EpochsFile
  /\ recorded = Nothing
  /\ stage = "idle" /\ now = Nothing /\ todo = {}
  /\ handed = {} /\ kept = {}
  /\ moves = 0 /\ failures = 0 /\ misses = 0

\* A deploy or an upstream moves a tileset's epochs, or adds a tileset.
Move(t) ==
  /\ moves < MaxMoves
  /\ moves' = moves + 1
  /\ \E v \in Versions \ {served[t]} : served' = [served EXCEPT ![t] = v]
  /\ UNCHANGED <<recorded, run, plans, failures, misses>>

\* Slip: a run finds the events of the one before it.
EndKeepingEvents(how) == stage' = how /\ now' = Nothing /\ UNCHANGED todo

\* The run ends, and its runner's disk is gone.
End(how) == stage' = how /\ now' = Nothing /\ todo' = {}

\* curl "$epochs-url" -o now.json
Start ==
  /\ Resting
  /\ stage' = "fetched" /\ now' = served
  /\ UNCHANGED <<served, recorded, todo, plans, bounds>>

\* `if ! r2 object get`: there is no record, or it could not be read.
Miss ==
  /\ stage = "fetched"
  /\ \/ recorded = Nothing /\ UNCHANGED misses
     \/ recorded # Nothing /\ misses < MaxMisses /\ misses' = misses + 1
  /\ stage' = "unrecorded"
  /\ UNCHANGED <<served, recorded, now, todo, plans, moves, failures>>

\* r2 object put: this is the record from here on.
Write == recorded' = now /\ handed' = {} /\ kept' = {}

\* "recording without planning"
RecordFirst ==
  /\ stage = "unrecorded"
  /\ Write /\ End("idle")
  /\ UNCHANGED <<served, bounds>>

\* The record is read and okibi invalidation writes its events.  With none of
\* them the glob stays as it is written, and the plan of that file fails.
Compare ==
  /\ stage = "fetched"
  /\ recorded # Nothing
  /\ IF Moved(recorded, now) = {}
     THEN End("failed")
     ELSE stage' = "looping" /\ todo' = Moved(recorded, now) /\ UNCHANGED now
  /\ UNCHANGED <<served, recorded, plans, bounds>>

Takes(t) == handed' = handed \union {<<t, now[t]>>}

\* okibi plan on the next event, and the executor takes the plan.
HandOver ==
  /\ stage = "looping"
  /\ \E t \in First(todo) : t \notin Unplannable /\ Takes(t)
  /\ stage' = "keeping"
  /\ UNCHANGED <<served, recorded, now, todo, kept, bounds>>

\* okibi plan refuses the next event, or the executor the plan.
Refuse ==
  /\ stage = "looping"
  /\ First(todo) \intersect Unplannable # {}
  /\ End("failed")
  /\ UNCHANGED <<served, recorded, plans, bounds>>

\* r2 object put of the plan, and planned=$((planned + 1)).
Keep ==
  /\ stage = "keeping"
  /\ \E t \in First(todo) : kept' = kept \union {<<t, now[t]>>} /\ todo' = todo \ {t}
  /\ stage' = "looping"
  /\ UNCHANGED <<served, recorded, now, handed, bounds>>

\* "Only now."
Record ==
  /\ stage = "looping"
  /\ LoopOver
  /\ Write /\ End("idle")
  /\ UNCHANGED <<served, bounds>>

\* A step fails, before or after what it asked for was done.
Break ==
  /\ ~Resting
  /\ failures < MaxFailures
  /\ failures' = failures + 1
  /\ End("failed")
  /\ \/ UNCHANGED <<recorded, plans>>
     \/ stage = "unrecorded" /\ Write
     \/ stage = "looping" /\ LoopOver /\ Write
     \/ /\ stage = "looping"
        /\ \E t \in First(todo) : t \notin Unplannable /\ Takes(t)
        /\ UNCHANGED <<recorded, kept>>
     \/ /\ stage = "keeping"
        /\ \E t \in First(todo) : kept' = kept \union {<<t, now[t]>>}
        /\ UNCHANGED <<recorded, handed>>
  /\ UNCHANGED <<served, moves, misses>>

\* What a run does next.
Step == Miss \/ RecordFirst \/ Compare \/ HandOver \/ Refuse \/ Keep \/ Record

Next == (\E t \in Tilesets : Move(t)) \/ Start \/ Step \/ Break

\* The schedule keeps starting runs, and a run is run to its end.
Fairness == WF_vars(Start) /\ WF_vars(Step)

Spec == Init /\ [][Next]_vars

FairSpec == Spec /\ Fairness

-----------------------------------------------------------------------------
(* Properties.                                                             *)

Plans == Tilesets \X Versions

\* Every variable has the shape the script gives it, and nothing of a run
\* outlives it.
TypeOK ==
  /\ served \in EpochsFile
  /\ recorded \in EpochsFile \union {Nothing}
  /\ stage \in {"idle", "failed", "fetched", "unrecorded", "looping", "keeping"}
  /\ now \in IF Resting THEN {Nothing} ELSE EpochsFile
  /\ todo \in IF stage \in {"looping", "keeping"} THEN SUBSET Tilesets ELSE {{}}
  /\ handed \subseteq Plans
  /\ kept \subseteq handed
  /\ moves \in 0..MaxMoves /\ failures \in 0..MaxFailures /\ misses \in 0..MaxMisses

RecordedIsHanded ==
  recorded # Nothing /\ recorded' # recorded =>
    \A t \in Moved(recorded, recorded') : <<t, recorded'[t]>> \in kept

\* "Only now": a run that read the record moves a tileset in it to another epoch
\* only when the plan for that epoch has been handed over, and kept.
LoopRecordsOnceHanded == [][stage # "unrecorded" => RecordedIsHanded]_vars

\* "Recording the change as seen before it has been handed over would mean a
\* failure here is never retried": so does every run, whatever it could read.
RecordedOnceHanded == [][RecordedIsHanded]_vars

\* Only what moved is warmed: between two records, each plan handed over is for
\* a tileset the record has at another epoch, never for a new one.
OnlyMovedIsHanded ==
  \A p \in handed : recorded # Nothing /\ recorded[p[1]] \notin {Absent, p[2]}

Reached(t) == \A u \in Unplannable : Rank[t] < Rank[u]

\* A tileset at an epoch that is not the recorded one has its plan handed over
\* or moves again, whatever fails on the way, as long as no tileset the glob has
\* before it is one that cannot be planned.  (A run that could not read the
\* record puts the epoch there with no plan.)
MoveIsHanded ==
  \A t \in Tilesets, v \in Versions :
    Reached(t) =>
      ((recorded # Nothing /\ served[t] = v /\ recorded[t] \notin {Absent, v})
         ~> (<<t, v>> \in handed \/ served[t] # v \/ (recorded # Nothing /\ recorded[t] = v)))

\* "How many plans were produced, which is zero when nothing moved" (the output
\* planned): a run in which nothing fails and nothing moved does not fail.
QuietRunSucceeds ==
  [][stage = "fetched" /\ stage' = "failed" =>
       failures' # failures \/ Moved(recorded, now) # {}]_vars
=============================================================================
