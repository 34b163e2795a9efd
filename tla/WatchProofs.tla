----------------------------- MODULE WatchProofs -----------------------------
(***************************************************************************)
(* What holds of Watch for any tilesets, epochs, order of the glob, and    *)
(* numbers of moves and failures.                                          *)
(***************************************************************************)
EXTENDS Watch, TLAPS

InLoop == stage \in {"looping", "keeping"}

\* What a run knows inside its loop: each tileset that moved is still to come
\* or has had its plan kept, and while one is being kept it was handed over.
LoopInv ==
  /\ InLoop =>
       /\ recorded # Nothing
       /\ todo \subseteq Moved(recorded, now)
       /\ \A t \in Moved(recorded, now) \ todo : <<t, now[t]>> \in kept
  /\ stage = "keeping" => \A t \in First(todo) : <<t, now[t]>> \in handed

IInv == TypeOK /\ OnlyMovedIsHanded /\ LoopInv

\* The glob has one name first.
LEMMA OneFirst ==
  ASSUME NEW S \in SUBSET Tilesets, NEW t \in First(S), NEW u \in First(S)
  PROVE  t = u
<1>1. Rank[t] <= Rank[u] /\ Rank[u] <= Rank[t]
  BY DEF First
<1>2. t \in Tilesets /\ u \in Tilesets
  BY DEF First
<1> QED
  BY <1>1, <1>2, WatchAssumption

\* The service, in its first state, and the job before its first run satisfy IInv.
LEMMA InitInv == Init => IInv
  BY WatchAssumption
     DEF Init, IInv, TypeOK, OnlyMovedIsHanded, LoopInv, InLoop, Resting, EpochsFile, Plans

\* Every step of the service, of a run and of a failure keeps IInv.
LEMMA StepInv == IInv /\ [Next]_vars => IInv'
<1> SUFFICES ASSUME IInv, [Next]_vars PROVE IInv'
  OBVIOUS
<1> USE DEF IInv
<1>1. ASSUME NEW t \in Tilesets, Move(t) PROVE IInv'
  <2>0. PICK v \in Versions : served' = [served EXCEPT ![t] = v]
    BY <1>1 DEF Move
  <2>a. served' \in EpochsFile
    BY <2>0 DEF TypeOK, EpochsFile
  <2>b. moves' \in 0..MaxMoves
    BY <1>1, WatchAssumption DEF Move, TypeOK
  <2>1. TypeOK'
    BY <1>1, <2>a, <2>b DEF Move, TypeOK, run, plans, Resting
  <2>2. OnlyMovedIsHanded' /\ LoopInv'
    BY <1>1 DEF Move, OnlyMovedIsHanded, LoopInv, InLoop, run, plans, First, Moved
  <2> QED BY <2>1, <2>2
<1>2. CASE Start
  <2>1. TypeOK'
    BY <1>2 DEF Start, TypeOK, plans, bounds, Resting, EpochsFile
  <2>2. OnlyMovedIsHanded' /\ LoopInv'
    BY <1>2 DEF Start, OnlyMovedIsHanded, LoopInv, InLoop, plans
  <2> QED BY <2>1, <2>2
<1>3. CASE Miss
  <2>1. TypeOK'
    BY <1>3, WatchAssumption DEF Miss, TypeOK, plans, Resting, EpochsFile
  <2>2. OnlyMovedIsHanded' /\ LoopInv'
    BY <1>3 DEF Miss, OnlyMovedIsHanded, LoopInv, InLoop, plans
  <2> QED BY <2>1, <2>2
<1>4. CASE RecordFirst
  <2>1. TypeOK'
    BY <1>4 DEF RecordFirst, Write, End, TypeOK, bounds, Resting, EpochsFile
  <2>2. OnlyMovedIsHanded' /\ LoopInv'
    BY <1>4 DEF RecordFirst, Write, End, OnlyMovedIsHanded, LoopInv, InLoop
  <2> QED BY <2>1, <2>2
<1>5. CASE Compare
  <2>1. Moved(recorded, now) \in SUBSET Tilesets
    BY DEF Moved
  <2>2. TypeOK'
    BY <1>5, <2>1 DEF Compare, End, TypeOK, plans, bounds, Resting, EpochsFile
  <2>3. OnlyMovedIsHanded' /\ LoopInv'
    BY <1>5 DEF Compare, End, OnlyMovedIsHanded, LoopInv, InLoop, plans, Moved
  <2> QED BY <2>2, <2>3
<1>6. CASE HandOver
  <2>1. PICK t \in First(todo) : handed' = handed \union {<<t, now[t]>>}
    BY <1>6 DEF HandOver, Takes
  <2>2. /\ t \in Tilesets /\ now \in EpochsFile /\ now[t] \in Versions
        /\ recorded # Nothing /\ recorded[t] \notin {Absent, now[t]}
    BY <1>6 DEF HandOver, First, LoopInv, InLoop, Moved, TypeOK, Resting, EpochsFile
  <2>3. TypeOK'
    BY <1>6, <2>1, <2>2 DEF HandOver, TypeOK, bounds, Resting, Plans
  <2>4. OnlyMovedIsHanded'
    BY <1>6, <2>1, <2>2 DEF HandOver, OnlyMovedIsHanded
  <2>5. todo \in SUBSET Tilesets
    BY <1>6 DEF HandOver, TypeOK
  <2>6. LoopInv'
    BY <1>6, <2>1, <2>5, OneFirst DEF HandOver, LoopInv, InLoop, First, Moved
  <2> QED BY <2>3, <2>4, <2>6
<1>7. CASE Refuse
  <2>1. TypeOK'
    BY <1>7 DEF Refuse, End, TypeOK, plans, bounds, Resting
  <2>2. OnlyMovedIsHanded' /\ LoopInv'
    BY <1>7 DEF Refuse, End, OnlyMovedIsHanded, LoopInv, InLoop, plans
  <2> QED BY <2>1, <2>2
<1>8. CASE Keep
  <2>1. PICK t \in First(todo) : kept' = kept \union {<<t, now[t]>>} /\ todo' = todo \ {t}
    BY <1>8 DEF Keep
  <2>2. <<t, now[t]>> \in handed
    BY <1>8 DEF Keep, LoopInv
  <2>3. TypeOK'
    BY <1>8, <2>1, <2>2 DEF Keep, TypeOK, bounds, Resting
  <2>4. OnlyMovedIsHanded' /\ LoopInv'
    BY <1>8, <2>1 DEF Keep, OnlyMovedIsHanded, LoopInv, InLoop, Moved
  <2> QED BY <2>3, <2>4
<1>9. CASE Record
  <2>1. TypeOK'
    BY <1>9 DEF Record, Write, End, TypeOK, bounds, Resting, EpochsFile
  <2>2. OnlyMovedIsHanded' /\ LoopInv'
    BY <1>9 DEF Record, Write, End, OnlyMovedIsHanded, LoopInv, InLoop
  <2> QED BY <2>1, <2>2
<1>10. CASE Break
  <2>1. /\ stage' = "failed" /\ now' = Nothing /\ todo' = {}
        /\ failures' \in 0..MaxFailures
        /\ UNCHANGED <<served, moves, misses>>
    BY <1>10, WatchAssumption DEF Break, End, TypeOK
  <2>2. now \in EpochsFile
    BY <1>10 DEF Break, TypeOK
  <2>3. CASE UNCHANGED <<recorded, plans>>
    BY <2>1, <2>3 DEF TypeOK, OnlyMovedIsHanded, LoopInv, InLoop, plans, Resting
  <2>4. CASE Write
    BY <2>1, <2>2, <2>4 DEF Write, TypeOK, OnlyMovedIsHanded, LoopInv, InLoop, Resting
  <2>5. CASE /\ stage = "looping"
             /\ \E t \in First(todo) : t \notin Unplannable /\ Takes(t)
             /\ UNCHANGED <<recorded, kept>>
    <3>1. PICK t \in First(todo) : handed' = handed \union {<<t, now[t]>>}
      BY <2>5 DEF Takes
    <3>2. /\ t \in Tilesets /\ now[t] \in Versions
          /\ recorded # Nothing /\ recorded[t] \notin {Absent, now[t]}
      BY <2>2, <2>5 DEF First, LoopInv, InLoop, Moved, TypeOK, EpochsFile
    <3>3. TypeOK'
      BY <2>1, <2>5, <3>1, <3>2 DEF TypeOK, Resting, Plans
    <3>4. OnlyMovedIsHanded'
      BY <2>5, <3>1, <3>2 DEF OnlyMovedIsHanded
    <3>5. LoopInv'
      BY <2>1 DEF LoopInv, InLoop
    <3> QED BY <3>3, <3>4, <3>5
  <2>6. CASE /\ stage = "keeping"
             /\ \E t \in First(todo) : kept' = kept \union {<<t, now[t]>>}
             /\ UNCHANGED <<recorded, handed>>
    <3>1. kept' \subseteq handed
      BY <2>6 DEF LoopInv, TypeOK
    <3>2. TypeOK'
      BY <2>1, <2>6, <3>1 DEF TypeOK, Resting
    <3>3. OnlyMovedIsHanded' /\ LoopInv'
      BY <2>1, <2>6 DEF OnlyMovedIsHanded, LoopInv, InLoop
    <3> QED BY <3>2, <3>3
  <2> QED BY <1>10, <2>3, <2>4, <2>5, <2>6 DEF Break
<1>11. CASE UNCHANGED vars
  BY <1>11 DEF vars, run, plans, bounds, TypeOK, OnlyMovedIsHanded, LoopInv, InLoop, First,
               Moved, Resting
<1> QED
  BY <1>1, <1>2, <1>3, <1>4, <1>5, <1>6, <1>7, <1>8, <1>9, <1>10, <1>11 DEF Next, Step

\* IInv holds of every reachable state.
LEMMA Inductive == Spec => []IInv
  BY InitInv, StepInv, PTL DEF Spec

\* TypeOK holds of every reachable state: what the script's variables range
\* over, and that nothing of a run outlives it.
THEOREM WatchTypeCorrect == Spec => []TypeOK
<1>1. IInv => TypeOK
  BY DEF IInv
<1> QED
  BY <1>1, Inductive, PTL

\* No plan is handed over for a tileset that is new or has not moved.
THEOREM OnlyMovedHanded == Spec => []OnlyMovedIsHanded
<1>1. IInv => OnlyMovedIsHanded
  BY DEF IInv
<1> QED
  BY <1>1, Inductive, PTL

\* A run that read the record writes no epoch into it whose plan has not been
\* handed over and kept, whichever of its steps fail.
THEOREM RecordsOnceHanded == Spec => LoopRecordsOnceHanded
<1>1. IInv /\ [Next]_vars => (stage # "unrecorded" => RecordedIsHanded)
  <2> SUFFICES ASSUME IInv, [Next]_vars, stage # "unrecorded",
                      recorded # Nothing, recorded' # recorded
               PROVE  \A t \in Moved(recorded, recorded') : <<t, recorded'[t]>> \in kept
    BY DEF RecordedIsHanded
  <2>1. stage = "looping" /\ LoopOver /\ recorded' = now
    BY DEF Next, Step, Move, Start, Miss, RecordFirst, Compare, HandOver, Refuse, Keep, Record,
           Break, Write, vars
  <2> QED
    BY <2>1 DEF IInv, LoopInv, InLoop, LoopOver
<1>2. (stage # "unrecorded" => RecordedIsHanded) => [stage # "unrecorded" => RecordedIsHanded]_vars
  OBVIOUS
<1> QED
  BY <1>1, <1>2, Inductive, PTL DEF Spec, LoopRecordsOnceHanded
=============================================================================
