---------------------------- MODULE WarmJobProofs ----------------------------
(***************************************************************************)
(* What holds of okibi warm and of the jobs around it for any plan, any    *)
(* services and limits, any sample and whatever the origins answer.        *)
(***************************************************************************)
EXTENDS WarmJob, FiniteSetTheorems, Numbers

-----------------------------------------------------------------------------
(* okibi warm.                                                             *)

\* The services before the one at hand are over, those after it untouched.
OneByOne ==
  \A i \in DOMAIN Services, e \in Entries : Plan[e] = Services[i] =>
    /\ i < turn => task[e] \in {"ok", "failed"}
    /\ i > turn => task[e] = "none"

\* Of the service at hand the entries are taken from the first on, no more of
\* them than there are permits, one of them at most waits for its gap, and since
\* the last spawn at least as much time has gone by as the loop has slept.
AtHand ==
  Running =>
    /\ \A d, e \in Mine : d < e /\ task[e] # "none" => task[d] # "none"
    /\ Cardinality(Permits) <= Concurrency(Services[turn])
    /\ \A d, e \in In("held") : d = e
    /\ In("held") # {} => slept <= since

WarmInv == TypeOK /\ OneByOne /\ AtHand

\* Entries are numbers, finitely many, and each is of one service.
LEMMA PlanFacts ==
  /\ Len(Plan) \in Nat /\ Entries = 1..Len(Plan) /\ IsFiniteSet(Entries)
  /\ \A e \in Entries : \E i \in DOMAIN Services : Plan[e] = Services[i]
  /\ Len(Services) \in Nat /\ DOMAIN Services = 1..Len(Services)
<1> USE CliWarmAssumption
<1>1. /\ Len(Plan) \in Nat /\ Entries = 1..Len(Plan)
      /\ Len(Services) \in Nat /\ DOMAIN Services = 1..Len(Services)
  BY DEF Entries
<1>2. IsFiniteSet(Entries)
  BY <1>1, FS_Interval
<1>3. ASSUME NEW e \in Entries PROVE \E i \in DOMAIN Services : Plan[e] = Services[i]
  <2>1. Plan[e] \in Limited
    BY DEF Entries
  <2> QED
    BY <2>1 DEF Limited
<1> QED
  BY <1>1, <1>2, <1>3

\* Permits are finitely many.
LEMMA PermitsFinite == IsFiniteSet(Permits)
<1>1. Permits \subseteq Entries
  BY DEF Permits, In, Mine, EntriesOf
<1> QED
  BY <1>1, PlanFacts, FS_Subset

\* Limits are numbers.
LEMMA LimitsAreNumbers ==
  ASSUME NEW s \in Limited
  PROVE  Concurrency(s) \in Nat \ {0} /\ Gap(s) \in Nat
<1> USE CliWarmAssumption
<1>1. Stated(s).concurrency \in Nat /\ Stated(s).rate \in Nat
  BY DEF Stated, Default
<1>2. Concurrency(s) \in Nat \ {0}
  BY <1>1 DEF Concurrency, AtLeastOne
<1>3. ASSUME NEW rate \in Nat, rate > 0 PROVE Second \div rate \in Nat
  <2>1. /\ Second \div rate \in Int
        /\ Second % rate \in 0..(rate - 1)
        /\ Second = rate * (Second \div rate) + (Second % rate)
    BY <1>3, DivMod
  <2>2. (-1) * rate < (Second \div rate) * rate
    BY <1>3, <2>1
  <2>3. -1 < Second \div rate
    BY <1>3, <2>1, <2>2, MulCancel
  <2> QED
    BY <2>1, <2>3
<1>4. Gap(s) \in Nat
  BY <1>1, <1>3 DEF Gap
<1> QED
  BY <1>2, <1>4

LEMMA WarmInit == Init => WarmInv
<1> SUFFICES ASSUME Init PROVE WarmInv
  OBVIOUS
<1> USE CliWarmAssumption
<1>1. TypeOK
  BY PlanFacts DEF Init, TypeOK
<1>2. OneByOne
  BY PlanFacts DEF Init, OneByOne
<1>3. AtHand
  <2>1. Permits = {} /\ In("held") = {}
    BY DEF Init, Permits, In, Mine, EntriesOf
  <2>2. Running => Services[turn] \in Limited
    BY PlanFacts DEF Init, Running, Limited
  <2> QED
    BY <2>1, <2>2, FS_EmptySet, LimitsAreNumbers DEF Init, AtHand, Mine, EntriesOf
<1> QED
  BY <1>1, <1>2, <1>3 DEF WarmInv

-----------------------------------------------------------------------------
(* The steps of okibi warm.                                                *)

\* The task of e goes on, and the other tasks stay as they are.
Moves(e, state) == task' = [task EXCEPT ![e] = state]

\* A task of the service at hand keeps the services one by one.
LEMMA MovesAtHand ==
  ASSUME TypeOK, OneByOne, Running, NEW e \in Mine, NEW state, Moves(e, state), turn' = turn
  PROVE  OneByOne'
<1>1. /\ e \in Entries /\ Plan[e] = Services[turn]
      /\ turn \in DOMAIN Services
  BY PlanFacts DEF Mine, EntriesOf, Running, TypeOK
<1>2. \A i \in DOMAIN Services : Plan[e] = Services[i] => i = turn
  BY <1>1, CliWarmAssumption
<1>3. \A d \in Entries \ {e} : task'[d] = task[d]
  BY DEF Moves, TypeOK
<1> QED
  BY <1>2, <1>3, PlanFacts DEF OneByOne, TypeOK

\* A task with a permit is of the service at hand.
LEMMA PermitIsMine ==
  ASSUME TypeOK, OneByOne, NEW e \in Entries, task[e] \in {"held", "flying"}
  PROVE  Running /\ e \in Mine
<1>1. PICK i \in DOMAIN Services : Plan[e] = Services[i]
  BY PlanFacts
<1>2. i = turn
  BY <1>1, PlanFacts DEF OneByOne, TypeOK
<1> QED
  BY <1>1, <1>2, PlanFacts DEF Running, Mine, EntriesOf, TypeOK

\* The loop takes a permit for the next entry.
LEMMA StepAcquire ==
  ASSUME WarmInv, NEW e \in Entries, Acquire(e)
  PROVE  WarmInv'
<1> USE DEF WarmInv
<1>1. PICK state \in {"held", "flying"} : Moves(e, state)
  BY DEF Acquire, Spawn, Moves
<1>2. /\ Running /\ e \in Mine /\ task[e] = "none" /\ In("held") = {}
      /\ turn' = turn /\ attempt' = attempt /\ slept' = 0 /\ since' \in {0, since}
      /\ \A d \in Mine : task[d] = "none" => e <= d
      /\ Cardinality(Permits) < Concurrency(Services[turn])
  BY DEF Acquire, NextEntry, Spawn, In
<1>3. TypeOK'
  BY <1>1, <1>2 DEF TypeOK, Moves
<1>4. OneByOne'
  BY <1>1, <1>2, MovesAtHand
<1>5. Mine' = Mine /\ Running' /\ Mine \subseteq Entries
  BY <1>2 DEF Mine, EntriesOf, Running
<1>6. task'[e] = state /\ \A d \in Entries \ {e} : task'[d] = task[d]
  BY <1>1 DEF Moves, TypeOK
<1>7. Permits' = Permits \union {e} /\ e \notin Permits
  BY <1>1, <1>2, <1>5, <1>6 DEF Permits, In
<1>8. Cardinality(Permits)' <= Concurrency(Services[turn])
  <2>1. Cardinality(Permits) \in Nat /\ Cardinality(Permits') = Cardinality(Permits) + 1
    BY <1>7, PermitsFinite, FS_AddElement, FS_CardinalityType
  <2>2. Concurrency(Services[turn]) \in Nat
    BY <1>2, PlanFacts, LimitsAreNumbers DEF TypeOK, Running, Limited
  <2> QED
    BY <1>2, <2>1, <2>2
<1>9. \A d, b \in Mine : d < b /\ task'[b] # "none" => task'[d] # "none"
  <2> SUFFICES ASSUME NEW d \in Mine, NEW b \in Mine, d < b, task'[b] # "none"
               PROVE  task'[d] # "none"
    OBVIOUS
  <2>1. e \in Int /\ d \in Int /\ b \in Int
    BY <1>5, PlanFacts
  <2>2. CASE b = e
    BY <1>1, <1>2, <1>5, <1>6, <2>1, <2>2
  <2>3. CASE b # e
    BY <1>1, <1>2, <1>5, <1>6, <2>1, <2>3 DEF AtHand
  <2> QED
    BY <2>2, <2>3
<1>10. \A d, b \in In("held")' : d = b
  BY <1>2, <1>5, <1>6 DEF In
<1>11. AtHand'
  BY <1>2, <1>5, <1>8, <1>9, <1>10 DEF AtHand, TypeOK
<1> QED
  BY <1>3, <1>4, <1>11

\* The gap is over: a task that held its permit is spawned.
LEMMA StepWake ==
  ASSUME WarmInv, NEW e \in Entries, Wake(e)
  PROVE  WarmInv'
<1> USE DEF WarmInv
<1>1. /\ Running /\ e \in Mine /\ task[e] = "held" /\ Moves(e, "flying") /\ since' = 0
      /\ turn' = turn /\ attempt' = attempt /\ slept' = slept
  BY DEF Wake, Spawn, Moves, In
<1>2. TypeOK'
  BY <1>1 DEF TypeOK, Moves
<1>3. OneByOne'
  BY <1>1, MovesAtHand
<1>4. Mine' = Mine /\ Running' /\ Mine \subseteq Entries
  BY <1>1 DEF Mine, EntriesOf, Running
<1>5. task'[e] = "flying" /\ \A d \in Entries \ {e} : task'[d] = task[d]
  BY <1>1 DEF Moves, TypeOK
<1>6. Permits' = Permits /\ In("held")' = {}
  BY <1>1, <1>4, <1>5 DEF Permits, In, AtHand
<1>7. AtHand'
  BY <1>1, <1>4, <1>5, <1>6 DEF AtHand
<1> QED
  BY <1>2, <1>3, <1>7

\* A GET ends: the task is done, or tries again.
LEMMA StepGet ==
  ASSUME WarmInv, NEW e \in Entries, Get(e)
  PROVE  WarmInv'
<1> USE CliWarmAssumption DEF WarmInv
<1>1. /\ task[e] = "flying" /\ turn' = turn /\ slept' = slept /\ since' = since
      /\ \/ attempt' = attempt /\ \E state \in {"ok", "failed"} : Moves(e, state)
         \/ ~Spent(e) /\ attempt' = [attempt EXCEPT ![e] = @ + 1] /\ task' = task
  BY DEF Get, Fetched, Failed, Moves
<1>2. Running /\ e \in Mine
  BY <1>1, PermitIsMine
<1>3. CASE ~Spent(e) /\ attempt' = [attempt EXCEPT ![e] = @ + 1] /\ task' = task
  <2>1. TypeOK'
    BY <1>1, <1>3 DEF TypeOK, Spent
  <2>2. OneByOne' /\ AtHand'
    BY <1>1, <1>3 DEF OneByOne, AtHand, Running, Mine, EntriesOf, In, Permits
  <2> QED
    BY <2>1, <2>2
<1>4. ASSUME NEW state \in {"ok", "failed"}, Moves(e, state), attempt' = attempt
      PROVE  WarmInv'
  <2>1. TypeOK'
    BY <1>1, <1>4 DEF TypeOK, Moves
  <2>2. OneByOne'
    BY <1>1, <1>2, <1>4, MovesAtHand
  <2>3. Mine' = Mine /\ Running' /\ Mine \subseteq Entries
    BY <1>1, <1>2 DEF Mine, EntriesOf, Running
  <2>4. task'[e] = state /\ \A d \in Entries \ {e} : task'[d] = task[d]
    BY <1>4 DEF Moves, TypeOK
  <2>5. In("held")' = In("held") /\ Permits' = Permits \ {e}
    BY <1>1, <2>3, <2>4 DEF In, Permits
  <2>6. Cardinality(Permits)' <= Cardinality(Permits)
    BY <2>5, PermitsFinite, FS_Subset
  <2>7. Cardinality(Permits)' <= Concurrency(Services[turn])
    <3>1. Cardinality(Permits) \in Nat /\ Cardinality(Permits)' \in Nat
      BY <2>5, PermitsFinite, FS_CardinalityType, FS_RemoveElement
    <3>2. Concurrency(Services[turn]) \in Nat
      BY <1>2, PlanFacts, LimitsAreNumbers DEF TypeOK, Running, Limited
    <3> QED
      BY <1>2, <2>6, <3>1, <3>2 DEF AtHand
  <2>8. \A d, b \in Mine : d < b /\ task'[b] # "none" => task'[d] # "none"
    BY <1>1, <1>2, <2>3, <2>4 DEF AtHand
  <2>9. AtHand'
    BY <1>1, <1>2, <2>3, <2>5, <2>7, <2>8 DEF AtHand
  <2> QED
    BY <2>1, <2>2, <2>9
<1> QED
  BY <1>1, <1>3, <1>4

\* Every task of the service at hand is over: the next service.
LEMMA StepJoin ==
  ASSUME WarmInv, Join
  PROVE  WarmInv'
<1> USE DEF WarmInv
<1>1. /\ Running /\ In("none") = {} /\ Permits = {} /\ turn' = turn + 1
      /\ slept' = 0 /\ since' = 0 /\ task' = task /\ attempt' = attempt
  BY DEF Join
<1>2. TypeOK'
  BY <1>1, PlanFacts DEF TypeOK, Running
<1>3. \A e \in Mine : task[e] \in {"ok", "failed"}
  BY <1>1 DEF In, Permits, Mine, EntriesOf, TypeOK
<1>4. OneByOne'
  <2> SUFFICES ASSUME NEW i \in DOMAIN Services, NEW e \in Entries, Plan[e] = Services[i]
               PROVE  /\ i < turn + 1 => task[e] \in {"ok", "failed"}
                      /\ i > turn + 1 => task[e] = "none"
    BY <1>1 DEF OneByOne
  <2>1. i = turn => e \in Mine
    BY DEF Mine, EntriesOf
  <2> QED
    BY <1>3, <2>1, PlanFacts DEF OneByOne, TypeOK
<1>5. ASSUME Running' PROVE \A e \in Mine' : task'[e] = "none"
  <2>1. turn' \in DOMAIN Services
    BY <1>2, <1>5, PlanFacts DEF TypeOK, Running
  <2>2. turn' > turn
    BY <1>1 DEF TypeOK
  <2>3. \A e \in Mine' : e \in Entries /\ Plan[e] = Services[turn']
    BY DEF Mine, EntriesOf
  <2>4. \A e \in Mine' : task[e] = "none"
    BY <2>1, <2>2, <2>3 DEF OneByOne
  <2> QED
    BY <1>1, <2>4
<1>6. AtHand'
  <2> SUFFICES ASSUME Running' PROVE AtHand'
    BY DEF AtHand
  <2>1. In("held")' = {} /\ Permits' = {}
    BY <1>5 DEF In, Permits
  <2>2. Concurrency(Services[turn']) \in Nat
    <3>1. turn' \in DOMAIN Services
      BY <1>2, PlanFacts DEF TypeOK, Running
    <3>2. Services[turn'] \in Limited
      BY <3>1 DEF Limited
    <3> QED
      BY ONLY <3>2, LimitsAreNumbers
  <2>3. Cardinality(Permits') <= Concurrency(Services[turn'])
    BY <2>1, <2>2, FS_EmptySet
  <2> QED
    BY <1>5, <2>1, <2>3 DEF AtHand
<1> QED
  BY <1>2, <1>4, <1>6

\* Time goes by.
LEMMA StepTick ==
  ASSUME WarmInv, Tick
  PROVE  WarmInv'
<1> USE DEF WarmInv
<1>1. /\ Running /\ turn' = turn /\ task' = task /\ attempt' = attempt
      /\ since' = IF since < Gap(Services[turn]) THEN since + 1 ELSE since
      /\ slept' = IF In("held") # {} /\ slept < Gap(Services[turn]) THEN slept + 1 ELSE slept
      /\ since \in Nat /\ slept \in Nat
  BY DEF Tick, TypeOK
<1>2. Gap(Services[turn]) \in Nat
  BY <1>1, PlanFacts, LimitsAreNumbers DEF TypeOK, Running, Limited
<1>3. TypeOK'
  BY <1>1 DEF TypeOK
<1>4. OneByOne'
  BY <1>1 DEF OneByOne
<1>5. Mine' = Mine /\ In("held")' = In("held") /\ Permits' = Permits
  BY <1>1 DEF Mine, EntriesOf, In, Permits
<1>6. AtHand'
  BY <1>1, <1>2, <1>5 DEF AtHand
<1> QED
  BY <1>3, <1>4, <1>6

LEMMA WarmStep == WarmInv /\ [Next]_vars => WarmInv'
<1> SUFFICES ASSUME WarmInv, [Next]_vars PROVE WarmInv'
  OBVIOUS
<1>1. CASE UNCHANGED vars
  BY <1>1 DEF vars, WarmInv, TypeOK, OneByOne, AtHand, Running, Mine, EntriesOf, In, Permits
<1> QED
  BY <1>1, StepAcquire, StepWake, StepGet, StepJoin, StepTick DEF Next

LEMMA WarmInductive == Spec => []WarmInv
  BY WarmInit, WarmStep, PTL DEF Spec

-----------------------------------------------------------------------------
(* The properties of okibi warm.                                           *)

\* No service has more GETs under way than its concurrency.
THEOREM WarmWithinConcurrency == Spec => []WithinConcurrency
<1>1. WarmInv => WithinConcurrency
  <2> SUFFICES ASSUME WarmInv, NEW s \in Limited
               PROVE  Cardinality({e \in EntriesOf(s) : task[e] = "flying"}) <= Concurrency(s)
    BY DEF WithinConcurrency
  <2> USE DEF WarmInv
  <2> DEFINE flying == {e \in EntriesOf(s) : task[e] = "flying"}
  <2>1. Concurrency(s) \in Nat
    BY LimitsAreNumbers
  <2>2. CASE flying = {}
    BY <2>1, <2>2, FS_EmptySet
  <2>3. CASE flying # {}
    <3>1. PICK e \in Entries : Plan[e] = s /\ task[e] = "flying"
      BY <2>3 DEF EntriesOf
    <3>2. Running /\ s = Services[turn]
      BY <3>1, PermitIsMine DEF Mine, EntriesOf
    <3>3. flying \subseteq Permits
      BY <3>2 DEF Permits, In, Mine
    <3>4. Cardinality(flying) <= Cardinality(Permits)
      BY <3>3, PermitsFinite, FS_Subset
    <3>5. Cardinality(flying) \in Nat /\ Cardinality(Permits) \in Nat
      BY <3>3, PermitsFinite, FS_Subset, FS_CardinalityType
    <3> QED
      BY <2>1, <3>2, <3>4, <3>5 DEF AtHand
  <2> QED
    BY <2>2, <2>3
<1> QED
  BY <1>1, WarmInductive, PTL

\* The entries of a service are asked for in the order of the plan (warm.rs,
\* warm_service).
THEOREM WarmInOrder == Spec => []InOrder
<1>1. WarmInv => InOrder
  <2> SUFFICES ASSUME WarmInv, NEW d \in Entries, NEW e \in Entries,
                      Plan[d] = Plan[e], d < e, task[e] # "none"
               PROVE  task[d] # "none"
    BY DEF InOrder
  <2> USE DEF WarmInv
  <2>1. PICK k \in DOMAIN Services : Plan[e] = Services[k]
    BY PlanFacts
  <2>2. k <= turn
    BY <2>1, PlanFacts DEF OneByOne, TypeOK
  <2>3. CASE k < turn
    BY <2>1, <2>3 DEF OneByOne
  <2>4. CASE k = turn
    <3>1. Running /\ d \in Mine /\ e \in Mine
      BY <2>1, <2>4, PlanFacts DEF Running, Mine, EntriesOf
    <3> QED
      BY <3>1 DEF AtHand
  <2> QED
    BY <2>2, <2>3, <2>4, PlanFacts DEF TypeOK
<1> QED
  BY <1>1, WarmInductive, PTL

\* Two tasks of a service are spawned a gap apart.
THEOREM WarmSpawnsAreSpaced == Spec => SpawnsAreSpaced
<1> DEFINE Spaced(e) == since >= Gap(Plan[e]) \/ \A d \in EntriesOf(Plan[e]) \ {e} : task[d] = "none"
<1>1. ASSUME WarmInv, [Next]_vars, NEW e \in Entries, task[e] # "flying", task'[e] = "flying"
      PROVE  Spaced(e)
  <2> USE DEF WarmInv
  <2>1. ASSUME NEW f \in Entries, f # e, NEW state, Moves(f, state) PROVE FALSE
    BY <1>1, <2>1 DEF Moves, TypeOK
  <2>2. ASSUME NEW f \in Entries, Acquire(f) PROVE Spaced(e)
    <3>1. PICK state \in {"held", "flying"} : Moves(f, state)
      BY <2>2 DEF Acquire, Spawn, Moves
    <3>2. f = e
      BY <2>1, <3>1
    <3>3. /\ Running /\ e \in Mine
          /\ IF First(e) \/ Gap(Services[turn]) = 0 THEN TRUE
             ELSE task' = [task EXCEPT ![e] = "held"]
      BY <2>2, <3>2 DEF Acquire, NextEntry, In
    <3>4. Plan[e] = Services[turn] /\ Mine = EntriesOf(Plan[e])
      BY <3>3 DEF Mine, EntriesOf
    <3>5. First(e) \/ Gap(Plan[e]) = 0
      BY <1>1, <3>3, <3>4 DEF TypeOK
    <3>6. CASE First(e)
      BY <3>4, <3>6 DEF First
    <3>7. CASE Gap(Plan[e]) = 0
      BY <1>1, <3>7 DEF TypeOK
    <3> QED
      BY <3>5, <3>6, <3>7
  <2>3. ASSUME NEW f \in Entries, Wake(f) PROVE Spaced(e)
    <3>1. Moves(f, "flying")
      BY <2>3 DEF Wake, Spawn, Moves
    <3>2. f = e
      BY <2>1, <3>1
    <3>3. Running /\ e \in In("held") /\ slept >= Gap(Services[turn])
      BY <2>3, <3>2 DEF Wake, Sleep
    <3>4. Plan[e] = Services[turn] /\ Gap(Services[turn]) \in Nat
      BY <1>1, <3>3, PlanFacts, LimitsAreNumbers DEF In, Mine, EntriesOf, TypeOK, Running, Limited
    <3>5. slept <= since /\ slept \in Nat /\ since \in Nat
      BY <1>1, <3>3 DEF AtHand, TypeOK
    <3>6. since >= Gap(Services[turn])
      BY <3>3, <3>4, <3>5
    <3> QED
      BY <3>4, <3>6
  <2>4. ASSUME NEW f \in Entries, Get(f) PROVE FALSE
    BY <1>1, <2>4 DEF Get, Fetched, Failed, TypeOK
  <2>5. CASE Join \/ Tick \/ UNCHANGED vars
    BY <1>1, <2>5 DEF Join, Tick, vars
  <2> QED
    BY <1>1, <2>2, <2>3, <2>4, <2>5 DEF Next
<1>2. WarmInv /\ [Next]_vars =>
        [\A e \in Entries : task[e] # "flying" /\ task'[e] = "flying" => Spaced(e)]_vars
  BY <1>1
<1> QED
  BY <1>2, WarmInductive, PTL DEF Spec, SpawnsAreSpaced

-----------------------------------------------------------------------------
(* What the sample of verify reaches.                                      *)

\* A part that is not the whole is smaller.
LEMMA ProperPartIsSmaller ==
  ASSUME NEW S, IsFiniteSet(S), NEW T \in SUBSET S, T # S
  PROVE  Cardinality(T) < Cardinality(S)
<1>1. IsFiniteSet(T) /\ Cardinality(T) <= Cardinality(S) /\ Cardinality(T) # Cardinality(S)
  BY FS_Subset
<1>2. Cardinality(S) \in Nat /\ Cardinality(T) \in Nat
  BY <1>1, FS_CardinalityType
<1> QED
  BY <1>1, <1>2

\* Each place below the number of elements is the place of an element.
LEMMA PlacesTaken ==
  ASSUME NEW n \in Nat, NEW S \in SUBSET (1..n), NEW place \in 0..(Cardinality(S) - 1)
  PROVE  \E e \in S : Cardinality({d \in S : d < e}) = place
<1> DEFINE below(e) == {d \in S : d < e}
           rank == [e \in S |-> Cardinality(below(e))]
           T == 0..(Cardinality(S) - 1)
<1>1. IsFiniteSet(S) /\ Cardinality(S) \in Nat
  <2>1. IsFiniteSet(1..n)
    BY FS_Interval
  <2> QED
    BY <2>1, FS_Subset, FS_CardinalityType
<1>2. \A e \in S : IsFiniteSet(below(e)) /\ Cardinality(below(e)) \in Nat
  BY <1>1, FS_Subset, FS_CardinalityType
<1>3. \A e \in S : Cardinality(below(e)) < Cardinality(S)
  <2> TAKE e \in S
  <2>1. below(e) \in SUBSET S /\ below(e) # S
    OBVIOUS
  <2> QED
    BY <1>1, <2>1, ProperPartIsSmaller
<1>4. \A d, e \in S : d < e => Cardinality(below(d)) < Cardinality(below(e))
  <2> SUFFICES ASSUME NEW d \in S, NEW e \in S, d < e
               PROVE  Cardinality(below(d)) < Cardinality(below(e))
    OBVIOUS
  <2>1. below(d) \in SUBSET below(e)
    <3>1. \A c \in S : c \in Int /\ (c < d => c < e)
      OBVIOUS
    <3>2. \A c \in below(d) : c \in below(e)
      BY <3>1
    <3> QED
      BY <3>2
  <2>2. d \in below(e) /\ d \notin below(d)
    OBVIOUS
  <2> QED
    BY <1>2, <2>1, <2>2, ProperPartIsSmaller
<1> HIDE DEF below
<1>5. rank \in [S -> T]
  BY <1>1, <1>2, <1>3
<1>6. rank \in Injection(S, T)
  <2>1. ASSUME NEW d \in S, NEW e \in S, rank[d] = rank[e] PROVE d = e
    <3>1. Cardinality(below(d)) = Cardinality(below(e)) /\ Cardinality(below(d)) \in Nat
      BY <1>2, <2>1
    <3>2. ~(d < e) /\ ~(e < d)
      BY <1>4, <3>1
    <3> QED
      BY <3>2
  <2> QED
    BY <1>5, <2>1 DEF Injection, IsInjective
<1>7. IsFiniteSet(T) /\ Cardinality(T) = Cardinality(S)
  BY <1>1, FS_Interval
<1>8. rank \in Surjection(S, T)
  BY <1>6, <1>7, FS_Injection
<1>9. \E e \in S : rank[e] = place
  BY <1>8 DEF Surjection
<1> QED
  BY <1>9 DEF below

\* A service has entries, and its stride is that of a sample that covers them.
LEMMA StrideFacts ==
  ASSUME NEW s \in Limited
  PROVE  /\ Cardinality(EntriesOf(s)) \in Nat \ {0}
         /\ Want(s) \in Nat \ {0} /\ Stride(s) \in Nat \ {0}
         /\ Cardinality(EntriesOf(s)) <= Stride(s) * Want(s)
<1> DEFINE c == Cardinality(EntriesOf(s))
<1>1. EntriesOf(s) # {} /\ IsFiniteSet(EntriesOf(s))
  BY PlanFacts, FS_Subset, CliWarmAssumption DEF EntriesOf, Entries
<1>2. c \in Nat \ {0}
  BY <1>1, FS_CardinalityType, FS_EmptySet
<1> HIDE DEF c
<1>3. Want(s) \in Nat \ {0}
  BY <1>2, WarmJobAssumption DEF Want, AtLeastOne, c
<1>4. Stride(s) \in Nat /\ c <= Stride(s) * Want(s)
  BY <1>2, <1>3, CeilingCovers DEF Stride, c
<1>5. Stride(s) # 0
  BY <1>2, <1>3, <1>4
<1> QED
  BY <1>2, <1>3, <1>4, <1>5 DEF c

\* The entry a whole number of strides into its service is asked about.
LEMMA StridesAreSampled ==
  ASSUME NEW s \in Limited, NEW k \in Nat, k * Stride(s) < Cardinality(EntriesOf(s))
  PROVE  \E e \in EntriesOf(s) : Nth(e) = k * Stride(s) /\ e \in Sample
<1>1. /\ Cardinality(EntriesOf(s)) \in Nat /\ Want(s) \in Nat /\ Stride(s) \in Nat \ {0}
      /\ Cardinality(EntriesOf(s)) <= Stride(s) * Want(s)
  BY StrideFacts
<1>2. k * Stride(s) \in 0..(Cardinality(EntriesOf(s)) - 1)
  BY <1>1
<1>3. EntriesOf(s) \in SUBSET (1..Len(Plan)) /\ Len(Plan) \in Nat
  BY PlanFacts DEF EntriesOf
<1>4. PICK e \in EntriesOf(s) : Cardinality({d \in EntriesOf(s) : d < e}) = k * Stride(s)
  BY <1>2, <1>3, PlacesTaken
<1>5. e \in Entries /\ Plan[e] = s /\ Nth(e) = k * Stride(s)
  BY <1>4 DEF EntriesOf, Nth
<1>6. Nth(e) % Stride(Plan[e]) = 0
  BY <1>1, <1>5, ModOfMultiple
<1>7. Nth(e) < Want(Plan[e]) * Stride(Plan[e])
  BY <1>1, <1>5
<1> QED
  BY <1>4, <1>5, <1>6, <1>7 DEF Sample

\* A sample reaches the first entry of each service and any stretch as long as
\* its stride.
LEMMA SampleReaches ==
  ASSUME NEW s \in Limited
  PROVE  /\ \A e \in EntriesOf(s) : Nth(e) = 0 => e \in Sample
         /\ \A first \in 0..(Cardinality(EntriesOf(s)) - Stride(s)) :
              Stretch(s, first) \intersect Sample # {}
<1>1. /\ Cardinality(EntriesOf(s)) \in Nat /\ Want(s) \in Nat \ {0} /\ Stride(s) \in Nat \ {0}
  BY StrideFacts
<1>2. ASSUME NEW e \in EntriesOf(s), Nth(e) = 0 PROVE e \in Sample
  <2>1. e \in Entries /\ Plan[e] = s
    BY DEF EntriesOf
  <2>2. 0 % Stride(s) = 0
    BY <1>1, ModOfMultiple, 0 * Stride(s) = 0
  <2>3. 0 < Want(s) * Stride(s)
    BY <1>1
  <2> QED
    BY <1>2, <2>1, <2>2, <2>3 DEF Sample
<1>3. ASSUME NEW first \in 0..(Cardinality(EntriesOf(s)) - Stride(s))
      PROVE  Stretch(s, first) \intersect Sample # {}
  <2> DEFINE k == (first + Stride(s) - 1) \div Stride(s)
  <2>1. first \in Nat /\ first <= Cardinality(EntriesOf(s)) - Stride(s)
    BY <1>1
  <2>2. k \in Nat /\ first <= k * Stride(s)
    BY <1>1, <2>1, CeilingCovers
  <2>3. k * Stride(s) <= first + Stride(s) - 1
    <3>1. first + Stride(s) - 1 \in Int
      BY <1>1, <2>1
    <3>2. /\ first + Stride(s) - 1 = Stride(s) * k + ((first + Stride(s) - 1) % Stride(s))
          /\ (first + Stride(s) - 1) % Stride(s) \in 0..(Stride(s) - 1)
      BY <1>1, <3>1, DivMod
    <3> QED
      BY <1>1, <2>1, <2>2, <3>2
  <2> HIDE DEF k
  <2>4. k * Stride(s) \in Nat
    BY <1>1, <2>2
  <2>5. k * Stride(s) < Cardinality(EntriesOf(s))
    BY <1>1, <2>1, <2>3, <2>4
  <2>6. PICK e \in EntriesOf(s) : Nth(e) = k * Stride(s) /\ e \in Sample
    BY <2>2, <2>5, StridesAreSampled
  <2>7. e \in Stretch(s, first)
    BY <1>1, <2>1, <2>2, <2>3, <2>4, <2>6 DEF Stretch
  <2> QED
    BY <2>6, <2>7
<1> QED
  BY <1>2, <1>3

-----------------------------------------------------------------------------
(* The job: verify, and what it lets through.                              *)

\* What is gone and was asked about has said so or is remembered as silent;
\* only what is gone answers 4xx.
Answered ==
  \A e \in DOMAIN checked :
    /\ e \in job.gone /\ checked[e] # "4xx" => e \in silent
    /\ checked[e] = "4xx" => e \in job.gone

\* Past verify, all that is gone of the sample was silent, and only the warm
\* action has touched an entry.
PastVerify ==
  /\ stage \notin {"verifying", "refused"} => Sample \intersect job.gone \subseteq silent
  /\ stage # "warming" => \A e \in Entries : task[e] = "none"

JobInv ==
  /\ JobTypeOK
  /\ job \in [gone : Gone, seconds : Lengths, executor : BOOLEAN]
  /\ Answered
  /\ PastVerify
  /\ RightPlanNotRefused

\* Only what is gone is answered 4xx, a 405 to HEAD aside.
LEMMA AnswersAreAboutTheUrl ==
  ASSUME NEW e \in Entries, NEW s \in AskAnswers(e)
  PROVE  s \in {"ok", "4xx", "5xx", "none"} /\ (s = "4xx" => e \in job.gone)
<1>1. PICK h \in Answers(e, TRUE) : s \in (IF h = "405" THEN Answers(e, FALSE) ELSE {h})
  BY DEF AskAnswers
<1>2. CASE h = "405"
  BY <1>1, <1>2 DEF Answers
<1>3. CASE h # "405"
  BY <1>1, <1>3 DEF Answers
<1> QED
  BY <1>2, <1>3

LEMMA JobStarts == JobInit => JobInv
<1> SUFFICES ASSUME JobInit PROVE JobInv
  OBVIOUS
<1>1. TypeOK
  BY WarmInit DEF JobInit, WarmInv
<1>2. DOMAIN checked = {}
  BY DEF JobInit
<1>3. \A e \in Entries : task[e] = "none"
  BY DEF JobInit, Init
<1> QED
  BY <1>1, <1>2, <1>3
  DEF JobInit, JobInv, JobTypeOK, Answered, PastVerify, RightPlanNotRefused

\* verify asks about the next of its sample.
LEMMA StepAsk ==
  ASSUME JobInv, NEW e \in Entries, Ask(e)
  PROVE  JobInv'
<1> USE DEF JobInv
<1>1. /\ stage = "verifying" /\ stage' = stage /\ job' = job /\ task' = task
      /\ TypeOK' /\ e \in Sample /\ Sample' = Sample
  BY DEF Ask, Left, vars, JobTypeOK, TypeOK
<1>2. PICK s \in AskAnswers(e) :
        /\ checked' = [d \in DOMAIN checked \union {e} |-> IF d = e THEN s ELSE checked[d]]
        /\ silent' = IF e \in job.gone /\ s # "4xx" THEN silent \union {e} ELSE silent
  BY DEF Ask
<1>3. s \in {"ok", "4xx", "5xx", "none"} /\ (s = "4xx" => e \in job.gone)
  BY AnswersAreAboutTheUrl
<1>4. /\ DOMAIN checked' = DOMAIN checked \union {e}
      /\ checked'[e] = s /\ \A d \in DOMAIN checked \ {e} : checked'[d] = checked[d]
  BY <1>2
<1>5. silent \subseteq silent' /\ silent' \subseteq silent \union {e}
      /\ (e \in job.gone /\ s # "4xx" => e \in silent')
      /\ (e \notin job.gone => silent' = silent)
  BY <1>2
<1>6. JobTypeOK'
  BY <1>1, <1>3, <1>4, <1>5 DEF JobTypeOK
<1>7. Answered'
  BY <1>1, <1>3, <1>4, <1>5 DEF Answered
<1> QED
  BY <1>1, <1>6, <1>7 DEF PastVerify, RightPlanNotRefused

\* verify has its answers: the plan goes on, or it is refused.
LEMMA StepJudge ==
  ASSUME JobInv, Judge
  PROVE  JobInv'
<1> USE DEF JobInv
<1>1. /\ stage = "verifying" /\ job' = job /\ task' = task /\ silent' = silent
      /\ TypeOK' /\ Sample' = Sample /\ Sample \subseteq DOMAIN checked
      /\ stage' = IF Wrong THEN "refused" ELSE "planned"
  BY DEF Judge, Left, vars, JobTypeOK, TypeOK
<1>2. DOMAIN checked' = {}
  BY DEF Judge
<1>3. JobTypeOK' /\ Answered'
  BY <1>1, <1>2 DEF JobTypeOK, Answered
<1>4. ~Wrong => Sample \intersect job.gone \subseteq silent
  BY <1>1 DEF Wrong, Answered
<1>5. Wrong => job.gone # {}
  BY DEF Wrong, Answered
<1> QED
  BY <1>1, <1>3, <1>4, <1>5 DEF PastVerify, RightPlanNotRefused

\* The warm action chooses.
LEMMA StepChoose ==
  ASSUME JobInv, Choose
  PROVE  JobInv'
<1>1. /\ stage = "planned" /\ stage' \in {"handed", "too long", "warming"}
      /\ job' = job /\ checked' = checked /\ silent' = silent /\ task' = task
      /\ TypeOK' /\ Sample' = Sample
  BY DEF Choose, vars, JobInv, JobTypeOK, TypeOK
<1> QED
  BY <1>1 DEF JobInv, JobTypeOK, Answered, PastVerify, RightPlanNotRefused

LEMMA JobStep == JobInv /\ WarmInv /\ [JobNext]_allVars => JobInv'
<1> SUFFICES ASSUME JobInv, WarmInv, [JobNext]_allVars PROVE JobInv'
  OBVIOUS
<1>1. CASE Script
  BY <1>1, StepAsk, StepJudge, StepChoose DEF Script
<1>2. CASE Warm
  <2>1. /\ stage = "warming" /\ Sample' = Sample
        /\ job' = job /\ checked' = checked /\ silent' = silent /\ stage' = stage
    BY <1>2 DEF Warm, Within, jobVars
  <2>2. TypeOK'
    BY <1>2, WarmStep DEF Warm, Within, WarmInv
  <2> QED
    BY <2>1, <2>2 DEF JobInv, JobTypeOK, Answered, PastVerify, RightPlanNotRefused
<1>3. CASE UNCHANGED allVars
  BY <1>3 DEF allVars, vars, jobVars, JobInv, JobTypeOK, TypeOK, Answered, PastVerify,
              RightPlanNotRefused
<1> QED
  BY <1>1, <1>2, <1>3 DEF JobNext

\* In every job okibi warm runs as it does by itself: whatever verify and the
\* actions do around it, what holds of warm.rs holds in a workflow.
THEOREM JobRunsWarm == JobSpec => Spec
<1>1. JobInit => Init
  BY DEF JobInit
<1>2. [JobNext]_allVars => [Next]_vars
  BY DEF JobNext, Script, Ask, Judge, Choose, Warm, Within, allVars
<1> QED
  BY <1>1, <1>2, PTL DEF JobSpec, Spec

LEMMA JobInductive == JobSpec => []JobInv
<1>1. JobSpec => []WarmInv
  BY JobRunsWarm, WarmInductive, PTL
<1> QED
  BY <1>1, JobStarts, JobStep, PTL DEF JobSpec

\* The variables of the job and of okibi warm keep their shapes.
THEOREM JobTypeCorrect == JobSpec => []JobTypeOK
<1>1. JobInv => JobTypeOK
  BY DEF JobInv
<1> QED
  BY <1>1, JobInductive, PTL

\* verify.rs: "the first of each service always", the rest "spread evenly".  A
\* wrong plan is neither warmed nor handed over, for any plan and sample size.
THEOREM JobStopsWrongPlans == JobSpec => []WrongPlanNotWarmed
<1>1. ASSUME JobInv PROVE WrongPlanNotWarmed
  <2> SUFFICES
        ASSUME silent = {}, NEW s \in Limited,
               \/ \E e \in EntriesOf(s) \intersect job.gone : Nth(e) = 0
               \/ \E first \in 0..(Cardinality(EntriesOf(s)) - Stride(s)) :
                    Stretch(s, first) \subseteq job.gone
        PROVE  stage # "handed" /\ \A e \in Entries : task[e] = "none"
    BY DEF WrongPlanNotWarmed
  <2>1. Sample \intersect job.gone # {}
    BY SampleReaches
  <2>2. stage \in {"verifying", "refused"}
    BY <1>1, <2>1 DEF JobInv, PastVerify
  <2> QED
    BY <1>1, <2>2 DEF JobInv, PastVerify
<1> QED
  BY <1>1, JobInductive, PTL

\* verify.rs: "An origin is allowed to have a bad minute without a pull request
\* failing over it."  A plan whose URLs all exist is never refused.
THEOREM JobKeepsRightPlans == JobSpec => []RightPlanNotRefused
<1>1. JobInv => RightPlanNotRefused
  BY DEF JobInv
<1> QED
  BY <1>1, JobInductive, PTL
=============================================================================
