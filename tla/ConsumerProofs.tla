--------------------------- MODULE ConsumerProofs ---------------------------
(***************************************************************************)
(* What holds of Consumer for any messages, services, limits and numbers   *)
(* of invocations, batches, retries and deaths.                            *)
(***************************************************************************)
EXTENDS Consumer, FiniteSetTheorems, Numbers

\* A delivered batch is a function on 1..n, of queued messages, none of them twice.
LEMMA BatchShape ==
  ASSUME NEW b \in Batches
  PROVE  /\ \E n \in 1..MaxBatchSize : b \in [1..n -> Queued]
         /\ \A i, j \in DOMAIN b : b[i] = b[j] => i = j
  BY DEF Batches

\* An idle invocation holds the batch of no message.
LEMMA EmptyBatch == <<>> \in [1..0 -> Messages] /\ DOMAIN <<>> = {}
  OBVIOUS

\* TypeOK holds of every reachable state.
THEOREM TypeCorrect == Spec => []TypeOK
<1>1. Init => TypeOK
  <2> SUFFICES ASSUME Init PROVE TypeOK
    OBVIOUS
  <2>1. <<>> \in UNION {[1..n -> Messages] : n \in 0..MaxBatchSize}
    BY EmptyBatch, ConsumerAssumption
  <2>2. batch \in [Invocations -> UNION {[1..n -> Messages] : n \in 0..MaxBatchSize}]
    BY <2>1 DEF Init
  <2>3. \A k \in Invocations : fetch[k] \in [DOMAIN batch[k] -> {"waiting", "flying", "ok", "failed"}]
    BY EmptyBatch DEF Init
  <2>4. /\ status \in [Messages -> {"unsent", "queued", "leased", "acked", "dead"}]
        /\ attempts \in [Messages -> Nat]
        /\ DOMAIN fetch = Invocations
        /\ warm \subseteq Messages \ Gone
    BY DEF Init
  <2>5. kills \in 0..MaxKills
    BY ConsumerAssumption DEF Init
  <2> QED
    BY <2>2, <2>3, <2>4, <2>5 DEF TypeOK
<1>2. TypeOK /\ [Next]_vars => TypeOK'
  <2> SUFFICES ASSUME TypeOK, [Next]_vars PROVE TypeOK'
    OBVIOUS
  <2> USE ConsumerAssumption
  <2>1. ASSUME NEW S \in SUBSET Messages, Enqueue(S) PROVE TypeOK'
    BY <2>1 DEF Enqueue, TypeOK
  <2>2. ASSUME NEW k \in Invocations, Deliver(k) PROVE TypeOK'
    <3>1. PICK b \in Batches :
            /\ batch' = [batch EXCEPT ![k] = b]
            /\ fetch' = [fetch EXCEPT ![k] = Started(b)]
            /\ status' = [m \in Messages |-> IF m \in {b[i] : i \in DOMAIN b} THEN "leased" ELSE status[m]]
            /\ attempts' = [m \in Messages |-> IF m \in {b[i] : i \in DOMAIN b} THEN attempts[m] + 1 ELSE attempts[m]]
      BY <2>2 DEF Deliver
    <3>2. PICK n \in 1..MaxBatchSize : b \in [1..n -> Messages]
      BY BatchShape DEF Queued
    <3>3. b \in UNION {[1..l -> Messages] : l \in 0..MaxBatchSize}
      BY <3>2
    <3>4. Started(b) \in [DOMAIN b -> {"waiting", "flying", "ok", "failed"}]
      BY DEF Started
    <3>5. batch' \in [Invocations -> UNION {[1..l -> Messages] : l \in 0..MaxBatchSize}]
      BY <3>1, <3>3 DEF TypeOK
    <3>6. \A l \in Invocations : fetch'[l] \in [DOMAIN batch'[l] -> {"waiting", "flying", "ok", "failed"}]
      BY <3>1, <3>4 DEF TypeOK
    <3>7. status' \in [Messages -> {"unsent", "queued", "leased", "acked", "dead"}]
          /\ attempts' \in [Messages -> Nat]
      BY <3>1 DEF TypeOK
    <3> QED
      BY <2>2, <3>1, <3>5, <3>6, <3>7 DEF Deliver, TypeOK
  <2>3. ASSUME NEW k \in Invocations, Over(k)
        PROVE  /\ batch' \in [Invocations -> UNION {[1..l -> Messages] : l \in 0..MaxBatchSize}]
               /\ DOMAIN fetch' = Invocations
               /\ \A l \in Invocations : fetch'[l] \in [DOMAIN batch'[l] -> {"waiting", "flying", "ok", "failed"}]
    <3>1. <<>> \in UNION {[1..l -> Messages] : l \in 0..MaxBatchSize}
      BY EmptyBatch
    <3>2. <<>> \in [DOMAIN <<>> -> {"waiting", "flying", "ok", "failed"}]
      BY EmptyBatch
    <3> QED
      BY <2>3, <3>1, <3>2 DEF Over, TypeOK
  <2>4. ASSUME NEW k \in Invocations, Settle(k) PROVE TypeOK'
    BY <2>3, <2>4 DEF Settle, TypeOK, Retried
  <2>5. ASSUME NEW k \in Invocations, Kill(k) PROVE TypeOK'
    <3>1. warm' \subseteq Messages \ Gone
      <4>1. {batch[k][i] : i \in Flying(k)} \subseteq Messages
        BY DEF Flying, TypeOK
      <4> QED BY <2>5, <4>1 DEF Kill, TypeOK
    <3>2. status' \in [Messages -> {"unsent", "queued", "leased", "acked", "dead"}]
      BY <2>5 DEF Kill, TypeOK, Retried
    <3>3. kills' \in 0..MaxKills
      BY <2>5 DEF Kill, TypeOK
    <3> QED
      BY <2>3, <2>5, <3>1, <3>2, <3>3 DEF Kill, TypeOK
  <2>6. ASSUME NEW k \in Invocations, NEW i \in DOMAIN batch[k], Return(k, i) PROVE TypeOK'
    <3>1. PICK outcome \in GetOutcomes(batch[k][i]) :
            /\ fetch' = [fetch EXCEPT ![k] =
                 [j \in DOMAIN batch[k] |->
                    IF j = i THEN outcome
                    ELSE IF j \in NextItem(batch[k], fetch[k], i) THEN "flying" ELSE fetch[k][j]]]
            /\ warm' = IF outcome = "ok" THEN warm \union {batch[k][i]} ELSE warm
      BY <2>6 DEF Return
    <3>2. outcome \in {"ok", "failed"} /\ (outcome = "ok" => batch[k][i] \notin Gone)
      BY DEF GetOutcomes
    <3>3. batch[k][i] \in Messages
      BY DEF TypeOK
    <3>4. \A l \in Invocations : fetch'[l] \in [DOMAIN batch[l] -> {"waiting", "flying", "ok", "failed"}]
      BY <3>1, <3>2 DEF TypeOK
    <3> QED
      BY <2>6, <3>1, <3>2, <3>3, <3>4 DEF Return, TypeOK
  <2>7. CASE UNCHANGED vars
    BY <2>7 DEF vars, TypeOK
  <2> QED
    BY <2>1, <2>2, <2>4, <2>5, <2>6, <2>7 DEF Next, Drain
<1> QED
  BY <1>1, <1>2, PTL DEF Spec

-----------------------------------------------------------------------------
(* What the model's queue keeps of a message and what its invocations hold *)
(* fit.  This says nothing of the Worker: no duplicate delivery is in the  *)
(* model.  The results below need it, to know whose outcome a message got. *)

\* A message is leased exactly while one position of one live batch holds it.
LeasedOnce ==
  /\ \A m \in Messages : (status[m] = "leased") <=> (\E k \in Invocations : m \in Leased(k))
  /\ \A k, l \in Invocations : \A i \in DOMAIN batch[k], j \in DOMAIN batch[l] :
       batch[k][i] = batch[l][j] => k = l /\ i = j

\* Giving a batch back keeps LeasedOnce, when it takes the lease off exactly
\* the messages of that batch.
LEMMA GiveBack ==
  ASSUME TypeOK, LeasedOnce, NEW k \in Invocations, Over(k),
         \A m \in Messages : IF m \in Leased(k) THEN status'[m] # "leased"
                             ELSE status'[m] = status[m]
  PROVE  LeasedOnce'
<1>1. /\ batch'[k] = <<>> /\ DOMAIN batch'[k] = {}
      /\ \A l \in Invocations \ {k} : batch'[l] = batch[l]
  BY EmptyBatch DEF Over, TypeOK
<1>2. ASSUME NEW m \in Messages
      PROVE  (status'[m] = "leased") <=> (\E l \in Invocations : m \in Leased(l)')
  <2>1. CASE m \in Leased(k)
    <3>1. \A l \in Invocations \ {k} : m \notin Leased(l)
      BY <2>1 DEF Leased, LeasedOnce
    <3> QED
      BY <1>1, <2>1, <3>1 DEF Leased
  <2>2. CASE m \notin Leased(k)
    BY <1>1, <2>2 DEF Leased, LeasedOnce
  <2> QED
    BY <2>1, <2>2
<1>3. \A l, n \in Invocations : \A i \in DOMAIN batch'[l], j \in DOMAIN batch'[n] :
        batch'[l][i] = batch'[n][j] => l = n /\ i = j
  BY <1>1 DEF LeasedOnce
<1> QED
  BY <1>2, <1>3 DEF LeasedOnce

\* Every step of the model keeps the two in agreement.
LEMMA LeasesAgree == Spec => []LeasedOnce
<1>1. Init => LeasedOnce
  BY EmptyBatch DEF Init, LeasedOnce, Leased
<1>2. TypeOK /\ LeasedOnce /\ [Next]_vars => LeasedOnce'
  <2> SUFFICES ASSUME TypeOK, LeasedOnce, [Next]_vars PROVE LeasedOnce'
    OBVIOUS
  <2>1. ASSUME NEW S \in SUBSET Messages, Enqueue(S) PROVE LeasedOnce'
    <3>1. \A m \in Messages : (status'[m] = "leased") <=> (status[m] = "leased")
      BY <2>1 DEF Enqueue, TypeOK
    <3> QED
      BY <2>1, <3>1 DEF Enqueue, LeasedOnce, Leased
  <2>2. ASSUME NEW k \in Invocations, Deliver(k) PROVE LeasedOnce'
    <3>1. PICK b \in Batches :
            /\ batch' = [batch EXCEPT ![k] = b]
            /\ status' = [m \in Messages |-> IF m \in {b[i] : i \in DOMAIN b} THEN "leased" ELSE status[m]]
      BY <2>2 DEF Deliver
    <3>2. /\ \A i \in DOMAIN b : b[i] \in Messages /\ status[b[i]] = "queued"
          /\ \A i, j \in DOMAIN b : b[i] = b[j] => i = j
      BY BatchShape DEF Queued
    <3>3. batch[k] = <<>> /\ Leased(k) = {}
      BY <2>2, EmptyBatch DEF Deliver, Leased
    <3>4. batch'[k] = b /\ \A l \in Invocations \ {k} : batch'[l] = batch[l]
      BY <3>1 DEF TypeOK
    <3>5. ASSUME NEW m \in Messages
          PROVE  (status'[m] = "leased") <=> (\E l \in Invocations : m \in Leased(l)')
      <4>1. CASE m \in {b[i] : i \in DOMAIN b}
        BY <3>1, <3>4, <4>1 DEF Leased
      <4>2. CASE m \notin {b[i] : i \in DOMAIN b}
        <5>1. status'[m] = status[m]
          BY <3>1, <4>2
        <5>2. \A l \in Invocations : (m \in Leased(l)') <=> (m \in Leased(l))
          BY <3>3, <3>4, <4>2 DEF Leased
        <5> QED
          BY <5>1, <5>2 DEF LeasedOnce
      <4> QED
        BY <4>1, <4>2
    <3>6. \A l \in Invocations \ {k} : \A j \in DOMAIN batch[l] : status[batch[l][j]] = "leased"
      <4>1. \A l \in Invocations : \A j \in DOMAIN batch[l] : batch[l][j] \in Messages
        BY DEF TypeOK
      <4> QED
        BY <4>1 DEF LeasedOnce, Leased
    <3>7. \A l, n \in Invocations : \A i \in DOMAIN batch'[l], j \in DOMAIN batch'[n] :
            batch'[l][i] = batch'[n][j] => l = n /\ i = j
      BY <3>2, <3>4, <3>6 DEF LeasedOnce
    <3> QED
      BY <3>5, <3>7 DEF LeasedOnce
  <2>3. ASSUME NEW k \in Invocations, Settle(k) PROVE LeasedOnce'
    BY <2>3, GiveBack DEF Settle, Retried
  <2>4. ASSUME NEW k \in Invocations, Kill(k) PROVE LeasedOnce'
    BY <2>4, GiveBack DEF Kill, Retried
  <2>5. ASSUME NEW k \in Invocations, NEW i \in DOMAIN batch[k], Return(k, i) PROVE LeasedOnce'
    BY <2>5 DEF Return, LeasedOnce, Leased
  <2>6. CASE UNCHANGED vars
    BY <2>6 DEF vars, LeasedOnce, Leased
  <2> QED
    BY <2>1, <2>2, <2>3, <2>4, <2>5, <2>6 DEF Next, Drain
<1> QED
  BY <1>1, <1>2, TypeCorrect, PTL DEF Spec

-----------------------------------------------------------------------------
(* DeadAfterRetries.                                                       *)

\* A message is dead-lettered only after its last retry, and delivered no more.
THEOREM DeadOnlyAfterRetries == Spec => []DeadAfterRetries
<1> USE ConsumerAssumption
<1>1. Init => DeadAfterRetries
  BY DEF Init, DeadAfterRetries
<1>2. TypeOK /\ DeadAfterRetries /\ [Next]_vars => DeadAfterRetries'
  <2> SUFFICES ASSUME TypeOK, DeadAfterRetries, [Next]_vars PROVE DeadAfterRetries'
    OBVIOUS
  <2>1. ASSUME NEW S \in SUBSET Messages, Enqueue(S) PROVE DeadAfterRetries'
    BY <2>1 DEF Enqueue, DeadAfterRetries, TypeOK
  <2>2. ASSUME NEW k \in Invocations, Deliver(k) PROVE DeadAfterRetries'
    <3>1. PICK b \in Batches :
            /\ status' = [m \in Messages |-> IF m \in {b[i] : i \in DOMAIN b} THEN "leased" ELSE status[m]]
            /\ attempts' = [m \in Messages |-> IF m \in {b[i] : i \in DOMAIN b} THEN attempts[m] + 1 ELSE attempts[m]]
      BY <2>2 DEF Deliver
    <3>2. \A i \in DOMAIN b : status[b[i]] = "queued"
      BY BatchShape DEF Queued
    <3> QED
      BY <3>1, <3>2 DEF DeadAfterRetries, TypeOK
  <2>3. ASSUME NEW k \in Invocations, Settle(k) \/ Kill(k) PROVE DeadAfterRetries'
    <3>1. \A m \in Messages : status'[m] \in {status[m], "acked", Retried(m)}
      BY <2>3 DEF Settle, Kill
    <3>2. attempts' = attempts
      BY <2>3 DEF Settle, Kill
    <3> QED
      BY <3>1, <3>2 DEF DeadAfterRetries, TypeOK, Retried
  <2>4. CASE UNCHANGED <<status, attempts>>
    BY <2>4 DEF DeadAfterRetries
  <2> QED
    BY <2>1, <2>2, <2>3, <2>4 DEF Next, Drain, Return, vars
<1> QED
  BY <1>1, <1>2, TypeCorrect, PTL DEF Spec

-----------------------------------------------------------------------------
(* WithinLimit.                                                            *)

\* A service's pool has some number of runners, of none when its limit is no number.
LEMMA RunnersType == \A s \in Services : Runners(s) \in Nat
  BY ConsumerAssumption DEF Runners, ConcurrencyFor

\* The positions of service s with a GET out, of a batch b in state f.
InFlight(b, f, s) == {i \in DOMAIN b : f[i] = "flying" /\ ServiceOf[b[i]] = s}

\* A set of positions is finite.
LEMMA PositionsFinite ==
  ASSUME NEW n \in Nat, NEW S \in SUBSET (1..n)
  PROVE  IsFiniteSet(S) /\ Cardinality(S) \in Nat
<1>1. IsFiniteSet(1..n)
  BY FS_Interval
<1>2. IsFiniteSet(S)
  BY <1>1, FS_Subset
<1> QED
  BY <1>2, FS_CardinalityType

\* The positions of one service before another are fewer than those up to it.
LEMMA UpToGrows ==
  ASSUME NEW n \in Nat, NEW b \in [1..n -> Messages],
         NEW i \in 1..n, NEW j \in 1..n, i < j, SameService(b, i, j)
  PROVE  /\ Cardinality(UpTo(b, i)) \in Nat /\ Cardinality(UpTo(b, j)) \in Nat
         /\ Cardinality(UpTo(b, i)) < Cardinality(UpTo(b, j))
<1>1. /\ IsFiniteSet(UpTo(b, i)) /\ Cardinality(UpTo(b, i)) \in Nat
      /\ IsFiniteSet(UpTo(b, j)) /\ Cardinality(UpTo(b, j)) \in Nat
  <2>1. UpTo(b, j) \in SUBSET (1..n) /\ UpTo(b, i) \in SUBSET (1..n)
    BY DEF UpTo
  <2> QED
    BY <2>1, PositionsFinite
<1>2. UpTo(b, i) \in SUBSET UpTo(b, j)
  BY DEF UpTo, SameService
<1>3. j \in UpTo(b, j) /\ j \notin UpTo(b, i)
  BY DEF UpTo, SameService
<1>4. /\ Cardinality(UpTo(b, i)) <= Cardinality(UpTo(b, j))
      /\ Cardinality(UpTo(b, i)) # Cardinality(UpTo(b, j))
  BY <1>1, <1>2, <1>3, FS_Subset
<1> QED
  BY <1>1, <1>4

\* A pool that has just started has no more GETs out than it has runners.
LEMMA StartedWithinLimit ==
  ASSUME NEW n \in Nat, NEW b \in [1..n -> Messages], NEW s \in Services
  PROVE  Cardinality(InFlight(b, Started(b), s)) <= Runners(s)
<1> DEFINE F == InFlight(b, Started(b), s)
           place == [i \in F |-> Cardinality(UpTo(b, i))]
<1>1. \A i \in F : i \in 1..n /\ ServiceOf[b[i]] = s /\ Cardinality(UpTo(b, i)) <= Runners(s)
  BY DEF InFlight, Started
<1>2. \A i \in F : Cardinality(UpTo(b, i)) \in 1..Runners(s)
  <2> SUFFICES ASSUME NEW i \in F PROVE Cardinality(UpTo(b, i)) \in 1..Runners(s)
    OBVIOUS
  <2>0. i \in 1..n
    BY <1>1
  <2> HIDE DEF F
  <2>1. UpTo(b, i) \in SUBSET (1..n) /\ i \in UpTo(b, i)
    BY <2>0 DEF UpTo, SameService
  <2>2. IsFiniteSet(UpTo(b, i)) /\ Cardinality(UpTo(b, i)) \in Nat
    BY <2>1, PositionsFinite
  <2>3. Cardinality(UpTo(b, i)) # 0
    BY <2>1, <2>2, FS_EmptySet
  <2>4. Cardinality(UpTo(b, i)) <= Runners(s)
    BY <1>1
  <2> QED
    BY <2>2, <2>3, <2>4, RunnersType
<1>3. \A i, j \in F : Cardinality(UpTo(b, i)) = Cardinality(UpTo(b, j)) => i = j
  <2> SUFFICES ASSUME NEW i \in F, NEW j \in F, i < j
               PROVE  Cardinality(UpTo(b, i)) # Cardinality(UpTo(b, j))
    BY <1>1
  <2>1. SameService(b, i, j)
    BY <1>1 DEF SameService
  <2> QED
    BY <1>1, <2>1, UpToGrows
<1>4. place \in Injection(F, 1..Runners(s))
  <2>1. place \in [F -> 1..Runners(s)]
    BY <1>2
  <2>2. \A i, j \in DOMAIN place : place[i] = place[j] => i = j
    BY <1>3
  <2> QED
    BY <2>1, <2>2 DEF Injection, IsInjective
<1>5. /\ IsFiniteSet(1..Runners(s))
      /\ Cardinality(1..Runners(s)) = Runners(s)
  BY RunnersType, FS_Interval
<1> HIDE DEF F, place
<1>6. Cardinality(F) <= Cardinality(1..Runners(s))
  BY <1>4, <1>5, FS_Injection
<1> QED
  BY <1>5, <1>6 DEF F

\* A runner that has its GET back takes at most one item, of its own pool.
LEMMA ReturnWithinLimit ==
  ASSUME NEW n \in Nat, NEW b \in [1..n -> Messages], NEW f, NEW g, NEW s \in Services,
         NEW i \in 1..n, NEW outcome \in {"ok", "failed"}, f[i] = "flying",
         g = [j \in DOMAIN b |-> IF j = i THEN outcome
                                 ELSE IF j \in NextItem(b, f, i) THEN "flying" ELSE f[j]],
         Cardinality(InFlight(b, f, s)) <= Runners(s)
  PROVE  Cardinality(InFlight(b, g, s)) <= Runners(s)
<1> DEFINE F == InFlight(b, f, s)
           G == InFlight(b, g, s)
<1>1. IsFiniteSet(F) /\ IsFiniteSet(G) /\ Cardinality(F) \in Nat /\ Cardinality(G) \in Nat
  <2>1. F \in SUBSET (1..n) /\ G \in SUBSET (1..n)
    BY DEF InFlight
  <2> HIDE DEF F, G
  <2> QED
    BY <2>1, PositionsFinite
<1>2. CASE ServiceOf[b[i]] # s
  <2>1. G = F
    BY <1>2 DEF InFlight, NextItem, SameService
  <2> QED
    BY <2>1
<1>3. CASE ServiceOf[b[i]] = s
  <2>1. i \in F /\ IsFiniteSet(F \ {i}) /\ Cardinality(F \ {i}) = Cardinality(F) - 1
    <3>1. i \in F
      BY <1>3 DEF InFlight
    <3> HIDE DEF F
    <3> QED
      BY <1>1, <3>1, FS_RemoveElement
  <2>2. CASE NextItem(b, f, i) = {}
    <3>1. G \in SUBSET F
      BY <2>2 DEF InFlight
    <3> HIDE DEF F, G
    <3>2. Cardinality(G) <= Cardinality(F)
      BY <1>1, <3>1, FS_Subset
    <3> QED
      BY <1>1, <3>2, RunnersType DEF F, G
  <2>3. CASE NextItem(b, f, i) # {}
    <3>1. PICK j \in 1..n : j \in NextItem(b, f, i)
      BY <2>3 DEF NextItem
    <3>2. \A l \in NextItem(b, f, i) : l = j
      <4> SUFFICES ASSUME NEW l \in NextItem(b, f, i) PROVE l = j
        OBVIOUS
      <4>1. l \in 1..n /\ l <= j /\ j <= l
        BY <3>1 DEF NextItem
      <4> QED
        BY <4>1
    <3>3. G \in SUBSET ((F \ {i}) \union {j})
      BY <3>2 DEF InFlight
    <3>4. /\ IsFiniteSet((F \ {i}) \union {j})
          /\ Cardinality((F \ {i}) \union {j}) <= Cardinality(F)
      <4> HIDE DEF F
      <4>1. /\ IsFiniteSet((F \ {i}) \union {j})
            /\ Cardinality((F \ {i}) \union {j}) =
                 IF j \in F \ {i} THEN Cardinality(F \ {i}) ELSE Cardinality(F \ {i}) + 1
        BY <2>1, FS_AddElement
      <4> QED
        BY <1>1, <2>1, <4>1
    <3> HIDE DEF F, G
    <3>5. Cardinality(G) <= Cardinality((F \ {i}) \union {j})
      BY <3>3, <3>4, FS_Subset
    <3>6. Cardinality((F \ {i}) \union {j}) \in Nat
      BY <3>4, FS_CardinalityType
    <3> QED
      BY <1>1, <3>4, <3>5, <3>6, RunnersType DEF F, G
  <2> QED
    BY <2>2, <2>3
<1> QED
  BY <1>2, <1>3

\* What WithinLimit says, batch by batch.
LEMMA WithinLimitIs ==
  WithinLimit <=> \A k \in Invocations, s \in Services :
                    Cardinality(InFlight(batch[k], fetch[k], s)) <= Runners(s)
<1>1. \A k, s : FlyingOf(k, s) = InFlight(batch[k], fetch[k], s)
  BY DEF FlyingOf, Flying, InFlight
<1> QED
  BY <1>1 DEF WithinLimit

\* No invocation has more of one service's tiles in flight than its limit says.
THEOREM PoolsKeepLimits == Spec => []WithinLimit
<1> DEFINE Within(k, b, f) == \A s \in Services : Cardinality(InFlight(b, f, s)) <= Runners(s)
<1>0. \A f, s : s \in Services => Cardinality(InFlight(<<>>, f, s)) <= Runners(s)
  <2> SUFFICES ASSUME NEW f, NEW s \in Services
               PROVE  Cardinality(InFlight(<<>>, f, s)) <= Runners(s)
    OBVIOUS
  <2>1. InFlight(<<>>, f, s) = {}
    BY EmptyBatch, Zenon DEF InFlight
  <2>2. Cardinality(InFlight(<<>>, f, s)) = 0
    BY <2>1, FS_EmptySet
  <2> QED
    BY <2>2, RunnersType
<1>1. Init => WithinLimit
  BY <1>0, WithinLimitIs DEF Init
<1>2. TypeOK /\ WithinLimit /\ [Next]_vars => WithinLimit'
  <2> SUFFICES ASSUME TypeOK, WithinLimit, [Next]_vars,
                      NEW l \in Invocations, NEW s \in Services
               PROVE  Cardinality(InFlight(batch'[l], fetch'[l], s)) <= Runners(s)
    <3>1. WithinLimit' <=> \A k \in Invocations, t \in Services :
                             Cardinality(InFlight(batch'[k], fetch'[k], t)) <= Runners(t)
      <4>1. \A k, t : FlyingOf(k, t)' = InFlight(batch'[k], fetch'[k], t)
        BY DEF FlyingOf, Flying, InFlight
      <4> QED
        BY <4>1 DEF WithinLimit
    <3> QED
      BY <3>1
  <2>0. Cardinality(InFlight(batch[l], fetch[l], s)) <= Runners(s)
    BY WithinLimitIs
  <2>1. CASE batch'[l] = batch[l] /\ fetch'[l] = fetch[l]
    BY <2>0, <2>1
  <2>2. ASSUME NEW k \in Invocations, Deliver(k)
        PROVE  Cardinality(InFlight(batch'[l], fetch'[l], s)) <= Runners(s)
    <3>1. PICK b \in Batches : /\ batch' = [batch EXCEPT ![k] = b]
                               /\ fetch' = [fetch EXCEPT ![k] = Started(b)]
      BY <2>2 DEF Deliver
    <3>2. PICK n \in 1..MaxBatchSize : b \in [1..n -> Messages]
      BY BatchShape DEF Queued
    <3>3. Cardinality(InFlight(b, Started(b), s)) <= Runners(s)
      BY <3>2, StartedWithinLimit, ConsumerAssumption
    <3> QED
      BY <2>0, <3>1, <3>3 DEF TypeOK
  <2>3. ASSUME NEW k \in Invocations, Over(k)
        PROVE  Cardinality(InFlight(batch'[l], fetch'[l], s)) <= Runners(s)
    BY <1>0, <2>0, <2>3 DEF Over, TypeOK
  <2>4. ASSUME NEW k \in Invocations, NEW i \in DOMAIN batch[k], Return(k, i)
        PROVE  Cardinality(InFlight(batch'[l], fetch'[l], s)) <= Runners(s)
    <3>1. PICK outcome \in {"ok", "failed"} :
            fetch' = [fetch EXCEPT ![k] =
              [j \in DOMAIN batch[k] |->
                 IF j = i THEN outcome
                 ELSE IF j \in NextItem(batch[k], fetch[k], i) THEN "flying" ELSE fetch[k][j]]]
      BY <2>4 DEF Return, GetOutcomes
    <3>2. batch' = batch /\ fetch[k][i] = "flying"
      BY <2>4 DEF Return
    <3>3. PICK n \in 0..MaxBatchSize : batch[k] \in [1..n -> Messages]
      <4>1. batch[k] \in UNION {[1..n -> Messages] : n \in 0..MaxBatchSize}
        BY DEF TypeOK
      <4> QED
        BY <4>1
    <3>4. CASE l = k
      <4>1. fetch'[k] = [j \in DOMAIN batch[k] |->
                 IF j = i THEN outcome
                 ELSE IF j \in NextItem(batch[k], fetch[k], i) THEN "flying" ELSE fetch[k][j]]
        BY <3>1 DEF TypeOK
      <4>2. n \in Nat /\ i \in 1..n
        BY <3>3, ConsumerAssumption
      <4> QED
        BY <2>0, <3>2, <3>3, <3>4, <4>1, <4>2, ReturnWithinLimit, SMTT(20)
    <3>5. CASE l # k
      BY <2>0, <3>1, <3>2, <3>5 DEF TypeOK
    <3> QED
      BY <3>4, <3>5
  <2> QED
    BY <2>1, <2>2, <2>3, <2>4 DEF Next, Drain, Enqueue, Settle, Kill, vars
<1> QED
  BY <1>1, <1>2, TypeCorrect, PTL DEF Spec

-----------------------------------------------------------------------------
(* PoolsBusy.                                                              *)

\* The positions of service s that no runner has taken, of a batch b in state f.
InLine(b, f, s) == {i \in DOMAIN b : f[i] = "waiting" /\ ServiceOf[b[i]] = s}

\* A pool with positions left has its runners busy.
Busy(b, f, s) == InLine(b, f, s) # {} => Cardinality(InFlight(b, f, s)) >= Runners(s)

\* Of a pool with positions left one is the first, and it is the next to be taken.
LEMMA FirstInLine ==
  ASSUME NEW n \in Nat, NEW b \in [1..n -> Messages], NEW f, NEW s \in Services,
         InLine(b, f, s) # {}
  PROVE  \E j \in 1..n :
           /\ f[j] = "waiting" /\ ServiceOf[b[j]] = s
           /\ \A l \in InLine(b, f, s) : j <= l
<1>1. InLine(b, f, s) \in SUBSET Nat /\ InLine(b, f, s) \subseteq 1..n
  BY DEF InLine
<1>2. PICK j \in InLine(b, f, s) : \A l \in InLine(b, f, s) : j <= l
  BY <1>1, LeastNatural
<1> QED
  BY <1>1, <1>2 DEF InLine

\* A pool starts with its runners busy if they are fewer than its positions:
\* those before the first that waits are in flight, and no fewer than runners.
LEMMA StartedBusy ==
  ASSUME NEW n \in Nat, NEW b \in [1..n -> Messages], NEW s \in Services
  PROVE  Busy(b, Started(b), s)
<1> DEFINE F == InFlight(b, Started(b), s)
<1> SUFFICES ASSUME InLine(b, Started(b), s) # {} PROVE Cardinality(F) >= Runners(s)
  BY DEF Busy
<1>1. PICK i \in 1..n :
        /\ Started(b)[i] = "waiting" /\ ServiceOf[b[i]] = s
        /\ \A l \in InLine(b, Started(b), s) : i <= l
  BY FirstInLine
<1>2. UpTo(b, i) \ {i} \in SUBSET F
  <2> SUFFICES ASSUME NEW j \in UpTo(b, i), j # i PROVE j \in F
    OBVIOUS
  <2>1. j \in 1..n /\ j < i /\ ServiceOf[b[j]] = s
    BY <1>1 DEF UpTo, SameService
  <2>2. j \notin InLine(b, Started(b), s)
    BY <1>1, <2>1
  <2>3. Started(b)[j] \in {"waiting", "flying"}
    BY <2>1 DEF Started
  <2> QED
    BY <2>1, <2>2, <2>3 DEF InLine, InFlight
<1>3. /\ IsFiniteSet(UpTo(b, i)) /\ Cardinality(UpTo(b, i)) \in Nat /\ i \in UpTo(b, i)
      /\ IsFiniteSet(F) /\ Cardinality(F) \in Nat
  <2>1. UpTo(b, i) \in SUBSET (1..n) /\ F \in SUBSET (1..n) /\ i \in UpTo(b, i)
    BY <1>1 DEF UpTo, InFlight, SameService
  <2> HIDE DEF F
  <2> QED
    BY <2>1, PositionsFinite
<1>4. Cardinality(UpTo(b, i)) > Runners(s)
  BY <1>1, <1>3, RunnersType DEF Started
<1> HIDE DEF F
<1>5. /\ Cardinality(UpTo(b, i) \ {i}) = Cardinality(UpTo(b, i)) - 1
      /\ Cardinality(UpTo(b, i) \ {i}) <= Cardinality(F)
  BY <1>2, <1>3, FS_RemoveElement, FS_Subset
<1>6. Cardinality(F) >= Runners(s)
  BY <1>3, <1>4, <1>5, RunnersType
<1> QED
  BY <1>6 DEF F

\* A runner of a pool with positions left that has its GET back takes the next.
LEMMA ReturnBusy ==
  ASSUME NEW n \in Nat, NEW b \in [1..n -> Messages], NEW f, NEW g, NEW s \in Services,
         NEW i \in 1..n, NEW outcome \in {"ok", "failed"}, f[i] = "flying",
         g = [j \in DOMAIN b |-> IF j = i THEN outcome
                                 ELSE IF j \in NextItem(b, f, i) THEN "flying" ELSE f[j]],
         Busy(b, f, s)
  PROVE  Busy(b, g, s)
<1> DEFINE F == InFlight(b, f, s)
           G == InFlight(b, g, s)
<1> SUFFICES ASSUME InLine(b, g, s) # {} PROVE Cardinality(G) >= Runners(s)
  BY DEF Busy
<1>1. InLine(b, f, s) # {} /\ Cardinality(F) >= Runners(s)
  <2>1. InLine(b, g, s) \subseteq InLine(b, f, s)
    BY DEF InLine
  <2> QED
    BY <2>1 DEF Busy
<1>2. CASE ServiceOf[b[i]] # s
  <2>1. G = F
    BY <1>2 DEF InFlight, NextItem, SameService
  <2> QED
    BY <1>1, <2>1
<1>3. CASE ServiceOf[b[i]] = s
  <2>1. PICK j \in 1..n : /\ f[j] = "waiting" /\ ServiceOf[b[j]] = s
                          /\ \A l \in InLine(b, f, s) : j <= l
    BY <1>1, FirstInLine
  <2>2. j \in NextItem(b, f, i) /\ \A l \in NextItem(b, f, i) : f[l] = "waiting"
    BY <1>3, <2>1 DEF NextItem, SameService, InLine
  <2>3. (F \ {i}) \union {j} \in SUBSET G
    BY <2>1, <2>2 DEF InFlight
  <2>4. i \in F /\ j \notin F
    BY <1>3, <2>1 DEF InFlight
  <2>5. /\ IsFiniteSet(F) /\ Cardinality(F) \in Nat
        /\ IsFiniteSet(G) /\ Cardinality(G) \in Nat
    <3>1. F \in SUBSET (1..n) /\ G \in SUBSET (1..n)
      BY DEF InFlight
    <3> HIDE DEF F, G
    <3> QED
      BY <3>1, PositionsFinite
  <2> HIDE DEF F, G
  <2>6. IsFiniteSet(F \ {i}) /\ Cardinality(F \ {i}) = Cardinality(F) - 1 /\ j \notin F \ {i}
    BY <2>4, <2>5, FS_RemoveElement
  <2>7. Cardinality((F \ {i}) \union {j}) = Cardinality(F \ {i}) + 1
    BY <2>6, FS_AddElement
  <2>8. Cardinality((F \ {i}) \union {j}) <= Cardinality(G)
    BY <2>3, <2>5, FS_Subset
  <2>9. Cardinality(G) >= Cardinality(F)
    BY <2>5, <2>6, <2>7, <2>8
  <2> QED
    BY <1>1, <2>5, <2>9, RunnersType DEF F, G
<1> QED
  BY <1>2, <1>3

\* plan.ts: a pool's runners share one cursor over its own tiles, so that two
\* origins in one batch do not take turns: whatever the other pools wait for, a
\* pool with work left has every one of its runners busy.
THEOREM PoolsStayBusy == Spec => []PoolsBusy
<1> DEFINE Inv == \A k \in Invocations, s \in Services : Busy(batch[k], fetch[k], s)
<1>0. \A f, s : Busy(<<>>, f, s)
  BY EmptyBatch, Zenon DEF Busy, InLine
<1>1. Init => Inv
  BY <1>0 DEF Init
<1>2. TypeOK /\ Inv /\ [Next]_vars => Inv'
  <2> SUFFICES ASSUME TypeOK, Inv, [Next]_vars, NEW l \in Invocations, NEW s \in Services
               PROVE  Busy(batch'[l], fetch'[l], s)
    OBVIOUS
  <2>0. Busy(batch[l], fetch[l], s)
    OBVIOUS
  <2> HIDE DEF Inv
  <2>1. CASE batch'[l] = batch[l] /\ fetch'[l] = fetch[l]
    BY <2>0, <2>1
  <2>2. ASSUME NEW k \in Invocations, Deliver(k)
        PROVE  Busy(batch'[l], fetch'[l], s)
    <3>1. PICK b \in Batches : /\ batch' = [batch EXCEPT ![k] = b]
                               /\ fetch' = [fetch EXCEPT ![k] = Started(b)]
      BY <2>2 DEF Deliver
    <3>2. PICK n \in 1..MaxBatchSize : b \in [1..n -> Messages]
      BY BatchShape DEF Queued
    <3>3. Busy(b, Started(b), s)
      BY <3>2, StartedBusy, ConsumerAssumption
    <3> QED
      BY <2>0, <3>1, <3>3 DEF TypeOK
  <2>3. ASSUME NEW k \in Invocations, Over(k)
        PROVE  Busy(batch'[l], fetch'[l], s)
    BY <1>0, <2>0, <2>3 DEF Over, TypeOK
  <2>4. ASSUME NEW k \in Invocations, NEW i \in DOMAIN batch[k], Return(k, i)
        PROVE  Busy(batch'[l], fetch'[l], s)
    <3>1. PICK outcome \in {"ok", "failed"} :
            fetch' = [fetch EXCEPT ![k] =
              [j \in DOMAIN batch[k] |->
                 IF j = i THEN outcome
                 ELSE IF j \in NextItem(batch[k], fetch[k], i) THEN "flying" ELSE fetch[k][j]]]
      BY <2>4 DEF Return, GetOutcomes
    <3>2. batch' = batch /\ fetch[k][i] = "flying"
      BY <2>4 DEF Return
    <3>3. PICK n \in 0..MaxBatchSize : batch[k] \in [1..n -> Messages]
      <4>1. batch[k] \in UNION {[1..n -> Messages] : n \in 0..MaxBatchSize}
        BY DEF TypeOK
      <4> QED
        BY <4>1
    <3>4. CASE l = k
      <4>1. fetch'[k] = [j \in DOMAIN batch[k] |->
                 IF j = i THEN outcome
                 ELSE IF j \in NextItem(batch[k], fetch[k], i) THEN "flying" ELSE fetch[k][j]]
        BY <3>1 DEF TypeOK
      <4>2. n \in Nat /\ i \in 1..n
        BY <3>3, ConsumerAssumption
      <4> QED
        BY <2>0, <3>2, <3>3, <3>4, <4>1, <4>2, ReturnBusy, SMTT(20)
    <3>5. CASE l # k
      BY <2>0, <3>1, <3>2, <3>5 DEF TypeOK
    <3> QED
      BY <3>4, <3>5
  <2> QED
    BY <2>1, <2>2, <2>3, <2>4 DEF Next, Drain, Enqueue, Settle, Kill, vars
<1>3. Inv => PoolsBusy
  BY DEF Busy, PoolsBusy, InLine, WaitingOf, InFlight, FlyingOf, Flying
<1> QED
  BY <1>1, <1>2, <1>3, TypeCorrect, PTL DEF Spec

-----------------------------------------------------------------------------
(* GroupedSettlesOnOwn.                                                    *)

\* Where the services of a batch sit together, flat() leaves every outcome at
\* the position of its own message.
LEMMA GroupedKeepsOrder ==
  ASSUME NEW n \in Nat, NEW b \in [1..n -> Messages], Grouped(b), Served(b)
  PROVE  /\ \A i \in 1..n : FlatIndex(b, i) = i /\ Behind(b, i) = i
         /\ Cardinality(Reported(b)) = n
<1>1. Reported(b) = 1..n
  BY DEF Served
<1>2. ASSUME NEW i \in 1..n
      PROVE  {j \in Reported(b) : ServiceSeenBefore(b, j, i) \/ j \in UpTo(b, i)} = 1..i
  <2>1. ASSUME NEW j \in 1..n, j <= i PROVE ServiceSeenBefore(b, j, i) \/ j \in UpTo(b, i)
    <3>1. CASE SameService(b, j, i)
      BY <2>1, <3>1 DEF UpTo
    <3>2. CASE ~SameService(b, j, i)
      <4>1. ASSUME NEW l \in 1..n, SameService(b, l, i) PROVE j < l
        <5>1. SUFFICES ASSUME l <= j PROVE FALSE
          OBVIOUS
        <5>2. l # j /\ j # i
          BY <3>2, <4>1 DEF SameService
        <5>3. SameService(b, l, j)
          BY <2>1, <4>1, <5>1, <5>2 DEF Grouped
        <5> QED
          BY <3>2, <4>1, <5>3 DEF SameService
      <4>2. SameService(b, j, j)
        BY DEF SameService
      <4> QED
        BY <4>1, <4>2 DEF ServiceSeenBefore
    <3> QED
      BY <3>1, <3>2
  <2>2. ASSUME NEW j \in 1..n, ServiceSeenBefore(b, j, i) PROVE j <= i
    <3>1. SUFFICES ASSUME i < j PROVE FALSE
      OBVIOUS
    <3>2. PICK l \in 1..n : SameService(b, l, j) /\ \A p \in 1..n : SameService(b, p, i) => l < p
      BY <2>2 DEF ServiceSeenBefore
    <3>3. l < i
      BY <3>2 DEF SameService
    <3>4. SameService(b, l, i)
      BY <3>1, <3>2, <3>3 DEF Grouped
    <3> QED
      BY <3>2, <3>4
  <2>3. \A j \in UpTo(b, i) : j <= i
    BY DEF UpTo
  <2> QED
    BY <1>1, <2>1, <2>2, <2>3
<1>3. \A i \in 1..n : FlatIndex(b, i) = i
  <2> SUFFICES ASSUME NEW i \in 1..n PROVE FlatIndex(b, i) = i
    OBVIOUS
  <2>1. Cardinality(1..i) = i
    BY FS_Interval
  <2> QED
    BY <1>2, <2>1 DEF FlatIndex
<1>4. \A p \in 1..n : Behind(b, p) = p
  <2> SUFFICES ASSUME NEW p \in 1..n PROVE Behind(b, p) = p
    OBVIOUS
  <2>1. \A i \in Reported(b) : FlatIndex(b, i) = p <=> i = p
    BY <1>1, <1>3
  <2> QED
    BY <1>1, <2>1 DEF Behind
<1>5. Cardinality(Reported(b)) = n
  BY <1>1, FS_Interval
<1> QED
  BY <1>3, <1>4, <1>5

\* So settling such a batch acks exactly the messages whose own GET was ok.
LEMMA GroupedSettle ==
  ASSUME TypeOK, LeasedOnce, NEW k \in Invocations, Settle(k),
         Grouped(batch[k]), Served(batch[k])
  PROVE  AckedIffWarmed(k)
<1>1. PICK n \in 0..MaxBatchSize : batch[k] \in [1..n -> Messages]
  <2>1. batch[k] \in UNION {[1..n -> Messages] : n \in 0..MaxBatchSize}
    BY DEF TypeOK
  <2> QED
    BY <2>1
<1>2. n \in Nat
  BY <1>1, ConsumerAssumption
<1>3. \A p \in 1..n : AckedAt(batch[k], fetch[k], p) <=> fetch[k][p] = "ok"
  BY <1>1, <1>2, GroupedKeepsOrder DEF AckedAt
<1>4. SUFFICES ASSUME NEW i \in 1..n
               PROVE  (status'[batch[k][i]] = "acked") <=> (fetch[k][i] = "ok")
  BY <1>1 DEF AckedIffWarmed
<1>5. batch[k][i] \in Messages /\ batch[k][i] \in Leased(k)
  BY <1>1 DEF Leased
<1>6. \A p \in 1..n : batch[k][p] = batch[k][i] => p = i
  BY <1>1 DEF LeasedOnce
<1>7. status'[batch[k][i]] =
        IF \E p \in 1..n : batch[k][p] = batch[k][i] /\ AckedAt(batch[k], fetch[k], p)
        THEN "acked" ELSE Retried(batch[k][i])
  BY <1>1, <1>5 DEF Settle
<1>8. Retried(batch[k][i]) # "acked"
  BY DEF Retried
<1> QED
  BY <1>3, <1>6, <1>7, <1>8

\* Only Settle gives a batch back without an invocation dying.
LEMMA SettlesIsSettle ==
  ASSUME TypeOK, [Next]_vars, NEW k \in Invocations, Settles(k)
  PROVE  Settle(k)
<1>1. ASSUME NEW S \in SUBSET Messages, Enqueue(S) PROVE FALSE
  BY <1>1 DEF Enqueue, Settles
<1>2. ASSUME NEW l \in Invocations, Deliver(l) PROVE FALSE
  <2>1. PICK b \in Batches : batch[l] = <<>> /\ batch' = [batch EXCEPT ![l] = b]
    BY <1>2 DEF Deliver
  <2>2. k # l
    BY <2>1 DEF Settles
  <2>3. batch'[k] = batch[k]
    BY <2>1, <2>2 DEF TypeOK
  <2> QED
    BY <2>3 DEF Settles
<1>3. ASSUME NEW l \in Invocations, Settle(l) PROVE Settle(k)
  <2>1. CASE l = k
    BY <1>3, <2>1
  <2>2. CASE l # k
    <3>1. batch'[k] = batch[k]
      BY <1>3, <2>2 DEF Settle, Over, TypeOK
    <3> QED
      BY <3>1 DEF Settles
  <2> QED
    BY <2>1, <2>2
<1>4. ASSUME NEW l \in Invocations, Kill(l) PROVE FALSE
  BY <1>4, ConsumerAssumption DEF Kill, Settles, TypeOK
<1>5. ASSUME NEW l \in Invocations, NEW i \in DOMAIN batch[l], Return(l, i) PROVE FALSE
  BY <1>5 DEF Return, Settles
<1>6. CASE UNCHANGED vars
  BY <1>6 DEF vars, Settles
<1> QED
  BY <1>1, <1>2, <1>3, <1>4, <1>5, <1>6 DEF Next, Drain

\* A batch whose services sit together is settled message by message on what
\* its own GET came to.
THEOREM GroupedSettlesRight == Spec => GroupedSettlesOnOwn
<1>1. TypeOK /\ LeasedOnce /\ [Next]_vars =>
        [\A k \in Invocations :
           Settles(k) /\ Grouped(batch[k]) /\ Served(batch[k]) => AckedIffWarmed(k)]_vars
  BY SettlesIsSettle, GroupedSettle
<1> QED
  BY <1>1, TypeCorrect, LeasesAgree, PTL DEF Spec, GroupedSettlesOnOwn

-----------------------------------------------------------------------------
(* Consumer implements WarmQueue where one service is warmed.              *)

\* Every message is of the same service, and its limit is a number.
OneService ==
  /\ \A m, l \in Messages : ServiceOf[m] = ServiceOf[l]
  /\ \A s \in Services : Runners(s) > 0

\* What the steps need beside the invariants above: a fetch that was ok has
\* warmed its tile, and a leased message has been tried.
OkIsWarm ==
  \A k \in Invocations : \A i \in DOMAIN batch[k] : fetch[k][i] = "ok" => batch[k][i] \in warm

LeasedIsTried == \A m \in Messages : status[m] = "leased" => attempts[m] > 0

RInv == TypeOK /\ LeasedOnce /\ DeadAfterRetries /\ OkIsWarm /\ LeasedIsTried

\* A batch of one service has its services together.
LEMMA OneServiceGrouped ==
  ASSUME OneService, NEW n \in Nat, NEW b \in [1..n -> Messages]
  PROVE  Grouped(b) /\ Served(b)
<1>1. Grouped(b)
  BY DEF OneService, Grouped, SameService
<1>2. Served(b)
  BY ConsumerAssumption DEF OneService, Served, Reported
<1> QED
  BY <1>1, <1>2

\* What a batch holds are messages.
LEMMA BatchOfMessages ==
  ASSUME TypeOK, NEW k \in Invocations, NEW i \in DOMAIN batch[k]
  PROVE  batch[k][i] \in Messages
<1>1. batch[k] \in UNION {[1..n -> Messages] : n \in 0..MaxBatchSize}
  BY DEF TypeOK
<1>2. PICK n \in 0..MaxBatchSize : batch[k] \in [1..n -> Messages]
  BY <1>1
<1> QED
  BY <1>2

\* A position whose GET was ok holds a message whose tile is warm.
LEMMA OkIsWarmInv == Spec => []OkIsWarm
<1>1. Init => OkIsWarm
  BY EmptyBatch DEF Init, OkIsWarm
<1>2. TypeOK /\ OkIsWarm /\ [Next]_vars => OkIsWarm'
  <2> SUFFICES ASSUME TypeOK, OkIsWarm, [Next]_vars PROVE OkIsWarm'
    OBVIOUS
  <2>1. ASSUME NEW S \in SUBSET Messages, Enqueue(S) PROVE OkIsWarm'
    BY <2>1 DEF Enqueue, OkIsWarm
  <2>2. ASSUME NEW k \in Invocations, Deliver(k) PROVE OkIsWarm'
    <3>1. PICK b \in Batches : /\ batch' = [batch EXCEPT ![k] = b]
                               /\ fetch' = [fetch EXCEPT ![k] = Started(b)]
      BY <2>2 DEF Deliver
    <3>2. \A i \in DOMAIN b : Started(b)[i] # "ok"
      BY DEF Started
    <3> QED
      BY <2>2, <3>1, <3>2 DEF Deliver, OkIsWarm, TypeOK
  <2>3. ASSUME NEW k \in Invocations, Settle(k) \/ Kill(k) PROVE OkIsWarm'
    <3>1. Over(k) /\ warm \subseteq warm'
      BY <2>3 DEF Settle, Kill
    <3> QED
      BY <3>1, EmptyBatch DEF Over, OkIsWarm, TypeOK
  <2>4. ASSUME NEW k \in Invocations, NEW i \in DOMAIN batch[k], Return(k, i) PROVE OkIsWarm'
    <3>1. PICK outcome \in {"ok", "failed"} :
            /\ fetch' = [fetch EXCEPT ![k] =
                 [j \in DOMAIN batch[k] |->
                    IF j = i THEN outcome
                    ELSE IF j \in NextItem(batch[k], fetch[k], i) THEN "flying" ELSE fetch[k][j]]]
            /\ warm' = IF outcome = "ok" THEN warm \union {batch[k][i]} ELSE warm
      BY <2>4 DEF Return, GetOutcomes
    <3> QED
      BY <2>4, <3>1 DEF Return, OkIsWarm, TypeOK
  <2>5. CASE UNCHANGED vars
    BY <2>5 DEF vars, OkIsWarm
  <2> QED
    BY <2>1, <2>2, <2>3, <2>4, <2>5 DEF Next, Drain
<1> QED
  BY <1>1, <1>2, TypeCorrect, PTL DEF Spec

\* A message that is leased has been delivered, and no more often than it may be.
LEMMA LeasedIsTriedInv == Spec => []LeasedIsTried
<1>1. Init => LeasedIsTried
  BY DEF Init, LeasedIsTried
<1>2. TypeOK /\ LeasedIsTried /\ [Next]_vars => LeasedIsTried'
  <2> SUFFICES ASSUME TypeOK, LeasedIsTried, [Next]_vars PROVE LeasedIsTried'
    OBVIOUS
  <2>1. ASSUME NEW k \in Invocations, Deliver(k) PROVE LeasedIsTried'
    BY <2>1 DEF Deliver, LeasedIsTried, TypeOK
  <2>2. ASSUME NEW S \in SUBSET Messages, Enqueue(S) PROVE LeasedIsTried'
    BY <2>2 DEF Enqueue, LeasedIsTried
  <2>3. ASSUME NEW k \in Invocations, Settle(k) \/ Kill(k) PROVE LeasedIsTried'
    BY <2>3 DEF Settle, Kill, Retried, LeasedIsTried
  <2>4. CASE UNCHANGED <<status, attempts>>
    BY <2>4 DEF LeasedIsTried
  <2> QED
    BY <2>1, <2>2, <2>3, <2>4 DEF Next, Drain, Return, vars
<1> QED
  BY <1>1, <1>2, TypeCorrect, PTL DEF Spec

\* What becomes of a message, as WarmQueue sees it.
LEMMA FateType == TypeOK => \A m \in Messages : Fate(m) \in Promised!Fates
  BY DEF TypeOK, Fate, Promised!Fates

\* Every step of the consumer is a step of WarmQueue or leaves it alone.
LEMMA RefinesStep ==
  ASSUME OneService, RInv, RInv', [Next]_vars
  PROVE  [Promised!Next]_(Promised!vars)
<1> DEFINE fate == [m \in Messages |-> Fate(m)]
<1> USE DEF RInv
<1>0. fate' \in [Messages -> Promised!Fates]
  <2>1. \A m \in Messages : Fate(m)' \in Promised!Fates
    BY FateType, TypeOK' DEF TypeOK, Fate, Promised!Fates
  <2> QED
    BY <2>1
<1>1. ASSUME NEW S \in SUBSET Messages, Enqueue(S) PROVE Promised!TakeIn
  <2>1. \A m \in Messages : \/ Fate(m)' = Fate(m)
                            \/ Fate(m) = "outside" /\ Fate(m)' = "pending"
    BY <1>1 DEF Enqueue, Fate, TypeOK
  <2> QED
    BY <1>0, <1>1, <2>1 DEF Promised!TakeIn, Enqueue
<1>2. ASSUME NEW k \in Invocations, Deliver(k) PROVE Promised!Try
  <2>1. PICK b \in Batches :
          /\ status' = [m \in Messages |-> IF m \in {b[i] : i \in DOMAIN b} THEN "leased" ELSE status[m]]
          /\ attempts' = [m \in Messages |-> IF m \in {b[i] : i \in DOMAIN b} THEN attempts[m] + 1 ELSE attempts[m]]
    BY <1>2 DEF Deliver
  <2>2. \A i \in DOMAIN b : b[i] \in Messages /\ status[b[i]] = "queued"
    BY BatchShape DEF Queued
  <2>3. \A m \in Messages : Fate(m)' = Fate(m)
    BY <2>1, <2>2 DEF Fate, TypeOK
  <2>4. \A m \in Messages :
          \/ attempts'[m] = attempts[m]
          \/ m \in Promised!Pending /\ attempts'[m] = attempts[m] + 1
    BY <2>1, <2>2 DEF Promised!Pending, Fate
  <2>5. attempts' \in [Messages -> 0..(MaxRetries + 1)]
    BY ConsumerAssumption DEF TypeOK, DeadAfterRetries
  <2>6. fate' = fate
    BY <2>3
  <2> QED
    BY <1>2, <2>4, <2>5, <2>6 DEF Promised!Try, Deliver
<1>3. ASSUME NEW k \in Invocations, Settle(k) PROVE Promised!Conclude
  <2>1. PICK n \in 0..MaxBatchSize : batch[k] \in [1..n -> Messages]
    <3>1. batch[k] \in UNION {[1..n -> Messages] : n \in 0..MaxBatchSize}
      BY DEF TypeOK
    <3> QED
      BY <3>1
  <2>2. Grouped(batch[k]) /\ Served(batch[k])
    BY <2>1, OneServiceGrouped, ConsumerAssumption
  <2>3. AckedIffWarmed(k)
    BY <1>3, <2>2, GroupedSettle
  <2>4. \A m \in Messages : m \notin Leased(k) => status'[m] = status[m]
    BY <1>3 DEF Settle
  <2>5. \A i \in DOMAIN batch[k] : /\ status[batch[k][i]] = "leased"
                                  /\ status'[batch[k][i]] \in {"acked", "queued", "dead"}
    BY <1>3, <2>1 DEF Settle, Retried, LeasedOnce, Leased
  <2>6. \A m \in Messages : Fate(m)' = Fate(m) \/ Promised!Ends(m)
    <3> SUFFICES ASSUME NEW m \in Messages PROVE Fate(m)' = Fate(m) \/ Promised!Ends(m)
      OBVIOUS
    <3>1. CASE m \notin Leased(k)
      BY <2>4, <3>1 DEF Fate
    <3>2. CASE m \in Leased(k)
      <4>1. PICK i \in DOMAIN batch[k] : m = batch[k][i]
        BY <3>2 DEF Leased
      <4>2. status[m] = "leased" /\ Fate(m) = "pending"
        BY <2>5, <4>1 DEF Fate
      <4>3. CASE status'[m] = "acked"
        <5>1. m \in warm'
          BY <1>3, <2>3, <4>1, <4>3 DEF AckedIffWarmed, OkIsWarm, Settle
        <5>2. Fate(m)' = "done"
          BY <4>3 DEF Fate
        <5> QED
          BY <4>2, <5>1, <5>2 DEF Promised!Ends
      <4>4. CASE status'[m] = "queued"
        BY <4>2, <4>4 DEF Fate
      <4>5. CASE status'[m] = "dead"
        <5>1. attempts[m] = MaxRetries + 1
          BY <1>3, <4>5 DEF DeadAfterRetries, Settle
        <5>2. Fate(m)' = "dropped"
          BY <4>5 DEF Fate
        <5> QED
          BY <4>2, <5>1, <5>2 DEF Promised!Ends
      <4> QED
        BY <2>5, <4>1, <4>3, <4>4, <4>5
    <3> QED
      BY <3>1, <3>2
  <2> QED
    BY <1>0, <1>3, <2>6 DEF Promised!Conclude, Settle
<1>4. ASSUME NEW k \in Invocations, Kill(k) PROVE Promised!Conclude
  <2>1. \A m \in Messages : m \notin Leased(k) => status'[m] = status[m]
    BY <1>4 DEF Kill
  <2>2. \A m \in Leased(k) : m \in Messages /\ status[m] = "leased"
    <3>1. \A i \in DOMAIN batch[k] : batch[k][i] \in Messages
      BY BatchOfMessages
    <3> QED
      BY <3>1 DEF LeasedOnce, Leased
  <2>3. \A m \in Leased(k) : status'[m] \in {"queued", "dead"}
    BY <1>4, <2>2 DEF Kill, Retried
  <2>4. \A m \in Messages : Fate(m)' = Fate(m) \/ Promised!Ends(m)
    <3> SUFFICES ASSUME NEW m \in Messages PROVE Fate(m)' = Fate(m) \/ Promised!Ends(m)
      OBVIOUS
    <3>1. CASE m \notin Leased(k)
      BY <2>1, <3>1 DEF Fate
    <3>2. CASE m \in Leased(k) /\ status'[m] = "queued"
      BY <2>2, <3>2 DEF Fate
    <3>3. CASE m \in Leased(k) /\ status'[m] = "dead"
      <4>1. attempts[m] = MaxRetries + 1
        BY <1>4, <3>3 DEF DeadAfterRetries, Kill
      <4>2. Fate(m) = "pending" /\ Fate(m)' = "dropped"
        BY <2>2, <3>3 DEF Fate
      <4> QED
        BY <4>1, <4>2 DEF Promised!Ends
    <3> QED
      BY <2>3, <3>1, <3>2, <3>3
  <2>5. warm \subseteq warm' /\ warm' \ warm \subseteq Leased(k)
    BY <1>4 DEF Kill, Flying, Leased
  <2>6. \A m \in warm' \ warm : m \in Promised!Pending /\ attempts[m] > 0
    BY <2>2, <2>5 DEF Promised!Pending, Fate, LeasedIsTried
  <2> QED
    BY <1>0, <1>4, <2>4, <2>5, <2>6 DEF Promised!Conclude, Kill
<1>5. ASSUME NEW k \in Invocations, NEW i \in DOMAIN batch[k], Return(k, i) PROVE Promised!Conclude
  <2>1. batch[k][i] \in Messages /\ status[batch[k][i]] = "leased"
    <3>1. batch[k][i] \in Messages
      BY BatchOfMessages
    <3> QED
      BY <3>1 DEF LeasedOnce, Leased
  <2>2. warm \subseteq warm' /\ warm' \ warm \subseteq {batch[k][i]}
    BY <1>5 DEF Return
  <2>3. \A m \in warm' \ warm : m \in Promised!Pending /\ attempts[m] > 0
    BY <2>1, <2>2 DEF Promised!Pending, Fate, LeasedIsTried
  <2>4. \A m \in Messages : Fate(m)' = Fate(m)
    BY <1>5 DEF Return, Fate
  <2> QED
    BY <1>0, <1>5, <2>2, <2>3, <2>4 DEF Promised!Conclude, Return
<1>6. CASE UNCHANGED vars
  <2>1. fate' = fate
    BY <1>6 DEF vars, Fate
  <2> QED
    BY <1>6, <2>1 DEF vars, Promised!vars
<1> QED
  BY <1>1, <1>2, <1>3, <1>4, <1>5, <1>6 DEF Next, Drain, Promised!Next

\* The consumer implements the safety part of its promise for one service.
THEOREM RefinesWarmQueue == OneService => (Spec => Promised!Spec)
<1> SUFFICES ASSUME OneService PROVE Spec => Promised!Spec
  OBVIOUS
<1>1. Init => Promised!Init
  BY DEF Init, Promised!Init, Fate
<1>2. RInv /\ RInv' /\ [Next]_vars => [Promised!Next]_(Promised!vars)
  BY RefinesStep
<1>3. Spec => []RInv
  BY TypeCorrect, LeasesAgree, DeadOnlyAfterRetries, OkIsWarmInv, LeasedIsTriedInv, PTL DEF RInv
<1> QED
  BY <1>1, <1>2, <1>3, PTL DEF Spec, Promised!Spec
=============================================================================
