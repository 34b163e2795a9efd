--------------------------- MODULE ExecutorProofs ---------------------------
(***************************************************************************)
(* What holds of the whole executor Worker: its two handlers, running      *)
(* together, are each still the handler of its own module, what was not    *)
(* let in is not fetched, and what was let in ends as WarmQueue says.      *)
(***************************************************************************)
EXTENDS Executor, TLAPS

\* What is proved of Intake by itself.
Alone == INSTANCE IntakeProofs

\* What is proved of Consumer by itself.
Draining == INSTANCE ConsumerProofs

-----------------------------------------------------------------------------
(* The parts.                                                              *)

\* index.ts, fetch: whatever the queue does meanwhile, each POST is handled as
\* Intake says.
THEOREM ExecutorRunsIntake == Spec => Posted!Spec
<1>1. Init => Posted!Init
  BY DEF Init
<1>2. [Next]_vars => [Posted!Next]_(Posted!vars)
  <2> SUFFICES ASSUME [Next]_vars PROVE [Posted!Next]_(Posted!vars)
    OBVIOUS
  <2>1. ASSUME NEW j \in Jobs, Quiet(j) PROVE Posted!Next
    BY <2>1 DEF Quiet, Posted!Next
  <2>2. ASSUME NEW j \in Jobs, Send(j) PROVE Posted!Next
    BY <2>2 DEF Send, Posted!Next
  <2>3. CASE Drain \/ UNCHANGED vars
    BY <2>3 DEF Drain, vars, intakeVars, Posted!vars
  <2> QED
    BY <2>1, <2>2, <2>3 DEF Next
<1> QED
  BY <1>1, <1>2, PTL DEF Spec, Posted!Spec

\* The queue knows a status of each message.
StatusOfEach == status = [m \in Messages |-> status[m]]

LEMMA StatusOfEachInv == Spec => []StatusOfEach
<1>1. Init => StatusOfEach
  BY DEF Init, Queue!Init, StatusOfEach
<1>2. StatusOfEach /\ [Next]_vars => StatusOfEach'
  <2> SUFFICES ASSUME StatusOfEach, [Next]_vars PROVE StatusOfEach'
    OBVIOUS
  <2>1. ASSUME NEW k \in Invocations, Queue!Deliver(k) PROVE StatusOfEach'
    BY <2>1 DEF Queue!Deliver, StatusOfEach
  <2>2. ASSUME NEW k \in Invocations, Queue!Settle(k) \/ Queue!Kill(k) PROVE StatusOfEach'
    BY <2>2 DEF Queue!Settle, Queue!Kill, StatusOfEach
  <2>3. ASSUME NEW j \in Jobs, Send(j) PROVE StatusOfEach'
    BY <2>3 DEF Send, Queue!Enqueue, StatusOfEach
  <2>4. CASE UNCHANGED status
    BY <2>4 DEF StatusOfEach
  <2> QED
    BY <2>1, <2>2, <2>3, <2>4 DEF Next, Quiet, Drain, Queue!Drain, Queue!Return, queueVars, vars
<1> QED
  BY <1>1, <1>2, PTL DEF Spec

\* What a job may store is entries of its plan.
LEMMA ChunksAreMessages ==
  ASSUME NEW j \in Jobs, NEW stored \in {{}, Posted!Chunk(j)}
  PROVE  stored \subseteq Messages
  BY ExecutorAssumption DEF Posted!Chunk, Posted!Entry

\* index.ts, queue: whatever is posted meanwhile, the batches are fetched and
\* settled as Consumer says; a send that stores nothing does not show.
THEOREM ExecutorRunsConsumer == Spec => Queue!Spec
<1>1. Init => Queue!Init
  BY DEF Init
<1>2. StatusOfEach /\ [Next]_vars => [Queue!Next]_(Queue!vars)
  <2> SUFFICES ASSUME StatusOfEach, [Next]_vars PROVE [Queue!Next]_(Queue!vars)
    OBVIOUS
  <2>1. ASSUME NEW j \in Jobs, Quiet(j) PROVE UNCHANGED Queue!vars
    BY <2>1 DEF Quiet, queueVars, Queue!vars
  <2>2. ASSUME NEW j \in Jobs, Send(j) PROVE [Queue!Next]_(Queue!vars)
    <3>1. PICK stored \in {{}, Posted!Chunk(j)} : Queue!Enqueue(stored)
      BY <2>2 DEF Send
    <3>2. CASE stored = {}
      <4>1. status' = status
        BY <3>1, <3>2 DEF Queue!Enqueue, StatusOfEach
      <4> QED
        BY <3>1, <4>1 DEF Queue!Enqueue, Queue!vars
    <3>3. CASE stored # {}
      BY <3>1, <3>3, ChunksAreMessages DEF Queue!Next
    <3> QED
      BY <3>2, <3>3
  <2>3. CASE Drain
    BY <2>3 DEF Drain, Queue!Next
  <2>4. CASE UNCHANGED vars
    BY <2>4 DEF vars, Queue!vars
  <2> QED
    BY <2>1, <2>2, <2>3, <2>4 DEF Next
<1> QED
  BY <1>1, <1>2, StatusOfEachInv, PTL DEF Spec, Queue!Spec

-----------------------------------------------------------------------------
(* RefusedNeverFetched.                                                    *)

\* What the two handlers know of an entry goes together: the queue has it just
\* when a send has stored it, and nothing else is in a batch, tried or fetched.
OnlySentIsTried ==
  /\ \A e \in Messages : status[e] = "unsent" <=> e \notin sent
  /\ \A e \in Messages \ sent : attempts[e] = 0 /\ e \notin warm
  /\ \A k \in Invocations : \A i \in DOMAIN batch[k] : batch[k][i] \in sent

\* Each invocation has its batch.
Handlers == DOMAIN batch = Invocations

LEMMA OnlySentIsTriedInv == Spec => [](Handlers /\ OnlySentIsTried)
<1>1. Init => Handlers /\ OnlySentIsTried
  BY DEF Init, Queue!Init, Posted!Init, Handlers, OnlySentIsTried
<1>2. Handlers /\ OnlySentIsTried /\ [Next]_vars => (Handlers /\ OnlySentIsTried)'
  <2> SUFFICES ASSUME Handlers, OnlySentIsTried, [Next]_vars
               PROVE  Handlers' /\ OnlySentIsTried'
    OBVIOUS
  <2> USE DEF Handlers
  <2>1. ASSUME NEW j \in Jobs, Send(j) PROVE Handlers' /\ OnlySentIsTried'
    <3>1. PICK stored \in {{}, Posted!Chunk(j)} : /\ Queue!Enqueue(stored)
                                                  /\ sent' = sent \union stored
      BY <2>1 DEF Send, Posted!Send
    <3> QED
      BY <3>1 DEF Queue!Enqueue, OnlySentIsTried
  <2>2. ASSUME NEW j \in Jobs, Quiet(j) PROVE Handlers' /\ OnlySentIsTried'
    BY <2>2 DEF Quiet, queueVars, OnlySentIsTried, Posted!Quiet, Posted!Reject, Posted!Accept,
                Posted!Ask, Posted!Judge, Posted!Respond
  <2>3. ASSUME NEW k \in Invocations, Queue!Deliver(k), sent' = sent
        PROVE  Handlers' /\ OnlySentIsTried'
    <3>1. PICK b \in Queue!Batches :
            /\ batch' = [batch EXCEPT ![k] = b]
            /\ status' = [m \in Messages |-> IF m \in {b[i] : i \in DOMAIN b} THEN "leased" ELSE status[m]]
            /\ attempts' = [m \in Messages |-> IF m \in {b[i] : i \in DOMAIN b} THEN attempts[m] + 1 ELSE attempts[m]]
            /\ warm' = warm
      BY <2>3 DEF Queue!Deliver
    <3>2. \A i \in DOMAIN b : b[i] \in sent
      BY DEF Queue!Batches, Queue!Queued, OnlySentIsTried
    <3> QED
      BY <2>3, <3>1, <3>2 DEF OnlySentIsTried
  <2>4. ASSUME NEW k \in Invocations, Queue!Settle(k) \/ Queue!Kill(k), sent' = sent
        PROVE  Handlers' /\ OnlySentIsTried'
    <3>1. /\ batch' = [batch EXCEPT ![k] = <<>>] /\ attempts' = attempts
          /\ \A m \in Messages : IF m \in Queue!Leased(k) THEN status'[m] # "unsent"
                                                          ELSE status'[m] = status[m]
      BY <2>4 DEF Queue!Settle, Queue!Kill, Queue!Over, Queue!Retried
    <3>2. Queue!Leased(k) \subseteq sent
      BY DEF Queue!Leased, OnlySentIsTried
    <3>3. warm' \ warm \subseteq Queue!Leased(k)
      BY <2>4 DEF Queue!Settle, Queue!Kill, Queue!Flying, Queue!Leased
    <3>4. DOMAIN batch'[k] = {} /\ \A l \in Invocations \ {k} : batch'[l] = batch[l]
      BY <3>1
    <3> QED
      BY <2>4, <3>1, <3>2, <3>3, <3>4 DEF OnlySentIsTried
  <2>5. ASSUME NEW k \in Invocations, NEW i \in DOMAIN batch[k], Queue!Return(k, i), sent' = sent
        PROVE  Handlers' /\ OnlySentIsTried'
    <3>1. batch[k][i] \in sent /\ warm' \subseteq warm \union {batch[k][i]}
      BY <2>5 DEF Queue!Return, OnlySentIsTried
    <3> QED
      BY <2>5, <3>1 DEF Queue!Return, OnlySentIsTried
  <2>6. CASE UNCHANGED vars
    BY <2>6 DEF vars, OnlySentIsTried
  <2> QED
    BY <2>1, <2>2, <2>3, <2>4, <2>5, <2>6 DEF Next, Drain, Queue!Drain, intakeVars
<1> QED
  BY <1>1, <1>2, PTL DEF Spec

\* Intake is the same whichever name its instance goes by.
LEMMA PostedIsAlone == Posted!Spec => Alone!Spec
<1>1. Posted!Init => Alone!Init
  BY DEF Posted!Init, Alone!Init
<1>2. [Posted!Next]_(Posted!vars) => [Alone!Next]_(Alone!vars)
  <2> SUFFICES ASSUME [Posted!Next]_(Posted!vars) PROVE [Alone!Next]_(Alone!vars)
    OBVIOUS
  <2>1. ASSUME NEW j \in Jobs, Posted!Quiet(j) PROVE Alone!Quiet(j)
    BY <2>1 DEF Posted!Quiet, Alone!Quiet, Posted!Reject, Alone!Reject, Posted!Accept,
                Alone!Accept, Posted!EntriesOf, Alone!EntriesOf, Posted!Ask, Alone!Ask,
                Posted!Sampling, Alone!Sampling, Posted!Stride, Alone!Stride,
                Posted!HeadAnswers, Alone!HeadAnswers, Posted!Judge, Alone!Judge,
                Posted!Refused, Alone!Refused, Posted!Respond, Alone!Respond
  <2>2. ASSUME NEW j \in Jobs, NEW stored \in {{}, Posted!Chunk(j)}, Posted!Send(j, stored)
        PROVE  stored \in {{}, Alone!Chunk(j)} /\ Alone!Send(j, stored)
    BY <2>2 DEF Posted!Send, Alone!Send, Posted!Checked, Alone!Checked, Posted!Chunk,
                Alone!Chunk, Posted!EntriesOf, Alone!EntriesOf
  <2>3. CASE UNCHANGED Posted!vars
    BY <2>3 DEF Posted!vars, Alone!vars
  <2> QED
    BY <2>1, <2>2, <2>3 DEF Posted!Next, Alone!Next
<1> QED
  BY <1>1, <1>2, PTL DEF Posted!Spec, Alone!Spec

\* index.ts: "By the time the batch summaries say 404 the requests have already
\* been made."  No tile of a plan that was refused or could not be read has been
\* tried or fetched, however the queue runs meanwhile.
THEOREM RefusedPlansNeverFetched == Spec => []RefusedNeverFetched
<1>1. Spec => []Alone!AllOrNothing
  <2>1. Alone!IntakeAssumption
    BY ExecutorAssumption DEF Posted!IntakeAssumption, Alone!IntakeAssumption
  <2>2. Alone!Spec => []Alone!AllOrNothing
    BY <2>1, Alone!PlansAllOrNothing
  <2> QED
    BY <2>2, ExecutorRunsIntake, PostedIsAlone, PTL
<1>2. Alone!AllOrNothing /\ OnlySentIsTried => RefusedNeverFetched
  <2> SUFFICES ASSUME Alone!AllOrNothing, OnlySentIsTried, NEW e \in Messages,
                      job[e[1]].stage \in {"rejected", "sampling", "refused"}
               PROVE  attempts[e] = 0 /\ e \notin warm
    BY DEF RefusedNeverFetched
  <2>1. PICK j \in Jobs : \E n \in 1..Size[j] : e = <<j, n>>
    BY ExecutorAssumption DEF Posted!Entry, Posted!EntriesOf
  <2>2. Alone!SentOf(j) = {}
    BY <2>1 DEF Alone!AllOrNothing
  <2>3. e \notin sent
    BY <2>1, <2>2 DEF Alone!SentOf
  <2> QED
    BY <2>3 DEF OnlySentIsTried
<1> QED
  BY <1>1, <1>2, OnlySentIsTriedInv, PTL

-----------------------------------------------------------------------------
(* What the Worker promises.                                              *)

\* Consumer is the same whichever name its instance goes by.
LEMMA SamePools ==
  ASSUME NEW b, NEW f, NEW i
  PROVE  /\ Queue!Started(b) = Draining!Started(b)
         /\ Queue!NextItem(b, f, i) = Draining!NextItem(b, f, i)
         /\ Queue!AckedAt(b, f, i) = Draining!AckedAt(b, f, i)
<1>0. \A S : Queue!Cardinality(S) = Draining!Cardinality(S)
  BY DEF Queue!Cardinality, Draining!Cardinality
<1>1. \A s : Queue!Runners(s) = Draining!Runners(s)
  BY DEF Queue!Runners, Draining!Runners, Queue!ConcurrencyFor, Draining!ConcurrencyFor
<1>2. \A c, j, l : Queue!SameService(c, j, l) <=> Draining!SameService(c, j, l)
  BY DEF Queue!SameService, Draining!SameService
<1>3. \A j : Queue!UpTo(b, j) = Draining!UpTo(b, j)
  BY <1>2 DEF Queue!UpTo, Draining!UpTo
<1>4. Queue!Started(b) = Draining!Started(b)
  BY <1>0, <1>1, <1>3 DEF Queue!Started, Draining!Started
<1>5. Queue!NextItem(b, f, i) = Draining!NextItem(b, f, i)
  BY <1>2 DEF Queue!NextItem, Draining!NextItem
<1>6. Queue!Reported(b) = Draining!Reported(b)
  BY <1>1 DEF Queue!Reported, Draining!Reported
<1>7. \A j, l : Queue!ServiceSeenBefore(b, j, l) <=> Draining!ServiceSeenBefore(b, j, l)
  BY <1>2 DEF Queue!ServiceSeenBefore, Draining!ServiceSeenBefore
<1>8. \A j : Queue!FlatIndex(b, j) = Draining!FlatIndex(b, j)
  BY <1>0, <1>3, <1>6, <1>7 DEF Queue!FlatIndex, Draining!FlatIndex
<1>9. Queue!Behind(b, i) = Draining!Behind(b, i)
  BY <1>6, <1>8 DEF Queue!Behind, Draining!Behind
<1>10. Queue!AckedAt(b, f, i) = Draining!AckedAt(b, f, i)
  BY <1>0, <1>6, <1>9 DEF Queue!AckedAt, Draining!AckedAt
<1> QED
  BY <1>4, <1>5, <1>10

\* Nor do its steps tell the two apart.
LEMMA QueueIsDraining == Queue!Spec => Draining!Spec
<1>1. Queue!Init => Draining!Init
  BY DEF Queue!Init, Draining!Init
<1>2. [Queue!Next]_(Queue!vars) => [Draining!Next]_(Draining!vars)
  <2> SUFFICES ASSUME [Queue!Next]_(Queue!vars) PROVE [Draining!Next]_(Draining!vars)
    OBVIOUS
  <2>1. ASSUME NEW S \in SUBSET Messages, S # {}, Queue!Enqueue(S) PROVE Draining!Enqueue(S)
    BY <2>1 DEF Queue!Enqueue, Draining!Enqueue
  <2>2. ASSUME NEW k \in Invocations, Queue!Deliver(k) PROVE Draining!Deliver(k)
    <3>1. Queue!Batches = Draining!Batches
      BY DEF Queue!Batches, Draining!Batches, Queue!Queued, Draining!Queued
    <3>2. \A b : Queue!Started(b) = Draining!Started(b)
      BY SamePools
    <3> QED
      BY <2>2, <3>1, <3>2 DEF Queue!Deliver, Draining!Deliver
  <2>3. ASSUME NEW k \in Invocations, Queue!Settle(k) PROVE Draining!Settle(k)
    BY <2>3, SamePools DEF Queue!Settle, Draining!Settle, Queue!Leased, Draining!Leased,
                           Queue!Retried, Draining!Retried, Queue!Over, Draining!Over
  <2>4. ASSUME NEW k \in Invocations, Queue!Kill(k) PROVE Draining!Kill(k)
    BY <2>4 DEF Queue!Kill, Draining!Kill, Queue!Leased, Draining!Leased, Queue!Flying,
                Draining!Flying, Queue!Retried, Draining!Retried, Queue!Over, Draining!Over
  <2>5. ASSUME NEW k \in Invocations, NEW i \in DOMAIN batch[k], Queue!Return(k, i)
        PROVE  Draining!Return(k, i)
    BY <2>5, SamePools DEF Queue!Return, Draining!Return, Queue!GetOutcomes, Draining!GetOutcomes
  <2>6. CASE UNCHANGED Queue!vars
    BY <2>6 DEF Queue!vars, Draining!vars
  <2> QED
    BY <2>1, <2>2, <2>3, <2>4, <2>5, <2>6
    DEF Queue!Next, Queue!Drain, Draining!Next, Draining!Drain
<1> QED
  BY <1>1, <1>2, PTL DEF Queue!Spec, Draining!Spec

\* And so of what it promises.
LEMMA PromisesAreSame == Draining!Promised!Spec => Queue!Promised!Spec
<1>1. Draining!Promised!Init => Queue!Promised!Init
  BY DEF Draining!Fate, Queue!Fate, Draining!Promised!Init, Queue!Promised!Init
<1>2. [Draining!Promised!Next]_(Draining!Promised!vars) => [Queue!Promised!Next]_(Queue!Promised!vars)
  <2> SUFFICES ASSUME [Draining!Promised!Next]_(Draining!Promised!vars)
               PROVE  [Queue!Promised!Next]_(Queue!Promised!vars)
    OBVIOUS
  <2> DEFINE F == [m \in Messages |-> Queue!Fate(m)]
             G == [m \in Messages |-> Draining!Fate(m)]
  <2>0. F = G /\ F' = G' /\ Queue!Promised!Fates = Draining!Promised!Fates
    <3>1. F = G
      BY DEF Queue!Fate, Draining!Fate
    <3>2. F' = G'
      BY DEF Queue!Fate, Draining!Fate
    <3>3. Queue!Promised!Fates = Draining!Promised!Fates
      BY DEF Queue!Promised!Fates, Draining!Promised!Fates
    <3> QED
      BY <3>1, <3>2, <3>3
  <2>1. CASE Draining!Promised!TakeIn
    <3>1. /\ G' \in [Messages -> Draining!Promised!Fates]
          /\ \A m \in Messages : G'[m] = G[m] \/ (G[m] = "outside" /\ G'[m] = "pending")
          /\ UNCHANGED <<attempts, warm>>
      BY <2>1 DEF Draining!Promised!TakeIn
    <3> HIDE DEF F, G
    <3>2. /\ F' \in [Messages -> Queue!Promised!Fates]
          /\ \A m \in Messages : F'[m] = F[m] \/ (F[m] = "outside" /\ F'[m] = "pending")
          /\ UNCHANGED <<attempts, warm>>
      BY <2>0, <3>1
    <3>3. Queue!Promised!TakeIn
      BY <3>2 DEF F, Queue!Promised!TakeIn
    <3> QED
      BY <3>3 DEF Queue!Promised!Next
  <2>2. CASE Draining!Promised!Try
    <3>1. /\ attempts' \in [Messages -> 0..(MaxRetries + 1)]
          /\ \A m \in Messages : attempts'[m] = attempts[m] \/ (G[m] = "pending" /\ attempts'[m] = attempts[m] + 1)
          /\ G' = G /\ warm' = warm
      BY <2>2 DEF Draining!Promised!Try, Draining!Promised!Pending
    <3> HIDE DEF F, G
    <3>2. /\ attempts' \in [Messages -> 0..(MaxRetries + 1)]
          /\ \A m \in Messages : attempts'[m] = attempts[m] \/ (F[m] = "pending" /\ attempts'[m] = attempts[m] + 1)
          /\ F' = F /\ warm' = warm
      BY <2>0, <3>1
    <3>3. Queue!Promised!Try
      BY <3>2 DEF F, Queue!Promised!Try, Queue!Promised!Pending
    <3> QED
      BY <3>3 DEF Queue!Promised!Next
  <2>3. CASE Draining!Promised!Conclude
    <3>1. /\ warm \subseteq warm' /\ \A m \in warm' \ warm : m \in Messages /\ G[m] = "pending" /\ attempts[m] > 0
          /\ G' \in [Messages -> Draining!Promised!Fates]
          /\ \A m \in Messages :
               \/ G'[m] = G[m]
               \/ /\ G[m] = "pending"
                  /\ \/ G'[m] = "done" /\ m \in warm'
                     \/ G'[m] = "dropped" /\ attempts[m] = MaxRetries + 1
          /\ UNCHANGED attempts
      BY <2>3 DEF Draining!Promised!Conclude, Draining!Promised!Ends, Draining!Promised!Pending
    <3> HIDE DEF F, G
    <3>2. /\ warm \subseteq warm' /\ \A m \in warm' \ warm : m \in Messages /\ F[m] = "pending" /\ attempts[m] > 0
          /\ F' \in [Messages -> Queue!Promised!Fates]
          /\ \A m \in Messages :
               \/ F'[m] = F[m]
               \/ /\ F[m] = "pending"
                  /\ \/ F'[m] = "done" /\ m \in warm'
                     \/ F'[m] = "dropped" /\ attempts[m] = MaxRetries + 1
          /\ UNCHANGED attempts
      BY <2>0, <3>1
    <3>3. Queue!Promised!Conclude
      BY <3>2 DEF F, Queue!Promised!Conclude, Queue!Promised!Ends, Queue!Promised!Pending
    <3> QED
      BY <3>3 DEF Queue!Promised!Next
  <2>4. CASE UNCHANGED Draining!Promised!vars
    BY <2>4 DEF Draining!Fate, Queue!Fate, Draining!Promised!vars, Queue!Promised!vars
  <2> QED
    BY <2>1, <2>2, <2>3, <2>4 DEF Draining!Promised!Next, Queue!Promised!Next
<1> QED
  BY <1>1, <1>2, PTL DEF Queue!Promised!Spec, Draining!Promised!Spec

\* index.ts, fetch and queue together keep the promise of WarmQueue: whatever is posted meanwhile, entries are done when
\* their own tile has been warmed, dropped after their last retry, and fetched only when
\* they were taken in; for plans of one service whose limit is a number.
THEOREM ExecutorKeepsPromise ==
  Draining!OneService => (Spec => Queue!Promised!Spec)
<1> SUFFICES ASSUME Draining!OneService PROVE Spec => Queue!Promised!Spec
  OBVIOUS
<1>1. Draining!ConsumerAssumption
  BY ExecutorAssumption DEF Queue!ConsumerAssumption, Draining!ConsumerAssumption,
                            Queue!IsFiniteSet, Draining!IsFiniteSet
<1>2. Draining!Spec => Draining!Promised!Spec
  BY <1>1, Draining!RefinesWarmQueue
<1> QED
  BY <1>2, ExecutorRunsConsumer, QueueIsDraining, PromisesAreSame, PTL
=============================================================================
