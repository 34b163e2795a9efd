------------------------------ MODULE Consumer ------------------------------
(***************************************************************************)
(* The queue handler of the executor Worker, workers/executor: batches of  *)
(* warm messages are fetched by one pool per service, and when every pool  *)
(* is done the messages of the batch are acked or retried.                 *)
(*                                                                         *)
(* The queue and the origins are not in the repository: they are modelled  *)
(* from what the Worker asks of them, with the numbers of wrangler.jsonc   *)
(* as constants.  The queue keeps no order, and hands a message over again *)
(* after a retry and after the death of the invocation that had it.  It is *)
(* not given the other right of an at-least-once queue, to hand the same   *)
(* delivery to two live invocations.                                       *)
(***************************************************************************)
EXTENDS Integers, Sequences, FiniteSets

CONSTANTS
  Messages,        \* the warm messages: one entry of one posted plan each
  Gone,            \* those whose URL no origin serves
  Services,        \* the origins
  ServiceOf,       \* message.body.service
  Limits,          \* OKIBI_LIMITS once parsed: a function on some keys
  Star,            \* its key "*"
  NaN,             \* a limit that is not a number
  Invocations,     \* as many as wrangler.jsonc max_concurrency
  MaxBatchSize,    \* wrangler.jsonc max_batch_size
  MaxRetries,      \* wrangler.jsonc max_retries
  MaxKills         \* bound: invocations that die before they settle

ASSUME ConsumerAssumption ==
  /\ Gone \subseteq Messages
  /\ ServiceOf \in [Messages -> Services]
  /\ \A s \in DOMAIN Limits : Limits[s] \in Int \union {NaN}
  /\ NaN \notin Int
  /\ IsFiniteSet(Invocations)
  /\ MaxBatchSize \in Nat \ {0}
  /\ MaxRetries \in Nat
  /\ MaxKills \in Nat

VARIABLES
  status,    \* where the queue has each message
  attempts,  \* how often it has handed the message over (message.attempts)
  batch,     \* the batch each invocation holds, empty when it is not running
  fetch,     \* per invocation, what became of the GET of each of its messages
  warm,      \* the messages whose tile an origin has generated
  kills      \* how many invocations have died

vars == <<status, attempts, batch, fetch, warm, kills>>

-----------------------------------------------------------------------------
(* How wide a service's pool is.                                           *)

\* limits[service] ?? limits["*"] ?? 4, at least one.  Math.max(1, NaN) is NaN.
ConcurrencyFor(s) ==
  LET limit == IF s \in DOMAIN Limits THEN Limits[s]
               ELSE IF Star \in DOMAIN Limits THEN Limits[Star] ELSE 4
  IN  IF limit = NaN THEN NaN ELSE IF limit < 1 THEN 1 ELSE limit

\* Array.from({length: Math.min(width, n)}): no runner at all when width is NaN.
Runners(s) == IF ConcurrencyFor(s) = NaN THEN 0 ELSE ConcurrencyFor(s)

-----------------------------------------------------------------------------
(* One batch b and the state f of its fetches.                             *)

SameService(b, i, j) == ServiceOf[b[i]] = ServiceOf[b[j]]

\* The positions of i's service up to i: where its pool's queue has it.
UpTo(b, i) == {j \in DOMAIN b : j <= i /\ SameService(b, j, i)}

\* Slip: a runner per item, whatever the width of the pool.
StartedAll(b) == [i \in DOMAIN b |-> "flying"]

\* A pool starts its runners, and each takes the next item of the pool's queue.
Started(b) ==
  [i \in DOMAIN b |->
     IF Cardinality(UpTo(b, i)) <= Runners(ServiceOf[b[i]]) THEN "flying" ELSE "waiting"]

\* Slip: a runner returns after its first item.
NextItemNone(b, f, i) == {}

\* The item a runner of i's pool takes next (next++): the first nobody has taken.
NextItem(b, f, i) ==
  {j \in DOMAIN b : /\ f[j] = "waiting"
                    /\ SameService(b, j, i)
                    /\ \A l \in DOMAIN b : f[l] = "waiting" /\ SameService(b, l, i) => j <= l}

\* The positions results.flat() keeps: a pool with no runner leaves holes.
Reported(b) == {i \in DOMAIN b : Runners(ServiceOf[b[i]]) > 0}

\* Slip: the pools are reported last service first.
ServiceSeenAfter(b, i, j) ==
  \E l \in DOMAIN b : SameService(b, l, j) /\ \A n \in DOMAIN b : SameService(b, n, i) => l < n

\* i's service entered byService before j's did.
ServiceSeenBefore(b, i, j) ==
  \E l \in DOMAIN b : SameService(b, l, i) /\ \A n \in DOMAIN b : SameService(b, n, j) => l < n

\* Where results.flat() puts the outcome of position i: the pools one after
\* the other, as byService holds them, and each in its own order.
FlatIndex(b, i) ==
  Cardinality({j \in Reported(b) : ServiceSeenBefore(b, j, i) \/ j \in UpTo(b, i)})

\* The position outcomes[p] is the outcome of.
Behind(b, p) == CHOOSE i \in Reported(b) : FlatIndex(b, i) = p

\* Slip: one warmed tile acks the whole batch.
AckedWithAny(b, f, p) == \E i \in DOMAIN b : f[i] = "ok"

\* The handler acks position p on an ok outcomes[p].  Past the last outcome it
\* does nothing, and the queue acks what a returned handler left alone.
AckedAt(b, f, p) == p > Cardinality(Reported(b)) \/ f[Behind(b, p)] = "ok"

-----------------------------------------------------------------------------

Init ==
  /\ status = [m \in Messages |-> "unsent"]
  /\ attempts = [m \in Messages |-> 0]
  /\ batch = [k \in Invocations |-> <<>>]
  /\ fetch = [k \in Invocations |-> <<>>]
  /\ warm = {}
  /\ kills = 0

Queued == {m \in Messages : status[m] = "queued"}

Leased(k) == {batch[k][i] : i \in DOMAIN batch[k]}

\* sendBatch stores a chunk.
Enqueue(S) ==
  /\ \A m \in S : status[m] = "unsent"
  /\ status' = [m \in Messages |-> IF m \in S THEN "queued" ELSE status[m]]
  /\ UNCHANGED <<attempts, batch, fetch, warm, kills>>

\* Everything an invocation may be handed: up to MaxBatchSize messages, any order.
Batches ==
  {b \in UNION {[1..n -> Queued] : n \in 1..MaxBatchSize} :
     \A i, j \in DOMAIN b : b[i] = b[j] => i = j}

\* The queue starts an invocation, and its pools start their first fetches.
Deliver(k) ==
  /\ batch[k] = <<>>
  /\ \E b \in Batches :
       LET handed == {b[i] : i \in DOMAIN b} IN
       /\ batch' = [batch EXCEPT ![k] = b]
       /\ fetch' = [fetch EXCEPT ![k] = Started(b)]
       /\ status' = [m \in Messages |-> IF m \in handed THEN "leased" ELSE status[m]]
       /\ attempts' = [m \in Messages |-> IF m \in handed THEN attempts[m] + 1 ELSE attempts[m]]
  /\ UNCHANGED <<warm, kills>>

\* response.ok, or any other status or a throw: warmOne reports either way.
GetOutcomes(m) == IF m \in Gone THEN {"failed"} ELSE {"ok", "failed"}

\* A GET of invocation k ends, and its runner takes the pool's next item.
Return(k, i) ==
  LET b == batch[k]
      f == fetch[k]
  IN
  /\ f[i] = "flying"
  /\ \E outcome \in GetOutcomes(b[i]) :
       /\ fetch' = [fetch EXCEPT ![k] =
            [j \in DOMAIN b |-> IF j = i THEN outcome
                                ELSE IF j \in NextItem(b, f, i) THEN "flying" ELSE f[j]]]
       /\ warm' = IF outcome = "ok" THEN warm \union {b[i]} ELSE warm
  /\ UNCHANGED <<status, attempts, batch, kills>>

\* Slip: the first delivery is counted as a retry.
RetriedTooFew(m) == IF attempts[m] < MaxRetries THEN "queued" ELSE "dead"

\* What message.retry() comes to: another delivery, or the dead-letter queue.
Retried(m) == IF attempts[m] <= MaxRetries THEN "queued" ELSE "dead"

\* Slip: the outcomes of a batch outlive it.
OverKeepingFetch(k) == batch' = [batch EXCEPT ![k] = <<>>] /\ UNCHANGED fetch

\* Slip: the handler never returns, and its invocation stays taken.
NeverOver(k) == UNCHANGED <<batch, fetch>>

\* Invocation k is over and free for another batch.
Over(k) ==
  /\ batch' = [batch EXCEPT ![k] = <<>>]
  /\ fetch' = [fetch EXCEPT ![k] = <<>>]

\* Every pool is done: outcomes.forEach((outcome, i) => ... batch.messages[i] ...).
Settle(k) ==
  LET b == batch[k] IN
  /\ b # <<>>
  /\ \A i \in DOMAIN b : fetch[k][i] # "flying"
  /\ status' = [m \in Messages |->
       IF m \notin Leased(k) THEN status[m]
       ELSE IF \E p \in DOMAIN b : b[p] = m /\ AckedAt(b, fetch[k], p) THEN "acked"
       ELSE Retried(m)]
  /\ Over(k)
  /\ UNCHANGED <<attempts, warm, kills>>

Flying(k) == {i \in DOMAIN batch[k] : fetch[k][i] = "flying"}

\* An invocation dies before it settles: its whole batch is redelivered.  The
\* GETs it had out may have generated their tiles all the same.
Kill(k) ==
  /\ batch[k] # <<>>
  /\ kills < MaxKills
  /\ kills' = kills + 1
  /\ \E landed \in SUBSET ({batch[k][i] : i \in Flying(k)} \ Gone) : warm' = warm \union landed
  /\ status' = [m \in Messages |-> IF m \in Leased(k) THEN Retried(m) ELSE status[m]]
  /\ Over(k)
  /\ UNCHANGED attempts

\* What the Worker's invocations and the queue do with what is on it.
Drain ==
  \E k \in Invocations :
    \/ Deliver(k)
    \/ Settle(k)
    \/ Kill(k)
    \/ \E i \in DOMAIN batch[k] : Return(k, i)

Next == Drain \/ \E S \in SUBSET Messages : S # {} /\ Enqueue(S)

\* The runtime runs a handler to its end, every GET ends (the platform bounds
\* both), and while an invocation is free the queue hands over what it holds.
Fairness ==
  /\ \A k \in Invocations : /\ WF_vars(Settle(k))
                            /\ WF_vars(\E i \in DOMAIN batch[k] : Return(k, i))
  /\ WF_vars(\E k \in Invocations : Deliver(k))

Spec == Init /\ [][Next]_vars

FairSpec == Spec /\ Fairness

-----------------------------------------------------------------------------
(* Properties.                                                             *)

\* Every variable has the shape the handler and the queue give it.
TypeOK ==
  /\ status \in [Messages -> {"unsent", "queued", "leased", "acked", "dead"}]
  /\ attempts \in [Messages -> Nat]
  /\ batch \in [Invocations -> UNION {[1..n -> Messages] : n \in 0..MaxBatchSize}]
  /\ DOMAIN fetch = Invocations
  /\ \A k \in Invocations :
       fetch[k] \in [DOMAIN batch[k] -> {"waiting", "flying", "ok", "failed"}]
  /\ warm \subseteq Messages \ Gone
  /\ kills \in 0..MaxKills

\* "A message is retried once and then dropped": it is dead-lettered only after
\* a first delivery and MaxRetries more, and is not delivered again after that.
DeadAfterRetries ==
  \A m \in Messages :
    /\ attempts[m] <= MaxRetries + 1
    /\ status[m] = "dead" => attempts[m] = MaxRetries + 1
    /\ status[m] = "queued" => attempts[m] <= MaxRetries
    /\ status[m] = "unsent" => attempts[m] = 0

FlyingOf(k, s) == {i \in Flying(k) : ServiceOf[batch[k][i]] = s}

WaitingOf(k, s) ==
  {i \in DOMAIN batch[k] : fetch[k][i] = "waiting" /\ ServiceOf[batch[k][i]] = s}

\* No invocation has more of one service's tiles in flight than OKIBI_LIMITS
\* says: the runners of a pool share one cursor and never start more.
WithinLimit ==
  \A k \in Invocations, s \in Services : Cardinality(FlyingOf(k, s)) <= Runners(s)

\* Two origins in one batch do not take turns: a pool with work left has every
\* one of its runners busy, whatever the other pools wait for.
PoolsBusy ==
  \A k \in Invocations, s \in Services :
    WaitingOf(k, s) # {} => Cardinality(FlyingOf(k, s)) >= Runners(s)

\* Each service's messages sit together in the batch.
Grouped(b) ==
  \A i, j, l \in DOMAIN b : i < j /\ j < l /\ SameService(b, i, l) => SameService(b, i, j)

\* Every pool of the batch has a runner.
Served(b) == Reported(b) = DOMAIN b

\* Invocation k gives its batch back, and not by dying.
Settles(k) == batch[k] # <<>> /\ batch'[k] = <<>> /\ kills' = kills

AckedIffWarmed(k) ==
  \A i \in DOMAIN batch[k] : (status'[batch[k][i]] = "acked") <=> (fetch[k][i] = "ok")

\* A batch whose services sit together is settled message by message on what
\* its own GET came to: an ack for a warmed tile, a retry for another.
GroupedSettlesOnOwn ==
  [][\A k \in Invocations :
       Settles(k) /\ Grouped(batch[k]) /\ Served(batch[k]) => AckedIffWarmed(k)]_vars

\* "returns outcomes in the order it was given" (test/plan.test.ts): a message
\* is acked exactly when its own tile warmed, in whatever batch it came.
RetriedIffFailed == [][\A k \in Invocations : Settles(k) => AckedIffWarmed(k)]_vars

\* "A malformed limit is not a reason to stop warming" (readLimits, index.ts):
\* an acked message has had its tile asked for.
AckedWasFetched ==
  [][\A k \in Invocations : Settles(k) =>
       \A i \in DOMAIN batch[k] :
         status'[batch[k][i]] = "acked" => fetch[k][i] # "waiting"]_vars

\* What reaches the queue leaves it, acked or dead-lettered, whatever fails.
EveryMessageSettles ==
  \A m \in Messages : (status[m] = "queued") ~> (status[m] \in {"acked", "dead"})

\* What has become of a message for the caller whose plan named it.
Fate(m) ==
  CASE status[m] = "unsent" -> "outside"
    [] status[m] \in {"queued", "leased"} -> "pending"
    [] status[m] = "acked" -> "done"
    [] status[m] = "dead" -> "dropped"

\* What the README promises of a plan's entries.
Promised == INSTANCE WarmQueue WITH
  MaxTries <- MaxRetries + 1, fate <- [m \in Messages |-> Fate(m)], tries <- attempts

\* The consumer keeps that promise where every batch is Grouped and Served.
ImplementsPromise == Promised!Promise
=============================================================================
