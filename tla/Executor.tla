------------------------------ MODULE Executor ------------------------------
(***************************************************************************)
(* The executor Worker: Intake, which puts the entries of posted plans on  *)
(* the queue, and Consumer, which takes them off it.  The two run          *)
(* concurrently and share nothing but the queue.                           *)
(***************************************************************************)
EXTENDS Integers, Sequences, FiniteSets

CONSTANTS
  Jobs, Size, Bad, Gone, ChunkSize, SampleSize,
  Messages,      \* every entry of every plan
  Services, ServiceOf, Limits, Star, NaN,
  Invocations, MaxBatchSize, MaxRetries, MaxKills

VARIABLES job, sent, status, attempts, batch, fetch, warm, kills

intakeVars == <<job, sent>>
queueVars == <<status, attempts, batch, fetch, warm, kills>>
vars == <<job, sent, status, attempts, batch, fetch, warm, kills>>

Posted == INSTANCE Intake

Queue == INSTANCE Consumer

ASSUME ExecutorAssumption ==
  /\ Messages = Posted!Entry
  /\ Posted!IntakeAssumption
  /\ Queue!ConsumerAssumption

Init == Posted!Init /\ Queue!Init

\* What a send stores is what the queue gains.
Send(j) ==
  \E stored \in {{}, Posted!Chunk(j)} : Posted!Send(j, stored) /\ Queue!Enqueue(stored)

Quiet(j) == Posted!Quiet(j) /\ UNCHANGED queueVars

Drain == Queue!Drain /\ UNCHANGED intakeVars

Next == (\E j \in Jobs : Quiet(j) \/ Send(j)) \/ Drain

\* Both handlers are run to their end, and the queue keeps delivering.
Fairness ==
  /\ \A j \in Jobs :
       WF_vars(Send(j) \/ (Posted!Handle(j) /\ UNCHANGED <<sent, queueVars>>))
  /\ \A k \in Invocations :
       /\ WF_vars(Queue!Settle(k) /\ UNCHANGED intakeVars)
       /\ WF_vars((\E i \in DOMAIN batch[k] : Queue!Return(k, i)) /\ UNCHANGED intakeVars)
  /\ WF_vars((\E k \in Invocations : Queue!Deliver(k)) /\ UNCHANGED intakeVars)

Spec == Init /\ [][Next]_vars

FairSpec == Spec /\ Fairness

-----------------------------------------------------------------------------
(* Properties.                                                             *)

\* Entries are done when their own tile has been warmed, dropped after their last
\* retry, and fetched only when they were taken in (WarmQueue), while all of
\* them are of one service and its limit is a number.
ImplementsPromise == Queue!ImplementsPromise

\* "By the time the batch summaries say 404 the requests have already been
\* made" (index.ts): not for a plan that was refused or could not be read.
RefusedNeverFetched ==
  \A e \in Messages :
    job[e[1]].stage \in {"rejected", "sampling", "refused"} =>
      attempts[e] = 0 /\ e \notin warm

\* "queued: n" is n entries that each end acked or dead-lettered, whatever
\* happens to the invocations that drain them.
QueuedPlanDrains ==
  \A j \in Jobs :
    (job[j].stage = "queued") ~> (\A e \in Posted!EntriesOf(j) : status[e] \in {"acked", "dead"})
=============================================================================
