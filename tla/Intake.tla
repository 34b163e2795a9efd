------------------------------- MODULE Intake -------------------------------
(***************************************************************************)
(* The fetch handler of the executor Worker: POST /plans.  A plan is       *)
(* refused when it cannot be read, or when every sampled URL that answered *)
(* is not there; otherwise its entries go onto the queue, in the planner's *)
(* order and a chunk at a time.                                            *)
(*                                                                         *)
(* A job is one POST.  A caller that posts the same plan again makes       *)
(* another job: the handler keeps nothing between two of them.             *)
(***************************************************************************)
EXTENDS Integers, FiniteSets

CONSTANTS
  Jobs,        \* the POSTs
  Size,        \* how many entries the plan of each has
  Bad,         \* entries with no url or no service
  Gone,        \* entries whose URL no origin serves
  ChunkSize,   \* BATCH, the most messages of one sendBatch
  SampleSize   \* SAMPLE, how many URLs to ask about

ASSUME IntakeAssumption ==
  /\ Size \in [Jobs -> Nat]
  /\ ChunkSize \in Nat \ {0}
  /\ SampleSize \in Nat \ {0}

VARIABLES
  job,   \* how far the handler is with each POST
  sent   \* the entries that were put on the queue

vars == <<job, sent>>

EntriesOf(j) == {j} \X (1..Size[j])

Entry == UNION {EntriesOf(j) : j \in Jobs}

Init ==
  /\ job = [j \in Jobs |-> [stage |-> "unposted", at |-> 1, answered |-> 0, wrong |-> 0]]
  /\ sent = {}

\* 404, 401 or 400: the wrong path, no token, a body that is not a plan or has
\* one entry without a URL or a service.
Reject(j) ==
  /\ job[j].stage = "unposted"
  /\ job' = [job EXCEPT ![j].stage = "rejected"]
  /\ UNCHANGED sent

\* messagesFor reads every entry before anything is done with one.
Accept(j) ==
  /\ job[j].stage = "unposted"
  /\ EntriesOf(j) \intersect Bad = {}
  /\ job' = [job EXCEPT ![j].stage = "sampling"]
  /\ UNCHANGED sent

\* Slip: the quotient is rounded down.
StrideRoundedDown(j) == IF Size[j] <= SampleSize THEN 1 ELSE Size[j] \div SampleSize

\* max(1, ceil(entries / SAMPLE))
Stride(j) == IF Size[j] <= SampleSize THEN 1 ELSE (Size[j] + SampleSize - 1) \div SampleSize

Sampling(j) == job[j].at <= Size[j] /\ job[j].wrong < SampleSize

\* What a HEAD comes back as: below 400, 4xx, or nothing about the URL (5xx or
\* no answer).  An origin may answer 4xx for a URL it serves: 403, 405, 429.
HeadAnswers(e) == IF e \in Gone THEN {"wrong", "silent"} ELSE {"fine", "wrong", "silent"}

\* One turn of sample's loop.
Ask(j) ==
  /\ job[j].stage = "sampling"
  /\ Sampling(j)
  /\ \E answer \in HeadAnswers(<<j, job[j].at>>) :
       job' = [job EXCEPT
         ![j].at = @ + Stride(j),
         ![j].answered = IF answer = "silent" THEN @ ELSE @ + 1,
         ![j].wrong = IF answer = "wrong" THEN @ + 1 ELSE @]
  /\ UNCHANGED sent

\* Slip: a plan is refused only when the whole sample said no.
RefusedOnAllWrong(r) == r.wrong >= SampleSize

Refused(r) == r.answered > 0 /\ r.wrong = r.answered

\* The loop is over: 422, or on to the queue.
Judge(j) ==
  /\ job[j].stage = "sampling"
  /\ ~Sampling(j)
  /\ job' = [job EXCEPT ![j].stage = IF Refused(job[j]) THEN "refused" ELSE "sending", ![j].at = 1]
  /\ UNCHANGED sent

\* Slip: the slice starts one late.
ChunkShifted(j) == {e \in EntriesOf(j) : e[2] \in (job[j].at + 1) .. (job[j].at + ChunkSize)}

\* Slip: the slice is not cut at the end of the plan.
ChunkUncut(j) == {j} \X (job[j].at .. (job[j].at + ChunkSize - 1))

\* messages.slice(i, i + BATCH)
Chunk(j) == {e \in EntriesOf(j) : e[2] \in job[j].at .. (job[j].at + ChunkSize - 1)}

\* Slip: entries are queued while their plan is still being sampled.
CheckedEarly(j) == job[j].stage \in {"sampling", "sending"}

\* Slip: a plan nothing could check is kept waiting for an answer.
CheckedIfAnswered(j) == job[j].stage = "sending" /\ job[j].answered > 0

\* The sample is over and has not refused the plan.
Checked(j) == job[j].stage = "sending"

\* sendBatch resolves, or throws with the chunk stored or not.  The handler does
\* not catch: the caller gets a 500, and what was sent before stays on the queue.
Send(j, stored) ==
  /\ Checked(j)
  /\ job[j].at <= Size[j]
  /\ stored \in {{}, Chunk(j)}
  /\ \E reply \in {"resolves", "throws"} :
       /\ reply = "resolves" => stored = Chunk(j)
       /\ job' = IF reply = "resolves" THEN [job EXCEPT ![j].at = @ + ChunkSize]
                                       ELSE [job EXCEPT ![j].stage = "failed"]
  /\ sent' = sent \union stored

\* Response.json({ queued: messages.length })
Respond(j) ==
  /\ job[j].stage = "sending"
  /\ job[j].at > Size[j]
  /\ job' = [job EXCEPT ![j].stage = "queued"]
  /\ UNCHANGED sent

\* The steps that put nothing on the queue.
Quiet(j) == Reject(j) \/ Accept(j) \/ Ask(j) \/ Judge(j) \/ Respond(j)

Next == \E j \in Jobs : Quiet(j) \/ \E stored \in {{}, Chunk(j)} : Send(j, stored)

\* A request the Worker has let in is run to its answer.
Handle(j) ==
  \/ Ask(j) \/ Judge(j) \/ Respond(j)
  \/ \E stored \in {{}, Chunk(j)} : Send(j, stored)

Fairness == \A j \in Jobs : WF_vars(Handle(j))

Spec == Init /\ [][Next]_vars

FairSpec == Spec /\ Fairness

-----------------------------------------------------------------------------
(* Properties.                                                             *)

Stages == {"unposted", "rejected", "sampling", "refused", "sending", "queued", "failed"}

\* Every variable has the shape the handler gives it.
TypeOK ==
  /\ job \in [Jobs -> [stage : Stages, at : Nat \ {0}, answered : Nat, wrong : Nat]]
  /\ sent \subseteq Entry

SentOf(j) == {n \in 1..Size[j] : <<j, n>> \in sent}

\* "Refused rather than reported": a plan that was not let in has put nothing
\* on the queue, and an answer of queued means that all of it is there.
AllOrNothing ==
  \A j \in Jobs :
    /\ job[j].stage \in {"unposted", "rejected", "sampling", "refused"} => SentOf(j) = {}
    /\ job[j].stage = "queued" => SentOf(j) = 1..Size[j]

\* Wherever a send fails, what reached the queue is a head of the plan, never
\* an entry without the ones the planner put before it, and whole chunks of it.
SentFromTheTop ==
  \A j \in Jobs : \E n \in 0..Size[j] :
    /\ SentOf(j) = 1..n
    /\ n = Size[j] \/ n % ChunkSize = 0

\* A plan none of whose URLs exist never reaches the queue once one HEAD of the
\* sample has been answered, whichever entry it was about.
WrongPlanKeptOut ==
  \A j \in Jobs :
    EntriesOf(j) \subseteq Gone /\ job[j].answered > 0 => SentOf(j) = {}

\* Checking a plan costs the origins SampleSize HEADs at the most, however
\* many entries it has and whatever they answer.
SampleBounded ==
  \A j \in Jobs :
    job[j].stage = "sampling" =>
      \E turns \in 0..SampleSize :
        job[j].at = 1 + turns * Stride(j) /\ job[j].answered <= turns

\* Every POST that was let in is answered, and with nothing else than these.
EveryJobAnswered ==
  \A j \in Jobs : (job[j].stage = "sampling") ~> (job[j].stage \in {"refused", "queued", "failed"})
=============================================================================
