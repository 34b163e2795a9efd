---------------------------- MODULE IntakeProofs ----------------------------
(***************************************************************************)
(* What holds of Intake for any plans, of any size and with any of their   *)
(* URLs gone, any sample and any chunk.                                    *)
(***************************************************************************)
EXTENDS Intake, Numbers

-----------------------------------------------------------------------------
(* The inductive invariant.                                                *)

\* What the handler keeps of a POST.
Record == [stage : Stages, at : Nat \ {0}, answered : Nat, wrong : Nat]

\* What is sent of j is its first n chunks.
SentChunks(j, n) == SentOf(j) = {i \in 1..Size[j] : i < 1 + n * ChunkSize}

\* What a stage says of what has been sent.
SentByStage(j) ==
  /\ job[j].stage \in {"unposted", "rejected", "sampling", "refused"} => SentOf(j) = {}
  /\ job[j].stage = "sending" =>
       \E n \in 0..Size[j] : job[j].at = 1 + n * ChunkSize /\ SentChunks(j, n)
  /\ job[j].stage = "queued" => SentOf(j) = 1..Size[j]
  /\ job[j].stage = "failed" => \E n \in 0..Size[j] : SentChunks(j, n)

\* Of a plan whose URLs are all gone each answer was no; past its sample there
\* was none.
WrongByStage(j) ==
  EntriesOf(j) \subseteq Gone =>
    /\ job[j].wrong = job[j].answered
    /\ job[j].stage \in {"sending", "queued", "failed"} => job[j].answered = 0

\* The turns a sample has taken, none before it begins.
TurnsByStage(j) ==
  /\ job[j].stage = "unposted" => job[j].at = 1 /\ job[j].answered = 0 /\ job[j].wrong = 0
  /\ job[j].stage = "sampling" =>
       \E turns \in 0..SampleSize : job[j].at = 1 + turns * Stride(j) /\ job[j].answered <= turns

JobInv(j) == SentByStage(j) /\ WrongByStage(j) /\ TurnsByStage(j)

IInv == TypeOK /\ \A j \in Jobs : JobInv(j)

-----------------------------------------------------------------------------
(* Strides and chunks.                                                     *)

\* A stride is positive, and SampleSize of them reach past the plan.
LEMMA StrideCovers ==
  ASSUME NEW j \in Jobs
  PROVE  /\ Stride(j) \in Nat \ {0}
         /\ Size[j] <= SampleSize * Stride(j)
<1> USE IntakeAssumption
<1>1. CASE Size[j] <= SampleSize
  BY <1>1 DEF Stride
<1>2. CASE ~ (Size[j] <= SampleSize)
  <2> DEFINE q == (Size[j] + SampleSize - 1) \div SampleSize
  <2>1. q \in Nat /\ Size[j] <= q * SampleSize
    BY CeilingCovers
  <2>2. Stride(j) = q
    BY <1>2 DEF Stride
  <2> HIDE DEF q
  <2>3. q # 0
    BY <2>1, <1>2
  <2> QED
    BY <2>1, <2>2, <2>3
<1> QED
  BY <1>1, <1>2

\* While the sample runs it has turns left.
LEMMA TurnsLeft ==
  ASSUME NEW j \in Jobs, NEW turns \in Nat, 1 + turns * Stride(j) <= Size[j]
  PROVE  turns < SampleSize
<1>1. Stride(j) \in Nat \ {0} /\ Size[j] <= SampleSize * Stride(j)
  BY StrideCovers
<1>2. turns * Stride(j) < SampleSize * Stride(j)
  BY <1>1, IntakeAssumption
<1> QED
  BY <1>1, <1>2, MulCancel, IntakeAssumption

\* A plan has no more chunks than entries.
LEMMA ChunksLeft ==
  ASSUME NEW j \in Jobs, NEW n \in Nat, 1 + n * ChunkSize <= Size[j]
  PROVE  n + 1 \in 0..Size[j]
<1>1. n * 1 <= n * ChunkSize
  BY IntakeAssumption
<1> QED
  BY <1>1, IntakeAssumption

\* What is done for another POST leaves what is known of this one.
LEMMA OtherJob ==
  ASSUME NEW j \in Jobs, JobInv(j), job'[j] = job[j],
         \A n \in 1..Size[j] : <<j, n>> \in sent' <=> <<j, n>> \in sent
  PROVE  JobInv(j)'
<1>1. SentOf(j)' = SentOf(j)
  BY DEF SentOf
<1> QED
  BY <1>1 DEF JobInv, SentByStage, WrongByStage, TurnsByStage, SentChunks

-----------------------------------------------------------------------------
(* The steps.                                                              *)

LEMMA InitInv == Init => IInv
<1> SUFFICES ASSUME Init PROVE IInv
  OBVIOUS
<1>1. TypeOK
  BY IntakeAssumption DEF Init, TypeOK, Stages
<1>2. ASSUME NEW j \in Jobs PROVE JobInv(j)
  BY IntakeAssumption DEF Init, JobInv, SentByStage, WrongByStage, TurnsByStage, SentOf
<1> QED
  BY <1>1, <1>2 DEF IInv

\* A request that is refused unread, or let in to be sampled.
LEMMA StepArrive ==
  ASSUME IInv, NEW j \in Jobs, Reject(j) \/ Accept(j)
  PROVE  IInv'
<1> USE IntakeAssumption DEF IInv
<1>1. TypeOK'
  BY DEF Reject, Accept, TypeOK, Stages
<1>2. PICK stage \in {"rejected", "sampling"} :
        job[j].stage = "unposted" /\ job' = [job EXCEPT ![j].stage = stage] /\ sent' = sent
  BY DEF Reject, Accept
<1>3. /\ job'[j].stage = stage /\ job'[j].at = 1 /\ job'[j].answered = 0 /\ job'[j].wrong = 0
      /\ job[j].answered = 0 /\ job[j].wrong = 0 /\ SentOf(j)' = {}
  BY <1>2 DEF TypeOK, JobInv, TurnsByStage, SentByStage, SentOf
<1>4. JobInv(j)'
  <2>1. stage = "sampling" => job'[j].at = 1 + 0 * Stride(j) /\ 0 \in 0..SampleSize
    BY <1>3, StrideCovers
  <2> QED
    BY <1>3, <2>1 DEF JobInv, SentByStage, WrongByStage, TurnsByStage
<1>5. ASSUME NEW i \in Jobs, i # j PROVE JobInv(i)'
  BY <1>2, <1>5, OtherJob DEF TypeOK
<1> QED
  BY <1>1, <1>4, <1>5

\* A turn of the sample.
LEMMA StepAsk ==
  ASSUME IInv, NEW j \in Jobs, Ask(j)
  PROVE  IInv'
<1> USE IntakeAssumption DEF IInv
<1>1. PICK answer \in HeadAnswers(<<j, job[j].at>>) :
        job' = [job EXCEPT
          ![j].at = @ + Stride(j),
          ![j].answered = IF answer = "silent" THEN @ ELSE @ + 1,
          ![j].wrong = IF answer = "wrong" THEN @ + 1 ELSE @]
  BY DEF Ask
<1>2. /\ job[j].stage = "sampling" /\ job[j].at <= Size[j] /\ sent' = sent
      /\ job[j].at \in Nat \ {0} /\ job[j].answered \in Nat /\ job[j].wrong \in Nat
  BY DEF Ask, Sampling, TypeOK
<1>3. /\ job'[j].stage = "sampling" /\ job'[j].at = job[j].at + Stride(j)
      /\ job'[j].answered = IF answer = "silent" THEN job[j].answered ELSE job[j].answered + 1
      /\ job'[j].wrong = IF answer = "wrong" THEN job[j].wrong + 1 ELSE job[j].wrong
      /\ \A i \in Jobs \ {j} : job'[i] = job[i]
  BY <1>1, <1>2 DEF TypeOK
<1>4. TypeOK'
  <2> DEFINE moved == [job EXCEPT ![j].at = @ + Stride(j)]
             counted == [moved EXCEPT ![j].answered = IF answer = "silent" THEN @ ELSE @ + 1]
  <2>1. moved \in [Jobs -> Record] /\ moved[j].answered \in Nat /\ moved[j].wrong \in Nat
    BY <1>2, StrideCovers DEF TypeOK, Record
  <2> HIDE DEF moved
  <2>2. counted \in [Jobs -> Record] /\ counted[j].wrong \in Nat
    BY <2>1 DEF Record
  <2>3. job' = [counted EXCEPT ![j].wrong = IF answer = "wrong" THEN @ + 1 ELSE @]
    BY <1>1 DEF moved
  <2> HIDE DEF counted
  <2>4. job' \in [Jobs -> Record]
    BY <2>2, <2>3 DEF Record
  <2> QED
    BY <1>2, <2>4 DEF TypeOK, Record
<1>5. SentByStage(j)'
  BY <1>2, <1>3 DEF JobInv, SentByStage, SentOf
<1>6. WrongByStage(j)'
  <2>1. EntriesOf(j) \subseteq Gone => answer \in {"wrong", "silent"}
    <3>1. <<j, job[j].at>> \in EntriesOf(j)
      BY <1>2 DEF EntriesOf
    <3> QED
      BY <3>1 DEF HeadAnswers
  <2> QED
    BY <1>2, <1>3, <2>1 DEF JobInv, WrongByStage
<1>7. TurnsByStage(j)'
  <2>1. PICK turns \in 0..SampleSize :
          job[j].at = 1 + turns * Stride(j) /\ job[j].answered <= turns
    BY <1>2 DEF JobInv, TurnsByStage
  <2>2. turns + 1 \in 0..SampleSize
    BY <1>2, <2>1, TurnsLeft
  <2>3. job'[j].at = 1 + (turns + 1) * Stride(j)
    BY <1>3, <2>1, StrideCovers
  <2>4. job'[j].answered <= turns + 1
    BY <1>2, <1>3, <2>1
  <2> QED
    BY <1>3, <2>2, <2>3, <2>4 DEF TurnsByStage
<1>8. ASSUME NEW i \in Jobs, i # j PROVE JobInv(i)'
  BY <1>2, <1>3, <1>8, OtherJob
<1> QED
  BY <1>4, <1>5, <1>6, <1>7, <1>8 DEF JobInv

\* The sample is over.
LEMMA StepJudge ==
  ASSUME IInv, NEW j \in Jobs, Judge(j)
  PROVE  IInv'
<1> USE IntakeAssumption DEF IInv
<1>1. PICK stage \in {"refused", "sending"} :
        /\ stage = "sending" => ~Refused(job[j])
        /\ job[j].stage = "sampling" /\ sent' = sent
        /\ job' = [job EXCEPT ![j].stage = stage, ![j].at = 1]
  BY DEF Judge
<1>2. /\ job'[j].stage = stage /\ job'[j].at = 1
      /\ job'[j].answered = job[j].answered /\ job'[j].wrong = job[j].wrong
      /\ \A i \in Jobs \ {j} : job'[i] = job[i]
  BY <1>1 DEF TypeOK
<1>3. TypeOK'
  <2> DEFINE judged == [job EXCEPT ![j].stage = stage]
  <2>1. judged \in [Jobs -> Record]
    BY DEF TypeOK, Record, Stages
  <2>2. job' = [judged EXCEPT ![j].at = 1]
    BY <1>1
  <2> HIDE DEF judged
  <2>3. job' \in [Jobs -> Record]
    BY <2>1, <2>2 DEF Record
  <2> QED
    BY <1>1, <2>3 DEF TypeOK, Record
<1>4. SentOf(j)' = {}
  BY <1>1 DEF JobInv, SentByStage, SentOf
<1>5. SentByStage(j)'
  <2>1. SentChunks(j, 0)' /\ 1 = 1 + 0 * ChunkSize /\ 0 \in 0..Size[j]
    BY <1>4 DEF SentChunks
  <2> QED
    BY <1>2, <1>4, <2>1 DEF SentByStage
<1>6. WrongByStage(j)'
  BY <1>1, <1>2 DEF JobInv, WrongByStage, Refused, TypeOK
<1>7. TurnsByStage(j)'
  BY <1>2 DEF TurnsByStage
<1>8. ASSUME NEW i \in Jobs, i # j PROVE JobInv(i)'
  BY <1>1, <1>2, <1>8, OtherJob
<1> QED
  BY <1>3, <1>5, <1>6, <1>7, <1>8 DEF JobInv

\* What sending the next chunk makes of the chunks before it.
LEMMA ChunkAdds ==
  ASSUME IInv, NEW j \in Jobs, NEW n \in 0..Size[j], job[j].at = 1 + n * ChunkSize,
         job[j].at <= Size[j], SentChunks(j, n), sent' = sent \union Chunk(j)
  PROVE  n + 1 \in 0..Size[j] /\ SentChunks(j, n + 1)'
<1> USE IntakeAssumption
<1>1. n + 1 \in 0..Size[j]
  BY ChunksLeft
<1>2. SentOf(j)' = SentOf(j) \union {i \in 1..Size[j] : i \in job[j].at .. (job[j].at + ChunkSize - 1)}
  BY DEF SentOf, Chunk, EntriesOf
<1>3. /\ 1 + (n + 1) * ChunkSize = job[j].at + ChunkSize
      /\ job[j].at + ChunkSize \in Nat /\ job[j].at \in Nat
  BY DEF IInv, TypeOK
<1>4. SentOf(j)' = {i \in 1..Size[j] : i < job[j].at + ChunkSize}
  BY <1>2, <1>3 DEF SentChunks
<1> QED
  BY <1>1, <1>3, <1>4 DEF SentChunks

\* A chunk is sent, or may have been.
LEMMA StepSend ==
  ASSUME IInv, NEW j \in Jobs, NEW stored \in {{}, Chunk(j)}, Send(j, stored)
  PROVE  IInv'
<1> USE IntakeAssumption DEF IInv
<1>1. /\ job[j].stage = "sending" /\ job[j].at <= Size[j] /\ job[j].at \in Nat \ {0}
      /\ job[j].answered \in Nat /\ sent' = sent \union stored
      /\ \/ stored = Chunk(j) /\ job' = [job EXCEPT ![j].at = @ + ChunkSize]
         \/ job' = [job EXCEPT ![j].stage = "failed"]
  BY DEF Send, Checked, TypeOK
<1>2. /\ job'[j].answered = job[j].answered /\ job'[j].wrong = job[j].wrong
      /\ job'[j].stage \in {"sending", "failed"}
      /\ \A i \in Jobs \ {j} : job'[i] = job[i]
  BY <1>1 DEF TypeOK
<1>3. TypeOK'
  <2>1. Chunk(j) \subseteq Entry
    BY DEF Chunk, Entry
  <2>2. job' \in [Jobs -> [stage : Stages, at : Nat \ {0}, answered : Nat, wrong : Nat]]
    BY <1>1 DEF TypeOK, Stages
  <2> QED
    BY <1>1, <2>1, <2>2 DEF TypeOK
<1>4. SentByStage(j)'
  <2>1. PICK n \in 0..Size[j] : job[j].at = 1 + n * ChunkSize /\ SentChunks(j, n)
    BY <1>1 DEF JobInv, SentByStage
  <2>2. CASE stored = Chunk(j)
    <3>1. n + 1 \in 0..Size[j] /\ SentChunks(j, n + 1)'
      BY <1>1, <2>1, <2>2, ChunkAdds
    <3>2. job'[j].stage = "sending" => job'[j].at = job[j].at + ChunkSize
      BY <1>1 DEF TypeOK
    <3>3. job[j].at + ChunkSize = 1 + (n + 1) * ChunkSize
      BY <2>1
    <3> QED
      BY <1>2, <3>1, <3>2, <3>3 DEF SentByStage
  <2>3. CASE stored = {} /\ stored # Chunk(j)
    <3>1. job'[j].stage = "failed"
      BY <1>1, <2>3 DEF TypeOK
    <3>2. SentChunks(j, n)'
      BY <1>1, <2>1, <2>3 DEF SentChunks, SentOf
    <3> QED
      BY <3>1, <3>2 DEF SentByStage
  <2> QED
    BY <2>2, <2>3
<1>5. WrongByStage(j)' /\ TurnsByStage(j)'
  BY <1>1, <1>2 DEF JobInv, WrongByStage, TurnsByStage
<1>6. ASSUME NEW i \in Jobs, i # j PROVE JobInv(i)'
  <2>1. \A n : <<i, n>> \notin Chunk(j)
    BY <1>6 DEF Chunk, EntriesOf
  <2> QED
    BY <1>1, <1>2, <1>6, <2>1, OtherJob
<1> QED
  BY <1>3, <1>4, <1>5, <1>6 DEF JobInv

\* The answer, when nothing is left to send.
LEMMA StepRespond ==
  ASSUME IInv, NEW j \in Jobs, Respond(j)
  PROVE  IInv'
<1> USE IntakeAssumption DEF IInv
<1>1. /\ job[j].stage = "sending" /\ job[j].at > Size[j] /\ sent' = sent
      /\ job' = [job EXCEPT ![j].stage = "queued"]
  BY DEF Respond
<1>2. /\ job'[j].stage = "queued" /\ job'[j].at = job[j].at
      /\ job'[j].answered = job[j].answered /\ job'[j].wrong = job[j].wrong
      /\ \A i \in Jobs \ {j} : job'[i] = job[i]
  BY <1>1 DEF TypeOK
<1>3. TypeOK'
  BY <1>1 DEF TypeOK, Stages
<1>4. SentOf(j)' = 1..Size[j]
  <2>1. PICK n \in 0..Size[j] : job[j].at = 1 + n * ChunkSize /\ SentChunks(j, n)
    BY <1>1 DEF JobInv, SentByStage
  <2>2. job[j].at \in Nat
    BY DEF TypeOK
  <2>3. SentOf(j) = 1..Size[j]
    BY <1>1, <2>1, <2>2 DEF SentChunks
  <2> QED
    BY <1>1, <2>3 DEF SentOf
<1>5. JobInv(j)'
  BY <1>1, <1>2, <1>4 DEF JobInv, SentByStage, WrongByStage, TurnsByStage
<1>6. ASSUME NEW i \in Jobs, i # j PROVE JobInv(i)'
  BY <1>1, <1>2, <1>6, OtherJob
<1> QED
  BY <1>3, <1>5, <1>6

LEMMA StepInv == IInv /\ [Next]_vars => IInv'
<1> SUFFICES ASSUME IInv, [Next]_vars PROVE IInv'
  OBVIOUS
<1>1. ASSUME NEW j \in Jobs, Quiet(j) PROVE IInv'
  BY <1>1, StepArrive, StepAsk, StepJudge, StepRespond DEF Quiet
<1>2. ASSUME NEW j \in Jobs, NEW stored \in {{}, Chunk(j)}, Send(j, stored) PROVE IInv'
  BY <1>2, StepSend
<1>3. CASE UNCHANGED vars
  BY <1>3 DEF vars, IInv, TypeOK, JobInv, SentByStage, WrongByStage, TurnsByStage, SentChunks, SentOf
<1> QED
  BY <1>1, <1>2, <1>3 DEF Next

LEMMA Inductive == Spec => []IInv
  BY InitInv, StepInv, PTL DEF Spec

-----------------------------------------------------------------------------
(* The properties.                                                         *)

\* The handler's variables keep their shape.
THEOREM IntakeTypeCorrect == Spec => []TypeOK
<1>1. IInv => TypeOK
  BY DEF IInv
<1> QED
  BY <1>1, Inductive, PTL

\* A plan that was not let in has put nothing on the queue, and an answer of
\* queued means that all of it is there.
THEOREM PlansAllOrNothing == Spec => []AllOrNothing
<1>1. IInv => AllOrNothing
  BY DEF IInv, JobInv, SentByStage, AllOrNothing
<1> QED
  BY <1>1, Inductive, PTL

\* What reached the queue is a head of the plan, in whole chunks.
THEOREM PlansSentFromTheTop == Spec => []SentFromTheTop
<1> USE IntakeAssumption
<1>1. ASSUME NEW j \in Jobs, NEW n \in 0..Size[j], SentChunks(j, n)
      PROVE  \E m \in 0..Size[j] : SentOf(j) = 1..m /\ (m = Size[j] \/ m % ChunkSize = 0)
  <2>1. n * ChunkSize \in Nat
    OBVIOUS
  <2>2. CASE n * ChunkSize <= Size[j]
    <3>1. SentOf(j) = 1..(n * ChunkSize)
      BY <1>1, <2>1, <2>2 DEF SentChunks
    <3>2. (n * ChunkSize) % ChunkSize = 0
      BY ModOfMultiple
    <3> QED
      BY <2>1, <2>2, <3>1, <3>2
  <2>3. CASE ~ (n * ChunkSize <= Size[j])
    <3>1. SentOf(j) = 1..Size[j]
      BY <1>1, <2>1, <2>3 DEF SentChunks
    <3> QED
      BY <3>1
  <2> QED
    BY <2>2, <2>3
<1>2. IInv => SentFromTheTop
  <2> SUFFICES ASSUME IInv, NEW j \in Jobs
               PROVE  \E m \in 0..Size[j] : SentOf(j) = 1..m /\ (m = Size[j] \/ m % ChunkSize = 0)
    BY DEF SentFromTheTop
  <2>1. job[j].stage \in Stages /\ SentByStage(j)
    BY DEF IInv, TypeOK, JobInv
  <2>2. CASE SentOf(j) = {}
    BY <2>2, ModOfMultiple, 0 * ChunkSize = 0
  <2>3. CASE SentOf(j) = 1..Size[j]
    BY <2>3
  <2>4. CASE \E n \in 0..Size[j] : SentChunks(j, n)
    BY <1>1, <2>4
  <2> QED
    BY <2>1, <2>2, <2>3, <2>4 DEF Stages, SentByStage
<1> QED
  BY <1>2, Inductive, PTL

\* A plan none of whose URLs exist stays off the queue once a HEAD was answered.
THEOREM WrongPlansKeptOut == Spec => []WrongPlanKeptOut
<1>1. IInv => WrongPlanKeptOut
  BY DEF IInv, TypeOK, Stages, JobInv, SentByStage, WrongByStage, WrongPlanKeptOut
<1> QED
  BY <1>1, Inductive, PTL

\* A sample takes SampleSize turns at the most, of any plan.
THEOREM SamplesBounded == Spec => []SampleBounded
<1>1. IInv => SampleBounded
  BY DEF IInv, JobInv, TurnsByStage, SampleBounded
<1> QED
  BY <1>1, Inductive, PTL
=============================================================================
