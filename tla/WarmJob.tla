------------------------------ MODULE WarmJob ------------------------------
(***************************************************************************)
(* A job of a service's workflow: the plan action, which plans and asks    *)
(* the origin about a sample of the plan (okibi plan --verify, crates/     *)
(* okibi-cli/src/verify.rs), and then the warm action, which hands the     *)
(* plan to the executor or runs okibi warm on it (CliWarm).                *)
(***************************************************************************)
EXTENDS CliWarm

CONSTANTS
  Size,       \* --verify
  Gone,       \* what of the plan's URLs may not exist: sets of entries
  Lengths,    \* estimate.warm.wall_clock_s, in seconds, of the plans
  JobLimit    \* 21600

ASSUME WarmJobAssumption ==
  /\ Size \in Nat /\ JobLimit \in Nat /\ Lengths \subseteq Nat
  /\ Gone \subseteq SUBSET DOMAIN Plan

VARIABLES
  job,      \* [gone, seconds, executor]: the URLs, the length, whether there is an executor
  checked,  \* the status of each entry asked about
  silent,   \* history: the entries asked about that are gone and did not say so
  stage

jobVars == <<job, checked, silent, stage>>

-----------------------------------------------------------------------------
(* verify.                                                                 *)

Want(s) == IF AtLeastOne(Size) < Cardinality(EntriesOf(s)) THEN AtLeastOne(Size)
           ELSE Cardinality(EntriesOf(s))

\* Slip: len / want, rounded down.
StrideRoundedDown(s) == Cardinality(EntriesOf(s)) \div Want(s)

\* len.div_ceil(want)
Stride(s) == (Cardinality(EntriesOf(s)) + Want(s) - 1) \div Want(s)

\* The place of an entry among those of its service, from 0.
Nth(e) == Cardinality({d \in EntriesOf(Plan[e]) : d < e})

\* sample: every stride-th entry of each service, and no more than wanted.
Sample == {e \in Entries : Nth(e) % Stride(Plan[e]) = 0 /\ Nth(e) < Want(Plan[e]) * Stride(Plan[e])}

Left == Sample \ DOMAIN checked

\* What an origin may answer: that it does not do HEAD, or about the URL, or
\* that it has a bad minute.
Answers(e, head) ==
  {"5xx", "none", IF e \in job.gone THEN "4xx" ELSE "ok"} \union (IF head THEN {"405"} ELSE {})

\* Slip: a 405 to HEAD is an answer about the URL.
AskHeadOnly(e) == {IF s = "405" THEN "4xx" ELSE s : s \in Answers(e, TRUE)}

\* HEAD, and GET where that is not done.
AskAnswers(e) == UNION {IF s = "405" THEN Answers(e, FALSE) ELSE {s} : s \in Answers(e, TRUE)}

Ask(e) ==
  /\ stage = "verifying"
  /\ e \in Left /\ \A d \in Left : e <= d
  /\ \E s \in AskAnswers(e) :
       /\ checked' = [d \in DOMAIN checked \union {e} |-> IF d = e THEN s ELSE checked[d]]
       /\ silent' = IF e \in job.gone /\ s # "4xx" THEN silent \union {e} ELSE silent
  /\ UNCHANGED <<job, stage, vars>>

\* wrong > 0
Wrong == \E e \in DOMAIN checked : checked[e] = "4xx"

\* report_verified: the plan is written in either case, but the step fails.
Judge ==
  /\ stage = "verifying"
  /\ Left = {}
  /\ stage' = IF Wrong THEN "refused" ELSE "planned"
  /\ checked' = <<>>
  /\ UNCHANGED <<job, silent, vars>>

-----------------------------------------------------------------------------

JobInit ==
  /\ Init
  /\ job \in [gone : Gone, seconds : Lengths, executor : BOOLEAN]
  /\ checked = <<>> /\ silent = {} /\ stage = "verifying"

\* length_of; the warm action asks the same of the plan with jq.
LongerThanAJob == job.seconds > JobLimit

\* The warm action in mode auto.
Choose ==
  /\ stage = "planned"
  /\ stage' = IF job.executor THEN "handed" ELSE IF LongerThanAJob THEN "too long" ELSE "warming"
  /\ UNCHANGED <<job, checked, silent, vars>>

Within(A) == stage = "warming" /\ A /\ UNCHANGED jobVars

\* A URL that does not exist is never fetched.
Honest == \A e \in job.gone : task'[e] # "ok"

\* okibi warm: its loop and its tasks.
Warm == Within(Next) /\ Honest

Script == (\E e \in Entries : Ask(e)) \/ Judge \/ Choose

JobNext == Script \/ Warm

allVars == <<vars, jobVars>>

\* The scripts run on, every request ends by its timeout, time goes by.
JobFairness ==
  /\ WF_allVars(Script)
  /\ WF_allVars(Within(\E e \in Entries : Acquire(e) \/ Wake(e)))
  /\ WF_allVars(Within(Join))
  /\ WF_allVars(Within(Tick))
  /\ \A e \in Entries : WF_allVars(Within(Get(e)) /\ Honest)

JobSpec == JobInit /\ [][JobNext]_allVars /\ JobFairness

-----------------------------------------------------------------------------
(* Properties.                                                             *)

\* The variables of both parts have the shape the code gives them.
JobTypeOK ==
  /\ TypeOK
  /\ DOMAIN checked \subseteq Sample /\ silent \subseteq Sample \intersect job.gone
  /\ \A e \in DOMAIN checked : checked[e] \in {"ok", "4xx", "5xx", "none"}
  /\ stage \in {"verifying", "planned", "refused", "handed", "too long", "warming"}

Stretch(s, first) == {e \in EntriesOf(s) : Nth(e) \in first..(first + Stride(s) - 1)}

\* "The first of each service always", the rest "spread evenly": a plan whose
\* template is wrong for the first entry of a service, or for as many of its
\* entries in a row as the sample skips, is neither warmed nor handed over, if
\* the origin answers for those that were asked about.
WrongPlanNotWarmed ==
  /\ silent = {}
  /\ \E s \in Limited :
       \/ \E e \in EntriesOf(s) \intersect job.gone : Nth(e) = 0
       \/ \E first \in 0..(Cardinality(EntriesOf(s)) - Stride(s)) : Stretch(s, first) \subseteq job.gone
  => stage # "handed" /\ \A e \in Entries : task[e] = "none"

\* "An origin is allowed to have a bad minute without a pull request failing over
\* it", and a 405 to HEAD "has told us nothing": a plan whose URLs all exist is
\* not refused, whatever the origins fail to answer.
RightPlanNotRefused == job.gone = {} => stage # "refused"

\* The job ends: with the plan refused, handed over or found too long, or with
\* each entry warmed or failed, whatever the origins answer.
JobEnds ==
  <>(\/ stage \in {"refused", "handed", "too long"}
     \/ stage = "warming" /\ ~Running /\ \A e \in Entries : task[e] \in {"ok", "failed"})
=============================================================================
