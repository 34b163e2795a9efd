------------------------------- MODULE CliWarm -------------------------------
(***************************************************************************)
(* okibi warm, crates/okibi-cli/src/warm.rs: the executor on the command   *)
(* line.  One service after another, a loop takes a permit per entry, lets *)
(* a gap go by, and spawns a task that fetches the entry and retries it.   *)
(*                                                                         *)
(* Time is counted in ticks, and only as far as the longest gap.           *)
(***************************************************************************)
EXTENDS Integers, Sequences, FiniteSets

CONSTANTS
  Plan,       \* the service of each entry, in plan order
  Services,   \* the services, in the order of the BTreeMap
  Manifests,  \* concurrency_limit and rate_per_s of the services that have one
  Override,   \* --concurrency and --rate-per-s, or None
  Retries,    \* Limits.retries
  Second,     \* the ticks of a second, a multiple of every rate
  None

Limited == {Services[i] : i \in DOMAIN Services}

ASSUME CliWarmAssumption ==
  /\ Services \in Seq(Limited)
  /\ \A i, j \in DOMAIN Services : Services[i] = Services[j] => i = j
  /\ Plan \in Seq(Limited) /\ Limited = {Plan[e] : e \in DOMAIN Plan}
  /\ DOMAIN Manifests \subseteq Limited
  /\ \A s \in DOMAIN Manifests : Manifests[s] \in [concurrency : Nat, rate : Nat]
  /\ Override \in [concurrency : Nat \union {None}, rate : Nat \union {None}]
  /\ Retries \in Nat /\ Second \in Nat \ {0}

VARIABLES
  turn,     \* which service warm is at
  task,     \* what has become of each entry
  attempt,  \* how often each has been retried
  slept,    \* ticks the loop has slept
  since     \* ticks since it last spawned a task

vars == <<turn, task, attempt, slept, since>>

-----------------------------------------------------------------------------
(* Limits: the manifest's, or the default's, unless overridden.            *)

Default == [concurrency |-> 4, rate |-> 2]

Stated(s) == IF s \in DOMAIN Manifests THEN Manifests[s] ELSE Default

AtLeastOne(n) == IF n = 0 THEN 1 ELSE n

Concurrency(s) ==
  AtLeastOne(IF Override.concurrency # None THEN Override.concurrency ELSE Stated(s).concurrency)

\* Ticks between two starts, none where there is no rate.
Gap(s) ==
  LET rate == IF Override.rate # None THEN Override.rate ELSE Stated(s).rate
  IN  IF rate > 0 THEN Second \div rate ELSE 0

-----------------------------------------------------------------------------

Entries == DOMAIN Plan

Running == turn <= Len(Services)

EntriesOf(s) == {e \in Entries : Plan[e] = s}

\* The entries of the service at hand.
Mine == EntriesOf(Services[turn])

In(state) == {e \in Mine : task[e] = state}

\* Slip: a permit goes back as soon as its task is spawned.
PermitsNotHeld == In("held")

\* Slip: a task that fails keeps its permit.
PermitsKept == In("held") \union In("flying") \union In("failed")

\* A task holds its permit from before it is spawned until it is done.
Permits == In("held") \union In("flying")

\* nth == 0
First(e) == \A d \in Mine \ {e} : task[d] = "none"

Init ==
  /\ turn = 1
  /\ task = [e \in Entries |-> "none"]
  /\ attempt = [e \in Entries |-> 0]
  /\ slept = 0 /\ since = 0

Spawn(e) == task' = [task EXCEPT ![e] = "flying"] /\ since' = 0

\* Slip: the last entry is taken first.
NextEntryLast(e) == e \in In("none") /\ \A d \in In("none") : d <= e

\* for entry in entries
NextEntry(e) == e \in In("none") /\ \A d \in In("none") : e <= d

\* acquire_owned: the first entry is spawned at once, any other after the gap.
Acquire(e) ==
  /\ Running
  /\ In("held") = {}
  /\ NextEntry(e)
  /\ Cardinality(Permits) < Concurrency(Services[turn])
  /\ IF First(e) \/ Gap(Services[turn]) = 0
     THEN Spawn(e)
     ELSE task' = [task EXCEPT ![e] = "held"] /\ UNCHANGED since
  /\ slept' = 0
  /\ UNCHANGED <<turn, attempt>>

\* Slip: the sleep is a tick short.
SleepShort == Gap(Services[turn]) - 1

\* How long the loop sleeps before it spawns a task.
Sleep == Gap(Services[turn])

\* tokio::time::sleep(gap) is over.
Wake(e) ==
  /\ Running
  /\ e \in In("held")
  /\ slept >= Sleep
  /\ Spawn(e)
  /\ UNCHANGED <<turn, attempt, slept>>

\* A GET ends well: the task is done.
Fetched(e) ==
  /\ task[e] = "flying"
  /\ task' = [task EXCEPT ![e] = "ok"]
  /\ UNCHANGED <<turn, attempt, slept, since>>

\* Slip: attempt > retries
SpentLate(e) == attempt[e] > Retries

\* attempt >= retries
Spent(e) == attempt[e] >= Retries

\* A GET ends any other way, its timeout included: once more, or a failure.
Failed(e) ==
  /\ task[e] = "flying"
  /\ IF Spent(e)
     THEN task' = [task EXCEPT ![e] = "failed"] /\ UNCHANGED attempt
     ELSE attempt' = [attempt EXCEPT ![e] = @ + 1] /\ UNCHANGED task
  /\ UNCHANGED <<turn, slept, since>>

\* for task in tasks { task.await }: on to the next service.
Join ==
  /\ Running
  /\ In("none") = {} /\ Permits = {}
  /\ turn' = turn + 1
  /\ slept' = 0 /\ since' = 0
  /\ UNCHANGED <<task, attempt>>

Tick ==
  /\ Running
  /\ since < Gap(Services[turn]) \/ (In("held") # {} /\ slept < Gap(Services[turn]))
  /\ since' = IF since < Gap(Services[turn]) THEN since + 1 ELSE since
  /\ slept' = IF In("held") # {} /\ slept < Gap(Services[turn]) THEN slept + 1 ELSE slept
  /\ UNCHANGED <<turn, task, attempt>>

Get(e) == Fetched(e) \/ Failed(e)

Next ==
  \/ \E e \in Entries : Acquire(e) \/ Wake(e) \/ Get(e)
  \/ Join
  \/ Tick

Spec == Init /\ [][Next]_vars

-----------------------------------------------------------------------------
(* Properties.                                                             *)

\* Every variable has the shape the code gives it.
TypeOK ==
  /\ turn \in 1..(Len(Services) + 1)
  /\ task \in [Entries -> {"none", "held", "flying", "ok", "failed"}]
  /\ attempt \in [Entries -> 0..Retries]
  /\ slept \in Nat /\ since \in Nat

\* "Within the limits": no service ever has more GETs under way than its
\* concurrency, whichever of them are retries.
WithinConcurrency ==
  \A s \in Limited :
    Cardinality({e \in EntriesOf(s) : task[e] = "flying"}) <= Concurrency(s)

\* "A start is spaced from the one before it": two tasks of a service are
\* spawned a gap apart, however long the first one's permit was waited for.
SpawnsAreSpaced ==
  [][\A e \in Entries :
       task[e] # "flying" /\ task'[e] = "flying" =>
         since >= Gap(Plan[e]) \/ \A d \in EntriesOf(Plan[e]) \ {e} : task[d] = "none"]_vars

\* "Fetch every entry, in order": an entry is asked for only after those of its
\* service that the plan has before it, however permits and retries fall.
InOrder ==
  \A d, e \in Entries :
    Plan[d] = Plan[e] /\ d < e /\ task[e] # "none" => task[d] # "none"
=============================================================================
