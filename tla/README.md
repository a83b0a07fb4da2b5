# A TLA+ verification of Job-Scheduler-Tooling

The repository is a small job-scheduling system in Go: a dispatcher that runs
inference batches on worker processes, either from an in-process priority queue
or from SQS queues; a registry that pushes configuration to devices over a lossy
network; a cluster simulator; a memory-allocator simulator; a serverless variant of
the dispatcher on AWS Lambda and Step Functions; and the tools around them. This directory holds
TLA+ models of its parts, the TLC configurations that check them and
TLAPS proofs about the broker. `PROJECT.json` maps every definition to the lines
it models, and lists the hazards, the runs, the mutants and the theorems.

## 1. Inventory

| Part (source) | State | Operations | Interacts through |
|---|---|---|---|
| Broker (`internal/dispatch/broker.go`) | heap of jobs, `running` table, counters, `closed`, `done` | `Submit`, `CloseSubmissions`, `Claim`, `Report` | RPC calls of the workers; calls the triage agent with the lock released |
| Priority queue (`internal/queue`) | a heap | `Push`, `Pop` | owned by the broker (and by the cluster simulator) |
| Triage (`internal/triage`) | none | `Decide`, `Validate` | called by both backends; the LLM agent calls an HTTP endpoint and falls back on the policy |
| Dispatcher, broker backend (`cmd/dispatcher/main.go`) | the worker processes, their exits | submit, spawn, wait, kill, drain; the worker's claim-run-report loop | processes, RPC, `Done` channel |
| SQS queues (`internal/sqsqueue`) | messages in tiers and in a dead-letter queue | `Send`, `Receive`, `Ack`, `Release`, `PeekDeadLetters` | the SQS service |
| SQS coordinator (`internal/dispatch/sqs.go`) | `terminal`, `released`, counters, `done` | `Submit`, `Started`, `Report`, `WatchDeadLetters`, `Status` | RPC calls of the workers, polling of the dead-letter queue |
| Dispatcher, SQS backend (`cmd/dispatcher/sqs.go`, `RunSQSWorker`) | processes, chaos goroutines | spawn, kill and replace, look for survivors, drain; the worker's poll loop | processes, RPC, queues |
| Device registry (`internal/devices/devices.go`) | an entry per device, one push-loop goroutine per device at most | `Register`, `SetConfig`, `Retry`, `Close`, `pushLoop` | mutex, context, `Transport.Send` |
| Simulated devices (`internal/devices/sim.go`) | the version and configuration a device runs | `Receive`, `Send` | called by push loops |
| Tracer (`cmd/tracer`) | rows rebuilt from the event log | `deviceStatus`, timeline, summary | reads the log |
| Cluster simulator (`cmd/scheduler`, `internal/resource`) | clock, node usage, running jobs, queue | arrival, completion, placement, preemption per tick | single-threaded |
| Allocator simulator (`mem/allocator.c`) | block list, array of live allocations | find a block, split, free, coalesce, report; two workloads | single-threaded |
| Serverless path (`serverless/`) | messages, workflow executions, dead letters | `submit`, `start_jobs`, `run_job`, the states `RunJob` and `DeadLetter` | SQS, Lambda event mapping, Step Functions |
| Telemetry, SQL schema, HTTP API, Python runner | a log file, none | record, thin wrappers | |

What is hard in this code, and what it must guarantee:

* **Broker.** A failed job is in neither the queue nor the running table while
  its failure is triaged outside the lock, and completion is decided by comparing
  counters. A job must be in exactly one place, must not exceed its retry budget
  whatever the agent answers, and `Done` must be closed exactly when all ended.
* **Dispatcher.** Workers die with a job or with a call under way; exits race
  `Done`. The coordinator must return, and report success only for a complete run.
* **SQS.** Delivery is at least once: workers crash between two calls, holders
  outlive their visibility timeout, receipts go stale, messages are redriven, two
  workers have the same job. No job may be lost or counted twice, and a poison
  batch may not take the run down.
* **Registry.** `SetConfig` and `Retry` race the decision of a push loop to stop;
  acks are late, lost or for an older version. One loop per device, no forgotten
  configuration, and `acked` must be true of the device.
* **Cluster simulator.** Preempted jobs re-enter the queue that the same pass is
  emptying, and node usage is kept by paired `Reserve` and `Release` calls that check
  nothing. The pass must end, usage must be exact, and no completion may be missed.
* **Tracer.** It rebuilds device states and waits from events, some of which are
  never logged (`Retry`, the requeue of a preempted job). It must say the same as the
  component that wrote the log, or differ only in ways one can state.
* **Allocator.** Which blocks merge depends on the whole history of frees. The list
  must tile the heap, no two neighbours may both be free, no live block may move, and
  the workload's array must name every live block once.
* **Serverless.** Each call between services may take effect and lose its answer, and
  whoever made it tries again. A message must start one execution however often it is
  delivered, must not be deleted before, and must end as a completed or failed
  execution or as a dead letter.

## 2. Modules and the code

| Module | Models | State and actions |
|---|---|---|
| `JobBoard` | the promise of a backend (abstract) | accepted jobs, outcomes, closed, done; `Accept`, `Close`, `Settle` |
| `JobQueue` | `queue.go` | `Less` as written; `Heads` is the set of jobs `Pop` may return (a heap is free among equals) |
| `Triage` | `triage.go` | the set of decisions an agent may answer with; `Guarded` is the check both backends put around it |
| `Broker` | `broker.go` | one action per critical section of `Broker.mu`; a failed `Report` is `ReportFailure` and `FinishTriage`, with the job in `triaging` between them |
| `Dispatcher` | `cmd/dispatcher/main.go` over `Broker` | `pc`, `held` and `call` per worker, `co` for the coordinator; every broker step is taken for a call outstanding, which may outlive its worker |
| `SQSQueue` | `sqsqueue.go` and what it relies on in SQS | a sequence of messages with receive count and visibility |
| `SQSCoordinator` | `SQSCoordinator` of `sqs.go` | one operator per critical section |
| `SQSDispatch` | `cmd/dispatcher/sqs.go`, `RunSQSWorker` over both | `pc`, polled tier and delivery per worker; coordinator, chaos goroutines, timeouts, crashes |
| `Registry` | `devices.go`, `sim.go` | entry fields, one `pc` per push loop, device state; one action per critical section or end of a wait |
| `DeviceTrace` | `deviceStatus` of `cmd/tracer` over `Registry` | the row of each device (state and attempts), updated by the steps that log an event |
| `Scheduler` | `cmd/scheduler/main.go`, `resource.go` | one action per loop body: `SubmitArrivals`, `Complete`, `Place`, `Preempt`, `EndTick`; `phase` is the part of the tick |
| `JobTrace` | `traceJob` and `summary` of `cmd/tracer` over `Scheduler` | submit time, last start and number of `wait_reason` events of each job |
| `Allocator` | `mem/allocator.c` | the block list as a sequence, `live_ids`, the operation counter; `Alloc`, `AllocFails`, `Free`, `SecondWorkload`, `Exit`; the report loops are the recursive function `Scan` over the list, one `Counted` per block |
| `Serverless` | `handlers.py`, `template.yaml` | replies to callers, messages, executions, dead letters; one action per call between services, one for its failure and one for its answer being lost |
| `BrokerProofs`, `DispatcherProofs`, `SQSProofs`, `RegistryProofs`, `SchedulerProofs`, `AllocatorProofs`, `ServerlessProofs` | | theorems about the module of that name (`RegistryProofs` also about `DeviceTrace`, `SchedulerProofs` about `JobTrace`, `SQSProofs` about `SQSDispatch` and the two modules it composes) |
| `MCBroker`, `MCDispatcher`, `MCSQS`, `MCScheduler`, `MCAllocator`, `MCServerless` | | workloads for TLC |

Data is abstracted to what the properties tell apart: an error text is the class
`PolicyAgent` puts it in, a batch is its size (in the SQS modules not even that:
what triage does to a size is in `Broker`), precision and reason are left out, a
configuration is a model value. Counters that are only printed are left out.
A heap has a few bytes rather than megabytes, and sizes are free choices where the
program draws random numbers. In `Serverless` a job is the kind of failure it injects.
`Broker.Claim` answering Wait and a short SQS poll that wrongly finds nothing
change no state and only delay, so they are not steps. Definitions commented
`Mutant` are plausible bugs of the definition that follows them; they are used
only to show that a property can fail.

`Dispatcher` composes `Broker` and the worker processes; `SQSDispatch` composes
`SQSCoordinator`, `SQSQueue` and `Triage`; `DeviceTrace` composes the registry
and the tracer, `JobTrace` the cluster simulator and the tracer; `Scheduler` uses
`JobQueue` with submit times that change. `Broker` and `SQSDispatch` are both shown
to implement `JobBoard`, with the identity as refinement mapping on its four
variables.

## 3. Runs

| Run | Instance | Shows |
|---|---|---|
| `broker` | four jobs (one with a batch `Submit` refuses), budgets 1, default 3 and 2, free callers, an agent that may answer anything, invalid decisions included | types, `OnePlace`, `DoneExact`, `WithinBudget`, `TerminalForever`, refinement of `JobBoard` |
| `dispatcher` | two workers, three jobs, budgets 3, 2 and 1, an injected failure, a batch of one image, two faults | `ExclusiveClaim`, `OkIsComplete`, `BatchInRange`, and that the coordinator returns |
| `sqs` | two jobs in two tiers, one that runs out of memory in its only attempt and one with two attempts, two workers, one crash or failed send, one failed start, one stalled holder, receive limit 2 | `NoJobLost`, `DeadLetterNeedsDeadHolder`, `FailureNeedsFault`, refinement of `JobBoard`, and that the coordinator returns |
| `sqs_chaos` | a poison job and one that hangs once, a pool of one worker replaced up to four times, receive limit 3 | `OnlyPoisonDies`, `RedeliveredExact`, and that the coordinator returns |
| `registry` | one device, three versions of two configurations, two attempts per version, two retries, room for two push loops | `SingleLoop`, `AckedMeansRunning`, `PendingIsServed`, `FailedMeansSpent`, `AppliedOnce`, `TraceAgreesButRetried` of the tracer, and that `WaitSettled` and `Close` return (`WaitsEnd`) |
| `scheduler` | two nodes, five jobs of three priorities, one that fits nowhere, run times 1 to 3, six ticks | `OneState`, `UsedIsPlaced`, `ConsideredInOrder`, `WaitsAgreeUnlessPreempted` of the tracer, and that every placement pass ends (`TickEnds`) |
| `allocator` | a heap of 8 bytes, requests of 1 to 3, at most 4 live allocations, 0, 3, 5 or 9 operations, both strategies | `WellFormed` (the blocks tile the heap, no two free neighbours), `LiveExactly`, `StaysPut`, the loops of the reports (`ReportExact`), and when the program ends |
| `serverless` | one POST of any kind, resent after a 503, two faults of the services, one redeployed function, receive limit 2, two task retries, one retry of the dead letter | `HandedOverOnce`, `RedriveNeedsFaults`, `FailedIsDeadLettered`, `VerdictsEarned`, and that every message settles |
| `dispatcher_triage_race`, `dispatcher_llm`, `sqs_leftover`, `scheduler_victim` | see below | violations: what a comment or document says and the code does not do |

**Bounds and why they are enough.** `MaxFaults`, `MaxSpawnFails` and `MaxStalls`
bound how often the environment may misbehave; one of each, in every order, meets
each window between two calls, and two faults in `dispatcher` let the second one
hit the cleanup after the first. Two workers are what a race needs. Three jobs
give the queue a head, an equal and a tail. `MaxWorkers` is the pool plus one for
each kill the chaos jobs can cause, so it never stops a replacement.
`MaxVersion = 3` lets a version be superseded twice, and two attempts distinguish
a fresh budget from an inherited one. `Loops` has two names so that a second push
loop is possible if the code allows it. A device the network does not know is the
case where `AckTimesOut` is always taken. `sqs_chaos` has one worker at a time, the
hardest case for its liveness; concurrent workers are in `sqs`. In
`scheduler` the jobs need more than the two nodes have, so that jobs wait, preempt
each other, move to another node in the tick that preempted them, and finish; run
times of 1 to 3 ticks stand for the program's 4 and more, and six ticks leave time
for a preempted job to complete. Eight bytes hold four allocations with gaps between
them, so a freed block meets every combination of free and live neighbours, also at
the ends of the heap; five operations are the fewest that do not divide by zero and
nine fill the array, fragment the heap and free from its middle. `MaxLive` stands for
the array's 4096. In `serverless` one POST becomes up to three messages, because
both `boto3` and the caller send again after a lost answer, and these messages carry the
same job id; two faults exhaust the receive limit, the retries of the dead letter (one
here, three in the template) or a send and its repetition. `MaxRedeploys` lets one
function have another environment than the others.

**Fairness and why the code justifies it.** `Dispatcher` assumes weak fairness of
the disjunction of all non-fault steps: the program is not stopped as a whole. It
rests on inference runs ending: the broker backend has no timeout for the Python
runner (a hazard in `PROJECT.json`). `SQSDispatch` assumes weak fairness of the
coordinator, of every worker, of every triage call (the HTTP client has a 30 s
timeout), of every chaos goroutine and of the dead-letter watcher, and that an
abandoned delivery becomes visible again; a delivery that is still held need not.
`Registry` assumes weak fairness of every push loop: its waits are bounded by
`AckTimeout` and by the backoff. `Scheduler` and `Allocator` are one thread that only
computes. `Serverless` assumes that a request being handled, a message in the queue and
an execution go on, which is what Lambda, the event mappings and Step Functions
provide; nothing obliges a caller to resubmit or anyone to deploy. Faults, clients, and
the loss or arrival of a message are never assumed. Deadlock is checked in the passing
runs of the dispatcher backends, of the broker and of the cluster simulator; the
registry has clients that may stop calling, the allocator ends, and the serverless path
rests when every message has settled.

### Disagreements between the code and what it says

* `dispatcher_triage_race`: `Claim` answers Shutdown when the queue and the
  running table are empty, also while a job is in triage. The idle worker exits,
  and the coordinator takes its exit for a failure and kills the run.
* `dispatcher_llm`: `Decision.Validate` accepts any positive batch size, and the
  adjusted batch is not validated again, so a model's answer above 256 is queued.
  Under the policy agent the range is kept (checked, and proved).
* `sqs_leftover`: completion compares the size of `terminal` with the number of
  submissions, and a message of an earlier run with the same prefix adds an entry
  of its own; the run is announced complete too early.
* `scheduler_victim`: `findPreemptionVictim` promises a victim that frees enough room,
  and looks only at priorities. A candidate that fits nowhere preempts a running
  job in every tick.

Smaller ones follow from the models and have no run of their own:

* A triaged retry releases the same message, so with `-sqs-max-receive` below the
  retry budget an ordinary failure is dead-lettered. `DeadLetterNeedsDeadHolder` is
  checked with a receive limit that is not below the budget.
* A worker that dies between the retry decision and the release of its message
  leaves its mark in `released`, so the redelivery after its death is not counted.
  `RedeliveredExact` is checked without crashes other than chaos kills.
* The last job may end during the 200 ms pause after an unexpected exit, and the run
  is then reported as failed although complete. `FailureNeedsFault` (of
  `SQSDispatch`) says that this takes a fault.
* The chaos supervisor ignores a failed start of a replacement (`cmd/dispatcher/sqs.go:188`);
  if it replaced the only worker, the coordinator waits forever, although line 237 says
  of workers that "if none are left the run can never complete". `sqs_chaos` is checked
  with `MaxSpawnFails = 0`; with 1, `CoordinatorReturns` fails.
* `Retry` logs no event, so the tracer shows a retried device as failed while it is
  pending, with the attempts of the spent budget. `TraceAgreesButRetried`
  states exactly that exception.
* Between `SetConfig` and the next turn of the push loop, `Status.Attempts` still counts
  the pushes of the version before, though `devices.go:65` calls it the pushes made for
  the desired version; the tracer's table is right there.
* A preempted job is requeued with a new `SubmitTime` but without a second `submitted`
  event. The README says that its wait times measure "wait since the most recent
  (re)submission" (`README.md:446`); the tracer and the SQL query they come from
  subtract the first submission from the last start and so include the time for which
  the job ran in vain. The README's own sample, "waited 9s (told to wait 6 times)" for a
  job preempted twice, shows the difference. `WaitsAgreeUnlessPreempted` says how far
  the accounts agree. For the same reason a job that waits again after a preemption
  is not shown as "never started in this log (still pending or preempted)".
* One `POST /jobs` answered 202 may run twice: `boto3` repeats a send whose answer was
  lost, and each of the messages has an execution of its own (`HandedOverOnce`).
* A worker that times out after `StartExecution` gives its message back; if that happens
  on every delivery, the message is redriven to the dead-letter queue while its
  execution completes, although `template.yaml:112` says that "SQS redrive covers
  failures before handoff".
* An execution whose dead-letter send fails four times, or hangs until the 300 s limit,
  ends without a dead letter. `FailedIsDeadLettered` says that it then does not claim one.
* The allocator's workload divides by `ops / 5`, so it is stopped (by SIGFPE on x86) when
  one to four operations are asked for. `CompletesUnlessTooFew` states exactly that.

## 4. Proofs

Seven modules hold theorems, one per component that keeps state. Every safety property of
the passing runs, invariant or action property, is proved; only liveness is not. Unless a hypothesis is given, a
theorem holds for every value of the constants that satisfies the assumptions of the modules
(types of the constants, a finite workload, bounds in `Nat`); TLC evaluates those in the
runs. Each module proves `Init => IInv`, `IInv /\ [Next]_vars => IInv'` and `IInv => Inv`
for one inductive invariant; the sections below say what it adds to the properties and why
the properties alone are not inductive.

### Broker

| Theorem | Statement |
|---|---|
| `BrokerTypeCorrect` | `BrokerSpec => []TypeOK` |
| `NoJobLostOrDuplicated` | `BrokerSpec => []OnePlace` |
| `DoneIsExact` | `BrokerSpec => []DoneExact` |
| `BudgetIsKept` | `BrokerSpec => []WithinBudget` |
| `OutcomeIsFinal` | `BrokerSpec => TerminalForever` |
| `BrokerImplementsBoard` | `BrokerSpec => Board!BoardSpec` |
| `PolicyKeepsBatchInRange` | with `Agent = "policy"`, `BrokerSpec => []BatchInRange` |
| `QueueHasHead` | for `q \in SUBSET Jobs` and `j \in q`, `\E h \in Heads(q) : h = j \/ Less(h, j)` |

    IInv == TypeOK /\ TriageHasError /\ FreshUntried /\ OnePlace
              /\ CountersExact /\ DoneExact /\ WithinBudget

`DoneExact` needs `CountersExact`, because `maybeDoneLocked` sees only counters: equal
counters mean equal cardinalities of the accepted and the terminal jobs, and with `OnePlace`
(terminal jobs are accepted) equal sets. `CountersExact` needs `OnePlace`: a job that is
running or in triage is not terminal, so an outcome adds a new element. The refinement needs
both: `Settle` and `Close` of `JobBoard` decide completion by looking at all jobs.
`WithinBudget` needs `FreshUntried` (a job not yet submitted has no attempts) for `Submit`,
and `OnePlace` for the job that leaves triage. `TriageHasError` says that a job in triage
carries an error class, which the policy's case distinction needs. The counting steps cite
the cardinality theorems of `FiniteSetTheorems`.

`QueueHasHead` is about `JobQueue`: `Less` is irreflexive and transitive, so a queue that is
not empty has a job `Pop` may return, and no job waits behind a circle. The smallest queue
without a head (by cardinality, with `WFMin` of `WellFoundedInduction`) would still have none
after losing a job.

### Dispatcher over the broker

| Theorem | Statement |
|---|---|
| `DispatcherRunsABroker` | `DispatcherSpec => BrokerSpec` |
| `DispatcherTypeCorrect` | `DispatcherSpec => []ProcTypeOK` |
| `ClaimsAreExclusive` | `DispatcherSpec => []ExclusiveClaim` |
| `SuccessIsComplete` | `DispatcherSpec => []OkIsComplete` |
| `DispatcherBatchInRange` | with `Agent = "policy"`, `DispatcherSpec => []BatchInRange` |

`DispatcherRunsABroker` is a refinement with the identity as mapping: no step of a process,
no crash and no call left behind by a dead worker does to the broker what its own operations
do not. So everything proved of `BrokerSpec` with free callers carries over, and
`DispatcherBatchInRange` is a corollary. The invariant `DInv` adds to the broker's `IInv`
which call a worker has outstanding at each point of its loop (`CallsOK`), that whoever
runs, reports or triages a job is its node (`Claims`), and what each phase of the
coordinator may rely on (`CoOK`): after the submit phase nothing is unsubmitted, it reports
success only after the broker's done and after every worker it spawned was reaped without an
error.

### Dispatcher over SQS

All theorems are about `SQSSafety`, that is initial states and steps without fairness.

| Theorem | Hypotheses | Statement |
|---|---|---|
| `SQSTypeCorrect` | | `[]SQSTypeOK` |
| `AtLeastOnce` | | `[]NoJobLost` |
| `CompletionIsIdempotent` | | `[]CountedOnce` |
| `RunFailsOnlyByFault` | | `[]FailureNeedsFault` |
| `SQSImplementsBoard` | `Leftover = <<>>` | `ImplementsBoard` |
| `DeadLettersNeedDeadHolders` | `Leftover = <<>>`, `MaxReceive >= 2`, every `Budget[j] <= MaxReceive` | `[]DeadLetterNeedsDeadHolder` |
| `PoisonIsIsolated` | besides, `MaxFaults = 0` and `MaxStalls = 0` | `[]OnlyPoisonDies` |
| `RedeliveriesCountKills` | `Leftover = <<>>`, `MaxFaults = 0`, `MaxStalls = 0` | `RedeliveredExact` |

The hypotheses are those under which the runs check the properties. `Leftover = <<>>` is
what a run finds after one that deleted its queues, the default (`-sqs-keep-queues` is off);
the run `sqs_leftover` shows what goes wrong without it. The code's defaults are three
receives and three attempts; with `-sqs-max-receive` below the attempts of a job the redrive
policy would dead-letter a retry that triage granted, so the second hypothesis is needed.

There are five layers, each with its own proof of preservation:

    SInv  types; the counters count each terminal job once; a worker's delivery names a
          message that exists (HoldsOK); a worker acknowledges only when its job has ended
          or was sent again in a newer message (Acked); the newest message of an
          unfinished job is not deleted (NewestLive); what each phase of the coordinator
          knows (CoOK)
    FInv  SInv, and while nobody died by itself, no Send failed and no delivery timed out:
          every receipt is good and held by one worker only (ReceiptsOK), and whoever is
          gone was told that all is done or was killed on purpose (ExitsOK); how the
          coordinator got to its result (ReturnsOK)
    OInv  SInv, and: every message is of a job of this run (Own), done is closed exactly
          when every job is terminal (DoneOK), no worker gets a result from a poison job
          (Poison), which therefore ends dead-lettered or not at all (PoisonDies)
    BInv  FInv, OInv, and: only a worker that was made to stall does (StallsOK), a message
          is given back only within the job's attempts (RetriesOK), and so the receive
          count of a job that is not poison stays below the redrive limit (DlqOK)
    RInv  FInv, OInv, and, while nothing of that kind happened and the run is not done: only
          the newest message of an unfinished job is not acknowledged or about to be
          (LastOnly); a message that can be received had its last holder's timeout run out
          exactly if its receive count says it was received and its job is not in released
          (Marked); a job is in released from its triage to its next start (Planned)

`NoJobLost` by itself is not inductive: `Ack` deletes a message, and only `NewestLive` and
`Acked` say that an unfinished job then has a newer one. `FailureNeedsFault` needs the
receipts, since a failed `Ack` or `Release` ends a worker with an error.

`RedeliveredExact` is about two places that must agree: the receive count SQS keeps per
message and the set `released` the coordinator keeps per job. An adjusted retry is a new
message whose count starts again while `released` is by job, so the proof needs `LastOnly`:
an old copy that could still be received would be judged by the entry of the new one. With
faults the two do drift apart (a worker that dies between its triage and its `Release` leaves
an entry behind), so the theorem excludes them, as the run does.

### Device registry and its trace

`RegistryTypeCorrect`, `OneLoopPerDevice` (`SingleLoop`), `AckedIsTrue`
(`AckedMeansRunning`), `NoCallForgotten` (`PendingIsServed`), `BudgetSpentBeforeFailed`
(`FailedMeansSpent`) and `RedeliveryIsIdempotent` (`AppliedOnce`) are each `RegistrySafety
=> []...`; `TracerAgrees` is `TraceSpec => []TraceAgreesButRetried`.

    IInv == RegistryTypeOK /\ LoopsMarked /\ EntryOK /\ Served /\ FlightOK

`LoopsMarked` ties `loopRunning` to the one loop that is not finished, `Served` says that a
pending entry before `Close` has such a loop, and `EntryOK` orders the versions `acked <=
applied <= desired` of an entry and its device, `FlightOK` bounds what a loop outside the
critical section holds: no push newer than the entry, no acknowledgement for more than the
device runs. `AckedMeansRunning` needs `FlightOK`, since `SetConfig` may replace the version
while its predecessor is in flight. `TInv` adds what the tracer's row knows of the versions
and the attempts, and that a row still failed while the device is pending means a retry.

That `FailedMeansSpent` finds a `LastError` is a fact about `SimNetwork`, the transport
modelled: its device never acknowledges another version than the entry's without the entry
having moved on. A `Transport` that answers every push with a stale ack, as the one of
`TestStaleAckIsIgnored` does, would use up the attempts and leave `LastError` empty
(`devices.go:208-211` records no error for it). The rest of the property does not depend on
the transport.

### Cluster simulator and its trace

`SchedTypeCorrect`, `JobsAreNotLost` (`OneState`), `BookkeepingIsExact` (`UsedIsPlaced`),
`PriorityOrder` (`ConsideredInOrder`) and `NoCompletionMissed` (`FinishAhead`) are each
`SchedSpec => []...`; `WaitsAgree` is `TraceSpec => []WaitsAgreeUnlessPreempted`.

`PlacementDescends` is the argument behind `TickEnds`, as an action property: `Left` counts
the pairs of a job in the queue and a job it is or outranks, and every turn of the placement
loop makes it smaller. A job that leaves the queue takes its pairs along; a victim that comes
in brings fewer than the candidate took, since it is outranked by it: pairing its pairs with
the candidate's is an injection that misses one. What stays with TLC is that the loop can
always take its next turn, which is `ENABLED`.

`UsedIsPlaced` compares a counter with a sum over the jobs of a node. `MapThenSumSet` is a
recursive function on finite sets; that adding or removing a job adds or subtracts what it
needs, whichever element `CHOOSE` takes first, is proved from the smallest set that would
violate it (`WFMin` of `WellFoundedInduction` on the cardinality), which needs no induction
schema. `FinishAhead` is what makes the equality test of the finish tick complete.

Proving `OneState` showed that it was false as first stated for a job whose arrival tick is
the last one: the loop ends before that job is submitted. `OneState` now counts a job of the
current tick as arrived once the arrival loop of that tick has run.

### Allocator

| Theorem | Statement |
|---|---|
| `AllocTypeCorrect` | `AllocSpec => []AllocTypeOK` |
| `HeapIsTiled` | `AllocSpec => []WellFormed` |
| `LiveIsOwned` | `AllocSpec => []LiveExactly` |
| `AllocationsStayPut` | `AllocSpec => StaysPut` |
| `ReportsAreExact` | `AllocSpec => []ReportExact` |
| `CrashNeedsTooFew` | `AllocSpec => [](status = "crashed" => ops \in 1..4)`, and `"done"` only otherwise |

    IInv == AllocTypeOK /\ Heap(blocks) /\ FreePairsIn(blocks, {})
              /\ Agree(live_ids, Used(blocks), next_alloc_id)

`Heap` adds to `Tiles` that every single block ends inside the heap (it would follow from
`Tiles` by induction along the list, so it is carried as an invariant), that a block is free
exactly if it has no owner, and that owners differ. `FreePairsIn(s, X)` allows free
neighbours at the positions `X` only: marking a block free may create two pairs, each
`Absorb` removes one, which is the argument for the two merges of `heap_free`. `Agree`
includes that ids in use are below `next_alloc_id`. The lemmas about `SubSeq` and
concatenation say what each element of a list is after a splice.

`ReportExact` compares a loop over the list with the bytes of the heap. `Figures(r, s, n)`
says what the figures `r` mean for the first `n` blocks: the number of their free bytes, of
the offsets of free blocks, and the largest free size. `ScanFigures` has it for the whole
list, since a shortest prefix with wrong figures would follow one with the right ones
(`FiguresStep`); that the recursive function `Scan` exists is shown the same way. `Ordered`
says that blocks lie in the order of the list, and `Bordered` that the bytes before and after a
free block are not free, because no neighbours are; so free blocks and runs of free bytes
correspond. `CrashNeedsTooFew` is the safety part of `CompletesUnlessTooFew`.

### Serverless path

`ServerlessTypeCorrect`, `OneExecutionPerMessage` (`HandedOverOnce`), `RedriveIsPaidFor`
(`RedriveNeedsFaults`), `DeadLettersAreKept` (`FailedIsDeadLettered`) and
`VerdictsAreEarned` (`VerdictsEarned`) are each `SLSpec => []...`.

    IInv == SLTypeOK /\ ExecsOK /\ OneEach /\ HandedOver /\ MsgsOK /\ FailedIsDeadLettered

`ExecsOK` says that an execution is named after its message, which `StartExecution` uses to
refuse a second one, and `OneEach` that a message has one execution; `HandedOver` that a
message is acknowledged only if it has an execution; `MsgsOK` that nothing malformed got
past `submit` and that each delivery but the one under way was paid for by a fault, of every
message that no deployment can have affected: while there was none, or if its job injects
no failure. So `RedriveNeedsFaults` lets a deployment excuse a redrive only for a job whose
injected failure it may have forbidden.

    VInv == IInv /\ (\A e \in execs : Verdict(e)) /\ (\A d \in dlq : Letter(d))

`VerdictsEarned` is about the end of an execution, but what it needs happens before: `run_job`
takes the number of its attempt from the retry counter of the workflow, which attempts that
crashed or timed out raise as well. `Verdict` therefore accounts for the retries of a running
execution (each is a fault or a failure its job injects), so that giving up after the last
one says how many faults there were, and `Letter` ties each dead letter of the workflow to an
execution that gave up, so that a new one starts without. Both speak of counters that only
grow and of jobs that messages keep (`Later`), which is why what was earned stays so.

### Only model-checked

Liveness under fairness and anything with `ENABLED` is out of the reach of this prover:
`CoordinatorReturns`, `TickEnds`, `WaitsEnd`, `CompletesUnlessTooFew` and
`EveryMessageSettles` stay with TLC. The runs that expect a violation state what is not true
and have no theorem.

## 5. Not modelled

* Telemetry recorder and SQL schema: appending to a file and an optional insert
  whose error is only logged. Of the tracer, reading the file (malformed lines are
  skipped), the printed timeline, the counters of the device table, and minimum, median and mean of the waits.
* Deployment (`serverless/deploy.py`), IAM and API Gateway resources: scripting and
  declarations without behaviour of their own. The ranges `validate_job` and the
  16 KiB limit check are one choice, a request that does not validate.
* The registry's `Backoff << (attempt-1)`: a duration would overflow only after a wait
  of decades. `Status`, `List` and `WaitSettled` only read.
* The allocator with a heap of size 0, and failures of the C library's `malloc`.
* Device HTTP API and the demo program: thin calls of `Registry` operations, whose
  callers are free in the model. Python runner: its answer is a free choice.
* Flags, printing, queue creation and deletion in AWS. What an earlier run left in
  queues that are not deleted is the constant `Leftover`.

## 6. Plan

1. *Done:* `JobQueue`, `Triage`, `Broker`, `JobBoard`, `Dispatcher`; `SQSQueue`,
   `SQSCoordinator`, `SQSDispatch`; `Registry`, `DeviceTrace`; `Scheduler`, `JobTrace`;
   `Allocator`; `Serverless`.
2. *Done:* proofs of every safety property of the runs (section 4), and of the measure
   behind `TickEnds`.
3. *Left:* measures like that of `PlacementDescends` for the other liveness properties; the
   device HTTP API, if it comes to keep state of its own.
