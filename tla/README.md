# Verification of the Amazon product intelligence pipeline

TLA+ models of the parts of this repository that keep state across calls,
processes and failures: production runs and their recovery, provider calls and
their retries, batches and the reuse of earlier batches, the checkpointed live
captures of organic keyword discovery, the dispatch of a paid research task, the
hand-over of research between projects, and the chain of snapshots between canonical
observations and advice. Paths below are relative to
`src/amazon_product_intelligence/` unless they begin with `docs/`.

1. [Inventory](#1-inventory)
2. [Plan](#2-plan)
3. [The modules and the code](#3-the-modules-and-the-code)
4. [What the runs check](#4-what-the-runs-check)
5. [What is proved](#5-what-is-proved)
6. [Where the code and its documents differ](#6-where-the-code-and-its-documents-differ)
7. [What is not modelled](#7-what-is-not-modelled)
8. [Running it](#8-running-it)

## 1. Inventory

Almost all of the package is pure computation over immutable inputs: builders,
classifiers, renderers. What can go wrong there can be found by a unit test with
the right input, and the repository has many. The state, and with it what a unit
test hardly reaches, is in the file system: every command is one Python process
with no threads, it spends money at a paid provider while it runs, it may die
anywhere, and the directories it leaves are the input of the next command.

### Production run (`production_pipeline/orchestrator.py`, `recovery.py`, `artifacts.py`)

*State.* On disk, an output directory: `checkpoints/*.json` (one for each accepted
provider response), `market_report.json`, a markdown and a workbook file, and
`run_manifest.json`. In memory, the plan position, the checkpoint inventory, the
checkpoints of the resume source, and the logs of logical operations.

*Operations.* `ProductionPipelineOrchestrator.run`: check the directory for
conflicts, load the resume source, build the provider runtime, then for every
operation of the plan replay its checkpoint or ask the provider and checkpoint
the answer, check that the cohort is covered, analyse, write the report and the
two delivered files, write the manifest. An exception at any point leads to the
handler, which writes a failure manifest.

*Interactions.* A run resumes from the directory of another, failed run. It calls
the connectors below for each operation, and the batch orchestrator calls it for
each candidate.

*Hard.* An exception or a kill between any two writes; chains of resumed runs; two
runs given one directory; an answer that is paid for and cannot be stored; an
answer that is stored but does not cover the cohort.

*Correct when* a directory with a manifest never changes again; a failure manifest
is one the resume loader accepts; a delivery rests on a complete set of
checkpoints of the right request; a resume buys only what its source lacks, and
the second recovery loses nothing; every started run ends.

### Provider call (`connectors/resolver.py`, `registry.py`, `base.py`, `transport.py`, `production_pipeline/providers.py`)

*State.* The position in the candidate providers, the attempt counter, the attempt
records of `RecordingTransport`, and the run summary's lists of transport attempts
and logical operations.

*Operations.* The resolver tries each candidate in order of priority; the connector
repeats a call as its retry policy allows; the adapter accepts or rejects the
payload; the orchestrator slices the records, finds the response to checkpoint,
and classifies a failure.

*Hard.* Attempts, candidates and error classes multiply; the orchestrator infers
afterwards, from the records alone, what the loops above did; an exception of a
class nobody lists leaves no record.

*Correct when* no provider is asked more often than configured, nothing but a
transient failure is repeated, the accepted response is the one checkpointed, and
the summary adds up.

### Batch (`batch_product_selection/orchestrator.py`, `delivery.py`)

*State.* A batch directory with one run directory per candidate and
`batch_selection_result.json`, which records each candidate's status, the hashes of
its files, the directory that owns them, and the batch it was resumed from. In
memory, the loaded source result, and the summaries collected so far.

*Operations.* Check the destination; load and validate the source batch, walking the
recorded lineage to the batch that owns each earlier success; make the directory;
reuse, resume or run each candidate; deliver the summaries and the result.

*Hard.* The destination is checked, then the source validated, then the directory
made; a success may be owned by a batch several generations back; directories are
removed and made anew between generations; a manifest is validated once and read
again later; usage counters are copied from generation to generation.

*Correct when* a delivered batch is never changed; its result describes what is in
it; a success is carried over unchanged and costs nothing; usage is booked once;
and only what must block a resume does.

### Holdout captures (`organic_keyword_discovery/holdout_v0_1.py`, `temporal_holdout_v0_1.py`)

*State.* One checkpoint file, replaced as a whole, and its copy in memory: status,
credit plan, fingerprint of the frozen rules, the cohort, one capture per ASIN, an
optional enrichment.

*Operations.* Load or initialise; the cohort call; one reverse call per ASIN not yet
captured; the enrichment call of the first capture; the comparison of the rules in
the second; mark the checkpoint complete.

*Hard.* Each answer is paid for and lives in memory until the file is replaced; the
capture is stopped and run again with other options, or with other rules.

*Correct when* a failure loses at most the answer in flight, a complete checkpoint
can be replayed offline, and the rules are those of the beginning.

### Research completion (`native_research_completion.py`)

*State.* One output directory: a marker for a model call whose outcome is unknown, one
for a call that failed, the result, one file for each attempt at a review, the first
return and its readback, and a directory of later returns. Beside it, what the worker
of the other project owns: the slot of the model call with its receipt, the reviews it
recorded, and the review it completed.

*Operations.* `produce` dispatches the model call to a worker process unless something
on disk says that it was made; `complete` checks the receipt, saves the result, records
an attempt under the key of the approval, asks the worker for a review, and publishes
what comes back. Every invocation ends with the number of model calls it made, or null.

*Hard.* The worker outlives the invocation that started it; the call may have been made
and its outcome lost; an approval may be used up by an invocation that died; a review
may be completed after the return that says it is pending was published; the count of
paid calls passes two layers of exceptions.

*Correct when* nothing is dispatched again once an outcome is recorded as failed or
unknown, a review is asked for once under an approval, a completed review is final, the
counts reported add up to the calls made, and every invocation ends.

### Hand-over (`market_pds_workflow.py`, `market_research_intake.py`, `pds_market_readback.py`, `ingestion/snapshot_writer.py`)

*State.* The directory of a workflow: task, packet, hand-off record, response of the
other project's consumer, readback, report, result, or `failure.json`. One file each for
the receipt of a task, the readback of a review, and a snapshot.

*Operations.* The workflow returns an earlier result that still stands, refuses a
directory without one, or makes the directory, writes its files in turn and starts the
consumer once. The other three look for their file and create it.

*Hard.* All four look first and create later; the evidence is copied after it was
checked, and is checked again after the consumer; any of the writes may fail half-way;
the consumer outlives a killed workflow.

*Correct when* the consumer runs at most once for a task; a result that can be read is
backed by what it names; what a command has returned is what is stored; and what a reader
can use never changes.

### Evidence chain (`evidence_evaluation/`, `conflict_resolution/`, `evidence_policy/`, `decision_framework/`, `opportunity_scoring/`, `recommendation_framework/`)

*State.* None inside: six builders, each of which gets bundles of canonical observations
and the serialized snapshots of all layers before it. The snapshots are the state, kept
by an operator who may rebuild any of them at any time.

*Operations.* Index the emissions of the bundles and evaluate support and conflict;
record attempts to resolve conflicts; apply the policies; apply the rules; score the
factors; recommend.

*Hard.* What is handed on may be a mixture of snapshots from different bundles or from
different sets of attempts; a conflict is found in the first layer and has to be seen in
the last, past an attempt that produced a candidate; two layers order "blocked" and
"insufficient" differently.

*Correct when* a disagreement stays open whatever attempts were made; what is missing is
asked for and never counted as negative; advice is traced to every emission it was given
and to the attempts it names; and what advice says follows from the bundles and the attempts it
was made from, so that making it again from them gives the same.

### Everything else

The adapters, contracts, normalisation, calculations, clustering, gap analysis, mapping
and reporting packages keep no state between calls. `PROJECT.json` lists them one by
one with what each does; section 7 says which deserve a bounded check of their own.

### Where each hard behaviour is covered

| behaviour | properties |
| --- | --- |
| an exception or a kill between two steps of a run | `FailureManifestIsResumable`, `ImplementsRunDirectory`, `RunsEnd` |
| two processes, one directory | `ManifestSealsDirectory`, `SourceBatchIsImmutable`, `ResultDescribesItsDirectory` |
| chains of recoveries | `SecondRecoveryLosesNothing`, `OnlyMissingOperationsAreSent`, `SuccessIsCarriedOver`, `LineageNeverCycles` |
| incomplete or foreign data that is replayed | `DeliveredFromCompleteCohort`, `CheckpointsAreProviderAnswers` |
| retries, fallback and error classes | `AttemptsAreBounded`, `OnlyTransientIsRetried`, `UsableAnswerEndsTheSearch`, `ExhaustionIsExact` |
| records read back after the fact | `CheckpointHoldsAcceptedResponse`, `SummaryAddsUp`, `UsageIsBookedOnce` |
| paid answers lost in a failure | `OneAnswerLostPerFailure`, `CompleteIsReplayable` |
| inputs that change while a capture waits | `RulesStayFrozen` |
| a paid call whose outcome is lost | `PaidSlotStaysClosed`, `CostIsReported` |
| an invocation that dies after it has asked | `AskedOncePerApproval`, `CompletedReviewIsFinal` |
| a worker that hangs | `InvocationsEnd` |
| look first, create later, in two processes | `ConsumedOnce`, `ReturnedIsStored`, `ImplementsStore` |
| evidence edited between check and copy | `ResultIsBound` |
| snapshots of different ages handed on together | `LineageIsComplete`, `ConflictStaysOpen`, `MissingIsNotNegative` |
| layers rebuilt between two requests | `AdviceIsReproducible` |

`PROJECT.json` has the full list of hazards, each at its line.

## 2. Plan

In the order of importance; the first seven are done.

1. **`ProductionRun`** with the abstract specification **`RunDirectory`**, which it
   implements, and **`ProductionRunProofs`**.
2. **`ProviderCall`**: the inside of the `ProviderAnswers` and `ProviderFails` steps
   of `ProductionRun`, with **`ProviderCallProofs`**.
3. **`BatchSelection`**: above `ProductionRun`, whose run of a candidate is one step
   with the outcomes the first module allows; with **`BatchSelectionProofs`** and
   **`BatchHistoryProofs`**.
4. **`HoldoutCapture`**: both captures, told apart by one variable, with
   **`HoldoutCaptureProofs`**.
5. **`NativeResearch`**: the dispatch of a model call, its markers, and the review of
   its result, with **`NativeResearchProofs`**.
6. **`Handover`**: the workflow, the intake, the readback and the snapshot writer over
   one set of files, with the abstract specification **`WriteOnceStore`**, which it
   implements, and **`HandoverProofs`**.
7. **`EvidenceChain`**: six layers of snapshots, with **`EvidenceChainProofs`**.
8. `BaseAPIClient`, the loop the snapshot adapters use, as a second policy of
   `ProviderCall`; the credits of the transport and of the holdout.
9. Pure rules against reference definitions over bounded inputs: the supply and demand
   classifier, and clusters as connected components.

Every safety property of the passing runs is stated by a theorem; what is left to TLC is
liveness (section 5).

Each new module gets one run for its safety properties, small enough for seconds,
and shares it with its abstract specification where it has one.

## 3. The modules and the code

| module | models | its parts |
| --- | --- | --- |
| `ProductionRun` | one process per member of `Run`, all output directories | `MCProductionRun` |
| `RunDirectory` | what a directory promises its readers (abstract) | instantiated by `ProductionRun` |
| `ProductionRunProofs` | theorems about `ProductionRun` and its chains of recoveries | |
| `ProviderCall` | the operations of one run, down to the transport | `MCProviderCall` |
| `ProviderCallProofs` | theorems about `ProviderCall` | |
| `BatchSelection` | batch processes and batch directories | `MCBatchSelection` |
| `BatchSelectionProofs` | theorems about `BatchSelection` | |
| `BatchHistoryProofs` | theorems about lineages, usage and resumes in `BatchSelection` | |
| `HoldoutCapture` | both captures and their checkpoint file | |
| `HoldoutCaptureProofs` | theorems about `HoldoutCapture` | |
| `NativeResearch` | one output directory of a research task, the invocations that use it and the workers they start | |
| `NativeResearchProofs` | theorems about `NativeResearch` | |
| `WriteOnceStore` | what the parties of a hand-over rely on (abstract) | instantiated by `Handover` |
| `Handover` | four commands in any number of processes over one set of files | |
| `HandoverProofs` | theorems about `Handover` | |
| `EvidenceChain` | six builders and the snapshots held of each | `MCEvidenceChain` |
| `EvidenceChainProofs` | theorems about `EvidenceChain` | |

Definitions keep the names of the source. Some definitions are marked
`[faulty]`: each is a plausible mistake in the definition that follows it, used by no action.
`PROJECT.json` names, for every property, such a mistake that breaks it.

### ProductionRun

`files`, `ckdir`, `artifacts` and `manifest` are the contents of the directories;
`ledger` is every answer given so far; the rest are locals of
`ProductionPipelineOrchestrator.run`, with `pc` naming the next stage. A checkpoint
is a record of its operation, request fingerprint, evidence id and whether it covers
the cohort, and is the same value wherever it is copied, as it has the same content
and the same checkpoint id.

| action | code |
| --- | --- |
| `Start` | the operator's command; `Exclusive` says whether two live runs may be given one directory |
| `ClaimOutput` | the conflict check: managed artifacts or a checkpoint directory |
| `LoadResumeSource` | `load_resume_source` and the validation of every checkpoint (`Acceptable`) |
| `BuildRuntime` | the runtime factory, which may raise for want of credentials |
| `ReplayOperation` | a checkpoint found in the source, replayed and copied |
| `ProviderAnswers`, `CheckpointResponse` | an operation resolved by a provider, and its `write_success`; the two are separate steps, since a run can die with the answer paid for and not stored |
| `ProviderFails`, `WriteSuccessRaises`, `StageRaises` | the exceptions, each with what has been done before it |
| `CheckCohort` | the explicit cohort must be resolved completely |
| `WriteReport`, `DeliverMarkdown`, `DeliverXlsx`, `WriteSuccessManifest` | the writes, each by a temporary file and a rename |
| `WriteFailureManifest`, `HandlerRaises` | the failure handler, which may itself raise |
| `Crash` | a kill, possible at every point |

Files written by `write_*_atomic` appear in one step, which the rename makes true for
a reader; the fixed name of the temporary file matters only when two runs share a
directory. The analysis stages are one step: they read what was acquired and write
nothing.

### ProviderCall

One variable for each thing the loops and the recorder keep. `Attempt(reply)` is
`RecordingTransport.execute` with the connector's classification of every kind of
reply; `Retry` and `GiveUp` are the two outcomes of `should_retry` in the connector's
loop; `Adapt` is the adapter's verdict and the resolver's use of it;
`OperationSucceeds` and `OperationFails` are the orchestrator's bookkeeping. `wire`
and `answers` are history: every request that left, and what the adapter said.
`candidates` is chosen at the start from `Registries`, which holds what the registry
can return.

### BatchSelection

`made`, `cand` and `result` are the batch directories; `job[b]` is the invocation the
process `b` runs, with its request, the loaded source and the collected summaries.
`Accepts` is the whole preflight of a source: `Generation` is the walk along recorded
parents, `Seen` its guard against cycles, `Agrees` the validation of one generation, `Reusable` and `Resumable` the
demands on an earlier success and an earlier failure. `MakeDirectory` is the `mkdir`
without `exist_ok`. `NextCandidate` reuses, runs or resumes one candidate: the run is
one step whose outcomes are those of `ProductionRun`, described by what the candidate
directory then holds. The number of a run stands for the content of its files, so
that equal numbers are equal hashes. `Remove` is the operator, who may remove a batch
no live batch uses, as the procedure in the documents requires.

### HoldoutCapture

`file` and `mem` are the checkpoint and its copy; every action between `Start` and
`Complete` is one branch of `run`, ending with the save the branch makes. `Fail` is
an exception or a kill, with or without the answer having been paid for. `EditRules`
changes the rules at any time. `temporal` selects which of the two captures runs, as
they share their shape and differ in the order of saving and selecting, in the
enrichment, and in the comparison of the rules.

### NativeResearch

`file`, `attempts` and `ret` are the output directory; `slot`, `revisions`, `completed`
and `tried` belong to the worker of the other project and follow from what this code
reads of them. `hook[h]` is an invocation: its stage, its options, and the two counts of
calls that `produce` and `complete` keep. `calls`, `reported`, `unknown`,
`misreported` and `asked` are history.

| action | code |
| --- | --- |
| `MarkerFound`, `ResultFound`, `FailedReceiptFound`, `Research` | the order in which `_produce` looks at the directory before it dispatches |
| `ResearchLost`, `MarkUnknown`, `MarkRaises` | the call timed out or its report cannot be read: the marker, and the error of writing it |
| `ResearchReturns`, `MarkFailed` | the report, and the marker of a call that left no receipt |
| `ReportUndecodable` | the output cannot be decoded, an error neither clause around the call catches: a number is reported, and nothing is marked |
| `Complete`, `SaveResult` | the receipt must prove this analysis; the result |
| `FirstReturn`, `ReturnTorn`, `ReturnFound` | what `_complete` finds published, and whether a pending review is taken up (`CanResume`) |
| `CheckAttempt`, `SaveAttempt`, `Ask` | one attempt for the key of an approval |
| `FeedbackLost`, `FeedbackReturns` | the worker's review |
| `Publish`, `PublishReadback`, `PublishInitial`, `PublishInitialReadback` | `publish_readback`, four exclusive writes |
| `WriteRaises`, `Kill` | an error or a kill in a write leaves nothing, or a torn file (`WriteStops`) |
| `*Worker*` | the worker, a process of its own, which goes on when its hook is gone |

What the checks of the binding, the evidence and the dates look at is one step that may
raise (`CheckRaises`).

### Handover

`file` holds every file, absent, torn or whole; `proc[p]` is the stage of a process, and
`open` says that it has created its file and not yet filled it. `Open` and `Fill` are the
two halves of every exclusive write, so that a reader may come between them. `Look`,
`Claim` and `MakeDirectory` are the three tests of the workflow, `HandOff` to `ReadBack`
its exchange with the consumer, `Receive` and `Consume` the tests of the other commands.
`Raise` is the workflow's handler, which records a failure; elsewhere an error ends the
command. `Removes` is the snapshot writer's clean-up. `Edit` changes the evidence or the
methods at any time. `WriteOnceStore` sees a file only when it is whole.

### EvidenceChain

A bundle stands for its fingerprint, and a snapshot for its id: what is in it follows
from the bundles and the attempts it was built from. `Sound` is the index of emissions
every builder makes; `Of` and `From` are the sources a request has to agree on; then
there is one action for each builder, which computes its layer from the layers before it
and leaves the others as they are. Properties speak of the last layer and of the
observations at the other end, never of what is in between.

## 4. What the runs check

| run | instance | checks |
| --- | --- | --- |
| `run_recovery` | 3 runs, 3 directories, 1 request, 3 answers, 2 operations; symmetric | types, sealing, resumability, origin of checkpoints, what is sent, second recovery, refinement of `RunDirectory` |
| `two_requests` | 2 runs, 2 directories, 2 requests, 2 answers, 2 operations; fair | a delivery rests on the answers of one request, and every started run ends |
| `provider_call` | 2 operations; one provider, or two with different policies; 2 attempts | attempts, retries, fallback, exhaustion, checkpointed response, sums |
| `batches` | 2 processes, 2 directories, 2 candidates, 1 operation, 2 invocations | immutability, agreement of result and directory, usage, what blocks a resume |
| `batch_lineage` | 1 process, 3 directories, 1 candidate, 4 invocations, 1 removal | success carried over, no walk among agreeing generations meets a batch twice |
| `holdout` | cohort of 3, 2 rule sets, 4 invocations, both captures | paid answers, replayability, frozen rules |
| `native_research` | 3 invocations by 2 hooks in a row, 1 packet, 1 approval, offline dependency; fair | types, cost, one question per approval, closed slot, final review, termination |
| `handover` | 2 processes, 3 commands, 1 edit | one consumer, bound result, returned is stored, refinement of `WriteOnceStore` |
| `evidence_chain` | 5 bundles, 6 selections of them, 1 attempt asked for at a time | open conflicts, missing evidence, lineage, reproducible advice |

The other three runs each show one disagreement between code and document, see
section 6.

### Bounds

* **Runs and directories: 3 and 3.** The smallest instance with a recovery of a
  recovery: a failed run, a run resumed from it that fails, and a third resumed from
  the second, each in its own directory, or two of them competing for one.
* **Operations: 2.** One to be replayed and one to be bought, so that a failure can
  fall before, between and after. In `batches` one operation is enough to tell a run
  that holds nothing from one that holds its whole plan.
* **Answers: 3.** Two for one run and one for a resume that buys again. When all have
  been given, a provider can only fail.
* **Requests: 2 in `two_requests`.** One more than one is what mixing needs.
* **Attempts: 2.** The smallest number that is a retry, and the one the exhaustion rule
  singles out; no production runtime configures more. `ExhaustionIsExact` depends on it,
  as its comment says: with three attempts it does not hold. There are two operations, so
  that the slices of the records do not start at zero, and two providers, one with a retry
  policy and one without.
* **Batches.** `MaxStarts` is the number of invocations: 2 in parallel, or 4 in a row,
  so that a success may be owned three generations back. `MaxRemovals` is 1, enough
  to have a name reused by a different batch, or to break a lineage.
* **Holdout.** `CohortSize` is 3 (100 in the code): none, some, or all of the cohort
  captured. Each of the `MaxStarts` = 4 invocations can fail anywhere.

* **Research.** Three invocations: one that fails or dies, one that finds what it left,
  and one that finds what both left. Two hooks, so that a worker that outlived its
  invocation meets the worker of the next. An offline dependency (`Offline`) has all
  the options an online one has, and the synthetic ones. One packet is enough, as the
  directory's markers and the slot close it for any packet; the proofs cover more.
* **Hand-over.** Two processes, for the races; three commands, so that one finds what
  two have left; one edit, which is what makes evidence or methods differ.
* **Evidence chain.** A bundle without a conflict and without keyword evidence, one with
  keyword evidence, two that disagree, the three together, and two that collide in
  content or in metadata. Each layer holds at most one snapshot, which is all that the
  next request can be given.

`MaxStarts`, `MaxRemovals` and `MaxEdits` bound the models only; `NumOps`, `CohortSize` and
`MaxAttempts` are parameters of the code. Symmetry is used in runs that check no
liveness property, over sets no definition distinguishes or orders.

### Fairness

`two_requests` and `native_research` check liveness. `FairSpec` of `ProductionRun` asks
for weak fairness of `Step(r)` for each run: a started run is one running Python process
with no waiting other than the calls that have timeouts, so it keeps executing until it
ends or is killed. `FairSpec` of `NativeResearch` asks for weak fairness of a step of
some invocation (`HookStep`), of which one is live at a time: the wait for the worker has
a timeout, after which the invocation goes on, so that nothing need be assumed of the
worker, which may hang for ever.
Nothing is assumed of the operator (`Start`) or of kills (`Crash`, `Kill`): a run need
not be started and need not crash. `CHECK_DEADLOCK` stays on everywhere; where a program
has ended, an explicit step that changes nothing (`AllEnded`, `Quiet`, `Finished`) says
so.

## 5. What is proved

`ProductionRunProofs` proves, for any sets of runs, directories, requests and
evidence ids and any positive plan length:

| theorem | statement |
| --- | --- |
| `TypeCorrect` | `Spec => []TypeOK` |
| `Inductive` | `Exclusive => (Spec => []IInv)` |
| `DeliveryIsComplete` | `Exclusive => (Spec => []DeliveredFromCompleteCohort)` |
| `FailuresCanBeResumed` | `Exclusive => (Spec => []FailureManifestIsResumable)` |
| `SealedForGood` | `Exclusive => (Spec => ManifestSealsDirectory)` |
| `RunsImplementDirectory` | `Exclusive => (Spec => ImplementsRunDirectory)` |

*Assumptions.* `NumOps` is a positive natural number, `Exclusive` a Boolean, and the
three sentinels are distinct from the values they stand beside. `Exclusive` is a
hypothesis and not an axiom: without it sealing does not hold, as TLC shows in seconds
when `Exclusive = FALSE` (section 6).

*The argument.* Types need a little more than types (`TypeInv`): a run about to write
a checkpoint holds an answer for the operation its plan is at (`PendingView`), and a
live run has a directory (`OnDirectory`). The safety properties need much more, since
what a manifest says comes from memory and what a resume reads comes from disk. `IInv`
says that the two agree while a run lives:

* `OneOwner`: no two live runs have one directory;
* `OwnerView`: past the conflict check, the directory has no manifest, its files are
  exactly the inventory in memory, one for each operation before the plan position,
  and all for the request of the run, as are the checkpoints of the resume source;
* `OwnerProgress`: the delivered files are those of the stages passed, and a run that
  delivers has finished its plan with answers that all cover the cohort;
* `Untouched`: before the conflict check has passed, nothing is in memory;
* a directory without a checkpoint directory holds no checkpoint, so that the
  conflict check, which looks only for that directory, is enough.

None of these can be dropped: without `OwnerView` nothing relates the manifest's
inventory to the files, without `OneOwner` another run could break it, and without
the last the check could hand a directory with files to a new owner. `InvStep` proves
that every action preserves it. Three lemmas share the work: `LocalStep` (a step that
touches only its own run and directory has only its own run and directory to check),
`MoveStep` (a step that changes nothing but `pc`) and `StoreStep` (a checkpoint is
stored). `DirectoryStep` then states what a step can do to directories: nothing,
store one checkpoint, add a delivered file, or seal, always in a directory without a
manifest. Sealing and the refinement both follow from it.

The same module proves what holds along chains of recoveries of any length, on top of
`IInv`:

| theorem | statement |
| --- | --- |
| `OnlyMissingIsSent` | `Exclusive => (Spec => OnlyMissingOperationsAreSent)` |
| `RecoveryOfARecovery` | `Exclusive => (Spec => []SecondRecoveryLosesNothing)` |
| `AnswersAreBoughtOnce` | `Exclusive => (Spec => []CheckpointsAreProviderAnswers)` |

*The argument.* `ChainInv` adds to `IInv` what relates a run to the runs before it:

* `Sourced`: the source was sealed when it was read, so that what a run has in memory of
  it is still what the source directory holds;
* `PlanPrefix`: a directory that has a checkpoint for an operation has one for every
  operation before it. So a run whose source has nothing for an operation is past the
  end of its source, and has replayed all of it (`SourceDone`);
* `Replays`: hence a run that has called the provider holds all its source held;
* `Paid` and `OneBuyer`: what runs hold is in the provider's ledger, and what a run holds
  and has not replayed (`Bought`) no other run has bought;
* `Written`: a manifest tells what the run that wrote it had in memory.

`MoveChain` and `StoreChain` share the work as `MoveStep` and `StoreStep` do for `IInv`.

The last theorem of the module needs only the types:

| theorem | statement |
| --- | --- |
| `RunsTakeBoundedSteps` | `Spec => RunsRunOut /\ [](\A r \in Run : StepsLeft(r) \in 0..(12 + 2 * NumOps))` |

*The argument.* `StepsLeft` counts the stages ahead of a run and two steps for each
operation of the plan it has not passed. Every step of the run lowers it (a checkpoint sends
the run back one stage and forward one operation), and no crash and no other run raises it.
So a run cannot go on for ever, whatever plan it has and whatever fails: no failure sends it
back. `RunsEnd` follows if, besides, a run that has not ended can always take a step, and
takes it; this rest is what TLC checks and `FairSpec` assumes.

`BatchSelectionProofs` proves, for any set of processes, any finite set of directories,
any list of distinct candidates and any bounds:

| theorem | statement |
| --- | --- |
| `TypeCorrect` | `Spec => []TypeOK` |
| `SourcesAreImmutable` | `Spec => SourceBatchIsImmutable` |
| `ResultsAreAccurate` | `Spec => []ResultDescribesItsDirectory` |
| `SuccessesAreCarriedOver` | `Spec => []SuccessIsCarriedOver` |

*The argument.* One invariant (`IInv` of that module) carries all four, and they need
each other. A batch past its `mkdir` has a directory that exists, holds no result and
is no other such batch's (`OwnsDestination`): `MakeDirectory`, not the earlier freshness
check, is what establishes it. So a delivered directory is nobody's destination and
stays as it is. Therefore what the preflight found for an earlier success still stands
when it is read again (`SourceStands`), and the summary made from it is the earlier
one (`Collected`); without that, not even the types of a reused summary hold.
`PreflightFinds` says what `Accepts` guarantees; for these four it needs the last step of
the walk only. What the theorems take from the model is that the operator removes no
directory a live batch uses.

`BatchHistoryProofs` proves, under the same assumptions, what holds over all generations:

| theorem | statement |
| --- | --- |
| `LineagesNeverCycle` | `Spec => []LineageNeverCycles` |
| `UsageBookedOnce` | `Spec => []UsageIsBookedOnce` |
| `OnlyPartialDeliveryBlocks` | `Spec => []OnlyPartialDeliveryBlocksAResume` |

*The argument.* A lineage is a recursive function (`Generation`), and no induction theorem
can be instantiated here. What a recursive definition computes is therefore proved by
taking the least number at which it would fail (`LeastNumber`, from the well-foundedness
of the natural numbers).

* *Lineages.* `GenerationIsWalk` unfolds the recursion into a walk along the recorded
  parents. Take one success, known by its candidate, its run and its origin. A batch that
  reused it links its directory to that of its source (`Records`), and a batch at work that
  has read it from its source will (`WillRecord`). `LineageInv` says that these links go
  in no circle: every set of directories has one from which no link leads back into the
  set. The links of batches at work have to be among them, as several of them may have
  been given each other's directories. A new link is made only when a source is loaded
  (`LoadLink`), and by then the preflight has walked from that source to the owner, which
  has no link of its own; so on the way that walk leaves any set it starts in
  (`LineageLeaves`), and the new link closes no circle (`LoadKeepsEnds`). A delivery turns
  pending links into recorded ones, and a removal takes links away (`NoNewLink`). A walk
  that met a directory twice before its owner would be a circle of links (`NoCircle`).
* *Usage.* The sum over the delivered results is a fold over a set. `SumCountsTokens` turns
  it into the cardinality of a set, one token for each directory, candidate and operation.
  The tokens of the results and those a batch at work has collected (`Booked`) are never
  more than what was bought (`UsageInv`): a run adds as many tokens as it buys, a reused
  success adds none, and a delivery moves them from the batch to its result. That no token
  is written twice needs `OwnsDestination`.
* *Resumes.* `ResumeInv` says that, as long as nothing is removed, a recorded success is
  one that would be reused (`SuccessesReusable`), and that a recorded failure names files of
  its own directory or none (`FailuresOwned`). The hard step is the delivery of a batch
  that reused a success: the lineage of the new result is that of its source with one
  generation before it, and may not be longer than the number of directories
  (`DeliveredReusable`); it is not, because the new directory is on no lineage yet and the
  old one meets no directory twice. `PriorIsSource` and `OwnOrEmpty` say what a batch holds
  in memory meanwhile. Without the hypothesis that nothing is removed the theorem is false,
  as a lineage whose origin is gone blocks the resume.

`ProviderCallProofs` proves, for any registries without repetition, any policies and any
number of operations:

| theorem | statement |
| --- | --- |
| `TypeCorrect` | `Spec => []TypeOK` |
| `BoundedAlways` | `Spec => []AttemptsAreBounded` |
| `TransientAlways` | `Spec => OnlyTransientIsRetried` |
| `AnswerAlways` | `Spec => UsableAnswerEndsTheSearch` |
| `AcceptedIsHeld` | `Spec => []CheckpointHoldsAcceptedResponse` |
| `SummaryAlways` | `Spec => []SummaryAddsUp` |
| `ExhaustionAlways` | `Spec => []ExhaustionIsExact`, if no provider is allowed more than two attempts |

*The argument.* The attempt counter starts again at every candidate. It counts all the
requests of the operation to that provider (`Counts`) only because no candidate is listed
twice and those passed over lie behind (`Asked`). The records since the operation began
are its own (`Filed`) and the last is the one being judged (`Current`), so that looking
back for a good response stops at once. For a single candidate (`Single`) there is a
record for each request except an unclassified one; this exception is why the theorem on
exhaustion needs its hypothesis. The invariant itself was checked with three attempts too.

`HoldoutCaptureProofs` proves, for any size of the cohort, any set of rules and any number
of invocations:

| theorem | statement |
| --- | --- |
| `LossAlways` | `Spec => []OneAnswerLostPerFailure` |
| `ReplayableAlways` | `Spec => []CompleteIsReplayable` |
| `FrozenAlways` | `Spec => RulesStayFrozen` |

*The argument.* A live invocation has in memory what the file holds, or a checkpoint
nothing was put in yet (`Live`); its captures are a prefix of the cohort (`Prefix`), which
makes the next ASIN the one after them; and each stage leaves behind what the next one
takes for granted (`Staged`). The file keeps what was true of the copy (`Filed`).

`NativeResearchProofs` proves, for any sets of hooks, packets and approvals and any number
of invocations:

| theorem | statement |
| --- | --- |
| `TypesAlways` | `Spec => []TypeOK` |
| `InvocationsPassOn` | `Spec => InvocationsRunOut` |
| `CostAlways` | `Alone => (Spec => []CostIsReported)` |
| `AskedOnceAlways` | `Alone => (Spec => []AskedOncePerApproval)` |
| `SlotStaysClosedAlways` | `Alone => (Spec => PaidSlotStaysClosed)` |
| `ReviewIsFinalAlways` | `Alone => (Spec => CompletedReviewIsFinal)` |

*Assumptions.* `TypesAlways` and `InvocationsPassOn` have no hypothesis and hold for any
number of live invocations. The others take `Alone` as a hypothesis: the operator runs
one invocation at a time. Workers of killed invocations may be running beside it in any
number. The sentinels for a missing and a torn file differ from the values they stand
beside.

*The argument.* The types are proved in parts (`Typed`): the files, the approvals and
revisions, the invocations, the workers, and what has been recorded. `InvocationsRunOut`
is to `InvocationsEnd` what `RunsRunOut` is to `RunsEnd`: each step of an invocation
takes it to a later one of fifteen stages, and no worker and no kill takes it back. With
one invocation, the live one is alone with the disk (`Basics`), so what it has looked
for and not found is still not there when it acts: no marker from the dispatch to the
record of its outcome (`Closed`), no attempt under its key until it records one
(`AskedAttempts`). `Workers` ties a worker to the stage its invocation waits in, so that
a dispatch by a waiting invocation implies `Closed`.

`Cost` is what the live invocation and its worker owe: `Due` is what it has counted and what
its worker has done, read or not. Calls nobody has reported always cover what is due
(`NotTwice`), also after kills and when the workers of killed invocations call; so an end
that reports what was counted reports nothing twice. In the other direction, until a count
has been reported as unknown, what is neither reported nor due is `Lost`, by the one
invocation that has given up its worker or by one that has misreported (`NotMissed`); in
particular no worker is then left behind, which is why a kill ends this half. `Owed` and
`CostEverywhere` take both from one invocation to all. Effects of steps that compute a flag
or a choice are stated once (`Effects`), which leaves 36 short cases for each part of the
invariant.

`HandoverProofs` proves, for any set of processes and any number of commands and edits:

| theorem | statement |
| --- | --- |
| `ConsumedOnceAlways` | `Spec => []ConsumedOnce` |
| `ResultIsBoundAlways` | `Spec => []ResultIsBound` |
| `ReturnedIsStoredAlways` | `Spec => []ReturnedIsStored` |
| `ImplementsStoreAlways` | `Spec => ImplementsStore` |

*The argument.* The `mkdir` that fails on an existing directory lets one process into it
for good (`Exclusive`), and it passes its stages in order, so that the consumer is started
by one step of one process (`Once`) and each stage leaves a whole file behind (`Progress`).
A file that is being written is torn, open in one process, and has been returned by nobody
(`Opened`, `Returns`), so that neither the removal of a failed snapshot nor any other write
touches what a reader has. The report is the one file that is not created exclusively;
`Unwritten` says that it is not there when it is opened. `Bound` is what the result names.

`EvidenceChainProofs` proves, for any bundles with any contents, any selections and any
attempts:

| theorem | statement |
| --- | --- |
| `ConflictStaysOpenAlways` | `Spec => []ConflictStaysOpen` |
| `MissingIsNotNegativeAlways` | `Spec => []MissingIsNotNegative` |
| `LineageIsCompleteAlways` | `Spec => []LineageIsComplete` |
| `AdviceIsReproducibleAlways` | `Spec => []AdviceIsReproducible` |

*The argument.* Every snapshot held is what the whole chain computes from its own bundles
and attempts (`ChainInv`), whatever the other layers have been rebuilt from since: this is
what the agreement of sources in each request is for. The four properties are then facts
about that computation.

*Only model-checked.* Liveness under fairness (`RunsEnd`, `InvocationsEnd`): beyond the two
variants above it needs that an action is `ENABLED` in every state its run has not ended
in, and the backends installed have no rules for `ENABLED`. Every other property of a passing run is stated by one of the
theorems above. The three runs of section 6 expect a violation, so that there is nothing to
prove of their properties.

The inductive invariants were checked with TLC on the instances of the runs before they
were proved.

## 6. Where the code and its documents differ

Each run below checks one sentence of a document or a comment, and TLC finds a
behaviour of the code that contradicts it. `PROJECT.json` quotes the sentences.

| run | shows |
| --- | --- |
| `source_not_copied` | a resumed run that fails before its replays leaves a failure manifest without the source's checkpoints; a recovery from it buys them again |
| `resume_guidance` | a candidate that failed after its report was written is labelled resumable and blocks the resume of its whole batch |
| `short_cohort` | a temporal capture blocked for want of independent ASINs makes the reverse calls when it is run again |

`SecondRecoveryLosesNothing` and `OnlyPartialDeliveryBlocksAResume` say what does hold
in place of the first two.

Some more came up while modelling and have no run:

* Two live runs given one directory both pass the conflict check, and one writes after the
  other's manifest (`production_pipeline/orchestrator.py:275`). The models and the theorems
  assume `Exclusive`.
* An operation that was answered, but whose checkpoint could not be written, is missing
  from `executed_operation_count`.
* A request whose response breaks off (`http.client.IncompleteRead`) is missing from
  `transport_attempt_count`.
* A worker whose output cannot be decoded (`native_research_completion.py:164`) raises a
  `UnicodeDecodeError`, which neither clause around the call catches; and the marker of an
  unknown outcome may fail to be written (line 237), which raises an error of its own. In both
  cases the invocation reports the number it had counted before, 0 unless an earlier call of
  it has returned, though the outcome is unknown. `tests/test_native_research_completion.py:132` to 135 expect of an unknown
  outcome that its count is null and its marker is on disk. `CostIsReported` counts such
  invocations in `misreported` and says that each hides at most one call.

## 7. What is not modelled

* **Content.** Payloads, wording, spreadsheet layout, and the analysis between
  acquisition and report. A response is known by the operation it answers and by
  whether it covers the cohort.
* **Credits.** The transport's credit headers and the holdout's credit arithmetic.
* **Tampering.** Directories change only by the program's own writes, by an operator who
  removes a batch nobody uses (`BatchSelection`), and by edits of the evidence, of the
  methods or of the rules (`Handover`, `HoldoutCapture`). An edit makes a new version and
  never restores an old one. Snapshots of the evidence chain cannot be forged, as their ids
  are hashes of their contents; the checks of a record against its own id are left out.
* **Several captures or several research invocations at once.** Both commands are run by
  hand, one at a time. For `native_research_completion` this is a real limit: `write()`
  accepts an existing equal file, so that two simultaneous invocations can both pass the
  check of the attempt file and ask twice.
* **The directory of a dead run.** It keeps its checkpoints and is refused by every
  later run. The refinement says it stays open for good; no document promises more.
* **A torn return.** A kill between the two writes of the first return leaves
  `pds-response.json` without `readback.json`, and every later `complete` raises
  (`ReturnTorn`). No document promises that such a directory can be used again.
* **What follows from a missing marker.** An invocation whose worker's output could not be
  decoded, or that could not write the marker, leaves no marker or a torn one.
  `PaidSlotStaysClosed` speaks of a slot that has been marked, and not of these; there, what
  keeps the worker from calling again is its own attempt file (`slot.attempt`).
* **A provider before its transport.** A configuration, capability or credential check that
  fails before a request is sent (`connectors/base.py:114`), and an exception of an adapter
  that is of none of its classes (line 163).
* **In the evidence chain**: `MINIMUM_PROVIDER_COUNT`, a policy no rule requires; quality
  profiles, coverage counts, audit records and explanations; the scores, which are
  constants; records of runs, queries or issues that collide, of which only observations are
  modelled (`Sound` refuses them alike). No command of the program chains the builders: the operator hands over
  serialized snapshots, which is what the model's rebuilding at any time stands for.
* **The legacy client** and the other pure rules: planned, section 2.
* **Rendering, import of workbooks, probes, evidence scripts and fixtures**: they keep
  no state, or are not part of the program.

The modelled files are a small part of a large package: the part in which a property
needs more than one step, or more than one process, to fail. Most of the rest are field
tables, dataclasses with validators, builders of reports and their layout, where a model
would repeat the text of the program.

## 8. Running it

```
tlc -config ProductionRun.cfg     MCProductionRun     # run_recovery
tlc -config ProductionRunLive.cfg MCProductionRun     # two_requests
tlc -config ProviderCall.cfg      MCProviderCall
tlc -config BatchSelection.cfg    MCBatchSelection
tlc -config BatchSelectionLineage.cfg MCBatchSelection
tlc -config HoldoutCapture.cfg    HoldoutCapture
tlc -config NativeResearch.cfg    NativeResearch
tlc -config Handover.cfg          Handover
tlc -config EvidenceChain.cfg     MCEvidenceChain
tlapm ProductionRunProofs.tla
tlapm ProviderCallProofs.tla
tlapm BatchSelectionProofs.tla
tlapm BatchHistoryProofs.tla
tlapm HoldoutCaptureProofs.tla
tlapm NativeResearchProofs.tla
tlapm HandoverProofs.tla
tlapm EvidenceChainProofs.tla
```

Each run takes between seconds and three minutes on two cores (`evidence_chain` is the
longest); the proofs take a few minutes from nothing.
