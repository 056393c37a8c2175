--------------------------- MODULE BatchSelection ---------------------------
(***************************************************************************)
(* Invocations of BatchProductSelectionOrchestrator.run, the batch         *)
(* directories they deliver, and the lineage of generations a resumed      *)
(* batch walks before it reuses an earlier success                         *)
(* (batch_product_selection/orchestrator.py, delivery.py).                 *)
(*                                                                         *)
(* A candidate's production run is one step here, with the outcomes        *)
(* ProductionRun allows it: it holds a prefix of the plan, has files to    *)
(* show only when the whole plan is held and complete, and either leaves a *)
(* manifest or raises.  A candidate directory without a manifest is never  *)
(* read again, and what it holds is left out.  The number of a candidate   *)
(* run stands for the content of its files, and so for their hashes.       *)
(*                                                                         *)
(* A definition marked [faulty] is a plausible mistake in the one after it *)
(* and is used by no action.                                               *)
(***************************************************************************)
EXTENDS Integers, Sequences, FiniteSets, Functions, FiniteSetsExt

CONSTANTS
    Batch,          \* processes that run the batch command, one invocation at a time
    Dir,            \* batch output directories
    Order,          \* request.candidates: a sequence of candidate ids
    Input,          \* input fingerprints
    NumOps,         \* provider operations in a candidate's plan
    MaxStarts,      \* bound: invocations
    MaxRemovals,    \* bound: how often the operator removes a batch directory
    NoDir, NoResult, NoSummary, NoInput

Candidate == {Order[i] : i \in 1..Len(Order)}

ASSUME OrderAssumption ==
    /\ Order \in Seq(Candidate)
    /\ Len(Order) > 0
    /\ \A i, j \in 1..Len(Order) : Order[i] = Order[j] => i = j
ASSUME NumOpsAssumption == NumOps \in Nat \ {0}
ASSUME BoundAssumption == MaxStarts \in Nat /\ MaxRemovals \in Nat
ASSUME DirAssumption == IsFiniteSet(Dir)

VARIABLES
    made,       \* the batch directories that exist
    cand,       \* cand[d][c]: <d>/candidates/<c>
    result,     \* result[d]: <d>/batch_selection_result.json
    job,        \* job[b]: the invocation b runs
    runs,       \* number of candidate runs so far
    bought,     \* history: provider operations sent for each candidate
    starts, removals

disk == <<made, cand, result>>
vars == <<disk, job, runs, bought, starts, removals>>
----------------------------------------------------------------------------
AllPaths    == {"market_report_json", "operator_xlsx", "operator_markdown", "run_manifest"}

\* What a failed run names: nothing, or its manifest and what it had delivered before.
FailedPaths == {{}, {"run_manifest"}, {"run_manifest", "market_report_json"},
                {"run_manifest", "market_report_json", "operator_markdown"}, AllPaths}

\* partial: some checkpoint does not cover the cohort, so that no replay of it succeeds
CandidateDir ==
    [status : {"none", "open", "FAILED", "SUCCEEDED"}, run : Nat, held : 0..NumOps,
     partial : BOOLEAN, paths : FailedPaths]

NoCandidateDir == [status |-> "none", run |-> 0, held |-> 0, partial |-> FALSE, paths |-> {}]

Summary ==
    [status : {"SUCCEEDED", "FAILED"},
     source : {"NEW_EXECUTION", "CHECKPOINT_RESUME", "REUSED_SUCCESS"},
     origin : Dir \cup {NoDir}, run : Nat, paths : FailedPaths,
     executed : Nat, replayed : Nat]

Result == [input : Input, parent : Dir \cup {NoDir}, cand : [Candidate -> Summary]]

\* The invocation in a process: its request, the source result it has loaded with the
\* directories found for it (resume_sources), its position in Order, and the summaries
\* it has collected.
Job ==
    [pc : {"idle", "fresh", "preflight", "mkdir", "candidates", "deliver"},
     out : Dir \cup {NoDir}, src : Dir \cup {NoDir}, input : Input \cup {NoInput},
     prior : Result \cup {NoResult}, from : [Candidate -> Dir \cup {NoDir}],
     at : 1..(Len(Order) + 1), summaries : [Candidate -> Summary \cup {NoSummary}]]

ASSUME SentinelAssumption ==
    /\ NoDir \notin Dir
    /\ NoResult \notin Result
    /\ NoSummary \notin Summary

Idle ==
    [pc |-> "idle", out |-> NoDir, src |-> NoDir, input |-> NoInput, prior |-> NoResult,
     from |-> [c \in Candidate |-> NoDir], at |-> 1,
     summaries |-> [c \in Candidate |-> NoSummary]]

Live(b) == job[b].pc # "idle"

Init ==
    /\ made = {}
    /\ cand = [d \in Dir |-> [c \in Candidate |-> NoCandidateDir]]
    /\ result = [d \in Dir |-> NoResult]
    /\ job = [b \in Batch |-> Idle]
    /\ runs = 0
    /\ bought = [c \in Candidate |-> 0]
    /\ starts = 0
    /\ removals = 0

Goto(b, to) == job' = [job EXCEPT ![b].pc = to]

\* The invocation is over, with its result delivered or with an error.
Exit(b) == job' = [job EXCEPT ![b] = Idle]

Start(b, d, s, in) ==
    /\ job[b].pc = "idle"
    /\ starts < MaxStarts
    /\ job' = [job EXCEPT ![b] =
                 [Idle EXCEPT !.pc = "fresh", !.out = d, !.src = s, !.input = in]]
    /\ starts' = starts + 1
    /\ UNCHANGED <<disk, runs, bought, removals>>

AssertFreshDestination(b) ==
    /\ job[b].pc = "fresh"
    /\ IF job[b].out \in made THEN Exit(b)
       ELSE Goto(b, IF job[b].src = NoDir THEN "mkdir" ELSE "preflight")
    /\ UNCHANGED <<disk, runs, bought, starts, removals>>
----------------------------------------------------------------------------
(* The lineage: the recorded parents, beginning with the resume source.    *)

Generation(s) ==
    LET gen[n \in 0..Cardinality(Dir)] ==
          IF n = 0 THEN s
          ELSE IF gen[n - 1] = NoDir THEN NoDir
          ELSE IF result[gen[n - 1]] = NoResult THEN NoDir
          ELSE result[gen[n - 1]].parent
    IN  gen

\* _validate_lineage_generation: generation g records the same artifacts for c.
Agrees(g, c, target, in) ==
    /\ g # NoDir
    /\ result[g] # NoResult
    /\ result[g].input = in
    /\ result[g].cand[c].status = "SUCCEEDED"
    /\ result[g].cand[c].paths = target.paths
    /\ result[g].cand[c].origin = target.origin
    /\ result[g].cand[c].run = target.run

\* The guard against cycles: the n-th generation has been met before.
Seen(s, n) == \E k \in 0..(n - 1) : Generation(s)[k] = Generation(s)[n]

\* [faulty] only the resume source itself may own the artifacts
ReachesOriginDirectly(s, c, target, in) ==
    s = target.origin /\ Agrees(s, c, target, in)

\* The walk from s reaches the directory that owns the artifacts, through generations
\* that are new to it and all agree.
ReachesOrigin(s, c, target, in) ==
    \E n \in 0..Cardinality(Dir) :
      /\ Generation(s)[n] = target.origin
      /\ \A m \in 0..n : ~Seen(s, m) /\ Agrees(Generation(s)[m], c, target, in)

\* [faulty] the recorded origin is trusted
ReusableAsRecorded(s, c, in) == result[s].cand[c].paths = AllPaths

\* _resolve_successful_artifact_origin accepts the prior success of c.
Reusable(s, c, in) ==
    LET target == result[s].cand[c]
    IN  /\ target.paths = AllPaths
        /\ cand[target.origin][c].status = "SUCCEEDED"
        /\ cand[target.origin][c].run = target.run
        /\ ReachesOrigin(s, c, target, in)

\* _preflight_source_candidate for a prior failure: nothing recorded, or exactly the
\* manifest, which must still be the recorded one.
Resumable(s, c) ==
    LET target == result[s].cand[c]
    IN  \/ target.paths = {}
        \/ /\ target.paths = {"run_manifest"}
           /\ cand[s][c].status = "FAILED"
           /\ cand[s][c].run = target.run
           /\ cand[s][c].paths = {"run_manifest"}

Accepts(s, in) ==
    /\ result[s] # NoResult
    /\ result[s].input = in
    /\ \A c \in Candidate :
         IF result[s].cand[c].status = "SUCCEEDED" THEN Reusable(s, c, in)
         ELSE Resumable(s, c)

ResumeSource(s, c) ==
    LET target == result[s].cand[c]
    IN  IF target.status = "SUCCEEDED" THEN target.origin
        ELSE IF target.paths = {} THEN NoDir ELSE s

LoadResumeBatch(b) ==
    /\ job[b].pc = "preflight"
    /\ LET s == job[b].src
       IN  IF Accepts(s, job[b].input)
             THEN job' = [job EXCEPT ![b].pc = "mkdir",
                                     ![b].prior = result[s],
                                     ![b].from = [c \in Candidate |-> ResumeSource(s, c)]]
             ELSE Exit(b)
    /\ UNCHANGED <<disk, runs, bought, starts, removals>>

\* [faulty] mkdir with exist_ok
MakeDirectoryIfMissing(b) ==
    /\ job[b].pc = "mkdir"
    /\ Goto(b, "candidates")
    /\ made' = made \cup {job[b].out}
    /\ UNCHANGED <<cand, result, runs, bought, starts, removals>>

\* mkdir without exist_ok: the second of two batches with one destination raises.
MakeDirectory(b) ==
    /\ job[b].pc = "mkdir"
    /\ IF job[b].out \in made
         THEN Exit(b) /\ UNCHANGED made
         ELSE Goto(b, "candidates") /\ made' = made \cup {job[b].out}
    /\ UNCHANGED <<cand, result, runs, bought, starts, removals>>
----------------------------------------------------------------------------
PriorSuccess(b, c) ==
    job[b].prior # NoResult /\ job[b].prior.cand[c].status = "SUCCEEDED"

Collect(b, c, summary) ==
    /\ job' = [job EXCEPT ![b].summaries[c] = summary, ![b].at = @ + 1]
    /\ UNCHANGED <<made, result, starts, removals>>

\* [faulty] the manifest is looked for in the directory of this batch
ReuseSummaryFromOwn(b, c, executed) ==
    LET d == job[b].out
    IN  [status |-> cand[d][c].status, source |-> "REUSED_SUCCESS", origin |-> d,
         run |-> cand[d][c].run, paths |-> cand[d][c].paths,
         executed |-> executed, replayed |-> 0]

\* The summary is made from the manifest of the run that owns the artifacts.
ReuseSummary(b, c, executed) ==
    LET d == job[b].from[c]
    IN  [status |-> cand[d][c].status, source |-> "REUSED_SUCCESS", origin |-> d,
         run |-> cand[d][c].run, paths |-> cand[d][c].paths,
         executed |-> executed, replayed |-> 0]

\* [faulty] the usage of the reused run is booked as usage of this one
ReuseBilled(b, c) ==
    /\ PriorSuccess(b, c)
    /\ Collect(b, c, ReuseSummary(b, c, NumOps))
    /\ UNCHANGED <<cand, runs, bought>>

Reuse(b, c) ==
    /\ PriorSuccess(b, c)
    /\ Collect(b, c, ReuseSummary(b, c, 0))
    /\ UNCHANGED <<cand, runs, bought>>

\* What the run of c starts from.
Replayable(b, c) == IF job[b].from[c] = NoDir THEN 0 ELSE cand[job[b].from[c]][c].held
PartialSource(b, c) == job[b].from[c] # NoDir /\ cand[job[b].from[c]][c].partial

\* [faulty] the run writes into the directory it resumes from
RunDirectoryInPlace(b, c) == IF job[b].from[c] = NoDir THEN job[b].out ELSE job[b].from[c]

\* candidate_output: a fresh directory under this batch.
RunDirectory(b, c) == job[b].out

\* The production run of c ends with the plan held up to left.held, having sent the
\* operations up to "to", and leaves what "left" says.
Execute(b, c, to, left, executed) ==
    LET replayable == Replayable(b, c)
        owns == left.status # "open"
    IN  /\ runs' = runs + 1
        /\ cand' = [cand EXCEPT ![RunDirectory(b, c)][c] = left]
        /\ bought' = [bought EXCEPT ![c] = @ + Max({0, to - replayable})]
        /\ Collect(b, c,
             [status |-> IF left.status = "SUCCEEDED" THEN "SUCCEEDED" ELSE "FAILED",
              source |-> IF job[b].from[c] = NoDir THEN "NEW_EXECUTION"
                                                   ELSE "CHECKPOINT_RESUME",
              origin |-> IF owns THEN job[b].out ELSE NoDir,
              run |-> IF owns THEN left.run ELSE 0,
              paths |-> left.paths,
              executed |-> IF owns THEN executed ELSE 0,
              replayed |-> IF owns THEN Min({left.held, replayable}) ELSE 0])

\* Everything is held and covers the cohort: the report is delivered.
CandidateSucceeds(b, c) ==
    /\ ~PriorSuccess(b, c)
    /\ ~PartialSource(b, c)
    /\ Execute(b, c, NumOps,
               [status |-> "SUCCEEDED", run |-> runs + 1, held |-> NumOps, partial |-> FALSE,
                paths |-> AllPaths],
               NumOps - Replayable(b, c))

\* The run fails, at any point, and leaves a manifest: while it replays, at an operation
\* it has just sent, or, with the whole plan held, while it writes what it delivers.
CandidateFails(b, c, held, to, partial, paths) ==
    /\ ~PriorSuccess(b, c)
    /\ to \in {held, held + 1} /\ to <= NumOps
    /\ held < Replayable(b, c) => to = held
    /\ partial => held > 0
    /\ PartialSource(b, c) /\ held > 0 => partial
    /\ ~PartialSource(b, c) /\ held <= Replayable(b, c) => ~partial
    /\ paths # {}
    /\ paths # {"run_manifest"} => held = NumOps /\ ~partial
    /\ \E executed \in {Max({0, n - Replayable(b, c)}) : n \in {held, to}} :
         Execute(b, c, to,
                 [status |-> "FAILED", run |-> runs + 1, held |-> held,
                  partial |-> partial, paths |-> paths], executed)

\* The run raises instead of returning a result.
CandidateRaises(b, c, to) ==
    /\ ~PriorSuccess(b, c)
    /\ to >= Replayable(b, c)
    /\ Execute(b, c, to, [NoCandidateDir EXCEPT !.status = "open"], 0)

NextCandidate(b) ==
    /\ job[b].pc = "candidates"
    /\ job[b].at <= Len(Order)
    /\ LET c == Order[job[b].at]
       IN  \/ Reuse(b, c)
           \/ CandidateSucceeds(b, c)
           \/ \E held, to \in 0..NumOps, partial \in BOOLEAN, paths \in FailedPaths :
                CandidateFails(b, c, held, to, partial, paths)
           \/ \E to \in 0..NumOps : CandidateRaises(b, c, to)

AllCollected(b) ==
    /\ job[b].pc = "candidates"
    /\ job[b].at > Len(Order)
    /\ Goto(b, "deliver")
    /\ UNCHANGED <<disk, runs, bought, starts, removals>>

\* Summaries for people first, the result a resume needs last; or the delivery raises.
Deliver(b) ==
    /\ job[b].pc = "deliver"
    /\ \/ result' = [result EXCEPT ![job[b].out] =
                        [input |-> job[b].input, parent |-> job[b].src,
                         cand |-> job[b].summaries]]
       \/ UNCHANGED result
    /\ Exit(b)
    /\ UNCHANGED <<made, cand, runs, bought, starts, removals>>

Crash(b) ==
    /\ Live(b)
    /\ Exit(b)
    /\ UNCHANGED <<disk, runs, bought, starts, removals>>

\* The operator removes a batch directory, but not one a live batch reads or writes
\* ("retain the source batch unchanged").
Remove(d) ==
    /\ d \in made
    /\ removals < MaxRemovals
    /\ \A b \in Batch : Live(b) =>
         d # job[b].out /\ d # job[b].src /\ d \notin Range(job[b].from)
    /\ made' = made \ {d}
    /\ cand' = [cand EXCEPT ![d] = [c \in Candidate |-> NoCandidateDir]]
    /\ result' = [result EXCEPT ![d] = NoResult]
    /\ removals' = removals + 1
    /\ UNCHANGED <<job, runs, bought, starts>>

Quiet ==
    /\ starts = MaxStarts
    /\ \A b \in Batch : ~Live(b)
    /\ UNCHANGED vars

Next ==
    \/ \E b \in Batch :
         \/ \E d \in Dir, s \in Dir \cup {NoDir}, in \in Input : Start(b, d, s, in)
         \/ AssertFreshDestination(b)
         \/ LoadResumeBatch(b)
         \/ MakeDirectory(b)
         \/ NextCandidate(b)
         \/ AllCollected(b)
         \/ Deliver(b)
         \/ Crash(b)
    \/ \E d \in Dir : Remove(d)
    \/ Quiet

Spec == Init /\ [][Next]_vars
----------------------------------------------------------------------------
TypeOK ==
    /\ made \subseteq Dir
    /\ cand \in [Dir -> [Candidate -> CandidateDir]]
    /\ result \in [Dir -> Result \cup {NoResult}]
    /\ DOMAIN job = Batch
    /\ \A b \in Batch : job[b] \in Job
    /\ runs \in Nat
    /\ bought \in [Candidate -> Nat]
    /\ starts \in 0..MaxStarts
    /\ removals \in 0..MaxRemovals
----------------------------------------------------------------------------
(* Properties.                                                             *)

Delivered(d) == d \in made /\ result[d] # NoResult

\* A delivered batch is never modified, by a later batch that resumes from it or by one
\* given the same destination, whatever either of them goes through
\* ("the source batch is never modified").
SourceBatchIsImmutable ==
    [][\A d \in Dir : Delivered(d) /\ d \in made' =>
          cand'[d] = cand[d] /\ result'[d] = result[d]]_vars

\* What a delivered result records of a run of its own is what stands in its own
\* candidate directory: no other batch has put a run in its place.
ResultDescribesItsDirectory ==
    \A d \in Dir : Delivered(d) =>
      \A c \in Candidate :
        LET entry == result[d].cand[c]
        IN  entry.origin = d =>
              /\ entry.run = cand[d][c].run
              /\ entry.status = cand[d][c].status
              /\ entry.paths = cand[d][c].paths

\* A success in the resumed batch comes back as the same success, of the same run and
\* with its files still standing, and costs nothing; so it does through any number of
\* generations, and whatever directories were removed and made anew on the way.
SuccessIsCarriedOver ==
    \A b \in Batch, c \in Candidate :
      /\ job[b].prior # NoResult
      /\ job[b].prior.cand[c].status = "SUCCEEDED"
      /\ job[b].summaries[c] # NoSummary
      => LET old == job[b].prior.cand[c]
             new == job[b].summaries[c]
         IN  /\ new.status = "SUCCEEDED"
             /\ new.run = old.run /\ new.origin = old.origin /\ new.paths = AllPaths
             /\ new.executed = 0 /\ new.replayed = 0
             /\ cand[old.origin][c].run = old.run

\* The operations the delivered results of all generations report as executed for a
\* candidate were sent, each for one of them: no usage is booked twice.
UsageIsBookedOnce ==
    \A c \in Candidate :
      MapThenSumSet(LAMBDA d : result[d].cand[c].executed, {d \in Dir : Delivered(d)})
        <= bought[c]

\* As long as the operator keeps the source batches, the one thing that keeps a delivered
\* batch from being resumed is a candidate that failed while it delivered its files.
OnlyPartialDeliveryBlocksAResume ==
    removals = 0 =>
      \A d \in Dir : Delivered(d) =>
        (Accepts(d, result[d].input) <=>
           \A c \in Candidate : result[d].cand[c].status = "FAILED" =>
             result[d].cand[c].paths \subseteq {"run_manifest"})

\* From no delivered batch, whether a resume would accept it or not, does the walk through
\* generations that agree on a success come back to one it has met before it is at the batch
\* that ran it: whatever directories are removed and made anew, and whichever batch each new
\* one resumes, the guard against cycles never fires.
LineageNeverCycles ==
    \A d \in Dir : Delivered(d) =>
      \A c \in Candidate : result[d].cand[c].status = "SUCCEEDED" =>
        LET target == result[d].cand[c]
        IN  \A n \in 0..Cardinality(Dir) :
              (\A m \in 0..(n - 1) :
                 /\ Agrees(Generation(d)[m], c, target, result[d].input)
                 /\ Generation(d)[m] # target.origin)
              => ~Seen(d, n)
----------------------------------------------------------------------------
\* delivery.py, _recovery_guidance, for a failed candidate that left a manifest:
\* "Checkpoint resume available; use batch --resume-from with this immutable source batch."
ResumeAvailableMeansResumable ==
    \A d \in Dir : Delivered(d) /\ removals = 0 =>
      \A c \in Candidate :
        result[d].cand[c].status = "FAILED" /\ "run_manifest" \in result[d].cand[c].paths
          => Resumable(d, c)
=============================================================================
