------------------------ MODULE BatchSelectionProofs ------------------------
(***************************************************************************)
(* Proofs about BatchSelection for every number of processes, directories, *)
(* candidates and plan operations.                                         *)
(***************************************************************************)
EXTENDS BatchSelection, FiniteSetTheorems, TLAPS

\* The batch has made its directory and has not delivered into it yet.
Writes(b) == job[b].pc \in {"candidates", "deliver"}

\* A batch at work has a destination, which it has made, which holds no result, and
\* which is the destination of no other batch at work.
OwnsDestination(b) ==
    Writes(b) =>
      /\ job[b].out \in made
      /\ result[job[b].out] = NoResult
      /\ \A a \in Batch : a # b /\ Writes(a) => job[a].out # job[b].out

\* What the preflight has found for a prior success still stands.
SourceStands(b, c) ==
    PriorSuccess(b, c) =>
      LET old == job[b].prior.cand[c]
          d   == job[b].from[c]
      IN  /\ d \in Dir
          /\ d = old.origin
          /\ result[d] # NoResult
          /\ old.paths = AllPaths
          /\ cand[d][c].status = "SUCCEEDED"
          /\ cand[d][c].run = old.run

\* What the batch has collected for c describes its own directory, or is the prior
\* success unchanged.
Collected(b, c) ==
    LET new == job[b].summaries[c]
    IN  new # NoSummary =>
          /\ new.origin = job[b].out =>
               /\ new.run = cand[job[b].out][c].run
               /\ new.status = cand[job[b].out][c].status
               /\ new.paths = cand[job[b].out][c].paths
          /\ PriorSuccess(b, c) =>
               /\ new.status = "SUCCEEDED"
               /\ new.run = job[b].prior.cand[c].run
               /\ new.origin = job[b].prior.cand[c].origin
               /\ new.paths = AllPaths
               /\ new.executed = 0 /\ new.replayed = 0

\* An invocation's view of its request, its source and its progress.
JobView(b) ==
    /\ OwnsDestination(b)
    /\ job[b].pc # "idle" => job[b].out \in Dir
    /\ job[b].pc = "preflight" => job[b].src \in Dir
    /\ job[b].pc # "idle" => job[b].input \in Input
    /\ ~Writes(b) => job[b].at = 1 /\ \A c \in Candidate : job[b].summaries[c] = NoSummary
    /\ job[b].pc \in {"idle", "fresh", "preflight"} => job[b].prior = NoResult
    /\ \A i \in 1..Len(Order) :
         i < job[b].at \/ job[b].pc = "deliver" => job[b].summaries[Order[i]] # NoSummary
    /\ \A c \in Candidate : SourceStands(b, c) /\ Collected(b, c)

\* A result stands in a directory that exists and describes it, and a success has all
\* its files.
DirView(d) ==
    /\ result[d] # NoResult => d \in made
    /\ \A c \in Candidate : cand[d][c].status = "SUCCEEDED" => cand[d][c].paths = AllPaths
    /\ result[d] # NoResult => \A c \in Candidate :
         LET entry == result[d].cand[c]
         IN  entry.origin = d =>
               /\ entry.run = cand[d][c].run
               /\ entry.status = cand[d][c].status
               /\ entry.paths = cand[d][c].paths

IInv ==
    /\ TypeOK
    /\ \A b \in Batch : JobView(b)
    /\ \A d \in Dir : DirView(d)
----------------------------------------------------------------------------
(* Types.                                                                  *)

\* The candidates are the members of a finite sequence.
LEMMA OrderFacts ==
    /\ Len(Order) \in Nat
    /\ \A i \in 1..Len(Order) : Order[i] \in Candidate
BY OrderAssumption DEF Candidate

\* The larger of two integers.
LEMMA MaxFacts ==
    ASSUME NEW x \in Int, NEW y \in Int
    PROVE  Max({x, y}) \in Int /\ Max({x, y}) >= x /\ Max({x, y}) >= y
<1>1. \E z \in {x, y} : \A w \in {x, y} : z >= w
  <2>1. CASE x >= y BY <2>1
  <2>2. CASE ~ (x >= y) BY <2>2
  <2> QED BY <2>1, <2>2
<1> QED BY <1>1 DEF Max

\* The smaller of two natural numbers.
LEMMA MinFacts ==
    ASSUME NEW x \in Nat, NEW y \in Nat
    PROVE  Min({x, y}) \in Nat
<1>1. \E z \in {x, y} : \A w \in {x, y} : z =< w
  <2>1. CASE x =< y BY <2>1
  <2>2. CASE ~ (x =< y) BY <2>2
  <2> QED BY <2>1, <2>2
<1> QED BY <1>1 DEF Min

\* A run replays at most its plan.
LEMMA ReplayableType ==
    ASSUME TypeOK, NEW b \in Batch, NEW c \in Candidate
    PROVE  Replayable(b, c) \in 0..NumOps
BY NumOpsAssumption DEF TypeOK, Job, CandidateDir, Replayable

\* What a failed or a successful run may name.
LEMMA PathsFacts ==
    /\ {} \in FailedPaths /\ AllPaths \in FailedPaths
    /\ \A p \in FailedPaths : p \subseteq AllPaths
BY DEF FailedPaths, AllPaths

\* A process without an invocation.
LEMMA IdleType == Idle \in Job
BY OrderFacts DEF Idle, Job

\* A candidate's summary enters what the batch has collected.
LEMMA CollectType ==
    ASSUME TypeOK, NEW b \in Batch, NEW c \in Candidate, NEW s \in Summary,
           job[b].at <= Len(Order), Collect(b, c, s)
    PROVE  \A a \in Batch : job'[a] \in Job
<1> DEFINE new == [job[b] EXCEPT !.summaries = [@ EXCEPT ![c] = s], !.at = @ + 1]
<1>1. job'[b] = new /\ \A a \in Batch \ {b} : job'[a] = job[a]
  BY DEF TypeOK, Collect, Job
<1>2. job[b] \in Job /\ [job[b].summaries EXCEPT ![c] = s] \in [Candidate -> Summary \cup {NoSummary}]
  BY DEF TypeOK, Job
<1>3. job[b].at \in 1..(Len(Order) + 1) /\ job[b].at + 1 \in 1..(Len(Order) + 1)
  BY <1>2, OrderFacts DEF Job
<1>4. new \in Job
  BY <1>2, <1>3 DEF Job
<1> QED BY <1>1, <1>4 DEF TypeOK

\* Operations beyond what is replayed.
LEMMA ExecutedType ==
    ASSUME TypeOK, NEW b \in Batch, NEW c \in Candidate, NEW n \in 0..NumOps
    PROVE  Max({0, n - Replayable(b, c)}) \in Nat
<1>1. Replayable(b, c) \in 0..NumOps
  BY ReplayableType
<1> DEFINE sent == n - Replayable(b, c)
<1>2. sent \in Int
  BY <1>1, NumOpsAssumption
<1>3. Max({0, sent}) \in Int /\ Max({0, sent}) >= 0
  <2> HIDE DEF sent
  <2>1. \A x \in Int : Max({0, x}) \in Int /\ Max({0, x}) >= 0
    BY MaxFacts
  <2> QED BY <1>2, <2>1
<1>4. \A x \in Int : x >= 0 => x \in Nat
  OBVIOUS
<1> QED BY <1>3, <1>4

\* What Execute collects.
LEMMA ExecuteSummary ==
    ASSUME TypeOK, NEW b \in Batch, NEW c \in Candidate, NEW to,
           NEW left \in CandidateDir, NEW executed \in Nat,
           job[b].out \in Dir,
           Execute(b, c, to, left, executed)
    PROVE  \E new \in Summary :
             /\ Collect(b, c, new)
             /\ new.origin = IF left.status # "open" THEN job[b].out ELSE NoDir
             /\ left.status # "open" => new.run = left.run
             /\ new.status = IF left.status = "SUCCEEDED" THEN "SUCCEEDED" ELSE "FAILED"
             /\ new.paths = left.paths
             /\ new.executed = IF left.status # "open" THEN executed ELSE 0
<1>1. Replayable(b, c) \in 0..NumOps
  BY ReplayableType
<1>2. Min({left.held, Replayable(b, c)}) \in Nat
  BY <1>1, MinFacts, NumOpsAssumption DEF CandidateDir
<1>3. left.paths \in FailedPaths /\ left.run \in Nat
  BY DEF CandidateDir
<1> DEFINE owns == left.status # "open"
           new == [status |-> IF left.status = "SUCCEEDED" THEN "SUCCEEDED" ELSE "FAILED",
                   source |-> IF job[b].from[c] = NoDir THEN "NEW_EXECUTION"
                                                        ELSE "CHECKPOINT_RESUME",
                   origin |-> IF owns THEN job[b].out ELSE NoDir,
                   run |-> IF owns THEN left.run ELSE 0,
                   paths |-> left.paths,
                   executed |-> IF owns THEN executed ELSE 0,
                   replayed |-> IF owns THEN Min({left.held, Replayable(b, c)}) ELSE 0]
<1>4. new \in Summary
  BY <1>2, <1>3 DEF Summary
<1>5. Collect(b, c, new)
  BY DEF Execute
<1>6. /\ new.origin = IF left.status # "open" THEN job[b].out ELSE NoDir
      /\ left.status # "open" => new.run = left.run
      /\ new.status = IF left.status = "SUCCEEDED" THEN "SUCCEEDED" ELSE "FAILED"
      /\ new.paths = left.paths
      /\ new.executed = IF left.status # "open" THEN executed ELSE 0
  OBVIOUS
<1> HIDE DEF new
<1> QED BY <1>4, <1>5, <1>6

\* A candidate's run preserves types.
LEMMA ExecuteType ==
    ASSUME TypeOK, NEW b \in Batch, NEW c \in Candidate, NEW to \in 0..NumOps,
           NEW left \in CandidateDir, NEW executed \in Nat, job[b].at <= Len(Order),
           job[b].out \in Dir,
           Execute(b, c, to, left, executed)
    PROVE  TypeOK'
<1>1. Max({0, to - Replayable(b, c)}) \in Nat
  BY ExecutedType
<1>2. PICK new \in Summary : Collect(b, c, new)
  BY ExecuteSummary
<1>3. \A a \in Batch : job'[a] \in Job
  BY <1>2, CollectType
<1>4. cand' \in [Dir -> [Candidate -> CandidateDir]]
  BY DEF Execute, RunDirectory, TypeOK
<1>5. bought' \in [Candidate -> Nat]
  BY <1>1 DEF Execute, TypeOK
<1>6. runs' \in Nat /\ DOMAIN job' = Batch /\ UNCHANGED <<made, result, starts, removals>>
  BY <1>2 DEF Execute, TypeOK, Collect
<1> QED BY <1>3, <1>4, <1>5, <1>6 DEF TypeOK

\* An invocation's state is replaced by another one.
LEMMA OneJob ==
    ASSUME TypeOK, NEW b \in Batch, NEW j \in Job, job' = [job EXCEPT ![b] = j]
    PROVE  /\ DOMAIN job' = Batch
           /\ job'[b] = j
           /\ \A a \in Batch \ {b} : job'[a] = job[a]
           /\ \A a \in Batch : job'[a] \in Job
BY DEF TypeOK

\* An invocation moves on.
LEMMA MoveJob ==
    ASSUME TypeOK, NEW b \in Batch,
           NEW to \in {"idle", "fresh", "preflight", "mkdir", "candidates", "deliver"},
           Goto(b, to)
    PROVE  /\ DOMAIN job' = Batch
           /\ job'[b] = [job[b] EXCEPT !.pc = to]
           /\ \A a \in Batch \ {b} : job'[a] = job[a]
           /\ \A a \in Batch : job'[a] \in Job
<1> DEFINE new == [job[b] EXCEPT !.pc = to]
<1>1. new \in Job
  <2>1. job[b] \in Job
    BY DEF TypeOK
  <2> QED BY <2>1 DEF Job
<1>2. job' = [job EXCEPT ![b] = new]
  BY DEF Goto
<1> HIDE DEF new
<1>3. /\ DOMAIN job' = Batch
      /\ job'[b] = new
      /\ \A a \in Batch \ {b} : job'[a] = job[a]
      /\ \A a \in Batch : job'[a] \in Job
  BY <1>1, <1>2, OneJob
<1> QED BY <1>3 DEF new

\* An invocation ends.
LEMMA ExitJob ==
    ASSUME TypeOK, NEW b \in Batch, Exit(b)
    PROVE  /\ DOMAIN job' = Batch
           /\ job'[b] = Idle
           /\ \A a \in Batch \ {b} : job'[a] = job[a]
           /\ \A a \in Batch : job'[a] \in Job
BY IdleType, OneJob DEF Exit

\* The summary of a reused success.
LEMMA ReuseType ==
    ASSUME TypeOK, NEW b \in Batch, NEW c \in Candidate, SourceStands(b, c),
           PriorSuccess(b, c)
    PROVE  ReuseSummary(b, c, 0) \in Summary
<1>1. job[b].from[c] \in Dir /\ cand[job[b].from[c]][c].status = "SUCCEEDED"
  BY DEF SourceStands
<1>2. cand[job[b].from[c]][c] \in CandidateDir
  BY <1>1 DEF TypeOK
<1> QED BY <1>1, <1>2 DEF ReuseSummary, Summary, CandidateDir

\* Reusing, running or resuming a candidate preserves types.
LEMMA CandidateStepType ==
    ASSUME IInv, NEW b \in Batch, NextCandidate(b)
    PROVE  TypeOK'
<1>1. TypeOK /\ JobView(b) /\ job[b].at <= Len(Order) /\ job[b].out \in Dir
  BY DEF IInv, NextCandidate, JobView
<1> DEFINE c == Order[job[b].at]
<1>2. c \in Candidate
  BY <1>1, OrderFacts DEF TypeOK, Job
<1>3. /\ 0 \in Nat /\ 0 \in 0..NumOps /\ NumOps \in 0..NumOps
      /\ runs + 1 \in Nat
      /\ NumOps - Replayable(b, c) \in Nat
  BY <1>1, <1>2, ReplayableType, NumOpsAssumption DEF TypeOK
<1>4. CASE Reuse(b, c)
  <2>1. ReuseSummary(b, c, 0) \in Summary
    BY <1>1, <1>2, <1>4, ReuseType DEF JobView, Reuse
  <2>2. Collect(b, c, ReuseSummary(b, c, 0)) /\ UNCHANGED <<cand, runs, bought>>
    BY <1>4 DEF Reuse
  <2>3. \A a \in Batch : job'[a] \in Job
    BY <1>1, <1>2, <2>1, <2>2, CollectType
  <2> QED BY <1>1, <2>2, <2>3 DEF TypeOK, Collect
<1>5. CASE CandidateSucceeds(b, c)
  <2> DEFINE left == [status |-> "SUCCEEDED", run |-> runs + 1, held |-> NumOps,
                      partial |-> FALSE, paths |-> AllPaths]
  <2>1. left \in CandidateDir
    BY <1>3, PathsFacts DEF CandidateDir
  <2>2. Execute(b, c, NumOps, left, NumOps - Replayable(b, c))
    BY <1>5 DEF CandidateSucceeds
  <2> HIDE DEF left, c
  <2> QED BY <1>1, <1>2, <1>3, <2>1, <2>2, ExecuteType
<1>6. ASSUME NEW held \in 0..NumOps, NEW to \in 0..NumOps, NEW partial \in BOOLEAN,
             NEW paths \in FailedPaths, CandidateFails(b, c, held, to, partial, paths)
      PROVE  TypeOK'
  <2> DEFINE left == [status |-> "FAILED", run |-> runs + 1, held |-> held,
                      partial |-> partial, paths |-> paths]
  <2>1. left \in CandidateDir
    BY <1>3 DEF CandidateDir
  <2>2. PICK n \in {held, to} : Execute(b, c, to, left, Max({0, n - Replayable(b, c)}))
    BY <1>6 DEF CandidateFails
  <2>3. n \in 0..NumOps
    OBVIOUS
  <2>4. Max({0, n - Replayable(b, c)}) \in Nat
    BY <1>1, <1>2, <2>3, ExecutedType
  <2> HIDE DEF left, c
  <2> QED BY <1>1, <1>2, <2>1, <2>2, <2>4, ExecuteType
<1>7. ASSUME NEW to \in 0..NumOps, CandidateRaises(b, c, to)
      PROVE  TypeOK'
  <2> DEFINE left == [NoCandidateDir EXCEPT !.status = "open"]
  <2>1. left \in CandidateDir
    BY <1>3, PathsFacts DEF CandidateDir, NoCandidateDir
  <2>2. Execute(b, c, to, left, 0)
    BY <1>7 DEF CandidateRaises
  <2> HIDE DEF left, c
  <2> QED BY <1>1, <1>2, <1>3, <2>1, <2>2, ExecuteType
<1> QED BY <1>4, <1>5, <1>6, <1>7 DEF NextCandidate

\* What a batch that has seen every candidate delivers.
LEMMA ResultType ==
    ASSUME IInv, NEW b \in Batch, job[b].pc = "deliver"
    PROVE  /\ job[b].out \in Dir
           /\ job[b].summaries \in [Candidate -> Summary]
           /\ [input |-> job[b].input, parent |-> job[b].src, cand |-> job[b].summaries]
                \in Result
<1>1. job[b] \in Job /\ JobView(b)
  BY DEF IInv, TypeOK
<1>2. job[b].out \in Dir /\ job[b].input \in Input
  BY <1>1 DEF JobView
<1>3. \A c \in Candidate : job[b].summaries[c] # NoSummary
  BY <1>1 DEF JobView, Candidate
<1>4. job[b].summaries \in [Candidate -> Summary]
  BY <1>1, <1>3 DEF Job
<1> QED BY <1>1, <1>2, <1>4 DEF Result, Job

\* Every step preserves types.
LEMMA TypeStep == IInv /\ [Next]_vars => TypeOK'
<1> SUFFICES ASSUME IInv, [Next]_vars PROVE TypeOK'
  OBVIOUS
<1>0. TypeOK
  BY DEF IInv
<1>1. ASSUME NEW b \in Batch, NEW d \in Dir, NEW s \in Dir \cup {NoDir}, NEW in \in Input,
             Start(b, d, s, in)
      PROVE  TypeOK'
  <2> DEFINE j == [Idle EXCEPT !.pc = "fresh", !.out = d, !.src = s, !.input = in]
  <2>1. j \in Job
    BY IdleType DEF Job
  <2>2. job' = [job EXCEPT ![b] = j]
    BY <1>1 DEF Start
  <2>3. DOMAIN job' = Batch /\ \A a \in Batch : job'[a] \in Job
    <3> HIDE DEF j
    <3> QED BY <1>0, <2>1, <2>2, OneJob
  <2> QED BY <1>0, <1>1, <2>3, BoundAssumption DEF Start, TypeOK, disk
<1>2. ASSUME NEW b \in Batch, AssertFreshDestination(b) PROVE TypeOK'
  <2>1. DOMAIN job' = Batch /\ \A a \in Batch : job'[a] \in Job
    BY <1>0, <1>2, ExitJob, MoveJob DEF AssertFreshDestination
  <2> QED BY <1>0, <1>2, <2>1 DEF AssertFreshDestination, TypeOK, disk
<1>3. ASSUME NEW b \in Batch, LoadResumeBatch(b) PROVE TypeOK'
  <2>1. job[b].src \in Dir
    BY <1>3 DEF IInv, JobView, LoadResumeBatch
  <2>2. CASE Accepts(job[b].src, job[b].input)
    <3> DEFINE from == [c \in Candidate |-> ResumeSource(job[b].src, c)]
               j == [job[b] EXCEPT !.pc = "mkdir", !.prior = result[job[b].src],
                                   !.from = from]
    <3>1. result[job[b].src] \in Result
      BY <1>0, <2>1, <2>2 DEF TypeOK, Accepts
    <3>2. from \in [Candidate -> Dir \cup {NoDir}]
      BY <2>1, <3>1 DEF ResumeSource, Result, Summary
    <3>3. j \in Job
      <4> HIDE DEF from
      <4>1. job[b] \in Job
        BY <1>0 DEF TypeOK
      <4> QED BY <3>1, <3>2, <4>1 DEF Job
    <3>4. job' = [job EXCEPT ![b] = j]
      BY <1>3, <2>2 DEF LoadResumeBatch
    <3>5. DOMAIN job' = Batch /\ \A a \in Batch : job'[a] \in Job
      <4> HIDE DEF j
      <4> QED BY <1>0, <3>3, <3>4, OneJob
    <3> QED BY <1>0, <1>3, <3>5 DEF LoadResumeBatch, TypeOK, disk
  <2>3. CASE ~Accepts(job[b].src, job[b].input)
    <3>1. DOMAIN job' = Batch /\ \A a \in Batch : job'[a] \in Job
      BY <1>0, <1>3, <2>3, ExitJob DEF LoadResumeBatch
    <3> QED BY <1>0, <1>3, <3>1 DEF LoadResumeBatch, TypeOK, disk
  <2> QED BY <2>2, <2>3
<1>4. ASSUME NEW b \in Batch, MakeDirectory(b) PROVE TypeOK'
  <2>1. DOMAIN job' = Batch /\ \A a \in Batch : job'[a] \in Job
    BY <1>0, <1>4, ExitJob, MoveJob DEF MakeDirectory
  <2>2. job[b].out \in Dir
    BY <1>4 DEF IInv, JobView, MakeDirectory
  <2> QED BY <1>0, <1>4, <2>1, <2>2 DEF MakeDirectory, TypeOK
<1>5. ASSUME NEW b \in Batch, NextCandidate(b) PROVE TypeOK'
  BY <1>5, CandidateStepType
<1>6. ASSUME NEW b \in Batch, AllCollected(b) PROVE TypeOK'
  <2>1. DOMAIN job' = Batch /\ \A a \in Batch : job'[a] \in Job
    BY <1>0, <1>6, MoveJob DEF AllCollected
  <2> QED BY <1>0, <1>6, <2>1 DEF AllCollected, TypeOK, disk
<1>7. ASSUME NEW b \in Batch, Deliver(b) PROVE TypeOK'
  <2>1. DOMAIN job' = Batch /\ \A a \in Batch : job'[a] \in Job
    BY <1>0, <1>7, ExitJob DEF Deliver
  <2>2. result' \in [Dir -> Result \cup {NoResult}]
    BY <1>0, <1>7, ResultType DEF Deliver, TypeOK
  <2> QED BY <1>0, <1>7, <2>1, <2>2 DEF Deliver, TypeOK
<1>8. ASSUME NEW b \in Batch, Crash(b) PROVE TypeOK'
  <2>1. DOMAIN job' = Batch /\ \A a \in Batch : job'[a] \in Job
    BY <1>0, <1>8, ExitJob DEF Crash
  <2> QED BY <1>0, <1>8, <2>1 DEF Crash, TypeOK, disk
<1>9. ASSUME NEW d \in Dir, Remove(d) PROVE TypeOK'
  <2>1. [c \in Candidate |-> NoCandidateDir] \in [Candidate -> CandidateDir]
    BY PathsFacts, NumOpsAssumption DEF NoCandidateDir, CandidateDir
  <2>2. DOMAIN job' = Batch /\ \A a \in Batch : job'[a] \in Job
    BY <1>0, <1>9 DEF Remove, TypeOK
  <2>3. cand' \in [Dir -> [Candidate -> CandidateDir]]
    BY <1>0, <1>9, <2>1 DEF Remove, TypeOK
  <2>4. removals' \in 0..MaxRemovals
    BY <1>0, <1>9, BoundAssumption DEF Remove, TypeOK
  <2> QED BY <1>0, <1>9, <2>2, <2>3, <2>4 DEF Remove, TypeOK
<1>10. CASE UNCHANGED vars
  BY <1>0, <1>10 DEF TypeOK, vars, disk
<1> QED BY <1>1, <1>2, <1>3, <1>4, <1>5, <1>6, <1>7, <1>8, <1>9, <1>10 DEF Next, Quiet
----------------------------------------------------------------------------
(* The invariant.                                                          *)

\* Nothing that a batch other than b reads or writes is touched.
Spared(b) ==
    /\ \A a \in Batch \ {b} : job'[a] = job[a]
    /\ made \subseteq made'
    /\ \A d \in Dir : result[d] # NoResult => result'[d] = result[d] /\ cand'[d] = cand[d]
    /\ \A a \in Batch \ {b} : Writes(a) =>
         /\ result'[job[a].out] = result[job[a].out]
         /\ cand'[job[a].out] = cand[job[a].out]
         /\ Writes(b)' => job'[b].out # job[a].out

\* The other invocations keep their view of the world.
LEMMA OthersStay ==
    ASSUME IInv, NEW b \in Batch, Spared(b), NEW a \in Batch \ {b}
    PROVE  JobView(a)'
<1>0. JobView(a) /\ job'[a] = job[a] /\ job[a] \in Job
  BY DEF IInv, TypeOK, Spared
<1>1. OwnsDestination(a)'
  BY <1>0 DEF JobView, OwnsDestination, Writes, Spared
<1>2. ASSUME NEW c \in Candidate PROVE SourceStands(a, c)' /\ Collected(a, c)'
  <2>0. SourceStands(a, c) /\ Collected(a, c)
    BY <1>0 DEF JobView
  <2>1. SourceStands(a, c)'
    BY <1>0, <2>0 DEF SourceStands, PriorSuccess, Spared
  <2>2. job[a].summaries[c] # NoSummary => Writes(a)
    BY <1>0 DEF JobView
  <2>3. Collected(a, c)'
    BY <1>0, <2>0, <2>2 DEF Collected, PriorSuccess, Spared
  <2> QED BY <2>1, <2>3
<1> QED BY <1>0, <1>1, <1>2 DEF JobView, Writes

\* A step of b that leaves the directories alone.
LEMMA JobStep ==
    ASSUME IInv, TypeOK', NEW b \in Batch, \A a \in Batch \ {b} : job'[a] = job[a],
           UNCHANGED disk, JobView(b)',
           Writes(b)' => Writes(b) /\ job'[b].out = job[b].out
    PROVE  IInv'
<1>1. Spared(b)
  BY DEF Spared, disk, IInv, JobView, OwnsDestination
<1>2. \A a \in Batch : JobView(a)'
  BY <1>1, OthersStay
<1>3. \A d \in Dir : DirView(d)'
  BY DEF IInv, DirView, disk
<1> QED BY <1>2, <1>3 DEF IInv

\* A process without an invocation demands nothing.
LEMMA IdleView ==
    ASSUME NEW b \in Batch, job'[b] = Idle
    PROVE  JobView(b)' /\ ~Writes(b)'
<1>1. \A c \in Candidate : SourceStands(b, c)' /\ Collected(b, c)'
  BY DEF Idle, SourceStands, PriorSuccess, Collected
<1> QED BY <1>1, OrderFacts DEF JobView, Writes, OwnsDestination, Idle

\* An invocation that ends, and changes nothing else.
LEMMA ExitStep ==
    ASSUME IInv, TypeOK', NEW b \in Batch, Exit(b), UNCHANGED disk
    PROVE  IInv'
BY ExitJob, IdleView, JobStep DEF IInv

\* The preflight has found every prior success standing in the batch that owns it.
LEMMA PreflightFinds ==
    ASSUME TypeOK, NEW s \in Dir, NEW in \in Input, NEW c \in Candidate,
           Accepts(s, in), result[s].cand[c].status = "SUCCEEDED"
    PROVE  LET old == result[s].cand[c]
           IN  /\ old.origin \in Dir
               /\ result[old.origin] # NoResult
               /\ old.paths = AllPaths
               /\ cand[old.origin][c].status = "SUCCEEDED"
               /\ cand[old.origin][c].run = old.run
<1> DEFINE old == result[s].cand[c]
<1>1. Reusable(s, c, in)
  BY DEF Accepts
<1>2. PICK n \in 0..Cardinality(Dir) :
        /\ Generation(s)[n] = old.origin
        /\ \A m \in 0..n : Agrees(Generation(s)[m], c, old, in)
  BY <1>1 DEF Reusable, ReachesOrigin
<1>3. n \in 0..n
  BY DirAssumption, FS_CardinalityType
<1>4. Agrees(old.origin, c, old, in)
  BY <1>2, <1>3
<1>5. old.origin \in Dir \cup {NoDir}
  BY DEF TypeOK, Accepts, Result, Summary
<1> QED BY <1>1, <1>4, <1>5 DEF Agrees, Reusable

\* A candidate's run touches its own directory only.
LEMMA ExecuteStep ==
    ASSUME IInv, TypeOK', NEW b \in Batch, job[b].pc = "candidates",
           job[b].at <= Len(Order), ~PriorSuccess(b, Order[job[b].at]),
           NEW to, NEW executed \in Nat, NEW left \in CandidateDir,
           left.status = "SUCCEEDED" => left.paths = AllPaths,
           left.status # "none",
           Execute(b, Order[job[b].at], to, left, executed)
    PROVE  IInv'
<1>1. TypeOK /\ JobView(b) /\ Writes(b) /\ OwnsDestination(b)
  BY DEF IInv, JobView, Writes
<1>0. PICK c \in Candidate : c = Order[job[b].at]
  BY <1>1, OrderFacts DEF TypeOK, Job
<1> DEFINE d == job[b].out
<1>2. d \in Dir /\ d \in made /\ result[d] = NoResult
  BY <1>1 DEF JobView, OwnsDestination
<1>3. /\ cand'[d][c] = left
      /\ \A x \in Candidate \ {c} : cand'[d][x] = cand[d][x]
      /\ \A e \in Dir \ {d} : cand'[e] = cand[e]
      /\ made' = made /\ result' = result
  <2>1. cand \in [Dir -> [Candidate -> CandidateDir]]
    BY <1>1 DEF TypeOK
  <2>2. cand' = [cand EXCEPT ![d][c] = left] /\ UNCHANGED <<made, result>>
    BY <1>0 DEF Execute, RunDirectory, Collect
  <2> QED BY <1>2, <2>1, <2>2
<1>4. PICK new \in Summary :
        /\ Collect(b, c, new)
        /\ new.origin = IF left.status # "open" THEN d ELSE NoDir
        /\ left.status # "open" => new.run = left.run
        /\ new.status = IF left.status = "SUCCEEDED" THEN "SUCCEEDED" ELSE "FAILED"
        /\ new.paths = left.paths
  BY <1>0, <1>1, <1>2, ExecuteSummary
<1>5. /\ \A a \in Batch \ {b} : job'[a] = job[a]
      /\ job'[b] = [job[b] EXCEPT !.summaries[c] = new, !.at = @ + 1]
  BY <1>1, <1>4 DEF Collect, TypeOK
<1>6. /\ job'[b].pc = "candidates" /\ job'[b].out = d /\ job'[b].src = job[b].src
      /\ job'[b].input = job[b].input /\ job'[b].prior = job[b].prior
      /\ job'[b].from = job[b].from /\ job'[b].at = job[b].at + 1
      /\ job'[b].summaries[c] = new
      /\ \A x \in Candidate \ {c} : job'[b].summaries[x] = job[b].summaries[x]
  BY <1>1, <1>2, <1>5 DEF TypeOK, Job
<1>7. Spared(b)
  <2>1. ASSUME NEW a \in Batch \ {b}, Writes(a)
        PROVE  job[a].out \in Dir /\ job[a].out # d
    BY <1>1, <2>1 DEF IInv, JobView, OwnsDestination, TypeOK
  <2>2. \A e \in Dir : result[e] # NoResult => result'[e] = result[e] /\ cand'[e] = cand[e]
    BY <1>2, <1>3
  <2> QED BY <1>3, <1>5, <1>6, <2>1, <2>2 DEF Spared
<1>8. \A a \in Batch \ {b} : JobView(a)'
  BY <1>7, OthersStay
<1>9. OwnsDestination(b)'
  <2>1. \A a \in Batch \ {b} : Writes(a)' => job'[a].out # d
    BY <1>1, <1>5 DEF OwnsDestination, Writes
  <2> QED BY <1>2, <1>3, <1>6, <2>1 DEF OwnsDestination
<1>10. ASSUME NEW x \in Candidate PROVE SourceStands(b, x)'
  <2>1. SourceStands(b, x)
    BY <1>1 DEF JobView
  <2>2. /\ job'[b].prior = job[b].prior /\ job'[b].from = job[b].from
        /\ result' = result
        /\ \A e \in Dir : result[e] # NoResult => cand'[e] = cand[e]
    BY <1>2, <1>3, <1>6
  <2> QED BY <2>1, <2>2 DEF SourceStands, PriorSuccess
<1>11. ASSUME NEW x \in Candidate PROVE Collected(b, x)'
  <2>1. Collected(b, x)
    BY <1>1 DEF JobView
  <2>2. CASE x = c
    <3>1. ~PriorSuccess(b, c)'
      BY <1>0, <1>6 DEF PriorSuccess
    <3>2. new.origin = d => left.status # "open"
      BY <1>2, <1>4, SentinelAssumption
    <3>3. left.status \in {"open", "FAILED", "SUCCEEDED"}
      BY DEF CandidateDir
    <3>4. new.origin = d => /\ new.run = cand'[d][c].run
                            /\ new.status = cand'[d][c].status
                            /\ new.paths = cand'[d][c].paths
      BY <1>3, <1>4, <3>2, <3>3
    <3> QED BY <1>6, <2>2, <3>1, <3>4 DEF Collected
  <2>3. CASE x # c
    <3>1. /\ job'[b].summaries[x] = job[b].summaries[x] /\ job'[b].out = d
          /\ job'[b].prior = job[b].prior /\ cand'[d][x] = cand[d][x]
      BY <1>3, <1>6, <2>3
    <3> QED BY <2>1, <3>1 DEF Collected, PriorSuccess
  <2> QED BY <2>2, <2>3
<1>12. new # NoSummary
  BY SentinelAssumption
<1>13. \A i \in 1..Len(Order) : i < job'[b].at => job'[b].summaries[Order[i]] # NoSummary
  <2> TAKE i \in 1..Len(Order)
  <2> HAVE i < job'[b].at
  <2>1. Order[i] \in Candidate /\ (i < job[b].at \/ i = job[b].at)
    BY <1>1, <1>6, OrderFacts DEF TypeOK, Job
  <2>2. CASE Order[i] = c
    BY <1>6, <1>12, <2>2
  <2>3. CASE Order[i] # c
    BY <1>0, <1>1, <1>6, <2>1, <2>3 DEF JobView
  <2> QED BY <2>2, <2>3
<1>14. JobView(b)'
  BY <1>1, <1>2, <1>6, <1>9, <1>10, <1>11, <1>13 DEF JobView, Writes
<1>15. ASSUME NEW e \in Dir PROVE DirView(e)'
  <2>1. DirView(e)
    BY DEF IInv
  <2> QED BY <1>2, <1>3, <2>1 DEF DirView
<1> QED BY <1>8, <1>14, <1>15 DEF IInv

\* The summary of a reused success is the prior one.
LEMMA ReuseStep ==
    ASSUME IInv, TypeOK', NEW b \in Batch, job[b].pc = "candidates",
           job[b].at <= Len(Order), Reuse(b, Order[job[b].at])
    PROVE  IInv'
<1>1. TypeOK /\ JobView(b) /\ Writes(b) /\ OwnsDestination(b)
  BY DEF IInv, JobView, Writes
<1>2. PICK c \in Candidate : c = Order[job[b].at]
  BY <1>1, OrderFacts DEF TypeOK, Job
<1>3. /\ PriorSuccess(b, c) /\ SourceStands(b, c)
      /\ UNCHANGED <<cand, made, result>>
  BY <1>1, <1>2 DEF Reuse, Collect, JobView
<1> DEFINE d == job[b].out
           from == job[b].from[c]
           old == job[b].prior.cand[c]
<1>4. /\ d \in Dir /\ result[d] = NoResult
      /\ from \in Dir /\ from = old.origin /\ from # d
      /\ old.paths = AllPaths
      /\ cand[from][c].status = "SUCCEEDED" /\ cand[from][c].run = old.run
      /\ cand[from][c].paths = AllPaths
  BY <1>1, <1>3 DEF JobView, OwnsDestination, SourceStands, IInv, DirView
<1>5. PICK new \in Summary :
        /\ Collect(b, c, new)
        /\ new.status = "SUCCEEDED" /\ new.run = old.run /\ new.origin = old.origin
        /\ new.paths = AllPaths /\ new.executed = 0 /\ new.replayed = 0
  <2>1. ReuseSummary(b, c, 0) \in Summary
    BY <1>1, <1>3, ReuseType
  <2>2. Collect(b, c, ReuseSummary(b, c, 0))
    BY <1>2 DEF Reuse
  <2> WITNESS ReuseSummary(b, c, 0) \in Summary
  <2> QED BY <1>4, <2>2 DEF ReuseSummary
<1>6. /\ \A a \in Batch \ {b} : job'[a] = job[a]
      /\ job'[b] = [job[b] EXCEPT !.summaries[c] = new, !.at = @ + 1]
  BY <1>1, <1>5 DEF Collect, TypeOK
<1>7. /\ job'[b].pc = "candidates" /\ job'[b].out = d /\ job'[b].src = job[b].src
      /\ job'[b].input = job[b].input /\ job'[b].prior = job[b].prior
      /\ job'[b].from = job[b].from /\ job'[b].at = job[b].at + 1
      /\ job'[b].summaries[c] = new
      /\ \A x \in Candidate \ {c} : job'[b].summaries[x] = job[b].summaries[x]
  BY <1>1, <1>6 DEF TypeOK, Job
<1>8. OwnsDestination(b)'
  BY <1>1, <1>3, <1>6, <1>7 DEF OwnsDestination, Writes
<1>9. ASSUME NEW x \in Candidate PROVE SourceStands(b, x)'
  <2>1. SourceStands(b, x)
    BY <1>1 DEF JobView
  <2> QED BY <1>3, <1>7, <2>1 DEF SourceStands, PriorSuccess
<1>10. ASSUME NEW x \in Candidate PROVE Collected(b, x)'
  <2>1. Collected(b, x)
    BY <1>1 DEF JobView
  <2>2. CASE x = c
    BY <1>4, <1>5, <1>7, <2>2 DEF Collected
  <2>3. CASE x # c
    BY <1>3, <1>7, <2>1, <2>3 DEF Collected, PriorSuccess
  <2> QED BY <2>2, <2>3
<1>11. \A i \in 1..Len(Order) : i < job'[b].at => job'[b].summaries[Order[i]] # NoSummary
  <2> TAKE i \in 1..Len(Order)
  <2> HAVE i < job'[b].at
  <2>1. Order[i] \in Candidate /\ (i < job[b].at \/ i = job[b].at)
    BY <1>1, <1>7, OrderFacts DEF TypeOK, Job
  <2>2. CASE Order[i] = c
    BY <1>5, <1>7, <2>2, SentinelAssumption
  <2>3. CASE Order[i] # c
    BY <1>1, <1>2, <1>7, <2>1, <2>3 DEF JobView
  <2> QED BY <2>2, <2>3
<1>12. JobView(b)'
  BY <1>1, <1>4, <1>7, <1>8, <1>9, <1>10, <1>11 DEF JobView, Writes
<1> QED BY <1>1, <1>3, <1>6, <1>7, <1>12, JobStep DEF disk, Writes

\* One candidate after another.
LEMMA CandidateStep ==
    ASSUME IInv, TypeOK', NEW b \in Batch, NextCandidate(b)
    PROVE  IInv'
<1>1. TypeOK /\ job[b].pc = "candidates" /\ job[b].at <= Len(Order)
  BY DEF NextCandidate, IInv
<1>2. PICK c \in Candidate : c = Order[job[b].at]
  BY <1>1, OrderFacts DEF TypeOK, Job
<1>3. /\ 0 \in Nat /\ 0 \in 0..NumOps /\ NumOps \in 0..NumOps
      /\ runs + 1 \in Nat
      /\ NumOps - Replayable(b, c) \in Nat
  BY <1>1, ReplayableType, NumOpsAssumption DEF TypeOK
<1>4. CASE Reuse(b, c)
  BY <1>1, <1>2, <1>4, ReuseStep
<1>5. CASE CandidateSucceeds(b, c)
  <2> DEFINE left == [status |-> "SUCCEEDED", run |-> runs + 1, held |-> NumOps,
                      partial |-> FALSE, paths |-> AllPaths]
  <2>1. left \in CandidateDir /\ left.status = "SUCCEEDED" /\ left.paths = AllPaths
    BY <1>3, PathsFacts DEF CandidateDir
  <2>2. Execute(b, c, NumOps, left, NumOps - Replayable(b, c)) /\ ~PriorSuccess(b, c)
    BY <1>5 DEF CandidateSucceeds
  <2> HIDE DEF left
  <2> QED BY <1>1, <1>2, <1>3, <2>1, <2>2, ExecuteStep
<1>6. ASSUME NEW held \in 0..NumOps, NEW to \in 0..NumOps, NEW partial \in BOOLEAN,
             NEW paths \in FailedPaths, CandidateFails(b, c, held, to, partial, paths)
      PROVE  IInv'
  <2> DEFINE left == [status |-> "FAILED", run |-> runs + 1, held |-> held,
                      partial |-> partial, paths |-> paths]
  <2>1. left \in CandidateDir /\ left.status = "FAILED"
    BY <1>3 DEF CandidateDir
  <2>2. PICK n \in {held, to} : Execute(b, c, to, left, Max({0, n - Replayable(b, c)}))
    BY <1>6 DEF CandidateFails
  <2>3. n \in 0..NumOps
    OBVIOUS
  <2>4. Max({0, n - Replayable(b, c)}) \in Nat
    BY <1>1, <2>3, ExecutedType
  <2>5. ~PriorSuccess(b, c)
    BY <1>6 DEF CandidateFails
  <2> HIDE DEF left
  <2> QED BY <1>1, <1>2, <2>1, <2>2, <2>4, <2>5, ExecuteStep
<1>7. ASSUME NEW to \in 0..NumOps, CandidateRaises(b, c, to)
      PROVE  IInv'
  <2> DEFINE left == [NoCandidateDir EXCEPT !.status = "open"]
  <2>1. left \in CandidateDir /\ left.status = "open"
    BY <1>3, PathsFacts DEF CandidateDir, NoCandidateDir
  <2>2. Execute(b, c, to, left, 0) /\ ~PriorSuccess(b, c)
    BY <1>7 DEF CandidateRaises
  <2> HIDE DEF left
  <2> QED BY <1>1, <1>2, <1>3, <2>1, <2>2, ExecuteStep
<1> QED BY <1>2, <1>4, <1>5, <1>6, <1>7 DEF NextCandidate

\* The source result is loaded, or the invocation ends.
LEMMA LoadStep ==
    ASSUME IInv, TypeOK', NEW b \in Batch, LoadResumeBatch(b)
    PROVE  IInv'
<1> DEFINE s == job[b].src
           from == [c \in Candidate |-> ResumeSource(s, c)]
<1>1. /\ TypeOK /\ JobView(b) /\ job[b].pc = "preflight" /\ UNCHANGED disk
      /\ s \in Dir /\ job[b].input \in Input
  BY DEF LoadResumeBatch, IInv, JobView
<1>2. CASE ~Accepts(s, job[b].input)
  BY <1>1, <1>2, ExitStep DEF LoadResumeBatch
<1>3. CASE Accepts(s, job[b].input)
  <2>1. job' = [job EXCEPT ![b].pc = "mkdir", ![b].prior = result[s], ![b].from = from]
    BY <1>3 DEF LoadResumeBatch
  <2> HIDE DEF from
  <2>2. /\ \A a \in Batch \ {b} : job'[a] = job[a]
        /\ job'[b].pc = "mkdir" /\ job'[b].out = job[b].out /\ job'[b].src = s
        /\ job'[b].input = job[b].input /\ job'[b].prior = result[s]
        /\ job'[b].from = from /\ job'[b].at = job[b].at
        /\ job'[b].summaries = job[b].summaries
    BY <1>1, <2>1 DEF TypeOK, Job
  <2>3. ASSUME NEW c \in Candidate PROVE SourceStands(b, c)'
    <3> SUFFICES ASSUME result[s].cand[c].status = "SUCCEEDED" PROVE SourceStands(b, c)'
      BY <2>2 DEF SourceStands, PriorSuccess
    <3>1. from[c] = result[s].cand[c].origin
      BY DEF from, ResumeSource
    <3>2. LET old == result[s].cand[c]
          IN  /\ old.origin \in Dir
              /\ result[old.origin] # NoResult
              /\ old.paths = AllPaths
              /\ cand[old.origin][c].status = "SUCCEEDED"
              /\ cand[old.origin][c].run = old.run
      BY <1>1, <1>3, PreflightFinds
    <3> QED BY <1>1, <2>2, <3>1, <3>2 DEF SourceStands, PriorSuccess, disk
  <2>4. ASSUME NEW c \in Candidate PROVE Collected(b, c)'
    BY <1>1, <2>2 DEF Collected, JobView, Writes
  <2>5. JobView(b)' /\ ~Writes(b)'
    BY <1>1, <2>2, <2>3, <2>4 DEF JobView, Writes, OwnsDestination
  <2> QED BY <1>1, <2>2, <2>5, JobStep
<1> QED BY <1>2, <1>3

\* A directory that has just been made is nobody else's.
LEMMA MakeStep ==
    ASSUME IInv, TypeOK', NEW b \in Batch, MakeDirectory(b)
    PROVE  IInv'
<1> DEFINE d == job[b].out
<1>1. /\ TypeOK /\ JobView(b) /\ job[b].pc = "mkdir" /\ UNCHANGED <<cand, result>>
      /\ d \in Dir
  BY DEF MakeDirectory, IInv, JobView
<1>2. CASE d \in made
  BY <1>1, <1>2, ExitStep DEF MakeDirectory, disk
<1>3. CASE d \notin made
  <2>1. Goto(b, "candidates") /\ made' = made \cup {d}
    BY <1>3 DEF MakeDirectory
  <2>2. /\ \A a \in Batch \ {b} : job'[a] = job[a]
        /\ job'[b] = [job[b] EXCEPT !.pc = "candidates"]
    BY <1>1, <2>1, MoveJob
  <2>3. /\ job'[b].pc = "candidates" /\ job'[b].out = d /\ job'[b].src = job[b].src
        /\ job'[b].input = job[b].input /\ job'[b].prior = job[b].prior
        /\ job'[b].from = job[b].from /\ job'[b].at = job[b].at
        /\ job'[b].summaries = job[b].summaries
    BY <1>1, <2>2 DEF TypeOK, Job
  <2>4. \A a \in Batch \ {b} : Writes(a) => job[a].out \in made
    BY DEF IInv, JobView, OwnsDestination
  <2>5. Spared(b)
    BY <1>1, <1>3, <2>1, <2>2, <2>3, <2>4 DEF Spared
  <2>6. result[d] = NoResult
    BY <1>1, <1>3 DEF IInv, DirView
  <2>7. OwnsDestination(b)'
    BY <1>1, <1>3, <2>1, <2>2, <2>3, <2>4, <2>6 DEF OwnsDestination, Writes
  <2>8. ASSUME NEW c \in Candidate PROVE SourceStands(b, c)' /\ Collected(b, c)'
    <3>1. SourceStands(b, c) /\ Collected(b, c)
      BY <1>1 DEF JobView
    <3> QED BY <1>1, <2>3, <3>1 DEF SourceStands, Collected, PriorSuccess
  <2>9. JobView(b)'
    BY <1>1, <2>3, <2>7, <2>8, OrderFacts DEF JobView, Writes
  <2>10. \A e \in Dir : DirView(e)'
    BY <1>1, <2>1 DEF IInv, DirView
  <2> QED BY <2>5, <2>9, <2>10, OthersStay DEF IInv
<1> QED BY <1>2, <1>3

\* The result that is delivered describes its directory.
LEMMA DeliverStep ==
    ASSUME IInv, TypeOK', NEW b \in Batch, Deliver(b)
    PROVE  IInv'
<1> DEFINE d == job[b].out
           new == [input |-> job[b].input, parent |-> job[b].src, cand |-> job[b].summaries]
<1>1. /\ TypeOK /\ JobView(b) /\ OwnsDestination(b) /\ Writes(b)
      /\ job[b].pc = "deliver" /\ UNCHANGED <<made, cand>>
      /\ d \in Dir /\ new \in Result
  BY ResultType DEF Deliver, IInv, JobView, Writes
<1>2. d \in made /\ result[d] = NoResult
  BY <1>1 DEF OwnsDestination
<1>3. CASE UNCHANGED result
  BY <1>1, <1>3, ExitStep DEF Deliver, disk
<1>4. CASE result' = [result EXCEPT ![d] = new]
  <2> HIDE DEF new
  <2>1. job'[b] = Idle /\ \A a \in Batch \ {b} : job'[a] = job[a]
    BY <1>1, ExitJob DEF Deliver
  <2>2. JobView(b)' /\ ~Writes(b)'
    BY <2>1, IdleView
  <2>3. result'[d] = new /\ \A e \in Dir \ {d} : result'[e] = result[e]
    BY <1>1, <1>4 DEF TypeOK
  <2>4. \A a \in Batch \ {b} : Writes(a) => job[a].out \in Dir /\ job[a].out # d
    BY <1>1 DEF IInv, JobView, OwnsDestination, TypeOK
  <2>5. Spared(b)
    BY <1>1, <1>2, <2>1, <2>2, <2>3, <2>4 DEF Spared
  <2>6. ASSUME NEW c \in Candidate, new.cand[c].origin = d
        PROVE  /\ new.cand[c].run = cand[d][c].run
               /\ new.cand[c].status = cand[d][c].status
               /\ new.cand[c].paths = cand[d][c].paths
    <3>1. Collected(b, c) /\ job[b].summaries[c] # NoSummary
      <4>1. job[b].summaries[c] \in Summary
        BY <1>1, ResultType
      <4> QED BY <1>1, <4>1, SentinelAssumption DEF JobView
    <3> QED BY <2>6, <3>1 DEF Collected, new
  <2>7. ASSUME NEW e \in Dir PROVE DirView(e)'
    <3>1. DirView(e)
      BY DEF IInv
    <3> QED BY <1>1, <1>2, <2>3, <2>6, <3>1 DEF DirView
  <2> QED BY <2>2, <2>5, <2>7, OthersStay DEF IInv
<1> QED BY <1>3, <1>4 DEF Deliver

\* Removing a directory no live batch uses disturbs none of them.
LEMMA RemoveStep ==
    ASSUME IInv, TypeOK', NEW d \in Dir, Remove(d)
    PROVE  IInv'
<1>1. /\ TypeOK /\ job' = job /\ made' = made \ {d}
      /\ result'[d] = NoResult /\ \A e \in Dir \ {d} : result'[e] = result[e]
      /\ cand'[d] = [c \in Candidate |-> NoCandidateDir]
      /\ \A e \in Dir \ {d} : cand'[e] = cand[e]
  BY DEF Remove, IInv, TypeOK
<1>2. ASSUME NEW b \in Batch PROVE JobView(b)'
  <2>1. JobView(b) /\ job[b] \in Job
    BY DEF IInv, TypeOK
  <2>2. CASE job[b].pc = "idle"
    <3>1. ASSUME NEW c \in Candidate PROVE SourceStands(b, c)' /\ Collected(b, c)'
      BY <1>1, <2>1, <2>2 DEF JobView, SourceStands, PriorSuccess, Collected, Writes
    <3> QED BY <1>1, <2>1, <2>2, <3>1 DEF JobView, OwnsDestination, Writes
  <2>3. CASE job[b].pc # "idle"
    <3>1. d # job[b].out /\ \A c \in Candidate : job[b].from[c] # d
      <4>1. d # job[b].out /\ d \notin Range(job[b].from)
        BY <2>3 DEF Remove, Live
      <4>2. \A c \in Candidate : job[b].from[c] \in Range(job[b].from)
        BY <2>1 DEF Job, Range
      <4> QED BY <4>1, <4>2
    <3>2. job[b].out \in Dir
      BY <2>1, <2>3 DEF JobView
    <3>3. ASSUME NEW c \in Candidate PROVE SourceStands(b, c)' /\ Collected(b, c)'
      <4>1. SourceStands(b, c) /\ Collected(b, c)
        BY <2>1 DEF JobView
      <4>2. SourceStands(b, c)'
        BY <1>1, <3>1, <4>1 DEF SourceStands, PriorSuccess
      <4>3. cand'[job[b].out] = cand[job[b].out] /\ job'[b] = job[b]
        BY <1>1, <3>1, <3>2
      <4>4. Collected(b, c)'
        BY <4>1, <4>3 DEF Collected, PriorSuccess
      <4> QED BY <4>2, <4>4
    <3>4. OwnsDestination(b)'
      BY <1>1, <2>1, <3>1, <3>2 DEF JobView, OwnsDestination, Writes
    <3> QED BY <1>1, <2>1, <3>3, <3>4 DEF JobView, Writes
  <2> QED BY <2>2, <2>3
<1>3. ASSUME NEW e \in Dir PROVE DirView(e)'
  <2>1. DirView(e)
    BY DEF IInv
  <2>2. CASE e = d
    BY <1>1, <2>2 DEF DirView, NoCandidateDir
  <2>3. CASE e # d
    BY <1>1, <2>1, <2>3 DEF DirView
  <2> QED BY <2>2, <2>3
<1> QED BY <1>2, <1>3 DEF IInv

\* Every step preserves the invariant.
LEMMA InvStep == IInv /\ [Next]_vars => IInv'
<1> SUFFICES ASSUME IInv, [Next]_vars PROVE IInv'
  OBVIOUS
<1>0. TypeOK /\ TypeOK'
  BY TypeStep DEF IInv
<1>1. ASSUME NEW b \in Batch, NEW d \in Dir, NEW s \in Dir \cup {NoDir}, NEW in \in Input,
             Start(b, d, s, in)
      PROVE  IInv'
  <2>1. job'[b] = [Idle EXCEPT !.pc = "fresh", !.out = d, !.src = s, !.input = in]
        /\ \A a \in Batch \ {b} : job'[a] = job[a]
    BY <1>0, <1>1 DEF Start, TypeOK
  <2>2. \A c \in Candidate : SourceStands(b, c)' /\ Collected(b, c)'
    BY <2>1 DEF Idle, SourceStands, PriorSuccess, Collected
  <2>3. JobView(b)' /\ ~Writes(b)'
    BY <2>1, <2>2, OrderFacts DEF JobView, Writes, OwnsDestination, Idle
  <2> QED BY <1>0, <1>1, <2>1, <2>3, JobStep DEF Start
<1>2. ASSUME NEW b \in Batch, AssertFreshDestination(b) PROVE IInv'
  <2>1. CASE job[b].out \in made
    BY <1>0, <1>2, <2>1, ExitStep DEF AssertFreshDestination
  <2>2. CASE job[b].out \notin made
    <3>1. PICK to \in {"mkdir", "preflight"} :
            /\ Goto(b, to)
            /\ to = "preflight" => job[b].src # NoDir
      BY <1>2, <2>2 DEF AssertFreshDestination
    <3>2. /\ \A a \in Batch \ {b} : job'[a] = job[a]
          /\ job'[b] = [job[b] EXCEPT !.pc = to]
      BY <1>0, <3>1, MoveJob
    <3>3. JobView(b) /\ job[b] \in Job /\ job[b].pc = "fresh"
      BY <1>2 DEF AssertFreshDestination, IInv, TypeOK
    <3>4. /\ job'[b].pc = to /\ job'[b].out = job[b].out /\ job'[b].src = job[b].src
          /\ job'[b].input = job[b].input /\ job'[b].prior = NoResult
          /\ job'[b].at = job[b].at /\ job'[b].summaries = job[b].summaries
      BY <3>2, <3>3 DEF Job, JobView
    <3>5. \A c \in Candidate : SourceStands(b, c)' /\ Collected(b, c)'
      BY <3>3, <3>4 DEF SourceStands, PriorSuccess, Collected, JobView, Writes
    <3>6. job[b].src \in Dir \cup {NoDir}
      BY <3>3 DEF Job
    <3>7. JobView(b)' /\ ~Writes(b)'
      BY <3>1, <3>3, <3>4, <3>5, <3>6, OrderFacts DEF JobView, Writes, OwnsDestination
    <3> QED BY <1>0, <1>2, <3>2, <3>7, JobStep DEF AssertFreshDestination
  <2> QED BY <2>1, <2>2
<1>3. ASSUME NEW b \in Batch, LoadResumeBatch(b) PROVE IInv'
  BY <1>0, <1>3, LoadStep
<1>4. ASSUME NEW b \in Batch, MakeDirectory(b) PROVE IInv'
  BY <1>0, <1>4, MakeStep
<1>5. ASSUME NEW b \in Batch, NextCandidate(b) PROVE IInv'
  BY <1>0, <1>5, CandidateStep
<1>6. ASSUME NEW b \in Batch, AllCollected(b) PROVE IInv'
  <2>1. /\ \A a \in Batch \ {b} : job'[a] = job[a]
        /\ job'[b] = [job[b] EXCEPT !.pc = "deliver"]
    BY <1>0, <1>6, MoveJob DEF AllCollected
  <2>2. JobView(b) /\ job[b] \in Job /\ job[b].pc = "candidates" /\ job[b].at > Len(Order)
    BY <1>6 DEF AllCollected, IInv, TypeOK
  <2>3. /\ job'[b].pc = "deliver" /\ job'[b].out = job[b].out /\ job'[b].src = job[b].src
        /\ job'[b].input = job[b].input /\ job'[b].prior = job[b].prior
        /\ job'[b].from = job[b].from /\ job'[b].at = job[b].at
        /\ job'[b].summaries = job[b].summaries
    BY <2>1, <2>2 DEF Job
  <2>4. ASSUME NEW c \in Candidate PROVE SourceStands(b, c)' /\ Collected(b, c)'
    <3>1. SourceStands(b, c) /\ Collected(b, c)
      BY <2>2 DEF JobView
    <3> QED BY <1>6, <2>3, <3>1 DEF AllCollected, disk, SourceStands, PriorSuccess, Collected
  <2>5. \A i \in 1..Len(Order) : job[b].summaries[Order[i]] # NoSummary
    <3> TAKE i \in 1..Len(Order)
    <3>1. i < job[b].at
      BY <2>2, OrderFacts DEF Job
    <3> QED BY <2>2, <3>1 DEF JobView
  <2>6. OwnsDestination(b)'
    BY <1>6, <2>1, <2>2, <2>3 DEF AllCollected, disk, JobView, OwnsDestination, Writes
  <2>7. JobView(b)' /\ Writes(b) /\ job'[b].out = job[b].out
    BY <2>2, <2>3, <2>4, <2>5, <2>6 DEF JobView, Writes
  <2> QED BY <1>0, <1>6, <2>1, <2>7, JobStep DEF AllCollected
<1>7. ASSUME NEW b \in Batch, Deliver(b) PROVE IInv'
  BY <1>0, <1>7, DeliverStep
<1>8. ASSUME NEW b \in Batch, Crash(b) PROVE IInv'
  BY <1>0, <1>8, ExitStep DEF Crash
<1>9. ASSUME NEW d \in Dir, Remove(d) PROVE IInv'
  BY <1>0, <1>9, RemoveStep
<1>10. CASE UNCHANGED vars
  <2>1. UNCHANGED disk /\ job' = job
    BY <1>10 DEF vars
  <2>2. ASSUME NEW b \in Batch PROVE JobView(b)'
    <3>1. JobView(b)
      BY DEF IInv
    <3>2. OwnsDestination(b)' /\ (Writes(b)' <=> Writes(b))
      BY <2>1, <3>1 DEF JobView, OwnsDestination, Writes, disk
    <3>3. \A c \in Candidate : SourceStands(b, c)' /\ Collected(b, c)'
      BY <2>1, <3>1 DEF JobView, SourceStands, Collected, PriorSuccess, disk
    <3> QED BY <2>1, <3>1, <3>2, <3>3 DEF JobView
  <2>3. ASSUME NEW d \in Dir PROVE DirView(d)'
    <3>1. DirView(d)
      BY DEF IInv
    <3> QED BY <2>1, <3>1 DEF DirView, disk
  <2> QED BY <1>0, <2>2, <2>3 DEF IInv
<1> QED BY <1>1, <1>2, <1>3, <1>4, <1>5, <1>6, <1>7, <1>8, <1>9, <1>10 DEF Next, Quiet

\* The invariant holds before the first invocation.
LEMMA InvInit == Init => IInv
<1> SUFFICES ASSUME Init PROVE IInv
  OBVIOUS
<1>1. NoCandidateDir \in CandidateDir
  BY PathsFacts, NumOpsAssumption DEF NoCandidateDir, CandidateDir
<1>2. \A b \in Batch : job[b] = Idle
  BY DEF Init
<1>3. TypeOK
  BY <1>1, IdleType, BoundAssumption DEF Init, TypeOK
<1>4. ASSUME NEW b \in Batch PROVE JobView(b)
  <2>1. \A c \in Candidate : SourceStands(b, c) /\ Collected(b, c)
    BY <1>2 DEF Idle, SourceStands, PriorSuccess, Collected
  <2> QED BY <1>2, <2>1, OrderFacts DEF JobView, Writes, OwnsDestination, Idle
<1>5. \A d \in Dir : DirView(d)
  BY DEF Init, DirView, NoCandidateDir
<1> QED BY <1>3, <1>4, <1>5 DEF IInv

\* The invariant holds throughout.
LEMMA Inductive == Spec => []IInv
BY InvInit, InvStep, PTL DEF Spec
----------------------------------------------------------------------------
\* Types: in particular, what is reused has the form of a summary, since the manifest it
\* is made from is still the manifest of a success.
THEOREM TypeCorrect == Spec => []TypeOK
<1>1. IInv => TypeOK
  BY DEF IInv
<1> QED BY <1>1, Inductive, PTL

\* A delivered result describes its directory, whatever other batches were given the
\* same destination, and whatever was removed.
THEOREM ResultsAreAccurate == Spec => []ResultDescribesItsDirectory
<1>1. IInv => ResultDescribesItsDirectory
  BY DEF IInv, DirView, ResultDescribesItsDirectory, Delivered
<1> QED BY <1>1, Inductive, PTL

\* A success of the source batch is carried over, through any number of generations.
THEOREM SuccessesAreCarriedOver == Spec => []SuccessIsCarriedOver
<1>1. IInv => SuccessIsCarriedOver
  <2> SUFFICES ASSUME IInv, NEW b \in Batch, NEW c \in Candidate,
                      PriorSuccess(b, c), job[b].summaries[c] # NoSummary
               PROVE  LET old == job[b].prior.cand[c]
                          new == job[b].summaries[c]
                      IN  /\ new.status = "SUCCEEDED"
                          /\ new.run = old.run /\ new.origin = old.origin
                          /\ new.paths = AllPaths
                          /\ new.executed = 0 /\ new.replayed = 0
                          /\ cand[old.origin][c].run = old.run
    BY DEF SuccessIsCarriedOver, PriorSuccess
  <2>1. SourceStands(b, c) /\ Collected(b, c)
    BY DEF IInv, JobView
  <2> QED BY <2>1 DEF SourceStands, Collected
<1> QED BY <1>1, Inductive, PTL

\* What one step may do to a delivered batch: nothing, short of its removal.
LEMMA DeliveredStays ==
    ASSUME IInv, [Next]_vars, NEW d \in Dir, Delivered(d), d \in made'
    PROVE  cand'[d] = cand[d] /\ result'[d] = result[d]
<1>1. ASSUME NEW b \in Batch, Writes(b) PROVE job[b].out # d
  BY <1>1 DEF IInv, JobView, OwnsDestination, Delivered
<1>2. cand \in [Dir -> [Candidate -> CandidateDir]] /\ DOMAIN result = Dir
  BY DEF IInv, TypeOK
<1>3. ASSUME NEW b \in Batch, NextCandidate(b) PROVE cand'[d] = cand[d] /\ result' = result
  <2>1. job[b].out # d
    BY <1>1, <1>3 DEF NextCandidate, Writes
  <2>2. ASSUME NEW c, NEW to, NEW left, NEW executed, Execute(b, c, to, left, executed)
        PROVE  cand'[d] = cand[d] /\ result' = result
    BY <1>2, <2>1, <2>2 DEF Execute, RunDirectory, Collect
  <2> DEFINE c == Order[job[b].at]
  <2>3. CASE Reuse(b, c)
    BY <2>3 DEF Reuse, Collect
  <2>4. CASE CandidateSucceeds(b, c)
    BY <2>2, <2>4 DEF CandidateSucceeds
  <2>5. ASSUME NEW held \in 0..NumOps, NEW to \in 0..NumOps, NEW partial \in BOOLEAN,
               NEW paths \in FailedPaths, CandidateFails(b, c, held, to, partial, paths)
        PROVE  cand'[d] = cand[d] /\ result' = result
    BY <2>2, <2>5 DEF CandidateFails
  <2>6. ASSUME NEW to \in 0..NumOps, CandidateRaises(b, c, to)
        PROVE  cand'[d] = cand[d] /\ result' = result
    BY <2>2, <2>6 DEF CandidateRaises
  <2> QED BY <1>3, <2>3, <2>4, <2>5, <2>6 DEF NextCandidate
<1>4. ASSUME NEW b \in Batch, Deliver(b) PROVE cand' = cand /\ result'[d] = result[d]
  BY <1>1, <1>2, <1>4 DEF Deliver, Writes
<1>5. ASSUME NEW e \in Dir, Remove(e) PROVE cand'[d] = cand[d] /\ result'[d] = result[d]
  BY <1>2, <1>5 DEF Remove
<1>6. ASSUME NEW b \in Batch,
             \/ \E e \in Dir, s \in Dir \cup {NoDir}, in \in Input : Start(b, e, s, in)
             \/ AssertFreshDestination(b) \/ LoadResumeBatch(b) \/ MakeDirectory(b)
             \/ AllCollected(b) \/ Crash(b)
      PROVE  cand' = cand /\ result' = result
  BY <1>6 DEF Start, AssertFreshDestination, LoadResumeBatch, MakeDirectory, AllCollected,
              Crash, disk
<1>7. CASE UNCHANGED vars
  BY <1>7 DEF vars, disk
<1> QED BY <1>3, <1>4, <1>5, <1>6, <1>7 DEF Next, Quiet

\* No step of any batch changes a delivered batch.
THEOREM SourcesAreImmutable == Spec => SourceBatchIsImmutable
<1>1. IInv /\ [Next]_vars =>
        [\A d \in Dir : Delivered(d) /\ d \in made' =>
           cand'[d] = cand[d] /\ result'[d] = result[d]]_vars
  BY DeliveredStays
<1> QED BY <1>1, Inductive, PTL DEF Spec, SourceBatchIsImmutable
=============================================================================
