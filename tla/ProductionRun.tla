--------------------------- MODULE ProductionRun ---------------------------
(***************************************************************************)
(* One invocation of ProductionPipelineOrchestrator.run per member of Run, *)
(* the output directories the invocations write, and the resume chain that *)
(* links a run to the failed run whose checkpoints it replays              *)
(* (production_pipeline/orchestrator.py, recovery.py, artifacts.py).       *)
(*                                                                         *)
(* What is kept: every point at which a process can die or raise, every    *)
(* write to an output directory, the order of the writes, and every check  *)
(* of an output directory or of a resume source.  What is abstracted: the  *)
(* content of a provider response, except for the request it answers and   *)
(* whether it covers the whole cohort, and the analysis stages, which keep *)
(* no state of their own.                                                  *)
(*                                                                         *)
(* A definition marked [faulty] is a plausible mistake in the one after    *)
(* it.  No action uses it: it stands in for that definition to show that a *)
(* property notices the mistake.                                           *)
(***************************************************************************)
EXTENDS Integers, FiniteSets

CONSTANTS
    Run,          \* invocations of the orchestrator
    Dir,          \* output directories
    Request,      \* request fingerprints (run_request_fingerprint)
    Evidence,     \* raw-evidence ids: one per accepted provider response
    NumOps,       \* length of the acquisition plan
    Exclusive,    \* TRUE: no two live runs are given the same directory
    NoDir, NoReceipt, NoManifest

ASSUME NumOpsAssumption == NumOps \in Nat \ {0}
ASSUME ExclusiveAssumption == Exclusive \in BOOLEAN

VARIABLES
    \* on disk
    files,        \* files[d]: the checkpoints in <d>/checkpoints
    ckdir,        \* ckdir[d]: <d>/checkpoints exists
    artifacts,    \* artifacts[d]: the delivered files that exist in d
    manifest,     \* manifest[d]: <d>/run_manifest.json
    \* what the provider has answered, and so what was paid for
    ledger,
    \* local to a run
    pc,           \* the next thing the run does
    dir,          \* request.output_directory
    src,          \* request.resume_from
    req,          \* the request fingerprint
    resume,       \* resume_set.checkpoints
    ids,          \* checkpoint_store._checkpoint_ids
    next,         \* position in plan.steps
    pending,      \* an accepted response that is not yet checkpointed
    executed,     \* logical_operations with source NEW_PROVIDER
    replayed,     \* logical_operations with source CHECKPOINT_REPLAY
    sent          \* history: operations the run has sent to the provider

disk  == <<files, ckdir, artifacts, manifest>>
given == <<dir, src, req>>
opLog == <<executed, replayed, sent>>
local == <<pc, given, resume, ids, next, pending, opLog>>
vars  == <<disk, ledger, local>>
----------------------------------------------------------------------------
Op       == 1..NumOps
Artifact == {"report", "markdown", "xlsx"}

\* An accepted provider response: the checkpoint written for it carries the
\* same identity (operation, fingerprint, raw evidence id) wherever it is copied.
Receipt == [op : Op, req : Request, id : Evidence, complete : BOOLEAN]

Manifest ==
    [status : {"SUCCEEDED", "FAILED"}, req : Request, ids : SUBSET Receipt,
     sourceIds : SUBSET Receipt, executed : SUBSET Op, replayed : SUBSET Op,
     artifacts : SUBSET Artifact]

Ended   == {"conflict", "succeeded", "failed", "raised", "crashed"}
Working == {"claim", "load", "runtime", "acquire", "checkpoint", "analyse",
            "report", "schema", "markdown", "xlsx", "manifest", "failing"}
Live(r) == pc[r] \in Working

ASSUME SentinelAssumption ==
    /\ NoDir \notin Dir
    /\ NoReceipt \notin Receipt
    /\ NoManifest \notin Manifest

Init ==
    /\ files = [d \in Dir |-> {}]
    /\ ckdir = [d \in Dir |-> FALSE]
    /\ artifacts = [d \in Dir |-> {}]
    /\ manifest = [d \in Dir |-> NoManifest]
    /\ ledger = {}
    /\ pc = [r \in Run |-> "idle"]
    /\ dir = [r \in Run |-> NoDir]
    /\ src = [r \in Run |-> NoDir]
    /\ req \in [Run -> Request]
    /\ resume = [r \in Run |-> {}]
    /\ ids = [r \in Run |-> {}]
    /\ next = [r \in Run |-> 1]
    /\ pending = [r \in Run |-> NoReceipt]
    /\ executed = [r \in Run |-> {}]
    /\ replayed = [r \in Run |-> {}]
    /\ sent = [r \in Run |-> {}]
----------------------------------------------------------------------------
\* The operator issues the command.  Nothing in the code excludes a second
\* live run on the same directory; Exclusive is the operator's discipline.
Start(r, d, s) ==
    /\ pc[r] = "idle"
    /\ Exclusive => \A q \in Run : Live(q) => dir[q] # d
    /\ dir' = [dir EXCEPT ![r] = d]
    /\ src' = [src EXCEPT ![r] = s]
    /\ pc' = [pc EXCEPT ![r] = "claim"]
    /\ UNCHANGED <<disk, ledger, req, resume, ids, next, pending, opLog>>

Goto(r, to) == pc' = [pc EXCEPT ![r] = to]

\* [faulty] the manifest of a run that failed early is not seen as a conflict
ConflictsWithoutManifest(d) == artifacts[d] # {} \/ ckdir[d]

\* Managed artifacts (symbolic links included) or a checkpoint directory.
Conflicts(d) == artifacts[d] # {} \/ manifest[d] # NoManifest \/ ckdir[d]

ClaimOutput(r) ==
    /\ pc[r] = "claim"
    /\ Goto(r, IF Conflicts(dir[r]) THEN "conflict" ELSE "load")
    /\ UNCHANGED <<disk, ledger, given, resume, ids, next, pending, opLog>>

\* No operation has two checkpoints in S.
OneEach(S) == \A a, b \in S : a.op = b.op => a = b

\* [faulty] the fingerprint of the source is not compared
AcceptableAnyRequest(s, q) ==
    /\ manifest[s] # NoManifest
    /\ manifest[s].status = "FAILED"
    /\ OneEach(files[s])
    /\ manifest[s].ids = files[s]

\* load_resume_source and validate_checkpoint accept directory s for request q.
Acceptable(s, q) ==
    /\ manifest[s] # NoManifest
    /\ manifest[s].status = "FAILED"
    /\ manifest[s].req = q
    /\ \A c \in files[s] : c.req = q
    /\ OneEach(files[s])
    /\ manifest[s].ids = files[s]

LoadResumeSource(r) ==
    /\ pc[r] = "load"
    /\ IF src[r] = NoDir
         THEN Goto(r, "runtime") /\ UNCHANGED resume
         ELSE IF Acceptable(src[r], req[r])
           THEN /\ Goto(r, "runtime")
                /\ resume' = [resume EXCEPT ![r] = files[src[r]]]
           ELSE Goto(r, "failing") /\ UNCHANGED resume
    /\ UNCHANGED <<disk, ledger, given, ids, next, pending, opLog>>

BuildRuntime(r) ==
    /\ pc[r] = "runtime"
    /\ Goto(r, "acquire")
    /\ UNCHANGED <<disk, ledger, given, resume, ids, next, pending, opLog>>
----------------------------------------------------------------------------
\* [faulty] a checkpoint that does not cover the cohort is bought again
FoundComplete(r, o) == {c \in resume[r] : c.op = o /\ c.complete}

\* ResumeCheckpointSet.find: the checkpoints of the source for operation o.
Found(r, o) == {c \in resume[r] : c.op = o}

\* [faulty] the inventory lists raw evidence ids instead of checkpoints
WriteSuccessEvidence(r, c) ==
    /\ files' = [files EXCEPT ![dir[r]] = @ \cup {c}]
    /\ ckdir' = [ckdir EXCEPT ![dir[r]] = TRUE]
    /\ ids' = [ids EXCEPT ![r] = @ \cup {c.id}]
    /\ next' = [next EXCEPT ![r] = @ + 1]
    /\ UNCHANGED <<artifacts, manifest>>

\* checkpoint_store.write_success: the file, then the id of the inventory.
WriteSuccess(r, c) ==
    /\ files' = [files EXCEPT ![dir[r]] = @ \cup {c}]
    /\ ckdir' = [ckdir EXCEPT ![dir[r]] = TRUE]
    /\ ids' = [ids EXCEPT ![r] = @ \cup {c}]
    /\ next' = [next EXCEPT ![r] = @ + 1]
    /\ UNCHANGED <<artifacts, manifest>>

\* [faulty] the replay is logged as an execution
ReplayLoggedAsExecution(r) ==
    /\ pc[r] = "acquire"
    /\ next[r] <= NumOps
    /\ \E c \in Found(r, next[r]) : WriteSuccess(r, c)
    /\ executed' = [executed EXCEPT ![r] = @ \cup {next[r]}]
    /\ UNCHANGED <<ledger, pc, given, resume, pending, replayed, sent>>

\* [faulty] the replayed checkpoint is not copied to the new directory
ReplayWithoutCopy(r) ==
    /\ pc[r] = "acquire"
    /\ next[r] <= NumOps
    /\ Found(r, next[r]) # {}
    /\ next' = [next EXCEPT ![r] = @ + 1]
    /\ replayed' = [replayed EXCEPT ![r] = @ \cup {next[r]}]
    /\ UNCHANGED <<disk, ledger, pc, given, resume, ids, pending, executed, sent>>

\* A checkpointed operation is replayed offline and copied to the new directory.
ReplayOperation(r) ==
    /\ pc[r] = "acquire"
    /\ next[r] <= NumOps
    /\ \E c \in Found(r, next[r]) : WriteSuccess(r, c)
    /\ replayed' = [replayed EXCEPT ![r] = @ \cup {next[r]}]
    /\ UNCHANGED <<ledger, pc, given, resume, pending, executed, sent>>

Reaches(r, o) ==
    /\ pc[r] = "acquire"
    /\ o = next[r]
    /\ o <= NumOps
    /\ Found(r, o) = {}
    /\ sent' = [sent EXCEPT ![r] = @ \cup {o}]

\* The resolver returns a response that passed the adapter.  The operation is
\* not yet in logical_operations: it is appended after the checkpoint.
ProviderAnswers(r, o, e, complete) ==
    /\ Reaches(r, o)
    /\ \A c \in ledger : c.id # e
    /\ LET c == [op |-> o, req |-> req[r], id |-> e, complete |-> complete]
       IN  /\ pending' = [pending EXCEPT ![r] = c]
           /\ ledger' = ledger \cup {c}
    /\ Goto(r, "checkpoint")
    /\ UNCHANGED <<disk, given, resume, ids, next, executed, replayed>>

\* The resolver raises: the operation is logged FAILED and the stage fails.
ProviderFails(r, o) ==
    /\ Reaches(r, o)
    /\ executed' = [executed EXCEPT ![r] = @ \cup {o}]
    /\ Goto(r, "failing")
    /\ UNCHANGED <<disk, ledger, given, resume, ids, next, pending, replayed>>

CheckpointResponse(r) ==
    /\ pc[r] = "checkpoint"
    /\ WriteSuccess(r, pending[r])
    /\ pending' = [pending EXCEPT ![r] = NoReceipt]
    /\ executed' = [executed EXCEPT ![r] = @ \cup {pending[r].op}]
    /\ Goto(r, "acquire")
    /\ UNCHANGED <<ledger, given, resume, replayed, sent>>

\* [faulty] the id enters the inventory before the file is written
IdBeforeFile(r) ==
    /\ \/ pc[r] = "checkpoint"
       \/ pc[r] = "acquire" /\ next[r] <= NumOps /\ Found(r, next[r]) # {}
    /\ ids' = [ids EXCEPT ![r] = @ \cup
                 IF pc[r] = "checkpoint" THEN {pending[r]} ELSE Found(r, next[r])]
    /\ pending' = [pending EXCEPT ![r] = NoReceipt]
    /\ Goto(r, "failing")
    /\ UNCHANGED <<disk, ledger, given, resume, next, opLog>>

\* write_success raises, for a replay or for a new response: unsafe content or
\* a full disk.  The checkpoints directory may already have been made.
WriteSuccessRaises(r) ==
    /\ \/ pc[r] = "checkpoint"
       \/ pc[r] = "acquire" /\ next[r] <= NumOps /\ Found(r, next[r]) # {}
    /\ \E made \in BOOLEAN : ckdir' = [ckdir EXCEPT ![dir[r]] = @ \/ made]
    /\ pending' = [pending EXCEPT ![r] = NoReceipt]
    /\ Goto(r, "failing")
    /\ UNCHANGED <<files, artifacts, manifest, ledger, given, resume, ids, next,
                   opLog>>

\* [faulty] replayed payloads are trusted to cover the cohort
CheckNewCohort(r) ==
    /\ pc[r] = "acquire"
    /\ next[r] > NumOps
    /\ \/ (\A c \in ids[r] \ resume[r] : c.complete) /\ Goto(r, "analyse")
       \/ Goto(r, "failing")
    /\ UNCHANGED <<disk, ledger, given, resume, ids, next, pending, opLog>>

\* The explicit cohort must be resolved completely by the acquired payloads.  The
\* usage gate of a live Sorftime release may reject a complete cohort as well.
CheckCohort(r) ==
    /\ pc[r] = "acquire"
    /\ next[r] > NumOps
    /\ \/ (\A c \in ids[r] : c.complete) /\ Goto(r, "analyse")
       \/ Goto(r, "failing")
    /\ UNCHANGED <<disk, ledger, given, resume, ids, next, pending, opLog>>
----------------------------------------------------------------------------
Analyse(r) ==
    /\ pc[r] = "analyse"
    /\ Goto(r, "report")
    /\ UNCHANGED <<disk, ledger, given, resume, ids, next, pending, opLog>>

ValidateSchema(r) ==
    /\ pc[r] = "schema"
    /\ Goto(r, "markdown")
    /\ UNCHANGED <<disk, ledger, given, resume, ids, next, pending, opLog>>

\* One delivered file appears under its final name, by a temporary and a rename.
WriteArtifact(r, at, a, to) ==
    /\ pc[r] = at
    /\ artifacts' = [artifacts EXCEPT ![dir[r]] = @ \cup {a}]
    /\ Goto(r, to)
    /\ UNCHANGED <<files, ckdir, manifest, ledger, given, resume, ids, next,
                   pending, opLog>>

WriteReport(r)     == WriteArtifact(r, "report", "report", "schema")
DeliverMarkdown(r) == WriteArtifact(r, "markdown", "markdown", "xlsx")
DeliverXlsx(r)     == WriteArtifact(r, "xlsx", "xlsx", "manifest")

\* [faulty] the failure manifest lists what was replayed only
ManifestOfReplays(r, status) ==
    [status |-> status, req |-> req[r], ids |-> ids[r] \cap resume[r],
     sourceIds |-> resume[r], executed |-> executed[r], replayed |-> replayed[r],
     artifacts |-> IF status = "SUCCEEDED" THEN Artifact ELSE artifacts[dir[r]]]

ManifestContent(r, status) ==
    [status |-> status, req |-> req[r], ids |-> ids[r],
     sourceIds |-> resume[r], executed |-> executed[r], replayed |-> replayed[r],
     artifacts |-> IF status = "SUCCEEDED" THEN Artifact ELSE artifacts[dir[r]]]

WriteManifest(r, at, status, to) ==
    /\ pc[r] = at
    /\ manifest' = [manifest EXCEPT ![dir[r]] = ManifestContent(r, status)]
    /\ Goto(r, to)
    /\ UNCHANGED <<files, ckdir, artifacts, ledger, given, resume, ids, next,
                   pending, opLog>>

WriteSuccessManifest(r) == WriteManifest(r, "manifest", "SUCCEEDED", "succeeded")
WriteFailureManifest(r) == WriteManifest(r, "failing", "FAILED", "failed")

\* An exception in a stage that has changed nothing yet: the handler takes over.
StageRaises(r) ==
    /\ pc[r] \in {"load", "runtime", "acquire", "analyse", "report", "schema",
                  "markdown", "xlsx", "manifest"}
    /\ pc[r] = "acquire" => Found(r, next[r]) # {}
    /\ Goto(r, "failing")
    /\ UNCHANGED <<disk, ledger, given, resume, ids, next, pending, opLog>>

\* [faulty] the run starts over when its failure manifest cannot be written
HandlerStartsOver(r) ==
    /\ pc[r] = "failing"
    /\ Goto(r, "load")
    /\ UNCHANGED <<disk, ledger, given, resume, ids, next, pending, opLog>>

\* The handler itself raises, so that no manifest is written at all.
HandlerRaises(r) ==
    /\ pc[r] = "failing"
    /\ Goto(r, "raised")
    /\ UNCHANGED <<disk, ledger, given, resume, ids, next, pending, opLog>>

\* The process is killed, or interrupted by something that is not an Exception.
Crash(r) ==
    /\ Live(r)
    /\ Goto(r, "crashed")
    /\ UNCHANGED <<disk, ledger, given, resume, ids, next, pending, opLog>>
----------------------------------------------------------------------------
Acquire(r) ==
    \/ ReplayOperation(r)
    \/ \E o \in Op : \/ ProviderFails(r, o)
                     \/ \E e \in Evidence, b \in BOOLEAN : ProviderAnswers(r, o, e, b)
    \/ CheckpointResponse(r)
    \/ WriteSuccessRaises(r)
    \/ CheckCohort(r)

Deliver(r) ==
    \/ Analyse(r)
    \/ WriteReport(r)
    \/ ValidateSchema(r)
    \/ DeliverMarkdown(r)
    \/ DeliverXlsx(r)
    \/ WriteSuccessManifest(r)

Step(r) ==
    \/ ClaimOutput(r)
    \/ LoadResumeSource(r)
    \/ BuildRuntime(r)
    \/ Acquire(r)
    \/ Deliver(r)
    \/ StageRaises(r)
    \/ WriteFailureManifest(r)
    \/ HandlerRaises(r)

AllEnded == (\A r \in Run : pc[r] \in Ended) /\ UNCHANGED vars

Next ==
    \/ \E r \in Run :
         \/ \E d \in Dir, s \in Dir \cup {NoDir} : Start(r, d, s)
         \/ Step(r)
         \/ Crash(r)
    \/ AllEnded

Spec == Init /\ [][Next]_vars

\* A started run is a running Python process: it keeps executing.  Nothing
\* makes the operator start a run, and nothing makes a run crash.
FairSpec == Spec /\ \A r \in Run : WF_vars(Step(r))
----------------------------------------------------------------------------
TypeOK ==
    /\ files \in [Dir -> SUBSET Receipt]
    /\ ckdir \in [Dir -> BOOLEAN]
    /\ artifacts \in [Dir -> SUBSET Artifact]
    /\ manifest \in [Dir -> Manifest \cup {NoManifest}]
    /\ ledger \in SUBSET Receipt
    /\ pc \in [Run -> Working \cup Ended \cup {"idle"}]
    /\ dir \in [Run -> Dir \cup {NoDir}]
    /\ src \in [Run -> Dir \cup {NoDir}]
    /\ req \in [Run -> Request]
    /\ resume \in [Run -> SUBSET Receipt]
    /\ ids \in [Run -> SUBSET Receipt]
    /\ next \in [Run -> 1..(NumOps + 1)]
    /\ pending \in [Run -> Receipt \cup {NoReceipt}]
    /\ executed \in [Run -> SUBSET Op]
    /\ replayed \in [Run -> SUBSET Op]
    /\ sent \in [Run -> SUBSET Op]
----------------------------------------------------------------------------
(* Properties.                                                             *)

\* A run manifest is written last: from the moment a directory holds one,
\* no run changes anything in that directory, by any interleaving.
ManifestSealsDirectory ==
    [][\A d \in Dir : manifest[d] # NoManifest =>
          /\ manifest'[d] = manifest[d]
          /\ files'[d] = files[d]
          /\ ckdir'[d] = ckdir[d]
          /\ artifacts'[d] = artifacts[d]]_vars

\* A SUCCEEDED manifest stands in a directory with all three delivered files
\* and exactly one checkpoint for every operation of the plan, all of them
\* covering the whole cohort and all of them answers to this request: a
\* reduced or a foreign cohort never becomes a successful one, whatever was
\* replayed from whichever chain of failed runs.
DeliveredFromCompleteCohort ==
    \A d \in Dir :
      manifest[d] # NoManifest /\ manifest[d].status = "SUCCEEDED" =>
        /\ artifacts[d] = Artifact
        /\ {c.op : c \in files[d]} = Op
        /\ OneEach(files[d])
        /\ \A c \in files[d] : c.complete /\ c.req = manifest[d].req

\* Every failure manifest that a run leaves behind can be resumed from: the
\* loader would accept the directory as the source of the same request.
FailureManifestIsResumable ==
    \A d \in Dir :
      manifest[d] # NoManifest /\ manifest[d].status = "FAILED" =>
        Acceptable(d, manifest[d].req)

\* Only operations the resume source does not hold reach the provider.  The
\* source is read once, when the run starts: the property is about what the
\* source directory holds at the time of the call.
OnlyMissingOperationsAreSent ==
    [][\A r \in Run : \A o \in sent'[r] \ sent[r] :
          src[r] # NoDir => \A c \in files[src[r]] : c.op # o]_vars

\* Every checkpoint on disk is an answer that was given by the provider, and
\* one answer is in two directories only if one of the two runs replayed it.
CheckpointsAreProviderAnswers ==
    /\ \A d \in Dir : files[d] \subseteq ledger
    /\ \A d, e \in Dir :
         /\ d # e
         /\ manifest[d] # NoManifest
         /\ manifest[e] # NoManifest
         => \A c \in files[d] \cap files[e] :
              \/ c.op \in manifest[d].replayed /\ c \in manifest[d].sourceIds
              \/ c.op \in manifest[e].replayed /\ c \in manifest[e].sourceIds

\* A resumed run that fails after it has sent a new operation to the provider
\* has first copied everything its source held, so that a second recovery from
\* its own directory loses nothing.
SecondRecoveryLosesNothing ==
    \A d \in Dir :
      manifest[d] # NoManifest /\ manifest[d].executed # {} =>
        manifest[d].sourceIds \subseteq files[d]

\* Every started run comes to an end.
RunsEnd == \A r \in Run : pc[r] = "claim" ~> pc[r] \in Ended

----------------------------------------------------------------------------
(* A directory as a reader sees it: what the manifest says of it, its      *)
(* checkpoints, and what load_resume_source would take from it.            *)
DirStatus(d) ==
    IF manifest[d] = NoManifest THEN "open"
    ELSE IF manifest[d].status = "FAILED" THEN "failed" ELSE "delivered"

Offered(d) ==
    IF manifest[d] # NoManifest /\ Acceptable(d, manifest[d].req) THEN files[d] ELSE {}

Directory == INSTANCE RunDirectory WITH
    status  <- [d \in Dir |-> DirStatus(d)],
    held    <- files,
    offered <- [d \in Dir |-> Offered(d)]

\* Runs, whatever dies, fails or resumes, treat their directories as RunDirectory says.
ImplementsRunDirectory == Directory!Spec
----------------------------------------------------------------------------
(* The inductive invariant.                                                *)

\* A run at "checkpoint" holds the answer to the operation the plan is at.
PendingView(r) ==
    pc[r] = "checkpoint" =>
      /\ next[r] \in Op
      /\ pending[r] \in Receipt
      /\ pending[r].op = next[r]
      /\ pending[r].req = req[r]

\* A run that has passed the conflict check and has not ended.
Owns(r) == pc[r] \in Working \ {"claim"}

OnDirectory(r) == Live(r) => dir[r] \in Dir

OneOwner ==
    \A q, r \in Run : Live(q) /\ Live(r) /\ dir[q] = dir[r] => q = r

\* What a run has in memory is what its directory holds: the inventory is the
\* set of files, a plan prefix of the right request, and the directory is unsealed.
OwnerView(r) ==
    /\ manifest[dir[r]] = NoManifest
    /\ files[dir[r]] = ids[r]
    /\ {c.op : c \in ids[r]} = 1..(next[r] - 1)
    /\ OneEach(ids[r])
    /\ \A c \in ids[r] \cup resume[r] : c.req = req[r]

\* How far the delivery has come, by the point the run has reached.
DeliveredSoFar(at) ==
    IF at \in {"schema", "markdown"} THEN {"report"}
    ELSE IF at = "xlsx" THEN {"report", "markdown"}
    ELSE IF at = "manifest" THEN Artifact
    ELSE {}

Delivering == {"analyse", "report", "schema", "markdown", "xlsx", "manifest"}

OwnerProgress(r) ==
    /\ pc[r] # "failing" => artifacts[dir[r]] = DeliveredSoFar(pc[r])
    /\ pc[r] \in Delivering => next[r] = NumOps + 1 /\ \A c \in ids[r] : c.complete

\* A run that has not passed the conflict check has done nothing.
Untouched(r) == ids[r] = {} /\ next[r] = 1 /\ resume[r] = {}

IInv ==
    /\ TypeOK
    /\ \A r \in Run : PendingView(r) /\ OnDirectory(r)
    /\ OneOwner
    /\ \A r \in Run : pc[r] \in {"idle", "claim"} => Untouched(r)
    /\ \A r \in Run : Owns(r) => OwnerView(r) /\ OwnerProgress(r)
    /\ \A r \in Run : pc[r] = "load" => Untouched(r)
    /\ \A d \in Dir : ~ckdir[d] => files[d] = {}
    /\ \A d \in Dir : OneEach(files[d])
    /\ DeliveredFromCompleteCohort
    /\ FailureManifestIsResumable
----------------------------------------------------------------------------
\* What docs/operations/PRODUCTION_RELIABILITY_RECOVERY_V0.1.md says of a resumed
\* run: the checkpointed operations of the source are replayed and copied into the
\* new run's checkpoint set, which makes a second recovery possible.
ResumedRunKeepsItsSource ==
    \A d \in Dir : manifest[d] # NoManifest => manifest[d].sourceIds \subseteq files[d]
=============================================================================
