--------------------------- MODULE NativeResearch ---------------------------
(***************************************************************************)
(* native_research_completion: one output directory of a research task.    *)
(* An invocation ("hook") dispatches a model call to a worker process,     *)
(* completes the research from its receipt, asks the consumer for a review *)
(* of the result, and publishes the return.  What a killed or failed       *)
(* invocation leaves on disk is the input of the next one.  The worker     *)
(* belongs to another project and is modelled from how this code uses it;  *)
(* it outlives a hook that is killed.                                      *)
(***************************************************************************)
EXTENDS Naturals

CONSTANTS
    Hook,        \* the invocations that may be live; each may be used again
    Source,      \* evidence packets, each with the binding it belongs to
    Approval,    \* human authorizations that --authorization may name
    Offline,     \* the binding names an offline dependency
    Alone,       \* the operator runs one invocation at a time
    MaxStarts,   \* bound of the model: invocations
    None,        \* no file
    Torn         \* a file whose writer stopped in the middle

ASSUME OptionAssumption == Offline \in BOOLEAN /\ Alone \in BOOLEAN
ASSUME BoundAssumption == MaxStarts \in Nat

\* The reviews of the result the consumer may record, each by its status and the
\* approval under which it was made.
Key == Approval \cup {"offline-feedback", "received-no-review"}
Revision == [review : {"pending", "failed", "done"}, key : Key]

ASSUME SentinelAssumption ==
    /\ None \notin Source \cup Approval \cup Revision \cup {0, 1, Torn}
    /\ Torn \notin Source \cup Revision

VARIABLES
    file,        \* markers, result and return in the output directory
    attempts,    \* the return-attempt files, by the key in their names
    ret,         \* returns/<feedback>: how far its two files are written
    slot,        \* output/model, owned by the worker: job, attempt, receipt
    revisions,   \* feedback/revisions of the bound flow, owned by the worker
    completed,   \* feedback/result.json of the bound flow
    tried,       \* the review's single model call has been attempted
    hook,        \* of each invocation: its stage (pc) and options (opt), the calls
                 \* counted by produce (outer) and by complete (inner), the revision
                 \* it returns (feedback) and whether that return is the first (initial)
    worker,      \* of each hook: the process it has started
    calls,       \* history: model calls made
    reported,    \* history: sum of the counts reported
    unknown,     \* history: a count was reported as unknown, or never
    misreported, \* history: invocations that reported a count although what their
                 \* worker had done was unknown
    asked,       \* history: feedback workers started under each key
    starts       \* invocations so far

disk == <<file, attempts, ret>>
flow == <<slot, revisions, completed, tried>>
history == <<calls, reported, unknown, misreported, asked>>
vars == <<file, attempts, ret, slot, revisions, completed, tried, hook, worker,
          calls, reported, unknown, misreported, asked, starts>>

Option == [command   : {"produce", "complete"},
           source    : Source,
           approval  : Approval \cup {None},
           synthetic : BOOLEAN,
           defer     : BOOLEAN]

NoWorker == [stage |-> "none", phase |-> "none", able |-> FALSE, source |-> None,
             key |-> None, count |-> 0, ok |-> TRUE]
Idle == [pc |-> "idle", opt |-> None, outer |-> 0, inner |-> 0,
         feedback |-> None, initial |-> FALSE]

Marker == {"uncertain", "failed"}
Stages == {"idle", "produce", "research", "mark-unknown", "mark-failed",
           "complete", "save-result", "return", "attempt", "save-attempt",
           "ask", "feedback", "publish", "publish-readback",
           "initial-response", "initial-readback"}

Init ==
    /\ file = [n \in Marker \cup {"result", "response", "readback"} |-> None]
    /\ attempts = {}
    /\ ret = [f \in Revision |-> "none"]
    /\ slot = [job |-> None, attempt |-> None, receipt |-> None]
    /\ revisions = {} /\ completed = None /\ tried = FALSE
    /\ hook = [h \in Hook |-> Idle]
    /\ worker = [h \in Hook |-> NoWorker]
    /\ calls = 0 /\ reported = 0 /\ unknown = FALSE /\ misreported = 0
    /\ asked = [k \in Key |-> 0]
    /\ starts = 0

Goto(h, stage) == hook' = [hook EXCEPT ![h].pc = stage]

\* The two ways an invocation ends: with a count of calls, or with null.
\* The count is what produce and complete have counted together.
\* [faulty] Only what complete counted survives.
CountedOnce(h) == hook[h].inner
Counted(h) == hook[h].outer + hook[h].inner
Leave(h) == hook' = [hook EXCEPT ![h] = Idle]
EndWith(h, n) ==
    /\ Leave(h)
    /\ reported' = reported + n
    /\ UNCHANGED <<calls, unknown, misreported, asked>>
End(h) == EndWith(h, Counted(h))
EndUnknown(h) ==
    /\ Leave(h)
    /\ unknown' = TRUE
    /\ UNCHANGED <<calls, reported, misreported, asked>>
\* An error that carries no count takes the place of the unknown outcome: what has been
\* counted before is reported.
EndMisreported(h) ==
    /\ Leave(h)
    /\ reported' = reported + Counted(h)
    /\ misreported' = misreported + 1
    /\ UNCHANGED <<calls, unknown, asked>>

\* The members of Hook are interchangeable: a new invocation takes the first free one.
Free(h) == hook[h].pc = "idle" /\ worker[h] = NoWorker

Start(h) ==
    /\ Free(h) /\ h = CHOOSE g \in Hook : Free(g)
    /\ Alone => \A g \in Hook : hook[g].pc = "idle"
    /\ starts < MaxStarts /\ starts' = starts + 1
    /\ \E o \in Option :
         hook' = [hook EXCEPT ![h] = [Idle EXCEPT !.pc = o.command, !.opt = o]]
    /\ UNCHANGED <<disk, flow, worker, history>>

\* Binding, evidence, dates, what the worker left or its script fail a check.
CheckRaises(h) ==
    /\ hook[h].pc \in {"produce", "complete", "return", "ask"}
    /\ End(h)
    /\ UNCHANGED <<disk, flow, worker, starts>>

-----------------------------------------------------------------------------
(* produce, up to the dispatch.                                            *)

Marked == \E n \in Marker : file[n] # None
ReceiptIs(status) == slot.receipt # None /\ slot.receipt.status = status

\* A marker, of this source or another, or unreadable, ends the invocation.
MarkerFound(h) ==
    /\ hook[h].pc = "produce" /\ Marked
    /\ End(h)
    /\ UNCHANGED <<disk, flow, worker, starts>>

ResultFound(h) ==
    /\ hook[h].pc = "produce" /\ ~Marked /\ file["result"] # None
    /\ Goto(h, "complete")
    /\ UNCHANGED <<disk, flow, worker, history, starts>>

FailedReceiptFound(h) ==
    /\ hook[h].pc = "produce" /\ ~Marked /\ file["result"] = None
    /\ ReceiptIs("ANALYSIS_FAILED")
    /\ End(h)
    /\ UNCHANGED <<disk, flow, worker, starts>>

\* [faulty] A dispatch whose outcome is unknown does not close the slot.
OpenIgnoringUnknown == file["failed"] = None /\ file["result"] = None
                       /\ ~ReceiptIs("ANALYSIS_FAILED")
Open == ~Marked /\ file["result"] = None /\ ~ReceiptIs("ANALYSIS_FAILED")

Refused(h, inject) == Offline /\ inject /\ ~hook[h].opt.synthetic
Able(h, inject) == hook[h].opt.approval # None \/ (Offline /\ inject /\ hook[h].opt.synthetic)

Research(h) ==
    /\ hook[h].pc = "produce" /\ Open
    /\ \/ Refused(h, TRUE) /\ End(h) /\ UNCHANGED worker
       \/ /\ ~Refused(h, TRUE)
          /\ worker' = [worker EXCEPT ![h] =
                [NoWorker EXCEPT !.stage = "research", !.phase = "started",
                                 !.able = Able(h, TRUE), !.source = hook[h].opt.source]]
          /\ Goto(h, "research")
          /\ UNCHANGED history
    /\ UNCHANGED <<disk, flow, starts>>

-----------------------------------------------------------------------------
(* The worker: the consumer's script, run as a process of its own.  It      *)
(* records an attempt before the one call it may make, and reports how many *)
(* calls it made in its last line.                                          *)

Waiting(h) == hook[h].pc \in {"research", "feedback"}

\* A worker that has ended waits to be read, or vanishes with its reader.
WorkerEnds(h, n, fine) ==
    worker' = [worker EXCEPT ![h] =
        IF Waiting(h) THEN [@ EXCEPT !.phase = "ended", !.count = n, !.ok = fine]
                      ELSE NoWorker]

ResearchWorkerCalls(h) ==
    /\ worker[h].stage = "research" /\ worker[h].phase = "started" /\ worker[h].able
    /\ slot.job \in {None, worker[h].source} /\ slot.attempt = None
    /\ slot' = [slot EXCEPT !.job = worker[h].source, !.attempt = worker[h].source]
    /\ calls' = calls + 1
    /\ worker' = [worker EXCEPT ![h].phase = "called"]
    /\ UNCHANGED <<disk, revisions, completed, tried, hook, reported,
                   unknown, misreported, asked, starts>>

ResearchWorkerAnswers(h) ==
    /\ worker[h].stage = "research" /\ worker[h].phase = "called"
    /\ \E status \in {"ANALYSIS_COMPLETED", "ANALYSIS_FAILED"} :
         slot' = [slot EXCEPT !.receipt = [source |-> worker[h].source, status |-> status]]
    /\ WorkerEnds(h, 1, TRUE)
    /\ UNCHANGED <<disk, revisions, completed, tried, hook, history, starts>>

\* Without an approval, or with the attempt used up, it only prepares the job.
ResearchWorkerPrepares(h) ==
    /\ worker[h].stage = "research" /\ worker[h].phase = "started"
    /\ ~worker[h].able \/ slot.attempt # None \/ slot.job \notin {None, worker[h].source}
    /\ slot' = [slot EXCEPT !.job = IF @ = None THEN worker[h].source ELSE @]
    /\ \E fine \in BOOLEAN : WorkerEnds(h, 0, fine)
    /\ UNCHANGED <<disk, revisions, completed, tried, hook, history, starts>>

FeedbackWorkerCalls(h) ==
    /\ worker[h].stage = "feedback" /\ worker[h].phase = "started" /\ worker[h].able
    /\ ~tried /\ tried' = TRUE
    /\ calls' = calls + 1
    /\ worker' = [worker EXCEPT ![h].phase = "called"]
    /\ UNCHANGED <<disk, slot, revisions, completed, hook, reported,
                   unknown, misreported, asked, starts>>

FeedbackWorkerAnswers(h) ==
    /\ worker[h].stage = "feedback" /\ worker[h].phase = "called"
    /\ \E review \in {"failed", "done"} :
         LET f == [review |-> review, key |-> worker[h].key] IN
         /\ revisions' = revisions \cup {f}
         /\ completed' = IF review = "done" THEN f ELSE completed
    /\ WorkerEnds(h, 1, TRUE)
    /\ UNCHANGED <<disk, slot, tried, hook, history, starts>>

FeedbackWorkerReceives(h) ==
    /\ worker[h].stage = "feedback" /\ worker[h].phase = "started"
    /\ ~worker[h].able \/ tried
    /\ \/ revisions' = revisions \cup {[review |-> "pending", key |-> worker[h].key]}
       \/ UNCHANGED revisions
    /\ \E fine \in BOOLEAN : WorkerEnds(h, 0, fine)
    /\ UNCHANGED <<disk, slot, completed, tried, hook, history, starts>>

\* It stops early: its report is unreadable, or says what it did before it failed.
WorkerFails(h) ==
    /\ worker[h].phase \in {"started", "called"}
    /\ \/ WorkerEnds(h, None, TRUE)
       \/ \E fine \in BOOLEAN :
            WorkerEnds(h, IF worker[h].phase = "called" THEN 1 ELSE 0, fine)
    /\ UNCHANGED <<disk, flow, hook, history, starts>>

-----------------------------------------------------------------------------
(* The hook reads the worker's report.                                     *)

Reported(h, n) == /\ worker[h].phase = "ended" /\ worker[h].count = n
                  /\ worker' = [worker EXCEPT ![h] = NoWorker]

\* [faulty] The wait for the worker has no bound.
ReportUnreadable(h) == Reported(h, None)
\* The call timed out and the worker is killed, or the report cannot be read.
ReportLost(h) ==
    \/ worker[h].phase \in {"started", "called"} /\ worker' = [worker EXCEPT ![h] = NoWorker]
    \/ Reported(h, None)

\* The output cannot be decoded: neither clause around the call catches that error, so
\* nothing is marked and no count is unknown.
ReportUndecodable(h) ==
    /\ Waiting(h) /\ Reported(h, worker[h].count)
    /\ EndMisreported(h)
    /\ UNCHANGED <<disk, flow, starts>>

ResearchLost(h) ==
    /\ hook[h].pc = "research" /\ ReportLost(h)
    /\ Goto(h, "mark-unknown")
    /\ UNCHANGED <<disk, flow, history, starts>>

GoWith(h, stage, n) == hook' = [hook EXCEPT ![h].pc = stage, ![h].outer = n]

ResearchReturns(h) ==
    /\ hook[h].pc = "research"
    /\ \E n \in {0, 1} :
         /\ Reported(h, n)
         /\ CASE worker[h].ok /\ slot.receipt = None /\ n > 0 ->
                   GoWith(h, "mark-failed", n) /\ UNCHANGED history
              [] worker[h].ok /\ ReceiptIs("ANALYSIS_COMPLETED") ->
                   GoWith(h, "complete", n) /\ UNCHANGED history
              [] OTHER -> EndWith(h, n)
    /\ UNCHANGED <<disk, flow, starts>>

FeedbackLost(h) ==
    /\ hook[h].pc = "feedback" /\ ReportLost(h)
    /\ EndUnknown(h)
    /\ UNCHANGED <<disk, flow, starts>>

\* [faulty] Unless a review was completed, the return is taken to be the one that
\* the consumer records without a review.
CandidatesAssumed ==
    IF \E f \in revisions : f.review = "done"
      THEN {f \in revisions : f.review = "done"}
      ELSE {[review |-> "pending", key |-> "received-no-review"]}
\* A revision for this result, one that was reviewed if there is one.
Candidates == IF \E f \in revisions : f.review = "done"
                THEN {f \in revisions : f.review = "done"} ELSE revisions

FeedbackReturns(h) ==
    /\ hook[h].pc = "feedback"
    /\ \E n \in {0, 1} :
         /\ Reported(h, n)
         /\ \/ /\ ~worker[h].ok \/ revisions = {}
               /\ EndWith(h, hook[h].outer + n)
            \/ /\ worker[h].ok
               /\ \E f \in Candidates :
                    hook' = [hook EXCEPT ![h] =
                        [@ EXCEPT !.pc = "publish", !.inner = n, !.feedback = f,
                                  !.initial = file["response"] = None]]
               /\ UNCHANGED history
    /\ UNCHANGED <<disk, flow, starts>>

-----------------------------------------------------------------------------
(* Files are created exclusively; an existing file must hold the same.      *)

Written(n, v) == /\ file[n] \in {None, v}
                 /\ file' = [file EXCEPT ![n] = v]
Differs(n, v) == file[n] \notin {None, v} /\ UNCHANGED file

MarkUnknown(h) ==
    /\ hook[h].pc = "mark-unknown"
    /\ \/ Written("uncertain", hook[h].opt.source) /\ EndUnknown(h)
       \/ Differs("uncertain", hook[h].opt.source) /\ EndMisreported(h)
    /\ UNCHANGED <<attempts, ret, flow, worker, starts>>

MarkFailed(h) ==
    /\ hook[h].pc = "mark-failed"
    /\ Written("failed", hook[h].opt.source) \/ Differs("failed", hook[h].opt.source)
    /\ End(h)
    /\ UNCHANGED <<attempts, ret, flow, worker, starts>>

\* complete: the receipt must prove a successful analysis of this evidence.
Complete(h) ==
    /\ hook[h].pc = "complete"
    /\ \/ /\ slot.receipt = [source |-> hook[h].opt.source, status |-> "ANALYSIS_COMPLETED"]
          /\ Goto(h, "save-result")
          /\ UNCHANGED history
       \/ /\ slot.receipt # [source |-> hook[h].opt.source, status |-> "ANALYSIS_COMPLETED"]
          /\ End(h)
    /\ UNCHANGED <<disk, flow, worker, starts>>

SaveResult(h) ==
    /\ hook[h].pc = "save-result"
    /\ \/ Written("result", hook[h].opt.source) /\ Goto(h, "return") /\ UNCHANGED history
       \/ Differs("result", hook[h].opt.source) /\ End(h)
    /\ UNCHANGED <<attempts, ret, flow, worker, starts>>

\* [faulty] The return already published stands for the latest revision.
LatestIsPublished == file["response"]
\* The return already published, or the review completed after it.
Latest == IF completed = None THEN file["response"] ELSE completed
CanResume(h) == /\ Latest.review = "pending" /\ ~hook[h].opt.defer
                /\ Able(h, TRUE)

FirstReturn(h) ==
    /\ hook[h].pc = "return" /\ file["response"] = None
    /\ Goto(h, "attempt")
    /\ UNCHANGED <<disk, flow, worker, history, starts>>

\* A return without its readback, or with another's, raises.
ReturnTorn(h) ==
    /\ hook[h].pc = "return" /\ file["response"] # None
    /\ file["response"] = Torn \/ file["readback"] # file["response"]
    /\ End(h)
    /\ UNCHANGED <<disk, flow, worker, starts>>

ReturnFound(h) ==
    /\ hook[h].pc = "return" /\ file["response"] \notin {None, Torn}
    /\ file["readback"] = file["response"]
    /\ \/ CanResume(h) /\ Goto(h, "attempt")
       \/ /\ ~CanResume(h)
          /\ hook' = [hook EXCEPT ![h].pc = "publish", ![h].feedback = Latest]
    /\ UNCHANGED <<disk, flow, worker, history, starts>>

-----------------------------------------------------------------------------
(* The return: one attempt for an approval, then the consumer's review.     *)

KeyOf(o) == IF o.approval # None THEN o.approval
            ELSE IF o.synthetic /\ ~o.defer THEN "offline-feedback"
            ELSE "received-no-review"

CheckAttempt(h) ==
    /\ hook[h].pc = "attempt"
    /\ \/ KeyOf(hook[h].opt) \in attempts /\ End(h)
       \/ KeyOf(hook[h].opt) \notin attempts /\ Goto(h, "save-attempt") /\ UNCHANGED history
    /\ UNCHANGED <<disk, flow, worker, starts>>

\* [faulty] The attempt is recorded by its outcome only.
SaveNoAttempt(h) ==
    /\ hook[h].pc = "save-attempt"
    /\ Goto(h, "ask")
    /\ UNCHANGED <<disk, flow, worker, history, starts>>
SaveAttempt(h) ==
    /\ hook[h].pc = "save-attempt"
    /\ attempts' = attempts \cup {KeyOf(hook[h].opt)}
    /\ Goto(h, "ask")
    /\ UNCHANGED <<file, ret, flow, worker, history, starts>>

Ask(h) ==
    /\ hook[h].pc = "ask"
    /\ \/ Refused(h, ~hook[h].opt.defer) /\ End(h) /\ UNCHANGED worker
       \/ /\ ~Refused(h, ~hook[h].opt.defer)
          /\ worker' = [worker EXCEPT ![h] =
                [NoWorker EXCEPT !.stage = "feedback", !.phase = "started",
                                 !.able = Able(h, ~hook[h].opt.defer), !.key = KeyOf(hook[h].opt)]]
          /\ asked' = [asked EXCEPT ![KeyOf(hook[h].opt)] = @ + 1]
          /\ Goto(h, "feedback")
          /\ UNCHANGED <<calls, reported, unknown, misreported>>
    /\ UNCHANGED <<disk, flow, starts>>

\* publish_readback: the two files under returns, then the two of the first return.
Publish(h) ==
    /\ hook[h].pc = "publish"
    /\ \/ ret[hook[h].feedback] = "torn" /\ End(h) /\ UNCHANGED ret
       \/ /\ ret[hook[h].feedback] # "torn"
          /\ ret' = [ret EXCEPT ![hook[h].feedback] = IF @ = "none" THEN "response" ELSE @]
          /\ Goto(h, "publish-readback")
          /\ UNCHANGED history
    /\ UNCHANGED <<file, attempts, flow, worker, starts>>

PublishReadback(h) ==
    /\ hook[h].pc = "publish-readback"
    /\ ret' = [ret EXCEPT ![hook[h].feedback] = "both"]
    /\ IF hook[h].initial THEN Goto(h, "initial-response") /\ UNCHANGED history ELSE End(h)
    /\ UNCHANGED <<file, attempts, flow, worker, starts>>

PublishInitial(h) ==
    /\ hook[h].pc = "initial-response"
    /\ \/ Written("response", hook[h].feedback) /\ Goto(h, "initial-readback") /\ UNCHANGED history
       \/ Differs("response", hook[h].feedback) /\ End(h)
    /\ UNCHANGED <<attempts, ret, flow, worker, starts>>

PublishInitialReadback(h) ==
    /\ hook[h].pc = "initial-readback"
    /\ Written("readback", hook[h].feedback) \/ Differs("readback", hook[h].feedback)
    /\ End(h)
    /\ UNCHANGED <<attempts, ret, flow, worker, starts>>

-----------------------------------------------------------------------------
(* A write stopped by an error or a kill may leave nothing, or a torn file. *)

Target(h) == CASE hook[h].pc = "mark-unknown" -> "uncertain"
               [] hook[h].pc = "mark-failed" -> "failed"
               [] hook[h].pc = "save-result" -> "result"
               [] hook[h].pc = "initial-response" -> "response"
               [] hook[h].pc = "initial-readback" -> "readback"
               [] OTHER -> "none"

WriteStops(h) ==
    \/ /\ Target(h) # "none" /\ file[Target(h)] = None
       /\ file' = [file EXCEPT ![Target(h)] = Torn]
       /\ UNCHANGED <<attempts, ret>>
    \/ /\ hook[h].pc = "save-attempt"
       /\ attempts' = attempts \cup {KeyOf(hook[h].opt)}
       /\ UNCHANGED <<file, ret>>
    \/ /\ \/ hook[h].pc = "publish" /\ ret[hook[h].feedback] = "none"
          \/ hook[h].pc = "publish-readback" /\ ret[hook[h].feedback] = "response"
       /\ ret' = [ret EXCEPT ![hook[h].feedback] = "torn"]
       /\ UNCHANGED <<file, attempts>>
    \/ UNCHANGED disk

WriteRaises(h) ==
    /\ hook[h].pc \in {"mark-failed", "save-result", "save-attempt", "publish",
                  "publish-readback", "initial-response", "initial-readback"}
    /\ WriteStops(h)
    /\ End(h)
    /\ UNCHANGED <<flow, worker, starts>>

\* The marker of an unknown outcome cannot be written.
MarkRaises(h) ==
    /\ hook[h].pc = "mark-unknown"
    /\ WriteStops(h)
    /\ EndMisreported(h)
    /\ UNCHANGED <<flow, worker, starts>>

Kill(h) ==
    /\ hook[h].pc # "idle"
    /\ WriteStops(h)
    /\ worker' = IF worker[h].phase = "ended" THEN [worker EXCEPT ![h] = NoWorker] ELSE worker
    /\ EndUnknown(h)
    /\ UNCHANGED <<flow, starts>>

HookStep(h) ==
    \/ CheckRaises(h) \/ MarkerFound(h) \/ ResultFound(h) \/ FailedReceiptFound(h)
    \/ Research(h) \/ ResearchLost(h) \/ ResearchReturns(h) \/ MarkUnknown(h)
    \/ MarkFailed(h) \/ Complete(h) \/ SaveResult(h) \/ FirstReturn(h) \/ ReturnTorn(h)
    \/ ReturnFound(h) \/ CheckAttempt(h) \/ SaveAttempt(h) \/ Ask(h)
    \/ FeedbackLost(h) \/ FeedbackReturns(h) \/ Publish(h) \/ PublishReadback(h)
    \/ PublishInitial(h) \/ PublishInitialReadback(h) \/ WriteRaises(h)
    \/ MarkRaises(h) \/ ReportUndecodable(h)

WorkerStep(h) ==
    \/ ResearchWorkerCalls(h) \/ ResearchWorkerAnswers(h) \/ ResearchWorkerPrepares(h)
    \/ FeedbackWorkerCalls(h) \/ FeedbackWorkerAnswers(h) \/ FeedbackWorkerReceives(h)
    \/ WorkerFails(h)

Quiet == (\A h \in Hook : hook[h].pc = "idle") /\ starts = MaxStarts /\ UNCHANGED vars

Next ==
    \/ \E h \in Hook : Start(h) \/ HookStep(h) \/ WorkerStep(h) \/ Kill(h)
    \/ Quiet

Spec == Init /\ [][Next]_vars

\* The live invocation is a running process, and its wait for the worker is bounded
\* by the timeout.  Nothing is assumed of the operator, of kills or of the worker.
FairSpec == Spec /\ WF_vars(\E h \in Hook : HookStep(h))

-----------------------------------------------------------------------------
(* Properties.                                                             *)

File == {"uncertain", "failed", "result", "response", "readback"}
Slot == [job : Source \cup {None}, attempt : Source \cup {None},
         receipt : [source : Source, status : {"ANALYSIS_COMPLETED", "ANALYSIS_FAILED"}]
                   \cup {None}]
Worker == [stage : {"none", "research", "feedback"},
           phase : {"none", "started", "called", "ended"}, able : BOOLEAN,
           source : Source \cup {None}, key : Key \cup {None}, count : {0, 1, None}, ok : BOOLEAN]

\* Every variable has its type; a return file holds a revision that exists.
TypeOK ==
    /\ file \in [File -> Source \cup Revision \cup {None, Torn}]
    /\ \A n \in {"uncertain", "failed", "result"} : file[n] \in Source \cup {None, Torn}
    /\ \A n \in {"response", "readback"} : file[n] \in revisions \cup {None, Torn}
    /\ attempts \subseteq Key
    /\ ret \in [Revision -> {"none", "response", "both", "torn"}]
    /\ slot \in Slot
    /\ revisions \subseteq Revision
    /\ completed \in revisions \cup {None}
    /\ tried \in BOOLEAN
    /\ hook \in [Hook -> [pc : Stages, opt : Option \cup {None}, outer : {0, 1}, inner : {0, 1},
                        feedback : revisions \cup {None}, initial : BOOLEAN]]
    /\ worker \in [Hook -> Worker]
    /\ calls \in Nat /\ reported \in Nat /\ misreported \in Nat /\ starts \in 0..MaxStarts
    /\ unknown \in BOOLEAN
    /\ asked \in [Key -> Nat]

AtRest == \A h \in Hook : hook[h].pc = "idle" /\ worker[h] = NoWorker

\* Through both layers of counting and every failure and kill, no call is reported twice.
\* And while no invocation has reported an unknown count or been killed, the reports fall
\* short of the calls that were made by at most one for each invocation that reported a
\* number though the outcome of its worker was unknown (`invocation`, `counted`): its
\* worker's output could not be decoded, or the marker of the outcome not be written.
CostIsReported ==
    /\ reported <= calls
    /\ AtRest /\ ~unknown => calls <= reported + misreported

\* The consumer is asked to review the result at most once under each approval,
\* whatever failed or was killed in between: "no automatic retry" (`_complete`).
AskedOncePerApproval == \A k \in Key : asked[k] <= 1

\* Once the outcome of the model call is recorded as failed or unknown, no worker that
\* an invocation still waits for makes another one; only a worker that outlived its
\* killed invocation may.
PaidSlotStaysClosed ==
    [][\A h \in Hook :
         /\ Marked
         /\ worker[h].stage = "research"
         /\ worker[h].phase = "started" /\ worker'[h].phase = "called"
         => hook[h].pc = "idle"]_vars

\* A return that was published while its review was pending is not put up for review
\* again once the review has been completed, by whichever worker completed it.
CompletedReviewIsFinal ==
    [][\A h \in Hook :
         /\ completed # None /\ file["response"] # None
         /\ hook[h].pc = "return"
         => hook'[h].pc # "attempt"]_vars

\* Every invocation ends: a worker that hangs is cut off by the timeout.
AllIdle == \A h \in Hook : hook[h].pc = "idle"
InvocationsEnd == ~AllIdle ~> AllIdle
=============================================================================
