------------------------- MODULE NativeResearchProofs -------------------------
(***************************************************************************)
(* Properties of native_research_completion for any number of hooks,       *)
(* packets, approvals and invocations.  The types hold however many        *)
(* invocations are live; the rest when the operator runs one at a time.    *)
(* The argument: the live invocation is alone with the disk, so what it    *)
(* has checked (no marker, no attempt under its key) still holds when it   *)
(* acts; what the live invocation and its worker have still to report is   *)
(* covered by calls that nobody has reported; and until an outcome is      *)
(* unknown, only calls that an invocation misreports are missing.          *)
(***************************************************************************)
EXTENDS NativeResearch, TLAPS

\* An option names a key.
LEMMA KeyIsKey == ASSUME NEW o \in Option PROVE KeyOf(o) \in Key
BY DEF KeyOf, Key, Option

\* What ResearchReturns does with its count.
LEMMA ResearchReturnsDoes ==
    ASSUME NEW h \in Hook, ResearchReturns(h)
    PROVE /\ hook[h].pc = "research" /\ UNCHANGED <<disk, flow, starts>>
          /\ \E n \in {0, 1} :
               /\ Reported(h, n)
               /\ \/ EndWith(h, n)
                  \/ (GoWith(h, "mark-failed", n) \/ GoWith(h, "complete", n)) /\ UNCHANGED history
BY Zenon DEF ResearchReturns

-----------------------------------------------------------------------------
(* The types, which need no operator to run one invocation at a time.  A     *)
(* return names a revision that exists, as revisions are only added; and a   *)
(* worker has the packet or the key it was started for.                      *)

HookNow == [pc : Stages, opt : Option \cup {None}, outer : {0, 1}, inner : {0, 1},
            feedback : revisions \cup {None}, initial : BOOLEAN]
Files == /\ file \in [File -> Source \cup Revision \cup {None, Torn}]
         /\ \A n \in {"uncertain", "failed", "result"} : file[n] \in Source \cup {None, Torn}
         /\ \A n \in {"response", "readback"} : file[n] \in revisions \cup {None, Torn}
         /\ attempts \subseteq Key
         /\ ret \in [Revision -> {"none", "response", "both", "torn"}]
Flow == /\ slot \in Slot /\ revisions \subseteq Revision /\ completed \in revisions \cup {None}
        /\ tried \in BOOLEAN
Hooks == /\ hook \in [Hook -> HookNow]
         /\ \A h \in Hook : hook[h].pc # "idle" => hook[h].opt \in Option
Given(w) == /\ w.stage = "research" => w.source \in Source
            /\ w.stage = "feedback" => w.key \in Key
Processes == worker \in [Hook -> Worker] /\ \A h \in Hook : Given(worker[h])
Records == /\ calls \in Nat /\ reported \in Nat /\ misreported \in Nat
           /\ starts \in 0..MaxStarts /\ unknown \in BOOLEAN /\ asked \in [Key -> Nat]
Typed == Files /\ Flow /\ Hooks /\ Processes /\ Records

\* What a step does to one invocation keeps the types if it does so there.
LEMMA HookMoves ==
    ASSUME Hooks, NEW h \in Hook, revisions' = revisions, NEW r \in HookNow,
           r.pc # "idle" => r.opt \in Option, hook' = [hook EXCEPT ![h] = r]
    PROVE Hooks'
<1>1. HookNow' = HookNow
  BY DEF HookNow
<1> QED
  BY <1>1 DEF Hooks

LEMMA Hops ==
    ASSUME Hooks, NEW h \in Hook, revisions' = revisions
    PROVE /\ Leave(h) => Hooks'
          /\ hook[h].pc # "idle" => \A s \in Stages : Goto(h, s) => Hooks'
          /\ hook[h].pc # "idle" => \A s \in Stages, n \in {0, 1} : GoWith(h, s, n) => Hooks'
<1>1. hook[h] \in HookNow /\ hook \in [Hook -> HookNow]
  BY DEF Hooks
<1>2. ASSUME Leave(h) PROVE Hooks'
  <2>1. Idle \in HookNow /\ Idle.pc = "idle"
    BY DEF Idle, HookNow, Stages
  <2> QED
    BY <1>2, <2>1, HookMoves DEF Leave
<1>3. ASSUME hook[h].pc # "idle", NEW s \in Stages, Goto(h, s) PROVE Hooks'
  <2> DEFINE r == [hook[h] EXCEPT !.pc = s]
  <2>1. r \in HookNow /\ r.opt \in Option
    BY <1>1, <1>3 DEF HookNow, Hooks
  <2>2. hook' = [hook EXCEPT ![h] = r]
    BY <1>1, <1>3 DEF Goto
  <2> HIDE DEF r
  <2> QED
    BY <2>1, <2>2, HookMoves
<1>4. ASSUME hook[h].pc # "idle", NEW s \in Stages, NEW n \in {0, 1}, GoWith(h, s, n)
      PROVE Hooks'
  <2> DEFINE x == [hook[h] EXCEPT !.pc = s]
             r == [x EXCEPT !.outer = n]
  <2>1. x \in HookNow /\ x.opt \in Option
    BY <1>1, <1>4 DEF HookNow, Hooks
  <2>2. hook' = [hook EXCEPT ![h] = r]
    BY <1>1, <1>4 DEF GoWith
  <2> HIDE DEF x
  <2>3. r \in HookNow /\ r.opt \in Option
    BY <2>1 DEF HookNow
  <2> HIDE DEF r
  <2> QED
    BY <2>2, <2>3, HookMoves
<1> QED
  BY <1>2, <1>3, <1>4

LEMMA HooksStay == ASSUME Hooks, revisions \subseteq revisions', hook' = hook PROVE Hooks'
<1>1. \A r \in HookNow : r \in HookNow'
  BY DEF HookNow
<1> QED
  BY <1>1 DEF Hooks

LEMMA FilesStay == ASSUME Files, revisions \subseteq revisions', UNCHANGED disk PROVE Files'
BY DEF Files, disk

LEMMA ProcessMoves ==
    ASSUME Processes, NEW h \in Hook, NEW w \in Worker, Given(w),
           worker' = [worker EXCEPT ![h] = w]
    PROVE Processes'
BY DEF Processes

LEMMA ProcessOps ==
    ASSUME Processes, NEW h \in Hook
    PROVE /\ worker' = [worker EXCEPT ![h] = NoWorker] => Processes'
          /\ worker' = [worker EXCEPT ![h].phase = "called"] => Processes'
          /\ \A n \in {0, 1, None}, fine \in BOOLEAN : WorkerEnds(h, n, fine) => Processes'
          /\ worker' = worker => Processes'
<1>1. worker[h] \in Worker /\ Given(worker[h]) /\ worker \in [Hook -> Worker]
  BY DEF Processes
<1>2. NoWorker \in Worker /\ Given(NoWorker)
  BY DEF NoWorker, Worker, Given
<1>3. ASSUME worker' = [worker EXCEPT ![h].phase = "called"] PROVE Processes'
  <2> DEFINE w == [worker[h] EXCEPT !.phase = "called"]
  <2>1. w \in Worker /\ Given(w) /\ worker' = [worker EXCEPT ![h] = w]
    BY <1>1, <1>3 DEF Worker, Given
  <2> HIDE DEF w
  <2> QED
    BY <2>1, ProcessMoves
<1>4. ASSUME NEW n \in {0, 1, None}, NEW fine \in BOOLEAN, WorkerEnds(h, n, fine)
      PROVE Processes'
  <2> DEFINE w == [worker[h] EXCEPT !.phase = "ended", !.count = n, !.ok = fine]
             x == [worker[h] EXCEPT !.phase = "ended"]
             y == [x EXCEPT !.count = n]
             z == [y EXCEPT !.ok = fine]
  <2>1. x \in Worker /\ x.stage = worker[h].stage /\ x.source = worker[h].source
        /\ x.key = worker[h].key
    BY <1>1 DEF Worker
  <2>2. w = z
    BY <1>1 DEF Worker
  <2> HIDE DEF x
  <2>3. y \in Worker /\ y.stage = x.stage /\ y.source = x.source /\ y.key = x.key
    BY <2>1 DEF Worker
  <2> HIDE DEF y
  <2>4. z \in Worker /\ z.stage = y.stage /\ z.source = y.source /\ z.key = y.key
    BY <2>3 DEF Worker
  <2> HIDE DEF z
  <2>5. w \in Worker /\ Given(w)
    BY <1>1, <2>1, <2>2, <2>3, <2>4 DEF Given
  <2>6. worker' = [worker EXCEPT ![h] = IF Waiting(h) THEN w ELSE NoWorker]
    BY <1>4, Zenon DEF WorkerEnds
  <2> HIDE DEF w
  <2>7. CASE Waiting(h)
    BY <2>5, <2>6, <2>7, ProcessMoves
  <2>8. CASE ~Waiting(h)
    BY <1>2, <2>6, <2>8, ProcessMoves
  <2> QED
    BY <2>7, <2>8
<1>5. ASSUME worker' = [worker EXCEPT ![h] = NoWorker] PROVE Processes'
  BY <1>2, <1>5, ProcessMoves
<1>6. ASSUME worker' = worker PROVE Processes'
  BY <1>6 DEF Processes
<1> QED
  BY <1>3, <1>4, <1>5, <1>6

\* The ways an invocation ends keep the counts.
LEMMA RecordsOf ==
    ASSUME Records, Hooks, NEW h \in Hook, starts' = starts
    PROVE /\ UNCHANGED history => Records'
          /\ \A n \in Nat : EndWith(h, n) => Records'
          /\ End(h) => Records'
          /\ EndUnknown(h) => Records'
          /\ EndMisreported(h) => Records'
          /\ hook[h].outer \in Nat /\ Counted(h) \in Nat
<1>1. hook[h].outer \in {0, 1} /\ hook[h].inner \in {0, 1}
  BY DEF Hooks, HookNow
<1>2. hook[h].outer \in Nat /\ Counted(h) \in Nat
  BY <1>1 DEF Counted
<1>3. ASSUME NEW n \in Nat, EndWith(h, n) PROVE Records'
  BY <1>3 DEF EndWith, Records
<1>4. UNCHANGED history => Records'
  BY DEF history, Records
<1>5. EndUnknown(h) => Records'
  BY DEF EndUnknown, Records
<1>6. EndMisreported(h) => Records'
  BY <1>2 DEF EndMisreported, Records
<1> QED
  BY <1>2, <1>3, <1>4, <1>5, <1>6 DEF End

LEMMA FlowStays == Flow /\ UNCHANGED flow => Flow'
BY DEF Flow, flow

\* What is written is typed, whole or torn.
LEMMA FileWritten ==
    ASSUME Files, UNCHANGED <<attempts, ret, revisions>>, NEW n, NEW v,
           \/ n \in {"uncertain", "failed", "result"} /\ v \in Source
           \/ n \in {"response", "readback"} /\ v \in revisions \cup {None},
           revisions \subseteq Revision, Written(n, v) \/ Differs(n, v)
    PROVE Files'
<1> n \in File
  BY DEF File
<1>1. \A m \in File : m = n \/ file'[m] = file[m]
  BY DEF Written, Differs, Files
<1>2. file'[n] = v \/ file'[n] = file[n]
  BY DEF Written, Differs, Files
<1>3. file' \in [File -> Source \cup Revision \cup {None, Torn}]
  BY DEF Written, Differs, Files
<1> QED
  BY <1>1, <1>2, <1>3 DEF Files, File

LEMMA WritesStop ==
    ASSUME Files, Hooks, NEW h \in Hook, WriteStops(h), revisions' = revisions
    PROVE Files'
<1>1. CASE /\ Target(h) # "none" /\ file' = [file EXCEPT ![Target(h)] = Torn]
           /\ UNCHANGED <<attempts, ret>>
  BY <1>1 DEF Files, File
<1>2. CASE /\ hook[h].pc = "save-attempt" /\ attempts' = attempts \cup {KeyOf(hook[h].opt)}
           /\ UNCHANGED <<file, ret>>
  <2>1. KeyOf(hook[h].opt) \in Key
    BY <1>2, KeyIsKey DEF Hooks
  <2> QED
    BY <1>2, <2>1 DEF Files
<1>3. CASE ret' = [ret EXCEPT ![hook[h].feedback] = "torn"] /\ UNCHANGED <<file, attempts>>
  BY <1>3 DEF Files
<1>4. CASE UNCHANGED disk
  BY <1>4 DEF Files, disk
<1> QED
  BY <1>1, <1>2, <1>3, <1>4, Zenon DEF WriteStops

\* An invocation keeps its type.
LEMMA HooksStep == Typed /\ [Next]_vars => Hooks'
<1> SUFFICES ASSUME Typed, [Next]_vars PROVE Hooks'
  OBVIOUS
<1> USE DEF Typed, disk, flow, history, End, EndWith, EndUnknown, EndMisreported, Stages
<1>1. ASSUME NEW h \in Hook, Start(h) PROVE Hooks'
  <2>1. PICK o \in Option :
          hook' = [hook EXCEPT ![h] = [Idle EXCEPT !.pc = o.command, !.opt = o]]
    BY <1>1, Zenon DEF Start
  <2>2. [Idle EXCEPT !.pc = o.command, !.opt = o] \in HookNow
    <3>1. o.command \in {"produce", "complete"}
      BY DEF Option
    <3> QED
      BY <3>1 DEF Idle, HookNow, Stages
  <2>3. ([Idle EXCEPT !.pc = o.command, !.opt = o]).opt = o
    BY DEF Idle
  <2>4. revisions' = revisions
    BY <1>1, Zenon DEF Start, flow
  <2> QED
    BY <2>1, <2>2, <2>3, <2>4, HookMoves
<1>2. ASSUME NEW h \in Hook, CheckRaises(h) PROVE Hooks'
  BY <1>2, Hops DEF CheckRaises
<1>3. ASSUME NEW h \in Hook, MarkerFound(h) PROVE Hooks'
  BY <1>3, Hops DEF MarkerFound
<1>4. ASSUME NEW h \in Hook, ResultFound(h) PROVE Hooks'
  BY <1>4, Hops DEF ResultFound
<1>5. ASSUME NEW h \in Hook, FailedReceiptFound(h) PROVE Hooks'
  BY <1>5, Hops DEF FailedReceiptFound
<1>6. ASSUME NEW h \in Hook, Research(h) PROVE Hooks'
  BY <1>6, Hops DEF Research
<1>7. ASSUME NEW h \in Hook, ResearchLost(h) PROVE Hooks'
  BY <1>7, Hops DEF ResearchLost
<1>8. ASSUME NEW h \in Hook, ResearchReturns(h) PROVE Hooks'
  <2>1. PICK n \in {0, 1} :
          EndWith(h, n) \/ GoWith(h, "mark-failed", n) \/ GoWith(h, "complete", n)
    BY <1>8, ResearchReturnsDoes, Zenon
  <2>2. hook[h].pc = "research" /\ revisions' = revisions
    BY <1>8, ResearchReturnsDoes DEF flow
  <2>3. {"mark-failed", "complete"} \subseteq Stages
    BY DEF Stages
  <2> HIDE DEF GoWith
  <2> QED
    BY <2>1, <2>2, <2>3, Hops DEF EndWith
<1>9. ASSUME NEW h \in Hook, MarkUnknown(h) PROVE Hooks'
  BY <1>9, Hops DEF MarkUnknown
<1>10. ASSUME NEW h \in Hook, MarkFailed(h) PROVE Hooks'
  BY <1>10, Hops DEF MarkFailed
<1>11. ASSUME NEW h \in Hook, Complete(h) PROVE Hooks'
  BY <1>11, Hops DEF Complete
<1>12. ASSUME NEW h \in Hook, SaveResult(h) PROVE Hooks'
  BY <1>12, Hops DEF SaveResult
<1>13. ASSUME NEW h \in Hook, FirstReturn(h) PROVE Hooks'
  BY <1>13, Hops DEF FirstReturn
<1>14. ASSUME NEW h \in Hook, ReturnTorn(h) PROVE Hooks'
  BY <1>14, Hops DEF ReturnTorn
<1>15. ASSUME NEW h \in Hook, ReturnFound(h) PROVE Hooks'
  <2>1. /\ hook[h].pc = "return" /\ revisions' = revisions
        /\ \/ Goto(h, "attempt")
           \/ hook' = [hook EXCEPT ![h].pc = "publish", ![h].feedback = Latest]
    BY <1>15, Zenon DEF ReturnFound, flow
  <2>2. CASE Goto(h, "attempt")
    BY <2>1, <2>2, Hops
  <2>3. CASE hook' = [hook EXCEPT ![h].pc = "publish", ![h].feedback = Latest]
    <3> DEFINE x == [hook[h] EXCEPT !.pc = "publish"]
               r == [x EXCEPT !.feedback = Latest]
    <3>1. Latest \in revisions
      BY <1>15 DEF ReturnFound, Latest, Files, Flow
    <3>2. hook[h] \in HookNow /\ hook[h].opt \in Option /\ hook \in [Hook -> HookNow]
      BY <2>1 DEF Hooks
    <3>3. x \in HookNow /\ x.opt \in Option
      BY <3>2 DEF HookNow
    <3>4. hook' = [hook EXCEPT ![h] = r]
      BY <2>3, <3>2 DEF HookNow
    <3> HIDE DEF x
    <3>5. r \in HookNow /\ r.opt \in Option
      BY <3>1, <3>3 DEF HookNow
    <3> HIDE DEF r
    <3> QED
      BY <2>1, <3>4, <3>5, HookMoves
  <2> QED
    BY <2>1, <2>2, <2>3
<1>16. ASSUME NEW h \in Hook, CheckAttempt(h) PROVE Hooks'
  BY <1>16, Hops DEF CheckAttempt
<1>17. ASSUME NEW h \in Hook, SaveAttempt(h) PROVE Hooks'
  BY <1>17, Hops DEF SaveAttempt
<1>18. ASSUME NEW h \in Hook, Ask(h) PROVE Hooks'
  BY <1>18, Hops DEF Ask
<1>19. ASSUME NEW h \in Hook, FeedbackLost(h) PROVE Hooks'
  BY <1>19, Hops DEF FeedbackLost
<1>20. ASSUME NEW h \in Hook, FeedbackReturns(h) PROVE Hooks'
  <2> DEFINE initial == file["response"] = None
             x(n) == [hook[h] EXCEPT !.pc = "publish", !.inner = n]
             y(n, f) == [x(n) EXCEPT !.feedback = f]
             r(n, f) == [hook[h] EXCEPT !.pc = "publish", !.inner = n, !.feedback = f,
                                        !.initial = initial]
  <2>1. PICK n \in {0, 1} :
          \/ EndWith(h, hook[h].outer + n)
          \/ \E f \in Candidates : hook' = [hook EXCEPT ![h] = r(n, f)]
    BY <1>20, Zenon DEF FeedbackReturns
  <2>2. hook[h].pc = "feedback" /\ revisions' = revisions
    BY <1>20, Zenon DEF FeedbackReturns, flow
  <2>3. CASE EndWith(h, hook[h].outer + n)
    BY <2>2, <2>3, Hops DEF EndWith
  <2>4. ASSUME NEW f \in Candidates, hook' = [hook EXCEPT ![h] = r(n, f)] PROVE Hooks'
    <3>1. f \in revisions /\ initial \in BOOLEAN
      BY DEF Candidates
    <3>2. hook[h] \in HookNow /\ hook[h].opt \in Option
      BY <2>2 DEF Hooks
    <3>3. x(n) \in HookNow /\ x(n).opt \in Option
      BY <3>2 DEF HookNow, Stages
    <3>4. r(n, f) = [y(n, f) EXCEPT !.initial = initial]
      BY <3>2 DEF HookNow
    <3> HIDE DEF x, initial, r
    <3>5. y(n, f) \in HookNow /\ y(n, f).opt \in Option
      BY <3>1, <3>3 DEF HookNow
    <3> HIDE DEF y
    <3>6. r(n, f) \in HookNow /\ r(n, f).opt \in Option
      BY <3>1, <3>4, <3>5 DEF HookNow
    <3> QED
      BY <2>2, <2>4, <3>6, HookMoves
  <2> QED
    BY <2>1, <2>3, <2>4
<1>21. ASSUME NEW h \in Hook, Publish(h) PROVE Hooks'
  BY <1>21, Hops DEF Publish
<1>22. ASSUME NEW h \in Hook, PublishReadback(h) PROVE Hooks'
  BY <1>22, Hops DEF PublishReadback
<1>23. ASSUME NEW h \in Hook, PublishInitial(h) PROVE Hooks'
  BY <1>23, Hops DEF PublishInitial
<1>24. ASSUME NEW h \in Hook, PublishInitialReadback(h) PROVE Hooks'
  BY <1>24, Hops DEF PublishInitialReadback
<1>25. ASSUME NEW h \in Hook, WriteRaises(h) PROVE Hooks'
  BY <1>25, Hops DEF WriteRaises
<1>26. ASSUME NEW h \in Hook, MarkRaises(h) PROVE Hooks'
  BY <1>26, Hops DEF MarkRaises
<1>27. ASSUME NEW h \in Hook, ResearchWorkerCalls(h) PROVE Hooks'
  BY <1>27, HooksStay DEF ResearchWorkerCalls
<1>28. ASSUME NEW h \in Hook, ResearchWorkerAnswers(h) PROVE Hooks'
  BY <1>28, HooksStay DEF ResearchWorkerAnswers
<1>29. ASSUME NEW h \in Hook, ResearchWorkerPrepares(h) PROVE Hooks'
  BY <1>29, HooksStay DEF ResearchWorkerPrepares
<1>30. ASSUME NEW h \in Hook, FeedbackWorkerCalls(h) PROVE Hooks'
  BY <1>30, HooksStay DEF FeedbackWorkerCalls
<1>31. ASSUME NEW h \in Hook, FeedbackWorkerAnswers(h) PROVE Hooks'
  <2>1. hook' = hook /\ revisions \subseteq revisions'
    BY <1>31 DEF FeedbackWorkerAnswers
  <2> QED
    BY <2>1, HooksStay
<1>32. ASSUME NEW h \in Hook, FeedbackWorkerReceives(h) PROVE Hooks'
  BY <1>32, HooksStay DEF FeedbackWorkerReceives
<1>33. ASSUME NEW h \in Hook, WorkerFails(h) PROVE Hooks'
  BY <1>33, HooksStay DEF WorkerFails
<1>34. ASSUME NEW h \in Hook, Kill(h) PROVE Hooks'
  BY <1>34, Hops DEF Kill
<1>35. CASE UNCHANGED vars
  BY <1>35, HooksStay DEF vars
<1>36. ASSUME NEW h \in Hook, ReportUndecodable(h) PROVE Hooks'
  BY <1>36, Hops DEF ReportUndecodable
<1> QED
  BY <1>1, <1>2, <1>3, <1>4, <1>5, <1>6, <1>7, <1>8, <1>9, <1>10, <1>11, <1>12, <1>13,
     <1>14, <1>15, <1>16, <1>17, <1>18, <1>19, <1>20, <1>21, <1>22, <1>23, <1>24, <1>25,
     <1>26, <1>27, <1>28, <1>29, <1>30, <1>31, <1>32, <1>33, <1>34, <1>35, <1>36 DEF Next,
     HookStep, WorkerStep, Quiet

\* The files keep their types.
LEMMA FilesStep == Typed /\ [Next]_vars => Files'
<1> SUFFICES ASSUME Typed, [Next]_vars PROVE Files'
  OBVIOUS
<1> USE DEF Typed, flow
<1>1. ASSUME NEW h \in Hook, Start(h) PROVE Files'
  <2>1. UNCHANGED disk /\ revisions' = revisions
    BY <1>1, Zenon DEF Start, flow
  <2> QED
    BY <2>1, FilesStay
<1>2. ASSUME NEW h \in Hook, CheckRaises(h) PROVE Files'
  <2>1. UNCHANGED disk /\ revisions' = revisions
    BY <1>2, Zenon DEF CheckRaises, flow
  <2> QED
    BY <2>1, FilesStay
<1>3. ASSUME NEW h \in Hook, MarkerFound(h) PROVE Files'
  <2>1. UNCHANGED disk /\ revisions' = revisions
    BY <1>3, Zenon DEF MarkerFound, flow
  <2> QED
    BY <2>1, FilesStay
<1>4. ASSUME NEW h \in Hook, ResultFound(h) PROVE Files'
  <2>1. UNCHANGED disk /\ revisions' = revisions
    BY <1>4, Zenon DEF ResultFound, flow
  <2> QED
    BY <2>1, FilesStay
<1>5. ASSUME NEW h \in Hook, FailedReceiptFound(h) PROVE Files'
  <2>1. UNCHANGED disk /\ revisions' = revisions
    BY <1>5, Zenon DEF FailedReceiptFound, flow
  <2> QED
    BY <2>1, FilesStay
<1>6. ASSUME NEW h \in Hook, Research(h) PROVE Files'
  <2>1. UNCHANGED disk /\ revisions' = revisions
    BY <1>6, Zenon DEF Research, flow
  <2> QED
    BY <2>1, FilesStay
<1>7. ASSUME NEW h \in Hook, ResearchLost(h) PROVE Files'
  <2>1. UNCHANGED disk /\ revisions' = revisions
    BY <1>7, Zenon DEF ResearchLost, flow
  <2> QED
    BY <2>1, FilesStay
<1>8. ASSUME NEW h \in Hook, ResearchReturns(h) PROVE Files'
  <2>1. UNCHANGED disk /\ revisions' = revisions
    BY <1>8, Zenon DEF ResearchReturns, flow
  <2> QED
    BY <2>1, FilesStay
<1>9. ASSUME NEW h \in Hook, MarkUnknown(h) PROVE Files'
  <2>1. Written("uncertain", hook[h].opt.source) \/ Differs("uncertain", hook[h].opt.source)
    BY <1>9, Zenon DEF MarkUnknown
  <2>2. hook[h].opt.source \in Source /\ UNCHANGED <<attempts, ret, revisions>>
        /\ revisions \subseteq Revision
    BY <1>9 DEF MarkUnknown, Hooks, Option, Flow
  <2> QED
    BY <2>1, <2>2, FileWritten
<1>10. ASSUME NEW h \in Hook, MarkFailed(h) PROVE Files'
  <2>1. Written("failed", hook[h].opt.source) \/ Differs("failed", hook[h].opt.source)
    BY <1>10, Zenon DEF MarkFailed
  <2>2. hook[h].opt.source \in Source /\ UNCHANGED <<attempts, ret, revisions>>
        /\ revisions \subseteq Revision
    BY <1>10 DEF MarkFailed, Hooks, Option, Flow
  <2> QED
    BY <2>1, <2>2, FileWritten
<1>11. ASSUME NEW h \in Hook, Complete(h) PROVE Files'
  <2>1. UNCHANGED disk /\ revisions' = revisions
    BY <1>11, Zenon DEF Complete, flow
  <2> QED
    BY <2>1, FilesStay
<1>12. ASSUME NEW h \in Hook, SaveResult(h) PROVE Files'
  <2>1. Written("result", hook[h].opt.source) \/ Differs("result", hook[h].opt.source)
    BY <1>12, Zenon DEF SaveResult
  <2>2. hook[h].opt.source \in Source /\ UNCHANGED <<attempts, ret, revisions>>
        /\ revisions \subseteq Revision
    BY <1>12 DEF SaveResult, Hooks, Option, Flow
  <2> QED
    BY <2>1, <2>2, FileWritten
<1>13. ASSUME NEW h \in Hook, FirstReturn(h) PROVE Files'
  <2>1. UNCHANGED disk /\ revisions' = revisions
    BY <1>13, Zenon DEF FirstReturn, flow
  <2> QED
    BY <2>1, FilesStay
<1>14. ASSUME NEW h \in Hook, ReturnTorn(h) PROVE Files'
  <2>1. UNCHANGED disk /\ revisions' = revisions
    BY <1>14, Zenon DEF ReturnTorn, flow
  <2> QED
    BY <2>1, FilesStay
<1>15. ASSUME NEW h \in Hook, ReturnFound(h) PROVE Files'
  <2>1. UNCHANGED disk /\ revisions' = revisions
    BY <1>15, Zenon DEF ReturnFound, flow
  <2> QED
    BY <2>1, FilesStay
<1>16. ASSUME NEW h \in Hook, CheckAttempt(h) PROVE Files'
  <2>1. UNCHANGED disk /\ revisions' = revisions
    BY <1>16, Zenon DEF CheckAttempt, flow
  <2> QED
    BY <2>1, FilesStay
<1>17. ASSUME NEW h \in Hook, SaveAttempt(h) PROVE Files'
  <2>1. KeyOf(hook[h].opt) \in Key
    BY <1>17, KeyIsKey DEF SaveAttempt, Hooks
  <2> QED
    BY <1>17, <2>1 DEF SaveAttempt, Files
<1>18. ASSUME NEW h \in Hook, Ask(h) PROVE Files'
  <2>1. UNCHANGED disk /\ revisions' = revisions
    BY <1>18, Zenon DEF Ask, flow
  <2> QED
    BY <2>1, FilesStay
<1>19. ASSUME NEW h \in Hook, FeedbackLost(h) PROVE Files'
  <2>1. UNCHANGED disk /\ revisions' = revisions
    BY <1>19, Zenon DEF FeedbackLost, flow
  <2> QED
    BY <2>1, FilesStay
<1>20. ASSUME NEW h \in Hook, FeedbackReturns(h) PROVE Files'
  <2>1. UNCHANGED disk /\ revisions' = revisions
    BY <1>20, Zenon DEF FeedbackReturns, flow
  <2> QED
    BY <2>1, FilesStay
<1>21. ASSUME NEW h \in Hook, Publish(h) PROVE Files'
  <2>1. /\ UNCHANGED <<file, attempts, revisions>>
        /\ ret' = ret \/ ret' = [ret EXCEPT ![hook[h].feedback] = IF @ = "none" THEN "response" ELSE @]
    BY <1>21, Zenon DEF Publish
  <2>2. ret' \in [Revision -> {"none", "response", "both", "torn"}]
    BY <2>1 DEF Files
  <2> QED
    BY <2>1, <2>2 DEF Files
<1>22. ASSUME NEW h \in Hook, PublishReadback(h) PROVE Files'
  <2>1. /\ UNCHANGED <<file, attempts, revisions>>
        /\ ret' = [ret EXCEPT ![hook[h].feedback] = "both"]
    BY <1>22, Zenon DEF PublishReadback
  <2>2. ret' \in [Revision -> {"none", "response", "both", "torn"}]
    BY <2>1 DEF Files
  <2> QED
    BY <2>1, <2>2 DEF Files
<1>23. ASSUME NEW h \in Hook, PublishInitial(h) PROVE Files'
  <2>1. Written("response", hook[h].feedback) \/ Differs("response", hook[h].feedback)
    BY <1>23, Zenon DEF PublishInitial
  <2>2. hook[h].feedback \in revisions \cup {None} /\ UNCHANGED <<attempts, ret, revisions>>
        /\ revisions \subseteq Revision
    BY <1>23 DEF PublishInitial, Hooks, HookNow, Flow
  <2> QED
    BY <2>1, <2>2, FileWritten
<1>24. ASSUME NEW h \in Hook, PublishInitialReadback(h) PROVE Files'
  <2>1. Written("readback", hook[h].feedback) \/ Differs("readback", hook[h].feedback)
    BY <1>24, Zenon DEF PublishInitialReadback
  <2>2. hook[h].feedback \in revisions \cup {None} /\ UNCHANGED <<attempts, ret, revisions>>
        /\ revisions \subseteq Revision
    BY <1>24 DEF PublishInitialReadback, Hooks, HookNow, Flow
  <2> QED
    BY <2>1, <2>2, FileWritten
<1>25. ASSUME NEW h \in Hook, WriteRaises(h) PROVE Files'
  BY <1>25, WritesStop, Zenon DEF WriteRaises, flow
<1>26. ASSUME NEW h \in Hook, MarkRaises(h) PROVE Files'
  BY <1>26, WritesStop, Zenon DEF MarkRaises, flow
<1>27. ASSUME NEW h \in Hook, ResearchWorkerCalls(h) PROVE Files'
  <2>1. UNCHANGED disk /\ revisions' = revisions
    BY <1>27, Zenon DEF ResearchWorkerCalls, flow
  <2> QED
    BY <2>1, FilesStay
<1>28. ASSUME NEW h \in Hook, ResearchWorkerAnswers(h) PROVE Files'
  <2>1. UNCHANGED disk /\ revisions' = revisions
    BY <1>28, Zenon DEF ResearchWorkerAnswers, flow
  <2> QED
    BY <2>1, FilesStay
<1>29. ASSUME NEW h \in Hook, ResearchWorkerPrepares(h) PROVE Files'
  <2>1. UNCHANGED disk /\ revisions' = revisions
    BY <1>29, Zenon DEF ResearchWorkerPrepares, flow
  <2> QED
    BY <2>1, FilesStay
<1>30. ASSUME NEW h \in Hook, FeedbackWorkerCalls(h) PROVE Files'
  <2>1. UNCHANGED disk /\ revisions' = revisions
    BY <1>30, Zenon DEF FeedbackWorkerCalls, flow
  <2> QED
    BY <2>1, FilesStay
<1>31. ASSUME NEW h \in Hook, FeedbackWorkerAnswers(h) PROVE Files'
  <2>1. UNCHANGED disk /\ revisions \subseteq revisions'
    BY <1>31 DEF FeedbackWorkerAnswers, disk
  <2> QED
    BY <2>1, FilesStay
<1>32. ASSUME NEW h \in Hook, FeedbackWorkerReceives(h) PROVE Files'
  <2>1. UNCHANGED disk /\ revisions \subseteq revisions'
    BY <1>32 DEF FeedbackWorkerReceives, disk
  <2> QED
    BY <2>1, FilesStay
<1>33. ASSUME NEW h \in Hook, WorkerFails(h) PROVE Files'
  <2>1. UNCHANGED disk /\ revisions' = revisions
    BY <1>33, Zenon DEF WorkerFails, flow
  <2> QED
    BY <2>1, FilesStay
<1>34. ASSUME NEW h \in Hook, Kill(h) PROVE Files'
  BY <1>34, WritesStop, Zenon DEF Kill, flow
<1>35. CASE UNCHANGED vars
  BY <1>35, FilesStay DEF vars, disk
<1>36. ASSUME NEW h \in Hook, ReportUndecodable(h) PROVE Files'
  <2>1. UNCHANGED disk /\ revisions' = revisions
    BY <1>36, Zenon DEF ReportUndecodable, flow
  <2> QED
    BY <2>1, FilesStay
<1> QED
  BY <1>1, <1>2, <1>3, <1>4, <1>5, <1>6, <1>7, <1>8, <1>9, <1>10, <1>11, <1>12, <1>13,
     <1>14, <1>15, <1>16, <1>17, <1>18, <1>19, <1>20, <1>21, <1>22, <1>23, <1>24, <1>25,
     <1>26, <1>27, <1>28, <1>29, <1>30, <1>31, <1>32, <1>33, <1>34, <1>35, <1>36 DEF Next,
     HookStep, WorkerStep, Quiet

\* The worker's files keep their types.
LEMMA FlowStep == Typed /\ [Next]_vars => Flow'
<1> SUFFICES ASSUME Typed, [Next]_vars PROVE Flow'
  OBVIOUS
<1> USE DEF Typed
<1>1. ASSUME NEW h \in Hook, Start(h) PROVE Flow'
  BY <1>1, FlowStays, Zenon DEF Start
<1>2. ASSUME NEW h \in Hook, CheckRaises(h) PROVE Flow'
  BY <1>2, FlowStays, Zenon DEF CheckRaises
<1>3. ASSUME NEW h \in Hook, MarkerFound(h) PROVE Flow'
  BY <1>3, FlowStays, Zenon DEF MarkerFound
<1>4. ASSUME NEW h \in Hook, ResultFound(h) PROVE Flow'
  BY <1>4, FlowStays, Zenon DEF ResultFound
<1>5. ASSUME NEW h \in Hook, FailedReceiptFound(h) PROVE Flow'
  BY <1>5, FlowStays, Zenon DEF FailedReceiptFound
<1>6. ASSUME NEW h \in Hook, Research(h) PROVE Flow'
  BY <1>6, FlowStays, Zenon DEF Research
<1>7. ASSUME NEW h \in Hook, ResearchLost(h) PROVE Flow'
  BY <1>7, FlowStays, Zenon DEF ResearchLost
<1>8. ASSUME NEW h \in Hook, ResearchReturns(h) PROVE Flow'
  BY <1>8, FlowStays, Zenon DEF ResearchReturns
<1>9. ASSUME NEW h \in Hook, MarkUnknown(h) PROVE Flow'
  BY <1>9, FlowStays, Zenon DEF MarkUnknown
<1>10. ASSUME NEW h \in Hook, MarkFailed(h) PROVE Flow'
  BY <1>10, FlowStays, Zenon DEF MarkFailed
<1>11. ASSUME NEW h \in Hook, Complete(h) PROVE Flow'
  BY <1>11, FlowStays, Zenon DEF Complete
<1>12. ASSUME NEW h \in Hook, SaveResult(h) PROVE Flow'
  BY <1>12, FlowStays, Zenon DEF SaveResult
<1>13. ASSUME NEW h \in Hook, FirstReturn(h) PROVE Flow'
  BY <1>13, FlowStays, Zenon DEF FirstReturn
<1>14. ASSUME NEW h \in Hook, ReturnTorn(h) PROVE Flow'
  BY <1>14, FlowStays, Zenon DEF ReturnTorn
<1>15. ASSUME NEW h \in Hook, ReturnFound(h) PROVE Flow'
  BY <1>15, FlowStays, Zenon DEF ReturnFound
<1>16. ASSUME NEW h \in Hook, CheckAttempt(h) PROVE Flow'
  BY <1>16, FlowStays, Zenon DEF CheckAttempt
<1>17. ASSUME NEW h \in Hook, SaveAttempt(h) PROVE Flow'
  BY <1>17, FlowStays, Zenon DEF SaveAttempt
<1>18. ASSUME NEW h \in Hook, Ask(h) PROVE Flow'
  BY <1>18, FlowStays, Zenon DEF Ask
<1>19. ASSUME NEW h \in Hook, FeedbackLost(h) PROVE Flow'
  BY <1>19, FlowStays, Zenon DEF FeedbackLost
<1>20. ASSUME NEW h \in Hook, FeedbackReturns(h) PROVE Flow'
  BY <1>20, FlowStays, Zenon DEF FeedbackReturns
<1>21. ASSUME NEW h \in Hook, Publish(h) PROVE Flow'
  BY <1>21, FlowStays, Zenon DEF Publish
<1>22. ASSUME NEW h \in Hook, PublishReadback(h) PROVE Flow'
  BY <1>22, FlowStays, Zenon DEF PublishReadback
<1>23. ASSUME NEW h \in Hook, PublishInitial(h) PROVE Flow'
  BY <1>23, FlowStays, Zenon DEF PublishInitial
<1>24. ASSUME NEW h \in Hook, PublishInitialReadback(h) PROVE Flow'
  BY <1>24, FlowStays, Zenon DEF PublishInitialReadback
<1>25. ASSUME NEW h \in Hook, WriteRaises(h) PROVE Flow'
  BY <1>25, FlowStays, Zenon DEF WriteRaises
<1>26. ASSUME NEW h \in Hook, MarkRaises(h) PROVE Flow'
  BY <1>26, FlowStays, Zenon DEF MarkRaises
<1>27. ASSUME NEW h \in Hook, ResearchWorkerCalls(h) PROVE Flow'
  <2>1. worker[h].source \in Source
    BY <1>27 DEF ResearchWorkerCalls, Processes, Given
  <2>2. slot' = [slot EXCEPT !.job = worker[h].source, !.attempt = worker[h].source]
    BY <1>27, Zenon DEF ResearchWorkerCalls
  <2>3. slot' \in Slot
    BY <2>1, <2>2 DEF Flow, Slot
  <2> QED
    BY <1>27, <2>3 DEF ResearchWorkerCalls, Flow
<1>28. ASSUME NEW h \in Hook, ResearchWorkerAnswers(h) PROVE Flow'
  <2>1. worker[h].source \in Source
    BY <1>28 DEF ResearchWorkerAnswers, Processes, Given
  <2>2. PICK status \in {"ANALYSIS_COMPLETED", "ANALYSIS_FAILED"} :
          slot' = [slot EXCEPT !.receipt = [source |-> worker[h].source, status |-> status]]
    BY <1>28, Zenon DEF ResearchWorkerAnswers
  <2>3. slot' \in Slot
    BY <2>1, <2>2 DEF Flow, Slot
  <2> QED
    BY <1>28, <2>3 DEF ResearchWorkerAnswers, Flow
<1>29. ASSUME NEW h \in Hook, ResearchWorkerPrepares(h) PROVE Flow'
  <2>1. worker[h].source \in Source
    BY <1>29 DEF ResearchWorkerPrepares, Processes, Given
  <2>2. slot' = [slot EXCEPT !.job = IF @ = None THEN worker[h].source ELSE @]
    BY <1>29, Zenon DEF ResearchWorkerPrepares
  <2>3. slot' \in Slot
    BY <2>1, <2>2 DEF Flow, Slot
  <2> QED
    BY <1>29, <2>3 DEF ResearchWorkerPrepares, Flow
<1>30. ASSUME NEW h \in Hook, FeedbackWorkerCalls(h) PROVE Flow'
  BY <1>30 DEF FeedbackWorkerCalls, Flow
<1>31. ASSUME NEW h \in Hook, FeedbackWorkerAnswers(h) PROVE Flow'
  <2>1. worker[h].key \in Key
    BY <1>31 DEF FeedbackWorkerAnswers, Processes, Given
  <2>2. PICK review \in {"failed", "done"} :
          /\ revisions' = revisions \cup {[review |-> review, key |-> worker[h].key]}
          /\ completed' = IF review = "done" THEN [review |-> review, key |-> worker[h].key]
                          ELSE completed
    BY <1>31, Zenon DEF FeedbackWorkerAnswers
  <2>3. [review |-> review, key |-> worker[h].key] \in Revision
    BY <2>1 DEF Revision
  <2>4. slot' = slot /\ tried' = tried
    BY <1>31, Zenon DEF FeedbackWorkerAnswers
  <2> QED
    BY <2>2, <2>3, <2>4 DEF Flow
<1>32. ASSUME NEW h \in Hook, FeedbackWorkerReceives(h) PROVE Flow'
  <2>1. worker[h].key \in Key
    BY <1>32 DEF FeedbackWorkerReceives, Processes, Given
  <2>2. [review |-> "pending", key |-> worker[h].key] \in Revision
    BY <2>1 DEF Revision
  <2>3. /\ slot' = slot /\ tried' = tried /\ completed' = completed
        /\ \/ revisions' = revisions \cup {[review |-> "pending", key |-> worker[h].key]}
           \/ revisions' = revisions
    BY <1>32, Zenon DEF FeedbackWorkerReceives
  <2> QED
    BY <2>2, <2>3 DEF Flow
<1>33. ASSUME NEW h \in Hook, WorkerFails(h) PROVE Flow'
  BY <1>33, FlowStays, Zenon DEF WorkerFails
<1>34. ASSUME NEW h \in Hook, Kill(h) PROVE Flow'
  BY <1>34, FlowStays, Zenon DEF Kill
<1>35. CASE UNCHANGED vars
  BY <1>35, FlowStays DEF vars, flow
<1>36. ASSUME NEW h \in Hook, ReportUndecodable(h) PROVE Flow'
  BY <1>36, FlowStays, Zenon DEF ReportUndecodable
<1> QED
  BY <1>1, <1>2, <1>3, <1>4, <1>5, <1>6, <1>7, <1>8, <1>9, <1>10, <1>11, <1>12, <1>13,
     <1>14, <1>15, <1>16, <1>17, <1>18, <1>19, <1>20, <1>21, <1>22, <1>23, <1>24, <1>25,
     <1>26, <1>27, <1>28, <1>29, <1>30, <1>31, <1>32, <1>33, <1>34, <1>35, <1>36 DEF Next,
     HookStep, WorkerStep, Quiet

\* A worker keeps its type, and what it was started with.
LEMMA ProcessesStep == Typed /\ [Next]_vars => Processes'
<1> SUFFICES ASSUME Typed, [Next]_vars PROVE Processes'
  OBVIOUS
<1> USE DEF Typed
<1>1. ASSUME NEW h \in Hook, Start(h) PROVE Processes'
  BY <1>1, ProcessOps, Zenon DEF Start
<1>2. ASSUME NEW h \in Hook, CheckRaises(h) PROVE Processes'
  BY <1>2, ProcessOps, Zenon DEF CheckRaises
<1>3. ASSUME NEW h \in Hook, MarkerFound(h) PROVE Processes'
  BY <1>3, ProcessOps, Zenon DEF MarkerFound
<1>4. ASSUME NEW h \in Hook, ResultFound(h) PROVE Processes'
  BY <1>4, ProcessOps, Zenon DEF ResultFound
<1>5. ASSUME NEW h \in Hook, FailedReceiptFound(h) PROVE Processes'
  BY <1>5, ProcessOps, Zenon DEF FailedReceiptFound
<1>6. ASSUME NEW h \in Hook, Research(h) PROVE Processes'
  <2> DEFINE w(able) == [NoWorker EXCEPT !.stage = "research", !.phase = "started",
                                         !.able = able, !.source = hook[h].opt.source]
  <2>1. worker' = worker \/ worker' = [worker EXCEPT ![h] = w(Able(h, TRUE))]
    BY <1>6, Zenon DEF Research
  <2>2. Able(h, TRUE) \in BOOLEAN
    BY Zenon DEF Able
  <2>3. hook[h].opt.source \in Source
    BY <1>6 DEF Research, Hooks, Option
  <2>4. ASSUME NEW able \in BOOLEAN PROVE w(able) \in Worker /\ Given(w(able))
    BY <2>3 DEF NoWorker, Worker, Given
  <2> HIDE DEF w
  <2>5. CASE worker' = worker
    BY <2>5, ProcessOps
  <2>6. CASE worker' = [worker EXCEPT ![h] = w(Able(h, TRUE))]
    BY <2>2, <2>4, <2>6, ProcessMoves
  <2> QED
    BY <2>1, <2>5, <2>6
<1>7. ASSUME NEW h \in Hook, ResearchLost(h) PROVE Processes'
  BY <1>7, ProcessOps, Zenon DEF ResearchLost, ReportLost, Reported
<1>8. ASSUME NEW h \in Hook, ResearchReturns(h) PROVE Processes'
  BY <1>8, ProcessOps, Zenon DEF ResearchReturns, Reported
<1>9. ASSUME NEW h \in Hook, MarkUnknown(h) PROVE Processes'
  BY <1>9, ProcessOps, Zenon DEF MarkUnknown
<1>10. ASSUME NEW h \in Hook, MarkFailed(h) PROVE Processes'
  BY <1>10, ProcessOps, Zenon DEF MarkFailed
<1>11. ASSUME NEW h \in Hook, Complete(h) PROVE Processes'
  BY <1>11, ProcessOps, Zenon DEF Complete
<1>12. ASSUME NEW h \in Hook, SaveResult(h) PROVE Processes'
  BY <1>12, ProcessOps, Zenon DEF SaveResult
<1>13. ASSUME NEW h \in Hook, FirstReturn(h) PROVE Processes'
  BY <1>13, ProcessOps, Zenon DEF FirstReturn
<1>14. ASSUME NEW h \in Hook, ReturnTorn(h) PROVE Processes'
  BY <1>14, ProcessOps, Zenon DEF ReturnTorn
<1>15. ASSUME NEW h \in Hook, ReturnFound(h) PROVE Processes'
  BY <1>15, ProcessOps, Zenon DEF ReturnFound
<1>16. ASSUME NEW h \in Hook, CheckAttempt(h) PROVE Processes'
  BY <1>16, ProcessOps, Zenon DEF CheckAttempt
<1>17. ASSUME NEW h \in Hook, SaveAttempt(h) PROVE Processes'
  BY <1>17, ProcessOps, Zenon DEF SaveAttempt
<1>18. ASSUME NEW h \in Hook, Ask(h) PROVE Processes'
  <2> DEFINE w(able) == [NoWorker EXCEPT !.stage = "feedback", !.phase = "started",
                                         !.able = able, !.key = KeyOf(hook[h].opt)]
  <2>1. worker' = worker \/ worker' = [worker EXCEPT ![h] = w(Able(h, ~hook[h].opt.defer))]
    BY <1>18, Zenon DEF Ask
  <2>2. Able(h, ~hook[h].opt.defer) \in BOOLEAN
    BY Zenon DEF Able
  <2>3. KeyOf(hook[h].opt) \in Key
    BY <1>18, KeyIsKey DEF Ask, Hooks
  <2>4. ASSUME NEW able \in BOOLEAN PROVE w(able) \in Worker /\ Given(w(able))
    BY <2>3 DEF NoWorker, Worker, Given
  <2> HIDE DEF w
  <2>5. CASE worker' = worker
    BY <2>5, ProcessOps
  <2>6. CASE worker' = [worker EXCEPT ![h] = w(Able(h, ~hook[h].opt.defer))]
    BY <2>2, <2>4, <2>6, ProcessMoves
  <2> QED
    BY <2>1, <2>5, <2>6
<1>19. ASSUME NEW h \in Hook, FeedbackLost(h) PROVE Processes'
  BY <1>19, ProcessOps, Zenon DEF FeedbackLost, ReportLost, Reported
<1>20. ASSUME NEW h \in Hook, FeedbackReturns(h) PROVE Processes'
  BY <1>20, ProcessOps, Zenon DEF FeedbackReturns, Reported
<1>21. ASSUME NEW h \in Hook, Publish(h) PROVE Processes'
  BY <1>21, ProcessOps, Zenon DEF Publish
<1>22. ASSUME NEW h \in Hook, PublishReadback(h) PROVE Processes'
  BY <1>22, ProcessOps, Zenon DEF PublishReadback
<1>23. ASSUME NEW h \in Hook, PublishInitial(h) PROVE Processes'
  BY <1>23, ProcessOps, Zenon DEF PublishInitial
<1>24. ASSUME NEW h \in Hook, PublishInitialReadback(h) PROVE Processes'
  BY <1>24, ProcessOps, Zenon DEF PublishInitialReadback
<1>25. ASSUME NEW h \in Hook, WriteRaises(h) PROVE Processes'
  BY <1>25, ProcessOps, Zenon DEF WriteRaises
<1>26. ASSUME NEW h \in Hook, MarkRaises(h) PROVE Processes'
  BY <1>26, ProcessOps, Zenon DEF MarkRaises
<1>27. ASSUME NEW h \in Hook, ResearchWorkerCalls(h) PROVE Processes'
  BY <1>27, ProcessOps, Zenon DEF ResearchWorkerCalls
<1>28. ASSUME NEW h \in Hook, ResearchWorkerAnswers(h) PROVE Processes'
  BY <1>28, ProcessOps, Zenon DEF ResearchWorkerAnswers
<1>29. ASSUME NEW h \in Hook, ResearchWorkerPrepares(h) PROVE Processes'
  BY <1>29, ProcessOps, Zenon DEF ResearchWorkerPrepares
<1>30. ASSUME NEW h \in Hook, FeedbackWorkerCalls(h) PROVE Processes'
  BY <1>30, ProcessOps, Zenon DEF FeedbackWorkerCalls
<1>31. ASSUME NEW h \in Hook, FeedbackWorkerAnswers(h) PROVE Processes'
  BY <1>31, ProcessOps, Zenon DEF FeedbackWorkerAnswers
<1>32. ASSUME NEW h \in Hook, FeedbackWorkerReceives(h) PROVE Processes'
  BY <1>32, ProcessOps, Zenon DEF FeedbackWorkerReceives
<1>33. ASSUME NEW h \in Hook, WorkerFails(h) PROVE Processes'
  <2>1. (IF worker[h].phase = "called" THEN 1 ELSE 0) \in {0, 1, None}
    OBVIOUS
  <2> QED
    BY <1>33, <2>1, ProcessOps, Zenon DEF WorkerFails
<1>34. ASSUME NEW h \in Hook, Kill(h) PROVE Processes'
  <2>1. worker' = [worker EXCEPT ![h] = NoWorker] \/ worker' = worker
    BY <1>34, Zenon DEF Kill
  <2> QED
    BY <2>1, ProcessOps, Zenon
<1>35. CASE UNCHANGED vars
  BY <1>35 DEF vars, Processes
<1>36. ASSUME NEW h \in Hook, ReportUndecodable(h) PROVE Processes'
  BY <1>36, ProcessOps, Zenon DEF ReportUndecodable, Reported
<1> QED
  BY <1>1, <1>2, <1>3, <1>4, <1>5, <1>6, <1>7, <1>8, <1>9, <1>10, <1>11, <1>12, <1>13,
     <1>14, <1>15, <1>16, <1>17, <1>18, <1>19, <1>20, <1>21, <1>22, <1>23, <1>24, <1>25,
     <1>26, <1>27, <1>28, <1>29, <1>30, <1>31, <1>32, <1>33, <1>34, <1>35, <1>36 DEF Next,
     HookStep, WorkerStep, Quiet

\* The counts keep their types.
LEMMA RecordsStep == Typed /\ [Next]_vars => Records'
<1> SUFFICES ASSUME Typed, [Next]_vars PROVE Records'
  OBVIOUS
<1> USE DEF Typed
<1>1. ASSUME NEW h \in Hook, Start(h) PROVE Records'
  <2>1. starts \in 0..MaxStarts /\ MaxStarts \in Nat
    BY BoundAssumption DEF Records
  <2>2. starts < MaxStarts /\ starts' = starts + 1 /\ UNCHANGED history
    BY <1>1, Zenon DEF Start
  <2>3. starts' \in 0..MaxStarts
    BY <2>1, <2>2
  <2> QED
    BY <2>2, <2>3 DEF Records, history
<1>2. ASSUME NEW h \in Hook, CheckRaises(h) PROVE Records'
  BY <1>2, RecordsOf, Zenon DEF CheckRaises
<1>3. ASSUME NEW h \in Hook, MarkerFound(h) PROVE Records'
  BY <1>3, RecordsOf, Zenon DEF MarkerFound
<1>4. ASSUME NEW h \in Hook, ResultFound(h) PROVE Records'
  BY <1>4, RecordsOf, Zenon DEF ResultFound
<1>5. ASSUME NEW h \in Hook, FailedReceiptFound(h) PROVE Records'
  BY <1>5, RecordsOf, Zenon DEF FailedReceiptFound
<1>6. ASSUME NEW h \in Hook, Research(h) PROVE Records'
  BY <1>6, RecordsOf, Zenon DEF Research
<1>7. ASSUME NEW h \in Hook, ResearchLost(h) PROVE Records'
  BY <1>7, RecordsOf, Zenon DEF ResearchLost
<1>8. ASSUME NEW h \in Hook, ResearchReturns(h) PROVE Records'
  <2>1. {0, 1} \subseteq Nat
    OBVIOUS
  <2> QED
    BY <1>8, <2>1, RecordsOf, Zenon DEF ResearchReturns
<1>9. ASSUME NEW h \in Hook, MarkUnknown(h) PROVE Records'
  BY <1>9, RecordsOf, Zenon DEF MarkUnknown
<1>10. ASSUME NEW h \in Hook, MarkFailed(h) PROVE Records'
  BY <1>10, RecordsOf, Zenon DEF MarkFailed
<1>11. ASSUME NEW h \in Hook, Complete(h) PROVE Records'
  BY <1>11, RecordsOf, Zenon DEF Complete
<1>12. ASSUME NEW h \in Hook, SaveResult(h) PROVE Records'
  BY <1>12, RecordsOf, Zenon DEF SaveResult
<1>13. ASSUME NEW h \in Hook, FirstReturn(h) PROVE Records'
  BY <1>13, RecordsOf, Zenon DEF FirstReturn
<1>14. ASSUME NEW h \in Hook, ReturnTorn(h) PROVE Records'
  BY <1>14, RecordsOf, Zenon DEF ReturnTorn
<1>15. ASSUME NEW h \in Hook, ReturnFound(h) PROVE Records'
  BY <1>15, RecordsOf, Zenon DEF ReturnFound
<1>16. ASSUME NEW h \in Hook, CheckAttempt(h) PROVE Records'
  BY <1>16, RecordsOf, Zenon DEF CheckAttempt
<1>17. ASSUME NEW h \in Hook, SaveAttempt(h) PROVE Records'
  BY <1>17, RecordsOf, Zenon DEF SaveAttempt
<1>18. ASSUME NEW h \in Hook, Ask(h) PROVE Records'
  <2> DEFINE k == KeyOf(hook[h].opt)
  <2>1. /\ starts' = starts
        /\ \/ End(h)
           \/ /\ asked' = [asked EXCEPT ![KeyOf(hook[h].opt)] = @ + 1]
              /\ UNCHANGED <<calls, reported, unknown, misreported>>
    BY <1>18, Zenon DEF Ask
  <2>2. CASE End(h)
    BY <2>1, <2>2, RecordsOf
  <2>3. CASE /\ asked' = [asked EXCEPT ![k] = @ + 1]
             /\ UNCHANGED <<calls, reported, unknown, misreported>>
    <3>1. /\ calls' \in Nat /\ reported' \in Nat /\ misreported' \in Nat
          /\ starts' \in 0..MaxStarts /\ asked' \in [Key -> Nat]
      <4>1. k \in Key
        BY <1>18, KeyIsKey DEF Ask, Hooks
      <4> HIDE DEF k
      <4> QED
        BY <2>1, <2>3, <4>1 DEF Records
    <3>2. unknown' \in BOOLEAN
      BY <2>3, Zenon DEF Records
    <3> QED
      BY <3>1, <3>2 DEF Records
  <2> QED
    BY <2>1, <2>2, <2>3
<1>19. ASSUME NEW h \in Hook, FeedbackLost(h) PROVE Records'
  BY <1>19, RecordsOf, Zenon DEF FeedbackLost
<1>20. ASSUME NEW h \in Hook, FeedbackReturns(h) PROVE Records'
  <2>1. \A n \in {0, 1} : hook[h].outer + n \in Nat
    BY RecordsOf DEF FeedbackReturns, Hooks, HookNow
  <2> QED
    BY <1>20, <2>1, RecordsOf, Zenon DEF FeedbackReturns
<1>21. ASSUME NEW h \in Hook, Publish(h) PROVE Records'
  BY <1>21, RecordsOf, Zenon DEF Publish
<1>22. ASSUME NEW h \in Hook, PublishReadback(h) PROVE Records'
  BY <1>22, RecordsOf, Zenon DEF PublishReadback
<1>23. ASSUME NEW h \in Hook, PublishInitial(h) PROVE Records'
  BY <1>23, RecordsOf, Zenon DEF PublishInitial
<1>24. ASSUME NEW h \in Hook, PublishInitialReadback(h) PROVE Records'
  BY <1>24, RecordsOf, Zenon DEF PublishInitialReadback
<1>25. ASSUME NEW h \in Hook, WriteRaises(h) PROVE Records'
  BY <1>25, RecordsOf, Zenon DEF WriteRaises
<1>26. ASSUME NEW h \in Hook, MarkRaises(h) PROVE Records'
  BY <1>26, RecordsOf, Zenon DEF MarkRaises
<1>27. ASSUME NEW h \in Hook, ResearchWorkerCalls(h) PROVE Records'
  <2>1. calls' = calls + 1 /\ UNCHANGED <<reported, unknown, misreported, asked, starts>>
    BY <1>27, Zenon DEF ResearchWorkerCalls
  <2> QED
    BY <2>1 DEF Records
<1>28. ASSUME NEW h \in Hook, ResearchWorkerAnswers(h) PROVE Records'
  BY <1>28, RecordsOf, Zenon DEF ResearchWorkerAnswers
<1>29. ASSUME NEW h \in Hook, ResearchWorkerPrepares(h) PROVE Records'
  BY <1>29, RecordsOf, Zenon DEF ResearchWorkerPrepares
<1>30. ASSUME NEW h \in Hook, FeedbackWorkerCalls(h) PROVE Records'
  <2>1. calls' = calls + 1 /\ UNCHANGED <<reported, unknown, misreported, asked, starts>>
    BY <1>30, Zenon DEF FeedbackWorkerCalls
  <2> QED
    BY <2>1 DEF Records
<1>31. ASSUME NEW h \in Hook, FeedbackWorkerAnswers(h) PROVE Records'
  BY <1>31, RecordsOf, Zenon DEF FeedbackWorkerAnswers
<1>32. ASSUME NEW h \in Hook, FeedbackWorkerReceives(h) PROVE Records'
  BY <1>32, RecordsOf, Zenon DEF FeedbackWorkerReceives
<1>33. ASSUME NEW h \in Hook, WorkerFails(h) PROVE Records'
  BY <1>33, RecordsOf, Zenon DEF WorkerFails
<1>34. ASSUME NEW h \in Hook, Kill(h) PROVE Records'
  BY <1>34, RecordsOf, Zenon DEF Kill
<1>35. CASE UNCHANGED vars
  BY <1>35 DEF vars, Records
<1>36. ASSUME NEW h \in Hook, ReportUndecodable(h) PROVE Records'
  BY <1>36, RecordsOf, Zenon DEF ReportUndecodable
<1> QED
  BY <1>1, <1>2, <1>3, <1>4, <1>5, <1>6, <1>7, <1>8, <1>9, <1>10, <1>11, <1>12, <1>13,
     <1>14, <1>15, <1>16, <1>17, <1>18, <1>19, <1>20, <1>21, <1>22, <1>23, <1>24, <1>25,
     <1>26, <1>27, <1>28, <1>29, <1>30, <1>31, <1>32, <1>33, <1>34, <1>35, <1>36 DEF Next,
     HookStep, WorkerStep, Quiet

LEMMA TypedInit == Init => Typed
<1> SUFFICES ASSUME Init PROVE Typed
  OBVIOUS
<1>1. Files /\ Flow
  BY DEF Init, Files, Flow, File, Marker, Slot
<1>2. Hooks
  <2>1. Idle \in HookNow /\ Idle.pc = "idle"
    BY DEF Idle, HookNow, Stages
  <2> QED
    BY <2>1 DEF Init, Hooks
<1>3. Processes
  <2>1. NoWorker \in Worker /\ Given(NoWorker)
    BY DEF NoWorker, Worker, Given
  <2> QED
    BY <2>1 DEF Init, Processes
<1>4. Records
  <2>1. /\ calls \in Nat /\ reported \in Nat /\ misreported \in Nat
        /\ starts \in 0..MaxStarts /\ asked \in [Key -> Nat]
    BY BoundAssumption DEF Init
  <2>2. unknown \in BOOLEAN
    BY Zenon DEF Init
  <2> QED
    BY <2>1, <2>2 DEF Records
<1> QED
  BY <1>1, <1>2, <1>3, <1>4 DEF Typed

LEMMA TypedTypes == Typed => TypeOK
BY DEF Typed, Files, Flow, Hooks, HookNow, Processes, Records, TypeOK

\* Every variable has its type, however many invocations are live; a return file and the
\* return an invocation is about to publish name a revision that exists.
THEOREM TypesAlways == Spec => []TypeOK
<1>1. Init => Typed
  BY TypedInit
<1>2. Typed /\ [Next]_vars => Typed'
  BY HooksStep, FilesStep, FlowStep, ProcessesStep, RecordsStep DEF Typed
<1>3. Typed => TypeOK
  BY TypedTypes
<1> QED
  BY <1>1, <1>2, <1>3, PTL DEF Spec
-----------------------------------------------------------------------------
(* Every invocation runs out of stages: what the liveness of an invocation   *)
(* rests on, beside the fairness of its process.                             *)

\* The stages between p and the end of an invocation.
StagesLeft(p) ==
    CASE p = "produce"          -> 15
      [] p = "research"         -> 14
      [] p = "mark-unknown"     -> 13
      [] p = "mark-failed"      -> 12
      [] p = "complete"         -> 11
      [] p = "save-result"      -> 10
      [] p = "return"           -> 9
      [] p = "attempt"          -> 8
      [] p = "save-attempt"     -> 7
      [] p = "ask"              -> 6
      [] p = "feedback"         -> 5
      [] p = "publish"          -> 4
      [] p = "publish-readback" -> 3
      [] p = "initial-response" -> 2
      [] p = "initial-readback" -> 1
      [] OTHER                  -> 0

\* A step of an invocation takes it to a later stage, and nothing else, neither a worker
\* nor a kill nor another invocation, takes it back to an earlier one.
InvocationsRunOut ==
    [][\A h \in Hook :
         /\ HookStep(h) => StagesLeft(hook'[h].pc) < StagesLeft(hook[h].pc)
         /\ hook[h].pc # "idle" => StagesLeft(hook'[h].pc) <= StagesLeft(hook[h].pc)]_vars

\* The step takes h to the stage s, and no other invocation anywhere.
GoesTo(h, s) == hook'[h].pc = s /\ \A g \in Hook \ {h} : hook'[g] = hook[g]

LEMMA Goes ==
    ASSUME Hooks, NEW h \in Hook
    PROVE /\ Leave(h) => GoesTo(h, "idle")
          /\ \A s : Goto(h, s) => GoesTo(h, s)
          /\ \A s, n : GoWith(h, s, n) => GoesTo(h, s)
<1>1. hook \in [Hook -> HookNow] /\ hook[h] \in HookNow
  BY DEF Hooks
<1>2. Leave(h) => GoesTo(h, "idle")
  BY <1>1 DEF Leave, Idle, GoesTo
<1>3. ASSUME NEW s, Goto(h, s) PROVE GoesTo(h, s)
  BY <1>1, <1>3 DEF Goto, GoesTo, HookNow
<1>4. ASSUME NEW s, NEW n, GoWith(h, s, n) PROVE GoesTo(h, s)
  <2> DEFINE x == [hook[h] EXCEPT !.pc = s]
             r == [x EXCEPT !.outer = n]
  <2>1. hook' = [hook EXCEPT ![h] = r]
    BY <1>1, <1>4 DEF GoWith
  <2>2. r.pc = s
    BY <1>1 DEF HookNow
  <2> HIDE DEF r
  <2> QED
    BY <1>1, <2>1, <2>2 DEF GoesTo
<1> QED
  BY <1>2, <1>3, <1>4

LEMMA ReturnFoundGoes ==
    ASSUME Hooks, NEW h \in Hook, ReturnFound(h)
    PROVE hook[h].pc = "return" /\ (GoesTo(h, "attempt") \/ GoesTo(h, "publish"))
<1>1. /\ hook[h].pc = "return"
      /\ \/ Goto(h, "attempt")
         \/ hook' = [hook EXCEPT ![h].pc = "publish", ![h].feedback = Latest]
  BY Zenon DEF ReturnFound
<1>2. CASE Goto(h, "attempt")
  BY <1>1, <1>2, Goes
<1>3. CASE hook' = [hook EXCEPT ![h].pc = "publish", ![h].feedback = Latest]
  <2> DEFINE x == [hook[h] EXCEPT !.pc = "publish"]
             r == [x EXCEPT !.feedback = Latest]
  <2>1. hook \in [Hook -> HookNow] /\ hook[h] \in HookNow
    BY DEF Hooks
  <2>2. hook' = [hook EXCEPT ![h] = r]
    BY <1>3, <2>1
  <2>3. r.pc = "publish"
    BY <2>1 DEF HookNow
  <2> HIDE DEF r
  <2> QED
    BY <1>1, <2>1, <2>2, <2>3 DEF GoesTo
<1> QED
  BY <1>1, <1>2, <1>3

LEMMA FeedbackReturnsGoes ==
    ASSUME Hooks, NEW h \in Hook, FeedbackReturns(h)
    PROVE hook[h].pc = "feedback" /\ (GoesTo(h, "idle") \/ GoesTo(h, "publish"))
<1> DEFINE r(n, f) == [hook[h] EXCEPT !.pc = "publish", !.inner = n, !.feedback = f,
                                      !.initial = file["response"] = None]
<1>1. PICK n \in {0, 1} :
        \/ EndWith(h, hook[h].outer + n)
        \/ \E f \in Candidates : hook' = [hook EXCEPT ![h] = r(n, f)]
  BY Zenon DEF FeedbackReturns
<1>2. hook[h].pc = "feedback"
  BY Zenon DEF FeedbackReturns
<1>3. CASE EndWith(h, hook[h].outer + n)
  BY <1>2, <1>3, Goes DEF EndWith
<1>4. ASSUME NEW f \in Candidates, hook' = [hook EXCEPT ![h] = r(n, f)]
      PROVE  GoesTo(h, "publish")
  <2>1. hook \in [Hook -> HookNow] /\ hook[h] \in HookNow
    BY DEF Hooks
  <2>2. r(n, f).pc = "publish"
    BY <2>1 DEF HookNow
  <2> HIDE DEF r
  <2> QED
    BY <1>4, <2>1, <2>2 DEF GoesTo
<1> QED
  BY <1>1, <1>2, <1>3, <1>4

LEMMA HookStepGoes ==
    ASSUME Hooks, NEW h \in Hook, HookStep(h)
    PROVE \E s : GoesTo(h, s) /\ StagesLeft(s) < StagesLeft(hook[h].pc)
<1> USE DEF StagesLeft, End, EndWith, EndUnknown, EndMisreported
<1>1. CASE CheckRaises(h)
  BY <1>1, Goes DEF CheckRaises
<1>2. CASE MarkerFound(h)
  BY <1>2, Goes DEF MarkerFound
<1>3. CASE ResultFound(h)
  BY <1>3, Goes DEF ResultFound
<1>4. CASE FailedReceiptFound(h)
  BY <1>4, Goes DEF FailedReceiptFound
<1>5. CASE Research(h)
  <2>1. hook[h].pc = "produce" /\ (Leave(h) \/ Goto(h, "research"))
    BY <1>5, Zenon DEF Research
  <2> QED
    BY <2>1, Goes
<1>6. CASE ResearchLost(h)
  BY <1>6, Goes DEF ResearchLost
<1>7. CASE ResearchReturns(h)
  BY <1>7, ResearchReturnsDoes, Goes
<1>8. CASE MarkUnknown(h)
  BY <1>8, Goes DEF MarkUnknown
<1>9. CASE MarkFailed(h)
  BY <1>9, Goes DEF MarkFailed
<1>10. CASE Complete(h)
  BY <1>10, Goes DEF Complete
<1>11. CASE SaveResult(h)
  BY <1>11, Goes DEF SaveResult
<1>12. CASE FirstReturn(h)
  BY <1>12, Goes DEF FirstReturn
<1>13. CASE ReturnTorn(h)
  BY <1>13, Goes DEF ReturnTorn
<1>14. CASE ReturnFound(h)
  BY <1>14, ReturnFoundGoes
<1>15. CASE CheckAttempt(h)
  BY <1>15, Goes DEF CheckAttempt
<1>16. CASE SaveAttempt(h)
  BY <1>16, Goes DEF SaveAttempt
<1>17. CASE Ask(h)
  BY <1>17, Goes DEF Ask
<1>18. CASE FeedbackLost(h)
  BY <1>18, Goes DEF FeedbackLost
<1>19. CASE FeedbackReturns(h)
  BY <1>19, FeedbackReturnsGoes
<1>20. CASE Publish(h)
  BY <1>20, Goes DEF Publish
<1>21. CASE PublishReadback(h)
  BY <1>21, Goes DEF PublishReadback
<1>22. CASE PublishInitial(h)
  BY <1>22, Goes DEF PublishInitial
<1>23. CASE PublishInitialReadback(h)
  BY <1>23, Goes DEF PublishInitialReadback
<1>24. CASE WriteRaises(h)
  BY <1>24, Goes DEF WriteRaises
<1>25. CASE MarkRaises(h)
  BY <1>25, Goes DEF MarkRaises
<1>26. CASE ReportUndecodable(h)
  BY <1>26, Goes DEF ReportUndecodable, Waiting
<1> QED
  BY <1>1, <1>2, <1>3, <1>4, <1>5, <1>6, <1>7, <1>8, <1>9, <1>10, <1>11, <1>12, <1>13,
     <1>14, <1>15, <1>16, <1>17, <1>18, <1>19, <1>20, <1>21, <1>22, <1>23, <1>24, <1>25,
     <1>26 DEF HookStep

LEMMA WorkerStepGoes == ASSUME NEW h \in Hook, WorkerStep(h) PROVE hook' = hook
BY DEF WorkerStep, ResearchWorkerCalls, ResearchWorkerAnswers, ResearchWorkerPrepares,
       FeedbackWorkerCalls, FeedbackWorkerAnswers, FeedbackWorkerReceives, WorkerFails

LEMMA StagesLeftType == ASSUME NEW p PROVE StagesLeft(p) \in 0..15
BY DEF StagesLeft

\* However an invocation goes on, fails, or waits for a worker that hangs, it passes through
\* fifteen stages at most, in any number of invocations at the same time.
THEOREM InvocationsPassOn == Spec => InvocationsRunOut
<1>1. ASSUME Hooks, NEW h \in Hook, HookStep(h)
      PROVE  StagesLeft(hook'[h].pc) < StagesLeft(hook[h].pc)
  <2>1. PICK s : GoesTo(h, s) /\ StagesLeft(s) < StagesLeft(hook[h].pc)
    BY <1>1, HookStepGoes
  <2> QED
    BY <2>1 DEF GoesTo
<1>2. ASSUME Hooks, [Next]_vars, NEW h \in Hook, hook[h].pc # "idle"
      PROVE  StagesLeft(hook'[h].pc) <= StagesLeft(hook[h].pc)
  <2>1. CASE hook'[h] = hook[h]
    BY <2>1, StagesLeftType
  <2>2. CASE hook'[h].pc = "idle"
    <3>1. StagesLeft(hook'[h].pc) = 0
      BY <2>2 DEF StagesLeft
    <3> QED BY <3>1, StagesLeftType
  <2>3. ASSUME NEW g \in Hook, Start(g) PROVE hook'[h] = hook[h]
    <3>1. hook[g].pc = "idle" /\ g # h
      BY <1>2, <2>3, Zenon DEF Start, Free
    <3>2. PICK o \in Option :
            hook' = [hook EXCEPT ![g] = [Idle EXCEPT !.pc = o.command, !.opt = o]]
      BY <2>3, Zenon DEF Start
    <3> QED BY <1>2, <3>1, <3>2 DEF Hooks
  <2>4. ASSUME NEW g \in Hook, HookStep(g)
        PROVE  StagesLeft(hook'[h].pc) <= StagesLeft(hook[h].pc)
    <3>1. CASE g = h
      <4>1. StagesLeft(hook'[h].pc) < StagesLeft(hook[h].pc)
        BY <1>1, <1>2, <2>4, <3>1
      <4> QED BY <4>1, StagesLeftType
    <3>2. CASE g # h
      BY <1>2, <2>1, <2>4, <3>2, HookStepGoes DEF GoesTo
    <3> QED BY <3>1, <3>2
  <2>5. ASSUME NEW g \in Hook, WorkerStep(g) PROVE hook'[h] = hook[h]
    BY <2>5, WorkerStepGoes
  <2>6. ASSUME NEW g \in Hook, Kill(g) PROVE hook'[h] = hook[h] \/ hook'[h].pc = "idle"
    BY <1>2, <2>6, Goes DEF Kill, EndUnknown, GoesTo
  <2>7. CASE UNCHANGED vars
    BY <2>1, <2>7 DEF vars
  <2> QED
    BY <1>2, <2>1, <2>2, <2>3, <2>4, <2>5, <2>6, <2>7 DEF Next, Quiet
<1>3. Typed /\ [Next]_vars =>
        [\A h \in Hook :
           /\ HookStep(h) => StagesLeft(hook'[h].pc) < StagesLeft(hook[h].pc)
           /\ hook[h].pc # "idle" => StagesLeft(hook'[h].pc) <= StagesLeft(hook[h].pc)]_vars
  BY <1>1, <1>2 DEF Typed
<1>4. Init => Typed
  BY TypedInit
<1>5. Typed /\ [Next]_vars => Typed'
  BY HooksStep, FilesStep, FlowStep, ProcessesStep, RecordsStep DEF Typed
<1> QED
  BY <1>3, <1>4, <1>5, PTL DEF Spec, InvocationsRunOut
-----------------------------------------------------------------------------
(* One invocation at a time.                                                 *)

HookState == [pc : Stages, opt : Option \cup {None}, outer : Nat, inner : Nat,
              feedback : Revision \cup {None}, initial : BOOLEAN]
HookTypes == hook \in [Hook -> HookState] /\ worker \in [Hook -> Worker]
Options == \A h \in Hook : hook[h].pc # "idle" => hook[h].opt \in Option
Disk ==
    /\ DOMAIN file = {"uncertain", "failed", "result", "response", "readback"}
    /\ asked \in [Key -> Nat]
    /\ completed \in Revision \cup {None} /\ revisions \subseteq Revision
    /\ file["response"] \in Revision \cup {None, Torn}
Counts == calls \in Nat /\ reported \in Nat /\ misreported \in Nat

\* One invocation is live, and a worker belongs to the stage its hook waits in.
Single == \A g, h \in Hook : hook[g].pc # "idle" /\ hook[h].pc # "idle" => g = h
Fits(w, pc) == /\ w.phase = "none" => w = NoWorker
               /\ w.phase # "none" => w.stage # "none" /\ pc \in {"idle", w.stage}
               /\ w.phase = "ended" => pc # "idle"
               /\ w.phase # "ended" => w.count = 0
               /\ w.stage = "feedback" => w.key \in Key
Workers == \A h \in Hook : Fits(worker[h], hook[h].pc)

\* From the dispatch to the record of its outcome, no outcome is recorded.
Closed == \A h \in Hook : hook[h].pc \in {"research", "mark-unknown", "mark-failed"} => ~Marked

\* Whoever is about to ask has an approval that nobody has asked under.
AskedAttempts ==
    /\ \A k \in Key : asked[k] <= 1 /\ (asked[k] # 0 => k \in attempts)
    /\ \A h \in Hook : hook[h].pc = "save-attempt" => KeyOf(hook[h].opt) \notin attempts
    /\ \A h \in Hook : hook[h].pc = "ask" =>
         KeyOf(hook[h].opt) \in attempts /\ asked[KeyOf(hook[h].opt)] = 0

Done == completed # None => completed.review = "done"

\* The counters of an invocation are those of the stages it has passed.
Counters ==
    \A h \in Hook : /\ hook[h].pc \in {"produce", "research"} => hook[h].outer = 0
                    /\ hook[h].pc \notin {"idle", "publish", "publish-readback",
                                         "initial-response", "initial-readback"}
                         => hook[h].inner = 0
\* The calls of an invocation that it has still to report: those it has counted, and the
\* one its worker has made, as far as it can be told (Due); and one more may be lost.
Made(w) == IF w.phase = "called" THEN 1
           ELSE IF w.phase = "ended" /\ w.count # None THEN w.count ELSE 0
Due(w, r) == r.outer + r.inner + Made(w)
Lost(w, r) == IF r.pc = "mark-unknown" \/ w.count = None THEN 1 ELSE 0

\* What is reported, with what is due, is covered by calls that were made; and as long as
\* nothing is unknown, it covers them up to those lost.
NotTwice(w, r, made, told) == told <= made /\ (r.pc # "idle" => told + Due(w, r) <= made)
NotMissed(w, r, made, told, lost) ==
    IF r.pc = "idle" THEN w = NoWorker /\ made <= told + lost
    ELSE made <= told + lost + Due(w, r) + Lost(w, r)
Cost ==
    /\ reported <= calls
    /\ \A h \in Hook : NotTwice(worker[h], hook[h], calls, reported)
    /\ ~unknown =>
         /\ (\A h \in Hook : hook[h].pc = "idle") => calls <= reported + misreported
         /\ \A h \in Hook : hook[h].pc = "idle" => worker[h] = NoWorker
         /\ \A h \in Hook : hook[h].pc # "idle" =>
              NotMissed(worker[h], hook[h], calls, reported, misreported)

Basics == Options /\ Counts /\ Single /\ Done /\ Counters
NativeInv == /\ Alone /\ HookTypes /\ Basics /\ Disk /\ Workers /\ Closed
             /\ AskedAttempts /\ Cost

\* A step takes no return whose review has been completed to a new attempt.
ReviewStays ==
    \A h \in Hook :
      completed # None /\ file["response"] # None /\ hook[h].pc = "return"
      => hook'[h].pc # "attempt"

\* What the model's operators preserve of the types.
LEMMA MoveTypes ==
    ASSUME hook \in [Hook -> HookState], worker \in [Hook -> Worker], NEW h \in Hook
    PROVE /\ \A s \in Stages : Goto(h, s) => hook' \in [Hook -> HookState]
          /\ Leave(h) => hook' \in [Hook -> HookState]
          /\ \A s \in Stages, n \in Nat : GoWith(h, s, n) => hook' \in [Hook -> HookState]
          /\ \A n \in {0, 1, None}, fine \in BOOLEAN :
               WorkerEnds(h, n, fine) => worker' \in [Hook -> Worker]
          /\ NoWorker \in Worker
          /\ [worker EXCEPT ![h] = NoWorker] \in [Hook -> Worker]
          /\ [worker EXCEPT ![h].phase = "called"] \in [Hook -> Worker]
<1>1. Idle \in HookState /\ NoWorker \in Worker
  BY DEF Idle, HookState, Stages, NoWorker, Worker
<1>2. hook[h] \in HookState /\ worker[h] \in Worker
  OBVIOUS
<1>3. \A s \in Stages : [hook[h] EXCEPT !.pc = s] \in HookState
  BY <1>2 DEF HookState
<1>4. \A s \in Stages, n \in Nat : [[hook[h] EXCEPT !.pc = s] EXCEPT !.outer = n] \in HookState
  BY <1>2 DEF HookState
<1>5. [worker[h] EXCEPT !.phase = "called"] \in Worker
  BY <1>2 DEF Worker
<1>6. \A n \in {0, 1, None}, fine \in BOOLEAN :
        [[[worker[h] EXCEPT !.phase = "ended"] EXCEPT !.count = n] EXCEPT !.ok = fine] \in Worker
  BY <1>2 DEF Worker
<1>7. ASSUME NEW s \in Stages, Goto(h, s) PROVE hook' \in [Hook -> HookState]
  BY <1>3, <1>7 DEF Goto
<1>8. ASSUME NEW s \in Stages, NEW n \in Nat, GoWith(h, s, n) PROVE hook' \in [Hook -> HookState]
  BY <1>4, <1>8 DEF GoWith
<1>9. ASSUME NEW n \in {0, 1, None}, NEW fine \in BOOLEAN, WorkerEnds(h, n, fine)
      PROVE worker' \in [Hook -> Worker]
  BY <1>1, <1>6, <1>9 DEF WorkerEnds
<1> QED
  BY <1>1, <1>5, <1>7, <1>8, <1>9 DEF Leave

\* What the steps that compute or choose a flag do, with the flag abstracted.
StartEffect(h) ==
    /\ worker[h] = NoWorker /\ \A g \in Hook : hook[g].pc = "idle"
    /\ \E r \in HookState : /\ hook' = [hook EXCEPT ![h] = r]
                            /\ r.pc \in {"produce", "complete"} /\ r.opt \in Option
                            /\ r.outer = 0 /\ r.inner = 0
    /\ UNCHANGED <<disk, flow, worker, history>>
Dispatched(h, stage, w) == /\ worker' = [worker EXCEPT ![h] = w]
                           /\ w.stage = stage /\ w.phase = "started" /\ w.count = 0
                           /\ stage = "feedback" => w.key \in Key
                           /\ Goto(h, stage)
ResearchEffect(h) ==
    /\ hook[h].pc = "produce" /\ Open /\ UNCHANGED <<disk, flow, starts>>
    /\ \/ End(h) /\ UNCHANGED worker
       \/ UNCHANGED history /\ \E w \in Worker : Dispatched(h, "research", w)
AskEffect(h) ==
    /\ hook[h].pc = "ask" /\ UNCHANGED <<disk, flow, starts>>
    /\ \/ End(h) /\ UNCHANGED worker
       \/ /\ \E w \in Worker : Dispatched(h, "feedback", w)
          /\ asked' = [asked EXCEPT ![KeyOf(hook[h].opt)] = @ + 1]
          /\ UNCHANGED <<calls, reported, unknown, misreported>>
FeedbackReturnsEffect(h) ==
    /\ hook[h].pc = "feedback" /\ UNCHANGED <<disk, flow, starts>>
    /\ \E n \in {0, 1} :
         /\ Reported(h, n)
         /\ \/ EndWith(h, hook[h].outer + n)
            \/ UNCHANGED history /\ \E r \in HookState :
                 /\ hook' = [hook EXCEPT ![h] = r]
                 /\ r.pc = "publish" /\ r.opt = hook[h].opt
                 /\ r.inner = n /\ r.outer = hook[h].outer

\* A worker that ends waits to be read by its hook, or is gone.
Ended(h, n) ==
    \E w \in Worker :
      /\ worker' = [worker EXCEPT ![h] = w]
      /\ Waiting(h) => /\ w.phase = "ended" /\ w.count = n
                      /\ w.stage = worker[h].stage /\ w.key = worker[h].key
      /\ ~Waiting(h) => w = NoWorker
ResearchWorkerPreparesEffect(h) ==
    /\ worker[h].stage = "research" /\ worker[h].phase = "started" /\ Ended(h, 0)
    /\ UNCHANGED <<disk, revisions, completed, tried, hook, history, starts>>
ResearchWorkerAnswersEffect(h) ==
    /\ worker[h].stage = "research" /\ worker[h].phase = "called" /\ Ended(h, 1)
    /\ UNCHANGED <<disk, revisions, completed, tried, hook, history, starts>>
FeedbackWorkerAnswersEffect(h) ==
    /\ worker[h].stage = "feedback" /\ worker[h].phase = "called" /\ Ended(h, 1)
    /\ \E f \in [review : {"pending", "failed", "done"}, key : {worker[h].key}] :
         /\ revisions' = revisions \cup {f}
         /\ completed' = completed \/ (completed' = f /\ f.review = "done")
    /\ UNCHANGED <<disk, slot, tried, hook, history, starts>>
FeedbackWorkerReceivesEffect(h) ==
    /\ worker[h].stage = "feedback" /\ worker[h].phase = "started" /\ Ended(h, 0)
    /\ \E f \in [review : {"pending", "failed", "done"}, key : {worker[h].key}] :
         revisions' = revisions \cup {f} \/ UNCHANGED revisions
    /\ UNCHANGED <<disk, slot, completed, tried, hook, history, starts>>
WorkerFailsEffect(h) ==
    /\ worker[h].phase \in {"started", "called"}
    /\ \/ Ended(h, None)
       \/ Ended(h, IF worker[h].phase = "called" THEN 1 ELSE 0)
    /\ UNCHANGED <<disk, flow, hook, history, starts>>

LEMMA EndedIfEnds ==
    ASSUME HookTypes, NEW h \in Hook, NEW n \in {0, 1, None}, NEW fine \in BOOLEAN,
           WorkerEnds(h, n, fine)
    PROVE Ended(h, n)
<1> DEFINE w == [worker[h] EXCEPT !.phase = "ended", !.count = n, !.ok = fine]
<1>1. worker[h] \in Worker /\ NoWorker \in Worker
  BY MoveTypes DEF HookTypes
<1>2. [[worker[h] EXCEPT !.phase = "ended"] EXCEPT !.count = n] \in Worker
  BY <1>1 DEF Worker
<1>3. [[[worker[h] EXCEPT !.phase = "ended"] EXCEPT !.count = n] EXCEPT !.ok = fine] \in Worker
  <2> DEFINE v == [[worker[h] EXCEPT !.phase = "ended"] EXCEPT !.count = n]
  <2> HIDE DEF v
  <2>1. v \in Worker => [v EXCEPT !.ok = fine] \in Worker
    BY DEF Worker
  <2> QED
    BY <1>2, <2>1 DEF v
<1>4. /\ w \in Worker /\ w.phase = "ended" /\ w.count = n
      /\ w.stage = worker[h].stage /\ w.key = worker[h].key
  BY <1>1, <1>3 DEF Worker
<1>5. worker' = [worker EXCEPT ![h] = IF Waiting(h) THEN w ELSE NoWorker]
  BY Zenon DEF WorkerEnds
<1> HIDE DEF w
<1> QED
  BY <1>1, <1>4, <1>5, Zenon DEF Ended

LEMMA WorkersDo ==
    ASSUME HookTypes, NEW h \in Hook
    PROVE /\ ResearchWorkerPrepares(h) => ResearchWorkerPreparesEffect(h)
          /\ ResearchWorkerAnswers(h) => ResearchWorkerAnswersEffect(h)
          /\ FeedbackWorkerAnswers(h) => FeedbackWorkerAnswersEffect(h)
          /\ FeedbackWorkerReceives(h) => FeedbackWorkerReceivesEffect(h)
          /\ WorkerFails(h) => WorkerFailsEffect(h)
<1>1. \A n \in {0, 1, None}, fine \in BOOLEAN : WorkerEnds(h, n, fine) => Ended(h, n)
  BY EndedIfEnds
<1>2. ResearchWorkerPrepares(h) => ResearchWorkerPreparesEffect(h)
  BY <1>1, Zenon DEF ResearchWorkerPrepares, ResearchWorkerPreparesEffect
<1>3. ASSUME FeedbackWorkerAnswers(h) PROVE FeedbackWorkerAnswersEffect(h)
  <2>1. Ended(h, 1)
    BY <1>1, <1>3, Zenon DEF FeedbackWorkerAnswers
  <2>2. \E f \in [review : {"pending", "failed", "done"}, key : {worker[h].key}] :
          /\ revisions' = revisions \cup {f}
          /\ completed' = completed \/ (completed' = f /\ f.review = "done")
    <3>1. PICK review \in {"failed", "done"} :
            /\ revisions' = revisions \cup {[review |-> review, key |-> worker[h].key]}
            /\ completed' = IF review = "done" THEN [review |-> review, key |-> worker[h].key]
                            ELSE completed
      BY <1>3, Zenon DEF FeedbackWorkerAnswers
    <3> WITNESS [review |-> review, key |-> worker[h].key] \in
                  [review : {"pending", "failed", "done"}, key : {worker[h].key}]
    <3> QED
      BY <3>1
  <2> QED
    BY <1>3, <2>1, <2>2, Zenon DEF FeedbackWorkerAnswers, FeedbackWorkerAnswersEffect
<1>4. ASSUME FeedbackWorkerReceives(h) PROVE FeedbackWorkerReceivesEffect(h)
  <2>1. Ended(h, 0)
    BY <1>1, <1>4, Zenon DEF FeedbackWorkerReceives
  <2>2. [review |-> "pending", key |-> worker[h].key] \in
          [review : {"pending", "failed", "done"}, key : {worker[h].key}]
    OBVIOUS
  <2> QED
    BY <1>4, <2>1, <2>2, Zenon DEF FeedbackWorkerReceives, FeedbackWorkerReceivesEffect
<1>5. WorkerFails(h) => WorkerFailsEffect(h)
  BY <1>1, Zenon DEF WorkerFails, WorkerFailsEffect
<1>6. ResearchWorkerAnswers(h) => ResearchWorkerAnswersEffect(h)
  BY <1>1, Zenon DEF ResearchWorkerAnswers, ResearchWorkerAnswersEffect
<1> QED
  BY <1>2, <1>3, <1>4, <1>5, <1>6

LEMMA StartDoes == ASSUME Alone, NEW h \in Hook, Start(h) PROVE StartEffect(h)
<1> DEFINE r(o) == [Idle EXCEPT !.pc = o.command, !.opt = o]
<1>1. ASSUME NEW o \in Option
      PROVE /\ r(o) \in HookState /\ r(o).pc \in {"produce", "complete"}
            /\ r(o).opt \in Option /\ r(o).outer = 0 /\ r(o).inner = 0
  <2>1. o.command \in {"produce", "complete"}
    BY DEF Option
  <2> QED
    BY <2>1 DEF Idle, HookState, Stages
<1>2. /\ worker[h] = NoWorker /\ UNCHANGED <<disk, flow, worker, history>>
      /\ \E o \in Option : hook' = [hook EXCEPT ![h] = r(o)]
  BY Zenon DEF Start, Free
<1>3. \A g \in Hook : hook[g].pc = "idle"
  BY Zenon DEF Start
<1> HIDE DEF r
<1> QED
  BY <1>1, <1>2, <1>3, Zenon DEF StartEffect

LEMMA ResearchDoes ==
    ASSUME NEW h \in Hook, hook[h].opt \in Option, Research(h) PROVE ResearchEffect(h)
<1> DEFINE w(able) == [NoWorker EXCEPT !.stage = "research", !.phase = "started",
                                       !.able = able, !.source = hook[h].opt.source]
<1>1. Able(h, TRUE) \in BOOLEAN
  BY Zenon DEF Able
<1>2. ASSUME NEW able \in BOOLEAN
      PROVE /\ w(able) \in Worker /\ w(able).stage = "research"
            /\ w(able).phase = "started" /\ w(able).count = 0
  BY DEF NoWorker, Worker, Option
<1> HIDE DEF w
<1>3. /\ hook[h].pc = "produce" /\ Open /\ UNCHANGED <<disk, flow, starts>>
      /\ \/ End(h) /\ UNCHANGED worker
         \/ /\ UNCHANGED history /\ Goto(h, "research")
            /\ worker' = [worker EXCEPT ![h] = w(Able(h, TRUE))]
  BY Zenon DEF Research, w
<1> QED
  BY <1>1, <1>2, <1>3, Zenon DEF ResearchEffect, Dispatched

LEMMA AskDoes ==
    ASSUME NEW h \in Hook, hook[h].opt \in Option, Ask(h) PROVE AskEffect(h)
<1> DEFINE w(able) == [NoWorker EXCEPT !.stage = "feedback", !.phase = "started",
                                       !.able = able, !.key = KeyOf(hook[h].opt)]
<1>1. Able(h, ~hook[h].opt.defer) \in BOOLEAN
  BY Zenon DEF Able
<1>2. ASSUME NEW able \in BOOLEAN
      PROVE /\ w(able) \in Worker /\ w(able).stage = "feedback" /\ w(able).key \in Key
            /\ w(able).phase = "started" /\ w(able).count = 0
  BY KeyIsKey DEF NoWorker, Worker
<1> HIDE DEF w
<1>3. /\ hook[h].pc = "ask" /\ UNCHANGED <<disk, flow, starts>>
      /\ \/ End(h) /\ UNCHANGED worker
         \/ /\ Goto(h, "feedback")
            /\ worker' = [worker EXCEPT ![h] = w(Able(h, ~hook[h].opt.defer))]
            /\ asked' = [asked EXCEPT ![KeyOf(hook[h].opt)] = @ + 1]
            /\ UNCHANGED <<calls, reported, unknown, misreported>>
  BY Zenon DEF Ask, w
<1> QED
  BY <1>1, <1>2, <1>3, Zenon DEF AskEffect, Dispatched

LEMMA FeedbackReturnsDoes ==
    ASSUME HookTypes, revisions \subseteq Revision,
           NEW h \in Hook, FeedbackReturns(h) PROVE FeedbackReturnsEffect(h)
<1> DEFINE r(n, f, initial) == [hook[h] EXCEPT !.pc = "publish", !.inner = n,
                                               !.feedback = f, !.initial = initial]
<1>1. (file["response"] = None) \in BOOLEAN
  BY Zenon
<1>2. ASSUME NEW n \in {0, 1}, NEW f \in Revision, NEW initial \in BOOLEAN
      PROVE /\ r(n, f, initial) \in HookState /\ r(n, f, initial).pc = "publish"
            /\ r(n, f, initial).opt = hook[h].opt
            /\ r(n, f, initial).inner = n /\ r(n, f, initial).outer = hook[h].outer
  <2>1. hook[h] \in HookState
    BY DEF HookTypes
  <2> DEFINE x == [hook[h] EXCEPT !.pc = "publish", !.inner = n]
  <2>2. x \in HookState
    <3>1. "publish" \in Stages /\ n \in Nat
      BY DEF Stages
    <3>2. [hook[h] EXCEPT !.pc = "publish"] \in HookState
      BY <2>1, <3>1 DEF HookState
    <3>3. [[hook[h] EXCEPT !.pc = "publish"] EXCEPT !.inner = n] \in HookState
      BY <3>1, <3>2 DEF HookState
    <3> QED
      BY <2>1, <3>3 DEF HookState
  <2>3. r(n, f, initial) = [x EXCEPT !.feedback = f, !.initial = initial]
    BY <2>1 DEF HookState
  <2>4. r(n, f, initial) \in HookState
    <3> HIDE DEF x, r
    <3> QED
      BY <2>2, <2>3 DEF HookState
  <2>5. /\ r(n, f, initial).pc = "publish" /\ r(n, f, initial).opt = hook[h].opt
        /\ r(n, f, initial).inner = n /\ r(n, f, initial).outer = hook[h].outer
    BY <2>1 DEF HookState
  <2> QED
    BY <2>4, <2>5
<1>3. Candidates \subseteq Revision
  BY DEF Candidates
<1> HIDE DEF r
<1>5. /\ hook[h].pc = "feedback" /\ UNCHANGED <<disk, flow, starts>>
      /\ \E n \in {0, 1} :
           /\ Reported(h, n)
           /\ \/ EndWith(h, hook[h].outer + n)
              \/ UNCHANGED history /\ \E f \in Revision :
                   hook' = [hook EXCEPT ![h] = r(n, f, file["response"] = None)]
  <2>1. PICK n \in {0, 1} :
          /\ Reported(h, n)
          /\ \/ EndWith(h, hook[h].outer + n)
             \/ UNCHANGED history /\ \E f \in Candidates :
                  hook' = [hook EXCEPT ![h] = r(n, f, file["response"] = None)]
    BY Zenon DEF FeedbackReturns, r
  <2>2. /\ hook[h].pc = "feedback" /\ UNCHANGED <<disk, flow, starts>>
    BY Zenon DEF FeedbackReturns
  <2> QED
    BY <1>3, <2>1, <2>2, Zenon
<1> QED
  BY <1>1, <1>2, <1>5, Zenon DEF FeedbackReturnsEffect

LEMMA Effects ==
    ASSUME NativeInv, NEW h \in Hook
    PROVE /\ Start(h) => StartEffect(h)
          /\ Research(h) => ResearchEffect(h)
          /\ Ask(h) => AskEffect(h)
          /\ FeedbackReturns(h) => FeedbackReturnsEffect(h)
          /\ ResearchWorkerPrepares(h) => ResearchWorkerPreparesEffect(h)
          /\ ResearchWorkerAnswers(h) => ResearchWorkerAnswersEffect(h)
          /\ FeedbackWorkerAnswers(h) => FeedbackWorkerAnswersEffect(h)
          /\ FeedbackWorkerReceives(h) => FeedbackWorkerReceivesEffect(h)
          /\ WorkerFails(h) => WorkerFailsEffect(h)
<1>1. ASSUME hook[h].pc # "idle" PROVE hook[h].opt \in Option
  BY <1>1 DEF NativeInv, Basics, Options
<1>2. Research(h) => hook[h].pc # "idle"
  BY Zenon DEF Research
<1>3. Ask(h) => hook[h].pc # "idle"
  BY Zenon DEF Ask
<1> QED
  BY <1>1, <1>2, <1>3, StartDoes, ResearchDoes, AskDoes, FeedbackReturnsDoes, WorkersDo, Zenon
     DEF NativeInv, Basics, Disk

\* A step that gives one hook a worker that fits its stage leaves the others alone.
LEMMA FitsEverywhere ==
    ASSUME HookTypes, Workers, NEW h \in Hook, NEW w, NEW r,
           worker' = [worker EXCEPT ![h] = w], hook' = [hook EXCEPT ![h] = r],
           Fits(w, r.pc)
    PROVE Workers'
BY DEF HookTypes, Workers, Fits

\* What the live invocation owes.
LEMMA Owed ==
    ASSUME NativeInv, NEW h \in Hook
    PROVE /\ calls \in Nat /\ reported \in Nat /\ misreported \in Nat /\ reported <= calls
          /\ hook[h].outer \in Nat /\ hook[h].inner \in Nat /\ Counted(h) \in Nat
          /\ Made(worker[h]) \in {0, 1} /\ Lost(worker[h], hook[h]) \in {0, 1}
          /\ Due(worker[h], hook[h]) = Counted(h) + Made(worker[h])
          /\ Due(worker[h], hook[h]) \in Nat
          /\ hook[h].pc # "idle" => reported + Due(worker[h], hook[h]) <= calls
          /\ hook[h].pc # "idle" /\ ~unknown =>
               calls <= reported + misreported + Due(worker[h], hook[h]) + Lost(worker[h], hook[h])
<1>1. calls \in Nat /\ reported \in Nat /\ misreported \in Nat /\ reported <= calls
  BY DEF NativeInv, Basics, Counts, Cost
<1>2. hook[h].outer \in Nat /\ hook[h].inner \in Nat /\ worker[h].count \in {0, 1, None}
  BY DEF NativeInv, HookTypes, HookState, Worker
<1>3. Made(worker[h]) \in {0, 1} /\ Lost(worker[h], hook[h]) \in {0, 1}
  BY <1>2 DEF Made, Lost
<1>4. /\ Due(worker[h], hook[h]) = Counted(h) + Made(worker[h])
      /\ Counted(h) \in Nat /\ Due(worker[h], hook[h]) \in Nat
  BY <1>2, <1>3 DEF Due, Counted
<1>5. hook[h].pc # "idle" => reported + Due(worker[h], hook[h]) <= calls
  BY DEF NativeInv, Cost, NotTwice
<1>6. hook[h].pc # "idle" /\ ~unknown =>
        calls <= reported + misreported + Due(worker[h], hook[h]) + Lost(worker[h], hook[h])
  BY DEF NativeInv, Cost, NotMissed
<1> QED
  BY <1>1, <1>2, <1>3, <1>4, <1>5, <1>6

\* A step of one hook, or of its worker, that keeps the balance there keeps it everywhere.
LEMMA CostEverywhere ==
    ASSUME NativeInv, NEW h \in Hook, NEW w, NEW r,
           worker' = [worker EXCEPT ![h] = w], hook' = [hook EXCEPT ![h] = r],
           calls' \in Nat, reported' \in Nat, calls <= calls',
           hook[h].pc # "idle" \/ reported' = reported,
           NotTwice(w, r, calls', reported'),
           ~unknown' => /\ ~unknown /\ hook[h].pc # "idle"
                        /\ NotMissed(w, r, calls', reported', misreported')
    PROVE Cost'
<1> HIDE DEF NotTwice, NotMissed
<1>1. /\ hook'[h] = r /\ worker'[h] = w
      /\ \A g \in Hook : g # h => hook'[g] = hook[g] /\ worker'[g] = worker[g]
  BY DEF NativeInv, HookTypes
<1>2. reported' <= calls'
  BY DEF NotTwice
<1>3. ASSUME NEW g \in Hook PROVE NotTwice(worker'[g], hook'[g], calls', reported')
  <2>1. CASE g = h
    BY <1>1, <2>1
  <2>2. CASE g # h /\ hook[g].pc = "idle"
    BY <1>1, <1>2, <2>2 DEF NotTwice
  <2>3. CASE g # h /\ hook[g].pc # "idle"
    <3>1. reported' = reported
      BY <2>3 DEF NativeInv, Basics, Single
    <3>2. reported + Due(worker[g], hook[g]) <= calls /\ Due(worker[g], hook[g]) \in Nat
      BY <2>3, Owed
    <3>3. reported' + Due(worker[g], hook[g]) <= calls'
      BY <3>1, <3>2, Owed
    <3> QED
      BY <1>1, <1>2, <2>3, <3>3 DEF NotTwice
  <2> QED
    BY <2>1, <2>2, <2>3
<1>4. ASSUME ~unknown'
      PROVE /\ (\A g \in Hook : hook'[g].pc = "idle") => calls' <= reported' + misreported'
            /\ \A g \in Hook : hook'[g].pc = "idle" => worker'[g] = NoWorker
            /\ \A g \in Hook : hook'[g].pc # "idle" =>
                 NotMissed(worker'[g], hook'[g], calls', reported', misreported')
  <2>1. \A g \in Hook : g # h => hook[g].pc = "idle" /\ worker[g] = NoWorker
    BY <1>4 DEF NativeInv, Basics, Single, Cost
  <2>2. r.pc = "idle" => w = NoWorker /\ calls' <= reported' + misreported'
    BY <1>4 DEF NotMissed
  <2>3. NotMissed(w, r, calls', reported', misreported')
    BY <1>4
  <2> QED
    BY <1>1, <2>1, <2>2, <2>3
<1> QED
  BY <1>2, <1>3, <1>4 DEF Cost

\* An invocation that goes on with what it owed, though it may come to lose a call.
LEMMA GoesOn ==
    ASSUME NativeInv, NEW h \in Hook, hook[h].pc # "idle", NEW w, NEW r, r.pc # "idle",
           worker' = [worker EXCEPT ![h] = w], hook' = [hook EXCEPT ![h] = r],
           UNCHANGED <<calls, reported, unknown, misreported>>,
           Due(w, r) \in Nat, Lost(w, r) \in {0, 1},
           Due(w, r) <= Due(worker[h], hook[h]),
           Due(worker[h], hook[h]) + Lost(worker[h], hook[h]) <= Due(w, r) + Lost(w, r)
    PROVE Cost'
<1>1. NotTwice(w, r, calls', reported')
  BY Owed DEF NotTwice
<1>2. ~unknown => NotMissed(w, r, calls', reported', misreported')
  BY Owed DEF NotMissed
<1>3. ~unknown' => ~unknown
  BY Zenon
<1>4. calls' \in Nat /\ reported' \in Nat /\ calls <= calls'
  BY Owed
<1> QED
  BY <1>1, <1>2, <1>3, <1>4, CostEverywhere, Zenon

\* An invocation that ends with what it owed.
LEMMA EndsCounted ==
    ASSUME NativeInv, NEW h \in Hook, hook[h].pc # "idle",
           EndWith(h, Due(worker[h], hook[h])), worker' = [worker EXCEPT ![h] = NoWorker],
           Lost(worker[h], hook[h]) = 0
    PROVE Cost'
<1>1. /\ hook' = [hook EXCEPT ![h] = Idle] /\ Idle.pc = "idle"
      /\ reported' = reported + Due(worker[h], hook[h])
      /\ UNCHANGED <<calls, unknown, misreported>>
  BY DEF EndWith, Leave, Idle
<1>2. NotTwice(NoWorker, Idle, calls', reported')
  BY <1>1, Owed DEF NotTwice
<1>3. ~unknown => NotMissed(NoWorker, Idle, calls', reported', misreported')
  BY <1>1, Owed DEF NotMissed
<1>4. calls' \in Nat /\ reported' \in Nat /\ calls <= calls'
  BY <1>1, Owed
<1>5. ~unknown' => ~unknown
  BY <1>1, Zenon
<1> QED
  BY <1>1, <1>2, <1>3, <1>4, <1>5, CostEverywhere, Zenon

\* An invocation that ends without the one call its worker may have made.
LEMMA EndsMisreported ==
    ASSUME NativeInv, NEW h \in Hook, hook[h].pc # "idle",
           EndMisreported(h), worker' = [worker EXCEPT ![h] = NoWorker],
           Made(worker[h]) + Lost(worker[h], hook[h]) <= 1
    PROVE Cost'
<1>1. /\ hook' = [hook EXCEPT ![h] = Idle] /\ Idle.pc = "idle"
      /\ reported' = reported + Counted(h) /\ misreported' = misreported + 1
      /\ UNCHANGED <<calls, unknown>>
  BY DEF EndMisreported, Leave, Idle
<1>2. NotTwice(NoWorker, Idle, calls', reported')
  BY <1>1, Owed DEF NotTwice
<1>3. ~unknown => NotMissed(NoWorker, Idle, calls', reported', misreported')
  BY <1>1, Owed DEF NotMissed
<1>4. calls' \in Nat /\ reported' \in Nat /\ calls <= calls'
  BY <1>1, Owed
<1>5. ~unknown' => ~unknown
  BY <1>1, Zenon
<1> QED
  BY <1>1, <1>2, <1>3, <1>4, <1>5, CostEverywhere, Zenon

\* An invocation that ends with an unknown count, whatever becomes of its worker.
LEMMA EndsUnknown ==
    ASSUME NativeInv, NEW h \in Hook, hook[h].pc # "idle", NEW w,
           EndUnknown(h), worker' = [worker EXCEPT ![h] = w]
    PROVE Cost'
<1>1. /\ hook' = [hook EXCEPT ![h] = Idle] /\ Idle.pc = "idle" /\ unknown'
      /\ UNCHANGED <<calls, reported, misreported>>
  BY DEF EndUnknown, Leave, Idle
<1>2. NotTwice(w, Idle, calls', reported')
  BY <1>1, Owed DEF NotTwice
<1>3. calls' \in Nat /\ reported' \in Nat /\ calls <= calls'
  BY <1>1, Owed
<1> QED
  BY <1>1, <1>2, <1>3, CostEverywhere, Zenon

\* A worker makes its call: it is due, if there is an invocation to report it.
LEMMA CallIsDue ==
    ASSUME NativeInv, NEW h \in Hook, worker[h].phase = "started", hook' = hook,
           worker' = [worker EXCEPT ![h].phase = "called"], calls' = calls + 1,
           UNCHANGED <<reported, unknown, misreported>>
    PROVE Cost'
<1> DEFINE w == [worker[h] EXCEPT !.phase = "called"]
<1>1. worker[h] \in Worker /\ hook[h] \in HookState /\ worker[h].count = 0
  BY DEF NativeInv, HookTypes, Workers, Fits
<1>2. w.phase = "called" /\ w.count = 0
  BY <1>1 DEF Worker
<1>3. worker' = [worker EXCEPT ![h] = w] /\ hook' = [hook EXCEPT ![h] = hook[h]]
  BY DEF NativeInv, HookTypes
<1> HIDE DEF w
<1>4. /\ Due(w, hook[h]) = Due(worker[h], hook[h]) + 1
      /\ Lost(w, hook[h]) = Lost(worker[h], hook[h])
  BY <1>1, <1>2, Owed, SentinelAssumption DEF Due, Made, Lost
<1>5. NotTwice(w, hook[h], calls', reported')
  BY <1>4, Owed DEF NotTwice
<1>6. ASSUME ~unknown
      PROVE hook[h].pc # "idle" /\ NotMissed(w, hook[h], calls', reported', misreported')
  <2>1. hook[h].pc # "idle"
    BY <1>6 DEF NativeInv, Cost, NoWorker
  <2> QED
    BY <1>4, <1>6, <2>1, Owed DEF NotMissed
<1>7. calls' \in Nat /\ reported' \in Nat /\ calls <= calls' /\ reported' = reported
  BY Owed
<1>8. ~unknown' => ~unknown
  BY Zenon
<1> QED
  BY <1>3, <1>5, <1>6, <1>7, <1>8, CostEverywhere, Zenon

\* A worker that ends keeps both, as it tells its hook what it has made, or nobody.
LEMMA EndingKeeps ==
    ASSUME NativeInv, NEW h \in Hook, NEW n \in {0, 1, None}, Ended(h, n),
           hook' = hook, UNCHANGED history,
           worker[h].phase \in {"started", "called"}, n # None => Made(worker[h]) = n
    PROVE Workers' /\ Cost'
<1>1. PICK w \in Worker :
        /\ worker' = [worker EXCEPT ![h] = w]
        /\ Waiting(h) => w.phase = "ended" /\ w.count = n /\ w.stage = worker[h].stage
                         /\ w.key = worker[h].key
        /\ ~Waiting(h) => w = NoWorker
  BY Zenon DEF Ended
<1>2. HookTypes /\ Workers /\ Fits(worker[h], hook[h].pc) /\ hook' = [hook EXCEPT ![h] = hook[h]]
  BY DEF NativeInv, Workers, HookTypes
<1>3. Fits(w, hook[h].pc)
  BY <1>1, <1>2 DEF Fits, NoWorker, Waiting
<1>4. UNCHANGED <<calls, reported, unknown, misreported>>
  BY DEF history
<1>5. CASE hook[h].pc = "idle"
  <2>1. unknown
    BY <1>5 DEF NativeInv, Cost, NoWorker
  <2>2. NotTwice(w, hook[h], calls', reported')
    BY <1>4, <1>5, Owed DEF NotTwice
  <2>3. calls' \in Nat /\ reported' \in Nat /\ calls <= calls' /\ reported' = reported
    BY <1>4, Owed
  <2>4. unknown'
    BY <1>4, <2>1, Zenon
  <2> QED
    BY <1>1, <1>2, <1>3, <2>2, <2>3, <2>4, FitsEverywhere, CostEverywhere, Zenon
<1>6. CASE hook[h].pc # "idle"
  <2>1. Waiting(h) /\ worker[h].count = 0
    BY <1>2, <1>6 DEF Fits, Waiting, HookTypes, Worker
  <2>2. w.phase = "ended" /\ w.count = n /\ hook[h].pc # "mark-unknown"
    BY <1>1, <2>1 DEF Waiting
  <2>3. Made(w) = (IF n = None THEN 0 ELSE n) /\ Lost(w, hook[h]) = (IF n = None THEN 1 ELSE 0)
        /\ Lost(worker[h], hook[h]) = 0
    BY <2>1, <2>2, SentinelAssumption DEF Made, Lost
  <2>4. Due(w, hook[h]) = Counted(h) + Made(w)
    BY Owed, <2>3 DEF Due, Counted
  <2>5. /\ Due(w, hook[h]) \in Nat /\ Lost(w, hook[h]) \in {0, 1}
        /\ Due(w, hook[h]) <= Due(worker[h], hook[h])
        /\ Due(worker[h], hook[h]) + Lost(worker[h], hook[h]) <= Due(w, hook[h]) + Lost(w, hook[h])
    BY Owed, <2>3, <2>4
  <2> QED
    BY <1>1, <1>2, <1>3, <1>4, <1>6, <2>5, FitsEverywhere, GoesOn
<1> QED
  BY <1>5, <1>6

\* A hook that waits for no worker has none, and moves on without.
LEMMA MovesWithout ==
    ASSUME HookTypes, Workers, NEW h \in Hook, worker' = worker, NEW r,
           hook[h].pc \notin {"idle", "research", "feedback"},
           hook' = [hook EXCEPT ![h] = r]
    PROVE Workers'
<1>1. worker[h] \in Worker /\ Fits(worker[h], hook[h].pc)
  BY DEF HookTypes, Workers
<1>2. worker[h] = NoWorker
  BY <1>1 DEF Fits, Worker
<1>3. Fits(NoWorker, r.pc)
  BY DEF Fits, NoWorker
<1>4. worker' = [worker EXCEPT ![h] = NoWorker]
  BY <1>2 DEF HookTypes
<1> QED
  BY <1>3, <1>4, FitsEverywhere

LEMMA NoneWaits ==
    ASSUME NativeInv, NEW h \in Hook, hook[h].pc \notin {"idle", "research", "feedback"}
    PROVE worker[h] = NoWorker /\ [worker EXCEPT ![h] = NoWorker] = worker
<1>1. worker[h] \in Worker /\ Fits(worker[h], hook[h].pc)
  BY DEF NativeInv, HookTypes, Workers
<1>2. worker[h] = NoWorker
  BY <1>1 DEF Fits, Worker
<1> QED
  BY <1>2 DEF NativeInv, HookTypes

\* A hook without a worker owes what it has counted, and keeps the balance with it.
LEMMA KeepsCounted ==
    ASSUME NativeInv, NEW h \in Hook, worker' = worker,
           hook[h].pc \notin {"idle", "research", "feedback", "mark-unknown"}
    PROVE /\ End(h) => Cost'
          /\ \A r : /\ hook' = [hook EXCEPT ![h] = r] /\ r.pc \notin {"idle", "mark-unknown"}
                    /\ r.outer = hook[h].outer /\ r.inner = hook[h].inner
                    /\ UNCHANGED <<calls, reported, unknown, misreported>>
                    => Cost'
          /\ \A s : /\ Goto(h, s) /\ s \notin {"idle", "mark-unknown"}
                    /\ UNCHANGED <<calls, reported, unknown, misreported>>
                    => Cost'
<1>1. worker[h] = NoWorker /\ worker' = [worker EXCEPT ![h] = NoWorker]
  BY NoneWaits
<1>2. Made(NoWorker) = 0 /\ NoWorker.count # None
  BY SentinelAssumption DEF Made, NoWorker
<1>3. Lost(worker[h], hook[h]) = 0 /\ Due(worker[h], hook[h]) = Counted(h)
  BY <1>1, <1>2, Owed DEF Lost
<1>4. End(h) => Cost'
  BY <1>1, <1>3, EndsCounted DEF End
<1>5. ASSUME NEW r, hook' = [hook EXCEPT ![h] = r], r.pc \notin {"idle", "mark-unknown"},
             r.outer = hook[h].outer, r.inner = hook[h].inner,
             UNCHANGED <<calls, reported, unknown, misreported>>
      PROVE Cost'
  <2>1. Due(NoWorker, r) = Counted(h) /\ Lost(NoWorker, r) = 0
    BY <1>2, <1>5, Owed DEF Due, Counted, Lost
  <2>2. /\ Due(NoWorker, r) \in Nat /\ Lost(NoWorker, r) \in {0, 1}
        /\ Due(NoWorker, r) <= Due(worker[h], hook[h])
        /\ Due(worker[h], hook[h]) + Lost(worker[h], hook[h]) <= Due(NoWorker, r) + Lost(NoWorker, r)
    BY <1>3, <2>1, Owed
  <2>3. hook[h].pc # "idle" /\ r.pc # "idle"
    BY <1>5
  <2> QED
    BY <1>1, <1>5, <2>2, <2>3, GoesOn, Zenon
<1>6. ASSUME NEW s, Goto(h, s), s \notin {"idle", "mark-unknown"},
             UNCHANGED <<calls, reported, unknown, misreported>>
      PROVE Cost'
  <2> DEFINE r == [hook[h] EXCEPT !.pc = s]
  <2>1. hook[h] \in HookState /\ hook' = [hook EXCEPT ![h] = r]
    BY <1>6 DEF NativeInv, HookTypes, Goto
  <2>2. r.pc = s /\ r.outer = hook[h].outer /\ r.inner = hook[h].inner
    BY <2>1 DEF HookState
  <2> HIDE DEF r
  <2> QED
    BY <1>5, <1>6, <2>1, <2>2
<1> QED
  BY <1>4, <1>5, <1>6

\* A hook that starts a worker, or ends instead, keeps both: it had none.
LEMMA DispatchKeeps ==
    ASSUME NativeInv, NEW h \in Hook, hook[h].pc \in {"produce", "ask"},
           NEW stage \in {"research", "feedback"},
           \/ End(h) /\ UNCHANGED worker
           \/ /\ \E w \in Worker : Dispatched(h, stage, w)
              /\ UNCHANGED <<calls, reported, unknown, misreported>>
    PROVE Workers' /\ Cost'
<1>1. HookTypes /\ Workers /\ hook[h] \in HookState
  BY DEF NativeInv, HookTypes
<1>2. worker[h] = NoWorker
  BY NoneWaits
<1>3. Made(NoWorker) = 0 /\ Lost(NoWorker, hook[h]) = 0
  BY SentinelAssumption DEF Made, Lost, NoWorker
<1>4. CASE End(h) /\ UNCHANGED worker
  <2>1. worker' = [worker EXCEPT ![h] = NoWorker] /\ hook' = [hook EXCEPT ![h] = Idle]
    BY <1>1, <1>2, <1>4 DEF HookTypes, End, EndWith, Leave
  <2>2. Fits(NoWorker, Idle.pc)
    BY DEF Fits, NoWorker, Idle
  <2> QED
    BY <1>1, <1>4, <2>1, <2>2, FitsEverywhere, KeepsCounted
<1>5. ASSUME NEW w \in Worker, Dispatched(h, stage, w),
             UNCHANGED <<calls, reported, unknown, misreported>>
      PROVE Workers' /\ Cost'
  <2> DEFINE r == [hook[h] EXCEPT !.pc = stage]
  <2>1. /\ hook' = [hook EXCEPT ![h] = r] /\ worker' = [worker EXCEPT ![h] = w]
        /\ r.pc = stage /\ r.outer = hook[h].outer /\ r.inner = hook[h].inner
        /\ w.phase = "started" /\ w.count = 0
    BY <1>1, <1>5 DEF Dispatched, Goto, HookTypes, HookState
  <2> HIDE DEF r
  <2>2. Fits(w, r.pc)
    BY <1>5, <2>1 DEF Dispatched, Fits
  <2>3. Made(w) = 0 /\ Lost(w, r) = 0
    BY <2>1, SentinelAssumption DEF Made, Lost
  <2>4. Due(w, r) = Counted(h) /\ Due(worker[h], hook[h]) = Counted(h)
    BY <1>2, <1>3, <2>1, <2>3, Owed DEF Due, Counted
  <2>5. /\ Due(w, r) \in Nat /\ Lost(w, r) \in {0, 1}
        /\ Due(w, r) <= Due(worker[h], hook[h])
        /\ Due(worker[h], hook[h]) + Lost(worker[h], hook[h]) <= Due(w, r) + Lost(w, r)
    BY <1>2, <1>3, <2>3, <2>4, Owed
  <2>6. hook[h].pc # "idle" /\ r.pc # "idle"
    BY <2>1
  <2>7. Cost'
    BY <1>5, <2>1, <2>5, <2>6, GoesOn, Zenon
  <2> QED
    BY <1>1, <2>1, <2>2, <2>7, FitsEverywhere
<1> QED
  BY <1>4, <1>5

\* One invocation is live, has its options, and its counters belong to its stage.
LEMMA BasicsStep == NativeInv /\ [Next]_vars => Basics'
<1> SUFFICES ASSUME NativeInv, [Next]_vars PROVE Basics'
  OBVIOUS
<1> USE SentinelAssumption, OptionAssumption DEF NativeInv, Basics, HookTypes,
      HookState, disk, flow, history, Goto, GoWith, Leave, End, EndWith, EndUnknown, EndMisreported,
      Counted, Dispatched, Ended, Idle, Options, Counts, Single, Done, Counters
<1>1. ASSUME NEW h \in Hook, StartEffect(h) PROVE Basics'
  BY <1>1 DEF StartEffect
<1>2. ASSUME NEW h \in Hook, CheckRaises(h) PROVE Basics'
  BY <1>2 DEF CheckRaises
<1>3. ASSUME NEW h \in Hook, MarkerFound(h) PROVE Basics'
  BY <1>3 DEF MarkerFound
<1>4. ASSUME NEW h \in Hook, ResultFound(h) PROVE Basics'
  BY <1>4 DEF ResultFound
<1>5. ASSUME NEW h \in Hook, FailedReceiptFound(h) PROVE Basics'
  BY <1>5 DEF FailedReceiptFound
<1>6. ASSUME NEW h \in Hook, ResearchEffect(h) PROVE Basics'
  BY <1>6 DEF ResearchEffect
<1>7. ASSUME NEW h \in Hook, ResearchLost(h) PROVE Basics'
  BY <1>7 DEF ResearchLost
<1>8. ASSUME NEW h \in Hook, ResearchReturns(h) PROVE Basics'
  <2>1. PICK n \in {0, 1} :
          \/ EndWith(h, n)
          \/ (GoWith(h, "mark-failed", n) \/ GoWith(h, "complete", n)) /\ UNCHANGED history
    BY <1>8, ResearchReturnsDoes, Zenon
  <2>2. hook[h].pc = "research" /\ completed' = completed
    BY <1>8, ResearchReturnsDoes
  <2>3. CASE EndWith(h, n)
    BY <2>2, <2>3
  <2>4. ASSUME NEW s \in {"mark-failed", "complete"}, GoWith(h, s, n), UNCHANGED history
        PROVE Basics'
    <3>1. /\ hook'[h].pc = s /\ hook'[h].opt = hook[h].opt /\ hook'[h].inner = hook[h].inner
          /\ \A g \in Hook : g # h => hook'[g] = hook[g] /\ hook[g].pc = "idle"
      BY <2>2, <2>4
    <3>2. calls' = calls /\ reported' = reported /\ misreported' = misreported
      BY <2>4
    <3> QED
      BY <2>2, <3>1, <3>2
  <2> QED
    BY <2>1, <2>3, <2>4
<1>9. ASSUME NEW h \in Hook, MarkUnknown(h) PROVE Basics'
  BY <1>9 DEF MarkUnknown
<1>10. ASSUME NEW h \in Hook, MarkFailed(h) PROVE Basics'
  BY <1>10 DEF MarkFailed
<1>11. ASSUME NEW h \in Hook, Complete(h) PROVE Basics'
  BY <1>11 DEF Complete
<1>12. ASSUME NEW h \in Hook, SaveResult(h) PROVE Basics'
  BY <1>12 DEF SaveResult
<1>13. ASSUME NEW h \in Hook, FirstReturn(h) PROVE Basics'
  BY <1>13 DEF FirstReturn
<1>14. ASSUME NEW h \in Hook, ReturnTorn(h) PROVE Basics'
  BY <1>14 DEF ReturnTorn
<1>15. ASSUME NEW h \in Hook, ReturnFound(h) PROVE Basics'
  <2>1. hook[h].pc = "return" /\ UNCHANGED <<completed, calls, reported, misreported>>
    BY <1>15 DEF ReturnFound
  <2>2. CASE hook' = [hook EXCEPT ![h].pc = "attempt"]
    BY <2>1, <2>2
  <2>3. CASE hook' = [hook EXCEPT ![h] = [@ EXCEPT !.pc = "publish", !.feedback = Latest]]
    BY <2>1, <2>3
  <2> QED BY <1>15, <2>2, <2>3 DEF ReturnFound
<1>16. ASSUME NEW h \in Hook, CheckAttempt(h) PROVE Basics'
  BY <1>16 DEF CheckAttempt
<1>17. ASSUME NEW h \in Hook, SaveAttempt(h) PROVE Basics'
  BY <1>17 DEF SaveAttempt
<1>18. ASSUME NEW h \in Hook, AskEffect(h) PROVE Basics'
  BY <1>18 DEF AskEffect
<1>19. ASSUME NEW h \in Hook, FeedbackLost(h) PROVE Basics'
  BY <1>19 DEF FeedbackLost
<1>20. ASSUME NEW h \in Hook, FeedbackReturnsEffect(h) PROVE Basics'
  BY <1>20 DEF FeedbackReturnsEffect
<1>21. ASSUME NEW h \in Hook, Publish(h) PROVE Basics'
  BY <1>21 DEF Publish
<1>22. ASSUME NEW h \in Hook, PublishReadback(h) PROVE Basics'
  BY <1>22 DEF PublishReadback
<1>23. ASSUME NEW h \in Hook, PublishInitial(h) PROVE Basics'
  BY <1>23 DEF PublishInitial
<1>24. ASSUME NEW h \in Hook, PublishInitialReadback(h) PROVE Basics'
  BY <1>24 DEF PublishInitialReadback
<1>25. ASSUME NEW h \in Hook, WriteRaises(h) PROVE Basics'
  BY <1>25 DEF WriteRaises
<1>26. ASSUME NEW h \in Hook, MarkRaises(h) PROVE Basics'
  BY <1>26 DEF MarkRaises
<1>27. ASSUME NEW h \in Hook, ResearchWorkerCalls(h) PROVE Basics'
  BY <1>27 DEF ResearchWorkerCalls
<1>28. ASSUME NEW h \in Hook, ResearchWorkerAnswersEffect(h) PROVE Basics'
  BY <1>28 DEF ResearchWorkerAnswersEffect
<1>29. ASSUME NEW h \in Hook, ResearchWorkerPreparesEffect(h) PROVE Basics'
  BY <1>29 DEF ResearchWorkerPreparesEffect
<1>30. ASSUME NEW h \in Hook, FeedbackWorkerCalls(h) PROVE Basics'
  BY <1>30 DEF FeedbackWorkerCalls
<1>31. ASSUME NEW h \in Hook, FeedbackWorkerAnswersEffect(h) PROVE Basics'
  BY <1>31 DEF FeedbackWorkerAnswersEffect
<1>32. ASSUME NEW h \in Hook, FeedbackWorkerReceivesEffect(h) PROVE Basics'
  BY <1>32 DEF FeedbackWorkerReceivesEffect
<1>33. ASSUME NEW h \in Hook, WorkerFailsEffect(h) PROVE Basics'
  BY <1>33 DEF WorkerFailsEffect
<1>34. ASSUME NEW h \in Hook, Kill(h) PROVE Basics'
  BY <1>34 DEF Kill
<1>35. CASE UNCHANGED vars
  BY <1>35 DEF vars, disk, flow, history
<1>36. ASSUME NEW h \in Hook, ReportUndecodable(h) PROVE Basics'
  BY <1>36 DEF ReportUndecodable
<1> QED
  BY <1>1, <1>2, <1>3, <1>4, <1>5, <1>6, <1>7, <1>8, <1>9, <1>10, <1>11, <1>12, <1>13,
     <1>14, <1>15, <1>16, <1>17, <1>18, <1>19, <1>20, <1>21, <1>22, <1>23, <1>24, <1>25,
     <1>26, <1>27, <1>28, <1>29, <1>30, <1>31, <1>32, <1>33, <1>34, <1>35, <1>36, Effects DEF
     Next, HookStep, WorkerStep, Quiet

\* A worker belongs to the stage its invocation waits in.
LEMMA WorkersStep == NativeInv /\ [Next]_vars => Workers'
<1> SUFFICES ASSUME NativeInv, [Next]_vars PROVE Workers'
  OBVIOUS
<1> USE SentinelAssumption, OptionAssumption DEF NativeInv, Basics, HookTypes,
      HookState, disk, flow, history, Goto, GoWith, Leave, End, EndWith, EndUnknown, EndMisreported,
      Dispatched, Idle, NoWorker, Worker, Ended, Reported, ReportLost, WorkerEnds,
      Waiting, Workers, Fits
<1>1. ASSUME NEW h \in Hook, StartEffect(h) PROVE Workers'
  BY <1>1 DEF StartEffect
<1>2. ASSUME NEW h \in Hook, CheckRaises(h) PROVE Workers'
  BY <1>2 DEF CheckRaises
<1>3. ASSUME NEW h \in Hook, MarkerFound(h) PROVE Workers'
  BY <1>3 DEF MarkerFound
<1>4. ASSUME NEW h \in Hook, ResultFound(h) PROVE Workers'
  BY <1>4 DEF ResultFound
<1>5. ASSUME NEW h \in Hook, FailedReceiptFound(h) PROVE Workers'
  BY <1>5 DEF FailedReceiptFound
<1>6. ASSUME NEW h \in Hook, ResearchEffect(h) PROVE Workers'
  BY <1>6, DispatchKeeps, Zenon DEF ResearchEffect, history
<1>7. ASSUME NEW h \in Hook, ResearchLost(h) PROVE Workers'
  <2>1. worker' = [worker EXCEPT ![h] = NoWorker]
    BY <1>7, Zenon DEF ResearchLost, ReportLost, Reported
  <2>2. hook' = [hook EXCEPT ![h] = [hook[h] EXCEPT !.pc = "mark-unknown"]]
    BY <1>7 DEF ResearchLost
  <2>3. Fits(NoWorker, ([hook[h] EXCEPT !.pc = "mark-unknown"]).pc)
    OBVIOUS
  <2> QED
    BY <2>1, <2>2, <2>3, FitsEverywhere
<1>8. ASSUME NEW h \in Hook, ResearchReturns(h) PROVE Workers'
  BY <1>8 DEF ResearchReturns
<1>9. ASSUME NEW h \in Hook, MarkUnknown(h) PROVE Workers'
  <2>1. /\ hook[h].pc = "mark-unknown" /\ worker' = worker
        /\ hook' = [hook EXCEPT ![h] = Idle]
    BY <1>9 DEF MarkUnknown
  <2> QED
    BY <2>1, MovesWithout
<1>10. ASSUME NEW h \in Hook, MarkFailed(h) PROVE Workers'
  BY <1>10 DEF MarkFailed
<1>11. ASSUME NEW h \in Hook, Complete(h) PROVE Workers'
  <2>1. hook[h].pc = "complete" /\ worker' = worker
    BY <1>11, Zenon DEF Complete
  <2>2. CASE Goto(h, "save-result")
    BY <2>1, <2>2, MovesWithout
  <2>3. CASE End(h)
    BY <2>1, <2>3, MovesWithout
  <2> QED
    BY <1>11, <2>2, <2>3, Zenon DEF Complete
<1>12. ASSUME NEW h \in Hook, SaveResult(h) PROVE Workers'
  BY <1>12 DEF SaveResult
<1>13. ASSUME NEW h \in Hook, FirstReturn(h) PROVE Workers'
  BY <1>13 DEF FirstReturn
<1>14. ASSUME NEW h \in Hook, ReturnTorn(h) PROVE Workers'
  BY <1>14 DEF ReturnTorn
<1>15. ASSUME NEW h \in Hook, ReturnFound(h) PROVE Workers'
  <2>1. hook[h].pc = "return" /\ worker' = worker
    BY <1>15, Zenon DEF ReturnFound
  <2>2. CASE Goto(h, "attempt")
    BY <2>1, <2>2, MovesWithout
  <2>3. CASE hook' = [hook EXCEPT ![h].pc = "publish", ![h].feedback = Latest]
    BY <2>1, <2>3, MovesWithout
  <2> QED
    BY <1>15, <2>2, <2>3, Zenon DEF ReturnFound
<1>16. ASSUME NEW h \in Hook, CheckAttempt(h) PROVE Workers'
  BY <1>16 DEF CheckAttempt
<1>17. ASSUME NEW h \in Hook, SaveAttempt(h) PROVE Workers'
  BY <1>17 DEF SaveAttempt
<1>18. ASSUME NEW h \in Hook, AskEffect(h) PROVE Workers'
  BY <1>18, DispatchKeeps, Zenon DEF AskEffect, history
<1>19. ASSUME NEW h \in Hook, FeedbackLost(h) PROVE Workers'
  <2>1. worker' = [worker EXCEPT ![h] = NoWorker]
    BY <1>19, Zenon DEF FeedbackLost, ReportLost, Reported
  <2>2. hook' = [hook EXCEPT ![h] = Idle]
    BY <1>19 DEF FeedbackLost
  <2>3. Fits(NoWorker, (Idle).pc)
    OBVIOUS
  <2> QED
    BY <2>1, <2>2, <2>3, FitsEverywhere
<1>20. ASSUME NEW h \in Hook, FeedbackReturnsEffect(h) PROVE Workers'
  BY <1>20 DEF FeedbackReturnsEffect
<1>21. ASSUME NEW h \in Hook, Publish(h) PROVE Workers'
  <2>1. hook[h].pc = "publish" /\ worker' = worker
    BY <1>21, Zenon DEF Publish
  <2>2. CASE Goto(h, "publish-readback")
    BY <2>1, <2>2, MovesWithout
  <2>3. CASE End(h)
    BY <2>1, <2>3, MovesWithout
  <2> QED
    BY <1>21, <2>2, <2>3, Zenon DEF Publish
<1>22. ASSUME NEW h \in Hook, PublishReadback(h) PROVE Workers'
  BY <1>22 DEF PublishReadback
<1>23. ASSUME NEW h \in Hook, PublishInitial(h) PROVE Workers'
  BY <1>23 DEF PublishInitial
<1>24. ASSUME NEW h \in Hook, PublishInitialReadback(h) PROVE Workers'
  BY <1>24 DEF PublishInitialReadback
<1>25. ASSUME NEW h \in Hook, WriteRaises(h) PROVE Workers'
  BY <1>25 DEF WriteRaises
<1>26. ASSUME NEW h \in Hook, MarkRaises(h) PROVE Workers'
  BY <1>26 DEF MarkRaises
<1>27. ASSUME NEW h \in Hook, ResearchWorkerCalls(h) PROVE Workers'
  BY <1>27 DEF ResearchWorkerCalls
<1>28. ASSUME NEW h \in Hook, ResearchWorkerAnswersEffect(h) PROVE Workers'
  BY <1>28, EndingKeeps, Zenon DEF ResearchWorkerAnswersEffect, Made
<1>29. ASSUME NEW h \in Hook, ResearchWorkerPreparesEffect(h) PROVE Workers'
  BY <1>29, EndingKeeps, Zenon DEF ResearchWorkerPreparesEffect, Made
<1>30. ASSUME NEW h \in Hook, FeedbackWorkerCalls(h) PROVE Workers'
  BY <1>30 DEF FeedbackWorkerCalls
<1>31. ASSUME NEW h \in Hook, FeedbackWorkerAnswersEffect(h) PROVE Workers'
  BY <1>31, EndingKeeps, Zenon DEF FeedbackWorkerAnswersEffect, Made
<1>32. ASSUME NEW h \in Hook, FeedbackWorkerReceivesEffect(h) PROVE Workers'
  BY <1>32, EndingKeeps, Zenon DEF FeedbackWorkerReceivesEffect, Made
<1>33. ASSUME NEW h \in Hook, WorkerFailsEffect(h) PROVE Workers'
  BY <1>33, EndingKeeps, Zenon DEF WorkerFailsEffect, Made
<1>34. ASSUME NEW h \in Hook, Kill(h) PROVE Workers'
  BY <1>34 DEF Kill
<1>35. CASE UNCHANGED vars
  BY <1>35 DEF vars, disk, flow, history
<1>36. ASSUME NEW h \in Hook, ReportUndecodable(h) PROVE Workers'
  <2>1. worker' = [worker EXCEPT ![h] = NoWorker]
    BY <1>36, Zenon DEF ReportUndecodable, Reported
  <2>2. hook' = [hook EXCEPT ![h] = Idle]
    BY <1>36 DEF ReportUndecodable
  <2>3. Fits(NoWorker, (Idle).pc)
    OBVIOUS
  <2> QED
    BY <2>1, <2>2, <2>3, FitsEverywhere
<1> QED
  BY <1>1, <1>2, <1>3, <1>4, <1>5, <1>6, <1>7, <1>8, <1>9, <1>10, <1>11, <1>12, <1>13,
     <1>14, <1>15, <1>16, <1>17, <1>18, <1>19, <1>20, <1>21, <1>22, <1>23, <1>24, <1>25,
     <1>26, <1>27, <1>28, <1>29, <1>30, <1>31, <1>32, <1>33, <1>34, <1>35, <1>36, Effects DEF
     Next, HookStep, WorkerStep, Quiet

\* Who waits for a model call, or is about to mark it, finds no marker.
LEMMA ClosedStep == NativeInv /\ [Next]_vars => Closed'
<1> SUFFICES ASSUME NativeInv, [Next]_vars PROVE Closed'
  OBVIOUS
<1> USE SentinelAssumption, OptionAssumption DEF NativeInv, Basics, HookTypes,
      HookState, disk, flow, history, Goto, GoWith, Leave, End, EndWith, EndUnknown, EndMisreported,
      Dispatched, Idle, Marker, Marked, Written, Differs, WriteStops, Target, Disk,
      Single, Closed, Open
<1>1. ASSUME NEW h \in Hook, StartEffect(h) PROVE Closed'
  BY <1>1 DEF StartEffect
<1>2. ASSUME NEW h \in Hook, CheckRaises(h) PROVE Closed'
  BY <1>2 DEF CheckRaises
<1>3. ASSUME NEW h \in Hook, MarkerFound(h) PROVE Closed'
  BY <1>3 DEF MarkerFound
<1>4. ASSUME NEW h \in Hook, ResultFound(h) PROVE Closed'
  BY <1>4 DEF ResultFound
<1>5. ASSUME NEW h \in Hook, FailedReceiptFound(h) PROVE Closed'
  BY <1>5 DEF FailedReceiptFound
<1>6. ASSUME NEW h \in Hook, ResearchEffect(h) PROVE Closed'
  BY <1>6 DEF ResearchEffect
<1>7. ASSUME NEW h \in Hook, ResearchLost(h) PROVE Closed'
  BY <1>7 DEF ResearchLost
<1>8. ASSUME NEW h \in Hook, ResearchReturns(h) PROVE Closed'
  BY <1>8 DEF ResearchReturns
<1>9. ASSUME NEW h \in Hook, MarkUnknown(h) PROVE Closed'
  BY <1>9 DEF MarkUnknown
<1>10. ASSUME NEW h \in Hook, MarkFailed(h) PROVE Closed'
  BY <1>10 DEF MarkFailed
<1>11. ASSUME NEW h \in Hook, Complete(h) PROVE Closed'
  BY <1>11 DEF Complete
<1>12. ASSUME NEW h \in Hook, SaveResult(h) PROVE Closed'
  BY <1>12 DEF SaveResult
<1>13. ASSUME NEW h \in Hook, FirstReturn(h) PROVE Closed'
  BY <1>13 DEF FirstReturn
<1>14. ASSUME NEW h \in Hook, ReturnTorn(h) PROVE Closed'
  BY <1>14 DEF ReturnTorn
<1>15. ASSUME NEW h \in Hook, ReturnFound(h) PROVE Closed'
  BY <1>15 DEF ReturnFound
<1>16. ASSUME NEW h \in Hook, CheckAttempt(h) PROVE Closed'
  BY <1>16 DEF CheckAttempt
<1>17. ASSUME NEW h \in Hook, SaveAttempt(h) PROVE Closed'
  BY <1>17 DEF SaveAttempt
<1>18. ASSUME NEW h \in Hook, AskEffect(h) PROVE Closed'
  BY <1>18 DEF AskEffect
<1>19. ASSUME NEW h \in Hook, FeedbackLost(h) PROVE Closed'
  BY <1>19 DEF FeedbackLost
<1>20. ASSUME NEW h \in Hook, FeedbackReturnsEffect(h) PROVE Closed'
  BY <1>20 DEF FeedbackReturnsEffect
<1>21. ASSUME NEW h \in Hook, Publish(h) PROVE Closed'
  BY <1>21 DEF Publish
<1>22. ASSUME NEW h \in Hook, PublishReadback(h) PROVE Closed'
  BY <1>22 DEF PublishReadback
<1>23. ASSUME NEW h \in Hook, PublishInitial(h) PROVE Closed'
  BY <1>23 DEF PublishInitial
<1>24. ASSUME NEW h \in Hook, PublishInitialReadback(h) PROVE Closed'
  BY <1>24 DEF PublishInitialReadback
<1>25. ASSUME NEW h \in Hook, WriteRaises(h) PROVE Closed'
  BY <1>25 DEF WriteRaises
<1>26. ASSUME NEW h \in Hook, MarkRaises(h) PROVE Closed'
  BY <1>26 DEF MarkRaises
<1>27. ASSUME NEW h \in Hook, ResearchWorkerCalls(h) PROVE Closed'
  BY <1>27 DEF ResearchWorkerCalls
<1>28. ASSUME NEW h \in Hook, ResearchWorkerAnswersEffect(h) PROVE Closed'
  BY <1>28 DEF ResearchWorkerAnswersEffect
<1>29. ASSUME NEW h \in Hook, ResearchWorkerPreparesEffect(h) PROVE Closed'
  BY <1>29 DEF ResearchWorkerPreparesEffect
<1>30. ASSUME NEW h \in Hook, FeedbackWorkerCalls(h) PROVE Closed'
  BY <1>30 DEF FeedbackWorkerCalls
<1>31. ASSUME NEW h \in Hook, FeedbackWorkerAnswersEffect(h) PROVE Closed'
  BY <1>31 DEF FeedbackWorkerAnswersEffect
<1>32. ASSUME NEW h \in Hook, FeedbackWorkerReceivesEffect(h) PROVE Closed'
  BY <1>32 DEF FeedbackWorkerReceivesEffect
<1>33. ASSUME NEW h \in Hook, WorkerFailsEffect(h) PROVE Closed'
  BY <1>33 DEF WorkerFailsEffect
<1>34. ASSUME NEW h \in Hook, Kill(h) PROVE Closed'
  BY <1>34 DEF Kill
<1>35. CASE UNCHANGED vars
  BY <1>35 DEF vars, disk, flow, history
<1>36. ASSUME NEW h \in Hook, ReportUndecodable(h) PROVE Closed'
  BY <1>36 DEF ReportUndecodable
<1> QED
  BY <1>1, <1>2, <1>3, <1>4, <1>5, <1>6, <1>7, <1>8, <1>9, <1>10, <1>11, <1>12, <1>13,
     <1>14, <1>15, <1>16, <1>17, <1>18, <1>19, <1>20, <1>21, <1>22, <1>23, <1>24, <1>25,
     <1>26, <1>27, <1>28, <1>29, <1>30, <1>31, <1>32, <1>33, <1>34, <1>35, <1>36, Effects DEF
     Next, HookStep, WorkerStep, Quiet

\* Who is about to ask is the first under its approval.
LEMMA AskedAttemptsStep == NativeInv /\ [Next]_vars => AskedAttempts'
<1> SUFFICES ASSUME NativeInv, [Next]_vars PROVE AskedAttempts'
  OBVIOUS
<1> USE SentinelAssumption, OptionAssumption DEF NativeInv, Basics, HookTypes,
      HookState, disk, flow, history, Goto, GoWith, Leave, End, EndWith, EndUnknown, EndMisreported,
      Dispatched, Idle, Options, Disk, WriteStops, Single, AskedAttempts, KeyOf, Key
<1>1. ASSUME NEW h \in Hook, StartEffect(h) PROVE AskedAttempts'
  BY <1>1 DEF StartEffect
<1>2. ASSUME NEW h \in Hook, CheckRaises(h) PROVE AskedAttempts'
  BY <1>2 DEF CheckRaises
<1>3. ASSUME NEW h \in Hook, MarkerFound(h) PROVE AskedAttempts'
  BY <1>3 DEF MarkerFound
<1>4. ASSUME NEW h \in Hook, ResultFound(h) PROVE AskedAttempts'
  BY <1>4 DEF ResultFound
<1>5. ASSUME NEW h \in Hook, FailedReceiptFound(h) PROVE AskedAttempts'
  BY <1>5 DEF FailedReceiptFound
<1>6. ASSUME NEW h \in Hook, ResearchEffect(h) PROVE AskedAttempts'
  <2>1. asked' = asked /\ attempts' = attempts /\ (End(h) \/ Goto(h, "research"))
    BY <1>6, Zenon DEF ResearchEffect
  <2>2. /\ hook'[h].pc \notin {"save-attempt", "ask"}
        /\ \A g \in Hook : g # h => hook'[g] = hook[g]
    BY <2>1
  <2> HIDE DEF HookTypes, HookState, KeyOf
  <2> QED
    BY <2>1, <2>2
<1>7. ASSUME NEW h \in Hook, ResearchLost(h) PROVE AskedAttempts'
  BY <1>7 DEF ResearchLost
<1>8. ASSUME NEW h \in Hook, ResearchReturns(h) PROVE AskedAttempts'
  BY <1>8 DEF ResearchReturns
<1>9. ASSUME NEW h \in Hook, MarkUnknown(h) PROVE AskedAttempts'
  BY <1>9 DEF MarkUnknown
<1>10. ASSUME NEW h \in Hook, MarkFailed(h) PROVE AskedAttempts'
  BY <1>10 DEF MarkFailed
<1>11. ASSUME NEW h \in Hook, Complete(h) PROVE AskedAttempts'
  BY <1>11 DEF Complete
<1>12. ASSUME NEW h \in Hook, SaveResult(h) PROVE AskedAttempts'
  BY <1>12 DEF SaveResult
<1>13. ASSUME NEW h \in Hook, FirstReturn(h) PROVE AskedAttempts'
  BY <1>13 DEF FirstReturn
<1>14. ASSUME NEW h \in Hook, ReturnTorn(h) PROVE AskedAttempts'
  BY <1>14 DEF ReturnTorn
<1>15. ASSUME NEW h \in Hook, ReturnFound(h) PROVE AskedAttempts'
  <2>1. /\ asked' = asked /\ attempts' = attempts
        /\ \/ Goto(h, "attempt")
           \/ hook' = [hook EXCEPT ![h].pc = "publish", ![h].feedback = Latest]
    BY <1>15, Zenon DEF ReturnFound
  <2>2. /\ hook'[h].pc \notin {"save-attempt", "ask"}
        /\ \A g \in Hook : g # h => hook'[g] = hook[g]
    BY <2>1
  <2> HIDE DEF HookTypes, HookState, KeyOf
  <2> QED
    BY <2>1, <2>2
<1>16. ASSUME NEW h \in Hook, CheckAttempt(h) PROVE AskedAttempts'
  BY <1>16 DEF CheckAttempt
<1>17. ASSUME NEW h \in Hook, SaveAttempt(h) PROVE AskedAttempts'
  <2> DEFINE k == KeyOf(hook[h].opt)
  <2>1. k \in Key /\ k \notin attempts
    BY <1>17, KeyIsKey DEF SaveAttempt
  <2>2. asked[k] = 0
    BY <2>1
  <2>3. /\ attempts' = attempts \cup {k} /\ asked' = asked /\ hook[h].pc = "save-attempt"
        /\ hook' = [hook EXCEPT ![h] = [hook[h] EXCEPT !.pc = "ask"]]
    BY <1>17 DEF SaveAttempt
  <2>4. \A g \in Hook : g # h => hook'[g].pc = "idle"
    BY <2>3
  <2>5. hook'[h].pc = "ask" /\ hook'[h].opt = hook[h].opt
    BY <2>3
  <2> HIDE DEF KeyOf
  <2> QED
    BY <2>2, <2>3, <2>4, <2>5
<1>18. ASSUME NEW h \in Hook, AskEffect(h) PROVE AskedAttempts'
  <2> DEFINE k == KeyOf(hook[h].opt)
  <2>1. /\ attempts' = attempts /\ hook[h].pc = "ask"
        /\ \/ End(h)
           \/ Goto(h, "feedback") /\ asked' = [asked EXCEPT ![k] = @ + 1]
    BY <1>18, Zenon DEF AskEffect
  <2>2. k \in attempts /\ k \in Key /\ asked[k] = 0
    BY <2>1, KeyIsKey
  <2>3. /\ hook'[h].pc \notin {"save-attempt", "ask"}
        /\ \A g \in Hook : g # h => hook'[g] = hook[g]
    BY <2>1
  <2>4. asked' = asked \/ asked' = [asked EXCEPT ![k] = 1]
    BY <2>1, <2>2
  <2>5. \A g \in Hook : hook'[g].pc \notin {"save-attempt", "ask"}
    BY <2>1, <2>3
  <2> HIDE DEF HookTypes, HookState, KeyOf, k
  <2> QED
    BY <2>1, <2>2, <2>4, <2>5
<1>19. ASSUME NEW h \in Hook, FeedbackLost(h) PROVE AskedAttempts'
  BY <1>19 DEF FeedbackLost
<1>20. ASSUME NEW h \in Hook, FeedbackReturnsEffect(h) PROVE AskedAttempts'
  BY <1>20 DEF FeedbackReturnsEffect
<1>21. ASSUME NEW h \in Hook, Publish(h) PROVE AskedAttempts'
  BY <1>21 DEF Publish
<1>22. ASSUME NEW h \in Hook, PublishReadback(h) PROVE AskedAttempts'
  BY <1>22 DEF PublishReadback
<1>23. ASSUME NEW h \in Hook, PublishInitial(h) PROVE AskedAttempts'
  BY <1>23 DEF PublishInitial
<1>24. ASSUME NEW h \in Hook, PublishInitialReadback(h) PROVE AskedAttempts'
  BY <1>24 DEF PublishInitialReadback
<1>25. ASSUME NEW h \in Hook, WriteRaises(h) PROVE AskedAttempts'
  BY <1>25 DEF WriteRaises
<1>26. ASSUME NEW h \in Hook, MarkRaises(h) PROVE AskedAttempts'
  BY <1>26 DEF MarkRaises
<1>27. ASSUME NEW h \in Hook, ResearchWorkerCalls(h) PROVE AskedAttempts'
  BY <1>27 DEF ResearchWorkerCalls
<1>28. ASSUME NEW h \in Hook, ResearchWorkerAnswersEffect(h) PROVE AskedAttempts'
  BY <1>28 DEF ResearchWorkerAnswersEffect
<1>29. ASSUME NEW h \in Hook, ResearchWorkerPreparesEffect(h) PROVE AskedAttempts'
  BY <1>29 DEF ResearchWorkerPreparesEffect
<1>30. ASSUME NEW h \in Hook, FeedbackWorkerCalls(h) PROVE AskedAttempts'
  BY <1>30 DEF FeedbackWorkerCalls
<1>31. ASSUME NEW h \in Hook, FeedbackWorkerAnswersEffect(h) PROVE AskedAttempts'
  BY <1>31 DEF FeedbackWorkerAnswersEffect
<1>32. ASSUME NEW h \in Hook, FeedbackWorkerReceivesEffect(h) PROVE AskedAttempts'
  BY <1>32 DEF FeedbackWorkerReceivesEffect
<1>33. ASSUME NEW h \in Hook, WorkerFailsEffect(h) PROVE AskedAttempts'
  BY <1>33 DEF WorkerFailsEffect
<1>34. ASSUME NEW h \in Hook, Kill(h) PROVE AskedAttempts'
  BY <1>34 DEF Kill
<1>35. CASE UNCHANGED vars
  BY <1>35 DEF vars, disk, flow, history
<1>36. ASSUME NEW h \in Hook, ReportUndecodable(h) PROVE AskedAttempts'
  BY <1>36 DEF ReportUndecodable
<1> QED
  BY <1>1, <1>2, <1>3, <1>4, <1>5, <1>6, <1>7, <1>8, <1>9, <1>10, <1>11, <1>12, <1>13,
     <1>14, <1>15, <1>16, <1>17, <1>18, <1>19, <1>20, <1>21, <1>22, <1>23, <1>24, <1>25,
     <1>26, <1>27, <1>28, <1>29, <1>30, <1>31, <1>32, <1>33, <1>34, <1>35, <1>36, Effects DEF
     Next, HookStep, WorkerStep, Quiet

\* Nothing is reported twice, and nothing but what is lost is missed.
LEMMA CostStep == NativeInv /\ [Next]_vars => Cost'
<1> SUFFICES ASSUME NativeInv, [Next]_vars PROVE Cost'
  OBVIOUS
<1> USE DEF history
<1>1. ASSUME NEW h \in Hook, StartEffect(h) PROVE Cost'
  <2>1. PICK r \in HookState :
          hook' = [hook EXCEPT ![h] = r] /\ r.pc # "idle" /\ r.pc # "mark-unknown"
          /\ r.outer = 0 /\ r.inner = 0
    BY <1>1 DEF StartEffect
  <2>2. /\ UNCHANGED <<worker, calls, reported, unknown, misreported>> /\ worker[h] = NoWorker
        /\ \A g \in Hook : hook[g].pc = "idle"
    BY <1>1 DEF StartEffect
  <2>3. hook'[h] = r /\ \A g \in Hook : g # h => hook'[g] = hook[g]
    BY <2>1 DEF NativeInv, HookTypes
  <2>4. Due(NoWorker, r) = 0 /\ Lost(NoWorker, r) = 0
    BY <2>1, SentinelAssumption DEF Due, Made, Lost, NoWorker
  <2>5. \A g \in Hook : NotTwice(worker'[g], hook'[g], calls', reported')
    BY <2>2, <2>3, <2>4, Owed DEF NotTwice
  <2>6. ASSUME ~unknown'
        PROVE /\ \A g \in Hook : hook'[g].pc = "idle" => worker'[g] = NoWorker
              /\ \A g \in Hook : hook'[g].pc # "idle" =>
                   NotMissed(worker'[g], hook'[g], calls', reported', misreported')
    <3>1. calls <= reported + misreported /\ \A g \in Hook : worker[g] = NoWorker
      BY <2>2, <2>6 DEF NativeInv, Cost
    <3>2. NotMissed(NoWorker, r, calls', reported', misreported')
      BY <2>1, <2>2, <2>4, <3>1, Owed DEF NotMissed
    <3> QED
      BY <2>2, <2>3, <3>1, <3>2
  <2>7. reported' <= calls' /\ hook'[h].pc # "idle"
    BY <2>1, <2>2, <2>3, Owed
  <2> HIDE DEF NotTwice, NotMissed
  <2> QED
    BY <2>5, <2>6, <2>7 DEF Cost
<1>2. ASSUME NEW h \in Hook, CheckRaises(h) PROVE Cost'
  BY <1>2, KeepsCounted DEF CheckRaises
<1>3. ASSUME NEW h \in Hook, MarkerFound(h) PROVE Cost'
  BY <1>3, KeepsCounted DEF MarkerFound
<1>4. ASSUME NEW h \in Hook, ResultFound(h) PROVE Cost'
  BY <1>4, KeepsCounted DEF ResultFound
<1>5. ASSUME NEW h \in Hook, FailedReceiptFound(h) PROVE Cost'
  BY <1>5, KeepsCounted DEF FailedReceiptFound
<1>6. ASSUME NEW h \in Hook, ResearchEffect(h) PROVE Cost'
  BY <1>6, DispatchKeeps, Zenon DEF ResearchEffect
<1>7. ASSUME NEW h \in Hook, ResearchLost(h) PROVE Cost'
  <2> DEFINE r == [hook[h] EXCEPT !.pc = "mark-unknown"]
  <2>1. /\ worker' = [worker EXCEPT ![h] = NoWorker] /\ hook[h].pc = "research"
        /\ UNCHANGED <<calls, reported, unknown, misreported>> /\ Goto(h, "mark-unknown")
        /\ worker[h].phase \in {"started", "called"} \/ worker[h].count = None
    BY <1>7, Zenon DEF ResearchLost, ReportLost, Reported
  <2>2. hook[h] \in HookState /\ hook' = [hook EXCEPT ![h] = r] /\ Fits(worker[h], hook[h].pc)
    BY <2>1 DEF NativeInv, HookTypes, Workers, Goto
  <2>3. r.pc = "mark-unknown" /\ r.outer = hook[h].outer /\ r.inner = hook[h].inner
    BY <2>2 DEF HookState
  <2> HIDE DEF r
  <2>4. Made(NoWorker) = 0 /\ Lost(NoWorker, r) = 1
    BY <2>3 DEF Made, Lost, NoWorker
  <2>5. Made(worker[h]) + Lost(worker[h], hook[h]) <= 1
    BY <2>1, <2>2, SentinelAssumption DEF Made, Lost, Fits
  <2>6. Due(NoWorker, r) = Counted(h)
    BY <2>3, <2>4, Owed DEF Due, Counted
  <2>7. /\ Due(NoWorker, r) \in Nat /\ Lost(NoWorker, r) \in {0, 1}
        /\ Due(NoWorker, r) <= Due(worker[h], hook[h])
        /\ Due(worker[h], hook[h]) + Lost(worker[h], hook[h]) <= Due(NoWorker, r) + Lost(NoWorker, r)
    BY <2>4, <2>5, <2>6, Owed
  <2>8. hook[h].pc # "idle" /\ r.pc # "idle"
    BY <2>1, <2>3
  <2> QED
    BY <2>1, <2>2, <2>7, <2>8, GoesOn, Zenon
<1>8. ASSUME NEW h \in Hook, ResearchReturns(h) PROVE Cost'
  <2>1. PICK n \in {0, 1} :
          /\ Reported(h, n)
          /\ \/ EndWith(h, n)
             \/ (GoWith(h, "mark-failed", n) \/ GoWith(h, "complete", n)) /\ UNCHANGED history
    BY <1>8, ResearchReturnsDoes, Zenon
  <2>2. /\ worker' = [worker EXCEPT ![h] = NoWorker] /\ hook[h].pc = "research"
        /\ worker[h].phase = "ended" /\ worker[h].count = n
    BY <1>8, <2>1 DEF ResearchReturns, Reported
  <2>3. hook[h].inner = 0 /\ hook[h].outer = 0
    BY <2>2 DEF NativeInv, Basics, Counters
  <2>4. Due(worker[h], hook[h]) = n /\ Lost(worker[h], hook[h]) = 0
    BY <2>2, <2>3, SentinelAssumption DEF Due, Made, Lost
  <2>5. CASE EndWith(h, n)
    BY <2>2, <2>4, <2>5, EndsCounted
  <2>6. ASSUME NEW s \in {"mark-failed", "complete"}, UNCHANGED history, GoWith(h, s, n)
        PROVE Cost'
    <3> DEFINE x == [hook[h] EXCEPT !.pc = s]
               r == [x EXCEPT !.outer = n]
    <3>1. hook[h] \in HookState /\ hook' = [hook EXCEPT ![h] = r]
      BY <2>6 DEF NativeInv, HookTypes, GoWith
    <3>2. r.pc = s /\ r.outer = n /\ r.inner = 0
      BY <2>3, <3>1 DEF HookState
    <3> HIDE DEF r
    <3>3. Due(NoWorker, r) = n /\ Lost(NoWorker, r) = 0
      BY <3>2, SentinelAssumption DEF Due, Made, Lost, NoWorker
    <3>4. /\ Due(NoWorker, r) \in Nat /\ Lost(NoWorker, r) \in {0, 1}
          /\ Due(NoWorker, r) <= Due(worker[h], hook[h])
          /\ Due(worker[h], hook[h]) + Lost(worker[h], hook[h]) <= Due(NoWorker, r) + Lost(NoWorker, r)
      BY <2>4, <3>3
    <3>5. /\ hook[h].pc # "idle" /\ r.pc # "idle"
          /\ UNCHANGED <<calls, reported, unknown, misreported>>
      BY <2>2, <2>6, <3>2
    <3> QED
      BY <2>2, <3>1, <3>4, <3>5, GoesOn, Zenon
  <2> QED
    BY <2>1, <2>5, <2>6
<1>9. ASSUME NEW h \in Hook, MarkUnknown(h) PROVE Cost'
  <2>1. /\ hook[h].pc = "mark-unknown" /\ worker' = worker
        /\ EndUnknown(h) \/ EndMisreported(h)
    BY <1>9, Zenon DEF MarkUnknown
  <2>2. worker[h] = NoWorker /\ worker' = [worker EXCEPT ![h] = NoWorker]
    BY <2>1, NoneWaits
  <2>3. Made(worker[h]) + Lost(worker[h], hook[h]) <= 1
    BY <2>1, <2>2 DEF Made, Lost, NoWorker
  <2> QED
    BY <2>1, <2>2, <2>3, EndsUnknown, EndsMisreported
<1>10. ASSUME NEW h \in Hook, MarkFailed(h) PROVE Cost'
  BY <1>10, KeepsCounted DEF MarkFailed
<1>11. ASSUME NEW h \in Hook, Complete(h) PROVE Cost'
  BY <1>11, KeepsCounted DEF Complete
<1>12. ASSUME NEW h \in Hook, SaveResult(h) PROVE Cost'
  BY <1>12, KeepsCounted DEF SaveResult
<1>13. ASSUME NEW h \in Hook, FirstReturn(h) PROVE Cost'
  BY <1>13, KeepsCounted DEF FirstReturn
<1>14. ASSUME NEW h \in Hook, ReturnTorn(h) PROVE Cost'
  BY <1>14, KeepsCounted DEF ReturnTorn
<1>15. ASSUME NEW h \in Hook, ReturnFound(h) PROVE Cost'
  <2>1. /\ hook[h].pc = "return" /\ UNCHANGED <<worker, calls, reported, unknown, misreported>>
        /\ \/ Goto(h, "attempt")
           \/ hook' = [hook EXCEPT ![h].pc = "publish", ![h].feedback = Latest]
    BY <1>15, Zenon DEF ReturnFound
  <2>2. CASE Goto(h, "attempt")
    BY <2>1, <2>2, KeepsCounted
  <2>3. CASE hook' = [hook EXCEPT ![h].pc = "publish", ![h].feedback = Latest]
    <3> DEFINE x == [hook[h] EXCEPT !.pc = "publish"]
               r == [x EXCEPT !.feedback = Latest]
    <3>1. hook[h] \in HookState /\ hook' = [hook EXCEPT ![h] = r]
      BY <2>3 DEF NativeInv, HookTypes
    <3>2. r.pc = "publish" /\ r.outer = hook[h].outer /\ r.inner = hook[h].inner
      BY <3>1 DEF HookState
    <3> HIDE DEF r
    <3> QED
      BY <2>1, <3>1, <3>2, KeepsCounted
  <2> QED
    BY <2>1, <2>2, <2>3
<1>16. ASSUME NEW h \in Hook, CheckAttempt(h) PROVE Cost'
  BY <1>16, KeepsCounted DEF CheckAttempt
<1>17. ASSUME NEW h \in Hook, SaveAttempt(h) PROVE Cost'
  BY <1>17, KeepsCounted DEF SaveAttempt
<1>18. ASSUME NEW h \in Hook, AskEffect(h) PROVE Cost'
  BY <1>18, DispatchKeeps, Zenon DEF AskEffect
<1>19. ASSUME NEW h \in Hook, FeedbackLost(h) PROVE Cost'
  <2>1. worker' = [worker EXCEPT ![h] = NoWorker]
    BY <1>19, Zenon DEF FeedbackLost, ReportLost, Reported
  <2> QED
    BY <1>19, <2>1, EndsUnknown DEF FeedbackLost
<1>20. ASSUME NEW h \in Hook, FeedbackReturnsEffect(h) PROVE Cost'
  <2>1. PICK n \in {0, 1} : Reported(h, n) /\
          (\/ EndWith(h, hook[h].outer + n)
           \/ UNCHANGED history /\ \E r \in HookState :
                /\ hook' = [hook EXCEPT ![h] = r]
                /\ r.pc = "publish" /\ r.inner = n /\ r.outer = hook[h].outer)
    <3> HIDE DEF history
    <3> QED
      BY <1>20 DEF FeedbackReturnsEffect
  <2>2. /\ worker' = [worker EXCEPT ![h] = NoWorker] /\ hook[h].pc = "feedback"
        /\ worker[h].phase = "ended" /\ worker[h].count = n
    BY <1>20, <2>1 DEF FeedbackReturnsEffect, Reported
  <2>3. hook[h].inner = 0
    BY <2>2 DEF NativeInv, Basics, Counters
  <2>4. Due(worker[h], hook[h]) = hook[h].outer + n /\ Lost(worker[h], hook[h]) = 0
    BY <2>2, <2>3, Owed, SentinelAssumption DEF Due, Made, Lost
  <2>5. CASE EndWith(h, hook[h].outer + n)
    BY <2>2, <2>4, <2>5, EndsCounted
  <2>6. ASSUME NEW r \in HookState, UNCHANGED history, hook' = [hook EXCEPT ![h] = r],
               r.pc = "publish", r.inner = n, r.outer = hook[h].outer
        PROVE Cost'
    <3>1. Due(NoWorker, r) = hook[h].outer + n /\ Lost(NoWorker, r) = 0
      BY <2>6, Owed, SentinelAssumption DEF Due, Made, Lost, NoWorker
    <3>2. /\ Due(NoWorker, r) \in Nat /\ Lost(NoWorker, r) \in {0, 1}
          /\ Due(NoWorker, r) <= Due(worker[h], hook[h])
          /\ Due(worker[h], hook[h]) + Lost(worker[h], hook[h]) <= Due(NoWorker, r) + Lost(NoWorker, r)
      BY <2>4, <3>1, Owed
    <3>3. /\ hook[h].pc # "idle" /\ r.pc # "idle"
          /\ UNCHANGED <<calls, reported, unknown, misreported>>
      BY <2>2, <2>6
    <3> QED
      BY <2>2, <2>6, <3>2, <3>3, GoesOn, Zenon
  <2> QED
    BY <2>1, <2>5, <2>6
<1>21. ASSUME NEW h \in Hook, Publish(h) PROVE Cost'
  BY <1>21, KeepsCounted DEF Publish
<1>22. ASSUME NEW h \in Hook, PublishReadback(h) PROVE Cost'
  BY <1>22, KeepsCounted DEF PublishReadback
<1>23. ASSUME NEW h \in Hook, PublishInitial(h) PROVE Cost'
  BY <1>23, KeepsCounted DEF PublishInitial
<1>24. ASSUME NEW h \in Hook, PublishInitialReadback(h) PROVE Cost'
  BY <1>24, KeepsCounted DEF PublishInitialReadback
<1>25. ASSUME NEW h \in Hook, WriteRaises(h) PROVE Cost'
  BY <1>25, KeepsCounted DEF WriteRaises
<1>26. ASSUME NEW h \in Hook, MarkRaises(h) PROVE Cost'
  <2>1. hook[h].pc = "mark-unknown" /\ worker' = worker /\ EndMisreported(h)
    BY <1>26, Zenon DEF MarkRaises
  <2>2. worker[h] = NoWorker /\ worker' = [worker EXCEPT ![h] = NoWorker]
    BY <2>1, NoneWaits
  <2>3. Made(worker[h]) + Lost(worker[h], hook[h]) <= 1
    BY <2>1, <2>2 DEF Made, Lost, NoWorker
  <2> QED
    BY <2>1, <2>2, <2>3, EndsMisreported
<1>27. ASSUME NEW h \in Hook, ResearchWorkerCalls(h) PROVE Cost'
  BY <1>27, CallIsDue DEF ResearchWorkerCalls
<1>28. ASSUME NEW h \in Hook, ResearchWorkerAnswersEffect(h) PROVE Cost'
  BY <1>28, EndingKeeps, Zenon DEF ResearchWorkerAnswersEffect, Made
<1>29. ASSUME NEW h \in Hook, ResearchWorkerPreparesEffect(h) PROVE Cost'
  <2>1. Made(worker[h]) = 0 /\ Ended(h, 0) /\ hook' = hook /\ UNCHANGED history
        /\ worker[h].phase \in {"started", "called"}
    BY <1>29 DEF ResearchWorkerPreparesEffect, Made
  <2> QED
    BY <2>1, EndingKeeps
<1>30. ASSUME NEW h \in Hook, FeedbackWorkerCalls(h) PROVE Cost'
  BY <1>30, CallIsDue DEF FeedbackWorkerCalls
<1>31. ASSUME NEW h \in Hook, FeedbackWorkerAnswersEffect(h) PROVE Cost'
  BY <1>31, EndingKeeps, Zenon DEF FeedbackWorkerAnswersEffect, Made
<1>32. ASSUME NEW h \in Hook, FeedbackWorkerReceivesEffect(h) PROVE Cost'
  <2>1. Made(worker[h]) = 0 /\ Ended(h, 0) /\ hook' = hook /\ UNCHANGED history
        /\ worker[h].phase \in {"started", "called"}
    BY <1>32 DEF FeedbackWorkerReceivesEffect, Made
  <2> QED
    BY <2>1, EndingKeeps
<1>33. ASSUME NEW h \in Hook, WorkerFailsEffect(h) PROVE Cost'
  <2>1. /\ worker[h].phase \in {"started", "called"} /\ hook' = hook /\ UNCHANGED history
        /\ (Ended(h, None) \/ Ended(h, IF worker[h].phase = "called" THEN 1 ELSE 0))
    BY <1>33, Zenon DEF WorkerFailsEffect
  <2>2. CASE Ended(h, None)
    BY <2>1, <2>2, EndingKeeps, Zenon
  <2>3. CASE Ended(h, Made(worker[h]))
    <3>1. Made(worker[h]) \in {0, 1, None}
      BY <2>1 DEF Made
    <3> HIDE DEF history
    <3> QED
      BY <2>1, <2>3, <3>1, EndingKeeps, Zenon
  <2>4. Made(worker[h]) = IF worker[h].phase = "called" THEN 1 ELSE 0
    BY <2>1 DEF Made
  <2> QED
    BY <2>1, <2>2, <2>3, <2>4
<1>34. ASSUME NEW h \in Hook, Kill(h) PROVE Cost'
  <2>1. /\ hook[h].pc # "idle" /\ EndUnknown(h)
        /\ worker' = [worker EXCEPT ![h] = NoWorker] \/ worker' = worker
    BY <1>34, Zenon DEF Kill
  <2>2. worker' = [worker EXCEPT ![h] = NoWorker] \/ worker' = [worker EXCEPT ![h] = worker[h]]
    BY <2>1 DEF NativeInv, HookTypes
  <2> QED
    BY <2>1, <2>2, EndsUnknown
<1>35. CASE UNCHANGED vars
  BY <1>35 DEF vars, NativeInv, Cost
<1>36. ASSUME NEW h \in Hook, ReportUndecodable(h) PROVE Cost'
  <2>1. /\ hook[h].pc \in {"research", "feedback"} /\ EndMisreported(h)
        /\ worker' = [worker EXCEPT ![h] = NoWorker]
    BY <1>36 DEF ReportUndecodable, Waiting, Reported
  <2>2. Made(worker[h]) + Lost(worker[h], hook[h]) <= 1
    <3>1. worker[h].phase = "ended"
      BY <1>36 DEF ReportUndecodable, Reported
    <3>2. worker[h].count \in {0, 1, None}
      BY DEF NativeInv, HookTypes, Worker
    <3> QED
      BY <2>1, <3>1, <3>2, SentinelAssumption DEF Made, Lost
  <2> QED
    BY <2>1, <2>2, EndsMisreported
<1> QED
  BY <1>1, <1>2, <1>3, <1>4, <1>5, <1>6, <1>7, <1>8, <1>9, <1>10, <1>11, <1>12, <1>13,
     <1>14, <1>15, <1>16, <1>17, <1>18, <1>19, <1>20, <1>21, <1>22, <1>23, <1>24, <1>25,
     <1>26, <1>27, <1>28, <1>29, <1>30, <1>31, <1>32, <1>33, <1>34, <1>35, <1>36, Effects DEF
     Next, HookStep, WorkerStep, Quiet

\* A step takes no return whose review has been completed to a new attempt.
LEMMA FinalStep == NativeInv /\ [Next]_vars => ReviewStays
<1> SUFFICES ASSUME NativeInv, [Next]_vars PROVE ReviewStays
  OBVIOUS
<1> USE SentinelAssumption, OptionAssumption DEF NativeInv, Basics, HookTypes,
      HookState, disk, flow, history, Goto, GoWith, Leave, End, EndWith, EndUnknown, EndMisreported,
      Dispatched, Idle, Disk, Done, Single, ReviewStays
<1>1. ASSUME NEW h \in Hook, StartEffect(h) PROVE ReviewStays
  BY <1>1 DEF StartEffect
<1>2. ASSUME NEW h \in Hook, CheckRaises(h) PROVE ReviewStays
  BY <1>2 DEF CheckRaises
<1>3. ASSUME NEW h \in Hook, MarkerFound(h) PROVE ReviewStays
  BY <1>3 DEF MarkerFound
<1>4. ASSUME NEW h \in Hook, ResultFound(h) PROVE ReviewStays
  BY <1>4 DEF ResultFound
<1>5. ASSUME NEW h \in Hook, FailedReceiptFound(h) PROVE ReviewStays
  BY <1>5 DEF FailedReceiptFound
<1>6. ASSUME NEW h \in Hook, ResearchEffect(h) PROVE ReviewStays
  BY <1>6 DEF ResearchEffect
<1>7. ASSUME NEW h \in Hook, ResearchLost(h) PROVE ReviewStays
  BY <1>7 DEF ResearchLost
<1>8. ASSUME NEW h \in Hook, ResearchReturns(h) PROVE ReviewStays
  BY <1>8 DEF ResearchReturns
<1>9. ASSUME NEW h \in Hook, MarkUnknown(h) PROVE ReviewStays
  BY <1>9 DEF MarkUnknown
<1>10. ASSUME NEW h \in Hook, MarkFailed(h) PROVE ReviewStays
  BY <1>10 DEF MarkFailed
<1>11. ASSUME NEW h \in Hook, Complete(h) PROVE ReviewStays
  BY <1>11 DEF Complete
<1>12. ASSUME NEW h \in Hook, SaveResult(h) PROVE ReviewStays
  BY <1>12 DEF SaveResult
<1>13. ASSUME NEW h \in Hook, FirstReturn(h) PROVE ReviewStays
  BY <1>13 DEF FirstReturn
<1>14. ASSUME NEW h \in Hook, ReturnTorn(h) PROVE ReviewStays
  BY <1>14 DEF ReturnTorn
<1>15. ASSUME NEW h \in Hook, ReturnFound(h) PROVE ReviewStays
  <2>1. CASE completed = None
    BY <2>1 DEF ReviewStays
  <2>2. CASE completed # None
    <3>1. ~CanResume(h)
      BY <2>2 DEF CanResume, Latest
    <3> QED
      BY <1>15, <3>1 DEF ReturnFound
  <2> QED
    BY <2>1, <2>2
<1>16. ASSUME NEW h \in Hook, CheckAttempt(h) PROVE ReviewStays
  BY <1>16 DEF CheckAttempt
<1>17. ASSUME NEW h \in Hook, SaveAttempt(h) PROVE ReviewStays
  BY <1>17 DEF SaveAttempt
<1>18. ASSUME NEW h \in Hook, AskEffect(h) PROVE ReviewStays
  BY <1>18 DEF AskEffect
<1>19. ASSUME NEW h \in Hook, FeedbackLost(h) PROVE ReviewStays
  BY <1>19 DEF FeedbackLost
<1>20. ASSUME NEW h \in Hook, FeedbackReturnsEffect(h) PROVE ReviewStays
  BY <1>20 DEF FeedbackReturnsEffect
<1>21. ASSUME NEW h \in Hook, Publish(h) PROVE ReviewStays
  BY <1>21 DEF Publish
<1>22. ASSUME NEW h \in Hook, PublishReadback(h) PROVE ReviewStays
  BY <1>22 DEF PublishReadback
<1>23. ASSUME NEW h \in Hook, PublishInitial(h) PROVE ReviewStays
  BY <1>23 DEF PublishInitial
<1>24. ASSUME NEW h \in Hook, PublishInitialReadback(h) PROVE ReviewStays
  BY <1>24 DEF PublishInitialReadback
<1>25. ASSUME NEW h \in Hook, WriteRaises(h) PROVE ReviewStays
  BY <1>25 DEF WriteRaises
<1>26. ASSUME NEW h \in Hook, MarkRaises(h) PROVE ReviewStays
  BY <1>26 DEF MarkRaises
<1>27. ASSUME NEW h \in Hook, ResearchWorkerCalls(h) PROVE ReviewStays
  BY <1>27 DEF ResearchWorkerCalls
<1>28. ASSUME NEW h \in Hook, ResearchWorkerAnswersEffect(h) PROVE ReviewStays
  BY <1>28 DEF ResearchWorkerAnswersEffect
<1>29. ASSUME NEW h \in Hook, ResearchWorkerPreparesEffect(h) PROVE ReviewStays
  BY <1>29 DEF ResearchWorkerPreparesEffect
<1>30. ASSUME NEW h \in Hook, FeedbackWorkerCalls(h) PROVE ReviewStays
  BY <1>30 DEF FeedbackWorkerCalls
<1>31. ASSUME NEW h \in Hook, FeedbackWorkerAnswersEffect(h) PROVE ReviewStays
  BY <1>31 DEF FeedbackWorkerAnswersEffect
<1>32. ASSUME NEW h \in Hook, FeedbackWorkerReceivesEffect(h) PROVE ReviewStays
  BY <1>32 DEF FeedbackWorkerReceivesEffect
<1>33. ASSUME NEW h \in Hook, WorkerFailsEffect(h) PROVE ReviewStays
  BY <1>33 DEF WorkerFailsEffect
<1>34. ASSUME NEW h \in Hook, Kill(h) PROVE ReviewStays
  BY <1>34 DEF Kill
<1>35. CASE UNCHANGED vars
  BY <1>35 DEF vars, disk, flow, history
<1>36. ASSUME NEW h \in Hook, ReportUndecodable(h) PROVE ReviewStays
  BY <1>36 DEF ReportUndecodable
<1> QED
  BY <1>1, <1>2, <1>3, <1>4, <1>5, <1>6, <1>7, <1>8, <1>9, <1>10, <1>11, <1>12, <1>13,
     <1>14, <1>15, <1>16, <1>17, <1>18, <1>19, <1>20, <1>21, <1>22, <1>23, <1>24, <1>25,
     <1>26, <1>27, <1>28, <1>29, <1>30, <1>31, <1>32, <1>33, <1>34, <1>35, <1>36, Effects DEF
     Next, HookStep, WorkerStep, Quiet

LEMMA NativeInit == Alone /\ Init => NativeInv
<1> SUFFICES ASSUME Alone, Init PROVE NativeInv
  OBVIOUS
<1>1. \A h \in Hook : hook[h] = Idle /\ worker[h] = NoWorker
  BY DEF Init
<1>2. HookTypes
  <2>1. Idle \in HookState /\ NoWorker \in Worker
    BY DEF Idle, HookState, Stages, NoWorker, Worker
  <2> QED
    BY <2>1 DEF Init, HookTypes
<1>3. Disk /\ Done
  BY DEF Init, Disk, Done, Marker
<1>4. Options /\ Single /\ Closed /\ Counters
  BY <1>1 DEF Options, Single, Closed, Counters, Idle
<1>5. Workers
  <2>1. Fits(NoWorker, Idle.pc)
    BY DEF Fits, NoWorker, Idle
  <2> QED
    BY <1>1, <2>1 DEF Workers
<1>6. AskedAttempts
  BY <1>1 DEF Init, AskedAttempts, Idle
<1>7. Counts /\ Cost
  <2>1. calls = 0 /\ reported = 0 /\ misreported = 0 /\ Idle.pc = "idle"
    BY DEF Init, Idle
  <2> QED
    BY <1>1, <2>1 DEF Counts, Cost, NotTwice
<1> QED
  BY <1>2, <1>3, <1>4, <1>5, <1>6, <1>7 DEF NativeInv, Basics

\* The types that the argument uses.
LEMMA TypesOfUse == TypeOK => HookTypes /\ Disk
BY DEF TypeOK, HookTypes, HookState, Disk, File, Worker

\* The live invocation is alone with the disk, always.
THEOREM NativeAlways == Alone => (Spec => []NativeInv)
<1>1. Alone /\ Init => NativeInv
  BY NativeInit
<1>2. TypeOK' => HookTypes' /\ Disk'
  <2>1. TypeOK => HookTypes /\ Disk
    BY TypesOfUse
  <2> QED
    BY <2>1, PTL
<1>3. NativeInv /\ TypeOK' /\ [Next]_vars => NativeInv'
  BY <1>2, BasicsStep, WorkersStep, ClosedStep, AskedAttemptsStep, CostStep DEF NativeInv
<1> QED
  BY <1>1, <1>3, TypesAlways, PTL DEF Spec

\* However invocations fail or are killed, no call is reported twice; and unless a count was
\* reported as unknown or an invocation killed, at most one call is missing for each that
\* reported a number without knowing what its worker had done.
THEOREM CostAlways == Alone => (Spec => []CostIsReported)
<1>1. NativeInv => CostIsReported
  BY DEF NativeInv, Cost, CostIsReported, AtRest
<1> QED
  BY <1>1, NativeAlways, PTL

\* Wherever invocations fail or are killed, a review is asked for at most once under an
\* approval.
THEOREM AskedOnceAlways == Alone => (Spec => []AskedOncePerApproval)
<1>1. NativeInv => AskedOncePerApproval
  BY DEF NativeInv, AskedAttempts, AskedOncePerApproval
<1> QED
  BY <1>1, NativeAlways, PTL

\* After a failed or unknown outcome has been recorded, no call is made for an invocation
\* that waits for it.
THEOREM SlotStaysClosedAlways == Alone => (Spec => PaidSlotStaysClosed)
<1>1. NativeInv /\ [Next]_vars =>
        [\A h \in Hook :
           /\ Marked
           /\ worker[h].stage = "research"
           /\ worker[h].phase = "started" /\ worker'[h].phase = "called"
           => hook[h].pc = "idle"]_vars
  BY DEF NativeInv, Workers, Fits, Closed
<1> QED
  BY <1>1, NativeAlways, PTL DEF Spec, PaidSlotStaysClosed

\* A return whose review has been completed is never put up for review again.
THEOREM ReviewIsFinalAlways == Alone => (Spec => CompletedReviewIsFinal)
<1>1. NativeInv /\ [Next]_vars =>
        [\A h \in Hook :
           /\ completed # None /\ file["response"] # None
           /\ hook[h].pc = "return"
           => hook'[h].pc # "attempt"]_vars
  BY FinalStep DEF ReviewStays
<1> QED
  BY <1>1, NativeAlways, PTL DEF Spec, CompletedReviewIsFinal
=============================================================================
