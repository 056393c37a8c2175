------------------------ MODULE ProductionRunProofs ------------------------
(***************************************************************************)
(* Proofs about ProductionRun for every number of runs, directories,       *)
(* requests and plan operations.                                           *)
(***************************************************************************)
EXTENDS ProductionRun, TLAPS

TypeInv == TypeOK /\ \A r \in Run : PendingView(r) /\ OnDirectory(r)

\* Every action preserves the types of the variables, and a run that is about to
\* write a checkpoint holds the answer to the operation its plan is at.
LEMMA TypeStep == TypeInv /\ [Next]_vars => TypeInv'
<1> SUFFICES ASSUME TypeInv, [Next]_vars PROVE TypeInv'
  OBVIOUS
<1> USE NumOpsAssumption DEF TypeInv, TypeOK, PendingView, OnDirectory, Live, Goto, disk, given, opLog
<1>0. NumOps \in Nat /\ Op = 1..NumOps
  BY DEF Op
<1>1. CASE UNCHANGED vars
  BY <1>1 DEF vars, local
<1>2. ASSUME NEW r \in Run, NEW d \in Dir, NEW s \in Dir \cup {NoDir}, Start(r, d, s)
      PROVE  TypeInv'
  BY <1>2 DEF Start, Working
<1>3. ASSUME NEW r \in Run, ClaimOutput(r) PROVE TypeInv'
  BY <1>3 DEF ClaimOutput, Working, Ended
<1>4. ASSUME NEW r \in Run, LoadResumeSource(r) PROVE TypeInv'
  BY <1>4 DEF LoadResumeSource, Working
<1>5. ASSUME NEW r \in Run, BuildRuntime(r) PROVE TypeInv'
  BY <1>5 DEF BuildRuntime, Working
<1>6. ASSUME NEW r \in Run, ReplayOperation(r) PROVE TypeInv'
  <2>1. PICK c \in Found(r, next[r]) : WriteSuccess(r, c)
    BY <1>6 DEF ReplayOperation
  <2>2. c \in Receipt /\ next[r] \in Op /\ next[r] + 1 \in 1..(NumOps + 1)
    BY <1>0, <1>6, <2>1 DEF ReplayOperation, Found
  <2>3. pc[r] # "checkpoint"
    BY <1>6 DEF ReplayOperation
  <2>4. /\ UNCHANGED <<pc, dir, pending, req>>
        /\ \A q \in Run : q # r => next'[q] = next[q]
    BY <1>6, <2>1 DEF ReplayOperation, WriteSuccess
  <2>5. TypeOK'
    <3>1. files' \in [Dir -> SUBSET Receipt] /\ ids' \in [Run -> SUBSET Receipt]
      BY <2>1, <2>2 DEF WriteSuccess
    <3>2. ckdir' \in [Dir -> BOOLEAN] /\ next' \in [Run -> 1..(NumOps + 1)]
      BY <2>1, <2>2 DEF WriteSuccess
    <3>3. replayed' \in [Run -> SUBSET Op]
      BY <1>6, <2>2 DEF ReplayOperation
    <3> QED BY <1>6, <2>1, <3>1, <3>2, <3>3 DEF ReplayOperation, WriteSuccess
  <2>6. \A q \in Run : PendingView(q)' /\ OnDirectory(q)'
    BY <2>3, <2>4
  <2> QED BY <2>5, <2>6
<1>7. ASSUME NEW r \in Run, NEW o \in Op, ProviderFails(r, o) PROVE TypeInv'
  BY <1>7 DEF ProviderFails, Reaches, Working
<1>8. ASSUME NEW r \in Run, NEW o \in Op, NEW e \in Evidence, NEW b \in BOOLEAN,
             ProviderAnswers(r, o, e, b)
      PROVE  TypeInv'
  <2> DEFINE c == [op |-> o, req |-> req[r], id |-> e, complete |-> b]
  <2>1. c \in Receipt /\ c.op = next[r] /\ c.req = req[r]
    BY <1>8 DEF Receipt, ProviderAnswers, Reaches
  <2>2. pending' = [pending EXCEPT ![r] = c] /\ ledger' = ledger \cup {c}
    BY <1>8 DEF ProviderAnswers
  <2> HIDE DEF c
  <2> QED BY <1>8, <2>1, <2>2 DEF ProviderAnswers, Reaches, Working
<1>9. ASSUME NEW r \in Run, CheckpointResponse(r) PROVE TypeInv'
  <2>1. /\ pending[r] \in Receipt /\ pending[r].op \in Op
        /\ next[r] + 1 \in 1..(NumOps + 1)
    BY <1>0, <1>9 DEF CheckpointResponse
  <2> QED BY <1>9, <2>1 DEF CheckpointResponse, WriteSuccess, Working
<1>10. ASSUME NEW r \in Run, WriteSuccessRaises(r) PROVE TypeInv'
  BY <1>10 DEF WriteSuccessRaises, Working
<1>11. ASSUME NEW r \in Run, CheckCohort(r) PROVE TypeInv'
  BY <1>11 DEF CheckCohort, Working
<1>12. ASSUME NEW r \in Run, Analyse(r) \/ ValidateSchema(r) PROVE TypeInv'
  BY <1>12 DEF Analyse, ValidateSchema, Working
<1>13. ASSUME NEW r \in Run, WriteReport(r) \/ DeliverMarkdown(r) \/ DeliverXlsx(r)
       PROVE  TypeInv'
  BY <1>13 DEF WriteReport, DeliverMarkdown, DeliverXlsx, WriteArtifact, Working, Artifact
<1>14. ASSUME NEW r \in Run, WriteSuccessManifest(r) \/ WriteFailureManifest(r)
       PROVE  TypeInv'
  <2>1. \A status \in {"SUCCEEDED", "FAILED"} : ManifestContent(r, status) \in Manifest
    <3>1. artifacts[dir[r]] \in SUBSET Artifact
      BY <1>14 DEF WriteSuccessManifest, WriteFailureManifest, WriteManifest, Working
    <3> QED BY <3>1 DEF ManifestContent, Manifest
  <2> QED
    BY <1>14, <2>1
    DEF WriteSuccessManifest, WriteFailureManifest, WriteManifest, Ended, Working
<1>15. ASSUME NEW r \in Run, StageRaises(r) \/ HandlerRaises(r) \/ Crash(r)
       PROVE  TypeInv'
  BY <1>15 DEF StageRaises, HandlerRaises, Crash, Working, Ended
<1>16. CASE AllEnded
  BY <1>16 DEF AllEnded, vars, local
<1>17. ASSUME NEW r \in Run, Acquire(r) PROVE TypeInv'
  BY <1>6, <1>7, <1>8, <1>9, <1>10, <1>11, <1>17 DEF Acquire
<1>18. ASSUME NEW r \in Run, Deliver(r) PROVE TypeInv'
  BY <1>12, <1>13, <1>14, <1>18 DEF Deliver
<1>19. ASSUME NEW r \in Run, Step(r) PROVE TypeInv'
  BY <1>3, <1>4, <1>5, <1>14, <1>15, <1>17, <1>18, <1>19 DEF Step
<1> QED
  BY <1>1, <1>2, <1>15, <1>16, <1>19 DEF Next

\* Types are preserved by every run, shared directories or not.
THEOREM TypeCorrect == Spec => []TypeOK
<1>1. Init => TypeInv
  BY NumOpsAssumption DEF Init, TypeInv, TypeOK, PendingView, OnDirectory, Live, Working
<1>2. TypeInv => TypeOK
  BY DEF TypeInv
<1> QED BY <1>1, <1>2, TypeStep, PTL DEF Spec
----------------------------------------------------------------------------
(* The inductive invariant, when no two live runs share a directory.       *)

\* What IInv says of one directory.
DirView(d) ==
    /\ ~ckdir[d] => files[d] = {}
    /\ OneEach(files[d])
    /\ manifest[d] # NoManifest /\ manifest[d].status = "SUCCEEDED" =>
         /\ artifacts[d] = Artifact
         /\ {c.op : c \in files[d]} = Op
         /\ \A c \in files[d] : c.complete /\ c.req = manifest[d].req
    /\ manifest[d] # NoManifest /\ manifest[d].status = "FAILED" =>
         Acceptable(d, manifest[d].req)

\* What IInv says of one run.
RunView(r) ==
    /\ pc[r] \in {"idle", "claim", "load"} => Untouched(r)
    /\ Owns(r) => OwnerView(r) /\ OwnerProgress(r)

\* The invariant, run by run and directory by directory.
LEMMA IInvByParts ==
    IInv <=> /\ TypeInv
             /\ OneOwner
             /\ \A r \in Run : RunView(r)
             /\ \A d \in Dir : DirView(d)
BY DEF IInv, TypeInv, RunView, DirView, DeliveredFromCompleteCohort, FailureManifestIsResumable

\* A step of r leaves the other runs and the directories of the other runs alone.
Footprint(r) ==
    /\ dir' = dir /\ req' = req
    /\ \A q \in Run \ {r} :
         /\ pc'[q] = pc[q] /\ ids'[q] = ids[q] /\ resume'[q] = resume[q]
         /\ next'[q] = next[q]
    /\ \A d \in Dir \ {dir[r]} :
         /\ files'[d] = files[d] /\ ckdir'[d] = ckdir[d]
         /\ artifacts'[d] = artifacts[d] /\ manifest'[d] = manifest[d]

\* It is enough to look at the run that moves and at its directory.
LEMMA LocalStep ==
    ASSUME NEW r \in Run, IInv, TypeInv', Live(r), Footprint(r), RunView(r)', DirView(dir[r])'
    PROVE  IInv'
<1> USE DEF Footprint, TypeInv, TypeOK, OnDirectory
<1>1. OneOwner /\ (\A q \in Run : RunView(q)) /\ (\A d \in Dir : DirView(d)) /\ TypeInv
  BY IInvByParts
<1>2. \A q \in Run : Live(q)' => Live(q)
  BY DEF Live
<1>3. OneOwner'
  BY <1>1, <1>2 DEF OneOwner
<1>4. ASSUME NEW q \in Run, q # r PROVE RunView(q)'
  <2>1. pc'[q] \in {"idle", "claim", "load"} => Untouched(q)'
    BY <1>1, <1>4 DEF RunView, Untouched
  <2>2. CASE Owns(q)
    <3>1. dir[q] \in Dir \ {dir[r]}
      BY <1>1, <1>4, <2>2 DEF OneOwner, Owns, Live
    <3>2. /\ manifest'[dir[q]] = manifest[dir[q]] /\ files'[dir[q]] = files[dir[q]]
          /\ artifacts'[dir[q]] = artifacts[dir[q]]
      BY <3>1
    <3>3. OwnerView(q)' /\ OwnerProgress(q)'
      BY <1>1, <1>4, <2>2, <3>2 DEF RunView, OwnerView, OwnerProgress, OneEach
    <3> QED BY <2>1, <3>3 DEF RunView
  <2> QED BY <1>4, <2>1, <2>2 DEF RunView, Owns
<1>5. ASSUME NEW d \in Dir, d # dir[r] PROVE DirView(d)'
  BY <1>1, <1>5 DEF DirView, OneEach, Acceptable
<1>6. (\A q \in Run : RunView(q)') /\ (\A d \in Dir : DirView(d)')
  BY <1>4, <1>5
<1> QED
  BY <1>3, <1>6
  DEF IInv, RunView, DirView, DeliveredFromCompleteCohort, FailureManifestIsResumable
\* What a run may rely on between its conflict check and its end.
LEMMA OwnerFacts ==
    ASSUME NEW r \in Run, IInv, Live(r)
    PROVE  /\ dir[r] \in Dir
           /\ RunView(r)
           /\ DirView(dir[r])
           /\ PendingView(r)
           /\ resume[r] \in SUBSET Receipt /\ ids[r] \in SUBSET Receipt
           /\ next[r] \in 1..(NumOps + 1)
BY IInvByParts DEF TypeInv, TypeOK, OnDirectory

\* The plan prefix that ends at n.
LEMMA PrefixGrows ==
    ASSUME NEW n \in 1..NumOps, NEW m, m = n + 1
    PROVE  1..(m - 1) = (1..(n - 1)) \cup {n}
BY NumOpsAssumption

\* A stored checkpoint extends the plan prefix by the operation the plan is at.
LEMMA StoreStep ==
    ASSUME NEW r \in Run, NEW c \in Receipt, IInv, TypeInv', Owns(r),
           pc[r] \in {"acquire", "checkpoint"}, pc'[r] = "acquire",
           \A q \in Run \ {r} : pc'[q] = pc[q],
           next[r] \in Op, c.op = next[r], c.req = req[r],
           WriteSuccess(r, c), UNCHANGED <<given, resume>>
    PROVE  IInv'
<1> USE NumOpsAssumption DEF TypeInv, TypeOK, given
<1>1. Live(r)
  BY DEF Owns, Live
<1>2. /\ dir[r] \in Dir /\ OwnerView(r) /\ OwnerProgress(r) /\ DirView(dir[r])
      /\ ids[r] \in SUBSET Receipt /\ next[r] \in 1..(NumOps + 1) /\ TypeInv
  BY <1>1, OwnerFacts, IInvByParts DEF RunView
<1>3. /\ files'[dir[r]] = files[dir[r]] \cup {c} /\ ckdir'[dir[r]] = TRUE
      /\ ids'[r] = ids[r] \cup {c} /\ next'[r] = next[r] + 1
      /\ artifacts' = artifacts /\ manifest' = manifest
      /\ dir' = dir /\ req' = req /\ resume' = resume
  BY <1>2 DEF WriteSuccess
<1>4. Footprint(r)
  BY <1>2, <1>3 DEF Footprint, WriteSuccess
<1>5. OneEach(ids[r] \cup {c})
  <2>1. \A a \in ids[r] : a.op # c.op
    <3>1. \A a \in ids[r] : a.op \in 1..(next[r] - 1)
      BY <1>2 DEF OwnerView
    <3> QED BY <3>1, <1>2
  <2> QED BY <1>2, <2>1 DEF OwnerView, OneEach
<1>6. {a.op : a \in ids[r] \cup {c}} = 1..(next'[r] - 1)
  <2>1. {a.op : a \in ids[r] \cup {c}} = {a.op : a \in ids[r]} \cup {next[r]}
    OBVIOUS
  <2>2. 1..(next'[r] - 1) = (1..(next[r] - 1)) \cup {next[r]}
    <3>1. next[r] \in 1..NumOps /\ next'[r] = next[r] + 1
      BY <1>3 DEF Op
    <3> QED BY <3>1, PrefixGrows
  <2> QED BY <1>2, <2>1, <2>2 DEF OwnerView
<1>7. OwnerView(r)'
  BY <1>2, <1>3, <1>5, <1>6 DEF OwnerView, OneEach
<1>8. OwnerProgress(r)'
  BY <1>2, <1>3 DEF OwnerProgress, DeliveredSoFar, Delivering
<1>9. RunView(r)'
  BY <1>7, <1>8 DEF RunView
<1>10. DirView(dir[r])'
  <2>1. files'[dir[r]] = ids[r] \cup {c} /\ manifest'[dir[r]] = NoManifest
    BY <1>2, <1>3 DEF OwnerView
  <2> QED BY <1>3, <1>5, <2>1 DEF DirView, OneEach
<1> QED BY <1>1, <1>4, <1>9, <1>10, LocalStep

\* A run that only moves to another point of its program.
LEMMA MoveStep ==
    ASSUME NEW r \in Run, NEW to, IInv, TypeInv', Live(r), Goto(r, to),
           UNCHANGED <<disk, given, resume, ids, next>>,
           to \in {"idle", "claim", "load"} => Untouched(r),
           to \in Working \ {"claim"} =>
             /\ OwnerView(r)
             /\ to # "failing" => artifacts[dir[r]] = DeliveredSoFar(to)
             /\ to \in Delivering => next[r] = NumOps + 1 /\ \A c \in ids[r] : c.complete
    PROVE  IInv'
<1> USE DEF TypeInv, TypeOK, disk, given
<1>1. DirView(dir[r]) /\ dir[r] \in Dir /\ TypeInv
  BY OwnerFacts, IInvByParts
<1>2. pc'[r] = to /\ Footprint(r)
  BY <1>1 DEF Goto, Footprint
<1>3. DirView(dir[r])'
  BY <1>1 DEF DirView, OneEach, Acceptable
<1>4. RunView(r)'
  BY <1>2 DEF RunView, Owns, OwnerView, OwnerProgress, OneEach, Untouched
<1> QED BY <1>2, <1>3, <1>4, LocalStep

\* Every step preserves the invariant.
LEMMA InvStep == Exclusive /\ IInv /\ [Next]_vars => IInv'
<1> SUFFICES ASSUME Exclusive, IInv, [Next]_vars PROVE IInv'
  OBVIOUS
<1> USE NumOpsAssumption DEF disk, given, opLog
<1>0. /\ TypeInv /\ TypeInv' /\ OneOwner /\ NumOps \in Nat /\ Op = 1..NumOps
      /\ (\A q \in Run : RunView(q)) /\ (\A d \in Dir : DirView(d))
  BY IInvByParts, TypeStep DEF Op
<1>1. CASE UNCHANGED vars
  BY <1>1 DEF vars, local, IInv, TypeOK, PendingView, OnDirectory, OneOwner, Owns, OwnerView,
              OwnerProgress, Untouched, Live, OneEach, DeliveredFromCompleteCohort,
              FailureManifestIsResumable, Acceptable
<1>2. ASSUME NEW r \in Run, NEW d \in Dir, NEW s \in Dir \cup {NoDir}, Start(r, d, s)
      PROVE  IInv'
  <2>1. /\ pc[r] = "idle" /\ pc' = [pc EXCEPT ![r] = "claim"] /\ dir' = [dir EXCEPT ![r] = d]
        /\ \A q \in Run : Live(q) => dir[q] # d
        /\ UNCHANGED <<disk, req, resume, ids, next>>
    BY <1>2 DEF Start
  <2>2. \A q \in Run \ {r} : pc'[q] = pc[q] /\ dir'[q] = dir[q]
    BY <1>0, <2>1 DEF TypeInv, TypeOK
  <2>3. dir'[r] = d /\ pc'[r] = "claim"
    BY <1>0, <2>1 DEF TypeInv, TypeOK
  <2>4. OneOwner'
    BY <1>0, <2>1, <2>2, <2>3 DEF OneOwner, Live
  <2>5. ASSUME NEW q \in Run PROVE RunView(q)'
    BY <1>0, <2>1, <2>2, <2>3
    DEF RunView, Owns, OwnerView, OwnerProgress, OneEach, Untouched
  <2>6. ASSUME NEW e \in Dir PROVE DirView(e)'
    BY <1>0, <2>1 DEF DirView, OneEach, Acceptable
  <2> QED
    BY <1>0, <2>4, <2>5, <2>6
    DEF IInv, TypeInv, RunView, DirView, DeliveredFromCompleteCohort, FailureManifestIsResumable
<1>3. ASSUME NEW r \in Run, ClaimOutput(r) PROVE IInv'
  <2>1. Live(r) /\ Untouched(r) /\ DirView(dir[r]) /\ dir[r] \in Dir
    BY <1>0, <1>3, OwnerFacts DEF ClaimOutput, Live, Working, RunView
  <2>2. CASE Conflicts(dir[r])
    BY <1>0, <1>3, <2>1, <2>2, MoveStep DEF ClaimOutput, Working, disk
  <2>3. CASE ~Conflicts(dir[r])
    <3>1. OwnerView(r) /\ artifacts[dir[r]] = {}
      BY <1>0, <2>1, <2>3 DEF Conflicts, DirView, OwnerView, Untouched, OneEach
    <3> QED
      BY <1>0, <1>3, <2>1, <2>3, <3>1, MoveStep DEF ClaimOutput, DeliveredSoFar, Delivering
  <2> QED BY <2>2, <2>3
<1>4. ASSUME NEW r \in Run, LoadResumeSource(r) PROVE IInv'
  <2>1. /\ Live(r) /\ Untouched(r) /\ OwnerView(r) /\ OwnerProgress(r)
        /\ DirView(dir[r]) /\ dir[r] \in Dir
    BY <1>0, <1>4, OwnerFacts DEF LoadResumeSource, Live, Working, RunView, Owns
  <2>2. artifacts[dir[r]] = {}
    BY <1>4, <2>1 DEF LoadResumeSource, OwnerProgress, DeliveredSoFar
  <2>3. CASE UNCHANGED resume
    <3>1. PICK to \in {"runtime", "failing"} : Goto(r, to)
      BY <1>4 DEF LoadResumeSource
    <3> QED
      BY <1>0, <1>4, <2>1, <2>2, <2>3, <3>1, MoveStep
      DEF LoadResumeSource, DeliveredSoFar, Delivering
  <2>4. CASE /\ src[r] # NoDir /\ Acceptable(src[r], req[r]) /\ Goto(r, "runtime")
             /\ resume' = [resume EXCEPT ![r] = files[src[r]]]
    <3>1. pc'[r] = "runtime" /\ \A c \in resume'[r] : c.req = req[r]
      BY <1>0, <2>4 DEF TypeInv, TypeOK, Acceptable, Goto
    <3>2. Footprint(r)
      BY <1>0, <1>4, <2>4 DEF LoadResumeSource, Footprint, Goto, TypeInv, TypeOK
    <3>3. RunView(r)'
      BY <1>4, <2>1, <2>2, <3>1
      DEF LoadResumeSource, RunView, Owns, OwnerView, OwnerProgress, OneEach, DeliveredSoFar,
          Delivering
    <3>4. DirView(dir[r])'
      BY <1>4, <2>1 DEF LoadResumeSource, DirView, OneEach, Acceptable
    <3> QED BY <1>0, <2>1, <3>2, <3>3, <3>4, LocalStep
  <2> QED BY <1>4, <2>3, <2>4 DEF LoadResumeSource
<1>5. ASSUME NEW r \in Run, BuildRuntime(r) \/ Analyse(r) \/ ValidateSchema(r) PROVE IInv'
  <2>1. Live(r) /\ OwnerView(r) /\ OwnerProgress(r)
    BY <1>0, <1>5 DEF BuildRuntime, Analyse, ValidateSchema, Live, Working, Owns, RunView
  <2>2. CASE BuildRuntime(r)
    BY <1>0, <2>1, <2>2, MoveStep DEF BuildRuntime, OwnerProgress, DeliveredSoFar, Delivering
  <2>3. CASE Analyse(r)
    BY <1>0, <2>1, <2>3, MoveStep DEF Analyse, OwnerProgress, DeliveredSoFar, Delivering
  <2>4. CASE ValidateSchema(r)
    BY <1>0, <2>1, <2>4, MoveStep DEF ValidateSchema, OwnerProgress, DeliveredSoFar, Delivering
  <2> QED BY <1>5, <2>2, <2>3, <2>4
<1>6. ASSUME NEW r \in Run, ReplayOperation(r) PROVE IInv'
  <2>1. PICK c \in Found(r, next[r]) : WriteSuccess(r, c)
    BY <1>6 DEF ReplayOperation
  <2>2. /\ Owns(r) /\ OwnerView(r) /\ next[r] \in Op /\ resume[r] \in SUBSET Receipt
    BY <1>0, <1>6 DEF ReplayOperation, Owns, Working, RunView, TypeInv, TypeOK
  <2>3. c \in Receipt /\ c.op = next[r] /\ c.req = req[r]
    BY <2>2 DEF Found, OwnerView
  <2> QED BY <1>0, <1>6, <2>1, <2>2, <2>3, StoreStep DEF ReplayOperation
<1>7. ASSUME NEW r \in Run, NEW o \in Op,
             \/ ProviderFails(r, o)
             \/ \E e \in Evidence, b \in BOOLEAN : ProviderAnswers(r, o, e, b)
      PROVE  IInv'
  <2>1. Live(r) /\ OwnerView(r) /\ OwnerProgress(r) /\ pc[r] = "acquire"
    BY <1>0, <1>7 DEF ProviderFails, ProviderAnswers, Reaches, Live, Working, Owns, RunView
  <2>2. PICK to \in {"checkpoint", "failing"} : Goto(r, to)
    BY <1>7 DEF ProviderFails, ProviderAnswers
  <2>3. UNCHANGED <<disk, given, resume, ids, next>>
    BY <1>7 DEF ProviderFails, ProviderAnswers
  <2> QED
    BY <1>0, <2>1, <2>2, <2>3, MoveStep DEF OwnerProgress, DeliveredSoFar, Delivering
<1>8. ASSUME NEW r \in Run, CheckpointResponse(r) PROVE IInv'
  <2>1. /\ Owns(r) /\ next[r] \in Op /\ pending[r] \in Receipt
        /\ pending[r].op = next[r] /\ pending[r].req = req[r]
    BY <1>0, <1>8 DEF CheckpointResponse, Owns, Working, TypeInv, PendingView
  <2>2. pc'[r] = "acquire" /\ \A q \in Run \ {r} : pc'[q] = pc[q]
    BY <1>0, <1>8 DEF CheckpointResponse, Goto, TypeInv, TypeOK
  <2> QED BY <1>0, <1>8, <2>1, <2>2, StoreStep DEF CheckpointResponse
<1>9. ASSUME NEW r \in Run, WriteSuccessRaises(r) PROVE IInv'
  <2>1. /\ Live(r) /\ OwnerView(r) /\ DirView(dir[r]) /\ dir[r] \in Dir
    BY <1>0, <1>9, OwnerFacts DEF WriteSuccessRaises, Live, Working, Owns, RunView
  <2>2. PICK made \in BOOLEAN : ckdir' = [ckdir EXCEPT ![dir[r]] = @ \/ made]
    BY <1>9 DEF WriteSuccessRaises
  <2>3. Footprint(r) /\ pc'[r] = "failing"
    BY <1>0, <1>9, <2>2 DEF WriteSuccessRaises, Footprint, Goto, TypeInv, TypeOK
  <2>4. RunView(r)'
    BY <1>9, <2>1, <2>3
    DEF WriteSuccessRaises, RunView, OwnerView, OwnerProgress, OneEach, Delivering
  <2>5. ckdir[dir[r]] => ckdir'[dir[r]]
    <3>1. ckdir'[dir[r]] = (ckdir[dir[r]] \/ made)
      BY <1>0, <2>1, <2>2 DEF TypeInv, TypeOK
    <3> QED BY <3>1
  <2>6. DirView(dir[r])'
    BY <1>9, <2>1, <2>5 DEF WriteSuccessRaises, DirView, OneEach, Acceptable
  <2> QED BY <1>0, <2>1, <2>3, <2>4, <2>6, LocalStep
<1>10. ASSUME NEW r \in Run, CheckCohort(r) PROVE IInv'
  <2>1. /\ Live(r) /\ OwnerView(r) /\ OwnerProgress(r) /\ pc[r] = "acquire"
        /\ next[r] = NumOps + 1
    BY <1>0, <1>10 DEF CheckCohort, Live, Working, Owns, RunView, TypeInv, TypeOK
  <2>2. CASE (\A c \in ids[r] : c.complete) /\ Goto(r, "analyse")
    BY <1>0, <1>10, <2>1, <2>2, MoveStep DEF CheckCohort, OwnerProgress, DeliveredSoFar
  <2>3. CASE Goto(r, "failing")
    BY <1>0, <1>10, <2>1, <2>3, MoveStep DEF CheckCohort, Delivering
  <2> QED BY <1>10, <2>2, <2>3 DEF CheckCohort
<1>11. ASSUME NEW r \in Run, WriteReport(r) \/ DeliverMarkdown(r) \/ DeliverXlsx(r)
       PROVE  IInv'
  <2>1. PICK at, a, to : /\ WriteArtifact(r, at, a, to)
                         /\ <<at, a, to>> \in {<<"report", "report", "schema">>,
                                               <<"markdown", "markdown", "xlsx">>,
                                               <<"xlsx", "xlsx", "manifest">>}
    BY <1>11 DEF WriteReport, DeliverMarkdown, DeliverXlsx
  <2>2. pc[r] = at /\ at \in {"report", "markdown", "xlsx"} /\ to \in Delivering
    BY <2>1 DEF WriteArtifact, Delivering
  <2>3. /\ Live(r) /\ OwnerView(r) /\ OwnerProgress(r) /\ DirView(dir[r]) /\ dir[r] \in Dir
    BY <1>0, <2>2, OwnerFacts DEF Live, Working, Owns, RunView
  <2>4. /\ artifacts'[dir[r]] = artifacts[dir[r]] \cup {a}
        /\ pc'[r] = to /\ Footprint(r) /\ UNCHANGED <<files, ckdir, manifest, given, resume, ids, next>>
    BY <1>0, <2>1, <2>3 DEF WriteArtifact, Footprint, Goto, TypeInv, TypeOK
  <2>5. artifacts'[dir[r]] = DeliveredSoFar(to)
    BY <2>1, <2>2, <2>3, <2>4 DEF OwnerProgress, DeliveredSoFar, Artifact
  <2>6. RunView(r)'
    BY <2>2, <2>3, <2>4, <2>5
    DEF RunView, Owns, OwnerView, OwnerProgress, OneEach, Delivering
  <2>7. DirView(dir[r])'
    BY <2>3, <2>4 DEF DirView, OwnerView, OneEach
  <2> QED BY <1>0, <2>3, <2>4, <2>6, <2>7, LocalStep
<1>12. ASSUME NEW r \in Run, WriteSuccessManifest(r) \/ WriteFailureManifest(r)
       PROVE  IInv'
  <2>1. PICK status \in {"SUCCEEDED", "FAILED"} :
          /\ manifest' = [manifest EXCEPT ![dir[r]] = ManifestContent(r, status)]
          /\ status = "SUCCEEDED" => pc[r] = "manifest" /\ Goto(r, "succeeded")
          /\ status = "FAILED" => pc[r] = "failing" /\ Goto(r, "failed")
          /\ UNCHANGED <<files, ckdir, artifacts, given, resume, ids, next>>
    BY <1>12 DEF WriteSuccessManifest, WriteFailureManifest, WriteManifest
  <2>2. /\ Live(r) /\ OwnerView(r) /\ OwnerProgress(r) /\ DirView(dir[r]) /\ dir[r] \in Dir
    BY <1>0, <2>1, OwnerFacts DEF Live, Working, Owns, RunView
  <2>3. Footprint(r) /\ pc'[r] \in {"succeeded", "failed"}
    BY <1>0, <2>1, <2>2 DEF Footprint, Goto, TypeInv, TypeOK
  <2>4. RunView(r)'
    BY <2>3 DEF RunView, Owns, Working
  <2>5. /\ manifest'[dir[r]].status = status /\ manifest'[dir[r]].req = req[r]
        /\ manifest'[dir[r]].ids = ids[r]
    BY <1>0, <2>1, <2>2 DEF TypeInv, TypeOK, ManifestContent
  <2>6. CASE status = "SUCCEEDED"
    <3>1. artifacts'[dir[r]] = Artifact
      BY <2>1, <2>2, <2>6 DEF OwnerProgress, DeliveredSoFar
    <3>2. {c.op : c \in files[dir[r]]} = Op
      BY <1>0, <2>1, <2>2, <2>6 DEF OwnerProgress, OwnerView, Delivering
    <3>3. \A c \in files[dir[r]] : c.complete /\ c.req = req[r]
      BY <2>1, <2>2, <2>6 DEF OwnerProgress, OwnerView, Delivering
    <3>4. DirView(dir[r])'
      BY <2>1, <2>2, <2>5, <2>6, <3>1, <3>2, <3>3 DEF DirView, OneEach
    <3> QED BY <1>0, <2>2, <2>3, <2>4, <3>4, LocalStep
  <2>7. CASE status = "FAILED"
    <3>1. manifest'[dir[r]] # NoManifest
      BY <1>0, <2>1, <2>2, <2>5, SentinelAssumption DEF TypeInv, TypeOK, ManifestContent, Manifest
    <3>2. DirView(dir[r])'
      BY <2>1, <2>2, <2>5, <2>7, <3>1 DEF DirView, OneEach, Acceptable, OwnerView
    <3> QED BY <1>0, <2>2, <2>3, <2>4, <3>2, LocalStep
  <2> QED BY <2>6, <2>7
<1>13. ASSUME NEW r \in Run, StageRaises(r) PROVE IInv'
  <2>1. Live(r) /\ OwnerView(r)
    BY <1>0, <1>13 DEF StageRaises, Live, Working, Owns, RunView
  <2> QED BY <1>0, <1>13, <2>1, MoveStep DEF StageRaises, Delivering
<1>14. ASSUME NEW r \in Run, HandlerRaises(r) \/ Crash(r) PROVE IInv'
  <2>1. Live(r)
    BY <1>14 DEF HandlerRaises, Crash, Live, Working
  <2>2. PICK to \in {"raised", "crashed"} : Goto(r, to)
    BY <1>14 DEF HandlerRaises, Crash
  <2> QED BY <1>0, <1>14, <2>1, <2>2, MoveStep DEF HandlerRaises, Crash, Working
<1>15. CASE AllEnded
  BY <1>1, <1>15 DEF AllEnded
<1> QED
  BY <1>1, <1>2, <1>3, <1>4, <1>5, <1>6, <1>7, <1>8, <1>9, <1>10, <1>11, <1>12,
     <1>13, <1>14, <1>15 DEF Next, Step, Acquire, Deliver
\* The initial state satisfies the inductive invariant.
LEMMA InvInit == Init => IInv
<1> SUFFICES ASSUME Init PROVE IInv
  OBVIOUS
<1> USE NumOpsAssumption DEF Init
<1>1. TypeOK
  BY DEF TypeOK
<1>2. \A r \in Run : pc[r] = "idle" /\ ~Live(r) /\ ~Owns(r)
  BY DEF Live, Owns, Working
<1>3. \A d \in Dir : manifest[d] = NoManifest /\ files[d] = {}
  OBVIOUS
<1> QED
  BY <1>1, <1>2, <1>3
  DEF IInv, PendingView, OnDirectory, OneOwner, Untouched, OneEach,
      DeliveredFromCompleteCohort, FailureManifestIsResumable

\* As long as the operator gives no directory to two live runs, the inductive
\* invariant holds: a run's memory and its directory agree at every step.
THEOREM Inductive == Exclusive => (Spec => []IInv)
<1> SUFFICES ASSUME Exclusive PROVE Spec => []IInv
  OBVIOUS
<1>1. IInv /\ [Next]_vars => IInv'
  BY InvStep
<1> QED BY <1>1, InvInit, PTL DEF Spec

\* A successful manifest stands only in a directory with all the delivered files
\* and one complete checkpoint of the right request for every operation.
THEOREM DeliveryIsComplete == Exclusive => (Spec => []DeliveredFromCompleteCohort)
<1> SUFFICES ASSUME Exclusive PROVE Spec => []DeliveredFromCompleteCohort
  OBVIOUS
<1>1. Spec => []IInv
  BY Inductive
<1>2. IInv => DeliveredFromCompleteCohort
  BY DEF IInv
<1> QED BY <1>1, <1>2, PTL

\* Whatever fails, and wherever, the failure manifest that is left behind is one
\* that load_resume_source accepts.
THEOREM FailuresCanBeResumed == Exclusive => (Spec => []FailureManifestIsResumable)
<1> SUFFICES ASSUME Exclusive PROVE Spec => []FailureManifestIsResumable
  OBVIOUS
<1>1. Spec => []IInv
  BY Inductive
<1>2. IInv => FailureManifestIsResumable
  BY DEF IInv
<1> QED BY <1>1, <1>2, PTL
----------------------------------------------------------------------------
(* What a step may do to a directory.                                      *)

Sealed(d) == manifest[d] # NoManifest

Same(d) ==
    /\ manifest'[d] = manifest[d] /\ files'[d] = files[d]
    /\ ckdir'[d] = ckdir[d] /\ artifacts'[d] = artifacts[d]

\* A step changes at most the directory of one run, which is not sealed: it stores
\* a checkpoint for an operation the directory lacks, or it changes neither the
\* checkpoints nor the manifest, or it seals the directory as it stands.
LEMMA DirectoryStep ==
    ASSUME IInv, [Next]_vars
    PROVE  \/ \A d \in Dir : Same(d)
           \/ \E d \in Dir :
                /\ ~Sealed(d)
                /\ \A e \in Dir \ {d} : Same(e)
                /\ \/ /\ manifest'[d] = manifest[d]
                      /\ \/ files'[d] = files[d]
                         \/ \E c \in Receipt : /\ files'[d] = files[d] \cup {c}
                                              /\ \A a \in files[d] : a.op # c.op
                   \/ /\ manifest'[d].status \in {"SUCCEEDED", "FAILED"}
                      /\ manifest'[d] # NoManifest
                      /\ files'[d] = files[d]
                      /\ manifest'[d].status = "SUCCEEDED" =>
                           {c.op : c \in files[d]} = Op
<1> DEFINE Quiet == \A d \in Dir : Same(d)
<1> DEFINE Stores(d) == \E c \in Receipt : /\ files'[d] = files[d] \cup {c}
                                           /\ \A a \in files[d] : a.op # c.op
<1> DEFINE Touches(d) == /\ ~Sealed(d)
                         /\ \A e \in Dir \ {d} : Same(e)
                         /\ manifest'[d] = manifest[d]
                         /\ files'[d] = files[d] \/ Stores(d)
<1> DEFINE Seals(d) == /\ ~Sealed(d)
                       /\ \A e \in Dir \ {d} : Same(e)
                       /\ manifest'[d].status \in {"SUCCEEDED", "FAILED"}
                       /\ manifest'[d] # NoManifest
                       /\ files'[d] = files[d]
                       /\ manifest'[d].status = "SUCCEEDED" => {c.op : c \in files[d]} = Op
<1> SUFFICES Quiet \/ \E d \in Dir : Touches(d) \/ Seals(d)
  BY Zenon
<1> USE NumOpsAssumption DEF TypeInv, TypeOK
<1>0. /\ TypeInv /\ Op = 1..NumOps /\ NumOps \in Nat
  BY IInvByParts DEF Op
<1>1. ASSUME NEW r \in Run, Owns(r)
      PROVE  /\ dir[r] \in Dir /\ ~Sealed(dir[r]) /\ OwnerView(r) /\ OwnerProgress(r)
  BY <1>0, <1>1, OwnerFacts DEF Owns, Live, RunView, OwnerView, Sealed
<1>2. ASSUME UNCHANGED disk PROVE Quiet
  BY <1>2 DEF disk, Same
<1>3. ASSUME NEW r \in Run, NEW c \in Receipt, Owns(r), WriteSuccess(r, c), next[r] \in Op,
             c.op = next[r]
      PROVE  Touches(dir[r])
  <2>1. /\ dir[r] \in Dir /\ ~Sealed(dir[r]) /\ files[dir[r]] = ids[r]
        /\ {a.op : a \in ids[r]} = 1..(next[r] - 1)
    BY <1>1, <1>3 DEF OwnerView
  <2>2. \A a \in files[dir[r]] : a.op # c.op
    <3>1. \A a \in files[dir[r]] : a.op \in 1..(next[r] - 1)
      BY <2>1
    <3> QED BY <1>0, <1>3, <3>1
  <2>3. /\ files'[dir[r]] = files[dir[r]] \cup {c} /\ manifest' = manifest
        /\ \A e \in Dir \ {dir[r]} : Same(e)
    BY <1>0, <1>3, <2>1 DEF WriteSuccess, Same
  <2> QED BY <2>1, <2>2, <2>3
<1>4. ASSUME NEW r \in Run, ReplayOperation(r) PROVE \E d \in Dir : Touches(d)
  <2>1. PICK c \in Found(r, next[r]) : WriteSuccess(r, c)
    BY <1>4 DEF ReplayOperation
  <2>2. Owns(r) /\ c \in Receipt /\ c.op = next[r] /\ next[r] \in Op
    BY <1>0, <1>4 DEF ReplayOperation, Owns, Working, Found
  <2> QED BY <1>1, <1>3, <2>1, <2>2
<1>5. ASSUME NEW r \in Run, CheckpointResponse(r) PROVE \E d \in Dir : Touches(d)
  <2>1. Owns(r) /\ next[r] \in Op /\ pending[r] \in Receipt /\ pending[r].op = next[r]
    BY <1>0, <1>5 DEF CheckpointResponse, Owns, Working, PendingView
  <2> QED BY <1>1, <1>3, <1>5, <2>1 DEF CheckpointResponse
<1>6. ASSUME NEW r \in Run, WriteSuccessRaises(r) PROVE \E d \in Dir : Touches(d)
  <2>1. Owns(r)
    BY <1>6 DEF WriteSuccessRaises, Owns, Working
  <2>2. \A e \in Dir \ {dir[r]} : Same(e)
    BY <1>0, <1>6 DEF WriteSuccessRaises, Same
  <2> QED BY <1>1, <1>6, <2>1, <2>2 DEF WriteSuccessRaises
<1>7. ASSUME NEW r \in Run, WriteReport(r) \/ DeliverMarkdown(r) \/ DeliverXlsx(r)
      PROVE  \E d \in Dir : Touches(d)
  <2>1. Owns(r) /\ files' = files /\ manifest' = manifest
    BY <1>7 DEF WriteReport, DeliverMarkdown, DeliverXlsx, WriteArtifact, Owns, Working
  <2>2. \A e \in Dir \ {dir[r]} : Same(e)
    BY <1>0, <1>7 DEF WriteReport, DeliverMarkdown, DeliverXlsx, WriteArtifact, Same
  <2> QED BY <1>1, <2>1, <2>2
<1>8. ASSUME NEW r \in Run, WriteSuccessManifest(r) \/ WriteFailureManifest(r)
      PROVE  \E d \in Dir : Seals(d)
  <2>1. PICK status \in {"SUCCEEDED", "FAILED"} :
          /\ manifest' = [manifest EXCEPT ![dir[r]] = ManifestContent(r, status)]
          /\ status = "SUCCEEDED" => pc[r] = "manifest"
          /\ status = "FAILED" => pc[r] = "failing"
          /\ UNCHANGED <<files, ckdir, artifacts>>
    BY <1>8 DEF WriteSuccessManifest, WriteFailureManifest, WriteManifest
  <2>2. /\ dir[r] \in Dir /\ ~Sealed(dir[r]) /\ OwnerView(r) /\ OwnerProgress(r)
    BY <1>1, <2>1 DEF Owns, Working
  <2>3. manifest'[dir[r]] = ManifestContent(r, status) /\ \A e \in Dir \ {dir[r]} : Same(e)
    BY <1>0, <2>1, <2>2 DEF Same
  <2>4. ManifestContent(r, status).status = status /\ ManifestContent(r, status) # NoManifest
    BY <1>0, <2>1, <2>2, SentinelAssumption DEF ManifestContent, Manifest
  <2>5. status = "SUCCEEDED" => {c.op : c \in files[dir[r]]} = Op
    BY <1>0, <2>1, <2>2 DEF OwnerView, OwnerProgress, Delivering
  <2> QED BY <2>1, <2>2, <2>3, <2>4, <2>5
<1>9. CASE UNCHANGED vars
  BY <1>2, <1>9 DEF vars
<1>10. CASE AllEnded
  BY <1>2, <1>10 DEF AllEnded, vars
<1>11. ASSUME NEW r \in Run,
              \/ \E d \in Dir, s \in Dir \cup {NoDir} : Start(r, d, s)
              \/ ClaimOutput(r) \/ LoadResumeSource(r) \/ BuildRuntime(r)
              \/ \E o \in Op : \/ ProviderFails(r, o)
                               \/ \E e \in Evidence, b \in BOOLEAN : ProviderAnswers(r, o, e, b)
              \/ CheckCohort(r) \/ Analyse(r) \/ ValidateSchema(r)
              \/ StageRaises(r) \/ HandlerRaises(r) \/ Crash(r)
       PROVE  Quiet
  BY <1>2, <1>11
  DEF Start, ClaimOutput, LoadResumeSource, BuildRuntime, ProviderFails, ProviderAnswers,
      CheckCohort, Analyse, ValidateSchema, StageRaises, HandlerRaises, Crash
<1> QED
  BY <1>4, <1>5, <1>6, <1>7, <1>8, <1>9, <1>10, <1>11 DEF Next, Step, Acquire, Deliver

\* From the moment a directory has a manifest no run changes anything in it.
THEOREM SealedForGood == Exclusive => (Spec => ManifestSealsDirectory)
<1> SUFFICES ASSUME Exclusive PROVE Spec => ManifestSealsDirectory
  OBVIOUS
<1>1. Spec => []IInv
  BY Inductive
<1>2. IInv /\ [Next]_vars =>
        [\A d \in Dir : manifest[d] # NoManifest =>
           /\ manifest'[d] = manifest[d]
           /\ files'[d] = files[d]
           /\ ckdir'[d] = ckdir[d]
           /\ artifacts'[d] = artifacts[d]]_vars
  BY DirectoryStep DEF Same, Sealed
<1> QED BY <1>1, <1>2, PTL DEF Spec, ManifestSealsDirectory

-----------------------------------------------------------------------------
(* ProductionRun implements RunDirectory.                                  *)

\* An unsealed directory offers nothing, a failed one all it holds, and a
\* delivered one nothing.
LEMMA OfferedBySeal ==
    ASSUME IInv, NEW d \in Dir
    PROVE  /\ ~Sealed(d) => DirStatus(d) = "open" /\ Offered(d) = {}
           /\ Sealed(d) /\ manifest[d].status = "FAILED" =>
                DirStatus(d) = "failed" /\ Offered(d) = files[d]
           /\ Sealed(d) /\ manifest[d].status = "SUCCEEDED" =>
                DirStatus(d) = "delivered" /\ Offered(d) = {}
BY DEF IInv, FailureManifestIsResumable, Sealed, DirStatus, Offered, Acceptable

\* What a reader sees of a directory that a step leaves alone does not change.
LEMMA SameIsSeen ==
    ASSUME NEW d \in Dir, Same(d)
    PROVE  DirStatus(d)' = DirStatus(d) /\ Offered(d)' = Offered(d) /\ files'[d] = files[d]
BY DEF Same, DirStatus, Offered, Acceptable, OneEach

\* A run that replays, buys, delivers, fails or dies does to its directory only what
\* RunDirectory allows: collect, then seal once, offering what it holds or nothing.
THEOREM RunsImplementDirectory == Exclusive => (Spec => ImplementsRunDirectory)
<1> SUFFICES ASSUME Exclusive PROVE Spec => ImplementsRunDirectory
  OBVIOUS
<1>1. Init => Directory!Init
  BY DEF Init, Directory!Init, DirStatus, Offered
<1>2. ASSUME IInv, IInv', [Next]_vars PROVE [Directory!Next]_(Directory!vars)
  <2> USE DEF Directory!vars
  <2>0. files \in [Dir -> SUBSET Receipt] /\ files' \in [Dir -> SUBSET Receipt]
    BY <1>2 DEF IInv, TypeOK
  <2>1. CASE \A d \in Dir : Same(d)
    BY <2>0, <2>1, SameIsSeen
  <2>2. ASSUME NEW d \in Dir, ~Sealed(d), \A e \in Dir \ {d} : Same(e),
               manifest'[d] = manifest[d], files'[d] = files[d]
        PROVE  UNCHANGED Directory!vars
    <3>1. DirStatus(d)' = DirStatus(d) /\ Offered(d)' = Offered(d)
      BY <2>2 DEF DirStatus, Offered, Sealed
    <3>2. \A e \in Dir : /\ DirStatus(e)' = DirStatus(e) /\ Offered(e)' = Offered(e)
                         /\ files'[e] = files[e]
      BY <2>2, <3>1, SameIsSeen
    <3> QED BY <2>0, <3>2
  <2>3. ASSUME NEW d \in Dir, NEW c \in Receipt, ~Sealed(d), \A e \in Dir \ {d} : Same(e),
               manifest'[d] = manifest[d], files'[d] = files[d] \cup {c},
               \A a \in files[d] : a.op # c.op
        PROVE  Directory!Hold(d, c)
    <3>1. DirStatus(d) = "open" /\ DirStatus(d)' = DirStatus(d) /\ Offered(d)' = Offered(d)
      BY <2>3 DEF DirStatus, Offered, Sealed
    <3>2. /\ \A e \in Dir : DirStatus(e)' = DirStatus(e) /\ Offered(e)' = Offered(e)
          /\ \A e \in Dir \ {d} : files'[e] = files[e]
      BY <2>3, <3>1, SameIsSeen
    <3>3. files' = [files EXCEPT ![d] = @ \cup {c}]
      BY <2>0, <2>3, <3>2
    <3> QED BY <2>3, <3>1, <3>2, <3>3 DEF Directory!Hold
  <2>4. ASSUME NEW d \in Dir, ~Sealed(d), \A e \in Dir \ {d} : Same(e), Sealed(d)',
               manifest'[d].status \in {"SUCCEEDED", "FAILED"}, files'[d] = files[d],
               manifest'[d].status = "SUCCEEDED" => {c.op : c \in files[d]} = Op
        PROVE  Directory!SealFailed(d) \/ Directory!SealDelivered(d)
    <3>1. DirStatus(d) = "open" /\ Offered(d) = {}
      BY <1>2, <2>4, OfferedBySeal
    <3>2. /\ \A e \in Dir \ {d} : DirStatus(e)' = DirStatus(e) /\ Offered(e)' = Offered(e)
          /\ files' = files
      BY <2>0, <2>4, SameIsSeen
    <3>3. CASE manifest'[d].status = "FAILED"
      <4>1. DirStatus(d)' = "failed" /\ Offered(d)' = files[d]
        BY <1>2, <2>4, <3>3
        DEF IInv, FailureManifestIsResumable, Sealed, DirStatus, Offered, Acceptable
      <4> QED BY <3>1, <3>2, <4>1 DEF Directory!SealFailed
    <3>4. CASE manifest'[d].status = "SUCCEEDED"
      <4>1. DirStatus(d)' = "delivered" /\ Offered(d)' = Offered(d)
        BY <2>4, <3>1, <3>4 DEF Sealed, DirStatus, Offered, Acceptable
      <4> QED BY <2>4, <3>1, <3>2, <3>4, <4>1 DEF Directory!SealDelivered
    <3> QED BY <2>4, <3>3, <3>4
  <2> QED BY <1>2, <2>1, <2>2, <2>3, <2>4, DirectoryStep DEF Directory!Next, Sealed
<1>3. Spec => []IInv
  BY Inductive
<1> QED BY <1>1, <1>2, <1>3, PTL DEF Spec, ImplementsRunDirectory, Directory!Spec

----------------------------------------------------------------------------
(***************************************************************************)
(* Proofs about chains of resumed runs: what is sent again, what a second  *)
(* recovery finds, and whose answer a checkpoint is, for any number of     *)
(* runs, directories, requests and operations.                             *)
(*                                                                         *)
(* The argument: a source is sealed when it is read, so that what a run    *)
(* has in memory of it stays what the directory holds.  The checkpoints of *)
(* a directory are a prefix of the plan, so that a run whose source has    *)
(* nothing for an operation has replayed the whole source before.  And an  *)
(* answer is bought by one run: every other has replayed it.               *)
(***************************************************************************)

\* Between the reading of the source and the end of the run or its failure.
Mid == Working \ {"claim", "load", "failing"}

\* S holds a checkpoint for every operation before one it has a checkpoint for.
PlanPrefix(S) == \A c \in S : \A o \in 1..(c.op - 1) : \E b \in S : b.op = o

\* The source is sealed and is what was read.
Sourced(r) ==
    pc[r] \in Mid /\ src[r] # NoDir =>
      manifest[src[r]] # NoManifest /\ files[src[r]] = resume[r]

\* What was read is replayed in the order of the plan, before anything is bought.
Replays(r) ==
    /\ pc[r] \in {"idle", "claim", "load"} => executed[r] = {}
    /\ Owns(r) =>
         /\ OneEach(resume[r]) /\ PlanPrefix(resume[r])
         /\ \A c \in resume[r] : c.op < next[r] => c \in ids[r]
         /\ executed[r] # {} => resume[r] \subseteq ids[r]
         /\ pc[r] = "checkpoint" => Found(r, next[r]) = {}

\* All of it is paid for.
Paid(r) ==
    /\ ids[r] \subseteq ledger /\ resume[r] \subseteq ledger
    /\ pending[r] # NoReceipt => pending[r] \in ledger

\* The answers a run holds that it has not replayed.
Bought(r) ==
    {c \in ids[r] : ~(c.op \in replayed[r] /\ c \in resume[r])}
      \cup ({pending[r]} \ {NoReceipt})

OneBuyer == \A q, r \in Run : q # r => Bought(q) \cap Bought(r) = {}

\* A manifest tells what the run that wrote it had in memory.
Written(d) ==
    manifest[d] # NoManifest =>
      \E r \in Run :
        /\ dir[r] = d /\ pc[r] \in {"succeeded", "failed"}
        /\ files[d] = ids[r]
        /\ manifest[d].sourceIds = resume[r]
        /\ manifest[d].replayed = replayed[r]
        /\ manifest[d].executed # {} => resume[r] \subseteq ids[r]

ChainInv ==
    /\ \A r \in Run : Sourced(r) /\ Replays(r) /\ Paid(r)
    /\ \A d \in Dir : PlanPrefix(files[d]) /\ files[d] \subseteq ledger /\ Written(d)
    /\ OneBuyer

-----------------------------------------------------------------------------

\* A manifest tells what it told while its directory and its run are left alone.
LEMMA WrittenStays ==
    ASSUME NEW d \in Dir, Written(d), files'[d] = files[d], manifest'[d] = manifest[d],
           \A q \in Run : pc[q] \in {"succeeded", "failed"} =>
             /\ pc'[q] = pc[q] /\ dir'[q] = dir[q] /\ ids'[q] = ids[q]
             /\ resume'[q] = resume[q] /\ replayed'[q] = replayed[q]
    PROVE  Written(d)'
<1> SUFFICES ASSUME manifest[d] # NoManifest
             PROVE \E q \in Run :
                     /\ dir'[q] = d /\ pc'[q] \in {"succeeded", "failed"}
                     /\ files'[d] = ids'[q]
                     /\ manifest'[d].sourceIds = resume'[q]
                     /\ manifest'[d].replayed = replayed'[q]
                     /\ manifest'[d].executed # {} => resume'[q] \subseteq ids'[q]
  BY DEF Written
<1>1. PICK q \in Run : /\ dir[q] = d /\ pc[q] \in {"succeeded", "failed"}
                       /\ files[d] = ids[q]
                       /\ manifest[d].sourceIds = resume[q]
                       /\ manifest[d].replayed = replayed[q]
                       /\ manifest[d].executed # {} => resume[q] \subseteq ids[q]
  BY DEF Written
<1>2. /\ pc'[q] = pc[q] /\ dir'[q] = dir[q] /\ ids'[q] = ids[q]
      /\ resume'[q] = resume[q] /\ replayed'[q] = replayed[q]
  BY <1>1
<1> QED
  BY <1>1, <1>2

\* What r has bought can only shrink, but for answers nobody has.
LEMMA BuyerStays ==
    ASSUME NEW r \in Run, OneBuyer, NEW new,
           \A q \in Run : Bought(q) \cap new = {},
           Bought(r)' \subseteq Bought(r) \cup new,
           \A q \in Run \ {r} : Bought(q)' = Bought(q)
    PROVE  OneBuyer'
<1> SUFFICES ASSUME NEW p \in Run, NEW q \in Run, p # q PROVE Bought(p)' \cap Bought(q)' = {}
  BY DEF OneBuyer
<1>1. Bought(p) \cap Bought(q) = {} /\ Bought(p) \cap new = {} /\ Bought(q) \cap new = {}
  BY DEF OneBuyer
<1>2. CASE p = r
  <2>1. Bought(p)' \subseteq Bought(p) \cup new /\ Bought(q)' = Bought(q)
    BY <1>2
  <2> QED
    BY <1>1, <2>1
<1>3. CASE p # r
  <2>1. Bought(p)' = Bought(p) /\ Bought(q)' \subseteq Bought(q) \cup new
    BY <1>3
  <2> QED
    BY <1>1, <2>1
<1> QED
  BY <1>2, <1>3

\* r goes on, and may drop an answer it could not store.
Move(r) ==
    /\ UNCHANGED <<files, manifest, ledger, dir, src, req, resume, ids, next, executed, replayed, sent>>
    /\ \A q \in Run \ {r} : pc'[q] = pc[q] /\ pending'[q] = pending[q]
    /\ pending'[r] \in {pending[r], NoReceipt}
    /\ pc[r] \in Working
    /\ pc'[r] \notin {"idle", "claim", "checkpoint"}
    /\ pc'[r] = "load" => pc[r] = "claim"
    /\ pc'[r] \in Mid => pc[r] \in Mid \/ src[r] = NoDir

\* The steps that do no more than that.
LEMMA Moves ==
    ASSUME NEW r \in Run, TypeInv,
           \/ ClaimOutput(r) \/ (LoadResumeSource(r) /\ resume' = resume /\ (pc'[r] = "failing" \/ src[r] = NoDir))
           \/ BuildRuntime(r) \/ WriteSuccessRaises(r) \/ CheckCohort(r)
           \/ Analyse(r) \/ WriteReport(r) \/ ValidateSchema(r) \/ DeliverMarkdown(r)
           \/ DeliverXlsx(r) \/ StageRaises(r) \/ HandlerRaises(r) \/ Crash(r)
    PROVE  Move(r)
<1> USE DEF TypeInv, TypeOK, Move, Goto, disk, given, opLog, Working, Mid
<1>1. CASE ClaimOutput(r)
  BY <1>1 DEF ClaimOutput
<1>2. CASE LoadResumeSource(r) /\ resume' = resume /\ (pc'[r] = "failing" \/ src[r] = NoDir)
  <2>1. pc[r] = "load" /\ \E to \in {"runtime", "failing"} : Goto(r, to)
    BY <1>2 DEF LoadResumeSource
  <2> QED
    BY <1>2, <2>1 DEF LoadResumeSource
<1>3. CASE BuildRuntime(r)
  BY <1>3 DEF BuildRuntime
<1>4. CASE WriteSuccessRaises(r)
  BY <1>4 DEF WriteSuccessRaises
<1>5. CASE CheckCohort(r)
  BY <1>5 DEF CheckCohort
<1>6. CASE Analyse(r) \/ ValidateSchema(r)
  BY <1>6 DEF Analyse, ValidateSchema
<1>7. CASE WriteReport(r) \/ DeliverMarkdown(r) \/ DeliverXlsx(r)
  BY <1>7 DEF WriteReport, DeliverMarkdown, DeliverXlsx, WriteArtifact
<1>8. CASE StageRaises(r)
  BY <1>8 DEF StageRaises
<1>9. CASE HandlerRaises(r)
  BY <1>9 DEF HandlerRaises
<1>10. CASE Crash(r)
  BY <1>10 DEF Crash, Live
<1> QED
  BY <1>1, <1>2, <1>3, <1>4, <1>5, <1>6, <1>7, <1>8, <1>9, <1>10

LEMMA MoveChain ==
    ASSUME NEW r \in Run, IInv, ChainInv, Move(r)
    PROVE  ChainInv'
<1>1. /\ UNCHANGED <<files, manifest, ledger, dir, src, req, resume, ids, next, executed, replayed, sent>>
      /\ \A q \in Run \ {r} : pc'[q] = pc[q] /\ pending'[q] = pending[q]
      /\ pending'[r] \in {pending[r], NoReceipt}
      /\ pc[r] \in Working /\ pc'[r] \notin {"idle", "claim", "checkpoint"}
      /\ pc'[r] = "load" => pc[r] = "claim"
      /\ pc'[r] \in Mid => pc[r] \in Mid \/ src[r] = NoDir
  BY DEF Move
<1>2. ASSUME NEW q \in Run PROVE Sourced(q)' /\ Paid(q)'
  <2>1. Sourced(q) /\ Paid(q)
    BY DEF ChainInv
  <2>2. Sourced(q)'
    BY <1>1, <2>1 DEF Sourced
  <2>3. Paid(q)'
    BY <1>1, <2>1 DEF Paid
  <2> QED
    BY <2>2, <2>3
<1>3. ASSUME NEW q \in Run PROVE Replays(q)'
  <2>1. Replays(q)
    BY DEF ChainInv
  <2>2. CASE q # r
    BY <1>1, <2>1, <2>2 DEF Replays, Owns, OneEach, PlanPrefix, Found
  <2>3. CASE q = r
    <3>1. (pc[r] = "claim" => resume[r] = {} /\ executed[r] = {}) /\ (~Owns(r) => pc[r] = "claim")
      BY <1>1, <2>1, <2>3 DEF IInv, Untouched, Replays, Owns
    <3>2. /\ OneEach(resume[r]) /\ PlanPrefix(resume[r])
          /\ \A c \in resume[r] : c.op < next[r] => c \in ids[r]
          /\ executed[r] # {} => resume[r] \subseteq ids[r]
      BY <2>1, <2>3, <3>1 DEF Replays, OneEach, PlanPrefix
    <3> QED
      BY <1>1, <2>3, <3>1, <3>2 DEF Replays, OneEach, PlanPrefix
  <2> QED
    BY <2>2, <2>3
<1>4. ASSUME NEW d \in Dir PROVE PlanPrefix(files[d])' /\ files'[d] \subseteq ledger' /\ Written(d)'
  <2>1. PlanPrefix(files[d]) /\ files[d] \subseteq ledger /\ Written(d)
    BY DEF ChainInv
  <2>2. \A q \in Run : pc[q] \in {"succeeded", "failed"} => q # r
    BY <1>1 DEF Working
  <2>3. Written(d)'
    BY <1>1, <2>1, <2>2, WrittenStays
  <2> QED
    BY <1>1, <2>1, <2>3 DEF PlanPrefix
<1>5. OneBuyer'
  <2>1. Bought(r)' \subseteq Bought(r) /\ \A q \in Run \ {r} : Bought(q)' = Bought(q)
    BY <1>1 DEF Bought
  <2>2. \A q \in Run : Bought(q) \cap {} = {}
    OBVIOUS
  <2> QED
    BY <2>1, <2>2, BuyerStays DEF ChainInv
<1> QED
  BY <1>2, <1>3, <1>4, <1>5 DEF ChainInv

LEMMA StartChain ==
    ASSUME NEW r \in Run, NEW d \in Dir, NEW sd \in Dir \cup {NoDir}, IInv, ChainInv,
           Start(r, d, sd)
    PROVE  ChainInv'
<1>1. /\ pc[r] = "idle" /\ pc' = [pc EXCEPT ![r] = "claim"]
      /\ dir' = [dir EXCEPT ![r] = d] /\ src' = [src EXCEPT ![r] = sd]
      /\ UNCHANGED <<files, manifest, ledger, resume, ids, next, pending, executed, replayed>>
  BY DEF Start, disk, opLog
<1>2. /\ pc \in [Run -> Working \cup Ended \cup {"idle"}]
      /\ dir \in [Run -> Dir \cup {NoDir}] /\ src \in [Run -> Dir \cup {NoDir}]
  BY DEF IInv, TypeOK
<1>3. /\ pc'[r] = "claim"
      /\ \A q \in Run \ {r} : pc'[q] = pc[q] /\ dir'[q] = dir[q] /\ src'[q] = src[q]
  BY <1>1, <1>2
<1>4. ASSUME NEW q \in Run PROVE Sourced(q)' /\ Replays(q)' /\ Paid(q)'
  <2>1. Sourced(q) /\ Replays(q) /\ Paid(q)
    BY DEF ChainInv
  <2>2. Sourced(q)'
    BY <1>1, <1>3, <2>1 DEF Sourced, Mid
  <2>3. Replays(q)'
    BY <1>1, <1>3, <2>1 DEF Replays, Owns, OneEach, PlanPrefix, Found
  <2>4. Paid(q)'
    BY <1>1, <2>1 DEF Paid
  <2> QED
    BY <2>2, <2>3, <2>4
<1>5. ASSUME NEW e \in Dir PROVE PlanPrefix(files[e])' /\ files'[e] \subseteq ledger' /\ Written(e)'
  <2>1. PlanPrefix(files[e]) /\ files[e] \subseteq ledger /\ Written(e)
    BY DEF ChainInv
  <2>2. \A q \in Run : pc[q] \in {"succeeded", "failed"} => q # r
    BY <1>1
  <2>3. Written(e)'
    BY <1>1, <1>3, <2>1, <2>2, WrittenStays
  <2> QED
    BY <1>1, <2>1, <2>3 DEF PlanPrefix
<1>6. OneBuyer'
  <2>1. \A q \in Run : Bought(q)' = Bought(q)
    BY <1>1 DEF Bought
  <2> QED
    BY <2>1 DEF ChainInv, OneBuyer
<1> QED
  BY <1>4, <1>5, <1>6 DEF ChainInv

\* An acceptable source is sealed, and its checkpoints are a prefix of the plan.
LEMMA LoadChain ==
    ASSUME NEW r \in Run, IInv, ChainInv, LoadResumeSource(r)
    PROVE  ChainInv'
<1>1. CASE ~(src[r] # NoDir /\ Acceptable(src[r], req[r]))
  <2>1. resume' = resume /\ (pc'[r] = "failing" \/ src[r] = NoDir)
    BY <1>1 DEF LoadResumeSource, Goto, IInv, TypeOK
  <2>2. TypeInv
    BY IInvByParts
  <2> QED
    BY <2>1, <2>2, Moves, MoveChain
<1>2. CASE src[r] # NoDir /\ Acceptable(src[r], req[r])
  <2>1. /\ pc \in [Run -> Working \cup Ended \cup {"idle"}] /\ src[r] \in Dir
        /\ resume \in [Run -> SUBSET Receipt]
    BY <1>2 DEF IInv, TypeOK
  <2>2. /\ pc[r] = "load" /\ pc' = [pc EXCEPT ![r] = "runtime"]
        /\ resume' = [resume EXCEPT ![r] = files[src[r]]]
        /\ UNCHANGED <<files, manifest, ledger, dir, src, ids, next, pending, executed, replayed>>
    BY <1>2 DEF LoadResumeSource, Goto, disk, given, opLog
  <2>3. /\ pc'[r] = "runtime" /\ resume'[r] = files[src[r]]
        /\ \A q \in Run \ {r} : pc'[q] = pc[q] /\ resume'[q] = resume[q]
    BY <2>1, <2>2
  <2>4. ids[r] = {} /\ next[r] = 1 /\ executed[r] = {}
    BY <2>2 DEF IInv, Untouched, ChainInv, Replays
  <2>5. /\ manifest[src[r]] # NoManifest /\ OneEach(files[src[r]])
        /\ PlanPrefix(files[src[r]]) /\ files[src[r]] \subseteq ledger
    BY <1>2, <2>1 DEF Acceptable, ChainInv
  <2>6. \A c \in files[src[r]] : c.op \in 1..NumOps
    BY <2>1 DEF IInv, TypeOK, Receipt, Op
  <2>7. ASSUME NEW q \in Run PROVE Sourced(q)' /\ Replays(q)' /\ Paid(q)'
    <3>1. Sourced(q) /\ Replays(q) /\ Paid(q)
      BY DEF ChainInv
    <3>2. CASE q # r
      BY <2>2, <2>3, <3>1, <3>2 DEF Sourced, Replays, Paid, Owns, OneEach, PlanPrefix, Found
    <3>3. CASE q = r
      <4>1. Sourced(r)'
        BY <2>2, <2>3, <2>5 DEF Sourced
      <4>2. \A c \in files[src[r]] : ~(c.op < 1)
        BY <2>6, NumOpsAssumption
      <4>3. Replays(r)'
        BY <2>2, <2>3, <2>4, <2>5, <4>2 DEF Replays, OneEach, PlanPrefix
      <4>4. Paid(r)'
        BY <2>2, <2>3, <2>5, <3>1, <3>3 DEF Paid
      <4> QED
        BY <3>3, <4>1, <4>3, <4>4
    <3> QED
      BY <3>2, <3>3
  <2>8. ASSUME NEW e \in Dir PROVE PlanPrefix(files[e])' /\ files'[e] \subseteq ledger' /\ Written(e)'
    <3>1. PlanPrefix(files[e]) /\ files[e] \subseteq ledger /\ Written(e)
      BY DEF ChainInv
    <3>2. \A q \in Run : pc[q] \in {"succeeded", "failed"} => q # r
      BY <2>2
    <3>3. Written(e)'
      BY <2>2, <2>3, <3>1, <3>2, WrittenStays
    <3> QED
      BY <2>2, <3>1, <3>3 DEF PlanPrefix
  <2>9. OneBuyer'
    <3>1. Bought(r)' \subseteq Bought(r) /\ \A q \in Run \ {r} : Bought(q)' = Bought(q)
      BY <2>2, <2>3, <2>4 DEF Bought
    <3>2. \A q \in Run : Bought(q) \cap {} = {}
      OBVIOUS
    <3> QED
      BY <3>1, <3>2, BuyerStays DEF ChainInv
  <2> QED
    BY <2>7, <2>8, <2>9 DEF ChainInv
<1> QED
  BY <1>1, <1>2

\* A run that reaches an operation its source lacks has replayed the whole source.
LEMMA SourceDone ==
    ASSUME NEW r \in Run, IInv, ChainInv, Owns(r), Found(r, next[r]) = {}
    PROVE  resume[r] \subseteq ids[r]
<1> SUFFICES ASSUME NEW c \in resume[r] PROVE c \in ids[r]
  OBVIOUS
<1>1. c.op \in 1..NumOps /\ next[r] \in 1..(NumOps + 1) /\ NumOps \in Nat
  BY NumOpsAssumption DEF IInv, TypeOK, Receipt, Op
<1>2. PlanPrefix(resume[r]) /\ (c.op < next[r] => c \in ids[r])
  BY DEF ChainInv, Replays
<1>3. c.op # next[r] /\ ~(\E b \in resume[r] : b.op = next[r])
  BY DEF Found
<1>4. ~(c.op > next[r])
  <2>1. c.op > next[r] => next[r] \in 1..(c.op - 1)
    BY <1>1
  <2> QED
    BY <1>2, <1>3, <2>1 DEF PlanPrefix
<1> QED
  BY <1>1, <1>2, <1>3, <1>4

\* A checkpoint is stored, of the source or of a new answer.
LEMMA StoreChain ==
    ASSUME NEW r \in Run, NEW c \in Receipt, IInv, ChainInv, Owns(r), WriteSuccess(r, c),
           pc[r] \in {"acquire", "checkpoint"}, pc'[r] = "acquire", c.op = next[r], c \in ledger,
           UNCHANGED <<ledger, dir, src, resume>>,
           \A q \in Run \ {r} : /\ pc'[q] = pc[q] /\ pending'[q] = pending[q]
                                /\ executed'[q] = executed[q] /\ replayed'[q] = replayed[q],
           pending'[r] \in {pending[r], NoReceipt},
           executed'[r] # {} => resume[r] \subseteq ids[r] \cup {c},
           \A b \in resume[r] : b.op = c.op => b = c,
           Bought(r)' \subseteq Bought(r)
    PROVE  ChainInv'
<1>1. /\ dir[r] \in Dir /\ OwnerView(r) /\ next[r] \in 1..(NumOps + 1) /\ NumOps \in Nat
      /\ files \in [Dir -> SUBSET Receipt] /\ ids \in [Run -> SUBSET Receipt]
      /\ next \in [Run -> 1..(NumOps + 1)]
  BY OwnerFacts, NumOpsAssumption DEF IInv, TypeOK, Owns, Live, RunView
<1>2. /\ files'[dir[r]] = files[dir[r]] \cup {c} /\ ids'[r] = ids[r] \cup {c}
      /\ next'[r] = next[r] + 1 /\ manifest' = manifest
      /\ \A d \in Dir \ {dir[r]} : files'[d] = files[d]
      /\ \A q \in Run \ {r} : ids'[q] = ids[q] /\ next'[q] = next[q]
  BY <1>1 DEF WriteSuccess
<1>3. manifest[dir[r]] = NoManifest /\ files[dir[r]] = ids[r]
  BY <1>1 DEF OwnerView
<1>4. \A o \in 1..(c.op - 1) : \E b \in ids[r] : b.op = o
  BY <1>1 DEF OwnerView
<1>5. ASSUME NEW q \in Run PROVE Sourced(q)' /\ Paid(q)'
  <2>1. Sourced(q) /\ Paid(q) /\ src[q] \in Dir \cup {NoDir}
    BY DEF ChainInv, IInv, TypeOK
  <2>2. pc'[q] \in Mid => pc[q] \in Mid
    BY DEF Mid, Working
  <2>3. Sourced(q)'
    BY <1>2, <1>3, <2>1, <2>2 DEF Sourced
  <2>4. Paid(q)'
    BY <1>2, <2>1 DEF Paid
  <2> QED
    BY <2>3, <2>4
<1>6. ASSUME NEW q \in Run PROVE Replays(q)'
  <2>1. Replays(q)
    BY DEF ChainInv
  <2>2. CASE q # r
    BY <1>2, <2>1, <2>2 DEF Replays, Owns, OneEach, PlanPrefix, Found
  <2>3. CASE q = r
    <3>1. \A b \in resume[r] : b.op < next[r] + 1 => b \in ids[r] \cup {c}
      <4>1. \A b \in resume[r] : b.op \in 1..NumOps
        BY DEF IInv, TypeOK, Receipt, Op
      <4>2. \A b \in resume[r] : b.op < next[r] => b \in ids[r]
        BY <2>1, <2>3 DEF Replays
      <4>3. \A b \in resume[r] : b.op < next[r] + 1 => b.op < next[r] \/ b.op = c.op
        BY <1>1, <4>1
      <4> QED
        BY <4>2, <4>3
    <3>2. OneEach(resume[r]) /\ PlanPrefix(resume[r])
      BY <2>1, <2>3 DEF Replays
    <3> QED
      BY <1>2, <2>3, <3>1, <3>2 DEF Replays, OneEach, PlanPrefix
  <2> QED
    BY <2>2, <2>3
<1>7. ASSUME NEW d \in Dir PROVE PlanPrefix(files[d])' /\ files'[d] \subseteq ledger' /\ Written(d)'
  <2>1. PlanPrefix(files[d]) /\ files[d] \subseteq ledger /\ Written(d)
    BY DEF ChainInv
  <2>2. CASE d = dir[r]
    <3>1. Written(d)'
      BY <1>2, <1>3, <2>2 DEF Written
    <3>2. PlanPrefix(files[d])'
      BY <1>2, <1>3, <1>4, <2>1, <2>2 DEF PlanPrefix
    <3> QED
      BY <1>2, <2>1, <2>2, <3>1, <3>2
  <2>3. CASE d # dir[r]
    <3>1. \A q \in Run : pc[q] \in {"succeeded", "failed"} => q # r
      OBVIOUS
    <3>2. Written(d)'
      BY <1>2, <2>1, <2>3, <3>1, WrittenStays
    <3> QED
      BY <1>2, <2>1, <2>3, <3>2 DEF PlanPrefix
  <2> QED
    BY <2>2, <2>3
<1>8. OneBuyer'
  <2>1. \A q \in Run \ {r} : Bought(q)' = Bought(q)
    BY <1>2 DEF Bought
  <2>2. \A q \in Run : Bought(q) \cap {} = {}
    OBVIOUS
  <2> QED
    BY <2>1, <2>2, BuyerStays DEF ChainInv
<1> QED
  BY <1>5, <1>6, <1>7, <1>8 DEF ChainInv

\* A checkpoint of the source is replayed.
LEMMA ReplayChain ==
    ASSUME NEW r \in Run, IInv, ChainInv, ReplayOperation(r)
    PROVE  ChainInv'
<1>1. PICK c \in Found(r, next[r]) : WriteSuccess(r, c)
  BY DEF ReplayOperation
<1>2. c \in resume[r] /\ c.op = next[r] /\ resume[r] \in SUBSET Receipt
  BY <1>1 DEF Found, IInv, TypeOK
<1>3. /\ pc[r] = "acquire" /\ replayed' = [replayed EXCEPT ![r] = @ \cup {next[r]}]
      /\ UNCHANGED <<ledger, pc, dir, src, req, resume, pending, executed, sent>>
  BY DEF ReplayOperation, given
<1>4. Owns(r) /\ Replays(r) /\ Paid(r)
  BY <1>3 DEF Owns, Working, ChainInv
<1>5. /\ replayed'[r] = replayed[r] \cup {next[r]}
      /\ \A q \in Run \ {r} : replayed'[q] = replayed[q]
  BY <1>3 DEF IInv, TypeOK
<1>6. ids'[r] = ids[r] \cup {c}
  BY <1>1 DEF WriteSuccess, IInv, TypeOK
<1>7. Bought(r)' \subseteq Bought(r)
  BY <1>2, <1>3, <1>5, <1>6 DEF Bought
<1>8. \A b \in resume[r] : b.op = c.op => b = c
  BY <1>2, <1>4 DEF Replays, OneEach
<1>9. c \in ledger /\ (executed'[r] # {} => resume[r] \subseteq ids[r] \cup {c})
  BY <1>2, <1>3, <1>4 DEF Paid, Replays
<1>10. /\ c \in Receipt /\ pc'[r] = "acquire" /\ pending'[r] \in {pending[r], NoReceipt}
       /\ pc[r] \in {"acquire", "checkpoint"} /\ UNCHANGED <<ledger, dir, src, resume>>
       /\ \A q \in Run \ {r} : /\ pc'[q] = pc[q] /\ pending'[q] = pending[q]
                               /\ executed'[q] = executed[q] /\ replayed'[q] = replayed[q]
  BY <1>2, <1>3, <1>5
<1> QED
  BY <1>1, <1>2, <1>4, <1>7, <1>8, <1>9, <1>10, StoreChain

\* A new answer is stored: the source had none, and is stored already.
LEMMA CheckpointChain ==
    ASSUME NEW r \in Run, IInv, ChainInv, CheckpointResponse(r)
    PROVE  ChainInv'
<1> DEFINE c == pending[r]
<1>1. /\ pc[r] = "checkpoint" /\ WriteSuccess(r, c) /\ pc' = [pc EXCEPT ![r] = "acquire"]
      /\ pending' = [pending EXCEPT ![r] = NoReceipt]
      /\ executed' = [executed EXCEPT ![r] = @ \cup {pending[r].op}]
      /\ UNCHANGED <<ledger, dir, src, req, resume, replayed, sent>>
  BY DEF CheckpointResponse, Goto, given
<1>2. c \in Receipt /\ c.op = next[r] /\ c # NoReceipt
  BY <1>1, SentinelAssumption DEF IInv, PendingView
<1>3. Owns(r) /\ Replays(r) /\ Paid(r) /\ Found(r, next[r]) = {}
  BY <1>1 DEF Owns, Working, ChainInv, Replays
<1>4. resume[r] \subseteq ids[r]
  BY <1>3, SourceDone
<1>5. /\ pending'[r] = NoReceipt /\ pc'[r] = "acquire" /\ replayed' = replayed
      /\ \A q \in Run \ {r} : /\ pc'[q] = pc[q] /\ pending'[q] = pending[q]
                              /\ executed'[q] = executed[q] /\ replayed'[q] = replayed[q]
  BY <1>1 DEF IInv, TypeOK
<1>6. ids'[r] = ids[r] \cup {c}
  BY <1>1 DEF WriteSuccess, IInv, TypeOK
<1>7. Bought(r)' \subseteq Bought(r)
  BY <1>1, <1>2, <1>5, <1>6 DEF Bought
<1>8. \A b \in resume[r] : b.op # c.op
  BY <1>2, <1>3 DEF Found
<1>9. c \in ledger
  BY <1>2, <1>3 DEF Paid
<1> HIDE DEF c
<1>10. /\ pc[r] \in {"acquire", "checkpoint"} /\ pending'[r] \in {pending[r], NoReceipt}
       /\ executed'[r] # {} => resume[r] \subseteq ids[r] \cup {c}
       /\ \A b \in resume[r] : b.op = c.op => b = c
       /\ UNCHANGED <<ledger, dir, src, resume>>
  BY <1>1, <1>4, <1>5, <1>8
<1> QED
  BY <1>1, <1>2, <1>3, <1>5, <1>7, <1>9, <1>10, StoreChain

\* The provider is called for an operation the source lacks: an answer that
\* nobody has is bought, or the run fails with its source stored.
LEMMA CallChain ==
    ASSUME NEW r \in Run, NEW o \in Op, IInv, ChainInv,
           ProviderFails(r, o)
             \/ \E e \in Evidence, b \in BOOLEAN : ProviderAnswers(r, o, e, b)
    PROVE  ChainInv'
<1>1. /\ Reaches(r, o) /\ pc[r] = "acquire" /\ o = next[r] /\ Found(r, next[r]) = {}
      /\ UNCHANGED <<files, manifest, dir, src, req, resume, ids, next, replayed>>
  BY DEF ProviderFails, ProviderAnswers, Reaches, disk, given
<1>2. Owns(r) /\ resume[r] \subseteq ids[r]
  BY <1>1, SourceDone DEF Owns, Working
<1>3. CASE ProviderFails(r, o)
  <2>1. /\ pc'[r] = "failing" /\ UNCHANGED <<pending, ledger>>
        /\ \A q \in Run \ {r} : pc'[q] = pc[q] /\ executed'[q] = executed[q]
    BY <1>3 DEF ProviderFails, Goto, IInv, TypeOK
  <2>2. ASSUME NEW q \in Run PROVE Sourced(q)' /\ Paid(q)' /\ Replays(q)'
    <3>1. Sourced(q) /\ Paid(q) /\ Replays(q)
      BY DEF ChainInv
    <3>2. Sourced(q)' /\ Paid(q)'
      BY <1>1, <2>1, <3>1 DEF Sourced, Paid, Mid
    <3>3. CASE q # r
      BY <1>1, <2>1, <3>1, <3>2, <3>3 DEF Replays, Owns, OneEach, PlanPrefix, Found
    <3>4. CASE q = r
      <4>1. OneEach(resume[r]) /\ PlanPrefix(resume[r])
        BY <1>2, <3>1, <3>4 DEF Replays
      <4>2. Replays(r)'
        BY <1>1, <1>2, <2>1, <4>1 DEF Replays, OneEach, PlanPrefix
      <4> QED
        BY <3>2, <3>4, <4>2
    <3> QED
      BY <3>3, <3>4
  <2>3. ASSUME NEW d \in Dir PROVE PlanPrefix(files[d])' /\ files'[d] \subseteq ledger' /\ Written(d)'
    <3>1. PlanPrefix(files[d]) /\ files[d] \subseteq ledger /\ Written(d)
      BY DEF ChainInv
    <3>2. \A q \in Run : pc[q] \in {"succeeded", "failed"} => q # r
      BY <1>1
    <3>3. Written(d)'
      BY <1>1, <2>1, <3>1, <3>2, WrittenStays
    <3> QED
      BY <1>1, <2>1, <3>1, <3>3 DEF PlanPrefix
  <2>4. OneBuyer'
    <3>1. \A q \in Run : Bought(q)' = Bought(q)
      BY <1>1, <2>1 DEF Bought
    <3> QED
      BY <3>1 DEF ChainInv, OneBuyer
  <2> QED
    BY <2>2, <2>3, <2>4 DEF ChainInv
<1>4. CASE \E e \in Evidence, b \in BOOLEAN : ProviderAnswers(r, o, e, b)
  <2>1. PICK e \in Evidence, b \in BOOLEAN : ProviderAnswers(r, o, e, b)
    BY <1>4
  <2> DEFINE c == [op |-> o, req |-> req[r], id |-> e, complete |-> b]
  <2>2. c \notin ledger
    <3>1. c.id = e /\ \A a \in ledger : a.id # e
      BY <2>1 DEF ProviderAnswers
    <3> QED
      BY <3>1
  <2>3. pending' = [pending EXCEPT ![r] = c] /\ ledger' = ledger \cup {c}
    BY <2>1 DEF ProviderAnswers
  <2>4. c \in Receipt
    BY <2>1 DEF Receipt, IInv, TypeOK
  <2> HIDE DEF c
  <2>5. /\ pc'[r] = "checkpoint" /\ pending'[r] = c /\ executed' = executed
        /\ \A q \in Run \ {r} : pc'[q] = pc[q] /\ pending'[q] = pending[q]
    BY <2>1, <2>3 DEF ProviderAnswers, Goto, IInv, TypeOK
  <2>6. ASSUME NEW q \in Run PROVE Sourced(q)' /\ Paid(q)' /\ Replays(q)'
    <3>1. Sourced(q) /\ Paid(q) /\ Replays(q)
      BY DEF ChainInv
    <3>2. Sourced(q)'
      BY <1>1, <2>5, <3>1 DEF Sourced, Mid, Working
    <3>3. Paid(q)'
      BY <1>1, <2>3, <2>5, <3>1 DEF Paid
    <3>4. CASE q # r
      BY <1>1, <2>5, <3>1, <3>2, <3>3, <3>4 DEF Replays, Owns, OneEach, PlanPrefix, Found
    <3>5. CASE q = r
      <4>1. /\ OneEach(resume[r]) /\ PlanPrefix(resume[r])
            /\ \A a \in resume[r] : a.op < next[r] => a \in ids[r]
        BY <1>2, <3>1, <3>5 DEF Replays
      <4>2. Found(r, next[r])' = {}
        BY <1>1 DEF Found
      <4>3. Replays(r)'
        BY <1>1, <1>2, <2>5, <4>1, <4>2 DEF Replays, OneEach, PlanPrefix
      <4> QED
        BY <3>2, <3>3, <3>5, <4>3
    <3> QED
      BY <3>4, <3>5
  <2>7. ASSUME NEW d \in Dir PROVE PlanPrefix(files[d])' /\ files'[d] \subseteq ledger' /\ Written(d)'
    <3>1. PlanPrefix(files[d]) /\ files[d] \subseteq ledger /\ Written(d)
      BY DEF ChainInv
    <3>2. \A q \in Run : pc[q] \in {"succeeded", "failed"} => q # r
      BY <1>1
    <3>3. Written(d)'
      BY <1>1, <2>5, <3>1, <3>2, WrittenStays
    <3> QED
      BY <1>1, <2>3, <3>1, <3>3 DEF PlanPrefix
  <2>8. OneBuyer'
    <3>1. Bought(r)' \subseteq Bought(r) \cup {c} /\ \A q \in Run \ {r} : Bought(q)' = Bought(q)
      BY <1>1, <2>5 DEF Bought
    <3>2. ASSUME NEW q \in Run PROVE Bought(q) \cap {c} = {}
      <4>1. Paid(q)
        BY DEF ChainInv
      <4>2. Bought(q) \subseteq ledger
        BY <4>1 DEF Paid, Bought
      <4> QED
        BY <2>2, <4>2
    <3> QED
      BY <3>1, <3>2, BuyerStays DEF ChainInv
  <2> QED
    BY <2>6, <2>7, <2>8 DEF ChainInv
<1> QED
  BY <1>3, <1>4

\* The manifest is written: it tells what its run has in memory.
LEMMA SealChain ==
    ASSUME NEW r \in Run, IInv, ChainInv, WriteSuccessManifest(r) \/ WriteFailureManifest(r)
    PROVE  ChainInv'
<1>1. PICK status \in {"SUCCEEDED", "FAILED"} :
        /\ manifest' = [manifest EXCEPT ![dir[r]] = ManifestContent(r, status)]
        /\ pc[r] \in {"manifest", "failing"}
        /\ \E to \in {"succeeded", "failed"} : pc' = [pc EXCEPT ![r] = to]
        /\ UNCHANGED <<files, ledger, dir, src, req, resume, ids, next, pending, executed, replayed>>
  BY DEF WriteSuccessManifest, WriteFailureManifest, WriteManifest, Goto, given, opLog
<1>2. Owns(r) /\ Live(r)
  BY <1>1 DEF Owns, Live, Working
<1>3. /\ dir[r] \in Dir /\ manifest \in [Dir -> Manifest \cup {NoManifest}]
      /\ artifacts[dir[r]] \in SUBSET Artifact /\ files[dir[r]] = ids[r]
  BY <1>2, OwnerFacts DEF IInv, TypeOK, RunView, OwnerView
<1>4. /\ manifest'[dir[r]] = ManifestContent(r, status)
      /\ \A d \in Dir \ {dir[r]} : manifest'[d] = manifest[d]
  BY <1>1, <1>3
<1>5. ManifestContent(r, status) # NoManifest
  <2>1. ManifestContent(r, status) \in Manifest
    BY <1>3 DEF ManifestContent, Manifest, IInv, TypeOK
  <2> QED
    BY <2>1, SentinelAssumption
<1>6. /\ pc'[r] \in {"succeeded", "failed"} /\ \A q \in Run \ {r} : pc'[q] = pc[q]
  BY <1>1 DEF IInv, TypeOK
<1>7. ASSUME NEW q \in Run PROVE Sourced(q)' /\ Replays(q)' /\ Paid(q)'
  <2>1. Sourced(q) /\ Replays(q) /\ Paid(q) /\ src[q] \in Dir \cup {NoDir}
    BY DEF ChainInv, IInv, TypeOK
  <2>2. Sourced(q)'
    BY <1>1, <1>4, <1>5, <1>6, <2>1 DEF Sourced, Mid, Working
  <2>3. Paid(q)'
    BY <1>1, <2>1 DEF Paid
  <2>4. CASE q # r
    BY <1>1, <1>6, <2>1, <2>2, <2>3, <2>4 DEF Replays, Owns, OneEach, PlanPrefix, Found
  <2>5. CASE q = r
    BY <1>6, <2>2, <2>3, <2>5 DEF Replays, Owns, Working
  <2> QED
    BY <2>4, <2>5
<1>8. ASSUME NEW d \in Dir PROVE PlanPrefix(files[d])' /\ files'[d] \subseteq ledger' /\ Written(d)'
  <2>1. PlanPrefix(files[d]) /\ files[d] \subseteq ledger /\ Written(d)
    BY DEF ChainInv
  <2>2. CASE d # dir[r]
    <3>1. \A q \in Run : pc[q] \in {"succeeded", "failed"} => q # r
      BY <1>1
    <3>2. Written(d)'
      BY <1>1, <1>4, <1>6, <2>1, <2>2, <3>1, WrittenStays
    <3> QED
      BY <1>1, <2>1, <3>2 DEF PlanPrefix
  <2>3. CASE d = dir[r]
    <3>1. /\ manifest'[d].sourceIds = resume[r] /\ manifest'[d].replayed = replayed[r]
          /\ manifest'[d].executed = executed[r]
      BY <1>4, <2>3 DEF ManifestContent
    <3>2. executed[r] # {} => resume[r] \subseteq ids[r]
      BY <1>2 DEF ChainInv, Replays
    <3>3. Written(d)'
      BY <1>1, <1>3, <1>6, <2>3, <3>1, <3>2 DEF Written
    <3> QED
      BY <1>1, <2>1, <3>3 DEF PlanPrefix
  <2> QED
    BY <2>2, <2>3
<1>9. OneBuyer'
  <2>1. \A q \in Run : Bought(q)' = Bought(q)
    BY <1>1 DEF Bought
  <2> QED
    BY <2>1 DEF ChainInv, OneBuyer
<1> QED
  BY <1>7, <1>8, <1>9 DEF ChainInv

-----------------------------------------------------------------------------

\* Every step preserves the invariant of the chain.
LEMMA ChainStep == IInv /\ ChainInv /\ [Next]_vars => ChainInv'
<1> SUFFICES ASSUME IInv, ChainInv, [Next]_vars PROVE ChainInv'
  OBVIOUS
<1>0. TypeInv
  BY IInvByParts
<1>1. CASE UNCHANGED vars
  BY <1>1 DEF vars, local, disk, given, opLog, ChainInv, Sourced, Replays, Paid, Written, OneBuyer,
              Bought, Owns, OneEach, PlanPrefix, Found
<1>2. ASSUME NEW r \in Run, NEW d \in Dir, NEW s \in Dir \cup {NoDir}, Start(r, d, s)
      PROVE  ChainInv'
  BY <1>2, StartChain
<1>3. ASSUME NEW r \in Run, Step(r) \/ Crash(r) PROVE ChainInv'
  <2>1. CASE \/ ClaimOutput(r) \/ BuildRuntime(r) \/ WriteSuccessRaises(r) \/ CheckCohort(r)
             \/ Analyse(r) \/ WriteReport(r) \/ ValidateSchema(r) \/ DeliverMarkdown(r)
             \/ DeliverXlsx(r) \/ StageRaises(r) \/ HandlerRaises(r) \/ Crash(r)
    BY <1>0, <2>1, Moves, MoveChain
  <2>2. CASE LoadResumeSource(r)
    BY <2>2, LoadChain
  <2>3. CASE ReplayOperation(r)
    BY <2>3, ReplayChain
  <2>4. CASE CheckpointResponse(r)
    BY <2>4, CheckpointChain
  <2>5. CASE \E o \in Op : \/ ProviderFails(r, o)
                           \/ \E e \in Evidence, b \in BOOLEAN : ProviderAnswers(r, o, e, b)
    BY <2>5, CallChain
  <2>6. CASE WriteSuccessManifest(r) \/ WriteFailureManifest(r)
    BY <2>6, SealChain
  <2> QED
    BY <1>3, <2>1, <2>2, <2>3, <2>4, <2>5, <2>6 DEF Step, Acquire, Deliver
<1>4. CASE AllEnded
  BY <1>1, <1>4 DEF AllEnded
<1> QED
  BY <1>1, <1>2, <1>3, <1>4 DEF Next

LEMMA ChainStarts == Init => ChainInv
<1> SUFFICES ASSUME Init PROVE ChainInv
  OBVIOUS
<1>1. ASSUME NEW r \in Run
      PROVE  /\ pc[r] = "idle" /\ ids[r] = {} /\ resume[r] = {} /\ executed[r] = {}
             /\ pending[r] = NoReceipt
  BY DEF Init
<1>2. ASSUME NEW r \in Run PROVE Sourced(r) /\ Replays(r) /\ Paid(r) /\ Bought(r) = {}
  BY <1>1 DEF Sourced, Mid, Replays, Owns, Working, Paid, Bought
<1>3. ASSUME NEW d \in Dir PROVE PlanPrefix(files[d]) /\ files[d] \subseteq ledger /\ Written(d)
  <2>1. files[d] = {} /\ manifest[d] = NoManifest
    BY DEF Init
  <2> QED
    BY <2>1 DEF PlanPrefix, Written
<1> QED
  BY <1>2, <1>3 DEF ChainInv, OneBuyer

\* The invariant of a chain of recoveries holds as long as no directory is given
\* to two live runs.
LEMMA ChainAlways == Exclusive => (Spec => [](IInv /\ ChainInv))
<1> SUFFICES ASSUME Exclusive PROVE Spec => [](IInv /\ ChainInv)
  OBVIOUS
<1>1. Init => IInv /\ ChainInv
  BY InvInit, ChainStarts
<1>2. IInv /\ ChainInv /\ [Next]_vars => (IInv /\ ChainInv)'
  BY InvStep, ChainStep
<1> QED
  BY <1>1, <1>2, PTL DEF Spec

-----------------------------------------------------------------------------

\* What is sent to the provider is missing in the source, as the source is at the
\* time of the call, and not only as it was when it was read.
THEOREM OnlyMissingIsSent == Exclusive => (Spec => OnlyMissingOperationsAreSent)
<1> SUFFICES ASSUME Exclusive PROVE Spec => OnlyMissingOperationsAreSent
  OBVIOUS
<1>1. ASSUME IInv, ChainInv, [Next]_vars, NEW r \in Run, NEW o \in sent'[r] \ sent[r],
             src[r] # NoDir, NEW c \in files[src[r]]
      PROVE  c.op # o
  <2>1. PICK q \in Run : \E p \in Op : Reaches(q, p)
    BY <1>1
    DEF Next, vars, local, opLog, given, disk, Start, Step, Acquire, Deliver, ClaimOutput,
        LoadResumeSource, BuildRuntime, ReplayOperation, ProviderFails, ProviderAnswers,
        CheckpointResponse, WriteSuccessRaises, CheckCohort, Analyse, WriteReport, ValidateSchema,
        DeliverMarkdown, DeliverXlsx, WriteArtifact, WriteSuccessManifest, WriteFailureManifest,
        WriteManifest, StageRaises, HandlerRaises, Crash, AllEnded
  <2>2. PICK p \in Op : Reaches(q, p)
    BY <2>1
  <2>3. q = r /\ o = p
    BY <1>1, <2>2 DEF Reaches, IInv, TypeOK
  <2>4. pc[r] = "acquire" /\ Found(r, o) = {}
    BY <2>2, <2>3 DEF Reaches
  <2>5. files[src[r]] = resume[r]
    BY <1>1, <2>4 DEF ChainInv, Sourced, Mid, Working
  <2> QED
    BY <1>1, <2>4, <2>5 DEF Found
<1>2. IInv /\ ChainInv /\ [Next]_vars =>
        [\A r \in Run : \A o \in sent'[r] \ sent[r] :
           src[r] # NoDir => \A c \in files[src[r]] : c.op # o]_vars
  BY <1>1
<1>3. Spec => [](IInv /\ ChainInv)
  BY ChainAlways
<1> QED
  BY <1>2, <1>3, PTL DEF Spec, OnlyMissingOperationsAreSent

\* A resumed run that has called the provider leaves a directory with everything
\* its source held, so that a recovery from it loses nothing.
THEOREM RecoveryOfARecovery == Exclusive => (Spec => []SecondRecoveryLosesNothing)
<1> SUFFICES ASSUME Exclusive PROVE Spec => []SecondRecoveryLosesNothing
  OBVIOUS
<1>1. ChainInv => SecondRecoveryLosesNothing
  BY DEF ChainInv, Written, SecondRecoveryLosesNothing
<1>2. Spec => [](IInv /\ ChainInv)
  BY ChainAlways
<1> QED
  BY <1>1, <1>2, PTL

\* What is checkpointed was answered by the provider, and an answer that two sealed
\* directories hold was replayed by one of the runs that wrote them.
THEOREM AnswersAreBoughtOnce == Exclusive => (Spec => []CheckpointsAreProviderAnswers)
<1> SUFFICES ASSUME Exclusive PROVE Spec => []CheckpointsAreProviderAnswers
  OBVIOUS
<1>1. ASSUME ChainInv PROVE CheckpointsAreProviderAnswers
  <2>1. \A d \in Dir : files[d] \subseteq ledger
    BY <1>1 DEF ChainInv
  <2>2. ASSUME NEW d \in Dir, NEW e \in Dir, d # e, manifest[d] # NoManifest,
               manifest[e] # NoManifest, NEW c \in files[d] \cap files[e]
        PROVE  \/ c.op \in manifest[d].replayed /\ c \in manifest[d].sourceIds
               \/ c.op \in manifest[e].replayed /\ c \in manifest[e].sourceIds
    <3>1. PICK q \in Run : /\ dir[q] = d /\ files[d] = ids[q]
                           /\ manifest[d].sourceIds = resume[q]
                           /\ manifest[d].replayed = replayed[q]
      BY <1>1, <2>2 DEF ChainInv, Written
    <3>2. PICK r \in Run : /\ dir[r] = e /\ files[e] = ids[r]
                           /\ manifest[e].sourceIds = resume[r]
                           /\ manifest[e].replayed = replayed[r]
      BY <1>1, <2>2 DEF ChainInv, Written
    <3>3. Bought(q) \cap Bought(r) = {}
      BY <1>1, <2>2, <3>1, <3>2 DEF ChainInv, OneBuyer
    <3> QED
      BY <2>2, <3>1, <3>2, <3>3 DEF Bought
  <2> QED
    BY <2>1, <2>2 DEF CheckpointsAreProviderAnswers
<1>2. Spec => [](IInv /\ ChainInv)
  BY ChainAlways
<1> QED
  BY <1>1, <1>2, PTL
-----------------------------------------------------------------------------
(* Every run runs out of steps: what the liveness of a run rests on,       *)
(* beside the fairness of its process.                                     *)

\* The stages from p to the end of a run, one pass through the plan counted once.
StagesLeft(p) ==
    CASE p = "claim"      -> 12
      [] p = "load"       -> 11
      [] p = "runtime"    -> 10
      [] p = "acquire"    -> 9
      [] p = "checkpoint" -> 8
      [] p = "analyse"    -> 7
      [] p = "report"     -> 6
      [] p = "schema"     -> 5
      [] p = "markdown"   -> 4
      [] p = "xlsx"       -> 3
      [] p = "manifest"   -> 2
      [] p = "failing"    -> 1
      [] OTHER            -> 0

\* An operation takes two steps at most: it is bought, and its answer checkpointed.
StepsLeft(r) == StagesLeft(pc[r]) + 2 * (NumOps + 1 - next[r])

\* A step of a run uses up one of its steps at least, and no step of anything else,
\* a crash included, gives it any back.
RunsRunOut ==
    [][\A r \in Run :
         /\ Step(r) => StepsLeft(r)' < StepsLeft(r)
         /\ pc[r] # "idle" => StepsLeft(r)' <= StepsLeft(r)]_vars

LEMMA StagesLeftType == ASSUME NEW p PROVE StagesLeft(p) \in 0..12
BY DEF StagesLeft

LEMMA StepsLeftType == ASSUME TypeOK, NEW r \in Run PROVE StepsLeft(r) \in 0..(12 + 2 * NumOps)
<1>1. next[r] \in 1..(NumOps + 1)
  BY DEF TypeOK
<1> QED
  BY <1>1, StagesLeftType, NumOpsAssumption DEF StepsLeft

\* A run that goes on to a later stage, or to a checkpoint of the next operation.
LEMMA FewerLeft ==
    ASSUME TypeOK, TypeOK', NEW r \in Run,
           \/ next'[r] = next[r] /\ StagesLeft(pc'[r]) < StagesLeft(pc[r])
           \/ next'[r] = next[r] + 1 /\ StagesLeft(pc'[r]) <= StagesLeft(pc[r]) + 1
    PROVE  StepsLeft(r)' < StepsLeft(r)
<1>1. next[r] \in Nat /\ next'[r] \in Nat
  BY NumOpsAssumption DEF TypeOK
<1>2. StagesLeft(pc[r]) \in Nat /\ StagesLeft(pc'[r]) \in Nat
  BY StagesLeftType
<1>3. StepsLeft(r)' = StagesLeft(pc'[r]) + 2 * (NumOps + 1 - next'[r])
  BY DEF StepsLeft
<1> QED
  BY <1>1, <1>2, <1>3, NumOpsAssumption DEF StepsLeft

LEMMA StepUsesUp ==
    ASSUME TypeOK, TypeOK', NEW r \in Run, Step(r)
    PROVE  StepsLeft(r)' < StepsLeft(r)
<1> DEFINE Later == /\ next'[r] = next[r]
                    /\ StagesLeft(pc'[r]) < StagesLeft(pc[r])
           Stored == /\ next'[r] = next[r] + 1
                     /\ StagesLeft(pc'[r]) <= StagesLeft(pc[r]) + 1
<1> SUFFICES Later \/ Stored
  BY FewerLeft
<1>0. pc \in [Run -> Working \cup Ended \cup {"idle"}] /\ next \in [Run -> 1..(NumOps + 1)]
  BY DEF TypeOK
<1> USE <1>0 DEF Goto, StagesLeft
<1>1. CASE ClaimOutput(r) \/ LoadResumeSource(r) \/ BuildRuntime(r)
  BY <1>1 DEF ClaimOutput, LoadResumeSource, BuildRuntime
<1>2. CASE ReplayOperation(r)
  BY <1>2 DEF ReplayOperation, WriteSuccess
<1>3. ASSUME NEW o \in Op, ProviderFails(r, o) PROVE Later
  BY <1>3 DEF ProviderFails, Reaches
<1>4. ASSUME NEW o \in Op, NEW e \in Evidence, NEW b \in BOOLEAN, ProviderAnswers(r, o, e, b)
      PROVE  Later
  BY <1>4 DEF ProviderAnswers, Reaches
<1>5. CASE CheckpointResponse(r)
  BY <1>5 DEF CheckpointResponse, WriteSuccess
<1>6. CASE WriteSuccessRaises(r) \/ CheckCohort(r)
  BY <1>6 DEF WriteSuccessRaises, CheckCohort
<1>7. CASE Deliver(r)
  BY <1>7 DEF Deliver, Analyse, WriteReport, ValidateSchema, DeliverMarkdown, DeliverXlsx,
              WriteArtifact, WriteSuccessManifest, WriteManifest
<1>8. CASE StageRaises(r) \/ WriteFailureManifest(r) \/ HandlerRaises(r)
  BY <1>8 DEF StageRaises, WriteFailureManifest, WriteManifest, HandlerRaises
<1> QED
  BY <1>1, <1>2, <1>3, <1>4, <1>5, <1>6, <1>7, <1>8 DEF Step, Acquire

\* What one run does leaves the stage and the position of another as they are.
LEMMA OthersStay ==
    ASSUME NEW q \in Run, NEW r \in Run, q # r, TypeOK,
           \/ Step(q) \/ Crash(q) \/ \E d \in Dir, s \in Dir \cup {NoDir} : Start(q, d, s)
    PROVE  pc'[r] = pc[r] /\ next'[r] = next[r]
BY DEF TypeOK, Goto, Step, Acquire, Deliver, ClaimOutput, LoadResumeSource, BuildRuntime,
       ReplayOperation, ProviderFails, ProviderAnswers, Reaches, WriteSuccess,
       CheckpointResponse, WriteSuccessRaises, CheckCohort, Analyse, WriteReport,
       ValidateSchema, DeliverMarkdown, DeliverXlsx, WriteArtifact, WriteSuccessManifest,
       WriteFailureManifest, WriteManifest, StageRaises, HandlerRaises, Crash, Start

\* Whatever fails, is replayed or is bought, a run takes at most 12 + 2 * NumOps steps: no
\* failure sends it back to a stage it has left.
THEOREM RunsTakeBoundedSteps ==
    Spec => RunsRunOut /\ [](\A r \in Run : StepsLeft(r) \in 0..(12 + 2 * NumOps))
<1>1. ASSUME TypeOK, TypeOK', [Next]_vars, NEW r \in Run, pc[r] # "idle"
      PROVE  StepsLeft(r)' <= StepsLeft(r)
  <2>1. StepsLeft(r) \in Nat /\ StepsLeft(r)' \in Nat
    <3>1. StepsLeft(r) \in 0..(12 + 2 * NumOps)
      BY <1>1, StepsLeftType
    <3>2. next'[r] \in 1..(NumOps + 1)
      BY <1>1 DEF TypeOK
    <3>3. StagesLeft(pc'[r]) \in 0..12
      BY StagesLeftType
    <3>4. StepsLeft(r)' \in Nat
      BY <3>2, <3>3, NumOpsAssumption DEF StepsLeft
    <3> QED BY <3>1, <3>4, NumOpsAssumption
  <2>2. CASE pc'[r] = pc[r] /\ next'[r] = next[r]
    BY <2>1, <2>2 DEF StepsLeft
  <2>3. CASE Step(r)
    BY <1>1, <2>1, <2>3, StepUsesUp
  <2>4. CASE Crash(r)
    <3>1. pc'[r] = "crashed" /\ pc[r] \in Working /\ next'[r] = next[r]
      BY <1>1, <2>4 DEF Crash, Goto, Live, TypeOK
    <3>2. StagesLeft(pc'[r]) < StagesLeft(pc[r])
      BY <3>1 DEF StagesLeft, Working
    <3> QED BY <1>1, <2>1, <3>1, <3>2, FewerLeft
  <2>5. CASE UNCHANGED vars
    BY <2>2, <2>5 DEF vars, local
  <2>6. ASSUME NEW q \in Run,
               \/ Step(q) \/ Crash(q) \/ \E d \in Dir, s \in Dir \cup {NoDir} : Start(q, d, s)
        PROVE  StepsLeft(r)' <= StepsLeft(r)
    <3>1. CASE q # r
      BY <1>1, <2>2, <2>6, <3>1, OthersStay
    <3>2. CASE q = r
      BY <1>1, <2>3, <2>4, <2>6, <3>2 DEF Start
    <3> QED BY <3>1, <3>2
  <2> QED
    BY <1>1, <2>5, <2>6 DEF Next, AllEnded
<1>2. TypeOK /\ TypeOK' /\ [Next]_vars =>
        [\A r \in Run :
           /\ Step(r) => StepsLeft(r)' < StepsLeft(r)
           /\ pc[r] # "idle" => StepsLeft(r)' <= StepsLeft(r)]_vars
  BY <1>1, StepUsesUp
<1>3. TypeOK => \A r \in Run : StepsLeft(r) \in 0..(12 + 2 * NumOps)
  BY StepsLeftType
<1>4. Spec => []TypeOK
  BY TypeCorrect
<1>5. Spec => RunsRunOut
  BY <1>2, <1>4, PTL DEF Spec, RunsRunOut
<1>6. Spec => [](\A r \in Run : StepsLeft(r) \in 0..(12 + 2 * NumOps))
  BY <1>3, <1>4, PTL
<1> QED
  BY <1>5, <1>6
=============================================================================
