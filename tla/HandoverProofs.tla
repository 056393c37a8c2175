---------------------------- MODULE HandoverProofs ----------------------------
(***************************************************************************)
(* The properties of the hand-over for any number of processes, commands   *)
(* and edits.  The argument: the exclusive creation of the directory lets  *)
(* one process into it for good; that process passes its stages in order,  *)
(* each leaving a whole file behind; and a file that a process has open is *)
(* torn, open by nobody else, and has been returned by nobody.             *)
(***************************************************************************)
EXTENDS Handover, TLAPS

\* The stages of a process, and those inside the workflow's directory.
Stage == {"idle", "look", "claim", "mkdir", "task", "market_evidence", "handoff",
          "hand-off", "wait", "read-back", "readback", "report", "result", "failure",
          "receive", "intake", "consume", "offer_readback", "snapshot"}
InDirectory == {"task", "market_evidence", "handoff", "hand-off", "wait", "read-back",
                "readback", "report", "result", "failure"}
Busy(p) == proc[p].pc \in InDirectory

State == [pc : Stage, open : BOOLEAN, id : Nat, methods : 0..MaxEdits]
Types ==
    /\ evidence \in Nat /\ methods \in 0..edits
    /\ starts \in Nat /\ edits \in 0..MaxEdits /\ consumed \in Nat
    /\ proc \in [Process -> State]
    /\ DOMAIN file = Name
    /\ DOMAIN returned = Name

\* One process is in the directory, none before it has been made.
Exclusive ==
    /\ \A p \in Process : Busy(p) => made
    /\ \A p, q \in Process : Busy(p) /\ Busy(q) => p = q

\* The consumer has not been started before the hand-off.
NotYet == {"task", "market_evidence", "handoff", "hand-off"}
Once ==
    /\ consumed <= 1
    /\ consumed # 0 => made
    /\ \A p \in Process : proc[p].pc \in NotYet => consumed = 0

\* A file that is open is torn, and open in one process.
Opened ==
    /\ \A p \in Process : proc[p].open => Writes(p) /\ file[proc[p].pc] = Torn
    /\ \A p, q \in Process : proc[p].open /\ proc[q].open /\ proc[p].pc = proc[q].pc => p = q

\* The report, which alone may be written over, is not there when it is opened, and
\* nothing is done after a failure has been recorded.
BeforeReport == {"task", "market_evidence", "handoff", "hand-off", "wait", "read-back", "readback"}
Unwritten ==
    /\ ~made => file["report"] = Absent /\ file["failure"] = Absent
    /\ \A p \in Process : proc[p].pc \in BeforeReport \/ (At(p, "report") /\ ~proc[p].open)
                            => file["report"] = Absent
    /\ \A p \in Process : file["failure"] # Absent /\ Busy(p) => At(p, "failure")

\* The stages at which each file is behind the process that writes it.
Past == [task |-> {"market_evidence", "handoff", "hand-off", "wait", "read-back",
                   "readback", "report", "result"},
         market_evidence |-> {"handoff", "hand-off", "wait", "read-back", "readback",
                              "report", "result"},
         handoff |-> {"hand-off", "wait", "read-back", "readback", "report", "result"},
         pds_response |-> {"readback", "report", "result"},
         readback |-> {"report", "result"},
         report |-> {"result"}]
Progress ==
    /\ file["market_evidence"] \in Nat => file["market_evidence"] <= evidence
    /\ \A p \in Process : \A a \in Artifact : proc[p].pc \in Past[a] => file[a] \in Nat
    /\ \A p \in Process : proc[p].pc \in Past["pds_response"] =>
         file["pds_response"] = Right /\ file["market_evidence"] = 0

Bound ==
    Whole("result") =>
      /\ \A p \in Process : ~Busy(p)
      /\ made
      /\ file["result"].artifacts = [a \in Artifact |-> file[a]]
      /\ \A a \in Artifact : file[a] \in Nat
      /\ file["market_evidence"] = 0 /\ file["pds_response"] = Right
      /\ file["failure"] = Absent

Returns == \A n \in Name : returned[n] \subseteq {file[n]} \ {Absent, Torn}

HandInv == /\ Types /\ Exclusive /\ Once /\ Opened /\ Unwritten /\ Progress /\ Bound /\ Returns

\* The moves of a process keep its type.
LEMMA MoveTypes ==
    ASSUME proc \in [Process -> State], NEW p \in Process
    PROVE /\ \A s \in Stage : Goto(p, s) => proc' \in [Process -> State]
          /\ Leave(p) => proc' \in [Process -> State]
          /\ [proc EXCEPT ![p].open = TRUE] \in [Process -> State]
<1>1. Idle \in State
  BY BoundAssumption DEF Idle, State, Stage
<1>2. proc[p] \in State
  OBVIOUS
<1>3. \A s \in Stage : [[proc[p] EXCEPT !.pc = s] EXCEPT !.open = FALSE] \in State
  BY <1>2 DEF State
<1>4. [proc[p] EXCEPT !.open = TRUE] \in State
  BY <1>2 DEF State
<1>5. ASSUME NEW s \in Stage, Goto(p, s) PROVE proc' \in [Process -> State]
  <2>1. proc' = [proc EXCEPT ![p] = [[proc[p] EXCEPT !.pc = s] EXCEPT !.open = FALSE]]
    BY <1>5 DEF Goto
  <2> QED
    BY <2>1, <1>3
<1>6. [proc EXCEPT ![p].open = TRUE] \in [Process -> State]
  BY <1>4
<1> QED
  BY <1>1, <1>5, <1>6 DEF Leave

LEMMA InitHand == Init => HandInv
<1> SUFFICES ASSUME Init PROVE HandInv
  OBVIOUS
<1> USE DEF Init
<1>1. Types
  BY BoundAssumption DEF Types, Idle, State, Stage
<1>2. Exclusive /\ Once /\ Opened /\ Unwritten
  BY DEF Exclusive, Once, Opened, Unwritten, Idle, Busy, InDirectory, NotYet, BeforeReport,
         At, Name, Managed, Artifact
<1>3. Progress
  BY SentinelAssumption DEF Progress, Idle, Past, Name, Managed, Artifact
<1>4. Bound /\ Returns
  BY DEF Bound, Returns, Whole, Name, Managed, Artifact
<1> QED
  BY <1>1, <1>2, <1>3, <1>4 DEF HandInv

LEMMA TypesStep == HandInv /\ [Next]_vars => Types'
<1> SUFFICES ASSUME HandInv, [Next]_vars PROVE Types'
  OBVIOUS
<1> proc \in [Process -> State]
  BY DEF HandInv, Types
<1> USE SentinelAssumption, BoundAssumption DEF HandInv, Types, Return, Raise, world, Stage
<1>1. ASSUME NEW p \in Process, Start(p) PROVE Types'
  BY <1>1, MoveTypes DEF Start, At, State
<1>2. ASSUME NEW p \in Process, Open(p) PROVE Types'
  <2>1. DOMAIN file' = Name
    BY <1>2 DEF Open
  <2>2. proc' \in [Process -> State]
    <3>1. \A s \in Stage : Goto(p, s) => proc' \in [Process -> State]
      BY MoveTypes
    <3>2. /\ Leave(p) => proc' \in [Process -> State]
          /\ [proc EXCEPT ![p].open = TRUE] \in [Process -> State]
      BY MoveTypes
    <3>3. CASE proc' = [proc EXCEPT ![p].open = TRUE]
      BY <3>2, <3>3
    <3>4. CASE Raise(p)
      BY <3>1, <3>2, <3>4
    <3> QED
      BY <1>2, <3>3, <3>4 DEF Open
  <2> QED
    BY <1>2, <2>1, <2>2 DEF Open
<1>3. ASSUME NEW p \in Process, Fill(p) PROVE Types'
  BY <1>3, MoveTypes DEF Fill, After
<1>4. ASSUME NEW p \in Process, WriteRaises(p) PROVE Types'
  BY <1>4, MoveTypes DEF WriteRaises
<1>5. ASSUME NEW p \in Process, Look(p) PROVE Types'
  BY <1>5, MoveTypes DEF Look
<1>6. ASSUME NEW p \in Process, Claim(p) PROVE Types'
  BY <1>6, MoveTypes DEF Claim
<1>7. ASSUME NEW p \in Process, MakeDirectory(p) PROVE Types'
  BY <1>7, MoveTypes DEF MakeDirectory
<1>8. ASSUME NEW p \in Process, HandOff(p) PROVE Types'
  <2>1. proc' \in [Process -> State]
    BY <1>8, MoveTypes DEF HandOff
  <2>2. consumed' \in Nat
    BY <1>8 DEF HandOff
  <2> QED
    BY <1>8, <2>1, <2>2 DEF HandOff
<1>9. ASSUME NEW p \in Process, ConsumerEnds(p) PROVE Types'
  BY <1>9, MoveTypes DEF ConsumerEnds
<1>10. ASSUME NEW p \in Process, ConsumerTimesOut(p) PROVE Types'
  BY <1>10, MoveTypes DEF ConsumerTimesOut
<1>11. ASSUME NEW p \in Process, ConsumerReturns(p) PROVE Types'
  BY <1>11, MoveTypes DEF ConsumerReturns
<1>12. ASSUME NEW p \in Process, ReadBack(p) PROVE Types'
  BY <1>12, MoveTypes DEF ReadBack
<1>13. ASSUME NEW p \in Process, Receive(p) PROVE Types'
  BY <1>13, MoveTypes DEF Receive
<1>14. ASSUME NEW p \in Process, Consume(p) PROVE Types'
  BY <1>14, MoveTypes DEF Consume
<1>15. ASSUME NEW p \in Process, Kill(p) PROVE Types'
  BY <1>15, MoveTypes DEF Kill
<1>16. ASSUME Edit PROVE Types'
  BY <1>16 DEF Edit
<1>17. CASE UNCHANGED vars
  BY <1>17 DEF vars, world
<1> QED
  BY <1>1, <1>2, <1>3, <1>4, <1>5, <1>6, <1>7, <1>8, <1>9, <1>10, <1>11, <1>12, <1>13, <1>14, <1>15, <1>16, <1>17 DEF Next, Quiet

LEMMA ExclusiveStep == HandInv /\ [Next]_vars => Exclusive'
<1> SUFFICES ASSUME HandInv, [Next]_vars PROVE Exclusive'
  OBVIOUS
<1> USE SentinelAssumption, BoundAssumption DEF HandInv, Types, State, Exclusive, At, Goto, Leave, Return, Whole, Raise, InRun, Writes, Idle, world, Busy, InDirectory, Stage, Name, Managed, Artifact, After, Removes, Free, Content, Accepted, Reusable
<1>1. ASSUME NEW p \in Process, Start(p) PROVE Exclusive'
  BY <1>1 DEF Start
<1>2. ASSUME NEW p \in Process, Open(p) PROVE Exclusive'
  <2>1. \A q \in Process : Busy(q)' => Busy(q)
    BY <1>2 DEF Open
  <2> QED
    BY <1>2, <2>1 DEF Open
<1>3. ASSUME NEW p \in Process, Fill(p) PROVE Exclusive'
  BY <1>3 DEF Fill
<1>4. ASSUME NEW p \in Process, WriteRaises(p) PROVE Exclusive'
  BY <1>4 DEF WriteRaises
<1>5. ASSUME NEW p \in Process, Look(p) PROVE Exclusive'
  BY <1>5 DEF Look
<1>6. ASSUME NEW p \in Process, Claim(p) PROVE Exclusive'
  BY <1>6 DEF Claim
<1>7. ASSUME NEW p \in Process, MakeDirectory(p) PROVE Exclusive'
  BY <1>7 DEF MakeDirectory
<1>8. ASSUME NEW p \in Process, HandOff(p) PROVE Exclusive'
  BY <1>8 DEF HandOff
<1>9. ASSUME NEW p \in Process, ConsumerEnds(p) PROVE Exclusive'
  BY <1>9 DEF ConsumerEnds
<1>10. ASSUME NEW p \in Process, ConsumerTimesOut(p) PROVE Exclusive'
  BY <1>10 DEF ConsumerTimesOut
<1>11. ASSUME NEW p \in Process, ConsumerReturns(p) PROVE Exclusive'
  BY <1>11 DEF ConsumerReturns
<1>12. ASSUME NEW p \in Process, ReadBack(p) PROVE Exclusive'
  BY <1>12 DEF ReadBack
<1>13. ASSUME NEW p \in Process, Receive(p) PROVE Exclusive'
  BY <1>13 DEF Receive
<1>14. ASSUME NEW p \in Process, Consume(p) PROVE Exclusive'
  BY <1>14 DEF Consume
<1>15. ASSUME NEW p \in Process, Kill(p) PROVE Exclusive'
  BY <1>15 DEF Kill
<1>16. ASSUME Edit PROVE Exclusive'
  BY <1>16 DEF Edit
<1>17. CASE UNCHANGED vars
  BY <1>17 DEF vars, world
<1> QED
  BY <1>1, <1>2, <1>3, <1>4, <1>5, <1>6, <1>7, <1>8, <1>9, <1>10, <1>11, <1>12, <1>13, <1>14, <1>15, <1>16, <1>17 DEF Next, Quiet

LEMMA OnceStep == HandInv /\ [Next]_vars => Once'
<1> SUFFICES ASSUME HandInv, [Next]_vars PROVE Once'
  OBVIOUS
<1> USE SentinelAssumption, BoundAssumption DEF HandInv, Types, State, Exclusive, Once, NotYet, At, Goto, Leave, Return, Whole, Raise, InRun, Writes, Idle, world, Busy, InDirectory, Stage, Name, Managed, Artifact, After, Removes, Free, Content, Accepted, Reusable
<1>1. ASSUME NEW p \in Process, Start(p) PROVE Once'
  BY <1>1 DEF Start
<1>2. ASSUME NEW p \in Process, Open(p) PROVE Once'
  BY <1>2 DEF Open
<1>3. ASSUME NEW p \in Process, Fill(p) PROVE Once'
  BY <1>3 DEF Fill
<1>4. ASSUME NEW p \in Process, WriteRaises(p) PROVE Once'
  BY <1>4 DEF WriteRaises
<1>5. ASSUME NEW p \in Process, Look(p) PROVE Once'
  BY <1>5 DEF Look
<1>6. ASSUME NEW p \in Process, Claim(p) PROVE Once'
  BY <1>6 DEF Claim
<1>7. ASSUME NEW p \in Process, MakeDirectory(p) PROVE Once'
  BY <1>7 DEF MakeDirectory
<1>8. ASSUME NEW p \in Process, HandOff(p) PROVE Once'
  BY <1>8 DEF HandOff
<1>9. ASSUME NEW p \in Process, ConsumerEnds(p) PROVE Once'
  BY <1>9 DEF ConsumerEnds
<1>10. ASSUME NEW p \in Process, ConsumerTimesOut(p) PROVE Once'
  BY <1>10 DEF ConsumerTimesOut
<1>11. ASSUME NEW p \in Process, ConsumerReturns(p) PROVE Once'
  BY <1>11 DEF ConsumerReturns
<1>12. ASSUME NEW p \in Process, ReadBack(p) PROVE Once'
  BY <1>12 DEF ReadBack
<1>13. ASSUME NEW p \in Process, Receive(p) PROVE Once'
  BY <1>13 DEF Receive
<1>14. ASSUME NEW p \in Process, Consume(p) PROVE Once'
  BY <1>14 DEF Consume
<1>15. ASSUME NEW p \in Process, Kill(p) PROVE Once'
  BY <1>15 DEF Kill
<1>16. ASSUME Edit PROVE Once'
  BY <1>16 DEF Edit
<1>17. CASE UNCHANGED vars
  BY <1>17 DEF vars, world
<1> QED
  BY <1>1, <1>2, <1>3, <1>4, <1>5, <1>6, <1>7, <1>8, <1>9, <1>10, <1>11, <1>12, <1>13, <1>14, <1>15, <1>16, <1>17 DEF Next, Quiet

LEMMA OpenedStep == HandInv /\ [Next]_vars => Opened'
<1> SUFFICES ASSUME HandInv, [Next]_vars PROVE Opened'
  OBVIOUS
<1> USE SentinelAssumption, BoundAssumption DEF HandInv, Types, State, Opened, Exclusive, Unwritten, BeforeReport, At, Goto, Leave, Return, Whole, Raise, InRun, Writes, Idle, world, Busy, InDirectory, Stage, Name, Managed, Artifact, After, Removes, Free, Content, Accepted, Reusable
<1>1. ASSUME NEW p \in Process, Start(p) PROVE Opened'
  BY <1>1 DEF Start
<1>2. ASSUME NEW p \in Process, Open(p) PROVE Opened'
  BY <1>2 DEF Open
<1>3. ASSUME NEW p \in Process, Fill(p) PROVE Opened'
  <2> DEFINE n == proc[p].pc
  <2>1. n \in Name /\ proc[p].open /\ \A m \in Name : m # n => file'[m] = file[m]
    BY <1>3 DEF Fill
  <2>2. ~proc'[p].open /\ \A q \in Process : q # p => proc'[q] = proc[q]
    BY <1>3 DEF Fill
  <2>3. ASSUME NEW q \in Process, proc'[q].open
        PROVE proc'[q] = proc[q] /\ proc[q].open /\ proc[q].pc \in Name /\ proc[q].pc # n
              /\ file'[proc[q].pc] = Torn
    <3>1. q # p /\ proc'[q] = proc[q]
      BY <2>2, <2>3
    <3>2. proc[q].open /\ proc[q].pc \in Name /\ file[proc[q].pc] = Torn
      BY <2>3, <3>1
    <3>3. proc[q].pc # n
      BY <2>1, <3>1, <3>2
    <3> QED
      BY <2>1, <3>1, <3>2, <3>3
  <2> QED
    BY <2>3
<1>4. ASSUME NEW p \in Process, WriteRaises(p) PROVE Opened'
  BY <1>4 DEF WriteRaises
<1>5. ASSUME NEW p \in Process, Look(p) PROVE Opened'
  BY <1>5 DEF Look
<1>6. ASSUME NEW p \in Process, Claim(p) PROVE Opened'
  BY <1>6 DEF Claim
<1>7. ASSUME NEW p \in Process, MakeDirectory(p) PROVE Opened'
  BY <1>7 DEF MakeDirectory
<1>8. ASSUME NEW p \in Process, HandOff(p) PROVE Opened'
  BY <1>8 DEF HandOff
<1>9. ASSUME NEW p \in Process, ConsumerEnds(p) PROVE Opened'
  BY <1>9 DEF ConsumerEnds
<1>10. ASSUME NEW p \in Process, ConsumerTimesOut(p) PROVE Opened'
  BY <1>10 DEF ConsumerTimesOut
<1>11. ASSUME NEW p \in Process, ConsumerReturns(p) PROVE Opened'
  BY <1>11 DEF ConsumerReturns
<1>12. ASSUME NEW p \in Process, ReadBack(p) PROVE Opened'
  BY <1>12 DEF ReadBack
<1>13. ASSUME NEW p \in Process, Receive(p) PROVE Opened'
  BY <1>13 DEF Receive
<1>14. ASSUME NEW p \in Process, Consume(p) PROVE Opened'
  BY <1>14 DEF Consume
<1>15. ASSUME NEW p \in Process, Kill(p) PROVE Opened'
  BY <1>15 DEF Kill
<1>16. ASSUME Edit PROVE Opened'
  BY <1>16 DEF Edit
<1>17. CASE UNCHANGED vars
  BY <1>17 DEF vars, world
<1> QED
  BY <1>1, <1>2, <1>3, <1>4, <1>5, <1>6, <1>7, <1>8, <1>9, <1>10, <1>11, <1>12, <1>13, <1>14, <1>15, <1>16, <1>17 DEF Next, Quiet

LEMMA UnwrittenStep == HandInv /\ [Next]_vars => Unwritten'
<1> SUFFICES ASSUME HandInv, [Next]_vars PROVE Unwritten'
  OBVIOUS
<1> USE SentinelAssumption, BoundAssumption DEF HandInv, Types, State, Exclusive, Unwritten, BeforeReport, Opened, At, Goto, Leave, Return, Whole, Raise, InRun, Writes, Idle, world, Busy, InDirectory, Stage, Name, Managed, Artifact, After, Removes, Free, Content, Accepted, Reusable
<1>1. ASSUME NEW p \in Process, Start(p) PROVE Unwritten'
  BY <1>1 DEF Start
<1>2. ASSUME NEW p \in Process, Open(p) PROVE Unwritten'
  BY <1>2 DEF Open
<1>3. ASSUME NEW p \in Process, Fill(p) PROVE Unwritten'
  <2> DEFINE n == proc[p].pc
  <2>1. n \in Name /\ proc[p].open /\ file[n] = Torn /\ made' = made
    BY <1>3 DEF Fill
  <2>2. \A m \in Name : m # n => file'[m] = file[m]
    BY <1>3 DEF Fill
  <2>3. \A q \in Process : q # p => proc'[q] = proc[q]
    BY <1>3 DEF Fill
  <2>4. proc'[p].pc = After(n)
    BY <1>3 DEF Fill
  <2>5. n \in Managed \cup {"failure"} => made /\ \A q \in Process : Busy(q) => q = p
    <3>1. n \in Managed \cup {"failure"} => Busy(p)
      OBVIOUS
    <3> QED
      BY <3>1
  <2>6. ~made => file'["report"] = Absent /\ file'["failure"] = Absent
    <3>1. ~made => n # "report" /\ n # "failure"
      BY <2>5
    <3> QED
      BY <2>2, <3>1
  <2>7. ASSUME NEW q \in Process,
               proc'[q].pc \in BeforeReport \/ (proc'[q].pc = "report" /\ ~proc'[q].open)
        PROVE file'["report"] = Absent
    <3>1. CASE q # p
      <4>1. proc'[q] = proc[q] /\ file["report"] = Absent /\ Busy(q)
        BY <2>3, <2>7, <3>1
      <4>2. n # "report"
        BY <2>5, <3>1, <4>1
      <4> QED
        BY <2>2, <4>1, <4>2
    <3>2. CASE q = p
      <4>1. n \in {"task", "market_evidence", "handoff", "readback"}
        BY <2>1, <2>4, <2>7, <3>2
      <4> QED
        BY <2>2, <4>1
    <3> QED
      BY <3>1, <3>2
  <2>8. ASSUME NEW q \in Process, file'["failure"] # Absent, Busy(q)'
        PROVE proc'[q].pc = "failure"
    <3>1. CASE n = "failure"
      <4>1. ~Busy(p)'
        BY <2>4, <3>1
      <4>2. q # p /\ Busy(q)
        BY <2>3, <2>8, <4>1
      <4> QED
        BY <2>5, <3>1, <4>2
    <3>2. CASE n # "failure"
      <4>1. file["failure"] # Absent
        BY <2>2, <2>8, <3>2
      <4>2. q # p
        BY <2>1, <2>4, <2>8, <3>2, <4>1
      <4> QED
        BY <2>3, <2>8, <4>1, <4>2
    <3> QED
      BY <3>1, <3>2
  <2>9. made' = made
    BY <2>1
  <2> HIDE DEF HandInv, Types, State, Exclusive, Opened, Stage, Name, Managed, Artifact, InDirectory,
               BeforeReport, n
  <2> QED
    BY <2>6, <2>7, <2>8, <2>9
<1>4. ASSUME NEW p \in Process, WriteRaises(p) PROVE Unwritten'
  BY <1>4 DEF WriteRaises
<1>5. ASSUME NEW p \in Process, Look(p) PROVE Unwritten'
  BY <1>5 DEF Look
<1>6. ASSUME NEW p \in Process, Claim(p) PROVE Unwritten'
  BY <1>6 DEF Claim
<1>7. ASSUME NEW p \in Process, MakeDirectory(p) PROVE Unwritten'
  BY <1>7 DEF MakeDirectory
<1>8. ASSUME NEW p \in Process, HandOff(p) PROVE Unwritten'
  BY <1>8 DEF HandOff
<1>9. ASSUME NEW p \in Process, ConsumerEnds(p) PROVE Unwritten'
  BY <1>9 DEF ConsumerEnds
<1>10. ASSUME NEW p \in Process, ConsumerTimesOut(p) PROVE Unwritten'
  BY <1>10 DEF ConsumerTimesOut
<1>11. ASSUME NEW p \in Process, ConsumerReturns(p) PROVE Unwritten'
  BY <1>11 DEF ConsumerReturns
<1>12. ASSUME NEW p \in Process, ReadBack(p) PROVE Unwritten'
  BY <1>12 DEF ReadBack
<1>13. ASSUME NEW p \in Process, Receive(p) PROVE Unwritten'
  BY <1>13 DEF Receive
<1>14. ASSUME NEW p \in Process, Consume(p) PROVE Unwritten'
  BY <1>14 DEF Consume
<1>15. ASSUME NEW p \in Process, Kill(p) PROVE Unwritten'
  BY <1>15 DEF Kill
<1>16. ASSUME Edit PROVE Unwritten'
  BY <1>16 DEF Edit
<1>17. CASE UNCHANGED vars
  BY <1>17 DEF vars, world
<1> QED
  BY <1>1, <1>2, <1>3, <1>4, <1>5, <1>6, <1>7, <1>8, <1>9, <1>10, <1>11, <1>12, <1>13, <1>14, <1>15, <1>16, <1>17 DEF Next, Quiet

LEMMA ProgressStep == HandInv /\ [Next]_vars => Progress'
<1> SUFFICES ASSUME HandInv, [Next]_vars PROVE Progress'
  OBVIOUS
<1> USE SentinelAssumption, BoundAssumption DEF HandInv, Types, State, Exclusive, Opened, Progress, Past, Right, Unwritten, BeforeReport, Response, Wrong, At, Goto, Leave, Return, Whole, Raise, InRun, Writes, Idle, world, Busy, InDirectory, Stage, Name, Managed, Artifact, After, Removes, Free, Content, Accepted, Reusable
<1>1. ASSUME NEW p \in Process, Start(p) PROVE Progress'
  BY <1>1 DEF Start
<1>2. ASSUME NEW p \in Process, Open(p) PROVE Progress'
  BY <1>2 DEF Open
<1>3. ASSUME NEW p \in Process, Fill(p) PROVE Progress'
  BY <1>3 DEF Fill
<1>4. ASSUME NEW p \in Process, WriteRaises(p) PROVE Progress'
  BY <1>4 DEF WriteRaises
<1>5. ASSUME NEW p \in Process, Look(p) PROVE Progress'
  BY <1>5 DEF Look
<1>6. ASSUME NEW p \in Process, Claim(p) PROVE Progress'
  BY <1>6 DEF Claim
<1>7. ASSUME NEW p \in Process, MakeDirectory(p) PROVE Progress'
  BY <1>7 DEF MakeDirectory
<1>8. ASSUME NEW p \in Process, HandOff(p) PROVE Progress'
  BY <1>8 DEF HandOff
<1>9. ASSUME NEW p \in Process, ConsumerEnds(p) PROVE Progress'
  BY <1>9 DEF ConsumerEnds
<1>10. ASSUME NEW p \in Process, ConsumerTimesOut(p) PROVE Progress'
  BY <1>10 DEF ConsumerTimesOut
<1>11. ASSUME NEW p \in Process, ConsumerReturns(p) PROVE Progress'
  BY <1>11 DEF ConsumerReturns
<1>12. ASSUME NEW p \in Process, ReadBack(p) PROVE Progress'
  BY <1>12 DEF ReadBack
<1>13. ASSUME NEW p \in Process, Receive(p) PROVE Progress'
  BY <1>13 DEF Receive
<1>14. ASSUME NEW p \in Process, Consume(p) PROVE Progress'
  BY <1>14 DEF Consume
<1>15. ASSUME NEW p \in Process, Kill(p) PROVE Progress'
  BY <1>15 DEF Kill
<1>16. ASSUME Edit PROVE Progress'
  BY <1>16 DEF Edit
<1>17. CASE UNCHANGED vars
  BY <1>17 DEF vars, world
<1> QED
  BY <1>1, <1>2, <1>3, <1>4, <1>5, <1>6, <1>7, <1>8, <1>9, <1>10, <1>11, <1>12, <1>13, <1>14, <1>15, <1>16, <1>17 DEF Next, Quiet

LEMMA BoundStep == HandInv /\ [Next]_vars => Bound'
<1> SUFFICES ASSUME HandInv, [Next]_vars PROVE Bound'
  OBVIOUS
<1> USE SentinelAssumption, BoundAssumption DEF HandInv, Types, State, Exclusive, Opened, Progress, Past, Right, Unwritten, BeforeReport, Bound, Result, At, Goto, Leave, Return, Whole, Raise, InRun, Writes, Idle, world, Busy, InDirectory, Stage, Name, Managed, Artifact, After, Removes, Free, Content, Accepted, Reusable
<1>1. ASSUME NEW p \in Process, Start(p) PROVE Bound'
  BY <1>1 DEF Start
<1>2. ASSUME NEW p \in Process, Open(p) PROVE Bound'
  BY <1>2 DEF Open
<1>3. ASSUME NEW p \in Process, Fill(p) PROVE Bound'
  <2> DEFINE n == proc[p].pc
  <2>1. n \in Name /\ file' = [file EXCEPT ![n] = Content(p, n)]
    BY <1>3 DEF Fill
  <2>2. CASE n = "result"
    <3>1. \A q \in Process : ~Busy(q)'
      BY <1>3, <2>2 DEF Fill
    <3>2. file'["result"].artifacts = [a \in Artifact |-> file[a]]
      BY <2>1, <2>2
    <3>3. \A a \in Artifact : file'[a] = file[a] /\ file[a] \in Nat
      BY <2>1, <2>2
    <3>4. /\ made /\ file["failure"] = Absent
          /\ file["market_evidence"] = 0 /\ file["pds_response"] = Right
      BY <2>2
    <3> QED
      BY <1>3, <2>1, <2>2, <3>1, <3>2, <3>3, <3>4 DEF Fill
  <2>3. CASE n # "result"
    <3> SUFFICES ASSUME Whole("result")' PROVE Bound'
      OBVIOUS
    <3>1. Whole("result") /\ file'["result"] = file["result"]
      BY <2>1, <2>3
    <3>2. n \notin Managed
      BY <3>1, <2>1
    <3>3. \A a \in Artifact \cup {"failure"} : file'[a] = file[a]
      BY <2>1, <3>2
    <3>4. \A q \in Process : ~Busy(q)'
      BY <1>3, <3>1, <3>2 DEF Fill
    <3>5. /\ made /\ file["failure"] = Absent
          /\ file["result"].artifacts = [a \in Artifact |-> file[a]]
          /\ \A a \in Artifact : file[a] \in Nat
          /\ file["market_evidence"] = 0 /\ file["pds_response"] = Right
      BY <3>1
    <3>6. made' = made /\ [a \in Artifact |-> file'[a]] = [a \in Artifact |-> file[a]]
      BY <1>3, <3>3 DEF Fill
    <3> HIDE DEF Types, Exclusive, Opened, Progress, Unwritten
    <3> QED
      BY <3>1, <3>3, <3>4, <3>5, <3>6
  <2> QED
    BY <2>2, <2>3
<1>4. ASSUME NEW p \in Process, WriteRaises(p) PROVE Bound'
  BY <1>4 DEF WriteRaises
<1>5. ASSUME NEW p \in Process, Look(p) PROVE Bound'
  BY <1>5 DEF Look
<1>6. ASSUME NEW p \in Process, Claim(p) PROVE Bound'
  BY <1>6 DEF Claim
<1>7. ASSUME NEW p \in Process, MakeDirectory(p) PROVE Bound'
  BY <1>7 DEF MakeDirectory
<1>8. ASSUME NEW p \in Process, HandOff(p) PROVE Bound'
  BY <1>8 DEF HandOff
<1>9. ASSUME NEW p \in Process, ConsumerEnds(p) PROVE Bound'
  BY <1>9 DEF ConsumerEnds
<1>10. ASSUME NEW p \in Process, ConsumerTimesOut(p) PROVE Bound'
  BY <1>10 DEF ConsumerTimesOut
<1>11. ASSUME NEW p \in Process, ConsumerReturns(p) PROVE Bound'
  BY <1>11 DEF ConsumerReturns
<1>12. ASSUME NEW p \in Process, ReadBack(p) PROVE Bound'
  BY <1>12 DEF ReadBack
<1>13. ASSUME NEW p \in Process, Receive(p) PROVE Bound'
  BY <1>13 DEF Receive
<1>14. ASSUME NEW p \in Process, Consume(p) PROVE Bound'
  BY <1>14 DEF Consume
<1>15. ASSUME NEW p \in Process, Kill(p) PROVE Bound'
  BY <1>15 DEF Kill
<1>16. ASSUME Edit PROVE Bound'
  BY <1>16 DEF Edit
<1>17. CASE UNCHANGED vars
  BY <1>17 DEF vars, world
<1> QED
  BY <1>1, <1>2, <1>3, <1>4, <1>5, <1>6, <1>7, <1>8, <1>9, <1>10, <1>11, <1>12, <1>13, <1>14, <1>15, <1>16, <1>17 DEF Next, Quiet

LEMMA ReturnsStep == HandInv /\ [Next]_vars => Returns'
<1> SUFFICES ASSUME HandInv, [Next]_vars PROVE Returns'
  OBVIOUS
<1> USE SentinelAssumption, BoundAssumption DEF HandInv, Types, State, Exclusive, Opened, Progress, Past, Unwritten, BeforeReport, Bound, Returns, Result, At, Goto, Leave, Return, Whole, Raise, InRun, Writes, Idle, world, Busy, InDirectory, Stage, Name, Managed, Artifact, After, Removes, Free, Content, Accepted, Reusable
<1>1. ASSUME NEW p \in Process, Start(p) PROVE Returns'
  BY <1>1 DEF Start
<1>2. ASSUME NEW p \in Process, Open(p) PROVE Returns'
  BY <1>2 DEF Open
<1>3. ASSUME NEW p \in Process, Fill(p) PROVE Returns'
  BY <1>3 DEF Fill
<1>4. ASSUME NEW p \in Process, WriteRaises(p) PROVE Returns'
  BY <1>4 DEF WriteRaises
<1>5. ASSUME NEW p \in Process, Look(p) PROVE Returns'
  BY <1>5 DEF Look
<1>6. ASSUME NEW p \in Process, Claim(p) PROVE Returns'
  BY <1>6 DEF Claim
<1>7. ASSUME NEW p \in Process, MakeDirectory(p) PROVE Returns'
  BY <1>7 DEF MakeDirectory
<1>8. ASSUME NEW p \in Process, HandOff(p) PROVE Returns'
  BY <1>8 DEF HandOff
<1>9. ASSUME NEW p \in Process, ConsumerEnds(p) PROVE Returns'
  BY <1>9 DEF ConsumerEnds
<1>10. ASSUME NEW p \in Process, ConsumerTimesOut(p) PROVE Returns'
  BY <1>10 DEF ConsumerTimesOut
<1>11. ASSUME NEW p \in Process, ConsumerReturns(p) PROVE Returns'
  BY <1>11 DEF ConsumerReturns
<1>12. ASSUME NEW p \in Process, ReadBack(p) PROVE Returns'
  BY <1>12 DEF ReadBack
<1>13. ASSUME NEW p \in Process, Receive(p) PROVE Returns'
  BY <1>13 DEF Receive
<1>14. ASSUME NEW p \in Process, Consume(p) PROVE Returns'
  BY <1>14 DEF Consume
<1>15. ASSUME NEW p \in Process, Kill(p) PROVE Returns'
  BY <1>15 DEF Kill
<1>16. ASSUME Edit PROVE Returns'
  BY <1>16 DEF Edit
<1>17. CASE UNCHANGED vars
  BY <1>17 DEF vars, world
<1> QED
  BY <1>1, <1>2, <1>3, <1>4, <1>5, <1>6, <1>7, <1>8, <1>9, <1>10, <1>11, <1>12, <1>13, <1>14, <1>15, <1>16, <1>17 DEF Next, Quiet

LEMMA HandStep == HandInv /\ [Next]_vars => HandInv'
BY TypesStep, ExclusiveStep, OnceStep, OpenedStep, UnwrittenStep, ProgressStep, BoundStep,
   ReturnsStep DEF HandInv

\* Files have one writer, stages follow each other, and results are bound, always.
THEOREM HandAlways == Spec => []HandInv
<1>1. Init => HandInv
  BY InitHand
<1>2. HandInv /\ [Next]_vars => HandInv'
  BY HandStep
<1> QED
  BY <1>1, <1>2, PTL DEF Spec

\* However many processes run the task and wherever they fail, the consumer is started
\* at most once.
THEOREM ConsumedOnceAlways == Spec => []ConsumedOnce
<1>1. HandInv => ConsumedOnce
  BY DEF HandInv, Once, ConsumedOnce
<1> QED
  BY <1>1, HandAlways, PTL

\* A result that can be read names whole files that have not changed since, the packet of
\* the task and the right response.
THEOREM ResultIsBoundAlways == Spec => []ResultIsBound
<1>1. HandInv => ResultIsBound
  <2> SUFFICES ASSUME HandInv, Whole("result") PROVE ResultIsBound
    BY DEF ResultIsBound
  <2> QED
    BY SentinelAssumption DEF HandInv, Bound, ResultIsBound, Whole
<1> QED
  BY <1>1, HandAlways, PTL

\* What a command has returned stays what is stored.
THEOREM ReturnedIsStoredAlways == Spec => []ReturnedIsStored
<1>1. HandInv => ReturnedIsStored
  BY DEF HandInv, Returns, ReturnedIsStored
<1> QED
  BY <1>1, HandAlways, PTL

\* A file that no reader can use may get any content.
Readable == [n \in Name |-> IF Whole(n) THEN file[n] ELSE Absent]
LEMMA OneFileStores ==
    ASSUME DOMAIN file = Name, NEW n \in Name, ~Whole(n),
           NEW v, file' = [file EXCEPT ![n] = v]
    PROVE Readable' = Readable \/ Store!Next
<1>1. \A m \in Name : m # n => Readable'[m] = Readable[m]
  BY DEF Readable, Whole
<1>2. Readable[n] = Absent
  BY DEF Readable
<1>3. Readable' = [Readable EXCEPT ![n] = Readable'[n]]
  BY <1>1 DEF Readable
<1>4. Store!Store(n)
  BY <1>2, <1>3 DEF Store!Store, Readable
<1> QED
  BY <1>4 DEF Store!Next

\* Seen by its readers, the hand-over is a write-once store.
THEOREM ImplementsStoreAlways == Spec => ImplementsStore
<1>1. Init => Store!Init
  BY DEF Init, Store!Init, Whole
<1>2. HandInv /\ [Next]_vars => Readable' = Readable \/ Store!Next
  <2> SUFFICES ASSUME HandInv, [Next]_vars PROVE Readable' = Readable \/ Store!Next
    OBVIOUS
  <2> DOMAIN file = Name
    BY DEF HandInv, Types
  <2>1. CASE file' = file
    BY <2>1 DEF Readable, Whole
  <2>2. ASSUME NEW p \in Process, Open(p) PROVE Readable' = Readable \/ Store!Next
    <3> DEFINE n == proc[p].pc
    <3> SUFFICES ASSUME file' # file PROVE Readable' = Readable \/ Store!Next
      BY <2>1
    <3>1. n \in Name /\ ~proc[p].open /\ Free(n) /\ file' = [file EXCEPT ![n] = Torn]
      BY <2>2 DEF Open, Writes
    <3>2. file[n] = Absent
      BY <3>1 DEF Free, HandInv, Unwritten, At
    <3> QED
      BY <3>1, <3>2, OneFileStores DEF Whole
  <2>3. ASSUME NEW p \in Process, Fill(p) PROVE Readable' = Readable \/ Store!Next
    <3> DEFINE n == proc[p].pc
    <3>1. n \in Name /\ file[n] = Torn /\ file' = [file EXCEPT ![n] = Content(p, n)]
      BY <2>3 DEF Fill, Writes, HandInv, Opened
    <3> QED
      BY <3>1, OneFileStores DEF Whole
  <2>4. ASSUME NEW p \in Process, WriteRaises(p) PROVE Readable' = Readable \/ Store!Next
    <3> SUFFICES ASSUME file' # file PROVE Readable' = Readable \/ Store!Next
      BY <2>1
    <3>1. Removes(p) /\ file' = [file EXCEPT !["snapshot"] = Absent]
      BY <2>4 DEF WriteRaises
    <3>2. "snapshot" \in Name /\ file["snapshot"] = Torn
      BY <3>1 DEF Removes, At, HandInv, Opened, Name
    <3> QED
      BY <3>1, <3>2, OneFileStores DEF Whole
  <2>5. ASSUME NEW p \in Process, ConsumerEnds(p) PROVE Readable' = Readable \/ Store!Next
    <3> SUFFICES ASSUME file' # file PROVE Readable' = Readable \/ Store!Next
      BY <2>1
    <3>1. PICK r : /\ file["pds_response"] = Absent
                   /\ file' = [file EXCEPT !["pds_response"] = r]
      BY <2>5 DEF ConsumerEnds
    <3>2. "pds_response" \in Name
      BY DEF Name, Managed, Artifact
    <3> QED
      BY <3>1, <3>2, OneFileStores DEF Whole
  <2>6. file' = file \/ \E p \in Process : \/ Open(p) \/ Fill(p) \/ WriteRaises(p)
                                           \/ ConsumerEnds(p)
    BY DEF Next, Start, Look, Claim, MakeDirectory, HandOff, ConsumerTimesOut,
           ConsumerReturns, ReadBack, Receive, Consume, Kill, Edit, Quiet, vars
  <2> QED
    BY <2>1, <2>2, <2>3, <2>4, <2>5, <2>6
<1>3. HandInv /\ [Next]_vars => [Store!Next]_Readable
  BY <1>2
<1> QED
  BY <1>1, <1>3, HandAlways, PTL DEF Spec, ImplementsStore, Store!Spec, Readable
=============================================================================
