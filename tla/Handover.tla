------------------------------ MODULE Handover ------------------------------
(***************************************************************************)
(* The hand-over of research between projects: market_pds_workflow.run,    *)
(* market_research_intake.receive, pds_market_readback.consume and the     *)
(* snapshot writer of ingestion.  Each command creates files exclusively;  *)
(* several may run at once on the same paths, each may fail in any write   *)
(* or be killed, and the next one finds what is left.                      *)
(***************************************************************************)
EXTENDS Naturals

CONSTANTS
    Process,     \* the processes that may be live
    MaxStarts,   \* bound of the model: commands started
    MaxEdits,    \* bound of the model: edits of the evidence and of the methods
    Absent,      \* no file
    Torn         \* a file that is not whole: being written, or abandoned

ASSUME BoundAssumption == MaxStarts \in Nat /\ MaxEdits \in Nat

Artifact == {"task", "market_evidence", "handoff", "pds_response", "readback", "report"}
Result == [methods : 0..MaxEdits, artifacts : [Artifact -> Nat]]
ASSUME SentinelAssumption == Absent \notin Nat \cup Result \cup {Torn}
                             /\ Torn \notin Nat \cup Result

\* The files of the workflow's directory and those of the other three commands.
Managed == Artifact \cup {"result", "failure"}
Name == Managed \cup {"intake", "offer_readback", "snapshot"}
Command == {"workflow", "intake", "offer_readback", "snapshot"}
Wrong == 0
Right == 1
Response == {Wrong, Right}

VARIABLES
    made,        \* the workflow's directory exists
    file,        \* every file: absent, torn, or the record in it
    evidence,    \* version of the evidence; the task is bound to version 0
    methods,     \* version of the program and of the consumer's script
    proc,        \* of each process: its stage (pc), whether the file it writes is
                 \* open, the number of its start (id), the methods it read
    consumers,   \* processes whose consumer runs, also after they were killed
    consumed,    \* history: consumers started
    returned,    \* history: by file, the records that commands have returned
    starts, edits

vars == <<made, file, evidence, methods, proc, consumers, consumed, returned,
          starts, edits>>
world == <<evidence, methods, starts, edits>>

Idle == [pc |-> "idle", open |-> FALSE, id |-> 0, methods |-> 0]

Init ==
    /\ made = FALSE
    /\ file = [n \in Name |-> Absent]
    /\ evidence = 0 /\ methods = 0
    /\ proc = [p \in Process |-> Idle]
    /\ consumers = {} /\ consumed = 0
    /\ returned = [n \in Name |-> {}]
    /\ starts = 0 /\ edits = 0

At(p, stage) == proc[p].pc = stage
Goto(p, stage) == proc' = [proc EXCEPT ![p].pc = stage, ![p].open = FALSE]
Leave(p) == proc' = [proc EXCEPT ![p] = Idle]
Return(n, r) == returned' = [returned EXCEPT ![n] = @ \cup {r}]
Whole(n) == file[n] \notin {Absent, Torn}

\* A command first checks what it was given: the evidence must be that of its task.
Start(p) ==
    /\ At(p, "idle") /\ p \notin consumers
    /\ evidence = 0
    /\ starts < MaxStarts /\ starts' = starts + 1
    /\ \E stage \in {"look", "receive", "consume", "snapshot"} :
         proc' = [proc EXCEPT ![p] = [pc |-> stage, open |-> FALSE,
                                      id |-> starts + 1, methods |-> methods]]
    /\ UNCHANGED <<made, file, evidence, methods, consumers, consumed, returned, edits>>

Edit ==
    /\ edits < MaxEdits /\ edits' = edits + 1
    /\ \/ evidence' = evidence + 1 /\ UNCHANGED methods
       \/ methods' = methods + 1 /\ UNCHANGED evidence
    /\ UNCHANGED <<made, file, proc, consumers, consumed, returned, starts>>

-----------------------------------------------------------------------------
(* Writing.  An existing file is an error, but for the report.  An error in  *)
(* the workflow's directory is recorded in failure.json, elsewhere it ends   *)
(* the command.                                                              *)

After(n) == CASE n = "task" -> "market_evidence"
              [] n = "market_evidence" -> "handoff"
              [] n = "handoff" -> "hand-off"
              [] n = "readback" -> "report"
              [] n = "report" -> "result"
              [] OTHER -> "idle"

Writes(p) == proc[p].pc \in Name
InRun(p) == proc[p].pc \in Managed \cup {"hand-off", "wait", "read-back"}

Raise(p) == IF InRun(p) /\ ~At(p, "failure") THEN Goto(p, "failure") ELSE Leave(p)

Content(p, n) ==
    CASE n = "market_evidence" -> evidence
      [] n = "result" -> [methods |-> proc[p].methods,
                          artifacts |-> [a \in Artifact |-> file[a]]]
      [] OTHER -> proc[p].id

\* [faulty] Files are opened for writing, whether they exist or not.
Truncatable(n) == TRUE
Free(n) == file[n] = Absent \/ n = "report"

Open(p) ==
    /\ Writes(p) /\ ~proc[p].open
    /\ LET n == proc[p].pc IN
       \/ /\ Free(n)
          /\ file' = [file EXCEPT ![n] = Torn]
          /\ proc' = [proc EXCEPT ![p].open = TRUE]
       \/ ~Free(n) /\ Raise(p) /\ UNCHANGED file
    /\ UNCHANGED <<made, world, consumers, consumed, returned>>

Fill(p) ==
    /\ Writes(p) /\ proc[p].open
    /\ LET n == proc[p].pc IN
       /\ file' = [file EXCEPT ![n] = Content(p, n)]
       /\ IF After(n) = "idle"
            THEN /\ Leave(p)
                 /\ IF n = "failure" THEN UNCHANGED returned ELSE Return(n, Content(p, n))
            ELSE Goto(p, After(n)) /\ UNCHANGED returned
    /\ UNCHANGED <<made, world, consumers, consumed>>

\* [faulty] The snapshot is opened inside the block that cleans up after an error.
RemovesOnAnyError(p) == At(p, "snapshot")
\* A snapshot that could not be written is removed; other files stay torn.
Removes(p) == At(p, "snapshot") /\ proc[p].open

WriteRaises(p) ==
    /\ Writes(p)
    /\ file' = IF Removes(p) THEN [file EXCEPT !["snapshot"] = Absent] ELSE file
    /\ Raise(p)
    /\ UNCHANGED <<made, world, consumers, consumed, returned>>

-----------------------------------------------------------------------------
(* The workflow.                                                             *)

\* The result of an earlier run is returned when the methods are the same and nothing
\* it names has changed; otherwise it is an error, or goes to review.
Reusable(p) == /\ Whole("result")
               /\ file["result"].methods = proc[p].methods
               /\ file["result"].artifacts = [a \in Artifact |-> file[a]]
               /\ file["pds_response"] = Right

Look(p) ==
    /\ At(p, "look")
    /\ \/ file["result"] = Absent /\ Goto(p, "claim") /\ UNCHANGED returned
       \/ file["result"] # Absent /\ Reusable(p) /\ Leave(p) /\ Return("result", file["result"])
       \/ file["result"] # Absent /\ ~Reusable(p) /\ Leave(p) /\ UNCHANGED returned
    /\ UNCHANGED <<made, file, world, consumers, consumed>>

\* A directory without a result goes to review.
Claim(p) ==
    /\ At(p, "claim")
    /\ IF made THEN Leave(p) ELSE Goto(p, "mkdir")
    /\ UNCHANGED <<made, file, world, consumers, consumed, returned>>

MakeDirectory(p) ==
    /\ At(p, "mkdir")
    /\ made' = TRUE
    /\ IF made THEN Leave(p) ELSE Goto(p, "task")
    /\ UNCHANGED <<file, world, consumers, consumed, returned>>

HandOff(p) ==
    /\ At(p, "hand-off")
    /\ consumers' = consumers \cup {p} /\ consumed' = consumed + 1
    /\ Goto(p, "wait")
    /\ UNCHANGED <<made, file, world, returned>>

\* The consumer, another project's process, leaves a response or none.
ConsumerEnds(p) ==
    /\ p \in consumers /\ consumers' = consumers \ {p}
    /\ \/ /\ file["pds_response"] = Absent
          /\ \E r \in Response \cup {Torn} : file' = [file EXCEPT !["pds_response"] = r]
       \/ UNCHANGED file
    /\ UNCHANGED <<made, world, proc, consumed, returned>>

\* [faulty] A consumer that has timed out is started again.
ConsumerTimesOutAndRetried(p) ==
    /\ At(p, "wait") /\ p \in consumers /\ consumers' = consumers \ {p}
    /\ Goto(p, "hand-off")
    /\ UNCHANGED <<made, file, world, consumed, returned>>
\* It is killed when its time is up.
ConsumerTimesOut(p) ==
    /\ At(p, "wait") /\ p \in consumers /\ consumers' = consumers \ {p}
    /\ Raise(p)
    /\ UNCHANGED <<made, file, world, consumed, returned>>

ConsumerReturns(p) ==
    /\ At(p, "wait") /\ p \notin consumers
    /\ \/ file["pds_response"] # Absent /\ Goto(p, "read-back")
       \/ Raise(p)
    /\ UNCHANGED <<made, file, world, consumers, consumed, returned>>

\* [faulty] The evidence is not read again after the consumer.
ResponseAccepted == file["pds_response"] = Right
Accepted == evidence = 0 /\ file["pds_response"] = Right

ReadBack(p) ==
    /\ At(p, "read-back")
    /\ IF Accepted THEN Goto(p, "readback") ELSE Raise(p)
    /\ UNCHANGED <<made, file, world, consumers, consumed, returned>>

-----------------------------------------------------------------------------
(* Intake and read-back of a receipt.                                        *)

\* receive: a task already received gets the record of that time.
Receive(p) ==
    /\ At(p, "receive")
    /\ \/ file["intake"] = Absent /\ Goto(p, "intake") /\ UNCHANGED returned
       \/ Whole("intake") /\ Leave(p) /\ Return("intake", file["intake"])
       \/ file["intake"] = Torn /\ Leave(p) /\ UNCHANGED returned
    /\ UNCHANGED <<made, file, world, consumers, consumed>>

Consume(p) ==
    /\ At(p, "consume")
    /\ IF file["offer_readback"] = Absent THEN Goto(p, "offer_readback") ELSE Leave(p)
    /\ UNCHANGED <<made, file, world, consumers, consumed, returned>>

Kill(p) ==
    /\ ~At(p, "idle") /\ Leave(p)
    /\ UNCHANGED <<made, file, world, consumers, consumed, returned>>

Quiet == (\A p \in Process : At(p, "idle") /\ p \notin consumers) /\ UNCHANGED vars

Next ==
    \/ \E p \in Process :
         \/ Start(p) \/ Open(p) \/ Fill(p) \/ WriteRaises(p) \/ Look(p) \/ Claim(p)
         \/ MakeDirectory(p) \/ HandOff(p) \/ ConsumerEnds(p) \/ ConsumerTimesOut(p)
         \/ ConsumerReturns(p) \/ ReadBack(p) \/ Receive(p) \/ Consume(p) \/ Kill(p)
    \/ Edit \/ Quiet

Spec == Init /\ [][Next]_vars

-----------------------------------------------------------------------------
(* Properties.                                                               *)

\* The consumer of another project is started at most once for a task, by however many
\* processes the task is run and wherever they fail: "A partial run never retries itself".
ConsumedOnce == consumed <= 1

\* A result that can be read is backed by what it names: the files are whole and are those
\* it hashed, the packet kept is the one the task was bound to though it was copied after
\* it had been checked, the response is right, and no failure was recorded beside it.
ResultIsBound ==
    Whole("result") =>
      /\ \A a \in Artifact : Whole(a) /\ file[a] = file["result"].artifacts[a]
      /\ file["market_evidence"] = 0 /\ file["pds_response"] = Right
      /\ file["failure"] = Absent

\* What any command has returned is what is stored: two intakes of one task get one record,
\* and no failed writer removes or replaces the record of another.
ReturnedIsStored == \A n \in Name : returned[n] \subseteq {file[n]}

\* Seen by readers, who cannot use a torn file, the files are a write-once store.
Store == INSTANCE WriteOnceStore WITH
            stored <- [n \in Name |-> IF Whole(n) THEN file[n] ELSE Absent]
ImplementsStore == Store!Spec
=============================================================================
