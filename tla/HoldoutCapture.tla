--------------------------- MODULE HoldoutCapture ---------------------------
(***************************************************************************)
(* The checkpointed live captures of organic keyword discovery: one call   *)
(* for the cohort, one per ASIN of the cohort, and in the first of the two *)
(* an optional enrichment call, each paid for.  The variable temporal says *)
(* which: OrganicHoldoutLiveCaptureV0_1 (holdout_v0_1.py) or               *)
(* OrganicTemporalHoldoutLiveCaptureV0_1 (temporal_holdout_v0_1.py).       *)
(*                                                                         *)
(* The command is run by an operator, one invocation at a time.  What a    *)
(* provider answers is abstracted to the cohort that can be selected from  *)
(* it: 1..k, in the order of selection, with k short of CohortSize when it *)
(* has too few independent ASINs.                                          *)
(*                                                                         *)
(* A definition marked [faulty] is a plausible mistake in the one after it *)
(* and is used by no action.                                               *)
(***************************************************************************)
EXTENDS Integers, Sequences, FiniteSets, SequencesExt

CONSTANTS
    CohortSize,     \* HOLDOUT_ASIN_COUNT
    Rules,          \* fingerprints of the frozen rules
    MaxStarts,      \* bound: invocations
    NoFile, NoCohort

ASSUME CohortSizeAssumption == CohortSize \in Nat \ {0}
ASSUME NoCohortAssumption == NoCohort \notin 0..CohortSize

VARIABLES
    temporal,   \* which of the two captures
    file,       \* the checkpoint file
    mem,        \* checkpoint: the invocation's copy of it
    pc,
    enrich,     \* include_enrichment of this invocation, and so its credit plan
    rules,      \* frozen_rule_fingerprints() at this moment
    starts,
    paid,       \* history: answers paid for
    ends        \* history: invocations that ended without COMPLETE

vars == <<temporal, file, mem, pc, enrich, rules, starts, paid, ends>>
----------------------------------------------------------------------------
Asin == 1..CohortSize

Checkpoint ==
    [status : {"IN_PROGRESS", "BLOCKED", "COMPLETE"}, plan : BOOLEAN,
     start : Rules, cohort : {NoCohort} \cup (0..CohortSize),
     reverse : Seq(Asin), enrichment : BOOLEAN]

ASSUME NoFileAssumption == NoFile \notin Checkpoint

\* _load_or_initialize without a file
Fresh ==
    [status |-> "IN_PROGRESS", plan |-> enrich, start |-> rules, cohort |-> NoCohort,
     reverse |-> <<>>, enrichment |-> FALSE]

\* Answers the checkpoint holds.
Kept(c) ==
    IF c = NoFile THEN 0
    ELSE (IF c.cohort = NoCohort THEN 0 ELSE 1) + Len(c.reverse)
         + (IF c.enrichment THEN 1 ELSE 0)

Init ==
    /\ temporal \in BOOLEAN
    /\ file = NoFile
    /\ mem = NoFile
    /\ pc = "idle"
    /\ enrich = FALSE
    /\ rules \in Rules
    /\ starts = 0
    /\ paid = 0
    /\ ends = 0

\* The invocation ends: an error, or the process dies.
Stop ==
    /\ pc' = "idle"
    /\ mem' = NoFile
    /\ ends' = ends + 1

Start(with) ==
    /\ pc = "idle"
    /\ starts < MaxStarts
    /\ temporal => ~with
    /\ starts' = starts + 1
    /\ enrich' = with
    /\ pc' = "load"
    /\ UNCHANGED <<temporal, file, mem, rules, paid, ends>>

\* [faulty] the credit plan of the checkpoint is not compared
PlanUnchecked(c) == TRUE

\* The checkpoint was begun with the credit plan of this invocation.
PlanMatches(c) == c.plan = enrich

\* [faulty] the rules of the day are recorded as those of the start
LoadRestamped ==
    /\ pc = "load"
    /\ IF file = NoFile THEN mem' = Fresh /\ pc' = "cohort" /\ UNCHANGED ends
       ELSE IF ~PlanMatches(file) \/ file.status = "COMPLETE" THEN Stop
       ELSE mem' = [file EXCEPT !.start = rules] /\ pc' = "cohort" /\ UNCHANGED ends
    /\ UNCHANGED <<temporal, file, enrich, rules, starts, paid>>

LoadOrInitialize ==
    /\ pc = "load"
    /\ IF file = NoFile
         THEN mem' = Fresh /\ pc' = "cohort" /\ UNCHANGED ends
         ELSE IF ~PlanMatches(file) THEN Stop
         ELSE IF file.status = "COMPLETE"
                THEN pc' = "idle" /\ mem' = NoFile /\ UNCHANGED ends
                ELSE mem' = file /\ pc' = "cohort" /\ UNCHANGED ends
    /\ UNCHANGED <<temporal, file, enrich, rules, starts, paid>>

HaveCohort ==
    /\ pc = "cohort"
    /\ mem.cohort # NoCohort
    /\ pc' = "reverse"
    /\ UNCHANGED <<temporal, file, mem, enrich, rules, starts, paid, ends>>

\* The cohort call is answered.  The first capture selects before it saves and raises when
\* too few ASINs are left; the second saves first, then marks the checkpoint as blocked.
CaptureCohort(k) ==
    /\ pc = "cohort"
    /\ mem.cohort = NoCohort
    /\ paid' = paid + 1
    /\ IF k < CohortSize /\ ~temporal
         THEN Stop /\ UNCHANGED file
         ELSE LET c == [mem EXCEPT !.cohort = k]
              IN  /\ mem' = c
                  /\ file' = c
                  /\ pc' = IF k < CohortSize THEN "block" ELSE "reverse"
                  /\ UNCHANGED ends
    /\ UNCHANGED <<temporal, enrich, rules, starts>>

Block ==
    /\ pc = "block"
    /\ file' = [mem EXCEPT !.status = "BLOCKED"]
    /\ Stop
    /\ UNCHANGED <<temporal, enrich, rules, starts, paid>>

\* The first ASIN of the cohort without a capture.
NextAsin ==
    CHOOSE a \in 1..mem.cohort :
      /\ a \notin ToSet(mem.reverse)
      /\ \A b \in 1..(a - 1) : b \in ToSet(mem.reverse)

CohortCaptured == 1..mem.cohort \subseteq ToSet(mem.reverse)

\* [faulty] the checkpoint is written when the whole cohort has been captured
SaveAtTheEnd(c) == IF Len(c.reverse) = c.cohort THEN c ELSE file

Saved(c) == c

\* The answer for one ASIN is appended and the checkpoint replaced.
CaptureReverse ==
    /\ pc = "reverse"
    /\ ~CohortCaptured
    /\ paid' = paid + 1
    /\ LET c == [mem EXCEPT !.reverse = Append(@, NextAsin)]
       IN  mem' = c /\ file' = Saved(c)
    /\ UNCHANGED <<temporal, pc, enrich, rules, starts, ends>>

ReverseDone ==
    /\ pc = "reverse"
    /\ CohortCaptured
    /\ pc' = IF temporal THEN "rules"
             ELSE IF enrich /\ ~mem.enrichment THEN "enrich" ELSE "complete"
    /\ UNCHANGED <<temporal, file, mem, enrich, rules, starts, paid, ends>>

\* The discovery is replayed from the checkpoint, which must hold a full cohort, and its
\* best terms are looked up.
CaptureEnrichment ==
    /\ pc = "enrich"
    /\ mem.cohort = CohortSize
    /\ paid' = paid + 1
    /\ LET c == [mem EXCEPT !.enrichment = TRUE]
       IN  mem' = c /\ file' = c
    /\ pc' = "complete"
    /\ UNCHANGED <<temporal, enrich, rules, starts, ends>>

\* The rules must be those the capture began with.
CompareRules ==
    /\ pc = "rules"
    /\ IF mem.start = rules
         THEN pc' = "complete" /\ UNCHANGED <<mem, ends>>
         ELSE Stop
    /\ UNCHANGED <<temporal, file, enrich, rules, starts, paid>>

Complete ==
    /\ pc = "complete"
    /\ file' = [mem EXCEPT !.status = "COMPLETE"]
    /\ pc' = "idle"
    /\ mem' = NoFile
    /\ UNCHANGED <<temporal, enrich, rules, starts, paid, ends>>

Calling ==
    \/ pc = "cohort" /\ mem.cohort = NoCohort
    \/ pc = "reverse" /\ ~CohortCaptured
    \/ pc = "enrich"

\* A call or a save raises, or the process dies; an answer paid for may be lost.
Fail ==
    /\ pc # "idle"
    /\ paid' \in IF Calling THEN {paid, paid + 1} ELSE {paid}
    /\ Stop
    /\ UNCHANGED <<temporal, file, enrich, rules, starts>>

\* Somebody edits the rules.
EditRules ==
    /\ rules' \in Rules
    /\ UNCHANGED <<temporal, file, mem, pc, enrich, starts, paid, ends>>

Next ==
    \/ \E with \in BOOLEAN : Start(with)
    \/ LoadOrInitialize
    \/ HaveCohort
    \/ \E k \in 0..CohortSize : CaptureCohort(k)
    \/ Block
    \/ CaptureReverse
    \/ ReverseDone
    \/ CaptureEnrichment
    \/ CompareRules
    \/ Complete
    \/ Fail
    \/ EditRules

Spec == Init /\ [][Next]_vars
----------------------------------------------------------------------------
(* Properties.                                                             *)

\* An invocation that ends early, wherever it does, loses at most the one answer it was
\* waiting for: everything else that was paid for is in the checkpoint.
OneAnswerLostPerFailure == paid <= Kept(file) + ends

\* A complete checkpoint of the first capture can be replayed offline: it has the full
\* cohort, one answer for each of its ASINs and in their order (a second one would be
\* rejected as a duplicate), and the enrichment if and only if its credit plan has it,
\* however often and with whatever options the capture was stopped and run again.
CompleteIsReplayable ==
    file # NoFile /\ ~temporal =>
      \/ file.status # "COMPLETE"
      \/ /\ file.cohort = CohortSize
        /\ file.reverse = [i \in Asin |-> i]
        /\ file.enrichment = file.plan

\* A temporal capture is found complete only under the rules it was begun with, in whichever
\* invocation that was: resuming does not take the rules of the day for those of the start.
RulesStayFrozen ==
    [][temporal /\ file # NoFile =>
         /\ file'.start = file.start
         /\ pc # "complete" /\ pc' = "complete" => file.start = rules]_vars
----------------------------------------------------------------------------
\* InsufficientIndependentAsins: "Raised before reverse calls when the independent cohort
\* cannot reach 100."
NoReverseCallsForShortCohort ==
    file # NoFile => (file.reverse # <<>> => file.cohort = CohortSize)
=============================================================================
