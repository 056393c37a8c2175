------------------------ MODULE HoldoutCaptureProofs ------------------------
(***************************************************************************)
(* The properties of both captures for any size of the cohort, any rules   *)
(* and any number of invocations.  The argument: an invocation keeps in    *)
(* memory what the file holds, apart from a checkpoint nothing was put in  *)
(* yet, and what was captured is a prefix of the cohort in its order.      *)
(***************************************************************************)
EXTENDS HoldoutCapture, TLAPS

Types ==
    /\ temporal \in BOOLEAN /\ enrich \in BOOLEAN /\ rules \in Rules
    /\ file \in Checkpoint \cup {NoFile} /\ mem \in Checkpoint \cup {NoFile}
    /\ paid \in Nat /\ ends \in Nat

\* The captures of a checkpoint are those of the first ASINs of its cohort, in order.
Counting(n) == [i \in 1..n |-> i]
Prefix(c) ==
    /\ c.reverse = Counting(Len(c.reverse))
    /\ IF c.cohort = NoCohort THEN Len(c.reverse) = 0 ELSE Len(c.reverse) <= c.cohort
\* The first capture keeps no short cohort, and enriches only if its plan says so.
First(c) == ~temporal => /\ c.cohort \in {NoCohort, CohortSize}
                         /\ c.enrichment => c.plan
Captured(c) == c.cohort # NoCohort /\ Len(c.reverse) = c.cohort

\* A live invocation has a copy of the file, or of a fresh checkpoint.
Live ==
    pc \notin {"idle", "load"} =>
      /\ mem \in Checkpoint /\ Prefix(mem) /\ First(mem)
      /\ mem.plan = enrich /\ mem.status # "COMPLETE"
      /\ Kept(mem) = Kept(file)
      /\ file # NoFile => mem.start = file.start
\* Its stages follow each other.
Staged ==
    /\ temporal => ~enrich
    /\ pc = "enrich" => ~temporal /\ enrich /\ ~mem.enrichment
    /\ pc \in {"reverse", "enrich", "rules", "complete"} => mem.cohort # NoCohort /\ file # NoFile
    /\ pc \in {"enrich", "rules", "complete"} => Captured(mem)
    /\ pc \in {"complete", "rules"} => temporal \/ mem.enrichment = enrich
Filed ==
    file # NoFile =>
      /\ Prefix(file) /\ First(file)
      /\ ~temporal /\ file.status = "COMPLETE" => Captured(file) /\ file.enrichment = file.plan

HoldInv == Types /\ Live /\ Staged /\ Filed /\ OneAnswerLostPerFailure

-----------------------------------------------------------------------------

\* What is kept of a checkpoint: its cohort, its captures and its enrichment.
Cohorts(c) == IF c.cohort = NoCohort THEN 0 ELSE 1
Enrichments(c) == IF c.enrichment THEN 1 ELSE 0

LEMMA KeptOf ==
    ASSUME NEW c \in Checkpoint
    PROVE /\ Kept(c) = Cohorts(c) + Len(c.reverse) + Enrichments(c)
          /\ Cohorts(c) \in Nat /\ Len(c.reverse) \in Nat /\ Enrichments(c) \in Nat
          /\ Kept(c) \in Nat
          /\ c # NoFile
<1>1. c # NoFile
  BY NoFileAssumption
<1>2. c.reverse \in Seq(Asin)
  BY DEF Checkpoint
<1>3. Len(c.reverse) \in Nat
  BY <1>2
<1>4. Kept(c) = Cohorts(c) + Len(c.reverse) + Enrichments(c)
  BY <1>1 DEF Kept, Cohorts, Enrichments
<1>5. Cohorts(c) \in Nat /\ Enrichments(c) \in Nat
  BY DEF Cohorts, Enrichments
<1> QED
  BY <1>1, <1>3, <1>4, <1>5

\* Of the file, whether there is one or not.
LEMMA KeptOfFile ==
    ASSUME Types
    PROVE /\ Kept(file) \in Nat /\ Kept(mem) \in Nat
          /\ file = NoFile => Kept(file) = 0
<1>1. Kept(NoFile) = 0
  BY DEF Kept
<1> QED
  BY <1>1, KeptOf, KeptOf DEF Types

\* The next ASIN is the one after those captured.
LEMMA NextIsNext ==
    ASSUME NEW c \in Checkpoint, mem = c, Prefix(c), c.cohort # NoCohort
    PROVE /\ CohortCaptured <=> Len(c.reverse) = c.cohort
          /\ ~CohortCaptured => NextAsin = Len(c.reverse) + 1 /\ NextAsin \in Asin
<1> DEFINE n == Len(c.reverse)
<1>1. n \in Nat /\ c.cohort \in 0..CohortSize /\ n <= c.cohort
  BY NoCohortAssumption, CohortSizeAssumption DEF Checkpoint, Prefix
<1>2. ToSet(c.reverse) = 1..n
  <2>1. ToSet(c.reverse) = {c.reverse[i] : i \in DOMAIN c.reverse}
    BY DEF ToSet
  <2>2. DOMAIN c.reverse = 1..n /\ \A i \in 1..n : c.reverse[i] = i
    BY <1>1 DEF Prefix, Counting
  <2> QED
    BY <2>1, <2>2
<1>3. CohortCaptured <=> n = c.cohort
  BY <1>1, <1>2, CohortSizeAssumption DEF CohortCaptured
<1>4. ASSUME ~CohortCaptured PROVE NextAsin = n + 1 /\ NextAsin \in Asin
  <2>1. n < c.cohort
    BY <1>1, <1>3, <1>4, CohortSizeAssumption
  <2>2. NextAsin = CHOOSE a \in 1..c.cohort : a \notin 1..n /\ \A b \in 1..(a - 1) : b \in 1..n
    BY <1>2 DEF NextAsin
  <2>3. \A a \in 1..c.cohort : (a \notin 1..n /\ \A b \in 1..(a - 1) : b \in 1..n) <=> a = n + 1
    <3>1. ASSUME NEW a \in 1..c.cohort, a \notin 1..n, \A b \in 1..(a - 1) : b \in 1..n
          PROVE a = n + 1
      <4>1. a > n + 1 => n + 1 \in 1..(a - 1)
        BY <1>1, CohortSizeAssumption
      <4> QED
        BY <1>1, <3>1, <4>1, CohortSizeAssumption
    <3> QED
      BY <1>1, <2>1, <3>1, CohortSizeAssumption
  <2>4. n + 1 \in 1..c.cohort
    BY <1>1, <2>1, CohortSizeAssumption
  <2>5. NextAsin = n + 1
    BY <2>2, <2>3, <2>4
  <2> QED
    BY <1>1, <2>4, <2>5, CohortSizeAssumption DEF Asin
<1> QED
  BY <1>3, <1>4

\* With the next capture appended, what was captured still counts up.
LEMMA AppendCounts ==
    ASSUME NEW s \in Seq(Asin), s = Counting(Len(s)), Len(s) + 1 \in Asin
    PROVE  /\ Append(s, Len(s) + 1) = Counting(Len(Append(s, Len(s) + 1)))
           /\ Append(s, Len(s) + 1) \in Seq(Asin)
           /\ Len(Append(s, Len(s) + 1)) = Len(s) + 1
BY DEF Counting, Asin

-----------------------------------------------------------------------------

LEMMA HoldInit == Init => HoldInv
<1> SUFFICES ASSUME Init PROVE HoldInv
  OBVIOUS
<1>1. Kept(file) = 0
  BY DEF Init, Kept
<1>2. Types /\ Live /\ Staged /\ Filed
  BY DEF Init, Types, Live, Staged, Filed
<1> QED
  BY <1>1, <1>2 DEF Init, HoldInv, OneAnswerLostPerFailure

\* Invocations that stop, or find the checkpoint complete, leave only the file behind.
LEMMA Stopped ==
    ASSUME HoldInv, UNCHANGED <<temporal, file, enrich>>, rules' \in Rules,
           pc' = "idle", mem' = NoFile,
           \/ ends' = ends /\ paid' = paid
           \/ ends' = ends + 1 /\ paid' \in {paid, paid + 1}
    PROVE HoldInv'
<1>1. Kept(file) \in Nat
  BY KeptOfFile DEF HoldInv
<1>2. Types' /\ Live' /\ Staged'
  BY DEF HoldInv, Types, Live, Staged
<1>3. Filed'
  BY DEF HoldInv, Filed, Prefix, First, Captured, Counting
<1>4. OneAnswerLostPerFailure'
  <2>1. Kept(file)' = Kept(file)
    BY DEF Kept
  <2> QED
    BY <1>1, <2>1 DEF HoldInv, Types, OneAnswerLostPerFailure
<1> QED
  BY <1>2, <1>3, <1>4 DEF HoldInv

\* A step that touches neither the file nor its copy keeps what is known of them.
LEMMA Untouched ==
    ASSUME HoldInv, UNCHANGED <<temporal, file, mem, enrich, paid, ends>>, rules' \in Rules
    PROVE  /\ Types' /\ Filed' /\ OneAnswerLostPerFailure'
           /\ (pc \notin {"idle", "load"} \/ pc' \in {"idle", "load"}) => Live'
<1>1. Kept(file)' = Kept(file) /\ Kept(mem)' = Kept(mem)
  BY DEF Kept
<1>2. Types' /\ Filed' /\ OneAnswerLostPerFailure'
  BY <1>1 DEF HoldInv, Types, Filed, Prefix, First, Captured, Counting, OneAnswerLostPerFailure
<1>3. ASSUME pc \notin {"idle", "load"} \/ pc' \in {"idle", "load"} PROVE Live'
  BY <1>1, <1>3 DEF HoldInv, Live, Prefix, First, Counting
<1> QED
  BY <1>2, <1>3

\* A checkpoint c that holds as many answers as were paid for since is saved.
LEMMA SaveKeeps ==
    ASSUME HoldInv, NEW c \in Checkpoint, Prefix(c), First(c),
           file' = c, UNCHANGED <<temporal, enrich, rules>>,
           paid' \in Nat, ends' \in Nat, paid' - paid <= Kept(c) - Kept(file) + (ends' - ends),
           mem' \in {c, NoFile},
           ~temporal /\ c.status = "COMPLETE" => Captured(c) /\ c.enrichment = c.plan
    PROVE /\ Types' /\ Filed' /\ OneAnswerLostPerFailure'
          /\ pc' = "idle" => Live'
          /\ mem' = c /\ c.plan = enrich /\ c.status # "COMPLETE" => Live'
<1>1. Kept(file) \in Nat /\ Kept(c) \in Nat /\ c # NoFile
  BY KeptOf, KeptOfFile DEF HoldInv
<1>2. Kept(file)' = Kept(c)
  BY DEF Kept
<1>3. Types'
  BY DEF HoldInv, Types
<1>4. Filed'
  BY DEF Filed, Prefix, First, Captured, Counting
<1>5. OneAnswerLostPerFailure'
  BY <1>1, <1>2 DEF HoldInv, Types, OneAnswerLostPerFailure
<1>6. pc' = "idle" => Live'
  BY DEF Live
<1>7. ASSUME mem' = c, c.plan = enrich, c.status # "COMPLETE" PROVE Live'
  <2>1. Kept(mem)' = Kept(c)
    BY <1>7 DEF Kept
  <2> QED
    BY <1>2, <1>7, <2>1 DEF Live, Prefix, First, Counting
<1> QED
  BY <1>3, <1>4, <1>5, <1>6, <1>7

LEMMA HoldStep == HoldInv /\ [Next]_vars => HoldInv'
<1> SUFFICES ASSUME HoldInv, [Next]_vars PROVE HoldInv'
  OBVIOUS
<1> USE NoFileAssumption, NoCohortAssumption, CohortSizeAssumption
<1>0. Kept(file) \in Nat /\ Kept(mem) \in Nat /\ (file = NoFile => Kept(file) = 0) /\ Types
  BY KeptOfFile DEF HoldInv
<1>1. ASSUME NEW with \in BOOLEAN, Start(with) PROVE HoldInv'
  <2>1. Filed' /\ OneAnswerLostPerFailure'
    <3>1. Kept(file)' = Kept(file)
      BY <1>1 DEF Start, Kept
    <3> QED
      BY <1>1, <3>1 DEF Start, HoldInv, Filed, Prefix, First, Captured, Counting,
         OneAnswerLostPerFailure
  <2> QED
    BY <1>1, <2>1 DEF Start, HoldInv, Types, Live, Staged
<1>2. CASE LoadOrInitialize
  <2>1. CASE file = NoFile
    <3>1. mem' = Fresh /\ pc' = "cohort" /\ UNCHANGED <<temporal, file, enrich, rules, paid, ends>>
      BY <1>2, <2>1 DEF LoadOrInitialize
    <3>2. Fresh \in Checkpoint
      BY <1>0 DEF Types, Fresh, Checkpoint
    <3>3. Kept(Fresh) = 0
      <4>1. Fresh.cohort = NoCohort /\ Fresh.reverse = <<>> /\ ~Fresh.enrichment
        BY DEF Fresh
      <4>2. Cohorts(Fresh) = 0 /\ Enrichments(Fresh) = 0 /\ Len(Fresh.reverse) = 0
        BY <4>1 DEF Cohorts, Enrichments
      <4> QED
        BY <3>2, <4>2, KeptOf
    <3>4. Kept(mem)' = 0 /\ Kept(file)' = 0 /\ Kept(file) = 0
      <4>1. Kept(mem)' = Kept(Fresh) /\ Kept(file)' = Kept(file)
        BY <3>1 DEF Kept
      <4> QED
        BY <1>0, <2>1, <3>3, <4>1
    <3>5. Types' /\ Staged' /\ Filed' /\ OneAnswerLostPerFailure'
      BY <2>1, <3>1, <3>2, <3>4 DEF HoldInv, Types, Staged, Filed, OneAnswerLostPerFailure
    <3>6. Fresh.cohort = NoCohort /\ Fresh.reverse = <<>> /\ Fresh.enrichment = FALSE
          /\ Fresh.plan = enrich /\ Fresh.status = "IN_PROGRESS"
      BY DEF Fresh
    <3>7. Live'
      BY <2>1, <3>1, <3>2, <3>4, <3>6 DEF Live, Prefix, First, Counting
    <3> QED
      BY <3>5, <3>7 DEF HoldInv
  <2>2. CASE file # NoFile /\ pc' = "idle"
    <3>1. mem' = NoFile /\ UNCHANGED <<temporal, file, enrich, rules, paid>>
          /\ ends' \in {ends, ends + 1}
      BY <1>2, <2>2 DEF LoadOrInitialize, Stop
    <3> QED
      BY <1>0, <2>2, <3>1, Stopped DEF Types
  <2>3. CASE file # NoFile /\ pc' # "idle"
    <3>1. /\ file.plan = enrich /\ file.status # "COMPLETE" /\ mem' = file /\ pc' = "cohort"
          /\ UNCHANGED <<temporal, file, enrich, rules, paid, ends>>
      BY <1>2, <2>3 DEF LoadOrInitialize, Stop, PlanMatches
    <3>2. Kept(mem)' = Kept(file) /\ Kept(file)' = Kept(file)
      BY <3>1 DEF Kept
    <3>3. Types' /\ Staged' /\ OneAnswerLostPerFailure'
      BY <3>1, <3>2 DEF HoldInv, Types, Staged, OneAnswerLostPerFailure
    <3>4. Filed'
      BY <3>1 DEF HoldInv, Filed, Prefix, First, Captured, Counting
    <3>5. Live'
      BY <1>0, <2>3, <3>1, <3>2 DEF HoldInv, Types, Filed, Live, Prefix, First, Counting
    <3> QED
      BY <3>3, <3>4, <3>5 DEF HoldInv
  <2> QED
    BY <2>1, <2>2, <2>3
<1>3. CASE HaveCohort
  <2>1. mem \in Checkpoint /\ Len(mem.reverse) \in Nat /\ mem.cohort # NoCohort
    BY <1>3 DEF HaveCohort, HoldInv, Live, Checkpoint
  <2>2. file # NoFile
    <3>1. Kept(mem) >= 1
      <4>1. Cohorts(mem) = 1
        BY <2>1 DEF Cohorts
      <4> QED
        BY <2>1, <4>1, KeptOf
    <3>2. Kept(mem) = Kept(file)
      BY <1>3 DEF HaveCohort, HoldInv, Live
    <3> QED
      BY <1>0, <3>1, <3>2
  <2>3. Staged'
    BY <1>3, <2>2 DEF HaveCohort, HoldInv, Staged
  <2> QED
    BY <1>0, <1>3, <2>3, Untouched DEF HaveCohort, HoldInv, Types
<1>4. ASSUME NEW k \in 0..CohortSize, CaptureCohort(k) PROVE HoldInv'
  <2>1. CASE k < CohortSize /\ ~temporal
    BY <1>0, <1>4, <2>1, Stopped DEF CaptureCohort, Stop, Types
  <2>2. CASE ~(k < CohortSize /\ ~temporal)
    <3> DEFINE c == [mem EXCEPT !.cohort = k]
    <3>1. /\ mem \in Checkpoint /\ mem.cohort = NoCohort /\ Len(mem.reverse) \in Nat
          /\ mem.plan = enrich /\ mem.status # "COMPLETE" /\ Prefix(mem) /\ First(mem)
          /\ Kept(mem) = Kept(file)
      BY <1>4 DEF CaptureCohort, HoldInv, Live, Checkpoint
    <3>2. /\ c \in Checkpoint /\ c.cohort = k /\ c.reverse = mem.reverse
          /\ c.enrichment = mem.enrichment /\ c.plan = mem.plan /\ c.start = mem.start
          /\ c.status = mem.status
      BY <3>1 DEF Checkpoint
    <3>3. /\ mem' = c /\ file' = c /\ paid' = paid + 1
          /\ pc' \in {"block", "reverse"} /\ UNCHANGED <<temporal, enrich, rules, ends>>
      BY <1>4, <2>2 DEF CaptureCohort
    <3> HIDE DEF c
    <3>4. Kept(c) = Kept(mem) + 1
      <4>1. /\ Kept(mem) = Cohorts(mem) + Len(mem.reverse) + Enrichments(mem)
           /\ Kept(c) = Cohorts(c) + Len(c.reverse) + Enrichments(c)
           /\ Cohorts(mem) \in Nat /\ Len(mem.reverse) \in Nat /\ Enrichments(mem) \in Nat
        BY <3>1, <3>2, KeptOf
      <4>2. /\ Cohorts(mem) = 0 /\ Cohorts(c) = 1 /\ Enrichments(c) = Enrichments(mem)
           /\ Len(c.reverse) = Len(mem.reverse)
        BY <3>1, <3>2 DEF Cohorts, Enrichments
      <4> QED
        BY <4>1, <4>2
    <3>5. Prefix(c) /\ First(c)
      BY <2>2, <3>1, <3>2 DEF Prefix, First
    <3>6. /\ paid' \in Nat /\ ends' \in Nat
          /\ paid' - paid <= Kept(c) - Kept(file) + (ends' - ends)
      BY <1>0, <3>1, <3>3, <3>4 DEF Types
    <3>7. Types' /\ Filed' /\ OneAnswerLostPerFailure' /\ Live'
      BY <3>1, <3>2, <3>3, <3>5, <3>6, SaveKeeps
    <3>8. Staged'
      BY <3>2, <3>3, KeptOf DEF HoldInv, Staged
    <3> QED
      BY <3>7, <3>8 DEF HoldInv
  <2> QED
    BY <2>1, <2>2
<1>5. CASE Block
  <2> DEFINE c == [mem EXCEPT !.status = "BLOCKED"]
  <2>1. /\ mem \in Checkpoint /\ Prefix(mem) /\ First(mem) /\ Kept(mem) = Kept(file)
    BY <1>5 DEF Block, HoldInv, Live
  <2>2. /\ c \in Checkpoint /\ c.cohort = mem.cohort /\ c.reverse = mem.reverse
        /\ c.enrichment = mem.enrichment /\ c.plan = mem.plan /\ c.status = "BLOCKED"
    BY <2>1 DEF Checkpoint
  <2>3. /\ mem' = NoFile /\ file' = c /\ pc' = "idle" /\ ends' = ends + 1
        /\ UNCHANGED <<temporal, enrich, rules, paid>>
    BY <1>5 DEF Block, Stop
  <2> HIDE DEF c
  <2>4. Kept(c) = Kept(mem)
    BY <2>1, <2>2, KeptOf DEF Cohorts, Enrichments
  <2>5. Prefix(c) /\ First(c)
    BY <2>1, <2>2 DEF Prefix, First
  <2>6. /\ paid' \in Nat /\ ends' \in Nat
        /\ paid' - paid <= Kept(c) - Kept(file) + (ends' - ends)
    BY <1>0, <2>1, <2>3, <2>4 DEF Types
  <2>7. Types' /\ Filed' /\ OneAnswerLostPerFailure' /\ Live'
    BY <2>2, <2>3, <2>5, <2>6, SaveKeeps
  <2>8. Staged'
    BY <2>3 DEF HoldInv, Staged
  <2> QED
    BY <2>7, <2>8 DEF HoldInv
<1>6. CASE CaptureReverse
  <2> DEFINE c == [mem EXCEPT !.reverse = Append(@, NextAsin)]
  <2>1. /\ mem \in Checkpoint /\ Len(mem.reverse) \in Nat /\ mem.reverse \in Seq(Asin)
        /\ mem.cohort # NoCohort /\ mem.cohort \in 0..CohortSize
        /\ mem.plan = enrich /\ mem.status # "COMPLETE" /\ Prefix(mem) /\ First(mem)
        /\ Kept(mem) = Kept(file) /\ ~CohortCaptured
    BY <1>6 DEF CaptureReverse, HoldInv, Live, Staged, Checkpoint
  <2>2. NextAsin = Len(mem.reverse) + 1 /\ NextAsin \in Asin /\ Len(mem.reverse) # mem.cohort
    BY <2>1, NextIsNext
  <2>3. /\ Append(mem.reverse, NextAsin) = Counting(Len(Append(mem.reverse, NextAsin)))
        /\ Append(mem.reverse, NextAsin) \in Seq(Asin)
        /\ Len(Append(mem.reverse, NextAsin)) = Len(mem.reverse) + 1
    BY <2>1, <2>2, AppendCounts DEF Prefix
  <2>4. /\ c \in Checkpoint /\ c.cohort = mem.cohort /\ c.reverse = Append(mem.reverse, NextAsin)
        /\ c.enrichment = mem.enrichment /\ c.plan = mem.plan /\ c.status = mem.status
    BY <2>1, <2>3 DEF Checkpoint
  <2>5. /\ mem' = c /\ file' = c /\ paid' = paid + 1 /\ pc' = "reverse"
        /\ UNCHANGED <<temporal, enrich, rules, ends>>
    BY <1>6 DEF CaptureReverse, Saved
  <2> HIDE DEF c
  <2>6. Kept(c) = Kept(mem) + 1
    <3>1. /\ Kept(mem) = Cohorts(mem) + Len(mem.reverse) + Enrichments(mem)
         /\ Kept(c) = Cohorts(c) + Len(c.reverse) + Enrichments(c)
         /\ Cohorts(mem) \in Nat /\ Len(mem.reverse) \in Nat /\ Enrichments(mem) \in Nat
      BY <2>1, <2>3, <2>4, KeptOf
    <3>2. /\ Cohorts(c) = Cohorts(mem) /\ Enrichments(c) = Enrichments(mem)
         /\ Len(c.reverse) = Len(mem.reverse) + 1
      BY <2>1, <2>3, <2>4 DEF Cohorts, Enrichments
    <3> QED
      BY <3>1, <3>2
  <2>7. Prefix(c) /\ First(c)
    BY <2>1, <2>2, <2>3, <2>4 DEF Prefix, First
  <2>8. /\ paid' \in Nat /\ ends' \in Nat
        /\ paid' - paid <= Kept(c) - Kept(file) + (ends' - ends)
    BY <1>0, <2>1, <2>5, <2>6 DEF Types
  <2>9. Types' /\ Filed' /\ OneAnswerLostPerFailure' /\ Live'
    BY <2>1, <2>4, <2>5, <2>7, <2>8, SaveKeeps
  <2>10. Staged'
    BY <2>1, <2>4, <2>5, KeptOf DEF HoldInv, Staged
  <2> QED
    BY <2>9, <2>10 DEF HoldInv
<1>7. CASE ReverseDone
  <2>1. /\ mem \in Checkpoint /\ Prefix(mem) /\ First(mem) /\ mem.cohort # NoCohort
        /\ mem.plan = enrich /\ mem.enrichment \in BOOLEAN /\ CohortCaptured /\ file # NoFile
    BY <1>7 DEF ReverseDone, HoldInv, Live, Staged, Checkpoint
  <2>2. Captured(mem)
    BY <2>1, NextIsNext DEF Captured
  <2>3. Staged'
    <3>1. /\ pc' = IF temporal THEN "rules"
                   ELSE IF enrich /\ ~mem.enrichment THEN "enrich" ELSE "complete"
          /\ UNCHANGED <<temporal, file, mem, enrich>>
      BY <1>7 DEF ReverseDone
    <3>2. Captured(mem)'
      BY <2>2, <3>1 DEF Captured
    <3>3. pc' = "complete" => ~temporal /\ mem.enrichment = enrich
      <4>1. enrich \in BOOLEAN
        BY <1>0 DEF Types
      <4>2. pc' = "complete" => ~temporal /\ (mem.enrichment \/ ~enrich)
        BY <3>1
      <4>3. ~temporal /\ mem.enrichment => enrich
        BY <2>1 DEF First
      <4> QED
        BY <2>1, <4>1, <4>2, <4>3
    <3>4. pc' \in {"rules", "enrich", "complete"}
      BY <3>1
    <3> QED
      BY <2>1, <3>1, <3>2, <3>3, <3>4 DEF HoldInv, Staged
  <2> QED
    BY <1>0, <1>7, <2>3, Untouched DEF ReverseDone, HoldInv, Types
<1>8. CASE CaptureEnrichment
  <2> DEFINE c == [mem EXCEPT !.enrichment = TRUE]
  <2>1. /\ mem \in Checkpoint /\ Prefix(mem) /\ First(mem) /\ Kept(mem) = Kept(file)
        /\ mem.plan = enrich /\ mem.status # "COMPLETE" /\ Captured(mem) /\ ~temporal
    BY <1>8 DEF CaptureEnrichment, HoldInv, Live, Staged
  <2>2. enrich /\ ~mem.enrichment
    BY <1>8 DEF CaptureEnrichment, HoldInv, Staged
  <2>3. /\ c \in Checkpoint /\ c.cohort = mem.cohort /\ c.reverse = mem.reverse
        /\ c.enrichment = TRUE /\ c.plan = mem.plan /\ c.status = mem.status
    BY <2>1 DEF Checkpoint
  <2>4. /\ mem' = c /\ file' = c /\ pc' = "complete" /\ paid' = paid + 1
        /\ UNCHANGED <<temporal, enrich, rules, ends>>
    BY <1>8 DEF CaptureEnrichment
  <2> HIDE DEF c
  <2>5. Kept(c) = Kept(mem) + 1
    <3>1. /\ Kept(mem) = Cohorts(mem) + Len(mem.reverse) + Enrichments(mem)
         /\ Kept(c) = Cohorts(c) + Len(c.reverse) + Enrichments(c)
         /\ Cohorts(mem) \in Nat /\ Len(mem.reverse) \in Nat /\ Enrichments(mem) \in Nat
      BY <2>1, <2>2, <2>3, KeptOf
    <3>2. /\ Cohorts(c) = Cohorts(mem) /\ Enrichments(mem) = 0 /\ Enrichments(c) = 1
         /\ Len(c.reverse) = Len(mem.reverse)
      BY <2>1, <2>2, <2>3 DEF Cohorts, Enrichments
    <3> QED
      BY <3>1, <3>2
  <2>6. Prefix(c) /\ First(c)
    BY <2>1, <2>2, <2>3 DEF Prefix, First
  <2>7. /\ paid' \in Nat /\ ends' \in Nat
        /\ paid' - paid <= Kept(c) - Kept(file) + (ends' - ends)
    BY <1>0, <2>1, <2>4, <2>5 DEF Types
  <2>8. Types' /\ Filed' /\ OneAnswerLostPerFailure' /\ Live'
    BY <2>1, <2>3, <2>4, <2>6, <2>7, SaveKeeps
  <2>9. Staged'
    BY <2>1, <2>2, <2>3, <2>4, KeptOf DEF HoldInv, Staged, Captured
  <2> QED
    BY <2>8, <2>9 DEF HoldInv
<1>9. CASE CompareRules
  <2>1. CASE pc' = "idle"
    BY <1>0, <1>9, <2>1, Stopped DEF CompareRules, Stop, Types
  <2>2. CASE pc' # "idle"
    <3>1. pc = "rules" /\ pc' = "complete" /\ UNCHANGED <<temporal, file, mem, enrich, rules, paid, ends>>
      BY <1>9, <2>2 DEF CompareRules, Stop
    <3>2. Staged'
      BY <3>1 DEF HoldInv, Staged, Captured
    <3> QED
      BY <1>0, <3>1, <3>2, Untouched DEF HoldInv, Types
  <2> QED
    BY <2>1, <2>2
<1>10. CASE Complete
  <2> DEFINE c == [mem EXCEPT !.status = "COMPLETE"]
  <2>1. /\ mem \in Checkpoint /\ Prefix(mem) /\ First(mem) /\ Kept(mem) = Kept(file)
        /\ mem.plan = enrich /\ Captured(mem) /\ (temporal \/ mem.enrichment = enrich)
    BY <1>10 DEF Complete, HoldInv, Live, Staged
  <2>2. /\ c \in Checkpoint /\ c.cohort = mem.cohort /\ c.reverse = mem.reverse
        /\ c.enrichment = mem.enrichment /\ c.plan = mem.plan
    BY <2>1 DEF Checkpoint
  <2>3. /\ mem' = NoFile /\ file' = c /\ pc' = "idle"
        /\ UNCHANGED <<temporal, enrich, rules, paid, ends>>
    BY <1>10 DEF Complete
  <2> HIDE DEF c
  <2>4. Kept(c) = Kept(mem)
    BY <2>1, <2>2, KeptOf DEF Cohorts, Enrichments
  <2>5. Prefix(c) /\ First(c) /\ (~temporal => Captured(c) /\ c.enrichment = c.plan)
    BY <2>1, <2>2 DEF Prefix, First, Captured
  <2>6. /\ paid' \in Nat /\ ends' \in Nat
        /\ paid' - paid <= Kept(c) - Kept(file) + (ends' - ends)
    BY <1>0, <2>1, <2>3, <2>4 DEF Types
  <2>7. Types' /\ Filed' /\ OneAnswerLostPerFailure' /\ Live'
    BY <2>2, <2>3, <2>5, <2>6, SaveKeeps
  <2>8. Staged'
    BY <2>3 DEF HoldInv, Staged
  <2> QED
    BY <2>7, <2>8 DEF HoldInv
<1>11. CASE Fail
  <2>1. /\ paid' \in {paid, paid + 1} /\ pc' = "idle" /\ mem' = NoFile /\ ends' = ends + 1
        /\ UNCHANGED <<temporal, file, enrich, rules>>
    BY <1>11 DEF Fail, Stop
  <2> QED
    BY <1>0, <2>1, Stopped DEF Types
<1>12. CASE EditRules
  <2>1. UNCHANGED <<temporal, file, mem, pc, enrich, paid, ends>> /\ rules' \in Rules
    BY <1>12 DEF EditRules
  <2>2. Staged'
    BY <2>1 DEF HoldInv, Staged, Captured
  <2> QED
    BY <2>1, <2>2, Untouched DEF HoldInv
<1>13. CASE UNCHANGED vars
  <2>1. UNCHANGED <<temporal, file, mem, pc, enrich, rules, paid, ends>>
    BY <1>13 DEF vars
  <2>2. Staged'
    BY <2>1 DEF HoldInv, Staged, Captured
  <2> QED
    BY <1>0, <2>1, <2>2, Untouched DEF HoldInv, Types
<1> QED
  BY <1>1, <1>2, <1>3, <1>4, <1>5, <1>6, <1>7, <1>8, <1>9, <1>10, <1>11, <1>12, <1>13 DEF Next

-----------------------------------------------------------------------------

LEMMA HoldAlways == Spec => []HoldInv
BY HoldInit, HoldStep, PTL DEF Spec

\* An invocation of either capture that ends early, wherever it does, loses at most the one
\* answer it was waiting for.
THEOREM LossAlways == Spec => []OneAnswerLostPerFailure
<1>1. HoldInv => OneAnswerLostPerFailure
  BY DEF HoldInv
<1> QED
  BY HoldAlways, <1>1, PTL

\* A complete checkpoint of the first capture has the full cohort, its answers in order, and
\* the enrichment if and only if its credit plan has it.
THEOREM ReplayableAlways == Spec => []CompleteIsReplayable
<1>1. HoldInv => CompleteIsReplayable
  <2> SUFFICES ASSUME HoldInv, file # NoFile, ~temporal, file.status = "COMPLETE"
               PROVE /\ file.cohort = CohortSize
                     /\ file.reverse = [i \in Asin |-> i]
                     /\ file.enrichment = file.plan
    BY DEF CompleteIsReplayable
  <2>1. Captured(file) /\ First(file) /\ Prefix(file) /\ file.enrichment = file.plan
    BY DEF HoldInv, Filed
  <2>2. file.cohort = CohortSize /\ Len(file.reverse) = CohortSize
    BY <2>1 DEF Captured, First
  <2> QED
    BY <2>1, <2>2 DEF Prefix, Counting, Asin
<1> QED
  BY HoldAlways, <1>1, PTL

\* A temporal capture is found complete only under the rules it was begun with.
THEOREM FrozenAlways == Spec => RulesStayFrozen
<1> DEFINE Frozen == temporal /\ file # NoFile =>
                       /\ file'.start = file.start
                       /\ pc # "complete" /\ pc' = "complete" => file.start = rules
<1>1. HoldInv /\ [Next]_vars => [Frozen]_vars
  <2> SUFFICES ASSUME HoldInv, Next, temporal, file # NoFile
               PROVE /\ file'.start = file.start
                     /\ pc # "complete" /\ pc' = "complete" => file.start = rules
    OBVIOUS
  <2>1. pc \notin {"idle", "load"} => mem \in Checkpoint /\ mem.start = file.start
    BY DEF HoldInv, Live
  <2>2. file'.start = file.start
    <3>1. CASE file' = file
      BY <3>1
    <3>2. ASSUME NEW k \in 0..CohortSize, CaptureCohort(k), file' # file PROVE file'.start = mem.start
      BY <2>1, <3>2 DEF CaptureCohort, Checkpoint
    <3>3. CASE Block
      BY <2>1, <3>3 DEF Block, Checkpoint
    <3>4. CASE CaptureReverse
      BY <2>1, <3>4 DEF CaptureReverse, Saved, Checkpoint
    <3>5. CASE CaptureEnrichment
      BY <2>1, <3>5 DEF CaptureEnrichment, Checkpoint
    <3>6. CASE Complete
      BY <2>1, <3>6 DEF Complete, Checkpoint
    <3>7. file' # file => \/ \E k \in 0..CohortSize : CaptureCohort(k) /\ pc = "cohort"
                          \/ Block \/ CaptureReverse \/ CaptureEnrichment \/ Complete
      BY DEF Next, Start, LoadOrInitialize, HaveCohort, ReverseDone, CompareRules, Fail, EditRules,
         CaptureCohort
    <3> QED
      BY <2>1, <3>1, <3>2, <3>3, <3>4, <3>5, <3>6, <3>7
  <2>3. pc # "complete" /\ pc' = "complete" => file.start = rules
    <3>1. pc # "complete" /\ pc' = "complete" => CompareRules \/ ReverseDone \/ CaptureEnrichment
      BY DEF Next, Start, LoadOrInitialize, HaveCohort, CaptureCohort, Block, CaptureReverse,
         Complete, Fail, EditRules, Stop
    <3>2. CASE CompareRules
      BY <2>1, <3>2 DEF CompareRules, Stop
    <3>3. ReverseDone => pc' # "complete"
      BY DEF ReverseDone
    <3>4. ~CaptureEnrichment
      BY DEF CaptureEnrichment, HoldInv, Staged
    <3> QED
      BY <3>1, <3>2, <3>3, <3>4
  <2> QED
    BY <2>2, <2>3
<1> QED
  BY HoldAlways, <1>1, PTL DEF Spec, RulesStayFrozen
=============================================================================
