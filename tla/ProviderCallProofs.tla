------------------------- MODULE ProviderCallProofs -------------------------
(***************************************************************************)
(* The operations of a run for any registry, any policy and any number of  *)
(* operations.  The argument: the requests counted by the attempt counter  *)
(* are those that were made to the candidate at hand, as no candidate is   *)
(* listed twice; and the records of an operation are the ones made since   *)
(* it began, the last of which is the one its adapter looks at.            *)
(***************************************************************************)
EXTENDS ProviderCall, FiniteSetTheorems, SequenceTheorems, TLAPS

\* What the policy of a provider allows.
Limit(p) == IF p \in Bounded THEN MaxAttempts[p] ELSE 1

\* There is an operation, and at most times a candidate.
Working ==
    /\ pc # "done" => op <= NumOps
    /\ pc \in {"attempt", "judge", "adapt", "accepted", "raised"} => at <= Len(candidates)

\* The records since the operation began are its own.
Filed ==
    \A i \in 1..Len(records) : IF i <= before THEN records[i].op < op ELSE records[i].op = op

\* The last record is of the candidate at hand, once that was asked.
LastIsCurrent ==
    /\ before < Len(records)
    /\ Last(records).provider = candidates[at]
Current ==
    /\ pc = "judge" => LastIsCurrent /\ Last(records).code = error
    /\ pc \in {"adapt", "accepted"} =>
         LastIsCurrent /\ Last(records).code = "OK" /\ Last(records).answered /\ error = "OK"
    /\ pc = "attempt" /\ attempt > 1 => LastIsCurrent /\ Last(records).code \in Transient

\* Only candidates were asked, in their order.
Asked ==
    \A i \in 1..Len(wire) :
      /\ wire[i].op <= op
      /\ wire[i].op = op =>
           \E j \in 1..Len(candidates) : /\ wire[i].provider = candidates[j]
                                         /\ j <= at
                                         /\ pc = "candidate" => j < at

\* The attempt counter counts the requests to the candidate at hand.
Counts ==
    /\ pc = "attempt" => /\ Cardinality(Requests(op, candidates[at])) = attempt - 1
                         /\ attempt <= Limit(candidates[at])
    /\ pc = "judge" => Cardinality(Requests(op, candidates[at])) = attempt

Unanswered == pc # "accepted" =>
    \A i \in 1..Len(answers) : answers[i] \notin {"empty", "returned"}

Results ==
    /\ pc # "failed" => Len(logical) = op - 1
    /\ \A o \in 1..Len(logical) : logical[o].status = "SUCCEEDED" => o < op

\* What the summary holds so far.
Attempts(o) == {i \in 1..Len(counted) : counted[i] = o}
Summed ==
    /\ pc = "done" => before = Len(records)
    /\ counted = [i \in 1..(IF pc = "failed" THEN Len(records) ELSE before) |-> records[i].op]
    /\ \A o \in 1..Len(logical) : logical[o].attempts = Cardinality(Attempts(o))

\* A single candidate leaves a record for each request, unless its last one was never
\* classified; and it is passed over for a transient error when no attempt is left.
Unclassified == IF error = "UNCLASSIFIED" THEN 1 ELSE 0
Single ==
    /\ error = "UNCLASSIFIED" <=> pc = "raised" \/ (pc = "failed" /\ at <= Len(candidates))
    /\ Len(candidates) = 1 =>
         /\ Len(records) - before + Unclassified = Cardinality(Requests(op, candidates[1]))
         /\ pc \in {"candidate", "failed"} /\ at > 1 =>
              /\ before < Len(records) /\ Last(records).code = error
              /\ error \in Transient =>
                   Cardinality(Requests(op, candidates[1])) = Limit(candidates[1])

Reported ==
    pc = "failed" => (failure = "BOUNDED_RETRY_EXHAUSTED" <=> Exhausted(Slice))

CallInv ==
    /\ TypeOK /\ Working /\ Filed /\ Current /\ Asked /\ Counts /\ Unanswered /\ Results
    /\ Summed /\ Single /\ Reported
    /\ AttemptsAreBounded /\ CheckpointHoldsAcceptedResponse

Record == [op : 1..NumOps, provider : Provider, code : StatusCode \cup RaisedCode,
           answered : BOOLEAN]
Request == [op : 1..NumOps, provider : Provider]

-----------------------------------------------------------------------------

\* The records of the operation at hand, one by one.
LEMMA SliceOf ==
    ASSUME TypeOK
    PROVE /\ Slice \in Seq(Record) /\ Len(Slice) = Len(records) - before
          /\ \A i \in 1..Len(Slice) : Slice[i] = records[before + i]
<1>1. records \in Seq(Record) /\ Len(records) \in Nat /\ before \in Nat /\ before <= Len(records)
  BY DEF TypeOK, Record
<1>2. \A i \in (before + 1)..Len(records) : records[i] \in Record
  BY <1>1
<1> QED
  BY <1>1, <1>2, SubSeqProperties DEF Slice

LEMMA RequestsFinite ==
    ASSUME TypeOK, NEW o, NEW p
    PROVE  IsFiniteSet(Requests(o, p)) /\ Cardinality(Requests(o, p)) \in Nat
           /\ Requests(o, p) \subseteq 1..Len(wire)
<1>1. Len(wire) \in Nat
  BY DEF TypeOK
<1>2. Requests(o, p) \in SUBSET (1..Len(wire))
  BY DEF Requests
<1>3. IsFiniteSet(1..Len(wire))
  BY <1>1, FS_Interval
<1> QED
  BY <1>2, <1>3, FS_Subset, FS_CardinalityType

\* One more request counts for its operation and its provider alone.
LEMMA OneMore ==
    ASSUME TypeOK, op \in 1..NumOps, candidates[at] \in Provider,
           wire' = Append(wire, [op |-> op, provider |-> candidates[at]])
    PROVE  /\ wire' \in Seq([op : 1..NumOps, provider : Provider])
           /\ Len(wire') = Len(wire) + 1
           /\ \A i \in 1..Len(wire) : wire'[i] = wire[i]
           /\ wire'[Len(wire) + 1] = [op |-> op, provider |-> candidates[at]]
           /\ \A o, p : Cardinality(Requests(o, p)') =
                IF o = op /\ p = candidates[at] THEN Cardinality(Requests(o, p)) + 1
                ELSE Cardinality(Requests(o, p))
<1> DEFINE w == [op |-> op, provider |-> candidates[at]]
<1>1. w \in [op : 1..NumOps, provider : Provider] /\ w.op = op /\ w.provider = candidates[at]
  OBVIOUS
<1>2. wire \in Seq([op : 1..NumOps, provider : Provider]) /\ Len(wire) \in Nat
  BY DEF TypeOK
<1>3. /\ wire' \in Seq([op : 1..NumOps, provider : Provider])
      /\ Len(wire') = Len(wire) + 1
      /\ \A i \in 1..Len(wire) : wire'[i] = wire[i]
      /\ wire'[Len(wire) + 1] = w
  BY <1>1, <1>2, AppendProperties
<1> HIDE DEF w
<1>4. ASSUME NEW o, NEW p
      PROVE Cardinality(Requests(o, p)') =
              IF o = op /\ p = candidates[at] THEN Cardinality(Requests(o, p)) + 1
              ELSE Cardinality(Requests(o, p))
  <2>1. Requests(o, p)' = {i \in 1..(Len(wire) + 1) : wire'[i].op = o /\ wire'[i].provider = p}
    BY <1>3 DEF Requests
  <2>2. CASE o = op /\ p = candidates[at]
    <3>1. Requests(o, p)' = Requests(o, p) \cup {Len(wire) + 1}
      BY <1>1, <1>2, <1>3, <2>1, <2>2 DEF Requests
    <3>2. Len(wire) + 1 \notin Requests(o, p)
      BY <1>2 DEF Requests
    <3>3. IsFiniteSet(Requests(o, p))
      BY RequestsFinite
    <3>4. Cardinality(Requests(o, p) \cup {Len(wire) + 1}) = Cardinality(Requests(o, p)) + 1
      BY <3>2, <3>3, FS_AddElement
    <3> QED
      BY <2>2, <3>1, <3>4
  <2>3. CASE ~(o = op /\ p = candidates[at])
    <3>1. Requests(o, p)' = Requests(o, p)
      BY <1>1, <1>2, <1>3, <2>1, <2>3 DEF Requests
    <3> QED
      BY <2>3, <3>1
  <2> QED
    BY <2>2, <2>3
<1> QED
  BY <1>3, <1>4 DEF w

\* The candidate at hand is a provider, its limit positive, and no other position has it.
LEMMA CandidateOf ==
    ASSUME TypeOK, at <= Len(candidates)
    PROVE  /\ at \in 1..Len(candidates) /\ candidates[at] \in Provider
           /\ \A j \in 1..Len(candidates) : candidates[j] = candidates[at] => j = at
           /\ Limit(candidates[at]) \in Nat \ {0}
<1>1. at \in 1..Len(candidates) /\ candidates \in Seq(Provider)
      /\ (\A i, j \in 1..Len(candidates) : candidates[i] = candidates[j] => i = j)
  BY RegistriesAssumption DEF TypeOK
<1> QED
  BY <1>1, PolicyAssumption DEF Limit

\* What _record_transport_attempts adds are the records of the operation.
LEMMA Recorded ==
    ASSUME CallInv, pc # "failed", pc # "done", RecordAttempts
    PROVE  /\ counted' = [i \in 1..Len(records) |-> records[i].op]
           /\ counted' \in Seq(1..NumOps)
           /\ \A o \in 1..(op - 1) : Attempts(o)' = Attempts(o)
           /\ \A o : o = op => Cardinality(Attempts(o)') = Len(Slice)
<1>1. /\ records \in Seq(Record) /\ Len(records) \in Nat /\ before \in Nat /\ before <= Len(records)
      /\ op \in 1..NumOps /\ NumOps \in Nat
  BY NumOpsAssumption DEF CallInv, TypeOK, Working, Record
<1>2. Len(Slice) = Len(records) - before
  BY SliceOf DEF CallInv
<1>3. \A i \in 1..Len(records) : IF i <= before THEN records[i].op < op ELSE records[i].op = op
  BY DEF CallInv, Filed
<1>4. counted = [i \in 1..before |-> records[i].op] /\ Len(counted) = before
      /\ counted \in Seq(1..NumOps)
  BY <1>1 DEF CallInv, Summed, TypeOK
<1> DEFINE t == [i \in 1..Len(Slice) |-> op]
<1>5. t \in Seq(1..NumOps) /\ Len(t) = Len(records) - before
  BY <1>1, <1>2
<1>6. /\ counted' \in Seq(1..NumOps) /\ Len(counted') = Len(records)
      /\ \A i \in 1..Len(records) : counted'[i] = IF i <= before THEN counted[i] ELSE t[i - before]
  <2>1. counted' = counted \o t
    BY DEF RecordAttempts
  <2> HIDE DEF t
  <2> QED
    BY <1>1, <1>4, <1>5, <2>1, ConcatProperties
<1>7. ASSUME NEW i \in 1..Len(records) PROVE counted'[i] = records[i].op
  <2>1. CASE i <= before
    <3>1. i \in 1..before
      BY <1>1, <2>1
    <3>2. counted[i] = records[i].op
      BY <1>4, <3>1
    <3> QED
      BY <1>6, <2>1, <3>2
  <2>2. CASE ~(i <= before)
    <3>1. i - before \in 1..Len(Slice)
      BY <1>1, <1>2, <2>2
    <3>2. t[i - before] = op
      BY <3>1
    <3>3. records[i].op = op
      BY <1>3, <2>2
    <3> HIDE DEF t
    <3> QED
      BY <1>6, <2>2, <3>2, <3>3
  <2> QED
    BY <2>1, <2>2
<1>8. counted' = [i \in 1..Len(records) |-> records[i].op]
  <2>1. DOMAIN counted' = 1..Len(records) /\ counted' = [i \in DOMAIN counted' |-> counted'[i]]
    BY <1>6
  <2> QED
    BY <1>7, <2>1
<1>9. \A o : Attempts(o)' = {i \in 1..Len(records) : records[i].op = o}
  BY <1>6, <1>7 DEF Attempts
<1>10. ASSUME NEW o \in 1..(op - 1) PROVE Attempts(o)' = Attempts(o)
  <2>1. \A i \in 1..Len(records) : records[i].op = o => i <= before
    BY <1>1, <1>3
  <2>2. Attempts(o) = {i \in 1..before : records[i].op = o}
    BY <1>4 DEF Attempts
  <2> QED
    BY <1>1, <1>9, <2>1, <2>2
<1>11. ASSUME NEW o, o = op PROVE Cardinality(Attempts(o)') = Len(Slice)
  <2>1. Attempts(o)' = (before + 1)..Len(records)
    <3>1. Attempts(o)' = {i \in 1..Len(records) : records[i].op = op}
      BY <1>9, <1>11
    <3>2. \A i \in 1..Len(records) : records[i].op = op <=> i > before
      BY <1>1, <1>3
    <3>3. Attempts(o)' = {i \in 1..Len(records) : i > before}
      BY <3>1, <3>2
    <3>4. {i \in 1..Len(records) : i > before} = (before + 1)..Len(records)
      BY <1>1
    <3> QED
      BY <3>3, <3>4
  <2>2. Cardinality((before + 1)..Len(records)) = Len(records) - before
    <3>1. before + 1 \in Int /\ Len(records) \in Int
      BY <1>1
    <3>2. Cardinality((before + 1)..Len(records)) =
            IF before + 1 > Len(records) THEN 0 ELSE Len(records) - (before + 1) + 1
      BY <3>1, FS_Interval
    <3> QED
      BY <1>1, <3>2
  <2> QED
    BY <1>2, <2>1, <2>2
<1> QED
  BY <1>6, <1>8, <1>10, <1>11

\* Steps inside an operation that ask nobody leave these parts alone.
LEMMA Steady ==
    ASSUME CallInv, pc \notin {"done", "failed"}, pc' \notin {"done", "failed"},
           UNCHANGED <<candidates, op, records, before, counted, logical, failure, wire>>
    PROVE  /\ Filed' /\ Results' /\ Summed' /\ Reported'
           /\ AttemptsAreBounded' /\ CheckpointHoldsAcceptedResponse'
<1>1. Filed' /\ Results' /\ Reported'
  BY DEF CallInv, Filed, Results, Reported
<1>2. Summed'
  <2>1. \A o : Attempts(o)' = Attempts(o)
    BY DEF Attempts
  <2> QED
    BY <2>1 DEF CallInv, Summed
<1>3. AttemptsAreBounded'
  <2>1. \A o, p : Requests(o, p)' = Requests(o, p)
    BY DEF Requests
  <2> QED
    BY <2>1 DEF CallInv, AttemptsAreBounded
<1>4. CheckpointHoldsAcceptedResponse'
  BY DEF CallInv, CheckpointHoldsAcceptedResponse
<1> QED
  BY <1>1, <1>2, <1>3, <1>4

LEMMA CallInit == Init => CallInv
<1> SUFFICES ASSUME Init PROVE CallInv
  OBVIOUS
<1> USE NumOpsAssumption, RegistriesAssumption, PolicyAssumption
<1>1. \A o, p : Requests(o, p) = {} /\ Cardinality(Requests(o, p)) = 0
  BY FS_EmptySet DEF Init, Requests
<1>2. TypeOK
  BY DEF Init, TypeOK, StatusCode
<1>3. Working /\ Filed /\ Current /\ Asked /\ Counts /\ Unanswered /\ Results /\ Reported
  BY DEF Init, Working, Filed, Current, Asked, Counts, Unanswered, Results, Reported
<1>4. Summed
  BY DEF Init, Summed
<1>5. Single
  BY <1>1 DEF Init, Single, Unclassified
<1>6. AttemptsAreBounded
  <2>1. \A p \in Provider : (IF p \in Bounded THEN MaxAttempts[p] ELSE 1) \in Nat
    OBVIOUS
  <2> QED
    BY <1>1, <2>1 DEF AttemptsAreBounded
<1>7. CheckpointHoldsAcceptedResponse
  BY DEF Init, CheckpointHoldsAcceptedResponse
<1> QED
  BY <1>2, <1>3, <1>4, <1>5, <1>6, <1>7 DEF CallInv

LEMMA TakeStep == CallInv /\ TakeCandidate => CallInv'
<1> SUFFICES ASSUME CallInv, TakeCandidate PROVE CallInv'
  OBVIOUS
<1>1. /\ pc = "candidate" /\ pc' = "attempt" /\ attempt' = 1 /\ at <= Len(candidates)
      /\ UNCHANGED <<candidates, op, at, error, records, before, tried, counted, logical,
                     failure, answers, wire>>
  BY DEF TakeCandidate
<1>2. \A o, p : Requests(o, p)' = Requests(o, p)
  BY <1>1 DEF Requests
<1>3. TypeOK' /\ Working' /\ Current' /\ Asked' /\ Unanswered'
  BY <1>1 DEF CallInv, TypeOK, Working, Current, Asked, Unanswered
<1>4. Counts'
  <2>1. \A i \in 1..Len(wire) : ~(wire[i].op = op /\ wire[i].provider = candidates[at])
    <3>1. \A j \in 1..Len(candidates) : candidates[j] = candidates[at] => j = at
      BY <1>1, CandidateOf DEF CallInv
    <3>2. ASSUME NEW i \in 1..Len(wire), wire[i].op = op
          PROVE \E j \in 1..Len(candidates) : wire[i].provider = candidates[j] /\ j < at
      BY <1>1, <3>2 DEF CallInv, Asked
    <3>3. at \in Nat /\ \A j \in 1..Len(candidates) : j < at => j # at
      BY DEF CallInv, TypeOK
    <3> QED
      BY <3>1, <3>2, <3>3
  <2>2. Requests(op, candidates[at]) = {}
    BY <2>1 DEF Requests
  <2>3. Cardinality(Requests(op, candidates[at])) = 0
    BY <2>2, FS_EmptySet
  <2>4. Limit(candidates[at]) \in Nat \ {0}
    BY <1>1, CandidateOf DEF CallInv
  <2>5. Cardinality(Requests(op, candidates[at]))' = 0 /\ Limit(candidates[at])' \in Nat \ {0}
    <3>1. Limit(candidates[at])' = Limit(candidates[at])
      BY <1>1 DEF Limit
    <3> QED
      BY <1>1, <1>2, <2>3, <2>4, <3>1
  <2> QED
    BY <1>1, <2>5 DEF Counts
<1>5. Single'
  BY <1>1, <1>2 DEF CallInv, Single, Unclassified
<1> QED
  BY <1>1, <1>3, <1>4, <1>5, Steady DEF CallInv

LEMMA RetryStep == CallInv /\ Retry => CallInv'
<1> SUFFICES ASSUME CallInv, Retry PROVE CallInv'
  OBVIOUS
<1>1. /\ pc = "judge" /\ pc' = "attempt" /\ attempt' = attempt + 1
      /\ ShouldRetry(candidates[at]) /\ attempt + 1 <= MaxAttempts[candidates[at]]
      /\ UNCHANGED <<candidates, op, at, error, records, before, tried, counted, logical,
                     failure, answers, wire>>
  BY DEF Retry
<1>2. \A o, p : Requests(o, p)' = Requests(o, p)
  BY <1>1 DEF Requests
<1>3. candidates[at] \in Bounded /\ error \in Transient
  BY <1>1 DEF ShouldRetry
<1>4. TypeOK' /\ Working' /\ Asked' /\ Unanswered'
  BY <1>1 DEF CallInv, TypeOK, Working, Asked, Unanswered
<1>5. Current'
  BY <1>1, <1>3 DEF CallInv, Current, LastIsCurrent
<1>6. Counts'
  <2>1. Cardinality(Requests(op, candidates[at])) = attempt /\ attempt \in Nat
    BY <1>1 DEF CallInv, Counts, TypeOK
  <2>2. Cardinality(Requests(op, candidates[at]))' = Cardinality(Requests(op, candidates[at]))
    BY <1>1, <1>2
  <2>3. Limit(candidates[at])' = MaxAttempts[candidates[at]]
    BY <1>1, <1>3 DEF Limit
  <2> QED
    BY <1>1, <2>1, <2>2, <2>3 DEF Counts
<1>7. Single'
  BY <1>1, <1>2 DEF CallInv, Single, Unclassified
<1> QED
  BY <1>1, <1>4, <1>5, <1>6, <1>7, Steady DEF CallInv

\* The candidate is passed over after an error that is not retried.
LEMMA GiveUpStep == CallInv /\ GiveUp => CallInv'
<1> SUFFICES ASSUME CallInv, GiveUp PROVE CallInv'
  OBVIOUS
<1>1. /\ pc = "judge" /\ pc' = "candidate" /\ ~ShouldRetry(candidates[at])
      /\ tried' = Append(tried, "FAILED") /\ at' = at + 1
      /\ UNCHANGED <<candidates, op, attempt, error, records, before, counted, logical,
                     failure, answers, wire>>
  BY DEF GiveUp, PassOver
<1>2. \A o, p : Requests(o, p)' = Requests(o, p)
  BY <1>1 DEF Requests
<1>3. at <= Len(candidates) /\ at \in Nat /\ Len(candidates) \in Nat /\ at >= 1
  BY <1>1, RegistriesAssumption DEF CallInv, Working, TypeOK
<1>4. TypeOK' /\ Working' /\ Current' /\ Counts' /\ Unanswered'
  BY <1>1, <1>3 DEF CallInv, TypeOK, Working, Current, Counts, Unanswered
<1>5. Asked'
  <2> SUFFICES ASSUME NEW i \in 1..Len(wire)
               PROVE /\ wire[i].op <= op
                     /\ wire[i].op = op =>
                          \E j \in 1..Len(candidates) : /\ wire[i].provider = candidates[j]
                                                        /\ j <= at'
                                                        /\ pc' = "candidate" => j < at'
    BY <1>1 DEF Asked
  <2>1. wire[i].op <= op
    BY DEF CallInv, Asked
  <2>2. ASSUME wire[i].op = op
        PROVE \E j \in 1..Len(candidates) : wire[i].provider = candidates[j] /\ j <= at
    BY <2>2 DEF CallInv, Asked
  <2> QED
    BY <1>1, <1>3, <2>1, <2>2
<1>6. Single'
  <2>1. before < Len(records) /\ Last(records).code = error
    BY <1>1 DEF CallInv, Current, LastIsCurrent
  <2>2. ASSUME error \in Transient, Len(candidates) = 1
        PROVE Cardinality(Requests(op, candidates[1])) = Limit(candidates[1])
    <3>1. at = 1
      BY <1>3, <2>2
    <3>2. Cardinality(Requests(op, candidates[1])) = attempt /\ attempt \in Nat \ {0}
      BY <1>1, <3>1 DEF CallInv, Counts, TypeOK
    <3>3. Cardinality(Requests(op, candidates[1])) <= Limit(candidates[1])
      <4>1. op \in 1..NumOps /\ candidates[1] \in Provider
        BY <1>1, <1>3, <3>1, CandidateOf, NumOpsAssumption DEF CallInv, TypeOK, Working
      <4> QED
        BY <4>1 DEF CallInv, AttemptsAreBounded, Limit
    <3>4. candidates[1] \in Bounded => ~(attempt < MaxAttempts[candidates[1]])
      BY <1>1, <2>2, <3>1 DEF ShouldRetry, Transient, Retryable
    <3>5. Limit(candidates[1]) \in Nat
      BY <1>3, <3>1, CandidateOf DEF CallInv
    <3> QED
      BY <3>2, <3>3, <3>4, <3>5 DEF Limit
  <2>3. error # "UNCLASSIFIED"
    BY <1>1 DEF CallInv, Single
  <2>4. Limit(candidates[1])' = Limit(candidates[1])
    BY <1>1 DEF Limit
  <2>5. Last(records)' = Last(records)
    BY <1>1 DEF Last
  <2>6. Len(candidates) = 1 =>
          Len(records) - before + Unclassified = Cardinality(Requests(op, candidates[1]))
    BY DEF CallInv, Single
  <2> QED
    BY <1>1, <1>2, <2>1, <2>2, <2>3, <2>4, <2>5, <2>6 DEF Single, Unclassified
<1> QED
  BY <1>1, <1>4, <1>5, <1>6, Steady DEF CallInv

\* The adapter passes the candidate over or accepts its answer.
LEMMA AdaptStep ==
    ASSUME NEW result \in {"unadaptable", "missing", "empty", "returned"}
    PROVE CallInv /\ Adapt(result) => CallInv'
<1> SUFFICES ASSUME CallInv, Adapt(result) PROVE CallInv'
  OBVIOUS
<1>1. /\ pc = "adapt" /\ answers' = Append(answers, result)
      /\ UNCHANGED <<candidates, op, attempt, error, records, before, counted, logical,
                     failure, wire>>
  BY DEF Adapt
<1>2. \/ /\ pc' = "candidate" /\ at' = at + 1 /\ result \notin {"empty", "returned"}
         /\ \E st \in {"FAILED", "FIELD_MISSING"} : tried' = Append(tried, st)
      \/ /\ pc' = "accepted" /\ at' = at
         /\ \E st \in {"EMPTY_SELECTED", "SELECTED"} : tried' = Append(tried, st)
  BY DEF Adapt, PassOver
<1>3. \A o, p : Requests(o, p)' = Requests(o, p)
  BY <1>1 DEF Requests
<1>4. at <= Len(candidates) /\ at \in Nat /\ Len(candidates) \in Nat /\ at >= 1
  BY <1>1, RegistriesAssumption DEF CallInv, Working, TypeOK
<1>5. /\ tried' \in Seq({"FAILED", "FIELD_MISSING", "EMPTY_SELECTED", "SELECTED"})
      /\ answers' \in Seq({"unadaptable", "missing", "empty", "returned"})
  <2>1. /\ tried \in Seq({"FAILED", "FIELD_MISSING", "EMPTY_SELECTED", "SELECTED"})
        /\ answers \in Seq({"unadaptable", "missing", "empty", "returned"})
    BY DEF CallInv, TypeOK
  <2>2. answers' \in Seq({"unadaptable", "missing", "empty", "returned"})
    BY <1>1, <2>1, AppendProperties
  <2>3. PICK st \in {"FAILED", "FIELD_MISSING", "EMPTY_SELECTED", "SELECTED"} :
          tried' = Append(tried, st)
    BY <1>2
  <2> QED
    BY <2>1, <2>2, <2>3, AppendProperties
<1>6. TypeOK' /\ Working' /\ Counts'
  <2>1. at' \in 1..(Len(candidates) + 1) /\ pc' \in {"candidate", "accepted"}
        /\ (pc' = "accepted" => at' = at)
    BY <1>2, <1>4
  <2>2. TypeOK'
    BY <1>1, <1>5, <2>1 DEF CallInv, TypeOK
  <2>3. Working' /\ Counts'
    BY <1>1, <1>4, <2>1 DEF CallInv, Working, Counts
  <2> QED
    BY <2>2, <2>3
<1>7. LastIsCurrent /\ Last(records).code = "OK" /\ Last(records).answered
  BY <1>1 DEF CallInv, Current
<1>8. Current'
  <2>1. Last(records)' = Last(records) /\ error = "OK"
    BY <1>1 DEF Last, CallInv, Current
  <2> QED
    BY <1>1, <1>2, <1>7, <2>1 DEF Current, LastIsCurrent
<1>9. Asked'
  BY <1>1, <1>2, <1>4 DEF CallInv, Asked
<1>10. Unanswered'
  <2>1. \A i \in 1..Len(answers) : answers[i] \notin {"empty", "returned"}
    BY <1>1 DEF CallInv, Unanswered
  <2>2. /\ Len(answers) \in Nat /\ Len(answers') = Len(answers) + 1
        /\ \A i \in 1..Len(answers) : answers'[i] = answers[i]
        /\ answers'[Len(answers) + 1] = result
    BY <1>1 DEF CallInv, TypeOK
  <2> QED
    BY <1>2, <2>1, <2>2 DEF Unanswered
<1>11. Single'
  <2>1. error # "UNCLASSIFIED" /\ (pc' # "raised" /\ pc' # "failed")
    BY <1>1, <1>2 DEF CallInv, Single
  <2>2. at' > 1 /\ Len(candidates) = 1 /\ pc' = "candidate" =>
          before < Len(records) /\ Last(records).code = error /\ error \notin Transient
    <3>1. error = "OK"
      BY <1>1 DEF CallInv, Current
    <3> QED
      BY <1>7, <3>1 DEF LastIsCurrent, Transient
  <2>3. Last(records)' = Last(records)
    BY <1>1 DEF Last
  <2>4. Len(candidates) = 1 =>
          Len(records) - before + Unclassified = Cardinality(Requests(op, candidates[1]))
    BY DEF CallInv, Single
  <2> QED
    BY <1>1, <1>3, <2>1, <2>2, <2>3, <2>4 DEF Single, Unclassified
<1> QED
  BY <1>1, <1>2, <1>6, <1>8, <1>9, <1>10, <1>11, Steady DEF CallInv

\* A request is made, and unless its outcome is never classified, a record.
LEMMA AttemptStep ==
    ASSUME NEW reply \in Reply
    PROVE CallInv /\ Attempt(reply) => CallInv'
<1> SUFFICES ASSUME CallInv, Attempt(reply) PROVE CallInv'
  OBVIOUS
<1> DEFINE r == [op |-> op, provider |-> candidates[at], code |-> reply.code,
                 answered |-> reply.answered]
<1>1. /\ pc = "attempt" /\ error' = reply.code
      /\ wire' = Append(wire, [op |-> op, provider |-> candidates[at]])
      /\ UNCHANGED <<candidates, op, at, attempt, before, tried, counted, logical, failure,
                     answers>>
  BY DEF Attempt
<1>2. /\ reply.code \in StatusCode \cup RaisedCode /\ reply.answered \in BOOLEAN
      /\ reply.code = "OK" => reply.answered
  BY DEF Reply, RaisedCode
<1>3. /\ at <= Len(candidates) /\ at \in 1..Len(candidates) /\ op \in 1..NumOps
      /\ candidates[at] \in Provider
  BY <1>1, CandidateOf, NumOpsAssumption DEF CallInv, Working, TypeOK
<1>4. /\ wire' \in Seq([op : 1..NumOps, provider : Provider]) /\ Len(wire') = Len(wire) + 1
      /\ \A i \in 1..Len(wire) : wire'[i] = wire[i]
      /\ wire'[Len(wire) + 1] = [op |-> op, provider |-> candidates[at]]
      /\ \A o, p : Cardinality(Requests(o, p)') =
           IF o = op /\ p = candidates[at] THEN Cardinality(Requests(o, p)) + 1
           ELSE Cardinality(Requests(o, p))
  BY <1>1, <1>3, OneMore DEF CallInv
<1>5. records \in Seq(Record) /\ Len(records) \in Nat /\ before \in Nat /\ before <= Len(records)
      /\ Len(wire) \in Nat
  BY DEF CallInv, TypeOK, Record
<1>6. /\ r \in Record /\ r.op = op /\ r.provider = candidates[at] /\ r.code = reply.code
      /\ r.answered = reply.answered
  BY <1>2, <1>3 DEF Record
<1>7. \/ /\ reply.code = "UNCLASSIFIED" /\ pc' = "raised" /\ records' = records
      \/ /\ reply.code # "UNCLASSIFIED" /\ pc' = (IF reply.code = "OK" THEN "adapt" ELSE "judge")
         /\ records' = Append(records, r)
  BY DEF Attempt
<1> HIDE DEF r
<1>8. /\ records' \in Seq(Record) /\ Len(records') >= Len(records) /\ Len(records') \in Nat
      /\ \A i \in 1..Len(records) : records'[i] = records[i]
      /\ \A i \in 1..Len(records') : i > Len(records) => records'[i] = r
      /\ reply.code = "UNCLASSIFIED" => Len(records') = Len(records)
      /\ reply.code # "UNCLASSIFIED" => Len(records') = Len(records) + 1 /\ Last(records') = r
  <2>1. CASE reply.code = "UNCLASSIFIED"
    <3>1. records' = records
      BY <1>7, <2>1
    <3> QED
      BY <1>5, <2>1, <3>1
  <2>2. CASE reply.code # "UNCLASSIFIED"
    <3>1. records' = Append(records, r)
      BY <1>7, <2>2
    <3>2. /\ records' \in Seq(Record) /\ Len(records') = Len(records) + 1
          /\ \A i \in 1..Len(records) : records'[i] = records[i]
          /\ records'[Len(records) + 1] = r
      BY <1>5, <1>6, <3>1, AppendProperties
    <3>3. Last(records') = r
      BY <3>2 DEF Last
    <3>4. \A i \in 1..Len(records') : i > Len(records) => i = Len(records) + 1
      BY <1>5, <3>2
    <3> QED
      BY <1>5, <2>2, <3>2, <3>3, <3>4
  <2> QED
    BY <2>1, <2>2
<1>9. TypeOK'
  <2>1. TypeOK
    BY DEF CallInv
  <2>2. before' \in 0..Len(records')
    BY <1>1, <1>5, <1>8
  <2>3. error' \in StatusCode \cup RaisedCode
    BY <1>1, <1>2
  <2>4. pc' \in {"raised", "adapt", "judge"}
    BY <1>7
  <2>5. wire' \in Seq([op : 1..NumOps, provider : Provider])
    BY <1>4
  <2>6. records' \in Seq([op : 1..NumOps, provider : Provider,
                          code : StatusCode \cup RaisedCode, answered : BOOLEAN])
    BY <1>8 DEF Record
  <2> QED
    BY <1>1, <2>1, <2>2, <2>3, <2>4, <2>5, <2>6 DEF TypeOK
<1>10. Working' /\ Unanswered'
  BY <1>1, <1>3, <1>7 DEF CallInv, Working, Unanswered
<1>11. Filed'
  <2>1. before' = before /\ op' = op
    BY <1>1
  <2>2. \A i \in 1..Len(records) :
          IF i <= before THEN records[i].op < op ELSE records[i].op = op
    BY DEF CallInv, Filed
  <2> SUFFICES ASSUME NEW i \in 1..Len(records')
               PROVE IF i <= before THEN records'[i].op < op ELSE records'[i].op = op
    BY <2>1 DEF Filed
  <2>3. CASE i \in 1..Len(records)
    BY <1>8, <2>2, <2>3
  <2>4. CASE i > Len(records)
    BY <1>5, <1>6, <1>8, <2>4
  <2> QED
    BY <1>5, <1>8, <2>3, <2>4
<1>12. Current'
  BY <1>1, <1>2, <1>5, <1>6, <1>7, <1>8 DEF Current, LastIsCurrent
<1>13. Asked'
  <2> SUFFICES ASSUME NEW i \in 1..Len(wire')
               PROVE /\ wire'[i].op <= op
                     /\ wire'[i].op = op =>
                          \E j \in 1..Len(candidates) : wire'[i].provider = candidates[j] /\ j <= at
    BY <1>1, <1>7 DEF Asked
  <2>1. CASE i \in 1..Len(wire)
    BY <1>1, <1>4, <2>1 DEF CallInv, Asked
  <2>2. CASE i = Len(wire) + 1
    BY <1>3, <1>4, <2>2
  <2> QED
    BY <1>4, <1>5, <2>1, <2>2
<1>14. /\ Cardinality(Requests(op, candidates[at])) = attempt - 1 /\ attempt \in Nat
       /\ attempt <= Limit(candidates[at])
  BY <1>1 DEF CallInv, Counts, TypeOK
<1>15. Counts'
  <2>1. Cardinality(Requests(op, candidates[at]))' = attempt
    BY <1>1, <1>4, <1>14
  <2> QED
    BY <1>1, <1>7, <2>1 DEF Counts
<1>16. Results' /\ Reported'
  BY <1>1, <1>7 DEF CallInv, Results, Reported
<1>17. Summed'
  <2>1. \A o : Attempts(o)' = Attempts(o)
    BY <1>1 DEF Attempts
  <2>2. \A i \in 1..before : records'[i] = records[i]
    BY <1>5, <1>8
  <2>3. counted = [i \in 1..before |-> records[i].op]
    BY <1>1 DEF CallInv, Summed
  <2>4. counted' = [i \in 1..before |-> records'[i].op]
    BY <1>1, <2>2, <2>3
  <2>5. pc' \notin {"done", "failed"}
    BY <1>7
  <2> QED
    BY <1>1, <2>1, <2>4, <2>5 DEF CallInv, Summed
<1>18. Single'
  <2>1. error' = "UNCLASSIFIED" <=> pc' = "raised"
    BY <1>1, <1>7
  <2>2. pc' \in {"raised", "adapt", "judge"}
    BY <1>7
  <2>3. ASSUME Len(candidates) = 1
        PROVE Len(records') - before + Unclassified' = Cardinality(Requests(op, candidates[1])')
    <3>1. at = 1
      BY <1>3, <2>3
    <3>2. Len(records) - before = attempt - 1
      <4>1. error # "UNCLASSIFIED"
        BY <1>1 DEF CallInv, Single
      <4>2. Len(records) - before + Unclassified = Cardinality(Requests(op, candidates[1]))
        BY <2>3 DEF CallInv, Single
      <4>3. Unclassified = 0
        BY <4>1 DEF Unclassified
      <4> QED
        BY <1>5, <1>14, <3>1, <4>2, <4>3
    <3>3. ASSUME NEW o, NEW p, o = op, p = candidates[1]
          PROVE Cardinality(Requests(o, p)') = attempt
      <4>1. p = candidates[at]
        BY <3>1, <3>3
      <4>2. Cardinality(Requests(o, p)') = Cardinality(Requests(o, p)) + 1
        BY <1>4, <3>3, <4>1
      <4>3. Cardinality(Requests(o, p)) = attempt - 1
        BY <1>14, <3>3, <4>1
      <4> QED
        BY <1>14, <4>2, <4>3
    <3> QED
      <4>1. Cardinality(Requests(op, candidates[1])') = attempt
        BY <1>1, <3>3
      <4>2. Len(records') + Unclassified' = Len(records) + 1
        <5>1. CASE reply.code = "UNCLASSIFIED"
          BY <1>1, <1>5, <1>8, <5>1 DEF Unclassified
        <5>2. CASE reply.code # "UNCLASSIFIED"
          BY <1>1, <1>5, <1>8, <5>2 DEF Unclassified
        <5> QED
          BY <5>1, <5>2
      <4>3. Unclassified' \in Nat
        BY DEF Unclassified
      <4>4. Len(records') \in Nat /\ Len(records) \in Nat /\ before \in Nat /\ attempt \in Nat
        BY <1>5, <1>8, <1>14
      <4> QED
        BY <3>2, <4>1, <4>2, <4>3, <4>4
  <2> QED
    BY <1>1, <2>1, <2>2, <2>3 DEF Single
<1>19. AttemptsAreBounded'
  <2>1. \A o \in 1..NumOps, p \in Provider : Cardinality(Requests(o, p)) <= Limit(p)
    BY DEF CallInv, AttemptsAreBounded, Limit
  <2>2. \A o \in 1..NumOps, p \in Provider : Cardinality(Requests(o, p)') <= Limit(p)
    <3> SUFFICES ASSUME NEW o \in 1..NumOps, NEW p \in Provider
                 PROVE Cardinality(Requests(o, p)') <= Limit(p)
      OBVIOUS
    <3>1. CASE o = op /\ p = candidates[at]
      <4>1. Cardinality(Requests(o, p)') = Cardinality(Requests(o, p)) + 1
        BY <1>4, <3>1
      <4>2. Limit(candidates[at]) \in Nat
        BY <1>3, CandidateOf DEF CallInv
      <4> QED
        BY <1>14, <3>1, <4>1, <4>2
    <3>2. CASE ~(o = op /\ p = candidates[at])
      BY <1>4, <2>1, <3>2
    <3> QED
      BY <3>1, <3>2
  <2> QED
    BY <2>2 DEF AttemptsAreBounded, Limit
<1>20. CheckpointHoldsAcceptedResponse'
  <2> SUFFICES ASSUME NEW o \in 1..Len(logical), logical[o].status = "SUCCEEDED"
               PROVE LET i == logical[o].response
                     IN /\ i \in 1..Len(records') /\ records'[i].op = o
                        /\ records'[i].code = "OK" /\ records'[i].answered
                        /\ \A j \in (i + 1)..Len(records') : records'[j].op # o
    BY <1>1 DEF CheckpointHoldsAcceptedResponse
  <2> DEFINE i == logical[o].response
  <2>1. /\ i \in 1..Len(records) /\ records[i].op = o
        /\ records[i].code = "OK" /\ records[i].answered
        /\ \A j \in (i + 1)..Len(records) : records[j].op # o
    BY DEF CallInv, CheckpointHoldsAcceptedResponse
  <2>2. o < op
    BY DEF CallInv, Results
  <2> HIDE DEF i
  <2>3. ASSUME NEW j \in (i + 1)..Len(records') PROVE records'[j].op # o
    <3>1. CASE j <= Len(records)
      BY <1>5, <1>8, <2>1, <2>3, <3>1
    <3>2. CASE j > Len(records)
      BY <1>3, <1>5, <1>6, <1>8, <2>1, <2>2, <3>2
    <3> QED
      BY <1>5, <2>1, <3>1, <3>2
  <2> QED
    BY <1>5, <1>8, <2>1, <2>3 DEF i
<1> QED
  BY <1>9, <1>10, <1>11, <1>12, <1>13, <1>15, <1>16, <1>17, <1>18, <1>19, <1>20 DEF CallInv

\* The response filed for an operation that succeeds is its last record.
LEMMA LastSuccessIsLast ==
    ASSUME CallInv, pc = "accepted"
    PROVE  /\ LastSuccess(Slice) = Len(records) - before
           /\ before < Len(records)
           /\ records[Len(records)].op = op
           /\ records[Len(records)].code = "OK" /\ records[Len(records)].answered
<1>1. /\ before < Len(records) /\ before \in Nat /\ Len(records) \in Nat
      /\ records[Len(records)].code = "OK" /\ records[Len(records)].answered
  BY DEF CallInv, Current, LastIsCurrent, Last, TypeOK
<1>2. records[Len(records)].op = op
  BY <1>1 DEF CallInv, Filed
<1> DEFINE n == Len(Slice)
           Latest(i) == Slice[i].code = "OK" /\ \A j \in (i + 1)..n : Slice[j].code # "OK"
<1>3. n = Len(records) - before /\ n \in 1..n /\ Slice[n] = records[Len(records)]
  BY <1>1, SliceOf DEF CallInv
<1>4. \A i \in 1..n : Latest(i) <=> i = n
  <2>1. n \in Nat /\ Slice[n].code = "OK"
    BY <1>1, <1>3
  <2>2. ASSUME NEW i \in 1..n, Latest(i), i # n PROVE FALSE
    <3>1. n \in (i + 1)..n
      BY <2>1, <2>2
    <3> QED
      BY <2>1, <2>2, <3>1
  <2>3. Latest(n)
    <3>1. (n + 1)..n = {}
      BY <2>1
    <3> QED
      BY <2>1, <3>1
  <2> QED
    BY <2>2, <2>3
<1>5. LastSuccess(Slice) = CHOOSE i \in 1..n : Latest(i)
  BY DEF LastSuccess
<1> HIDE DEF Latest, n
<1>6. LastSuccess(Slice) = n
  BY <1>3, <1>4, <1>5
<1> QED
  BY <1>1, <1>2, <1>3, <1>6

LEMMA SucceedStep == CallInv /\ OperationSucceeds => CallInv'
<1> SUFFICES ASSUME CallInv, OperationSucceeds PROVE CallInv'
  OBVIOUS
<1> DEFINE l == [status |-> "SUCCEEDED", attempts |-> Len(Slice),
                 response |-> before + LastSuccess(Slice)]
<1>1. /\ pc = "accepted" /\ RecordAttempts /\ logical' = Append(logical, l)
      /\ before' = Len(records) /\ op' = op + 1 /\ at' = 1 /\ tried' = <<>> /\ answers' = <<>>
      /\ pc' = (IF op = NumOps THEN "done" ELSE "candidate")
      /\ UNCHANGED <<candidates, attempt, error, records, failure, wire>>
  BY DEF OperationSucceeds
<1>2. /\ counted' = [i \in 1..Len(records) |-> records[i].op] /\ counted' \in Seq(1..NumOps)
      /\ \A o \in 1..(op - 1) : Attempts(o)' = Attempts(o)
      /\ \A o : o = op => Cardinality(Attempts(o)') = Len(Slice)
  BY <1>1, Recorded
<1>3. /\ LastSuccess(Slice) = Len(records) - before /\ before < Len(records)
      /\ records[Len(records)].op = op
      /\ records[Len(records)].code = "OK" /\ records[Len(records)].answered
  BY <1>1, LastSuccessIsLast
<1>4. /\ op \in 1..NumOps /\ NumOps \in Nat /\ before \in Nat /\ Len(records) \in Nat
      /\ Len(Slice) \in Nat
  BY <1>1, SliceOf, NumOpsAssumption DEF CallInv, TypeOK, Working
<1>5. /\ l.status = "SUCCEEDED" /\ l.attempts = Len(Slice) /\ l.response = Len(records)
      /\ l \in [status : {"SUCCEEDED", "FAILED"}, attempts : Nat, response : Nat]
  BY <1>3, <1>4
<1> HIDE DEF l
<1>6. /\ logical \in Seq([status : {"SUCCEEDED", "FAILED"}, attempts : Nat, response : Nat])
      /\ Len(logical) = op - 1 /\ Len(logical) \in Nat
  BY <1>1 DEF CallInv, TypeOK, Results
<1>7. /\ logical' \in Seq([status : {"SUCCEEDED", "FAILED"}, attempts : Nat, response : Nat])
      /\ Len(logical') = op /\ logical'[op] = l
      /\ \A o \in 1..(op - 1) : logical'[o] = logical[o]
  BY <1>1, <1>4, <1>5, <1>6, AppendProperties
<1>8. \A o, p : Requests(o, p)' = Requests(o, p)
  BY <1>1 DEF Requests
<1>9. TypeOK'
  <2>1. at' \in 1..(Len(candidates) + 1)
    BY <1>1, RegistriesAssumption DEF CallInv, TypeOK
  <2>2. op' \in 1..(NumOps + 1) /\ before' \in 0..Len(records)
    BY <1>1, <1>4
  <2> QED
    BY <1>1, <1>2, <1>7, <2>1, <2>2 DEF CallInv, TypeOK
<1>10. Working' /\ Current' /\ Counts' /\ Unanswered'
  BY <1>1, <1>4 DEF Working, Current, Counts, Unanswered
<1>11. Filed'
  <2>1. \A i \in 1..Len(records) : records[i].op <= op /\ records[i].op \in Nat
    <3>1. \A i \in 1..Len(records) : records[i] \in Record
      <4>1. records \in Seq(Record)
        BY DEF CallInv, TypeOK, Record
      <4> QED
        BY <4>1
    <3>2. \A i \in 1..Len(records) : records[i].op \in Nat
      BY <1>4, <3>1 DEF Record
    <3> QED
      BY <1>4, <3>2 DEF CallInv, Filed
  <2> QED
    BY <1>1, <1>4, <2>1 DEF Filed
<1>12. Asked'
  <2>1. \A i \in 1..Len(wire) : wire[i].op <= op /\ wire[i].op \in Nat
    <3>1. \A i \in 1..Len(wire) : wire[i] \in Request
      <4>1. wire \in Seq(Request)
        BY DEF CallInv, TypeOK, Request
      <4> QED
        BY <4>1
    <3>2. \A i \in 1..Len(wire) : wire[i].op \in Nat
      BY <1>4, <3>1 DEF Request
    <3> QED
      BY <3>2 DEF CallInv, Asked
  <2> QED
    BY <1>1, <1>4, <2>1 DEF Asked
<1>13. Results' /\ Reported'
  <2>1. \A o \in 1..Len(logical') : o < op'
    BY <1>1, <1>4, <1>7
  <2> QED
    BY <1>1, <1>4, <1>7, <2>1 DEF Results, Reported
<1>14. Summed'
  <2>1. \A o \in 1..Len(logical') : logical'[o].attempts = Cardinality(Attempts(o)')
    <3>1. ASSUME NEW o \in 1..(op - 1) PROVE logical'[o].attempts = Cardinality(Attempts(o)')
      BY <1>2, <1>6, <1>7, <3>1 DEF CallInv, Summed
    <3>2. ASSUME NEW o, o = op PROVE logical'[o].attempts = Cardinality(Attempts(o)')
      BY <1>2, <1>5, <1>7, <3>2
    <3> QED
      BY <1>4, <1>7, <3>1, <3>2
  <2>2. pc' # "failed"
    BY <1>1
  <2> QED
    BY <1>1, <1>2, <2>1, <2>2 DEF Summed
<1>15. Single'
  <2>1. error # "UNCLASSIFIED" /\ pc' \notin {"raised", "failed"}
    BY <1>1 DEF CallInv, Single
  <2>2. \A o, p : o = op + 1 => Cardinality(Requests(o, p)) = 0
    <3>1. ASSUME NEW i \in 1..Len(wire) PROVE wire[i].op # op + 1
      <4>1. wire[i].op <= op
        BY DEF CallInv, Asked
      <4>2. wire \in Seq(Request)
        BY DEF CallInv, TypeOK, Request
      <4>3. wire[i].op \in Nat
        <5>1. wire[i] \in Request
          BY <4>2
        <5> QED
          BY <1>4, <5>1 DEF Request
      <4> QED
        BY <1>4, <4>1, <4>3
    <3>2. \A o, p : o = op + 1 => Requests(o, p) = {}
      BY <3>1 DEF Requests
    <3> QED
      BY <3>2, FS_EmptySet
  <2>3. Cardinality(Requests(op, candidates[1]))' = 0
    BY <1>1, <1>8, <2>2
  <2> QED
    BY <1>1, <1>4, <2>1, <2>3 DEF Single, Unclassified
<1>16. AttemptsAreBounded'
  BY <1>8 DEF CallInv, AttemptsAreBounded
<1>17. CheckpointHoldsAcceptedResponse'
  <2>1. ASSUME NEW o \in 1..(op - 1), logical'[o].status = "SUCCEEDED"
        PROVE LET i == logical'[o].response
              IN /\ i \in 1..Len(records) /\ records[i].op = o
                 /\ records[i].code = "OK" /\ records[i].answered
                 /\ \A j \in (i + 1)..Len(records) : records[j].op # o
    <3>1. \A i \in 1..Len(logical) : logical[i].status = "SUCCEEDED" =>
            LET k == logical[i].response
            IN /\ k \in 1..Len(records) /\ records[k].op = i
               /\ records[k].code = "OK" /\ records[k].answered
               /\ \A j \in (k + 1)..Len(records) : records[j].op # i
      BY DEF CallInv, CheckpointHoldsAcceptedResponse
    <3>2. o \in 1..Len(logical) /\ logical'[o] = logical[o]
      BY <1>6, <1>7
    <3> QED
      BY <2>1, <3>1, <3>2
  <2>2. ASSUME NEW o, o = op
        PROVE LET i == logical'[o].response
              IN /\ i \in 1..Len(records) /\ records[i].op = o
                 /\ records[i].code = "OK" /\ records[i].answered
                 /\ \A j \in (i + 1)..Len(records) : records[j].op # o
    BY <1>3, <1>4, <1>5, <1>7, <2>2
  <2>3. \A o \in 1..op : logical'[o].status = "SUCCEEDED" =>
          LET i == logical'[o].response
          IN /\ i \in 1..Len(records) /\ records[i].op = o
             /\ records[i].code = "OK" /\ records[i].answered
             /\ \A j \in (i + 1)..Len(records) : records[j].op # o
    <3>1. \A o \in 1..op : o = op \/ o \in 1..(op - 1)
      BY <1>4
    <3> QED
      BY <2>1, <2>2, <3>1
  <2>4. records' = records /\ Len(logical') = op
    BY <1>1, <1>7
  <2> QED
    BY <2>3, <2>4 DEF CheckpointHoldsAcceptedResponse
<1> QED
  BY <1>9, <1>10, <1>11, <1>12, <1>13, <1>14, <1>15, <1>16, <1>17 DEF CallInv

LEMMA FailStep == CallInv /\ OperationFails => CallInv'
<1> SUFFICES ASSUME CallInv, OperationFails PROVE CallInv'
  OBVIOUS
<1> DEFINE l == [status |-> "FAILED", attempts |-> Len(Slice), response |-> 0]
<1>1. /\ (pc = "candidate" /\ at > Len(candidates)) \/ pc = "raised"
      /\ RecordAttempts /\ logical' = Append(logical, l) /\ pc' = "failed"
      /\ failure' = (IF Exhausted(Slice) THEN "BOUNDED_RETRY_EXHAUSTED"
                     ELSE IF pc = "raised" THEN "UNCLASSIFIED" ELSE "RESOLUTION_EXHAUSTED")
      /\ UNCHANGED <<candidates, op, at, attempt, error, records, before, tried, answers, wire>>
  BY DEF OperationFails
<1>2. /\ counted' = [i \in 1..Len(records) |-> records[i].op] /\ counted' \in Seq(1..NumOps)
      /\ \A o \in 1..(op - 1) : Attempts(o)' = Attempts(o)
      /\ \A o : o = op => Cardinality(Attempts(o)') = Len(Slice)
  BY <1>1, Recorded
<1>3. op \in 1..NumOps /\ NumOps \in Nat /\ Len(Slice) \in Nat
  BY <1>1, SliceOf, NumOpsAssumption DEF CallInv, TypeOK, Working
<1>4. /\ l.status = "FAILED" /\ l.attempts = Len(Slice)
      /\ l \in [status : {"SUCCEEDED", "FAILED"}, attempts : Nat, response : Nat]
  BY <1>3
<1> HIDE DEF l
<1>5. /\ logical \in Seq([status : {"SUCCEEDED", "FAILED"}, attempts : Nat, response : Nat])
      /\ Len(logical) = op - 1 /\ Len(logical) \in Nat
  BY <1>1 DEF CallInv, TypeOK, Results
<1>6. /\ logical' \in Seq([status : {"SUCCEEDED", "FAILED"}, attempts : Nat, response : Nat])
      /\ Len(logical') = op /\ logical'[op] = l
      /\ \A o \in 1..(op - 1) : logical'[o] = logical[o]
  BY <1>1, <1>3, <1>4, <1>5, AppendProperties
<1>7. \A o, p : Requests(o, p)' = Requests(o, p)
  BY <1>1 DEF Requests
<1>8. TypeOK'
  <2>1. failure' \in {"none", "BOUNDED_RETRY_EXHAUSTED", "UNCLASSIFIED", "RESOLUTION_EXHAUSTED"}
    BY <1>1
  <2> QED
    BY <1>1, <1>2, <1>6, <2>1 DEF CallInv, TypeOK
<1>9. Working' /\ Filed' /\ Current' /\ Counts' /\ Unanswered'
  BY <1>1, <1>3 DEF CallInv, Working, Filed, Current, Counts, Unanswered
<1>10. Asked'
  BY <1>1 DEF CallInv, Asked
<1>11. Results'
  BY <1>1, <1>3, <1>4, <1>5, <1>6 DEF CallInv, Results
<1>12. Reported'
  <2>1. Slice' = Slice
    BY <1>1 DEF Slice
  <2> QED
    BY <1>1, <2>1 DEF Reported, Exhausted
<1>13. Summed'
  <2>1. \A o \in 1..Len(logical') : logical'[o].attempts = Cardinality(Attempts(o)')
    <3>1. ASSUME NEW o \in 1..(op - 1) PROVE logical'[o].attempts = Cardinality(Attempts(o)')
      BY <1>2, <1>5, <1>6, <3>1 DEF CallInv, Summed
    <3>2. ASSUME NEW o, o = op PROVE logical'[o].attempts = Cardinality(Attempts(o)')
      BY <1>2, <1>4, <1>6, <3>2
    <3> QED
      BY <1>3, <1>6, <3>1, <3>2
  <2> QED
    BY <1>1, <1>2, <2>1 DEF Summed
<1>14. Single'
  <2>1. Last(records)' = Last(records) /\ Limit(candidates[1])' = Limit(candidates[1])
    BY <1>1 DEF Last, Limit
  <2>2. at \in Nat /\ Len(candidates) \in Nat
    BY RegistriesAssumption DEF CallInv, TypeOK
  <2>3. error = "UNCLASSIFIED" <=> at <= Len(candidates)
    BY <1>1, <2>2 DEF CallInv, Single, Working
  <2>4. Len(candidates) = 1 /\ at > 1 => pc = "candidate"
    BY <1>1, <2>2 DEF CallInv, Working
  <2> QED
    BY <1>1, <1>7, <2>1, <2>3, <2>4 DEF CallInv, Single, Unclassified
<1>15. AttemptsAreBounded'
  BY <1>7 DEF CallInv, AttemptsAreBounded
<1>16. CheckpointHoldsAcceptedResponse'
  <2>1. \A o \in 1..Len(logical') : logical'[o].status = "SUCCEEDED" =>
          o \in 1..Len(logical) /\ logical'[o] = logical[o]
    <3>1. \A o \in 1..op : o = op \/ o \in 1..(op - 1)
      BY <1>3
    <3>2. logical'[op].status # "SUCCEEDED" /\ Len(logical') = op /\ Len(logical) = op - 1
      BY <1>4, <1>5, <1>6
    <3> QED
      BY <1>6, <3>1, <3>2
  <2> QED
    BY <1>1, <2>1 DEF CallInv, CheckpointHoldsAcceptedResponse
<1> QED
  BY <1>8, <1>9, <1>10, <1>11, <1>12, <1>13, <1>14, <1>15, <1>16 DEF CallInv

LEMMA CallStep == CallInv /\ [Next]_vars => CallInv'
<1> SUFFICES ASSUME CallInv, [Next]_vars PROVE CallInv'
  OBVIOUS
<1>1. CASE UNCHANGED vars
  <2>1. UNCHANGED <<candidates, pc, op, at, attempt, error, records, before, tried, counted,
                    logical, failure, answers, wire>>
    BY <1>1 DEF vars
  <2>2. \A o, p : Requests(o, p)' = Requests(o, p)
    BY <2>1 DEF Requests
  <2>3. \A o : Attempts(o)' = Attempts(o)
    BY <2>1 DEF Attempts
  <2>4. /\ TypeOK' /\ Working' /\ Filed' /\ Current' /\ Asked' /\ Unanswered' /\ Results'
        /\ CheckpointHoldsAcceptedResponse'
    BY <2>1 DEF CallInv, TypeOK, Working, Filed, Current, LastIsCurrent, Last, Asked, Unanswered,
       Results, CheckpointHoldsAcceptedResponse
  <2>5. Counts' /\ Single' /\ AttemptsAreBounded'
    BY <2>1, <2>2 DEF CallInv, Counts, Limit, Single, Unclassified, Last, AttemptsAreBounded
  <2>6. Summed' /\ Reported'
    BY <2>1, <2>3 DEF CallInv, Summed, Reported, Slice, Exhausted
  <2> QED
    BY <2>4, <2>5, <2>6 DEF CallInv
<1> QED
  BY <1>1, TakeStep, AttemptStep, RetryStep, GiveUpStep, AdaptStep, SucceedStep, FailStep
     DEF Next, Finished

LEMMA CallAlways == Spec => []CallInv
BY CallInit, CallStep, PTL DEF Spec

-----------------------------------------------------------------------------

\* The types hold for any registries, policies and numbers of operations.
THEOREM TypeCorrect == Spec => []TypeOK
<1>1. CallInv => TypeOK
  BY DEF CallInv
<1> QED
  BY CallAlways, <1>1, PTL

\* No provider is asked more often for an operation than its policy allows.
THEOREM BoundedAlways == Spec => []AttemptsAreBounded
<1>1. CallInv => AttemptsAreBounded
  BY DEF CallInv
<1> QED
  BY CallAlways, <1>1, PTL

\* The checkpointed response is the one the adapter accepted.
THEOREM AcceptedIsHeld == Spec => []CheckpointHoldsAcceptedResponse
<1>1. CallInv => CheckpointHoldsAcceptedResponse
  BY DEF CallInv
<1> QED
  BY CallAlways, <1>1, PTL

\* The summary of a run lists each recorded attempt once, under its operation.
THEOREM SummaryAlways == Spec => []SummaryAddsUp
<1>1. CallInv => SummaryAddsUp
  <2> SUFFICES ASSUME CallInv, pc \in {"done", "failed"}
               PROVE /\ counted = [i \in 1..Len(records) |-> records[i].op]
                     /\ \A o \in 1..Len(logical) : logical[o].attempts = Cardinality(Attempts(o))
    BY DEF SummaryAddsUp, Attempts
  <2>1. pc = "done" => before = Len(records)
    BY DEF CallInv, Summed
  <2> QED
    BY <2>1 DEF CallInv, Summed
<1> QED
  BY CallAlways, <1>1, PTL

\* A provider is asked again for an operation only after a transient failure of its own.
THEOREM TransientAlways == Spec => OnlyTransientIsRetried
<1> DEFINE Again == wire' # wire /\ Requests(op, candidates[at]) # {} =>
                      /\ Last(records).op = op
                      /\ Last(records).provider = candidates[at]
                      /\ Last(records).code \in Transient
<1>1. CallInv /\ [Next]_vars => [Again]_vars
  <2> SUFFICES ASSUME CallInv, Next, wire' # wire, Requests(op, candidates[at]) # {}
               PROVE /\ Last(records).op = op
                     /\ Last(records).provider = candidates[at]
                     /\ Last(records).code \in Transient
    OBVIOUS
  <2>1. pc = "attempt"
    BY DEF Next, TakeCandidate, Attempt, Retry, GiveUp, Adapt, OperationSucceeds, OperationFails,
       Finished, vars
  <2>2. attempt > 1
    <3>1. Cardinality(Requests(op, candidates[at])) # 0
      BY RequestsFinite, FS_EmptySet DEF CallInv
    <3>2. Cardinality(Requests(op, candidates[at])) = attempt - 1 /\ attempt \in Nat \ {0}
      BY <2>1 DEF CallInv, Counts, TypeOK
    <3> QED
      BY <3>1, <3>2
  <2>3. LastIsCurrent /\ Last(records).code \in Transient
    BY <2>1, <2>2 DEF CallInv, Current
  <2>4. Last(records).op = op
    <3>1. before < Len(records) /\ before \in Nat /\ Len(records) \in Nat
      BY <2>3 DEF CallInv, LastIsCurrent, TypeOK
    <3>2. Len(records) \in 1..Len(records) /\ ~(Len(records) <= before)
      BY <3>1
    <3> QED
      BY <3>2 DEF CallInv, Filed, Last
  <2> QED
    BY <2>3, <2>4 DEF LastIsCurrent
<1> QED
  BY CallAlways, <1>1, PTL DEF Spec, OnlyTransientIsRetried

\* Once a provider has answered an operation, no other is asked for it.
THEOREM AnswerAlways == Spec => UsableAnswerEndsTheSearch
<1> DEFINE Ends == \A i \in 1..Len(answers) :
                     answers[i] \in {"empty", "returned"} => wire' = wire
<1>1. CallInv /\ [Next]_vars => [Ends]_vars
  <2> SUFFICES ASSUME CallInv, Next, wire' # wire
               PROVE \A i \in 1..Len(answers) : answers[i] \notin {"empty", "returned"}
    OBVIOUS
  <2>1. pc = "attempt"
    BY DEF Next, TakeCandidate, Attempt, Retry, GiveUp, Adapt, OperationSucceeds, OperationFails,
       Finished, vars
  <2> QED
    BY <2>1 DEF CallInv, Unanswered
<1> QED
  BY CallAlways, <1>1, PTL DEF Spec, UsableAnswerEndsTheSearch

\* With at most two attempts for each provider, as every production runtime configures, a run
\* is reported as exhausted exactly when its only provider has made all the attempts it is
\* allowed and all failed for a time.
THEOREM ExhaustionAlways ==
    ASSUME \A p \in Provider : MaxAttempts[p] <= 2
    PROVE  Spec => []ExhaustionIsExact
<1>1. CallInv => ExhaustionIsExact
  <2> DEFINE p == candidates[1]
             AllTransient == \A i \in 1..Len(records) :
                               records[i].op = op => records[i].code \in Transient
  <2> SUFFICES ASSUME CallInv, Len(candidates) = 1, pc = "failed"
               PROVE failure = "BOUNDED_RETRY_EXHAUSTED" <=>
                       /\ p \in Bounded /\ MaxAttempts[p] >= 2
                       /\ Cardinality(Requests(op, p)) = MaxAttempts[p]
                       /\ error \in Transient
                       /\ AllTransient
    BY DEF ExhaustionIsExact
  <2>1. /\ p \in Provider /\ Limit(p) \in Nat \ {0} /\ Limit(p) <= 2 /\ op \in 1..NumOps
        /\ at \in 1..2 /\ MaxAttempts[p] \in Nat
    <3>1. p \in Provider /\ at \in 1..2
      <4>1. candidates \in Seq(Provider) /\ at \in 1..(Len(candidates) + 1)
        BY RegistriesAssumption DEF CallInv, TypeOK
      <4> QED
        BY <4>1
    <3>2. op \in 1..NumOps
      BY NumOpsAssumption DEF CallInv, Working, TypeOK
    <3> HIDE DEF p
    <3> QED
      BY <3>1, <3>2, PolicyAssumption DEF Limit
  <2>2. /\ Len(Slice) = Len(records) - before /\ Len(records) \in Nat /\ before \in Nat
        /\ before <= Len(records)
        /\ \A i \in 1..Len(Slice) : Slice[i] = records[before + i]
    BY SliceOf DEF CallInv, TypeOK
  <2>3. AllTransient <=> \A i \in 1..Len(Slice) : Slice[i].code \in Transient
    <3>1. \A i \in 1..Len(records) : records[i].op = op <=> i > before
      <4>1. \A i \in 1..Len(records) : records[i] \in Record
        <5>1. records \in Seq(Record)
          BY DEF CallInv, TypeOK, Record
        <5> QED
          BY <5>1
      <4>2. \A i \in 1..Len(records) : records[i].op \in Nat
        BY <2>1, <4>1, NumOpsAssumption DEF Record
      <4> QED
        BY <2>1, <2>2, <4>2, NumOpsAssumption DEF CallInv, Filed
    <3>2. ASSUME AllTransient, NEW i \in 1..Len(Slice) PROVE Slice[i].code \in Transient
      <4>1. before + i \in 1..Len(records) /\ before + i > before
        BY <2>2
      <4> QED
        BY <2>2, <3>1, <3>2, <4>1
    <3>3. ASSUME \A i \in 1..Len(Slice) : Slice[i].code \in Transient,
                 NEW i \in 1..Len(records), records[i].op = op
          PROVE records[i].code \in Transient
      <4>1. i - before \in 1..Len(Slice) /\ before + (i - before) = i
        BY <2>2, <3>1, <3>3
      <4> QED
        BY <2>2, <3>3, <4>1
    <3> QED
      BY <3>2, <3>3
  <2>4. failure = "BOUNDED_RETRY_EXHAUSTED" <=> Len(Slice) >= 2 /\ AllTransient
    BY <2>3 DEF CallInv, Reported, Exhausted
  <2>5. /\ Len(Slice) + Unclassified = Cardinality(Requests(op, p))
        /\ Cardinality(Requests(op, p)) <= Limit(p)
    BY <2>1, <2>2 DEF CallInv, Single, AttemptsAreBounded, Limit
  <2>6. error # "UNCLASSIFIED" =>
          /\ before < Len(records) /\ Last(records).code = error
          /\ error \in Transient => Cardinality(Requests(op, p)) = Limit(p)
    <3>1. error # "UNCLASSIFIED" => at > 1
      BY <2>1 DEF CallInv, Single
    <3> QED
      BY <3>1 DEF CallInv, Single
  <2> HIDE DEF AllTransient, p
  <2>7. ASSUME Len(Slice) >= 2, AllTransient
        PROVE /\ p \in Bounded /\ MaxAttempts[p] >= 2
              /\ Cardinality(Requests(op, p)) = MaxAttempts[p] /\ error \in Transient
    <3>1. error # "UNCLASSIFIED"
      BY <2>1, <2>2, <2>5, <2>7 DEF Unclassified
    <3>2. error \in Transient
      <4>1. Len(Slice) \in 1..Len(Slice) /\ before + Len(Slice) = Len(records)
        BY <2>2, <2>7
      <4>2. Slice[Len(Slice)] = records[Len(records)]
        BY <2>2, <4>1
      <4> QED
        BY <2>3, <2>6, <2>7, <3>1, <4>1, <4>2 DEF Last
    <3>3. Limit(p) >= 2 /\ Cardinality(Requests(op, p)) = Limit(p)
      BY <2>1, <2>2, <2>5, <2>6, <2>7, <3>1, <3>2 DEF Unclassified
    <3> QED
      BY <3>2, <3>3 DEF Limit
  <2>8. ASSUME MaxAttempts[p] >= 2, Cardinality(Requests(op, p)) = MaxAttempts[p],
               error \in Transient
        PROVE Len(Slice) >= 2
    <3>1. Unclassified = 0
      BY <2>8 DEF Unclassified, Transient
    <3> QED
      BY <2>1, <2>2, <2>5, <2>8, <3>1
  <2> QED
    BY <2>4, <2>7, <2>8
<1> QED
  BY CallAlways, <1>1, PTL
=============================================================================
