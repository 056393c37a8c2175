---------------------------- MODULE ProviderCall ----------------------------
(***************************************************************************)
(* The logical provider operations of one run, from the resolver down to   *)
(* the transport: candidates in priority order (registry.py, resolver.py), *)
(* transport attempts under a retry policy (base.py, transport.py), the    *)
(* recording of attempts (providers.py) and the classification of the      *)
(* outcome by the orchestrator (_resolve_operation).                       *)
(*                                                                         *)
(* A reply is abstracted to its error code and to whether the transport    *)
(* returned a response at all.  Credits are left out.                      *)
(* What is checkpointed afterwards is ProductionRun's subject.             *)
(*                                                                         *)
(* A definition marked [faulty] is a plausible mistake in the one after it *)
(* and is used by no action.                                               *)
(***************************************************************************)
EXTENDS Integers, Sequences, FiniteSets

CONSTANTS
    NumOps,         \* operations of the plan that are not replayed
    Provider,
    Registries,     \* what registry.candidates(field) may return: sequences of
                    \* providers, best priority first
    Bounded,        \* providers with BoundedTransientRetryPolicy; others NoRetryPolicy
    MaxAttempts     \* configuration.max_attempts of each provider

ASSUME NumOpsAssumption == NumOps \in Nat \ {0}
ASSUME RegistriesAssumption ==
    /\ Registries \subseteq Seq(Provider)
    /\ \A s \in Registries : \A i, j \in 1..Len(s) : s[i] = s[j] => i = j
ASSUME PolicyAssumption ==
    /\ Bounded \subseteq Provider
    /\ MaxAttempts \in [Provider -> Nat \ {0}]

VARIABLES
    candidates, \* registry.candidates(field) of this run
    pc,
    op,         \* position in the plan
    at,         \* position in candidates
    attempt,    \* attempt counter of the transport loop
    error,      \* code of the error at hand
    records,    \* RecordingTransport.attempt_records
    before,     \* length of records when the operation began
    tried,      \* the resolver's attempts for this operation
    counted,    \* transport_attempts of the run summary: operation of each
    logical,    \* logical_operations of the run summary
    failure,    \* how the run failed
    answers,    \* history: what the adapter made of the operation's responses
    wire        \* history: every request handed to the transport

vars == <<candidates, pc, op, at, attempt, error, records, before, tried, counted,
          logical, failure, answers, wire>>
----------------------------------------------------------------------------
\* Codes _raise_for_response gives a response, by its status class.
StatusCode == {"OK", "AUTHENTICATION", "RATE_LIMIT", "TIMEOUT",
               "PROVIDER_UNAVAILABLE", "BAD_RESPONSE"}

\* Codes of errors the transport raises; a 2xx body that is too large or not JSON
\* is a BAD_RESPONSE of this kind.  "UNCLASSIFIED" is an exception that is neither
\* a connector error, a TimeoutError nor an OSError (http.client.IncompleteRead).
RaisedCode == {"TIMEOUT", "NETWORK", "BAD_RESPONSE", "UNCLASSIFIED"}

Reply == [answered : {TRUE}, code : StatusCode] \cup [answered : {FALSE}, code : RaisedCode]

Retryable == {"RATE_LIMIT", "TIMEOUT", "NETWORK", "PROVIDER_UNAVAILABLE"}
Transient == {"NETWORK", "TIMEOUT", "PROVIDER_UNAVAILABLE"}

Last(s) == s[Len(s)]

\* The records of the operation at hand: attempt_records[before:].
Slice == SubSeq(records, before + 1, Len(records))

\* [faulty] every retryable error is retried, as BaseAPIClient does
RetryAnyRetryable(p) ==
    /\ p \in Bounded
    /\ attempt < MaxAttempts[p]
    /\ error \in Retryable

ShouldRetry(p) ==
    /\ p \in Bounded
    /\ attempt < MaxAttempts[p]
    /\ error \in Retryable
    /\ error \in Transient
----------------------------------------------------------------------------
Init ==
    /\ candidates \in Registries
    /\ pc = "candidate"
    /\ op = 1
    /\ at = 1
    /\ attempt = 1
    /\ error = "OK"
    /\ records = <<>>
    /\ before = 0
    /\ tried = <<>>
    /\ answers = <<>>
    /\ counted = <<>>
    /\ logical = <<>>
    /\ failure = "none"
    /\ wire = <<>>

TakeCandidate ==
    /\ pc = "candidate"
    /\ at <= Len(candidates)
    /\ pc' = "attempt"
    /\ attempt' = 1
    /\ UNCHANGED <<candidates, op, at, error, records, before, tried, counted, logical,
                   failure, answers, wire>>

\* One RecordingTransport.execute: every classified outcome leaves a record.
Attempt(reply) ==
    /\ pc = "attempt"
    /\ wire' = Append(wire, [op |-> op, provider |-> candidates[at]])
    /\ error' = reply.code
    /\ IF reply.code = "UNCLASSIFIED"
         THEN UNCHANGED records
         ELSE records' = Append(records,
                   [op |-> op, provider |-> candidates[at], code |-> reply.code,
                    answered |-> reply.answered])
    /\ pc' = CASE reply.code = "OK" -> "adapt"
               [] reply.code = "UNCLASSIFIED" -> "raised"
               [] OTHER -> "judge"
    /\ UNCHANGED <<candidates, op, at, attempt, before, tried, counted, logical, failure,
                   answers>>

\* [faulty] the attempt counter is not advanced
RetryUncounted ==
    /\ pc = "judge"
    /\ ShouldRetry(candidates[at])
    /\ pc' = "attempt"
    /\ UNCHANGED <<candidates, op, at, attempt, error, records, before, tried, counted,
                   logical, failure, answers, wire>>

Retry ==
    /\ pc = "judge"
    /\ ShouldRetry(candidates[at])
    /\ attempt + 1 <= MaxAttempts[candidates[at]]
    /\ attempt' = attempt + 1
    /\ pc' = "attempt"
    /\ UNCHANGED <<candidates, op, at, error, records, before, tried, counted, logical,
                   failure, answers, wire>>

\* The resolver notes the candidate and turns to the next one.
PassOver(status) ==
    /\ tried' = Append(tried, status)
    /\ at' = at + 1
    /\ pc' = "candidate"

GiveUp ==
    /\ pc = "judge"
    /\ ~ShouldRetry(candidates[at])
    /\ PassOver("FAILED")
    /\ UNCHANGED <<candidates, op, attempt, error, records, before, counted, logical,
                   failure, answers, wire>>

\* [faulty] an explicit empty answer does not end the search
AdaptEmptyIsMissing(result) ==
    /\ pc = "adapt"
    /\ CASE result = "unadaptable" -> PassOver("FAILED")
         [] result \in {"missing", "empty"} -> PassOver("FIELD_MISSING")
         [] result = "returned" ->
              /\ tried' = Append(tried, "SELECTED")
              /\ pc' = "accepted"
              /\ UNCHANGED at
    /\ answers' = Append(answers, result)
    /\ UNCHANGED <<candidates, op, attempt, error, records, before, counted, logical,
                   failure, wire>>

\* The adapter rejects the payload, or finds the field missing, explicitly empty, or
\* there.
Adapt(result) ==
    /\ pc = "adapt"
    /\ CASE result = "unadaptable" -> PassOver("FAILED")
         [] result = "missing" -> PassOver("FIELD_MISSING")
         [] result \in {"empty", "returned"} ->
              /\ tried' = Append(tried, IF result = "empty" THEN "EMPTY_SELECTED"
                                                            ELSE "SELECTED")
              /\ pc' = "accepted"
              /\ UNCHANGED at
    /\ answers' = Append(answers, result)
    /\ UNCHANGED <<candidates, op, attempt, error, records, before, counted, logical,
                   failure, wire>>
----------------------------------------------------------------------------
\* [faulty] the attempts of earlier operations are counted again
RecordAllAttempts == counted' = counted \o [i \in 1..Len(records) |-> op]

\* [faulty] the attempts are filed under the operation that comes next
RecordUnderNext == counted' = counted \o [i \in 1..Len(Slice) |-> op + 1]

\* _record_transport_attempts
RecordAttempts == counted' = counted \o [i \in 1..Len(Slice) |-> op]

\* [faulty] the first response with a good status is checkpointed
FirstSuccess(s) == CHOOSE i \in 1..Len(s) :
    s[i].code = "OK" /\ \A j \in 1..(i - 1) : s[j].code # "OK"

\* The response that is checkpointed: the latest with a good status.
LastSuccess(s) == CHOOSE i \in 1..Len(s) :
    s[i].code = "OK" /\ \A j \in (i + 1)..Len(s) : s[j].code # "OK"

OperationSucceeds ==
    /\ pc = "accepted"
    /\ RecordAttempts
    /\ logical' = Append(logical, [status |-> "SUCCEEDED", attempts |-> Len(Slice),
                                   response |-> before + LastSuccess(Slice)])
    /\ before' = Len(records)
    /\ op' = op + 1
    /\ at' = 1
    /\ tried' = <<>>
    /\ answers' = <<>>
    /\ pc' = IF op = NumOps THEN "done" ELSE "candidate"
    /\ UNCHANGED <<candidates, attempt, error, records, failure, wire>>

\* [faulty] a single transient failure already counts as an exhausted retry
ExhaustedBySingle(s) ==
    /\ Len(s) >= 1
    /\ \A i \in 1..Len(s) : s[i].code \in Transient

Exhausted(s) ==
    /\ Len(s) >= 2
    /\ \A i \in 1..Len(s) : s[i].code \in Transient

\* No candidate is left, or an exception nobody classifies went through the resolver.
OperationFails ==
    /\ \/ pc = "candidate" /\ at > Len(candidates)
       \/ pc = "raised"
    /\ RecordAttempts
    /\ logical' = Append(logical, [status |-> "FAILED", attempts |-> Len(Slice),
                                   response |-> 0])
    /\ failure' = IF Exhausted(Slice) THEN "BOUNDED_RETRY_EXHAUSTED"
                  ELSE IF pc = "raised" THEN "UNCLASSIFIED" ELSE "RESOLUTION_EXHAUSTED"
    /\ pc' = "failed"
    /\ UNCHANGED <<candidates, op, at, attempt, error, records, before, tried, answers, wire>>

Finished == pc \in {"done", "failed"} /\ UNCHANGED vars

Next ==
    \/ TakeCandidate
    \/ \E reply \in Reply : Attempt(reply)
    \/ Retry
    \/ GiveUp
    \/ \E result \in {"unadaptable", "missing", "empty", "returned"} : Adapt(result)
    \/ OperationSucceeds
    \/ OperationFails
    \/ Finished

Spec == Init /\ [][Next]_vars
----------------------------------------------------------------------------
TypeOK ==
    /\ candidates \in Registries
    /\ pc \in {"candidate", "attempt", "judge", "adapt", "raised", "accepted", "done",
               "failed"}
    /\ op \in 1..(NumOps + 1)
    /\ at \in 1..(Len(candidates) + 1)
    /\ attempt \in Nat \ {0}
    /\ error \in StatusCode \cup RaisedCode
    /\ records \in Seq([op : 1..NumOps, provider : Provider,
                        code : StatusCode \cup RaisedCode, answered : BOOLEAN])
    /\ before \in 0..Len(records)
    /\ tried \in Seq({"FAILED", "FIELD_MISSING", "EMPTY_SELECTED", "SELECTED"})
    /\ counted \in Seq(1..NumOps)
    /\ logical \in Seq([status : {"SUCCEEDED", "FAILED"}, attempts : Nat, response : Nat])
    /\ failure \in {"none", "BOUNDED_RETRY_EXHAUSTED", "UNCLASSIFIED",
                    "RESOLUTION_EXHAUSTED"}
    /\ answers \in Seq({"unadaptable", "missing", "empty", "returned"})
    /\ wire \in Seq([op : 1..NumOps, provider : Provider])
----------------------------------------------------------------------------
(* Properties.                                                             *)

\* The requests of operation o that were handed to provider p's transport.
Requests(o, p) == {i \in 1..Len(wire) : wire[i].op = o /\ wire[i].provider = p}

\* No provider is asked more often for one operation than its configuration allows,
\* and without a retry policy it is asked once.
AttemptsAreBounded ==
    \A o \in 1..NumOps, p \in Provider :
      Cardinality(Requests(o, p)) <= IF p \in Bounded THEN MaxAttempts[p] ELSE 1

\* A provider is asked again for the same operation only right after a transient
\* failure of its own: never after a rate limit, a refused credential, a rejected
\* request or an answer that could not be adapted.
OnlyTransientIsRetried ==
    [][wire' # wire /\ Requests(op, candidates[at]) # {} =>
         /\ Last(records).op = op
         /\ Last(records).provider = candidates[at]
         /\ Last(records).code \in Transient]_vars

\* A run is reported as BOUNDED_RETRY_EXHAUSTED exactly when its last operation made
\* every attempt its single provider is allowed, at least two, and all were transient
\* failures: then nothing but time can help.  This depends on the two attempts that
\* production runtimes configure: with three, two transient failures and then an exception
\* nobody classifies, which leaves no record, would be reported as exhausted too.
ExhaustionIsExact ==
    Len(candidates) = 1 /\ pc = "failed" =>
      LET p == candidates[1]
      IN  failure = "BOUNDED_RETRY_EXHAUSTED" <=>
            /\ p \in Bounded /\ MaxAttempts[p] >= 2
            /\ Cardinality(Requests(op, p)) = MaxAttempts[p]
            /\ error \in Transient
            /\ \A i \in 1..Len(records) : records[i].op = op => records[i].code \in Transient

\* What is checkpointed for an operation is the response its adapter accepted: the
\* last record made for that operation, and of the provider that was selected.
CheckpointHoldsAcceptedResponse ==
    \A o \in 1..Len(logical) : logical[o].status = "SUCCEEDED" =>
      LET i == logical[o].response
      IN  /\ i \in 1..Len(records)
          /\ records[i].op = o
          /\ records[i].code = "OK" /\ records[i].answered
          /\ \A j \in (i + 1)..Len(records) : records[j].op # o

\* The run summary lists every recorded attempt once and under its own operation,
\* in the order of the attempts, and the logical operations add up to it.
SummaryAddsUp ==
    pc \in {"done", "failed"} =>
      /\ counted = [i \in 1..Len(records) |-> records[i].op]
      /\ \A o \in 1..Len(logical) :
           logical[o].attempts = Cardinality({i \in 1..Len(counted) : counted[i] = o})

\* Once a provider has answered an operation, explicitly empty or not, no later
\* candidate is asked for it.
UsableAnswerEndsTheSearch ==
    [][\A i \in 1..Len(answers) :
         answers[i] \in {"empty", "returned"} => wire' = wire]_vars
=============================================================================
