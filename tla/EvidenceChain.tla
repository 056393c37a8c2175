---------------------------- MODULE EvidenceChain ----------------------------
(***************************************************************************)
(* The six builders that turn canonical observations into advice:          *)
(* evidence_evaluation, conflict_resolution, evidence_policy,              *)
(* decision_framework, opportunity_scoring, recommendation_framework.      *)
(* Each gets the bundles and the serialized snapshots of all layers before *)
(* it, from an operator who may rebuild any layer from any selection of    *)
(* bundles at any time, so that what is handed on may be stale.            *)
(*                                                                         *)
(* Ids are hashes of contents.  A bundle stands for its fingerprint; what  *)
(* a snapshot holds follows from the bundles and the resolution attempts   *)
(* it was built from, which stand for its id.                              *)
(***************************************************************************)
CONSTANTS
    Contents,      \* of each bundle of canonical evidence, the observations in it
    Selections,    \* the sets of bundles that an operator may pass together
    KeywordField,  \* the semantic fields of the keyword kinds
    Absent,        \* the value of an observation whose value is not present
    None           \* no snapshot

VARIABLES
    evaluation,    \* the snapshot held of each layer: support, conflict and
    conflict,      \* lineage records; analyses with their attempts; the result
    policy,        \* of each policy; of each rule; the status of each factor;
    decision,      \* the recommendation under each rule
    score,
    advice

vars == <<evaluation, conflict, policy, decision, score, advice>>

Init == /\ evaluation = None /\ conflict = None /\ policy = None
        /\ decision = None /\ score = None /\ advice = None

-----------------------------------------------------------------------------
(* The index of the records, which every builder makes of its bundles.  An  *)
(* observation may be emitted by several runs; one id has one content, and  *)
(* one emission one metadata.                                               *)

Observed(S) == UNION {Contents[b] : b \in S}
Content(o) == [field |-> o.field, value |-> o.value]

Collide(o, q) == o.id = q.id /\ (Content(o) # Content(q) \/ (o.run = q.run /\ o # q))
Sound(S) == \A o, q \in Observed(S) : ~Collide(o, q)

Emission(S, o) ==
    [id |-> o.id, field |-> o.field, run |-> o.run,
     bundles |-> {b \in S : \E q \in Contents[b] : q.id = o.id /\ q.run = o.run}]
\* [faulty] One emission of each observation is kept.
LineageOfOne(S) == {Emission(S, CHOOSE q \in Observed(S) : q.id = o.id) : o \in Observed(S)}
Lineage(S) == {Emission(S, o) : o \in Observed(S)}

\* Observations of one field support each other; those with a value are candidates when
\* the values differ.
Supports(S) == {[field |-> f, ids |-> {o.id : o \in {q \in Observed(S) : q.field = f}}] :
                f \in {o.field : o \in Observed(S)}}
Candidates(S, f) == {o \in Observed(S) : o.field = f /\ o.value # Absent}
Conflicts(S) == {[field |-> f, candidates |-> {o.id : o \in Candidates(S, f)}] :
                 f \in {g \in {o.field : o \in Observed(S)} :
                          \E o, q \in Candidates(S, g) : o.value # q.value}}

-----------------------------------------------------------------------------
(* The layers.                                                              *)

Evaluate(S) ==
    /\ Sound(S)
    /\ evaluation' = [bundles |-> S, supports |-> Supports(S), conflicts |-> Conflicts(S),
                      lineage |-> Lineage(S)]
    /\ UNCHANGED <<conflict, policy, decision, score, advice>>

\* A request needs every layer before it, built from the bundles it is made with.
Of(snapshot, S) == snapshot # None /\ snapshot.bundles = S
\* [faulty] Bundles are compared, snapshot ids are not.
OfBundles(snapshot, S, attempts) == Of(snapshot, S)
\* [faulty] The attempts are compared, the bundles are not.
OfAttempts(snapshot, S, attempts) == snapshot # None /\ snapshot.attempts = attempts
From(snapshot, S, attempts) == Of(snapshot, S) /\ snapshot.attempts = attempts

\* An attempt at a conflict names all its candidates, and produces one of them or none:
\* INSUFFICIENT_EVIDENCE and AMBIGUOUS, which no layer tells apart, are one status here.
Attempt(c) ==
    {[analysis |-> c, status |-> "RESOLUTION_PRODUCED", produced |-> {i}] : i \in c.candidates}
    \cup {[analysis |-> c, status |-> "AMBIGUOUS", produced |-> {}]}
NotAttempted(c) == [analysis |-> c, status |-> "NOT_ATTEMPTED", produced |-> {}]
Attempts(cs, requested) ==
    requested \cup {NotAttempted(c) : c \in {d \in cs : \A a \in requested : a.analysis # d}}

\* What an operator may ask for was written for the conflicts of some evaluation; at most
\* one explicit attempt is made at a time (bound of the model).
Requests == {{}} \cup {{a} : a \in UNION {Attempt(c) : c \in UNION {Conflicts(S) : S \in Selections}}}

Resolve(S) ==
    /\ Of(evaluation, S) /\ Sound(S)
    /\ \E requested \in Requests :
         /\ \A a \in requested : a.analysis \in evaluation.conflicts
         /\ conflict' = [bundles |-> S, attempts |-> Attempts(evaluation.conflicts, requested)]
    /\ UNCHANGED <<evaluation, policy, decision, score, advice>>

\* MINIMUM_PROVIDER_COUNT, the third policy, is required by no rule and is left out.
Policy == {"LINEAGE_COMPLETENESS_REQUIRED", "CONFLICT_PRESENT"}

\* [faulty] A conflict for which an attempt has produced a candidate no longer blocks.
BlockedUntilProduced(conflicts, attempts) ==
    \E c \in conflicts : \A a \in attempts : a.analysis = c => a.status # "RESOLUTION_PRODUCED"
Blocked(conflicts, attempts) == conflicts # {}

PolicyResult(p, conflicts, supports, attempts) ==
    IF p = "CONFLICT_PRESENT"
      THEN IF Blocked(conflicts, attempts) THEN "ACTION_BLOCKED" ELSE "NOT_APPLICABLE"
      ELSE IF supports # {} THEN "ACTION_ALLOWED" ELSE "NOT_APPLICABLE"

\* A lineage goes with the attempts at the conflict in which its observation stands.
\* Every policy considers every support, so policies and rules share one lineage.
Traced(lineage, attempts) ==
    {[emission |-> l,
      attempts |-> {a \in attempts : /\ a.analysis.field = l.field
                                     /\ l.id \in a.analysis.candidates}] : l \in lineage}

ApplyPolicy(S) ==
    /\ Of(evaluation, S) /\ Of(conflict, S)
    /\ Sound(S)
    /\ policy' = [bundles |-> S, attempts |-> conflict.attempts,
                  results |-> [p \in Policy |->
                      PolicyResult(p, evaluation.conflicts, evaluation.supports, conflict.attempts)],
                  lineage |-> Traced(evaluation.lineage, conflict.attempts)]
    /\ UNCHANGED <<evaluation, conflict, decision, score, advice>>

Rule == {"EVIDENCE_INVENTORY", "CONFLICT_FREE_EVIDENCE", "KEYWORD_EVIDENCE", "CONFLICT_CONTEXT"}
RequiredPolicies(r) ==
    IF r \in {"CONFLICT_FREE_EVIDENCE", "KEYWORD_EVIDENCE"} THEN Policy
    ELSE {"LINEAGE_COMPLETENESS_REQUIRED"}
ConflictMatches(r, conflicts) == CASE r = "EVIDENCE_INVENTORY" -> TRUE
                                   [] r = "CONFLICT_CONTEXT" -> conflicts # {}
                                   [] OTHER -> conflicts = {}
\* [faulty] Evidence of any kind will do.
AvailableOfAnyKind(r, supports) == supports
Available(r, supports) ==
    IF r = "KEYWORD_EVIDENCE" THEN {s \in supports : s.field \in KeywordField} ELSE supports
PolicyBlocks(r, results) == \E p \in RequiredPolicies(r) : results[p] = "ACTION_BLOCKED"

RuleResult(r, supports, conflicts, results) ==
    IF Available(r, supports) = {} THEN "INSUFFICIENT_EVIDENCE"
    ELSE IF PolicyBlocks(r, results) THEN "RULE_ANALYSIS_BLOCKED_BY_POLICY"
    ELSE IF ~ConflictMatches(r, conflicts) THEN "RULE_NOT_APPLICABLE"
    ELSE "RULE_ANALYSIS_RECORDED"

\* Without a single support record there is nothing to decide.
Decide(S) ==
    /\ Of(evaluation, S) /\ Of(conflict, S)
    /\ From(policy, S, conflict.attempts)
    /\ Sound(S)
    /\ evaluation.supports # {}
    /\ decision' = [bundles |-> S, attempts |-> conflict.attempts,
                    results |-> [r \in Rule |-> RuleResult(r, evaluation.supports,
                                                  evaluation.conflicts, policy.results)],
                    conflicts |-> evaluation.conflicts, lineage |-> policy.lineage]
    /\ UNCHANGED <<evaluation, conflict, policy, score, advice>>

FactorStatus(result, conflicts) ==
    CASE result = "RULE_ANALYSIS_RECORDED" ->
           IF conflicts # {} THEN "CALCULATED_WITH_CONFLICT_VISIBLE" ELSE "CALCULATED"
      [] result = "RULE_ANALYSIS_BLOCKED_BY_POLICY" -> "BLOCKED_BY_POLICY"
      [] result = "INSUFFICIENT_EVIDENCE" -> "EXCLUDED_MISSING_EVIDENCE"
      [] result = "RULE_NOT_APPLICABLE" -> "NOT_APPLICABLE"

Score(S) ==
    /\ Of(evaluation, S) /\ Of(conflict, S)
    /\ From(policy, S, conflict.attempts) /\ From(decision, S, conflict.attempts)
    /\ Sound(S)
    /\ score' = [bundles |-> S, attempts |-> conflict.attempts,
                 status |-> [r \in Rule |-> FactorStatus(decision.results[r], decision.conflicts)],
                 conflicts |-> decision.conflicts, lineage |-> decision.lineage]
    /\ UNCHANGED <<evaluation, conflict, policy, decision, advice>>

Recommendation(r, status, conflicts, results) ==
    IF PolicyBlocks(r, results) THEN "RECOMMENDATION_BLOCKED_BY_POLICY"
    ELSE IF status = "EXCLUDED_MISSING_EVIDENCE" THEN "EVIDENCE_COLLECTION_RECOMMENDED"
    ELSE IF status = "NOT_APPLICABLE" THEN "RULE_NOT_APPLICABLE"
    ELSE IF conflicts # {} THEN "FURTHER_REVIEW_RECOMMENDED" ELSE "RULE_CONDITIONS_SATISFIED"

Recommend(S) ==
    /\ Of(evaluation, S) /\ Of(conflict, S)
    /\ \A s \in {policy, decision, score} : From(s, S, conflict.attempts)
    /\ Sound(S)
    /\ advice' = [bundles |-> S, attempts |-> conflict.attempts,
                  advice |-> [r \in Rule |-> Recommendation(r, score.status[r],
                                               score.conflicts, policy.results)],
                  lineage |-> score.lineage]
    /\ UNCHANGED <<evaluation, conflict, policy, decision, score>>

Next == \E S \in Selections : \/ Evaluate(S) \/ Resolve(S) \/ ApplyPolicy(S)
                              \/ Decide(S) \/ Score(S) \/ Recommend(S)

Spec == Init /\ [][Next]_vars

-----------------------------------------------------------------------------
(* Properties, about the advice and the observations at the other end.      *)

Disagree(o, q) == o.field = q.field /\ {o.value, q.value} \cap {Absent} = {} /\ o.value # q.value
Disagreement(S) == \E o, q \in Observed(S) : Disagree(o, q)
KeywordSeen(S) == \E o \in Observed(S) : o.field \in KeywordField

\* When two observations of one field disagree, no rule is reported as satisfied and the
\* rules that need agreement are blocked, whatever resolution has been attempted: an
\* attempt "does not select a winner".
ConflictStaysOpen ==
    advice # None /\ Disagreement(advice.bundles) =>
      /\ \A r \in Rule : advice.advice[r] # "RULE_CONDITIONS_SATISFIED"
      /\ \A r \in {"CONFLICT_FREE_EVIDENCE", "KEYWORD_EVIDENCE"} :
           advice.advice[r] = "RECOMMENDATION_BLOCKED_BY_POLICY"

\* Without a conflict the keyword rule asks for evidence exactly when there is none: what
\* is missing is never a negative conclusion or a satisfied condition, and what is there
\* is never asked for.
MissingIsNotNegative ==
    advice # None /\ ~Disagreement(advice.bundles) =>
      advice.advice["KEYWORD_EVIDENCE"] =
        IF KeywordSeen(advice.bundles) THEN "RULE_CONDITIONS_SATISFIED"
        ELSE "EVIDENCE_COLLECTION_RECOMMENDED"

\* Advice is traced to every emission of every observation it was given, with all the
\* bundles that contain it, and to the attempts in the very conflict snapshot it names.
LineageIsComplete ==
    advice # None =>
      /\ \A b \in advice.bundles : \A o \in Contents[b] :
           \E l \in advice.lineage : /\ l.emission.id = o.id /\ l.emission.run = o.run
                                     /\ b \in l.emission.bundles
      /\ \A l \in advice.lineage : /\ l.attempts \subseteq advice.attempts
                                   /\ \A a \in advice.attempts :
                                        a.analysis.field = l.emission.field
                                        /\ l.emission.id \in a.analysis.candidates
                                        => a \in l.attempts

\* What the six builders make of the bundles S and the attempts A in one pass.
Advice(S, A) ==
    LET supports  == Supports(S)
        conflicts == Conflicts(S)
        results   == [p \in Policy |-> PolicyResult(p, conflicts, supports, A)]
        decided   == [r \in Rule |-> RuleResult(r, supports, conflicts, results)]
        status    == [r \in Rule |-> FactorStatus(decided[r], conflicts)]
    IN  [r \in Rule |-> Recommendation(r, status[r], conflicts, results)]

\* Whoever runs the six builders once, in order, on the bundles and the attempts that the
\* advice names gets this advice and this lineage again, in whatever order and from
\* whatever other bundles and attempts the layers it was made from had been rebuilt.
AdviceIsReproducible ==
    advice # None =>
      /\ advice.advice = Advice(advice.bundles, advice.attempts)
      /\ advice.lineage = Traced(Lineage(advice.bundles), advice.attempts)
=============================================================================
