-------------------------- MODULE EvidenceChainProofs --------------------------
(***************************************************************************)
(* The four properties of the evidence chain, for every set of bundles     *)
(* with any contents and every choice of selections.  The argument: each   *)
(* snapshot held is what the whole chain computes from its own bundles and *)
(* attempts, whatever the other layers have been rebuilt from since.       *)
(***************************************************************************)
EXTENDS EvidenceChain, TLAPS

\* What the chain computes from the bundles S and the attempts A, layer by layer.
PolicyResults(S, A) == [p \in Policy |-> PolicyResult(p, Conflicts(S), Supports(S), A)]
RuleResults(S, A) ==
    [r \in Rule |-> RuleResult(r, Supports(S), Conflicts(S), PolicyResults(S, A))]
Statuses(S, A) == [r \in Rule |-> FactorStatus(RuleResults(S, A)[r], Conflicts(S))]
Recommendations(S, A) ==
    [r \in Rule |-> Recommendation(r, Statuses(S, A)[r], Conflicts(S), PolicyResults(S, A))]
Trace(S, A) == Traced(Lineage(S), A)

\* The inductive invariant, one conjunct for each layer.
IsEvaluation ==
    evaluation = None \/ /\ Sound(evaluation.bundles)
                         /\ evaluation.supports = Supports(evaluation.bundles)
                         /\ evaluation.conflicts = Conflicts(evaluation.bundles)
                         /\ evaluation.lineage = Lineage(evaluation.bundles)
IsConflict == conflict = None \/ Sound(conflict.bundles)
IsPolicy ==
    policy = None \/ /\ Sound(policy.bundles)
                     /\ policy.results = PolicyResults(policy.bundles, policy.attempts)
                     /\ policy.lineage = Trace(policy.bundles, policy.attempts)
IsDecision ==
    decision = None \/ /\ Sound(decision.bundles)
                       /\ decision.results = RuleResults(decision.bundles, decision.attempts)
                       /\ decision.conflicts = Conflicts(decision.bundles)
                       /\ decision.lineage = Trace(decision.bundles, decision.attempts)
IsScore ==
    score = None \/ /\ Sound(score.bundles)
                    /\ score.status = Statuses(score.bundles, score.attempts)
                    /\ score.conflicts = Conflicts(score.bundles)
                    /\ score.lineage = Trace(score.bundles, score.attempts)
IsAdvice ==
    advice = None \/ /\ Sound(advice.bundles)
                     /\ advice.advice = Recommendations(advice.bundles, advice.attempts)
                     /\ advice.lineage = Trace(advice.bundles, advice.attempts)
ChainInv == IsEvaluation /\ IsConflict /\ IsPolicy /\ IsDecision /\ IsScore /\ IsAdvice

LEMMA InitChain == Init => ChainInv
BY DEF Init, ChainInv, IsEvaluation, IsConflict, IsPolicy, IsDecision, IsScore, IsAdvice

\* One step for each builder: it computes its layer from layers that are what the chain
\* computes from the same bundles and, by the continuity of ids, the same attempts.
LEMMA ChainStep == ChainInv /\ [Next]_vars => ChainInv'
<1> SUFFICES ASSUME ChainInv, [Next]_vars PROVE ChainInv'
  OBVIOUS
<1> USE DEF ChainInv
<1>1. ASSUME NEW S \in Selections, Evaluate(S) PROVE ChainInv'
  BY <1>1 DEF Evaluate, IsEvaluation, IsConflict, IsPolicy, IsDecision, IsScore, IsAdvice
<1>2. ASSUME NEW S \in Selections, Resolve(S) PROVE ChainInv'
  <2>1. IsConflict'
    BY <1>2 DEF Resolve, IsConflict
  <2> QED
    BY <2>1, <1>2 DEF Resolve, IsEvaluation, IsPolicy, IsDecision, IsScore, IsAdvice
<1>3. ASSUME NEW S \in Selections, ApplyPolicy(S) PROVE ChainInv'
  <2>1. IsPolicy'
    <3>1. /\ Sound(S) /\ evaluation.conflicts = Conflicts(S)
          /\ evaluation.supports = Supports(S) /\ evaluation.lineage = Lineage(S)
      BY <1>3 DEF ApplyPolicy, Of, IsEvaluation
    <3> QED
      BY <1>3, <3>1 DEF ApplyPolicy, IsPolicy, PolicyResults, Trace
  <2> QED
    BY <2>1, <1>3 DEF ApplyPolicy, IsEvaluation, IsConflict, IsDecision, IsScore, IsAdvice
<1>4. ASSUME NEW S \in Selections, Decide(S) PROVE ChainInv'
  <2>1. IsDecision'
    <3>1. /\ Sound(S) /\ evaluation.conflicts = Conflicts(S)
          /\ evaluation.supports = Supports(S)
      BY <1>4 DEF Decide, Of, IsEvaluation
    <3>2. /\ policy.results = PolicyResults(S, conflict.attempts)
          /\ policy.lineage = Trace(S, conflict.attempts)
      BY <1>4 DEF Decide, From, Of, IsPolicy
    <3> QED
      BY <1>4, <3>1, <3>2 DEF Decide, IsDecision, RuleResults
  <2> QED
    BY <2>1, <1>4 DEF Decide, IsEvaluation, IsConflict, IsPolicy, IsScore, IsAdvice
<1>5. ASSUME NEW S \in Selections, Score(S) PROVE ChainInv'
  <2>1. IsScore'
    <3>1. /\ Sound(S)
          /\ decision.results = RuleResults(S, conflict.attempts)
          /\ decision.conflicts = Conflicts(S)
          /\ decision.lineage = Trace(S, conflict.attempts)
      BY <1>5 DEF Score, From, Of, IsDecision
    <3> QED
      BY <1>5, <3>1 DEF Score, IsScore, Statuses
  <2> QED
    BY <2>1, <1>5 DEF Score, IsEvaluation, IsConflict, IsPolicy, IsDecision, IsAdvice
<1>6. ASSUME NEW S \in Selections, Recommend(S) PROVE ChainInv'
  <2>1. IsAdvice'
    <3>1. /\ Sound(S)
          /\ score.status = Statuses(S, conflict.attempts)
          /\ score.conflicts = Conflicts(S)
          /\ score.lineage = Trace(S, conflict.attempts)
      BY <1>6 DEF Recommend, From, Of, IsScore
    <3>2. policy.results = PolicyResults(S, conflict.attempts)
      BY <1>6 DEF Recommend, From, Of, IsPolicy
    <3> QED
      BY <1>6, <3>1, <3>2 DEF Recommend, IsAdvice, Recommendations
  <2> QED
    BY <2>1, <1>6 DEF Recommend, IsEvaluation, IsConflict, IsPolicy, IsDecision, IsScore
<1>7. CASE UNCHANGED vars
  BY <1>7 DEF vars, IsEvaluation, IsConflict, IsPolicy, IsDecision, IsScore, IsAdvice
<1> QED
  BY <1>1, <1>2, <1>3, <1>4, <1>5, <1>6, <1>7 DEF Next

\* Every snapshot held is what the chain computes from its own bundles and attempts: a
\* stale snapshot of another layer never leaks into one that is built after it.
THEOREM ChainAlways == Spec => []ChainInv
<1>1. Init => ChainInv
  BY InitChain
<1>2. ChainInv /\ [Next]_vars => ChainInv'
  BY ChainStep
<1> QED
  BY <1>1, <1>2, PTL DEF Spec

-----------------------------------------------------------------------------

\* Conflicts, as the first layer finds them, are the disagreements that can be seen in
\* the observations.
LEMMA ConflictIsDisagreement ==
    ASSUME NEW S PROVE (Conflicts(S) # {}) <=> Disagreement(S)
<1>1. ASSUME NEW o \in Observed(S), NEW q \in Observed(S), Disagree(o, q)
      PROVE Conflicts(S) # {}
  <2>1. o \in Candidates(S, o.field) /\ q \in Candidates(S, o.field) /\ o.value # q.value
    BY <1>1 DEF Disagree, Candidates
  <2>2. o.field \in {g \in {p.field : p \in Observed(S)} :
                       \E x, y \in Candidates(S, g) : x.value # y.value}
    BY <2>1
  <2> QED
    BY <2>2 DEF Conflicts
<1>2. ASSUME NEW c \in Conflicts(S) PROVE Disagreement(S)
  <2>1. PICK f : \E x, y \in Candidates(S, f) : x.value # y.value
    BY <1>2 DEF Conflicts
  <2> QED
    BY <2>1 DEF Candidates, Disagreement, Disagree
<1> QED
  BY <1>1, <1>2 DEF Disagreement

\* The keyword rule has evidence when an observation of a keyword field has been seen.
LEMMA KeywordEvidenceIsSeen ==
    ASSUME NEW S
    PROVE (Available("KEYWORD_EVIDENCE", Supports(S)) # {}) <=> KeywordSeen(S)
<1>1. ASSUME NEW o \in Observed(S), o.field \in KeywordField
      PROVE Available("KEYWORD_EVIDENCE", Supports(S)) # {}
  <2> DEFINE s == [field |-> o.field, ids |-> {p.id : p \in {q \in Observed(S) : q.field = o.field}}]
  <2>1. s \in Supports(S)
    BY DEF Supports
  <2> QED
    BY <1>1, <2>1 DEF Available
<1>2. ASSUME NEW s \in Available("KEYWORD_EVIDENCE", Supports(S)) PROVE KeywordSeen(S)
  <2>1. s \in Supports(S) /\ s.field \in KeywordField
    BY <1>2 DEF Available
  <2>2. PICK o \in Observed(S) : s.field = o.field
    BY <2>1 DEF Supports
  <2> QED
    BY <2>1, <2>2 DEF KeywordSeen
<1> QED
  BY <1>1, <1>2 DEF KeywordSeen

\* The policy of conflicts blocks the rules that require it exactly when there are some.
LEMMA ConflictsBlock ==
    ASSUME NEW S, NEW A, NEW r \in Rule
    PROVE PolicyBlocks(r, PolicyResults(S, A)) <=>
            r \in {"CONFLICT_FREE_EVIDENCE", "KEYWORD_EVIDENCE"} /\ Conflicts(S) # {}
<1>1. PolicyResults(S, A)["LINEAGE_COMPLETENESS_REQUIRED"] # "ACTION_BLOCKED"
  BY DEF PolicyResults, PolicyResult, Policy
<1>2. PolicyResults(S, A)["CONFLICT_PRESENT"] = "ACTION_BLOCKED" <=> Conflicts(S) # {}
  BY DEF PolicyResults, PolicyResult, Policy, Blocked
<1>3. r \in {"CONFLICT_FREE_EVIDENCE", "KEYWORD_EVIDENCE"} => RequiredPolicies(r) = Policy
  BY DEF RequiredPolicies
<1>4. r \notin {"CONFLICT_FREE_EVIDENCE", "KEYWORD_EVIDENCE"}
        => RequiredPolicies(r) = {"LINEAGE_COMPLETENESS_REQUIRED"}
  BY DEF RequiredPolicies
<1> QED
  BY <1>1, <1>2, <1>3, <1>4 DEF PolicyBlocks, Policy

\* For all bundles and attempts, a disagreement among the observations blocks the rules
\* that need agreement and leaves none satisfied.
THEOREM ConflictStaysOpenAlways == Spec => []ConflictStaysOpen
<1>1. ChainInv => ConflictStaysOpen
  <2> SUFFICES ASSUME IsAdvice, advice # None, Disagreement(advice.bundles)
               PROVE /\ \A r \in Rule : advice.advice[r] # "RULE_CONDITIONS_SATISFIED"
                     /\ \A r \in {"CONFLICT_FREE_EVIDENCE", "KEYWORD_EVIDENCE"} :
                          advice.advice[r] = "RECOMMENDATION_BLOCKED_BY_POLICY"
    BY DEF ChainInv, ConflictStaysOpen
  <2> DEFINE S == advice.bundles
             A == advice.attempts
  <2>1. Conflicts(S) # {}
    BY ConflictIsDisagreement
  <2>2. \A r \in Rule : advice.advice[r] =
          Recommendation(r, Statuses(S, A)[r], Conflicts(S), PolicyResults(S, A))
    BY DEF IsAdvice, Recommendations
  <2> QED
    BY <2>1, <2>2, ConflictsBlock DEF Recommendation, Rule
<1> QED
  BY <1>1, ChainAlways, PTL

\* For all bundles without a disagreement, the keyword rule is satisfied if keyword
\* evidence has been seen, and asks for it otherwise.
THEOREM MissingIsNotNegativeAlways == Spec => []MissingIsNotNegative
<1>1. ChainInv => MissingIsNotNegative
  <2> DEFINE S == advice.bundles
             A == advice.attempts
             r == "KEYWORD_EVIDENCE"
  <2> SUFFICES ASSUME IsAdvice, advice # None, ~Disagreement(S)
               PROVE advice.advice[r] = IF KeywordSeen(S) THEN "RULE_CONDITIONS_SATISFIED"
                                        ELSE "EVIDENCE_COLLECTION_RECOMMENDED"
    BY DEF ChainInv, MissingIsNotNegative
  <2>1. Conflicts(S) = {}
    BY ConflictIsDisagreement
  <2>2. r \in Rule
    BY DEF Rule
  <2>3. ~PolicyBlocks(r, PolicyResults(S, A))
    BY <2>1, <2>2, ConflictsBlock
  <2>4. advice.advice[r] =
          Recommendation(r, Statuses(S, A)[r], Conflicts(S), PolicyResults(S, A))
    BY <2>2 DEF IsAdvice, Recommendations
  <2>5. Statuses(S, A)[r] = FactorStatus(RuleResults(S, A)[r], Conflicts(S))
    BY <2>2 DEF Statuses
  <2>6. RuleResults(S, A)[r] =
          IF KeywordSeen(S) THEN "RULE_ANALYSIS_RECORDED" ELSE "INSUFFICIENT_EVIDENCE"
    <3>1. RuleResults(S, A)[r] =
            RuleResult(r, Supports(S), Conflicts(S), PolicyResults(S, A))
      BY <2>2 DEF RuleResults
    <3>2. ConflictMatches(r, Conflicts(S))
      BY <2>1 DEF ConflictMatches
    <3> QED
      BY <3>1, <3>2, <2>3, KeywordEvidenceIsSeen DEF RuleResult
  <2>7. Statuses(S, A)[r] =
          IF KeywordSeen(S) THEN "CALCULATED" ELSE "EXCLUDED_MISSING_EVIDENCE"
    BY <2>1, <2>5, <2>6 DEF FactorStatus
  <2> QED
    BY <2>1, <2>3, <2>4, <2>7 DEF Recommendation
<1> QED
  BY <1>1, ChainAlways, PTL

\* For all bundles and attempts, advice is traced to every emission of its bundles and to
\* the attempts of the conflict snapshot it names.
THEOREM LineageIsCompleteAlways == Spec => []LineageIsComplete
<1>1. ChainInv => LineageIsComplete
  <2> DEFINE S == advice.bundles
             A == advice.attempts
  <2> SUFFICES ASSUME IsAdvice, advice # None
               PROVE /\ \A b \in S : \A o \in Contents[b] :
                          \E l \in advice.lineage : /\ l.emission.id = o.id
                                                    /\ l.emission.run = o.run
                                                    /\ b \in l.emission.bundles
                     /\ \A l \in advice.lineage :
                          /\ l.attempts \subseteq A
                          /\ \A a \in A : a.analysis.field = l.emission.field
                                          /\ l.emission.id \in a.analysis.candidates
                                          => a \in l.attempts
    BY DEF ChainInv, LineageIsComplete
  <2>1. advice.lineage = Traced(Lineage(S), A)
    BY DEF IsAdvice, Trace
  <2> DEFINE At(l) == {a \in A : /\ a.analysis.field = l.field
                                 /\ l.id \in a.analysis.candidates}
  <2>2. ASSUME NEW b \in S, NEW o \in Contents[b]
        PROVE \E l \in advice.lineage : /\ l.emission.id = o.id /\ l.emission.run = o.run
                                        /\ b \in l.emission.bundles
    <3>1. o \in Observed(S)
      BY <2>2 DEF Observed
    <3>2. Emission(S, o) \in Lineage(S)
      BY <3>1 DEF Lineage
    <3>3. [emission |-> Emission(S, o), attempts |-> At(Emission(S, o))] \in advice.lineage
      BY <2>1, <3>2 DEF Traced
    <3>4. /\ Emission(S, o).id = o.id /\ Emission(S, o).run = o.run
          /\ b \in Emission(S, o).bundles
      BY <2>2 DEF Emission
    <3> QED
      BY <3>3, <3>4
  <2>3. ASSUME NEW l \in advice.lineage
        PROVE /\ l.attempts \subseteq A
              /\ \A a \in A : a.analysis.field = l.emission.field
                              /\ l.emission.id \in a.analysis.candidates => a \in l.attempts
    BY <2>1, <2>3 DEF Traced
  <2> QED
    BY <2>2, <2>3
<1> QED
  BY <1>1, ChainAlways, PTL

\* For all bundles, attempts and selections, advice is what one pass over its own bundles
\* and attempts makes, whichever snapshots it was made from.
THEOREM AdviceIsReproducibleAlways == Spec => []AdviceIsReproducible
<1>1. ChainInv => AdviceIsReproducible
  BY DEF ChainInv, IsAdvice, AdviceIsReproducible, Advice, Trace,
         Recommendations, Statuses, RuleResults, PolicyResults
<1> QED
  BY <1>1, ChainAlways, PTL
=============================================================================
