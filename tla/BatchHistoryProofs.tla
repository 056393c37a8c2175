------------------------- MODULE BatchHistoryProofs -------------------------
(***************************************************************************)
(* What BatchSelection keeps across batches: the lineage of a resumed      *)
(* batch, the usage booked by all generations, and what can be resumed.    *)
(* The lineage is a recursive function and the usage a fold over a set;    *)
(* what they compute is proved by taking the least case that would fail.   *)
(***************************************************************************)
EXTENDS BatchSelectionProofs, WellFoundedInduction

(* Walks through the recorded parents.                                     *)

\* A nonempty set of natural numbers has a least element.
LEMMA LeastNumber ==
    ASSUME NEW T \in SUBSET Nat, T # {}
    PROVE  \E n \in T : \A m \in T : n <= m
<1>1. IsWellFoundedOn(OpToRel(<, Nat), Nat)
  BY NatLessThanWellFounded
<1>2. \E x \in T : \A y \in T : ~ (<<y, x>> \in OpToRel(<, Nat))
  BY <1>1, WFMin
<1>3. PICK n \in T : \A y \in T : ~ (<<y, n>> \in OpToRel(<, Nat))
  BY <1>2
<1>4. \A y \in T : ~ (y < n)
  BY <1>3 DEF OpToRel
<1> QED BY <1>4

\* The generation after x, by the results r.
ParentIn(r, x) == IF x = NoDir THEN NoDir ELSE IF r[x] = NoResult THEN NoDir ELSE r[x].parent

\* g is the walk of n generations from s through the results r.
IsWalk(g, r, s, n) == g = [k \in 0..n |-> IF k = 0 THEN s ELSE ParentIn(r, g[k - 1])]

\* A walk step by step.
LEMMA WalkSteps ==
    ASSUME NEW r, NEW s, NEW n \in Nat, NEW g, IsWalk(g, r, s, n)
    PROVE  g[0] = s /\ \A k \in 1..n : g[k] = ParentIn(r, g[k - 1])
<1> DEFINE body(k) == IF k = 0 THEN s ELSE ParentIn(r, g[k - 1])
<1>1. g = [k \in 0..n |-> body(k)]
  BY Zenon DEF IsWalk
<1> HIDE DEF body
<1>2. \A k \in 0..n : g[k] = body(k)
  BY <1>1, Zenon
<1> QED BY <1>2 DEF body

\* A walk starts where it is to start.
LEMMA WalkStart ==
    ASSUME NEW r, NEW s, NEW n \in Nat, NEW g, IsWalk(g, r, s, n)
    PROVE  g[0] = s
BY WalkSteps

\* What steps like a walk is one.
LEMMA WalkFromSteps ==
    ASSUME NEW r, NEW s, NEW n \in Nat, NEW g, DOMAIN g = 0..n, g = [k \in DOMAIN g |-> g[k]],
           g[0] = s, \A k \in 1..n : g[k] = ParentIn(r, g[k - 1])
    PROVE  IsWalk(g, r, s, n)
<1> DEFINE body(k) == IF k = 0 THEN s ELSE ParentIn(r, g[k - 1])
<1>1. ASSUME NEW k \in 0..n PROVE g[k] = body(k)
  <2>1. k = 0 \/ k \in 1..n
    OBVIOUS
  <2>2. CASE k = 0
    BY <2>2
  <2>3. CASE k # 0
    BY <2>1, <2>3
  <2> QED BY <2>2, <2>3
<1> HIDE DEF body
<1>2. g = [k \in 0..n |-> body(k)]
  BY <1>1, Zenon
<1> QED BY <1>2, Zenon DEF IsWalk, body

\* There is such a walk, however long: the shortest one that were missing would be the
\* one before it and one more generation.
LEMMA WalkExists ==
    ASSUME NEW r, NEW s, NEW n \in Nat
    PROVE  \E g : IsWalk(g, r, s, n)
<1> DEFINE Missing == {k \in Nat : ~ \E g : IsWalk(g, r, s, k)}
<1> SUFFICES ASSUME Missing # {} PROVE FALSE
  OBVIOUS
<1>1. PICK k \in Missing : \A m \in Missing : k <= m
  <2>1. Missing \in SUBSET Nat
    OBVIOUS
  <2> HIDE DEF Missing
  <2> QED BY <2>1, LeastNumber
<1>2. CASE k = 0
  <2> DEFINE g == [i \in 0..0 |-> s]
  <2>1. /\ DOMAIN g = 0..0 /\ g = [i \in DOMAIN g |-> g[i]]
        /\ g[0] = s /\ 0 \in Nat
    OBVIOUS
  <2> HIDE DEF g
  <2>2. IsWalk(g, r, s, 0)
    <3>1. \A i \in 1..0 : g[i] = ParentIn(r, g[i - 1])
      OBVIOUS
    <3> QED BY <2>1, <3>1, WalkFromSteps
  <2> QED BY <1>2, <2>2
<1>3. CASE k # 0
  <2>1. k - 1 \in Nat /\ k - 1 \notin Missing
    BY <1>1, <1>3
  <2>2. PICK h : IsWalk(h, r, s, k - 1)
    BY <2>1
  <2>3. h[0] = s /\ \A i \in 1..(k - 1) : h[i] = ParentIn(r, h[i - 1])
    BY <2>1, <2>2, WalkSteps
  <2> DEFINE g == [i \in 0..k |-> IF i = k THEN ParentIn(r, h[k - 1]) ELSE h[i]]
  <2>4. /\ DOMAIN g = 0..k /\ g = [i \in DOMAIN g |-> g[i]]
        /\ g[k] = ParentIn(r, h[k - 1])
        /\ \A i \in 0..(k - 1) : g[i] = h[i]
    OBVIOUS
  <2> HIDE DEF g
  <2>5. g[0] = s /\ \A i \in 1..k : g[i] = ParentIn(r, g[i - 1])
    <3>1. g[0] = s /\ g[k - 1] = h[k - 1]
      <4>1. 0 \in 0..(k - 1) /\ k - 1 \in 0..(k - 1)
        BY <2>1
      <4> QED BY <2>3, <2>4, <4>1
    <3>2. ASSUME NEW i \in 1..k PROVE g[i] = ParentIn(r, g[i - 1])
      <4>1. CASE i = k
        BY <2>4, <3>1, <4>1
      <4>2. CASE i # k
        <5>1. i \in 0..(k - 1) /\ i - 1 \in 0..(k - 1) /\ i \in 1..(k - 1)
          BY <2>1, <4>2
        <5> QED BY <2>3, <2>4, <5>1
      <4> QED BY <4>1, <4>2
    <3> QED BY <3>1, <3>2
  <2>6. IsWalk(g, r, s, k)
    BY <2>4, <2>5, WalkFromSteps
  <2> QED BY <2>6
<1> QED BY <1>2, <1>3

\* The generations of a batch are such a walk.
LEMMA GenerationIsWalk ==
    ASSUME NEW s
    PROVE  /\ IsWalk(Generation(s), result, s, Cardinality(Dir))
           /\ IsWalk(Generation(s)', result', s, Cardinality(Dir))
<1>1. Cardinality(Dir) \in Nat
  BY DirAssumption, FS_CardinalityType
<1>2. \E g : IsWalk(g, result, s, Cardinality(Dir))
  BY <1>1, WalkExists
<1>3. \E g : IsWalk(g, result', s, Cardinality(Dir))
  BY <1>1, WalkExists
<1>4. IsWalk(Generation(s), result, s, Cardinality(Dir))
  BY <1>2 DEF IsWalk, Generation, ParentIn
<1>5. IsWalk(Generation(s)', result', s, Cardinality(Dir))
  BY <1>3 DEF IsWalk, Generation, ParentIn
<1> QED BY <1>4, <1>5

\* The results r and q agree on the directories that g meets from its i-th generation on.
SameOnTheWay(g, i, len, r, q) ==
    \A k \in 0..(len - 1) :
      g[i + k] \in Dir \cup {NoDir} /\ (g[i + k] \in Dir => r[g[i + k]] = q[g[i + k]])

\* Two walks that meet stay together, as long as the results agree on what they meet.
LEMMA WalksStayTogether ==
    ASSUME NEW N \in Nat, NEW M \in Nat,
           NEW r, NEW s, NEW g, IsWalk(g, r, s, N),
           NEW q, NEW t, NEW h, IsWalk(h, q, t, M),
           NEW i \in Nat, NEW j \in Nat, NEW len \in Nat, i + len <= N, j + len <= M,
           g[i] = h[j], SameOnTheWay(g, i, len, r, q)
    PROVE  \A k \in 0..len : g[i + k] = h[j + k]
<1> DEFINE Apart == {k \in 0..len : g[i + k] # h[j + k]}
<1> SUFFICES ASSUME Apart # {} PROVE FALSE
  OBVIOUS
<1>1. PICK k \in Apart : \A m \in Apart : k <= m
  <2>1. Apart \in SUBSET Nat
    OBVIOUS
  <2> HIDE DEF Apart
  <2> QED BY <2>1, LeastNumber
<1>2. k # 0
  OBVIOUS
<1>3. k - 1 \in 0..(len - 1) /\ k - 1 \notin Apart
  BY <1>1, <1>2
<1>4. g[i + (k - 1)] = h[j + (k - 1)]
  BY <1>3
<1>5. g[i + k] = ParentIn(r, g[i + (k - 1)])
  <2>1. i + k \in 1..N /\ (i + k) - 1 = i + (k - 1)
    BY <1>2
  <2>2. \A m \in 1..N : g[m] = ParentIn(r, g[m - 1])
    BY WalkSteps
  <2> QED BY <2>1, <2>2
<1>6. h[j + k] = ParentIn(q, h[j + (k - 1)])
  <2>1. j + k \in 1..M /\ (j + k) - 1 = j + (k - 1)
    BY <1>2
  <2>2. \A m \in 1..M : h[m] = ParentIn(q, h[m - 1])
    BY WalkSteps
  <2> QED BY <2>1, <2>2
<1>7. ParentIn(r, g[i + (k - 1)]) = ParentIn(q, g[i + (k - 1)])
  BY <1>3, SentinelAssumption DEF ParentIn, SameOnTheWay
<1> QED BY <1>4, <1>5, <1>6, <1>7

\* Two walks from one directory agree as far as the results on the way do.
LEMMA WalksAgree ==
    ASSUME NEW N \in Nat, NEW s,
           NEW r, NEW g, IsWalk(g, r, s, N), NEW q, NEW h, IsWalk(h, q, s, N),
           NEW n \in 0..N, SameOnTheWay(g, 0, n, r, q)
    PROVE  \A k \in 0..n : g[k] = h[k]
<1>1. g[0] = h[0]
  <2>1. g[0] = s
    BY WalkStart
  <2>2. h[0] = s
    BY WalkStart
  <2> QED BY <2>1, <2>2
<1>2. 0 \in Nat /\ n \in Nat /\ 0 + n <= N
  OBVIOUS
<1>3. \A k \in 0..n : g[0 + k] = h[0 + k]
  BY <1>1, <1>2, WalksStayTogether
<1> QED BY <1>3

\* A walk meets directories, or ends.
LEMMA GenerationType ==
    ASSUME TypeOK, NEW d \in Dir, NEW n \in 0..Cardinality(Dir)
    PROVE  Generation(d)[n] \in Dir \cup {NoDir}
<1> DEFINE N == Cardinality(Dir)
           Wild == {k \in 0..N : Generation(d)[k] \notin Dir \cup {NoDir}}
<1> SUFFICES ASSUME Wild # {} PROVE FALSE
  OBVIOUS
<1>0. N \in Nat
  BY DirAssumption, FS_CardinalityType
<1>1. PICK k \in Wild : \A m \in Wild : k <= m
  <2>1. Wild \in SUBSET Nat
    BY <1>0
  <2> HIDE DEF Wild
  <2> QED BY <2>1, LeastNumber
<1>2. /\ Generation(d)[0] = d
      /\ \A i \in 1..N : Generation(d)[i] = ParentIn(result, Generation(d)[i - 1])
  BY <1>0, GenerationIsWalk, WalkSteps
<1>3. k \in 1..N /\ k - 1 \in 0..N /\ k - 1 \notin Wild
  BY <1>0, <1>1, <1>2
<1>4. Generation(d)[k - 1] \in Dir \cup {NoDir}
  BY <1>3
<1>5. \A x \in Dir \cup {NoDir} : ParentIn(result, x) \in Dir \cup {NoDir}
  BY DEF ParentIn, TypeOK, Result
<1> QED BY <1>2, <1>3, <1>4, <1>5

\* The lineage of what the preflight accepts leads to the owner without a detour.
LEMMA LineageIsDirect ==
    ASSUME TypeOK, NEW d \in Dir, NEW c \in Candidate, NEW in, Reusable(d, c, in)
    PROVE  LET target == result[d].cand[c]
           IN  \E n \in 0..Cardinality(Dir) :
                 /\ Generation(d)[n] = target.origin
                 /\ \A m \in 0..n : Agrees(Generation(d)[m], c, target, in)
                 /\ \A m \in 0..n : Generation(d)[m] \in Dir
                 /\ \A i, j \in 0..n : Generation(d)[i] = Generation(d)[j] => i = j
<1> DEFINE target == result[d].cand[c]
           N == Cardinality(Dir)
           g == Generation(d)
<1>1. N \in Nat /\ IsWalk(g, result, d, N)
  BY DirAssumption, FS_CardinalityType, GenerationIsWalk
<1>2. PICK n \in 0..N : /\ g[n] = target.origin
                        /\ \A m \in 0..n : ~Seen(d, m) /\ Agrees(g[m], c, target, in)
  BY DEF Reusable, ReachesOrigin
<1>3. ASSUME NEW m \in 0..n PROVE g[m] \in Dir
  <2>1. m \in 0..N /\ Agrees(g[m], c, target, in)
    BY <1>1, <1>2
  <2>2. g[m] \in Dir \cup {NoDir}
    BY <2>1, GenerationType
  <2> QED BY <2>1, <2>2 DEF Agrees
<1>4. \A m \in 0..n : \A k \in 0..(m - 1) : g[k] # g[m]
  BY <1>2 DEF Seen
<1> HIDE DEF g, N, target
<1>5. \A i, j \in 0..n : g[i] = g[j] => i = j
  <2> TAKE i, j \in 0..n
  <2>1. i < j => i \in 0..(j - 1)
    OBVIOUS
  <2>2. j < i => j \in 0..(i - 1)
    OBVIOUS
  <2> QED BY <1>1, <1>4, <2>1, <2>2
<1> QED BY <1>2, <1>3, <1>5 DEF g, N, target

----------------------------------------------------------------------------
(* Sums over the delivered results, and what they count.                   *)

\* One token for each unit of f at each member of s.
Tokens(f, s) == UNION {{d} \X (1..f[d]) : d \in s}

\* What a token of f is.
LEMMA TokenMember ==
    ASSUME NEW f, NEW s, NEW t
    PROVE  t \in Tokens(f, s) <=> \E d \in s : \E i \in 1..f[d] : t = <<d, i>>
BY DEF Tokens

\* The tokens at one member, apart from the rest.
LEMMA TokensSplit ==
    ASSUME NEW S, NEW f \in [S -> Nat], IsFiniteSet(Tokens(f, S)),
           NEW s \in SUBSET S, NEW x \in s
    PROVE  /\ Cardinality(Tokens(f, s)) \in Nat
           /\ Cardinality(Tokens(f, s)) = f[x] + Cardinality(Tokens(f, s \ {x}))
<1> DEFINE own == {x} \X (1..f[x])
           rest == Tokens(f, s \ {x})
<1>1. f[x] \in Nat
  OBVIOUS
<1>2. IsFiniteSet(own) /\ Cardinality(own) = f[x]
  <2>1. IsFiniteSet({x}) /\ Cardinality({x}) = 1
    BY FS_Singleton
  <2>2. IsFiniteSet(1..f[x]) /\ Cardinality(1..f[x]) = f[x]
    BY <1>1, FS_Interval
  <2>3. IsFiniteSet(own) /\ Cardinality(own) = 1 * f[x]
    BY <2>1, <2>2, FS_Product
  <2> QED BY <1>1, <2>3
<1>3. rest \subseteq Tokens(f, S) /\ Tokens(f, s) \subseteq Tokens(f, S)
  BY TokenMember
<1>4. IsFiniteSet(rest)
  BY <1>3, FS_Subset
<1>5. Tokens(f, s) = own \cup rest
  <2>1. \A t : t \in own <=> \E i \in 1..f[x] : t = <<x, i>>
    OBVIOUS
  <2> HIDE DEF own
  <2>2. \A t : t \in Tokens(f, s) <=> t \in own \/ t \in rest
    <3> TAKE t
    <3>1. t \in Tokens(f, s) <=> \E d \in s : \E i \in 1..f[d] : t = <<d, i>>
      BY TokenMember
    <3>2. t \in rest <=> \E d \in s \ {x} : \E i \in 1..f[d] : t = <<d, i>>
      BY TokenMember
    <3> HIDE DEF rest
    <3> QED BY <2>1, <3>1, <3>2
  <2> QED BY <2>2
<1>6. own \cap rest = {}
  <2>1. \A t \in rest : t[1] # x
    BY TokenMember
  <2>2. \A t \in own : t[1] = x
    OBVIOUS
  <2> QED BY <2>1, <2>2
<1> HIDE DEF own, rest
<1>7. Cardinality(own \cup rest) = Cardinality(own) + Cardinality(rest) - Cardinality({})
  BY <1>2, <1>4, <1>6, FS_Union
<1>8. Cardinality(rest) \in Nat /\ Cardinality({}) = 0
  BY <1>4, FS_CardinalityType, FS_EmptySet
<1> QED BY <1>1, <1>2, <1>5, <1>7, <1>8 DEF rest

\* No tokens without members.
LEMMA NoTokens == ASSUME NEW f PROVE Cardinality(Tokens(f, {})) = 0
<1>1. Tokens(f, {}) = {}
  BY DEF Tokens
<1> QED BY <1>1, FS_EmptySet

\* The member that a fold takes first.
First(s) == CHOOSE x \in s : TRUE

\* g adds up f over the subsets of S, one member after another.
AddsUp(g, f, S) ==
    g = [s \in SUBSET S |-> IF s = {} THEN 0 ELSE f[First(s)] + g[s \ {First(s)}]]

\* A sum over the subsets of a finite set counts tokens, in whatever order it is taken:
\* the smallest subset on which it did not would be one with a member less.
LEMMA SumCountsTokens ==
    ASSUME NEW S, IsFiniteSet(S), NEW f \in [S -> Nat], IsFiniteSet(Tokens(f, S)), NEW g
    PROVE  AddsUp(g, f, S) <=> g = [s \in SUBSET S |-> Cardinality(Tokens(f, s))]
<1> DEFINE count(s) == Cardinality(Tokens(f, s))
           step(s) == IF s = {} THEN 0 ELSE f[First(s)] + g[s \ {First(s)}]
<1>1. \A s \in SUBSET S : s # {} => First(s) \in s
  BY DEF First
<1>2. \A s \in SUBSET S : s # {} => count(s) = f[First(s)] + count(s \ {First(s)})
  BY <1>1, TokensSplit
<1>3. count({}) = 0
  BY NoTokens
<1> HIDE DEF count, step
<1>4. ASSUME g = [s \in SUBSET S |-> count(s)] PROVE AddsUp(g, f, S)
  <2>1. \A s \in SUBSET S : count(s) = step(s)
    <3> TAKE s \in SUBSET S
    <3>1. CASE s = {}
      BY <1>3, <3>1 DEF step
    <3>2. CASE s # {}
      <4>1. s \ {First(s)} \in SUBSET S
        OBVIOUS
      <4>2. g[s \ {First(s)}] = count(s \ {First(s)})
        BY <1>4, <4>1
      <4> QED BY <1>2, <3>2, <4>2 DEF step
    <3> QED BY <3>1, <3>2
  <2>2. [s \in SUBSET S |-> count(s)] = [s \in SUBSET S |-> step(s)]
    BY <2>1, Zenon
  <2> QED BY <1>4, <2>2, Zenon DEF AddsUp, step
<1>5. ASSUME AddsUp(g, f, S) PROVE g = [s \in SUBSET S |-> count(s)]
  <2>1. g = [s \in SUBSET S |-> step(s)]
    BY <1>5, Zenon DEF AddsUp, step
  <2>2. \A s \in SUBSET S : g[s] = step(s)
    BY <2>1, Zenon
  <2>3. \A s \in SUBSET S : g[s] = count(s)
    <3> DEFINE Wrong == {n \in Nat : \E s \in SUBSET S : Cardinality(s) = n /\ g[s] # count(s)}
    <3> SUFFICES ASSUME Wrong # {} PROVE FALSE
      <4>1. \A s \in SUBSET S : Cardinality(s) \in Nat
        BY FS_Subset, FS_CardinalityType
      <4> QED BY <4>1
    <3>1. PICK n \in Wrong : \A m \in Wrong : n <= m
      <4>1. Wrong \in SUBSET Nat
        OBVIOUS
      <4> HIDE DEF Wrong
      <4> QED BY <4>1, LeastNumber
    <3>2. PICK s \in SUBSET S : Cardinality(s) = n /\ g[s] # count(s)
      OBVIOUS
    <3>3. s # {}
      BY <1>3, <2>2, <3>2 DEF step
    <3>4. First(s) \in s
      BY <1>1, <3>3
    <3> DEFINE less == s \ {First(s)}
    <3>5. less \in SUBSET S
      OBVIOUS
    <3>6. Cardinality(less) = n - 1 /\ Cardinality(less) \in Nat
      <4>1. IsFiniteSet(s)
        BY FS_Subset
      <4>2. IsFiniteSet(less) /\ Cardinality(less) = n - 1
        BY <3>2, <3>4, <4>1, FS_RemoveElement
      <4> QED BY <4>2, FS_CardinalityType
    <3>7. g[less] = count(less)
      <4>1. n - 1 \notin Wrong
        BY <3>1
      <4> HIDE DEF less
      <4> QED BY <3>5, <3>6, <4>1
    <3>8. g[s] = f[First(s)] + g[less]
      BY <2>2, <3>3 DEF step
    <3>9. count(s) = f[First(s)] + count(less)
      BY <1>2, <3>3
    <3> HIDE DEF less
    <3> QED BY <3>2, <3>7, <3>8, <3>9
  <2>4. [s \in SUBSET S |-> step(s)] = [s \in SUBSET S |-> count(s)]
    BY <2>2, <2>3, Zenon
  <2> QED BY <2>1, <2>4
<1> QED BY <1>4, <1>5 DEF count

\* What the results of the batches in S report as executed for c.
Reported(S, c) == [d \in S |-> result[d].cand[c].executed]

\* The sum that UsageIsBookedOnce takes.
LEMMA ReportedSum ==
    ASSUME NEW S, IsFiniteSet(S), NEW c, Reported(S, c) \in [S -> Nat],
           IsFiniteSet(Tokens(Reported(S, c), S))
    PROVE  MapThenSumSet(LAMBDA d : result[d].cand[c].executed, S)
             = Cardinality(Tokens(Reported(S, c), S))
<1> DEFINE f == Reported(S, c)
           h == [s \in SUBSET S |-> Cardinality(Tokens(f, s))]
           sums(g) == g = [s \in SUBSET S |->
                             IF s = {} THEN 0
                             ELSE result[First(s)].cand[c].executed + g[s \ {First(s)}]]
<1>1. ASSUME NEW g PROVE sums(g) <=> AddsUp(g, f, S)
  <2>1. \A s \in SUBSET S : s # {} => f[First(s)] = result[First(s)].cand[c].executed
    BY DEF Reported, First
  <2>2. [s \in SUBSET S |-> IF s = {} THEN 0
                            ELSE result[First(s)].cand[c].executed + g[s \ {First(s)}]]
          = [s \in SUBSET S |-> IF s = {} THEN 0 ELSE f[First(s)] + g[s \ {First(s)}]]
    BY <2>1
  <2> QED BY <2>2, Zenon DEF AddsUp
<1>2. \A g : sums(g) <=> g = h
  BY <1>1, SumCountsTokens
<1> HIDE DEF h
<1>3. MapThenSumSet(LAMBDA d : result[d].cand[c].executed, S)
        = (CHOOSE g : sums(g))[S]
  BY Zenon DEF MapThenSumSet, MapThenFoldSet, First
<1>4. (CHOOSE g : sums(g)) = h
  <2> HIDE DEF sums
  <2> QED BY <1>2, Zenon
<1> QED BY <1>3, <1>4 DEF h
----------------------------------------------------------------------------
(* What is booked has been sent.                                           *)

\* The operations that stand as executed for c in the result of d.
BookedByResult(d, c) ==
    IF result[d] = NoResult THEN {} ELSE {d} \X (1..result[d].cand[c].executed)

\* Those a batch at work has collected, to be delivered.
BookedByJob(b, c) ==
    IF Writes(b) /\ job[b].summaries[c] # NoSummary
      THEN {job[b].out} \X (1..job[b].summaries[c].executed) ELSE {}

Booked(c) ==
    {t \in Dir \X Nat : \/ \E d \in Dir : t \in BookedByResult(d, c)
                        \/ \E b \in Batch : t \in BookedByJob(b, c)}

\* Every operation booked for c, in a result or on the way to one, was sent for it.
UsageInv ==
    \A c \in Candidate : IsFiniteSet(Booked(c)) /\ Cardinality(Booked(c)) <= bought[c]

\* What a step books it has bought.
LEMMA BookedGrows ==
    ASSUME TypeOK, TypeOK', UsageInv, NEW c \in Candidate, NEW x, NEW n \in Nat,
           Booked(c)' \subseteq Booked(c) \cup ({x} \X (1..n)), bought'[c] >= bought[c] + n
    PROVE  IsFiniteSet(Booked(c)') /\ Cardinality(Booked(c)') <= bought'[c]
<1> DEFINE own == {x} \X (1..n)
           old == Booked(c)
           new == Booked(c)'
<1>1. IsFiniteSet(old) /\ Cardinality(old) <= bought[c]
  BY DEF UsageInv
<1>2. IsFiniteSet(own) /\ Cardinality(own) = n
  <2>1. IsFiniteSet({x}) /\ Cardinality({x}) = 1
    BY FS_Singleton
  <2>2. IsFiniteSet(1..n) /\ Cardinality(1..n) = n
    BY FS_Interval
  <2>3. IsFiniteSet(own) /\ Cardinality(own) = 1 * n
    BY <2>1, <2>2, FS_Product
  <2> QED BY <2>3
<1>3. new \subseteq old \cup own
  OBVIOUS
<1> HIDE DEF old, own, new
<1>4. /\ IsFiniteSet(old \cup own)
      /\ Cardinality(old \cup own) = Cardinality(old) + Cardinality(own) - Cardinality(old \cap own)
      /\ IsFiniteSet(old \cap own)
  BY <1>1, <1>2, FS_Union, FS_Intersection
<1>5. IsFiniteSet(new) /\ Cardinality(new) <= Cardinality(old \cup own)
  BY <1>3, <1>4, FS_Subset
<1>6. /\ Cardinality(new) \in Nat /\ Cardinality(old) \in Nat
      /\ Cardinality(old \cup own) \in Nat /\ Cardinality(old \cap own) \in Nat
  BY <1>1, <1>4, <1>5, FS_CardinalityType
<1>7. bought[c] \in Nat /\ bought'[c] \in Nat
  BY DEF TypeOK
<1>8. Cardinality(new) <= bought'[c]
  BY <1>1, <1>2, <1>4, <1>5, <1>6, <1>7
<1> QED BY <1>5, <1>8 DEF new

\* A step that books nothing new.
LEMMA BookedKept ==
    ASSUME TypeOK, TypeOK', UsageInv, bought' = bought,
           \A c \in Candidate : Booked(c)' \subseteq Booked(c)
    PROVE  UsageInv'
<1>1. ASSUME NEW c \in Candidate
      PROVE  IsFiniteSet(Booked(c)') /\ Cardinality(Booked(c)') <= bought'[c]
  <2>1. IsFiniteSet(Booked(c)) /\ Cardinality(Booked(c)) <= bought[c]
    BY DEF UsageInv
  <2>2. IsFiniteSet(Booked(c)') /\ Cardinality(Booked(c)') <= Cardinality(Booked(c))
    BY <2>1, FS_Subset
  <2>3. Cardinality(Booked(c)') \in Nat /\ Cardinality(Booked(c)) \in Nat /\ bought[c] \in Nat
    BY <2>1, <2>2, FS_CardinalityType DEF TypeOK
  <2> QED BY <2>1, <2>2, <2>3
<1> QED BY <1>1 DEF UsageInv

\* An invocation other than b, and what it has booked, stays.
LEMMA BookedByOthers ==
    ASSUME NEW b \in Batch, \A a \in Batch \ {b} : job'[a] = job[a], NEW c \in Candidate,
           NEW more,
           \A d \in Dir : BookedByResult(d, c)' \subseteq BookedByResult(d, c) \cup more
                                                          \cup BookedByJob(b, c),
           BookedByJob(b, c)' \subseteq BookedByJob(b, c) \cup more
    PROVE  Booked(c)' \subseteq Booked(c) \cup more
<1>1. \A a \in Batch \ {b} : BookedByJob(a, c)' = BookedByJob(a, c)
  BY DEF BookedByJob, Writes
<1>2. ASSUME NEW t \in Booked(c)' PROVE t \in Booked(c) \cup more
  <2>1. t \in Dir \X Nat
    BY DEF Booked
  <2>2. ASSUME NEW d \in Dir, t \in BookedByResult(d, c)' PROVE t \in Booked(c) \cup more
    BY <2>1, <2>2 DEF Booked
  <2>3. ASSUME NEW a \in Batch, t \in BookedByJob(a, c)' PROVE t \in Booked(c) \cup more
    <3>1. CASE a = b
      BY <2>1, <2>3, <3>1 DEF Booked
    <3>2. CASE a # b
      BY <1>1, <2>1, <2>3, <3>2 DEF Booked
    <3> QED BY <3>1, <3>2
  <2> QED BY <2>2, <2>3 DEF Booked
<1> QED BY <1>2

\* A step of b that delivers nothing and collects nothing.
LEMMA QuietUsage ==
    ASSUME TypeOK, TypeOK', UsageInv, NEW b \in Batch, \A a \in Batch \ {b} : job'[a] = job[a],
           result' = result, bought' = bought,
           \/ ~Writes(b)'
           \/ \A c \in Candidate : job'[b].summaries[c] = NoSummary
           \/ Writes(b) /\ job'[b].out = job[b].out /\ job'[b].summaries = job[b].summaries
    PROVE  UsageInv'
<1>1. ASSUME NEW c \in Candidate PROVE Booked(c)' \subseteq Booked(c)
  <2>1. \A d \in Dir : BookedByResult(d, c)' = BookedByResult(d, c)
    BY DEF BookedByResult
  <2>2. BookedByJob(b, c)' \subseteq BookedByJob(b, c)
    BY DEF BookedByJob, Writes
  <2>3. Booked(c)' \subseteq Booked(c) \cup {}
    BY <2>1, <2>2, BookedByOthers
  <2> QED BY <2>3
<1> QED BY <1>1, BookedKept

\* What a batch collects for the candidate it is at, and books, it has bought.
LEMMA CollectUsage ==
    ASSUME TypeOK, TypeOK', UsageInv, NEW b \in Batch, job[b].pc = "candidates",
           NEW c \in Candidate, NEW new \in Summary, Collect(b, c, new), NEW n \in Nat,
           new.executed <= n, bought' = [bought EXCEPT ![c] = @ + n]
    PROVE  UsageInv'
<1>1. /\ \A a \in Batch \ {b} : job'[a] = job[a]
      /\ job'[b].pc = "candidates" /\ job'[b].out = job[b].out
      /\ job'[b].summaries[c] = new
      /\ \A x \in Candidate \ {c} : job'[b].summaries[x] = job[b].summaries[x]
      /\ result' = result
  <2>1. /\ \A a \in Batch \ {b} : job'[a] = job[a]
        /\ job'[b] = [job[b] EXCEPT !.summaries[c] = new, !.at = @ + 1]
    BY DEF Collect, TypeOK
  <2> QED BY <2>1 DEF Collect, TypeOK, Job
<1>2. ASSUME NEW x \in Candidate
      PROVE  IsFiniteSet(Booked(x)') /\ Cardinality(Booked(x)') <= bought'[x]
  <2>1. \A d \in Dir : BookedByResult(d, x)' = BookedByResult(d, x)
    BY <1>1 DEF BookedByResult
  <2>2. CASE x = c
    <3> DEFINE own == {job[b].out} \X (1..n)
    <3>1. BookedByJob(b, c)' \subseteq own
      <4>1. BookedByJob(b, c)' \subseteq {job[b].out} \X (1..new.executed)
        BY <1>1 DEF BookedByJob, Writes
      <4>2. 1..new.executed \subseteq 1..n
        BY DEF Summary
      <4> QED BY <4>1, <4>2
    <3> HIDE DEF own
    <3>2. Booked(c)' \subseteq Booked(c) \cup own
      BY <1>1, <2>1, <2>2, <3>1, BookedByOthers
    <3>3. bought'[c] >= bought[c] + n
      BY DEF TypeOK
    <3> QED BY <2>2, <3>2, <3>3, BookedGrows DEF own
  <2>3. CASE x # c
    <3>1. BookedByJob(b, x)' = BookedByJob(b, x)
      BY <1>1, <2>3 DEF BookedByJob, Writes
    <3>2. Booked(x)' \subseteq Booked(x) \cup {}
      BY <1>1, <2>1, <3>1, BookedByOthers
    <3>3. bought'[x] >= bought[x] + 0 /\ 0 \in Nat
      BY <2>3 DEF TypeOK
    <3>4. Booked(x)' \subseteq Booked(x) \cup ({NoDir} \X (1..0))
      BY <3>2
    <3> QED BY <3>3, <3>4, BookedGrows
  <2> QED BY <2>2, <2>3
<1> QED BY <1>2 DEF UsageInv

\* A candidate's run buys at least what it books.
LEMMA ExecuteUsage ==
    ASSUME TypeOK, TypeOK', UsageInv, NEW b \in Batch, job[b].pc = "candidates",
           job[b].out \in Dir,
           NEW c \in Candidate, NEW to \in 0..NumOps, NEW left \in CandidateDir,
           NEW executed \in Nat, executed <= Max({0, to - Replayable(b, c)}),
           Execute(b, c, to, left, executed)
    PROVE  UsageInv'
<1> DEFINE n == Max({0, to - Replayable(b, c)})
<1>1. n \in Nat
  BY ExecutedType
<1>2. PICK new \in Summary : /\ Collect(b, c, new)
                             /\ new.executed = IF left.status # "open" THEN executed ELSE 0
  BY ExecuteSummary
<1>3. bought' = [bought EXCEPT ![c] = @ + n]
  BY DEF Execute
<1>4. new.executed \in Nat /\ new.executed <= n
  BY <1>1, <1>2
<1> HIDE DEF n
<1> QED BY <1>1, <1>2, <1>3, <1>4, CollectUsage

\* Sending further costs no less.
LEMMA ExecutedGrows ==
    ASSUME TypeOK, NEW b \in Batch, NEW c \in Candidate, NEW n \in 0..NumOps,
           NEW m \in 0..NumOps, n <= m
    PROVE  Max({0, n - Replayable(b, c)}) <= Max({0, m - Replayable(b, c)})
<1>1. Replayable(b, c) \in 0..NumOps
  BY ReplayableType
<1> DEFINE r == Replayable(b, c)
<1> HIDE DEF r
<1>2. r \in Int /\ n - r \in Int /\ m - r \in Int /\ 0 \in Int
  BY <1>1, NumOpsAssumption DEF r
<1>3. \A x \in Int : Max({0, x}) = IF x <= 0 THEN 0 ELSE x
  <2> TAKE x \in Int
  <2>1. Max({0, x}) = CHOOSE y \in {0, x} : \A w \in {0, x} : y >= w
    BY DEF Max
  <2>2. CASE x <= 0
    <3>1. \A y \in {0, x} : (\A w \in {0, x} : y >= w) <=> y = 0
      BY <2>2
    <3> QED BY <2>1, <2>2, <3>1
  <2>3. CASE ~ (x <= 0)
    <3>1. \A y \in {0, x} : (\A w \in {0, x} : y >= w) <=> y = x
      BY <2>3
    <3> QED BY <2>1, <2>3, <3>1
  <2> QED BY <2>2, <2>3
<1>4. Max({0, n - r}) <= Max({0, m - r})
  <2>1. /\ Max({0, n - r}) = IF n - r <= 0 THEN 0 ELSE n - r
        /\ Max({0, m - r}) = IF m - r <= 0 THEN 0 ELSE m - r
    BY <1>2, <1>3
  <2> QED BY <1>2, <2>1
<1> QED BY <1>4 DEF r

\* Reusing, running or resuming a candidate.
LEMMA CandidateUsage ==
    ASSUME IInv, TypeOK', UsageInv, NEW b \in Batch, NextCandidate(b)
    PROVE  UsageInv'
<1>1. /\ TypeOK /\ JobView(b) /\ job[b].at <= Len(Order) /\ job[b].out \in Dir
      /\ job[b].pc = "candidates"
  BY DEF IInv, NextCandidate, JobView
<1> DEFINE c == Order[job[b].at]
<1>2. c \in Candidate
  BY <1>1, OrderFacts DEF TypeOK, Job
<1>3. /\ 0 \in Nat /\ 0 \in 0..NumOps /\ NumOps \in 0..NumOps
      /\ runs + 1 \in Nat
      /\ NumOps - Replayable(b, c) \in Nat
  BY <1>1, <1>2, ReplayableType, NumOpsAssumption DEF TypeOK
<1>4. CASE Reuse(b, c)
  <2>1. ReuseSummary(b, c, 0) \in Summary /\ ReuseSummary(b, c, 0).executed = 0
    BY <1>1, <1>2, <1>4, ReuseType DEF JobView, Reuse, ReuseSummary
  <2>2. /\ Collect(b, c, ReuseSummary(b, c, 0)) /\ bought' = bought
        /\ ReuseSummary(b, c, 0).executed <= 0
    BY <1>4, <2>1 DEF Reuse
  <2>3. bought' = [bought EXCEPT ![c] = @ + 0]
    <3>1. bought \in [Candidate -> Nat]
      BY <1>1 DEF TypeOK
    <3> HIDE DEF c
    <3> QED BY <1>2, <2>2, <3>1
  <2> HIDE DEF c
  <2> QED BY <1>1, <1>2, <1>3, <2>1, <2>2, <2>3, CollectUsage
<1>5. CASE CandidateSucceeds(b, c)
  <2> DEFINE left == [status |-> "SUCCEEDED", run |-> runs + 1, held |-> NumOps,
                      partial |-> FALSE, paths |-> AllPaths]
  <2>1. left \in CandidateDir
    BY <1>3, PathsFacts DEF CandidateDir
  <2>2. Execute(b, c, NumOps, left, NumOps - Replayable(b, c))
    BY <1>5 DEF CandidateSucceeds
  <2>3. NumOps - Replayable(b, c) <= Max({0, NumOps - Replayable(b, c)})
    <3> DEFINE sent == NumOps - Replayable(b, c)
    <3>1. sent \in Int
      BY <1>3
    <3> HIDE DEF sent
    <3>2. \A x \in Int : Max({0, x}) \in Int /\ Max({0, x}) >= x
      BY MaxFacts
    <3>3. sent <= Max({0, sent})
      BY <3>1, <3>2
    <3> QED BY <3>3 DEF sent
  <2> HIDE DEF left, c
  <2> QED BY <1>1, <1>2, <1>3, <2>1, <2>2, <2>3, ExecuteUsage
<1>6. ASSUME NEW held \in 0..NumOps, NEW to \in 0..NumOps, NEW partial \in BOOLEAN,
             NEW paths \in FailedPaths, CandidateFails(b, c, held, to, partial, paths)
      PROVE  UsageInv'
  <2> DEFINE left == [status |-> "FAILED", run |-> runs + 1, held |-> held,
                      partial |-> partial, paths |-> paths]
  <2>1. left \in CandidateDir
    BY <1>3 DEF CandidateDir
  <2>2. PICK n \in {held, to} : Execute(b, c, to, left, Max({0, n - Replayable(b, c)}))
    BY <1>6 DEF CandidateFails
  <2>3. n \in 0..NumOps /\ n <= to
    BY <1>6, NumOpsAssumption DEF CandidateFails
  <2>4. Max({0, n - Replayable(b, c)}) \in Nat
    BY <1>1, <1>2, <2>3, ExecutedType
  <2>5. Max({0, n - Replayable(b, c)}) <= Max({0, to - Replayable(b, c)})
    BY <1>1, <1>2, <2>3, ExecutedGrows
  <2> HIDE DEF left, c
  <2> QED BY <1>1, <1>2, <2>1, <2>2, <2>4, <2>5, ExecuteUsage
<1>7. ASSUME NEW to \in 0..NumOps, CandidateRaises(b, c, to)
      PROVE  UsageInv'
  <2> DEFINE left == [NoCandidateDir EXCEPT !.status = "open"]
  <2>1. left \in CandidateDir
    BY <1>3, PathsFacts DEF CandidateDir, NoCandidateDir
  <2>2. Execute(b, c, to, left, 0)
    BY <1>7 DEF CandidateRaises
  <2>3. 0 <= Max({0, to - Replayable(b, c)})
    BY <1>1, <1>2, ExecutedType
  <2> HIDE DEF left, c
  <2> QED BY <1>1, <1>2, <1>3, <2>1, <2>2, <2>3, ExecuteUsage
<1> QED BY <1>4, <1>5, <1>6, <1>7 DEF NextCandidate

\* What is delivered moves from the batch into its result.
LEMMA DeliverUsage ==
    ASSUME IInv, TypeOK', UsageInv, NEW b \in Batch, Deliver(b)
    PROVE  UsageInv'
<1>1. /\ TypeOK /\ job[b].pc = "deliver" /\ Writes(b) /\ bought' = bought /\ Exit(b)
      /\ job[b].out \in Dir /\ job[b].summaries \in [Candidate -> Summary]
  BY ResultType DEF IInv, Deliver, Writes
<1>2. job'[b] = Idle /\ \A a \in Batch \ {b} : job'[a] = job[a]
  BY <1>1, ExitJob
<1>3. ASSUME NEW c \in Candidate PROVE Booked(c)' \subseteq Booked(c)
  <2>1. BookedByJob(b, c)' \subseteq BookedByJob(b, c) \cup {}
    BY <1>2 DEF BookedByJob, Writes, Idle
  <2>2. BookedByJob(b, c) = {job[b].out} \X (1..job[b].summaries[c].executed)
    <3>1. job[b].summaries[c] # NoSummary
      BY <1>1, SentinelAssumption
    <3> QED BY <1>1, <3>1 DEF BookedByJob
  <2>3. ASSUME NEW d \in Dir
        PROVE  BookedByResult(d, c)'
                 \subseteq BookedByResult(d, c) \cup {} \cup BookedByJob(b, c)
    <3>1. CASE result'[d] = result[d]
      BY <3>1 DEF BookedByResult
    <3>2. CASE result'[d] # result[d]
      <4>1. d = job[b].out /\ result'[d].cand = job[b].summaries
        BY <1>1, <3>2 DEF Deliver, TypeOK
      <4> QED BY <2>2, <4>1 DEF BookedByResult
    <3> QED BY <3>1, <3>2
  <2>4. Booked(c)' \subseteq Booked(c) \cup {}
    BY <1>2, <2>1, <2>3, BookedByOthers
  <2> QED BY <2>4
<1> QED BY <1>1, <1>3, BookedKept

\* Every step.
LEMMA UsageStep == IInv /\ UsageInv /\ [Next]_vars => UsageInv'
<1> SUFFICES ASSUME IInv, UsageInv, [Next]_vars PROVE UsageInv'
  OBVIOUS
<1>0. TypeOK /\ TypeOK'
  BY TypeStep DEF IInv
<1>1. ASSUME NEW b \in Batch, NEW d \in Dir, NEW s \in Dir \cup {NoDir}, NEW in \in Input,
             Start(b, d, s, in)
      PROVE  UsageInv'
  <2>1. job'[b] = [Idle EXCEPT !.pc = "fresh", !.out = d, !.src = s, !.input = in]
        /\ \A a \in Batch \ {b} : job'[a] = job[a]
    BY <1>0, <1>1 DEF Start, TypeOK
  <2>2. ~Writes(b)'
    BY <2>1 DEF Writes, Idle
  <2> QED BY <1>0, <1>1, <2>1, <2>2, QuietUsage DEF Start, disk
<1>2. ASSUME NEW b \in Batch,
             \/ AssertFreshDestination(b) \/ LoadResumeBatch(b) \/ MakeDirectory(b)
             \/ AllCollected(b) \/ Crash(b)
      PROVE  UsageInv'
  <2>0. /\ JobView(b) /\ job[b] \in Job
        /\ result' = result /\ bought' = bought
    BY <1>0, <1>2 DEF IInv, TypeOK, AssertFreshDestination, LoadResumeBatch, MakeDirectory,
                      AllCollected, Crash, disk
  <2>1. CASE Exit(b)
    <3>1. job'[b] = Idle /\ \A a \in Batch \ {b} : job'[a] = job[a]
      BY <1>0, <2>1, ExitJob
    <3>2. ~Writes(b)'
      BY <3>1 DEF Writes, Idle
    <3> QED BY <1>0, <2>0, <3>1, <3>2, QuietUsage
  <2>2. ASSUME NEW to \in {"mkdir", "preflight", "candidates", "deliver"}, Goto(b, to),
               \/ ~Writes(b)
               \/ Writes(b)
        PROVE  UsageInv'
    <3>1. /\ \A a \in Batch \ {b} : job'[a] = job[a]
          /\ job'[b] = [job[b] EXCEPT !.pc = to]
      BY <1>0, <2>2, MoveJob
    <3>2. job'[b].out = job[b].out /\ job'[b].summaries = job[b].summaries
      BY <2>0, <3>1 DEF Job
    <3>3. CASE Writes(b)
      BY <1>0, <2>0, <3>1, <3>2, <3>3, QuietUsage
    <3>4. CASE ~Writes(b)
      <4>1. \A c \in Candidate : job'[b].summaries[c] = NoSummary
        BY <2>0, <3>2, <3>4 DEF JobView
      <4> QED BY <1>0, <2>0, <3>1, <4>1, QuietUsage
    <3> QED BY <3>3, <3>4
  <2>3. CASE LoadResumeBatch(b) /\ ~Exit(b)
    <3>1. /\ \A a \in Batch \ {b} : job'[a] = job[a]
          /\ job'[b].pc = "mkdir"
      BY <1>0, <2>0, <2>3 DEF LoadResumeBatch, TypeOK, Job
    <3>2. ~Writes(b)'
      BY <3>1 DEF Writes
    <3> QED BY <1>0, <2>0, <3>1, <3>2, QuietUsage
  <2>4. CASE AssertFreshDestination(b)
    BY <2>1, <2>2, <2>4 DEF AssertFreshDestination
  <2>5. CASE MakeDirectory(b)
    BY <2>1, <2>2, <2>5 DEF MakeDirectory
  <2>6. CASE AllCollected(b)
    BY <2>2, <2>6 DEF AllCollected
  <2>7. CASE Crash(b)
    BY <2>1, <2>7 DEF Crash
  <2> QED BY <1>2, <2>1, <2>3, <2>4, <2>5, <2>6, <2>7
<1>3. ASSUME NEW b \in Batch, NextCandidate(b) PROVE UsageInv'
  BY <1>0, <1>3, CandidateUsage
<1>4. ASSUME NEW b \in Batch, Deliver(b) PROVE UsageInv'
  BY <1>0, <1>4, DeliverUsage
<1>5. ASSUME NEW d \in Dir, Remove(d) PROVE UsageInv'
  <2>1. ASSUME NEW c \in Candidate PROVE Booked(c)' \subseteq Booked(c)
    <3>1. \A e \in Dir : BookedByResult(e, c)' \subseteq BookedByResult(e, c)
      BY <1>0, <1>5 DEF BookedByResult, Remove, TypeOK
    <3>2. \A b \in Batch : BookedByJob(b, c)' = BookedByJob(b, c)
      BY <1>5 DEF BookedByJob, Remove, Writes
    <3> QED BY <3>1, <3>2 DEF Booked
  <2> QED BY <1>0, <1>5, <2>1, BookedKept DEF Remove
<1>6. CASE UNCHANGED vars
  <2>1. ASSUME NEW c \in Candidate PROVE Booked(c)' \subseteq Booked(c)
    BY <1>6 DEF Booked, BookedByResult, BookedByJob, Writes, vars, disk
  <2> QED BY <1>0, <1>6, <2>1, BookedKept DEF vars
<1> QED BY <1>1, <1>2, <1>3, <1>4, <1>5, <1>6 DEF Next, Quiet

\* Nothing is booked before the first invocation.
LEMMA UsageInit == Init => UsageInv
<1> SUFFICES ASSUME Init, NEW c \in Candidate
             PROVE  IsFiniteSet(Booked(c)) /\ Cardinality(Booked(c)) <= bought[c]
  BY DEF UsageInv
<1>1. Booked(c) = {}
  BY DEF Init, Booked, BookedByResult, BookedByJob, Writes, Idle
<1>2. bought[c] = 0
  BY DEF Init
<1> QED BY <1>1, <1>2, FS_EmptySet

\* What the delivered results report is among what is booked.
LEMMA UsageOfInv == IInv /\ UsageInv => UsageIsBookedOnce
<1> SUFFICES ASSUME IInv, UsageInv, NEW c \in Candidate
             PROVE  MapThenSumSet(LAMBDA d : result[d].cand[c].executed, {d \in Dir : Delivered(d)})
                      <= bought[c]
  BY DEF UsageIsBookedOnce
<1> DEFINE S == {d \in Dir : Delivered(d)}
           f == Reported(S, c)
<1>1. IsFiniteSet(S)
  BY DirAssumption, FS_Subset
<1>2. \A d \in S : d \in Dir /\ result[d] \in Result /\ result[d] # NoResult
  BY DEF IInv, TypeOK, Delivered
<1>3. f \in [S -> Nat]
  BY <1>2 DEF Reported, Result, Summary
<1>4. Tokens(f, S) \subseteq Booked(c)
  <2>1. ASSUME NEW d \in S, NEW i \in 1..f[d] PROVE <<d, i>> \in Booked(c)
    <3>1. f[d] = result[d].cand[c].executed
      BY DEF Reported
    <3>2. <<d, i>> \in BookedByResult(d, c)
      BY <1>2, <3>1 DEF BookedByResult
    <3> QED BY <1>2, <3>2 DEF Booked
  <2> QED BY <2>1, TokenMember
<1>5. IsFiniteSet(Booked(c)) /\ Cardinality(Booked(c)) <= bought[c]
  BY DEF UsageInv
<1>6. IsFiniteSet(Tokens(f, S)) /\ Cardinality(Tokens(f, S)) <= Cardinality(Booked(c))
  BY <1>4, <1>5, FS_Subset
<1>7. /\ Cardinality(Tokens(f, S)) \in Nat /\ Cardinality(Booked(c)) \in Nat
      /\ bought[c] \in Nat
  BY <1>5, <1>6, FS_CardinalityType DEF IInv, TypeOK
<1>8. Cardinality(Tokens(f, S)) <= bought[c]
  BY <1>5, <1>6, <1>7
<1> HIDE DEF S
<1>9. MapThenSumSet(LAMBDA d : result[d].cand[c].executed, S)
        = Cardinality(Tokens(Reported(S, c), S))
  BY <1>1, <1>3, <1>6, ReportedSum
<1> QED BY <1>8, <1>9 DEF S

\* What the delivered batches of all generations report as executed was sent, each operation
\* for one of them: a reused success and a replayed checkpoint are booked as no new usage.
THEOREM UsageBookedOnce == Spec => []UsageIsBookedOnce
<1>1. Init => UsageInv
  BY UsageInit
<1>2. IInv /\ UsageInv /\ [Next]_vars => UsageInv'
  BY UsageStep
<1>3. IInv /\ UsageInv => UsageIsBookedOnce
  BY UsageOfInv
<1> QED BY <1>1, <1>2, <1>3, Inductive, PTL DEF Spec
----------------------------------------------------------------------------
(* What can be resumed.                                                    *)

\* What a batch has loaded is still what its source holds, for the request it was given.
PriorIsSource(b) ==
    job[b].prior # NoResult =>
      /\ job[b].src \in Dir
      /\ result[job[b].src] = job[b].prior
      /\ job[b].prior.input = job[b].input

\* What is collected is a prior success, or is the batch's own, or names no file.
OwnOrEmpty(b, c) ==
    LET new == job[b].summaries[c]
    IN  new # NoSummary =>
          \/ PriorSuccess(b, c)
          \/ new.origin = job[b].out
          \/ new.status = "FAILED" /\ new.paths = {}

\* A recorded failure names no file, or files of its own directory.
FailuresOwned(d) ==
    result[d] # NoResult =>
      \A c \in Candidate :
        LET entry == result[d].cand[c]
        IN  entry.status = "FAILED" => entry.paths = {} \/ entry.origin = d

\* A recorded success would be reused.
SuccessesReusable(d) ==
    result[d] # NoResult =>
      \A c \in Candidate :
        result[d].cand[c].status = "SUCCEEDED" => Reusable(d, c, result[d].input)

ResumeInv ==
    /\ \A b \in Batch : PriorIsSource(b) /\ \A c \in Candidate : OwnOrEmpty(b, c)
    /\ \A d \in Dir : FailuresOwned(d)
    /\ removals = 0 => \A d \in Dir : SuccessesReusable(d)

\* A candidate's run, and a reuse, remove nothing.
LEMMA CandidateKeeps ==
    ASSUME NEW b \in Batch, NextCandidate(b)
    PROVE  made' = made /\ result' = result /\ removals' = removals
<1> DEFINE c == Order[job[b].at]
<1>1. ASSUME NEW to, NEW left, NEW executed, Execute(b, c, to, left, executed)
      PROVE  made' = made /\ result' = result /\ removals' = removals
  BY <1>1 DEF Execute, Collect
<1>2. CASE Reuse(b, c)
  BY <1>2 DEF Reuse, Collect
<1>3. CASE CandidateSucceeds(b, c)
  BY <1>1, <1>3 DEF CandidateSucceeds
<1>4. ASSUME NEW held \in 0..NumOps, NEW to \in 0..NumOps, NEW partial \in BOOLEAN,
             NEW paths \in FailedPaths, CandidateFails(b, c, held, to, partial, paths)
      PROVE  made' = made /\ result' = result /\ removals' = removals
  BY <1>1, <1>4 DEF CandidateFails
<1>5. ASSUME NEW to \in 0..NumOps, CandidateRaises(b, c, to)
      PROVE  made' = made /\ result' = result /\ removals' = removals
  BY <1>1, <1>5 DEF CandidateRaises
<1> QED BY <1>2, <1>3, <1>4, <1>5 DEF NextCandidate

\* A directory disappears only when the operator removes one.
LEMMA RemovalsKept ==
    ASSUME [Next]_vars
    PROVE  \/ removals' = removals /\ made \subseteq made'
           \/ \E d \in Dir : Remove(d)
<1>1. ASSUME NEW b \in Batch, NextCandidate(b)
      PROVE  removals' = removals /\ made \subseteq made'
  BY <1>1, CandidateKeeps
<1>2. ASSUME NEW b \in Batch,
             \/ \E e \in Dir, s \in Dir \cup {NoDir}, in \in Input : Start(b, e, s, in)
             \/ AssertFreshDestination(b) \/ LoadResumeBatch(b) \/ MakeDirectory(b)
             \/ AllCollected(b) \/ Deliver(b) \/ Crash(b)
      PROVE  removals' = removals /\ made \subseteq made'
  BY <1>2 DEF Start, AssertFreshDestination, LoadResumeBatch, MakeDirectory, AllCollected,
              Deliver, Crash, disk
<1>3. CASE UNCHANGED vars
  BY <1>3 DEF vars, disk
<1> QED BY <1>1, <1>2, <1>3 DEF Next, Quiet

\* As long as nothing is removed, no step changes a delivered batch.
LEMMA DeliveredKept ==
    ASSUME IInv, [Next]_vars, removals' = removals, NEW d \in Dir, result[d] # NoResult
    PROVE  result'[d] = result[d] /\ cand'[d] = cand[d]
<1>1. d \in made /\ removals \in Nat
  BY BoundAssumption DEF IInv, DirView, TypeOK
<1>2. made \subseteq made'
  <2>1. ASSUME NEW e \in Dir, Remove(e) PROVE FALSE
    BY <1>1, <2>1 DEF Remove
  <2> QED BY <2>1, RemovalsKept
<1> QED BY <1>1, <1>2, DeliveredStays DEF Delivered

\* The lineage from s in the state after a step.
LEMMA ReachesNext ==
    ASSUME NEW s, NEW c, NEW target, NEW in, NEW h, h = Generation(s)',
           NEW n \in 0..Cardinality(Dir), h[n] = target.origin,
           \A m \in 0..n : Agrees(h[m], c, target, in)',
           \A i, j \in 0..n : h[i] = h[j] => i = j
    PROVE  ReachesOrigin(s, c, target, in)'
<1>1. Cardinality(Dir) \in Nat
  BY DirAssumption, FS_CardinalityType
<1>2. ASSUME NEW m \in 0..n PROVE ~Seen(s, m)'
  <2>1. \A k \in 0..(m - 1) : k \in 0..n /\ k # m
    BY <1>1
  <2> QED BY <2>1 DEF Seen
<1> QED BY <1>2 DEF ReachesOrigin, Agrees

\* A success that would be reused still would be.
LEMMA ReusableKept ==
    ASSUME TypeOK, NEW d \in Dir, NEW c \in Candidate, NEW in, Reusable(d, c, in),
           \A e \in Dir : result[e] # NoResult => result'[e] = result[e] /\ cand'[e] = cand[e]
    PROVE  Reusable(d, c, in)'
<1> DEFINE N == Cardinality(Dir)
           g == Generation(d)
<1>0. PICK h : h = Generation(d)'
  OBVIOUS
<1>t. PICK target : target = result[d].cand[c]
  OBVIOUS
<1>1. N \in Nat /\ IsWalk(g, result, d, N) /\ IsWalk(h, result', d, N)
  BY <1>0, DirAssumption, FS_CardinalityType, GenerationIsWalk
<1>2. PICK n \in 0..N : /\ g[n] = target.origin
                        /\ \A m \in 0..n : Agrees(g[m], c, target, in)
                        /\ \A m \in 0..n : g[m] \in Dir
                        /\ \A i, j \in 0..n : g[i] = g[j] => i = j
  BY <1>t, LineageIsDirect
<1>3. \A m \in 0..n : result'[g[m]] = result[g[m]] /\ cand'[g[m]] = cand[g[m]]
  BY <1>2 DEF Agrees
<1> HIDE DEF g, N
<1>4. g[0] = d /\ h[0] = d /\ n \in 0..n /\ 0 \in 0..n
  <2>1. g[0] = d
    BY <1>1, WalkStart
  <2>2. h[0] = d
    BY <1>1, WalkStart
  <2>3. n \in 0..n /\ 0 \in 0..n
    BY <1>1
  <2> QED BY <2>1, <2>2, <2>3
<1>5. SameOnTheWay(g, 0, n, result, result')
  BY <1>1, <1>2, <1>3 DEF SameOnTheWay
<1>6. \A k \in 0..n : g[k] = h[k]
  BY <1>1, <1>5, WalksAgree
<1>7. result'[d] = result[d]
  BY <1>3, <1>4
<1>8. h[n] = target.origin /\ \A m \in 0..n : Agrees(h[m], c, target, in)'
  <2>1. ASSUME NEW m \in 0..n PROVE Agrees(h[m], c, target, in)'
    <3>1. Agrees(g[m], c, target, in) /\ result'[g[m]] = result[g[m]] /\ h[m] = g[m]
      BY <1>2, <1>3, <1>6
    <3> QED BY <3>1 DEF Agrees
  <2> QED BY <1>2, <1>4, <1>6, <2>1
<1>9. ReachesOrigin(d, c, target, in)'
  <2>1. \A i, j \in 0..n : h[i] = h[j] => i = j
    BY <1>2, <1>6
  <2> QED BY <1>0, <1>8, <2>1, ReachesNext DEF N
<1>10. cand'[target.origin] = cand[target.origin]
  BY <1>2, <1>3, <1>4
<1> QED BY <1>t, <1>7, <1>9, <1>10 DEF Reusable

\* A batch delivers successes that can be reused: of its own, or of its source with one
\* more generation in front.
LEMMA DeliveredReusable ==
    ASSUME IInv, ResumeInv, removals = 0, NEW b \in Batch, job[b].pc = "deliver",
           NEW d \in Dir, d = job[b].out, cand' = cand,
           result' = [result EXCEPT ![d] = [input |-> job[b].input, parent |-> job[b].src,
                                            cand |-> job[b].summaries]],
           NEW c \in Candidate, job[b].summaries[c].status = "SUCCEEDED",
           NEW in, in = job[b].input
    PROVE  Reusable(d, c, in)'
<1> DEFINE N == Cardinality(Dir)
<1>h. PICK h : h = Generation(d)'
  OBVIOUS
<1>t. PICK target : target = job[b].summaries[c]
  OBVIOUS
<1>1. /\ TypeOK /\ JobView(b) /\ Writes(b) /\ Collected(b, c) /\ OwnsDestination(b)
      /\ PriorIsSource(b) /\ OwnOrEmpty(b, c) /\ DirView(d)
      /\ target \in Summary /\ target # NoSummary
  BY <1>t, ResultType, SentinelAssumption DEF IInv, JobView, Writes, ResumeInv
<1>2. N \in Nat /\ IsWalk(h, result', d, N)
  BY <1>h, DirAssumption, FS_CardinalityType, GenerationIsWalk
<1>3. /\ \A e \in Dir \ {d} : result'[e] = result[e]
      /\ result'[d] = [input |-> in, parent |-> job[b].src, cand |-> job[b].summaries]
      /\ result'[d].cand[c] = target /\ result'[d].input = in
      /\ result'[d] # NoResult /\ result[d] = NoResult
      /\ target.status = "SUCCEEDED"
  <2>1. [input |-> job[b].input, parent |-> job[b].src, cand |-> job[b].summaries] \in Result
    BY ResultType
  <2>2. result[d] = NoResult
    BY <1>1 DEF OwnsDestination
  <2> QED BY <1>1, <1>t, <2>1, <2>2, SentinelAssumption DEF TypeOK
<1>4. Agrees(d, c, target, in)'
  BY <1>3, SentinelAssumption DEF Agrees
<1>5. h[0] = d /\ \A k \in 1..N : h[k] = ParentIn(result', h[k - 1])
  <2> HIDE DEF N
  <2> QED BY <1>2, WalkSteps
<1>6. CASE ~PriorSuccess(b, c)
  <2>1. target.origin = d
    BY <1>1, <1>3, <1>6, <1>t DEF OwnOrEmpty
  <2>2. cand[d][c].status = "SUCCEEDED" /\ cand[d][c].run = target.run /\ target.paths = AllPaths
    BY <1>1, <1>3, <1>t, <2>1 DEF Collected, DirView
  <2>3. ReachesOrigin(d, c, target, in)'
    <3>1. 0 \in 0..N /\ h[0] = target.origin
      BY <1>2, <1>5, <2>1
    <3>2. \A m \in 0..0 : Agrees(h[m], c, target, in)'
      <4>1. \A m \in 0..0 : h[m] = d
        BY <1>5
      <4> QED BY <1>4, <4>1 DEF Agrees
    <3>3. \A i, j \in 0..0 : h[i] = h[j] => i = j
      OBVIOUS
    <3> QED BY <1>h, <3>1, <3>2, <3>3, ReachesNext
  <2> QED BY <1>3, <2>1, <2>2, <2>3 DEF Reusable
<1>7. CASE PriorSuccess(b, c)
  <2> DEFINE g == Generation(job[b].src)
  <2>1. PICK s \in Dir : s = job[b].src /\ result[s] = job[b].prior /\ result[s].input = in
    BY <1>1, <1>7 DEF PriorIsSource, PriorSuccess
  <2>o. PICK old : old = result[s].cand[c]
    OBVIOUS
  <2>2. result[s] # NoResult /\ old.status = "SUCCEEDED"
    BY <1>7, <2>1, <2>o DEF PriorSuccess
  <2>3. Reusable(s, c, in)
    BY <2>1, <2>2, <2>o DEF ResumeInv, SuccessesReusable
  <2>4. PICK n \in 0..N : /\ g[n] = old.origin
                          /\ \A m \in 0..n : Agrees(g[m], c, old, in)
                          /\ \A m \in 0..n : g[m] \in Dir
                          /\ \A i, j \in 0..n : g[i] = g[j] => i = j
    BY <1>1, <2>1, <2>3, <2>o, LineageIsDirect
  <2>5. /\ target.run = old.run /\ target.origin = old.origin
        /\ target.paths = AllPaths /\ old.paths = AllPaths
        /\ cand[old.origin][c].status = "SUCCEEDED" /\ cand[old.origin][c].run = old.run
    BY <1>1, <1>7, <1>t, <2>1, <2>3, <2>o DEF Collected, Reusable
  <2>6. \A m \in 0..n : g[m] # d /\ result'[g[m]] = result[g[m]]
    BY <1>3, <2>4 DEF Agrees
  <2>7. IsWalk(g, result, s, N)
    BY <2>1, GenerationIsWalk
  <2> HIDE DEF g, N
  <2>8. n + 1 \in 0..N
    <3> DEFINE f == [m \in 0..n |-> g[m]]
    <3>1. f \in Injection(0..n, Dir \ {d})
      BY <2>4, <2>6 DEF Injection, IsInjective
    <3>2. IsFiniteSet(Dir \ {d}) /\ Cardinality(Dir \ {d}) = N - 1
      BY DirAssumption, FS_RemoveElement DEF N
    <3> HIDE DEF f
    <3>3. Cardinality(0..n) <= N - 1
      BY <3>1, <3>2, FS_Injection
    <3>4. Cardinality(0..n) = n + 1
      <4>1. n \in Nat /\ n \in Int /\ 0 \in Int
        BY <1>2
      <4>2. Cardinality(0..n) = IF 0 > n THEN 0 ELSE n - 0 + 1
        BY <4>1, FS_Interval
      <4> QED BY <4>1, <4>2
    <3> QED BY <1>2, <3>3, <3>4
  <2>9. SameOnTheWay(g, 0, n, result, result')
    BY <1>2, <2>4, <2>6 DEF SameOnTheWay
  <2>10. g[0] = h[1]
    <3>1. g[0] = s
      BY <1>2, <2>7, WalkSteps
    <3>2. 1 \in 1..N /\ 1 - 1 = 0
      BY <1>2, <2>8
    <3>3. h[1] = ParentIn(result', d)
      BY <1>5, <3>2
    <3> QED BY <1>3, <2>1, <3>1, <3>3, SentinelAssumption DEF ParentIn
  <2>11. \A k \in 0..n : g[0 + k] = h[1 + k]
    <3>1. 0 \in Nat /\ 1 \in Nat /\ n \in Nat /\ 0 + n <= N /\ 1 + n <= N
      BY <1>2, <2>8
    <3> QED BY <1>2, <2>7, <2>9, <2>10, <3>1, WalksStayTogether
  <2>12. ASSUME NEW m \in 0..(n + 1) PROVE Agrees(h[m], c, target, in)'
    <3>1. CASE m = 0
      BY <1>4, <1>5, <3>1 DEF Agrees
    <3>2. CASE m # 0
      <4>1. m - 1 \in 0..n /\ 0 + (m - 1) = m - 1 /\ 1 + (m - 1) = m
        BY <1>2, <3>2
      <4>2. h[m] = g[m - 1]
        BY <2>11, <4>1
      <4>3. Agrees(g[m - 1], c, old, in) /\ result'[h[m]] = result[g[m - 1]]
        BY <2>4, <2>6, <4>1, <4>2
      <4> QED BY <2>5, <4>2, <4>3 DEF Agrees
    <3> QED BY <3>1, <3>2
  <2>13. h[n + 1] = target.origin
    <3>1. n \in 0..n /\ 0 + n = n /\ 1 + n = n + 1
      BY <1>2
    <3> QED BY <2>4, <2>5, <2>11, <3>1
  <2>14. \A i, j \in 0..(n + 1) : h[i] = h[j] => i = j
    <3>1. \A i \in 1..(n + 1) : i - 1 \in 0..n /\ h[i] = g[i - 1] /\ h[i] # d
      <4> TAKE i \in 1..(n + 1)
      <4>1. i - 1 \in 0..n /\ 0 + (i - 1) = i - 1 /\ 1 + (i - 1) = i
        BY <1>2
      <4> QED BY <2>6, <2>11, <4>1
    <3> TAKE i, j \in 0..(n + 1)
    <3>2. i \in {0} \cup 1..(n + 1) /\ j \in {0} \cup 1..(n + 1)
      BY <1>2
    <3>3. i - 1 = j - 1 => i = j
      OBVIOUS
    <3> QED BY <1>5, <2>4, <3>1, <3>2, <3>3
  <2>15. ReachesOrigin(d, c, target, in)'
    BY <1>h, <2>8, <2>12, <2>13, <2>14, ReachesNext DEF N
  <2> QED BY <1>3, <2>5, <2>15 DEF Reusable
<1> QED BY <1>6, <1>7

\* What a step makes of the request and the progress of an invocation.
Resets(b) == job'[b].prior = NoResult /\ \A c \in Candidate : job'[b].summaries[c] = NoSummary

Loads(b) ==
    /\ job[b].pc = "preflight" /\ job[b].src \in Dir /\ Accepts(job[b].src, job[b].input)
    /\ job'[b].src = job[b].src /\ job'[b].input = job[b].input /\ job'[b].out = job[b].out
    /\ job'[b].prior = result[job[b].src]
    /\ \A c \in Candidate : job'[b].summaries[c] = NoSummary
    /\ result' = result /\ \A a \in Batch : a # b => job'[a] = job[a]

Proceeds(b) ==
    /\ job'[b].src = job[b].src /\ job'[b].input = job[b].input /\ job'[b].out = job[b].out
    /\ job'[b].prior = job[b].prior
    /\ \A c \in Candidate : job'[b].summaries[c] = job[b].summaries[c] \/ OwnOrEmpty(b, c)'

\* Another candidate's summary is collected.
LEMMA CollectProceeds ==
    ASSUME TypeOK, NEW b \in Batch, NEW c \in Candidate, NEW new \in Summary,
           Collect(b, c, new),
           \/ PriorSuccess(b, c)
           \/ new.origin = job[b].out
           \/ new.status = "FAILED" /\ new.paths = {}
    PROVE  Proceeds(b)
<1>1. job'[b] = [job[b] EXCEPT !.summaries[c] = new, !.at = @ + 1]
  BY DEF Collect, TypeOK
<1>2. /\ job'[b].src = job[b].src /\ job'[b].input = job[b].input /\ job'[b].out = job[b].out
      /\ job'[b].prior = job[b].prior /\ job'[b].summaries[c] = new
      /\ \A x \in Candidate \ {c} : job'[b].summaries[x] = job[b].summaries[x]
  BY <1>1 DEF TypeOK, Job
<1>3. OwnOrEmpty(b, c)'
  BY <1>2 DEF OwnOrEmpty, PriorSuccess
<1> QED BY <1>2, <1>3 DEF Proceeds

\* A candidate's run proceeds.
LEMMA ExecuteProceeds ==
    ASSUME TypeOK, NEW b \in Batch, NEW c \in Candidate, NEW to,
           NEW left \in CandidateDir, NEW executed \in Nat, job[b].out \in Dir,
           left.status = "open" => left.paths = {},
           Execute(b, c, to, left, executed)
    PROVE  Proceeds(b)
<1>1. PICK new \in Summary :
        /\ Collect(b, c, new)
        /\ new.origin = IF left.status # "open" THEN job[b].out ELSE NoDir
        /\ new.status = IF left.status = "SUCCEEDED" THEN "SUCCEEDED" ELSE "FAILED"
        /\ new.paths = left.paths
  BY ExecuteSummary
<1>2. \/ new.origin = job[b].out
      \/ new.status = "FAILED" /\ new.paths = {}
  <2>1. CASE left.status = "open"
    <3>1. new.paths = {} /\ new.status = "FAILED"
      BY <1>1, <2>1
    <3> QED BY <3>1
  <2>2. CASE left.status # "open"
    <3>1. new.origin = job[b].out
      BY <1>1, <2>2, Zenon
    <3> QED BY <3>1
  <2> QED BY <2>1, <2>2
<1> QED BY <1>1, <1>2, CollectProceeds

\* So does every way a candidate goes.
LEMMA CandidateProceeds ==
    ASSUME IInv, NEW b \in Batch, NextCandidate(b)
    PROVE  Proceeds(b)
<1>1. TypeOK /\ JobView(b) /\ job[b].at <= Len(Order) /\ job[b].out \in Dir
  BY DEF IInv, NextCandidate, JobView
<1> DEFINE c == Order[job[b].at]
<1>2. c \in Candidate
  BY <1>1, OrderFacts DEF TypeOK, Job
<1>3. /\ 0 \in Nat /\ 0 \in 0..NumOps /\ NumOps \in 0..NumOps
      /\ runs + 1 \in Nat
      /\ NumOps - Replayable(b, c) \in Nat
  BY <1>1, <1>2, ReplayableType, NumOpsAssumption DEF TypeOK
<1>4. CASE Reuse(b, c)
  <2>1. ReuseSummary(b, c, 0) \in Summary
    BY <1>1, <1>2, <1>4, ReuseType DEF JobView, Reuse
  <2>2. PriorSuccess(b, c) /\ Collect(b, c, ReuseSummary(b, c, 0))
    BY <1>4 DEF Reuse
  <2>3. PICK new \in Summary : Collect(b, c, new)
    BY <2>1, <2>2, Zenon
  <2> HIDE DEF c
  <2> QED BY <1>1, <1>2, <2>2, <2>3, CollectProceeds, Zenon
<1>5. CASE CandidateSucceeds(b, c)
  <2> DEFINE left == [status |-> "SUCCEEDED", run |-> runs + 1, held |-> NumOps,
                      partial |-> FALSE, paths |-> AllPaths]
  <2>1. left \in CandidateDir /\ left.status # "open"
    BY <1>3, PathsFacts DEF CandidateDir
  <2>2. Execute(b, c, NumOps, left, NumOps - Replayable(b, c))
    BY <1>5 DEF CandidateSucceeds
  <2> HIDE DEF left, c
  <2> QED BY <1>1, <1>2, <1>3, <2>1, <2>2, ExecuteProceeds
<1>6. ASSUME NEW held \in 0..NumOps, NEW to \in 0..NumOps, NEW partial \in BOOLEAN,
             NEW paths \in FailedPaths, CandidateFails(b, c, held, to, partial, paths)
      PROVE  Proceeds(b)
  <2> DEFINE left == [status |-> "FAILED", run |-> runs + 1, held |-> held,
                      partial |-> partial, paths |-> paths]
  <2>1. left \in CandidateDir /\ left.status # "open"
    BY <1>3 DEF CandidateDir
  <2>2. PICK n \in {held, to} : Execute(b, c, to, left, Max({0, n - Replayable(b, c)}))
    BY <1>6 DEF CandidateFails
  <2>3. n \in 0..NumOps
    OBVIOUS
  <2>4. Max({0, n - Replayable(b, c)}) \in Nat
    BY <1>1, <1>2, <2>3, ExecutedType
  <2> HIDE DEF left, c
  <2> QED BY <1>1, <1>2, <2>1, <2>2, <2>4, ExecuteProceeds
<1>7. ASSUME NEW to \in 0..NumOps, CandidateRaises(b, c, to)
      PROVE  Proceeds(b)
  <2> DEFINE left == [NoCandidateDir EXCEPT !.status = "open"]
  <2>1. left \in CandidateDir /\ left.paths = {}
    BY <1>3, PathsFacts DEF CandidateDir, NoCandidateDir
  <2>2. Execute(b, c, to, left, 0)
    BY <1>7 DEF CandidateRaises
  <2> HIDE DEF left, c
  <2> QED BY <1>1, <1>2, <1>3, <2>1, <2>2, ExecuteProceeds
<1> QED BY <1>4, <1>5, <1>6, <1>7 DEF NextCandidate

\* A step of another batch leaves b as it is.
LEMMA OthersProceed ==
    ASSUME TypeOK, NEW a \in Batch, NEW b \in Batch, a # b,
           \/ \E d \in Dir, s \in Dir \cup {NoDir}, in \in Input : Start(a, d, s, in)
           \/ AssertFreshDestination(a) \/ LoadResumeBatch(a) \/ MakeDirectory(a)
           \/ NextCandidate(a) \/ AllCollected(a) \/ Deliver(a) \/ Crash(a)
    PROVE  job'[b] = job[b]
<1>1. ASSUME NEW c, NEW new, Collect(a, c, new) PROVE job'[b] = job[b]
  BY <1>1 DEF Collect, TypeOK
<1>2. ASSUME NEW c, NEW to, NEW left, NEW executed, Execute(a, c, to, left, executed)
      PROVE  job'[b] = job[b]
  BY <1>1, <1>2 DEF Execute
<1>3. CASE NextCandidate(a)
  <2> DEFINE c == Order[job[a].at]
  <2>1. CASE Reuse(a, c)
    BY <1>1, <2>1 DEF Reuse
  <2>2. CASE CandidateSucceeds(a, c)
    BY <1>2, <2>2 DEF CandidateSucceeds
  <2>3. ASSUME NEW held \in 0..NumOps, NEW to \in 0..NumOps, NEW partial \in BOOLEAN,
               NEW paths \in FailedPaths, CandidateFails(a, c, held, to, partial, paths)
        PROVE  job'[b] = job[b]
    BY <1>2, <2>3 DEF CandidateFails
  <2>4. ASSUME NEW to \in 0..NumOps, CandidateRaises(a, c, to)
        PROVE  job'[b] = job[b]
    BY <1>2, <2>4 DEF CandidateRaises
  <2> QED BY <1>3, <2>1, <2>2, <2>3, <2>4 DEF NextCandidate
<1>4. CASE ~NextCandidate(a)
  <2>1. ASSUME NEW j, job' = [job EXCEPT ![a] = j] PROVE job'[b] = job[b]
    BY <2>1 DEF TypeOK
  <2>2. ASSUME NEW to, Goto(a, to) PROVE job'[b] = job[b]
    BY <2>2 DEF Goto, TypeOK
  <2>3. CASE Exit(a)
    BY <2>3 DEF Exit, TypeOK
  <2>4. ASSUME NEW d \in Dir, NEW s \in Dir \cup {NoDir}, NEW in \in Input, Start(a, d, s, in)
        PROVE  job'[b] = job[b]
    BY <2>4 DEF Start, TypeOK
  <2>5. CASE LoadResumeBatch(a)
    BY <2>3, <2>5 DEF LoadResumeBatch, TypeOK
  <2>6. CASE AssertFreshDestination(a) \/ MakeDirectory(a) \/ AllCollected(a) \/ Deliver(a) \/ Crash(a)
    BY <2>2, <2>3, <2>6 DEF AssertFreshDestination, MakeDirectory, AllCollected, Deliver, Crash
  <2> QED BY <1>4, <2>4, <2>5, <2>6
<1> QED BY <1>3, <1>4

\* An invocation that stays as it is proceeds.
LEMMA SameProceeds ==
    ASSUME NEW b \in Batch, job'[b] = job[b]
    PROVE  Proceeds(b)
BY DEF Proceeds

\* Every step resets, loads or proceeds.
LEMMA JobTrace ==
    ASSUME IInv, [Next]_vars, NEW b \in Batch
    PROVE  Resets(b) \/ Loads(b) \/ Proceeds(b)
<1>0. TypeOK /\ JobView(b) /\ job[b] \in Job
  BY DEF IInv, TypeOK
<1>1. CASE Exit(b)
  <2>1. job'[b] = Idle
    BY <1>0, <1>1, ExitJob
  <2> QED BY <2>1 DEF Resets, Idle
<1>2. ASSUME NEW to \in {"mkdir", "preflight", "candidates", "deliver"}, Goto(b, to)
      PROVE  Proceeds(b)
  <2>1. job'[b] = [job[b] EXCEPT !.pc = to]
    BY <1>0, <1>2, MoveJob
  <2> QED BY <1>0, <2>1 DEF Proceeds, Job
<1>3. ASSUME NEW d \in Dir, NEW s \in Dir \cup {NoDir}, NEW in \in Input, Start(b, d, s, in)
      PROVE  Resets(b)
  <2>1. job'[b] = [Idle EXCEPT !.pc = "fresh", !.out = d, !.src = s, !.input = in]
    BY <1>0, <1>3 DEF Start, TypeOK
  <2> QED BY <2>1 DEF Resets, Idle
<1>4. CASE LoadResumeBatch(b)
  <2> DEFINE s == job[b].src
             from == [c \in Candidate |-> ResumeSource(s, c)]
  <2>1. s \in Dir /\ job[b].pc = "preflight"
    BY <1>0, <1>4 DEF LoadResumeBatch, JobView
  <2>2. CASE Accepts(s, job[b].input)
    <3>1. job' = [job EXCEPT ![b].pc = "mkdir", ![b].prior = result[s], ![b].from = from]
      BY <1>4, <2>2 DEF LoadResumeBatch
    <3> HIDE DEF from
    <3>2. /\ job'[b].src = s /\ job'[b].input = job[b].input /\ job'[b].prior = result[s]
          /\ job'[b].summaries = job[b].summaries /\ job'[b].out = job[b].out
      BY <1>0, <3>1 DEF TypeOK, Job
    <3>3. \A c \in Candidate : job[b].summaries[c] = NoSummary
      BY <1>0, <2>1 DEF JobView, Writes
    <3>4. result' = result /\ \A a \in Batch : a # b => job'[a] = job[a]
      BY <1>0, <1>4, OthersProceed DEF LoadResumeBatch, disk
    <3> QED BY <2>1, <2>2, <3>2, <3>3, <3>4 DEF Loads
  <2>3. CASE ~Accepts(s, job[b].input)
    BY <1>1, <1>4, <2>3 DEF LoadResumeBatch
  <2> QED BY <2>2, <2>3
<1>5. CASE AssertFreshDestination(b)
  BY <1>1, <1>2, <1>5 DEF AssertFreshDestination
<1>6. CASE MakeDirectory(b)
  BY <1>1, <1>2, <1>6 DEF MakeDirectory
<1>7. CASE NextCandidate(b)
  BY <1>7, CandidateProceeds
<1>8. CASE AllCollected(b)
  BY <1>2, <1>8 DEF AllCollected
<1>9. CASE Deliver(b) \/ Crash(b)
  BY <1>1, <1>9 DEF Deliver, Crash
<1>10. ASSUME NEW a \in Batch, a # b,
              \/ \E d \in Dir, s \in Dir \cup {NoDir}, in \in Input : Start(a, d, s, in)
              \/ AssertFreshDestination(a) \/ LoadResumeBatch(a) \/ MakeDirectory(a)
              \/ NextCandidate(a) \/ AllCollected(a) \/ Deliver(a) \/ Crash(a)
       PROVE  Proceeds(b)
  BY <1>0, <1>10, OthersProceed, SameProceeds
<1>11. ASSUME NEW d \in Dir, Remove(d) PROVE Proceeds(b)
  BY <1>11, SameProceeds DEF Remove
<1>12. CASE UNCHANGED vars
  BY <1>12, SameProceeds DEF vars
<1> QED BY <1>3, <1>4, <1>5, <1>6, <1>7, <1>8, <1>9, <1>10, <1>11, <1>12 DEF Next, Quiet

\* What a loaded batch has loaded it keeps.
LEMMA PriorStep ==
    ASSUME IInv, ResumeInv, [Next]_vars, NEW b \in Batch
    PROVE  PriorIsSource(b)' /\ \A c \in Candidate : OwnOrEmpty(b, c)'
<1>0. TypeOK /\ JobView(b) /\ PriorIsSource(b) /\ \A c \in Candidate : OwnOrEmpty(b, c)
  BY DEF IInv, ResumeInv
<1>1. ASSUME NEW s \in Dir, result[s] # NoResult, s = job[b].src, job[b].pc # "idle"
      PROVE  result'[s] = result[s]
  <2>1. ASSUME NEW e \in Dir, Remove(e) PROVE result'[s] = result[s]
    BY <1>0, <1>1, <2>1 DEF Remove, Live, TypeOK
  <2>2. CASE removals' = removals
    BY <1>1, <2>2, DeliveredKept
  <2>3. removals' = removals \/ \E e \in Dir : Remove(e)
    BY RemovalsKept
  <2> QED BY <2>1, <2>2, <2>3
<1>2. CASE Resets(b)
  BY <1>2 DEF Resets, PriorIsSource, OwnOrEmpty
<1>3. CASE Loads(b)
  <2>1. job[b].pc # "idle"
    BY <1>3 DEF Loads
  <2>2. result[job[b].src] # NoResult /\ result[job[b].src].input = job[b].input
    BY <1>3 DEF Loads, Accepts
  <2> QED BY <1>1, <1>3, <2>1, <2>2 DEF Loads, PriorIsSource, OwnOrEmpty
<1>4. CASE Proceeds(b)
  <2>1. PriorIsSource(b)'
    <3>1. job[b].prior # NoResult => job[b].pc # "idle"
      BY <1>0 DEF JobView
    <3> QED BY <1>0, <1>1, <1>4, <3>1 DEF Proceeds, PriorIsSource
  <2>2. ASSUME NEW c \in Candidate PROVE OwnOrEmpty(b, c)'
    BY <1>0, <1>4 DEF Proceeds, OwnOrEmpty, PriorSuccess
  <2> QED BY <2>1, <2>2
<1> QED BY <1>2, <1>3, <1>4, JobTrace

\* What a step does to a result: nothing, or it removes it, or it delivers it.
LEMMA ResultTrace ==
    ASSUME IInv, [Next]_vars, NEW d \in Dir
    PROVE  \/ result'[d] = result[d]
           \/ result'[d] = NoResult
           \/ \E b \in Batch :
                /\ Deliver(b) /\ d = job[b].out
                /\ result' = [result EXCEPT ![d] =
                                [input |-> job[b].input, parent |-> job[b].src,
                                 cand |-> job[b].summaries]]
<1>0. DOMAIN result = Dir
  BY DEF IInv, TypeOK
<1>1. ASSUME NEW b \in Batch, NextCandidate(b) PROVE result'[d] = result[d]
  BY <1>1, CandidateKeeps
<1>2. ASSUME NEW b \in Batch, Deliver(b)
      PROVE  \/ result'[d] = result[d]
             \/ /\ d = job[b].out
                /\ result' = [result EXCEPT ![d] =
                                [input |-> job[b].input, parent |-> job[b].src,
                                 cand |-> job[b].summaries]]
  BY <1>0, <1>2 DEF Deliver
<1>3. ASSUME NEW e \in Dir, Remove(e)
      PROVE  result'[d] = result[d] \/ result'[d] = NoResult
  BY <1>0, <1>3 DEF Remove
<1>4. ASSUME NEW b \in Batch,
             \/ \E e \in Dir, s \in Dir \cup {NoDir}, in \in Input : Start(b, e, s, in)
             \/ AssertFreshDestination(b) \/ LoadResumeBatch(b) \/ MakeDirectory(b)
             \/ AllCollected(b) \/ Crash(b)
      PROVE  result' = result
  BY <1>4 DEF Start, AssertFreshDestination, LoadResumeBatch, MakeDirectory, AllCollected,
              Crash, disk
<1>5. CASE UNCHANGED vars
  BY <1>5 DEF vars, disk
<1> QED BY <1>1, <1>2, <1>3, <1>4, <1>5 DEF Next, Quiet

\* A delivered failure names files of its own directory only.
LEMMA DeliveredFailures ==
    ASSUME IInv, ResumeInv, NEW b \in Batch, job[b].pc = "deliver",
           NEW d \in Dir, d = job[b].out, result'[d].cand = job[b].summaries
    PROVE  FailuresOwned(d)'
<1> SUFFICES ASSUME NEW c \in Candidate, job[b].summaries[c].status = "FAILED"
             PROVE  \/ job[b].summaries[c].paths = {}
                    \/ job[b].summaries[c].origin = d
  BY DEF FailuresOwned
<1>1. /\ OwnOrEmpty(b, c) /\ Collected(b, c)
      /\ job[b].summaries[c] # NoSummary
  <2>1. job[b].summaries[c] \in Summary
    BY ResultType
  <2> QED BY <2>1, SentinelAssumption DEF IInv, JobView, ResumeInv
<1>2. ~PriorSuccess(b, c)
  BY <1>1 DEF Collected
<1> QED BY <1>1, <1>2 DEF OwnOrEmpty

\* Every step.
LEMMA ResumeStep == IInv /\ ResumeInv /\ [Next]_vars => ResumeInv'
<1> SUFFICES ASSUME IInv, ResumeInv, [Next]_vars PROVE ResumeInv'
  OBVIOUS
<1>0. TypeOK /\ TypeOK'
  BY TypeStep DEF IInv
<1>1. \A b \in Batch : PriorIsSource(b)' /\ \A c \in Candidate : OwnOrEmpty(b, c)'
  BY PriorStep
<1>2. ASSUME NEW d \in Dir PROVE FailuresOwned(d)'
  <2>1. FailuresOwned(d)
    BY DEF ResumeInv
  <2>2. CASE result'[d] = result[d] \/ result'[d] = NoResult
    BY <2>1, <2>2 DEF FailuresOwned
  <2>3. ASSUME NEW b \in Batch, Deliver(b), d = job[b].out,
               result' = [result EXCEPT ![d] =
                            [input |-> job[b].input, parent |-> job[b].src,
                             cand |-> job[b].summaries]]
        PROVE  FailuresOwned(d)'
    <3>1. result'[d].cand = job[b].summaries /\ job[b].pc = "deliver"
      BY <1>0, <2>3 DEF TypeOK, Deliver
    <3> QED BY <2>3, <3>1, DeliveredFailures
  <2> QED BY <2>2, <2>3, ResultTrace
<1>3. ASSUME removals' = 0, NEW d \in Dir PROVE SuccessesReusable(d)'
  <2>1. removals = 0
    <3>1. removals' = removals \/ removals' = removals + 1
      BY RemovalsKept DEF Remove
    <3> QED BY <1>0, <1>3, <3>1, BoundAssumption DEF TypeOK
  <2>2. \A e \in Dir : result[e] # NoResult => result'[e] = result[e] /\ cand'[e] = cand[e]
    BY <1>3, <2>1, DeliveredKept
  <2>3. SuccessesReusable(d)
    BY <2>1 DEF ResumeInv
  <2>4. CASE result'[d] = result[d] \/ result'[d] = NoResult
    <3> SUFFICES ASSUME result'[d] # NoResult, NEW c \in Candidate,
                        result'[d].cand[c].status = "SUCCEEDED",
                        NEW in, in = result'[d].input
                 PROVE  Reusable(d, c, in)'
      BY DEF SuccessesReusable
    <3>1. result'[d] = result[d]
      BY <2>4
    <3>2. Reusable(d, c, in)
      BY <2>3, <3>1 DEF SuccessesReusable
    <3> QED BY <1>0, <2>2, <3>2, ReusableKept
  <2>5. ASSUME NEW b \in Batch, Deliver(b), d = job[b].out,
               result' = [result EXCEPT ![d] =
                            [input |-> job[b].input, parent |-> job[b].src,
                             cand |-> job[b].summaries]]
        PROVE  SuccessesReusable(d)'
    <3>1. /\ result'[d].cand = job[b].summaries /\ result'[d].input = job[b].input
          /\ job[b].pc = "deliver" /\ cand' = cand
      BY <1>0, <2>5 DEF TypeOK, Deliver
    <3> SUFFICES ASSUME NEW c \in Candidate,
                        job[b].summaries[c].status = "SUCCEEDED",
                        NEW in, in = job[b].input
                 PROVE  Reusable(d, c, in)'
      BY <3>1 DEF SuccessesReusable
    <3> QED BY <2>1, <2>5, <3>1, DeliveredReusable
  <2> QED BY <2>4, <2>5, ResultTrace
<1> QED BY <1>1, <1>2, <1>3 DEF ResumeInv

\* Before the first invocation there is nothing to resume.
LEMMA ResumeInit == Init => ResumeInv
BY DEF Init, Idle, ResumeInv, PriorIsSource, OwnOrEmpty, FailuresOwned, SuccessesReusable

\* What the preflight accepts, by what is recorded.
LEMMA AcceptedIfDelivered ==
    ASSUME IInv, ResumeInv, removals = 0, NEW d \in Dir, Delivered(d)
    PROVE  Accepts(d, result[d].input) <=>
             \A c \in Candidate : result[d].cand[c].status = "FAILED" =>
               result[d].cand[c].paths \subseteq {"run_manifest"}
<1>1. /\ result[d] # NoResult /\ result[d] \in Result
      /\ DirView(d) /\ FailuresOwned(d) /\ SuccessesReusable(d)
  BY DEF Delivered, IInv, TypeOK, ResumeInv
<1>2. ASSUME NEW c \in Candidate
      PROVE  \/ result[d].cand[c].status = "SUCCEEDED"
             \/ result[d].cand[c].status = "FAILED"
  BY <1>1 DEF Result, Summary
<1>3. ASSUME Accepts(d, result[d].input), NEW c \in Candidate,
             result[d].cand[c].status = "FAILED"
      PROVE  result[d].cand[c].paths \subseteq {"run_manifest"}
  <2>1. Resumable(d, c)
    BY <1>3 DEF Accepts
  <2> QED BY <2>1 DEF Resumable
<1>4. ASSUME \A c \in Candidate : result[d].cand[c].status = "FAILED" =>
               result[d].cand[c].paths \subseteq {"run_manifest"}
      PROVE  Accepts(d, result[d].input)
  <2>1. ASSUME NEW c \in Candidate, result[d].cand[c].status = "SUCCEEDED"
        PROVE  Reusable(d, c, result[d].input)
    BY <1>1, <2>1 DEF SuccessesReusable
  <2>2. ASSUME NEW c \in Candidate, result[d].cand[c].status = "FAILED"
        PROVE  Resumable(d, c)
    <3> DEFINE entry == result[d].cand[c]
    <3>1. entry.paths = {} \/ entry.paths = {"run_manifest"}
      BY <1>4, <2>2
    <3>2. CASE entry.paths = {}
      BY <3>2 DEF Resumable
    <3>3. CASE entry.paths = {"run_manifest"}
      <4>1. entry.origin = d
        BY <1>1, <2>2, <3>3 DEF FailuresOwned
      <4>2. /\ cand[d][c].status = "FAILED" /\ cand[d][c].run = entry.run
            /\ cand[d][c].paths = {"run_manifest"}
        BY <1>1, <2>2, <3>3, <4>1 DEF DirView
      <4> QED BY <3>3, <4>2 DEF Resumable
    <3> QED BY <3>1, <3>2, <3>3
  <2> QED BY <1>1, <1>2, <2>1, <2>2 DEF Accepts
<1> QED BY <1>3, <1>4

\* As long as the operator removes no batch, the preflight accepts a delivered batch, for the
\* request it was made for, exactly if none of its failed candidates had delivered a file:
\* whatever was reused, replayed or resumed on the way to it is found again.
THEOREM OnlyPartialDeliveryBlocks == Spec => []OnlyPartialDeliveryBlocksAResume
<1>1. Init => ResumeInv
  BY ResumeInit
<1>2. IInv /\ ResumeInv /\ [Next]_vars => ResumeInv'
  BY ResumeStep
<1>3. IInv /\ ResumeInv => OnlyPartialDeliveryBlocksAResume
  BY AcceptedIfDelivered DEF OnlyPartialDeliveryBlocksAResume
<1> QED BY <1>1, <1>2, <1>3, Inductive, PTL DEF Spec
----------------------------------------------------------------------------
(* No lineage goes in a circle.                                            *)

\* Result d records that run of c, which o owns, and that it took it from e.
Records(c, run, o, d, e) ==
    /\ result[d] # NoResult /\ d # o
    /\ result[d].parent = e
    /\ result[d].cand[c].status = "SUCCEEDED"
    /\ result[d].cand[c].run = run
    /\ result[d].cand[c].origin = o

\* A batch under way will record it, unless another delivers into d before.
WillRecord(c, run, o, d, e) ==
    /\ result[d] = NoResult /\ d # o
    /\ \E b \in Batch :
         /\ job[b].out = d /\ job[b].src = e
         /\ PriorSuccess(b, c)
         /\ job[b].prior.cand[c].run = run
         /\ job[b].prior.cand[c].origin = o

Link(c, run, o, d, e) == Records(c, run, o, d, e) \/ WillRecord(c, run, o, d, e)

\* One of the directories takes the run from none of them.
HasEnd(c, run, o, U) == \E d \in U : \A e \in U : ~Link(c, run, o, d, e)

\* The links of a run go in no circle: every set of directories has one where they end.
LineageInv ==
    \A c \in Candidate, run \in Nat, o \in Dir \cup {NoDir} :
      \A U \in SUBSET Dir : U # {} => HasEnd(c, run, o, U)

\* A destination that is not delivered is not delivered before an invocation ends.
LEMMA NotYetDelivered ==
    ASSUME IInv, [Next]_vars, NEW b \in Batch, job[b].prior # NoResult,
           NEW d \in Dir, d = job[b].out, result'[d] = NoResult
    PROVE  result[d] = NoResult
<1>1. ASSUME NEW e \in Dir, Remove(e) PROVE result'[d] = result[d]
  <2>1. Live(b) /\ DOMAIN result = Dir
    BY DEF IInv, JobView, Live, TypeOK
  <2> QED BY <1>1, <2>1 DEF Remove
<1>2. CASE removals' = removals
  BY <1>2, DeliveredKept
<1> QED BY <1>1, <1>2, RemovalsKept

\* Where no source is loaded, no link is new: a batch delivers what it was to record.
LEMMA NoNewLink ==
    ASSUME IInv, ResumeInv, [Next]_vars, \A b \in Batch : Resets(b) \/ Proceeds(b),
           NEW c \in Candidate, NEW run, NEW o, NEW d \in Dir, NEW e,
           Link(c, run, o, d, e)'
    PROVE  Link(c, run, o, d, e)
<1>1. CASE Records(c, run, o, d, e)'
  <2>1. result'[d] # NoResult /\ d # o
    BY <1>1 DEF Records
  <2>2. CASE result'[d] = result[d]
    BY <1>1, <2>2 DEF Records, Link
  <2>3. ASSUME NEW b \in Batch, Deliver(b), d = job[b].out,
               result' = [result EXCEPT ![d] =
                            [input |-> job[b].input, parent |-> job[b].src,
                             cand |-> job[b].summaries]]
        PROVE  Link(c, run, o, d, e)
    <3>1. /\ TypeOK /\ JobView(b) /\ job[b].pc = "deliver" /\ Writes(b)
          /\ job[b].summaries[c] \in Summary
      BY <2>3, ResultType DEF IInv, Deliver, Writes
    <3>2. PICK new : new = job[b].summaries[c]
      OBVIOUS
    <3>3. result'[d].parent = job[b].src /\ result'[d].cand[c] = new
      BY <2>3, <3>1, <3>2 DEF TypeOK
    <3>4. /\ job[b].src = e /\ new.status = "SUCCEEDED" /\ new.run = run /\ new.origin = o
      BY <1>1, <3>3 DEF Records
    <3>5. result[d] = NoResult /\ new # NoSummary
      BY <2>3, <3>1, <3>2, SentinelAssumption DEF JobView, OwnsDestination
    <3>6. PriorSuccess(b, c)
      BY <2>1, <2>3, <3>2, <3>4, <3>5 DEF ResumeInv, OwnOrEmpty
    <3>7. job[b].prior.cand[c].run = run /\ job[b].prior.cand[c].origin = o
      BY <3>1, <3>2, <3>4, <3>5, <3>6 DEF JobView, Collected
    <3> QED BY <2>1, <2>3, <3>4, <3>5, <3>6, <3>7 DEF Link, WillRecord
  <2> QED BY <2>1, <2>2, <2>3, ResultTrace
<1>2. CASE WillRecord(c, run, o, d, e)'
  <2>1. PICK b \in Batch :
          /\ job'[b].out = d /\ job'[b].src = e /\ job'[b].prior # NoResult
          /\ job'[b].prior.cand[c].status = "SUCCEEDED"
          /\ job'[b].prior.cand[c].run = run
          /\ job'[b].prior.cand[c].origin = o
    BY <1>2 DEF WillRecord, PriorSuccess
  <2>2. Proceeds(b)
    BY <2>1 DEF Resets
  <2>3. job'[b].out = job[b].out /\ job'[b].src = job[b].src /\ job'[b].prior = job[b].prior
    BY <2>2 DEF Proceeds
  <2>4. result'[d] = NoResult /\ d # o
    BY <1>2 DEF WillRecord
  <2>5. result[d] = NoResult
    BY <2>1, <2>3, <2>4, NotYetDelivered
  <2> QED BY <2>1, <2>3, <2>4, <2>5 DEF Link, WillRecord, PriorSuccess
<1> QED BY <1>1, <1>2 DEF Link

\* Loading a source adds the links from the destination to it, and no others.
LEMMA LoadLink ==
    ASSUME NEW b \in Batch, Loads(b), NEW c \in Candidate, NEW run, NEW o,
           NEW d, NEW e, Link(c, run, o, d, e)'
    PROVE  \/ Link(c, run, o, d, e)
           \/ /\ d # o /\ e = job[b].src
              /\ result[e].cand[c].status = "SUCCEEDED"
              /\ result[e].cand[c].run = run
              /\ result[e].cand[c].origin = o
<1>1. CASE Records(c, run, o, d, e)'
  BY <1>1 DEF Loads, Link, Records
<1>2. CASE WillRecord(c, run, o, d, e)'
  <2>1. PICK a \in Batch :
          /\ job'[a].out = d /\ job'[a].src = e /\ job'[a].prior # NoResult
          /\ job'[a].prior.cand[c].status = "SUCCEEDED"
          /\ job'[a].prior.cand[c].run = run
          /\ job'[a].prior.cand[c].origin = o
    BY <1>2 DEF WillRecord, PriorSuccess
  <2>2. result'[d] = NoResult /\ d # o /\ result' = result
    BY <1>2 DEF WillRecord, Loads
  <2>3. CASE a = b
    BY <2>1, <2>2, <2>3 DEF Loads
  <2>4. CASE a # b
    <3>1. job'[a] = job[a]
      BY <2>4 DEF Loads
    <3> QED BY <2>1, <2>2, <3>1 DEF Link, WillRecord, PriorSuccess
  <2> QED BY <2>3, <2>4
<1> QED BY <1>1, <1>2 DEF Link

\* The lineage of what is loaded leaves every set of directories.
LEMMA LineageLeaves ==
    ASSUME TypeOK, NEW s \in Dir, NEW c \in Candidate, NEW in, Reusable(s, c, in),
           NEW run, NEW o, o = result[s].cand[c].origin,
           NEW U \in SUBSET Dir, s \in U
    PROVE  \E d \in U : result[d] # NoResult /\ (d # o => result[d].parent \notin U)
<1> DEFINE N == Cardinality(Dir)
           g == Generation(s)
<1>1. N \in Nat /\ IsWalk(g, result, s, N)
  BY DirAssumption, FS_CardinalityType, GenerationIsWalk
<1>2. PICK n \in 0..N : /\ g[n] = o
                        /\ \A m \in 0..n : result[g[m]] # NoResult
                        /\ \A m \in 0..n : g[m] \in Dir
  BY LineageIsDirect DEF Agrees
<1> HIDE DEF N
<1> HIDE DEF g
<1>3. g[0] = s /\ \A k \in 1..N : g[k] = ParentIn(result, g[k - 1])
  <2>1. g[0] = s
    BY <1>1, WalkStart
  <2>2. \A k \in 1..N : g[k] = ParentIn(result, g[k - 1])
    BY <1>1, WalkSteps
  <2> QED BY <2>1, <2>2
<1> DEFINE Left == {m \in 0..n : g[n - m] \in U}
<1>4. PICK m \in Left : \A l \in Left : m <= l
  <2>1. Left \in SUBSET Nat
    OBVIOUS
  <2>2. n \in Left
    BY <1>1, <1>3
  <2> HIDE DEF Left
  <2> QED BY <2>1, <2>2, LeastNumber
<1>5. n - m \in 0..n /\ g[n - m] \in U
  BY <1>1, <1>4
<1>6. ASSUME g[n - m] # o PROVE result[g[n - m]].parent \notin U
  <2>1. m # 0
    BY <1>1, <1>2, <1>6
  <2>2. m - 1 \in 0..n /\ n - (m - 1) \in 1..N /\ (n - (m - 1)) - 1 = n - m
    BY <1>1, <1>4, <2>1
  <2>3. g[n - (m - 1)] = ParentIn(result, g[n - m])
    BY <1>3, <2>2
  <2>4. ParentIn(result, g[n - m]) = result[g[n - m]].parent
    BY <1>2, <1>5, SentinelAssumption DEF ParentIn
  <2>5. m - 1 \notin Left
    BY <1>4, <2>2
  <2> QED BY <2>2, <2>3, <2>4, <2>5
<1> QED BY <1>2, <1>5, <1>6

\* What the preflight accepts closes no circle: the walk it has made ends at the owner, from
\* where no link of the run leads on.
LEMMA LoadKeepsEnds ==
    ASSUME IInv, LineageInv, NEW b \in Batch, Loads(b),
           NEW c \in Candidate, NEW run \in Nat, NEW o \in Dir \cup {NoDir},
           NEW U \in SUBSET Dir, U # {}
    PROVE  HasEnd(c, run, o, U)'
<1> SUFFICES ASSUME \A d \in U : \E e \in U : Link(c, run, o, d, e)'
             PROVE  FALSE
  BY DEF HasEnd
<1>1. PICK d \in U : \A e \in U : ~Link(c, run, o, d, e)
  BY DEF LineageInv, HasEnd
<1>2. PICK s \in U : Link(c, run, o, d, s)'
  OBVIOUS
<1>3. /\ s = job[b].src
      /\ result[s].cand[c].status = "SUCCEEDED"
      /\ result[s].cand[c].origin = o
  BY <1>1, <1>2, LoadLink
<1>4. s \in Dir /\ TypeOK /\ Reusable(s, c, job[b].input)
  BY <1>3 DEF IInv, Loads, Accepts
<1>5. PICK x \in U : result[x] # NoResult /\ (x # o => result[x].parent \notin U)
  BY <1>3, <1>4, LineageLeaves
<1>6. PICK y \in U : Link(c, run, o, x, y)'
  OBVIOUS
<1>7. result' = result
  BY DEF Loads
<1> QED BY <1>5, <1>6, <1>7 DEF Link, Records, WillRecord

\* Every step.
LEMMA LineageStep == IInv /\ ResumeInv /\ LineageInv /\ [Next]_vars => LineageInv'
<1> SUFFICES ASSUME IInv, ResumeInv, LineageInv, [Next]_vars,
                    NEW c \in Candidate, NEW run \in Nat, NEW o \in Dir \cup {NoDir},
                    NEW U \in SUBSET Dir, U # {}
             PROVE  HasEnd(c, run, o, U)'
  BY DEF LineageInv
<1>1. ASSUME NEW b \in Batch, Loads(b) PROVE HasEnd(c, run, o, U)'
  BY <1>1, LoadKeepsEnds
<1>2. CASE \A b \in Batch : Resets(b) \/ Proceeds(b)
  <2>1. PICK d \in U : \A e \in U : ~Link(c, run, o, d, e)
    BY DEF LineageInv, HasEnd
  <2>2. \A e \in U : ~Link(c, run, o, d, e)'
    BY <1>2, <2>1, NoNewLink
  <2> QED BY <2>2 DEF HasEnd
<1> QED BY <1>1, <1>2, JobTrace

\* A walk that came back would be a set of directories without an end.
LEMMA NoCircle ==
    ASSUME IInv, LineageInv, NEW d \in Dir, NEW c \in Candidate,
           NEW target, target = result[d].cand[c], target.status = "SUCCEEDED",
           NEW in, result[d] # NoResult,
           NEW n \in 0..Cardinality(Dir),
           \A m \in 0..(n - 1) : /\ Agrees(Generation(d)[m], c, target, in)
                                  /\ Generation(d)[m] # target.origin,
           Seen(d, n)
    PROVE  FALSE
<1> DEFINE N == Cardinality(Dir)
           g == Generation(d)
<1>0. TypeOK /\ target.run \in Nat /\ target.origin \in Dir \cup {NoDir}
  BY DEF IInv, TypeOK, Result, Summary
<1>1. N \in Nat /\ IsWalk(g, result, d, N)
  BY DirAssumption, FS_CardinalityType, GenerationIsWalk
<1>2. PICK k \in 0..(n - 1) : g[k] = g[n]
  BY DEF Seen
<1>3. ASSUME NEW m \in 0..(n - 1)
      PROVE  /\ g[m] \in Dir /\ result[g[m]] # NoResult
             /\ Records(c, target.run, target.origin, g[m], result[g[m]].parent)
  <2>1. m \in 0..N /\ g[m] # NoDir
    BY <1>1 DEF Agrees
  <2>2. g[m] \in Dir
    BY <1>0, <2>1, GenerationType
  <2> QED BY <2>2 DEF Agrees, Records
<1> HIDE DEF g, N
<1> DEFINE U == {g[m] : m \in k..(n - 1)}
<1>4. U \in SUBSET Dir /\ U # {}
  <2>1. \A m \in k..(n - 1) : m \in 0..(n - 1)
    OBVIOUS
  <2>2. k \in k..(n - 1)
    OBVIOUS
  <2> QED BY <1>3, <2>1, <2>2
<1>5. PICK m \in k..(n - 1) : \A e \in U : ~Link(c, target.run, target.origin, g[m], e)
  <2>1. HasEnd(c, target.run, target.origin, U)
    BY <1>0, <1>4 DEF LineageInv
  <2> QED BY <2>1 DEF HasEnd
<1>6. m \in 0..(n - 1) /\ m + 1 \in 1..N /\ (m + 1) - 1 = m
  BY <1>1 DEF N
<1>7. g[m + 1] = result[g[m]].parent
  <2>1. \A i \in 1..N : g[i] = ParentIn(result, g[i - 1])
    BY <1>1, WalkSteps
  <2> QED BY <1>3, <1>6, <2>1, SentinelAssumption DEF ParentIn
<1>8. g[m + 1] \in U
  <2>1. m + 1 = n \/ m + 1 \in k..(n - 1)
    BY <1>6
  <2>2. k \in k..(n - 1)
    OBVIOUS
  <2> QED BY <1>2, <2>1, <2>2
<1> QED BY <1>3, <1>5, <1>6, <1>7, <1>8 DEF Link

\* Before the first invocation nothing is linked.
LEMMA LineageInit == Init => LineageInv
<1> SUFFICES ASSUME Init
             PROVE  \A c \in Candidate, run \in Nat, o \in Dir \cup {NoDir} :
                      \A U \in SUBSET Dir : U # {} => HasEnd(c, run, o, U)
  BY DEF LineageInv
<1> TAKE c \in Candidate, run \in Nat, o \in Dir \cup {NoDir}
<1> TAKE U \in SUBSET Dir
<1>1. ASSUME NEW d \in Dir, NEW e PROVE ~Link(c, run, o, d, e)
  BY DEF Init, Idle, Link, Records, WillRecord, PriorSuccess
<1>2. ASSUME U # {} PROVE HasEnd(c, run, o, U)
  <2>1. PICK d \in U : d \in Dir
    BY <1>2
  <2>2. \A e \in U : ~Link(c, run, o, d, e)
    BY <1>1, <2>1
  <2> QED BY <2>1, <2>2 DEF HasEnd
<1> QED BY <1>2

\* The guard of _resolve_successful_artifact_origin against cycles never fires, for batches
\* that resume one another in any order and directories removed and made anew any number of
\* times: a batch that is accepted closes no circle, for the walk that accepts it ends at the
\* owner, which ran the candidate itself.
THEOREM LineagesNeverCycle == Spec => []LineageNeverCycles
<1>1. Init => ResumeInv /\ LineageInv
  BY ResumeInit, LineageInit
<1>2. IInv /\ ResumeInv /\ LineageInv /\ [Next]_vars => ResumeInv' /\ LineageInv'
  BY ResumeStep, LineageStep
<1>3. IInv /\ LineageInv => LineageNeverCycles
  <2> SUFFICES ASSUME IInv, LineageInv, NEW d \in Dir, Delivered(d), NEW c \in Candidate,
                      NEW target, target = result[d].cand[c], target.status = "SUCCEEDED",
                      NEW n \in 0..Cardinality(Dir),
                      \A m \in 0..(n - 1) :
                        /\ Agrees(Generation(d)[m], c, target, result[d].input)
                        /\ Generation(d)[m] # target.origin,
                      Seen(d, n)
               PROVE  FALSE
    BY DEF LineageNeverCycles
  <2> QED BY NoCircle DEF Delivered
<1> QED BY <1>1, <1>2, <1>3, Inductive, PTL DEF Spec
=============================================================================
