--------------------------- MODULE Mempool_proofs ---------------------------
(* The pool's marks agree with its transactions, and its transactions with  *)
(* the chain, orphans are indexed exactly, and no transaction is lost, for  *)
(* any transactions and any tree of blocks.                                 *)
EXTENDS Mempool, FiniteSetTheorems, SequenceTheorems, WellFoundedInduction, TLAPS

-----------------------------------------------------------------------------
(* Folds.  A fold over a sequence is a recursive function on sets of        *)
(* positions, so its value is the last of a sequence of intermediate ones.  *)

\* A set with 0 that is closed under steps to n has n.
LEMMA StepTo ==
    ASSUME NEW n \in Nat, NEW S, 0 \in S, \A k \in 1..n : k - 1 \in S => k \in S
    PROVE  \A k \in 0..n : k \in S
<1> DEFINE T == {k \in 0..n : k \notin S}
<1> SUFFICES ASSUME T # {} PROVE FALSE
  OBVIOUS
<1>1. T \subseteq Nat
  OBVIOUS
<1>2. PICK x \in T : \A y \in T : ~(<<y, x>> \in OpToRel(<, Nat))
  <2> HIDE DEF T
  <2> QED
    BY <1>1, NatLessThanWellFounded, WFMin, Zenon
<1>3. \A y \in T : ~(y < x)
  <2> HIDE DEF T
  <2> QED
    BY <1>1, <1>2 DEF OpToRel
<1>4. x # 0 /\ x \in 0..n
  OBVIOUS
<1>5. x - 1 \in 0..n /\ x - 1 \notin T
  BY <1>3, <1>4
<1> QED
  BY <1>4, <1>5

LEMMA MaxIn ==
    ASSUME NEW n \in Nat, NEW s \in SUBSET (1..n), s # {}
    PROVE  Max(s) \in s /\ \A j \in s : j <= Max(s)
<1> DEFINE T == {n - j : j \in s}
<1>1. T \subseteq Nat /\ T # {}
  <2>1. \A j \in s : j \in Int /\ n - j \in Nat
    OBVIOUS
  <2> QED
    BY <2>1
<1>2. PICK x \in T : \A y \in T : ~(<<y, x>> \in OpToRel(<, Nat))
  <2> HIDE DEF T
  <2> QED
    BY <1>1, NatLessThanWellFounded, WFMin, Zenon
<1>3. \A y \in T : ~(y < x)
  <2> HIDE DEF T
  <2> QED
    BY <1>1, <1>2 DEF OpToRel
<1>4. PICK m \in s : x = n - m
  OBVIOUS
<1>5. \A j \in s : m >= j
  <2> SUFFICES ASSUME NEW j \in s PROVE m >= j
    OBVIOUS
  <2>1. ~(n - j < n - m)
    BY <1>3, <1>4
  <2> QED
    BY <2>1
<1>6. Max(s) \in s /\ \A j \in s : Max(s) >= j
  BY <1>5 DEF Max
<1> QED
  BY <1>6

\* The positions below the last
LEMMA MaxInit ==
    ASSUME NEW k \in Nat, k # 0
    PROVE  Max(1..k) = k /\ (1..k) \ {k} = 1..(k - 1)
<1>1. Max(1..k) \in 1..k /\ \A j \in 1..k : j <= Max(1..k)
  BY MaxIn, 1..k # {}
<1> QED
  BY <1>1

\* f folds G over n positions, as FoldLeft does.
FoldsOver(f, n, D, base, G) ==
    /\ f \in [SUBSET (1..n) -> D]
    /\ \A s \in SUBSET (1..n) : f[s] = IF s = {} THEN base ELSE G[<<f[s \ {Max(s)}], Max(s)>>]

\* The recursive function of a fold exists.
LEMMA FoldExists ==
    ASSUME NEW n \in Nat, NEW D, NEW base \in D, NEW G \in [D \X (1..n) -> D]
    PROVE  \E f : FoldsOver(f, n, D, base, G)
<1> DEFINE Good(k, f) == \A s \in SUBSET (1..k) : f[s] = IF s = {} THEN base ELSE G[<<f[s \ {Max(s)}], Max(s)>>]
           S == {k \in 0..n : \E f \in [SUBSET (1..k) -> D] : Good(k, f)}
<1>1. 0 \in S
  <2>1. SUBSET (1..0) = {{}}
    OBVIOUS
  <2>2. [s \in SUBSET (1..0) |-> base] \in [SUBSET (1..0) -> D]
    OBVIOUS
  <2>3. Good(0, [s \in SUBSET (1..0) |-> base])
    BY <2>1
  <2>4. 0 \in 0..n
    OBVIOUS
  <2> HIDE DEF Good
  <2> QED
    BY <2>2, <2>3, <2>4
<1>2. ASSUME NEW k \in 1..n, k - 1 \in S PROVE k \in S
  <2>1. PICK f \in [SUBSET (1..(k - 1)) -> D] : Good(k - 1, f)
    BY <1>2
  <2> DEFINE g == [s \in SUBSET (1..k) |-> IF k \in s THEN G[<<f[s \ {k}], k>>] ELSE f[s]]
  <2>2. ASSUME NEW s \in SUBSET (1..k)
        PROVE  /\ k \in s => s \ {k} \in SUBSET (1..(k - 1)) /\ Max(s) = k
               /\ k \notin s => s \in SUBSET (1..(k - 1))
    <3>1. s \ {k} \in SUBSET (1..(k - 1))
      OBVIOUS
    <3>2. k \in s => Max(s) = k
      <4> SUFFICES ASSUME k \in s PROVE Max(s) = k
        OBVIOUS
      <4>1. Max(s) \in s /\ \A j \in s : j <= Max(s)
        BY MaxIn, k \in Nat, s # {}
      <4>2. \A j \in s : j \in 1..k
        OBVIOUS
      <4>3. Max(s) \in 1..k /\ k <= Max(s)
        BY <4>1, <4>2
      <4> HIDE DEF g, Good, S
      <4> QED
        BY <4>3
    <3> QED
      BY <3>1, <3>2
  <2>3. g \in [SUBSET (1..k) -> D]
    BY <2>2
  <2>4. ASSUME NEW s \in SUBSET (1..k)
        PROVE  g[s] = IF s = {} THEN base ELSE G[<<g[s \ {Max(s)}], Max(s)>>]
    <3>1. CASE k \in s
      <4>1. Max(s) = k /\ s \ {k} \in SUBSET (1..k) /\ k \notin s \ {k} /\ s # {}
        BY <3>1, <2>2
      <4>2. g[s \ {k}] = f[s \ {k}]
        BY <4>1
      <4>3. g[s] = G[<<f[s \ {k}], k>>]
        BY <3>1
      <4> QED
        BY <4>1, <4>2, <4>3
    <3>2. CASE k \notin s
      <4>1. s \in SUBSET (1..(k - 1)) /\ g[s] = f[s]
        BY <3>2, <2>2
      <4>2. f[s] = IF s = {} THEN base ELSE G[<<f[s \ {Max(s)}], Max(s)>>]
        BY <4>1, <2>1
      <4>3. s \ {Max(s)} \in SUBSET (1..k) /\ k \notin s \ {Max(s)}
        BY <3>2
      <4>4. g[s \ {Max(s)}] = f[s \ {Max(s)}]
        BY <4>3
      <4> QED
        BY <4>1, <4>2, <4>4
    <3> QED
      BY <3>1, <3>2
  <2>5. Good(k, g)
    BY <2>4
  <2>6. k \in 0..n
    OBVIOUS
  <2> HIDE DEF g, Good
  <2> QED
    BY <2>3, <2>5, <2>6
<1>3. n \in S
  <2>1. \A k \in 1..n : k - 1 \in S => k \in S
    BY <1>2
  <2> HIDE DEF S
  <2>2. \A k \in 0..n : k \in S
    BY <1>1, <2>1, StepTo, Zenon
  <2> QED
    BY <2>2
<1> QED
  BY <1>3 DEF FoldsOver

\* The values of such a function on the initial positions, one after the other.
FoldsWithin(it, n, D, G) ==
    \A s \in SUBSET (1..n) : s # {} /\ it[s \ {Max(s)}] \in D => it[s] = G[<<it[s \ {Max(s)}], Max(s)>>]
StepsOf(it, n, D, G) ==
    /\ \A k \in 0..n : it[1..k] \in D
    /\ \A k \in 1..n : it[1..k] = G[<<it[1..(k - 1)], k>>]

LEMMA FoldSteps ==
    ASSUME NEW n \in Nat, NEW D, NEW it, NEW G \in [D \X (1..n) -> D], it[{}] \in D,
           FoldsWithin(it, n, D, G)
    PROVE  StepsOf(it, n, D, G)
<1> USE DEF FoldsWithin, StepsOf
<1> DEFINE S == {k \in 0..n : it[1..k] \in D}
<1>1. 0 \in S
  BY 1..0 = {}
<1>2. ASSUME NEW k \in 1..n, it[1..(k - 1)] \in D PROVE it[1..k] = G[<<it[1..(k - 1)], k>>] /\ it[1..k] \in D
  <2>1. 1..k \in SUBSET (1..n) /\ 1..k # {} /\ k \in Nat /\ k # 0
    OBVIOUS
  <2>2. Max(1..k) = k /\ (1..k) \ {Max(1..k)} = 1..(k - 1)
    BY <2>1, MaxInit
  <2>3. it[1..k] = G[<<it[1..(k - 1)], k>>]
    BY <2>1, <2>2, <1>2
  <2> QED
    BY <2>3, <1>2
<1>3. \A k \in 0..n : k \in S
  <2>1. \A k \in 1..n : k - 1 \in S => k \in S
    <3> SUFFICES ASSUME NEW k \in 1..n, k - 1 \in S PROVE k \in S
      OBVIOUS
    <3>1. it[1..(k - 1)] \in D /\ k \in 0..n
      OBVIOUS
    <3> QED
      BY <3>1, <1>2
  <2> HIDE DEF S
  <2> QED
    BY <1>1, <2>1, StepTo, Zenon
<1> QED
  BY <1>2, <1>3

-----------------------------------------------------------------------------
(* What the operations on pools return. *)

\* one turn of the loop over the inputs of t
ConflictStep(Q, t, o) == IF Q.next[o] \in {None, t} THEN Q ELSE remove(Q, Q.next[o])

\* one transaction that is added, or skipped
AddStep(Q, t, skip, marked) == IF t \in skip THEN Q ELSE addUnchecked(Q, t, t \in marked)

LEMMA InsVtx ==
    /\ \A t \in Txs : Ins[t] \in Seq(Outs) /\ Inputs(t) \subseteq Outs
    /\ \A b \in AllBlocks : Vtx[b] \in Seq(Txs) /\ Range(Vtx[b]) \subseteq Txs
    /\ None \notin Txs
PROOF BY MempoolAssumption DEF Inputs, Range

LEMMA PoolsKept ==
    ASSUME NEW P \in Pools
    PROVE  /\ \A gone : RemoveAll(P, gone) \in Pools
           /\ \A t : remove(P, t) \in Pools /\ removeAlone(P, t) \in Pools
           /\ \A t \in Txs : \A c : addUnchecked(P, t, c) \in Pools
           /\ \A t : \A o : ConflictStep(P, t, o) \in Pools
           /\ \A t \in Txs : \A skip, marked : AddStep(P, t, skip, marked) \in Pools
<1>1. \A gone : RemoveAll(P, gone) \in Pools
  BY DEF RemoveAll, Pools
<1>2. \A t \in Txs : \A c : addUnchecked(P, t, c) \in Pools
  BY DEF addUnchecked, Pools
<1> QED
  BY <1>1, <1>2 DEF remove, removeAlone, ConflictStep, AddStep

\* A finite set as a sequence
LEMMA SetSeq ==
    ASSUME NEW S, S \subseteq Txs
    PROVE  SetToSeq(S) \in Seq(S) /\ \A x \in S : \E i \in 1..Len(SetToSeq(S)) : SetToSeq(S)[i] = x
<1> DEFINE n == Cardinality(S)
           q == SetToSeq(S)
<1>1. IsFiniteSet(S) /\ n \in Nat /\ ExistsBijection(1..n, S)
  BY FS_Subset, FS_CardinalityType, MempoolAssumption
<1>2. \E f \in [1..n -> S] : IsInjective(f)
  BY <1>1, Zenon DEF ExistsBijection, Bijection, Injection
<1>3. q \in [1..n -> S] /\ IsInjective(q)
  <2> HIDE DEF n
  <2> QED
    BY <1>2, Zenon DEF SetToSeq, n
<1> HIDE DEF n, q
<1>4. q \in Seq(S) /\ Len(q) = n
  BY <1>1, <1>3, SeqDef
<1>5. IsFiniteSet(1..n) /\ Cardinality(1..n) = n
  BY <1>1, FS_Interval
<1>6. q \in Injection(1..n, S)
  BY <1>3, Zenon DEF Injection
<1>7. q \in Surjection(1..n, S)
  BY <1>1, <1>5, <1>6, FS_Injection DEF n
<1>8. \A x \in S : \E i \in 1..n : q[i] = x
  BY <1>7, Zenon DEF Surjection
<1> QED
  BY <1>4, <1>8 DEF q

\* The removals one by one, of a set of transactions
LEMMA EachUnrolled ==
    ASSUME NEW P \in Pools, NEW S, S \subseteq Txs
    PROVE  \E h \in [0..Len(SetToSeq(S)) -> Pools] :
             /\ h[0] = P /\ h[Len(SetToSeq(S))] = removeEach(P, S)
             /\ \A k \in 1..Len(SetToSeq(S)) : h[k] = remove(h[k - 1], SetToSeq(S)[k])
<1> DEFINE n == Len(SetToSeq(S))
           G == [x \in Pools \X (1..n) |-> remove(x[1], SetToSeq(S)[x[2]])]
           Rec(f) == [s \in SUBSET DOMAIN SetToSeq(S) |-> IF s = {} THEN P ELSE remove(f[s \ {Max(s)}], SetToSeq(S)[Max(s)])]
           it == CHOOSE f : f = Rec(f)
           h == [k \in 0..n |-> it[1..k]]
<1>1. n \in Nat /\ DOMAIN SetToSeq(S) = 1..n /\ \A i \in 1..n : SetToSeq(S)[i] \in Txs
  BY SetSeq
<1>2. G \in [Pools \X (1..n) -> Pools]
  BY <1>1, PoolsKept
<1>3. \A d \in Pools, i \in 1..n : G[<<d, i>>] = remove(d, SetToSeq(S)[i])
  OBVIOUS
<1>4. removeEach(P, S) = it[DOMAIN SetToSeq(S)]
  BY Zenon DEF removeEach, FoldLeft, MapThenFoldSet
<1>5. it = Rec(it)
  <2> HIDE DEF G, n
  <2>1. PICK f : FoldsOver(f, n, Pools, P, G)
    BY <1>1, <1>2, FoldExists
  <2>2. ASSUME NEW s \in SUBSET (1..n), s # {} PROVE f[s \ {Max(s)}] \in Pools /\ Max(s) \in 1..n
    BY <1>1, <2>1, <2>2, MaxIn DEF FoldsOver
  <2>3. f = Rec(f)
    BY <1>1, <1>3, <2>1, <2>2 DEF FoldsOver
  <2> HIDE DEF Rec
  <2> QED
    BY <2>3
<1>6. it[{}] = P /\ FoldsWithin(it, n, Pools, G)
  <2> HIDE DEF G, n, it
  <2>1. \A s \in SUBSET (1..n) : it[s] = IF s = {} THEN P ELSE remove(it[s \ {Max(s)}], SetToSeq(S)[Max(s)])
    BY <1>1, <1>5
  <2>2. \A s \in SUBSET (1..n) : s # {} => Max(s) \in 1..n
    BY <1>1, MaxIn
  <2> QED
    BY <1>3, <2>1, <2>2 DEF FoldsWithin
<1>7. StepsOf(it, n, Pools, G)
  <2> HIDE DEF G, n, it
  <2>1. it[{}] \in Pools
    BY <1>6
  <2> QED
    BY <1>1, <1>2, <1>6, <2>1, FoldSteps
<1>8. h \in [0..n -> Pools] /\ h[0] = P /\ h[n] = it[DOMAIN SetToSeq(S)]
  <2> HIDE DEF G, it
  <2> QED
    BY <1>1, <1>6, <1>7, 1..0 = {} DEF StepsOf
<1>9. \A k \in 1..n : h[k] = remove(h[k - 1], SetToSeq(S)[k])
  <2> HIDE DEF G, it
  <2> SUFFICES ASSUME NEW k \in 1..n PROVE h[k] = remove(h[k - 1], SetToSeq(S)[k])
    OBVIOUS
  <2>1. k \in 0..n /\ k - 1 \in 0..n
    BY <1>1
  <2>2. it[1..k] = remove(it[1..(k - 1)], SetToSeq(S)[k])
    BY <1>3, <1>7, <2>1 DEF StepsOf
  <2> QED
    BY <2>1, <2>2
<1> HIDE DEF h
<1> QED
  BY <1>4, <1>8, <1>9

\* of the additions
LEMMA AddsUnrolled ==
    ASSUME NEW P \in Pools, NEW q \in Seq(Txs), NEW skip, NEW marked
    PROVE  \E h \in [0..Len(q) -> Pools] :
             /\ h[0] = P /\ h[Len(q)] = AddEach(P, q, skip, marked)
             /\ \A k \in 1..Len(q) : h[k] = AddStep(h[k - 1], q[k], skip, marked)
<1> DEFINE n == Len(q)
           G == [x \in Pools \X (1..n) |-> AddStep(x[1], q[x[2]], skip, marked)]
           Rec(f) == [s \in SUBSET DOMAIN q |-> IF s = {} THEN P ELSE AddStep(f[s \ {Max(s)}], q[Max(s)], skip, marked)]
           it == CHOOSE f : f = Rec(f)
           h == [k \in 0..n |-> it[1..k]]
<1>1. n \in Nat /\ DOMAIN q = 1..n /\ \A i \in 1..n : q[i] \in Txs
  OBVIOUS
<1>2. G \in [Pools \X (1..n) -> Pools]
  BY <1>1, PoolsKept
<1>3. \A d \in Pools, i \in 1..n : G[<<d, i>>] = AddStep(d, q[i], skip, marked)
  OBVIOUS
<1>4. AddEach(P, q, skip, marked) = it[DOMAIN q]
  BY Zenon DEF AddEach, AddStep, FoldLeft, MapThenFoldSet
<1>5. it = Rec(it)
  <2> HIDE DEF G, n
  <2>1. PICK f : FoldsOver(f, n, Pools, P, G)
    BY <1>1, <1>2, FoldExists
  <2>2. ASSUME NEW s \in SUBSET (1..n), s # {} PROVE f[s \ {Max(s)}] \in Pools /\ Max(s) \in 1..n
    BY <1>1, <2>1, <2>2, MaxIn DEF FoldsOver
  <2>3. f = Rec(f)
    BY <1>1, <1>3, <2>1, <2>2 DEF FoldsOver
  <2> HIDE DEF Rec
  <2> QED
    BY <2>3
<1>6. it[{}] = P /\ FoldsWithin(it, n, Pools, G)
  <2> HIDE DEF G, n, it
  <2>1. \A s \in SUBSET (1..n) : it[s] = IF s = {} THEN P ELSE AddStep(it[s \ {Max(s)}], q[Max(s)], skip, marked)
    BY <1>1, <1>5
  <2>2. \A s \in SUBSET (1..n) : s # {} => Max(s) \in 1..n
    BY <1>1, MaxIn
  <2> QED
    BY <1>3, <2>1, <2>2 DEF FoldsWithin
<1>7. StepsOf(it, n, Pools, G)
  <2> HIDE DEF G, n, it
  <2>1. it[{}] \in Pools
    BY <1>6
  <2> QED
    BY <1>1, <1>2, <1>6, <2>1, FoldSteps
<1>8. h \in [0..n -> Pools] /\ h[0] = P /\ h[n] = it[DOMAIN q]
  <2> HIDE DEF G, it
  <2> QED
    BY <1>1, <1>6, <1>7, 1..0 = {} DEF StepsOf
<1>9. \A k \in 1..n : h[k] = AddStep(h[k - 1], q[k], skip, marked)
  <2> HIDE DEF G, it
  <2> SUFFICES ASSUME NEW k \in 1..n PROVE h[k] = AddStep(h[k - 1], q[k], skip, marked)
    OBVIOUS
  <2>1. k \in 0..n /\ k - 1 \in 0..n
    BY <1>1
  <2>2. it[1..k] = AddStep(it[1..(k - 1)], q[k], skip, marked)
    BY <1>3, <1>7, <2>1 DEF StepsOf
  <2> QED
    BY <2>1, <2>2
<1> HIDE DEF h
<1> QED
  BY <1>4, <1>8, <1>9

\* of the inputs of a transaction
LEMMA ConflictsUnrolled ==
    ASSUME NEW P \in Pools, NEW t \in Txs
    PROVE  \E h \in [0..Len(Ins[t]) -> Pools] :
             /\ h[0] = P /\ h[Len(Ins[t])] = removeConflicts(P, t)
             /\ \A k \in 1..Len(Ins[t]) : h[k] = ConflictStep(h[k - 1], t, Ins[t][k])
<1> DEFINE n == Len(Ins[t])
           G == [x \in Pools \X (1..n) |-> ConflictStep(x[1], t, Ins[t][x[2]])]
           Rec(f) == [s \in SUBSET DOMAIN Ins[t] |-> IF s = {} THEN P ELSE ConflictStep(f[s \ {Max(s)}], t, Ins[t][Max(s)])]
           it == CHOOSE f : f = Rec(f)
           h == [k \in 0..n |-> it[1..k]]
<1>1. n \in Nat /\ DOMAIN Ins[t] = 1..n /\ \A i \in 1..n : Ins[t][i] \in Outs
  BY InsVtx
<1>2. G \in [Pools \X (1..n) -> Pools]
  BY <1>1, PoolsKept
<1>3. \A d \in Pools, i \in 1..n : G[<<d, i>>] = ConflictStep(d, t, Ins[t][i])
  OBVIOUS
<1>4. removeConflicts(P, t) = it[DOMAIN Ins[t]]
  BY Zenon DEF removeConflicts, ConflictStep, FoldLeft, MapThenFoldSet
<1>5. it = Rec(it)
  <2> HIDE DEF G, n
  <2>1. PICK f : FoldsOver(f, n, Pools, P, G)
    BY <1>1, <1>2, FoldExists
  <2>2. ASSUME NEW s \in SUBSET (1..n), s # {} PROVE f[s \ {Max(s)}] \in Pools /\ Max(s) \in 1..n
    BY <1>1, <2>1, <2>2, MaxIn DEF FoldsOver
  <2>3. f = Rec(f)
    BY <1>1, <1>3, <2>1, <2>2 DEF FoldsOver
  <2> HIDE DEF Rec
  <2> QED
    BY <2>3
<1>6. it[{}] = P /\ FoldsWithin(it, n, Pools, G)
  <2> HIDE DEF G, n, it
  <2>1. \A s \in SUBSET (1..n) : it[s] = IF s = {} THEN P ELSE ConflictStep(it[s \ {Max(s)}], t, Ins[t][Max(s)])
    BY <1>1, <1>5
  <2>2. \A s \in SUBSET (1..n) : s # {} => Max(s) \in 1..n
    BY <1>1, MaxIn
  <2> QED
    BY <1>3, <2>1, <2>2 DEF FoldsWithin
<1>7. StepsOf(it, n, Pools, G)
  <2> HIDE DEF G, n, it
  <2>1. it[{}] \in Pools
    BY <1>6
  <2> QED
    BY <1>1, <1>2, <1>6, <2>1, FoldSteps
<1>8. h \in [0..n -> Pools] /\ h[0] = P /\ h[n] = it[DOMAIN Ins[t]]
  <2> HIDE DEF G, it
  <2> QED
    BY <1>1, <1>6, <1>7, 1..0 = {} DEF StepsOf
<1>9. \A k \in 1..n : h[k] = ConflictStep(h[k - 1], t, Ins[t][k])
  <2> HIDE DEF G, it
  <2> SUFFICES ASSUME NEW k \in 1..n PROVE h[k] = ConflictStep(h[k - 1], t, Ins[t][k])
    OBVIOUS
  <2>1. k \in 0..n /\ k - 1 \in 0..n
    BY <1>1
  <2>2. it[1..k] = ConflictStep(it[1..(k - 1)], t, Ins[t][k])
    BY <1>3, <1>7, <2>1 DEF StepsOf
  <2> QED
    BY <2>1, <2>2
<1> HIDE DEF h
<1> QED
  BY <1>4, <1>8, <1>9

\* one transaction of a block that joins the chain
BlockStep(Q, t) == removeConflicts(removeAlone(Q, t), t)

LEMMA ConflictsKept ==
    ASSUME NEW P \in Pools, NEW t \in Txs
    PROVE  removeConflicts(P, t) \in Pools /\ BlockStep(P, t) \in Pools
<1>1. \A Q \in Pools : removeConflicts(Q, t) \in Pools
  <2> SUFFICES ASSUME NEW Q \in Pools PROVE removeConflicts(Q, t) \in Pools
    OBVIOUS
  <2>1. PICK h \in [0..Len(Ins[t]) -> Pools] : h[Len(Ins[t])] = removeConflicts(Q, t)
    BY ConflictsUnrolled
  <2>2. Len(Ins[t]) \in 0..Len(Ins[t])
    BY InsVtx
  <2> QED
    BY <2>1, <2>2
<1> QED
  BY <1>1, PoolsKept DEF BlockStep

\* of the transactions of a block
LEMMA BlockUnrolled ==
    ASSUME NEW P \in Pools, NEW q \in Seq(Txs)
    PROVE  \E h \in [0..Len(q) -> Pools] :
             /\ h[0] = P /\ h[Len(q)] = removeForBlock(P, q)
             /\ \A k \in 1..Len(q) : h[k] = BlockStep(h[k - 1], q[k])
<1> DEFINE n == Len(q)
           G == [x \in Pools \X (1..n) |-> BlockStep(x[1], q[x[2]])]
           Rec(f) == [s \in SUBSET DOMAIN q |-> IF s = {} THEN P ELSE BlockStep(f[s \ {Max(s)}], q[Max(s)])]
           it == CHOOSE f : f = Rec(f)
           h == [k \in 0..n |-> it[1..k]]
<1>1. n \in Nat /\ DOMAIN q = 1..n /\ \A i \in 1..n : q[i] \in Txs
  OBVIOUS
<1>2. G \in [Pools \X (1..n) -> Pools]
  BY <1>1, ConflictsKept
<1>3. \A d \in Pools, i \in 1..n : G[<<d, i>>] = BlockStep(d, q[i])
  OBVIOUS
<1>4. removeForBlock(P, q) = it[DOMAIN q]
  BY Zenon DEF removeForBlock, BlockStep, FoldLeft, MapThenFoldSet
<1>5. it = Rec(it)
  <2> HIDE DEF G, n
  <2>1. PICK f : FoldsOver(f, n, Pools, P, G)
    BY <1>1, <1>2, FoldExists
  <2>2. ASSUME NEW s \in SUBSET (1..n), s # {} PROVE f[s \ {Max(s)}] \in Pools /\ Max(s) \in 1..n
    BY <1>1, <2>1, <2>2, MaxIn DEF FoldsOver
  <2>3. f = Rec(f)
    BY <1>1, <1>3, <2>1, <2>2 DEF FoldsOver
  <2> HIDE DEF Rec
  <2> QED
    BY <2>3
<1>6. it[{}] = P /\ FoldsWithin(it, n, Pools, G)
  <2> HIDE DEF G, n, it
  <2>1. \A s \in SUBSET (1..n) : it[s] = IF s = {} THEN P ELSE BlockStep(it[s \ {Max(s)}], q[Max(s)])
    BY <1>1, <1>5
  <2>2. \A s \in SUBSET (1..n) : s # {} => Max(s) \in 1..n
    BY <1>1, MaxIn
  <2> QED
    BY <1>3, <2>1, <2>2 DEF FoldsWithin
<1>7. StepsOf(it, n, Pools, G)
  <2> HIDE DEF G, n, it
  <2>1. it[{}] \in Pools
    BY <1>6
  <2> QED
    BY <1>1, <1>2, <1>6, <2>1, FoldSteps
<1>8. h \in [0..n -> Pools] /\ h[0] = P /\ h[n] = it[DOMAIN q]
  <2> HIDE DEF G, it
  <2> QED
    BY <1>1, <1>6, <1>7, 1..0 = {} DEF StepsOf
<1>9. \A k \in 1..n : h[k] = BlockStep(h[k - 1], q[k])
  <2> HIDE DEF G, it
  <2> SUFFICES ASSUME NEW k \in 1..n PROVE h[k] = BlockStep(h[k - 1], q[k])
    OBVIOUS
  <2>1. k \in 0..n /\ k - 1 \in 0..n
    BY <1>1
  <2>2. it[1..k] = BlockStep(it[1..(k - 1)], q[k])
    BY <1>3, <1>7, <2>1 DEF StepsOf
  <2> QED
    BY <2>1, <2>2
<1> HIDE DEF h
<1> QED
  BY <1>4, <1>8, <1>9

LEMMA ResurrectKept ==
    ASSUME NEW P \in Pools, NEW C, NEW t \in Txs
    PROVE  Resurrect(P, C, t) \in Pools /\ Accept(P, t) \in Pools
PROOF BY PoolsKept DEF Resurrect, Accept

\* of the transactions of a block that leaves the chain
LEMMA ResurrectUnrolled ==
    ASSUME NEW P \in Pools, NEW C \in SUBSET Outs, NEW q \in Seq(Txs)
    PROVE  \E h \in [0..Len(q) -> Pools] :
             /\ h[0] = P /\ h[Len(q)] = ResurrectEach(P, C, q)
             /\ \A k \in 1..Len(q) : h[k] = Resurrect(h[k - 1], C, q[k])
<1> DEFINE n == Len(q)
           G == [x \in Pools \X (1..n) |-> Resurrect(x[1], C, q[x[2]])]
           Rec(f) == [s \in SUBSET DOMAIN q |-> IF s = {} THEN P ELSE Resurrect(f[s \ {Max(s)}], C, q[Max(s)])]
           it == CHOOSE f : f = Rec(f)
           h == [k \in 0..n |-> it[1..k]]
<1>1. n \in Nat /\ DOMAIN q = 1..n /\ \A i \in 1..n : q[i] \in Txs
  OBVIOUS
<1>2. G \in [Pools \X (1..n) -> Pools]
  BY <1>1, ResurrectKept
<1>3. \A d \in Pools, i \in 1..n : G[<<d, i>>] = Resurrect(d, C, q[i])
  OBVIOUS
<1>4. ResurrectEach(P, C, q) = it[DOMAIN q]
  BY Zenon DEF ResurrectEach, FoldLeft, MapThenFoldSet
<1>5. it = Rec(it)
  <2> HIDE DEF G, n
  <2>1. PICK f : FoldsOver(f, n, Pools, P, G)
    BY <1>1, <1>2, FoldExists
  <2>2. ASSUME NEW s \in SUBSET (1..n), s # {} PROVE f[s \ {Max(s)}] \in Pools /\ Max(s) \in 1..n
    BY <1>1, <2>1, <2>2, MaxIn DEF FoldsOver
  <2>3. f = Rec(f)
    BY <1>1, <1>3, <2>1, <2>2 DEF FoldsOver
  <2> HIDE DEF Rec
  <2> QED
    BY <2>3
<1>6. it[{}] = P /\ FoldsWithin(it, n, Pools, G)
  <2> HIDE DEF G, n, it
  <2>1. \A s \in SUBSET (1..n) : it[s] = IF s = {} THEN P ELSE Resurrect(it[s \ {Max(s)}], C, q[Max(s)])
    BY <1>1, <1>5
  <2>2. \A s \in SUBSET (1..n) : s # {} => Max(s) \in 1..n
    BY <1>1, MaxIn
  <2> QED
    BY <1>3, <2>1, <2>2 DEF FoldsWithin
<1>7. StepsOf(it, n, Pools, G)
  <2> HIDE DEF G, n, it
  <2>1. it[{}] \in Pools
    BY <1>6
  <2> QED
    BY <1>1, <1>2, <1>6, <2>1, FoldSteps
<1>8. h \in [0..n -> Pools] /\ h[0] = P /\ h[n] = it[DOMAIN q]
  <2> HIDE DEF G, it
  <2> QED
    BY <1>1, <1>6, <1>7, 1..0 = {} DEF StepsOf
<1>9. \A k \in 1..n : h[k] = Resurrect(h[k - 1], C, q[k])
  <2> HIDE DEF G, it
  <2> SUFFICES ASSUME NEW k \in 1..n PROVE h[k] = Resurrect(h[k - 1], C, q[k])
    OBVIOUS
  <2>1. k \in 0..n /\ k - 1 \in 0..n
    BY <1>1
  <2>2. it[1..k] = Resurrect(it[1..(k - 1)], C, q[k])
    BY <1>3, <1>7, <2>1 DEF StepsOf
  <2> QED
    BY <2>1, <2>2
<1> HIDE DEF h
<1> QED
  BY <1>4, <1>8, <1>9

-----------------------------------------------------------------------------
(* The orphans that are freed. *)

Walks == [pool : Pools, erase : SUBSET Txs, rejects : SUBSET Txs, work : Seq(Txs)]

LEMMA Verdicts ==
    \A P, C, best, height, t : Verdict(P, C, best, height, t) \in {"no", "missing", "ok"}
PROOF BY DEF Verdict

LEMMA FreeKept ==
    ASSUME NEW w \in Walks, NEW o \in Txs
    PROVE  FreeOrphan(w, o) \in Walks
<1>1. Accept(w.pool, o) \in Pools
  BY ResurrectKept DEF Walks
<1>2. Append(w.work, o) \in Seq(Txs)
  BY DEF Walks
<1> HIDE DEF Walks
<1>3. CASE Verdict(w.pool, coins, tip, Height[tip], o) = "ok"
  <2>1. FreeOrphan(w, o) = [w EXCEPT !.pool = Accept(@, o), !.erase = @ \cup {o}, !.work = Append(@, o)]
    BY <1>3 DEF FreeOrphan
  <2> QED
    BY <1>1, <1>2, <2>1 DEF Walks
<1>4. CASE Verdict(w.pool, coins, tip, Height[tip], o) = "no"
  <2>1. FreeOrphan(w, o) = [w EXCEPT !.erase = @ \cup {o}, !.rejects = @ \cup {o}]
    BY <1>4 DEF FreeOrphan
  <2> QED
    BY <2>1 DEF Walks
<1>5. CASE Verdict(w.pool, coins, tip, Height[tip], o) = "missing"
  BY <1>5 DEF FreeOrphan
<1> QED
  BY <1>3, <1>4, <1>5, Verdicts

\* one by one, the orphans that wait for one transaction
LEMMA FreeUnrolled ==
    ASSUME NEW w \in Walks, NEW S, S \subseteq Txs
    PROVE  \E h \in [0..Len(SetToSeq(S)) -> Walks] :
             /\ h[0] = w /\ h[Len(SetToSeq(S))] = FreeEach(w, S)
             /\ \A k \in 1..Len(SetToSeq(S)) : h[k] = FreeOrphan(h[k - 1], SetToSeq(S)[k])
<1> DEFINE n == Len(SetToSeq(S))
           G == [x \in Walks \X (1..n) |-> FreeOrphan(x[1], SetToSeq(S)[x[2]])]
           Rec(f) == [s \in SUBSET DOMAIN SetToSeq(S) |-> IF s = {} THEN w ELSE FreeOrphan(f[s \ {Max(s)}], SetToSeq(S)[Max(s)])]
           it == CHOOSE f : f = Rec(f)
           h == [k \in 0..n |-> it[1..k]]
<1>1. n \in Nat /\ DOMAIN SetToSeq(S) = 1..n /\ \A i \in 1..n : SetToSeq(S)[i] \in Txs
  BY SetSeq
<1>2. G \in [Walks \X (1..n) -> Walks]
  BY <1>1, FreeKept
<1>3. \A d \in Walks, i \in 1..n : G[<<d, i>>] = FreeOrphan(d, SetToSeq(S)[i])
  OBVIOUS
<1>4. FreeEach(w, S) = it[DOMAIN SetToSeq(S)]
  BY Zenon DEF FreeEach, FoldLeft, MapThenFoldSet
<1>5. it = Rec(it)
  <2> HIDE DEF G, n
  <2>1. PICK f : FoldsOver(f, n, Walks, w, G)
    BY <1>1, <1>2, FoldExists
  <2>2. ASSUME NEW s \in SUBSET (1..n), s # {} PROVE f[s \ {Max(s)}] \in Walks /\ Max(s) \in 1..n
    BY <1>1, <2>1, <2>2, MaxIn DEF FoldsOver
  <2>3. f = Rec(f)
    BY <1>1, <1>3, <2>1, <2>2 DEF FoldsOver
  <2> HIDE DEF Rec
  <2> QED
    BY <2>3
<1>6. it[{}] = w /\ FoldsWithin(it, n, Walks, G)
  <2> HIDE DEF G, n, it
  <2>1. \A s \in SUBSET (1..n) : it[s] = IF s = {} THEN w ELSE FreeOrphan(it[s \ {Max(s)}], SetToSeq(S)[Max(s)])
    BY <1>1, <1>5
  <2>2. \A s \in SUBSET (1..n) : s # {} => Max(s) \in 1..n
    BY <1>1, MaxIn
  <2> QED
    BY <1>3, <2>1, <2>2 DEF FoldsWithin
<1>7. StepsOf(it, n, Walks, G)
  <2> HIDE DEF G, n, it
  <2>1. it[{}] \in Walks
    BY <1>6
  <2> QED
    BY <1>1, <1>2, <1>6, <2>1, FoldSteps
<1>8. h \in [0..n -> Walks] /\ h[0] = w /\ h[n] = it[DOMAIN SetToSeq(S)]
  <2> HIDE DEF G, it
  <2> QED
    BY <1>1, <1>6, <1>7, 1..0 = {} DEF StepsOf
<1>9. \A k \in 1..n : h[k] = FreeOrphan(h[k - 1], SetToSeq(S)[k])
  <2> HIDE DEF G, it
  <2> SUFFICES ASSUME NEW k \in 1..n PROVE h[k] = FreeOrphan(h[k - 1], SetToSeq(S)[k])
    OBVIOUS
  <2>1. k \in 0..n /\ k - 1 \in 0..n
    BY <1>1
  <2>2. it[1..k] = FreeOrphan(it[1..(k - 1)], SetToSeq(S)[k])
    BY <1>3, <1>7, <2>1 DEF StepsOf
  <2> QED
    BY <2>1, <2>2
<1> HIDE DEF h
<1> QED
  BY <1>4, <1>8, <1>9

LEMMA RoundKept ==
    ASSUME NEW w \in Walks, byPrev \in [Txs -> SUBSET Txs]
    PROVE  FreeRound(w) \in Walks
<1>1. CASE w.work = << >>
  BY <1>1 DEF FreeRound
<1>2. CASE w.work # << >>
  <2> DEFINE v == [w EXCEPT !.work = Tail(@)]
             S == byPrev[Head(w.work)]
  <2>1. w.work \in Seq(Txs) /\ Head(w.work) \in Txs /\ Tail(w.work) \in Seq(Txs)
    BY <1>2 DEF Walks
  <2>2. v \in Walks /\ S \subseteq Txs
    BY <2>1 DEF Walks
  <2>3. FreeRound(w) = FreeEach(v, S)
    BY <1>2 DEF FreeRound
  <2> HIDE DEF v, S
  <2>4. PICK h \in [0..Len(SetToSeq(S)) -> Walks] : h[Len(SetToSeq(S))] = FreeEach(v, S)
    BY <2>2, FreeUnrolled
  <2>5. Len(SetToSeq(S)) \in 0..Len(SetToSeq(S))
    BY <2>2, SetSeq
  <2> QED
    BY <2>3, <2>4, <2>5
<1> QED
  BY <1>1, <1>2

Rounds == [i \in 1..Cardinality(Txs) |-> i]

\* one by one, the rounds
LEMMA RoundsUnrolled ==
    ASSUME NEW w \in Walks, byPrev \in [Txs -> SUBSET Txs]
    PROVE  \E h \in [0..Len(Rounds) -> Walks] :
             /\ h[0] = w /\ h[Len(Rounds)] = FreeOrphans(w)
             /\ \A k \in 1..Len(Rounds) : h[k] = FreeRound(h[k - 1])
<1> DEFINE n == Len(Rounds)
           G == [x \in Walks \X (1..n) |-> FreeRound(x[1])]
           Rec(f) == [s \in SUBSET DOMAIN Rounds |-> IF s = {} THEN w ELSE FreeRound(f[s \ {Max(s)}])]
           it == CHOOSE f : f = Rec(f)
           h == [k \in 0..n |-> it[1..k]]
<1>1. n \in Nat /\ DOMAIN Rounds = 1..n /\ \A i \in 1..n : Rounds[i] \in Nat
  BY FS_CardinalityType, MempoolAssumption DEF Rounds
<1>2. G \in [Walks \X (1..n) -> Walks]
  BY <1>1, RoundKept
<1>3. \A d \in Walks, i \in 1..n : G[<<d, i>>] = FreeRound(d)
  OBVIOUS
<1>4. FreeOrphans(w) = it[DOMAIN Rounds]
  BY Zenon DEF FreeOrphans, Rounds, FoldLeft, MapThenFoldSet
<1>5. it = Rec(it)
  <2> HIDE DEF G, n
  <2>1. PICK f : FoldsOver(f, n, Walks, w, G)
    BY <1>1, <1>2, FoldExists
  <2>2. ASSUME NEW s \in SUBSET (1..n), s # {} PROVE f[s \ {Max(s)}] \in Walks /\ Max(s) \in 1..n
    BY <1>1, <2>1, <2>2, MaxIn DEF FoldsOver
  <2>3. f = Rec(f)
    BY <1>1, <1>3, <2>1, <2>2 DEF FoldsOver
  <2> HIDE DEF Rec
  <2> QED
    BY <2>3
<1>6. it[{}] = w /\ FoldsWithin(it, n, Walks, G)
  <2> HIDE DEF G, n, it
  <2>1. \A s \in SUBSET (1..n) : it[s] = IF s = {} THEN w ELSE FreeRound(it[s \ {Max(s)}])
    BY <1>1, <1>5
  <2>2. \A s \in SUBSET (1..n) : s # {} => Max(s) \in 1..n
    BY <1>1, MaxIn
  <2> QED
    BY <1>3, <2>1, <2>2 DEF FoldsWithin
<1>7. StepsOf(it, n, Walks, G)
  <2> HIDE DEF G, n, it
  <2>1. it[{}] \in Walks
    BY <1>6
  <2> QED
    BY <1>1, <1>2, <1>6, <2>1, FoldSteps
<1>8. h \in [0..n -> Walks] /\ h[0] = w /\ h[n] = it[DOMAIN Rounds]
  <2> HIDE DEF G, it
  <2> QED
    BY <1>1, <1>6, <1>7, 1..0 = {} DEF StepsOf
<1>9. \A k \in 1..n : h[k] = FreeRound(h[k - 1])
  <2> HIDE DEF G, it
  <2> SUFFICES ASSUME NEW k \in 1..n PROVE h[k] = FreeRound(h[k - 1])
    OBVIOUS
  <2>1. k \in 0..n /\ k - 1 \in 0..n
    BY <1>1
  <2>2. it[1..k] = FreeRound(it[1..(k - 1)])
    BY <1>3, <1>7, <2>1 DEF StepsOf
  <2> QED
    BY <2>1, <2>2
<1> HIDE DEF h
<1> QED
  BY <1>4, <1>8, <1>9

-----------------------------------------------------------------------------
(* What removal keeps. *)

\* Every mark is on an input of a transaction of the pool.
Marks(P) == \A o \in Outs : P.next[o] # None => P.next[o] \in P.txs /\ o \in Inputs(P.next[o])

\* Every input of a transaction of the pool is marked as spent by it.
Owns(P) == \A t \in P.txs : \A o \in Inputs(t) : P.next[o] = t

\* Every input is one of A, or made in the pool.
Avail(P, A) == \A t \in P.txs : \A o \in Inputs(t) : o \in A \/ Maker[o] \in P.txs

\* Q is what is left of P after removals.
Shrinks(P, Q) ==
    /\ Q \in Pools /\ Q.txs \subseteq P.txs
    /\ Marks(P) => Marks(Q)
    /\ Owns(P) => Owns(Q)
    /\ Owns(P) => \A A \in SUBSET Outs : Avail(P, A) => Avail(Q, A)

LEMMA PoolFields ==
    ASSUME NEW P \in Pools
    PROVE  P.txs \subseteq Txs /\ P.next \in [Outs -> Txs \cup {None}] /\ P.spendsCoinbase \subseteq Txs
PROOF BY DEF Pools

LEMMA RemoveAllFacts ==
    ASSUME NEW P \in Pools, NEW gone, gone \subseteq P.txs
    PROVE  /\ RemoveAll(P, gone).txs = P.txs \ gone
           /\ Marks(P) => Marks(RemoveAll(P, gone))
           /\ Owns(P) => Owns(RemoveAll(P, gone))
<1> DEFINE Q == RemoveAll(P, gone)
<1>1. /\ Q.txs = P.txs \ gone
      /\ \A o \in Outs : Q.next[o] = IF o \in Spent(gone) THEN None ELSE P.next[o]
  BY DEF RemoveAll
<1> HIDE DEF Q
<1>2. ASSUME Marks(P) PROVE Marks(Q)
  BY <1>1, <1>2 DEF Marks, Spent
<1>3. ASSUME Owns(P) PROVE Owns(Q)
  <2> SUFFICES ASSUME NEW t \in Q.txs, NEW o \in Inputs(t) PROVE Q.next[o] = t
    BY DEF Owns
  <2>1. t \in P.txs /\ t \notin gone /\ P.next[o] = t /\ o \in Outs
    BY <1>1, <1>3, InsVtx, PoolFields DEF Owns
  <2>2. o \notin Spent(gone)
    BY <2>1, <1>3 DEF Owns, Spent
  <2> QED
    BY <1>1, <2>1, <2>2
<1> QED
  BY <1>1, <1>2, <1>3 DEF Q

\* Descendants are closed under spending.
LEMMA Descendants ==
    ASSUME NEW P \in Pools, NEW s, s \subseteq P.txs
    PROVE  /\ s \subseteq WithDescendants(P, s) /\ WithDescendants(P, s) \subseteq P.txs
           /\ Children(P, WithDescendants(P, s)) \cap P.txs \subseteq WithDescendants(P, s)
<1> DEFINE D == WithDescendants(P, s)
           Closed(c) == s \subseteq c /\ Children(P, c) \cap P.txs \subseteq c
<1>1. \A t : t \in D <=> t \in P.txs /\ \A c \in SUBSET P.txs : Closed(c) => t \in c
  BY DEF WithDescendants
<1>2. s \subseteq D /\ D \subseteq P.txs
  BY <1>1
<1>3. ASSUME NEW t \in Children(P, D) \cap P.txs PROVE t \in D
  <2> HIDE DEF D
  <2> SUFFICES ASSUME NEW c \in SUBSET P.txs, Closed(c) PROVE t \in c
    BY <1>1
  <2>1. D \subseteq c
    BY <1>1
  <2>2. Children(P, D) \subseteq Children(P, c)
    BY <2>1 DEF Children, Made
  <2> QED
    BY <2>2, <1>3
<1> QED
  BY <1>2, <1>3

LEMMA RemoveShrinks ==
    ASSUME NEW P \in Pools, NEW t \in Txs
    PROVE  /\ Shrinks(P, remove(P, t)) /\ t \notin remove(P, t).txs
           /\ Owns(P) => \A u \in remove(P, t).txs : \A o \in Inputs(u) : Maker[o] # t
<1> DEFINE s == IF t \in P.txs THEN {t} ELSE Children(P, {t}) \cap P.txs
           D == WithDescendants(P, s)
           Q == remove(P, t)
<1>1. s \subseteq P.txs /\ P.txs \subseteq Txs
  BY PoolFields
<1>2. Q = RemoveAll(P, D) /\ Q \in Pools
  BY PoolsKept DEF remove
<1>3. s \subseteq D /\ D \subseteq P.txs /\ Children(P, D) \cap P.txs \subseteq D
  <2> HIDE DEF s
  <2> QED
    BY <1>1, Descendants
<1>4. t \in D \/ (t \notin P.txs /\ Children(P, {t}) \cap P.txs \subseteq D)
  BY <1>3
<1> HIDE DEF s, D, Q
<1>5. Q.txs = P.txs \ D /\ (Marks(P) => Marks(Q)) /\ (Owns(P) => Owns(Q))
  BY <1>2, <1>3, RemoveAllFacts
<1>6. ASSUME Owns(P), NEW u \in Q.txs, NEW o \in Inputs(u)
      PROVE  Maker[o] \notin D /\ Maker[o] # t
  <2>1. u \in P.txs /\ u \notin D /\ o \in Outs /\ P.next[o] = u /\ u # None
    BY <1>1, <1>5, <1>6, InsVtx DEF Owns
  <2>2. \A c : Maker[o] \in c => u \in Children(P, c)
    BY <2>1 DEF Children, Made
  <2>3. Maker[o] \notin D
    BY <2>1, <2>2, <1>3
  <2>4. Maker[o] = t => u \in Children(P, {t})
    BY <2>2
  <2> QED
    BY <2>1, <2>3, <2>4, <1>4
<1>7. ASSUME Owns(P), NEW A \in SUBSET Outs, Avail(P, A) PROVE Avail(Q, A)
  BY <1>5, <1>6, <1>7 DEF Avail
<1>8. Q.txs \subseteq P.txs /\ t \notin Q.txs
  BY <1>4, <1>5
<1> QED
  BY <1>2, <1>5, <1>6, <1>7, <1>8 DEF Shrinks, Q

LEMMA ShrinksMore ==
    ASSUME NEW P \in Pools
    PROVE  /\ Shrinks(P, P)
           /\ \A Q, R : Shrinks(P, Q) /\ Shrinks(Q, R) => Shrinks(P, R)
PROOF BY DEF Shrinks

\* A row of removals
LEMMA ShrinksChain ==
    ASSUME NEW n \in Nat, NEW h \in [0..n -> Pools], \A k \in 1..n : Shrinks(h[k - 1], h[k])
    PROVE  \A j \in 0..n : \A k \in j..n : Shrinks(h[j], h[k])
<1> SUFFICES ASSUME NEW j \in 0..n PROVE \A k \in j..n : Shrinks(h[j], h[k])
  OBVIOUS
<1> DEFINE S == {k \in 0..n : k >= j => Shrinks(h[j], h[k])}
<1>1. h[j] \in Pools /\ Shrinks(h[j], h[j])
  BY ShrinksMore
<1>2. 0 \in S
  BY <1>1
<1>3. ASSUME NEW k \in 1..n, k - 1 \in S PROVE k \in S
  <2> SUFFICES ASSUME k >= j PROVE Shrinks(h[j], h[k])
    OBVIOUS
  <2>1. CASE k = j
    BY <2>1, <1>1
  <2>2. CASE k # j
    <3>1. Shrinks(h[j], h[k - 1]) /\ Shrinks(h[k - 1], h[k])
      BY <2>2, <1>3
    <3> QED
      BY <3>1, <1>1, ShrinksMore
  <2> QED
    BY <2>1, <2>2
<1>4. \A k \in 1..n : k - 1 \in S => k \in S
  BY <1>3
<1>5. \A k \in 0..n : k \in S
  <2> HIDE DEF S
  <2> QED
    BY <1>2, <1>4, StepTo
<1> QED
  BY <1>5

\* removeEach takes all of a set away.
LEMMA EachShrinks ==
    ASSUME NEW P \in Pools, NEW S, S \subseteq Txs
    PROVE  Shrinks(P, removeEach(P, S)) /\ \A t \in S : t \notin removeEach(P, S).txs
<1> DEFINE q == SetToSeq(S)
           n == Len(q)
<1>1. q \in Seq(Txs) /\ n \in Nat /\ \A x \in S : \E i \in 1..n : q[i] = x
  <2>1. q \in Seq(S) /\ \A x \in S : \E i \in 1..n : q[i] = x
    BY SetSeq
  <2> HIDE DEF q
  <2> QED
    BY <2>1
<1> HIDE DEF q, n
<1>3. PICK h \in [0..n -> Pools] : /\ h[0] = P /\ h[n] = removeEach(P, S)
                                   /\ \A k \in 1..n : h[k] = remove(h[k - 1], q[k])
  BY EachUnrolled DEF n, q
<1>4. \A k \in 1..n : q[k] \in Txs /\ h[k - 1] \in Pools
  BY <1>1 DEF n
<1>5. \A k \in 1..n : Shrinks(h[k - 1], h[k]) /\ q[k] \notin h[k].txs
  BY <1>3, <1>4, RemoveShrinks
<1>6. \A j \in 0..n : \A k \in j..n : Shrinks(h[j], h[k])
  BY <1>1, <1>5, ShrinksChain
<1>7. Shrinks(P, removeEach(P, S))
  BY <1>1, <1>3, <1>6
<1>8. ASSUME NEW t \in S PROVE t \notin removeEach(P, S).txs
  <2>1. PICK i \in 1..n : q[i] = t
    BY <1>1
  <2>2. i \in 0..n /\ n \in i..n
    BY <1>1
  <2>3. Shrinks(h[i], h[n]) /\ t \notin h[i].txs
    BY <2>1, <2>2, <1>5, <1>6
  <2> QED
    BY <2>3, <1>3 DEF Shrinks
<1> QED
  BY <1>7, <1>8

LEMMA ConflictsShrinks ==
    ASSUME NEW P \in Pools, NEW t \in Txs
    PROVE  /\ Shrinks(P, removeConflicts(P, t))
           /\ Owns(P) /\ t \notin P.txs =>
                \A u \in removeConflicts(P, t).txs : Inputs(u) \cap Inputs(t) = {}
<1> DEFINE q == Ins[t]
           n == Len(q)
<1>1. q \in Seq(Outs) /\ n \in Nat /\ \A i \in 1..n : q[i] \in Outs
  BY InsVtx
<1>2. \A o \in Inputs(t) : \E i \in 1..n : q[i] = o
  BY <1>1 DEF Inputs, Range
<1> HIDE DEF q, n
<1>3. PICK h \in [0..n -> Pools] : /\ h[0] = P /\ h[n] = removeConflicts(P, t)
                                   /\ \A k \in 1..n : h[k] = ConflictStep(h[k - 1], t, q[k])
  BY ConflictsUnrolled DEF n, q
<1>4. \A k \in 1..n : q[k] \in Outs /\ k - 1 \in 0..n /\ h[k - 1] \in Pools
  BY <1>1
<1>5. ASSUME NEW k \in 1..n
      PROVE  /\ Shrinks(h[k - 1], h[k])
             /\ Owns(h[k - 1]) /\ t \notin h[k - 1].txs => \A u \in h[k].txs : q[k] \notin Inputs(u)
  <2> DEFINE Q == h[k - 1]
             o == q[k]
  <2>1. Q \in Pools /\ o \in Outs /\ h[k] = ConflictStep(Q, t, o)
    BY <1>3, <1>4
  <2> HIDE DEF Q, o
  <2>2. CASE Q.next[o] \in {None, t}
    <3>1. h[k] = Q /\ Shrinks(Q, Q)
      BY <2>1, <2>2, ShrinksMore DEF ConflictStep
    <3>2. ASSUME Owns(Q), t \notin Q.txs, NEW u \in Q.txs PROVE o \notin Inputs(u)
      BY <3>2, <2>1, <2>2, InsVtx, PoolFields DEF Owns
    <3> QED
      BY <3>1, <3>2 DEF Q, o
  <2>3. CASE Q.next[o] \notin {None, t}
    <3>1. Q.next[o] \in Txs /\ h[k] = remove(Q, Q.next[o])
      BY <2>1, <2>3, PoolFields DEF ConflictStep
    <3>2. Shrinks(Q, h[k]) /\ Q.next[o] \notin h[k].txs
      BY <2>1, <3>1, RemoveShrinks
    <3>3. ASSUME Owns(Q), NEW u \in h[k].txs PROVE o \notin Inputs(u)
      BY <3>2, <3>3 DEF Owns, Shrinks
    <3> QED
      BY <3>2, <3>3 DEF Q, o
  <2> QED
    BY <2>2, <2>3
<1>6. \A j \in 0..n : \A k \in j..n : Shrinks(h[j], h[k])
  BY <1>1, <1>5, ShrinksChain
<1>7. Shrinks(P, removeConflicts(P, t))
  BY <1>1, <1>3, <1>6
<1>8. ASSUME Owns(P), t \notin P.txs, NEW u \in removeConflicts(P, t).txs, NEW o \in Inputs(t)
      PROVE  o \notin Inputs(u)
  <2>1. PICK i \in 1..n : q[i] = o
    BY <1>2
  <2>2. i \in 0..n /\ n \in i..n /\ i - 1 \in 0..n /\ i - 1 \in 0..n /\ 0 \in 0..n
    BY <1>1
  <2>3. Shrinks(h[i], h[n]) /\ Shrinks(P, h[i - 1])
    BY <2>2, <1>3, <1>6
  <2>4. Owns(h[i - 1]) /\ t \notin h[i - 1].txs
    BY <2>3, <1>8 DEF Shrinks
  <2>5. u \in h[i].txs
    BY <2>3, <1>3, <1>8 DEF Shrinks
  <2> QED
    BY <2>1, <2>4, <2>5, <1>5
<1> QED
  BY <1>7, <1>8

\* One transaction of a block: it leaves the pool, and so do those that spend what it spends.
LEMMA BlockStepFacts ==
    ASSUME NEW P \in Pools, NEW t \in Txs
    PROVE  /\ BlockStep(P, t) \in Pools /\ BlockStep(P, t).txs \subseteq P.txs
           /\ t \notin BlockStep(P, t).txs
           /\ Marks(P) => Marks(BlockStep(P, t))
           /\ Owns(P) => /\ Owns(BlockStep(P, t))
                         /\ \A u \in BlockStep(P, t).txs : Inputs(u) \cap Inputs(t) = {}
                         /\ \A A \in SUBSET Outs : Avail(P, A) => Avail(BlockStep(P, t), A \cup Made({t}))
<1> DEFINE Q == removeAlone(P, t)
           R == removeConflicts(Q, t)
<1>1. Q \in Pools /\ R = BlockStep(P, t)
  BY PoolsKept DEF BlockStep
<1>2. Q.txs = P.txs \ {t} /\ (Marks(P) => Marks(Q)) /\ (Owns(P) => Owns(Q))
  <2>1. {t} \cap P.txs \subseteq P.txs
    OBVIOUS
  <2>2. /\ Q.txs = P.txs \ ({t} \cap P.txs)
        /\ (Marks(P) => Marks(Q)) /\ (Owns(P) => Owns(Q))
    BY <2>1, RemoveAllFacts DEF removeAlone
  <2> HIDE DEF Q
  <2> QED
    BY <2>2
<1> HIDE DEF Q, R
<1>3. /\ Shrinks(Q, R)
      /\ Owns(Q) => \A u \in R.txs : Inputs(u) \cap Inputs(t) = {}
  BY <1>1, <1>2, ConflictsShrinks DEF R
<1>4. ASSUME Owns(P), NEW A \in SUBSET Outs, Avail(P, A) PROVE Avail(R, A \cup Made({t}))
  <2>1. Avail(Q, A \cup Made({t}))
    BY <1>2, <1>4, InsVtx, PoolFields DEF Avail, Made
  <2>2. A \cup Made({t}) \in SUBSET Outs
    BY DEF Made
  <2> QED
    BY <1>2, <1>3, <1>4, <2>1, <2>2 DEF Shrinks
<1>5. R \in Pools /\ R.txs \subseteq Q.txs /\ (Marks(Q) => Marks(R)) /\ (Owns(Q) => Owns(R))
  BY <1>3 DEF Shrinks
<1> QED
  BY <1>1, <1>2, <1>3, <1>4, <1>5

\* The first k elements
First(q, k) == {q[i] : i \in 1..k}

\* A block that joins the chain: what stays spends nothing that the block spends, and
\* has what it spends from the block.
LEMMA BlockFacts ==
    ASSUME NEW P \in Pools, NEW q \in Seq(Txs)
    PROVE  /\ removeForBlock(P, q) \in Pools /\ removeForBlock(P, q).txs \subseteq P.txs
           /\ Marks(P) => Marks(removeForBlock(P, q))
           /\ Owns(P) =>
                /\ Owns(removeForBlock(P, q))
                /\ \A u \in removeForBlock(P, q).txs : Inputs(u) \cap Spent(Range(q)) = {}
                /\ \A A \in SUBSET Outs : Avail(P, A) => Avail(removeForBlock(P, q), A \cup Made(Range(q)))
<1> DEFINE n == Len(q)
<1>1. n \in Nat /\ \A k \in 1..n : q[k] \in Txs
  OBVIOUS
<1>2. PICK h \in [0..n -> Pools] : /\ h[0] = P /\ h[n] = removeForBlock(P, q)
                                   /\ \A k \in 1..n : h[k] = BlockStep(h[k - 1], q[k])
  BY BlockUnrolled
<1> HIDE DEF n
<1> DEFINE Done(k) == /\ h[k].txs \subseteq P.txs
                      /\ Marks(P) => Marks(h[k])
                      /\ Owns(P) => /\ Owns(h[k])
                                    /\ \A u \in h[k].txs : \A t \in First(q, k) : Inputs(u) \cap Inputs(t) = {}
                                    /\ \A A \in SUBSET Outs : Avail(P, A) => Avail(h[k], A \cup Made(First(q, k)))
           S == {k \in 0..n : Done(k)}
<1>3. 0 \in S
  <2>1. First(q, 0) = {} /\ Made({}) = {}
    BY DEF First, Made
  <2>2. \A A : A \cup Made(First(q, 0)) = A
    BY <2>1
  <2>3. Done(0)
    BY <1>2, <2>1, <2>2
  <2> HIDE DEF Done
  <2> QED
    BY <1>1, <2>3
<1>4. ASSUME NEW k \in 1..n, k - 1 \in S PROVE k \in S
  <2> DEFINE t == q[k]
             Q == h[k - 1]
             R == h[k]
  <2>1. Q \in Pools /\ t \in Txs /\ R = BlockStep(Q, t)
    BY <1>1, <1>2
  <2>2. First(q, k) = First(q, k - 1) \cup {t}
    BY DEF First
  <2>3. Done(k - 1)
    BY <1>4
  <2> HIDE DEF t, Q, R
  <2>4. R.txs \subseteq P.txs /\ (Marks(P) => Marks(R)) /\ (Owns(P) => Owns(R))
    BY <2>1, <2>3, BlockStepFacts DEF Q
  <2>5. ASSUME Owns(P), NEW u \in R.txs, NEW v \in First(q, k) PROVE Inputs(u) \cap Inputs(v) = {}
    BY <2>1, <2>2, <2>3, <2>5, BlockStepFacts DEF Q
  <2>6. ASSUME Owns(P), NEW A \in SUBSET Outs, Avail(P, A) PROVE Avail(R, A \cup Made(First(q, k)))
    <3> DEFINE B == A \cup Made(First(q, k - 1))
    <3>1. B \in SUBSET Outs /\ Avail(Q, B) /\ Owns(Q)
      BY <2>3, <2>6 DEF Made, Q
    <3>2. Avail(R, B \cup Made({t}))
      BY <2>1, <3>1, BlockStepFacts
    <3>3. B \cup Made({t}) = A \cup Made(First(q, k))
      BY <2>2 DEF Made
    <3> QED
      BY <3>2, <3>3
  <2>7. Done(k)
    BY <2>4, <2>5, <2>6 DEF R
  <2> QED
    BY <2>7
<1>5. \A k \in 1..n : k - 1 \in S => k \in S
  BY <1>4
<1>6. n \in S
  <2> HIDE DEF S
  <2>1. \A k \in 0..n : k \in S
    BY <1>1, <1>3, <1>5, StepTo
  <2> QED
    BY <1>1, <2>1
<1>7. Done(n)
  BY <1>6
<1>8. First(q, n) = Range(q)
  BY DEF First, Range, n
<1>9. h[n] \in Pools
  BY <1>1
<1>10. (\A u \in h[n].txs : \A t \in Range(q) : Inputs(u) \cap Inputs(t) = {})
         => \A u \in h[n].txs : Inputs(u) \cap Spent(Range(q)) = {}
  BY DEF Spent
<1> QED
  BY <1>2, <1>7, <1>8, <1>9, <1>10

-----------------------------------------------------------------------------
(* The coins and the chain. *)

\* What is mined up to b
Mined(b) == UNION {Range(Vtx[c]) : c \in Chain[b] \cup {Genesis}}

\* What a block that was connected keeps: nothing in it was mined or spent before, and
\* each of its transactions spends mature outputs that the chain, or those before it, made.
SoundBlock(c) ==
    /\ c \notin FailsCheck \cup FailsConnect
    /\ Range(Vtx[c]) \cap Mined(Parent[c]) = {}
    /\ Spent(Range(Vtx[c])) \cap Spent(Mined(Parent[c])) = {}
    /\ \A o \in Spent(Mined(c)) : Maker[o] \in Mined(c) \cup {None}
    /\ \A i \in 1..Len(Vtx[c]) :
          /\ ~Immature(Vtx[c][i], Height[c])
          /\ \A o \in Inputs(Vtx[c][i]) : Maker[o] \in Mined(Parent[c]) \cup First(Vtx[c], i - 1) \cup {None}
          /\ \A j \in 1..(i - 1) : Vtx[c][j] # Vtx[c][i] /\ Inputs(Vtx[c][j]) \cap Inputs(Vtx[c][i]) = {}

\* The coins are what the chain made and did not spend.
ChainSound ==
    /\ \A c \in Chain[tip] : SoundBlock(c)
    /\ coins \cap Spent(Mined(tip)) = {}
    /\ \A o \in coins : Maker[o] \in Mined(tip) \cup {None}

LEMMA MinedFacts ==
    /\ \A b \in Blocks : Mined(b) = Range(Vtx[b]) \cup Mined(Parent[b])
    /\ Mined(Genesis) = Range(Vtx[Genesis]) /\ Spent(Mined(Genesis)) = {}
    /\ \A b \in Blocks : b \in Chain[b] /\ Chain[Parent[b]] \subseteq Chain[b]
<1>1. \A b \in Blocks : Chain[b] = {b} \cup Chain[Parent[b]]
  BY MempoolAssumption
<1>2. Chain[Genesis] = {}
  BY MempoolAssumption
<1>3. \A t \in Range(Vtx[Genesis]) : Inputs(t) = {}
  <2> SUFFICES ASSUME NEW t \in Range(Vtx[Genesis]) PROVE Inputs(t) = {}
    OBVIOUS
  <2>1. Ins[t] = << >>
    BY ConsensusAssumption
  <2> QED
    BY <2>1 DEF Inputs, Range
<1>4. \A b \in Blocks : Mined(b) = Range(Vtx[b]) \cup Mined(Parent[b])
  BY <1>1 DEF Mined
<1>5. Mined(Genesis) = Range(Vtx[Genesis])
  BY <1>2 DEF Mined
<1> QED
  BY <1>1, <1>3, <1>4, <1>5 DEF Spent

\* What is spent on the chain was made on it.
LEMMA Traced ==
    ASSUME ChainSound, tip \in AllBlocks
    PROVE  \A o \in Spent(Mined(tip)) : Maker[o] \in Mined(tip) \cup {None}
<1>1. CASE tip = Genesis
  BY <1>1, MinedFacts
<1>2. CASE tip \in Blocks
  BY <1>2, MinedFacts DEF ChainSound, SoundBlock
<1> QED
  BY <1>1, <1>2 DEF AllBlocks

\* A transaction without inputs is not accepted.
LEMMA AcceptedSpends ==
    ASSUME NEW P, NEW C, NEW best, NEW height, NEW t \in Txs, Verdict(P, C, best, height, t) = "ok"
    PROVE  Inputs(t) # {}
<1>1. t \notin Coinbases \cup NonStandard
  BY DEF Verdict, Refused
<1>2. Ins[t] # << >> /\ Ins[t] \in Seq(Outs)
  BY <1>1, ConsensusAssumption, InsVtx
<1>3. Ins[t][1] \in Inputs(t)
  BY <1>2 DEF Inputs, Range
<1> QED
  BY <1>3

\* What is mined is not accepted again.
LEMMA AcceptedUnmined ==
    ASSUME ChainSound, tip \in AllBlocks, coins \in SUBSET Outs, NEW P \in Pools, P.txs \cap Mined(tip) = {},
           NEW t \in Txs, Verdict(P, coins, tip, Height[tip], t) = "ok"
    PROVE  t \notin Mined(tip)
<1>1. PICK o \in Inputs(t) : TRUE
  BY AcceptedSpends
<1>2. o \in coins \/ Maker[o] \in P.txs
  BY DEF Verdict, Invalid
<1>3. P.txs \subseteq Txs /\ None \notin Txs
  BY PoolFields, InsVtx
<1> SUFFICES ASSUME t \in Mined(tip) PROVE FALSE
  OBVIOUS
<1>4. o \in Spent(Mined(tip))
  BY <1>1 DEF Spent
<1>5. o \notin coins /\ Maker[o] \in Mined(tip) \cup {None}
  BY <1>4, Traced DEF ChainSound
<1> QED
  BY <1>2, <1>3, <1>5

-----------------------------------------------------------------------------
(* What acceptance keeps. *)

\* What is in Q and was not in P fits a tip best as AcceptToMemoryPool demands, where
\* chainActive has the height given.
Fresh(P, Q, best, height) ==
    \A u \in Q.txs \ P.txs : /\ Anchor[u] \in Roots(best) \cup {None}
                             /\ Earliest[u] <= height + 1 /\ height + 1 <= Latest[u]

LEMMA AddFacts ==
    ASSUME NEW P \in Pools, NEW t \in Txs, NEW c
    PROVE  /\ addUnchecked(P, t, c).txs = P.txs \cup {t}
           /\ Marks(P) => Marks(addUnchecked(P, t, c))
           /\ Owns(P) /\ (\A o \in Inputs(t) : P.next[o] = None) => Owns(addUnchecked(P, t, c))
<1> DEFINE Q == addUnchecked(P, t, c)
<1>1. /\ Q.txs = P.txs \cup {t}
      /\ \A o \in Outs : Q.next[o] = IF o \in Inputs(t) THEN t ELSE P.next[o]
  BY DEF addUnchecked
<1> HIDE DEF Q
<1>2. ASSUME Marks(P) PROVE Marks(Q)
  BY <1>1, <1>2 DEF Marks
<1>3. ASSUME Owns(P), \A o \in Inputs(t) : P.next[o] = None PROVE Owns(Q)
  <2> SUFFICES ASSUME NEW u \in Q.txs, NEW o \in Inputs(u) PROVE Q.next[o] = u
    BY DEF Owns
  <2>1. u \in Txs /\ o \in Outs /\ u # None
    BY <1>1, InsVtx, PoolFields
  <2>2. CASE u = t
    BY <1>1, <2>1, <2>2
  <2>3. CASE u # t
    <3>1. u \in P.txs /\ P.next[o] = u
      BY <1>1, <1>3, <2>3 DEF Owns
    <3>2. o \notin Inputs(t)
      BY <3>1, <2>1, <1>3
    <3> QED
      BY <1>1, <2>1, <3>1, <3>2
  <2> QED
    BY <2>2, <2>3
<1> QED
  BY <1>1, <1>2, <1>3 DEF Q

LEMMA AddEachFacts ==
    ASSUME NEW P \in Pools, NEW q \in Seq(Txs), NEW skip, NEW marked
    PROVE  AddEach(P, q, skip, marked) \in Pools /\ (Marks(P) => Marks(AddEach(P, q, skip, marked)))
<1> DEFINE n == Len(q)
<1>1. n \in Nat /\ \A k \in 1..n : q[k] \in Txs
  OBVIOUS
<1>2. PICK h \in [0..n -> Pools] : /\ h[0] = P /\ h[n] = AddEach(P, q, skip, marked)
                                   /\ \A k \in 1..n : h[k] = AddStep(h[k - 1], q[k], skip, marked)
  BY AddsUnrolled
<1> HIDE DEF n
<1> DEFINE S == {k \in 0..n : Marks(P) => Marks(h[k])}
<1>3. 0 \in S
  BY <1>1, <1>2
<1>4. ASSUME NEW k \in 1..n, k - 1 \in S PROVE k \in S
  <2>1. h[k - 1] \in Pools /\ q[k] \in Txs /\ (Marks(P) => Marks(h[k - 1])) /\ k \in 0..n
    BY <1>1, <1>4
  <2>2. Marks(h[k - 1]) => Marks(h[k])
    BY <1>2, <2>1, AddFacts DEF AddStep
  <2> QED
    BY <2>1, <2>2
<1>5. \A k \in 1..n : k - 1 \in S => k \in S
  BY <1>4
<1>6. \A k \in 0..n : k \in S
  <2> HIDE DEF S
  <2> QED
    BY <1>1, <1>3, <1>5, StepTo
<1>7. n \in 0..n /\ n \in S
  BY <1>1, <1>6
<1> QED
  BY <1>2, <1>7

LEMMA AcceptFacts ==
    ASSUME NEW P \in Pools, NEW C \in SUBSET Outs, NEW best \in AllBlocks, NEW height \in Nat, NEW t \in Txs,
           Verdict(P, C, best, height, t) = "ok"
    PROVE  /\ Accept(P, t) \in Pools /\ Accept(P, t).txs = P.txs \cup {t}
           /\ Marks(P) => Marks(Accept(P, t))
           /\ Owns(P) => Owns(Accept(P, t))
           /\ Fresh(P, Accept(P, t), best, height)
           /\ \A o \in Inputs(t) : o \in C \/ Maker[o] \in P.txs
<1>1. ~Refused(P, C, height, t) /\ ~Invalid(P, C, best, t)
  BY DEF Verdict
<1>2. Earliest[t] \in Nat /\ Latest[t] \in Nat
  BY MempoolAssumption
<1>3. Earliest[t] <= height + 1 /\ height + 1 <= Latest[t] /\ \A o \in Inputs(t) : P.next[o] = None
  BY <1>1, <1>2 DEF Refused
<1>4. Anchor[t] \in Roots(best) \cup {None} /\ \A o \in Inputs(t) : o \in C \/ Maker[o] \in P.txs
  BY <1>1 DEF Invalid
<1>5. /\ Accept(P, t) \in Pools /\ Accept(P, t).txs = P.txs \cup {t}
      /\ Marks(P) => Marks(Accept(P, t))
      /\ Owns(P) => Owns(Accept(P, t))
  BY <1>3, PoolsKept, AddFacts DEF Accept
<1>6. Fresh(P, Accept(P, t), best, height)
  BY <1>3, <1>4, <1>5 DEF Fresh
<1> QED
  BY <1>4, <1>5, <1>6

\* From the k-th element on
After(q, k) == {q[i] : i \in (k + 1)..Len(q)}

\* A block that leaves the chain: what spends its outputs goes, or they are in the pool.
LEMMA ResurrectFacts ==
    ASSUME NEW P \in Pools, NEW C \in SUBSET Outs, NEW q \in Seq(Txs), tip \in Blocks
    PROVE  /\ ResurrectEach(P, C, q) \in Pools
           /\ Marks(P) => Marks(ResurrectEach(P, C, q))
           /\ Owns(P) => Owns(ResurrectEach(P, C, q))
           /\ Fresh(P, ResurrectEach(P, C, q), Parent[tip], Height[tip])
           /\ Owns(P) /\ Avail(P, C \cup Made(Range(q))) => Avail(ResurrectEach(P, C, q), C)
<1> DEFINE n == Len(q)
           best == Parent[tip]
           height == Height[tip]
<1>1. n \in Nat /\ height \in Nat /\ best \in AllBlocks /\ \A k \in 1..n : q[k] \in Txs
  BY MempoolAssumption DEF AllBlocks
<1>2. PICK h \in [0..n -> Pools] : /\ h[0] = P /\ h[n] = ResurrectEach(P, C, q)
                                   /\ \A k \in 1..n : h[k] = Resurrect(h[k - 1], C, q[k])
  BY ResurrectUnrolled
<1>3. \A Q, t : Resurrect(Q, C, t) = IF Verdict(Q, C, best, height, t) = "ok" THEN Accept(Q, t) ELSE remove(Q, t)
  BY DEF Resurrect
<1>4. /\ After(q, 0) = Range(q) /\ After(q, n) = {} /\ \A k : Made(After(q, k)) \in SUBSET Outs
      /\ \A k \in 1..n : After(q, k - 1) = After(q, k) \cup {q[k]}
  BY <1>1 DEF After, Range, Made
<1> HIDE DEF n, best, height
<1> DEFINE Done(k) == /\ Marks(P) => Marks(h[k])
                      /\ Owns(P) => Owns(h[k])
                      /\ Fresh(P, h[k], best, height)
                      /\ Owns(P) /\ Avail(P, C \cup Made(Range(q))) => Avail(h[k], C \cup Made(After(q, k)))
           S == {k \in 0..n : Done(k)}
<1>5. 0 \in S
  <2>1. Done(0)
    BY <1>2, <1>4 DEF Fresh
  <2> HIDE DEF Done
  <2> QED
    BY <1>1, <2>1
<1>6. ASSUME NEW k \in 1..n, k - 1 \in S PROVE k \in S
  <2> DEFINE t == q[k]
             Q == h[k - 1]
             R == h[k]
             A == C \cup Made(After(q, k - 1))
             B == C \cup Made(After(q, k))
  <2>1. Q \in Pools /\ t \in Txs /\ R = Resurrect(Q, C, t) /\ A \in SUBSET Outs
    BY <1>1, <1>2, <1>4
  <2>2. \A o \in A : o \in B \/ Maker[o] = t
    BY <1>4 DEF Made
  <2>3. /\ Marks(P) => Marks(Q)
        /\ Owns(P) => Owns(Q)
        /\ Fresh(P, Q, best, height)
        /\ Owns(P) /\ Avail(P, C \cup Made(Range(q))) => Avail(Q, A)
    BY <1>6
  <2>4. C \subseteq B
    OBVIOUS
  <2>5. SUFFICES /\ Marks(Q) => Marks(R)
                 /\ Owns(Q) => Owns(R)
                 /\ Fresh(Q, R, best, height)
                 /\ Owns(Q) /\ Avail(Q, A) => Avail(R, B)
    <3>1. Fresh(P, Q, best, height) /\ Fresh(Q, R, best, height) => Fresh(P, R, best, height)
      BY DEF Fresh
    <3>2. Done(k)
      BY <2>3, <2>5, <3>1
    <3> HIDE DEF Done
    <3> QED
      BY <3>2
  <2> HIDE DEF t, Q, R, A, B
  <2>6. CASE Verdict(Q, C, best, height, t) = "ok"
    <3>1. R = Accept(Q, t)
      BY <1>3, <2>1, <2>6
    <3>2. /\ R.txs = Q.txs \cup {t}
          /\ Marks(Q) => Marks(R)
          /\ Owns(Q) => Owns(R)
          /\ Fresh(Q, R, best, height)
          /\ \A o \in Inputs(t) : o \in C \/ Maker[o] \in Q.txs
      BY <1>1, <2>1, <2>6, <3>1, AcceptFacts
    <3>3. ASSUME Avail(Q, A) PROVE Avail(R, B)
      BY <2>2, <2>4, <3>2, <3>3 DEF Avail
    <3> QED
      BY <3>2, <3>3
  <2>7. CASE Verdict(Q, C, best, height, t) # "ok"
    <3>1. R = remove(Q, t)
      BY <1>3, <2>1, <2>7
    <3>2. /\ Shrinks(Q, R)
          /\ Owns(Q) => \A u \in R.txs : \A o \in Inputs(u) : Maker[o] # t
      BY <2>1, <3>1, RemoveShrinks
    <3>3. ASSUME Owns(Q), Avail(Q, A) PROVE Avail(R, B)
      <4>1. Avail(R, A)
        BY <2>1, <3>2, <3>3 DEF Shrinks
      <4> QED
        BY <2>2, <3>2, <3>3, <4>1 DEF Avail
    <3> QED
      BY <3>2, <3>3 DEF Shrinks, Fresh
  <2> QED
    BY <2>6, <2>7
<1>7. \A k \in 1..n : k - 1 \in S => k \in S
  BY <1>6
<1>8. n \in S
  <2> HIDE DEF S
  <2>1. \A k \in 0..n : k \in S
    BY <1>1, <1>5, <1>7, StepTo
  <2> QED
    BY <1>1, <2>1
<1>9. Done(n)
  BY <1>8
<1>10. h[n] \in Pools /\ C \cup Made(After(q, n)) = C
  BY <1>1, <1>4 DEF Made
<1> QED
  BY <1>2, <1>9, <1>10 DEF best, height

\* Q is what becomes of P while the chain is at rest.
Grows(P, Q) ==
    /\ Q \in Pools
    /\ Marks(P) => Marks(Q)
    /\ Owns(P) => Owns(Q)
    /\ Fresh(P, Q, tip, Height[tip])
    /\ Avail(P, coins) => Avail(Q, coins)
    /\ P.txs \subseteq Q.txs
    /\ ChainSound /\ P.txs \cap Mined(tip) = {} => Q.txs \cap Mined(tip) = {}

LEMMA GrowsMore ==
    ASSUME NEW P \in Pools
    PROVE  /\ Grows(P, P)
           /\ \A Q, R : Grows(P, Q) /\ Grows(Q, R) => Grows(P, R)
PROOF BY DEF Grows, Fresh

LEMMA AcceptGrows ==
    ASSUME coins \in SUBSET Outs, tip \in AllBlocks, NEW P \in Pools, NEW t \in Txs,
           Verdict(P, coins, tip, Height[tip], t) = "ok"
    PROVE  Grows(P, Accept(P, t))
<1>1. Height[tip] \in Nat
  BY MempoolAssumption
<1>2. /\ Accept(P, t) \in Pools /\ Accept(P, t).txs = P.txs \cup {t}
      /\ Marks(P) => Marks(Accept(P, t))
      /\ Owns(P) => Owns(Accept(P, t))
      /\ Fresh(P, Accept(P, t), tip, Height[tip])
      /\ \A o \in Inputs(t) : o \in coins \/ Maker[o] \in P.txs
  BY <1>1, AcceptFacts
<1>3. Avail(P, coins) => Avail(Accept(P, t), coins)
  BY <1>2 DEF Avail
<1>4. ChainSound /\ P.txs \cap Mined(tip) = {} => t \notin Mined(tip)
  BY AcceptedUnmined
<1> QED
  BY <1>2, <1>3, <1>4 DEF Grows

LEMMA FreeGrows ==
    ASSUME coins \in SUBSET Outs, tip \in AllBlocks, NEW w \in Walks, NEW o \in Txs
    PROVE  Grows(w.pool, FreeOrphan(w, o).pool)
<1>1. w.pool \in Pools /\ Grows(w.pool, w.pool)
  BY GrowsMore DEF Walks
<1>2. CASE Verdict(w.pool, coins, tip, Height[tip], o) = "ok"
  <2>1. FreeOrphan(w, o).pool = Accept(w.pool, o)
    BY <1>2 DEF FreeOrphan, Walks
  <2> QED
    BY <1>1, <1>2, <2>1, AcceptGrows
<1>3. CASE Verdict(w.pool, coins, tip, Height[tip], o) = "no"
  BY <1>1, <1>3 DEF FreeOrphan, Walks
<1>4. CASE Verdict(w.pool, coins, tip, Height[tip], o) = "missing"
  BY <1>1, <1>4 DEF FreeOrphan
<1> QED
  BY <1>2, <1>3, <1>4, Verdicts

\* A row of walks
LEMMA GrowsChain ==
    ASSUME NEW n \in Nat, NEW h \in [0..n -> Walks], \A k \in 1..n : Grows(h[k - 1].pool, h[k].pool)
    PROVE  h[n] \in Walks /\ Grows(h[0].pool, h[n].pool)
<1> DEFINE S == {k \in 0..n : Grows(h[0].pool, h[k].pool)}
<1>1. 0 \in 0..n /\ n \in 0..n /\ \A k \in 0..n : h[k].pool \in Pools
  BY DEF Walks
<1>2. 0 \in S
  BY <1>1, GrowsMore
<1>3. ASSUME NEW k \in 1..n, k - 1 \in S PROVE k \in S
  BY <1>1, <1>3, GrowsMore
<1>4. \A k \in 1..n : k - 1 \in S => k \in S
  BY <1>3
<1>5. n \in S
  <2> HIDE DEF S
  <2> QED
    BY <1>1, <1>2, <1>4, StepTo
<1> QED
  BY <1>1, <1>5

LEMMA EachGrows ==
    ASSUME coins \in SUBSET Outs, tip \in AllBlocks, NEW w \in Walks, NEW S, S \subseteq Txs
    PROVE  FreeEach(w, S) \in Walks /\ Grows(w.pool, FreeEach(w, S).pool)
<1> DEFINE q == SetToSeq(S)
           n == Len(q)
<1>1. n \in Nat /\ \A k \in 1..n : q[k] \in Txs
  BY SetSeq
<1>2. PICK h \in [0..n -> Walks] : /\ h[0] = w /\ h[n] = FreeEach(w, S)
                                   /\ \A k \in 1..n : h[k] = FreeOrphan(h[k - 1], q[k])
  BY FreeUnrolled
<1> HIDE DEF q, n
<1>3. \A k \in 1..n : h[k - 1] \in Walks /\ q[k] \in Txs
  BY <1>1
<1>4. \A k \in 1..n : Grows(h[k - 1].pool, h[k].pool)
  BY <1>2, <1>3, FreeGrows
<1> QED
  BY <1>1, <1>2, <1>4, GrowsChain

LEMMA RoundGrows ==
    ASSUME coins \in SUBSET Outs, tip \in AllBlocks, byPrev \in [Txs -> SUBSET Txs], NEW w \in Walks
    PROVE  Grows(w.pool, FreeRound(w).pool)
<1>1. CASE w.work = << >>
  BY <1>1, GrowsMore DEF FreeRound, Walks
<1>2. CASE w.work # << >>
  <2> DEFINE v == [w EXCEPT !.work = Tail(@)]
             S == byPrev[Head(w.work)]
  <2>1. w.work \in Seq(Txs) /\ Head(w.work) \in Txs /\ Tail(w.work) \in Seq(Txs)
    BY <1>2 DEF Walks
  <2>2. v \in Walks /\ S \subseteq Txs /\ v.pool = w.pool
    BY <2>1 DEF Walks
  <2>3. FreeRound(w) = FreeEach(v, S)
    BY <1>2 DEF FreeRound
  <2> HIDE DEF v, S
  <2> QED
    BY <2>2, <2>3, EachGrows
<1> QED
  BY <1>1, <1>2

LEMMA OrphansGrow ==
    ASSUME coins \in SUBSET Outs, tip \in AllBlocks, byPrev \in [Txs -> SUBSET Txs], NEW w \in Walks
    PROVE  FreeOrphans(w) \in Walks /\ Grows(w.pool, FreeOrphans(w).pool)
<1> DEFINE n == Len(Rounds)
<1>1. n \in Nat
  BY FS_CardinalityType, MempoolAssumption DEF Rounds
<1>2. PICK h \in [0..n -> Walks] : /\ h[0] = w /\ h[n] = FreeOrphans(w)
                                   /\ \A k \in 1..n : h[k] = FreeRound(h[k - 1])
  BY RoundsUnrolled
<1> HIDE DEF n
<1>3. \A k \in 1..n : h[k - 1] \in Walks
  BY <1>1
<1>4. \A k \in 1..n : Grows(h[k - 1].pool, h[k].pool)
  BY <1>2, <1>3, RoundGrows
<1> QED
  BY <1>1, <1>2, <1>4, GrowsChain

-----------------------------------------------------------------------------
(* The inductive invariant. *)

\* On every chain: the marks are the pool's, and the orphans are indexed.
MInv == TypeOK /\ Marks(pool) /\ OrphansAgree

\* What the chain allows stays in the pool, also while blocks are disconnected.
Fits == \A t \in pool.txs : Anchor[t] \in Roots(tip) \cup {None} /\ Height[tip] <= Latest[t]

\* On a chain without contracts, at every moment of a reorganisation
CInv == Owns(pool) /\ Avail(pool, coins) /\ Fits

\* and at rest.
Final == moving = "no" /\ ~unswept => \A t \in pool.txs : Earliest[t] <= Height[tip] + 1

LEMMA TypeFields ==
    ASSUME TypeOK
    PROVE  /\ tip \in AllBlocks /\ coins \in SUBSET Outs /\ pool \in Pools /\ tmp \in Pools
           /\ Height[tip] \in Nat
           /\ orphans \in [Txs -> Peers \cup {None}] /\ byPrev \in [Txs -> SUBSET Txs]
           /\ Rejects \subseteq Txs
PROOF BY MempoolAssumption DEF TypeOK, Rejects

\* The part of the type invariant about the chain and the pool
PoolTypes ==
    /\ tip \in AllBlocks /\ coins \subseteq Outs /\ moving \in {"no", "down", "up"} /\ unswept \in BOOLEAN
    /\ pool \in Pools /\ tmp \in Pools /\ Marks(pool)

\* and about orphans.
OrphanTypes ==
    /\ orphans \in [Txs -> Peers \cup {None}] /\ byPrev \in [Txs -> SUBSET Txs]
    /\ rejects \subseteq Txs /\ rejectsTip \in AllBlocks \cup {None}
    /\ OrphansAgree

LEMMA InvParts == MInv <=> PoolTypes /\ OrphanTypes
<1>1. pool \in Pools /\ Marks(pool) => \A o \in Outs : pool.next[o] \in pool.txs \cup {None}
  BY DEF Marks
<1> QED
  BY <1>1 DEF MInv, PoolTypes, OrphanTypes, TypeOK

\* At rest the pool only grows.
LEMMA GrowthKept ==
    ASSUME MInv, Grows(pool, pool'), UNCHANGED <<tip, coins, moving, unswept, tmp>>
    PROVE  PoolTypes' /\ (CInv => CInv') /\ (CInv /\ Final => Final')
<1>1. Height[tip] \in Nat /\ pool \in Pools /\ Earliest \in [Txs -> Nat] /\ Latest \in [Txs -> Nat]
  BY TypeFields, MempoolAssumption DEF MInv
<1>2. pool' \in Pools /\ Marks(pool') /\ PoolTypes
  BY InvParts DEF Grows, MInv
<1>3. PoolTypes'
  BY <1>2 DEF PoolTypes, Marks
<1>4. ASSUME CInv PROVE CInv'
  <2>1. Owns(pool)' /\ Avail(pool, coins)'
    BY <1>4 DEF CInv, Grows, Owns, Avail
  <2>2. Fits'
    <3> SUFFICES ASSUME NEW t \in pool'.txs PROVE Anchor[t] \in Roots(tip) \cup {None} /\ Height[tip] <= Latest[t]
      BY DEF Fits, Roots
    <3>1. t \in Txs /\ Latest[t] \in Nat
      BY <1>1, <1>2, PoolFields
    <3>2. CASE t \in pool.txs
      BY <3>2, <1>4 DEF CInv, Fits
    <3>3. CASE t \notin pool.txs
      BY <3>1, <3>3, <1>1 DEF Grows, Fresh
    <3> QED
      BY <3>2, <3>3
  <2> QED
    BY <2>1, <2>2 DEF CInv
<1>5. ASSUME Final PROVE Final'
  BY <1>1, <1>5 DEF Final, Grows, Fresh
<1> QED
  BY <1>3, <1>4, <1>5

-----------------------------------------------------------------------------
(* Orphans. *)

\* The index is exact for a map of orphans.
Exact(O, B) == \A p \in Txs : B[p] = {t \in Txs : O[t] # None /\ p \in Parents(t)}

\* The orphans of a map
Kept(O) == {t \in Txs : O[t] # None}

LEMMA EraseExact ==
    ASSUME NEW O \in [Txs -> Peers \cup {None}], NEW B \in [Txs -> SUBSET Txs], NEW s,
           Exact(O, B), EraseOrphans(O, B, s)
    PROVE  /\ orphans' \in [Txs -> Peers \cup {None}] /\ byPrev' \in [Txs -> SUBSET Txs]
           /\ Exact(orphans', byPrev') /\ Kept(orphans') = Kept(O) \ s
<1>1. /\ orphans' \in [Txs -> Peers \cup {None}]
      /\ \A t \in Txs : orphans'[t] = IF t \in s THEN None ELSE O[t]
  BY DEF EraseOrphans
<1>2. /\ byPrev' \in [Txs -> SUBSET Txs]
      /\ \A p \in Txs : byPrev'[p] = B[p] \ {t \in s : O[t] # None /\ p \in Parents(t)}
  BY DEF EraseOrphans
<1>3. Kept(orphans') = Kept(O) \ s
  BY <1>1 DEF Kept
<1>4. Exact(orphans', byPrev')
  <2> SUFFICES ASSUME NEW p \in Txs
               PROVE  byPrev'[p] = {t \in Txs : orphans'[t] # None /\ p \in Parents(t)}
    BY DEF Exact
  <2>1. B[p] = {t \in Txs : O[t] # None /\ p \in Parents(t)}
    BY DEF Exact
  <2> QED
    BY <1>1, <1>2, <2>1
<1> QED
  BY <1>1, <1>2, <1>3, <1>4

LEMMA AgreeParts == OrphansAgree <=> Exact(orphans, byPrev) /\ Cardinality(Kept(orphans)) <= MaxOrphans
PROOF BY DEF OrphansAgree, Exact, Kept

LEMMA KeptFinite ==
    ASSUME NEW O
    PROVE  IsFiniteSet(Kept(O)) /\ Cardinality(Kept(O)) \in Nat
<1>1. Kept(O) \subseteq Txs
  BY DEF Kept
<1> QED
  BY <1>1, FS_Subset, FS_CardinalityType, MempoolAssumption

\* Erasing keeps the index exact, and the number within its bound.
LEMMA EraseKept ==
    ASSUME MInv, NEW s, EraseOrphans(orphans, byPrev, s), rejects' \subseteq Txs,
           rejectsTip' \in AllBlocks \cup {None}
    PROVE  OrphanTypes'
<1>1. /\ orphans \in [Txs -> Peers \cup {None}] /\ byPrev \in [Txs -> SUBSET Txs]
      /\ Exact(orphans, byPrev) /\ Cardinality(Kept(orphans)) <= MaxOrphans
  BY TypeFields, AgreeParts DEF MInv
<1>2. /\ orphans' \in [Txs -> Peers \cup {None}] /\ byPrev' \in [Txs -> SUBSET Txs]
      /\ Exact(orphans', byPrev') /\ Kept(orphans') = Kept(orphans) \ s
  BY <1>1, EraseExact
<1>3. Cardinality(Kept(orphans')) <= Cardinality(Kept(orphans))
  <2>1. Kept(orphans') \subseteq Kept(orphans) /\ IsFiniteSet(Kept(orphans))
    BY <1>2, KeptFinite
  <2> QED
    BY <2>1, FS_Subset
<1>4. Cardinality(Kept(orphans')) \in Nat /\ Cardinality(Kept(orphans)) \in Nat /\ MaxOrphans \in Nat
  BY KeptFinite, MempoolAssumption
<1>5. Cardinality(Kept(orphans')) <= MaxOrphans
  BY <1>1, <1>3, <1>4
<1>6. OrphansAgree'
  BY <1>2, <1>5 DEF OrphansAgree, Exact, Kept
<1> QED
  BY <1>2, <1>6 DEF OrphanTypes

\* A new orphan, and what LimitOrphanTxSize evicts for it
LEMMA OrphanKept ==
    ASSUME MInv, NEW p \in Peers, NEW t \in Txs, TxOrphan(p, t), rejectsTip' = tip
    PROVE  OrphanTypes'
<1> DEFINE O == [orphans EXCEPT ![t] = p]
           B == [q \in Txs |-> IF q \in Parents(t) THEN byPrev[q] \cup {t} ELSE byPrev[q]]
           held == Kept(O)
<1>1. /\ orphans \in [Txs -> Peers \cup {None}] /\ byPrev \in [Txs -> SUBSET Txs]
      /\ Exact(orphans, byPrev) /\ tip \in AllBlocks /\ Rejects \subseteq Txs
  BY TypeFields, AgreeParts DEF MInv
<1>2. p # None
  BY MempoolAssumption
<1>3. O \in [Txs -> Peers \cup {None}] /\ B \in [Txs -> SUBSET Txs]
  BY <1>1
<1>4. Exact(O, B)
  <2> SUFFICES ASSUME NEW r \in Txs PROVE B[r] = {u \in Txs : O[u] # None /\ r \in Parents(u)}
    BY DEF Exact
  <2>1. byPrev[r] = {u \in Txs : orphans[u] # None /\ r \in Parents(u)}
    BY <1>1 DEF Exact
  <2>2. \A u \in Txs : O[u] # None <=> u = t \/ orphans[u] # None
    BY <1>1, <1>2
  <2>3. B[r] = IF r \in Parents(t) THEN byPrev[r] \cup {t} ELSE byPrev[r]
    OBVIOUS
  <2> HIDE DEF O, B
  <2> QED
    BY <2>1, <2>2, <2>3
<1>5. PICK out \in SUBSET held :
        /\ Cardinality(out) = IF Cardinality(held) > MaxOrphans THEN Cardinality(held) - MaxOrphans ELSE 0
        /\ EraseOrphans(O, B, out)
  BY DEF TxOrphan, Kept
<1>6. rejects' = Rejects
  BY DEF TxOrphan
<1> HIDE DEF O, B
<1>7. /\ orphans' \in [Txs -> Peers \cup {None}] /\ byPrev' \in [Txs -> SUBSET Txs]
      /\ Exact(orphans', byPrev') /\ Kept(orphans') = held \ out
  BY <1>3, <1>4, <1>5, EraseExact
<1>8. IsFiniteSet(held) /\ Cardinality(held) \in Nat /\ MaxOrphans \in Nat
  BY KeptFinite, MempoolAssumption
<1>9. Cardinality(held \ out) = Cardinality(held) - Cardinality(out)
  <2>1. held \cap out = out
    OBVIOUS
  <2> QED
    BY <1>8, <2>1, FS_Difference
<1>10. Cardinality(Kept(orphans')) <= MaxOrphans
  BY <1>5, <1>7, <1>8, <1>9
<1>11. OrphansAgree'
  BY <1>7, <1>10 DEF OrphansAgree, Exact, Kept
<1> QED
  BY <1>1, <1>6, <1>7, <1>11 DEF OrphanTypes

-----------------------------------------------------------------------------
(* The actions. *)

\* What every step keeps: MInv on every chain, CInv and Final without contracts.
Keeps ==
    /\ MInv'
    /\ ~CC /\ CInv => CInv'
    /\ ~CC /\ CInv /\ Final => Final'

LEMMA OrphansUnchanged ==
    ASSUME MInv, UNCHANGED <<orphans, byPrev, rejects, rejectsTip>>
    PROVE  OrphanTypes'
PROOF BY InvParts DEF OrphanTypes, OrphansAgree

LEMMA StutterKeeps ==
    ASSUME MInv, UNCHANGED vars
    PROVE  Keeps
<1>1. PoolTypes'
  BY InvParts DEF PoolTypes, vars, Marks
<1>2. OrphanTypes'
  BY OrphansUnchanged DEF vars
<1>3. MInv'
  BY <1>1, <1>2, InvParts, PTL
<1>4. CInv => CInv'
  BY DEF CInv, Owns, Avail, Fits, Roots, vars
<1>5. Final => Final'
  BY DEF Final, vars
<1> QED
  BY <1>3, <1>4, <1>5 DEF Keeps

LEMMA SendKeeps ==
    ASSUME MInv, NEW t \in Submitted, SendRawTransaction(t)
    PROVE  Keeps /\ Grows(pool, pool')
<1>1. /\ pool \in Pools /\ tip \in AllBlocks /\ coins \in SUBSET Outs /\ t \in Txs
      /\ pool' = AcceptToMemoryPool(pool, coins, tip, Height[tip], t)
  BY TypeFields, MempoolAssumption DEF MInv, SendRawTransaction
<1>2. Grows(pool, pool')
  BY <1>1, AcceptGrows, GrowsMore DEF AcceptToMemoryPool
<1>3. PoolTypes' /\ (CInv => CInv') /\ (CInv /\ Final => Final')
  BY <1>2, GrowthKept DEF SendRawTransaction
<1>4. OrphanTypes'
  BY OrphansUnchanged DEF SendRawTransaction
<1>5. MInv'
  BY <1>3, <1>4, InvParts, PTL
<1> QED
  BY <1>2, <1>3, <1>5 DEF Keeps

LEMMA TxKeeps ==
    ASSUME MInv, NEW p \in Peers, NEW t \in Relayed, Tx(p, t)
    PROVE  Keeps /\ Grows(pool, pool')
<1> DEFINE verdict == IF AlreadyHave(t) THEN "no" ELSE Verdict(pool, coins, tip, Height[tip], t)
<1>1. /\ pool \in Pools /\ tip \in AllBlocks /\ coins \in SUBSET Outs /\ t \in Txs
      /\ byPrev \in [Txs -> SUBSET Txs] /\ Rejects \subseteq Txs
      /\ orphans \in [Txs -> Peers \cup {None}]
  BY TypeFields, MempoolAssumption DEF MInv
<1>2. rejectsTip' = tip /\ UNCHANGED <<tip, coins, moving, unswept, tmp>>
  BY DEF Tx
<1>3. SUFFICES Grows(pool, pool') /\ OrphanTypes'
  <2>1. PoolTypes' /\ (CInv => CInv') /\ (CInv /\ Final => Final')
    BY <1>2, <1>3, GrowthKept
  <2>2. MInv'
    BY <1>3, <2>1, InvParts, PTL
  <2> QED
    BY <1>3, <2>1, <2>2 DEF Keeps
<1>4. CASE verdict = "ok" /\ TxAccepted(t)
  <2> DEFINE v == [pool |-> Accept(pool, t), erase |-> {}, rejects |-> Rejects, work |-> <<t>>]
             w == FreeOrphans(v)
  <2>1. Verdict(pool, coins, tip, Height[tip], t) = "ok"
    BY <1>4
  <2>2. Grows(pool, v.pool) /\ v.pool \in Pools
    BY <1>1, <2>1, AcceptGrows DEF Grows
  <2>3. v \in Walks
    BY <1>1, <2>2 DEF Walks
  <2>4. pool' = w.pool /\ rejects' = w.rejects /\ EraseOrphans(orphans, byPrev, w.erase)
    BY <1>4 DEF TxAccepted
  <2> HIDE DEF v
  <2>5. w \in Walks /\ Grows(v.pool, w.pool)
    BY <1>1, <2>3, OrphansGrow
  <2> HIDE DEF w
  <2>6. Grows(pool, pool')
    BY <1>1, <2>2, <2>4, <2>5, GrowsMore
  <2>7. rejects' \subseteq Txs
    BY <2>4, <2>5 DEF Walks
  <2>8. OrphanTypes'
    BY <1>1, <1>2, <2>4, <2>7, EraseKept
  <2> QED
    BY <2>6, <2>8
<1>5. CASE TxOrphan(p, t)
  <2>1. pool' = pool
    BY <1>5 DEF TxOrphan
  <2>2. OrphanTypes'
    BY <1>1, <1>2, <1>5, OrphanKept
  <2> QED
    BY <1>1, <2>1, <2>2, GrowsMore
<1>6. CASE rejects' = Rejects \cup {t} /\ UNCHANGED <<pool, orphans, byPrev>>
  <2>1. OrphanTypes'
    BY <1>1, <1>2, <1>6, InvParts DEF OrphanTypes, OrphansAgree
  <2> QED
    BY <1>1, <1>6, <2>1, GrowsMore
<1> HIDE DEF verdict
<1>7. (verdict = "ok" /\ TxAccepted(t)) \/ TxOrphan(p, t)
        \/ (rejects' = Rejects \cup {t} /\ UNCHANGED <<pool, orphans, byPrev>>)
  BY DEF Tx, verdict
<1> QED
  BY <1>4, <1>5, <1>6, <1>7

LEMMA FinalizeKeeps ==
    ASSUME MInv, NEW p \in Peers, FinalizeNode(p)
    PROVE  Keeps /\ Grows(pool, pool')
<1>1. pool \in Pools /\ Grows(pool, pool)
  BY TypeFields, GrowsMore DEF MInv
<1>2. Grows(pool, pool')
  BY <1>1 DEF FinalizeNode
<1>3. PoolTypes' /\ (CInv => CInv') /\ (CInv /\ Final => Final')
  BY <1>2, GrowthKept DEF FinalizeNode
<1>4. rejects' \subseteq Txs /\ rejectsTip' \in AllBlocks \cup {None}
  BY DEF FinalizeNode, MInv, TypeOK
<1>5. OrphanTypes'
  BY <1>4, EraseKept DEF FinalizeNode
<1>6. MInv'
  BY <1>3, <1>5, InvParts, PTL
<1> QED
  BY <1>2, <1>3, <1>6 DEF Keeps

\* CheckBlock keeps the marks in order, whether the block passes or not.
LEMMA CheckKept ==
    ASSUME MInv, NEW b \in Blocks
    PROVE  /\ CheckBlock(b).pool \in Pools /\ CheckBlock(b).tmp \in Pools /\ Marks(CheckBlock(b).pool)
           /\ ~CC => CheckBlock(b) = [pool |-> pool, tmp |-> tmp]
<1>1. pool \in Pools /\ tmp \in Pools /\ Marks(pool) /\ Vtx[b] \in Seq(Txs)
  BY TypeFields, InsVtx DEF MInv, AllBlocks
<1>2. EmptyPool \in Pools
  BY DEF EmptyPool, Pools
<1>3. \A S : S \subseteq Txs => SetToSeq(S) \in Seq(Txs)
  <2> SUFFICES ASSUME NEW S, S \subseteq Txs PROVE SetToSeq(S) \in Seq(Txs)
    OBVIOUS
  <2>1. SetToSeq(S) \in Seq(S)
    BY SetSeq
  <2> QED
    BY <2>1
<1> DEFINE plain == pool.txs \ Shielded
           skip == Coinbases \cup Shielded
           aside == SteppedAside(b)
<1>4. aside.pool \in Pools /\ Marks(aside.pool) /\ aside.tmp \in Pools
  <2>1. /\ aside.pool = AddEach(RemoveAll(pool, plain), Vtx[b], skip, {})
        /\ aside.tmp = RemoveAll(AddEach(tmp, SetToSeq(plain), {}, pool.spendsCoinbase), Range(Vtx[b]) \ skip)
    BY DEF SteppedAside
  <2>2. plain \subseteq pool.txs /\ plain \subseteq Txs
    BY <1>1, PoolFields
  <2> HIDE DEF aside, plain, skip
  <2>3. RemoveAll(pool, plain) \in Pools /\ Marks(RemoveAll(pool, plain))
    BY <1>1, <2>2, PoolsKept, RemoveAllFacts
  <2>4. aside.pool \in Pools /\ Marks(aside.pool)
    BY <1>1, <2>1, <2>3, AddEachFacts
  <2>5. AddEach(tmp, SetToSeq(plain), {}, pool.spendsCoinbase) \in Pools
    BY <1>1, <1>3, <2>2, AddEachFacts
  <2> QED
    BY <2>1, <2>4, <2>5, PoolsKept
<1>5. AddEach(aside.pool, SetToSeq(aside.tmp.txs), {}, aside.tmp.spendsCoinbase) \in Pools
        /\ Marks(AddEach(aside.pool, SetToSeq(aside.tmp.txs), {}, aside.tmp.spendsCoinbase))
  <2> HIDE DEF aside
  <2>1. SetToSeq(aside.tmp.txs) \in Seq(Txs)
    BY <1>3, <1>4, PoolFields
  <2> QED
    BY <1>4, <2>1, AddEachFacts
<1>6. CheckBlock(b) =
        IF ~CC THEN [pool |-> pool, tmp |-> tmp]
        ELSE IF b \in FailsCheck THEN aside
        ELSE [pool |-> AddEach(aside.pool, SetToSeq(aside.tmp.txs), {}, aside.tmp.spendsCoinbase),
              tmp  |-> EmptyPool]
  BY DEF CheckBlock
<1> HIDE DEF aside
<1> QED
  BY <1>1, <1>2, <1>4, <1>5, <1>6

LEMMA Tree ==
    ASSUME NEW b \in Blocks
    PROVE  /\ b \in AllBlocks /\ Parent[b] \in AllBlocks
           /\ Height[b] = Height[Parent[b]] + 1 /\ Height[b] \in Nat /\ Height[Parent[b]] \in Nat
           /\ Roots(b) = Roots(Parent[b]) \cup {Root[b]}
           /\ Vtx[b] \in Seq(Txs) /\ Range(Vtx[b]) \subseteq Txs
<1>1. Chain[b] = {b} \cup Chain[Parent[b]]
  BY MempoolAssumption
<1>2. Roots(b) = Roots(Parent[b]) \cup {Root[b]}
  BY <1>1 DEF Roots
<1> QED
  BY <1>2, MempoolAssumption, InsVtx DEF AllBlocks

LEMMA SweepType ==
    ASSUME MInv
    PROVE  unswept \in BOOLEAN
BY DEF MInv, TypeOK

LEMMA ConnectKeeps ==
    ASSUME MInv, NEW b \in Blocks, ConnectTip(b)
    PROVE  Keeps
<1> DEFINE P == CheckBlock(b).pool
           Q == removeForBlock(P, Vtx[b])
           expired == {t \in Q.txs : Height[b] > Latest[t]}
           R == removeEach(Q, expired)
           made == Made(Range(Vtx[b]))
           spent == Spent(Range(Vtx[b]))
<1>1. /\ P \in Pools /\ CheckBlock(b).tmp \in Pools /\ Marks(P)
      /\ ~CC => P = pool
  BY CheckKept
<1>2. /\ tip \in AllBlocks /\ coins \in SUBSET Outs /\ moving \in {"no", "down", "up"}
      /\ pool \in Pools /\ Latest \in [Txs -> Nat] /\ Earliest \in [Txs -> Nat]
  BY TypeFields, MempoolAssumption DEF MInv, TypeOK
<1>3. /\ b \in AllBlocks /\ Parent[b] = tip /\ Height[b] = Height[tip] + 1 /\ Height[tip] \in Nat
      /\ Roots(tip) \subseteq Roots(b) /\ Vtx[b] \in Seq(Txs) /\ Range(Vtx[b]) \subseteq Txs
  BY Tree DEF ConnectTip
<1>4. tmp' = CheckBlock(b).tmp /\ UNCHANGED <<orphans, byPrev, rejects, rejectsTip>>
  BY DEF ConnectTip
<1>5. OrphanTypes'
  BY <1>4, OrphansUnchanged
<1>9. unswept' \in BOOLEAN
  BY SweepType DEF ConnectTip
<1>6. CASE /\ coins' = (coins \cup made) \ spent
           /\ pool' = removeExpired(removeForBlock(P, Vtx[b]), Height[b])
           /\ tip' = b
           /\ moving' = IF moving = "no" THEN "no" ELSE "up"
           /\ unswept' = unswept
  <2>1. pool' = R /\ tip' = b
    BY <1>6 DEF removeExpired
  <2> HIDE DEF P
  <2>2. /\ Q \in Pools /\ Q.txs \subseteq P.txs /\ Marks(Q)
        /\ Owns(P) => /\ Owns(Q)
                      /\ \A u \in Q.txs : Inputs(u) \cap spent = {}
                      /\ \A A \in SUBSET Outs : Avail(P, A) => Avail(Q, A \cup made)
    BY <1>1, <1>3, BlockFacts
  <2> HIDE DEF Q
  <2>3. expired \subseteq Txs
    BY <2>2, PoolFields
  <2>4. Shrinks(Q, R) /\ \A t \in expired : t \notin R.txs
    <3> HIDE DEF expired
    <3> QED
      BY <2>2, <2>3, EachShrinks
  <2> HIDE DEF R
  <2>5. /\ R \in Pools /\ R.txs \subseteq Q.txs /\ Marks(R) /\ (Owns(Q) => Owns(R))
        /\ \A t \in R.txs : ~(Height[b] > Latest[t])
    BY <2>2, <2>4 DEF Shrinks
  <2>6. made \subseteq Outs /\ coins' \in SUBSET Outs
    BY <1>2, <1>6 DEF Made
  <2> HIDE DEF made, spent, expired
  <2>7. PoolTypes'
    BY <1>1, <1>2, <1>3, <1>4, <1>6, <1>9, <2>1, <2>5, <2>6 DEF PoolTypes, Marks
  <2>8. ASSUME ~CC, CInv PROVE CInv'
    <3>1. Owns(P) /\ Avail(P, coins)
      BY <1>1, <2>8 DEF CInv
    <3>2. Avail(Q, coins \cup made) /\ Owns(Q) /\ \A u \in Q.txs : Inputs(u) \cap spent = {}
      BY <1>2, <2>2, <3>1
    <3>3. Avail(Q, coins')
      BY <1>6, <3>2 DEF Avail
    <3>4. Avail(R, coins') /\ Owns(R)
      BY <2>4, <2>6, <3>2, <3>3 DEF Shrinks
    <3>5. Fits'
      <4> SUFFICES ASSUME NEW t \in R.txs PROVE Anchor[t] \in Roots(b) \cup {None} /\ Height[b] <= Latest[t]
        BY <2>1 DEF Fits, Roots
      <4>1. t \in pool.txs /\ t \in Txs
        BY <1>1, <1>2, <2>2, <2>5, <2>8, PoolFields
      <4>2. Anchor[t] \in Roots(tip) \cup {None}
        BY <4>1, <2>8 DEF CInv, Fits
      <4>3. Height[b] <= Latest[t]
        BY <1>2, <1>3, <2>5, <4>1
      <4> QED
        BY <1>3, <4>2, <4>3
    <3>6. Owns(pool)' /\ Avail(pool, coins)'
      BY <2>1, <3>4 DEF Owns, Avail
    <3> QED
      BY <3>5, <3>6 DEF CInv
  <2>9. ASSUME ~CC, Final PROVE Final'
    <3> SUFFICES ASSUME moving' = "no", ~unswept', NEW t \in R.txs PROVE Earliest[t] <= Height[b] + 1
      BY <2>1 DEF Final
    <3>1. t \in pool.txs /\ t \in Txs /\ moving = "no" /\ ~unswept
      BY <1>1, <1>2, <1>6, <2>2, <2>5, <2>9, PoolFields
    <3> QED
      BY <1>2, <1>3, <2>9, <3>1 DEF Final
  <2>10. MInv'
    BY <1>5, <2>7, InvParts, PTL
  <2> QED
    BY <2>8, <2>9, <2>10 DEF Keeps
<1>7. CASE /\ pool' = P
           /\ moving' = IF b \in Unblamed THEN "no" ELSE moving
           /\ unswept' = IF b \in Unblamed /\ moving # "no" THEN TRUE ELSE unswept
           /\ UNCHANGED <<coins, tip>>
  <2> HIDE DEF P
  <2>1. PoolTypes'
    BY <1>1, <1>2, <1>4, <1>7, <1>9 DEF PoolTypes, Marks
  <2>2. ~CC /\ CInv => CInv'
    BY <1>1, <1>7 DEF CInv, Owns, Avail, Fits, Roots
  <2>3. ~CC /\ Final => Final'
    BY <1>1, <1>7 DEF Final
  <2>4. MInv'
    BY <1>5, <2>1, InvParts, PTL
  <2> QED
    BY <2>2, <2>3, <2>4 DEF Keeps
<1> QED
  BY <1>6, <1>7 DEF ConnectTip

LEMMA DisconnectKeeps ==
    ASSUME MInv, DisconnectTip
    PROVE  Keeps
<1> DEFINE block == Range(Vtx[tip])
           C == (coins \ Made(block)) \cup (Spent(block) \ Made(block))
           Q == ResurrectEach(pool, C, Vtx[tip])
           gone == {t \in Q.txs : Anchor[t] = Root[tip]}
           R == AnchorGone(Q, tip)
           below == Parent[tip]
<1>1. /\ tip \in Blocks /\ coins \in SUBSET Outs /\ pool \in Pools /\ tmp \in Pools /\ Marks(pool)
      /\ Latest \in [Txs -> Nat]
  BY TypeFields, MempoolAssumption DEF MInv, DisconnectTip, AllBlocks
<1>2. coins' = C /\ pool' = R /\ tip' = below /\ moving' = "down" /\ tmp' = tmp
  BY DEF DisconnectTip
<1>3. UNCHANGED <<orphans, byPrev, rejects, rejectsTip>>
  BY DEF DisconnectTip
<1>4. /\ below \in AllBlocks /\ Height[tip] = Height[below] + 1
      /\ Height[below] \in Nat /\ Height[tip] \in Nat /\ Roots(tip) = Roots(below) \cup {Root[tip]}
      /\ Vtx[tip] \in Seq(Txs) /\ block \subseteq Txs
  BY <1>1, Tree
<1>5. C \in SUBSET Outs /\ coins \subseteq C \cup Made(block)
  <2>1. Spent(block) \subseteq Outs
    BY <1>4, InsVtx DEF Spent
  <2> QED
    BY <1>1, <2>1
<1> HIDE DEF C
<1>6. /\ Q \in Pools /\ Marks(Q)
      /\ Owns(pool) => Owns(Q)
      /\ Fresh(pool, Q, below, Height[tip])
      /\ Owns(pool) /\ Avail(pool, C \cup Made(block)) => Avail(Q, C)
  BY <1>1, <1>4, <1>5, ResurrectFacts
<1> HIDE DEF Q
<1>7. /\ Shrinks(Q, R)
      /\ Root[tip] # Root[below] => \A t \in R.txs : Anchor[t] # Root[tip]
  <2>1. gone \subseteq Txs
    BY <1>6, PoolFields
  <2>2. CASE Root[tip] # Root[below]
    <3>1. R = removeEach(Q, gone)
      BY <2>2 DEF AnchorGone, removeWithAnchor
    <3>2. Shrinks(Q, R) /\ \A t \in gone : t \notin R.txs
      <4> HIDE DEF gone
      <4> QED
        BY <1>6, <2>1, <3>1, EachShrinks
    <3> HIDE DEF R
    <3> QED
      BY <3>2 DEF Shrinks
  <2>3. CASE Root[tip] = Root[below]
    BY <1>6, <2>3, ShrinksMore DEF AnchorGone
  <2> QED
    BY <2>2, <2>3
<1> HIDE DEF R, below
<1>8. R \in Pools /\ R.txs \subseteq Q.txs /\ Marks(R)
  BY <1>6, <1>7 DEF Shrinks
<1>9. PoolTypes'
  <2>1. unswept' \in BOOLEAN
    BY SweepType DEF DisconnectTip
  <2> QED
    BY <1>1, <1>2, <1>4, <1>5, <1>8, <2>1 DEF PoolTypes, Marks
<1>10. ASSUME CInv PROVE CInv'
  <2>1. Owns(pool) /\ Avail(pool, coins)
    BY <1>10 DEF CInv
  <2>2. Avail(pool, C \cup Made(block))
    BY <1>5, <2>1 DEF Avail
  <2>3. Owns(Q) /\ Avail(Q, C)
    BY <1>6, <2>1, <2>2
  <2>4. Owns(R) /\ Avail(R, C)
    BY <1>5, <1>7, <2>3 DEF Shrinks
  <2>5. Fits'
    <3> SUFFICES ASSUME NEW t \in R.txs PROVE Anchor[t] \in Roots(below) \cup {None} /\ Height[below] <= Latest[t]
      BY <1>2 DEF Fits, Roots
    <3>1. t \in Q.txs /\ t \in Txs
      BY <1>6, <1>8, PoolFields
    <3>2. /\ Anchor[t] \in Roots(tip) \cup {None}
          /\ Height[tip] <= Latest[t]
      <4>1. CASE t \in pool.txs
        BY <4>1, <1>10 DEF CInv, Fits
      <4>2. CASE t \notin pool.txs
        BY <1>1, <1>4, <1>6, <3>1, <4>2 DEF Fresh
      <4> QED
        BY <4>1, <4>2
    <3>3. Height[below] <= Latest[t]
      BY <1>1, <1>4, <3>1, <3>2
    <3>4. Root[below] \in Roots(below)
      <4>1. below = Genesis \/ below \in Chain[below]
        BY <1>4, MempoolAssumption DEF AllBlocks
      <4> QED
        BY <4>1 DEF Roots
    <3> QED
      BY <1>4, <1>7, <3>2, <3>3, <3>4
  <2>6. Owns(pool)' /\ Avail(pool, coins)'
    BY <1>2, <2>4 DEF Owns, Avail
  <2> QED
    BY <2>5, <2>6 DEF CInv
<1>11. Final'
  BY <1>2 DEF Final
<1>12. OrphanTypes'
  BY <1>3, OrphansUnchanged
<1>13. MInv'
  BY <1>9, <1>12, InvParts, PTL
<1> QED
  BY <1>10, <1>11, <1>13 DEF Keeps

\* A reorganisation that is cut short leaves the pool as it is.
LEMMA RefusedKeeps ==
    ASSUME MInv, DisconnectRefused
    PROVE  Keeps
<1>1. moving' = "no" /\ unswept' = TRUE /\ UNCHANGED <<tip, coins, pool, tmp>>
  BY DEF DisconnectRefused
<1>2. PoolTypes'
  BY <1>1, InvParts DEF PoolTypes, Marks
<1>3. OrphanTypes'
  BY OrphansUnchanged DEF DisconnectRefused
<1>4. MInv'
  BY <1>2, <1>3, InvParts, PTL
<1>5. CInv => CInv'
  BY <1>1 DEF CInv, Owns, Avail, Fits, Roots
<1>6. Final'
  BY <1>1 DEF Final
<1> QED
  BY <1>4, <1>5, <1>6 DEF Keeps

LEMMA EndKeeps ==
    ASSUME MInv, EndStep
    PROVE  Keeps
<1> DEFINE height == Height[tip] + 1
           out == {t \in pool.txs :
                     \/ Earliest[t] > height
                     \/ t \in pool.spendsCoinbase /\ \E o \in Inputs(t) : Maker[o] # None /\ ~HaveCoins(pool, coins, Maker[o])}
           R == removeEach(pool, out)
<1>1. /\ pool \in Pools /\ tmp \in Pools /\ Marks(pool) /\ coins \in SUBSET Outs /\ tip \in AllBlocks
      /\ Earliest \in [Txs -> Nat] /\ height \in Nat
  BY TypeFields, MempoolAssumption DEF MInv
<1>2. pool' = R /\ moving' = "no" /\ unswept' = FALSE /\ UNCHANGED <<tip, coins, tmp>>
  BY DEF EndStep, removeForReorg
<1>3. out \subseteq Txs
  BY <1>1, PoolFields
<1>4. Shrinks(pool, R) /\ \A t \in out : t \notin R.txs
  <2> HIDE DEF out
  <2> QED
    BY <1>1, <1>3, EachShrinks
<1> HIDE DEF R
<1>5. R \in Pools /\ R.txs \subseteq pool.txs /\ Marks(R)
  BY <1>1, <1>4 DEF Shrinks
<1>6. PoolTypes'
  BY <1>1, <1>2, <1>5 DEF PoolTypes, Marks
<1>7. ASSUME CInv PROVE CInv'
  <2>1. Owns(R) /\ Avail(R, coins)
    BY <1>1, <1>4, <1>7 DEF Shrinks, CInv
  <2>2. Owns(pool)' /\ Avail(pool, coins)'
    BY <1>2, <2>1 DEF Owns, Avail
  <2>3. Fits'
    BY <1>2, <1>5, <1>7 DEF CInv, Fits, Roots
  <2> QED
    BY <2>2, <2>3 DEF CInv
<1>8. Final'
  <2> SUFFICES ASSUME NEW t \in R.txs PROVE Earliest[t] <= height
    BY <1>2 DEF Final
  <2>1. t \in pool.txs /\ t \in Txs /\ t \notin out
    BY <1>1, <1>4, <1>5, PoolFields
  <2>2. ~(Earliest[t] > height)
    BY <2>1
  <2> HIDE DEF height
  <2> QED
    BY <1>1, <2>1, <2>2
<1>9. OrphanTypes'
  BY OrphansUnchanged DEF EndStep
<1>10. MInv'
  BY <1>6, <1>9, InvParts, PTL
<1> QED
  BY <1>7, <1>8, <1>10 DEF Keeps

LEMMA NextKeeps ==
    ASSUME MInv, [Next]_vars
    PROVE  Keeps
<1>1. ASSUME NEW t \in Submitted, SendRawTransaction(t) PROVE Keeps
  BY <1>1, SendKeeps
<1>2. ASSUME NEW p \in Peers, NEW t \in Relayed, Tx(p, t) PROVE Keeps
  BY <1>2, TxKeeps
<1>3. ASSUME NEW p \in Peers, FinalizeNode(p) PROVE Keeps
  BY <1>3, FinalizeKeeps
<1>4. ASSUME NEW b \in Blocks, ConnectTip(b) PROVE Keeps
  BY <1>4, ConnectKeeps
<1>5. CASE DisconnectTip
  BY <1>5, DisconnectKeeps
<1>6. CASE EndStep
  BY <1>6, EndKeeps
<1>7. CASE UNCHANGED vars
  BY <1>7, StutterKeeps
<1>8. CASE DisconnectRefused
  BY <1>8, RefusedKeeps
<1> QED
  BY <1>1, <1>2, <1>3, <1>4, <1>5, <1>6, <1>7, <1>8 DEF Next

LEMMA InitHolds ==
    ASSUME Init
    PROVE  MInv /\ CInv /\ Final
<1>1. EmptyPool \in Pools /\ EmptyPool.txs = {} /\ Marks(EmptyPool)
  BY DEF EmptyPool, Pools, Marks
<1>2. PoolTypes
  BY <1>1 DEF Init, PoolTypes, AllBlocks
<1>3. OrphanTypes
  <2>1. Kept(orphans) = {} /\ Exact(orphans, byPrev)
    BY DEF Init, Kept, Exact
  <2>2. Cardinality(Kept(orphans)) <= MaxOrphans
    BY <2>1, FS_EmptySet, MempoolAssumption
  <2>3. OrphansAgree
    BY <2>1, <2>2, AgreeParts
  <2> QED
    BY <2>3 DEF Init, OrphanTypes
<1>4. CInv /\ Final
  BY <1>1 DEF Init, CInv, Owns, Avail, Fits, Final
<1> QED
  BY <1>2, <1>3, <1>4, InvParts

-----------------------------------------------------------------------------
(* Why a transaction leaves the pool. *)

\* A set that is closed under spending has all descendants.
LEMMA DescendantsIn ==
    ASSUME NEW P \in Pools, Marks(P), NEW s, NEW c, c \subseteq P.txs, s \subseteq c,
           \A u \in P.txs : \A o \in Inputs(u) : Maker[o] \in c => u \in c
    PROVE  WithDescendants(P, s) \subseteq c
<1>1. Children(P, c) \cap P.txs \subseteq c
  <2> SUFFICES ASSUME NEW u \in Children(P, c) \cap P.txs PROVE u \in c
    OBVIOUS
  <2>1. PICK o \in Outs : Maker[o] \in c /\ u = P.next[o] /\ u # None
    BY DEF Children, Made
  <2>2. o \in Inputs(u)
    BY <2>1 DEF Marks
  <2> QED
    BY <2>1, <2>2
<1> QED
  BY <1>1 DEF WithDescendants

\* A descendant spends an output of another one.
LEMMA DescendantsWhy ==
    ASSUME NEW P \in Pools, Marks(P), NEW s, s \subseteq P.txs
    PROVE  \A u \in WithDescendants(P, s) : u \in s \/ \E o \in Inputs(u) : Maker[o] \in WithDescendants(P, s)
<1> DEFINE D == WithDescendants(P, s)
           c == {u \in D : u \in s \/ \E o \in Inputs(u) : Maker[o] \in D}
<1>1. s \subseteq D /\ D \subseteq P.txs /\ Children(P, D) \cap P.txs \subseteq D
  BY Descendants
<1> HIDE DEF D
<1>2. Children(P, c) \cap P.txs \subseteq c
  <2> SUFFICES ASSUME NEW u \in Children(P, c) \cap P.txs PROVE u \in c
    OBVIOUS
  <2>1. PICK o \in Outs : Maker[o] \in c /\ u = P.next[o] /\ u # None
    BY DEF Children, Made
  <2>2. o \in Inputs(u) /\ Maker[o] \in D
    BY <2>1 DEF Marks
  <2>3. u \in Children(P, D)
    BY <2>1, <2>2 DEF Children, Made
  <2> QED
    BY <1>1, <2>2, <2>3
<1>3. c \in SUBSET P.txs /\ s \subseteq c
  BY <1>1
<1>4. D \subseteq c
  <2> HIDE DEF c
  <2> QED
    BY <1>2, <1>3 DEF WithDescendants, D
<1> QED
  BY <1>4 DEF D

\* What remove takes away is t, or spends an output of t or of something that goes too.
LEMMA RemoveWhy ==
    ASSUME NEW P \in Pools, Marks(P), NEW t \in Txs
    PROVE  \A u \in P.txs \ remove(P, t).txs :
             u = t \/ \E o \in Inputs(u) : Maker[o] = t \/ Maker[o] \in P.txs \ remove(P, t).txs
<1> DEFINE s == IF t \in P.txs THEN {t} ELSE Children(P, {t}) \cap P.txs
           D == WithDescendants(P, s)
<1>1. s \subseteq P.txs
  OBVIOUS
<1>2. \A u \in s : u = t \/ \E o \in Inputs(u) : Maker[o] = t
  BY DEF Children, Made, Marks
<1> HIDE DEF s
<1>3. D \subseteq P.txs /\ \A u \in D : u \in s \/ \E o \in Inputs(u) : Maker[o] \in D
  BY <1>1, Descendants, DescendantsWhy
<1>4. remove(P, t) = RemoveAll(P, D)
  BY DEF remove, s
<1> HIDE DEF D
<1>5. P.txs \ remove(P, t).txs = D
  BY <1>3, <1>4, RemoveAllFacts
<1> QED
  BY <1>2, <1>3, <1>5

\* the same of a set
LEMMA EachWhy ==
    ASSUME NEW P \in Pools, Marks(P), NEW S, S \subseteq P.txs
    PROVE  \A u \in P.txs \ removeEach(P, S).txs :
             u \in S \/ \E o \in Inputs(u) : Maker[o] \in P.txs \ removeEach(P, S).txs
<1> DEFINE q == SetToSeq(S)
           n == Len(q)
<1>1. P.txs \subseteq Txs /\ S \subseteq Txs
  BY PoolFields
<1>2. n \in Nat /\ \A k \in 1..n : q[k] \in S
  BY <1>1, SetSeq
<1>3. PICK h \in [0..n -> Pools] : /\ h[0] = P /\ h[n] = removeEach(P, S)
                                   /\ \A k \in 1..n : h[k] = remove(h[k - 1], q[k])
  BY <1>1, EachUnrolled
<1> HIDE DEF q, n
<1> DEFINE Done(k) == /\ Marks(h[k]) /\ h[k].txs \subseteq P.txs
                      /\ \A u \in P.txs \ h[k].txs :
                            u \in S \/ \E o \in Inputs(u) : Maker[o] \in S \/ Maker[o] \in P.txs \ h[k].txs
           T == {k \in 0..n : Done(k)}
<1>4. 0 \in T
  BY <1>2, <1>3
<1>5. ASSUME NEW k \in 1..n, k - 1 \in T PROVE k \in T
  <2> DEFINE Q == h[k - 1]
             R == h[k]
  <2>1. Q \in Pools /\ q[k] \in S /\ q[k] \in Txs /\ R = remove(Q, q[k])
    BY <1>1, <1>2, <1>3
  <2>2. Done(k - 1)
    BY <1>5
  <2> HIDE DEF Q, R
  <2>3. Shrinks(Q, R)
    BY <2>1, RemoveShrinks
  <2>4. Marks(Q) /\ Q.txs \subseteq P.txs
    BY <2>2 DEF Q
  <2>5. Marks(R) /\ R.txs \subseteq Q.txs
    BY <2>3, <2>4 DEF Shrinks
  <2>6. \A u \in Q.txs \ R.txs : u \in S \/ \E o \in Inputs(u) : Maker[o] \in S \/ Maker[o] \in Q.txs \ R.txs
    BY <2>1, <2>4, RemoveWhy
  <2>7. \A u \in P.txs \ Q.txs : u \in S \/ \E o \in Inputs(u) : Maker[o] \in S \/ Maker[o] \in P.txs \ Q.txs
    BY <2>2 DEF Q
  <2>8. \A u \in P.txs \ R.txs : u \in S \/ \E o \in Inputs(u) : Maker[o] \in S \/ Maker[o] \in P.txs \ R.txs
    BY <2>4, <2>5, <2>6, <2>7
  <2>9. Done(k)
    BY <2>4, <2>5, <2>8 DEF R
  <2> HIDE DEF Done
  <2> QED
    BY <2>9
<1>6. \A k \in 1..n : k - 1 \in T => k \in T
  BY <1>5
<1>7. n \in T
  <2> HIDE DEF T
  <2>1. \A k \in 0..n : k \in T
    BY <1>2, <1>4, <1>6, StepTo
  <2> QED
    BY <1>2, <2>1
<1>8. \A t \in S : t \in P.txs \ removeEach(P, S).txs
  BY <1>1, EachShrinks
<1> QED
  BY <1>3, <1>7, <1>8

\* What goes from P to R because of a block B: it is in the block, or spends what the
\* block spends, or an output of something that goes and is not in the block.
Ousted(P, R, B) ==
    /\ R \in Pools /\ R.txs \subseteq P.txs /\ Marks(R)
    /\ \A u \in P.txs \ R.txs : \/ u \in B \/ Inputs(u) \cap Spent(B) # {}
                                \/ \E o \in Inputs(u) : Maker[o] \in (P.txs \ R.txs) \ B

\* B spends nothing that a transaction of the pool makes, unless it is in B too.
Apart(P, B) == \A u \in B : \A o \in Inputs(u) : Maker[o] \notin P.txs \ B

LEMMA OustedMore ==
    ASSUME NEW P, NEW B
    PROVE  /\ P \in Pools /\ Marks(P) => Ousted(P, P, B)
           /\ \A Q, R : Ousted(P, Q, B) /\ Ousted(Q, R, B) => Ousted(P, R, B)
           /\ \A Q : Apart(P, B) /\ Q.txs \subseteq P.txs => Apart(Q, B)
<1>1. ASSUME NEW Q, NEW R, Ousted(P, Q, B), Ousted(Q, R, B) PROVE Ousted(P, R, B)
  <2>1. /\ Q.txs \subseteq P.txs /\ R.txs \subseteq Q.txs /\ R \in Pools /\ Marks(R)
    BY <1>1 DEF Ousted
  <2>2. ASSUME NEW u \in P.txs \ R.txs
        PROVE  \/ u \in B \/ Inputs(u) \cap Spent(B) # {}
               \/ \E o \in Inputs(u) : Maker[o] \in (P.txs \ R.txs) \ B
    <3>1. CASE u \in Q.txs
      BY <1>1, <2>1, <3>1 DEF Ousted
    <3>2. CASE u \notin Q.txs
      BY <1>1, <2>1, <3>2 DEF Ousted
    <3> QED
      BY <3>1, <3>2
  <2> QED
    BY <2>1, <2>2 DEF Ousted
<1>2. P \in Pools /\ Marks(P) => Ousted(P, P, B)
  BY DEF Ousted
<1>3. \A Q : Apart(P, B) /\ Q.txs \subseteq P.txs => Apart(Q, B)
  BY DEF Apart
<1> QED
  BY <1>1, <1>2, <1>3

\* No two of q are the same or spend the same.
Distinct(q) ==
    \A i \in 1..Len(q) : \A j \in 1..(i - 1) : q[j] # q[i] /\ Inputs(q[j]) \cap Inputs(q[i]) = {}

LEMMA DistinctAll ==
    ASSUME NEW q \in Seq(Txs), Distinct(q)
    PROVE  \A i, j \in 1..Len(q) : i # j => q[i] # q[j] /\ Inputs(q[i]) \cap Inputs(q[j]) = {}
<1> SUFFICES ASSUME NEW i \in 1..Len(q), NEW j \in 1..Len(q), i # j
             PROVE  q[i] # q[j] /\ Inputs(q[i]) \cap Inputs(q[j]) = {}
  OBVIOUS
<1>1. CASE i < j
  <2>1. i \in 1..(j - 1)
    BY <1>1
  <2> QED
    BY <2>1 DEF Distinct
<1>2. CASE j < i
  <2>1. j \in 1..(i - 1)
    BY <1>2
  <2> QED
    BY <2>1 DEF Distinct
<1> QED
  BY <1>1, <1>2

LEMMA ConflictStepWhy ==
    ASSUME NEW P \in Pools, Marks(P), NEW B, Apart(P, B), NEW t \in B, NEW o \in Inputs(t), t \in Txs,
           \A u \in B \ {t} : Inputs(u) \cap Inputs(t) = {}
    PROVE  Ousted(P, ConflictStep(P, t, o), B)
<1> DEFINE v == P.next[o]
           D == WithDescendants(P, {v})
           R == ConflictStep(P, t, o)
<1>1. o \in Outs /\ P.txs \subseteq Txs
  BY InsVtx, PoolFields
<1>2. CASE v \in {None, t}
  <2>1. R = P
    BY <1>2 DEF ConflictStep
  <2> QED
    BY <2>1, OustedMore
<1>3. CASE v \notin {None, t}
  <2>1. v \in P.txs /\ o \in Inputs(v) /\ v \notin B
    BY <1>1, <1>3 DEF Marks
  <2>2. D \subseteq P.txs \ B
    <3> DEFINE c == P.txs \ B
    <3>1. c \subseteq P.txs /\ {v} \subseteq c /\ \A u \in P.txs : \A x \in Inputs(u) : Maker[x] \in c => u \in c
      BY <2>1 DEF Apart
    <3> HIDE DEF c, v
    <3>2. D \subseteq c
      BY <3>1, DescendantsIn
    <3> QED
      BY <3>2 DEF c
  <2>3. {v} \subseteq P.txs
    BY <2>1
  <2> HIDE DEF v
  <2>4. \A u \in D : u = v \/ \E x \in Inputs(u) : Maker[x] \in D
    BY <2>3, DescendantsWhy
  <2>5. R = RemoveAll(P, D)
    BY <1>3, <2>1 DEF ConflictStep, remove, v
  <2> HIDE DEF D, R
  <2>6. R \in Pools /\ R.txs = P.txs \ D /\ Marks(R)
    BY <2>2, <2>5, RemoveAllFacts, PoolsKept
  <2>7. o \in Spent(B)
    BY DEF Spent
  <2>8. \A u \in P.txs \ R.txs : Inputs(u) \cap Spent(B) # {} \/ \E x \in Inputs(u) : Maker[x] \in (P.txs \ R.txs) \ B
    <3> SUFFICES ASSUME NEW u \in D
                 PROVE  Inputs(u) \cap Spent(B) # {} \/ \E x \in Inputs(u) : Maker[x] \in (P.txs \ R.txs) \ B
      BY <2>6
    <3>1. CASE u = v
      BY <2>1, <2>7, <3>1
    <3>2. CASE u # v
      <4>1. PICK x \in Inputs(u) : Maker[x] \in D
        BY <2>4, <3>2
      <4>2. Maker[x] \in (P.txs \ R.txs) \ B
        BY <2>2, <2>6, <4>1
      <4> QED
        BY <4>2
    <3> QED
      BY <3>1, <3>2
  <2>9. R.txs \subseteq P.txs
    BY <2>6
  <2> QED
    BY <2>6, <2>8, <2>9 DEF Ousted, R
<1> HIDE DEF v
<1> QED
  BY <1>2, <1>3

\* Those that conflict with a transaction of a block, and what depends on them
LEMMA ConflictsWhy ==
    ASSUME NEW P \in Pools, Marks(P), NEW B, Apart(P, B), NEW t \in B, t \in Txs,
           \A u \in B \ {t} : Inputs(u) \cap Inputs(t) = {}
    PROVE  Ousted(P, removeConflicts(P, t), B)
<1> DEFINE q == Ins[t]
           n == Len(q)
<1>1. n \in Nat /\ \A k \in 1..n : q[k] \in Inputs(t)
  BY InsVtx DEF Inputs, Range
<1> HIDE DEF q, n
<1>2. PICK h \in [0..n -> Pools] : /\ h[0] = P /\ h[n] = removeConflicts(P, t)
                                   /\ \A k \in 1..n : h[k] = ConflictStep(h[k - 1], t, q[k])
  BY ConflictsUnrolled DEF n, q
<1> DEFINE S == {k \in 0..n : Ousted(P, h[k], B)}
<1>3. 0 \in S
  BY <1>1, <1>2, OustedMore
<1>4. ASSUME NEW k \in 1..n, k - 1 \in S PROVE k \in S
  <2>1. Ousted(P, h[k - 1], B) /\ h[k] = ConflictStep(h[k - 1], t, q[k]) /\ q[k] \in Inputs(t)
    BY <1>1, <1>2, <1>4
  <2>2. h[k - 1] \in Pools /\ Marks(h[k - 1]) /\ Apart(h[k - 1], B)
    BY <2>1, OustedMore DEF Ousted
  <2>3. Ousted(h[k - 1], h[k], B)
    BY <2>1, <2>2, ConflictStepWhy
  <2>4. Ousted(P, h[k], B)
    BY <2>1, <2>3, OustedMore
  <2> QED
    BY <2>4
<1>5. \A k \in 1..n : k - 1 \in S => k \in S
  BY <1>4
<1>6. \A k \in 0..n : k \in S
  <2> HIDE DEF S
  <2> QED
    BY <1>1, <1>3, <1>5, StepTo
<1>7. n \in S
  BY <1>1, <1>6
<1> QED
  BY <1>2, <1>7

\* A block that joins the chain
LEMMA BlockWhy ==
    ASSUME NEW P \in Pools, Marks(P), NEW q \in Seq(Txs), Distinct(q), Apart(P, Range(q))
    PROVE  Ousted(P, removeForBlock(P, q), Range(q)) /\ removeForBlock(P, q).txs \cap Range(q) = {}
<1> DEFINE n == Len(q)
           B == Range(q)
<1>1. n \in Nat /\ \A k \in 1..n : q[k] \in Txs /\ q[k] \in B /\ \A u \in B \ {q[k]} : Inputs(u) \cap Inputs(q[k]) = {}
  <2>1. \A u \in B : \E i \in 1..n : u = q[i]
    BY DEF Range
  <2>2. \A i, j \in 1..n : i # j => Inputs(q[i]) \cap Inputs(q[j]) = {}
    BY DistinctAll
  <2>3. n \in Nat /\ \A k \in 1..n : q[k] \in Txs /\ q[k] \in B
    BY DEF Range
  <2> HIDE DEF n, B
  <2> QED
    BY <2>1, <2>2, <2>3
<1>2. PICK h \in [0..n -> Pools] : /\ h[0] = P /\ h[n] = removeForBlock(P, q)
                                   /\ \A k \in 1..n : h[k] = BlockStep(h[k - 1], q[k])
  BY BlockUnrolled
<1>3. First(q, n) = B /\ First(q, 0) = {} /\ \A k \in 1..n : First(q, k) = First(q, k - 1) \cup {q[k]}
  BY DEF First, Range
<1> HIDE DEF n, B
<1> DEFINE S == {k \in 0..n : Ousted(P, h[k], B) /\ h[k].txs \cap First(q, k) = {}}
<1>4. 0 \in S
  BY <1>1, <1>2, <1>3, OustedMore
<1>5. ASSUME NEW k \in 1..n, k - 1 \in S PROVE k \in S
  <2> DEFINE t == q[k]
             Q == h[k - 1]
             A == removeAlone(Q, t)
             R == h[k]
  <2>1. Ousted(P, Q, B) /\ Q.txs \cap First(q, k - 1) = {} /\ R = removeConflicts(A, t)
    BY <1>2, <1>5 DEF BlockStep
  <2>2. t \in B /\ t \in Txs /\ \A u \in B \ {t} : Inputs(u) \cap Inputs(t) = {}
    BY <1>1
  <2>3. Q \in Pools /\ Marks(Q) /\ Apart(Q, B)
    BY <2>1, OustedMore DEF Ousted, B
  <2> HIDE DEF t, Q, R
  <2>4. A \in Pools /\ A.txs = Q.txs \ {t} /\ Marks(A)
    <3>1. {t} \cap Q.txs \subseteq Q.txs
      OBVIOUS
    <3>2. A.txs = Q.txs \ ({t} \cap Q.txs) /\ Marks(A)
      BY <2>3, <3>1, RemoveAllFacts DEF removeAlone
    <3>3. A \in Pools
      BY <2>3, PoolsKept
    <3> HIDE DEF A
    <3> QED
      BY <3>2, <3>3
  <2> HIDE DEF A
  <2>5. Ousted(Q, A, B)
    BY <2>2, <2>4 DEF Ousted
  <2>6. Apart(A, B)
    BY <2>3, <2>4, OustedMore
  <2>7. Ousted(A, R, B)
    BY <2>1, <2>2, <2>4, <2>6, ConflictsWhy
  <2>8. Ousted(P, R, B)
    BY <2>1, <2>5, <2>7, OustedMore
  <2>9. R.txs \cap First(q, k) = {}
    <3>1. R.txs \subseteq A.txs
      BY <2>7 DEF Ousted
    <3>2. First(q, k) = First(q, k - 1) \cup {t}
      BY <1>3 DEF t
    <3> QED
      BY <2>1, <2>4, <3>1, <3>2
  <2> QED
    BY <2>8, <2>9 DEF R
<1>6. \A k \in 1..n : k - 1 \in S => k \in S
  BY <1>5
<1>7. \A k \in 0..n : k \in S
  <2> HIDE DEF S
  <2> QED
    BY <1>1, <1>4, <1>6, StepTo
<1>8. n \in S
  BY <1>1, <1>7
<1> QED
  BY <1>2, <1>3, <1>8 DEF B

-----------------------------------------------------------------------------
(* A block joins the chain. *)

LEMMA ConnectSound ==
    ASSUME ChainSound, tip \in AllBlocks, coins \in SUBSET Outs, NEW b \in Blocks, Parent[b] = tip, Connectable(b)
    PROVE  SoundBlock(b)
<1> DEFINE q == Vtx[b]
           n == Len(q)
           B == Range(q)
           old == Mined(tip)
<1>1. q \in Seq(Txs) /\ n \in Nat /\ B \subseteq Txs /\ None \notin Txs /\ Mined(b) = B \cup old
  BY InsVtx, MinedFacts DEF AllBlocks
<1>2. \A i \in 1..n : /\ Inputs(q[i]) \subseteq (coins \cup Made(First(q, i - 1))) \ Spent(First(q, i - 1))
                      /\ ~Immature(q[i], Height[b])
  BY <1>1 DEF Connectable, First
<1>3. b \in Blocks \ (FailsCheck \cup FailsConnect)
  BY DEF Connectable
<1>4. \A i \in 1..n : Ins[q[i]] = << >> => i = 1 /\ q[i] \notin old
  <2> SUFFICES ASSUME NEW i \in 1..n, Ins[q[i]] = << >> PROVE i = 1 /\ q[i] \notin old
    OBVIOUS
  <2>1. i = 1 /\ \A c \in Chain[Parent[b]] \cup {Genesis} : q[i] \notin Range(Vtx[c])
    BY <1>1, <1>3, ConsensusAssumption
  <2> QED
    BY <2>1 DEF Mined
<1>5. \A i \in 1..n : Ins[q[i]] # << >> => Inputs(q[i]) # {}
  <2> SUFFICES ASSUME NEW i \in 1..n, Ins[q[i]] # << >> PROVE Inputs(q[i]) # {}
    OBVIOUS
  <2>1. Ins[q[i]] \in Seq(Outs)
    BY <1>1, InsVtx
  <2>2. Ins[q[i]][1] \in Inputs(q[i])
    BY <2>1 DEF Inputs, Range
  <2> QED
    BY <2>2
<1>6. First(q, 0) = {} /\ First(q, n) = B /\ \A k \in 1..n : /\ First(q, k) = First(q, k - 1) \cup {q[k]}
                                                            /\ First(q, k) \subseteq B
  BY <1>1 DEF First, Range
<1>7. \A x : \A o \in Made(x) : Maker[o] \in x
  BY DEF Made
<1>8. \A o \in Spent(old) : o \notin coins /\ Maker[o] \in old \cup {None}
  BY Traced DEF ChainSound
<1> HIDE DEF q, n, B, old
<1>9. B \cap old = {}
  <2> DEFINE S == {k \in 0..n : First(q, k) \cap old = {}}
  <2>1. 0 \in S
    BY <1>1, <1>6
  <2>2. ASSUME NEW k \in 1..n, k - 1 \in S PROVE k \in S
    <3>1. First(q, k - 1) \cap old = {} /\ First(q, k - 1) \subseteq B
      BY <1>6, <2>2
    <3>2. ASSUME q[k] \in old PROVE FALSE
      <4>1. PICK o \in Inputs(q[k]) : TRUE
        BY <1>4, <1>5, <3>2
      <4>2. o \in Spent(old)
        BY <3>2 DEF Spent
      <4>3. o \in Made(First(q, k - 1))
        BY <1>2, <1>8, <4>2
      <4>4. Maker[o] \in First(q, k - 1) /\ Maker[o] \in old \cup {None}
        BY <1>7, <1>8, <4>2, <4>3
      <4> QED
        BY <1>1, <3>1, <4>4
    <3> QED
      BY <1>6, <3>1, <3>2
  <2>3. \A k \in 1..n : k - 1 \in S => k \in S
    BY <2>2
  <2>4. \A k \in 0..n : k \in S
    <3> HIDE DEF S
    <3> QED
      BY <1>1, <2>1, <2>3, StepTo
  <2>5. n \in S
    BY <1>1, <2>4
  <2> QED
    BY <1>6, <2>5
<1>10. \A o \in Spent(B) : \E i \in 1..n : o \in Inputs(q[i])
  BY DEF Spent, Range, B, n
<1>11. ASSUME NEW i \in 1..n, NEW o \in Inputs(q[i])
       PROVE  Maker[o] \in old \cup First(q, i - 1) \cup {None} /\ o \notin Spent(old) /\ First(q, i - 1) \subseteq B
  <2>1. o \in coins \/ Maker[o] \in First(q, i - 1)
    BY <1>2, <1>7
  <2>2. First(q, i - 1) \subseteq B
    BY <1>6
  <2>3. o \in coins => Maker[o] \in old \cup {None}
    BY DEF ChainSound, old
  <2> QED
    BY <1>1, <1>8, <1>9, <2>1, <2>2, <2>3
<1>12. Spent(B) \cap Spent(old) = {}
  BY <1>10, <1>11
<1>13. \A o \in Spent(Mined(b)) : Maker[o] \in Mined(b) \cup {None}
  <2>1. Spent(Mined(b)) = Spent(B) \cup Spent(old)
    BY <1>1 DEF Spent
  <2>2. \A o \in Spent(B) : Maker[o] \in B \cup old \cup {None}
    BY <1>10, <1>11
  <2> QED
    BY <1>1, <1>8, <2>1, <2>2
<1>14. ASSUME NEW i \in 1..n, NEW j \in 1..(i - 1)
       PROVE  q[j] # q[i] /\ Inputs(q[j]) \cap Inputs(q[i]) = {}
  <2>1. q[j] \in First(q, i - 1)
    BY DEF First
  <2>2. Inputs(q[j]) \cap Inputs(q[i]) = {}
    BY <1>2, <2>1 DEF Spent
  <2>3. i # 1
    BY <1>1
  <2>4. Inputs(q[i]) # {}
    BY <1>4, <1>5, <2>3
  <2> QED
    BY <2>2, <2>4
<1> QED
  BY <1>2, <1>3, <1>9, <1>11, <1>12, <1>13, <1>14 DEF SoundBlock, q, n, B, old

\* What the proof of NothingLost needs of the chain: no transaction of the pool is mined.
NInv == ChainSound /\ pool.txs \cap Mined(tip) = {}

LEMMA NInvNext ==
    ASSUME NEW b, tip' = b, NEW C, coins' = C, NEW P, pool' = P,
           \A c \in Chain[b] : SoundBlock(c),
           C \cap Spent(Mined(b)) = {},
           \A o \in C : Maker[o] \in Mined(b) \cup {None},
           P.txs \cap Mined(b) = {}
    PROVE  NInv'
<1>1. \A c \in Chain[b] : SoundBlock(c)'
  BY DEF SoundBlock, Mined, Spent, Immature, First, Inputs, Range, AllBlocks
<1>2. (coins \cap Spent(Mined(tip)) = {})' /\ (\A o \in coins : Maker[o] \in Mined(tip) \cup {None})'
  BY DEF Mined, Spent, Inputs, Range
<1>3. (pool.txs \cap Mined(tip) = {})'
  BY DEF Mined, Range
<1> QED
  BY <1>1, <1>2, <1>3 DEF NInv, ChainSound

\* What is made in the pool is not among the coins.
LEMMA PoolOwnsMade ==
    ASSUME NInv, pool \in Pools
    PROVE  \A o \in coins : Maker[o] \notin pool.txs
<1>1. pool.txs \subseteq Txs /\ None \notin Txs
  BY PoolFields, InsVtx
<1> QED
  BY <1>1 DEF NInv, ChainSound

LEMMA GrowthLoses ==
    ASSUME MInv, NInv, Grows(pool, pool'), UNCHANGED <<tip, coins>>
    PROVE  NInv' /\ LosesNothing
<1>1. pool.txs \subseteq pool'.txs /\ pool'.txs \cap Mined(tip) = {}
  BY DEF Grows, NInv
<1>2. NInv'
  BY <1>1, NInvNext DEF NInv, ChainSound
<1>3. Held \subseteq Held'
  BY <1>1 DEF Held, Range
<1> QED
  BY <1>2, <1>3 DEF LosesNothing

LEMMA ConnectLoses ==
    ASSUME MInv, CInv, NInv, ~CC, NEW b \in Blocks, ConnectTip(b)
    PROVE  NInv' /\ LosesNothing
<1> DEFINE q == Vtx[b]
           B == Range(q)
           Q == removeForBlock(pool, q)
           expired == {t \in Q.txs : Height[b] > Latest[t]}
           R == removeEach(Q, expired)
<1>1. /\ pool \in Pools /\ Marks(pool) /\ pool.txs \subseteq Txs /\ None \notin Txs
      /\ tip \in AllBlocks /\ coins \in SUBSET Outs
  BY TypeFields, PoolFields, InsVtx DEF MInv
<1>2. /\ Parent[b] = tip /\ q \in Seq(Txs) /\ B \subseteq Txs
      /\ Mined(b) = B \cup Mined(tip) /\ Chain[b] = {b} \cup Chain[tip]
  BY Tree, MinedFacts, MempoolAssumption DEF ConnectTip
<1>3. CheckBlock(b).pool = pool
  BY CheckKept
<1>4. ChainSound /\ pool.txs \cap Mined(tip) = {}
  BY DEF NInv
<1>5. CASE /\ Connectable(b)
           /\ coins' = (coins \cup Made(B)) \ Spent(B)
           /\ pool' = removeExpired(removeForBlock(pool, q), Height[b])
           /\ tip' = b
  <2>1. SoundBlock(b)
    BY <1>1, <1>2, <1>4, <1>5, ConnectSound
  <2>2. /\ B \cap Mined(tip) = {}
        /\ \A o \in Spent(Mined(b)) : Maker[o] \in Mined(b) \cup {None}
        /\ Distinct(q)
        /\ \A o \in Spent(B) : Maker[o] \in Mined(b) \cup {None}
    <3>1. \A o \in Spent(B) : o \in Spent(Mined(b))
      BY <1>2 DEF Spent
    <3>2. /\ B \cap Mined(tip) = {} /\ Distinct(q)
          /\ \A o \in Spent(Mined(b)) : Maker[o] \in Mined(b) \cup {None}
      BY <1>2, <2>1 DEF SoundBlock, Distinct
    <3> QED
      BY <3>1, <3>2
  <2>3. Apart(pool, B)
    <3>1. \A u \in B : \A o \in Inputs(u) : o \in Spent(B)
      BY DEF Spent
    <3> QED
      BY <1>1, <1>2, <1>4, <2>2, <3>1 DEF Apart
  <2>4. Ousted(pool, Q, B) /\ Q.txs \cap B = {}
    BY <1>1, <1>2, <2>2, <2>3, BlockWhy
  <2>5. pool' = R
    BY <1>5 DEF removeExpired
  <2> HIDE DEF Q
  <2>6. Q \in Pools /\ Marks(Q) /\ Q.txs \subseteq pool.txs /\ expired \subseteq Q.txs /\ expired \subseteq Txs
    BY <1>1, <2>4 DEF Ousted
  <2>7. Shrinks(Q, R)
    <3> HIDE DEF expired
    <3> QED
      BY <2>6, EachShrinks
  <2>8. \A u \in Q.txs \ R.txs : Height[b] > Latest[u] \/ \E o \in Inputs(u) : Maker[o] \in Q.txs \ R.txs
    <3>1. \A u \in Q.txs \ R.txs : u \in expired \/ \E o \in Inputs(u) : Maker[o] \in Q.txs \ R.txs
      <4> HIDE DEF expired
      <4> QED
        BY <2>6, EachWhy
    <3> QED
      BY <3>1
  <2> HIDE DEF R
  <2>9. R.txs \subseteq Q.txs
    BY <2>7 DEF Shrinks
  <2>10. NInv'
    <3> DEFINE C == (coins \cup Made(B)) \ Spent(B)
    <3>1. \A c \in Chain[b] : SoundBlock(c)
      BY <1>2, <1>4, <2>1 DEF ChainSound
    <3>2. \A o \in Made(B) : Maker[o] \in B
      BY DEF Made
    <3>3. Spent(Mined(b)) = Spent(B) \cup Spent(Mined(tip))
      BY <1>2 DEF Spent
    <3>4. \A o \in Spent(Mined(tip)) : o \notin coins /\ Maker[o] \in Mined(tip) \cup {None}
      BY <1>1, <1>4, Traced DEF ChainSound
    <3>5. C \cap Spent(Mined(b)) = {}
      BY <1>1, <1>2, <2>2, <3>2, <3>3, <3>4
    <3>6. \A o \in C : Maker[o] \in Mined(b) \cup {None}
      BY <1>2, <1>4, <3>2 DEF ChainSound
    <3>7. R.txs \cap Mined(b) = {}
      BY <1>2, <1>4, <2>4, <2>6, <2>9
    <3> HIDE DEF C
    <3>8. coins' = C
      BY <1>5 DEF C
    <3> QED
      BY <1>5, <2>5, <3>1, <3>5, <3>6, <3>7, <3>8, NInvNext
  <2>11. \A o : Maker[o] \in pool.txs \ B => o \notin coins'
    <3>1. \A o \in coins : Maker[o] \notin pool.txs
      BY <1>1, PoolOwnsMade
    <3>2. \A o \in Made(B) : Maker[o] \in B
      BY DEF Made
    <3> QED
      BY <1>5, <3>1, <3>2
  <2>12. ASSUME NEW t \in Held, t \notin Held'
         PROVE  \/ Height[b] > Latest[t]
                \/ \E o \in Inputs(t) : o \notin coins' /\ Maker[o] \notin R.txs
    <3>1. t \in pool.txs /\ t \notin R.txs /\ t \notin B
      <4>1. Held' = R.txs \cup UNION {Range(Vtx[c]) : c \in Chain[b]}
        BY <1>5, <2>5 DEF Held, Range
      <4> QED
        BY <1>2, <2>12, <4>1 DEF Held
    <3>2. CASE t \notin Q.txs
      <4>1. \/ Inputs(t) \cap Spent(B) # {}
            \/ \E o \in Inputs(t) : Maker[o] \in (pool.txs \ Q.txs) \ B
        BY <2>4, <3>1, <3>2 DEF Ousted
      <4>2. ASSUME NEW o \in Inputs(t), o \in Spent(B) PROVE o \notin coins' /\ Maker[o] \notin R.txs
        <5>1. Maker[o] \in B \cup Mined(tip) \cup {None}
          BY <1>2, <2>2, <4>2
        <5>2. R.txs \cap (B \cup Mined(tip) \cup {None}) = {}
          BY <1>1, <1>4, <2>4, <2>6, <2>9
        <5> QED
          BY <1>5, <4>2, <5>1, <5>2
      <4>3. ASSUME NEW o \in Inputs(t), Maker[o] \in (pool.txs \ Q.txs) \ B PROVE o \notin coins' /\ Maker[o] \notin R.txs
        BY <2>9, <2>11, <4>3
      <4> QED
        BY <4>1, <4>2, <4>3
    <3>3. CASE t \in Q.txs
      <4>1. \A o : Maker[o] \in Q.txs \ R.txs => o \notin coins' /\ Maker[o] \notin R.txs
        BY <2>4, <2>6, <2>11
      <4> QED
        BY <2>8, <3>1, <3>3, <4>1
    <3> QED
      BY <3>2, <3>3
  <2>13. LosesNothing
    BY <1>5, <2>5, <2>12 DEF LosesNothing
  <2> QED
    BY <2>10, <2>13
<1>6. CASE pool' = pool /\ UNCHANGED <<coins, tip>>
  <2>1. Grows(pool, pool')
    BY <1>1, <1>6, GrowsMore
  <2> QED
    BY <1>6, <2>1, GrowthLoses
<1> QED
  BY <1>3, <1>5, <1>6 DEF ConnectTip

-----------------------------------------------------------------------------
(* A block leaves the chain. *)

\* What keeps a transaction of the tip out of the pool, whatever its inputs are
Barred(t) ==
    \/ t \in Coinbases \cup NonStandard
    \/ Earliest[t] > Height[tip] + 1 \/ Height[tip] + 1 > Latest[t]
    \/ Anchor[t] \notin Roots(Parent[tip]) \cup {None}

\* The transactions q of the tip can come back to P: none is in it, or conflicts with it,
\* or is among the coins C, or spends what comes later.
Returns(P, C, q) ==
    /\ Distinct(q) /\ P.txs \cap Range(q) = {}
    /\ C \cap Made(Range(q)) = {} /\ \A o \in C : Maker[o] \notin P.txs
    /\ \A i \in 1..Len(q) :
          /\ \A u \in P.txs : Inputs(u) \cap Inputs(q[i]) = {}
          /\ \A o \in Inputs(q[i]) : \A j \in i..Len(q) : Maker[o] # q[j]
          /\ ~Immature(q[i], Height[Parent[tip]] + 1)

\* One that does not come back is barred, or an input is missing.
LEMMA RefusedWhy ==
    ASSUME NEW P \in Pools, NEW C \in SUBSET Outs, NEW q \in Seq(Txs), Returns(P, C, q),
           NEW k \in 1..Len(q), NEW Q \in Pools, Marks(Q), Q.txs \subseteq P.txs \cup First(q, k - 1),
           Verdict(Q, C, Parent[tip], Height[tip], q[k]) # "ok"
    PROVE  Barred(q[k]) \/ \E o \in Inputs(q[k]) : o \notin C /\ Maker[o] \notin Q.txs
<1> DEFINE t == q[k]
<1>1. \A i, j \in 1..Len(q) : i # j => q[i] # q[j] /\ Inputs(q[i]) \cap Inputs(q[j]) = {}
  BY DistinctAll DEF Returns
<1>2. t \in Range(q) /\ t \in Txs /\ Inputs(t) \subseteq Outs
  BY InsVtx DEF Range
<1>3. \A v \in First(q, k - 1) : v # t /\ Inputs(v) \cap Inputs(t) = {}
  <2> SUFFICES ASSUME NEW i \in 1..(k - 1) PROVE q[i] # t /\ Inputs(q[i]) \cap Inputs(t) = {}
    BY DEF First
  <2>1. i \in 1..Len(q) /\ i # k
    OBVIOUS
  <2> QED
    BY <1>1, <2>1
<1>4. /\ \A u \in P.txs : u # t /\ Inputs(u) \cap Inputs(t) = {}
      /\ Made({t}) \cap C = {} /\ ~Immature(t, Height[Parent[tip]] + 1)
  BY <1>2 DEF Returns, Made
<1>5. \A u \in Q.txs : u # t /\ Inputs(u) \cap Inputs(t) = {}
  BY <1>3, <1>4
<1>6. t \notin Q.txs /\ \A o \in Inputs(t) : Q.next[o] = None
  BY <1>2, <1>5 DEF Marks
<1>7. ~HaveCoins(Q, C, t)
  BY <1>4, <1>6 DEF HaveCoins
<1>8. \/ Refused(Q, C, Height[tip], t) \/ MissingInputs(Q, C, t)
      \/ Invalid(Q, C, Parent[tip], t)
  BY DEF Verdict
<1>9. CASE Refused(Q, C, Height[tip], t)
  BY <1>6, <1>7, <1>9 DEF Refused, Barred
<1>10. CASE MissingInputs(Q, C, t)
  <2>1. PICK o \in Inputs(t) : ~HaveCoins(Q, C, Maker[o])
    BY <1>10 DEF MissingInputs
  <2>2. Maker[o] \notin Q.txs /\ o \notin C
    BY <1>2, <2>1 DEF HaveCoins, Made
  <2> QED
    BY <2>2
<1>11. CASE Invalid(Q, C, Parent[tip], t)
  BY <1>4, <1>11 DEF Invalid, Barred
<1> QED
  BY <1>8, <1>9, <1>10, <1>11

LEMMA ResurrectWhy ==
    ASSUME NEW P \in Pools, Marks(P), NEW C \in SUBSET Outs, NEW q \in Seq(Txs), Returns(P, C, q), tip \in Blocks
    PROVE  LET R == ResurrectEach(P, C, q)
           IN  /\ R.txs \subseteq P.txs \cup Range(q)
               /\ \A u \in (P.txs \cup Range(q)) \ R.txs :
                     Barred(u) \/ \E o \in Inputs(u) : o \notin C /\ Maker[o] \notin R.txs
<1> DEFINE n == Len(q)
<1>1. /\ n \in Nat /\ Height[tip] \in Nat /\ Parent[tip] \in AllBlocks
      /\ \A k \in 1..n : q[k] \in Txs
  BY MempoolAssumption DEF AllBlocks
<1>2. PICK h \in [0..n -> Pools] : /\ h[0] = P /\ h[n] = ResurrectEach(P, C, q)
                                   /\ \A k \in 1..n : h[k] = Resurrect(h[k - 1], C, q[k])
  BY ResurrectUnrolled
<1>3. /\ First(q, n) = Range(q) /\ First(q, 0) = {}
      /\ \A k \in 1..n : First(q, k) = First(q, k - 1) \cup {q[k]} /\ First(q, k) \subseteq Range(q)
  BY DEF First, Range
<1>4. \A k \in 1..n : After(q, k - 1) = After(q, k) \cup {q[k]}
  BY <1>1 DEF After
<1>5. ASSUME NEW k \in 1..n
      PROVE  /\ \A v \in After(q, k) : v # q[k] /\ v \notin P.txs \cup First(q, k - 1)
             /\ \A o \in Inputs(q[k]) : Maker[o] \notin After(q, k)
  <2> SUFFICES ASSUME NEW j \in (k + 1)..n
               PROVE  /\ q[j] # q[k] /\ q[j] \notin P.txs \cup First(q, k - 1)
                      /\ \A o \in Inputs(q[k]) : Maker[o] # q[j]
    BY DEF After
  <2>1. j \in 1..n /\ j \in k..n /\ j # k /\ \A i \in 1..(k - 1) : i \in 1..n /\ i # j
    BY <1>1
  <2>2. \A i \in 1..n : i # j => q[i] # q[j]
    BY <2>1, DistinctAll DEF Returns
  <2>3. q[j] \in Range(q)
    BY <2>1 DEF Range
  <2>4. q[j] \notin P.txs /\ \A o \in Inputs(q[k]) : Maker[o] # q[j]
    BY <2>1, <2>3 DEF Returns
  <2>5. q[j] \notin First(q, k - 1)
    BY <2>1, <2>2 DEF First
  <2> QED
    BY <2>1, <2>2, <2>4, <2>5
<1>6. \A o : o \in C => Maker[o] \notin P.txs \cup Range(q)
  BY DEF Returns, Made
<1> DEFINE Lost(u, k) == Barred(u) \/ \E o \in Inputs(u) : o \notin C /\ Maker[o] \notin h[k].txs \cup After(q, k)
           Done(k) == /\ Marks(h[k]) /\ h[k].txs \subseteq P.txs \cup First(q, k)
                      /\ \A u \in (P.txs \cup First(q, k)) \ h[k].txs : Lost(u, k)
           S == {k \in 0..n : Done(k)}
<1> HIDE DEF n
<1>7. 0 \in S
  BY <1>1, <1>2, <1>3
<1>8. ASSUME NEW k \in 1..n, k - 1 \in S PROVE k \in S
  <2> DEFINE t == q[k]
             Q == h[k - 1]
             R == h[k]
  <2>1. Q \in Pools /\ t \in Txs /\ R = Resurrect(Q, C, t)
    BY <1>1, <1>2
  <2>2. /\ Marks(Q) /\ Q.txs \subseteq P.txs \cup First(q, k - 1)
        /\ \A u \in (P.txs \cup First(q, k - 1)) \ Q.txs :
              Barred(u) \/ \E o \in Inputs(u) : o \notin C /\ Maker[o] \notin Q.txs \cup After(q, k - 1)
    BY <1>8
  <2>3. /\ First(q, k) = First(q, k - 1) \cup {t} /\ First(q, k) \subseteq Range(q)
        /\ After(q, k - 1) = After(q, k) \cup {t}
    BY <1>3, <1>4
  <2>4. /\ \A v \in After(q, k) : v # t /\ v \notin P.txs \cup First(q, k - 1)
        /\ \A o \in Inputs(t) : Maker[o] \notin After(q, k)
    BY <1>5
  <2>5. k \in 1..Len(q)
    BY DEF n
  <2>6. SUFFICES /\ Marks(R) /\ R.txs \subseteq Q.txs \cup {t}
                 /\ \A u \in (Q.txs \cup {t}) \ R.txs :
                       Barred(u) \/ \E o \in Inputs(u) : o \notin C /\ Maker[o] \notin R.txs \cup After(q, k)
    <3>1. Marks(h[k]) /\ h[k].txs \subseteq P.txs \cup First(q, k)
      BY <2>2, <2>3, <2>6
    <3>2. ASSUME NEW u \in (P.txs \cup First(q, k)) \ h[k].txs PROVE Lost(u, k)
      <4> HIDE DEF Q, R, t
      <4>1. CASE u \in Q.txs \cup {t}
        BY <2>6, <3>2, <4>1 DEF R
      <4>2. CASE u \notin Q.txs \cup {t}
        <5>1. Barred(u) \/ \E o \in Inputs(u) : o \notin C /\ Maker[o] \notin Q.txs \cup After(q, k - 1)
          BY <2>2, <2>3, <3>2, <4>2
        <5>2. \A o : Maker[o] \notin Q.txs \cup After(q, k - 1) => Maker[o] \notin R.txs \cup After(q, k)
          BY <2>3, <2>6
        <5> QED
          BY <5>1, <5>2 DEF R
      <4> QED
        BY <4>1, <4>2
    <3>3. Done(k)
      BY <3>1, <3>2
    <3> HIDE DEF Done
    <3> QED
      BY <3>3
  <2> HIDE DEF Q, R
  <2>7. CASE Verdict(Q, C, Parent[tip], Height[tip], t) = "ok"
    <3>1. R = Accept(Q, t)
      BY <2>1, <2>7 DEF Resurrect
    <3> HIDE DEF t
    <3>2. Accept(Q, t).txs = Q.txs \cup {t} /\ Marks(Accept(Q, t))
      BY <1>1, <2>1, <2>2, <2>7, AcceptFacts
    <3> QED
      BY <3>1, <3>2
  <2>8. CASE Verdict(Q, C, Parent[tip], Height[tip], t) # "ok"
    <3>1. R = remove(Q, t)
      BY <2>1, <2>8 DEF Resurrect
    <3>2. Marks(R) /\ R.txs \subseteq Q.txs
      BY <2>1, <2>2, <3>1, RemoveShrinks DEF Shrinks
    <3>3. Barred(t) \/ \E o \in Inputs(t) : o \notin C /\ Maker[o] \notin Q.txs
      BY <2>1, <2>2, <2>5, <2>8, RefusedWhy
    <3>4. \A u \in Q.txs \ R.txs : u = t \/ \E o \in Inputs(u) : Maker[o] = t \/ Maker[o] \in Q.txs \ R.txs
      BY <2>1, <2>2, <3>1, RemoveWhy
    <3>5. t \notin Q.txs
      <4>1. t \in Range(q) /\ \A i \in 1..(k - 1) : q[i] # t
        BY <2>5, DistinctAll DEF Returns, Range, Distinct
      <4> QED
        BY <2>2, <4>1 DEF Returns, First
    <3>6. \A o : Maker[o] = t \/ Maker[o] \in Q.txs \ R.txs => o \notin C /\ Maker[o] \notin R.txs \cup After(q, k)
      BY <1>6, <2>2, <2>3, <2>4, <3>2, <3>5
    <3>7. \A o \in Inputs(t) : Maker[o] \notin Q.txs => Maker[o] \notin R.txs \cup After(q, k)
      BY <2>4, <3>2
    <3> HIDE DEF t
    <3> QED
      BY <3>2, <3>3, <3>4, <3>5, <3>6, <3>7
  <2> QED
    BY <2>7, <2>8
<1>9. \A k \in 1..n : k - 1 \in S => k \in S
  BY <1>8
<1>10. n \in S
  <2> HIDE DEF S
  <2>1. \A k \in 0..n : k \in S
    BY <1>1, <1>7, <1>9, StepTo
  <2> QED
    BY <1>1, <2>1
<1>11. Done(n)
  BY <1>10
<1> QED
  BY <1>2, <1>3, <1>11

LEMMA DisconnectReturns ==
    ASSUME MInv, CInv, NInv, tip \in Blocks, NEW C,
           C = (coins \ Made(Range(Vtx[tip]))) \cup (Spent(Range(Vtx[tip])) \ Made(Range(Vtx[tip])))
    PROVE  /\ Returns(pool, C, Vtx[tip]) /\ C \in SUBSET Outs
           /\ C \cap Spent(Mined(Parent[tip])) = {}
           /\ \A o \in C : Maker[o] \in Mined(Parent[tip]) \cup {None}
           /\ Range(Vtx[tip]) \cap Mined(Parent[tip]) = {}
           /\ SoundBlock(tip)
<1> DEFINE q == Vtx[tip]
           B == Range(q)
           below == Parent[tip]
           old == Mined(below)
<1>1. /\ pool \in Pools /\ Marks(pool) /\ pool.txs \subseteq Txs /\ None \notin Txs /\ coins \in SUBSET Outs
      /\ Avail(pool, coins)
  BY TypeFields, PoolFields, InsVtx DEF MInv, CInv
<1>2. /\ q \in Seq(Txs) /\ B \subseteq Txs /\ Height[tip] = Height[below] + 1
      /\ Mined(tip) = B \cup old
  BY Tree, MinedFacts
<1>3. /\ SoundBlock(tip) /\ pool.txs \cap Mined(tip) = {} /\ coins \cap Spent(Mined(tip)) = {}
      /\ \A o \in coins : Maker[o] \in Mined(tip) \cup {None}
  BY MinedFacts DEF NInv, ChainSound
<1>4. /\ B \cap old = {} /\ Spent(B) \cap Spent(old) = {}
      /\ \A o \in Spent(Mined(tip)) : Maker[o] \in Mined(tip) \cup {None}
      /\ Distinct(q)
      /\ \A i \in 1..Len(q) : /\ ~Immature(q[i], Height[tip])
                              /\ \A o \in Inputs(q[i]) : Maker[o] \in old \cup First(q, i - 1) \cup {None}
  BY <1>3 DEF SoundBlock, Distinct
<1>5. Spent(Mined(tip)) = Spent(B) \cup Spent(old) /\ Spent(B) \subseteq Outs
  BY <1>2, InsVtx DEF Spent
<1>6. \A i \in 1..Len(q) : q[i] \in B /\ Inputs(q[i]) \subseteq Spent(B)
  BY DEF Spent, Range
<1>7. \A o \in Outs : o \in Made(B) <=> Maker[o] \in B
  BY DEF Made
<1>8. C = (coins \cup Spent(B)) \ Made(B)
  OBVIOUS
<1>9. ASSUME NEW i \in 1..Len(q), NEW o \in Inputs(q[i]), NEW j \in i..Len(q)
      PROVE  Maker[o] # q[j]
  <2>1. j \in 1..Len(q) /\ \A m \in 1..(i - 1) : m \in 1..Len(q) /\ m # j
    BY <1>2
  <2>2. q[j] \notin First(q, i - 1)
    BY <1>2, <1>4, <2>1, DistinctAll DEF First
  <2>3. q[j] \in B /\ q[j] # None
    BY <1>1, <1>2, <1>6, <2>1
  <2> QED
    BY <1>4, <2>2, <2>3
<1> HIDE DEF q, B, below, old
<1>10. /\ C \in SUBSET Outs /\ C \cap Made(B) = {} /\ C \cap Spent(old) = {}
       /\ \A o \in C : Maker[o] \in old \cup {None}
  BY <1>1, <1>2, <1>3, <1>4, <1>5, <1>7, <1>8
<1>11. \A o \in C : Maker[o] \notin pool.txs
  BY <1>1, <1>2, <1>3, <1>10
<1>12. ASSUME NEW i \in 1..Len(q), NEW u \in pool.txs PROVE Inputs(u) \cap Inputs(q[i]) = {}
  <2> SUFFICES ASSUME NEW o \in Inputs(u), o \in Inputs(q[i]) PROVE FALSE
    OBVIOUS
  <2>1. o \in Spent(Mined(tip))
    BY <1>5, <1>6
  <2>2. o \in coins \/ Maker[o] \in pool.txs
    BY <1>1 DEF Avail
  <2> QED
    BY <1>1, <1>3, <1>4, <2>1, <2>2
<1>13. pool.txs \cap B = {} /\ \A i \in 1..Len(q) : ~Immature(q[i], Height[below] + 1)
  BY <1>2, <1>3, <1>4
<1>14. Returns(pool, C, q)
  BY <1>4, <1>9, <1>10, <1>11, <1>12, <1>13 DEF Returns, B, below
<1> QED
  BY <1>3, <1>4, <1>10, <1>14 DEF q, B, below, old

LEMMA DisconnectLoses ==
    ASSUME MInv, CInv, NInv, DisconnectTip
    PROVE  NInv' /\ LosesNothing
<1> DEFINE q == Vtx[tip]
           B == Range(q)
           C == (coins \ Made(B)) \cup (Spent(B) \ Made(B))
           Q == ResurrectEach(pool, C, q)
           gone == {t \in Q.txs : Anchor[t] = Root[tip]}
           R == AnchorGone(Q, tip)
           below == Parent[tip]
<1>1. /\ tip \in Blocks /\ pool \in Pools /\ Marks(pool) /\ pool.txs \subseteq Txs
      /\ Earliest \in [Txs -> Nat] /\ Latest \in [Txs -> Nat]
  BY TypeFields, PoolFields, MempoolAssumption DEF MInv, DisconnectTip, AllBlocks
<1>2. coins' = C /\ pool' = R /\ tip' = below
  BY DEF DisconnectTip
<1>3. /\ q \in Seq(Txs) /\ B \subseteq Txs /\ Height[tip] = Height[below] + 1 /\ Height[below] \in Nat
      /\ Mined(tip) = B \cup Mined(below) /\ Chain[tip] = {tip} \cup Chain[below]
  BY <1>1, Tree, MinedFacts, MempoolAssumption
<1>4. /\ Returns(pool, C, q) /\ C \in SUBSET Outs
      /\ C \cap Spent(Mined(below)) = {} /\ \A o \in C : Maker[o] \in Mined(below) \cup {None}
      /\ B \cap Mined(below) = {} /\ SoundBlock(tip)
  BY <1>1, DisconnectReturns
<1> HIDE DEF C
<1>5. Q \in Pools /\ Marks(Q)
  BY <1>1, <1>3, <1>4, ResurrectFacts
<1>6. /\ Q.txs \subseteq pool.txs \cup B
      /\ \A u \in (pool.txs \cup B) \ Q.txs : Barred(u) \/ \E o \in Inputs(u) : o \notin C /\ Maker[o] \notin Q.txs
  BY <1>1, <1>3, <1>4, ResurrectWhy
<1> HIDE DEF Q
<1>7. \A o : Maker[o] \in pool.txs \cup B => o \notin C
  BY <1>4 DEF Returns, Made
<1>8. /\ R.txs \subseteq Q.txs
      /\ \A u \in Q.txs \ R.txs : Barred(u) \/ \E o \in Inputs(u) : Maker[o] \in Q.txs \ R.txs
  <2>1. CASE Root[tip] = Root[below]
    BY <2>1 DEF AnchorGone
  <2>2. CASE Root[tip] # Root[below]
    <3>1. R = removeEach(Q, gone)
      BY <2>2 DEF AnchorGone, removeWithAnchor
    <3>2. \A u \in gone : Barred(u)
      <4>1. Root[tip] \notin Roots(below) \cup {None}
        BY <1>1, <1>4, <2>2, ConsensusAssumption DEF SoundBlock, Roots
      <4> QED
        BY <4>1 DEF Barred
    <3>3. gone \subseteq Q.txs /\ gone \subseteq Txs
      BY <1>5, PoolFields
    <3> HIDE DEF gone, R
    <3>4. \A u \in Q.txs \ R.txs : u \in gone \/ \E o \in Inputs(u) : Maker[o] \in Q.txs \ R.txs
      BY <1>5, <3>1, <3>3, EachWhy
    <3>5. R.txs \subseteq Q.txs
      BY <1>5, <3>1, <3>3, EachShrinks DEF Shrinks
    <3> QED
      BY <3>2, <3>4, <3>5
  <2> QED
    BY <2>1, <2>2
<1> HIDE DEF R, B, below, q
<1>9. NInv'
  <2>1. \A c \in Chain[below] : SoundBlock(c)
    BY <1>3 DEF NInv, ChainSound
  <2>2. pool.txs \cap Mined(tip) = {}
    BY DEF NInv
  <2>3. R.txs \cap Mined(below) = {}
    BY <1>3, <1>4, <1>6, <1>8, <2>2
  <2> QED
    BY <1>2, <1>4, <2>1, <2>3, NInvNext
<1>10. ASSUME NEW t \in Held, t \notin Held'
       PROVE  t \in Txs /\ (Barred(t) \/ \E o \in Inputs(t) : o \notin C /\ Maker[o] \notin R.txs)
  <2>1. t \in pool.txs \cup B /\ t \notin R.txs
    <3>1. Held' = R.txs \cup UNION {Range(Vtx[c]) : c \in Chain[below]}
      BY <1>2 DEF Held, Range
    <3> QED
      BY <1>3, <1>10, <3>1 DEF Held, B, q
  <2>2. CASE t \notin Q.txs
    BY <1>1, <1>3, <1>6, <1>8, <2>1, <2>2
  <2>3. CASE t \in Q.txs
    BY <1>1, <1>3, <1>6, <1>7, <1>8, <2>1, <2>3
  <2> QED
    BY <2>2, <2>3
<1>11. ASSUME NEW t \in Txs, Barred(t)
       PROVE  \/ t \in Coinbases \cup NonStandard
              \/ Earliest[t] > Height[tip'] + 1 \/ Height[tip] >= Latest[t]
              \/ Anchor[t] \notin Roots(tip') \cup {None}
  <2>1. Earliest[t] \in Nat /\ Latest[t] \in Nat /\ Height[tip] \in Nat
    BY <1>1, <1>3
  <2>2. Earliest[t] > Height[tip] + 1 => Earliest[t] > Height[below] + 1
    BY <1>3, <2>1
  <2>3. Height[tip] + 1 > Latest[t] => Height[tip] >= Latest[t]
    BY <2>1
  <2>4. Roots(tip') = Roots(below)
    BY <1>2 DEF Roots
  <2> QED
    BY <1>2, <1>11, <2>2, <2>3, <2>4 DEF Barred, below
<1>12. LosesNothing
  BY <1>2, <1>10, <1>11 DEF LosesNothing
<1> QED
  BY <1>9, <1>12

-----------------------------------------------------------------------------
(* The other steps. *)

LEMMA EndLoses ==
    ASSUME MInv, NInv, EndStep
    PROVE  NInv' /\ LosesNothing
<1> DEFINE out == {t \in pool.txs :
                     \/ Earliest[t] > Height[tip] + 1
                     \/ t \in pool.spendsCoinbase /\ \E o \in Inputs(t) : Maker[o] # None /\ ~HaveCoins(pool, coins, Maker[o])}
           R == removeEach(pool, out)
<1>1. pool \in Pools /\ Marks(pool) /\ pool.txs \subseteq Txs
  BY TypeFields, PoolFields DEF MInv
<1>2. pool' = R /\ UNCHANGED <<tip, coins>>
  BY DEF EndStep, removeForReorg
<1>3. \A u \in out : \/ Earliest[u] > Height[tip] + 1
                     \/ \E o \in Inputs(u) : o \notin coins /\ Maker[o] \notin pool.txs
  <2> SUFFICES ASSUME NEW u \in pool.txs, NEW o \in Inputs(u), ~HaveCoins(pool, coins, Maker[o])
               PROVE  o \notin coins /\ Maker[o] \notin pool.txs
    OBVIOUS
  <2>1. o \in Outs
    BY <1>1, InsVtx
  <2> QED
    BY <2>1 DEF HaveCoins, Made
<1>4. out \subseteq pool.txs
  OBVIOUS
<1> HIDE DEF out
<1>5. R.txs \subseteq pool.txs
  BY <1>1, <1>4, EachShrinks DEF Shrinks
<1>6. \A u \in pool.txs \ R.txs : u \in out \/ \E o \in Inputs(u) : Maker[o] \in pool.txs \ R.txs
  BY <1>1, <1>4, EachWhy
<1> HIDE DEF R
<1>7. \A o \in coins : Maker[o] \notin pool.txs
  BY <1>1, PoolOwnsMade
<1>8. NInv'
  <2>1. R.txs \cap Mined(tip) = {}
    BY <1>5 DEF NInv
  <2> QED
    BY <1>2, <2>1, NInvNext DEF NInv, ChainSound
<1>9. ASSUME NEW t \in Held, t \notin Held'
      PROVE  Earliest[t] > Height[tip] + 1 \/ \E o \in Inputs(t) : o \notin coins /\ Maker[o] \notin R.txs
  <2>1. t \in pool.txs \ R.txs
    <3>1. Held' = R.txs \cup UNION {Range(Vtx[c]) : c \in Chain[tip]}
      BY <1>2 DEF Held, Range
    <3> QED
      BY <1>9, <3>1 DEF Held
  <2> QED
    BY <1>3, <1>5, <1>6, <1>7, <2>1
<1>10. LosesNothing
  BY <1>2, <1>9 DEF LosesNothing
<1> QED
  BY <1>8, <1>10

LEMMA NextLoses ==
    ASSUME MInv, CInv, NInv, ~CC, [Next]_vars
    PROVE  NInv' /\ [LosesNothing]_vars
<1>1. ASSUME NEW t \in Submitted, SendRawTransaction(t) PROVE NInv' /\ LosesNothing
  BY <1>1, SendKeeps, GrowthLoses DEF SendRawTransaction
<1>2. ASSUME NEW p \in Peers, NEW t \in Relayed, Tx(p, t) PROVE NInv' /\ LosesNothing
  BY <1>2, TxKeeps, GrowthLoses DEF Tx
<1>3. ASSUME NEW p \in Peers, FinalizeNode(p) PROVE NInv' /\ LosesNothing
  BY <1>3, FinalizeKeeps, GrowthLoses DEF FinalizeNode
<1>4. ASSUME NEW b \in Blocks, ConnectTip(b) PROVE NInv' /\ LosesNothing
  BY <1>4, ConnectLoses
<1>5. CASE DisconnectTip
  BY <1>5, DisconnectLoses
<1>6. CASE EndStep
  BY <1>6, EndLoses
<1>7. CASE UNCHANGED vars
  <2>1. NInv'
    BY <1>7, NInvNext DEF NInv, ChainSound, vars
  <2> QED
    BY <1>7, <2>1
<1>8. CASE DisconnectRefused
  <2>1. NInv'
    BY <1>8, NInvNext DEF NInv, ChainSound, DisconnectRefused
  <2>2. Held' = Held
    BY <1>8 DEF Held, DisconnectRefused, Range
  <2> QED
    BY <2>1, <2>2 DEF LosesNothing
<1> QED
  BY <1>1, <1>2, <1>3, <1>4, <1>5, <1>6, <1>7, <1>8 DEF Next

LEMMA InitSound ==
    ASSUME Init
    PROVE  NInv
<1>1. tip = Genesis /\ pool.txs = {} /\ Chain[Genesis] = {}
  BY MempoolAssumption DEF Init, EmptyPool
<1>2. \A o \in coins : Maker[o] \in Mined(Genesis) \cup {None}
  BY MinedFacts DEF Init
<1> QED
  BY <1>1, <1>2, MinedFacts DEF NInv, ChainSound

-----------------------------------------------------------------------------
(* The theorems. *)

LEMMA Invariance == Spec => []MInv
<1>1. Init => MInv
  BY InitHolds
<1>2. MInv /\ [Next]_vars => MInv'
  BY NextKeeps DEF Keeps
<1> QED
  BY <1>1, <1>2, PTL DEF Spec

LEMMA ChainInvariance ==
    ASSUME ~CC
    PROVE  Spec => [](MInv /\ CInv)
<1>1. Init => CInv
  BY InitHolds
<1>2. MInv /\ CInv /\ [Next]_vars => CInv'
  BY NextKeeps DEF Keeps
<1> QED
  BY <1>1, <1>2, Invariance, PTL DEF Spec

\* The pool, the orphans and the filter have their types, on every chain; above all,
\* mapNextTx and the nullifier maps never point at a transaction that has left the pool.
THEOREM TypeCorrect == Spec => []TypeOK
<1>1. MInv => TypeOK
  BY DEF MInv
<1> QED
  BY <1>1, Invariance, PTL

\* mapOrphanTransactionsByPrev indexes exactly the orphans that are held, and they are no
\* more than LimitOrphanTxSize allows, through additions, evictions, departures of peers
\* and chains of orphans that are freed together.
THEOREM OrphansExact == Spec => []OrphansAgree
<1>1. MInv => OrphansAgree
  BY DEF MInv
<1> QED
  BY <1>1, Invariance, PTL

\* Without contracts no two transactions of the pool conflict and mapNextTx marks exactly
\* their inputs, so that removal by the marks misses nothing, while blocks are connected
\* and disconnected too.
THEOREM MarksExact ==
    ASSUME ~CC
    PROVE  Spec => []PoolAgrees
<1>1. MInv /\ CInv => PoolAgrees
  <2> SUFFICES ASSUME MInv, CInv, NEW o \in Outs
               PROVE  {t \in pool.txs : o \in Inputs(t)} = {pool.next[o]} \ {None}
    BY DEF PoolAgrees
  <2>1. Marks(pool) /\ Owns(pool) /\ pool \in Pools /\ pool.txs \subseteq Txs /\ None \notin Txs
    BY TypeFields, PoolFields, InsVtx DEF MInv, CInv
  <2>2. ASSUME NEW t \in pool.txs, o \in Inputs(t) PROVE t = pool.next[o] /\ t # None
    BY <2>1, <2>2 DEF Owns
  <2>3. pool.next[o] # None => pool.next[o] \in pool.txs /\ o \in Inputs(pool.next[o])
    BY <2>1 DEF Marks
  <2> QED
    BY <2>2, <2>3
<1> QED
  BY <1>1, ChainInvariance, PTL

\* Without contracts every input of the pool is unspent on the chain or made in the pool,
\* and every anchor is on the chain, whatever blocks come and go.
THEOREM InputsStayAvailable ==
    ASSUME ~CC
    PROVE  Spec => []InputsAvailable
<1>1. CInv => InputsAvailable
  BY DEF CInv, Avail, Fits, InputsAvailable
<1> QED
  BY <1>1, ChainInvariance, PTL

\* Without contracts the pool at rest holds nothing that expired below the tip and, unless
\* a reorganisation ended early since removeForReorg last ran, only what is final for the
\* next block, whatever blocks are refused, with blame or without.
THEOREM AlwaysInTime ==
    ASSUME ~CC
    PROVE  Spec => []InTime
<1>1. Init => Final
  BY InitHolds
<1>2. MInv /\ CInv /\ Final /\ [Next]_vars => Final'
  BY NextKeeps DEF Keeps
<1>3. CInv /\ Final => InTime
  BY DEF CInv, Fits, Final, InTime
<1> QED
  BY <1>1, <1>2, <1>3, ChainInvariance, PTL DEF Spec

\* Without contracts no transaction is lost, whatever blocks are connected, refused and
\* disconnected: one that is in the pool or mined leaves both only if policy keeps it out,
\* if it is too early or too late, or if an input or its anchor is gone.
THEOREM NoTransactionLost ==
    ASSUME ~CC
    PROVE  Spec => NothingLost
<1>1. Init => NInv
  BY InitSound
<1>2. MInv /\ CInv /\ NInv /\ [Next]_vars => NInv' /\ [LosesNothing]_vars
  BY NextLoses
<1> QED
  BY <1>1, <1>2, ChainInvariance, PTL DEF Spec, NothingLost
=============================================================================
