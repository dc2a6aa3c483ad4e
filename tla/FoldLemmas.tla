----------------------------- MODULE FoldLemmas -----------------------------
(***************************************************************************)
(* What a left fold over a sequence is, in a form the provers can use.     *)
(*                                                                         *)
(* FoldLeft walks down the sets of positions that are left, the greatest   *)
(* first.  Such a recursive function is the one CHOOSE finds, if there is  *)
(* one: there is, when every step keeps the values in a set (FoldExists);  *)
(* and read along the prefixes of the sequence, it runs from the first     *)
(* element to the last (FoldRuns).  The induction is over sets of natural  *)
(* numbers (UpTo), by their least elements.                                *)
(***************************************************************************)
EXTENDS SequencesExt, WellFoundedInduction, TLAPS

\* A set of natural numbers that is not empty has a least element.
LEMMA LeastOf ==
  ASSUME NEW T \in SUBSET Nat, T # {}
  PROVE  \E m \in T : \A k \in T : m <= k
<1>1. IsWellFoundedOn(OpToRel(<, Nat), Nat)
  BY NatLessThanWellFounded
<1>2. PICK m \in T : \A k \in T : ~(<<k, m>> \in OpToRel(<, Nat))
  BY <1>1, WFMin
<1>3. \A k \in T : m <= k
  <2> SUFFICES ASSUME NEW k \in T PROVE m <= k
    OBVIOUS
  <2>1. k \in Nat /\ m \in Nat
    OBVIOUS
  <2>2. ~(<<k, m>> \in OpToRel(<, Nat))
    BY <1>2
  <2>3. ~(k < m)
    BY <2>1, <2>2 DEF OpToRel
  <2> QED
    BY <2>1, <2>3
<1> QED
  BY <1>3

\* Induction up to n.
LEMMA UpTo ==
  ASSUME NEW n \in Nat, NEW T, 0 \in T, \A k \in 1..n : k - 1 \in T => k \in T
  PROVE  0..n \subseteq T
<1> SUFFICES ASSUME (0..n) \ T # {} PROVE FALSE
  OBVIOUS
<1> DEFINE rest == (0..n) \ T
<1>0. rest \in SUBSET Nat /\ rest # {}
  OBVIOUS
<1>1. PICK m \in rest : \A k \in rest : m <= k
  <2> HIDE DEF rest
  <2> QED
    BY <1>0, LeastOf
<1>2. m \in 1..n /\ m - 1 \in 0..n /\ ~(m <= m - 1)
  BY <1>1
<1>3. m - 1 \in T
  BY <1>1, <1>2
<1> QED
  BY <1>1, <1>2, <1>3

LEMMA MaxOf ==
  ASSUME NEW n \in Nat, NEW S \in SUBSET (0..n), S # {}
  PROVE  Max(S) \in S /\ \A k \in S : Max(S) >= k
<1> DEFINE T == {n - k : k \in S}
<1>1. T \in SUBSET Nat /\ T # {}
  <2>1. \A k \in S : n - k \in Nat
    OBVIOUS
  <2> QED
    BY <2>1
<1>2. PICK t \in T : \A u \in T : t <= u
  <2> HIDE DEF T
  <2> QED
    BY <1>1, LeastOf
<1>3. PICK m \in S : t = n - m
  OBVIOUS
<1>4. \A k \in S : m >= k
  <2> SUFFICES ASSUME NEW k \in S PROVE m >= k
    OBVIOUS
  <2>1. n - m <= n - k
    BY <1>2, <1>3
  <2> QED
    BY <2>1
<1> QED
  BY <1>4 DEF Max

LEMMA MaxOfPositions ==
  ASSUME NEW n \in Nat, NEW S \in SUBSET (1..n), S # {}
  PROVE  Max(S) \in 1..n
<1>1. S \in SUBSET (0..n)
  OBVIOUS
<1>2. Max(S) \in S
  BY <1>1, MaxOf
<1> QED
  BY <1>2

LEMMA MaxOfInterval ==
  ASSUME NEW k \in Nat, k # 0
  PROVE  Max(1..k) = k /\ (1..k) \ {k} = 1..(k - 1)
<1>1. 1..k \in SUBSET (0..k) /\ 1..k # {} /\ k \in 1..k
  OBVIOUS
<1>2. Max(1..k) \in 1..k /\ Max(1..k) >= k
  BY <1>1, MaxOf, Zenon
<1> QED
  BY <1>2

\* A recursion over the sets of positions that takes the step of the greatest one
\* last, and a run that takes the steps in their order.
Folds(it, n, base, step) ==
  /\ it[{}] = base
  /\ \A S \in SUBSET (1..n) : S # {} => it[S] = step[Max(S)][it[S \ {Max(S)}]]

FoldsWithin(it, n, A, base, step) ==
  /\ it[{}] = base
  /\ \A S \in SUBSET (1..n) :
       S # {} /\ it[S \ {Max(S)}] \in A => it[S] = step[Max(S)][it[S \ {Max(S)}]]

Runs(run, n, base, step, end) ==
  /\ run[0] = base /\ run[n] = end
  /\ \A k \in 1..n : run[k] = step[k][run[k - 1]]

\* A step for each position, from values in A to values in A: the recursion over
\* the sets of positions has a solution.
LEMMA FoldExists ==
  ASSUME NEW n \in Nat, NEW A, NEW base \in A, NEW step \in [1..n -> [A -> A]]
  PROVE  \E it \in [SUBSET (1..n) -> A] : Folds(it, n, base, step)
<1> DEFINE Solves(it, m) ==
             it = [S \in SUBSET (1..m) |->
                     IF S = {} THEN base ELSE step[Max(S)][it[S \ {Max(S)}]]]
           T == {m \in 0..n : \E it \in [SUBSET (1..m) -> A] : Solves(it, m)}
<1>1. 0 \in T
  <2> DEFINE it == [S \in SUBSET (1..0) |-> base]
  <2>1. 1..0 = {}
    OBVIOUS
  <2>2. it \in [SUBSET (1..0) -> A] /\ Solves(it, 0)
    BY <2>1
  <2> QED
    BY <2>2
<1>2. ASSUME NEW m \in 1..n, m - 1 \in T PROVE m \in T
  <2>1. PICK g \in [SUBSET (1..(m - 1)) -> A] : Solves(g, m - 1)
    BY <1>2
  <2> DEFINE Below(S) == S \in SUBSET (1..(m - 1))
             it == [S \in SUBSET (1..m) |->
                      IF Below(S) THEN g[S] ELSE step[m][g[S \ {m}]]]
  <2>2. \A S \in SUBSET (1..m) :
        /\ S \ {m} \in SUBSET (1..(m - 1))
        /\ ~Below(S) => m \in S /\ S # {} /\ Max(S) = m
        /\ Below(S) /\ S # {} => Max(S) \in 1..(m - 1) /\ Below(S \ {Max(S)})
    <3> SUFFICES ASSUME NEW S \in SUBSET (1..m)
                 PROVE  /\ S \ {m} \in SUBSET (1..(m - 1))
                        /\ ~Below(S) => m \in S /\ S # {} /\ Max(S) = m
                        /\ Below(S) /\ S # {} => Max(S) \in 1..(m - 1) /\ Below(S \ {Max(S)})
      OBVIOUS
    <3>1. S \ {m} \in SUBSET (1..(m - 1))
      OBVIOUS
    <3>2. ~Below(S) => m \in S
      BY <3>1
    <3>3. S # {} => Max(S) \in S /\ \A k \in S : Max(S) >= k
      <4>1. m \in Nat /\ S \in SUBSET (0..m)
        OBVIOUS
      <4> QED
        BY <4>1, MaxOf, Zenon
    <3>4. m \in S => Max(S) = m
      <4> SUFFICES ASSUME m \in S PROVE Max(S) = m
        OBVIOUS
      <4>1. Max(S) \in 1..m /\ Max(S) >= m
        BY <3>3
      <4> QED
        BY <4>1
    <3>5. Below(S) /\ S # {} => Max(S) \in 1..(m - 1) /\ Below(S \ {Max(S)})
      BY <3>3
    <3> QED
      BY <3>1, <3>2, <3>4, <3>5
  <2>3. it \in [SUBSET (1..m) -> A]
    BY <2>2
  <2>4. \A S \in SUBSET (1..(m - 1)) :
        /\ S \in SUBSET (1..m) /\ it[S] = g[S]
        /\ g[S] = IF S = {} THEN base ELSE step[Max(S)][g[S \ {Max(S)}]]
    <3> SUFFICES ASSUME NEW S \in SUBSET (1..(m - 1))
                 PROVE  /\ S \in SUBSET (1..m) /\ it[S] = g[S]
                        /\ g[S] = IF S = {} THEN base ELSE step[Max(S)][g[S \ {Max(S)}]]
      OBVIOUS
    <3>1. S \in SUBSET (1..m)
      OBVIOUS
    <3>2. it[S] = g[S]
      BY <3>1
    <3>3. g[S] = IF S = {} THEN base ELSE step[Max(S)][g[S \ {Max(S)}]]
      <4>1. g = [R \in SUBSET (1..(m - 1)) |->
                   IF R = {} THEN base ELSE step[Max(R)][g[R \ {Max(R)}]]]
        BY <2>1
      <4> HIDE <2>1
      <4> QED
        BY <4>1
    <3> QED
      BY <3>1, <3>2, <3>3
  <2>5. \A S \in SUBSET (1..m) :
        it[S] = IF S = {} THEN base ELSE step[Max(S)][it[S \ {Max(S)}]]
    <3> SUFFICES ASSUME NEW S \in SUBSET (1..m)
                 PROVE  it[S] = IF S = {} THEN base ELSE step[Max(S)][it[S \ {Max(S)}]]
      OBVIOUS
    <3>1. CASE Below(S)
      <4>1. S # {} => it[S \ {Max(S)}] = g[S \ {Max(S)}]
        BY <2>2, <2>4, <3>1
      <4> QED
        BY <2>4, <3>1, <4>1
    <3>2. CASE ~Below(S)
      <4>1. it[S] = step[m][g[S \ {m}]] /\ Max(S) = m /\ S # {}
        BY <2>2, <3>2
      <4>2. it[S \ {m}] = g[S \ {m}]
        BY <2>2, <2>4
      <4> QED
        BY <4>1, <4>2
    <3> QED
      BY <3>1, <3>2
  <2> HIDE DEF it
  <2>6. Solves(it, m)
    BY <2>3, <2>5
  <2>7. m \in 0..n
    OBVIOUS
  <2> HIDE DEF Solves
  <2> QED
    BY <2>3, <2>6, <2>7
<1>3. n \in T
  <2> HIDE DEF T
  <2>1. 0..n \subseteq T
    BY <1>1, <1>2, UpTo
  <2> QED
    BY <2>1
<1>4. PICK it \in [SUBSET (1..n) -> A] : Solves(it, n)
  BY <1>3
<1>5. \A S \in SUBSET (1..n) :
      it[S] = IF S = {} THEN base ELSE step[Max(S)][it[S \ {Max(S)}]]
  BY <1>4
<1> QED
  BY <1>5 DEF Folds

\* The solution, read along the prefixes, takes one step after the other.
LEMMA FoldRuns ==
  ASSUME NEW n \in Nat, NEW A, NEW base \in A, NEW step \in [1..n -> [A -> A]],
         NEW it, FoldsWithin(it, n, A, base, step)
  PROVE  \E run \in [0..n -> A] : Runs(run, n, base, step, it[1..n])
<1> USE DEF FoldsWithin
<1> DEFINE run == [k \in 0..n |-> it[1..k]]
           T == {k \in 0..n : it[1..k] \in A}
<1>1. it[1..0] = base
  <2>1. 1..0 = {}
    OBVIOUS
  <2> QED
    BY <2>1
<1>2. \A k \in 1..n : k - 1 \in T => it[1..k] = step[k][it[1..(k - 1)]]
  <2> SUFFICES ASSUME NEW k \in 1..n, it[1..(k - 1)] \in A
               PROVE  it[1..k] = step[k][it[1..(k - 1)]]
    OBVIOUS
  <2>1. k \in Nat /\ k # 0
    OBVIOUS
  <2>2. Max(1..k) = k /\ (1..k) \ {k} = 1..(k - 1)
    BY <2>1, MaxOfInterval
  <2>3. 1..k \in SUBSET (1..n) /\ 1..k # {}
    <3>1. k \in Nat /\ 1 <= k /\ k <= n
      OBVIOUS
    <3>2. \A i \in 1..k : i \in 1..n
      BY <3>1
    <3>3. 1 \in 1..k
      BY <3>1
    <3> QED
      BY <3>2, <3>3, Zenon
  <2> QED
    BY <2>2, <2>3
<1>3. 0..n \subseteq T
  <2>1. 0 \in T
    BY <1>1
  <2>2. ASSUME NEW k \in 1..n, k - 1 \in T PROVE k \in T
    <3>1. it[1..k] = step[k][it[1..(k - 1)]] /\ it[1..(k - 1)] \in A
      BY <1>2, <2>2
    <3> QED
      BY <3>1
  <2> HIDE DEF T
  <2> QED
    BY <2>1, <2>2, UpTo
<1>4. run \in [0..n -> A]
  BY <1>3
<1>5. \A k \in 1..n : run[k] = step[k][run[k - 1]]
  BY <1>2, <1>3
<1>6. run[0] = base /\ run[n] = it[1..n]
  BY <1>1
<1> HIDE DEF run
<1> QED
  BY <1>4, <1>5, <1>6 DEF Runs
=============================================================================
