------------------------- MODULE SelectionsProofs ---------------------------
(***************************************************************************)
(* What Selected returns, for every sequence and every set. The induction  *)
(* over the positions is an argument by the least counterexample: the      *)
(* library's induction theorems need an operator for the property, its     *)
(* theorem on minimal elements of a well-founded relation does not.        *)
(***************************************************************************)
EXTENDS Selections, SequenceTheorems, WellFoundedInduction, TLAPS

(* Every nonempty set of natural numbers has a least element. *)
LEMMA NatMin ==
    ASSUME NEW T \in SUBSET Nat, T # {}
    PROVE  \E m \in T : \A k \in T : m <= k
<1>1. PICK m \in T : \A k \in T : ~(<<k, m>> \in OpToRel(<, Nat))
    BY NatLessThanWellFounded, WFMin
<1>2. \A k \in T : ~(k < m)
    BY <1>1 DEF OpToRel
<1> QED
    BY <1>2

(* g tells for each i <= n what Selected makes of the first i elements. *)
Selection(q, S, n, g) ==
    g = [i \in 0..n |->
            IF i = 0 THEN <<>>
            ELSE IF q[i] \in S THEN Append(g[i-1], q[i]) ELSE g[i-1]]

(* There is such a function: the recursive definition of Selected defines. *)
LEMMA SelectionExists ==
    ASSUME NEW q, NEW S, NEW n \in Nat
    PROVE  \E g : Selection(q, S, n, g)
<1> DEFINE T == {k \in Nat : ~ \E g : Selection(q, S, k, g)}
<1>1. SUFFICES ASSUME T # {} PROVE FALSE
    OBVIOUS
<1>2. PICK m \in T : \A k \in T : m <= k
    BY <1>1, NatMin
<1>3. m # 0
  <2>1. Selection(q, S, 0, [i \in 0..0 |-> <<>>])
    BY DEF Selection
  <2> QED
    BY <2>1
<1>4. PICK g : Selection(q, S, m - 1, g)
    BY <1>2, <1>3
<1> DEFINE h == [i \in 0..m |->
                    IF i = m THEN IF q[m] \in S THEN Append(g[m-1], q[m]) ELSE g[m-1]
                    ELSE g[i]]
<1>5. \A i \in 0..m-1 : h[i] = g[i]
    BY <1>2, <1>3
<1>6. \A i \in 0..m-1 :
         g[i] = IF i = 0 THEN <<>>
                ELSE IF q[i] \in S THEN Append(g[i-1], q[i]) ELSE g[i-1]
    BY <1>4 DEF Selection
<1>7. Selection(q, S, m, h)
  <2> HIDE DEF h
  <2>1. \A i \in 0..m :
           h[i] = IF i = 0 THEN <<>>
                  ELSE IF q[i] \in S THEN Append(h[i-1], q[i]) ELSE h[i-1]
    <3> TAKE i \in 0..m
    <3>1. CASE i = m
      <4>1. i # 0 /\ i - 1 \in 0..m-1
        BY <1>2, <1>3, <3>1
      <4> QED
        BY <3>1, <4>1, <1>2, <1>3, <1>5 DEF h
    <3>2. CASE i # m
      BY <3>2, <1>2, <1>3, <1>5, <1>6
    <3> QED
      BY <3>1, <3>2
  <2>2. h = [i \in 0..m |-> h[i]]
    BY DEF h
  <2> QED
    BY <2>1, <2>2 DEF Selection
<1> QED
    BY <1>2, <1>7

LEMMA SelectedUnfold ==
    ASSUME NEW A, NEW q \in Seq(A), NEW S
    PROVE  \E g : Selection(q, S, Len(q), g) /\ Selected(q, S) = g[Len(q)]
<1>1. Len(q) \in Nat
    BY LenProperties
<1>2. \E g : Selection(q, S, Len(q), g)
    BY <1>1, SelectionExists
<1> QED
    BY <1>2 DEF Selected, Selection

(* What holds of the first n elements holds of the first n + 1. *)
LEMMA SelectionStep ==
    ASSUME NEW A, NEW q \in Seq(A), NEW S, NEW g,
           Selection(q, S, Len(q), g), NEW i \in 1..Len(q),
           g[i-1] \in Seq(A), Len(g[i-1]) <= i - 1,
           \A x : (\E j \in 1..Len(g[i-1]) : g[i-1][j] = x)
                  <=> (\E j \in 1..(i-1) : q[j] = x /\ x \in S)
    PROVE  /\ g[i] \in Seq(A)
           /\ Len(g[i]) <= i
           /\ \A x : (\E j \in 1..Len(g[i]) : g[i][j] = x)
                     <=> (\E j \in 1..i : q[j] = x /\ x \in S)
<1>0. Len(q) \in Nat /\ i \in 0..Len(q) /\ i # 0 /\ q[i] \in A
    BY LenProperties
<1>1. g[i] = IF q[i] \in S THEN Append(g[i-1], q[i]) ELSE g[i-1]
    BY <1>0 DEF Selection
<1>2. Len(g[i-1]) \in Nat
    BY LenProperties
<1> DEFINE s == g[i-1]
<1>3. CASE q[i] \in S
  <2>1. /\ g[i] \in Seq(A) /\ Len(g[i]) = Len(s) + 1
        /\ \A j \in 1..Len(s) : g[i][j] = s[j]
        /\ g[i][Len(s) + 1] = q[i]
    BY <1>0, <1>1, <1>3, AppendProperties
  <2>2. ASSUME NEW x
        PROVE  (\E j \in 1..Len(g[i]) : g[i][j] = x)
               <=> (\E j \in 1..i : q[j] = x /\ x \in S)
    <3>1. (\E j \in 1..Len(g[i]) : g[i][j] = x)
          <=> (\E j \in 1..Len(s) : s[j] = x) \/ q[i] = x
      <4> HIDE DEF s
      <4>1. 1..Len(g[i]) = 1..Len(s) \cup {Len(s) + 1}
        <5>1. Len(s) \in Nat /\ Len(g[i]) = Len(s) + 1
          BY <1>2, <2>1 DEF s
        <5> QED
          BY <5>1
      <4>2. \A j \in 1..Len(g[i]) : g[i][j] = IF j \in 1..Len(s) THEN s[j] ELSE q[i]
        BY <1>2, <2>1, <4>1 DEF s
      <4>3. Len(s) + 1 \notin 1..Len(s)
        BY <1>2 DEF s
      <4> QED
        BY <4>1, <4>2, <4>3
    <3>2. (\E j \in 1..i : q[j] = x /\ x \in S)
          <=> (\E j \in 1..(i-1) : q[j] = x /\ x \in S) \/ q[i] = x
      BY <1>0, <1>3
    <3> QED
      BY <3>1, <3>2
  <2> QED
    BY <1>2, <2>1, <2>2
<1>4. CASE q[i] \notin S
  <2>1. ASSUME NEW x
        PROVE  (\E j \in 1..(i-1) : q[j] = x /\ x \in S)
               <=> (\E j \in 1..i : q[j] = x /\ x \in S)
    BY <1>0, <1>4
  <2> QED
    BY <1>0, <1>1, <1>2, <1>4, <2>1
<1> QED
    BY <1>3, <1>4

(* Selected(q, S) is a sequence no longer than q of just the elements of q *)
(* that are in S.                                                          *)
LEMMA SelectedProperties ==
    ASSUME NEW A, NEW q \in Seq(A), NEW S
    PROVE  /\ Selected(q, S) \in Seq(A)
           /\ Len(Selected(q, S)) <= Len(q)
           /\ \A x : (\E j \in DOMAIN Selected(q, S) : Selected(q, S)[j] = x)
                     <=> (\E j \in DOMAIN q : q[j] = x /\ x \in S)
<1> PICK g : Selection(q, S, Len(q), g) /\ Selected(q, S) = g[Len(q)]
    BY SelectedUnfold
<1> DEFINE Good(i) == /\ g[i] \in Seq(A)
                      /\ Len(g[i]) <= i
                      /\ \A x : (\E j \in 1..Len(g[i]) : g[i][j] = x)
                                <=> (\E j \in 1..i : q[j] = x /\ x \in S)
           T == {i \in 0..Len(q) : ~Good(i)}
<1>1. Len(q) \in Nat
    BY LenProperties
<1>2. T = {}
  <2>1. SUFFICES ASSUME T # {} PROVE FALSE
    OBVIOUS
  <2>2. T \in SUBSET Nat
    BY <1>1
  <2>3. PICK m \in T : \A k \in T : m <= k
    BY <2>1, <2>2, NatMin
  <2>4. m # 0
    <3>1. g[0] = <<>>
      BY <1>1 DEF Selection
    <3>2. Good(0)
      BY <3>1, EmptySeq
    <3> QED
      BY <3>2
  <2>5. m \in 1..Len(q) /\ m - 1 \in 0..Len(q)
    BY <1>1, <2>3, <2>4
  <2>6. Good(m - 1)
    <3>1. m - 1 \notin T
      <4> HIDE DEF T
      <4> QED
        BY <2>3, <2>5
    <3> QED
      BY <2>5, <3>1
  <2>7. Good(m)
    <3> HIDE DEF T
    <3> QED
      BY <2>5, <2>6, SelectionStep
  <2> QED
    BY <2>3, <2>7
<1>3. Good(Len(q))
  <2>1. Len(q) \in 0..Len(q)
    BY <1>1
  <2>2. \A i \in 0..Len(q) : Good(i)
    <3> HIDE DEF Good
    <3> QED
      BY <1>2
  <2> HIDE DEF Good
  <2> QED
    BY <2>1, <2>2
<1>4. DOMAIN q = 1..Len(q) /\ DOMAIN Selected(q, S) = 1..Len(Selected(q, S))
    BY <1>3, LenProperties
<1> QED
    BY <1>3, <1>4

(* The two halves of it. *)
LEMMA SelectedFrom ==
    ASSUME NEW A, NEW q \in Seq(A), NEW S, NEW j \in DOMAIN Selected(q, S)
    PROVE  /\ Selected(q, S)[j] \in S
           /\ \E k \in DOMAIN q : Selected(q, S)[j] = q[k]
<1> DEFINE x == Selected(q, S)[j]
<1>1. (\E i \in DOMAIN Selected(q, S) : Selected(q, S)[i] = x)
      <=> (\E k \in DOMAIN q : q[k] = x /\ x \in S)
    BY SelectedProperties
<1> QED
    BY <1>1

LEMMA SelectedHas ==
    ASSUME NEW A, NEW q \in Seq(A), NEW S, NEW k \in DOMAIN q, q[k] \in S
    PROVE  \E j \in DOMAIN Selected(q, S) : Selected(q, S)[j] = q[k]
<1> DEFINE x == q[k]
<1>1. (\E i \in DOMAIN Selected(q, S) : Selected(q, S)[i] = x)
      <=> (\E i \in DOMAIN q : q[i] = x /\ x \in S)
    BY SelectedProperties
<1> QED
    BY <1>1

(* If no element comes twice in q, none does in Selected(q, S).            *)
LEMMA SelectedOnce ==
    ASSUME NEW A, NEW q \in Seq(A), NEW S,
           \A i, j \in DOMAIN q : q[i] = q[j] => i = j
    PROVE  \A i, j \in DOMAIN Selected(q, S) : Selected(q, S)[i] = Selected(q, S)[j] => i = j
<1> PICK g : Selection(q, S, Len(q), g) /\ Selected(q, S) = g[Len(q)]
    BY SelectedUnfold
<1> DEFINE Good(n) == /\ g[n] \in Seq(A)
                      /\ \A i, j \in 1..Len(g[n]) : g[n][i] = g[n][j] => i = j
                      /\ \A i \in 1..Len(g[n]) : \E k \in 1..n : g[n][i] = q[k]
           T == {n \in 0..Len(q) : ~Good(n)}
<1>1. Len(q) \in Nat /\ DOMAIN q = 1..Len(q) /\ \A i \in 1..Len(q) : q[i] \in A
    BY LenProperties
<1>2. T = {}
  <2>1. SUFFICES ASSUME T # {} PROVE FALSE
    OBVIOUS
  <2>2. T \in SUBSET Nat
    BY <1>1
  <2>3. PICK n \in T : \A k \in T : n <= k
    BY <2>1, <2>2, NatMin
  <2>4. n # 0
    <3>1. g[0] = <<>>
      BY <1>1 DEF Selection
    <3>2. Good(0)
      BY <3>1, EmptySeq
    <3> QED
      BY <3>2
  <2>5. n \in 1..Len(q) /\ n - 1 \in 0..Len(q)
    BY <1>1, <2>3, <2>4
  <2>6. Good(n - 1)
    <3>1. n - 1 \notin T
      <4> HIDE DEF T
      <4> QED
        BY <2>3, <2>5
    <3> QED
      BY <2>5, <3>1
  <2>7. g[n] = IF q[n] \in S THEN Append(g[n-1], q[n]) ELSE g[n-1]
    <3>1. n \in 0..Len(q) /\ n # 0
      BY <1>1, <2>5
    <3> HIDE DEF T
    <3> QED
      BY <3>1 DEF Selection
  <2> DEFINE s == g[n-1]
  <2>8. s \in Seq(A) /\ Len(s) \in Nat /\ q[n] \in A
    BY <1>1, <2>5, <2>6, LenProperties
  <2>9. CASE q[n] \in S
    <3>1. /\ g[n] \in Seq(A) /\ Len(g[n]) = Len(s) + 1
          /\ \A i \in 1..Len(s) : g[n][i] = s[i]
          /\ g[n][Len(s) + 1] = q[n]
      <4> HIDE DEF s
      <4>1. g[n] = Append(s, q[n])
        BY <2>7, <2>9 DEF s
      <4> QED
        BY <2>8, <4>1, AppendProperties
    <3>2. \A i \in 1..Len(s) : s[i] # q[n]
      <4> SUFFICES ASSUME NEW i \in 1..Len(s), s[i] = q[n] PROVE FALSE
        OBVIOUS
      <4>1. PICK k \in 1..(n-1) : s[i] = q[k]
        BY <2>6
      <4>2. k \in DOMAIN q /\ n \in DOMAIN q /\ q[k] = q[n] /\ k # n
        BY <1>1, <2>5, <4>1
      <4> QED
        BY <4>2
    <3>3. /\ \A i, j \in 1..Len(s) : s[i] = s[j] => i = j
          /\ \A i \in 1..Len(s) : \E k \in 1..(n-1) : s[i] = q[k]
      BY <2>6
    <3> HIDE DEF s
    <3>4. \A i, j \in 1..Len(g[n]) : g[n][i] = g[n][j] => i = j
      <4> SUFFICES ASSUME NEW i \in 1..Len(g[n]), NEW j \in 1..Len(g[n]), g[n][i] = g[n][j] PROVE i = j
        OBVIOUS
      <4>1. (i \in 1..Len(s) \/ i = Len(s) + 1) /\ (j \in 1..Len(s) \/ j = Len(s) + 1)
        BY <2>8, <3>1
      <4>2. CASE i \in 1..Len(s) /\ j \in 1..Len(s)
        BY <3>1, <3>3, <4>2
      <4>3. CASE i = Len(s) + 1 /\ j \in 1..Len(s)
        BY <3>1, <3>2, <4>3
      <4>4. CASE i \in 1..Len(s) /\ j = Len(s) + 1
        BY <3>1, <3>2, <4>4
      <4> QED
        BY <4>1, <4>2, <4>3, <4>4
    <3>5. \A i \in 1..Len(g[n]) : \E k \in 1..n : g[n][i] = q[k]
      <4> SUFFICES ASSUME NEW i \in 1..Len(g[n]) PROVE \E k \in 1..n : g[n][i] = q[k]
        OBVIOUS
      <4>1. n \in 1..n /\ \A k \in 1..(n-1) : k \in 1..n
        BY <1>1, <2>5
      <4>2. CASE i = Len(s) + 1
        BY <3>1, <4>1, <4>2
      <4>3. CASE i # Len(s) + 1
        <5>1. i \in 1..Len(s)
          BY <2>8, <3>1, <4>3
        <5>2. PICK k \in 1..(n-1) : s[i] = q[k]
          BY <3>3, <5>1
        <5> QED
          BY <3>1, <4>1, <5>1, <5>2
      <4> QED
        BY <4>2, <4>3
    <3> QED
      BY <2>3, <3>1, <3>4, <3>5
  <2>10. CASE q[n] \notin S
    <3>1. Good(n)
      BY <2>5, <2>6, <2>7, <2>10
    <3> QED
      BY <2>3, <3>1
  <2> QED
    BY <2>9, <2>10
<1>3. Good(Len(q))
  <2>1. Len(q) \in 0..Len(q)
    BY <1>1
  <2>2. \A i \in 0..Len(q) : Good(i)
    <3> HIDE DEF Good
    <3> QED
      BY <1>2
  <2> HIDE DEF Good
  <2> QED
    BY <2>1, <2>2
<1>4. DOMAIN Selected(q, S) = 1..Len(Selected(q, S))
    BY <1>3, LenProperties
<1> QED
    BY <1>3, <1>4
=============================================================================
