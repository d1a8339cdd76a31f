------------------------------- MODULE Totals -------------------------------
(* Facts about SumFunctionOnSet, which adds up the amounts of a finite set of *)
(* rows one chosen row at a time: that it does not matter which row is taken *)
(* first, and what one row more or another amount does to the total.         *)
EXTENDS Integers, Functions, FiniteSetTheorems, TLAPS

\* What is added up, and which element the fold takes next.
Amounts(a, S) == IsFiniteSet(S) /\ \A x \in S : a[x] \in Nat
Taken(T) == CHOOSE x \in T : TRUE

\* t is the fold's own function on the subsets of S.
Adds(t, a, S) ==
  t = [T \in SUBSET S |-> IF T = {} THEN 0 ELSE a[Taken(T)] + t[T \ {Taken(T)}]]

LEMMA TotalDef ==
  ASSUME NEW a, NEW S
  PROVE  SumFunctionOnSet(a, S) = (CHOOSE t : Adds(t, a, S))[S]
  BY DEF SumFunctionOnSet, FoldFunctionOnSet, MapThenFoldSet, Taken, Adds

LEMMA TakenIn == ASSUME NEW T, T # {} PROVE Taken(T) \in T
  BY DEF Taken

\* Induction over finite sets, as the existence of a smallest counterexample.
LEMMA Smallest ==
  ASSUME NEW S, IsFiniteSet(S), NEW B, B \subseteq SUBSET S, B # {}
  PROVE  \E T \in B : \A U \in B : U \subseteq T => U = T
  <1>1. FiniteSubsetsOf(S) = SUBSET S
    BY FS_FiniteSubsetsOfFinite
  <1>2. IsWellFoundedOn(StrictSubsetOrdering(S), SUBSET S)
    BY <1>1, FS_StrictSubsetOrderingWellFounded
  <1>3. \E T \in B : \A U \in B : ~ (<<U, T>> \in StrictSubsetOrdering(S))
    BY <1>2, WFMin
  <1> QED
    BY <1>3 DEF StrictSubsetOrdering

\* Two such functions agree wherever both are defined.
LEMMA AddsUnique ==
  ASSUME NEW a, NEW S, IsFiniteSet(S), NEW R \in SUBSET S,
         NEW t, Adds(t, a, S), NEW u, Adds(u, a, R)
  PROVE  \A T \in SUBSET R : t[T] = u[T]
  <1> DEFINE B == {T \in SUBSET R : t[T] # u[T]}
  <1>1. SUFFICES ASSUME B # {} PROVE FALSE
    OBVIOUS
  <1>2. IsFiniteSet(R)
    BY FS_Subset
  <1>3. PICK T \in B : \A U \in B : U \subseteq T => U = T
    <2>1. B \subseteq SUBSET R
      OBVIOUS
    <2> HIDE DEF B
    <2> QED
      BY <1>1, <1>2, <2>1, Smallest
  <1>4. T # {}
    BY <1>3 DEF Adds
  <1> DEFINE V == T \ {Taken(T)}
  <1>5. V \in SUBSET R /\ V # T /\ V \subseteq T
    BY <1>4, TakenIn
  <1>6. t[V] = u[V]
    BY <1>3, <1>5
  <1>7. t[T] = a[Taken(T)] + t[V] /\ u[T] = a[Taken(T)] + u[V]
    BY <1>4 DEF Adds
  <1> QED
    BY <1>3, <1>6, <1>7

\* There is one for every finite set, and it counts in natural numbers.
LEMMA AddsExists ==
  ASSUME NEW a, NEW S, Amounts(a, S)
  PROVE  \E t \in [SUBSET S -> Nat] : Adds(t, a, S)
  <1> DEFINE Has(T) == \E t \in [SUBSET T -> Nat] : Adds(t, a, T)
             B == {T \in SUBSET S : ~Has(T)}
  <1>1. SUFFICES ASSUME B # {} PROVE FALSE
    OBVIOUS
  <1>2. PICK T \in B : \A U \in B : U \subseteq T => U = T
    <2>1. B \subseteq SUBSET S
      OBVIOUS
    <2> HIDE DEF B
    <2> QED
      BY <1>1, <2>1, Smallest DEF Amounts
  <1>3. \A U \in SUBSET T : U # T => Has(U)
    BY <1>2
  <1>f. IsFiniteSet(T) /\ \A U \in SUBSET T : IsFiniteSet(U)
    BY FS_Subset DEF Amounts
  <1> DEFINE F(U) == CHOOSE t \in [SUBSET U -> Nat] : Adds(t, a, U)
             Rest(U) == U \ {Taken(U)}
             h == [U \in SUBSET T |-> IF U = {} THEN 0 ELSE a[Taken(U)] + F(Rest(U))[Rest(U)]]
  <1>4. \A U \in SUBSET T : U # T => F(U) \in [SUBSET U -> Nat] /\ Adds(F(U), a, U)
    BY <1>3
  <1>5. \A U \in SUBSET T : U # {} =>
          /\ Taken(U) \in U /\ Rest(U) \in SUBSET U /\ Rest(U) # T /\ Rest(U) # U
          /\ F(Rest(U)) \in [SUBSET Rest(U) -> Nat] /\ Adds(F(Rest(U)), a, Rest(U))
    <2> TAKE U \in SUBSET T
    <2> HAVE U # {}
    <2>1. Taken(U) \in U
      BY TakenIn
    <2>2. Rest(U) \in SUBSET T /\ Rest(U) # T /\ Rest(U) # U /\ Rest(U) \in SUBSET U
      BY <2>1
    <2> HIDE DEF Rest, F
    <2> QED
      BY <2>1, <2>2, <1>4
  <1>6. h \in [SUBSET T -> Nat]
    <2>1. \A U \in SUBSET T : U # {} => a[Taken(U)] \in Nat
      BY <1>5 DEF Amounts
    <2>2. \A U \in SUBSET T : U # {} => F(Rest(U))[Rest(U)] \in Nat
      <3> TAKE U \in SUBSET T
      <3> HAVE U # {}
      <3>1. F(Rest(U)) \in [SUBSET Rest(U) -> Nat]
        BY <1>5
      <3>2. Rest(U) \in SUBSET Rest(U)
        OBVIOUS
      <3> HIDE DEF Rest, F
      <3> QED BY <3>1, <3>2
    <2> HIDE DEF Rest, F
    <2> QED
      BY <2>1, <2>2
  <1>7. \A U \in SUBSET T : U # {} => h[Rest(U)] = F(Rest(U))[Rest(U)]
    <2> TAKE U \in SUBSET T
    <2> HAVE U # {}
    <2> DEFINE V == Rest(U)
    <2>1. V \in SUBSET T /\ Adds(F(V), a, V) /\ IsFiniteSet(V)
      <3> HIDE DEF F, Rest
      <3> QED BY <1>5, <1>f
    <2> HIDE DEF V
    <2>2. CASE V = {}
      <3>1. F(V)[V] = 0
        <4> HIDE DEF F
        <4> QED BY <2>1, <2>2 DEF Adds
      <3> QED BY <2>1, <2>2, <3>1 DEF V
    <2>3. CASE V # {}
      <3>1. h[V] = a[Taken(V)] + F(Rest(V))[Rest(V)]
        <4> HIDE DEF F, Rest
        <4> QED BY <2>1, <2>3
      <3>2. Rest(V) \in SUBSET V /\ Adds(F(Rest(V)), a, Rest(V))
        <4> HIDE DEF F, Rest
        <4> QED BY <2>1, <2>3, <1>5
      <3>3. F(V)[Rest(V)] = F(Rest(V))[Rest(V)]
        <4> HIDE DEF F, Rest
        <4> QED BY <2>1, <3>2, AddsUnique
      <3>4. F(V)[V] = a[Taken(V)] + F(V)[Rest(V)]
        <4> HIDE DEF F
        <4> QED BY <2>1, <2>3 DEF Adds
      <3> HIDE DEF F, Rest, h
      <3> QED BY <3>1, <3>3, <3>4 DEF V
    <2> HIDE DEF F, Rest, h
    <2> QED BY <2>2, <2>3 DEF V
  <1>8. Adds(h, a, T)
    <2>1. h = [U \in SUBSET T |-> IF U = {} THEN 0 ELSE a[Taken(U)] + h[Rest(U)]]
      <3> DEFINE k == [U \in SUBSET T |-> IF U = {} THEN 0 ELSE a[Taken(U)] + h[Rest(U)]]
      <3>1. \A U \in SUBSET T : h[U] = k[U]
        <4> TAKE U \in SUBSET T
        <4>1. CASE U = {}
          BY <4>1
        <4>2. CASE U # {}
          <5>1. h[U] = a[Taken(U)] + F(Rest(U))[Rest(U)]
            <6> HIDE DEF F, Rest
            <6> QED BY <4>2
          <5>2. k[U] = a[Taken(U)] + h[Rest(U)]
            <6> HIDE DEF h, F, Rest
            <6> QED BY <4>2
          <5> HIDE DEF h, k, F, Rest
          <5> QED BY <5>1, <5>2, <1>7, <4>2
        <4> HIDE DEF h, k
        <4> QED BY <4>1, <4>2
      <3>2. h = k
        <4>1. k = [U \in SUBSET T |-> k[U]] /\ h = [U \in SUBSET T |-> h[U]]
          <5>1. k = [U \in SUBSET T |-> k[U]]
            <6> HIDE DEF h, F, Rest
            <6> QED OBVIOUS
          <5>2. h = [U \in SUBSET T |-> h[U]]
            BY <1>6
          <5> HIDE DEF h, k
          <5> QED BY <5>1, <5>2
        <4> HIDE DEF h, k
        <4> QED BY <3>1, <4>1
      <3> HIDE DEF h
      <3> QED BY <3>2
    <2> HIDE DEF h
    <2> QED BY <2>1 DEF Adds
  <1> HIDE DEF h
  <1> QED
    BY <1>2, <1>6, <1>8

-----------------------------------------------------------------------------
(* What the proofs of a ledger cite: a total of nothing is nothing, a total  *)
(* is an element plus the total of the others, whichever element is named.   *)

LEMMA TotalEmpty == ASSUME NEW a PROVE SumFunctionOnSet(a, {}) = 0
  <1>1. Amounts(a, {})
    BY FS_EmptySet DEF Amounts
  <1>2. Adds(CHOOSE t : Adds(t, a, {}), a, {})
    BY <1>1, AddsExists
  <1> QED
    BY <1>2, TotalDef DEF Adds

LEMMA TotalTaken ==
  ASSUME NEW a, NEW S, Amounts(a, S)
  PROVE  /\ SumFunctionOnSet(a, S) \in Nat
         /\ S # {} => SumFunctionOnSet(a, S) = a[Taken(S)] + SumFunctionOnSet(a, S \ {Taken(S)})
  <1> DEFINE t == CHOOSE t : Adds(t, a, S)
  <1>1. Adds(t, a, S)
    BY AddsExists
  <1>2. PICK u \in [SUBSET S -> Nat] : Adds(u, a, S)
    BY AddsExists
  <1>3. SumFunctionOnSet(a, S) = t[S]
    BY TotalDef
  <1> HIDE DEF t
  <1>4. t[S] = u[S]
    BY <1>1, <1>2, AddsUnique DEF Amounts
  <1>5. ASSUME S # {} PROVE SumFunctionOnSet(a, S) = a[Taken(S)] + SumFunctionOnSet(a, S \ {Taken(S)})
    <2> DEFINE R == S \ {Taken(S)}
    <2>1. R \in SUBSET S /\ IsFiniteSet(R) /\ Amounts(a, R)
      BY FS_Subset DEF Amounts
    <2> DEFINE r == CHOOSE r : Adds(r, a, R)
    <2>2. Adds(r, a, R)
      BY <2>1, AddsExists
    <2>3. SumFunctionOnSet(a, R) = r[R]
      BY TotalDef
    <2> HIDE DEF r
    <2>4. t[R] = r[R]
      <3>1. IsFiniteSet(S) /\ R \in SUBSET R
        BY DEF Amounts
      <3> HIDE DEF R
      <3>2. \A T \in SUBSET R : t[T] = r[T]
        BY <1>1, <2>1, <2>2, <3>1, AddsUnique
      <3> QED
        BY <3>1, <3>2
    <2>5. t[S] = a[Taken(S)] + t[R]
      BY <1>1, <1>5 DEF Adds
    <2> QED
      BY <1>3, <2>3, <2>4, <2>5
  <1> QED
    BY <1>2, <1>3, <1>4, <1>5

LEMMA TotalSplit ==
  ASSUME NEW a, NEW S, Amounts(a, S), NEW x \in S
  PROVE  SumFunctionOnSet(a, S) = a[x] + SumFunctionOnSet(a, S \ {x})
  <1> DEFINE B == {T \in SUBSET S : \E y \in T : SumFunctionOnSet(a, T) # a[y] + SumFunctionOnSet(a, T \ {y})}
  <1>1. SUFFICES ASSUME B # {} PROVE FALSE
    OBVIOUS
  <1>2. PICK T \in B : \A U \in B : U \subseteq T => U = T
    <2>1. B \subseteq SUBSET S
      OBVIOUS
    <2> HIDE DEF B
    <2> QED
      BY <1>1, <2>1, Smallest DEF Amounts
  <1>3. PICK y \in T : SumFunctionOnSet(a, T) # a[y] + SumFunctionOnSet(a, T \ {y})
    BY <1>2
  <1>4. \A U \in SUBSET T : U # T => \A z \in U : SumFunctionOnSet(a, U) = a[z] + SumFunctionOnSet(a, U \ {z})
    BY <1>2
  <1>5. \A U \in SUBSET T : Amounts(a, U) /\ SumFunctionOnSet(a, U) \in Nat
    BY TotalTaken, FS_Subset DEF Amounts
  <1> DEFINE p == Taken(T)
  <1>6. p \in T /\ SumFunctionOnSet(a, T) = a[p] + SumFunctionOnSet(a, T \ {p})
    BY <1>3, <1>5, TakenIn, TotalTaken
  <1>7. p # y
    BY <1>3, <1>6
  <1> HIDE DEF p
  <1>8. SumFunctionOnSet(a, T \ {p}) = a[y] + SumFunctionOnSet(a, (T \ {p}) \ {y})
    BY <1>4, <1>6, <1>7
  <1>9. SumFunctionOnSet(a, T \ {y}) = a[p] + SumFunctionOnSet(a, (T \ {y}) \ {p})
    BY <1>4, <1>6, <1>7
  <1>10. (T \ {y}) \ {p} = (T \ {p}) \ {y}
    OBVIOUS
  <1>11. a[p] \in Nat /\ a[y] \in Nat /\ SumFunctionOnSet(a, (T \ {p}) \ {y}) \in Nat
    BY <1>5, <1>6 DEF Amounts
  <1> QED
    BY <1>3, <1>6, <1>8, <1>9, <1>10, <1>11

\* Of fewer rows the total is no more, by at least any one that is left out.
LEMMA TotalMonotone ==
  ASSUME NEW a, NEW S, Amounts(a, S), NEW R \in SUBSET S
  PROVE  SumFunctionOnSet(a, R) <= SumFunctionOnSet(a, S)
  <1> DEFINE B == {T \in SUBSET S : R \subseteq T /\ ~ (SumFunctionOnSet(a, R) <= SumFunctionOnSet(a, T))}
  <1>1. SUFFICES ASSUME B # {} PROVE FALSE
    OBVIOUS
  <1>2. PICK T \in B : \A U \in B : U \subseteq T => U = T
    <2>1. B \subseteq SUBSET S
      OBVIOUS
    <2> HIDE DEF B
    <2> QED
      BY <1>1, <2>1, Smallest DEF Amounts
  <1>3. \A U \in SUBSET S : Amounts(a, U) /\ SumFunctionOnSet(a, U) \in Nat
    BY TotalTaken, FS_Subset DEF Amounts
  <1>4. PICK x \in T : x \notin R
    <2>1. SumFunctionOnSet(a, R) \in Nat
      BY <1>3
    <2>2. T # R
      BY <1>2, <2>1
    <2> QED
      BY <1>2, <2>2
  <1>5. SumFunctionOnSet(a, R) <= SumFunctionOnSet(a, T \ {x})
    BY <1>2, <1>4
  <1>6. SumFunctionOnSet(a, T) = a[x] + SumFunctionOnSet(a, T \ {x}) /\ a[x] \in Nat
    BY <1>2, <1>3, <1>4, TotalSplit DEF Amounts
  <1> QED
    BY <1>2, <1>3, <1>5, <1>6

\* Only the amounts of the rows added up matter.
LEMMA TotalSame ==
  ASSUME NEW a, NEW b, NEW S, Amounts(a, S), \A x \in S : a[x] = b[x]
  PROVE  SumFunctionOnSet(a, S) = SumFunctionOnSet(b, S)
  <1> DEFINE B == {T \in SUBSET S : SumFunctionOnSet(a, T) # SumFunctionOnSet(b, T)}
  <1>1. SUFFICES ASSUME B # {} PROVE FALSE
    OBVIOUS
  <1>2. PICK T \in B : \A U \in B : U \subseteq T => U = T
    <2>1. B \subseteq SUBSET S
      OBVIOUS
    <2> HIDE DEF B
    <2> QED
      BY <1>1, <2>1, Smallest DEF Amounts
  <1>3. \A U \in SUBSET S : Amounts(a, U) /\ Amounts(b, U)
    BY FS_Subset DEF Amounts
  <1>4. PICK x \in T : TRUE
    BY <1>2, TotalEmpty
  <1>5. SumFunctionOnSet(a, T \ {x}) = SumFunctionOnSet(b, T \ {x})
    BY <1>2, <1>4
  <1> QED
    BY <1>2, <1>3, <1>4, <1>5, TotalSplit
=============================================================================
