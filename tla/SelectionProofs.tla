---------------------------- MODULE SelectionProofs ---------------------------
(***************************************************************************)
(* Proofs about Selection, ImportPlan and StrategyText: the type, the time *)
(* that a run may take, whose reports it tells, how they are ranked and    *)
(* filtered, which runs keep their files, what an import adds, and what    *)
(* the texts that it adds are rendered to.                                 *)
(***************************************************************************)
EXTENDS ImportPlan, StrategyText, FiniteSetTheorems, SequenceTheorems, TLAPS

-----------------------------------------------------------------------------
(* Induction.  The theorems of the library are about operators; these are  *)
(* about sets, so that they can be cited.                                  *)

\* A set of numbers that is not empty has a least one.
LEMMA LeastOf ==
    ASSUME NEW T \in SUBSET Nat, T # {}
    PROVE  \E x \in T : \A y \in T : x <= y
<1> DEFINE R == OpToRel(<, Nat)
<1>1. IsWellFoundedOn(R, Nat)
      BY NatLessThanWellFounded
<1>2. \A x, y \in Nat : y < x => <<y, x>> \in R
      BY DEF OpToRel
<1> HIDE DEF R
<1>3. PICK x \in T : \A y \in T : ~ (<<y, x>> \in R)
      BY <1>1, WFMin
<1>4. \A y \in T : ~ (y < x)
      BY <1>2, <1>3
<1> QED BY <1>4

\* What holds of 0 and of k + 1 if it holds of k, holds up to n.
LEMMA UpTo ==
    ASSUME NEW n \in Nat, NEW T, 0 \in T,
           \A k \in 0..n : k < n /\ k \in T => k + 1 \in T
    PROVE  0..n \subseteq T
<1> DEFINE Not == (0..n) \ T
<1> SUFFICES ASSUME Not # {} PROVE FALSE
    OBVIOUS
<1>0. Not \in SUBSET Nat
      OBVIOUS
<1>1. PICK x \in Not : \A y \in Not : x <= y
      BY <1>0, LeastOf
<1>2. x \in 1..n
      BY <1>1
<1>3. x - 1 \in 0..n /\ x - 1 < n /\ ~ (x <= x - 1)
      BY <1>2
<1>4. x - 1 \in T
      BY <1>1, <1>3
<1>5. (x - 1) + 1 \in T
      BY <1>3, <1>4
<1> QED BY <1>1, <1>2, <1>5

\* What holds of no elements, and of one more if it holds without it, holds of
\* every sequence.
LEMMA OfSequences ==
    ASSUME NEW S, NEW T, <<>> \in T,
           \A s \in Seq(S) : s \in T => \A e \in S : Append(s, e) \in T
    PROVE  Seq(S) \subseteq T
<1> DEFINE L == {n \in Nat : \A s \in Seq(S) : Len(s) = n => s \in T}
<1>1. 0 \in L
      BY EmptySeq
<1>2. \A n \in Nat : n \in L => n + 1 \in L
  <2> SUFFICES ASSUME NEW n \in Nat, n \in L, NEW s \in Seq(S), Len(s) = n + 1
               PROVE  s \in T
      OBVIOUS
  <2>1. s # <<>>
        BY EmptySeq
  <2>2. PICK p \in Seq(S), e \in S : s = Append(p, e)
        BY <2>1, SequenceEmptyOrAppend
  <2>3. Len(p) = n
        BY <2>2
  <2> QED BY <2>2, <2>3
<1> HIDE DEF L
<1>3. ASSUME NEW s \in Seq(S) PROVE Len(s) \in L
  <2>1. Len(s) \in Nat
        OBVIOUS
  <2>2. \A k \in 0..Len(s) : k < Len(s) /\ k \in L => k + 1 \in L
        BY <1>2, <2>1
  <2>3. 0..Len(s) \subseteq L
        BY <1>1, <2>1, <2>2, UpTo
  <2> QED BY <2>1, <2>3
<1> QED BY <1>3 DEF L

\* g is what a recursion that starts with a and steps by St gives up to n.
Solves(g, X, a, n, St) ==
    /\ g \in [0..n -> X]
    /\ g[0] = a
    /\ \A i \in 1..n : g[i] = St[<<g[i - 1], i>>]

\* A recursion whose steps stay within X has a solution within X.
LEMMA Recursion ==
    ASSUME NEW X, NEW a \in X, NEW n \in Nat, NEW St \in [X \X (1..n) -> X]
    PROVE  \E g : Solves(g, X, a, n, St)
<1> DEFINE T == {k \in 0..n : \E g : Solves(g, X, a, k, St)}
<1>1. 0 \in T
  <2>1. Solves([i \in 0..0 |-> a], X, a, 0, St)
        BY DEF Solves
  <2> QED BY <2>1
<1>2. \A k \in 0..n : k < n /\ k \in T => k + 1 \in T
  <2> SUFFICES ASSUME NEW k \in 0..n, k < n, NEW g, Solves(g, X, a, k, St)
               PROVE  \E h : Solves(h, X, a, k + 1, St)
      OBVIOUS
  <2> DEFINE next == St[<<g[k], k + 1>>]
             h == [i \in 0..(k + 1) |-> IF i = k + 1 THEN next ELSE g[i]]
  <2>1. k + 1 \in 1..n /\ g[k] \in X /\ k \in 0..k /\ k \in Nat
        BY DEF Solves
  <2>2. next \in X
    <3>1. <<g[k], k + 1>> \in X \X (1..n)
          BY <2>1
    <3> QED BY <3>1
  <2> HIDE DEF next
  <2>3. h \in [0..(k + 1) -> X] /\ h[0] = a
        BY <2>1, <2>2 DEF Solves
  <2>4. ASSUME NEW i \in 1..(k + 1) PROVE h[i] = St[<<h[i - 1], i>>]
    <3>1. CASE i = k + 1
      <4>1. h[i] = next /\ i - 1 = k /\ h[k] = g[k]
            BY <2>1, <3>1
      <4> QED BY <3>1, <4>1 DEF next
    <3>2. CASE i \in 1..k
      <4>1. h[i] = g[i] /\ h[i - 1] = g[i - 1]
            BY <2>1, <3>2
      <4> QED BY <3>2, <4>1 DEF Solves
    <3> QED BY <2>1, <3>1, <3>2
  <2> HIDE DEF h
  <2>5. Solves(h, X, a, k + 1, St)
        BY <2>3, <2>4 DEF Solves
  <2> QED BY <2>5
<1> HIDE DEF T
<1>3. n \in T
      BY <1>1, <1>2, UpTo
<1> QED BY <1>3 DEF T

\* The parts of Where, prefix by prefix.
Parts(part, s, T) ==
    /\ part[0] = <<>>
    /\ \A k \in 1..Len(s) :
          part[k] = IF s[k] \in T THEN Append(part[k - 1], s[k]) ELSE part[k - 1]

\* Where is defined, by its parts.
LEMMA WhereParts ==
    ASSUME NEW S, NEW s \in Seq(S), NEW T
    PROVE  \E part : Where(s, T) = part[Len(s)] /\ Parts(part, s, T)
<1> DEFINE n == Len(s)
           X == Seq(S)
           a == <<>>
           St == [p \in X \X (1..n) |->
                    IF s[p[2]] \in T THEN Append(p[1], s[p[2]]) ELSE p[1]]
           Step(g) == [k \in 0..n |->
                    IF k = 0 THEN <<>>
                    ELSE IF s[k] \in T THEN Append(g[k - 1], s[k]) ELSE g[k - 1]]
           part == CHOOSE g : g = Step(g)
<1>1. n \in Nat /\ a \in X /\ \A k \in 1..n : s[k] \in S
      OBVIOUS
<1>2. \A q \in X, k \in 1..n :
            /\ St[<<q, k>>] = IF s[k] \in T THEN Append(q, s[k]) ELSE q
            /\ St[<<q, k>>] \in X
      BY <1>1
<1>3. St \in [X \X (1..n) -> X]
      BY <1>1
<1>4. Where(s, T) = part[n]
      BY DEF Where
<1> HIDE DEF St, n, X, a
<1>5. PICK g : Solves(g, X, a, n, St)
      BY <1>1, <1>3, Recursion
<1>6. g = Step(g)
  <2>1. g = [k \in 0..n |-> g[k]] /\ g[0] = <<>>
        BY <1>5 DEF Solves, a
  <2>2. ASSUME NEW k \in 0..n, k # 0
        PROVE  g[k] = IF s[k] \in T THEN Append(g[k - 1], s[k]) ELSE g[k - 1]
    <3>1. k \in 1..n /\ k - 1 \in 0..n
          BY <1>1, <2>2
    <3>2. g[k - 1] \in X /\ g[k] = St[<<g[k - 1], k>>]
          BY <1>5, <3>1 DEF Solves
    <3>3. St[<<g[k - 1], k>>] = IF s[k] \in T THEN Append(g[k - 1], s[k]) ELSE g[k - 1]
          BY <1>2, <3>1, <3>2
    <3> QED BY <3>2, <3>3
  <2>3. \A k \in 0..n : g[k] = Step(g)[k]
        BY <2>1, <2>2
  <2> HIDE DEF Step
  <2>4. Step(g) = [k \in 0..n |-> Step(g)[k]]
        BY DEF Step
  <2> QED BY <2>1, <2>3, <2>4
<1> HIDE DEF Step
<1>7. part = Step(part)
      BY <1>6
<1> HIDE DEF part
<1>8. part[0] = <<>>
  <2>1. Step(part)[0] = <<>>
        BY <1>1 DEF Step
  <2> QED BY <1>7, <2>1
<1>9. ASSUME NEW k \in 1..n
      PROVE  part[k] = IF s[k] \in T THEN Append(part[k - 1], s[k]) ELSE part[k - 1]
  <2>1. k \in 0..n /\ k # 0
        BY <1>1
  <2>2. Step(part)[k] = IF s[k] \in T THEN Append(part[k - 1], s[k]) ELSE part[k - 1]
        BY <2>1 DEF Step
  <2> QED BY <1>7, <2>2
<1> QED BY <1>4, <1>8, <1>9 DEF Parts, n

\* Where decides element by element.
LEMMA WhereLaw ==
    ASSUME NEW S, NEW T
    PROVE  /\ Where(<<>>, T) = <<>>
           /\ \A s \in Seq(S), e \in S :
                Where(Append(s, e), T) =
                    IF e \in T THEN Append(Where(s, T), e) ELSE Where(s, T)
           /\ \A s \in Seq(S) : Where(s, T) \in Seq(S)
<1>1. Where(<<>>, T) = <<>>
  <2>1. <<>> \in Seq(S) /\ Len(<<>>) = 0
        OBVIOUS
  <2>2. PICK part : Where(<<>>, T) = part[Len(<<>>)] /\ Parts(part, <<>>, T)
        BY <2>1, WhereParts
  <2> QED BY <2>1, <2>2 DEF Parts
<1>2. ASSUME NEW s \in Seq(S), NEW e \in S
      PROVE  Where(Append(s, e), T) = IF e \in T THEN Append(Where(s, T), e) ELSE Where(s, T)
  <2> DEFINE n == Len(s)
             t == Append(s, e)
  <2>1. /\ n \in Nat /\ t \in Seq(S) /\ Len(t) = n + 1
        /\ \A k \in 1..n : t[k] = s[k]
        /\ t[n + 1] = e
        BY AppendProperties
  <2> HIDE DEF t
  <2>2. PICK p : Where(s, T) = p[n] /\ Parts(p, s, T)
        BY WhereParts
  <2>3. PICK q : Where(t, T) = q[Len(t)] /\ Parts(q, t, T)
        BY <2>1, WhereParts
  <2> DEFINE D == {k \in 0..n : p[k] = q[k]}
  <2>4. 0 \in D
        BY <2>1, <2>2, <2>3 DEF Parts
  <2>5. \A k \in 0..n : k < n /\ k \in D => k + 1 \in D
    <3> SUFFICES ASSUME NEW k \in 0..n, k < n, p[k] = q[k]
                 PROVE  p[k + 1] = q[k + 1] /\ k + 1 \in 0..n
        OBVIOUS
    <3> HIDE DEF n
    <3> DEFINE m == k + 1
    <3>1. m \in 1..n /\ m \in 1..(n + 1) /\ m - 1 = k /\ m \in 0..n
          BY <2>1
    <3> HIDE DEF m
    <3>2. p[m] = IF s[m] \in T THEN Append(p[k], s[m]) ELSE p[k]
          BY <2>2, <3>1 DEF Parts, n
    <3>3. q[m] = IF t[m] \in T THEN Append(q[k], t[m]) ELSE q[k]
          BY <2>1, <2>3, <3>1 DEF Parts
    <3>4. t[m] = s[m]
          BY <2>1, <3>1
    <3>5. p[m] = q[m]
          BY <3>2, <3>3, <3>4
    <3> QED BY <3>1, <3>5 DEF m
  <2> HIDE DEF D, n
  <2>6. n \in D
    <3>1. n \in 0..n
          BY <2>1
    <3> QED BY <2>1, <2>4, <2>5, <3>1, UpTo
  <2>7. q[n + 1] = IF e \in T THEN Append(q[n], e) ELSE q[n]
    <3>1. n + 1 \in 1..(n + 1) /\ (n + 1) - 1 = n
          BY <2>1
    <3> QED BY <2>1, <2>3, <3>1 DEF Parts
  <2> QED BY <2>1, <2>2, <2>3, <2>6, <2>7 DEF D, t
<1>3. Seq(S) \subseteq {s \in Seq(S) : Where(s, T) \in Seq(S)}
  <2> DEFINE D == {s \in Seq(S) : Where(s, T) \in Seq(S)}
  <2>1. <<>> \in D
    <3>1. <<>> \in Seq(S)
          OBVIOUS
    <3>2. Where(<<>>, T) \in Seq(S)
          BY <1>1, <3>1
    <3> QED BY <3>1, <3>2
  <2>2. \A s \in Seq(S) : s \in D => \A e \in S : Append(s, e) \in D
        BY <1>2, AppendProperties
  <2> HIDE DEF D
  <2> QED BY <2>1, <2>2, OfSequences DEF D
<1> QED BY <1>1, <1>2, <1>3

\* e lists, in their order, the places of s at which an element of T is.
Places(e, s, T) ==
    /\ e \in [1..Len(Where(s, T)) -> 1..Len(s)]
    /\ \A i, j \in 1..Len(Where(s, T)) : i < j => e[i] < e[j]
    /\ \A i \in 1..Len(Where(s, T)) : Where(s, T)[i] = s[e[i]] /\ s[e[i]] \in T
    /\ \A k \in 1..Len(s) : s[k] \in T => \E i \in 1..Len(Where(s, T)) : e[i] = k

\* Where takes what is in T, in its order, and nothing else.
LEMMA WherePlaces ==
    ASSUME NEW S, NEW T, NEW s \in Seq(S)
    PROVE  \E e : Places(e, s, T)
<1> DEFINE D == {t \in Seq(S) : \E e : Places(e, t, T)}
<1>1. <<>> \in D
  <2>1. Places(<<>>, <<>>, T) /\ <<>> \in Seq(S)
    <3>1. Where(<<>>, T) = <<>>
          BY WhereLaw
    <3> QED BY <3>1 DEF Places
  <2> QED BY <2>1
<1>2. ASSUME NEW t \in Seq(S), NEW e, Places(e, t, T), NEW x \in S
      PROVE  \E d : Places(d, Append(t, x), T)
  <2> DEFINE n == Len(t)
             w == Where(t, T)
             m == Len(w)
             u == Append(t, x)
             v == Where(u, T)
  <2>1. /\ n \in Nat /\ u \in Seq(S) /\ Len(u) = n + 1
        /\ \A k \in 1..n : u[k] = t[k]
        /\ u[n + 1] = x
        BY AppendProperties
  <2>2. w \in Seq(S) /\ m \in Nat /\ v = IF x \in T THEN Append(w, x) ELSE w
    <3>1. Where(t, T) \in Seq(S)
          BY WhereLaw
    <3>2. \A q \in Seq(S), y \in S :
                Where(Append(q, y), T) = IF y \in T THEN Append(Where(q, T), y) ELSE Where(q, T)
          BY WhereLaw
    <3> QED BY <3>1, <3>2
  <2>3. /\ e \in [1..m -> 1..n]
        /\ \A i, j \in 1..m : i < j => e[i] < e[j]
        /\ \A i \in 1..m : w[i] = t[e[i]] /\ t[e[i]] \in T
        /\ \A k \in 1..n : t[k] \in T => \E i \in 1..m : e[i] = k
        BY <1>2 DEF Places
  <2> HIDE DEF n, w, m, u, v
  <2>4. CASE x \notin T
    <3>1. v = w /\ Len(v) = m
          BY <2>2, <2>4 DEF m
    <3>2. Places(e, u, T)
      <4>1. e \in [1..Len(v) -> 1..Len(u)]
            BY <2>1, <2>3, <3>1
      <4>2. \A i \in 1..m : v[i] = u[e[i]] /\ u[e[i]] \in T
            BY <2>1, <2>3, <3>1
      <4>3. \A k \in 1..Len(u) : u[k] \in T => \E i \in 1..m : e[i] = k
        <5> SUFFICES ASSUME NEW k \in 1..Len(u), u[k] \in T
                     PROVE  \E i \in 1..m : e[i] = k
            OBVIOUS
        <5>1. k \in 1..n
              BY <2>1, <2>4
        <5> QED BY <2>1, <2>3, <5>1
      <4> QED BY <2>3, <3>1, <4>1, <4>2, <4>3 DEF Places, v
    <3> QED BY <3>2 DEF u
  <2>5. CASE x \in T
    <3> DEFINE d == [i \in 1..(m + 1) |-> IF i = m + 1 THEN n + 1 ELSE e[i]]
    <3>1. /\ v = Append(w, x) /\ Len(v) = m + 1
          /\ \A i \in 1..m : v[i] = w[i]
          /\ v[m + 1] = x
          BY <2>2, <2>5, AppendProperties DEF m
    <3>2. /\ d \in [1..(m + 1) -> 1..(n + 1)]
          /\ \A i \in 1..m : d[i] = e[i] /\ d[i] \in 1..n
          /\ d[m + 1] = n + 1
          BY <2>1, <2>2, <2>3
    <3> HIDE DEF d
    <3>3. Places(d, u, T)
      <4>1. ASSUME NEW i \in 1..(m + 1), NEW j \in 1..(m + 1), i < j
            PROVE  d[i] < d[j]
        <5>1. i \in 1..m
              BY <2>2, <4>1
        <5>2. CASE j = m + 1
              BY <2>1, <3>2, <5>1, <5>2
        <5>3. CASE j \in 1..m
              BY <2>3, <3>2, <4>1, <5>1, <5>3
        <5> QED BY <2>2, <5>2, <5>3
      <4>2. ASSUME NEW i \in 1..(m + 1)
            PROVE  v[i] = u[d[i]] /\ u[d[i]] \in T
        <5>1. CASE i = m + 1
              BY <2>1, <2>5, <3>1, <3>2, <5>1
        <5>2. CASE i \in 1..m
          <6>1. v[i] = w[i] /\ d[i] = e[i] /\ e[i] \in 1..n
                BY <3>1, <3>2, <5>2
          <6>2. w[i] = t[e[i]] /\ t[e[i]] \in T /\ u[e[i]] = t[e[i]]
                BY <2>1, <2>3, <5>2, <6>1
          <6> QED BY <6>1, <6>2
        <5>3. i = m + 1 \/ i \in 1..m
              BY <2>2
        <5> QED BY <5>1, <5>2, <5>3
      <4>3. ASSUME NEW k \in 1..(n + 1), u[k] \in T
            PROVE  \E i \in 1..(m + 1) : d[i] = k
        <5>1. CASE k = n + 1
              BY <2>2, <3>2, <5>1
        <5>2. CASE k \in 1..n
          <6>1. PICK i \in 1..m : e[i] = k
                BY <2>1, <2>3, <4>3, <5>2
          <6>2. i \in 1..(m + 1) /\ d[i] = k
                BY <2>2, <3>2, <6>1
          <6> QED BY <6>2
        <5> QED BY <2>1, <5>1, <5>2
      <4> QED BY <2>1, <3>1, <3>2, <4>1, <4>2, <4>3 DEF Places, v
    <3> QED BY <3>3 DEF u
  <2> QED BY <2>4, <2>5
<1>3. \A t \in Seq(S) : t \in D => \A x \in S : Append(t, x) \in D
      BY <1>2, AppendProperties
<1> HIDE DEF D
<1>4. s \in D
      BY <1>1, <1>3, OfSequences
<1> QED BY <1>4 DEF D

-----------------------------------------------------------------------------
(* Sorting                                                                 *)

\* R puts the places up to n in an order.
Orders(R, n) ==
    /\ \A i \in 1..n : <<i, i>> \notin R
    /\ \A i, j, k \in 1..n : <<i, j>> \in R /\ <<j, k>> \in R => <<i, k>> \in R
    /\ \A i, j \in 1..n : i # j => <<i, j>> \in R \/ <<j, i>> \in R

\* p goes through all places up to n in the order R.
Follows(p, R, n) ==
    /\ p \in Bijection(1..n, 1..n)
    /\ \A i, j \in 1..n : i < j => <<p[i], p[j]>> \in R

\* What goes through places in an order goes through all of them.
LEMMA FollowsAll ==
    ASSUME NEW n \in Nat, NEW R, Orders(R, n), NEW p \in [1..n -> 1..n],
           \A i, j \in 1..n : i < j => <<p[i], p[j]>> \in R
    PROVE  Follows(p, R, n)
<1>1. IsFiniteSet(1..n)
      BY FS_Interval
<1>2. p \in Injection(1..n, 1..n)
  <2>1. ASSUME NEW i \in 1..n, NEW j \in 1..n, p[i] = p[j] PROVE i = j
    <3>1. ~ (i < j) /\ ~ (j < i)
          BY <2>1 DEF Orders
    <3> QED BY <3>1
  <2> QED BY <2>1 DEF Injection, IsInjective
<1>3. p \in Surjection(1..n, 1..n)
      BY <1>1, <1>2, FS_Injection
<1> QED BY <1>2, <1>3 DEF Follows, Bijection

\* An order can be gone through: who has k before him is the next of k.
LEMMA Orderable ==
    ASSUME NEW n \in Nat, NEW R, Orders(R, n)
    PROVE  \E p \in [1..n -> 1..n] : \A i, j \in 1..n : i < j => <<p[i], p[j]>> \in R
<1> DEFINE N == 1..n
           Before(x) == {y \in N : <<y, x>> \in R}
           rank == [x \in N |-> Cardinality(Before(x)) + 1]
<1>1. IsFiniteSet(N) /\ Cardinality(N) = n
      BY FS_Interval
<1>2. ASSUME NEW x \in N
      PROVE  IsFiniteSet(Before(x)) /\ Cardinality(Before(x)) \in Nat
      BY <1>1, FS_Subset, FS_CardinalityType
<1>3. ASSUME NEW x \in N PROVE Cardinality(Before(x)) < n
  <2>1. x \notin Before(x)
        BY DEF Orders
  <2>2. Before(x) # N /\ Before(x) \in SUBSET N
        BY <2>1
  <2> HIDE DEF Before
  <2> QED BY <1>1, <1>2, <2>2, FS_Subset
<1>4. rank \in [N -> N]
  <2> HIDE DEF Before
  <2>1. \A x \in N : Cardinality(Before(x)) + 1 \in N
        BY <1>2, <1>3
  <2> QED BY <2>1
<1>5. ASSUME NEW x \in N, NEW y \in N, <<x, y>> \in R PROVE rank[x] < rank[y]
  <2>1. Before(x) \in SUBSET Before(y)
        BY <1>5 DEF Orders
  <2>2. x \in Before(y) /\ x \notin Before(x)
        BY <1>5 DEF Orders
  <2>3. Before(x) # Before(y)
        BY <2>2
  <2> HIDE DEF Before
  <2>4. Cardinality(Before(x)) < Cardinality(Before(y))
        BY <1>2, <2>1, <2>3, FS_Subset
  <2> QED BY <1>2, <2>4
<1> HIDE DEF rank
<1>6. rank \in Injection(N, N)
  <2>1. ASSUME NEW x \in N, NEW y \in N, rank[x] = rank[y] PROVE x = y
    <3>1. <<x, y>> \notin R /\ <<y, x>> \notin R
          BY <1>4, <1>5, <2>1
    <3> QED BY <3>1 DEF Orders
  <2> QED BY <1>4, <2>1 DEF Injection, IsInjective
<1>7. rank \in Surjection(N, N)
      BY <1>1, <1>6, FS_Injection
<1> DEFINE p == [k \in N |-> CHOOSE x \in N : rank[x] = k]
<1>8. \A k \in N : p[k] \in N /\ rank[p[k]] = k
      BY <1>7 DEF Surjection
<1>9. p \in [N -> N]
      BY <1>8
<1> HIDE DEF p
<1>10. ASSUME NEW i \in N, NEW j \in N, i < j PROVE <<p[i], p[j]>> \in R
  <2>1. p[i] # p[j]
        BY <1>8, <1>10
  <2>2. <<p[j], p[i]>> \notin R
        BY <1>5, <1>8, <1>10
  <2> QED BY <1>8, <2>1, <2>2 DEF Orders
<1> QED BY <1>9, <1>10

-----------------------------------------------------------------------------
(* Ranking and filter                                                      *)

\* What can be told from its places in another order is permuted.
LEMMA Reordered ==
    ASSUME NEW n \in Nat, NEW s, NEW t, DOMAIN s = 1..n, DOMAIN t = 1..n,
           NEW b \in Bijection(1..n, 1..n), \A k \in 1..n : t[k] = s[b[k]]
    PROVE  Permuted(s, t)
<1> DEFINE N == 1..n
<1>1. IsFiniteSet(N) /\ b \in [N -> N]
  <2>1. IsFiniteSet(N)
        BY FS_Interval
  <2>2. b \in [N -> N]
        BY DEF Bijection, Injection
  <2> QED BY <2>1, <2>2
<1>2. ASSUME NEW x
      PROVE  Cardinality({i \in N : s[i] = x}) = Cardinality({i \in N : t[i] = x})
  <2> DEFINE P == {i \in N : s[i] = x}
             Q == {k \in N : t[k] = x}
             c == [k \in Q |-> b[k]]
  <2>1. IsFiniteSet(Q)
        BY <1>1, FS_Subset
  <2>2. c \in [Q -> P]
        BY <1>1
  <2>3. \A j, k \in Q : c[j] = c[k] => j = k
        BY <1>1 DEF Bijection, Injection, IsInjective
  <2>4. \A i \in P : \E k \in Q : c[k] = i
    <3> SUFFICES ASSUME NEW i \in N, s[i] = x PROVE \E k \in Q : c[k] = i
        OBVIOUS
    <3>1. PICK k \in N : b[k] = i
          BY DEF Bijection, Surjection
    <3>2. k \in Q
          BY <3>1
    <3> QED BY <3>1, <3>2
  <2> HIDE DEF c, P, Q
  <2>5. c \in Bijection(Q, P)
        BY <2>2, <2>3, <2>4 DEF Bijection, Injection, IsInjective, Surjection
  <2>6. ExistsBijection(Q, P)
        BY <2>5 DEF ExistsBijection
  <2> QED BY <2>1, <2>6, FS_Bijection DEF P, Q
<1> QED BY <1>2 DEF Permuted

\* What a row is ranked by is four numbers.
LEMMA KeyType ==
    ASSUME NEW r, r.rate \in Int, r.share \in Int, r.ms \in Int
    PROVE  /\ Key(r)[1] \in Int /\ Key(r)[2] \in Int /\ Key(r)[3] \in Int /\ Key(r)[4] \in Int
           /\ r.working => Key(r)[1] = 0
           /\ Key(r)[2] = -r.rate
BY DEF Key, NoShare

\* Row r comes before s if the first of the numbers that differs is less.
LEMMA PrecedesIs ==
    ASSUME NEW r, NEW s
    PROVE  Precedes(r, s) <=>
              \/ Key(r)[1] < Key(s)[1]
              \/ Key(r)[2] < Key(s)[2] /\ Key(r)[1] = Key(s)[1]
              \/ Key(r)[3] < Key(s)[3] /\ Key(r)[1] = Key(s)[1] /\ Key(r)[2] = Key(s)[2]
              \/ /\ Key(r)[4] < Key(s)[4]
                 /\ Key(r)[1] = Key(s)[1] /\ Key(r)[2] = Key(s)[2] /\ Key(r)[3] = Key(s)[3]
<1>1. 1..(1 - 1) = {} /\ 1..(2 - 1) = {1} /\ 1..(3 - 1) = {1, 2} /\ 1..(4 - 1) = {1, 2, 3}
      OBVIOUS
<1>2. 1..4 = {1, 2, 3, 4}
      OBVIOUS
<1> QED BY <1>1, <1>2, Zenon DEF Precedes

\* A row that can be ranked.
Rankable(r) == r.rate \in Int /\ r.share \in Int /\ r.ms \in Int

\* The ranking is one: rows of the same rank may be exchanged.
LEMMA PrecedesOrders ==
    ASSUME NEW q, NEW r, NEW s, Rankable(q), Rankable(r), Rankable(s)
    PROVE  /\ ~ Precedes(q, q)
           /\ Precedes(q, r) => ~ Precedes(r, q)
           /\ Precedes(q, r) /\ Precedes(r, s) => Precedes(q, s)
           /\ Precedes(q, r) /\ ~ Precedes(s, r) => Precedes(q, s)
           /\ ~ Precedes(r, q) /\ Precedes(r, s) => Precedes(q, s)
           /\ ~ Precedes(r, q) /\ ~ Precedes(s, r) => ~ Precedes(s, q)
<1> DEFINE K(x, i) == Key(x)[i]
<1>1. \A i \in {1, 2, 3, 4} : K(q, i) \in Int /\ K(r, i) \in Int /\ K(s, i) \in Int
      BY KeyType DEF Rankable
<1> HIDE DEF K
<1>2. ASSUME NEW x \in {q, r, s}, NEW y \in {q, r, s}
      PROVE  Precedes(x, y) <=>
              \/ K(x, 1) < K(y, 1)
              \/ K(x, 2) < K(y, 2) /\ K(x, 1) = K(y, 1)
              \/ K(x, 3) < K(y, 3) /\ K(x, 1) = K(y, 1) /\ K(x, 2) = K(y, 2)
              \/ /\ K(x, 4) < K(y, 4)
                 /\ K(x, 1) = K(y, 1) /\ K(x, 2) = K(y, 2) /\ K(x, 3) = K(y, 3)
      BY PrecedesIs DEF K
<1> QED BY <1>1, <1>2

\* A report whose rows can be ranked.
RankableReport(rows) == rows \in Seq(RowsOf(rows)) /\ \A i \in DOMAIN rows : Rankable(rows[i])

\* sorted() puts the rows of a report in the order of their ranks.
LEMMA RankedRows ==
    ASSUME NEW rows, RankableReport(rows)
    PROVE  \E p : /\ p \in Bijection(1..Len(rows), 1..Len(rows))
                  /\ Ranked(rows) = [k \in 1..Len(rows) |-> rows[p[k]]]
                  /\ \A i, j \in 1..Len(rows) :
                        i < j => ~ Precedes(rows[p[j]], rows[p[i]])
<1> DEFINE n == Len(rows)
           Before(i, j) == \/ Precedes(rows[i], rows[j])
                           \/ ~Precedes(rows[j], rows[i]) /\ i < j
           R == {q \in (1..n) \X (1..n) : Before(q[1], q[2])}
           Sorts(p) == \A i, j \in DOMAIN rows : i < j => Before(p[i], p[j])
           order == CHOOSE p \in [DOMAIN rows -> DOMAIN rows] : Sorts(p)
<1>1. n \in Nat /\ DOMAIN rows = 1..n /\ \A i \in 1..n : Rankable(rows[i])
      BY DEF RankableReport
<1>2. \A i, j \in 1..n : <<i, j>> \in R <=> Before(i, j)
      OBVIOUS
<1>3. Ranked(rows) = [k \in DOMAIN rows |-> rows[order[k]]]
      BY DEF Ranked, StableSort
<1> HIDE DEF R, n
<1>4. Orders(R, n)
  <2>1. \A i \in 1..n : ~ Before(i, i)
        BY <1>1, PrecedesOrders
  <2>2. ASSUME NEW i \in 1..n, NEW j \in 1..n, NEW k \in 1..n, Before(i, j), Before(j, k)
        PROVE  Before(i, k)
    <3>1. CASE Precedes(rows[i], rows[j]) \/ Precedes(rows[j], rows[k])
      <4>1. Precedes(rows[i], rows[k])
            BY <1>1, <2>2, <3>1, PrecedesOrders
      <4> QED BY <4>1
    <3>2. CASE ~ Precedes(rows[i], rows[j]) /\ ~ Precedes(rows[j], rows[k])
      <4>1. i < k
            BY <1>1, <2>2, <3>2
      <4>2. ~ Precedes(rows[k], rows[i])
            BY <1>1, <2>2, <3>2, PrecedesOrders
      <4> QED BY <4>1, <4>2
    <3> QED BY <3>1, <3>2
  <2>3. ASSUME NEW i \in 1..n, NEW j \in 1..n, i # j PROVE Before(i, j) \/ Before(j, i)
    <3>1. i < j \/ j < i
          BY <1>1, <2>3
    <3> QED BY <3>1
  <2> HIDE DEF Before
  <2> QED BY <1>2, <2>1, <2>2, <2>3 DEF Orders
<1>5. order \in [1..n -> 1..n] /\ Sorts(order)
  <2>1. PICK p \in [1..n -> 1..n] : \A i, j \in 1..n : i < j => <<p[i], p[j]>> \in R
        BY <1>1, <1>4, Orderable
  <2> HIDE DEF Before
  <2>2. Sorts(p)
        BY <1>1, <1>2, <2>1
  <2> HIDE DEF Sorts
  <2> QED BY <1>1, <2>1, <2>2
<1> HIDE DEF order
<1>6. Follows(order, R, n)
  <2>1. \A i, j \in 1..n : i < j => <<order[i], order[j]>> \in R
    <3> HIDE DEF Before
    <3> QED BY <1>1, <1>2, <1>5
  <2> QED BY <1>1, <1>4, <1>5, <2>1, FollowsAll
<1>7. ASSUME NEW i \in 1..n, NEW j \in 1..n, i < j
      PROVE  ~ Precedes(rows[order[j]], rows[order[i]])
  <2>1. Before(order[i], order[j]) /\ order[i] \in 1..n /\ order[j] \in 1..n
    <3> HIDE DEF Before
    <3> QED BY <1>1, <1>5, <1>7
  <2> QED BY <1>1, <2>1, PrecedesOrders
<1> QED BY <1>1, <1>3, <1>6, <1>7 DEF Follows, n

\* The filter takes a ranked report apart: those it lets pass and those it
\* does not are the rows of the report, each as often as there.
LEMMA FilterSplits ==
    ASSUME NEW rows, RankableReport(rows)
    PROVE  /\ Permuted(rows, Working(rows) \o Refused(rows))
           /\ Working(rows) \in Seq(RowsOf(rows))
           /\ \A k \in DOMAIN Working(rows) :
                 Working(rows)[k].working /\ Rankable(Working(rows)[k])
           /\ \A j, k \in DOMAIN Working(rows) :
                 j < k => ~ Precedes(Working(rows)[k], Working(rows)[j])
<1> DEFINE n == Len(rows)
           S == RowsOf(rows)
           A == {r \in S : Accepts(r)}
           B == {r \in S : ~Accepts(r)}
           sorted == Ranked(rows)
           w == Where(sorted, A)
           v == Where(sorted, B)
           m == Len(w)
           l == Len(v)
           t == w \o v
<1>1. n \in Nat /\ DOMAIN rows = 1..n /\ rows \in Seq(S) /\ \A i \in 1..n : Rankable(rows[i])
      BY DEF RankableReport
<1>2. Working(rows) = w /\ Refused(rows) = v
      BY DEF Working, Refused
<1>3. PICK p : /\ p \in Bijection(1..n, 1..n)
               /\ sorted = [k \in 1..n |-> rows[p[k]]]
               /\ \A i, j \in 1..n : i < j => ~ Precedes(rows[p[j]], rows[p[i]])
      BY RankedRows
<1>4. p \in [1..n -> 1..n] /\ \A i, j \in 1..n : p[i] = p[j] => i = j
      BY <1>3 DEF Bijection, Injection, IsInjective
<1>5. \A k \in 1..n : \E i \in 1..n : p[i] = k
      BY <1>3 DEF Bijection, Surjection
<1> HIDE DEF n, S, A, B, sorted, w, v, m, l, t
<1>6. /\ sorted \in Seq(S) /\ Len(sorted) = n /\ DOMAIN sorted = 1..n
      /\ \A k \in 1..n : sorted[k] = rows[p[k]] /\ sorted[k] \in S /\ Rankable(sorted[k])
  <2>1. \A k \in 1..n : rows[p[k]] \in S
        BY <1>1, <1>4
  <2>2. sorted \in [1..n -> S]
        BY <1>3, <2>1
  <2> QED BY <1>1, <1>3, <1>4, <2>2
<1>7. PICK e : Places(e, sorted, A)
      BY <1>6, WherePlaces
<1>8. PICK f : Places(f, sorted, B)
      BY <1>6, WherePlaces
<1>9. w \in Seq(S) /\ v \in Seq(S) /\ m \in Nat /\ l \in Nat
  <2>1. w \in Seq(S) /\ v \in Seq(S)
        BY <1>6, WhereLaw DEF w, v
  <2> QED BY <2>1 DEF m, l
<1>10. /\ e \in [1..m -> 1..n]
       /\ \A i, j \in 1..m : i < j => e[i] < e[j]
       /\ \A i \in 1..m : w[i] = sorted[e[i]] /\ sorted[e[i]] \in A
       /\ \A k \in 1..n : sorted[k] \in A => \E i \in 1..m : e[i] = k
       BY <1>6, <1>7 DEF Places, w, m
<1>11. /\ f \in [1..l -> 1..n]
       /\ \A i, j \in 1..l : i < j => f[i] < f[j]
       /\ \A i \in 1..l : v[i] = sorted[f[i]] /\ sorted[f[i]] \in B
       /\ \A k \in 1..n : sorted[k] \in B => \E i \in 1..l : f[i] = k
       BY <1>6, <1>8 DEF Places, v, l
<1>12. /\ t \in Seq(S) /\ Len(t) = m + l /\ DOMAIN t = 1..(m + l)
       /\ \A k \in 1..m : t[k] = w[k]
       /\ \A k \in 1..(m + l) : k > m => t[k] = v[k - m]
       BY <1>9, ConcatProperties DEF t, m, l
<1> DEFINE c == [k \in 1..(m + l) |-> IF k <= m THEN e[k] ELSE f[k - m]]
<1>13. /\ \A k \in 1..m : k \in 1..(m + l) /\ c[k] = e[k]
       /\ \A k \in 1..l : k + m \in 1..(m + l) /\ c[k + m] = f[k]
       BY <1>9
<1>14. \A k \in 1..(m + l) : k \in 1..m \/ \E i \in 1..l : k = i + m
  <2> SUFFICES ASSUME NEW k \in 1..(m + l), k \notin 1..m
               PROVE  k - m \in 1..l /\ k = (k - m) + m
      OBVIOUS
  <2> QED BY <1>9
<1>15. DOMAIN c = 1..(m + l)
       OBVIOUS
<1> HIDE DEF c
<1>16. \A x \in S : x \in A <=> x \notin B
       BY DEF A, B
<1>17. /\ \A k \in 1..m : c[k] \in 1..n /\ sorted[c[k]] \in A /\ t[k] = sorted[c[k]]
       /\ \A k \in 1..l : /\ c[k + m] \in 1..n /\ sorted[c[k + m]] \in B
                          /\ t[k + m] = sorted[c[k + m]]
  <2>1. ASSUME NEW k \in 1..m
        PROVE  c[k] \in 1..n /\ sorted[c[k]] \in A /\ t[k] = sorted[c[k]]
        BY <1>10, <1>12, <1>13
  <2>2. ASSUME NEW k \in 1..l
        PROVE  /\ c[k + m] \in 1..n /\ sorted[c[k + m]] \in B
               /\ t[k + m] = sorted[c[k + m]]
    <3>1. t[k + m] = v[k] /\ c[k + m] = f[k]
      <4>1. k + m \in 1..(m + l) /\ k + m > m /\ (k + m) - m = k
            BY <1>9
      <4> QED BY <1>12, <1>13, <4>1
    <3> QED BY <1>11, <3>1
  <2> QED BY <2>1, <2>2
<1>18. \A k \in 1..(m + l) : c[k] \in 1..n /\ t[k] = sorted[c[k]]
       BY <1>14, <1>17
<1>19. c \in [1..(m + l) -> 1..n]
  <2>1. c = [k \in 1..(m + l) |-> c[k]]
        BY DEF c
  <2> QED BY <1>18, <2>1
<1>20. c \in Injection(1..(m + l), 1..n)
  <2>1. ASSUME NEW i \in 1..(m + l), NEW j \in 1..(m + l), c[i] = c[j], i \in 1..m
        PROVE  i = j
    <3>1. j \in 1..m
          BY <1>6, <1>14, <1>16, <1>17, <2>1
    <3>2. e[i] = e[j]
          BY <1>13, <2>1, <3>1
    <3>3. ~ (i < j) /\ ~ (j < i)
          BY <1>10, <2>1, <3>1, <3>2
    <3> QED BY <3>3
  <2>2. ASSUME NEW i \in 1..l, NEW j \in 1..l, c[i + m] = c[j + m]
        PROVE  i = j
    <3>1. f[i] = f[j]
          BY <1>13, <2>2
    <3>2. ~ (i < j) /\ ~ (j < i)
          BY <1>11, <3>1
    <3> QED BY <3>2
  <2>3. \A i, j \in 1..(m + l) : c[i] = c[j] => i = j
    <3> SUFFICES ASSUME NEW i \in 1..(m + l), NEW j \in 1..(m + l), c[i] = c[j]
                 PROVE  i = j
        OBVIOUS
    <3>1. CASE i \in 1..m \/ j \in 1..m
          BY <2>1, <3>1
    <3>2. CASE i \notin 1..m /\ j \notin 1..m
      <4>1. PICK x \in 1..l : i = x + m
            BY <1>14, <3>2
      <4>2. PICK y \in 1..l : j = y + m
            BY <1>14, <3>2
      <4> QED BY <2>2, <4>1, <4>2
    <3> QED BY <3>1, <3>2
  <2> QED BY <1>19, <2>3 DEF Injection, IsInjective
<1>21. \A k \in 1..n : \E i \in 1..(m + l) : c[i] = k
  <2> SUFFICES ASSUME NEW k \in 1..n PROVE \E i \in 1..(m + l) : c[i] = k
      OBVIOUS
  <2>1. CASE sorted[k] \in A
        BY <1>10, <1>13, <2>1
  <2>2. CASE sorted[k] \in B
        BY <1>11, <1>13, <2>2
  <2> QED BY <1>6, <1>16, <2>1, <2>2
<1>22. m + l = n
  <2>1. m + l \in Nat /\ IsFiniteSet(1..(m + l)) /\ Cardinality(1..(m + l)) = m + l
    <3>1. m + l \in Nat
          BY <1>9
    <3> QED BY <3>1, FS_Interval
  <2>2. Cardinality(1..n) = n
        BY <1>1, FS_Interval
  <2>3. c \in Bijection(1..(m + l), 1..n)
        BY <1>19, <1>20, <1>21 DEF Bijection, Surjection
  <2>4. ExistsBijection(1..(m + l), 1..n)
        BY <2>3 DEF ExistsBijection
  <2> QED BY <2>1, <2>2, <2>4, FS_Bijection
<1>23. Permuted(rows, t)
  <2> DEFINE b == [k \in 1..n |-> p[c[k]]]
  <2>1. \A k \in 1..n : b[k] = p[c[k]] /\ b[k] \in 1..n /\ t[k] = rows[b[k]]
        BY <1>4, <1>6, <1>18, <1>22
  <2>2. b \in [1..n -> 1..n]
        BY <2>1
  <2> HIDE DEF b
  <2>3. \A i, j \in 1..n : b[i] = b[j] => i = j
    <3> SUFFICES ASSUME NEW i \in 1..n, NEW j \in 1..n, b[i] = b[j] PROVE i = j
        OBVIOUS
    <3>1. c[i] = c[j]
          BY <1>4, <1>18, <1>22, <2>1
    <3> QED BY <1>20, <1>22, <3>1 DEF Injection, IsInjective
  <2>4. b \in Injection(1..n, 1..n)
        BY <2>2, <2>3 DEF Injection, IsInjective
  <2>5. b \in Surjection(1..n, 1..n)
    <3>1. IsFiniteSet(1..n)
          BY <1>1, FS_Interval
    <3> QED BY <2>4, <3>1, FS_Injection
  <2>6. b \in Bijection(1..n, 1..n)
        BY <2>4, <2>5 DEF Bijection
  <2> QED BY <1>1, <1>12, <1>22, <2>1, <2>6, Reordered
<1>24. DOMAIN w = 1..m
       BY <1>9 DEF m
<1>25. ASSUME NEW k \in 1..m
       PROVE  w[k].working /\ Rankable(w[k])
  <2>1. w[k] \in A /\ w[k] = sorted[e[k]] /\ e[k] \in 1..n
        BY <1>10
  <2>2. w[k].working
        BY <2>1 DEF A, Accepts
  <2> QED BY <1>6, <2>1, <2>2
<1>26. ASSUME NEW j \in 1..m, NEW k \in 1..m, j < k
       PROVE  ~ Precedes(w[k], w[j])
  <2>1. e[j] \in 1..n /\ e[k] \in 1..n /\ e[j] < e[k] /\ w[j] = sorted[e[j]] /\ w[k] = sorted[e[k]]
        BY <1>10, <1>26
  <2> QED BY <1>3, <1>6, <2>1
<1>27. Permuted(rows, Working(rows) \o Refused(rows))
       BY <1>2, <1>23 DEF t
<1> QED BY <1>2, <1>9, <1>24, <1>25, <1>26, <1>27 DEF S

-----------------------------------------------------------------------------
(* Runs, reports and directories                                           *)

Busy == {"scan", "scanned", "check", "checked"}
Named == {"settings", "whole", "home", "gone"}

\* The entries of a result are a sequence, whatever they hold.
ResultsSeq == \E S : results \in Seq(S)

\* What the append of one entry leaves and adds.
LEMMA Appended ==
    ASSUME NEW S, NEW s \in Seq(S), NEW e
    PROVE  /\ Append(s, e) \in Seq(S \cup {e})
           /\ Len(s) \in Nat /\ DOMAIN s = 1..Len(s)
           /\ Len(Append(s, e)) = Len(s) + 1
           /\ DOMAIN Append(s, e) = 1..(Len(s) + 1)
           /\ \A i \in 1..Len(s) : Append(s, e)[i] = s[i]
           /\ Append(s, e)[Len(s) + 1] = e
<1>1. s \in Seq(S \cup {e}) /\ e \in S \cup {e}
      OBVIOUS
<1> QED BY <1>1

\* A report of a domain is one entry more, and the last one ends the run.
LEMMA Reported ==
    ASSUME TypeOK, ResultsSeq, pc \in Busy, NEW e, Report(e)
    PROVE  /\ ResultsSeq'
           /\ Len(results) \in Nat /\ Len(results) < Len(Plan)
           /\ Len(results') = Len(results) + 1
           /\ DOMAIN results = 1..Len(results)
           /\ DOMAIN results' = 1..(Len(results) + 1)
           /\ \A i \in 1..Len(results) : results'[i] = results[i]
           /\ results'[Len(results) + 1] = e
           /\ pc' = IF Len(results') = Len(Plan) THEN "done" ELSE "scan"
<1>1. PICK S : results \in Seq(S)
      BY DEF ResultsSeq
<1>2. results' = Append(results, e)
      BY DEF Report
<1>3. results' \in Seq(S \cup {e}) /\ Len(results') = Len(results) + 1
      BY <1>1, <1>2, Appended
<1>4. Len(results) \in Nat /\ Len(results) < Len(Plan)
      BY <1>1 DEF TypeOK, Busy
<1>5. pc' = IF Len(results') = Len(Plan) THEN "done" ELSE "scan"
      BY <1>3 DEF Report
<1>6. /\ DOMAIN results = 1..Len(results)
      /\ DOMAIN results' = 1..(Len(results) + 1)
      /\ \A i \in 1..Len(results) : results'[i] = results[i]
      /\ results'[Len(results) + 1] = e
      BY <1>1, <1>2, Appended
<1> QED BY <1>3, <1>4, <1>5, <1>6 DEF ResultsSeq

\* The domain whose turn it is, is one of the settings.
LEMMA TurnType ==
    ASSUME TypeOK, ResultsSeq, pc \in Busy
    PROVE  Turn \in Domains /\ File(Turn) \in Files /\ Len(results) \in Nat
<1>1. PICK S : results \in Seq(S)
      BY DEF ResultsSeq
<1>2. Len(results) \in Nat /\ Len(results) < Len(Plan)
      BY <1>1 DEF TypeOK, Busy
<1>3. Turn \in Domains
      BY <1>2, PlanAssumption DEF Turn, Domains
<1> QED BY <1>2, <1>3 DEF Files

LEMMA BudgetType == TypeOK => Budget \in Nat /\ Budget >= Least /\ Budget >= Timeout - now
BY BoundsAssumption DEF TypeOK, Budget

-----------------------------------------------------------------------------
(* The type                                                                *)

LEMMA InitType == Init => TypeOK /\ ResultsSeq
<1> SUFFICES ASSUME Init PROVE TypeOK /\ ResultsSeq
    OBVIOUS
<1>1. results \in Seq({}) /\ dirs \in Seq(Named) /\ Len(results) = 0 /\ Len(dirs) = 0
      /\ DOMAIN results = {}
      BY DEF Init
<1>2. Len(Plan) \in Nat
      BY PlanAssumption
<1> QED BY <1>1, <1>2 DEF Init, TypeOK, ResultsSeq, Named

\* One step of a run that adds an entry.
LEMMA ReportType ==
    ASSUME TypeOK, ResultsSeq, pc \in Busy, NEW e, Report(e), e.of \in Domains \cup {NoOne},
           now' \in Nat, UNCHANGED <<dirs, pruners>>,
           scans' \in [Files -> Scanned \cup {Absent}],
           checks' \in [Files -> Checked \cup {Absent}]
    PROVE  TypeOK' /\ ResultsSeq'
<1>1. Len(Plan) \in Nat
      BY PlanAssumption
<1> QED BY <1>1, Reported DEF TypeOK, Busy

LEMMA StepType == TypeOK /\ ResultsSeq /\ [Next]_vars => TypeOK' /\ ResultsSeq'
<1> SUFFICES ASSUME TypeOK, ResultsSeq, [Next]_vars PROVE TypeOK' /\ ResultsSeq'
    OBVIOUS
<1>0. /\ Len(Plan) \in Nat /\ Len(Plan) # 0
      /\ Len(dirs) \in Nat /\ DOMAIN dirs = 1..Len(dirs) /\ dirs \in Seq(Named)
      BY PlanAssumption DEF TypeOK, Named
<1>1. ASSUME pc = "scan", NEW d \in 1..Budget, NEW r \in Written(Scanned, scans[File(Turn)]),
             Scan(d, r) \/ ScanFails(d, r)
      PROVE  TypeOK' /\ ResultsSeq'
  <2>1. now + d \in Nat /\ r \in Scanned \cup {Absent}
        BY <1>1, TurnType, BudgetType DEF TypeOK, Written, Busy
  <2>2. [scans EXCEPT ![File(Turn)] = r] \in [Files -> Scanned \cup {Absent}]
        BY <2>1 DEF TypeOK
  <2>3. CASE Scan(d, r)
        BY <2>1, <2>2, <2>3 DEF Scan, TypeOK, ResultsSeq
  <2>4. CASE ScanFails(d, r)
        BY <1>1, <2>1, <2>2, <2>4, ReportType DEF ScanFails, Entry, TypeOK, Busy
  <2> QED BY <1>1, <2>3, <2>4
<1>2. ASSUME pc = "check", NEW d \in 1..Budget, NEW r \in Written(Checked, checks[File(Turn)]),
             Check(d, r) \/ CheckFails(d, r)
      PROVE  TypeOK' /\ ResultsSeq'
  <2>1. now + d \in Nat /\ r \in Checked \cup {Absent}
        BY <1>2, TurnType, BudgetType DEF TypeOK, Written, Busy
  <2>2. [checks EXCEPT ![File(Turn)] = r] \in [Files -> Checked \cup {Absent}]
        BY <2>1 DEF TypeOK
  <2>3. CASE Check(d, r)
        BY <2>1, <2>2, <2>3 DEF Check, TypeOK, ResultsSeq
  <2>4. CASE CheckFails(d, r)
        BY <1>2, <2>1, <2>2, <2>4, ReportType DEF CheckFails, Entry, TypeOK, Busy
  <2> QED BY <1>2, <2>3, <2>4
<1>3. CASE ScanYieldsNothing
      BY <1>3, ReportType DEF ScanYieldsNothing, Entry, TypeOK, Busy
<1>4. CASE ScanYields
      BY <1>4 DEF ScanYields, TypeOK, ResultsSeq
<1>5. CASE CheckYieldsNothing
      BY <1>5, ReportType DEF CheckYieldsNothing, Entry, TypeOK, Busy
<1>6. CASE Select
  <2>1. checks[File(Turn)] \in Checked \cup {Absent}
        BY <1>6, TurnType DEF Select, TypeOK, Busy
  <2>2. checks[File(Turn)].by \in Domains \cup {NoOne}
        BY <2>1 DEF Checked, Absent
  <2> QED BY <1>6, <2>2, ReportType DEF Select, Entry, TypeOK, Busy
<1>7. CASE Begin
  <2>1. dirs' \in Seq(Named) /\ Len(dirs') = Len(dirs) + 1
        BY <1>7, <1>0 DEF Begin, Named
  <2> QED BY <1>7, <1>0, <2>1 DEF Begin, TypeOK, ResultsSeq, Named
<1>8. CASE MakeHome
  <2>1. dirs' \in Seq(Named) /\ Len(dirs') = Len(dirs)
    <3>1. dirs \in [1..Len(dirs) -> Named] /\ "whole" \in Named
          BY <1>0 DEF Named
    <3>2. dirs' \in [1..Len(dirs) -> Named]
          BY <1>8, <3>1 DEF MakeHome
    <3> QED BY <3>2, <1>0
  <2>2. Len(results) < Len(Plan)
        BY <1>8, <1>0 DEF MakeHome, TypeOK
  <2> QED BY <1>8, <1>0, <2>1, <2>2 DEF MakeHome, TypeOK, ResultsSeq, Named
<1>9. CASE Killed
      BY <1>9 DEF Killed, TypeOK, ResultsSeq
<1>10. ASSUME NextIdle, UNCHANGED dirs, pruners' \in Nat, pruners' <= Len(dirs)
       PROVE  TypeOK' /\ ResultsSeq'
  <2>1. results' \in Seq({}) /\ Len(results') = 0 /\ DOMAIN results' = {}
        BY <1>10 DEF NextIdle
  <2> QED BY <1>0, <1>10, <2>1 DEF NextIdle, TypeOK, ResultsSeq
<1>11. CASE Collect
       BY <1>11, <1>10 DEF Collect, TypeOK
<1>12. CASE Restart
       BY <1>12, <1>10, <1>0 DEF Restart
<1>13. CASE Prune
  <2>1. dirs' \in Seq(Named) /\ Len(dirs') = Len(dirs)
        BY <1>13, <1>0 DEF Prune, Emptied, Named
  <2> QED BY <1>13, <2>1 DEF Prune, TypeOK, ResultsSeq, Named
<1>14. CASE UNCHANGED vars
       BY <1>14 DEF vars, TypeOK, ResultsSeq
<1> QED BY <1>1, <1>2, <1>3, <1>4, <1>5, <1>6, <1>7, <1>8, <1>9, <1>11, <1>12, <1>13, <1>14
        DEF Next

\* Runs, reports and directories have their types, and no more collectors wait
\* than there are runs, for any domains, reports and limits.
THEOREM TypeCorrect == Spec => []TypeOK
<1>1. Init => TypeOK /\ ResultsSeq
      BY InitType
<1>2. TypeOK /\ ResultsSeq /\ [Next]_vars => TypeOK' /\ ResultsSeq'
      BY StepType
<1> QED BY <1>1, <1>2, PTL DEF Spec

-----------------------------------------------------------------------------
(* The time of a run                                                       *)

\* The time that n steps may have taken together.
Within(t, n) == t <= Timeout + Least * n

\* Every further step that is run may add the least time, and no more.
LEMMA LeastAdds ==
    ASSUME TypeOK, NEW n \in Nat, Within(now, n), NEW d \in 1..Budget
    PROVE  Within(now + d, n + 1)
<1>1. Least * n \in Nat /\ Least * (n + 1) = Least * n + Least
      BY BoundsAssumption
<1>2. d <= Timeout - now \/ d <= Least
      BY BoundsAssumption DEF Budget, TypeOK
<1> QED BY <1>1, <1>2, BoundsAssumption DEF Within, TypeOK

\* More steps never take less.
LEMMA StepsAdd ==
    ASSUME NEW t \in Nat, NEW m \in Nat, NEW n \in Nat, m <= n, Within(t, m)
    PROVE  Within(t, n)
<1>1. Least * m \in Nat /\ Least * (n - m) \in Nat
      BY BoundsAssumption
<1>2. Least * n = Least * m + Least * (n - m)
      BY BoundsAssumption
<1> QED BY <1>1, <1>2, BoundsAssumption DEF Within

\* How many steps have been run.
LEMMA StepsOf ==
    ASSUME TypeOK, ResultsSeq
    PROVE  /\ StepsRun \in Nat /\ Len(results) \in Nat
           /\ pc \notin {"scanned", "check", "checked"} => StepsRun = 2 * Len(results)
           /\ pc \in {"scanned", "check"} => StepsRun = 2 * Len(results) + 1
           /\ pc = "checked" => StepsRun = 2 * Len(results) + 2
<1>1. Len(results) \in Nat
      BY DEF ResultsSeq
<1> QED BY <1>1 DEF StepsRun

\* The job's time is overrun by at most the least time of each step, however
\* many domains come after it was used up.
THEOREM DeadlineKept == Spec => []BoundedOverrun
<1>1. Init => TypeOK /\ ResultsSeq /\ BoundedOverrun
  <2> SUFFICES ASSUME Init PROVE BoundedOverrun
      BY InitType
  <2>1. Len(results) = 0 /\ now = 0 /\ StepsRun = 0
        BY DEF Init, StepsRun
  <2> QED BY <2>1, BoundsAssumption DEF BoundedOverrun
<1>2. TypeOK /\ ResultsSeq /\ BoundedOverrun /\ [Next]_vars
      => TypeOK' /\ ResultsSeq' /\ BoundedOverrun'
  <2> SUFFICES ASSUME TypeOK, ResultsSeq, BoundedOverrun, [Next]_vars,
                      TypeOK', ResultsSeq'
               PROVE  BoundedOverrun'
      BY StepType
  <2>0. /\ StepsRun \in Nat /\ StepsRun' \in Nat /\ Len(results) \in Nat
        /\ now \in Nat /\ now' \in Nat
    <3>1. Len(results') \in Nat
          BY DEF ResultsSeq
    <3>2. StepsRun' \in Nat
          BY <3>1 DEF StepsRun
    <3> QED BY <3>2, StepsOf DEF TypeOK
  <2>1. ASSUME pc # "dead", StepsRun <= StepsRun', UNCHANGED now
        PROVE  BoundedOverrun'
    <3>1. Within(now, StepsRun)
          BY <2>1 DEF BoundedOverrun, Within
    <3>2. Within(now', StepsRun')
          BY <2>0, <2>1, <3>1, StepsAdd
    <3> QED BY <3>2 DEF BoundedOverrun, Within
  <2>2. ASSUME pc # "dead", NEW d \in 1..Budget, StepsRun + 1 <= StepsRun', now' = now + d
        PROVE  BoundedOverrun'
    <3>1. Within(now, StepsRun)
          BY <2>2 DEF BoundedOverrun, Within
    <3>2. Within(now', StepsRun + 1)
          BY <2>0, <2>2, <3>1, LeastAdds
    <3>3. Within(now', StepsRun') /\ StepsRun + 1 \in Nat
          BY <2>0, <2>2, <3>2, StepsAdd
    <3> QED BY <3>3 DEF BoundedOverrun, Within
  <2>3. ASSUME NEW e, pc \in Busy, Report(e)
        PROVE  StepsRun' = 2 * (Len(results) + 1)
    <3>1. /\ Len(results') = Len(results) + 1
          /\ pc' \in {"scan", "done"}
          BY <2>3, Reported
    <3> QED BY <3>1 DEF StepsRun
  <2>4. ASSUME pc = "scan", NEW d \in 1..Budget, NEW r, Scan(d, r) \/ ScanFails(d, r)
        PROVE  BoundedOverrun'
    <3>1. StepsRun = 2 * Len(results)
          BY <2>4, StepsOf
    <3>2. CASE Scan(d, r)
      <4>1. StepsRun' = 2 * Len(results) + 1
            BY <3>2 DEF Scan, StepsRun
      <4> QED BY <2>0, <2>2, <2>4, <3>1, <3>2, <4>1 DEF Scan
    <3>3. CASE ScanFails(d, r)
      <4>1. StepsRun' = 2 * (Len(results) + 1)
        <5>1. PICK e : Report(e)
              BY <3>3 DEF ScanFails
        <5>2. pc \in Busy
              BY <2>4 DEF Busy
        <5> QED BY <2>3, <5>1, <5>2
      <4>2. StepsRun + 1 <= StepsRun'
            BY <2>0, <3>1, <4>1
      <4> QED BY <2>2, <2>4, <3>3, <4>2 DEF ScanFails
    <3> QED BY <2>4, <3>2, <3>3
  <2>5. ASSUME pc = "check", NEW d \in 1..Budget, NEW r, Check(d, r) \/ CheckFails(d, r)
        PROVE  BoundedOverrun'
    <3>1. StepsRun = 2 * Len(results) + 1
          BY <2>5, StepsOf
    <3>2. CASE Check(d, r)
      <4>1. StepsRun' = 2 * Len(results) + 2
            BY <3>2 DEF Check, StepsRun
      <4> QED BY <2>0, <2>2, <2>5, <3>1, <3>2, <4>1 DEF Check
    <3>3. CASE CheckFails(d, r)
      <4>1. StepsRun' = 2 * (Len(results) + 1)
        <5>1. PICK e : Report(e)
              BY <3>3 DEF CheckFails
        <5>2. pc \in Busy
              BY <2>5 DEF Busy
        <5> QED BY <2>3, <5>1, <5>2
      <4>2. StepsRun + 1 <= StepsRun'
            BY <2>0, <3>1, <4>1
      <4> QED BY <2>2, <2>5, <3>3, <4>2 DEF CheckFails
    <3> QED BY <2>5, <3>2, <3>3
  <2>6. CASE ScanYieldsNothing \/ CheckYieldsNothing \/ Select
    <3>1. pc \in {"scanned", "checked"} /\ UNCHANGED now
          BY <2>6 DEF ScanYieldsNothing, CheckYieldsNothing, Select
    <3>2. StepsRun' = 2 * (Len(results) + 1)
      <4>1. PICK e : Report(e)
            BY <2>6 DEF ScanYieldsNothing, CheckYieldsNothing, Select
      <4>2. pc \in Busy
            BY <3>1 DEF Busy
      <4> QED BY <2>3, <4>1, <4>2
    <3>3. StepsRun <= StepsRun'
          BY <2>0, <3>1, <3>2, StepsOf
    <3> QED BY <2>1, <3>1, <3>3
  <2>7. CASE ScanYields
    <3>1. StepsRun' = StepsRun
          BY <2>7 DEF ScanYields, StepsRun
    <3> QED BY <2>0, <2>1, <2>7, <3>1 DEF ScanYields
  <2>8. CASE Begin \/ MakeHome
        BY <2>8 DEF Begin, MakeHome, StepsRun, BoundedOverrun
  <2>9. CASE Killed
        BY <2>9 DEF Killed, BoundedOverrun
  <2>10. ASSUME NextIdle PROVE BoundedOverrun'
    <3>1. now' = 0 /\ StepsRun' = 0
          BY <2>10 DEF NextIdle, StepsRun
    <3> QED BY <3>1, BoundsAssumption DEF BoundedOverrun
  <2>11. CASE Prune
        BY <2>11 DEF Prune, StepsRun, BoundedOverrun
  <2>12. CASE UNCHANGED vars
        BY <2>12 DEF vars, StepsRun, BoundedOverrun
  <2> QED BY <2>4, <2>5, <2>6, <2>7, <2>8, <2>9, <2>10, <2>11, <2>12
          DEF Next, Collect, Restart
<1> QED BY <1>1, <1>2, PTL DEF Spec

-----------------------------------------------------------------------------
(* Reports and the domains that they are of                                *)

\* A report lies under the name of the domain that it was written for.
ChecksFiled == \A f \in Files : checks[f].by # NoOne => Slug[checks[f].by] = f

LEMMA ReportOwn ==
    ASSUME TypeOK, ResultsSeq, OwnReport, pc \in Busy, NEW e, Report(e), e.domain = Turn,
           e.of # NoOne => Slug[e.of] = Slug[Turn]
    PROVE  OwnReport'
<1>1. ASSUME NEW i \in DOMAIN results'
      PROVE  /\ results'[i].domain = Plan[i]
             /\ results'[i].of # NoOne => Slug[results'[i].of] = Slug[Plan[i]]
  <2>1. CASE i \in 1..Len(results)
        BY <2>1, Reported DEF OwnReport
  <2>2. CASE i = Len(results) + 1
        BY <2>2, Reported DEF Turn
  <2> QED BY <1>1, <2>1, <2>2, Reported
<1>2. pc' = "done" => Len(results') = Len(Plan)
      BY Reported
<1> QED BY <1>1, <1>2 DEF OwnReport

\* What a domain is said to work with comes from a report of its own, or of one
\* that has its name, for any domains, names and reports.
THEOREM ReportsAreOwn == Spec => []OwnReport
<1>1. Init => TypeOK /\ ResultsSeq /\ ChecksFiled /\ OwnReport
      BY InitType DEF Init, ChecksFiled, OwnReport, Absent
<1>2. TypeOK /\ ResultsSeq /\ ChecksFiled /\ OwnReport /\ [Next]_vars
      => TypeOK' /\ ResultsSeq' /\ ChecksFiled' /\ OwnReport'
  <2> SUFFICES ASSUME TypeOK, ResultsSeq, ChecksFiled, OwnReport, [Next]_vars
               PROVE  ChecksFiled' /\ OwnReport'
      BY StepType
  <2>1. ASSUME NEW e, pc \in Busy, Report(e), e.domain = Turn, e.of = NoOne PROVE OwnReport'
        BY <2>1, ReportOwn
  <2>2. ASSUME pc = "scan", NEW d, NEW r, Scan(d, r) \/ ScanFails(d, r)
        PROVE  ChecksFiled' /\ OwnReport'
    <3>1. ChecksFiled'
          BY <2>2 DEF Scan, ScanFails, ChecksFiled
    <3>2. OwnReport'
          BY <2>1, <2>2 DEF Scan, ScanFails, Entry, OwnReport, Busy
    <3> QED BY <3>1, <3>2
  <2>3. ASSUME pc = "check", NEW d, NEW r \in Written(Checked, checks[File(Turn)]),
               Check(d, r) \/ CheckFails(d, r)
        PROVE  ChecksFiled' /\ OwnReport'
    <3>1. r.by # NoOne => Slug[r.by] = File(Turn)
          BY <2>3, TurnType DEF Written, ChecksFiled, File, Busy
    <3>2. checks' = [checks EXCEPT ![File(Turn)] = r]
          BY <2>3 DEF Check, CheckFails
    <3>3. ChecksFiled'
          BY <3>1, <3>2 DEF ChecksFiled, TypeOK
    <3>4. OwnReport'
          BY <2>1, <2>3 DEF Check, CheckFails, Entry, OwnReport, Busy
    <3> QED BY <3>3, <3>4
  <2>4. CASE ScanYieldsNothing \/ CheckYieldsNothing
        BY <2>1, <2>4 DEF ScanYieldsNothing, CheckYieldsNothing, Entry, ChecksFiled, Busy
  <2>5. CASE Select
    <3>1. checks[File(Turn)].by # NoOne => Slug[checks[File(Turn)].by] = Slug[Turn]
          BY <2>5, TurnType DEF Select, ChecksFiled, File, Busy
    <3>2. OwnReport'
          BY <2>5, <3>1, ReportOwn DEF Select, Entry, Busy
    <3> QED BY <2>5, <3>2 DEF Select, ChecksFiled
  <2>6. CASE ScanYields \/ Begin \/ MakeHome \/ Killed \/ Prune
        BY <2>6 DEF ScanYields, Begin, MakeHome, Killed, Prune, ChecksFiled, OwnReport
  <2>7. ASSUME NextIdle PROVE ChecksFiled' /\ OwnReport'
        BY <2>7 DEF NextIdle, ChecksFiled, OwnReport, Absent
  <2>8. CASE UNCHANGED vars
        BY <2>8 DEF vars, ChecksFiled, OwnReport
  <2> QED BY <2>2, <2>3, <2>4, <2>5, <2>6, <2>7, <2>8 DEF Next, Collect, Restart
<1> QED BY <1>1, <1>2, PTL DEF Spec

-----------------------------------------------------------------------------
(* The directories                                                         *)

\* Who is not among the newest has Keep younger ones, and they are all there.
LEMMA PrunedIsOld ==
    ASSUME TypeOK, NEW i \in DOMAIN dirs, Pruned(i)
    PROVE  i <= Len(dirs) - Keep
<1> DEFINE younger == {j \in Left : j > i}
<1>1. Len(dirs) \in Nat /\ DOMAIN dirs = 1..Len(dirs) /\ i \in 1..Len(dirs)
      BY DEF TypeOK
<1>2. IsFiniteSet((i + 1)..Len(dirs)) /\ Cardinality((i + 1)..Len(dirs)) = Len(dirs) - i
  <2>1. i + 1 \in Int /\ Len(dirs) \in Int
        BY <1>1
  <2>2. /\ IsFiniteSet((i + 1)..Len(dirs))
        /\ Cardinality((i + 1)..Len(dirs)) =
              IF i + 1 > Len(dirs) THEN 0 ELSE Len(dirs) - (i + 1) + 1
        BY <2>1, FS_Interval
  <2> QED BY <1>1, <2>2
<1>3. younger \in SUBSET ((i + 1)..Len(dirs))
      BY <1>1 DEF Left
<1>4. IsFiniteSet(younger) /\ Cardinality(younger) <= Cardinality((i + 1)..Len(dirs))
      BY <1>2, <1>3, FS_Subset
<1>5. Cardinality(younger) \in Nat
      BY <1>4, FS_CardinalityType
<1>6. Cardinality(younger) >= Keep
      BY DEF Pruned
<1> HIDE DEF younger
<1> QED BY <1>1, <1>2, <1>4, <1>5, <1>6, BoundsAssumption

\* However late and often collectors prune, the newest runs keep their files.
THEOREM NewestStay == Spec => []NewestKept
<1>1. Init => NewestKept
      BY DEF Init, NewestKept
<1>2. TypeOK /\ NewestKept /\ [Next]_vars => NewestKept'
  <2> SUFFICES ASSUME TypeOK, NewestKept, [Next]_vars PROVE NewestKept'
      OBVIOUS
  <2>0. /\ Len(dirs) \in Nat /\ DOMAIN dirs = 1..Len(dirs) /\ Keep \in Nat
        /\ dirs \in Seq(Named)
        BY BoundsAssumption DEF TypeOK, Named
  <2>1. CASE UNCHANGED dirs
        BY <2>1 DEF NewestKept
  <2>2. CASE Begin
    <3>1. dirs' = Append(dirs, "settings") /\ Len(dirs') = Len(dirs) + 1
          BY <2>0, <2>2 DEF Begin
    <3>2. ASSUME NEW i \in DOMAIN dirs'
          PROVE  dirs'[i] \in {"settings", "whole"} \/ i <= Len(dirs') - Keep
          BY <2>0, <3>1, <3>2, Appended DEF NewestKept
    <3> QED BY <3>2 DEF NewestKept
  <2>3. CASE MakeHome
    <3>1. dirs' = [dirs EXCEPT ![Len(dirs)] = "whole"] /\ "whole" \in Named
          BY <2>3 DEF MakeHome, Named
    <3>2. DOMAIN dirs' = 1..Len(dirs)
          BY <2>0, <3>1
    <3>3. Len(dirs') = Len(dirs)
      <4>1. dirs \in [1..Len(dirs) -> Named]
            BY <2>0
      <4>2. dirs' \in [1..Len(dirs) -> Named]
            BY <3>1, <4>1
      <4> QED BY <2>0, <4>2
    <3> QED BY <2>0, <3>1, <3>2, <3>3 DEF NewestKept
  <2>4. CASE Prune
    <3>1. DOMAIN dirs' = DOMAIN dirs /\ Len(dirs') = Len(dirs)
          BY <2>0, <2>4 DEF Prune
    <3>2. ASSUME NEW i \in DOMAIN dirs
          PROVE  dirs'[i] \in {"settings", "whole"} \/ i <= Len(dirs) - Keep
          BY <2>0, <2>4, <3>2, PrunedIsOld DEF Prune, NewestKept
    <3> QED BY <3>1, <3>2 DEF NewestKept
  <2> QED BY <2>1, <2>2, <2>3, <2>4
          DEF Next, vars, Scan, ScanFails, Check, CheckFails, ScanYieldsNothing, ScanYields,
              CheckYieldsNothing, Select, Killed, Collect, Restart
<1> QED BY <1>1, <1>2, TypeCorrect, PTL DEF Spec

-----------------------------------------------------------------------------
(* What is reported of a domain is its report, ranked and filtered         *)

RankedInv ==
    \A i \in DOMAIN results :
        /\ RankableReport(results[i].rows)
        /\ results[i].working = Working(results[i].rows)
        /\ results[i].refused = Refused(results[i].rows)

\* A report of a domain adds an entry that is ranked and filtered.
LEMMA ReportRanked ==
    ASSUME TypeOK, ResultsSeq, RankedInv, pc \in Busy, NEW rc, NEW of, NEW rows,
           RankableReport(rows), Report(Entry(rc, of, rows))
    PROVE  RankedInv'
<1> DEFINE e == Entry(rc, of, rows)
<1>1. e.rows = rows /\ e.working = Working(rows) /\ e.refused = Refused(rows)
      BY DEF Entry
<1> HIDE DEF e
<1>2. ASSUME NEW i \in DOMAIN results'
      PROVE  /\ RankableReport(results'[i].rows)
             /\ results'[i].working = Working(results'[i].rows)
             /\ results'[i].refused = Refused(results'[i].rows)
  <2>1. CASE i \in 1..Len(results)
        BY <2>1, Reported DEF RankedInv
  <2>2. CASE i = Len(results) + 1
    <3>1. results'[i] = e
          BY <2>2, Reported DEF e
    <3> QED BY <1>1, <3>1
  <2> QED BY <1>2, <2>1, <2>2, Reported
<1> QED BY <1>2 DEF RankedInv

\* Every step leaves it so.
LEMMA StepRanked ==
    TypeOK /\ ResultsSeq /\ RankedInv /\ [Next]_vars => RankedInv'
<1> SUFFICES ASSUME TypeOK, ResultsSeq, RankedInv, [Next]_vars PROVE RankedInv'
    OBVIOUS
<1>1. RankableReport(<<>>)
      BY DEF RankableReport
<1>2. ASSUME pc \in Busy, NEW rc, NEW of, Report(Entry(rc, of, <<>>)) PROVE RankedInv'
      BY <1>1, <1>2, ReportRanked
<1>3. CASE Select
  <2>1. checks[File(Turn)] \in Checked \cup {Absent}
        BY <1>3, TurnType DEF Select, TypeOK, Busy
  <2>2. checks[File(Turn)].rows \in Reports
        BY <1>3, <2>1 DEF Select, Checked, Absent
  <2>3. RankableReport(checks[File(Turn)].rows)
        BY <2>2, ReportsAssumption DEF RankableReport, RowsOf, Rankable
  <2>4. pc \in Busy
        BY <1>3 DEF Select, Busy
  <2> QED BY <1>3, <2>3, <2>4, ReportRanked DEF Select
<1>4. CASE UNCHANGED results
      BY <1>4 DEF RankedInv
<1>5. CASE NextIdle
      BY <1>5 DEF NextIdle, RankedInv
<1>6. CASE ScanYieldsNothing \/ CheckYieldsNothing
      BY <1>2, <1>6 DEF ScanYieldsNothing, CheckYieldsNothing, Busy
<1>7. ASSUME pc \in {"scan", "check"}, NEW d, NEW r, ScanFails(d, r) \/ CheckFails(d, r)
      PROVE  RankedInv'
      BY <1>2, <1>7 DEF ScanFails, CheckFails, Busy
<1> QED BY <1>3, <1>4, <1>5, <1>6, <1>7
        DEF Next, vars, Scan, Check, ScanYields, Begin, MakeHome, Killed, Collect, Prune,
            Restart

\* Whatever is checked and reported, no row of a report is lost or doubled, and
\* what is offered first is never worse than what follows, for any reports,
\* filters and domains (rank, select_working).
THEOREM AllAreSelected == Spec => []SelectsAll
<1>1. Init => TypeOK /\ ResultsSeq /\ RankedInv
      BY InitType DEF Init, RankedInv
<1>2. TypeOK /\ ResultsSeq /\ RankedInv /\ [Next]_vars
      => TypeOK' /\ ResultsSeq' /\ RankedInv'
      BY StepType, StepRanked
<1>3. RankedInv => SelectsAll
  <2> SUFFICES ASSUME RankedInv, NEW i \in DOMAIN results
               PROVE  LET e == results[i]
                          Better(r, s) == ~Precedes(s, r)
                      IN  /\ Permuted(e.rows, e.working \o e.refused)
                          /\ \A j, k \in DOMAIN e.working : j < k =>
                                \/ e.working[j].rate > e.working[k].rate
                                \/ /\ e.working[j].rate = e.working[k].rate
                                   /\ Better(e.working[j], e.working[k])
      BY DEF SelectsAll
  <2> DEFINE rows == results[i].rows
             w == Working(rows)
  <2>1. RankableReport(rows) /\ results[i].working = w /\ results[i].refused = Refused(rows)
        BY DEF RankedInv
  <2>2. Permuted(rows, w \o Refused(rows))
        BY <2>1, FilterSplits
  <2>3. ASSUME NEW j \in DOMAIN w, NEW k \in DOMAIN w, j < k
        PROVE  /\ ~ Precedes(w[k], w[j])
               /\ w[j].rate > w[k].rate \/ w[j].rate = w[k].rate
    <3>1. ~ Precedes(w[k], w[j])
          BY <2>1, <2>3, FilterSplits
    <3>2. w[j].working /\ Rankable(w[j]) /\ w[k].working /\ Rankable(w[k])
          BY <2>1, FilterSplits
    <3> HIDE DEF w
    <3>3. ~ (Key(w[k])[2] < Key(w[j])[2])
          BY <3>1, <3>2, KeyType, PrecedesIs DEF Rankable
    <3>4. Key(w[k])[2] = -w[k].rate /\ Key(w[j])[2] = -w[j].rate
          BY <3>2, KeyType DEF Rankable
    <3>5. w[k].rate \in Int /\ w[j].rate \in Int
          BY <3>2 DEF Rankable
    <3> QED BY <3>1, <3>3, <3>4, <3>5
  <2> HIDE DEF w
  <2> QED BY <2>1, <2>2, <2>3
<1> QED BY <1>1, <1>2, <1>3, PTL DEF Spec

-----------------------------------------------------------------------------
(* What an import adds                                                     *)

\* What is put together of sequences is a sequence.
LEMMA Flattened ==
    ASSUME NEW S, NEW s \in Seq(Seq(S))
    PROVE  FlattenSeq(s) \in Seq(S)
<1>1. CASE Len(s) = 0
  <2>1. FlattenSeq(s) = s /\ s = <<>>
        BY <1>1 DEF FlattenSeq
  <2> QED BY <2>1
<1>2. CASE Len(s) # 0
  <2> DEFINE n == Len(s)
             X == Seq(S)
             a == s[1]
             St == [q \in X \X (1..(n - 1)) |-> q[1] \o s[q[2] + 1]]
             Step(g) == [i \in 1..n |-> IF i = 1 THEN s[i] ELSE g[i - 1] \o s[i]]
             flat == CHOOSE g : g = Step(g)
  <2>1. n \in Nat /\ n \in 1..n /\ n - 1 \in Nat /\ a \in X /\ \A i \in 1..n : s[i] \in X
        BY <1>2
  <2>2. FlattenSeq(s) = flat[n]
        BY <1>2 DEF FlattenSeq
  <2>3. \A q \in X, i \in 1..(n - 1) :
              St[<<q, i>>] = q \o s[i + 1] /\ St[<<q, i>>] \in X
    <3> SUFFICES ASSUME NEW q \in X, NEW i \in 1..(n - 1)
                 PROVE  q \o s[i + 1] \in X
        OBVIOUS
    <3>1. s[i + 1] \in X
          BY <2>1
    <3> QED BY <3>1, ConcatProperties
  <2>4. St \in [X \X (1..(n - 1)) -> X]
        BY <2>1
  <2> HIDE DEF St, n, a
  <2>5. PICK h : Solves(h, X, a, n - 1, St)
        BY <2>1, <2>4, Recursion
  <2> DEFINE g == [i \in 1..n |-> h[i - 1]]
  <2>6. g = Step(g)
    <3>1. \A i \in 1..n : g[i] = IF i = 1 THEN s[i] ELSE g[i - 1] \o s[i]
      <4> SUFFICES ASSUME NEW i \in 1..n
                   PROVE  h[i - 1] = IF i = 1 THEN s[i] ELSE g[i - 1] \o s[i]
          BY <2>1
      <4>1. CASE i = 1
            BY <2>1, <2>5, <4>1 DEF Solves, a
      <4>2. CASE i # 1
        <5> DEFINE k == i - 1
        <5>1. k \in 1..(n - 1) /\ k \in 1..n /\ k - 1 \in 0..(n - 1) /\ k + 1 = i
              BY <2>1, <4>2
        <5> HIDE DEF k
        <5>2. h[k] = St[<<h[k - 1], k>>] /\ h[k - 1] \in X /\ g[k] = h[k - 1]
              BY <2>5, <5>1 DEF Solves
        <5>3. h[k] = g[k] \o s[i]
              BY <2>3, <5>1, <5>2
        <5> QED BY <4>2, <5>3 DEF k
      <4> QED BY <4>1, <4>2
    <3> HIDE DEF g
    <3>2. g = [i \in 1..n |-> g[i]]
          BY DEF g
    <3> QED BY <3>1, <3>2
  <2> HIDE DEF g, Step
  <2>7. flat = Step(flat)
        BY <2>6
  <2> HIDE DEF flat
  <2>8. \A i \in 1..n : flat[i] = IF i = 1 THEN s[i] ELSE flat[i - 1] \o s[i]
    <3>1. \A i \in 1..n : Step(flat)[i] = IF i = 1 THEN s[i] ELSE flat[i - 1] \o s[i]
          BY DEF Step
    <3> QED BY <2>7, <3>1
  <2> DEFINE D == {k \in Nat : k + 1 \in 1..n => flat[k + 1] \in X}
  <2>9. 0 \in D
        BY <2>1, <2>8
  <2>10. \A k \in 0..(n - 1) : k < n - 1 /\ k \in D => k + 1 \in D
    <3> SUFFICES ASSUME NEW k \in 0..(n - 1), k < n - 1, k \in D
                 PROVE  flat[(k + 1) + 1] \in X
        OBVIOUS
    <3>1. /\ k + 1 \in 1..n /\ (k + 1) + 1 \in 1..n /\ (k + 1) + 1 # 1
          /\ ((k + 1) + 1) - 1 = k + 1
          BY <2>1
    <3>2. flat[(k + 1) + 1] = flat[k + 1] \o s[(k + 1) + 1]
          BY <2>8, <3>1
    <3> QED BY <2>1, <3>1, <3>2
  <2> HIDE DEF D
  <2>11. n - 1 \in D
    <3>1. n - 1 \in 0..(n - 1)
          BY <2>1
    <3> QED BY <2>1, <2>9, <2>10, <3>1, UpTo
  <2>12. flat[n] \in X
    <3>1. (n - 1) + 1 = n
          BY <2>1
    <3> QED BY <2>1, <2>11, <3>1 DEF D
  <2> QED BY <2>2, <2>12
<1> QED BY <1>1, <1>2

\* What is new of a catalogue is finite.
LEMMA KnownFinite ==
    ASSUME NEW S, NEW entries \in Seq(S)
    PROVE  /\ IsFiniteSet(InCatalog(entries))
           /\ IsFiniteSet(KnownIds(entries))
           /\ Cardinality(KnownIds(entries)) <= Cardinality(InCatalog(entries))
<1> DEFINE New == {entries[i] : i \in DOMAIN entries}
           K == InCatalog(entries)
           Ids == KnownIds(entries)
<1>1. IsFiniteSet(DOMAIN entries)
  <2>1. DOMAIN entries = 1..Len(entries) /\ Len(entries) \in Nat
        OBVIOUS
  <2> QED BY <2>1, FS_Interval
<1>2. entries \in Surjection(DOMAIN entries, New)
  <2>1. entries \in [DOMAIN entries -> New]
    <3>1. entries = [i \in DOMAIN entries |-> entries[i]]
          OBVIOUS
    <3> QED BY <3>1
  <2> QED BY <2>1 DEF Surjection
<1> HIDE DEF New
<1>3. IsFiniteSet(New)
      BY <1>1, <1>2, FS_Surjection
<1>4. IsFiniteSet(K)
      BY <1>3, ImportAssumption, FS_Union DEF InCatalog, New
<1>5. [e \in K |-> e.id] \in Surjection(K, Ids)
      BY DEF Surjection, KnownIds
<1> HIDE DEF K, Ids
<1>6. IsFiniteSet(Ids) /\ Cardinality(Ids) <= Cardinality(K)
      BY <1>4, <1>5, FS_Surjection
<1> QED BY <1>4, <1>6 DEF K, Ids

\* There is a number that makes a new id, and it is taken.
LEMMA IdIsNew ==
    ASSUME NEW S, NEW entries \in Seq(S), NEW c
    PROVE  /\ NewId(entries, c) \notin KnownIds(entries)
           /\ \E n \in Nat : NewId(entries, c) = <<Slug[c.domain], c.row.protocol, n>>
<1> DEFINE Id(n) == <<Slug[c.domain], c.row.protocol, n>>
           m == Cardinality(InCatalog(entries))
           Ids == KnownIds(entries)
           First(k) == Id(k) \notin Ids /\ \A j \in 1..(k - 1) : Id(j) \in Ids
           free == {k \in 1..(m + 1) : Id(k) \notin Ids}
<1>1. m \in Nat /\ IsFiniteSet(Ids) /\ Cardinality(Ids) <= m /\ Cardinality(Ids) \in Nat
      BY KnownFinite, FS_CardinalityType
<1>2. NewId(entries, c) = Id(CHOOSE k \in 1..(m + 1) : First(k))
      BY DEF NewId
<1> HIDE DEF m, Ids
<1>3. free # {}
  <2> SUFFICES ASSUME \A k \in 1..(m + 1) : Id(k) \in Ids PROVE FALSE
      OBVIOUS
  <2> DEFINE f == [k \in 1..(m + 1) |-> Id(k)]
  <2>1. f \in [1..(m + 1) -> Ids]
        OBVIOUS
  <2>2. \A j, k \in 1..(m + 1) : f[j] = f[k] => j = k
        OBVIOUS
  <2> HIDE DEF f
  <2>3. f \in Injection(1..(m + 1), Ids)
        BY <2>1, <2>2 DEF Injection, IsInjective
  <2>4. Cardinality(1..(m + 1)) <= Cardinality(Ids)
        BY <1>1, <2>3, FS_Injection
  <2>5. Cardinality(1..(m + 1)) = m + 1
    <3>1. 1 \in Int /\ m + 1 \in Int /\ ~ (1 > m + 1) /\ (m + 1) - 1 + 1 = m + 1
          BY <1>1
    <3>2. Cardinality(1..(m + 1)) = IF 1 > m + 1 THEN 0 ELSE (m + 1) - 1 + 1
          BY <3>1, FS_Interval
    <3> QED BY <3>1, <3>2
  <2> QED BY <1>1, <2>4, <2>5
<1>4. free \in SUBSET Nat
      BY <1>1
<1>5. PICK k \in free : \A j \in free : k <= j
  <2> HIDE DEF free
  <2> QED BY <1>3, <1>4, LeastOf
<1>6. k \in 1..(m + 1) /\ Id(k) \notin Ids
      OBVIOUS
<1>7. ASSUME NEW j \in 1..(k - 1) PROVE Id(j) \in Ids
  <2>1. j \in 1..(m + 1) /\ ~ (k <= j)
        BY <1>1, <1>6
  <2> QED BY <1>5, <2>1
<1> DEFINE n == CHOOSE i \in 1..(m + 1) : First(i)
<1>8. First(k)
      BY <1>6, <1>7
<1> HIDE DEF First
<1>9. n \in 1..(m + 1) /\ First(n)
      BY <1>6, <1>8
<1> HIDE DEF n
<1>10. n \in Nat /\ Id(n) \notin Ids
       BY <1>1, <1>9 DEF First
<1>11. NewId(entries, c) = Id(n)
       BY <1>2 DEF n
<1> QED BY <1>10, <1>11 DEF Ids

\* What an import makes of its rows.
Entries(rows) ==
    [id : {<<Slug[rows[k].domain], rows[k].row.protocol, n>> : k \in 1..Len(rows), n \in Nat},
     args : {rows[k].row.args : k \in 1..Len(rows)}]

LEMMA EntryType ==
    ASSUME NEW rows, NEW entries \in Seq(Entries(rows)), NEW k \in 1..Len(rows)
    PROVE  NewEntry(entries, rows[k]) \in Entries(rows)
<1>1. PICK n \in Nat :
            NewId(entries, rows[k]) = <<Slug[rows[k].domain], rows[k].row.protocol, n>>
      BY IdIsNew
<1>2. NewEntry(entries, rows[k]).id \in
          {<<Slug[rows[j].domain], rows[j].row.protocol, i>> : j \in 1..Len(rows), i \in Nat}
      BY <1>1 DEF NewEntry
<1> QED BY <1>2 DEF NewEntry, Entries

\* The plan after each row.
Planned(plan, rows) ==
    /\ plan \in [0..Len(rows) -> Seq(Entries(rows))]
    /\ plan[0] = <<>>
    /\ \A k \in 1..Len(rows) :
          plan[k] = IF Skipped(plan[k - 1], rows[k]) THEN plan[k - 1]
                    ELSE Append(plan[k - 1], NewEntry(plan[k - 1], rows[k]))

\* An import is defined, by its plans.
LEMMA PlanParts ==
    ASSUME NEW C, Candidates \in Seq(C)
    PROVE  \E plan : PlanImport = plan[Len(Candidates)] /\ Planned(plan, Candidates)
<1> DEFINE rows == Candidates
           n == Len(rows)
           X == Seq(Entries(rows))
           a == <<>>
           Taken(q, k) == IF Skipped(q, rows[k]) THEN q ELSE Append(q, NewEntry(q, rows[k]))
           St == [q \in X \X (1..n) |-> Taken(q[1], q[2])]
           Step(g) == [k \in 0..n |->
                IF k = 0 THEN <<>>
                ELSE LET sofar == g[k - 1] IN
                     IF Skipped(sofar, rows[k]) THEN sofar
                     ELSE Append(sofar, NewEntry(sofar, rows[k]))]
           plan == CHOOSE g : g = Step(g)
<1>1. PlanImport = plan[n]
      BY DEF PlanImport
<1>2. n \in Nat /\ a \in X
      OBVIOUS
<1> HIDE DEF rows
<1>3. ASSUME NEW q \in X, NEW k \in 1..n PROVE Taken(q, k) \in X
  <2>1. NewEntry(q, rows[k]) \in Entries(rows)
        BY EntryType
  <2>2. Append(q, NewEntry(q, rows[k])) \in X
        BY <2>1, AppendProperties
  <2> QED BY <2>2
<1>4. \A q \in X, k \in 1..n : St[<<q, k>>] = Taken(q, k)
  <2> HIDE DEF Taken
  <2> QED OBVIOUS
<1>5. St \in [X \X (1..n) -> X]
  <2> HIDE DEF Taken
  <2> QED BY <1>3
<1> HIDE DEF St, n, X, a
<1>6. PICK g : Solves(g, X, a, n, St)
      BY <1>2, <1>5, Recursion
<1>7. g = Step(g)
  <2>1. g = [k \in 0..n |-> g[k]] /\ g[0] = <<>>
        BY <1>6 DEF Solves, a
  <2>2. ASSUME NEW k \in 0..n, k # 0 PROVE g[k] = Taken(g[k - 1], k)
    <3>1. k \in 1..n /\ k - 1 \in 0..n
          BY <1>2, <2>2
    <3>2. g[k - 1] \in X /\ g[k] = St[<<g[k - 1], k>>]
          BY <1>6, <3>1 DEF Solves
    <3> HIDE DEF Taken
    <3> QED BY <1>4, <3>1, <3>2
  <2>3. \A k \in 0..n : g[k] = Step(g)[k]
        BY <2>1, <2>2
  <2> HIDE DEF Step
  <2>4. Step(g) = [k \in 0..n |-> Step(g)[k]]
        BY DEF Step
  <2> QED BY <2>1, <2>3, <2>4
<1> HIDE DEF Step
<1>8. plan = Step(plan)
      BY <1>7
<1> HIDE DEF plan
<1>9. \A k \in 0..n : plan[k] = IF k = 0 THEN <<>> ELSE Taken(plan[k - 1], k)
  <2>1. \A k \in 0..n : Step(plan)[k] = IF k = 0 THEN <<>> ELSE Taken(plan[k - 1], k)
        BY DEF Step
  <2> HIDE DEF Taken
  <2> QED BY <1>8, <2>1
<1> HIDE DEF Taken
<1> DEFINE D == {k \in 0..n : plan[k] \in X}
<1>10. 0 \in D
       BY <1>2, <1>9 DEF a
<1>11. \A k \in 0..n : k < n /\ k \in D => k + 1 \in D
  <2> SUFFICES ASSUME NEW k \in 0..n, k < n, plan[k] \in X
               PROVE  plan[k + 1] \in X /\ k + 1 \in 0..n
      OBVIOUS
  <2>1. k + 1 \in 1..n /\ k + 1 \in 0..n /\ k + 1 # 0 /\ (k + 1) - 1 = k
        BY <1>2
  <2>2. plan[k + 1] = Taken(plan[k], k + 1)
        BY <1>9, <2>1
  <2> QED BY <1>3, <2>1, <2>2
<1>12. 0..n \subseteq D
  <2> HIDE DEF D
  <2> QED BY <1>2, <1>10, <1>11, UpTo
<1>13. plan \in [0..n -> X]
  <2>1. plan = [k \in 0..n |-> plan[k]]
    <3>1. Step(plan) = [k \in 0..n |-> Step(plan)[k]]
          BY DEF Step
    <3> QED BY <1>8, <3>1
  <2> QED BY <1>12, <2>1
<1>14. ASSUME NEW k \in 1..n PROVE plan[k] = Taken(plan[k - 1], k)
  <2>1. k \in 0..n /\ k # 0
        BY <1>2
  <2> QED BY <1>9, <2>1
<1>15. plan[0] = <<>>
       BY <1>2, <1>9
<1>16. Planned(plan, Candidates)
       BY <1>13, <1>14, <1>15 DEF Planned, Taken, n, X, rows
<1>17. PlanImport = plan[Len(Candidates)]
       BY <1>1 DEF n, rows
<1> QED BY <1>16, <1>17

\* What is new is counted entry by entry.
LEMMA NewCounted ==
    ASSUME NEW S, NEW entries \in Seq(S), NEW e, NEW p
    PROVE  /\ NewOf(entries, p) \in Nat
           /\ NewOf(Append(entries, e), p) =
                 IF e.id[2] = p THEN NewOf(entries, p) + 1 ELSE NewOf(entries, p)
<1> DEFINE n == Len(entries)
           more == Append(entries, e)
           old == {i \in DOMAIN entries : entries[i].id[2] = p}
           all == {i \in DOMAIN more : more[i].id[2] = p}
<1>1. /\ n \in Nat /\ DOMAIN entries = 1..n /\ DOMAIN more = 1..(n + 1)
      /\ \A i \in 1..n : more[i] = entries[i]
      /\ more[n + 1] = e
      BY Appended
<1>2. IsFiniteSet(old) /\ old \in SUBSET (1..n)
  <2>1. IsFiniteSet(1..n) /\ old \in SUBSET (1..n)
        BY <1>1, FS_Interval
  <2> HIDE DEF old
  <2> QED BY <2>1, FS_Subset
<1>3. all = IF e.id[2] = p THEN old \cup {n + 1} ELSE old
  <2> HIDE DEF more, n
  <2>1. 1..(n + 1) = (1..n) \cup {n + 1} /\ n + 1 \notin 1..n
        BY <1>1
  <2> QED BY <1>1, <2>1
<1>4. n + 1 \notin old
      BY <1>1
<1> HIDE DEF old, all
<1>5. Cardinality(old) \in Nat
      BY <1>2, FS_CardinalityType
<1>6. Cardinality(all) = IF e.id[2] = p THEN Cardinality(old) + 1 ELSE Cardinality(old)
      BY <1>2, <1>3, <1>4, FS_AddElement
<1> QED BY <1>5, <1>6 DEF NewOf, old, all

\* What is taken is known from then on, and what was known stays so.
LEMMA KnownMore ==
    ASSUME NEW S, NEW entries \in Seq(S), NEW e
    PROVE  /\ KnownArgs(Append(entries, e)) = KnownArgs(entries) \cup {e.args}
           /\ \A i \in 1..Len(entries) :
                 entries[i].id \in KnownIds(entries) /\ entries[i].args \in KnownArgs(entries)
           /\ KnownIds(<<>>) \subseteq KnownIds(entries)
           /\ KnownArgs(<<>>) \subseteq KnownArgs(entries)
<1> DEFINE more == Append(entries, e)
           n == Len(entries)
<1>1. /\ n \in Nat /\ DOMAIN entries = 1..n /\ DOMAIN more = 1..(n + 1)
      /\ \A i \in 1..n : more[i] = entries[i]
      /\ more[n + 1] = e
      BY Appended
<1> HIDE DEF more, n
<1>2. 1..(n + 1) = (1..n) \cup {n + 1}
      BY <1>1
<1>3. {more[i] : i \in DOMAIN more} = {entries[i] : i \in DOMAIN entries} \cup {e}
      BY <1>1, <1>2
<1>4. InCatalog(more) = InCatalog(entries) \cup {e}
      BY <1>3 DEF InCatalog
<1>5. KnownArgs(more) = KnownArgs(entries) \cup {e.args}
      BY <1>4 DEF KnownArgs
<1>6. \A i \in 1..n : entries[i] \in InCatalog(entries)
      BY <1>1 DEF InCatalog
<1>7. InCatalog(<<>>) \subseteq InCatalog(entries)
      BY DEF InCatalog
<1> QED BY <1>5, <1>6, <1>7 DEF KnownArgs, KnownIds, more, n

\* A row is in the plan, or there is a reason.
Handled(entries, row) ==
    \/ row.args \notin Usable
    \/ row.args \in KnownArgs(entries)
    \/ MaxImport > 0 /\ NewOf(entries, row.protocol) = MaxImport

\* What holds of the plan of the first k rows.
PlanInv(entries, rows, k) ==
    /\ \A i \in 1..Len(entries) :
          entries[i].id \notin KnownIds(<<>>) /\ entries[i].args \notin KnownArgs(<<>>)
    /\ \A i, j \in 1..Len(entries) :
          i # j => entries[i].id # entries[j].id /\ entries[i].args # entries[j].args
    /\ MaxImport > 0 => \A p : NewOf(entries, p) <= MaxImport
    /\ \A i \in 1..k : Handled(entries, rows[i].row)

LEMMA PlanStart ==
    ASSUME NEW rows
    PROVE  PlanInv(<<>>, rows, 0)
<1>1. \A p : NewOf(<<>>, p) = 0
  <2> SUFFICES ASSUME NEW p PROVE NewOf(<<>>, p) = 0
      OBVIOUS
  <2>1. {i \in DOMAIN <<>> : <<>>[i].id[2] = p} = {}
        OBVIOUS
  <2> QED BY <2>1, FS_EmptySet DEF NewOf
<1> QED BY <1>1, ImportAssumption DEF PlanInv

\* Each row leaves it so.
LEMMA PlanStep ==
    ASSUME NEW rows, NEW entries \in Seq(Entries(rows)), NEW k \in Nat, k + 1 \in 1..Len(rows),
           PlanInv(entries, rows, k)
    PROVE  PlanInv(IF Skipped(entries, rows[k + 1]) THEN entries
                   ELSE Append(entries, NewEntry(entries, rows[k + 1])), rows, k + 1)
<1> DEFINE c == rows[k + 1]
           e == NewEntry(entries, c)
           more == Append(entries, e)
           n == Len(entries)
<1>0. \A p : NewOf(entries, p) \in Nat
      BY NewCounted
<1>1. CASE Skipped(entries, c)
  <2>1. Handled(entries, c.row)
        BY <1>0, <1>1, ImportAssumption DEF Skipped, IsFull, Handled, PlanInv
  <2>2. \A i \in 1..(k + 1) : Handled(entries, rows[i].row)
    <3>1. \A i \in 1..(k + 1) : i \in 1..k \/ i = k + 1
          OBVIOUS
    <3> QED BY <2>1, <3>1 DEF PlanInv
  <2> QED BY <1>1, <2>2 DEF PlanInv
<1>2. CASE ~ Skipped(entries, c)
  <2>1. /\ e.id \notin KnownIds(entries) /\ e.args = c.row.args
        /\ e.args \notin KnownArgs(entries) /\ e.id[2] = c.row.protocol
        /\ ~ IsFull(entries, c.row.protocol)
    <3>1. e.id = NewId(entries, c) /\ e.args = c.row.args
          BY DEF NewEntry
    <3>2. PICK x \in Nat : NewId(entries, c) = <<Slug[c.domain], c.row.protocol, x>>
          BY IdIsNew
    <3>3. e.id[2] = c.row.protocol
          BY <3>1, <3>2
    <3>4. NewId(entries, c) \notin KnownIds(entries)
          BY IdIsNew
    <3> HIDE DEF e, c
    <3> QED BY <1>2, <3>1, <3>3, <3>4 DEF Skipped
  <2>2. /\ n \in Nat /\ Len(more) = n + 1
        /\ \A i \in 1..n : more[i] = entries[i]
        /\ more[n + 1] = e
        BY Appended
  <2>3. /\ KnownArgs(more) = KnownArgs(entries) \cup {e.args}
        /\ \A i \in 1..n :
              entries[i].id \in KnownIds(entries) /\ entries[i].args \in KnownArgs(entries)
        /\ KnownIds(<<>>) \subseteq KnownIds(entries)
        /\ KnownArgs(<<>>) \subseteq KnownArgs(entries)
        BY KnownMore
  <2>4. \A p : NewOf(more, p) =
                 IF c.row.protocol = p THEN NewOf(entries, p) + 1 ELSE NewOf(entries, p)
    <3> HIDE DEF e, c
    <3> QED BY <2>1, NewCounted DEF more
  <2> HIDE DEF more, n, e, c
  <2>5. \A i \in 1..(n + 1) : i \in 1..n \/ i = n + 1
        BY <2>2
  <2>6. \A i \in 1..(n + 1) :
            more[i].id \notin KnownIds(<<>>) /\ more[i].args \notin KnownArgs(<<>>)
        BY <2>1, <2>2, <2>3, <2>5 DEF PlanInv, n
  <2>7. \A i, j \in 1..(n + 1) :
            i # j => more[i].id # more[j].id /\ more[i].args # more[j].args
        BY <2>1, <2>2, <2>3, <2>5 DEF PlanInv, n
  <2>8. MaxImport > 0 => \A p : NewOf(more, p) <= MaxImport
        BY <1>0, <2>1, <2>4, ImportAssumption DEF PlanInv, IsFull
  <2>9. \A i \in 1..(k + 1) : Handled(more, rows[i].row)
    <3> SUFFICES ASSUME NEW i \in 1..(k + 1) PROVE Handled(more, rows[i].row)
        OBVIOUS
    <3>1. CASE i = k + 1
          BY <2>1, <2>3, <3>1 DEF Handled, c
    <3>2. CASE i \in 1..k
      <4>1. Handled(entries, rows[i].row)
            BY <3>2 DEF PlanInv
      <4>2. CASE MaxImport > 0 /\ NewOf(entries, rows[i].row.protocol) = MaxImport
        <5>1. c.row.protocol # rows[i].row.protocol
              BY <2>1, <4>2, ImportAssumption DEF IsFull
        <5> QED BY <2>4, <4>2, <5>1 DEF Handled
      <4> QED BY <2>3, <4>1, <4>2 DEF Handled
    <3> QED BY <3>1, <3>2
  <2>10. PlanInv(more, rows, k + 1)
         BY <2>2, <2>6, <2>7, <2>8, <2>9 DEF PlanInv
  <2> QED BY <1>2, <2>10 DEF more, e, c
<1> QED BY <1>1, <1>2

\* The working rows of the domains are a sequence.
LEMMA CandidatesSeq ==
    ASSUME ResultsSeq, RankedInv
    PROVE  \E C : Candidates \in Seq(C)
<1> DEFINE C == [domain : {results[i].domain : i \in DOMAIN results},
                 row : UNION {RowsOf(results[i].rows) : i \in DOMAIN results}]
           Of(i) == [k \in DOMAIN results[i].working |->
                        [domain |-> results[i].domain, row |-> results[i].working[k]]]
           s == [i \in DOMAIN results |-> Of(i)]
<1>1. Len(results) \in Nat /\ DOMAIN results = 1..Len(results)
      BY DEF ResultsSeq
<1>2. ASSUME NEW i \in DOMAIN results PROVE Of(i) \in Seq(C)
  <2> DEFINE w == results[i].working
             R == RowsOf(results[i].rows)
  <2>1. w \in Seq(R)
        BY FilterSplits DEF RankedInv
  <2>2. Len(w) \in Nat /\ DOMAIN w = 1..Len(w) /\ \A k \in 1..Len(w) : w[k] \in R
    <3> HIDE DEF w, R
    <3> QED BY <2>1
  <2>3. \A k \in 1..Len(w) : [domain |-> results[i].domain, row |-> w[k]] \in C
    <3>1. \A k \in 1..Len(w) :
                w[k] \in UNION {RowsOf(results[j].rows) : j \in DOMAIN results}
          BY <2>2
    <3> HIDE DEF w
    <3> QED BY <3>1
  <2> HIDE DEF C
  <2>4. Of(i) \in [1..Len(w) -> C]
        BY <2>2, <2>3
  <2> QED BY <2>2, <2>4, SeqDef
<1> HIDE DEF C, Of
<1>3. s \in [1..Len(results) -> Seq(C)]
      BY <1>1, <1>2
<1>4. s \in Seq(Seq(C))
      BY <1>1, <1>3, SeqDef
<1> HIDE DEF s
<1>5. FlattenSeq(s) \in Seq(C)
      BY <1>4, Flattened
<1> QED BY <1>5 DEF Candidates, s, Of

\* What is planned holds of all rows.
LEMMA PlanIs ==
    ASSUME NEW C, Candidates \in Seq(C)
    PROVE  /\ PlanImport \in Seq(Entries(Candidates))
           /\ PlanInv(PlanImport, Candidates, Len(Candidates))
<1> DEFINE rows == Candidates
           n == Len(rows)
<1>1. PICK plan : PlanImport = plan[n] /\ Planned(plan, rows)
      BY PlanParts
<1>2. n \in Nat
      OBVIOUS
<1> HIDE DEF rows, n
<1> DEFINE D == {k \in 0..n : PlanInv(plan[k], rows, k)}
<1>3. 0 \in D
      BY <1>1, <1>2, PlanStart DEF Planned
<1>4. \A k \in 0..n : k < n /\ k \in D => k + 1 \in D
  <2> SUFFICES ASSUME NEW k \in 0..n, k < n, PlanInv(plan[k], rows, k)
               PROVE  PlanInv(plan[k + 1], rows, k + 1) /\ k + 1 \in 0..n
      OBVIOUS
  <2>1. k \in Nat /\ k + 1 \in 1..n /\ k + 1 \in 0..n /\ (k + 1) - 1 = k
        BY <1>2
  <2>2. plan[k] \in Seq(Entries(rows))
        BY <1>1 DEF Planned, n
  <2>3. plan[k + 1] = IF Skipped(plan[k], rows[k + 1]) THEN plan[k]
                      ELSE Append(plan[k], NewEntry(plan[k], rows[k + 1]))
        BY <1>1, <2>1 DEF Planned, n
  <2>4. PlanInv(IF Skipped(plan[k], rows[k + 1]) THEN plan[k]
                ELSE Append(plan[k], NewEntry(plan[k], rows[k + 1])), rows, k + 1)
        BY <2>1, <2>2, PlanStep DEF n
  <2> QED BY <2>1, <2>3, <2>4
<1>5. n \in D
  <2> HIDE DEF D
  <2>1. n \in 0..n
        BY <1>2
  <2> QED BY <1>2, <1>3, <1>4, <2>1, UpTo
<1>6. plan[n] \in Seq(Entries(rows))
  <2>1. n \in 0..n
        BY <1>2
  <2> QED BY <1>1, <2>1 DEF Planned, n
<1> QED BY <1>1, <1>5, <1>6 DEF rows, n

\* An import adds what is new, and all for which there is room, whatever the
\* domains have found and the catalogue holds (plan_import, merge_catalog).
THEOREM ImportIsNew == Spec => []ImportAddsNew
<1>1. Init => TypeOK /\ ResultsSeq /\ RankedInv
      BY InitType DEF Init, RankedInv
<1>2. TypeOK /\ ResultsSeq /\ RankedInv /\ [Next]_vars
      => TypeOK' /\ ResultsSeq' /\ RankedInv'
      BY StepType, StepRanked
<1>3. ResultsSeq /\ RankedInv => ImportAddsNew
  <2> SUFFICES ASSUME ResultsSeq, RankedInv PROVE ImportAddsNew
      OBVIOUS
  <2> DEFINE E == PlanImport
             rows == Candidates
             n == Len(E)
             New == {E[i] : i \in DOMAIN E}
             r == Len(rows)
  <2>1. PICK C : Candidates \in Seq(C)
        BY CandidatesSeq
  <2>2. E \in Seq(Entries(rows)) /\ PlanInv(E, rows, r)
        BY <2>1, PlanIs
  <2>3. DOMAIN rows = 1..r
        BY <2>1
  <2> HIDE DEF E, rows, r
  <2>4. n \in Nat /\ DOMAIN E = 1..n
        BY <2>2
  <2>5. /\ \A i \in 1..n : E[i].id \notin KnownIds(<<>>) /\ E[i].args \notin KnownArgs(<<>>)
        /\ \A i, j \in 1..n : i # j => E[i].id # E[j].id /\ E[i].args # E[j].args
        /\ \A i \in 1..r : Handled(E, rows[i].row)
        BY <2>2 DEF PlanInv
  <2>6. /\ \A f \in Catalog : f.id \in KnownIds(<<>>) /\ f.args \in KnownArgs(<<>>)
        /\ \A e \in New : \E i \in 1..n : e = E[i]
        BY <2>4 DEF KnownIds, KnownArgs, InCatalog
  <2>7. Merged = Catalog \cup New /\ Catalog \cap New = {}
    <3>1. Merged = {e \in Catalog : e.id \notin {E[i].id : i \in DOMAIN E}} \cup New
          BY DEF Merged, E
    <3>2. \A f \in Catalog : f.id \notin {E[i].id : i \in DOMAIN E}
          BY <2>4, <2>5, <2>6
    <3>3. \A f \in Catalog : f \notin New
          BY <2>5, <2>6
    <3> HIDE DEF New
    <3> QED BY <3>1, <3>2, <3>3
  <2>8. IsFiniteSet(New) /\ Cardinality(New) = n
    <3>1. E \in [1..n -> New] /\ \A i, j \in 1..n : E[i] = E[j] => i = j
      <4>1. E = [i \in 1..n |-> E[i]]
            BY <2>2, <2>4
      <4> QED BY <2>4, <2>5, <4>1
    <3>2. E \in Bijection(1..n, New)
      <4> HIDE DEF New
      <4>1. \A e \in New : \E i \in 1..n : E[i] = e
            BY <2>6
      <4> QED BY <3>1, <4>1 DEF Bijection, Injection, IsInjective, Surjection
    <3>3. ExistsBijection(1..n, New)
          BY <3>2 DEF ExistsBijection
    <3> HIDE DEF New, n
    <3>4. IsFiniteSet(1..n) /\ Cardinality(1..n) = n
          BY <2>4, FS_Interval
    <3> QED BY <3>3, <3>4, FS_Bijection
  <2> HIDE DEF New
  <2>9. Cardinality(Merged) = Cardinality(Catalog) + Len(PlanImport)
    <3>1. Cardinality(Catalog \cup New) =
              Cardinality(Catalog) + Cardinality(New) - Cardinality(Catalog \cap New)
          BY <2>8, ImportAssumption, FS_Union
    <3>2. Cardinality(Catalog) \in Nat /\ Cardinality(Catalog \cap New) = 0
          BY <2>7, ImportAssumption, FS_CardinalityType, FS_EmptySet
    <3> QED BY <2>4, <2>7, <2>8, <3>1, <3>2 DEF E
  <2>10. \A e, f \in Merged \ Catalog : e.args = f.args => e = f
    <3> SUFFICES ASSUME NEW e \in New, NEW f \in New, e.args = f.args PROVE e = f
        BY <2>7
    <3> QED BY <2>5, <2>6
  <2>11. \A e \in Merged \ Catalog, f \in Catalog : e.args # f.args
    <3> SUFFICES ASSUME NEW e \in New, NEW f \in Catalog PROVE e.args # f.args
        BY <2>7
    <3> QED BY <2>5, <2>6
  <2>12. KnownArgs(E) = {e.args : e \in Merged}
         BY <2>7 DEF KnownArgs, InCatalog, New
  <2>13. \A i \in DOMAIN rows :
              \/ rows[i].row.args \notin Usable
              \/ rows[i].row.args \in {e.args : e \in Merged}
              \/ MaxImport > 0 /\ NewOf(E, rows[i].row.protocol) = MaxImport
    <3> SUFFICES ASSUME NEW i \in 1..r
                 PROVE  \/ rows[i].row.args \notin Usable
                        \/ rows[i].row.args \in {e.args : e \in Merged}
                        \/ MaxImport > 0 /\ NewOf(E, rows[i].row.protocol) = MaxImport
        BY <2>3
    <3>1. Handled(E, rows[i].row)
          BY <2>5
    <3> QED BY <2>12, <3>1 DEF Handled
  <2> QED BY <2>9, <2>10, <2>11, <2>13 DEF ImportAddsNew, E, rows
<1> QED BY <1>1, <1>2, <1>3, PTL DEF Spec

-----------------------------------------------------------------------------
(* More about what Where takes                                             *)

\* It depends on what is in s only.
LEMMA WhereAgrees ==
    ASSUME NEW S, NEW s \in Seq(S), NEW T, NEW U,
           \A i \in 1..Len(s) : s[i] \in T <=> s[i] \in U
    PROVE  Where(s, T) = Where(s, U)
<1> DEFINE n == Len(s)
<1>1. PICK p : Where(s, T) = p[n] /\ Parts(p, s, T)
      BY WhereParts
<1>2. PICK q : Where(s, U) = q[n] /\ Parts(q, s, U)
      BY WhereParts
<1>3. n \in Nat
      OBVIOUS
<1> DEFINE D == {k \in 0..n : p[k] = q[k]}
<1>4. 0 \in D
      BY <1>1, <1>2, <1>3 DEF Parts
<1>5. \A k \in 0..n : k < n /\ k \in D => k + 1 \in D
  <2> SUFFICES ASSUME NEW k \in 0..n, k < n, p[k] = q[k]
               PROVE  p[k + 1] = q[k + 1] /\ k + 1 \in 0..n
      OBVIOUS
  <2>1. k + 1 \in 1..n /\ (k + 1) - 1 = k /\ k + 1 \in 0..n
        BY <1>3
  <2> HIDE DEF n
  <2>2. p[k + 1] = IF s[k + 1] \in T THEN Append(p[k], s[k + 1]) ELSE p[k]
        BY <1>1, <2>1 DEF Parts, n
  <2>3. q[k + 1] = IF s[k + 1] \in U THEN Append(q[k], s[k + 1]) ELSE q[k]
        BY <1>2, <2>1 DEF Parts, n
  <2> QED BY <2>1, <2>2, <2>3 DEF n
<1> HIDE DEF D, n
<1>6. n \in D
  <2>1. n \in 0..n
        BY <1>3
  <2> QED BY <1>3, <1>4, <1>5, <2>1, UpTo
<1> QED BY <1>1, <1>2, <1>6 DEF D

\* It takes from two lists what it takes from each.
LEMMA WhereConcat ==
    ASSUME NEW S, NEW s \in Seq(S), NEW t \in Seq(S), NEW T
    PROVE  Where(s \o t, T) = Where(s, T) \o Where(t, T)
<1> DEFINE D == {u \in Seq(S) : Where(s \o u, T) = Where(s, T) \o Where(u, T)}
<1>0. /\ Where(<<>>, T) = <<>>
      /\ \A u \in Seq(S), e \in S :
            Where(Append(u, e), T) = IF e \in T THEN Append(Where(u, T), e) ELSE Where(u, T)
      /\ \A u \in Seq(S) : Where(u, T) \in Seq(S)
      BY WhereLaw
<1>1. <<>> \in D
      BY <1>0, ConcatEmptySeq
<1>2. ASSUME NEW u \in Seq(S), u \in D, NEW e \in S PROVE Append(u, e) \in D
  <2>1. s \o Append(u, e) = Append(s \o u, e) /\ s \o u \in Seq(S) /\ Append(u, e) \in Seq(S)
        OBVIOUS
  <2>2. Where(s \o Append(u, e), T) =
            IF e \in T THEN Append(Where(s \o u, T), e) ELSE Where(s \o u, T)
        BY <1>0, <2>1
  <2>3. Where(s, T) \in Seq(S) /\ Where(u, T) \in Seq(S)
        BY <1>0
  <2>4. Where(s, T) \o Append(Where(u, T), e) = Append(Where(s, T) \o Where(u, T), e)
        BY <2>3
  <2> QED BY <1>0, <1>2, <2>1, <2>2, <2>4
<1> HIDE DEF D
<1>3. t \in D
      BY <1>1, <1>2, OfSequences
<1> QED BY <1>3 DEF D

\* It takes all, or nothing.
LEMMA WhereAll ==
    ASSUME NEW S, NEW T, NEW s \in Seq(S)
    PROVE  /\ (\A i \in 1..Len(s) : s[i] \in T) => Where(s, T) = s
           /\ (\A i \in 1..Len(s) : s[i] \notin T) => Where(s, T) = <<>>
<1> DEFINE D == {u \in Seq(S) :
                    /\ (\A i \in 1..Len(u) : u[i] \in T) => Where(u, T) = u
                    /\ (\A i \in 1..Len(u) : u[i] \notin T) => Where(u, T) = <<>>}
<1>0. /\ Where(<<>>, T) = <<>>
      /\ \A u \in Seq(S), e \in S :
            Where(Append(u, e), T) = IF e \in T THEN Append(Where(u, T), e) ELSE Where(u, T)
      BY WhereLaw
<1>1. <<>> \in D
      BY <1>0
<1>2. ASSUME NEW u \in Seq(S), u \in D, NEW e \in S PROVE Append(u, e) \in D
  <2> DEFINE v == Append(u, e)
             n == Len(u)
  <2>1. /\ v \in Seq(S) /\ n \in Nat /\ Len(v) = n + 1
        /\ \A i \in 1..n : v[i] = u[i] /\ i \in 1..(n + 1)
        /\ v[n + 1] = e /\ n + 1 \in 1..(n + 1)
        OBVIOUS
  <2>2. Where(v, T) = IF e \in T THEN Append(Where(u, T), e) ELSE Where(u, T)
        BY <1>0
  <2> HIDE DEF v, n
  <2>3. ASSUME \A i \in 1..Len(v) : v[i] \in T PROVE Where(v, T) = v
    <3>1. e \in T /\ \A i \in 1..n : u[i] \in T
          BY <2>1, <2>3
    <3> QED BY <1>2, <2>2, <3>1 DEF v, n
  <2>4. ASSUME \A i \in 1..Len(v) : v[i] \notin T PROVE Where(v, T) = <<>>
    <3>1. e \notin T /\ \A i \in 1..n : u[i] \notin T
          BY <2>1, <2>4
    <3> QED BY <1>2, <2>2, <3>1 DEF n
  <2> QED BY <2>1, <2>3, <2>4 DEF v
<1> HIDE DEF D
<1>3. s \in D
      BY <1>1, <1>2, OfSequences
<1> QED BY <1>3 DEF D

\* What it takes is what of T is in the list.
LEMMA WhereRange ==
    ASSUME NEW S, NEW T, NEW s \in Seq(S)
    PROVE  /\ Where(s, T) \in Seq(S) /\ Len(Where(s, T)) \in Nat
           /\ \A i \in 1..Len(Where(s, T)) :
                 Where(s, T)[i] \in T /\ \E k \in 1..Len(s) : Where(s, T)[i] = s[k]
           /\ \A k \in 1..Len(s) :
                 s[k] \in T => \E i \in 1..Len(Where(s, T)) : Where(s, T)[i] = s[k]
<1>1. PICK e : Places(e, s, T)
      BY WherePlaces
<1>2. Where(s, T) \in Seq(S) /\ Len(Where(s, T)) \in Nat
  <2>1. Where(s, T) \in Seq(S)
        BY WhereLaw
  <2> QED BY <2>1
<1> QED BY <1>1, <1>2 DEF Places

-----------------------------------------------------------------------------
(* Texts                                                                   *)

\* Two helpers of the community modules.
LEMMA TextLists ==
    /\ \A s : ToSet(s) = {s[i] : i \in DOMAIN s}
    /\ \A s : Last(s) = s[Len(s)]
BY DEF ToSet, Last

\* What Only and Except take does not depend on the text.
NamedIn(S, N) == {o \in S : o.name \in N}
OthersIn(S, N) == {o \in S : o.name \notin N}

LEMMA TextTakes ==
    ASSUME NEW S, NEW args \in Seq(S), NEW N
    PROVE  /\ Only(args, N) = Where(args, NamedIn(S, N))
           /\ Except(args, N) = Where(args, OthersIn(S, N))
<1> DEFINE all == {args[i] : i \in DOMAIN args}
<1>1. \A i \in 1..Len(args) : args[i] \in S /\ args[i] \in all
      OBVIOUS
<1>2. Only(args, N) = Where(args, {o \in all : o.name \in N})
      BY TextLists DEF Only
<1>3. Except(args, N) = Where(args, {o \in all : o.name \notin N})
      BY TextLists DEF Except
<1> HIDE DEF all
<1>4. Where(args, {o \in all : o.name \in N}) = Where(args, {o \in S : o.name \in N})
  <2> DEFINE T == {o \in all : o.name \in N}
             U == {o \in S : o.name \in N}
  <2>1. \A i \in 1..Len(args) : args[i] \in T <=> args[i] \in U
        BY <1>1
  <2> HIDE DEF T, U
  <2>2. Where(args, T) = Where(args, U)
        BY <2>1, WhereAgrees
  <2> QED BY <2>2 DEF T, U
<1>5. Where(args, {o \in all : o.name \notin N}) = Where(args, {o \in S : o.name \notin N})
  <2> DEFINE T == {o \in all : o.name \notin N}
             U == {o \in S : o.name \notin N}
  <2>1. \A i \in 1..Len(args) : args[i] \in T <=> args[i] \in U
        BY <1>1
  <2> HIDE DEF T, U
  <2>2. Where(args, T) = Where(args, U)
        BY <2>1, WhereAgrees
  <2> QED BY <2>2 DEF T, U
<1> QED BY <1>2, <1>3, <1>4, <1>5 DEF NamedIn, OthersIn

\* Of two texts one after the other, they take what they take of each.
LEMMA TextConcat ==
    ASSUME NEW S, NEW a \in Seq(S), NEW b \in Seq(S), NEW N
    PROVE  /\ a \o b \in Seq(S)
           /\ Only(a \o b, N) = Only(a, N) \o Only(b, N)
           /\ Except(a \o b, N) = Except(a, N) \o Except(b, N)
           /\ Has(a \o b, N) <=> Has(a, N) \/ Has(b, N)
<1>1. a \o b \in Seq(S)
      OBVIOUS
<1>2. /\ Only(a, N) = Where(a, NamedIn(S, N)) /\ Only(b, N) = Where(b, NamedIn(S, N))
      /\ Only(a \o b, N) = Where(a \o b, NamedIn(S, N))
      BY <1>1, TextTakes
<1>3. /\ Except(a, N) = Where(a, OthersIn(S, N)) /\ Except(b, N) = Where(b, OthersIn(S, N))
      /\ Except(a \o b, N) = Where(a \o b, OthersIn(S, N))
      BY <1>1, TextTakes
<1>4. /\ Where(a \o b, NamedIn(S, N)) = Where(a, NamedIn(S, N)) \o Where(b, NamedIn(S, N))
      /\ Where(a \o b, OthersIn(S, N)) = Where(a, OthersIn(S, N)) \o Where(b, OthersIn(S, N))
      BY WhereConcat
<1>5. Has(a \o b, N) <=> Has(a, N) \/ Has(b, N)
  <2> DEFINE m == Len(a)
             n == Len(b)
             d == a \o b
  <2>1. /\ m \in Nat /\ n \in Nat /\ DOMAIN a = 1..m /\ DOMAIN b = 1..n /\ DOMAIN d = 1..(m + n)
        /\ \A i \in 1..m : d[i] = a[i]
        /\ \A i \in 1..(m + n) : i > m => d[i] = b[i - m]
        BY ConcatProperties
  <2> HIDE DEF m, n, d
  <2>2. ASSUME NEW i \in 1..m, a[i].name \in N PROVE \E k \in 1..(m + n) : d[k].name \in N
    <3>1. i \in 1..(m + n) /\ d[i] = a[i]
          BY <2>1
    <3> QED BY <2>2, <3>1
  <2>3. ASSUME NEW i \in 1..n, b[i].name \in N PROVE \E k \in 1..(m + n) : d[k].name \in N
    <3>1. i + m \in 1..(m + n) /\ i + m > m /\ (i + m) - m = i
          BY <2>1
    <3>2. d[i + m] = b[i]
          BY <2>1, <3>1
    <3> QED BY <2>3, <3>1, <3>2
  <2>4. ASSUME NEW k \in 1..(m + n), d[k].name \in N
        PROVE  (\E i \in 1..m : a[i].name \in N) \/ (\E i \in 1..n : b[i].name \in N)
    <3>1. CASE k \in 1..m
          BY <2>1, <2>4, <3>1
    <3>2. CASE k \notin 1..m
      <4>1. k > m /\ k - m \in 1..n
            BY <2>1, <3>2
      <4> QED BY <2>1, <2>4, <4>1
    <3> QED BY <3>1, <3>2
  <2> QED BY <2>1, <2>2, <2>3, <2>4 DEF Has, d
<1> QED BY <1>1, <1>2, <1>3, <1>4, <1>5

\* What Only and Except take of a text that has all, some or none of the names.
LEMMA TextHas ==
    ASSUME NEW S, NEW args \in Seq(S), NEW N
    PROVE  /\ Except(args, N) \in Seq(S) /\ Only(args, N) \in Seq(S)
           /\ ~ Has(args, N) => Except(args, N) = args /\ Only(args, N) = <<>>
           /\ (\A i \in 1..Len(args) : args[i].name \in N) =>
                 Except(args, N) = <<>> /\ Only(args, N) = args
           /\ ~ Has(Except(args, N), N)
           /\ \A M : M \cap N = {} =>
                 (Has(Except(args, N), M) <=> Has(args, M))
<1> DEFINE T == NamedIn(S, N)
           U == OthersIn(S, N)
           w == Where(args, U)
<1>1. Only(args, N) = Where(args, T) /\ Except(args, N) = w
      BY TextTakes
<1>2. \A i \in 1..Len(args) :
          /\ args[i] \in T <=> args[i].name \in N
          /\ args[i] \in U <=> args[i].name \notin N
      BY DEF NamedIn, OthersIn
<1>3. \A o \in U : o.name \notin N
      BY DEF OthersIn
<1> HIDE DEF T, U, w
<1>4. DOMAIN args = 1..Len(args)
      OBVIOUS
<1>5. w \in Seq(S) /\ Where(args, T) \in Seq(S) /\ DOMAIN w = 1..Len(w)
  <2>1. w \in Seq(S) /\ Where(args, T) \in Seq(S)
        BY WhereRange DEF w
  <2> QED BY <2>1
<1>6. ~ Has(args, N) => w = args /\ Where(args, T) = <<>>
      BY <1>2, <1>4, WhereAll DEF Has, w
<1>7. (\A i \in 1..Len(args) : args[i].name \in N) => w = <<>> /\ Where(args, T) = args
      BY <1>2, WhereAll DEF w
<1>8. /\ \A i \in 1..Len(w) : w[i] \in U /\ \E k \in 1..Len(args) : w[i] = args[k]
      /\ \A k \in 1..Len(args) : args[k] \in U => \E i \in 1..Len(w) : w[i] = args[k]
      BY WhereRange DEF w
<1>9. ~ Has(w, N)
      BY <1>3, <1>5, <1>8 DEF Has
<1>10. ASSUME NEW M, M \cap N = {} PROVE Has(w, M) <=> Has(args, M)
  <2>1. ASSUME NEW i \in 1..Len(w), w[i].name \in M
        PROVE  \E k \in 1..Len(args) : args[k].name \in M
        BY <1>8, <2>1
  <2>2. ASSUME NEW k \in 1..Len(args), args[k].name \in M
        PROVE  \E i \in 1..Len(w) : w[i].name \in M
    <3>1. args[k] \in U
          BY <1>2, <1>10, <2>2
    <3> QED BY <1>8, <2>2, <3>1
  <2> QED BY <1>4, <1>5, <2>1, <2>2 DEF Has
<1> QED BY <1>1, <1>5, <1>6, <1>7, <1>9, <1>10

-----------------------------------------------------------------------------
(* What is rendered is native                                              *)

\* What is not to be reassembled is said once, however often it is said.
LEMMA DisabledOnce ==
    ASSUME NEW S, NEW args \in Seq(S), NEW V, NEW payloads \in Seq(V)
    PROVE  /\ \E U : Disabled(args, payloads) \in Seq(U)
           /\ Disabled(Disabled(args, payloads), payloads)
                 = Disabled(args, payloads)
           /\ \A M : "--reasm-disable" \notin M =>
                 (Has(Disabled(args, payloads), M) <=> Has(args, M))
<1>1. CASE payloads = <<>>
      BY <1>1 DEF Disabled
<1>2. CASE payloads # <<>>
  <2> DEFINE N == {"--reasm-disable"}
             R == [i \in DOMAIN payloads |-> Opt("--reasm-disable", <<payloads[i]>>)]
             U == S \cup {Opt("--reasm-disable", <<v>>) : v \in V}
             a == Except(args, N)
  <2>1. Disabled(args, payloads) = a \o R
        BY <1>2 DEF Disabled
  <2>2. /\ R \in Seq(U) /\ args \in Seq(U) /\ DOMAIN R = 1..Len(R)
        /\ \A i \in 1..Len(R) : R[i].name = "--reasm-disable"
    <3>1. Len(payloads) \in Nat /\ DOMAIN payloads = 1..Len(payloads)
          OBVIOUS
    <3>2. R \in [1..Len(payloads) -> U]
          BY <3>1
    <3>3. \A i \in DOMAIN R : R[i].name = "--reasm-disable"
          BY DEF Opt
    <3>4. S \subseteq U
          OBVIOUS
    <3> HIDE DEF R, U
    <3>5. R \in Seq(U)
          BY <3>1, <3>2, SeqDef
    <3>6. args \in Seq(U)
          BY <3>4
    <3> QED BY <3>3, <3>5, <3>6
  <2> HIDE DEF R, U
  <2>3. a \in Seq(U) /\ ~ Has(a, N)
        BY <2>2, TextHas
  <2>4. Except(R, N) = <<>>
    <3>1. \A i \in 1..Len(R) : R[i].name \in N
          BY <2>2
    <3> QED BY <2>2, <3>1, TextHas
  <2>5. a \o R \in Seq(U) /\ Except(a \o R, N) = a
    <3>1. Except(a \o R, N) = Except(a, N) \o Except(R, N) /\ a \o R \in Seq(U)
          BY <2>2, <2>3, TextConcat
    <3>2. Except(a, N) = a
          BY <2>3, TextHas
    <3> QED BY <2>3, <2>4, <3>1, <3>2, ConcatEmptySeq
  <2>6. Disabled(a \o R, payloads) = a \o R
        BY <1>2, <2>5 DEF Disabled, R
  <2>7. ASSUME NEW M, "--reasm-disable" \notin M
        PROVE  Has(a \o R, M) <=> Has(args, M)
    <3>1. ~ Has(R, M)
          BY <2>2, <2>7 DEF Has
    <3>2. Has(a, M) <=> Has(args, M)
      <4>1. M \cap N = {}
            BY <2>7
      <4> QED BY <2>2, <4>1, TextHas
    <3>3. Has(a \o R, M) <=> Has(a, M) \/ Has(R, M)
          BY <2>2, <2>3, TextConcat
    <3> QED BY <3>1, <3>2, <3>3
  <2> QED BY <2>1, <2>5, <2>6, <2>7
<1> QED BY <1>1, <1>2

\* A native text that has a filter, or needs none, is rendered as it is.
LEMMA NativeStays ==
    ASSUME NEW S, NEW args \in Seq(S), NEW V, NEW payloads \in Seq(V), NEW p,
           ~ IsLegacy(args), p = "" \/ Has(args, FilterNames)
    PROVE  StrategyArgs(Disabled(args, payloads), p, payloads)
              = Disabled(args, payloads)
<1> DEFINE d == Disabled(args, payloads)
<1>1. /\ Disabled(d, payloads) = d
      /\ \A M : "--reasm-disable" \notin M => (Has(d, M) <=> Has(args, M))
      BY DisabledOnce
<1> HIDE DEF d
<1>2. /\ Has(d, AllLegacy) <=> Has(args, AllLegacy)
      /\ Has(d, NativeNames) <=> Has(args, NativeNames)
      /\ Has(d, FilterNames) <=> Has(args, FilterNames)
  <2>1. /\ "--reasm-disable" \notin AllLegacy
        /\ "--reasm-disable" \notin NativeNames
        /\ "--reasm-disable" \notin FilterNames
        BY DEF AllLegacy, LegacyNames, Unsupported, NativeNames,
               FilterNames
  <2> QED BY <1>1, <2>1
<1>3. ~ IsLegacy(d)
      BY <1>2 DEF IsLegacy
<1>4. Native(d, p) = d
      BY <1>2 DEF Native
<1>5. NativeOptions(d, p) = d
      BY <1>3, <1>4 DEF NativeOptions
<1> QED BY <1>1, <1>5 DEF StrategyArgs, d

\* A native text gets a filter at most, and is native then.
LEMMA NativeFiltered ==
    ASSUME NEW S, NEW args \in Seq(S), NEW p, ~ IsLegacy(args)
    PROVE  /\ \E U : Native(args, p) \in Seq(U)
           /\ ~ IsLegacy(Native(args, p))
           /\ p = "" \/ Has(Native(args, p), FilterNames)
           /\ \A M : M \cap FilterNames = {} =>
                 (Has(Native(args, p), M) <=> Has(args, M))
<1>1. CASE p = "" \/ Has(args, FilterNames)
      BY <1>1 DEF Native
<1>2. CASE p # "" /\ ~ Has(args, FilterNames)
  <2> DEFINE f == FilterOf(p)
             U == S \cup {f}
  <2>1. Native(args, p) = <<f>> \o args
        BY <1>2 DEF Native
  <2>2. f.name \in FilterNames
        BY DEF FilterOf, Opt, FilterNames
  <2> HIDE DEF f
  <2>3. <<f>> \in Seq(U) /\ args \in Seq(U)
        OBVIOUS
  <2> HIDE DEF U
  <2>4. \A M : Has(<<f>>, M) <=> f.name \in M
        BY DEF Has
  <2>5. \A M : Has(<<f>> \o args, M) <=> f.name \in M \/ Has(args, M)
        BY <2>3, <2>4, TextConcat
  <2>6. f.name \notin AllLegacy
        BY <2>2 DEF AllLegacy, LegacyNames, Unsupported, FilterNames
  <2>7. ~ IsLegacy(<<f>> \o args)
        BY <2>5, <2>6 DEF IsLegacy
  <2>8. <<f>> \o args \in Seq(U)
        BY <2>3
  <2> QED BY <2>1, <2>2, <2>5, <2>7, <2>8
<1> QED BY <1>1, <1>2

\* The text is a sequence of options.
TextType == text \in Seq(Options) /\ noReasm \in Payloads

LEMMA TextIsTyped == TextSpec => []TextType
<1>1. TextInit => TextType
  <2> SUFFICES ASSUME TextInit PROVE text \in Seq(Options) /\ noReasm \in Payloads
      BY DEF TextType
  <2>1. text = <<>> /\ noReasm \in Payloads
        BY DEF TextInit
  <2> QED BY <2>1
<1>2. TextType /\ [TextNext]_textVars => TextType'
      BY DEF TextType, TextNext, Write, textVars
<1> QED BY <1>1, <1>2, PTL DEF TextSpec

\* What validate_args accepts of a native text is rendered, whatever options
\* there are: FORBIDDEN_ARGS holds all that strategy_args raises for, and a filter
\* that native_options adds is not among it.
THEOREM ValidatedArgsRender == TextSpec => []ValidatedRenders
<1>1. TextType => ValidatedRenders
  <2> SUFFICES ASSUME TextType, Validated(text), ~ IsLegacy(text)
               PROVE  ~ Raises(text, protocol)
      BY DEF ValidatedRenders, Rendered
  <2>1. text # <<>> /\ ~ Has(text, Forbidden)
        BY DEF Validated, Has, Forbidden, ForbiddenArgs
  <2>2. ~ Has(Native(text, protocol), Forbidden)
    <3>1. Forbidden \cap FilterNames = {}
          BY DEF Forbidden, FilterNames
    <3> QED BY <2>1, <3>1, NativeFiltered DEF TextType
  <2>3. NativeOptions(text, protocol) = Native(text, protocol)
        BY <2>1 DEF NativeOptions
  <2> QED BY <2>2, <2>3 DEF Raises
<1> QED BY <1>1, TextIsTyped, PTL

-----------------------------------------------------------------------------
(* Profiles                                                                *)

\* g is what one gets of each prefix of s by the steps of F that start with a.
Walk(g, X, a, s, F) ==
    /\ g \in [0..Len(s) -> X]
    /\ g[0] = a
    /\ \A k \in 1..Len(s) : g[k] = F[<<g[k - 1], s[k]>>]

LEMMA Walks ==
    ASSUME NEW X, NEW a \in X, NEW S, NEW s \in Seq(S), NEW F \in [X \X S -> X]
    PROVE  \E g : Walk(g, X, a, s, F)
<1> DEFINE n == Len(s)
           St == [q \in X \X (1..n) |-> F[<<q[1], s[q[2]]>>]]
<1>1. n \in Nat /\ \A k \in 1..n : s[k] \in S
      OBVIOUS
<1>2. \A q \in X, k \in 1..n : F[<<q, s[k]>>] \in X
      BY <1>1
<1>3. St \in [X \X (1..n) -> X] /\ \A q \in X, k \in 1..n : St[<<q, k>>] = F[<<q, s[k]>>]
      BY <1>2
<1> HIDE DEF St, n
<1>4. PICK g : Solves(g, X, a, n, St)
      BY <1>1, <1>3, Recursion
<1>5. ASSUME NEW k \in 1..n PROVE g[k] = F[<<g[k - 1], s[k]>>]
  <2>1. k - 1 \in 0..n
        BY <1>1
  <2>2. g[k - 1] \in X /\ g[k] = St[<<g[k - 1], k>>]
        BY <1>4, <2>1 DEF Solves
  <2> QED BY <1>3, <2>2
<1>6. Walk(g, X, a, s, F)
      BY <1>4, <1>5 DEF Walk, Solves, n
<1> QED BY <1>6

\* One element more is one step more.
LEMMA WalkOn ==
    ASSUME NEW X, NEW a \in X, NEW S, NEW s \in Seq(S), NEW e \in S, NEW F,
           NEW g, Walk(g, X, a, s, F), NEW h, Walk(h, X, a, Append(s, e), F)
    PROVE  h[Len(Append(s, e))] = F[<<g[Len(s)], e>>]
<1> DEFINE n == Len(s)
           t == Append(s, e)
<1>1. /\ n \in Nat /\ Len(t) = n + 1
      /\ \A k \in 1..n : t[k] = s[k]
      /\ t[n + 1] = e
      OBVIOUS
<1> HIDE DEF t, n
<1>2. /\ g[0] = a /\ h[0] = a
      /\ \A k \in 1..n : g[k] = F[<<g[k - 1], s[k]>>]
      /\ \A k \in 1..(n + 1) : h[k] = F[<<h[k - 1], t[k]>>]
      BY <1>1 DEF Walk, n, t
<1> DEFINE D == {k \in 0..n : g[k] = h[k]}
<1>3. 0 \in D
      BY <1>1, <1>2
<1>4. \A k \in 0..n : k < n /\ k \in D => k + 1 \in D
  <2> SUFFICES ASSUME NEW k \in 0..n, k < n, g[k] = h[k]
               PROVE  g[k + 1] = h[k + 1] /\ k + 1 \in 0..n
      OBVIOUS
  <2>1. k + 1 \in 1..n /\ k + 1 \in 1..(n + 1) /\ (k + 1) - 1 = k /\ k + 1 \in 0..n
        BY <1>1
  <2>2. g[k + 1] = F[<<g[k], s[k + 1]>>] /\ h[k + 1] = F[<<h[k], t[k + 1]>>]
        BY <1>2, <2>1
  <2> QED BY <1>1, <2>1, <2>2
<1> HIDE DEF D
<1>5. n \in D
  <2>1. n \in 0..n
        BY <1>1
  <2> QED BY <1>1, <1>3, <1>4, <2>1, UpTo
<1>6. n + 1 \in 1..(n + 1) /\ (n + 1) - 1 = n
      BY <1>1
<1>7. h[n + 1] = F[<<h[n], t[n + 1]>>]
      BY <1>2, <1>6
<1> QED BY <1>1, <1>5, <1>7 DEF D, t, n

\* How one option more goes into the profiles there are.
ProfileLists(S) == Seq(Seq(S)) \ {<<>>}
After(ps, o) ==
    IF o.name = "--new" THEN Append(ps, <<>>) ELSE [ps EXCEPT ![Len(ps)] = Append(@, o)]
Put(S) == [q \in ProfileLists(S) \X S |-> After(q[1], q[2])]

LEMMA PutType ==
    ASSUME NEW S
    PROVE  /\ Put(S) \in [ProfileLists(S) \X S -> ProfileLists(S)]
           /\ << <<>> >> \in ProfileLists(S)
           /\ \A ps \in ProfileLists(S), o \in S :
                 Put(S)[<<ps, o>>] = After(ps, o) /\ After(ps, o) \in ProfileLists(S)
<1>1. ASSUME NEW ps \in ProfileLists(S), NEW o \in S
      PROVE  /\ Append(ps, <<>>) \in ProfileLists(S)
             /\ [ps EXCEPT ![Len(ps)] = Append(@, o)] \in ProfileLists(S)
  <2> DEFINE n == Len(ps)
             qs == [ps EXCEPT ![n] = Append(@, o)]
  <2>1. ps \in Seq(Seq(S)) /\ n \in Nat /\ n # 0 /\ ps \in [1..n -> Seq(S)]
        BY EmptySeq DEF ProfileLists
  <2>2. Append(ps, <<>>) \in ProfileLists(S)
    <3>1. <<>> \in Seq(S)
          OBVIOUS
    <3>2. Append(ps, <<>>) \in Seq(Seq(S)) /\ Len(Append(ps, <<>>)) = n + 1
          BY <2>1, <3>1, AppendProperties
    <3> QED BY <2>1, <3>2, EmptySeq DEF ProfileLists
  <2> HIDE DEF n
  <2>3. qs \in [1..n -> Seq(S)]
    <3>1. n \in 1..n
          BY <2>1
    <3>2. Append(ps[n], o) \in Seq(S)
          BY <2>1, <3>1, AppendProperties
    <3> QED BY <2>1, <3>2
  <2> HIDE DEF qs
  <2>4. qs \in Seq(Seq(S)) /\ Len(qs) = n
        BY <2>1, <2>3, SeqDef
  <2>5. qs \in ProfileLists(S)
        BY <2>1, <2>4, EmptySeq DEF ProfileLists
  <2> QED BY <2>2, <2>5 DEF qs, n
<1>2. << <<>> >> \in ProfileLists(S)
      BY DEF ProfileLists
<1>3. \A ps \in ProfileLists(S), o \in S :
          Put(S)[<<ps, o>>] = After(ps, o) /\ After(ps, o) \in ProfileLists(S)
  <2> SUFFICES ASSUME NEW ps \in ProfileLists(S), NEW o \in S
               PROVE  Put(S)[<<ps, o>>] = After(ps, o) /\ After(ps, o) \in ProfileLists(S)
      OBVIOUS
  <2>1. After(ps, o) \in ProfileLists(S)
        BY <1>1 DEF After
  <2>2. Put(S)[<<ps, o>>] = After(ps, o)
        BY DEF Put
  <2> QED BY <2>1, <2>2
<1>4. \A q \in ProfileLists(S) \X S : Put(S)[q] \in ProfileLists(S)
  <2> SUFFICES ASSUME NEW ps \in ProfileLists(S), NEW o \in S PROVE Put(S)[<<ps, o>>] \in ProfileLists(S)
      OBVIOUS
  <2> QED BY <1>3
<1>5. Put(S) = [q \in ProfileLists(S) \X S |-> Put(S)[q]]
      BY DEF Put
<1>6. Put(S) \in [ProfileLists(S) \X S -> ProfileLists(S)]
      BY <1>4, <1>5
<1> QED BY <1>2, <1>3, <1>6

\* Profiles is what one gets by it.
LEMMA ProfilesWalk ==
    ASSUME NEW S, NEW s \in Seq(S)
    PROVE  \E g : /\ Walk(g, ProfileLists(S), << <<>> >>, s, Put(S))
                  /\ Profiles(s) = g[Len(s)]
<1> DEFINE n == Len(s)
           X == ProfileLists(S)
           Step(f) == [k \in 0..n |->
                IF k = 0 THEN << <<>> >>
                ELSE LET ps == f[k - 1] IN
                     IF s[k].name = "--new" THEN Append(ps, <<>>)
                     ELSE [ps EXCEPT ![Len(ps)] = Append(@, s[k])]]
           parts == CHOOSE f : f = Step(f)
<1>1. Profiles(s) = parts[n]
      BY DEF Profiles
<1>2. n \in Nat /\ \A k \in 1..n : s[k] \in S
      OBVIOUS
<1>3. PICK g : Walk(g, X, << <<>> >>, s, Put(S))
      BY PutType, Walks
<1>4. ASSUME NEW f PROVE \A k \in 0..n : Step(f)[k] = IF k = 0 THEN << <<>> >> ELSE After(f[k - 1], s[k])
      BY DEF After
<1>5. ASSUME NEW f PROVE Step(f) = [k \in 0..n |-> Step(f)[k]]
      OBVIOUS
<1>6. \A ps \in X, o \in S : Put(S)[<<ps, o>>] = After(ps, o)
      BY PutType
<1> HIDE DEF Step, n, X
<1>7. g \in [0..n -> X] /\ g[0] = << <<>> >> /\ \A k \in 1..n : g[k] = After(g[k - 1], s[k])
  <2>1. /\ g \in [0..n -> X] /\ g[0] = << <<>> >>
        /\ \A k \in 1..n : g[k] = Put(S)[<<g[k - 1], s[k]>>]
        BY <1>3 DEF Walk, n
  <2>2. ASSUME NEW k \in 1..n PROVE g[k] = After(g[k - 1], s[k])
    <3>1. k - 1 \in 0..n
          BY <1>2
    <3> QED BY <1>2, <1>6, <2>1, <3>1
  <2> QED BY <2>1, <2>2
<1>8. g = Step(g)
  <2>1. ASSUME NEW k \in 0..n PROVE g[k] = Step(g)[k]
    <3>1. k = 0 \/ k \in 1..n
          BY <1>2
    <3> QED BY <1>2, <1>4, <1>7, <3>1
  <2>2. g = [k \in 0..n |-> g[k]]
        BY <1>7
  <2> QED BY <1>5, <2>1, <2>2
<1>9. parts = Step(parts)
      BY <1>8
<1> HIDE DEF parts
<1>10. \A k \in 0..n : parts[k] = IF k = 0 THEN << <<>> >> ELSE After(parts[k - 1], s[k])
  <2>1. \A k \in 0..n : Step(parts)[k] = IF k = 0 THEN << <<>> >> ELSE After(parts[k - 1], s[k])
        BY <1>4
  <2> QED BY <1>9, <2>1
<1> DEFINE D == {k \in 0..n : g[k] = parts[k]}
<1>11. 0 \in D
       BY <1>2, <1>7, <1>10
<1>12. \A k \in 0..n : k < n /\ k \in D => k + 1 \in D
  <2> SUFFICES ASSUME NEW k \in 0..n, k < n, g[k] = parts[k]
               PROVE  g[k + 1] = parts[k + 1] /\ k + 1 \in 0..n
      OBVIOUS
  <2>1. k + 1 \in 1..n /\ k + 1 \in 0..n /\ k + 1 # 0 /\ (k + 1) - 1 = k
        BY <1>2
  <2> QED BY <1>7, <1>10, <2>1
<1> HIDE DEF D
<1>13. n \in D
  <2>1. n \in 0..n
        BY <1>2
  <2> QED BY <1>2, <1>11, <1>12, <2>1, UpTo
<1> QED BY <1>1, <1>3, <1>13 DEF D, n, X

\* Profiles puts option by option.
LEMMA ProfilesLaw ==
    ASSUME NEW S
    PROVE  /\ Profiles(<<>>) = << <<>> >>
           /\ \A s \in Seq(S) : Profiles(s) \in ProfileLists(S)
           /\ \A s \in Seq(S), o \in S :
                 Profiles(Append(s, o)) = After(Profiles(s), o)
<1>1. Profiles(<<>>) = << <<>> >>
  <2>1. <<>> \in Seq(S) /\ Len(<<>>) = 0
        OBVIOUS
  <2>2. PICK g : /\ Walk(g, ProfileLists(S), << <<>> >>, <<>>, Put(S))
                 /\ Profiles(<<>>) = g[Len(<<>>)]
        BY <2>1, ProfilesWalk
  <2> QED BY <2>1, <2>2 DEF Walk
<1>2. ASSUME NEW s \in Seq(S) PROVE Profiles(s) \in ProfileLists(S)
  <2>1. PICK g : /\ Walk(g, ProfileLists(S), << <<>> >>, s, Put(S))
                 /\ Profiles(s) = g[Len(s)]
        BY ProfilesWalk
  <2>2. Len(s) \in 0..Len(s)
        OBVIOUS
  <2> QED BY <2>1, <2>2 DEF Walk
<1>3. ASSUME NEW s \in Seq(S), NEW o \in S
      PROVE  Profiles(Append(s, o)) = Put(S)[<<Profiles(s), o>>]
  <2> DEFINE t == Append(s, o)
  <2>1. t \in Seq(S)
        OBVIOUS
  <2>2. PICK g : /\ Walk(g, ProfileLists(S), << <<>> >>, s, Put(S))
                 /\ Profiles(s) = g[Len(s)]
        BY ProfilesWalk
  <2> HIDE DEF t
  <2>3. PICK h : /\ Walk(h, ProfileLists(S), << <<>> >>, t, Put(S))
                 /\ Profiles(t) = h[Len(t)]
        BY <2>1, ProfilesWalk
  <2>4. h[Len(t)] = Put(S)[<<g[Len(s)], o>>]
    <3>1. << <<>> >> \in ProfileLists(S)
          BY PutType
    <3>2. Walk(h, ProfileLists(S), << <<>> >>, Append(s, o), Put(S))
          BY <2>3 DEF t
    <3> QED BY <2>2, <3>1, <3>2, WalkOn DEF t
  <2> QED BY <2>2, <2>3, <2>4 DEF t
<1>4. ASSUME NEW s \in Seq(S), NEW o \in S
      PROVE  Profiles(Append(s, o)) = After(Profiles(s), o)
  <2>1. Profiles(s) \in ProfileLists(S)
        BY <1>2
  <2> QED BY <1>3, <2>1, PutType
<1> QED BY <1>1, <1>2, <1>4

NewOption == Opt("--new", <<>>)

\* How one profile more is joined to those there are.
With(args, p) == IF args = <<>> THEN p ELSE args \o <<NewOption>> \o p
Join(S) == [q \in Seq(S) \X Seq(S) |-> With(q[1], q[2])]

LEMMA JoinType ==
    ASSUME NEW S, NewOption \in S
    PROVE  /\ Join(S) \in [Seq(S) \X Seq(S) -> Seq(S)]
           /\ <<>> \in Seq(S)
           /\ \A args, p \in Seq(S) :
                 Join(S)[<<args, p>>] = With(args, p) /\ With(args, p) \in Seq(S)
<1>1. ASSUME NEW args \in Seq(S), NEW p \in Seq(S)
      PROVE  Join(S)[<<args, p>>] = With(args, p) /\ With(args, p) \in Seq(S)
  <2>1. With(args, p) \in Seq(S)
        BY DEF With
  <2>2. Join(S)[<<args, p>>] = With(args, p)
        BY DEF Join
  <2> QED BY <2>1, <2>2
<1>2. \A q \in Seq(S) \X Seq(S) : Join(S)[q] \in Seq(S)
  <2> SUFFICES ASSUME NEW args \in Seq(S), NEW p \in Seq(S)
               PROVE  Join(S)[<<args, p>>] \in Seq(S)
      OBVIOUS
  <2> QED BY <1>1
<1>3. Join(S) = [q \in Seq(S) \X Seq(S) |-> Join(S)[q]]
      BY DEF Join
<1>4. Join(S) \in [Seq(S) \X Seq(S) -> Seq(S)]
      BY <1>2, <1>3
<1>5. <<>> \in Seq(S)
      OBVIOUS
<1> QED BY <1>1, <1>4, <1>5

\* Joined is what one gets by it.
LEMMA JoinedWalk ==
    ASSUME NEW S, NewOption \in S, NEW s \in Seq(Seq(S))
    PROVE  \E g : Walk(g, Seq(S), <<>>, s, Join(S)) /\ Joined(s) = g[Len(s)]
<1> DEFINE n == Len(s)
           X == Seq(S)
           Step(f) == [k \in 0..n |->
                IF k = 0 THEN <<>>
                ELSE LET args == f[k - 1] IN
                     IF args = <<>> THEN s[k]
                     ELSE args \o <<Opt("--new", <<>>)>> \o s[k]]
           all == CHOOSE f : f = Step(f)
<1>1. Joined(s) = all[n]
      BY DEF Joined
<1>2. n \in Nat /\ \A k \in 1..n : s[k] \in X
      OBVIOUS
<1>3. PICK g : Walk(g, X, <<>>, s, Join(S))
  <2>1. Join(S) \in [X \X X -> X] /\ <<>> \in X
        BY JoinType
  <2> HIDE DEF X
  <2> QED BY <2>1, Walks DEF X
<1>4. ASSUME NEW f PROVE \A k \in 0..n : Step(f)[k] = IF k = 0 THEN <<>> ELSE With(f[k - 1], s[k])
      BY DEF With, NewOption
<1>5. ASSUME NEW f PROVE Step(f) = [k \in 0..n |-> Step(f)[k]]
      OBVIOUS
<1>6. \A args, p \in X : Join(S)[<<args, p>>] = With(args, p)
      BY JoinType
<1> HIDE DEF Step, n, X
<1>7. g \in [0..n -> X] /\ g[0] = <<>> /\ \A k \in 1..n : g[k] = With(g[k - 1], s[k])
  <2>1. /\ g \in [0..n -> X] /\ g[0] = <<>>
        /\ \A k \in 1..n : g[k] = Join(S)[<<g[k - 1], s[k]>>]
        BY <1>3 DEF Walk, n
  <2>2. ASSUME NEW k \in 1..n PROVE g[k] = With(g[k - 1], s[k])
    <3>1. k - 1 \in 0..n
          BY <1>2
    <3> QED BY <1>2, <1>6, <2>1, <3>1
  <2> QED BY <2>1, <2>2
<1>8. g = Step(g)
  <2>1. ASSUME NEW k \in 0..n PROVE g[k] = Step(g)[k]
    <3>1. k = 0 \/ k \in 1..n
          BY <1>2
    <3> QED BY <1>2, <1>4, <1>7, <3>1
  <2>2. g = [k \in 0..n |-> g[k]]
        BY <1>7
  <2> QED BY <1>5, <2>1, <2>2
<1>9. all = Step(all)
      BY <1>8
<1> HIDE DEF all
<1>10. \A k \in 0..n : all[k] = IF k = 0 THEN <<>> ELSE With(all[k - 1], s[k])
  <2>1. \A k \in 0..n : Step(all)[k] = IF k = 0 THEN <<>> ELSE With(all[k - 1], s[k])
        BY <1>4
  <2> QED BY <1>9, <2>1
<1> DEFINE D == {k \in 0..n : g[k] = all[k]}
<1>11. 0 \in D
       BY <1>2, <1>7, <1>10
<1>12. \A k \in 0..n : k < n /\ k \in D => k + 1 \in D
  <2> SUFFICES ASSUME NEW k \in 0..n, k < n, g[k] = all[k]
               PROVE  g[k + 1] = all[k + 1] /\ k + 1 \in 0..n
      OBVIOUS
  <2>1. k + 1 \in 1..n /\ k + 1 \in 0..n /\ k + 1 # 0 /\ (k + 1) - 1 = k
        BY <1>2
  <2> QED BY <1>7, <1>10, <2>1
<1> HIDE DEF D
<1>13. n \in D
  <2>1. n \in 0..n
        BY <1>2
  <2> QED BY <1>2, <1>11, <1>12, <2>1, UpTo
<1> QED BY <1>1, <1>3, <1>13 DEF D, n, X

\* Joined joins profile by profile.
LEMMA JoinedLaw ==
    ASSUME NEW S, NewOption \in S
    PROVE  /\ Joined(<<>>) = <<>>
           /\ \A s \in Seq(Seq(S)) : Joined(s) \in Seq(S)
           /\ \A s \in Seq(Seq(S)), p \in Seq(S) :
                 Joined(Append(s, p)) = With(Joined(s), p)
<1>1. Joined(<<>>) = <<>>
  <2>1. <<>> \in Seq(Seq(S)) /\ Len(<<>>) = 0
        OBVIOUS
  <2>2. PICK g : Walk(g, Seq(S), <<>>, <<>>, Join(S)) /\ Joined(<<>>) = g[Len(<<>>)]
        BY <2>1, JoinedWalk
  <2> QED BY <2>1, <2>2 DEF Walk
<1>2. ASSUME NEW s \in Seq(Seq(S)) PROVE Joined(s) \in Seq(S)
  <2>1. PICK g : Walk(g, Seq(S), <<>>, s, Join(S)) /\ Joined(s) = g[Len(s)]
        BY JoinedWalk
  <2>2. Len(s) \in 0..Len(s)
        OBVIOUS
  <2> QED BY <2>1, <2>2 DEF Walk
<1>3. ASSUME NEW s \in Seq(Seq(S)), NEW p \in Seq(S)
      PROVE  Joined(Append(s, p)) = With(Joined(s), p)
  <2> DEFINE t == Append(s, p)
             X == Seq(S)
  <2>1. t \in Seq(Seq(S))
        OBVIOUS
  <2>2. PICK g : Walk(g, X, <<>>, s, Join(S)) /\ Joined(s) = g[Len(s)]
        BY JoinedWalk
  <2> HIDE DEF t
  <2>3. PICK h : Walk(h, X, <<>>, t, Join(S)) /\ Joined(t) = h[Len(t)]
        BY <2>1, JoinedWalk
  <2>4. <<>> \in X /\ s \in Seq(X) /\ p \in X
        BY JoinType
  <2> HIDE DEF X
  <2>5. h[Len(t)] = Join(S)[<<g[Len(s)], p>>]
    <3>1. Walk(h, X, <<>>, Append(s, p), Join(S))
          BY <2>3 DEF t
    <3> QED BY <2>2, <2>4, <3>1, WalkOn DEF t
  <2>6. Joined(t) = Join(S)[<<Joined(s), p>>]
        BY <2>2, <2>3, <2>5
  <2> QED BY <1>2, <2>6, JoinType DEF t
<1> QED BY <1>1, <1>2, <1>3

\* Options without "--new" go into the last profile.
LEMMA ProfilesExtend ==
    ASSUME NEW S, NEW c \in Seq(S), NEW q \in Seq(Seq(S)), Profiles(c) = Append(q, <<>>),
           NEW b \in Seq(S), ~ Has(b, {"--new"})
    PROVE  Profiles(c \o b) = Append(q, b)
<1> DEFINE D == {u \in Seq(S) : ~ Has(u, {"--new"}) => Profiles(c \o u) = Append(q, u)}
<1>1. <<>> \in D
  <2>1. c \o <<>> = c /\ <<>> \in Seq(S)
        OBVIOUS
  <2> QED BY <2>1
<1>2. ASSUME NEW u \in Seq(S), u \in D, NEW e \in S PROVE Append(u, e) \in D
  <2> SUFFICES ASSUME ~ Has(Append(u, e), {"--new"})
               PROVE  Profiles(c \o Append(u, e)) = Append(q, Append(u, e))
      OBVIOUS
  <2>1. /\ Append(u, e) = u \o <<e>> /\ <<e>> \in Seq(S)
        /\ c \o Append(u, e) = Append(c \o u, e) /\ c \o u \in Seq(S)
        OBVIOUS
  <2>2. ~ Has(u, {"--new"}) /\ ~ Has(<<e>>, {"--new"})
    <3>1. ~ Has(u \o <<e>>, {"--new"})
          BY <2>1
    <3> QED BY <2>1, <3>1, TextConcat
  <2>3. e.name # "--new"
        BY <2>2 DEF Has
  <2>4. Profiles(c \o u) = Append(q, u)
        BY <1>2, <2>2
  <2>5. Profiles(c \o Append(u, e)) = After(Append(q, u), e)
        BY <2>1, <2>4, ProfilesLaw
  <2>6. After(Append(q, u), e) = Append(q, Append(u, e))
    <3> DEFINE n == Len(q)
               x == Append(q, u)
               y == [x EXCEPT ![n + 1] = Append(@, e)]
               z == Append(q, Append(u, e))
    <3>1. /\ n \in Nat /\ x \in Seq(Seq(S)) /\ Len(x) = n + 1 /\ DOMAIN x = 1..(n + 1)
          /\ \A i \in 1..n : x[i] = q[i]
          /\ x[n + 1] = u
          OBVIOUS
    <3>2. Append(u, e) \in Seq(S)
          OBVIOUS
    <3>3. /\ z \in Seq(Seq(S)) /\ DOMAIN z = 1..(n + 1)
          /\ \A i \in 1..n : z[i] = q[i]
          /\ z[n + 1] = Append(u, e)
          BY <3>2, AppendProperties
    <3> HIDE DEF n, x, z
    <3>4. DOMAIN y = 1..(n + 1) /\ \A i \in 1..(n + 1) : y[i] = z[i]
      <4>1. DOMAIN y = 1..(n + 1)
            BY <3>1
      <4>2. ASSUME NEW i \in 1..(n + 1) PROVE y[i] = z[i]
        <5>1. CASE i = n + 1
              BY <3>1, <3>3, <5>1
        <5>2. CASE i \in 1..n
              BY <3>1, <3>3, <5>2
        <5> QED BY <3>1, <5>1, <5>2
      <4> QED BY <4>1, <4>2
    <3>5. y = [i \in 1..(n + 1) |-> y[i]]
          BY <3>1
    <3>6. z = [i \in 1..(n + 1) |-> z[i]]
          BY <3>3
    <3> HIDE DEF y
    <3>7. y = z
          BY <3>4, <3>5, <3>6
    <3> QED BY <2>3, <3>1, <3>7 DEF After, x, y, z
  <2> QED BY <2>5, <2>6
<1> HIDE DEF D
<1>3. b \in D
      BY <1>1, <1>2, OfSequences
<1> QED BY <1>3 DEF D

\* Texts without "--new" that are not empty are the profiles of what they are
\* joined to.
LEMMA ProfilesOfJoined ==
    ASSUME NEW S, NewOption \in S, NEW ps \in Seq(Seq(S)), ps # <<>>,
           \A i \in 1..Len(ps) : ps[i] # <<>> /\ ~ Has(ps[i], {"--new"})
    PROVE  Profiles(Joined(ps)) = ps
<1> DEFINE Good(qs) == \A i \in 1..Len(qs) : qs[i] # <<>> /\ ~ Has(qs[i], {"--new"})
           D == {qs \in Seq(Seq(S)) :
                    qs # <<>> /\ Good(qs) =>
                       Joined(qs) # <<>> /\ Profiles(Joined(qs)) = qs}
<1>1. <<>> \in D
      OBVIOUS
<1>2. ASSUME NEW qs \in Seq(Seq(S)), qs \in D, NEW p \in Seq(S) PROVE Append(qs, p) \in D
  <2> DEFINE t == Append(qs, p)
             n == Len(qs)
             j == Joined(qs)
  <2>1. /\ t \in Seq(Seq(S)) /\ n \in Nat /\ Len(t) = n + 1
        /\ \A i \in 1..n : t[i] = qs[i] /\ i \in 1..(n + 1)
        /\ t[n + 1] = p /\ n + 1 \in 1..(n + 1)
        OBVIOUS
  <2> SUFFICES ASSUME Good(t) PROVE Joined(t) # <<>> /\ Profiles(Joined(t)) = t
      BY <2>1
  <2> HIDE DEF t, n
  <2>2. Good(qs) /\ p # <<>> /\ ~ Has(p, {"--new"})
    <3>1. p # <<>> /\ ~ Has(p, {"--new"})
          BY <2>1
    <3>2. \A i \in 1..n : qs[i] # <<>> /\ ~ Has(qs[i], {"--new"})
          BY <2>1
    <3> QED BY <3>1, <3>2 DEF n
  <2>3. j \in Seq(S) /\ Joined(t) = With(j, p)
        BY JoinedLaw DEF t
  <2>4. CASE qs = <<>>
    <3>1. j = <<>> /\ t = <<p>>
          BY <2>4, JoinedLaw DEF t
    <3>2. Joined(t) = p
          BY <2>3, <3>1 DEF With
    <3>3. Profiles(<<>>) = Append(<<>>, <<>>)
          BY ProfilesLaw
    <3>4. <<>> \in Seq(S) /\ <<>> \in Seq(Seq(S)) /\ <<>> \o p = p /\ Append(<<>>, p) = <<p>>
          OBVIOUS
    <3>5. Profiles(<<>> \o p) = Append(<<>>, p)
          BY <2>2, <3>3, <3>4, ProfilesExtend
    <3> QED BY <2>2, <3>1, <3>2, <3>4, <3>5
  <2>5. CASE qs # <<>>
    <3>1. j # <<>> /\ Profiles(j) = qs
          BY <1>2, <2>2, <2>5
    <3> HIDE DEF j
    <3>2. Joined(t) = (j \o <<NewOption>>) \o p
          BY <2>3, <3>1 DEF With
    <3>3. j \o <<NewOption>> = Append(j, NewOption) /\ j \o <<NewOption>> \in Seq(S)
          BY <2>3
    <3>4. Profiles(j \o <<NewOption>>) = Append(qs, <<>>)
      <4>1. NewOption.name = "--new"
            BY DEF NewOption, Opt
      <4>2. Profiles(Append(j, NewOption)) = After(Profiles(j), NewOption)
            BY <2>3, ProfilesLaw
      <4> QED BY <3>1, <3>3, <4>1, <4>2 DEF After
    <3>5. Profiles(Joined(t)) = t
          BY <2>2, <3>2, <3>3, <3>4, ProfilesExtend DEF t
    <3>6. Joined(t) # <<>>
      <4>1. Len(j \o <<NewOption>>) \in Nat /\ Len(p) \in Nat /\ Len(p) # 0
            BY <2>2, <3>3
      <4>2. Len((j \o <<NewOption>>) \o p) = Len(j \o <<NewOption>>) + Len(p)
            BY <3>3
      <4>3. Len((j \o <<NewOption>>) \o p) # 0
            BY <4>1, <4>2
      <4> QED BY <3>2, <4>3
    <3> QED BY <3>5, <3>6
  <2> QED BY <2>4, <2>5
<1>3. ps \in D
  <2> HIDE DEF D
  <2> QED BY <1>1, <1>2, OfSequences
<1> QED BY <1>3

\* No profile has "--new", and together they have all that the text has else.
LEMMA ProfilesHave ==
    ASSUME NEW S, NEW s \in Seq(S), NEW M, "--new" \notin M
    PROVE  /\ \A i \in 1..Len(Profiles(s)) : ~ Has(Profiles(s)[i], {"--new"})
           /\ Has(s, M) <=>
                 \E i \in 1..Len(Profiles(s)) : Has(Profiles(s)[i], M)
<1> DEFINE Holds(ps, u) ==
              /\ \A i \in 1..Len(ps) : ~ Has(ps[i], {"--new"})
              /\ Has(u, M) <=> \E i \in 1..Len(ps) : Has(ps[i], M)
           D == {u \in Seq(S) : Holds(Profiles(u), u)}
<1>1. <<>> \in D
  <2>1. \A N : ~ Has(<<>>, N)
        BY DEF Has
  <2>2. Profiles(<<>>) = << <<>> >>
        BY ProfilesLaw
  <2>3. <<>> \in Seq(S) /\ Len(<< <<>> >>) = 1 /\ << <<>> >>[1] = <<>>
        OBVIOUS
  <2>4. Holds(<< <<>> >>, <<>>)
        BY <2>1, <2>3
  <2> QED BY <2>2, <2>3, <2>4
<1>2. ASSUME NEW u \in Seq(S), u \in D, NEW o \in S PROVE Append(u, o) \in D
  <2> DEFINE ps == Profiles(u)
             n == Len(ps)
             qs == After(ps, o)
  <2>1. ps \in Seq(Seq(S)) /\ n \in Nat /\ n # 0 /\ DOMAIN ps = 1..n
    <3>1. ps \in ProfileLists(S)
          BY ProfilesLaw
    <3> HIDE DEF ps
    <3> QED BY <3>1, EmptySeq DEF ProfileLists
  <2>2. Profiles(Append(u, o)) = qs /\ Append(u, o) \in Seq(S)
        BY ProfilesLaw
  <2>3. Holds(ps, u)
        BY <1>2
  <2>4. \A N : \A v \in Seq(S) : Has(Append(v, o), N) <=> Has(v, N) \/ o.name \in N
    <3> SUFFICES ASSUME NEW v \in Seq(S), NEW N
                 PROVE  Has(Append(v, o), N) <=> Has(v, N) \/ o.name \in N
        OBVIOUS
    <3>1. Append(v, o) = v \o <<o>> /\ <<o>> \in Seq(S)
          OBVIOUS
    <3>2. Has(<<o>>, N) <=> o.name \in N
          BY DEF Has
    <3>3. Has(v \o <<o>>, N) <=> Has(v, N) \/ Has(<<o>>, N)
          BY <3>1, TextConcat
    <3> QED BY <3>1, <3>2, <3>3
  <2> HIDE DEF ps, n
  <2>5. CASE o.name = "--new"
    <3>1. /\ Len(qs) = n + 1
          /\ \A i \in 1..n : qs[i] = ps[i]
          /\ qs[n + 1] = <<>>
          BY <2>1, <2>5, AppendProperties DEF After, n
    <3>2. \A N : ~ Has(<<>>, N)
          BY DEF Has
    <3> HIDE DEF qs
    <3>3. \A i \in 1..(n + 1) : i \in 1..n \/ i = n + 1
          BY <2>1
    <3>4. \A i \in 1..n : i \in 1..(n + 1)
          BY <2>1
    <3>5. \A i \in 1..Len(qs) : ~ Has(qs[i], {"--new"})
          BY <2>3, <3>1, <3>2, <3>3 DEF n
    <3>6. Has(Append(u, o), M) <=> \E i \in 1..Len(qs) : Has(qs[i], M)
          BY <2>3, <2>4, <2>5, <3>1, <3>2, <3>3, <3>4 DEF n
    <3> QED BY <2>2, <3>5, <3>6
  <2>6. CASE o.name # "--new"
    <3>1. /\ Len(qs) = n
          /\ \A i \in 1..n : i # n => qs[i] = ps[i]
          /\ qs[n] = Append(ps[n], o) /\ n \in 1..n /\ ps[n] \in Seq(S)
      <4> DEFINE rs == [ps EXCEPT ![n] = Append(@, o)]
      <4>1. qs = rs
            BY <2>6 DEF After, n
      <4>2. n \in 1..n /\ ps \in [1..n -> Seq(S)]
            BY <2>1
      <4>3. Append(ps[n], o) \in Seq(S)
            BY <4>2, AppendProperties
      <4>4. rs \in [1..n -> Seq(S)] /\ rs[n] = Append(ps[n], o)
            /\ \A i \in 1..n : i # n => rs[i] = ps[i]
            BY <4>2, <4>3
      <4> HIDE DEF rs, qs
      <4>5. Len(rs) = n
            BY <2>1, <4>4
      <4> QED BY <4>1, <4>2, <4>4, <4>5
    <3> HIDE DEF qs
    <3>2. \A i \in 1..Len(qs) : ~ Has(qs[i], {"--new"})
          BY <2>3, <2>4, <2>6, <3>1 DEF n
    <3>3. Has(Append(u, o), M) <=> \E i \in 1..Len(qs) : Has(qs[i], M)
      <4>1. Has(Append(u, o), M) <=> Has(u, M) \/ o.name \in M
            BY <2>4
      <4>2. Has(qs[n], M) <=> Has(ps[n], M) \/ o.name \in M
            BY <2>4, <3>1
      <4>3. \A i \in 1..n : Has(qs[i], M) <=> Has(ps[i], M) \/ (i = n /\ o.name \in M)
            BY <3>1, <4>2
      <4> QED BY <2>3, <3>1, <4>1, <4>3 DEF n
    <3> QED BY <2>2, <3>2, <3>3
  <2> QED BY <2>5, <2>6
<1>3. s \in D
  <2> HIDE DEF D
  <2> QED BY <1>1, <1>2, OfSequences
<1> QED BY <1>3

\* What profiles are joined to has what one of them has.
LEMMA JoinedHas ==
    ASSUME NEW S, NewOption \in S, NEW ps \in Seq(Seq(S)), NEW M, "--new" \notin M
    PROVE  Has(Joined(ps), M) <=> \E i \in 1..Len(ps) : Has(ps[i], M)
<1> DEFINE D == {qs \in Seq(Seq(S)) :
                    Has(Joined(qs), M) <=> \E i \in 1..Len(qs) : Has(qs[i], M)}
<1>0. \A N : ~ Has(<<>>, N)
      BY DEF Has
<1>1. <<>> \in D
  <2>1. Joined(<<>>) = <<>>
        BY JoinedLaw
  <2> QED BY <1>0, <2>1
<1>2. ASSUME NEW qs \in Seq(Seq(S)), qs \in D, NEW p \in Seq(S) PROVE Append(qs, p) \in D
  <2> DEFINE t == Append(qs, p)
             n == Len(qs)
             j == Joined(qs)
  <2>1. /\ t \in Seq(Seq(S)) /\ n \in Nat /\ Len(t) = n + 1
        /\ \A i \in 1..n : t[i] = qs[i] /\ i \in 1..(n + 1)
        /\ t[n + 1] = p /\ n + 1 \in 1..(n + 1)
        /\ \A i \in 1..(n + 1) : i \in 1..n \/ i = n + 1
        OBVIOUS
  <2> HIDE DEF t, n
  <2>2. j \in Seq(S) /\ Joined(t) = With(j, p)
        BY JoinedLaw DEF t
  <2>3. Has(j, M) <=> \E i \in 1..n : Has(qs[i], M)
        BY <1>2 DEF n
  <2> HIDE DEF j
  <2>4. Has(With(j, p), M) <=> Has(j, M) \/ Has(p, M)
    <3>1. CASE j = <<>>
          BY <1>0, <3>1 DEF With
    <3>2. CASE j # <<>>
      <4>1. <<NewOption>> \in Seq(S) /\ j \o <<NewOption>> \in Seq(S)
            BY <2>2
      <4>2. ~ Has(<<NewOption>>, M)
            BY DEF Has, NewOption, Opt
      <4>3. Has(j \o <<NewOption>>, M) <=> Has(j, M)
            BY <2>2, <4>1, <4>2, TextConcat
      <4>4. \A a \in Seq(S) : Has(a \o p, M) <=> Has(a, M) \/ Has(p, M)
            BY TextConcat
      <4>5. Has((j \o <<NewOption>>) \o p, M) <=> Has(j, M) \/ Has(p, M)
            BY <4>1, <4>3, <4>4
      <4> QED BY <3>2, <4>5 DEF With
    <3> QED BY <3>1, <3>2
  <2>5. Has(Joined(t), M) <=> \E i \in 1..Len(t) : Has(t[i], M)
        BY <2>1, <2>2, <2>3, <2>4
  <2> QED BY <2>1, <2>5 DEF t
<1>3. ps \in D
  <2> HIDE DEF D
  <2> QED BY <1>1, <1>2, OfSequences
<1> QED BY <1>3

\* The profiles that are kept are those with more than legacy options.
LEMMA KeptIs ==
    ASSUME NEW S, NEW args \in Seq(S)
    PROVE  /\ Kept(args) \in Seq(Seq(S))
           /\ \A i \in 1..Len(Kept(args)) :
                 /\ Except(Kept(args)[i], AllLegacy) # <<>>
                 /\ \E k \in 1..Len(Profiles(args)) :
                       Kept(args)[i] = Profiles(args)[k]
           /\ \A k \in 1..Len(Profiles(args)) :
                 Except(Profiles(args)[k], AllLegacy) # <<>> =>
                    \E i \in 1..Len(Kept(args)) : Kept(args)[i] = Profiles(args)[k]
<1> DEFINE ps == Profiles(args)
           T == {p \in {ps[i] : i \in DOMAIN ps} : Except(p, AllLegacy) # <<>>}
<1>1. Kept(args) = Where(ps, T)
      BY TextLists DEF Kept
<1>2. ps \in Seq(Seq(S))
      BY ProfilesLaw DEF ProfileLists
<1> HIDE DEF ps
<1>3. \A k \in 1..Len(ps) : ps[k] \in T <=> Except(ps[k], AllLegacy) # <<>>
      BY <1>2
<1>4. \A p \in T : Except(p, AllLegacy) # <<>>
      OBVIOUS
<1> HIDE DEF T
<1>5. /\ Where(ps, T) \in Seq(Seq(S))
      /\ \A i \in 1..Len(Where(ps, T)) :
            Where(ps, T)[i] \in T /\ \E k \in 1..Len(ps) : Where(ps, T)[i] = ps[k]
      /\ \A k \in 1..Len(ps) :
            ps[k] \in T => \E i \in 1..Len(Where(ps, T)) : Where(ps, T)[i] = ps[k]
      BY <1>2, WhereRange
<1> QED BY <1>1, <1>3, <1>4, <1>5 DEF ps

-----------------------------------------------------------------------------
(* What a legacy profile becomes                                           *)

\* The parts of values, and those that native_options adds.
Value == Values \cup {"1", "2", "md5sig", "badseq", "ts"}

LEMMA ValueType == \A o \in Options : o.val \in Seq(Value)
<1>1. \A v \in Seq(Values) : v \in Seq(Value)
      BY DEF Value
<1> QED BY <1>1, TextAssumption DEF WellFormed

\* The modes of a profile are names.
LEMMA ModesType ==
    ASSUME NEW profile \in Seq(Options)
    PROVE  Modes(profile) \in Seq(Value)
<1> DEFINE w == Only(profile, {"--dpi-desync"})
           vals == [i \in DOMAIN w |-> w[i].val]
<1>1. w \in Seq(Options)
      BY TextHas
<1>2. Modes(profile) = FlattenSeq(vals)
      BY TextLists DEF Modes
<1> HIDE DEF w
<1>3. Len(w) \in Nat /\ DOMAIN w = 1..Len(w) /\ \A i \in 1..Len(w) : w[i].val \in Seq(Value)
      BY <1>1, ValueType
<1>4. vals \in [1..Len(w) -> Seq(Value)]
      BY <1>3
<1>5. vals \in Seq(Seq(Value))
      BY <1>3, <1>4, SeqDef
<1> HIDE DEF vals
<1> QED BY <1>2, <1>5, Flattened

\* A value is a sequence.
LEMMA LastValType ==
    ASSUME NEW profile \in Seq(Options), NEW name, NEW default \in Seq(Value)
    PROVE  LastVal(profile, name, default) \in Seq(Value)
<1> DEFINE w == Only(profile, {name})
<1>1. w \in Seq(Options)
      BY TextHas
<1>2. LastVal(profile, name, default) = IF w = <<>> THEN default ELSE w[Len(w)].val
      BY TextLists DEF LastVal
<1> HIDE DEF w
<1>3. w # <<>> => w[Len(w)] \in Options
  <2>1. w # <<>> => Len(w) \in 1..Len(w)
        BY <1>1, EmptySeq
  <2> QED BY <1>1, <2>1
<1> QED BY <1>2, <1>3, ValueType

\* The function of a mode begins with it.
LEMMA FunctionIs ==
    ASSUME NEW profile \in Seq(Options), NEW mode
    PROVE  /\ Function(profile, mode).name = "--lua-desync"
           /\ Function(profile, mode).val[1] = mode
<1> DEFINE pos == LastVal(profile, "--dpi-desync-split-pos", <<"2">>)
           repeats == LastVal(profile, "--dpi-desync-repeats", <<"1">>)
           fooling == LastVal(profile, "--dpi-desync-fooling", <<>>)
           middle == IF mode = "fake" THEN <<PayloadOf(profile)>> ELSE <<Last(pos)>>
           fools == Where(KnownFooling, ToSet(fooling))
           rest == IF mode \in FakeModes THEN repeats \o middle \o fools ELSE pos
           Z == Value \cup {PayloadOf(profile), Last(pos), mode}
<1>1. Function(profile, mode) = Opt("--lua-desync", <<mode>> \o rest)
      BY DEF Function
<1>2. pos \in Seq(Value) /\ repeats \in Seq(Value)
  <2>1. <<"2">> \in Seq(Value) /\ <<"1">> \in Seq(Value)
    <3>1. "2" \in Value /\ "1" \in Value
          BY DEF Value
    <3> QED BY <3>1
  <2> QED BY <2>1, LastValType
<1>3. fools \in Seq(Value)
  <2>1. KnownFooling \in Seq(Value)
    <3>1. "md5sig" \in Value /\ "badseq" \in Value /\ "ts" \in Value
          BY DEF Value
    <3> QED BY <3>1 DEF KnownFooling
  <2>2. \A T : Where(KnownFooling, T) \in Seq(Value)
        BY <2>1, WhereLaw
  <2> QED BY <2>2, TextLists
<1>4. Value \subseteq Z /\ mode \in Z /\ PayloadOf(profile) \in Z /\ Last(pos) \in Z
      OBVIOUS
<1> HIDE DEF pos, repeats, fools, Z
<1>5. pos \in Seq(Z) /\ repeats \in Seq(Z) /\ fools \in Seq(Z) /\ middle \in Seq(Z)
  <2>1. pos \in Seq(Z) /\ repeats \in Seq(Z) /\ fools \in Seq(Z)
        BY <1>2, <1>3, <1>4
  <2>2. middle \in Seq(Z)
        BY <1>4
  <2> QED BY <2>1, <2>2
<1> HIDE DEF middle
<1>6. rest \in Seq(Z)
      BY <1>5
<1> HIDE DEF rest
<1>7. (<<mode>> \o rest)[1] = mode
      BY <1>4, <1>6
<1> QED BY <1>1, <1>7 DEF Opt

\* The options of the native forms of some profiles.
NativeType(ps) ==
    Options \cup {NewOption}
        \cup {Opt("--payload", <<PayloadOf(ps[i])>>) : i \in DOMAIN ps}
        \cup {Function(ps[i], Renamed(m)) : i \in DOMAIN ps, m \in Value}

\* A profile of a legacy text keeps its own options, gets one payload, and a
\* function for each of its modes.
LEMMA ToNativeIs ==
    ASSUME NEW ps, NEW i \in DOMAIN ps, ps[i] \in Seq(Options)
    PROVE  /\ ToNative(ps[i]) \in Seq(NativeType(ps))
           /\ ToNative(ps[i]) # <<>>
           /\ ~ Has(ToNative(ps[i]), AllLegacy)
           /\ ~ Has(ps[i], {"--new"}) => ~ Has(ToNative(ps[i]), {"--new"})
           /\ Has(ps[i], FilterNames) =>
                 Has(ToNative(ps[i]), FilterNames)
           /\ ~ Has(ps[i], NativeNames) =>
                 /\ Except(ToNative(ps[i]), NativeNames)
                       = Except(ps[i], AllLegacy)
                 /\ Len(Only(ToNative(ps[i]), {"--payload"})) = 1
                 /\ LET functions == Only(ToNative(ps[i]), {"--lua-desync"})
                    IN  [k \in DOMAIN functions |-> functions[k].val[1]] =
                        [k \in DOMAIN Modes(ps[i]) |-> Renamed(Modes(ps[i])[k])]
<1> DEFINE p == ps[i]
           U == NativeType(ps)
           modes == Modes(p)
           e == Except(p, AllLegacy)
           load == <<Opt("--payload", <<PayloadOf(p)>>)>>
           fs == [k \in DOMAIN modes |-> Function(p, Renamed(modes[k]))]
<1>1. ToNative(p) = (e \o load) \o fs
      BY DEF ToNative
<1>2. modes \in Seq(Value)
      BY ModesType
<1>3. Options \subseteq U /\ Opt("--payload", <<PayloadOf(p)>>) \in U
      BY DEF NativeType
<1>4. \A m \in Value : Function(p, Renamed(m)) \in U
      BY DEF NativeType
<1> HIDE DEF modes
<1>5. fs \in Seq(U) /\ DOMAIN fs = DOMAIN modes /\ DOMAIN fs = 1..Len(fs)
  <2>1. Len(modes) \in Nat /\ DOMAIN modes = 1..Len(modes) /\ \A k \in 1..Len(modes) : modes[k] \in Value
        BY <1>2
  <2> HIDE DEF U
  <2>2. fs \in [1..Len(modes) -> U]
        BY <1>4, <2>1
  <2>3. fs \in Seq(U)
        BY <2>1, <2>2, SeqDef
  <2> HIDE DEF fs
  <2> QED BY <2>1, <2>2, <2>3
<1>6. \A k \in DOMAIN fs :
          fs[k].name = "--lua-desync" /\ fs[k].val[1] = Renamed(modes[k])
      BY FunctionIs
<1>7. load \in Seq(U) /\ DOMAIN load = {1} /\ load[1].name = "--payload" /\ Len(load) = 1
  <2>1. load \in Seq(U)
        BY <1>3
  <2> QED BY <2>1 DEF Opt
<1> HIDE DEF U, fs, load
<1>8. p \in Seq(U)
      BY <1>3
<1>9. /\ e \in Seq(U) /\ ~ Has(e, AllLegacy)
      /\ \A M : M \cap AllLegacy = {} => (Has(e, M) <=> Has(p, M))
      BY <1>8, TextHas
<1> HIDE DEF e
<1>10. \A M : Has(load, M) <=> "--payload" \in M
       BY <1>7 DEF Has
<1>11. \A M : Has(fs, M) => "--lua-desync" \in M
       BY <1>6 DEF Has
<1> DEFINE el == e \o load
           t == el \o fs
<1>12. /\ el \in Seq(U)
       /\ \A M : /\ Has(el, M) <=> Has(e, M) \/ Has(load, M)
                 /\ Only(el, M) = Only(e, M) \o Only(load, M)
                 /\ Except(el, M) = Except(e, M) \o Except(load, M)
  <2>1. load \in Seq(U) /\ e \in Seq(U)
        BY <1>7, <1>9
  <2> QED BY <2>1, TextConcat
<1> HIDE DEF el
<1>13. /\ t \in Seq(U)
       /\ \A M : /\ Has(t, M) <=> Has(el, M) \/ Has(fs, M)
                 /\ Only(t, M) = Only(el, M) \o Only(fs, M)
                 /\ Except(t, M) = Except(el, M) \o Except(fs, M)
       BY <1>5, <1>12, TextConcat
<1> HIDE DEF t
<1>14. ToNative(p) = t
       BY <1>1 DEF t, el
<1>15. ~ Has(t, AllLegacy)
  <2>1. "--payload" \notin AllLegacy /\ "--lua-desync" \notin AllLegacy
        BY DEF AllLegacy, LegacyNames, Unsupported
  <2> QED BY <1>9, <1>10, <1>11, <1>12, <1>13, <2>1
<1>16. ~ Has(p, {"--new"}) => ~ Has(t, {"--new"})
  <2>1. {"--new"} \cap AllLegacy = {}
        BY DEF AllLegacy, LegacyNames, Unsupported
  <2>2. Has(e, {"--new"}) <=> Has(p, {"--new"})
        BY <1>9, <2>1
  <2> QED BY <1>10, <1>11, <1>12, <1>13, <2>2
<1>17. Has(p, FilterNames) => Has(t, FilterNames)
  <2>1. FilterNames \cap AllLegacy = {}
        BY DEF AllLegacy, LegacyNames, Unsupported, FilterNames
  <2> QED BY <1>9, <1>12, <1>13, <2>1
<1>18. t # <<>>
  <2>1. Has(t, {"--payload"})
        BY <1>10, <1>12, <1>13
  <2> QED BY <2>1 DEF Has
<1>19. ASSUME ~ Has(p, NativeNames)
       PROVE  /\ Except(t, NativeNames) = e
              /\ Only(t, {"--payload"}) = load
              /\ Only(t, {"--lua-desync"}) = fs
  <2>1. NativeNames \cap AllLegacy = {} /\ NativeNames = {"--payload", "--lua-desync"}
        BY DEF AllLegacy, LegacyNames, Unsupported, NativeNames
  <2>2. ~ Has(e, NativeNames) /\ ~ Has(e, {"--payload"}) /\ ~ Has(e, {"--lua-desync"})
    <3>1. ~ Has(e, NativeNames)
          BY <1>9, <1>19, <2>1
    <3> QED BY <2>1, <3>1 DEF Has
  <2>3. /\ Except(e, NativeNames) = e
        /\ Only(e, {"--payload"}) = <<>> /\ Only(e, {"--lua-desync"}) = <<>>
        BY <1>9, <2>2, TextHas
  <2>4. /\ Except(load, NativeNames) = <<>>
        /\ Only(load, {"--payload"}) = load /\ Only(load, {"--lua-desync"}) = <<>>
    <3>1. \A j \in 1..Len(load) : load[j].name \in NativeNames /\ load[j].name \in {"--payload"}
          BY <1>7, <2>1
    <3>2. ~ Has(load, {"--lua-desync"})
          BY <1>10
    <3> QED BY <1>7, <3>1, <3>2, TextHas
  <2>5. /\ Except(fs, NativeNames) = <<>>
        /\ Only(fs, {"--payload"}) = <<>> /\ Only(fs, {"--lua-desync"}) = fs
    <3>1. \A j \in 1..Len(fs) : fs[j].name \in NativeNames /\ fs[j].name \in {"--lua-desync"}
          BY <1>5, <1>6, <2>1
    <3>2. ~ Has(fs, {"--payload"})
          BY <1>11
    <3> QED BY <1>5, <3>1, <3>2, TextHas
  <2>6. /\ e \o <<>> = e /\ <<>> \o <<>> = <<>> /\ <<>> \o load = load /\ load \o <<>> = load
        /\ <<>> \o fs = fs
        BY <1>5, <1>7, <1>9, ConcatEmptySeq
  <2> QED BY <1>12, <1>13, <2>3, <2>4, <2>5, <2>6
<1>20. [k \in DOMAIN fs |-> fs[k].val[1]] = [k \in DOMAIN modes |-> Renamed(modes[k])]
       BY <1>5, <1>6
<1> QED BY <1>7, <1>13, <1>14, <1>15, <1>16, <1>17, <1>18, <1>19, <1>20 DEF e, U, modes

\* The native forms of the profiles of a legacy text, and what they are joined to.
Natives(args) == [i \in DOMAIN Kept(args) |-> ToNative(Kept(args)[i])]

LEMMA LegacyRendered ==
    ASSUME NEW args \in Seq(Options), IsLegacy(args), args # <<>>, NEW p
    PROVE  LET ks == Kept(args)
               ns == Natives(args)
               out == NativeOptions(args, p)
           IN  /\ out = Joined(ns) /\ \E U : out \in Seq(U)
               /\ ~ IsLegacy(out)
               /\ Has(args, FilterNames) => Has(out, FilterNames)
               /\ ks \in Seq(Seq(Options)) /\ Len(ns) = Len(ks)
               /\ ks # <<>> => Profiles(out) = ns
               /\ \A i \in 1..Len(ks) : ~ Has(ks[i], NativeNames)
<1> DEFINE ks == Kept(args)
           ns == Natives(args)
           ps == Profiles(args)
           U == NativeType(ks)
           out == NativeOptions(args, p)
<1>1. out = Joined(ns)
      BY DEF NativeOptions, Natives
<1>2. /\ ks \in Seq(Seq(Options))
      /\ \A i \in 1..Len(ks) : \E k \in 1..Len(ps) : ks[i] = ps[k]
      /\ \A k \in 1..Len(ps) :
            Except(ps[k], AllLegacy) # <<>> => \E i \in 1..Len(ks) : ks[i] = ps[k]
      BY KeptIs
<1>3. ps \in Seq(Seq(Options))
      BY ProfilesLaw DEF ProfileLists
<1>4. ns = [i \in DOMAIN ks |-> ToNative(ks[i])]
      BY DEF Natives
<1>6. NewOption \in U
      BY DEF NativeType
<1>5. /\ "--new" \notin AllLegacy /\ "--new" \notin FilterNames
      /\ "--new" \notin NativeNames /\ FilterNames \cap AllLegacy = {}
      BY DEF AllLegacy, LegacyNames, Unsupported, FilterNames, NativeNames
<1>7. \A i \in 1..Len(ps) : ~ Has(ps[i], {"--new"})
  <2> HIDE DEF ps
  <2> QED BY <1>5, ProfilesHave DEF ps
<1> HIDE DEF out, ns
<1>8. DOMAIN ks = 1..Len(ks) /\ Len(ks) \in Nat
      BY <1>2
<1>9. \A i \in 1..Len(ks) : ks[i] \in Seq(Options) /\ ~ Has(ks[i], {"--new"})
  <2> HIDE DEF ks, ps
  <2> QED BY <1>2, <1>7
<1>10. \A i \in 1..Len(ks) :
          /\ ToNative(ks[i]) \in Seq(U)
          /\ ToNative(ks[i]) # <<>>
          /\ ~ Has(ToNative(ks[i]), AllLegacy)
          /\ ~ Has(ToNative(ks[i]), {"--new"})
          /\ Has(ks[i], FilterNames) =>
                 Has(ToNative(ks[i]), FilterNames)
  <2> SUFFICES ASSUME NEW i \in 1..Len(ks)
               PROVE  /\ ToNative(ks[i]) \in Seq(U)
                      /\ ToNative(ks[i]) # <<>>
                      /\ ~ Has(ToNative(ks[i]), AllLegacy)
                      /\ ~ Has(ToNative(ks[i]), {"--new"})
                      /\ Has(ks[i], FilterNames) =>
                            Has(ToNative(ks[i]), FilterNames)
      OBVIOUS
  <2>1. ks[i] \in Seq(Options) /\ i \in DOMAIN ks /\ ~ Has(ks[i], {"--new"})
        BY <1>8, <1>9
  <2> HIDE DEF ks
  <2> QED BY <2>1, ToNativeIs
<1> HIDE DEF ks, U, ps
<1>11. /\ ns \in Seq(Seq(U)) /\ Len(ns) = Len(ks)
       /\ \A i \in 1..Len(ns) : ns[i] = ToNative(ks[i])
  <2>1. ns \in [1..Len(ks) -> Seq(U)]
        BY <1>4, <1>8, <1>10
  <2>2. ns \in Seq(Seq(U))
        BY <1>8, <2>1, SeqDef
  <2>3. DOMAIN ns = 1..Len(ks) /\ DOMAIN ns = 1..Len(ns) /\ Len(ns) \in Nat
        BY <2>1, <2>2
  <2>4. Len(ns) = Len(ks)
        BY <1>8, <2>3
  <2> QED BY <1>4, <1>8, <2>2, <2>4
<1>12. \A M : "--new" \notin M => (Has(out, M) <=> \E i \in 1..Len(ns) : Has(ns[i], M))
       BY <1>1, <1>6, <1>11, JoinedHas
<1>13. ~ IsLegacy(out)
  <2>1. ~ Has(out, AllLegacy)
        BY <1>5, <1>10, <1>11, <1>12
  <2> QED BY <2>1 DEF IsLegacy
<1>14. ASSUME Has(args, FilterNames) PROVE Has(out, FilterNames)
  <2>1. PICK k \in 1..Len(ps) : Has(ps[k], FilterNames)
        BY <1>5, <1>14, ProfilesHave DEF ps
  <2>2. ps[k] \in Seq(Options)
        BY <1>3
  <2>3. Has(Except(ps[k], AllLegacy), FilterNames)
        BY <1>5, <2>1, <2>2, TextHas
  <2>4. Except(ps[k], AllLegacy) # <<>>
        BY <2>3 DEF Has
  <2>5. PICK i \in 1..Len(ks) : ks[i] = ps[k]
        BY <1>2, <2>4
  <2>6. Has(ns[i], FilterNames)
        BY <1>10, <1>11, <2>1, <2>5
  <2> QED BY <1>5, <1>11, <1>12, <2>6
<1>15. out \in Seq(U)
       BY <1>1, <1>6, <1>11, JoinedLaw
<1>16. ks # <<>> => Profiles(out) = ns
  <2> SUFFICES ASSUME ks # <<>> PROVE Profiles(out) = ns
      OBVIOUS
  <2>1. ns # <<>>
        BY <1>2, <1>11
  <2>2. \A i \in 1..Len(ns) : ns[i] # <<>> /\ ~ Has(ns[i], {"--new"})
        BY <1>10, <1>11
  <2> QED BY <1>1, <1>6, <1>11, <2>1, <2>2, ProfilesOfJoined
<1>17. \A i \in 1..Len(ks) : ~ Has(ks[i], NativeNames)
  <2>1. ~ Has(args, NativeNames)
        BY DEF IsLegacy
  <2>2. \A k \in 1..Len(ps) : ~ Has(ps[k], NativeNames)
        BY <1>5, <2>1, ProfilesHave DEF ps
  <2> QED BY <1>2, <2>2
<1> QED BY <1>1, <1>2, <1>11, <1>13, <1>14, <1>15, <1>16, <1>17 DEF ks, ns, out

\* Whatever text somebody writes, what is rendered of it is native, and rendering
\* that once more changes nothing: native_options does not find a legacy option in
\* what it made of a profile, nor a filter to add.
THEOREM RenderedStaysNative == TextSpec => []RenderedIsNative
<1>1. TextType => RenderedIsNative
  <2> SUFFICES ASSUME TextType, text # <<>>,
                      IsLegacy(text) => Has(text, FilterNames)
               PROVE  StrategyArgs(Args, protocol, noReasm) = Args
      BY DEF RenderedIsNative
  <2> DEFINE out == NativeOptions(text, protocol)
  <2>1. Args = Disabled(out, noReasm)
        BY DEF Args, StrategyArgs
  <2>2. text \in Seq(Options) /\ noReasm \in Seq(ToSet(noReasm))
        BY TextAssumption DEF TextType, WellFormed
  <2>3. /\ \E U : out \in Seq(U)
        /\ ~ IsLegacy(out)
        /\ protocol = "" \/ Has(out, FilterNames)
    <3>1. CASE IsLegacy(text)
          BY <2>2, <3>1, LegacyRendered
    <3>2. CASE ~ IsLegacy(text)
      <4>1. out = Native(text, protocol)
            BY <3>2 DEF NativeOptions
      <4> HIDE DEF out
      <4> QED BY <2>2, <3>2, <4>1, NativeFiltered
    <3> QED BY <3>1, <3>2
  <2> HIDE DEF out
  <2> QED BY <2>1, <2>2, <2>3, NativeStays
<1> QED BY <1>1, TextIsTyped, PTL

\* Whatever legacy text somebody writes, each profile that native_options keeps
\* of it is one of the engine's: with the same options of its own, one payload and
\* the functions of its modes in their order.
THEOREM LegacyKeepsProfiles == TextSpec => []ProfilesKept
<1>1. TextType => ProfilesKept
  <2> SUFFICES ASSUME TextType, IsLegacy(text), Kept(text) # <<>>
               PROVE  LET in == Kept(text)
                          out == Profiles(NativeOptions(text, protocol))
                      IN  /\ Len(out) = Len(in)
                          /\ \A i \in DOMAIN in :
                                /\ Except(out[i], NativeNames)
                                      = Except(in[i], AllLegacy)
                                /\ Len(Only(out[i], {"--payload"})) = 1
                                /\ LET functions == Only(out[i], {"--lua-desync"})
                                   IN  [k \in DOMAIN functions |-> functions[k].val[1]] =
                                       [k \in DOMAIN Modes(in[i]) |->
                                            Renamed(Modes(in[i])[k])]
      BY DEF ProfilesKept
  <2> DEFINE in == Kept(text)
             out == Profiles(NativeOptions(text, protocol))
  <2>1. text \in Seq(Options) /\ text # <<>>
        BY DEF TextType, IsLegacy, Has
  <2>2. /\ out = Natives(text) /\ in \in Seq(Seq(Options)) /\ Len(Natives(text)) = Len(in)
        /\ \A i \in 1..Len(in) : ~ Has(in[i], NativeNames)
        BY <2>1, LegacyRendered
  <2>3. Natives(text) = [i \in DOMAIN in |-> ToNative(in[i])]
        BY DEF Natives
  <2> HIDE DEF in, out
  <2>4. ASSUME NEW i \in DOMAIN in
        PROVE  /\ Except(out[i], NativeNames) = Except(in[i], AllLegacy)
               /\ Len(Only(out[i], {"--payload"})) = 1
               /\ LET functions == Only(out[i], {"--lua-desync"})
                  IN  [k \in DOMAIN functions |-> functions[k].val[1]] =
                      [k \in DOMAIN Modes(in[i]) |-> Renamed(Modes(in[i])[k])]
    <3>1. out[i] = ToNative(in[i])
          BY <2>2, <2>3
    <3>2. in[i] \in Seq(Options) /\ ~ Has(in[i], NativeNames)
          BY <2>2
    <3> QED BY <3>1, <3>2, ToNativeIs
  <2> QED BY <2>2, <2>4 DEF in, out
<1> QED BY <1>1, TextIsTyped, PTL
=============================================================================
