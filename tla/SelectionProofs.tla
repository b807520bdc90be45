-------------------------- MODULE SelectionProofs --------------------------
(***************************************************************************)
(* Facts about Selection, for every sequence.  They rest on induction, in  *)
(* the form the provers can use: over sets instead of predicates.          *)
(***************************************************************************)
EXTENDS Selection, SequenceTheorems, FiniteSetTheorems, WellFoundedInduction, TLAPS

-----------------------------------------------------------------------------
(* Induction *)

\* A set of natural numbers has a least element.
LEMMA LeastElement ==
    ASSUME NEW T, T \subseteq Nat, T # {}
    PROVE  \E x \in T : \A y \in T : x <= y
<1>1. PICK x \in T : \A y \in T : <<y, x>> \notin OpToRel(<, Nat)
  BY WFMin, NatLessThanWellFounded
<1>2. ASSUME NEW y \in T
      PROVE  x <= y
  <2>1. <<y, x>> \notin OpToRel(<, Nat)
    BY <1>1
  <2>2. ~(y < x)
    BY <2>1 DEF OpToRel
  <2> QED
    BY <2>2
<1> QED
  BY <1>2

\* Induction over the natural numbers.
LEMMA SetInduction ==
    ASSUME NEW T, 0 \in T, \A n \in Nat : n \in T => n + 1 \in T
    PROVE  \A n \in Nat : n \in T
<1> SUFFICES ASSUME Nat \ T # {}
             PROVE  FALSE
  OBVIOUS
<1>1. PICK x \in Nat \ T : \A y \in Nat \ T : x <= y
  BY LeastElement
<1>2. x # 0
  BY <1>1
<1>3. x - 1 \in Nat /\ x - 1 \in T
  BY <1>1, <1>2
<1> QED
  BY <1>1, <1>3

\* A sequence is empty or a shorter one with an element appended.
LEMMA SeqSplit ==
    ASSUME NEW T, NEW s \in Seq(T), Len(s) # 0
    PROVE  LET front == SubSeq(s, 1, Len(s) - 1)
           IN  /\ front \in Seq(T) /\ Len(front) = Len(s) - 1
               /\ s[Len(s)] \in T /\ s = Append(front, s[Len(s)])
<1> DEFINE n == Len(s)
           front == SubSeq(s, 1, n - 1)
<1>1. n \in Nat /\ n >= 1 /\ \A i \in 1 .. n : s[i] \in T
  BY LenProperties
<1>2. front \in Seq(T) /\ Len(front) = n - 1 /\ \A i \in 1 .. n - 1 : front[i] = s[i]
  <2>1. 1 \in Int /\ n - 1 \in Int /\ \A i \in 1 .. n - 1 : s[i] \in T
    BY <1>1
  <2>2. /\ front \in Seq(T)
        /\ Len(front) = IF 1 <= n - 1 THEN n - 1 - 1 + 1 ELSE 0
        /\ \A i \in 1 .. n - 1 - 1 + 1 : front[i] = s[1 + i - 1]
    BY <2>1, SubSeqProperties
  <2> HIDE DEF front, n
  <2>3. Len(front) = n - 1
    BY <1>1, <2>2
  <2>4. \A i \in 1 .. n - 1 : front[i] = s[i]
    BY <1>1, <2>2
  <2> QED
    BY <2>2, <2>3, <2>4
<1> HIDE DEF front
<1>3. /\ Append(front, s[n]) \in Seq(T) /\ Len(Append(front, s[n])) = n
      /\ \A i \in 1 .. n : Append(front, s[n])[i] = s[i]
  BY <1>1, <1>2
<1>4. s = Append(front, s[n])
  BY <1>3, SeqEqual
<1> QED
  BY <1>1, <1>2, <1>4 DEF front

\* Induction over sequences.
LEMMA SeqInduction ==
    ASSUME NEW T, NEW P, <<>> \in P,
           \A s \in Seq(T) : s \in P => \A m \in T : Append(s, m) \in P
    PROVE  \A s \in Seq(T) : s \in P
<1> DEFINE Sizes == {n \in Nat : \A s \in Seq(T) : Len(s) = n => s \in P}
<1>1. 0 \in Sizes
  BY EmptySeq
<1>2. ASSUME NEW n \in Nat, n \in Sizes, NEW s \in Seq(T), Len(s) = n + 1
      PROVE  s \in P
  <2> DEFINE front == SubSeq(s, 1, Len(s) - 1)
  <2>1. /\ front \in Seq(T) /\ Len(front) = Len(s) - 1
        /\ s[Len(s)] \in T /\ s = Append(front, s[Len(s)])
    BY <1>2, SeqSplit
  <2> HIDE DEF front
  <2>2. front \in P
    BY <1>2, <2>1
  <2> QED
    BY <2>1, <2>2
<1>3. \A n \in Nat : n \in Sizes => n + 1 \in Sizes
  BY <1>2
<1> HIDE DEF Sizes
<1>4. \A n \in Nat : n \in Sizes
  BY <1>1, <1>3, SetInduction
<1> QED
  BY <1>4, LenProperties DEF Sizes

\* Functions defined by recursion exist,
LEMMA Recursion ==
    ASSUME NEW X, NEW x \in X, NEW n \in Nat, NEW step \in [1 .. n -> [X -> X]]
    PROVE  \E f \in [0 .. n -> X] :
              /\ f[0] = x
              /\ \A i \in 1 .. n : f[i] = step[i][f[i - 1]]
<1> DEFINE Good(k, f) == f[0] = x /\ \A i \in 1 .. k : f[i] = step[i][f[i - 1]]
           T == {k \in Nat : k <= n => \E f \in [0 .. k -> X] : Good(k, f)}
<1>1. 0 \in T
  <2>1. [i \in 0 .. 0 |-> x] \in [0 .. 0 -> X] /\ Good(0, [i \in 0 .. 0 |-> x])
    OBVIOUS
  <2> QED
    BY <2>1
<1>2. ASSUME NEW k \in Nat, k \in T, k + 1 <= n
      PROVE  \E f \in [0 .. k + 1 -> X] : Good(k + 1, f)
  <2>1. PICK f \in [0 .. k -> X] : Good(k, f)
    BY <1>2
  <2> DEFINE g == [i \in 0 .. k + 1 |-> IF i <= k THEN f[i] ELSE step[k + 1][f[k]]]
  <2>2. f[k] \in X /\ k + 1 \in 1 .. n
    BY <1>2
  <2>3. step[k + 1][f[k]] \in X
    BY <2>2
  <2>4. g \in [0 .. k + 1 -> X]
    BY <2>3
  <2>5. ASSUME NEW i \in 1 .. k + 1
        PROVE  g[i] = step[i][g[i - 1]]
    BY <2>1
  <2>6. g[0] = x
    BY <2>1
  <2> HIDE DEF g
  <2> QED
    BY <2>4, <2>5, <2>6
<1>3. ASSUME NEW k \in Nat, k \in T
      PROVE  k + 1 \in T
  <2>1. k + 1 <= n => \E f \in [0 .. k + 1 -> X] : Good(k + 1, f)
    BY <1>2, <1>3
  <2> QED
    BY <2>1
<1> HIDE DEF T
<1>4. n \in T
  BY <1>1, <1>3, SetInduction
<1> QED
  BY <1>4 DEF T

\* (the same, with names for what goes in and what comes out)
Steps(X, x, n, step) == x \in X /\ n \in Nat /\ step \in [1 .. n -> [X -> X]]

Follows(f, X, x, n, step) ==
    /\ f \in [0 .. n -> X]
    /\ f[0] = x
    /\ \A i \in 1 .. n : f[i] = step[i][f[i - 1]]

LEMMA Iteration ==
    ASSUME NEW X, NEW x, NEW n, NEW step, Steps(X, x, n, step)
    PROVE  \E f : Follows(f, X, x, n, step)
<1>1. x \in X /\ n \in Nat /\ step \in [1 .. n -> [X -> X]]
  BY DEF Steps
<1>2. \E f \in [0 .. n -> X] : /\ f[0] = x
                               /\ \A i \in 1 .. n : f[i] = step[i][f[i - 1]]
  BY <1>1, Recursion, SMTT(60)
<1> QED
  BY <1>2 DEF Follows

\* Running totals exist.
LEMMA RunningTotals ==
    ASSUME NEW n \in Nat, NEW t \in [1 .. n -> Nat]
    PROVE  \E f \in [0 .. n -> Nat] : f[0] = 0 /\ \A i \in 1 .. n : f[i] = f[i - 1] + t[i]
<1> DEFINE X == Nat
           x == 0
           step == [i \in 1 .. n |-> [k \in Nat |-> k + t[i]]]
<1>1. step \in [1 .. n -> [Nat -> Nat]]
  <2>1. \A i \in 1 .. n, k \in Nat : k + t[i] \in Nat
    OBVIOUS
  <2> QED
    BY <2>1
<1>2. \A i \in 1 .. n, k \in Nat : step[i][k] = k + t[i]
  OBVIOUS
<1> HIDE DEF step
<1>3. PICK f \in [0 .. n -> X] : /\ f[0] = x
                                 /\ \A i \in 1 .. n : f[i] = step[i][f[i - 1]]
  <2>1. x \in X /\ n \in Nat /\ step \in [1 .. n -> [X -> X]]
    BY <1>1
  <2> HIDE DEF x, X
  <2>2. Steps(X, x, n, step)
    BY <2>1 DEF Steps
  <2>3. PICK f : Follows(f, X, x, n, step)
    BY <2>2, Iteration
  <2> QED
    BY <2>3 DEF Follows
<1>4. \A i \in 1 .. n : f[i] = f[i - 1] + t[i]
  <2>1. \A i \in 1 .. n : i - 1 \in 0 .. n
    OBVIOUS
  <2> QED
    BY <1>2, <1>3, <2>1
<1> QED
  BY <1>3, <1>4

\* and have one value.
Parallel(f, g, n) == \A i \in 1 .. n : f[i - 1] = g[i - 1] => f[i] = g[i]

LEMMA Agreement ==
    ASSUME NEW n \in Nat, NEW f, NEW g, f[0] = g[0], Parallel(f, g, n)
    PROVE  \A i \in 0 .. n : f[i] = g[i]
<1> DEFINE T == {i \in Nat : i <= n => f[i] = g[i]}
<1>1. 0 \in T
  OBVIOUS
<1>2. \A i \in Nat : i \in T => i + 1 \in T
  BY DEF Parallel
<1> HIDE DEF T
<1>3. \A i \in Nat : i \in T
  BY <1>1, <1>2, SetInduction
<1> QED
  BY <1>3 DEF T

\* What every step keeps holds of all values.
LEMMA Invariance ==
    ASSUME NEW n \in Nat, NEW f, NEW X, f[0] \in X,
           \A i \in 1 .. n : f[i - 1] \in X => f[i] \in X
    PROVE  \A i \in 0 .. n : f[i] \in X
<1> DEFINE T == {i \in Nat : i <= n => f[i] \in X}
<1>1. 0 \in T
  OBVIOUS
<1>2. \A i \in Nat : i \in T => i + 1 \in T
  OBVIOUS
<1> HIDE DEF T
<1>3. \A i \in Nat : i \in T
  BY <1>1, <1>2, SetInduction
<1> QED
  BY <1>3 DEF T

-----------------------------------------------------------------------------
(* Selection *)

\* What the recursion of Kept says.
KeptBy(f, s, S) ==
    f = [i \in 0 .. Len(s) |->
            IF i = 0 THEN <<>>
            ELSE IF s[i] \in S THEN Append(f[i - 1], s[i]) ELSE f[i - 1]]

LEMMA KeptSteps ==
    ASSUME NEW f, NEW s, NEW S, Len(s) \in Nat, KeptBy(f, s, S)
    PROVE  /\ f[0] = <<>>
           /\ \A i \in 1 .. Len(s) :
                 f[i] = IF s[i] \in S THEN Append(f[i - 1], s[i]) ELSE f[i - 1]
<1> DEFINE e(i) == IF i = 0 THEN <<>>
                   ELSE IF s[i] \in S THEN Append(f[i - 1], s[i]) ELSE f[i - 1]
<1>1. f = [i \in 0 .. Len(s) |-> e(i)]
  BY DEF KeptBy
<1> HIDE DEF e
<1>2. \A i \in 0 .. Len(s) : f[i] = e(i)
  BY <1>1
<1> QED
  BY <1>2 DEF e

LEMMA KeptRecursion ==
    ASSUME NEW T, NEW s \in Seq(T), NEW S
    PROVE  \E f : /\ KeptBy(f, s, S) /\ Kept(s, S) = f[Len(s)]
                  /\ \A i \in 0 .. Len(s) : f[i] \in Seq(T)
<1> DEFINE X == Seq(T)
           n == Len(s)
           x == <<>>
           step == [i \in 1 .. n |-> [k \in X |-> IF s[i] \in S THEN Append(k, s[i]) ELSE k]]
<1>1. n \in Nat /\ x \in X /\ step \in [1 .. n -> [X -> X]]
  OBVIOUS
<1>2. ASSUME NEW i \in 1 .. n, NEW k \in X
      PROVE  step[i][k] = IF s[i] \in S THEN Append(k, s[i]) ELSE k
  OBVIOUS
<1> HIDE DEF X, x, n, step
<1>3. PICK f : /\ f \in [0 .. n -> X]
               /\ f[0] = x /\ \A i \in 1 .. n : f[i] = step[i][f[i - 1]]
  BY <1>1, Recursion
<1>4. ASSUME NEW i \in 0 .. n
      PROVE  f[i] = IF i = 0 THEN <<>>
                    ELSE IF s[i] \in S THEN Append(f[i - 1], s[i]) ELSE f[i - 1]
  <2>1. CASE i = 0
    BY <1>3, <2>1 DEF x
  <2>2. CASE i # 0
    <3>1. i \in 1 .. n /\ i - 1 \in 0 .. n
      BY <1>1, <2>2
    <3>2. f[i - 1] \in X
      BY <1>3, <3>1
    <3>3. f[i] = step[i][f[i - 1]]
      BY <1>3, <3>1
    <3> QED
      BY <1>2, <2>2, <3>1, <3>2, <3>3
  <2> QED
    BY <2>1, <2>2
<1>5. KeptBy(f, s, S)
  BY <1>3, <1>4 DEF KeptBy, n
<1>6. PICK g : KeptBy(g, s, S) /\ Kept(s, S) = g[n]
  <2> DEFINE h == CHOOSE h : KeptBy(h, s, S)
  <2>1. KeptBy(h, s, S)
    BY <1>5, Zenon
  <2>2. Kept(s, S) = h[n]
    BY Zenon DEF Kept, KeptBy, n
  <2> QED
    BY <2>1, <2>2
<1>7. \A i \in 0 .. n : g[i] = f[i]
  <2>1. g[0] = f[0]
    BY <1>1, <1>5, <1>6, KeptSteps DEF n
  <2>2. Parallel(g, f, n)
    BY <1>1, <1>5, <1>6, KeptSteps DEF n, Parallel
  <2>3. n \in Nat
    BY <1>1
  <2> QED
    BY <2>1, <2>2, <2>3, Agreement
<1>8. Kept(s, S) = f[n] /\ \A i \in 0 .. n : f[i] \in X
  BY <1>1, <1>3, <1>6, <1>7
<1> QED
  BY <1>5, <1>8 DEF n, X

\* Kept grows with its sequence.
LEMMA KeptEmpty ==
    ASSUME NEW S
    PROVE  Kept(<<>>, S) = <<>>
<1>1. PICK f : KeptBy(f, <<>>, S) /\ Kept(<<>>, S) = f[Len(<<>>)]
  BY EmptySeq, KeptRecursion
<1> QED
  BY <1>1 DEF KeptBy

LEMMA KeptAppend ==
    ASSUME NEW T, NEW s \in Seq(T), NEW m \in T, NEW S
    PROVE  Kept(Append(s, m), S) = IF m \in S THEN Append(Kept(s, S), m) ELSE Kept(s, S)
<1> DEFINE t == Append(s, m)
           n == Len(s)
<1>1. /\ t \in Seq(T) /\ Len(t) = n + 1 /\ t[n + 1] = m /\ n \in Nat
      /\ \A i \in 1 .. n : t[i] = s[i]
  OBVIOUS
<1> HIDE DEF t
<1>2. PICK f : KeptBy(f, s, S) /\ Kept(s, S) = f[n]
  BY KeptRecursion
<1>3. PICK g : KeptBy(g, t, S) /\ Kept(t, S) = g[n + 1]
  BY <1>1, KeptRecursion
<1>4. /\ f[0] = <<>>
      /\ \A i \in 1 .. n : f[i] = IF s[i] \in S THEN Append(f[i - 1], s[i]) ELSE f[i - 1]
  BY <1>1, <1>2, KeptSteps
<1>5. /\ g[0] = <<>>
      /\ \A i \in 1 .. n + 1 :
            g[i] = IF t[i] \in S THEN Append(g[i - 1], t[i]) ELSE g[i - 1]
  BY <1>1, <1>3, KeptSteps
<1>6. Parallel(g, f, n)
  BY <1>1, <1>4, <1>5 DEF Parallel
<1> HIDE DEF n
<1>7. \A i \in 0 .. n : g[i] = f[i]
  <2>1. n \in Nat /\ g[0] = f[0]
    BY <1>1, <1>4, <1>5
  <2> QED
    BY <1>6, <2>1, Agreement
<1>8. g[n + 1] = IF m \in S THEN Append(g[n], m) ELSE g[n]
  BY <1>1, <1>5
<1> QED
  BY <1>1, <1>2, <1>3, <1>7, <1>8 DEF t

LEMMA KeptTyped ==
    ASSUME NEW T, NEW s \in Seq(T), NEW S
    PROVE  Kept(s, S) \in Seq(T)
<1>1. PICK f : Kept(s, S) = f[Len(s)] /\ \A i \in 0 .. Len(s) : f[i] \in Seq(T)
  BY KeptRecursion
<1> QED
  BY <1>1, LenProperties

\* at[k] is the place in s of the k-th element of r.
Places(at, r, s, S) ==
    /\ at \in [1 .. Len(r) -> 1 .. Len(s)]
    /\ \A k \in 1 .. Len(r) : r[k] = s[at[k]] /\ r[k] \in S
    /\ \A k, l \in 1 .. Len(r) : k < l => at[k] < at[l]
    /\ \A i \in 1 .. Len(s) : s[i] \in S => \E k \in 1 .. Len(r) : at[k] = i

LEMMA PlacesSkip ==
    ASSUME NEW at, NEW r, NEW s, NEW u, NEW S, Len(r) \in Nat, Len(s) \in Nat,
           Places(at, r, s, S), Len(u) = Len(s) + 1, u[Len(s) + 1] \notin S,
           \A i \in 1 .. Len(s) : u[i] = s[i]
    PROVE  Places(at, r, u, S)
<1> DEFINE n == Len(s)
           k == Len(r)
<1>1. n \in Nat /\ k \in Nat /\ 1 .. n \subseteq 1 .. n + 1
  OBVIOUS
<1>2. /\ at \in [1 .. k -> 1 .. n]
      /\ \A l \in 1 .. k : r[l] = s[at[l]] /\ r[l] \in S
      /\ \A l, j \in 1 .. k : l < j => at[l] < at[j]
      /\ \A i \in 1 .. n : s[i] \in S => \E l \in 1 .. k : at[l] = i
  BY DEF Places
<1>3. \A l \in 1 .. k : at[l] \in 1 .. n
  BY <1>2
<1>4. \A i \in 1 .. n + 1 : u[i] \in S => i \in 1 .. n
  OBVIOUS
<1>5. \A i \in 1 .. n : u[i] = s[i]
  OBVIOUS
<1>6. Len(u) = n + 1
  OBVIOUS
<1> HIDE DEF n, k
<1>7. at \in [1 .. k -> 1 .. n + 1]
  BY <1>1, <1>2
<1>8. \A l \in 1 .. k : r[l] = u[at[l]] /\ r[l] \in S
  BY <1>2, <1>3, <1>5
<1>9. \A i \in 1 .. n + 1 : u[i] \in S => \E l \in 1 .. k : at[l] = i
  BY <1>2, <1>4, <1>5
<1> QED
  BY <1>2, <1>6, <1>7, <1>8, <1>9 DEF Places, k

LEMMA PlacesTake ==
    ASSUME NEW at, NEW r, NEW q, NEW s, NEW u, NEW S, Len(r) \in Nat, Len(s) \in Nat,
           Places(at, r, s, S), Len(u) = Len(s) + 1, u[Len(s) + 1] \in S,
           \A i \in 1 .. Len(s) : u[i] = s[i],
           Len(q) = Len(r) + 1, q[Len(r) + 1] = u[Len(s) + 1],
           \A l \in 1 .. Len(r) : q[l] = r[l]
    PROVE  \E bt : Places(bt, q, u, S)
<1> DEFINE n == Len(s)
           k == Len(r)
           bt == [l \in 1 .. k + 1 |-> IF l <= k THEN at[l] ELSE n + 1]
<1>1. n \in Nat /\ k \in Nat
  OBVIOUS
<1>2. /\ at \in [1 .. k -> 1 .. n]
      /\ \A l \in 1 .. k : r[l] = s[at[l]] /\ r[l] \in S
      /\ \A l, j \in 1 .. k : l < j => at[l] < at[j]
      /\ \A i \in 1 .. n : s[i] \in S => \E l \in 1 .. k : at[l] = i
  BY DEF Places
<1>3. Len(u) = n + 1 /\ u[n + 1] \in S /\ \A i \in 1 .. n : u[i] = s[i]
  OBVIOUS
<1>4. Len(q) = k + 1 /\ q[k + 1] = u[n + 1] /\ \A l \in 1 .. k : q[l] = r[l]
  OBVIOUS
<1> HIDE DEF n, k
<1>5. \A l \in 1 .. k : at[l] \in 1 .. n
  BY <1>2
<1>6. \A l \in 1 .. k : bt[l] = at[l]
  BY <1>1
<1>7. bt[k + 1] = n + 1
  BY <1>1
<1>8. DOMAIN bt = 1 .. k + 1 /\ bt = [l \in 1 .. k + 1 |-> bt[l]]
  OBVIOUS
<1> HIDE DEF bt
<1>9. \A l \in 1 .. k + 1 : l \in 1 .. k \/ l = k + 1
  BY <1>1
<1>10. ASSUME NEW l \in 1 .. k + 1
       PROVE  bt[l] \in 1 .. n + 1
  <2>1. CASE l \in 1 .. k
    <3>1. bt[l] \in 1 .. n
      BY <1>5, <1>6, <2>1
    <3> QED
      BY <1>1, <3>1
  <2>2. CASE l = k + 1
    BY <1>1, <1>7, <2>2
  <2> QED
    BY <1>9, <2>1, <2>2
<1>11. \A l \in 1 .. k + 1 : q[l] = u[bt[l]] /\ q[l] \in S
  BY <1>2, <1>3, <1>4, <1>5, <1>6, <1>7, <1>9
<1>12. ASSUME NEW l \in 1 .. k + 1, NEW j \in 1 .. k + 1, l < j
       PROVE  bt[l] < bt[j]
  <2>1. l \in 1 .. k
    BY <1>1, <1>12
  <2>2. CASE j \in 1 .. k
    BY <1>2, <1>6, <1>12, <2>1, <2>2
  <2>3. CASE j = k + 1
    BY <1>1, <1>5, <1>6, <1>7, <2>1, <2>3
  <2> QED
    BY <1>9, <2>2, <2>3
<1>13. ASSUME NEW i \in 1 .. n + 1, u[i] \in S
       PROVE  \E l \in 1 .. k + 1 : bt[l] = i
  <2>1. CASE i = n + 1
    BY <1>1, <1>7, <2>1
  <2>2. CASE i \in 1 .. n
    <3>1. PICK l \in 1 .. k : at[l] = i
      BY <1>2, <1>3, <1>13, <2>2
    <3> QED
      BY <1>1, <1>6, <3>1
  <2> QED
    BY <1>1, <2>1, <2>2
<1>14. bt \in [1 .. k + 1 -> 1 .. n + 1]
  BY <1>8, <1>10
<1>15. Places(bt, q, u, S)
  BY <1>3, <1>4, <1>11, <1>12, <1>13, <1>14 DEF Places
<1> QED
  BY <1>15

\* Kept takes the elements in S, all of them, one by one and in order.
LEMMA KeptPlaces ==
    ASSUME NEW T, NEW s \in Seq(T), NEW S
    PROVE  \E at : Places(at, Kept(s, S), s, S)
<1> DEFINE P == {t \in Seq(T) : \E at : Places(at, Kept(t, S), t, S)}
<1>1. <<>> \in P
  <2>1. Places([k \in 1 .. 0 |-> 1], <<>>, <<>>, S)
    BY DEF Places
  <2> QED
    BY <2>1, KeptEmpty
<1>2. ASSUME NEW t \in Seq(T), t \in P, NEW m \in T
      PROVE  Append(t, m) \in P
  <2> DEFINE u == Append(t, m)
             n == Len(t)
             r == Kept(t, S)
  <2>1. /\ u \in Seq(T) /\ Len(u) = n + 1 /\ u[n + 1] = m /\ n \in Nat
        /\ \A i \in 1 .. n : u[i] = t[i]
    OBVIOUS
  <2>2. r \in Seq(T) /\ Len(r) \in Nat
    BY KeptTyped, LenProperties
  <2>3. PICK at : Places(at, r, t, S)
    BY <1>2
  <2>4. Kept(u, S) = IF m \in S THEN Append(r, m) ELSE r
    BY KeptAppend
  <2> HIDE DEF u, r
  <2>5. \E bt : Places(bt, Kept(u, S), u, S)
    <3>1. CASE m \notin S
      <4>1. Places(at, r, u, S)
        BY <2>1, <2>2, <2>3, <3>1, PlacesSkip
      <4> QED
        BY <2>4, <3>1, <4>1
    <3>2. CASE m \in S
      <4> DEFINE q == Append(r, m)
      <4>1. /\ Len(q) = Len(r) + 1 /\ q[Len(r) + 1] = m
            /\ \A l \in 1 .. Len(r) : q[l] = r[l]
        BY <2>2
      <4> HIDE DEF q
      <4>2. Len(u) = Len(t) + 1 /\ u[Len(t) + 1] \in S /\ q[Len(r) + 1] = u[Len(t) + 1]
        BY <2>1, <3>2, <4>1
      <4>3. \A i \in 1 .. Len(t) : u[i] = t[i]
        BY <2>1
      <4>4. Len(t) \in Nat /\ Len(r) \in Nat
        BY <2>1, <2>2
      <4>5. \E bt : Places(bt, q, u, S)
        BY <2>3, <4>1, <4>2, <4>3, <4>4, PlacesTake
      <4> QED
        BY <2>4, <3>2, <4>5 DEF q
    <3> QED
      BY <3>1, <3>2
  <2>6. u \in P
    BY <2>1, <2>5
  <2> QED
    BY <2>6 DEF u
<1> HIDE DEF P
<1>3. \A t \in Seq(T) : t \in P
  BY <1>1, <1>2, SeqInduction
<1> QED
  BY <1>3 DEF P

LEMMA KeptAll ==
    ASSUME NEW T, NEW S, T \subseteq S, NEW s \in Seq(T)
    PROVE  Kept(s, S) = s
<1> DEFINE P == {t \in Seq(T) : Kept(t, S) = t}
<1>1. <<>> \in P
  BY KeptEmpty
<1>2. ASSUME NEW t \in Seq(T), t \in P, NEW m \in T
      PROVE  Append(t, m) \in P
  <2>1. Kept(Append(t, m), S) = Append(Kept(t, S), m)
    BY KeptAppend
  <2> QED
    BY <1>2, <2>1
<1> HIDE DEF P
<1>3. \A t \in Seq(T) : t \in P
  BY <1>1, <1>2, SeqInduction
<1> QED
  BY <1>3 DEF P

LEMMA KeptNone ==
    ASSUME NEW T, NEW S, T \cap S = {}, NEW s \in Seq(T)
    PROVE  Kept(s, S) = <<>>
<1> DEFINE P == {t \in Seq(T) : Kept(t, S) = <<>>}
<1>1. <<>> \in P
  BY KeptEmpty
<1>2. ASSUME NEW t \in Seq(T), t \in P, NEW m \in T
      PROVE  Append(t, m) \in P
  <2>1. m \notin S
    OBVIOUS
  <2>2. Kept(Append(t, m), S) = Kept(t, S)
    BY <2>1, KeptAppend
  <2>3. Append(t, m) \in Seq(T)
    OBVIOUS
  <2> QED
    BY <1>2, <2>2, <2>3
<1> HIDE DEF P
<1>3. \A t \in Seq(T) : t \in P
  BY <1>1, <1>2, SeqInduction
<1> QED
  BY <1>3 DEF P

\* Only the elements that s can have matter.
LEMMA KeptSame ==
    ASSUME NEW T, NEW S, NEW R, T \cap S = T \cap R, NEW s \in Seq(T)
    PROVE  Kept(s, S) = Kept(s, R)
<1> DEFINE P == {t \in Seq(T) : Kept(t, S) = Kept(t, R)}
<1>1. <<>> \in P
  BY KeptEmpty
<1>2. ASSUME NEW t \in Seq(T), t \in P, NEW m \in T
      PROVE  Append(t, m) \in P
  <2>1. m \in S <=> m \in R
    OBVIOUS
  <2>2. Kept(t, S) = Kept(t, R)
    BY <1>2
  <2>3. /\ Kept(Append(t, m), S) = IF m \in S THEN Append(Kept(t, S), m) ELSE Kept(t, S)
        /\ Kept(Append(t, m), R) = IF m \in R THEN Append(Kept(t, R), m) ELSE Kept(t, R)
    BY KeptAppend
  <2>4. Append(t, m) \in Seq(T)
    OBVIOUS
  <2> QED
    BY <2>1, <2>2, <2>3, <2>4
<1> HIDE DEF P
<1>3. \A t \in Seq(T) : t \in P
  BY <1>1, <1>2, SeqInduction
<1> QED
  BY <1>3 DEF P

\* Two conditions, one after the other.
LEMMA KeptTwice ==
    ASSUME NEW T, NEW S, NEW R, NEW s \in Seq(T)
    PROVE  Kept(Kept(s, S), R) = Kept(s, S \cap R)
<1> DEFINE P == {t \in Seq(T) : Kept(Kept(t, S), R) = Kept(t, S \cap R)}
<1>1. <<>> \in P
  BY KeptEmpty
<1>2. ASSUME NEW t \in Seq(T), t \in P, NEW m \in T
      PROVE  Append(t, m) \in P
  <2> DEFINE k == Kept(t, S)
  <2>1. k \in Seq(T) /\ Kept(k, R) = Kept(t, S \cap R)
    BY <1>2, KeptTyped
  <2>2. /\ Kept(Append(t, m), S) = IF m \in S THEN Append(k, m) ELSE k
        /\ Kept(Append(t, m), S \cap R)
              = IF m \in S \cap R THEN Append(Kept(t, S \cap R), m) ELSE Kept(t, S \cap R)
    BY KeptAppend
  <2> HIDE DEF k
  <2>3. Kept(Append(k, m), R) = IF m \in R THEN Append(Kept(k, R), m) ELSE Kept(k, R)
    BY <2>1, KeptAppend
  <2>4. Kept(Kept(Append(t, m), S), R) = Kept(Append(t, m), S \cap R)
    <3>1. CASE m \in S
      <4>1. Kept(Kept(Append(t, m), S), R) = IF m \in R THEN Append(Kept(k, R), m) ELSE Kept(k, R)
        BY <2>2, <2>3, <3>1
      <4>2. m \in S \cap R <=> m \in R
        BY <3>1
      <4> QED
        BY <2>1, <2>2, <4>1, <4>2, Zenon
    <3>2. CASE m \notin S
      BY <2>1, <2>2, <3>2
    <3> QED
      BY <3>1, <3>2
  <2>5. Append(t, m) \in Seq(T)
    OBVIOUS
  <2> QED
    BY <2>4, <2>5
<1> HIDE DEF P
<1>3. \A t \in Seq(T) : t \in P
  BY <1>1, <1>2, SeqInduction
<1> QED
  BY <1>3 DEF P

LEMMA AppendToConcat ==
    ASSUME NEW T, NEW s \in Seq(T), NEW t \in Seq(T), NEW m \in T
    PROVE  s \o Append(t, m) = Append(s \o t, m)
<1> DEFINE k == Len(s)
           l == Len(t)
           u == Append(t, m)
           v == s \o t
           x == s \o u
           y == Append(v, m)
<1>1. k \in Nat /\ l \in Nat
  OBVIOUS
<1>2. /\ u \in Seq(T) /\ Len(u) = l + 1 /\ u[l + 1] = m
      /\ \A i \in 1 .. l : u[i] = t[i]
  OBVIOUS
<1>3. /\ v \in Seq(T) /\ Len(v) = k + l
      /\ \A i \in 1 .. k + l : v[i] = IF i <= k THEN s[i] ELSE t[i - k]
  BY ConcatProperties
<1> HIDE DEF u, v
<1>4. /\ x \in Seq(T) /\ Len(x) = k + Len(u)
      /\ \A i \in 1 .. k + Len(u) : x[i] = IF i <= k THEN s[i] ELSE u[i - k]
  BY <1>2, ConcatProperties
<1>5. /\ y \in Seq(T) /\ Len(y) = k + l + 1 /\ y[k + l + 1] = m
      /\ \A i \in 1 .. k + l : y[i] = v[i]
  BY <1>1, <1>3
<1> HIDE DEF x, y, k, l
<1>6. ASSUME NEW i \in 1 .. k + l + 1
      PROVE  x[i] = y[i]
  <2>1. x[i] = IF i <= k THEN s[i] ELSE u[i - k]
    BY <1>1, <1>2, <1>4
  <2>2. CASE i <= k
    BY <1>1, <1>3, <1>5, <2>1, <2>2
  <2>3. CASE i = k + l + 1
    BY <1>1, <1>2, <1>5, <2>1, <2>3
  <2>4. CASE i > k /\ i <= k + l
    <3>1. i - k \in 1 .. l /\ i \in 1 .. k + l
      BY <1>1, <2>4
    <3> QED
      BY <1>1, <1>2, <1>3, <1>5, <2>1, <2>4, <3>1
  <2> QED
    BY <1>1, <2>2, <2>3, <2>4
<1>7. Len(x) = k + l + 1
  BY <1>1, <1>2, <1>4
<1>8. x = y
  BY <1>4, <1>5, <1>6, <1>7, SeqEqual
<1> QED
  BY <1>8 DEF x, y, u, v

LEMMA KeptConcat ==
    ASSUME NEW T, NEW S, NEW s \in Seq(T), NEW t \in Seq(T)
    PROVE  Kept(s \o t, S) = Kept(s, S) \o Kept(t, S)
<1> DEFINE P == {u \in Seq(T) : Kept(s \o u, S) = Kept(s, S) \o Kept(u, S)}
<1>1. <<>> \in P
  BY KeptEmpty, KeptTyped, ConcatEmptySeq
<1>2. ASSUME NEW u \in Seq(T), u \in P, NEW m \in T
      PROVE  Append(u, m) \in P
  <2> DEFINE k == Kept(s, S)
             l == Kept(u, S)
  <2>1. k \in Seq(T) /\ l \in Seq(T) /\ Kept(s \o u, S) = k \o l
    BY <1>2, KeptTyped
  <2>2. s \o u \in Seq(T) /\ s \o Append(u, m) = Append(s \o u, m)
    BY AppendToConcat, ConcatProperties
  <2>3. Kept(Append(u, m), S) = IF m \in S THEN Append(l, m) ELSE l
    BY KeptAppend
  <2> HIDE DEF k, l
  <2>4. Kept(s \o Append(u, m), S) = IF m \in S THEN Append(k \o l, m) ELSE k \o l
    <3>1. Kept(Append(s \o u, m), S)
             = IF m \in S THEN Append(Kept(s \o u, S), m) ELSE Kept(s \o u, S)
      BY <2>2, KeptAppend
    <3> QED
      BY <2>1, <2>2, <3>1
  <2>5. k \o Append(l, m) = Append(k \o l, m)
    BY <2>1, AppendToConcat
  <2>6. Kept(s \o Append(u, m), S) = k \o Kept(Append(u, m), S)
    BY <2>3, <2>4, <2>5
  <2>7. Append(u, m) \in Seq(T)
    OBVIOUS
  <2> QED
    BY <2>6, <2>7 DEF k
<1> HIDE DEF P
<1>3. \A u \in Seq(T) : u \in P
  BY <1>1, <1>2, SeqInduction
<1> QED
  BY <1>3 DEF P

\* At most one element is left out, so the rest is at most one shorter.
LEMMA KeptButOne ==
    ASSUME NEW T, NEW S, NEW s \in Seq(T),
           \A i, j \in 1 .. Len(s) : s[i] \notin S /\ s[j] \notin S => i = j
    PROVE  Len(Kept(s, S)) >= Len(s) - 1
<1> DEFINE Once(t) == \A i, j \in 1 .. Len(t) : t[i] \notin S /\ t[j] \notin S => i = j
           P == {t \in Seq(T) : Once(t) => Len(Kept(t, S)) >= Len(t) - 1}
<1>1. <<>> \in P
  BY KeptEmpty
<1>2. ASSUME NEW t \in Seq(T), t \in P, NEW m \in T
      PROVE  Append(t, m) \in P
  <2> DEFINE u == Append(t, m)
             n == Len(t)
  <2>1. /\ u \in Seq(T) /\ Len(u) = n + 1 /\ u[n + 1] = m /\ n \in Nat
        /\ \A i \in 1 .. n : u[i] = t[i]
    OBVIOUS
  <2>2. Kept(t, S) \in Seq(T) /\ Len(Kept(t, S)) \in Nat
    BY KeptTyped, LenProperties
  <2>3. Kept(u, S) = IF m \in S THEN Append(Kept(t, S), m) ELSE Kept(t, S)
    BY KeptAppend
  <2> HIDE DEF u
  <2>4. ASSUME Once(u)
        PROVE  Len(Kept(u, S)) >= Len(u) - 1
    <3>1. CASE m \in S
      <4>1. Once(t)
        BY <2>1, <2>4
      <4>2. Len(Kept(t, S)) >= n - 1
        BY <1>2, <4>1
      <4>3. Len(Append(Kept(t, S), m)) = Len(Kept(t, S)) + 1
        BY <2>2
      <4> QED
        BY <2>1, <2>2, <2>3, <3>1, <4>2, <4>3
    <3>2. CASE m \notin S
      <4>1. \A i \in 1 .. n : t[i] \in S
        BY <2>1, <2>4, <3>2
      <4>2. t \in Seq(S)
        BY <4>1, LenProperties
      <4>3. Kept(t, S) = t
        BY <4>2, KeptAll
      <4> QED
        BY <2>1, <2>3, <3>2, <4>3
    <3> QED
      BY <3>1, <3>2
  <2>5. u \in P
    BY <2>1, <2>4
  <2> QED
    BY <2>5 DEF u
<1> HIDE DEF P
<1>3. \A t \in Seq(T) : t \in P
  BY <1>1, <1>2, SeqInduction
<1> QED
  BY <1>3 DEF P

-----------------------------------------------------------------------------
(* The newest rows *)

\* There are n when there are enough,
LEMMA NewestEnough ==
    ASSUME NEW T, NEW s \in Seq(T), NEW n \in Nat, Len(s) >= n
    PROVE  /\ Newest(s, n) \in Seq(T) /\ Len(Newest(s, n)) = n
           /\ \A i \in 1 .. n : Newest(s, n)[i] = s[Len(s) - n + i]
<1> DEFINE l == Len(s)
           m == l - n + 1
           r == SubSeq(s, m, l)
<1>1. /\ l \in Nat /\ m \in Int /\ m >= 1 /\ l - m + 1 = n
      /\ m = IF l > n THEN l - n + 1 ELSE 1
  OBVIOUS
<1>2. \A i \in m .. l : s[i] \in T
  BY <1>1, LenProperties
<1>3. Newest(s, n) = r
  BY <1>1, Zenon DEF Newest
<1>4. /\ r \in Seq(T)
      /\ Len(r) = IF m <= l THEN l - m + 1 ELSE 0
      /\ \A i \in 1 .. l - m + 1 : r[i] = s[m + i - 1]
  BY <1>1, <1>2, SubSeqProperties
<1>5. \A i \in 1 .. n : m + i - 1 = l - n + i
  BY <1>1
<1> HIDE DEF r, l, m
<1>6. Len(r) = n
  BY <1>1, <1>4
<1>7. \A i \in 1 .. n : r[i] = s[l - n + i]
  BY <1>1, <1>4, <1>5
<1>8. /\ Newest(s, n) \in Seq(T) /\ Len(Newest(s, n)) = n
      /\ \A i \in 1 .. n : Newest(s, n)[i] = s[l - n + i]
  BY <1>3, <1>4, <1>6, <1>7
<1> QED
  BY <1>8 DEF l

\* and all when there are not.
LEMMA NewestWhole ==
    ASSUME NEW T, NEW s \in Seq(T), NEW n \in Nat, Len(s) <= n
    PROVE  Newest(s, n) = s
<1> DEFINE l == Len(s)
           r == SubSeq(s, 1, l)
<1>1. l \in Nat /\ l - 1 + 1 = l
  OBVIOUS
<1>2. \A i \in 1 .. l : s[i] \in T
  BY <1>1, LenProperties
<1>3. Newest(s, n) = r
  <2>1. (IF Len(s) > n THEN Len(s) - n + 1 ELSE 1) = 1
    BY <1>1
  <2> QED
    BY <2>1, Zenon DEF Newest
<1>4. /\ r \in Seq(T)
      /\ Len(r) = IF 1 <= l THEN l - 1 + 1 ELSE 0
      /\ \A i \in 1 .. l - 1 + 1 : r[i] = s[1 + i - 1]
  BY <1>1, <1>2, SubSeqProperties
<1> HIDE DEF r
<1>5. Len(r) = l /\ \A i \in 1 .. l : r[i] = s[i]
  <2>1. Len(r) = l
    BY <1>1, <1>4
  <2>2. \A i \in 1 .. l : 1 + i - 1 = i
    BY <1>1
  <2> QED
    BY <1>1, <1>4, <2>1, <2>2
<1> QED
  BY <1>3, <1>4, <1>5, SeqEqual

LEMMA NewestTyped ==
    ASSUME NEW T, NEW s \in Seq(T), NEW n \in Nat
    PROVE  Newest(s, n) \in Seq(T) /\ Len(Newest(s, n)) <= n
<1>1. Len(s) \in Nat
  OBVIOUS
<1>2. CASE Len(s) >= n
  BY <1>2, NewestEnough
<1>3. CASE Len(s) <= n
  BY <1>3, NewestWhole
<1> QED
  BY <1>1, <1>2, <1>3

LEMMA NewestElements ==
    ASSUME NEW T, NEW s \in Seq(T), NEW n \in Nat
    PROVE  \A i \in 1 .. Len(Newest(s, n)) : \E j \in 1 .. Len(s) : Newest(s, n)[i] = s[j]
<1> DEFINE r == Newest(s, n)
<1>1. CASE Len(s) >= n
  <2>1. Len(r) = n /\ \A i \in 1 .. n : r[i] = s[Len(s) - n + i]
    BY <1>1, NewestEnough
  <2>2. \A i \in 1 .. n : Len(s) - n + i \in 1 .. Len(s)
    BY <1>1
  <2> HIDE DEF r
  <2>3. \A i \in 1 .. Len(r) : \E j \in 1 .. Len(s) : r[i] = s[j]
    BY <2>1, <2>2
  <2> QED
    BY <2>3 DEF r
<1>2. CASE Len(s) <= n
  BY <1>2, NewestWhole
<1> QED
  BY <1>1, <1>2, LenProperties

\* Something comes before the newest ones.
LEMMA NewestSplit ==
    ASSUME NEW T, NEW s \in Seq(T), NEW n \in Nat, Len(s) > n
    PROVE  \E t \in Seq(T) : s = t \o Newest(s, n)
<1> DEFINE l == Len(s)
           r == Newest(s, n)
           t == SubSeq(s, 1, l - n)
<1>1. l \in Nat /\ l - n \in Nat /\ l - n >= 1
  OBVIOUS
<1>2. r \in Seq(T) /\ Len(r) = n /\ \A i \in 1 .. n : r[i] = s[l - n + i]
  BY <1>1, NewestEnough
<1> HIDE DEF r
<1>3. t \in Seq(T) /\ Len(t) = l - n /\ \A i \in 1 .. l - n : t[i] = s[i]
  <2>1. \A i \in 1 .. l - n : s[i] \in T
    BY <1>1, LenProperties
  <2>2. /\ t \in Seq(T) /\ Len(t) = IF 1 <= l - n THEN l - n - 1 + 1 ELSE 0
        /\ \A i \in 1 .. l - n - 1 + 1 : t[i] = s[1 + i - 1]
    BY <1>1, <2>1, SubSeqProperties
  <2> HIDE DEF t, l
  <2>3. Len(t) = l - n
    BY <1>1, <2>2
  <2>4. \A i \in 1 .. l - n : t[i] = s[i]
    BY <1>1, <2>2
  <2> QED
    BY <2>2, <2>3, <2>4
<1> HIDE DEF t
<1>4. /\ t \o r \in Seq(T) /\ Len(t \o r) = Len(t) + Len(r)
      /\ \A i \in 1 .. Len(t) + Len(r) :
            (t \o r)[i] = IF i <= Len(t) THEN t[i] ELSE r[i - Len(t)]
  BY <1>2, <1>3, ConcatProperties
<1>5. Len(t) + Len(r) = l
  BY <1>1, <1>2, <1>3
<1>6. ASSUME NEW i \in 1 .. l
      PROVE  s[i] = (t \o r)[i]
  <2>1. (t \o r)[i] = IF i <= l - n THEN t[i] ELSE r[i - (l - n)]
    BY <1>3, <1>4, <1>5
  <2>2. CASE i <= l - n
    BY <1>1, <1>3, <2>1, <2>2
  <2>3. CASE i > l - n
    <3> DEFINE j == i - (l - n)
    <3>1. j \in 1 .. n /\ l - n + j = i /\ ~(i <= l - n)
      BY <1>1, <2>3
    <3>2. (t \o r)[i] = r[j]
      BY <2>1, <3>1
    <3> HIDE DEF j
    <3>3. r[j] = s[l - n + j]
      BY <1>2, <3>1
    <3> QED
      BY <3>1, <3>2, <3>3
  <2>4. i <= l - n \/ i > l - n
    BY <1>1
  <2> QED
    BY <2>2, <2>3, <2>4
<1>7. s = t \o r
  BY <1>4, <1>5, <1>6, SeqEqual
<1> QED
  BY <1>3, <1>7 DEF r

\* What comes before a sequence that is long enough does not matter.
LEMMA NewestOfConcat ==
    ASSUME NEW T, NEW s \in Seq(T), NEW t \in Seq(T), NEW n \in Nat, Len(t) >= n
    PROVE  Newest(s \o t, n) = Newest(t, n)
<1> DEFINE u == s \o t
           k == Len(s)
           l == Len(t)
           x == Newest(u, n)
           y == Newest(t, n)
<1>1. k \in Nat /\ l \in Nat /\ l >= n
  OBVIOUS
<1>2. /\ u \in Seq(T) /\ Len(u) = k + l
      /\ \A i \in 1 .. k + l : u[i] = IF i <= k THEN s[i] ELSE t[i - k]
  BY ConcatProperties
<1> HIDE DEF u
<1>3. x \in Seq(T) /\ Len(x) = n /\ \A i \in 1 .. n : x[i] = u[Len(u) - n + i]
  <2>1. Len(u) >= n /\ u \in Seq(T)
    BY <1>1, <1>2
  <2> QED
    BY <2>1, NewestEnough
<1>4. y \in Seq(T) /\ Len(y) = n /\ \A i \in 1 .. n : y[i] = t[l - n + i]
  BY <1>1, NewestEnough
<1> HIDE DEF x, y, k, l
<1>5. ASSUME NEW i \in 1 .. n
      PROVE  x[i] = y[i]
  <2> DEFINE j == Len(u) - n + i
  <2>1. j \in 1 .. k + l /\ ~(j <= k) /\ j - k = l - n + i
    BY <1>1, <1>2
  <2>2. x[i] = u[j]
    BY <1>3
  <2> HIDE DEF j
  <2>3. u[j] = t[j - k]
    BY <1>2, <2>1
  <2> QED
    BY <1>4, <2>1, <2>2, <2>3
<1>6. x = y
  BY <1>3, <1>4, <1>5, SeqEqual
<1> QED
  BY <1>6 DEF x, y, u

\* The n newest of the elements in S are found among the n + 1 newest elements, when
\* at most one is not in S.
LEMMA NewestOfKept ==
    ASSUME NEW T, NEW S, NEW s \in Seq(T), NEW n \in Nat,
           \A i, j \in 1 .. Len(s) : s[i] \notin S /\ s[j] \notin S => i = j
    PROVE  Newest(Kept(Newest(s, n + 1), S), n) = Newest(Kept(s, S), n)
<1> DEFINE r == Newest(s, n + 1)
           l == Len(s)
<1>1. l \in Nat
  OBVIOUS
<1>2. CASE l <= n + 1
  BY <1>2, NewestWhole
<1>3. CASE l > n + 1
  <2>1. n + 1 \in Nat /\ Len(s) > n + 1 /\ Len(s) >= n + 1
    BY <1>1, <1>3
  <2>2. /\ r \in Seq(T) /\ Len(r) = n + 1
        /\ \A i \in 1 .. n + 1 : r[i] = s[l - (n + 1) + i]
    BY <2>1, NewestEnough
  <2>3. PICK t \in Seq(T) : s = t \o r
    BY <2>1, NewestSplit
  <2> HIDE DEF r
  <2>4. ASSUME NEW i \in 1 .. n + 1, NEW j \in 1 .. n + 1, r[i] \notin S, r[j] \notin S
        PROVE  i = j
    <3>1. /\ l - (n + 1) + i \in 1 .. l /\ l - (n + 1) + j \in 1 .. l
          /\ l - (n + 1) + i = l - (n + 1) + j => i = j
      BY <1>1, <1>3
    <3> QED
      BY <2>2, <2>4, <3>1
  <2>5. Len(Kept(r, S)) >= Len(r) - 1
    BY <2>2, <2>4, KeptButOne
  <2>6. Kept(t, S) \in Seq(T) /\ Kept(r, S) \in Seq(T)
    BY <2>2, KeptTyped
  <2>7. Kept(s, S) = Kept(t, S) \o Kept(r, S)
    BY <2>2, <2>3, KeptConcat
  <2>8. Len(Kept(r, S)) >= n
    BY <2>2, <2>5
  <2>9. Newest(Kept(t, S) \o Kept(r, S), n) = Newest(Kept(r, S), n)
    BY <2>6, <2>8, NewestOfConcat
  <2> QED
    BY <2>7, <2>9 DEF r
<1> QED
  BY <1>1, <1>2, <1>3

-----------------------------------------------------------------------------
(* Sorting *)

\* before is a strict order of the elements of S.
StrictOrder(S, before) ==
    /\ \A c \in S : <<c, c>> \notin before
    /\ \A c, d \in S : c # d => <<c, d>> \in before \/ <<d, c>> \in before
    /\ \A b, c, d \in S : <<b, c>> \in before /\ <<c, d>> \in before => <<b, d>> \in before

\* A sorted finite set has all its elements, each once, and in the order.
LEMMA SortedInOrder ==
    ASSUME NEW S, IsFiniteSet(S), NEW before, StrictOrder(S, before)
    PROVE  LET s == Sorted(S, before)
           IN  /\ s \in Seq(S) /\ Len(s) = Cardinality(S)
               /\ \A c \in S : \E i \in 1 .. Len(s) : s[i] = c
               /\ \A i, j \in 1 .. Len(s) : s[i] = s[j] => i = j
               /\ \A i, j \in 1 .. Len(s) : <<s[i], s[j]>> \in before => i < j
<1> DEFINE n == Cardinality(S)
           earlier(c) == {d \in S : <<d, c>> \in before}
           size(c) == Cardinality(earlier(c))
           place == [c \in S |-> size(c) + 1]
<1>1. n \in Nat
  BY FS_CardinalityType
<1>2. ASSUME NEW c \in S
      PROVE  IsFiniteSet(earlier(c)) /\ Cardinality(earlier(c)) \in Nat /\ Cardinality(earlier(c)) < n
  <2>1. earlier(c) \in SUBSET S /\ earlier(c) # S
    BY DEF StrictOrder
  <2> HIDE DEF earlier
  <2>2. /\ IsFiniteSet(earlier(c)) /\ Cardinality(earlier(c)) <= n
        /\ n = Cardinality(earlier(c)) => S = earlier(c)
    BY <2>1, FS_Subset
  <2>3. Cardinality(earlier(c)) \in Nat
    BY <2>2, FS_CardinalityType
  <2> QED
    BY <1>1, <2>1, <2>2, <2>3
<1>3. ASSUME NEW c \in S, NEW d \in S, <<c, d>> \in before
      PROVE  Cardinality(earlier(c)) < Cardinality(earlier(d))
  <2>1. earlier(c) \in SUBSET earlier(d) /\ c \in earlier(d) /\ c \notin earlier(c)
    BY <1>3 DEF StrictOrder
  <2>2. IsFiniteSet(earlier(d)) /\ Cardinality(earlier(d)) \in Nat /\ Cardinality(earlier(c)) \in Nat
    BY <1>2
  <2> HIDE DEF earlier
  <2>3. /\ Cardinality(earlier(c)) <= Cardinality(earlier(d))
        /\ Cardinality(earlier(d)) = Cardinality(earlier(c)) => earlier(d) = earlier(c)
    BY <2>1, <2>2, FS_Subset
  <2> QED
    BY <2>1, <2>2, <2>3
<1>4. \A c \in S : size(c) \in Nat /\ size(c) < n
  BY <1>2
<1>5. \A c, d \in S : <<c, d>> \in before => size(c) < size(d)
  BY <1>3
<1> HIDE DEF size, n
<1>6. \A c \in S : place[c] = size(c) + 1
  OBVIOUS
<1>7. place \in [S -> 1 .. n]
  BY <1>1, <1>4
<1> HIDE DEF place
<1>8. \A c, d \in S : place[c] = place[d] => c = d
  <2> SUFFICES ASSUME NEW c \in S, NEW d \in S, place[c] = place[d], c # d
               PROVE  FALSE
    OBVIOUS
  <2>1. <<c, d>> \in before \/ <<d, c>> \in before
    BY DEF StrictOrder
  <2>2. size(c) \in Nat /\ size(d) \in Nat /\ size(c) = size(d)
    BY <1>4, <1>6
  <2> QED
    BY <1>5, <2>1, <2>2
<1>9. place \in Injection(S, 1 .. n)
  BY <1>7, <1>8 DEF Injection, IsInjective
<1>10. IsFiniteSet(1 .. n) /\ Cardinality(1 .. n) = n
  BY <1>1, FS_Interval
<1>11. \A i \in 1 .. n : \E c \in S : place[c] = i
  <2>1. place \in Surjection(S, 1 .. n)
    BY <1>9, <1>10, FS_Injection DEF n
  <2> QED
    BY <2>1 DEF Surjection
<1> DEFINE s == [i \in 1 .. n |-> CHOOSE c \in S : size(c) = i - 1]
<1>12. s = Sorted(S, before)
  BY DEF Sorted, size, n
<1>13. ASSUME NEW i \in 1 .. n
       PROVE  s[i] \in S /\ place[s[i]] = i
  <2>1. \E c \in S : size(c) = i - 1
    <3>1. PICK c \in S : place[c] = i
      BY <1>11
    <3> QED
      BY <1>4, <1>6, <3>1
  <2> DEFINE x == CHOOSE c \in S : size(c) = i - 1
  <2>2. x \in S /\ size(x) = i - 1
    BY <2>1
  <2>3. s[i] = x
    OBVIOUS
  <2> HIDE DEF x, s
  <2> QED
    BY <1>6, <2>2, <2>3
<1>14. s \in [1 .. n -> S] /\ DOMAIN s = 1 .. n
  <2>1. \A i \in 1 .. n : s[i] \in S
    BY <1>13
  <2> QED
    BY <2>1
<1> HIDE DEF s
<1>15. s \in Seq(S) /\ Len(s) = n
  BY <1>1, <1>14
<1>16. \A c \in S : \E i \in 1 .. n : s[i] = c
  <2> SUFFICES ASSUME NEW c \in S
               PROVE  s[place[c]] = c /\ place[c] \in 1 .. n
    OBVIOUS
  <2>1. place[c] \in 1 .. n
    BY <1>7
  <2> QED
    BY <1>8, <1>13, <2>1
<1>17. \A i, j \in 1 .. n : s[i] = s[j] => i = j
  <2>1. \A i \in 1 .. n : place[s[i]] = i
    BY <1>13
  <2> QED
    BY <2>1
<1>18. \A i, j \in 1 .. n : <<s[i], s[j]>> \in before => i < j
  <2>1. \A i \in 1 .. n : place[s[i]] = i /\ s[i] \in S
    BY <1>13
  <2>2. \A i \in 1 .. n : size(s[i]) = i - 1 /\ s[i] \in S
    BY <1>4, <1>6, <2>1
  <2> QED
    BY <1>5, <2>2
<1> QED
  BY <1>12, <1>15, <1>16, <1>17, <1>18 DEF n
=============================================================================
