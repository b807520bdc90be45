--------------------------- MODULE RankingProofs ---------------------------
(***************************************************************************)
(* Fusion, reranking and the rows of a retrieval debug for every input:    *)
(* every list of results, every weight, every answer of a reranker.        *)
(***************************************************************************)
EXTENDS Retrieval, SelectionProofs

LEMMA MinOfTwo ==
    ASSUME NEW a \in Int, NEW b \in Int
    PROVE  Min({a, b}) = IF a <= b THEN a ELSE b
<1> DEFINE m == IF a <= b THEN a ELSE b
<1>1. m \in {a, b} /\ \A y \in {a, b} : m =< y
  OBVIOUS
<1>2. \A x \in {a, b} : (\A y \in {a, b} : x =< y) => x = m
  OBVIOUS
<1> QED
  BY <1>1, <1>2 DEF Min

\* The beginning of a sequence.
LEMMA FirstsOf ==
    ASSUME NEW T, NEW s \in Seq(T), NEW n \in Nat
    PROVE  /\ Firsts(s, n) \in Seq(T)
           /\ Len(Firsts(s, n)) <= n /\ Len(Firsts(s, n)) <= Len(s)
           /\ \A i \in 1 .. Len(Firsts(s, n)) : Firsts(s, n)[i] = s[i]
           /\ \A i \in 1 .. Len(s) : i <= n => i <= Len(Firsts(s, n))
<1> DEFINE m == Min({n, Len(s)})
<1>1. Len(s) \in Nat /\ \A i \in 1 .. Len(s) : s[i] \in T
  OBVIOUS
<1>2. m = IF n <= Len(s) THEN n ELSE Len(s)
  BY <1>1, MinOfTwo
<1> HIDE DEF m
<1>3. m \in Nat /\ m <= n /\ m <= Len(s)
  BY <1>1, <1>2
<1>4. 1 \in Int /\ m \in Int /\ \A i \in 1 .. m : s[i] \in T
  BY <1>1, <1>3
<1> DEFINE f == SubSeq(s, 1, m)
<1>5. /\ f \in Seq(T)
      /\ Len(f) = IF 1 <= m THEN m - 1 + 1 ELSE 0
      /\ \A i \in 1 .. m - 1 + 1 : f[i] = s[1 + i - 1]
  BY <1>4, SubSeqProperties
<1> HIDE DEF f
<1>6. Len(f) = m /\ \A i \in 1 .. m : f[i] = s[i]
  BY <1>3, <1>5
<1>7. f = Firsts(s, n)
  BY DEF f, m, Firsts
<1> QED
  BY <1>1, <1>2, <1>3, <1>5, <1>6, <1>7

LEMMA InToSet ==
    ASSUME NEW T, NEW s \in Seq(T)
    PROVE  \A c : c \in ToSet(s) <=> \E i \in 1 .. Len(s) : s[i] = c
<1>1. DOMAIN s = 1 .. Len(s)
  OBVIOUS
<1> QED
  BY <1>1, Zenon DEF ToSet

-----------------------------------------------------------------------------
(* Candidates *)

Injective(s) == \A i, j \in 1 .. Len(s) : s[i] = s[j] => i = j

\* What the recursion of Unique says.
UniqueBy(f, s) ==
    f = [i \in 0 .. Len(s) |->
            IF i = 0 THEN <<>>
            ELSE IF Contains(f[i - 1], s[i]) THEN f[i - 1]
            ELSE Append(f[i - 1], s[i])]

LEMMA UniqueRecursion ==
    ASSUME NEW T, NEW s \in Seq(T)
    PROVE  \E f : /\ f[0] = <<>>
                  /\ \A i \in 1 .. Len(s) :
                        f[i] = IF Contains(f[i - 1], s[i]) THEN f[i - 1]
                               ELSE Append(f[i - 1], s[i])
                  /\ Unique(s) = f[Len(s)]
<1> DEFINE n == Len(s)
           X == Seq(T)
           x == <<>>
           next(u, i) == IF Contains(u, s[i]) THEN u ELSE Append(u, s[i])
           step == [i \in 1 .. n |-> [u \in X |-> next(u, i)]]
<1>1. n \in Nat /\ x \in X /\ \A i \in 1 .. n : s[i] \in T
  OBVIOUS
<1>2. \A i \in 1 .. n, u \in X : next(u, i) \in X
  BY <1>1
<1>3. step \in [1 .. n -> [X -> X]]
  BY <1>2
<1>4. \A i \in 1 .. n, u \in X : step[i][u] = next(u, i)
  OBVIOUS
<1> HIDE DEF n, X, x, step, next
<1>5. Steps(X, x, n, step)
  BY <1>1, <1>3 DEF Steps
<1>6. PICK f : Follows(f, X, x, n, step)
  BY <1>5, Iteration
<1>7. f \in [0 .. n -> X] /\ f[0] = x /\ \A i \in 1 .. n : f[i] = step[i][f[i - 1]]
  BY <1>6 DEF Follows
<1>8. ASSUME NEW i \in 0 .. n
      PROVE  f[i] = IF i = 0 THEN x ELSE next(f[i - 1], i)
  <2>1. CASE i # 0
    <3>1. i \in 1 .. n /\ i - 1 \in 0 .. n
      BY <1>1, <2>1
    <3>2. f[i - 1] \in X
      BY <1>7, <3>1
    <3> QED
      BY <1>4, <1>7, <2>1, <3>1, <3>2
  <2> QED
    BY <1>7, <2>1
<1>9. UniqueBy(f, s)
  BY <1>7, <1>8 DEF UniqueBy, n, next, x
<1> DEFINE h == CHOOSE h : UniqueBy(h, s)
<1>10. UniqueBy(h, s)
  BY <1>9, Zenon
<1>11. Unique(s) = h[n]
  BY Zenon DEF Unique, UniqueBy, n
<1> HIDE DEF h
<1>12. \A i \in 0 .. n : h[i] = IF i = 0 THEN x ELSE next(h[i - 1], i)
  BY <1>10 DEF UniqueBy, n, next, x
<1>13. h[0] = x /\ \A i \in 1 .. n : h[i] = next(h[i - 1], i)
  BY <1>1, <1>12
<1> QED
  BY <1>11, <1>13 DEF n, x, next

\* Every chunk of the results is a candidate, once.
LEMMA UniqueCandidates ==
    ASSUME NEW T, NEW s \in Seq(T)
    PROVE  /\ Unique(s) \in Seq(T) /\ Len(Unique(s)) <= Len(s)
           /\ Injective(Unique(s))
           /\ ToSet(Unique(s)) = ToSet(s)
<1> DEFINE n == Len(s)
           Holds(u, c) == \E k \in 1 .. Len(u) : u[k] = c
           Good(u, i) == /\ u \in Seq(T) /\ Len(u) <= i /\ Injective(u)
                         /\ \A k \in 1 .. Len(u) : \E j \in 1 .. i : s[j] = u[k]
                         /\ \A j \in 1 .. i : Holds(u, s[j])
<1>1. n \in Nat /\ \A i \in 1 .. n : s[i] \in T
  OBVIOUS
<1>2. PICK f : /\ f[0] = <<>>
               /\ \A i \in 1 .. n :
                     f[i] = IF Contains(f[i - 1], s[i]) THEN f[i - 1]
                            ELSE Append(f[i - 1], s[i])
               /\ Unique(s) = f[n]
  BY UniqueRecursion
<1> HIDE DEF n
<1> DEFINE G == {i \in Nat : i <= n => Good(f[i], i)}
<1>3. 0 \in G
  <2>1. <<>> \in Seq(T) /\ Len(<<>>) = 0
    BY EmptySeq
  <2>2. 1 .. 0 = {}
    OBVIOUS
  <2>3. Good(<<>>, 0)
    BY <2>1, <2>2 DEF Injective
  <2> HIDE DEF Good
  <2> QED
    BY <1>1, <1>2, <2>3
<1>4. ASSUME NEW i \in Nat, i \in G, i + 1 <= n
      PROVE  Good(f[i + 1], i + 1)
  <2> DEFINE u == f[i]
             c == s[i + 1]
             v == Append(u, c)
             l == Len(u)
  <2>1. Good(u, i)
    BY <1>1, <1>4
  <2>2. i + 1 \in 1 .. n /\ i + 1 - 1 = i /\ c \in T
    BY <1>1, <1>4
  <2>3. f[i + 1] = IF Contains(u, c) THEN u ELSE v
    BY <1>2, <2>2
  <2>4. \A j \in 1 .. i + 1 : j \in 1 .. i \/ j = i + 1
    BY <1>4
  <2>5. 1 .. i \subseteq 1 .. i + 1 /\ i + 1 \in 1 .. i + 1 /\ i <= i + 1
    BY <1>4
  <2> HIDE DEF u, c
  <2>6. CASE Holds(u, c)
    <3>1. f[i + 1] = u
      BY <2>3, <2>6 DEF Contains
    <3>2. Len(u) <= i + 1
      BY <2>1
    <3>3. \A j \in 1 .. i + 1 : Holds(u, s[j])
      BY <2>1, <2>4, <2>6 DEF c
    <3>4. \A k \in 1 .. Len(u) : \E j \in 1 .. i + 1 : s[j] = u[k]
      BY <2>1, <2>5
    <3> QED
      BY <2>1, <3>1, <3>2, <3>3, <3>4
  <2>7. CASE ~Holds(u, c)
    <3>1. f[i + 1] = v
      BY <2>3, <2>7 DEF Contains
    <3>2. /\ v \in Seq(T) /\ Len(v) = l + 1 /\ l \in Nat /\ l <= i
          /\ v[l + 1] = c /\ \A k \in 1 .. l : v[k] = u[k]
      BY <2>1, <2>2
    <3> HIDE DEF v, l
    <3>3. \A k \in 1 .. l + 1 : k \in 1 .. l \/ k = l + 1
      BY <3>2
    <3>4. \A k \in 1 .. l + 1 : \E j \in 1 .. i + 1 : s[j] = v[k]
      BY <2>1, <2>5, <3>2, <3>3 DEF l, c
    <3>5. Injective(v)
      <4> SUFFICES ASSUME NEW k \in 1 .. l + 1, NEW m \in 1 .. l + 1, v[k] = v[m]
                   PROVE  k = m
        BY <3>2 DEF Injective
      <4>1. CASE k \in 1 .. l /\ m \in 1 .. l
        BY <2>1, <3>2, <4>1 DEF Injective, l
      <4>2. CASE k = l + 1 /\ m \in 1 .. l
        BY <2>7, <3>2, <4>2 DEF l
      <4>3. CASE k \in 1 .. l /\ m = l + 1
        BY <2>7, <3>2, <4>3 DEF l
      <4> QED
        BY <3>3, <4>1, <4>2, <4>3
    <3>6. 1 .. l \subseteq 1 .. l + 1 /\ l + 1 \in 1 .. l + 1
      BY <3>2
    <3>7. \A j \in 1 .. i : Holds(v, s[j])
      BY <2>1, <3>2, <3>6 DEF l
    <3>8. Holds(v, c)
      BY <3>2, <3>6
    <3>9. \A j \in 1 .. i + 1 : Holds(v, s[j])
      BY <2>4, <3>7, <3>8 DEF c
    <3>10. Len(v) <= i + 1
      BY <1>4, <3>2
    <3> QED
      BY <3>1, <3>2, <3>4, <3>5, <3>9, <3>10
  <2> QED
    BY <2>6, <2>7
<1>5. \A i \in Nat : i \in G => i + 1 \in G
  <2> HIDE DEF Good
  <2> QED
    BY <1>4
<1> HIDE DEF G
<1>6. \A i \in Nat : i \in G
  BY <1>3, <1>5, SetInduction
<1>7. Good(Unique(s), n)
  <2>1. n \in G /\ n <= n
    BY <1>1, <1>6
  <2> QED
    BY <1>2, <2>1 DEF G
<1>8. ToSet(Unique(s)) = ToSet(s)
  <2>1. /\ \A c : c \in ToSet(s) <=> \E j \in 1 .. n : s[j] = c
        /\ \A c : c \in ToSet(Unique(s)) <=> \E k \in 1 .. Len(Unique(s)) : Unique(s)[k] = c
    BY <1>7, InToSet DEF n
  <2>2. /\ \A k \in 1 .. Len(Unique(s)) : \E j \in 1 .. n : s[j] = Unique(s)[k]
        /\ \A j \in 1 .. n : \E k \in 1 .. Len(Unique(s)) : Unique(s)[k] = s[j]
    BY <1>7
  <2> QED
    <3>1. \A c : c \in ToSet(Unique(s)) <=> c \in ToSet(s)
      BY <2>1, <2>2
    <3> QED
      BY <3>1
<1> QED
  BY <1>7, <1>8 DEF n

-----------------------------------------------------------------------------
(* Scores *)

\* What RRFusion is made with, and a scale for lists of up to longest results.
Parameters == [k : Nat \ {0}, dense : Nat \ {0}, sparse : Nat \ {0}, longest : Nat]

\* What the recursion of Scale says.
ScaledBy(f, p) == f = [r \in 0 .. p.longest |-> IF r = 0 THEN 1 ELSE f[r - 1] * (p.k + r)]

LEMMA ScaleRecursion ==
    ASSUME NEW p \in Parameters
    PROVE  \E f : /\ f[0] = 1
                  /\ \A r \in 1 .. p.longest : f[r] = f[r - 1] * (p.k + r)
                  /\ Scale(p) = f[p.longest]
<1> DEFINE n == p.longest
           X == Nat
           x == 1
           next(a, r) == a * (p.k + r)
           step == [r \in 1 .. n |-> [a \in X |-> next(a, r)]]
<1>1. n \in Nat /\ x \in X /\ p.k \in Nat
  BY DEF Parameters
<1>2. \A r \in 1 .. n, a \in X : next(a, r) \in X
  <2> SUFFICES ASSUME NEW r \in 1 .. n, NEW a \in Nat
               PROVE  a * (p.k + r) \in Nat
    OBVIOUS
  <2>1. p.k + r \in Nat
    BY <1>1
  <2> QED
    BY <2>1
<1>3. step \in [1 .. n -> [X -> X]]
  BY <1>2
<1>4. \A r \in 1 .. n, a \in X : step[r][a] = next(a, r)
  OBVIOUS
<1> HIDE DEF n, X, x, step, next
<1>5. Steps(X, x, n, step)
  BY <1>1, <1>3 DEF Steps
<1>6. PICK f : Follows(f, X, x, n, step)
  BY <1>5, Iteration
<1>7. f \in [0 .. n -> X] /\ f[0] = x /\ \A r \in 1 .. n : f[r] = step[r][f[r - 1]]
  BY <1>6 DEF Follows
<1>8. ASSUME NEW r \in 0 .. n
      PROVE  f[r] = IF r = 0 THEN x ELSE next(f[r - 1], r)
  <2>1. CASE r # 0
    <3>1. r \in 1 .. n /\ r - 1 \in 0 .. n
      BY <1>1, <2>1
    <3>2. f[r - 1] \in X
      BY <1>7, <3>1
    <3> QED
      BY <1>4, <1>7, <2>1, <3>1, <3>2
  <2> QED
    BY <1>7, <2>1
<1>9. ScaledBy(f, p)
  BY <1>7, <1>8 DEF ScaledBy, n, next, x
<1> DEFINE h == CHOOSE h : ScaledBy(h, p)
<1>10. ScaledBy(h, p)
  BY <1>9, Zenon
<1>11. Scale(p) = h[n]
  BY Zenon DEF Scale, ScaledBy, n
<1> HIDE DEF h
<1>12. \A r \in 0 .. n : h[r] = IF r = 0 THEN x ELSE next(h[r - 1], r)
  BY <1>10 DEF ScaledBy, n, next, x
<1>13. h[0] = x /\ \A r \in 1 .. n : h[r] = next(h[r - 1], r)
  BY <1>1, <1>12
<1> QED
  BY <1>11, <1>13 DEF n, x, next

LEMMA Products ==
    ASSUME NEW a \in Nat \ {0}, NEW b \in Nat \ {0}, NEW c \in Nat \ {0}
    PROVE  b * c \in Nat \ {0} /\ (a * b) * c = a * (b * c) /\ b * c = c * b
OBVIOUS

\* The scale is a multiple of each denominator,
LEMMA ScaleDivides ==
    ASSUME NEW p \in Parameters
    PROVE  /\ Scale(p) \in Nat \ {0}
           /\ \A r \in 1 .. p.longest : \E m \in Nat \ {0} : Scale(p) = (p.k + r) * m
<1> DEFINE n == p.longest
           Good(a, i) == /\ a \in Nat \ {0}
                         /\ \A r \in 1 .. i : \E m \in Nat \ {0} : a = (p.k + r) * m
<1>1. n \in Nat /\ p.k \in Nat \ {0}
  BY DEF Parameters
<1>2. PICK f : /\ f[0] = 1
               /\ \A r \in 1 .. n : f[r] = f[r - 1] * (p.k + r)
               /\ Scale(p) = f[n]
  BY ScaleRecursion
<1> HIDE DEF n
<1> DEFINE G == {i \in Nat : i <= n => Good(f[i], i)}
<1>3. 0 \in G
  BY <1>2
<1>4. ASSUME NEW i \in Nat, i \in G, i + 1 <= n
      PROVE  Good(f[i + 1], i + 1)
  <2> DEFINE a == f[i]
             d == p.k + (i + 1)
  <2>1. Good(a, i)
    BY <1>1, <1>4
  <2>2. i + 1 \in 1 .. n /\ i + 1 - 1 = i /\ d \in Nat \ {0}
    BY <1>1, <1>4
  <2>3. f[i + 1] = a * d
    BY <1>2, <2>2
  <2> HIDE DEF a
  <2>4. a * d \in Nat \ {0} /\ a * d = d * a
    <3> HIDE DEF d
    <3> QED
      BY <2>1, <2>2, Products
  <2>5. ASSUME NEW r \in 1 .. i
        PROVE  \E m \in Nat \ {0} : a * d = (p.k + r) * m
    <3>1. PICK m \in Nat \ {0} : a = (p.k + r) * m
      BY <2>1
    <3> DEFINE e == p.k + r
    <3>2. e \in Nat \ {0}
      BY <1>1
    <3> HIDE DEF d, e
    <3>3. m * d \in Nat \ {0} /\ (e * m) * d = e * (m * d)
      BY <2>2, <3>2, Products
    <3>4. a * d = e * (m * d)
      BY <3>1, <3>3 DEF e
    <3> QED
      BY <3>3, <3>4 DEF e
  <2>6. \A r \in 1 .. i + 1 : r \in 1 .. i \/ r = i + 1
    BY <1>4
  <2>7. \A r \in 1 .. i + 1 : \E m \in Nat \ {0} : a * d = (p.k + r) * m
    <3>1. a * d = (p.k + (i + 1)) * a
      BY <2>4
    <3> HIDE DEF d
    <3> QED
      BY <2>1, <2>5, <2>6, <3>1
  <2> HIDE DEF d
  <2> QED
    BY <2>3, <2>4, <2>7
<1>5. \A i \in Nat : i \in G => i + 1 \in G
  <2> HIDE DEF Good
  <2> QED
    BY <1>4
<1> HIDE DEF G
<1>6. \A i \in Nat : i \in G
  BY <1>3, <1>5, SetInduction
<1>7. Good(Scale(p), n)
  <2>1. n \in G /\ n <= n
    BY <1>1, <1>6
  <2> QED
    BY <1>2, <2>1 DEF G
<1> QED
  BY <1>7 DEF n

LEMMA Division ==
    ASSUME NEW d \in Nat \ {0}, NEW q \in Int
    PROVE  (d * q) \div d = q
<1> DEFINE a == d * q
           x == a \div d
<1>1. a \in Int
  OBVIOUS
<1>2. x \in Int /\ d * x <= a /\ a < d * x + d
  <2> HIDE DEF a
  <2> QED
    BY <1>1
<1> HIDE DEF x
<1>3. ASSUME x < q
      PROVE  FALSE
  <2>1. x + 1 <= q
    BY <1>2, <1>3
  <2>2. d * (x + 1) <= d * q
    BY <1>2, <2>1
  <2>3. d * (x + 1) = d * x + d
    BY <1>2
  <2> QED
    BY <1>2, <2>2, <2>3
<1>4. ASSUME q < x
      PROVE  FALSE
  <2>1. q + 1 <= x
    BY <1>2, <1>4
  <2>2. d * (q + 1) <= d * x
    BY <1>2, <2>1
  <2>3. d * (q + 1) = d * q + d
    OBVIOUS
  <2> QED
    BY <1>2, <2>2, <2>3
<1> QED
  BY <1>2, <1>3, <1>4 DEF x, a

\* so that the share of a later rank is smaller.
LEMMA SharesFall ==
    ASSUME NEW p \in Parameters, NEW w \in Nat \ {0}, NEW r \in 1 .. p.longest,
           NEW t \in 1 .. p.longest, r < t
    PROVE  /\ (w * Scale(p)) \div (p.k + r) \in Nat
           /\ (w * Scale(p)) \div (p.k + t) \in Nat
           /\ (w * Scale(p)) \div (p.k + r) > (w * Scale(p)) \div (p.k + t)
<1> DEFINE d == p.k + r
           e == p.k + t
<1>1. d \in Nat \ {0} /\ e \in Nat \ {0} /\ d < e
  BY DEF Parameters
<1>2. PICK m \in Nat \ {0} : Scale(p) = d * m
  BY ScaleDivides
<1>3. PICK l \in Nat \ {0} : Scale(p) = e * l
  BY ScaleDivides
<1> HIDE DEF d, e
<1>4. m > l
  <2> SUFFICES ASSUME m <= l
               PROVE  FALSE
    OBVIOUS
  <2>1. d * m <= d * l
    BY <1>1
  <2>2. d * l < e * l
    BY <1>1
  <2> QED
    BY <1>1, <1>2, <1>3, <2>1, <2>2
<1>5. w * m \in Nat /\ w * l \in Nat /\ w * l < w * m
  BY <1>4
<1>6. w * Scale(p) = d * (w * m)
  <2>1. (d * w) * m = d * (w * m) /\ (w * d) * m = w * (d * m) /\ d * w = w * d
    BY <1>1, Products
  <2> QED
    BY <1>2, <2>1
<1>7. w * Scale(p) = e * (w * l)
  <2>1. (e * w) * l = e * (w * l) /\ (w * e) * l = w * (e * l) /\ e * w = w * e
    BY <1>1, Products
  <2> QED
    BY <1>3, <2>1
<1>8. (w * Scale(p)) \div d = w * m
  <2> DEFINE q == w * m
  <2>1. q \in Int
    BY <1>5
  <2> HIDE DEF q
  <2>2. (d * q) \div d = q
    BY <1>1, <2>1, Division
  <2> QED
    BY <1>6, <2>2 DEF q
<1>9. (w * Scale(p)) \div e = w * l
  <2> DEFINE q == w * l
  <2>1. q \in Int
    BY <1>5
  <2> HIDE DEF q
  <2>2. (e * q) \div e = q
    BY <1>1, <2>1, Division
  <2> QED
    BY <1>7, <2>2 DEF q
<1> QED
  BY <1>5, <1>8, <1>9 DEF d, e

\* The rank of a chunk is its place among the candidates.
LEMMA RankOf ==
    ASSUME NEW T, NEW s \in Seq(T), NEW c \in ToSet(s)
    PROVE  /\ RankIn(s, c) \in 1 .. Len(Unique(s))
           /\ Unique(s)[RankIn(s, c)] = c
           /\ \A r \in 1 .. Len(Unique(s)) : Unique(s)[r] = c => r = RankIn(s, c)
<1> DEFINE u == Unique(s)
<1>1. u \in Seq(T) /\ Injective(u) /\ ToSet(u) = ToSet(s)
  BY UniqueCandidates
<1>2. DOMAIN u = 1 .. Len(u)
  BY <1>1
<1>3. PICK r \in 1 .. Len(u) : u[r] = c
  BY <1>1, InToSet
<1> HIDE DEF u
<1> DEFINE x == CHOOSE x \in DOMAIN u : u[x] = c
<1>4. x \in 1 .. Len(u) /\ u[x] = c
  BY <1>2, <1>3
<1>5. x = RankIn(s, c)
  BY DEF RankIn, u
<1> HIDE DEF x
<1> QED
  BY <1>1, <1>4, <1>5 DEF u, Injective

LEMMA ShareTyped ==
    ASSUME NEW T, NEW s \in Seq(T), NEW c, NEW p \in Parameters, NEW w \in Nat \ {0}
    PROVE  Reciprocal(s, c, w, p) \in Nat
<1>1. CASE c \in ToSet(s)
  <2> DEFINE r == RankIn(s, c)
             a == w * Scale(p)
             d == p.k + r
  <2>1. r \in 1 .. Len(Unique(s)) /\ Len(Unique(s)) \in Nat
    BY <1>1, RankOf, UniqueCandidates
  <2>2. d \in Nat \ {0}
    BY <2>1 DEF Parameters
  <2>3. a \in Nat
    BY ScaleDivides
  <2>4. Reciprocal(s, c, w, p) = a \div d
    BY <1>1 DEF Reciprocal
  <2> HIDE DEF a, d
  <2>5. a \div d \in Nat
    BY <2>2, <2>3
  <2> QED
    BY <2>4, <2>5
<1>2. CASE c \notin ToSet(s)
  BY <1>2 DEF Reciprocal
<1> QED
  BY <1>1, <1>2

\* A list gives a chunk it finds no later than another one no smaller a share, and a
\* larger one when it finds the other at all. A chunk it does not find has rank behind.
RankOr(s, c, behind) == IF c \in ToSet(s) THEN RankIn(s, c) ELSE behind

LEMMA SharesOfRanks ==
    ASSUME NEW T, NEW s \in Seq(T), NEW a, NEW b, NEW p \in Parameters, NEW w \in Nat \ {0},
           Len(s) <= p.longest, NEW behind \in Nat, Len(Unique(s)) < behind,
           RankOr(s, a, behind) <= RankOr(s, b, behind), a # b
    PROVE  /\ Reciprocal(s, a, w, p) >= Reciprocal(s, b, w, p)
           /\ b \in ToSet(s) => Reciprocal(s, a, w, p) > Reciprocal(s, b, w, p)
<1>1. CASE b \notin ToSet(s)
  BY <1>1, ShareTyped DEF Reciprocal
<1>2. CASE b \in ToSet(s)
  <2> DEFINE n == Len(Unique(s))
             r == RankIn(s, a)
             t == RankIn(s, b)
  <2>1. n \in Nat /\ n <= p.longest /\ p.longest \in Nat
    BY UniqueCandidates DEF Parameters
  <2>2. t \in 1 .. n /\ Unique(s)[t] = b
    BY <1>2, RankOf
  <2>3. a \in ToSet(s)
    <3> HIDE DEF n, t
    <3>1. RankOr(s, b, behind) = t
      BY <1>2 DEF RankOr, t
    <3>2. t < behind
      BY <2>1, <2>2 DEF n
    <3> QED
      BY <2>1, <2>2, <3>1, <3>2 DEF RankOr
  <2>4. r \in 1 .. n /\ Unique(s)[r] = a
    BY <2>3, RankOf
  <2>5. r <= t
    BY <1>2, <2>3 DEF RankOr
  <2>6. Reciprocal(s, a, w, p) = (w * Scale(p)) \div (p.k + r)
    BY <2>3 DEF Reciprocal
  <2>7. Reciprocal(s, b, w, p) = (w * Scale(p)) \div (p.k + t)
    BY <1>2 DEF Reciprocal
  <2> HIDE DEF n, r, t
  <2>8. r # t
    BY <2>2, <2>4
  <2>9. r < t /\ r \in 1 .. p.longest /\ t \in 1 .. p.longest
    BY <2>1, <2>2, <2>4, <2>5, <2>8
  <2> DEFINE x == (w * Scale(p)) \div (p.k + r)
             y == (w * Scale(p)) \div (p.k + t)
  <2>10. x \in Nat /\ y \in Nat /\ x > y
    BY <2>9, SharesFall
  <2> HIDE DEF x, y
  <2> QED
    BY <2>6, <2>7, <2>10 DEF x, y
<1> QED
  BY <1>1, <1>2

\* The place of a candidate, where it is first found.
LEMMA FirstPlace ==
    ASSUME NEW T, NEW s \in Seq(T), NEW c \in ToSet(s)
    PROVE  Min({i \in DOMAIN Unique(s) : Unique(s)[i] = c}) = RankIn(s, c)
<1> DEFINE u == Unique(s)
           r == RankIn(s, c)
           S == {i \in DOMAIN u : u[i] = c}
<1>1. u \in Seq(T) /\ DOMAIN u = 1 .. Len(u) /\ Len(u) \in Nat
  BY UniqueCandidates
<1>2. /\ r \in 1 .. Len(u) /\ u[r] = c
      /\ \A i \in 1 .. Len(u) : u[i] = c => i = r
  BY RankOf
<1> HIDE DEF u, r
<1>3. S = {r, r}
  BY <1>1, <1>2
<1>4. Min({r, r}) = r
  <2>1. r \in Int
    BY <1>1, <1>2
  <2> QED
    BY <2>1, MinOfTwo
<1> QED
  BY <1>3, <1>4 DEF u, r

LEMMA ScoreTyped ==
    ASSUME NEW dense \in Seq(Nat), NEW sparse \in Seq(Nat), NEW c, NEW p \in Parameters
    PROVE  Score(dense, sparse, c, p) \in Nat
<1>1. Reciprocal(dense, c, p.dense, p) \in Nat /\ Reciprocal(sparse, c, p.sparse, p) \in Nat
  BY ShareTyped DEF Parameters
<1> QED
  BY <1>1 DEF Score

\* A chunk that dominates another has the higher score.
LEMMA DominanceScores ==
    ASSUME NEW dense \in Seq(Nat), NEW sparse \in Seq(Nat), NEW p \in Parameters,
           Len(dense) <= p.longest, Len(sparse) <= p.longest,
           NEW a, NEW b \in ToSet(dense) \cup ToSet(sparse),
           Dominates(Unique(dense), Unique(sparse), a, b)
    PROVE  Score(dense, sparse, a, p) > Score(dense, sparse, b, p)
<1> DEFINE behind == Len(Unique(dense)) + Len(Unique(sparse)) + 1
<1>1. /\ ToSet(Unique(dense)) = ToSet(dense) /\ Len(Unique(dense)) \in Nat
      /\ ToSet(Unique(sparse)) = ToSet(sparse) /\ Len(Unique(sparse)) \in Nat
  BY UniqueCandidates
<1>2. behind \in Nat /\ Len(Unique(dense)) < behind /\ Len(Unique(sparse)) < behind
  BY <1>1
<1>3. a # b /\ RankOr(dense, a, behind) <= RankOr(dense, b, behind)
  BY <1>1, FirstPlace DEF Dominates, RankOr
<1>4. RankOr(sparse, a, behind) <= RankOr(sparse, b, behind)
  BY <1>1, FirstPlace DEF Dominates, RankOr
<1> HIDE DEF behind
<1> DEFINE x == Reciprocal(dense, a, p.dense, p)
           y == Reciprocal(dense, b, p.dense, p)
           u == Reciprocal(sparse, a, p.sparse, p)
           v == Reciprocal(sparse, b, p.sparse, p)
<1>5. p.dense \in Nat \ {0} /\ p.sparse \in Nat \ {0}
  BY DEF Parameters
<1>6. x \in Nat /\ y \in Nat /\ u \in Nat /\ v \in Nat
  BY <1>5, ShareTyped
<1>7. x >= y /\ (b \in ToSet(dense) => x > y)
  BY <1>2, <1>3, <1>5, SharesOfRanks
<1>8. u >= v /\ (b \in ToSet(sparse) => u > v)
  BY <1>2, <1>3, <1>4, <1>5, SharesOfRanks
<1>9. Score(dense, sparse, a, p) = x + u /\ Score(dense, sparse, b, p) = y + v
  BY DEF Score
<1> HIDE DEF x, y, u, v
<1> QED
  BY <1>6, <1>7, <1>8, <1>9

-----------------------------------------------------------------------------
(* Fusion *)

LEMMA ToSetFinite ==
    ASSUME NEW T, NEW s \in Seq(T)
    PROVE  /\ ToSet(s) \subseteq T /\ IsFiniteSet(ToSet(s)) /\ Cardinality(ToSet(s)) <= Len(s)
           /\ Injective(s) => Cardinality(ToSet(s)) = Len(s)
<1>1. Len(s) \in Nat /\ DOMAIN s = 1 .. Len(s) /\ \A i \in 1 .. Len(s) : s[i] \in T
  OBVIOUS
<1>2. s \in [1 .. Len(s) -> ToSet(s)]
  <2>1. s = [i \in 1 .. Len(s) |-> s[i]]
    OBVIOUS
  <2>2. \A i \in 1 .. Len(s) : s[i] \in ToSet(s)
    BY InToSet
  <2> QED
    BY <2>1, <2>2
<1>3. s \in Surjection(1 .. Len(s), ToSet(s))
  <2>1. \A c \in ToSet(s) : \E i \in 1 .. Len(s) : s[i] = c
    BY InToSet
  <2> QED
    BY <1>2, <2>1 DEF Surjection
<1>4. IsFiniteSet(1 .. Len(s)) /\ Cardinality(1 .. Len(s)) = Len(s)
  <2> DEFINE n == Len(s)
  <2>1. n \in Int /\ n \in Nat /\ 1 \in Int
    BY <1>1
  <2> HIDE DEF n
  <2>2. IsFiniteSet(1 .. n) /\ Cardinality(1 .. n) = IF 1 > n THEN 0 ELSE n - 1 + 1
    BY <2>1, FS_Interval
  <2>3. IsFiniteSet(1 .. n) /\ Cardinality(1 .. n) = n
    BY <2>1, <2>2
  <2> QED
    BY <2>3 DEF n
<1>5. /\ IsFiniteSet(ToSet(s)) /\ Cardinality(ToSet(s)) <= Cardinality(1 .. Len(s))
      /\ s \in Injection(1 .. Len(s), ToSet(s)) => Cardinality(ToSet(s)) = Cardinality(1 .. Len(s))
  BY <1>3, <1>4, FS_Surjection
<1>6. Injective(s) => s \in Injection(1 .. Len(s), ToSet(s))
  BY <1>1, <1>2 DEF Injection, IsInjective, Injective
<1>7. ToSet(s) \subseteq T
  BY <1>1, InToSet
<1> QED
  BY <1>4, <1>5, <1>6, <1>7

\* The fused list: chunks of the two lists, each once, in the order of their scores.
LEMMA FusedChunks ==
    ASSUME NEW dense \in Seq(Nat), NEW sparse \in Seq(Nat), NEW p \in Parameters, NEW topK \in Nat
    PROVE  LET f == Fuse(dense, sparse, topK, p)
               found == ToSet(dense) \cup ToSet(sparse)
           IN  /\ f \in Seq(found) /\ Len(f) <= topK /\ Injective(f)
               /\ \A i \in 1 .. Len(f), a \in found :
                     Before(a, f[i], dense, sparse, p) => \E j \in 1 .. (i - 1) : f[j] = a
<1> DEFINE found == ToSet(dense) \cup ToSet(sparse)
           score(c) == Score(dense, sparse, c, p)
           before == {pair \in found \X found : Before(pair[1], pair[2], dense, sparse, p)}
           s == Sorted(found, before)
           f == Firsts(s, topK)
<1>1. found \subseteq Nat /\ IsFiniteSet(found)
  BY ToSetFinite, FS_Union
<1>2. \A c \in found : score(c) \in Nat /\ c \in Nat
  BY <1>1, ScoreTyped
<1>3. \A a, b \in found : <<a, b>> \in before <=> Before(a, b, dense, sparse, p)
  OBVIOUS
<1>4. f = Fuse(dense, sparse, topK, p)
  BY DEF Fuse, Firsts
<1> HIDE DEF before, found
<1>5. \A a, b \in found : <<a, b>> \in before <=> (score(a) > score(b) \/ (score(a) = score(b) /\ a < b))
  BY <1>3 DEF Before
<1> HIDE DEF score
<1>6. StrictOrder(found, before)
  <2>1. \A c \in found : <<c, c>> \notin before
    BY <1>2, <1>5
  <2>2. ASSUME NEW c \in found, NEW d \in found, c # d
        PROVE  <<c, d>> \in before \/ <<d, c>> \in before
    <3>1. score(c) \in Nat /\ score(d) \in Nat /\ c \in Nat /\ d \in Nat
      BY <1>2
    <3> QED
      BY <1>5, <2>2, <3>1
  <2>3. \A b, c, d \in found : <<b, c>> \in before /\ <<c, d>> \in before => <<b, d>> \in before
    BY <1>2, <1>5, SMTT(30)
  <2> QED
    BY <2>1, <2>2, <2>3 DEF StrictOrder
<1>7. /\ s \in Seq(found)
      /\ \A c \in found : \E i \in 1 .. Len(s) : s[i] = c
      /\ \A i, j \in 1 .. Len(s) : s[i] = s[j] => i = j
      /\ \A i, j \in 1 .. Len(s) : <<s[i], s[j]>> \in before => i < j
  BY <1>1, <1>6, SortedInOrder
<1> HIDE DEF s
<1>8. /\ f \in Seq(found) /\ Len(f) <= topK /\ Len(f) <= Len(s)
      /\ \A i \in 1 .. Len(f) : f[i] = s[i]
  BY <1>7, FirstsOf
<1>9. Len(s) \in Nat /\ Len(f) \in Nat
  BY <1>7, <1>8
<1> HIDE DEF f
<1>10. \A i \in 1 .. Len(f) : i \in 1 .. Len(s) /\ s[i] = f[i] /\ s[i] \in found
  <2>1. \A i \in 1 .. Len(f) : i \in 1 .. Len(s)
    BY <1>8, <1>9
  <2>2. \A i \in 1 .. Len(s) : s[i] \in found
    BY <1>7
  <2> QED
    BY <1>8, <2>1, <2>2
<1>11. Injective(f)
  BY <1>7, <1>10 DEF Injective
<1>12. ASSUME NEW i \in 1 .. Len(f), NEW a \in found, Before(a, f[i], dense, sparse, p)
       PROVE  \E j \in 1 .. (i - 1) : f[j] = a
  <2>1. PICK j \in 1 .. Len(s) : s[j] = a
    BY <1>7
  <2>2. i \in 1 .. Len(s) /\ s[i] = f[i] /\ s[i] \in found
    BY <1>10
  <2>3. <<s[j], s[i]>> \in before
    BY <1>3, <1>12, <2>1, <2>2
  <2>4. j < i
    BY <1>7, <2>1, <2>2, <2>3
  <2>5. j \in 1 .. (i - 1) /\ f[j] = s[j]
    BY <1>8, <1>9, <2>2, <2>4
  <2> QED
    BY <2>1, <2>5
<1> QED
  BY <1>4, <1>8, <1>11, <1>12 DEF found

\* A chunk that both lists rank above another comes before it, for any lists, any
\* weights and any rrf_k (RRFusion.fuse).
THEOREM FusionsKeepDominance ==
    ASSUME NEW dense \in Seq(Nat), NEW sparse \in Seq(Nat), NEW topK \in Nat, NEW p \in Parameters,
           Len(dense) <= p.longest, Len(sparse) <= p.longest
    PROVE  KeepsDominance(dense, sparse, topK, p)
<1> DEFINE f == Fuse(dense, sparse, topK, p)
           found == ToSet(dense) \cup ToSet(sparse)
<1>1. /\ f \in Seq(found)
      /\ \A i \in 1 .. Len(f), a \in found :
            Before(a, f[i], dense, sparse, p) => \E j \in 1 .. (i - 1) : f[j] = a
  BY FusedChunks, SMTT(30)
<1>2. DOMAIN f = 1 .. Len(f) /\ \A i \in 1 .. Len(f) : f[i] \in found
  BY <1>1
<1> HIDE DEF f
<1>3. ASSUME NEW i \in 1 .. Len(f), NEW a \in found,
             Dominates(Unique(dense), Unique(sparse), a, f[i])
      PROVE  \E j \in 1 .. (i - 1) : f[j] = a
  <2>1. Score(dense, sparse, a, p) > Score(dense, sparse, f[i], p)
    BY <1>2, <1>3, DominanceScores
  <2>2. Before(a, f[i], dense, sparse, p)
    BY <2>1 DEF Before
  <2> QED
    BY <1>1, <2>2
<1> QED
  BY <1>2, <1>3 DEF KeepsDominance, f

-----------------------------------------------------------------------------
(* Reranking *)

\* A result of a provider's answer, and what has been read of an answer about n
\* candidates.
ItemRecords == [index : Int, finite : BOOLEAN]

Readings(n, topK) ==
    {r \in [taken : Seq(1 .. n), invalid : BOOLEAN] : Injective(r.taken) /\ Len(r.taken) <= topK}

\* Whatever the next result is, what is taken are places of different candidates.
LEMMA TakenApart ==
    ASSUME NEW n \in Nat, NEW topK \in Nat, NEW r \in Readings(n, topK), NEW item \in ItemRecords
    PROVE  TakeItem(r, item, n, topK) \in Readings(n, topK)
<1> DEFINE t == r.taken
           l == Len(t)
           v == Append(t, item.index)
<1>1. /\ r \in [taken : Seq(1 .. n), invalid : BOOLEAN]
      /\ t \in Seq(1 .. n) /\ Injective(t) /\ l <= topK /\ l \in Nat
  BY DEF Readings
<1>2. CASE r.invalid \/ l >= topK
  BY <1>2 DEF TakeItem
<1>3. CASE ~(r.invalid \/ l >= topK) /\ Bad(item, ToSet(t), n)
  <2> DEFINE q == [r EXCEPT !.invalid = TRUE]
  <2>1. TakeItem(r, item, n, topK) = q
    BY <1>3 DEF TakeItem
  <2>2. q \in [taken : Seq(1 .. n), invalid : BOOLEAN] /\ q.taken = t
    BY <1>1
  <2> HIDE DEF q, t
  <2> QED
    BY <1>1, <2>1, <2>2 DEF Readings
<1>4. CASE ~(r.invalid \/ l >= topK) /\ ~Bad(item, ToSet(t), n)
  <2> DEFINE q == [r EXCEPT !.taken = Append(@, item.index)]
  <2>1. TakeItem(r, item, n, topK) = q
    BY <1>4 DEF TakeItem
  <2>2. item.index \in 1 .. n /\ item.index \notin ToSet(t)
    BY <1>4 DEF Bad
  <2>3. /\ v \in Seq(1 .. n) /\ Len(v) = l + 1
        /\ v[l + 1] = item.index /\ \A k \in 1 .. l : v[k] = t[k]
    BY <1>1, <2>2
  <2>4. q \in [taken : Seq(1 .. n), invalid : BOOLEAN] /\ q.taken = v
    BY <1>1, <2>3
  <2>5. \A k \in 1 .. l : t[k] # item.index
    BY <1>1, <2>2, InToSet
  <2> HIDE DEF v, q, t, l
  <2>6. Injective(v)
    <3> SUFFICES ASSUME NEW k \in 1 .. l + 1, NEW m \in 1 .. l + 1, v[k] = v[m]
                 PROVE  k = m
      BY <2>3 DEF Injective
    <3>1. CASE k \in 1 .. l /\ m \in 1 .. l
      BY <1>1, <2>3, <3>1 DEF Injective, l
    <3>2. CASE k = l + 1 /\ m \in 1 .. l
      BY <2>3, <2>5, <3>2
    <3>3. CASE k \in 1 .. l /\ m = l + 1
      BY <2>3, <2>5, <3>3
    <3>4. (k \in 1 .. l \/ k = l + 1) /\ (m \in 1 .. l \/ m = l + 1)
      BY <1>1
    <3> QED
      BY <3>1, <3>2, <3>3, <3>4
  <2>7. Len(v) <= topK
    BY <1>1, <1>4, <2>3 DEF l, t
  <2> QED
    BY <2>1, <2>4, <2>6, <2>7 DEF Readings
<1> QED
  BY <1>2, <1>3, <1>4

\* What the recursion of Parse says.
ParsedBy(f, answer, n, topK) ==
    f = [i \in 0 .. Len(answer) |->
            IF i = 0 THEN NothingTaken ELSE TakeItem(f[i - 1], answer[i], n, topK)]

LEMMA ParseTyped ==
    ASSUME NEW answer \in Seq(ItemRecords), NEW n \in Nat, NEW topK \in Nat
    PROVE  Parse(answer, n, topK) \in Readings(n, topK)
<1> DEFINE l == Len(answer)
           X == Readings(n, topK)
           next(r, i) == TakeItem(r, answer[i], n, topK)
           step == [i \in 1 .. l |-> [r \in X |-> next(r, i)]]
<1>1. l \in Nat /\ \A i \in 1 .. l : answer[i] \in ItemRecords
  OBVIOUS
<1>2. NothingTaken \in X
  <2>1. <<>> \in Seq(1 .. n) /\ Len(<<>>) = 0
    BY EmptySeq
  <2>2. Injective(<<>>)
    BY <2>1 DEF Injective
  <2> QED
    BY <2>1, <2>2 DEF NothingTaken, Readings
<1>3. \A i \in 1 .. l, r \in X : next(r, i) \in X
  BY <1>1, TakenApart
<1>4. step \in [1 .. l -> [X -> X]]
  BY <1>3
<1>5. \A i \in 1 .. l, r \in X : step[i][r] = next(r, i)
  OBVIOUS
<1> HIDE DEF l, X, step, next
<1>6. Steps(X, NothingTaken, l, step)
  BY <1>1, <1>2, <1>4 DEF Steps
<1>7. PICK f : Follows(f, X, NothingTaken, l, step)
  BY <1>6, Iteration
<1>8. /\ f \in [0 .. l -> X] /\ f[0] = NothingTaken
      /\ \A i \in 1 .. l : f[i] = step[i][f[i - 1]]
  BY <1>7 DEF Follows
<1>9. ASSUME NEW i \in 0 .. l
      PROVE  f[i] = IF i = 0 THEN NothingTaken ELSE next(f[i - 1], i)
  <2>1. CASE i # 0
    <3>1. i \in 1 .. l /\ i - 1 \in 0 .. l
      BY <1>1, <2>1
    <3>2. f[i - 1] \in X
      BY <1>8, <3>1
    <3> QED
      BY <1>5, <1>8, <2>1, <3>1, <3>2
  <2> QED
    BY <1>8, <2>1
<1>10. ParsedBy(f, answer, n, topK)
  BY <1>8, <1>9 DEF ParsedBy, l, next
<1> DEFINE h == CHOOSE h : ParsedBy(h, answer, n, topK)
<1>11. ParsedBy(h, answer, n, topK)
  BY <1>10, Zenon
<1>12. Parse(answer, n, topK) = h[l]
  BY Zenon DEF Parse, ParsedBy, l
<1> HIDE DEF h
<1>13. \A i \in 0 .. l : h[i] = IF i = 0 THEN NothingTaken ELSE next(h[i - 1], i)
  BY <1>11 DEF ParsedBy, l, next
<1>14. h[0] = NothingTaken /\ \A i \in 1 .. l : h[i] = next(h[i - 1], i)
  BY <1>1, <1>13
<1>15. \A i \in 0 .. l : h[i] \in X
  <2>1. h[0] \in X /\ \A i \in 1 .. l : h[i - 1] \in X => h[i] \in X
    BY <1>2, <1>3, <1>14
  <2> QED
    BY <1>1, <2>1, Invariance
<1> QED
  BY <1>1, <1>12, <1>15 DEF X

\* chunks are some of the candidates, each once.
Selects(chunks, candidates, topK) ==
    /\ chunks \in Seq(Nat) /\ Len(chunks) <= topK /\ Injective(chunks)
    /\ \A i \in 1 .. Len(chunks) : \E k \in 1 .. Len(candidates) : chunks[i] = candidates[k]

\* A rerank returns candidates only, each once, whatever the provider answers
\* (CohereReranker.rerank).
LEMMA RerankSelects ==
    ASSUME NEW candidates \in Seq(Nat), Injective(candidates), NEW topK \in Nat,
           NEW answer, answer.results \in Seq(ItemRecords), NEW fallback \in BOOLEAN
    PROVE  Selects(Rerank(candidates, answer, topK, fallback).chunks, candidates, topK)
<1> DEFINE n == Len(candidates)
           parsed == Parse(answer.results, n, topK)
           t == parsed.taken
           given == [i \in DOMAIN t |-> candidates[t[i]]]
           rerank == Rerank(candidates, answer, topK, fallback)
           first == Firsts(candidates, topK)
<1>1. n \in Nat /\ \A k \in 1 .. n : candidates[k] \in Nat
  OBVIOUS
<1>2. Selects(<<>>, candidates, topK)
  <2>1. <<>> \in Seq(Nat) /\ Len(<<>>) = 0
    BY EmptySeq
  <2> QED
    BY <2>1 DEF Selects, Injective
<1>3. Selects(given, candidates, topK)
  <2>1. parsed \in Readings(n, topK)
    BY <1>1, ParseTyped
  <2> HIDE DEF parsed
  <2>2. t \in Seq(1 .. n) /\ Injective(t) /\ Len(t) <= topK
    BY <2>1 DEF Readings
  <2> HIDE DEF t
  <2>3. DOMAIN t = 1 .. Len(t) /\ Len(t) \in Nat /\ \A i \in 1 .. Len(t) : t[i] \in 1 .. n
    BY <2>2, SMTT(30)
  <2>4. \A i \in 1 .. Len(t) : given[i] = candidates[t[i]] /\ given[i] \in Nat
    BY <1>1, <2>3
  <2>5. given \in Seq(Nat) /\ Len(given) = Len(t)
    <3> DEFINE m == Len(t)
    <3>1. m \in Nat /\ given = [i \in 1 .. m |-> candidates[t[i]]]
      BY <2>3
    <3>2. \A i \in 1 .. m : candidates[t[i]] \in Nat
      BY <2>4
    <3> HIDE DEF m, given
    <3>3. given \in Seq(Nat) /\ Len(given) = m
      BY <3>1, <3>2
    <3> QED
      BY <3>3 DEF m
  <2> HIDE DEF given
  <2>6. Injective(given)
    <3> SUFFICES ASSUME NEW i \in 1 .. Len(t), NEW j \in 1 .. Len(t), given[i] = given[j]
                 PROVE  i = j
      BY <2>5 DEF Injective
    <3>1. t[i] \in 1 .. n /\ t[j] \in 1 .. n /\ candidates[t[i]] = candidates[t[j]]
      BY <2>3, <2>4
    <3>2. t[i] = t[j]
      BY <3>1 DEF Injective, n
    <3> QED
      BY <2>2, <3>2 DEF Injective
  <2>7. \A i \in 1 .. Len(given) : \E k \in 1 .. n : given[i] = candidates[k]
    BY <2>3, <2>4, <2>5
  <2> QED
    BY <2>2, <2>5, <2>6, <2>7 DEF Selects
<1>4. Selects(InOrder(candidates, topK), candidates, topK)
  <2>1. InOrder(candidates, topK) = first
    BY DEF InOrder, Firsts
  <2>2. /\ first \in Seq(Nat) /\ Len(first) <= topK /\ Len(first) <= Len(candidates)
        /\ \A i \in 1 .. Len(first) : first[i] = candidates[i]
    <3>1. topK \in Nat /\ candidates \in Seq(Nat)
      OBVIOUS
    <3> QED
      BY <3>1, FirstsOf
  <2> HIDE DEF first
  <2>3. \A i \in 1 .. Len(first) : i \in 1 .. n /\ first[i] = candidates[i]
    <3>1. Len(first) \in Nat
      BY <2>2
    <3> QED
      BY <1>1, <2>2, <3>1
  <2>4. Injective(first)
    BY <2>3 DEF Injective, n
  <2> QED
    BY <2>1, <2>2, <2>3, <2>4 DEF Selects, n
<1>5. \/ rerank.chunks = <<>> \/ rerank.chunks = given
      \/ rerank.chunks = InOrder(candidates, topK)
  BY Zenon DEF Rerank
<1> HIDE DEF given, rerank
<1> QED
  BY <1>2, <1>3, <1>4, <1>5 DEF rerank

-----------------------------------------------------------------------------
(* Results *)

PointRecords == [chunk : Nat, score : Nat]

\* No two results are of the same chunk.
Apart(results) ==
    \A k, l \in 1 .. Len(results) : results[k].chunk = results[l].chunk => k = l

LEMMA ChunksOfResults ==
    ASSUME NEW T, NEW s \in Seq(T), \A i \in 1 .. Len(s) : s[i].chunk \in Nat
    PROVE  /\ ChunksOf(s) \in Seq(Nat) /\ Len(ChunksOf(s)) = Len(s)
           /\ \A i \in 1 .. Len(s) : ChunksOf(s)[i] = s[i].chunk
<1> DEFINE n == Len(s)
           c == ChunksOf(s)
<1>1. n \in Nat /\ DOMAIN s = 1 .. n
  OBVIOUS
<1>2. c = [i \in 1 .. n |-> s[i].chunk]
  BY <1>1 DEF ChunksOf
<1>3. \A i \in 1 .. n : s[i].chunk \in Nat
  OBVIOUS
<1> HIDE DEF n, c
<1>4. c \in Seq(Nat) /\ Len(c) = n /\ \A i \in 1 .. n : c[i] = s[i].chunk
  BY <1>1, <1>2, <1>3
<1> QED
  BY <1>4 DEF n, c

\* The score of a chunk is that of its first result,
LEMMA ScoreFound ==
    ASSUME NEW T, NEW s \in Seq(T), NEW i \in 1 .. Len(s),
           \A j \in 1 .. Len(s) : s[j].chunk = s[i].chunk => i <= j
    PROVE  ScoreIn(s, s[i].chunk) = s[i].score
<1> DEFINE c == s[i].chunk
           at == {j \in DOMAIN s : s[j].chunk = c}
<1>1. DOMAIN s = 1 .. Len(s) /\ i \in Nat
  OBVIOUS
<1>2. i \in at /\ \A j \in at : i <= j
  BY <1>1
<1>3. at \subseteq Int
  BY <1>1
<1>4. ScoreIn(s, c) = IF at = {} THEN None ELSE s[Min(at)].score
  BY DEF ScoreIn
<1> HIDE DEF at
<1>5. Min(at) = i
  <2>1. \A x \in at : (\A y \in at : x =< y) => x = i
    BY <1>1, <1>2, <1>3
  <2> QED
    BY <1>2, <2>1, Zenon DEF Min
<1> QED
  BY <1>2, <1>4, <1>5

\* and None when it has no result.
LEMMA ScoreAbsent ==
    ASSUME NEW T, NEW s \in Seq(T), NEW c, \A j \in 1 .. Len(s) : s[j].chunk # c
    PROVE  ScoreIn(s, c) = None
<1>1. DOMAIN s = 1 .. Len(s)
  OBVIOUS
<1>2. {j \in DOMAIN s : s[j].chunk = c} = {}
  BY <1>1
<1> QED
  BY <1>2 DEF ScoreIn

\* A chunk with a result has a first one.
LEMMA FirstResult ==
    ASSUME NEW T, NEW s \in Seq(T), NEW j \in 1 .. Len(s)
    PROVE  \E i \in 1 .. Len(s) : /\ s[i].chunk = s[j].chunk
                                  /\ \A h \in 1 .. Len(s) : s[h].chunk = s[j].chunk => i <= h
<1> DEFINE at == {i \in 1 .. Len(s) : s[i].chunk = s[j].chunk}
<1>1. at \subseteq Nat /\ at # {}
  OBVIOUS
<1>2. PICK i \in at : \A h \in at : i <= h
  BY <1>1, LeastElement
<1> QED
  BY <1>2

-----------------------------------------------------------------------------
(* Dense results *)

Passes(point, threshold) == threshold = None \/ point.score >= threshold

\* The point is the first of its chunk that passes the threshold.
IsFirst(s, j, threshold) ==
    /\ Passes(s[j], threshold)
    /\ \A h \in 1 .. (j - 1) : Passes(s[h], threshold) => s[h].chunk # s[j].chunk

\* u holds, of the first i points, the first of each chunk that passes.
Collected(u, s, i, threshold) ==
    /\ u \in Seq(PointRecords) /\ Len(u) <= i /\ Apart(u)
    /\ \A k \in 1 .. Len(u) : \E j \in 1 .. i : u[k] = s[j] /\ IsFirst(s, j, threshold)
    /\ \A j \in 1 .. i :
          Passes(s[j], threshold) => \E k \in 1 .. Len(u) : u[k].chunk = s[j].chunk

LEMMA CollectOne ==
    ASSUME NEW s \in Seq(PointRecords), NEW topK \in Nat, NEW threshold \in Nat \cup {None},
           NEW i \in Nat, i + 1 <= Len(s), Len(s) <= topK,
           NEW u, Collected(u, s, i, threshold)
    PROVE  Collected(Collect(u, s[i + 1], topK, threshold), s, i + 1, threshold)
<1> DEFINE l == Len(u)
           m == s[i + 1]
           v == Append(u, m)
           Seen == \E k \in 1 .. l : u[k].chunk = m.chunk
<1>1. m \in PointRecords /\ m.chunk \in Nat /\ m.score \in Nat
  <2>1. i + 1 \in 1 .. Len(s)
    BY LenProperties
  <2>2. m \in PointRecords
    BY <2>1
  <2> QED
    BY <2>2 DEF PointRecords
<1>2. /\ u \in Seq(PointRecords) /\ l \in Nat /\ l <= i /\ Apart(u)
      /\ \A k \in 1 .. l : \E j \in 1 .. i : u[k] = s[j] /\ IsFirst(s, j, threshold)
      /\ \A j \in 1 .. i : Passes(s[j], threshold) => \E k \in 1 .. l : u[k].chunk = s[j].chunk
  BY DEF Collected
<1>3. m.chunk \in ToSet(ChunksOf(u)) <=> Seen
  <2>1. \A k \in 1 .. l : u[k].chunk \in Nat
    <3>1. \A k \in 1 .. l : u[k] \in PointRecords
      BY <1>2
    <3> QED
      BY <3>1 DEF PointRecords
  <2>2. /\ ChunksOf(u) \in Seq(Nat) /\ Len(ChunksOf(u)) = l
        /\ \A k \in 1 .. l : ChunksOf(u)[k] = u[k].chunk
    BY <1>2, <2>1, ChunksOfResults
  <2>3. \A c : c \in ToSet(ChunksOf(u)) <=> \E k \in 1 .. Len(ChunksOf(u)) : ChunksOf(u)[k] = c
    BY <2>2, InToSet
  <2> HIDE DEF m, l
  <2> QED
    BY <2>2, <2>3
<1>4. ~(l >= topK)
  BY <1>2
<1>5. Passes(m, threshold) <=> ~(threshold # None /\ m.score < threshold)
  BY <1>1 DEF Passes
<1>6. Collect(u, m, topK, threshold) = IF Passes(m, threshold) /\ ~Seen THEN v ELSE u
  <2> HIDE DEF m, v
  <2> QED
    BY <1>3, <1>4, <1>5 DEF Collect, v
<1>7. /\ \A j \in 1 .. i + 1 : j \in 1 .. i \/ j = i + 1
      /\ 1 .. i \subseteq 1 .. i + 1 /\ i + 1 \in 1 .. i + 1 /\ l <= i + 1 /\ i + 1 - 1 = i
  BY <1>2
<1>8. CASE Passes(m, threshold) => Seen
  <2>1. \A j \in 1 .. i + 1 : Passes(s[j], threshold) => \E k \in 1 .. l : u[k].chunk = s[j].chunk
    BY <1>2, <1>7, <1>8
  <2>2. \A k \in 1 .. l : \E j \in 1 .. i + 1 : u[k] = s[j] /\ IsFirst(s, j, threshold)
    BY <1>2, <1>7
  <2> HIDE DEF m, v
  <2>3. Collect(u, m, topK, threshold) = u
    BY <1>6, <1>8
  <2>4. Collected(u, s, i + 1, threshold)
    BY <1>2, <1>7, <2>1, <2>2 DEF Collected
  <2> QED
    BY <2>3, <2>4 DEF m
<1>9. CASE Passes(m, threshold) /\ ~Seen
  <2>1. /\ v \in Seq(PointRecords) /\ Len(v) = l + 1 /\ v[l + 1] = m
        /\ \A k \in 1 .. l : v[k] = u[k]
    BY <1>1, <1>2
  <2>2. /\ \A k \in 1 .. l + 1 : k \in 1 .. l \/ k = l + 1
        /\ 1 .. l \subseteq 1 .. l + 1 /\ l + 1 \in 1 .. l + 1
    BY <1>2
  <2>3. IsFirst(s, i + 1, threshold)
    BY <1>2, <1>7, <1>9 DEF IsFirst
  <2>4. \A k \in 1 .. l + 1 : \E j \in 1 .. i + 1 : v[k] = s[j] /\ IsFirst(s, j, threshold)
    <3> HIDE DEF v, l
    <3> QED
      BY <1>2, <1>7, <2>1, <2>2, <2>3
  <2>5. Apart(v)
    <3> SUFFICES ASSUME NEW k \in 1 .. l + 1, NEW j \in 1 .. l + 1, v[k].chunk = v[j].chunk
                 PROVE  k = j
      BY <2>1 DEF Apart
    <3> HIDE DEF v
    <3>1. CASE k \in 1 .. l /\ j \in 1 .. l
      BY <1>2, <2>1, <3>1 DEF Apart
    <3>2. CASE k = l + 1 /\ j \in 1 .. l
      BY <1>9, <2>1, <3>2
    <3>3. CASE k \in 1 .. l /\ j = l + 1
      BY <1>9, <2>1, <3>3
    <3> QED
      BY <2>2, <3>1, <3>2, <3>3
  <2>6. \A j \in 1 .. i + 1 :
           Passes(s[j], threshold) => \E k \in 1 .. l + 1 : v[k].chunk = s[j].chunk
    <3> HIDE DEF v, l
    <3>1. ASSUME NEW j \in 1 .. i, Passes(s[j], threshold)
          PROVE  \E k \in 1 .. l + 1 : v[k].chunk = s[j].chunk
      <4>1. PICK k \in 1 .. l : u[k].chunk = s[j].chunk
        BY <1>2, <3>1
      <4>2. v[k] = u[k] /\ k \in 1 .. l + 1
        BY <2>1, <2>2
      <4> QED
        BY <4>1, <4>2
    <3>2. \E k \in 1 .. l + 1 : v[k].chunk = s[i + 1].chunk
      BY <2>1, <2>2
    <3> QED
      BY <1>7, <3>1, <3>2
  <2>7. l + 1 <= i + 1
    BY <1>2
  <2> HIDE DEF m, v, l
  <2>8. Collected(v, s, i + 1, threshold)
    BY <2>1, <2>4, <2>5, <2>6, <2>7 DEF Collected
  <2> QED
    BY <1>6, <1>9, <2>8 DEF m
<1> QED
  BY <1>8, <1>9

LEMMA CollectTyped ==
    ASSUME NEW u \in Seq(PointRecords), NEW point \in PointRecords, NEW topK, NEW threshold
    PROVE  Collect(u, point, topK, threshold) \in Seq(PointRecords)
<1>1. Append(u, point) \in Seq(PointRecords)
  OBVIOUS
<1> QED
  BY <1>1, Zenon DEF Collect

\* What the recursion of Dense says.
DenseBy(f, results, topK, threshold) ==
    f = [i \in 0 .. Len(results) |->
            IF i = 0 THEN <<>> ELSE Collect(f[i - 1], results[i], topK, threshold)]

LEMMA DenseRecursion ==
    ASSUME NEW points, NEW topK, NEW threshold, Search(points, topK) \in Seq(PointRecords)
    PROVE  \E f : /\ f[0] = <<>>
                  /\ \A i \in 1 .. Len(Search(points, topK)) :
                        f[i] = Collect(f[i - 1], Search(points, topK)[i], topK, threshold)
                  /\ Dense(points, topK, threshold) = f[Len(Search(points, topK))]
<1> DEFINE s == Search(points, topK)
           n == Len(s)
           X == Seq(PointRecords)
           x == <<>>
           next(u, i) == Collect(u, s[i], topK, threshold)
           step == [i \in 1 .. n |-> [u \in X |-> next(u, i)]]
<1>1. n \in Nat /\ x \in X /\ \A i \in 1 .. n : s[i] \in PointRecords
  OBVIOUS
<1>2. \A i \in 1 .. n, u \in X : next(u, i) \in X
  BY <1>1, CollectTyped
<1>3. step \in [1 .. n -> [X -> X]]
  BY <1>2
<1>4. \A i \in 1 .. n, u \in X : step[i][u] = next(u, i)
  OBVIOUS
<1> HIDE DEF s, n, X, x, step, next
<1>5. Steps(X, x, n, step)
  BY <1>1, <1>3 DEF Steps
<1>6. PICK f : Follows(f, X, x, n, step)
  BY <1>5, Iteration
<1>7. f \in [0 .. n -> X] /\ f[0] = x /\ \A i \in 1 .. n : f[i] = step[i][f[i - 1]]
  BY <1>6 DEF Follows
<1>8. ASSUME NEW i \in 0 .. n
      PROVE  f[i] = IF i = 0 THEN x ELSE next(f[i - 1], i)
  <2>1. CASE i # 0
    <3>1. i \in 1 .. n /\ i - 1 \in 0 .. n
      BY <1>1, <2>1
    <3>2. f[i - 1] \in X
      BY <1>7, <3>1
    <3> QED
      BY <1>4, <1>7, <2>1, <3>1, <3>2
  <2> QED
    BY <1>7, <2>1
<1>9. DenseBy(f, s, topK, threshold)
  BY <1>7, <1>8 DEF DenseBy, n, next, x
<1> DEFINE h == CHOOSE h : DenseBy(h, s, topK, threshold)
<1>10. DenseBy(h, s, topK, threshold)
  BY <1>9, Zenon
<1>11. Dense(points, topK, threshold) = h[n]
  BY Zenon DEF Dense, DenseBy, n, s
<1> HIDE DEF h
<1>12. \A i \in 0 .. n : h[i] = IF i = 0 THEN x ELSE next(h[i - 1], i)
  BY <1>10 DEF DenseBy, n, next, x
<1>13. h[0] = x /\ \A i \in 1 .. n : h[i] = next(h[i - 1], i)
  BY <1>1, <1>12
<1> QED
  BY <1>11, <1>13 DEF s, n, x, next

LEMMA DenseCollected ==
    ASSUME NEW points \in Seq(PointRecords), NEW topK \in Nat, NEW threshold \in Nat \cup {None}
    PROVE  LET s == Firsts(points, topK)
           IN  Collected(Dense(points, topK, threshold), s, Len(s), threshold)
<1> DEFINE s == Firsts(points, topK)
           n == Len(s)
           Good(u, i) == Collected(u, s, i, threshold)
<1>1. s \in Seq(PointRecords) /\ n <= topK
  BY FirstsOf
<1>2. n \in Nat /\ s = Search(points, topK)
  BY <1>1 DEF Search
<1>3. PICK f : /\ f[0] = <<>>
               /\ \A i \in 1 .. n : f[i] = Collect(f[i - 1], s[i], topK, threshold)
               /\ Dense(points, topK, threshold) = f[n]
  BY <1>1, <1>2, DenseRecursion, SMTT(30)
<1> HIDE DEF s, n
<1> DEFINE G == {i \in Nat : i <= n => Good(f[i], i)}
<1>4. 0 \in G
  <2>1. <<>> \in Seq(PointRecords) /\ Len(<<>>) = 0
    BY EmptySeq
  <2>2. 1 .. 0 = {}
    OBVIOUS
  <2>3. Good(<<>>, 0)
    BY <2>1, <2>2 DEF Collected, Apart
  <2> HIDE DEF Good
  <2> QED
    BY <1>2, <1>3, <2>3
<1>5. ASSUME NEW i \in Nat, i \in G, i + 1 <= n
      PROVE  Good(f[i + 1], i + 1)
  <2>1. Good(f[i], i)
    BY <1>2, <1>5
  <2>2. i + 1 \in 1 .. n /\ i + 1 - 1 = i
    BY <1>2, <1>5
  <2>3. f[i + 1] = Collect(f[i], s[i + 1], topK, threshold)
    BY <1>3, <2>2
  <2>4. i + 1 <= Len(s) /\ Len(s) <= topK
    BY <1>1, <1>5 DEF n
  <2> QED
    BY <1>1, <2>1, <2>3, <2>4, CollectOne
<1>6. \A i \in Nat : i \in G => i + 1 \in G
  <2> HIDE DEF Good
  <2> QED
    BY <1>5
<1> HIDE DEF G
<1>7. \A i \in Nat : i \in G
  BY <1>4, <1>6, SetInduction
<1>8. n \in G /\ n <= n
  BY <1>2, <1>7
<1> QED
  BY <1>3, <1>8 DEF G, n, s

\* The points come best first.
Descending(points) == \A i, j \in 1 .. Len(points) : i <= j => points[i].score >= points[j].score

\* The dense results are points of the collection, one of each chunk, with the score of
\* its best point; without a threshold they are all the chunks (DenseRetriever.retrieve).
LEMMA DenseResults ==
    ASSUME NEW points \in Seq(PointRecords), Descending(points), NEW topK \in Nat,
           NEW threshold \in Nat \cup {None}
    PROVE  LET d == Dense(points, topK, threshold)
               s == Firsts(points, topK)
           IN  /\ d \in Seq(PointRecords) /\ Len(d) <= topK /\ Apart(d)
               /\ \A k \in 1 .. Len(d) : d[k].score = ScoreIn(s, d[k].chunk)
               /\ threshold = None => \A c : ScoreIn(d, c) = ScoreIn(s, c)
<1> DEFINE d == Dense(points, topK, threshold)
           s == Firsts(points, topK)
           n == Len(s)
<1>1. /\ s \in Seq(PointRecords) /\ n <= topK /\ n <= Len(points)
      /\ \A i \in 1 .. n : s[i] = points[i]
  BY FirstsOf
<1>2. n \in Nat /\ Len(points) \in Nat
  BY <1>1
<1>3. \A i \in 1 .. n : s[i] \in PointRecords
  BY <1>1
<1>4. Collected(d, s, n, threshold)
  BY DenseCollected
<1> HIDE DEF d, s
<1>5. /\ d \in Seq(PointRecords) /\ Len(d) <= n /\ Apart(d)
      /\ \A k \in 1 .. Len(d) : \E j \in 1 .. n : d[k] = s[j] /\ IsFirst(s, j, threshold)
      /\ \A j \in 1 .. n : Passes(s[j], threshold) => \E k \in 1 .. Len(d) : d[k].chunk = s[j].chunk
  BY <1>4 DEF Collected
<1>6. Len(d) \in Nat /\ Len(d) <= topK
  BY <1>1, <1>2, <1>5
<1>7. \A i, j \in 1 .. n : i <= j => s[i].score >= s[j].score
  <2>1. 1 .. n \subseteq 1 .. Len(points)
    BY <1>1, <1>2
  <2> QED
    BY <1>1, <2>1 DEF Descending
<1>8. \A i \in 1 .. n : s[i].score \in Nat /\ s[i].chunk \in Nat
  BY <1>3 DEF PointRecords
<1>9. ASSUME NEW j \in 1 .. n, IsFirst(s, j, threshold)
      PROVE  \A h \in 1 .. n : s[h].chunk = s[j].chunk => j <= h
  <2> SUFFICES ASSUME NEW h \in 1 .. n, s[h].chunk = s[j].chunk, h < j
               PROVE  FALSE
    BY <1>2
  <2>1. h \in 1 .. (j - 1) /\ h <= j
    BY <1>2
  <2>2. s[h].score >= s[j].score
    BY <1>7, <2>1
  <2>3. Passes(s[h], threshold)
    BY <1>8, <1>9, <2>2 DEF IsFirst, Passes
  <2> QED
    BY <1>9, <2>1, <2>3 DEF IsFirst
<1>10. ASSUME NEW k \in 1 .. Len(d)
       PROVE  d[k].score = ScoreIn(s, d[k].chunk)
  <2>1. PICK j \in 1 .. n : d[k] = s[j] /\ IsFirst(s, j, threshold)
    BY <1>5
  <2>2. ScoreIn(s, s[j].chunk) = s[j].score
    BY <1>1, <1>9, <2>1, ScoreFound DEF n
  <2> QED
    BY <2>1, <2>2
<1>11. ASSUME NEW k \in 1 .. Len(d)
       PROVE  ScoreIn(d, d[k].chunk) = d[k].score
  <2>1. \A j \in 1 .. Len(d) : d[j].chunk = d[k].chunk => k <= j
    BY <1>5, <1>6 DEF Apart
  <2> QED
    BY <1>5, <2>1, ScoreFound
<1>12. ASSUME threshold = None, NEW c
       PROVE  ScoreIn(d, c) = ScoreIn(s, c)
  <2>1. CASE \E k \in 1 .. Len(d) : d[k].chunk = c
    BY <1>10, <1>11, <2>1
  <2>2. CASE \A k \in 1 .. Len(d) : d[k].chunk # c
    <3>1. \A j \in 1 .. n : s[j].chunk # c
      BY <1>5, <1>12, <2>2 DEF Passes
    <3>2. ScoreIn(s, c) = None
      BY <1>1, <3>1, ScoreAbsent DEF n
    <3>3. ScoreIn(d, c) = None
      BY <1>5, <2>2, ScoreAbsent
    <3> QED
      BY <3>2, <3>3
  <2> QED
    BY <2>1, <2>2
<1> QED
  BY <1>5, <1>6, <1>10, <1>12 DEF d, s

-----------------------------------------------------------------------------
(* Evidence *)

RowRecords == [chunk : Nat, score : Nat, completed : BOOLEAN]

\* The sparse results are rows of the database, each of a chunk of its own
\* (SparseRetriever.retrieve).
LEMMA SparseResults ==
    ASSUME NEW rows \in Seq(RowRecords), Apart(rows), NEW topK \in Nat
    PROVE  LET s == Sparse(rows, topK)
           IN  s \in Seq(RowRecords) /\ Len(s) <= topK /\ Apart(s)
<1> DEFINE S == {row \in ToSet(rows) : row.completed}
           r == Kept(rows, S)
           s == Firsts(r, topK)
<1>1. s = Sparse(rows, topK)
  BY DEF Sparse
<1> HIDE DEF S
<1>2. r \in Seq(RowRecords)
  BY KeptTyped
<1>3. PICK at : Places(at, r, rows, S)
  BY KeptPlaces
<1> HIDE DEF r
<1>4. /\ s \in Seq(RowRecords) /\ Len(s) <= topK /\ Len(s) <= Len(r)
      /\ \A i \in 1 .. Len(s) : s[i] = r[i]
  BY <1>2, FirstsOf
<1> HIDE DEF s
<1>5. Apart(r)
  <2> SUFFICES ASSUME NEW k \in 1 .. Len(r), NEW l \in 1 .. Len(r), r[k].chunk = r[l].chunk
               PROVE  k = l
    BY DEF Apart
  <2>1. /\ at \in [1 .. Len(r) -> 1 .. Len(rows)] /\ r[k] = rows[at[k]] /\ r[l] = rows[at[l]]
        /\ k < l => at[k] < at[l]
        /\ l < k => at[l] < at[k]
    BY <1>3 DEF Places
  <2>2. at[k] \in 1 .. Len(rows) /\ at[l] \in 1 .. Len(rows)
    BY <2>1
  <2>3. at[k] = at[l]
    BY <2>1, <2>2 DEF Apart
  <2>4. at[k] \in Int /\ k \in Int /\ l \in Int
    BY <2>2
  <2> QED
    BY <2>1, <2>3, <2>4
<1>6. Len(s) \in Nat /\ Len(r) \in Nat
  BY <1>2, <1>4
<1>7. 1 .. Len(s) \subseteq 1 .. Len(r)
  BY <1>4, <1>6
<1>8. Apart(s)
  BY <1>4, <1>5, <1>7 DEF Apart
<1> QED
  BY <1>1, <1>4, <1>8

LEMMA ScoreKnown ==
    ASSUME NEW T, NEW s \in Seq(T), Apart(s), NEW k \in 1 .. Len(s)
    PROVE  ScoreIn(s, s[k].chunk) = s[k].score
<1>1. \A j \in 1 .. Len(s) : s[j].chunk = s[k].chunk => k <= j
  BY DEF Apart
<1> QED
  BY <1>1, ScoreFound

LEMMA ScoreOfNothing ==
    ASSUME NEW c
    PROVE  ScoreIn(<<>>, c) = None
<1> DEFINE e == <<>>
<1>1. e \in Seq(Nat) /\ Len(e) = 0
  BY EmptySeq
<1> HIDE DEF e
<1>2. \A j \in 1 .. Len(e) : e[j].chunk # c
  BY <1>1
<1>3. ScoreIn(e, c) = None
  BY <1>1, <1>2, ScoreAbsent
<1> QED
  BY <1>3 DEF e

LEMMA SeqOfFunction ==
    ASSUME NEW T, NEW n \in Nat, NEW f \in [1 .. n -> T]
    PROVE  f \in Seq(T) /\ Len(f) = n
<1>1. f \in Seq(T)
  OBVIOUS
<1>2. DOMAIN f = 1 .. n
  OBVIOUS
<1> QED
  BY <1>1, <1>2

LEMMA ScoreInTyped ==
    ASSUME NEW T, NEW s \in Seq(T), Apart(s), \A k \in 1 .. Len(s) : s[k].score \in Nat, NEW c
    PROVE  ScoreIn(s, c) \in Nat \cup {None}
<1>1. CASE \A k \in 1 .. Len(s) : s[k].chunk # c
  BY <1>1, ScoreAbsent
<1>2. ASSUME NEW k \in 1 .. Len(s), s[k].chunk = c
      PROVE  ScoreIn(s, c) \in Nat \cup {None}
  BY <1>2, ScoreKnown
<1> QED
  BY <1>1, <1>2

LEMMA ShowsWhen ==
    ASSUME NEW T, NEW rows \in Seq(T), NEW topK, Len(rows) <= topK, NEW dense, NEW sparse,
           \A i \in 1 .. Len(rows) : rows[i].chunk \in Nat,
           Apart(rows),
           \A i \in 1 .. Len(rows) :
              /\ rows[i].dense = ScoreIn(dense, rows[i].chunk)
              /\ rows[i].sparse = ScoreIn(sparse, rows[i].chunk)
              /\ rows[i].dense # None \/ rows[i].sparse # None
    PROVE  ShowsScores(rows, topK, dense, sparse)
<1> DEFINE c == ChunksOf(rows)
<1>1. c \in Seq(Nat) /\ Len(c) = Len(rows) /\ \A i \in 1 .. Len(rows) : c[i] = rows[i].chunk
  BY ChunksOfResults
<1>2. DOMAIN rows = 1 .. Len(rows)
  OBVIOUS
<1> HIDE DEF c
<1>3. DOMAIN c = 1 .. Len(rows)
  BY <1>1
<1>4. IsInjective(c)
  BY <1>1, <1>3 DEF IsInjective, Apart
<1> QED
  BY <1>2, <1>4 DEF ShowsScores, c

\* The rows of mode "dense",
LEMMA DenseShows ==
    ASSUME NEW points \in Seq(PointRecords), Descending(points), NEW topK \in Nat,
           NEW threshold \in Nat \cup {None}
    PROVE  ShowsScores(BasicRows(Dense(points, topK, threshold), FALSE), topK,
                       Firsts(points, topK), <<>>)
<1> DEFINE d == Dense(points, topK, threshold)
           s == Firsts(points, topK)
           rows == BasicRows(d, FALSE)
           T == {BasicRow(r, FALSE) : r \in PointRecords}
           n == Len(d)
<1>1. /\ d \in Seq(PointRecords) /\ n <= topK /\ Apart(d)
      /\ \A k \in 1 .. n : d[k].score = ScoreIn(s, d[k].chunk)
  BY DenseResults
<1> HIDE DEF d, s
<1>2. n \in Nat /\ DOMAIN d = 1 .. n /\ \A k \in 1 .. n : d[k] \in PointRecords
  BY <1>1
<1>3. \A k \in 1 .. n : d[k].chunk \in Nat /\ d[k].score \in Nat
  BY <1>2 DEF PointRecords
<1>4. rows = [k \in 1 .. n |-> BasicRow(d[k], FALSE)]
  BY <1>2 DEF BasicRows
<1>5. \A k \in 1 .. n : BasicRow(d[k], FALSE) \in T
  BY <1>2
<1> HIDE DEF rows, T, n
<1>6. rows \in Seq(T) /\ Len(rows) = n /\ \A k \in 1 .. n : rows[k] = BasicRow(d[k], FALSE)
  <2>1. rows \in [1 .. n -> T] /\ \A k \in 1 .. n : rows[k] = BasicRow(d[k], FALSE)
    BY <1>4, <1>5
  <2> QED
    BY <1>2, <2>1, SeqOfFunction
<1>7. \A k \in 1 .. n : /\ rows[k].chunk = d[k].chunk /\ rows[k].dense = d[k].score
                        /\ rows[k].sparse = None
  BY <1>6 DEF BasicRow
<1>8. \A c : ScoreIn(<<>>, c) = None
  BY ScoreOfNothing
<1>9. Apart(rows)
  BY <1>1, <1>6, <1>7 DEF Apart, n
<1>10. \A k \in 1 .. Len(rows) :
           /\ rows[k].chunk \in Nat
           /\ rows[k].dense = ScoreIn(s, rows[k].chunk)
           /\ rows[k].sparse = ScoreIn(<<>>, rows[k].chunk)
           /\ rows[k].dense # None
  BY <1>1, <1>3, <1>6, <1>7, <1>8 DEF None, n
<1>11. Len(rows) <= topK
  BY <1>1, <1>6 DEF n
<1> QED
  BY <1>6, <1>9, <1>10, <1>11, ShowsWhen DEF rows, d, s

\* of mode "sparse",
LEMMA SparseShows ==
    ASSUME NEW table \in Seq(RowRecords), Apart(table), NEW topK \in Nat
    PROVE  ShowsScores(BasicRows(Sparse(table, topK), TRUE), topK, <<>>, Sparse(table, topK))
<1> DEFINE d == Sparse(table, topK)
           rows == BasicRows(d, TRUE)
           T == {BasicRow(r, TRUE) : r \in RowRecords}
           n == Len(d)
<1>1. d \in Seq(RowRecords) /\ n <= topK /\ Apart(d)
  BY SparseResults
<1> HIDE DEF d
<1>2. n \in Nat /\ DOMAIN d = 1 .. n /\ \A k \in 1 .. n : d[k] \in RowRecords
  BY <1>1
<1>3. \A k \in 1 .. n : d[k].chunk \in Nat /\ d[k].score \in Nat
  BY <1>2 DEF RowRecords
<1>4. rows = [k \in 1 .. n |-> BasicRow(d[k], TRUE)]
  BY <1>2 DEF BasicRows
<1>5. \A k \in 1 .. n : BasicRow(d[k], TRUE) \in T
  BY <1>2
<1> HIDE DEF rows, T, n
<1>6. rows \in Seq(T) /\ Len(rows) = n /\ \A k \in 1 .. n : rows[k] = BasicRow(d[k], TRUE)
  <2>1. rows \in [1 .. n -> T] /\ \A k \in 1 .. n : rows[k] = BasicRow(d[k], TRUE)
    BY <1>4, <1>5
  <2> QED
    BY <1>2, <2>1, SeqOfFunction
<1>7. \A k \in 1 .. n : /\ rows[k].chunk = d[k].chunk /\ rows[k].sparse = d[k].score
                        /\ rows[k].dense = None
  BY <1>6 DEF BasicRow
<1>8. \A c : ScoreIn(<<>>, c) = None
  BY ScoreOfNothing
<1>9. Apart(rows)
  BY <1>1, <1>6, <1>7 DEF Apart, n
<1>10. \A k \in 1 .. n : ScoreIn(d, d[k].chunk) = d[k].score
  BY <1>1, ScoreKnown DEF n
<1>11. \A k \in 1 .. Len(rows) :
           /\ rows[k].chunk \in Nat
           /\ rows[k].dense = ScoreIn(<<>>, rows[k].chunk)
           /\ rows[k].sparse = ScoreIn(d, rows[k].chunk)
           /\ rows[k].sparse # None
  BY <1>3, <1>6, <1>7, <1>8, <1>10 DEF None
<1>12. Len(rows) <= topK
  BY <1>1, <1>6 DEF n
<1> QED
  BY <1>6, <1>9, <1>11, <1>12, ShowsWhen DEF rows, d

\* Rows with the scores of all lists.
ResultRecords == [chunk : Nat, dense : Nat \cup {None}, sparse : Nat \cup {None}, fusion : Nat]

Environments ==
    [owned : BOOLEAN, up : BOOLEAN,
     points : {s \in Seq(PointRecords) : Descending(s)},
     rows : {s \in Seq(RowRecords) : Apart(s)},
     threshold : Nat \cup {None},
     answer : [came : BOOLEAN, results : Seq(ItemRecords)],
     fallback : BOOLEAN,
     p : Parameters]

LEMMA EnvironmentParts ==
    ASSUME NEW env \in Environments
    PROVE  /\ env.points \in Seq(PointRecords) /\ Descending(env.points)
           /\ env.rows \in Seq(RowRecords) /\ Apart(env.rows)
           /\ env.threshold \in Nat \cup {None} /\ env.p \in Parameters
           /\ env.answer.results \in Seq(ItemRecords) /\ env.fallback \in BOOLEAN
<1> DEFINE P == {s \in Seq(PointRecords) : Descending(s)}
           R == {s \in Seq(RowRecords) : Apart(s)}
           A == [came : BOOLEAN, results : Seq(ItemRecords)]
<1>1. /\ env.points \in P /\ env.rows \in R /\ env.threshold \in Nat \cup {None}
      /\ env.p \in Parameters /\ env.answer \in A /\ env.fallback \in BOOLEAN
  <2> HIDE DEF P, R, A
  <2> QED
    BY DEF Environments, P, R, A
<1> QED
  BY <1>1

\* of mode "hybrid",
LEMMA HybridShows ==
    ASSUME NEW env \in Environments, NEW topK \in Nat, NEW candidateK \in Nat
    PROVE  LET rows == Hybrid(env, topK, candidateK)
           IN  /\ rows \in Seq(ResultRecords) /\ Len(rows) <= topK /\ Apart(rows)
               /\ \A i \in 1 .. Len(rows) :
                    /\ rows[i].dense = ScoreIn(Firsts(env.points, candidateK), rows[i].chunk)
                    /\ rows[i].sparse = ScoreIn(Sparse(env.rows, candidateK), rows[i].chunk)
                    /\ rows[i].dense # None \/ rows[i].sparse # None
<1> DEFINE s == Firsts(env.points, candidateK)
           d == Dense(env.points, candidateK, None)
           e == Sparse(env.rows, candidateK)
           a == ChunksOf(d)
           b == ChunksOf(e)
           found == ToSet(a) \cup ToSet(b)
           f == Fuse(a, b, topK, env.p)
           rows == Hybrid(env, topK, candidateK)
           n == Len(f)
<1>1. None \in Nat \cup {None}
  OBVIOUS
<1>2. /\ d \in Seq(PointRecords) /\ Apart(d)
      /\ \A c : ScoreIn(d, c) = ScoreIn(s, c)
  BY <1>1, EnvironmentParts, DenseResults
<1>3. e \in Seq(RowRecords) /\ Apart(e)
  BY EnvironmentParts, SparseResults
<1>4. rows = [i \in DOMAIN f |-> HybridResult(d, e, f[i], env.p)]
  BY Zenon DEF Hybrid, Fused
<1> HIDE DEF d, e, s
<1>5. \A k \in 1 .. Len(d) : d[k].chunk \in Nat /\ d[k].score \in Nat
  <2>1. \A k \in 1 .. Len(d) : d[k] \in PointRecords
    BY <1>2
  <2> QED
    BY <2>1 DEF PointRecords
<1>6. \A k \in 1 .. Len(e) : e[k].chunk \in Nat /\ e[k].score \in Nat
  <2>1. \A k \in 1 .. Len(e) : e[k] \in RowRecords
    BY <1>3
  <2> QED
    BY <2>1 DEF RowRecords
<1>7. a \in Seq(Nat) /\ Len(a) = Len(d) /\ \A k \in 1 .. Len(d) : a[k] = d[k].chunk
  BY <1>2, <1>5, ChunksOfResults
<1>8. b \in Seq(Nat) /\ Len(b) = Len(e) /\ \A k \in 1 .. Len(e) : b[k] = e[k].chunk
  BY <1>3, <1>6, ChunksOfResults
<1> HIDE DEF a, b
<1>9. found \subseteq Nat
  BY <1>7, <1>8, ToSetFinite
<1>10. \A c \in found : \/ \E k \in 1 .. Len(d) : d[k].chunk = c
                        \/ \E k \in 1 .. Len(e) : e[k].chunk = c
  <2>1. /\ \A c : c \in ToSet(a) <=> \E k \in 1 .. Len(a) : a[k] = c
        /\ \A c : c \in ToSet(b) <=> \E k \in 1 .. Len(b) : b[k] = c
    BY <1>7, <1>8, InToSet
  <2>2. \A c \in found : c \in ToSet(a) \/ c \in ToSet(b)
    OBVIOUS
  <2>3. ASSUME NEW c \in ToSet(a)
        PROVE  \E k \in 1 .. Len(d) : d[k].chunk = c
    BY <1>7, <2>1
  <2>4. ASSUME NEW c \in ToSet(b)
        PROVE  \E k \in 1 .. Len(e) : e[k].chunk = c
    BY <1>8, <2>1
  <2> HIDE DEF found
  <2> QED
    BY <2>2, <2>3, <2>4
<1>11. f \in Seq(found) /\ n <= topK /\ Injective(f)
  BY <1>7, <1>8, EnvironmentParts, FusedChunks
<1> HIDE DEF found, f
<1>12. n \in Nat /\ DOMAIN f = 1 .. n /\ \A i \in 1 .. n : f[i] \in found /\ f[i] \in Nat
  <2>1. f \in Seq(found)
    BY <1>11
  <2>2. n \in Nat /\ DOMAIN f = 1 .. n /\ \A i \in 1 .. n : f[i] \in found
    BY <2>1
  <2> QED
    BY <1>9, <2>2
<1> DEFINE row(c) == HybridResult(d, e, c, env.p)
<1>13. ASSUME NEW c \in Nat
       PROVE  row(c) \in ResultRecords
  <2>1. ScoreIn(d, c) \in Nat \cup {None}
    BY <1>2, <1>5, ScoreInTyped
  <2>2. ScoreIn(e, c) \in Nat \cup {None}
    BY <1>3, <1>6, ScoreInTyped
  <2>3. Score(a, b, c, env.p) \in Nat
    BY <1>7, <1>8, EnvironmentParts, ScoreTyped
  <2> QED
    BY <2>1, <2>2, <2>3 DEF HybridResult, ResultRecords, a, b
<1>14. ASSUME NEW c \in found
       PROVE  /\ row(c).chunk = c
              /\ row(c).dense = ScoreIn(s, c)
              /\ row(c).sparse = ScoreIn(e, c)
              /\ row(c).dense # None \/ row(c).sparse # None
  <2>1. row(c).chunk = c /\ row(c).dense = ScoreIn(d, c) /\ row(c).sparse = ScoreIn(e, c)
    BY DEF HybridResult
  <2>2. ASSUME NEW k \in 1 .. Len(d), d[k].chunk = c
        PROVE  ScoreIn(d, c) # None
    <3>1. ScoreIn(d, c) = d[k].score
      BY <1>2, <2>2, ScoreKnown
    <3> QED
      BY <1>5, <3>1 DEF None
  <2>3. ASSUME NEW k \in 1 .. Len(e), e[k].chunk = c
        PROVE  ScoreIn(e, c) # None
    <3>1. ScoreIn(e, c) = e[k].score
      BY <1>3, <2>3, ScoreKnown
    <3> QED
      BY <1>6, <3>1 DEF None
  <2> HIDE DEF row
  <2> QED
    BY <1>2, <1>10, <2>1, <2>2, <2>3
<1> HIDE DEF row, rows, n
<1>15. rows \in [1 .. n -> ResultRecords] /\ \A i \in 1 .. n : rows[i] = row(f[i])
  <2>1. rows = [i \in 1 .. n |-> row(f[i])]
    BY <1>4, <1>12 DEF row
  <2>2. \A i \in 1 .. n : row(f[i]) \in ResultRecords
    BY <1>12, <1>13
  <2> QED
    BY <2>1, <2>2
<1>16. rows \in Seq(ResultRecords) /\ Len(rows) = n
  BY <1>12, <1>15, SeqOfFunction
<1>17. \A i \in 1 .. n : /\ rows[i].chunk = f[i]
                         /\ rows[i].dense = ScoreIn(s, f[i])
                         /\ rows[i].sparse = ScoreIn(e, f[i])
                         /\ rows[i].dense # None \/ rows[i].sparse # None
  BY <1>12, <1>14, <1>15
<1>18. Apart(rows)
  BY <1>11, <1>16, <1>17 DEF Apart, Injective, n
<1> QED
  BY <1>11, <1>16, <1>17, <1>18 DEF rows, n, s, e

\* and reranked: each row of a selection is that of its chunk in the shortlist.
LEMMA RerankedResults ==
    ASSUME NEW shortlist \in Seq(ResultRecords), Apart(shortlist), NEW topK \in Nat,
           NEW chunks, Selects(chunks, ChunksOf(shortlist), topK)
    PROVE  LET rows == RerankedRows(shortlist, chunks)
           IN  /\ rows \in Seq(ResultRecords) /\ Len(rows) <= topK /\ Apart(rows)
               /\ \A i \in 1 .. Len(rows) : \E k \in 1 .. Len(shortlist) : rows[i] = shortlist[k]
<1> DEFINE n == Len(chunks)
           m == Len(shortlist)
           row(i) == [Evidence(shortlist, chunks[i], i) EXCEPT !.chunk = chunks[i]]
           rows == RerankedRows(shortlist, chunks)
<1>1. m \in Nat /\ DOMAIN shortlist = 1 .. m /\ \A k \in 1 .. m : shortlist[k] \in ResultRecords
  OBVIOUS
<1>2. \A k \in 1 .. m : shortlist[k].chunk \in Nat
  BY <1>1 DEF ResultRecords
<1>3. /\ Len(ChunksOf(shortlist)) = m
      /\ \A k \in 1 .. m : ChunksOf(shortlist)[k] = shortlist[k].chunk
  BY <1>2, ChunksOfResults
<1>4. /\ chunks \in Seq(Nat) /\ n <= topK /\ Injective(chunks)
      /\ \A i \in 1 .. n : \E k \in 1 .. m : chunks[i] = shortlist[k].chunk
  <2>1. /\ chunks \in Seq(Nat) /\ n <= topK /\ Injective(chunks)
        /\ \A i \in 1 .. n : \E k \in 1 .. Len(ChunksOf(shortlist)) : chunks[i] = ChunksOf(shortlist)[k]
    BY DEF Selects
  <2> QED
    BY <1>3, <2>1
<1>5. n \in Nat /\ DOMAIN chunks = 1 .. n
  BY <1>4
<1> HIDE DEF m
<1>6. ASSUME NEW i \in 1 .. n
      PROVE  \E k \in 1 .. m : row(i) = shortlist[k] /\ row(i).chunk = chunks[i]
  <2>1. \E k \in DOMAIN shortlist : shortlist[k].chunk = chunks[i]
    BY <1>1, <1>4
  <2>2. PICK k \in DOMAIN shortlist : /\ shortlist[k].chunk = chunks[i]
                                      /\ Evidence(shortlist, chunks[i], i) = shortlist[k]
    BY <2>1, Zenon DEF Evidence
  <2>3. k \in 1 .. m /\ shortlist[k] \in ResultRecords
    BY <1>1, <2>2
  <2>4. \A r \in ResultRecords : [r EXCEPT !.chunk = r.chunk] = r
    BY DEF ResultRecords
  <2>5. row(i) = shortlist[k]
    BY <2>2, <2>3, <2>4
  <2> HIDE DEF row
  <2> QED
    BY <2>2, <2>3, <2>5
<1> HIDE DEF row, rows
<1>7. rows = [i \in 1 .. n |-> row(i)]
  BY <1>5 DEF rows, row, RerankedRows
<1>8. \A i \in 1 .. n : row(i) \in ResultRecords
  BY <1>1, <1>6
<1>9. rows \in [1 .. n -> ResultRecords] /\ \A i \in 1 .. n : rows[i] = row(i)
  BY <1>7, <1>8
<1>10. rows \in Seq(ResultRecords) /\ Len(rows) = n
  BY <1>5, <1>9, SeqOfFunction
<1>11. \A i \in 1 .. n : rows[i].chunk = chunks[i] /\ \E k \in 1 .. m : rows[i] = shortlist[k]
  BY <1>6, <1>9
<1>12. Apart(rows)
  BY <1>4, <1>10, <1>11 DEF Apart, Injective, n
<1> QED
  BY <1>4, <1>10, <1>11, <1>12 DEF rows, m, n

LEMMA ShortlistReranked ==
    ASSUME NEW env \in Environments, NEW topK \in Nat,
           NEW shortlist \in Seq(ResultRecords), Apart(shortlist)
    PROVE  LET rows == Reranked(env, topK, shortlist).rows
           IN  /\ rows \in Seq(ResultRecords) /\ Len(rows) <= topK /\ Apart(rows)
               /\ \A i \in 1 .. Len(rows) : \E k \in 1 .. Len(shortlist) : rows[i] = shortlist[k]
<1> DEFINE c == ChunksOf(shortlist)
           reranked == Rerank(c, env.answer, topK, env.fallback)
           rows == Reranked(env, topK, shortlist).rows
           given == RerankedRows(shortlist, reranked.chunks)
<1>1. \A k \in 1 .. Len(shortlist) : shortlist[k].chunk \in Nat
  <2>1. \A k \in 1 .. Len(shortlist) : shortlist[k] \in ResultRecords
    OBVIOUS
  <2> QED
    BY <2>1 DEF ResultRecords
<1>2. /\ c \in Seq(Nat) /\ Len(c) = Len(shortlist)
      /\ \A k \in 1 .. Len(shortlist) : c[k] = shortlist[k].chunk
  BY <1>1, ChunksOfResults
<1> HIDE DEF c
<1>3. Injective(c)
  BY <1>2 DEF Injective, Apart
<1>4. Selects(reranked.chunks, c, topK)
  BY <1>2, <1>3, EnvironmentParts, RerankSelects
<1> HIDE DEF reranked
<1>5. /\ given \in Seq(ResultRecords) /\ Len(given) <= topK /\ Apart(given)
      /\ \A i \in 1 .. Len(given) : \E k \in 1 .. Len(shortlist) : given[i] = shortlist[k]
  BY <1>4, RerankedResults DEF c
<1>6. rows = IF reranked.error THEN <<>> ELSE given
  BY DEF Reranked, RerankedItems, Ok, Error, reranked, c
<1> HIDE DEF rows, given
<1>7. CASE ~reranked.error
  BY <1>5, <1>6, <1>7 DEF rows
<1>8. CASE reranked.error
  <2>1. rows = <<>>
    BY <1>6, <1>8
  <2>2. rows \in Seq(ResultRecords) /\ Len(rows) = 0
    BY <2>1, EmptySeq
  <2> QED
    BY <2>2 DEF rows, Apart
<1> QED
  BY <1>7, <1>8

DebugRequests == [mode : Modes, topK : Nat, candidateK : Nat, blank : BOOLEAN]

LEMMA NothingShows ==
    ASSUME NEW topK \in Nat, NEW dense, NEW sparse
    PROVE  ShowsScores(<<>>, topK, dense, sparse)
<1> DEFINE e == <<>>
<1>1. e \in Seq(Nat) /\ Len(e) = 0
  BY EmptySeq
<1> HIDE DEF e
<1>2. 1 .. Len(e) = {} /\ Len(e) <= topK
  BY <1>1
<1>3. Apart(e)
  BY <1>2 DEF Apart
<1>4. ShowsScores(e, topK, dense, sparse)
  BY <1>1, <1>2, <1>3, ShowsWhen
<1> QED
  BY <1>4 DEF e

\* The requests that end before anything is retrieved.
Refused(env, request) ==
    \/ ~env.owned \/ request.blank
    \/ request.mode \in {"hybrid", "rerank"} /\ request.candidateK < request.topK
    \/ request.mode # "sparse" /\ ~env.up

\* A refused request has no rows,
LEMMA DebugRefused ==
    ASSUME NEW env, NEW request, Refused(env, request)
    PROVE  Debug(env, request).status # 200 /\ Debug(env, request).rows = <<>>
<1>1. \/ Debug(env, request) = Error(404) \/ Debug(env, request) = Error(422)
      \/ Debug(env, request) = Error(502)
  <2> DEFINE A == \/ request.blank
                  \/ request.mode \in {"hybrid", "rerank"} /\ request.candidateK < request.topK
             B == request.mode # "sparse" /\ ~env.up
  <2>1. ASSUME A
        PROVE  RetrieveItems(env, request) = Error(422)
    BY <2>1, Zenon DEF RetrieveItems
  <2>2. ASSUME ~A, B
        PROVE  RetrieveItems(env, request) = Error(502)
    BY <2>2, Zenon DEF RetrieveItems
  <2>3. ASSUME env.owned
        PROVE  Debug(env, request) = RetrieveItems(env, request)
    BY <2>3, Zenon DEF Debug
  <2>4. ~env.owned \/ A \/ B
    BY Zenon DEF Refused
  <2> HIDE DEF A, B
  <2>5. ASSUME env.owned, A
        PROVE  Debug(env, request) = Error(422)
    BY <2>1, <2>3, <2>5
  <2>6. ASSUME env.owned, ~A, B
        PROVE  Debug(env, request) = Error(502)
    BY <2>2, <2>3, <2>6
  <2>7. ~env.owned => Debug(env, request) = Error(404)
    BY Zenon DEF Debug
  <2> QED
    BY <2>4, <2>5, <2>6, <2>7
<1>2. /\ Error(404).status = 404 /\ Error(422).status = 422 /\ Error(502).status = 502
      /\ Error(404).rows = <<>> /\ Error(422).rows = <<>> /\ Error(502).rows = <<>>
  BY DEF Error
<1>3. 404 # 200 /\ 422 # 200 /\ 502 # 200
  OBVIOUS
<1> QED
  BY <1>1, <1>2, <1>3

\* and an answered one the rows of its mode.
LEMMA DebugAnswers ==
    ASSUME NEW env, NEW request, ~Refused(env, request)
    PROVE  /\ request.mode = "dense" =>
                Debug(env, request)
                    = Ok(BasicRows(Dense(env.points, request.topK, env.threshold), FALSE))
           /\ request.mode = "sparse" =>
                Debug(env, request) = Ok(BasicRows(Sparse(env.rows, request.topK), TRUE))
           /\ request.mode = "hybrid" =>
                Debug(env, request) = Ok(Hybrid(env, request.topK, request.candidateK))
           /\ request.mode = "rerank" =>
                Debug(env, request)
                    = Reranked(env, request.topK, Hybrid(env, request.topK, request.candidateK))
<1> DEFINE dense == Ok(BasicRows(Dense(env.points, request.topK, env.threshold), FALSE))
           sparse == Ok(BasicRows(Sparse(env.rows, request.topK), TRUE))
           hybrid == Ok(Hybrid(env, request.topK, request.candidateK))
           rerank == Reranked(env, request.topK, Hybrid(env, request.topK, request.candidateK))
<1>1. Debug(env, request) = CASE request.mode = "dense" -> dense
                              [] request.mode = "sparse" -> sparse
                              [] request.mode = "hybrid" -> hybrid
                              [] request.mode = "rerank" -> rerank
  BY Zenon DEF Refused, Debug, RetrieveItems, Shortlist
<1> HIDE DEF dense, sparse, hybrid, rerank
<1>2. /\ request.mode = "dense" => Debug(env, request) = dense
      /\ request.mode = "sparse" => Debug(env, request) = sparse
      /\ request.mode = "hybrid" => Debug(env, request) = hybrid
      /\ request.mode = "rerank" => Debug(env, request) = rerank
  BY <1>1
<1> QED
  BY <1>2 DEF dense, sparse, hybrid, rerank

\* Every row of a debug is a chunk of its own that the retrievers have found, with the
\* scores they gave it, in every mode, for any stores and any answer of the reranker
\* (RetrievalDebugService._retrieve_items).
THEOREM DebugsKeepEvidence ==
    ASSUME NEW env \in Environments, NEW request \in DebugRequests
    PROVE  KeepsEvidence(env, request)
<1> DEFINE topK == request.topK
           kk == request.candidateK
           answered == Debug(env, request)
<1>1. topK \in Nat /\ kk \in Nat /\ request.mode \in Modes
  BY DEF DebugRequests
<1>2. CASE answered.rows = <<>>
  BY <1>1, <1>2, NothingShows DEF KeepsEvidence
<1>3. CASE /\ request.mode = "dense"
           /\ answered = Ok(BasicRows(Dense(env.points, topK, env.threshold), FALSE))
  <2>1. ShowsScores(BasicRows(Dense(env.points, topK, env.threshold), FALSE), topK,
                    Firsts(env.points, topK), <<>>)
    BY <1>1, EnvironmentParts, DenseShows
  <2>2. answered.rows = BasicRows(Dense(env.points, topK, env.threshold), FALSE)
    BY <1>3 DEF Ok
  <2> QED
    BY <1>3, <2>1, <2>2 DEF KeepsEvidence
<1>4. CASE /\ request.mode = "sparse"
           /\ answered = Ok(BasicRows(Sparse(env.rows, topK), TRUE))
  <2>1. ShowsScores(BasicRows(Sparse(env.rows, topK), TRUE), topK, <<>>, Sparse(env.rows, topK))
    BY <1>1, EnvironmentParts, SparseShows
  <2>2. answered.rows = BasicRows(Sparse(env.rows, topK), TRUE)
    BY <1>4 DEF Ok
  <2> QED
    BY <1>4, <2>1, <2>2 DEF KeepsEvidence
<1>5. ASSUME answered.rows \in Seq(ResultRecords), Len(answered.rows) <= topK,
             Apart(answered.rows), request.mode \in {"hybrid", "rerank"},
             \A i \in 1 .. Len(answered.rows) :
                \E k \in 1 .. Len(Hybrid(env, topK, kk)) : answered.rows[i] = Hybrid(env, topK, kk)[k]
      PROVE  KeepsEvidence(env, request)
  <2> DEFINE rows == answered.rows
             hybrid == Hybrid(env, topK, kk)
             s == Firsts(env.points, kk)
             e == Sparse(env.rows, kk)
  <2>1. \A k \in 1 .. Len(hybrid) :
            /\ hybrid[k].dense = ScoreIn(s, hybrid[k].chunk)
            /\ hybrid[k].sparse = ScoreIn(e, hybrid[k].chunk)
            /\ hybrid[k].dense # None \/ hybrid[k].sparse # None
    BY <1>1, HybridShows
  <2>2. \A i \in 1 .. Len(rows) : \E k \in 1 .. Len(hybrid) : rows[i] = hybrid[k]
    BY <1>5
  <2>3. KeepsEvidence(env, request) <=> ShowsScores(rows, topK, s, e)
    <3>1. request.mode # "dense" /\ request.mode # "sparse"
      BY <1>5
    <3> QED
      BY <1>5, <3>1 DEF KeepsEvidence
  <2> HIDE DEF hybrid, s, e
  <2>4. rows \in Seq(ResultRecords) /\ Len(rows) <= topK /\ Apart(rows)
    BY <1>5
  <2> HIDE DEF rows, topK, kk
  <2>5. \A i \in 1 .. Len(rows) : rows[i].chunk \in Nat
    <3>1. \A i \in 1 .. Len(rows) : rows[i] \in ResultRecords
      BY <2>4
    <3> QED
      BY <3>1 DEF ResultRecords
  <2>6. \A i \in 1 .. Len(rows) :
            /\ rows[i].dense = ScoreIn(s, rows[i].chunk)
            /\ rows[i].sparse = ScoreIn(e, rows[i].chunk)
            /\ rows[i].dense # None \/ rows[i].sparse # None
    BY <2>1, <2>2
  <2>7. ShowsScores(rows, topK, s, e)
    BY <2>4, <2>5, <2>6, ShowsWhen
  <2> QED
    BY <2>3, <2>7
<1>6. /\ Hybrid(env, topK, kk) \in Seq(ResultRecords) /\ Len(Hybrid(env, topK, kk)) <= topK
      /\ Apart(Hybrid(env, topK, kk))
  BY <1>1, HybridShows
<1>7. CASE request.mode = "hybrid" /\ answered = Ok(Hybrid(env, topK, kk))
  <2>1. answered.rows = Hybrid(env, topK, kk)
    BY <1>7 DEF Ok
  <2> QED
    BY <1>5, <1>6, <1>7, <2>1
<1>8. CASE request.mode = "rerank" /\ answered = Reranked(env, topK, Hybrid(env, topK, kk))
  <2> DEFINE hybrid == Hybrid(env, topK, kk)
  <2>1. hybrid \in Seq(ResultRecords) /\ Apart(hybrid)
    BY <1>6
  <2> HIDE DEF hybrid, answered
  <2>2. /\ answered.rows \in Seq(ResultRecords) /\ Len(answered.rows) <= topK /\ Apart(answered.rows)
        /\ \A i \in 1 .. Len(answered.rows) : \E k \in 1 .. Len(hybrid) : answered.rows[i] = hybrid[k]
    BY <1>1, <1>8, <2>1, ShortlistReranked DEF hybrid
  <2> QED
    BY <1>5, <1>8, <2>2 DEF hybrid, answered
<1>9. \/ request.mode = "dense" \/ request.mode = "sparse" \/ request.mode = "hybrid"
      \/ request.mode = "rerank"
  BY <1>1 DEF Modes
<1> QED
  BY <1>2, <1>3, <1>4, <1>7, <1>8, <1>9, DebugRefused, DebugAnswers, ZenonT(40)

-----------------------------------------------------------------------------
(* Recall *)

\* The share of one case in the total, in sixths.
Recalled(result) == (6 * result.recall[1]) \div result.recall[2]

\* What the recursion of TotalRecall says.
RecalledBy(f, results) ==
    f = [i \in 0 .. Len(results) |->
            IF i = 0 THEN 0
            ELSE f[i - 1] + (6 * results[i].recall[1]) \div results[i].recall[2]]

LEMMA RecallRecursion ==
    ASSUME NEW results, Len(results) \in Nat, \A i \in 1 .. Len(results) : Recalled(results[i]) \in Nat
    PROVE  \E f : /\ f[0] = 0
                  /\ \A i \in 1 .. Len(results) : f[i] = f[i - 1] + Recalled(results[i])
                  /\ TotalRecall(results) = f[Len(results)]
<1> DEFINE n == Len(results)
           X == Nat
           next(u, i) == u + (6 * results[i].recall[1]) \div results[i].recall[2]
           step == [i \in 1 .. n |-> [u \in X |-> next(u, i)]]
<1>1. n \in Nat /\ 0 \in X
  OBVIOUS
<1>2. \A i \in 1 .. n, u \in X : next(u, i) = u + Recalled(results[i]) /\ next(u, i) \in X
  BY DEF Recalled
<1>3. step \in [1 .. n -> [X -> X]]
  <2> HIDE DEF next, X, n
  <2> QED
    BY <1>2
<1>4. \A i \in 1 .. n, u \in X : step[i][u] = next(u, i)
  OBVIOUS
<1> HIDE DEF n, X, step, next
<1>5. Steps(X, 0, n, step)
  BY <1>1, <1>3 DEF Steps
<1>6. PICK f : Follows(f, X, 0, n, step)
  BY <1>5, Iteration
<1>7. f \in [0 .. n -> X] /\ f[0] = 0 /\ \A i \in 1 .. n : f[i] = step[i][f[i - 1]]
  BY <1>6 DEF Follows
<1>8. ASSUME NEW i \in 0 .. n
      PROVE  f[i] = IF i = 0 THEN 0 ELSE next(f[i - 1], i)
  <2>1. CASE i # 0
    <3>1. i \in 1 .. n /\ i - 1 \in 0 .. n
      BY <1>1, <2>1
    <3>2. f[i - 1] \in X
      BY <1>7, <3>1
    <3> QED
      BY <1>4, <1>7, <2>1, <3>1, <3>2
  <2> QED
    BY <1>7, <2>1
<1>9. RecalledBy(f, results)
  BY <1>7, <1>8 DEF RecalledBy, n, next
<1> DEFINE h == CHOOSE h : RecalledBy(h, results)
<1>10. RecalledBy(h, results)
  BY <1>9, Zenon
<1>11. TotalRecall(results) = h[n]
  BY Zenon DEF TotalRecall, RecalledBy, n
<1> HIDE DEF h
<1>12. \A i \in 0 .. n : h[i] = IF i = 0 THEN 0 ELSE next(h[i - 1], i)
  BY <1>10, Zenon DEF RecalledBy, n, next
<1>13. h[0] = 0 /\ \A i \in 1 .. n : h[i] = next(h[i - 1], i)
  BY <1>1, <1>12
<1>14. \A i \in 1 .. n : h[i] = h[i - 1] + Recalled(results[i])
  BY <1>13, Zenon DEF next, Recalled
<1> QED
  BY <1>11, <1>13, <1>14 DEF n

\* A total of smaller shares is smaller.
LEMMA TotalsCompare ==
    ASSUME NEW r, NEW s, NEW n \in Nat, Len(r) = n, Len(s) = n,
           \A i \in 1 .. n : Recalled(r[i]) \in Nat /\ Recalled(s[i]) \in Nat,
           \A i \in 1 .. n : Recalled(r[i]) <= Recalled(s[i])
    PROVE  TotalRecall(r) \in Nat /\ TotalRecall(s) \in Nat /\ TotalRecall(r) <= TotalRecall(s)
<1>1. PICK f : /\ f[0] = 0 /\ \A i \in 1 .. n : f[i] = f[i - 1] + Recalled(r[i])
               /\ TotalRecall(r) = f[n]
  BY RecallRecursion
<1>2. PICK g : /\ g[0] = 0 /\ \A i \in 1 .. n : g[i] = g[i - 1] + Recalled(s[i])
               /\ TotalRecall(s) = g[n]
  BY RecallRecursion
<1> DEFINE Good(i) == f[i] \in Nat /\ g[i] \in Nat /\ f[i] <= g[i]
           G == {i \in Nat : i <= n => Good(i)}
<1>3. 0 \in G
  BY <1>1, <1>2
<1>4. ASSUME NEW i \in Nat, i \in G, i + 1 <= n
      PROVE  Good(i + 1)
  <2>1. Good(i)
    BY <1>4
  <2>2. i + 1 \in 1 .. n /\ i + 1 - 1 = i
    BY <1>4
  <2>3. f[i + 1] = f[i] + Recalled(r[i + 1]) /\ g[i + 1] = g[i] + Recalled(s[i + 1])
    BY <1>1, <1>2, <2>2
  <2>4. /\ Recalled(r[i + 1]) \in Nat /\ Recalled(s[i + 1]) \in Nat
        /\ Recalled(r[i + 1]) <= Recalled(s[i + 1])
    BY <2>2
  <2> QED
    BY <2>1, <2>3, <2>4, SMTT(30)
<1>5. \A i \in Nat : i \in G => i + 1 \in G
  <2> SUFFICES ASSUME NEW i \in Nat, i \in G
               PROVE  i + 1 \in G
    OBVIOUS
  <2>1. i + 1 <= n => Good(i + 1)
    BY <1>4
  <2> HIDE DEF Good
  <2> QED
    BY <2>1
<1> HIDE DEF G
<1>6. \A i \in Nat : i \in G
  BY <1>3, <1>5, SetInduction
<1>7. n \in G /\ n <= n
  BY <1>6
<1> QED
  BY <1>1, <1>2, <1>7 DEF G

\* Division keeps the order.
LEMMA DivisionGrows ==
    ASSUME NEW a \in Nat, NEW b \in Nat, a <= b, NEW d \in Nat \ {0}
    PROVE  a \div d \in Nat /\ b \div d \in Nat /\ a \div d <= b \div d
<1> DEFINE x == a \div d
           y == b \div d
<1>1. x \in Nat /\ a = d * x + (a % d) /\ a % d \in 0 .. (d - 1)
  OBVIOUS
<1>2. y \in Nat /\ b = d * y + (b % d) /\ b % d \in 0 .. (d - 1)
  OBVIOUS
<1> HIDE DEF x, y
<1>3. SUFFICES ASSUME y + 1 <= x
               PROVE  FALSE
  BY <1>1, <1>2 DEF x, y
<1>4. d * (y + 1) <= d * x
  BY <1>1, <1>2, <1>3
<1>5. d * (y + 1) = d * y + d
  BY <1>2
<1>6. d * x \in Int /\ d * y \in Int
  BY <1>1, <1>2
<1> QED
  BY <1>1, <1>2, <1>4, <1>5, <1>6

\* A larger result recalls no less of what is expected.
LEMMA RecallGrows ==
    ASSUME NEW expected, IsFiniteSet(expected), NEW citations,
           NEW r, NEW s, ToSet(r) \subseteq ToSet(s)
    PROVE  /\ Recalled(EvaluateCase(expected, r, citations)) \in Nat
           /\ Recalled(EvaluateCase(expected, s, citations)) \in Nat
           /\ Recalled(EvaluateCase(expected, r, citations))
                  <= Recalled(EvaluateCase(expected, s, citations))
<1> DEFINE a == Cardinality(expected \cap ToSet(r))
           b == Cardinality(expected \cap ToSet(s))
           c == Cardinality(expected)
           d == Max({1, c})
<1>1. IsFiniteSet(expected \cap ToSet(r)) /\ IsFiniteSet(expected \cap ToSet(s))
  BY FS_Intersection
<1>2. a \in Nat /\ b \in Nat /\ c \in Nat
  BY <1>1, FS_CardinalityType
<1>3. a <= b
  <2>1. (expected \cap ToSet(r)) \in SUBSET (expected \cap ToSet(s))
    OBVIOUS
  <2> QED
    BY <1>1, <2>1, FS_Subset
<1> HIDE DEF c
<1>4. d \in Nat \ {0}
  <2> DEFINE m == IF 1 >= c THEN 1 ELSE c
  <2>1. m \in {1, c} /\ \A y \in {1, c} : m >= y
    BY <1>2
  <2> HIDE DEF m
  <2>2. d \in {1, c} /\ \A y \in {1, c} : d >= y
    BY <2>1, Zenon DEF Max
  <2> HIDE DEF d
  <2> QED
    BY <1>2, <2>2
<1>5. /\ Recalled(EvaluateCase(expected, r, citations)) = (6 * a) \div d
      /\ Recalled(EvaluateCase(expected, s, citations)) = (6 * b) \div d
  BY Zenon DEF Recalled, EvaluateCase, c
<1> HIDE DEF a, b, d
<1>6. 6 * a \in Nat /\ 6 * b \in Nat /\ 6 * a <= 6 * b
  BY <1>2, <1>3
<1> QED
  BY <1>4, <1>5, <1>6, DivisionGrows

\* The chunks of rows taken from others are among theirs, and the same when there are
\* as many of them.
LEMMA TakenChunks ==
    ASSUME NEW rows \in Seq(ResultRecords), Apart(rows), NEW from \in Seq(ResultRecords), Apart(from),
           \A i \in 1 .. Len(rows) : \E k \in 1 .. Len(from) : rows[i] = from[k]
    PROVE  /\ ToSet(ChunksOf(rows)) \subseteq ToSet(ChunksOf(from))
           /\ Len(ChunksOf(rows)) = Len(ChunksOf(from)) => ToSet(ChunksOf(rows)) = ToSet(ChunksOf(from))
<1> DEFINE c == ChunksOf(rows)
           e == ChunksOf(from)
<1>1. /\ \A i \in 1 .. Len(rows) : rows[i].chunk \in Nat
      /\ \A i \in 1 .. Len(from) : from[i].chunk \in Nat
  <2>1. /\ \A i \in 1 .. Len(rows) : rows[i] \in ResultRecords
        /\ \A i \in 1 .. Len(from) : from[i] \in ResultRecords
    OBVIOUS
  <2> QED
    BY <2>1 DEF ResultRecords
<1>2. c \in Seq(Nat) /\ Len(c) = Len(rows) /\ \A i \in 1 .. Len(rows) : c[i] = rows[i].chunk
  BY <1>1, ChunksOfResults
<1>3. e \in Seq(Nat) /\ Len(e) = Len(from) /\ \A i \in 1 .. Len(from) : e[i] = from[i].chunk
  BY <1>1, ChunksOfResults
<1> HIDE DEF c, e
<1>4. Injective(c) /\ Injective(e)
  BY <1>2, <1>3 DEF Injective, Apart
<1>5. ToSet(c) \subseteq ToSet(e)
  <2>1. /\ \A x : x \in ToSet(c) <=> \E i \in 1 .. Len(c) : c[i] = x
        /\ \A x : x \in ToSet(e) <=> \E i \in 1 .. Len(e) : e[i] = x
    BY <1>2, <1>3, InToSet
  <2>2. \A i \in 1 .. Len(c) : \E k \in 1 .. Len(e) : c[i] = e[k]
    BY <1>2, <1>3
  <2> QED
    BY <2>1, <2>2
<1>6. /\ IsFiniteSet(ToSet(c)) /\ Cardinality(ToSet(c)) = Len(c)
      /\ IsFiniteSet(ToSet(e)) /\ Cardinality(ToSet(e)) = Len(e)
  BY <1>2, <1>3, <1>4, ToSetFinite
<1>7. Len(c) = Len(e) => ToSet(c) = ToSet(e)
  <2>1. ToSet(c) \in SUBSET ToSet(e)
    BY <1>5
  <2> QED
    BY <1>6, <2>1, FS_Subset
<1> QED
  BY <1>5, <1>7 DEF c, e

CaseRecords == [expected : {S \in SUBSET Nat : IsFiniteSet(S)}, citations : SUBSET Nat]

\* Reranking never recalls more than the hybrid result it orders anew, and as much when
\* it keeps as many chunks, on any data set (RetrievalDebugService.evaluate).
THEOREM RerankingKeepsRecall ==
    ASSUME NEW env \in Environments, NEW request \in DebugRequests, NEW cases \in Seq(CaseRecords)
    PROVE  KeepsRecall(env, request, cases)
<1> DEFINE hr == [request EXCEPT !.mode = "hybrid"]
           rr == [request EXCEPT !.mode = "rerank"]
           H == Evaluate(env, hr, cases)
           R == Evaluate(env, rr, cases)
           topK == request.topK
           kk == request.candidateK
           n == Len(cases)
           Same == \A i \in DOMAIN cases : Len(R.results[i].retrieved) = Len(H.results[i].retrieved)
<1>1. KeepsRecall(env, request, cases) <=>
        (R.status = 200 =>
            /\ TotalRecall(R.results) <= TotalRecall(H.results)
            /\ Same => TotalRecall(R.results) = TotalRecall(H.results))
  BY Zenon DEF KeepsRecall
<1>2. /\ hr.mode = "hybrid" /\ hr.topK = topK /\ hr.candidateK = kk /\ hr.blank = request.blank
      /\ rr.mode = "rerank" /\ rr.topK = topK /\ rr.candidateK = kk /\ rr.blank = request.blank
      /\ topK \in Nat /\ kk \in Nat
  BY DEF DebugRequests
<1>3. n \in Nat /\ DOMAIN cases = 1 .. n /\ \A i \in 1 .. n : cases[i] \in CaseRecords
  OBVIOUS
<1>4. \A i \in 1 .. n : IsFiniteSet(cases[i].expected)
  BY <1>3 DEF CaseRecords
<1> DEFINE hybrid == Hybrid(env, topK, kk)
           answer == Reranked(env, topK, hybrid)
           rows == answer.rows
<1>5. hybrid \in Seq(ResultRecords) /\ Apart(hybrid)
  BY <1>2, HybridShows
<1>6. /\ rows \in Seq(ResultRecords) /\ Apart(rows)
      /\ \A i \in 1 .. Len(rows) : \E k \in 1 .. Len(hybrid) : rows[i] = hybrid[k]
  BY <1>2, <1>5, ShortlistReranked
<1> HIDE DEF hr, rr, n
<1>7. CASE Refused(env, rr)
  <2>1. Debug(env, rr).status # 200
    BY <1>7, DebugRefused
  <2>2. R.status = Debug(env, rr).status
    BY <2>1, Zenon DEF Evaluate, Evaluated
  <2> QED
    BY <1>1, <2>1, <2>2
<1>8. CASE ~Refused(env, rr)
  <2>1. ~Refused(env, hr)
    BY <1>2, <1>8 DEF Refused
  <2>2. Debug(env, rr) = answer
    <3>1. Debug(env, rr) = Reranked(env, rr.topK, Hybrid(env, rr.topK, rr.candidateK))
      BY <1>2, <1>8, DebugAnswers, Zenon
    <3> QED
      BY <1>2, <3>1
  <2>3. Debug(env, hr) = Ok(hybrid)
    <3>1. Debug(env, hr) = Ok(Hybrid(env, hr.topK, hr.candidateK))
      BY <1>2, <2>1, DebugAnswers, Zenon
    <3> QED
      BY <1>2, <3>1
  <2> HIDE DEF hybrid, answer
  <2>4. Debug(env, hr).status = 200 /\ Debug(env, hr).rows = hybrid
    BY <2>3 DEF Ok
  <2>5. CASE answer.status # 200
    <3>1. R.status = answer.status
      BY <2>2, <2>5, Zenon DEF Evaluate, Evaluated
    <3> QED
      BY <1>1, <2>5, <3>1
  <2>6. CASE answer.status = 200
    <3> DEFINE c == ChunksOf(rows)
               e == ChunksOf(hybrid)
               of(i, s) == EvaluateCase(cases[i].expected, s, cases[i].citations)
    <3>1. R.results = [i \in DOMAIN cases |-> of(i, c)]
      BY <2>2, <2>6, Zenon DEF Evaluate, Evaluated
    <3>2. H.results = [i \in DOMAIN cases |-> of(i, e)]
      BY <2>4, Zenon DEF Evaluate, Evaluated
    <3>3. /\ ToSet(c) \subseteq ToSet(e)
          /\ Len(c) = Len(e) => ToSet(c) = ToSet(e)
      BY <1>5, <1>6, TakenChunks
    <3>4. \A i \in 1 .. n : of(i, c).retrieved = c /\ of(i, e).retrieved = e
      BY DEF EvaluateCase
    <3> HIDE DEF c, e, H, R
    <3>5. ASSUME NEW i \in 1 .. n
          PROVE  /\ Recalled(of(i, c)) \in Nat /\ Recalled(of(i, e)) \in Nat
                 /\ Recalled(of(i, c)) <= Recalled(of(i, e))
                 /\ ToSet(c) = ToSet(e) => Recalled(of(i, e)) <= Recalled(of(i, c))
      BY <1>4, <3>3, RecallGrows
    <3> HIDE DEF of
    <3>6. /\ Len(R.results) = n /\ Len(H.results) = n
          /\ \A i \in 1 .. n : R.results[i] = of(i, c) /\ H.results[i] = of(i, e)
      BY <1>3, <3>1, <3>2
    <3>7. /\ TotalRecall(R.results) \in Nat /\ TotalRecall(H.results) \in Nat
          /\ TotalRecall(R.results) <= TotalRecall(H.results)
      BY <1>3, <3>5, <3>6, TotalsCompare
    <3>8. ASSUME Same
          PROVE  TotalRecall(H.results) <= TotalRecall(R.results)
      <4>1. \A i \in 1 .. n : ToSet(c) = ToSet(e)
        BY <1>3, <3>3, <3>4, <3>6, <3>8
      <4>2. \A i \in 1 .. n : Recalled(H.results[i]) <= Recalled(R.results[i])
        BY <3>5, <3>6, <4>1
      <4> QED
        BY <1>3, <3>5, <3>6, <4>2, TotalsCompare
    <3> QED
      BY <1>1, <3>7, <3>8
  <2> QED
    BY <2>5, <2>6
<1> QED
  BY <1>7, <1>8
=============================================================================
