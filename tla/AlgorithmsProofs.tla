-------------------------- MODULE AlgorithmsProofs --------------------------
(***************************************************************************)
(* The pure algorithms for every input: what MCAlgorithms checks up to its *)
(* bounds.                                                                 *)
(***************************************************************************)
EXTENDS MCAlgorithms, RankingProofs

-----------------------------------------------------------------------------
(* The larger of two numbers *)

LEMMA MaxOfTwo ==
    ASSUME NEW a \in Int, NEW b \in Int
    PROVE  Max({a, b}) = IF a >= b THEN a ELSE b
<1> DEFINE m == IF a >= b THEN a ELSE b
<1>1. m \in {a, b} /\ \A y \in {a, b} : m >= y
  OBVIOUS
<1>2. \A x \in {a, b} : (\A y \in {a, b} : x >= y) => x = m
  OBVIOUS
<1> QED
  BY <1>1, <1>2 DEF Max

\* Numbers up to a bound have a largest.
LEMMA LargestElement ==
    ASSUME NEW n \in Nat, NEW S \in SUBSET (0 .. n), S # {}
    PROVE  Max(S) \in S /\ \A y \in S : Max(S) >= y
<1> DEFINE T == {n - y : y \in S}
<1>1. T \subseteq Nat /\ T # {}
  <2>1. \A y \in S : n - y \in Nat
    OBVIOUS
  <2> QED
    BY <2>1
<1>2. PICK t \in T : \A u \in T : t <= u
  BY <1>1, LeastElement
<1>3. PICK x \in S : t = n - x
  BY <1>2
<1>4. \A y \in S : n - x <= n - y
  BY <1>2, <1>3
<1>5. \A y \in S : x >= y
  BY <1>3, <1>4
<1> QED
  BY <1>5, Zenon DEF Max

-----------------------------------------------------------------------------
(* Tools *)

\* The LIMIT clauses a query may have.
QueryLimits == [kind : {"none", "number", "other"}, n : Nat]

\* Whatever it is asked for, whatever it finds and wherever the limits are, a
\* built-in tool keeps to them and a query that lost rows says so.
THEOREM ToolAnswersKeepLimits ==
    ASSUME NEW call, call.tool \in Tools, call.limits.max \in Nat,
           call.limit \in QueryLimits, call.found \in Seq(BOOLEAN)
    PROVE  KeepsLimits(call)
<1> DEFINE n == Len(call.found)
           max == call.limits.max
           k == Wanted(call.tool, call.arguments, call.limits.default)
           got == AnswerOf(call)
<1>1. n \in Nat
  OBVIOUS
<1> HIDE DEF got, k
<1>2. CASE call.tool = "knowledge_search"
  <2>1. got = KnowledgeSearch(call.arguments, call.limits, call.bound, call.works, n)
    BY <1>2 DEF AnswerOf, got
  <2>2. ASSUME got.error = "none"
        PROVE  k \in 1 .. max /\ got.count = Min({k, n})
    BY <1>2, <2>1, <2>2 DEF KnowledgeSearch, Failed, Answered, k
  <2>3. ASSUME got.error = "none"
        PROVE  got.count <= max /\ got.count <= k
    BY <1>1, <2>2, <2>3, MinOfTwo
  <2> QED
    BY <1>2, <2>3 DEF KeepsLimits, Execute, Failed, got, k
<1>3. CASE call.tool = "web_search"
  <2>1. got = WebSearch(call.arguments, call.limits, call.works, call.found)
    BY <1>3 DEF AnswerOf, got
  <2>2. ASSUME got.error = "none"
        PROVE  k \in 1 .. max /\ got = WebSearchProvider(call.found, k)
    BY <1>3, <2>1, <2>2 DEF WebSearch, Failed, k
  <2>3. ASSUME got.error = "none"
        PROVE  got.count = Len(SubSeq(call.found, 1, Min({k, n})))
    <3> DEFINE read == SubSeq(call.found, 1, Min({k, n}))
    <3>1. \/ got = Answered(Len(read), FALSE)
          \/ got = Failed("invalid_response")
      BY <2>2, <2>3, Zenon DEF WebSearchProvider
    <3> HIDE DEF read
    <3>2. got.count = Len(read)
      BY <2>3, <3>1 DEF Failed, Answered
    <3> QED
      BY <3>2 DEF read
  <2>4. ASSUME got.error = "none"
        PROVE  got.count <= max /\ got.count <= k
    <3>1. Min({k, n}) \in Nat /\ Min({k, n}) <= k /\ Min({k, n}) <= n
      BY <1>1, <2>2, <2>4, MinOfTwo
    <3>2. Len(SubSeq(call.found, 1, Min({k, n}))) = Min({k, n})
      BY <3>1
    <3> QED
      BY <2>2, <2>3, <2>4, <3>1, <3>2
  <2> QED
    BY <1>3, <2>4 DEF KeepsLimits, Execute, Failed, got, k
<1>4. CASE call.tool = "sql_query"
  <2> DEFINE limit == call.limit
             cut == PreparedLimit(limit, max)
  <2>1. got = SqlQuery(call.arguments, max, TRUE, call.works, limit, n)
    BY <1>4 DEF AnswerOf, got
  <2>2. ASSUME got.error = "none"
        PROVE  got.count = Min({cut, n}) /\ (got.truncated <=> Min({cut, n}) >= max)
    <3>1. got = Answered(Min({cut, n}), Truncated(Min({cut, n}), max))
      BY <2>1, <2>2 DEF SqlQuery, Failed
    <3> QED
      BY <3>1, Zenon DEF Answered, Truncated
  <2>3. /\ limit.n \in Nat
        /\ cut = IF limit.kind # "number" \/ limit.n > max THEN max ELSE limit.n
        /\ Selected(limit, n) = IF limit.kind = "none" THEN n ELSE Min({limit.n, n})
    BY DEF PreparedLimit, Selected, QueryLimits
  <2>4. cut \in Nat /\ cut <= max
    BY <2>3
  <2>5. ASSUME got.error = "none"
        PROVE  got.count <= max /\ (got.truncated \/ got.count >= Selected(limit, n))
    <3>1. Min({cut, n}) = IF cut <= n THEN cut ELSE n
      BY <1>1, <2>4, MinOfTwo
    <3>2. Min({limit.n, n}) = IF limit.n <= n THEN limit.n ELSE n
      BY <1>1, <2>3, MinOfTwo
    <3>3. Min({cut, n}) >= max \/ Min({cut, n}) >= Selected(limit, n)
      BY <1>1, <2>3, <2>4, <3>1, <3>2
    <3> QED
      BY <1>1, <2>2, <2>4, <2>5, <3>1, <3>3
  <2> QED
    BY <1>4, <2>5 DEF KeepsLimits, Execute, Failed, got, k
<1> QED
  BY <1>2, <1>3, <1>4 DEF Tools

-----------------------------------------------------------------------------
(* Tokens *)

LEMMA Quotient ==
    ASSUME NEW a \in Int, NEW b \in Nat \ {0}
    PROVE  /\ a \div b \in Int
           /\ b * (a \div b) <= a
           /\ a < b * (a \div b) + b
OBVIOUS

LEMMA TimesMonotone ==
    ASSUME NEW b \in Nat, NEW x \in Int, NEW y \in Int, x <= y
    PROVE  b * x \in Int /\ b * y \in Int /\ b * x <= b * y
OBVIOUS

\* A text takes at most t tokens when it has at most as many characters as they
\* stand for.
LEMMA TokensBound ==
    ASSUME NEW len \in Nat, NEW cpt \in Nat \ {0}
    PROVE  /\ Tokens(len, cpt) \in Nat \ {0}
           /\ \A t \in Nat \ {0} : Tokens(len, cpt) <= t <=> len <= cpt * t
<1> DEFINE q == CeilDiv(len, cpt)
           c == cpt * q
<1>1. len + cpt - 1 \in Int
  OBVIOUS
<1>2. q = (len + cpt - 1) \div cpt
  BY DEF CeilDiv
<1>3. q \in Int /\ c <= len + cpt - 1 /\ len + cpt - 1 < c + cpt
  BY <1>1, <1>2, Quotient
<1>4. c \in Int
  BY <1>3
<1>5. Tokens(len, cpt) = IF 1 >= q THEN 1 ELSE q
  BY <1>3, MaxOfTwo DEF Tokens
<1>6. ASSUME NEW t \in Nat \ {0}
      PROVE  q <= t <=> len <= cpt * t
  <2> DEFINE d == cpt * t
  <2>1. d \in Int
    OBVIOUS
  <2>2. ASSUME q <= t PROVE len <= d
    <3>1. c <= d
      BY <1>3, <2>2, TimesMonotone
    <3> HIDE DEF c, d, q
    <3> QED
      BY <1>3, <1>4, <2>1, <2>2, <3>1
  <2>3. ASSUME ~(q <= t) PROVE ~(len <= d)
    <3>1. t + 1 <= q /\ t + 1 \in Int
      BY <1>3, <2>3
    <3>2. cpt * (t + 1) <= c
      BY <1>3, <3>1, TimesMonotone
    <3>3. cpt * (t + 1) = d + cpt
      OBVIOUS
    <3> HIDE DEF c, d, q
    <3> QED
      BY <1>3, <1>4, <2>1, <2>3, <3>2, <3>3
  <2> QED
    BY <2>2, <2>3
<1> HIDE DEF q, c
<1> QED
  BY <1>3, <1>5, <1>6

-----------------------------------------------------------------------------
(* The context *)

\* A retrieved chunk, as the builder sees it.
ContextChunks == [header : Nat, len : Nat, blanks : SUBSET Nat]

Entries == [chunk : ContextChunks, snippet : Nat]

Builds == [entries : Seq(Entries), used : Nat, truncated : BOOLEAN, full : BOOLEAN]

\* A snippet is never longer than its text or its room, and is the whole text when
\* there is room for that.
LEMMA CutBounds ==
    ASSUME NEW chunk \in ContextChunks, NEW chars \in Nat
    PROVE  /\ Cut(chunk, chars) \in Nat /\ Cut(chunk, chars) <= chars
           /\ Cut(chunk, chars) <= chunk.len
<1>1. chunk.len \in Nat
  BY DEF ContextChunks
<1>2. CASE chunk.len <= chars
  BY <1>1, <1>2 DEF Cut
<1>3. CASE ~(chunk.len <= chars)
  <2> DEFINE S == {0} \cup ((1 .. chars) \ chunk.blanks)
  <2>1. S \in SUBSET (0 .. chars) /\ S # {}
    OBVIOUS
  <2>2. Max(S) \in S
    BY <2>1, LargestElement
  <2>3. Cut(chunk, chars) = Max(S)
    BY <1>3 DEF Cut
  <2> QED
    BY <1>1, <1>3, <2>1, <2>2, <2>3
<1> QED
  BY <1>2, <1>3

\* The entry that makes a of r.
Adds(r, a, chunk, snippet, budget, cpt) ==
    /\ ~r.full /\ chunk.len # 0
    /\ a.entries = Append(r.entries, [chunk |-> chunk, snippet |-> snippet])
    /\ a.used = r.used + (Tokens(chunk.header + 1 + snippet, cpt)
                             + IF r.entries = <<>> THEN 0 ELSE 1)
    /\ a.used <= budget
    /\ a.truncated <=> r.truncated \/ snippet < chunk.len
    /\ ~a.full

\* A turn of the loop passes a chunk over, ends the context or adds an entry.
LEMMA AddCases ==
    ASSUME NEW r \in Builds, NEW chunk \in ContextChunks,
           NEW budget \in Nat \ {0}, NEW cpt \in Nat \ {0}
    PROVE  LET a == Add(r, chunk, budget, cpt)
           IN  /\ a \in Builds
               /\ \/ (r.full \/ chunk.len = 0) /\ a = r
                  \/ /\ ~r.full /\ chunk.len # 0
                     /\ a.entries = r.entries /\ a.used = r.used /\ a.truncated /\ a.full
                  \/ \E snippet \in 0 .. chunk.len : Adds(r, a, chunk, snippet, budget, cpt)
<1> DEFINE f == Fit(chunk, r, budget, cpt)
           separator == IF r.entries = <<>> THEN 0 ELSE 1
           available == budget - r.used - Tokens(chunk.header, cpt) - separator
           snippet == Cut(chunk, available * cpt)
           tokens == Tokens(chunk.header + 1 + snippet, cpt) + separator
           a == Add(r, chunk, budget, cpt)
<1>1. /\ f.room <=> available > 0
      /\ f.cut <=> available > 0 /\ snippet < chunk.len
      /\ f.entry = [chunk |-> chunk, snippet |-> snippet]
      /\ f.tokens = tokens
  BY Zenon DEF Fit
<1>2. r.used \in Nat /\ chunk.header \in Nat /\ chunk.len \in Nat
      /\ r.truncated \in BOOLEAN /\ r.full \in BOOLEAN
  BY DEF Builds, ContextChunks
<1>3. available \in Int
  <2>1. Tokens(chunk.header, cpt) \in Int
    BY <1>2, TokensBound
  <2>2. budget \in Int /\ r.used \in Int /\ separator \in Int
    BY <1>2
  <2> HIDE DEF separator
  <2> QED
    BY <2>1, <2>2
<1>4. ASSUME available > 0
      PROVE  snippet \in 0 .. chunk.len
  <2>1. available * cpt \in Nat
    BY <1>3, <1>4
  <2> QED
    BY <1>2, <2>1, CutBounds
<1>5. CASE r.full \/ chunk.len = 0
  BY <1>5, Zenon DEF Add
<1>6. CASE ~(r.full \/ chunk.len = 0) /\ (~f.room \/ r.used + f.tokens > budget)
  <2>1. a = [r EXCEPT !.full = TRUE, !.truncated = TRUE]
    BY <1>6, Zenon DEF Add
  <2>2. /\ a.entries = r.entries /\ a.used = r.used /\ a.truncated = TRUE /\ a.full = TRUE
        /\ a \in Builds
    BY <2>1 DEF Builds
  <2> HIDE DEF a, f
  <2> QED
    BY <1>6, <2>2, Zenon DEF a
<1>7. CASE ~(r.full \/ chunk.len = 0) /\ ~(~f.room \/ r.used + f.tokens > budget)
  <2>1. a = [r EXCEPT !.entries = Append(@, f.entry), !.used = @ + f.tokens,
                      !.truncated = @ \/ f.cut]
    BY <1>7, Zenon DEF Add
  <2>2. available > 0
    BY <1>1, <1>7
  <2>3. snippet \in 0 .. chunk.len
    BY <1>4, <2>2
  <2>4. f.tokens = tokens /\ tokens \in Nat
    <3>1. snippet \in Nat
      BY <1>2, <2>3
    <3> HIDE DEF snippet, f
    <3>2. chunk.header + 1 + snippet \in Nat
      BY <1>2, <3>1
    <3>3. Tokens(chunk.header + 1 + snippet, cpt) \in Nat
      BY <3>2, TokensBound
    <3> QED
      BY <1>1, <3>3
  <2>5. f.entry \in Entries
    BY <1>1, <1>2, <2>3 DEF Entries
  <2> DEFINE truncated == r.truncated \/ f.cut
  <2>6. truncated \in BOOLEAN
    OBVIOUS
  <2>7. a = [r EXCEPT !.entries = Append(r.entries, f.entry), !.used = r.used + f.tokens,
                      !.truncated = truncated]
    BY <2>1, Zenon
  <2> HIDE DEF f, available, snippet, tokens, truncated, a
  <2>8. Append(r.entries, f.entry) \in Seq(Entries) /\ r.used + f.tokens \in Nat
    BY <1>2, <2>4, <2>5 DEF Builds
  <2>9. a \in Builds
    BY <2>6, <2>7, <2>8 DEF Builds
  <2>10. /\ a.entries = Append(r.entries, f.entry) /\ a.used = r.used + f.tokens
         /\ a.truncated = truncated /\ a.full = r.full
    BY <2>7 DEF Builds
  <2>11. a.used <= budget
    BY <1>2, <1>7, <2>4, <2>10
  <2>12. a.entries = Append(r.entries, [chunk |-> chunk, snippet |-> snippet])
         /\ a.used = r.used + tokens
    BY <1>1, <2>4, <2>10
  <2>13. a.truncated <=> r.truncated \/ snippet < chunk.len
    BY <1>1, <2>2, <2>10, Zenon DEF truncated
  <2>14. ~a.full
    BY <1>7, <2>10, Zenon
  <2>15. ~r.full /\ chunk.len # 0
    BY <1>7, Zenon
  <2>16. Adds(r, a, chunk, snippet, budget, cpt)
    BY <2>11, <2>12, <2>13, <2>14, <2>15, Zenon DEF Adds, tokens
  <2> QED
    BY <2>3, <2>9, <2>16, Zenon DEF a
<1> QED
  BY <1>5, <1>6, <1>7

\* What the recursion of Build says.
BuiltBy(f, chunks, budget, cpt) ==
    f = [i \in 0 .. Len(chunks) |->
            IF i = 0 THEN Nothing ELSE Add(f[i - 1], chunks[i], budget, cpt)]

LEMMA BuildRecursion ==
    ASSUME NEW chunks \in Seq(ContextChunks), NEW budget \in Nat \ {0}, NEW cpt \in Nat \ {0}
    PROVE  \E f : /\ f[0] = Nothing
                  /\ \A i \in 1 .. Len(chunks) : f[i] = Add(f[i - 1], chunks[i], budget, cpt)
                  /\ \A i \in 0 .. Len(chunks) : f[i] \in Builds
                  /\ Build(chunks, budget, cpt) = f[Len(chunks)]
<1> DEFINE n == Len(chunks)
           step == [i \in 1 .. n |-> [r \in Builds |-> Add(r, chunks[i], budget, cpt)]]
<1>1. n \in Nat /\ \A i \in 1 .. n : chunks[i] \in ContextChunks
  OBVIOUS
<1>2. Nothing \in Builds
  BY EmptySeq DEF Nothing, Builds
<1>3. \A i \in 1 .. n, r \in Builds : Add(r, chunks[i], budget, cpt) \in Builds
  BY <1>1, AddCases
<1>4. step \in [1 .. n -> [Builds -> Builds]]
  BY <1>3
<1>5. \A i \in 1 .. n, r \in Builds : step[i][r] = Add(r, chunks[i], budget, cpt)
  OBVIOUS
<1> HIDE DEF n, step
<1>6. PICK f \in [0 .. n -> Builds] : /\ f[0] = Nothing
                                      /\ \A i \in 1 .. n : f[i] = step[i][f[i - 1]]
  <2>1. n \in Nat
    BY <1>1
  <2> QED
    BY <1>2, <1>4, <2>1, Recursion
<1>7. ASSUME NEW i \in 0 .. n
      PROVE  f[i] = IF i = 0 THEN Nothing ELSE Add(f[i - 1], chunks[i], budget, cpt)
  <2>1. CASE i # 0
    <3>1. i \in 1 .. n /\ i - 1 \in 0 .. n
      BY <1>1, <2>1
    <3> QED
      BY <1>5, <1>6, <2>1, <3>1
  <2> QED
    BY <1>6, <2>1
<1>8. BuiltBy(f, chunks, budget, cpt)
  BY <1>6, <1>7 DEF BuiltBy, n
<1> DEFINE h == CHOOSE h : BuiltBy(h, chunks, budget, cpt)
<1>9. BuiltBy(h, chunks, budget, cpt)
  BY <1>8, Zenon
<1>10. Build(chunks, budget, cpt) = h[n]
  BY Zenon DEF Build, BuiltBy, n
<1> HIDE DEF h
<1>11. \A i \in 0 .. n : h[i] = IF i = 0 THEN Nothing ELSE Add(h[i - 1], chunks[i], budget, cpt)
  BY <1>9 DEF BuiltBy, n
<1>12. h[0] = Nothing
  BY <1>1, <1>11
<1>13. \A i \in 1 .. n : h[i] = Add(h[i - 1], chunks[i], budget, cpt)
  BY <1>1, <1>11
<1>14. \A i \in 0 .. n : h[i] \in Builds
  <2> DEFINE T == {i \in Nat : i <= n => h[i] \in Builds}
  <2>1. 0 \in T
    BY <1>2, <1>12
  <2>2. ASSUME NEW i \in Nat, i \in T
        PROVE  i + 1 \in T
    <3>1. CASE i + 1 <= n
      <4>1. h[i] \in Builds /\ i + 1 \in 1 .. n /\ (i + 1) - 1 = i
        BY <1>1, <2>2, <3>1
      <4>2. h[i + 1] = Add(h[i], chunks[i + 1], budget, cpt)
        BY <1>13, <4>1
      <4> QED
        BY <1>3, <4>1, <4>2
    <3> QED
      BY <3>1
  <2> HIDE DEF T
  <2>3. \A i \in Nat : i \in T
    BY <2>1, <2>2, SetInduction
  <2> QED
    BY <1>1, <2>3 DEF T
<1> QED
  BY <1>10, <1>12, <1>13, <1>14 DEF n

\* What the recursion of TextLength says.
MeasuredBy(f, s) ==
    f = [i \in 0 .. Len(s) |->
            IF i = 0 THEN 0
            ELSE f[i - 1] + s[i].chunk.header + 1 + s[i].snippet + IF i = 1 THEN 0 ELSE 2]

LEMMA LengthRecursion ==
    ASSUME NEW s \in Seq(Entries)
    PROVE  \E f : /\ f[0] = 0
                  /\ \A i \in 1 .. Len(s) :
                        f[i] = f[i - 1] + s[i].chunk.header + 1 + s[i].snippet
                                   + IF i = 1 THEN 0 ELSE 2
                  /\ TextLength(s) = f[Len(s)]
<1> DEFINE n == Len(s)
           x == 0
           X == Int
           step == [i \in 1 .. n |-> [k \in Int |-> k + s[i].chunk.header + 1 + s[i].snippet
                                                      + IF i = 1 THEN 0 ELSE 2]]
<1>1. n \in Nat
  OBVIOUS
<1>2. \A i \in 1 .. n : s[i].chunk.header \in Nat /\ s[i].snippet \in Nat
  <2>1. \A i \in 1 .. n : s[i] \in Entries
    OBVIOUS
  <2> QED
    BY <2>1 DEF Entries, ContextChunks
<1>3. \A i \in 1 .. n, k \in Int :
         k + s[i].chunk.header + 1 + s[i].snippet + (IF i = 1 THEN 0 ELSE 2) \in Int
  BY <1>2, SMTT(30)
<1>4. step \in [1 .. n -> [Int -> Int]]
  BY <1>3
<1>5. \A i \in 1 .. n, k \in Int :
         step[i][k] = k + s[i].chunk.header + 1 + s[i].snippet + IF i = 1 THEN 0 ELSE 2
  OBVIOUS
<1> HIDE DEF n, step
<1>6. PICK f \in [0 .. n -> X] : /\ f[0] = x
                                 /\ \A i \in 1 .. n : f[i] = step[i][f[i - 1]]
  <2>1. x \in X /\ step \in [1 .. n -> [X -> X]]
    BY <1>4
  <2> HIDE DEF x, X
  <2> QED
    BY <1>1, <2>1, Recursion
<1>7. ASSUME NEW i \in 0 .. n
      PROVE  f[i] = IF i = 0 THEN 0
                    ELSE f[i - 1] + s[i].chunk.header + 1 + s[i].snippet
                             + IF i = 1 THEN 0 ELSE 2
  <2>1. CASE i # 0
    <3>1. i \in 1 .. n /\ i - 1 \in 0 .. n
      BY <1>1, <2>1
    <3> QED
      BY <1>5, <1>6, <2>1, <3>1
  <2> QED
    BY <1>6, <2>1
<1>8. MeasuredBy(f, s)
  BY <1>6, <1>7 DEF MeasuredBy, n
<1> DEFINE h == CHOOSE h : MeasuredBy(h, s)
<1>9. MeasuredBy(h, s)
  BY <1>8, Zenon
<1>10. TextLength(s) = h[n]
  BY Zenon DEF TextLength, MeasuredBy, n
<1> HIDE DEF h
<1> DEFINE e(i) == IF i = 0 THEN 0
                   ELSE h[i - 1] + s[i].chunk.header + 1 + s[i].snippet
                            + IF i = 1 THEN 0 ELSE 2
<1>11. h = [i \in 0 .. n |-> e(i)]
  BY <1>9 DEF MeasuredBy, n
<1> HIDE DEF e
<1>12. \A i \in 0 .. n : h[i] = e(i)
  BY <1>11
<1>13. h[0] = 0
  BY <1>1, <1>12 DEF e
<1>14. \A i \in 1 .. n : h[i] = e(i)
  BY <1>1, <1>12
<1>15. \A i \in 1 .. n :
          h[i] = h[i - 1] + s[i].chunk.header + 1 + s[i].snippet + IF i = 1 THEN 0 ELSE 2
  BY <1>14 DEF e
<1> QED
  BY <1>10, <1>13, <1>15 DEF n

\* The joined text grows with its entries.
LEMMA LengthGrows ==
    ASSUME NEW s \in Seq(Entries), NEW e \in Entries
    PROVE  TextLength(Append(s, e)) = TextLength(s) + e.chunk.header + 1 + e.snippet
                                          + IF s = <<>> THEN 0 ELSE 2
<1> DEFINE t == Append(s, e)
           n == Len(s)
<1>1. /\ t \in Seq(Entries) /\ Len(t) = n + 1 /\ t[n + 1] = e /\ n \in Nat
      /\ \A i \in 1 .. n : t[i] = s[i]
      /\ s = <<>> <=> n = 0
  BY EmptySeq
<1> HIDE DEF t
<1>2. PICK f : /\ f[0] = 0
               /\ \A i \in 1 .. n : f[i] = f[i - 1] + s[i].chunk.header + 1 + s[i].snippet
                                              + IF i = 1 THEN 0 ELSE 2
               /\ TextLength(s) = f[n]
  BY LengthRecursion
<1>3. PICK g : /\ g[0] = 0
               /\ \A i \in 1 .. n + 1 : g[i] = g[i - 1] + t[i].chunk.header + 1 + t[i].snippet
                                                  + IF i = 1 THEN 0 ELSE 2
               /\ TextLength(t) = g[n + 1]
  BY <1>1, LengthRecursion
<1> HIDE DEF n
<1>4. Parallel(g, f, n)
  BY <1>1, <1>2, <1>3, SMTT(30) DEF Parallel
<1>5. g[n] = f[n]
  <2>1. n \in Nat /\ g[0] = f[0]
    BY <1>1, <1>2, <1>3
  <2>2. \A i \in 0 .. n : g[i] = f[i]
    BY <1>4, <2>1, Agreement
  <2> QED
    BY <2>1, <2>2
<1>6. g[n + 1] = g[n] + e.chunk.header + 1 + e.snippet + IF n + 1 = 1 THEN 0 ELSE 2
  BY <1>1, <1>3
<1>7. TextLength(t) = TextLength(s) + e.chunk.header + 1 + e.snippet
                          + IF n + 1 = 1 THEN 0 ELSE 2
  BY <1>2, <1>3, <1>5, <1>6
<1> QED
  BY <1>1, <1>7 DEF t

LEMMA NoLength == TextLength(<<>>) = 0
<1>1. <<>> \in Seq(Entries) /\ Len(<<>>) = 0
  BY EmptySeq
<1> QED
  BY <1>1, LengthRecursion

\* An entry and the separator before it cost what they measure.
LEMMA Costs ==
    ASSUME NEW cpt \in Nat, cpt >= 2, NEW len \in Int, NEW used \in Nat, len <= cpt * used,
           NEW e \in Int, NEW k \in Nat, e <= cpt * k, NEW separator \in {0, 1}
    PROVE  len + e + 2 * separator <= cpt * (used + (k + separator))
<1>1. cpt * (used + (k + separator)) = cpt * used + cpt * k + cpt * separator
  OBVIOUS
<1>2. 2 * separator <= cpt * separator
  OBVIOUS
<1> DEFINE a == cpt * used
           b == cpt * k
           c == cpt * separator
<1>3. a \in Int /\ b \in Int /\ c \in Int
  OBVIOUS
<1> HIDE DEF a, b, c
<1> QED
  BY <1>1, <1>2, <1>3 DEF a, b, c

\* The context keeps to its budget, for any chunks in any order. That the joined
\* text does takes two characters a token or more: with one, the two line breaks
\* between entries cost two tokens and are counted as one.
THEOREM ContextsKeepToBudget ==
    ASSUME NEW chunks \in Seq(ContextChunks), NEW budget \in Nat \ {0},
           NEW cpt \in Nat, cpt >= 2
    PROVE  KeepsToBudget(chunks, budget, cpt)
<1> DEFINE n == Len(chunks)
           Good(r) == /\ r.used <= budget
                      /\ TextLength(r.entries) \in Nat
                      /\ TextLength(r.entries) <= cpt * r.used
                      /\ r.entries # <<>> => r.used # 0
<1>1. n \in Nat /\ cpt \in Nat \ {0} /\ \A i \in 1 .. n : chunks[i] \in ContextChunks
  OBVIOUS
<1>2. PICK f : /\ f[0] = Nothing
               /\ \A i \in 1 .. n : f[i] = Add(f[i - 1], chunks[i], budget, cpt)
               /\ \A i \in 0 .. n : f[i] \in Builds
               /\ Build(chunks, budget, cpt) = f[n]
  BY <1>1, BuildRecursion
<1>3. Good(Nothing)
  BY NoLength DEF Nothing
<1>4. ASSUME NEW r \in Builds, NEW a \in Builds, NEW chunk \in ContextChunks,
             NEW snippet \in 0 .. chunk.len,
             Adds(r, a, chunk, snippet, budget, cpt), Good(r)
      PROVE  Good(a)
  <2> DEFINE e == chunk.header + 1 + snippet
             entry == [chunk |-> chunk, snippet |-> snippet]
             k == Tokens(e, cpt)
             separator == IF r.entries = <<>> THEN 0 ELSE 1
             len == TextLength(r.entries)
  <2>1. chunk.header \in Nat /\ snippet \in Nat /\ r.used \in Nat /\ r.entries \in Seq(Entries)
    BY DEF ContextChunks, Builds
  <2>2. e \in Nat
    BY <2>1
  <2>3. k \in Nat \ {0} /\ e <= cpt * k
    <3> HIDE DEF e
    <3>1. /\ k \in Nat \ {0}
          /\ \A t \in Nat \ {0} : k <= t <=> e <= cpt * t
      BY <1>1, <2>2, TokensBound
    <3> HIDE DEF k
    <3>2. k <= k <=> e <= cpt * k
      BY <3>1
    <3> QED
      BY <3>1, <3>2
  <2>4. entry \in Entries /\ entry.chunk.header = chunk.header /\ entry.snippet = snippet
    BY <2>1 DEF Entries
  <2>5. a.entries = Append(r.entries, entry) /\ a.used = r.used + (k + separator)
        /\ a.used <= budget
    BY <1>4 DEF Adds
  <2> HIDE DEF entry
  <2>6. TextLength(a.entries) = len + chunk.header + 1 + snippet
                                    + IF r.entries = <<>> THEN 0 ELSE 2
    BY <2>1, <2>4, <2>5, LengthGrows
  <2>7. len \in Nat /\ len <= cpt * r.used
    BY <1>4
  <2> HIDE DEF len
  <2>8. TextLength(a.entries) = len + e + 2 * separator /\ TextLength(a.entries) \in Nat
    BY <2>1, <2>6, <2>7, SMTT(30)
  <2>9. separator \in {0, 1}
    OBVIOUS
  <2> HIDE DEF e, k, separator
  <2>10. len + e + 2 * separator <= cpt * (r.used + (k + separator))
    BY <2>1, <2>2, <2>3, <2>7, <2>9, Costs
  <2>11. TextLength(a.entries) <= cpt * a.used
    BY <2>5, <2>8, <2>10
  <2>12. a.used # 0
    BY <2>1, <2>3, <2>5, <2>9
  <2> QED
    BY <2>5, <2>8, <2>11, <2>12
<1> HIDE DEF n
<1>5. ASSUME NEW r \in Builds, NEW chunk \in ContextChunks, Good(r)
      PROVE  Good(Add(r, chunk, budget, cpt))
  <2> DEFINE a == Add(r, chunk, budget, cpt)
  <2>1. /\ a \in Builds
        /\ \/ a = r
           \/ a.entries = r.entries /\ a.used = r.used
           \/ \E snippet \in 0 .. chunk.len : Adds(r, a, chunk, snippet, budget, cpt)
    BY <1>1, AddCases
  <2> HIDE DEF a
  <2>2. Good(a)
    BY <1>4, <1>5, <2>1
  <2> QED
    BY <2>2 DEF a
<1>6. ASSUME NEW i \in Nat, i + 1 <= n, Good(f[i])
      PROVE  Good(f[i + 1])
  <2>1. f[i] \in Builds /\ i + 1 \in 1 .. n /\ (i + 1) - 1 = i /\ chunks[i + 1] \in ContextChunks
    BY <1>1, <1>2, <1>6
  <2>2. f[i + 1] = Add(f[i], chunks[i + 1], budget, cpt)
    BY <1>2, <2>1
  <2> HIDE DEF Good
  <2> QED
    BY <1>5, <1>6, <2>1, <2>2
<1>7. Good(f[n])
  <2> DEFINE T == {i \in Nat : i <= n => Good(f[i])}
  <2> HIDE DEF Good
  <2>1. 0 \in T
    BY <1>2, <1>3
  <2>2. \A i \in Nat : i \in T => i + 1 \in T
    BY <1>1, <1>6
  <2> HIDE DEF T
  <2>3. \A i \in Nat : i \in T
    BY <2>1, <2>2, SetInduction
  <2> QED
    BY <1>1, <2>3 DEF T
<1> DEFINE r == f[n]
<1>8. r \in Builds /\ r.used \in Nat
  BY <1>1, <1>2 DEF Builds
<1> HIDE DEF r
<1>9. Good(r)
  BY <1>7 DEF r
<1>10. r.entries # <<>> => Tokens(TextLength(r.entries), cpt) <= r.used
  BY <1>1, <1>8, <1>9, TokensBound
<1> QED
  BY <1>2, <1>9, <1>10 DEF KeepsToBudget, r

\* A turn of the loop and the texts it has seen: as long as the context is not full it
\* has them all, whole or cut.
Shows(r, texts) ==
    IF r.full
    THEN r.truncated /\ Len(r.entries) < Len(texts)
    ELSE /\ Len(r.entries) = Len(texts)
         /\ \A j \in 1 .. Len(texts) :
               r.entries[j].chunk = texts[j] /\ r.entries[j].snippet <= texts[j].len
         /\ r.truncated <=> \E j \in 1 .. Len(texts) : r.entries[j].snippet < texts[j].len

LEMMA ShowsNext ==
    ASSUME NEW r \in Builds, NEW texts \in Seq(ContextChunks), NEW chunk \in ContextChunks,
           NEW budget \in Nat \ {0}, NEW cpt \in Nat \ {0}, Shows(r, texts)
    PROVE  Shows(Add(r, chunk, budget, cpt),
                 IF chunk.len # 0 THEN Append(texts, chunk) ELSE texts)
<1> DEFINE a == Add(r, chunk, budget, cpt)
           more == Append(texts, chunk)
           n == Len(texts)
<1>1. /\ n \in Nat /\ Len(more) = n + 1 /\ more[n + 1] = chunk
      /\ \A j \in 1 .. n : more[j] = texts[j]
  OBVIOUS
<1>2. Len(r.entries) \in Nat /\ r.entries \in Seq(Entries)
  BY DEF Builds
<1>3. \/ (r.full \/ chunk.len = 0) /\ a = r
      \/ ~r.full /\ chunk.len # 0 /\ a.entries = r.entries /\ a.truncated /\ a.full
      \/ \E snippet \in 0 .. chunk.len : Adds(r, a, chunk, snippet, budget, cpt)
  BY AddCases
<1> HIDE DEF a, more, n
<1>4. CASE (r.full \/ chunk.len = 0) /\ a = r
  <2>1. CASE chunk.len = 0
    BY <1>4, <2>1, Zenon DEF a
  <2>2. CASE chunk.len # 0
    <3>1. r.full /\ r.truncated /\ Len(r.entries) < n
      BY <1>4, <2>2, Zenon DEF Shows, n
    <3>2. Len(r.entries) < Len(more)
      BY <1>1, <1>2, <3>1
    <3>3. Shows(a, more)
      BY <1>4, <3>1, <3>2, Zenon DEF Shows
    <3> QED
      BY <2>2, <3>3, Zenon DEF a, more
  <2> QED
    BY <2>1, <2>2
<1>5. CASE ~r.full /\ chunk.len # 0 /\ a.entries = r.entries /\ a.truncated /\ a.full
  <2>1. Len(r.entries) = n
    BY <1>5, Zenon DEF Shows, n
  <2>2. Len(a.entries) < Len(more)
    BY <1>1, <1>2, <1>5, <2>1
  <2>3. Shows(a, more)
    BY <1>5, <2>2, Zenon DEF Shows
  <2> QED
    BY <1>5, <2>3, Zenon DEF a, more
<1>6. ASSUME NEW snippet \in 0 .. chunk.len, Adds(r, a, chunk, snippet, budget, cpt)
      PROVE  Shows(a, more) /\ chunk.len # 0
  <2> DEFINE entry == [chunk |-> chunk, snippet |-> snippet]
  <2>1. chunk.len \in Nat
    BY DEF ContextChunks
  <2>2. entry \in Entries /\ entry.chunk = chunk /\ entry.snippet = snippet
    BY <2>1 DEF Entries
  <2>3. ~r.full /\ ~a.full /\ chunk.len # 0
    BY <1>6, Zenon DEF Adds
  <2>4. a.entries = Append(r.entries, entry)
    BY <1>6, Zenon DEF Adds
  <2>5. a.truncated <=> r.truncated \/ snippet < chunk.len
    BY <1>6, Zenon DEF Adds
  <2> HIDE DEF entry
  <2>6. /\ Len(r.entries) = n
        /\ \A j \in 1 .. n : r.entries[j].chunk = texts[j] /\ r.entries[j].snippet <= texts[j].len
    BY <2>3, Zenon DEF Shows, n
  <2>7. r.truncated <=> \E j \in 1 .. n : r.entries[j].snippet < texts[j].len
    BY <2>3, Zenon DEF Shows, n
  <2>8. /\ Len(a.entries) = n + 1 /\ a.entries[n + 1] = entry
        /\ \A j \in 1 .. n : a.entries[j] = r.entries[j]
    BY <1>2, <2>2, <2>4, <2>6
  <2>9. \A j \in 1 .. n + 1 : j \in 1 .. n \/ j = n + 1
    BY <1>1
  <2>10. \A j \in 1 .. n + 1 :
            a.entries[j].chunk = more[j] /\ a.entries[j].snippet <= more[j].len
    BY <1>1, <2>1, <2>2, <2>6, <2>8, <2>9, SMTT(30)
  <2>11. (\E j \in 1 .. n + 1 : a.entries[j].snippet < more[j].len)
            <=> (\E j \in 1 .. n : r.entries[j].snippet < texts[j].len) \/ snippet < chunk.len
    <3>1. \A j \in 1 .. n : j \in 1 .. n + 1 /\ a.entries[j].snippet = r.entries[j].snippet
                                /\ more[j].len = texts[j].len
      BY <1>1, <2>8
    <3>2. n + 1 \in 1 .. n + 1 /\ a.entries[n + 1].snippet = snippet
             /\ more[n + 1].len = chunk.len
      BY <1>1, <2>2, <2>8
    <3> QED
      BY <2>9, <3>1, <3>2
  <2> QED
    BY <1>1, <2>3, <2>5, <2>7, <2>8, <2>10, <2>11, Zenon DEF Shows
<1> QED
  BY <1>3, <1>4, <1>5, <1>6, Zenon DEF a, more

\* A context says it is truncated exactly when it does not show every text whole,
\* for any chunks, any budget and any size of a token.
THEOREM ContextsReportTruncation ==
    ASSUME NEW chunks \in Seq(ContextChunks), NEW budget \in Nat \ {0}, NEW cpt \in Nat \ {0}
    PROVE  ReportsTruncation(chunks, budget, cpt)
<1> DEFINE n == Len(chunks)
           S == {c \in ToSet(chunks) : c.len > 0}
           texts == Kept(chunks, S)
<1>1. n \in Nat /\ \A i \in 1 .. n : chunks[i] \in ContextChunks
  OBVIOUS
<1>2. \A i \in 1 .. n : chunks[i] \in S <=> chunks[i].len # 0
  <2>1. \A i \in 1 .. n : chunks[i].len \in Nat
    BY <1>1 DEF ContextChunks
  <2>2. \A i \in 1 .. n : chunks[i] \in ToSet(chunks)
    BY DEF ToSet
  <2> QED
    BY <2>1, <2>2
<1>3. PICK f : /\ f[0] = Nothing
               /\ \A i \in 1 .. n : f[i] = Add(f[i - 1], chunks[i], budget, cpt)
               /\ \A i \in 0 .. n : f[i] \in Builds
               /\ Build(chunks, budget, cpt) = f[n]
  BY BuildRecursion
<1> HIDE DEF S
<1>4. PICK g : /\ KeptBy(g, chunks, S) /\ texts = g[n]
               /\ \A i \in 0 .. n : g[i] \in Seq(ContextChunks)
  BY KeptRecursion
<1>5. /\ g[0] = <<>>
      /\ \A i \in 1 .. n : g[i] = IF chunks[i] \in S THEN Append(g[i - 1], chunks[i]) ELSE g[i - 1]
  BY <1>1, <1>4, KeptSteps
<1> HIDE DEF n
<1>6. Shows(f[0], g[0])
  BY <1>3, <1>5, EmptySeq DEF Shows, Nothing
<1>7. ASSUME NEW i \in Nat, i + 1 <= n, Shows(f[i], g[i])
      PROVE  Shows(f[i + 1], g[i + 1])
  <2> DEFINE chunk == chunks[i + 1]
  <2>1. i \in 0 .. n /\ i + 1 \in 1 .. n /\ (i + 1) - 1 = i
    BY <1>1, <1>7
  <2>2. f[i] \in Builds /\ g[i] \in Seq(ContextChunks) /\ chunk \in ContextChunks
    BY <1>1, <1>3, <1>4, <2>1
  <2>3. f[i + 1] = Add(f[i], chunk, budget, cpt)
    BY <1>3, <2>1
  <2>4. g[i + 1] = IF chunk.len # 0 THEN Append(g[i], chunk) ELSE g[i]
    BY <1>2, <1>5, <2>1
  <2> HIDE DEF chunk
  <2>5. Shows(Add(f[i], chunk, budget, cpt), IF chunk.len # 0 THEN Append(g[i], chunk) ELSE g[i])
    BY <1>7, <2>2, ShowsNext
  <2> QED
    BY <2>3, <2>4, <2>5, Zenon
<1>8. Shows(f[n], g[n])
  <2> DEFINE T == {i \in Nat : i <= n => Shows(f[i], g[i])}
  <2>1. 0 \in T
    BY <1>6
  <2>2. \A i \in Nat : i \in T => i + 1 \in T
    BY <1>1, <1>7
  <2> HIDE DEF T
  <2>3. \A i \in Nat : i \in T
    BY <2>1, <2>2, SetInduction
  <2> QED
    BY <1>1, <2>3 DEF T
<1> DEFINE r == f[n]
           whole == [i \in DOMAIN texts |-> [chunk |-> texts[i], snippet |-> texts[i].len]]
<1>9. r \in Builds /\ r.entries \in Seq(Entries) /\ texts \in Seq(ContextChunks)
  BY <1>1, <1>3, <1>4 DEF Builds
<1>10. Shows(r, texts)
  BY <1>4, <1>8
<1> HIDE DEF r, texts
<1>11. r.truncated <=> r.entries # whole
  <2> DEFINE m == Len(texts)
  <2>1. /\ m \in Nat /\ DOMAIN texts = 1 .. m /\ DOMAIN r.entries = 1 .. Len(r.entries)
        /\ Len(r.entries) \in Nat /\ \A j \in 1 .. Len(r.entries) : r.entries[j] \in Entries
    BY <1>9, LenProperties
  <2>2. DOMAIN whole = 1 .. m
        /\ \A j \in 1 .. m : whole[j] = [chunk |-> texts[j], snippet |-> texts[j].len]
    BY <2>1
  <2> HIDE DEF m, whole
  <2>3. CASE r.full
    <3>1. r.truncated /\ Len(r.entries) < m
      BY <1>10, <2>3, Zenon DEF Shows, m
    <3>2. m \in DOMAIN whole /\ m \notin DOMAIN r.entries
      BY <2>1, <2>2, <3>1
    <3>3. r.entries # whole
      BY <3>2
    <3> QED
      BY <3>1, <3>3
  <2>4. CASE ~r.full
    <3>1. /\ Len(r.entries) = m
          /\ \A j \in 1 .. m : r.entries[j].chunk = texts[j] /\ r.entries[j].snippet <= texts[j].len
      BY <1>10, <2>4, Zenon DEF Shows, m
    <3>2. r.truncated <=> \E j \in 1 .. m : r.entries[j].snippet < texts[j].len
      BY <1>10, <2>4, Zenon DEF Shows, m
    <3>3. \A j \in 1 .. m : texts[j].len \in Nat /\ r.entries[j].snippet \in Nat
      BY <1>9, <2>1, <3>1 DEF ContextChunks, Entries
    <3>4. \A j \in 1 .. m :
             r.entries[j] = [chunk |-> r.entries[j].chunk, snippet |-> r.entries[j].snippet]
      BY <2>1, <3>1 DEF Entries
    <3>5. ASSUME \A j \in 1 .. m : ~(r.entries[j].snippet < texts[j].len)
          PROVE  r.entries = whole
      <4>1. \A j \in 1 .. m : r.entries[j].snippet = texts[j].len
        BY <3>1, <3>3, <3>5
      <4>2. \A j \in 1 .. m : r.entries[j] = whole[j]
        BY <2>2, <3>1, <3>4, <4>1
      <4>3. r.entries = [j \in 1 .. m |-> r.entries[j]]
        BY <1>9, <3>1
      <4>4. whole = [j \in 1 .. m |-> whole[j]]
        BY <2>1, <2>2 DEF whole
      <4> QED
        BY <4>2, <4>3, <4>4
    <3>6. ASSUME NEW j \in 1 .. m, r.entries[j].snippet < texts[j].len
          PROVE  r.entries # whole
      <4>1. whole[j].snippet = texts[j].len
        BY <2>2
      <4> QED
        BY <3>3, <3>6, <4>1
    <3> QED
      BY <3>2, <3>5, <3>6
  <2> QED
    BY <2>3, <2>4
<1> QED
  BY <1>3, <1>11, Zenon DEF ReportsTruncation, r, texts, S

-----------------------------------------------------------------------------
(* The memory window *)

\* What the recursion of TotalTokens says.
TotalledBy(f, s, n, cpt) ==
    f = [i \in 0 .. n |-> IF i = 0 THEN 0 ELSE f[i - 1] + Tokens(s[Len(s) - i + 1], cpt)]

LEMMA TotalRecursion ==
    ASSUME NEW s \in Seq(Nat), NEW n \in Nat, n <= Len(s), NEW cpt \in Nat \ {0}
    PROVE  \E f : /\ f[0] = 0
                  /\ \A i \in 1 .. n : f[i] = f[i - 1] + Tokens(s[Len(s) - i + 1], cpt)
                  /\ \A i \in 0 .. n : f[i] \in Nat
                  /\ TotalTokens(s, n, cpt) = f[n]
<1> DEFINE t(i) == Tokens(s[Len(s) - i + 1], cpt)
<1>1. \A i \in 1 .. n : t(i) \in Nat
  <2>1. \A i \in 1 .. n : s[Len(s) - i + 1] \in Nat
    OBVIOUS
  <2> QED
    BY <2>1, TokensBound
<1> HIDE DEF t
<1>2. PICK f \in [0 .. n -> Nat] : f[0] = 0 /\ \A i \in 1 .. n : f[i] = f[i - 1] + t(i)
  <2> DEFINE u == [i \in 1 .. n |-> t(i)]
  <2>1. u \in [1 .. n -> Nat]
    BY <1>1
  <2>2. \A i \in 1 .. n : u[i] = t(i)
    OBVIOUS
  <2> HIDE DEF u
  <2>3. PICK f \in [0 .. n -> Nat] : f[0] = 0 /\ \A i \in 1 .. n : f[i] = f[i - 1] + u[i]
    BY <2>1, RunningTotals
  <2> QED
    BY <2>2, <2>3
<1>3. \A i \in 0 .. n : f[i] = IF i = 0 THEN 0 ELSE f[i - 1] + t(i)
  <2>1. \A i \in 0 .. n : i = 0 \/ i \in 1 .. n
    OBVIOUS
  <2>2. \A i \in 1 .. n : i # 0
    OBVIOUS
  <2> QED
    BY <1>2, <2>1, <2>2
<1>4. TotalledBy(f, s, n, cpt)
  BY <1>2, <1>3 DEF TotalledBy, t
<1> DEFINE h == CHOOSE h : TotalledBy(h, s, n, cpt)
<1>5. TotalledBy(h, s, n, cpt)
  BY <1>4, Zenon
<1>6. TotalTokens(s, n, cpt) = h[n]
  BY Zenon DEF TotalTokens, TotalledBy
<1> HIDE DEF h
<1> DEFINE e(i) == IF i = 0 THEN 0 ELSE h[i - 1] + t(i)
<1>7. h = [i \in 0 .. n |-> e(i)]
  BY <1>5 DEF TotalledBy, t
<1> HIDE DEF e
<1>8. \A i \in 0 .. n : h[i] = e(i)
  BY <1>7
<1>9. h[0] = 0
  BY <1>8 DEF e
<1>10. \A i \in 1 .. n : h[i] = e(i)
  BY <1>8
<1>11. \A i \in 1 .. n : h[i] = h[i - 1] + t(i)
  BY <1>10 DEF e
<1>12. \A i \in 0 .. n : h[i] = f[i]
  <2>1. Parallel(h, f, n)
    BY <1>2, <1>11 DEF Parallel
  <2>2. h[0] = f[0]
    BY <1>2, <1>9
  <2> QED
    BY <2>1, <2>2, Agreement, SMTT(30)
<1>13. \A i \in 0 .. n : h[i] \in Nat
  BY <1>2, <1>12
<1> QED
  BY <1>6, <1>9, <1>11, <1>13 DEF t

\* One message more takes its tokens more.
LEMMA TotalGrows ==
    ASSUME NEW s \in Seq(Nat), NEW cpt \in Nat \ {0}
    PROVE  /\ TotalTokens(s, 0, cpt) = 0
           /\ \A k \in 0 .. Len(s) : TotalTokens(s, k, cpt) \in Nat
           /\ \A k \in 0 .. (Len(s) - 1) :
                 TotalTokens(s, k + 1, cpt) = TotalTokens(s, k, cpt) + Tokens(s[Len(s) - k], cpt)
<1>1. TotalTokens(s, 0, cpt) = 0
  <2>1. 0 \in Nat /\ 0 <= Len(s)
    OBVIOUS
  <2> QED
    BY <2>1, TotalRecursion
<1>2. ASSUME NEW k \in 0 .. Len(s)
      PROVE  TotalTokens(s, k, cpt) \in Nat
  <2>1. k \in 0 .. k /\ k \in Nat /\ k <= Len(s)
    OBVIOUS
  <2>2. PICK f : /\ f[0] = 0
                 /\ \A i \in 1 .. k : f[i] = f[i - 1] + Tokens(s[Len(s) - i + 1], cpt)
                 /\ \A i \in 0 .. k : f[i] \in Nat
                 /\ TotalTokens(s, k, cpt) = f[k]
    BY <2>1, TotalRecursion
  <2> QED
    BY <2>1, <2>2
<1>3. ASSUME NEW k \in 0 .. (Len(s) - 1)
      PROVE  TotalTokens(s, k + 1, cpt) = TotalTokens(s, k, cpt) + Tokens(s[Len(s) - k], cpt)
  <2> DEFINE t(i) == Tokens(s[Len(s) - i + 1], cpt)
  <2>1. k \in Nat /\ k \in 0 .. Len(s) /\ k + 1 \in 0 .. Len(s) /\ k + 1 \in 1 .. k + 1
        /\ (k + 1) - 1 = k /\ Len(s) - (k + 1) + 1 = Len(s) - k
        /\ \A i \in 1 .. k : i \in 1 .. k + 1
    OBVIOUS
  <2>2. PICK f : /\ f[0] = 0
                 /\ \A i \in 1 .. k : f[i] = f[i - 1] + t(i)
                 /\ \A i \in 0 .. k : f[i] \in Nat
                 /\ TotalTokens(s, k, cpt) = f[k]
    <3>1. k \in Nat /\ k <= Len(s)
      BY <2>1
    <3> QED
      BY <3>1, TotalRecursion
  <2> DEFINE l == k + 1
  <2>3. PICK g : /\ g[0] = 0
                 /\ \A i \in 1 .. l : g[i] = g[i - 1] + t(i)
                 /\ \A i \in 0 .. l : g[i] \in Nat
                 /\ TotalTokens(s, l, cpt) = g[l]
    <3>1. l \in Nat /\ l <= Len(s)
      BY <2>1
    <3> HIDE DEF l
    <3> QED
      BY <3>1, TotalRecursion
  <2>4. t(k + 1) = Tokens(s[Len(s) - k], cpt)
    BY <2>1
  <2> HIDE DEF t
  <2>5. Parallel(g, f, k)
    BY <2>1, <2>2, <2>3 DEF Parallel
  <2>6. g[k] = f[k]
    <3>1. g[0] = f[0] /\ k \in Nat
      BY <2>1, <2>2, <2>3
    <3>2. \A i \in 0 .. k : g[i] = f[i]
      BY <2>5, <3>1, Agreement
    <3> QED
      BY <2>1, <3>2
  <2>7. g[k + 1] = g[k] + t(k + 1)
    BY <2>1, <2>3
  <2> QED
    BY <2>2, <2>3, <2>4, <2>6, <2>7
<1> QED
  BY <1>1, <1>2, <1>3

\* More messages take more tokens.
LEMMA TotalMonotone ==
    ASSUME NEW s \in Seq(Nat), NEW cpt \in Nat \ {0}, NEW j \in 0 .. Len(s), NEW k \in j .. Len(s)
    PROVE  TotalTokens(s, j, cpt) <= TotalTokens(s, k, cpt)
<1> DEFINE total(i) == TotalTokens(s, i, cpt)
           T == {d \in Nat : j + d <= Len(s) => total(j) <= total(j + d)}
<1>1. Len(s) \in Nat /\ j \in Nat /\ k \in Nat
  OBVIOUS
<1>2. \A i \in 0 .. Len(s) : total(i) \in Nat
  BY TotalGrows
<1>3. \A i \in 0 .. (Len(s) - 1) : total(i) <= total(i + 1)
  <2> SUFFICES ASSUME NEW i \in 0 .. (Len(s) - 1)
               PROVE  total(i) <= total(i + 1)
    OBVIOUS
  <2>1. s[Len(s) - i] \in Nat /\ i \in 0 .. Len(s)
    OBVIOUS
  <2>2. Tokens(s[Len(s) - i], cpt) \in Nat
    BY <2>1, TokensBound
  <2>3. total(i + 1) = total(i) + Tokens(s[Len(s) - i], cpt)
    BY TotalGrows
  <2>4. total(i) \in Nat
    BY <1>2, <2>1
  <2> HIDE DEF total
  <2> QED
    BY <2>2, <2>3, <2>4
<1> HIDE DEF total
<1>4. 0 \in T
  BY <1>1, <1>2
<1>5. ASSUME NEW d \in Nat, d \in T
      PROVE  d + 1 \in T
  <2>1. CASE j + (d + 1) <= Len(s)
    <3>1. j + d \in 0 .. (Len(s) - 1) /\ (j + d) + 1 = j + (d + 1) /\ j + (d + 1) \in 0 .. Len(s)
      BY <1>1, <2>1
    <3>2. total(j) <= total(j + d) /\ total(j + d) <= total(j + (d + 1))
      BY <1>1, <1>3, <1>5, <3>1
    <3>3. total(j) \in Nat /\ total(j + d) \in Nat /\ total(j + (d + 1)) \in Nat
      BY <1>1, <1>2, <3>1
    <3>4. total(j) <= total(j + (d + 1))
      BY <3>2, <3>3
    <3> QED
      BY <3>4
  <2> QED
    BY <2>1
<1> HIDE DEF T
<1>6. \A d \in Nat : d \in T
  BY <1>4, <1>5, SetInduction
<1>7. k - j \in Nat /\ j + (k - j) = k
  BY <1>1
<1>8. total(j) <= total(k)
  <2> DEFINE d == k - j
  <2>1. d \in Nat /\ j + d = k /\ k <= Len(s)
    BY <1>1, <1>7
  <2> HIDE DEF d
  <2>2. d \in T
    BY <1>6, <2>1
  <2>3. j + d <= Len(s) => total(j) <= total(j + d)
    BY <2>2 DEF T
  <2> QED
    BY <2>1, <2>3
<1> QED
  BY <1>8 DEF total

LEMMA NewestGrows ==
    ASSUME NEW T, NEW s \in Seq(T), NEW k \in 0 .. (Len(s) - 1)
    PROVE  /\ Newest(s, 0) = <<>>
           /\ Newest(s, k + 1) = <<s[Len(s) - k]>> \o Newest(s, k)
<1> DEFINE r == Newest(s, k)
           u == Newest(s, k + 1)
           m == s[Len(s) - k]
           n == Len(s)
<1>1. n \in Nat /\ k \in Nat /\ k + 1 \in Nat /\ n >= k /\ n >= k + 1 /\ n >= 0 /\ 0 \in Nat
      /\ m \in T
  OBVIOUS
<1>2. Newest(s, 0) = <<>>
  <2>1. Newest(s, 0) \in Seq(T) /\ Len(Newest(s, 0)) = 0
    BY <1>1, NewestEnough
  <2> QED
    BY <2>1, EmptySeq
<1>3. r \in Seq(T) /\ Len(r) = k /\ \A i \in 1 .. k : r[i] = s[n - k + i]
  BY <1>1, NewestEnough
<1>4. u \in Seq(T) /\ Len(u) = k + 1 /\ \A i \in 1 .. k + 1 : u[i] = s[n - (k + 1) + i]
  BY <1>1, NewestEnough
<1> HIDE DEF r, u, m
<1>5. <<m>> \in Seq(T) /\ <<m>> \o r \in Seq(T) /\ Len(<<m>> \o r) = k + 1
      /\ (<<m>> \o r)[1] = m /\ \A i \in 2 .. k + 1 : (<<m>> \o r)[i] = r[i - 1]
  BY <1>1, <1>3
<1>6. \A i \in 1 .. k + 1 : u[i] = (<<m>> \o r)[i]
  <2>1. u[1] = m
    <3>1. n - (k + 1) + 1 = n - k /\ 1 \in 1 .. k + 1
      BY <1>1
    <3> QED
      BY <1>4, <3>1 DEF m
  <2>2. ASSUME NEW i \in 2 .. k + 1
        PROVE  u[i] = r[i - 1]
    <3> DEFINE a == n - (k + 1) + i
               b == n - k + (i - 1)
    <3>1. a = b /\ i - 1 \in 1 .. k /\ i \in 1 .. k + 1
      BY <1>1
    <3>2. u[i] = s[a] /\ r[i - 1] = s[b]
      BY <1>3, <1>4, <3>1
    <3> HIDE DEF a, b
    <3> QED
      BY <3>1, <3>2
  <2>3. \A i \in 1 .. k + 1 : i = 1 \/ i \in 2 .. k + 1
    BY <1>1
  <2> QED
    BY <1>5, <2>1, <2>2, <2>3
<1>7. u = <<m>> \o r
  <2> DEFINE v == <<m>> \o r
  <2>1. u = [i \in 1 .. k + 1 |-> u[i]]
    BY <1>4
  <2>2. v \in Seq(T) /\ Len(v) = k + 1 /\ \A i \in 1 .. k + 1 : u[i] = v[i]
    BY <1>5, <1>6
  <2> HIDE DEF v
  <2>3. v = [i \in 1 .. k + 1 |-> v[i]]
    BY <2>2
  <2>4. u = v
    BY <2>1, <2>2, <2>3
  <2> QED
    BY <2>4 DEF v
<1> QED
  BY <1>2, <1>7 DEF r, u, m
\* What the window has kept on the way.
Scans == [kept : Seq(Nat), used : Nat, full : BOOLEAN]

\* v is w with the message, or its beginning, on the left.
Added(v, w, len, budget, cpt) ==
    /\ v \in Scans
    /\ v.full = w.full
    /\ Tokens(len, cpt) <= budget =>
          /\ v.kept = <<len>> \o w.kept
          /\ v.used = w.used + Tokens(len, cpt)
    /\ Tokens(len, cpt) > budget =>
          /\ v.kept = <<Min({len, budget * cpt})>> \o w.kept
          /\ v.used = w.used + budget

LEMMA KeepEffect ==
    ASSUME NEW w \in Scans, NEW len \in Nat, NEW budget \in Nat \ {0}, NEW cpt \in Nat \ {0}
    PROVE  Added(Keep(w, len, budget, cpt), w, len, budget, cpt)
<1> DEFINE t == Tokens(len, cpt)
           c == Min({len, budget * cpt})
           d == Min({t, budget})
           v == Keep(w, len, budget, cpt)
           r == budget * cpt
           kept == <<c>> \o w.kept
<1>1. t \in Nat /\ (t <= budget <=> len <= cpt * budget)
  BY TokensBound
<1>2. r \in Nat /\ cpt * budget = r
  OBVIOUS
<1>3. c = IF len <= r THEN len ELSE r
  BY <1>2, MinOfTwo
<1>4. d = IF t <= budget THEN t ELSE budget
  BY <1>1, MinOfTwo
<1>5. v = [w EXCEPT !.kept = kept, !.used = w.used + d]
  BY Zenon DEF Keep
<1> HIDE DEF t, c, d, v, r
<1>6. c \in Nat /\ d \in Nat
  BY <1>1, <1>2, <1>3, <1>4
<1>7. kept \in Seq(Nat) /\ w.used + d \in Nat
  BY <1>6 DEF Scans
<1> HIDE DEF kept
<1>8. v \in Scans /\ v.full = w.full /\ v.kept = kept /\ v.used = w.used + d
  BY <1>5, <1>7 DEF Scans
<1>9. t <= budget => c = len /\ d = t
  BY <1>1, <1>2, <1>3, <1>4
<1>10. t > budget => d = budget
  BY <1>1, <1>4
<1> QED
  BY <1>8, <1>9, <1>10 DEF Added, t, c, v, r, kept

\* What the recursion of Select says.
ScannedBy(f, s, budget, cpt) ==
    f = [k \in 0 .. Len(s) |->
            IF k = 0 THEN NoMessages ELSE Scan(f[k - 1], s[Len(s) - k + 1], budget, cpt)]

LEMMA ScanStays ==
    ASSUME NEW w \in Scans, NEW len \in Nat, NEW budget \in Nat \ {0}, NEW cpt \in Nat \ {0}
    PROVE  Scan(w, len, budget, cpt) \in Scans
<1> DEFINE stopped == [w EXCEPT !.full = TRUE]
<1>1. stopped \in Scans
  BY DEF Scans
<1> HIDE DEF stopped
<1>2. Keep(w, len, budget, cpt) \in Scans
  BY KeepEffect DEF Added
<1>3. \/ Scan(w, len, budget, cpt) = w
      \/ Scan(w, len, budget, cpt) = stopped
      \/ Scan(w, len, budget, cpt) = Keep(w, len, budget, cpt)
  BY Zenon DEF Scan, stopped
<1> QED
  BY <1>1, <1>2, <1>3

LEMMA SelectRecursion ==
    ASSUME NEW messages \in Seq(Nat), NEW max \in Nat \ {0},
           NEW budget \in Nat \ {0}, NEW cpt \in Nat \ {0}
    PROVE  LET s == Newest(messages, max)
           IN  \E f : /\ f[0] = NoMessages
                      /\ \A k \in 1 .. Len(s) :
                            f[k] = Scan(f[k - 1], s[Len(s) - k + 1], budget, cpt)
                      /\ \A k \in 0 .. Len(s) : f[k] \in Scans
                      /\ Select(messages, max, budget, cpt) = f[Len(s)]
<1> DEFINE s == Newest(messages, max)
           n == Len(s)
           step == [k \in 1 .. n |-> [w \in Scans |-> Scan(w, s[n - k + 1], budget, cpt)]]
<1>1. s \in Seq(Nat)
  BY NewestTyped
<1> HIDE DEF s
<1>2. n \in Nat /\ \A k \in 1 .. n : s[n - k + 1] \in Nat
  BY <1>1
<1>3. NoMessages \in Scans
  BY EmptySeq DEF NoMessages, Scans
<1>4. \A k \in 1 .. n, w \in Scans : Scan(w, s[n - k + 1], budget, cpt) \in Scans
  BY <1>2, ScanStays
<1>5. step \in [1 .. n -> [Scans -> Scans]]
  BY <1>4
<1>6. \A k \in 1 .. n, w \in Scans : step[k][w] = Scan(w, s[n - k + 1], budget, cpt)
  OBVIOUS
<1> HIDE DEF n, step
<1>7. PICK f \in [0 .. n -> Scans] : /\ f[0] = NoMessages
                                     /\ \A i \in 1 .. n : f[i] = step[i][f[i - 1]]
  <2>1. Steps(Scans, NoMessages, n, step)
    BY <1>2, <1>3, <1>5 DEF Steps
  <2>2. PICK f : Follows(f, Scans, NoMessages, n, step)
    BY <2>1, Iteration
  <2> QED
    BY <2>2 DEF Follows
<1>8. \A k \in 1 .. n : f[k] = Scan(f[k - 1], s[n - k + 1], budget, cpt)
  <2>1. \A k \in 1 .. n : k - 1 \in 0 .. n
    BY <1>2
  <2> QED
    BY <1>6, <1>7, <2>1
<1> DEFINE g(h, k) == Scan(h[k - 1], s[n - k + 1], budget, cpt)
<1>9. \A k \in 0 .. n : f[k] = IF k = 0 THEN NoMessages ELSE g(f, k)
  <2>1. \A k \in 0 .. n : k = 0 \/ k \in 1 .. n
    BY <1>2
  <2>2. \A k \in 1 .. n : k # 0
    BY <1>2
  <2>3. \A k \in 1 .. n : f[k] = g(f, k)
    BY <1>8
  <2> HIDE DEF g
  <2> QED
    BY <1>7, <2>1, <2>2, <2>3
<1>10. ScannedBy(f, s, budget, cpt)
  BY <1>7, <1>9 DEF ScannedBy, n
<1> DEFINE h == CHOOSE h : ScannedBy(h, s, budget, cpt)
<1>11. ScannedBy(h, s, budget, cpt)
  BY <1>10, Zenon
<1>12. Select(messages, max, budget, cpt) = h[n]
  BY Zenon DEF Select, ScannedBy, n, s
<1> HIDE DEF h
<1> DEFINE e(k) == IF k = 0 THEN NoMessages ELSE g(h, k)
<1>13. h = [k \in 0 .. n |-> e(k)]
  BY <1>11 DEF ScannedBy, n
<1> HIDE DEF e
<1>14. \A k \in 0 .. n : h[k] = e(k)
  BY <1>13
<1>15. h[0] = NoMessages
  BY <1>2, <1>14 DEF e
<1>16. \A k \in 1 .. n : h[k] = e(k)
  BY <1>2, <1>14
<1>17. \A k \in 1 .. n : h[k] = g(h, k)
  BY <1>16 DEF e
<1>18. \A k \in 0 .. n : h[k] = f[k]
  <2>1. Parallel(h, f, n)
    BY <1>8, <1>17 DEF Parallel
  <2>2. h[0] = f[0]
    BY <1>7, <1>15
  <2> QED
    BY <1>2, <2>1, <2>2, Agreement
<1>19. \A k \in 0 .. n : h[k] \in Scans
  BY <1>7, <1>18
<1> QED
  BY <1>12, <1>15, <1>17, <1>19 DEF n, s
\* After k messages the window is the newest j of them, and j = k unless the next one
\* did not fit,
Fitting(w, messages, k, j, budget, cpt) ==
    /\ w.kept = Newest(messages, j)
    /\ w.used = TotalTokens(messages, j, cpt)
    /\ w.used <= budget
    /\ ~w.full => j = k
    /\ w.full => j >= 1 /\ j < k /\ TotalTokens(messages, j + 1, cpt) > budget

\* or it is the beginning of a message that alone is too long.
Beginning(w, messages, budget, cpt) ==
    /\ TotalTokens(messages, 1, cpt) > budget
    /\ w.kept = <<Min({messages[Len(messages)], budget * cpt})>>
    /\ w.used = budget

LEMMA FittingNext ==
    ASSUME NEW messages \in Seq(Nat), NEW budget \in Nat \ {0}, NEW cpt \in Nat \ {0},
           NEW k \in 0 .. (Len(messages) - 1), NEW j \in 0 .. k, NEW w \in Scans,
           Fitting(w, messages, k, j, budget, cpt)
    PROVE  LET v == Scan(w, messages[Len(messages) - k], budget, cpt)
           IN  \/ \E i \in 0 .. (k + 1) : Fitting(v, messages, k + 1, i, budget, cpt)
               \/ Beginning(v, messages, budget, cpt)
<1> DEFINE n == Len(messages)
           len == messages[n - k]
           t == Tokens(len, cpt)
           total(i) == TotalTokens(messages, i, cpt)
           v == Scan(w, len, budget, cpt)
           keep == Keep(w, len, budget, cpt)
<1>1. n \in Nat /\ k \in Nat /\ j \in Nat /\ j <= k /\ k + 1 <= n /\ len \in Nat
  OBVIOUS
<1>2. t \in Nat \ {0}
  BY <1>1, TokensBound
<1>3. total(0) = 0 /\ total(j) \in Nat /\ total(k) \in Nat /\ total(k + 1) = total(k) + t
  <2>1. j \in 0 .. n /\ k \in 0 .. n /\ k \in 0 .. (n - 1)
    BY <1>1
  <2> QED
    BY <2>1, TotalGrows
<1>4. /\ w.kept = Newest(messages, j) /\ w.used = total(j) /\ w.used <= budget
      /\ ~w.full => j = k
      /\ w.full => j >= 1 /\ j < k /\ total(j + 1) > budget
  BY DEF Fitting
<1>5. CASE w.full
  <2>1. v = w
    BY <1>5, Zenon DEF Scan
  <2>2. Fitting(v, messages, k + 1, j, budget, cpt)
    <3>1. j < k + 1
      BY <1>1
    <3> HIDE DEF v, total
    <3> QED
      BY <1>4, <1>5, <2>1, <3>1 DEF Fitting, total
  <2>3. j \in 0 .. (k + 1)
    BY <1>1
  <2> QED
    BY <2>2, <2>3
<1>6. CASE ~w.full /\ w.kept # <<>> /\ w.used + t > budget
  <2>1. v = [w EXCEPT !.full = TRUE]
    BY <1>6, Zenon DEF Scan
  <2>2. v.kept = w.kept /\ v.used = w.used /\ v.full = TRUE
    BY <2>1 DEF Scans
  <2>3. j = k /\ total(j + 1) > budget
    BY <1>3, <1>4, <1>6
  <2>4. j # 0
    <3>1. Newest(messages, 0) = <<>>
      <4>1. 0 \in 0 .. (Len(messages) - 1)
        BY <1>1
      <4> QED
        BY <4>1, NewestGrows
    <3> QED
      BY <1>4, <1>6, <3>1
  <2>5. j >= 1 /\ j < k + 1
    BY <1>1, <2>3, <2>4
  <2>6. Fitting(v, messages, k + 1, j, budget, cpt)
    <3> HIDE DEF v, total
    <3> QED
      BY <1>4, <2>2, <2>3, <2>5 DEF Fitting, total
  <2>7. j \in 0 .. (k + 1)
    BY <1>1
  <2> QED
    BY <2>6, <2>7
<1>7. CASE ~w.full /\ ~(w.kept # <<>> /\ w.used + t > budget)
  <2>1. v = keep
    BY <1>7, Zenon DEF Scan
  <2>2. /\ keep.full = w.full
        /\ t <= budget => keep.kept = <<len>> \o w.kept /\ keep.used = w.used + t
        /\ t > budget => /\ keep.kept = <<Min({len, budget * cpt})>> \o w.kept
                         /\ keep.used = w.used + budget
    <3>1. len \in Nat
      BY <1>1
    <3> HIDE DEF len
    <3>2. Added(keep, w, len, budget, cpt)
      BY <3>1, KeepEffect
    <3> HIDE DEF keep
    <3> QED
      BY <3>2 DEF Added
  <2>3. j = k /\ w.kept = Newest(messages, k) /\ w.used = total(k)
    BY <1>4, <1>7
  <2>4. Newest(messages, 0) = <<>> /\ Newest(messages, k + 1) = <<len>> \o Newest(messages, k)
    BY NewestGrows
  <2>5. k = 0 => w.kept = <<>> /\ w.used = 0
    BY <1>3, <2>3, <2>4
  <2>6. k # 0 => w.kept # <<>>
    <3>1. k # 0 => Len(Newest(messages, k)) = k
      <4>1. Len(messages) >= k
        BY <1>1
      <4> QED
        BY <1>1, <4>1, NewestEnough
    <3> QED
      BY <1>1, <2>3, <3>1, EmptySeq
  <2>7. CASE t <= budget
    <3>1. total(k + 1) <= budget
      <4>1. CASE k = 0
        <5>1. total(k) = 0
          BY <1>3, <4>1
        <5> HIDE DEF total, t
        <5> QED
          BY <1>2, <1>3, <2>7, <5>1
      <4>2. CASE k # 0
        <5>1. ~(w.used + t > budget)
          BY <1>7, <2>6, <4>2
        <5> HIDE DEF total, t
        <5> QED
          BY <1>2, <1>3, <2>3, <5>1
      <4> QED
        BY <4>1, <4>2
    <3>2. v.kept = Newest(messages, k + 1) /\ v.used = total(k + 1) /\ ~v.full
      <4> HIDE DEF total, t, v, keep, len
      <4> QED
        BY <1>3, <1>7, <2>1, <2>2, <2>3, <2>4, <2>7
    <3>3. Fitting(v, messages, k + 1, k + 1, budget, cpt)
      <4> HIDE DEF total, v
      <4> QED
        BY <3>1, <3>2 DEF Fitting, total
    <3>4. k + 1 \in 0 .. (k + 1)
      BY <1>1
    <3> QED
      BY <3>3, <3>4
  <2>8. CASE t > budget
    <3>1. k = 0
      <4>1. k # 0 => ~(w.used + t > budget)
        BY <1>7, <2>6
      <4> HIDE DEF total, t
      <4> QED
        BY <1>2, <1>3, <2>3, <2>8, <4>1
    <3>2. n - k = n
      BY <1>1, <3>1
    <3>3. total(1) > budget
      BY <1>2, <1>3, <2>8, <3>1
    <3>4. v.kept = <<Min({len, budget * cpt})>> /\ v.used = budget
      <4> DEFINE c == Min({len, budget * cpt})
      <4>1. v.kept = <<c>> \o w.kept /\ v.used = w.used + budget
        BY <2>1, <2>2, <2>8
      <4>2. w.kept = <<>> /\ w.used = 0
        BY <2>5, <3>1
      <4> HIDE DEF c, v
      <4>3. <<c>> \o <<>> = <<c>>
        OBVIOUS
      <4> QED
        BY <4>1, <4>2, <4>3 DEF c
    <3>5. Beginning(v, messages, budget, cpt)
      BY <3>2, <3>3, <3>4, Zenon DEF Beginning
    <3> QED
      BY <3>5
  <2> QED
    BY <1>2, <2>7, <2>8
<1> QED
  BY <1>5, <1>6, <1>7

\* A window with the beginning of a message stays as it is.
LEMMA BeginningStays ==
    ASSUME NEW messages \in Seq(Nat), NEW budget \in Nat \ {0}, NEW cpt \in Nat \ {0},
           NEW len \in Nat, NEW w \in Scans, Beginning(w, messages, budget, cpt)
    PROVE  Beginning(Scan(w, len, budget, cpt), messages, budget, cpt)
<1> DEFINE v == Scan(w, len, budget, cpt)
<1>1. w.kept # <<>> /\ w.used = budget
  BY DEF Beginning
<1>2. Tokens(len, cpt) \in Nat \ {0}
  BY TokensBound
<1>3. w.used + Tokens(len, cpt) > budget
  BY <1>1, <1>2
<1>4. v = w \/ v = [w EXCEPT !.full = TRUE]
  BY <1>1, <1>3, Zenon DEF Scan
<1> HIDE DEF v
<1>5. v.kept = w.kept /\ v.used = w.used
  BY <1>4 DEF Scans
<1> QED
  BY <1>5 DEF Beginning, v
\* The window that is to be found is the newest j messages when they fit and either
\* there are no more or one more does not,
LEMMA LongestIs ==
    ASSUME NEW messages \in Seq(Nat), NEW max \in Nat \ {0}, NEW budget \in Nat \ {0},
           NEW cpt \in Nat \ {0}, NEW m, m = Min({max, Len(messages)}),
           NEW j \in 0 .. m, TotalTokens(messages, j, cpt) <= budget,
           j < m => j >= 1 /\ TotalTokens(messages, j + 1, cpt) > budget
    PROVE  LongestFit(messages, max, budget, cpt) = Newest(messages, j)
<1> DEFINE n == Len(messages)
           total(i) == TotalTokens(messages, i, cpt)
           fitting == {k \in 0 .. m : total(k) <= budget}
<1>1. n \in Nat /\ m \in Nat /\ m <= n /\ m <= max /\ (m = n \/ m = max) /\ j \in Nat /\ j <= m
  <2>1. n \in Nat /\ max \in Nat
    OBVIOUS
  <2>2. m = IF max <= n THEN max ELSE n
    BY <2>1, MinOfTwo
  <2>3. m \in Nat
    BY <2>1, <2>2
  <2> QED
    BY <2>1, <2>2, <2>3
<1>2. \A i \in 0 .. n : total(i) \in Nat
  BY TotalGrows
<1>3. \A i \in 0 .. n : \A k \in i .. n : total(i) <= total(k)
  BY TotalMonotone
<1> HIDE DEF total
<1>4. j \in fitting
  BY DEF total
<1>5. ASSUME NEW k \in fitting
      PROVE  k <= j
  <2>1. k \in 0 .. m /\ total(k) <= budget
    OBVIOUS
  <2> HIDE DEF fitting
  <2>2. ASSUME k > j
        PROVE  FALSE
    <3>1. total(j + 1) > budget
      BY <1>1, <2>1, <2>2 DEF total
    <3>2. j + 1 \in 0 .. n /\ k \in (j + 1) .. n /\ k \in 0 .. n
      BY <1>1, <2>1, <2>2
    <3>3. total(j + 1) <= total(k) /\ total(k) \in Nat /\ total(j + 1) \in Nat
      BY <1>2, <1>3, <3>2
    <3> QED
      BY <2>1, <3>1, <3>3
  <2> QED
    BY <1>1, <2>1, <2>2
<1>6. Max(fitting) = j
  <2>1. fitting \in SUBSET (0 .. m) /\ fitting # {}
    BY <1>4
  <2> HIDE DEF fitting
  <2>2. Max(fitting) \in fitting /\ \A y \in fitting : Max(fitting) >= y
    BY <1>1, <2>1, LargestElement
  <2>3. Max(fitting) \in 0 .. m
    BY <2>1, <2>2
  <2> QED
    BY <1>1, <1>4, <1>5, <2>2, <2>3
<1>7. ~(messages # <<>> /\ Max(fitting) = 0)
  <2>1. CASE n = 0
    BY <2>1, EmptySeq
  <2>2. CASE n # 0
    <3>1. m >= 1
      BY <1>1, <2>2
    <3>2. j # 0
      BY <1>1, <3>1
    <3> QED
      BY <1>6, <3>2
  <2> QED
    BY <2>1, <2>2
<1> QED
  BY <1>6, <1>7, Zenon DEF LongestFit, fitting, total

\* and the beginning of the newest when that alone is too long.
LEMMA LongestIsBeginning ==
    ASSUME NEW messages \in Seq(Nat), NEW max \in Nat \ {0}, NEW budget \in Nat \ {0},
           NEW cpt \in Nat \ {0}, Len(messages) # 0, TotalTokens(messages, 1, cpt) > budget
    PROVE  LongestFit(messages, max, budget, cpt)
               = <<Min({messages[Len(messages)], budget * cpt})>>
<1> DEFINE n == Len(messages)
           m == Min({max, n})
           total(i) == TotalTokens(messages, i, cpt)
           fitting == {k \in 0 .. m : total(k) <= budget}
<1>1. n \in Nat /\ m \in Nat /\ m <= n /\ 1 <= n
  <2>1. n \in Nat /\ max \in Nat
    OBVIOUS
  <2>2. m = IF max <= n THEN max ELSE n
    BY <2>1, MinOfTwo
  <2>3. m \in Nat
    BY <2>1, <2>2
  <2> HIDE DEF m
  <2> QED
    BY <2>1, <2>2, <2>3
<1>2. total(0) = 0 /\ \A i \in 0 .. n : total(i) \in Nat
  BY TotalGrows
<1>3. \A k \in 1 .. n : total(1) <= total(k)
  <2>1. 1 \in 0 .. n
    BY <1>1
  <2> QED
    BY <2>1, TotalMonotone
<1>4. total(1) > budget
  OBVIOUS
<1> HIDE DEF total, m
<1>5. fitting = {0}
  <2>1. 0 \in fitting
    BY <1>1, <1>2
  <2>2. ASSUME NEW k \in fitting
        PROVE  k = 0
    <3>1. CASE k \in 1 .. n
      <4>1. total(1) <= total(k) /\ total(1) \in Nat /\ total(k) \in Nat /\ total(k) <= budget
        BY <1>1, <1>2, <1>3, <3>1
      <4> QED
        BY <1>4, <4>1
    <3> QED
      BY <1>1, <3>1
  <2> QED
    BY <2>1, <2>2
<1>6. Max(fitting) = 0
  <2> HIDE DEF fitting
  <2>1. fitting \in SUBSET (0 .. 0) /\ fitting # {}
    BY <1>5
  <2>2. Max(fitting) \in fitting
    BY <2>1, LargestElement
  <2> QED
    BY <1>5, <2>2
<1>7. messages # <<>>
  BY <1>1, EmptySeq
<1>8. Last(messages) = messages[n]
  BY DEF Last
<1> QED
  BY <1>6, <1>7, <1>8, Zenon DEF LongestFit, fitting, total, m

\* The messages that are kept are the newest that fit, all of them, or the beginning
\* of the newest, for every conversation, budget and size of a token.
THEOREM WindowsAreLongest ==
    ASSUME NEW messages \in Seq(Nat), NEW max \in Nat \ {0},
           NEW budget \in Nat \ {0}, NEW cpt \in Nat \ {0}
    PROVE  Select(messages, max, budget, cpt).kept = LongestFit(messages, max, budget, cpt)
<1> DEFINE n == Len(messages)
           s == Newest(messages, max)
           m == Len(s)
           total(i) == TotalTokens(messages, i, cpt)
<1>1. n \in Nat /\ s \in Seq(Nat) /\ m \in Nat /\ m <= n
      /\ m = Min({max, n})
      /\ \A k \in 1 .. m : s[m - k + 1] = messages[n - k + 1]
  <2>1. n \in Nat /\ max \in Nat
    OBVIOUS
  <2>2. Min({max, n}) = IF max <= n THEN max ELSE n
    BY <2>1, MinOfTwo
  <2>3. CASE n >= max
    <3>1. s \in Seq(Nat) /\ m = max /\ \A i \in 1 .. max : s[i] = messages[n - max + i]
      BY <2>1, <2>3, NewestEnough
    <3> HIDE DEF s, n
    <3>2. ASSUME NEW k \in 1 .. m
          PROVE  s[m - k + 1] = messages[n - k + 1]
      <4> DEFINE a == m - k + 1
      <4>1. a \in 1 .. max /\ n - max + a = n - k + 1
        BY <2>1, <3>1
      <4> HIDE DEF a, m
      <4>2. s[a] = messages[n - max + a]
        BY <3>1, <4>1
      <4> QED
        BY <4>1, <4>2 DEF a
    <3> QED
      BY <2>1, <2>2, <2>3, <3>1, <3>2
  <2>4. CASE n < max
    <3>1. s = messages
      BY <2>1, <2>4, NewestWhole
    <3> HIDE DEF s
    <3> QED
      BY <2>1, <2>2, <2>4, <3>1
  <2>5. n >= max \/ n < max
    BY <2>1
  <2> HIDE DEF s, m, n
  <2> QED
    BY <2>3, <2>4, <2>5
<1>2. PICK f : /\ f[0] = NoMessages
               /\ \A k \in 1 .. m : f[k] = Scan(f[k - 1], s[m - k + 1], budget, cpt)
               /\ \A k \in 0 .. m : f[k] \in Scans
               /\ Select(messages, max, budget, cpt) = f[m]
  BY SelectRecursion, ZenonT(40)
<1> HIDE DEF s, m
<1>3. \A k \in 1 .. m : f[k] = Scan(f[k - 1], messages[n - k + 1], budget, cpt)
  BY <1>1, <1>2
<1> DEFINE Good(k) == \/ \E j \in 0 .. k : Fitting(f[k], messages, k, j, budget, cpt)
                      \/ k >= 1 /\ Beginning(f[k], messages, budget, cpt)
           T == {k \in Nat : k <= m => Good(k)}
<1>4. 0 \in T
  <2>1. TotalTokens(messages, 0, cpt) = 0
    BY TotalGrows
  <2>2. Newest(messages, 0) = <<>>
    <3>1. n >= 0 /\ 0 \in Nat
      BY <1>1
    <3>2. Newest(messages, 0) \in Seq(Nat) /\ Len(Newest(messages, 0)) = 0
      BY <3>1, NewestEnough
    <3> QED
      BY <3>2, EmptySeq
  <2>3. f[0].kept = <<>> /\ f[0].used = 0 /\ f[0].full = FALSE
    BY <1>2 DEF NoMessages
  <2>4. Fitting(f[0], messages, 0, 0, budget, cpt)
    BY <2>1, <2>2, <2>3 DEF Fitting
  <2>5. 0 \in 0 .. 0
    OBVIOUS
  <2> QED
    BY <2>4, <2>5
<1> HIDE DEF Good
<1>5. ASSUME NEW k \in Nat, k \in T
      PROVE  k + 1 \in T
  <2> SUFFICES ASSUME k + 1 <= m
               PROVE  Good(k + 1)
    OBVIOUS
  <2> DEFINE w == f[k]
             len == messages[n - k]
             v == Scan(w, len, budget, cpt)
  <2>1. k \in 0 .. m /\ k <= m /\ k + 1 \in 1 .. m /\ k \in 0 .. (n - 1) /\ n - (k + 1) + 1 = n - k
        /\ n - k \in 1 .. n /\ (k + 1) - 1 = k /\ k + 1 >= 1
    <3>1. n \in Nat /\ m \in Nat /\ m <= n
      BY <1>1
    <3> HIDE DEF n
    <3> QED
      BY <3>1
  <2>2. w \in Scans /\ f[k + 1] = v /\ len \in Nat
    BY <1>2, <1>3, <2>1
  <2>3. Good(k)
    BY <1>5, <2>1
  <2>4. ASSUME NEW j \in 0 .. k, Fitting(w, messages, k, j, budget, cpt)
        PROVE  Good(k + 1)
    <3>1. \/ \E i \in 0 .. (k + 1) : Fitting(v, messages, k + 1, i, budget, cpt)
          \/ Beginning(v, messages, budget, cpt)
      BY <2>1, <2>2, <2>4, FittingNext
    <3> HIDE DEF v
    <3> QED
      BY <2>1, <2>2, <3>1 DEF Good
  <2>5. ASSUME Beginning(w, messages, budget, cpt)
        PROVE  Good(k + 1)
    <3>1. Beginning(v, messages, budget, cpt)
      BY <2>2, <2>5, BeginningStays
    <3> HIDE DEF v
    <3> QED
      BY <2>1, <2>2, <3>1 DEF Good
  <2> HIDE DEF v, len
  <2>6. \/ \E j \in 0 .. k : Fitting(w, messages, k, j, budget, cpt)
        \/ Beginning(w, messages, budget, cpt)
    BY <2>3 DEF Good
  <2> QED
    BY <2>4, <2>5, <2>6
<1> HIDE DEF T
<1>6. \A k \in Nat : k \in T
  BY <1>4, <1>5, SetInduction
<1>7. Good(m)
  <2>1. m \in Nat /\ m <= m
    BY <1>1
  <2> QED
    BY <1>6, <2>1 DEF T
<1> DEFINE w == f[m]
<1>8. ASSUME NEW j \in 0 .. m, Fitting(w, messages, m, j, budget, cpt)
      PROVE  w.kept = LongestFit(messages, max, budget, cpt)
  <2>1. /\ w.kept = Newest(messages, j) /\ total(j) <= budget
        /\ ~w.full => j = m
        /\ w.full => j >= 1 /\ j < m /\ total(j + 1) > budget
    BY <1>8 DEF Fitting
  <2> HIDE DEF w
  <2>2. j < m => j >= 1 /\ total(j + 1) > budget
    BY <1>1, <2>1
  <2>3. LongestFit(messages, max, budget, cpt) = Newest(messages, j)
    BY <1>1, <2>1, <2>2, LongestIs
  <2> QED
    BY <2>1, <2>3
<1>9. ASSUME m >= 1, Beginning(w, messages, budget, cpt)
      PROVE  w.kept = LongestFit(messages, max, budget, cpt)
  <2>1. total(1) > budget /\ w.kept = <<Min({messages[Len(messages)], budget * cpt})>>
    BY <1>9 DEF Beginning
  <2>2. n # 0
    BY <1>1, <1>9
  <2> QED
    BY <2>1, <2>2, LongestIsBeginning
<1> QED
  <2>1. \/ \E j \in 0 .. m : Fitting(w, messages, m, j, budget, cpt)
        \/ m >= 1 /\ Beginning(w, messages, budget, cpt)
    BY <1>7 DEF Good
  <2> QED
    BY <1>2, <1>8, <1>9, <2>1
-----------------------------------------------------------------------------
(* Chunks *)

Turns(p) == [chunks : Seq(OfPage(p)), start : Int, done : BOOLEAN]

\* A turn that takes place adds a window.
LEMMA TurnEffect ==
    ASSUME NEW p, NEW len \in Nat, NEW size \in Int, NEW overlap \in Int, NEW w \in Turns(p)
    PROVE  LET v == Turn(w, p, len, size, overlap)
               end == IF w.start + size <= len THEN w.start + size ELSE len
           IN  /\ v \in Turns(p)
               /\ w.done \/ w.start >= len => v = w
               /\ ~w.done /\ w.start < len =>
                     /\ v.chunks = Append(w.chunks, [page |-> p, start |-> w.start, end |-> end])
                     /\ v.start = end - overlap
                     /\ v.done <=> end = len
<1> DEFINE v == Turn(w, p, len, size, overlap)
           end == IF w.start + size <= len THEN w.start + size ELSE len
           window == [page |-> p, start |-> w.start, end |-> end]
           chunks == Append(w.chunks, window)
           done == end = len
           u == [chunks |-> chunks, start |-> end - overlap, done |-> done]
<1>1. w.start \in Int /\ w.chunks \in Seq(OfPage(p)) /\ w.done \in BOOLEAN
  BY DEF Turns
<1>2. end \in Int /\ w.start + size \in Int
  BY <1>1
<1>3. Min({w.start + size, len}) = end
  BY <1>1, <1>2, MinOfTwo
<1>4. Window(p, w, len, size) = window
  BY <1>3, Zenon DEF Window
<1>5. window.end = end
  OBVIOUS
<1> HIDE DEF end
<1>6. window \in OfPage(p)
  BY <1>1, <1>2 DEF OfPage
<1>7. v = IF w.done \/ w.start >= len THEN w ELSE u
  BY <1>4, <1>5, Zenon DEF Turn
<1> HIDE DEF window
<1>8. chunks \in Seq(OfPage(p)) /\ end - overlap \in Int
  BY <1>1, <1>2, <1>6
<1>9. done \in BOOLEAN
  OBVIOUS
<1> HIDE DEF chunks, v, done
<1>10. u \in Turns(p) /\ u.chunks = chunks /\ u.start = end - overlap /\ u.done = done
  BY <1>8, <1>9 DEF Turns
<1> HIDE DEF u
<1>11. w.start < len => ~(w.start >= len)
  BY <1>1
<1>12. v \in Turns(p)
  BY <1>7, <1>10, Zenon
<1>13. w.done \/ w.start >= len => v = w
  BY <1>7, Zenon
<1>14. ASSUME ~w.done, w.start < len
       PROVE  v.chunks = chunks /\ v.start = end - overlap /\ v.done = done
  BY <1>7, <1>10, <1>11, <1>14, Zenon
<1> QED
  BY <1>12, <1>13, <1>14, Zenon DEF v, chunks, window, done, end

\* What the recursion of Windows says.
TurnedBy(f, p, len, size, overlap) ==
    f = [i \in 0 .. len |-> IF i = 0 THEN Start ELSE Turn(f[i - 1], p, len, size, overlap)]

LEMMA WindowsRecursion ==
    ASSUME NEW p, NEW len \in Nat, NEW size \in Int, NEW overlap \in Int
    PROVE  \E f : /\ f[0] = Start
                  /\ \A i \in 1 .. len : f[i] = Turn(f[i - 1], p, len, size, overlap)
                  /\ \A i \in 0 .. len : f[i] \in Turns(p)
                  /\ Windows(p, len, size, overlap) = f[len].chunks
<1> DEFINE n == len
           X == Turns(p)
           g(w) == Turn(w, p, len, size, overlap)
           step == [i \in 1 .. n |-> [w \in X |-> g(w)]]
<1>1. n \in Nat
  OBVIOUS
<1>2. Start \in X
  BY EmptySeq DEF Start, Turns
<1>3. \A w \in X : g(w) \in X
  BY TurnEffect
<1> HIDE DEF g, X
<1>4. step \in [1 .. n -> [X -> X]]
  BY <1>3
<1>5. \A i \in 1 .. n, w \in X : step[i][w] = g(w)
  OBVIOUS
<1> HIDE DEF step, n
<1>6. PICK f \in [0 .. n -> X] : /\ f[0] = Start
                                 /\ \A i \in 1 .. n : f[i] = step[i][f[i - 1]]
  <2>1. Steps(X, Start, n, step)
    BY <1>1, <1>2, <1>4 DEF Steps
  <2>2. PICK f : Follows(f, X, Start, n, step)
    BY <2>1, Iteration
  <2> QED
    BY <2>2 DEF Follows
<1>7. \A i \in 1 .. n : f[i] = g(f[i - 1])
  <2>1. \A i \in 1 .. n : i - 1 \in 0 .. n
    BY <1>1
  <2> QED
    BY <1>5, <1>6, <2>1
<1>8. \A i \in 0 .. n : f[i] = IF i = 0 THEN Start ELSE g(f[i - 1])
  <2>1. \A i \in 0 .. n : i = 0 \/ i \in 1 .. n
    BY <1>1
  <2>2. \A i \in 1 .. n : i # 0
    BY <1>1
  <2> QED
    BY <1>6, <1>7, <2>1, <2>2
<1>9. TurnedBy(f, p, len, size, overlap)
  BY <1>6, <1>8 DEF TurnedBy, n, g
<1> DEFINE h == CHOOSE h : TurnedBy(h, p, len, size, overlap)
<1>10. TurnedBy(h, p, len, size, overlap)
  BY <1>9, Zenon
<1>11. Windows(p, len, size, overlap) = h[n].chunks
  BY Zenon DEF Windows, TurnedBy, n
<1> HIDE DEF h
<1> DEFINE e(i) == IF i = 0 THEN Start ELSE g(h[i - 1])
<1>12. h = [i \in 0 .. n |-> e(i)]
  BY <1>10 DEF TurnedBy, n, g
<1> HIDE DEF e
<1>13. \A i \in 0 .. n : h[i] = e(i)
  BY <1>12
<1>14. h[0] = Start
  BY <1>1, <1>13 DEF e
<1>15. \A i \in 1 .. n : h[i] = e(i)
  BY <1>1, <1>13
<1>16. \A i \in 1 .. n : h[i] = g(h[i - 1])
  BY <1>15 DEF e
<1>17. \A i \in 0 .. n : h[i] = f[i]
  <2>1. Parallel(h, f, n)
    BY <1>7, <1>16 DEF Parallel
  <2>2. h[0] = f[0]
    BY <1>6, <1>14
  <2> QED
    BY <1>1, <2>1, <2>2, Agreement
<1>18. \A i \in 0 .. n : h[i] \in X
  BY <1>6, <1>17
<1> QED
  BY <1>11, <1>14, <1>16, <1>18 DEF n, g, X

\* What is true after i turns: the windows tile the page up to where they end, and
\* the next one begins at or after character i.
Tiling(w, i, len, size, overlap) ==
    LET c == w.chunks
        last == c[Len(c)]
    IN  /\ c # <<>> => c[1].start = 0
        /\ \A j \in 1 .. Len(c) :
              /\ c[j].end - c[j].start \in 1 .. size
              /\ j < Len(c) =>
                     /\ c[j].end - c[j].start = size
                     /\ c[j + 1].start = c[j].end - overlap
                     /\ c[j + 1].end > c[j].end
        /\ w.done => c # <<>> /\ last.end = len
        /\ ~w.done =>
              /\ w.start >= i /\ w.start < len
              /\ c = <<>> => w.start = 0
              /\ c # <<>> => /\ last.end - last.start = size
                             /\ w.start = last.end - overlap
                             /\ last.end < len

LEMMA TilingNext ==
    ASSUME NEW p, NEW len \in Nat \ {0}, NEW size \in Nat \ {0},
           NEW overlap \in 0 .. (size - 1), NEW w \in Turns(p), NEW i \in Nat,
           Tiling(w, i, len, size, overlap)
    PROVE  Tiling(Turn(w, p, len, size, overlap), i + 1, len, size, overlap)
<1> DEFINE v == Turn(w, p, len, size, overlap)
           end == IF w.start + size <= len THEN w.start + size ELSE len
           window == [page |-> p, start |-> w.start, end |-> end]
           c == w.chunks
           n == Len(c)
           d == Append(c, window)
<1>1. overlap \in Nat /\ overlap < size /\ size \in Int /\ overlap \in Int /\ len \in Nat
  OBVIOUS
<1>2. c \in Seq(OfPage(p)) /\ n \in Nat /\ w.start \in Int
  BY DEF Turns
<1>3. /\ v \in Turns(p)
      /\ w.done \/ w.start >= len => v = w
      /\ ~w.done /\ w.start < len => /\ v.chunks = d
                                     /\ v.start = end - overlap
                                     /\ v.done <=> end = len
  BY <1>1, TurnEffect
<1>4. CASE w.done
  <2>1. v = w
    BY <1>3, <1>4
  <2> HIDE DEF v
  <2> QED
    BY <1>4, <2>1 DEF Tiling, v
<1>5. CASE ~w.done
  <2> DEFINE last == c[n]
  <2>1. /\ w.start >= i /\ w.start < len
        /\ c = <<>> => w.start = 0
        /\ c # <<>> => /\ last.end - last.start = size
                       /\ w.start = last.end - overlap
                       /\ last.end < len
    BY <1>5 DEF Tiling
  <2>2. v.chunks = d /\ v.start = end - overlap /\ (v.done <=> end = len)
    BY <1>3, <1>5, <2>1
  <2>3. /\ c # <<>> => c[1].start = 0
        /\ \A j \in 1 .. n : c[j].end - c[j].start \in 1 .. size
        /\ \A j \in 1 .. n : j < n => /\ c[j].end - c[j].start = size
                                      /\ c[j + 1].start = c[j].end - overlap
                                      /\ c[j + 1].end > c[j].end
    BY DEF Tiling
  <2>4. end \in Int /\ w.start < end /\ end <= w.start + size /\ end <= len
        /\ (end = len \/ (end = w.start + size /\ end < len))
    BY <1>1, <1>2, <2>1
  <2>5. window.start = w.start /\ window.end = end
    OBVIOUS
  <2> HIDE DEF end, v
  <2>6. window \in OfPage(p)
    BY <1>2, <2>4 DEF OfPage
  <2> HIDE DEF window
  <2>7. d \in Seq(OfPage(p)) /\ Len(d) = n + 1 /\ d[n + 1] = window
        /\ \A j \in 1 .. n : d[j] = c[j]
    BY <1>2, <2>6
  <2>8. c # <<>> => n >= 1
    BY <1>2, EmptySeq
  <2>9. c = <<>> => n = 0
    OBVIOUS
  <2>10. \A j \in 1 .. n : c[j].end \in Int /\ c[j].start \in Int
    <3>1. \A j \in 1 .. n : c[j] \in OfPage(p)
      BY <1>2
    <3> HIDE DEF c, n
    <3> QED
      BY <3>1 DEF OfPage
  <2> HIDE DEF d, c
  <2>11. d # <<>> /\ d[1].start = 0
    <3>1. CASE c = <<>>
      <4>1. n + 1 = 1
        BY <2>9, <3>1
      <4>2. Len(d) = 1 /\ d[1] = window
        BY <2>7, <4>1
      <4>3. d # <<>>
        <5>1. ASSUME d = <<>>
              PROVE  Len(d) = 0
          BY <5>1
        <5> QED
          BY <4>2, <5>1
      <4> QED
        BY <2>1, <2>5, <3>1, <4>2, <4>3
    <3>2. CASE c # <<>>
      <4>1. d[1] = c[1]
        BY <1>2, <2>7, <2>8, <3>2
      <4>2. d # <<>>
        BY <1>2, <2>7, EmptySeq
      <4> QED
        BY <2>3, <3>2, <4>1, <4>2
    <3> QED
      BY <3>1, <3>2
  <2>12. \A j \in 1 .. n + 1 : d[j].end - d[j].start \in 1 .. size
    <3>1. end - w.start \in 1 .. size
      BY <1>1, <1>2, <2>4
    <3>2. \A j \in 1 .. n + 1 : j = n + 1 \/ j \in 1 .. n
      BY <1>2
    <3> QED
      BY <2>3, <2>5, <2>7, <3>1, <3>2
  <2>13. ASSUME NEW j \in 1 .. n
         PROVE  /\ d[j].end - d[j].start = size
                /\ d[j + 1].start = d[j].end - overlap
                /\ d[j + 1].end > d[j].end
    <3>1. CASE j < n
      <4>1. j + 1 \in 1 .. n
        BY <1>2, <3>1
      <4>2. d[j] = c[j] /\ d[j + 1] = c[j + 1]
        BY <2>7, <4>1
      <4> QED
        BY <2>3, <3>1, <4>2
    <3>2. CASE j = n
      <4>1. c # <<>> /\ n \in 1 .. n
        BY <2>9, <3>2
      <4>2. d[j] = last /\ d[j + 1] = window
        BY <2>7, <3>2
      <4>3. last.end \in Int /\ last.start \in Int
        BY <2>10, <4>1
      <4> HIDE DEF last
      <4>4. last.end - last.start = size /\ w.start = last.end - overlap /\ last.end < len
        BY <2>1, <4>1
      <4>5. end > last.end
        BY <1>1, <1>2, <2>4, <4>3, <4>4, SMTT(30)
      <4> QED
        BY <2>5, <4>2, <4>4, <4>5
    <3> QED
      BY <1>2, <3>1, <3>2
  <2>14. \A j \in 1 .. n + 1 : j < n + 1 => j \in 1 .. n
    BY <1>2
  <2>15. d[Len(d)] = window
    BY <2>7
  <2>16. ~v.done => /\ v.start >= i + 1 /\ v.start < len
                    /\ end - w.start = size /\ end < len
    <3>1. ~v.done => end = w.start + size /\ end < len
      BY <2>2, <2>4
    <3> QED
      BY <1>1, <1>2, <2>1, <2>2, <2>4, <3>1
  <2>17. /\ d # <<>> => d[1].start = 0
         /\ \A j \in 1 .. Len(d) :
               /\ d[j].end - d[j].start \in 1 .. size
               /\ j < Len(d) => /\ d[j].end - d[j].start = size
                                /\ d[j + 1].start = d[j].end - overlap
                                /\ d[j + 1].end > d[j].end
    BY <2>7, <2>11, <2>12, <2>13, <2>14
  <2>18. /\ v.done => d # <<>> /\ d[Len(d)].end = len
         /\ ~v.done => /\ v.start >= i + 1 /\ v.start < len
                       /\ d = <<>> => v.start = 0
                       /\ d # <<>> => /\ d[Len(d)].end - d[Len(d)].start = size
                                      /\ v.start = d[Len(d)].end - overlap
                                      /\ d[Len(d)].end < len
    BY <2>2, <2>5, <2>11, <2>15, <2>16
  <2>19. v.chunks = d
    BY <2>2
  <2>20. Tiling(v, i + 1, len, size, overlap)
    BY <2>17, <2>18, <2>19, Zenon DEF Tiling
  <2> QED
    BY <2>20 DEF v
<1> QED
  BY <1>4, <1>5

\* The windows of a page tile it.
LEMMA WindowsTile ==
    ASSUME NEW p, NEW len \in Nat, NEW size \in Nat \ {0}, NEW overlap \in 0 .. (size - 1)
    PROVE  /\ Windows(p, len, size, overlap) \in Seq(OfPage(p))
           /\ Tiles(Windows(p, len, size, overlap), len, size, overlap)
<1>1. size \in Int /\ overlap \in Int /\ size \in Nat /\ overlap \in Nat
  OBVIOUS
<1>2. PICK f : /\ f[0] = Start
               /\ \A i \in 1 .. len : f[i] = Turn(f[i - 1], p, len, size, overlap)
               /\ \A i \in 0 .. len : f[i] \in Turns(p)
               /\ Windows(p, len, size, overlap) = f[len].chunks
  BY <1>1, WindowsRecursion
<1> DEFINE w == f[len]
           c == w.chunks
<1>3. w \in Turns(p) /\ c \in Seq(OfPage(p))
  <2>1. w \in Turns(p)
    BY <1>2
  <2> HIDE DEF w
  <2> QED
    BY <2>1 DEF Turns
<1>4. CASE len = 0
  <2>1. c = <<>>
    BY <1>2, <1>4 DEF Start
  <2> HIDE DEF c
  <2>2. Tiles(c, len, size, overlap)
    BY <1>4, <2>1 DEF Tiles
  <2> QED
    BY <1>2, <1>3, <2>2 DEF c
<1>5. CASE len # 0
  <2> DEFINE T == {i \in Nat : i <= len => Tiling(f[i], i, len, size, overlap)}
  <2>1. 0 \in T
    <3>1. Start.chunks = <<>> /\ Start.start = 0 /\ ~Start.done
      BY DEF Start
    <3>2. Len(<<>>) = 0 /\ \A j \in 1 .. Len(<<>>) : FALSE
      OBVIOUS
    <3>3. Tiling(Start, 0, len, size, overlap)
      BY <1>5, <3>1, <3>2 DEF Tiling
    <3> QED
      BY <1>2, <3>3
  <2>2. ASSUME NEW i \in Nat, i \in T
        PROVE  i + 1 \in T
    <3>1. CASE i + 1 <= len
      <4>1. i <= len /\ i + 1 \in 1 .. len /\ (i + 1) - 1 = i /\ i \in 0 .. len
        BY <3>1
      <4>2. Tiling(f[i], i, len, size, overlap)
        BY <2>2, <4>1
      <4>3. f[i + 1] = Turn(f[i], p, len, size, overlap) /\ f[i] \in Turns(p)
        BY <1>2, <4>1
      <4>4. len \in Nat \ {0}
        BY <1>5
      <4>5. Tiling(f[i + 1], i + 1, len, size, overlap)
        BY <4>2, <4>3, <4>4, TilingNext
      <4> QED
        BY <4>5
    <3> QED
      BY <3>1
  <2> HIDE DEF T
  <2>3. \A i \in Nat : i \in T
    BY <2>1, <2>2, SetInduction
  <2>4. Tiling(w, len, len, size, overlap)
    BY <2>3 DEF T
  <2>5. w.done
    <3>1. ~w.done => w.start >= len /\ w.start < len
      BY <2>4 DEF Tiling
    <3>2. w.start \in Int
      BY <1>3 DEF Turns
    <3> HIDE DEF w
    <3> QED
      BY <3>1, <3>2
  <2>6. /\ c # <<>> /\ c[Len(c)].end = len /\ c[1].start = 0
        /\ \A j \in 1 .. Len(c) :
              /\ c[j].end - c[j].start \in 1 .. size
              /\ j < Len(c) => /\ c[j].end - c[j].start = size
                               /\ c[j + 1].start = c[j].end - overlap
                               /\ c[j + 1].end > c[j].end
    BY <2>4, <2>5, Zenon DEF Tiling
  <2> HIDE DEF c
  <2>7. DOMAIN c = 1 .. Len(c)
    BY <1>3 DEF c
  <2>8. Tiles(c, len, size, overlap)
    BY <1>5, <2>6, <2>7, Zenon DEF Tiles, Last
  <2> QED
    BY <1>2, <1>3, <2>8 DEF c
<1> QED
  BY <1>4, <1>5
Spans == [page : Nat, start : Int, end : Int]

\* What the recursion of Split says.
SplitBy(f, pages, size, overlap) ==
    f = [p \in 0 .. Len(pages) |->
            IF p = 0 THEN <<>> ELSE f[p - 1] \o Windows(p, pages[p], size, overlap)]

LEMMA SplitRecursion ==
    ASSUME NEW pages \in Seq(Nat), NEW size \in Nat \ {0}, NEW overlap \in 0 .. (size - 1)
    PROVE  \E f : /\ f[0] = <<>>
                  /\ \A p \in 1 .. Len(pages) :
                        f[p] = f[p - 1] \o Windows(p, pages[p], size, overlap)
                  /\ \A p \in 0 .. Len(pages) : f[p] \in Seq(Spans)
                  /\ Split(pages, size, overlap) = f[Len(pages)]
<1> DEFINE n == Len(pages)
           X == Seq(Spans)
           x == <<>>
           g(p) == Windows(p, pages[p], size, overlap)
           step == [p \in 1 .. n |-> [r \in X |-> r \o g(p)]]
<1>1. n \in Nat
  OBVIOUS
<1>2. x \in X
  BY EmptySeq
<1>3. ASSUME NEW p \in 1 .. n
      PROVE  g(p) \in X
  <2>1. p \in Nat /\ pages[p] \in Nat
    OBVIOUS
  <2>2. g(p) \in Seq(OfPage(p))
    BY <2>1, WindowsTile
  <2> HIDE DEF g
  <2>3. OfPage(p) \subseteq Spans
    BY <2>1 DEF OfPage, Spans
  <2> HIDE DEF n
  <2> QED
    BY <2>2, <2>3
<1> HIDE DEF g
<1>4. PICK f : f \in [0 .. n -> X] /\ f[0] = x /\ \A p \in 1 .. n : f[p] = f[p - 1] \o g(p)
  <2>1. step \in [1 .. n -> [X -> X]]
    <3>1. \A p \in 1 .. n, r \in X : r \o g(p) \in X
      BY <1>3
    <3> QED
      BY <3>1
  <2>2. \A p \in 1 .. n, r \in X : step[p][r] = r \o g(p)
    OBVIOUS
  <2> HIDE DEF step, n, X, x
  <2>3. Steps(X, x, n, step)
    BY <1>1, <1>2, <2>1 DEF Steps
  <2>4. PICK f : Follows(f, X, x, n, step)
    BY <2>3, Iteration
  <2>5. f \in [0 .. n -> X] /\ f[0] = x /\ \A p \in 1 .. n : f[p] = step[p][f[p - 1]]
    BY <2>4 DEF Follows
  <2>6. ASSUME NEW p \in 1 .. n
        PROVE  f[p] = f[p - 1] \o g(p)
    <3>1. p - 1 \in 0 .. n
      BY <1>1
    <3>2. f[p - 1] \in X
      BY <2>5, <3>1
    <3>3. step[p][f[p - 1]] = f[p - 1] \o g(p)
      BY <2>2, <3>2
    <3> QED
      BY <2>5, <3>3
  <2> QED
    BY <2>5, <2>6
<1> HIDE DEF n, X, x, step
<1>5. \A p \in 0 .. n : f[p] = IF p = 0 THEN x ELSE f[p - 1] \o g(p)
  <2>1. \A p \in 0 .. n : p = 0 \/ p \in 1 .. n
    BY <1>1
  <2>2. \A p \in 1 .. n : p # 0
    BY <1>1
  <2> QED
    BY <1>4, <2>1, <2>2
<1>6. SplitBy(f, pages, size, overlap)
  BY <1>4, <1>5 DEF SplitBy, n, g, x
<1> DEFINE h == CHOOSE h : SplitBy(h, pages, size, overlap)
<1>7. SplitBy(h, pages, size, overlap)
  BY <1>6, Zenon
<1>8. Split(pages, size, overlap) = h[n]
  BY Zenon DEF Split, SplitBy, n
<1> HIDE DEF h
<1> DEFINE e(p) == IF p = 0 THEN x ELSE h[p - 1] \o g(p)
<1>9. h = [p \in 0 .. n |-> e(p)]
  BY <1>7 DEF SplitBy, n, g, x
<1> HIDE DEF e
<1>10. \A p \in 0 .. n : h[p] = e(p)
  BY <1>9
<1>11. h[0] = x
  BY <1>1, <1>10 DEF e
<1>12. \A p \in 1 .. n : h[p] = e(p)
  BY <1>1, <1>10
<1>13. \A p \in 1 .. n : h[p] = h[p - 1] \o g(p)
  <2>1. \A p \in 1 .. n : p # 0
    BY <1>1
  <2> QED
    BY <1>12, <2>1 DEF e
<1>14. \A p \in 0 .. n : h[p] = f[p]
  <2>1. Parallel(h, f, n)
    BY <1>4, <1>13 DEF Parallel
  <2>2. h[0] = f[0]
    BY <1>4, <1>11
  <2> QED
    BY <1>1, <2>1, <2>2, Agreement
<1>15. \A p \in 0 .. n : h[p] \in X
  BY <1>4, <1>14
<1> QED
  BY <1>8, <1>11, <1>13, <1>15 DEF n, g, X, x

\* No character of any page is lost between two chunks, none is repeated beyond the
\* overlap, and no chunk lies within another, for every document and every size and
\* overlap that the constructor accepts (FixedCharacterChunker.split).
THEOREM ChunksTilePages ==
    ASSUME NEW pages \in Seq(Nat), NEW size \in Nat \ {0}, NEW overlap \in 0 .. (size - 1)
    PROVE  PagesTile(pages, size, overlap)
<1> DEFINE n == Len(pages)
           g(p) == Windows(p, pages[p], size, overlap)
<1>1. n \in Nat /\ DOMAIN pages = 1 .. n /\ \A p \in 1 .. n : pages[p] \in Nat /\ p \in Nat
  OBVIOUS
<1>2. PICK f : /\ f[0] = <<>>
               /\ \A p \in 1 .. n : f[p] = f[p - 1] \o g(p)
               /\ \A p \in 0 .. n : f[p] \in Seq(Spans)
               /\ Split(pages, size, overlap) = f[n]
  BY SplitRecursion
<1>3. ASSUME NEW p \in 1 .. n
      PROVE  g(p) \in Seq(OfPage(p)) /\ Tiles(g(p), pages[p], size, overlap)
  BY <1>1, WindowsTile
<1> HIDE DEF g, n
<1>4. ASSUME NEW p \in 1 .. n
      PROVE  Tiles(Kept(f[n], OfPage(p)), pages[p], size, overlap)
  <2> DEFINE S == OfPage(p)
             T == {k \in Nat : k <= n => Kept(f[k], S) = IF k < p THEN <<>> ELSE g(p)}
  <2>1. 0 \in T
    <3>1. 0 < p
      BY <1>1
    <3>2. Kept(f[0], S) = <<>>
      BY <1>2, KeptEmpty
    <3> HIDE DEF S
    <3> QED
      BY <3>1, <3>2
  <2>2. ASSUME NEW q \in 1 .. n
        PROVE  Kept(g(q), S) = IF q = p THEN g(p) ELSE <<>>
    <3>1. g(q) \in Seq(OfPage(q))
      BY <1>3
    <3>2. CASE q = p
      <4>1. S \subseteq S /\ g(p) \in Seq(S)
        BY <3>1, <3>2
      <4> HIDE DEF S
      <4>2. Kept(g(p), S) = g(p)
        BY <4>1, KeptAll
      <4> QED
        BY <3>2, <4>2
    <3>3. CASE q # p
      <4>1. OfPage(q) \cap S = {}
        BY <3>3 DEF OfPage
      <4> HIDE DEF S
      <4>2. Kept(g(q), S) = <<>>
        BY <3>1, <4>1, KeptNone
      <4> QED
        BY <3>3, <4>2
    <3> QED
      BY <3>2, <3>3
  <2>3. ASSUME NEW q \in 1 .. n
        PROVE  g(q) \in Seq(Spans)
    <3>1. OfPage(q) \subseteq Spans
      BY <1>1 DEF OfPage, Spans
    <3>2. g(q) \in Seq(OfPage(q))
      BY <1>3
    <3> QED
      BY <3>1, <3>2
  <2> HIDE DEF S
  <2>4. ASSUME NEW k \in Nat, k \in T
        PROVE  k + 1 \in T
    <3>1. CASE k + 1 <= n
      <4> DEFINE q == k + 1
      <4>1. k <= n /\ k \in 0 .. n /\ q \in 1 .. n /\ q - 1 = k
        BY <1>1, <3>1
      <4>2. Kept(f[k], S) = IF k < p THEN <<>> ELSE g(p)
        BY <2>4, <4>1
      <4>3. f[q] = f[k] \o g(q) /\ f[k] \in Seq(Spans) /\ g(q) \in Seq(Spans)
        BY <1>2, <2>3, <4>1
      <4>4. k < p <=> q < p \/ q = p
        BY <1>1, <4>1
      <4>5. q < p => q # p
        BY <1>1
      <4> HIDE DEF q
      <4>6. Kept(f[q], S) = Kept(f[k], S) \o Kept(g(q), S)
        BY <4>3, KeptConcat, ZenonT(40)
      <4>7. Kept(g(q), S) = IF q = p THEN g(p) ELSE <<>>
        BY <2>2, <4>1
      <4>8. <<>> \o g(p) = g(p) /\ g(p) \o <<>> = g(p) /\ <<>> \o <<>> = <<>>
        <5>1. g(p) \in Seq(Spans)
          BY <2>3
        <5> QED
          BY <5>1, ConcatEmptySeq
      <4>9. Kept(f[q], S) = IF q < p THEN <<>> ELSE g(p)
        BY <4>2, <4>4, <4>5, <4>6, <4>7, <4>8
      <4> QED
        BY <4>9 DEF q
    <3> QED
      BY <3>1
  <2> HIDE DEF T
  <2>5. \A k \in Nat : k \in T
    BY <2>1, <2>4, SetInduction
  <2>6. Kept(f[n], S) = g(p)
    <3>1. n \in Nat /\ n <= n /\ ~(n < p)
      BY <1>1
    <3> QED
      BY <2>5, <3>1 DEF T
  <2> QED
    BY <1>3, <2>6 DEF S
<1> QED
  BY <1>1, <1>2, <1>4, Zenon DEF PagesTile
-----------------------------------------------------------------------------
(* The runs *)

\* An input is what its kind says.
InputTyped ==
    /\ input.what = "document" => input \in Documents
    /\ input.what = "history" => input \in Histories
    /\ input.what = "context" => input \in Contexts
    /\ input.what = "search" => input \in Searches
    /\ input.what = "debug" => input \in Debugs
    /\ input.what = "tool" => input \in ToolCalls

LEMMA DebugsAreDebugs == \A e \in Debugs : e.what = "debug"
<1>1. \A e \in DenseDebugs : e.what = "debug"
  BY DEF DenseDebugs, Debugged
<1>2. \A e \in SparseDebugs : e.what = "debug"
  BY DEF SparseDebugs, Debugged
<1>3. \A e \in HybridDebugs : e.what = "debug"
  BY DEF HybridDebugs, Debugged
<1>4. \A e \in RerankDebugs : e.what = "debug"
  BY DEF RerankDebugs, Debugged
<1>5. \A e \in StrictDebugs : e.what = "debug"
  BY DEF StrictDebugs, Debugged
<1> QED
  BY <1>1, <1>2, <1>3, <1>4, <1>5 DEF Debugs

LEMMA Kinds ==
    /\ \A e \in Documents : e.what = "document"
    /\ \A e \in Histories : e.what = "history"
    /\ \A e \in Contexts : e.what = "context"
    /\ \A e \in Searches : e.what = "search"
    /\ \A e \in Debugs : e.what = "debug"
    /\ \A e \in ToolCalls : e.what = "tool"
<1>1. \A e \in Documents : e.what = "document"
  BY DEF Documents
<1>2. \A e \in Histories : e.what = "history"
  BY DEF Histories
<1>3. \A e \in Contexts : e.what = "context"
  BY DEF Contexts
<1>4. \A e \in Searches : e.what = "search"
  BY DEF Searches
<1>5. \A e \in ToolCalls : e.what = "tool"
  BY DEF ToolCalls
<1> QED
  BY <1>1, <1>2, <1>3, <1>4, <1>5, DebugsAreDebugs

LEMMA InputsTyped == Spec => []InputTyped
<1> DEFINE kinds == {"chunking", "memory", "context", "fusion", "debug", "tools"}
           IInv == InputTyped /\ (input.what = "none" => input.kind \in kinds)
<1>1. Init => IInv
  <2> SUFFICES ASSUME NEW kind \in kinds, input = [what |-> "none", kind |-> kind]
               PROVE  IInv
    BY DEF Init
  <2>1. input.what = "none" /\ input.kind \in kinds
    OBVIOUS
  <2> QED
    BY <2>1 DEF InputTyped
<1>2. IInv /\ [Next]_input => IInv'
  <2> SUFFICES ASSUME IInv, [Next]_input
               PROVE  IInv'
    OBVIOUS
  <2>1. CASE UNCHANGED input
    BY <2>1 DEF InputTyped
  <2>2. CASE input.what = "none" /\ input' \in Inputs(input.kind)
    <3>1. \/ input' \in Documents \/ input' \in Histories \/ input' \in Contexts
          \/ input' \in Searches \/ input' \in Debugs \/ input' \in ToolCalls
      BY <2>2 DEF Inputs
    <3>2. \/ input'.what = "document" /\ input' \in Documents
          \/ input'.what = "history" /\ input' \in Histories
          \/ input'.what = "context" /\ input' \in Contexts
          \/ input'.what = "tool" /\ input' \in ToolCalls
          \/ input'.what = "search" /\ input' \in Searches
          \/ input'.what = "debug" /\ input' \in Debugs
      BY <3>1, Kinds
    <3> QED
      BY <3>2 DEF InputTyped
  <2> QED
    BY <2>1, <2>2 DEF Next
<1>3. IInv => InputTyped
  OBVIOUS
<1> QED
  BY <1>1, <1>2, <1>3, PTL DEF Spec
LEMMA BoundedSeqTyped ==
    ASSUME NEW S, NEW T, S \subseteq T, NEW n \in Nat
    PROVE  BoundedSeq(S, n) \subseteq Seq(T)
<1>1. \A m \in 0 .. n : [1 .. m -> S] \subseteq Seq(T)
  OBVIOUS
<1> QED
  BY <1>1, Zenon DEF BoundedSeq, SeqOf

\* No character of a page is lost between two chunks, none is repeated beyond the
\* overlap, and no chunk lies within another (FixedCharacterChunker.split).
THEOREM PagesAreTiled == Spec => []ChunksTile
<1>1. InputTyped => ChunksTile
  <2> SUFFICES ASSUME input \in Documents
               PROVE  PagesTile(input.pages, input.size, input.overlap)
    BY DEF InputTyped, ChunksTile, Is
  <2>1. PICK pages \in BoundedSeq(0 .. MaxPage, 2), w \in WindowSizes(MaxWindow) :
             input = [what |-> "document", pages |-> pages, size |-> w[1], overlap |-> w[2]]
    BY DEF Documents
  <2>2. input.pages = pages /\ input.size = w[1] /\ input.overlap = w[2]
    BY <2>1
  <2>3. pages \in Seq(Nat)
    <3>1. 0 .. MaxPage \subseteq Nat
      BY BoundsAssumption
    <3> QED
      BY <3>1, BoundedSeqTyped
  <2>4. w[1] \in Nat \ {0} /\ w[2] \in 0 .. (w[1] - 1)
    BY BoundsAssumption DEF WindowSizes
  <2> QED
    BY <2>2, <2>3, <2>4, ChunksTilePages
<1> QED
  BY <1>1, InputsTyped, PTL

\* The model sees the newest contiguous messages that fit, all of them, and never
\* none when there is one (ShortTermMemory.select).
THEOREM MemoryIsLongest == Spec => []WindowIsLongest
<1>1. InputTyped => WindowIsLongest
  <2> SUFFICES ASSUME input \in Histories
               PROVE  Select(input.messages, input.max, input.budget, 2).kept
                          = LongestFit(input.messages, input.max, input.budget, 2)
    BY DEF InputTyped, WindowIsLongest, Is
  <2>1. PICK messages \in BoundedSeq(0 .. MaxMessage, MaxMessages), max \in 1 .. MaxMessages,
             budget \in 1 .. MaxBudget :
             input = [what |-> "history", messages |-> messages, max |-> max, budget |-> budget]
    BY DEF Histories
  <2>2. input.messages = messages /\ input.max = max /\ input.budget = budget
    BY <2>1
  <2>3. messages \in Seq(Nat)
    <3>1. 0 .. MaxMessage \subseteq Nat /\ MaxMessages \in Nat
      BY BoundsAssumption
    <3> QED
      BY <3>1, BoundedSeqTyped
  <2>4. max \in Nat \ {0} /\ budget \in Nat \ {0} /\ 2 \in Nat \ {0}
    BY BoundsAssumption
  <2> QED
    BY <2>2, <2>3, <2>4, WindowsAreLongest
<1> QED
  BY <1>1, InputsTyped, PTL

LEMMA ContextsTyped ==
    ASSUME input \in Contexts
    PROVE  /\ input.chunks \in Seq(ContextChunks) /\ input.budget \in Nat \ {0}
           /\ input.cpt \in Nat \ {0} /\ input.cpt >= 2
<1>1. PICK chunks \in BoundedSeq(Retrieved, 3), budget \in 1 .. (2 * MaxBudget), cpt \in {2, 4} :
           input = [what |-> "context", chunks |-> chunks, budget |-> budget, cpt |-> cpt]
  BY DEF Contexts
<1>2. input.chunks = chunks /\ input.budget = budget /\ input.cpt = cpt
  BY <1>1
<1>3. chunks \in Seq(ContextChunks)
  <2>1. Retrieved \subseteq ContextChunks
    BY DEF Retrieved, ContextChunks
  <2> QED
    BY <2>1, BoundedSeqTyped
<1>4. budget \in Nat \ {0} /\ cpt \in Nat \ {0} /\ cpt >= 2
  BY BoundsAssumption
<1> QED
  BY <1>2, <1>3, <1>4

\* The context the model is given keeps to its budget, also when the whole text is
\* measured, with its separators (ContextBuilder.build).
THEOREM ContextsFit == Spec => []ContextWithinBudget
<1>1. InputTyped => ContextWithinBudget
  <2> SUFFICES ASSUME input \in Contexts
               PROVE  KeepsToBudget(input.chunks, input.budget, input.cpt)
    BY DEF InputTyped, ContextWithinBudget, Is
  <2> QED
    BY ContextsTyped, ContextsKeepToBudget
<1> QED
  BY <1>1, InputsTyped, PTL

\* It is marked as truncated exactly when some text is missing from it.
THEOREM ContextsTell == Spec => []TruncationIsReported
<1>1. InputTyped => TruncationIsReported
  <2> SUFFICES ASSUME input \in Contexts
               PROVE  ReportsTruncation(input.chunks, input.budget, input.cpt)
    BY DEF InputTyped, TruncationIsReported, Is
  <2> QED
    BY ContextsTyped, ContextsReportTruncation
<1> QED
  BY <1>1, InputsTyped, PTL

\* A tool never returns more results than it was asked for or than its limit, and the
\* rows of a query that are not marked as truncated are all the rows it selects
\* (the built-in tools, SqlQueryTool.execute).
THEOREM ToolsKeep == Spec => []ToolsKeepLimits
<1>1. InputTyped => ToolsKeepLimits
  <2> SUFFICES ASSUME input \in ToolCalls
               PROVE  KeepsLimits(input)
    BY DEF InputTyped, ToolsKeepLimits, Is
  <2>1. input.tool \in Tools /\ input.limits.max \in Nat
    BY DEF ToolCalls, Tools
  <2>2. input.limit \in QueryLimits
    BY DEF ToolCalls, QueryLimits, Limits
  <2>3. input.found \in Seq(BOOLEAN)
    <3>1. BoundedSeq(BOOLEAN, 4) \subseteq Seq(BOOLEAN)
      BY BoundedSeqTyped
    <3>2. \A n \in 0 .. 5 : [i \in 1 .. n |-> TRUE] \in Seq(BOOLEAN)
      OBVIOUS
    <3> DEFINE whole == {[i \in 1 .. n |-> TRUE] : n \in 0 .. 5}
    <3>3. whole \subseteq Seq(BOOLEAN)
      BY <3>2
    <3> HIDE DEF whole
    <3>4. input.found \in BoundedSeq(BOOLEAN, 4) \cup whole
      BY DEF ToolCalls, whole
    <3> QED
      BY <3>1, <3>3, <3>4
  <2> QED
    BY <2>1, <2>2, <2>3, ToolAnswersKeepLimits
<1> QED
  BY <1>1, InputsTyped, PTL

-----------------------------------------------------------------------------
(* The runs: ranking and retrieval *)

LEMMA BoundedSeqLength ==
    ASSUME NEW S, NEW n \in Nat, NEW s \in BoundedSeq(S, n)
    PROVE  Len(s) <= n
<1>1. PICK m \in 0 .. n : s \in [1 .. m -> S]
  BY Zenon DEF BoundedSeq, SeqOf
<1>2. Len(s) = m
  BY <1>1
<1> QED
  BY <1>2

\* A chunk that both retrievers rank above another comes before it, however often
\* they repeat chunks and however they are weighted (RRFusion.fuse).
THEOREM FusionsKeep == Spec => []FusionKeepsDominance
<1>1. InputTyped => FusionKeepsDominance
  <2> SUFFICES ASSUME input \in Searches
               PROVE  KeepsDominance(input.dense, input.sparse, input.topK, input.p)
    BY DEF InputTyped, FusionKeepsDominance, Is
  <2>1. PICK dense \in BoundedSeq(Chunks, MaxResults), sparse \in BoundedSeq(Chunks, MaxResults),
             topK \in {1, 2, 3}, weights \in {<<1, 1>>, <<1, 3>>} :
             input = [what |-> "search", dense |-> dense, sparse |-> sparse, topK |-> topK,
                      p |-> [k |-> 2, dense |-> weights[1], sparse |-> weights[2],
                             longest |-> MaxResults]]
    BY DEF Searches
  <2> DEFINE p == [k |-> 2, dense |-> weights[1], sparse |-> weights[2], longest |-> MaxResults]
  <2>2. input.dense = dense /\ input.sparse = sparse /\ input.topK = topK /\ input.p = p
    BY <2>1
  <2>3. MaxResults \in Nat /\ Chunks \subseteq Nat
    BY BoundsAssumption
  <2>4. p \in Parameters /\ p.longest = MaxResults
    BY <2>3 DEF Parameters
  <2> HIDE DEF p
  <2>5. dense \in Seq(Nat) /\ sparse \in Seq(Nat)
    BY <2>3, BoundedSeqTyped
  <2>6. Len(dense) <= MaxResults /\ Len(sparse) <= MaxResults
    BY <2>3, BoundedSeqLength
  <2>7. topK \in Nat
    OBVIOUS
  <2> QED
    BY <2>2, <2>4, <2>5, <2>6, <2>7, FusionsKeepDominance
<1> QED
  BY <1>1, InputsTyped, PTL

LEMMA OrdersTyped ==
    ASSUME NEW s \in Orders
    PROVE  /\ s \in Seq(Nat) /\ Len(s) <= MaxResults /\ Len(s) \in Nat /\ DOMAIN s = 1 .. Len(s)
           /\ \A i, j \in 1 .. Len(s) : s[i] = s[j] => i = j
<1>1. MaxResults \in Nat /\ Chunks \subseteq Nat
  BY BoundsAssumption
<1>2. s \in BoundedSeq(Chunks, MaxResults) /\ IsInjective(s)
  BY DEF Orders
<1>3. s \in Seq(Nat)
  BY <1>1, <1>2, BoundedSeqTyped
<1>4. Len(s) <= MaxResults
  BY <1>1, <1>2, BoundedSeqLength
<1>5. Len(s) \in Nat /\ DOMAIN s = 1 .. Len(s)
  BY <1>3
<1>6. \A i, j \in 1 .. Len(s) : s[i] = s[j] => i = j
  BY <1>2, <1>5 DEF IsInjective
<1> QED
  BY <1>3, <1>4, <1>5, <1>6

LEMMA PointsTyped ==
    ASSUME NEW points \in Points
    PROVE  points \in Seq(PointRecords) /\ Descending(points)
<1>1. PICK s \in Orders :
          points = [i \in DOMAIN s |-> [chunk |-> s[i], score |-> MaxResults + 1 - i]]
  BY DEF Points
<1> DEFINE n == Len(s)
<1>2. /\ s \in Seq(Nat) /\ n <= MaxResults /\ n \in Nat /\ DOMAIN s = 1 .. n
      /\ MaxResults \in Nat
  BY OrdersTyped, BoundsAssumption
<1>3. \A i \in 1 .. n : s[i] \in Nat
  BY <1>2
<1> HIDE DEF n
<1>4. \A i \in 1 .. n : [chunk |-> s[i], score |-> MaxResults + 1 - i] \in PointRecords
  BY <1>2, <1>3 DEF PointRecords
<1>5. points \in [1 .. n -> PointRecords]
  BY <1>1, <1>2, <1>4
<1>6. points \in Seq(PointRecords) /\ Len(points) = n
  BY <1>2, <1>5, SeqOfFunction
<1>7. \A i \in 1 .. n : points[i].score = MaxResults + 1 - i
  BY <1>1, <1>2
<1>8. Descending(points)
  BY <1>2, <1>6, <1>7 DEF Descending
<1> QED
  BY <1>6, <1>8

LEMMA RowsTyped ==
    ASSUME NEW rows \in Rows
    PROVE  rows \in Seq(RowRecords) /\ Apart(rows)
<1>1. PICK s \in Orders, done \in BOOLEAN :
          rows = [i \in DOMAIN s |-> [chunk |-> s[i], score |-> MaxResults + 6 - i,
                                      completed |-> s[i] # 3 \/ done]]
  BY DEF Rows
<1> DEFINE n == Len(s)
<1>2. /\ s \in Seq(Nat) /\ n <= MaxResults /\ n \in Nat /\ DOMAIN s = 1 .. n
      /\ MaxResults \in Nat
      /\ \A i, j \in 1 .. n : s[i] = s[j] => i = j
  BY OrdersTyped, BoundsAssumption
<1>3. \A i \in 1 .. n : s[i] \in Nat
  BY <1>2
<1> HIDE DEF n
<1>4. ASSUME NEW i \in 1 .. n
      PROVE  [chunk |-> s[i], score |-> MaxResults + 6 - i, completed |-> s[i] # 3 \/ done]
                 \in RowRecords
  <2>1. MaxResults + 6 - i \in Nat /\ (s[i] # 3 \/ done) \in BOOLEAN
    BY <1>2
  <2> QED
    BY <1>3, <2>1 DEF RowRecords
<1>5. rows \in [1 .. n -> RowRecords] /\ \A i \in 1 .. n : rows[i].chunk = s[i]
  BY <1>1, <1>2, <1>4
<1>6. rows \in Seq(RowRecords) /\ Len(rows) = n
  BY <1>2, <1>5, SeqOfFunction
<1>7. Apart(rows)
  BY <1>2, <1>5, <1>6 DEF Apart
<1> QED
  BY <1>6, <1>7

LEMMA AnswersTyped ==
    ASSUME NEW answer \in Answers
    PROVE  answer \in [came : BOOLEAN, results : Seq(ItemRecords)]
<1> DEFINE given == {<<1>>, <<2, 1>>, <<2, 3, 1>>, <<2, 2>>, <<3, 4>>}
<1>1. CASE answer = Silent
  <2>1. <<>> \in Seq(ItemRecords)
    BY EmptySeq
  <2> QED
    BY <1>1, <2>1 DEF Silent
<1>2. ASSUME NEW a \in given,
             answer = [came |-> TRUE,
                       results |-> [i \in DOMAIN a |-> [index |-> a[i], finite |-> a[i] # 4]]]
      PROVE  answer \in [came : BOOLEAN, results : Seq(ItemRecords)]
  <2> DEFINE n == Len(a)
             items == [i \in DOMAIN a |-> [index |-> a[i], finite |-> a[i] # 4]]
  <2>1. a \in Seq(Int)
    <3>1. <<1>> \in Seq(Int) /\ <<2, 1>> \in Seq(Int) /\ <<2, 3, 1>> \in Seq(Int)
      OBVIOUS
    <3>2. <<2, 2>> \in Seq(Int) /\ <<3, 4>> \in Seq(Int)
      OBVIOUS
    <3>3. \/ a = <<1>> \/ a = <<2, 1>> \/ a = <<2, 3, 1>> \/ a = <<2, 2>> \/ a = <<3, 4>>
      BY Zenon
    <3> QED
      BY <3>1, <3>2, <3>3
  <2> HIDE DEF given
  <2>2. n \in Nat /\ DOMAIN a = 1 .. n /\ \A i \in 1 .. n : a[i] \in Int
    BY <2>1
  <2> HIDE DEF n
  <2>3. \A i \in 1 .. n : [index |-> a[i], finite |-> a[i] # 4] \in ItemRecords
    BY <2>2 DEF ItemRecords
  <2>4. items \in [1 .. n -> ItemRecords]
    BY <2>2, <2>3
  <2> HIDE DEF items
  <2>5. items \in Seq(ItemRecords)
    BY <2>2, <2>4, SeqOfFunction
  <2> QED
    BY <1>2, <2>5 DEF items
<1> QED
  BY <1>1, <1>2 DEF Answers

\* What a debug of a run meets and asks.
DebugTyped(e) == e.env \in Environments /\ e.request \in DebugRequests

LEMMA DebuggedTyped ==
    ASSUME NEW mode \in Modes, NEW sizes, sizes[1] \in Nat, sizes[2] \in Nat, NEW up \in BOOLEAN,
           NEW points \in Seq(PointRecords), Descending(points),
           NEW rows \in Seq(RowRecords), Apart(rows), NEW threshold \in Nat \cup {None},
           NEW answer \in [came : BOOLEAN, results : Seq(ItemRecords)], NEW fallback \in BOOLEAN
    PROVE  DebugTyped(Debugged(mode, sizes, up, points, rows, threshold, answer, fallback))
<1> DEFINE e == Debugged(mode, sizes, up, points, rows, threshold, answer, fallback)
           P == {s \in Seq(PointRecords) : Descending(s)}
           R == {s \in Seq(RowRecords) : Apart(s)}
           A == [came : BOOLEAN, results : Seq(ItemRecords)]
           p == [k |-> 2, dense |-> 1, sparse |-> 1, longest |-> MaxResults]
<1>1. p \in Parameters
  <2>1. MaxResults \in Nat
    BY BoundsAssumption
  <2> QED
    BY <2>1 DEF Parameters
<1>2. points \in P /\ rows \in R /\ answer \in A
  OBVIOUS
<1>3. e.env = [owned |-> TRUE, up |-> up, points |-> points, rows |-> rows,
               threshold |-> threshold, answer |-> answer, fallback |-> fallback, p |-> p]
  BY DEF Debugged
<1>4. e.request = [mode |-> mode, topK |-> sizes[1], candidateK |-> sizes[2], blank |-> FALSE]
  BY DEF Debugged
<1>5. e.request \in DebugRequests
  BY <1>4 DEF DebugRequests
<1> HIDE DEF e, p
<1>6. e.env \in Environments
  <2> HIDE DEF P, R, A
  <2> QED
    BY <1>1, <1>2, <1>3 DEF Environments, P, R, A
<1> QED
  BY <1>5, <1>6 DEF DebugTyped, e

LEMMA DebugsTyped ==
    ASSUME NEW e \in Debugs
    PROVE  DebugTyped(e)
<1>1. /\ <<>> \in Seq(PointRecords) /\ Descending(<<>>)
      /\ <<>> \in Seq(RowRecords) /\ Apart(<<>>)
  <2>1. /\ <<>> \in Seq(PointRecords) /\ <<>> \in Seq(RowRecords) /\ Len(<<>>) = 0
    BY EmptySeq
  <2>2. 1 .. 0 = {}
    OBVIOUS
  <2> QED
    BY <2>1, <2>2 DEF Descending, Apart
<1>2. /\ "dense" \in Modes /\ "sparse" \in Modes /\ "hybrid" \in Modes /\ "rerank" \in Modes
      /\ None \in Nat \cup {None} /\ 3 \in Nat \cup {None}
      /\ TRUE \in BOOLEAN /\ FALSE \in BOOLEAN
  BY DEF Modes
<1>3. Silent \in [came : BOOLEAN, results : Seq(ItemRecords)]
  <2>1. Silent \in Answers
    BY DEF Answers
  <2> QED
    BY <2>1, AnswersTyped
<1>4. \A sizes \in Sizes : sizes[1] \in Nat /\ sizes[2] \in Nat
  BY DEF Sizes
<1>5. CASE e \in DenseDebugs
  <2>1. PICK sizes \in Sizes, up \in BOOLEAN, points \in Points, threshold \in {None, 3} :
             e = Debugged("dense", sizes, up, points, <<>>, threshold, Silent, FALSE)
    BY <1>5 DEF DenseDebugs, Debugged
  <2>2. sizes[1] \in Nat /\ sizes[2] \in Nat /\ threshold \in Nat \cup {None}
    BY <1>4
  <2>3. points \in Seq(PointRecords) /\ Descending(points)
    BY PointsTyped
  <2>4. DebugTyped(Debugged("dense", sizes, up, points, <<>>, threshold, Silent, FALSE))
    BY <1>1, <1>2, <1>3, <2>2, <2>3, DebuggedTyped
  <2> QED
    BY <2>1, <2>4
<1>6. CASE e \in SparseDebugs
  <2>1. PICK sizes \in Sizes, rows \in Rows :
             e = Debugged("sparse", sizes, TRUE, <<>>, rows, None, Silent, FALSE)
    BY <1>6 DEF SparseDebugs, Debugged
  <2>2. sizes[1] \in Nat /\ sizes[2] \in Nat
    BY <1>4
  <2>3. rows \in Seq(RowRecords) /\ Apart(rows)
    BY RowsTyped
  <2>4. DebugTyped(Debugged("sparse", sizes, TRUE, <<>>, rows, None, Silent, FALSE))
    BY <1>1, <1>2, <1>3, <2>2, <2>3, DebuggedTyped
  <2> QED
    BY <2>1, <2>4
<1>7. CASE e \in HybridDebugs
  <2>1. PICK sizes \in Sizes, up \in BOOLEAN, points \in Points, rows \in Rows :
             e = Debugged("hybrid", sizes, up, points, rows, None, Silent, FALSE)
    BY <1>7 DEF HybridDebugs, Debugged
  <2>2. sizes[1] \in Nat /\ sizes[2] \in Nat
    BY <1>4
  <2>3. points \in Seq(PointRecords) /\ Descending(points)
    BY PointsTyped
  <2>4. rows \in Seq(RowRecords) /\ Apart(rows)
    BY RowsTyped
  <2>5. DebugTyped(Debugged("hybrid", sizes, up, points, rows, None, Silent, FALSE))
    BY <1>2, <1>3, <2>2, <2>3, <2>4, DebuggedTyped
  <2> QED
    BY <2>1, <2>5
<1>8. CASE e \in RerankDebugs
  <2>1. PICK sizes \in {<<1, 3>>, <<2, 3>>, <<3, 3>>}, points \in Points, rows \in Rows,
             answer \in Answers :
             e = Debugged("rerank", sizes, TRUE, points, rows, None, answer, TRUE)
    BY <1>8 DEF RerankDebugs, Debugged
  <2>2. sizes[1] \in Nat /\ sizes[2] \in Nat
    OBVIOUS
  <2>3. points \in Seq(PointRecords) /\ Descending(points)
    BY PointsTyped
  <2>4. rows \in Seq(RowRecords) /\ Apart(rows)
    BY RowsTyped
  <2>5. answer \in [came : BOOLEAN, results : Seq(ItemRecords)]
    BY AnswersTyped
  <2>6. DebugTyped(Debugged("rerank", sizes, TRUE, points, rows, None, answer, TRUE))
    BY <1>2, <2>2, <2>3, <2>4, <2>5, DebuggedTyped
  <2> QED
    BY <2>1, <2>6
<1>9. CASE e \in StrictDebugs
  <2> DEFINE sizes == <<2, 2>>
  <2>1. PICK points \in Points, rows \in Rows, answer \in Answers :
             e = Debugged("rerank", sizes, TRUE, points, rows, None, answer, FALSE)
    BY <1>9 DEF StrictDebugs, Debugged
  <2>2. sizes[1] \in Nat /\ sizes[2] \in Nat
    OBVIOUS
  <2> HIDE DEF sizes
  <2>3. points \in Seq(PointRecords) /\ Descending(points)
    BY PointsTyped
  <2>4. rows \in Seq(RowRecords) /\ Apart(rows)
    BY RowsTyped
  <2>5. answer \in [came : BOOLEAN, results : Seq(ItemRecords)]
    BY AnswersTyped
  <2>6. DebugTyped(Debugged("rerank", sizes, TRUE, points, rows, None, answer, FALSE))
    BY <1>2, <2>2, <2>3, <2>4, <2>5, DebuggedTyped
  <2> QED
    BY <2>1, <2>6
<1> QED
  BY <1>5, <1>6, <1>7, <1>8, <1>9 DEF Debugs

\* Every row of a debug is a chunk of its own, there are at most top_k, and each shows
\* exactly the scores the retrievers gave its chunk, whatever a reranker answers
\* (RetrievalDebugService._retrieve_items).
THEOREM RowsKeep == Spec => []RowsKeepEvidence
<1>1. InputTyped => RowsKeepEvidence
  <2> SUFFICES ASSUME input \in Debugs
               PROVE  KeepsEvidence(input.env, input.request)
    BY DEF InputTyped, RowsKeepEvidence, Is
  <2>1. input.env \in Environments /\ input.request \in DebugRequests
    BY DebugsTyped DEF DebugTyped
  <2> QED
    BY <2>1, DebugsKeepEvidence
<1> QED
  BY <1>1, InputsTyped, PTL

LEMMA CasesTyped == Cases \in Seq(CaseRecords)
<1> DEFINE a == [expected |-> {1, 3}, citations |-> {}]
           b == [expected |-> {2}, citations |-> {1, 2}]
<1>1. IsFiniteSet({1, 3}) /\ IsFiniteSet({2})
  <2>1. {1} \cup {3} = {1, 3}
    OBVIOUS
  <2>2. IsFiniteSet({1}) /\ IsFiniteSet({2}) /\ IsFiniteSet({3})
    BY FS_Singleton
  <2>3. IsFiniteSet({1} \cup {3})
    BY <2>2, FS_Union
  <2> QED
    BY <2>1, <2>2, <2>3
<1>2. a \in CaseRecords /\ b \in CaseRecords
  BY <1>1 DEF CaseRecords
<1> HIDE DEF a, b
<1>3. <<a, b>> \in Seq(CaseRecords)
  BY <1>2
<1> QED
  BY <1>3 DEF Cases, a, b

\* Reranking orders the chunks of the hybrid result anew and brings in no other: its
\* recall is never above that of mode "hybrid", and the same when it keeps as many
\* chunks (RetrievalDebugService.evaluate).
THEOREM RerankKeeps == Spec => []RerankKeepsRecall
<1>1. InputTyped => RerankKeepsRecall
  <2> SUFFICES ASSUME input \in Debugs
               PROVE  KeepsRecall(input.env, input.request, Cases)
    BY DEF InputTyped, RerankKeepsRecall, Is
  <2>1. input.env \in Environments /\ input.request \in DebugRequests
    BY DebugsTyped DEF DebugTyped
  <2> QED
    BY <2>1, CasesTyped, RerankingKeepsRecall
<1> QED
  BY <1>1, InputsTyped, PTL
=============================================================================
