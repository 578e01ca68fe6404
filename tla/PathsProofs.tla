---------------------------- MODULE PathsProofs ----------------------------
(***************************************************************************)
(* What the functions of path_utils.c and charset_utils.c compute, for     *)
(* every string: libcurl decodes what url_encode encodes, a name that      *)
(* needs no encoding is encoded as itself, the conversion to the server's  *)
(* character set goes through a path name by name, and a name of the       *)
(* server's comes back from it as it was.                                  *)
(*                                                                         *)
(* These are inductions over the length of a string.  They are made by     *)
(* looking at the smallest counterexample: NatMin says that there would be *)
(* one.                                                                    *)
(***************************************************************************)
EXTENDS Paths, SequenceTheorems, WellFoundedInduction, TLAPS

\* A set of natural numbers has a smallest member.
LEMMA NatMin ==
  ASSUME NEW T \in SUBSET Nat, T # {}
  PROVE  \E n \in T : \A m \in T : n <= m
<1> DEFINE R == OpToRel(<, Nat)
<1>1. IsWellFoundedOn(R, Nat)
  BY NatLessThanWellFounded
<1>2. R = {ss \in Nat \X Nat : ss[1] < ss[2]}
  BY DEF OpToRel
<1>3. PICK n \in T : \A m \in T : ~(<<m, n>> \in R)
  <2> HIDE DEF R
  <2> QED BY <1>1, WFMin
<1>4. ASSUME NEW m \in T PROVE n <= m
  <2>1. m \in Nat /\ n \in Nat
    OBVIOUS
  <2>2. ~(<<m, n>> \in R)
    BY <1>3
  <2> HIDE DEF R
  <2>3. <<m, n>> \in {ss \in Nat \X Nat : ss[1] < ss[2]} <=> m < n
    BY <2>1
  <2>4. ~(m < n)
    BY <1>2, <2>2, <2>3
  <2> QED BY <2>1, <2>4
<1> QED BY <1>3, <1>4

\* What holds of 0, and of a number when it holds of the one before, holds of
\* every number up to N.
LEMMA UpTo ==
  ASSUME NEW N \in Nat, NEW G, 0 \in G,
         \A n \in 1..N : n - 1 \in G => n \in G
  PROVE  \A n \in 0..N : n \in G
<1> DEFINE T == {n \in 0..N : n \notin G}
<1> SUFFICES ASSUME T # {} PROVE FALSE
  OBVIOUS
<1>1. T \in SUBSET Nat
  OBVIOUS
<1>2. PICK n \in T : \A m \in T : n <= m
  <2> HIDE DEF T
  <2> QED BY <1>1, NatMin
<1>3. n \in 0..N /\ n \notin G /\ n # 0
  BY <1>2
<1>4. n \in 1..N /\ n - 1 \in 0..N /\ ~(n <= n - 1)
  BY <1>3
<1>5. n - 1 \notin T
  <2> HIDE DEF T
  <2> QED BY <1>2, <1>4
<1>6. n - 1 \in G
  BY <1>4, <1>5
<1> QED BY <1>3, <1>4, <1>6

-----------------------------------------------------------------------------
(* The recursive functions of the model are defined.                       *)

\* The recursion of FlattenSeq.
FlatStep(S, g, n) ==
  g = [i \in 1..n |-> IF i = 1 THEN S[i] ELSE g[i - 1] \o S[i]]

\* The recursion of FlattenSeq has a solution, for any number of sequences.
LEMMA FlatDefined ==
  ASSUME NEW S, NEW N \in Nat
  PROVE  \E g : FlatStep(S, g, N)
<1> DEFINE G == {n \in 0..N : \E g : FlatStep(S, g, n)}
<1>1. 0 \in G
  <2> DEFINE h == [i \in 1..0 |-> S[i]]
  <2>1. FlatStep(S, h, 0)
    BY DEF FlatStep
  <2> QED BY <2>1
<1>2. ASSUME NEW n \in 1..N, n - 1 \in G PROVE n \in G
  <2>1. PICK g : FlatStep(S, g, n - 1)
    BY <1>2
  <2>2. /\ DOMAIN g = 1..(n - 1)
        /\ \A i \in 1..(n - 1) : g[i] = IF i = 1 THEN S[i] ELSE g[i - 1] \o S[i]
    BY <2>1 DEF FlatStep
  <2> DEFINE last == IF n = 1 THEN S[n] ELSE g[n - 1] \o S[n]
             h == [i \in 1..n |-> IF i = n THEN last ELSE g[i]]
             k == [i \in 1..n |-> IF i = 1 THEN S[i] ELSE h[i - 1] \o S[i]]
  <2>3. ASSUME NEW i \in 1..n PROVE h[i] = k[i]
    <3>1. CASE i = n
      <4>1. h[i] = last
        BY <3>1
      <4>2. n # 1 => h[i - 1] = g[n - 1]
        BY <3>1
      <4> QED BY <3>1, <4>1, <4>2
    <3>2. CASE i # n
      <4>1. i \in 1..(n - 1) /\ (i # 1 => i - 1 \in 1..(n - 1))
        BY <3>2
      <4>2. h[i] = g[i] /\ (i # 1 => h[i - 1] = g[i - 1])
        BY <3>2, <4>1
      <4> HIDE DEF h
      <4> QED BY <2>2, <4>1, <4>2
    <3> QED BY <3>1, <3>2
  <2>4. h = k
    <3>1. DOMAIN h = 1..n /\ DOMAIN k = 1..n
      OBVIOUS
    <3>2. h = [i \in 1..n |-> h[i]] /\ k = [i \in 1..n |-> k[i]]
      OBVIOUS
    <3> HIDE DEF h, k
    <3> QED BY <2>3, <3>2
  <2>5. FlatStep(S, h, n)
    <3> HIDE DEF h
    <3> QED BY <2>4 DEF FlatStep
  <2> QED BY <2>5
<1>3. \A n \in 0..N : n \in G
  <2> HIDE DEF G
  <2> QED BY <1>1, <1>2, UpTo
<1> QED BY <1>3

\* A function that goes through a string from its end, a place or more at a
\* time: the recursions of Unescaped and ToCodepage.
DownStep(L, head, next, g, n) ==
  g = [i \in 1..n |-> IF i > L THEN <<>> ELSE head[i] \o g[next[i]]]

\* Such a recursion has a solution when every place goes on at a later one.
LEMMA DownDefined ==
  ASSUME NEW L \in Nat, NEW n \in Nat, NEW head, NEW next,
         \A i \in 1..L : next[i] \in 1..n /\ next[i] > i
  PROVE  \E g : DownStep(L, head, next, g, n)
<1> DEFINE part(g, m) ==
             g = [i \in (n - m + 1)..n |->
                    IF i > L THEN <<>> ELSE head[i] \o g[next[i]]]
           G == {m \in 0..n : \E g : part(g, m)}
<1>1. 0 \in G
  <2> DEFINE h == [i \in (n - 0 + 1)..n |-> <<>>]
  <2>1. (n - 0 + 1)..n = {}
    OBVIOUS
  <2>2. part(h, 0)
    BY <2>1
  <2> HIDE DEF part, h
  <2> QED BY <2>2
<1>2. ASSUME NEW m \in 1..n, m - 1 \in G PROVE m \in G
  <2>1. PICK g : part(g, m - 1)
    BY <1>2
  <2> DEFINE p == n - m + 1
  <2>2. /\ p \in 1..n /\ n - (m - 1) + 1 = p + 1
        /\ p..n = {p} \union ((p + 1)..n) /\ p \notin (p + 1)..n
    OBVIOUS
  <2>3. /\ DOMAIN g = (p + 1)..n
        /\ \A i \in (p + 1)..n :
             g[i] = IF i > L THEN <<>> ELSE head[i] \o g[next[i]]
    BY <2>1, <2>2
  <2> HIDE DEF p
  <2> DEFINE first == IF p > L THEN <<>> ELSE head[p] \o g[next[p]]
             h == [i \in p..n |-> IF i = p THEN first ELSE g[i]]
             k == [i \in p..n |->
                     IF i > L THEN <<>> ELSE head[i] \o h[next[i]]]
  <2>4. ASSUME NEW i \in p..n PROVE h[i] = k[i]
    <3>1. ~(i > L) => next[i] \in (p + 1)..n
      BY <2>2
    <3>2. ~(i > L) => h[next[i]] = g[next[i]]
      BY <3>1, <2>2
    <3>3. CASE i = p
      BY <3>2, <3>3
    <3>4. CASE i # p
      <4>1. i \in (p + 1)..n /\ h[i] = g[i]
        BY <2>2, <3>4
      <4> QED BY <4>1, <3>2, <2>3
    <3> QED BY <3>3, <3>4
  <2>5. h = k
    <3>1. h = [i \in p..n |-> h[i]] /\ k = [i \in p..n |-> k[i]]
      OBVIOUS
    <3> HIDE DEF h, k
    <3> QED BY <2>4, <3>1
  <2>6. part(h, m)
    <3> HIDE DEF h
    <3> QED BY <2>5 DEF p
  <2> HIDE DEF part
  <2> QED BY <2>6
<1>3. n \in G
  <2>1. \A m \in 0..n : m \in G
    <3> HIDE DEF G
    <3> QED BY <1>1, <1>2, UpTo
  <2> HIDE DEF G
  <2> QED BY <2>1
<1>4. PICK g : part(g, n)
  BY <1>3
<1>5. n - n + 1 = 1
  OBVIOUS
<1> QED BY <1>4, <1>5 DEF DownStep

-----------------------------------------------------------------------------
(* FlattenSeq.                                                             *)

\* What a concatenation holds, place by place.
LEMMA Concat ==
  ASSUME NEW X, NEW a \in Seq(X), NEW b \in Seq(X), NEW c, c = a \o b
  PROVE  /\ c \in Seq(X)
         /\ Len(a) \in Nat /\ Len(b) \in Nat /\ Len(c) \in Nat
         /\ Len(c) = Len(a) + Len(b)
         /\ \A j \in 1..Len(a) : c[j] = a[j]
         /\ \A j \in 1..Len(b) : c[Len(a) + j] = b[j]
<1>1. /\ c \in Seq(X) /\ Len(c) = Len(a) + Len(b)
      /\ \A i \in 1..(Len(a) + Len(b)) :
           c[i] = IF i <= Len(a) THEN a[i] ELSE b[i - Len(a)]
  BY ConcatProperties
<1>2. PICK n \in Nat : n = Len(a)
  OBVIOUS
<1>3. PICK m \in Nat : m = Len(b)
  OBVIOUS
<1>4. ASSUME NEW j \in 1..n PROVE c[j] = a[j]
  <2>1. j \in 1..(n + m) /\ j <= n
    OBVIOUS
  <2> QED BY <1>1, <1>2, <1>3, <2>1
<1>5. ASSUME NEW j \in 1..m PROVE c[n + j] = b[j]
  <2>1. n + j \in 1..(n + m) /\ ~(n + j <= n) /\ (n + j) - n = j
    OBVIOUS
  <2> QED BY <1>1, <1>2, <1>3, <2>1
<1> QED BY <1>1, <1>2, <1>3, <1>4, <1>5

\* f[i] is the concatenation of the first i sequences of S.
Flattens(S, f) ==
  /\ f[0] = <<>>
  /\ \A i \in 1..Len(S) : f[i] = f[i - 1] \o S[i]
  /\ FlattenSeq(S) = f[Len(S)]

\* Such a function exists.
LEMMA FlatFacts ==
  ASSUME NEW X, NEW S \in Seq(Seq(X))
  PROVE  \E f \in [0..Len(S) -> Seq(X)] : Flattens(S, f)
<1> DEFINE L == Len(S)
<1>1. L \in Nat /\ \A i \in 1..L : S[i] \in Seq(X)
  OBVIOUS
<1> HIDE DEF L
<1>2. CASE L = 0
  <2> DEFINE f == [i \in 0..L |-> <<>>]
  <2>1. S = <<>>
    BY <1>2 DEF L
  <2>2. FlattenSeq(S) = <<>>
    BY <1>2, <2>1 DEF FlattenSeq, L
  <2>3. f \in [0..L -> Seq(X)] /\ f[0] = <<>> /\ f[L] = <<>>
    BY <1>2
  <2> HIDE DEF f
  <2> QED BY <1>2, <2>2, <2>3 DEF Flattens, L
<1>3. CASE L # 0
  <2> DEFINE g == CHOOSE h : FlatStep(S, h, L)
  <2>1. FlattenSeq(S) = g[L]
    BY <1>3 DEF FlattenSeq, FlatStep, L
  <2>2. FlatStep(S, g, L)
    BY <1>1, FlatDefined
  <2> HIDE DEF g
  <2>3. \A i \in 1..L : g[i] = IF i = 1 THEN S[i] ELSE g[i - 1] \o S[i]
    BY <2>2 DEF FlatStep
  <2> DEFINE f == [i \in 0..L |-> IF i = 0 THEN <<>> ELSE g[i]]
  <2>4. f[0] = <<>> /\ \A i \in 1..L : f[i] = g[i]
    BY <1>1
  <2>5. ASSUME NEW i \in 1..L PROVE f[i] = f[i - 1] \o S[i]
    <3>1. CASE i = 1
      <4>1. f[i - 1] = <<>> /\ f[i] = S[i] /\ S[i] \in Seq(X)
        BY <1>1, <2>3, <2>4, <3>1
      <4> HIDE DEF f
      <4> QED BY <4>1
    <3>2. CASE i # 1
      <4>1. i - 1 \in 1..L
        BY <1>1, <3>2
      <4>2. f[i - 1] = g[i - 1] /\ f[i] = g[i]
        BY <2>4, <4>1
      <4> HIDE DEF f
      <4> QED BY <2>3, <3>2, <4>2
    <3> QED BY <3>1, <3>2
  <2>6. f[L] = g[L] /\ DOMAIN f = 0..L /\ f = [i \in 0..L |-> f[i]]
    BY <1>1, <1>3
  <2> HIDE DEF f
  <2> DEFINE G == {i \in 0..L : f[i] \in Seq(X)}
  <2>7. 0 \in G
    <3>1. 0 \in 0..L /\ <<>> \in Seq(X)
      BY <1>1
    <3> QED BY <2>4, <3>1
  <2>8. ASSUME NEW i \in 1..L, i - 1 \in G PROVE i \in G
    <3>1. f[i - 1] \in Seq(X) /\ S[i] \in Seq(X) /\ f[i] = f[i - 1] \o S[i]
      BY <1>1, <2>5, <2>8
    <3>2. f[i] \in Seq(X) /\ i \in 0..L
      BY <1>1, <3>1, Concat
    <3> QED BY <3>2
  <2>9. \A i \in 0..L : i \in G
    <3> HIDE DEF G
    <3> QED BY <1>1, <2>7, <2>8, UpTo
  <2>10. f \in [0..L -> Seq(X)]
    BY <2>6, <2>9
  <2>11. Flattens(S, f)
    BY <2>1, <2>4, <2>5, <2>6 DEF Flattens, L
  <2> QED BY <2>10, <2>11 DEF L
<1> QED BY <1>2, <1>3

\* Where the i-th sequence is in the whole.
Placed(S, f, i) ==
  /\ Len(f[i]) = Len(f[i - 1]) + Len(S[i])
  /\ Len(f[i]) <= Len(FlattenSeq(S))
  /\ \A j \in 1..Len(S[i]) : FlattenSeq(S)[Len(f[i - 1]) + j] = S[i][j]

\* The whole holds the i-th sequence where the ones before it end.
LEMMA FlatPlaces ==
  ASSUME NEW X, NEW S \in Seq(Seq(X)), NEW f \in [0..Len(S) -> Seq(X)],
         Flattens(S, f), NEW i \in 1..Len(S)
  PROVE  Placed(S, f, i)
<1> DEFINE L == Len(S)
<1>1. L \in Nat /\ \A k \in 1..L : S[k] \in Seq(X)
  OBVIOUS
<1>2. ASSUME NEW k \in 1..L
      PROVE  /\ f[k] \in Seq(X) /\ f[k - 1] \in Seq(X)
             /\ Len(f[k]) = Len(f[k - 1]) + Len(S[k])
             /\ \A j \in 1..Len(f[k - 1]) : f[k][j] = f[k - 1][j]
             /\ \A j \in 1..Len(S[k]) : f[k][Len(f[k - 1]) + j] = S[k][j]
             /\ Len(f[k]) \in Nat /\ Len(f[k - 1]) \in Nat /\ Len(S[k]) \in Nat
  <2>1. k \in 0..L /\ k - 1 \in 0..L
    BY <1>1
  <2>2. f[k - 1] \in Seq(X) /\ f[k] \in Seq(X) /\ S[k] \in Seq(X)
    BY <1>1, <2>1
  <2>3. f[k] = f[k - 1] \o S[k]
    BY DEF Flattens
  <2>4. PICK a \in Seq(X) : a = f[k - 1]
    BY <2>2
  <2>5. PICK b \in Seq(X) : b = S[k]
    BY <2>2
  <2>6. PICK c \in Seq(X) : c = f[k]
    BY <2>2
  <2>7. c = a \o b
    BY <2>3, <2>4, <2>5, <2>6
  <2> HIDE DEF L
  <2>8. /\ Len(a) \in Nat /\ Len(b) \in Nat /\ Len(c) \in Nat
        /\ Len(c) = Len(a) + Len(b)
        /\ \A j \in 1..Len(a) : c[j] = a[j]
        /\ \A j \in 1..Len(b) : c[Len(a) + j] = b[j]
    BY <2>7, Concat, SMTT(60)
  <2> QED BY <2>4, <2>5, <2>6, <2>8, Zenon
<1> HIDE DEF L
<1>3. i \in 1..L
  BY DEF L
<1> DEFINE Begins(m) == /\ Len(f[i]) <= Len(f[m])
                        /\ \A j \in 1..Len(f[i]) : f[m][j] = f[i][j]
           G == {n \in 0..L : n < i \/ Begins(n)}
<1>4. 0 \in G
  BY <1>1, <1>3
<1>5. ASSUME NEW n \in 1..L, n - 1 \in G PROVE n \in G
  <2>1. CASE n < i
    BY <2>1
  <2>2. CASE n = i
    <3>1. Len(f[i]) \in Nat
      BY <1>2, <1>3
    <3> QED BY <2>2, <3>1
  <2>3. CASE n > i
    <3>1. n - 1 \in 0..L /\ ~(n - 1 < i)
      BY <2>3, <1>1, <1>3
    <3>2. Begins(n - 1)
      BY <3>1, <1>5
    <3>3. /\ Len(f[n]) = Len(f[n - 1]) + Len(S[n])
          /\ Len(f[n - 1]) \in Nat /\ Len(S[n]) \in Nat /\ Len(f[n]) \in Nat
          /\ \A j \in 1..Len(f[n - 1]) : f[n][j] = f[n - 1][j]
      BY <1>2
    <3>4. Len(f[i]) \in Nat
      BY <1>2, <1>3
    <3>5. Len(f[i]) <= Len(f[n])
      <4>1. Len(f[i]) <= Len(f[n - 1])
        BY <3>2
      <4>2. \A a, b, c \in Nat : a <= b => a <= b + c
        OBVIOUS
      <4> HIDE DEF Begins
      <4> QED BY <3>3, <3>4, <4>1, <4>2, Zenon
    <3>6. ASSUME NEW j \in 1..Len(f[i]) PROVE f[n][j] = f[i][j]
      <4>1. j \in 1..Len(f[n - 1])
        BY <3>2, <3>3, <3>4
      <4> QED BY <3>2, <3>3, <4>1
    <3> QED BY <3>5, <3>6
  <2> QED BY <1>1, <1>3, <2>1, <2>2, <2>3
<1>6. \A n \in 0..L : n \in G
  <2> HIDE DEF G
  <2> QED BY <1>1, <1>4, <1>5, UpTo
<1>7. Begins(L)
  BY <1>1, <1>3, <1>6
<1>8. FlattenSeq(S) = f[L]
  BY DEF Flattens, L
<1>9. ASSUME NEW j \in 1..Len(S[i])
      PROVE  FlattenSeq(S)[Len(f[i - 1]) + j] = S[i][j]
  <2>1. Len(f[i - 1]) + j \in 1..Len(f[i])
    <3>1. /\ Len(f[i]) = Len(f[i - 1]) + Len(S[i])
          /\ Len(f[i]) \in Nat /\ Len(f[i - 1]) \in Nat /\ Len(S[i]) \in Nat
      BY <1>2, <1>3
    <3>2. \A a, b \in Nat : \A k \in 1..b : a + k \in 1..(a + b)
      OBVIOUS
    <3> QED BY <3>1, <3>2, Zenon
  <2>2. f[L][Len(f[i - 1]) + j] = f[i][Len(f[i - 1]) + j]
    BY <1>7, <2>1
  <2> QED BY <1>2, <1>3, <1>8, <2>2
<1> QED BY <1>2, <1>3, <1>7, <1>8, <1>9 DEF Placed

\* The two lemmas in one: the partial concatenations exist and lie in the whole.
LEMMA FlatParts ==
  ASSUME NEW X, NEW S \in Seq(Seq(X))
  PROVE  \E f \in [0..Len(S) -> Seq(X)] :
           Flattens(S, f) /\ \A i \in 1..Len(S) : Placed(S, f, i)
<1>1. PICK f \in [0..Len(S) -> Seq(X)] : Flattens(S, f)
  BY FlatFacts
<1>2. ASSUME NEW i \in 1..Len(S) PROVE Placed(S, f, i)
  BY <1>1, FlatPlaces
<1> QED BY <1>1, <1>2

-----------------------------------------------------------------------------
(* url_encode and what libcurl makes of it.                                *)

\* rest[i] is what libcurl makes of the URL from its i-th byte on.
Decodes(url, rest) ==
  \A i \in 1..(Len(url) + 3) :
    rest[i] = IF i > Len(url) THEN <<>>
              ELSE IF IsEscape(url, i)
                     THEN <<16 * HexValue(url[i + 1]) + HexValue(url[i + 2])>>
                            \o rest[i + 3]
                     ELSE <<url[i]>> \o rest[i + 1]

\* The recursion of Unescaped has a solution, of which Unescaped is the first
\* value.
LEMMA UnescapedRest ==
  ASSUME NEW url, Len(url) \in Nat
  PROVE  \E rest : Unescaped(url) = rest[1] /\ Decodes(url, rest)
<1> DEFINE L == Len(url)
           n == L + 3
           Escaped(i) == <<16 * HexValue(url[i + 1]) + HexValue(url[i + 2])>>
           Step(g) == g = [i \in 1..(Len(url) + 3) |->
                             IF i > Len(url) THEN <<>>
                             ELSE IF IsEscape(url, i)
                                    THEN <<16 * HexValue(url[i + 1])
                                             + HexValue(url[i + 2])>> \o g[i + 3]
                                    ELSE <<url[i]>> \o g[i + 1]]
           rest == CHOOSE g : Step(g)
           head == [i \in 1..L |->
                      IF IsEscape(url, i) THEN Escaped(i) ELSE <<url[i]>>]
           next == [i \in 1..L |-> IF IsEscape(url, i) THEN i + 3 ELSE i + 1]
<1>1. Unescaped(url) = rest[1]
  BY DEF Unescaped
<1>2. \A i \in 1..L : next[i] \in 1..n /\ next[i] > i
  OBVIOUS
<1>3. L \in Nat /\ n \in Nat
  OBVIOUS
<1>4. PICK g : DownStep(L, head, next, g, n)
  <2> HIDE DEF L, n, head, next
  <2> QED BY <1>2, <1>3, DownDefined
<1>5. ASSUME NEW i \in 1..n
      PROVE  (IF i > L THEN <<>> ELSE head[i] \o g[next[i]])
               = IF i > Len(url) THEN <<>>
                 ELSE IF IsEscape(url, i) THEN Escaped(i) \o g[i + 3]
                                          ELSE <<url[i]>> \o g[i + 1]
  <2>1. CASE i > L
    BY <2>1
  <2>2. CASE ~(i > L)
    <3>1. i \in 1..L
      BY <2>2
    <3>2. IsEscape(url, i) => head[i] = Escaped(i) /\ next[i] = i + 3
      BY <3>1
    <3>3. ~IsEscape(url, i) => head[i] = <<url[i]>> /\ next[i] = i + 1
      BY <3>1
    <3> HIDE DEF head, next, Escaped
    <3> QED BY <2>2, <3>2, <3>3
  <2> QED BY <2>1, <2>2
<1>6. Step(g)
  <2> HIDE DEF head, next
  <2> QED BY <1>4, <1>5 DEF DownStep
<1>7. Step(rest)
  <2> HIDE DEF Step
  <2> QED BY <1>6
<1>8. Decodes(url, rest)
  <2> HIDE DEF rest
  <2> QED BY <1>7 DEF Decodes
<1> HIDE DEF rest
<1> QED BY <1>1, <1>8

\* How url_encode writes a byte.
Chunk(c) ==
  IF Kept(c) THEN <<c>> ELSE <<Percent, to_hex(c \div 16), to_hex(c)>>

\* The two digits of a byte are digits, and stand for it; a byte that is kept
\* is no percent sign.
LEMMA Digits ==
  ASSUME NEW c \in Byte
  PROVE  /\ IsHex(to_hex(c \div 16)) /\ IsHex(to_hex(c))
         /\ 16 * HexValue(to_hex(c \div 16)) + HexValue(to_hex(c)) = c
         /\ Kept(c) => c # Percent
         /\ to_hex(c \div 16) \in Byte /\ to_hex(c) \in Byte
<1> DEFINE q == c \div 16
           r == c % 16
<1>1. q \in 0..15 /\ r \in 0..15 /\ c = 16 * q + r /\ q % 16 = q
  BY DEF Byte
<1> HIDE DEF q, r
<1>2. to_hex(c) = r + (IF r < 10 THEN 48 ELSE 87)
  BY DEF to_hex, r
<1>3. to_hex(c \div 16) = q + (IF q < 10 THEN 48 ELSE 87)
  BY <1>1 DEF to_hex, q
<1>4. \A d \in 0..15 : \A h \in Int :
        h = d + (IF d < 10 THEN 48 ELSE 87) =>
          IsHex(h) /\ HexValue(h) = d /\ h \in Byte
  BY DEF IsHex, HexValue, Byte
<1>5. to_hex(c) \in Int /\ to_hex(c \div 16) \in Int
  BY <1>1, <1>2, <1>3
<1>6. Kept(c) => c # Percent
  BY DEF Kept, isalnum, Percent, Slash, Byte
<1>7. /\ IsHex(to_hex(c)) /\ HexValue(to_hex(c)) = r /\ to_hex(c) \in Byte
  BY <1>1, <1>2, <1>4, <1>5, Zenon
<1>8. /\ IsHex(to_hex(c \div 16)) /\ HexValue(to_hex(c \div 16)) = q
      /\ to_hex(c \div 16) \in Byte
  BY <1>1, <1>3, <1>4, <1>5, Zenon
<1> QED BY <1>1, <1>6, <1>7, <1>8

\* The rest of a string; SubSeq under a name the provers do not expand.
From(s, i) == SubSeq(s, i, Len(s))

\* From its first place on a string is all of it, past its last nothing.
LEMMA FromFacts ==
  ASSUME NEW X, NEW s \in Seq(X)
  PROVE  /\ From(s, 1) = s
         /\ From(s, Len(s) + 1) = <<>>
         /\ \A i \in 1..Len(s) : From(s, i) = <<s[i]>> \o From(s, i + 1)
<1>1. From(s, 1) = s
  BY SubSeqFull DEF From
<1>2. From(s, Len(s) + 1) = <<>>
  <2>1. Len(s) \in Int /\ Len(s) + 1 \in Int /\ Len(s) < Len(s) + 1
    OBVIOUS
  <2> QED BY <2>1, SubSeqEmpty DEF From
<1>3. ASSUME NEW i \in 1..Len(s) PROVE From(s, i) = <<s[i]>> \o From(s, i + 1)
  <2>1. Len(s) \in i..Len(s)
    OBVIOUS
  <2> QED BY <2>1, SubSeqRecursiveFirst DEF From
<1> QED BY <1>1, <1>2, <1>3

\* The places of a string, and what is at them.
LEMMA StringFacts ==
  ASSUME NEW X, NEW s \in Seq(X)
  PROVE  Len(s) \in Nat /\ DOMAIN s = 1..Len(s) /\ \A i \in 1..Len(s) : s[i] \in X
OBVIOUS

\* The URL is the bytes of the string, each as url_encode writes it.
Chunks(s) == [i \in DOMAIN s |-> Chunk(s[i])]

\* A byte is written with bytes.
LEMMA ChunkType ==
  ASSUME NEW c \in Byte
  PROVE  Chunk(c) \in Seq(Byte)
<1>1. to_hex(c \div 16) \in Byte /\ to_hex(c) \in Byte /\ Percent \in Byte
  <2>1. Percent \in Byte
    BY DEF Percent, Byte
  <2> QED BY <2>1, Digits
<1> QED BY <1>1 DEF Chunk

\* The URL of a string is the concatenation of what its bytes are written as.
LEMMA ChunksFacts ==
  ASSUME NEW s \in Seq(Byte)
  PROVE  /\ Chunks(s) \in Seq(Seq(Byte))
         /\ Len(Chunks(s)) = Len(s)
         /\ \A i \in 1..Len(s) : Chunks(s)[i] = Chunk(s[i])
         /\ url_encode(s) = FlattenSeq(Chunks(s))
<1>1. \A c \in Byte : Chunk(c) \in Seq(Byte)
  BY ChunkType
<1>2. DOMAIN s = 1..Len(s) /\ Len(s) \in Nat /\ \A i \in 1..Len(s) : s[i] \in Byte
  BY StringFacts
<1>3. \A i \in 1..Len(s) : Chunk(s[i]) \in Seq(Byte)
  BY <1>1, <1>2
<1>4. /\ Chunks(s) \in Seq(Seq(Byte)) /\ Len(Chunks(s)) = Len(s)
      /\ \A i \in 1..Len(s) : Chunks(s)[i] = Chunk(s[i])
  BY <1>2, <1>3 DEF Chunks
<1>5. url_encode(s) = FlattenSeq(Chunks(s))
  BY DEF url_encode, Chunks, Chunk
<1> QED BY <1>4, <1>5

\* libcurl asks the server for the very name that url_encode was given,
\* whatever bytes it is made of.
THEOREM RoundTrip ==
  ASSUME NEW s \in Seq(Byte)
  PROVE  Unescaped(url_encode(s)) = s
<1> DEFINE L == Len(s)
           S == Chunks(s)
           url == url_encode(s)
<1>1. /\ S \in Seq(Seq(Byte)) /\ Len(S) = L /\ url = FlattenSeq(S)
      /\ \A i \in 1..L : S[i] = Chunk(s[i])
  BY ChunksFacts
<1>2. L \in Nat /\ \A i \in 1..L : s[i] \in Byte
  BY StringFacts
<1> HIDE DEF L, S, url
<1>3. PICK f \in [0..Len(S) -> Seq(Byte)] :
        Flattens(S, f) /\ \A i \in 1..Len(S) : Placed(S, f, i)
  BY <1>1, FlatParts
<1>4. /\ f[0] = <<>> /\ url = f[L] /\ url \in Seq(Byte) /\ Len(url) \in Nat
      /\ Len(url) = Len(f[L])
  BY <1>1, <1>2, <1>3 DEF Flattens
<1>5. PICK rest : Unescaped(url) = rest[1] /\ Decodes(url, rest)
  BY <1>4, UnescapedRest
<1>6. ASSUME NEW i \in 1..L
      PROVE  rest[Len(f[i - 1]) + 1] = <<s[i]>> \o rest[Len(f[i]) + 1]
  <2>1. /\ Len(f[i]) = Len(f[i - 1]) + Len(S[i])
        /\ Len(f[i]) <= Len(url)
        /\ \A j \in 1..Len(S[i]) : url[Len(f[i - 1]) + j] = S[i][j]
    BY <1>1, <1>3 DEF Placed
  <2>2. f[i - 1] \in Seq(Byte) /\ S[i] = Chunk(s[i]) /\ s[i] \in Byte
    BY <1>1, <1>2, <1>3
  <2>3. PICK p \in Nat : p = Len(f[i - 1])
    BY <2>2
  <2>4. PICK c \in Byte : c = s[i]
    BY <2>2
  <2>5. PICK m \in Nat : m = Len(url)
    BY <1>4
  <2>6. CASE Kept(c)
    <3>1. S[i] = <<c>> /\ Len(S[i]) = 1 /\ S[i][1] = c
      BY <2>2, <2>4, <2>6 DEF Chunk
    <3>2. Len(f[i]) = p + 1 /\ p + 1 <= m /\ url[p + 1] = c
      BY <2>1, <2>3, <2>5, <3>1
    <3>3. ~IsEscape(url, p + 1)
      BY <2>6, <3>2, Digits DEF IsEscape
    <3>4. p + 1 \in 1..(m + 3) /\ ~(p + 1 > m)
      BY <3>2
    <3>5. rest[p + 1] = <<c>> \o rest[(p + 1) + 1]
      BY <1>5, <2>5, <3>2, <3>3, <3>4 DEF Decodes
    <3> QED BY <2>3, <2>4, <3>2, <3>5
  <2>7. CASE ~Kept(c)
    <3> DEFINE a == to_hex(c \div 16)
               b == to_hex(c)
    <3>1. S[i] = <<Percent, a, b>>
      BY <2>2, <2>4, <2>7 DEF Chunk
    <3>2. IsHex(a) /\ IsHex(b) /\ 16 * HexValue(a) + HexValue(b) = c
      BY Digits
    <3> HIDE DEF a, b
    <3>3. Len(S[i]) = 3 /\ S[i][1] = Percent /\ S[i][2] = a /\ S[i][3] = b
      BY <3>1
    <3>4. /\ Len(f[i]) = p + 3 /\ p + 3 <= m
          /\ url[p + 1] = Percent /\ url[p + 2] = a /\ url[p + 3] = b
      <4>1. Len(f[i]) = p + 3 /\ p + 3 <= m
        BY <2>1, <2>3, <2>5, <3>3
      <4>2. \A j \in 1..3 : url[p + j] = S[i][j]
        BY <2>1, <2>3, <3>3
      <4>3. 1 \in 1..3 /\ 2 \in 1..3 /\ 3 \in 1..3
        OBVIOUS
      <4> QED BY <3>3, <4>1, <4>2, <4>3, Zenon
    <3>5. /\ p + 1 \in 1..(m + 3) /\ ~(p + 1 > m) /\ (p + 1) + 2 <= m
          /\ (p + 1) + 1 = p + 2 /\ (p + 1) + 2 = p + 3 /\ (p + 1) + 3 = (p + 3) + 1
      BY <3>4
    <3>6. IsEscape(url, p + 1)
      BY <2>5, <3>2, <3>4, <3>5 DEF IsEscape
    <3>7. rest[p + 1] = <<16 * HexValue(url[(p + 1) + 1]) + HexValue(url[(p + 1) + 2])>>
                          \o rest[(p + 1) + 3]
      BY <1>5, <2>5, <3>5, <3>6 DEF Decodes
    <3>8. rest[p + 1] = <<c>> \o rest[(p + 3) + 1]
      BY <3>2, <3>4, <3>5, <3>7
    <3> QED BY <2>3, <2>4, <3>4, <3>8
  <2> QED BY <2>6, <2>7
<1>7. /\ From(s, 1) = s /\ From(s, L + 1) = <<>>
      /\ \A i \in 1..L : From(s, i) = <<s[i]>> \o From(s, i + 1)
  BY FromFacts DEF L
<1> DEFINE G == {k \in 0..L : rest[Len(f[L - k]) + 1] = From(s, (L - k) + 1)}
<1>8. 0 \in G
  <2>1. L - 0 = L
    BY <1>2
  <2>2. Len(url) + 1 \in 1..(Len(url) + 3) /\ Len(url) + 1 > Len(url)
    BY <1>4
  <2>3. rest[Len(url) + 1] = <<>>
    BY <1>5, <2>2 DEF Decodes
  <2> QED BY <1>2, <1>4, <1>7, <2>1, <2>3
<1>9. ASSUME NEW k \in 1..L, k - 1 \in G PROVE k \in G
  <2>1. PICK i \in 1..L : i = L - (k - 1)
    BY <1>2
  <2>2. L - k = i - 1 /\ (L - k) + 1 = i /\ k \in 0..L
    BY <1>2, <2>1
  <2>3. rest[Len(f[i]) + 1] = From(s, i + 1)
    BY <1>9, <2>1
  <2>4. rest[Len(f[i - 1]) + 1] = <<s[i]>> \o rest[Len(f[i]) + 1]
    BY <1>6
  <2>5. rest[Len(f[i - 1]) + 1] = From(s, i)
    BY <1>7, <2>3, <2>4
  <2> QED BY <2>2, <2>5
<1>10. L \in G
  <2> HIDE DEF G
  <2>1. \A k \in 0..L : k \in G
    BY <1>2, <1>8, <1>9, UpTo
  <2> QED BY <1>2, <2>1
<1>11. L - L = 0 /\ Len(f[0]) + 1 = 1 /\ 0 + 1 = 1
  BY <1>2, <1>4
<1>12. rest[1] = s
  BY <1>7, <1>10, <1>11
<1> QED BY <1>5, <1>12 DEF url

\* A string that is all kept is its own encoding.
THEOREM PlainEncoding ==
  ASSUME NEW s \in Seq(Byte), \A i \in DOMAIN s : Kept(s[i])
  PROVE  url_encode(s) = s
<1> DEFINE L == Len(s)
           S == Chunks(s)
           Upto(i) == SubSeq(s, 1, i)
<1>1. /\ S \in Seq(Seq(Byte)) /\ Len(S) = L /\ url_encode(s) = FlattenSeq(S)
      /\ \A i \in 1..L : S[i] = Chunk(s[i])
  BY ChunksFacts
<1>2. L \in Nat /\ \A i \in 1..L : s[i] \in Byte /\ Kept(s[i])
  BY StringFacts
<1>3. Upto(0) = <<>> /\ Upto(L) = s
  BY SubSeqFull, SubSeqEmpty
<1>4. ASSUME NEW i \in 1..L PROVE Upto(i) = Upto(i - 1) \o <<s[i]>>
  <2>1. 1 \in 1..Len(s) /\ i \in 1..Len(s)
    BY <1>2
  <2> QED BY <2>1, SubSeqRecursiveSecond
<1> HIDE DEF L, S, Upto
<1>5. PICK f \in [0..Len(S) -> Seq(Byte)] : Flattens(S, f)
  BY <1>1, FlatFacts
<1> DEFINE G == {i \in 0..L : f[i] = Upto(i)}
<1>6. 0 \in G
  BY <1>2, <1>3, <1>5 DEF Flattens
<1>7. ASSUME NEW i \in 1..L, i - 1 \in G PROVE i \in G
  <2>1. f[i] = f[i - 1] \o S[i]
    BY <1>1, <1>5 DEF Flattens
  <2>2. S[i] = <<s[i]>>
    BY <1>1, <1>2 DEF Chunk
  <2>3. f[i - 1] = Upto(i - 1)
    BY <1>7
  <2>4. i \in 0..L /\ f[i] = Upto(i)
    BY <1>2, <1>4, <2>1, <2>2, <2>3
  <2> QED BY <2>4
<1>8. L \in G
  <2>1. L \in 0..L
    BY <1>2
  <2> HIDE DEF G
  <2> QED BY <1>2, <1>6, <1>7, <2>1, UpTo
<1> QED BY <1>1, <1>3, <1>5, <1>8 DEF Flattens

-----------------------------------------------------------------------------
(* The conversion to the server's character set.                           *)

\* What holds of a place when it holds of every later one holds of every place.
LEMMA Downward ==
  ASSUME NEW n \in Nat, NEW G,
         \A i \in 1..n : (\A j \in (i + 1)..n : j \in G) => i \in G
  PROVE  \A i \in 1..n : i \in G
<1> DEFINE H == {k \in 0..n : \A j \in (n - k + 1)..n : j \in G}
<1>1. 0 \in H
  OBVIOUS
<1>2. ASSUME NEW k \in 1..n, k - 1 \in H PROVE k \in H
  <2>1. PICK i \in 1..n : i = n - k + 1
    OBVIOUS
  <2>2. \A j \in (i + 1)..n : j \in G
    BY <1>2, <2>1
  <2>3. i \in G
    BY <2>2
  <2>4. \A j \in i..n : j \in G
    BY <2>2, <2>3
  <2> QED BY <2>1, <2>4
<1>3. n \in H
  <2>1. n \in 0..n
    OBVIOUS
  <2> HIDE DEF H
  <2> QED BY <1>1, <1>2, <2>1, UpTo
<1>4. \A j \in (n - n + 1)..n : j \in G
  BY <1>3
<1>5. n - n + 1 = 1
  OBVIOUS
<1> QED BY <1>4, <1>5

\* rest[i] is the conversion of the string from its i-th byte on.
Converts(s, rest) ==
  \A i \in 1..(Len(s) + 2) :
    rest[i] = IF i > Len(s) THEN <<>>
              ELSE IF IsUtf8(s, i)
                     THEN <<64 * (s[i] % 4) + (s[i + 1] % 64)>> \o rest[i + 2]
                     ELSE <<s[i]>> \o rest[i + 1]

\* The recursion of ToCodepage has a solution, of which ToCodepage is the
\* first value.
LEMMA CodepageRest ==
  ASSUME NEW s, Len(s) \in Nat
  PROVE  \E rest : ToCodepage(s) = rest[1] /\ Converts(s, rest)
<1> DEFINE L == Len(s)
           n == L + 2
           Pair(i) == <<64 * (s[i] % 4) + (s[i + 1] % 64)>>
           Step(g) == g = [i \in 1..(Len(s) + 2) |->
                             IF i > Len(s) THEN <<>>
                             ELSE IF IsUtf8(s, i)
                                    THEN <<64 * (s[i] % 4) + (s[i + 1] % 64)>>
                                           \o g[i + 2]
                                    ELSE <<s[i]>> \o g[i + 1]]
           rest == CHOOSE g : Step(g)
           head == [i \in 1..L |-> IF IsUtf8(s, i) THEN Pair(i) ELSE <<s[i]>>]
           next == [i \in 1..L |-> IF IsUtf8(s, i) THEN i + 2 ELSE i + 1]
<1>1. ToCodepage(s) = rest[1]
  BY DEF ToCodepage
<1>2. \A i \in 1..L : next[i] \in 1..n /\ next[i] > i
  OBVIOUS
<1>3. L \in Nat /\ n \in Nat
  OBVIOUS
<1>4. PICK g : DownStep(L, head, next, g, n)
  <2> HIDE DEF L, n, head, next
  <2> QED BY <1>2, <1>3, DownDefined
<1>5. ASSUME NEW i \in 1..n
      PROVE  (IF i > L THEN <<>> ELSE head[i] \o g[next[i]])
               = IF i > Len(s) THEN <<>>
                 ELSE IF IsUtf8(s, i) THEN Pair(i) \o g[i + 2]
                                      ELSE <<s[i]>> \o g[i + 1]
  <2>1. CASE i > L
    BY <2>1
  <2>2. CASE ~(i > L)
    <3>1. i \in 1..L
      BY <2>2
    <3>2. IsUtf8(s, i) => head[i] = Pair(i) /\ next[i] = i + 2
      BY <3>1
    <3>3. ~IsUtf8(s, i) => head[i] = <<s[i]>> /\ next[i] = i + 1
      BY <3>1
    <3> HIDE DEF head, next, Pair
    <3> QED BY <2>2, <3>2, <3>3
  <2> QED BY <2>1, <2>2
<1>6. Step(g)
  <2> HIDE DEF head, next
  <2> QED BY <1>4, <1>5 DEF DownStep
<1>7. Step(rest)
  <2> HIDE DEF Step
  <2> QED BY <1>6
<1>8. Converts(s, rest)
  <2> HIDE DEF rest
  <2> QED BY <1>7 DEF Converts
<1> HIDE DEF rest
<1> QED BY <1>1, <1>8

\* A step of the conversion: the bytes that are taken become b.
Taken(s, rest, i, b) ==
  /\ IsUtf8(s, i) => /\ b = 64 * (s[i] % 4) + (s[i + 1] % 64)
                     /\ rest[i] = <<b>> \o rest[i + 2]
  /\ ~IsUtf8(s, i) => b = s[i] /\ rest[i] = <<b>> \o rest[i + 1]

\* Every step of the conversion makes one byte.
LEMMA ConvertStep ==
  ASSUME NEW s \in Seq(Byte), NEW rest, Converts(s, rest)
  PROVE  \A i \in 1..Len(s) : \E b \in Byte : Taken(s, rest, i, b)
<1> SUFFICES ASSUME NEW i \in 1..Len(s)
             PROVE  \E b \in Byte : Taken(s, rest, i, b)
  OBVIOUS
<1>1. Len(s) \in Nat /\ \A j \in 1..Len(s) : s[j] \in Byte
  BY StringFacts
<1>2. PICK n \in Nat : n = Len(s)
  BY <1>1
<1>3. i \in 1..(n + 2) /\ ~(i > n)
  BY <1>2
<1>4. rest[i] = IF IsUtf8(s, i)
                  THEN <<64 * (s[i] % 4) + (s[i + 1] % 64)>> \o rest[i + 2]
                  ELSE <<s[i]>> \o rest[i + 1]
  BY <1>2, <1>3 DEF Converts
<1>5. CASE IsUtf8(s, i)
  <2>1. i + 1 \in 1..Len(s)
    BY <1>2, <1>5 DEF IsUtf8
  <2>2. \A c, d \in Byte : 64 * (c % 4) + (d % 64) \in Byte
    BY DEF Byte
  <2>3. 64 * (s[i] % 4) + (s[i + 1] % 64) \in Byte
    <3>1. s[i] \in Byte /\ s[i + 1] \in Byte
      BY <1>1, <2>1
    <3> QED BY <2>2, <3>1
  <2>4. Taken(s, rest, i, 64 * (s[i] % 4) + (s[i + 1] % 64))
    BY <1>4, <1>5 DEF Taken
  <2> QED BY <2>3, <2>4
<1>6. CASE ~IsUtf8(s, i)
  BY <1>1, <1>4, <1>6 DEF Taken
<1> QED BY <1>5, <1>6

\* After the last byte there is nothing.
LEMMA ConvertEnd ==
  ASSUME NEW s \in Seq(Byte), NEW rest, Converts(s, rest)
  PROVE  rest[Len(s) + 1] = <<>> /\ rest[Len(s) + 2] = <<>>
<1>1. PICK n \in Nat : n = Len(s)
  BY StringFacts
<1>2. /\ n + 1 \in 1..(n + 2) /\ n + 1 > n
      /\ n + 2 \in 1..(n + 2) /\ n + 2 > n
  OBVIOUS
<1> QED BY <1>1, <1>2 DEF Converts

\* What is converted are bytes.
LEMMA ConvertType ==
  ASSUME NEW s \in Seq(Byte), NEW rest, Converts(s, rest)
  PROVE  \A i \in 1..(Len(s) + 2) : rest[i] \in Seq(Byte)
<1>1. PICK n \in Nat : n = Len(s)
  BY StringFacts
<1> DEFINE G == {i \in 1..(n + 2) : rest[i] \in Seq(Byte)}
<1>2. ASSUME NEW i \in 1..(n + 2), \A j \in (i + 1)..(n + 2) : j \in G
      PROVE  i \in G
  <2>1. CASE i \in 1..n
    <3>1. PICK b \in Byte : Taken(s, rest, i, b)
      BY <1>1, <2>1, ConvertStep
    <3>2. i + 1 \in (i + 1)..(n + 2) /\ i + 2 \in (i + 1)..(n + 2)
      BY <2>1
    <3>3. rest[i + 1] \in Seq(Byte) /\ rest[i + 2] \in Seq(Byte)
      BY <1>2, <3>2
    <3>4. <<b>> \in Seq(Byte)
      OBVIOUS
    <3>5. \A u \in Seq(Byte) : <<b>> \o u \in Seq(Byte)
      BY <3>4, ConcatProperties
    <3> QED BY <3>1, <3>3, <3>5 DEF Taken
  <2>2. CASE i \notin 1..n
    <3>1. i = n + 1 \/ i = n + 2
      BY <2>2
    <3>2. rest[i] = <<>> /\ <<>> \in Seq(Byte)
      BY <1>1, <3>1, ConvertEnd
    <3> QED BY <3>2
  <2> QED BY <2>1, <2>2
<1>3. \A i \in 1..(n + 2) : i \in G
  <2>1. n + 2 \in Nat
    OBVIOUS
  <2> HIDE DEF G
  <2> QED BY <1>2, <2>1, Downward
<1> QED BY <1>1, <1>3

\* A converted string has bytes.
LEMMA CodepageType ==
  ASSUME NEW s \in Seq(Byte)
  PROVE  ToCodepage(s) \in Seq(Byte)
<1>1. Len(s) \in Nat /\ 1 \in 1..(Len(s) + 2)
  BY StringFacts
<1>2. PICK rest : ToCodepage(s) = rest[1] /\ Converts(s, rest)
  BY <1>1, CodepageRest
<1> QED BY <1>1, <1>2, ConvertType

\* Strings of bytes can be put together in any order.
LEMMA Associative ==
  \A a, b, c \in Seq(Byte) : a \o (b \o c) = (a \o b) \o c
BY ConcatAssociative, SMTT(60)

\* Of two strings that have no character across the place where they meet
\* each is converted for itself.
LEMMA CodepageConcat ==
  ASSUME NEW a \in Seq(Byte), NEW q \in Seq(Byte),
         a # <<>> /\ q # <<>> => a[Len(a)] \notin {194, 195} \/ q[1] \notin 128..191
  PROVE  ToCodepage(a \o q) = ToCodepage(a) \o ToCodepage(q)
<1> DEFINE c == a \o q
<1>1. /\ c \in Seq(Byte) /\ Len(c) = Len(a) + Len(q)
      /\ \A j \in 1..Len(a) : c[j] = a[j]
      /\ \A j \in 1..Len(q) : c[Len(a) + j] = q[j]
  BY Concat
<1> HIDE DEF c
<1>2. PICK m \in Nat : m = Len(a)
  BY StringFacts
<1>3. PICK k \in Nat : k = Len(q)
  BY StringFacts
<1>4. PICK ra : ToCodepage(a) = ra[1] /\ Converts(a, ra)
  BY <1>2, CodepageRest
<1>5. PICK rq : ToCodepage(q) = rq[1] /\ Converts(q, rq)
  BY <1>3, CodepageRest
<1>6. PICK rc : ToCodepage(c) = rc[1] /\ Converts(c, rc)
  <2>1. Len(c) \in Nat
    BY <1>1, StringFacts
  <2> QED BY <2>1, CodepageRest
<1>7. Len(c) = m + k
  BY <1>1, <1>2, <1>3
<1>8. \A i \in 1..(k + 2) : rc[m + i] = rq[i]
  <2> DEFINE G == {i \in 1..(k + 2) : rc[m + i] = rq[i]}
  <2>1. ASSUME NEW i \in 1..(k + 2), \A j \in (i + 1)..(k + 2) : j \in G
        PROVE  i \in G
    <3>1. CASE i \in 1..k
      <4>1. m + i \in 1..(m + k)
        BY <3>1
      <4>2. /\ i + 1 \in (i + 1)..(k + 2) /\ i + 2 \in (i + 1)..(k + 2)
            /\ m + (i + 1) = (m + i) + 1 /\ m + (i + 2) = (m + i) + 2
        BY <3>1
      <4>3. rc[(m + i) + 1] = rq[i + 1] /\ rc[(m + i) + 2] = rq[i + 2]
        <5>1. rc[m + (i + 1)] = rq[i + 1] /\ rc[m + (i + 2)] = rq[i + 2]
          <6>1. \A j \in G : rc[m + j] = rq[j]
            OBVIOUS
          <6>2. i + 1 \in G /\ i + 2 \in G
            <7> HIDE DEF G
            <7> QED BY <2>1, <4>2
          <6> HIDE DEF G
          <6> QED BY <6>1, <6>2
        <5> QED BY <4>2, <5>1, Zenon
      <4>4. c[m + i] = q[i] /\ (i < k => c[(m + i) + 1] = q[i + 1])
        <5>1. i < k => i + 1 \in 1..k
          BY <3>1
        <5> QED BY <1>1, <1>2, <1>3, <3>1, <4>2, <5>1
      <4>5. IsUtf8(c, m + i) <=> IsUtf8(q, i)
        <5>1. m + i < m + k <=> i < k
          BY <3>1
        <5>2. IsUtf8(c, m + i) <=> /\ m + i < m + k /\ c[m + i] \in {194, 195}
                                   /\ c[(m + i) + 1] \in 128..191
          BY <1>7 DEF IsUtf8
        <5>3. IsUtf8(q, i) <=>
                i < k /\ q[i] \in {194, 195} /\ q[i + 1] \in 128..191
          BY <1>3 DEF IsUtf8
        <5> QED BY <4>4, <5>1, <5>2, <5>3
      <4>6. IsUtf8(q, i) => i < k
        BY <1>3 DEF IsUtf8
      <4>7. PICK b \in Byte : Taken(q, rq, i, b)
        BY <1>3, <1>5, <3>1, ConvertStep
      <4>8. PICK d \in Byte : Taken(c, rc, m + i, d)
        BY <1>1, <1>6, <1>7, <4>1, ConvertStep
      <4>9. b = d
        BY <4>4, <4>5, <4>6, <4>7, <4>8 DEF Taken
      <4> QED BY <4>3, <4>5, <4>7, <4>8, <4>9 DEF Taken
    <3>2. CASE i \notin 1..k
      <4>1. /\ i = k + 1 \/ i = k + 2
            /\ m + (k + 1) = (m + k) + 1 /\ m + (k + 2) = (m + k) + 2
        BY <3>2
      <4>2. rq[k + 1] = <<>> /\ rq[k + 2] = <<>>
        BY <1>3, <1>5, ConvertEnd
      <4>3. rc[(m + k) + 1] = <<>> /\ rc[(m + k) + 2] = <<>>
        BY <1>1, <1>6, <1>7, ConvertEnd
      <4> QED BY <4>1, <4>2, <4>3
    <3> QED BY <3>1, <3>2
  <2>2. k + 2 \in Nat
    OBVIOUS
  <2> HIDE DEF G
  <2>3. \A i \in 1..(k + 2) : i \in G
    BY <2>1, <2>2, Downward
  <2> QED BY <2>3 DEF G
<1>9. rc[m + 1] \in Seq(Byte) /\ rc[m + 1] = rq[1]
  <2>1. 1 \in 1..(k + 2)
    OBVIOUS
  <2> QED BY <1>3, <1>5, <1>8, <2>1, ConvertType
<1>10. PICK v \in Seq(Byte) : v = rc[m + 1]
  BY <1>9
<1>11. \A i \in 1..(m + 1) : rc[i] = ra[i] \o v
  <2> DEFINE G == {i \in 1..(m + 1) : rc[i] = ra[i] \o v}
  <2>1. ASSUME NEW i \in 1..(m + 1), \A j \in (i + 1)..(m + 1) : j \in G
        PROVE  i \in G
    <3>1. CASE i = m + 1
      <4>1. ra[i] = <<>>
        BY <1>2, <1>4, <3>1, ConvertEnd
      <4>2. <<>> \o v = v
        BY ConcatEmptySeq
      <4> QED BY <1>10, <3>1, <4>1, <4>2
    <3>2. CASE i # m + 1
      <4>1. i \in 1..m /\ i \in 1..(m + k)
        BY <3>2
      <4>2. c[i] = a[i] /\ (i < m => c[i + 1] = a[i + 1])
        <5>1. i < m => i + 1 \in 1..m
          BY <4>1
        <5> QED BY <1>1, <1>2, <4>1, <5>1
      <4>3. IsUtf8(c, i) <=> IsUtf8(a, i)
        <5>1. CASE i < m
          <6>1. IsUtf8(c, i) <=>
                  i < m + k /\ c[i] \in {194, 195} /\ c[i + 1] \in 128..191
            BY <1>7 DEF IsUtf8
          <6>2. IsUtf8(a, i) <=>
                  i < m /\ a[i] \in {194, 195} /\ a[i + 1] \in 128..191
            BY <1>2 DEF IsUtf8
          <6>3. i < m + k
            BY <5>1
          <6> QED BY <4>2, <5>1, <6>1, <6>2, <6>3
        <5>2. CASE i = m
          <6>1. ~IsUtf8(a, i)
            BY <1>2, <5>2 DEF IsUtf8
          <6>2. CASE k = 0
            BY <1>7, <5>2, <6>1, <6>2 DEF IsUtf8
          <6>3. CASE k # 0
            <7>1. 1 \in 1..k
              BY <6>3
            <7>2. c[m + 1] = q[1]
              BY <1>1, <1>2, <1>3, <7>1
            <7>3. a # <<>> /\ q # <<>>
              BY <1>2, <1>3, <4>1, <5>2, <6>3
            <7>4. a[m] \notin {194, 195} \/ q[1] \notin 128..191
              BY <1>2, <7>3
            <7> QED BY <4>2, <5>2, <6>1, <7>2, <7>4 DEF IsUtf8
          <6> QED BY <6>2, <6>3
        <5> QED BY <4>1, <5>1, <5>2
      <4>4. IsUtf8(a, i) => i < m
        BY <1>2 DEF IsUtf8
      <4>5. PICK b \in Byte : Taken(a, ra, i, b)
        BY <1>2, <1>4, <4>1, ConvertStep
      <4>6. PICK d \in Byte : Taken(c, rc, i, d)
        BY <1>1, <1>6, <1>7, <4>1, ConvertStep
      <4>7. b = d
        BY <4>2, <4>3, <4>4, <4>5, <4>6 DEF Taken
      <4>8. /\ i + 1 \in (i + 1)..(m + 1)
            /\ i < m => i + 2 \in (i + 1)..(m + 1)
        BY <4>1
      <4>9. /\ rc[i + 1] = ra[i + 1] \o v
            /\ i < m => rc[i + 2] = ra[i + 2] \o v
        BY <2>1, <4>8
      <4>10. ra[i + 1] \in Seq(Byte) /\ ra[i + 2] \in Seq(Byte)
        <5>1. i + 1 \in 1..(m + 2) /\ i + 2 \in 1..(m + 2)
          BY <4>1
        <5> QED BY <1>2, <1>4, <5>1, ConvertType
      <4>11. \A u \in Seq(Byte) : <<b>> \o (u \o v) = (<<b>> \o u) \o v
        <5>1. <<b>> \in Seq(Byte)
          OBVIOUS
        <5> QED BY <5>1, Associative, ZenonT(60)
      <4>12. CASE IsUtf8(a, i)
        <5>1. ra[i] = <<b>> \o ra[i + 2] /\ rc[i] = <<b>> \o rc[i + 2]
          BY <4>3, <4>5, <4>6, <4>7, <4>12 DEF Taken
        <5>2. rc[i + 2] = ra[i + 2] \o v
          BY <4>4, <4>9, <4>12
        <5>3. rc[i] = ra[i] \o v
          BY <4>10, <4>11, <5>1, <5>2, Zenon
        <5> QED BY <5>3
      <4>13. CASE ~IsUtf8(a, i)
        <5>1. ra[i] = <<b>> \o ra[i + 1] /\ rc[i] = <<b>> \o rc[i + 1]
          BY <4>3, <4>5, <4>6, <4>7, <4>13 DEF Taken
        <5>2. rc[i] = ra[i] \o v
          BY <4>9, <4>10, <4>11, <5>1, Zenon
        <5> QED BY <5>2
      <4> QED BY <4>12, <4>13
    <3> QED BY <3>1, <3>2
  <2>2. m + 1 \in Nat
    OBVIOUS
  <2> HIDE DEF G
  <2>3. \A i \in 1..(m + 1) : i \in G
    BY <2>1, <2>2, Downward
  <2> QED BY <2>3 DEF G
<1>12. rc[1] = ra[1] \o rq[1]
  <2>1. 1 \in 1..(m + 1)
    OBVIOUS
  <2> QED BY <1>9, <1>10, <1>11, <2>1
<1> QED BY <1>4, <1>5, <1>6, <1>12 DEF c

-----------------------------------------------------------------------------
(* Paths.                                                                  *)

\* The empty string and a slash stay what they are.
LEMMA CodepageShort ==
  ToCodepage(<<>>) = <<>> /\ ToCodepage(<<Slash>>) = <<Slash>>
<1>1. <<>> \in Seq(Byte) /\ Len(<<>>) = 0 /\ 0 \in Nat
  BY EmptySeq
<1>2. <<Slash>> \in Seq(Byte) /\ Len(<<Slash>>) = 1 /\ <<Slash>>[1] = Slash /\ 1 \in Nat
  BY DEF Slash, Byte
<1>3. ToCodepage(<<>>) = <<>>
  <2>0. PICK s \in Seq(Byte) : s = <<>>
    BY <1>1
  <2>1. PICK rest : ToCodepage(s) = rest[1] /\ Converts(s, rest)
    BY <1>1, <2>0, CodepageRest
  <2>2. rest[Len(s) + 1] = <<>>
    BY <2>1, ConvertEnd
  <2>3. Len(s) + 1 = 1
    BY <1>1, <2>0
  <2> QED BY <2>0, <2>1, <2>2, <2>3
<1>4. ToCodepage(<<Slash>>) = <<Slash>>
  <2>1. PICK s \in Seq(Byte) : s = <<Slash>>
    BY <1>2, Zenon
  <2>2. Len(s) = 1 /\ s[1] = Slash
    BY <1>2, <2>1
  <2>3. PICK rest : ToCodepage(s) = rest[1] /\ Converts(s, rest)
    BY <1>2, <2>2, CodepageRest
  <2>4. rest[1 + 1] = <<>>
    BY <2>2, <2>3, ConvertEnd
  <2>5. 1 \in 1..Len(s) /\ ~IsUtf8(s, 1)
    BY <2>2 DEF IsUtf8
  <2>6. PICK b \in Byte : Taken(s, rest, 1, b)
    BY <2>3, <2>5, ConvertStep
  <2>7. rest[1] = <<Slash>> \o <<>>
    BY <2>2, <2>4, <2>5, <2>6 DEF Taken
  <2>8. <<Slash>> \o <<>> = <<Slash>>
    BY <1>2, ConcatEmptySeq
  <2> QED BY <2>1, <2>3, <2>7, <2>8
<1> QED BY <1>3, <1>4

\* The server's name of a string has bytes.
LEMMA ServerType ==
  ASSUME NEW s \in Seq(Byte)
  PROVE  Server(s) \in Seq(Byte)
BY CodepageType DEF Server

\* A path is converted name by name.
LEMMA ServerSlash ==
  ASSUME NEW a \in Seq(Byte), NEW b \in Seq(Byte)
  PROVE  Server(a \o (<<Slash>> \o b)) = Server(a) \o (<<Slash>> \o Server(b))
<1>1. CASE ~codepage
  BY <1>1 DEF Server
<1>2. CASE codepage
  <2>1. <<Slash>> \in Seq(Byte) /\ Len(<<Slash>>) = 1 /\ <<Slash>>[1] = Slash
    BY DEF Slash, Byte
  <2>2. PICK t \in Seq(Byte) : t = <<Slash>>
    BY <2>1, Zenon
  <2>3. t # <<>> /\ Len(t) = 1 /\ t[1] = Slash
    BY <2>1, <2>2
  <2>4. PICK q \in Seq(Byte) : q = t \o b
    BY ConcatProperties
  <2>5. q[1] = Slash
    <3>1. 1 \in 1..Len(t) /\ \A j \in 1..Len(t) : q[j] = t[j]
      BY <2>3, <2>4, Concat
    <3> QED BY <2>3, <3>1
  <2>6. Slash \notin {194, 195} /\ Slash \notin 128..191
    BY DEF Slash
  <2>7. ToCodepage(t \o b) = ToCodepage(t) \o ToCodepage(b)
    <3>1. t[Len(t)] \notin {194, 195}
      BY <2>3, <2>6
    <3> QED BY <3>1, CodepageConcat
  <2>8. ToCodepage(a \o q) = ToCodepage(a) \o ToCodepage(q)
    BY <2>5, <2>6, CodepageConcat
  <2>9. ToCodepage(t) = t
    BY <2>2, CodepageShort
  <2>10. Server(a \o (t \o b)) = Server(a) \o (t \o Server(b))
    BY <1>2, <2>4, <2>7, <2>8, <2>9 DEF Server
  <2> QED BY <2>2, <2>10
<1> QED BY <1>1, <1>2 DEF Server

\* Such a path has a last slash.
LEMMA LastSlashFacts ==
  ASSUME NEW p, IsPath(p)
  PROVE  /\ LastSlash(p) \in 1..Len(p) /\ p[LastSlash(p)] = Slash
         /\ \A j \in (LastSlash(p) + 1)..Len(p) : p[j] # Slash
<1>1. PICK n \in Nat : n = Len(p) /\ DOMAIN p = 1..n /\ n # 0
  BY StringFacts DEF IsPath
<1> DEFINE T == {k \in 0..n : k < n /\ p[n - k] = Slash}
<1>2. n - 1 \in T
  <2>1. n - (n - 1) = 1 /\ n - 1 \in 0..n /\ n - 1 < n
    BY <1>1
  <2> QED BY <2>1 DEF IsPath
<1>3. PICK k \in T : \A m \in T : k <= m
  <2>1. T \in SUBSET Nat
    OBVIOUS
  <2> HIDE DEF T
  <2> QED BY <1>2, <2>1, NatMin
<1>4. PICK i \in 1..n : i = n - k
  BY <1>3
<1>5. p[i] = Slash
  BY <1>3, <1>4
<1>6. ASSUME NEW j \in (i + 1)..n PROVE p[j] # Slash
  <2>1. n - j \in 0..n /\ n - j < n /\ ~(k <= n - j) /\ n - (n - j) = j
    BY <1>4
  <2>2. n - j \notin T
    <3> HIDE DEF T
    <3> QED BY <1>3, <2>1
  <2> QED BY <2>1, <2>2
<1>7. \E x \in DOMAIN p : p[x] = Slash /\ \A j \in (x + 1)..Len(p) : p[j] # Slash
  BY <1>1, <1>5, <1>6
<1> QED BY <1>1, <1>7 DEF LastSlash

\* A path below the host is its directory, a slash where there is one, and its
\* name: on the server, too.
THEOREM PathSplit ==
  ASSUME NEW p, IsPath(p)
  PROVE  /\ Tail(p) \in Seq(Byte) /\ DirName(p) \in Seq(Byte)
         /\ FileName(p) \in Seq(Byte)
         /\ Server(Tail(p)) = Server(DirName(p)) \o SlashUnless(DirName(p) = <<>>)
                                \o Server(FileName(p))
<1> DEFINE x == LastSlash(p)
           d == DirName(p)
           f == FileName(p)
<1>1. x \in 1..Len(p) /\ p[x] = Slash /\ p \in Seq(Byte) /\ p # <<>> /\ Len(p) \in Nat
  BY LastSlashFacts, StringFacts DEF IsPath
<1>2. Tail(p) = SubSeq(p, 2, Len(p)) /\ Tail(p) \in Seq(Byte)
  BY <1>1, TailIsSubSeq, HeadTailProperties
<1>3. d = SubSeq(p, 2, x - 1) /\ f = SubSeq(p, x + 1, Len(p))
  BY DEF DirName, FileName
<1> HIDE DEF x, d, f
<1>4. PICK n \in Nat : n = Len(p)
  BY <1>1
<1>5. \A j \in 1..n : p[j] \in Byte
  BY <1>1, <1>4, StringFacts
<1>6. f \in Seq(Byte)
  <2>1. x + 1 \in Int /\ n \in Int /\ \A j \in (x + 1)..n : p[j] \in Byte
    BY <1>1, <1>4, <1>5
  <2> QED BY <1>3, <1>4, <2>1, SubSeqProperties
<1>7. /\ d \in Seq(Byte)
      /\ Len(d) = IF 2 <= x - 1 THEN (x - 1) - 2 + 1 ELSE 0
  <2>1. 2 \in Int /\ x - 1 \in Int /\ \A j \in 2..(x - 1) : p[j] \in Byte
    BY <1>1, <1>4, <1>5
  <2> QED BY <1>3, <2>1, SubSeqProperties
<1>8. CASE x = 1
  <2>1. d = <<>>
    <3>1. x - 1 < 2 /\ x - 1 \in Int /\ 2 \in Int
      BY <1>8
    <3> QED BY <1>3, <3>1, SubSeqEmpty
  <2>2. f = Tail(p)
    BY <1>2, <1>3, <1>8
  <2>3. Server(d) = <<>>
    BY <2>1, CodepageShort DEF Server
  <2>4. SlashUnless(d = <<>>) = <<>>
    BY <2>1 DEF SlashUnless
  <2>5. Server(f) \in Seq(Byte)
    BY <1>6, ServerType
  <2>6. <<>> \o <<>> = <<>> /\ <<>> \o Server(f) = Server(f)
    BY <1>6, <2>5, ConcatEmptySeq, EmptySeq
  <2>7. Server(Tail(p)) = Server(d) \o SlashUnless(d = <<>>) \o Server(f)
    BY <2>2, <2>3, <2>4, <2>6
  <2> QED BY <1>2, <1>6, <1>7, <2>7 DEF d, f
<1>9. CASE x # 1
  <2>1. x # 2
    BY <1>1, <1>4 DEF IsPath
  <2>2. 2 <= x - 1 /\ x \in 3..n
    BY <1>1, <1>4, <1>9, <2>1
  <2>3. d # <<>>
    <3>1. Len(d) # 0
      BY <1>7, <2>2
    <3> QED BY <3>1, EmptySeq
  <2>4. SubSeq(p, x, Len(p)) = <<Slash>> \o f
    <3>1. x \in 1..Len(p) /\ Len(p) \in x..Len(p)
      BY <1>1, <1>4, <2>2
    <3> QED BY <1>1, <1>3, <3>1, SubSeqRecursiveFirst
  <2>5. Tail(p) = d \o (<<Slash>> \o f)
    <3>1. /\ 2 \in 1..(n + 1) /\ x - 1 \in (2 - 1)..n /\ n \in (x - 1)..n
          /\ (x - 1) + 1 = x
      BY <2>2
    <3>2. SubSeq(p, 2, x - 1) \o SubSeq(p, (x - 1) + 1, n) = SubSeq(p, 2, n)
      BY <1>1, <1>4, <3>1, ConcatAdjacentSubSeq
    <3> QED BY <1>2, <1>3, <1>4, <2>4, <3>1, <3>2
  <2>6. Server(Tail(p)) = Server(d) \o (<<Slash>> \o Server(f))
    BY <1>6, <1>7, <2>5, ServerSlash
  <2>7. PICK t \in Seq(Byte) : t = <<Slash>>
    <3>1. <<Slash>> \in Seq(Byte)
      BY DEF Slash, Byte
    <3> QED BY <3>1, Zenon
  <2>8. Server(d) \in Seq(Byte) /\ Server(f) \in Seq(Byte)
    BY <1>6, <1>7, ServerType
  <2>9. Server(d) \o (t \o Server(f)) = (Server(d) \o t) \o Server(f)
    BY <2>8, Associative
  <2>10. SlashUnless(d = <<>>) = t
    BY <2>3, <2>7 DEF SlashUnless
  <2>11. Server(Tail(p)) = Server(d) \o SlashUnless(d = <<>>) \o Server(f)
    BY <2>6, <2>7, <2>9, <2>10
  <2> QED BY <1>2, <1>6, <1>7, <2>11 DEF d, f
<1> QED BY <1>8, <1>9

-----------------------------------------------------------------------------
(* Strings that are written piece by piece.                                *)

\* What holds of the empty string, and of a string when it holds of the string
\* without its last place, holds of every string.
LEMMA ByAppending ==
  ASSUME NEW X, NEW G, <<>> \in G,
         \A s \in Seq(X), c \in X : s \in G => s \o <<c>> \in G
  PROVE  \A s \in Seq(X) : s \in G
<1> SUFFICES ASSUME NEW s \in Seq(X) PROVE s \in G
  OBVIOUS
<1>1. PICK n \in Nat : n = Len(s) /\ \A i \in 1..n : s[i] \in X
  BY StringFacts
<1> DEFINE Upto(i) == SubSeq(s, 1, i)
           H == {i \in 0..n : Upto(i) \in G}
<1>2. 0 \in H
  <2>1. Upto(0) = <<>>
    BY SubSeqEmpty
  <2> HIDE DEF Upto
  <2> QED BY <2>1
<1>3. ASSUME NEW i \in 1..n, i - 1 \in H PROVE i \in H
  <2>1. Upto(i) = Upto(i - 1) \o <<s[i]>>
    <3>1. 1 \in 1..Len(s) /\ i \in 1..Len(s)
      BY <1>1
    <3> QED BY <3>1, SubSeqRecursiveSecond
  <2>2. Upto(i - 1) \in Seq(X)
    <3>1. i - 1 \in Int /\ 1 \in Int /\ \A j \in 1..(i - 1) : s[j] \in X
      BY <1>1
    <3> QED BY <3>1, SubSeqProperties
  <2>3. Upto(i - 1) \in G /\ s[i] \in X
    BY <1>1, <1>3
  <2> HIDE DEF Upto
  <2>4. Upto(i) \in G
    BY <2>1, <2>2, <2>3
  <2> QED BY <2>4
<1>4. n \in H
  <2> HIDE DEF H
  <2>1. \A i \in 0..n : i \in H
    BY <1>2, <1>3, UpTo
  <2> QED BY <2>1
<1>5. Upto(n) = s
  BY <1>1, SubSeqFull
<1> HIDE DEF Upto
<1> QED BY <1>4, <1>5

\* One sequence more.
LEMMA FlatAppend ==
  ASSUME NEW X, NEW S \in Seq(Seq(X)), NEW x \in Seq(X)
  PROVE  FlattenSeq(S \o <<x>>) = FlattenSeq(S) \o x
<1>1. PICK T : T = S \o <<x>>
  OBVIOUS
<1>2. <<x>> \in Seq(Seq(X)) /\ Len(<<x>>) = 1 /\ <<x>>[1] = x
  OBVIOUS
<1>3. PICK n \in Nat : n = Len(S)
  BY StringFacts
<1>4. /\ T \in Seq(Seq(X)) /\ Len(T) = n + 1
      /\ \A j \in 1..n : T[j] = S[j]
      /\ T[n + 1] = x
  <2>1. 1 \in 1..Len(<<x>>)
    BY <1>2
  <2> QED BY <1>1, <1>2, <1>3, <2>1, Concat
<1>5. PICK f \in [0..Len(S) -> Seq(X)] : Flattens(S, f)
  BY FlatFacts
<1>6. PICK g \in [0..Len(T) -> Seq(X)] : Flattens(T, g)
  BY <1>4, FlatFacts
<1> DEFINE G == {i \in 0..n : f[i] = g[i]}
<1>7. 0 \in G
  BY <1>5, <1>6 DEF Flattens
<1>8. ASSUME NEW i \in 1..n, i - 1 \in G PROVE i \in G
  <2>1. f[i] = f[i - 1] \o S[i]
    BY <1>3, <1>5 DEF Flattens
  <2>2. g[i] = g[i - 1] \o T[i]
    <3>1. i \in 1..Len(T)
      BY <1>4
    <3> QED BY <1>6, <3>1 DEF Flattens
  <2>3. f[i - 1] = g[i - 1] /\ S[i] = T[i]
    BY <1>4, <1>8
  <2>4. f[i] = g[i]
    BY <2>1, <2>2, <2>3
  <2> QED BY <2>4
<1>9. f[n] = g[n]
  <2> HIDE DEF G
  <2>1. \A i \in 0..n : i \in G
    BY <1>7, <1>8, UpTo
  <2> QED BY <2>1 DEF G
<1>10. FlattenSeq(S) = f[n] /\ FlattenSeq(T) = g[n + 1]
  BY <1>3, <1>4, <1>5, <1>6 DEF Flattens
<1>11. g[n + 1] = g[n] \o x
  <2>1. n + 1 \in 1..Len(T) /\ (n + 1) - 1 = n
    BY <1>4
  <2> QED BY <1>4, <1>6, <2>1 DEF Flattens
<1> QED BY <1>1, <1>9, <1>10, <1>11

\* No sequence, and a single one.
LEMMA FlatShort ==
  ASSUME NEW X, NEW x \in Seq(X)
  PROVE  FlattenSeq(<<>>) = <<>> /\ FlattenSeq(<<x>>) = x
<1>1. <<>> \in Seq(Seq(X)) /\ Len(<<>>) = 0
  BY EmptySeq
<1>2. FlattenSeq(<<>>) = <<>>
  <2>1. PICK f \in [0..Len(<<>>) -> Seq(X)] : Flattens(<<>>, f)
    BY <1>1, FlatFacts
  <2> QED BY <1>1, <2>1 DEF Flattens
<1>3. <<>> \o <<x>> = <<x>>
  <2>1. <<x>> \in Seq(Seq(X))
    OBVIOUS
  <2> QED BY <2>1, ConcatEmptySeq
<1>4. FlattenSeq(<<>> \o <<x>>) = FlattenSeq(<<>>) \o x
  BY <1>1, FlatAppend
<1>5. <<>> \o x = x
  BY ConcatEmptySeq
<1> QED BY <1>2, <1>3, <1>4, <1>5

\* The concatenation of many is that of the first of them and of the others.
LEMMA FlatConcat ==
  ASSUME NEW X, NEW S \in Seq(Seq(X)), NEW T \in Seq(Seq(X))
  PROVE  FlattenSeq(S \o T) = FlattenSeq(S) \o FlattenSeq(T)
<1> DEFINE Y == Seq(X)
           G == {t \in Seq(Y) : FlattenSeq(S \o t) = FlattenSeq(S) \o FlattenSeq(t)}
<1>0. \A t \in Seq(Y) : FlattenSeq(t) \in Seq(X)
  <2> SUFFICES ASSUME NEW t \in Seq(Y) PROVE FlattenSeq(t) \in Seq(X)
    OBVIOUS
  <2>1. PICK f \in [0..Len(t) -> Seq(X)] : Flattens(t, f)
    BY FlatFacts
  <2>2. Len(t) \in 0..Len(t)
    BY StringFacts
  <2> QED BY <2>1, <2>2 DEF Flattens
<1>1. <<>> \in G
  <2>1. S \o <<>> = S /\ <<>> \in Seq(Y)
    BY ConcatEmptySeq, EmptySeq
  <2>2. FlattenSeq(<<>>) = <<>>
    BY FlatShort, EmptySeq
  <2>3. FlattenSeq(S) \o <<>> = FlattenSeq(S)
    BY <1>0, ConcatEmptySeq
  <2> QED BY <2>1, <2>2, <2>3
<1>2. ASSUME NEW t \in Seq(Y), NEW x \in Y, t \in G PROVE t \o <<x>> \in G
  <2>1. <<x>> \in Seq(Y)
    OBVIOUS
  <2>2. t \o <<x>> \in Seq(Y) /\ S \o t \in Seq(Y)
    BY <2>1, ConcatProperties
  <2>3. S \o (t \o <<x>>) = (S \o t) \o <<x>>
    BY <2>1, ConcatAssociative
  <2>4. FlattenSeq((S \o t) \o <<x>>) = FlattenSeq(S \o t) \o x
    BY <2>2, FlatAppend
  <2>5. FlattenSeq(t \o <<x>>) = FlattenSeq(t) \o x
    BY FlatAppend
  <2>6. FlattenSeq(S \o t) = FlattenSeq(S) \o FlattenSeq(t)
    BY <1>2
  <2>7. (FlattenSeq(S) \o FlattenSeq(t)) \o x = FlattenSeq(S) \o (FlattenSeq(t) \o x)
    <3>1. PICK a \in Seq(X) : a = FlattenSeq(S)
      BY <1>0
    <3>2. PICK b \in Seq(X) : b = FlattenSeq(t)
      BY <1>0
    <3>3. (a \o b) \o x = a \o (b \o x)
      BY ConcatAssociative, SMTT(60)
    <3> QED BY <3>1, <3>2, <3>3
  <2>8. FlattenSeq(S \o (t \o <<x>>)) = FlattenSeq(S) \o FlattenSeq(t \o <<x>>)
    BY <2>3, <2>4, <2>5, <2>6, <2>7, Zenon
  <2> QED BY <2>2, <2>8
<1>3. T \in G
  <2> HIDE DEF G
  <2> QED BY <1>1, <1>2, ByAppending
<1> QED BY <1>3

\* F says for every member of X what it is written as.
Writes(F, X, Y) == F \in [X -> Seq(Y)]

\* What the members of a string are written as, one by one.
Pieces(F, s) == [i \in DOMAIN s |-> F[s[i]]]

\* There is one piece for every member.
LEMMA PiecesFacts ==
  ASSUME NEW X, NEW Y, NEW F, Writes(F, X, Y), NEW s \in Seq(X)
  PROVE  /\ Pieces(F, s) \in Seq(Seq(Y)) /\ Len(Pieces(F, s)) = Len(s)
         /\ \A i \in 1..Len(s) : Pieces(F, s)[i] = F[s[i]]
         /\ FlattenSeq(Pieces(F, s)) \in Seq(Y)
<1>1. PICK n \in Nat : n = Len(s) /\ DOMAIN s = 1..n /\ \A i \in 1..n : s[i] \in X
  BY StringFacts
<1>2. \A i \in 1..n : F[s[i]] \in Seq(Y)
  BY <1>1 DEF Writes
<1>3. Pieces(F, s) = [i \in 1..n |-> F[s[i]]]
  BY <1>1 DEF Pieces
<1>4. Pieces(F, s) \in [1..n -> Seq(Y)]
  BY <1>2, <1>3
<1>5. Pieces(F, s) \in Seq(Seq(Y)) /\ Len(Pieces(F, s)) = n
  BY <1>4, SeqDef
<1>6. FlattenSeq(Pieces(F, s)) \in Seq(Y)
  <2>1. PICK f \in [0..n -> Seq(Y)] : Flattens(Pieces(F, s), f)
    BY <1>5, FlatFacts
  <2>2. n \in 0..n
    OBVIOUS
  <2> QED BY <1>5, <2>1, <2>2 DEF Flattens
<1> QED BY <1>1, <1>3, <1>5, <1>6

\* What a string is written as is what its two halves are written as.
LEMMA PiecesConcat ==
  ASSUME NEW X, NEW Y, NEW F, Writes(F, X, Y), NEW s \in Seq(X), NEW t \in Seq(X)
  PROVE  FlattenSeq(Pieces(F, s \o t))
           = FlattenSeq(Pieces(F, s)) \o FlattenSeq(Pieces(F, t))
<1>0. ASSUME NEW r \in Seq(X)
      PROVE  /\ Pieces(F, r) \in Seq(Seq(Y)) /\ Len(Pieces(F, r)) = Len(r)
             /\ \A i \in 1..Len(r) : Pieces(F, r)[i] = F[r[i]]
  BY PiecesFacts
<1>1. PICK u \in Seq(X) : u = s \o t
  BY ConcatProperties
<1>2. PICK m \in Nat : m = Len(s)
  BY StringFacts
<1>3. PICK n \in Nat : n = Len(t)
  BY StringFacts
<1>4. /\ Len(u) = m + n
      /\ \A j \in 1..m : u[j] = s[j]
      /\ \A j \in 1..n : u[m + j] = t[j]
  BY <1>1, <1>2, <1>3, Concat
<1> DEFINE Z == Seq(Y)
<1>5. PICK ws \in Seq(Z) : ws = Pieces(F, s) /\ Len(ws) = m
                             /\ \A i \in 1..m : ws[i] = F[s[i]]
  BY <1>0, <1>2
<1>6. PICK wt \in Seq(Z) : wt = Pieces(F, t) /\ Len(wt) = n
                             /\ \A i \in 1..n : wt[i] = F[t[i]]
  BY <1>0, <1>3
<1>7. PICK wu \in Seq(Z) : wu = Pieces(F, u) /\ Len(wu) = m + n
                             /\ \A i \in 1..(m + n) : wu[i] = F[u[i]]
  <2>1. PICK k \in Nat : k = m + n
    OBVIOUS
  <2>2. Len(u) = k
    BY <1>4, <2>1
  <2>3. /\ Pieces(F, u) \in Seq(Z) /\ Len(Pieces(F, u)) = k
        /\ \A i \in 1..k : Pieces(F, u)[i] = F[u[i]]
    BY <1>0, <2>2
  <2> QED BY <2>1, <2>3
<1>8. PICK w : w = ws \o wt
  OBVIOUS
<1>9. /\ w \in Seq(Z) /\ Len(w) = m + n
      /\ \A j \in 1..m : w[j] = ws[j]
      /\ \A j \in 1..n : w[m + j] = wt[j]
  <2>1. /\ w \in Seq(Z) /\ Len(w) = Len(ws) + Len(wt)
        /\ \A j \in 1..Len(ws) : w[j] = ws[j]
        /\ \A j \in 1..Len(wt) : w[Len(ws) + j] = wt[j]
    BY <1>8, Concat
  <2>2. Len(ws) = m /\ Len(wt) = n
    BY <1>5, <1>6
  <2> QED BY <2>1, <2>2
<1>10. ASSUME NEW i \in 1..(m + n) PROVE wu[i] = w[i]
  <2>0. wu[i] = F[u[i]]
    BY <1>7
  <2>1. CASE i \in 1..m
    <3>1. w[i] = F[s[i]] /\ u[i] = s[i]
      BY <1>4, <1>5, <1>9, <2>1
    <3> QED BY <2>0, <3>1, Zenon
  <2>2. CASE i \notin 1..m
    <3>1. PICK j \in 1..n : i = m + j
      <4>1. i - m \in 1..n /\ i = m + (i - m)
        BY <2>2
      <4> QED BY <4>1
    <3>2. w[i] = F[t[j]] /\ u[i] = t[j]
      BY <1>4, <1>6, <1>9, <3>1
    <3> QED BY <2>0, <3>2, Zenon
  <2> QED BY <2>1, <2>2
<1>11. wu = w
  BY <1>7, <1>9, <1>10, SeqEqual
<1>12. FlattenSeq(ws \o wt) = FlattenSeq(ws) \o FlattenSeq(wt)
  BY FlatConcat
<1> QED BY <1>1, <1>5, <1>6, <1>7, <1>8, <1>11, <1>12

\* Of no member nothing is written, and of one its piece.
LEMMA PiecesShort ==
  ASSUME NEW X, NEW Y, NEW F, Writes(F, X, Y)
  PROVE  /\ FlattenSeq(Pieces(F, <<>>)) = <<>>
         /\ \A c \in X : FlattenSeq(Pieces(F, <<c>>)) = F[c]
<1>0. ASSUME NEW r \in Seq(X)
      PROVE  /\ Pieces(F, r) \in Seq(Seq(Y)) /\ Len(Pieces(F, r)) = Len(r)
             /\ \A i \in 1..Len(r) : Pieces(F, r)[i] = F[r[i]]
  BY PiecesFacts
<1>1. FlattenSeq(Pieces(F, <<>>)) = <<>>
  <2>1. <<>> \in Seq(X) /\ <<>> \in Seq(Y) /\ Len(<<>>) = 0
    BY EmptySeq
  <2>2. Pieces(F, <<>>) \in Seq(Seq(Y)) /\ Len(Pieces(F, <<>>)) = 0
    BY <1>0, <2>1
  <2>3. Pieces(F, <<>>) = <<>>
    BY <2>2, EmptySeq
  <2> QED BY <2>1, <2>3, FlatShort
<1>2. ASSUME NEW c \in X PROVE FlattenSeq(Pieces(F, <<c>>)) = F[c]
  <2>0. <<c>> \in Seq(X)
    OBVIOUS
  <2>1. PICK s \in Seq(X) : s = <<c>>
    BY <2>0, Zenon
  <2>2. Len(s) = 1 /\ s[1] = c
    BY <2>1
  <2>3. PICK w \in Seq(Seq(Y)) : w = Pieces(F, s) /\ Len(w) = 1 /\ w[1] = F[c]
    <3>1. 1 \in 1..Len(s)
      BY <2>2
    <3> QED BY <1>0, <2>2, <3>1
  <2>4. PICK x \in Seq(Y) : x = F[c]
    BY DEF Writes
  <2>5. w = <<x>>
    <3>1. <<x>> \in Seq(Seq(Y)) /\ Len(<<x>>) = 1 /\ <<x>>[1] = x
      OBVIOUS
    <3>2. \A i \in 1..Len(w) : w[i] = <<x>>[i]
      BY <2>3, <2>4, <3>1
    <3> QED BY <2>3, <3>1, <3>2, SeqEqual
  <2> QED BY <2>1, <2>3, <2>4, <2>5, FlatShort
<1> QED BY <1>1, <1>2

-----------------------------------------------------------------------------
(* The conversion to iocharset, and back.                                  *)

\* A character of the server as iocharset has it.
Wide(c) == IF c > 127 THEN Utf8(c) ELSE <<c>>

\* A character is made of numbers, a byte of bytes; one of ASCII stays.
LEMMA WideType ==
  ASSUME NEW c \in Int
  PROVE  /\ Wide(c) \in Seq(Int) /\ Wide(c) # <<>> /\ Len(Wide(c)) \in Nat \ {0}
         /\ c \in Byte => Wide(c) \in Seq(Byte) /\ Wide(c)[1] \notin 128..191
         /\ c <= 127 => Wide(c) = <<c>>
         /\ c \in 128..255 => Wide(c)[1] \in {194, 195}
<1>1. CASE c > 127
  <2>1. Wide(c) = <<192 + (c \div 64), 128 + (c % 64)>>
    BY <1>1 DEF Wide, Utf8
  <2>2. PICK a \in Int : a = 192 + (c \div 64)
    OBVIOUS
  <2>3. PICK b \in Int : b = 128 + (c % 64)
    OBVIOUS
  <2>4. c \in Byte => a \in Byte /\ b \in Byte /\ a \in {194, 195}
    BY <1>1, <2>2, <2>3 DEF Byte
  <2>5. Wide(c) = <<a, b>>
    BY <2>1, <2>2, <2>3
  <2>6. c \in 128..255 => c \in Byte
    BY DEF Byte
  <2> QED BY <1>1, <2>4, <2>5, <2>6
<1>2. CASE ~(c > 127)
  <2>1. Wide(c) = <<c>>
    BY <1>2 DEF Wide
  <2> QED BY <1>2, <2>1
<1> QED BY <1>1, <1>2

\* A string is converted character by character.
LEMMA LocalConcat ==
  /\ Local(<<>>) = <<>>
  /\ \A c \in Int : Local(<<c>>) = (IF codepage THEN Wide(c) ELSE <<c>>)
  /\ \A s \in Seq(Int) : Local(s) \in Seq(Int)
  /\ \A s, t \in Seq(Int) : Local(s \o t) = Local(s) \o Local(t)
<1> DEFINE F == [c \in Int |-> Wide(c)]
<1>1. Writes(F, Int, Int) /\ \A c \in Int : F[c] = Wide(c)
  BY WideType DEF Writes
<1>2. ASSUME NEW s \in Seq(Int) PROVE ToIocharset(s) = FlattenSeq(Pieces(F, s))
  <2>1. DOMAIN s = 1..Len(s) /\ \A i \in 1..Len(s) : s[i] \in Int
    BY StringFacts
  <2>2. \A i \in DOMAIN s : F[s[i]] = Wide(s[i])
    BY <2>1
  <2>3. Pieces(F, s) = [i \in DOMAIN s |-> Wide(s[i])]
    <3> HIDE DEF F
    <3> QED BY <2>2 DEF Pieces
  <2> QED BY <2>3 DEF ToIocharset, Wide
<1> HIDE DEF F
<1>3. ToIocharset(<<>>) = <<>>
  <2>1. <<>> \in Seq(Int)
    BY EmptySeq
  <2>2. FlattenSeq(Pieces(F, <<>>)) = <<>>
    BY <1>1, PiecesShort
  <2> QED BY <1>2, <2>1, <2>2
<1>4. ASSUME NEW c \in Int PROVE ToIocharset(<<c>>) = Wide(c)
  <2>1. <<c>> \in Seq(Int)
    OBVIOUS
  <2>2. FlattenSeq(Pieces(F, <<c>>)) = F[c]
    BY <1>1, PiecesShort
  <2> QED BY <1>1, <1>2, <2>1, <2>2
<1>5. ASSUME NEW s \in Seq(Int) PROVE ToIocharset(s) \in Seq(Int)
  <2>1. FlattenSeq(Pieces(F, s)) \in Seq(Int)
    BY <1>1, PiecesFacts, Zenon
  <2> QED BY <1>2, <2>1
<1>6. ASSUME NEW s \in Seq(Int), NEW t \in Seq(Int)
      PROVE  ToIocharset(s \o t) = ToIocharset(s) \o ToIocharset(t)
  <2>1. s \o t \in Seq(Int)
    BY ConcatProperties
  <2>2. FlattenSeq(Pieces(F, s \o t))
          = FlattenSeq(Pieces(F, s)) \o FlattenSeq(Pieces(F, t))
    BY <1>1, PiecesConcat
  <2> QED BY <1>2, <2>1, <2>2
<1> QED BY <1>3, <1>4, <1>5, <1>6 DEF Local

\* A string of bytes is one of numbers.
LEMMA BytesInt ==
  ASSUME NEW s \in Seq(Byte)
  PROVE  s \in Seq(Int)
<1>1. Byte \subseteq Int
  BY DEF Byte
<1> QED BY <1>1, SeqMonotonic

\* One character more.
LEMMA LocalAppend ==
  ASSUME NEW s \in Seq(Int), NEW c \in Int
  PROVE  Local(s \o <<c>>) = Local(s) \o (IF codepage THEN Wide(c) ELSE <<c>>)
<1>1. <<c>> \in Seq(Int)
  OBVIOUS
<1> QED BY <1>1, LocalConcat

\* A name that FUSE shows has bytes.
LEMMA LocalBytes ==
  ASSUME NEW s \in Seq(Byte)
  PROVE  Local(s) \in Seq(Byte)
<1> DEFINE G == {t \in Seq(Byte) : Local(t) \in Seq(Byte)}
<1>1. <<>> \in G
  BY LocalConcat, EmptySeq
<1>2. ASSUME NEW t \in Seq(Byte), NEW c \in Byte, t \in G PROVE t \o <<c>> \in G
  <2>1. c \in Int /\ t \in Seq(Int) /\ <<c>> \in Seq(Byte)
    BY BytesInt DEF Byte
  <2>2. t \o <<c>> \in Seq(Byte)
    BY <2>1, ConcatProperties
  <2>3. PICK w \in Seq(Byte) : w = IF codepage THEN Wide(c) ELSE <<c>>
    BY <2>1, WideType
  <2>4. Local(t \o <<c>>) = Local(t) \o w
    BY <2>1, <2>3, LocalAppend
  <2>5. Local(t) \o w \in Seq(Byte)
    BY <1>2, ConcatProperties
  <2> QED BY <2>2, <2>4, <2>5
<1> HIDE DEF G
<1>3. s \in G
  BY <1>1, <1>2, ByAppending
<1> QED BY <1>3 DEF G

\* The characters that look the same on both sides.
Ascii == 0..127

\* And strings of them.
LEMMA LocalAscii ==
  ASSUME NEW s \in Seq(Ascii)
  PROVE  Local(s) = s
<1> DEFINE G == {t \in Seq(Ascii) : Local(t) = t}
<1>1. <<>> \in G
  BY LocalConcat, EmptySeq
<1>2. ASSUME NEW t \in Seq(Ascii), NEW c \in Ascii, t \in G PROVE t \o <<c>> \in G
  <2>1. Ascii \subseteq Int /\ c \in Int /\ c <= 127
    BY DEF Ascii
  <2>6. <<c>> \in Seq(Ascii)
    OBVIOUS
  <2>2. t \in Seq(Int)
    BY <2>1, SeqMonotonic
  <2>3. t \o <<c>> \in Seq(Ascii)
    BY <2>6, ConcatProperties
  <2>4. Wide(c) = <<c>>
    BY <2>1, WideType
  <2>5. Local(t \o <<c>>) = Local(t) \o <<c>>
    BY <2>1, <2>2, <2>4, LocalAppend
  <2> QED BY <1>2, <2>3, <2>5
<1> HIDE DEF G
<1>3. s \in G
  BY <1>1, <1>2, ByAppending
<1> QED BY <1>3 DEF G

\* A converted character is converted back.
LEMMA CharacterBack ==
  ASSUME NEW c \in Byte
  PROVE  ToCodepage(Wide(c)) = <<c>>
<1>1. PICK s \in Seq(Byte) : s = Wide(c)
  <2>1. c \in Int
    BY DEF Byte
  <2> QED BY <2>1, WideType
<1>2. PICK n \in Nat : n = Len(s)
  BY StringFacts
<1>3. PICK rest : ToCodepage(s) = rest[1] /\ Converts(s, rest)
  BY <1>2, CodepageRest
<1>4. rest[n + 1] = <<>>
  BY <1>2, <1>3, ConvertEnd
<1>5. PICK w \in Seq(Byte) : w = <<c>>
  <2>1. <<c>> \in Seq(Byte)
    OBVIOUS
  <2> QED BY <2>1, Zenon
<1>6. w \o <<>> = w
  BY ConcatEmptySeq
<1>7. CASE c > 127
  <2>1. c \in 128..255
    BY <1>7 DEF Byte
  <2>2. n = 2 /\ s[1] = 192 + (c \div 64) /\ s[2] = 128 + (c % 64)
    BY <1>1, <1>2, <1>7 DEF Wide, Utf8
  <2>3. s[1] \in {194, 195} /\ s[2] \in 128..191
    BY <2>1, <2>2
  <2>4. IsUtf8(s, 1) /\ 1 \in 1..Len(s)
    BY <1>2, <2>2, <2>3 DEF IsUtf8
  <2>5. PICK b \in Byte : Taken(s, rest, 1, b)
    BY <1>3, <2>4, ConvertStep
  <2>6. b = 64 * (s[1] % 4) + (s[2] % 64) /\ rest[1] = <<b>> \o rest[3]
    BY <2>4, <2>5 DEF Taken
  <2>7. b = c
    <3>1. PICK h \in Int : h = c \div 64
      BY <2>1
    <3>2. PICK l \in 0..63 : l = c % 64
      BY <2>1
    <3>3. c = 64 * h + l /\ (h = 2 \/ h = 3)
      BY <2>1, <3>1, <3>2
    <3>4. (192 + h) % 4 = h /\ (128 + l) % 64 = l
      BY <3>3
    <3> QED BY <2>2, <2>6, <3>1, <3>2, <3>3, <3>4
  <2>8. rest[3] = <<>>
    BY <1>4, <2>2
  <2> QED BY <1>1, <1>3, <1>5, <1>6, <2>6, <2>7, <2>8
<1>8. CASE ~(c > 127)
  <2>1. s = <<c>>
    BY <1>1, <1>8 DEF Wide
  <2>2. n = 1 /\ s[1] = c
    BY <1>2, <2>1
  <2>3. ~IsUtf8(s, 1) /\ 1 \in 1..Len(s)
    BY <1>2, <2>2 DEF IsUtf8
  <2>4. PICK b \in Byte : Taken(s, rest, 1, b)
    BY <1>3, <2>3, ConvertStep
  <2>5. b = c /\ rest[1] = <<b>> \o rest[2]
    BY <2>2, <2>3, <2>4 DEF Taken
  <2>6. rest[2] = <<>>
    BY <1>4, <2>2
  <2> QED BY <1>1, <1>3, <1>5, <1>6, <2>5, <2>6
<1> QED BY <1>7, <1>8

\* A name that the server lists, and FUSE shows, is the server's name again
\* when FUSE gives it back: for every name, with codepage or without.
THEOREM NamesComeBack ==
  ASSUME NEW s \in Seq(Byte)
  PROVE  Server(Local(s)) = s
<1>1. CASE ~codepage
  BY <1>1 DEF Server, Local
<1>2. CASE codepage
  <2> DEFINE G == {t \in Seq(Byte) : ToCodepage(Local(t)) = t}
  <2>1. <<>> \in G
    BY LocalConcat, EmptySeq, CodepageShort
  <2>2. ASSUME NEW t \in Seq(Byte), NEW c \in Byte, t \in G PROVE t \o <<c>> \in G
    <3>1. c \in Int /\ t \in Seq(Int) /\ <<c>> \in Seq(Byte)
      BY BytesInt DEF Byte
    <3>2. t \o <<c>> \in Seq(Byte)
      BY <3>1, ConcatProperties
    <3>3. PICK w \in Seq(Byte) : w = Wide(c) /\ w[1] \notin 128..191
      BY <3>1, WideType
    <3>4. PICK u \in Seq(Byte) : u = Local(t)
      BY LocalBytes
    <3>5. Local(t \o <<c>>) = u \o w
      BY <1>2, <3>1, <3>3, <3>4, LocalAppend
    <3>6. ToCodepage(u \o w) = ToCodepage(u) \o ToCodepage(w)
      BY <3>3, CodepageConcat
    <3>7. ToCodepage(u) = t /\ ToCodepage(w) = <<c>>
      BY <2>2, <3>3, <3>4, CharacterBack
    <3>8. ToCodepage(Local(t \o <<c>>)) = t \o <<c>>
      BY <3>5, <3>6, <3>7, Zenon
    <3> QED BY <3>2, <3>8
  <2> HIDE DEF G
  <2>3. s \in G
    BY <2>1, <2>2, ByAppending
  <2>4. ToCodepage(Local(s)) = s
    BY <2>3 DEF G
  <2> QED BY <1>2, <2>4 DEF Server
<1> QED BY <1>1, <1>2

\* So two names that look alike to FUSE are the same.
LEMMA LocalInjective ==
  ASSUME NEW s \in Seq(Byte), NEW t \in Seq(Byte), Local(s) = Local(t)
  PROVE  s = t
BY NamesComeBack

\* A string of ASCII, not empty, in the middle of a string parts it: each side
\* is converted for itself.
LEMMA ServerParts ==
  ASSUME NEW a \in Seq(Byte), NEW m \in Seq(Ascii), m # <<>>, NEW b \in Seq(Byte)
  PROVE  Server(a \o (m \o b)) = Server(a) \o (m \o Server(b))
<1>1. Ascii \subseteq Byte
  BY DEF Ascii, Byte
<1>2. m \in Seq(Byte)
  BY <1>1, SeqMonotonic
<1>3. PICK n \in Nat \ {0} : n = Len(m)
  BY EmptySeq
<1>4. \A i \in 1..n : m[i] \in Ascii
  BY <1>3, StringFacts
<1>5. Server(m) = m
  <2>1. Local(m) = m
    BY LocalAscii
  <2> QED BY <1>2, <2>1, NamesComeBack
<1>6. \A y \in Ascii : y \notin 128..191 /\ y \notin {194, 195}
  BY DEF Ascii
<1>7. CASE ~codepage
  BY <1>7 DEF Server
<1>8. CASE codepage
  <2>1. PICK q \in Seq(Byte) : q = m \o b
    BY <1>2, ConcatProperties
  <2>2. PICK x \in Ascii : x = q[1]
    <3>1. 1 \in 1..Len(m) /\ \A j \in 1..Len(m) : q[j] = m[j]
      BY <1>2, <1>3, <2>1, Concat
    <3> QED BY <1>3, <1>4, <3>1
  <2>3. ToCodepage(a \o q) = ToCodepage(a) \o ToCodepage(q)
    <3>1. q[1] \notin 128..191
      BY <1>6, <2>2, Zenon
    <3> QED BY <3>1, CodepageConcat
  <2>4. m[Len(m)] \notin {194, 195}
    <3>1. m[n] \in Ascii
      BY <1>4
    <3> QED BY <1>3, <1>6, <3>1
  <2>5. ToCodepage(m \o b) = ToCodepage(m) \o ToCodepage(b)
    BY <1>2, <2>4, CodepageConcat
  <2>6. ToCodepage(m) = m
    BY <1>5, <1>8 DEF Server
  <2>7. ToCodepage(a \o (m \o b)) = ToCodepage(a) \o (m \o ToCodepage(b))
    BY <2>1, <2>3, <2>5, <2>6, Zenon
  <2> QED BY <1>8, <2>7 DEF Server
<1> QED BY <1>7, <1>8

\* A string is in another.
Has(s, m) == \E a, b \in Seq(Byte) : s = a \o (m \o b)

\* Such a string is in what FUSE shows only when it is in the name.
LEMMA LocalParts ==
  ASSUME NEW s \in Seq(Byte), NEW m \in Seq(Ascii), m # <<>>, Has(Local(s), m)
  PROVE  Has(s, m)
<1>0. PICK a \in Seq(Byte), b \in Seq(Byte) : Local(s) = a \o (m \o b)
  BY DEF Has
<1>1. s = Server(a) \o (m \o Server(b))
  <2>1. Server(Local(s)) = s
    BY NamesComeBack
  <2>2. Server(a \o (m \o b)) = Server(a) \o (m \o Server(b))
    BY ServerParts
  <2> QED BY <1>0, <2>1, <2>2
<1>2. Server(a) \in Seq(Byte) /\ Server(b) \in Seq(Byte)
  BY ServerType
<1> QED BY <1>1, <1>2 DEF Has

-----------------------------------------------------------------------------
(* Encoding in parts.                                                      *)

\* A string is encoded byte by byte.
LEMMA EncodeConcat ==
  /\ \A s \in Seq(Byte) : url_encode(s) \in Seq(Byte)
  /\ \A c \in Byte : url_encode(<<c>>) = Chunk(c)
  /\ \A s, t \in Seq(Byte) : url_encode(s \o t) = url_encode(s) \o url_encode(t)
<1> DEFINE F == [c \in Byte |-> Chunk(c)]
<1>1. Writes(F, Byte, Byte) /\ \A c \in Byte : F[c] = Chunk(c)
  BY ChunkType DEF Writes
<1>2. ASSUME NEW s \in Seq(Byte) PROVE url_encode(s) = FlattenSeq(Pieces(F, s))
  <2>1. DOMAIN s = 1..Len(s) /\ \A i \in 1..Len(s) : s[i] \in Byte
    BY StringFacts
  <2>2. \A i \in DOMAIN s : F[s[i]] = Chunk(s[i])
    BY <2>1
  <2>3. Pieces(F, s) = Chunks(s)
    <3> HIDE DEF F
    <3> QED BY <2>2 DEF Pieces, Chunks
  <2> QED BY <2>3, ChunksFacts
<1> HIDE DEF F
<1>3. ASSUME NEW c \in Byte PROVE url_encode(<<c>>) = Chunk(c)
  <2>1. <<c>> \in Seq(Byte)
    OBVIOUS
  <2>2. FlattenSeq(Pieces(F, <<c>>)) = F[c]
    BY <1>1, PiecesShort
  <2> QED BY <1>1, <1>2, <2>1, <2>2
<1>4. ASSUME NEW s \in Seq(Byte) PROVE url_encode(s) \in Seq(Byte)
  <2>1. FlattenSeq(Pieces(F, s)) \in Seq(Byte)
    BY <1>1, PiecesFacts, Zenon
  <2> QED BY <1>2, <2>1
<1>5. ASSUME NEW s \in Seq(Byte), NEW t \in Seq(Byte)
      PROVE  url_encode(s \o t) = url_encode(s) \o url_encode(t)
  <2>1. s \o t \in Seq(Byte)
    BY ConcatProperties
  <2>2. FlattenSeq(Pieces(F, s \o t))
          = FlattenSeq(Pieces(F, s)) \o FlattenSeq(Pieces(F, t))
    BY <1>1, PiecesConcat
  <2> QED BY <1>2, <2>1, <2>2
<1> QED BY <1>3, <1>4, <1>5

\* A string is what is before a place, what is there, and what is after it.
LEMMA AroundPlace ==
  ASSUME NEW X, NEW s \in Seq(X), NEW i \in 1..Len(s)
  PROVE  \E a, b \in Seq(X) : s = a \o (<<s[i]>> \o b) /\ Len(a) = i - 1
<1>1. PICK n \in Nat : n = Len(s) /\ i \in 1..n /\ \A j \in 1..n : s[j] \in X
  BY StringFacts
<1>2. PICK a : a = SubSeq(s, 1, i - 1)
  OBVIOUS
<1>3. PICK b : b = SubSeq(s, i + 1, n)
  OBVIOUS
<1>4. a \in Seq(X) /\ Len(a) = i - 1
  <2>1. 1 \in Int /\ i - 1 \in Int /\ \A j \in 1..(i - 1) : s[j] \in X
    BY <1>1
  <2>2. a \in Seq(X) /\ Len(a) = IF 1 <= i - 1 THEN (i - 1) - 1 + 1 ELSE 0
    BY <1>2, <2>1, SubSeqProperties
  <2> QED BY <1>1, <2>2
<1>5. b \in Seq(X)
  <2>1. i + 1 \in Int /\ n \in Int /\ \A j \in (i + 1)..n : s[j] \in X
    BY <1>1
  <2> QED BY <1>3, <2>1, SubSeqProperties
<1>6. SubSeq(s, i, n) = <<s[i]>> \o b
  <2>1. n \in i..Len(s)
    BY <1>1
  <2> QED BY <1>3, <2>1, SubSeqRecursiveFirst
<1>7. s = a \o SubSeq(s, i, n)
  <2>1. 1 \in 1..(Len(s) + 1) /\ i - 1 \in (1 - 1)..Len(s) /\ n \in (i - 1)..Len(s)
    BY <1>1
  <2>2. SubSeq(s, 1, i - 1) \o SubSeq(s, (i - 1) + 1, n) = SubSeq(s, 1, n)
    BY <2>1, ConcatAdjacentSubSeq
  <2>3. (i - 1) + 1 = i
    OBVIOUS
  <2>4. SubSeq(s, 1, n) = s
    BY <1>1, SubSeqFull
  <2> QED BY <1>2, <2>2, <2>3, <2>4
<1> QED BY <1>4, <1>5, <1>6, <1>7

\* What three strings hold when they follow each other, the one in the middle
\* being a single character.
LEMMA AtPlace ==
  ASSUME NEW X, NEW a \in Seq(X), NEW c \in X, NEW b \in Seq(X),
         NEW s, s = a \o (<<c>> \o b)
  PROVE  /\ s \in Seq(X) /\ Len(a) \in Nat /\ Len(b) \in Nat
         /\ Len(s) = Len(a) + 1 + Len(b)
         /\ \A j \in 1..Len(a) : s[j] = a[j]
         /\ s[Len(a) + 1] = c
         /\ \A j \in 1..Len(b) : s[Len(a) + 1 + j] = b[j]
<1>1. <<c>> \in Seq(X) /\ Len(<<c>>) = 1 /\ <<c>>[1] = c
  OBVIOUS
<1>2. PICK q : q = <<c>> \o b
  OBVIOUS
<1>3. PICK m \in Nat : m = Len(a)
  BY StringFacts
<1>4. PICK n \in Nat : n = Len(b)
  BY StringFacts
<1>5. /\ q \in Seq(X) /\ Len(q) = 1 + n
      /\ \A j \in 1..1 : q[j] = <<c>>[j]
      /\ \A j \in 1..n : q[1 + j] = b[j]
  BY <1>1, <1>2, <1>4, Concat
<1>6. /\ s \in Seq(X) /\ Len(s) = m + Len(q)
      /\ \A j \in 1..m : s[j] = a[j]
      /\ \A j \in 1..Len(q) : s[m + j] = q[j]
  BY <1>2, <1>3, <1>5, Concat
<1>7. s[m + 1] = c
  <2>1. 1 \in 1..Len(q) /\ 1 \in 1..1
    BY <1>5
  <2> QED BY <1>1, <1>5, <1>6, <2>1
<1>8. ASSUME NEW j \in 1..n PROVE s[m + 1 + j] = b[j]
  <2>1. 1 + j \in 1..Len(q) /\ m + 1 + j = m + (1 + j)
    BY <1>5
  <2> QED BY <1>5, <1>6, <2>1
<1> QED BY <1>3, <1>4, <1>5, <1>6, <1>7, <1>8

\* What needs encoding leaves a percent sign.
LEMMA EncodePercent ==
  ASSUME NEW s \in Seq(Byte), NEW i \in DOMAIN s, ~Kept(s[i])
  PROVE  Has(url_encode(s), <<Percent>>)
<1>1. i \in 1..Len(s) /\ s[i] \in Byte
  BY StringFacts
<1>2. PICK c \in Byte : c = s[i]
  BY <1>1
<1>3. PICK u \in Seq(Byte), v \in Seq(Byte) : s = u \o (<<c>> \o v)
  <2>1. \E a, b \in Seq(Byte) : s = a \o (<<s[i]>> \o b) /\ Len(a) = i - 1
    BY <1>1, AroundPlace, Zenon
  <2> QED BY <1>2, <2>1
<1>4. <<c>> \in Seq(Byte)
  OBVIOUS
<1>5. <<c>> \o v \in Seq(Byte)
  BY <1>4, ConcatProperties
<1>6. url_encode(s) = url_encode(u) \o (Chunk(c) \o url_encode(v))
  <2>1. url_encode(<<c>> \o v) = url_encode(<<c>>) \o url_encode(v)
    BY <1>4, EncodeConcat
  <2>2. url_encode(u \o (<<c>> \o v)) = url_encode(u) \o url_encode(<<c>> \o v)
    BY <1>5, EncodeConcat
  <2>3. url_encode(<<c>>) = Chunk(c)
    BY EncodeConcat
  <2> QED BY <1>3, <2>1, <2>2, <2>3
<1>7. PICK h \in Byte : h = to_hex(c \div 16)
  BY Digits
<1>8. PICK l \in Byte : l = to_hex(c)
  BY Digits
<1>9. Chunk(c) = <<Percent, h, l>>
  BY <1>2, <1>7, <1>8 DEF Chunk
<1>10. Percent \in Byte
  BY DEF Percent, Byte
<1>11. <<Percent>> \in Seq(Byte) /\ <<h, l>> \in Seq(Byte)
  BY <1>10
<1>12. Chunk(c) = <<Percent>> \o <<h, l>>
  BY <1>9
<1>13. url_encode(u) \in Seq(Byte) /\ url_encode(v) \in Seq(Byte)
  BY EncodeConcat
<1>14. Chunk(c) \o url_encode(v) = <<Percent>> \o (<<h, l>> \o url_encode(v))
  BY <1>11, <1>12, <1>13, ConcatAssociative, SMTT(60)
<1>15. <<h, l>> \o url_encode(v) \in Seq(Byte)
  BY <1>11, <1>13, ConcatProperties
<1> QED BY <1>6, <1>13, <1>14, <1>15 DEF Has

-----------------------------------------------------------------------------
(* Splitting a path.                                                       *)

\* A name in a directory.
Below(d, n) == d \o (<<Slash>> \o n)

NoSlash(s) == \A i \in DOMAIN s : s[i] # Slash

\* The last slash is not before itself.
LEMMA SlashNotBefore ==
  ASSUME NEW a \in Seq(Byte), NEW b \in Seq(Byte), NoSlash(b),
         NEW c \in Seq(Byte), NEW d \in Seq(Byte),
         Below(a, b) = Below(c, d)
  PROVE  ~(Len(a) < Len(c))
<1>1. Slash \in Byte
  BY DEF Slash, Byte
<1>2. PICK s : s = a \o (<<Slash>> \o b) /\ s = Below(a, b)
  BY DEF Below
<1>3. PICK k \in Nat : k = Len(a)
  BY StringFacts
<1>4. PICK l \in Nat : l = Len(b) /\ DOMAIN b = 1..l
  BY StringFacts
<1>5. PICK m \in Nat : m = Len(c)
  BY StringFacts
<1>6. PICK n \in Nat : n = Len(d)
  BY StringFacts
<1>7. Len(s) = k + 1 + l /\ \A j \in 1..l : s[k + 1 + j] = b[j]
  BY <1>1, <1>2, <1>3, <1>4, AtPlace
<1>8. Len(s) = m + 1 + n /\ s[m + 1] = Slash
  <2>1. s = c \o (<<Slash>> \o d)
    BY <1>2 DEF Below
  <2> QED BY <1>1, <1>5, <1>6, <2>1, AtPlace
<1> SUFFICES ASSUME k < m PROVE FALSE
  BY <1>3, <1>5
<1>9. PICK j \in 1..l : m + 1 = k + 1 + j
  <2>1. m - k \in 1..l /\ m + 1 = k + 1 + (m - k)
    BY <1>7, <1>8
  <2> QED BY <2>1
<1>10. b[j] = Slash
  BY <1>7, <1>8, <1>9
<1> QED BY <1>4, <1>10 DEF NoSlash

\* There is one way to split a path at its last slash.
LEMMA SlashSplit ==
  ASSUME NEW a \in Seq(Byte), NEW b \in Seq(Byte), NoSlash(b),
         NEW c \in Seq(Byte), NEW d \in Seq(Byte), NoSlash(d),
         Below(a, b) = Below(c, d)
  PROVE  a = c /\ b = d
<1>1. Slash \in Byte
  BY DEF Slash, Byte
<1>2. PICK s : s = a \o (<<Slash>> \o b) /\ s = Below(a, b)
  BY DEF Below
<1>3. PICK k \in Nat : k = Len(a)
  BY StringFacts
<1>4. PICK l \in Nat : l = Len(b)
  BY StringFacts
<1>5. PICK m \in Nat : m = Len(c)
  BY StringFacts
<1>6. PICK n \in Nat : n = Len(d)
  BY StringFacts
<1>7. ~(k < m) /\ ~(m < k)
  <2>1. ~(Len(a) < Len(c))
    BY SlashNotBefore
  <2>2. ~(Len(c) < Len(a))
    BY SlashNotBefore
  <2> QED BY <1>3, <1>5, <2>1, <2>2
<1>8. /\ Len(s) = k + 1 + l /\ \A j \in 1..k : s[j] = a[j]
      /\ \A j \in 1..l : s[k + 1 + j] = b[j]
  BY <1>1, <1>2, <1>3, <1>4, AtPlace
<1>9. /\ Len(s) = m + 1 + n /\ \A j \in 1..m : s[j] = c[j]
      /\ \A j \in 1..n : s[m + 1 + j] = d[j]
  <2>1. s = c \o (<<Slash>> \o d)
    BY <1>2 DEF Below
  <2> QED BY <1>1, <1>5, <1>6, <2>1, AtPlace
<1>10. k = m /\ l = n
  BY <1>7, <1>8, <1>9
<1>11. a = c
  <2>1. \A j \in 1..k : a[j] = c[j]
    BY <1>8, <1>9, <1>10
  <2> QED BY <1>3, <1>5, <1>10, <2>1, SeqEqual
<1>12. b = d
  <2>1. \A j \in 1..l : b[j] = d[j]
    BY <1>8, <1>9, <1>10
  <2> QED BY <1>4, <1>6, <1>10, <2>1, SeqEqual
<1> QED BY <1>11, <1>12

\* What the path of a file in directory d begins with.
Base(d) == IF d = <<>> THEN <<>> ELSE <<Slash>> \o d

\* It tells the directory.
LEMMA BaseFacts ==
  /\ \A d \in Seq(Byte) : Base(d) \in Seq(Byte)
  /\ \A c, d \in Seq(Byte) : Base(c) = Base(d) => c = d
<1>1. <<Slash>> \in Seq(Byte) /\ <<>> \in Seq(Byte)
  BY DEF Slash, Byte
<1>2. ASSUME NEW d \in Seq(Byte)
      PROVE  /\ <<Slash>> \o d \in Seq(Byte) /\ <<Slash>> \o d # <<>>
             /\ Base(d) \in Seq(Byte)
  <2>1. PICK t \in Seq(Byte) : t = <<Slash>> /\ Len(t) = 1
    BY <1>1, Zenon
  <2>2. t \o d \in Seq(Byte) /\ Len(t \o d) = Len(t) + Len(d) /\ Len(d) \in Nat
    BY ConcatProperties, StringFacts
  <2>3. t \o d # <<>>
    BY <2>1, <2>2
  <2> QED BY <1>1, <2>1, <2>2, <2>3 DEF Base
<1>3. ASSUME NEW c \in Seq(Byte), NEW d \in Seq(Byte), Base(c) = Base(d) PROVE c = d
  <2>1. CASE c = <<>> \/ d = <<>>
    BY <1>2, <1>3, <2>1 DEF Base
  <2>2. CASE c # <<>> /\ d # <<>>
    <3>1. <<Slash>> \o c = <<Slash>> \o d
      BY <1>3, <2>2 DEF Base
    <3> QED BY <1>1, <3>1, ConcatSimplifications
  <2> QED BY <2>1, <2>2
<1> QED BY <1>2, <1>3

\* The name of a file in a directory: with or without a slash between them.
LEMMA BaseForm ==
  ASSUME NEW d \in Seq(Byte), NEW n \in Seq(Byte)
  PROVE  <<Slash>> \o d \o SlashUnless(d = <<>>) \o n = Base(d) \o (<<Slash>> \o n)
<1>0. <<Slash>> \in Seq(Byte) /\ <<>> \in Seq(Byte)
  BY DEF Slash, Byte
<1>1. PICK t \in Seq(Byte) : t = <<Slash>>
  BY <1>0, Zenon
<1>2. CASE d = <<>>
  <2>1. SlashUnless(d = <<>>) = <<>> /\ Base(d) = <<>>
    BY <1>2 DEF SlashUnless, Base
  <2>2. t \o <<>> = t /\ t \o n \in Seq(Byte)
    BY ConcatEmptySeq, ConcatProperties
  <2>3. <<>> \o (t \o n) = t \o n
    BY <2>2, ConcatEmptySeq
  <2> QED BY <1>1, <1>2, <2>1, <2>2, <2>3
<1>3. CASE d # <<>>
  <2>1. SlashUnless(d = <<>>) = t /\ Base(d) = t \o d
    BY <1>1, <1>3 DEF SlashUnless, Base
  <2>2. t \o d \in Seq(Byte)
    BY ConcatProperties
  <2>3. ((t \o d) \o t) \o n = (t \o d) \o (t \o n)
    BY <2>2, Associative, ZenonT(60)
  <2> QED BY <1>1, <2>1, <2>3
<1> QED BY <1>2, <1>3

\* A path is its directory and its name.
LEMMA PathParts ==
  ASSUME NEW p, IsPath(p)
  PROVE  /\ p = Base(DirName(p)) \o (<<Slash>> \o FileName(p))
         /\ NoSlash(FileName(p))
         /\ p = <<Slash>> \o Tail(p) /\ (Len(p) = 1 <=> Tail(p) = <<>>)
<1> DEFINE x == LastSlash(p)
           d == DirName(p)
           f == FileName(p)
<1>1. x \in 1..Len(p) /\ p[x] = Slash /\ \A j \in (x + 1)..Len(p) : p[j] # Slash
  BY LastSlashFacts
<1>2. PICK n \in Nat \ {0} :
        /\ n = Len(p) /\ p \in Seq(Byte) /\ p # <<>> /\ p[1] = Slash
        /\ \A j \in 1..n : p[j] \in Byte
  BY EmptySeq, StringFacts DEF IsPath
<1>3. d = SubSeq(p, 2, x - 1) /\ f = SubSeq(p, x + 1, n)
  BY <1>2 DEF DirName, FileName
<1>4. d \in Seq(Byte) /\ f \in Seq(Byte) /\ Tail(p) \in Seq(Byte)
  BY PathSplit
<1>5. Tail(p) = SubSeq(p, 2, n) /\ Len(Tail(p)) = n - 1
  BY <1>2, TailIsSubSeq, HeadTailProperties
<1> HIDE DEF x, d, f
<1>6. SubSeq(p, 1, n) = <<p[1]>> \o SubSeq(p, 1 + 1, n)
  <2>1. 1 \in 1..Len(p) /\ n \in 1..Len(p)
    BY <1>2
  <2> QED BY <1>2, <2>1, SubSeqRecursiveFirst
<1>7. p = <<Slash>> \o Tail(p)
  <2>1. SubSeq(p, 1, n) = p
    BY <1>2, SubSeqFull
  <2> QED BY <1>2, <1>5, <1>6, <2>1
<1>8. Len(p) = 1 <=> Tail(p) = <<>>
  <2>1. Len(Tail(p)) = 0 <=> Tail(p) = <<>>
    BY <1>4, EmptySeq
  <2> QED BY <1>2, <1>5, <2>1
<1>9. NoSlash(f)
  <2>1. PICK m \in Nat : m = Len(f) /\ DOMAIN f = 1..m
    BY <1>4, StringFacts
  <2>2. x + 1 \in Int /\ n \in Int /\ \A j \in (x + 1)..n : p[j] \in Byte
    BY <1>1, <1>2
  <2>3. /\ Len(f) = IF x + 1 <= n THEN n - (x + 1) + 1 ELSE 0
        /\ \A i \in 1..(n - (x + 1) + 1) : f[i] = p[(x + 1) + i - 1]
    BY <1>3, <2>2, SubSeqProperties
  <2>4. ASSUME NEW i \in 1..m PROVE f[i] # Slash
    <3>1. i \in 1..(n - (x + 1) + 1) /\ (x + 1) + i - 1 \in (x + 1)..n
      BY <1>1, <1>2, <2>1, <2>3
    <3>2. p[(x + 1) + i - 1] # Slash
      BY <1>1, <1>2, <3>1
    <3> QED BY <2>3, <3>1, <3>2
  <2> QED BY <2>1, <2>4 DEF NoSlash
<1>10. SubSeq(p, x, n) = <<Slash>> \o f
  <2>1. x \in 1..Len(p) /\ n \in x..Len(p)
    BY <1>1, <1>2
  <2> QED BY <1>1, <1>2, <1>3, <2>1, SubSeqRecursiveFirst
<1>11. p = Base(d) \o (<<Slash>> \o f)
  <2>0. <<Slash>> \in Seq(Byte)
    BY DEF Slash, Byte
  <2>1. CASE x = 1
    <3>1. d = <<>>
      <4>1. x - 1 < 2 /\ x - 1 \in Int /\ 2 \in Int
        BY <2>1
      <4> QED BY <1>3, <4>1, SubSeqEmpty
    <3>2. p = <<Slash>> \o f
      BY <1>2, <1>10, <2>1, SubSeqFull
    <3>3. <<>> \o p = p
      BY <1>2, ConcatEmptySeq
    <3> QED BY <3>1, <3>2, <3>3 DEF Base
  <2>2. CASE x # 1
    <3>1. x # 2
      BY <1>1, <1>2 DEF IsPath
    <3>2. 2 <= x - 1 /\ x \in 3..n
      BY <1>1, <1>2, <2>2, <3>1
    <3>3. d # <<>>
      <4>1. 2 \in Int /\ x - 1 \in Int /\ \A j \in 2..(x - 1) : p[j] \in Byte
        BY <1>2, <3>2
      <4>2. Len(d) = IF 2 <= x - 1 THEN (x - 1) - 2 + 1 ELSE 0
        BY <1>3, <4>1, SubSeqProperties
      <4>3. Len(d) # 0
        BY <3>2, <4>2
      <4> QED BY <4>3, EmptySeq
    <3>4. Tail(p) = d \o (<<Slash>> \o f)
      <4>1. /\ 2 \in 1..(n + 1) /\ x - 1 \in (2 - 1)..n /\ n \in (x - 1)..n
            /\ (x - 1) + 1 = x
        BY <3>2
      <4>2. SubSeq(p, 2, x - 1) \o SubSeq(p, (x - 1) + 1, n) = SubSeq(p, 2, n)
        BY <1>2, <4>1, ConcatAdjacentSubSeq
      <4> QED BY <1>3, <1>5, <1>10, <4>1, <4>2
    <3>5. <<Slash>> \o f \in Seq(Byte)
      BY <1>4, <2>0, ConcatProperties
    <3>6. <<Slash>> \o (d \o (<<Slash>> \o f)) = (<<Slash>> \o d) \o (<<Slash>> \o f)
      BY <1>4, <2>0, <3>5, Associative, Zenon
    <3>7. Base(d) = <<Slash>> \o d
      BY <3>3 DEF Base
    <3> QED BY <1>7, <3>4, <3>6, <3>7, Zenon
  <2> QED BY <2>1, <2>2
<1> QED BY <1>7, <1>8, <1>9, <1>11 DEF d, f
=============================================================================
