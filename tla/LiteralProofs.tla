----------------------------- MODULE LiteralProofs -----------------------------
(***************************************************************************)
(* What the operators of Literal do with every text: the folds they are    *)
(* made of, and that __intrinsic_readString takes off the front of a       *)
(* record what PostgreSQL has written for its column.                      *)
(***************************************************************************)
EXTENDS Literal, SequenceTheorems, WellFoundedInduction, TLAPS

(***************************************************************************)
(* Induction, from the well-foundedness of < on the natural numbers.       *)
(***************************************************************************)
(* A set of natural numbers that is not empty has a least element. *)
LEMMA LeastElement ==
    ASSUME NEW T \in SUBSET Nat, T # {}
    PROVE  \E n \in T : \A m \in T : n <= m
<1> DEFINE R == OpToRel(<, Nat)
<1>1. IsWellFoundedOn(R, Nat)
  BY NatLessThanWellFounded
<1>2. PICK n \in T : \A m \in T : <<m, n>> \notin R
  <2> HIDE DEF R
  <2> QED BY <1>1, WFMin
<1>3. \A m \in Nat, k \in Nat : m < k => <<m, k>> \in R
  BY Zenon DEF OpToRel
<1>4. \A m \in T : ~ (m < n)
  <2> HIDE DEF R
  <2> QED BY <1>2, <1>3, Zenon
<1> QED BY <1>4

(* A set with 0 and with the successor of each of its numbers has all. *)
LEMMA SetInduction ==
    ASSUME NEW T, 0 \in T, \A n \in Nat : n \in T => n + 1 \in T
    PROVE  Nat \subseteq T
<1> SUFFICES ASSUME Nat \ T # {} PROVE FALSE
  OBVIOUS
<1>1. PICK n \in Nat \ T : \A m \in Nat \ T : n <= m
  BY LeastElement, Nat \ T \in SUBSET Nat
<1>2. n - 1 \in Nat /\ n - 1 \in T
  BY <1>1
<1> QED BY <1>1, <1>2

(* A set with the empty sequence and with every sequence that is longer by *)
(* an element than one of its own has all.                                 *)
LEMMA SeqInduction ==
    ASSUME NEW E, NEW T, <<>> \in T,
           \A s \in Seq(E), e \in E : s \in T => Append(s, e) \in T
    PROVE  Seq(E) \subseteq T
<1> DEFINE L == {n \in Nat : \A s \in Seq(E) : Len(s) = n => s \in T}
<1>1. 0 \in L
  OBVIOUS
<1>2. ASSUME NEW n \in Nat, n \in L PROVE n + 1 \in L
  <2> SUFFICES ASSUME NEW s \in Seq(E), Len(s) = n + 1 PROVE s \in T
    OBVIOUS
  <2> DEFINE t == SubSeq(s, 1, n)
  <2>1. t \in Seq(E) /\ Len(t) = n /\ s[n + 1] \in E
    OBVIOUS
  <2>2. s = Append(t, s[n + 1])
    OBVIOUS
  <2>3. t \in T
    BY <2>1, <1>2
  <2> QED BY <2>1, <2>2, <2>3
<1>3. Nat \subseteq L
  <2> HIDE DEF L
  <2> QED BY <1>1, <1>2, SetInduction
<1> QED BY <1>3

(* The ends of a sequence. *)
LEMMA HeadTail ==
    ASSUME NEW E, NEW s \in Seq(E), s # <<>>
    PROVE  /\ Head(s) = s[1] /\ Len(s) \in Nat \ {0} /\ Head(s) \in E
           /\ Tail(s) \in Seq(E) /\ Len(Tail(s)) = Len(s) - 1
           /\ \A k \in 1 .. Len(Tail(s)) : Tail(s)[k] = s[k + 1]
OBVIOUS

LEMMA HeadAndRest ==
    ASSUME NEW E, NEW c \in E, NEW s \in Seq(E)
    PROVE  /\ <<c>> \o s \in Seq(E) /\ <<c>> \o s # <<>>
           /\ Head(<<c>> \o s) = c /\ Tail(<<c>> \o s) = s
<1> DEFINE u == <<c>> \o s
<1>1. u \in Seq(E) /\ Len(u) = Len(s) + 1 /\ u[1] = c
      /\ \A k \in 1 .. Len(s) : u[k + 1] = s[k]
  <2>1. u \in Seq(E) /\ Len(u) = Len(s) + 1 /\ u[1] = c
    OBVIOUS
  <2>2. ASSUME NEW k \in 1 .. Len(s) PROVE u[k + 1] = s[k]
    OBVIOUS
  <2> QED BY <2>1, <2>2
<1> HIDE DEF u
<1>2. u # <<>>
  BY <1>1
<1>3. Head(u) = u[1] /\ Tail(u) \in Seq(E) /\ Len(Tail(u)) = Len(s)
      /\ \A k \in 1 .. Len(s) : Tail(u)[k] = s[k]
  BY <1>1, <1>2, HeadTail
<1>4. Tail(u) = s
  BY <1>3
<1> QED BY <1>1, <1>2, <1>3, <1>4 DEF u

LEMMA Below ==
    ASSUME NEW E, NEW s \in Seq(E), s # <<>>
    PROVE  LET u == SubSeq(s, 1, Len(s) - 1)
           IN  /\ Len(s) \in Nat \ {0} /\ u \in Seq(E) /\ Len(u) = Len(s) - 1
               /\ \A k \in 1 .. Len(s) - 1 : u[k] = s[k]
               /\ \A e \in E : /\ Append(u, e) \in Seq(E) /\ Len(Append(u, e)) = Len(s)
                               /\ Append(u, e)[Len(s)] = e
                               /\ \A k \in 1 .. Len(s) - 1 : Append(u, e)[k] = s[k]
<1> DEFINE u == SubSeq(s, 1, Len(s) - 1)
           n == Len(s) - 1
<1>1. Len(s) \in Nat \ {0} /\ n \in Nat
  BY EmptySeq
<1>2. u \in Seq(E) /\ Len(u) = n /\ \A k \in 1 .. n : u[k] = s[k]
  BY <1>1
<1> HIDE DEF u, n
<1>3. ASSUME NEW e \in E
      PROVE  /\ Append(u, e) \in Seq(E) /\ Len(Append(u, e)) = n + 1
             /\ Append(u, e)[n + 1] = e
             /\ \A k \in 1 .. n : Append(u, e)[k] = s[k]
  BY <1>1, <1>2
<1>4. n + 1 = Len(s)
  BY <1>1 DEF n
<1> QED BY <1>1, <1>2, <1>3, <1>4 DEF u, n

LEMMA Prefix ==
    ASSUME NEW E, NEW s \in Seq(E), NEW m \in Nat, m <= Len(s)
    PROVE  /\ SubSeq(s, 1, m) \in Seq(E) /\ Len(SubSeq(s, 1, m)) = m
           /\ \A k \in 1 .. m : SubSeq(s, 1, m)[k] = s[k]
OBVIOUS

-----------------------------------------------------------------------------
(***************************************************************************)
(* Values that are made of others, none of itself: what is said of one by  *)
(* what is said of its parts.  step gives it, if F gives it for the parts. *)
(***************************************************************************)
Tree(N, parts, depth) ==
    /\ depth \in [N -> Nat]
    /\ \A g \in N : /\ parts[g] \in Seq(N)
                    /\ \A k \in DOMAIN parts[g] : depth[parts[g][k]] < depth[g]

LocalIn(N, parts, V, step) ==
    \A F, G \in [N -> V], g \in N :
       (\A k \in DOMAIN parts[g] : F[parts[g][k]] = G[parts[g][k]]) => step[<<F, g>>] = step[<<G, g>>]

(* F is right for the values of a depth below n. *)
RightBelow(N, depth, n, F, step) == \A g \in N : depth[g] < n => F[g] = step[<<F, g>>]

LEMMA TreeFacts ==
    ASSUME NEW N, NEW parts, NEW depth, Tree(N, parts, depth), NEW g \in N
    PROVE  /\ parts[g] \in Seq(N)
           /\ \A k \in DOMAIN parts[g] : /\ parts[g][k] \in N
                                         /\ depth[parts[g][k]] \in Nat
                                         /\ depth[parts[g][k]] < depth[g]
           /\ depth[g] \in Nat
<1>1. parts[g] \in Seq(N) /\ depth \in [N -> Nat]
  BY DEF Tree
<1>2. \A k \in DOMAIN parts[g] : parts[g][k] \in N
  BY <1>1
<1> QED BY <1>1, <1>2 DEF Tree

LEMMA RightUnique ==
    ASSUME NEW N, NEW parts, NEW depth, Tree(N, parts, depth),
           NEW V, NEW step, LocalIn(N, parts, V, step), NEW F \in [N -> V], NEW G \in [N -> V],
           NEW m \in Nat, RightBelow(N, depth, m, F, step),
           NEW n \in Nat, RightBelow(N, depth, n, G, step)
    PROVE  \A g \in N : depth[g] < m /\ depth[g] < n => F[g] = G[g]
<1> DEFINE T == {d \in Nat : \A g \in N : depth[g] < d /\ depth[g] < m /\ depth[g] < n => F[g] = G[g]}
<1>1. 0 \in T
  BY TreeFacts
<1>2. ASSUME NEW d \in Nat, d \in T PROVE d + 1 \in T
  <2> SUFFICES ASSUME NEW g \in N, depth[g] < d + 1, depth[g] < m, depth[g] < n
               PROVE  F[g] = G[g]
    OBVIOUS
  <2>1. \A k \in DOMAIN parts[g] : F[parts[g][k]] = G[parts[g][k]]
    <3> SUFFICES ASSUME NEW k \in DOMAIN parts[g] PROVE F[parts[g][k]] = G[parts[g][k]]
      OBVIOUS
    <3> DEFINE h == parts[g][k]
    <3>1. h \in N /\ depth[h] \in Nat /\ depth[h] < depth[g] /\ depth[g] \in Nat
      BY TreeFacts
    <3> HIDE DEF h
    <3>2. depth[h] < d /\ depth[h] < m /\ depth[h] < n
      BY <3>1
    <3>3. F[h] = G[h]
      BY <1>2, <3>1, <3>2
    <3> QED BY <3>3 DEF h
  <2>2. step[<<F, g>>] = step[<<G, g>>]
    BY <2>1 DEF LocalIn
  <2> QED BY <2>2 DEF RightBelow
<1>3. Nat \subseteq T
  <2> HIDE DEF T
  <2> QED BY <1>1, <1>2, SetInduction
<1> SUFFICES ASSUME NEW g \in N, depth[g] < m, depth[g] < n PROVE F[g] = G[g]
  OBVIOUS
<1>4. depth[g] + 1 \in T /\ depth[g] < depth[g] + 1
  BY <1>3, TreeFacts
<1> QED BY <1>4

LEMMA RightExists ==
    ASSUME NEW N, NEW parts, NEW depth, Tree(N, parts, depth),
           NEW V, NEW v \in V, NEW step \in [[N -> V] \X N -> V], LocalIn(N, parts, V, step)
    PROVE  \A n \in Nat : \E F \in [N -> V] : RightBelow(N, depth, n, F, step)
<1> DEFINE T == {n \in Nat : \E F \in [N -> V] : RightBelow(N, depth, n, F, step)}
<1>1. 0 \in T
  <2> DEFINE F == [g \in N |-> v]
  <2>1. RightBelow(N, depth, 0, F, step)
    BY TreeFacts DEF RightBelow
  <2>2. F \in [N -> V]
    OBVIOUS
  <2> HIDE DEF F
  <2> QED BY <2>1, <2>2
<1>2. ASSUME NEW n \in Nat, n \in T PROVE n + 1 \in T
  <2>1. PICK F \in [N -> V] : RightBelow(N, depth, n, F, step)
    BY <1>2
  <2> DEFINE G == [g \in N |-> step[<<F, g>>]]
  <2>2. G \in [N -> V] /\ \A g \in N : G[g] = step[<<F, g>>]
    OBVIOUS
  <2> HIDE DEF G
  <2>3. ASSUME NEW g \in N, depth[g] < n + 1 PROVE step[<<F, g>>] = step[<<G, g>>]
    <3>1. \A k \in DOMAIN parts[g] : F[parts[g][k]] = G[parts[g][k]]
      <4> SUFFICES ASSUME NEW k \in DOMAIN parts[g] PROVE F[parts[g][k]] = G[parts[g][k]]
        OBVIOUS
      <4> DEFINE h == parts[g][k]
      <4>1. h \in N /\ depth[h] \in Nat /\ depth[h] < depth[g] /\ depth[g] \in Nat
        BY TreeFacts
      <4> HIDE DEF h
      <4>2. depth[h] < n
        BY <2>3, <4>1
      <4>3. F[h] = G[h]
        BY <2>1, <2>2, <4>1, <4>2 DEF RightBelow
      <4> QED BY <4>3 DEF h
    <3> QED BY <2>2, <3>1 DEF LocalIn
  <2>4. RightBelow(N, depth, n + 1, G, step)
    BY <2>2, <2>3 DEF RightBelow
  <2> QED BY <2>2, <2>4
<1>3. Nat \subseteq T
  <2> HIDE DEF T
  <2> QED BY <1>1, <1>2, SetInduction
<1> QED BY <1>3

HasRecursion(N, V, step) == \E H \in [N -> V] : \A g \in N : H[g] = step[<<H, g>>]

LEMMA TreeRecursion ==
    ASSUME NEW N, NEW parts, NEW depth, Tree(N, parts, depth),
           NEW V, V # {}, NEW step \in [[N -> V] \X N -> V], LocalIn(N, parts, V, step)
    PROVE  HasRecursion(N, V, step)
<1> DEFINE Right(n) == CHOOSE F \in [N -> V] : RightBelow(N, depth, n, F, step)
           H == [g \in N |-> Right(depth[g] + 1)[g]]
<1>1. \A n \in Nat : Right(n) \in [N -> V] /\ RightBelow(N, depth, n, Right(n), step)
  <2>1. PICK v : v \in V
    OBVIOUS
  <2>2. \A n \in Nat : \E F \in [N -> V] : RightBelow(N, depth, n, F, step)
    BY <2>1, RightExists
  <2> QED BY <2>2, Zenon
<1> HIDE DEF Right
<1>2. \A g \in N : depth[g] \in Nat /\ depth[g] + 1 \in Nat /\ depth[g] < depth[g] + 1
  BY TreeFacts
<1>3. H \in [N -> V] /\ \A g \in N : H[g] = Right(depth[g] + 1)[g]
  BY <1>1, <1>2
<1> HIDE DEF H
<1>4. ASSUME NEW g \in N PROVE H[g] = step[<<H, g>>]
  <2> DEFINE F == Right(depth[g] + 1)
  <2>1. F \in [N -> V] /\ RightBelow(N, depth, depth[g] + 1, F, step)
    BY <1>1, <1>2
  <2>2. H[g] = F[g] /\ F[g] = step[<<F, g>>]
    BY <1>2, <1>3, <2>1 DEF RightBelow
  <2> HIDE DEF F
  <2>3. \A k \in DOMAIN parts[g] : F[parts[g][k]] = H[parts[g][k]]
    <3> SUFFICES ASSUME NEW k \in DOMAIN parts[g] PROVE F[parts[g][k]] = H[parts[g][k]]
      OBVIOUS
    <3> DEFINE h == parts[g][k]
               m == depth[h] + 1
               n == depth[g] + 1
    <3>1. h \in N /\ depth[h] < depth[g]
      BY TreeFacts
    <3> HIDE DEF h
    <3>2. m \in Nat /\ n \in Nat /\ depth[h] < m /\ depth[h] < n
      BY <1>2, <3>1
    <3> DEFINE E == Right(m)
    <3>3. E \in [N -> V] /\ RightBelow(N, depth, m, E, step) /\ H[h] = E[h]
      BY <1>1, <1>3, <3>1, <3>2
    <3> HIDE DEF E, m, n
    <3>4. RightBelow(N, depth, n, F, step)
      BY <2>1 DEF n
    <3>5. E[h] = F[h]
      BY <2>1, <3>1, <3>2, <3>3, <3>4, RightUnique
    <3> QED BY <3>3, <3>5 DEF h
  <2>4. step[<<F, g>>] = step[<<H, g>>]
    BY <1>3, <2>1, <2>3 DEF LocalIn
  <2> QED BY <2>2, <2>4
<1> QED BY <1>3, <1>4 DEF HasRecursion

(* What holds of a value if it holds of its parts holds of all.            *)
Carried(N, parts, T) ==
    \A g \in N : (\A k \in DOMAIN parts[g] : parts[g][k] \in T) => g \in T

LEMMA TreeInduction ==
    ASSUME NEW N, NEW parts, NEW depth, Tree(N, parts, depth), NEW T, Carried(N, parts, T)
    PROVE  N \subseteq T
<1> DEFINE D == {n \in Nat : \A g \in N : depth[g] < n => g \in T}
<1>1. 0 \in D
  BY TreeFacts
<1>2. ASSUME NEW n \in Nat, n \in D PROVE n + 1 \in D
  <2> SUFFICES ASSUME NEW g \in N, depth[g] < n + 1 PROVE g \in T
    OBVIOUS
  <2>1. ASSUME NEW k \in DOMAIN parts[g] PROVE parts[g][k] \in T
    <3> DEFINE h == parts[g][k]
    <3>1. h \in N /\ depth[h] \in Nat /\ depth[h] < depth[g] /\ depth[g] \in Nat
      BY TreeFacts
    <3> HIDE DEF h
    <3>2. depth[h] < n
      BY <3>1
    <3>3. h \in T
      BY <1>2, <3>1, <3>2
    <3> QED BY <3>3 DEF h
  <2> QED BY <2>1 DEF Carried
<1>3. Nat \subseteq D
  <2> HIDE DEF D
  <2> QED BY <1>1, <1>2, SetInduction
<1> SUFFICES ASSUME NEW g \in N PROVE g \in T
  OBVIOUS
<1>4. depth[g] + 1 \in D /\ depth[g] < depth[g] + 1
  BY <1>3, TreeFacts
<1> QED BY <1>4

LEMMA TreeUnique ==
    ASSUME NEW N, NEW parts, NEW depth, Tree(N, parts, depth),
           NEW V, NEW step, LocalIn(N, parts, V, step), NEW F \in [N -> V], NEW G \in [N -> V],
           \A g \in N : F[g] = step[<<F, g>>] /\ G[g] = step[<<G, g>>]
    PROVE  F = G
<1> DEFINE T == {g \in N : F[g] = G[g]}
<1>1. ASSUME NEW g \in N, \A k \in DOMAIN parts[g] : parts[g][k] \in T PROVE g \in T
  <2>1. step[<<F, g>>] = step[<<G, g>>]
    BY <1>1 DEF LocalIn
  <2> QED BY <2>1
<1>2. N \subseteq T
  <2> HIDE DEF T
  <2>1. Carried(N, parts, T)
    BY <1>1 DEF Carried
  <2> QED BY <2>1, TreeInduction
<1> QED BY <1>2

-----------------------------------------------------------------------------
(***************************************************************************)
(* Scanned, by the values it goes through.                                 *)
(***************************************************************************)
Trace(h, step, x, s) == /\ h[0] = x
                        /\ \A k \in 1 .. Len(s) : h[k] = step[<<h[k - 1], s[k]>>]

Recursion(h, step, x, s, n) ==
    h = [k \in 0 .. n |-> IF k = 0 THEN x ELSE step[<<h[k - 1], s[k]>>]]

LEMMA RecursionExists ==
    ASSUME NEW step, NEW x, NEW s, NEW n \in Nat
    PROVE  \E h : Recursion(h, step, x, s, n)
<1> DEFINE Is(h, m) == h = [k \in 0 .. m |-> IF k = 0 THEN x ELSE step[<<h[k - 1], s[k]>>]]
           T == {m \in Nat : \E h : Is(h, m)}
<1>1. 0 \in T
  <2> DEFINE h == [k \in 0 .. 0 |-> x]
  <2>1. Is(h, 0)
    OBVIOUS
  <2> QED BY <2>1
<1>2. ASSUME NEW m \in Nat, m \in T PROVE m + 1 \in T
  <2>1. PICK g : Is(g, m)
    BY <1>2
  <2> DEFINE h == [k \in 0 .. m + 1 |-> IF k = m + 1 THEN step[<<g[m], s[m + 1]>>] ELSE g[k]]
  <2>2. ASSUME NEW k \in 0 .. m + 1
        PROVE  h[k] = IF k = 0 THEN x ELSE step[<<h[k - 1], s[k]>>]
    <3>1. CASE k = m + 1
      <4>1. m \in 0 .. m + 1 /\ m # m + 1 /\ h[m] = g[m] /\ k - 1 = m /\ k # 0
        BY <3>1
      <4> QED BY <3>1, <4>1
    <3>2. CASE k # m + 1
      <4>1. k \in 0 .. m /\ h[k] = g[k]
        BY <3>2
      <4>2. k # 0 => k - 1 \in 0 .. m + 1 /\ k - 1 # m + 1 /\ h[k - 1] = g[k - 1]
        BY <3>2
      <4>3. g[k] = IF k = 0 THEN x ELSE step[<<g[k - 1], s[k]>>]
        BY <2>1, <4>1
      <4> QED BY <4>1, <4>2, <4>3
    <3> QED BY <3>1, <3>2
  <2>3. Is(h, m + 1)
    BY <2>2
  <2> HIDE DEF h
  <2> QED BY <2>3
<1>3. Nat \subseteq T
  <2> HIDE DEF T
  <2> QED BY <1>1, <1>2, SetInduction
<1> QED BY <1>3 DEF Recursion

LEMMA TraceExists ==
    ASSUME NEW step, NEW x, NEW E, NEW s \in Seq(E)
    PROVE  \E h : Trace(h, step, x, s) /\ Scanned(step, x, s) = h[Len(s)]
<1> DEFINE At == CHOOSE h : Recursion(h, step, x, s, Len(s))
<1>1. At = [k \in 0 .. Len(s) |-> IF k = 0 THEN x ELSE step[<<At[k - 1], s[k]>>]]
  <2>1. \E h : Recursion(h, step, x, s, Len(s))
    BY RecursionExists, Len(s) \in Nat
  <2>2. Recursion(At, step, x, s, Len(s))
    BY <2>1, Zenon
  <2> QED BY <2>2 DEF Recursion
<1>2. Scanned(step, x, s) = At[Len(s)]
  BY Zenon DEF Scanned, Recursion
<1> HIDE DEF At
<1>3. Trace(At, step, x, s)
  <2>1. At[0] = x
    BY <1>1
  <2>2. ASSUME NEW k \in 1 .. Len(s) PROVE At[k] = step[<<At[k - 1], s[k]>>]
    <3>1. k \in 0 .. Len(s) /\ k # 0
      OBVIOUS
    <3> QED BY <1>1, <3>1
  <2> QED BY <2>1, <2>2 DEF Trace
<1> QED BY <1>2, <1>3

LEMMA TraceUnique ==
    ASSUME NEW step, NEW x, NEW E, NEW s \in Seq(E), NEW g, NEW h,
           Trace(g, step, x, s), Trace(h, step, x, s)
    PROVE  \A k \in 0 .. Len(s) : g[k] = h[k]
<1> DEFINE T == {k \in Nat : k <= Len(s) => g[k] = h[k]}
<1>1. 0 \in T
  BY DEF Trace
<1>2. ASSUME NEW k \in Nat, k \in T PROVE k + 1 \in T
  <2> SUFFICES ASSUME k + 1 <= Len(s) PROVE g[k + 1] = h[k + 1]
    OBVIOUS
  <2>1. k + 1 \in 1 .. Len(s) /\ (k + 1) - 1 = k /\ g[k] = h[k]
    BY <1>2
  <2> QED BY <2>1 DEF Trace
<1>3. Nat \subseteq T
  <2> HIDE DEF T
  <2> QED BY <1>1, <1>2, SetInduction
<1> QED BY <1>3

LEMMA ScannedTrace ==
    ASSUME NEW step, NEW x, NEW E, NEW s \in Seq(E), NEW h, Trace(h, step, x, s)
    PROVE  Scanned(step, x, s) = h[Len(s)]
<1>1. PICK g : Trace(g, step, x, s) /\ Scanned(step, x, s) = g[Len(s)]
  BY TraceExists
<1>2. g[Len(s)] = h[Len(s)]
  BY <1>1, TraceUnique, Len(s) \in 0 .. Len(s)
<1> QED BY <1>1, <1>2

LEMMA TraceTyped ==
    ASSUME NEW S, NEW E, NEW step \in [S \X E -> S], NEW x \in S, NEW s \in Seq(E),
           NEW h, Trace(h, step, x, s)
    PROVE  \A k \in 0 .. Len(s) : h[k] \in S
<1> DEFINE T == {k \in Nat : k <= Len(s) => h[k] \in S}
<1>1. 0 \in T
  BY DEF Trace
<1>2. ASSUME NEW k \in Nat, k \in T PROVE k + 1 \in T
  <2> SUFFICES ASSUME k + 1 <= Len(s) PROVE h[k + 1] \in S
    OBVIOUS
  <2>1. k + 1 \in 1 .. Len(s) /\ (k + 1) - 1 = k /\ h[k] \in S /\ s[k + 1] \in E
    BY <1>2
  <2> QED BY <2>1 DEF Trace
<1>3. Nat \subseteq T
  <2> HIDE DEF T
  <2> QED BY <1>1, <1>2, SetInduction
<1> QED BY <1>3

LEMMA ScannedTyped ==
    ASSUME NEW S, NEW E, NEW step \in [S \X E -> S], NEW x \in S, NEW s \in Seq(E)
    PROVE  Scanned(step, x, s) \in S
<1>1. PICK h : Trace(h, step, x, s) /\ Scanned(step, x, s) = h[Len(s)]
  BY TraceExists
<1>2. \A k \in 0 .. Len(s) : h[k] \in S
  BY <1>1, TraceTyped
<1> QED BY <1>1, <1>2, Len(s) \in 0 .. Len(s)

LEMMA ScannedEmpty ==
    ASSUME NEW step, NEW x
    PROVE  Scanned(step, x, <<>>) = x
<1>1. PICK h : Trace(h, step, x, <<>>) /\ Scanned(step, x, <<>>) = h[Len(<<>>)]
  BY TraceExists, <<>> \in Seq({})
<1> QED BY <1>1 DEF Trace

(* Scanning two sequences, one behind the other. *)
LEMMA ScannedConcat ==
    ASSUME NEW step, NEW x, NEW E, NEW s \in Seq(E), NEW t \in Seq(E)
    PROVE  Scanned(step, x, s \o t) = Scanned(step, Scanned(step, x, s), t)
<1>1. PICK h : Trace(h, step, x, s \o t) /\ Scanned(step, x, s \o t) = h[Len(s \o t)]
  BY TraceExists, s \o t \in Seq(E)
<1>2. Len(s \o t) = Len(s) + Len(t)
  OBVIOUS
<1>3. Trace(h, step, x, s)
  <2>1. \A k \in 1 .. Len(s) : k \in 1 .. Len(s \o t) /\ (s \o t)[k] = s[k]
    OBVIOUS
  <2> QED BY <1>1, <2>1 DEF Trace
<1>4. Scanned(step, x, s) = h[Len(s)]
  BY <1>3, ScannedTrace
<1> DEFINE g == [k \in 0 .. Len(t) |-> h[Len(s) + k]]
<1>5. Trace(g, step, h[Len(s)], t)
  <2>1. g[0] = h[Len(s)]
    OBVIOUS
  <2>2. ASSUME NEW k \in 1 .. Len(t) PROVE g[k] = step[<<g[k - 1], t[k]>>]
    <3>1. Len(s) + k \in 1 .. Len(s \o t) /\ (s \o t)[Len(s) + k] = t[k]
      OBVIOUS
    <3>2. h[Len(s) + k] = step[<<h[(Len(s) + k) - 1], t[k]>>]
      BY <1>1, <3>1 DEF Trace
    <3>3. (Len(s) + k) - 1 = Len(s) + (k - 1) /\ k - 1 \in 0 .. Len(t)
      OBVIOUS
    <3> QED BY <3>2, <3>3
  <2> HIDE DEF g
  <2> QED BY <2>1, <2>2 DEF Trace
<1>6. Scanned(step, h[Len(s)], t) = g[Len(t)]
  <2> HIDE DEF g
  <2> QED BY <1>5, ScannedTrace
<1> QED BY <1>1, <1>2, <1>4, <1>6

LEMMA ScannedOne ==
    ASSUME NEW step, NEW x, NEW e
    PROVE  Scanned(step, x, <<e>>) = step[<<x, e>>]
<1>1. PICK h : Trace(h, step, x, <<e>>) /\ Scanned(step, x, <<e>>) = h[Len(<<e>>)]
  BY TraceExists, <<e>> \in Seq({e})
<1> QED BY <1>1 DEF Trace

LEMMA ScannedAppend ==
    ASSUME NEW step, NEW x, NEW E, NEW s \in Seq(E), NEW e \in E
    PROVE  Scanned(step, x, Append(s, e)) = step[<<Scanned(step, x, s), e>>]
<1>1. PICK u \in Seq(E) : u = <<e>>
  <2>1. <<e>> \in Seq(E)
    OBVIOUS
  <2> QED BY <2>1
<1>2. Scanned(step, x, s \o u) = Scanned(step, Scanned(step, x, s), u)
  BY ScannedConcat
<1>3. Append(s, e) = s \o u
  BY <1>1
<1> QED BY <1>1, <1>2, <1>3, ScannedOne

-----------------------------------------------------------------------------
(***************************************************************************)
(* The folds of Literal, a byte or a text at a time.                       *)
(***************************************************************************)
LEMMA BytesOf ==
    /\ <<>> \in Bytes
    /\ \A c \in AnyByte : <<c>> \in Bytes
    /\ \A s, t \in Bytes : s \o t \in Bytes
    /\ {Quote, Backslash, Comma, Open, Close, LBrace, RBrace, Newline, EnByte} \subseteq AnyByte
BY LetterAssumption DEF Bytes, AnyByte, Special

LEMMA BytesConcat ==
    /\ \A s \in Bytes : s \o <<>> = s /\ <<>> \o s = s
    /\ \A s, t, u \in Bytes : (s \o t) \o u = s \o (t \o u)
BY ConcatEmptySeq, ConcatAssociative DEF Bytes

LEMMA AppendConcat ==
    ASSUME NEW E, NEW s \in Seq(E), NEW t \in Seq(E), NEW e \in E
    PROVE  s \o t \in Seq(E) /\ s \o Append(t, e) = Append(s \o t, e)
<1> DEFINE l == s \o Append(t, e)
           q == Append(s \o t, e)
<1>1. s \o t \in Seq(E) /\ Append(t, e) \in Seq(E) /\ l \in Seq(E) /\ q \in Seq(E)
  BY ConcatProperties, AppendProperties
<1>2. Len(l) = Len(q)
  BY <1>1
<1>3. \A i \in 1 .. Len(l) : l[i] = q[i]
  BY <1>1, <1>2
<1> HIDE DEF l, q
<1>4. l = q
  BY <1>1, <1>2, <1>3, SeqEqual
<1> QED BY <1>1, <1>4 DEF l, q

(* Replaced *)
LEMMA ReplacedFacts ==
    ASSUME NEW text \in [AnyByte -> Bytes]
    PROVE  /\ Replaced(<<>>, text) = <<>>
           /\ \A s \in Bytes : Replaced(s, text) \in Bytes
           /\ \A s \in Bytes, c \in AnyByte :
                 Replaced(Append(s, c), text) = Replaced(s, text) \o text[c]
<1> DEFINE step == [p \in Bytes \X AnyByte |-> p[1] \o text[p[2]]]
<1>1. step \in [Bytes \X AnyByte -> Bytes]
  BY BytesOf
<1>2. \A x \in Bytes, c \in AnyByte : step[<<x, c>>] = x \o text[c]
  OBVIOUS
<1>3. \A s : Replaced(s, text) = Scanned(step, <<>>, s)
  BY DEF Replaced
<1> HIDE DEF step
<1>4. \A s \in Bytes : Replaced(s, text) \in Bytes
  <2> SUFFICES ASSUME NEW s \in Bytes PROVE Replaced(s, text) \in Bytes
    OBVIOUS
  <2>1. s \in Seq(AnyByte) /\ <<>> \in Bytes
    BY BytesOf DEF Bytes
  <2>2. Scanned(step, <<>>, s) \in Bytes
    BY <1>1, <2>1, ScannedTyped
  <2> QED BY <1>3, <2>2
<1>5. ASSUME NEW s \in Bytes, NEW c \in AnyByte
      PROVE  Replaced(Append(s, c), text) = Replaced(s, text) \o text[c]
  <2>1. Scanned(step, <<>>, Append(s, c)) = step[<<Scanned(step, <<>>, s), c>>]
    BY ScannedAppend DEF Bytes
  <2>2. step[<<Replaced(s, text), c>>] = Replaced(s, text) \o text[c]
    BY <1>2, <1>4
  <2> QED BY <2>1, <2>2, <1>3
<1> QED BY <1>3, <1>4, <1>5, ScannedEmpty

(* QuotedRead *)
LEMMA QuotedByteTyped ==
    ASSUME NEW q \in QuotedState, NEW c \in AnyByte
    PROVE  QuotedByte(q, c) \in QuotedState
<1>1. q.read + 1 \in Nat /\ Append(q.text, c) \in Bytes /\ q.text \in Bytes
  BY DEF QuotedState, Bytes
<1> QED BY <1>1 DEF QuotedState, QuotedByte

LEMMA QuotedReadFacts ==
    ASSUME NEW q \in QuotedState
    PROVE  /\ QuotedRead(q, <<>>) = q
           /\ \A s \in Bytes : QuotedRead(q, s) \in QuotedState
           /\ \A s \in Bytes, c \in AnyByte :
                 QuotedRead(q, Append(s, c)) = QuotedByte(QuotedRead(q, s), c)
           /\ \A s, t \in Bytes : QuotedRead(q, s \o t) = QuotedRead(QuotedRead(q, s), t)
           /\ \A c \in AnyByte : QuotedRead(q, <<c>>) = QuotedByte(q, c)
<1> DEFINE step == [p \in QuotedState \X AnyByte |-> QuotedByte(p[1], p[2])]
<1>1. step \in [QuotedState \X AnyByte -> QuotedState]
  BY QuotedByteTyped
<1>2. \A x \in QuotedState, c \in AnyByte : step[<<x, c>>] = QuotedByte(x, c)
  OBVIOUS
<1>3. \A x, s : QuotedRead(x, s) = Scanned(step, x, s)
  BY DEF QuotedRead
<1> HIDE DEF step
<1>4. \A s \in Bytes : QuotedRead(q, s) \in QuotedState
  BY <1>1, <1>3, ScannedTyped DEF Bytes
<1>5. ASSUME NEW s \in Bytes, NEW c \in AnyByte
      PROVE  QuotedRead(q, Append(s, c)) = QuotedByte(QuotedRead(q, s), c)
  <2>1. Scanned(step, q, Append(s, c)) = step[<<Scanned(step, q, s), c>>]
    BY ScannedAppend DEF Bytes
  <2> QED BY <2>1, <1>2, <1>3, <1>4
<1>6. ASSUME NEW s \in Bytes, NEW t \in Bytes
      PROVE  QuotedRead(q, s \o t) = QuotedRead(QuotedRead(q, s), t)
  BY <1>3, ScannedConcat DEF Bytes
<1>7. \A c \in AnyByte : QuotedRead(q, <<c>>) = QuotedByte(q, c)
  BY <1>2, <1>3, ScannedOne
<1> QED BY <1>3, <1>4, <1>5, <1>6, <1>7, ScannedEmpty

(* Joined *)
LEMMA JoinedFacts ==
    /\ Joined(<<>>) = <<>>
    /\ \A ts \in Seq(Bytes) : Joined(ts) \in Bytes
    /\ \A ts \in Seq(Bytes), t \in Bytes :
          Joined(Append(ts, t)) = Joined(ts) \o (<<Comma>> \o t)
<1> DEFINE step == [p \in Bytes \X Bytes |-> p[1] \o <<Comma>> \o p[2]]
<1>1. \A x, y \in Bytes : x \o <<Comma>> \o y = x \o (<<Comma>> \o y) /\ x \o (<<Comma>> \o y) \in Bytes
  BY BytesOf, BytesConcat
<1>2. step \in [Bytes \X Bytes -> Bytes]
  BY BytesOf
<1>3. \A x, y \in Bytes : step[<<x, y>>] = x \o (<<Comma>> \o y)
  BY <1>1
<1>4. \A ts : Joined(ts) = Scanned(step, <<>>, ts)
  BY DEF Joined
<1> HIDE DEF step
<1>5. ASSUME NEW ts \in Seq(Bytes) PROVE Joined(ts) \in Bytes
  BY <1>2, <1>4, ScannedTyped, BytesOf
<1>6. ASSUME NEW ts \in Seq(Bytes), NEW t \in Bytes
      PROVE  Joined(Append(ts, t)) = Joined(ts) \o (<<Comma>> \o t)
  <2>1. Scanned(step, <<>>, Append(ts, t)) = step[<<Scanned(step, <<>>, ts), t>>]
    BY ScannedAppend
  <2>2. step[<<Joined(ts), t>>] = Joined(ts) \o (<<Comma>> \o t)
    BY <1>3, <1>5
  <2> QED BY <2>1, <2>2, <1>4
<1> QED BY <1>4, <1>5, <1>6, ScannedEmpty

LEMMA JoinedConcat ==
    ASSUME NEW s \in Seq(Bytes), NEW t \in Seq(Bytes)
    PROVE  Joined(s \o t) = Joined(s) \o Joined(t)
<1> DEFINE T == {u \in Seq(Bytes) : Joined(s \o u) = Joined(s) \o Joined(u)}
<1>1. <<>> \in T
  <2>1. s \o <<>> = s
    BY ConcatEmptySeq
  <2>2. Joined(s) \o <<>> = Joined(s)
    BY JoinedFacts, BytesConcat
  <2>3. Joined(s \o <<>>) = Joined(s) \o Joined(<<>>)
    BY <2>1, <2>2, JoinedFacts, Zenon
  <2>4. <<>> \in Seq(Bytes)
    OBVIOUS
  <2> QED BY <2>3, <2>4
<1>2. ASSUME NEW u \in Seq(Bytes), NEW e \in Bytes, u \in T
      PROVE  Append(u, e) \in T
  <2> DEFINE c == <<Comma>> \o e
  <2>1. /\ s \o u \in Seq(Bytes) /\ Append(s \o u, e) = s \o Append(u, e)
        /\ Append(u, e) \in Seq(Bytes)
    <3>1. s \o u \in Seq(Bytes) /\ s \o Append(u, e) = Append(s \o u, e)
      BY AppendConcat
    <3>2. Append(u, e) \in Seq(Bytes)
      OBVIOUS
    <3> QED BY <3>1, <3>2
  <2>2. c \in Bytes /\ Joined(s) \in Bytes /\ Joined(u) \in Bytes
    BY BytesOf, JoinedFacts
  <2>3. Joined(Append(s \o u, e)) = Joined(s \o u) \o c
    BY <2>1, JoinedFacts
  <2>4. Joined(Append(u, e)) = Joined(u) \o c
    BY JoinedFacts
  <2>5. (Joined(s) \o Joined(u)) \o c = Joined(s) \o (Joined(u) \o c)
    BY <2>2, BytesConcat
  <2> QED BY <1>2, <2>1, <2>3, <2>4, <2>5
<1>3. Seq(Bytes) \subseteq T
  <2> HIDE DEF T
  <2> QED BY <1>1, <1>2, SeqInduction
<1> QED BY <1>3

(* PgRead *)
LEMMA PgByteTyped ==
    ASSUME NEW q \in PgState, NEW c \in AnyByte
    PROVE  PgByte(q, c) \in PgState
<1>1. /\ q.cols \in Seq(Bytes \cup {Null}) /\ q.text \in Bytes
      /\ Append(q.text, c) \in Bytes
  BY DEF PgState, Bytes
<1>2. Append(q.cols, Column(q)) \in Seq(Bytes \cup {Null})
  BY <1>1 DEF Column
<1>3. <<>> \in Bytes
  BY BytesOf
<1> QED BY <1>1, <1>2, <1>3 DEF PgState, PgByte

LEMMA PgReadFacts ==
    ASSUME NEW q \in PgState
    PROVE  /\ PgRead(q, <<>>) = q
           /\ \A s \in Bytes : PgRead(q, s) \in PgState
           /\ \A s \in Bytes, c \in AnyByte :
                 PgRead(q, Append(s, c)) = PgByte(PgRead(q, s), c)
           /\ \A s, t \in Bytes : PgRead(q, s \o t) = PgRead(PgRead(q, s), t)
           /\ \A c \in AnyByte : PgRead(q, <<c>>) = PgByte(q, c)
<1> DEFINE step == [p \in PgState \X AnyByte |-> PgByte(p[1], p[2])]
<1>1. step \in [PgState \X AnyByte -> PgState]
  BY PgByteTyped
<1>2. \A x \in PgState, c \in AnyByte : step[<<x, c>>] = PgByte(x, c)
  OBVIOUS
<1>3. \A x, s : PgRead(x, s) = Scanned(step, x, s)
  BY DEF PgRead
<1> HIDE DEF step
<1>4. \A s \in Bytes : PgRead(q, s) \in PgState
  BY <1>1, <1>3, ScannedTyped DEF Bytes
<1>5. ASSUME NEW s \in Bytes, NEW c \in AnyByte
      PROVE  PgRead(q, Append(s, c)) = PgByte(PgRead(q, s), c)
  <2>1. Scanned(step, q, Append(s, c)) = step[<<Scanned(step, q, s), c>>]
    BY ScannedAppend DEF Bytes
  <2> QED BY <2>1, <1>2, <1>3, <1>4
<1>6. ASSUME NEW s \in Bytes, NEW t \in Bytes
      PROVE  PgRead(q, s \o t) = PgRead(PgRead(q, s), t)
  BY <1>3, ScannedConcat DEF Bytes
<1>7. \A c \in AnyByte : PgRead(q, <<c>>) = PgByte(q, c)
  BY <1>2, <1>3, ScannedOne
<1> QED BY <1>3, <1>4, <1>5, <1>6, <1>7, ScannedEmpty

-----------------------------------------------------------------------------
(***************************************************************************)
(* What __intrinsic_readString returns, whatever it is given.              *)
(***************************************************************************)
(* The state of the quoted reader after k bytes behind the quote.          *)
QuotedAfter(q, s) ==
    /\ q.mode \in {"inside", "quote", "escape"} => q.read = Len(s) + 1
    /\ q.mode = "quote" => s # <<>> /\ s[Len(s)] = Quote
    /\ q.mode \in {"closed", "failed"} => q.read <= Len(s)
    /\ q.read > 0

LEMMA QuotedReadBounds ==
    \A s \in Bytes : QuotedAfter(QuotedRead(QuotedStart, s), s)
<1> DEFINE T == {s \in Bytes : QuotedAfter(QuotedRead(QuotedStart, s), s)}
<1>0. QuotedStart \in QuotedState
  BY BytesOf DEF QuotedStart, QuotedState
<1>1. <<>> \in T
  <2>1. QuotedRead(QuotedStart, <<>>) = QuotedStart
    BY <1>0, QuotedReadFacts
  <2> QED BY <2>1, BytesOf DEF QuotedAfter, QuotedStart
<1>2. ASSUME NEW s \in Seq(AnyByte), NEW c \in AnyByte, s \in T PROVE Append(s, c) \in T
  <2> DEFINE q == QuotedRead(QuotedStart, s)
  <2>1. s \in Bytes /\ Append(s, c) \in Bytes /\ q \in QuotedState
    BY <1>0, QuotedReadFacts DEF Bytes
  <2>2. QuotedRead(QuotedStart, Append(s, c)) = QuotedByte(q, c)
    BY <2>1, <1>0, QuotedReadFacts
  <2>3. QuotedAfter(q, s)
    BY <1>2
  <2>4. Len(Append(s, c)) = Len(s) + 1 /\ Append(s, c)[Len(s) + 1] = c /\ Append(s, c) # <<>> /\ Len(s) \in Nat
    OBVIOUS
  <2> HIDE DEF q
  <2>5. QuotedAfter(QuotedByte(q, c), Append(s, c))
    BY <2>1, <2>3, <2>4 DEF QuotedAfter, QuotedByte, QuotedState
  <2> QED BY <2>1, <2>2, <2>5
<1>3. Seq(AnyByte) \subseteq T
  <2> HIDE DEF T
  <2> QED BY <1>1, <1>2, SeqInduction
<1> QED BY <1>3 DEF Bytes

(* Until stops at the first byte of B. *)
LEMMA UntilFirst ==
    ASSUME NEW b \in Bytes, NEW B, NEW n \in 1 .. Len(b),
           b[n] \in B, \A j \in 1 .. n - 1 : b[j] \notin B
    PROVE  Until(b, B) = [res |-> SubSeq(b, 1, n - 1), read |-> n - 1, ok |-> TRUE]
<1> DEFINE First(k) == k \in DOMAIN b /\ b[k] \in B /\ \A j \in 1 .. k - 1 : b[j] \notin B
           i == CHOOSE k \in DOMAIN b : b[k] \in B /\ \A j \in 1 .. k - 1 : b[j] \notin B
<1>1. DOMAIN b = 1 .. Len(b) /\ Len(b) \in Nat
  BY DEF Bytes
<1>2. First(n)
  BY <1>1
<1>3. First(i)
  BY <1>2, Zenon
<1>4. i = n
  <2> HIDE DEF i
  <2>1. i \in 1 .. Len(b)
    BY <1>1, <1>3
  <2>2. ~ (i < n)
    BY <2>1, <1>3
  <2>3. ~ (n < i)
    BY <2>1, <1>3
  <2> QED BY <2>1, <2>2, <2>3
<1>5. Until(b, B) = [res |-> SubSeq(b, 1, i - 1), read |-> i - 1, ok |-> TRUE]
  <2>1. Has(b, B)
    BY <1>1 DEF Has
  <2> QED BY <2>1, Zenon DEF Until
<1> HIDE DEF i
<1> QED BY <1>4, <1>5

LEMMA UntilFacts ==
    ASSUME NEW b \in Bytes, NEW B
    PROVE  \/ /\ ~Has(b, B)
              /\ Until(b, B) = Failed
           \/ \E n \in 1 .. Len(b) :
                 /\ b[n] \in B
                 /\ \A j \in 1 .. n - 1 : b[j] \notin B
                 /\ Until(b, B) = [res |-> SubSeq(b, 1, n - 1), read |-> n - 1, ok |-> TRUE]
<1>1. CASE ~Has(b, B)
  BY <1>1 DEF Until
<1>2. CASE Has(b, B)
  <2> DEFINE T == {k \in 1 .. Len(b) : b[k] \in B}
  <2>1. T # {} /\ T \in SUBSET Nat
    BY <1>2 DEF Has, Bytes
  <2>2. PICK n \in T : \A m \in T : n <= m
    <3> HIDE DEF T
    <3> QED BY <2>1, LeastElement
  <2>3. n \in 1 .. Len(b) /\ b[n] \in B /\ \A j \in 1 .. n - 1 : b[j] \notin B
    BY <2>2 DEF Bytes
  <2>4. Until(b, B) = [res |-> SubSeq(b, 1, n - 1), read |-> n - 1, ok |-> TRUE]
    BY <2>3, UntilFirst
  <2> QED BY <2>3, <2>4
<1> QED BY <1>1, <1>2

LEMMA UnquotedFacts ==
    ASSUME NEW b \in Bytes, b # <<>>
    PROVE  /\ Unquoted(b) \in [res: Bytes, read: 0 .. Len(b), ok: BOOLEAN]
           /\ ~Unquoted(b).ok => Unquoted(b) = Failed
           /\ Unquoted(b).ok => Unquoted(b).read > 0
           /\ Unquoted(b).ok /\ b[Len(b)] # Quote => Unquoted(b).read < Len(b)
<1> DEFINE q == QuotedRead(QuotedStart, Tail(b))
<1>1. /\ Tail(b) \in Bytes /\ Len(Tail(b)) = Len(b) - 1 /\ Len(b) \in Nat \ {0}
      /\ Tail(b) # <<>> => Tail(b)[Len(Tail(b))] = b[Len(b)]
  BY DEF Bytes
<1>2. q \in QuotedState
  BY <1>1, QuotedReadFacts, BytesOf DEF QuotedStart, QuotedState
<1>3. QuotedAfter(q, Tail(b))
  BY <1>1, QuotedReadBounds
<1>4. Unquoted(b) = IF q.mode \in {"quote", "closed"} THEN [res |-> q.text, read |-> q.read, ok |-> TRUE]
                    ELSE Failed
  BY DEF Unquoted
<1> HIDE DEF q
<1> QED BY <1>1, <1>2, <1>3, <1>4, BytesOf DEF Failed, QuotedAfter, QuotedState

(* What Read returns, and that it stops in front of the last byte of a     *)
(* record, which is a parenthesis.                                         *)
LEMMA ReadFacts ==
    ASSUME NEW b \in Bytes, b # <<>>, NEW delim
    PROVE  /\ Read(b, delim) \in [res: Bytes, read: 0 .. Len(b), ok: BOOLEAN]
           /\ ~Read(b, delim).ok => Read(b, delim) = Failed
           /\ Read(b, delim).ok /\ b[Len(b)] # Quote => Read(b, delim).read < Len(b)
<1>1. Len(b) \in Nat \ {0} /\ Head(b) = b[1]
  BY DEF Bytes
<1>2. CASE Head(b) = Quote
  BY <1>2, UnquotedFacts DEF Read
<1>3. CASE Head(b) # Quote
  <2>1. Read(b, delim) = Until(b, {delim, Comma})
    BY <1>3 DEF Read
  <2>2. CASE Until(b, {delim, Comma}) = Failed
    <3>1. Read(b, delim) = [res |-> <<>>, read |-> 0, ok |-> FALSE]
      BY <2>1, <2>2 DEF Failed
    <3>2. 0 \in 0 .. Len(b) /\ <<>> \in Bytes
      BY <1>1, BytesOf
    <3> QED BY <3>1, <3>2 DEF Failed
  <2>3. ASSUME NEW n \in 1 .. Len(b),
               Until(b, {delim, Comma}) = [res |-> SubSeq(b, 1, n - 1), read |-> n - 1, ok |-> TRUE]
        PROVE  /\ Read(b, delim) \in [res: Bytes, read: 0 .. Len(b), ok: BOOLEAN]
               /\ Read(b, delim).ok /\ Read(b, delim).read < Len(b)
    <3>1. SubSeq(b, 1, n - 1) \in Bytes
      BY <1>1 DEF Bytes
    <3>2. n - 1 \in 0 .. Len(b) /\ n - 1 < Len(b)
      BY <1>1
    <3>3. Read(b, delim) = [res |-> SubSeq(b, 1, n - 1), read |-> n - 1, ok |-> TRUE]
      BY <2>1, <2>3
    <3> HIDE DEF Failed
    <3> QED BY <3>1, <3>2, <3>3
  <2> QED BY <2>2, <2>3, UntilFacts
<1> QED BY <1>2, <1>3

-----------------------------------------------------------------------------
(***************************************************************************)
(* What it returns for a text that was quoted.                             *)
(***************************************************************************)
QuotedAlready(s, text) ==
    [mode |-> "inside", text |-> s, read |-> Len(Replaced(s, text)) + 1]

(* text puts a quote or a backslash behind itself or behind a backslash. *)
Quoting(text) ==
    /\ text \in [AnyByte -> Bytes]
    /\ \A c \in AnyByte : \/ c \notin {Quote, Backslash} /\ text[c] = <<c>>
                          \/ c \in {Quote, Backslash} /\ text[c] \in {<<c, c>>, <<Backslash, c>>}

LEMMA QuotedReadTwo ==
    ASSUME NEW q \in QuotedState, NEW c \in AnyByte, NEW d \in AnyByte
    PROVE  QuotedRead(q, <<c, d>>) = QuotedByte(QuotedByte(q, c), d)
<1>1. <<c, d>> = Append(<<c>>, d) /\ <<c>> \in Bytes
  BY BytesOf
<1>2. QuotedRead(q, Append(<<c>>, d)) = QuotedByte(QuotedRead(q, <<c>>), d)
  BY <1>1, QuotedReadFacts
<1> QED BY <1>1, <1>2, QuotedReadFacts

LEMMA QuotedReadText ==
    ASSUME NEW text, Quoting(text)
    PROVE  \A s \in Bytes :
              QuotedRead(QuotedStart, Replaced(s, text)) = QuotedAlready(s, text)
<1> DEFINE T == {s \in Bytes : QuotedRead(QuotedStart, Replaced(s, text)) = QuotedAlready(s, text)}
<1>0. QuotedStart \in QuotedState /\ text \in [AnyByte -> Bytes]
  BY BytesOf DEF QuotedStart, QuotedState, Quoting
<1>1. <<>> \in T
  <2>1. Replaced(<<>>, text) = <<>> /\ <<>> \in Bytes
    BY <1>0, ReplacedFacts, BytesOf
  <2>2. QuotedRead(QuotedStart, <<>>) = QuotedStart
    BY <1>0, QuotedReadFacts
  <2>3. QuotedAlready(<<>>, text) = QuotedStart
    BY <2>1 DEF QuotedAlready, QuotedStart
  <2> QED BY <2>1, <2>2, <2>3
<1>2. ASSUME NEW s \in Seq(AnyByte), NEW c \in AnyByte, s \in T PROVE Append(s, c) \in T
  <2> DEFINE q == QuotedAlready(s, text)
             w == Replaced(s, text)
             p == QuotedAlready(Append(s, c), text)
  <2>1. s \in Bytes /\ Append(s, c) \in Bytes /\ w \in Bytes /\ text[c] \in Bytes
    BY <1>0, ReplacedFacts DEF Bytes
  <2>2. q \in QuotedState
    BY <2>1 DEF QuotedAlready, QuotedState, Bytes
  <2>3. Replaced(Append(s, c), text) = w \o text[c]
    BY <2>1, <1>0, ReplacedFacts
  <2>4. QuotedRead(QuotedStart, w \o text[c]) = QuotedRead(q, text[c])
    BY <2>1, <1>0, <1>2, QuotedReadFacts
  <2>5. Len(w \o text[c]) = Len(w) + Len(text[c]) /\ Len(w) \in Nat
    BY <2>1 DEF Bytes
  <2>6. p = [mode |-> "inside", text |-> Append(s, c), read |-> (Len(w) + Len(text[c])) + 1]
    BY <2>3, <2>5 DEF QuotedAlready
  <2>7. q = [mode |-> "inside", text |-> s, read |-> Len(w) + 1]
    BY DEF QuotedAlready
  <2> HIDE DEF q, w, p
  <2>8. CASE c \notin {Quote, Backslash} /\ text[c] = <<c>>
    <3>1. QuotedRead(q, <<c>>) = QuotedByte(q, c)
      BY <2>2, QuotedReadFacts
    <3>2. QuotedByte(q, c) = p
      BY <2>5, <2>6, <2>7, <2>8 DEF QuotedByte
    <3> QED BY <2>1, <2>3, <2>4, <2>8, <3>1, <3>2 DEF p
  <2>9. CASE c \in {Quote, Backslash} /\ text[c] \in {<<c, c>>, <<Backslash, c>>}
    <3>1. PICK d \in {c, Backslash} : text[c] = <<d, c>>
      BY <2>9
    <3>2. d \in AnyByte /\ Len(text[c]) = 2
      BY <3>1, BytesOf
    <3>3. QuotedRead(q, <<d, c>>) = QuotedByte(QuotedByte(q, d), c)
      BY <2>2, <3>2, QuotedReadTwo
    <3>4. QuotedByte(q, d) = [mode |-> IF d = Quote THEN "quote" ELSE "escape", text |-> s, read |-> (Len(w) + 1) + 1]
      BY <2>7, <2>9, <3>1, SpecialAssumption DEF QuotedByte
    <3>5. QuotedByte(QuotedByte(q, d), c) = p
      <4> DEFINE m == QuotedByte(q, d)
      <4>1. /\ \/ m.mode = "quote" /\ c = Quote
               \/ m.mode = "escape" /\ c \in {Quote, Backslash}
            /\ m.text = s /\ m.read = (Len(w) + 1) + 1
        BY <2>9, <3>1, <3>4, SpecialAssumption
      <4> HIDE DEF m
      <4>2. QuotedByte(m, c) = [mode |-> "inside", text |-> Append(s, c), read |-> ((Len(w) + 1) + 1) + 1]
        BY <4>1 DEF QuotedByte
      <4> QED BY <4>2, <2>5, <2>6, <3>2 DEF m
    <3> QED BY <2>1, <2>3, <2>4, <3>1, <3>3, <3>5 DEF p
  <2> QED BY <2>8, <2>9 DEF Quoting
<1>3. Seq(AnyByte) \subseteq T
  <2> HIDE DEF T
  <2> QED BY <1>1, <1>2, SeqInduction
<1> QED BY <1>3 DEF Bytes

LEMMA ClosedStays ==
    ASSUME NEW q \in QuotedState, q.mode \in {"closed", "failed"}
    PROVE  \A s \in Bytes : QuotedRead(q, s) = q
<1> DEFINE T == {s \in Bytes : QuotedRead(q, s) = q}
<1>1. <<>> \in T
  BY QuotedReadFacts, BytesOf
<1>2. ASSUME NEW s \in Seq(AnyByte), NEW c \in AnyByte, s \in T PROVE Append(s, c) \in T
  <2>1. s \in Bytes /\ Append(s, c) \in Bytes
    BY DEF Bytes
  <2>2. QuotedRead(q, Append(s, c)) = QuotedByte(q, c)
    BY <1>2, <2>1, QuotedReadFacts
  <2>3. QuotedByte(q, c) = q
    BY DEF QuotedByte
  <2> QED BY <2>1, <2>2, <2>3
<1>3. Seq(AnyByte) \subseteq T
  <2> HIDE DEF T
  <2> QED BY <1>1, <1>2, SeqInduction
<1> QED BY <1>3 DEF Bytes

(* A text that is quoted is read to the closing quote, whatever follows.   *)
LEMMA ReadQuoted ==
    ASSUME NEW text, Quoting(text), NEW s \in Bytes, NEW rest \in Bytes,
           rest # <<>> => rest[1] # Quote, NEW delim
    PROVE  LET lit == Surrounded(Quote, Replaced(s, text), Quote)
           IN  /\ lit \in Bytes
               /\ Read(lit \o rest, delim) = [res |-> s, read |-> Len(lit), ok |-> TRUE]
<1> DEFINE w == Replaced(s, text)
           lit == Surrounded(Quote, w, Quote)
           b == lit \o rest
           q == [mode |-> "quote", text |-> s, read |-> Len(w) + 2]
<1>1. /\ QuotedStart \in QuotedState /\ w \in Bytes /\ <<Quote>> \in Bytes /\ <<>> \in Bytes
      /\ Quote \in AnyByte
  BY ReplacedFacts, BytesOf DEF QuotedStart, QuotedState, Quoting
<1>2. /\ lit \in Bytes /\ Len(lit) = Len(w) + 2 /\ Len(w) \in Nat /\ b \in Bytes
      /\ w \o <<Quote>> \in Bytes
  BY <1>1 DEF Surrounded, Bytes
<1>3. Head(b) = Quote /\ Tail(b) = (w \o <<Quote>>) \o rest
  <2>1. lit = <<Quote>> \o (w \o <<Quote>>)
    BY <1>1, BytesConcat DEF Surrounded
  <2>2. b = <<Quote>> \o ((w \o <<Quote>>) \o rest)
    BY SMTT(30), <1>1, <1>2, <2>1, BytesConcat
  <2>3. (w \o <<Quote>>) \o rest \in Bytes
    BY <1>2, BytesOf
  <2>4. \A u \in Seq(AnyByte) : Head(<<Quote>> \o u) = Quote /\ Tail(<<Quote>> \o u) = u
    OBVIOUS
  <2> QED BY <2>2, <2>3, <2>4 DEF Bytes
<1>4. q \in QuotedState
  BY <1>2 DEF QuotedState
<1>5. QuotedRead(QuotedStart, w \o <<Quote>>) = q
  <2>1. QuotedRead(QuotedStart, w) = [mode |-> "inside", text |-> s, read |-> Len(w) + 1]
    BY QuotedReadText DEF QuotedAlready
  <2>2. [mode |-> "inside", text |-> s, read |-> Len(w) + 1] \in QuotedState
    BY <1>2 DEF QuotedState
  <2>3. QuotedByte([mode |-> "inside", text |-> s, read |-> Len(w) + 1], Quote) = q
    <3> DEFINE p == [mode |-> "inside", text |-> s, read |-> Len(w) + 1]
    <3>1. p.mode = "inside" /\ p.text = s /\ p.read = Len(w) + 1
      BY <1>2
    <3> HIDE DEF p
    <3>2. QuotedByte(p, Quote) = [mode |-> "quote", text |-> s, read |-> (Len(w) + 1) + 1]
      BY <3>1, SpecialAssumption DEF QuotedByte
    <3>3. (Len(w) + 1) + 1 = Len(w) + 2
      BY <1>2
    <3> QED BY <3>2, <3>3 DEF p
  <2>4. QuotedRead([mode |-> "inside", text |-> s, read |-> Len(w) + 1], <<Quote>>) = q
    BY <1>1, <2>2, <2>3, QuotedReadFacts
  <2> QED BY <1>1, <2>1, <2>4, QuotedReadFacts
<1>6. QuotedRead(QuotedStart, Tail(b)) = QuotedRead(q, rest)
  <2>1. QuotedRead(QuotedStart, (w \o <<Quote>>) \o rest)
          = QuotedRead(QuotedRead(QuotedStart, w \o <<Quote>>), rest)
    BY <1>1, <1>2, QuotedReadFacts
  <2> QED BY <2>1, <1>3, <1>5
<1>7. QuotedRead(q, rest) \in {q, [q EXCEPT !.mode = "closed"]}
  <2>1. CASE rest = <<>>
    BY <2>1, <1>4, QuotedReadFacts
  <2>2. CASE rest # <<>>
    <3> DEFINE p == [q EXCEPT !.mode = "closed"]
    <3>1. /\ rest[1] \in AnyByte /\ rest[1] # Quote /\ Tail(rest) \in Bytes /\ <<rest[1]>> \in Bytes
          /\ rest = <<rest[1]>> \o Tail(rest)
      BY <2>2 DEF Bytes
    <3>2. p \in QuotedState /\ p.mode = "closed"
      BY <1>2 DEF QuotedState
    <3>3. QuotedByte(q, rest[1]) = p
      BY <3>1 DEF QuotedByte
    <3>4. QuotedRead(q, <<rest[1]>>) = p
      BY <3>1, <3>3, <1>4, QuotedReadFacts
    <3>5. QuotedRead(p, Tail(rest)) = p
      BY <3>1, <3>2, ClosedStays
    <3>6. QuotedRead(q, <<rest[1]>> \o Tail(rest)) = QuotedRead(QuotedRead(q, <<rest[1]>>), Tail(rest))
      BY <3>1, <1>4, QuotedReadFacts
    <3> QED BY <3>1, <3>4, <3>5, <3>6
  <2> QED BY <2>1, <2>2
<1>8. Read(b, delim) = [res |-> s, read |-> Len(w) + 2, ok |-> TRUE]
  <2>1. Read(b, delim) = Unquoted(b)
    BY <1>3 DEF Read
  <2> DEFINE r == QuotedRead(QuotedStart, Tail(b))
  <2>2. r.mode \in {"quote", "closed"} /\ r.text = s /\ r.read = Len(w) + 2
    BY <1>6, <1>7
  <2>3. Unquoted(b) = IF r.mode \in {"quote", "closed"} THEN [res |-> r.text, read |-> r.read, ok |-> TRUE]
                      ELSE Failed
    BY DEF Unquoted
  <2> HIDE DEF r
  <2> QED BY <2>1, <2>2, <2>3
<1> QED BY <1>2, <1>8

LEMMA QuotingTexts == Quoting(Doubled) /\ Quoting(Escaped)
<1>1. \A c \in AnyByte : <<c>> \in Bytes /\ <<c, c>> \in Bytes /\ <<Backslash, c>> \in Bytes
  <2>1. \A c, d \in AnyByte : <<d, c>> = <<d>> \o <<c>>
    OBVIOUS
  <2>2. \A c, d \in AnyByte : <<d>> \o <<c>> \in Bytes
    BY BytesOf
  <2>3. Backslash \in AnyByte /\ \A c \in AnyByte : <<c>> \in Bytes
    BY BytesOf
  <2> QED BY <2>1, <2>2, <2>3, Zenon
<1>2. \A c \in AnyByte : /\ Doubled[c] = IF c \in {Quote, Backslash} THEN <<c, c>> ELSE <<c>>
                        /\ Escaped[c] = IF c \in {Quote, Backslash} THEN <<Backslash, c>> ELSE <<c>>
  BY DEF Doubled, Escaped
<1>3. Doubled \in [AnyByte -> Bytes] /\ Escaped \in [AnyByte -> Bytes]
  BY <1>1 DEF Doubled, Escaped
<1> QED BY <1>2, <1>3 DEF Quoting

(* A column as PostgreSQL writes it is read as it was, up to the comma or  *)
(* the parenthesis behind it, which stays; a null gives the empty text.    *)
LEMMA ReadColumn ==
    ASSUME NEW c \in Bytes \cup {Null}, NEW rest \in Bytes,
           rest # <<>>, rest[1] \in {Comma, Close}
    PROVE  /\ PgColumn(c) \in Bytes
           /\ Read(PgColumn(c) \o rest, Close)
                = [res |-> IF c = Null THEN <<>> ELSE c, read |-> Len(PgColumn(c)), ok |-> TRUE]
<1>0. rest[1] # Quote /\ Null \notin Bytes /\ Len(rest) \in Nat \ {0} /\ <<>> \in Bytes
  BY SpecialAssumption, NullAssumption, BytesOf DEF Bytes
<1>1. CASE c \in Bytes /\ (c = <<>> \/ Has(c, Special \ {LBrace, RBrace}))
  <2>1. PgColumn(c) = Surrounded(Quote, Replaced(c, Doubled), Quote)
    BY <1>0, <1>1 DEF PgColumn
  <2> QED BY <1>0, <1>1, <2>1, ReadQuoted, QuotingTexts
<1>2. CASE c = Null \/ (c # <<>> /\ ~Has(c, Special \ {LBrace, RBrace}))
  <2> DEFINE t == IF c = Null THEN <<>> ELSE c
             b == t \o rest
  <2>1. PgColumn(c) = t /\ t \in Bytes
    BY <1>0, <1>2 DEF PgColumn
  <2>2. \A i \in 1 .. Len(t) : t[i] \notin {Quote, Close, Comma}
    <3>1. {Quote, Close, Comma} \subseteq Special \ {LBrace, RBrace}
      BY SpecialAssumption DEF Special
    <3> QED BY <1>2, <3>1, <2>1 DEF Has, Bytes
  <2> HIDE DEF t
  <2>3. /\ b \in Bytes /\ Len(t) \in Nat /\ Len(b) = Len(t) + Len(rest) /\ b # <<>>
        /\ \A i \in 1 .. Len(t) : b[i] = t[i]
        /\ b[Len(t) + 1] = rest[1]
    BY <2>1, <1>0 DEF Bytes
  <2>4. Head(b) # Quote
    <3>1. Head(b) = b[1]
      BY <2>3 DEF Bytes
    <3> QED BY <3>1, <2>2, <2>3, <1>0
  <2>5. SubSeq(b, 1, Len(t)) = t
    <3>1. \A u, v \in Seq(AnyByte) : SubSeq(u \o v, 1, Len(u)) = u
      OBVIOUS
    <3> QED BY <3>1, <2>1 DEF Bytes
  <2>6. Until(b, {Close, Comma}) = [res |-> SubSeq(b, 1, (Len(t) + 1) - 1), read |-> (Len(t) + 1) - 1, ok |-> TRUE]
    <3>1. Len(t) + 1 \in 1 .. Len(b)
      BY <2>3, <1>0
    <3>2. \A j \in 1 .. (Len(t) + 1) - 1 : b[j] \notin {Close, Comma}
      BY <2>2, <2>3
    <3> HIDE DEF b
    <3> QED BY <3>1, <3>2, <2>3, UntilFirst
  <2>7. (Len(t) + 1) - 1 = Len(t)
    BY <2>3
  <2>8. Read(b, Close) = Until(b, {Close, Comma})
    BY <2>4 DEF Read
  <2>9. Read(b, Close) = [res |-> t, read |-> Len(t), ok |-> TRUE]
    BY <2>5, <2>6, <2>7, <2>8
  <2> QED BY <2>1, <2>9 DEF t
<1>3. \/ c \in Bytes /\ (c = <<>> \/ Has(c, Special \ {LBrace, RBrace}))
      \/ c = Null \/ (c # <<>> /\ ~Has(c, Special \ {LBrace, RBrace}))
  OBVIOUS
<1> QED BY <1>1, <1>2, <1>3, Zenon

-----------------------------------------------------------------------------
(***************************************************************************)
(* Where the columns of a record are.                                      *)
(***************************************************************************)
ColumnText == Bytes \cup {Null}

LEMMA Suffix ==
    ASSUME NEW u \in Bytes, NEW v \in Bytes
    PROVE  SubSeq(u \o v, Len(u) + 1, Len(u \o v)) = v
<1> DEFINE w == SubSeq(u \o v, Len(u) + 1, Len(u \o v))
<1>1. w \in Seq(AnyByte) /\ v \in Seq(AnyByte) /\ Len(w) = Len(v)
  BY DEF Bytes
<1>2. \A i \in 1 .. Len(w) : w[i] = v[i]
  BY <1>1 DEF Bytes
<1> HIDE DEF w
<1>3. w = v
  BY <1>1, <1>2, SeqEqual
<1> QED BY <1>3 DEF w

LEMMA JoinedHead ==
    ASSUME NEW ts \in Seq(Bytes), ts # <<>>
    PROVE  Joined(ts) # <<>> /\ Joined(ts)[1] = Comma
<1>1. PICK h \in Bytes, t \in Seq(Bytes) : ts = <<h>> \o t
  <2>1. Head(ts) \in Bytes /\ Tail(ts) \in Seq(Bytes) /\ ts = <<Head(ts)>> \o Tail(ts)
    OBVIOUS
  <2> QED BY <2>1
<1>2. Joined(<<h>>) = <<Comma>> \o h
  <2>1. Joined(Append(<<>>, h)) = Joined(<<>>) \o (<<Comma>> \o h)
    <3>1. <<>> \in Seq(Bytes)
      OBVIOUS
    <3> QED BY <3>1, JoinedFacts
  <2>2. <<Comma>> \o h \in Bytes
    BY BytesOf
  <2>3. Append(<<>>, h) = <<h>>
    OBVIOUS
  <2> QED BY <2>1, <2>2, <2>3, JoinedFacts, BytesConcat
<1>3. Joined(ts) = (<<Comma>> \o h) \o Joined(t)
  <2>1. <<h>> \in Seq(Bytes)
    OBVIOUS
  <2>2. Joined(<<h>> \o t) = Joined(<<h>>) \o Joined(t)
    BY <2>1, JoinedConcat
  <2> QED BY <1>1, <1>2, <2>2
<1>4. Joined(t) \in Bytes /\ <<Comma>> \o h \in Bytes /\ (<<Comma>> \o h)[1] = Comma /\ Len(<<Comma>> \o h) > 0
  BY JoinedFacts, BytesOf DEF Bytes
<1> QED BY <1>3, <1>4 DEF Bytes

LEMMA PgColumnTyped == \A c \in ColumnText : PgColumn(c) \in Bytes
<1>1. <<Close>> \in Bytes /\ <<Close>> # <<>> /\ <<Close>>[1] = Close
  BY BytesOf
<1> QED BY <1>1, ReadColumn DEF ColumnText

LEMMA ColumnsTyped ==
    ASSUME NEW cols \in Seq(ColumnText)
    PROVE  /\ Columns(cols) \in Seq(Bytes) /\ Len(Columns(cols)) = Len(cols)
           /\ \A j \in 1 .. Len(cols) : Columns(cols)[j] = PgColumn(cols[j])
BY PgColumnTyped DEF Columns

(* The commas are counted in front of the columns: the first one takes the *)
(* place of the parenthesis.                                               *)
LEMMA RecordShape ==
    ASSUME NEW cols \in Seq(ColumnText), cols # <<>>
    PROVE  LET s == PgRecord(cols)
               R == Joined(Columns(cols)) \o <<Close>>
           IN  /\ s \in Bytes /\ R \in Bytes /\ Len(s) = Len(R) /\ Len(s) >= 2
               /\ s[1] = Open /\ s[Len(s)] = Close
               /\ \A i \in 2 .. Len(s) : s[i] = R[i]
<1> DEFINE J == Joined(Columns(cols))
           s == PgRecord(cols)
           R == J \o <<Close>>
<1>1. Columns(cols) \in Seq(Bytes) /\ Columns(cols) # <<>>
  BY ColumnsTyped
<1>2. J \in Bytes /\ J # <<>>
  BY <1>1, JoinedFacts, JoinedHead
<1>3. s = <<Open>> \o Tail(J) \o <<Close>>
  BY <1>1 DEF PgRecord, Surrounded, Commas
<1>4. Open \in AnyByte /\ Close \in AnyByte
  BY BytesOf
<1> HIDE DEF J
<1>5. Len(J) \in Nat \ {0} /\ Tail(J) \in Bytes /\ Len(Tail(J)) = Len(J) - 1
      /\ \A i \in 1 .. Len(J) - 1 : Tail(J)[i] = J[i + 1]
  BY <1>2 DEF Bytes
<1>6. s \in Bytes /\ R \in Bytes /\ Len(s) = Len(J) + 1 /\ Len(R) = Len(J) + 1
  BY <1>2, <1>3, <1>4, <1>5 DEF Bytes
<1>7. s[1] = Open /\ s[Len(s)] = Close
  BY <1>3, <1>4, <1>5, <1>6 DEF Bytes
<1>8. \A i \in 2 .. Len(s) : s[i] = R[i]
  BY <1>2, <1>3, <1>4, <1>5, <1>6 DEF Bytes
<1> QED BY <1>5, <1>6, <1>7, <1>8 DEF J

LEMMA RecordColumn ==
    ASSUME NEW cols \in Seq(ColumnText), NEW j \in 1 .. Len(cols)
    PROVE  LET s == PgRecord(cols)
               c == PgColumn(cols[j])
               from == Start(cols, j)
           IN  /\ from \in Nat \ {0} /\ c \in Bytes
               /\ Start(cols, j + 1) = from + Len(c) + 1
               /\ from + Len(c) < Len(s)
               /\ \E rest \in Bytes :
                     /\ rest # <<>> /\ rest[1] \in {Comma, Close}
                     /\ SubSeq(s, from + 1, Len(s)) = c \o rest
                     /\ SubSeq(s, from + Len(c) + 1, Len(s)) = rest
<1> DEFINE s == PgRecord(cols)
           c == PgColumn(cols[j])
           ts == Columns(cols)
           R == Joined(ts) \o <<Close>>
           A == Joined(SubSeq(ts, 1, j - 1))
           B == Joined(SubSeq(ts, j + 1, Len(ts)))
           rest == B \o <<Close>>
<1>1. ts \in Seq(Bytes) /\ Len(ts) = Len(cols) /\ ts[j] = c /\ c \in Bytes
  BY ColumnsTyped
<1>2. /\ s \in Bytes /\ R \in Bytes /\ Len(s) = Len(R)
      /\ \A i \in 2 .. Len(s) : s[i] = R[i]
  BY RecordShape
<1>3. /\ SubSeq(ts, 1, j - 1) \in Seq(Bytes) /\ SubSeq(ts, j + 1, Len(ts)) \in Seq(Bytes)
      /\ SubSeq(ts, 1, j) \in Seq(Bytes)
      /\ ts = SubSeq(ts, 1, j) \o SubSeq(ts, j + 1, Len(ts))
      /\ SubSeq(ts, 1, j) = Append(SubSeq(ts, 1, j - 1), c)
  <2> HIDE DEF ts, c
  <2> QED BY <1>1
<1>4. A \in Bytes /\ B \in Bytes /\ rest \in Bytes /\ <<Comma>> \in Bytes /\ <<Close>> \in Bytes
  BY <1>3, JoinedFacts, BytesOf
<1>5. Joined(SubSeq(ts, 1, j)) = A \o (<<Comma>> \o c)
  BY <1>1, <1>3, JoinedFacts
<1>6. Joined(ts) = (A \o (<<Comma>> \o c)) \o B
  BY <1>3, <1>5, JoinedConcat
<1> HIDE DEF s, c, ts, A, B
<1>7. /\ R = (A \o <<Comma>>) \o (c \o rest)
      /\ R = ((A \o <<Comma>>) \o c) \o rest
  <2>1. /\ <<Comma>> \o c \in Bytes /\ A \o <<Comma>> \in Bytes /\ (A \o <<Comma>>) \o c \in Bytes
        /\ A \o (<<Comma>> \o c) \in Bytes
    BY <1>1, <1>4, BytesOf
  <2>2. A \o (<<Comma>> \o c) = (A \o <<Comma>>) \o c
    BY <1>1, <1>4, BytesConcat
  <2> DEFINE P == A \o <<Comma>>
             Q == P \o c
  <2>3. R = (Q \o B) \o <<Close>>
    BY <1>6, <2>2
  <2>4. P \in Bytes /\ Q \in Bytes
    BY <2>1
  <2> HIDE DEF P, Q, R
  <2>5. (Q \o B) \o <<Close>> = Q \o (B \o <<Close>>)
    <3>1. Q \in Bytes /\ B \in Bytes /\ <<Close>> \in Bytes
      BY <1>4, <2>4
    <3> HIDE DEF P, Q
    <3> QED BY <3>1, BytesConcat
  <2> HIDE DEF rest
  <2>6. (P \o c) \o rest = P \o (c \o rest)
    <3>1. c \in Bytes /\ rest \in Bytes /\ P \in Bytes
      BY <1>1, <1>4, <2>4
    <3> HIDE DEF c
    <3> QED BY <3>1, BytesConcat
  <2> QED BY <2>3, <2>5, <2>6 DEF P, Q, rest
<1> DEFINE from == Start(cols, j)
<1>8. from = Len(A) + 1 /\ Start(cols, j + 1) = from + Len(c) + 1 /\ from \in Nat \ {0}
  <2>1. from = Len(A) + 1
    BY DEF Start, A, ts
  <2>2. Start(cols, j + 1) = Len(Joined(SubSeq(ts, 1, j))) + 1
    BY DEF Start, ts
  <2>3. Len(A \o (<<Comma>> \o c)) = Len(A) + (1 + Len(c)) /\ Len(A) \in Nat /\ Len(c) \in Nat
    BY <1>1, <1>4 DEF Bytes
  <2>4. Len(Joined(SubSeq(ts, 1, j))) = Len(A) + (1 + Len(c))
    BY <2>3, <1>5
  <2> HIDE DEF from
  <2> QED BY <2>1, <2>2, <2>3, <2>4
<1>9. /\ Len(A \o <<Comma>>) = from /\ Len((A \o <<Comma>>) \o c) = from + Len(c)
      /\ A \o <<Comma>> \in Bytes /\ (A \o <<Comma>>) \o c \in Bytes
      /\ Len(R) = from + Len(c) + Len(rest) /\ Len(c) \in Nat
  <2> HIDE DEF rest
  <2> QED BY <1>1, <1>4, <1>7, <1>8 DEF Bytes
<1>10. rest # <<>> /\ rest[1] \in {Comma, Close} /\ Len(rest) > 0
  <2>1. CASE SubSeq(ts, j + 1, Len(ts)) = <<>>
    <3>1. B = <<>>
      BY <2>1, JoinedFacts DEF B
    <3> QED BY <3>1, <1>4, BytesConcat
  <2>2. CASE SubSeq(ts, j + 1, Len(ts)) # <<>>
    <3>1. B # <<>> /\ B[1] = Comma
      BY <2>2, <1>3, JoinedHead DEF B
    <3> QED BY <3>1, <1>4 DEF Bytes
  <2> QED BY <2>1, <2>2
<1>11. \A i \in 2 .. Len(s) : SubSeq(s, i, Len(s)) = SubSeq(R, i, Len(R))
  <2> HIDE DEF R
  <2> QED BY <1>2 DEF Bytes
<1>12. c \o rest \in Bytes
  BY <1>1, <1>4, BytesOf
<1>13. /\ SubSeq(R, from + 1, Len(R)) = c \o rest
       /\ SubSeq(R, from + Len(c) + 1, Len(R)) = rest
  <2> DEFINE P == A \o <<Comma>>
             Q == P \o c
  <2>1. P \in Bytes /\ Q \in Bytes /\ Len(P) = from /\ Len(Q) = from + Len(c)
        /\ R = P \o (c \o rest) /\ R = Q \o rest
    BY <1>7, <1>9
  <2> HIDE DEF R, rest, from, P, Q
  <2>2. SubSeq(P \o (c \o rest), Len(P) + 1, Len(P \o (c \o rest))) = c \o rest
    BY <2>1, <1>12, Suffix
  <2>3. SubSeq(Q \o rest, Len(Q) + 1, Len(Q \o rest)) = rest
    BY <2>1, <1>4, Suffix
  <2> QED BY <2>1, <2>2, <2>3
<1>14. from + 1 \in 2 .. Len(s) /\ from + Len(c) + 1 \in 2 .. Len(s) /\ from + Len(c) < Len(s)
  <2> HIDE DEF R, rest, from
  <2> QED BY <1>2, <1>8, <1>9, <1>10, <1>4 DEF Bytes
<1>15. /\ SubSeq(s, from + 1, Len(s)) = c \o rest
       /\ SubSeq(s, from + Len(c) + 1, Len(s)) = rest
  BY <1>11, <1>13, <1>14
<1> QED BY <1>1, <1>4, <1>8, <1>10, <1>14, <1>15 DEF s, c

-----------------------------------------------------------------------------
(***************************************************************************)
(* PostgreSQL reads in a record the columns that it has written.           *)
(***************************************************************************)
Pg(cols, text, mode) == [cols |-> cols, text |-> text, mode |-> mode]

LEMMA PgSteps ==
    ASSUME NEW X \in Seq(ColumnText), NEW t \in Bytes
    PROVE  /\ \A m \in {"start", "bare", "quoted", "closing", "bareEscape", "quotedEscape",
                        "end", "malformed"} : Pg(X, t, m) \in PgState
           /\ \A c \in AnyByte \ {Quote, Backslash} :
                 PgByte(Pg(X, t, "quoted"), c) = Pg(X, Append(t, c), "quoted")
           /\ PgByte(Pg(X, t, "quoted"), Quote) = Pg(X, t, "closing")
           /\ PgByte(Pg(X, t, "quoted"), Backslash) = Pg(X, t, "quotedEscape")
           /\ \A c \in AnyByte : PgByte(Pg(X, t, "quotedEscape"), c) = Pg(X, Append(t, c), "quoted")
           /\ PgByte(Pg(X, t, "closing"), Quote) = Pg(X, Append(t, Quote), "quoted")
           /\ \A m \in {"start", "bare"}, c \in AnyByte \ {Comma, Close, Quote, Backslash} :
                 PgByte(Pg(X, t, m), c) = Pg(X, Append(t, c), "bare")
           /\ PgByte(Pg(X, t, "start"), Quote) = Pg(X, t, "quoted")
           /\ \A m \in {"start", "bare", "closing"} :
                 LET Y == Append(X, IF m = "start" THEN Null ELSE t)
                 IN  /\ PgByte(Pg(X, t, m), Comma) = Pg(Y, <<>>, "start")
                     /\ PgByte(Pg(X, t, m), Close) = Pg(Y, <<>>, "end")
<1> USE SpecialAssumption DEF PgByte, Pg
<1>1. \A m \in {"start", "bare", "quoted", "closing", "bareEscape", "quotedEscape",
                "end", "malformed"} : Pg(X, t, m) \in PgState
  BY DEF PgState, ColumnText
<1>2. \A c \in AnyByte \ {Quote, Backslash} :
         PgByte(Pg(X, t, "quoted"), c) = Pg(X, Append(t, c), "quoted")
  OBVIOUS
<1>3. PgByte(Pg(X, t, "quoted"), Quote) = Pg(X, t, "closing")
  OBVIOUS
<1>4. PgByte(Pg(X, t, "quoted"), Backslash) = Pg(X, t, "quotedEscape")
  OBVIOUS
<1>5. \A c \in AnyByte : PgByte(Pg(X, t, "quotedEscape"), c) = Pg(X, Append(t, c), "quoted")
  OBVIOUS
<1>6. PgByte(Pg(X, t, "closing"), Quote) = Pg(X, Append(t, Quote), "quoted")
  OBVIOUS
<1>7. \A m \in {"start", "bare"}, c \in AnyByte \ {Comma, Close, Quote, Backslash} :
         PgByte(Pg(X, t, m), c) = Pg(X, Append(t, c), "bare")
  <2> TAKE m \in {"start", "bare"}, c \in AnyByte \ {Comma, Close, Quote, Backslash}
  <2>1. PgByte(Pg(X, t, "start"), c) = Pg(X, Append(t, c), "bare")
    OBVIOUS
  <2>2. PgByte(Pg(X, t, "bare"), c) = Pg(X, Append(t, c), "bare")
    OBVIOUS
  <2> QED BY <2>1, <2>2
<1>8. PgByte(Pg(X, t, "start"), Quote) = Pg(X, t, "quoted")
  OBVIOUS
<1>9. \A m \in {"start", "bare", "closing"} :
         LET Y == Append(X, IF m = "start" THEN Null ELSE t)
         IN  /\ PgByte(Pg(X, t, m), Comma) = Pg(Y, <<>>, "start")
             /\ PgByte(Pg(X, t, m), Close) = Pg(Y, <<>>, "end")
  <2> SUFFICES ASSUME NEW m \in {"start", "bare", "closing"}
               PROVE  LET Y == Append(X, IF m = "start" THEN Null ELSE t)
                      IN  /\ PgByte(Pg(X, t, m), Comma) = Pg(Y, <<>>, "start")
                          /\ PgByte(Pg(X, t, m), Close) = Pg(Y, <<>>, "end")
    OBVIOUS
  <2> DEFINE q == Pg(X, t, m)
             C == Append(q.cols, Column(q))
  <2>1. q.mode = m /\ C = Append(X, IF m = "start" THEN Null ELSE t)
    BY DEF Column
  <2> HIDE DEF q
  <2>2. PgByte(q, Comma) = [cols |-> C, text |-> <<>>, mode |-> "start"]
    BY <2>1
  <2>3. PgByte(q, Close) = [cols |-> C, text |-> <<>>, mode |-> "end"]
    BY <2>1
  <2> QED BY <2>1, <2>2, <2>3 DEF q
<1> HIDE DEF PgByte, Pg
<1> QED BY <1>1, <1>2, <1>3, <1>4, <1>5, <1>6, <1>7, <1>8, <1>9

LEMMA PgReadTwo ==
    ASSUME NEW q \in PgState, NEW c \in AnyByte, NEW d \in AnyByte
    PROVE  PgRead(q, <<c, d>>) = PgByte(PgByte(q, c), d)
<1>1. <<c, d>> = Append(<<c>>, d) /\ <<c>> \in Bytes
  BY BytesOf
<1>2. PgRead(q, Append(<<c>>, d)) = PgByte(PgRead(q, <<c>>), d)
  BY <1>1, PgReadFacts
<1> QED BY <1>1, <1>2, PgReadFacts

LEMMA PgReadDoubled ==
    ASSUME NEW X \in Seq(ColumnText), NEW t \in Bytes
    PROVE  \A s \in Bytes : PgRead(Pg(X, t, "quoted"), Replaced(s, Doubled)) = Pg(X, t \o s, "quoted")
<1> DEFINE q == Pg(X, t, "quoted")
           T == {s \in Bytes : PgRead(q, Replaced(s, Doubled)) = Pg(X, t \o s, "quoted")}
<1>0. Doubled \in [AnyByte -> Bytes] /\ q \in PgState
  BY QuotingTexts, PgSteps DEF Quoting
<1>1. <<>> \in T
  <2>1. Replaced(<<>>, Doubled) = <<>> /\ <<>> \in Bytes /\ t \o <<>> = t
    BY <1>0, ReplacedFacts, BytesOf, BytesConcat
  <2>2. PgRead(q, <<>>) = q
    BY <1>0, PgReadFacts
  <2> QED BY <2>1, <2>2
<1>2. ASSUME NEW s \in Seq(AnyByte), NEW c \in AnyByte, s \in T PROVE Append(s, c) \in T
  <2> DEFINE u == t \o s
             p == Pg(X, u, "quoted")
             w == Replaced(s, Doubled)
  <2>1. s \in Bytes /\ Append(s, c) \in Bytes
    BY DEF Bytes
  <2>2. w \in Bytes /\ Doubled[c] \in Bytes /\ Replaced(Append(s, c), Doubled) = w \o Doubled[c]
    BY <1>0, <2>1, ReplacedFacts
  <2>3. u \in Bytes /\ t \o Append(s, c) = Append(u, c)
    BY <2>1, AppendConcat DEF Bytes
  <2>4. PgRead(q, w \o Doubled[c]) = PgRead(p, Doubled[c])
    <3>1. PgRead(q, w \o Doubled[c]) = PgRead(PgRead(q, w), Doubled[c])
      BY <1>0, <2>2, PgReadFacts
    <3> QED BY <3>1, <1>2
  <2> HIDE DEF q, u, w
  <2>5. p \in PgState
    BY <2>3, PgSteps
  <2>6. PgRead(p, Doubled[c]) = Pg(X, Append(u, c), "quoted")
    <3>1. CASE c \in {Quote, Backslash}
      <4>1. Doubled[c] = <<c, c>>
        BY <3>1 DEF Doubled
      <4>2. PgRead(p, <<c, c>>) = PgByte(PgByte(p, c), c)
        BY <2>5, PgReadTwo
      <4>3. PgByte(PgByte(p, c), c) = Pg(X, Append(u, c), "quoted")
        BY <3>1, <2>3, PgSteps
      <4> QED BY <4>1, <4>2, <4>3
    <3>2. CASE c \notin {Quote, Backslash}
      <4>1. Doubled[c] = <<c>>
        BY <3>2 DEF Doubled
      <4>2. PgByte(p, c) = Pg(X, Append(u, c), "quoted")
        BY <3>2, <2>3, PgSteps
      <4>3. PgRead(p, <<c>>) = PgByte(p, c)
        BY <2>5, PgReadFacts
      <4> QED BY <4>1, <4>2, <4>3
    <3> QED BY <3>1, <3>2
  <2> QED BY <2>1, <2>2, <2>3, <2>4, <2>6
<1>3. Seq(AnyByte) \subseteq T
  <2> HIDE DEF T
  <2> QED BY <1>1, <1>2, SeqInduction
<1> QED BY <1>3 DEF Bytes

LEMMA PgReadBare ==
    ASSUME NEW X \in Seq(ColumnText)
    PROVE  \A s \in Bytes :
              ~Has(s, Special \ {LBrace, RBrace}) =>
                 PgRead(Pg(X, <<>>, "start"), s) = Pg(X, s, IF s = <<>> THEN "start" ELSE "bare")
<1> DEFINE q == Pg(X, <<>>, "start")
           After(s) == Pg(X, s, IF s = <<>> THEN "start" ELSE "bare")
           T == {s \in Bytes : ~Has(s, Special \ {LBrace, RBrace}) => PgRead(q, s) = After(s)}
<1>0. q \in PgState /\ <<>> \in Bytes
  BY PgSteps, BytesOf
<1>1. <<>> \in T
  BY <1>0, PgReadFacts
<1>2. ASSUME NEW s \in Seq(AnyByte), NEW c \in AnyByte, s \in T PROVE Append(s, c) \in T
  <2>1. s \in Bytes /\ Append(s, c) \in Bytes
    BY DEF Bytes
  <2>2. SUFFICES ASSUME ~Has(Append(s, c), Special \ {LBrace, RBrace})
                 PROVE  PgRead(q, Append(s, c)) = After(Append(s, c))
    BY <2>1
  <2>3. ~Has(s, Special \ {LBrace, RBrace}) /\ c \in AnyByte \ {Comma, Close, Quote, Backslash}
    <3>1. \A i \in 1 .. Len(s) : i \in 1 .. Len(Append(s, c)) /\ Append(s, c)[i] = s[i]
      OBVIOUS
    <3>2. Len(s) + 1 \in 1 .. Len(Append(s, c)) /\ Append(s, c)[Len(s) + 1] = c
      OBVIOUS
    <3>3. {Quote, Backslash, Comma, Close} \subseteq Special \ {LBrace, RBrace}
      BY SpecialAssumption DEF Special
    <3> QED BY <2>2, <3>1, <3>2, <3>3 DEF Has
  <2>4. PgRead(q, Append(s, c)) = PgByte(After(s), c)
    BY <1>0, <1>2, <2>1, <2>3, PgReadFacts
  <2>5. PgByte(After(s), c) = Pg(X, Append(s, c), "bare")
    BY <2>1, <2>3, PgSteps
  <2>6. Append(s, c) # <<>>
    OBVIOUS
  <2> QED BY <2>4, <2>5, <2>6
<1>3. Seq(AnyByte) \subseteq T
  <2> HIDE DEF T
  <2> QED BY <1>1, <1>2, SeqInduction
<1> QED BY <1>3 DEF Bytes

(* What a reader between two columns has as the last one. *)
LastColumn(t, m) == IF m = "start" THEN Null ELSE t
Between(q, cols) ==
    \E X \in Seq(ColumnText), t \in Bytes, m \in {"start", "bare", "closing"} :
       q = Pg(X, t, m) /\ cols = Append(X, LastColumn(t, m))

LEMMA PgReadColumn ==
    ASSUME NEW X \in Seq(ColumnText), NEW c \in ColumnText
    PROVE  Between(PgRead(Pg(X, <<>>, "start"), PgColumn(c)), Append(X, c))
<1> DEFINE q == Pg(X, <<>>, "start")
<1>0. /\ Null \notin Bytes /\ <<>> \in Bytes /\ q \in PgState /\ Quote \in AnyByte /\ <<Quote>> \in Bytes
      /\ Pg(X, <<>>, "quoted") \in PgState
  BY NullAssumption, BytesOf, PgSteps
<1>1. CASE c = Null
  <2>1. PgRead(q, PgColumn(c)) = q
    BY <1>0, <1>1, PgReadFacts DEF PgColumn
  <2> QED BY <1>0, <1>1, <2>1 DEF Between, LastColumn
<1>2. CASE c # Null /\ (c = <<>> \/ Has(c, Special \ {LBrace, RBrace}))
  <2> DEFINE w == Replaced(c, Doubled)
  <2>1. c \in Bytes /\ w \in Bytes /\ <<>> \o c = c
    BY <1>2, ReplacedFacts, QuotingTexts, BytesConcat DEF ColumnText, Quoting
  <2>2. PgColumn(c) = (<<Quote>> \o w) \o <<Quote>> /\ <<Quote>> \o w \in Bytes
    BY <1>0, <1>2, <2>1, BytesOf DEF PgColumn, Surrounded
  <2> HIDE DEF w
  <2>3. PgRead(q, <<Quote>>) = Pg(X, <<>>, "quoted")
    <3>1. PgByte(q, Quote) = Pg(X, <<>>, "quoted")
      BY <1>0, PgSteps
    <3> QED BY <1>0, <3>1, PgReadFacts
  <2>4. PgRead(q, <<Quote>> \o w) = Pg(X, c, "quoted")
    <3>1. PgRead(q, <<Quote>> \o w) = PgRead(PgRead(q, <<Quote>>), w)
      BY <1>0, <2>1, PgReadFacts
    <3>2. PgRead(Pg(X, <<>>, "quoted"), w) = Pg(X, <<>> \o c, "quoted")
      BY <1>0, <2>1, PgReadDoubled DEF w
    <3> QED BY <2>1, <2>3, <3>1, <3>2
  <2>5. PgRead(q, PgColumn(c)) = Pg(X, c, "closing")
    <3>1. Pg(X, c, "quoted") \in PgState /\ PgByte(Pg(X, c, "quoted"), Quote) = Pg(X, c, "closing")
      BY <2>1, PgSteps
    <3>2. PgRead(Pg(X, c, "quoted"), <<Quote>>) = Pg(X, c, "closing")
      BY <1>0, <3>1, PgReadFacts
    <3>3. PgRead(q, (<<Quote>> \o w) \o <<Quote>>) = PgRead(PgRead(q, <<Quote>> \o w), <<Quote>>)
      BY <1>0, <2>2, PgReadFacts
    <3> QED BY <2>2, <2>4, <3>2, <3>3
  <2> QED BY <2>1, <2>5 DEF Between, LastColumn
<1>3. CASE c # Null /\ c # <<>> /\ ~Has(c, Special \ {LBrace, RBrace})
  <2>1. c \in Bytes /\ PgColumn(c) = c
    BY <1>3 DEF ColumnText, PgColumn
  <2>2. PgRead(q, c) = Pg(X, c, "bare")
    BY <1>3, <2>1, PgReadBare
  <2> QED BY <2>1, <2>2 DEF Between, LastColumn
<1> QED BY <1>1, <1>2, <1>3

LEMMA ColumnsAppend ==
    ASSUME NEW cols \in Seq(ColumnText), NEW c \in ColumnText
    PROVE  Columns(Append(cols, c)) = Append(Columns(cols), PgColumn(c))
<1> DEFINE l == Columns(Append(cols, c))
           q == Append(Columns(cols), PgColumn(c))
<1>1. Append(cols, c) \in Seq(ColumnText)
  OBVIOUS
<1>2. /\ l \in Seq(Bytes) /\ Columns(cols) \in Seq(Bytes) /\ PgColumn(c) \in Bytes
      /\ Len(l) = Len(cols) + 1 /\ Len(Columns(cols)) = Len(cols)
      /\ \A j \in 1 .. Len(cols) + 1 : l[j] = PgColumn(Append(cols, c)[j])
      /\ \A j \in 1 .. Len(cols) : Columns(cols)[j] = PgColumn(cols[j])
  <2>1. PgColumn(c) \in Bytes
    BY PgColumnTyped
  <2>2. Len(Append(cols, c)) = Len(cols) + 1
    OBVIOUS
  <2> QED BY <1>1, <2>1, <2>2, ColumnsTyped
<1>3. q \in Seq(Bytes) /\ Len(q) = Len(l)
  <2> HIDE DEF l
  <2> QED BY <1>2
<1>4. \A j \in 1 .. Len(l) : l[j] = q[j]
  <2> HIDE DEF l
  <2> QED BY <1>2
<1> HIDE DEF l, q
<1>5. l = q
  BY <1>2, <1>3, <1>4, SeqEqual
<1> QED BY <1>5 DEF l, q

(* A text at a time: PgRead goes on behind a column with a comma and the   *)
(* next column.                                                            *)
LEMMA PgReadNext ==
    ASSUME NEW q, NEW done \in Seq(ColumnText), Between(q, done), NEW c \in ColumnText
    PROVE  Between(PgRead(q, <<Comma>> \o PgColumn(c)), Append(done, c))
<1>1. PICK X \in Seq(ColumnText), t \in Bytes, m \in {"start", "bare", "closing"} :
         q = Pg(X, t, m) /\ done = Append(X, LastColumn(t, m))
  BY DEF Between
<1>2. PgByte(q, Comma) = Pg(done, <<>>, "start")
  BY <1>1, PgSteps DEF LastColumn
<1>3. q \in PgState /\ Comma \in AnyByte /\ <<Comma>> \in Bytes
  BY <1>1, PgSteps, BytesOf
<1>4. PgRead(q, <<Comma>>) = Pg(done, <<>>, "start")
  BY <1>2, <1>3, PgReadFacts
<1>5. PgColumn(c) \in Bytes
  BY PgColumnTyped
<1>6. PgRead(q, <<Comma>> \o PgColumn(c)) = PgRead(PgRead(q, <<Comma>>), PgColumn(c))
  BY <1>3, <1>5, PgReadFacts
<1> QED BY <1>4, <1>6, PgReadColumn

LEMMA PgReadJoined ==
    ASSUME NEW q, NEW done \in Seq(ColumnText), Between(q, done)
    PROVE  \A cols \in Seq(ColumnText) : Between(PgRead(q, Joined(Columns(cols))), done \o cols)
<1> DEFINE T == {cols \in Seq(ColumnText) : Between(PgRead(q, Joined(Columns(cols))), done \o cols)}
<1>0. q \in PgState
  BY PgSteps DEF Between
<1>1. <<>> \in T
  <2>1. Columns(<<>>) = <<>>
    BY DEF Columns
  <2>2. done \o <<>> = done
    BY ConcatEmptySeq
  <2>3. PgRead(q, Joined(Columns(<<>>))) = q
    BY <1>0, <2>1, JoinedFacts, PgReadFacts
  <2>4. <<>> \in Seq(ColumnText)
    OBVIOUS
  <2> QED BY <2>2, <2>3, <2>4
<1>2. ASSUME NEW cols \in Seq(ColumnText), NEW c \in ColumnText, cols \in T
      PROVE  Append(cols, c) \in T
  <2> DEFINE J == Joined(Columns(cols))
             p == PgRead(q, J)
  <2>1. Columns(cols) \in Seq(Bytes) /\ J \in Bytes /\ <<Comma>> \in Bytes
    BY ColumnsTyped, JoinedFacts, BytesOf
  <2>2. PgColumn(c) \in Bytes
    BY PgColumnTyped
  <2>3. Joined(Columns(Append(cols, c))) = J \o (<<Comma>> \o PgColumn(c))
    BY <2>1, <2>2, ColumnsAppend, JoinedFacts
  <2>4. done \o cols \in Seq(ColumnText)
    BY ConcatProperties
  <2>5. done \o Append(cols, c) = Append(done \o cols, c)
    BY AppendConcat
  <2>6. <<Comma>> \o PgColumn(c) \in Bytes
    BY <2>1, <2>2, BytesOf
  <2>7. PgRead(q, J \o (<<Comma>> \o PgColumn(c))) = PgRead(p, <<Comma>> \o PgColumn(c))
    BY <1>0, <2>1, <2>6, PgReadFacts
  <2>8. Between(p, done \o cols)
    BY <1>2
  <2> HIDE DEF p
  <2>9. Between(PgRead(p, <<Comma>> \o PgColumn(c)), Append(done \o cols, c))
    BY <2>4, <2>8, PgReadNext
  <2>10. Append(cols, c) \in Seq(ColumnText)
    OBVIOUS
  <2> QED BY <2>3, <2>5, <2>7, <2>9, <2>10
<1>3. Seq(ColumnText) \subseteq T
  <2> HIDE DEF T
  <2> QED BY <1>1, <1>2, SeqInduction
<1> QED BY <1>3

LEMMA ColumnsCons ==
    ASSUME NEW c \in ColumnText, NEW r \in Seq(ColumnText)
    PROVE  Columns(<<c>> \o r) = <<PgColumn(c)>> \o Columns(r)
<1> DEFINE cols == <<c>> \o r
           ts == Columns(cols)
           l == <<PgColumn(c)>> \o Columns(r)
<1>1. /\ cols \in Seq(ColumnText) /\ Len(cols) = 1 + Len(r) /\ Len(r) \in Nat /\ cols[1] = c
      /\ \A j \in 1 .. Len(r) : cols[j + 1] = r[j]
  OBVIOUS
<1> HIDE DEF cols
<1>2. /\ ts \in Seq(Bytes) /\ Len(ts) = 1 + Len(r)
      /\ \A j \in 1 .. 1 + Len(r) : ts[j] = PgColumn(cols[j])
  BY <1>1, ColumnsTyped
<1>3. /\ Columns(r) \in Seq(Bytes) /\ Len(Columns(r)) = Len(r) /\ PgColumn(c) \in Bytes
      /\ \A j \in 1 .. Len(r) : Columns(r)[j] = PgColumn(r[j])
  BY ColumnsTyped, PgColumnTyped
<1>4. /\ l \in Seq(Bytes) /\ Len(l) = 1 + Len(r) /\ l[1] = PgColumn(c)
      /\ \A j \in 1 .. Len(r) : l[j + 1] = Columns(r)[j]
  BY <1>1, <1>3
<1> HIDE DEF ts, l
<1>5. ASSUME NEW j \in 1 .. Len(ts) PROVE ts[j] = l[j]
  <2>1. CASE j = 1
    BY <2>1, <1>1, <1>2, <1>4
  <2>2. CASE j # 1
    <3>1. PICK k \in 1 .. Len(r) : j = k + 1
      <4>1. j - 1 \in 1 .. Len(r) /\ j = (j - 1) + 1
        BY <2>2, <1>1, <1>2
      <4> QED BY <4>1
    <3> QED BY <3>1, <1>1, <1>2, <1>3, <1>4
  <2> QED BY <2>1, <2>2
<1>6. ts = l
  BY <1>2, <1>4, <1>5, SeqEqual
<1> QED BY <1>6 DEF ts, l, cols

(* PostgreSQL reads in a record the columns that it has written, nulls,    *)
(* quotes, backslashes, commas and parentheses in them: what the record    *)
(* says is what Scan is to find there.                                     *)
LEMMA PgReadsRecord ==
    ASSUME NEW cols \in Seq(ColumnText), cols # <<>>
    PROVE  PgColumns(PgRecord(cols)) = cols
<1> DEFINE s == PgRecord(cols)
           ts == Columns(cols)
           q == Pg(<<>>, <<>>, "start")
<1>1. /\ s \in Bytes /\ s # <<>> /\ Head(s) = Open /\ ts \in Seq(Bytes) /\ ts # <<>>
      /\ Joined(ts) \in Bytes /\ Joined(ts) # <<>>
  <2>1. s \in Bytes /\ Len(s) >= 2 /\ s[1] = Open
    BY RecordShape
  <2>2. ts \in Seq(Bytes) /\ ts # <<>>
    BY ColumnsTyped
  <2> HIDE DEF s, ts
  <2> QED BY <2>1, <2>2, JoinedFacts, JoinedHead DEF Bytes
<1>2. Tail(s) = Tail(Joined(ts)) \o <<Close>>
  <2>1. s = <<Open>> \o Tail(Joined(ts)) \o <<Close>>
    BY <1>1 DEF PgRecord, Surrounded, Commas
  <2>2. Tail(Joined(ts)) \in Bytes /\ <<Close>> \in Bytes /\ <<Open>> \in Bytes
    BY <1>1, BytesOf DEF Bytes
  <2> DEFINE v == Tail(Joined(ts))
  <2> HIDE DEF s, v
  <2>3. s = <<Open>> \o (v \o <<Close>>) /\ v \o <<Close>> \in Bytes
    <3>1. v \in Bytes /\ v \o <<Close>> \in Bytes
      BY <2>2, BytesOf DEF v
    <3>2. (<<Open>> \o v) \o <<Close>> = <<Open>> \o (v \o <<Close>>)
      BY <2>2, <3>1, BytesConcat
    <3>3. s = (<<Open>> \o v) \o <<Close>>
      BY <2>1 DEF v
    <3> QED BY <3>1, <3>2, <3>3
  <2>4. \A u \in Seq(AnyByte) : Tail(<<Open>> \o u) = u
    OBVIOUS
  <2> QED BY <2>3, <2>4 DEF Bytes, v
<1>3. PICK c \in ColumnText, r \in Seq(ColumnText) : cols = <<c>> \o r
  <2>1. Head(cols) \in ColumnText /\ Tail(cols) \in Seq(ColumnText) /\ cols = <<Head(cols)>> \o Tail(cols)
    OBVIOUS
  <2> QED BY <2>1
<1>4. Tail(Joined(ts)) = PgColumn(c) \o Joined(Columns(r))
  <2>1. ts = <<PgColumn(c)>> \o Columns(r) /\ PgColumn(c) \in Bytes /\ Columns(r) \in Seq(Bytes)
    BY <1>3, ColumnsCons, ColumnsTyped, PgColumnTyped
  <2>2. <<PgColumn(c)>> \in Seq(Bytes) /\ Joined(<<PgColumn(c)>>) = <<Comma>> \o PgColumn(c)
    <3>1. Joined(Append(<<>>, PgColumn(c))) = Joined(<<>>) \o (<<Comma>> \o PgColumn(c))
      <4>1. <<>> \in Seq(Bytes)
        OBVIOUS
      <4> QED BY <4>1, <2>1, JoinedFacts
    <3>2. <<Comma>> \o PgColumn(c) \in Bytes
      BY <2>1, BytesOf
    <3>3. Append(<<>>, PgColumn(c)) = <<PgColumn(c)>>
      OBVIOUS
    <3>4. <<PgColumn(c)>> \in Seq(Bytes)
      BY <2>1
    <3> QED BY <3>1, <3>2, <3>3, <3>4, JoinedFacts, BytesConcat
  <2>3. Joined(ts) = (<<Comma>> \o PgColumn(c)) \o Joined(Columns(r))
    <3>1. Joined(<<PgColumn(c)>> \o Columns(r)) = Joined(<<PgColumn(c)>>) \o Joined(Columns(r))
      BY <2>1, <2>2, JoinedConcat
    <3> QED BY <2>1, <2>2, <3>1
  <2>4. Joined(Columns(r)) \in Bytes /\ <<Comma>> \in Bytes /\ PgColumn(c) \o Joined(Columns(r)) \in Bytes
    BY <2>1, JoinedFacts, BytesOf
  <2>5. Joined(ts) = <<Comma>> \o (PgColumn(c) \o Joined(Columns(r)))
    BY <2>1, <2>3, <2>4, BytesConcat
  <2>6. \A u \in Seq(AnyByte) : Tail(<<Comma>> \o u) = u
    OBVIOUS
  <2> HIDE DEF ts
  <2> QED BY <2>4, <2>5, <2>6 DEF Bytes
<1>5. q \in PgState /\ q = PgStart
  <2>1. <<>> \in Seq(ColumnText) /\ <<>> \in Bytes
    BY BytesOf
  <2> QED BY <2>1, PgSteps DEF Pg, PgStart
<1> DEFINE J == Joined(Columns(r))
           p == PgRead(q, PgColumn(c))
<1>6. PgColumn(c) \in Bytes /\ J \in Bytes /\ <<Close>> \in Bytes /\ Close \in AnyByte /\ PgColumn(c) \o J \in Bytes
  BY PgColumnTyped, ColumnsTyped, JoinedFacts, BytesOf
<1>7. PgRead(q, Tail(s)) = PgRead(PgRead(p, J), <<Close>>)
  <2>1. PgRead(q, (PgColumn(c) \o J) \o <<Close>>) = PgRead(PgRead(q, PgColumn(c) \o J), <<Close>>)
    BY <1>5, <1>6, PgReadFacts
  <2>2. PgRead(q, PgColumn(c) \o J) = PgRead(PgRead(q, PgColumn(c)), J)
    BY <1>5, <1>6, PgReadFacts
  <2> QED BY <1>2, <1>4, <2>1, <2>2
<1>8. Between(PgRead(p, J), cols)
  <2>1. Between(p, Append(<<>>, c))
    <3>1. <<>> \in Seq(ColumnText)
      OBVIOUS
    <3> QED BY <3>1, PgReadColumn
  <2>2. Append(<<>>, c) = <<c>> /\ <<c>> \in Seq(ColumnText)
    OBVIOUS
  <2> HIDE DEF p
  <2>3. Between(PgRead(p, J), <<c>> \o r)
    BY <2>1, <2>2, PgReadJoined
  <2> QED BY <1>3, <2>3
<1>9. PgRead(PgRead(p, J), <<Close>>) = Pg(cols, <<>>, "end")
  <2> DEFINE u == PgRead(p, J)
  <2>1. PICK X \in Seq(ColumnText), t \in Bytes, m \in {"start", "bare", "closing"} :
           u = Pg(X, t, m) /\ cols = Append(X, LastColumn(t, m))
    BY <1>8 DEF Between
  <2> HIDE DEF u
  <2>2. u \in PgState /\ PgByte(u, Close) = Pg(cols, <<>>, "end")
    BY <2>1, PgSteps DEF LastColumn
  <2>3. PgRead(u, <<Close>>) = Pg(cols, <<>>, "end")
    BY <1>6, <2>2, PgReadFacts
  <2> QED BY <2>3 DEF u
<1>10. PgRead(PgStart, Tail(s)) = [cols |-> cols, text |-> <<>>, mode |-> "end"]
  BY <1>5, <1>7, <1>9 DEF Pg
<1> QED BY <1>1, <1>10 DEF PgColumns

LEMMA PgColumnsTyped == \A s \in Bytes : PgColumns(s) \in Seq(ColumnText)
<1> SUFFICES ASSUME NEW s \in Bytes PROVE PgColumns(s) \in Seq(ColumnText)
  OBVIOUS
<1> DEFINE q == PgRead(PgStart, Tail(s))
<1>1. <<>> \in Seq(ColumnText)
  OBVIOUS
<1>2. s # <<>> => q.cols \in Seq(ColumnText)
  <2>1. PgStart \in PgState /\ (s # <<>> => Tail(s) \in Bytes)
    BY BytesOf DEF PgStart, PgState, Bytes
  <2>2. s # <<>> => q \in PgState
    BY <2>1, PgReadFacts
  <2> QED BY <2>2 DEF PgState, ColumnText
<1>3. PgColumns(s) = IF s # <<>> /\ Head(s) = Open /\ q.mode = "end" THEN q.cols ELSE <<>>
  BY DEF PgColumns
<1> QED BY <1>1, <1>2, <1>3
=============================================================================
