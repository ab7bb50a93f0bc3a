------------------------- MODULE RecordValueProofs --------------------------
(***************************************************************************)
(* What RecordValue.tla claims of a generated Value, proved for all        *)
(* values, however deep structs, slices, pointers and PODs are in each     *)
(* other: how the call ends, and what PostgreSQL reads in the literal.     *)
(***************************************************************************)
EXTENDS RecordValue, LiteralProofs

-----------------------------------------------------------------------------
(***************************************************************************)
(* What is said of a value by what is said of its parts: step gives it, if *)
(* F gives it for the parts.                                               *)
(***************************************************************************)
Local(V, step) ==
    \A F, G \in [Field -> V], g \in Field :
       (\A k \in DOMAIN Parts(g) : F[Parts(g)[k]] = G[Parts(g)[k]]) => step[<<F, g>>] = step[<<G, g>>]

LEMMA PartsFacts ==
    ASSUME NEW g \in Field
    PROVE  /\ Parts(g) \in Seq(Field)
           /\ \A k \in DOMAIN Parts(g) : /\ Parts(g)[k] \in Field
                                         /\ Depth[Parts(g)[k]] \in Nat
                                         /\ Depth[Parts(g)[k]] < Depth[g]
           /\ Depth[g] \in Nat
<1>1. Parts(g) \in Seq(Field)
  BY FieldAssumption
<1>2. \A k \in DOMAIN Parts(g) : Parts(g)[k] \in Field
  BY <1>1
<1> QED BY <1>1, <1>2, DepthAssumption

PartsIn == [g \in Field |-> Parts(g)]

LEMMA PartsTree ==
    /\ Tree(Field, PartsIn, Depth)
    /\ \A V, step : Local(V, step) => LocalIn(Field, PartsIn, V, step)
<1>1. \A g \in Field : PartsIn[g] = Parts(g)
  BY DEF PartsIn
<1>2. Tree(Field, PartsIn, Depth)
  BY <1>1, PartsFacts, DepthAssumption DEF Tree
<1>3. \A V, step : Local(V, step) => LocalIn(Field, PartsIn, V, step)
  BY <1>1 DEF Local, LocalIn
<1> QED BY <1>2, <1>3

LEMMA PartsRecursion ==
    ASSUME NEW V, V # {}, NEW step \in [[Field -> V] \X Field -> V], Local(V, step)
    PROVE  HasRecursion(Field, V, step)
BY PartsTree, TreeRecursion

LEMMA PartsUnique ==
    ASSUME NEW V, NEW step, Local(V, step), NEW F \in [Field -> V], NEW G \in [Field -> V],
           \A g \in Field : F[g] = step[<<F, g>>] /\ G[g] = step[<<G, g>>]
    PROVE  F = G
BY PartsTree, TreeUnique

-----------------------------------------------------------------------------
(***************************************************************************)
(* The fate of a value and of values one after the other.                  *)
(***************************************************************************)
LEMMA FirstAt ==
    ASSUME NEW s \in Seq(Ends), NEW n \in 1 .. Len(s),
           s[n] # "done", \A j \in 1 .. n - 1 : s[j] = "done"
    PROVE  First(s) = s[n]
<1> DEFINE Is(k) == k \in DOMAIN s /\ s[k] # "done" /\ \A j \in 1 .. k - 1 : s[j] = "done"
           i == CHOOSE k \in DOMAIN s : s[k] # "done" /\ \A j \in 1 .. k - 1 : s[j] = "done"
<1>1. DOMAIN s = 1 .. Len(s) /\ Len(s) \in Nat
  OBVIOUS
<1>2. Is(n)
  BY <1>1
<1>3. Is(i)
  BY <1>2, Zenon
<1>4. i = n
  <2> HIDE DEF i
  <2>1. i \in 1 .. Len(s)
    BY <1>1, <1>3
  <2>2. ~ (i < n)
    BY <2>1, <1>3
  <2>3. ~ (n < i)
    BY <2>1, <1>3
  <2> QED BY <2>1, <2>2, <2>3
<1>5. First(s) = s[i]
  BY <1>1, <1>2, Zenon DEF First
<1> HIDE DEF i
<1> QED BY <1>4, <1>5

LEMMA FirstFacts ==
    /\ First(<<>>) = "done"
    /\ \A s \in Seq(Ends) : First(s) \in Ends
    /\ \A s \in Seq(Ends) :
          s # <<>> => First(s) = IF Head(s) = "done" THEN First(Tail(s)) ELSE Head(s)
<1>1. First(<<>>) = "done"
  BY DEF First
<1>2. ASSUME NEW s \in Seq(Ends)
      PROVE  \/ (\A k \in 1 .. Len(s) : s[k] = "done") /\ First(s) = "done"
             \/ \E n \in 1 .. Len(s) : /\ s[n] # "done" /\ First(s) = s[n]
                                       /\ \A j \in 1 .. n - 1 : s[j] = "done"
  <2> DEFINE T == {k \in 1 .. Len(s) : s[k] # "done"}
  <2>1. CASE T = {}
    <3>1. \A k \in 1 .. Len(s) : s[k] = "done"
      BY <2>1
    <3> QED BY <3>1 DEF First
  <2>2. CASE T # {}
    <3>1. T \in SUBSET Nat
      OBVIOUS
    <3>2. PICK n \in T : \A m \in T : n <= m
      <4> HIDE DEF T
      <4> QED BY <2>2, <3>1, LeastElement
    <3>3. n \in 1 .. Len(s) /\ s[n] # "done" /\ \A j \in 1 .. n - 1 : s[j] = "done"
      BY <3>2
    <3> QED BY <3>3, FirstAt
  <2> QED BY <2>1, <2>2
<1>3. \A s \in Seq(Ends) : First(s) \in Ends
  BY <1>2 DEF Ends
<1>4. ASSUME NEW s \in Seq(Ends), s # <<>>
      PROVE  First(s) = IF Head(s) = "done" THEN First(Tail(s)) ELSE Head(s)
  <2> DEFINE t == Tail(s)
  <2>1. /\ Head(s) = s[1] /\ Len(s) \in Nat \ {0} /\ t \in Seq(Ends) /\ Len(t) = Len(s) - 1
        /\ \A k \in 1 .. Len(t) : t[k] = s[k + 1]
    BY <1>4, HeadTail
  <2> HIDE DEF t
  <2>2. CASE s[1] # "done"
    <3>1. 1 \in 1 .. Len(s) /\ \A j \in 1 .. 1 - 1 : s[j] = "done"
      BY <2>1
    <3>2. First(s) = s[1]
      BY <2>2, <3>1, FirstAt
    <3> QED BY <2>1, <2>2, <3>2
  <2>3. CASE s[1] = "done" /\ \A k \in 1 .. Len(t) : t[k] = "done"
    <3>1. \A k \in 1 .. Len(s) : s[k] = "done"
      <4> SUFFICES ASSUME NEW k \in 1 .. Len(s), k # 1 PROVE s[k] = "done"
        BY <2>3
      <4>1. k - 1 \in 1 .. Len(t) /\ (k - 1) + 1 = k
        BY <2>1
      <4> QED BY <2>1, <2>3, <4>1
    <3>2. First(s) = "done"
      BY <3>1 DEF First
    <3>3. First(t) = "done"
      BY <2>1, <2>3 DEF First
    <3> QED BY <2>1, <2>3, <3>2, <3>3 DEF t
  <2>4. ASSUME s[1] = "done", NEW n \in 1 .. Len(t), t[n] # "done", First(t) = t[n],
               \A j \in 1 .. n - 1 : t[j] = "done"
        PROVE  First(s) = First(t)
    <3>1. n + 1 \in 1 .. Len(s) /\ s[n + 1] = t[n]
      BY <2>1
    <3>2. \A j \in 1 .. (n + 1) - 1 : s[j] = "done"
      <4> SUFFICES ASSUME NEW j \in 1 .. (n + 1) - 1, j # 1 PROVE s[j] = "done"
        BY <2>4
      <4>1. j - 1 \in 1 .. n - 1 /\ j - 1 \in 1 .. Len(t) /\ (j - 1) + 1 = j
        BY <2>1
      <4>2. t[j - 1] = "done" /\ t[j - 1] = s[(j - 1) + 1]
        BY <2>1, <2>4, <4>1
      <4> QED BY <4>1, <4>2
    <3>3. First(s) = s[n + 1]
      BY <3>1, <3>2, <2>4, FirstAt
    <3> QED BY <3>1, <3>3, <2>4
  <2> QED BY <1>2, <2>1, <2>2, <2>3, <2>4 DEF t
<1> QED BY <1>1, <1>3, <1>4

FatesBy(F, gs) == [k \in DOMAIN gs |-> F[gs[k]]]

LEMMA FatesByTyped ==
    ASSUME NEW F \in [Field -> Ends], NEW gs \in Seq(Field)
    PROVE  /\ FatesBy(F, gs) \in Seq(Ends) /\ Len(FatesBy(F, gs)) = Len(gs)
           /\ \A k \in 1 .. Len(gs) : FatesBy(F, gs)[k] = F[gs[k]]
BY DEF FatesBy

LEMMA FateTyped ==
    ASSUME NEW F \in [Field -> Ends], NEW g \in Field
    PROVE  FateOf(F, g) \in Ends
<1>1. First(FatesBy(F, Parts(g))) \in Ends
  BY PartsFacts, FatesByTyped, FirstFacts
<1>2. FateOf(F, g) \in {"error", "panic", First(FatesBy(F, Parts(g)))}
  BY DEF FateOf, FatesBy
<1> QED BY <1>1, <1>2 DEF Ends

LEMMA FateLocal ==
    ASSUME NEW F, NEW G, NEW g,
           \A k \in DOMAIN Parts(g) : F[Parts(g)[k]] = G[Parts(g)[k]]
    PROVE  FateOf(F, g) = FateOf(G, g)
<1>1. FatesBy(F, Parts(g)) = FatesBy(G, Parts(g))
  BY DEF FatesBy
<1> QED BY <1>1 DEF FateOf, FatesBy

(* Fate is what its definition says. *)
LEMMA FateEquation ==
    /\ Fate \in [Field -> Ends]
    /\ \A g \in Field : Fate[g] = FateOf(Fate, g)
<1> DEFINE step == [p \in [Field -> Ends] \X Field |-> FateOf(p[1], p[2])]
<1>1. step \in [[Field -> Ends] \X Field -> Ends]
  BY FateTyped
<1>2. \A F \in [Field -> Ends], g \in Field : step[<<F, g>>] = FateOf(F, g)
  OBVIOUS
<1> HIDE DEF step
<1>3. Local(Ends, step)
  BY <1>2, FateLocal DEF Local
<1>4. PICK H \in [Field -> Ends] : \A g \in Field : H[g] = step[<<H, g>>]
  <2>1. Ends # {}
    BY DEF Ends
  <2>2. HasRecursion(Field, Ends, step)
    BY <1>1, <1>3, <2>1, PartsRecursion
  <2> QED BY <2>2 DEF HasRecursion
<1> DEFINE Is(F) == F = [g \in Field |-> FateOf(F, g)]
<1>5. Is(H)
  <2>1. \A g \in Field : H[g] = FateOf(H, g)
    BY <1>2, <1>4
  <2> QED BY <2>1
<1>6. Fate = CHOOSE F : Is(F)
  BY DEF Fate
<1>7. Is(Fate)
  <2> HIDE DEF Is
  <2> QED BY <1>5, <1>6, Zenon
<1>8. \A g \in Field : Fate[g] = FateOf(Fate, g)
  <2> HIDE DEF Fate
  <2>1. Fate = [g \in Field |-> FateOf(Fate, g)]
    BY <1>7
  <2> QED BY <2>1
<1>9. Fate = H
  <2> DEFINE V == Ends \cup {Fate[g] : g \in Field}
             all == [p \in [Field -> V] \X Field |-> FateOf(p[1], p[2])]
  <2>1. Fate \in [Field -> V] /\ H \in [Field -> V]
    <3> HIDE DEF Fate
    <3>1. Fate = [g \in Field |-> FateOf(Fate, g)]
      BY <1>7
    <3>2. \A g \in Field : Fate[g] \in V
      OBVIOUS
    <3>3. Ends \subseteq V
      OBVIOUS
    <3> HIDE DEF V
    <3>4. Fate = [g \in Field |-> Fate[g]]
      BY <3>1
    <3> QED BY <3>2, <3>3, <3>4
  <2> HIDE DEF V, Fate
  <2>2. \A F \in [Field -> V], g \in Field : all[<<F, g>>] = FateOf(F, g)
    OBVIOUS
  <2> HIDE DEF all
  <2>3. Local(V, all)
    BY <2>2, FateLocal DEF Local
  <2>4. \A g \in Field : Fate[g] = all[<<Fate, g>>] /\ H[g] = all[<<H, g>>]
    BY <1>2, <1>4, <1>8, <2>1, <2>2
  <2> QED BY <2>1, <2>3, <2>4, PartsUnique
<1> QED BY <1>8, <1>9

LEMMA FatesFacts ==
    /\ Fates(<<>>) = "done"
    /\ \A gs \in Items : Fates(gs) \in Ends
    /\ \A g \in Field, gs \in Items :
          Fates(<<g>> \o gs) = IF Fate[g] = "done" THEN Fates(gs) ELSE Fate[g]
    /\ \A gs \in Items :
          gs # <<>> => Fates(gs) = IF Fate[Head(gs)] = "done" THEN Fates(Tail(gs)) ELSE Fate[Head(gs)]
<1>1. \A gs : Fates(gs) = First(FatesBy(Fate, gs))
  BY DEF Fates, FatesBy
<1>2. \A gs \in Items : FatesBy(Fate, gs) \in Seq(Ends)
  BY FateEquation, FatesByTyped DEF Items
<1>3. Fates(<<>>) = "done"
  <2>1. FatesBy(Fate, <<>>) = <<>>
    BY DEF FatesBy
  <2> QED BY <1>1, <2>1, FirstFacts
<1>4. ASSUME NEW gs \in Items, gs # <<>>
      PROVE  Fates(gs) = IF Fate[Head(gs)] = "done" THEN Fates(Tail(gs)) ELSE Fate[Head(gs)]
  <2> DEFINE s == FatesBy(Fate, gs)
             t == FatesBy(Fate, Tail(gs))
  <2>1. /\ Head(gs) = gs[1] /\ Len(gs) \in Nat \ {0} /\ Tail(gs) \in Items
        /\ Len(Tail(gs)) = Len(gs) - 1
        /\ \A k \in 1 .. Len(Tail(gs)) : Tail(gs)[k] = gs[k + 1]
    BY <1>4, HeadTail DEF Items
  <2>2. /\ s \in Seq(Ends) /\ Len(s) = Len(gs) /\ \A k \in 1 .. Len(gs) : s[k] = Fate[gs[k]]
        /\ t \in Seq(Ends) /\ Len(t) = Len(Tail(gs))
        /\ \A k \in 1 .. Len(Tail(gs)) : t[k] = Fate[Tail(gs)[k]]
    BY <2>1, FateEquation, FatesByTyped DEF Items
  <2> HIDE DEF s, t
  <2>3. s # <<>>
    BY <2>1, <2>2
  <2>4. /\ Head(s) = s[1] /\ Tail(s) \in Seq(Ends) /\ Len(Tail(s)) = Len(s) - 1
        /\ \A k \in 1 .. Len(Tail(s)) : Tail(s)[k] = s[k + 1]
    BY <2>2, <2>3, HeadTail
  <2>5. \A k \in 1 .. Len(t) : k \in 1 .. Len(Tail(gs)) /\ k + 1 \in 1 .. Len(gs)
    BY <2>1, <2>2
  <2>6. Tail(s) = t
    <3>1. \A k \in 1 .. Len(t) : Tail(s)[k] = t[k]
      BY <2>1, <2>2, <2>4, <2>5
    <3>2. Len(Tail(s)) = Len(t)
      BY <2>1, <2>2, <2>4
    <3> QED BY <2>2, <2>4, <3>1, <3>2, SeqEqual
  <2>7. Head(s) = Fate[Head(gs)]
    BY <2>1, <2>2, <2>4
  <2>8. First(s) = IF Head(s) = "done" THEN First(Tail(s)) ELSE Head(s)
    BY <2>2, <2>3, FirstFacts
  <2> QED BY <1>1, <2>6, <2>7, <2>8 DEF s, t
<1>5. ASSUME NEW g \in Field, NEW gs \in Items
      PROVE  Fates(<<g>> \o gs) = IF Fate[g] = "done" THEN Fates(gs) ELSE Fate[g]
  <2>1. /\ <<g>> \o gs \in Items /\ <<g>> \o gs # <<>>
        /\ Head(<<g>> \o gs) = g /\ Tail(<<g>> \o gs) = gs
    BY DEF Items
  <2> QED BY <1>4, <2>1
<1> QED BY <1>1, <1>2, <1>3, <1>4, <1>5, FirstFacts

(* The fate of a value is that of its parts, one after the other.          *)
LEMMA FateOfParts ==
    ASSUME NEW g \in Field
    PROVE  /\ g.kind \in {"anon", "slice"} => Fate[g] = Fates(Parts(g))
           /\ g.kind = "ptr" \/ (g.kind = "pod" /\ g.ok) => g.to \in Field /\ Fate[g] = Fate[g.to]
           /\ g.kind \in {"text", "token", "nil", "lost"} => Fate[g] = "done"
           /\ g.kind = "pod" /\ ~g.ok => Fate[g] = "error"
           /\ g.kind = "call" =>
                 Fate[g] = CASE g.answer.kind = "error" -> "error"
                             [] g.answer.kind \in {"nil", "panic"} -> "panic"
                             [] g.answer.kind \in {"text", "token"} -> "done"
<1>1. Fate[g] = FateOf(Fate, g)
  BY FateEquation
<1>2. First([k \in DOMAIN Parts(g) |-> Fate[Parts(g)[k]]]) = Fates(Parts(g))
  BY DEF Fates
<1>3. /\ g.kind \in {"ptr", "pod"} => Parts(g) = <<g.to>>
      /\ g.kind \in {"text", "token", "nil", "lost", "call"} => Parts(g) = <<>>
  BY DEF Parts
<1>4. g.kind \in {"anon", "slice", "ptr", "text", "token", "nil", "lost"} \/ (g.kind = "pod" /\ g.ok)
         => Fate[g] = Fates(Parts(g))
  BY <1>1, <1>2 DEF FateOf
<1>5. g.kind \in {"ptr", "pod"} => g.to \in Field /\ Fates(<<g.to>>) = Fate[g.to]
  <2> SUFFICES ASSUME g.kind \in {"ptr", "pod"} PROVE g.to \in Field /\ Fates(<<g.to>>) = Fate[g.to]
    OBVIOUS
  <2>1. g.to \in Field
    BY <1>3, PartsFacts
  <2>2. <<>> \in Items /\ <<g.to>> \o <<>> = <<g.to>>
    BY DEF Items
  <2>3. Fates(<<g.to>>) = IF Fate[g.to] = "done" THEN Fates(<<>>) ELSE Fate[g.to]
    BY <2>1, <2>2, FatesFacts
  <2> QED BY <2>1, <2>3, FatesFacts
<1>6. g.kind \in {"anon", "slice"} => Fate[g] = Fates(Parts(g))
  BY <1>4
<1>7. g.kind = "ptr" \/ (g.kind = "pod" /\ g.ok) => g.to \in Field /\ Fate[g] = Fate[g.to]
  BY <1>3, <1>4, <1>5
<1>8. g.kind \in {"text", "token", "nil", "lost"} => Fate[g] = "done"
  BY <1>3, <1>4, FatesFacts
<1>9. g.kind = "pod" /\ ~g.ok => Fate[g] = "error"
  BY <1>1 DEF FateOf
<1>10. g.kind = "call" =>
         Fate[g] = CASE g.answer.kind = "error" -> "error"
                     [] g.answer.kind \in {"nil", "panic"} -> "panic"
                     [] g.answer.kind \in {"text", "token"} -> "done"
  <2>1. g.kind = "call" => First([k \in DOMAIN Parts(g) |-> Fate[Parts(g)[k]]]) = "done"
    BY <1>2, <1>3, FatesFacts
  <2>2. g.kind = "call" => g.answer.kind \in {"text", "token", "nil", "error", "panic"}
    BY FieldAssumption
  <2>3. g.kind = "call" /\ g.answer.kind = "error" => Fate[g] = "error"
    BY <1>1 DEF FateOf
  <2>4. g.kind = "call" /\ g.answer.kind \in {"nil", "panic"} => Fate[g] = "panic"
    BY <1>1 DEF FateOf
  <2>5. g.kind = "call" /\ g.answer.kind \in {"text", "token"} => Fate[g] = "done"
    BY <1>1, <2>1 DEF FateOf
  <2> QED BY <2>2, <2>3, <2>4, <2>5
<1> QED BY <1>6, <1>7, <1>8, <1>9, <1>10

-----------------------------------------------------------------------------
(***************************************************************************)
(* Plain values, and what is to be read for a value.                       *)
(***************************************************************************)
LEMMA PlainTyped == \A P, g : PlainOf(P, g) \in BOOLEAN
BY DEF PlainOf

LEMMA PlainLocal ==
    ASSUME NEW F, NEW G, NEW g,
           \A k \in DOMAIN Parts(g) : F[Parts(g)[k]] = G[Parts(g)[k]]
    PROVE  PlainOf(F, g) = PlainOf(G, g)
<1> DEFINE parts == Parts(g)
<1>1. g.kind = "anon" => Parts(g) = g.fields
  BY DEF Parts
<1> QED BY <1>1 DEF PlainOf

LEMMA PlainEquation ==
    /\ Plain \in [Field -> BOOLEAN]
    /\ \A g \in Field : Plain[g] = PlainOf(Plain, g)
<1> DEFINE step == [p \in [Field -> BOOLEAN] \X Field |-> PlainOf(p[1], p[2])]
<1>1. step \in [[Field -> BOOLEAN] \X Field -> BOOLEAN]
  BY PlainTyped
<1>2. \A F \in [Field -> BOOLEAN], g \in Field : step[<<F, g>>] = PlainOf(F, g)
  OBVIOUS
<1> HIDE DEF step
<1>3. Local(BOOLEAN, step)
  BY <1>2, PlainLocal DEF Local
<1>4. PICK H \in [Field -> BOOLEAN] : \A g \in Field : H[g] = step[<<H, g>>]
  <2>1. BOOLEAN # {}
    OBVIOUS
  <2>2. HasRecursion(Field, BOOLEAN, step)
    BY <1>1, <1>3, <2>1, PartsRecursion
  <2> QED BY <2>2 DEF HasRecursion
<1> DEFINE Is(F) == F = [g \in Field |-> PlainOf(F, g)]
<1>5. Is(H)
  <2>1. \A g \in Field : H[g] = PlainOf(H, g)
    BY <1>2, <1>4
  <2> QED BY <2>1
<1>6. Plain = CHOOSE F : Is(F)
  BY DEF Plain
<1>7. Is(Plain)
  <2> HIDE DEF Is
  <2> QED BY <1>5, <1>6, Zenon
<1>8. \A g \in Field : Plain[g] = PlainOf(Plain, g)
  <2> HIDE DEF Plain
  <2>1. Plain = [g \in Field |-> PlainOf(Plain, g)]
    BY <1>7
  <2> QED BY <2>1
<1>9. Plain = H
  <2> DEFINE V == BOOLEAN \cup {Plain[g] : g \in Field}
             all == [p \in [Field -> V] \X Field |-> PlainOf(p[1], p[2])]
  <2>1. Plain \in [Field -> V] /\ H \in [Field -> V]
    <3> HIDE DEF Plain
    <3>1. Plain = [g \in Field |-> PlainOf(Plain, g)]
      BY <1>7
    <3>2. \A g \in Field : Plain[g] \in V
      OBVIOUS
    <3>3. BOOLEAN \subseteq V
      OBVIOUS
    <3> HIDE DEF V
    <3>4. Plain = [g \in Field |-> Plain[g]]
      BY <3>1
    <3> QED BY <3>2, <3>3, <3>4
  <2> HIDE DEF V, Plain
  <2>2. \A F \in [Field -> V], g \in Field : all[<<F, g>>] = PlainOf(F, g)
    OBVIOUS
  <2> HIDE DEF all
  <2>3. Local(V, all)
    BY <2>2, PlainLocal DEF Local
  <2>4. \A g \in Field : Plain[g] = all[<<Plain, g>>] /\ H[g] = all[<<H, g>>]
    BY <1>2, <1>4, <1>8, <2>1, <2>2
  <2> QED BY <2>1, <2>3, <2>4, PartsUnique
<1> QED BY <1>8, <1>9

LEMMA LettersAreBytes == Seq(Letter) \subseteq Bytes
BY DEF Bytes, AnyByte

LEMMA MeansTyped ==
    ASSUME NEW M \in [Field -> SUBSET ColumnText], NEW g \in Field
    PROVE  MeansOf(M, g) \in SUBSET ColumnText
<1>1. g.kind \in {"text", "token"} => g.text \in Bytes
  BY FieldAssumption, LettersAreBytes DEF Said
<1>2. g.kind \in {"ptr", "pod"} => g.to \in Field
  <2>1. g.kind \in {"ptr", "pod"} => Parts(g) = <<g.to>>
    BY DEF Parts
  <2> QED BY <2>1, PartsFacts
<1>3. g.kind \in {"text", "token", "nil", "ptr", "pod", "lost", "call", "anon", "slice"}
  BY FieldAssumption
<1> QED BY <1>1, <1>2, <1>3 DEF MeansOf, ColumnText

LEMMA MeansLocal ==
    ASSUME NEW F, NEW G, NEW g,
           \A k \in DOMAIN Parts(g) : F[Parts(g)[k]] = G[Parts(g)[k]]
    PROVE  MeansOf(F, g) = MeansOf(G, g)
<1>1. /\ g.kind \in {"ptr", "pod"} => Parts(g) = <<g.to>>
      /\ g.kind = "anon" => Parts(g) = g.fields
  BY DEF Parts
<1>2. g.kind \in {"ptr", "pod"} => F[g.to] = G[g.to]
  BY <1>1
<1>3. ASSUME g.kind = "anon", NEW c PROVE ReadsBy(F, c, g.fields) <=> ReadsBy(G, c, g.fields)
  BY <1>1, <1>3 DEF ReadsBy
<1>4. g.kind = "anon" => {c \in Bytes : ReadsBy(F, c, g.fields)} = {c \in Bytes : ReadsBy(G, c, g.fields)}
  BY <1>3
<1> QED BY <1>2, <1>4 DEF MeansOf

LEMMA MeansEquation ==
    /\ Means \in [Field -> SUBSET ColumnText]
    /\ \A g \in Field : Means[g] = MeansOf(Means, g)
<1> DEFINE step == [p \in [Field -> SUBSET ColumnText] \X Field |-> MeansOf(p[1], p[2])]
<1>1. step \in [[Field -> SUBSET ColumnText] \X Field -> (SUBSET ColumnText)]
  BY MeansTyped
<1>2. \A F \in [Field -> SUBSET ColumnText], g \in Field : step[<<F, g>>] = MeansOf(F, g)
  OBVIOUS
<1> HIDE DEF step
<1>3. Local((SUBSET ColumnText), step)
  BY <1>2, MeansLocal DEF Local
<1>4. PICK H \in [Field -> SUBSET ColumnText] : \A g \in Field : H[g] = step[<<H, g>>]
  <2>1. (SUBSET ColumnText) # {}
    OBVIOUS
  <2>2. HasRecursion(Field, SUBSET ColumnText, step)
    BY <1>1, <1>3, <2>1, PartsRecursion
  <2> QED BY <2>2 DEF HasRecursion
<1> DEFINE Is(F) == F = [g \in Field |-> MeansOf(F, g)]
<1>5. Is(H)
  <2>1. \A g \in Field : H[g] = MeansOf(H, g)
    BY <1>2, <1>4
  <2> QED BY <2>1
<1>6. Means = CHOOSE F : Is(F)
  BY DEF Means
<1>7. Is(Means)
  <2> HIDE DEF Is
  <2> QED BY <1>5, <1>6, Zenon
<1>8. \A g \in Field : Means[g] = MeansOf(Means, g)
  <2> HIDE DEF Means
  <2>1. Means = [g \in Field |-> MeansOf(Means, g)]
    BY <1>7
  <2> QED BY <2>1
<1>9. Means = H
  <2> DEFINE V == (SUBSET ColumnText) \cup {Means[g] : g \in Field}
             all == [p \in [Field -> V] \X Field |-> MeansOf(p[1], p[2])]
  <2>1. Means \in [Field -> V] /\ H \in [Field -> V]
    <3> HIDE DEF Means
    <3>1. Means = [g \in Field |-> MeansOf(Means, g)]
      BY <1>7
    <3>2. \A g \in Field : Means[g] \in V
      OBVIOUS
    <3>3. (SUBSET ColumnText) \subseteq V
      OBVIOUS
    <3> HIDE DEF V
    <3>4. Means = [g \in Field |-> Means[g]]
      BY <3>1
    <3> QED BY <3>2, <3>3, <3>4
  <2> HIDE DEF V, Means
  <2>2. \A F \in [Field -> V], g \in Field : all[<<F, g>>] = MeansOf(F, g)
    OBVIOUS
  <2> HIDE DEF all
  <2>3. Local(V, all)
    BY <2>2, MeansLocal DEF Local
  <2>4. \A g \in Field : Means[g] = all[<<Means, g>>] /\ H[g] = all[<<H, g>>]
    BY <1>2, <1>4, <1>8, <2>1, <2>2
  <2> QED BY <2>1, <2>3, <2>4, PartsUnique
<1> QED BY <1>8, <1>9

-----------------------------------------------------------------------------
(***************************************************************************)
(* The texts that are written, and the columns PostgreSQL reads in them.   *)
(***************************************************************************)
LEMMA HasFacts ==
    /\ \A B : ~Has(<<>>, B)
    /\ \A B, c : Has(<<c>>, B) <=> c \in B
    /\ \A B : \A s, t \in Bytes : Has(s \o t, B) <=> Has(s, B) \/ Has(t, B)
<1>1. \A B : ~Has(<<>>, B)
  BY DEF Has
<1>2. \A B, c : Has(<<c>>, B) <=> c \in B
  BY DEF Has
<1>3. ASSUME NEW B, NEW s \in Bytes, NEW t \in Bytes
      PROVE  Has(s \o t, B) <=> Has(s, B) \/ Has(t, B)
  <2>1. /\ Len(s) \in Nat /\ Len(t) \in Nat /\ Len(s \o t) = Len(s) + Len(t)
        /\ \A i \in 1 .. Len(s) : (s \o t)[i] = s[i]
        /\ \A i \in 1 .. Len(t) : (s \o t)[Len(s) + i] = t[i]
        /\ DOMAIN s = 1 .. Len(s) /\ DOMAIN t = 1 .. Len(t) /\ DOMAIN (s \o t) = 1 .. Len(s \o t)
    BY DEF Bytes
  <2> DEFINE u == s \o t
  <2> HIDE DEF u
  <2>2. ASSUME Has(u, B) PROVE Has(s, B) \/ Has(t, B)
    <3>1. PICK i \in 1 .. Len(u) : u[i] \in B
      BY <2>1, <2>2 DEF Has, u
    <3>2. CASE i \in 1 .. Len(s)
      BY <2>1, <3>1, <3>2 DEF Has, u
    <3>3. CASE i \notin 1 .. Len(s)
      <4>1. PICK j \in 1 .. Len(t) : i = Len(s) + j
        <5>1. i - Len(s) \in 1 .. Len(t) /\ i = Len(s) + (i - Len(s))
          BY <2>1, <3>1, <3>3 DEF u
        <5> QED BY <5>1
      <4> QED BY <2>1, <3>1, <4>1 DEF Has, u
    <3> QED BY <3>2, <3>3
  <2>3. ASSUME Has(s, B) PROVE Has(u, B)
    <3>1. PICK i \in 1 .. Len(s) : s[i] \in B
      BY <2>1, <2>3 DEF Has
    <3>2. i \in 1 .. Len(u) /\ u[i] \in B
      BY <2>1, <3>1 DEF u
    <3> QED BY <2>1, <3>2 DEF Has, u
  <2>4. ASSUME Has(t, B) PROVE Has(u, B)
    <3>1. PICK i \in 1 .. Len(t) : t[i] \in B
      BY <2>1, <2>4 DEF Has
    <3>2. Len(s) + i \in 1 .. Len(u) /\ u[Len(s) + i] \in B
      BY <2>1, <3>1 DEF u
    <3> QED BY <2>1, <3>2 DEF Has, u
  <2> QED BY <2>2, <2>3, <2>4 DEF u
<1> QED BY <1>1, <1>2, <1>3

LEMMA GoEscapedFacts ==
    /\ GoEscaped \in [AnyByte -> Bytes]
    /\ \A c \in AnyByte \ {Newline} :
          GoEscaped[c] = IF c \in {Quote, Backslash} THEN <<Backslash, c>> ELSE <<c>>
    /\ \A c \in AnyByte \ {Newline} : ~Has(GoEscaped[c], {Newline})
<1>1. Escaped \in [AnyByte -> Bytes]
  BY QuotingTexts DEF Quoting
<1>2. \A c \in AnyByte : Escaped[c] = IF c \in {Quote, Backslash} THEN <<Backslash, c>> ELSE <<c>>
  BY DEF Escaped
<1>3. <<Backslash, EnByte>> \in Bytes
  <2>1. Append(<<Backslash>>, EnByte) \in Bytes
    BY BytesOf DEF Bytes
  <2>2. ASSUME NEW c \in AnyByte, NEW d \in AnyByte PROVE <<c, d>> = Append(<<c>>, d)
    OBVIOUS
  <2> QED BY <2>1, <2>2, BytesOf
<1>4. GoEscaped \in [AnyByte -> Bytes] /\ \A c \in AnyByte \ {Newline} : GoEscaped[c] = Escaped[c]
  BY <1>1, <1>3 DEF GoEscaped
<1>5. \A c \in AnyByte \ {Newline} : ~Has(<<c>>, {Newline}) /\ ~Has(<<Backslash, c>>, {Newline})
  BY SpecialAssumption DEF Has
<1> QED BY <1>2, <1>4, <1>5

LEMMA PgReadEscaped ==
    ASSUME NEW X \in Seq(ColumnText)
    PROVE  \A s \in Bytes : ~Has(s, {Newline}) =>
              /\ PgRead(Pg(X, <<>>, "quoted"), Replaced(s, GoEscaped)) = Pg(X, s, "quoted")
              /\ ~Has(Replaced(s, GoEscaped), {Newline})
<1> DEFINE q == Pg(X, <<>>, "quoted")
           After(s) == /\ PgRead(q, Replaced(s, GoEscaped)) = Pg(X, s, "quoted")
                       /\ ~Has(Replaced(s, GoEscaped), {Newline})
           T == {s \in Bytes : ~Has(s, {Newline}) => After(s)}
<1>0. GoEscaped \in [AnyByte -> Bytes] /\ q \in PgState /\ <<>> \in Bytes
  BY GoEscapedFacts, PgSteps, BytesOf
<1>1. <<>> \in T
  <2>1. Replaced(<<>>, GoEscaped) = <<>>
    BY <1>0, ReplacedFacts
  <2>2. PgRead(q, <<>>) = q
    BY <1>0, PgReadFacts
  <2> QED BY <1>0, <2>1, <2>2, HasFacts
<1>2. ASSUME NEW s \in Seq(AnyByte), NEW c \in AnyByte, s \in T PROVE Append(s, c) \in T
  <2> DEFINE w == Replaced(s, GoEscaped)
             p == Pg(X, s, "quoted")
             e == GoEscaped[c]
  <2>0. <<c>> \in Bytes /\ Append(s, c) = s \o <<c>>
    BY AppendIsConcat, BytesOf
  <2>1. s \in Bytes /\ Append(s, c) \in Bytes
    BY DEF Bytes
  <2> SUFFICES ASSUME ~Has(Append(s, c), {Newline}) PROVE After(Append(s, c))
    BY <2>1
  <2>2. ~Has(s, {Newline}) /\ c \in AnyByte \ {Newline}
    BY <2>0, <2>1, HasFacts
  <2>3. After(s)
    BY <1>2, <2>1, <2>2
  <2>4. w \in Bytes /\ e \in Bytes /\ Replaced(Append(s, c), GoEscaped) = w \o e
    BY <1>0, <2>1, ReplacedFacts
  <2>5. ~Has(w \o e, {Newline})
    BY <2>2, <2>3, <2>4, GoEscapedFacts, HasFacts
  <2>6. p \in PgState
    BY <2>1, PgSteps
  <2>7. PgRead(q, w \o e) = PgRead(p, e)
    <3>1. PgRead(q, w \o e) = PgRead(PgRead(q, w), e)
      BY <1>0, <2>4, PgReadFacts
    <3> QED BY <2>3, <3>1
  <2> HIDE DEF q, w
  <2>8. PgRead(p, e) = Pg(X, Append(s, c), "quoted")
    <3>1. CASE c \in {Quote, Backslash}
      <4>1. e = <<Backslash, c>> /\ Backslash \in AnyByte
        BY <2>2, <3>1, GoEscapedFacts, BytesOf
      <4>2. PgRead(p, <<Backslash, c>>) = PgByte(PgByte(p, Backslash), c)
        BY <2>6, <4>1, PgReadTwo
      <4>3. PgByte(PgByte(p, Backslash), c) = Pg(X, Append(s, c), "quoted")
        BY <2>1, PgSteps
      <4> QED BY <4>1, <4>2, <4>3
    <3>2. CASE c \notin {Quote, Backslash}
      <4>1. e = <<c>>
        BY <2>2, <3>2, GoEscapedFacts
      <4>2. PgByte(p, c) = Pg(X, Append(s, c), "quoted")
        BY <2>1, <3>2, PgSteps
      <4>3. PgRead(p, <<c>>) = PgByte(p, c)
        BY <2>6, PgReadFacts
      <4> QED BY <4>1, <4>2, <4>3
    <3> QED BY <3>1, <3>2
  <2> QED BY <2>4, <2>5, <2>7, <2>8
<1>3. Seq(AnyByte) \subseteq T
  <2> HIDE DEF T
  <2> QED BY <1>1, <1>2, SeqInduction
<1> QED BY <1>3 DEF Bytes

(* PostgreSQL takes the text t for the column c, whatever is before it.    *)
ReadsAs(t, c) ==
    /\ t \in Bytes /\ ~Has(t, {Newline}) /\ c \in ColumnText
    /\ \A X \in Seq(ColumnText) : Between(PgRead(Pg(X, <<>>, "start"), t), Append(X, c))

LEMMA NothingIsNull == ReadsAs(<<>>, Null)
<1>1. <<>> \in Bytes /\ Null \in ColumnText /\ ~Has(<<>>, {Newline})
  BY BytesOf, HasFacts DEF ColumnText
<1>2. ASSUME NEW X \in Seq(ColumnText)
      PROVE  Between(PgRead(Pg(X, <<>>, "start"), <<>>), Append(X, Null))
  <2>1. PgRead(Pg(X, <<>>, "start"), <<>>) = Pg(X, <<>>, "start")
    BY <1>1, PgSteps, PgReadFacts
  <2> QED BY <1>1, <2>1 DEF Between, LastColumn
<1> QED BY <1>1, <1>2 DEF ReadsAs

LEMMA QuotedIsRead ==
    ASSUME NEW s \in Bytes, ~Has(s, {Newline})
    PROVE  ReadsAs(GoQuote(s), s)
<1> DEFINE w == Replaced(s, GoEscaped)
<1>1. /\ w \in Bytes /\ <<>> \in Bytes /\ <<Quote>> \in Bytes /\ Quote \in AnyByte
      /\ <<Quote>> \o w \in Bytes /\ (<<Quote>> \o w) \o <<Quote>> \in Bytes
  BY GoEscapedFacts, ReplacedFacts, BytesOf
<1>2. GoQuote(s) = (<<Quote>> \o w) \o <<Quote>>
  BY DEF GoQuote, Surrounded
<1>3. ~Has(w, {Newline})
  BY PgReadEscaped, <<>> \in Seq(ColumnText)
<1> HIDE DEF w
<1>4. GoQuote(s) \in Bytes /\ ~Has(GoQuote(s), {Newline})
  <2>1. ~Has(<<Quote>>, {Newline})
    BY SpecialAssumption, HasFacts
  <2> QED BY <1>1, <1>2, <1>3, <2>1, HasFacts
<1>5. ASSUME NEW X \in Seq(ColumnText)
      PROVE  Between(PgRead(Pg(X, <<>>, "start"), GoQuote(s)), Append(X, s))
  <2> DEFINE q == Pg(X, <<>>, "start")
             p == Pg(X, <<>>, "quoted")
             o == Pg(X, s, "quoted")
  <2>1. q \in PgState /\ p \in PgState /\ o \in PgState
    BY <1>1, PgSteps
  <2>2. PgByte(q, Quote) = p /\ PgByte(o, Quote) = Pg(X, s, "closing")
    BY <1>1, PgSteps
  <2>3. PgRead(p, w) = o
    BY PgReadEscaped DEF w
  <2> HIDE DEF q, p, o
  <2>4. PgRead(q, <<Quote>>) = p /\ PgRead(o, <<Quote>>) = Pg(X, s, "closing")
    BY <1>1, <2>1, <2>2, PgReadFacts
  <2>5. PgRead(q, <<Quote>> \o w) = o
    <3>1. PgRead(q, <<Quote>> \o w) = PgRead(PgRead(q, <<Quote>>), w)
      BY <1>1, <2>1, PgReadFacts
    <3> QED BY <2>3, <2>4, <3>1
  <2>6. PgRead(q, (<<Quote>> \o w) \o <<Quote>>) = Pg(X, s, "closing")
    <3>1. PgRead(q, (<<Quote>> \o w) \o <<Quote>>) = PgRead(PgRead(q, <<Quote>> \o w), <<Quote>>)
      BY <1>1, <2>1, PgReadFacts
    <3> QED BY <2>4, <2>5, <3>1
  <2>7. Between(Pg(X, s, "closing"), Append(X, s))
    BY DEF Between, LastColumn
  <2> QED BY <1>2, <2>6, <2>7 DEF q
<1> QED BY <1>4, <1>5 DEF ReadsAs, ColumnText

LEMMA BareIsRead ==
    ASSUME NEW t \in Bytes, t # <<>>, ~Has(t, Special \ {LBrace, RBrace})
    PROVE  ReadsAs(t, t)
<1>1. ~Has(t, {Newline})
  <2>1. Newline \in Special \ {LBrace, RBrace}
    BY SpecialAssumption DEF Special
  <2> QED BY <2>1 DEF Has
<1>2. ASSUME NEW X \in Seq(ColumnText)
      PROVE  Between(PgRead(Pg(X, <<>>, "start"), t), Append(X, t))
  <2>1. PgRead(Pg(X, <<>>, "start"), t) = Pg(X, t, "bare")
    BY PgReadBare
  <2> QED BY <2>1 DEF Between, LastColumn
<1> QED BY <1>1, <1>2 DEF ReadsAs, ColumnText

-----------------------------------------------------------------------------
(***************************************************************************)
(* What a frame has of the values it is written for: their fate is that of *)
(* those that are left, and of plain ones PostgreSQL reads so far what it  *)
(* should.                                                                 *)
(***************************************************************************)
LEMMA BetweenEnds ==
    ASSUME NEW q, NEW cols \in Seq(ColumnText), Between(q, cols)
    PROVE  /\ q \in PgState
           /\ PgByte(q, Comma) = Pg(cols, <<>>, "start")
           /\ PgByte(q, Close) = Pg(cols, <<>>, "end")
<1>1. PICK X \in Seq(ColumnText), t \in Bytes, m \in {"start", "bare", "closing"} :
         q = Pg(X, t, m) /\ cols = Append(X, LastColumn(t, m))
  BY DEF Between
<1> QED BY <1>1, PgSteps DEF LastColumn

PlainJob(what, items) ==
    IF what = "record" THEN items # <<>> /\ AllPlain(items)
    ELSE Len(items) <= 1 /\ \A k \in DOMAIN items : items[k].kind = "token"

(* n of the values are written.                                            *)
ReadSoFar(n, left, out, items) ==
    /\ n \in Nat /\ AllPlain(left)
    /\ \A k \in 1 .. Len(left) : Means[left[k]] = Means[items[n + k]]
    /\ ~Has(out, {Newline})
    /\ \E body \in Bytes, cols \in Seq(ColumnText) :
          /\ out = <<Open>> \o body
          /\ Len(cols) = n /\ \A k \in 1 .. n : cols[k] \in Means[items[k]]
          /\ IF left = <<>> THEN Between(PgRead(PgStart, body), cols)
             ELSE PgRead(PgStart, body) = Pg(cols, <<>>, "start")

RecordSoFar(left, out, items) == ReadSoFar(Len(items) - Len(left), left, out, items)

ArraySoFar(left, out, items) ==
    IF left = <<>> THEN out = <<LBrace>> \o (IF items = <<>> THEN <<>> ELSE items[1].text)
    ELSE left = items /\ out = <<LBrace>>

SoFar(what, left, out, items) ==
    IF what = "record" THEN RecordSoFar(left, out, items) ELSE ArraySoFar(left, out, items)

Serves(fr, what, items) ==
    /\ fr.what = what /\ Fates(fr.left) = Fates(items)
    /\ PlainJob(what, items) => SoFar(what, fr.left, fr.out, items)

LEMMA FrameFacts ==
    ASSUME NEW fr \in Frames
    PROVE  /\ fr.what \in {"record", "array"} /\ fr.left \in Items
           /\ fr.text \in Bytes /\ fr.out \in Bytes
BY DEF Frames

CommaIf(left) == IF Len(left) > 1 THEN <<Comma>> ELSE <<>>

LEMMA FrameExcept ==
    ASSUME NEW W, NEW L, NEW B, NEW fr \in [what : W, left : L, text : B, out : B],
           NEW t \in B, NEW o \in B, NEW left \in L
    PROVE  LET to == [fr EXCEPT !.text = t, !.out = o, !.left = left]
           IN  /\ to \in [what : W, left : L, text : B, out : B]
               /\ to.what = fr.what /\ to.left = left /\ to.text = t /\ to.out = o
OBVIOUS

LEMMA WroteFacts ==
    ASSUME NEW fr \in Frames, fr.left # <<>>, NEW t \in Bytes
    PROVE  LET to == Wrote(fr, t)
           IN  /\ to \in Frames
               /\ to.what = fr.what /\ to.left = Tail(fr.left)
               /\ to.out = fr.out \o t \o CommaIf(fr.left)
<1> DEFINE o == fr.out \o t \o CommaIf(fr.left)
           l == Tail(fr.left)
<1>1. CommaIf(fr.left) \in Bytes
  BY BytesOf DEF CommaIf
<1>2. o \in Bytes
  BY <1>1, FrameFacts, BytesOf
<1>3. l \in Items
  BY FrameFacts, HeadTail DEF Items
<1>4. Wrote(fr, t) = [fr EXCEPT !.text = t, !.out = o, !.left = l]
  BY DEF Wrote, CommaIf
<1> HIDE DEF o, l
<1>5. fr \in [what : {"record", "array"}, left : Items, text : Bytes, out : Bytes]
  BY DEF Frames
<1>6. LET to == [fr EXCEPT !.text = t, !.out = o, !.left = l]
      IN  /\ to \in [what : {"record", "array"}, left : Items, text : Bytes, out : Bytes]
          /\ to.what = fr.what /\ to.left = l /\ to.text = t /\ to.out = o
  BY <1>2, <1>3, <1>5, FrameExcept
<1> QED BY <1>4, <1>6 DEF o, l, Frames

(* A text that PostgreSQL reads as it should takes a record one column on. *)
LEMMA RecordGoesOn ==
    ASSUME NEW left \in Items, left # <<>>, NEW out \in Bytes, NEW items \in Items,
           RecordSoFar(left, out, items),
           NEW t \in Bytes, Plain[Head(left)] => \E c \in Means[Head(left)] : ReadsAs(t, c)
    PROVE  RecordSoFar(Tail(left), out \o t \o CommaIf(left), items)
<1> DEFINE n == Len(items) - Len(left)
           g == Head(left)
           rest == Tail(left)
           end == CommaIf(left)
<1>1. /\ g = left[1] /\ Len(left) \in Nat \ {0} /\ g \in Field /\ Len(items) \in Nat
      /\ rest \in Items /\ Len(rest) = Len(left) - 1
      /\ \A k \in 1 .. Len(rest) : rest[k] = left[k + 1]
      /\ DOMAIN left = 1 .. Len(left) /\ DOMAIN rest = 1 .. Len(rest)
  BY HeadTail DEF Items
<1>2. PICK body \in Bytes, cols \in Seq(ColumnText) :
         /\ out = <<Open>> \o body
         /\ Len(cols) = n /\ \A k \in 1 .. n : cols[k] \in Means[items[k]]
         /\ PgRead(PgStart, body) = Pg(cols, <<>>, "start")
  BY DEF RecordSoFar, ReadSoFar
<1>3. /\ n \in Nat /\ AllPlain(left) /\ ~Has(out, {Newline})
      /\ \A k \in 1 .. Len(left) : Means[left[k]] = Means[items[n + k]]
  BY DEF RecordSoFar, ReadSoFar
<1>4. PICK c \in Means[g] : ReadsAs(t, c)
  <2>1. Plain[g]
    BY <1>1, <1>3 DEF AllPlain
  <2> QED BY <2>1
<1> HIDE DEF n, g, rest, end
<1>5. Len(items) - Len(rest) = n + 1
  BY <1>1 DEF n
<1>6. AllPlain(rest)
  <2>1. \A k \in 1 .. Len(rest) : k + 1 \in 1 .. Len(left)
    BY <1>1
  <2>2. \A k \in 1 .. Len(left) : Plain[left[k]]
    BY <1>1, <1>3 DEF AllPlain
  <2>3. \A k \in 1 .. Len(rest) : Plain[rest[k]]
    BY <1>1, <2>1, <2>2
  <2> QED BY <1>1, <2>3 DEF AllPlain
<1>7. ASSUME NEW k \in 1 .. Len(rest) PROVE Means[rest[k]] = Means[items[(n + 1) + k]]
  <2>1. k + 1 \in 1 .. Len(left) /\ n + (k + 1) = (n + 1) + k /\ rest[k] = left[k + 1]
    BY <1>1, <1>3
  <2>2. Means[left[k + 1]] = Means[items[n + (k + 1)]]
    BY <1>3, <2>1
  <2> QED BY <2>1, <2>2
<1>8. end \in Bytes /\ ~Has(end, {Newline}) /\ t \in Bytes /\ ~Has(t, {Newline})
      /\ <<Open>> \in Bytes /\ c \in ColumnText
  BY <1>4, HasFacts, BytesOf, SpecialAssumption DEF ReadsAs, end, CommaIf
<1>9. ~Has(out \o t \o end, {Newline})
  <2>1. out \o t \in Bytes /\ ~Has(out \o t, {Newline})
    BY <1>3, <1>8, HasFacts, BytesOf
  <2> QED BY <1>8, <2>1, HasFacts
<1>10. out \o t \o end = <<Open>> \o ((body \o t) \o end) /\ (body \o t) \o end \in Bytes
       /\ body \o t \in Bytes
  <2>1. body \o t \in Bytes /\ (body \o t) \o end \in Bytes
    BY <1>8, BytesOf
  <2>2. (<<Open>> \o body) \o t = <<Open>> \o (body \o t)
    BY <1>8, BytesConcat
  <2>3. (<<Open>> \o (body \o t)) \o end = <<Open>> \o ((body \o t) \o end)
    <3> DEFINE u == body \o t
    <3>1. u \in Bytes /\ end \in Bytes /\ <<Open>> \in Bytes
      BY <1>8, <2>1
    <3> HIDE DEF u
    <3>2. (<<Open>> \o u) \o end = <<Open>> \o (u \o end)
      BY <3>1, BytesConcat
    <3> QED BY <3>2 DEF u
  <2> QED BY <1>2, <2>1, <2>2, <2>3
<1> DEFINE more == Append(cols, c)
<1>11. /\ more \in Seq(ColumnText) /\ Len(more) = n + 1
       /\ \A k \in 1 .. n : more[k] = cols[k]
       /\ more[n + 1] = c
  BY <1>2, <1>8
<1> HIDE DEF more
<1>12. \A k \in 1 .. n + 1 : more[k] \in Means[items[k]]
  <2> SUFFICES ASSUME NEW k \in 1 .. n + 1 PROVE more[k] \in Means[items[k]]
    OBVIOUS
  <2>1. CASE k \in 1 .. n
    BY <1>2, <1>11, <2>1
  <2>2. CASE k = n + 1
    <3>1. 1 \in 1 .. Len(left)
      BY <1>1
    <3>2. Means[left[1]] = Means[items[n + 1]]
      BY <1>3, <3>1
    <3> QED BY <1>1, <1>4, <1>11, <2>2, <3>2
  <2> QED BY <1>3, <2>1, <2>2
<1>13. PgStart \in PgState
  <2>1. <<>> \in Seq(ColumnText) /\ <<>> \in Bytes
    BY BytesOf
  <2>2. Pg(<<>>, <<>>, "start") \in PgState
    BY <2>1, PgSteps
  <2> QED BY <2>2 DEF Pg, PgStart
<1>14. Between(PgRead(PgStart, body \o t), more)
  <2>1. PgRead(PgStart, body \o t) = PgRead(PgRead(PgStart, body), t)
    BY <1>8, <1>13, PgReadFacts
  <2> QED BY <1>2, <1>4, <2>1 DEF ReadsAs, more
<1>15. IF rest = <<>> THEN Between(PgRead(PgStart, (body \o t) \o end), more)
       ELSE PgRead(PgStart, (body \o t) \o end) = Pg(more, <<>>, "start")
  <2>1. CASE rest = <<>>
    <3>1. end = <<>>
      <4>1. Len(rest) = 0
        BY <2>1
      <4>2. Len(left) = 1
        BY <1>1, <4>1
      <4>3. ~ (Len(left) > 1)
        BY <4>2
      <4> QED BY <4>3 DEF end, CommaIf
    <3>2. (body \o t) \o end = body \o t
      BY <1>10, <3>1, BytesConcat
    <3> QED BY <1>14, <2>1, <3>2
  <2>2. CASE rest # <<>>
    <3>1. end = <<Comma>>
      <4>1. Len(rest) # 0
        BY <1>1, <2>2 DEF Items
      <4> QED BY <1>1, <4>1 DEF end, CommaIf
    <3> DEFINE q == PgRead(PgStart, body \o t)
    <3>2. q \in PgState /\ PgByte(q, Comma) = Pg(more, <<>>, "start")
      BY <1>11, <1>14, BetweenEnds
    <3>3. PgRead(PgStart, (body \o t) \o <<Comma>>) = PgRead(q, <<Comma>>)
      BY <1>8, <1>10, <1>13, <3>1, PgReadFacts
    <3> HIDE DEF q
    <3>4. PgRead(q, <<Comma>>) = PgByte(q, Comma)
      BY <3>2, PgReadFacts, BytesOf
    <3> QED BY <2>2, <3>1, <3>2, <3>3, <3>4
  <2> QED BY <2>1, <2>2
<1>16. RecordSoFar(rest, out \o t \o end, items)
  <2>1. n + 1 \in Nat
    BY <1>3
  <2> QED BY <1>5, <1>6, <1>7, <1>9, <1>10, <1>11, <1>12, <1>15, <2>1 DEF RecordSoFar, ReadSoFar
<1> QED BY <1>16 DEF rest, end

LEMMA GoQuoteTyped == \A s \in Bytes : GoQuote(s) \in Bytes
<1> SUFFICES ASSUME NEW s \in Bytes PROVE GoQuote(s) \in Bytes
  OBVIOUS
<1>1. Replaced(s, GoEscaped) \in Bytes /\ <<Quote>> \in Bytes
  BY GoEscapedFacts, ReplacedFacts, BytesOf
<1>2. (<<Quote>> \o Replaced(s, GoEscaped)) \o <<Quote>> \in Bytes
  BY <1>1, BytesOf
<1> QED BY <1>2 DEF GoQuote, Surrounded

LEMMA LettersAreBare ==
    ASSUME NEW t \in Seq(Letter), NEW B \in SUBSET Special
    PROVE  t \in Bytes /\ ~Has(t, B)
BY LettersAreBytes, LetterAssumption DEF Has

(* The head of what is left gives t, and not more is to be asked of it.    *)
LEMMA WroteServes ==
    ASSUME NEW fr \in Frames, fr.left # <<>>, NEW t \in Bytes,
           Fate[Head(fr.left)] = "done",
           fr.what = "record" /\ Plain[Head(fr.left)] =>
              \E c \in Means[Head(fr.left)] : ReadsAs(t, c),
           Head(fr.left).kind = "token" => t = Head(fr.left).text,
           NEW what \in {"record", "array"}, NEW items \in Items, Serves(fr, what, items)
    PROVE  Wrote(fr, t) \in Frames /\ Serves(Wrote(fr, t), what, items)
<1> DEFINE to == Wrote(fr, t)
           g == Head(fr.left)
<1>1. /\ fr.what \in {"record", "array"} /\ fr.left \in Items
      /\ fr.text \in Bytes /\ fr.out \in Bytes
  BY FrameFacts
<1>2. /\ to \in Frames /\ to.what = fr.what /\ to.left = Tail(fr.left)
      /\ to.out = fr.out \o t \o CommaIf(fr.left)
  BY WroteFacts
<1> HIDE DEF to
<1>3. /\ fr.what = what /\ Fates(fr.left) = Fates(items)
      /\ PlainJob(what, items) => SoFar(what, fr.left, fr.out, items)
  BY DEF Serves
<1>4. Fates(to.left) = Fates(items)
  <2>1. Fates(fr.left) = IF Fate[g] = "done" THEN Fates(Tail(fr.left)) ELSE Fate[g]
    BY <1>1, FatesFacts
  <2> QED BY <1>2, <1>3, <2>1
<1>5. ASSUME PlainJob(what, items), what = "record"
      PROVE  SoFar(what, to.left, to.out, items)
  <2>1. RecordSoFar(fr.left, fr.out, items)
    BY <1>3, <1>5 DEF SoFar
  <2>2. Plain[g] => \E c \in Means[g] : ReadsAs(t, c)
    BY <1>3, <1>5
  <2>3. RecordSoFar(Tail(fr.left), fr.out \o t \o CommaIf(fr.left), items)
    BY <1>1, <2>1, <2>2, RecordGoesOn
  <2> QED BY <1>2, <1>5, <2>3 DEF SoFar
<1>6. ASSUME PlainJob(what, items), what # "record"
      PROVE  SoFar(what, to.left, to.out, items)
  <2>1. fr.left = items /\ fr.out = <<LBrace>>
    BY <1>3, <1>6 DEF SoFar, ArraySoFar
  <2>2. /\ Len(items) \in Nat \ {0} /\ g = items[1] /\ Len(Tail(items)) = Len(items) - 1
        /\ Tail(items) \in Seq(Field)
    BY <2>1, HeadTail DEF Items
  <2>3. Len(items) <= 1 /\ \A k \in 1 .. Len(items) : items[k].kind = "token"
    BY <1>6 DEF PlainJob, Items
  <2>4. Len(items) = 1 /\ items[1].kind = "token"
    BY <2>2, <2>3
  <2>5. Tail(items) = <<>>
    <3>1. Len(Tail(items)) = 0
      BY <2>2, <2>4
    <3> QED BY <2>2, <3>1, EmptySeq
  <2>6. CommaIf(fr.left) = <<>>
    BY <2>1, <2>4 DEF CommaIf
  <2>7. t = items[1].text
    BY <2>2, <2>4
  <2>8. <<LBrace>> \in Bytes /\ <<LBrace>> \o t \in Bytes
    BY BytesOf
  <2>9. to.out = <<LBrace>> \o t
    <3>1. (<<LBrace>> \o t) \o <<>> = <<LBrace>> \o t
      BY <2>8, BytesConcat
    <3> QED BY <1>2, <2>1, <2>6, <3>1
  <2>10. items # <<>> /\ to.left = <<>>
    BY <1>2, <2>1, <2>5
  <2> QED BY <1>6, <2>7, <2>9, <2>10 DEF SoFar, ArraySoFar
<1>7. Serves(to, what, items)
  BY <1>2, <1>3, <1>4, <1>5, <1>6 DEF Serves
<1> QED BY <1>2, <1>7 DEF to

(* A pointer and a POD go on with the value they have.                     *)
LEMMA GoOnServes ==
    ASSUME NEW fr \in Frames, fr.left # <<>>, Head(fr.left).kind # "token", NEW h \in Field,
           Fate[h] = Fate[Head(fr.left)], Plain[Head(fr.left)] => Plain[h],
           Means[h] = Means[Head(fr.left)],
           NEW what \in {"record", "array"}, NEW items \in Items, Serves(fr, what, items)
    PROVE  LET to == [fr EXCEPT !.left = <<h>> \o Tail(@)]
           IN  to \in Frames /\ Serves(to, what, items)
<1> DEFINE to == [fr EXCEPT !.left = <<h>> \o Tail(@)]
           g == Head(fr.left)
           left == fr.left
           next == <<h>> \o Tail(left)
<1>1. /\ left \in Items /\ fr.out \in Bytes
  BY FrameFacts
<1>2. /\ g = left[1] /\ Len(left) \in Nat \ {0} /\ g \in Field
      /\ Tail(left) \in Seq(Field) /\ Len(Tail(left)) = Len(left) - 1
      /\ \A k \in 1 .. Len(Tail(left)) : Tail(left)[k] = left[k + 1]
  BY <1>1, HeadTail DEF Items
<1>3. /\ next \in Items /\ Len(next) = Len(left) /\ next[1] = h /\ next # <<>>
      /\ \A k \in 1 .. Len(left) : k # 1 => next[k] = left[k]
  <2> DEFINE l == Len(left)
             u == Tail(left)
  <2>1. u \in Seq(Field) /\ l \in Nat \ {0} /\ Len(u) = l - 1 /\ \A k \in 1 .. l - 1 : u[k] = left[k + 1]
    BY <1>2
  <2> HIDE DEF l, u
  <2>2. <<h>> \o u \in Seq(Field) /\ Len(<<h>> \o u) = l /\ (<<h>> \o u)[1] = h
    BY <2>1
  <2>3. \A k \in 1 .. l : k # 1 => (<<h>> \o u)[k] = left[k]
    <3> SUFFICES ASSUME NEW k \in 1 .. l, k # 1 PROVE (<<h>> \o u)[k] = left[k]
      OBVIOUS
    <3>1. (<<h>> \o u)[k] = u[k - 1]
      BY <2>1
    <3>2. k - 1 \in 1 .. l - 1 /\ (k - 1) + 1 = k
      BY <2>1
    <3> QED BY <2>1, <3>1, <3>2
  <2>4. <<h>> \o u # <<>>
    BY <2>1, <2>2
  <2> QED BY <2>2, <2>3, <2>4 DEF l, u, Items
<1> HIDE DEF next, left
<1>4. /\ to \in Frames /\ to.what = fr.what /\ to.left = next /\ to.out = fr.out
  BY <1>3 DEF Frames, next, left
<1> HIDE DEF to
<1>5. /\ fr.what = what /\ Fates(left) = Fates(items)
      /\ PlainJob(what, items) => SoFar(what, left, fr.out, items)
  BY DEF Serves, left
<1>6. Fates(next) = Fates(left)
  <2>1. Fates(left) = IF Fate[g] = "done" THEN Fates(Tail(left)) ELSE Fate[g]
    BY <1>1, FatesFacts DEF left
  <2>2. Fates(next) = IF Fate[h] = "done" THEN Fates(Tail(left)) ELSE Fate[h]
    BY <1>2, FatesFacts DEF next, Items
  <2> QED BY <2>1, <2>2
<1>7. ASSUME PlainJob(what, items), what = "record"
      PROVE  SoFar(what, next, fr.out, items)
  <2>1. RecordSoFar(left, fr.out, items)
    BY <1>5, <1>7 DEF SoFar
  <2>2. left # <<>> /\ DOMAIN left = 1 .. Len(left) /\ DOMAIN next = 1 .. Len(left)
    BY <1>1, <1>3 DEF left, Items
  <2>3. AllPlain(next)
    <3>1. \A k \in 1 .. Len(left) : Plain[left[k]]
      BY <2>1, <2>2 DEF RecordSoFar, ReadSoFar, AllPlain
    <3>2. Plain[h]
      <4>1. 1 \in 1 .. Len(left)
        BY <1>2
      <4> QED BY <1>2, <3>1, <4>1
    <3> QED BY <1>3, <2>2, <3>1, <3>2 DEF AllPlain
  <2>4. \A k \in 1 .. Len(next) : Means[next[k]] = Means[left[k]]
    BY <1>2, <1>3
  <2> HIDE DEF g
  <2>5. RecordSoFar(next, fr.out, items)
    BY <1>3, <2>1, <2>2, <2>3, <2>4 DEF RecordSoFar, ReadSoFar
  <2> QED BY <1>7, <2>5 DEF SoFar
<1>8. ~ (PlainJob(what, items) /\ what # "record")
  <2> SUFFICES ASSUME PlainJob(what, items), what # "record" PROVE FALSE
    OBVIOUS
  <2>1. left = items
    BY <1>5 DEF SoFar, ArraySoFar, left
  <2>2. \A k \in 1 .. Len(items) : items[k].kind = "token"
    BY DEF PlainJob, Items
  <2> QED BY <1>2, <2>1, <2>2
<1>9. Serves(to, what, items)
  BY <1>4, <1>5, <1>6, <1>7, <1>8 DEF Serves
<1> QED BY <1>4, <1>9 DEF to

(* A frame is made for a struct or a slice.                                *)
LEMMA FrameServes ==
    ASSUME NEW what \in {"record", "array"}, NEW items \in Items
    PROVE  Frame(what, items) \in Frames /\ Serves(Frame(what, items), what, items)
<1> DEFINE fr == Frame(what, items)
           b == IF what = "record" THEN Open ELSE LBrace
<1>1. <<b>> \in Bytes /\ <<>> \in Bytes /\ <<>> \in Seq(ColumnText)
  BY BytesOf
<1>2. fr = [what |-> what, left |-> items, text |-> <<>>, out |-> <<b>>]
  BY DEF Frame
<1>3. fr \in Frames /\ fr.what = what /\ fr.left = items /\ fr.out = <<b>>
  BY <1>1, <1>2 DEF Frames
<1> HIDE DEF fr
<1>4. ASSUME what = "record", items # <<>>, AllPlain(items)
      PROVE  RecordSoFar(items, <<b>>, items)
  <2>1. Len(items) - Len(items) = 0 /\ \A k \in 1 .. Len(items) : 0 + k = k
    BY DEF Items
  <2>2. ~Has(<<b>>, {Newline})
    BY <1>4, HasFacts, SpecialAssumption
  <2>3. <<b>> = <<Open>> \o <<>>
    BY <1>1, <1>4, BytesConcat
  <2>4. PgRead(PgStart, <<>>) = Pg(<<>>, <<>>, "start")
    <3>1. Pg(<<>>, <<>>, "start") \in PgState
      BY <1>1, PgSteps
    <3>2. PgStart = Pg(<<>>, <<>>, "start")
      BY DEF Pg, PgStart
    <3> QED BY <3>1, <3>2, PgReadFacts
  <2>5. Len(<<>>) = 0
    OBVIOUS
  <2> DEFINE none == <<>>
  <2>6. none \in Bytes /\ none \in Seq(ColumnText) /\ Len(none) = 0
        /\ <<b>> = <<Open>> \o none /\ PgRead(PgStart, none) = Pg(none, <<>>, "start")
    BY <1>1, <2>3, <2>4, <2>5
  <2> HIDE DEF none, b
  <2> DEFINE n == Len(items) - Len(items)
  <2>7. n = 0 /\ \A k \in 1 .. Len(items) : n + k = k
    BY <2>1
  <2> HIDE DEF n
  <2>8. \E body \in Bytes, cols \in Seq(ColumnText) :
           /\ <<b>> = <<Open>> \o body
           /\ Len(cols) = n /\ \A k \in 1 .. n : cols[k] \in Means[items[k]]
           /\ IF items = <<>> THEN Between(PgRead(PgStart, body), cols)
              ELSE PgRead(PgStart, body) = Pg(cols, <<>>, "start")
    <3>1. \A k \in 1 .. n : none[k] \in Means[items[k]]
      BY <2>7
    <3>2. IF items = <<>> THEN Between(PgRead(PgStart, none), none)
          ELSE PgRead(PgStart, none) = Pg(none, <<>>, "start")
      BY <1>4, <2>6
    <3> QED BY <2>6, <2>7, <3>1, <3>2
  <2>9. \A k \in 1 .. Len(items) : Means[items[k]] = Means[items[n + k]]
    BY <2>7
  <2>10. ReadSoFar(n, items, <<b>>, items)
    BY <1>4, <2>2, <2>7, <2>8, <2>9 DEF ReadSoFar
  <2> QED BY <2>10 DEF RecordSoFar, n
<1>5. ASSUME what # "record" PROVE ArraySoFar(items, <<b>>, items)
  <2>1. <<LBrace>> \o <<>> = <<LBrace>>
    BY <1>1, <1>5, BytesConcat
  <2> QED BY <1>5, <2>1 DEF ArraySoFar
<1>6. Serves(fr, what, items)
  BY <1>3, <1>4, <1>5 DEF Serves, PlainJob, SoFar
<1> QED BY <1>3, <1>6 DEF fr

-----------------------------------------------------------------------------
(***************************************************************************)
(* A frame that is closed gives its caller what the caller's field is.     *)
(***************************************************************************)
LEMMA ClosedTyped ==
    ASSUME NEW fr \in Frames
    PROVE  /\ Closed(fr) \in Bytes
           /\ Closed(fr) = fr.out \o <<IF fr.what = "record" THEN Close ELSE RBrace>>
<1> DEFINE b == IF fr.what = "record" THEN Close ELSE RBrace
<1>1. b \in AnyByte /\ <<b>> \in Bytes /\ fr.out \in Bytes
  BY FrameFacts, BytesOf
<1> HIDE DEF b
<1>2. Append(fr.out, b) = fr.out \o <<b>> /\ fr.out \o <<b>> \in Bytes
  BY <1>1, AppendIsConcat, BytesOf DEF Bytes
<1> QED BY <1>2 DEF Closed, b

LEMMA RecordClosed ==
    ASSUME NEW fr \in Frames, fr.what = "record", NEW items \in Items,
           RecordSoFar(<<>>, fr.out, items)
    PROVE  ~Has(Closed(fr), {Newline}) /\ Reads(Closed(fr), items)
<1>1. Len(items) - Len(<<>>) = Len(items) /\ Len(items) \in Nat /\ DOMAIN items = 1 .. Len(items)
  BY DEF Items
<1>2. ReadSoFar(Len(items), <<>>, fr.out, items)
  BY <1>1 DEF RecordSoFar
<1>3. PICK body \in Bytes, cols \in Seq(ColumnText) :
         /\ fr.out = <<Open>> \o body
         /\ Len(cols) = Len(items) /\ \A k \in 1 .. Len(items) : cols[k] \in Means[items[k]]
         /\ Between(PgRead(PgStart, body), cols)
  BY <1>2 DEF ReadSoFar
<1> DEFINE s == Closed(fr)
           rest == body \o <<Close>>
           q == PgRead(PgStart, body)
<1>4. /\ <<Close>> \in Bytes /\ <<Open>> \in Bytes /\ fr.out \in Bytes /\ rest \in Bytes
      /\ Open \in AnyByte /\ Close \in AnyByte
  BY BytesOf, FrameFacts
<1>5. s = <<Open>> \o rest
  <2>1. s = (<<Open>> \o body) \o <<Close>>
    BY <1>3, ClosedTyped
  <2> QED BY <1>4, <2>1, BytesConcat
<1>6. s # <<>> /\ Head(s) = Open /\ Tail(s) = rest
  BY <1>4, <1>5, HeadAndRest DEF Bytes
<1>7. PgStart \in PgState
  <2>1. <<>> \in Seq(ColumnText) /\ <<>> \in Bytes
    BY BytesOf
  <2>2. Pg(<<>>, <<>>, "start") \in PgState
    BY <2>1, PgSteps
  <2> QED BY <2>2 DEF Pg, PgStart
<1>8. q \in PgState /\ PgByte(q, Close) = Pg(cols, <<>>, "end")
  BY <1>3, BetweenEnds
<1>9. PgRead(PgStart, rest) = PgRead(q, <<Close>>)
  BY <1>4, <1>7, PgReadFacts
<1> HIDE DEF s, rest, q
<1>10. PgRead(PgStart, rest) = Pg(cols, <<>>, "end")
  BY <1>4, <1>8, <1>9, PgReadFacts
<1>11. PgColumns(s) = cols
  <2>1. Pg(cols, <<>>, "end").mode = "end" /\ Pg(cols, <<>>, "end").cols = cols
    BY DEF Pg
  <2> QED BY <1>6, <1>10, <2>1 DEF PgColumns
<1>12. Reads(s, items)
  BY <1>1, <1>3, <1>11 DEF Reads, ReadsBy
<1>13. ~Has(s, {Newline})
  <2>1. ~Has(fr.out, {Newline})
    BY <1>2 DEF ReadSoFar
  <2>2. ~Has(<<Close>>, {Newline})
    BY HasFacts, SpecialAssumption
  <2>3. s = fr.out \o <<Close>>
    BY ClosedTyped DEF s
  <2> QED BY <1>4, <2>1, <2>2, <2>3, HasFacts
<1> QED BY <1>12, <1>13 DEF s

LEMMA ArrayClosed ==
    ASSUME NEW fr \in Frames, fr.what = "array", NEW items \in Items,
           PlainJob("array", items), ArraySoFar(<<>>, fr.out, items)
    PROVE  /\ Closed(fr) = PgArray([k \in DOMAIN items |-> items[k].text])
           /\ ReadsAs(Closed(fr), Closed(fr))
<1> DEFINE t == IF items = <<>> THEN <<>> ELSE items[1].text
           ts == [k \in DOMAIN items |-> items[k].text]
           B == Special \ {LBrace, RBrace}
<1>1. Len(items) \in Nat /\ Len(items) <= 1 /\ items \in Seq(Field) /\ DOMAIN items = 1 .. Len(items)
      /\ \A k \in DOMAIN items : items[k].kind = "token"
  BY DEF PlainJob, Items
<1>2. items # <<>> => Len(items) = 1 /\ items[1] \in Field /\ t \in Seq(Letter) \ {<<>>}
  <2> SUFFICES ASSUME items # <<>>
               PROVE  Len(items) = 1 /\ items[1] \in Field /\ t \in Seq(Letter) \ {<<>>}
    OBVIOUS
  <2>1. Len(items) # 0
    BY <1>1, EmptySeq
  <2>2. Len(items) = 1 /\ 1 \in DOMAIN items
    BY <1>1, <2>1
  <2>3. items[1] \in Field /\ items[1].kind = "token"
    BY <1>1, <2>2
  <2>4. Said(items[1])
    BY <2>3, FieldAssumption
  <2> QED BY <2>2, <2>3, <2>4 DEF Said
<1>3. t \in Bytes /\ ~Has(t, B) /\ ~Has(t, Special \ {Open, Close})
  <2>1. CASE items = <<>>
    BY <2>1, HasFacts, BytesOf
  <2>2. CASE items # <<>>
    BY <1>2, <2>2, LettersAreBare
  <2> QED BY <2>1, <2>2
<1>4. Closed(fr) = (<<LBrace>> \o t) \o <<RBrace>>
  <2>1. fr.out = <<LBrace>> \o t
    BY DEF ArraySoFar
  <2> QED BY <2>1, ClosedTyped
<1>5. PgArray(ts) = (<<LBrace>> \o t) \o <<RBrace>>
  <2> DEFINE es == [i \in DOMAIN ts |-> PgElement(ts[i])]
  <2>1. Commas(es) = t
    <3>1. CASE items = <<>>
      <4>1. es = <<>>
        BY <1>1, <3>1
      <4> QED BY <3>1, <4>1 DEF Commas
    <3>2. CASE items # <<>>
      <4>1. PgElement(t) = t
        BY <1>2, <1>3, <3>2 DEF PgElement
      <4>2. es = <<t>>
        BY <1>1, <1>2, <3>2, <4>1
      <4> HIDE DEF es, t
      <4>3. Joined(<<t>>) = <<Comma>> \o t
        <5>1. <<t>> = Append(<<>>, t) /\ <<>> \in Seq(Bytes)
          OBVIOUS
        <5>2. Joined(Append(<<>>, t)) = Joined(<<>>) \o (<<Comma>> \o t)
          BY <1>3, <5>1, JoinedFacts
        <5>3. <<Comma>> \o t \in Bytes /\ Joined(<<>>) = <<>>
          BY <1>3, BytesOf, JoinedFacts
        <5> QED BY <5>1, <5>2, <5>3, BytesConcat
      <4>4. Tail(<<Comma>> \o t) = t
        BY <1>3, BytesOf, HeadAndRest DEF Bytes
      <4> QED BY <4>2, <4>3, <4>4 DEF Commas
    <3> QED BY <3>1, <3>2
  <2> HIDE DEF es, t
  <2>2. PgArray(ts) = Surrounded(LBrace, Commas(es), RBrace)
    BY DEF PgArray, es
  <2> QED BY <2>1, <2>2 DEF Surrounded
<1> HIDE DEF t
<1>6. ReadsAs(Closed(fr), Closed(fr))
  <2>1. ~Has(<<LBrace>>, B) /\ ~Has(<<RBrace>>, B)
    BY HasFacts
  <2>2. /\ <<LBrace>> \in Bytes /\ <<RBrace>> \in Bytes /\ <<LBrace>> \o t \in Bytes
        /\ Closed(fr) \in Bytes
    BY <1>3, BytesOf, ClosedTyped
  <2>3. ~Has(Closed(fr), B)
    <3> HIDE DEF B
    <3>1. ~Has(<<LBrace>> \o t, B)
      BY <1>3, <2>1, <2>2, HasFacts
    <3>2. ~Has((<<LBrace>> \o t) \o <<RBrace>>, B)
      BY <2>1, <2>2, <3>1, HasFacts
    <3> QED BY <1>4, <3>2
  <2>4. Closed(fr) # <<>>
    <3>1. Closed(fr) = <<LBrace>> \o (t \o <<RBrace>>) /\ t \o <<RBrace>> \in Bytes
      BY SMTT(30), <1>3, <1>4, <2>2, BytesConcat, BytesOf
    <3>2. <<LBrace>> \o (t \o <<RBrace>>) # <<>>
      BY <3>1, BytesOf, HeadAndRest DEF Bytes
    <3> QED BY <3>1, <3>2
  <2> QED BY <2>2, <2>3, <2>4, BareIsRead DEF B
<1> QED BY <1>4, <1>5, <1>6

(* t is what the code may write for g into a record or an array.           *)
Fits(t, what, g) ==
    /\ t \in Bytes /\ Fate[g] = "done"
    /\ what = "record" /\ Plain[g] => \E c \in Means[g] : ReadsAs(t, c)
    /\ g.kind = "token" => t = g.text

LEMMA FitsServes ==
    ASSUME NEW fr \in Frames, fr.left # <<>>, NEW t, Fits(t, fr.what, Head(fr.left))
    PROVE  /\ Wrote(fr, t) \in Frames
           /\ \A what \in {"record", "array"}, items \in Items :
                 Serves(fr, what, items) => Serves(Wrote(fr, t), what, items)
<1> DEFINE g == Head(fr.left)
<1>1. t \in Bytes /\ Fate[g] = "done"
  BY DEF Fits
<1>2. fr.what = "record" /\ Plain[g] => \E c \in Means[g] : ReadsAs(t, c)
  BY DEF Fits
<1>3. g.kind = "token" => t = g.text
  BY DEF Fits
<1>4. Wrote(fr, t) \in Frames
  BY <1>1, WroteFacts
<1>5. ASSUME NEW what \in {"record", "array"}, NEW items \in Items, Serves(fr, what, items)
      PROVE  Serves(Wrote(fr, t), what, items)
  BY <1>1, <1>2, <1>3, <1>5, WroteServes
<1> QED BY <1>4, <1>5

(* The fields that have a text of their own.                               *)
LEMMA SimpleFits ==
    ASSUME NEW g \in Field, NEW what
    PROVE  /\ g.kind = "text" => Fits(GoQuote(g.text), what, g)
           /\ g.kind = "token" => Fits(g.text, what, g)
           /\ g.kind = "nil" => Fits(<<>>, what, g)
           /\ \A t \in Bytes :
                 g.kind = "lost" \/ (g.kind = "call" /\ g.answer.kind \in {"text", "token"})
                    => Fits(t, what, g)
<1>1. ASSUME g.kind = "text" PROVE Fits(GoQuote(g.text), what, g)
  <2>1. g.text \in Bytes
    BY <1>1, FieldAssumption DEF Said
  <2>2. Plain[g] => ~Has(g.text, {Newline})
    BY <1>1, PlainEquation DEF PlainOf
  <2>3. Means[g] = {g.text}
    BY <1>1, MeansEquation DEF MeansOf
  <2>4. Plain[g] => ReadsAs(GoQuote(g.text), g.text)
    BY <2>1, <2>2, QuotedIsRead
  <2>5. GoQuote(g.text) \in Bytes /\ Fate[g] = "done"
    BY <1>1, <2>1, GoQuoteTyped, FateOfParts
  <2> QED BY <1>1, <2>3, <2>4, <2>5 DEF Fits
<1>2. ASSUME g.kind = "token" PROVE Fits(g.text, what, g)
  <2>1. g.text \in Seq(Letter) \ {<<>>}
    BY <1>2, FieldAssumption DEF Said
  <2>2. g.text \in Bytes /\ ~Has(g.text, Special \ {LBrace, RBrace})
    BY <2>1, LettersAreBare
  <2>3. ReadsAs(g.text, g.text)
    BY <2>1, <2>2, BareIsRead
  <2>4. Means[g] = {g.text} /\ Fate[g] = "done"
    BY <1>2, MeansEquation, FateOfParts DEF MeansOf
  <2> QED BY <1>2, <2>2, <2>3, <2>4 DEF Fits
<1>3. ASSUME g.kind = "nil" PROVE Fits(<<>>, what, g)
  <2>1. Means[g] = {Null} /\ Fate[g] = "done" /\ <<>> \in Bytes
    BY <1>3, MeansEquation, FateOfParts, BytesOf DEF MeansOf
  <2> QED BY <1>3, <2>1, NothingIsNull DEF Fits
<1>4. ASSUME NEW t \in Bytes,
             g.kind = "lost" \/ (g.kind = "call" /\ g.answer.kind \in {"text", "token"})
      PROVE  Fits(t, what, g)
  <2>1. ~Plain[g]
    BY <1>4, PlainEquation DEF PlainOf
  <2>2. Fate[g] = "done"
    BY <1>4, FateOfParts
  <2> QED BY <1>4, <2>1, <2>2 DEF Fits
<1> QED BY <1>1, <1>2, <1>3, <1>4

(* fr is the frame of the field that is next in to.                        *)
Under(to, fr) ==
    /\ to.left # <<>> /\ Head(to.left).kind \in {"anon", "slice"}
    /\ Serves(fr, IF Head(to.left).kind = "anon" THEN "record" ELSE "array", Parts(Head(to.left)))

LEMMA GivenFits ==
    ASSUME NEW to \in Frames, NEW fr \in Frames, fr.left = <<>>, Under(to, fr)
    PROVE  Fits(Given(fr, to), to.what, Head(to.left))
<1> DEFINE g == Head(to.left)
           t == Given(fr, to)
           what == IF g.kind = "anon" THEN "record" ELSE "array"
<1>1. to.left # <<>> /\ g.kind \in {"anon", "slice"} /\ Serves(fr, what, Parts(g))
  BY DEF Under
<1>2. g \in Field /\ Parts(g) \in Items
  BY <1>1, FrameFacts, HeadTail, PartsFacts DEF Items
<1>3. /\ fr.what = what /\ Fates(fr.left) = Fates(Parts(g))
      /\ PlainJob(what, Parts(g)) => SoFar(what, <<>>, fr.out, Parts(g))
  BY <1>1 DEF Serves
<1> HIDE DEF g
<1>4. Fate[g] = "done"
  BY <1>1, <1>2, <1>3, FatesFacts, FateOfParts
<1>5. Closed(fr) \in Bytes /\ to.text \in Bytes /\ to.what \in {"record", "array"}
  BY ClosedTyped, FrameFacts
<1>6. t \in Bytes
  BY <1>1, <1>3, <1>5, GoQuoteTyped DEF Given
<1>7. ASSUME g.kind = "anon", Plain[g] PROVE \E c \in Means[g] : ReadsAs(t, c)
  <2>1. t = GoQuote(Closed(fr)) /\ what = "record" /\ Parts(g) = g.fields
    BY <1>3, <1>7 DEF Given, Parts
  <2>2. PlainJob("record", g.fields)
    BY <1>2, <1>7, PlainEquation DEF PlainOf, PlainJob, AllPlain
  <2>3. RecordSoFar(<<>>, fr.out, g.fields)
    BY <1>3, <2>1, <2>2 DEF SoFar
  <2>4. ~Has(Closed(fr), {Newline}) /\ Reads(Closed(fr), g.fields)
    BY <1>2, <1>3, <2>1, <2>3, RecordClosed
  <2>5. Closed(fr) \in Means[g]
    BY <1>2, <1>5, <1>7, <2>4, MeansEquation DEF MeansOf, Reads
  <2> QED BY <1>5, <2>1, <2>4, <2>5, QuotedIsRead
<1>8. ASSUME g.kind = "slice", Plain[g], to.what = "record"
      PROVE  \E c \in Means[g] : ReadsAs(t, c)
  <2>1. t = Closed(fr) /\ what = "array" /\ Parts(g) = g.elems
    BY <1>3, <1>8 DEF Given, Parts
  <2>2. PlainJob("array", g.elems)
    BY <1>2, <1>8, PlainEquation DEF PlainOf, PlainJob
  <2>3. ArraySoFar(<<>>, fr.out, g.elems)
    BY <1>3, <2>1, <2>2 DEF SoFar
  <2>4. /\ Closed(fr) = PgArray([k \in DOMAIN g.elems |-> g.elems[k].text])
        /\ ReadsAs(Closed(fr), Closed(fr))
    BY <1>2, <1>3, <2>1, <2>2, <2>3, ArrayClosed
  <2>5. Closed(fr) \in Means[g]
    BY <1>2, <1>5, <1>8, <2>4, MeansEquation DEF MeansOf
  <2> QED BY <2>1, <2>4, <2>5
<1> QED BY <1>1, <1>4, <1>6, <1>7, <1>8 DEF Fits, g

-----------------------------------------------------------------------------
(***************************************************************************)
(* The stack: the last frame is the one that is written.                   *)
(***************************************************************************)
Stacked(s, gs) ==
    /\ s \in Seq(Frames)
    /\ s # <<>> => Serves(s[1], "record", gs)
    /\ \A k \in 2 .. Len(s) : Under(s[k - 1], s[k])

LEMMA TopReplaced ==
    ASSUME NEW gs \in Items, NEW s, Stacked(s, gs), s # <<>>, NEW fr \in Frames,
           \A what \in {"record", "array"}, items \in Items :
              Serves(s[Len(s)], what, items) => Serves(fr, what, items)
    PROVE  Stacked(Append(SubSeq(s, 1, Len(s) - 1), fr), gs)
<1> DEFINE v == Append(SubSeq(s, 1, Len(s) - 1), fr)
           n == Len(s)
<1>1. s \in Seq(Frames) /\ Serves(s[1], "record", gs) /\ \A k \in 2 .. n : Under(s[k - 1], s[k])
  BY DEF Stacked
<1>2. /\ v \in Seq(Frames) /\ Len(v) = n /\ n \in Nat \ {0} /\ v[n] = fr
      /\ \A k \in 1 .. n - 1 : v[k] = s[k]
  BY <1>1, Below
<1> HIDE DEF v
<1>3. Serves(v[1], "record", gs)
  <2>1. CASE n = 1
    BY <1>1, <1>2, <2>1
  <2>2. CASE n # 1
    <3>1. 1 \in 1 .. n - 1
      BY <1>2, <2>2
    <3> QED BY <1>1, <1>2, <3>1
  <2> QED BY <2>1, <2>2
<1>4. ASSUME NEW k \in 2 .. n PROVE Under(v[k - 1], v[k])
  <2>1. k - 1 \in 1 .. n - 1 /\ v[k - 1] = s[k - 1] /\ s[k - 1] \in Frames
    BY <1>1, <1>2
  <2>2. Under(s[k - 1], s[k])
    BY <1>1
  <2>3. CASE k \in 1 .. n - 1
    BY <1>2, <2>1, <2>2, <2>3
  <2>4. CASE k = n
    <3> DEFINE g == Head(s[k - 1].left)
               what == IF g.kind = "anon" THEN "record" ELSE "array"
    <3>1. s[k - 1].left # <<>> /\ g.kind \in {"anon", "slice"} /\ Serves(s[k], what, Parts(g))
      BY <2>2 DEF Under
    <3>2. Parts(g) \in Items
      BY <2>1, <3>1, FrameFacts, HeadTail, PartsFacts DEF Items
    <3>3. Serves(fr, what, Parts(g))
      BY <2>4, <3>1, <3>2
    <3>4. v[k] = fr
      BY <1>2, <2>4
    <3> QED BY <2>1, <3>1, <3>3, <3>4 DEF Under
  <2> QED BY <1>2, <2>3, <2>4
<1> QED BY <1>2, <1>3, <1>4 DEF Stacked, v

LEMMA TopPushed ==
    ASSUME NEW gs \in Items, NEW s, Stacked(s, gs), s # <<>>, NEW fr \in Frames,
           Under(s[Len(s)], fr)
    PROVE  Stacked(Append(s, fr), gs)
<1> DEFINE v == Append(s, fr)
           n == Len(s)
<1>1. s \in Seq(Frames) /\ Serves(s[1], "record", gs) /\ \A k \in 2 .. n : Under(s[k - 1], s[k])
  BY DEF Stacked
<1>2. /\ v \in Seq(Frames) /\ Len(v) = n + 1 /\ n \in Nat \ {0} /\ v[n + 1] = fr
      /\ \A k \in 1 .. n : v[k] = s[k]
  BY <1>1, EmptySeq
<1> HIDE DEF v
<1>3. ASSUME NEW k \in 2 .. n + 1 PROVE Under(v[k - 1], v[k])
  <2>1. k - 1 \in 1 .. n /\ v[k - 1] = s[k - 1]
    BY <1>2
  <2>2. CASE k \in 1 .. n
    BY <1>1, <1>2, <2>1, <2>2
  <2>3. CASE k = n + 1
    BY <1>2, <2>1, <2>3
  <2> QED BY <1>2, <2>2, <2>3
<1>4. v # <<>> => Serves(v[1], "record", gs)
  <2>1. 1 \in 1 .. n
    BY <1>2
  <2> QED BY <1>1, <1>2, <2>1
<1> QED BY <1>2, <1>3, <1>4 DEF Stacked, v

LEMMA TopPopped ==
    ASSUME NEW gs \in Items, NEW s, Stacked(s, gs), Len(s) > 1
    PROVE  LET u == SubSeq(s, 1, Len(s) - 1)
           IN  /\ Stacked(u, gs) /\ u # <<>> /\ u[Len(u)] = s[Len(s) - 1]
               /\ SubSeq(s, 1, Len(s) - 2) = SubSeq(u, 1, Len(u) - 1)
<1> DEFINE u == SubSeq(s, 1, Len(s) - 1)
           n == Len(s)
<1>1. s \in Seq(Frames) /\ n \in Nat /\ s # <<>> /\ \A k \in 2 .. n : Under(s[k - 1], s[k])
  BY DEF Stacked
<1>2. u \in Seq(Frames) /\ Len(u) = n - 1 /\ \A k \in 1 .. n - 1 : u[k] = s[k]
  BY <1>1, Below
<1>3. SubSeq(s, 1, n - 2) = SubSeq(u, 1, n - 2)
  <2>1. n - 2 \in Nat /\ n - 2 <= n - 1
    BY <1>1
  <2>2. \A k \in 1 .. n - 2 : k \in 1 .. n - 1 /\ u[k] = s[k]
    BY <1>1, <1>2
  <2> HIDE DEF u
  <2>3. /\ SubSeq(s, 1, n - 2) \in Seq(Frames) /\ Len(SubSeq(s, 1, n - 2)) = n - 2
        /\ \A k \in 1 .. n - 2 : SubSeq(s, 1, n - 2)[k] = s[k]
    <3>1. n - 2 <= Len(s)
      BY <1>1
    <3> HIDE DEF n
    <3> QED BY <1>1, <2>1, <3>1, Prefix
  <2>4. /\ SubSeq(u, 1, n - 2) \in Seq(Frames) /\ Len(SubSeq(u, 1, n - 2)) = n - 2
        /\ \A k \in 1 .. n - 2 : SubSeq(u, 1, n - 2)[k] = u[k]
    BY <1>1, <1>2, <2>1
  <2> QED BY <2>2, <2>3, <2>4
<1> HIDE DEF u
<1>4. Len(u) - 1 = n - 2 /\ Len(u) # 0
  BY <1>1, <1>2
<1>5. u # <<>> /\ u[Len(u)] = s[n - 1]
  BY <1>1, <1>2
<1>6. Serves(u[1], "record", gs)
  <2>1. Serves(s[1], "record", gs)
    BY <1>1 DEF Stacked
  <2>2. 1 \in 1 .. n - 1
    BY <1>1
  <2> QED BY <1>2, <2>1, <2>2
<1>7. ASSUME NEW k \in 2 .. Len(u) PROVE Under(u[k - 1], u[k])
  <2>1. k - 1 \in 1 .. n - 1 /\ k \in 1 .. n - 1 /\ k \in 2 .. n
    BY <1>1, <1>2
  <2> QED BY <1>1, <1>2, <2>1
<1>8. Stacked(u, gs)
  BY <1>2, <1>6, <1>7 DEF Stacked
<1> QED BY <1>3, <1>4, <1>5, <1>8 DEF u

(* A field that fails in the last frame is the first that fails at all.    *)
LEMMA FateOfTop ==
    ASSUME NEW gs \in Items, NEW s, Stacked(s, gs), s # <<>>,
           Fates(s[Len(s)].left) # "done"
    PROVE  Fates(gs) = Fates(s[Len(s)].left)
<1> DEFINE n == Len(s)
           how == Fates(s[n].left)
           T == {m \in Nat : m < n => Fates(s[n - m].left) = how}
<1>1. s \in Seq(Frames) /\ n \in Nat \ {0} /\ Serves(s[1], "record", gs)
      /\ \A k \in 2 .. n : Under(s[k - 1], s[k])
  BY EmptySeq DEF Stacked
<1>2. 0 \in T
  <2>1. n - 0 = n
    BY <1>1
  <2> QED BY <2>1
<1>3. ASSUME NEW m \in Nat, m \in T PROVE m + 1 \in T
  <2> SUFFICES ASSUME m + 1 < n PROVE Fates(s[n - (m + 1)].left) = how
    OBVIOUS
  <2> DEFINE k == n - m
  <2>1. k \in 2 .. n /\ n - (m + 1) = k - 1 /\ m < n
    BY <1>1
  <2>2. Fates(s[k].left) = how
    BY <1>3, <2>1
  <2> HIDE DEF k
  <2> DEFINE to == s[k - 1]
             g == Head(to.left)
  <2>3. to \in Frames /\ Under(to, s[k])
    BY <1>1, <2>1
  <2>4. to.left \in Items /\ to.left # <<>> /\ g \in Field /\ g.kind \in {"anon", "slice"}
    BY <2>3, FrameFacts, HeadTail DEF Under, Items
  <2>5. Fates(s[k].left) = Fates(Parts(g))
    BY <2>3 DEF Under, Serves
  <2>6. Fate[g] = how
    BY <2>2, <2>4, <2>5, FateOfParts
  <2>7. Fates(to.left) = IF Fate[g] = "done" THEN Fates(Tail(to.left)) ELSE Fate[g]
    BY <2>4, FatesFacts
  <2> HIDE DEF to, g, how
  <2>8. Fates(to.left) = how
    BY <2>6, <2>7 DEF how, n
  <2> QED BY <2>1, <2>8 DEF to
<1>4. Nat \subseteq T
  <2> HIDE DEF T
  <2> QED BY <1>2, <1>3, SetInduction
<1>5. n - 1 \in Nat /\ n - 1 < n /\ n - (n - 1) = 1
  BY <1>1
<1>6. Fates(s[n - (n - 1)].left) = how
  BY <1>4, <1>5
<1>7. Fates(s[1].left) = Fates(gs)
  BY <1>1 DEF Serves
<1> QED BY <1>5, <1>6, <1>7

-----------------------------------------------------------------------------
(***************************************************************************)
(* The inductive invariant: every frame serves the field it was made for.  *)
(***************************************************************************)
Inv == /\ fields \in Items
       /\ pc \in {"run", "done", "error", "panic"}
       /\ pc = "run" <=> stack # <<>>
       /\ Stacked(stack, fields)
       /\ result \in Bytes
       /\ FirstFailureWins
       /\ PlainRecordKept

LEMMA RunFacts ==
    ASSUME Inv, pc = "run"
    PROVE  /\ stack \in Seq(Frames) /\ stack # <<>> /\ Len(stack) \in Nat \ {0}
           /\ Top \in Frames /\ Stacked(stack, fields) /\ fields \in Items
           /\ Top.left # <<>> => f \in Field /\ Parts(f) \in Items
<1>1. stack \in Seq(Frames) /\ stack # <<>> /\ Stacked(stack, fields) /\ fields \in Items
  BY DEF Inv, Stacked
<1>2. Len(stack) \in Nat \ {0} /\ Top \in Frames
  BY <1>1, EmptySeq DEF Top
<1>3. ASSUME Top.left # <<>> PROVE f \in Field /\ Parts(f) \in Items
  BY <1>2, <1>3, FrameFacts, HeadTail, PartsFacts DEF f, Items
<1> QED BY <1>1, <1>2, <1>3

LEMMA TopGoesOn ==
    ASSUME Inv, pc = "run", NEW fr \in Frames,
           \A what \in {"record", "array"}, items \in Items :
              Serves(Top, what, items) => Serves(fr, what, items),
           stack' = Append(Callers, fr), UNCHANGED <<fields, pc, result>>
    PROVE  Inv'
<1>1. stack \in Seq(Frames) /\ stack # <<>> /\ Stacked(stack, fields) /\ fields \in Items
  BY RunFacts
<1>2. Stacked(Append(SubSeq(stack, 1, Len(stack) - 1), fr), fields)
  <2>1. \A what \in {"record", "array"}, items \in Items :
           Serves(stack[Len(stack)], what, items) => Serves(fr, what, items)
    BY DEF Top
  <2> QED BY <1>1, <2>1, TopReplaced
<1>3. Stacked(stack', fields) /\ stack' # <<>>
  <2>1. Append(SubSeq(stack, 1, Len(stack) - 1), fr) # <<>>
    <3> DEFINE u == SubSeq(stack, 1, Len(stack) - 1)
    <3>1. u \in Seq(Frames)
      BY <1>1, Below
    <3> HIDE DEF u
    <3>2. Append(u, fr) # <<>>
      BY <3>1
    <3> QED BY <3>2 DEF u
  <2> QED BY <1>2, <2>1 DEF Callers
<1> QED BY <1>3 DEF Inv, FirstFailureWins, PlainRecordKept

LEMMA Writes ==
    ASSUME Inv, pc = "run", Top.left # <<>>, NEW t, Fits(t, Top.what, f), Write(t)
    PROVE  Inv'
<1>1. Top \in Frames
  BY RunFacts
<1> DEFINE fr == Wrote(Top, t)
<1>2. /\ fr \in Frames
      /\ \A what \in {"record", "array"}, items \in Items :
            Serves(Top, what, items) => Serves(fr, what, items)
  BY <1>1, FitsServes DEF f
<1>3. stack' = Append(Callers, fr) /\ UNCHANGED <<fields, pc, result>>
  BY DEF Write
<1> HIDE DEF fr
<1> QED BY <1>2, <1>3, TopGoesOn

LEMMA GoesOn ==
    ASSUME Inv, pc = "run", Top.left # <<>>, f.kind = "ptr" \/ (f.kind = "pod" /\ f.ok), GoOn(f.to)
    PROVE  Inv'
<1>1. Top \in Frames /\ f \in Field
  BY RunFacts
<1>2. f.to \in Field /\ Fate[f.to] = Fate[f]
  BY <1>1, FateOfParts
<1>3. Parts(f) = <<f.to>>
  BY DEF Parts
<1>4. Plain[f] => Plain[f.to]
  <2>1. Plain[f] = \A k \in DOMAIN Parts(f) : Plain[Parts(f)[k]]
    BY <1>1, PlainEquation DEF PlainOf
  <2>2. 1 \in DOMAIN Parts(f) /\ Parts(f)[1] = f.to
    BY <1>3
  <2> QED BY <2>1, <2>2
<1>5. Means[f.to] = Means[f]
  BY <1>1, MeansEquation DEF MeansOf
<1> DEFINE fr == [Top EXCEPT !.left = <<f.to>> \o Tail(@)]
<1>6. /\ fr \in Frames
      /\ \A what \in {"record", "array"}, items \in Items :
            Serves(Top, what, items) => Serves(fr, what, items)
  <2>1. Top.left # <<>> /\ Head(Top.left).kind # "token"
    BY DEF f
  <2>2. /\ Fate[f.to] = Fate[Head(Top.left)] /\ (Plain[Head(Top.left)] => Plain[f.to])
        /\ Means[f.to] = Means[Head(Top.left)]
    BY <1>2, <1>4, <1>5 DEF f
  <2> DEFINE h == f.to
  <2>3. h \in Field /\ Fate[h] = Fate[Head(Top.left)] /\ (Plain[Head(Top.left)] => Plain[h])
        /\ Means[h] = Means[Head(Top.left)]
    BY <1>2, <2>2
  <2> HIDE DEF h
  <2> DEFINE to == [Top EXCEPT !.left = <<h>> \o Tail(@)]
  <2>4. ASSUME NEW what \in {"record", "array"}, NEW items \in Items, Serves(Top, what, items)
        PROVE  to \in Frames /\ Serves(to, what, items)
    BY <1>1, <2>1, <2>3, <2>4, GoOnServes
  <2>5. to \in Frames
    <3>1. Top.left \in Seq(Field)
      BY <1>1, FrameFacts DEF Items
    <3>2. Tail(Top.left) \in Seq(Field) /\ <<h>> \in Seq(Field)
      BY <2>1, <2>3, <3>1, HeadTail
    <3>3. <<h>> \o Tail(Top.left) \in Items
      BY <3>2 DEF Items
    <3> DEFINE next == <<h>> \o Tail(Top.left)
    <3>4. to = [Top EXCEPT !.left = next]
      OBVIOUS
    <3> HIDE DEF next, to
    <3> QED BY <1>1, <3>3, <3>4 DEF Frames, next
  <2> QED BY <2>4, <2>5 DEF h
<1>7. stack' = Append(Callers, fr) /\ UNCHANGED <<fields, pc, result>>
  BY DEF GoOn
<1> HIDE DEF fr
<1> QED BY <1>6, <1>7, TopGoesOn

LEMMA Fails ==
    ASSUME Inv, pc = "run", Top.left # <<>>, NEW how \in {"error", "panic"}, Fate[f] = how, End(how)
    PROVE  Inv'
<1>1. Stacked(stack, fields) /\ stack # <<>> /\ fields \in Items /\ Top \in Frames
  BY RunFacts
<1>2. Fates(Top.left) = how
  <2>1. Top.left \in Items
    BY <1>1, FrameFacts
  <2>2. Fates(Top.left) = IF Fate[f] = "done" THEN Fates(Tail(Top.left)) ELSE Fate[f]
    BY <2>1, FatesFacts DEF f
  <2> QED BY <2>2
<1>3. Fates(fields) = how
  <2>1. Fates(stack[Len(stack)].left) # "done"
    BY <1>2 DEF Top
  <2>2. Fates(fields) = Fates(stack[Len(stack)].left)
    BY <1>1, <2>1, FateOfTop
  <2> QED BY <1>2, <2>2 DEF Top
<1>4. pc' = how /\ stack' = <<>> /\ UNCHANGED <<fields, result>>
  BY DEF End
<1>5. Stacked(<<>>, fields)
  BY DEF Stacked
<1>6. FirstFailureWins'
  <2>1. Fates(fields)' = Fates(fields)
    BY <1>4 DEF Fates
  <2> QED BY <1>3, <1>4, <2>1 DEF FirstFailureWins
<1> QED BY <1>4, <1>5, <1>6 DEF Inv, PlainRecordKept

LEMMA Enters ==
    ASSUME Inv, NEW kind \in {"anon", "slice"}, NEW what, what = IF kind = "anon" THEN "record" ELSE "array",
           Enter(kind, what, Parts(f))
    PROVE  Inv'
<1>1. pc = "run" /\ Top.left # <<>> /\ f.kind = kind
  BY DEF Enter, NextIs, f
<1>2. Stacked(stack, fields) /\ stack # <<>> /\ fields \in Items /\ Parts(f) \in Items
      /\ stack \in Seq(Frames)
  BY <1>1, RunFacts
<1> DEFINE fr == Frame(what, Parts(f))
<1>3. fr \in Frames /\ Serves(fr, what, Parts(f))
  BY <1>2, FrameServes
<1>4. stack' = Append(stack, fr) /\ UNCHANGED <<fields, pc, result>>
  BY DEF Enter
<1> HIDE DEF fr
<1>5. Under(stack[Len(stack)], fr)
  BY <1>1, <1>3 DEF Under, Top, f
<1>6. Stacked(Append(stack, fr), fields)
  BY <1>2, <1>3, <1>5, TopPushed
<1>7. Append(stack, fr) # <<>>
  BY <1>2, <1>3
<1> QED BY <1>1, <1>4, <1>6, <1>7 DEF Inv, FirstFailureWins, PlainRecordKept

LEMMA Leaves ==
    ASSUME Inv, Leave
    PROVE  Inv'
<1> DEFINE u == SubSeq(stack, 1, Len(stack) - 1)
           to == stack[Len(stack) - 1]
           t == Given(Top, to)
           fr == Wrote(to, t)
<1>1. pc = "run" /\ Top.left = <<>> /\ Len(stack) > 1
  BY DEF Leave
<1>2. Stacked(stack, fields) /\ fields \in Items /\ Top \in Frames /\ stack \in Seq(Frames)
  BY <1>1, RunFacts
<1>3. Stacked(u, fields) /\ u # <<>> /\ u[Len(u)] = to
      /\ SubSeq(stack, 1, Len(stack) - 2) = SubSeq(u, 1, Len(u) - 1)
  BY <1>1, <1>2, TopPopped
<1>4. to \in Frames /\ Under(to, Top)
  <2>1. Len(stack) \in 2 .. Len(stack) /\ Len(stack) - 1 \in 1 .. Len(stack)
    BY <1>1, <1>2
  <2> QED BY <1>2, <2>1 DEF Stacked, Top
<1>5. Fits(t, to.what, Head(to.left)) /\ to.left # <<>>
  BY <1>1, <1>2, <1>4, GivenFits DEF Under
<1> HIDE DEF u, to, t
<1>6. /\ fr \in Frames
      /\ \A what \in {"record", "array"}, items \in Items :
            Serves(to, what, items) => Serves(fr, what, items)
  BY <1>4, <1>5, FitsServes
<1>7. stack' = Append(SubSeq(stack, 1, Len(stack) - 2), fr) /\ UNCHANGED <<fields, pc, result>>
  BY DEF Leave, to, t
<1> HIDE DEF fr
<1>8. Stacked(Append(SubSeq(u, 1, Len(u) - 1), fr), fields)
  BY <1>2, <1>3, <1>6, TopReplaced
<1>9. Append(SubSeq(u, 1, Len(u) - 1), fr) # <<>>
  <2> DEFINE v == SubSeq(u, 1, Len(u) - 1)
  <2>1. u \in Seq(Frames)
    BY <1>3 DEF Stacked
  <2>2. v \in Seq(Frames)
    BY <1>3, <2>1, Below
  <2> HIDE DEF v
  <2>3. Append(v, fr) # <<>>
    BY <1>6, <2>2
  <2> QED BY <2>3 DEF v
<1>10. Stacked(stack', fields) /\ stack' # <<>>
  BY <1>3, <1>7, <1>8, <1>9
<1> QED BY <1>1, <1>7, <1>10 DEF Inv, FirstFailureWins, PlainRecordKept

LEMMA Returns ==
    ASSUME Inv, Return
    PROVE  Inv'
<1>1. /\ pc = "run" /\ Top.left = <<>> /\ Len(stack) = 1
      /\ result' = Closed(Top) /\ pc' = "done" /\ stack' = <<>> /\ fields' = fields
  BY DEF Return
<1>2. Stacked(stack, fields) /\ stack # <<>> /\ fields \in Items /\ Top \in Frames
  BY <1>1, RunFacts
<1>3. Serves(Top, "record", fields)
  BY <1>1, <1>2 DEF Stacked, Top
<1>4. Fates(fields) = "done"
  BY <1>1, <1>3, FatesFacts DEF Serves
<1>5. result' \in Bytes
  BY <1>1, <1>2, ClosedTyped
<1>6. ASSUME fields # <<>>, AllPlain(fields) PROVE Reads(Closed(Top), fields)
  <2>1. RecordSoFar(<<>>, Top.out, fields) /\ Top.what = "record"
    BY <1>1, <1>3, <1>6 DEF Serves, PlainJob, SoFar
  <2> QED BY <1>2, <2>1, RecordClosed
<1>7. FirstFailureWins'
  <2>1. Fates(fields)' = Fates(fields)
    BY <1>1 DEF Fates
  <2> QED BY <1>1, <1>4, <2>1 DEF FirstFailureWins
<1>8. PlainRecordKept'
  <2>1. AllPlain(fields)' = AllPlain(fields) /\ Reads(result, fields)' = Reads(Closed(Top), fields)
    BY <1>1 DEF AllPlain, Reads, ReadsBy
  <2> QED BY <1>1, <1>6, <2>1 DEF PlainRecordKept
<1>9. Stacked(<<>>, fields)
  BY DEF Stacked
<1> QED BY <1>1, <1>2, <1>5, <1>7, <1>8, <1>9 DEF Inv

LEMMA InitInv == Init => Inv
<1> SUFFICES ASSUME Init PROVE Inv
  OBVIOUS
<1> DEFINE fr == Frame("record", fields)
<1>1. fields \in Items /\ stack = <<fr>> /\ pc = "run" /\ result = <<>>
  BY ValuesAssumption DEF Init, Items
<1>2. fr \in Frames /\ Serves(fr, "record", fields)
  BY <1>1, FrameServes
<1> HIDE DEF fr
<1>3. <<fr>> \in Seq(Frames) /\ Len(<<fr>>) = 1 /\ <<fr>>[1] = fr /\ <<fr>> # <<>>
  BY <1>2
<1>4. Stacked(<<fr>>, fields)
  BY <1>2, <1>3 DEF Stacked
<1> QED BY <1>1, <1>3, <1>4, BytesOf DEF Inv, FirstFailureWins, PlainRecordKept

LEMMA InvStep == Inv /\ [Next]_vars => Inv'
<1> SUFFICES ASSUME Inv, [Next]_vars PROVE Inv'
  OBVIOUS
<1>1. ASSUME NEW kind, NextIs(kind)
      PROVE  pc = "run" /\ Top.left # <<>> /\ f.kind = kind /\ f \in Field /\ Top \in Frames
  <2>1. pc = "run" /\ Top.left # <<>> /\ f.kind = kind
    BY <1>1 DEF NextIs, f
  <2> QED BY <2>1, RunFacts
<1>2. CASE WriteText
  <2>1. pc = "run" /\ Top.left # <<>> /\ f.kind = "text" /\ f \in Field /\ Write(GoQuote(f.text))
    BY <1>1, <1>2 DEF WriteText
  <2>2. Fits(GoQuote(f.text), Top.what, f)
    BY <2>1, SimpleFits
  <2> QED BY <2>1, <2>2, Writes
<1>3. CASE WriteToken
  <2>1. pc = "run" /\ Top.left # <<>> /\ f.kind = "token" /\ f \in Field /\ Write(f.text)
    BY <1>1, <1>3 DEF WriteToken
  <2>2. Fits(f.text, Top.what, f)
    BY <2>1, SimpleFits
  <2> QED BY <2>1, <2>2, Writes
<1>4. CASE NilPointer
  BY <1>1, <1>4, SimpleFits, Writes DEF NilPointer
<1>5. CASE Deref
  BY <1>1, <1>5, GoesOn DEF Deref
<1>6. CASE ToPOD
  BY <1>1, <1>6, GoesOn DEF ToPOD
<1>7. CASE PODFails
  <2>1. Fate[f] = "error"
    BY <1>1, <1>7, FateOfParts DEF PODFails
  <2> QED BY <1>1, <1>7, <2>1, Fails DEF PODFails
<1>8. CASE CallValue
  <2> DEFINE t == IF Top.what = "record" THEN Top.text ELSE DriverText(f.answer)
  <2>1. /\ pc = "run" /\ Top.left # <<>> /\ f.kind = "call" /\ f \in Field /\ Top \in Frames
        /\ f.answer.kind \in {"text", "token"} /\ Write(t)
    BY <1>1, <1>8 DEF CallValue
  <2>2. Said(f.answer)
    BY <2>1, FieldAssumption
  <2>3. DriverText(f.answer) \in Bytes
    BY <2>1, <2>2, GoQuoteTyped, LettersAreBytes DEF DriverText, Said
  <2>4. t \in Bytes
    BY <2>1, <2>3, FrameFacts
  <2> HIDE DEF t
  <2>5. Fits(t, Top.what, f)
    BY <2>1, <2>4, SimpleFits
  <2> QED BY <2>1, <2>5, Writes
<1>9. CASE CallFails
  <2>1. Fate[f] = "error"
    BY <1>1, <1>9, FateOfParts DEF CallFails
  <2> QED BY <1>1, <1>9, <2>1, Fails DEF CallFails
<1>10. CASE CallPanics
  <2>1. Fate[f] = "panic"
    BY <1>1, <1>10, FateOfParts DEF CallPanics
  <2> QED BY <1>1, <1>10, <2>1, Fails DEF CallPanics
<1>11. CASE EnterAnon
  <2>1. f.kind = "anon"
    BY <1>1, <1>11 DEF EnterAnon, Enter
  <2>2. Parts(f) = f.fields
    BY <2>1 DEF Parts
  <2> QED BY <1>11, <2>2, Enters DEF EnterAnon
<1>12. CASE EnterSlice
  <2>1. f.kind = "slice"
    BY <1>1, <1>12 DEF EnterSlice, Enter
  <2>2. Parts(f) = f.elems
    BY <2>1 DEF Parts
  <2> QED BY <1>12, <2>2, Enters DEF EnterSlice
<1>13. CASE Leave
  BY <1>13, Leaves
<1>14. CASE Return
  BY <1>14, Returns
<1>15. CASE UNCHANGED vars
  <2>1. /\ UNCHANGED <<fields, stack, pc, result>>
    BY <1>15 DEF vars
  <2> QED BY <2>1 DEF Inv, Stacked, FirstFailureWins, PlainRecordKept
<1>16. CASE LostPOD
  <2>1. /\ pc = "run" /\ Top.left # <<>> /\ f.kind = "lost" /\ f \in Field /\ Top \in Frames
        /\ Write(Top.text)
    BY <1>1, <1>16 DEF LostPOD
  <2>2. Top.text \in Bytes
    BY <2>1, FrameFacts
  <2>3. Fits(Top.text, Top.what, f)
    BY <2>1, <2>2, SimpleFits
  <2> QED BY <2>1, <2>3, Writes
<1> QED
  BY <1>2, <1>3, <1>4, <1>5, <1>6, <1>7, <1>8, <1>9, <1>10, <1>11, <1>12, <1>13,
     <1>14, <1>15, <1>16
     DEF Next, Step, Terminated

LEMMA Invariant == Spec => []Inv
<1>1. Init => Inv
  BY InitInv
<1>2. Inv /\ [Next]_vars => Inv'
  BY InvStep
<1> QED BY <1>1, <1>2, PTL DEF Spec

-----------------------------------------------------------------------------
LEMMA StackTyped ==
    ASSUME Inv
    PROVE  TypeOK
<1>1. /\ stack \in Seq(Frames) /\ Len(stack) \in Nat /\ DOMAIN stack = 1 .. Len(stack)
      /\ \A k \in 2 .. Len(stack) : Under(stack[k - 1], stack[k])
      /\ (stack # <<>> => Serves(stack[1], "record", fields))
  BY DEF Inv, Stacked
<1>2. ASSUME NEW k \in DOMAIN stack
      PROVE  IF k = 1 THEN stack[k].what = "record"
             ELSE /\ stack[k - 1].left # <<>>
                  /\ Head(stack[k - 1].left).kind
                        = IF stack[k].what = "record" THEN "anon" ELSE "slice"
  <2>1. CASE k = 1
    <3>1. stack # <<>>
      BY <1>1, EmptySeq
    <3>2. stack[1].what = "record"
      BY <1>1, <3>1 DEF Serves
    <3> QED BY <2>1, <3>2
  <2>2. CASE k # 1
    <3>1. k \in 2 .. Len(stack)
      BY <1>1, <2>2
    <3>2. Under(stack[k - 1], stack[k])
      BY <1>1, <3>1
    <3> QED BY <2>2, <3>2 DEF Under, Serves
  <2> QED BY <2>1, <2>2
<1> QED BY <1>1, <1>2 DEF Inv, TypeOK

(* The functions that run are always those of the struct and of structs    *)
(* and slices in it, each called for the field its caller is at.           *)
THEOREM TypeCorrect == Spec => []TypeOK
<1>1. Inv => TypeOK
  BY StackTyped
<1> QED BY <1>1, Invariant, PTL

(* The call ends as the first field says that gives no value, in the order *)
(* of the fields and at any depth: an error is not passed over, and what   *)
(* is behind it does not decide.                                           *)
THEOREM FirstFailureDecides == Spec => []FirstFailureWins
<1>1. Inv => FirstFailureWins
  BY DEF Inv
<1> QED BY <1>1, Invariant, PTL

(* What Value returns for plain fields PostgreSQL reads back field for     *)
(* field: strings with quotes, commas, parentheses and backslashes, tokens *)
(* and nulls, in structs in structs to any depth, behind pointers and PODs. *)
THEOREM PlainRecordsKept == Spec => []PlainRecordKept
<1>1. Inv => PlainRecordKept
  BY DEF Inv
<1> QED BY <1>1, Invariant, PTL
=============================================================================
