-------------------------- MODULE RecordScanProofs --------------------------
(***************************************************************************)
(* What RecordScan.tla claims of a generated Scan, proved for all types    *)
(* and all literals: where the cursors can be, and what follows for the    *)
(* records that PostgreSQL writes.                                         *)
(***************************************************************************)
EXTENDS RecordScan, LiteralProofs

-----------------------------------------------------------------------------
(* Pending is a sum over what is left to do. *)
Weight(t) == IF t.kind = "from" THEN 0 ELSE 1

LEMMA PendingFacts ==
    /\ Pending(<<>>) = 0
    /\ \A s \in Seq(Todo) : Pending(s) \in Nat
    /\ \A s \in Seq(Todo), t \in Todo : Pending(<<t>> \o s) = Weight(t) + Pending(s)
    /\ \A s \in Seq(Field) : Pending(s) = Len(s)
<1> DEFINE step == [p \in Nat \X Todo |-> IF p[2].kind = "from" THEN p[1] ELSE p[1] + 1]
<1>1. step \in [Nat \X Todo -> Nat]
  OBVIOUS
<1>2. \A n \in Nat, t \in Todo : step[<<n, t>>] = Weight(t) + n
  BY DEF Weight
<1>3. \A s : Pending(s) = Scanned(step, 0, s)
  BY DEF Pending
<1>4. \A t : Weight(t) \in Nat
  BY DEF Weight
<1> HIDE DEF step
<1>5. \A s \in Seq(Todo), n \in Nat : Scanned(step, n, s) \in Nat
  BY <1>1, ScannedTyped
<1>6. \A s \in Seq(Todo), n \in Nat : Scanned(step, n, s) = n + Scanned(step, 0, s)
  <2> DEFINE T == {s \in Seq(Todo) : \A n \in Nat : Scanned(step, n, s) = n + Scanned(step, 0, s)}
  <2>1. <<>> \in T
    BY ScannedEmpty
  <2>2. ASSUME NEW s \in Seq(Todo), NEW t \in Todo, s \in T PROVE Append(s, t) \in T
    <3>1. \A n \in Nat : Scanned(step, n, Append(s, t)) = step[<<Scanned(step, n, s), t>>]
      BY ScannedAppend
    <3>2. \A n \in Nat : Scanned(step, n, Append(s, t)) = Weight(t) + Scanned(step, n, s)
      BY <3>1, <1>2, <1>5
    <3>3. \A n \in Nat : Scanned(step, n, Append(s, t)) = n + Scanned(step, 0, Append(s, t))
      BY <2>2, <3>2, <1>4, <1>5
    <3>4. Append(s, t) \in Seq(Todo)
      OBVIOUS
    <3> QED BY <3>3, <3>4
  <2>3. Seq(Todo) \subseteq T
    <3> HIDE DEF T
    <3> QED BY <2>1, <2>2, SeqInduction
  <2> QED BY <2>3
<1>7. ASSUME NEW s \in Seq(Todo), NEW t \in Todo
      PROVE  Pending(<<t>> \o s) = Weight(t) + Pending(s)
  <2>1. PICK u \in Seq(Todo) : u = <<t>>
    <3>1. <<t>> \in Seq(Todo)
      OBVIOUS
    <3> QED BY <3>1
  <2>2. Scanned(step, 0, u \o s) = Scanned(step, Scanned(step, 0, u), s)
    BY ScannedConcat
  <2>3. Scanned(step, 0, u) = Weight(t)
    <3>1. Scanned(step, 0, <<t>>) = step[<<0, t>>]
      BY ScannedOne
    <3> QED BY <2>1, <3>1, <1>2, <1>4
  <2> QED BY <2>1, <2>2, <2>3, <1>3, <1>4, <1>6
<1>8. ASSUME NEW s \in Seq(Field) PROVE Pending(s) = Len(s)
  <2> DEFINE T == {v \in Seq(Field) : Scanned(step, 0, v) = Len(v)}
  <2>1. <<>> \in T
    BY ScannedEmpty
  <2>2. ASSUME NEW v \in Seq(Field), NEW t \in Field, v \in T PROVE Append(v, t) \in T
    <3>1. Scanned(step, 0, Append(v, t)) = step[<<Scanned(step, 0, v), t>>]
      BY ScannedAppend
    <3>2. t \in Todo /\ Weight(t) = 1
      BY FieldAssumption DEF Todo, Weight
    <3>3. Len(v) \in Nat /\ Scanned(step, 0, v) = Len(v)
      BY <2>2
    <3>4. Scanned(step, 0, Append(v, t)) = 1 + Len(v)
      BY <3>1, <3>2, <3>3, <1>2
    <3> QED BY <3>4
  <2>3. Seq(Field) \subseteq T
    <3> HIDE DEF T
    <3> QED BY <2>1, <2>2, SeqInduction
  <2> QED BY <2>3, <1>3
<1> QED BY <1>3, <1>5, <1>7, <1>8, ScannedEmpty

LEMMA TwoAndRest ==
    ASSUME NEW E, NEW t \in E, NEW u \in E, NEW s \in Seq(E)
    PROVE  <<t, u>> \o s = <<t>> \o (<<u>> \o s)
<1>1. <<t>> \in Seq(E) /\ <<u>> \in Seq(E)
  OBVIOUS
<1>2. <<t, u>> = <<t>> \o <<u>>
  <2>1. <<t, u>> = Append(<<t>>, u)
    OBVIOUS
  <2> QED BY <1>1, <2>1, AppendIsConcat
<1>3. (<<t>> \o <<u>>) \o s = <<t>> \o (<<u>> \o s)
  BY <1>1, ConcatAssociative
<1> QED BY <1>2, <1>3

(* What a step does to what is left: the head is done, or goes on with     *)
(* types.                                                                  *)
LEMMA PendingMoves ==
    ASSUME NEW left \in Seq(Todo), left # <<>>
    PROVE  /\ Head(left) \in Todo /\ Tail(left) \in Seq(Todo)
           /\ Pending(Tail(left)) \in Nat
           /\ Pending(left) = Weight(Head(left)) + Pending(Tail(left))
           /\ \A t \in Todo : /\ <<t>> \o Tail(left) \in Seq(Todo)
                              /\ Pending(<<t>> \o Tail(left)) = Weight(t) + Pending(Tail(left))
           /\ \A t, u \in Todo :
                 /\ <<t, u>> \o Tail(left) \in Seq(Todo)
                 /\ Pending(<<t, u>> \o Tail(left)) = Weight(t) + Weight(u) + Pending(Tail(left))
           /\ <<>> \o Tail(left) = Tail(left)
<1>1. /\ Head(left) \in Todo /\ Tail(left) \in Seq(Todo) /\ left = <<Head(left)>> \o Tail(left)
      /\ <<>> \o Tail(left) = Tail(left)
  OBVIOUS
<1>2. \A t \in Todo : <<t>> \o Tail(left) \in Seq(Todo)
  BY <1>1
<1>3. ASSUME NEW t \in Todo, NEW u \in Todo
      PROVE  <<t, u>> \o Tail(left) = <<t>> \o (<<u>> \o Tail(left))
  BY <1>1, TwoAndRest
<1>4. \A t : Weight(t) \in Nat
  BY DEF Weight
<1>5. \A t, u \in Todo : Pending(<<t>> \o (<<u>> \o Tail(left)))
                            = Weight(t) + (Weight(u) + Pending(Tail(left)))
  BY <1>1, <1>2, PendingFacts
<1>6. \A t, u \in Todo : <<t, u>> \o Tail(left) \in Seq(Todo)
  BY <1>1
<1>7. Pending(Tail(left)) \in Nat
  BY <1>1, PendingFacts
<1>8. ASSUME NEW t \in Todo, NEW u \in Todo
      PROVE  Pending(<<t, u>> \o Tail(left)) = Weight(t) + Weight(u) + Pending(Tail(left))
  <2>1. Pending(<<t, u>> \o Tail(left)) = Weight(t) + (Weight(u) + Pending(Tail(left)))
    BY <1>3, <1>5
  <2> QED BY <2>1, <1>4, <1>7
<1> QED BY <1>1, <1>2, <1>6, <1>7, <1>8, PendingFacts

-----------------------------------------------------------------------------
(***************************************************************************)
(* Where the cursors can be.                                               *)
(***************************************************************************)
MovedTo(fr, n, left) == [fr EXCEPT !.cur = @ + n, !.left = left]

(* What is behind the cursor. *)
Rest(fr) == SubSeq(fr.src, fr.cur + 1, Len(fr.src))

(* Where column j ends. *)
EndOf(cols, j) == Start(cols, j) + Len(PgColumn(cols[j]))

(* At the beginning of a column, which is not behind the next field's, or  *)
(* at the end of an earlier one.                                           *)
InColumns(fr) ==
    LET cols == PgColumns(fr.src) IN
    \E j \in 1 .. NextField(fr) : \/ fr.cur = Start(cols, j)
                                  \/ j < NextField(fr) /\ fr.cur = EndOf(cols, j)

Sound(fr) ==
    /\ Pending(fr.left) <= Len(fr.of)
    /\ fr.what = "record" => fr.cur \in 1 .. Len(fr.src) /\ IsRecord(fr.src)
    /\ fr.what = "array" => /\ fr.cur <= Len(fr.src) + 1 /\ Len(fr.of) = 1
                            /\ Pending(fr.left) > 0 => fr.cur < Len(fr.src) - 1
    /\ Fits(fr) => InColumns(fr)

Frames == {fr \in Frame : Sound(fr)}

LEMMA FrameFacts ==
    ASSUME NEW fr \in Frame
    PROVE  /\ fr.what \in {"record", "array"} /\ fr.src \in Bytes /\ Len(fr.src) \in Nat
           /\ fr.cur \in Nat /\ fr.left \in Seq(Todo) /\ fr.of \in Seq(Field)
           /\ Len(fr.of) \in Nat /\ Pending(fr.left) \in Nat
<1>1. /\ fr.what \in {"record", "array"} /\ fr.src \in Bytes /\ Len(fr.src) \in Nat
      /\ fr.cur \in Nat /\ fr.left \in Seq(Todo) /\ fr.of \in Seq(Field)
  BY DEF Frame, Bytes
<1> QED BY <1>1, PendingFacts

LEMMA FrameExcept ==
    ASSUME NEW W, NEW B, NEW L, NEW F,
           NEW fr \in [what : W, src : B, cur : Nat, left : L, of : F], NEW n \in Nat, NEW left \in L
    PROVE  [fr EXCEPT !.cur = n, !.left = left]
               \in [what : W, src : B, cur : Nat, left : L, of : F]
OBVIOUS

LEMMA MovedFacts ==
    ASSUME NEW fr \in Frame, NEW n \in Nat, NEW left \in Seq(Todo)
    PROVE  LET to == MovedTo(fr, n, left)
           IN  /\ to \in Frame /\ to.cur = fr.cur + n /\ to.left = left
               /\ to.what = fr.what /\ to.src = fr.src /\ to.of = fr.of
               /\ Fits(to) <=> Fits(fr)
<1> DEFINE to == MovedTo(fr, n, left)
<1>0. PICK cur \in Nat : cur = fr.cur + n
  BY DEF Frame
<1>1. /\ to \in Frame /\ to.cur = fr.cur + n /\ to.left = left
      /\ to.what = fr.what /\ to.src = fr.src /\ to.of = fr.of
  <2>1. to = [fr EXCEPT !.cur = cur, !.left = left]
    BY <1>0 DEF MovedTo
  <2>2. [fr EXCEPT !.cur = cur, !.left = left] \in Frame
    BY FrameExcept DEF Frame
  <2>3. /\ to.cur = cur /\ to.left = left
        /\ to.what = fr.what /\ to.src = fr.src /\ to.of = fr.of
    BY <2>1 DEF Frame
  <2> HIDE DEF to
  <2> QED BY <1>0, <2>1, <2>2, <2>3
<1> HIDE DEF to
<1>2. Fits(to) <=> Fits(fr)
  BY <1>1 DEF Fits
<1> QED BY <1>1, <1>2 DEF to

LEMMA StartFirst == \A cols : Start(cols, 1) = 1
<1> SUFFICES ASSUME NEW cols PROVE Start(cols, 1) = 1
  OBVIOUS
<1> DEFINE ts == SubSeq(Columns(cols), 1, 1 - 1)
<1>1. ts = <<>>
  BY SubSeqEmpty
<1>2. Start(cols, 1) = Len(Joined(ts)) + 1
  BY DEF Start
<1>3. Len(<<>>) + 1 = 1
  OBVIOUS
<1> HIDE DEF ts
<1> QED BY <1>1, <1>2, <1>3, JoinedFacts

LEMMA StartGrows ==
    ASSUME NEW cols \in Seq(ColumnText)
    PROVE  /\ \A j \in 1 .. Len(cols) : /\ Start(cols, j) \in Nat /\ EndOf(cols, j) \in Nat
                                        /\ Start(cols, j) <= EndOf(cols, j)
                                        /\ Start(cols, j + 1) = EndOf(cols, j) + 1
           /\ \A n \in 1 .. Len(cols) + 1, j \in 1 .. Len(cols) + 1 :
                 j <= n => Start(cols, j) <= Start(cols, n)
<1>0. Len(cols) \in Nat
  OBVIOUS
<1>1. ASSUME NEW j \in 1 .. Len(cols)
      PROVE  /\ Start(cols, j) \in Nat /\ EndOf(cols, j) \in Nat
             /\ Start(cols, j) <= EndOf(cols, j)
             /\ Start(cols, j + 1) = EndOf(cols, j) + 1
  <2>1. /\ Start(cols, j) \in Nat /\ PgColumn(cols[j]) \in Bytes
        /\ Start(cols, j + 1) = Start(cols, j) + Len(PgColumn(cols[j])) + 1
    BY RecordColumn
  <2>2. Len(PgColumn(cols[j])) \in Nat
    BY <2>1 DEF Bytes
  <2> QED BY <2>1, <2>2 DEF EndOf
<1>2. \A j \in 1 .. Len(cols) + 1 : Start(cols, j) \in Nat
  <2> SUFFICES ASSUME NEW j \in 1 .. Len(cols) + 1, j # 1 PROVE Start(cols, j) \in Nat
    BY StartFirst
  <2>1. j - 1 \in 1 .. Len(cols) /\ (j - 1) + 1 = j
    BY <1>0
  <2>2. EndOf(cols, j - 1) \in Nat /\ Start(cols, (j - 1) + 1) = EndOf(cols, j - 1) + 1
    BY <1>1, <2>1
  <2> QED BY <2>1, <2>2
<1> DEFINE T == {n \in Nat : n <= Len(cols) =>
                    \A j \in 1 .. n + 1 : Start(cols, j) <= Start(cols, n + 1)}
<1>3. 0 \in T
  BY StartFirst
<1>4. ASSUME NEW n \in Nat, n \in T PROVE n + 1 \in T
  <2> SUFFICES ASSUME n + 1 <= Len(cols), NEW j \in 1 .. (n + 1) + 1
               PROVE  Start(cols, j) <= Start(cols, (n + 1) + 1)
    OBVIOUS
  <2>1. n + 1 \in 1 .. Len(cols) /\ n + 1 \in 1 .. Len(cols) + 1 /\ j \in 1 .. Len(cols) + 1
    BY <1>0
  <2>2. Start(cols, n + 1) < Start(cols, (n + 1) + 1)
    BY <1>1, <2>1
  <2>3. Start(cols, n + 1) \in Nat /\ Start(cols, (n + 1) + 1) \in Nat /\ Start(cols, j) \in Nat
    BY <1>2, <2>1, (n + 1) + 1 \in 1 .. Len(cols) + 1
  <2>4. CASE j = (n + 1) + 1
    BY <2>3, <2>4
  <2>5. CASE j \in 1 .. n + 1
    <3>1. Start(cols, j) <= Start(cols, n + 1)
      BY <1>4, <2>5, <1>0
    <3> QED BY <2>2, <2>3, <3>1
  <2> QED BY <2>4, <2>5
<1>5. Nat \subseteq T
  <2> HIDE DEF T
  <2> QED BY <1>3, <1>4, SetInduction
<1>6. ASSUME NEW n \in 1 .. Len(cols) + 1, NEW j \in 1 .. Len(cols) + 1, j <= n
      PROVE  Start(cols, j) <= Start(cols, n)
  <2>1. n - 1 \in Nat /\ n - 1 <= Len(cols) /\ (n - 1) + 1 = n /\ j \in 1 .. (n - 1) + 1
    BY <1>0, <1>6
  <2>2. n - 1 \in T
    BY <1>5, <2>1
  <2> QED BY <2>1, <2>2
<1> QED BY <1>1, <1>6

(* In a record that fits there is always a column to be read: the next     *)
(* field's, an earlier one, or what is left of one, which is nothing.      *)
LEMMA FitsReads ==
    ASSUME NEW fr \in Frame, Fits(fr), InColumns(fr),
           Pending(fr.left) \in 1 .. Len(fr.of)
    PROVE  LET cols == PgColumns(fr.src)
               q == Read(Rest(fr), Close)
           IN  /\ fr.cur < Len(fr.src)
               /\ q.ok
               /\ \E j \in 1 .. NextField(fr) : /\ fr.cur + q.read = EndOf(cols, j)
                                                /\ fr.cur + q.read + 1 = Start(cols, j + 1)
<1> DEFINE cols == PgColumns(fr.src)
           q == Read(Rest(fr), Close)
           k == NextField(fr)
<1>1. /\ fr.src \in Bytes /\ Len(fr.of) \in Nat /\ fr.cur \in Nat
      /\ fr.src = PgRecord(cols) /\ Len(fr.of) <= Len(cols)
  BY FrameFacts DEF Fits
<1>2. cols \in Seq(ColumnText)
  BY <1>1, PgColumnsTyped
<1>3. k \in 1 .. Len(cols) /\ Len(cols) \in Nat
  BY <1>1, <1>2 DEF NextField
<1>4. PICK j \in 1 .. k : fr.cur = Start(cols, j) \/ (j < k /\ fr.cur = EndOf(cols, j))
  BY DEF InColumns
<1> HIDE DEF cols, k
<1>5. j \in 1 .. Len(cols) /\ cols[j] \in ColumnText
  BY <1>2, <1>3
<1>6. PICK rest \in Bytes :
         /\ rest # <<>> /\ rest[1] \in {Comma, Close}
         /\ SubSeq(PgRecord(cols), Start(cols, j) + 1, Len(PgRecord(cols)))
               = PgColumn(cols[j]) \o rest
         /\ SubSeq(PgRecord(cols), Start(cols, j) + Len(PgColumn(cols[j])) + 1,
                   Len(PgRecord(cols))) = rest
  BY <1>2, <1>5, RecordColumn
<1>7. EndOf(cols, j) < Len(fr.src)
  BY <1>1, <1>2, <1>5, RecordColumn DEF EndOf
<1>8. /\ Start(cols, j) <= EndOf(cols, j) /\ Start(cols, j) \in Nat /\ EndOf(cols, j) \in Nat
      /\ Start(cols, j + 1) = EndOf(cols, j) + 1
  BY <1>2, <1>5, StartGrows
<1>9. fr.cur < Len(fr.src)
  BY <1>1, <1>4, <1>7, <1>8, FrameFacts
<1>10. q.ok /\ fr.cur + q.read = EndOf(cols, j)
  <2>1. CASE fr.cur = Start(cols, j)
    <3>1. Rest(fr) = PgColumn(cols[j]) \o rest
      BY <1>1, <1>6, <2>1 DEF Rest
    <3>2. q.ok /\ q.read = Len(PgColumn(cols[j]))
      <4>1. Read(PgColumn(cols[j]) \o rest, Close)
               = [res |-> IF cols[j] = Null THEN <<>> ELSE cols[j],
                  read |-> Len(PgColumn(cols[j])), ok |-> TRUE]
        BY <1>5, <1>6, ReadColumn DEF ColumnText
      <4> QED BY <3>1, <4>1
    <3> QED BY <2>1, <3>2 DEF EndOf
  <2>2. CASE fr.cur = EndOf(cols, j)
    <3>1. Rest(fr) = rest
      BY <1>1, <1>6, <2>2 DEF Rest, EndOf
    <3>2. PgColumn(Null) = <<>> /\ <<>> \o rest = rest /\ Len(<<>>) = 0
      BY BytesConcat DEF PgColumn
    <3>3. q.ok /\ q.read = Len(PgColumn(Null))
      <4>1. Read(PgColumn(Null) \o rest, Close)
               = [res |-> IF Null = Null THEN <<>> ELSE Null,
                  read |-> Len(PgColumn(Null)), ok |-> TRUE]
        BY <1>6, ReadColumn
      <4> QED BY <3>1, <3>2, <4>1
    <3> QED BY <1>8, <2>2, <3>2, <3>3
  <2> QED BY <1>4, <2>1, <2>2
<1>11. fr.cur + q.read + 1 = Start(cols, j + 1)
  BY <1>8, <1>10
<1> QED BY <1>9, <1>10, <1>11 DEF cols, k

LEMMA NotEmpty ==
    ASSUME NEW s, Len(s) # 0
    PROVE  s # <<>>
<1> SUFFICES ASSUME s = <<>> PROVE Len(s) = 0
  OBVIOUS
<1> QED OBVIOUS

(* What is read behind a cursor that is in range: in a record never the    *)
(* last byte, which is its parenthesis.                                    *)
LEMMA ReadTyped ==
    ASSUME NEW fr \in Frames, fr.cur < Len(fr.src)
    PROVE  LET q == Read(Rest(fr), Close)
           IN  /\ q.res \in Bytes /\ q.read \in Nat /\ q.ok \in BOOLEAN
               /\ ~q.ok => q.read = 0
               /\ fr.cur + q.read <= Len(fr.src)
               /\ fr.what = "record" => fr.cur + q.read < Len(fr.src)
<1> DEFINE q == Read(Rest(fr), Close)
<1>1. fr \in Frame /\ fr.src \in Seq(AnyByte) /\ fr.cur \in Nat /\ Len(fr.src) \in Nat
  BY FrameFacts DEF Frames, Bytes
<1>2. /\ Rest(fr) \in Bytes /\ Rest(fr) # <<>> /\ Len(Rest(fr)) = Len(fr.src) - fr.cur
      /\ Rest(fr)[Len(Rest(fr))] = fr.src[Len(fr.src)]
  <2>1. PICK src \in Seq(AnyByte), cur \in Nat, len \in Nat :
           src = fr.src /\ cur = fr.cur /\ len = Len(src) /\ cur < len
    BY <1>1
  <2>2. SubSeq(src, cur + 1, len) \in Seq(AnyByte) /\ Len(SubSeq(src, cur + 1, len)) = len - cur
    BY <2>1
  <2>3. SubSeq(src, cur + 1, len)[len - cur] = src[len]
    <3>1. \A i \in 1 .. len - cur : SubSeq(src, cur + 1, len)[i] = src[cur + i]
      BY SMTT(30), <2>1
    <3>2. len - cur \in 1 .. len - cur /\ cur + (len - cur) = len
      BY <2>1
    <3> QED BY <3>1, <3>2
  <2>4. SubSeq(src, cur + 1, len) # <<>>
    <3>1. Len(SubSeq(src, cur + 1, len)) # 0
      BY <2>1, <2>2
    <3> QED BY <3>1, NotEmpty
  <2>5. Rest(fr) = SubSeq(src, cur + 1, len)
    BY <2>1 DEF Rest
  <2> QED BY <2>1, <2>2, <2>3, <2>4, <2>5 DEF Bytes
<1>3. /\ q \in [res : Bytes, read : 0 .. Len(Rest(fr)), ok : BOOLEAN]
      /\ ~q.ok => q = Failed
      /\ q.ok /\ Rest(fr)[Len(Rest(fr))] # Quote => q.read < Len(Rest(fr))
  BY <1>2, ReadFacts
<1>4. fr.what = "record" => fr.src[Len(fr.src)] # Quote
  BY SpecialAssumption DEF Frames, Sound, IsRecord
<1> HIDE DEF q
<1>5. ~q.ok => q.read = 0
  BY <1>3 DEF Failed
<1>6. q.res \in Bytes /\ q.read \in 0 .. Len(Rest(fr)) /\ q.ok \in BOOLEAN
  BY <1>3
<1>7. fr.what = "record" => q.read < Len(Rest(fr))
  BY <1>1, <1>2, <1>3, <1>4, <1>5, <1>6
<1>8. fr.cur + q.read <= Len(fr.src)
  BY <1>1, <1>2, <1>6
<1>9. fr.what = "record" => fr.cur + q.read < Len(fr.src)
  BY <1>1, <1>2, <1>6, <1>7
<1> QED BY <1>5, <1>6, <1>8, <1>9 DEF q

(* A field that is read takes its frame where it should be: with the comma *)
(* behind it, if it is an array, or without.                               *)
LEMMA ReadMoves ==
    ASSUME NEW fr \in Frames, fr.left # <<>>, Weight(Head(fr.left)) = 1,
           fr.cur < Len(fr.src), NEW n,
           LET q == Read(Rest(fr), Close) IN n = q.read \/ (q.ok /\ n = q.read + 1)
    PROVE  n \in Nat /\ MovedTo(fr, n, Tail(fr.left)) \in Frames
<1> DEFINE q == Read(Rest(fr), Close)
           to == MovedTo(fr, n, Tail(fr.left))
           cols == PgColumns(fr.src)
<1>1. /\ fr \in Frame /\ fr.what \in {"record", "array"} /\ fr.src \in Bytes
      /\ Len(fr.src) \in Nat /\ fr.cur \in Nat /\ fr.left \in Seq(Todo)
      /\ fr.of \in Seq(Field) /\ Len(fr.of) \in Nat /\ Pending(fr.left) \in Nat
  BY FrameFacts DEF Frames
<1>2. /\ q.read \in Nat
      /\ fr.cur + q.read <= Len(fr.src)
      /\ fr.what = "record" => fr.cur + q.read < Len(fr.src)
  BY ReadTyped
<1>3. n \in {q.read, q.read + 1}
  OBVIOUS
<1>4. n \in Nat
  BY <1>2, <1>3
<1>5. Tail(fr.left) \in Seq(Todo) /\ Pending(Tail(fr.left)) = Pending(fr.left) - 1
      /\ Pending(Tail(fr.left)) \in Nat
  BY <1>1, PendingMoves
<1>6. /\ to \in Frame /\ to.cur = fr.cur + n /\ to.left = Tail(fr.left)
      /\ to.what = fr.what /\ to.src = fr.src /\ to.of = fr.of
      /\ Fits(to) <=> Fits(fr)
  BY <1>1, <1>4, <1>5, MovedFacts
<1> HIDE DEF to, q
<1>7. Pending(to.left) <= Len(to.of)
  BY <1>1, <1>5, <1>6 DEF Frames, Sound
<1>8. fr.what = "record" => to.cur \in 1 .. Len(to.src) /\ IsRecord(to.src)
  <2> SUFFICES ASSUME fr.what = "record" PROVE to.cur \in 1 .. Len(to.src) /\ IsRecord(to.src)
    OBVIOUS
  <2>1. fr.cur >= 1 /\ IsRecord(fr.src)
    BY DEF Frames, Sound
  <2>2. fr.cur + n >= 1 /\ fr.cur + n <= Len(fr.src)
    BY <1>1, <1>2, <1>3, <2>1
  <2> QED BY <1>1, <1>4, <1>6, <2>1, <2>2
<1>9. fr.what = "array" => /\ to.cur <= Len(to.src) + 1 /\ Len(to.of) = 1
                           /\ Pending(to.left) > 0 => to.cur < Len(to.src) - 1
  <2> SUFFICES ASSUME fr.what = "array"
               PROVE  /\ to.cur <= Len(to.src) + 1 /\ Len(to.of) = 1
                      /\ Pending(to.left) = 0
    BY <1>6
  <2>1. Len(fr.of) = 1 /\ Pending(fr.left) <= 1
    BY DEF Frames, Sound
  <2> QED BY <1>1, <1>2, <1>3, <1>5, <1>6, <2>1
<1>10. ASSUME Fits(to) PROVE InColumns(to)
  <2>1. Fits(fr) /\ InColumns(fr) /\ Pending(fr.left) <= Len(fr.of)
    BY <1>6, <1>10 DEF Frames, Sound
  <2>2. Pending(fr.left) \in 1 .. Len(fr.of)
    BY <1>1, <1>5, <2>1
  <2>3. PICK j \in 1 .. NextField(fr) : /\ fr.cur + q.read = EndOf(cols, j)
                                        /\ fr.cur + q.read + 1 = Start(cols, j + 1)
    BY <1>1, <2>1, <2>2, FitsReads DEF q
  <2>4. NextField(to) = NextField(fr) + 1 /\ NextField(fr) \in Nat
    BY <1>1, <1>5, <1>6, <2>2 DEF NextField
  <2>5. \/ to.cur = EndOf(cols, j) /\ j < NextField(to) /\ j \in 1 .. NextField(to)
        \/ to.cur = Start(cols, j + 1) /\ j + 1 \in 1 .. NextField(to)
    <3>1. CASE n = q.read
      BY <1>6, <2>3, <2>4, <3>1
    <3>2. CASE n = q.read + 1
      <4>1. fr.cur + (q.read + 1) = fr.cur + q.read + 1
        BY <1>1, <1>2
      <4> QED BY <1>6, <2>3, <2>4, <3>2, <4>1
    <3> QED BY <3>1, <3>2, <1>3
  <2>6. PgColumns(to.src) = cols
    BY <1>6
  <2> HIDE DEF cols
  <2> QED BY <2>5, <2>6 DEF InColumns
<1>11. Sound(to)
  BY <1>6, <1>7, <1>8, <1>9, <1>10 DEF Sound
<1> QED BY <1>4, <1>6, <1>11 DEF Frames, to

(* Nothing else moves the cursor of a record.                              *)
LEMMA OtherMoves ==
    ASSUME NEW fr \in Frames, NEW left \in Seq(Todo), Pending(left) = Pending(fr.left)
    PROVE  MovedTo(fr, 0, left) \in Frames
<1> DEFINE to == MovedTo(fr, 0, left)
<1>1. fr \in Frame /\ fr.cur \in Nat
  BY FrameFacts DEF Frames
<1>2. /\ to \in Frame /\ to.cur = fr.cur + 0 /\ to.left = left
      /\ to.what = fr.what /\ to.src = fr.src /\ to.of = fr.of
      /\ Fits(to) <=> Fits(fr)
  BY <1>1, MovedFacts
<1>3. to.cur = fr.cur
  BY <1>1, <1>2
<1> HIDE DEF to
<1>4. NextField(to) = NextField(fr)
  BY <1>2 DEF NextField
<1>5. InColumns(to) = InColumns(fr)
  BY <1>2, <1>3, <1>4 DEF InColumns
<1>6. Sound(to)
  BY <1>2, <1>3, <1>5 DEF Frames, Sound
<1> QED BY <1>2, <1>6 DEF Frames, to

(* A turn of the loop of an array leaves two bytes behind the cursor.      *)
LEMMA TurnMoves ==
    ASSUME NEW fr \in Frames, fr.what = "array", fr.cur + 1 < Len(fr.src) - 1
    PROVE  MovedTo(fr, 1, fr.of) \in Frames
<1> DEFINE to == MovedTo(fr, 1, fr.of)
<1>1. /\ fr \in Frame /\ fr.cur \in Nat /\ fr.of \in Seq(Field) /\ Len(fr.src) \in Nat
      /\ Len(fr.of) = 1 /\ ~Fits(fr)
  BY FrameFacts DEF Frames, Sound, Fits
<1>2. fr.of \in Seq(Todo) /\ Pending(fr.of) = 1
  <2>1. Pending(fr.of) = 1
    BY <1>1, PendingFacts
  <2>2. Field \subseteq Todo
    BY DEF Todo
  <2> QED BY <1>1, <2>1, <2>2
<1>3. /\ to \in Frame /\ to.cur = fr.cur + 1 /\ to.left = fr.of
      /\ to.what = fr.what /\ to.src = fr.src /\ to.of = fr.of
      /\ Fits(to) <=> Fits(fr)
  BY <1>1, <1>2, MovedFacts
<1> HIDE DEF to
<1>4. Pending(to.left) = 1 /\ Len(to.of) = 1 /\ to.cur < Len(to.src) - 1
  BY <1>1, <1>2, <1>3
<1>5. to.cur <= Len(to.src) + 1
  BY <1>1, <1>3
<1>6. to.what = "array" /\ ~Fits(to)
  BY <1>1, <1>3
<1>7. Sound(to)
  BY <1>4, <1>5, <1>6 DEF Sound
<1> QED BY <1>3, <1>7 DEF Frames, to

(* The frames of a call and of a loop begin where they should.             *)
LEMMA NewRecord ==
    ASSUME NEW s \in Bytes, s # <<>>, IsRecord(s), NEW fields \in Seq(Field)
    PROVE  Record(s, fields) \in Frames
<1> DEFINE fr == Record(s, fields)
<1>1. fields \in Seq(Todo) /\ Len(fields) \in Nat /\ Pending(fields) = Len(fields)
      /\ Len(s) \in Nat \ {0}
  BY PendingFacts DEF Todo, Bytes
<1>2. /\ fr \in Frame /\ fr.cur = 1 /\ fr.left = fields /\ fr.what = "record"
      /\ fr.src = s /\ fr.of = fields
  BY <1>1 DEF Record, Frame
<1> HIDE DEF fr
<1>3. NextField(fr) = 1
  BY <1>1, <1>2 DEF NextField
<1>4. InColumns(fr)
  BY <1>2, <1>3, StartFirst DEF InColumns
<1>5. Sound(fr)
  BY <1>1, <1>2, <1>4 DEF Sound
<1> QED BY <1>2, <1>5 DEF Frames, fr

LEMMA NewArray ==
    ASSUME NEW s \in Bytes, NEW elem \in Field
    PROVE  Array(s, elem) \in Frames
<1> DEFINE fr == Array(s, elem)
<1>1. <<elem>> \in Seq(Field) /\ Len(<<elem>>) = 1 /\ Pending(<<>>) = 0 /\ Len(s) \in Nat
      /\ <<>> \in Seq(Todo)
  BY PendingFacts DEF Bytes
<1>2. /\ fr \in Frame /\ fr.cur = 0 /\ fr.left = <<>> /\ fr.what = "array"
      /\ fr.src = s /\ fr.of = <<elem>>
  BY <1>1 DEF Array, Frame
<1> HIDE DEF fr
<1>3. ~Fits(fr)
  BY <1>2 DEF Fits
<1>4. Sound(fr)
  BY <1>1, <1>2, <1>3 DEF Sound
<1> QED BY <1>2, <1>4 DEF Frames, fr

LEMMA OpensFacts ==
    ASSUME NEW s \in Bytes, Opens(s)
    PROVE  Inner(s).res \in Bytes /\ Inner(s).res # <<>> /\ IsRecord(Inner(s).res)
<1>1. Inner(s).res # <<>> /\ IsRecord(Inner(s).res)
  BY DEF Opens, OutOfRange
<1>2. CASE s # <<>> /\ Head(s) = Quote /\ Len(s) > 1
  <2>1. Tail(s) \in Bytes /\ Tail(s) # <<>>
    <3>1. Tail(s) \in Seq(AnyByte) /\ Len(Tail(s)) = Len(s) - 1 /\ Len(s) \in Nat
      BY <1>2 DEF Bytes
    <3>2. Len(Tail(s)) # 0
      BY <1>2, <3>1
    <3> QED BY <3>1, <3>2, NotEmpty DEF Bytes
  <2>2. Read(Tail(s), Null).res \in Bytes
    <3>1. Read(Tail(s), Null) \in [res : Bytes, read : 0 .. Len(Tail(s)), ok : BOOLEAN]
      BY <2>1, ReadFacts
    <3> QED BY <3>1
  <2> QED BY <1>1, <1>2, <2>2 DEF Inner
<1>3. CASE ~(s # <<>> /\ Head(s) = Quote /\ Len(s) > 1)
  BY <1>1, <1>3 DEF Inner
<1> QED BY <1>2, <1>3

-----------------------------------------------------------------------------
(***************************************************************************)
(* The invariant: every frame of the stack is where it should be, and the  *)
(* first is the record that Scan was called for.                           *)
(***************************************************************************)
IInv ==
    /\ call \in Calls
    /\ pc \in {"begin", "run"} \cup Ended
    /\ pc = "run" <=> stack # <<>>
    /\ stack \in Seq(Frames)
    /\ got \in Seq(Bytes \cup {Null})
    /\ stack # <<>> => stack[1].what = "record"

LEMMA TopFacts ==
    ASSUME stack \in Seq(Frames), stack # <<>>, stack[1].what = "record"
    PROVE  /\ Top \in Frames /\ Outer \in Seq(Frames)
           /\ Outer = <<>> <=> Len(stack) = 1
           /\ \A x \in Frames : Append(Outer, x) \in Seq(Frames) /\ Append(Outer, x) # <<>>
           /\ \A x, y \in Frames : /\ Append(Append(Outer, x), y) \in Seq(Frames)
                                   /\ Append(Append(Outer, x), y) # <<>>
           /\ Len(stack) \in DOMAIN stack
           /\ Outer # <<>> => Outer[1].what = "record"
           /\ Top.what = "array" => Outer # <<>>
           /\ \A x \in Frames : x.what = Top.what => Append(Outer, x)[1].what = "record"
           /\ \A x, y \in Frames :
                 x.what = Top.what => Append(Append(Outer, x), y)[1].what = "record"
<1>1. Len(stack) \in Nat \ {0} /\ DOMAIN stack = 1 .. Len(stack)
  OBVIOUS
<1>2. Outer \in Seq(Frames) /\ Len(Outer) = Len(stack) - 1
  BY <1>1 DEF Outer
<1>3. Outer = <<>> <=> Len(stack) = 1
  <2>1. Len(Outer) = 0 => Outer = <<>>
    BY <1>2
  <2>2. Outer = <<>> => Len(Outer) = 0
    OBVIOUS
  <2> QED BY <1>1, <1>2, <2>1, <2>2
<1>4. Top \in Frames
  BY <1>1 DEF Top
<1>5. \A x \in Frames : Append(Outer, x) \in Seq(Frames) /\ Append(Outer, x) # <<>>
  BY <1>2, AppendProperties
<1>6. \A x, y \in Frames : /\ Append(Append(Outer, x), y) \in Seq(Frames)
                           /\ Append(Append(Outer, x), y) # <<>>
  BY <1>5, AppendProperties
<1>7. Outer # <<>> => Outer[1].what = "record"
  <2>1. Outer # <<>> => Len(stack) >= 2
    BY <1>1, <1>3
  <2>2. Len(stack) >= 2 => SubSeq(stack, 1, Len(stack) - 1)[1] = stack[1]
    BY <1>1
  <2> QED BY <2>1, <2>2 DEF Outer
<1>8. Len(stack) = 1 => Top.what = "record"
  BY DEF Top
<1>9. ASSUME NEW x \in Frames, x.what = Top.what PROVE Append(Outer, x)[1].what = "record"
  <2>1. CASE Len(stack) = 1
    <3>1. Append(Outer, x)[1] = x
      BY <1>3, <2>1
    <3> QED BY <1>8, <1>9, <2>1, <3>1
  <2>2. CASE Len(stack) # 1
    <3>1. Append(Outer, x)[1] = Outer[1]
      BY <1>1, <1>2, <2>2
    <3> QED BY <1>3, <1>7, <2>2, <3>1
  <2> QED BY <2>1, <2>2
<1>10. ASSUME NEW x \in Frames, NEW y \in Frames, x.what = Top.what
       PROVE  Append(Append(Outer, x), y)[1].what = "record"
  <2>1. Append(Outer, x) \in Seq(Frames) /\ Append(Outer, x) # <<>>
    BY <1>5
  <2>2. PICK s \in Seq(Frames) : s = Append(Outer, x)
    BY <2>1
  <2>3. Append(s, y)[1] = s[1]
    BY <2>1, <2>2
  <2> QED BY <1>9, <1>10, <2>2, <2>3
<1> QED BY <1>1, <1>2, <1>3, <1>4, <1>5, <1>6, <1>7, <1>8, <1>9, <1>10

(* The field at hand. *)
LEMMA HeadFacts ==
    ASSUME IInv, NEW kind, NextIs(kind)
    PROVE  /\ pc = "run" /\ stack # <<>> /\ Top \in Frames /\ Top \in Frame
           /\ Top.left \in Seq(Todo) /\ Top.left # <<>> /\ Tail(Top.left) \in Seq(Todo)
           /\ f = Head(Top.left) /\ f \in Todo /\ f.kind = kind
           /\ kind = "from" => Weight(f) = 0
           /\ kind # "from" => f \in Field /\ Weight(f) = 1
<1>1. pc = "run" /\ stack # <<>> /\ Top.left # <<>> /\ Head(Top.left).kind = kind
  BY DEF NextIs, IInv
<1>2. Top \in Frames /\ Top \in Frame
  BY <1>1, TopFacts DEF IInv, Frames
<1>3. Top.left \in Seq(Todo)
  BY <1>2, FrameFacts
<1>4. f = Head(Top.left) /\ f \in Todo /\ Tail(Top.left) \in Seq(Todo)
  BY <1>1, <1>3, PendingMoves DEF f
<1>5. kind # "from" => f \in Field
  BY <1>1, <1>4 DEF Todo
<1> QED BY <1>1, <1>2, <1>3, <1>4, <1>5 DEF Weight

LEMMA StoppedInv ==
    ASSUME IInv, NEW how \in Ended, Stopped(how)
    PROVE  IInv'
<1>1. how # "run"
  BY DEF Ended
<1>2. <<>> \in Seq(Frames)
  OBVIOUS
<1> QED BY <1>1, <1>2 DEF IInv, Stopped

(* A field is read and stored, or skipped. *)
LEMMA ReadPast ==
    ASSUME IInv, NEW kind \in Reading, NextIs(kind), InRange, NEW n,
           n = r.read \/ (r.ok /\ n = r.read + 1)
    PROVE  /\ Past(n) \in Frames /\ Past(n).what = Top.what
           /\ r.res \in Bytes /\ r.read \in Nat /\ r.ok \in BOOLEAN /\ (~r.ok => r.read = 0)
<1>1. kind # "from"
  BY DEF Reading
<1>2. r = Read(Rest(Top), Close)
  BY DEF r, Rest
<1>3. Top \in Frames /\ Top.left # <<>> /\ Weight(Head(Top.left)) = 1
  BY <1>1, HeadFacts
<1>4. Top.cur < Len(Top.src)
  BY DEF InRange
<1>5. MovedTo(Top, n, Tail(Top.left)) \in Frames
  BY <1>2, <1>3, <1>4, ReadMoves
<1>6. Past(n) \in Frames /\ Past(n).what = Top.what
  <2>1. Past(n) = MovedTo(Top, n, Tail(Top.left))
    BY DEF Past, Moved, MovedTo
  <2>2. n \in Nat /\ Top \in Frame /\ Tail(Top.left) \in Seq(Todo)
    BY <1>2, <1>3, <1>4, ReadMoves, HeadFacts
  <2>3. MovedTo(Top, n, Tail(Top.left)).what = Top.what
    BY <2>2, MovedFacts
  <2> QED BY <1>5, <2>1, <2>3
<1> QED BY <1>2, <1>3, <1>4, <1>6, ReadTyped

LEMMA StoreInv ==
    ASSUME IInv, NEW kind \in Reading, NextIs(kind), InRange,
           NEW v \in Bytes \cup {Null}, Store(v, r.read)
    PROVE  IInv'
<1>1. Past(r.read) \in Frames /\ Past(r.read).what = Top.what
  BY ReadPast
<1>2. pc = "run" /\ stack # <<>>
  BY HeadFacts
<1>3. /\ stack' = Append(Outer, Past(r.read)) /\ got' = Append(got, v)
      /\ call' = call /\ pc' = pc
  BY DEF Store
<1>4. stack' \in Seq(Frames) /\ stack' # <<>> /\ stack'[1].what = "record"
  BY <1>1, <1>2, <1>3, TopFacts DEF IInv
<1>5. got' \in Seq(Bytes \cup {Null})
  BY <1>3 DEF IInv
<1> QED BY <1>2, <1>3, <1>4, <1>5 DEF IInv

(* A call or a loop on the text of a column. *)
LEMMA EnterInv ==
    ASSUME IInv, NEW x \in Frames, x.what = Top.what, NEW y \in Frames, pc = "run",
           stack' = Append(Append(Outer, x), y), UNCHANGED <<call, got, pc>>
    PROVE  IInv'
<1>1. stack' \in Seq(Frames) /\ stack' # <<>> /\ stack'[1].what = "record"
  BY TopFacts DEF IInv
<1> QED BY <1>1 DEF IInv

LEMMA GoOnInv ==
    ASSUME IInv, NEW x \in Frames, x.what = Top.what, pc = "run",
           stack' = Append(Outer, x), UNCHANGED <<call, got, pc>>
    PROVE  IInv'
<1>1. stack' \in Seq(Frames) /\ stack' # <<>> /\ stack'[1].what = "record"
  BY TopFacts DEF IInv
<1> QED BY <1>1 DEF IInv

LEMMA InitInv == Init => IInv
<1>1. <<>> \in Seq(Frames) /\ <<>> \in Seq(Bytes \cup {Null})
  OBVIOUS
<1> QED BY <1>1 DEF Init, IInv

(* Begin, and every end but that of the last field. *)
LEMMA OuterSteps ==
    ASSUME IInv, NotAString \/ Begin \/ BeginRefused \/ NothingLeft \/ ReadFails \/ IntFails
                 \/ BoolPanics \/ StructRefused \/ PODFails
    PROVE  IInv'
<1>0. {"range", "error", "panic"} \subseteq Ended
  BY DEF Ended
<1>1. CASE Begin
  <2>1. call.source \in Bytes /\ call.fields \in Seq(Field)
    BY <1>1, CallsAssumption DEF IInv, Begin
  <2>2. Opens(call.source)
    BY <1>1 DEF Begin
  <2>3. Record(Inner(call.source).res, call.fields) \in Frames
    BY <2>1, <2>2, OpensFacts, NewRecord
  <2>4. PICK x \in Frames : stack' = <<x>> /\ x.what = "record" /\ pc' = "run" /\ got' = got /\ call' = call
    BY <1>1, <2>3 DEF Begin, Record
  <2>5. <<x>> \in Seq(Frames) /\ <<x>> # <<>> /\ <<x>>[1] = x
    OBVIOUS
  <2> QED BY <2>4, <2>5 DEF IInv
<1>2. CASE BeginRefused
  BY <1>0, <1>2, StoppedInv DEF BeginRefused, Refused
<1>3. CASE NothingLeft
  BY <1>0, <1>3, StoppedInv DEF NothingLeft
<1>4. CASE ReadFails
  BY <1>0, <1>4, StoppedInv DEF ReadFails
<1>5. CASE IntFails
  BY <1>0, <1>5, StoppedInv DEF IntFails
<1>6. CASE BoolPanics
  BY <1>0, <1>6, StoppedInv DEF BoolPanics
<1>7. CASE StructRefused
  BY <1>0, <1>7, StoppedInv DEF StructRefused, Refused
<1>8. CASE PODFails
  BY <1>0, <1>8, StoppedInv DEF PODFails
<1>9. CASE NotAString
  BY <1>0, <1>9, StoppedInv DEF NotAString
<1> QED BY <1>1, <1>2, <1>3, <1>4, <1>5, <1>6, <1>7, <1>8, <1>9

LEMMA ReadSteps ==
    ASSUME IInv, ReadText \/ ReadInt \/ ReadBool \/ Skip \/ ScanByHand
    PROVE  IInv'
<1>0. {"text", "int", "bool", "struct", "hand"} \subseteq Reading /\ "error" \in Ended
  BY DEF Reading, Ended
<1>r. ASSUME NEW kind \in Reading, NextIs(kind), InRange
      PROVE  r.res \in Bytes \cup {Null}
  BY <1>r, ReadPast
<1>1. CASE ReadText
  BY <1>0, <1>1, <1>r, StoreInv DEF ReadText
<1>2. CASE ReadInt
  BY <1>0, <1>2, <1>r, StoreInv DEF ReadInt
<1>3. CASE ReadBool
  BY <1>0, <1>3, <1>r, StoreInv DEF ReadBool
<1>4. CASE Skip
  <2>1. PICK kind \in Reading : NextIs(kind)
    BY <1>0, <1>4 DEF Skip
  <2>2. Store(Null, r.read) /\ InRange
    BY <1>4 DEF Skip
  <2>3. Null \in Bytes \cup {Null}
    OBVIOUS
  <2> QED BY <2>1, <2>2, <2>3, StoreInv
<1>5. CASE ScanByHand
  <2>1. NextIs("hand") /\ InRange
    BY <1>5 DEF ScanByHand
  <2>2. CASE Store(r.res, r.read)
    BY <1>0, <1>r, <2>1, <2>2, StoreInv
  <2>3. CASE Stopped("error")
    BY <1>0, <2>3, StoppedInv
  <2> QED BY <1>5, <2>2, <2>3 DEF ScanByHand
<1> QED BY <1>1, <1>2, <1>3, <1>4, <1>5

LEMMA EnterSteps ==
    ASSUME IInv, ScanStruct \/ ScanSlice
    PROVE  IInv'
<1>0. "struct" \in Reading /\ "slice" \in Reading
  BY DEF Reading
<1>1. CASE ScanStruct
  <2>1. NextIs("struct") /\ InRange /\ Opens(r.res)
    BY <1>1 DEF ScanStruct
  <2>2. Past(r.read) \in Frames /\ Past(r.read).what = Top.what /\ r.res \in Bytes
    BY <1>0, <2>1, ReadPast
  <2>3. f.fields \in Seq(Field) /\ pc = "run"
    BY <2>1, HeadFacts, FieldAssumption
  <2>4. Record(Inner(r.res).res, f.fields) \in Frames
    BY <2>1, <2>2, <2>3, OpensFacts, NewRecord
  <2>5. /\ stack' = Append(Append(Outer, Past(r.read)), Record(Inner(r.res).res, f.fields))
        /\ UNCHANGED <<call, got, pc>>
    BY <1>1 DEF ScanStruct
  <2> QED BY <2>2, <2>3, <2>4, <2>5, EnterInv
<1>2. CASE ScanSlice
  <2>1. NextIs("slice") /\ InRange /\ r.ok
    BY <1>2 DEF ScanSlice
  <2>2. Past(r.read + 1) \in Frames /\ Past(r.read + 1).what = Top.what /\ r.res \in Bytes
    BY <1>0, <2>1, ReadPast
  <2>3. f.elem \in Field /\ pc = "run"
    BY <2>1, HeadFacts, FieldAssumption
  <2>4. Array(r.res, f.elem) \in Frames
    BY <2>2, <2>3, NewArray
  <2>5. /\ stack' = Append(Append(Outer, Past(r.read + 1)), Array(r.res, f.elem))
        /\ UNCHANGED <<call, got, pc>>
    BY <1>2 DEF ScanSlice
  <2> QED BY <2>2, <2>3, <2>4, <2>5, EnterInv
<1> QED BY <1>1, <1>2

LEMMA TurnStep ==
    ASSUME IInv, Turn
    PROVE  IInv'
<1>1. /\ pc = "run" /\ Top.what = "array" /\ stack # <<>>
      /\ UNCHANGED <<call, got, pc>>
  BY DEF Turn, IInv
<1>2. /\ Top \in Frames /\ Top \in Frame /\ Outer \in Seq(Frames) /\ Outer # <<>>
      /\ Outer[1].what = "record"
  BY <1>1, TopFacts DEF IInv, Frames
<1>3. CASE Top.cur + 1 < Len(Top.src) - 1
  <2>1. Moved(1, Top.of) \in Frames
    BY <1>1, <1>2, <1>3, TurnMoves DEF Moved, MovedTo
  <2>2. Moved(1, Top.of).what = Top.what
    BY <1>2 DEF Moved, Frame
  <2>3. stack' = Append(Outer, Moved(1, Top.of))
    BY <1>3 DEF Turn
  <2> QED BY <1>1, <2>1, <2>2, <2>3, GoOnInv
<1>4. CASE ~(Top.cur + 1 < Len(Top.src) - 1)
  <2>1. stack' = Outer
    BY <1>4 DEF Turn
  <2> QED BY <1>1, <1>2, <2>1 DEF IInv
<1> QED BY <1>3, <1>4

(* A pointer, a POD and the call of FromPOD: the columns that are left are *)
(* as many as before.                                                      *)
LEMMA GoOnSteps ==
    ASSUME IInv, New \/ ScanPOD \/ FromPOD
    PROVE  IInv'
<1> DEFINE from == [kind |-> "from", ok |-> f.ok]
<1>w. \A t : Weight(t) \in Nat
  BY DEF Weight
<1>1. ASSUME NEW types, GoOn(types), NEW kind, NextIs(kind),
             types \o Tail(Top.left) \in Seq(Todo),
             Pending(types \o Tail(Top.left)) = Pending(Top.left)
      PROVE  IInv'
  <2>1. /\ stack' = Append(Outer, Moved(0, types \o Tail(Top.left)))
        /\ UNCHANGED <<call, got, pc>>
    BY <1>1 DEF GoOn
  <2>2. Top \in Frames /\ Top \in Frame /\ pc = "run"
    BY <1>1, HeadFacts
  <2>3. Moved(0, types \o Tail(Top.left)) \in Frames
    BY <1>1, <2>2, OtherMoves DEF Moved, MovedTo
  <2>4. Moved(0, types \o Tail(Top.left)).what = Top.what
    BY <2>2 DEF Moved, Frame
  <2> QED BY <2>1, <2>2, <2>3, <2>4, GoOnInv
<1>2. ASSUME NEW t \in Field PROVE t \in Todo /\ Weight(t) = 1
  BY <1>2, FieldAssumption DEF Todo, Weight
<1>3. ASSUME NEW kind, NextIs(kind)
      PROVE  /\ Top.left \in Seq(Todo) /\ Top.left # <<>> /\ f = Head(Top.left)
             /\ Pending(Top.left) = Weight(f) + Pending(Tail(Top.left))
             /\ Pending(Tail(Top.left)) \in Nat
  BY <1>3, HeadFacts, PendingMoves
<1>4. CASE New
  <2>1. NextIs("ptr") /\ GoOn(<<f.to>>)
    BY <1>4 DEF New
  <2>2. f.to \in Field /\ Weight(f) = 1
    BY <2>1, HeadFacts, FieldAssumption
  <2>3. f.to \in Todo /\ Weight(f.to) = 1
    BY <1>2, <2>2
  <2>4. /\ <<f.to>> \o Tail(Top.left) \in Seq(Todo)
        /\ Pending(<<f.to>> \o Tail(Top.left)) = Weight(f.to) + Pending(Tail(Top.left))
    BY <1>3, <2>1, <2>3, PendingMoves
  <2> QED BY <1>1, <1>3, <2>1, <2>2, <2>3, <2>4
<1>5. CASE ScanPOD
  <2>1. NextIs("pod") /\ GoOn(<<f.to, from>>)
    BY <1>5 DEF ScanPOD
  <2>2. f.to \in Field /\ Weight(f) = 1 /\ f.ok \in BOOLEAN
    BY <2>1, HeadFacts, FieldAssumption
  <2>3. f.to \in Todo /\ Weight(f.to) = 1
    BY <1>2, <2>2
  <2>4. from \in Todo /\ Weight(from) = 0
    BY <2>2 DEF Todo, Weight
  <2> HIDE DEF from
  <2>5. /\ <<f.to, from>> \o Tail(Top.left) \in Seq(Todo)
        /\ Pending(<<f.to, from>> \o Tail(Top.left))
              = Weight(f.to) + Weight(from) + Pending(Tail(Top.left))
    BY <1>3, <2>1, <2>3, <2>4, PendingMoves
  <2>6. Pending(<<f.to, from>> \o Tail(Top.left)) = Pending(Top.left)
    BY <1>3, <2>1, <2>2, <2>3, <2>4, <2>5
  <2> QED BY <1>1, <2>1, <2>5, <2>6
<1>6. CASE FromPOD
  <2>1. NextIs("from") /\ GoOn(<<>>)
    BY <1>6 DEF FromPOD
  <2>2. Weight(f) = 0 /\ Tail(Top.left) \in Seq(Todo)
    BY <2>1, HeadFacts
  <2>3. <<>> \o Tail(Top.left) = Tail(Top.left)
    BY <1>3, <2>1, PendingMoves
  <2>4. Pending(<<>> \o Tail(Top.left)) = Pending(Top.left)
    BY <1>3, <2>1, <2>2, <2>3
  <2> QED BY <1>1, <2>1, <2>2, <2>3, <2>4
<1> QED BY <1>4, <1>5, <1>6

LEMMA ReturnStep ==
    ASSUME IInv, Return
    PROVE  IInv'
<1>1. /\ pc = "run" /\ stack # <<>> /\ stack' = Outer
      /\ pc' = IF Len(stack) = 1 THEN "done" ELSE "run"
      /\ UNCHANGED <<call, got>>
  BY DEF Return, IInv
<1>2. /\ Outer \in Seq(Frames) /\ (Outer = <<>> <=> Len(stack) = 1)
      /\ (Outer # <<>> => Outer[1].what = "record")
  BY <1>1, TopFacts DEF IInv
<1>3. pc' \in {"begin", "run"} \cup Ended /\ (pc' = "run" <=> stack' # <<>>)
  BY <1>1, <1>2 DEF Ended
<1> QED BY <1>1, <1>2, <1>3 DEF IInv

LEMMA StepInv == IInv /\ [Next]_vars => IInv'
<1> SUFFICES ASSUME IInv, [Next]_vars PROVE IInv'
  OBVIOUS
<1>1. CASE UNCHANGED vars
  BY <1>1 DEF vars, IInv
<1>2. CASE Step
  BY <1>2, OuterSteps, ReadSteps, EnterSteps, TurnStep, GoOnSteps, ReturnStep DEF Step
<1> QED BY <1>1, <1>2 DEF Next, Terminated

LEMMA Inductive == Spec => []IInv
BY InitInv, StepInv, PTL DEF Spec

-----------------------------------------------------------------------------
(* The cursors never leave their literals by more than the comma of a      *)
(* slice, for any types, any literal and whatever is in its columns.       *)
THEOREM TypeCorrect == Spec => []TypeOK
<1>1. IInv => TypeOK
  <2> SUFFICES ASSUME IInv PROVE TypeOK
    OBVIOUS
  <2>1. Frames \subseteq Frame
    BY DEF Frames
  <2>2. stack \in Seq(Frame)
    BY <2>1 DEF IInv
  <2>3. ASSUME NEW k \in DOMAIN stack
        PROVE  IF stack[k].what = "record" THEN stack[k].cur \in 1 .. Len(stack[k].src)
                                           ELSE stack[k].cur \in 0 .. Len(stack[k].src) + 1
    <3>1. stack[k] \in Frames
      BY <2>3 DEF IInv
    <3>2. stack[k] \in Frame /\ Sound(stack[k])
      BY <3>1 DEF Frames
    <3> QED BY <3>2, FrameFacts DEF Sound
  <2> QED BY <2>2, <2>3 DEF IInv, TypeOK
<1> QED BY <1>1, Inductive, PTL

(* In a record of PostgreSQL's with a column for every field, and whatever *)
(* is in the columns, no field is read from a column behind its own.       *)
THEOREM NoFieldAhead == Spec => []NeverAhead
<1>1. IInv => NeverAhead
  <2> SUFFICES ASSUME IInv, NEW k \in DOMAIN stack, Fits(stack[k])
               PROVE  stack[k].cur <= Start(PgColumns(stack[k].src), NextField(stack[k]))
    BY DEF NeverAhead
  <2>1. PICK fr \in Frames : fr = stack[k]
    BY DEF IInv
  <2> DEFINE cols == PgColumns(fr.src)
             n == NextField(fr)
  <2>2. /\ fr \in Frame /\ Fits(fr) /\ InColumns(fr) /\ Pending(fr.left) <= Len(fr.of)
    BY <2>1 DEF Frames, Sound
  <2>3. cols \in Seq(ColumnText) /\ Len(fr.of) <= Len(cols)
    BY <2>2, FrameFacts, PgColumnsTyped DEF Fits
  <2>4. Len(cols) \in Nat /\ n \in 1 .. Len(cols) + 1
    BY <2>2, <2>3, FrameFacts DEF NextField
  <2>5. PICK j \in 1 .. n : fr.cur = Start(cols, j) \/ (j < n /\ fr.cur = EndOf(cols, j))
    BY <2>2 DEF InColumns
  <2> HIDE DEF cols, n
  <2>6. CASE fr.cur = Start(cols, j)
    <3>1. Start(cols, j) <= Start(cols, n)
      BY <2>3, <2>4, <2>5, StartGrows
    <3> QED BY <2>1, <2>6, <3>1 DEF cols, n
  <2>7. CASE j < n /\ fr.cur = EndOf(cols, j)
    <3>1. j \in 1 .. Len(cols) /\ j + 1 \in 1 .. Len(cols) + 1 /\ j + 1 <= n
      BY <2>4, <2>7
    <3>2. Start(cols, j + 1) <= Start(cols, n)
      BY <2>3, <2>4, <3>1, StartGrows
    <3>3. EndOf(cols, j) \in Nat /\ Start(cols, j + 1) = EndOf(cols, j) + 1
      BY <2>3, <3>1, StartGrows
    <3>4. Start(cols, n) \in Nat
      <4>1. CASE n \in 1 .. Len(cols)
        BY <2>3, <4>1, StartGrows
      <4>2. CASE n = Len(cols) + 1
        <5>1. Len(cols) \in 1 .. Len(cols)
          BY <2>4, <3>1
        <5> QED BY <2>3, <4>2, <5>1, StartGrows
      <4> QED BY <2>4, <4>1, <4>2
    <3>5. fr.cur <= Start(cols, n)
      BY <2>7, <3>2, <3>3, <3>4
    <3> QED BY <2>1, <3>5 DEF cols, n
  <2> QED BY <2>5, <2>6, <2>7
<1> QED BY <1>1, Inductive, PTL

(* A field that is to be read from a record that fits has a column, and the *)
(* cursor stands in its own or at the end of an earlier one.               *)
LEMMA FitsPending ==
    ASSUME IInv, NEW kind \in Reading, NextIs(kind), Fits(Top)
    PROVE  /\ Top \in Frame /\ Len(Top.of) \in Nat /\ Top.cur \in Nat
           /\ InColumns(Top) /\ Pending(Top.left) \in 1 .. Len(Top.of)
<1>1. /\ Top \in Frames /\ Top \in Frame /\ Top.left \in Seq(Todo) /\ Top.left # <<>>
      /\ f = Head(Top.left) /\ Weight(f) = 1
  BY HeadFacts DEF Reading
<1>2. Pending(Top.left) <= Len(Top.of) /\ InColumns(Top)
  BY <1>1 DEF Frames, Sound
<1>3. Pending(Top.left) \in 1 .. Len(Top.of)
  <2>1. Pending(Top.left) >= 1 /\ Pending(Top.left) \in Nat
    BY <1>1, PendingMoves
  <2> QED BY <1>1, <1>2, <2>1, FrameFacts
<1> QED BY <1>1, <1>2, <1>3, FrameFacts

(* What such a field finds.                                                *)
LEMMA FitsTop ==
    ASSUME IInv, NEW kind \in Reading, NextIs(kind), Fits(Top)
    PROVE  InRange /\ r.ok
<1>1. Top.cur < Len(Top.src) /\ Read(Rest(Top), Close).ok
  BY FitsPending, FitsReads
<1> QED BY <1>1 DEF InRange, r, Rest

(* Scan looks behind the end of a literal only where a column is missing   *)
(* or where a struct has nothing in its column.                            *)
THEOREM LooksBehindNoEnd == Spec => InBounds
<1> DEFINE A == pc = "run" /\ pc' = "range" =>
                   \/ Top.what = "record" /\ ~Fits(Top)
                   \/ NextIs("struct") /\ OutOfRange(r.res)
<1>1. IInv /\ [Next]_vars => [A]_vars
  <2> SUFFICES ASSUME IInv, Next, pc = "run", pc' = "range"
               PROVE  \/ Top.what = "record" /\ ~Fits(Top)
                      \/ NextIs("struct") /\ OutOfRange(r.res)
    OBVIOUS
  <2>1. NothingLeft \/ StructRefused
    BY DEF Next, Step, Terminated, vars, NotAString, Begin, BeginRefused, ReadFails, ReadText, ReadInt,
           IntFails, ReadBool, BoolPanics, Skip, ScanByHand, ScanStruct, ScanSlice, Turn,
           New, ScanPOD, FromPOD, PODFails, Return, Stopped, Store, GoOn, Refused
  <2>2. CASE NothingLeft
    <3>1. PICK kind \in Reading : NextIs(kind)
      BY <2>2 DEF NothingLeft
    <3>2. ~InRange
      BY <2>2 DEF NothingLeft
    <3>3. ~Fits(Top)
      BY <3>1, <3>2, FitsTop
    <3>4. Top.what # "array"
      <4> SUFFICES ASSUME Top.what = "array" PROVE InRange
        BY <3>2
      <4>1. /\ Top \in Frames /\ Top \in Frame /\ Top.left \in Seq(Todo) /\ Top.left # <<>>
            /\ f = Head(Top.left) /\ Weight(f) = 1
        BY <3>1, HeadFacts DEF Reading
      <4>2. Pending(Top.left) > 0
        BY <4>1, PendingMoves
      <4>3. Top.cur < Len(Top.src) - 1
        BY <4>1, <4>2 DEF Frames, Sound
      <4> QED BY <4>1, <4>3, FrameFacts DEF InRange
    <3>5. Top.what \in {"record", "array"}
      BY <3>1, HeadFacts, FrameFacts
    <3> QED BY <3>3, <3>4, <3>5
  <2>3. CASE StructRefused
    BY <2>3 DEF StructRefused, Refused, Stopped
  <2> QED BY <2>1, <2>2, <2>3
<1> QED BY <1>1, Inductive, PTL DEF Spec, InBounds

(* There is nothing in a column only for a null. *)
LEMMA ColumnLength == \A c \in Bytes : Len(PgColumn(c)) \in Nat \ {0}
<1> SUFFICES ASSUME NEW c \in Bytes PROVE Len(PgColumn(c)) \in Nat \ {0}
  OBVIOUS
<1>1. c # Null
  BY NullAssumption
<1>2. CASE c = <<>> \/ Has(c, Special \ {LBrace, RBrace})
  <2> DEFINE w == Replaced(c, Doubled)
  <2>1. w \in Seq(AnyByte) /\ Quote \in AnyByte
    BY QuotingTexts, ReplacedFacts, BytesOf DEF Quoting, Bytes
  <2>2. PgColumn(c) = <<Quote>> \o w \o <<Quote>>
    BY <1>1, <1>2 DEF PgColumn, Surrounded
  <2> HIDE DEF w
  <2>3. Len(<<Quote>> \o w \o <<Quote>>) = Len(w) + 2 /\ Len(w) \in Nat
    BY <2>1
  <2> QED BY <2>2, <2>3
<1>3. CASE ~(c = <<>> \/ Has(c, Special \ {LBrace, RBrace}))
  <2>1. PgColumn(c) = c /\ c # <<>> /\ c \in Seq(AnyByte)
    BY <1>1, <1>3 DEF PgColumn, Bytes
  <2> QED BY <2>1, EmptySeq
<1> QED BY <1>2, <1>3

(* Where a field of a record that fits is skipped, the cursor stands on a  *)
(* null in its own column, or at the end of an earlier one; and no error   *)
(* of readString is passed over.                                           *)
THEOREM NoColumnSkipped == Spec => SkipsNoColumn
<1> DEFINE cols == PgColumns(Top.src)
           n == NextField(Top)
           P == /\ r.ok
                /\ \/ cols[n] = Null /\ Top.cur = Start(cols, n)
                   \/ \E j \in 1 .. n - 1 : Top.cur + 1 = Start(cols, j + 1)
           A == Skip /\ Fits(Top) => P
<1>1. IInv /\ [Next]_vars => [A]_vars
  <2> SUFFICES ASSUME IInv, Skip, Fits(Top) PROVE P
    OBVIOUS
  <2>1. PICK kind \in {"struct", "hand"} : NextIs(kind)
    BY DEF Skip
  <2>2. kind \in Reading /\ InRange /\ r.read = 0
    BY DEF Reading, Skip
  <2>3. r.ok
    BY <2>1, <2>2, FitsTop
  <2>4. /\ Top \in Frame /\ Len(Top.of) \in Nat /\ Top.cur \in Nat
        /\ InColumns(Top) /\ Pending(Top.left) \in 1 .. Len(Top.of)
    BY <2>1, <2>2, FitsPending
  <2>5. cols \in Seq(ColumnText) /\ Len(Top.of) <= Len(cols) /\ Len(cols) \in Nat
    BY <2>4, PgColumnsTyped, FrameFacts DEF Fits
  <2>6. n \in 1 .. Len(cols)
    BY <2>4, <2>5 DEF NextField
  <2>7. PICK j \in 1 .. n : Top.cur = Start(cols, j) \/ (j < n /\ Top.cur = EndOf(cols, j))
    BY <2>4 DEF InColumns
  <2>8. PICK i \in 1 .. n : Top.cur = EndOf(cols, i) /\ Top.cur + 1 = Start(cols, i + 1)
    <3>1. PICK i \in 1 .. n : /\ Top.cur + Read(Rest(Top), Close).read = EndOf(cols, i)
                              /\ Top.cur + Read(Rest(Top), Close).read + 1 = Start(cols, i + 1)
      BY <2>4, FitsReads
    <3>2. Read(Rest(Top), Close).read = 0
      BY <2>2 DEF r, Rest
    <3> QED BY <2>4, <3>1, <3>2
  <2> HIDE DEF cols, n
  <2>9. CASE i < n
    <3>1. i \in 1 .. n - 1
      BY <2>6, <2>8, <2>9
    <3> QED BY <2>3, <2>8, <3>1
  <2>10. CASE j < n /\ Top.cur = EndOf(cols, j)
    <3>1. j \in 1 .. n - 1 /\ j \in 1 .. Len(cols)
      BY <2>6, <2>7, <2>10
    <3>2. Top.cur + 1 = Start(cols, j + 1)
      BY <2>5, <2>10, <3>1, StartGrows
    <3> QED BY <2>3, <3>1, <3>2
  <2>11. CASE i = n /\ j < n /\ Top.cur = Start(cols, j)
    <3>1. EndOf(cols, n) = Start(cols, j)
      BY <2>8, <2>11
    <3>2. j \in 1 .. Len(cols) /\ j + 1 \in 1 .. Len(cols) + 1 /\ n \in 1 .. Len(cols) + 1
          /\ j + 1 <= n
      BY <2>5, <2>6, <2>7, <2>11
    <3>3. /\ Start(cols, j) \in Nat /\ EndOf(cols, j) \in Nat /\ Start(cols, n) \in Nat
          /\ Start(cols, j) <= EndOf(cols, j) /\ Start(cols, j + 1) = EndOf(cols, j) + 1
          /\ Start(cols, n) <= EndOf(cols, n) /\ Start(cols, j + 1) <= Start(cols, n)
      BY <2>5, <2>6, <3>2, StartGrows
    <3> QED BY <3>1, <3>3
  <2>12. CASE i = n /\ j = n /\ Top.cur = Start(cols, n)
    <3>1. Start(cols, n) + Len(PgColumn(cols[n])) = Start(cols, n)
      BY <2>8, <2>12 DEF EndOf
    <3>2. Start(cols, n) \in Nat /\ cols[n] \in ColumnText
      BY <2>5, <2>6, StartGrows
    <3>3. cols[n] \notin Bytes
      BY <3>1, <3>2, ColumnLength
    <3>4. cols[n] = Null
      BY <3>2, <3>3 DEF ColumnText
    <3> QED BY <2>3, <2>12, <3>4
  <2> QED BY <2>6, <2>7, <2>8, <2>9, <2>10, <2>11, <2>12
<1> QED BY <1>1, Inductive, PTL DEF Spec, SkipsNoColumn

-----------------------------------------------------------------------------
(***************************************************************************)
(* What is said of a value by what is said of its parts: the text that     *)
(* PostgreSQL writes for it, whether that can be read, and what is to be   *)
(* stored.                                                                 *)
(***************************************************************************)
PartsIn == [v \in Value |-> Parts(v)]

LEMMA ValueFacts ==
    ASSUME NEW v \in Value
    PROVE  /\ Parts(v) \in Seq(Value)
           /\ Form(v) \in {"other", "null", "leaf", "record", "array"}
           /\ Form(v) = "other" => Parts(v) = <<v.to>> /\ v.to \in Value
           /\ Form(v) \in {"record", "array"} => Parts(v) = v.in /\ v.in \in Seq(Value)
           /\ Form(v) \notin {"other", "record", "array"} => Parts(v) = <<>>
           /\ v.type \in Field
<1>1. Parts(v) \in Seq(Value) /\ v.type \in Field /\ v.of \in {"null", "leaf", "record", "array"}
  BY ValueAssumption
<1>2. Form(v) \in {"other", "null", "leaf", "record", "array"}
  BY <1>1 DEF Form
<1>3. /\ Form(v) = "other" => Parts(v) = <<v.to>>
      /\ Form(v) \in {"record", "array"} => Parts(v) = v.in
      /\ Form(v) \notin {"other", "record", "array"} => Parts(v) = <<>>
  BY DEF Parts
<1>4. ASSUME Form(v) = "other" PROVE v.to \in Value
  <2>1. PICK vs \in Seq(Value) : vs = <<v.to>>
    BY <1>1, <1>3, <1>4
  <2>2. 1 \in DOMAIN vs /\ vs[1] = v.to
    BY <2>1
  <2> QED BY <2>2
<1> QED BY <1>1, <1>2, <1>3, <1>4

LEMMA ValueTree ==
    /\ Tree(Value, PartsIn, Depth)
    /\ \A v \in Value : PartsIn[v] = Parts(v)
<1>1. \A v \in Value : PartsIn[v] = Parts(v)
  BY DEF PartsIn
<1>2. Tree(Value, PartsIn, Depth)
  BY <1>1, ValueFacts, DepthAssumption DEF Tree
<1> QED BY <1>1, <1>2

(* Commas between texts, and what is around them. *)
LEMMA SurroundedTyped ==
    ASSUME NEW ts \in Seq(Bytes), NEW open \in AnyByte, NEW close \in AnyByte
    PROVE  Commas(ts) \in Bytes /\ Surrounded(open, Commas(ts), close) \in Bytes
<1>1. Commas(ts) \in Bytes
  <2>1. CASE ts = <<>>
    BY <2>1, BytesOf DEF Commas
  <2>2. CASE ts # <<>>
    <3>1. Joined(ts) \in Seq(AnyByte) /\ Joined(ts) # <<>>
      BY <2>2, JoinedFacts, JoinedHead DEF Bytes
    <3>2. Tail(Joined(ts)) \in Seq(AnyByte)
      BY <3>1, HeadTail
    <3> QED BY <2>2, <3>2 DEF Commas, Bytes
  <2> QED BY <2>1, <2>2
<1> QED BY <1>1, BytesOf DEF Surrounded

LEMMA ElementTyped == \A s \in Bytes : PgElement(s) \in Bytes
<1>1. \A s \in Bytes : Surrounded(Quote, Replaced(s, Escaped), Quote) \in Bytes
  BY QuotingTexts, ReplacedFacts, BytesOf DEF Surrounded, Quoting
<1> QED BY <1>1 DEF PgElement

LEMMA WrittenByTyped ==
    ASSUME NEW T \in [Value -> Bytes], NEW v \in Value
    PROVE  WrittenBy(T, v) \in Bytes
<1>1. CASE Form(v) = "other"
  BY <1>1, ValueFacts DEF WrittenBy
<1>2. CASE Form(v) = "leaf"
  BY <1>2, ValueAssumption DEF WrittenBy
<1>3. CASE Form(v) = "record"
  <2> DEFINE cols == [k \in DOMAIN v.in |-> OutBy(T, v.in[k])]
  <2>1. v.in \in Seq(Value)
    BY <1>3, ValueFacts
  <2>2. cols \in Seq(ColumnText)
    BY <2>1 DEF OutBy, ColumnText
  <2> HIDE DEF cols
  <2>3. PgRecord(cols) \in Bytes
    BY <2>2, ColumnsTyped, SurroundedTyped, BytesOf DEF PgRecord
  <2> QED BY <1>3, <2>3 DEF WrittenBy, cols
<1>4. CASE Form(v) = "array"
  <2> DEFINE ts == [k \in DOMAIN v.in |-> T[v.in[k]]]
  <2>1. v.in \in Seq(Value)
    BY <1>4, ValueFacts
  <2>2. ts \in Seq(Bytes)
    BY <2>1
  <2> HIDE DEF ts
  <2>3. [k \in DOMAIN ts |-> PgElement(ts[k])] \in Seq(Bytes)
    BY <2>2, ElementTyped
  <2>4. PgArray(ts) \in Bytes
    BY <2>3, SurroundedTyped, BytesOf DEF PgArray
  <2> QED BY <1>4, <2>4 DEF WrittenBy, ts
<1>5. CASE Form(v) = "null"
  <2>1. <<>> \in Bytes
    BY BytesOf
  <2> QED BY <1>5, <2>1 DEF WrittenBy
<1> QED BY <1>1, <1>2, <1>3, <1>4, <1>5, ValueFacts

LEMMA WrittenByLocal ==
    ASSUME NEW F, NEW G, NEW v \in Value,
           \A k \in DOMAIN Parts(v) : F[Parts(v)[k]] = G[Parts(v)[k]]
    PROVE  WrittenBy(F, v) = WrittenBy(G, v)
<1>1. CASE Form(v) = "other"
  BY <1>1, ValueFacts DEF WrittenBy
<1>2. CASE Form(v) = "record"
  <2>1. \A k \in DOMAIN v.in : OutBy(F, v.in[k]) = OutBy(G, v.in[k])
    BY <1>2, ValueFacts DEF OutBy
  <2>2. [k \in DOMAIN v.in |-> OutBy(F, v.in[k])] = [k \in DOMAIN v.in |-> OutBy(G, v.in[k])]
    BY <2>1
  <2> QED BY <1>2, <2>2 DEF WrittenBy
<1>3. CASE Form(v) = "array"
  <2>1. \A k \in DOMAIN v.in : F[v.in[k]] = G[v.in[k]]
    BY <1>3, ValueFacts
  <2>2. [k \in DOMAIN v.in |-> F[v.in[k]]] = [k \in DOMAIN v.in |-> G[v.in[k]]]
    BY <2>1
  <2> QED BY <1>3, <2>2 DEF WrittenBy
<1>4. CASE Form(v) \in {"leaf", "null"}
  BY <1>4 DEF WrittenBy
<1> QED BY <1>1, <1>2, <1>3, <1>4, ValueFacts

LEMMA WrittenEquation ==
    /\ Written \in [Value -> Bytes]
    /\ \A v \in Value : Written[v] = WrittenBy(Written, v)
<1> DEFINE step == [p \in [Value -> Bytes] \X Value |-> WrittenBy(p[1], p[2])]
<1>1. step \in [[Value -> Bytes] \X Value -> Bytes]
  BY WrittenByTyped
<1>2. \A F \in [Value -> Bytes], v \in Value : step[<<F, v>>] = WrittenBy(F, v)
  OBVIOUS
<1> HIDE DEF step
<1>3. LocalIn(Value, PartsIn, Bytes, step)
  BY <1>2, ValueTree, WrittenByLocal DEF LocalIn
<1>4. PICK H \in [Value -> Bytes] : \A v \in Value : H[v] = WrittenBy(H, v)
  <2>1. Bytes # {}
    BY BytesOf
  <2>2. HasRecursion(Value, Bytes, step)
    BY <1>1, <1>3, <2>1, ValueTree, TreeRecursion
  <2> QED BY <1>2, <2>2 DEF HasRecursion
<1> DEFINE Is(F) == F = [v \in Value |-> WrittenBy(F, v)]
<1>5. Is(H)
  BY <1>4
<1>6. Written = CHOOSE F : Is(F)
  BY DEF Written
<1>7. Is(Written)
  <2> HIDE DEF Is
  <2> QED BY <1>5, <1>6, Zenon
<1> HIDE DEF Written
<1>8. Written = [v \in Value |-> Written[v]] /\ \A v \in Value : Written[v] = WrittenBy(Written, v)
  BY <1>7
<1> DEFINE T == {v \in Value : Written[v] = H[v]}
<1>9. ASSUME NEW v \in Value, \A k \in DOMAIN PartsIn[v] : PartsIn[v][k] \in T PROVE v \in T
  <2>1. \A k \in DOMAIN Parts(v) : Written[Parts(v)[k]] = H[Parts(v)[k]]
    BY <1>9, ValueTree
  <2>2. WrittenBy(Written, v) = WrittenBy(H, v)
    BY <2>1, WrittenByLocal
  <2> QED BY <1>4, <1>8, <2>2
<1>10. Value \subseteq T
  <2> HIDE DEF T
  <2>1. Carried(Value, PartsIn, T)
    BY <1>9 DEF Carried
  <2> QED BY <2>1, ValueTree, TreeInduction
<1>11. Written = H
  BY <1>8, <1>10
<1> QED BY <1>8, <1>11

LEMMA ReadableByTyped == \A R, v : ReadableBy(R, v) \in BOOLEAN
BY DEF ReadableBy

LEMMA ReadableByLocal ==
    ASSUME NEW F, NEW G, NEW v \in Value,
           \A k \in DOMAIN Parts(v) : F[Parts(v)[k]] = G[Parts(v)[k]]
    PROVE  ReadableBy(F, v) = ReadableBy(G, v)
<1>1. Form(v) = "other" => F[v.to] = G[v.to]
  BY ValueFacts
<1>2. Form(v) \in {"record", "array"} => \A k \in DOMAIN v.in : F[v.in[k]] = G[v.in[k]]
  BY ValueFacts
<1>3. Form(v) = "record" => (AllReadable(F, v.in) <=> AllReadable(G, v.in))
  BY <1>2 DEF AllReadable
<1>4. ReadableBy(F, v) <=> ReadableBy(G, v)
  BY <1>1, <1>2, <1>3 DEF ReadableBy
<1> QED BY <1>4, ReadableByTyped

LEMMA ReadableEquation ==
    /\ Readable \in [Value -> BOOLEAN]
    /\ \A v \in Value : Readable[v] = ReadableBy(Readable, v)
<1> DEFINE step == [p \in [Value -> BOOLEAN] \X Value |-> ReadableBy(p[1], p[2])]
<1>1. step \in [[Value -> BOOLEAN] \X Value -> BOOLEAN]
  BY ReadableByTyped
<1>2. \A F \in [Value -> BOOLEAN], v \in Value : step[<<F, v>>] = ReadableBy(F, v)
  OBVIOUS
<1> HIDE DEF step
<1>3. LocalIn(Value, PartsIn, BOOLEAN, step)
  BY <1>2, ValueTree, ReadableByLocal DEF LocalIn
<1>4. PICK H \in [Value -> BOOLEAN] : \A v \in Value : H[v] = ReadableBy(H, v)
  <2>1. BOOLEAN # {}
    OBVIOUS
  <2>2. HasRecursion(Value, BOOLEAN, step)
    BY <1>1, <1>3, <2>1, ValueTree, TreeRecursion
  <2> QED BY <1>2, <2>2 DEF HasRecursion
<1> DEFINE Is(F) == F = [v \in Value |-> ReadableBy(F, v)]
<1>5. Is(H)
  BY <1>4
<1>6. Readable = CHOOSE F : Is(F)
  BY DEF Readable
<1>7. Is(Readable)
  <2> HIDE DEF Is
  <2> QED BY <1>5, <1>6, Zenon
<1> HIDE DEF Readable
<1>8. Readable = [v \in Value |-> Readable[v]] /\ \A v \in Value : Readable[v] = ReadableBy(Readable, v)
  BY <1>7
<1> DEFINE T == {v \in Value : Readable[v] = H[v]}
<1>9. ASSUME NEW v \in Value, \A k \in DOMAIN PartsIn[v] : PartsIn[v][k] \in T PROVE v \in T
  <2>1. \A k \in DOMAIN Parts(v) : Readable[Parts(v)[k]] = H[Parts(v)[k]]
    BY <1>9, ValueTree
  <2>2. ReadableBy(Readable, v) = ReadableBy(H, v)
    BY <2>1, ReadableByLocal
  <2> QED BY <1>4, <1>8, <2>2
<1>10. Value \subseteq T
  <2> HIDE DEF T
  <2>1. Carried(Value, PartsIn, T)
    BY <1>9 DEF Carried
  <2> QED BY <2>1, ValueTree, TreeInduction
<1>11. Readable = H
  BY <1>8, <1>10
<1> QED BY <1>8, <1>11

(* The sequences that g has for the elements, one behind the other. *)
Spread(E, A, g, s) == Scanned([p \in Seq(E) \X A |-> p[1] \o g[p[2]]], <<>>, s)

LEMMA SeqConcat ==
    ASSUME NEW E
    PROVE  /\ <<>> \in Seq(E) /\ \A s, t \in Seq(E) : s \o t \in Seq(E)
           /\ \A s \in Seq(E) : s \o <<>> = s /\ <<>> \o s = s
           /\ \A s, t, u \in Seq(E) : (s \o t) \o u = s \o (t \o u)
BY ConcatEmptySeq, ConcatAssociative

LEMMA SpreadFacts ==
    ASSUME NEW E, NEW A, NEW g \in [A -> Seq(E)]
    PROVE  /\ Spread(E, A, g, <<>>) = <<>>
           /\ \A s \in Seq(A) : Spread(E, A, g, s) \in Seq(E)
           /\ \A a \in A, s \in Seq(A) :
                 Spread(E, A, g, <<a>> \o s) = g[a] \o Spread(E, A, g, s)
<1> DEFINE step == [p \in Seq(E) \X A |-> p[1] \o g[p[2]]]
<1>1. \A s \in Seq(E), a \in A : step[<<s, a>>] = s \o g[a]
  OBVIOUS
<1>2. step \in [Seq(E) \X A -> Seq(E)]
  OBVIOUS
<1>3. \A s : Spread(E, A, g, s) = Scanned(step, <<>>, s)
  BY DEF Spread
<1> HIDE DEF step
<1>4. \A x \in Seq(E), s \in Seq(A) : Scanned(step, x, s) \in Seq(E)
  BY <1>2, ScannedTyped
<1> DEFINE T == {s \in Seq(A) : \A x \in Seq(E) : Scanned(step, x, s) = x \o Scanned(step, <<>>, s)}
<1>5. <<>> \in T
  <2>1. \A x \in Seq(E) : Scanned(step, x, <<>>) = x
    BY ScannedEmpty
  <2>2. Scanned(step, <<>>, <<>>) = <<>> /\ <<>> \in Seq(A)
    BY ScannedEmpty
  <2>3. \A x \in Seq(E) : x \o <<>> = x
    BY SeqConcat
  <2> QED BY <2>1, <2>2, <2>3
<1>6. ASSUME NEW s \in Seq(A), NEW a \in A, s \in T PROVE Append(s, a) \in T
  <2>1. ASSUME NEW x \in Seq(E)
        PROVE  Scanned(step, x, Append(s, a)) = Scanned(step, x, s) \o g[a]
    <3>1. Scanned(step, x, Append(s, a)) = step[<<Scanned(step, x, s), a>>]
      BY ScannedAppend
    <3> QED BY <1>1, <1>4, <3>1
  <2>2. ASSUME NEW x \in Seq(E)
        PROVE  Scanned(step, x, Append(s, a)) = x \o Scanned(step, <<>>, Append(s, a))
    <3> DEFINE y == Scanned(step, <<>>, s)
    <3>1. Scanned(step, x, s) = x \o y /\ y \in Seq(E) /\ g[a] \in Seq(E)
      BY <1>4, <1>6, SeqConcat
    <3>2. Scanned(step, <<>>, Append(s, a)) = y \o g[a]
      BY <2>1, SeqConcat
    <3> HIDE DEF y
    <3>3. (x \o y) \o g[a] = x \o (y \o g[a])
      BY <3>1, SeqConcat
    <3> QED BY <2>1, <3>1, <3>2, <3>3
  <2>3. Append(s, a) \in Seq(A)
    OBVIOUS
  <2> QED BY <2>2, <2>3
<1>7. Seq(A) \subseteq T
  <2> HIDE DEF T
  <2> QED BY <1>5, <1>6, SeqInduction
<1>8. ASSUME NEW a \in A, NEW s \in Seq(A)
      PROVE  Scanned(step, <<>>, <<a>> \o s) = g[a] \o Scanned(step, <<>>, s)
  <2>1. PICK u \in Seq(A) : u = <<a>>
    <3>1. <<a>> \in Seq(A)
      OBVIOUS
    <3> QED BY <3>1
  <2>2. Scanned(step, <<>>, u \o s) = Scanned(step, Scanned(step, <<>>, u), s)
    BY ScannedConcat
  <2>3. Scanned(step, <<>>, u) = g[a]
    <3>1. PICK none \in Seq(E) : none = <<>>
      BY SeqConcat
    <3>2. Scanned(step, none, <<a>>) = step[<<none, a>>]
      BY ScannedOne
    <3>3. step[<<none, a>>] = none \o g[a]
      BY <1>1
    <3>4. none \o g[a] = g[a]
      BY <3>1, SeqConcat
    <3> QED BY <2>1, <3>1, <3>2, <3>3, <3>4
  <2>4. g[a] \in Seq(E)
    OBVIOUS
  <2>5. Scanned(step, g[a], s) = g[a] \o Scanned(step, <<>>, s)
    BY <1>7, <2>4
  <2> QED BY <2>1, <2>2, <2>3, <2>5
<1>9. Scanned(step, <<>>, <<>>) = <<>>
  BY ScannedEmpty
<1>10. <<>> \in Seq(E)
  OBVIOUS
<1> QED BY <1>3, <1>4, <1>8, <1>9, <1>10

LEMMA LeavesInFacts ==
    ASSUME NEW L \in [Value -> Stored]
    PROVE  /\ LeavesIn(L, <<>>) = <<>>
           /\ \A vs \in Seq(Value) : LeavesIn(L, vs) \in Stored
           /\ \A v \in Value, vs \in Seq(Value) :
                 LeavesIn(L, <<v>> \o vs) = L[v] \o LeavesIn(L, vs)
<1> DEFINE E == Bytes \cup {Null}
<1>1. \A vs : LeavesIn(L, vs) = Spread(E, Value, L, vs)
  BY DEF LeavesIn, Spread, Stored
<1>2. L \in [Value -> Seq(E)] /\ Stored = Seq(E)
  BY DEF Stored
<1> HIDE DEF E
<1>3. /\ Spread(E, Value, L, <<>>) = <<>>
      /\ \A vs \in Seq(Value) : Spread(E, Value, L, vs) \in Seq(E)
      /\ \A v \in Value, vs \in Seq(Value) :
            Spread(E, Value, L, <<v>> \o vs) = L[v] \o Spread(E, Value, L, vs)
  BY <1>2, SpreadFacts
<1> QED BY <1>1, <1>2, <1>3, Zenon

LEMMA LeavesInLocal ==
    ASSUME NEW F, NEW G \in [Value -> Stored], NEW vs \in Seq(Value),
           \A k \in DOMAIN vs : F[vs[k]] = G[vs[k]]
    PROVE  LeavesIn(F, vs) = LeavesIn(G, vs)
<1> DEFINE Adds(L) == [p \in Stored \X Value |-> p[1] \o L[p[2]]]
<1>1. ASSUME NEW L, NEW s \in Stored, NEW v \in Value PROVE Adds(L)[<<s, v>>] = s \o L[v]
  OBVIOUS
<1>2. Adds(G) \in [Stored \X Value -> Stored] /\ <<>> \in Stored
  BY DEF Stored
<1>3. \A L : LeavesIn(L, vs) = Scanned(Adds(L), <<>>, vs)
  BY DEF LeavesIn
<1> HIDE DEF Adds
<1>4. PICK h : Trace(h, Adds(G), <<>>, vs) /\ Scanned(Adds(G), <<>>, vs) = h[Len(vs)]
  BY TraceExists
<1>5. \A k \in 0 .. Len(vs) : h[k] \in Stored
  BY <1>2, <1>4, TraceTyped
<1>6. Trace(h, Adds(F), <<>>, vs)
  <2>1. ASSUME NEW k \in 1 .. Len(vs) PROVE h[k] = Adds(F)[<<h[k - 1], vs[k]>>]
    <3>1. h[k - 1] \in Stored /\ vs[k] \in Value /\ F[vs[k]] = G[vs[k]]
      BY <1>5
    <3>2. h[k] = Adds(G)[<<h[k - 1], vs[k]>>]
      BY <1>4 DEF Trace
    <3>3. /\ Adds(G)[<<h[k - 1], vs[k]>>] = h[k - 1] \o G[vs[k]]
          /\ Adds(F)[<<h[k - 1], vs[k]>>] = h[k - 1] \o F[vs[k]]
      BY <1>1, <3>1
    <3> QED BY <3>1, <3>2, <3>3
  <2> QED BY <1>4, <2>1 DEF Trace
<1>7. Scanned(Adds(F), <<>>, vs) = h[Len(vs)]
  BY <1>6, ScannedTrace
<1> QED BY <1>3, <1>4, <1>7

LEMMA LeavesByTyped ==
    ASSUME NEW L \in [Value -> Stored], NEW v \in Value
    PROVE  LeavesBy(L, v) \in Stored
<1>1. \A t \in Bytes \cup {Null} : <<t>> \in Stored
  BY DEF Stored
<1>2. CASE Form(v) = "other"
  BY <1>2, ValueFacts DEF LeavesBy
<1>3. CASE Form(v) = "leaf"
  <2>1. v.text \in Bytes
    BY <1>3, ValueAssumption
  <2> QED BY <1>1, <1>3, <2>1 DEF LeavesBy
<1>4. CASE Form(v) \in {"record", "array"}
  BY <1>4, ValueFacts, LeavesInFacts DEF LeavesBy
<1>5. CASE Form(v) = "null"
  <2>1. <<<<>>>> \in Stored /\ <<Null>> \in Stored /\ <<>> \in Stored
    <3>1. <<>> \in Bytes \cup {Null} /\ Null \in Bytes \cup {Null}
      BY BytesOf
    <3>2. <<>> \in Stored
      BY DEF Stored
    <3> QED BY <1>1, <3>1, <3>2
  <2> QED BY <1>5, <2>1 DEF LeavesBy
<1> QED BY <1>2, <1>3, <1>4, <1>5, ValueFacts

LEMMA LeavesByLocal ==
    ASSUME NEW F, NEW G \in [Value -> Stored], NEW v \in Value,
           \A k \in DOMAIN Parts(v) : F[Parts(v)[k]] = G[Parts(v)[k]]
    PROVE  LeavesBy(F, v) = LeavesBy(G, v)
<1>1. CASE Form(v) = "other"
  BY <1>1, ValueFacts DEF LeavesBy
<1>2. CASE Form(v) \in {"record", "array"}
  <2>1. v.in \in Seq(Value) /\ \A k \in DOMAIN v.in : F[v.in[k]] = G[v.in[k]]
    BY <1>2, ValueFacts
  <2>2. LeavesIn(F, v.in) = LeavesIn(G, v.in)
    BY <2>1, LeavesInLocal
  <2> QED BY <1>2, <2>2 DEF LeavesBy
<1>3. CASE Form(v) \in {"leaf", "null"}
  BY <1>3 DEF LeavesBy
<1> QED BY <1>1, <1>2, <1>3, ValueFacts

LEMMA LeavesEquation ==
    /\ Leaves \in [Value -> Stored]
    /\ \A v \in Value : Leaves[v] = LeavesBy(Leaves, v)
<1> DEFINE step == [p \in [Value -> Stored] \X Value |-> LeavesBy(p[1], p[2])]
<1>1. step \in [[Value -> Stored] \X Value -> Stored]
  BY LeavesByTyped
<1>2. \A F \in [Value -> Stored], v \in Value : step[<<F, v>>] = LeavesBy(F, v)
  OBVIOUS
<1> HIDE DEF step
<1>3. LocalIn(Value, PartsIn, Stored, step)
  BY <1>2, ValueTree, LeavesByLocal DEF LocalIn
<1>4. PICK H \in [Value -> Stored] : \A v \in Value : H[v] = LeavesBy(H, v)
  <2>1. Stored # {}
    BY SeqConcat DEF Stored
  <2>2. HasRecursion(Value, Stored, step)
    BY <1>1, <1>3, <2>1, ValueTree, TreeRecursion
  <2> QED BY <1>2, <2>2 DEF HasRecursion
<1> DEFINE Is(F) == F = [v \in Value |-> LeavesBy(F, v)]
<1>5. Is(H)
  BY <1>4
<1>6. Leaves = CHOOSE F : Is(F)
  BY DEF Leaves
<1>7. Is(Leaves)
  <2> HIDE DEF Is
  <2> QED BY <1>5, <1>6, Zenon
<1> HIDE DEF Leaves
<1>8. Leaves = [v \in Value |-> Leaves[v]] /\ \A v \in Value : Leaves[v] = LeavesBy(Leaves, v)
  BY <1>7
<1> DEFINE T == {v \in Value : Leaves[v] = H[v]}
<1>9. ASSUME NEW v \in Value, \A k \in DOMAIN PartsIn[v] : PartsIn[v][k] \in T PROVE v \in T
  <2>1. \A k \in DOMAIN Parts(v) : Leaves[Parts(v)[k]] = H[Parts(v)[k]]
    BY <1>9, ValueTree
  <2>2. LeavesBy(Leaves, v) = LeavesBy(H, v)
    BY <2>1, LeavesByLocal
  <2> QED BY <1>4, <1>8, <2>2
<1>10. Value \subseteq T
  <2> HIDE DEF T
  <2>1. Carried(Value, PartsIn, T)
    BY <1>9 DEF Carried
  <2> QED BY <2>1, ValueTree, TreeInduction
<1>11. Leaves = H
  BY <1>8, <1>10
<1> QED BY <1>8, <1>11

-----------------------------------------------------------------------------
(***************************************************************************)
(* The text of the values that are still to be read.                       *)
(***************************************************************************)
Mapped(g, s) == [k \in DOMAIN s |-> g[s[k]]]

LEMMA MappedTyped ==
    ASSUME NEW E, NEW A, NEW g \in [A -> E], NEW s \in Seq(A)
    PROVE  Mapped(g, s) \in Seq(E)
BY DEF Mapped

LEMMA MappedFacts ==
    ASSUME NEW g, NEW A, NEW s \in Seq(A)
    PROVE  /\ s = <<>> <=> Mapped(g, s) = <<>>
           /\ s # <<>> => Mapped(g, s) = <<g[Head(s)]>> \o Mapped(g, Tail(s))
<1> DEFINE E == {g[a] : a \in A}
<1>0. \A a \in A : g[a] \in E
  OBVIOUS
<1> HIDE DEF E
<1>1. ASSUME NEW u \in Seq(A)
      PROVE  /\ Mapped(g, u) \in Seq(E) /\ Len(Mapped(g, u)) = Len(u)
             /\ \A k \in 1 .. Len(u) : Mapped(g, u)[k] = g[u[k]]
  BY <1>0 DEF Mapped
<1>2. s = <<>> <=> Mapped(g, s) = <<>>
  BY <1>1, EmptySeq
<1>3. ASSUME s # <<>> PROVE Mapped(g, s) = <<g[Head(s)]>> \o Mapped(g, Tail(s))
  <2> DEFINE u == Tail(s)
             m == Mapped(g, s)
             t == Mapped(g, u)
  <2>1. /\ Head(s) = s[1] /\ Len(s) \in Nat \ {0} /\ Head(s) \in A
        /\ u \in Seq(A) /\ Len(u) = Len(s) - 1 /\ \A k \in 1 .. Len(u) : u[k] = s[k + 1]
    BY <1>3, HeadTail
  <2> HIDE DEF u
  <2>2. m \in Seq(E) /\ Len(m) = Len(s) /\ \A k \in 1 .. Len(s) : m[k] = g[s[k]]
    BY <1>1
  <2>3. t \in Seq(E) /\ Len(t) = Len(u) /\ \A k \in 1 .. Len(u) : t[k] = g[u[k]]
    BY <1>1, <2>1
  <2>4. m # <<>>
    BY <1>2, <1>3
  <2> HIDE DEF m, t
  <2>5. /\ Head(m) = m[1] /\ Tail(m) \in Seq(E) /\ Len(Tail(m)) = Len(m) - 1
        /\ \A k \in 1 .. Len(Tail(m)) : Tail(m)[k] = m[k + 1]
    BY <2>2, <2>4, HeadTail
  <2>6. ASSUME NEW k \in 1 .. Len(u) PROVE Tail(m)[k] = t[k]
    <3>1. k + 1 \in 1 .. Len(s) /\ k \in 1 .. Len(Tail(m)) /\ u[k] = s[k + 1]
      BY <2>1, <2>2, <2>5
    <3> QED BY <2>2, <2>3, <2>5, <3>1
  <2>7. Tail(m) = t
    BY <2>1, <2>2, <2>3, <2>5, <2>6, SeqEqual
  <2>8. Head(m) = g[Head(s)]
    BY <2>1, <2>2, <2>5
  <2>9. m = <<Head(m)>> \o Tail(m)
    BY <2>2, <2>4
  <2> QED BY <2>7, <2>8, <2>9 DEF m, t, u
<1> QED BY <1>1, <1>2, <1>3

LEMMA CommasCons ==
    ASSUME NEW t \in Bytes, NEW ts \in Seq(Bytes)
    PROVE  Commas(<<t>> \o ts) = IF ts = <<>> THEN t ELSE t \o (<<Comma>> \o Commas(ts))
<1> DEFINE J == Joined(ts)
<1>1. PICK u \in Seq(Bytes) : u = <<t>>
  <2>1. <<t>> \in Seq(Bytes)
    OBVIOUS
  <2> QED BY <2>1
<1>2. <<Comma>> \in Bytes /\ Comma \in AnyByte /\ J \in Bytes /\ t \o J \in Bytes
  BY BytesOf, JoinedFacts
<1>3. Joined(u) = <<Comma>> \o t
  <2>1. PICK none \in Seq(Bytes) : none = <<>> /\ Joined(none) = <<>>
    BY SeqConcat, JoinedFacts
  <2>2. Append(none, t) = u
    BY <1>1, <2>1
  <2>3. Joined(Append(none, t)) = Joined(none) \o (<<Comma>> \o t)
    BY JoinedFacts
  <2> QED BY <1>2, <2>1, <2>2, <2>3, BytesOf, BytesConcat
<1>4. Joined(u \o ts) = Joined(u) \o J
  BY JoinedConcat
<1> HIDE DEF J
<1>5. Joined(u \o ts) = <<Comma>> \o (t \o J)
  BY <1>2, <1>3, <1>4, BytesConcat
<1>6. u \o ts # <<>>
  BY <1>1, HeadAndRest
<1>7. Commas(u \o ts) = t \o J
  <2>1. Tail(<<Comma>> \o (t \o J)) = t \o J
    BY <1>2, HeadAndRest DEF Bytes
  <2> QED BY <1>5, <1>6, <2>1 DEF Commas
<1>8. CASE ts = <<>>
  BY <1>1, <1>2, <1>7, <1>8, JoinedFacts, BytesConcat DEF J
<1>9. CASE ts # <<>>
  <2>1. J # <<>> /\ J[1] = Comma /\ Commas(ts) = Tail(J)
    BY <1>9, JoinedHead DEF J, Commas
  <2>2. J = <<Comma>> \o Tail(J)
    <3>1. \A s \in Seq(AnyByte) : s # <<>> => s = <<s[1]>> \o Tail(s)
      OBVIOUS
    <3> QED BY <1>2, <2>1, <3>1 DEF Bytes
  <2> QED BY <1>1, <1>7, <1>9, <2>1, <2>2
<1> QED BY <1>8, <1>9

CloseOf(what) == IF what = "record" THEN Close ELSE RBrace

TextIn(what) ==
    [v \in Value |-> IF what = "record" THEN PgColumn(OutBy(Written, v)) ELSE PgElement(Written[v])]

(* From the first of them on, and from the end of the one before.          *)
Behind(what, vs) == Commas(Mapped(TextIn(what), vs)) \o <<CloseOf(what)>>
After(what, vs)  == IF vs = <<>> THEN <<CloseOf(what)>> ELSE <<Comma>> \o Behind(what, vs)

LEMMA OutTyped == \A v \in Value : OutBy(Written, v) \in ColumnText
BY WrittenEquation DEF OutBy, ColumnText

LEMMA TextTyped == \A what : TextIn(what) \in [Value -> Bytes]
BY WrittenEquation, OutTyped, PgColumnTyped, ElementTyped DEF TextIn

LEMMA BehindFacts ==
    ASSUME NEW what, NEW vs \in Seq(Value)
    PROVE  /\ Behind(what, vs) \in Bytes
           /\ After(what, vs) \in Bytes /\ After(what, vs) # <<>>
           /\ After(what, vs)[1] \in {Comma, CloseOf(what)}
           /\ vs # <<>> => Behind(what, vs) = TextIn(what)[Head(vs)] \o After(what, Tail(vs))
<1> DEFINE g == TextIn(what)
           c == CloseOf(what)
<1>1. g \in [Value -> Bytes] /\ c \in AnyByte /\ <<c>> \in Bytes /\ <<Comma>> \in Bytes /\ Comma \in AnyByte
  BY TextTyped, BytesOf DEF CloseOf
<1> HIDE DEF g, c
<1>0. ASSUME NEW u \in Seq(Value)
      PROVE  /\ Mapped(g, u) \in Seq(Bytes) /\ (u = <<>> <=> Mapped(g, u) = <<>>)
             /\ u # <<>> => Mapped(g, u) = <<g[Head(u)]>> \o Mapped(g, Tail(u))
  BY <1>1, MappedTyped, MappedFacts
<1>2. ASSUME NEW u \in Seq(Value) PROVE Commas(Mapped(g, u)) \in Bytes /\ Behind(what, u) \in Bytes
  <2>1. Commas(Mapped(g, u)) \in Bytes
    BY <1>0, <1>1, SurroundedTyped
  <2>2. Commas(Mapped(g, u)) \o <<c>> \in Bytes
    BY <1>1, <2>1, BytesOf
  <2> QED BY <2>1, <2>2 DEF Behind, g, c
<1>3. After(what, vs) \in Bytes /\ After(what, vs) # <<>> /\ After(what, vs)[1] \in {Comma, c}
  <2>1. CASE vs = <<>>
    <3>1. <<c>> # <<>> /\ <<c>>[1] = c
      OBVIOUS
    <3> QED BY <1>1, <2>1, <3>1 DEF After, c
  <2>2. CASE vs # <<>>
    <3>1. After(what, vs) = <<Comma>> \o Behind(what, vs)
      BY <2>2 DEF After
    <3>2. ASSUME NEW s \in Seq(AnyByte) PROVE (<<Comma>> \o s)[1] = Comma
      BY <1>1
    <3> QED BY <1>1, <1>2, <3>1, <3>2, HeadAndRest DEF Bytes
  <2> QED BY <2>1, <2>2
<1>4. ASSUME vs # <<>> PROVE Behind(what, vs) = g[Head(vs)] \o After(what, Tail(vs))
  <2> DEFINE t == g[Head(vs)]
             ts == Mapped(g, Tail(vs))
  <2>1. Head(vs) \in Value /\ Tail(vs) \in Seq(Value)
    BY <1>4, HeadTail
  <2>2. Mapped(g, vs) = <<t>> \o ts
    BY <1>0, <1>4
  <2>3. t \in Bytes /\ ts \in Seq(Bytes) /\ (Tail(vs) = <<>> <=> ts = <<>>)
    BY <1>0, <1>1, <2>1
  <2>4. Commas(ts) \in Bytes
    BY <1>2, <2>1
  <2> HIDE DEF t, ts
  <2>5. Behind(what, vs) = Commas(<<t>> \o ts) \o <<c>>
    BY <2>2 DEF Behind, g, c
  <2>6. CASE ts = <<>>
    BY <2>3, <2>5, <2>6, CommasCons DEF After, t, c
  <2>7. CASE ts # <<>>
    <3>1. Behind(what, Tail(vs)) = Commas(ts) \o <<c>>
      BY DEF Behind, ts, g, c
    <3>2. Behind(what, vs) = (t \o (<<Comma>> \o Commas(ts))) \o <<c>>
      BY <2>3, <2>5, <2>7, CommasCons
    <3>3. (t \o (<<Comma>> \o Commas(ts))) \o <<c>> = t \o (<<Comma>> \o (Commas(ts) \o <<c>>))
      <4> DEFINE m == Commas(ts)
      <4>1. <<Comma>> \o m \in Bytes /\ m \in Bytes
        BY <1>1, <2>4, BytesOf
      <4> HIDE DEF m
      <4>2. (t \o (<<Comma>> \o m)) \o <<c>> = t \o ((<<Comma>> \o m) \o <<c>>)
        BY <1>1, <2>3, <4>1, BytesConcat, Zenon
      <4>3. (<<Comma>> \o m) \o <<c>> = <<Comma>> \o (m \o <<c>>)
        BY <1>1, <4>1, BytesConcat, Zenon
      <4> QED BY <4>2, <4>3 DEF m
    <3> QED BY <2>3, <2>7, <3>1, <3>2, <3>3 DEF After, t
  <2> QED BY <2>6, <2>7
<1> QED BY <1>2, <1>3, <1>4 DEF g, c

(* A record and an array begin with a byte of their own. *)
LEMMA LiteralShape ==
    ASSUME NEW vs \in Seq(Value)
    PROVE  /\ PgRecord(Outs(vs)) = <<Open>> \o Behind("record", vs)
           /\ PgArray([k \in DOMAIN vs |-> Written[vs[k]]]) = <<LBrace>> \o Behind("array", vs)
<1> DEFINE ws == [k \in DOMAIN vs |-> Written[vs[k]]]
<1>1. Columns(Outs(vs)) = Mapped(TextIn("record"), vs)
  <2>1. DOMAIN Outs(vs) = DOMAIN vs /\ \A k \in DOMAIN vs : Outs(vs)[k] = OutBy(Written, vs[k])
    BY DEF Outs
  <2>2. \A k \in DOMAIN vs : PgColumn(Outs(vs)[k]) = TextIn("record")[vs[k]]
    BY <2>1 DEF TextIn
  <2> QED BY <2>1, <2>2 DEF Columns, Mapped
<1>2. [k \in DOMAIN ws |-> PgElement(ws[k])] = Mapped(TextIn("array"), vs)
  <2>1. DOMAIN ws = DOMAIN vs /\ \A k \in DOMAIN vs : ws[k] = Written[vs[k]]
    OBVIOUS
  <2> HIDE DEF ws
  <2>2. \A k \in DOMAIN vs : PgElement(ws[k]) = TextIn("array")[vs[k]]
    BY <2>1 DEF TextIn
  <2> QED BY <2>1, <2>2 DEF Mapped
<1>3. ASSUME NEW what, NEW open \in AnyByte
      PROVE  Surrounded(open, Commas(Mapped(TextIn(what), vs)), CloseOf(what)) = <<open>> \o Behind(what, vs)
  <2> DEFINE m == Commas(Mapped(TextIn(what), vs))
  <2>1. m \in Bytes
    BY TextTyped, MappedTyped, SurroundedTyped, BytesOf
  <2>2. <<open>> \in Bytes /\ <<CloseOf(what)>> \in Bytes
    BY BytesOf DEF CloseOf
  <2> HIDE DEF m
  <2>3. (<<open>> \o m) \o <<CloseOf(what)>> = <<open>> \o (m \o <<CloseOf(what)>>)
    BY <2>1, <2>2, BytesConcat
  <2> QED BY <2>3 DEF Surrounded, Behind, m
<1>4. Open \in AnyByte /\ LBrace \in AnyByte /\ CloseOf("record") = Close /\ CloseOf("array") = RBrace
  BY BytesOf DEF CloseOf
<1>5. PgRecord(Outs(vs)) = <<Open>> \o Behind("record", vs)
  BY <1>1, <1>3, <1>4 DEF PgRecord
<1>6. PgArray(ws) = <<LBrace>> \o Behind("array", vs)
  <2> HIDE DEF ws
  <2> QED BY <1>2, <1>3, <1>4 DEF PgArray
<1> QED BY <1>5, <1>6

-----------------------------------------------------------------------------
(***************************************************************************)
(* What is left to do of a frame, and the values that it is for.           *)
(***************************************************************************)
Kept == [t \in Todo |-> IF t.kind = "from" THEN <<>> ELSE <<t>>]

(* The types that are left are those of vs, and no FromPOD will fail. *)
Matches(left, vs) == /\ Spread(Field, Todo, Kept, left) = Types(vs)
                     /\ \A k \in DOMAIN left : left[k].kind = "from" => left[k].ok

LEMMA KeptTyped == Kept \in [Todo -> Seq(Field)]
<1>1. \A t \in Todo : t.kind # "from" => t \in Field
  BY DEF Todo
<1>2. ASSUME NEW t \in Todo PROVE (IF t.kind = "from" THEN <<>> ELSE <<t>>) \in Seq(Field)
  BY <1>1
<1> QED BY <1>2 DEF Kept

LEMMA TypesFacts ==
    /\ Types(<<>>) = <<>>
    /\ \A vs \in Seq(Value) : /\ Types(vs) \in Seq(Field)
                              /\ vs # <<>> => Types(vs) = <<Head(vs).type>> \o Types(Tail(vs))
<1> DEFINE g == [v \in Value |-> v.type]
<1>1. g \in [Value -> Field]
  BY ValueFacts
<1>2. ASSUME NEW vs \in Seq(Value) PROVE Types(vs) = Mapped(g, vs)
  BY DEF Types, Mapped
<1>3. \A v \in Value : g[v] = v.type
  OBVIOUS
<1> HIDE DEF g
<1>4. ASSUME NEW vs \in Seq(Value) PROVE Types(vs) \in Seq(Field)
  BY <1>1, <1>2, MappedTyped
<1>5. ASSUME NEW vs \in Seq(Value), vs # <<>>
      PROVE  Types(vs) = <<Head(vs).type>> \o Types(Tail(vs))
  <2>1. Head(vs) \in Value /\ Tail(vs) \in Seq(Value)
    BY <1>5, HeadTail
  <2>2. Mapped(g, vs) = <<g[Head(vs)]>> \o Mapped(g, Tail(vs))
    BY <1>5, MappedFacts
  <2> QED BY <1>2, <1>3, <2>1, <2>2
<1>6. Types(<<>>) = <<>>
  BY DEF Types
<1> QED BY <1>4, <1>5, <1>6

LEMMA MatchesNothing ==
    ASSUME NEW vs \in Seq(Value), Matches(<<>>, vs)
    PROVE  vs = <<>>
<1> SUFFICES ASSUME vs # <<>> PROVE FALSE
  OBVIOUS
<1>1. Types(vs) = <<>>
  BY KeptTyped, SpreadFacts DEF Matches
<1>2. DOMAIN Types(vs) = DOMAIN vs
  BY DEF Types
<1> QED BY <1>1, <1>2, EmptySeq

(* The head is done, or goes on. *)
LEMMA MatchesHead ==
    ASSUME NEW t \in Todo, NEW left \in Seq(Todo), NEW vs \in Seq(Value)
    PROVE  /\ t.kind = "from" => (Matches(<<t>> \o left, vs) <=> t.ok /\ Matches(left, vs))
           /\ t.kind # "from" => (Matches(<<t>> \o left, vs) <=>
                                     vs # <<>> /\ Head(vs).type = t /\ Matches(left, Tail(vs)))
<1> DEFINE S(s) == Spread(Field, Todo, Kept, s)
           Oks(s) == \A k \in DOMAIN s : s[k].kind = "from" => s[k].ok
           all == <<t>> \o left
<1>1. S(all) = Kept[t] \o S(left) /\ S(left) \in Seq(Field)
  BY KeptTyped, SpreadFacts
<1>2. Oks(all) <=> (t.kind = "from" => t.ok) /\ Oks(left)
  <2>1. /\ all \in Seq(Todo) /\ Len(all) = Len(left) + 1 /\ Len(left) \in Nat /\ all[1] = t
        /\ \A k \in 1 .. Len(left) : all[k + 1] = left[k]
    <3>1. all \in Seq(Todo) /\ all # <<>> /\ Head(all) = t /\ Tail(all) = left
      BY HeadAndRest
    <3> HIDE DEF all
    <3>2. /\ Head(all) = all[1] /\ Len(all) \in Nat \ {0} /\ Len(Tail(all)) = Len(all) - 1
          /\ \A k \in 1 .. Len(Tail(all)) : Tail(all)[k] = all[k + 1]
      BY <3>1, HeadTail
    <3>3. Len(left) = Len(all) - 1 /\ \A k \in 1 .. Len(left) : all[k + 1] = left[k]
      BY <3>1, <3>2
    <3>4. Len(left) \in Nat
      OBVIOUS
    <3> QED BY <3>1, <3>2, <3>3, <3>4
  <2> HIDE DEF all
  <2>2. ASSUME Oks(all) PROVE (t.kind = "from" => t.ok) /\ Oks(left)
    <3>1. t.kind = "from" => t.ok
      <4>1. 1 \in DOMAIN all /\ all[1] = t
        BY <2>1
      <4> QED BY <2>2, <4>1, Zenon
    <3>2. ASSUME NEW k \in DOMAIN left, left[k].kind = "from" PROVE left[k].ok
      <4>1. k + 1 \in DOMAIN all /\ all[k + 1] = left[k]
        BY <2>1
      <4> QED BY <2>2, <3>2, <4>1, Zenon
    <3> QED BY <3>1, <3>2
  <2>3. ASSUME t.kind = "from" => t.ok, Oks(left), NEW k \in DOMAIN all, all[k].kind = "from"
        PROVE  all[k].ok
    <3>1. CASE k = 1
      BY <2>1, <2>3, <3>1
    <3>2. CASE k # 1
      <4>1. k - 1 \in DOMAIN left /\ k - 1 \in 1 .. Len(left) /\ (k - 1) + 1 = k
        BY <2>1, <2>3, <3>2
      <4>2. all[k] = left[k - 1]
        BY <2>1, <4>1
      <4> QED BY <2>3, <4>1, <4>2
    <3> QED BY <3>1, <3>2
  <2> QED BY <2>2, <2>3
<1>3. \A s, us : Matches(s, us) <=> S(s) = Types(us) /\ Oks(s)
  BY DEF Matches
<1> HIDE DEF S, Oks
<1>4. ASSUME t.kind = "from" PROVE Matches(all, vs) <=> t.ok /\ Matches(left, vs)
  <2>1. S(all) = S(left)
    BY <1>1, <1>4, SeqConcat DEF Kept
  <2> QED BY <1>2, <1>3, <1>4, <2>1
<1>5. ASSUME t.kind # "from"
      PROVE  Matches(all, vs) <=> vs # <<>> /\ Head(vs).type = t /\ Matches(left, Tail(vs))
  <2>1. S(all) = <<t>> \o S(left) /\ t \in Field
    BY <1>1, <1>5 DEF Kept, Todo
  <2>2. CASE vs = <<>>
    <3>1. S(all) # <<>>
      BY <1>1, <2>1, HeadAndRest
    <3> QED BY <1>3, <2>2, <3>1, TypesFacts
  <2>3. CASE vs # <<>>
    <3>1. Types(vs) = <<Head(vs).type>> \o Types(Tail(vs))
      BY <2>3, TypesFacts
    <3>2. Head(vs).type \in Field /\ Types(Tail(vs)) \in Seq(Field)
      BY <2>3, HeadTail, ValueFacts, TypesFacts
    <3>3. S(all) = Types(vs) <=> t = Head(vs).type /\ S(left) = Types(Tail(vs))
      <4> DEFINE u == Head(vs).type
                 us == Types(Tail(vs))
                 ts == S(left)
      <4>1. u \in Field /\ us \in Seq(Field) /\ ts \in Seq(Field)
        BY <1>1, <3>2
      <4>2. S(all) = <<t>> \o ts /\ Types(vs) = <<u>> \o us
        BY <2>1, <3>1
      <4> HIDE DEF u, us, ts
      <4>3. /\ Head(<<t>> \o ts) = t /\ Tail(<<t>> \o ts) = ts
            /\ Head(<<u>> \o us) = u /\ Tail(<<u>> \o us) = us
        BY <2>1, <4>1, HeadAndRest
      <4>4. S(all) = Types(vs) <=> t = u /\ ts = us
        BY <4>2, <4>3, Zenon
      <4> QED BY <4>4 DEF u, us, ts
    <3> QED BY <1>2, <1>3, <1>5, <2>3, <3>3
  <2> QED BY <2>2, <2>3
<1> QED BY <1>4, <1>5 DEF all

LEMMA MatchesTypes ==
    ASSUME NEW vs \in Seq(Value)
    PROVE  Matches(Types(vs), vs)
<1> DEFINE S(s) == Spread(Field, Todo, Kept, s)
           T == {s \in Seq(Field) : S(s) = s}
<1>1. Seq(Field) \subseteq Seq(Todo) /\ \A t \in Field : t \in Todo /\ t.kind # "from"
  BY FieldAssumption DEF Todo
<1>2. ASSUME NEW s \in Seq(Field) PROVE \A k \in DOMAIN s : s[k].kind # "from"
  BY <1>1
<1>3. <<>> \in T
  BY KeptTyped, SpreadFacts
<1>4. \A n \in Nat : \A s \in Seq(Field) : Len(s) = n => S(s) = s
  <2> DEFINE P == {n \in Nat : \A s \in Seq(Field) : Len(s) = n => S(s) = s}
  <2>1. 0 \in P
    <3>1. \A s \in Seq(Field) : Len(s) = 0 => s = <<>>
      OBVIOUS
    <3> QED BY <1>3, <3>1
  <2>2. ASSUME NEW n \in Nat, n \in P PROVE n + 1 \in P
    <3> SUFFICES ASSUME NEW s \in Seq(Field), Len(s) = n + 1 PROVE S(s) = s
      OBVIOUS
    <3>1. s # <<>>
      OBVIOUS
    <3>2. /\ Head(s) \in Field /\ Tail(s) \in Seq(Field) /\ Len(Tail(s)) = n
          /\ s = <<Head(s)>> \o Tail(s)
      BY <3>1
    <3>3. S(Tail(s)) = Tail(s)
      BY <2>2, <3>2
    <3>4. S(<<Head(s)>> \o Tail(s)) = Kept[Head(s)] \o S(Tail(s))
      BY <1>1, <3>2, KeptTyped, SpreadFacts
    <3>5. Kept[Head(s)] = <<Head(s)>>
      BY <1>1, <3>2 DEF Kept
    <3> QED BY <3>2, <3>3, <3>4, <3>5
  <2>3. Nat \subseteq P
    <3> HIDE DEF P
    <3> QED BY <2>1, <2>2, SetInduction
  <2> QED BY <2>3
<1>5. Types(vs) \in Seq(Field)
  BY TypesFacts
<1>6. S(Types(vs)) = Types(vs)
  <2>1. Len(Types(vs)) \in Nat
    BY <1>5
  <2> QED BY <1>4, <1>5, <2>1
<1> QED BY <1>2, <1>5, <1>6 DEF Matches

-----------------------------------------------------------------------------
(***************************************************************************)
(* What a frame still has to read: the values vs, and in an array the      *)
(* elements more after the one at hand.                                    *)
(***************************************************************************)
Element(v) == /\ Readable[v] /\ v.of \notin {"null", "array"}
              /\ Head(PgElement(Written[v])) = Quote

OwesColumns(fr, vs) ==
    /\ fr.what = "record" /\ Matches(fr.left, vs) /\ ReadableRecord(vs)
    /\ vs # <<>> => Rest(fr) = TextIn("record")[Head(vs)] \o After("record", Tail(vs))

OwesElements(fr, vs, more) ==
    /\ fr.what = "array" /\ Matches(fr.left, vs)
    /\ \A k \in DOMAIN more : Element(more[k]) /\ more[k].type = fr.of[1]
    /\ \/ vs = <<>> /\ more = <<>> /\ fr.cur + 1 >= Len(fr.src) - 1
       \/ vs = <<>> /\ more # <<>> /\ \E c \in AnyByte : Rest(fr) = <<c>> \o Behind("array", more)
       \/ \E v \in Value : /\ vs = <<v>> /\ Element(v)
                           /\ Rest(fr) = TextIn("array")[v] \o After("array", more)

Owes(fr, vs, more) == \/ OwesColumns(fr, vs) /\ more = <<>>
                      \/ OwesElements(fr, vs, more)

(* An element in quotes has two bytes more than its text.                  *)
LEMMA ElementLength ==
    ASSUME NEW v \in Value, Element(v)
    PROVE  /\ PgElement(Written[v])
                  = Surrounded(Quote, Replaced(Written[v], Escaped), Quote)
           /\ Len(PgElement(Written[v])) \in Nat \ {0, 1}
<1> DEFINE s == Written[v]
           w == Replaced(s, Escaped)
<1>1. s \in Seq(AnyByte) /\ Head(PgElement(s)) = Quote
  BY WrittenEquation DEF Element, Bytes
<1>2. PgElement(s) = Surrounded(Quote, w, Quote)
  <2> SUFFICES ASSUME ~(s = <<>> \/ Has(s, Special \ {Open, Close})) PROVE FALSE
    BY DEF PgElement
  <2>1. PgElement(s) = s /\ s # <<>>
    BY DEF PgElement
  <2>2. s[1] = Quote /\ 1 \in DOMAIN s
    <3> HIDE DEF s
    <3> QED BY <1>1, <2>1, HeadTail
  <2>3. Quote \in Special \ {Open, Close}
    BY SpecialAssumption DEF Special
  <2> QED BY <2>2, <2>3 DEF Has
<1>3. Len(PgElement(s)) \in Nat \ {0, 1}
  <2>1. w \in Seq(AnyByte) /\ Quote \in AnyByte
    BY <1>1, QuotingTexts, ReplacedFacts, BytesOf DEF Quoting, Bytes
  <2> HIDE DEF w
  <2>2. Len(<<Quote>> \o w \o <<Quote>>) = Len(w) + 2 /\ Len(w) \in Nat
    BY <2>1
  <2> QED BY <1>2, <2>2 DEF Surrounded
<1> QED BY <1>2, <1>3

(* The text of a value is read as the value was written, and is nothing    *)
(* only for a null.                                                        *)
LEMMA TextRead ==
    ASSUME NEW what \in {"record", "array"}, NEW v \in Value, what = "array" => Element(v),
           NEW rest \in Bytes, rest # <<>>, rest[1] \in {Comma, CloseOf(what)}
    PROVE  LET x == TextIn(what)[v]
           IN  /\ Read(x \o rest, Close)
                    = [res |-> IF v.of = "null" THEN <<>> ELSE Written[v],
                       read |-> Len(x), ok |-> TRUE]
               /\ Len(x) \in Nat /\ (Len(x) = 0 <=> v.of = "null")
<1> DEFINE x == TextIn(what)[v]
<1>0. Written[v] \in Bytes
  BY WrittenEquation
<1>1. CASE what = "record"
  <2> DEFINE c == OutBy(Written, v)
  <2>1. x = PgColumn(c) /\ rest[1] \in {Comma, Close} /\ c \in Bytes \cup {Null}
    BY <1>1, OutTyped DEF TextIn, CloseOf, ColumnText
  <2>2. Read(PgColumn(c) \o rest, Close)
           = [res |-> IF c = Null THEN <<>> ELSE c, read |-> Len(PgColumn(c)), ok |-> TRUE]
    BY <2>1, ReadColumn
  <2>3. CASE v.of = "null"
    <3>1. c = Null /\ PgColumn(Null) = <<>> /\ Len(<<>>) = 0
      BY <2>3 DEF OutBy, PgColumn
    <3> HIDE DEF c
    <3> QED BY <2>1, <2>2, <2>3, <3>1
  <2>4. CASE v.of # "null"
    <3>1. c = Written[v] /\ c # Null
      BY <1>0, <2>4, NullAssumption DEF OutBy
    <3>2. Len(PgColumn(c)) \in Nat \ {0}
      BY <1>0, <3>1, ColumnLength
    <3> HIDE DEF c
    <3> QED BY <2>1, <2>2, <2>4, <3>1, <3>2
  <2> QED BY <2>3, <2>4
<1>2. CASE what = "array"
  <2> DEFINE s == Written[v]
             lit == Surrounded(Quote, Replaced(s, Escaped), Quote)
  <2>1. Element(v) /\ v.of # "null" /\ x = PgElement(s) /\ s \in Bytes
    BY <1>0, <1>2 DEF Element, TextIn
  <2>2. PgElement(s) = lit /\ Len(PgElement(s)) \in Nat \ {0, 1}
    BY <2>1, ElementLength
  <2>3. rest[1] # Quote
    BY <1>2, SpecialAssumption DEF CloseOf
  <2>4. lit \in Bytes /\ Read(lit \o rest, Close) = [res |-> s, read |-> Len(lit), ok |-> TRUE]
    <3>1. Quoting(Escaped) /\ s \in Bytes
      BY <2>1, QuotingTexts
    <3> HIDE DEF s
    <3> QED BY <2>3, <3>1, ReadQuoted
  <2> HIDE DEF lit, s
  <2>5. Len(lit) \in Nat /\ Len(lit) # 0
    BY <2>2
  <2>6. x = lit
    BY <2>1, <2>2
  <2> QED BY <2>1, <2>4, <2>5, <2>6 DEF s
<1> QED BY <1>1, <1>2

(* What is behind the cursor when it has moved over u.                     *)
LEMMA RestFacts ==
    ASSUME NEW fr \in Frame
    PROVE  /\ Rest(fr) \in Bytes
           /\ Rest(fr) # <<>> => fr.cur < Len(fr.src) /\ Len(Rest(fr)) = Len(fr.src) - fr.cur
<1>1. PICK src \in Seq(AnyByte), cur \in Nat, len \in Nat :
         src = fr.src /\ cur = fr.cur /\ len = Len(src)
  BY FrameFacts DEF Bytes
<1>2. Rest(fr) = SubSeq(src, cur + 1, len)
  BY <1>1 DEF Rest
<1>3. CASE cur < len
  <2>1. SubSeq(src, cur + 1, len) \in Seq(AnyByte) /\ Len(SubSeq(src, cur + 1, len)) = len - cur
    BY <1>1, <1>3
  <2> QED BY <1>1, <1>2, <1>3, <2>1 DEF Bytes
<1>4. CASE ~(cur < len)
  <2>1. SubSeq(src, cur + 1, len) = <<>>
    BY <1>1, <1>4, SubSeqEmpty
  <2> QED BY <1>2, <2>1, BytesOf
<1> QED BY <1>3, <1>4

LEMMA SubSeqMoves ==
    ASSUME NEW E, NEW s \in Seq(E), NEW c \in Nat, NEW u \in Seq(E), NEW w \in Seq(E),
           SubSeq(s, c + 1, Len(s)) = u \o w
    PROVE  SubSeq(s, (c + Len(u)) + 1, Len(s)) = w
<1> DEFINE len == Len(s)
           n == Len(u)
           m == Len(w)
           k == c + n
           b == SubSeq(s, c + 1, len)
           v == SubSeq(s, k + 1, len)
<1>1. len \in Nat /\ n \in Nat /\ m \in Nat /\ k \in Nat
  OBVIOUS
<1>2. b \in Seq(E) /\ Len(b) = n + m /\ \A i \in 1 .. m : b[n + i] = w[i]
  <2>1. u \o w \in Seq(E) /\ Len(u \o w) = n + m
    OBVIOUS
  <2>2. ASSUME NEW i \in 1 .. m PROVE (u \o w)[n + i] = w[i]
    OBVIOUS
  <2> QED BY <2>1, <2>2
<1>3. CASE c < len
  <2>1. b \in Seq(E) /\ Len(b) = len - c /\ \A i \in 1 .. len - c : b[i] = s[c + i]
    <3> HIDE DEF len
    <3>1. len <= Len(s) /\ len \in Nat
      BY <1>1 DEF len
    <3>2. Len(b) = len - c
      BY <1>3, <3>1
    <3>3. ASSUME NEW i \in 1 .. len - c PROVE b[i] = s[c + i]
      BY <1>3, <3>1, <3>3
    <3> QED BY <1>2, <3>2, <3>3
  <2>2. k + m = len
    BY <1>1, <1>2, <2>1
  <2>3. v \in Seq(E) /\ Len(v) = m
    <3> HIDE DEF k, m
    <3>1. k <= len /\ len = Len(s) /\ len - k = m
      BY <1>1, <2>2
    <3> QED BY <1>1, <3>1
  <2>4. ASSUME NEW i \in 1 .. m PROVE v[i] = s[k + i]
    <3> HIDE DEF k, m
    <3>1. k <= len /\ len = Len(s) /\ len - k = m
      BY <1>1, <2>2
    <3> QED BY <1>1, <2>4, <3>1
  <2> HIDE DEF v, b
  <2>5. ASSUME NEW i \in 1 .. m PROVE v[i] = w[i]
    <3>1. n + i \in 1 .. len - c /\ k + i = c + (n + i)
      BY <1>1, <1>2, <2>1
    <3> QED BY <1>2, <2>1, <2>4, <3>1
  <2>6. v = w
    BY <2>3, <2>5, SeqEqual
  <2> QED BY <2>6 DEF v
<1>4. CASE ~(c < len)
  <2>1. b = <<>>
    BY <1>1, <1>4, SubSeqEmpty
  <2>2. n = 0 /\ m = 0
    BY <1>1, <1>2, <2>1
  <2>3. v = <<>>
    BY <1>1, <1>4, SubSeqEmpty
  <2>4. w = <<>>
    BY <2>2, EmptySeq
  <2> QED BY <2>3, <2>4
<1> QED BY <1>3, <1>4

LEMMA RestMoves ==
    ASSUME NEW fr \in Frame, NEW u \in Bytes, NEW w \in Bytes, Rest(fr) = u \o w,
           NEW left \in Seq(Todo)
    PROVE  Rest(MovedTo(fr, Len(u), left)) = w
<1>1. fr.src \in Seq(AnyByte) /\ fr.cur \in Nat /\ u \in Seq(AnyByte) /\ w \in Seq(AnyByte)
  BY FrameFacts DEF Bytes
<1>2. Len(u) \in Nat
  BY <1>1
<1>3. MovedTo(fr, Len(u), left).src = fr.src /\ MovedTo(fr, Len(u), left).cur = fr.cur + Len(u)
  BY <1>2, MovedFacts
<1>4. SubSeq(fr.src, (fr.cur + Len(u)) + 1, Len(fr.src)) = w
  BY <1>1, SubSeqMoves DEF Rest
<1> QED BY <1>3, <1>4 DEF Rest

(* The field at hand is that of the first value, which is what is read.    *)
LEMMA OwesHead ==
    ASSUME NEW fr \in Frame, NEW vs \in Seq(Value), NEW more \in Seq(Value), Owes(fr, vs, more),
           fr.left # <<>>, Head(fr.left).kind # "from"
    PROVE  LET v == Head(vs)
               x == TextIn(fr.what)[v]
               rest == After(fr.what, IF fr.what = "record" THEN Tail(vs) ELSE more)
           IN  /\ vs # <<>> /\ v \in Value /\ Tail(vs) \in Seq(Value) /\ v.type = Head(fr.left)
               /\ Readable[v] /\ Matches(Tail(fr.left), Tail(vs))
               /\ fr.what = "array" => v.of \notin {"null", "array"} /\ Tail(vs) = <<>>
               /\ fr.what = "record" /\ Tail(vs) # <<>> => v.of = "array"
               /\ Rest(fr) = x \o rest /\ x \in Bytes /\ rest \in Bytes
               /\ fr.cur < Len(fr.src)
               /\ Read(Rest(fr), Close) = [res |-> IF v.of = "null" THEN <<>> ELSE Written[v],
                                           read |-> Len(x), ok |-> TRUE]
               /\ Len(x) \in Nat /\ (Len(x) = 0 <=> v.of = "null")
<1> DEFINE v == Head(vs)
           x == TextIn(fr.what)[v]
           rest == After(fr.what, IF fr.what = "record" THEN Tail(vs) ELSE more)
<1>1. /\ Head(fr.left) \in Todo /\ Tail(fr.left) \in Seq(Todo)
      /\ fr.left = <<Head(fr.left)>> \o Tail(fr.left)
      /\ fr.what \in {"record", "array"}
  <2>1. fr.left \in Seq(Todo) /\ fr.what \in {"record", "array"}
    BY FrameFacts
  <2> QED BY <2>1
<1>2. Matches(fr.left, vs)
  BY DEF Owes, OwesColumns, OwesElements
<1>3. vs # <<>> /\ v.type = Head(fr.left) /\ Matches(Tail(fr.left), Tail(vs))
  <2> DEFINE t == Head(fr.left)
             ts == Tail(fr.left)
  <2>1. t \in Todo /\ ts \in Seq(Todo) /\ t.kind # "from" /\ Matches(<<t>> \o ts, vs)
    BY <1>1, <1>2
  <2> HIDE DEF t, ts
  <2>2. vs # <<>> /\ Head(vs).type = t /\ Matches(ts, Tail(vs))
    BY <2>1, MatchesHead
  <2> QED BY <2>2 DEF t, ts
<1>4. v \in Value /\ Tail(vs) \in Seq(Value) /\ Len(vs) \in Nat \ {0} /\ vs[1] = v
      /\ Len(Tail(vs)) = Len(vs) - 1
  BY <1>3, HeadTail
<1>5. /\ Readable[v] /\ (fr.what = "array" => Element(v) /\ Tail(vs) = <<>>)
      /\ fr.what = "record" /\ Tail(vs) # <<>> => v.of = "array"
      /\ Rest(fr) = x \o rest
  <2>1. CASE OwesColumns(fr, vs)
    <3>1. fr.what = "record" /\ AllReadable(Readable, vs)
      BY <2>1 DEF OwesColumns, ReadableRecord
    <3>2. 1 \in DOMAIN vs /\ (Tail(vs) # <<>> => 1 < Len(vs))
      <4>1. Len(Tail(vs)) = 0 => Tail(vs) = <<>>
        BY <1>4, EmptySeq
      <4> QED BY <1>4, <4>1
    <3>3. Readable[v] /\ (Tail(vs) # <<>> => v.of = "array")
      BY <1>4, <3>1, <3>2 DEF AllReadable
    <3> QED BY <1>3, <2>1, <3>1, <3>3 DEF OwesColumns
  <2>2. CASE OwesElements(fr, vs, more)
    <3>1. fr.what = "array"
      BY <2>2 DEF OwesElements
    <3>2. PICK w \in Value : /\ vs = <<w>> /\ Element(w)
                             /\ Rest(fr) = TextIn("array")[w] \o After("array", more)
      BY <1>3, <2>2 DEF OwesElements
    <3>3. v = w /\ Tail(vs) = <<>>
      BY <3>2
    <3> QED BY <3>1, <3>2, <3>3 DEF Element
  <2> QED BY <2>1, <2>2 DEF Owes
<1>6. x \in Bytes /\ rest \in Bytes /\ rest # <<>> /\ rest[1] \in {Comma, CloseOf(fr.what)}
  BY <1>4, TextTyped, BehindFacts
<1>7. fr.cur < Len(fr.src)
  <2>1. Rest(fr) # <<>>
    <3> HIDE DEF x, rest
    <3>1. Len(x \o rest) = Len(x) + Len(rest) /\ Len(x) \in Nat /\ Len(rest) \in Nat \ {0}
      BY <1>6, EmptySeq DEF Bytes
    <3>2. Len(x \o rest) # 0
      BY <3>1
    <3> QED BY <1>5, <3>2, NotEmpty
  <2> QED BY <2>1, RestFacts
<1>8. /\ Read(x \o rest, Close) = [res |-> IF v.of = "null" THEN <<>> ELSE Written[v],
                                  read |-> Len(x), ok |-> TRUE]
      /\ Len(x) \in Nat /\ (Len(x) = 0 <=> v.of = "null")
  <2> HIDE DEF rest
  <2> QED BY <1>1, <1>4, <1>5, <1>6, TextRead
<1> HIDE DEF x, rest, v
<1>9. Read(Rest(fr), Close) = [res |-> IF v.of = "null" THEN <<>> ELSE Written[v],
                              read |-> Len(x), ok |-> TRUE]
  BY <1>5, <1>8
<1> QED BY <1>3, <1>4, <1>5, <1>6, <1>7, <1>8, <1>9 DEF Element, v, x, rest

(* The cursor passes the value, and the comma if that is an array.         *)
LEMMA OwesMoved ==
    ASSUME NEW fr \in Frame, NEW vs \in Seq(Value), NEW more \in Seq(Value), Owes(fr, vs, more),
           fr.left # <<>>, Head(fr.left).kind # "from", NEW n,
           LET len == Len(TextIn(fr.what)[Head(vs)])
           IN  \/ n = len /\ Head(vs).of # "array"
               \/ n = len + 1 /\ Head(vs).of \in {"array", "null"}
    PROVE  Owes(MovedTo(fr, n, Tail(fr.left)), Tail(vs), more)
<1> DEFINE v == Head(vs)
           us == Tail(vs)
           x == TextIn(fr.what)[v]
           rest == After(fr.what, IF fr.what = "record" THEN us ELSE more)
           left == Tail(fr.left)
           to == MovedTo(fr, n, left)
<1>1. /\ vs # <<>> /\ v \in Value /\ us \in Seq(Value) /\ Matches(left, us)
      /\ fr.what = "array" => v.of \notin {"null", "array"} /\ us = <<>>
      /\ fr.what = "record" /\ us # <<>> => v.of = "array"
      /\ Rest(fr) = x \o rest /\ x \in Bytes /\ rest \in Bytes
      /\ Len(x) \in Nat
  BY OwesHead
<1>2. n \in Nat /\ left \in Seq(Todo)
  <2>1. fr.left \in Seq(Todo)
    BY FrameFacts
  <2> QED BY <1>1, <2>1
<1>3. /\ to \in Frame /\ to.cur = fr.cur + n /\ to.left = left
      /\ to.what = fr.what /\ to.src = fr.src /\ to.of = fr.of
  BY <1>2, MovedFacts
<1>4. n = Len(x) => Rest(to) = rest
  <2> HIDE DEF x, rest, left
  <2>1. Rest(MovedTo(fr, Len(x), left)) = rest
    BY <1>1, <1>2, RestMoves
  <2> QED BY <2>1
<1>5. CASE OwesColumns(fr, vs)
  <2>1. fr.what = "record" /\ AllReadable(Readable, vs) /\ more = <<>>
    <3>1. ~OwesElements(fr, vs, more)
      BY <1>5 DEF OwesColumns, OwesElements
    <3> QED BY <1>5, <3>1 DEF Owes, OwesColumns, ReadableRecord
  <2>2. AllReadable(Readable, us)
    <3>1. /\ Len(vs) \in Nat \ {0} /\ Len(us) = Len(vs) - 1
          /\ \A k \in 1 .. Len(us) : us[k] = vs[k + 1]
      BY <1>1, HeadTail
    <3> HIDE DEF us
    <3>2. ASSUME NEW k \in DOMAIN us PROVE Readable[us[k]] /\ (k < Len(us) => us[k].of = "array")
      <4>1. k \in 1 .. Len(us)
        BY <1>1, <3>2
      <4>2. k + 1 \in DOMAIN vs /\ us[k] = vs[k + 1] /\ (k < Len(us) => k + 1 < Len(vs))
        BY <3>1, <4>1
      <4> QED BY <2>1, <4>2 DEF AllReadable
    <3> QED BY <3>2 DEF AllReadable
  <2>3. ASSUME us # <<>> PROVE Rest(to) = TextIn("record")[Head(us)] \o After("record", Tail(us))
    <3>1. n = Len(x) + 1 /\ rest = <<Comma>> \o Behind("record", us)
      BY <1>1, <2>1, <2>3 DEF After
    <3>2. Behind("record", us) = TextIn("record")[Head(us)] \o After("record", Tail(us))
      BY <1>1, <2>3, BehindFacts
    <3> DEFINE u == x \o <<Comma>>
               w == Behind("record", us)
    <3>3. w \in Bytes /\ <<Comma>> \in Bytes
      BY <1>1, BehindFacts, BytesOf
    <3> HIDE DEF x, w, rest, left, us
    <3>4. u \in Bytes /\ Len(u) = Len(x) + 1 /\ x \o (<<Comma>> \o w) = u \o w
      <4>0. x \in Bytes
        BY <1>1
      <4>1. u \in Bytes /\ x \o (<<Comma>> \o w) = u \o w
        <5> HIDE DEF w
        <5>1. PICK comma \in Bytes : comma = <<Comma>>
          BY <3>3
        <5>2. x \o comma \in Bytes
          BY <4>0, BytesOf, Zenon
        <5>3. (x \o comma) \o w = x \o (comma \o w)
          BY <3>3, <4>0, BytesConcat, Zenon
        <5> QED BY <5>1, <5>2, <5>3
      <4>2. ASSUME NEW s \in Seq(AnyByte) PROVE Len(s \o <<Comma>>) = Len(s) + 1
        <5>1. Append(s, Comma) = s \o <<Comma>>
          BY BytesOf, AppendIsConcat
        <5>2. Comma \in AnyByte
          BY BytesOf
        <5>3. Len(Append(s, Comma)) = Len(s) + 1
          BY <5>2
        <5> QED BY <5>1, <5>3
      <4> QED BY <1>1, <4>1, <4>2 DEF Bytes
    <3>5. Rest(fr) = u \o w
      BY <1>1, <3>1, <3>4 DEF w
    <3> HIDE DEF u
    <3>6. Rest(MovedTo(fr, Len(u), left)) = w
      BY <1>2, <3>3, <3>4, <3>5, RestMoves
    <3> QED BY <3>1, <3>2, <3>4, <3>6 DEF w
  <2> HIDE DEF us, to, left
  <2>4. OwesColumns(to, us)
    BY <1>1, <1>3, <2>1, <2>2, <2>3 DEF OwesColumns, ReadableRecord
  <2> QED BY <2>1, <2>4 DEF Owes, us, to, left
<1>6. CASE OwesElements(fr, vs, more)
  <2>1. fr.what = "array" /\ \A k \in DOMAIN more : Element(more[k]) /\ more[k].type = fr.of[1]
    BY <1>6 DEF OwesElements
  <2>2. us = <<>> /\ n = Len(x) /\ Rest(to) = After("array", more)
    BY <1>1, <1>4, <2>1
  <2>3. CASE more = <<>>
    <3>1. Rest(to) = <<RBrace>> /\ <<RBrace>> # <<>> /\ Len(<<RBrace>>) = 1
      BY <2>2, <2>3 DEF After, CloseOf
    <3>2. to.cur < Len(to.src) /\ 1 = Len(to.src) - to.cur
      BY <1>3, <3>1, RestFacts
    <3>3. to.cur \in Nat /\ Len(to.src) \in Nat
      BY <1>3, FrameFacts
    <3>4. to.cur + 1 >= Len(to.src) - 1
      BY <3>2, <3>3
    <3> HIDE DEF us, to, left
    <3>5. OwesElements(to, us, more)
      BY <1>1, <1>3, <2>1, <2>2, <2>3, <3>4 DEF OwesElements
    <3> QED BY <3>5 DEF Owes, us, to, left
  <2>4. CASE more # <<>>
    <3>1. Rest(to) = <<Comma>> \o Behind("array", more) /\ Comma \in AnyByte
      BY <2>2, <2>4, BytesOf DEF After
    <3> HIDE DEF us, to, left
    <3>2. OwesElements(to, us, more)
      BY <1>1, <1>3, <2>1, <2>2, <2>4, <3>1 DEF OwesElements
    <3> QED BY <3>2 DEF Owes, us, to, left
  <2> QED BY <2>3, <2>4
<1> QED BY <1>5, <1>6 DEF Owes

(* What goes on with another type, or with the call of a FromPOD.          *)
LEMMA RestStays ==
    ASSUME NEW fr \in Frame, NEW left \in Seq(Todo)
    PROVE  LET to == MovedTo(fr, 0, left)
           IN  /\ Rest(to) = Rest(fr) /\ to \in Frame /\ to.cur = fr.cur /\ to.left = left
               /\ to.what = fr.what /\ to.src = fr.src /\ to.of = fr.of
<1> DEFINE to == MovedTo(fr, 0, left)
<1>1. /\ to \in Frame /\ to.cur = fr.cur + 0 /\ to.left = left
      /\ to.what = fr.what /\ to.src = fr.src /\ to.of = fr.of
  BY MovedFacts
<1>2. fr.cur + 0 = fr.cur
  BY FrameFacts
<1> HIDE DEF to
<1>3. Rest(to) = Rest(fr)
  BY <1>1, <1>2 DEF Rest
<1> QED BY <1>1, <1>2, <1>3 DEF to

LEMMA OwesFrom ==
    ASSUME NEW fr \in Frame, NEW vs \in Seq(Value), NEW more \in Seq(Value), Owes(fr, vs, more),
           fr.left # <<>>, Head(fr.left).kind = "from"
    PROVE  Head(fr.left).ok /\ Owes(MovedTo(fr, 0, Tail(fr.left)), vs, more)
<1> DEFINE t == Head(fr.left)
           ts == Tail(fr.left)
           to == MovedTo(fr, 0, ts)
<1>1. t \in Todo /\ ts \in Seq(Todo) /\ fr.left = <<t>> \o ts
  <2>1. fr.left \in Seq(Todo)
    BY FrameFacts
  <2> QED BY <2>1
<1>2. Matches(fr.left, vs)
  BY DEF Owes, OwesColumns, OwesElements
<1>3. t.ok /\ Matches(ts, vs)
  <2>1. Matches(<<t>> \o ts, vs) /\ t.kind = "from"
    BY <1>1, <1>2
  <2> HIDE DEF t, ts
  <2> QED BY <1>1, <2>1, MatchesHead
<1>4. /\ Rest(to) = Rest(fr) /\ to \in Frame /\ to.cur = fr.cur /\ to.left = ts
      /\ to.what = fr.what /\ to.src = fr.src /\ to.of = fr.of
  BY <1>1, RestStays
<1> HIDE DEF to, ts
<1>5. OwesColumns(fr, vs) => OwesColumns(to, vs)
  BY <1>3, <1>4 DEF OwesColumns
<1>6. OwesElements(fr, vs, more) => OwesElements(to, vs, more)
  BY <1>3, <1>4 DEF OwesElements
<1>7. Owes(to, vs, more)
  BY <1>5, <1>6 DEF Owes
<1> QED BY <1>3, <1>7 DEF to, ts

(* Behind a pointer or a POD is the same text, and the same to be stored.  *)
LEMMA OtherFacts ==
    ASSUME NEW v \in Value, Form(v) = "other"
    PROVE  /\ v.to \in Value /\ v.to.type = v.type.to /\ v.to.of = v.of
           /\ \A what : TextIn(what)[v.to] = TextIn(what)[v]
           /\ Leaves[v] = Leaves[v.to]
           /\ Readable[v] => Readable[v.to]
           /\ Element(v) => Element(v.to)
<1>1. v.to \in Value /\ v.to.type = v.type.to /\ v.to.of = v.of
  BY ValueFacts, ValueAssumption
<1>2. Written[v] = Written[v.to]
  BY WrittenEquation DEF WrittenBy
<1>3. \A what : TextIn(what)[v.to] = TextIn(what)[v]
  BY <1>1, <1>2 DEF TextIn, OutBy
<1>4. Leaves[v] = Leaves[v.to]
  BY LeavesEquation DEF LeavesBy
<1>5. Readable[v] => Readable[v.to]
  BY ReadableEquation DEF ReadableBy
<1> QED BY <1>1, <1>2, <1>3, <1>4, <1>5 DEF Element

LEMMA OwesOn ==
    ASSUME NEW fr \in Frame, NEW vs \in Seq(Value), NEW more \in Seq(Value), Owes(fr, vs, more),
           vs # <<>>, Form(Head(vs)) = "other", NEW left \in Seq(Todo),
           Matches(left, <<Head(vs).to>> \o Tail(vs))
    PROVE  Owes(MovedTo(fr, 0, left), <<Head(vs).to>> \o Tail(vs), more)
<1> DEFINE v == Head(vs)
           w == v.to
           us == <<w>> \o Tail(vs)
           to == MovedTo(fr, 0, left)
<1>1. /\ v = vs[1] /\ v \in Value /\ Len(vs) \in Nat \ {0} /\ Tail(vs) \in Seq(Value)
      /\ Len(Tail(vs)) = Len(vs) - 1 /\ \A k \in 1 .. Len(Tail(vs)) : Tail(vs)[k] = vs[k + 1]
  BY HeadTail
<1>2. /\ w \in Value /\ w.of = v.of /\ \A what : TextIn(what)[w] = TextIn(what)[v]
      /\ Readable[v] => Readable[w]
      /\ Element(v) => Element(w)
  <2> HIDE DEF v
  <2> QED BY <1>1, OtherFacts DEF v
<1> HIDE DEF w
<1>3. us \in Seq(Value) /\ us # <<>> /\ Head(us) = w /\ Tail(us) = Tail(vs)
  BY <1>1, <1>2, HeadAndRest
<1>4. /\ Rest(to) = Rest(fr) /\ to \in Frame /\ to.cur = fr.cur /\ to.left = left
      /\ to.what = fr.what /\ to.src = fr.src /\ to.of = fr.of
  BY RestStays
<1>5. Matches(left, us)
  BY DEF w
<1>6. CASE OwesColumns(fr, vs)
  <2>1. fr.what = "record" /\ AllReadable(Readable, vs) /\ more = <<>>
    <3>1. ~OwesElements(fr, vs, more)
      BY <1>6 DEF OwesColumns, OwesElements
    <3> QED BY <1>6, <3>1 DEF Owes, OwesColumns, ReadableRecord
  <2>2. AllReadable(Readable, us)
    <3> HIDE DEF us, v
    <3>1. /\ us[1] = w /\ Len(us) = Len(vs)
          /\ \A k \in 1 .. Len(Tail(vs)) : Tail(vs)[k] = us[k + 1]
      <4>1. /\ Head(us) = us[1] /\ Len(us) \in Nat \ {0} /\ Len(Tail(us)) = Len(us) - 1
            /\ \A k \in 1 .. Len(Tail(us)) : Tail(us)[k] = us[k + 1]
        <5>1. us \in Seq(Value) /\ us # <<>>
          BY <1>3
        <5> QED BY <5>1, HeadTail
      <4>2. Len(us) - 1 = Len(vs) - 1
        <5>1. Len(Tail(us)) = Len(Tail(vs))
          BY <1>3, Zenon
        <5> QED BY <1>1, <4>1, <5>1, Zenon
      <4>3. Len(us) = Len(vs)
        <5>1. Len(us) \in Nat /\ Len(vs) \in Nat
          BY <1>1, <4>1
        <5> QED BY <4>2, <5>1
      <4> QED BY <1>3, <4>1, <4>3
    <3>2. ASSUME NEW k \in DOMAIN us PROVE Readable[us[k]] /\ (k < Len(us) => us[k].of = "array")
      <4>1. k \in 1 .. Len(vs) /\ k \in DOMAIN vs
        BY <1>3, <3>1
      <4>2. Readable[vs[k]] /\ (k < Len(vs) => vs[k].of = "array")
        BY <2>1, <4>1 DEF AllReadable
      <4>3. CASE k = 1
        BY <1>1, <1>2, <3>1, <4>2, <4>3
      <4>4. CASE k # 1
        <5>1. k - 1 \in 1 .. Len(Tail(vs)) /\ (k - 1) + 1 = k
          BY <1>1, <4>1, <4>4
        <5>2. us[k] = vs[k]
          BY <1>1, <3>1, <5>1
        <5> QED BY <3>1, <4>2, <5>2
      <4> QED BY <4>3, <4>4
    <3> QED BY <3>2 DEF AllReadable
  <2>3. Rest(fr) = TextIn("record")[v] \o After("record", Tail(vs))
    BY <1>6 DEF OwesColumns
  <2> HIDE DEF us, to, v
  <2>4. Rest(to) = TextIn("record")[Head(us)] \o After("record", Tail(us))
    BY <1>2, <1>3, <1>4, <2>3
  <2>5. OwesColumns(to, us)
    BY <1>4, <1>5, <2>1, <2>2, <2>4 DEF OwesColumns, ReadableRecord
  <2> QED BY <2>1, <2>5 DEF Owes, us, to, w, v
<1>7. CASE OwesElements(fr, vs, more)
  <2>1. fr.what = "array" /\ \A k \in DOMAIN more : Element(more[k]) /\ more[k].type = fr.of[1]
    BY <1>7 DEF OwesElements
  <2>2. PICK e \in Value : /\ vs = <<e>> /\ Element(e)
                           /\ Rest(fr) = TextIn("array")[e] \o After("array", more)
    BY <1>7 DEF OwesElements
  <2>3. v = e /\ Tail(vs) = <<>>
    BY <2>2
  <2>4. us = <<w>>
    <3>1. PICK one \in Seq(Value) : one = <<w>>
      <4>1. <<w>> \in Seq(Value)
        BY <1>2
      <4> QED BY <4>1
    <3>2. one \o <<>> = one
      BY SeqConcat
    <3> QED BY <2>3, <3>1, <3>2
  <2> HIDE DEF us, to, v
  <2>5. Rest(to) = TextIn("array")[w] \o After("array", more) /\ Element(w)
    BY <1>2, <1>4, <2>2, <2>3
  <2>6. OwesElements(to, us, more)
    BY <1>2, <1>4, <1>5, <2>1, <2>4, <2>5 DEF OwesElements
  <2> QED BY <2>6 DEF Owes, us, to, w, v
<1> QED BY <1>6, <1>7 DEF Owes

(* A turn of an array's loop: the next element, or none is left. *)
LEMMA OwesTurn ==
    ASSUME NEW fr \in Frame, NEW vs \in Seq(Value), NEW more \in Seq(Value), Owes(fr, vs, more),
           fr.what = "array", fr.left = <<>>, Len(fr.of) = 1
    PROVE  /\ vs = <<>>
           /\ more = <<>> => ~(fr.cur + 1 < Len(fr.src) - 1)
           /\ more # <<>> => /\ fr.cur + 1 < Len(fr.src) - 1
                             /\ Head(more) \in Value /\ Tail(more) \in Seq(Value)
                             /\ Owes(MovedTo(fr, 1, fr.of), <<Head(more)>>, Tail(more))
<1>1. OwesElements(fr, vs, more)
  BY DEF Owes, OwesColumns
<1>2. vs = <<>>
  BY <1>1, MatchesNothing DEF OwesElements
<1>3. fr.cur \in Nat /\ Len(fr.src) \in Nat /\ fr.of \in Seq(Field)
  BY FrameFacts
<1>4. ASSUME more = <<>> PROVE ~(fr.cur + 1 < Len(fr.src) - 1)
  <2>1. fr.cur + 1 >= Len(fr.src) - 1
    BY <1>1, <1>2, <1>4 DEF OwesElements
  <2> QED BY <1>3, <2>1
<1>5. ASSUME more # <<>>
      PROVE  /\ fr.cur + 1 < Len(fr.src) - 1
             /\ Head(more) \in Value /\ Tail(more) \in Seq(Value)
             /\ Owes(MovedTo(fr, 1, fr.of), <<Head(more)>>, Tail(more))
  <2> DEFINE v == Head(more)
             rest == Tail(more)
             x == TextIn("array")[v]
             w == Behind("array", more)
             to == MovedTo(fr, 1, fr.of)
  <2>1. PICK c \in AnyByte : Rest(fr) = <<c>> \o w
    BY <1>1, <1>2, <1>5 DEF OwesElements
  <2>2. /\ v \in Value /\ rest \in Seq(Value) /\ v = more[1] /\ 1 \in DOMAIN more
        /\ Len(more) \in Nat \ {0} /\ Len(rest) = Len(more) - 1
        /\ \A k \in 1 .. Len(rest) : rest[k] = more[k + 1]
    BY <1>5, HeadTail
  <2>3. Element(v) /\ v.type = fr.of[1]
    BY <1>1, <2>2 DEF OwesElements
  <2>4. ASSUME NEW k \in DOMAIN rest PROVE Element(rest[k]) /\ rest[k].type = fr.of[1]
    <3>1. k \in 1 .. Len(rest)
      BY <2>2, <2>4
    <3>2. k + 1 \in DOMAIN more /\ rest[k] = more[k + 1]
      BY <2>2, <3>1
    <3> QED BY <1>1, <3>2 DEF OwesElements
  <2>5. w = x \o After("array", rest) /\ w \in Bytes
    BY <1>5, BehindFacts
  <2>6. /\ x \in Bytes /\ Len(x) \in Nat \ {0, 1}
        /\ After("array", rest) \in Bytes /\ After("array", rest) # <<>>
    <3>1. x \in Bytes
      BY <2>2, TextTyped
    <3>2. After("array", rest) \in Bytes /\ After("array", rest) # <<>>
      BY <2>2, BehindFacts
    <3>3. Len(x) \in Nat \ {0, 1}
      BY <2>2, <2>3, ElementLength DEF TextIn
    <3> QED BY <3>1, <3>2, <3>3
  <2>7. fr.cur < Len(fr.src) /\ Len(Rest(fr)) >= 4 /\ Len(Rest(fr)) = Len(fr.src) - fr.cur
    <3> DEFINE a == After("array", rest)
               one == <<c>>
    <3>1. one \in Bytes /\ Len(one) = 1 /\ Len(a) \in Nat \ {0}
      BY <2>6, BytesOf, EmptySeq DEF Bytes
    <3> HIDE DEF x, a, w, one
    <3>2. /\ w = x \o a /\ Rest(fr) = one \o w
          /\ x \in Seq(AnyByte) /\ a \in Seq(AnyByte) /\ w \in Seq(AnyByte) /\ one \in Seq(AnyByte)
      BY <2>1, <2>5, <2>6, <3>1 DEF Bytes, a, one
    <3>3. Len(x \o a) = Len(x) + Len(a) /\ Len(one \o w) = Len(one) + Len(w)
      BY <3>2
    <3>4. Len(Rest(fr)) >= 4
      BY <2>6, <3>1, <3>2, <3>3
    <3>5. Rest(fr) # <<>>
      BY <3>4, NotEmpty
    <3> QED BY <3>4, <3>5, RestFacts
  <2>8. fr.cur + 1 < Len(fr.src) - 1
    BY <1>3, <2>7
  <2>9. fr.of \in Seq(Todo) /\ 1 \in Nat
    BY <1>3 DEF Todo
  <2>10. /\ to \in Frame /\ to.left = fr.of /\ to.what = fr.what /\ to.of = fr.of
    BY <2>9, MovedFacts
  <2>11. Rest(to) = w
    <3>1. PICK one \in Bytes : one = <<c>> /\ Len(one) = 1
      <4>1. <<c>> \in Bytes /\ Len(<<c>>) = 1
        BY BytesOf
      <4> QED BY <4>1
    <3> HIDE DEF w
    <3>2. Rest(fr) = one \o w /\ w \in Bytes
      BY <2>1, <2>5, <3>1
    <3>3. Rest(MovedTo(fr, Len(one), fr.of)) = w
      BY <2>9, <3>2, RestMoves
    <3> QED BY <3>1, <3>3
  <2>12. Matches(fr.of, <<v>>)
    <3>1. Types(<<v>>) = <<v.type>>
      BY DEF Types
    <3>2. fr.of = <<v.type>>
      BY <1>3, <2>3
    <3>3. <<v>> \in Seq(Value)
      BY <2>2
    <3> HIDE DEF v
    <3> QED BY <3>1, <3>2, <3>3, MatchesTypes
  <2> HIDE DEF v, rest, to, w, x
  <2>13. Rest(to) = TextIn("array")[v] \o After("array", rest)
    BY <2>5, <2>11 DEF x
  <2>14. OwesElements(to, <<v>>, rest)
    BY <2>2, <2>3, <2>4, <2>10, <2>12, <2>13 DEF OwesElements
  <2> QED BY <2>2, <2>8, <2>14 DEF Owes, v, rest, to
<1> QED BY <1>2, <1>4, <1>5

LEMMA OwesReturn ==
    ASSUME NEW fr \in Frame, NEW vs \in Seq(Value), NEW more \in Seq(Value), Owes(fr, vs, more),
           fr.what = "record", fr.left = <<>>
    PROVE  vs = <<>> /\ more = <<>>
<1>1. OwesColumns(fr, vs) /\ more = <<>>
  BY DEF Owes, OwesElements
<1> QED BY <1>1, MatchesNothing DEF OwesColumns

(* A literal of PostgreSQL's, when Scan or the loop begins with it.        *)
LEMMA NewRecordOwes ==
    ASSUME NEW vs \in Seq(Value), ReadableRecord(vs)
    PROVE  LET s == PgRecord(Outs(vs))
           IN  /\ s \in Bytes /\ Opens(s) /\ Inner(s).res = s
               /\ Owes(Record(s, Types(vs)), vs, <<>>)
<1> DEFINE s == PgRecord(Outs(vs))
           w == Behind("record", vs)
           fr == Record(s, Types(vs))
<1>1. /\ w \in Seq(AnyByte) /\ Open \in AnyByte /\ Close \in AnyByte /\ s = <<Open>> \o w
      /\ s \in Seq(AnyByte) /\ s # <<>>
  <2>1. w \in Seq(AnyByte) /\ Open \in AnyByte /\ Close \in AnyByte
    BY BehindFacts, BytesOf DEF Bytes
  <2>2. s = <<Open>> \o w
    BY LiteralShape
  <2> HIDE DEF s, w
  <2>3. <<Open>> \o w \in Seq(AnyByte) /\ <<Open>> \o w # <<>>
    BY <2>1, HeadAndRest
  <2> QED BY <2>1, <2>2, <2>3
<1>2. s[1] = Open /\ s[Len(s)] = Close
  <2> DEFINE m == Commas(Columns(Outs(vs)))
             u == <<Open>> \o m
  <2>1. m \in Seq(AnyByte)
    <3>1. Columns(Outs(vs)) \in Seq(Bytes)
      <4>1. Outs(vs) \in Seq(ColumnText)
        BY OutTyped DEF Outs
      <4> QED BY <4>1, ColumnsTyped
    <3> QED BY <3>1, <1>1, SurroundedTyped DEF Bytes
  <2>2. s = u \o <<Close>>
    BY DEF PgRecord, Surrounded
  <2> HIDE DEF m
  <2>3. u \in Seq(AnyByte) /\ u # <<>> /\ u[1] = Open /\ Len(u) \in Nat \ {0}
    BY <1>1, <2>1, HeadAndRest, HeadTail
  <2> HIDE DEF u, s
  <2>4. s = Append(u, Close)
    BY <1>1, <2>2, <2>3, AppendIsConcat
  <2>5. Len(s) = Len(u) + 1 /\ s[1] = u[1] /\ s[Len(u) + 1] = Close
    BY <1>1, <2>3, <2>4
  <2> QED BY <2>3, <2>5
<1> HIDE DEF s, w
<1>3. Open # Quote
  BY SpecialAssumption
<1>4. Head(s) = Open /\ s # <<Quote>> /\ s \in Bytes
  <2>1. Head(s) = Open
    BY <1>1, <1>2, HeadTail
  <2>2. Head(<<Quote>>) = Quote
    OBVIOUS
  <2> QED BY <1>1, <1>3, <2>1, <2>2 DEF Bytes
<1>5. Inner(s).res = s /\ Inner(s).ok
  BY <1>3, <1>4 DEF Inner
<1>6. Opens(s)
  BY <1>1, <1>2, <1>4, <1>5 DEF Opens, OutOfRange, IsRecord
<1>7. fr.what = "record" /\ fr.src = s /\ fr.cur = 1 /\ fr.left = Types(vs)
  BY DEF Record
<1> HIDE DEF fr
<1>8. Rest(fr) = w
  <2>1. PICK one \in Seq(AnyByte) : one = <<Open>> /\ Len(one) = 1
    <3>1. <<Open>> \in Seq(AnyByte) /\ Len(<<Open>>) = 1
      BY <1>1
    <3> QED BY <3>1
  <2>2. SubSeq(s, 0 + 1, Len(s)) = s
    BY <1>1
  <2>3. SubSeq(s, 0 + 1, Len(s)) = one \o w
    BY <1>1, <2>1, <2>2
  <2>4. SubSeq(s, (0 + Len(one)) + 1, Len(s)) = w
    BY <1>1, <2>3, SubSeqMoves
  <2> QED BY <1>7, <2>1, <2>4 DEF Rest
<1>9. vs # <<>> => w = TextIn("record")[Head(vs)] \o After("record", Tail(vs))
  BY BehindFacts DEF w
<1>10. OwesColumns(fr, vs)
  BY <1>7, <1>8, <1>9, MatchesTypes DEF OwesColumns
<1> QED BY <1>4, <1>5, <1>6, <1>10 DEF Owes, s, fr

LEMMA NewArrayOwes ==
    ASSUME NEW vs \in Seq(Value), NEW elem \in Field,
           \A k \in DOMAIN vs : Element(vs[k]) /\ vs[k].type = elem
    PROVE  Owes(Array(PgArray([k \in DOMAIN vs |-> Written[vs[k]]]), elem), <<>>, vs)
<1> DEFINE s == PgArray([k \in DOMAIN vs |-> Written[vs[k]]])
           w == Behind("array", vs)
           fr == Array(s, elem)
<1>1. w \in Seq(AnyByte) /\ LBrace \in AnyByte /\ s = <<LBrace>> \o w
  BY BehindFacts, BytesOf, LiteralShape DEF Bytes
<1>2. /\ fr.what = "array" /\ fr.src = s /\ fr.cur = 0 /\ fr.left = <<>>
      /\ fr.of = <<elem>> /\ fr.of[1] = elem
  BY DEF Array
<1> HIDE DEF s, fr
<1>3. Matches(<<>>, <<>>)
  <2>1. <<>> \in Seq(Value)
    OBVIOUS
  <2> QED BY <2>1, MatchesTypes, TypesFacts
<1>4. CASE vs = <<>>
  <2>1. w = <<RBrace>>
    <3>1. PICK none \in Seq(Bytes) : none = <<>>
      BY SeqConcat
    <3>2. Mapped(TextIn("array"), vs) = <<>>
      BY <1>4, MappedFacts
    <3>3. Commas(<<>>) = <<>>
      BY DEF Commas
    <3>4. <<RBrace>> \in Bytes
      BY BytesOf
    <3>5. <<>> \o <<RBrace>> = <<RBrace>>
      BY <3>4, BytesConcat
    <3> QED BY <3>2, <3>3, <3>5 DEF Behind, CloseOf
  <2>2. Len(s) = 2
    <3>1. PICK a \in Seq(AnyByte), b \in Seq(AnyByte) :
             a = <<LBrace>> /\ b = <<RBrace>> /\ Len(a) = 1 /\ Len(b) = 1
      <4>1. RBrace \in AnyByte
        BY BytesOf
      <4>2. <<LBrace>> \in Seq(AnyByte) /\ <<RBrace>> \in Seq(AnyByte)
        BY <1>1, <4>1
      <4> QED BY <4>2
    <3>2. Len(a \o b) = 2
      BY <3>1
    <3> HIDE DEF w
    <3>3. s = a \o b
      BY <1>1, <2>1, <3>1
    <3> QED BY <3>2, <3>3
  <2>3. fr.cur + 1 >= Len(fr.src) - 1
    BY <1>2, <2>2
  <2>4. OwesElements(fr, <<>>, vs)
    BY <1>2, <1>3, <1>4, <2>3 DEF OwesElements
  <2> QED BY <2>4 DEF Owes, s, fr
<1>5. CASE vs # <<>>
  <2> HIDE DEF w
  <2>1. s \in Seq(AnyByte)
    BY <1>1, HeadAndRest
  <2>2. Rest(fr) = s
    <3>1. SubSeq(s, 0 + 1, Len(s)) = s
      BY <2>1
    <3> QED BY <1>2, <3>1 DEF Rest
  <2>3. Rest(fr) = <<LBrace>> \o Behind("array", vs)
    BY <1>1, <2>2 DEF w
  <2>4. OwesElements(fr, <<>>, vs)
    BY <1>1, <1>2, <1>3, <1>5, <2>3 DEF OwesElements
  <2> QED BY <2>4 DEF Owes, s, fr
<1> QED BY <1>4, <1>5

LEMMA NullArrayOwes == \A elem \in Field : Owes(Array(<<>>, elem), <<>>, <<>>)
<1> SUFFICES ASSUME NEW elem \in Field PROVE Owes(Array(<<>>, elem), <<>>, <<>>)
  OBVIOUS
<1> DEFINE fr == Array(<<>>, elem)
<1>1. /\ fr.what = "array" /\ Len(fr.src) = 0 /\ fr.cur = 0 /\ fr.left = <<>>
  BY DEF Array
<1> HIDE DEF fr
<1>2. Matches(<<>>, <<>>)
  <2>1. <<>> \in Seq(Value)
    OBVIOUS
  <2> QED BY <2>1, MatchesTypes, TypesFacts
<1>3. fr.cur + 1 >= Len(fr.src) - 1
  BY <1>1
<1>4. OwesElements(fr, <<>>, <<>>)
  BY <1>1, <1>2, <1>3 DEF OwesElements
<1> QED BY <1>4 DEF Owes, fr

-----------------------------------------------------------------------------
(***************************************************************************)
(* What is still to be stored: what the frame at the top owes, and then    *)
(* what those below it do.                                                 *)
(***************************************************************************)
OnTop(fr, rest, d) ==
    \E vs, more \in Seq(Value) :
        Owes(fr, vs, more) /\ d = LeavesOf(vs) \o (LeavesOf(more) \o rest)

Dues(s, d, due) ==
    /\ due \in Seq(Stored) /\ Len(due) = Len(s) + 1
    /\ due[1] = <<>> /\ due[Len(s) + 1] = d
    /\ \A k \in 1 .. Len(s) : OnTop(s[k], due[k], due[k + 1])

Owing(s, d) == \E due : Dues(s, d, due)

LEMMA OwingNothing == Owing(<<>>, <<>>) /\ \A d : Owing(<<>>, d) => d = <<>>
<1>1. PICK due \in Seq(Stored) : Len(due) = 1 /\ due[1] = <<>>
  <2>1. PICK none \in Stored : none = <<>>
    BY SeqConcat DEF Stored
  <2>2. <<none>> \in Seq(Stored) /\ Len(<<none>>) = 1 /\ <<none>>[1] = none
    OBVIOUS
  <2> QED BY <2>1, <2>2
<1>2. PICK s \in Seq(Frames) : s = <<>> /\ Len(s) = 0
  <2>1. <<>> \in Seq(Frames) /\ Len(<<>>) = 0
    OBVIOUS
  <2> QED BY <2>1
<1>3. Dues(s, <<>>, due)
  BY <1>1, <1>2 DEF Dues
<1>4. ASSUME NEW d, NEW any, Dues(s, d, any) PROVE d = <<>>
  BY <1>2, <1>4 DEF Dues
<1> QED BY <1>2, <1>3, <1>4 DEF Owing

LEMMA OwingPush ==
    ASSUME NEW s \in Seq(Frame), NEW fr \in Frame, NEW rest, Owing(s, rest),
           NEW d \in Stored, OnTop(fr, rest, d)
    PROVE  Owing(Append(s, fr), d)
<1>1. PICK due : Dues(s, rest, due)
  BY DEF Owing
<1> DEFINE n == Len(s)
           t == Append(s, fr)
           all == Append(due, d)
<1>2. /\ due \in Seq(Stored) /\ Len(due) = n + 1 /\ n \in Nat
      /\ due[1] = <<>> /\ due[n + 1] = rest
      /\ \A k \in 1 .. n : OnTop(s[k], due[k], due[k + 1])
  BY <1>1 DEF Dues
<1>3. Len(t) = n + 1 /\ t[n + 1] = fr /\ \A k \in 1 .. n : t[k] = s[k]
  OBVIOUS
<1> HIDE DEF n
<1>4. /\ all \in Seq(Stored) /\ Len(all) = (n + 1) + 1 /\ all[(n + 1) + 1] = d
      /\ \A k \in 1 .. n + 1 : all[k] = due[k]
  BY <1>2
<1> HIDE DEF t, all
<1>5. ASSUME NEW k \in 1 .. n + 1 PROVE OnTop(t[k], all[k], all[k + 1])
  <2>1. CASE k = n + 1
    <3>1. all[k] = rest /\ all[k + 1] = d /\ t[k] = fr
      BY <1>2, <1>3, <1>4, <2>1
    <3> QED BY <3>1
  <2>2. CASE k # n + 1
    <3>1. k \in 1 .. n /\ k + 1 \in 1 .. n + 1
      BY <1>2, <2>2
    <3>2. all[k] = due[k] /\ all[k + 1] = due[k + 1] /\ t[k] = s[k]
      BY <1>3, <1>4, <3>1
    <3> QED BY <1>2, <3>1, <3>2
  <2> QED BY <2>1, <2>2
<1>6. all[1] = <<>>
  <2>1. 1 \in 1 .. n + 1
    BY <1>2
  <2>2. all[1] = due[1]
    BY <1>4, <2>1
  <2> QED BY <1>2, <2>2
<1>7. Dues(t, d, all)
  <2>1. /\ all \in Seq(Stored) /\ Len(all) = Len(t) + 1 /\ all[Len(t) + 1] = d
        /\ \A k \in 1 .. Len(t) : OnTop(t[k], all[k], all[k + 1])
    BY <1>3, <1>4, <1>5
  <2> QED BY <1>6, <2>1, Zenon DEF Dues
<1> QED BY <1>7 DEF Owing, t

LEMMA OwingTop ==
    ASSUME stack \in Seq(Frames), stack # <<>>, NEW d, Owing(stack, d)
    PROVE  \E rest \in Stored : Owing(Outer, rest) /\ OnTop(Top, rest, d)
<1>1. PICK due : Dues(stack, d, due)
  BY DEF Owing
<1> DEFINE n == Len(stack)
           u == SubSeq(stack, 1, n - 1)
           low == SubSeq(due, 1, n)
<1>2. /\ n \in Nat \ {0} /\ u \in Seq(Frames) /\ Len(u) = n - 1
      /\ \A k \in 1 .. n - 1 : u[k] = stack[k]
  BY Below
<1>3. /\ due \in Seq(Stored) /\ Len(due) = n + 1
      /\ due[1] = <<>> /\ due[n + 1] = d
      /\ \A k \in 1 .. n : OnTop(stack[k], due[k], due[k + 1])
  BY <1>1 DEF Dues
<1> HIDE DEF n, u
<1>4. low \in Seq(Stored) /\ Len(low) = n /\ \A k \in 1 .. n : low[k] = due[k]
  BY <1>2, <1>3, Prefix
<1> HIDE DEF low
<1>5. ASSUME NEW k \in 1 .. n - 1 PROVE OnTop(u[k], low[k], low[k + 1])
  <2>1. k \in 1 .. n /\ k + 1 \in 1 .. n
    BY <1>2
  <2> QED BY <1>2, <1>3, <1>4, <2>1
<1>6. n \in 1 .. n /\ 1 \in 1 .. n /\ (n - 1) + 1 = n /\ n \in DOMAIN low /\ n + 1 \in DOMAIN due
  BY <1>2, <1>3, <1>4
<1>7. due[n] \in Stored /\ d \in Stored /\ low[n] = due[n] /\ low[1] = <<>>
  BY <1>3, <1>4, <1>6
<1>8. Dues(u, due[n], low)
  BY <1>2, <1>4, <1>5, <1>6, <1>7 DEF Dues
<1>9. OnTop(stack[n], due[n], d)
  BY <1>3, <1>6
<1>10. Top = stack[n] /\ Outer = u
  BY DEF Top, Outer, n, u
<1> QED BY <1>7, <1>8, <1>9, <1>10 DEF Owing

(***************************************************************************)
(* The invariant of a call for a record that is read as it should be:      *)
(* what has been stored and what is still owed are what is to be stored.   *)
(***************************************************************************)
Owed(s, g, all) == \E d \in Stored : Owing(s, d) /\ g \o d = all

Meant == call.values # <<>> /\ ReadableRecord(call.values)

RInv == Meant => /\ pc \in {"begin", "run", "done"}
                 /\ pc = "begin" => got = <<>>
                 /\ pc = "run" => Owed(stack, got, LeavesOf(call.values))
                 /\ pc = "done" => got = LeavesOf(call.values)

(* The values that the frame at the top owes. *)
AtHand(vs, more, rest) ==
    /\ vs \in Seq(Value) /\ more \in Seq(Value) /\ rest \in Stored
    /\ Owing(Outer, rest) /\ Owes(Top, vs, more)
    /\ got \o (LeavesOf(vs) \o (LeavesOf(more) \o rest)) = LeavesOf(call.values)

LEMMA StoredConcat ==
    /\ <<>> \in Stored /\ \A s, t \in Stored : s \o t \in Stored
    /\ \A s \in Stored : s \o <<>> = s /\ <<>> \o s = s
    /\ \A s, t, u \in Stored : (s \o t) \o u = s \o (t \o u)
BY SeqConcat DEF Stored

LEMMA LeavesOfFacts ==
    /\ LeavesOf(<<>>) = <<>>
    /\ \A vs \in Seq(Value) : LeavesOf(vs) \in Stored
    /\ \A v \in Value, vs \in Seq(Value) : LeavesOf(<<v>> \o vs) = Leaves[v] \o LeavesOf(vs)
    /\ \A vs \in Seq(Value) : vs # <<>> => /\ LeavesOf(vs) = Leaves[Head(vs)] \o LeavesOf(Tail(vs))
                                           /\ Leaves[Head(vs)] \in Stored
<1>1. Leaves \in [Value -> Stored]
  BY LeavesEquation
<1> HIDE DEF Leaves
<1>2. /\ LeavesOf(<<>>) = <<>>
      /\ \A vs \in Seq(Value) : LeavesOf(vs) \in Stored
      /\ \A v \in Value, vs \in Seq(Value) : LeavesOf(<<v>> \o vs) = Leaves[v] \o LeavesOf(vs)
  BY <1>1, LeavesInFacts DEF LeavesOf
<1>3. ASSUME NEW vs \in Seq(Value), vs # <<>>
      PROVE  /\ LeavesOf(vs) = Leaves[Head(vs)] \o LeavesOf(Tail(vs))
             /\ Leaves[Head(vs)] \in Stored
  <2>1. Head(vs) \in Value /\ Tail(vs) \in Seq(Value)
    BY <1>3, HeadTail
  <2>2. vs = <<Head(vs)>> \o Tail(vs)
    BY <1>3
  <2>3. LeavesOf(<<Head(vs)>> \o Tail(vs)) = Leaves[Head(vs)] \o LeavesOf(Tail(vs))
    BY <1>2, <2>1
  <2> QED BY <1>1, <2>1, <2>2, <2>3
<1> QED BY <1>2, <1>3

LEMMA AtHandExists ==
    ASSUME IInv, RInv, Meant, pc = "run"
    PROVE  \E vs, more, rest : AtHand(vs, more, rest)
<1>1. stack \in Seq(Frames) /\ stack # <<>>
  BY DEF IInv
<1>2. PICK d : Owing(stack, d) /\ got \o d = LeavesOf(call.values)
  BY DEF RInv, Owed
<1>3. PICK rest \in Stored : Owing(Outer, rest) /\ OnTop(Top, rest, d)
  BY <1>1, <1>2, OwingTop
<1>4. PICK vs \in Seq(Value), more \in Seq(Value) :
         Owes(Top, vs, more) /\ d = LeavesOf(vs) \o (LeavesOf(more) \o rest)
  BY <1>3 DEF OnTop
<1>5. AtHand(vs, more, rest)
  BY <1>2, <1>3, <1>4 DEF AtHand
<1> QED BY <1>5

(* A frame on those below it. *)
LEMMA OwedWith ==
    ASSUME NEW s \in Seq(Frame), NEW fr \in Frame, NEW rest \in Stored, Owing(s, rest),
           NEW vs \in Seq(Value), NEW more \in Seq(Value), Owes(fr, vs, more),
           NEW d, d = LeavesOf(vs) \o (LeavesOf(more) \o rest)
    PROVE  d \in Stored /\ Owing(Append(s, fr), d)
<1>1. LeavesOf(vs) \in Stored /\ LeavesOf(more) \in Stored
  BY LeavesOfFacts
<1>2. d \in Stored
  <2>1. LeavesOf(more) \o rest \in Stored
    BY <1>1, StoredConcat
  <2> QED BY <1>1, <2>1, StoredConcat
<1>3. OnTop(fr, rest, d)
  BY DEF OnTop
<1> QED BY <1>2, <1>3, OwingPush

LEMMA AtHandTop ==
    ASSUME IInv, pc = "run"
    PROVE  /\ stack \in Seq(Frames) /\ stack # <<>> /\ Top \in Frames /\ Top \in Frame
           /\ Outer \in Seq(Frame) /\ got \in Stored
<1>1. stack \in Seq(Frames) /\ stack # <<>> /\ stack[1].what = "record" /\ got \in Stored
  BY DEF IInv, Stored
<1>2. Top \in Frames /\ Outer \in Seq(Frames) /\ Frames \subseteq Frame
  BY <1>1, TopFacts DEF Frames
<1>3. Outer \in Seq(Frame)
  BY <1>2
<1> QED BY <1>1, <1>2, <1>3

(* What Scan finds for the field at hand. *)
LEMMA AtHandRead ==
    ASSUME IInv, NEW vs, NEW more, NEW rest, AtHand(vs, more, rest),
           NEW kind, kind # "from", NextIs(kind)
    PROVE  LET v == Head(vs)
           IN  /\ vs # <<>> /\ v \in Value /\ Tail(vs) \in Seq(Value)
               /\ f = v.type /\ v.type.kind = kind /\ Readable[v]
               /\ InRange /\ r.ok /\ r.res = IF v.of = "null" THEN <<>> ELSE Written[v]
               /\ r.read = Len(TextIn(Top.what)[v])
               /\ r.read \in Nat /\ (r.read = 0 <=> v.of = "null")
<1>1. pc = "run" /\ Top.left # <<>> /\ f = Head(Top.left) /\ f.kind = kind
  BY HeadFacts
<1>2. Top \in Frame
  BY <1>1, AtHandTop
<1>3. vs \in Seq(Value) /\ more \in Seq(Value) /\ Owes(Top, vs, more) /\ Head(Top.left).kind # "from"
  BY <1>1 DEF AtHand, f
<1> DEFINE v == Head(vs)
           x == TextIn(Top.what)[v]
<1>4. /\ vs # <<>> /\ v \in Value /\ Tail(vs) \in Seq(Value) /\ v.type = Head(Top.left)
      /\ Readable[v]
      /\ Top.cur < Len(Top.src)
      /\ Read(Rest(Top), Close) = [res |-> IF v.of = "null" THEN <<>> ELSE Written[v],
                                   read |-> Len(x), ok |-> TRUE]
      /\ Len(x) \in Nat /\ (Len(x) = 0 <=> v.of = "null")
  BY <1>1, <1>2, <1>3, OwesHead
<1> HIDE DEF x, v
<1>5. r = Read(Rest(Top), Close)
  BY DEF r, Rest
<1> QED BY <1>1, <1>4, <1>5 DEF InRange, v, x

(* What is owed behind the first value. *)
Later(vs, more, rest) == LeavesOf(Tail(vs)) \o (LeavesOf(more) \o rest)

LEMMA AtHandRest ==
    ASSUME IInv, pc = "run", NEW vs, NEW more, NEW rest, AtHand(vs, more, rest), vs # <<>>
    PROVE  /\ Later(vs, more, rest) \in Stored /\ Leaves[Head(vs)] \in Stored
           /\ got \o (Leaves[Head(vs)] \o Later(vs, more, rest)) = LeavesOf(call.values)
<1>1. /\ vs \in Seq(Value) /\ more \in Seq(Value) /\ rest \in Stored /\ Tail(vs) \in Seq(Value)
      /\ got \o (LeavesOf(vs) \o (LeavesOf(more) \o rest)) = LeavesOf(call.values)
  BY HeadTail DEF AtHand
<1> DEFINE a == Leaves[Head(vs)]
           b == LeavesOf(Tail(vs))
           c == LeavesOf(more)
           all == LeavesOf(vs)
<1>2. a \in Stored /\ b \in Stored /\ c \in Stored /\ all = a \o b
  BY <1>1, LeavesOfFacts
<1> HIDE DEF a, b, c, all
<1>3. c \o rest \in Stored
  BY <1>1, <1>2, StoredConcat, Zenon
<1>4. b \o (c \o rest) \in Stored
  BY <1>2, <1>3, StoredConcat, Zenon
<1>5. (a \o b) \o (c \o rest) = a \o (b \o (c \o rest))
  BY <1>2, <1>3, StoredConcat, Zenon
<1>6. got \o ((a \o b) \o (c \o rest)) = LeavesOf(call.values)
  BY <1>1, <1>2 DEF c, all
<1>7. Later(vs, more, rest) = b \o (c \o rest)
  BY DEF Later, b, c
<1> QED BY <1>2, <1>4, <1>5, <1>6, <1>7 DEF a

(* The cursor passes the value at hand. *)
LEMMA AtHandPast ==
    ASSUME IInv, NEW vs, NEW more, NEW rest, AtHand(vs, more, rest),
           NEW kind, kind # "from", NextIs(kind), NEW n,
           \/ n = r.read /\ Head(vs).of # "array"
           \/ n = r.read + 1 /\ Head(vs).of \in {"array", "null"}
    PROVE  Past(n) \in Frame /\ Owing(Append(Outer, Past(n)), Later(vs, more, rest))
<1>1. /\ vs # <<>> /\ Tail(vs) \in Seq(Value) /\ n \in Nat
      /\ r.read = Len(TextIn(Top.what)[Head(vs)])
  BY AtHandRead
<1>2. /\ pc = "run" /\ Top.left # <<>> /\ Head(Top.left).kind # "from"
      /\ Tail(Top.left) \in Seq(Todo)
  BY HeadFacts DEF f
<1>3. Top \in Frame /\ Outer \in Seq(Frame)
  BY <1>2, AtHandTop
<1>4. vs \in Seq(Value) /\ more \in Seq(Value) /\ rest \in Stored
      /\ Owing(Outer, rest) /\ Owes(Top, vs, more)
  BY DEF AtHand
<1>5. Past(n) = MovedTo(Top, n, Tail(Top.left))
  BY DEF Past, Moved, MovedTo
<1>6. Past(n) \in Frame
  BY <1>1, <1>2, <1>3, <1>5, MovedFacts
<1>7. Owes(Past(n), Tail(vs), more)
  BY <1>1, <1>2, <1>3, <1>4, <1>5, OwesMoved
<1>8. Owing(Append(Outer, Past(n)), LeavesOf(Tail(vs)) \o (LeavesOf(more) \o rest))
  BY <1>1, <1>3, <1>4, <1>6, <1>7, OwedWith
<1> QED BY <1>6, <1>8 DEF Later

(* A field is stored. *)
LEMMA OwedStored ==
    ASSUME IInv, NEW vs, NEW more, NEW rest, AtHand(vs, more, rest),
           NEW kind, kind # "from", NextIs(kind), Head(vs).of # "array",
           NEW t \in Bytes \cup {Null}, Leaves[Head(vs)] = <<t>>, Store(t, r.read)
    PROVE  Owed(stack', got', LeavesOf(call.values))
<1> DEFINE d == Later(vs, more, rest)
<1>1. vs # <<>> /\ pc = "run"
  BY AtHandRead, HeadFacts
<1>2. d \in Stored /\ got \o (<<t>> \o d) = LeavesOf(call.values) /\ got \in Stored
  <2>2. d \in Stored /\ got \o (Leaves[Head(vs)] \o d) = LeavesOf(call.values)
    BY <1>1, AtHandRest
  <2>3. got \in Stored
    BY <1>1, AtHandTop
  <2> QED BY <2>2, <2>3
<1>3. Owing(Append(Outer, Past(r.read)), d)
  BY AtHandPast
<1>4. stack' = Append(Outer, Past(r.read)) /\ got' = Append(got, t)
  BY DEF Store
<1> HIDE DEF d
<1>5. PICK one \in Stored : one = <<t>>
  <2>1. <<t>> \in Stored
    BY DEF Stored
  <2> QED BY <2>1
<1>6. Append(got, t) = got \o one
  BY <1>2, <1>5, AppendIsConcat DEF Stored
<1>7. (got \o one) \o d = got \o (one \o d)
  BY <1>2, StoredConcat, Zenon
<1>8. got' \o d = LeavesOf(call.values)
  BY <1>2, <1>4, <1>5, <1>6, <1>7
<1> QED BY <1>2, <1>3, <1>4, <1>8 DEF Owed

(* The text of a field is scanned by a call or a loop. *)
LEMMA OwedEntered ==
    ASSUME IInv, NEW vs, NEW more, NEW rest, AtHand(vs, more, rest),
           NEW kind, kind # "from", NextIs(kind), NEW n,
           \/ n = r.read /\ Head(vs).of # "array"
           \/ n = r.read + 1 /\ Head(vs).of \in {"array", "null"},
           NEW y \in Frame, NEW us \in Seq(Value), NEW ws \in Seq(Value), Owes(y, us, ws),
           Leaves[Head(vs)] = LeavesOf(us) \o LeavesOf(ws),
           stack' = Append(Append(Outer, Past(n)), y), got' = got
    PROVE  Owed(stack', got', LeavesOf(call.values))
<1> DEFINE d == Later(vs, more, rest)
           a == LeavesOf(us)
           b == LeavesOf(ws)
           all == a \o (b \o d)
<1>1. vs # <<>> /\ pc = "run"
  BY AtHandRead, HeadFacts
<1>2. d \in Stored /\ got \o ((a \o b) \o d) = LeavesOf(call.values) /\ Outer \in Seq(Frame)
  <2>1. Leaves[Head(vs)] = a \o b
    OBVIOUS
  <2>2. d \in Stored /\ got \o (Leaves[Head(vs)] \o d) = LeavesOf(call.values)
    BY <1>1, AtHandRest
  <2>3. Outer \in Seq(Frame)
    BY <1>1, AtHandTop
  <2> QED BY <2>1, <2>2, <2>3
<1>3. Past(n) \in Frame /\ Owing(Append(Outer, Past(n)), d)
  BY AtHandPast
<1>4. Append(Outer, Past(n)) \in Seq(Frame)
  BY <1>2, <1>3, AppendProperties
<1>5. a \in Stored /\ b \in Stored
  BY LeavesOfFacts
<1>6. all \in Stored /\ Owing(Append(Append(Outer, Past(n)), y), all)
  <2> HIDE DEF d, all
  <2>1. all = LeavesOf(us) \o (LeavesOf(ws) \o d)
    BY DEF all, a, b
  <2> QED BY <1>2, <1>3, <1>4, <2>1, OwedWith
<1>7. (a \o b) \o d = all
  <2> HIDE DEF a, b, d
  <2> QED BY <1>2, <1>5, StoredConcat, Zenon DEF all
<1> HIDE DEF a, b, d, all
<1>8. got' \o all = LeavesOf(call.values)
  BY <1>2, <1>7
<1> QED BY <1>6, <1>8 DEF Owed

LEMMA Regrouped ==
    ASSUME NEW a \in Stored, NEW b \in Stored, NEW d \in Stored
    PROVE  (a \o b) \o d = a \o (b \o d)
BY StoredConcat, Zenon

(* What is left to do is put differently. *)
LEMMA OwedGoesOn ==
    ASSUME IInv, pc = "run", NEW vs, NEW more, NEW rest, AtHand(vs, more, rest),
           NEW x \in Frame, NEW us \in Seq(Value), NEW ws \in Seq(Value), Owes(x, us, ws),
           LeavesOf(us) \o LeavesOf(ws) = LeavesOf(vs) \o LeavesOf(more),
           stack' = Append(Outer, x), got' = got
    PROVE  Owed(stack', got', LeavesOf(call.values))
<1>1. /\ vs \in Seq(Value) /\ more \in Seq(Value) /\ rest \in Stored /\ Owing(Outer, rest)
      /\ got \o (LeavesOf(vs) \o (LeavesOf(more) \o rest)) = LeavesOf(call.values)
  BY DEF AtHand
<1>2. Outer \in Seq(Frame)
  BY AtHandTop
<1> DEFINE d == LeavesOf(us) \o (LeavesOf(ws) \o rest)
<1>3. d \in Stored /\ Owing(Append(Outer, x), d)
  BY <1>1, <1>2, OwedWith
<1>4. d = LeavesOf(vs) \o (LeavesOf(more) \o rest)
  <2>1. /\ LeavesOf(us) \in Stored /\ LeavesOf(ws) \in Stored
        /\ LeavesOf(vs) \in Stored /\ LeavesOf(more) \in Stored
    <3>1. more \in Seq(Value)  BY DEF AtHand
    <3> QED  BY <1>1, <3>1, LeavesOfFacts
  <2>2. PICK p, q, u, t : /\ p = LeavesOf(us) /\ q = LeavesOf(ws)
                          /\ u = LeavesOf(vs) /\ t = LeavesOf(more)
    OBVIOUS
  <2>3. p \in Stored /\ q \in Stored /\ u \in Stored /\ t \in Stored /\ rest \in Stored
    BY <1>1, <2>1, <2>2
  <2>4. (p \o q) \o rest = p \o (q \o rest) /\ (u \o t) \o rest = u \o (t \o rest)
    <3>1. (p \o q) \o rest = p \o (q \o rest)  BY ONLY <2>3, Regrouped, SMTT(30)
    <3>2. (u \o t) \o rest = u \o (t \o rest)  BY ONLY <2>3, Regrouped, SMTT(30)
    <3> QED  BY <3>1, <3>2
  <2>5. p \o q = u \o t  BY <2>2
  <2> QED  BY <2>2, <2>4, <2>5
<1> HIDE DEF d
<1>5. got' \o d = LeavesOf(call.values)
  BY <1>1, <1>4
<1> QED BY <1>3, <1>5 DEF Owed

-----------------------------------------------------------------------------
(***************************************************************************)
(* What a value of each kind of type is.                                   *)
(***************************************************************************)
LEMMA LeafValue ==
    ASSUME NEW v \in Value, Readable[v], v.type.kind \in {"text", "int", "bool", "hand"}
    PROVE  /\ v.of \in {"null", "leaf"}
           /\ v.of = "leaf" => /\ Written[v] \in Bytes /\ Leaves[v] = <<Written[v]>>
                               /\ v.type.kind = "int" => IsInt(Written[v])
                               /\ v.type.kind = "bool" => IsBool(Written[v])
           /\ v.of = "null" => \/ v.type.kind = "text" /\ Leaves[v] = <<<<>>>>
                               \/ v.type.kind = "hand" /\ Leaves[v] = <<Null>>
           /\ v.type.kind = "hand" => v.type.ok
<1>1. Form(v) = v.of
  BY DEF Form
<1>2. v.of \in {"null", "leaf"}
  BY <1>1, ValueAssumption
<1>3. ReadableBy(Readable, v)
  BY ReadableEquation
<1>4. /\ v.of = "leaf" => Leaves[v] = <<v.text>> /\ Written[v] = v.text
      /\ v.of = "null" => Leaves[v] = IF v.type.kind = "text" THEN <<<<>>>>
                                      ELSE IF v.type.kind = "slice" THEN <<>> ELSE <<Null>>
  BY <1>1, LeavesEquation, WrittenEquation DEF LeavesBy, WrittenBy
<1>5. v.of = "leaf" => /\ v.text \in Bytes
                       /\ v.type.kind = "int" => IsInt(v.text)
                       /\ v.type.kind = "bool" => IsBool(v.text)
  BY <1>1, ValueAssumption
<1>6. /\ v.type.kind = "hand" => v.type.ok
      /\ v.type.kind \in {"int", "bool"} => v.of # "null"
  BY <1>3 DEF ReadableBy
<1> HIDE DEF Leaves, Written, Readable
<1>7. v.of = "leaf" => /\ Written[v] \in Bytes /\ Leaves[v] = <<Written[v]>>
                       /\ v.type.kind = "int" => IsInt(Written[v])
                       /\ v.type.kind = "bool" => IsBool(Written[v])
  BY <1>4, <1>5
<1>8. v.of = "null" => \/ v.type.kind = "text" /\ Leaves[v] = <<<<>>>>
                       \/ v.type.kind = "hand" /\ Leaves[v] = <<Null>>
  BY <1>4, <1>6
<1>9. v.type.kind = "hand" => v.type.ok
  BY <1>6, Zenon
<1> QED BY <1>2, <1>7, <1>8, <1>9, Zenon

LEMMA StructValue ==
    ASSUME NEW v \in Value, Readable[v], v.type.kind = "struct"
    PROVE  /\ v.of \in {"null", "record"}
           /\ v.of = "record" => /\ v.in \in Seq(Value) /\ v.type.fields = Types(v.in)
                                 /\ Written[v] = PgRecord(Outs(v.in)) /\ ReadableRecord(v.in)
                                 /\ Leaves[v] = LeavesOf(v.in)
           /\ v.of = "null" => Leaves[v] = <<Null>>
<1>1. Form(v) = v.of
  BY DEF Form
<1>2. v.of \in {"null", "record"}
  BY <1>1, ValueAssumption
<1>3. ReadableBy(Readable, v)
  BY ReadableEquation
<1>4. v.of = "null" => Leaves[v] = <<Null>>
  BY <1>1, LeavesEquation DEF LeavesBy
<1>5. ASSUME v.of = "record"
      PROVE  /\ v.in \in Seq(Value) /\ v.type.fields = Types(v.in)
             /\ Written[v] = PgRecord(Outs(v.in)) /\ ReadableRecord(v.in)
             /\ Leaves[v] = LeavesOf(v.in)
  <2>1. v.in \in Seq(Value) /\ v.type.fields = Types(v.in)
    BY <1>1, <1>5, ValueFacts, ValueAssumption
  <2>2. Written[v] = PgRecord(Outs(v.in))
    <3>1. Written[v] = WrittenBy(Written, v)
      BY WrittenEquation
    <3> HIDE DEF Written
    <3> QED BY <1>1, <1>5, <3>1 DEF WrittenBy, Outs
  <2>3. ReadableRecord(v.in)
    BY <1>1, <1>3, <1>5 DEF ReadableBy, ReadableRecord
  <2>4. Leaves[v] = LeavesOf(v.in)
    <3>1. Leaves[v] = LeavesBy(Leaves, v)
      BY LeavesEquation
    <3> HIDE DEF Leaves
    <3> QED BY <1>1, <1>5, <3>1 DEF LeavesBy, LeavesOf
  <2> QED BY <2>1, <2>2, <2>3, <2>4
<1> QED BY <1>2, <1>4, <1>5

LEMMA SliceValue ==
    ASSUME NEW v \in Value, Readable[v], v.type.kind = "slice"
    PROVE  /\ v.of \in {"null", "array"}
           /\ v.of = "array" => /\ v.in \in Seq(Value)
                                /\ Written[v] = PgArray([k \in DOMAIN v.in |-> Written[v.in[k]]])
                                /\ \A k \in DOMAIN v.in : /\ Element(v.in[k])
                                                          /\ v.in[k].type = v.type.elem
                                /\ Leaves[v] = LeavesOf(v.in)
           /\ v.of = "null" => Leaves[v] = <<>>
<1>1. Form(v) = v.of
  BY DEF Form
<1>2. v.of \in {"null", "array"}
  BY <1>1, ValueAssumption
<1>3. ReadableBy(Readable, v)
  BY ReadableEquation
<1>4. v.of = "null" => Leaves[v] = <<>>
  BY <1>1, LeavesEquation DEF LeavesBy
<1>5. ASSUME v.of = "array"
      PROVE  /\ v.in \in Seq(Value)
             /\ Written[v] = PgArray([k \in DOMAIN v.in |-> Written[v.in[k]]])
             /\ \A k \in DOMAIN v.in : Element(v.in[k]) /\ v.in[k].type = v.type.elem
             /\ Leaves[v] = LeavesOf(v.in)
  <2>1. /\ v.in \in Seq(Value)
        /\ \A k \in DOMAIN v.in : v.in[k].type = v.type.elem /\ v.in[k].of # "null"
    BY <1>1, <1>5, ValueFacts, ValueAssumption
  <2>2. Written[v] = PgArray([k \in DOMAIN v.in |-> Written[v.in[k]]])
    <3>1. Written[v] = WrittenBy(Written, v)
      BY WrittenEquation
    <3> HIDE DEF Written
    <3> QED BY <1>1, <1>5, <3>1 DEF WrittenBy
  <2>3. \A k \in DOMAIN v.in : /\ Readable[v.in[k]] /\ v.in[k].of # "array"
                               /\ Head(PgElement(Written[v.in[k]])) = Quote
    BY <1>1, <1>3, <1>5 DEF ReadableBy
  <2>4. Leaves[v] = LeavesOf(v.in)
    <3>1. Leaves[v] = LeavesBy(Leaves, v)
      BY LeavesEquation
    <3> HIDE DEF Leaves
    <3> QED BY <1>1, <1>5, <3>1 DEF LeavesBy, LeavesOf
  <2> QED BY <2>1, <2>2, <2>3, <2>4 DEF Element
<1> QED BY <1>2, <1>4, <1>5

(***************************************************************************)
(* The steps.                                                              *)
(***************************************************************************)
LEMMA LeafRead ==
    ASSUME IInv, NEW vs, NEW more, NEW rest, AtHand(vs, more, rest),
           NEW kind \in {"text", "int", "bool", "hand"}, NextIs(kind)
    PROVE  /\ pc = "run" /\ InRange /\ r.ok /\ Head(vs).of # "array" /\ r.res \in Bytes
           /\ kind # "hand" => Leaves[Head(vs)] = <<r.res>>
           /\ kind = "hand" => /\ f.ok
                               /\ r.read = 0 => Leaves[Head(vs)] = <<Null>>
                               /\ r.read > 0 => Leaves[Head(vs)] = <<r.res>>
           /\ kind = "int" => IsInt(r.res)
           /\ kind = "bool" => IsBool(r.res)
<1> DEFINE v == Head(vs)
           n == r.read
           s == r.res
<1>1. /\ v \in Value /\ f = v.type /\ v.type.kind = kind /\ Readable[v]
      /\ InRange /\ r.ok /\ s = IF v.of = "null" THEN <<>> ELSE Written[v]
      /\ n \in Nat /\ (n = 0 <=> v.of = "null")
  BY AtHandRead
<1>2. pc = "run"
  BY HeadFacts
<1> HIDE DEF v, n, s
<1>3. /\ v.of \in {"null", "leaf"}
      /\ v.of = "leaf" => /\ Written[v] \in Bytes /\ Leaves[v] = <<Written[v]>>
                          /\ v.type.kind = "int" => IsInt(Written[v])
                          /\ v.type.kind = "bool" => IsBool(Written[v])
      /\ v.of = "null" => \/ v.type.kind = "text" /\ Leaves[v] = <<<<>>>>
                          \/ v.type.kind = "hand" /\ Leaves[v] = <<Null>>
      /\ v.type.kind = "hand" => v.type.ok
  BY <1>1, LeafValue
<1>4. CASE v.of = "null"
  <2>1. s = <<>> /\ n = 0 /\ s \in Bytes
    BY <1>1, <1>4, BytesOf
  <2>2. kind # "hand" => kind = "text" /\ Leaves[v] = <<s>>
    BY <1>1, <1>3, <1>4, <2>1
  <2>3. kind = "hand" => Leaves[v] = <<Null>>
    BY <1>1, <1>3, <1>4
  <2>4. ~(n > 0)
    BY <2>1
  <2>5. kind = "hand" => f.ok
    BY <1>1, <1>3, Zenon
  <2>6. v.of # "array"
    BY <1>4
  <2> HIDE DEF Leaves
  <2>7. kind # "int" /\ kind # "bool"
    BY <2>2
  <2> QED BY <1>1, <1>2, <2>1, <2>2, <2>3, <2>4, <2>5, <2>6, <2>7, Zenon DEF v, n, s
<1>5. CASE v.of = "leaf"
  <2>1. s = Written[v] /\ n # 0 /\ s \in Bytes
    BY <1>1, <1>3, <1>5
  <2>2. Leaves[v] = <<s>>
    BY <1>3, <1>5, <2>1
  <2>3. (kind = "int" => IsInt(s)) /\ (kind = "bool" => IsBool(s))
    BY <1>1, <1>3, <1>5, <2>1
  <2>5. kind = "hand" => f.ok
    BY <1>1, <1>3, Zenon
  <2>6. v.of # "array"
    BY <1>5
  <2> HIDE DEF Leaves
  <2> QED BY <1>1, <1>2, <2>1, <2>2, <2>3, <2>5, <2>6, Zenon DEF v, n, s
<1> QED BY <1>3, <1>4, <1>5

LEMMA StoringSteps ==
    ASSUME IInv, RInv, Meant, ReadText \/ ReadInt \/ ReadBool \/ Skip \/ ScanByHand
    PROVE  pc = "run" /\ pc' = pc /\ Owed(stack', got', LeavesOf(call.values))
<1>0. \E kind \in {"text", "int", "bool", "struct", "hand"} : NextIs(kind)
  BY DEF ReadText, ReadInt, ReadBool, Skip, ScanByHand
<1>1. pc = "run"
  BY <1>0, HeadFacts
<1>2. PICK vs, more, rest : AtHand(vs, more, rest)
  BY <1>1, AtHandExists
<1>3. ASSUME NEW kind \in {"text", "int", "bool", "hand"}, NextIs(kind),
             Leaves[Head(vs)] = <<r.res>>, Store(r.res, r.read)
      PROVE  pc' = pc /\ Owed(stack', got', LeavesOf(call.values))
  <2>1. r.res \in Bytes \cup {Null} /\ Head(vs).of # "array"
    BY <1>2, <1>3, LeafRead
  <2>2. pc' = pc
    BY <1>3 DEF Store
  <2> QED BY <1>2, <1>3, <2>1, <2>2, OwedStored
<1>4. CASE ReadText
  <2>1. NextIs("text") /\ Store(r.res, r.read)
    BY <1>4 DEF ReadText
  <2>2. Leaves[Head(vs)] = <<r.res>>
    BY <1>2, <2>1, LeafRead
  <2> QED BY <1>1, <1>3, <2>1, <2>2
<1>5. CASE ReadInt
  <2>1. NextIs("int") /\ Store(r.res, r.read)
    BY <1>5 DEF ReadInt
  <2>2. Leaves[Head(vs)] = <<r.res>>
    BY <1>2, <2>1, LeafRead
  <2> QED BY <1>1, <1>3, <2>1, <2>2
<1>6. CASE ReadBool
  <2>1. NextIs("bool") /\ Store(r.res, r.read)
    BY <1>6 DEF ReadBool
  <2>2. Leaves[Head(vs)] = <<r.res>>
    BY <1>2, <2>1, LeafRead
  <2> QED BY <1>1, <1>3, <2>1, <2>2
<1>7. CASE ScanByHand
  <2>1. NextIs("hand") /\ r.read > 0 /\ (Store(r.res, r.read) \/ ~f.ok)
    BY <1>7 DEF ScanByHand
  <2>2. Leaves[Head(vs)] = <<r.res>> /\ f.ok
    BY <1>2, <2>1, LeafRead
  <2> QED BY <1>1, <1>3, <2>1, <2>2
<1>8. CASE Skip
  <2>1. PICK kind \in {"struct", "hand"} : NextIs(kind)
    BY <1>8 DEF Skip
  <2>2. r.read = 0 /\ Store(Null, r.read)
    BY <1>8 DEF Skip
  <2>3. Head(vs).of # "array" /\ Leaves[Head(vs)] = <<Null>>
    <3>1. CASE kind = "hand"
      BY <1>2, <2>1, <2>2, <3>1, LeafRead
    <3>2. CASE kind = "struct"
      <4>1. /\ Head(vs) \in Value /\ Readable[Head(vs)] /\ Head(vs).type.kind = "struct"
            /\ Head(vs).of = "null"
        BY <1>2, <2>1, <2>2, <3>2, AtHandRead
      <4> QED BY <4>1, StructValue
    <3> QED BY <3>1, <3>2
  <2>4. Null \in Bytes \cup {Null} /\ kind # "from" /\ pc' = pc
    BY <2>2 DEF Store
  <2> QED BY <1>1, <1>2, <2>1, <2>2, <2>3, <2>4, OwedStored
<1> QED BY <1>4, <1>5, <1>6, <1>7, <1>8

LEMMA EnteringSteps ==
    ASSUME IInv, RInv, Meant, ScanStruct \/ ScanSlice
    PROVE  pc = "run" /\ pc' = pc /\ Owed(stack', got', LeavesOf(call.values))
<1>0. \E kind \in {"struct", "slice"} : NextIs(kind)
  BY DEF ScanStruct, ScanSlice
<1>1. pc = "run" /\ pc' = pc /\ got' = got
  BY <1>0, HeadFacts DEF ScanStruct, ScanSlice
<1>2. PICK vs, more, rest : AtHand(vs, more, rest)
  BY <1>1, AtHandExists
<1> DEFINE v == Head(vs)
<1>3. <<>> \in Seq(Value) /\ LeavesOf(<<>>) = <<>>
  BY LeavesOfFacts
<1>4. CASE ScanStruct
  <2>1. /\ NextIs("struct") /\ r.read > 0
        /\ stack' = Append(Append(Outer, Past(r.read)), Record(Inner(r.res).res, f.fields))
    BY <1>4 DEF ScanStruct
  <2>2. /\ v \in Value /\ f = v.type /\ v.type.kind = "struct" /\ Readable[v]
        /\ r.res = IF v.of = "null" THEN <<>> ELSE Written[v]
        /\ r.read \in Nat /\ (r.read = 0 <=> v.of = "null")
    BY <1>2, <2>1, AtHandRead
  <2> HIDE DEF v
  <2>3. v.of = "record"
    BY <2>1, <2>2, StructValue
  <2>4. /\ v.in \in Seq(Value) /\ v.type.fields = Types(v.in)
        /\ Written[v] = PgRecord(Outs(v.in)) /\ ReadableRecord(v.in)
        /\ Leaves[v] = LeavesOf(v.in)
    BY <2>2, <2>3, StructValue
  <2> DEFINE s == PgRecord(Outs(v.in))
             y == Record(s, Types(v.in))
  <2>5. s \in Bytes /\ Opens(s) /\ Inner(s).res = s /\ Owes(y, v.in, <<>>)
    BY <2>4, NewRecordOwes
  <2>6. y \in Frame
    <3>1. Types(v.in) \in Seq(Field)
      BY <2>4, TypesFacts
    <3> HIDE DEF s
    <3>2. Record(s, Types(v.in)) \in Frames
      BY <2>5, <3>1, OpensFacts, NewRecord
    <3> QED BY <3>2 DEF Frames
  <2>7. r.res = s
    BY <2>2, <2>3, <2>4
  <2> HIDE DEF s
  <2>8. Record(Inner(r.res).res, f.fields) = y
    BY <2>2, <2>4, <2>5, <2>7
  <2> HIDE DEF y
  <2>9. Leaves[v] = LeavesOf(v.in) \o LeavesOf(<<>>)
    BY <1>3, <2>4, LeavesOfFacts, StoredConcat
  <2>10. stack' = Append(Append(Outer, Past(r.read)), y)
    BY <2>1, <2>8
  <2>11. v.of # "array" /\ "struct" # "from"
    BY <2>3
  <2>12. Owed(stack', got', LeavesOf(call.values))
    <3>1. Leaves[Head(vs)] = LeavesOf(v.in) \o LeavesOf(<<>>) /\ Head(vs).of # "array"
      BY <2>9, <2>11 DEF v
    <3> HIDE DEF Leaves
    <3> QED BY <1>1, <1>2, <1>3, <2>1, <2>4, <2>5, <2>6, <2>10, <2>11, <3>1, OwedEntered
  <2> QED BY <1>1, <2>12
<1>5. CASE ScanSlice
  <2>1. /\ NextIs("slice")
        /\ stack' = Append(Append(Outer, Past(r.read + 1)), Array(r.res, f.elem))
    BY <1>5 DEF ScanSlice
  <2>2. /\ v \in Value /\ f = v.type /\ v.type.kind = "slice" /\ Readable[v]
        /\ r.res = IF v.of = "null" THEN <<>> ELSE Written[v]
    BY <1>2, <2>1, AtHandRead
  <2>3. f.elem \in Field
    BY <2>1, HeadFacts, FieldAssumption
  <2> HIDE DEF v
  <2>4. v.of \in {"null", "array"}
    BY <2>2, SliceValue
  <2> DEFINE y == Array(r.res, f.elem)
  <2>5. y \in Frame
    <3>1. r.res \in Bytes
      BY <2>2, BytesOf, WrittenEquation
    <3>2. y \in Frames
      BY <2>3, <3>1, NewArray
    <3> QED BY <3>2 DEF Frames
  <2>6. PICK ws \in Seq(Value) : Owes(y, <<>>, ws) /\ Leaves[v] = LeavesOf(ws)
    <3>1. CASE v.of = "null"
      <4>1. r.res = <<>> /\ Leaves[v] = LeavesOf(<<>>)
        BY <1>3, <2>2, <3>1, SliceValue
      <4>2. Owes(y, <<>>, <<>>)
        BY <2>3, <4>1, NullArrayOwes
      <4> QED BY <1>3, <4>1, <4>2
    <3>2. CASE v.of = "array"
      <4>1. /\ v.in \in Seq(Value)
            /\ Written[v] = PgArray([k \in DOMAIN v.in |-> Written[v.in[k]]])
            /\ \A k \in DOMAIN v.in : Element(v.in[k]) /\ v.in[k].type = f.elem
            /\ Leaves[v] = LeavesOf(v.in)
        BY <2>2, <3>2, SliceValue
      <4>2. Owes(Array(PgArray([k \in DOMAIN v.in |-> Written[v.in[k]]]), f.elem), <<>>, v.in)
        BY <2>3, <4>1, NewArrayOwes
      <4>3. r.res = PgArray([k \in DOMAIN v.in |-> Written[v.in[k]]])
        BY <2>2, <3>2, <4>1
      <4>4. Owes(y, <<>>, v.in)
        BY <4>2, <4>3
      <4> QED BY <4>1, <4>4
    <3> QED BY <2>4, <3>1, <3>2
  <2> HIDE DEF y
  <2>7. Leaves[v] = LeavesOf(<<>>) \o LeavesOf(ws)
    BY <1>3, <2>6, LeavesOfFacts, StoredConcat
  <2>8. stack' = Append(Append(Outer, Past(r.read + 1)), y)
    BY <2>1 DEF y
  <2>9. Owed(stack', got', LeavesOf(call.values))
    <3>1. Leaves[Head(vs)] = LeavesOf(<<>>) \o LeavesOf(ws) /\ Head(vs).of \in {"array", "null"}
      BY <2>4, <2>7 DEF v
    <3>2. "slice" # "from"
      OBVIOUS
    <3> HIDE DEF Leaves
    <3> QED BY <1>1, <1>2, <1>3, <2>1, <2>5, <2>6, <2>8, <3>1, <3>2, OwedEntered
  <2> QED BY <1>1, <2>9
<1> QED BY <1>4, <1>5

LEMMA TurnOwed ==
    ASSUME IInv, RInv, Meant, Turn
    PROVE  pc = "run" /\ pc' = pc /\ Owed(stack', got', LeavesOf(call.values))
<1>1. /\ pc = "run" /\ Top.what = "array" /\ Top.left = <<>> /\ UNCHANGED <<call, got, pc>>
      /\ stack' = IF Top.cur + 1 < Len(Top.src) - 1 THEN Append(Outer, Moved(1, Top.of)) ELSE Outer
  BY DEF Turn
<1>2. PICK vs, more, rest : AtHand(vs, more, rest)
  BY <1>1, AtHandExists
<1>3. /\ vs \in Seq(Value) /\ more \in Seq(Value) /\ rest \in Stored
      /\ Owing(Outer, rest) /\ Owes(Top, vs, more)
      /\ got \o (LeavesOf(vs) \o (LeavesOf(more) \o rest)) = LeavesOf(call.values)
  BY <1>2 DEF AtHand
<1>4. Top \in Frames /\ Top \in Frame
  BY <1>1, AtHandTop
<1>5. Len(Top.of) = 1 /\ Top.of \in Seq(Field)
  BY <1>1, <1>4, FrameFacts DEF Frames, Sound
<1>6. /\ vs = <<>>
      /\ more = <<>> => ~(Top.cur + 1 < Len(Top.src) - 1)
      /\ more # <<>> => /\ Top.cur + 1 < Len(Top.src) - 1
                        /\ Head(more) \in Value /\ Tail(more) \in Seq(Value)
                        /\ Owes(MovedTo(Top, 1, Top.of), <<Head(more)>>, Tail(more))
  BY <1>1, <1>3, <1>4, <1>5, OwesTurn
<1>7. CASE more = <<>>
  <2>1. stack' = Outer
    BY <1>1, <1>6, <1>7
  <2>2. LeavesOf(vs) \o (LeavesOf(more) \o rest) = rest
    <3>1. LeavesOf(vs) = <<>> /\ LeavesOf(more) = <<>>
      BY <1>6, <1>7, LeavesOfFacts
    <3>2. <<>> \o rest = rest
      BY <1>3, StoredConcat
    <3> QED BY <3>1, <3>2
  <2>3. got' \o rest = LeavesOf(call.values)
    BY <1>1, <1>3, <2>2
  <2> QED BY <1>1, <1>3, <2>1, <2>3 DEF Owed
<1>8. CASE more # <<>>
  <2> DEFINE x == MovedTo(Top, 1, Top.of)
  <2>1. stack' = Append(Outer, x) /\ got' = got
    BY <1>1, <1>6, <1>8 DEF Moved, MovedTo
  <2>2. x \in Frame
    <3>1. Top.of \in Seq(Todo) /\ 1 \in Nat
      BY <1>5 DEF Todo
    <3> QED BY <1>4, <3>1, MovedFacts
  <2>3. PICK one \in Seq(Value) : one = <<Head(more)>>
    <3>1. <<Head(more)>> \in Seq(Value)
      BY <1>6, <1>8
    <3> QED BY <3>1
  <2> HIDE DEF x
  <2>4. Owes(x, one, Tail(more)) /\ Tail(more) \in Seq(Value)
    BY <1>6, <1>8, <2>3 DEF x
  <2>5. LeavesOf(one) \o LeavesOf(Tail(more)) = LeavesOf(vs) \o LeavesOf(more)
    <3>1. LeavesOf(one) = Leaves[Head(more)]
      <4>1. one = <<Head(more)>> \o <<>> /\ <<>> \in Seq(Value)
        BY <2>3, SeqConcat
      <4>2. LeavesOf(one) = Leaves[Head(more)] \o LeavesOf(<<>>)
        BY <1>6, <1>8, <4>1, LeavesOfFacts
      <4>3. Leaves[Head(more)] \in Stored
        BY <1>3, <1>8, LeavesOfFacts
      <4> QED BY <4>2, <4>3, LeavesOfFacts, StoredConcat
    <3>2. LeavesOf(more) = Leaves[Head(more)] \o LeavesOf(Tail(more)) /\ LeavesOf(more) \in Stored
      BY <1>3, <1>8, LeavesOfFacts
    <3>3. LeavesOf(vs) \o LeavesOf(more) = LeavesOf(more)
      BY <1>6, <3>2, LeavesOfFacts, StoredConcat
    <3> QED BY <3>1, <3>2, <3>3
  <2>6. Owed(stack', got', LeavesOf(call.values))
    BY <1>1, <1>2, <2>1, <2>2, <2>4, <2>5, OwedGoesOn
  <2> QED BY <1>1, <2>6
<1> QED BY <1>7, <1>8

(* A pointer, a POD, and the call of a FromPOD. *)
LEMMA AtHandOther ==
    ASSUME IInv, NEW vs, NEW more, NEW rest, AtHand(vs, more, rest),
           NEW kind \in {"ptr", "pod"}, NextIs(kind), NEW left \in Seq(Todo),
           \/ left = <<f.to>> \o Tail(Top.left)
           \/ \E u \in Todo : /\ u.kind = "from" /\ u.ok
                              /\ left = <<f.to>> \o (<<u>> \o Tail(Top.left)),
           stack' = Append(Outer, Moved(0, left)), got' = got
    PROVE  Owed(stack', got', LeavesOf(call.values))
<1> DEFINE v == Head(vs)
           us == <<v.to>> \o Tail(vs)
           x == MovedTo(Top, 0, left)
<1>1. /\ pc = "run" /\ Top.left # <<>> /\ Head(Top.left) = f /\ f.kind = kind
      /\ Tail(Top.left) \in Seq(Todo)
  BY HeadFacts
<1>2. Top \in Frame
  BY <1>1, AtHandTop
<1>3. vs \in Seq(Value) /\ more \in Seq(Value) /\ Owes(Top, vs, more)
  BY DEF AtHand
<1>4. /\ vs # <<>> /\ v \in Value /\ Tail(vs) \in Seq(Value) /\ v.type = f
      /\ Matches(Tail(Top.left), Tail(vs))
  BY <1>1, <1>2, <1>3, OwesHead
<1> HIDE DEF v
<1>5. Form(v) = "other"
  BY <1>1, <1>4 DEF Form
<1>6. v.to \in Value /\ v.to.type = f.to /\ Leaves[v] = Leaves[v.to]
  BY <1>4, <1>5, OtherFacts
<1>7. us \in Seq(Value) /\ us # <<>> /\ Head(us) = v.to /\ Tail(us) = Tail(vs)
  <2> DEFINE w == v.to
  <2>1. w \in Value
    BY <1>6
  <2> HIDE DEF w
  <2>2. /\ <<w>> \o Tail(vs) \in Seq(Value) /\ <<w>> \o Tail(vs) # <<>>
        /\ Head(<<w>> \o Tail(vs)) = w /\ Tail(<<w>> \o Tail(vs)) = Tail(vs)
    BY <1>4, <2>1, HeadAndRest
  <2> QED BY <2>2 DEF w
<1>8. f.to \in Field /\ f.to \in Todo /\ f.to.kind # "from"
  <2>1. f.to \in Field
    BY <1>4, <1>6, ValueFacts
  <2> QED BY <2>1, FieldAssumption DEF Todo
<1> HIDE DEF us
<1>9. Matches(left, us)
  <2> DEFINE t == f.to
             ts == Tail(Top.left)
  <2>1. t \in Todo /\ t.kind # "from" /\ ts \in Seq(Todo) /\ Head(us).type = t
    BY <1>1, <1>6, <1>7, <1>8
  <2>2. Matches(ts, Tail(us)) /\ Tail(us) \in Seq(Value)
    BY <1>4, <1>7
  <2>3. left = <<t>> \o ts \/ \E u \in Todo : u.kind = "from" /\ u.ok /\ left = <<t>> \o (<<u>> \o ts)
    OBVIOUS
  <2> HIDE DEF t, ts
  <2>4. CASE left = <<t>> \o ts
    BY <1>7, <2>1, <2>2, <2>4, MatchesHead
  <2>5. ASSUME NEW u \in Todo, u.kind = "from", u.ok, left = <<t>> \o (<<u>> \o ts)
        PROVE  Matches(left, us)
    <3>1. <<u>> \o ts \in Seq(Todo)
      BY <2>1
    <3>2. Matches(<<u>> \o ts, Tail(us)) <=> u.ok /\ Matches(ts, Tail(us))
      BY <2>1, <2>2, <2>5, MatchesHead
    <3> DEFINE uts == <<u>> \o ts
    <3>3. uts \in Seq(Todo) /\ Matches(uts, Tail(us)) /\ left = <<t>> \o uts
      BY <2>2, <2>5, <3>1, <3>2
    <3> HIDE DEF uts
    <3> QED BY <1>7, <2>1, <3>3, MatchesHead
  <2> QED BY <2>3, <2>4, <2>5
<1>10. Owes(x, us, more)
  <2>1. Matches(left, <<Head(vs).to>> \o Tail(vs)) /\ Form(Head(vs)) = "other"
    BY <1>5, <1>9 DEF us, v
  <2> QED BY <1>2, <1>3, <1>4, <2>1, OwesOn DEF us, v
<1>11. x \in Frame
  BY <1>2, RestStays
<1>12. stack' = Append(Outer, x)
  BY DEF Moved, MovedTo
<1> HIDE DEF x
<1>13. LeavesOf(us) = LeavesOf(vs)
  <2>1. LeavesOf(us) = Leaves[Head(us)] \o LeavesOf(Tail(us))
    BY <1>7, LeavesOfFacts
  <2>2. LeavesOf(vs) = Leaves[Head(vs)] \o LeavesOf(Tail(vs))
    BY <1>3, <1>4, LeavesOfFacts
  <2> HIDE DEF Leaves
  <2> QED BY <1>6, <1>7, <2>1, <2>2, Zenon DEF v
<1>14. LeavesOf(us) \o LeavesOf(more) = LeavesOf(vs) \o LeavesOf(more)
  BY <1>13
<1> QED BY <1>1, <1>3, <1>7, <1>10, <1>11, <1>12, <1>14, OwedGoesOn

LEMMA GoingOn ==
    ASSUME IInv, RInv, Meant, New \/ ScanPOD \/ FromPOD
    PROVE  pc = "run" /\ pc' = pc /\ Owed(stack', got', LeavesOf(call.values))
<1> DEFINE from == [kind |-> "from", ok |-> f.ok]
           ts == Tail(Top.left)
<1>0. \E kind \in {"ptr", "pod", "from"} : NextIs(kind)
  BY DEF New, ScanPOD, FromPOD
<1>1. pc = "run" /\ pc' = pc /\ got' = got
  BY <1>0, HeadFacts DEF New, ScanPOD, FromPOD, GoOn
<1>2. PICK vs, more, rest : AtHand(vs, more, rest)
  BY <1>1, AtHandExists
<1>3. Top.left # <<>> /\ Top.left \in Seq(Todo) /\ ts \in Seq(Todo) /\ f = Head(Top.left)
  BY <1>0, HeadFacts
<1>4. CASE New
  <2>1. NextIs("ptr") /\ stack' = Append(Outer, Moved(0, <<f.to>> \o ts))
    BY <1>4 DEF New, GoOn
  <2>2. f.to \in Todo
    BY <2>1, HeadFacts, FieldAssumption DEF Todo
  <2>3. <<f.to>> \o ts \in Seq(Todo)
    BY <1>3, <2>2
  <2> QED BY <1>1, <1>2, <2>1, <2>3, AtHandOther
<1>5. CASE ScanPOD
  <2>1. NextIs("pod") /\ stack' = Append(Outer, Moved(0, <<f.to, from>> \o ts))
    BY <1>5 DEF ScanPOD, GoOn
  <2>2. f \in Field /\ f.kind = "pod"
    BY <2>1, HeadFacts
  <2>3. f.to \in Todo /\ f.ok \in BOOLEAN
    BY <2>2, FieldAssumption DEF Todo
  <2>4. from \in Todo /\ from.kind = "from"
    BY <2>3 DEF Todo
  <2>5. from.ok
    <3>1. Readable[Head(vs)] /\ Head(vs) \in Value /\ f = Head(vs).type
      BY <1>2, <2>1, AtHandRead
    <3>2. ReadableBy(Readable, Head(vs))
      BY <3>1, ReadableEquation
    <3>3. f.ok
      BY <2>2, <3>1, <3>2, Zenon DEF ReadableBy
    <3> QED BY <3>3
  <2> HIDE DEF from, ts
  <2>6. <<f.to, from>> \o ts = <<f.to>> \o (<<from>> \o ts) /\ <<f.to, from>> \o ts \in Seq(Todo)
    <3> DEFINE to == f.to
    <3>1. to \in Todo /\ ts \in Seq(Todo) /\ from \in Todo
      BY <1>3, <2>3, <2>4 DEF ts
    <3> HIDE DEF to
    <3>2. <<to, from>> \o ts = <<to>> \o (<<from>> \o ts)
      BY <3>1, TwoAndRest
    <3>3. <<from>> \o ts \in Seq(Todo)
      BY <3>1, HeadAndRest
    <3>4. <<to>> \o (<<from>> \o ts) \in Seq(Todo)
      BY <3>1, <3>3, HeadAndRest
    <3> QED BY <3>2, <3>4 DEF to
  <2> DEFINE left == <<f.to, from>> \o ts
  <2>7. left \in Seq(Todo) /\ stack' = Append(Outer, Moved(0, left))
    BY <2>1, <2>6
  <2>8. \E u \in Todo : u.kind = "from" /\ u.ok /\ left = <<f.to>> \o (<<u>> \o ts)
    BY <2>4, <2>5, <2>6
  <2> HIDE DEF left
  <2>9. \E u \in Todo : u.kind = "from" /\ u.ok /\ left = <<f.to>> \o (<<u>> \o Tail(Top.left))
    BY <2>8 DEF ts
  <2> QED BY <1>1, <1>2, <2>1, <2>7, <2>9, AtHandOther
<1>6. CASE FromPOD
  <2>1. NextIs("from") /\ stack' = Append(Outer, Moved(0, <<>> \o ts))
    BY <1>6 DEF FromPOD, GoOn
  <2>2. <<>> \o ts = ts
    BY <1>3, PendingMoves
  <2> DEFINE x == MovedTo(Top, 0, ts)
  <2>3. stack' = Append(Outer, x)
    BY <2>1, <2>2 DEF Moved, MovedTo
  <2>4. Top \in Frame /\ vs \in Seq(Value) /\ more \in Seq(Value) /\ Owes(Top, vs, more)
    BY <1>1, <1>2, AtHandTop DEF AtHand
  <2>5. Owes(x, vs, more) /\ x \in Frame
    <3>1. Head(Top.left).kind = "from"
      BY <2>1, HeadFacts
    <3> QED BY <1>3, <2>4, <3>1, OwesFrom, RestStays
  <2> HIDE DEF x
  <2> QED BY <1>1, <1>2, <2>3, <2>4, <2>5, OwedGoesOn
<1> QED BY <1>4, <1>5, <1>6

LEMMA Returning ==
    ASSUME IInv, RInv, Meant, Return
    PROVE  \/ pc' = "run" /\ Owed(stack', got', LeavesOf(call.values))
           \/ pc' = "done" /\ got' = LeavesOf(call.values)
<1>1. /\ pc = "run" /\ Top.what = "record" /\ Top.left = <<>> /\ stack' = Outer
      /\ pc' = IF Len(stack) = 1 THEN "done" ELSE "run"
      /\ got' = got
  BY DEF Return
<1>2. PICK vs, more, rest : AtHand(vs, more, rest)
  BY <1>1, AtHandExists
<1>3. /\ vs \in Seq(Value) /\ more \in Seq(Value) /\ rest \in Stored
      /\ Owing(Outer, rest) /\ Owes(Top, vs, more)
      /\ got \o (LeavesOf(vs) \o (LeavesOf(more) \o rest)) = LeavesOf(call.values)
  BY <1>2 DEF AtHand
<1>4. Top \in Frame /\ got \in Stored
  BY <1>1, AtHandTop
<1>5. vs = <<>> /\ more = <<>>
  BY <1>1, <1>3, <1>4, OwesReturn
<1>6. LeavesOf(vs) \o (LeavesOf(more) \o rest) = rest
  <2>1. LeavesOf(vs) = <<>> /\ LeavesOf(more) = <<>>
    BY <1>5, LeavesOfFacts
  <2>2. <<>> \o rest = rest
    BY <1>3, StoredConcat
  <2> QED BY <2>1, <2>2
<1>7. got' \o rest = LeavesOf(call.values)
  BY <1>1, <1>3, <1>6
<1>8. CASE Len(stack) = 1
  <2>1. Outer = <<>>
    BY <1>1, <1>8, TopFacts DEF IInv
  <2>2. rest = <<>>
    BY <1>3, <2>1, OwingNothing
  <2>3. got \o <<>> = got
    BY <1>4, StoredConcat
  <2> QED BY <1>1, <1>7, <1>8, <2>2, <2>3
<1>9. CASE Len(stack) # 1
  BY <1>1, <1>3, <1>7, <1>9 DEF Owed
<1> QED BY <1>8, <1>9

LEMMA Beginning ==
    ASSUME IInv, RInv, Meant, Begin
    PROVE  pc' = "run" /\ Owed(stack', got', LeavesOf(call.values))
<1> DEFINE vs == call.values
           s == PgRecord(Outs(vs))
           x == Record(s, Types(vs))
<1>1. /\ pc = "begin" /\ pc' = "run" /\ got' = got
      /\ stack' = <<Record(Inner(call.source).res, call.fields)>>
  BY DEF Begin
<1>2. vs \in Seq(Value) /\ call.fields = Types(vs) /\ call.source = s
  BY CallsAssumption DEF IInv, Meant
<1>3. s \in Bytes /\ Opens(s) /\ Inner(s).res = s /\ Owes(x, vs, <<>>)
  BY <1>2, NewRecordOwes DEF Meant
<1>4. x \in Frame
  <2>1. Types(vs) \in Seq(Field)
    BY <1>2, TypesFacts
  <2> HIDE DEF s
  <2>2. x \in Frames
    BY <1>3, <2>1, OpensFacts, NewRecord
  <2> QED BY <2>2 DEF Frames
<1>5. stack' = <<x>> /\ got' = <<>>
  BY <1>1, <1>2, <1>3 DEF RInv
<1> HIDE DEF x, s, vs
<1>6. PICK below \in Seq(Frame) : below = <<>>
  <2>1. <<>> \in Seq(Frame)
    OBVIOUS
  <2> QED BY <2>1
<1>7. PICK none \in Seq(Value) : none = <<>>
  <2>1. <<>> \in Seq(Value)
    OBVIOUS
  <2> QED BY <2>1
<1>8. LeavesOf(vs) = LeavesOf(vs) \o (LeavesOf(none) \o <<>>) /\ <<>> \in Stored
  <2>1. LeavesOf(none) = <<>> /\ LeavesOf(vs) \in Stored /\ <<>> \in Stored
    BY <1>2, <1>7, LeavesOfFacts, StoredConcat
  <2>2. <<>> \o <<>> = <<>> /\ LeavesOf(vs) \o <<>> = LeavesOf(vs)
    BY <2>1, StoredConcat
  <2> QED BY <2>1, <2>2
<1>9. LeavesOf(vs) \in Stored /\ Owing(Append(below, x), LeavesOf(vs))
  <2>1. Owing(below, <<>>) /\ Owes(x, vs, none)
    BY <1>3, <1>6, <1>7, OwingNothing
  <2> QED BY <1>2, <1>4, <1>8, <2>1, OwedWith
<1>10. Append(below, x) = stack'
  BY <1>5, <1>6
<1>11. got' \o LeavesOf(vs) = LeavesOf(vs)
  BY <1>5, <1>9, StoredConcat
<1> QED BY <1>1, <1>9, <1>10, <1>11 DEF Owed, vs

(* Nothing goes wrong. *)
LEMMA NothingFails ==
    ASSUME IInv, RInv, Meant
    PROVE  ~(NotAString \/ BeginRefused \/ NothingLeft \/ ReadFails \/ IntFails \/ BoolPanics
             \/ StructRefused \/ PODFails)
<1>1. ASSUME NotAString \/ BeginRefused PROVE FALSE
  <2>1. /\ call.values \in Seq(Value) /\ ReadableRecord(call.values)
        /\ call.source = PgRecord(Outs(call.values))
    BY CallsAssumption DEF IInv, Meant
  <2>2. Opens(call.source) /\ call.source \in Bytes
    BY <2>1, NewRecordOwes
  <2>3. call.source # Null
    BY <2>2, NullAssumption
  <2> QED BY <1>1, <2>2, <2>3 DEF NotAString, BeginRefused
<1>2. ASSUME NEW kind, NextIs(kind) PROVE \E vs, more, rest : AtHand(vs, more, rest)
  BY <1>2, HeadFacts, AtHandExists
<1>3. ASSUME NEW kind, NextIs(kind), kind # "from" PROVE InRange /\ r.ok
  <2>1. PICK vs, more, rest : AtHand(vs, more, rest)
    BY <1>2, <1>3
  <2> QED BY <1>3, <2>1, AtHandRead
<1>4. ASSUME NothingLeft PROVE FALSE
  <2>1. ~InRange /\ \E kind : NextIs(kind) /\ kind # "from"
    BY <1>4 DEF NothingLeft, Reading
  <2> QED BY <1>3, <2>1
<1>5. ASSUME ReadFails PROVE FALSE
  <2>1. ~r.ok /\ \E kind : NextIs(kind) /\ kind # "from"
    BY <1>5 DEF ReadFails
  <2> QED BY <1>3, <2>1
<1>6. ASSUME IntFails PROVE FALSE
  <2>1. NextIs("int") /\ ~IsInt(r.res)
    BY <1>6 DEF IntFails
  <2>2. PICK vs, more, rest : AtHand(vs, more, rest)
    BY <1>2, <2>1
  <2> QED BY <2>1, <2>2, LeafRead
<1>7. ASSUME BoolPanics PROVE FALSE
  <2>1. NextIs("bool") /\ ~IsBool(r.res)
    BY <1>7 DEF BoolPanics
  <2>2. PICK vs, more, rest : AtHand(vs, more, rest)
    BY <1>2, <2>1
  <2> QED BY <2>1, <2>2, LeafRead
<1>8. ASSUME StructRefused PROVE FALSE
  <2>1. NextIs("struct") /\ r.read > 0 /\ ~Opens(r.res)
    BY <1>8 DEF StructRefused
  <2>2. PICK vs, more, rest : AtHand(vs, more, rest)
    BY <1>2, <2>1
  <2> DEFINE v == Head(vs)
  <2>3. /\ v \in Value /\ f = v.type /\ v.type.kind = "struct" /\ Readable[v]
        /\ r.res = IF v.of = "null" THEN <<>> ELSE Written[v]
        /\ r.read \in Nat /\ (r.read = 0 <=> v.of = "null")
    BY <2>1, <2>2, AtHandRead
  <2> HIDE DEF v
  <2>4. v.of = "record"
    BY <2>1, <2>3, StructValue
  <2>5. v.in \in Seq(Value) /\ Written[v] = PgRecord(Outs(v.in)) /\ ReadableRecord(v.in)
    BY <2>3, <2>4, StructValue
  <2>6. Opens(PgRecord(Outs(v.in)))
    BY <2>5, NewRecordOwes
  <2> QED BY <2>1, <2>3, <2>4, <2>5, <2>6
<1>9. ASSUME PODFails PROVE FALSE
  <2>1. NextIs("from") /\ ~f.ok
    BY <1>9 DEF PODFails
  <2>2. PICK vs, more, rest : AtHand(vs, more, rest)
    BY <1>2, <2>1
  <2>3. /\ Top \in Frame /\ Top.left # <<>> /\ Head(Top.left) = f /\ f.kind = "from"
    BY <2>1, HeadFacts
  <2>4. vs \in Seq(Value) /\ more \in Seq(Value) /\ Owes(Top, vs, more)
    BY <2>2 DEF AtHand
  <2>5. Head(Top.left).ok
    BY <2>3, <2>4, OwesFrom
  <2> QED BY <2>1, <2>3, <2>5
<1> QED BY <1>1, <1>4, <1>5, <1>6, <1>7, <1>8, <1>9

LEMMA RInvStep == IInv /\ RInv /\ [Next]_vars => RInv'
<1> SUFFICES ASSUME IInv, RInv, [Next]_vars PROVE RInv'
  OBVIOUS
<1>1. call' = call
  BY DEF Next, Step, Terminated, vars, NotAString, Begin, BeginRefused, NothingLeft, ReadFails, ReadText,
         ReadInt, IntFails, ReadBool, BoolPanics, Skip, ScanByHand, ScanStruct, StructRefused,
         ScanSlice, Turn, New, ScanPOD, FromPOD, PODFails, Return, Stopped, Store, GoOn, Refused
<1>2. CASE ~Meant
  BY <1>1, <1>2 DEF RInv, Meant
<1>3. CASE Meant /\ UNCHANGED vars
  BY <1>3 DEF RInv, Meant, vars
<1>4. CASE Meant /\ Step
  <2>1. \/ pc' = "run" /\ Owed(stack', got', LeavesOf(call.values))
        \/ pc' = "done" /\ got' = LeavesOf(call.values)
    <3>1. \/ Begin \/ ReadText \/ ReadInt \/ ReadBool \/ Skip \/ ScanByHand \/ ScanStruct
          \/ ScanSlice \/ Turn \/ New \/ ScanPOD \/ FromPOD \/ Return
      BY <1>4, NothingFails DEF Step
    <3> QED BY <1>4, <3>1, Beginning, StoringSteps, EnteringSteps, TurnOwed, GoingOn, Returning
  <2> QED BY <1>1, <2>1 DEF RInv, Meant
<1> QED BY <1>2, <1>3, <1>4 DEF Next, Terminated

(* A record that can be read is stored as PostgreSQL has it, through       *)
(* structs in arrays in structs and the quoting of each, and the call ends *)
(* without an error: for all types, all such values, and literals of any   *)
(* length and depth.                                                       *)
THEOREM ReadableRecordsStored == Spec => []ReadRight
<1>1. Init => RInv
  BY DEF Init, RInv
<1>2. RInv => ReadRight
  BY DEF RInv, ReadRight, Meant, Ended
<1> QED BY <1>1, <1>2, Inductive, RInvStep, PTL DEF Spec
=============================================================================
