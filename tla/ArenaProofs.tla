----------------------------- MODULE ArenaProofs -----------------------------
(***************************************************************************)
(* Theorems about Arena for any number of arenas and chunks, and any sizes *)
(* that callers may ask for.                                               *)
(***************************************************************************)
EXTENDS Arena, SequenceTheorems, TLAPS

(* A chunk is never recorded as longer than it is, in words. *)
RecordedRight(p) == /\ p.chunk \in Chunk
                    /\ p.len <= size[p.chunk]
                    /\ p.len % 8 = 0

(* The current chunk of an open arena is one of its own. *)
CurrentRight(a) ==
    /\ a.used % 8 = 0 /\ a.cap % 8 = 0
    /\ a.cap # 0 => /\ a.data \in Chunk /\ a.cap <= size[a.data]
                    /\ a.open => \E p \in a.chunks : p.chunk = a.data

Words == /\ \A p \in pool : RecordedRight(p)
         /\ \A x \in Arenas : /\ CurrentRight(arena[x])
                              /\ \A p \in arena[x].chunks : RecordedRight(p)

(* A span in use lies in a chunk of its open arena. *)
Owned == \A s \in live : /\ arena[s.arena].open
                         /\ \E p \in arena[s.arena].chunks : p.chunk = s.chunk

(* What is left of the current chunk is free. *)
TopFree == \A s \in live : s.len # 0 /\ s.chunk = arena[s.arena].data
                              => s.off + s.len <= arena[s.arena].used

(* arena.go:138, "alignment is always 8".                                  *)
Aligned == \A s \in live : s.off % 8 = 0

IInv == /\ TypeOK /\ Words /\ Owned /\ TopFree
        /\ InBounds /\ NoOverlap /\ Exclusive /\ Aligned

(* Rounding up to words neither loses bytes nor passes a multiple of one.  *)
LEMMA RoundUpFacts ==
    ASSUME NEW s \in Nat
    PROVE  /\ RoundUp(s) \in Nat /\ s <= RoundUp(s) /\ RoundUp(s) % 8 = 0
           /\ \A n \in Nat : n % 8 = 0 /\ s <= n => RoundUp(s) <= n
BY DEF RoundUp

LEMMA WordsAdd ==
    \A m, n \in Nat : m % 8 = 0 /\ n % 8 = 0 => (m + n) % 8 = 0
OBVIOUS

(* The arithmetic of a span in a chunk. *)
LEMMA NatSum == \A m, n \in Nat : m + n \in Nat
OBVIOUS

LEMMA FitsWhereRoundedFits ==
    \A o, s, r, n, m \in Nat : s <= r /\ o + r <= n /\ n <= m => o + s <= m
OBVIOUS

LEMMA SumGrows ==
    \A e, o, r \in Nat : e <= o => e <= o + r
OBVIOUS

LEMMA SizesAreNat == \A s \in Sizes : s \in Nat
BY SizesAssumption

(* Placing a span keeps the invariant, if the chunk has room for it, the   *)
(* spans kept in that chunk end before it, and the chunks of the arena are *)
(* its own.                                                                *)
LEMMA PlaceKeeps ==
    ASSUME IInv, NEW x \in Arenas, arena[x].open, NEW s \in Sizes,
           NEW keep \in SUBSET live,
           NEW c \in Nat, NEW cap \in Nat, NEW off \in Nat,
           NEW chunks \in SUBSET Recorded,
           off % 8 = 0, cap % 8 = 0, off + RoundUp(s) <= cap,
           size' \in Seq(Nat), Chunk \subseteq Chunk',
           \A k \in Chunk : size[k]' = size[k],
           c \in Chunk', cap <= size'[c],
           pool' \subseteq pool,
           arena[x].chunks \subseteq chunks,
           \A p \in chunks : RecordedRight(p)',
           \E p \in chunks : p.chunk = c,
           \A p, q \in chunks : p.chunk = q.chunk => p = q,
           \A p \in chunks, y \in Arenas \ {x} : \A q \in arena[y].chunks : p.chunk # q.chunk,
           \A p \in chunks, q \in pool' : p.chunk # q.chunk,
           \A t \in keep : t.len # 0 /\ t.chunk = c => t.off + t.len <= off,
           Place(x, c, cap, off, chunks, s, keep)
    PROVE  IInv'
<1> DEFINE new == [arena |-> x, chunk |-> c, off |-> off, len |-> s]
           mine == [data |-> c, cap |-> cap, used |-> off + RoundUp(s),
                    chunks |-> chunks, open |-> TRUE]
<1>s. /\ s \in Nat /\ RoundUp(s) \in Nat /\ s <= RoundUp(s) /\ RoundUp(s) % 8 = 0
      BY SizesAreNat, RoundUpFacts
<1>t. TypeOK  BY DEF IInv
<1>1. /\ arena' = [arena EXCEPT ![x] = mine]
      /\ live' = keep \cup {new}
      /\ last' = [last EXCEPT ![x] = new]
      /\ panic' = panic
      BY DEF Place
<1>n. new \in Span /\ new.arena = x /\ new.chunk = c /\ new.off = off /\ new.len = s
      BY <1>s DEF Span
<1>m. /\ mine \in ArenaState /\ mine.data = c /\ mine.cap = cap
      /\ mine.used = off + RoundUp(s) /\ mine.chunks = chunks /\ mine.open = TRUE
  <2>1. off + RoundUp(s) \in Nat  BY <1>s, NatSum
  <2> QED  BY <2>1 DEF ArenaState
<1> HIDE DEF new, mine
<1>2. /\ arena'[x] = mine
      /\ \A y \in Arenas \ {x} : arena'[y] = arena[y]
      /\ \A y \in Arenas : arena[y] \in ArenaState /\ arena'[y] \in ArenaState
      BY <1>t, <1>1, <1>m DEF TypeOK
<1>k. /\ \A t \in keep : t \in live /\ t \in Span
      /\ \A t \in live' : t \in keep \/ t = new
      BY <1>t, <1>1 DEF TypeOK
<1>3. TypeOK'
  <2>1. pool' \in SUBSET Recorded /\ live' \in SUBSET Span
        BY <1>t, <1>1, <1>n DEF TypeOK
  <2>2. \A y \in Arenas : arena'[y].used <= arena'[y].cap
        BY <1>2, <1>m, <1>t DEF TypeOK
  <2> QED  BY <2>1, <2>2, <1>t, <1>1, <1>m, <1>n DEF TypeOK
<1>4. Words'
  <2>1. \A p \in pool' : RecordedRight(p)'
        BY DEF IInv, Words, RecordedRight
  <2>2. ASSUME NEW y \in Arenas \ {x}
        PROVE  CurrentRight(arena[y])' /\ \A p \in arena'[y].chunks : RecordedRight(p)'
    <3>1. CurrentRight(arena[y]) /\ \A p \in arena[y].chunks : RecordedRight(p)
          BY DEF IInv, Words
    <3> QED  BY <3>1, <1>2 DEF CurrentRight, RecordedRight
  <2>3. (off + RoundUp(s)) % 8 = 0  BY <1>s, WordsAdd
  <2>4. CurrentRight(arena[x])'
        BY <2>3, <1>2, <1>m DEF CurrentRight
  <2> QED  BY <2>1, <2>2, <2>4, <1>2, <1>m DEF Words
<1>o. \A t \in keep : /\ arena[t.arena].open
                      /\ \E p \in arena[t.arena].chunks : p.chunk = t.chunk
      BY <1>k DEF IInv, Owned
<1>5. Owned'
  <2>1. ASSUME NEW t \in keep
        PROVE  arena'[t.arena].open /\ \E p \in arena'[t.arena].chunks : p.chunk = t.chunk
    <3>1. CASE t.arena = x
      <4>1. PICK p \in arena[x].chunks : p.chunk = t.chunk  BY <1>o, <3>1
      <4>2. p \in chunks  BY <4>1
      <4> QED  BY <4>1, <4>2, <3>1, <1>2, <1>m
    <3>2. CASE t.arena # x
      <4>1. arena'[t.arena] = arena[t.arena]  BY <3>2, <1>2, <1>k DEF Span
      <4> QED  BY <4>1, <1>o
    <3> QED  BY <3>1, <3>2
  <2>2. arena'[x].open /\ \E p \in arena'[x].chunks : p.chunk = c
        BY <1>2, <1>m
  <2> QED  BY <2>1, <2>2, <1>k, <1>n DEF Owned
<1>6. InBounds'
  <2>1. \A t \in keep : t.chunk \in Chunk /\ t.off + t.len <= size[t.chunk]
        BY <1>k DEF IInv, InBounds
  <2>2. size'[c] \in Nat  BY ElementOfSeq DEF Chunk
  <2>3. off + s <= size'[c]  BY <2>2, <1>s, FitsWhereRoundedFits
  <2> QED  BY <2>1, <2>3, <1>k, <1>n DEF InBounds
<1>7. TopFree'
  <2>1. ASSUME NEW t \in keep, t.len # 0, t.chunk = arena'[t.arena].data
        PROVE  t.off + t.len <= arena'[t.arena].used
    <3>1. CASE t.arena = x
      <4>1. t.off + t.len <= off  BY <2>1, <3>1, <1>2, <1>m
      <4>2. t.off + t.len \in Nat  BY <1>k, NatSum DEF Span
      <4> QED  BY <4>1, <4>2, <3>1, <1>2, <1>m, <1>s, SumGrows
    <3>2. CASE t.arena # x
          BY <2>1, <3>2, <1>2, <1>k DEF IInv, TopFree, Span
    <3> QED  BY <3>1, <3>2
  <2>2. new.off + new.len <= mine.used  BY <1>n, <1>m, <1>s
  <2> QED  BY <2>1, <2>2, <1>k, <1>2, <1>n DEF TopFree
<1>8. NoOverlap'
  <2>1. \A t, u \in keep : t # u /\ t.len # 0 /\ u.len # 0 /\ t.chunk = u.chunk =>
            t.off + t.len <= u.off \/ u.off + u.len <= t.off
        BY <1>k DEF IInv, NoOverlap
  <2> QED  BY <2>1, <1>k, <1>n DEF NoOverlap
<1>9. Exclusive'
      BY <1>2, <1>m DEF IInv, Exclusive
<1>10. Aligned'
       BY <1>k, <1>n DEF IInv, Aligned
<1> QED  BY <1>3, <1>4, <1>5, <1>6, <1>7, <1>8, <1>9, <1>10 DEF IInv

LEMMA LargerFacts ==
    \A m, n \in Nat : /\ Larger(m, n) \in Nat
                      /\ m <= Larger(m, n) /\ n <= Larger(m, n)
                      /\ m % 8 = 0 /\ n % 8 = 0 => Larger(m, n) % 8 = 0
BY DEF Larger

LEMMA DoubleFacts ==
    \A m \in Nat : 2 * m \in Nat /\ m <= 2 * m /\ (m % 8 = 0 => (2 * m) % 8 = 0)
OBVIOUS

LEMMA LeTransitive == \A k, m, n \in Nat : k <= m /\ m <= n => k <= n
OBVIOUS

LEMMA RoomLeft == \A r, n, u \in Nat : u <= n /\ r < n - u => u + r <= n
OBVIOUS

(* The chunks of an arena and those of all others, or of the free list.    *)
LEMMA ChunksApart ==
    ASSUME IInv, NEW x \in Arenas
    PROVE  /\ arena[x] \in ArenaState
           /\ \A p, q \in arena[x].chunks : p.chunk = q.chunk => p = q
           /\ \A p \in arena[x].chunks, y \in Arenas \ {x} :
                  \A q \in arena[y].chunks : p.chunk # q.chunk
           /\ \A p \in arena[x].chunks, q \in pool : p.chunk # q.chunk
           /\ CurrentRight(arena[x])
           /\ \A p \in arena[x].chunks : RecordedRight(p)
BY DEF IInv, TypeOK, Exclusive, Words

(* The three ways of allocSize.  u is where the free part of the current   *)
(* chunk begins, keep are the spans that stay in use.                      *)
LEMMA InChunkKeeps ==
    ASSUME IInv, NEW x \in Arenas, arena[x].open, NEW s \in Sizes,
           NEW keep \in SUBSET live, NEW u \in Nat, u % 8 = 0,
           arena[x].cap # 0 =>
               \A t \in keep : t.len # 0 /\ t.chunk = arena[x].data => t.off + t.len <= u,
           InChunk(x, u, s, keep)
    PROVE  IInv'
<1>1. /\ size' = size /\ pool' = pool
      /\ Fits(arena[x], u, s)
      /\ Place(x, arena[x].data, arena[x].cap, u, arena[x].chunks, s, keep)
      BY DEF InChunk
<1>2. /\ arena[x].data \in Nat /\ arena[x].cap \in Nat
      /\ arena[x].chunks \in SUBSET Recorded
      BY ChunksApart DEF ArenaState
<1>3. RoundUp(s) \in Nat  BY SizesAreNat, RoundUpFacts
<1>4. arena[x].cap # 0 /\ u + RoundUp(s) <= arena[x].cap
      BY <1>1, <1>2, <1>3, RoomLeft DEF Fits
<1>5. /\ arena[x].cap % 8 = 0
      /\ arena[x].data \in Chunk /\ arena[x].cap <= size[arena[x].data]
      /\ \E p \in arena[x].chunks : p.chunk = arena[x].data
      BY <1>4, ChunksApart DEF CurrentRight
<1>6. size' \in Seq(Nat) /\ Chunk' = Chunk
      BY <1>1 DEF IInv, TypeOK, Chunk
<1>7. \A p \in arena[x].chunks : RecordedRight(p)'
      BY <1>1, <1>6, ChunksApart DEF RecordedRight
<1>8. /\ Chunk \subseteq Chunk' /\ pool' \subseteq pool
      /\ \A k \in Chunk : size[k]' = size[k]
      /\ arena[x].data \in Chunk' /\ arena[x].cap <= size'[arena[x].data]
      BY <1>1, <1>5, <1>6
<1>9. \A p \in arena[x].chunks, q \in pool' : p.chunk # q.chunk
      BY <1>1, ChunksApart
<1>10. PICK d \in Nat, cap \in Nat, chunks \in SUBSET Recorded :
           d = arena[x].data /\ cap = arena[x].cap /\ chunks = arena[x].chunks
       BY <1>2
<1>11. /\ cap % 8 = 0 /\ u + RoundUp(s) <= cap
       /\ d \in Chunk' /\ cap <= size'[d]
       /\ arena[x].chunks \subseteq chunks
       /\ \A p \in chunks : RecordedRight(p)'
       /\ \E p \in chunks : p.chunk = d
       /\ \A p, q \in chunks : p.chunk = q.chunk => p = q
       /\ \A p \in chunks, y \in Arenas \ {x} :
              \A q \in arena[y].chunks : p.chunk # q.chunk
       /\ \A p \in chunks, q \in pool' : p.chunk # q.chunk
       /\ \A t \in keep : t.len # 0 /\ t.chunk = d => t.off + t.len <= u
       /\ Place(x, d, cap, u, chunks, s, keep)
       BY <1>1, <1>4, <1>5, <1>7, <1>8, <1>9, <1>10, ChunksApart
<1> QED  BY <1>6, <1>8, <1>11, PlaceKeeps, SMTT(60)

LEMMA FromPoolKeeps ==
    ASSUME IInv, NEW x \in Arenas, arena[x].open, NEW s \in Sizes,
           NEW keep \in SUBSET live, NEW u \in Nat,
           FromPool(x, u, s, keep)
    PROVE  IInv'
<1>1. PICK p \in pool :
          /\ p.len >= s
          /\ pool' = pool \ {p}
          /\ Place(x, p.chunk, p.len, 0, arena[x].chunks \cup {p}, s, keep)
      BY DEF FromPool
<1>2. size' = size  BY DEF FromPool
<1>3. /\ p \in Recorded /\ p.chunk \in Nat /\ p.len \in Nat
      /\ arena[x].chunks \cup {p} \in SUBSET Recorded
      BY ChunksApart DEF IInv, TypeOK, Recorded, ArenaState
<1>4. RecordedRight(p)  BY DEF IInv, Words
<1>5. p.len % 8 = 0 /\ 0 % 8 = 0 /\ 0 + RoundUp(s) <= p.len
  <2>1. RoundUp(s) \in Nat /\ RoundUp(s) <= p.len
        BY <1>1, <1>3, <1>4, SizesAreNat, RoundUpFacts DEF RecordedRight
  <2> QED  BY <2>1, <1>4 DEF RecordedRight
<1>6. /\ size' \in Seq(Nat) /\ Chunk' = Chunk
      /\ p.chunk \in Chunk /\ p.len <= size'[p.chunk]
      BY <1>2, <1>4 DEF IInv, TypeOK, Chunk, RecordedRight
<1>7. \A q \in arena[x].chunks \cup {p} : RecordedRight(q)'
      BY <1>2, <1>4, <1>6, ChunksApart DEF RecordedRight
<1>8. \A y \in Arenas : \A q \in arena[y].chunks : q.chunk # p.chunk
      BY DEF IInv, Exclusive
<1>9. \A q \in pool : q.chunk = p.chunk => q = p  BY DEF IInv, Exclusive
<1>10. \A t \in keep : t.chunk # p.chunk
  <2> SUFFICES ASSUME NEW t \in keep PROVE t.chunk # p.chunk  OBVIOUS
  <2>1. t \in Span  BY DEF IInv, TypeOK
  <2>2. PICK q \in arena[t.arena].chunks : q.chunk = t.chunk
        BY DEF IInv, Owned
  <2> QED  BY <2>1, <2>2, <1>8 DEF Span
<1>c. PICK chunks \in SUBSET Recorded : chunks = arena[x].chunks \cup {p}
      BY <1>3
<1>11. /\ pool' \subseteq pool /\ arena[x].chunks \subseteq chunks
       /\ \A q \in chunks : RecordedRight(q)'
       /\ \E q \in chunks : q.chunk = p.chunk
       /\ \A k \in Chunk : size[k]' = size[k]
       /\ \A t \in keep : t.len # 0 /\ t.chunk = p.chunk => t.off + t.len <= 0
       BY <1>1, <1>2, <1>c, <1>7, <1>10
<1>12. /\ \A q, r \in chunks : q.chunk = r.chunk => q = r
       /\ \A q \in chunks, y \in Arenas \ {x} :
              \A r \in arena[y].chunks : q.chunk # r.chunk
       /\ \A q \in chunks, r \in pool' : q.chunk # r.chunk
       BY <1>1, <1>c, <1>8, <1>9, ChunksApart
<1>o. PICK off \in Nat : off = 0  OBVIOUS
<1>13. Place(x, p.chunk, p.len, off, chunks, s, keep)  BY <1>1, <1>c, <1>o
<1>14. p.chunk \in Chunk' /\ Chunk \subseteq Chunk'  BY <1>6
<1>15. /\ off % 8 = 0 /\ off + RoundUp(s) <= p.len
       /\ \A t \in keep : t.len # 0 /\ t.chunk = p.chunk => t.off + t.len <= off
       BY <1>o, <1>5, <1>11
<1> QED  BY <1>3, <1>5, <1>6, <1>11, <1>12, <1>13, <1>14, <1>15, PlaceKeeps, SMTT(60)

LEMMA NewChunkKeeps ==
    ASSUME IInv, NEW x \in Arenas, arena[x].open, NEW s \in Sizes,
           NEW keep \in SUBSET live, NEW u \in Nat,
           NewChunk(x, u, s, keep)
    PROVE  IInv'
<1>t. /\ size \in Seq(Nat) /\ Len(size) \in Nat
      /\ arena[x].cap \in Nat /\ arena[x].cap % 8 = 0
      /\ arena[x].chunks \in SUBSET Recorded
      BY ChunksApart DEF IInv, TypeOK, ArenaState, CurrentRight
<1>r. RoundUp(s) \in Nat /\ RoundUp(s) % 8 = 0  BY SizesAreNat, RoundUpFacts
<1>c. PICK c \in Nat : c = Len(size) + 1  BY <1>t
<1>d. /\ 2 * arena[x].cap \in Nat /\ arena[x].cap <= 2 * arena[x].cap
      /\ (2 * arena[x].cap) % 8 = 0
      BY <1>t, DoubleFacts
<1>m. PICK m \in Nat : /\ m = Larger(2 * arena[x].cap, RoundUp(s)) /\ m % 8 = 0
                       /\ 2 * arena[x].cap <= m /\ RoundUp(s) <= m
      BY <1>r, <1>d, LargerFacts
<1>n. PICK n \in Nat : n = Larger(m, MinChunk) /\ n % 8 = 0 /\ m <= n
      BY <1>m, LargerFacts, MinChunkAssumption
<1>l. arena[x].cap <= n /\ RoundUp(s) <= n
  <2>1. 2 * arena[x].cap <= n /\ RoundUp(s) <= n
        BY <1>r, <1>d, <1>m, <1>n, LeTransitive
  <2> QED  BY <2>1, <1>t, <1>d, LeTransitive
<1>p. PICK p \in Recorded : p.chunk = c /\ p.len = arena[x].cap
                            /\ p = [chunk |-> c, len |-> arena[x].cap]
      BY <1>t DEF Recorded
<1>s. PICK chunks \in SUBSET Recorded : chunks = arena[x].chunks \cup {p}
      BY <1>t
<1>1. /\ size' = Append(size, n) /\ pool' = pool
      /\ Place(x, c, n, 0, chunks, s, keep)
      BY <1>c, <1>m, <1>n, <1>p, <1>s DEF NewChunk
<1>7. /\ size' \in Seq(Nat) /\ Chunk = 1..Len(size) /\ Chunk' = 1..c
      /\ \A k \in Chunk : size[k]' = size[k]
      /\ size'[c] = n
      BY <1>1, <1>t, <1>c, AppendProperties DEF Chunk
<1>8. Chunk \subseteq Chunk' /\ c \in Chunk' /\ c \notin Chunk
      BY <1>t, <1>c, <1>7
<1>9. /\ \A y \in Arenas : \A q \in arena[y].chunks : q.chunk # c
      /\ \A q \in pool : q.chunk # c
      BY <1>8 DEF IInv, Words, RecordedRight
<1>10. \A t \in keep : t.len # 0 /\ t.chunk = c => t.off + t.len <= 0
       BY <1>8 DEF IInv, InBounds
<1>11. \A q \in chunks : RecordedRight(q)'
  <2>1. RecordedRight(p)'
        BY <1>t, <1>l, <1>p, <1>7, <1>8 DEF RecordedRight
  <2>2. ASSUME NEW q \in arena[x].chunks PROVE RecordedRight(q)'
    <3>1. RecordedRight(q)  BY ChunksApart
    <3> QED  BY <3>1, <1>7, <1>8 DEF RecordedRight
  <2> QED  BY <2>1, <2>2, <1>s
<1>12. /\ \A q, r \in chunks : q.chunk = r.chunk => q = r
       /\ \A q \in chunks, y \in Arenas \ {x} :
              \A r \in arena[y].chunks : q.chunk # r.chunk
       /\ \A q \in chunks, r \in pool' : q.chunk # r.chunk
       BY <1>1, <1>p, <1>s, <1>9, ChunksApart
<1>13. /\ pool' \subseteq pool /\ arena[x].chunks \subseteq chunks
       /\ \E q \in chunks : q.chunk = c
       BY <1>1, <1>p, <1>s
<1>o. PICK off \in Nat : off = 0  OBVIOUS
<1>14. /\ off % 8 = 0 /\ off + RoundUp(s) <= n /\ n <= size'[c]
       /\ \A t \in keep : t.len # 0 /\ t.chunk = c => t.off + t.len <= off
       /\ Place(x, c, n, off, chunks, s, keep)
       BY <1>r, <1>l, <1>o, <1>1, <1>7, <1>10
<1>15. /\ size' \in Seq(Nat) /\ n % 8 = 0
       /\ \A k \in Chunk : size[k]' = size[k]
       BY <1>n, <1>7
<1>16. c \in Chunk' /\ Chunk \subseteq Chunk'  BY <1>8
<1> QED  BY <1>16, <1>11, <1>12, <1>13, <1>14, <1>15, PlaceKeeps, SMTT(60)

LEMMA AllocKeeps ==
    ASSUME IInv, NEW x \in Arenas, arena[x].open, NEW s \in Sizes,
           NEW keep \in SUBSET live, NEW u \in Nat, u % 8 = 0,
           arena[x].cap # 0 =>
               \A t \in keep : t.len # 0 /\ t.chunk = arena[x].data => t.off + t.len <= u,
           AllocSize(x, u, s, keep)
    PROVE  IInv'
BY InChunkKeeps, FromPoolKeeps, NewChunkKeeps DEF AllocSize

-----------------------------------------------------------------------------
LEMMA InvInit == Init => IInv
<1> SUFFICES ASSUME Init PROVE IInv  OBVIOUS
<1>1. TypeOK  BY DEF Init, TypeOK, ArenaState, Recorded
<1>2. Words
  <2>1. \A x \in Arenas : arena[x] = [data |-> 0, cap |-> 0, used |-> 0,
                                      chunks |-> {}, open |-> TRUE]
        BY DEF Init
  <2>2. 0 % 8 = 0  OBVIOUS
  <2> QED  BY <2>1, <2>2 DEF Init, Words, CurrentRight
<1> QED  BY <1>1, <1>2 DEF Init, IInv, Owned, TopFree, InBounds, NoOverlap,
                           Exclusive, Aligned

(* A span in the current chunk of an open arena is a span of that arena. *)
LEMMA SameArena ==
    ASSUME IInv, NEW x \in Arenas, arena[x].open, arena[x].cap # 0,
           NEW t \in live, t.chunk = arena[x].data
    PROVE  t.arena = x
<1>1. PICK p \in arena[x].chunks : p.chunk = arena[x].data
      BY ChunksApart DEF CurrentRight
<1>2. t.arena \in Arenas /\ \E q \in arena[t.arena].chunks : q.chunk = t.chunk
      BY DEF IInv, TypeOK, Span, Owned
<1> QED  BY <1>1, <1>2 DEF IInv, Exclusive

LEMMA AllocnStep ==
    ASSUME IInv, NEW x \in Arenas, NEW s \in Sizes, Allocn(x, s)
    PROVE  IInv'
<1>1. arena[x].open /\ AllocSize(x, arena[x].used, s, live)
      BY DEF Allocn, Usable
<1>2. arena[x].used \in Nat /\ arena[x].used % 8 = 0
      BY ChunksApart DEF ArenaState, CurrentRight
<1>3. PICK u \in Nat : u = arena[x].used  BY <1>2
<1>4. arena[x].cap # 0 =>
          \A t \in live : t.len # 0 /\ t.chunk = arena[x].data => t.off + t.len <= u
      BY <1>1, <1>3, SameArena DEF IInv, TopFree
<1> QED  BY <1>1, <1>2, <1>3, <1>4, AllocKeeps

LEMMA ReallocEmptyStep ==
    ASSUME IInv, NEW old \in live, NEW s \in Sizes, ReallocEmpty(old.arena, old, s)
    PROVE  IInv'
<1>1. PICK x \in Arenas : x = old.arena  BY DEF IInv, TypeOK, Span
<1>2. arena[x].open /\ AllocSize(x, arena[x].used, s, live \ {old})
      BY <1>1 DEF ReallocEmpty, Usable
<1>3. arena[x].used \in Nat /\ arena[x].used % 8 = 0
      BY ChunksApart DEF ArenaState, CurrentRight
<1>4. PICK u \in Nat : u = arena[x].used  BY <1>3
<1>5. PICK keep \in SUBSET live : keep = live \ {old}  OBVIOUS
<1>6. arena[x].cap # 0 =>
          \A t \in keep : t.len # 0 /\ t.chunk = arena[x].data => t.off + t.len <= u
      BY <1>2, <1>4, SameArena DEF IInv, TopFree
<1> QED  BY <1>2, <1>3, <1>4, <1>5, <1>6, AllocKeeps

(* What Realloc takes back is the top of the chunk, to the byte.           *)
LEMMA ReallocStep ==
    ASSUME IInv, NEW old \in live, NEW s \in Sizes, Realloc(old.arena, old, s)
    PROVE  IInv'
<1>1. PICK x \in Arenas : x = old.arena  BY DEF IInv, TypeOK, Span
<1>2. /\ arena[x].open /\ AllocSize(x, arena[x].used - old.len, s, live \ {old})
      /\ old.len # 0 /\ arena[x].data = old.chunk /\ arena[x].used - old.len = old.off
      BY <1>1 DEF Realloc, Usable, AtTop
<1>3. old.off \in Nat /\ old.len \in Nat /\ old.off % 8 = 0
      BY DEF IInv, TypeOK, Span, Aligned
<1>4. PICK u \in Nat : u = old.off  BY <1>3
<1>5. PICK keep \in SUBSET live : keep = live \ {old}  OBVIOUS
<1>6. ASSUME arena[x].cap # 0, NEW t \in keep, t.len # 0, t.chunk = arena[x].data
      PROVE  t.off + t.len <= u
  <2>1. t \in live /\ t # old /\ t.arena = x
        BY <1>2, <1>5, <1>6, SameArena
  <2>2. t.off + t.len <= arena[x].used
        BY <2>1, <1>6 DEF IInv, TopFree
  <2>3. t.off + t.len <= old.off \/ old.off + old.len <= t.off
        BY <2>1, <1>2, <1>6 DEF IInv, NoOverlap
  <2>4. /\ t.off \in Nat /\ t.len \in Nat /\ arena[x].used \in Nat
        BY <2>1, ChunksApart DEF IInv, TypeOK, Span, ArenaState
  <2>5. \A o, l, v, w, e \in Nat : v - l = o /\ o + l <= w /\ w + e <= v => e = 0
        OBVIOUS
  <2>6. ~(old.off + old.len <= t.off)
        BY <2>2, <2>4, <2>5, <1>2, <1>3, <1>6
  <2> QED  BY <2>3, <2>6, <1>4
<1> QED  BY <1>2, <1>3, <1>4, <1>5, <1>6, AllocKeeps

(* The chunks of a freed arena belong to nobody else, and its spans go.    *)
LEMMA FreeStep ==
    ASSUME IInv, NEW x \in Arenas, Free(x)
    PROVE  IInv'
<1>1. /\ pool' = pool \cup arena[x].chunks
      /\ arena' = [arena EXCEPT ![x].open = FALSE, ![x].chunks = {}]
      /\ live' = {s \in live : s.arena # x}
      /\ size' = size /\ last' = last /\ panic' = panic /\ Chunk' = Chunk
      BY DEF Free, Chunk
<1>2. /\ \A y \in Arenas : arena[y] \in ArenaState
      /\ \A y \in Arenas \ {x} : arena'[y] = arena[y]
      /\ arena'[x] = [data |-> arena[x].data, cap |-> arena[x].cap,
                      used |-> arena[x].used, chunks |-> {}, open |-> FALSE]
      BY <1>1 DEF IInv, TypeOK, ArenaState
<1>3. TypeOK'
  <2>1. pool' \in SUBSET Recorded /\ live' \in SUBSET Span
        BY <1>1, <1>2 DEF IInv, TypeOK, ArenaState
  <2>2. arena' \in [Arenas -> ArenaState]
        BY <1>1, <1>2 DEF IInv, TypeOK, ArenaState
  <2>3. \A y \in Arenas : arena'[y].used <= arena'[y].cap
        BY <1>2 DEF IInv, TypeOK
  <2> QED  BY <2>1, <2>2, <2>3, <1>1 DEF IInv, TypeOK
<1>4. Words'
  <2>1. \A p \in pool' : RecordedRight(p)'
        BY <1>1, ChunksApart DEF IInv, Words, RecordedRight
  <2>2. ASSUME NEW y \in Arenas \ {x}
        PROVE  CurrentRight(arena[y])' /\ \A p \in arena'[y].chunks : RecordedRight(p)'
    <3>1. CurrentRight(arena[y]) /\ \A p \in arena[y].chunks : RecordedRight(p)
          BY ChunksApart
    <3>2. size' = size /\ Chunk' = Chunk /\ arena'[y] = arena[y]
          BY <1>1, <1>2
    <3> QED  BY <3>1, <3>2 DEF CurrentRight, RecordedRight
  <2>3. CurrentRight(arena[x])' /\ arena'[x].chunks = {}
    <3>1. CurrentRight(arena[x])  BY ChunksApart
    <3>2. size' = size /\ Chunk' = Chunk  BY <1>1
    <3>3. /\ arena'[x].data = arena[x].data /\ arena'[x].cap = arena[x].cap
          /\ arena'[x].used = arena[x].used /\ arena'[x].chunks = {}
          BY <1>2
    <3>4. arena'[x].open = FALSE  BY <1>2
    <3> QED  BY <3>1, <3>2, <3>3, <3>4 DEF CurrentRight
  <2> QED  BY <2>1, <2>2, <2>3 DEF Words
<1>5. \A s \in live' : s \in live /\ s.arena \in Arenas \ {x}
      BY <1>1 DEF IInv, TypeOK, Span
<1>6. \A s \in live' : arena'[s.arena] = arena[s.arena]
      BY <1>2, <1>5
<1>7. Owned'
  <2>1. \A s \in live : /\ arena[s.arena].open
                        /\ \E p \in arena[s.arena].chunks : p.chunk = s.chunk
        BY DEF IInv, Owned
  <2> QED  BY <2>1, <1>5, <1>6 DEF Owned
<1>8. TopFree'
  <2>1. \A s \in live : s.len # 0 /\ s.chunk = arena[s.arena].data
                            => s.off + s.len <= arena[s.arena].used
        BY DEF IInv, TopFree
  <2> QED  BY <2>1, <1>5, <1>6 DEF TopFree
<1>9. InBounds' /\ NoOverlap' /\ Aligned'
  <2>1. InBounds /\ NoOverlap /\ Aligned  BY DEF IInv
  <2>2. size' = size /\ Chunk' = Chunk  BY <1>1
  <2>3. InBounds'  BY <2>1, <2>2, <1>5 DEF InBounds
  <2>4. NoOverlap'  BY <2>1, <1>5 DEF NoOverlap
  <2>5. Aligned'  BY <2>1, <1>5 DEF Aligned
  <2> QED  BY <2>3, <2>4, <2>5
<1>10. Exclusive'
  <2>1. Exclusive  BY DEF IInv
  <2>2. \A y \in Arenas : arena'[y].chunks = IF y = x THEN {} ELSE arena[y].chunks
        BY <1>2
  <2>3. \A p \in pool' : p \in pool \/ p \in arena[x].chunks
        BY <1>1
  <2>4. \A y, z \in Arenas : \A p \in arena'[y].chunks, q \in arena'[z].chunks :
            p.chunk = q.chunk => y = z /\ p = q
        BY <2>1, <2>2 DEF Exclusive
  <2>5. \A y \in Arenas : \A p \in arena'[y].chunks, q \in pool' : p.chunk # q.chunk
        BY <2>1, <2>2, <2>3 DEF Exclusive
  <2>6. \A p, q \in pool' : p.chunk = q.chunk => p = q
        BY <2>1, <2>3 DEF Exclusive
  <2> QED  BY <2>4, <2>5, <2>6 DEF Exclusive
<1> QED  BY <1>3, <1>4, <1>7, <1>8, <1>9, <1>10 DEF IInv

LEMMA InvStep == IInv /\ [Next]_vars => IInv'
<1> SUFFICES ASSUME IInv, [Next]_vars PROVE IInv'  OBVIOUS
<1>1. CASE \E x \in Arenas, s \in Sizes : Allocn(x, s)
      BY <1>1, AllocnStep
<1>2. CASE \E old \in live, s \in Sizes : Realloc(old.arena, old, s)
      BY <1>2, ReallocStep
<1>3. CASE \E old \in live, s \in Sizes : ReallocEmpty(old.arena, old, s)
      BY <1>3, ReallocEmptyStep
<1>4. CASE \E old \in live : ReallocPanic(old.arena, old)
  <2>1. UNCHANGED <<size, arena, pool, live, last>> /\ panic' \in {"last", "notLast"}
        BY <1>4 DEF ReallocPanic
  <2> QED  BY <2>1 DEF IInv, TypeOK, Words, RecordedRight, CurrentRight, Owned,
               TopFree, InBounds, NoOverlap, Exclusive, Aligned, Chunk
<1>5. CASE \E x \in Arenas : Free(x)
      BY <1>5, FreeStep
<1>6. CASE Forget
  <2>1. UNCHANGED <<size, arena, live, last, panic>> /\ pool' \subseteq pool
        BY <1>6 DEF Forget
  <2> QED  BY <2>1 DEF IInv, TypeOK, Words, RecordedRight, CurrentRight, Owned,
               TopFree, InBounds, NoOverlap, Exclusive, Aligned, Chunk
<1>7. CASE UNCHANGED vars
      BY <1>7 DEF vars, IInv, TypeOK, Words, RecordedRight, CurrentRight, Owned,
                  TopFree, InBounds, NoOverlap, Exclusive, Aligned, Chunk
<1> QED  BY <1>1, <1>2, <1>3, <1>4, <1>5, <1>6, <1>7 DEF Next

(* The recorded lengths, fills and spans of all arenas fit each other,     *)
(* through any sequence of calls and any chunk that the pool gives back:   *)
(* the inductive invariant that the theorems below are read off.           *)
THEOREM ArenaInvariant == Spec => []IInv
BY InvInit, InvStep, PTL DEF Spec

(* The state of every arena is well formed, and no chunk is used past its  *)
(* end.                                                                    *)
THEOREM ArenaTypeCorrect == Spec => []TypeOK
<1>1. IInv => TypeOK  BY DEF IInv
<1> QED  BY <1>1, ArenaInvariant, PTL

(* No span reaches past its chunk, although a chunk comes back from the    *)
(* free list under a length that is not its own.                           *)
THEOREM SpansInBounds == Spec => []InBounds
<1>1. IInv => InBounds  BY DEF IInv
<1> QED  BY <1>1, ArenaInvariant, PTL

(* No two spans in use share a byte, within an arena or across arenas.     *)
THEOREM SpansDisjoint == Spec => []NoOverlap
<1>1. IInv => NoOverlap  BY DEF IInv
<1> QED  BY <1>1, ArenaInvariant, PTL

(* A chunk is in one arena or in the free list, and there once.            *)
THEOREM ChunksExclusive == Spec => []Exclusive
<1>1. IInv => Exclusive  BY DEF IInv
<1> QED  BY <1>1, ArenaInvariant, PTL

(* Every span begins at a word (arena.go:138): Alloc returns it as a       *)
(* pointer to a type that may need that.                                   *)
THEOREM SpansAligned == Spec => []Aligned
<1>1. IInv => Aligned  BY DEF IInv
<1> QED  BY <1>1, ArenaInvariant, PTL

(* The chunk of every span in use is in the list of its arena.             *)
THEOREM ChunksRooted == Spec => []Rooted
<1>1. IInv => Rooted  BY DEF IInv, Owned, Rooted
<1> QED  BY <1>1, ArenaInvariant, PTL

-----------------------------------------------------------------------------
(* The last span of an open arena, rounded up, ends where the free part of *)
(* the current chunk begins.                                               *)
LastTop ==
    \A x \in Arenas : arena[x].open /\ last[x] \in Span =>
        /\ last[x].chunk = arena[x].data
        /\ last[x].off + RoundUp(last[x].len) = arena[x].used

LEMMA PlaceAtTop ==
    ASSUME TypeOK, LastTop, NEW x \in Arenas, NEW c, NEW cap, NEW off, NEW chunks,
           NEW s, NEW keep, Place(x, c, cap, off, chunks, s, keep)
    PROVE  LastTop'
<1> DEFINE span == [arena |-> x, chunk |-> c, off |-> off, len |-> s]
           mine == [data |-> c, cap |-> cap, used |-> off + RoundUp(s),
                    chunks |-> chunks, open |-> TRUE]
<1>1. /\ arena' = [arena EXCEPT ![x] = mine]
      /\ last' = [last EXCEPT ![x] = span]
      BY DEF Place
<1>2. /\ span.chunk = c /\ span.off = off /\ span.len = s
      /\ mine.data = c /\ mine.used = off + RoundUp(s)
      OBVIOUS
<1> HIDE DEF span, mine
<1>3. /\ arena'[x] = mine /\ last'[x] = span
      /\ \A y \in Arenas \ {x} : arena'[y] = arena[y] /\ last'[y] = last[y]
      BY <1>1 DEF TypeOK
<1> QED  BY <1>2, <1>3 DEF LastTop

LEMMA AllocAtTop ==
    ASSUME TypeOK, LastTop, NEW x \in Arenas, NEW u, NEW s, NEW keep,
           AllocSize(x, u, s, keep)
    PROVE  LastTop'
BY PlaceAtTop DEF AllocSize, InChunk, FromPool, NewChunk

LEMMA LastTopStep == TypeOK /\ LastTop /\ [Next]_vars => LastTop'
<1> SUFFICES ASSUME TypeOK, LastTop, [Next]_vars PROVE LastTop'  OBVIOUS
<1>1. CASE \E x \in Arenas, s \in Sizes : Allocn(x, s)
      BY <1>1, AllocAtTop DEF Allocn
<1>2. CASE \E old \in live, s \in Sizes : \/ Realloc(old.arena, old, s)
                                          \/ ReallocEmpty(old.arena, old, s)
  <2>1. PICK old \in live, s \in Sizes : \/ Realloc(old.arena, old, s)
                                         \/ ReallocEmpty(old.arena, old, s)
        BY <1>2
  <2>2. PICK x \in Arenas : x = old.arena  BY DEF TypeOK, Span
  <2> QED  BY <2>1, <2>2, AllocAtTop DEF Realloc, ReallocEmpty
<1>3. CASE (\E old \in live : ReallocPanic(old.arena, old)) \/ Forget \/ UNCHANGED vars
  <2>1. arena' = arena /\ last' = last  BY <1>3 DEF ReallocPanic, Forget, vars
  <2> QED  BY <2>1 DEF LastTop
<1>4. CASE \E x \in Arenas : Free(x)
  <2>1. PICK x \in Arenas : Free(x)  BY <1>4
  <2>2. /\ arena'[x].open = FALSE /\ last' = last
        /\ \A y \in Arenas \ {x} : arena'[y] = arena[y]
        BY <2>1 DEF Free, TypeOK, ArenaState
  <2> QED  BY <2>2 DEF LastTop
<1> QED  BY <1>1, <1>2, <1>3, <1>4 DEF Next

(* Realloc does not refuse what was allocated last, if its length is of    *)
(* whole words: ReadAllFrom, which asks for 512 bytes and doubles them,    *)
(* cannot end in the panic of arena.go:67.                                 *)
THEOREM LastSpanCanGrow == Spec => []LastCanGrow
<1>1. Init => LastTop
  <2> SUFFICES ASSUME Init PROVE LastTop  OBVIOUS
  <2>1. \A x \in Arenas : last[x] = NoSpan  BY DEF Init
  <2> QED  BY <2>1, NoSpanAssumption DEF LastTop, Span
<1>2. TypeOK /\ LastTop /\ [Next]_vars => LastTop'  BY LastTopStep
<1>3. IInv /\ LastTop => LastCanGrow
  <2> SUFFICES ASSUME IInv, LastTop, NEW s \in live, s = last[s.arena], s.len % 8 = 0
               PROVE  AtTop(s.arena, s)
      BY DEF LastCanGrow
  <2>1. s \in Span /\ s.arena \in Arenas  BY DEF IInv, TypeOK, Span
  <2>2. arena[s.arena].open  BY DEF IInv, Owned
  <2>3. /\ s.chunk = arena[s.arena].data
        /\ s.off + RoundUp(s.len) = arena[s.arena].used
        BY <2>1, <2>2 DEF LastTop
  <2>4. s.off \in Nat /\ s.len \in Nat  BY <2>1 DEF Span
  <2>5. RoundUp(s.len) = s.len  BY <2>4 DEF RoundUp
  <2> QED  BY <2>3, <2>4, <2>5 DEF AtTop
<1> QED  BY <1>1, <1>2, <1>3, ArenaTypeCorrect, ArenaInvariant, PTL DEF Spec
=============================================================================
