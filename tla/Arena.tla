-------------------------------- MODULE Arena --------------------------------
(***************************************************************************)
(* The bump allocator that holds the syntax tree under construction        *)
(* (src/arena.go): arenas carve allocations out of chunks, abandon a chunk *)
(* for a new one when it is full, and give their chunks to a free list     *)
(* (chunkFreeList, a sync.Pool shared by all arenas) when they are freed.  *)
(*                                                                         *)
(* An address is a chunk and an offset in it.  Addresses in different      *)
(* chunks are different, and so is an address computed below a chunk's     *)
(* start.  Contents are left out.  A freed arena is not used again, and    *)
(* Realloc is given a span that its caller still holds.                    *)
(***************************************************************************)
EXTENDS Integers, Sequences, FiniteSets

CONSTANTS Arenas,     \* the arenas of the program
          Sizes,      \* the sizes, in bytes, that callers ask for
          MinChunk,   \* n: the size of a first chunk
          MaxChunks,  \* bound: chunks ever made
          MaxLive,    \* bound: allocations held at once
          NoSpan      \* nothing has been allocated yet

ASSUME SizesAssumption == Sizes \subseteq Nat
ASSUME MinChunkAssumption == MinChunk \in Nat /\ MinChunk % 8 = 0
ASSUME NoSpanAssumption == NoSpan \notin [arena: Arenas, chunk: Nat, off: Nat, len: Nat]
ASSUME BoundsAssumption == MaxChunks \in Nat /\ MaxLive \in Nat

VARIABLES size,   \* size[c]: the bytes that chunk c really has
          arena,  \* the fields of every Arena
          pool,   \* chunkFreeList
          live,   \* the spans that callers hold
          last,   \* the last span that every arena returned
          panic   \* "no", or whether the span Realloc refused was the last

vars == <<size, arena, pool, live, last, panic>>

Chunk == DOMAIN size

(* A SizedSpan[byte] of a.chunks and of the free list: a chunk with the    *)
(* length that is recorded for it.                                         *)
Recorded == [chunk: Nat, len: Nat]

Span == [arena: Arenas, chunk: Nat, off: Nat, len: Nat]

ArenaState == [data: Nat, cap: Nat, used: Nat, chunks: SUBSET Recorded, open: BOOLEAN]

(* Mutation of RoundUp: a word too much for whole words. *)
RoundPast(s) == ((s + 8) \div 8) * 8

(* (size + 7) &^ 7 *)
RoundUp(s) == ((s + 7) \div 8) * 8

Larger(a, b) == IF a < b THEN b ELSE a

(* Mutation of Fits: what is used already is forgotten. *)
FitsEmpty(a, u, s) == a.cap # 0 /\ u <= a.cap /\ RoundUp(s) < a.cap

(* The current chunk has room for s bytes after the first u.               *)
Fits(a, u, s) == a.cap # 0 /\ u <= a.cap /\ RoundUp(s) < a.cap - u

(* Place s bytes of arena x at the start of what is left of chunk c after  *)
(* off bytes; keep are the spans still held by others.                     *)
Place(x, c, cap, off, chunks, s, keep) ==
    LET span == [arena |-> x, chunk |-> c, off |-> off, len |-> s] IN
    /\ arena' = [arena EXCEPT ![x] = [data |-> c, cap |-> cap, used |-> off + RoundUp(s),
                                      chunks |-> chunks, open |-> TRUE]]
    /\ live' = keep \cup {span}
    /\ last' = [last EXCEPT ![x] = span]
    /\ UNCHANGED panic

InChunk(x, u, s, keep) ==
    LET a == arena[x] IN
    /\ Fits(a, u, s)
    /\ Place(x, a.data, a.cap, u, a.chunks, s, keep)
    /\ UNCHANGED <<size, pool>>

(* Mutation of FromPool: the chunk stays in the free list. *)
FromPoolShared(x, u, s, keep) ==
    LET a == arena[x] IN
    /\ ~Fits(a, u, s)
    /\ \E p \in pool : /\ p.len >= s
                       /\ Place(x, p.chunk, p.len, 0, a.chunks \cup {p}, s, keep)
                       /\ UNCHANGED <<size, pool>>

(* The free list has a chunk that is long enough. *)
FromPool(x, u, s, keep) ==
    LET a == arena[x] IN
    /\ ~Fits(a, u, s)
    /\ \E p \in pool : /\ p.len >= s
                       /\ pool' = pool \ {p}
                       /\ Place(x, p.chunk, p.len, 0, a.chunks \cup {p}, s, keep)
    /\ UNCHANGED size

(* Mutation of NewChunk: the chunk is recorded with twice its size. *)
NewChunkOverstated(x, u, s, keep) ==
    LET a == arena[x]
        c == Len(size) + 1
        n == Larger(Larger(2 * a.cap, RoundUp(s)), MinChunk) IN
    /\ ~Fits(a, u, s) /\ c <= MaxChunks
    /\ size' = Append(size, n)
    /\ pool' = pool
    /\ Place(x, c, n, 0, a.chunks \cup {[chunk |-> c, len |-> 2 * n]}, s, keep)

(* Another one: the chunk is not put into the list. *)
NewChunkUnlisted(x, u, s, keep) ==
    LET a == arena[x]
        c == Len(size) + 1
        n == Larger(Larger(2 * a.cap, RoundUp(s)), MinChunk) IN
    /\ ~Fits(a, u, s) /\ c <= MaxChunks
    /\ size' = Append(size, n)
    /\ pool' = pool
    /\ Place(x, c, n, 0, a.chunks, s, keep)

(* The free list is empty, or what it gives is too short and is put back   *)
(* (a sync.Pool may lose it).  The new chunk is recorded with the capacity *)
(* of the chunk before it.                                                 *)
NewChunk(x, u, s, keep) ==
    LET a == arena[x]
        c == Len(size) + 1
        n == Larger(Larger(2 * a.cap, RoundUp(s)), MinChunk) IN
    /\ ~Fits(a, u, s) /\ c <= MaxChunks
    /\ size' = Append(size, n)
    /\ pool' = pool
    /\ Place(x, c, n, 0, a.chunks \cup {[chunk |-> c, len |-> a.cap]}, s, keep)

(* allocSize *)
AllocSize(x, u, s, keep) == \/ InChunk(x, u, s, keep)
                            \/ FromPool(x, u, s, keep)
                            \/ NewChunk(x, u, s, keep)

Usable(x) == arena[x].open /\ panic = "no"

(* Alloc, Allocn, Clone and Strclone. *)
Allocn(x, s) == /\ Usable(x) /\ Cardinality(live) < MaxLive
                /\ AllocSize(x, arena[x].used, s, live)

(* Mutation of AtTop: the span may be anywhere in the current chunk. *)
InCurrentChunk(x, old) == arena[x].data = old.chunk

(* a.data+(a.used-len) is the place of the span. *)
AtTop(x, old) == /\ arena[x].data = old.chunk
                 /\ arena[x].used - old.len = old.off

(* The top of the chunk is taken back and allocated again. *)
Realloc(x, old, s) == /\ Usable(x) /\ old.len # 0 /\ AtTop(x, old)
                      /\ AllocSize(x, arena[x].used - old.len, s, live \ {old})

(* The code counts elements and the model bytes: a span of elements of no  *)
(* size is taken for an empty one.                                         *)
ReallocEmpty(x, old, s) == /\ Usable(x) /\ old.len = 0
                           /\ AllocSize(x, arena[x].used, s, live \ {old})

ReallocPanic(x, old) == /\ Usable(x) /\ old.len # 0 /\ ~AtTop(x, old)
                        /\ panic' = IF old = last[x] THEN "last" ELSE "notLast"
                        /\ UNCHANGED <<size, arena, pool, live, last>>

(* Every chunk goes to the free list under its recorded length. *)
Free(x) == /\ Usable(x)
           /\ pool' = pool \cup arena[x].chunks
           /\ arena' = [arena EXCEPT ![x].open = FALSE, ![x].chunks = {}]
           /\ live' = {s \in live : s.arena # x}
           /\ UNCHANGED <<size, last, panic>>

(* sync.Pool gives no guarantee to keep what it was given. *)
Forget == /\ \E p \in pool : pool' = pool \ {p}
          /\ UNCHANGED <<size, arena, live, last, panic>>

Init == /\ size = <<>> /\ pool = {} /\ live = {} /\ panic = "no"
        /\ arena = [x \in Arenas |-> [data |-> 0, cap |-> 0, used |-> 0,
                                      chunks |-> {}, open |-> TRUE]]
        /\ last = [x \in Arenas |-> NoSpan]

Next == \/ \E x \in Arenas, s \in Sizes : Allocn(x, s)
        \/ \E old \in live, s \in Sizes : \/ Realloc(old.arena, old, s)
                                          \/ ReallocEmpty(old.arena, old, s)
        \/ \E old \in live : ReallocPanic(old.arena, old)
        \/ \E x \in Arenas : Free(x)
        \/ Forget

Spec == Init /\ [][Next]_vars

-----------------------------------------------------------------------------
(* The state is well formed; in particular no chunk is used past its end.  *)
TypeOK == /\ size \in Seq(Nat)
          /\ arena \in [Arenas -> ArenaState]
          /\ \A x \in Arenas : arena[x].used <= arena[x].cap
          /\ pool \in SUBSET Recorded
          /\ live \in SUBSET Span
          /\ last \in [Arenas -> Span \cup {NoSpan}]
          /\ panic \in {"no", "last", "notLast"}

(* A span never reaches past the memory its chunk really has, whatever     *)
(* lengths were recorded on the chunk's way through the free list.         *)
InBounds == \A s \in live : s.chunk \in Chunk /\ s.off + s.len <= size[s.chunk]

(* Two spans in use never share a byte: not within a chunk, not after a    *)
(* Realloc, not through a chunk that another arena gave back.              *)
NoOverlap ==
    \A s, t \in live : s # t /\ s.len # 0 /\ t.len # 0 /\ s.chunk = t.chunk =>
        s.off + s.len <= t.off \/ t.off + t.len <= s.off

(* A chunk is in the hands of one arena or in the free list, once.         *)
Exclusive ==
    /\ \A x, y \in Arenas : \A p \in arena[x].chunks, q \in arena[y].chunks :
            p.chunk = q.chunk => x = y /\ p = q
    /\ \A x \in Arenas : \A p \in arena[x].chunks, q \in pool : p.chunk # q.chunk
    /\ \A p, q \in pool : p.chunk = q.chunk => p = q

(* The chunk of a span in use is in the list of its arena.  That list is   *)
(* all that keeps it: a.data is a number to the garbage collector.         *)
Rooted == \A s \in live : \E p \in arena[s.arena].chunks : p.chunk = s.chunk

(* arena.go:57: what was allocated last may be reallocated, if its length  *)
(* is of whole words, as the 512 and the doubled lengths of ReadAllFrom    *)
(* are: Realloc then finds it at the top, whatever way it got there.       *)
LastCanGrow ==
    \A s \in live : s = last[s.arena] /\ s.len % 8 = 0 => AtTop(s.arena, s)
=============================================================================
