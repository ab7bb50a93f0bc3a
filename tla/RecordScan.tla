----------------------------- MODULE RecordScan -----------------------------
(***************************************************************************)
(* One call of the Scan method that pggen generates for a struct or a      *)
(* slice: what the statements of renderScanner (src/cmd/pggen/main.go:605) *)
(* do when they run.  They walk a cursor through the literal of a record,  *)
(* read the next column with __intrinsic_readString and store it; a struct *)
(* is scanned from its column by a call, an array by a loop with a cursor  *)
(* of its own.                                                             *)
(*                                                                         *)
(* A field is given by its type, a record with a kind:                     *)
(*   text, int, bool   what strconv and the switch make of a column        *)
(*   struct            of .fields, named or not                            *)
(*   hand              a type with a Scan method by hand, which takes any  *)
(*                     text, or returns an error if ~.ok                   *)
(*   slice             of .elem                                            *)
(*   ptr               to .to                                              *)
(*   pod               with a FromPOD that takes .to, an error if ~.ok     *)
(*   from              the call of that FromPOD                            *)
(***************************************************************************)
EXTENDS Literal

CONSTANTS Digit, True, False,   \* bytes: digits, and what a bool is written as
          Field,                \* the types, with the types they are made of
          Value,                \* what PostgreSQL has for them, with its parts
          Depth,                \* of each: a value is not part of itself
          Calls                 \* the fields of the struct and the literal

ASSUME DigitAssumption == Digit \subseteq Letter /\ {True, False} \subseteq Letter

ASSUME FieldAssumption ==
    \A t \in Field :
        /\ t.kind \in {"text", "int", "bool", "struct", "hand", "slice", "ptr", "pod"}
        /\ t.kind = "struct" => t.fields \in Seq(Field)
        /\ t.kind = "slice" => t.elem \in Field
        /\ t.kind \in {"ptr", "pod"} => t.to \in Field
        /\ t.kind \in {"hand", "pod"} => t.ok \in BOOLEAN

(***************************************************************************)
(* A value is given with its type: behind a pointer or a POD it is the     *)
(* value .to, and else a .text, or the values .in of a record or an array. *)
(***************************************************************************)
Form(v) == IF v.type.kind \in {"ptr", "pod"} THEN "other" ELSE v.of

Parts(v) == CASE Form(v) = "other" -> <<v.to>>
              [] Form(v) \in {"record", "array"} -> v.in
              [] OTHER -> <<>>

Types(vs) == [k \in DOMAIN vs |-> vs[k].type]

(* What strconv.ParseInt takes. *)
IsInt(s)  == s # <<>> /\ \A k \in DOMAIN s : s[k] \in Digit
IsBool(s) == s \in {<<True>>, <<False>>}

ASSUME ValueAssumption ==
    \A v \in Value :
        /\ v.type \in Field /\ v.of \in {"null", "leaf", "record", "array"}
        /\ Parts(v) \in Seq(Value)
        /\ Form(v) = "other" => v.to.type = v.type.to /\ v.to.of = v.of
        /\ Form(v) = "leaf" => /\ v.type.kind \in {"text", "int", "bool", "hand"}
                               /\ v.text \in Bytes
                               /\ v.type.kind = "int" => IsInt(v.text)
                               /\ v.type.kind = "bool" => IsBool(v.text)
        /\ Form(v) = "record" => v.type.kind = "struct" /\ v.type.fields = Types(v.in)
        /\ Form(v) = "array" => /\ v.type.kind = "slice"
                                /\ \A k \in DOMAIN v.in : /\ v.in[k].type = v.type.elem
                                                          /\ v.in[k].of # "null"

ASSUME DepthAssumption ==
    /\ Depth \in [Value -> Nat]
    /\ \A v \in Value : \A k \in DOMAIN Parts(v) : Depth[Parts(v)[k]] < Depth[v]

(* What PostgreSQL writes for a value that is not null; T says it of the   *)
(* parts.                                                                  *)
OutBy(T, v) == IF v.of = "null" THEN Null ELSE T[v]

WrittenBy(T, v) ==
    CASE Form(v) = "other" -> T[v.to]
      [] Form(v) = "leaf" -> v.text
      [] Form(v) = "record" -> PgRecord([k \in DOMAIN v.in |-> OutBy(T, v.in[k])])
      [] Form(v) = "array" -> PgArray([k \in DOMAIN v.in |-> T[v.in[k]]])
      [] OTHER -> <<>>

Written[v \in Value] == WrittenBy(Written, v)

Outs(vs) == [k \in DOMAIN vs |-> OutBy(Written, vs[k])]

(* A call has the values of its literal, or none if no record is meant; the *)
(* source is Null for a null row and whatever else is not a string.         *)
ASSUME CallsAssumption ==
    /\ {c.values : c \in Calls} \subseteq Seq(Value)
    /\ \A c \in Calls :
          /\ c.fields \in Seq(Field) /\ c.source \in Bytes \cup {Null}
          /\ c.values # <<>> => c.fields = Types(c.values) /\ c.source = PgRecord(Outs(c.values))

VARIABLES call,    \* the call at hand
          stack,   \* the function or loop that runs, at the end, and those around it
          got,     \* what has been stored so far, in the order of the fields
          pc       \* "begin", "run", or how the call ends: "done", "error", "panic",
                   \* or "range" for an index that is out of range

vars == <<call, stack, got, pc>>

Top == stack[Len(stack)]
Outer == SubSeq(stack, 1, Len(stack) - 1)

(* What is left to do of the fields; in an array, of the element at hand. *)
Todo == Field \cup [kind : {"from"}, ok : BOOLEAN]

Record(src, fields) == [what |-> "record", src |-> src, cur |-> 1, left |-> fields, of |-> fields]

(* The loop of an array starts a turn with cur = cur + 1. *)
Array(src, elem) == [what |-> "array", src |-> src, cur |-> 0, left |-> <<>>, of |-> <<elem>>]

NextIs(kind) == pc = "run" /\ Top.left # <<>> /\ Head(Top.left).kind = kind
f == Head(Top.left)

(* What is behind the cursor, and what readString returns for it. *)
InRange == Top.cur < Len(Top.src)

(* Mutation of r: an element is read up to the end of its array. *)
ReadToBrace == Read(SubSeq(Top.src, Top.cur + 1, Len(Top.src)), RBrace)

r == Read(SubSeq(Top.src, Top.cur + 1, Len(Top.src)), Close)

Stopped(how) == pc' = how /\ stack' = <<>> /\ UNCHANGED <<call, got>>

(* The top moves its cursor by n and goes on with left. *)
Moved(n, left) == [Top EXCEPT !.cur = @ + n, !.left = left]

Past(n) == Moved(n, Tail(Top.left))

Store(v, n) == /\ stack' = Append(Outer, Past(n))
               /\ got' = Append(got, v)
               /\ UNCHANGED <<call, pc>>

-----------------------------------------------------------------------------
(* The prologue of every Scan: a literal that begins with a quote is read  *)
(* from its second byte on; what is left must be in parentheses.           *)
Inner(src) ==
    IF src # <<>> /\ Head(src) = Quote /\ Len(src) > 1 THEN Read(Tail(src), Null)
    ELSE [res |-> src, read |-> Len(src), ok |-> TRUE]

(* source[0] and sourceBytes[0], of nothing. *)
OutOfRange(src) == src \in {<<>>, <<Quote>>} \/ (Inner(src).ok /\ Inner(src).res = <<>>)

IsRecord(s) == s[1] = Open /\ s[Len(s)] = Close

Opens(src) == ~OutOfRange(src) /\ Inner(src).ok /\ IsRecord(Inner(src).res)

(* How Scan ends if it does not come to the fields. *)
Refused(src) == Stopped(IF OutOfRange(src) THEN "range" ELSE "error")

NotAString == /\ pc = "begin" /\ call.source = Null
              /\ Stopped("error")

Begin == /\ pc = "begin" /\ call.source # Null /\ Opens(call.source)
         /\ pc' = "run" /\ stack' = <<Record(Inner(call.source).res, call.fields)>>
         /\ UNCHANGED <<call, got>>

BeginRefused == /\ pc = "begin" /\ call.source # Null /\ ~Opens(call.source)
                /\ Refused(call.source)

-----------------------------------------------------------------------------
Reading == {"text", "int", "bool", "slice", "struct", "hand"}

(* readString looks at the first byte of nothing. *)
NothingLeft == /\ \E kind \in Reading : NextIs(kind)
               /\ ~InRange
               /\ Stopped("range")

(* Its error is returned; structs and types with a Scan ask for n = 0 first.*)
ReadFails == /\ \E kind \in {"text", "int", "bool", "slice"} : NextIs(kind)
             /\ InRange /\ ~r.ok
             /\ Stopped("error")

ReadText == /\ NextIs("text") /\ InRange /\ r.ok
            /\ Store(r.res, r.read)

(* An error of strconv.ParseInt keeps the cursor. *)
ReadInt  == /\ NextIs("int") /\ InRange /\ r.ok /\ IsInt(r.res)
            /\ Store(r.res, r.read)
IntFails == /\ NextIs("int") /\ InRange /\ r.ok /\ ~IsInt(r.res)
            /\ Stopped("error")

ReadBool   == /\ NextIs("bool") /\ InRange /\ r.ok /\ IsBool(r.res)
              /\ Store(r.res, r.read)
BoolPanics == /\ NextIs("bool") /\ InRange /\ r.ok /\ ~IsBool(r.res)
              /\ Stopped("panic")

(* Mutation of Skip: a continue, which leaves out the cur + 1 at the end of *)
(* the loop of an array.                                                   *)
SkipAgain == /\ NextIs("struct") \/ NextIs("hand")
             /\ InRange /\ r.read = 0
             /\ UNCHANGED vars

(* n = 0 is taken for a column that is not there: nothing is stored, and   *)
(* an error, which comes with n = 0, is not looked at.                     *)
Skip == /\ NextIs("struct") \/ NextIs("hand")
        /\ InRange /\ r.read = 0
        /\ Store(Null, 0)

ScanByHand == /\ NextIs("hand") /\ InRange /\ r.read > 0
              /\ IF f.ok THEN Store(r.res, r.read) ELSE Stopped("error")

(* Mutation of ScanStruct: the callee is given what is left of the record. *)
ScanStructRest ==
    /\ NextIs("struct") /\ InRange /\ r.read > 0
    /\ Opens(r.res)
    /\ stack' = Append(Append(Outer, Past(r.read)),
                       Record(SubSeq(Top.src, Top.cur + 1, Len(Top.src)), f.fields))
    /\ UNCHANGED <<call, got, pc>>

ScanStruct == /\ NextIs("struct") /\ InRange /\ r.read > 0
              /\ Opens(r.res)
              /\ stack' = Append(Append(Outer, Past(r.read)),
                                 Record(Inner(r.res).res, f.fields))
              /\ UNCHANGED <<call, got, pc>>

StructRefused == /\ NextIs("struct") /\ InRange /\ r.read > 0
                 /\ ~Opens(r.res)
                 /\ Refused(r.res)

(* Mutation of ScanSlice: one byte more is passed, as for two commas.      *)
ScanSliceTwice == /\ NextIs("slice") /\ InRange /\ r.ok
                  /\ stack' = Append(Append(Outer, Past(r.read + 2)), Array(r.res, f.elem))
                  /\ UNCHANGED <<call, got, pc>>

(* The column of a slice is passed with the comma behind it. *)
ScanSlice == /\ NextIs("slice") /\ InRange /\ r.ok
             /\ stack' = Append(Append(Outer, Past(r.read + 1)), Array(r.res, f.elem))
             /\ UNCHANGED <<call, got, pc>>

(* for cur := 1; cur < sourceLen - 1; { .. cur = cur + 1 } *)
Turn == /\ pc = "run" /\ Top.what = "array" /\ Top.left = <<>>
        /\ stack' = IF Top.cur + 1 < Len(Top.src) - 1
                    THEN Append(Outer, Moved(1, Top.of))
                    ELSE Outer
        /\ UNCHANGED <<call, got, pc>>

(* The code for a pointer and for a POD goes on with another type. *)
GoOn(types) == /\ stack' = Append(Outer, Moved(0, types \o Tail(Top.left)))
               /\ UNCHANGED <<call, got, pc>>

New      == NextIs("ptr") /\ GoOn(<<f.to>>)
ScanPOD  == NextIs("pod") /\ GoOn(<<f.to, [kind |-> "from", ok |-> f.ok]>>)
FromPOD  == NextIs("from") /\ f.ok /\ GoOn(<<>>)
PODFails == NextIs("from") /\ ~f.ok /\ Stopped("error")

Return == /\ pc = "run" /\ Top.what = "record" /\ Top.left = <<>>
          /\ stack' = Outer
          /\ pc' = IF Len(stack) = 1 THEN "done" ELSE "run"
          /\ UNCHANGED <<call, got>>

Init == /\ call \in Calls
        /\ stack = <<>> /\ got = <<>> /\ pc = "begin"

Step == \/ NotAString \/ Begin \/ BeginRefused \/ NothingLeft \/ ReadFails
        \/ ReadText \/ ReadInt \/ IntFails \/ ReadBool \/ BoolPanics
        \/ Skip \/ ScanByHand \/ ScanStruct \/ StructRefused \/ ScanSlice \/ Turn
        \/ New \/ ScanPOD \/ FromPOD \/ PODFails \/ Return

Ended == {"done", "error", "panic", "range"}

Terminated == pc \in Ended /\ UNCHANGED vars

Next == Step \/ Terminated

(* The method runs on until it returns. *)
Spec == Init /\ [][Next]_vars /\ WF_vars(Step)

-----------------------------------------------------------------------------
Frame == [what : {"record", "array"}, src : Bytes, cur : Nat, left : Seq(Todo),
          of : Seq(Field)]

(* The cursors of the records and arrays that are being read stay at most  *)
(* one byte behind their literal, the one a slice takes for its comma: a   *)
(* record ends in a parenthesis, which no field takes, and the elements of *)
(* an array may take the last byte of theirs.                              *)
TypeOK == /\ pc \in {"begin", "run"} \cup Ended
          /\ pc = "run" <=> stack # <<>>
          /\ stack \in Seq(Frame)
          /\ \A k \in DOMAIN stack :
                 IF stack[k].what = "record" THEN stack[k].cur \in 1 .. Len(stack[k].src)
                                             ELSE stack[k].cur \in 0 .. Len(stack[k].src) + 1
          /\ got \in Seq(Bytes \cup {Null})

-----------------------------------------------------------------------------
(* The records that Scan reads as it should: of one column, or with arrays *)
(* before the last one, quotes around every element of an array, and no    *)
(* array for an element.                                                   *)
AllReadable(R, vs) == \A k \in DOMAIN vs : R[vs[k]] /\ (k < Len(vs) => vs[k].of = "array")

ReadableBy(R, v) ==
    /\ v.type.kind \in {"hand", "pod"} => v.type.ok
    /\ v.type.kind \in {"int", "bool"} => v.of # "null"
    /\ Form(v) = "other" => R[v.to]
    /\ Form(v) = "record" => AllReadable(R, v.in)
    /\ Form(v) = "array" =>
          \A k \in DOMAIN v.in : /\ R[v.in[k]] /\ v.in[k].of # "array"
                                 /\ Head(PgElement(Written[v.in[k]])) = Quote

Readable[v \in Value] == ReadableBy(Readable, v)

ReadableRecord(vs) == AllReadable(Readable, vs)

(* What Scan should store for v: a null string is the empty one, and a     *)
(* null array has no elements.                                             *)
Stored == Seq(Bytes \cup {Null})

LeavesIn(L, vs) == Scanned([p \in Stored \X Value |-> p[1] \o L[p[2]]], <<>>, vs)

LeavesBy(L, v) ==
    CASE Form(v) = "other" -> L[v.to]
      [] Form(v) = "leaf" -> <<v.text>>
      [] Form(v) \in {"record", "array"} -> LeavesIn(L, v.in)
      [] Form(v) = "null" -> IF v.type.kind = "text" THEN <<<<>>>>
                             ELSE IF v.type.kind = "slice" THEN <<>> ELSE <<Null>>

Leaves[v \in Value] == LeavesBy(Leaves, v)

LeavesOf(vs) == LeavesIn(Leaves, vs)

(* Such a record is stored as it was, through structs in arrays in structs *)
(* and the quoting at each of these levels, and without an error.          *)
ReadRight ==
    pc \in Ended /\ call.values # <<>> /\ ReadableRecord(call.values) =>
        pc = "done" /\ got = LeavesOf(call.values)

-----------------------------------------------------------------------------
(* A literal that PostgreSQL writes for a record with a column for every   *)
(* field, whatever is in the columns.                                      *)
Fits(fr) == LET cols == PgColumns(fr.src)
            IN  /\ fr.what = "record" /\ Len(fr.of) <= Len(cols)
                /\ fr.src = PgRecord(cols)

(* How many columns are still to be read: the call of a FromPOD reads none.*)
Pending(left) ==
    Scanned([p \in Nat \X Todo |-> IF p[2].kind = "from" THEN p[1] ELSE p[1] + 1], 0, left)

NextField(fr) == Len(fr.of) - Pending(fr.left) + 1

(* The cursor of a record is never past the column of the field that is    *)
(* next, in the struct that Scan was called for or in one it contains:     *)
(* whatever Scan mistakes, it takes no column for an earlier field than    *)
(* its own.                                                                *)
NeverAhead ==
    \A k \in DOMAIN stack :
        Fits(stack[k]) => stack[k].cur <= Start(PgColumns(stack[k].src), NextField(stack[k]))

(* Scan looks behind the end of a literal (b[0] at main.go:55, source[0])  *)
(* only if a record has too few columns or is none, or if the column of a  *)
(* struct has nothing in it, and never in an array.                        *)
InBounds ==
    [][pc = "run" /\ pc' = "range" =>
          \/ Top.what = "record" /\ ~Fits(Top)
          \/ NextIs("struct") /\ OutOfRange(r.res)]_vars

(* In such a record n = 0, for which a struct or a Scan written by hand is *)
(* left out (main.go:753), comes without an error and passes over no       *)
(* column: either the field's own is null, or the cursor still stands      *)
(* where an earlier one ends.  In the second case the field is left out    *)
(* although its column may be there (ColumnsKept).                         *)
SkipsNoColumn ==
    [][Skip /\ Fits(Top) =>
          LET cols == PgColumns(Top.src)
              n == NextField(Top)
          IN  /\ r.ok
              /\ \/ cols[n] = Null /\ Top.cur = Start(cols, n)
                 \/ \E j \in 1 .. n - 1 : Top.cur + 1 = Start(cols, j + 1)]_vars

(* The call ends: every turn of an array's loop moves its cursor on. *)
Termination == <>(pc \in Ended)
=============================================================================
