---------------------------- MODULE RecordValue ----------------------------
(***************************************************************************)
(* One call of the Value method that pggen generates for a struct: what    *)
(* the statements of renderValuer (src/cmd/pggen/main.go:366) do when they *)
(* run.  They write a composite literal, field after field, through a      *)
(* variable (value of a record, value2 of an array) and a builder; a       *)
(* struct without a name has a function of its own, a slice a block.       *)
(*                                                                         *)
(* A field is a record with a kind and what that kind needs:               *)
(*   text    a string, in .text                                            *)
(*   token   a number or a bool, as strconv writes it, in .text            *)
(*   nil     a pointer that is nil                                         *)
(*   ptr     a pointer to .to                                              *)
(*   pod     a type with ToPOD, which gives .to, or an error if ~.ok       *)
(*   lost    a type with a ToPOD of one result and several parameters      *)
(*   call    a type with a Value method, which gives .answer               *)
(*   anon    a struct without a name, of .fields                           *)
(*   slice   a slice or an array, of .elems                                *)
(***************************************************************************)
EXTENDS Literal

CONSTANTS Field,    \* the values, with those they are made of
          Depth,    \* of each: a value is not part of itself
          Values    \* the structs that Value is called for: their fields

Parts(g) ==
    CASE g.kind \in {"ptr", "pod"} -> <<g.to>>
      [] g.kind = "anon" -> g.fields
      [] g.kind = "slice" -> g.elems
      [] OTHER -> <<>>

(* strconv writes a number or a bool in letters, digits and the like. *)
Said(a) == CASE a.kind = "text" -> a.text \in Bytes
             [] a.kind = "token" -> a.text \in Seq(Letter) \ {<<>>}
             [] OTHER -> TRUE

ASSUME FieldAssumption ==
    \A g \in Field :
        /\ g.kind \in {"text", "token", "nil", "ptr", "pod", "lost", "call", "anon", "slice"}
        /\ Said(g)
        /\ g.kind = "pod" => g.ok \in BOOLEAN
        /\ g.kind = "call" => /\ g.answer.kind \in {"text", "token", "nil", "error", "panic"}
                              /\ Said(g.answer)
        /\ Parts(g) \in Seq(Field)

ASSUME DepthAssumption ==
    /\ Depth \in [Field -> Nat]
    /\ \A g \in Field : \A k \in DOMAIN Parts(g) : Depth[Parts(g)[k]] < Depth[g]

ASSUME ValuesAssumption == Values \subseteq Seq(Field)

VARIABLES fields,   \* of the struct at hand
          stack,    \* the function that runs, at the end, and its callers
          pc,       \* "run", or how the call ends: "done", "error", "panic"
          result    \* what it returns

vars == <<fields, stack, pc, result>>

(* A record or an array that is being written: the fields that are left,   *)
(* the variable they are written through and the builder.                  *)
Frame(what, items) ==
    [what |-> what, left |-> items, text |-> <<>>,
     out  |-> <<IF what = "record" THEN Open ELSE LBrace>>]

Top == stack[Len(stack)]
Callers == SubSeq(stack, 1, Len(stack) - 1)

(* f is the type of the field that is next. *)
NextIs(kind) == pc = "run" /\ Top.left # <<>> /\ Head(Top.left).kind = kind
f == Head(Top.left)

(* where = t, b.WriteString(where) and the comma if a field follows. *)
Wrote(frame, t) ==
    [frame EXCEPT !.text = t,
                  !.out  = @ \o t \o (IF Len(frame.left) > 1 THEN <<Comma>> ELSE <<>>),
                  !.left = Tail(@)]

Write(t) == /\ stack' = Append(Callers, Wrote(Top, t))
            /\ UNCHANGED <<fields, pc, result>>

(* The code for a pointer and for a POD goes on with another value. *)
GoOn(g) == /\ stack' = Append(Callers, [Top EXCEPT !.left = <<g>> \o Tail(@)])
           /\ UNCHANGED <<fields, pc, result>>

(* Mutation of End: the callers go on. *)
EndOne(how) == /\ pc' = how /\ stack' = Callers
               /\ UNCHANGED <<fields, result>>

(* Every caller returns the error, and a panic goes through them. *)
End(how) == /\ pc' = how /\ stack' = <<>>
            /\ UNCHANGED <<fields, result>>

WriteText  == NextIs("text") /\ Write(GoQuote(f.text))
WriteToken == NextIs("token") /\ Write(f.text)
NilPointer == NextIs("nil") /\ Write(<<>>)

Deref    == NextIs("ptr") /\ GoOn(f.to)
ToPOD    == NextIs("pod") /\ f.ok /\ GoOn(f.to)
PODFails == NextIs("pod") /\ ~f.ok /\ End("error")

(* The switch has no case for it and its block is empty: what is written   *)
(* is what the variable holds.  (Such a block in the loop over a slice does *)
(* not compile.)                                                           *)
LostPOD  == NextIs("lost") /\ Write(Top.text)

(***************************************************************************)
(* The driver.Value of a Value method: "nil" or a text, quoted by          *)
(* __intrinsic_computeStringFromDriverValuer if it is a string.            *)
(***************************************************************************)
DriverText(a) == IF a.kind = "text" THEN GoQuote(a.text) ELSE a.text

(* In a record the block declares a value of its own, and the assignment   *)
(* goes to that one: what is written is what the field before left there.  *)
CallValue == /\ NextIs("call") /\ f.answer.kind \in {"text", "token"}
             /\ Write(IF Top.what = "record" THEN Top.text ELSE DriverText(f.answer))

(* Mutation of CallFails: the error is not looked at. *)
CallFailsNot == /\ NextIs("call") /\ f.answer.kind = "error"
                /\ Write(<<>>)

CallFails == /\ NextIs("call") /\ f.answer.kind = "error"
             /\ End("error")

(* The generated Value of a slice type panics, and so does the helper when *)
(* the value is nil.                                                       *)
CallPanics == /\ NextIs("call") /\ f.answer.kind \in {"panic", "nil"}
              /\ End("panic")

Enter(kind, what, items) ==
    /\ NextIs(kind)
    /\ stack' = Append(stack, Frame(what, items))
    /\ UNCHANGED <<fields, pc, result>>

EnterAnon  == Enter("anon", "record", f.fields)
EnterSlice == Enter("slice", "array", f.elems)

Closed(frame) == Append(frame.out, IF frame.what = "record" THEN Close ELSE RBrace)

(* Mutation of Given: the record goes into its caller's as it is. *)
GivenBare(frame, to) ==
    IF frame.what = "array" /\ to.what = "array" THEN to.text ELSE Closed(frame)

(* What the caller's variable gets: a record comes back as a driver.Value; *)
(* in an array the block of a slice assigns to its own value2.             *)
Given(frame, to) ==
    CASE frame.what = "record" -> GoQuote(Closed(frame))
      [] frame.what = "array" /\ to.what = "record" -> Closed(frame)
      [] OTHER -> to.text

Leave == /\ pc = "run" /\ Top.left = <<>> /\ Len(stack) > 1
         /\ LET to == stack[Len(stack) - 1] IN
            stack' = Append(SubSeq(stack, 1, Len(stack) - 2), Wrote(to, Given(Top, to)))
         /\ UNCHANGED <<fields, pc, result>>

Return == /\ pc = "run" /\ Top.left = <<>> /\ Len(stack) = 1
          /\ result' = Closed(Top)
          /\ pc' = "done" /\ stack' = <<>>
          /\ UNCHANGED fields

Init == /\ fields \in Values
        /\ stack = <<Frame("record", fields)>>
        /\ pc = "run" /\ result = <<>>

Step == \/ WriteText \/ WriteToken \/ NilPointer \/ Deref \/ ToPOD \/ PODFails
        \/ LostPOD \/ CallValue \/ CallFails \/ CallPanics
        \/ EnterAnon \/ EnterSlice \/ Leave \/ Return

Terminated == pc # "run" /\ UNCHANGED vars

Next == Step \/ Terminated

Spec == Init /\ [][Next]_vars

-----------------------------------------------------------------------------
Items == Seq(Field)
Frames == [what : {"record", "array"}, left : Items, text : Bytes, out : Bytes]

(* The functions that run are those of the struct and of structs and       *)
(* slices in it, each called for the field that is next in its caller, and *)
(* none is left when the call has ended.                                   *)
TypeOK == /\ fields \in Items
          /\ pc \in {"run", "done", "error", "panic"}
          /\ pc = "run" <=> stack # <<>>
          /\ stack \in Seq(Frames)
          /\ \A k \in DOMAIN stack :
                 IF k = 1 THEN stack[k].what = "record"
                 ELSE /\ stack[k - 1].left # <<>>
                      /\ Head(stack[k - 1].left).kind
                            = IF stack[k].what = "record" THEN "anon" ELSE "slice"
          /\ result \in Bytes

-----------------------------------------------------------------------------
Ends == {"done", "error", "panic"}

(* The first that is not "done". *)
First(ends) ==
    IF \A k \in DOMAIN ends : ends[k] = "done" THEN "done"
    ELSE ends[CHOOSE k \in DOMAIN ends : /\ ends[k] # "done"
                                         /\ \A j \in 1 .. k - 1 : ends[j] = "done"]

(* How the call must end: as the first field that does not give a value    *)
(* says, in the order of the fields, at any depth.                         *)
FateOf(F, g) ==
    CASE g.kind = "pod" /\ ~g.ok -> "error"
      [] g.kind = "call" /\ g.answer.kind = "error" -> "error"
      [] g.kind = "call" /\ g.answer.kind \in {"nil", "panic"} -> "panic"
      [] OTHER -> First([k \in DOMAIN Parts(g) |-> F[Parts(g)[k]]])

Fate[g \in Field] == FateOf(Fate, g)

Fates(gs) == First([k \in DOMAIN gs |-> Fate[gs[k]]])

(* An error of a ToPOD or a Value method anywhere in the struct ends the   *)
(* whole call with that error, and nothing behind it is asked any more.    *)
FirstFailureWins == pc # "run" => pc = Fates(fields)

-----------------------------------------------------------------------------
(* What the code is known not to write as it should: a Value method that   *)
(* is called for a field, a ToPOD that is not called, a slice of more than *)
(* a single token, and what strconv.Quote gives a name.  A record without columns is not read.      *)
PlainOf(P, g) ==
    CASE g.kind = "text" -> ~Has(g.text, {Newline})
      [] g.kind \in {"call", "lost"} -> FALSE
      [] g.kind = "slice" -> Len(g.elems) <= 1 /\ \A k \in DOMAIN g.elems : g.elems[k].kind = "token"
      [] g.kind = "anon" -> g.fields # <<>> /\ \A k \in DOMAIN g.fields : P[g.fields[k]]
      [] OTHER -> \A k \in DOMAIN Parts(g) : P[Parts(g)[k]]

Plain[g \in Field] == PlainOf(Plain, g)

AllPlain(gs) == \A k \in DOMAIN gs : Plain[gs[k]]

(* What the reader of the record should find in a column: M says it for    *)
(* what the field is made of.                                              *)
ReadsBy(M, s, gs) ==
    LET cols == PgColumns(s)
    IN  Len(cols) = Len(gs) /\ \A k \in DOMAIN gs : cols[k] \in M[gs[k]]

MeansOf(M, g) ==
    CASE g.kind \in {"text", "token"} -> {g.text}
      [] g.kind = "nil" -> {Null}
      [] g.kind = "lost" -> {}
      [] g.kind \in {"ptr", "pod"} -> M[g.to]
      [] g.kind = "call" -> {c \in Bytes : g.answer.kind \in {"text", "token"} /\ c = g.answer.text}
      [] g.kind = "anon" -> {c \in Bytes : ReadsBy(M, c, g.fields)}
      [] g.kind = "slice" -> {c \in Bytes : c = PgArray([k \in DOMAIN g.elems |-> g.elems[k].text])}

Means[g \in Field] == MeansOf(Means, g)

Reads(s, gs) == ReadsBy(Means, s, gs)

(* Strings with quotes, commas, parentheses and backslashes in them, in    *)
(* structs in structs, behind pointers and PODs: PostgreSQL reads in the   *)
(* literal as many columns as the struct has fields and each field in its  *)
(* column.                                                                 *)
PlainRecordKept ==
    pc = "done" /\ fields # <<>> /\ AllPlain(fields) => Reads(result, fields)
=============================================================================
