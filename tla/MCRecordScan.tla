---------------------------- MODULE MCRecordScan ----------------------------
(***************************************************************************)
(* Records as PostgreSQL writes them, of one to three fields of every      *)
(* kind, with structs, arrays, pointers and PODs in each other.            *)
(***************************************************************************)
EXTENDS RecordScan, Example

Sets == INSTANCE FiniteSetsExt

Text(s)      == [type |-> [kind |-> "text"], of |-> "leaf", text |-> s]
Int(s)       == [type |-> [kind |-> "int"], of |-> "leaf", text |-> s]
Bool(s)      == [type |-> [kind |-> "bool"], of |-> "leaf", text |-> s]
Hand(s, ok)  == [type |-> [kind |-> "hand", ok |-> ok], of |-> "leaf", text |-> s]
Struct(vs)   == [type |-> [kind |-> "struct", fields |-> Types(vs)], of |-> "record", in |-> vs]
Slice(t, vs) == [type |-> [kind |-> "slice", elem |-> t.type], of |-> "array", in |-> vs]
Ptr(v)       == [type |-> [kind |-> "ptr", to |-> v.type], of |-> v.of, to |-> v]
Pod(v, ok)   == [type |-> [kind |-> "pod", to |-> v.type, ok |-> ok], of |-> v.of, to |-> v]
Absent(v)    == [type |-> v.type, of |-> "null"]

Letters == <<EnByte>>
Whole   == {Text(s) : s \in {<<>>, Letters, <<Quote, Comma>>, <<Close, Backslash>>, <<Open>>}}
             \cup {Int(<<d>>) : d \in Digit} \cup {Bool(<<True>>), Bool(<<False>>)}
             \cup {Hand(Letters, TRUE), Hand(<<Comma>>, TRUE), Hand(Letters, FALSE)}
Some    == {Text(Letters), Text(<<Quote, Comma>>), Int(<<True>>), Hand(Letters, TRUE)}
Structs == {Struct(<<v>>) : v \in Whole} \cup {Struct(<<v, w>>) : v, w \in Some}
Arrays  == {Slice(v, <<v>>) : v \in Whole \cup Structs}
             \cup {Slice(v, <<v, w>>) : v, w \in {x \in Whole : x.type.kind = "text"}}
             \cup {Slice(v, <<v, v>>) : v \in Some \cup Structs}
             \cup {Slice(Int(Letters), <<>>)}
Deep    == LET quoted == Text(<<Quote>>)
               array  == Slice(quoted, <<quoted, quoted>>)
           IN  {Struct(<<array, quoted>>), Struct(<<Struct(<<quoted>>)>>),
                Slice(Struct(<<array>>), <<Struct(<<array>>)>>), Ptr(array),
                Slice(Ptr(quoted), <<Ptr(quoted), Ptr(quoted)>>), Slice(array, <<array, array>>),
                Pod(Ptr(Pod(quoted, TRUE)), TRUE), Pod(array, FALSE), Pod(Struct(<<array>>), TRUE),
                Absent(array)}
All     == Whole \cup Structs \cup Arrays \cup Deep
             \cup {Absent(v) : v \in Some \cup Structs \cup {Bool(<<True>>)}}
             \cup {Ptr(v) : v \in Some} \cup {Pod(v, ok) : v \in Some, ok \in BOOLEAN}

Few     == Some \cup {Absent(Text(Letters)), Absent(Hand(Letters, TRUE)), Bool(<<True>>),
                      Struct(<<Text(<<Comma>>)>>), Ptr(Text(Letters)),
                      Slice(Text(Letters), <<Text(<<Quote>>), Text(<<>>)>>),
                      Slice(Int(Letters), <<>>)}

(* The example's types, with what a database may have for them. *)
NamedSlice(vs) == [Struct(<<Slice(Text(Letters), vs)>>) EXCEPT !.type = NamedSliceScan]
MyPod(s)       == [Struct(<<Text(s)>>) EXCEPT !.type = MyPodScan]
Kek(slice, n)  ==
    [Struct(<<slice, Pod(n, TRUE), Pod(Ptr(Pod(n, TRUE)), TRUE), Pod(Text(<<Quote>>), TRUE),
              MyPod(Letters), Struct(<<Absent(Text(Letters))>>)>>)
        EXCEPT !.type = KekScan]
Keks(ks)       == [Struct(<<Slice(ks[1], ks)>>) EXCEPT !.type = KeksScan]

Examples == {NamedSlice(<<>>), NamedSlice(<<Text(<<Quote>>), Text(<<Comma>>)>>),
             Absent(NamedSlice(<<>>)), MyPod(Letters)}
SomeKeks == {Kek(slice, Int(<<d>>)) : slice \in Examples \ {MyPod(Letters)}, d \in Digit}
ExampleRows ==
    {v.in : v \in SomeKeks \cup {Keks(<<k>>) : k \in {x \in SomeKeks : x.in[1].of = "null"}}
                 \cup {x \in Examples : x.of = "record"}}

Rows == ExampleRows \cup {<<v>> : v \in All} \cup {<<v, w>> : v \in Few, w \in All}
                    \cup {<<v, w, x>> : v, w, x \in Few}

RECURSIVE Within(_), DepthOf(_), TypesIn(_)
Within(v)  == {v} \cup UNION {Within(Parts(v)[k]) : k \in DOMAIN Parts(v)}
DepthOf(v) == Sets!Max({0} \cup {1 + DepthOf(Parts(v)[k]) : k \in DOMAIN Parts(v)})
TypesIn(t) == {t} \cup CASE t.kind = "struct" -> UNION {TypesIn(t.fields[k]) : k \in DOMAIN t.fields}
                         [] t.kind = "slice" -> TypesIn(t.elem)
                         [] t.kind \in {"ptr", "pod"} -> TypesIn(t.to)
                         [] OTHER -> {}

MCValue == UNION {Within(v) : v \in UNION {{vs[k] : k \in DOMAIN vs} : vs \in Rows}}
MCDepth == [v \in MCValue |-> DepthOf(v)]
MCField == UNION {TypesIn(v.type) : v \in MCValue}

(* Outs, one value inside the other and not over the set of all. *)
RECURSIVE Out(_)
Out(v) == LET outs == [k \in DOMAIN Parts(v) |-> Out(Parts(v)[k])]
          IN  IF v.of = "null" THEN Null
              ELSE CASE Form(v) = "other" -> outs[1]
                     [] Form(v) = "leaf" -> v.text
                     [] Form(v) = "record" -> PgRecord(outs)
                     [] Form(v) = "array" -> PgArray(outs)

Case(vs) == [fields |-> Types(vs), source |-> PgRecord([k \in DOMAIN vs |-> Out(vs[k])]), values |-> vs]

MCCalls == {Case(vs) : vs \in Rows}
             \cup {[fields |-> <<[kind |-> "text"]>>, source |-> s, values |-> <<>>] :
                      s \in {<<>>, <<Quote>>, <<Quote, Quote>>, <<Quote, Open, Close, Quote>>,
                             Letters, <<Open>>, Null}}
             \cup {[fields |-> <<SliceOf(Integer), String>>,
                    source |-> <<Open, LBrace, RBrace, Close>>, values |-> <<>>]}

-----------------------------------------------------------------------------
(* Every field gets its column (README.md:1: the generated code parses     *)
(* PostgreSQL's composite types).                                          *)
ColumnsKept == pc \in Ended => pc = "done" /\ got = LeavesOf(call.values)

ColumnCalls == {Case(vs) : vs \in ExampleRows \cup {<<v, v>> : v \in {Text(Letters), Text(<<Quote>>)}}}
=============================================================================
