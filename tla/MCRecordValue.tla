--------------------------- MODULE MCRecordValue ---------------------------
(***************************************************************************)
(* Records of one and two fields of every kind, with structs, slices, PODs *)
(* and pointers in each other, and what PostgreSQL reads in them.          *)
(***************************************************************************)
EXTENDS RecordValue, Example, FiniteSetsExt

Text(s)   == [kind |-> "text", text |-> s]
Token     == [kind |-> "token", text |-> <<EnByte>>]
Lost      == [kind |-> "lost"]
Nil       == [kind |-> "nil"]
Ptr(g)    == [kind |-> "ptr", to |-> g]
Pod(ok, g) == [kind |-> "pod", ok |-> ok, to |-> g]
Call(a)   == [kind |-> "call", answer |-> a]
Anon(gs)  == [kind |-> "anon", fields |-> gs]
Slice(gs) == [kind |-> "slice", elems |-> gs]

Answers == {Token, [kind |-> "text", text |-> <<Quote, EnByte>>],
            [kind |-> "nil"], [kind |-> "error"], [kind |-> "panic"]}

Pairs(S) == {<<g>> : g \in S} \cup {<<g, h>> : g, h \in S}

Strings == {<<>>, <<Quote, Comma>>, <<Close, Backslash>>}
Flat == {Text(s) : s \in Strings} \cup {Token, Nil}

Deeper(S) == {Ptr(g) : g \in S} \cup {Pod(TRUE, g) : g \in S} \cup {Pod(FALSE, Token), Lost}
                 \cup {Call(a) : a \in Answers}

Some == {Text(<<Quote, Comma>>), Token, Ptr(Token), Call(Token), Call([kind |-> "error"])}

Kinds == Flat \cup Deeper(Flat)
              \cup {Anon(gs) : gs \in Pairs(Some)}
              \cup {Slice(gs) : gs \in Pairs(Some) \cup {<<>>}}

Nested == {Pod(TRUE, Ptr(Pod(TRUE, Text(<<Quote>>)))),
           Anon(<<Token, Anon(<<Text(<<Quote, Comma>>), Nil>>)>>),
           Anon(<<Slice(<<Token>>), Token>>),
           Slice(<<Anon(<<Token, Text(<<Quote>>)>>)>>),
           Slice(<<Slice(<<Token>>), Token>>),
           Ptr(Anon(<<Text(<<Quote, Close>>)>>))}

MCValues == Pairs(Kinds \cup Nested) \cup {KekValue(valid) : valid \in BOOLEAN}

CallValues == Pairs({Token, Call(Token)})

RECURSIVE Within(_), DepthOf(_)
Within(g) == {g} \cup UNION {Within(Parts(g)[k]) : k \in DOMAIN Parts(g)}
DepthOf(g) == IF Parts(g) = <<>> THEN 0
              ELSE 1 + Max({DepthOf(Parts(g)[k]) : k \in DOMAIN Parts(g)})

MCField == UNION {Within(g) : g \in UNION {{gs[k] : k \in DOMAIN gs} : gs \in MCValues \cup CallValues}}
MCDepth == [g \in MCField |-> DepthOf(g)]

-----------------------------------------------------------------------------
(* The column of every field is the field (README.md:1, rowtypes.html at   *)
(* README.md:4), whatever kind it is of.                                   *)
RecordKept == pc = "done" => Reads(result, fields)
=============================================================================
