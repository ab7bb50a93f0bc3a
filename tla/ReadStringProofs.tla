-------------------------- MODULE ReadStringProofs --------------------------
(***************************************************************************)
(* What ReadString.tla claims of __intrinsic_readString, proved for slices *)
(* of any length over any alphabet.                                        *)
(***************************************************************************)
EXTENDS ReadString, LiteralProofs

(* i is where a byte of the text begins, buf the text up to there, and no  *)
(* character before it was named.                                          *)
UpTo(k) == /\ i = call.start[k + 1]
           /\ buf = SubSeq(call.text, 1, k)
           /\ \A j \in 1 .. k : ~NamedByte(call, j)

Answer == IF Named(call) THEN Failed
          ELSE [res |-> call.text, read |-> call.start[Len(call.text) + 1] + 1, ok |-> TRUE]

(* In the quoted loop of a quoted literal, the text has been read up to    *)
(* some byte of it.                                                        *)
QuotedLoop ==
    pc = "quoted" =>
        /\ b # <<>> /\ b[1] = Quote /\ i >= 1
        /\ QuotedText(call) => \E k \in 0 .. Len(call.text) : UpTo(k)

(* In the other loop no delimiter has been passed. *)
BareLoop ==
    pc = "bare" => /\ b # <<>> /\ b[1] # Quote
                   /\ \A j \in 1 .. i : b[j] \notin {call.delim, Comma}

(* The quoted loop has taken in what Unquoted has after the bytes up to i. *)
QuotedUpTo(n) == QuotedRead(QuotedStart, SubSeq(b, 2, n))

QuotedSoFar ==
    pc = "quoted" => QuotedUpTo(i) = [mode |-> "inside", text |-> buf, read |-> i]

Fresh == pc = "call" => i = 0 /\ buf = <<>>

IInv == TypeOK /\ Fresh /\ QuotedLoop /\ BareLoop
        /\ QuotedReadBack /\ BareReadBack /\ ZeroIsNull
        /\ QuotedSoFar /\ LoopsAgree

LEMMA SubSeqStep ==
    ASSUME NEW S, NEW t \in Seq(S), NEW k \in 0 .. Len(t), k < Len(t)
    PROVE  Append(SubSeq(t, 1, k), t[k + 1]) = SubSeq(t, 1, k + 1)
OBVIOUS

LEMMA SubSeqWhole ==
    ASSUME NEW S, NEW t \in Seq(S)
    PROVE  SubSeq(t, 1, Len(t)) = t
OBVIOUS

LEMMA SubSeqNone ==
    ASSUME NEW S, NEW t \in Seq(S)
    PROVE  SubSeq(t, 1, 0) = <<>>
OBVIOUS

LEMMA SubSeqType ==
    ASSUME NEW S, NEW t \in Seq(S), NEW k \in 0 .. Len(t)
    PROVE  SubSeq(t, 1, k) \in Seq(S)
OBVIOUS

LEMMA InitInv == Init => IInv
<1>1. Init => TypeOK
    BY CallsAssumption, BytesOf DEF Init, TypeOK, Call, Failed, b, Bytes
<1>2. QED
    BY <1>1 DEF Init, IInv, Fresh, QuotedLoop, BareLoop, QuotedReadBack, BareReadBack, ZeroIsNull,
                QuotedSoFar, LoopsAgree

(* Every step keeps the types: no index passes the end of b.               *)
LEMMA TypeStep == TypeOK /\ QuotedLoop /\ BareLoop /\ [Next]_vars => TypeOK'
<1> SUFFICES ASSUME TypeOK, QuotedLoop, BareLoop, [Next]_vars PROVE TypeOK'
    OBVIOUS
<1> USE BytesOf DEF TypeOK, Call, b, At, Failed, Bytes
<1>t. /\ call \in Call /\ b \in Bytes /\ Len(b) \in Nat /\ i \in Nat
      /\ Quote \in AnyByte /\ Backslash \in AnyByte /\ Comma \in AnyByte
      /\ \A j \in 1 .. Len(b) : b[j] \in AnyByte
    BY BytesOf DEF Bytes
<1>1. CASE Empty  BY <1>1 DEF Empty
<1>2. CASE Switch
    <2>1. Len(b) >= 1  BY <1>2, <1>t DEF Switch
    <2>2. QED  BY <1>2, <2>1, <1>t DEF Switch
<1>3. CASE DoubledQuote
    <2>1. i' = i + 2 /\ i + 2 <= Len(b) /\ buf' = Append(buf, Quote)
        BY <1>3, <1>t DEF DoubledQuote, Take, Twice
    <2>2. QED  BY <1>3, <2>1, <1>t DEF DoubledQuote, Take
<1>4. CASE ClosingQuote  BY <1>4, <1>t DEF ClosingQuote, Return
<1>5. CASE Escape
    <2>1. i' = i + 2 /\ i + 2 <= Len(b) /\ buf' = Append(buf, b[i + 2])
        BY <1>5, <1>t DEF Escape, Take, Twice
    <2>2. b[i + 2] \in AnyByte  BY <2>1, <1>t
    <2>3. QED  BY <1>5, <2>1, <2>2, <1>t DEF Escape, Take
<1>6. CASE BadEscape  BY <1>6, <1>t DEF BadEscape, Return
<1>7. CASE Plain
    <2>1. i' = i + 1 /\ i + 1 <= Len(b) /\ buf' = Append(buf, b[i + 1])
        BY <1>7, <1>t DEF Plain, Take
    <2>2. b[i + 1] \in AnyByte  BY <2>1, <1>t
    <2>3. QED  BY <1>7, <2>1, <2>2, <1>t DEF Plain, Take
<1>8. CASE Unclosed  BY <1>8, <1>t DEF Unclosed, Return
<1>9. CASE Skip  BY <1>9, <1>t DEF Skip
<1>10. CASE Delimited
    <2>1. SubSeq(b, 1, i) \in Bytes  BY <1>t, SubSeqType
    <2>2. QED  BY <1>10, <2>1, <1>t DEF Delimited, Return
<1>11. CASE Undelimited  BY <1>11, <1>t DEF Undelimited, Return
<1>12. CASE UNCHANGED vars  BY <1>12 DEF vars
<1>13. QED
    BY <1>1, <1>2, <1>3, <1>4, <1>5, <1>6, <1>7, <1>8, <1>9, <1>10, <1>11, <1>12
    DEF Next, Step, Terminated

(* What the quoted loop finds at i when i is where byte k + 1 begins.      *)
LEMMA NextByte ==
    ASSUME TypeOK, QuotedText(call), NEW k \in 0 .. Len(call.text), i = call.start[k + 1]
    PROVE  /\ k < Len(call.text) /\ call.text[k + 1] \in {Quote, Backslash} =>
                 /\ call.start[k + 2] = i + 2 /\ i + 2 <= Len(b)
                 /\ b[i + 2] = call.text[k + 1]
                 /\ b[i + 1] \in {Backslash, call.text[k + 1]}
                 /\ ~NamedByte(call, k + 1)
           /\ k < Len(call.text) /\ NamedByte(call, k + 1) =>
                 i + 2 <= Len(b) /\ b[i + 1] = Backslash /\ b[i + 2] = EnByte
           /\ k < Len(call.text) /\ ~NamedByte(call, k + 1)
              /\ call.text[k + 1] \notin {Quote, Backslash} =>
                 /\ call.start[k + 2] = i + 1 /\ i + 1 <= Len(b)
                 /\ b[i + 1] = call.text[k + 1]
           /\ k = Len(call.text) =>
                 /\ i + 1 <= Len(b) /\ b[i + 1] = Quote
                 /\ i + 2 <= Len(b) => b[i + 2] # Quote
<1> USE DEF TypeOK, Call, b
<1>1. ASSUME k < Len(call.text)
      PROVE  (ByteAt(call, k + 1) \/ NamedByte(call, k + 1)) /\ (k + 1) + 1 = k + 2
    <2>1. k + 1 \in 1 .. Len(call.text)  BY <1>1
    <2>2. QED  BY <2>1 DEF QuotedText
<1>2. ASSUME k = Len(call.text)
      PROVE  /\ i + 1 <= Len(b) /\ b[i + 1] = Quote
             /\ i + 2 <= Len(b) => b[i + 2] # Quote
    BY <1>2 DEF QuotedText
<1>3. Newline \notin {Quote, Backslash}  BY SpecialAssumption
<1>4. QED  BY <1>1, <1>2, <1>3 DEF ByteAt, NamedByte

(* What each turn of the quoted loop does, in indices of the sequence.     *)
LEMMA QuotedTurn ==
    ASSUME TypeOK, pc = "quoted", Next
    PROVE  /\ call' = call
           /\ \/ /\ i + 2 <= Len(b) /\ b[i + 1] = Quote /\ b[i + 2] = Quote
                 /\ pc' = "quoted" /\ i' = i + 2 /\ buf' = Append(buf, Quote)
              \/ /\ i + 1 <= Len(b) /\ b[i + 1] = Quote
                 /\ i + 2 <= Len(b) => b[i + 2] # Quote
                 /\ pc' = "done" /\ ret' = [res |-> buf, read |-> i + 1, ok |-> TRUE]
              \/ /\ i + 2 <= Len(b) /\ b[i + 1] = Backslash /\ b[i + 2] \in {Quote, Backslash}
                 /\ pc' = "quoted" /\ i' = i + 2 /\ buf' = Append(buf, b[i + 2])
              \/ /\ i + 1 <= Len(b) /\ b[i + 1] = Backslash
                 /\ i + 2 <= Len(b) => b[i + 2] \notin {Quote, Backslash}
                 /\ pc' = "done" /\ ret' = Failed
              \/ /\ i + 1 <= Len(b) /\ b[i + 1] \notin {Quote, Backslash}
                 /\ pc' = "quoted" /\ i' = i + 1 /\ buf' = Append(buf, b[i + 1])
              \/ i >= Len(b) /\ pc' = "done" /\ ret' = Failed
<1> USE DEF TypeOK, Call, b, At
<1>t. i \in Nat /\ Len(b) \in Nat /\ (i + 1) + 1 = i + 2  OBVIOUS
<1>1. CASE DoubledQuote  BY <1>t, <1>1 DEF DoubledQuote, Take, Twice
<1>2. CASE ClosingQuote  BY <1>t, <1>2 DEF ClosingQuote, Return, Twice
<1>3. CASE Escape        BY <1>t, <1>3 DEF Escape, Take, Twice
<1>4. CASE BadEscape     BY <1>t, <1>4 DEF BadEscape, Return, Twice
<1>5. CASE Plain         BY <1>t, <1>5 DEF Plain, Take
<1>6. CASE Unclosed      BY <1>t, <1>6 DEF Unclosed, Return
<1>7. QED
    BY <1>1, <1>2, <1>3, <1>4, <1>5, <1>6
    DEF Next, Step, Terminated, Empty, Switch, Skip, Delimited, Undelimited

(* A text quoted at the front of b is left at its end or at the first      *)
(* character that was named, and then for the answer.                      *)
LEMMA QuotedProgress ==
    ASSUME TypeOK, QuotedLoop, pc = "quoted", QuotedText(call), Next
    PROVE  /\ pc' = "quoted" =>
                 \E k \in 0 .. Len(call.text) : /\ i' = call.start[k + 1]
                                                /\ buf' = SubSeq(call.text, 1, k)
                                                /\ \A j \in 1 .. k : ~NamedByte(call, j)
           /\ pc' = "done" => ret' = Answer
<1>t. /\ call.text \in Bytes /\ Len(call.text) \in Nat /\ i \in Nat /\ Len(b) \in Nat
    BY DEF TypeOK, Call, b
<1>1. PICK k \in 0 .. Len(call.text) :
          /\ i = call.start[k + 1] /\ buf = SubSeq(call.text, 1, k)
          /\ \A j \in 1 .. k : ~NamedByte(call, j)
    BY DEF QuotedLoop, UpTo
<1>2. PICK text : text = call.text  OBVIOUS
<1>0. CASE k < Len(call.text) /\ NamedByte(call, k + 1)
    <2>1. i + 2 <= Len(b) /\ b[i + 1] = Backslash /\ b[i + 2] = EnByte
        BY <1>1, <1>0, NextByte
    <2>2. EnByte \notin {Quote, Backslash}
        BY LetterAssumption DEF Special
    <2>3. pc' = "done" /\ ret' = Failed
        BY <1>t, <2>1, <2>2, QuotedTurn, SpecialAssumption
    <2>4. Named(call)
        <3>1. k + 1 \in 1 .. Len(call.text)  BY <1>t, <1>0
        <3>2. QED  BY <1>0, <3>1 DEF Named
    <2>5. QED  BY <2>3, <2>4 DEF Answer
<1>3. CASE k < Len(call.text) /\ ~NamedByte(call, k + 1)
    <2>1. k + 1 \in 0 .. Len(call.text) /\ (k + 1) + 1 = k + 2  BY <1>3, <1>t
    <2>2. Append(buf, text[k + 1]) = SubSeq(text, 1, k + 1)
        BY <1>t, <1>1, <1>2, <1>3, SubSeqStep
    <2>3. /\ pc' = "quoted" /\ i' = call.start[k + 2]
          /\ buf' = Append(buf, text[k + 1])
        <3>1. CASE text[k + 1] \in {Quote, Backslash}
            <4>1. /\ call.start[k + 2] = i + 2 /\ i + 2 <= Len(b)
                  /\ b[i + 2] = text[k + 1] /\ b[i + 1] \in {Backslash, text[k + 1]}
                BY <1>1, <1>2, <1>3, <3>1, NextByte
            <4>2. QED
                BY <1>t, <3>1, <4>1, QuotedTurn, SpecialAssumption
        <3>2. CASE text[k + 1] \notin {Quote, Backslash}
            <4>1. /\ call.start[k + 2] = i + 1 /\ i + 1 <= Len(b)
                  /\ b[i + 1] = text[k + 1]
                BY <1>1, <1>2, <1>3, <3>2, NextByte
            <4>2. QED  BY <1>t, <3>2, <4>1, QuotedTurn
        <3>3. QED  BY <3>1, <3>2
    <2>4. \A j \in 1 .. k + 1 : ~NamedByte(call, j)
        <3>1. 1 .. k + 1 = (1 .. k) \cup {k + 1}  OBVIOUS
        <3>2. QED  BY <1>1, <1>3, <3>1
    <2>5. QED  BY <1>2, <2>1, <2>2, <2>3, <2>4
<1>4. CASE k = Len(call.text)
    <2>1. /\ i + 1 <= Len(b) /\ b[i + 1] = Quote
          /\ i + 2 <= Len(b) => b[i + 2] # Quote
        BY <1>1, <1>4, NextByte
    <2>2. pc' = "done" /\ ret' = [res |-> buf, read |-> i + 1, ok |-> TRUE]
        BY <1>t, <2>1, QuotedTurn, SpecialAssumption
    <2>3. buf = call.text  BY <1>t, <1>1, <1>4, SubSeqWhole DEF Bytes
    <2>4. ~Named(call)  BY <1>1, <1>4 DEF Named
    <2>5. QED  BY <1>1, <1>4, <2>2, <2>3, <2>4 DEF Answer
<1>5. QED  BY <1>0, <1>3, <1>4

LEMMA CallKept == Next => call' = call /\ b' = b
<1>1. Next => call' = call
    BY DEF Next, Step, Terminated, vars, Empty, Switch, DoubledQuote, ClosingQuote,
           Escape, BadEscape, Plain, Unclosed, Skip, Delimited, Undelimited, Take, Return
<1>2. QED  BY <1>1 DEF b

(* What is said of a call alone stays as it is with the call.              *)
LEMMA SaidOfCall ==
    call' = call => /\ QuotedText(call)' = QuotedText(call)
                    /\ Answer' = Answer
                    /\ \A k : NamedByte(call, k)' = NamedByte(call, k)
BY DEF QuotedText, ByteAt, NamedByte, Named, Answer

(* The other loop, in indices of the sequence.                             *)
LEMMA OtherTurn ==
    ASSUME TypeOK, pc # "quoted", Next
    PROVE  \/ pc = "call" /\ b = <<>> /\ pc' = "panic"
           \/ /\ pc = "call" /\ b # <<>> /\ b[1] = Quote
              /\ pc' = "quoted" /\ i' = 1 /\ buf' = buf
           \/ /\ pc = "call" /\ b # <<>> /\ b[1] # Quote /\ pc' = "bare" /\ i' = 0
           \/ /\ pc = "bare" /\ i + 1 <= Len(b) /\ b[i + 1] \notin {call.delim, Comma}
              /\ pc' = "bare" /\ i' = i + 1
           \/ /\ pc = "bare" /\ i + 1 <= Len(b) /\ b[i + 1] \in {call.delim, Comma}
              /\ pc' = "done" /\ ret' = [res |-> SubSeq(b, 1, i), read |-> i, ok |-> TRUE]
           \/ pc = "bare" /\ i >= Len(b) /\ pc' = "done" /\ ret' = Failed
           \/ pc \in {"done", "panic"} /\ UNCHANGED vars
<1> USE DEF TypeOK, Call, b, At
<1>1. CASE Switch  BY <1>1 DEF Switch
<1>2. CASE Skip    BY <1>2 DEF Skip
<1>3. CASE Delimited  BY <1>3 DEF Delimited, Return
<1>4. QED
    BY <1>1, <1>2, <1>3
    DEF Next, Step, Terminated, Empty, DoubledQuote, ClosingQuote, Escape, BadEscape,
        Plain, Unclosed, Undelimited, Take, Return

LEMMA QuotedStep ==
    TypeOK /\ Fresh /\ QuotedLoop /\ BareLoop /\ QuotedReadBack /\ Next
        => QuotedLoop' /\ QuotedReadBack'
<1> SUFFICES ASSUME TypeOK, Fresh, QuotedLoop, BareLoop, QuotedReadBack, Next
             PROVE  QuotedLoop' /\ QuotedReadBack'
    OBVIOUS
<1>t. /\ call' = call /\ b' = b /\ QuotedText(call)' = QuotedText(call) /\ Answer' = Answer
      /\ \A k : NamedByte(call, k)' = NamedByte(call, k)
    BY CallKept, SaidOfCall
<1>0. QuotedReadBack <=> (pc = "done" /\ QuotedText(call) => ret = Answer)
    BY DEF QuotedReadBack, Answer
<1>p. QuotedReadBack' <=> (pc' = "done" /\ QuotedText(call)' => ret' = Answer')
    BY DEF QuotedReadBack, Answer
<1>1. CASE pc = "quoted"
    <2>1. QuotedText(call) =>
             /\ pc' = "quoted" =>
                 \E k \in 0 .. Len(call.text) : /\ i' = call.start[k + 1]
                                                /\ buf' = SubSeq(call.text, 1, k)
                                                /\ \A j \in 1 .. k : ~NamedByte(call, j)
             /\ pc' = "done" => ret' = Answer
        BY <1>1, QuotedProgress
    <2>2. pc' = "quoted" => i' >= 1
        BY <1>1, QuotedTurn DEF QuotedLoop, TypeOK
    <2>3. b # <<>> /\ b[1] = Quote  BY <1>1 DEF QuotedLoop
    <2>4. QuotedLoop'  BY <1>t, <2>1, <2>2, <2>3 DEF QuotedLoop, UpTo
    <2>5. QuotedReadBack'  BY <1>t, <1>p, <2>1
    <2>6. QED  BY <2>4, <2>5
<1>2. CASE pc = "call"
    <2>1. pc' # "done"  BY <1>2, OtherTurn
    <2>2. pc' = "quoted" => /\ b # <<>> /\ b[1] = Quote /\ i' = 1 /\ buf' = <<>>
        BY <1>2, OtherTurn DEF Fresh
    <2>3. ASSUME QuotedText(call), pc' = "quoted"
          PROVE  \E k \in 0 .. Len(call.text) : /\ i' = call.start[k + 1]
                                                /\ buf' = SubSeq(call.text, 1, k)
                                                /\ \A j \in 1 .. k : ~NamedByte(call, j)
        <3>1. i' = call.start[0 + 1]  BY <2>2, <2>3 DEF QuotedText
        <3>2. buf' = SubSeq(call.text, 1, 0) /\ 0 \in 0 .. Len(call.text)
            BY <2>2, <2>3, SubSeqNone DEF TypeOK, Call
        <3>3. \A j \in 1 .. 0 : ~NamedByte(call, j)  OBVIOUS
        <3>4. QED  BY <3>1, <3>2, <3>3
    <2>4. QED  BY <1>t, <2>1, <2>2, <2>3 DEF QuotedLoop, QuotedReadBack, UpTo
<1>3. CASE pc = "bare"
    <2>1. ~QuotedText(call)  BY <1>3 DEF BareLoop, QuotedText, b
    <2>2. pc' # "quoted"  BY <1>3, OtherTurn
    <2>3. QED  BY <1>t, <2>1, <2>2 DEF QuotedLoop, QuotedReadBack
<1>4. CASE pc \in {"done", "panic"}
    <2>1. UNCHANGED vars  BY <1>4, OtherTurn
    <2>2. QuotedLoop'  BY <1>4, <2>1 DEF vars, QuotedLoop
    <2>3. QED  BY <1>t, <1>0, <1>p, <2>1, <2>2 DEF vars
<1>5. QED  BY <1>1, <1>2, <1>3, <1>4 DEF TypeOK

LEMMA BareStep ==
    TypeOK /\ QuotedLoop /\ BareLoop /\ BareReadBack /\ ZeroIsNull /\ Next
        => BareLoop' /\ BareReadBack' /\ ZeroIsNull'
<1> SUFFICES ASSUME TypeOK, QuotedLoop, BareLoop, BareReadBack, ZeroIsNull, Next
             PROVE  BareLoop' /\ BareReadBack' /\ ZeroIsNull'
    OBVIOUS
<1>t. /\ call' = call /\ b' = b /\ i \in Nat /\ Len(b) \in Nat
      /\ b \in Bytes /\ call.text \in Bytes /\ b = call.b
    BY CallKept DEF TypeOK, Call, b
<1>1. CASE pc = "quoted"
    <2>1. ~BareText(call) /\ pc' # "bare"
        BY <1>1, QuotedTurn DEF QuotedLoop, BareText, b
    <2>2. pc' = "done" /\ ret'.ok => ret'.read = i + 1
        BY <1>1, QuotedTurn DEF Failed
    <2>3. BareText(call)' = BareText(call)  BY <1>t DEF BareText
    <2>4. BareLoop' /\ BareReadBack'  BY <2>1, <2>3 DEF BareLoop, BareReadBack
    <2>5. ZeroIsNull'  BY <1>t, <2>2 DEF ZeroIsNull
    <2>6. QED  BY <2>4, <2>5
<1>2. CASE pc = "call"
    BY <1>2, <1>t, OtherTurn DEF BareLoop, BareReadBack, ZeroIsNull
<1>3. CASE pc = "bare"
    <2>1. BareLoop'
        BY <1>3, <1>t, OtherTurn DEF BareLoop
    <2>2. ZeroIsNull'
        BY <1>3, <1>t, OtherTurn DEF ZeroIsNull, BareLoop, Failed
    <2>3. ASSUME BareText(call), pc' = "done"
          PROVE  ret' = [res |-> call.text, read |-> Len(call.text), ok |-> TRUE]
        <3>1. Len(call.text) \in Nat /\ Len(call.text) < Len(b)
              /\ b[Len(call.text) + 1] \in {call.delim, Comma}
              /\ \A j \in 1 .. Len(call.text) : /\ b[j] = call.text[j]
                                                /\ b[j] \notin {call.delim, Comma}
            BY <1>t, <2>3 DEF BareText
        <3>2. i <= Len(call.text)
            <4>1. ASSUME i > Len(call.text) PROVE FALSE
                <5>1. Len(call.text) + 1 \in 1 .. i  BY <3>1, <4>1, <1>t
                <5>2. QED  BY <1>3, <3>1, <5>1 DEF BareLoop
            <4>2. QED  BY <4>1, <3>1, <1>t
        <3>3. /\ b[i + 1] \in {call.delim, Comma}
              /\ ret' = [res |-> SubSeq(b, 1, i), read |-> i, ok |-> TRUE]
            BY <1>3, <1>t, <2>3, <3>1, <3>2, OtherTurn
        <3>4. i = Len(call.text)
            <4>1. ASSUME i < Len(call.text) PROVE FALSE
                <5>1. i + 1 \in 1 .. Len(call.text)  BY <3>1, <4>1, <1>t
                <5>2. QED  BY <3>1, <3>3, <5>1
            <4>2. QED  BY <4>1, <3>1, <3>2, <1>t
        <3>5. SubSeq(b, 1, i) = call.text
            BY <1>t, <3>1, <3>4 DEF Bytes
        <3>6. QED  BY <3>3, <3>4, <3>5
    <2>4. BareText(call)' = BareText(call)  BY <1>t DEF BareText
    <2>5. BareReadBack'  BY <1>t, <2>3, <2>4 DEF BareReadBack
    <2>6. QED  BY <2>1, <2>2, <2>5
<1>4. CASE pc \in {"done", "panic"}
    <2>1. UNCHANGED vars  BY <1>4, OtherTurn
    <2>2. BareText(call)' = BareText(call)  BY <1>t DEF BareText
    <2>3. QED  BY <1>4, <1>t, <2>1, <2>2 DEF vars, BareLoop, BareReadBack, ZeroIsNull
<1>5. QED  BY <1>1, <1>2, <1>3, <1>4 DEF TypeOK

LEMMA FreshStep == Next => Fresh'
BY DEF Fresh, vars, Next, Step, Terminated, Empty, Switch, DoubledQuote, ClosingQuote, Escape,
       BadEscape, Plain, Unclosed, Skip, Delimited, Undelimited, Take, Return

(* Unquoted, a byte at a time. *)
LEMMA QuotedUpToFacts ==
    ASSUME TypeOK, b # <<>>
    PROVE  /\ QuotedUpTo(1) = QuotedStart
           /\ \A n \in 1 .. Len(b) : QuotedUpTo(n) \in QuotedState
           /\ \A n \in 1 .. Len(b) - 1 : QuotedUpTo(n + 1) = QuotedByte(QuotedUpTo(n), b[n + 1])
           /\ \A n \in 1 .. Len(b) : QuotedUpTo(n).mode \in {"closed", "failed"}
                 => QuotedUpTo(Len(b)) = QuotedUpTo(n)
           /\ b[1] = Quote => Read(b, call.delim) =
                 IF QuotedUpTo(Len(b)).mode \in {"quote", "closed"}
                 THEN [res |-> QuotedUpTo(Len(b)).text, read |-> QuotedUpTo(Len(b)).read, ok |-> TRUE]
                 ELSE Failed
<1>0. /\ b \in Seq(AnyByte) /\ Len(b) \in Nat \ {0} /\ QuotedStart \in QuotedState
      /\ \A n \in 1 .. Len(b) : b[n] \in AnyByte /\ SubSeq(b, 2, n) \in Seq(AnyByte)
  BY BytesOf DEF TypeOK, Call, b, Bytes, QuotedStart, QuotedState
<1> HIDE DEF b
<1>1. QuotedUpTo(1) = QuotedStart
  <2>1. SubSeq(b, 2, 1) = <<>>
    BY <1>0
  <2> QED BY <1>0, <2>1, QuotedReadFacts DEF QuotedUpTo
<1>2. ASSUME NEW n \in 1 .. Len(b) PROVE QuotedUpTo(n) \in QuotedState
  BY <1>0, QuotedReadFacts DEF QuotedUpTo, Bytes
<1>3. ASSUME NEW n \in 1 .. Len(b) - 1
      PROVE  QuotedUpTo(n + 1) = QuotedByte(QuotedUpTo(n), b[n + 1])
  <2>1. n \in 1 .. Len(b) /\ n + 1 \in 1 .. Len(b)
    BY <1>0
  <2>2. SubSeq(b, 2, n + 1) = Append(SubSeq(b, 2, n), b[n + 1])
    BY <1>0, <2>1
  <2>3. SubSeq(b, 2, n) \in Bytes /\ b[n + 1] \in AnyByte
    BY <1>0, <2>1 DEF Bytes
  <2>4. QuotedRead(QuotedStart, Append(SubSeq(b, 2, n), b[n + 1]))
           = QuotedByte(QuotedRead(QuotedStart, SubSeq(b, 2, n)), b[n + 1])
    BY <1>0, <2>3, QuotedReadFacts
  <2> QED BY <2>2, <2>4 DEF QuotedUpTo
<1>4. ASSUME NEW n \in 1 .. Len(b), QuotedUpTo(n).mode \in {"closed", "failed"}
      PROVE  QuotedUpTo(Len(b)) = QuotedUpTo(n)
  <2>1. SubSeq(b, 2, Len(b)) = SubSeq(b, 2, n) \o SubSeq(b, n + 1, Len(b))
    <3>1. 2 \in 1 .. Len(b) + 1 /\ n \in 2 - 1 .. Len(b) /\ Len(b) \in n .. Len(b)
      BY <1>0
    <3> QED BY <1>0, <3>1, ConcatAdjacentSubSeq
  <2>2. SubSeq(b, 2, n) \in Bytes /\ SubSeq(b, n + 1, Len(b)) \in Bytes
    BY <1>0 DEF Bytes
  <2>3. QuotedUpTo(Len(b)) = QuotedRead(QuotedUpTo(n), SubSeq(b, n + 1, Len(b)))
    <3>1. QuotedRead(QuotedStart, SubSeq(b, 2, n) \o SubSeq(b, n + 1, Len(b)))
             = QuotedRead(QuotedRead(QuotedStart, SubSeq(b, 2, n)), SubSeq(b, n + 1, Len(b)))
      BY <1>0, <2>2, QuotedReadFacts
    <3> QED BY <2>1, <3>1 DEF QuotedUpTo
  <2> QED BY <1>2, <1>4, <2>2, <2>3, ClosedStays
<1>5. ASSUME b[1] = Quote
      PROVE  Read(b, call.delim) =
                 IF QuotedUpTo(Len(b)).mode \in {"quote", "closed"}
                 THEN [res |-> QuotedUpTo(Len(b)).text, read |-> QuotedUpTo(Len(b)).read, ok |-> TRUE]
                 ELSE Failed
  <2>1. Tail(b) = SubSeq(b, 2, Len(b)) /\ Head(b) = Quote
    BY <1>0, <1>5
  <2> QED BY <2>1 DEF Read, Unquoted, QuotedUpTo
<1> QED BY <1>1, <1>2, <1>3, <1>4, <1>5

(* Where the quoted loop goes on, Unquoted is inside the quotes with it;   *)
(* where it returns, that is what Unquoted makes of b.                     *)
LEMMA QuotedAgrees ==
    ASSUME TypeOK, QuotedLoop, QuotedSoFar, pc = "quoted", Next
    PROVE  /\ pc' = "quoted" => QuotedUpTo(i') = [mode |-> "inside", text |-> buf', read |-> i']
           /\ pc' = "done" => ret' = Read(b, call.delim)
<1>0. b # <<>> /\ b[1] = Quote /\ i \in 1 .. Len(b) /\ Len(b) \in Nat
  BY DEF QuotedLoop, TypeOK, Call, b, Bytes
<1> DEFINE q == QuotedUpTo(i)
           one == QuotedUpTo(i + 1)
           two == QuotedUpTo(i + 2)
           last == QuotedUpTo(Len(b))
<1>1. q = [mode |-> "inside", text |-> buf, read |-> i]
  BY DEF QuotedSoFar
<1>2. i + 1 <= Len(b) => one = QuotedByte(q, b[i + 1])
  BY <1>0, QuotedUpToFacts
<1>3. i + 2 <= Len(b) => two = QuotedByte(one, b[i + 2])
  <2>1. i + 2 <= Len(b) => i + 1 \in 1 .. Len(b) - 1 /\ (i + 1) + 1 = i + 2
    BY <1>0
  <2> QED BY <2>1, <1>0, QuotedUpToFacts
<1>4. /\ i + 1 <= Len(b) /\ one.mode \in {"closed", "failed"} => last = one
      /\ i + 2 <= Len(b) /\ two.mode \in {"closed", "failed"} => last = two
  <2>1. /\ i + 1 <= Len(b) => i + 1 \in 1 .. Len(b)
        /\ i + 2 <= Len(b) => i + 2 \in 1 .. Len(b)
    BY <1>0
  <2> QED BY <2>1, <1>0, QuotedUpToFacts
<1>5. Read(b, call.delim) = IF last.mode \in {"quote", "closed"}
                            THEN [res |-> last.text, read |-> last.read, ok |-> TRUE] ELSE Failed
  BY <1>0, QuotedUpToFacts
<1>6. /\ i + 1 = Len(b) => last = one
      /\ i = Len(b) => last = q
  BY <1>0
<1>7. Quote # Backslash
  BY SpecialAssumption
<1>8. (i + 1) + 1 = i + 2
  BY <1>0
<1> HIDE DEF q, one, two, last
<1>9. i + 1 <= Len(b) =>
        one = IF b[i + 1] = Quote THEN [mode |-> "quote", text |-> buf, read |-> i + 1]
              ELSE IF b[i + 1] = Backslash THEN [mode |-> "escape", text |-> buf, read |-> i + 1]
              ELSE [mode |-> "inside", text |-> Append(buf, b[i + 1]), read |-> i + 1]
  BY <1>1, <1>2, <1>7 DEF QuotedByte
<1>10. ASSUME i + 2 <= Len(b), b[i + 1] = Quote, b[i + 2] # Quote
       PROVE  two.mode = "closed" /\ two.text = buf /\ two.read = i + 1
  <2>1. one = [mode |-> "quote", text |-> buf, read |-> i + 1]
    BY <1>0, <1>9, <1>10
  <2> QED BY <2>1, <1>3, <1>10 DEF QuotedByte
<1>11. ASSUME i + 2 <= Len(b), b[i + 1] = Backslash, b[i + 2] \notin {Quote, Backslash}
       PROVE  two.mode = "failed"
  <2>1. one = [mode |-> "escape", text |-> buf, read |-> i + 1]
    BY <1>0, <1>9, <1>11, <1>7
  <2> QED BY <2>1, <1>3, <1>11 DEF QuotedByte
<1>12. ASSUME i + 2 <= Len(b),
              \/ b[i + 1] = Quote /\ b[i + 2] = Quote
              \/ b[i + 1] = Backslash /\ b[i + 2] \in {Quote, Backslash}
       PROVE  two = [mode |-> "inside", text |-> Append(buf, b[i + 2]), read |-> i + 2]
  <2>1. /\ one.mode = IF b[i + 1] = Quote THEN "quote" ELSE "escape"
        /\ one.text = buf /\ one.read = i + 1
    BY <1>0, <1>9, <1>12, <1>7
  <2> QED BY <2>1, <1>3, <1>12, <1>7, <1>8 DEF QuotedByte
<1>13. CASE pc' = "quoted"
  BY <1>0, <1>7, <1>9, <1>12, <1>13, QuotedTurn DEF one, two
<1>14. CASE pc' = "done"
  <2>1. CASE /\ i + 1 <= Len(b) /\ b[i + 1] = Quote
             /\ i + 2 <= Len(b) => b[i + 2] # Quote
             /\ ret' = [res |-> buf, read |-> i + 1, ok |-> TRUE]
    <3>1. last.mode \in {"quote", "closed"} /\ last.text = buf /\ last.read = i + 1
      <4>1. CASE i + 2 <= Len(b)
        BY <2>1, <4>1, <1>4, <1>10
      <4>2. CASE i + 1 = Len(b)
        BY <2>1, <4>2, <1>6, <1>9
      <4> QED BY <4>1, <4>2, <2>1, <1>0
    <3> QED BY <1>14, <2>1, <3>1, <1>5
  <2>2. CASE /\ i + 1 <= Len(b) /\ b[i + 1] = Backslash
             /\ i + 2 <= Len(b) => b[i + 2] \notin {Quote, Backslash}
             /\ ret' = Failed
    <3>1. last.mode \in {"escape", "failed"}
      <4>1. CASE i + 2 <= Len(b)
        BY <2>2, <4>1, <1>4, <1>11
      <4>2. CASE i + 1 = Len(b)
        BY <2>2, <4>2, <1>6, <1>9, <1>7
      <4> QED BY <4>1, <4>2, <2>2, <1>0
    <3> QED BY <1>14, <2>2, <3>1, <1>5
  <2>3. CASE i >= Len(b) /\ ret' = Failed
    <3>1. last.mode = "inside"
      BY <1>0, <2>3, <1>1, <1>6
    <3> QED BY <1>14, <2>3, <3>1, <1>5
  <2> QED BY <1>14, <2>1, <2>2, <2>3, QuotedTurn
<1> QED BY <1>13, <1>14

(* The other loop returns what Until does.                                 *)
LEMMA BareAgrees ==
    ASSUME TypeOK, BareLoop, pc = "bare", Next, pc' = "done"
    PROVE  ret' = Read(b, call.delim)
<1> DEFINE B == {call.delim, Comma}
<1>0. b # <<>> /\ b[1] # Quote /\ i \in 0 .. Len(b) /\ b \in Bytes /\ Len(b) \in Nat
  BY DEF BareLoop, TypeOK, Call, b, Bytes
<1>1. Read(b, call.delim) = Until(b, B)
  BY <1>0 DEF Read, Bytes
<1>2. \A j \in 1 .. i : b[j] \notin B
  BY DEF BareLoop
<1> HIDE DEF B
<1>3. CASE /\ i + 1 <= Len(b) /\ b[i + 1] \in B
           /\ ret' = [res |-> SubSeq(b, 1, i), read |-> i, ok |-> TRUE]
  <2>1. i + 1 \in 1 .. Len(b) /\ (i + 1) - 1 = i
    BY <1>0, <1>3
  <2>2. Until(b, B) = [res |-> SubSeq(b, 1, i), read |-> i, ok |-> TRUE]
    BY <1>0, <1>2, <1>3, <2>1, UntilFirst
  <2> QED BY <1>1, <1>3, <2>2
<1>4. CASE i >= Len(b) /\ ret' = Failed
  <2>1. i = Len(b)
    BY <1>0, <1>4
  <2>2. ~Has(b, B)
    BY <1>0, <1>2, <2>1 DEF Has, Bytes
  <2> QED BY <1>1, <1>4, <2>2 DEF Until
<1> QED BY <1>3, <1>4, OtherTurn DEF B

LEMMA AgreeStep ==
    TypeOK /\ Fresh /\ QuotedLoop /\ BareLoop /\ QuotedSoFar /\ LoopsAgree /\ Next
        => QuotedSoFar' /\ LoopsAgree'
<1> SUFFICES ASSUME TypeOK, Fresh, QuotedLoop, BareLoop, QuotedSoFar, LoopsAgree, Next
             PROVE  QuotedSoFar' /\ LoopsAgree'
    OBVIOUS
<1>t. call' = call /\ b' = b  BY CallKept
<1>1. CASE pc = "quoted"
    BY <1>t, <1>1, QuotedAgrees DEF QuotedSoFar, QuotedUpTo, LoopsAgree
<1>2. CASE pc = "call"
    <2>1. pc' = "quoted" => b # <<>> /\ i' = 1 /\ buf' = <<>>
        BY <1>2, OtherTurn DEF Fresh
    <2>2. pc' = "quoted" => QuotedUpTo(1) = [mode |-> "inside", text |-> buf', read |-> i']
        BY <2>1, QuotedUpToFacts DEF QuotedStart
    <2>3. pc' # "done"  BY <1>2, OtherTurn
    <2>4. QED  BY <1>t, <2>1, <2>2, <2>3 DEF QuotedSoFar, QuotedUpTo, LoopsAgree
<1>3. CASE pc = "bare"
    <2>1. pc' # "quoted"  BY <1>3, OtherTurn
    <2>2. QED  BY <1>t, <1>3, <2>1, BareAgrees DEF QuotedSoFar, LoopsAgree
<1>4. CASE pc \in {"done", "panic"}
    <2>1. UNCHANGED vars  BY <1>4, OtherTurn
    <2>2. QED  BY <1>4, <1>t, <2>1 DEF vars, QuotedSoFar, LoopsAgree
<1>5. QED  BY <1>1, <1>2, <1>3, <1>4 DEF TypeOK

LEMMA StepInv == IInv /\ [Next]_vars => IInv'
<1> SUFFICES ASSUME IInv, [Next]_vars PROVE IInv'
    OBVIOUS
<1>1. CASE Next
    BY <1>1, TypeStep, FreshStep, QuotedStep, BareStep, AgreeStep DEF IInv
<1>2. CASE UNCHANGED vars
    <2>1. UNCHANGED <<call, pc, i, buf, ret>> /\ UNCHANGED b
        BY <1>2 DEF vars, b
    <2>2. TypeOK' /\ Fresh' /\ BareLoop' /\ BareReadBack' /\ ZeroIsNull'
        BY <2>1 DEF IInv, TypeOK, Fresh, BareLoop, BareReadBack, ZeroIsNull, BareText, ByteAt
    <2>3. QuotedLoop' /\ QuotedReadBack'
        BY <2>1 DEF IInv, QuotedLoop, QuotedReadBack, QuotedText, ByteAt, NamedByte, Named, UpTo
    <2>4. QuotedSoFar' /\ LoopsAgree'
        BY <2>1 DEF IInv, QuotedSoFar, QuotedUpTo, LoopsAgree
    <2>5. QED  BY <2>2, <2>3, <2>4 DEF IInv
<1>3. QED  BY <1>1, <1>2

LEMMA Inductive == Spec => []IInv
BY InitInv, StepInv, PTL DEF Spec

(* No byte behind the end of b is looked at or counted, and what comes     *)
(* back is a string of bytes.                                              *)
THEOREM TypeCorrect == Spec => []TypeOK
BY Inductive, PTL DEF IInv

(* A quoted string of any length is read back as it was, whichever of the  *)
(* two ways of quoting each of its bytes was written in; but one in which  *)
(* strconv.Quote has named a character is refused.                         *)
THEOREM QuotedStringsReadBack == Spec => []QuotedReadBack
BY Inductive, PTL DEF IInv

(* A string that needs no quotes is read back as it was, up to the         *)
(* delimiter and not over it.                                              *)
THEOREM BareStringsReadBack == Spec => []BareReadBack
BY Inductive, PTL DEF IInv

(* What the generated code takes for an absent column is one.              *)
THEOREM ZeroMeansAbsent == Spec => []ZeroIsNull
BY Inductive, PTL DEF IInv

(* The two loops return, for every slice, what the statements of Scan are  *)
(* taken to get from them in one step (Literal, Read).                     *)
THEOREM LoopsAreRead == Spec => []LoopsAgree
BY Inductive, PTL DEF IInv
=============================================================================
