----------------------------- MODULE ReadString -----------------------------
(***************************************************************************)
(* One call of __intrinsic_readString, the function that pggen pastes into *)
(* every file it generates (src/cmd/pggen/main.go:53): it takes the next   *)
(* literal off the front of b, quoted or up to a delimiter, and says how   *)
(* many bytes it has read.  One step is one turn of its loops.             *)
(*                                                                         *)
(* Indices count from 0 as in the code: b[i] of the code is At(i).         *)
(***************************************************************************)
EXTENDS Literal

CONSTANT Calls      \* the arguments it is called with, and what they stand for

(* text is what the literal at the front of b was written for and start    *)
(* where each of its bytes is found: start[k] is the index after the k-th. *)
Call == [b: Bytes, delim: AnyByte \cup {Null}, text: Bytes, start: Seq(Nat)]

ASSUME CallsAssumption == Calls \subseteq Call

VARIABLES call,   \* the arguments
          pc,     \* in which loop the function is, or how it has ended
          i,      \* the loop variable
          buf,    \* buf
          ret     \* what it has returned

vars == <<call, pc, i, buf, ret>>

b == call.b
At(j) == b[j + 1]

(* b[0] of an empty slice panics. *)
Empty == /\ pc = "call" /\ b = <<>>
         /\ pc' = "panic"
         /\ UNCHANGED <<call, i, buf, ret>>

Switch == /\ pc = "call" /\ b # <<>>
          /\ IF At(0) = Quote THEN pc' = "quoted" /\ i' = 1
                              ELSE pc' = "bare" /\ i' = 0
          /\ UNCHANGED <<call, buf, ret>>

Return(r) == /\ pc' = "done"
             /\ ret' = r
             /\ UNCHANGED <<call, i, buf>>

(* Take c into buf and go on behind the n bytes that stand for it. *)
Take(c, n) == /\ buf' = Append(buf, c)
              /\ i' = i + n
              /\ UNCHANGED <<call, pc, ret>>

Twice(c) == i + 1 < Len(b) /\ At(i + 1) = c

(* Mutation of DoubledQuote: the second quote is left for the next turn. *)
QuoteOnce == /\ pc = "quoted" /\ i < Len(b)
             /\ At(i) = Quote /\ Twice(Quote)
             /\ Take(Quote, 1)

DoubledQuote == /\ pc = "quoted" /\ i < Len(b)
                /\ At(i) = Quote /\ Twice(Quote)
                /\ Take(Quote, 2)

(* Mutation of ClosingQuote: the index is advanced once more.              *)
ClosingQuotePast == /\ pc = "quoted" /\ i < Len(b)
                    /\ At(i) = Quote /\ ~Twice(Quote)
                    /\ Return([res |-> buf, read |-> i + 2, ok |-> TRUE])

ClosingQuote == /\ pc = "quoted" /\ i < Len(b)
                /\ At(i) = Quote /\ ~Twice(Quote)
                /\ Return([res |-> buf, read |-> i + 1, ok |-> TRUE])

(* Mutation of Escape: any byte may follow the backslash. *)
EscapeAny == /\ pc = "quoted" /\ i < Len(b) /\ At(i) = Backslash
             /\ i + 1 < Len(b)
             /\ Take(At(i + 1), 2)

Escape == /\ pc = "quoted" /\ i < Len(b) /\ At(i) = Backslash
          /\ Twice(Quote) \/ Twice(Backslash)
          /\ Take(At(i + 1), 2)

BadEscape == /\ pc = "quoted" /\ i < Len(b) /\ At(i) = Backslash
             /\ ~Twice(Quote) /\ ~Twice(Backslash)
             /\ Return(Failed)

Plain == /\ pc = "quoted" /\ i < Len(b) /\ At(i) \notin {Quote, Backslash}
         /\ Take(At(i), 1)

Unclosed == /\ pc = "quoted" /\ i >= Len(b)
            /\ Return(Failed)

Skip == /\ pc = "bare" /\ i < Len(b) /\ At(i) \notin {call.delim, Comma}
        /\ i' = i + 1
        /\ UNCHANGED <<call, pc, buf, ret>>

(* Mutation of Delimited: the delimiter is read too. *)
DelimitedRead == /\ pc = "bare" /\ i < Len(b) /\ At(i) \in {call.delim, Comma}
                 /\ Return([res |-> SubSeq(b, 1, i), read |-> i + 1, ok |-> TRUE])

Delimited == /\ pc = "bare" /\ i < Len(b) /\ At(i) \in {call.delim, Comma}
             /\ Return([res |-> SubSeq(b, 1, i), read |-> i, ok |-> TRUE])

(* Mutation of Undelimited: the error is forgotten. *)
UndelimitedOk == /\ pc = "bare" /\ i >= Len(b)
                 /\ Return([Failed EXCEPT !.ok = TRUE])

Undelimited == /\ pc = "bare" /\ i >= Len(b)
               /\ Return(Failed)

Init == /\ call \in Calls
        /\ pc = "call" /\ i = 0 /\ buf = <<>> /\ ret = Failed

Step == \/ Empty \/ Switch
        \/ DoubledQuote \/ ClosingQuote \/ Escape \/ BadEscape \/ Plain \/ Unclosed
        \/ Skip \/ Delimited \/ Undelimited

Terminated == pc \in {"done", "panic"} /\ UNCHANGED vars

Next == Step \/ Terminated

Spec == Init /\ [][Next]_vars

-----------------------------------------------------------------------------
(* The state is well formed, and no byte behind b is ever looked at.       *)
TypeOK == /\ call \in Call
          /\ pc \in {"call", "quoted", "bare", "done", "panic"}
          /\ i \in 0 .. Len(b)
          /\ buf \in Bytes
          /\ ret \in [res: Bytes, read: 0 .. Len(b), ok: BOOLEAN]

(* The k-th byte of the text lies at start[k]: as it is, or, if it is a    *)
(* quote or a backslash, behind a backslash or behind itself.              *)
ByteAt(c, k) ==
    LET p == c.start[k] IN
    IF c.text[k] \in {Quote, Backslash}
    THEN /\ c.start[k + 1] = p + 2 /\ p + 2 <= Len(c.b)
         /\ c.b[p + 2] = c.text[k] /\ c.b[p + 1] \in {Backslash, c.text[k]}
    ELSE /\ c.start[k + 1] = p + 1 /\ p + 1 <= Len(c.b)
         /\ c.b[p + 1] = c.text[k]

(* A character that strconv.Quote names lies there as a backslash and the  *)
(* name.  PostgreSQL writes the same character as it is (ByteAt).          *)
NamedByte(c, k) ==
    LET p == c.start[k] IN
    /\ c.text[k] = Newline
    /\ c.start[k + 1] = p + 2 /\ p + 2 <= Len(c.b)
    /\ c.b[p + 1] = Backslash /\ c.b[p + 2] = EnByte

Named(c) == \E k \in 1 .. Len(c.text) : NamedByte(c, k)

(* b begins with a quoted literal of the text.                             *)
QuotedText(c) ==
    /\ Len(c.start) = Len(c.text) + 1 /\ c.start[1] = 1
    /\ c.b # <<>> /\ c.b[1] = Quote
    /\ \A k \in 1 .. Len(c.text) : ByteAt(c, k) \/ NamedByte(c, k)
    /\ LET p == c.start[Len(c.text) + 1] IN
       /\ p + 1 <= Len(c.b) /\ c.b[p + 1] = Quote
       /\ p + 2 <= Len(c.b) => c.b[p + 2] # Quote

(* b begins with the text as it is and a delimiter after it.               *)
BareText(c) ==
    /\ Len(c.text) < Len(c.b) /\ c.b[1] # Quote
    /\ \A k \in 1 .. Len(c.text) : c.b[k] = c.text[k] /\ c.b[k] \notin {c.delim, Comma}
    /\ c.b[Len(c.text) + 1] \in {c.delim, Comma}

(* A string that was quoted, by strconv.Quote as Value does or with the    *)
(* doubling of PostgreSQL, is read back as it was, with quotes, delimiters *)
(* and backslashes in it, and the cursor of the caller ends right behind   *)
(* the closing quote.  A string in which strconv.Quote has named a         *)
(* character, wherever in it that is, comes back as an error and never as  *)
(* a part of the string (main.go:81): the reader does not read all that    *)
(* Value writes.                                                           *)
QuotedReadBack ==
    pc = "done" /\ QuotedText(call) =>
        ret = IF Named(call) THEN Failed
              ELSE [res |-> call.text, read |-> call.start[Len(call.text) + 1] + 1, ok |-> TRUE]

(* A string that needs no quotes is read up to its delimiter, and the      *)
(* cursor of the caller ends on the delimiter.                             *)
BareReadBack ==
    pc = "done" /\ BareText(call) =>
        ret = [res |-> call.text, read |-> Len(call.text), ok |-> TRUE]

(* The generated code takes n = 0 for a column that is not there           *)
(* (main.go:753): without an error that happens only for a delimiter, and  *)
(* never for an empty string in quotes.                                    *)
ZeroIsNull ==
    pc = "done" /\ ret.ok /\ ret.read = 0 => b[1] \in {call.delim, Comma}

(* What the generated code is taken to get in one step (Literal, Read) is  *)
(* what the loops return.                                                  *)
LoopsAgree == pc = "done" => ret = Read(b, call.delim)
=============================================================================
