------------------------------- MODULE Literal -------------------------------
(***************************************************************************)
(* The text that generated code exchanges with PostgreSQL, as sequences of *)
(* bytes: what strconv.Quote makes of a string, how PostgreSQL writes a    *)
(* composite value or an array and how it reads a composite value          *)
(* (https://www.postgresql.org/docs/current/rowtypes.html, which           *)
(* src/README.md:4 names), and what __intrinsic_readString, the reader     *)
(* that is pasted into every generated file, returns.                      *)
(***************************************************************************)
EXTENDS Naturals, Sequences

CONSTANTS Quote, Backslash, Comma, Open, Close, LBrace, RBrace,
          Newline,   \* stands for the characters that strconv.Quote names
          EnByte,    \* the letter n, by which it names it
          Letter,    \* the other bytes
          Null       \* the SQL null, which is no text

Special == {Quote, Backslash, Comma, Open, Close, LBrace, RBrace, Newline}
AnyByte == Special \cup Letter
Bytes == Seq(AnyByte)

ASSUME LetterAssumption == EnByte \in Letter /\ Letter \cap Special = {}
ASSUME SpecialAssumption ==
    /\ Quote \notin {Backslash, Comma, Open, Close, LBrace, RBrace, Newline}
    /\ Backslash \notin {Comma, Open, Close, LBrace, RBrace, Newline}
    /\ Comma \notin {Open, Close, LBrace, RBrace, Newline}
    /\ Open \notin {Close, LBrace, RBrace, Newline}
    /\ Close \notin {LBrace, RBrace, Newline}
    /\ LBrace \notin {RBrace, Newline}
    /\ RBrace # Newline
ASSUME NullAssumption == Null \notin Bytes

Has(s, B) == \E i \in DOMAIN s : s[i] \in B

(* Where step leads from x, by one element of s after the other. *)
Scanned(step, x, s) ==
    LET At[k \in 0 .. Len(s)] == IF k = 0 THEN x ELSE step[<<At[k - 1], s[k]>>]
    IN  At[Len(s)]

Surrounded(open, s, close) == <<open>> \o s \o <<close>>

(* The texts of ts with a comma before each, and with one between them. *)
Joined(ts) == Scanned([p \in Bytes \X Bytes |-> p[1] \o <<Comma>> \o p[2]], <<>>, ts)
Commas(ts) == IF ts = <<>> THEN <<>> ELSE Tail(Joined(ts))

(* s with a text for every byte. *)
Replaced(s, text) ==
    Scanned([p \in Bytes \X AnyByte |-> p[1] \o text[p[2]]], <<>>, s)

Doubled   == [c \in AnyByte |-> IF c \in {Quote, Backslash} THEN <<c, c>> ELSE <<c>>]
Escaped   == [c \in AnyByte |-> IF c \in {Quote, Backslash} THEN <<Backslash, c>> ELSE <<c>>]
GoEscaped == [Escaped EXCEPT ![Newline] = <<Backslash, EnByte>>]

(* strconv.Quote *)
GoQuote(s) == Surrounded(Quote, Replaced(s, GoEscaped), Quote)

(* record_out: what must be quoted is, with quotes and backslashes doubled. *)
PgColumn(s) ==
    IF s = Null THEN <<>>
    ELSE IF s = <<>> \/ Has(s, Special \ {LBrace, RBrace})
    THEN Surrounded(Quote, Replaced(s, Doubled), Quote)
    ELSE s

Columns(cols) == [i \in DOMAIN cols |-> PgColumn(cols[i])]

PgRecord(cols) == Surrounded(Open, Commas(Columns(cols)), Close)

(* How many bytes of it are before column j. *)
Start(cols, j) == Len(Joined(SubSeq(Columns(cols), 1, j - 1))) + 1

(* array_out: the same with backslashes, and other bytes that need quotes. *)
PgElement(s) ==
    IF s = <<>> \/ Has(s, Special \ {Open, Close})
    THEN Surrounded(Quote, Replaced(s, Escaped), Quote)
    ELSE s

PgArray(elems) ==
    Surrounded(LBrace, Commas([i \in DOMAIN elems |-> PgElement(elems[i])]), RBrace)

(***************************************************************************)
(* record_in, a byte at a time.  mode is "start" of a column, "bare",      *)
(* "quoted", "closing" after a quote that may be the first of two,         *)
(* "bareEscape" or "quotedEscape" after a backslash, "end", "malformed".   *)
(***************************************************************************)
PgState == [cols: Seq(Bytes \cup {Null}), text: Bytes,
            mode: {"start", "bare", "quoted", "closing", "bareEscape", "quotedEscape",
                   "end", "malformed"}]

Column(r) == IF r.mode = "start" THEN Null ELSE r.text

PgByte(r, c) ==
    CASE r.mode \in {"end", "malformed"} -> [r EXCEPT !.mode = "malformed"]
      [] r.mode = "bareEscape" -> [r EXCEPT !.mode = "bare", !.text = Append(@, c)]
      [] r.mode = "quotedEscape" -> [r EXCEPT !.mode = "quoted", !.text = Append(@, c)]
      [] r.mode = "quoted" ->
            CASE c = Quote -> [r EXCEPT !.mode = "closing"]
              [] c = Backslash -> [r EXCEPT !.mode = "quotedEscape"]
              [] OTHER -> [r EXCEPT !.text = Append(@, c)]
      [] r.mode = "closing" /\ c = Quote ->
            [r EXCEPT !.mode = "quoted", !.text = Append(@, c)]
      [] OTHER ->
            CASE c = Comma -> [cols |-> Append(r.cols, Column(r)), text |-> <<>>, mode |-> "start"]
              [] c = Close -> [cols |-> Append(r.cols, Column(r)), text |-> <<>>, mode |-> "end"]
              [] c = Quote -> [r EXCEPT !.mode = "quoted"]
              [] c = Backslash -> [r EXCEPT !.mode = "bareEscape"]
              [] OTHER -> [r EXCEPT !.mode = "bare", !.text = Append(@, c)]

PgStart == [cols |-> <<>>, text |-> <<>>, mode |-> "start"]

PgRead(r, s) == Scanned([p \in PgState \X AnyByte |-> PgByte(p[1], p[2])], r, s)

PgColumns(s) ==
    LET r == PgRead(PgStart, Tail(s))
    IN  IF s # <<>> /\ Head(s) = Open /\ r.mode = "end" THEN r.cols ELSE <<>>

(***************************************************************************)
(* __intrinsic_readString(b, delim) for a b that is not empty.  After its  *)
(* quote a quoted b is taken a byte at a time: mode is "inside", "quote"   *)
(* after a quote that may be the first of two, "escape" after a backslash, *)
(* "closed" or "failed"; read counts the bytes.                            *)
(***************************************************************************)
Failed == [res |-> <<>>, read |-> 0, ok |-> FALSE]

QuotedState == [mode: {"inside", "quote", "escape", "closed", "failed"},
                text: Bytes, read: Nat]

QuotedByte(r, c) ==
    LET To(mode, text) == [mode |-> mode, text |-> text, read |-> r.read + 1] IN
    CASE r.mode \in {"closed", "failed"} -> r
      [] r.mode = "quote" /\ c # Quote -> [r EXCEPT !.mode = "closed"]
      [] r.mode = "escape" /\ c \notin {Quote, Backslash} -> [r EXCEPT !.mode = "failed"]
      [] r.mode = "inside" /\ c = Quote -> To("quote", r.text)
      [] r.mode = "inside" /\ c = Backslash -> To("escape", r.text)
      [] OTHER -> To("inside", Append(r.text, c))

QuotedStart == [mode |-> "inside", text |-> <<>>, read |-> 1]

QuotedRead(r, s) == Scanned([p \in QuotedState \X AnyByte |-> QuotedByte(p[1], p[2])], r, s)

Unquoted(b) ==
    LET r == QuotedRead(QuotedStart, Tail(b))
    IN  IF r.mode \in {"quote", "closed"} THEN [res |-> r.text, read |-> r.read, ok |-> TRUE]
        ELSE Failed

Until(b, delims) ==
    IF Has(b, delims)
    THEN LET i == CHOOSE k \in DOMAIN b : /\ b[k] \in delims
                                          /\ \A j \in 1 .. k - 1 : b[j] \notin delims
         IN  [res |-> SubSeq(b, 1, i - 1), read |-> i - 1, ok |-> TRUE]
    ELSE Failed

Read(b, delim) == IF Head(b) = Quote THEN Unquoted(b) ELSE Until(b, {delim, Comma})
=============================================================================
