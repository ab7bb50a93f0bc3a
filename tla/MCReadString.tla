---------------------------- MODULE MCReadString ----------------------------
(***************************************************************************)
(* All short strings as strconv.Quote and as PostgreSQL write them, in     *)
(* front of what may follow in a record, and all short sequences of bytes. *)
(***************************************************************************)
EXTENDS ReadString

Texts(B, n) == UNION {[1 .. m -> B] : m \in 0 .. n}

(* Where the bytes of s lie when w(c) bytes are written for the byte c. *)
Starts(s, w(_)) ==
    LET Offset[k \in 1 .. Len(s) + 1] == IF k = 1 THEN 1 ELSE Offset[k - 1] + w(s[k - 1])
    IN  [k \in 1 .. Len(s) + 1 |-> Offset[k]]

PgWidth(c) == IF c \in {Quote, Backslash} THEN 2 ELSE 1
GoWidth(c) == IF c = Newline THEN 2 ELSE PgWidth(c)

Written(lit, rest, s, w(_)) ==
    [b |-> lit \o rest, delim |-> Close, text |-> s, start |-> Starts(s, w)]

Rests == {<<>>, <<Close>>, <<Comma, Close>>, <<Comma, Quote>>, <<Comma, EnByte>>}

Some == {Quote, Backslash, Comma, Close, Newline, EnByte}

(* What was quoted or left as it is, with the columns that follow it; and  *)
(* anything at all, for the errors.                                        *)
MCCalls ==
    UNION {{Written(GoQuote(s), rest, s, GoWidth)}
              \cup {Written(lit, rest, s, PgWidth) : lit \in {s, PgColumn(s)}} :
              s \in Texts(Some, 3), rest \in Rests}
    \cup {[b |-> s, delim |-> Close, text |-> <<>>, start |-> <<>>] :
              s \in Texts(Some \ {Comma, Newline}, 4)}
=============================================================================
