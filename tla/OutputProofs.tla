----------------------------- MODULE OutputProofs -----------------------------
(***************************************************************************)
(* What Output.tla claims of the generated file, proved for any types and  *)
(* any number of edits and of faults.                                      *)
(***************************************************************************)
EXTENDS Output, SequenceTheorems, TLAPS

Opened == {"print", "printing", "reader", "stringer"}

(* The file that a run has opened is there, and holds one piece of code    *)
(* once the printer has begun.                                             *)
OpenFile ==
    /\ pc \in Opened => file \in Seq(Piece)
    /\ pc = "printing" => \E state \in {"cut", "torn"} :
                              file = <<[Whole("code", Written) EXCEPT !.state = state]>>

(* What a run that nobody disturbs has read is the package as it is, ...   *)
ReadAsIs ==
    quiet => /\ pc \in {"check", "generate", "create"} \cup Opened => asked = source.types
             /\ pc \in {"generate", "create"} \cup Opened => made = source

(* ... and what it has written is made of that.                            *)
WrittenAsIs ==
    quiet => /\ pc = "reader" => file = <<Whole("code", source)>>
             /\ pc = "stringer" => file = <<Whole("code", source), Whole("reader", source)>>

IInv == TypeOK /\ OpenFile /\ ReadAsIs /\ WrittenAsIs /\ RefusalKeepsFile /\ DoneIsRight

LEMMA InitInv == Init => IInv
<1> SUFFICES ASSUME Init PROVE IInv
    OBVIOUS
<1>1. source \in Source /\ asked = {} /\ made = source
    BY BoundsAssumption DEF Init, Source
<1>2. TypeOK
    BY <1>1, BoundsAssumption DEF Init, TypeOK
<1>3. QED
    BY <1>2 DEF Init, IInv, OpenFile, ReadAsIs, WrittenAsIs, RefusalKeepsFile, DoneIsRight, Opened

(* A package made of the asked types of the checked one is a package.      *)
LEMMA WrittenTyped == TypeOK => /\ Written \in Source
                                /\ Written.types = asked /\ Written.edit = made.edit
BY DEF TypeOK, Written, Source

(* The package is its types and its edit: what is written is the package   *)
(* when both were read from it.                                            *)
LEMMA WrittenIsSource ==
    TypeOK /\ made = source /\ asked = source.types => Written = source
BY DEF TypeOK, Written, Source

LEMMA PieceTyped ==
    ASSUME NEW what \in {"code", "reader", "stringer"}, NEW of \in Source,
           NEW state \in {"whole", "cut", "torn"}
    PROVE  /\ Whole(what, of) \in Piece
           /\ [Whole(what, of) EXCEPT !.state = state] \in Piece
           /\ [[Whole(what, of) EXCEPT !.state = state] EXCEPT !.state = "whole"] = Whole(what, of)
<1> DEFINE part == [Whole(what, of) EXCEPT !.state = state]
<1>1. Whole(what, of) = [what |-> what, state |-> "whole", of |-> of]
    BY DEF Whole
<1>2. part = [what |-> what, state |-> state, of |-> of]
    BY <1>1
<1>3. Whole(what, of) \in Piece /\ part \in Piece
    BY <1>1, <1>2 DEF Piece
<1> HIDE DEF part
<1>4. [part EXCEPT !.state = "whole"] = Whole(what, of)
    BY <1>1, <1>2
<1>5. QED
    BY <1>3, <1>4 DEF part

LEMMA OneAndMore ==
    ASSUME NEW S, NEW a \in S, NEW s \in Seq(S)
    PROVE  <<a>> \in Seq(S) /\ Append(s, a) \in Seq(S) /\ Append(<<>>, a) = <<a>>
OBVIOUS

LEMMA AppendSecond ==
    ASSUME NEW S, NEW a \in S, NEW b \in S
    PROVE  Append(<<a>>, b) = <<a, b>>
<1>1. <<a>> \in Seq(S) /\ <<a, b>> \in Seq(S)
    OBVIOUS
<1>2. Append(<<a>>, b) \in Seq(S)
    BY <1>1, AppendProperties
<1>3. PICK x \in Seq(S), y \in Seq(S) : x = Append(<<a>>, b) /\ y = <<a, b>>
    BY <1>1, <1>2
<1>4. Len(x) = 2 /\ Len(y) = 2 /\ x[1] = y[1] /\ x[2] = y[2]
    BY <1>3
<1>5. Len(x) = Len(y) /\ \A i \in 1 .. Len(x) : x[i] = y[i]
    BY <1>4
<1>6. x = y
    BY <1>5, SeqEqual
<1>7. QED
    BY <1>3, <1>6

LEMMA AppendThird ==
    ASSUME NEW S, NEW a \in S, NEW b \in S, NEW c \in S
    PROVE  Append(<<a, b>>, c) = <<a, b, c>>
<1>1. <<a, b>> \in Seq(S) /\ <<a, b, c>> \in Seq(S)
    OBVIOUS
<1>2. Append(<<a, b>>, c) \in Seq(S)
    BY <1>1, AppendProperties
<1>3. PICK x \in Seq(S), y \in Seq(S) : x = Append(<<a, b>>, c) /\ y = <<a, b, c>>
    BY <1>1, <1>2
<1>4. Len(x) = 3 /\ Len(y) = 3 /\ x[1] = y[1] /\ x[2] = y[2] /\ x[3] = y[3]
    BY <1>3
<1>5. Len(x) = Len(y) /\ \A i \in 1 .. Len(x) : x[i] = y[i]
    BY <1>4
<1>6. x = y
    BY <1>5, SeqEqual
<1>7. QED
    BY <1>3, <1>6

(* The printer ends with the one piece whole. *)
LEMMA PrintedWhole ==
    ASSUME TypeOK, OpenFile, PrintRest
    PROVE  file' = <<Whole("code", Written)>>
<1>1. PICK state \in {"cut", "torn"} :
          file = <<[Whole("code", Written) EXCEPT !.state = state]>>
    BY DEF OpenFile, PrintRest
<1> DEFINE piece == [Whole("code", Written) EXCEPT !.state = state]
<1>2. file = <<piece>> /\ Len(file) = 1 /\ file[1] = piece
    BY <1>1
<1>3. file' = [file EXCEPT ![1] = [piece EXCEPT !.state = "whole"]]
    BY <1>2 DEF PrintRest
<1>4. [piece EXCEPT !.state = "whole"] = Whole("code", Written)
    BY WrittenTyped, PieceTyped
<1> HIDE DEF piece
<1>5. QED
    BY <1>2, <1>3, <1>4

LEMMA TypeStep == TypeOK /\ OpenFile /\ [Next]_vars => TypeOK'
<1> SUFFICES ASSUME TypeOK, OpenFile, [Next]_vars PROVE TypeOK'
    OBVIOUS
<1>w. /\ Written \in Source
      /\ source.edit \in Nat /\ source.types \subseteq Type /\ MaxEdits \in Nat /\ MaxFaults \in Nat
      /\ faults \in Nat
    BY WrittenTyped, BoundsAssumption DEF TypeOK, Source
<1> USE DEF TypeOK, history
<1>1. CASE Edit
    <2>1. PICK T \in SUBSET Type : source' = [types |-> T, edit |-> source.edit + 1]
        BY <1>1 DEF Edit
    <2>2. source' \in Source
        BY <1>1, <2>1, <1>w DEF Edit, Source
    <2>3. QED  BY <1>1, <2>2 DEF Edit
<1>2. CASE Delete  BY <1>2 DEF Delete, Refused
<1>3. CASE Start  BY <1>3 DEF Start
<1>4. CASE Parse  BY <1>4, <1>w DEF Parse
<1>5. CASE ParseFails  BY <1>5 DEF ParseFails, Fail
<1>6. CASE Check  BY <1>6 DEF Check
<1>7. CASE CheckFails  BY <1>7 DEF CheckFails, Fail
<1>8. CASE Generate  BY <1>8 DEF Generate
<1>9. CASE GenerateFails  BY <1>9 DEF GenerateFails, Fail
<1>10. CASE Create
    <2>1. <<>> \in Seq(Piece)  OBVIOUS
    <2>2. QED  BY <1>10, <2>1 DEF Create
<1>11. CASE PrintSome
    <2>1. PICK state \in {"cut", "torn"} :
              file' = Append(file, [Whole("code", Written) EXCEPT !.state = state])
        BY <1>11 DEF PrintSome
    <2>2. [Whole("code", Written) EXCEPT !.state = state] \in Piece
        BY <1>w, PieceTyped
    <2>3. file' \in Seq(Piece)
        BY <1>11, <2>1, <2>2 DEF PrintSome, OpenFile, Opened
    <2>4. QED  BY <1>11, <2>3 DEF PrintSome
<1>12. CASE PrintRest
    <2>1. Whole("code", Written) \in Piece  BY <1>w, PieceTyped
    <2>2. PICK p \in Piece : file' = <<p>>  BY <1>12, <2>1, PrintedWhole
    <2>4. file' \in Seq(Piece)  BY <2>2, OneAndMore
    <2>3. QED  BY <1>12, <2>4 DEF PrintRest
<1>13. CASE WriteReader
    <2>1. Whole("reader", Written) \in Piece  BY <1>w, PieceTyped
    <2>2. QED  BY <1>13, <2>1 DEF WriteReader, WriteText, OpenFile, Opened
<1>14. CASE WriteStringer
    <2>1. Whole("stringer", Written) \in Piece  BY <1>w, PieceTyped
    <2>2. QED  BY <1>14, <2>1 DEF WriteStringer, WriteText, OpenFile, Opened
<1>15. CASE FileFails  BY <1>15, <1>w DEF FileFails, Fault, Fail
<1>16. CASE ReaderFails
    <2>1. [Whole("reader", Written) EXCEPT !.state = "torn"] \in Piece  BY <1>w, PieceTyped
    <2>2. file \in Seq(Piece)
        BY <1>16 DEF ReaderFails, TextFails, OpenFile, Opened
    <2>3. file' \in Seq(Piece)
        BY <1>16, <2>1, <2>2, OneAndMore DEF ReaderFails, TextFails
    <2>4. /\ pc' \in {"stringer", "idle"} /\ exit' \in {"none", "ok", "error", "killed"}
          /\ quiet' \in BOOLEAN /\ faults' \in 0 .. MaxFaults
        <3>1. faults' = faults + 1 /\ faults < MaxFaults
            BY <1>16 DEF ReaderFails, TextFails, Fault
        <3>2. faults' \in 0 .. MaxFaults  BY <3>1, <1>w
        <3>3. QED  BY <1>16, <3>2 DEF ReaderFails, TextFails
    <2>5. source' = source /\ made' = made /\ asked' = asked /\ before' = before
        BY <1>16 DEF ReaderFails, TextFails
    <2>6. QED  BY <2>3, <2>4, <2>5
<1>17. CASE StringerFails
    <2>1. [Whole("stringer", Written) EXCEPT !.state = "torn"] \in Piece  BY <1>w, PieceTyped
    <2>2. file \in Seq(Piece)
        BY <1>17 DEF StringerFails, TextFails, OpenFile, Opened
    <2>3. file' \in Seq(Piece)
        BY <1>17, <2>1, <2>2, OneAndMore DEF StringerFails, TextFails
    <2>4. /\ pc' \in {"stringer", "idle"} /\ exit' \in {"none", "ok", "error", "killed"}
          /\ quiet' \in BOOLEAN /\ faults' \in 0 .. MaxFaults
        <3>1. faults' = faults + 1 /\ faults < MaxFaults
            BY <1>17 DEF StringerFails, TextFails, Fault
        <3>2. faults' \in 0 .. MaxFaults  BY <3>1, <1>w
        <3>3. QED  BY <1>17, <3>2 DEF StringerFails, TextFails
    <2>5. source' = source /\ made' = made /\ asked' = asked /\ before' = before
        BY <1>17 DEF StringerFails, TextFails
    <2>6. QED  BY <2>3, <2>4, <2>5
<1>18. CASE Kill  BY <1>18, <1>w DEF Kill, Fault
<1>19. CASE UNCHANGED vars  BY <1>19 DEF vars
<1>20. QED
    BY <1>1, <1>2, <1>3, <1>4, <1>5, <1>6, <1>7, <1>8, <1>9, <1>10, <1>11, <1>12,
       <1>13, <1>14, <1>15, <1>16, <1>17, <1>18, <1>19 DEF Next, Run

(* Edit ends the quiet; every step of a run that is quiet writes what was  *)
(* read, and what was read is the package.                                 *)
LEMMA InvStep == IInv /\ [Next]_vars => IInv'
<1> SUFFICES ASSUME IInv, [Next]_vars PROVE IInv'
    OBVIOUS
<1>t. TypeOK'  BY TypeStep DEF IInv
<1> SUFFICES (OpenFile /\ ReadAsIs /\ WrittenAsIs /\ RefusalKeepsFile /\ DoneIsRight)'
    BY <1>t DEF IInv
<1> USE DEF IInv, OpenFile, ReadAsIs, WrittenAsIs, RefusalKeepsFile, DoneIsRight, Opened, history
<1>1. CASE Edit
    <2>1. /\ quiet' = FALSE /\ pc' = pc /\ file' = file /\ before' = before
          /\ Written' = Written /\ exit' = exit
        BY <1>1 DEF Edit, Written
    <2>2. QED  BY <2>1
<1>2. CASE Delete  BY <1>2 DEF Delete, Refused
<1>3. CASE Start  BY <1>3 DEF Start
<1>4. CASE Parse  BY <1>4 DEF Parse
<1>5. CASE ParseFails  BY <1>5 DEF ParseFails, Fail
<1>6. CASE Check  BY <1>6 DEF Check
<1>7. CASE CheckFails  BY <1>7 DEF CheckFails, Fail
<1>8. CASE Generate  BY <1>8 DEF Generate
<1>9. CASE GenerateFails  BY <1>9 DEF GenerateFails, Fail
<1>10. CASE Create  BY <1>10 DEF Create
<1>11. CASE PrintSome
    <2>1. PICK state \in {"cut", "torn"} :
              file' = Append(file, [Whole("code", Written) EXCEPT !.state = state])
        BY <1>11 DEF PrintSome
    <2>2. /\ pc = "print" /\ file = <<>> /\ pc' = "printing" /\ Written' = Written
          /\ asked' = asked /\ made' = made /\ source' = source /\ quiet' = quiet
        BY <1>11 DEF PrintSome, TypeOK, Written
    <2>3. file' = <<[Whole("code", Written') EXCEPT !.state = state]>>
        BY <2>1, <2>2
    <2>p. [Whole("code", Written) EXCEPT !.state = state] \in Piece
        BY WrittenTyped, PieceTyped
    <2>4. file' \in Seq(Piece)
        BY <2>1, <2>2, <2>p, OneAndMore
    <2>5. QED  BY <2>2, <2>3, <2>4
<1>12. CASE PrintRest
    <2>1. file' = <<Whole("code", Written)>>  BY <1>12, PrintedWhole
    <2>p. Whole("code", Written) \in Piece
        BY WrittenTyped, PieceTyped
    <2>2. file' \in Seq(Piece)
        BY <2>1, <2>p, OneAndMore
    <2>3. quiet => Written = source
        BY <1>12, WrittenIsSource DEF PrintRest
    <2>4. QED  BY <1>12, <2>1, <2>2, <2>3 DEF PrintRest
<1>13. CASE WriteReader
    <2>1. Whole("reader", Written) \in Piece  BY WrittenTyped, PieceTyped
    <2>2. file' \in Seq(Piece)
        BY <1>13, <2>1 DEF WriteReader, WriteText
    <2>3. quiet => Written = source
        BY <1>13, WrittenIsSource DEF WriteReader, WriteText
    <2>4. quiet => file' = <<Whole("code", source), Whole("reader", source)>>
        <3> SUFFICES ASSUME quiet PROVE file' = <<Whole("code", source), Whole("reader", source)>>
            OBVIOUS
        <3>1. file = <<Whole("code", source)>> /\ file' = Append(file, Whole("reader", source))
            BY <1>13, <2>3 DEF WriteReader, WriteText
        <3>2. Whole("code", source) \in Piece /\ Whole("reader", source) \in Piece
            BY PieceTyped DEF TypeOK
        <3>3. PICK p \in Piece, q \in Piece :
                  p = Whole("code", source) /\ q = Whole("reader", source)
            BY <3>2
        <3>4. Append(<<p>>, q) = <<p, q>>  BY AppendSecond
        <3>5. QED  BY <3>1, <3>3, <3>4
    <2>5. QED  BY <1>13, <2>2, <2>4 DEF WriteReader, WriteText
<1>14. CASE WriteStringer
    <2>1. quiet => Written = source
        BY <1>14, WrittenIsSource DEF WriteStringer, WriteText
    <2>2. quiet => file' = Right(source)
        <3> SUFFICES ASSUME quiet PROVE file' = Right(source)
            OBVIOUS
        <3>1. /\ file = <<Whole("code", source), Whole("reader", source)>>
              /\ file' = Append(file, Whole("stringer", source))
            BY <1>14, <2>1 DEF WriteStringer, WriteText
        <3>2. /\ Whole("code", source) \in Piece /\ Whole("reader", source) \in Piece
              /\ Whole("stringer", source) \in Piece
            BY PieceTyped DEF TypeOK
        <3>3. PICK p \in Piece, q \in Piece, r \in Piece :
                  /\ p = Whole("code", source) /\ q = Whole("reader", source)
                  /\ r = Whole("stringer", source)
            BY <3>2
        <3>4. Append(<<p, q>>, r) = <<p, q, r>>  BY AppendThird
        <3>5. QED  BY <3>1, <3>3, <3>4 DEF Right
    <2>3. QED  BY <1>14, <2>2 DEF WriteStringer, WriteText, Right
<1>15. CASE FileFails  BY <1>15 DEF FileFails, Fault, Fail
<1>16. CASE ReaderFails
    <2>1. [Whole("reader", Written) EXCEPT !.state = "torn"] \in Piece
        BY WrittenTyped, PieceTyped
    <2>2. file' \in Seq(Piece)
        BY <1>16, <2>1 DEF ReaderFails, TextFails
    <2>3. QED  BY <1>16, <2>2 DEF ReaderFails, TextFails, Fault
<1>17. CASE StringerFails  BY <1>17 DEF StringerFails, TextFails, Fault
<1>18. CASE Kill  BY <1>18 DEF Kill, Fault
<1>19. CASE UNCHANGED vars  BY <1>19 DEF vars, Written, Right
<1>20. QED
    BY <1>1, <1>2, <1>3, <1>4, <1>5, <1>6, <1>7, <1>8, <1>9, <1>10, <1>11, <1>12,
       <1>13, <1>14, <1>15, <1>16, <1>17, <1>18, <1>19 DEF Next, Run

LEMMA Inductive == Spec => []IInv
<1>1. QED  BY InitInv, InvStep, PTL DEF Spec

(* The state is well formed through all edits, kills and failing writes.   *)
THEOREM TypeCorrect == Spec => []TypeOK
<1>1. IInv => TypeOK  BY DEF IInv
<1>2. QED  BY <1>1, Inductive, PTL

(* A run that refuses the package leaves the file of the run before        *)
(* (main.go:1583 opens it after everything that can be refused).           *)
THEOREM RefusedRunKeepsFile == Spec => []RefusalKeepsFile
<1>1. IInv => RefusalKeepsFile  BY DEF IInv
<1>2. QED  BY <1>1, Inductive, PTL

(* A run that nobody disturbs and that says it is done leaves the whole    *)
(* file, made of the package as it is, whatever was in it before           *)
(* (main.go:1583-1591).                                                    *)
THEOREM DoneMeansRight == Spec => []DoneIsRight
<1>1. IInv => DoneIsRight  BY DEF IInv
<1>2. QED  BY <1>1, Inductive, PTL
=============================================================================
