-------------------------------- MODULE Output --------------------------------
(***************************************************************************)
(* The generated file, zz_scannervaluer.generated.go, over many runs of    *)
(* the tool (src/cmd/pggen/main.go:1495): a run reads the package, the     *)
(* file of the run before included, and when everything is generated it    *)
(* truncates that file, prints to it and appends two texts.  Developers    *)
(* edit the package, before, after and during a run; a run may be killed   *)
(* and a write may fail at any point.                                      *)
(***************************************************************************)
EXTENDS Naturals, Sequences

CONSTANTS Type,        \* the types that may be in the package, with a comment
          Unsupported, \* those of them that the renderers refuse
          NoFile,      \* the file is not there
          MaxEdits,    \* how often the package is edited
          MaxFaults    \* how many kills and failing writes there are

ASSUME UnsupportedAssumption == Unsupported \subseteq Type
ASSUME BoundsAssumption == MaxEdits \in Nat /\ MaxFaults \in Nat

(* The package: the types that are there, and how often they were edited.  *)
Source == [types: SUBSET Type, edit: 0 .. MaxEdits]

(* A piece of the file.  What is cut ends between two declarations, what   *)
(* is torn within one.                                                     *)
Piece == [what: {"code", "reader", "stringer"},
          state: {"whole", "cut", "torn"}, of: Source]

VARIABLES source,  \* the package
          file,    \* the pieces of the file, or NoFile
          pc,      \* the next thing the run does, "idle" if there is none
          asked,   \* the types whose comments the run has read
          made,    \* the package that the run has type-checked
          exit,    \* how the last run has ended
          before,  \* history: the file at the start of the run
          quiet,   \* history: nothing was edited and no write has failed
                   \* since the run began
          faults   \* how many faults there were

vars == <<source, file, pc, asked, made, exit, before, quiet, faults>>
history == <<before, quiet, faults>>

Whole(what, of) == [what |-> what, state |-> "whole", of |-> of]

(* A file as a run should leave it. *)
Right(s) == <<Whole("code", s), Whole("reader", s), Whole("stringer", s)>>

(* go/parser reads the file: a package clause, nothing torn.               *)
Parses == file # NoFile => /\ file # <<>> /\ file[1].what = "code"
                           /\ \A k \in DOMAIN file : file[k].state # "torn"

(* The importer, which looks into no body: every receiver is a type of the *)
(* package and nothing is declared twice.                                  *)
Compiles == file # NoFile =>
    /\ \A k \in DOMAIN file : file[k].what = "code" => file[k].of.types \subseteq source.types
    /\ \A j, k \in DOMAIN file : file[j].what = file[k].what => j = k

-----------------------------------------------------------------------------
(* A developer. *)
Edit == /\ source.edit < MaxEdits
        /\ \E T \in SUBSET Type : source' = [types |-> T, edit |-> source.edit + 1]
        /\ quiet' = FALSE
        /\ UNCHANGED <<file, pc, asked, made, exit, before, faults>>

Refused == pc = "idle" /\ exit = "error" /\ file # NoFile

(* Whoever has a file that the tool refuses deletes it. *)
Delete == /\ Refused
          /\ file' = NoFile
          /\ UNCHANGED <<source, pc, asked, made, exit, history>>

Start == /\ pc = "idle" /\ ~Refused
         /\ pc' = "parse" /\ exit' = "none"
         /\ before' = file /\ quiet' = TRUE
         /\ UNCHANGED <<source, file, asked, made, faults>>

-----------------------------------------------------------------------------
(* A run. *)
Fail == /\ pc' = "idle" /\ exit' = "error"
        /\ UNCHANGED <<source, file, asked, made, before, quiet>>

(* NeedSyntax: go list and the parser. *)
Parse == /\ pc = "parse" /\ Parses
         /\ pc' = "check" /\ asked' = source.types
         /\ UNCHANGED <<source, file, made, exit, history>>

ParseFails == pc = "parse" /\ ~Parses /\ Fail /\ UNCHANGED faults

(* Mutation of Check: the file is opened, and truncated, beforehand.       *)
CheckTruncated == /\ pc = "check" /\ Parses /\ Compiles
                  /\ pc' = "generate" /\ made' = source /\ file' = <<>>
                  /\ UNCHANGED <<source, asked, exit, history>>

(* NeedTypes: the importer reads the sources once more. *)
Check == /\ pc = "check" /\ Parses /\ Compiles
         /\ pc' = "generate" /\ made' = source
         /\ UNCHANGED <<source, file, asked, exit, history>>

CheckFails == pc = "check" /\ ~(Parses /\ Compiles) /\ Fail /\ UNCHANGED faults

(* Nothing is written before all of it is generated.  A type that was      *)
(* asked for and has gone is a nil object to the worklist.                 *)
Supported == asked \subseteq made.types \ Unsupported

Generate == /\ pc = "generate" /\ Supported
            /\ pc' = "create"
            /\ UNCHANGED <<source, file, asked, made, exit, history>>

GenerateFails == pc = "generate" /\ ~Supported /\ Fail /\ UNCHANGED faults

(* Mutation of Create: the file is opened to append to it.                 *)
CreateAppend == /\ pc = "create"
                /\ pc' = "print" /\ file' = IF file = NoFile THEN <<>> ELSE file
                /\ UNCHANGED <<source, asked, made, exit, history>>

Create == /\ pc = "create"
          /\ pc' = "print" /\ file' = <<>>
          /\ UNCHANGED <<source, asked, made, exit, history>>

Written == [made EXCEPT !.types = asked]

(* The printer writes as it goes. *)
PrintSome == /\ pc = "print"
         /\ \E state \in {"cut", "torn"} :
                file' = Append(file, [Whole("code", Written) EXCEPT !.state = state])
         /\ pc' = "printing"
         /\ UNCHANGED <<source, asked, made, exit, history>>

PrintRest == /\ pc = "printing"
             /\ file' = [file EXCEPT ![Len(file)].state = "whole"]
             /\ pc' = "reader"
             /\ UNCHANGED <<source, asked, made, exit, history>>

(* out.WriteString *)
WriteText(what, next) ==
    /\ pc = what
    /\ file' = Append(file, Whole(what, Written))
    /\ pc' = next
    /\ exit' = IF next = "idle" THEN "ok" ELSE exit
    /\ UNCHANGED <<source, asked, made, history>>

WriteReader   == WriteText("reader", "stringer")
WriteStringer == WriteText("stringer", "idle")

-----------------------------------------------------------------------------
(* Faults. *)
Fault == faults < MaxFaults /\ faults' = faults + 1

(* An error of os.Create or of the printer is a panic. *)
FileFails == Fault /\ pc \in {"create", "print", "printing"} /\ Fail

(* An error of WriteString is dropped, and a part may have been written.   *)
TextFails(what, next) ==
    /\ Fault /\ pc = what
    /\ file' \in {file, Append(file, [Whole(what, Written) EXCEPT !.state = "torn"])}
    /\ pc' = next /\ quiet' = FALSE
    /\ exit' = IF next = "idle" THEN "ok" ELSE exit
    /\ UNCHANGED <<source, asked, made, before>>

ReaderFails   == TextFails("reader", "stringer")
StringerFails == TextFails("stringer", "idle")

Kill == /\ Fault /\ pc # "idle"
        /\ pc' = "idle" /\ exit' = "killed"
        /\ UNCHANGED <<source, file, asked, made, before, quiet>>

Init == /\ source \in [types: SUBSET Type, edit: {0}]
        /\ file = NoFile /\ pc = "idle" /\ exit = "none"
        /\ asked = {} /\ made = source
        /\ before = file /\ quiet = TRUE /\ faults = 0

Run == \/ Parse \/ ParseFails \/ Check \/ CheckFails \/ Generate \/ GenerateFails
       \/ Create \/ PrintSome \/ PrintRest \/ WriteReader \/ WriteStringer

Next == \/ Edit \/ Delete \/ Start \/ Run
        \/ FileFails \/ ReaderFails \/ StringerFails \/ Kill

(* A run goes on until it ends; developers run the tool again and again,   *)
(* and delete what it refuses.                                             *)
Spec == Init /\ [][Next]_vars /\ WF_vars(Run) /\ WF_vars(Start) /\ WF_vars(Delete)

-----------------------------------------------------------------------------
(* The state is well formed, and what a run prints to is empty. *)
TypeOK == /\ source \in Source /\ made \in Source /\ asked \subseteq Type
          /\ file \in Seq(Piece) \cup {NoFile} /\ before \in Seq(Piece) \cup {NoFile}
          /\ pc \in {"idle", "parse", "check", "generate", "create", "print",
                     "printing", "reader", "stringer"}
          /\ exit \in {"none", "ok", "error", "killed"}
          /\ quiet \in BOOLEAN /\ faults \in 0 .. MaxFaults
          /\ pc = "print" => file = <<>>

(* A run that refuses the package, because it does not parse or compile or *)
(* asks for something that cannot be generated, has not touched the file:  *)
(* only what fails once the file is open does (main.go:1583).              *)
RefusalKeepsFile ==
    pc \in {"parse", "check", "generate", "create"} => file = before

(* A run that nobody disturbs and that says it is done leaves the whole    *)
(* file and nothing else, made of the package as it is: whatever the file  *)
(* was before, rests of a run that was killed included.                    *)
DoneIsRight ==
    pc = "idle" /\ exit = "ok" /\ quiet => file = Right(source)

(* Once the edits and the faults are over, developers get out of every     *)
(* state of the file by running the tool again: from some time on the file *)
(* is right whenever no run is on, unless the package asks for a type that *)
(* is not supported.                                                       *)
Recovery ==
    <>[](pc = "idle" /\ source.types \cap Unsupported = {} => file = Right(source))
=============================================================================
