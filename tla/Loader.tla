------------------------------- MODULE Loader -------------------------------
(***************************************************************************)
(* How pggen gets at the packages it reads (src/cmd/pggen/main.go): what   *)
(* `go list' says of a package (InspectOne), its syntax trees              *)
(* (ParseSyntaxSync) and its types (NeedTypes).  Each is done once per     *)
(* Package: the caller that sets its bit of the atomic flag word does the  *)
(* work and closes the channel of its waitItem, the others wait on it.     *)
(*                                                                         *)
(* A caller makes the calls of main and of ParseModuleAndGenerate, in      *)
(* their order.  The program has one caller now; the flags and the wait    *)
(* items are made for more (main.go:962, main.go:1777).  The files of a    *)
(* package are read by one goroutine each.                                 *)
(*                                                                         *)
(* An error is the set of the things that went wrong; {} is nil.           *)
(***************************************************************************)
EXTENDS Naturals, FiniteSets

CONSTANTS Caller,      \* the goroutines that load packages
          Key,         \* the arguments of makepkg
          Driver,      \* database/sql/driver, which main asks for first
          Path,        \* import paths
          Canonical,   \* Canonical[k]: the import path go list gives for k
          File,        \* source files
          Tool,        \* the go tool, its answer or the importer failed
          Broken,      \* half of a racy write of an interface value
          NoPath       \* not imported

ASSUME KeyAssumption == Driver \in Key /\ Key \subseteq Path
ASSUME CanonicalAssumption == /\ Canonical \in [Key -> Path]
                              /\ Canonical[Driver] = Driver
ASSUME SentinelAssumption == NoPath \notin Path /\ Tool \notin File /\ Broken \notin File

Item == {"loading", "syntax", "types"}

(* Mutation of Bit: the shifts begin at one. *)
BitFromOne(i) == CASE i = "loading" -> 1 [] i = "syntax" -> 2 [] i = "types" -> 3

(* flags_loadingHappened, flags_hasSyntaxParsed, flags_hasTypesChecked. *)
Bit(i) == CASE i = "loading" -> 0 [] i = "syntax" -> 1 [] i = "types" -> 2

VARIABLES
    module,   \* module[c]: the package c generates code for
    step,     \* step[c]: the call of its script that c has come to
    mode,     \* what c is doing about it
    err,      \* err[c]: the error the work of c has ended with
    pkgs,     \* g.pkgs: the keys that have a Package
    flags,    \* the flag word of every Package
    item,     \* its wait items
    path,     \* its PkgPath
    files,    \* its CompiledGoFiles
    syntax,   \* the entries of its Syntax that are not nil
    imported, \* the path its types were imported by
    reader,   \* reader[c][f]: the goroutine of c that reads f
    copy,     \* copy[c][f]: errAll as that goroutine has read it
    errAll,   \* errAll[c]
    srcs,     \* srcs[c]: the files that have been read
    told,     \* <<c, need, e>>: the need was answered to c with e
    dead      \* a goroutine has panicked, and the process has ended

vars == <<module, step, mode, err, pkgs, flags, item, path, files, syntax,
          imported, reader, copy, errAll, srcs, told, dead>>

caller == <<module, step, mode, err, dead>>
package == <<pkgs, flags, item, path, files, syntax, imported>>
reading == <<reader, copy, errAll, srcs>>

Need == Key \X Item
Error == SUBSET (File \cup {Tool, Broken})

(* main asks for the types of the driver package, ParseModuleAndGenerate   *)
(* for the syntax and for the types of the module.                         *)
Script(c) == << <<Driver, "types">>, <<module[c], "loading">>,
                <<module[c], "syntax">>, <<module[c], "types">> >>

Done(c) == step[c] > 4
Key_(c) == Script(c)[step[c]][1]
Item_(c) == Script(c)[step[c]][2]

At(c, m) == ~dead /\ ~Done(c) /\ mode[c] = m

(* Mutation of Ask: the flag word is loaded, not ORed. *)
AskLoads(c) ==
    /\ At(c, "ask")
    /\ mode' = [mode EXCEPT ![c] = IF Bit(Item_(c)) \in flags[Key_(c)] THEN "wait" ELSE "lead"]
    /\ pkgs' = pkgs \cup {Key_(c)}
    /\ UNCHANGED <<module, step, err, flags, item, path, files, syntax, imported, reading, told, dead>>

(* makepkg, then atomic.OrUint64(&lpkg.flags, flag) & flag. *)
Ask(c) ==
    /\ At(c, "ask")
    /\ mode' = [mode EXCEPT ![c] = IF Bit(Item_(c)) \in flags[Key_(c)] THEN "wait" ELSE "lead"]
    /\ flags' = [flags EXCEPT ![Key_(c)] = @ \cup {Bit(Item_(c))}]
    /\ pkgs' = pkgs \cup {Key_(c)}
    /\ UNCHANGED <<module, step, err, item, path, files, syntax, imported, reading, told, dead>>

(* The call returns e: on nil the caller goes on to its next one. *)
Return(c, e) ==
    /\ told' = told \cup {<<c, Script(c)[step[c]], e>>}
    /\ step' = [step EXCEPT ![c] = IF e = {} THEN @ + 1 ELSE 5]
    /\ mode' = [mode EXCEPT ![c] = "ask"]
    /\ UNCHANGED <<module, dead>>

(* Mutation of Wait: the error is read without waiting for the signal. *)
WaitNot(c) ==
    /\ At(c, "wait")
    /\ Return(c, item[Key_(c)][Item_(c)].error)
    /\ UNCHANGED <<err, package, reading>>

(* waitItem.Wait *)
Wait(c) ==
    /\ At(c, "wait")
    /\ item[Key_(c)][Item_(c)].closed
    /\ Return(c, item[Key_(c)][Item_(c)].error)
    /\ UNCHANGED <<err, package, reading>>

(* The work is over and has ended with e. *)
Ended(c, e) == /\ mode' = [mode EXCEPT ![c] = "publish"]
               /\ err' = [err EXCEPT ![c] = e]
               /\ UNCHANGED <<module, step, told, dead>>

(* Mutation of Publish: a failed call returns without a signal. *)
PublishOk(c) ==
    LET k == Key_(c) IN
    /\ At(c, "publish")
    /\ item' = IF err[c] = {} THEN [item EXCEPT ![k][Item_(c)] = [closed |-> TRUE, error |-> {}]]
                              ELSE item
    /\ Return(c, err[c])
    /\ UNCHANGED <<err, pkgs, flags, path, files, syntax, imported, reading>>

(* waitItem.Err and waitItem.Ok *)
Publish(c) ==
    LET k == Key_(c) IN
    /\ At(c, "publish")
    /\ item' = [item EXCEPT ![k][Item_(c)] = [closed |-> TRUE, error |-> err[c]]]
    /\ Return(c, err[c])
    /\ UNCHANGED <<err, pkgs, flags, path, files, syntax, imported, reading>>

Leads(c, i) == At(c, "lead") /\ Item_(c) = i

(* InspectOne: the go tool fails or gives an empty import path, ...        *)
InspectFails(c) ==
    /\ Leads(c, "loading")
    /\ Ended(c, {Tool})
    /\ UNCHANGED <<package, reading>>

(* ... or processSingleGoListPackage fills in the Package, and refuses a   *)
(* relative directory only after it has.                                   *)
Inspect(c) ==
    LET k == Key_(c) IN
    /\ Leads(c, "loading")
    /\ path' = [path EXCEPT ![k] = Canonical[k]]
    /\ \E fs \in SUBSET File : files' = [files EXCEPT ![k] = fs]
    /\ \E e \in {{}, {Tool}} : Ended(c, e)
    /\ UNCHANGED <<pkgs, flags, item, syntax, imported, reading>>

(* An error for an import path that is a file path is not dealt with yet.  *)
InspectPanics(c) ==
    /\ Leads(c, "loading")
    /\ dead' = TRUE
    /\ UNCHANGED <<module, step, mode, err, package, reading, told>>

(* Mutation of Import: the package is imported by the argument of makepkg. *)
ImportKey(c) ==
    LET k == Key_(c) IN
    /\ Leads(c, "types")
    /\ imported' = [imported EXCEPT ![k] = k]
    /\ \E e \in {{}, {Tool}} : Ended(c, e)
    /\ UNCHANGED <<pkgs, flags, item, path, files, syntax, reading>>

(* NeedTypes and generatorState.Import. *)
Import(c) ==
    LET k == Key_(c) IN
    /\ Leads(c, "types")
    /\ imported' = [imported EXCEPT ![k] = path[k]]
    /\ \E e \in {{}, {Tool}} : Ended(c, e)
    /\ UNCHANGED <<pkgs, flags, item, path, files, syntax, reading>>

(* ParseSyntaxSync: one goroutine for each file. *)
StartReaders(c) ==
    /\ Leads(c, "syntax")
    /\ mode' = [mode EXCEPT ![c] = "reading"]
    /\ reader' = [reader EXCEPT ![c] = [f \in File |->
                      IF f \in files[Key_(c)] THEN "reading" ELSE "done"]]
    /\ UNCHANGED <<module, step, err, package, copy, errAll, srcs, told, dead>>

ReadFile(c, f) ==
    /\ ~dead /\ reader[c][f] = "reading"
    /\ srcs' = [srcs EXCEPT ![c] = @ \cup {f}]
    /\ reader' = [reader EXCEPT ![c][f] = "done"]
    /\ UNCHANGED <<caller, package, copy, errAll, told>>

(* errAll = errors.Join(errAll, err) is not synchronised with the other    *)
(* readers: a first write may be seen half.  What os.ReadFile may return   *)
(* with its error is left out of srcs: the error stays, with or without a  *)
(* tree of half a file.                                                    *)
ReadFileFails(c, f) ==
    /\ ~dead /\ reader[c][f] = "reading"
    /\ \/ copy' = [copy EXCEPT ![c][f] = errAll[c]]
       \/ /\ errAll[c] = {} /\ \E g \in File : reader[c][g] = "joining"
          /\ copy' = [copy EXCEPT ![c][f] = {Broken}]
    /\ reader' = [reader EXCEPT ![c][f] = "joining"]
    /\ UNCHANGED <<caller, package, errAll, srcs, told>>

JoinError(c, f) ==
    /\ ~dead /\ reader[c][f] = "joining"
    /\ errAll' = [errAll EXCEPT ![c] = copy[c][f] \cup {f}]
    /\ reader' = [reader EXCEPT ![c][f] = "done"]
    /\ UNCHANGED <<caller, package, copy, srcs, told>>

(* Mutation of AllRead: wg.Done is called before the error is joined. *)
NoneReading(c) == \A f \in File : reader[c][f] # "reading"

AllRead(c) == \A f \in File : reader[c][f] = "done"

(* wg.Wait, then parse what was read. *)
Parse(c) ==
    /\ At(c, "reading") /\ AllRead(c)
    /\ syntax' = [syntax EXCEPT ![Key_(c)] = srcs[c]]
    /\ \E bad \in SUBSET srcs[c] : Ended(c, errAll[c] \cup bad)
    /\ UNCHANGED <<pkgs, flags, item, path, files, imported, reading>>

Init ==
    /\ module \in [Caller -> Key]
    /\ step = [c \in Caller |-> 1] /\ mode = [c \in Caller |-> "ask"]
    /\ err = [c \in Caller |-> {}]
    /\ pkgs = {} /\ flags = [k \in Key |-> {}]
    /\ item = [k \in Key |-> [i \in Item |-> [closed |-> FALSE, error |-> {}]]]
    /\ path = [k \in Key |-> k] /\ files = [k \in Key |-> {}]
    /\ syntax = [k \in Key |-> {}] /\ imported = [k \in Key |-> NoPath]
    /\ reader = [c \in Caller |-> [f \in File |-> "none"]]
    /\ copy = [c \in Caller |-> [f \in File |-> {}]]
    /\ errAll = [c \in Caller |-> {}] /\ srcs = [c \in Caller |-> {}]
    /\ told = {} /\ dead = FALSE

Calls(c) == \/ Ask(c) \/ Wait(c) \/ Publish(c)
            \/ InspectFails(c) \/ Inspect(c) \/ InspectPanics(c)
            \/ Import(c) \/ StartReaders(c) \/ Parse(c)

Reads(c, f) == ReadFile(c, f) \/ ReadFileFails(c, f) \/ JoinError(c, f)

Over == dead \/ \A c \in Caller : Done(c)

Terminated == Over /\ UNCHANGED vars

Next == \/ \E c \in Caller : Calls(c) \/ \E f \in File : Reads(c, f)
        \/ Terminated

(* Every goroutine that can run is scheduled, and the go tool, the         *)
(* importer and the file system answer.                                    *)
Fairness == \A c \in Caller : /\ WF_vars(Calls(c))
                              /\ \A f \in File : WF_vars(Reads(c, f))

Spec == Init /\ [][Next]_vars /\ Fairness

-----------------------------------------------------------------------------
Mode == {"ask", "wait", "lead", "reading", "publish"}

TypeOK ==
    /\ module \in [Caller -> Key] /\ step \in [Caller -> 1..5]
    /\ mode \in [Caller -> Mode] /\ err \in [Caller -> Error]
    /\ pkgs \in SUBSET Key /\ flags \in [Key -> SUBSET (0..2)]
    /\ item \in [Key -> [Item -> [closed: BOOLEAN, error: Error]]]
    /\ path \in [Key -> Path] /\ files \in [Key -> SUBSET File]
    /\ syntax \in [Key -> SUBSET File] /\ imported \in [Key -> Path \cup {NoPath}]
    /\ reader \in [Caller -> [File -> {"none", "reading", "joining", "done"}]]
    /\ copy \in [Caller -> [File -> Error]] /\ errAll \in [Caller -> Error]
    /\ srcs \in [Caller -> SUBSET File]
    /\ told \in SUBSET (Caller \X Need \X Error) /\ dead \in BOOLEAN

Working(c, k, i) == /\ mode[c] \in {"lead", "reading", "publish"} /\ ~Done(c)
                    /\ Script(c)[step[c]] = <<k, i>>

(* A bit of the flag word that is set has exactly one caller working for   *)
(* it until its channel is closed, and none after: no work is done twice,  *)
(* no channel is closed twice, and nobody waits for work nobody does.      *)
OneWorker ==
    \A k \in Key, i \in Item :
        /\ \A c, d \in Caller : Working(c, k, i) /\ Working(d, k, i) => c = d
        /\ Bit(i) \in flags[k] <=> item[k][i].closed \/ \E c \in Caller : Working(c, k, i)
        /\ item[k][i].closed => \A c \in Caller : ~Working(c, k, i)

(* A package whose syntax was answered without an error has a tree for     *)
(* every file, although the readers race on errAll: the loop over          *)
(* file.Decls (main.go:1504) meets no nil file.                            *)
SyntaxComplete ==
    \A c \in Caller, k \in Key : <<c, <<k, "syntax">>, {}>> \in told => syntax[k] = files[k]

(* Types are imported by the import path that go list resolves the         *)
(* argument to, whichever caller imports them.                             *)
CanonicalImport ==
    \A k \in Key : imported[k] \in {NoPath, Canonical[k]}

(* No caller waits for ever. *)
Termination == <>Over

(* Every one of the three pieces of work of a Package, done once.          *)
O == INSTANCE Once WITH
        Caller <- Caller, Work <- Need, Outcome <- Error, told <- told,
        begun <- {n \in Need : Bit(n[2]) \in flags[n[1]]},
        ended <- {<<n, item[n[1]][n[2]].error>> : n \in {m \in Need : item[m[1]][m[2]].closed}}
ImplementsOnce == O!Spec
=============================================================================
