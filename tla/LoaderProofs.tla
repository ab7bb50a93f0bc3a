----------------------------- MODULE LoaderProofs -----------------------------
(***************************************************************************)
(* What Loader.tla claims of the packages' flags and wait items, proved    *)
(* for any number of callers, packages and files.                          *)
(***************************************************************************)
EXTENDS Loader, TLAPS

Works == {"lead", "reading", "publish"}

(* Callers were told what the wait item holds.                             *)
ToldRight ==
    \A c \in Caller, n \in Need, e \in Error :
        <<c, n, e>> \in told => /\ item[n[1]][n[2]].closed = TRUE
                                /\ item[n[1]][n[2]].error = e

(* Who has come to the syntax of its module was told that it is loaded.    *)
Loaded ==
    \A c \in Caller : step[c] \in {3, 4} =>
        /\ item[module[c]]["loading"].closed = TRUE
        /\ item[module[c]]["loading"].error = {}

(* A package that is loaded, or will be published so, has the import path  *)
(* of go list.                                                             *)
Resolved ==
    /\ \A k \in Key :
          /\ path[k] \in {k, Canonical[k]}
          /\ item[k]["loading"].closed = TRUE /\ item[k]["loading"].error = {} =>
                path[k] = Canonical[k]
    /\ \A c \in Caller :
          mode[c] = "publish" /\ step[c] = 2 /\ err[c] = {} =>
                path[module[c]] = Canonical[module[c]]

(* Who reads files is at the syntax of its module, and only it has         *)
(* readers.                                                                *)
ReadersOwned ==
    /\ \A c \in Caller : mode[c] = "reading" => step[c] = 3
    /\ \A c \in Caller, f \in File :
          reader[c][f] \in {"reading", "joining"} => mode[c] = "reading"

(* A file whose reader is done was read, or there is an error: a write of  *)
(* errAll that is lost is lost to another error.                           *)
FilesRead ==
    \A c \in Caller :
        /\ mode[c] = "reading" =>
              /\ srcs[c] \subseteq files[module[c]]
              /\ \A f \in File :
                    /\ f \notin files[module[c]] => reader[c][f] = "done"
                    /\ f \in files[module[c]] /\ reader[c][f] = "done" =>
                          f \in srcs[c] \/ errAll[c] # {}
        /\ step[c] \in {1, 2} \/ (step[c] = 3 /\ mode[c] \in {"ask", "wait", "lead"}) =>
              srcs[c] = {}

(* A syntax that is published without an error, or will be, is complete.   *)
Parsed ==
    /\ \A k \in Key :
          item[k]["syntax"].closed = TRUE =>
              /\ item[k]["loading"].closed = TRUE
              /\ item[k]["syntax"].error = {} => syntax[k] = files[k]
    /\ \A c \in Caller :
          mode[c] = "publish" /\ step[c] = 3 /\ err[c] = {} =>
              syntax[module[c]] = files[module[c]]

IInv == TypeOK /\ OneWorker /\ ToldRight /\ Loaded /\ Resolved /\ CanonicalImport
        /\ ReadersOwned /\ FilesRead /\ Parsed

-----------------------------------------------------------------------------
LEMMA BitsDiffer ==
    /\ \A i \in Item : Bit(i) \in 0..2
    /\ \A i, j \in Item : Bit(i) = Bit(j) => i = j
<1>1. Bit("loading") = 0  BY DEF Bit
<1>2. Bit("syntax") = 1  BY DEF Bit
<1>3. Bit("types") = 2  BY DEF Bit
<1>4. QED  BY <1>1, <1>2, <1>3 DEF Item

LEMMA CallsAre ==
    ASSUME NEW m \in Key, NEW s \in 1..4
    PROVE  LET call == << <<Driver, "types">>, <<m, "loading">>,
                          <<m, "syntax">>, <<m, "types">> >>[s]
           IN  /\ call[1] \in Key /\ call[2] \in Item /\ call = <<call[1], call[2]>>
               /\ s = 1 => call[1] = Driver
               /\ s # 1 => call[1] = m
               /\ call[2] = "loading" <=> s = 2
               /\ call[2] = "syntax" <=> s = 3
<1>1. Driver \in Key  BY KeyAssumption
<1>2. s = 1 \/ s = 2 \/ s = 3 \/ s = 4  OBVIOUS
<1>3. QED  BY <1>1, <1>2 DEF Item

(* The call that a caller has come to. *)
LEMMA Current ==
    ASSUME TypeOK, NEW c \in Caller, ~Done(c)
    PROVE  /\ step[c] \in 1..4 /\ module[c] \in Key
           /\ Key_(c) \in Key /\ Item_(c) \in Item
           /\ Script(c)[step[c]] = <<Key_(c), Item_(c)>>
           /\ step[c] = 1 => Key_(c) = Driver
           /\ step[c] # 1 => Key_(c) = module[c]
           /\ Item_(c) = "loading" <=> step[c] = 2
           /\ Item_(c) = "syntax" <=> step[c] = 3
<1>1. step[c] \in 1..4 /\ module[c] \in Key
    BY DEF TypeOK, Done
<1>2. QED
    BY <1>1, CallsAre DEF Key_, Item_, Script

(* Working, in terms of the call. *)
LEMMA WorkingIs ==
    ASSUME TypeOK, NEW c \in Caller, NEW k \in Key, NEW i \in Item
    PROVE  Working(c, k, i) <=>
              mode[c] \in Works /\ ~Done(c) /\ Key_(c) = k /\ Item_(c) = i
<1>1. ASSUME ~Done(c) PROVE Script(c)[step[c]] = <<k, i>> <=> Key_(c) = k /\ Item_(c) = i
    BY <1>1, Current
<1>2. QED
    BY <1>1 DEF Working, Works

LEMMA InitInv == Init => IInv
<1> SUFFICES ASSUME Init PROVE IInv
    OBVIOUS
<1>1. TypeOK
    <2>1. /\ step \in [Caller -> 1..5] /\ mode \in [Caller -> Mode]
          /\ err \in [Caller -> Error] /\ errAll \in [Caller -> Error]
          /\ srcs \in [Caller -> SUBSET File] /\ module \in [Caller -> Key]
        BY DEF Init, Mode, Error
    <2>2. item \in [Key -> [Item -> [closed: BOOLEAN, error: Error]]]
        BY DEF Init, Error
    <2>3. /\ path \in [Key -> Path] /\ imported \in [Key -> Path \cup {NoPath}]
          /\ files \in [Key -> SUBSET File] /\ syntax \in [Key -> SUBSET File]
          /\ flags \in [Key -> SUBSET (0..2)]
        BY KeyAssumption DEF Init
    <2>4. /\ reader \in [Caller -> [File -> {"none", "reading", "joining", "done"}]]
          /\ copy \in [Caller -> [File -> Error]]
        BY DEF Init, Error
    <2>5. QED  BY <2>1, <2>2, <2>3, <2>4 DEF Init, TypeOK
<1>2. OneWorker
    BY DEF Init, OneWorker, Working, Item
<1>3. ToldRight /\ Loaded /\ Resolved /\ CanonicalImport
    BY DEF Init, ToldRight, Loaded, Resolved, CanonicalImport, Item
<1>4. ReadersOwned /\ FilesRead /\ Parsed
    BY DEF Init, ReadersOwned, FilesRead, Parsed, Item
<1>5. QED
    BY <1>1, <1>2, <1>3, <1>4 DEF IInv

-----------------------------------------------------------------------------
LEMMA ErrorFacts == /\ {} \in Error /\ {Tool} \in Error /\ {Broken} \in Error
                    /\ \A e \in Error, f \in File : e \cup {f} \in Error
                    /\ \A e \in Error, s \in SUBSET File : e \cup s \in Error
BY DEF Error

(* A call that returns leads to the next one, or to the end. *)
LEMMA ReturnTyped ==
    ASSUME TypeOK, NEW c \in Caller, ~Done(c), NEW e \in Error, Return(c, e)
    PROVE  /\ module' = module /\ dead' = dead
           /\ step' \in [Caller -> 1..5] /\ mode' \in [Caller -> Mode]
           /\ told' \in SUBSET (Caller \X Need \X Error)
<1>1. <<c, Script(c)[step[c]], e>> \in Caller \X Need \X Error
    <2>1. PICK k \in Key, i \in Item : Script(c)[step[c]] = <<k, i>>
        BY Current
    <2>2. <<k, i>> \in Need  BY DEF Need
    <2>3. QED  BY <2>1, <2>2
<1>2. step[c] \in 1..4  BY Current
<1>3. (IF e = {} THEN step[c] + 1 ELSE 5) \in 1..5  BY <1>2
<1>4. QED
    BY <1>1, <1>3 DEF Return, TypeOK, Mode

LEMMA TypeStep == TypeOK /\ [Next]_vars => TypeOK'
<1> SUFFICES ASSUME TypeOK, [Next]_vars PROVE TypeOK'
    OBVIOUS
<1> USE ErrorFacts DEF caller, package, reading
<1>1. ASSUME NEW c \in Caller, Ask(c) PROVE TypeOK'
    <2>1. PICK k \in Key, i \in Item : k = Key_(c) /\ i = Item_(c)
        BY <1>1, Current DEF Ask, At
    <2>2. flags' = [flags EXCEPT ![k] = @ \cup {Bit(i)}] /\ pkgs' = pkgs \cup {k}
        BY <1>1, <2>1 DEF Ask
    <2>3. flags' \in [Key -> SUBSET (0..2)] /\ pkgs' \in SUBSET Key
        BY <2>2, BitsDiffer DEF TypeOK
    <2>4. mode' \in [Caller -> Mode]
        BY <1>1 DEF Ask, TypeOK, Mode
    <2>5. QED  BY <1>1, <2>3, <2>4 DEF Ask, TypeOK
<1>2. ASSUME NEW c \in Caller, Wait(c) PROVE TypeOK'
    <2>1. ~Done(c)  BY <1>2 DEF Wait, At
    <2>2. PICK e \in Error : e = item[Key_(c)][Item_(c)].error
        BY <2>1, Current DEF TypeOK
    <2>3. Return(c, e)  BY <1>2, <2>2 DEF Wait
    <2>4. QED  BY <1>2, <2>1, <2>3, ReturnTyped DEF Wait, TypeOK
<1>3. ASSUME NEW c \in Caller, Publish(c) PROVE TypeOK'
    <2>1. ~Done(c)  BY <1>3 DEF Publish, At
    <2>2. PICK e \in Error : e = err[c]  BY DEF TypeOK
    <2>3. Return(c, e)  BY <1>3, <2>2 DEF Publish
    <2>4. PICK k \in Key, i \in Item : k = Key_(c) /\ i = Item_(c)
        BY <2>1, Current
    <2>5. item' = [item EXCEPT ![k][i] = [closed |-> TRUE, error |-> e]]
        BY <1>3, <2>2, <2>4 DEF Publish
    <2>6. item' \in [Key -> [Item -> [closed: BOOLEAN, error: Error]]]
        BY <2>5 DEF TypeOK
    <2>7. QED  BY <1>3, <2>1, <2>3, <2>6, ReturnTyped DEF Publish, TypeOK
<1>4. ASSUME NEW c \in Caller, InspectFails(c) PROVE TypeOK'
    BY <1>4 DEF InspectFails, Ended, TypeOK, Mode
<1>5. ASSUME NEW c \in Caller, Inspect(c) PROVE TypeOK'
    <2>1. PICK k \in Key : k = Key_(c)
        BY <1>5, Current DEF Inspect, Leads, At
    <2>2. PICK fs \in SUBSET File, e \in {{}, {Tool}} :
              files' = [files EXCEPT ![k] = fs] /\ Ended(c, e)
        BY <1>5, <2>1 DEF Inspect
    <2>3. path' = [path EXCEPT ![k] = Canonical[k]] /\ Canonical[k] \in Path
        BY <1>5, <2>1, CanonicalAssumption DEF Inspect
    <2>4. files' \in [Key -> SUBSET File] /\ path' \in [Key -> Path]
        BY <2>2, <2>3 DEF TypeOK
    <2>5. mode' \in [Caller -> Mode] /\ err' \in [Caller -> Error]
        BY <2>2 DEF Ended, TypeOK, Mode
    <2>6. QED  BY <1>5, <2>2, <2>4, <2>5 DEF Inspect, Ended, TypeOK
<1>6. ASSUME NEW c \in Caller, InspectPanics(c) PROVE TypeOK'
    BY <1>6 DEF InspectPanics, TypeOK
<1>7. ASSUME NEW c \in Caller, Import(c) PROVE TypeOK'
    <2>1. PICK k \in Key : k = Key_(c)
        BY <1>7, Current DEF Import, Leads, At
    <2>2. PICK e \in {{}, {Tool}} : Ended(c, e)
        BY <1>7 DEF Import
    <2>3. imported' = [imported EXCEPT ![k] = path[k]]
        BY <1>7, <2>1 DEF Import
    <2>4. imported' \in [Key -> Path \cup {NoPath}]
        BY <2>3 DEF TypeOK
    <2>5. mode' \in [Caller -> Mode] /\ err' \in [Caller -> Error]
        BY <2>2 DEF Ended, TypeOK, Mode
    <2>6. QED  BY <1>7, <2>2, <2>4, <2>5 DEF Import, Ended, TypeOK
<1>8. ASSUME NEW c \in Caller, StartReaders(c) PROVE TypeOK'
    BY <1>8 DEF StartReaders, TypeOK, Mode
<1>9. ASSUME NEW c \in Caller, Parse(c) PROVE TypeOK'
    <2>1. PICK k \in Key : k = Key_(c)
        BY <1>9, Current DEF Parse, At
    <2>2. PICK bad \in SUBSET srcs[c] : Ended(c, errAll[c] \cup bad)
        BY <1>9 DEF Parse
    <2>3. errAll[c] \cup bad \in Error /\ srcs[c] \in SUBSET File
        BY DEF TypeOK
    <2>4. syntax' \in [Key -> SUBSET File]
        BY <1>9, <2>1, <2>3 DEF Parse, TypeOK
    <2>5. mode' \in [Caller -> Mode] /\ err' \in [Caller -> Error]
        BY <2>2, <2>3 DEF Ended, TypeOK, Mode
    <2>6. QED  BY <1>9, <2>2, <2>4, <2>5 DEF Parse, Ended, TypeOK
<1>10. ASSUME NEW c \in Caller, NEW f \in File, ReadFile(c, f) PROVE TypeOK'
    BY <1>10 DEF ReadFile, TypeOK
<1>11. ASSUME NEW c \in Caller, NEW f \in File, ReadFileFails(c, f) PROVE TypeOK'
    <2>1. PICK e \in Error : copy' = [copy EXCEPT ![c][f] = e]
        BY <1>11 DEF ReadFileFails, TypeOK
    <2>2. copy' \in [Caller -> [File -> Error]]
        BY <2>1 DEF TypeOK
    <2>3. reader' \in [Caller -> [File -> {"none", "reading", "joining", "done"}]]
        BY <1>11 DEF ReadFileFails, TypeOK
    <2>4. QED  BY <1>11, <2>2, <2>3 DEF ReadFileFails, TypeOK
<1>12. ASSUME NEW c \in Caller, NEW f \in File, JoinError(c, f) PROVE TypeOK'
    <2>1. PICK e \in Error : e = copy[c][f]
        BY DEF TypeOK
    <2>2. errAll' = [errAll EXCEPT ![c] = e \cup {f}] /\ e \cup {f} \in Error
        BY <1>12, <2>1 DEF JoinError
    <2>3. errAll' \in [Caller -> Error]
        BY <2>2 DEF TypeOK
    <2>4. reader' \in [Caller -> [File -> {"none", "reading", "joining", "done"}]]
        BY <1>12 DEF JoinError, TypeOK
    <2>5. QED  BY <1>12, <2>3, <2>4 DEF JoinError, TypeOK
<1>13. CASE UNCHANGED vars  BY <1>13 DEF vars, TypeOK
<1>14. QED
    BY <1>1, <1>2, <1>3, <1>4, <1>5, <1>6, <1>7, <1>8, <1>9, <1>10, <1>11, <1>12, <1>13
    DEF Next, Calls, Reads, Terminated

-----------------------------------------------------------------------------
(* Nothing changes for the flags and the wait items.                       *)
LEMMA SameWork ==
    ASSUME OneWorker, item' = item,
           \A k \in Key, i \in Item : Bit(i) \in flags'[k] <=> Bit(i) \in flags[k],
           \A c \in Caller, k \in Key, i \in Item : Working(c, k, i)' <=> Working(c, k, i)
    PROVE  OneWorker'
BY DEF OneWorker

(* A step of c that leaves it at its call, working or not as before.       *)
LEMMA SameCall ==
    ASSUME TypeOK, OneWorker, NEW c \in Caller, NEW m,
           m \in Works <=> mode[c] \in Works,
           module' = module, step' = step, mode' = [mode EXCEPT ![c] = m],
           flags' = flags, item' = item
    PROVE  OneWorker'
<1>1. \A d \in Caller : mode'[d] \in Works <=> mode[d] \in Works
    BY DEF TypeOK
<1>2. \A d \in Caller, k \in Key, i \in Item : Working(d, k, i)' <=> Working(d, k, i)
    BY <1>1 DEF Working, Done, Script, Works
<1>3. QED
    BY <1>2, SameWork

(* Whoever sets a bit works for it, and whoever finds it set does not.     *)
LEMMA AskKeepsOneWorker ==
    ASSUME TypeOK, OneWorker, NEW c \in Caller, Ask(c)
    PROVE  OneWorker'
<1>1. ~Done(c) /\ mode[c] = "ask"
    BY DEF Ask, At
<1>2. PICK k \in Key, i \in Item : k = Key_(c) /\ i = Item_(c) /\ Script(c)[step[c]] = <<k, i>>
    BY <1>1, Current
<1>3. /\ mode' = [mode EXCEPT ![c] = IF Bit(i) \in flags[k] THEN "wait" ELSE "lead"]
      /\ flags' = [flags EXCEPT ![k] = @ \cup {Bit(i)}]
      /\ module' = module /\ step' = step /\ item' = item
    BY <1>2 DEF Ask, package
<1>4. /\ mode'[c] = IF Bit(i) \in flags[k] THEN "wait" ELSE "lead"
      /\ \A d \in Caller : d # c => mode'[d] = mode[d]
    BY <1>3 DEF TypeOK
<1>5. /\ flags'[k] = flags[k] \cup {Bit(i)}
      /\ \A j \in Key : j # k => flags'[j] = flags[j]
    BY <1>3 DEF TypeOK
<1>6. \A d \in Caller, j \in Key, n \in Item : d # c => (Working(d, j, n)' <=> Working(d, j, n))
    BY <1>3, <1>4 DEF Working, Done, Script
<1>7. \A j \in Key, n \in Item : ~Working(c, j, n)
    BY <1>1 DEF Working
<1>8. CASE Bit(i) \in flags[k]
    <2>1. mode'[c] = "wait"  BY <1>4, <1>8
    <2>2. \A j \in Key, n \in Item : ~Working(c, j, n)'
        BY <2>1 DEF Working
    <2>3. \A j \in Key, n \in Item : Bit(n) \in flags'[j] <=> Bit(n) \in flags[j]
        BY <1>5, <1>8
    <2>4. QED  BY <1>3, <1>6, <1>7, <2>2, <2>3, SameWork
<1>9. CASE Bit(i) \notin flags[k]
    <2>1. mode'[c] = "lead"  BY <1>4, <1>9
    <2>2. Script(c)' = Script(c) /\ ~Done(c)'
        BY <1>1, <1>3 DEF Script, Done
    <2>3. \A j \in Key, n \in Item : Working(c, j, n)' <=> j = k /\ n = i
        BY <1>2, <1>3, <2>1, <2>2 DEF Working
    <2>4. \A j \in Key, n \in Item :
              Bit(n) \in flags'[j] <=> Bit(n) \in flags[j] \/ (j = k /\ n = i)
        BY <1>5, BitsDiffer
    <2>5. /\ ~item[k][i].closed
          /\ \A d \in Caller : ~Working(d, k, i)
        BY <1>9 DEF OneWorker
    <2>6. QED
        BY <1>3, <1>6, <1>7, <2>3, <2>4, <2>5 DEF OneWorker
<1>10. QED
    BY <1>8, <1>9

(* A call that returns is not working, and did not unless it publishes.    *)
LEMMA ReturnWorks ==
    ASSUME TypeOK, NEW c \in Caller, NEW e, Return(c, e)
    PROVE  /\ \A k \in Key, i \in Item : ~Working(c, k, i)'
           /\ \A d \in Caller, k \in Key, i \in Item :
                 d # c => (Working(d, k, i)' <=> Working(d, k, i))
<1>1. /\ mode'[c] = "ask"
      /\ \A d \in Caller : d # c => mode'[d] = mode[d] /\ step'[d] = step[d]
      /\ module' = module
    BY DEF Return, TypeOK
<1>2. QED
    BY <1>1 DEF Working, Done, Script

LEMMA WaitKeepsOneWorker ==
    ASSUME TypeOK, OneWorker, NEW c \in Caller, Wait(c)
    PROVE  OneWorker'
<1>1. PICK e : Return(c, e)
    BY DEF Wait
<1>2. \A k \in Key, i \in Item : ~Working(c, k, i)
    BY DEF Wait, At, Working
<1>3. flags' = flags /\ item' = item
    BY DEF Wait, package
<1>4. \A d \in Caller, k \in Key, i \in Item : Working(d, k, i)' <=> Working(d, k, i)
    BY <1>1, <1>2, ReturnWorks
<1>5. QED
    BY <1>3, <1>4, SameWork

(* What a worker publishes. *)
LEMMA PublishShape ==
    ASSUME TypeOK, NEW c \in Caller, Publish(c)
    PROVE  \E k \in Key, i \in Item, e \in Error :
              /\ k = Key_(c) /\ i = Item_(c) /\ e = err[c]
              /\ Script(c)[step[c]] = <<k, i>> /\ Working(c, k, i)
              /\ item' = [item EXCEPT ![k][i] = [closed |-> TRUE, error |-> e]]
              /\ Return(c, e)
<1>1. ~Done(c) /\ mode[c] = "publish"
    BY DEF Publish, At
<1>2. PICK k \in Key, i \in Item : k = Key_(c) /\ i = Item_(c) /\ Script(c)[step[c]] = <<k, i>>
    BY <1>1, Current
<1>3. PICK e \in Error : e = err[c]
    BY DEF TypeOK
<1>4. Working(c, k, i)
    BY <1>1, <1>2 DEF Working
<1>5. /\ item' = [item EXCEPT ![k][i] = [closed |-> TRUE, error |-> e]]
      /\ Return(c, e)
    BY <1>2, <1>3 DEF Publish
<1>6. QED
    BY <1>2, <1>3, <1>4, <1>5

(* Closing one wait item leaves the others alone. *)
LEMMA ClosedItem ==
    ASSUME TypeOK, NEW k \in Key, NEW i \in Item, NEW e \in Error,
           item' = [item EXCEPT ![k][i] = [closed |-> TRUE, error |-> e]]
    PROVE  /\ item'[k][i].closed = TRUE /\ item'[k][i].error = e
           /\ \A j \in Key, n \in Item : ~(j = k /\ n = i) => item'[j][n] = item[j][n]
<1>1. item'[k][i] = [closed |-> TRUE, error |-> e]
    BY DEF TypeOK
<1>2. QED
    BY <1>1 DEF TypeOK

LEMMA PublishKeepsOneWorker ==
    ASSUME TypeOK, OneWorker, NEW c \in Caller, Publish(c)
    PROVE  OneWorker'
<1>1. PICK k \in Key, i \in Item, e \in Error :
          /\ Working(c, k, i) /\ Script(c)[step[c]] = <<k, i>>
          /\ item' = [item EXCEPT ![k][i] = [closed |-> TRUE, error |-> e]]
          /\ Return(c, e)
    BY PublishShape
<1>2. /\ \A j \in Key, n \in Item : Working(c, j, n) => j = k /\ n = i
      /\ flags' = flags
    BY <1>1 DEF Working, Publish
<1>3. /\ \A j \in Key, n \in Item : ~Working(c, j, n)'
      /\ \A d \in Caller, j \in Key, n \in Item :
            d # c => (Working(d, j, n)' <=> Working(d, j, n))
    BY <1>1, ReturnWorks
<1>4. \A j \in Key, n \in Item :
          item'[j][n].closed <=> item[j][n].closed \/ (j = k /\ n = i)
    <2>1. item'[k][i].closed = TRUE
        BY <1>1, ClosedItem
    <2>2. \A j \in Key, n \in Item : ~(j = k /\ n = i) => item'[j][n] = item[j][n]
        BY <1>1, ClosedItem
    <2>3. QED  BY <2>1, <2>2, Zenon
<1>5. \A d \in Caller : Working(d, k, i) => d = c
    BY <1>1 DEF OneWorker
<1>6. Bit(i) \in flags[k]
    BY <1>1 DEF OneWorker
<1>7. QED
    BY <1>2, <1>3, <1>4, <1>5, <1>6 DEF OneWorker

LEMMA OneWorkerStep == TypeOK /\ OneWorker /\ [Next]_vars => OneWorker'
<1> SUFFICES ASSUME TypeOK, OneWorker, [Next]_vars PROVE OneWorker'
    OBVIOUS
<1> USE DEF caller, package, reading, Works
<1>1. ASSUME NEW c \in Caller, Ask(c) PROVE OneWorker'
    BY <1>1, AskKeepsOneWorker
<1>2. ASSUME NEW c \in Caller, Wait(c) PROVE OneWorker'
    BY <1>2, WaitKeepsOneWorker
<1>3. ASSUME NEW c \in Caller, Publish(c) PROVE OneWorker'
    BY <1>3, PublishKeepsOneWorker
<1>4. ASSUME NEW c \in Caller, InspectFails(c) \/ Inspect(c) \/ Import(c) PROVE OneWorker'
    <2>1. mode[c] = "lead" /\ mode' = [mode EXCEPT ![c] = "publish"]
        BY <1>4 DEF InspectFails, Inspect, Import, Leads, At, Ended
    <2>2. module' = module /\ step' = step /\ flags' = flags /\ item' = item
        BY <1>4 DEF InspectFails, Inspect, Import, Ended
    <2>3. QED  BY <2>1, <2>2, SameCall
<1>5. ASSUME NEW c \in Caller, StartReaders(c) PROVE OneWorker'
    <2>1. mode[c] = "lead" /\ mode' = [mode EXCEPT ![c] = "reading"]
        BY <1>5 DEF StartReaders, Leads, At
    <2>2. QED  BY <1>5, <2>1, SameCall DEF StartReaders
<1>6. ASSUME NEW c \in Caller, Parse(c) PROVE OneWorker'
    <2>1. mode[c] = "reading" /\ mode' = [mode EXCEPT ![c] = "publish"]
        BY <1>6 DEF Parse, At, Ended
    <2>2. QED  BY <1>6, <2>1, SameCall DEF Parse, Ended
<1>7. CASE /\ module' = module /\ step' = step /\ mode' = mode
           /\ flags' = flags /\ item' = item
    <2>1. \A d \in Caller, k \in Key, i \in Item : Working(d, k, i)' <=> Working(d, k, i)
        BY <1>7 DEF Working, Done, Script
    <2>2. QED  BY <1>7, <2>1, SameWork
<1>8. ASSUME NEW c \in Caller, InspectPanics(c) PROVE OneWorker'
    BY <1>7, <1>8 DEF InspectPanics
<1>9. ASSUME NEW c \in Caller, NEW f \in File, Reads(c, f) PROVE OneWorker'
    BY <1>7, <1>9 DEF Reads, ReadFile, ReadFileFails, JoinError
<1>10. CASE UNCHANGED vars
    BY <1>7, <1>10 DEF vars
<1>11. QED
    BY <1>1, <1>2, <1>3, <1>4, <1>5, <1>6, <1>8, <1>9, <1>10 DEF Next, Calls, Terminated

-----------------------------------------------------------------------------
(* Every call that returns, of a worker or of who waits, returns what its  *)
(* wait item holds.                                                        *)
LEMMA Answered ==
    ASSUME TypeOK, NEW c \in Caller, Wait(c) \/ Publish(c)
    PROVE  \E k \in Key, i \in Item, e \in Error :
              /\ ~Done(c) /\ k = Key_(c) /\ i = Item_(c) /\ Script(c)[step[c]] = <<k, i>>
              /\ item'[k][i].closed = TRUE /\ item'[k][i].error = e
              /\ Return(c, e)
<1>1. CASE Publish(c)
    <2>1. ~Done(c)  BY <1>1 DEF Publish, At
    <2>2. PICK k \in Key, i \in Item, e \in Error :
              /\ k = Key_(c) /\ i = Item_(c) /\ Script(c)[step[c]] = <<k, i>>
              /\ item' = [item EXCEPT ![k][i] = [closed |-> TRUE, error |-> e]]
              /\ Return(c, e)
        BY <1>1, PublishShape
    <2>i. item' = [item EXCEPT ![k][i] = [closed |-> TRUE, error |-> e]]
        BY <2>2
    <2>e. item'[k][i] = [closed |-> TRUE, error |-> e]
        BY <2>i DEF TypeOK
    <2>3. item'[k][i].closed = TRUE /\ item'[k][i].error = e
        BY <2>e
    <2>4. QED  BY <2>1, <2>2, <2>3
<1>2. CASE Wait(c)
    <2>1. ~Done(c) /\ item' = item  BY <1>2 DEF Wait, At, package
    <2>2. PICK k \in Key, i \in Item :
              k = Key_(c) /\ i = Item_(c) /\ Script(c)[step[c]] = <<k, i>>
        BY <2>1, Current
    <2>3. item[k][i].closed \in BOOLEAN /\ item[k][i].error \in Error
        BY DEF TypeOK
    <2>4. PICK e \in Error : e = item[k][i].error
        BY <2>3
    <2>5. item[k][i].closed = TRUE /\ Return(c, e)
        BY <1>2, <2>2, <2>3, <2>4 DEF Wait
    <2>6. QED  BY <2>1, <2>2, <2>4, <2>5
<1>3. QED
    BY <1>1, <1>2

(* A wait item that is closed stays as it is. *)
LEMMA ItemStays ==
    ASSUME TypeOK, OneWorker, [Next]_vars
    PROVE  /\ module' = module
           /\ \A k \in Key, i \in Item : item[k][i].closed = TRUE => item'[k][i] = item[k][i]
<1>1. ASSUME NEW c \in Caller, Publish(c)
      PROVE  \A k \in Key, i \in Item : item[k][i].closed = TRUE => item'[k][i] = item[k][i]
    <2>1. PICK k \in Key, i \in Item, e \in Error :
              /\ Working(c, k, i)
              /\ item' = [item EXCEPT ![k][i] = [closed |-> TRUE, error |-> e]]
        BY <1>1, PublishShape
    <2>2. item[k][i].closed # TRUE
        BY <2>1 DEF OneWorker
    <2>3. \A j \in Key, n \in Item : ~(j = k /\ n = i) => item'[j][n] = item[j][n]
        BY <2>1, ClosedItem
    <2>4. QED  BY <2>2, <2>3
<1>2. (\A c \in Caller : ~Publish(c)) => item' = item
    BY DEF Next, Calls, Reads, Ask, Wait, InspectFails, Inspect, InspectPanics, Import,
           StartReaders, Parse, ReadFile, ReadFileFails, JoinError, Terminated, vars, package
<1>3. module' = module
    BY DEF Next, Calls, Reads, Ask, Wait, Publish, Return, InspectFails, Inspect, InspectPanics,
           Import, Ended, StartReaders, Parse, ReadFile, ReadFileFails, JoinError,
           Terminated, vars, caller
<1>4. QED
    BY <1>1, <1>2, <1>3

(* Only a call that returns tells anything and goes on in its script. *)
LEMMA OthersStay ==
    ASSUME [Next]_vars, \A c \in Caller : ~Wait(c) /\ ~Publish(c)
    PROVE  told' = told /\ step' = step /\ item' = item
BY DEF Next, Calls, Reads, Ask, InspectFails, Inspect, InspectPanics, Import, Ended,
       StartReaders, Parse, ReadFile, ReadFileFails, JoinError, Terminated, vars, caller, package

LEMMA ToldStep ==
    ASSUME TypeOK, OneWorker, ToldRight, [Next]_vars
    PROVE  ToldRight'
<1>1. \A d \in Caller, n \in Need, e \in Error :
          <<d, n, e>> \in told => /\ item'[n[1]][n[2]].closed = TRUE
                                  /\ item'[n[1]][n[2]].error = e
    <2> SUFFICES ASSUME NEW d \in Caller, NEW n \in Need, NEW e \in Error, <<d, n, e>> \in told
                 PROVE  item'[n[1]][n[2]].closed = TRUE /\ item'[n[1]][n[2]].error = e
        OBVIOUS
    <2>1. n[1] \in Key /\ n[2] \in Item  BY DEF Need
    <2>2. item[n[1]][n[2]].closed = TRUE /\ item[n[1]][n[2]].error = e
        BY DEF ToldRight
    <2>3. item'[n[1]][n[2]] = item[n[1]][n[2]]
        BY <2>1, <2>2, ItemStays
    <2>4. QED  BY <2>2, <2>3
<1>2. CASE \E c \in Caller : Wait(c) \/ Publish(c)
    <2>1. PICK c \in Caller : Wait(c) \/ Publish(c)
        BY <1>2
    <2>2. PICK k \in Key, i \in Item, e \in Error :
              /\ Script(c)[step[c]] = <<k, i>>
              /\ item'[k][i].closed = TRUE /\ item'[k][i].error = e
              /\ Return(c, e)
        BY <2>1, Answered
    <2>3. told' = told \cup {<<c, <<k, i>>, e>>}
        BY <2>2 DEF Return
    <2>4. QED  BY <1>1, <2>2, <2>3 DEF ToldRight
<1>3. CASE \A c \in Caller : ~Wait(c) /\ ~Publish(c)
    BY <1>1, <1>3, OthersStay DEF ToldRight
<1>4. QED
    BY <1>2, <1>3

LEMMA LoadedStep ==
    ASSUME TypeOK, OneWorker, Loaded, [Next]_vars
    PROVE  Loaded'
<1>1. /\ module' = module
      /\ \A d \in Caller : step[d] \in {3, 4} =>
            /\ item'[module[d]]["loading"].closed = TRUE
            /\ item'[module[d]]["loading"].error = {}
    BY ItemStays DEF Loaded, TypeOK, Item
<1>2. CASE \E c \in Caller : Wait(c) \/ Publish(c)
    <2>1. PICK c \in Caller : Wait(c) \/ Publish(c)
        BY <1>2
    <2>2. PICK k \in Key, i \in Item, e \in Error :
              /\ ~Done(c) /\ k = Key_(c) /\ i = Item_(c)
              /\ item'[k][i].closed = TRUE /\ item'[k][i].error = e
              /\ Return(c, e)
        BY <2>1, Answered
    <2>3. /\ step'[c] = IF e = {} THEN step[c] + 1 ELSE 5
          /\ \A d \in Caller : d # c => step'[d] = step[d]
        BY <2>2 DEF Return, TypeOK
    <2>4. /\ step[c] = 1 \/ step[c] = 2 \/ step[c] = 3 \/ step[c] = 4
          /\ step[c] = 2 => k = module[c] /\ i = "loading"
        BY <2>2, Current
    <2>5. step'[c] \in {3, 4} => /\ item'[module[c]]["loading"].closed = TRUE
                                 /\ item'[module[c]]["loading"].error = {}
        <3>1. CASE step[c] = 2  BY <2>2, <2>3, <2>4, <3>1
        <3>2. CASE step[c] = 3  BY <1>1, <3>2
        <3>3. CASE step[c] = 1 \/ step[c] = 4  BY <2>3, <3>3
        <3>4. QED  BY <2>4, <3>1, <3>2, <3>3
    <2>6. QED  BY <1>1, <2>3, <2>5 DEF Loaded
<1>3. CASE \A c \in Caller : ~Wait(c) /\ ~Publish(c)
    BY <1>1, <1>3, OthersStay DEF Loaded
<1>4. QED
    BY <1>2, <1>3

-----------------------------------------------------------------------------
(* What the steps of c that work leave behind. *)
LEMMA InspectShape ==
    ASSUME TypeOK, NEW c \in Caller, Inspect(c)
    PROVE  /\ step[c] = 2 /\ ~Done(c) /\ Working(c, module[c], "loading")
           /\ path' = [path EXCEPT ![module[c]] = Canonical[module[c]]]
           /\ \A k \in Key : k # module[c] => files'[k] = files[k]
           /\ mode' = [mode EXCEPT ![c] = "publish"]
           /\ step' = step /\ item' = item /\ syntax' = syntax /\ imported' = imported
           /\ UNCHANGED reading
           /\ \A d \in Caller : d # c => err'[d] = err[d]
<1>1. ~Done(c) /\ mode[c] = "lead" /\ Item_(c) = "loading"
    BY DEF Inspect, Leads, At
<1>2. /\ step[c] = 2 /\ Key_(c) = module[c] /\ module[c] \in Key
      /\ Script(c)[step[c]] = <<module[c], "loading">>
    BY <1>1, Current
<1>3. Working(c, module[c], "loading")
    BY <1>1, <1>2 DEF Working
<1>4. /\ path' = [path EXCEPT ![module[c]] = Canonical[module[c]]]
      /\ \A k \in Key : k # module[c] => files'[k] = files[k]
    BY <1>2 DEF Inspect, TypeOK
<1>5. /\ mode' = [mode EXCEPT ![c] = "publish"]
      /\ \A d \in Caller : d # c => err'[d] = err[d]
    BY DEF Inspect, Ended, TypeOK
<1>6. step' = step /\ item' = item /\ syntax' = syntax /\ imported' = imported /\ UNCHANGED reading
    BY DEF Inspect, Ended, reading
<1>7. QED
    BY <1>1, <1>2, <1>3, <1>4, <1>5, <1>6

LEMMA ResolvedStep ==
    ASSUME TypeOK, OneWorker, Loaded, Resolved, ReadersOwned, [Next]_vars
    PROVE  Resolved'
<1>m. module' = module /\ \A d \in Caller : module[d] \in Key /\ mode[d] \in Mode
    BY ItemStays DEF TypeOK
<1>1. ASSUME path' = path, item' = item,
             \A d \in Caller : mode'[d] = "publish" /\ step'[d] = 2 /\ err'[d] = {} =>
                                  mode[d] = "publish" /\ step[d] = 2 /\ err[d] = {}
      PROVE  Resolved'
    BY <1>1, <1>m DEF Resolved
<1>2. ASSUME NEW c \in Caller, Ask(c) PROVE Resolved'
    <2>1. mode'[c] \in {"wait", "lead"} /\ \A d \in Caller : d # c => mode'[d] = mode[d]
        BY <1>2 DEF Ask, TypeOK
    <2>2. path' = path /\ item' = item /\ step' = step /\ err' = err
        BY <1>2 DEF Ask
    <2>3. QED  BY <1>1, <2>1, <2>2
<1>3. ASSUME NEW c \in Caller, Wait(c) PROVE Resolved'
    <2>1. PICK e : Return(c, e)  BY <1>3 DEF Wait
    <2>2. /\ mode'[c] = "ask"
          /\ \A d \in Caller : d # c => mode'[d] = mode[d] /\ step'[d] = step[d]
        BY <2>1 DEF Return, TypeOK
    <2>3. path' = path /\ item' = item /\ err' = err
        BY <1>3 DEF Wait, package
    <2>4. QED  BY <1>1, <2>2, <2>3
<1>4. ASSUME NEW c \in Caller, Publish(c) PROVE Resolved'
    <2>1. PICK k \in Key, i \in Item, e \in Error :
              /\ k = Key_(c) /\ i = Item_(c) /\ e = err[c]
              /\ item' = [item EXCEPT ![k][i] = [closed |-> TRUE, error |-> e]]
              /\ Return(c, e)
        BY <1>4, PublishShape
    <2>2. /\ mode'[c] = "ask"
          /\ \A d \in Caller : d # c => mode'[d] = mode[d] /\ step'[d] = step[d]
        BY <2>1 DEF Return, TypeOK
    <2>3. path' = path /\ err' = err
        BY <1>4 DEF Publish
    <2>4. ~Done(c) /\ mode[c] = "publish"
        BY <1>4 DEF Publish, At
    <2>5. i = "loading" => k = module[c] /\ step[c] = 2
        BY <2>1, <2>4, Current
    <2>i. item' = [item EXCEPT ![k][i] = [closed |-> TRUE, error |-> e]]
        BY <2>1
    <2>e. item'[k][i] = [closed |-> TRUE, error |-> e]
        BY <2>i DEF TypeOK
    <2>6. item'[k][i].error = e
        BY <2>e
    <2>o. \A j \in Key, n \in Item : ~(j = k /\ n = i) => item'[j][n] = item[j][n]
        BY <2>i, ClosedItem
    <2>7. ASSUME NEW j \in Key, item'[j]["loading"].closed = TRUE, item'[j]["loading"].error = {}
          PROVE  path'[j] = Canonical[j]
        <3>1. CASE j = k /\ i = "loading"
            <4>1. err[c] = {}  BY <2>1, <2>6, <2>7, <3>1
            <4>2. QED  BY <2>3, <2>4, <2>5, <3>1, <4>1 DEF Resolved
        <3>2. CASE ~(j = k /\ i = "loading")
            <4>1. "loading" \in Item  BY DEF Item
            <4>2. item'[j]["loading"] = item[j]["loading"]  BY <2>o, <3>2, <4>1
            <4>3. QED  BY <2>3, <2>7, <4>2 DEF Resolved
        <3>3. QED  BY <3>1, <3>2
    <2>8. \A d \in Caller : mode'[d] = "publish" /\ step'[d] = 2 /\ err'[d] = {} =>
                                path'[module[d]] = Canonical[module[d]]
        BY <2>2, <2>3 DEF Resolved
    <2>9. QED  BY <1>m, <2>3, <2>7, <2>8 DEF Resolved
<1>5. ASSUME NEW c \in Caller, InspectFails(c) PROVE Resolved'
    <2>1. err'[c] = {Tool} /\ \A d \in Caller : d # c => mode'[d] = mode[d] /\ err'[d] = err[d]
        BY <1>5 DEF InspectFails, Ended, TypeOK
    <2>2. path' = path /\ item' = item /\ step' = step
        BY <1>5 DEF InspectFails, Ended, package
    <2>3. QED  BY <1>1, <2>1, <2>2
<1>6. ASSUME NEW c \in Caller, Inspect(c) PROVE Resolved'
    <2>1. PICK k \in Key : k = module[c]
        BY <1>m
    <2>2. /\ path'[k] = Canonical[k]
          /\ \A j \in Key : j # k => path'[j] = path[j]
          /\ item' = item /\ step' = step
        BY <1>6, <2>1, InspectShape DEF TypeOK
    <2>3. \A d \in Caller : d # c => mode'[d] = mode[d] /\ err'[d] = err[d]
        BY <1>6, InspectShape DEF TypeOK
    <2>4. \A j \in Key : /\ path'[j] \in {j, Canonical[j]}
                         /\ item'[j]["loading"].closed = TRUE /\ item'[j]["loading"].error = {} =>
                               path'[j] = Canonical[j]
        BY <2>2 DEF Resolved
    <2>5. \A d \in Caller : mode'[d] = "publish" /\ step'[d] = 2 /\ err'[d] = {} =>
                                path'[module[d]] = Canonical[module[d]]
        BY <1>m, <2>1, <2>2, <2>3 DEF Resolved
    <2>6. QED  BY <1>m, <2>4, <2>5 DEF Resolved
<1>7. ASSUME NEW c \in Caller, Import(c) PROVE Resolved'
    <2>1. step[c] # 2 /\ step' = step /\ path' = path /\ item' = item
        BY <1>7, Current DEF Import, Leads, At, Ended
    <2>2. \A d \in Caller : d # c => mode'[d] = mode[d] /\ err'[d] = err[d]
        BY <1>7 DEF Import, Ended, TypeOK
    <2>3. QED  BY <1>1, <2>1, <2>2
<1>8. ASSUME NEW c \in Caller, StartReaders(c) PROVE Resolved'
    <2>1. mode'[c] = "reading" /\ \A d \in Caller : d # c => mode'[d] = mode[d]
        BY <1>8 DEF StartReaders, TypeOK
    <2>2. path' = path /\ item' = item /\ step' = step /\ err' = err
        BY <1>8 DEF StartReaders, package
    <2>3. QED  BY <1>1, <2>1, <2>2
<1>9. ASSUME NEW c \in Caller, Parse(c) PROVE Resolved'
    <2>1. step[c] = 3 /\ step' = step /\ path' = path /\ item' = item
        BY <1>9 DEF Parse, At, Ended, ReadersOwned
    <2>2. \A d \in Caller : d # c => mode'[d] = mode[d] /\ err'[d] = err[d]
        BY <1>9 DEF Parse, Ended, TypeOK
    <2>3. QED  BY <1>1, <2>1, <2>2
<1>10. CASE mode' = mode /\ step' = step /\ err' = err /\ path' = path /\ item' = item
    BY <1>1, <1>10
<1>11. ASSUME NEW c \in Caller, InspectPanics(c) PROVE Resolved'
    BY <1>10, <1>11 DEF InspectPanics, package
<1>12. ASSUME NEW c \in Caller, NEW f \in File, Reads(c, f) PROVE Resolved'
    BY <1>10, <1>12 DEF Reads, ReadFile, ReadFileFails, JoinError, caller, package
<1>13. CASE UNCHANGED vars
    BY <1>10, <1>13 DEF vars
<1>14. QED
    BY <1>2, <1>3, <1>4, <1>5, <1>6, <1>7, <1>8, <1>9, <1>11, <1>12, <1>13
    DEF Next, Calls, Terminated

(* Only Import changes the path a package is imported by: either go list   *)
(* was asked before, or it is the driver package, whose path is its key.   *)
LEMMA CanonicalImportStep ==
    ASSUME TypeOK, Loaded, Resolved, CanonicalImport, [Next]_vars
    PROVE  CanonicalImport'
<1>1. CASE \E c \in Caller : Import(c)
    <2>1. PICK c \in Caller : Import(c)
        BY <1>1
    <2>2. PICK k \in Key : k = Key_(c)
        BY <2>1, Current DEF Import, Leads, At
    <2>3. imported'[k] = path[k] /\ \A j \in Key : j # k => imported'[j] = imported[j]
        BY <2>1, <2>2 DEF Import, TypeOK
    <2>4. (step[c] = 1 /\ k = Driver) \/ (step[c] = 4 /\ k = module[c])
        <3>1. ~Done(c) /\ Item_(c) = "types"  BY <2>1 DEF Import, Leads, At
        <3>2. step[c] = 1 \/ step[c] = 2 \/ step[c] = 3 \/ step[c] = 4  BY <3>1, Current
        <3>3. step[c] # 2 /\ step[c] # 3  BY <3>1, Current
        <3>4. QED  BY <2>2, <3>1, <3>2, <3>3, Current
    <2>5. path[k] = Canonical[k]
        BY <2>4, CanonicalAssumption DEF Loaded, Resolved
    <2>6. QED  BY <2>3, <2>5 DEF CanonicalImport
<1>2. CASE \A c \in Caller : ~Import(c)
    <2>1. imported' = imported
        BY <1>2 DEF Next, Calls, Reads, Ask, Wait, Publish, InspectFails, Inspect, InspectPanics,
                    StartReaders, Parse, ReadFile, ReadFileFails, JoinError, Terminated, vars, package
    <2>2. QED  BY <2>1 DEF CanonicalImport
<1>3. QED
    BY <1>1, <1>2

-----------------------------------------------------------------------------
(* A call of c changes nothing of the others. *)
LEMMA OwnState ==
    ASSUME TypeOK, NEW c \in Caller, Calls(c), NEW d \in Caller, d # c
    PROVE  /\ mode'[d] = mode[d] /\ step'[d] = step[d] /\ err'[d] = err[d]
           /\ reader'[d] = reader[d] /\ srcs'[d] = srcs[d] /\ errAll'[d] = errAll[d]
<1>1. mode'[d] = mode[d] /\ step'[d] = step[d] /\ err'[d] = err[d]
    BY DEF Calls, Ask, Wait, Publish, Return, InspectFails, Inspect, InspectPanics, Import,
           Ended, StartReaders, Parse, TypeOK
<1>2. reader'[d] = reader[d] /\ srcs'[d] = srcs[d] /\ errAll'[d] = errAll[d]
    BY DEF Calls, Ask, Wait, Publish, InspectFails, Inspect, InspectPanics, Import,
           StartReaders, Parse, reading, TypeOK
<1>3. QED
    BY <1>1, <1>2

(* All calls but the two that begin and end the reading. *)
LEMMA NotReading ==
    ASSUME TypeOK, NEW c \in Caller, Calls(c), ~StartReaders(c), ~Parse(c), ~InspectPanics(c)
    PROVE  /\ mode[c] # "reading" /\ mode'[c] \in {"ask", "wait", "lead", "publish"}
           /\ reader' = reader /\ srcs' = srcs /\ errAll' = errAll /\ syntax' = syntax
<1>1. mode[c] # "reading"
    BY DEF Calls, Ask, Wait, Publish, InspectFails, Inspect, Import, Leads, At
<1>2. mode'[c] \in {"ask", "wait", "lead", "publish"}
    BY DEF Calls, Ask, Wait, Publish, Return, InspectFails, Inspect, Import, Ended, TypeOK
<1>3. reader' = reader /\ srcs' = srcs /\ errAll' = errAll /\ syntax' = syntax
    BY DEF Calls, Ask, Wait, Publish, InspectFails, Inspect, Import, reading, package
<1>4. QED
    BY <1>1, <1>2, <1>3

LEMMA StartShape ==
    ASSUME TypeOK, NEW c \in Caller, StartReaders(c)
    PROVE  /\ step[c] = 3 /\ mode[c] = "lead"
           /\ mode'[c] = "reading" /\ step' = step /\ files' = files /\ syntax' = syntax
           /\ srcs' = srcs /\ errAll' = errAll
           /\ \A f \in File : reader'[c][f] = IF f \in files[module[c]] THEN "reading" ELSE "done"
<1>1. ~Done(c) /\ mode[c] = "lead" /\ Item_(c) = "syntax"
    BY DEF StartReaders, Leads, At
<1>2. step[c] = 3 /\ Key_(c) = module[c]
    BY <1>1, Current
<1>3. QED
    BY <1>1, <1>2 DEF StartReaders, package, TypeOK

LEMMA ReadersOwnedStep ==
    ASSUME TypeOK, ReadersOwned, [Next]_vars
    PROVE  ReadersOwned'
<1> USE DEF ReadersOwned
<1>1. ASSUME NEW c \in Caller, Calls(c) PROVE ReadersOwned'
    <2>1. \A d \in Caller : d # c =>
              /\ mode'[d] = mode[d] /\ step'[d] = step[d] /\ reader'[d] = reader[d]
        BY <1>1, OwnState
    <2>2. /\ mode'[c] = "reading" => step'[c] = 3
          /\ \A f \in File : reader'[c][f] \in {"reading", "joining"} => mode'[c] = "reading"
        <3>1. CASE StartReaders(c)
            BY <3>1, StartShape
        <3>2. CASE Parse(c)
            <4>1. mode'[c] = "publish" /\ reader' = reader /\ \A f \in File : reader[c][f] = "done"
                BY <3>2 DEF Parse, Ended, AllRead, reading, TypeOK
            <4>2. QED  BY <4>1
        <3>3. CASE InspectPanics(c)
            BY <3>3 DEF InspectPanics, reading
        <3>4. CASE ~StartReaders(c) /\ ~Parse(c) /\ ~InspectPanics(c)
            BY <1>1, <3>4, NotReading
        <3>5. QED  BY <3>1, <3>2, <3>3, <3>4
    <2>3. QED  BY <2>1, <2>2
<1>2. ASSUME NEW c \in Caller, NEW f \in File, Reads(c, f) PROVE ReadersOwned'
    <2>1. mode' = mode /\ step' = step
        BY <1>2 DEF Reads, ReadFile, ReadFileFails, JoinError, caller
    <2>2. \A d \in Caller, g \in File :
              reader'[d][g] \in {"reading", "joining"} => reader[d][g] \in {"reading", "joining"}
        <3>1. CASE ReadFile(c, f)  BY <3>1 DEF ReadFile, TypeOK
        <3>2. CASE ReadFileFails(c, f)  BY <3>2 DEF ReadFileFails, TypeOK
        <3>3. CASE JoinError(c, f)  BY <3>3 DEF JoinError, TypeOK
        <3>4. QED  BY <1>2, <3>1, <3>2, <3>3 DEF Reads
    <2>3. QED  BY <2>1, <2>2
<1>3. CASE UNCHANGED vars
    BY <1>3 DEF vars
<1>4. QED
    BY <1>1, <1>2, <1>3 DEF Next, Terminated

(* Files of a package that is loaded stay as they are. *)
LEMMA FilesStay ==
    ASSUME TypeOK, OneWorker, [Next]_vars
    PROVE  \A k \in Key : item[k]["loading"].closed = TRUE => files'[k] = files[k]
<1>1. ASSUME NEW c \in Caller, Inspect(c)
      PROVE  \A k \in Key : item[k]["loading"].closed = TRUE => files'[k] = files[k]
    <2>1. Working(c, module[c], "loading") /\ \A k \in Key : k # module[c] => files'[k] = files[k]
        BY <1>1, InspectShape
    <2>2. module[c] \in Key /\ "loading" \in Item  BY DEF TypeOK, Item
    <2>3. item[module[c]]["loading"].closed # TRUE
        BY <2>1, <2>2 DEF OneWorker
    <2>4. QED  BY <2>1, <2>3
<1>2. CASE \A c \in Caller : ~Inspect(c)
    BY <1>2 DEF Next, Calls, Reads, Ask, Wait, Publish, InspectFails, InspectPanics, Import,
                StartReaders, Parse, ReadFile, ReadFileFails, JoinError, Terminated, vars, package
<1>3. QED
    BY <1>1, <1>2

(* FilesRead, of one caller. *)
FilesReadBy(c) ==
    /\ mode[c] = "reading" =>
          /\ srcs[c] \subseteq files[module[c]]
          /\ \A f \in File :
                /\ f \notin files[module[c]] => reader[c][f] = "done"
                /\ f \in files[module[c]] /\ reader[c][f] = "done" =>
                      f \in srcs[c] \/ errAll[c] # {}
    /\ step[c] \in {1, 2} \/ (step[c] = 3 /\ mode[c] \in {"ask", "wait", "lead"}) =>
          srcs[c] = {}

(* Who is at the syntax of its module has the files that go list gave.     *)
LEMMA OwnFilesStay ==
    ASSUME TypeOK, OneWorker, Loaded, [Next]_vars, NEW d \in Caller, step[d] \in {3, 4}
    PROVE  module'[d] = module[d] /\ files'[module[d]] = files[module[d]]
<1>1. module[d] \in Key /\ module' = module
    BY ItemStays DEF TypeOK
<1>2. item[module[d]]["loading"].closed = TRUE
    BY DEF Loaded
<1>3. QED
    BY <1>1, <1>2, FilesStay

LEMMA SameReading ==
    ASSUME TypeOK, OneWorker, Loaded, ReadersOwned, [Next]_vars, NEW d \in Caller, FilesReadBy(d),
           mode'[d] = mode[d], step'[d] = step[d], reader'[d] = reader[d],
           srcs'[d] = srcs[d], errAll'[d] = errAll[d]
    PROVE  FilesReadBy(d)'
<1>1. mode[d] = "reading" => module'[d] = module[d] /\ files'[module[d]] = files[module[d]]
    BY OwnFilesStay DEF ReadersOwned
<1>2. QED
    BY <1>1 DEF FilesReadBy

(* Where the script goes on, nothing has been read yet. *)
LEMMA AfterReturn ==
    ASSUME TypeOK, NEW c \in Caller, Wait(c) \/ Publish(c)
    PROVE  step'[c] \in {1, 2, 3} => step[c] \in {1, 2}
<1>1. PICK k \in Key, i \in Item, e \in Error : ~Done(c) /\ Return(c, e)
    BY Answered
<1>2. step'[c] = IF e = {} THEN step[c] + 1 ELSE 5
    BY <1>1 DEF Return, TypeOK
<1>3. step[c] \in 1..4
    BY <1>1, Current
<1>4. QED
    BY <1>2, <1>3

LEMMA CallsFilesRead ==
    ASSUME TypeOK, OneWorker, Loaded, ReadersOwned, [Next]_vars,
           NEW c \in Caller, Calls(c), FilesReadBy(c)
    PROVE  FilesReadBy(c)'
<1>0. step[c] \in 1..5
    BY DEF TypeOK
<1>1. CASE StartReaders(c)
    <2>1. /\ srcs'[c] = {} /\ mode'[c] = "reading" /\ step'[c] = 3
          /\ \A f \in File : reader'[c][f] = IF f \in files[module[c]] THEN "reading" ELSE "done"
        BY <1>1, StartShape DEF FilesReadBy
    <2>2. module'[c] = module[c] /\ files'[module[c]] = files[module[c]]
        BY <1>1, StartShape, OwnFilesStay
    <2>3. QED  BY <2>1, <2>2 DEF FilesReadBy
<1>2. CASE Parse(c)
    <2>1. mode'[c] = "publish" /\ step'[c] = 3
        BY <1>2 DEF Parse, Ended, At, ReadersOwned, TypeOK
    <2>2. QED  BY <2>1 DEF FilesReadBy
<1>3. CASE InspectPanics(c)
    BY <1>3, SameReading DEF InspectPanics, reading
<1>4. CASE Wait(c) \/ Publish(c)
    <2>1. mode'[c] = "ask" /\ srcs' = srcs
        BY <1>4 DEF Wait, Publish, Return, TypeOK, reading
    <2>2. step'[c] \in {1, 2, 3} => srcs'[c] = {}
        BY <1>4, <2>1, AfterReturn DEF FilesReadBy
    <2>3. QED  BY <2>1, <2>2 DEF FilesReadBy
<1>5. CASE Ask(c)
    <2>1. mode[c] = "ask" /\ mode'[c] \in {"wait", "lead"} /\ step' = step /\ srcs' = srcs
        BY <1>5 DEF Ask, At, TypeOK, reading
    <2>2. QED  BY <2>1 DEF FilesReadBy
<1>6. CASE InspectFails(c) \/ Inspect(c) \/ Import(c)
    <2>1. mode'[c] = "publish" /\ step' = step /\ srcs' = srcs
        BY <1>6 DEF InspectFails, Inspect, Import, Ended, TypeOK, reading
    <2>2. QED  BY <2>1 DEF FilesReadBy
<1>7. QED
    BY <1>1, <1>2, <1>3, <1>4, <1>5, <1>6 DEF Calls

LEMMA FilesReadStep ==
    ASSUME TypeOK, OneWorker, Loaded, ReadersOwned, FilesRead, [Next]_vars
    PROVE  FilesRead'
<1>0. /\ FilesRead <=> \A d \in Caller : FilesReadBy(d)
      /\ FilesRead' <=> \A d \in Caller : FilesReadBy(d)'
    BY DEF FilesRead, FilesReadBy
<1>1. ASSUME NEW c \in Caller, Calls(c), NEW d \in Caller PROVE FilesReadBy(d)'
    <2>1. CASE d = c  BY <1>0, <1>1, <2>1, CallsFilesRead
    <2>2. CASE d # c
        <3>1. /\ mode'[d] = mode[d] /\ step'[d] = step[d] /\ reader'[d] = reader[d]
              /\ srcs'[d] = srcs[d] /\ errAll'[d] = errAll[d]
            BY <1>1, <2>2, OwnState
        <3>2. QED  BY <1>0, <3>1, SameReading
    <2>3. QED  BY <2>1, <2>2
<1>2. ASSUME NEW c \in Caller, NEW f \in File, Reads(c, f), NEW d \in Caller PROVE FilesReadBy(d)'
    <2>1. /\ mode' = mode /\ step' = step /\ module' = module /\ files' = files
          /\ reader[c][f] \in {"reading", "joining"}
        BY <1>2 DEF Reads, ReadFile, ReadFileFails, JoinError, caller, package
    <2>2. CASE d # c
        <3>1. reader'[d] = reader[d] /\ srcs'[d] = srcs[d] /\ errAll'[d] = errAll[d]
            BY <1>2, <2>2 DEF Reads, ReadFile, ReadFileFails, JoinError, TypeOK
        <3>2. QED  BY <1>0, <2>1, <3>1, SameReading
    <2>3. CASE d = c
        <3>1. mode[c] = "reading" /\ step[c] = 3 /\ f \in files[module[c]]
            BY <1>0, <2>1 DEF ReadersOwned, FilesReadBy
        <3>2. CASE ReadFile(c, f)
            <4>1. /\ srcs'[c] = srcs[c] \cup {f} /\ errAll'[c] = errAll[c]
                  /\ \A g \in File : g # f => reader'[c][g] = reader[c][g]
                BY <3>2 DEF ReadFile, TypeOK
            <4>2. QED  BY <1>0, <2>1, <2>3, <3>1, <4>1 DEF FilesReadBy
        <3>3. CASE ReadFileFails(c, f)
            <4>1. /\ srcs'[c] = srcs[c] /\ errAll'[c] = errAll[c]
                  /\ reader'[c][f] = "joining"
                  /\ \A g \in File : g # f => reader'[c][g] = reader[c][g]
                BY <3>3 DEF ReadFileFails, TypeOK
            <4>2. QED  BY <1>0, <2>1, <2>3, <3>1, <4>1 DEF FilesReadBy
        <3>4. CASE JoinError(c, f)
            <4>1. /\ srcs'[c] = srcs[c] /\ errAll'[c] # {}
                  /\ \A g \in File : g # f => reader'[c][g] = reader[c][g]
                BY <3>4 DEF JoinError, TypeOK
            <4>2. QED  BY <1>0, <2>1, <2>3, <3>1, <4>1 DEF FilesReadBy
        <3>5. QED  BY <1>2, <3>2, <3>3, <3>4 DEF Reads
    <2>4. QED  BY <2>2, <2>3
<1>3. ASSUME UNCHANGED vars, NEW d \in Caller PROVE FilesReadBy(d)'
    BY <1>0, <1>3, SameReading DEF vars
<1>4. (\E c \in Caller : Calls(c) \/ \E f \in File : Reads(c, f)) \/ UNCHANGED vars
    BY DEF Next, Terminated
<1>5. QED
    BY <1>0, <1>1, <1>2, <1>3, <1>4

(* What the files of a package were parsed to, with no error left over.    *)
LEMMA ParseShape ==
    ASSUME TypeOK, ReadersOwned, FilesRead, NEW c \in Caller, Parse(c)
    PROVE  /\ step[c] = 3 /\ ~Done(c) /\ Working(c, module[c], "syntax")
           /\ step' = step /\ module' = module /\ item' = item /\ files' = files
           /\ \A k \in Key : k # module[c] => syntax'[k] = syntax[k]
           /\ err'[c] = {} => syntax'[module[c]] = files[module[c]]
<1>1. mode[c] = "reading" /\ step[c] = 3 /\ ~Done(c)
    BY DEF Parse, At, ReadersOwned
<1>2. /\ Key_(c) = module[c] /\ module[c] \in Key
      /\ Script(c)[step[c]] = <<module[c], Item_(c)>> /\ Item_(c) = "syntax"
    BY <1>1, Current
<1>3. Working(c, module[c], "syntax")
    BY <1>1, <1>2 DEF Working
<1>4. /\ syntax'[module[c]] = srcs[c]
      /\ \A k \in Key : k # module[c] => syntax'[k] = syntax[k]
    BY <1>2 DEF Parse, TypeOK
<1>5. err'[c] = {} => errAll[c] = {}
    BY DEF Parse, Ended, TypeOK
<1>6. errAll[c] = {} => srcs[c] = files[module[c]]
    <2>1. \A f \in File : reader[c][f] = "done"
        BY DEF Parse, AllRead
    <2>2. files[module[c]] \subseteq File
        BY <1>2 DEF TypeOK
    <2>3. srcs[c] \subseteq files[module[c]]
        BY <1>1 DEF FilesRead
    <2>4. ASSUME errAll[c] = {}, NEW f \in files[module[c]] PROVE f \in srcs[c]
        BY <1>1, <2>1, <2>2, <2>4 DEF FilesRead
    <2>5. QED  BY <2>3, <2>4
<1>7. step' = step /\ module' = module /\ item' = item /\ files' = files
    BY DEF Parse, Ended
<1>8. QED
    BY <1>1, <1>3, <1>4, <1>5, <1>6, <1>7

LEMMA ParsedStep ==
    ASSUME TypeOK, OneWorker, Loaded, ReadersOwned, FilesRead, Parsed, [Next]_vars
    PROVE  Parsed'
<1>0. /\ module' = module /\ "syntax" \in Item /\ "loading" \in Item
      /\ \A d \in Caller : module[d] \in Key
      /\ \A k \in Key : item[k]["loading"].closed = TRUE =>
            item'[k]["loading"].closed = TRUE /\ files'[k] = files[k]
      /\ \A k \in Key : item[k]["syntax"].closed = TRUE => item'[k]["syntax"] = item[k]["syntax"]
    BY ItemStays, FilesStay DEF TypeOK, Item
<1>1. ASSUME NEW c \in Caller, Parse(c) PROVE Parsed'
    <2>1. /\ step[c] = 3 /\ Working(c, module[c], "syntax")
          /\ item' = item /\ files' = files /\ step' = step
          /\ \A k \in Key : k # module[c] => syntax'[k] = syntax[k]
          /\ err'[c] = {} => syntax'[module[c]] = files[module[c]]
        BY <1>1, ParseShape
    <2>2. item[module[c]]["syntax"].closed # TRUE
        BY <1>0, <2>1 DEF OneWorker
    <2>3. \A k \in Key :
              item'[k]["syntax"].closed = TRUE =>
                  /\ item'[k]["loading"].closed = TRUE
                  /\ item'[k]["syntax"].error = {} => syntax'[k] = files'[k]
        BY <2>1, <2>2 DEF Parsed
    <2>4. ASSUME NEW d \in Caller, d # c, mode[d] = "publish", step[d] = 3
          PROVE  module[d] # module[c]
        <3>1. ~Done(d)  BY <2>4 DEF Done
        <3>2. Script(d)[step[d]] = <<module[d], "syntax">>
            BY <2>4, <3>1, Current
        <3>3. Working(d, module[d], "syntax")
            BY <2>4, <3>1, <3>2 DEF Working
        <3>4. QED  BY <1>0, <2>1, <2>4, <3>3 DEF OneWorker
    <2>5. ASSUME NEW d \in Caller, mode'[d] = "publish", step'[d] = 3, err'[d] = {}
          PROVE  syntax'[module[d]] = files'[module[d]]
        <3>1. CASE d = c  BY <2>1, <2>5, <3>1
        <3>2. CASE d # c
            <4>1. mode[d] = "publish" /\ step[d] = 3 /\ err[d] = {}
                BY <1>1, <2>5, <3>2, OwnState DEF Calls
            <4>2. QED  BY <1>0, <2>1, <2>4, <3>2, <4>1 DEF Parsed
        <3>3. QED  BY <3>1, <3>2
    <2>6. QED  BY <1>0, <2>3, <2>5 DEF Parsed
<1>2. ASSUME \A c \in Caller : ~Parse(c) PROVE Parsed'
    <2>1. syntax' = syntax
        BY <1>2 DEF Next, Calls, Reads, Ask, Wait, Publish, InspectFails, Inspect, InspectPanics,
                    Import, StartReaders, ReadFile, ReadFileFails, JoinError, Terminated, vars, package
    <2>2. ASSUME NEW d \in Caller, mode'[d] = "publish", step'[d] = 3, err'[d] = {}
          PROVE  mode[d] = "publish" /\ step[d] = 3 /\ err[d] = {}
        <3>1. CASE Calls(d)
            <4>1. CASE InspectFails(d) \/ Inspect(d) \/ Import(d)
                <5>1. step'[d] # 3
                    BY <4>1, Current DEF InspectFails, Inspect, Import, Leads, At, Ended
                <5>2. QED  BY <2>2, <5>1
            <4>2. CASE Ask(d) \/ Wait(d) \/ Publish(d) \/ StartReaders(d)
                <5>1. mode'[d] # "publish"
                    BY <4>2 DEF Ask, Wait, Publish, Return, StartReaders, TypeOK
                <5>2. QED  BY <2>2, <5>1
            <4>3. CASE InspectPanics(d)
                BY <2>2, <4>3 DEF InspectPanics
            <4>4. QED  BY <1>2, <3>1, <4>1, <4>2, <4>3 DEF Calls
        <3>2. CASE \E c \in Caller : c # d /\ Calls(c)
            BY <2>2, <3>2, OwnState
        <3>3. CASE \E c \in Caller, f \in File : Reads(c, f)
            BY <2>2, <3>3 DEF Reads, ReadFile, ReadFileFails, JoinError, caller
        <3>4. CASE UNCHANGED vars
            BY <2>2, <3>4 DEF vars
        <3>5. QED  BY <3>1, <3>2, <3>3, <3>4 DEF Next, Terminated
    <2>3. ASSUME NEW d \in Caller, mode'[d] = "publish", step'[d] = 3, err'[d] = {}
          PROVE  syntax'[module[d]] = files'[module[d]]
        BY <1>0, <2>1, <2>2, <2>3 DEF Parsed, Loaded
    <2>4. ASSUME NEW k \in Key, item'[k]["syntax"].closed = TRUE
          PROVE  /\ item'[k]["loading"].closed = TRUE
                 /\ item'[k]["syntax"].error = {} => syntax'[k] = files'[k]
        <3>1. CASE item[k]["syntax"].closed = TRUE
            BY <1>0, <2>1, <3>1 DEF Parsed
        <3>2. CASE item[k]["syntax"].closed # TRUE
            <4>1. PICK c \in Caller : Publish(c)
                BY <2>4, <3>2 DEF Next, Calls, Reads, Ask, Wait, InspectFails, Inspect,
                   InspectPanics, Import, StartReaders, Parse, ReadFile, ReadFileFails, JoinError,
                   Terminated, vars, package
            <4>2. PICK j \in Key, i \in Item, e \in Error :
                      /\ j = Key_(c) /\ i = Item_(c) /\ e = err[c]
                      /\ item' = [item EXCEPT ![j][i] = [closed |-> TRUE, error |-> e]]
                BY <4>1, PublishShape
            <4>i. item' = [item EXCEPT ![j][i] = [closed |-> TRUE, error |-> e]]
                BY <4>2
            <4>o. \A l \in Key, n \in Item : ~(l = j /\ n = i) => item'[l][n] = item[l][n]
                BY <4>i, ClosedItem
            <4>3. j = k /\ i = "syntax"
                BY <1>0, <2>4, <3>2, <4>o
            <4>4. item'[j][i] = [closed |-> TRUE, error |-> e]
                BY <4>i DEF TypeOK
            <4>5. ~Done(c) /\ mode[c] = "publish"
                BY <4>1 DEF Publish, At
            <4>s. Item_(c) = "syntax" /\ Key_(c) = k
                BY <4>2, <4>3
            <4>6. step[c] = 3 /\ k = module[c]
                BY <4>5, <4>s, Current
            <4>7. item'[k]["loading"].closed = TRUE /\ files'[k] = files[k]
                BY <1>0, <4>6 DEF Loaded
            <4>8. item'[k]["syntax"].error = {} => syntax'[k] = files'[k]
                BY <2>1, <4>2, <4>3, <4>4, <4>5, <4>6, <4>7 DEF Parsed
            <4>9. QED  BY <4>7, <4>8
        <3>3. QED  BY <3>1, <3>2
    <2>5. QED  BY <1>0, <2>3, <2>4 DEF Parsed
<1>3. QED
    BY <1>1, <1>2

LEMMA Inductive == Spec => []IInv
<1>1. IInv /\ [Next]_vars => IInv'
    BY TypeStep, OneWorkerStep, ToldStep, LoadedStep, ResolvedStep, CanonicalImportStep,
       ReadersOwnedStep, FilesReadStep, ParsedStep DEF IInv
<1>2. QED
    BY InitInv, <1>1, PTL DEF Spec

(* The flag words, the wait items and what the readers share are well      *)
(* formed, whatever the callers and the readers do in between.             *)
THEOREM TypeCorrect == Spec => []TypeOK
<1>1. IInv => TypeOK  BY DEF IInv
<1>2. QED  BY <1>1, Inductive, PTL

(* Whoever sets a bit of the flag word is the only one who works for it    *)
(* and closes its channel, once (main.go:1007, main.go:1015).              *)
THEOREM OneWorkerEach == Spec => []OneWorker
<1>1. IInv => OneWorker  BY DEF IInv
<1>2. QED  BY <1>1, Inductive, PTL

(* Types are imported by the path that go list gives (main.go:1697).       *)
THEOREM ImportsAreCanonical == Spec => []CanonicalImport
<1>1. IInv => CanonicalImport  BY DEF IInv
<1>2. QED  BY <1>1, Inductive, PTL

(* Nobody is told that a syntax is there without one tree for each file,   *)
(* in spite of the race of the readers on errAll (main.go:1279).           *)
THEOREM SyntaxIsComplete == Spec => []SyntaxComplete
<1>1. IInv => SyntaxComplete
    <2> SUFFICES ASSUME IInv, NEW c \in Caller, NEW k \in Key,
                        <<c, <<k, "syntax">>, {}>> \in told
                 PROVE  syntax[k] = files[k]
        BY DEF SyntaxComplete
    <2>1. <<k, "syntax">> \in Need /\ {} \in Error
        BY DEF Need, Item, Error
    <2>2. item[k]["syntax"].closed = TRUE /\ item[k]["syntax"].error = {}
        BY <2>1 DEF IInv, ToldRight
    <2>3. QED  BY <2>2 DEF IInv, Parsed
<1>2. QED  BY <1>1, Inductive, PTL

-----------------------------------------------------------------------------
(* What Once.tla calls begun and ended. *)
Begun == {n \in Need : Bit(n[2]) \in flags[n[1]]}
EndedWork == {<<n, item[n[1]][n[2]].error>> : n \in {m \in Need : item[m[1]][m[2]].closed}}

(* The other steps leave the flags, the wait items and the answers alone.  *)
LEMMA Stutters ==
    ASSUME [Next]_vars, \A c \in Caller : ~Ask(c) /\ ~Wait(c) /\ ~Publish(c)
    PROVE  flags' = flags /\ item' = item /\ told' = told
BY DEF Next, Calls, Reads, InspectFails, Inspect, InspectPanics, Import, Ended,
       StartReaders, Parse, ReadFile, ReadFileFails, JoinError, Terminated, vars, caller, package

LEMMA AskBegins ==
    ASSUME TypeOK, NEW c \in Caller, Ask(c)
    PROVE  /\ EndedWork' = EndedWork /\ told' = told
           /\ Begun' = Begun \/ \E n \in Need : n \notin Begun /\ Begun' = Begun \cup {n}
<1>1. item' = item /\ told' = told
    BY DEF Ask
<1>2. PICK k \in Key, i \in Item : k = Key_(c) /\ i = Item_(c)
    BY Current DEF Ask, At
<1>3. flags' = [flags EXCEPT ![k] = @ \cup {Bit(i)}]
    BY <1>2 DEF Ask
<1>4. /\ flags'[k] = flags[k] \cup {Bit(i)}
      /\ \A j \in Key : j # k => flags'[j] = flags[j]
    BY <1>3 DEF TypeOK
<1>5. PICK n \in Need : n = <<k, i>>
    BY DEF Need
<1>6. \A m \in Need : /\ m[1] \in Key /\ m[2] \in Item
                      /\ m[1] = k /\ m[2] = i <=> m = n
    BY <1>5 DEF Need
<1>7. \A m \in Need : Bit(m[2]) \in flags'[m[1]] <=> Bit(m[2]) \in flags[m[1]] \/ m = n
    <2> SUFFICES ASSUME NEW m \in Need
                 PROVE  Bit(m[2]) \in flags'[m[1]] <=> Bit(m[2]) \in flags[m[1]] \/ m = n
        OBVIOUS
    <2>1. CASE m[1] # k  BY <1>4, <1>6, <2>1
    <2>2. CASE m[1] = k
        <3>1. Bit(m[2]) \in flags'[k] <=> Bit(m[2]) \in flags[k] \/ Bit(m[2]) = Bit(i)
            BY <1>4
        <3>2. Bit(m[2]) = Bit(i) <=> m[2] = i
            BY <1>6, BitsDiffer
        <3>3. QED  BY <1>6, <2>2, <3>1, <3>2
    <2>3. QED  BY <2>1, <2>2
<1>8. Begun' = Begun \cup {n}
    BY <1>7 DEF Begun
<1>9. EndedWork' = EndedWork
    BY <1>1 DEF EndedWork
<1>10. QED
    BY <1>1, <1>8, <1>9

LEMMA PublishEnds ==
    ASSUME TypeOK, OneWorker, NEW c \in Caller, Publish(c)
    PROVE  \E n \in Need, e \in Error :
              /\ n \in Begun /\ \A p \in Error : <<n, p>> \notin EndedWork
              /\ EndedWork' = EndedWork \cup {<<n, e>>}
              /\ told' = told \cup {<<c, n, e>>} /\ Begun' = Begun
<1>1. PICK k \in Key, i \in Item, e \in Error :
          /\ Script(c)[step[c]] = <<k, i>> /\ Working(c, k, i)
          /\ item' = [item EXCEPT ![k][i] = [closed |-> TRUE, error |-> e]]
          /\ Return(c, e)
    BY PublishShape
<1>i. item' = [item EXCEPT ![k][i] = [closed |-> TRUE, error |-> e]]
    BY <1>1
<1>2. PICK n \in Need : n = <<k, i>> /\ n[1] = k /\ n[2] = i
    <2>1. <<k, i>> \in Need /\ <<k, i>>[1] = k /\ <<k, i>>[2] = i
        BY DEF Need
    <2>2. QED  BY <2>1
<1>3. Bit(i) \in flags[k] /\ ~item[k][i].closed
    BY <1>1 DEF OneWorker
<1>4. item'[k][i] = [closed |-> TRUE, error |-> e]
    BY <1>i DEF TypeOK
<1>5. \A j \in Key, l \in Item : ~(j = k /\ l = i) => item'[j][l] = item[j][l]
    BY <1>i, ClosedItem
<1>6. \A m \in Need : m # n => item'[m[1]][m[2]] = item[m[1]][m[2]]
    BY <1>2, <1>5 DEF Need
<1>7. item'[n[1]][n[2]].error = e /\ item'[n[1]][n[2]].closed
    BY <1>2, <1>4
<1>8. EndedWork' = EndedWork \cup {<<n, e>>}
    <2>1. ASSUME NEW x \in EndedWork' PROVE x \in EndedWork \cup {<<n, e>>}
        <3>1. PICK m \in Need : item'[m[1]][m[2]].closed /\ x = <<m, item'[m[1]][m[2]].error>>
            BY <2>1 DEF EndedWork
        <3>2. QED  BY <1>6, <1>7, <3>1 DEF EndedWork
    <2>2. ASSUME NEW x \in EndedWork PROVE x \in EndedWork'
        <3>1. PICK m \in Need : item[m[1]][m[2]].closed /\ x = <<m, item[m[1]][m[2]].error>>
            BY <2>2 DEF EndedWork
        <3>2. m # n  BY <1>2, <1>3, <3>1
        <3>3. QED  BY <1>6, <3>1, <3>2 DEF EndedWork
    <2>3. <<n, e>> \in EndedWork'
        BY <1>7 DEF EndedWork
    <2>4. QED  BY <2>1, <2>2, <2>3
<1>9. \A p \in Error : <<n, p>> \notin EndedWork
    BY <1>2, <1>3 DEF EndedWork
<1>10. n \in Begun /\ Begun' = Begun
    BY <1>2, <1>3 DEF Begun, Publish
<1>11. told' = told \cup {<<c, n, e>>}
    BY <1>1, <1>2 DEF Return
<1>12. QED
    BY <1>8, <1>9, <1>10, <1>11

LEMMA WaitTells ==
    ASSUME TypeOK, NEW c \in Caller, Wait(c)
    PROVE  \E n \in Need, e \in Error :
              /\ <<n, e>> \in EndedWork /\ told' = told \cup {<<c, n, e>>}
              /\ Begun' = Begun /\ EndedWork' = EndedWork
<1>1. flags' = flags /\ item' = item
    BY DEF Wait, package
<1>2. PICK k \in Key, i \in Item, e \in Error :
          /\ ~Done(c) /\ k = Key_(c) /\ i = Item_(c) /\ Script(c)[step[c]] = <<k, i>>
          /\ item'[k][i].closed = TRUE /\ item'[k][i].error = e
          /\ Return(c, e)
    BY Answered
<1>3. PICK n \in Need : n = <<k, i>> /\ n[1] = k /\ n[2] = i
    <2>1. <<k, i>> \in Need /\ <<k, i>>[1] = k /\ <<k, i>>[2] = i
        BY DEF Need
    <2>2. QED  BY <2>1
<1>4. <<n, e>> \in EndedWork
    BY <1>1, <1>2, <1>3 DEF EndedWork
<1>5. told' = told \cup {<<c, n, e>>}
    BY <1>2, <1>3 DEF Return
<1>6. QED
    BY <1>1, <1>4, <1>5 DEF Begun, EndedWork

(* The flag word and the wait items of a package are work that is done     *)
(* once, whose one outcome everybody is told (main.go:1007, main.go:1015). *)
THEOREM LoaderImplementsOnce == Spec => ImplementsOnce
<1>1. Init => O!Init
    BY DEF Init, O!Init, Need
<1>2. TypeOK /\ OneWorker /\ [Next]_vars => [O!Next]_(O!vars)
    <2> SUFFICES ASSUME TypeOK, OneWorker, [Next]_vars PROVE [O!Next]_(O!vars)
        OBVIOUS
    <2>1. ASSUME NEW c \in Caller, Ask(c) PROVE [O!Next]_(O!vars)
        BY <2>1, AskBegins DEF O!Next, O!Begin, O!vars, Begun, EndedWork
    <2>2. ASSUME NEW c \in Caller, Wait(c) PROVE [O!Next]_(O!vars)
        BY <2>2, WaitTells DEF O!Next, O!Tell, O!vars, Begun, EndedWork
    <2>3. ASSUME NEW c \in Caller, Publish(c) PROVE [O!Next]_(O!vars)
        BY <2>3, PublishEnds DEF O!Next, O!End, O!vars, Begun, EndedWork
    <2>4. CASE \A c \in Caller : ~Ask(c) /\ ~Wait(c) /\ ~Publish(c)
        BY <2>4, Stutters DEF O!vars
    <2>5. QED  BY <2>1, <2>2, <2>3, <2>4
<1>3. IInv => TypeOK /\ OneWorker
    BY DEF IInv
<1>4. QED
    BY <1>1, <1>2, <1>3, Inductive, PTL DEF Spec, ImplementsOnce, O!Spec
=============================================================================
