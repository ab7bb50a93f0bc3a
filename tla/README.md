# A verification of pggen

`pggen` (src/cmd/pggen/main.go) reads a Go package, finds the types whose
comments ask for it, and writes `Scan` and `Value` methods that convert those
types from and to PostgreSQL composite literals.  This directory holds TLA+
models of the tool *and of the code it generates*, the TLC runs that check them
and TLAPS proofs about them.  PROJECT.json lists the components, the runs, for
every definition the lines it models, the hazards and the theorems.

## The system

| component | state | operations | source |
|---|---|---|---|
| type worklist | `seenTypes`, `typeNeeds` (two maps that are swapped), `anonTypeNeedsScan`, `anonTypeNeedsValue` (slices) | `queueByMacros`, `queueObjFor*`, `queueAnonStructFor*`, three iterators, `generate*For*`, the loops of `ParseModuleAndGenerate` | main.go:1045-1262, 1375-1593 |
| renderers | none; they fill the worklist | `renderScanner`, `renderValuer`, `handle*POD*`, `handleNamedValuer`, ... | main.go:279-922 |
| AST accumulator | declarations, imports, identifier table | `CreateFunc`, `CreateMethod`, `ValueTypeExpr`, `ZeroValue`, `Import`, node constructors | ast.go |
| package loader | per package: flag word, three wait items, `go list` fields, syntax, types; `pkgs` under a mutex | `makepkg`, `InspectOne`, `inspectMany`, `ParseSyntaxSync`, `NeedTypes` | main.go:949-1039, 1264-1300, 1596-1756 |
| arena | current chunk, its fill, the chunks taken; a free list shared by all arenas | `Alloc*`, `Realloc`, `Clone`, `Strclone`, `ReadAllFrom`, `Free` | arena.go, span.go |
| output | one file, read and written by every run | create, print, append the runtime | main.go:1495, 1575-1593 |
| generated code | a cursor per record, a builder per record and array | `__intrinsic_readString`, `__intrinsic_computeStringFromDriverValuer`, the generated `Scan` and `Value` bodies | main.go:27-98, 279-922, example/types |

How they interact: `main` asks the loader for `database/sql/driver`, then
`ParseModuleAndGenerate` asks it for the syntax and the types of the module,
the generated file of the run before included; the comments fill the worklist;
the loops take a type out of it, call a renderer on its underlying type, and the
renderer calls back into the worklist for every named type and anonymous struct
it meets; each finished body is appended to the accumulator, which is printed at
the end.  Nodes of the tree and scratch memory are made for an arena's
lifetime.  The printed methods run later, in another program, and talk to
PostgreSQL: one direction writes what the other side's `record_in` reads, the
other reads what its `record_out` wrote.

What is hard:

- the worklist is filled by the code that ranges over it, in the random order of
  Go maps and, for anonymous structs, over an array that it shares with the queue;
- the loader is a home-made single-flight protocol with an unsynchronised error
  variable next to it;
- the arena does address arithmetic on rounded and unrounded sizes, lends chunks
  out through a `sync.Pool` and hides its current chunk from the garbage collector;
- the generated code keeps a cursor in a literal by hand, with a quoting that
  grows with every level and cursors that shadow each other;
- the tool's output is one of its inputs, and is written in several steps.

The hazards are listed with their lines in PROJECT.json.

## Modules

The worklist:

- **WorkSet** is what a worklist promises, as an abstract specification:
  requested once, completed once after it was requested, never forgotten.
- **Generator** is the worklist with the renderers that feed it.  `src` is the
  package (types as descriptions, declarations with their comments), chosen in
  `Init` and constant.  `phase` is the part of `ParseModuleAndGenerate` that
  runs; `typeNeeds`/`round` are maps b and a of `typeNeedsIterator`;
  `methods` is what is left of a visited `needs` value; `job` and `stack` are a
  body being rendered and the renderer calls still to make (one step per call
  of `renderScanner`/`renderValuer`); `anonNeeds` and `anonRound` are the slices
  of the anonymous iterators *with their capacity*, because append decides by
  it whether the range loop sees its writes; `funcs` is the accumulator, each
  function with its type and the functions it calls.
  The statements of a body are abstracted to the functions it calls.  A name is
  a sequence of parts, so that `a + "_" + b` is concatenation.  Every `panic` of
  the code leads to the phase "panic".
- **GeneratorReference** says from the package alone what the file should hold:
  the smallest set of functions that has those the comments ask for and those
  its members call.  What the code for a type ends up calling is a recursive
  function (`Ends`), through pointers, slices, named types and POD types; a set
  is smallest if none of its subsets is of the same kind, so nothing is
  iterated.  **MCGenerator** has the packages, **GeneratorProofs** the proofs.

The loader:

- **Once** is what a shared piece of work promises: begun once, one outcome,
  everyone told that outcome and nothing before it is there.
- **Loader** is `makepkg`, `InspectOne`, `ParseSyntaxSync` with one goroutine
  per file, and `NeedTypes`.  A caller goes through the four calls of `main` and
  `ParseModuleAndGenerate`; every call is Ask (the atomic OR on the flag word),
  then either Wait on the wait item or the work and Publish (store the error,
  close the channel).  `pggen` has one caller today; the flags and channels are
  written for several (main.go:962, and the TODO at main.go:1777), so `Caller` is
  a constant.  The error of the readers is joined in two steps, read and write,
  because nothing orders them; a first write of the interface value may be seen
  half (`Broken`).  **MCLoader** gives the constants, **LoaderProofs** the proofs.

The arena:

- **Arena** is the bump allocator.  An address is a chunk and an offset; the
  length recorded for a chunk and the bytes it really has are different state,
  because the code records the capacity of the chunk *before* (arena.go:131).
  `last` remembers the span that was allocated last, which is the only one that
  `Realloc` may be given (arena.go:57); `ReallocPanic` is the panic for any
  other.  **MCArena** gives the constants, **ArenaProofs** the proofs.

The generated code:

- **Literal** is the text that generated code and PostgreSQL exchange, as
  sequences of bytes.  `GoQuote` (strconv.Quote), `PgColumn`, `PgRecord`,
  `PgArray` (`record_out`, `array_out`) and `PgColumns` (`record_in`) are not in
  this repository; they are modelled from PostgreSQL's documentation, which
  README.md:4 of the repository names.  `Read` is the reader in one step.  All of
  it is built on `Scanned`, a recursive function over a sequence, so that it can
  be proved about; **LiteralProofs** has what the other proofs use of it.
- **ReadString** is `__intrinsic_readString` with one step per turn of its
  loops, and an index that can be seen to leave the slice.  `call` has the
  arguments and, next to them, the text that the literal at the front was
  written for and where its bytes lie (`start`), so that what the reader should
  return can be said without running it.  A newline stands for the control
  characters: `strconv.Quote` names it by a letter, which the reader refuses.
  `LoopsAgree` says that `Literal!Read`
  is what the loops return.  **MCReadString** has the inputs,
  **ReadStringProofs** the proofs.
- **RecordValue** is one call of a generated `Value`.  `stack` has a frame for
  each function and each block of a slice that runs: the fields left, the text
  in the variable they are written through (`value`, `value2`), the builder.
  That the variable outlives a field matters: a block that declares a variable
  of the same name leaves the old text in it (main.go:359).  `Field` is any set
  of values that has the parts of its members, and `Depth` says that no value is
  part of itself.  How a call must end (`Fate`), which fields the code writes as
  it should (`Plain`) and what a column should hold (`Means`) are recursive
  functions over the values.  **MCRecordValue** has the structs,
  **RecordValueProofs** the proofs.
- **RecordScan** is one call of a generated `Scan`.  `stack` has a frame for
  each record and each loop over an array: the source, the cursor, the fields
  left; `got` is what was stored.  Every way out has an action: the returned
  errors, the dropped ones (`Skip`), the panics, an index out of range.
  What is left to do of a record is in `left` (`Todo`: a field, or the call of
  a FromPOD whose argument was read) and what it is made of in `of`; `Field` is
  any set of types that has the types its members are made of.  `Value` is any
  set of values that has the parts of its members, each given with its type, and
  `Depth` says that no value is part of itself; a call has the values that its
  literal was written for, if it is a record (`values`).  What PostgreSQL writes for
  a value (`Written`), which ones the code can read (`Readable`) and what it
  should store (`Leaves`) are recursive functions over the values.
  **MCRecordScan** has the values, **RecordScanProofs** the proofs.
- **Example** has the types of example/types/container.go as the file that was
  generated for them takes them apart; both directions are run on it.

The file:

- **Output** is zz_scannervaluer.generated.go over many runs of the tool.  A run
  parses the package with the file, type-checks it, generates, truncates the
  file, prints (in two steps, so that it can be caught half done) and appends
  two texts.  Meanwhile developers edit the package; a run may be killed and a
  write may fail at any step.  The file is a sequence of pieces, each whole, cut
  between two declarations or torn within one: the first compiles against the
  next package, the second does not parse.  **MCOutput** is for the constants,
  **OutputProofs** for the proofs.

## Runs

| run | what it shows |
|---|---|
| generator | On thirty-two packages and every order of the map: the bookkeeping never loses or doubles a need (`NeedsAccounted`), no method is declared twice in the file (`MethodOnce`), a hand-written method is declared again only where a comment asks for it (`HandWrittenKept`), methods called from methods exist (`MethodCallsDefined`), the file holds exactly the methods that comments and methods lead to and, in the packages in which none is too wide for the iterator, the functions of the anonymous structs (`EmittedAsReachable`), the tool stops (`Termination`) and implements WorkSet. |
| generator_deep | *Violation*: anonymous structs are lost when a later round of the iterator refills the array it reads (main.go:1122). |
| generator_hidden | *Violation*: a named type first met inside an anonymous struct is never generated (main.go:1560). |
| generator_macro | *Violation*: a comment on an ungrouped declaration has no effect (main.go:1217). |
| loader | Two callers, one package under two names, two racing readers (102,700 states): one worker per piece of work (`OneWorker`), no nil file in a syntax that was answered without an error in spite of the race (`SyntaxComplete`), types imported by the resolved path (`CanonicalImport`), nobody waits for ever (`Termination`), and Once is implemented. |
| arena | Two arenas over one free list (371,806 states): spans stay inside the memory their chunk really has (`InBounds`), never share a byte (`NoOverlap`), a chunk is in one place (`Exclusive`), the chunk of a span in use is in the list that keeps it alive (`Rooted`), and the last span can be reallocated if its length is of whole words (`LastCanGrow`). |
| read_string | What was quoted, by Go or by PostgreSQL, is read back with the cursor right behind it, and refused whole if Go has named a control character in it (`QuotedReadBack`); what was not quoted is read up to its delimiter (`BareReadBack`), n = 0 without an error means a delimiter and never an empty string (`ZeroIsNull`), the loops are `Literal!Read` (`LoopsAgree`). |
| record_value | What `Value` writes has one column per field and each field in its column (`PlainRecordKept`), the first error or panic of a field, at any depth, ends the call and no later one is asked (`FirstFailureWins`). |
| value_shadow | *Violation*: a field with a `Value` method of its own gets the column of the field before it (main.go:359). |
| record_scan | Cursors stay in their literals but for the byte a slice takes for its comma (`TypeOK`); `Scan` indexes behind a literal only in a record with too few columns or for a struct with nothing in its column, and never in an array (`InBounds`); in a record of PostgreSQL's no field reads the column of a later one (`NeverAhead`); what the code can read is stored as it was (`ReadRight`), a struct or a hand-written Scan is skipped only on its own null or at the end of an earlier column, and with no error (`SkipsNoColumn`), the call ends (`Termination`). |
| scan_columns | *Violation*: nothing steps over the comma between two columns, so the second field of a record reads nothing (main.go:917). |
| output | A run that refuses the package has not touched the file (`RefusalKeepsFile`), an undisturbed run that says it is done has left exactly the right file, whatever was there before (`DoneIsRight`), and developers who rerun the tool, and delete a file it refuses, always get there (`Recovery`). |

### What the properties leave out

Eight properties have a premise or an exception because the code is known to be
wrong outside of it.  The premise is an operator of its own, and its lines are hazards or
findings:

- `EmittedAsReachable` claims the anonymous functions only for packages whose
  anonymous structs have at most one anonymous struct each below the second
  level (`Narrow`); outside of it is generator_deep.  That each is there once
  it claims if no two fields come to structs of one name (`Unambiguous`,
  main.go:1441).
- `PlainRecordKept` (`Plain`): a field with a `Value` method (value_shadow); a
  `ToPOD` of one result and several parameters, which is not called
  (main.go:497); an
  array of two elements or more, which goes into the record without quotes, so
  that its commas are columns (main.go:600), and one of strings, whose
  quotes `record_in` takes off; a string with a character that strconv.Quote writes as a letter
  and PostgreSQL does not read back as one (main.go:320).  A struct without
  fields is left out as well: `()` is a record of one null.
- `ReadRight` (`Readable`): two columns of which the first is not an array
  (scan_columns: only the code of an array passes the comma); an array element
  without quotes, which is read up to a `)` that an array does not have
  (main.go:881), an array in an array, which PostgreSQL writes without
  quotes; an int or bool that is null, a FromPOD or hand-written Scan that returns
  an error.  A null in an array is no value of the model at all
  (`ValueAssumption`): PostgreSQL writes it as the word NULL, for which no
  renderer looks.
- `NeverAhead` and `InBounds` speak of records that PostgreSQL wrote with a
  column for every field (`Fits`).  Any other literal may end the call by an
  index out of range, and so may the empty column of a struct (`OutOfRange`:
  `source[0]` at main.go:1511).
- `SkipsNoColumn` speaks of such records, not of arrays: the last element of an
  array, without quotes, does come with an error and n = 0, which main.go:753
  takes for a column that is not there.  In a record a field is skipped, for the
  same n = 0, although its column is there when the cursor still stands on the
  comma before it (scan_columns): the second case of the property.
- `QuotedReadBack` claims that a string is read back only if strconv.Quote has
  named no character in it; a named one (`\n`) is refused by the reader
  (main.go:81), so what `Value` writes for such a string `Scan` does not read.
- `DoneIsRight` speaks of runs in which no write failed: the errors of the two
  appended texts are dropped (main.go:1590), and such a run ends well with a
  broken file.  `Recovery` covers what comes after.

### Bounds

- *generator*: the packages of MCGenerator: four that are generated whole
  (example/types, before and after a first run, among them), twenty-six that are
  refused, one for every panic and direction, and the two of generator_deep and
  generator_hidden.  They have every kind of type, hand-written and generated
  methods, every form of POD method, mutually recursive types, structs nested
  four deep with up to four fields and several types in one round of the map.
  There is no bound on the behaviour itself: the tool runs to its end.
- *loader*: two callers are enough for one to work and one to wait on each wait
  item; three keys give a shared package, an alias and two unrelated ones; two
  files are enough for the race.  No other bound.
- *arena*: `MaxChunks` = 3 chunks ever made, `MaxLive` = 3 spans held at once,
  chunks of two words at first and sizes 0, 5, 8 and 24: a size that rounding
  changes, one that fills a word, one that needs a bigger chunk, and none.
  Three chunks let a chunk whose recorded length is too small come back, and a
  second arena take it.  Arenas are symmetric and no liveness is checked.
  Deadlock is not checked: an arena is a library, and its callers may stop.
- *read_string*: every string of up to three bytes out of a quote, a backslash,
  a comma, a parenthesis, a newline and a letter, bare and in both quotings, in
  front of five continuations, and every sequence of up to four bytes.  The loop looks one
  byte ahead, so two special bytes in a row and an end after either is all there
  is.
- *record_value*: records of one and two fields of every kind, nested up to
  three deep, and the example's `Kek`.  Two fields are one with a comma behind
  it and one without; three levels are a quoting of a quoting.
- *record_scan*: one to three fields of every kind, nested as above, the
  example's types, and literals that are no records.  The third field is the
  first that comes after a cursor gone wrong.
- *output*: three types of which one is not supported, `MaxEdits` = 2 and
  `MaxFaults` = 2: a type taken out after a kill that left it in the file, and a
  fault while the damage of another is repaired.  Runs are not bounded.

### Fairness

- Generator, RecordScan: `WF_vars(Step)`.  One goroutine runs to the end, so some
  step is taken while one is possible; nothing is assumed of the order of maps.
- ReadString and RecordValue, none: the one has counted loops and the other no
  loop but over finite values, so that there is nothing to show about their end.
- Loader: weak fairness of every caller and of every reader: goroutines are
  scheduled, and the go tool, the importer and the file system answer.
  Termination allows for the process to end by the panic of
  `processSingleGoListPackage`.
- Output: a run that has begun goes on unless it is killed (`Run`), developers
  run the tool again (`Start`), and delete a file that makes it fail (`Delete`:
  nothing in the tool does, so without it a torn file is refused for ever).
- Arena: none.

## Proofs

All are for every value of the constants.  Nearly every one is `Spec => []P`,
`Spec => [][A]_vars` or a refinement, by an inductive invariant.  Where
that is made of properties a run checks, TLC has seen it hold; the parts that
quantify over all sequences of bytes (`Serves`) it cannot evaluate.

- **GeneratorProofs**, for every package:
  - `TypeCorrect`: `Spec => []TypeOK`, one step per action; the lemmas before it
    type each operator (`FieldsTyped`, `PushTyped`, ...).  `TypeOK` includes that
    no queue outgrows its array, which the overwriting depends on.
  - `NeedsAreAccountedFor` and `MethodsEmittedOnce`.  `NeedsAccounted` is not
    inductive alone.  `Bookkeeping` adds that a method being rendered belongs to
    the type it is of and is not rendered in the phases of the anonymous structs
    (so that its emission completes exactly that need), that no need waits twice
    for the visited type, and that the iterator starts with an empty map a.
  - `GeneratorImplementsWorkSet`: a step that queues maps to Request (of nothing,
    it stutters), Emit of a method to Complete, everything else to a stutter.  The
    facts needed about an Emit are those of Bookkeeping.
  - `MethodCallsAreDefined`: every call in an emitted method or in a method in
    hand is provided or *seen*; when the loop over named types ends, every map is
    empty, so by `NeedsAccounted` what was seen is emitted.
  - `HandWrittenMethodsKept`: a hand-written method that was *seen* was asked for
    (`SeenAskedFor`: the renderers do not queue it), and only what was seen is
    emitted.
  - `FileAsReachable`: `Spec => []EmittedAsReachable`, in three parts.  A recursive
    definition need not have a solution; `Ends` has one, the least relation that
    is closed under its equation (`LeastEnds`, `EndsEquation`).
    - `ShapeInvariant`: every call still to render ends at what the field of the
      body ends at that it came of, whatever the renderers have replaced it by.  So
      what is behind is what the body calls so far (`Passed`), and nothing else.
    - `MethodsReached`: what comments and the renderers have come to is wanted
      (`MethodsWanted`), and what is wanted is in every set that has what it calls
      (`NoMethodExtra`); when the maps are empty, what is wanted is in the file.
    - `AnonPlacesInvariant`: a struct that was come to is in the queue, the unread
      part of the round, in hand or in the file (`AnonsKnown`), in every set
      that has what it calls (`NoAnonExtra`), and was come to by something in work
      (`Sourced`).  A queue that starts over in the array of the round overwrites
      what is still unread when it grows past the iterator; `SharedRound` says
      that it is behind, because the struct in hand is inside an anonymous
      one and has at most one of its own left to queue (`Room`).  `OnePlace`, that
      nothing is in two of those places, needs in addition that no two fields come
      to one name.
- **LoaderProofs**, for any number of callers, packages and files:
  `TypeCorrect`, `OneWorkerEach`, `SyntaxIsComplete`, `ImportsAreCanonical` and
  `LoaderImplementsOnce`.  `OneWorker` is nearly inductive; the others are not.
  `ToldRight` says that what a caller was told is what the wait item holds, so
  that a caller at its third call was told its package is loaded (`Loaded`), and
  a loaded package has the path of `go list` (`Resolved`).  For the race,
  `ReadersOwned` says whose readers run, and `FilesRead` that a reader that is
  done has read its file *or there is some error*: a lost write of `errAll` is
  always lost to another error, never to nil.  `Parsed` carries that to the wait
  item.  In the refinement Ask by the worker begins the work, Publish ends it
  and tells, Wait tells.
- **ArenaProofs**, for any set of arenas and of sizes, any number of chunks, and
  any multiple of eight as the size of a first chunk: `SpansInBounds`,
  `SpansDisjoint`, `ChunksExclusive`, `ChunksRooted`, `LastSpanCanGrow`,
  `ArenaTypeCorrect`, and `SpansAligned` (part of the invariant; no run checks
  it).  The inductive invariant `IInv` adds to the checked properties that
  recorded lengths and fills are whole words and no larger than the chunk
  (`Words`: it is why a chunk recorded with the capacity of the one before it is
  only wasted, never overrun, and why rounding up in a pooled chunk is safe),
  that a span in use lies in a chunk of its open arena (`Owned`), and that the
  spans in the current chunk end where its free part begins (`TopFree`: what
  makes it safe for `Realloc` to take the top back).  The three ways through
  `allocSize` go through one lemma, `PlaceKeeps`.  `LastTop` says that the
  rounded end of the last span is the top.
- **LiteralProofs**, for any bytes and texts of any length.  Induction is not
  taken from the library as a theorem with an operator for a parameter: every
  nonempty set of naturals has a least element (`LeastElement`), so a set with 0
  and every successor has all naturals (`SetInduction`), and a set of sequences
  closed under `Append` has all sequences (`SeqInduction`); an induction is the
  set of those for which the claim holds.  That recursive functions exist is
  proved the same way (`TraceExists`, `ScannedTrace`), which gives
  `ScannedConcat`: reading two texts is reading one and then the other.  From it
  follow that a text is read out of its quotes as it was (`ReadQuoted`,
  `ReadColumn`), where the columns of a record begin (`RecordColumn`), and the
  lemma `PgReadsRecord`: `record_in` finds in what `record_out` wrote the same
  columns.
- **ReadStringProofs**, for any bytes and any arguments: `TypeCorrect` (no index
  leaves the slice), `QuotedStringsReadBack`, `BareStringsReadBack`,
  `ZeroMeansAbsent`, `LoopsAreRead`.  The invariant of the quoted loop
  (`QuotedLoop`) is that the index stands where some byte of the text begins, the
  buffer holds the text before it and no character before it was named; that of the other loop (`BareLoop`) that
  nothing behind it was a delimiter; for `LoopsAreRead`, that buffer and index are
  what `QuotedRead` has after the bytes read so far.
- **RecordScanProofs**, for any types and any literal: `TypeCorrect`,
  `NoFieldAhead`, `LooksBehindNoEnd`, `NoColumnSkipped`, `ReadableRecordsStored`.  A cursor moves by what
  `Read` counts, which is never past the last byte unless that byte is a quote
  (`ReadFacts`), so the parenthesis of a record stops it.  For `NeverAhead` the
  invariant is that the cursor of a fitting record stands where a column begins
  that is not behind the next field's, or where an earlier one ends
  (`InColumns`): a read from the beginning of a column ends at its end, and one
  from its end, which is a comma, reads nothing (`FitsReads`).  `NoColumnSkipped`
  is the converse: only a null has nothing in its column (`ColumnLength`), so a
  read of nothing was at the end of an earlier column or on a null.  `of`, the number of fields `Pending` and the
  columns of the literal count the same thing, through pointers, PODs and the
  call of FromPOD that a POD leaves to do.

  `ReadableRecordsStored`, `Spec => []ReadRight`, goes by what is still to come.
  That there is one `Written`, one `Readable` and one `Leaves` and that each satisfies
  its equation is proved by induction over `Depth`, as for RecordValue.  A frame
  *owes* the leaves of some values (`Owes`) when the types left to do are theirs
  (`Matches`) and what is behind its cursor is their text as PostgreSQL wrote it:
  in a record it begins with the next column, as only an array passes the comma
  behind it and any other column is the last.  The stack owes
  what its frames owe, the innermost first (`Owing`), and the invariant `RInv` is
  that what was stored followed by what is owed is what is to be stored
  (`Owed`).  Reading a leaf moves it from one to the other; a struct or an
  array moves what its column owes into a frame of its own (`NewRecordOwes`,
  `NewArrayOwes`), which is where the reader has taken off one level of the
  quoting; pointers and PODs change neither.  No error, panic or index out of
  range is possible for a frame that owes (`NothingFails`).
- **RecordValueProofs**, for any values of finite depth: `TypeCorrect`,
  `FirstFailureDecides`, `PlainRecordsKept`.  `Fate`, `Plain` and `Means` are
  recursive along `Parts`; that there is one such function and that it satisfies
  its equation is proved by induction over `Depth` (`PartsRecursion`,
  `PartsUnique`, then `FateEquation`, `PlainEquation`, `MeansEquation`).  The
  invariant says of every frame which values it was made for and that it
  *serves* them (`Serves`): the fate of what is left is the fate of all, and, if
  they are plain, what is in the builder so far takes `record_in` to the
  beginning of the next column with each column read as it should
  (`RecordSoFar`).  A frame on top of another serves the parts of the field that
  is next in that one (`Under`), so that a frame that is closed gives its caller
  a text that fits (`GivenFits`): this is where a quoting of a quoting is read
  level by level, and `PgReadEscaped` is why strconv.Quote may be used for it.
  An error in the last frame is the first error of the struct by induction down
  the stack (`FateOfTop`).
- **OutputProofs**, for any types and any number of edits and faults:
  `TypeCorrect`, `RefusedRunKeepsFile`, `DoneMeansRight`.  `ReadAsIs` says that
  what an undisturbed run has read is still the package, `WrittenAsIs` that what
  it has written is made of that, `OpenFile` that an opened file starts empty.

Assumptions are those of the constants, each with a name in its module and
evaluated by the runs: distinct sentinels, bytes and letters, whole-word chunks,
and, for the generated code, that a set of types or values has what its members
are made of (`FieldAssumption`, `ValueAssumption`), that a value is not part of itself
(`DepthAssumption`: a Go value that is would make `Value` recurse for ever, and
PostgreSQL has none), that the literal of a call is the one PostgreSQL writes
for the values it is said to have (`CallsAssumption`) and that strconv writes
numbers and bools in letters.  `LetterAssumption` has the
byte n among the letters because strconv.Quote writes it.

Model-checked only: the liveness properties (`Termination` of three runs, and
`Recovery`), because fairness and ENABLED are out of the prover's
reach.  Every invariant, action property and refinement of a passing run is a
theorem.

## Not modelled

- `inspectMany`: nothing calls it.  The command line and the logging.
  errors.go, render.go, parser.go are not used and scan_renderer.go is commented
  out.  span.go and unsafe.go are pure conversions.
- The constructors of ast.go: they build a node out of nodes.  Which types
  `ValueTypeExpr` and `ZeroValue` have an expression for is in Generator; how
  they spell it is not, nor the imports and the name hygiene of the generated
  file (main.go:492, 582, 628, 1419, 1510), nor a foreign type spelled without
  its import (ast.go:949).
- `ReadAllFrom` has no action of its own: it allocates and reallocates the span
  it allocated last, which the arena's steps include.  The bytes in spans.
- `append` is taken to double the capacity of a queue, as it does for the sizes of
  the runs; the proofs use only that the array becomes larger.
- The arena counts elements where the model counts bytes (arena.go:59), which
  differs for elements of no size only.  What `os.ReadFile` may return with its
  error (main.go:1278) is not parsed in Loader; the error stays either way.
- In generated code: floats, the check of an array's length, the copy into a
  map, integers as numbers (a column has a text and a verdict).
- Packages in which `FromPOD` leads back to its own type, where the renderer
  recurses for ever (main.go:443), are excluded, as is the endless recursion of
  `ZeroValue` on an alias (ast.go:980), modelled as a refusal.
- Two anonymous structs whose names coincide (main.go:1441): names are sequences
  of parts.
- The go tool, parser, type checker and importer are outcomes.  The importer
  reads sources without function bodies, so that a file whose bodies are cut
  between declarations passes.  It is not safe for concurrent use; more callers
  would need a lock, as the buffers of `go list` would (main.go:206, 1028).
- Addresses of different chunks are taken to differ even when one chunk begins
  where another ends.  Arenas are not used after `Free`.

## Plan

Done: Generator, Loader and Arena with their refinements; the generated code in
both directions; the file over many runs; the proofs of what is checked of them.

Next, in this order:

1. The spelling of types: `ValueTypeExpr`, `ZeroValue` and the imports they
   record, against a reference that says which names a file must import.
2. Names as strings: the collision of anonymous functions.
3. `ReadAllFrom` on top of the Arena, with the bytes in its span.
