------------------------------ MODULE Generator ------------------------------
(***************************************************************************)
(* The worklist at the heart of pggen (src/cmd/pggen/main.go): which Scan  *)
(* and Value functions the tool generates for a package, and in what       *)
(* order it finds out.                                                     *)
(*                                                                         *)
(* ParseModuleAndGenerate reads the semantic comments of the package       *)
(* (queueByMacros), generates a method for every named type that is        *)
(* needed while the renderers keep discovering new ones                    *)
(* (typeNeedsIterator), and then generates a function for every anonymous  *)
(* struct the renderers met (anonNeedsScanIterator,                        *)
(* anonNeedsValueIterator).                                                *)
(*                                                                         *)
(* The statements a renderer produces are abstracted to the set of         *)
(* functions they call; the walk over the type, every panic on the way and *)
(* every queue are kept.                                                   *)
(***************************************************************************)
EXTENDS Integers, Sequences, FiniteSets

CONSTANTS Type,        \* the types of the package and of its dependencies
          Part,        \* the parts that the names of functions are made of
          NoType,      \* no type: the type does not have the POD method
          BadPOD,      \* a POD method of a form that the tool refuses
          NoJob,       \* no function is being generated
          Programs     \* the packages the tool may be run on

Dir == {"Scan", "Value"}

(* types.Type as the renderers tell it apart.  "byte" is byte and rune,    *)
(* whose name renderBasicScan does not know, "scanner" is an interface     *)
(* with a Scan method, "other" is a channel, a type parameter, a function. *)
Kind == {"basic", "byte", "complex", "unsafePointer", "pointer", "slice",
         "array", "map", "alias", "named", "struct", "scanner", "interface",
         "other"}

(* A name is the sequence of its parts between underscores, so that the    *)
(* concatenation of sequences is `a + "_" + b' with all its collisions.    *)
Name == Seq(Part)

Field == [name: Name, type: Type]

(* sub is the element of a pointer, slice or array, what a name or an      *)
(* alias stands for, the synthesised struct{Key; Value} of a map.          *)
TypeInfo ==
    [kind: Kind,
     sub: Type,
     fields: Seq(Field),
     name: Name,
     local: BOOLEAN,                      \* declared in the package
     method: [Dir -> {"none", "user", "generated"}],
     pod: [Dir -> Type \cup {NoType, BadPOD}],
     podForm: {"ret", "retErr", "out",   \* ToPOD() T, (T, error), (*T)
               "many"}]                  \* one result, several parameters

Directive == [op: {"generate", "exclude"}, dir: Dir]

(* A type declaration: its doc comment and its specs, each with its own.   *)
(* The parser puts the comment of an ungrouped declaration in doc.         *)
Decl == [doc: Seq(Directive),
         specs: Seq([type: Type, documented: BOOLEAN, doc: Seq(Directive)])]

Program == [type: [Type -> TypeInfo], decls: Seq(Decl)]

ASSUME PartAssumption == "POD" \in Part
ASSUME ProgramsAssumption == Programs \subseteq Program
ASSUME SentinelAssumption == NoType \notin Type /\ BadPOD \notin Type

VARIABLES
    src,       \* the package given on the command line; it never changes
    phase,     \* where ParseModuleAndGenerate is
    decl,      \* the declaration queueByMacros looks at next
    seenTypes, \* g.seenTypes
    round,     \* the unvisited part of map a of typeNeedsIterator
    typeNeeds, \* g.typeNeeds: map b during the iteration
    methods,   \* what is left of the needs of the type being visited
    job,       \* the function whose body is being rendered
    stack,     \* the renderer calls still to make for it, next one first
    anonNeeds, \* g.anonTypeNeedsScan and g.anonTypeNeedsValue
    anonRound, \* slice a of anonNeeds*Iterator and its range loop
    funcs      \* a.funcs of the AST accumulator

vars == <<src, phase, decl, seenTypes, round, typeNeeds, methods, job, stack,
          anonNeeds, anonRound, funcs>>

named == <<seenTypes, round, typeNeeds>>
anon == <<anonNeeds, anonRound>>

Need == Dir \X Type

(* A generated function: the method of a type, or the __Scan_ or __Value_  *)
(* function of the anonymous struct of that name.                          *)
FnId == [dir: Dir, type: Type \cup {NoType}, name: Name]
Method(d, t) == [dir |-> d, type |-> t, name |-> src.type[t].name]
AnonFn(d, n) == [dir |-> d, type |-> NoType, name |-> n]

(* The declaration of a generated function; type is the one of its         *)
(* receiver or of its parameter.                                           *)
Job == [fn: FnId, type: Type, calls: SUBSET FnId]
Call == [type: Type, name: Name]
Anon == [type: Type, name: Name]

Phase == {"macros", "named", "Scan", "Value", "done", "panic"}

ASSUME NoJobAssumption == NoJob \notin Job

Info(t) == src.type[t]
KindOf(t) == src.type[t].kind
Sub(t) == src.type[t].sub

(***************************************************************************)
(* The semantic comments.  On(base, doc, d, i): direction d is on after    *)
(* the first i comments of doc, having been on before if it is in base.    *)
(***************************************************************************)
On(base, doc, d, i) ==
    LET about == {j \in 1..i : doc[j].dir = d}
    IN  IF about = {} THEN d \in base
        ELSE \E j \in about : /\ doc[j].op = "generate"
                              /\ \A k \in about : k <= j

(* A directive that changes nothing is refused. *)
Redundant(base, doc) ==
    \E i \in DOMAIN doc :
        On(base, doc, doc[i].dir, i - 1) <=> doc[i].op = "generate"

GroupPanics(doc) == \/ \E i \in DOMAIN doc : doc[i].op = "exclude"
                    \/ Redundant({}, doc)

GroupOn(doc) == {d \in Dir : On({}, doc, d, Len(doc))}

(* The specs whose comments are read and refused, and the ones queued     *)
(* before the first of those.  A spec with no comment of its own is       *)
(* skipped, whatever the group says.                                      *)
BadSpecs(dc) == {j \in DOMAIN dc.specs :
                    /\ dc.specs[j].documented
                    /\ Redundant(GroupOn(dc.doc), dc.specs[j].doc)}

MacroNeeds(dc) ==
    {n \in Need : \E j \in DOMAIN dc.specs :
        /\ dc.specs[j].documented
        /\ \A b \in BadSpecs(dc) : j < b
        /\ dc.specs[j].type = n[2]
        /\ On(GroupOn(dc.doc), dc.specs[j].doc, n[1], Len(dc.specs[j].doc))}

(* Mutation of Queue: the seen map is not asked. *)
QueueUnseen(S) == /\ seenTypes' = seenTypes \cup S
                  /\ typeNeeds' = typeNeeds \cup S
                  /\ round' = round

(* queueObjForScanner and queueObjForValuer on every need of S. *)
Queue(S) == /\ seenTypes' = seenTypes \cup S
            /\ typeNeeds' = typeNeeds \cup (S \ seenTypes)
            /\ round' = round

(* Mutation of Grow: growth by half, which leaves an empty array empty. *)
GrowByHalf(c) == c + c \div 2

(***************************************************************************)
(* The slices behind the anonymous struct queues.  From its second round   *)
(* on the iterator ranges over an array that the queue it refills has as   *)
(* its backing array too, until append has to move the queue elsewhere.    *)
(* Grow is what Go's append does with entries of three words, up to 512 of *)
(* them; the proofs use only that the array becomes larger.                *)
(***************************************************************************)
Grow(c) == IF c = 0 THEN 1 ELSE 2 * c

Fits(q) == Len(q.items) < q.cap

Pushed(q, x) == [items |-> Append(q.items, x),
                 cap |-> IF Fits(q) THEN q.cap ELSE Grow(q.cap)]

(* What the push does to the slice that is being ranged over. *)
Overwritten(r, q, x) ==
    LET i == Len(q.items) + 1
    IN  IF ~Fits(q) THEN [r EXCEPT !.shared = FALSE]
        ELSE IF r.shared /\ i <= Len(r.items) THEN [r EXCEPT !.items[i] = x]
        ELSE r

(* queueAnonStructForScanner and queueAnonStructForValuer. *)
QueueAnon(d, x) ==
    /\ anonNeeds' = [anonNeeds EXCEPT ![d] = Pushed(@, x)]
    /\ anonRound' = Overwritten(anonRound, anonNeeds[d], x)

(* ValueTypeExpr: the types it has an expression for. *)
Spellable[t \in Type] ==
    CASE KindOf(t) \in {"pointer", "slice", "array", "map"} -> Spellable[Sub(t)]
      [] KindOf(t) = "struct" ->
            \A i \in DOMAIN Info(t).fields : Spellable[Info(t).fields[i].type]
      [] OTHER -> KindOf(t) \in {"basic", "byte", "complex", "alias", "named"}

(* ZeroValue asks an alias for its origin, which is the alias itself. *)
Zeroable(t) == KindOf(t) # "alias"

(***************************************************************************)
(* renderScanner and renderValuer, one step per call.                      *)
(***************************************************************************)
RenderedBasics(d) == IF d = "Scan" THEN {"basic", "scanner"}
                     ELSE {"basic", "byte", "unsafePointer"}

(* The call goes on to the element or to the underlying type. *)
Descends(d, t) ==
    \/ KindOf(t) = "alias"
    \/ d = "Value" /\ KindOf(t) \in {"pointer", "slice", "array"}
    \/ d = "Scan" /\ KindOf(t) = "pointer" /\ Spellable[Sub(t)]
    \/ d = "Scan" /\ KindOf(t) \in {"slice", "array", "map"}
                  /\ Spellable[Sub(t)] /\ Zeroable(Sub(t))

(* The call goes on to the type that FromPOD takes or ToPOD returns, which *)
(* has to be spelled to declare a variable of it.                          *)
HasPod(d, t) == KindOf(t) = "named" /\ Info(t).pod[d] # NoType

UsesPod(d, t) ==
    /\ HasPod(d, t)
    /\ Info(t).pod[d] \in Type
    /\ d = "Value" => Info(t).podForm # "many"
    /\ d = "Scan" \/ Info(t).podForm = "out" => Spellable[Info(t).pod[d]]

PodName(d, t, n) == IF d = "Scan" \/ Info(t).podForm = "ret"
                    THEN n \o <<"POD">> ELSE n

(* A named type is rendered as a call of its method: a type of the package *)
(* has one written by hand or gets one, another type must have it.         *)
CallsMethod(d, t) == /\ KindOf(t) = "named" /\ ~HasPod(d, t)
                     /\ Info(t).local \/ Info(t).method[d] # "none"

(* Mutation of GetsMethod: any method counts as written by hand, the ones of
   the generated file too. *)
GetsMissingMethod(d, t) == Info(t).local /\ Info(t).method[d] = "none"

(* Another one: the file a method is in is not looked at. *)
GetsAnyMethod(d, t) == Info(t).local

GetsMethod(d, t) == Info(t).local /\ Info(t).method[d] # "user"

(* Nothing is called for what is in it.  A ToPOD of one result and several *)
(* parameters has no case in the switch and is not refused: its block is   *)
(* left empty.                                                             *)
Leaf(d, t) == \/ KindOf(t) \in RenderedBasics(d)
              \/ /\ d = "Value" /\ HasPod(d, t)
                 /\ Info(t).pod[d] \in Type /\ Info(t).podForm = "many"

Renderable(d, t) == \/ Descends(d, t)
                    \/ UsesPod(d, t)
                    \/ CallsMethod(d, t)
                    \/ KindOf(t) = "struct"
                    \/ Leaf(d, t)

Rendering == job # NoJob /\ stack # <<>>

Render(t, n) == stack' = <<[type |-> t, name |-> n]>> \o Tail(stack)

AddCall(f) == job' = [job EXCEPT !.calls = @ \cup {f}]

control == <<src, phase, decl, methods, funcs>>

(* Mutation of RenderDescend: the type itself is rendered again. *)
RenderSelf ==
    LET c == Head(stack) IN
    /\ Rendering /\ Descends(job.fn.dir, c.type)
    /\ Render(c.type, c.name)
    /\ UNCHANGED <<control, named, anon, job>>

RenderDescend ==
    LET c == Head(stack) IN
    /\ Rendering /\ Descends(job.fn.dir, c.type)
    /\ Render(Sub(c.type), c.name)
    /\ UNCHANGED <<control, named, anon, job>>

RenderPod ==
    LET c == Head(stack)
        d == job.fn.dir IN
    /\ Rendering /\ UsesPod(d, c.type)
    /\ Render(Info(c.type).pod[d], PodName(d, c.type, c.name))
    /\ UNCHANGED <<control, named, anon, job>>

RenderCall ==
    LET c == Head(stack)
        d == job.fn.dir IN
    /\ Rendering /\ CallsMethod(d, c.type)
    /\ stack' = Tail(stack)
    /\ AddCall(Method(d, c.type))
    /\ Queue(IF GetsMethod(d, c.type) THEN {<<d, c.type>>} ELSE {})
    /\ UNCHANGED <<control, anon>>

RenderAnon ==
    LET c == Head(stack)
        d == job.fn.dir IN
    /\ Rendering /\ KindOf(c.type) = "struct"
    /\ stack' = Tail(stack)
    /\ AddCall(AnonFn(d, c.name))
    /\ QueueAnon(d, c)
    /\ UNCHANGED <<control, named>>

RenderLeaf ==
    LET c == Head(stack) IN
    /\ Rendering /\ Leaf(job.fn.dir, c.type)
    /\ stack' = Tail(stack)
    /\ UNCHANGED <<control, named, anon, job>>

Fail == phase' = "panic" /\ UNCHANGED <<src, decl, methods, funcs, named, anon, job, stack>>

RenderPanic == /\ Rendering /\ ~Renderable(job.fn.dir, Head(stack).type)
               /\ Fail

(***************************************************************************)
(* ParseModuleAndGenerate.                                                 *)
(***************************************************************************)
Running == phase \notin {"done", "panic"}

QueueByMacros ==
    /\ phase = "macros" /\ decl <= Len(src.decls)
    /\ LET dc == src.decls[decl] IN
       /\ ~GroupPanics(dc.doc)
       /\ Queue(MacroNeeds(dc))
       /\ phase' = IF BadSpecs(dc) = {} THEN phase ELSE "panic"
    /\ decl' = decl + 1
    /\ UNCHANGED <<src, methods, job, stack, anon, funcs>>

MacroPanic == /\ phase = "macros" /\ decl <= Len(src.decls)
              /\ GroupPanics(src.decls[decl].doc)
              /\ Fail

(* typeNeedsIterator takes the map and leaves an empty one in its place. *)
BeginNamed ==
    /\ phase = "macros" /\ decl > Len(src.decls)
    /\ phase' = "named"
    /\ round' = typeNeeds /\ typeNeeds' = {} /\ UNCHANGED seenTypes
    /\ UNCHANGED <<src, decl, methods, job, stack, anon, funcs>>

Idle == job = NoJob /\ methods = <<>>

(* The next type of the map, in any order; its scanner comes first. *)
PickType ==
    /\ phase = "named" /\ Idle
    /\ \E t \in Type :
        LET needs == {d \in Dir : <<d, t>> \in round} IN
        /\ needs # {}
        /\ methods' = (IF "Scan" \in needs THEN <<<<"Scan", t>>>> ELSE <<>>)
                      \o (IF "Value" \in needs THEN <<<<"Value", t>>>> ELSE <<>>)
        /\ round' = round \ {<<d, t>> : d \in needs}
    /\ UNCHANGED <<src, phase, decl, seenTypes, typeNeeds, job, stack, anon, funcs>>

Fields(t, n) ==
    [i \in DOMAIN Info(t).fields |->
        [type |-> Info(t).fields[i].type, name |-> n \o Info(t).fields[i].name]]

(* generateScanForType and generateValuerForType on the underlying type.   *)
(* The valuer of a slice is a stub that renders nothing.                   *)
MethodBody(d, t) ==
    CASE KindOf(Sub(t)) = "struct" -> Fields(Sub(t), Info(t).name)
      [] KindOf(Sub(t)) = "slice" /\ d = "Scan" ->
            <<[type |-> Sub(t), name |-> Info(t).name]>>
      [] OTHER -> <<>>

StartMethod ==
    /\ phase = "named" /\ job = NoJob /\ methods # <<>>
    /\ LET d == Head(methods)[1]
           t == Head(methods)[2] IN
       /\ KindOf(Sub(t)) \in {"struct", "slice"}
       /\ job' = [fn |-> Method(d, t), type |-> t, calls |-> {}]
       /\ stack' = MethodBody(d, t)
    /\ methods' = Tail(methods)
    /\ UNCHANGED <<src, phase, decl, named, anon, funcs>>

GeneratePanic ==
    /\ phase = "named" /\ job = NoJob /\ methods # <<>>
    /\ KindOf(Sub(Head(methods)[2])) \notin {"struct", "slice"}
    /\ Fail

(* The parameter of an anonymous struct's function is spelled last. *)
EmitPanics == job.fn.type = NoType /\ ~Spellable[job.type]

Rendered == Running /\ job # NoJob /\ stack = <<>>

(* CreateMethod and CreateFunc append the finished declaration. *)
Emit ==
    /\ Rendered /\ ~EmitPanics
    /\ funcs' = Append(funcs, job)
    /\ job' = NoJob
    /\ UNCHANGED <<src, phase, decl, named, methods, stack, anon>>

EmitPanic == Rendered /\ EmitPanics /\ Fail

(* Both anonymous struct iterators start like this: the slice is taken and *)
(* the queue gets a new array.                                             *)
BeginAnon(d) ==
    /\ phase' = d
    /\ anonRound' = [items |-> anonNeeds[d].items, pos |-> 1, shared |-> FALSE]
    /\ anonNeeds' = [anonNeeds EXCEPT ![d] = [items |-> <<>>, cap |-> 0]]

(* Mutations of NextTypeRound: the drained map is not cleared; the seen map
   is cleared with it. *)
NextTypeRoundUncleared ==
    /\ phase = "named" /\ Idle /\ round = {}
    /\ typeNeeds # {}
    /\ round' = typeNeeds /\ UNCHANGED <<typeNeeds, seenTypes>>
    /\ UNCHANGED <<src, phase, decl, methods, job, stack, anon, funcs>>

NextTypeRoundForgets ==
    /\ phase = "named" /\ Idle /\ round = {}
    /\ typeNeeds # {}
    /\ round' = typeNeeds /\ typeNeeds' = {} /\ seenTypes' = {}
    /\ UNCHANGED <<src, phase, decl, methods, job, stack, anon, funcs>>

(* The map has been ranged over: swap the maps, or stop when no types came. *)
NextTypeRound ==
    /\ phase = "named" /\ Idle /\ round = {}
    /\ typeNeeds # {}
    /\ round' = typeNeeds /\ typeNeeds' = {} /\ UNCHANGED seenTypes
    /\ UNCHANGED <<src, phase, decl, methods, job, stack, anon, funcs>>

EndNamed ==
    /\ phase = "named" /\ Idle /\ round = {}
    /\ typeNeeds = {}
    /\ BeginAnon("Scan")
    /\ UNCHANGED <<src, decl, named, methods, job, stack, funcs>>

StartAnon ==
    /\ phase \in Dir /\ job = NoJob /\ anonRound.pos <= Len(anonRound.items)
    /\ LET a == anonRound.items[anonRound.pos] IN
       /\ job' = [fn |-> AnonFn(phase, a.name), type |-> a.type, calls |-> {}]
       /\ stack' = Fields(a.type, a.name)
    /\ anonRound' = [anonRound EXCEPT !.pos = @ + 1]
    /\ UNCHANGED <<src, phase, decl, named, methods, anonNeeds, funcs>>

AnonRoundOver == phase \in Dir /\ job = NoJob /\ anonRound.pos > Len(anonRound.items)

(* g.anonTypeNeeds[:0] empties the queue and keeps its array. *)
NextAnonRound ==
    /\ AnonRoundOver /\ anonNeeds[phase].items # <<>>
    /\ anonRound' = [items |-> anonNeeds[phase].items, pos |-> 1, shared |-> TRUE]
    /\ anonNeeds' = [anonNeeds EXCEPT ![phase] = [items |-> <<>>, cap |-> @.cap]]
    /\ UNCHANGED <<src, phase, decl, named, methods, job, stack, funcs>>

(* Mutation of EndAnon: one round is taken to be enough. *)
EndAnonEarly ==
    /\ AnonRoundOver
    /\ IF phase = "Scan" THEN BeginAnon("Value")
                         ELSE phase' = "done" /\ UNCHANGED anon
    /\ UNCHANGED <<src, decl, named, methods, job, stack, funcs>>

EndAnon ==
    /\ AnonRoundOver /\ anonNeeds[phase].items = <<>>
    /\ IF phase = "Scan" THEN BeginAnon("Value")
                         ELSE phase' = "done" /\ UNCHANGED anon
    /\ UNCHANGED <<src, decl, named, methods, job, stack, funcs>>

Init ==
    /\ src \in Programs
    /\ phase = "macros" /\ decl = 1
    /\ seenTypes = {} /\ round = {} /\ typeNeeds = {}
    /\ methods = <<>> /\ job = NoJob /\ stack = <<>> /\ funcs = <<>>
    /\ anonNeeds = [d \in Dir |-> [items |-> <<>>, cap |-> 0]]
    /\ anonRound = [items |-> <<>>, pos |-> 1, shared |-> FALSE]

Step ==
    \/ QueueByMacros \/ MacroPanic
    \/ BeginNamed \/ PickType \/ StartMethod \/ GeneratePanic
    \/ Running /\ (RenderDescend \/ RenderPod \/ RenderCall \/ RenderAnon
                   \/ RenderLeaf \/ RenderPanic)
    \/ Emit \/ EmitPanic
    \/ NextTypeRound \/ EndNamed
    \/ StartAnon \/ NextAnonRound \/ EndAnon

Terminated == ~Running /\ UNCHANGED vars

Next == Step \/ Terminated

(* One goroutine runs the tool from main to its exit. *)
Spec == Init /\ [][Next]_vars /\ WF_vars(Step)

-----------------------------------------------------------------------------
(* The state is well formed; in particular no queue outgrows its array.    *)
Slices == [items: Seq(Anon), cap: Nat]

TypeOK ==
    /\ src \in Programs /\ phase \in Phase /\ decl \in Nat \ {0}
    /\ seenTypes \subseteq Need /\ round \subseteq Need /\ typeNeeds \subseteq Need
    /\ methods \in Seq(Need)
    /\ job \in Job \cup {NoJob} /\ stack \in Seq(Call)
    /\ anonNeeds \in [Dir -> Slices]
    /\ \A d \in Dir : Len(anonNeeds[d].items) <= anonNeeds[d].cap
    /\ anonRound \in [items: Seq(Anon), pos: Nat \ {0}, shared: BOOLEAN]
    /\ funcs \in Seq(Job)

Emitted == {funcs[i].fn : i \in DOMAIN funcs}

(* The needs whose method has been emitted, is being visited, is rendered. *)
EmittedNeeds == {n \in Need : Method(n[1], n[2]) \in Emitted}
Waiting == {methods[i] : i \in DOMAIN methods}
InHand == {n \in Need : job # NoJob /\ job.fn = Method(n[1], n[2])}

(* No need is lost or kept twice between the seen map, the two maps of the *)
(* iterator, the type being visited and the emitted methods: every seen    *)
(* need is in exactly one place.                                           *)
NeedsAccounted ==
    /\ seenTypes = typeNeeds \cup round \cup Waiting \cup InHand \cup EmittedNeeds
    /\ typeNeeds \cap (round \cup Waiting \cup InHand \cup EmittedNeeds) = {}
    /\ round \cap (Waiting \cup InHand \cup EmittedNeeds) = {}
    /\ Waiting \cap (InHand \cup EmittedNeeds) = {}
    /\ InHand \cap EmittedNeeds = {}

(* No method is declared twice: the Go compiler would refuse the file.     *)
MethodOnce ==
    \A i, j \in DOMAIN funcs :
        funcs[i].fn = funcs[j].fn /\ funcs[i].fn.type # NoType => i = j

(* A method that exists without the tool's doing. *)
Provided(f) == /\ f.type # NoType
               /\ ~Info(f.type).local \/ Info(f.type).method[f.dir] = "user"

(* A method that somebody has written by hand is declared a second time    *)
(* only where a comment asks for it (main.go:1249): never because a field  *)
(* of that type was met, in whatever round.                                *)
AskedFor(n) == \E i \in DOMAIN src.decls : n \in MacroNeeds(src.decls[i])

HandWrittenKept ==
    \A n \in EmittedNeeds : Info(n[2]).method[n[1]] = "user" => AskedFor(n)

(* Once the map iterator has stopped, what an emitted method calls on a    *)
(* named type is emitted too, whichever type was visited first.            *)
MethodCallsDefined ==
    phase \in {"Scan", "Value", "done"} =>
        \A i \in DOMAIN funcs : funcs[i].fn.type # NoType =>
            \A f \in funcs[i].calls : f.type # NoType => f \in Emitted \/ Provided(f)

(* When the tool is done, every function it calls for an anonymous struct  *)
(* is in the file.                                                         *)
AnonCallsDefined ==
    phase = "done" =>
        \A i \in DOMAIN funcs : \A f \in funcs[i].calls :
            f.type = NoType => f \in Emitted

(* README.md:12: the two interfaces are implemented for the types and for  *)
(* every type inside them, so every method called from the file exists.    *)
NamedCallsDefined ==
    phase = "done" =>
        \A i \in DOMAIN funcs : \A f \in funcs[i].calls :
            f.type # NoType => f \in Emitted \/ Provided(f)

(* A generate comment on a declaration or on its group asks for code for   *)
(* the type (container.go:118, `// #[generate(Scanner)]').                 *)
MacroHonoured ==
    phase \in {"named", "Scan", "Value", "done"} =>
        \A i \in DOMAIN src.decls : \A j \in DOMAIN src.decls[i].specs :
            LET s == src.decls[i].specs[j] IN
            \A d \in Dir : On(GroupOn(src.decls[i].doc), s.doc, d, Len(s.doc))
                            => <<d, s.type>> \in seenTypes

(* The tool stops, recursive types or not. *)
Termination == <>(phase \in {"done", "panic"})

(* The worklist of the methods, without its data structures. *)
WS == INSTANCE WorkSet WITH Need <- Need,
                            pending <- seenTypes \ EmittedNeeds,
                            done <- EmittedNeeds
ImplementsWorkSet == WS!Spec
=============================================================================
