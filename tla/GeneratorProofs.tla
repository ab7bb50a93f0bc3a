--------------------------- MODULE GeneratorProofs ---------------------------
(***************************************************************************)
(* Theorems about Generator for every set of packages.                     *)
(***************************************************************************)
EXTENDS GeneratorReference, SequenceTheorems, TLAPS

(* What a type of a well-formed package looks like.                        *)
LEMMA InfoTyped ==
    ASSUME src \in Programs, NEW t \in Type
    PROVE  /\ Info(t) \in TypeInfo
           /\ Sub(t) \in Type
           /\ Info(t).fields \in Seq(Field)
           /\ Info(t).name \in Name
           /\ \A d \in Dir : Info(t).pod[d] \in Type \cup {NoType, BadPOD}
<1>1. src \in Program  BY ProgramsAssumption
<1>2. src.type \in [Type -> TypeInfo]  BY <1>1 DEF Program
<1>3. Info(t) \in TypeInfo  BY <1>2 DEF Info
<1> QED  BY <1>3 DEF Info, Sub, TypeInfo

LEMMA FieldsTyped ==
    ASSUME src \in Programs, NEW t \in Type, NEW n \in Name
    PROVE  Fields(t, n) \in Seq(Call)
<1>1. Info(t).fields \in Seq(Field)  BY InfoTyped
<1>2. ASSUME NEW i \in DOMAIN Info(t).fields
      PROVE  [type |-> Info(t).fields[i].type, name |-> n \o Info(t).fields[i].name] \in Call
  <2>1. Info(t).fields[i] \in Field  BY <1>1
  <2>2. n \o Info(t).fields[i].name \in Seq(Part)
        BY <2>1, ConcatProperties DEF Field, Name
  <2> QED  BY <2>1, <2>2 DEF Field, Call, Name
<1>3. DOMAIN Info(t).fields = 1..Len(Info(t).fields) /\ Len(Info(t).fields) \in Nat
      BY <1>1
<1>4. Fields(t, n) \in [1..Len(Info(t).fields) -> Call]
      BY <1>2, <1>3 DEF Fields
<1> QED  BY <1>3, <1>4, IsASeq

LEMMA MethodTyped ==
    ASSUME src \in Programs, NEW d \in Dir, NEW t \in Type
    PROVE  Method(d, t) \in FnId
BY InfoTyped DEF Method, FnId, Info

LEMMA MethodBodyTyped ==
    ASSUME src \in Programs, NEW d \in Dir, NEW t \in Type
    PROVE  MethodBody(d, t) \in Seq(Call)
<1>1. Sub(t) \in Type /\ Info(t).name \in Name  BY InfoTyped
<1>2. Fields(Sub(t), Info(t).name) \in Seq(Call)  BY <1>1, FieldsTyped
<1>3. <<[type |-> Sub(t), name |-> Info(t).name]>> \in Seq(Call)  BY <1>1 DEF Call
<1> QED  BY <1>2, <1>3 DEF MethodBody

LEMMA PodNameTyped ==
    ASSUME NEW d, NEW t, NEW n \in Name
    PROVE  PodName(d, t, n) \in Name
<1>1. <<"POD">> \in Seq(Part)  BY PartAssumption
<1>2. n \o <<"POD">> \in Seq(Part)  BY <1>1, ConcatProperties DEF Name
<1> QED  BY <1>2 DEF PodName, Name

(* The queue of anonymous structs stays within its array, and writing      *)
(* through the shared array keeps the slice being ranged over a slice.     *)
LEMMA PushTyped ==
    ASSUME NEW q \in Slices, Len(q.items) <= q.cap, NEW x \in Anon
    PROVE  /\ Pushed(q, x) \in Slices
           /\ Len(Pushed(q, x).items) <= Pushed(q, x).cap
<1>1. /\ q.items \in Seq(Anon) /\ q.cap \in Nat /\ Len(q.items) \in Nat
      BY DEF Slices
<1>2. /\ Append(q.items, x) \in Seq(Anon)
      /\ Len(Append(q.items, x)) = Len(q.items) + 1
      BY <1>1, AppendProperties
<1>3. CASE Fits(q)
  <2>1. Pushed(q, x) = [items |-> Append(q.items, x), cap |-> q.cap]
        BY <1>3 DEF Pushed
  <2> QED  BY <1>1, <1>2, <1>3, <2>1 DEF Fits, Slices
<1>4. CASE ~Fits(q)
  <2>1. Pushed(q, x) = [items |-> Append(q.items, x), cap |-> Grow(q.cap)]
        BY <1>4 DEF Pushed
  <2>2. Grow(q.cap) \in Nat /\ q.cap + 1 <= Grow(q.cap)  BY <1>1 DEF Grow
  <2>3. Len(q.items) = q.cap  BY <1>1, <1>4 DEF Fits
  <2> QED  BY <1>1, <1>2, <2>1, <2>2, <2>3 DEF Slices
<1> QED  BY <1>3, <1>4

Rounds == [items: Seq(Anon), pos: Nat \ {0}, shared: BOOLEAN]

LEMMA OverwrittenTyped ==
    ASSUME NEW r \in Rounds, NEW q \in Slices, NEW x \in Anon
    PROVE  Overwritten(r, q, x) \in Rounds
<1> DEFINE i == Len(q.items) + 1
<1>1. [r EXCEPT !.shared = FALSE] \in Rounds  BY DEF Rounds
<1>2. ASSUME i <= Len(r.items)
      PROVE  [r EXCEPT !.items[i] = x] \in Rounds
  <2>1. i \in 1..Len(r.items)  BY <1>2 DEF Slices, Rounds
  <2>2. r.items \in Seq(Anon)  BY DEF Rounds
  <2>3. [r.items EXCEPT ![i] = x] \in Seq(Anon)  BY <2>1, <2>2, ExceptSeq
  <2> QED  BY <2>3 DEF Rounds
<1> QED  BY <1>1, <1>2 DEF Overwritten

-----------------------------------------------------------------------------
(* What is at hand when a renderer is called.                              *)
LEMMA RenderingTyped ==
    ASSUME TypeOK, Rendering
    PROVE  /\ job \in Job /\ job.fn.dir \in Dir
           /\ Head(stack) \in Call /\ Tail(stack) \in Seq(Call)
           /\ Head(stack).type \in Type /\ Head(stack).name \in Name
<1>1. job \in Job /\ stack \in Seq(Call) /\ stack # <<>>
      BY DEF TypeOK, Rendering
<1>2. job.fn.dir \in Dir  BY <1>1 DEF Job, FnId
<1>3. Head(stack) \in Call /\ Tail(stack) \in Seq(Call)
      BY <1>1, HeadTailProperties
<1> QED  BY <1>1, <1>2, <1>3 DEF Call

LEMMA RenderTyped ==
    ASSUME TypeOK, Rendering, NEW t \in Type, NEW n \in Name, Render(t, n)
    PROVE  stack' \in Seq(Call)
<1>1. Tail(stack) \in Seq(Call)  BY RenderingTyped
<1>2. <<[type |-> t, name |-> n]>> \in Seq(Call)  BY DEF Call
<1> QED  BY <1>1, <1>2, ConcatProperties DEF Render

LEMMA AddCallTyped ==
    ASSUME TypeOK, Rendering, NEW f \in FnId, AddCall(f)
    PROVE  job' \in Job
<1>1. job \in Job  BY RenderingTyped
<1> QED  BY <1>1 DEF AddCall, Job

LEMMA QueueTyped ==
    ASSUME TypeOK, NEW S \in SUBSET Need, Queue(S)
    PROVE  seenTypes' \subseteq Need /\ typeNeeds' \subseteq Need /\ round' \subseteq Need
BY DEF TypeOK, Queue

LEMMA TypeStep == TypeOK /\ [Next]_vars => TypeOK'
<1> SUFFICES ASSUME TypeOK, [Next]_vars PROVE TypeOK'  OBVIOUS
<1> USE DEF control, named, anon
<1>1. CASE RenderDescend
  <2>1. Rendering /\ Render(Sub(Head(stack).type), Head(stack).name)
        BY <1>1 DEF RenderDescend
  <2>2. Sub(Head(stack).type) \in Type
        BY <2>1, RenderingTyped, InfoTyped DEF TypeOK
  <2>3. stack' \in Seq(Call)  BY <2>1, <2>2, RenderingTyped, RenderTyped
  <2> QED  BY <1>1, <2>3 DEF RenderDescend, TypeOK
<1>2. CASE RenderPod
  <2> DEFINE c == Head(stack)
             d == job.fn.dir
  <2>1. Rendering /\ UsesPod(d, c.type)
        /\ Render(Info(c.type).pod[d], PodName(d, c.type, c.name))
        BY <1>2 DEF RenderPod
  <2>2. Info(c.type).pod[d] \in Type  BY <2>1 DEF UsesPod
  <2>3. PodName(d, c.type, c.name) \in Name  BY <2>1, RenderingTyped, PodNameTyped
  <2>4. stack' \in Seq(Call)  BY <2>1, <2>2, <2>3, RenderTyped
  <2> QED  BY <1>2, <2>4 DEF RenderPod, TypeOK
<1>3. CASE RenderCall
  <2> DEFINE c == Head(stack)
             d == job.fn.dir
             S == IF GetsMethod(d, c.type) THEN {<<d, c.type>>} ELSE {}
  <2>1. Rendering /\ AddCall(Method(d, c.type)) /\ Queue(S) /\ stack' = Tail(stack)
        BY <1>3 DEF RenderCall
  <2>2. d \in Dir /\ c.type \in Type /\ stack' \in Seq(Call)
        BY <2>1, RenderingTyped
  <2>3. Method(d, c.type) \in FnId  BY <2>2, MethodTyped DEF TypeOK
  <2>4. job' \in Job  BY <2>1, <2>3, AddCallTyped
  <2>5. S \in SUBSET Need  BY <2>2 DEF Need
  <2>6. seenTypes' \subseteq Need /\ typeNeeds' \subseteq Need /\ round' \subseteq Need
        BY <2>1, <2>5, QueueTyped
  <2> QED  BY <1>3, <2>2, <2>4, <2>6 DEF RenderCall, TypeOK
<1>4. CASE RenderAnon
  <2> DEFINE c == Head(stack)
             d == job.fn.dir
  <2>1. Rendering /\ AddCall(AnonFn(d, c.name)) /\ QueueAnon(d, c) /\ stack' = Tail(stack)
        BY <1>4 DEF RenderAnon
  <2>2. d \in Dir /\ c \in Call /\ c.name \in Name /\ stack' \in Seq(Call)
        BY <2>1, RenderingTyped
  <2>3. AnonFn(d, c.name) \in FnId  BY <2>2 DEF AnonFn, FnId
  <2>4. job' \in Job  BY <2>1, <2>3, AddCallTyped
  <2>5. c \in Anon  BY <2>2 DEF Call, Anon
  <2>6. anonNeeds[d] \in Slices /\ Len(anonNeeds[d].items) <= anonNeeds[d].cap
        BY <2>2 DEF TypeOK
  <2>7. /\ anonNeeds' \in [Dir -> Slices]
        /\ \A e \in Dir : Len(anonNeeds'[e].items) <= anonNeeds'[e].cap
        BY <2>1, <2>2, <2>5, <2>6, PushTyped DEF QueueAnon, TypeOK
  <2>8. anonRound' \in Rounds
        BY <2>1, <2>5, <2>6, OverwrittenTyped DEF QueueAnon, TypeOK, Rounds
  <2> QED  BY <1>4, <2>2, <2>4, <2>7, <2>8 DEF RenderAnon, TypeOK, Rounds
<1>5. CASE RenderLeaf
  <2>1. stack' \in Seq(Call)  BY <1>5, RenderingTyped DEF RenderLeaf
  <2> QED  BY <1>5, <2>1 DEF RenderLeaf, TypeOK
<1>6. CASE Fail
  BY <1>6 DEF Fail, TypeOK, Phase
<1>7. CASE QueueByMacros
  <2>1. MacroNeeds(src.decls[decl]) \in SUBSET Need  BY DEF MacroNeeds
  <2>2. seenTypes' \subseteq Need /\ typeNeeds' \subseteq Need /\ round' \subseteq Need
        BY <1>7, <2>1, QueueTyped DEF QueueByMacros
  <2>3. phase' \in Phase  BY <1>7 DEF QueueByMacros, TypeOK, Phase
  <2> QED  BY <1>7, <2>2, <2>3 DEF QueueByMacros, TypeOK
<1>8. CASE BeginNamed
  BY <1>8 DEF BeginNamed, TypeOK, Phase
<1>9. CASE PickType
  <2>1. PICK t \in Type :
            /\ methods' = (IF "Scan" \in {d \in Dir : <<d, t>> \in round} THEN <<<<"Scan", t>>>> ELSE <<>>)
                          \o (IF "Value" \in {d \in Dir : <<d, t>> \in round} THEN <<<<"Value", t>>>> ELSE <<>>)
            /\ round' = round \ {<<d, t>> : d \in {d \in Dir : <<d, t>> \in round}}
        BY <1>9 DEF PickType
  <2>2. <<"Scan", t>> \in Need /\ <<"Value", t>> \in Need  BY DEF Need, Dir
  <2>3. methods' \in Seq(Need)  BY <2>1, <2>2
  <2>4. round' \subseteq Need  BY <2>1 DEF TypeOK
  <2> QED  BY <1>9, <2>3, <2>4 DEF PickType, TypeOK
<1>10. CASE StartMethod
  <2> DEFINE d == Head(methods)[1]
             t == Head(methods)[2]
  <2>1. methods \in Seq(Need) /\ methods # <<>>  BY <1>10 DEF StartMethod, TypeOK
  <2>2. Head(methods) \in Need /\ Tail(methods) \in Seq(Need)
        BY <2>1, HeadTailProperties
  <2>3. d \in Dir /\ t \in Type  BY <2>2 DEF Need
  <2>4. job' = [fn |-> Method(d, t), type |-> t, calls |-> {}] /\ stack' = MethodBody(d, t)
        BY <1>10 DEF StartMethod
  <2>5. job' \in Job  BY <2>3, <2>4, MethodTyped DEF Job, TypeOK
  <2>6. stack' \in Seq(Call)  BY <2>3, <2>4, MethodBodyTyped DEF TypeOK
  <2> QED  BY <1>10, <2>2, <2>5, <2>6 DEF StartMethod, TypeOK
<1>11. CASE Emit
  <2>1. job \in Job  BY <1>11 DEF Emit, Rendered, TypeOK
  <2>3. funcs' \in Seq(Job)  BY <1>11, <2>1, AppendProperties DEF Emit, TypeOK
  <2> QED  BY <1>11, <2>3 DEF Emit, TypeOK
<1>12. CASE NextTypeRound
  BY <1>12 DEF NextTypeRound, TypeOK
<1>13. ASSUME NEW d \in Dir, BeginAnon(d)
       PROVE  /\ phase' \in Phase
              /\ anonNeeds' \in [Dir -> Slices]
              /\ \A e \in Dir : Len(anonNeeds'[e].items) <= anonNeeds'[e].cap
              /\ anonRound' \in Rounds
  <2>1. phase' \in Phase  BY <1>13 DEF BeginAnon, Dir, Phase
  <2>2. anonNeeds[d].items \in Seq(Anon)  BY DEF TypeOK, Slices
  <2>3. [items |-> <<>>, cap |-> 0] \in Slices  BY DEF Slices
  <2> QED  BY <1>13, <2>1, <2>2, <2>3 DEF BeginAnon, TypeOK, Rounds
<1>14. CASE EndNamed
  <2>1. BeginAnon("Scan")  BY <1>14 DEF EndNamed
  <2> QED  BY <1>13, <1>14, <2>1 DEF EndNamed, TypeOK, Rounds, Dir
<1>15. CASE StartAnon
  <2> DEFINE a == anonRound.items[anonRound.pos]
  <2>1. anonRound \in Rounds  BY DEF TypeOK, Rounds
  <2>2. anonRound.pos \in 1..Len(anonRound.items)  BY <1>15, <2>1 DEF StartAnon, Rounds
  <2>3. a \in Anon  BY <2>1, <2>2 DEF Rounds
  <2>4. a.type \in Type /\ a.name \in Name  BY <2>3 DEF Anon
  <2>5. phase \in Dir  BY <1>15 DEF StartAnon
  <2>6. job' = [fn |-> AnonFn(phase, a.name), type |-> a.type, calls |-> {}]
        BY <1>15 DEF StartAnon
  <2>7. job' \in Job  BY <2>4, <2>5, <2>6 DEF Job, AnonFn, FnId
  <2>8. stack' \in Seq(Call)  BY <1>15, <2>4, FieldsTyped DEF StartAnon, TypeOK
  <2>9. anonRound' \in Rounds  BY <1>15, <2>1 DEF StartAnon, Rounds
  <2> QED  BY <1>15, <2>7, <2>8, <2>9 DEF StartAnon, TypeOK, Rounds
<1>16. CASE NextAnonRound
  <2>1. phase \in Dir  BY <1>16 DEF NextAnonRound, AnonRoundOver
  <2>2. anonNeeds[phase] \in Slices  BY <2>1 DEF TypeOK
  <2>3. anonRound' \in Rounds  BY <1>16, <2>2 DEF NextAnonRound, Slices, Rounds
  <2>4. anonNeeds' = [anonNeeds EXCEPT ![phase] = [items |-> <<>>, cap |-> anonNeeds[phase].cap]]
        BY <1>16 DEF NextAnonRound
  <2>5. [items |-> <<>>, cap |-> anonNeeds[phase].cap] \in Slices  BY <2>2 DEF Slices
  <2>6. /\ anonNeeds' \in [Dir -> Slices]
        /\ \A e \in Dir : Len(anonNeeds'[e].items) <= anonNeeds'[e].cap
        BY <2>1, <2>2, <2>4, <2>5 DEF TypeOK, Slices
  <2> QED  BY <1>16, <2>3, <2>6 DEF NextAnonRound, TypeOK, Rounds
<1>17. CASE EndAnon
  <2>1. CASE phase = "Scan"
    <3>1. BeginAnon("Value")  BY <1>17, <2>1 DEF EndAnon
    <3> QED  BY <1>13, <1>17, <3>1 DEF EndAnon, TypeOK, Rounds, Dir
  <2>2. CASE phase # "Scan"
    BY <1>17, <2>2 DEF EndAnon, TypeOK, Phase
  <2> QED  BY <2>1, <2>2
<1>18. CASE UNCHANGED vars
  BY <1>18 DEF vars, TypeOK
<1> QED
  BY <1>1, <1>2, <1>3, <1>4, <1>5, <1>6, <1>7, <1>8, <1>9, <1>10, <1>11, <1>12,
     <1>14, <1>15, <1>16, <1>17, <1>18
  DEF Next, Step, Terminated, MacroPanic, GeneratePanic, RenderPanic, EmitPanic

(* The state of the generator is well formed in every run; in particular   *)
(* the queues of anonymous structs never outgrow their arrays, so append   *)
(* is the only place where an array is replaced.                           *)
THEOREM TypeCorrect == Spec => []TypeOK
<1>1. Init => TypeOK
  BY DEF Init, TypeOK, Phase, Dir, Slices
<1> QED  BY <1>1, TypeStep, PTL DEF Spec

-----------------------------------------------------------------------------
(* Where the needs are.  NeedsAccounted is not inductive by itself: it     *)
(* rests on the form of the job in hand, on no need waiting twice for the  *)
(* visited type and on the iterator starting with an empty map.            *)
JobForm ==
    job # NoJob =>
        \/ job.fn.type = NoType
        \/ /\ job.fn.type \in Type /\ job.fn = Method(job.fn.dir, job.fn.type)
           /\ phase \notin {"Scan", "Value", "done"}

DistinctMethods ==
    \A i, j \in DOMAIN methods : methods[i] = methods[j] => i = j

Bookkeeping == /\ NeedsAccounted /\ MethodOnce
               /\ JobForm /\ DistinctMethods
               /\ phase = "macros" => round = {} /\ Idle

LEMMA PairOfSingles ==
    ASSUME NEW x, NEW y PROVE <<x>> \o <<y>> = <<x, y>>
<1> DEFINE S == {x, y}
<1>1. <<x>> \in Seq(S) /\ <<y>> \in Seq(S) /\ <<x, y>> \in Seq(S)  OBVIOUS
<1>2. Len(<<x>>) = 1 /\ Len(<<y>>) = 1 /\ Len(<<x, y>>) = 2  OBVIOUS
<1>3. /\ <<x>> \o <<y>> \in Seq(S) /\ Len(<<x>> \o <<y>>) = 2
      /\ (<<x>> \o <<y>>)[1] = x /\ (<<x>> \o <<y>>)[2] = y
      BY <1>1, <1>2, ConcatProperties
<1>4. \A i \in 1..2 : i = 1 \/ i = 2  OBVIOUS
<1>5. <<x, y>>[1] = x /\ <<x, y>>[2] = y  OBVIOUS
<1>6. \A i \in 1..2 : (<<x>> \o <<y>>)[i] = <<x, y>>[i]  BY <1>3, <1>4, <1>5
<1> HIDE DEF S
<1> QED  BY <1>1, <1>2, <1>3, <1>6, SeqEqual

LEMMA MethodInjective ==
    ASSUME NEW d, NEW t, NEW e, NEW u, Method(d, t) = Method(e, u)
    PROVE  d = e /\ t = u
BY DEF Method

LEMMA AddCallKeeps ==
    ASSUME TypeOK, Rendering, NEW f \in FnId, AddCall(f), src' = src, phase' = phase
    PROVE  /\ job' # NoJob /\ job'.fn = job.fn /\ InHand' = InHand
           /\ JobForm => JobForm'
<1>1. job \in Job /\ job # NoJob  BY RenderingTyped DEF Rendering
<1>2. job' \in Job /\ job' # NoJob  BY AddCallTyped, NoJobAssumption
<1>3. job'.fn = job.fn  BY <1>1 DEF AddCall, Job
<1> QED  BY <1>1, <1>2, <1>3 DEF InHand, Method, JobForm

(* A call of Queue leaves every need in one place.                         *)
LEMMA QueueKeeps ==
    ASSUME NeedsAccounted, NEW S \in SUBSET Need, Queue(S),
           Waiting' = Waiting, InHand' = InHand, EmittedNeeds' = EmittedNeeds
    PROVE  NeedsAccounted'
BY DEF NeedsAccounted, Queue

LEMMA EmittedKept ==
    ASSUME src' = src, funcs' = funcs
    PROVE  EmittedNeeds' = EmittedNeeds /\ Emitted' = Emitted
BY DEF EmittedNeeds, Emitted, Method

LEMMA BookkeepingStep == TypeOK /\ Bookkeeping /\ [Next]_vars => Bookkeeping'
<1> SUFFICES ASSUME TypeOK, Bookkeeping, [Next]_vars PROVE Bookkeeping'  OBVIOUS
<1> USE DEF control, named, anon
<1>a. ASSUME src' = src, funcs' = funcs, methods' = methods, phase' # "macros",
             UNCHANGED named, InHand' = InHand, JobForm'
      PROVE  Bookkeeping'
  <2>1. EmittedNeeds' = EmittedNeeds  BY <1>a, EmittedKept
  <2>2. Waiting' = Waiting /\ DistinctMethods' /\ MethodOnce'
        BY <1>a DEF Waiting, DistinctMethods, MethodOnce, Bookkeeping
  <2>3. NeedsAccounted'  BY <1>a, <2>1, <2>2 DEF NeedsAccounted, Bookkeeping
  <2> QED  BY <1>a, <2>2, <2>3 DEF Bookkeeping
<1>b. ASSUME Rendering PROVE phase # "macros"
  BY <1>b DEF Bookkeeping, Rendering, Idle
<1>c. ASSUME src' = src, job' = job PROVE InHand' = InHand
  BY <1>c DEF InHand, Method
<1>d. ASSUME src' = src, job' = job, phase' = phase PROVE JobForm'
  BY <1>d DEF JobForm, Method, Bookkeeping
<1>1. CASE RenderDescend
  BY <1>1, <1>a, <1>b, <1>c, <1>d DEF RenderDescend
<1>2. CASE RenderPod
  BY <1>2, <1>a, <1>b, <1>c, <1>d DEF RenderPod
<1>3. CASE RenderCall
  <2> DEFINE c == Head(stack)
             d == job.fn.dir
             S == IF GetsMethod(d, c.type) THEN {<<d, c.type>>} ELSE {}
  <2>1. Rendering /\ AddCall(Method(d, c.type)) /\ Queue(S)
        /\ UNCHANGED control
        BY <1>3 DEF RenderCall
  <2>2. d \in Dir /\ c.type \in Type  BY <2>1, RenderingTyped
  <2>3. InHand' = InHand /\ JobForm'
        BY <2>1, <2>2, MethodTyped, AddCallKeeps DEF Bookkeeping, TypeOK
  <2>4. EmittedNeeds' = EmittedNeeds  BY <2>1, EmittedKept
  <2>5. Waiting' = Waiting /\ DistinctMethods' /\ MethodOnce'
        BY <2>1 DEF Waiting, DistinctMethods, MethodOnce, Bookkeeping
  <2>6. S \in SUBSET Need  BY <2>2 DEF Need
  <2>7. NeedsAccounted'  BY <2>1, <2>3, <2>4, <2>5, <2>6, QueueKeeps DEF Bookkeeping
  <2>8. phase' # "macros"  BY <2>1, <1>b
  <2> QED  BY <2>3, <2>5, <2>7, <2>8 DEF Bookkeeping
<1>4. CASE RenderAnon
  <2> DEFINE c == Head(stack)
             d == job.fn.dir
  <2>1. Rendering /\ AddCall(AnonFn(d, c.name)) /\ UNCHANGED <<control, named>>
        BY <1>4 DEF RenderAnon
  <2>2. AnonFn(d, c.name) \in FnId  BY <2>1, RenderingTyped DEF AnonFn, FnId
  <2>3. InHand' = InHand /\ JobForm'
        BY <2>1, <2>2, AddCallKeeps DEF Bookkeeping
  <2> QED  BY <1>a, <1>b, <2>1, <2>3
<1>5. CASE RenderLeaf
  BY <1>5, <1>a, <1>b, <1>c, <1>d DEF RenderLeaf
<1>6. CASE Fail
  <2>1. JobForm'  BY <1>6 DEF Fail, JobForm, Method, Bookkeeping
  <2> QED  BY <1>6, <1>a, <1>c, <2>1 DEF Fail
<1>7. CASE QueueByMacros
  <2>1. /\ Queue(MacroNeeds(src.decls[decl])) /\ phase = "macros"
        /\ UNCHANGED <<src, methods, job, funcs>>
        BY <1>7 DEF QueueByMacros
  <2>2. InHand' = InHand  BY <2>1, <1>c
  <2>3. EmittedNeeds' = EmittedNeeds  BY <2>1, EmittedKept
  <2>4. Waiting' = Waiting /\ DistinctMethods' /\ MethodOnce'
        BY <2>1 DEF Waiting, DistinctMethods, MethodOnce, Bookkeeping
  <2>5. MacroNeeds(src.decls[decl]) \in SUBSET Need  BY DEF MacroNeeds
  <2>6. NeedsAccounted'  BY <2>1, <2>2, <2>3, <2>4, <2>5, QueueKeeps DEF Bookkeeping
  <2>7. Idle /\ round = {}  BY <2>1 DEF Bookkeeping
  <2>8. JobForm' /\ round' = {} /\ Idle'
        BY <2>1, <2>7 DEF JobForm, Idle, Queue
  <2> QED  BY <2>4, <2>6, <2>8 DEF Bookkeeping
<1>8. CASE BeginNamed
  <2>1. /\ round = {} /\ Idle /\ round' = typeNeeds /\ typeNeeds' = {}
        /\ phase' = "named" /\ UNCHANGED <<src, methods, job, funcs, seenTypes>>
        BY <1>8 DEF BeginNamed, Bookkeeping
  <2>2. InHand' = InHand /\ EmittedNeeds' = EmittedNeeds  BY <2>1, <1>c, EmittedKept
  <2>3. Waiting' = Waiting /\ DistinctMethods' /\ MethodOnce' /\ JobForm'
        BY <2>1 DEF Waiting, DistinctMethods, MethodOnce, JobForm, Idle, Bookkeeping
  <2>4. NeedsAccounted'  BY <2>1, <2>2, <2>3 DEF NeedsAccounted, Bookkeeping
  <2> QED  BY <2>1, <2>3, <2>4 DEF Bookkeeping
<1>9. CASE PickType
  <2>1. PICK t \in Type :
            /\ methods' = (IF "Scan" \in {d \in Dir : <<d, t>> \in round} THEN <<<<"Scan", t>>>> ELSE <<>>)
                          \o (IF "Value" \in {d \in Dir : <<d, t>> \in round} THEN <<<<"Value", t>>>> ELSE <<>>)
            /\ round' = round \ {<<d, t>> : d \in {d \in Dir : <<d, t>> \in round}}
        BY <1>9 DEF PickType
  <2> DEFINE taken == {<<d, t>> : d \in {d \in Dir : <<d, t>> \in round}}
  <2>2. /\ phase' = "named" /\ Idle
        /\ UNCHANGED <<src, seenTypes, typeNeeds, job, funcs>>
        BY <1>9 DEF PickType
  <2>3. Waiting = {} /\ InHand = {}  BY <2>2 DEF Idle, Waiting, InHand
  <2>4. Waiting' = taken /\ DistinctMethods'
    <3> DEFINE s == <<"Scan", t>>
               v == <<"Value", t>>
    <3>0. methods' = (IF s \in round THEN <<s>> ELSE <<>>) \o (IF v \in round THEN <<v>> ELSE <<>>)
          BY <2>1 DEF Dir
    <3>1. CASE s \in round /\ v \in round
      <4>1. methods' = <<s>> \o <<v>>  BY <3>0, <3>1
      <4>2. <<s>> \o <<v>> = <<s, v>>  BY PairOfSingles
      <4>3. taken = {s, v} /\ s # v  BY <3>1 DEF Dir
      <4> HIDE DEF s, v, taken
      <4>4. methods' = <<s, v>>  BY <4>1, <4>2
      <4>5. DOMAIN methods' = {1, 2} /\ methods'[1] = s /\ methods'[2] = v  BY <4>4
      <4> QED  BY <4>3, <4>5 DEF Waiting, DistinctMethods
    <3>2. CASE s \in round /\ v \notin round
      <4>1. methods' = <<s>>  BY <3>0, <3>2
      <4>2. taken = {s}  BY <3>2 DEF Dir
      <4> HIDE DEF s, v, taken
      <4>3. DOMAIN methods' = {1} /\ methods'[1] = s  BY <4>1
      <4> QED  BY <4>2, <4>3 DEF Waiting, DistinctMethods
    <3>3. CASE s \notin round /\ v \in round
      <4>1. methods' = <<v>>  BY <3>0, <3>3
      <4>2. taken = {v}  BY <3>3 DEF Dir
      <4> HIDE DEF s, v, taken
      <4>3. DOMAIN methods' = {1} /\ methods'[1] = v  BY <4>1
      <4> QED  BY <4>2, <4>3 DEF Waiting, DistinctMethods
    <3>4. CASE s \notin round /\ v \notin round
      <4>1. methods' = <<>>  BY <3>0, <3>4
      <4>2. taken = {}  BY <3>4 DEF Dir
      <4>3. DOMAIN methods' = {}  BY <4>1
      <4> QED  BY <4>2, <4>3 DEF Waiting, DistinctMethods
    <3> QED  BY <3>1, <3>2, <3>3, <3>4
  <2>5. taken \subseteq round /\ round' = round \ taken  BY <2>1
  <2>6. InHand' = InHand /\ EmittedNeeds' = EmittedNeeds  BY <2>2, <1>c, EmittedKept
  <2>7. NeedsAccounted'
        BY <2>2, <2>3, <2>4, <2>5, <2>6 DEF NeedsAccounted, Bookkeeping
  <2>8. JobForm' /\ MethodOnce'
        BY <2>2 DEF Idle, JobForm, MethodOnce, Bookkeeping
  <2> QED  BY <2>2, <2>4, <2>7, <2>8 DEF Bookkeeping
<1>10. CASE StartMethod
  <2> DEFINE d == Head(methods)[1]
             t == Head(methods)[2]
  <2>1. methods \in Seq(Need) /\ methods # <<>>  BY <1>10 DEF StartMethod, TypeOK
  <2>2. Head(methods) \in Need /\ Head(methods) = methods[1]
        BY <2>1, HeadTailProperties
  <2>3. d \in Dir /\ t \in Type /\ Head(methods) = <<d, t>>  BY <2>2 DEF Need
  <2>4. /\ job = NoJob /\ phase' = "named" /\ methods' = Tail(methods)
        /\ job' = [fn |-> Method(d, t), type |-> t, calls |-> {}]
        /\ UNCHANGED <<src, funcs, named>>
        BY <1>10 DEF StartMethod
  <2>5. InHand = {}  BY <2>4 DEF InHand
  <2>6. job' \in Job /\ job' # NoJob
        BY <2>3, <2>4, MethodTyped, NoJobAssumption DEF Job, TypeOK
  <2>7. InHand' = {Head(methods)}
    <3>1. InHand' = {n \in Need : Method(d, t) = Method(n[1], n[2])}
          BY <2>4, <2>6 DEF InHand, Method
    <3>2. \A n \in Need : n = <<n[1], n[2]>>  BY DEF Need
    <3> QED  BY <2>2, <2>3, <3>1, <3>2, MethodInjective
  <2>8. /\ Len(methods) \in Nat /\ Len(methods') = Len(methods) - 1
        /\ \A i \in 1..Len(methods') : methods'[i] = methods[i + 1]
        /\ DOMAIN methods = 1..Len(methods) /\ DOMAIN methods' = 1..Len(methods')
        BY <2>1, <2>4, HeadTailProperties
  <2>9. Waiting' = Waiting \ {Head(methods)} /\ DistinctMethods'
    <3>1. DistinctMethods  BY DEF Bookkeeping
    <3>2. ASSUME NEW n \in Waiting, n # Head(methods) PROVE n \in Waiting'
      <4>1. PICK i \in 1..Len(methods) : n = methods[i]  BY <2>8 DEF Waiting
      <4>2. i # 1  BY <2>2, <3>2, <4>1
      <4>3. i - 1 \in 1..Len(methods') /\ methods'[i - 1] = n
            BY <2>8, <4>1, <4>2
      <4> QED  BY <2>8, <4>3 DEF Waiting
    <3>3. ASSUME NEW n \in Waiting' PROVE n \in Waiting /\ n # Head(methods)
      <4>1. PICK i \in 1..Len(methods') : n = methods'[i]  BY <2>8, <3>3 DEF Waiting
      <4>2. i + 1 \in 1..Len(methods) /\ n = methods[i + 1] /\ i + 1 # 1
            BY <2>8, <4>1
      <4>3. 1 \in 1..Len(methods)  BY <2>8, <4>2
      <4> QED  BY <2>2, <2>8, <3>1, <4>2, <4>3 DEF Waiting, DistinctMethods
    <3>4. DistinctMethods'
      <4> SUFFICES ASSUME NEW i \in 1..Len(methods'), NEW j \in 1..Len(methods'),
                          methods'[i] = methods'[j]
                   PROVE  i = j
          BY <2>8 DEF DistinctMethods
      <4>1. /\ i + 1 \in DOMAIN methods /\ j + 1 \in DOMAIN methods
            /\ methods[i + 1] = methods[j + 1]
            BY <2>8
      <4>2. i + 1 = j + 1  BY <3>1, <4>1 DEF DistinctMethods
      <4> QED  BY <4>2
    <3> QED  BY <3>2, <3>3, <3>4
  <2>10. Head(methods) \in Waiting  BY <2>1, <2>2, <2>8 DEF Waiting
  <2>11. EmittedNeeds' = EmittedNeeds  BY <2>4, EmittedKept
  <2>12. NeedsAccounted'
         BY <2>4, <2>5, <2>7, <2>9, <2>10, <2>11 DEF NeedsAccounted, Bookkeeping
  <2>13. MethodOnce'  BY <2>4 DEF MethodOnce, Bookkeeping
  <2>14. JobForm'
    <3>1. job'.fn = Method(d, t) /\ job'.fn.dir = d /\ job'.fn.type = t
          BY <2>4 DEF Method
    <3> QED  BY <2>3, <2>4, <3>1 DEF JobForm, Method
  <2> QED  BY <2>4, <2>9, <2>12, <2>13, <2>14 DEF Bookkeeping
<1>11. CASE Emit
  <2>1. /\ job \in Job /\ job # NoJob /\ phase # "macros"
        /\ job' = NoJob /\ UNCHANGED <<src, phase, named, methods>>
        /\ funcs' = Append(funcs, job)
        BY <1>11 DEF Emit, Rendered, TypeOK, Bookkeeping, Idle
  <2>2. /\ funcs \in Seq(Job) /\ Len(funcs) \in Nat
        /\ DOMAIN funcs = 1..Len(funcs) /\ DOMAIN funcs' = 1..(Len(funcs) + 1)
        /\ funcs'[Len(funcs) + 1].fn = job.fn
        /\ \A i \in 1..Len(funcs) : funcs'[i] = funcs[i]
    <3>1. funcs \in Seq(Job)  BY DEF TypeOK
    <3> QED  BY <2>1, <3>1, AppendProperties
  <2>3. Emitted' = Emitted \cup {job.fn}  BY <2>2 DEF Emitted
  <2>4. EmittedNeeds' = EmittedNeeds \cup InHand
        BY <2>1, <2>3 DEF EmittedNeeds, InHand, Method
  <2>5. InHand' = {}  BY <2>1 DEF InHand
  <2>6. Waiting' = Waiting /\ DistinctMethods' /\ JobForm'
        BY <2>1 DEF Waiting, DistinctMethods, JobForm, Bookkeeping
  <2>7. NeedsAccounted'
        BY <2>1, <2>4, <2>5, <2>6 DEF NeedsAccounted, Bookkeeping
  <2>8. job.fn.type # NoType => job.fn \notin Emitted
    <3> SUFFICES ASSUME job.fn.type # NoType PROVE job.fn \notin Emitted  OBVIOUS
    <3>1. job.fn.dir \in Dir /\ job.fn.type \in Type
          /\ job.fn = Method(job.fn.dir, job.fn.type)
          BY <2>1 DEF JobForm, Bookkeeping, Job, FnId
    <3> DEFINE n == <<job.fn.dir, job.fn.type>>
    <3>2. n \in InHand  BY <2>1, <3>1 DEF InHand, Need
    <3>3. n \notin EmittedNeeds  BY <3>2 DEF NeedsAccounted, Bookkeeping
    <3> QED  BY <3>1, <3>2, <3>3 DEF EmittedNeeds, InHand
  <2>9. MethodOnce'
    <3> SUFFICES ASSUME NEW i \in DOMAIN funcs', NEW j \in DOMAIN funcs',
                        funcs'[i].fn = funcs'[j].fn, funcs'[i].fn.type # NoType
                 PROVE  i = j
        BY DEF MethodOnce
    <3>1. CASE i \in 1..Len(funcs) /\ j \in 1..Len(funcs)
      <4>1. funcs[i].fn = funcs[j].fn /\ funcs[i].fn.type # NoType
            BY <2>2, <3>1
      <4> QED  BY <2>2, <3>1, <4>1 DEF MethodOnce, Bookkeeping
    <3>2. CASE i \in 1..Len(funcs) /\ j = Len(funcs) + 1
      <4>1. funcs[i].fn = job.fn /\ job.fn.type # NoType  BY <2>2, <3>2
      <4> QED  BY <2>2, <2>8, <3>2, <4>1 DEF Emitted
    <3>3. CASE i = Len(funcs) + 1 /\ j \in 1..Len(funcs)
      <4>1. funcs[j].fn = job.fn /\ job.fn.type # NoType  BY <2>2, <3>3
      <4> QED  BY <2>2, <2>8, <3>3, <4>1 DEF Emitted
    <3> QED  BY <2>2, <3>1, <3>2, <3>3
  <2> QED  BY <2>1, <2>6, <2>7, <2>9 DEF Bookkeeping
<1>12. CASE NextTypeRound
  <2>1. /\ round = {} /\ round' = typeNeeds /\ typeNeeds' = {}
        /\ phase' = "named" /\ phase = "named"
        /\ UNCHANGED <<src, methods, job, funcs, seenTypes>>
        BY <1>12 DEF NextTypeRound
  <2>2. InHand' = InHand /\ EmittedNeeds' = EmittedNeeds /\ JobForm'
        BY <2>1, <1>c, <1>d, EmittedKept
  <2>3. Waiting' = Waiting /\ DistinctMethods' /\ MethodOnce'
        BY <2>1 DEF Waiting, DistinctMethods, MethodOnce, Bookkeeping
  <2>4. NeedsAccounted'  BY <2>1, <2>2, <2>3 DEF NeedsAccounted, Bookkeeping
  <2> QED  BY <2>1, <2>2, <2>3, <2>4 DEF Bookkeeping
<1>13. CASE EndNamed
  <2>1. job = NoJob /\ job' = NoJob /\ phase' = "Scan"
        /\ UNCHANGED <<src, funcs, methods, named>>
        BY <1>13 DEF EndNamed, Idle, BeginAnon
  <2>2. JobForm'  BY <2>1 DEF JobForm
  <2> QED  BY <1>a, <1>c, <2>1, <2>2
<1>14. CASE StartAnon
  <2>1. /\ job = NoJob /\ job'.fn.type = NoType /\ phase \in Dir /\ phase' = phase
        /\ UNCHANGED <<src, funcs, methods, named>>
        BY <1>14 DEF StartAnon, AnonFn
  <2>2. InHand = {}  BY <2>1 DEF InHand
  <2>3. InHand' = {}
        BY <2>1, SentinelAssumption DEF InHand, Need, Method
  <2>4. JobForm'  BY <2>1 DEF JobForm
  <2> QED  BY <1>a, <2>1, <2>2, <2>3, <2>4 DEF Dir
<1>15. CASE NextAnonRound
  BY <1>15, <1>a, <1>c, <1>d DEF NextAnonRound, AnonRoundOver, Dir
<1>16. CASE EndAnon
  <2>1. job = NoJob /\ job' = NoJob /\ phase' # "macros"
        /\ UNCHANGED <<src, funcs, methods, named>>
        BY <1>16 DEF EndAnon, AnonRoundOver, BeginAnon
  <2>2. JobForm'  BY <2>1 DEF JobForm
  <2> QED  BY <1>a, <1>c, <2>1, <2>2
<1>17. CASE UNCHANGED vars
  <2>1. UNCHANGED <<src, phase, round, methods, job, funcs, seenTypes, typeNeeds>>
        BY <1>17 DEF vars
  <2>2. InHand' = InHand /\ EmittedNeeds' = EmittedNeeds /\ JobForm'
        BY <2>1, <1>c, <1>d, EmittedKept
  <2>3. Waiting' = Waiting /\ DistinctMethods' /\ MethodOnce' /\ (Idle <=> Idle')
        BY <2>1 DEF Waiting, DistinctMethods, MethodOnce, Bookkeeping, Idle
  <2>4. NeedsAccounted'  BY <2>1, <2>2, <2>3 DEF NeedsAccounted, Bookkeeping
  <2> QED  BY <2>1, <2>2, <2>3, <2>4 DEF Bookkeeping
<1> QED
  BY <1>1, <1>2, <1>3, <1>4, <1>5, <1>6, <1>7, <1>8, <1>9, <1>10, <1>11, <1>12,
     <1>13, <1>14, <1>15, <1>16, <1>17
  DEF Next, Step, Terminated, MacroPanic, GeneratePanic, RenderPanic, EmitPanic

LEMMA BookkeepingInit == Init => Bookkeeping
<1> SUFFICES ASSUME Init PROVE Bookkeeping  OBVIOUS
<1>1. Waiting = {} /\ InHand = {} /\ EmittedNeeds = {}
      BY DEF Init, Waiting, InHand, EmittedNeeds, Emitted
<1> QED  BY <1>1 DEF Init, Bookkeeping, NeedsAccounted, MethodOnce, JobForm,
                     DistinctMethods, Idle

(* Every seen need is in exactly one place, and what that rests on.        *)
THEOREM BookkeepingInvariant == Spec => []Bookkeeping
BY BookkeepingInit, BookkeepingStep, TypeCorrect, PTL DEF Spec

(* However the maps are ordered and the maps swapped, no need is lost      *)
(* between the seen map, the two maps, the visited type and the file.      *)
THEOREM NeedsAreAccountedFor == Spec => []NeedsAccounted
<1>1. Bookkeeping => NeedsAccounted  BY DEF Bookkeeping
<1> QED  BY <1>1, BookkeepingInvariant, PTL

(* No method is ever emitted twice.                                        *)
THEOREM MethodsEmittedOnce == Spec => []MethodOnce
<1>1. Bookkeeping => MethodOnce  BY DEF Bookkeeping
<1> QED  BY <1>1, BookkeepingInvariant, PTL

-----------------------------------------------------------------------------
(* The worklist without its data structures.  Every step but Emit leaves   *)
(* the file alone and only adds to the seen map: it requests.              *)
LEMMA StepShape ==
    ASSUME TypeOK, Bookkeeping, [Next]_vars
    PROVE  /\ src' = src /\ seenTypes \subseteq seenTypes'
           /\ funcs' = funcs \/ Emit
           /\ phase' \in {"Scan", "Value", "done"} =>
                  phase \in {"Scan", "Value", "done"} \/ EndNamed
<1> USE DEF control, named, anon
<1>1. CASE Step
  <2>1. CASE RenderDescend \/ RenderPod \/ RenderCall \/ RenderAnon \/ RenderLeaf
    BY <2>1 DEF RenderDescend, RenderPod, RenderCall, RenderAnon, RenderLeaf, Queue
  <2>2. CASE RenderPanic \/ MacroPanic \/ GeneratePanic \/ EmitPanic
    BY <2>2 DEF RenderPanic, MacroPanic, GeneratePanic, EmitPanic, Fail
  <2>3. CASE QueueByMacros \/ BeginNamed \/ PickType \/ StartMethod
    BY <2>3 DEF QueueByMacros, BeginNamed, PickType, StartMethod, Queue
  <2>4. CASE Emit \/ NextTypeRound \/ EndNamed
    BY <2>4 DEF Emit, NextTypeRound, EndNamed
  <2>5. CASE StartAnon \/ NextAnonRound \/ EndAnon
    BY <2>5 DEF StartAnon, NextAnonRound, EndAnon, AnonRoundOver, Dir
  <2> QED  BY <1>1, <2>1, <2>2, <2>3, <2>4, <2>5 DEF Step
<1>2. CASE UNCHANGED vars
  BY <1>2 DEF vars
<1> QED  BY <1>1, <1>2 DEF Next, Terminated

(* What Emit does to the emitted functions and to the needs behind them.   *)
LEMMA EmitShape ==
    ASSUME TypeOK, Emit
    PROVE  /\ job \in Job /\ src' = src /\ job # NoJob
           /\ funcs \in Seq(Job) /\ Len(funcs) \in Nat
           /\ DOMAIN funcs = 1..Len(funcs) /\ DOMAIN funcs' = 1..(Len(funcs) + 1)
           /\ funcs'[Len(funcs) + 1] = job
           /\ \A i \in 1..Len(funcs) : funcs'[i] = funcs[i]
           /\ Emitted' = Emitted \cup {job.fn}
           /\ EmittedNeeds' = EmittedNeeds \cup InHand
<1>1. /\ job \in Job /\ job # NoJob /\ src' = src
      /\ funcs' = Append(funcs, job)
      BY DEF Emit, Rendered, TypeOK
<1>2. funcs \in Seq(Job)  BY DEF TypeOK
<1>3. /\ Len(funcs) \in Nat
      /\ DOMAIN funcs = 1..Len(funcs) /\ DOMAIN funcs' = 1..(Len(funcs) + 1)
      /\ funcs'[Len(funcs) + 1] = job
      /\ \A i \in 1..Len(funcs) : funcs'[i] = funcs[i]
      BY <1>1, <1>2, AppendProperties
<1>4. Emitted' = Emitted \cup {job.fn}  BY <1>3 DEF Emitted
<1>5. EmittedNeeds' = EmittedNeeds \cup InHand
      BY <1>1, <1>4 DEF EmittedNeeds, InHand, Method
<1> QED  BY <1>1, <1>2, <1>3, <1>4, <1>5

(* The generator implements the abstract worklist: each need is requested  *)
(* once, completed once, and forgotten never.                              *)
THEOREM GeneratorImplementsWorkSet == Spec => ImplementsWorkSet
<1>1. Init => WS!Init
  BY DEF Init, WS!Init, EmittedNeeds, Emitted
<1>2. TypeOK /\ TypeOK' /\ Bookkeeping /\ [Next]_vars => [WS!Next]_(WS!vars)
  <2> SUFFICES ASSUME TypeOK, TypeOK', Bookkeeping, [Next]_vars
               PROVE  WS!Next \/ WS!vars' = WS!vars
      OBVIOUS
  <2>1. CASE funcs' = funcs
    <3>1. EmittedNeeds' = EmittedNeeds  BY <2>1, StepShape, EmittedKept
    <3>2. seenTypes \subseteq seenTypes' /\ seenTypes' \subseteq Need
          BY StepShape DEF TypeOK
    <3>3. WS!Request  BY <3>1, <3>2 DEF WS!Request
    <3> QED  BY <3>3 DEF WS!Next
  <2>2. CASE Emit
    <3>1. EmittedNeeds' = EmittedNeeds \cup InHand /\ job \in Job /\ job # NoJob
          BY <2>2, EmitShape
    <3>2. seenTypes' = seenTypes  BY <2>2 DEF Emit, named
    <3>3. CASE InHand = {}
      BY <3>1, <3>2, <3>3 DEF WS!vars
    <3>4. CASE InHand # {}
      <4>1. PICK n \in InHand : TRUE  BY <3>4
      <4>2. InHand = {n}
            BY <4>1, MethodInjective DEF InHand, Need
      <4>3. n \in seenTypes \ EmittedNeeds
            BY <4>1 DEF NeedsAccounted, Bookkeeping
      <4>4. WS!Complete  BY <3>1, <3>2, <4>2, <4>3 DEF WS!Complete
      <4> QED  BY <4>4 DEF WS!Next
    <3> QED  BY <3>3, <3>4
  <2> QED  BY <2>1, <2>2, StepShape
<1> QED
  BY <1>1, <1>2, TypeCorrect, BookkeepingInvariant, PTL
  DEF Spec, ImplementsWorkSet, WS!Spec

-----------------------------------------------------------------------------
(* A called method is one that exists or one that was queued.              *)
CallKnown(f) ==
    f.type # NoType =>
        /\ f.type \in Type /\ f.dir \in Dir /\ f = Method(f.dir, f.type)
        /\ <<f.dir, f.type>> \in seenTypes \/ Provided(f)

CallsKnown ==
    /\ \A i \in DOMAIN funcs : \A f \in funcs[i].calls : CallKnown(f)
    /\ job # NoJob => \A f \in job.calls : CallKnown(f)

LEMMA CallKnownKept ==
    ASSUME NEW f, CallKnown(f), src' = src, seenTypes \subseteq seenTypes'
    PROVE  CallKnown(f)'
BY DEF CallKnown, Method, Provided, Info

LEMMA CallsKnownStep ==
    ASSUME TypeOK, Bookkeeping, CallsKnown, [Next]_vars
    PROVE  CallsKnown'
<1> USE DEF control, named, anon
<1>0. src' = src /\ seenTypes \subseteq seenTypes'  BY StepShape
<1>1. CASE Emit
  <2>1. \A i \in DOMAIN funcs' : \A f \in funcs'[i].calls : CallKnown(f)
    <3> SUFFICES ASSUME NEW i \in 1..(Len(funcs) + 1), NEW f \in funcs'[i].calls
                 PROVE  CallKnown(f)
        BY <1>1, EmitShape
    <3>1. CASE i \in 1..Len(funcs)
      BY <1>1, <3>1, EmitShape DEF CallsKnown
    <3>2. CASE i = Len(funcs) + 1
      BY <1>1, <3>2, EmitShape DEF CallsKnown
    <3>3. Len(funcs) \in Nat  BY <1>1, EmitShape
    <3> QED  BY <3>1, <3>2, <3>3
  <2>2. \A i \in DOMAIN funcs' : \A f \in funcs'[i].calls : CallKnown(f)'
        BY <1>0, <2>1, CallKnownKept
  <2>3. job' = NoJob  BY <1>1 DEF Emit
  <2> QED  BY <2>2, <2>3 DEF CallsKnown
<1>2. ASSUME funcs' = funcs,
             job' # NoJob => \A f \in job'.calls : CallKnown(f)'
      PROVE  CallsKnown'
  BY <1>0, <1>2, CallKnownKept DEF CallsKnown
<1>3. ASSUME funcs' = funcs, job' = job PROVE CallsKnown'
  <2>1. job' # NoJob => \A f \in job'.calls : CallKnown(f)'
        BY <1>0, <1>3, CallKnownKept DEF CallsKnown
  <2> QED  BY <1>2, <1>3, <2>1
<1>4. CASE RenderCall
  <2> DEFINE c == Head(stack)
             d == job.fn.dir
  <2>0. PICK m : m = Method(d, c.type)  OBVIOUS
  <2>1. /\ Rendering /\ CallsMethod(d, c.type) /\ AddCall(m) /\ funcs' = funcs
        /\ Queue(IF GetsMethod(d, c.type) THEN {<<d, c.type>>} ELSE {})
        BY <1>4, <2>0 DEF RenderCall
  <2>2. d \in Dir /\ c.type \in Type /\ job \in Job  BY <2>1, RenderingTyped
  <2>3. m.dir = d /\ m.type = c.type  BY <2>0 DEF Method
  <2>4. <<d, c.type>> \in seenTypes' \/ Provided(m)
    <3>1. CASE GetsMethod(d, c.type)
      BY <2>1, <3>1 DEF Queue
    <3>2. CASE ~GetsMethod(d, c.type)
      BY <2>2, <2>3, <3>2, SentinelAssumption DEF GetsMethod, Provided
    <3> QED  BY <3>1, <3>2
  <2>5. CallKnown(m)'
        BY <1>0, <2>0, <2>2, <2>3, <2>4 DEF CallKnown, Method, Provided, Info
  <2>6. job'.calls = job.calls \cup {m}  BY <2>1, <2>2 DEF AddCall, Job
  <2>7. \A f \in job.calls : CallKnown(f)'
        BY <1>0, <2>1, CallKnownKept DEF CallsKnown, Rendering
  <2>8. \A f \in job'.calls : CallKnown(f)'  BY <2>5, <2>6, <2>7
  <2> QED  BY <1>2, <2>1, <2>8
<1>5. CASE RenderAnon
  <2>0. PICK m : m = AnonFn(job.fn.dir, Head(stack).name)  OBVIOUS
  <2>1. Rendering /\ AddCall(m) /\ funcs' = funcs  BY <1>5, <2>0 DEF RenderAnon
  <2>2. job'.calls = job.calls \cup {m}
        BY <2>1, RenderingTyped DEF AddCall, Job
  <2>3. CallKnown(m)'  BY <2>0 DEF CallKnown, AnonFn
  <2>4. \A f \in job.calls : CallKnown(f)'
        BY <1>0, <2>1, CallKnownKept DEF CallsKnown, Rendering
  <2>5. \A f \in job'.calls : CallKnown(f)'  BY <2>2, <2>3, <2>4
  <2> QED  BY <1>2, <2>1, <2>5
<1>6. CASE StartMethod
  <2>1. funcs' = funcs /\ job'.calls = {}  BY <1>6 DEF StartMethod
  <2> QED  BY <1>2, <2>1
<1>7. CASE StartAnon
  <2>1. funcs' = funcs /\ job'.calls = {}  BY <1>7 DEF StartAnon
  <2> QED  BY <1>2, <2>1
<1>8. CASE RenderDescend \/ RenderPod \/ RenderLeaf \/ Fail
  BY <1>3, <1>8 DEF RenderDescend, RenderPod, RenderLeaf, Fail
<1>9. CASE QueueByMacros \/ BeginNamed \/ PickType \/ NextTypeRound \/ EndNamed
  BY <1>3, <1>9 DEF QueueByMacros, BeginNamed, PickType, NextTypeRound, EndNamed
<1>10. CASE NextAnonRound \/ EndAnon \/ UNCHANGED vars
  BY <1>3, <1>10 DEF NextAnonRound, EndAnon, vars
<1> QED
  BY <1>1, <1>4, <1>5, <1>6, <1>7, <1>8, <1>9, <1>10
  DEF Next, Step, Terminated, MacroPanic, GeneratePanic, RenderPanic, EmitPanic

LEMMA MethodCallsStep ==
    ASSUME TypeOK, Bookkeeping, CallsKnown, MethodCallsDefined, [Next]_vars
    PROVE  MethodCallsDefined'
<1> DEFINE After == {"Scan", "Value", "done"}
           Resolved(i) == \A f \in funcs[i].calls :
                              f.type # NoType => f \in Emitted \/ Provided(f)
<1> SUFFICES ASSUME phase' \in After, NEW i \in DOMAIN funcs', funcs'[i].fn.type # NoType
             PROVE  Resolved(i)'
    BY DEF MethodCallsDefined
<1>0. src' = src  BY StepShape
<1>1. CASE EndNamed
  <2>1. /\ typeNeeds = {} /\ round = {} /\ job = NoJob /\ methods = <<>>
        /\ funcs' = funcs
        BY <1>1 DEF EndNamed, Idle
  <2>2. seenTypes = EmittedNeeds
        BY <2>1 DEF NeedsAccounted, Bookkeeping, Waiting, InHand
  <2>3. ASSUME NEW f \in funcs[i].calls, f.type # NoType
        PROVE  f \in Emitted \/ Provided(f)
    <3>1. CallKnown(f)  BY <2>1, <2>3 DEF CallsKnown
    <3> QED  BY <2>2, <2>3, <3>1 DEF CallKnown, EmittedNeeds
  <2> QED  BY <1>0, <2>1, <2>3 DEF Emitted, Provided, Info
<1>2. CASE phase \in After /\ funcs' = funcs
  <2>1. Resolved(i)  BY <1>2 DEF MethodCallsDefined
  <2> QED  BY <1>0, <1>2, <2>1 DEF Emitted, Provided, Info
<1>3. CASE phase \in After /\ Emit
  <2>1. job.fn.type = NoType
        BY <1>3, EmitShape DEF JobForm, Bookkeeping
  <2>2. i \in 1..Len(funcs)
        BY <1>3, <2>1, EmitShape
  <2>3. Resolved(i) /\ funcs'[i] = funcs[i]
        BY <1>3, <2>2, EmitShape DEF MethodCallsDefined
  <2>4. Emitted \subseteq Emitted'  BY <1>3, EmitShape
  <2> QED  BY <1>0, <2>3, <2>4 DEF Provided, Info
<1> QED  BY <1>1, <1>2, <1>3, StepShape

(* Once the map iterator has stopped, every method that an emitted method  *)
(* calls on a named type is emitted as well or exists already: no order of *)
(* the maps, no swap and no recursion between types leaves one out.        *)
THEOREM MethodCallsAreDefined == Spec => []MethodCallsDefined
<1>1. Init => CallsKnown /\ MethodCallsDefined
  BY DEF Init, CallsKnown, MethodCallsDefined
<1>2. TypeOK /\ Bookkeeping /\ CallsKnown /\ MethodCallsDefined /\ [Next]_vars
        => CallsKnown' /\ MethodCallsDefined'
  BY CallsKnownStep, MethodCallsStep
<1> QED  BY <1>1, <1>2, TypeCorrect, BookkeepingInvariant, PTL DEF Spec

-----------------------------------------------------------------------------
(* Who queues a need: a comment that asks for it, or a renderer, which has *)
(* looked at the file of the method.                                       *)
SeenAskedFor ==
    \A n \in seenTypes : Info(n[2]).method[n[1]] = "user" => AskedFor(n)

LEMMA SeenShape ==
    ASSUME TypeOK, [Next]_vars
    PROVE  /\ src' = src
           /\ seenTypes' = seenTypes \/ RenderCall \/ QueueByMacros
<1> USE DEF control, named, anon
<1>1. CASE Step
  <2>1. CASE RenderDescend \/ RenderPod \/ RenderCall \/ RenderAnon \/ RenderLeaf
    BY <2>1 DEF RenderDescend, RenderPod, RenderCall, RenderAnon, RenderLeaf
  <2>2. CASE RenderPanic \/ MacroPanic \/ GeneratePanic \/ EmitPanic
    BY <2>2 DEF RenderPanic, MacroPanic, GeneratePanic, EmitPanic, Fail
  <2>3. CASE QueueByMacros \/ BeginNamed \/ PickType \/ StartMethod
    BY <2>3 DEF QueueByMacros, BeginNamed, PickType, StartMethod
  <2>4. CASE Emit \/ NextTypeRound \/ EndNamed
    BY <2>4 DEF Emit, NextTypeRound, EndNamed
  <2>5. CASE StartAnon \/ NextAnonRound \/ EndAnon
    BY <2>5 DEF StartAnon, NextAnonRound, EndAnon
  <2> QED  BY <1>1, <2>1, <2>2, <2>3, <2>4, <2>5 DEF Step
<1>2. CASE UNCHANGED vars
  BY <1>2 DEF vars
<1> QED  BY <1>1, <1>2 DEF Next, Terminated

LEMMA SeenAskedForStep ==
    ASSUME TypeOK, SeenAskedFor, [Next]_vars
    PROVE  SeenAskedFor'
<1>0. src' = src  BY SeenShape
<1>1. ASSUME NEW n, AskedFor(n) PROVE AskedFor(n)'
  BY <1>0, <1>1 DEF AskedFor, MacroNeeds, BadSpecs
<1>2. ASSUME NEW n \in seenTypes' \ seenTypes, Info(n[2]).method[n[1]] = "user"
      PROVE  AskedFor(n)
  <2>1. CASE RenderCall
    <3> DEFINE d == job.fn.dir
               t == Head(stack).type
    <3>1. Queue(IF GetsMethod(d, t) THEN {<<d, t>>} ELSE {})
          BY <2>1 DEF RenderCall
    <3>2. n = <<d, t>> /\ GetsMethod(d, t)  BY <1>2, <3>1 DEF Queue
    <3> QED  BY <1>2, <3>2 DEF GetsMethod
  <2>2. CASE QueueByMacros
    <3>1. /\ Queue(MacroNeeds(src.decls[decl])) /\ decl <= Len(src.decls)
          BY <2>2 DEF QueueByMacros
    <3>2. src \in Program /\ decl \in Nat \ {0}
          BY ProgramsAssumption DEF TypeOK
    <3>3. decl \in DOMAIN src.decls  BY <3>1, <3>2 DEF Program
    <3>4. n \in MacroNeeds(src.decls[decl])  BY <1>2, <3>1 DEF Queue
    <3> QED  BY <3>3, <3>4 DEF AskedFor
  <2> QED  BY <1>2, <2>1, <2>2, SeenShape
<1> QED  BY <1>0, <1>1, <1>2 DEF SeenAskedFor, Info

(* Only a comment makes the tool declare a method once more that somebody  *)
(* has written: what a field of the type asks for looks at its file.       *)
THEOREM HandWrittenMethodsKept == Spec => []HandWrittenKept
<1>1. Init => SeenAskedFor
  BY DEF Init, SeenAskedFor
<1>2. TypeOK /\ SeenAskedFor /\ [Next]_vars => SeenAskedFor'
  BY SeenAskedForStep
<1>3. SeenAskedFor /\ NeedsAccounted => HandWrittenKept
  BY DEF SeenAskedFor, NeedsAccounted, HandWrittenKept
<1> QED  BY <1>1, <1>2, <1>3, TypeCorrect, NeedsAreAccountedFor, PTL DEF Spec

-----------------------------------------------------------------------------
(* Ends is what its equation says, for types that name themselves as well: *)
(* the least relation closed under the equation solves it.                 *)
EndsClosed(F) ==
    /\ F \subseteq (Dir \X Call) \X Node
    /\ \A d \in Dir, c \in Call : \A x \in Node :
          IF StandsIn(d, c) THEN <<<<d, StandsFor(d, c)>>, x>> \in F => <<<<d, c>>, x>> \in F
          ELSE x \in Called(d, c) => <<<<d, c>>, x>> \in F

LeastEnds(d, c) == {x \in Node : \A F : EndsClosed(F) => <<<<d, c>>, x>> \in F}

LEMMA StandsForTyped ==
    ASSUME src \in Programs, NEW d \in Dir, NEW c \in Call
    PROVE  /\ StandsIn(d, c) => StandsFor(d, c) \in Call
           /\ Called(d, c) \in SUBSET Node
<1>1. c.type \in Type /\ c.name \in Name  BY DEF Call
<1>2. StandsIn(d, c) => StandsFor(d, c) \in Call
  BY <1>1, InfoTyped, PodNameTyped DEF StandsIn, StandsFor, Call, UsesPod
<1>3. Method(d, c.type) \in FnId /\ AnonFn(d, c.name) \in FnId
  BY <1>1, MethodTyped DEF AnonFn, FnId
<1> QED  BY <1>1, <1>2, <1>3 DEF Called, Node

LEMMA LeastEndsEquation ==
    ASSUME src \in Programs, NEW d \in Dir, NEW c \in Call
    PROVE  LeastEnds(d, c) = IF StandsIn(d, c) THEN LeastEnds(d, StandsFor(d, c))
                             ELSE Called(d, c)
<1> DEFINE all == (Dir \X Call) \X Node
<1>1. ASSUME NEW x \in LeastEnds(d, c), StandsIn(d, c), x \notin LeastEnds(d, StandsFor(d, c))
      PROVE  FALSE
  <2>1. x \in Node  BY <1>1 DEF LeastEnds
  <2>2. PICK F : EndsClosed(F) /\ <<<<d, StandsFor(d, c)>>, x>> \notin F
    BY <1>1, <2>1 DEF LeastEnds
  <2> DEFINE G == F \ {<<<<d, c>>, x>>}
  <2>3. EndsClosed(G)
    <3>1. G \subseteq all  BY <2>2 DEF EndsClosed
    <3>2. ASSUME NEW e \in Dir, NEW b \in Call, NEW y \in Node, StandsIn(e, b),
                 <<<<e, StandsFor(e, b)>>, y>> \in G
          PROVE  <<<<e, b>>, y>> \in G
      <4>1. <<<<e, b>>, y>> \in F  BY <2>2, <3>2 DEF EndsClosed
      <4>2. <<<<e, b>>, y>> # <<<<d, c>>, x>>  BY <2>2, <3>2
      <4> QED  BY <4>1, <4>2
    <3>3. ASSUME NEW e \in Dir, NEW b \in Call, NEW y \in Node, ~StandsIn(e, b),
                 y \in Called(e, b)
          PROVE  <<<<e, b>>, y>> \in G
      <4>1. <<<<e, b>>, y>> \in F  BY <2>2, <3>3 DEF EndsClosed
      <4>2. <<<<e, b>>, y>> # <<<<d, c>>, x>>  BY <1>1, <3>3
      <4> QED  BY <4>1, <4>2
    <3> HIDE DEF G
    <3> QED  BY <3>1, <3>2, <3>3 DEF EndsClosed
  <2> QED  BY <1>1, <2>3 DEF LeastEnds
<1>2. ASSUME StandsIn(d, c), NEW x \in LeastEnds(d, StandsFor(d, c)) PROVE x \in LeastEnds(d, c)
  BY <1>2 DEF LeastEnds, EndsClosed
<1>3. ASSUME NEW x \in LeastEnds(d, c), ~StandsIn(d, c), x \notin Called(d, c) PROVE FALSE
  <2> DEFINE G == all \ {<<<<d, c>>, x>>}
  <2>1. ASSUME NEW e \in Dir, NEW b \in Call, NEW y \in Node,
               StandsIn(e, b) \/ y \in Called(e, b)
        PROVE  <<<<e, b>>, y>> \in G
    <3>1. <<<<e, b>>, y>> # <<<<d, c>>, x>>  BY <1>3, <2>1
    <3> QED  BY <3>1
  <2>2. G \subseteq all  OBVIOUS
  <2> HIDE DEF G
  <2>3. EndsClosed(G)  BY <2>1, <2>2 DEF EndsClosed
  <2>4. <<<<d, c>>, x>> \in G  BY <1>3, <2>3 DEF LeastEnds
  <2> QED  BY <2>4 DEF G
<1>4. ASSUME ~StandsIn(d, c), NEW x \in Called(d, c) PROVE x \in LeastEnds(d, c)
  BY <1>4, StandsForTyped DEF LeastEnds, EndsClosed
<1> QED  BY <1>1, <1>2, <1>3, <1>4

LEMMA EndsEquation ==
    ASSUME src \in Programs, NEW d \in Dir, NEW c \in Call
    PROVE  Ends[<<d, c>>] = IF StandsIn(d, c) THEN Ends[<<d, StandsFor(d, c)>>] ELSE Called(d, c)
<1> DEFINE EndOf(f, e, b) == IF StandsIn(e, b) THEN f[<<e, StandsFor(e, b)>>] ELSE Called(e, b)
           Least == [q \in Dir \X Call |-> LeastEnds(q[1], q[2])]
<1>1. Least = [q \in Dir \X Call |-> EndOf(Least, q[1], q[2])]
  <2>1. ASSUME NEW e \in Dir, NEW b \in Call
        PROVE  LeastEnds(e, b) = EndOf(Least, e, b)
    <3>1. CASE StandsIn(e, b)
      <4>1. StandsFor(e, b) \in Call  BY <3>1, StandsForTyped
      <4>2. Least[<<e, StandsFor(e, b)>>] = LeastEnds(e, StandsFor(e, b))  BY <4>1
      <4> QED  BY <3>1, <4>2, LeastEndsEquation
    <3>2. CASE ~StandsIn(e, b)
      BY <3>2, LeastEndsEquation
    <3> QED  BY <3>1, <3>2
  <2>2. \A q \in Dir \X Call : q[1] \in Dir /\ q[2] \in Call  OBVIOUS
  <2> HIDE DEF EndOf
  <2> QED  BY <2>1, <2>2
<1> HIDE DEF Least
<1>2. Ends = CHOOSE f : f = [q \in Dir \X Call |-> EndOf(f, q[1], q[2])]
  BY DEF Ends
<1> HIDE DEF EndOf
<1>3. Ends = [q \in Dir \X Call |-> EndOf(Ends, q[1], q[2])]
  BY <1>1, <1>2
<1>4. Ends[<<d, c>>] = EndOf(Ends, d, c)  BY <1>3
<1> QED  BY <1>4 DEF EndOf

-----------------------------------------------------------------------------
(* The file against the functions reachable from the comments.  First, how *)
(* far the function in work has come: every call still to render ends at   *)
(* the function its field of the body ends at.                             *)
NodeOf(f) == [fn |-> f.fn, type |-> f.type]

NodeFor(n) == [fn |-> Method(n[1], n[2]), type |-> n[2]]

AnonNode(d, a) == [fn |-> AnonFn(d, a.name), type |-> a.type]

InWork == Made \cup (IF job = NoJob THEN {} ELSE {NodeOf(job)})

Behind == Len(Body(NodeOf(job))) - Len(stack)

Passed == IF job = NoJob THEN {}
          ELSE UNION {Callee(NodeOf(job), i) : i \in 1..Behind}

MethodForm(f) == IsMethod(f) => f.fn = Method(f.fn.dir, f.type)

JobPhase ==
    \/ phase = "named" /\ IsMethod(job)
    \/ phase \in Dir /\ ~IsMethod(job) /\ job.fn = AnonFn(phase, job.fn.name)

StackForm ==
    /\ Len(stack) <= Len(Body(NodeOf(job)))
    /\ \A j \in 1..Len(stack) :
          Ends[<<job.fn.dir, stack[j]>>] = Callee(NodeOf(job), Behind + j)

Shape ==
    phase # "panic" =>
        /\ \A i \in DOMAIN funcs : MethodForm(funcs[i])
        /\ job # NoJob => MethodForm(job) /\ JobPhase /\ StackForm

(* Everything that is read off the package stays what it is.               *)
LEMMA Frozen ==
    ASSUME src' = src
    PROVE  /\ Ends' = Ends
           /\ \A x : Body(x)' = Body(x) /\ Callees(x)' = Callees(x)
           /\ \A x, i : Callee(x, i)' = Callee(x, i)
           /\ \A x : AnonFields(x)' = AnonFields(x)
           /\ \A d, t : Method(d, t)' = Method(d, t)
           /\ Asked' = Asked
<1>1. Ends' = Ends
  BY DEF Ends, StandsIn, StandsFor, Called, Descends, UsesPod, HasPod, CallsMethod,
         PodName, Spellable, Zeroable, KindOf, Info, Sub, Method
<1>2. \A x : Body(x)' = Body(x)
  BY DEF Body, MethodBody, Fields, KindOf, Info, Sub
<1>3. \A x, i : Callee(x, i)' = Callee(x, i)  BY <1>1, <1>2 DEF Callee
<1>4. \A x : Callees(x)' = Callees(x) /\ AnonFields(x)' = AnonFields(x)
  BY <1>2, <1>3 DEF Callees, AnonFields
<1>5. \A d, t : Method(d, t)' = Method(d, t)  BY DEF Method
<1>6. Asked' = Asked
  BY DEF Asked, MacroNeeds, BadSpecs, Method
<1> QED  BY <1>1, <1>2, <1>3, <1>4, <1>5, <1>6

LEMMA BodyTyped ==
    ASSUME src \in Programs, NEW x \in Node
    PROVE  Body(x) \in Seq(Call) /\ x.fn.dir \in Dir
<1>1. x.fn \in FnId /\ x.type \in Type /\ x.fn.dir \in Dir /\ x.fn.name \in Name
  BY DEF Node, FnId
<1> QED  BY <1>1, MethodBodyTyped, FieldsTyped DEF Body

LEMMA JobNode ==
    ASSUME TypeOK, job # NoJob
    PROVE  /\ job \in Job /\ NodeOf(job) \in Node
           /\ NodeOf(job).fn = job.fn /\ NodeOf(job).type = job.type
           /\ Body(NodeOf(job)) \in Seq(Call) /\ Len(Body(NodeOf(job))) \in Nat
           /\ DOMAIN Body(NodeOf(job)) = 1..Len(Body(NodeOf(job)))
           /\ stack \in Seq(Call) /\ Len(stack) \in Nat
<1>1. job \in Job /\ src \in Programs /\ stack \in Seq(Call)  BY DEF TypeOK
<1>2. NodeOf(job) \in Node  BY <1>1 DEF NodeOf, Node, Job
<1>3. Body(NodeOf(job)) \in Seq(Call)  BY <1>1, <1>2, BodyTyped
<1> HIDE DEF NodeOf
<1> QED  BY <1>1, <1>2, <1>3 DEF NodeOf

(* The call at hand is that of the next field, which the body then has     *)
(* behind it.                                                              *)
AtCall ==
    /\ Behind \in Nat /\ Behind + 1 \in DOMAIN Body(NodeOf(job))
    /\ job.fn.dir \in Dir /\ Head(stack) \in Call
    /\ Ends[<<job.fn.dir, Head(stack)>>] = Callee(NodeOf(job), Behind + 1)

LEMMA CallAtHand == TypeOK /\ Shape /\ Rendering /\ phase # "panic" => AtCall
<1> SUFFICES ASSUME TypeOK, Shape, Rendering, phase # "panic" PROVE AtCall  OBVIOUS
<1>1. job # NoJob /\ stack # <<>> /\ StackForm  BY DEF Rendering, Shape
<1>2. Head(stack) \in Call /\ job.fn.dir \in Dir  BY RenderingTyped
<1>3. Head(stack) = stack[1] /\ Len(stack) \in Nat \ {0} /\ 1 \in 1..Len(stack)
  BY <1>1, JobNode, HeadTailProperties, EmptySeq
<1>4. Behind \in Nat /\ Behind + 1 \in DOMAIN Body(NodeOf(job))
  BY <1>1, <1>3, JobNode DEF Behind, StackForm
<1>5. Ends[<<job.fn.dir, stack[1]>>] = Callee(NodeOf(job), Behind + 1)
  BY <1>1, <1>3 DEF StackForm
<1> QED  BY <1>2, <1>3, <1>4, <1>5 DEF AtCall

LEMMA Popped ==
    ASSUME TypeOK, Shape, Rendering, phase # "panic",
           stack' = Tail(stack), src' = src, job' # NoJob, NodeOf(job)' = NodeOf(job)
    PROVE  /\ StackForm' /\ Behind' = Behind + 1
           /\ Passed' = Passed \cup Callee(NodeOf(job), Behind + 1)
<1>0. PICK x : x = NodeOf(job) /\ NodeOf(job)' = x  OBVIOUS
<1> DEFINE n == Len(Body(x))
<1>1. AtCall /\ StackForm /\ job # NoJob  BY CallAtHand DEF Rendering, Shape
<1>2. n \in Nat /\ Len(stack) \in Nat \ {0} /\ Len(stack') = Len(stack) - 1
      /\ \A j \in 1..Len(stack') : stack'[j] = stack[j + 1]
  BY <1>0, <1>1, JobNode, HeadTailProperties, EmptySeq DEF Rendering
<1>3. Body(x)' = Body(x) /\ \A i : Callee(x, i)' = Callee(x, i)  BY Frozen
<1> HIDE DEF n
<1>4. n = Len(Body(x))  BY DEF n
<1>5. Behind = n - Len(stack) /\ Behind' = n - Len(stack') /\ Behind' = Behind + 1
  BY <1>0, <1>2, <1>3, <1>4 DEF Behind
<1>6. StackForm'
  <2>1. job'.fn.dir = job.fn.dir  BY DEF NodeOf
  <2>2. ASSUME NEW j \in 1..Len(stack')
        PROVE  Ends'[<<job'.fn.dir, stack'[j]>>] = Callee(NodeOf(job), Behind + j)'
    <3>1. j + 1 \in 1..Len(stack) /\ Behind + (j + 1) = Behind' + j  BY <1>2, <1>5
    <3>2. Ends[<<job.fn.dir, stack[j + 1]>>] = Callee(x, Behind' + j)
      BY <1>0, <1>1, <3>1 DEF StackForm
    <3>3. Ends'[<<job'.fn.dir, stack'[j]>>] = Callee(x, Behind' + j)
      BY <1>2, <2>1, <3>2, Frozen
    <3> QED  BY <1>0, <1>3, <3>3
  <2>3. (Len(stack) <= Len(Body(NodeOf(job))))'
    BY <1>0, <1>1, <1>2, <1>3 DEF StackForm
  <2> QED  BY <2>2, <2>3 DEF StackForm
<1>7. Passed' = Passed \cup Callee(x, Behind + 1)
  <2>1. Behind \in Nat  BY <1>1 DEF AtCall
  <2>2. 1..(Behind + 1) = (1..Behind) \cup {Behind + 1}  BY <2>1
  <2>3. Passed = UNION {Callee(x, i) : i \in 1..Behind}  BY <1>0, <1>1 DEF Passed
  <2>4. Passed' = UNION {Callee(x, i) : i \in 1..(Behind + 1)}
    BY <1>0, <1>3, <1>5 DEF Passed
  <2> QED  BY <2>2, <2>3, <2>4
<1> QED  BY <1>0, <1>5, <1>6, <1>7

LEMMA StoodFor ==
    ASSUME TypeOK, Shape, phase # "panic", RenderDescend \/ RenderPod
    PROVE  /\ StackForm' /\ Behind' = Behind /\ Passed' = Passed
           /\ UNCHANGED <<src, phase, decl, job, methods, funcs>> /\ UNCHANGED <<named, anon>>
<1> DEFINE d == job.fn.dir
           c == Head(stack)
           e == StandsFor(d, c)
<1>0. /\ Rendering /\ StandsIn(d, c) /\ stack' = <<e>> \o Tail(stack)
      /\ UNCHANGED <<src, phase, decl, job, methods, funcs>> /\ UNCHANGED <<named, anon>>
  BY DEF RenderDescend, RenderPod, Render, StandsIn, StandsFor, control, Descends, UsesPod, HasPod
<1>1. AtCall /\ StackForm /\ job # NoJob  BY <1>0, CallAtHand DEF Rendering, Shape
<1>2. c \in Call /\ d \in Dir /\ e \in Call /\ Ends[<<d, c>>] = Ends[<<d, e>>]
  BY <1>0, <1>1, EndsEquation, StandsForTyped DEF AtCall, TypeOK
<1> HIDE DEF c, d, e
<1>3. /\ Len(stack) \in Nat \ {0} /\ Len(stack') = Len(stack) /\ stack'[1] = e
      /\ \A j \in 2..Len(stack) : stack'[j] = stack[j]
  <2>1. stack \in Seq(Call) /\ stack # <<>> /\ Tail(stack) \in Seq(Call) /\ Len(stack) \in Nat \ {0}
        /\ Len(Tail(stack)) = Len(stack) - 1
        /\ \A j \in 1..Len(Tail(stack)) : Tail(stack)[j] = stack[j + 1]
    BY <1>0, <1>1, JobNode, HeadTailProperties, EmptySeq DEF Rendering
  <2>2. <<e>> \in Seq(Call) /\ Len(<<e>>) = 1 /\ <<e>>[1] = e  BY <1>2
  <2>3. PICK u, t : u = <<e>> /\ t = Tail(stack)  OBVIOUS
  <2>4. stack' = u \o t /\ u \in Seq(Call) /\ t \in Seq(Call)  BY <1>0, <2>1, <2>2, <2>3
  <2>5. /\ Len(stack') = Len(u) + Len(t)
        /\ \A j \in 1..Len(u) + Len(t) :
              stack'[j] = IF j <= Len(u) THEN u[j] ELSE t[j - Len(u)]
    BY <2>4, ConcatProperties
  <2>6. Len(stack') = Len(stack) /\ stack'[1] = e  BY <2>1, <2>2, <2>3, <2>5
  <2>7. ASSUME NEW j \in 2..Len(stack) PROVE stack'[j] = stack[j]
    <3>1. j - 1 \in 1..Len(t) /\ j \in 1..Len(u) + Len(t) /\ ~(j <= Len(u)) /\ j - Len(u) = j - 1
      BY <2>1, <2>2, <2>3
    <3>2. stack'[j] = t[j - 1]  BY <2>5, <3>1
    <3>3. t[j - 1] = stack[(j - 1) + 1] /\ (j - 1) + 1 = j  BY <2>1, <2>3, <3>1
    <3> QED  BY <3>2, <3>3
  <2> QED  BY <2>1, <2>6, <2>7
<1>4. Behind' = Behind  BY <1>0, <1>3, Frozen DEF Behind, NodeOf
<1>5. PICK x : x = NodeOf(job) /\ NodeOf(job)' = x  BY <1>0 DEF NodeOf
<1>6. \A i : Callee(x, i)' = Callee(x, i)  BY <1>0, Frozen
<1>7. Passed' = Passed  BY <1>0, <1>4, <1>5, <1>6 DEF Passed
<1>8. StackForm'
  <2>1. ASSUME NEW j \in 1..Len(stack')
        PROVE  Ends'[<<job'.fn.dir, stack'[j]>>] = Callee(NodeOf(job), Behind + j)'
    <3>1. Ends[<<job.fn.dir, stack[j]>>] = Callee(x, Behind + j)
      BY <1>1, <1>3, <1>5 DEF StackForm
    <3>2. Ends[<<job.fn.dir, stack'[j]>>] = Ends[<<job.fn.dir, stack[j]>>]
      <4>1. CASE j = 1
        <5>1. stack[1] = c
          BY <1>0, <1>1, JobNode, HeadTailProperties DEF Rendering, c
        <5> QED  BY <1>2, <1>3, <4>1, <5>1 DEF d
      <4>2. CASE j # 1
        <5>1. j \in 2..Len(stack)  BY <1>3, <4>2
        <5> QED  BY <1>3, <5>1
      <4> QED  BY <4>1, <4>2
    <3> QED  BY <1>0, <1>4, <1>5, <1>6, <3>1, <3>2, Frozen
  <2>2. (Len(stack) <= Len(Body(NodeOf(job))))'
    BY <1>0, <1>1, <1>3, <1>5, Frozen DEF StackForm
  <2> QED  BY <2>1, <2>2 DEF StackForm
<1> QED  BY <1>0, <1>4, <1>7, <1>8

(* A call that stands for no other is answered, and that ends the field.   *)
LEMMA Answered ==
    ASSUME TypeOK, Shape, phase # "panic", RenderCall \/ RenderAnon \/ RenderLeaf
    PROVE  LET d == job.fn.dir
               c == Head(stack)
           IN  /\ AtCall /\ job # NoJob /\ job' # NoJob /\ NodeOf(job)' = NodeOf(job)
               /\ MethodForm(job) => MethodForm(job)'
               /\ job'.fn = job.fn /\ job'.type = job.type
               /\ StackForm' /\ Behind' = Behind + 1 /\ Passed' = Passed \cup Called(d, c)
               /\ Callee(NodeOf(job), Behind + 1) = Called(d, c)
               /\ UNCHANGED <<src, phase, decl, methods, funcs>>
<1> USE DEF control, named, anon
<1> DEFINE d == job.fn.dir
           c == Head(stack)
<1>0. /\ Rendering /\ ~StandsIn(d, c) /\ stack' = Tail(stack)
      /\ UNCHANGED <<src, phase, decl, methods, funcs>>
  BY DEF RenderCall, RenderAnon, RenderLeaf, StandsIn, Descends, UsesPod, HasPod, CallsMethod,
         RenderedBasics, Leaf
<1>1. AtCall /\ job \in Job /\ job # NoJob  BY <1>0, CallAtHand, RenderingTyped DEF Rendering
<1>2. job' # NoJob /\ job'.fn = job.fn /\ job'.type = job.type /\ NodeOf(job)' = NodeOf(job)
  <2>1. CASE RenderLeaf
    BY <1>1, <2>1 DEF RenderLeaf, NodeOf
  <2>2. ASSUME NEW f \in FnId, AddCall(f)
        PROVE  job' # NoJob /\ job'.fn = job.fn /\ job'.type = job.type
    BY <1>0, <1>1, <2>2, AddCallTyped, NoJobAssumption DEF AddCall, Job
  <2>3. c.type \in Type /\ c.name \in Name /\ d \in Dir  BY <1>0, RenderingTyped
  <2>4. Method(d, c.type) \in FnId /\ AnonFn(d, c.name) \in FnId
    BY <2>3, MethodTyped DEF AnonFn, FnId, TypeOK
  <2>5. AddCall(Method(d, c.type)) \/ AddCall(AnonFn(d, c.name)) \/ RenderLeaf
    BY DEF RenderCall, RenderAnon
  <2> QED  BY <2>1, <2>2, <2>4, <2>5 DEF NodeOf
<1>3. Callee(NodeOf(job), Behind + 1) = Called(d, c)
  BY <1>0, <1>1, EndsEquation DEF AtCall, TypeOK
<1>4. MethodForm(job) => MethodForm(job)'  BY <1>0, <1>2, Frozen DEF MethodForm, IsMethod
<1> QED  BY <1>0, <1>1, <1>2, <1>3, <1>4, Popped

(* A function just begun has its whole body ahead.                         *)
LEMMA Begun ==
    ASSUME TypeOK', src' = src, job' # NoJob, stack' = Body(NodeOf(job)')
    PROVE  StackForm' /\ Behind' = 0 /\ Passed' = {}
<1>0. PICK x : x = NodeOf(job)'  OBVIOUS
<1>1. src \in Programs /\ job' \in Job  BY DEF TypeOK
<1>2. x \in Node /\ x.fn = job'.fn  BY <1>0, <1>1 DEF NodeOf, Node, Job
<1>3. Body(x) \in Seq(Call) /\ Body(x)' = Body(x) /\ stack' = Body(x)
      /\ \A i : Callee(x, i)' = Callee(x, i)
  BY <1>0, <1>1, <1>2, BodyTyped, Frozen
<1>4. Len(stack') \in Nat /\ Behind' = 0  BY <1>0, <1>3 DEF Behind
<1>5. ASSUME NEW j \in 1..Len(stack')
      PROVE  Ends'[<<job'.fn.dir, stack'[j]>>] = Callee(NodeOf(job), Behind + j)'
  <2>1. Behind' + j = j  BY <1>4
  <2>2. Ends[<<job'.fn.dir, stack'[j]>>] = Callee(x, j)
    BY <1>2, <1>3 DEF Callee
  <2> QED  BY <1>0, <1>3, <2>1, <2>2, Frozen
<1>6. (Len(stack) <= Len(Body(NodeOf(job))))'  BY <1>0, <1>3, <1>4
<1>7. StackForm'  BY <1>5, <1>6 DEF StackForm
<1>8. 1..Behind' = {}  BY <1>4
<1>9. Passed' = {}  BY <1>0, <1>8 DEF Passed
<1> QED  BY <1>4, <1>7, <1>9

LEMMA StartedMethod ==
    ASSUME TypeOK, TypeOK', StartMethod
    PROVE  LET d == Head(methods)[1]
               t == Head(methods)[2]
           IN  /\ job' # NoJob /\ MethodForm(job)' /\ JobPhase' /\ StackForm' /\ Passed' = {}
               /\ NodeOf(job)' = NodeFor(<<d, t>>) /\ IsMethod(NodeOf(job)')
               /\ phase = "named" /\ job = NoJob
               /\ UNCHANGED <<src, phase, decl, funcs>> /\ UNCHANGED <<named, anon>>
<1> DEFINE d == Head(methods)[1]
           t == Head(methods)[2]
<1>1. methods \in Seq(Need) /\ methods # <<>> /\ src \in Programs  BY DEF StartMethod, TypeOK
<1>2. d \in Dir /\ t \in Type  BY <1>1, HeadTailProperties DEF Need
<1>3. /\ job' = [fn |-> Method(d, t), type |-> t, calls |-> {}] /\ stack' = MethodBody(d, t)
      /\ phase = "named" /\ phase' = "named" /\ job = NoJob
      /\ UNCHANGED <<src, phase, decl, funcs>> /\ UNCHANGED <<named, anon>>
  BY DEF StartMethod
<1> HIDE DEF d, t
<1>4. job' # NoJob
  BY <1>1, <1>2, <1>3, MethodTyped, NoJobAssumption DEF Job
<1>5. PICK m : m = Method(d, t) /\ m.dir = d /\ m.type = t
  <2>1. Method(d, t).dir = d /\ Method(d, t).type = t  BY DEF Method
  <2> QED  BY <2>1
<1>6. NodeOf(job)' = [fn |-> m, type |-> t]  BY <1>3, <1>5 DEF NodeOf
<1>7. t # NoType  BY <1>2, SentinelAssumption
<1>8. MethodForm(job)' /\ JobPhase'
  BY <1>3, <1>5, <1>7, Frozen DEF MethodForm, IsMethod, JobPhase
<1>9. stack' = Body(NodeOf(job)')
  BY <1>3, <1>5, <1>6, <1>7 DEF Body, IsMethod
<1>10. NodeOf(job)' = NodeFor(<<d, t>>) /\ IsMethod(NodeOf(job)')
  BY <1>5, <1>6, <1>7 DEF NodeFor, IsMethod
<1> QED  BY <1>3, <1>4, <1>8, <1>9, <1>10, Begun DEF d, t

LEMMA StartedAnon ==
    ASSUME TypeOK, TypeOK', StartAnon
    PROVE  LET a == anonRound.items[anonRound.pos]
           IN  /\ job' # NoJob /\ MethodForm(job)' /\ JobPhase' /\ StackForm' /\ Passed' = {}
               /\ Behind' = 0
               /\ NodeOf(job)' = AnonNode(phase, a) /\ ~IsMethod(NodeOf(job)')
               /\ phase \in Dir /\ job = NoJob /\ anonRound.pos \in DOMAIN anonRound.items
               /\ anonRound' = [anonRound EXCEPT !.pos = @ + 1]
               /\ UNCHANGED <<src, phase, decl, funcs, anonNeeds>> /\ UNCHANGED named
<1> DEFINE a == anonRound.items[anonRound.pos]
<1>1. /\ anonRound \in Rounds /\ src \in Programs  BY DEF TypeOK, Rounds
<1>2. /\ job' = [fn |-> AnonFn(phase, a.name), type |-> a.type, calls |-> {}]
      /\ stack' = Fields(a.type, a.name) /\ phase \in Dir /\ job = NoJob
      /\ anonRound.pos <= Len(anonRound.items)
      /\ anonRound' = [anonRound EXCEPT !.pos = @ + 1]
      /\ UNCHANGED <<src, phase, decl, funcs, anonNeeds>> /\ UNCHANGED named
  BY DEF StartAnon
<1>3. /\ anonRound.items \in Seq(Anon) /\ anonRound.pos \in Nat \ {0}
      /\ anonRound.pos \in DOMAIN anonRound.items
  BY <1>1, <1>2 DEF Rounds
<1>4. a.name \in Name /\ a.type \in Type
  <2>1. PICK s, i : s = anonRound.items /\ i = anonRound.pos  OBVIOUS
  <2>2. s[i] \in Anon  BY <1>3, <2>1
  <2> QED  BY <2>1, <2>2 DEF Anon
<1> HIDE DEF a
<1>5. PICK m : m = AnonFn(phase, a.name) /\ m.dir = phase /\ m.type = NoType /\ m.name = a.name
  <2>1. LET m == AnonFn(phase, a.name)
        IN  m.dir = phase /\ m.type = NoType /\ m.name = a.name
    BY DEF AnonFn
  <2> QED  BY <2>1
<1>6. job' # NoJob
  <2>1. m \in FnId  BY <1>2, <1>4, <1>5 DEF AnonFn, FnId
  <2> QED  BY <1>2, <1>4, <1>5, <2>1, NoJobAssumption DEF Job
<1>7. NodeOf(job)' = [fn |-> m, type |-> a.type]  BY <1>2, <1>5 DEF NodeOf
<1>8. ~IsMethod(NodeOf(job)')  BY <1>5, <1>7 DEF IsMethod
<1>9. MethodForm(job)' /\ JobPhase'
  BY <1>2, <1>5 DEF MethodForm, IsMethod, JobPhase, AnonFn
<1>10. stack' = Body(NodeOf(job)')
  BY <1>2, <1>5, <1>7, <1>8 DEF Body
<1>11. NodeOf(job)' = AnonNode(phase, a)  BY <1>5, <1>7 DEF AnonNode
<1> QED  BY <1>2, <1>3, <1>6, <1>8, <1>9, <1>10, <1>11, Begun DEF a

LEMMA ShapeStep == TypeOK /\ TypeOK' /\ Bookkeeping /\ Shape /\ [Next]_vars => Shape'
<1> SUFFICES ASSUME TypeOK, TypeOK', Bookkeeping, Shape, [Next]_vars, phase' # "panic"
             PROVE  Shape'
    BY DEF Shape
<1>0. src' = src  BY StepShape
<1>1. \A f : MethodForm(f)' <=> MethodForm(f)  BY <1>0, Frozen DEF MethodForm, IsMethod
<1>2. ASSUME phase # "panic", funcs' = funcs,
             job' # NoJob => MethodForm(job)' /\ JobPhase' /\ StackForm'
      PROVE  Shape'
  BY <1>1, <1>2 DEF Shape
<1>3. ASSUME phase # "panic", job # NoJob
      PROVE  MethodForm(job) /\ JobPhase /\ StackForm
  BY <1>3 DEF Shape
<1>4. CASE RenderDescend \/ RenderPod
  <2>1. phase # "panic" /\ job # NoJob
    BY <1>4 DEF RenderDescend, RenderPod, Rendering, control
  <2> QED  BY <1>1, <1>2, <1>3, <1>4, <2>1, StoodFor DEF JobPhase, IsMethod
<1>5. CASE RenderCall \/ RenderAnon \/ RenderLeaf
  <2>1. phase # "panic"  BY <1>5 DEF RenderCall, RenderAnon, RenderLeaf, control
  <2>2. /\ job # NoJob /\ MethodForm(job)' /\ StackForm' /\ job'.fn = job.fn
        /\ phase' = phase /\ funcs' = funcs
    BY <1>3, <1>5, <2>1, Answered
  <2>3. JobPhase'  BY <1>3, <2>1, <2>2 DEF JobPhase, IsMethod
  <2> QED  BY <1>2, <2>1, <2>2, <2>3
<1>6. CASE StartMethod
  <2>1. funcs' = funcs /\ phase = "named"  BY <1>6, StartedMethod
  <2> QED  BY <1>2, <1>6, <2>1, StartedMethod
<1>7. CASE StartAnon
  <2>1. funcs' = funcs /\ phase \in Dir  BY <1>7, StartedAnon
  <2> QED  BY <1>2, <1>7, <2>1, StartedAnon DEF Dir
<1>8. CASE Emit
  <2>1. phase # "panic" /\ job # NoJob /\ job' = NoJob
    BY <1>8 DEF Emit, Rendered, Running
  <2>2. MethodForm(job)  BY <1>3, <2>1
  <2>3. ASSUME NEW i \in 1..(Len(funcs) + 1) PROVE MethodForm(funcs'[i])
    <3>1. CASE i \in 1..Len(funcs)
      BY <1>8, <2>1, <3>1, EmitShape DEF Shape
    <3>2. CASE i = Len(funcs) + 1
      BY <1>8, <2>2, <3>2, EmitShape
    <3>3. Len(funcs) \in Nat  BY <1>8, EmitShape
    <3> QED  BY <3>1, <3>2, <3>3
  <2>4. \A i \in DOMAIN funcs' : MethodForm(funcs'[i])  BY <1>8, <2>3, EmitShape
  <2>5. \A i \in DOMAIN funcs' : (MethodForm(funcs[i]))'
    BY <1>0, <2>4, Frozen DEF MethodForm, IsMethod
  <2> QED  BY <2>1, <2>5 DEF Shape
<1>9. CASE QueueByMacros \/ BeginNamed \/ PickType \/ NextTypeRound \/ EndNamed
  <2>1. phase # "panic" /\ job = NoJob /\ job' = NoJob /\ funcs' = funcs
    BY <1>9
    DEF QueueByMacros, BeginNamed, PickType, NextTypeRound, EndNamed, Idle, Bookkeeping
  <2> QED  BY <1>2, <2>1
<1>10. CASE NextAnonRound \/ EndAnon
  <2>1. phase # "panic" /\ job = NoJob /\ job' = NoJob /\ funcs' = funcs
    BY <1>10 DEF NextAnonRound, EndAnon, AnonRoundOver, Dir
  <2> QED  BY <1>2, <2>1
<1>11. CASE UNCHANGED vars
  <2>1. /\ job' = job /\ stack' = stack /\ funcs' = funcs /\ phase' = phase
        /\ NodeOf(job)' = NodeOf(job)
    BY <1>11 DEF vars, NodeOf
  <2>2. PICK x : x = NodeOf(job) /\ NodeOf(job)' = x  BY <2>1
  <2>3. Body(x)' = Body(x) /\ Behind' = Behind  BY <1>0, <2>1, <2>2, Frozen DEF Behind
  <2>4. StackForm => StackForm'
    BY <1>0, <2>1, <2>2, <2>3, Frozen DEF StackForm
  <2> QED  BY <1>1, <1>2, <1>3, <2>1, <2>4 DEF JobPhase, IsMethod
<1>12. ~Fail  BY DEF Fail
<1> QED
  BY <1>4, <1>5, <1>6, <1>7, <1>8, <1>9, <1>10, <1>11, <1>12
  DEF Next, Step, Terminated, MacroPanic, GeneratePanic, RenderPanic, EmitPanic

(* Every call still to render stands for the field of the body it came of, *)
(* whatever named types, pointers and POD types it has gone through.       *)
THEOREM ShapeInvariant == Spec => []Shape
<1>1. Init => Shape  BY DEF Init, Shape
<1> QED  BY <1>1, ShapeStep, TypeCorrect, BookkeepingInvariant, PTL DEF Spec

(* What the seen map asks for; everything called so far is there, and it   *)
(* is in every set that a reader of the comments would come to.            *)
Wanted == {NodeFor(n) : n \in seenTypes}

Early == phase \in {"macros", "named"}

MethodsWanted ==
    /\ phase = "macros" => \A i \in 1..(decl - 1) : MacroNeeds(src.decls[i]) \subseteq seenTypes
    /\ phase = "named" => Asked \subseteq Wanted
    /\ Early => MethodsIn(CalledBy(Made) \cup Passed) \subseteq Wanted
    /\ phase \in {"Scan", "Value", "done"} => ReachableMethods(MethodsIn(Made))

NoMethodExtra ==
    \A nodes \in SUBSET Node : ReachableMethods(nodes) =>
        MethodsIn(Made) \subseteq nodes /\ (Early => Wanted \subseteq nodes)

LEMMA MadeShape ==
    /\ funcs' = funcs => Made' = Made
    /\ TypeOK /\ Emit => Made' = Made \cup {NodeOf(job)}
<1>1. funcs' = funcs => Made' = Made  BY DEF Made
<1>2. ASSUME TypeOK, Emit PROVE Made' = Made \cup {NodeOf(job)}
  <2>1. /\ DOMAIN funcs = 1..Len(funcs) /\ DOMAIN funcs' = 1..(Len(funcs) + 1)
        /\ funcs'[Len(funcs) + 1] = job /\ Len(funcs) \in Nat
        /\ \A i \in 1..Len(funcs) : funcs'[i] = funcs[i]
    BY <1>2, EmitShape
  <2>2. Made = {NodeOf(funcs[i]) : i \in 1..Len(funcs)}  BY <2>1 DEF Made, NodeOf
  <2>3. Made' = {NodeOf(funcs'[i]) : i \in 1..(Len(funcs) + 1)}  BY <2>1 DEF Made, NodeOf
  <2>4. 1..(Len(funcs) + 1) = (1..Len(funcs)) \cup {Len(funcs) + 1}  BY <2>1
  <2> HIDE DEF NodeOf
  <2> QED  BY <2>1, <2>2, <2>3, <2>4
<1> QED  BY <1>1, <1>2

LEMMA CalledByKept ==
    ASSUME src' = src
    PROVE  /\ \A S : CalledBy(S)' = CalledBy(S)
           /\ \A S : ReachableMethods(S)' <=> ReachableMethods(S)
           /\ \A n : NodeFor(n)' = NodeFor(n)
<1>1. \A S : CalledBy(S)' = CalledBy(S)  BY Frozen DEF CalledBy
<1>2. \A S : ReachableMethods(S)' <=> ReachableMethods(S)
  BY <1>1, Frozen DEF ReachableMethods, MethodsIn, IsMethod
<1> QED  BY <1>1, <1>2, Frozen DEF NodeFor

LEMMA WantedShape ==
    ASSUME src' = src
    PROVE  /\ Wanted' = {NodeFor(n) : n \in seenTypes'}
           /\ seenTypes \subseteq seenTypes' => Wanted \subseteq Wanted'
           /\ seenTypes' = seenTypes => Wanted' = Wanted
BY CalledByKept DEF Wanted

(* The last call of a body has been answered.                              *)
LEMMA AllPassed ==
    ASSUME TypeOK, Shape, phase # "panic", Emit
    PROVE  /\ Passed = Callees(NodeOf(job)) /\ Passed' = {}
           /\ job # NoJob /\ job' = NoJob /\ src' = src /\ phase' = phase
           /\ MethodForm(job) /\ JobPhase
           /\ CalledBy(Made)' = CalledBy(Made) \cup Passed
<1>1. /\ job # NoJob /\ stack = <<>> /\ job' = NoJob /\ src' = src /\ phase' = phase
      /\ MethodForm(job) /\ JobPhase
  BY DEF Emit, Rendered, Shape
<1>2. PICK x : x = NodeOf(job)  OBVIOUS
<1>3. Behind = Len(Body(x)) /\ DOMAIN Body(x) = 1..Len(Body(x))
  BY <1>1, <1>2, JobNode, EmptySeq DEF Behind
<1>4. Passed = Callees(x) /\ Passed' = {}  BY <1>1, <1>2, <1>3 DEF Passed, Callees
<1>5. Made' = Made \cup {x}  BY <1>2, MadeShape
<1>6. CalledBy(Made') = CalledBy(Made) \cup Callees(x)  BY <1>5 DEF CalledBy
<1>7. CalledBy(Made)' = CalledBy(Made')  BY <1>1, Frozen DEF CalledBy
<1> QED  BY <1>1, <1>2, <1>4, <1>6, <1>7

LEMMA EmittedMethods ==
    ASSUME TypeOK, Shape, phase # "panic"
    PROVE  MethodsIn(Made) = {NodeFor(n) : n \in EmittedNeeds} /\ Made \in SUBSET Node
<1>0. funcs \in Seq(Job) /\ \A i \in DOMAIN funcs : funcs[i] \in Job /\ MethodForm(funcs[i])
  BY DEF TypeOK, Shape
<1>1. Made \in SUBSET Node  BY <1>0 DEF Made, Node, Job
<1>2. ASSUME NEW n \in EmittedNeeds PROVE NodeFor(n) \in MethodsIn(Made)
  <2>1. PICK m : m = Method(n[1], n[2])  OBVIOUS
  <2>2. m.type = n[2] /\ m.dir = n[1] /\ n[2] \in Type  BY <2>1 DEF Method, EmittedNeeds, Need
  <2>3. PICK i \in DOMAIN funcs : funcs[i].fn = m  BY <2>1 DEF EmittedNeeds, Emitted
  <2>4. n[2] # NoType  BY <2>2, SentinelAssumption
  <2>5. funcs[i].type = n[2]
    <3>1. PICK f : f = funcs[i]  OBVIOUS
    <3>2. MethodForm(f) /\ IsMethod(f) /\ f.fn.type = n[2]
      BY <1>0, <2>2, <2>3, <2>4, <3>1 DEF IsMethod
    <3>3. f.fn = Method(f.fn.dir, f.type)  BY <3>2 DEF MethodForm
    <3>4. Method(f.fn.dir, f.type).type = f.type  BY DEF Method
    <3> QED  BY <3>1, <3>2, <3>3, <3>4
  <2> QED  BY <2>1, <2>2, <2>3, <2>4, <2>5 DEF NodeFor, MethodsIn, Made, IsMethod
<1>3. ASSUME NEW x \in MethodsIn(Made) PROVE \E n \in EmittedNeeds : x = NodeFor(n)
  <2>1. PICK i \in DOMAIN funcs : x = [fn |-> funcs[i].fn, type |-> funcs[i].type]
    BY <1>3 DEF MethodsIn, Made
  <2>2. PICK f : f = funcs[i]  OBVIOUS
  <2>3. f \in Job /\ f.fn = Method(f.fn.dir, f.type) /\ f.fn.dir \in Dir /\ f.type \in Type
    BY <1>0, <1>3, <2>1, <2>2 DEF MethodForm, IsMethod, MethodsIn, Job, FnId
  <2>4. PICK n : n = <<f.fn.dir, f.type>>  OBVIOUS
  <2>5. n \in Need /\ n[1] = f.fn.dir /\ n[2] = f.type  BY <2>3, <2>4 DEF Need
  <2>6. Method(n[1], n[2]) \in Emitted  BY <2>2, <2>3, <2>5 DEF Emitted
  <2>7. x = NodeFor(n)  BY <2>1, <2>2, <2>3, <2>5 DEF NodeFor
  <2> QED  BY <2>5, <2>6, <2>7 DEF EmittedNeeds
<1> QED  BY <1>1, <1>2, <1>3

LEMMA MethodsWantedKept ==
    ASSUME MethodsWanted, UNCHANGED <<src, phase, decl, funcs>>, seenTypes \subseteq seenTypes',
           Early => MethodsIn(Passed') \subseteq MethodsIn(Passed) \cup Wanted'
    PROVE  MethodsWanted'
<1>1. /\ Wanted \subseteq Wanted' /\ Made' = Made /\ Asked' = Asked
      /\ \A S : CalledBy(S)' = CalledBy(S) /\ (ReachableMethods(S)' <=> ReachableMethods(S))
  BY WantedShape, MadeShape, CalledByKept, Frozen
<1>2. phase = "macros" => \A i \in 1..(decl - 1) : MacroNeeds(src.decls[i]) \subseteq seenTypes'
  BY DEF MethodsWanted
<1>3. phase = "named" => Asked \subseteq Wanted'  BY <1>1 DEF MethodsWanted
<1>4. Early => MethodsIn(CalledBy(Made) \cup Passed') \subseteq Wanted'
  BY <1>1 DEF MethodsWanted, MethodsIn
<1>5. \A i : MacroNeeds(src.decls[i])' = MacroNeeds(src.decls[i])
  BY DEF MacroNeeds, BadSpecs
<1>6. (CalledBy(Made))' = CalledBy(Made)  BY <1>1
<1>7. ReachableMethods(MethodsIn(Made))' <=> ReachableMethods(MethodsIn(Made))
  BY <1>1 DEF MethodsIn
<1> QED  BY <1>1, <1>2, <1>3, <1>4, <1>5, <1>6, <1>7 DEF MethodsWanted, Early, MethodsIn, IsMethod

LEMMA MethodsWantedStep ==
    ASSUME TypeOK, TypeOK', Bookkeeping, Shape, MethodsWanted, [Next]_vars
    PROVE  MethodsWanted'
<1> SUFFICES ASSUME phase' # "panic" PROVE MethodsWanted'
    BY DEF MethodsWanted, Early
<1>0. src' = src /\ seenTypes \subseteq seenTypes'  BY StepShape
<1>1. CASE RenderDescend \/ RenderPod
  <2>1. phase # "panic"  BY <1>1 DEF RenderDescend, RenderPod, control
  <2> QED  BY <1>0, <1>1, <2>1, StoodFor, MethodsWantedKept
<1>2. CASE RenderCall \/ RenderAnon \/ RenderLeaf
  <2> DEFINE d == job.fn.dir
             c == Head(stack)
  <2>1. phase # "panic"  BY <1>2 DEF RenderCall, RenderAnon, RenderLeaf, control
  <2>2. Passed' = Passed \cup Called(d, c) /\ UNCHANGED <<src, phase, decl, methods, funcs>>
    BY <1>2, <2>1, Answered
  <2>3. MethodsIn(Called(d, c)) \subseteq Wanted'
    <3>1. CASE RenderCall
      <4>1. Queue(IF GetsMethod(d, c.type) THEN {<<d, c.type>>} ELSE {}) /\ CallsMethod(d, c.type)
        BY <3>1 DEF RenderCall
      <4>2. KindOf(c.type) # "struct"  BY <4>1 DEF CallsMethod
      <4>3. CASE GetsMethod(d, c.type)
        <5>1. PICK n : n = <<d, c.type>>  OBVIOUS
        <5>2. n \in seenTypes' /\ n[1] = d /\ n[2] = c.type  BY <4>1, <4>3, <5>1 DEF Queue
        <5>3. Called(d, c) = {NodeFor(n)}
          BY <4>1, <4>2, <4>3, <5>2 DEF Called, NodeFor, GetsMethod
        <5>4. NodeFor(n) \in Wanted'  BY <1>0, <5>2, WantedShape
        <5> QED  BY <5>3, <5>4 DEF MethodsIn
      <4>4. CASE ~GetsMethod(d, c.type)
        BY <4>2, <4>4 DEF Called, GetsMethod, MethodsIn
      <4> QED  BY <4>3, <4>4
    <3>2. CASE RenderAnon
      <4>1. KindOf(c.type) = "struct"  BY <3>2 DEF RenderAnon
      <4>2. Called(d, c) = {[fn |-> AnonFn(d, c.name), type |-> c.type]}  BY <4>1 DEF Called
      <4> QED  BY <4>2 DEF MethodsIn, IsMethod, AnonFn
    <3>3. CASE RenderLeaf
      <4>1. Called(d, c) = {}
        BY <3>3 DEF RenderLeaf, RenderedBasics, Leaf, HasPod, Called, CallsMethod
      <4> QED  BY <4>1 DEF MethodsIn
    <3> QED  BY <1>2, <3>1, <3>2, <3>3
  <2> HIDE DEF d, c
  <2>4. MethodsIn(Passed') \subseteq MethodsIn(Passed) \cup Wanted'
    BY <2>2, <2>3 DEF MethodsIn
  <2> QED  BY <1>0, <2>2, <2>4, MethodsWantedKept
<1>3. CASE StartMethod
  <2>1. Passed' = {} /\ UNCHANGED <<src, phase, decl, funcs>>  BY <1>3, StartedMethod
  <2> QED  BY <1>0, <2>1, MethodsWantedKept DEF MethodsIn
<1>4. CASE StartAnon
  <2>1. Passed' = {} /\ UNCHANGED <<src, phase, decl, funcs>>  BY <1>4, StartedAnon
  <2> QED  BY <1>0, <2>1, MethodsWantedKept DEF MethodsIn
<1>5. CASE Emit
  <2>1. phase # "panic"  BY <1>5 DEF Emit, Rendered, Running
  <2>2. /\ Passed' = {} /\ phase' = phase /\ JobPhase /\ MethodForm(job)
        /\ CalledBy(Made)' = CalledBy(Made) \cup Passed
    BY <1>5, <2>1, AllPassed
  <2>3. Wanted' = Wanted /\ seenTypes' = seenTypes /\ decl' = decl
    BY <1>0, <1>5, WantedShape DEF Emit, named
  <2>4. Early => (MethodsIn(CalledBy(Made) \cup Passed))' \subseteq Wanted
    BY <2>2 DEF MethodsWanted, MethodsIn, IsMethod
  <2>5. ASSUME phase \in {"Scan", "Value", "done"} PROVE ReachableMethods(MethodsIn(Made))'
    <3>1. ~IsMethod(NodeOf(job))  BY <2>2, <2>5 DEF JobPhase, NodeOf, IsMethod
    <3>2. MethodsIn(Made') = MethodsIn(Made)
      BY <1>5, <3>1, MadeShape DEF MethodsIn
    <3>3. ReachableMethods(MethodsIn(Made'))  BY <2>5, <3>2 DEF MethodsWanted
    <3> QED  BY <1>0, <3>3, CalledByKept DEF MethodsIn, IsMethod
  <2>6. \A i : MacroNeeds(src.decls[i])' = MacroNeeds(src.decls[i])
    BY <1>0 DEF MacroNeeds, BadSpecs
  <2>7. phase # "macros"  BY <2>2 DEF JobPhase, Dir
  <2> QED
    BY <1>0, <2>2, <2>3, <2>4, <2>5, <2>7, Frozen DEF MethodsWanted, Early
<1>6. CASE QueueByMacros
  <2>1. /\ phase = "macros" /\ phase' = "macros" /\ decl' = decl + 1 /\ funcs' = funcs
        /\ job' = job /\ Queue(MacroNeeds(src.decls[decl])) /\ decl \in Nat
    BY <1>6 DEF QueueByMacros, TypeOK
  <2>2. job = NoJob  BY <2>1 DEF Bookkeeping, Idle
  <2>3. Passed' = {} /\ Passed = {}  BY <2>1, <2>2 DEF Passed
  <2>4. ASSUME NEW i \in 1..decl PROVE MacroNeeds(src.decls[i]) \subseteq seenTypes'
    <3>1. CASE i = decl
      BY <2>1, <3>1 DEF Queue
    <3>2. CASE i # decl
      <4>1. i \in 1..(decl - 1)  BY <2>1, <3>2
      <4> QED  BY <1>0, <2>1, <4>1 DEF MethodsWanted
    <3> QED  BY <3>1, <3>2
  <2>5. \A i : MacroNeeds(src.decls[i])' = MacroNeeds(src.decls[i])
    BY <1>0 DEF MacroNeeds, BadSpecs
  <2>6. \A i \in 1..(decl' - 1) : MacroNeeds(src.decls[i])' \subseteq seenTypes'
    BY <2>1, <2>4, <2>5
  <2>7. CalledBy(Made)' = CalledBy(Made)
    BY <1>0, <2>1, MadeShape, CalledByKept
  <2>8. (MethodsIn(CalledBy(Made) \cup Passed))' \subseteq Wanted'
    BY <1>0, <2>1, <2>3, <2>7, WantedShape DEF MethodsWanted, Early, MethodsIn, IsMethod
  <2> QED  BY <2>1, <2>6, <2>8 DEF MethodsWanted
<1>7. CASE BeginNamed
  <2>1. /\ phase = "macros" /\ phase' = "named" /\ decl > Len(src.decls) /\ funcs' = funcs
        /\ job' = job /\ seenTypes' = seenTypes /\ decl \in Nat /\ src \in Program
    BY <1>7, ProgramsAssumption DEF BeginNamed, TypeOK
  <2>2. job = NoJob  BY <2>1 DEF Bookkeeping, Idle
  <2>3. Passed' = {} /\ Passed = {}  BY <2>1, <2>2 DEF Passed
  <2>4. \A i \in DOMAIN src.decls : MacroNeeds(src.decls[i]) \subseteq seenTypes
    <3>1. DOMAIN src.decls = 1..Len(src.decls) /\ Len(src.decls) \in Nat
      BY <2>1 DEF Program
    <3> QED  BY <2>1, <3>1 DEF MethodsWanted
  <2>5. Asked \subseteq Wanted  BY <2>4 DEF Asked, Wanted, NodeFor
  <2>6. CalledBy(Made)' = CalledBy(Made)  BY <1>0, <2>1, MadeShape, CalledByKept
  <2>7. (MethodsIn(CalledBy(Made) \cup Passed))' \subseteq Wanted'
    BY <1>0, <2>1, <2>3, <2>6, WantedShape DEF MethodsWanted, Early, MethodsIn, IsMethod
  <2>8. Asked' \subseteq Wanted'  BY <1>0, <2>1, <2>5, WantedShape, Frozen
  <2> QED  BY <2>1, <2>7, <2>8 DEF MethodsWanted
<1>8. CASE PickType \/ NextTypeRound
  <2>1. UNCHANGED <<src, phase, decl, funcs>> /\ job = NoJob /\ job' = NoJob
    BY <1>8 DEF PickType, NextTypeRound, Idle
  <2>2. Passed' = {}  BY <2>1 DEF Passed
  <2> QED  BY <1>0, <2>1, <2>2, MethodsWantedKept DEF MethodsIn
<1>9. CASE EndNamed
  <2>1. /\ phase = "named" /\ phase' = "Scan" /\ funcs' = funcs /\ job = NoJob
        /\ methods = <<>> /\ round = {} /\ typeNeeds = {}
    BY <1>9 DEF EndNamed, Idle, BeginAnon
  <2>2. seenTypes = EmittedNeeds
    BY <2>1 DEF NeedsAccounted, Bookkeeping, Waiting, InHand
  <2>3. MethodsIn(Made) = Wanted  BY <2>1, <2>2, EmittedMethods DEF Wanted
  <2>4. Asked \subseteq MethodsIn(Made) /\ MethodsIn(CalledBy(Made)) \subseteq MethodsIn(Made)
    BY <2>1, <2>3 DEF MethodsWanted, Early, MethodsIn
  <2>5. ReachableMethods(MethodsIn(Made))
    BY <2>4 DEF ReachableMethods, CalledBy, MethodsIn
  <2>6. ReachableMethods(MethodsIn(Made))'
    BY <1>0, <2>1, <2>5, MadeShape, CalledByKept DEF MethodsIn, IsMethod
  <2> QED  BY <2>1, <2>6 DEF MethodsWanted, Early
<1>10. CASE EndAnon
  <2>1. phase \in Dir /\ phase' \in {"Value", "done"} /\ funcs' = funcs
    BY <1>10 DEF EndAnon, AnonRoundOver, BeginAnon
  <2>2. ReachableMethods(MethodsIn(Made))  BY <2>1 DEF MethodsWanted, Dir
  <2>3. ReachableMethods(MethodsIn(Made))'
    BY <1>0, <2>1, <2>2, MadeShape, CalledByKept DEF MethodsIn, IsMethod
  <2> QED  BY <2>1, <2>3 DEF MethodsWanted, Early
<1>11. CASE NextAnonRound
  <2>1. UNCHANGED <<src, phase, decl, funcs>> /\ job = NoJob /\ job' = NoJob
    BY <1>11 DEF NextAnonRound, AnonRoundOver
  <2>2. Passed' = {}  BY <2>1 DEF Passed
  <2> QED  BY <1>0, <2>1, <2>2, MethodsWantedKept DEF MethodsIn
<1>12. CASE UNCHANGED vars
  <2>1. UNCHANGED <<src, phase, decl, funcs, job, stack>> /\ NodeOf(job)' = NodeOf(job)
    BY <1>12 DEF vars, NodeOf
  <2>2. PICK x : x = NodeOf(job) /\ NodeOf(job)' = x  BY <2>1
  <2>3. Body(x)' = Body(x) /\ Behind' = Behind  BY <1>0, <2>1, <2>2, Frozen DEF Behind
  <2>4. \A i : Callee(x, i)' = Callee(x, i)  BY <1>0, Frozen
  <2>5. Passed' = Passed  BY <2>1, <2>2, <2>3, <2>4 DEF Passed
  <2> QED  BY <1>0, <2>1, <2>5, MethodsWantedKept
<1>13. ~Fail  BY DEF Fail
<1> QED
  BY <1>1, <1>2, <1>3, <1>4, <1>5, <1>6, <1>7, <1>8, <1>9, <1>10, <1>11, <1>12, <1>13
  DEF Next, Step, Terminated, MacroPanic, GeneratePanic, RenderPanic, EmitPanic

LEMMA EarlyBefore ==
    ASSUME TypeOK, [Next]_vars
    PROVE  Early' => Early
<1> USE DEF Early
<1>1. phase' = phase \/ phase \in {"macros", "named"} \/ phase' \in {"Scan", "Value", "done", "panic"}
  <2>1. CASE RenderDescend \/ RenderPod \/ RenderCall \/ RenderAnon \/ RenderLeaf
    BY <2>1 DEF RenderDescend, RenderPod, RenderCall, RenderAnon, RenderLeaf, control
  <2>2. CASE RenderPanic \/ MacroPanic \/ GeneratePanic \/ EmitPanic
    BY <2>2 DEF RenderPanic, MacroPanic, GeneratePanic, EmitPanic, Fail
  <2>3. CASE QueueByMacros \/ BeginNamed \/ PickType \/ StartMethod
    BY <2>3 DEF QueueByMacros, BeginNamed, PickType, StartMethod
  <2>4. CASE Emit \/ NextTypeRound \/ EndNamed
    BY <2>4 DEF Emit, NextTypeRound, EndNamed
  <2>5. CASE StartAnon \/ NextAnonRound \/ EndAnon \/ UNCHANGED vars
    BY <2>5 DEF StartAnon, NextAnonRound, EndAnon, BeginAnon, vars
  <2> QED  BY <2>1, <2>2, <2>3, <2>4, <2>5 DEF Next, Step, Terminated
<1> QED  BY <1>1

(* The method in work is one that was asked for.                           *)
LEMMA JobWanted ==
    ASSUME TypeOK, Bookkeeping, Shape, phase # "panic", job # NoJob, IsMethod(job)
    PROVE  phase = "named" /\ NodeOf(job) \in Wanted
<1>1. phase = "named" /\ job \in Job /\ job.fn = Method(job.fn.dir, job.type)
  <2>1. MethodForm(job) /\ JobPhase /\ job \in Job  BY DEF Shape, TypeOK
  <2> QED  BY <2>1 DEF MethodForm, JobPhase
<1>2. PICK n : n = <<job.fn.dir, job.type>>  OBVIOUS
<1>3. n \in Need /\ n[1] = job.fn.dir /\ n[2] = job.type
  BY <1>1, <1>2 DEF Need, Job, FnId
<1>4. n \in InHand  BY <1>1, <1>3 DEF InHand
<1>5. n \in seenTypes  BY <1>4 DEF Bookkeeping, NeedsAccounted
<1>6. NodeOf(job) = NodeFor(n)  BY <1>1, <1>3 DEF NodeOf, NodeFor
<1> QED  BY <1>1, <1>5, <1>6 DEF Wanted

(* Nothing but what the comments lead to is asked for or made.             *)
LEMMA NoMethodExtraStep ==
    ASSUME TypeOK, TypeOK', Bookkeeping, Shape, NoMethodExtra, [Next]_vars
    PROVE  NoMethodExtra'
<1>0. src' = src /\ (funcs' = funcs \/ Emit)  BY StepShape
<1> SUFFICES ASSUME NEW nodes \in SUBSET Node, ReachableMethods(nodes)
             PROVE  MethodsIn(Made)' \subseteq nodes /\ (Early' => Wanted' \subseteq nodes)
  BY <1>0, CalledByKept DEF NoMethodExtra, Node
<1>1. MethodsIn(Made) \subseteq nodes /\ (Early => Wanted \subseteq nodes)
  BY DEF NoMethodExtra
<1>2. MethodsIn(Made)' \subseteq nodes
  <2>1. CASE funcs' = funcs
    BY <1>1, <2>1, MadeShape DEF MethodsIn, IsMethod
  <2>2. CASE Emit
    <3>1. phase # "panic" /\ job # NoJob  BY <2>2 DEF Emit, Rendered, Running
    <3>2. IsMethod(job) => NodeOf(job) \in nodes
      BY <1>1, <3>1, JobWanted DEF Early
    <3>3. IsMethod(NodeOf(job)) <=> IsMethod(job)  BY DEF NodeOf, IsMethod
    <3>4. Made' = Made \cup {NodeOf(job)}  BY <2>2, MadeShape
    <3> QED  BY <1>1, <3>2, <3>3, <3>4 DEF MethodsIn, IsMethod
  <2> QED  BY <1>0, <2>1, <2>2
<1>3. ASSUME Early', NEW n \in seenTypes' PROVE NodeFor(n) \in nodes
  <2>1. Early /\ Wanted \subseteq nodes  BY <1>1, <1>3, EarlyBefore
  <2>2. CASE n \in seenTypes
    BY <2>1, <2>2 DEF Wanted
  <2>3. CASE RenderCall /\ n \notin seenTypes
    <3> DEFINE d == job.fn.dir
               c == Head(stack)
    <3>1. Queue(IF GetsMethod(d, c.type) THEN {<<d, c.type>>} ELSE {}) /\ CallsMethod(d, c.type)
      BY <2>3 DEF RenderCall
    <3>2. n = <<d, c.type>> /\ GetsMethod(d, c.type)  BY <1>3, <2>3, <3>1 DEF Queue
    <3>3. phase # "panic"  BY <2>1 DEF Early
    <3>4. /\ Callee(NodeOf(job), Behind + 1) = Called(d, c) /\ AtCall
          /\ job # NoJob
      BY <2>3, <3>3, Answered
    <3>5. Called(d, c) = {NodeFor(n)}
      BY <3>1, <3>2 DEF Called, NodeFor, GetsMethod, CallsMethod
    <3> HIDE DEF d, c
    <3>6. phase \notin Dir  BY <2>1 DEF Early, Dir
    <3>7. JobPhase  BY <3>3, <3>4 DEF Shape
    <3>8. NodeOf(job) \in nodes
      BY <2>1, <3>3, <3>4, <3>6, <3>7, JobWanted DEF JobPhase
    <3>9. NodeFor(n) \in Callees(NodeOf(job))
      BY <3>4, <3>5 DEF Callees, AtCall
    <3>10. NodeFor(n) \in CalledBy(nodes)  BY <3>8, <3>9 DEF CalledBy
    <3>11. n[2] \in Type  BY <1>3 DEF TypeOK, Need
    <3>12. IsMethod(NodeFor(n))
      BY <3>11, SentinelAssumption DEF IsMethod, NodeFor, Method
    <3> QED  BY <3>10, <3>12 DEF ReachableMethods, MethodsIn
  <2>4. CASE QueueByMacros /\ n \notin seenTypes
    <3>1. /\ Queue(MacroNeeds(src.decls[decl])) /\ decl <= Len(src.decls)
      BY <2>4 DEF QueueByMacros
    <3>2. src \in Program /\ decl \in Nat \ {0}
      BY ProgramsAssumption DEF TypeOK
    <3>3. decl \in DOMAIN src.decls  BY <3>1, <3>2 DEF Program
    <3>4. n \in MacroNeeds(src.decls[decl])  BY <1>3, <2>4, <3>1 DEF Queue
    <3>5. NodeFor(n) \in Asked  BY <3>3, <3>4 DEF Asked, NodeFor
    <3> QED  BY <3>5 DEF ReachableMethods
  <2>5. CASE seenTypes' = seenTypes
    BY <1>3, <2>2, <2>5
  <2> QED  BY <2>2, <2>3, <2>4, <2>5, SeenShape
<1> QED  BY <1>0, <1>2, <1>3, WantedShape

(* The methods of the file, once no comment is left to read and no type to *)
(* visit, are exactly the ones a reader of the package would come to.      *)
THEOREM MethodsReached == Spec => [](phase = "done" => MethodsAsReachable)
<1>1. Init => MethodsWanted /\ NoMethodExtra
  <2> SUFFICES ASSUME Init PROVE MethodsWanted /\ NoMethodExtra  OBVIOUS
  <2>1. phase = "macros" /\ decl = 1 /\ Made = {} /\ Wanted = {} /\ Passed = {}
    BY DEF Init, Made, Wanted, Passed
  <2>2. MethodsIn(Made) = {} /\ MethodsIn(CalledBy(Made) \cup Passed) = {}
    BY <2>1 DEF MethodsIn, CalledBy
  <2> QED  BY <2>1, <2>2 DEF MethodsWanted, NoMethodExtra
<1>2. MethodsWanted /\ NoMethodExtra /\ TypeOK /\ Shape => (phase = "done" => MethodsAsReachable)
  <2> SUFFICES ASSUME MethodsWanted, NoMethodExtra, TypeOK, Shape, phase = "done"
               PROVE  MethodsAsReachable
    OBVIOUS
  <2>1. ReachableMethods(MethodsIn(Made))  BY DEF MethodsWanted
  <2>2. Made \in SUBSET Node  BY EmittedMethods
  <2>3. ASSUME NEW nodes \in SUBSET MethodsIn(Made), ReachableMethods(nodes)
        PROVE  nodes = MethodsIn(Made)
    <3>1. nodes \in SUBSET Node  BY <2>2 DEF MethodsIn
    <3> QED  BY <2>3, <3>1 DEF NoMethodExtra
  <2> QED  BY <2>1, <2>3 DEF MethodsAsReachable
<1>3. MethodsWanted /\ NoMethodExtra /\ TypeOK /\ TypeOK' /\ Bookkeeping /\ Shape /\ [Next]_vars
      => MethodsWanted' /\ NoMethodExtra'
  BY MethodsWantedStep, NoMethodExtraStep
<1> QED
  BY <1>1, <1>2, <1>3, TypeCorrect, BookkeepingInvariant, ShapeInvariant, PTL DEF Spec

-----------------------------------------------------------------------------
(* Where the functions of anonymous structs are: in a queue, in the part   *)
(* of the round still to read, in work, or in the file.                    *)
Queued(d) == {AnonNode(d, anonNeeds[d].items[i]) : i \in DOMAIN anonNeeds[d].items}

Unread == IF phase \in Dir
          THEN {AnonNode(phase, anonRound.items[i]) :
                    i \in anonRound.pos..Len(anonRound.items)}
          ELSE {}

Known == Queued("Scan") \cup Queued("Value") \cup Unread \cup AnonsIn(InWork)

(* What the renderers have come to, and the struct they are at.            *)
Come == CalledBy(Made) \cup Passed

Met == AnonNode(job.fn.dir, Head(stack))

LEMMA InWorkKept ==
    ASSUME funcs' = funcs, job' = NoJob <=> job = NoJob,
           job # NoJob => NodeOf(job)' = NodeOf(job)
    PROVE  InWork' = InWork
<1>1. Made' = Made  BY MadeShape
<1>2. CASE job = NoJob
  BY <1>1, <1>2 DEF InWork
<1>3. CASE job # NoJob
  <2>1. InWork = Made \cup {NodeOf(job)}  BY <1>3 DEF InWork
  <2>2. InWork' = Made' \cup {NodeOf(job)'}  BY <1>3 DEF InWork
  <2> QED  BY <1>1, <1>3, <2>1, <2>2
<1> QED  BY <1>2, <1>3

LEMMA InWorkMore ==
    ASSUME funcs' = funcs, job = NoJob, job' # NoJob
    PROVE  InWork' = InWork \cup {NodeOf(job)'}
<1>1. Made' = Made  BY MadeShape
<1>2. InWork = Made /\ InWork' = Made' \cup {NodeOf(job)'}  BY DEF InWork
<1> QED  BY <1>1, <1>2

LEMMA InWorkMade ==
    ASSUME TypeOK, Emit
    PROVE  InWork' = InWork
<1>1. Made' = Made \cup {NodeOf(job)} /\ job # NoJob /\ job' = NoJob
  BY MadeShape DEF Emit, Rendered
<1> QED  BY <1>1 DEF InWork

LEMMA ComeKept ==
    ASSUME src' = src, funcs' = funcs
    PROVE  Come' = CalledBy(Made) \cup Passed'
<1>1. CalledBy(Made)' = CalledBy(Made)  BY MadeShape, CalledByKept
<1> QED  BY <1>1 DEF Come

LEMMA NothingPassed == job = NoJob => Passed = {} /\ Come = CalledBy(Made)
BY DEF Passed, Come

(* Neither the queues nor the round are touched, and no struct is met.     *)
Quiet ==
    /\ anonNeeds' = anonNeeds /\ anonRound' = anonRound /\ Unread' = Unread
    /\ InWork \subseteq InWork' /\ AnonsIn(InWork') = AnonsIn(InWork)
    /\ Come \subseteq Come' /\ AnonsIn(Come') = AnonsIn(Come)

LEMMA QuietStep ==
    ASSUME TypeOK, TypeOK', Bookkeeping, Shape, [Next]_vars, phase' # "panic",
           ~RenderAnon, ~StartAnon, ~EndNamed, ~NextAnonRound, ~(EndAnon /\ phase = "Scan")
    PROVE  Quiet
<1>0. src' = src  BY StepShape
<1>1. ASSUME phase' = phase, UNCHANGED anon PROVE Unread' = Unread
  BY <1>1 DEF Unread, anon
<1>2. CASE RenderDescend \/ RenderPod
  <2>1. phase # "panic"  BY <1>2 DEF RenderDescend, RenderPod, control
  <2>2. Passed' = Passed /\ UNCHANGED <<phase, job, funcs>> /\ UNCHANGED anon
    BY <1>2, <2>1, StoodFor
  <2>3. InWork' = InWork /\ Come' = Come
    <3>1. NodeOf(job)' = NodeOf(job)  BY <2>2 DEF NodeOf
    <3> QED  BY <1>0, <2>2, <3>1, InWorkKept, ComeKept DEF Come
  <2> QED  BY <1>1, <2>2, <2>3 DEF Quiet, anon
<1>3. CASE RenderCall \/ RenderLeaf
  <2> DEFINE d == job.fn.dir
             c == Head(stack)
  <2>1. phase # "panic"  BY <1>3 DEF RenderCall, RenderLeaf, control
  <2>2. /\ Passed' = Passed \cup Called(d, c) /\ UNCHANGED <<phase, funcs>> /\ AtCall
        /\ job # NoJob /\ job' # NoJob /\ NodeOf(job)' = NodeOf(job)
    BY <1>3, <2>1, Answered
  <2>3. UNCHANGED anon  BY <1>3 DEF RenderCall, RenderLeaf
  <2>4. AnonsIn(Called(d, c)) = {}
    <3>1. c.type # NoType  BY <2>2, SentinelAssumption DEF AtCall, Call
    <3>2. KindOf(c.type) # "struct"
      BY <1>3 DEF RenderCall, RenderLeaf, CallsMethod, RenderedBasics, Leaf, HasPod
    <3>3. Called(d, c) \subseteq {[fn |-> Method(d, c.type), type |-> c.type]}
      BY <3>2 DEF Called
    <3> HIDE DEF c
    <3> QED  BY <3>1, <3>3 DEF AnonsIn, IsMethod, Method
  <2> HIDE DEF d, c
  <2>5. InWork' = InWork /\ Come' = Come \cup Called(d, c)
    <3>1. InWork' = InWork  BY <2>2, InWorkKept
    <3> QED  BY <1>0, <2>2, <3>1, ComeKept DEF Come
  <2> QED  BY <1>1, <2>2, <2>3, <2>4, <2>5 DEF Quiet, anon, AnonsIn
<1>4. CASE StartMethod
  <2>1. /\ job = NoJob /\ job' # NoJob /\ UNCHANGED <<phase, funcs>> /\ UNCHANGED anon
        /\ Passed' = {} /\ IsMethod(NodeOf(job)')
    BY <1>4, StartedMethod
  <2>2. InWork' = InWork \cup {NodeOf(job)'} /\ Come' = Come
    BY <1>0, <2>1, InWorkMore, ComeKept, NothingPassed
  <2> HIDE DEF IsMethod
  <2> QED  BY <1>1, <2>1, <2>2 DEF Quiet, anon, AnonsIn
<1>5. CASE Emit
  <2>1. phase # "panic" /\ UNCHANGED phase /\ UNCHANGED anon
    BY <1>5 DEF Emit, Rendered, Running
  <2>2. InWork' = InWork /\ Come' = Come
    <3>1. CalledBy(Made)' = CalledBy(Made) \cup Passed /\ Passed' = {}
      BY <1>5, <2>1, AllPassed
    <3> QED  BY <1>5, <3>1, InWorkMade DEF Come
  <2> QED  BY <1>1, <2>1, <2>2 DEF Quiet, anon
<1>6. CASE QueueByMacros \/ BeginNamed \/ PickType \/ NextTypeRound \/ EndAnon
  <2>1. /\ job = NoJob /\ job' = NoJob /\ funcs' = funcs
        /\ anonNeeds' = anonNeeds /\ anonRound' = anonRound
    <3>1. CASE EndAnon
      BY <3>1 DEF EndAnon, AnonRoundOver, Dir, anon
    <3>2. CASE QueueByMacros \/ BeginNamed \/ PickType \/ NextTypeRound
      BY <3>2
      DEF QueueByMacros, BeginNamed, PickType, NextTypeRound, Idle, Bookkeeping, anon
    <3> QED  BY <1>6, <3>1, <3>2
  <2>2. Unread = {} /\ Unread' = {}
    <3>1. CASE EndAnon
      <4>1. anonRound \in Rounds  BY DEF TypeOK, Rounds
      <4>2. anonRound.pos..Len(anonRound.items) = {}
        BY <3>1, <4>1 DEF EndAnon, AnonRoundOver, Rounds
      <4>3. phase' = "done"  BY <3>1 DEF EndAnon, AnonRoundOver, Dir
      <4> QED  BY <4>2, <4>3 DEF Unread, Dir
    <3>2. CASE QueueByMacros \/ BeginNamed \/ PickType \/ NextTypeRound
      BY <3>2
      DEF QueueByMacros, BeginNamed, PickType, NextTypeRound, Unread, Dir
    <3> QED  BY <1>6, <3>1, <3>2
  <2>3. InWork' = InWork /\ Come' = Come
    <3>1. Passed' = {}  BY <2>1 DEF Passed
    <3> QED  BY <1>0, <2>1, <3>1, InWorkKept, ComeKept, NothingPassed
  <2> QED  BY <2>1, <2>2, <2>3 DEF Quiet
<1>7. CASE UNCHANGED vars
  <2>1. UNCHANGED <<phase, decl, funcs, job, stack>> /\ UNCHANGED anon /\ NodeOf(job)' = NodeOf(job)
    BY <1>7 DEF vars, NodeOf, anon
  <2>2. PICK x : x = NodeOf(job) /\ NodeOf(job)' = x  BY <2>1
  <2>3. Body(x)' = Body(x) /\ Behind' = Behind  BY <1>0, <2>1, <2>2, Frozen DEF Behind
  <2>4. \A i : Callee(x, i)' = Callee(x, i)  BY <1>0, Frozen
  <2>5. Passed' = Passed  BY <2>1, <2>2, <2>3, <2>4 DEF Passed
  <2>6. InWork' = InWork /\ Come' = Come
    BY <1>0, <2>1, <2>5, InWorkKept, ComeKept DEF Come
  <2> QED  BY <1>1, <2>1, <2>6 DEF Quiet, anon
<1>8. ~Fail  BY DEF Fail
<1> QED
  BY <1>2, <1>3, <1>4, <1>5, <1>6, <1>7, <1>8
  DEF Next, Step, Terminated, MacroPanic, GeneratePanic, RenderPanic, EmitPanic

(* An anonymous struct is met: it goes on the queue of its direction, and, *)
(* if that shares its array with the round, over an item of the round.     *)
LEMMA MetShape ==
    ASSUME TypeOK, Shape, Bookkeeping, RenderAnon, phase # "panic"
    PROVE  /\ job.fn.dir \in Dir /\ (phase \in Dir => job.fn.dir = phase) /\ Behind \in Nat
           /\ phase # "done" /\ phase' = phase /\ src' = src /\ job # NoJob /\ job' # NoJob
           /\ NodeOf(job)' = NodeOf(job) /\ job'.fn = job.fn /\ Behind' = Behind + 1
           /\ InWork' = InWork /\ Come' = Come \cup {Met} /\ ~IsMethod(Met) /\ Met \in Node
           /\ NodeOf(job) \in InWork /\ (phase \in Dir => ~IsMethod(NodeOf(job)))
           /\ Callee(NodeOf(job), Behind + 1) = {Met}
           /\ Behind + 1 \in AnonFields(NodeOf(job)) /\ Met \in Callees(NodeOf(job))
<1> DEFINE d == job.fn.dir
           c == Head(stack)
<1>1. /\ AtCall /\ job # NoJob /\ job' # NoJob /\ NodeOf(job)' = NodeOf(job)
      /\ job'.fn = job.fn /\ Behind' = Behind + 1 /\ Passed' = Passed \cup Called(d, c)
      /\ Callee(NodeOf(job), Behind + 1) = Called(d, c)
      /\ UNCHANGED <<src, phase, decl, methods, funcs>>
  BY Answered
<1>2. JobPhase /\ job \in Job  BY <1>1 DEF Shape, TypeOK
<1>3. KindOf(c.type) = "struct"  BY DEF RenderAnon
<1>4. Called(d, c) = {Met}  BY <1>3 DEF Called, Met, AnonNode
<1>5. d \in Dir /\ c \in Call /\ c.type \in Type /\ c.name \in Name  BY <1>1 DEF AtCall, Call
<1>6. (phase \in Dir => d = phase /\ ~IsMethod(job)) /\ phase # "done"
  <2>1. AnonFn(phase, job.fn.name).dir = phase  BY DEF AnonFn
  <2>2. "named" \notin Dir  BY DEF Dir
  <2> QED  BY <1>2, <2>1, <2>2 DEF JobPhase, Dir
<1>7. ~IsMethod(Met) /\ Met \in Node
  <2>1. AnonFn(d, c.name) \in FnId /\ AnonFn(d, c.name).type = NoType
    BY <1>5 DEF AnonFn, FnId
  <2> QED  BY <1>5, <2>1 DEF Met, AnonNode, Node, IsMethod
<1>8. InWork' = InWork /\ NodeOf(job) \in InWork
  <2>1. InWork' = InWork  BY <1>1, InWorkKept
  <2> QED  BY <1>1, <2>1 DEF InWork
<1> HIDE DEF d, c
<1>9. Come' = Come \cup {Met}
  BY <1>1, <1>4, ComeKept DEF Come
<1>10. Behind + 1 \in DOMAIN Body(NodeOf(job)) /\ Behind \in Nat  BY <1>1 DEF AtCall
<1>11. Callee(NodeOf(job), Behind + 1) = {Met}  BY <1>1, <1>4
<1>12. Behind + 1 \in AnonFields(NodeOf(job))
  BY <1>7, <1>10, <1>11 DEF AnonFields, AnonsIn
<1>13. Met \in Callees(NodeOf(job))  BY <1>10, <1>11 DEF Callees
<1>14. ~IsMethod(job) => ~IsMethod(NodeOf(job))  BY DEF IsMethod, NodeOf
<1> QED
  BY <1>1, <1>5, <1>6, <1>7, <1>8, <1>9, <1>10, <1>11, <1>12, <1>13, <1>14 DEF d

LEMMA MetQueued ==
    ASSUME TypeOK, Shape, Bookkeeping, RenderAnon, phase # "panic"
    PROVE  LET d == job.fn.dir
               q == anonNeeds[d].items
               r == anonRound.items
           IN  /\ q \in Seq(Anon) /\ Head(stack) \in Anon
               /\ anonNeeds'[d].items = Append(q, Head(stack))
               /\ \A e \in Dir \ {d} : anonNeeds'[e] = anonNeeds[e]
               /\ anonRound'.pos = anonRound.pos /\ (anonRound'.shared => anonRound.shared)
               /\ Len(anonRound'.items) = Len(r) /\ Len(r) \in Nat
               /\ \A i \in 1..Len(r) :
                     \/ anonRound'.items[i] = r[i]
                     \/ /\ anonRound.shared /\ i = Len(q) + 1
                        /\ anonRound'.items[i] = Head(stack)
<1> DEFINE d == job.fn.dir
           c == Head(stack)
<1>1. d \in Dir /\ c \in Anon /\ QueueAnon(d, c)
  <2>1. Rendering /\ QueueAnon(d, c)  BY DEF RenderAnon
  <2>2. d \in Dir /\ c \in Call  BY <2>1, RenderingTyped
  <2> QED  BY <2>1, <2>2 DEF Call, Anon
<1> HIDE DEF d, c
<1>2. PICK q, r : q = anonNeeds[d] /\ r = anonRound  OBVIOUS
<1>3. /\ anonNeeds \in [Dir -> Slices] /\ q \in Slices /\ q.items \in Seq(Anon)
      /\ r \in Rounds /\ r.items \in Seq(Anon) /\ Len(r.items) \in Nat
      /\ Len(q.items) \in Nat /\ DOMAIN r.items = 1..Len(r.items)
  BY <1>1, <1>2 DEF TypeOK, Slices, Rounds
<1>4. anonNeeds'[d] = Pushed(q, c) /\ \A e \in Dir \ {d} : anonNeeds'[e] = anonNeeds[e]
  BY <1>1, <1>2, <1>3 DEF QueueAnon
<1>5. anonNeeds'[d].items = Append(q.items, c)  BY <1>4 DEF Pushed
<1>6. anonRound' = Overwritten(r, q, c)  BY <1>1, <1>2 DEF QueueAnon
<1>7. LET s == Overwritten(r, q, c)
      IN  /\ s.pos = r.pos /\ (s.shared => r.shared) /\ Len(s.items) = Len(r.items)
          /\ \A i \in 1..Len(r.items) :
                \/ s.items[i] = r.items[i]
                \/ r.shared /\ i = Len(q.items) + 1 /\ s.items[i] = c
  <2>1. CASE ~Fits(q)
    BY <1>3, <2>1 DEF Overwritten, Rounds
  <2>2. CASE Fits(q) /\ r.shared /\ Len(q.items) + 1 <= Len(r.items)
    <3>1. PICK t : t = [r.items EXCEPT ![Len(q.items) + 1] = c]  OBVIOUS
    <3>2. Overwritten(r, q, c) = [r EXCEPT !.items = t]
      BY <1>3, <2>2, <3>1 DEF Overwritten, Rounds
    <3>3. /\ t \in Seq(Anon) /\ Len(t) = Len(r.items)
          /\ \A i \in 1..Len(r.items) : t[i] = IF i = Len(q.items) + 1 THEN c ELSE r.items[i]
      BY <1>1, <1>3, <2>2, <3>1, ExceptSeq
    <3>4. LET s == Overwritten(r, q, c) IN s.items = t /\ s.pos = r.pos /\ s.shared = r.shared
      BY <1>3, <3>2 DEF Rounds
    <3> QED  BY <2>2, <3>3, <3>4
  <2>3. CASE Fits(q) /\ ~(r.shared /\ Len(q.items) + 1 <= Len(r.items))
    BY <1>3, <2>3 DEF Overwritten
  <2> QED  BY <2>1, <2>2, <2>3
<1> QED  BY <1>1, <1>2, <1>3, <1>4, <1>5, <1>6, <1>7 DEF d, c

(* The write is behind the iterator.                                       *)
Room == anonRound.shared => Len(anonNeeds[phase].items) + 1 < anonRound.pos

LEMMA MetKnown ==
    ASSUME TypeOK, Shape, Bookkeeping, RenderAnon, phase # "panic"
    PROVE  /\ \A e \in Dir : Queued(e)' = IF e = job.fn.dir THEN Queued(e) \cup {Met} ELSE Queued(e)
           /\ Unread' \subseteq Unread \cup {Met}
           /\ phase \in Dir /\ Room =>
                 \A i \in anonRound.pos..Len(anonRound.items) :
                     anonRound'.items[i] = anonRound.items[i]
           /\ (phase \in Dir => Room) => Unread' = Unread
<1>1. PICK d, c : d \in Dir /\ d = job.fn.dir /\ c = Head(stack)  BY MetShape
<1>2. phase' = phase /\ (phase \in Dir => d = phase) /\ Met = AnonNode(d, c)
  BY <1>1, MetShape DEF Met
<1>3. PICK q, r, s, p : /\ q = anonNeeds[d].items /\ r = anonRound.items
                        /\ s = anonRound'.items /\ p = anonRound.pos
  OBVIOUS
<1>4. /\ q \in Seq(Anon) /\ c \in Anon /\ anonNeeds'[d].items = Append(q, c)
      /\ \A e \in Dir \ {d} : anonNeeds'[e] = anonNeeds[e]
      /\ anonRound'.pos = p /\ Len(s) = Len(r) /\ Len(r) \in Nat
      /\ \A i \in 1..Len(r) :
            s[i] = r[i] \/ (anonRound.shared /\ i = Len(q) + 1 /\ s[i] = c)
  BY <1>1, <1>3, MetQueued
<1>5. p \in Nat \ {0}  BY <1>3 DEF TypeOK
<1>6. Queued(d)' = Queued(d) \cup {Met}
  <2>1. PICK t : t = Append(q, c)  OBVIOUS
  <2>2. /\ DOMAIN t = DOMAIN q \cup {Len(q) + 1} /\ t[Len(q) + 1] = c
        /\ \A i \in DOMAIN q : t[i] = q[i]
    <3>1. /\ DOMAIN t = 1..(Len(q) + 1) /\ DOMAIN q = 1..Len(q) /\ Len(q) \in Nat
          /\ t[Len(q) + 1] = c /\ \A i \in 1..Len(q) : t[i] = q[i]
      BY <1>4, <2>1, AppendProperties
    <3> QED  BY <3>1
  <2>3. Queued(d) = {AnonNode(d, q[i]) : i \in DOMAIN q}  BY <1>3 DEF Queued
  <2>4. Queued(d)' = {AnonNode(d, t[i]) : i \in DOMAIN t}
    BY <1>4, <2>1 DEF Queued, AnonNode, AnonFn
  <2>5. {AnonNode(d, t[i]) : i \in DOMAIN t}
        = {AnonNode(d, q[i]) : i \in DOMAIN q} \cup {AnonNode(d, c)}
    BY <2>2
  <2> QED  BY <1>2, <2>3, <2>4, <2>5
<1>7. \A e \in Dir \ {d} : Queued(e)' = Queued(e)
  BY <1>4 DEF Queued, AnonNode, AnonFn
<1>8. /\ phase \in Dir => Unread = {AnonNode(d, r[i]) : i \in p..Len(r)}
      /\ phase \in Dir => Unread' = {AnonNode(d, s[i]) : i \in p..Len(r)}
      /\ phase \notin Dir => Unread = {} /\ Unread' = {}
  BY <1>2, <1>3, <1>4 DEF Unread, AnonNode, AnonFn
<1>9. \A i \in p..Len(r) : i \in 1..Len(r)  BY <1>4, <1>5
<1>10. Unread' \subseteq Unread \cup {Met}
  BY <1>2, <1>4, <1>8, <1>9
<1>11. ASSUME phase \in Dir, Room, NEW i \in p..Len(r) PROVE s[i] = r[i]
  <2>1. anonRound.shared => Len(q) + 1 < p  BY <1>2, <1>3, <1>11 DEF Room
  <2>2. Len(q) \in Nat  BY <1>4
  <2> QED  BY <1>4, <1>5, <1>9, <1>11, <2>1, <2>2
<1>12. (phase \in Dir => Room) => Unread' = Unread  BY <1>8, <1>11
<1> QED  BY <1>1, <1>3, <1>6, <1>7, <1>10, <1>11, <1>12

(* The next struct of the round is taken.                                  *)
LEMMA Taken ==
    ASSUME TypeOK, TypeOK', StartAnon
    PROVE  /\ phase \in Dir /\ phase' = phase /\ src' = src /\ job = NoJob /\ job' # NoJob
           /\ NodeOf(job)' = AnonNode(phase, anonRound.items[anonRound.pos])
           /\ ~IsMethod(NodeOf(job)') /\ anonNeeds' = anonNeeds
           /\ anonRound'.items = anonRound.items /\ anonRound'.shared = anonRound.shared
           /\ anonRound'.pos = anonRound.pos + 1 /\ funcs' = funcs /\ Behind' = 0
           /\ anonRound.pos \in DOMAIN anonRound.items
           /\ Unread = Unread' \cup {NodeOf(job)'}
           /\ InWork' = InWork \cup {NodeOf(job)'} /\ Come' = Come
<1>1. /\ job' # NoJob /\ Passed' = {} /\ ~IsMethod(NodeOf(job)') /\ Behind' = 0
      /\ NodeOf(job)' = AnonNode(phase, anonRound.items[anonRound.pos])
      /\ phase \in Dir /\ job = NoJob /\ anonRound.pos \in DOMAIN anonRound.items
      /\ anonRound' = [anonRound EXCEPT !.pos = @ + 1]
      /\ UNCHANGED <<src, phase, decl, funcs, anonNeeds>>
  BY StartedAnon
<1>2. /\ anonRound'.items = anonRound.items /\ anonRound'.shared = anonRound.shared
      /\ anonRound'.pos = anonRound.pos + 1 /\ anonRound.pos \in Nat
      /\ Len(anonRound.items) \in Nat /\ DOMAIN anonRound.items = 1..Len(anonRound.items)
  <2>1. anonRound \in Rounds /\ anonRound.items \in Seq(Anon)  BY DEF TypeOK, Rounds
  <2> QED  BY <1>1, <2>1 DEF Rounds
<1>3. Unread = Unread' \cup {NodeOf(job)'}
  <2>1. PICK r, p, n : r = anonRound.items /\ p = anonRound.pos /\ n = Len(r)  OBVIOUS
  <2>2. p..n = ((p + 1)..n) \cup {p}  BY <1>1, <1>2, <2>1
  <2>3. Unread = {AnonNode(phase, r[i]) : i \in p..n}  BY <1>1, <2>1 DEF Unread
  <2>4. Unread' = {AnonNode(phase, r[i]) : i \in (p + 1)..n}
    BY <1>1, <1>2, <2>1 DEF Unread, AnonNode, AnonFn
  <2>5. NodeOf(job)' = AnonNode(phase, r[p])  BY <1>1, <2>1
  <2> QED  BY <2>2, <2>3, <2>4, <2>5
<1>4. InWork' = InWork \cup {NodeOf(job)'} /\ Come' = Come
  BY <1>1, InWorkMore, ComeKept, NothingPassed
<1> QED  BY <1>1, <1>2, <1>3, <1>4

(* A round is over and a queue becomes the next one.                       *)
Turned(d) ==
    /\ phase' = d /\ job = NoJob /\ job' = NoJob /\ funcs' = funcs /\ src' = src
    /\ InWork' = InWork /\ Come' = Come /\ Unread = {} /\ Unread' = Queued(d)
    /\ anonNeeds'[d].items = <<>> /\ Queued(d)' = {}
    /\ \A e \in Dir \ {d} : anonNeeds'[e] = anonNeeds[e] /\ Queued(e)' = Queued(e)
    /\ anonRound'.items = anonNeeds[d].items /\ anonRound'.pos = 1
    /\ anonRound'.shared => phase = d

LEMMA TurnedStep ==
    ASSUME TypeOK, EndNamed \/ NextAnonRound \/ (EndAnon /\ phase = "Scan")
    PROVE  \E d \in Dir : Turned(d)
<1>1. PICK d : d = phase'  OBVIOUS
<1>2. /\ d \in Dir /\ job = NoJob /\ job' = NoJob /\ funcs' = funcs /\ src' = src
      /\ phase \in Dir \/ phase = "named"
  BY <1>1 DEF EndNamed, NextAnonRound, EndAnon, AnonRoundOver, BeginAnon, Idle, Dir
<1>3. anonNeeds \in [Dir -> Slices] /\ anonRound \in Rounds  BY DEF TypeOK, Rounds
<1>4. /\ anonNeeds'[d].items = <<>>
      /\ \A e \in Dir \ {d} : anonNeeds'[e] = anonNeeds[e]
      /\ anonRound'.items = anonNeeds[d].items /\ anonRound'.pos = 1
      /\ anonRound'.shared => phase = d
  <2>1. CASE NextAnonRound
    BY <1>1, <1>2, <1>3, <2>1 DEF NextAnonRound, AnonRoundOver
  <2>2. CASE EndNamed \/ (EndAnon /\ phase = "Scan")
    <3>1. BeginAnon(d)
      BY <1>1, <2>2 DEF EndNamed, EndAnon, BeginAnon
    <3> QED  BY <1>2, <1>3, <3>1 DEF BeginAnon
  <2> QED  BY <2>1, <2>2
<1>5. Unread = {}
  <2>1. CASE phase \in Dir
    <3>1. anonRound.pos > Len(anonRound.items)
      BY <2>1 DEF EndNamed, NextAnonRound, EndAnon, AnonRoundOver, Dir
    <3>2. anonRound.pos..Len(anonRound.items) = {}  BY <1>3, <3>1 DEF Rounds
    <3> QED  BY <3>2 DEF Unread
  <2>2. CASE phase \notin Dir
    BY <2>2 DEF Unread
  <2> QED  BY <2>1, <2>2
<1>6. Unread' = Queued(d)
  <2>1. PICK q : q = anonNeeds[d].items  OBVIOUS
  <2>2. q \in Seq(Anon) /\ DOMAIN q = 1..Len(q)  BY <1>2, <1>3, <2>1 DEF Slices
  <2>3. Unread' = {AnonNode(d, q[i]) : i \in 1..Len(q)}
    BY <1>1, <1>2, <1>4, <2>1 DEF Unread, AnonNode, AnonFn
  <2> QED  BY <2>1, <2>2, <2>3 DEF Queued
<1>7. Queued(d)' = {} /\ \A e \in Dir \ {d} : Queued(e)' = Queued(e)
  BY <1>4 DEF Queued, AnonNode, AnonFn
<1>8. InWork' = InWork /\ Come' = Come
  <2>1. Passed' = {}  BY <1>2 DEF Passed
  <2> QED  BY <1>2, <2>1, InWorkKept, ComeKept, NothingPassed
<1> QED  BY <1>1, <1>2, <1>4, <1>5, <1>6, <1>7, <1>8 DEF Turned

-----------------------------------------------------------------------------
(* A struct inside an anonymous one has two anonymous structs of its own.  *)
Wide == \E x \in AnonsIn(InWork) : x \in CalledBy(AnonsIn(InWork))
                                   /\ \E i, j \in AnonFields(x) : i # j

(* Two fields come to structs of one name.                                 *)
Tangled ==
    \E x, y \in InWork : \E i \in AnonFields(x), j \in AnonFields(y) :
        \E a \in AnonsIn(Callee(x, i)), b \in AnonsIn(Callee(y, j)) :
            a.fn = b.fn /\ ~(x = y /\ i = j)

QueuesDone ==
    /\ phase \in {"Value", "done"} => anonNeeds["Scan"].items = <<>>
    /\ phase = "done" => anonNeeds["Value"].items = <<>> /\ job = NoJob

AnonsKnown == Wide \/ AnonsIn(Come) \subseteq Known

NoAnonExtra ==
    \A nodes \in SUBSET Node :
        AnonsIn(CalledBy(MethodsIn(InWork) \cup nodes)) \subseteq nodes => Known \subseteq nodes

Sourced == Known \subseteq Come

(* What the iterator over a shared array rests on: the structs of the      *)
(* round are inside anonymous ones, and none has queued more than one.     *)
SharedRound ==
    phase \in Dir =>
        /\ Queued(phase) \subseteq CalledBy(AnonsIn(InWork))
        /\ anonRound.shared =>
              /\ Unread \subseteq CalledBy(AnonsIn(InWork))
              /\ job # NoJob => NodeOf(job) \in CalledBy(AnonsIn(InWork))
              /\ ~Wide => Len(anonNeeds[phase].items) < anonRound.pos
              /\ ~Wide /\ job # NoJob /\ (\A i \in AnonFields(NodeOf(job)) : i > Behind) => Room

LEMMA NoPanicBefore ==
    ASSUME [Next]_vars, phase' # "panic"
    PROVE  phase # "panic"
<1>1. CASE RenderDescend \/ RenderPod \/ RenderCall \/ RenderAnon \/ RenderLeaf
  BY <1>1 DEF RenderDescend, RenderPod, RenderCall, RenderAnon, RenderLeaf, control
<1>2. CASE QueueByMacros \/ BeginNamed \/ PickType \/ StartMethod
  BY <1>2 DEF QueueByMacros, BeginNamed, PickType, StartMethod
<1>3. CASE Emit \/ NextTypeRound \/ EndNamed
  BY <1>3 DEF Emit, Rendered, Running, NextTypeRound, EndNamed
<1>4. CASE StartAnon \/ NextAnonRound \/ EndAnon \/ UNCHANGED vars
  BY <1>4 DEF StartAnon, NextAnonRound, EndAnon, AnonRoundOver, Dir, vars
<1>5. ~Fail  BY DEF Fail
<1> QED
  BY <1>1, <1>2, <1>3, <1>4, <1>5
  DEF Next, Step, Terminated, MacroPanic, GeneratePanic, RenderPanic, EmitPanic

LEMMA CalledByMore ==
    ASSUME NEW S, NEW T, S \subseteq T
    PROVE  /\ CalledBy(S) \subseteq CalledBy(T) /\ AnonsIn(S) \subseteq AnonsIn(T)
           /\ MethodsIn(S) \subseteq MethodsIn(T)
<1> HIDE DEF Callees, IsMethod
<1> QED  BY DEF CalledBy, AnonsIn, MethodsIn

LEMMA WideKept ==
    ASSUME src' = src, InWork \subseteq InWork'
    PROVE  /\ (Wide => Wide') /\ (Tangled => Tangled')
           /\ CalledBy(AnonsIn(InWork)) \subseteq CalledBy(AnonsIn(InWork))'
<1>1. PICK S, T : S = InWork /\ T = InWork' /\ S \subseteq T  OBVIOUS
<1>2. AnonsIn(S) \subseteq AnonsIn(T) /\ CalledBy(AnonsIn(S)) \subseteq CalledBy(AnonsIn(T))
  BY <1>1, CalledByMore
<1>3. AnonsIn(InWork)' = AnonsIn(T)  BY <1>1 DEF AnonsIn, IsMethod
<1>4. CalledBy(AnonsIn(InWork))' = CalledBy(AnonsIn(T))  BY <1>3, CalledByKept
<1>5. ASSUME Wide PROVE Wide'
  <2>1. PICK x \in AnonsIn(S) :
            x \in CalledBy(AnonsIn(S)) /\ \E i, j \in AnonFields(x) : i # j
    BY <1>1, <1>5 DEF Wide
  <2>2. AnonFields(x)' = AnonFields(x)  BY Frozen
  <2> QED  BY <1>2, <1>3, <1>4, <2>1, <2>2 DEF Wide
<1>6. ASSUME Tangled PROVE Tangled'
  <2>1. PICK x \in S, y \in S : \E i \in AnonFields(x), j \in AnonFields(y) :
            \E a \in AnonsIn(Callee(x, i)), b \in AnonsIn(Callee(y, j)) :
                a.fn = b.fn /\ ~(x = y /\ i = j)
    BY <1>1, <1>6 DEF Tangled
  <2>2. /\ AnonFields(x)' = AnonFields(x) /\ AnonFields(y)' = AnonFields(y)
        /\ \A i : Callee(x, i)' = Callee(x, i) /\ Callee(y, i)' = Callee(y, i)
    BY Frozen
  <2>3. \A i : /\ AnonsIn(Callee(x, i))' = AnonsIn(Callee(x, i))
               /\ AnonsIn(Callee(y, i))' = AnonsIn(Callee(y, i))
    BY <2>2 DEF AnonsIn, IsMethod
  <2> QED  BY <1>1, <2>1, <2>2, <2>3 DEF Tangled
<1> QED  BY <1>1, <1>2, <1>4, <1>5, <1>6

(* Narrow structs leave the write behind the iterator.                     *)
LEMMA RoomToQueue ==
    ASSUME TypeOK, Shape, Bookkeeping, SharedRound, RenderAnon, phase \in Dir, ~Wide
    PROVE  Room
<1> SUFFICES ASSUME anonRound.shared PROVE Room  BY DEF Room
<1>0. phase # "panic"  BY DEF Dir
<1>1. /\ job # NoJob /\ NodeOf(job) \in InWork /\ ~IsMethod(NodeOf(job))
      /\ Behind + 1 \in AnonFields(NodeOf(job)) /\ Behind \in Nat
  BY <1>0, MetShape
<1>2. NodeOf(job) \in AnonsIn(InWork) /\ NodeOf(job) \in CalledBy(AnonsIn(InWork))
  BY <1>1 DEF AnonsIn, SharedRound
<1>3. \A i \in AnonFields(NodeOf(job)) : i = Behind + 1
  BY <1>1, <1>2 DEF Wide
<1>4. \A i \in AnonFields(NodeOf(job)) : i > Behind  BY <1>1, <1>3
<1> QED  BY <1>1, <1>4 DEF SharedRound

(* Met structs are added to the known ones; no step loses one, unless the  *)
(* structs are wide.                                                       *)
Adds(new) ==
    /\ \A x \in new : ~IsMethod(x) /\ NodeOf(job) \in InWork /\ x \in Callees(NodeOf(job))
    /\ AnonsIn(Come') = AnonsIn(Come) \cup new
    /\ Known' \subseteq Known \cup new
    /\ ~Wide => Known \cup new \subseteq Known'

LEMMA KnownStep ==
    ASSUME TypeOK, TypeOK', Bookkeeping, Shape, SharedRound, [Next]_vars, phase' # "panic"
    PROVE  InWork \subseteq InWork' /\ Come \subseteq Come' /\ \E new : Adds(new)
<1>0. phase # "panic"  BY NoPanicBefore
<1>1. Known' = Queued("Scan")' \cup Queued("Value")' \cup Unread' \cup AnonsIn(InWork')
  BY DEF Known, AnonsIn, IsMethod
<1>2. CASE Quiet
  <2>1. \A e : Queued(e)' = Queued(e)  BY <1>2 DEF Quiet, Queued, AnonNode, AnonFn
  <2>2. Known' = Known  BY <1>1, <1>2, <2>1 DEF Known, Quiet
  <2>3. Adds({})  BY <1>2, <2>2 DEF Adds, Quiet
  <2> QED  BY <1>2, <2>3 DEF Quiet
<1>3. CASE RenderAnon
  <2>1. /\ InWork' = InWork /\ Come' = Come \cup {Met} /\ ~IsMethod(Met)
        /\ NodeOf(job) \in InWork /\ Met \in Callees(NodeOf(job))
    BY <1>0, <1>3, MetShape
  <2>2. PICK d : d \in Dir /\ d = job.fn.dir  BY <1>0, <1>3, MetShape
  <2>3. /\ \A e \in Dir : Queued(e)' = IF e = d THEN Queued(e) \cup {Met} ELSE Queued(e)
        /\ Unread' \subseteq Unread \cup {Met} /\ ((phase \in Dir => Room) => Unread' = Unread)
    BY <1>0, <1>3, <2>2, MetKnown
  <2>4. Queued("Scan")' \cup Queued("Value")' = Queued("Scan") \cup Queued("Value") \cup {Met}
    BY <2>2, <2>3 DEF Dir
  <2>5. Known' \subseteq Known \cup {Met}  BY <1>1, <2>1, <2>3, <2>4 DEF Known
  <2>6. ~Wide => Unread' = Unread  BY <1>3, <2>3, RoomToQueue
  <2>7. ~Wide => Known \cup {Met} \subseteq Known'  BY <1>1, <2>1, <2>4, <2>6 DEF Known
  <2>8. AnonsIn(Come') = AnonsIn(Come) \cup {Met}  BY <2>1 DEF AnonsIn
  <2>9. Adds({Met})  BY <2>1, <2>5, <2>7, <2>8 DEF Adds
  <2> QED  BY <2>1, <2>9
<1>4. CASE StartAnon
  <2>1. PICK x : x = NodeOf(job)'  OBVIOUS
  <2>2. /\ Unread = Unread' \cup {x} /\ ~IsMethod(x) /\ anonNeeds' = anonNeeds
        /\ InWork' = InWork \cup {x} /\ Come' = Come
    BY <1>4, <2>1, Taken
  <2>3. \A e : Queued(e)' = Queued(e)  BY <2>2 DEF Queued, AnonNode, AnonFn
  <2>4. AnonsIn(InWork') = AnonsIn(InWork) \cup {x}  BY <2>2 DEF AnonsIn
  <2>5. Known' = Known  BY <1>1, <2>2, <2>3, <2>4 DEF Known
  <2>6. Adds({})  BY <2>2, <2>5 DEF Adds
  <2> QED  BY <2>2, <2>6
<1>5. CASE EndNamed \/ NextAnonRound \/ (EndAnon /\ phase = "Scan")
  <2>1. PICK d \in Dir : Turned(d)  BY <1>5, TurnedStep
  <2>2. /\ InWork' = InWork /\ Come' = Come /\ Unread = {} /\ Unread' = Queued(d) /\ Queued(d)' = {}
        /\ \A e \in Dir \ {d} : Queued(e)' = Queued(e)
    BY <2>1 DEF Turned
  <2>3. Known' = Known  BY <1>1, <2>2 DEF Known, Dir
  <2>4. Adds({})  BY <2>2, <2>3 DEF Adds
  <2> QED  BY <2>2, <2>4
<1> QED  BY <1>2, <1>3, <1>4, <1>5, QuietStep

(* Every struct that was come to is somewhere, all of them are needed, and *)
(* each has been come to.                                                  *)
LEMMA KnownKept ==
    ASSUME TypeOK, TypeOK', Bookkeeping, Shape, SharedRound, [Next]_vars, phase' # "panic",
           AnonsKnown, NoAnonExtra, Sourced
    PROVE  AnonsKnown' /\ NoAnonExtra' /\ Sourced'
<1>0. src' = src  BY StepShape
<1>1. PICK new : Adds(new)  BY KnownStep
<1>2. InWork \subseteq InWork' /\ Come \subseteq Come'  BY KnownStep
<1>3. Wide => Wide'  BY <1>0, <1>2, WideKept
<1>4. AnonsKnown'
  <2>1. CASE Wide
    BY <1>3, <2>1 DEF AnonsKnown
  <2>2. CASE ~Wide
    <3>1. AnonsIn(Come') \subseteq Known'  BY <1>1, <2>2 DEF Adds, AnonsKnown
    <3> QED  BY <3>1 DEF AnonsKnown, AnonsIn, IsMethod
  <2> QED  BY <2>1, <2>2
<1>5. NoAnonExtra'
  <2> SUFFICES ASSUME NEW nodes \in SUBSET Node,
                      AnonsIn(CalledBy(MethodsIn(InWork') \cup nodes)) \subseteq nodes
               PROVE  Known' \subseteq nodes
    <3>1. \A S : CalledBy(S)' = CalledBy(S)  BY <1>0, CalledByKept
    <3>2. \A nodes : (AnonsIn(CalledBy(MethodsIn(InWork) \cup nodes)))'
                     = AnonsIn(CalledBy(MethodsIn(InWork') \cup nodes))
      BY <3>1 DEF AnonsIn, MethodsIn, IsMethod
    <3> QED  BY <3>2 DEF NoAnonExtra, Node
  <2>1. PICK S : S = MethodsIn(InWork') \cup nodes  OBVIOUS
  <2>2. PICK R : R = MethodsIn(InWork) \cup nodes /\ R \subseteq S
    BY <1>2, <2>1 DEF MethodsIn
  <2>3. AnonsIn(CalledBy(R)) \subseteq nodes
    BY <2>1, <2>2, CalledByMore
  <2>4. Known \subseteq nodes  BY <2>2, <2>3 DEF NoAnonExtra
  <2>5. ASSUME NEW x \in new PROVE x \in nodes
    <3>1. ~IsMethod(x) /\ NodeOf(job) \in InWork /\ x \in Callees(NodeOf(job))
      BY <1>1, <2>5 DEF Adds
    <3>2. NodeOf(job) \in S
      <4>1. IsMethod(NodeOf(job)) => NodeOf(job) \in MethodsIn(InWork)
        BY <3>1 DEF MethodsIn
      <4>2. ~IsMethod(NodeOf(job)) => NodeOf(job) \in Known
        BY <3>1 DEF Known, AnonsIn
      <4> QED  BY <2>1, <2>2, <2>4, <4>1, <4>2
    <3>3. x \in CalledBy(S)  BY <3>1, <3>2 DEF CalledBy
    <3> QED  BY <2>1, <3>1, <3>3 DEF AnonsIn
  <2> QED  BY <1>1, <2>4, <2>5 DEF Adds
<1>6. Sourced'
  <2>1. Known' \subseteq Known \cup AnonsIn(Come')  BY <1>1 DEF Adds
  <2>2. Known \subseteq Come'  BY <1>2 DEF Sourced
  <2> QED  BY <2>1, <2>2 DEF Sourced, AnonsIn
<1> QED  BY <1>4, <1>5, <1>6

(* A quiet step of an anonymous round leaves the function in work, or      *)
(* finishes it.                                                            *)
LEMMA QuietJob ==
    ASSUME TypeOK, TypeOK', Bookkeeping, Shape, [Next]_vars, phase' \in Dir,
           ~RenderAnon, ~StartAnon, ~EndNamed, ~NextAnonRound, ~(EndAnon /\ phase = "Scan")
    PROVE  /\ phase' = phase /\ (funcs' = funcs \/ Emit)
           /\ job' # NoJob => /\ job # NoJob /\ NodeOf(job)' = NodeOf(job) /\ job'.fn = job.fn
                              /\ Behind \in Int /\ (Behind' = Behind \/ Behind' = Behind + 1)
<1>0. phase # "panic" /\ src' = src /\ (funcs' = funcs \/ Emit)
  <2>1. phase' # "panic"  BY DEF Dir
  <2> QED  BY <2>1, NoPanicBefore, StepShape
<1>1. ASSUME job # NoJob PROVE Behind \in Int
  BY <1>1, JobNode DEF Behind
<1>2. CASE RenderDescend \/ RenderPod
  <2>1. Behind' = Behind /\ UNCHANGED <<phase, job>> /\ job # NoJob
    BY <1>0, <1>2, StoodFor DEF RenderDescend, RenderPod, Rendering
  <2> QED  BY <1>0, <1>1, <2>1 DEF NodeOf
<1>3. CASE RenderCall \/ RenderLeaf
  <2>1. /\ job # NoJob /\ NodeOf(job)' = NodeOf(job) /\ job'.fn = job.fn
        /\ Behind' = Behind + 1 /\ phase' = phase
    BY <1>0, <1>3, Answered
  <2> QED  BY <1>0, <1>1, <2>1
<1>4. CASE StartMethod
  BY <1>4, StartedMethod DEF Dir
<1>5. CASE Emit
  BY <1>0, <1>5 DEF Emit
<1>6. CASE QueueByMacros \/ BeginNamed \/ PickType \/ NextTypeRound \/ EndAnon
  <2>1. CASE EndAnon
    BY <2>1 DEF EndAnon, AnonRoundOver, Dir
  <2>2. CASE QueueByMacros \/ BeginNamed \/ PickType \/ NextTypeRound
    BY <2>2 DEF QueueByMacros, BeginNamed, PickType, NextTypeRound, Dir
  <2> QED  BY <1>6, <2>1, <2>2
<1>7. CASE UNCHANGED vars
  <2>1. UNCHANGED <<src, phase, job, stack>> /\ NodeOf(job)' = NodeOf(job)  BY <1>7 DEF vars, NodeOf
  <2>2. PICK x : x = NodeOf(job) /\ NodeOf(job)' = x  BY <2>1
  <2>3. Body(x)' = Body(x) /\ Behind' = Behind  BY <1>0, <2>1, <2>2, Frozen DEF Behind
  <2> QED  BY <1>0, <1>1, <2>1, <2>3
<1>8. ~Fail  BY DEF Fail, Dir
<1> QED
  BY <1>2, <1>3, <1>4, <1>5, <1>6, <1>7, <1>8
  DEF Next, Step, Terminated, MacroPanic, GeneratePanic, RenderPanic, EmitPanic

LEMMA SharedRoundIs ==
    ASSUME src' = src, NEW e \in Dir, phase' = e,
           Queued(e)' \subseteq CalledBy(AnonsIn(InWork))',
           anonRound'.shared =>
              /\ Unread' \subseteq CalledBy(AnonsIn(InWork))'
              /\ job' # NoJob => NodeOf(job)' \in CalledBy(AnonsIn(InWork))'
              /\ ~Wide' => Len(anonNeeds'[e].items) < anonRound'.pos
              /\ ~Wide' /\ job' # NoJob /\ (\A i \in AnonFields(NodeOf(job)') : i > Behind')
                    => Len(anonNeeds'[e].items) + 1 < anonRound'.pos
    PROVE  SharedRound'
<1>1. Queued(phase)' = Queued(e)'  BY DEF Queued, AnonNode, AnonFn
<1>2. PICK x : x = NodeOf(job)'  OBVIOUS
<1>3. AnonFields(NodeOf(job))' = AnonFields(x)
  <2>1. AnonFields(NodeOf(job))' = AnonFields(x)'  BY <1>2 DEF AnonFields, Body, Callee, Callees
  <2> QED  BY <2>1, Frozen
<1> QED  BY <1>1, <1>2, <1>3 DEF SharedRound, Room

LEMMA SharedRoundStep ==
    ASSUME TypeOK, TypeOK', Bookkeeping, Shape, SharedRound, [Next]_vars
    PROVE  SharedRound'
<1> SUFFICES ASSUME phase' \in Dir PROVE SharedRound'  BY DEF SharedRound
<1>0. src' = src /\ phase' # "panic" /\ phase # "panic"
  <2>1. phase' # "panic"  BY DEF Dir
  <2> QED  BY <2>1, StepShape, NoPanicBefore
<1>1. PICK e : e \in Dir /\ phase' = e  OBVIOUS
<1>2. PICK X : X = CalledBy(AnonsIn(InWork))  OBVIOUS
<1>3. X \subseteq CalledBy(AnonsIn(InWork))' /\ (Wide => Wide')
  BY <1>0, <1>2, KnownStep, WideKept
<1>4. PICK q, p : q = anonNeeds[e].items /\ p = anonRound.pos  OBVIOUS
<1>5. Len(q) \in Nat /\ p \in Nat
  <2>1. anonNeeds[e] \in Slices  BY <1>1 DEF TypeOK
  <2>2. q \in Seq(Anon)  BY <1>4, <2>1 DEF Slices
  <2>3. Len(q) \in Nat  BY <2>2
  <2>4. p \in Nat  BY <1>4 DEF TypeOK
  <2> QED  BY <2>3, <2>4
<1>6. ASSUME phase = e
      PROVE  /\ Queued(e) \subseteq X
             /\ anonRound.shared =>
                   /\ Unread \subseteq X
                   /\ job # NoJob => NodeOf(job) \in X
                   /\ ~Wide => Len(q) < p
                   /\ ~Wide /\ job # NoJob /\ (\A i \in AnonFields(NodeOf(job)) : i > Behind)
                         => Len(q) + 1 < p
  BY <1>1, <1>2, <1>4, <1>6 DEF SharedRound, Room
<1>7. CASE RenderAnon
  <2>1. /\ phase = e /\ job.fn.dir = e /\ job # NoJob /\ NodeOf(job)' = NodeOf(job)
        /\ ~IsMethod(NodeOf(job)) /\ NodeOf(job) \in InWork /\ Met \in Callees(NodeOf(job))
        /\ Behind \in Nat /\ Behind' = Behind + 1 /\ Behind + 1 \in AnonFields(NodeOf(job))
    BY <1>0, <1>1, <1>7, MetShape
  <2>2. Met \in X
    <3>1. NodeOf(job) \in AnonsIn(InWork)  BY <2>1 DEF AnonsIn
    <3> QED  BY <1>2, <2>1, <3>1 DEF CalledBy
  <2>3. Queued(e)' = Queued(e) \cup {Met} /\ Unread' \subseteq Unread \cup {Met}
    BY <1>0, <1>1, <1>7, <2>1, MetKnown
  <2>4. /\ anonNeeds'[e].items = Append(q, Head(stack)) /\ q \in Seq(Anon) /\ Head(stack) \in Anon
        /\ anonRound'.pos = p /\ (anonRound'.shared => anonRound.shared)
    BY <1>0, <1>4, <1>7, <2>1, MetQueued
  <2>5. Len(anonNeeds'[e].items) = Len(q) + 1  BY <2>4, AppendProperties
  <2>6. ~Wide' /\ anonRound'.shared => Len(q) + 1 < p
    BY <1>1, <1>3, <1>4, <1>7, <2>1, <2>4, RoomToQueue DEF Room
  <2>7. ~(\A i \in AnonFields(NodeOf(job)') : i > Behind')
    BY <2>1
  <2>8. anonRound'.shared => Unread' \subseteq X /\ NodeOf(job)' \in X
    BY <1>6, <2>1, <2>2, <2>3, <2>4
  <2>9. Queued(e)' \subseteq X  BY <1>6, <2>1, <2>2, <2>3
  <2> QED  BY <1>0, <1>1, <1>3, <2>4, <2>5, <2>6, <2>7, <2>8, <2>9, SharedRoundIs
<1>8. CASE StartAnon
  <2>1. PICK x : x = NodeOf(job)'  OBVIOUS
  <2>2. /\ phase = e /\ anonNeeds' = anonNeeds /\ Unread = Unread' \cup {x}
        /\ anonRound'.shared = anonRound.shared /\ anonRound'.pos = p + 1
    BY <1>1, <1>4, <1>8, <2>1, Taken
  <2>3. Queued(e)' = Queued(e)  BY <2>2 DEF Queued, AnonNode, AnonFn
  <2>4. anonNeeds'[e].items = q  BY <1>4, <2>2
  <2>5. anonRound'.shared => Unread' \subseteq X /\ NodeOf(job)' \in X
    BY <1>6, <2>1, <2>2
  <2>6. anonRound'.shared /\ ~Wide' => Len(q) < p + 1 /\ Len(q) + 1 < p + 1
    BY <1>3, <1>5, <1>6, <2>2
  <2> QED  BY <1>0, <1>1, <1>3, <1>6, <2>2, <2>3, <2>4, <2>5, <2>6, SharedRoundIs
<1>9. CASE EndNamed \/ NextAnonRound \/ (EndAnon /\ phase = "Scan")
  <2>1. PICK d \in Dir : Turned(d)  BY <1>9, TurnedStep
  <2>2. d = e  BY <1>1, <2>1 DEF Turned
  <2>3. /\ job' = NoJob /\ Unread' = Queued(e) /\ Queued(e)' = {} /\ anonNeeds'[e].items = <<>>
        /\ anonRound'.pos = 1 /\ (anonRound'.shared => phase = e)
    BY <2>1, <2>2 DEF Turned
  <2>4. Len(anonNeeds'[e].items) < anonRound'.pos  BY <2>3, EmptySeq
  <2> QED  BY <1>0, <1>1, <1>3, <1>6, <2>3, <2>4, SharedRoundIs
<1>10. CASE ~(RenderAnon \/ StartAnon \/ EndNamed \/ NextAnonRound \/ (EndAnon /\ phase = "Scan"))
  <2>1. Quiet  BY <1>0, <1>10, QuietStep
  <2>2. /\ phase = e
        /\ job' # NoJob => /\ job # NoJob /\ NodeOf(job)' = NodeOf(job)
                           /\ Behind \in Int /\ (Behind' = Behind \/ Behind' = Behind + 1)
    BY <1>1, <1>10, QuietJob
  <2>3. anonNeeds' = anonNeeds /\ anonRound' = anonRound /\ Unread' = Unread  BY <2>1 DEF Quiet
  <2>4. Queued(e)' = Queued(e)  BY <2>3 DEF Queued, AnonNode, AnonFn
  <2>5. ASSUME job' # NoJob, \A i \in AnonFields(NodeOf(job)') : i > Behind'
        PROVE  \A i \in AnonFields(NodeOf(job)) : i > Behind
    <3>1. ASSUME NEW i \in AnonFields(NodeOf(job)) PROVE i > Behind
      <4>1. i > Behind'  BY <2>2, <2>5, <3>1
      <4>2. i \in Int
        <5>1. i \in DOMAIN Body(NodeOf(job))  BY <3>1 DEF AnonFields
        <5> QED  BY <2>2, <2>5, <5>1, JobNode
      <4> QED  BY <2>2, <2>5, <4>1, <4>2
    <3> QED  BY <3>1
  <2>6. anonNeeds'[e].items = q /\ anonRound'.pos = p  BY <1>4, <2>3
  <2>7. Queued(e)' \subseteq X  BY <1>6, <2>2, <2>4
  <2>8. anonRound'.shared =>
           /\ Unread' \subseteq X
           /\ job' # NoJob => NodeOf(job)' \in X
           /\ ~Wide' => Len(q) < p
           /\ ~Wide' /\ job' # NoJob /\ (\A i \in AnonFields(NodeOf(job)') : i > Behind')
                 => Len(q) + 1 < p
    BY <1>3, <1>6, <2>2, <2>3, <2>5
  <2> QED  BY <1>0, <1>1, <1>3, <2>6, <2>7, <2>8, SharedRoundIs
<1> QED  BY <1>7, <1>8, <1>9, <1>10

LEMMA QueuesDoneStep ==
    ASSUME TypeOK, Bookkeeping, Shape, QueuesDone, [Next]_vars
    PROVE  QueuesDone'
<1>1. ASSUME phase' = phase, job = NoJob => job' = NoJob, anonNeeds' = anonNeeds
      PROVE  QueuesDone'
  BY <1>1 DEF QueuesDone
<1>2. CASE RenderAnon
  <2> SUFFICES ASSUME phase # "panic" PROVE QueuesDone'
    BY <1>2 DEF RenderAnon, control, QueuesDone
  <2>1. PICK d : d = job.fn.dir /\ d \in Dir  BY <1>2, MetShape
  <2>2. phase' = phase /\ phase # "done" /\ (phase \in Dir => phase = d)  BY <1>2, <2>1, MetShape
  <2>3. \A e \in Dir \ {d} : anonNeeds'[e] = anonNeeds[e]  BY <1>2, <2>1, MetQueued
  <2> QED  BY <2>1, <2>2, <2>3 DEF QueuesDone, Dir
<1>3. CASE RenderDescend \/ RenderPod \/ RenderCall \/ RenderLeaf
  <2>1. phase' = phase /\ job # NoJob /\ anonNeeds' = anonNeeds
    BY <1>3 DEF RenderDescend, RenderPod, RenderCall, RenderLeaf, control, anon, Rendering
  <2> QED  BY <1>1, <2>1
<1>4. CASE RenderPanic \/ MacroPanic \/ GeneratePanic \/ EmitPanic
  BY <1>4 DEF RenderPanic, MacroPanic, GeneratePanic, EmitPanic, Fail, QueuesDone
<1>5. CASE QueueByMacros \/ BeginNamed \/ PickType \/ StartMethod \/ NextTypeRound
  <2>1. phase' \in {"macros", "named", "panic"}
    BY <1>5 DEF QueueByMacros, BeginNamed, PickType, StartMethod, NextTypeRound
  <2> QED  BY <2>1 DEF QueuesDone
<1>6. CASE Emit \/ StartAnon \/ UNCHANGED vars
  <2>1. phase' = phase /\ anonNeeds' = anonNeeds /\ (phase = "done" => job' = job \/ job' = NoJob)
    BY <1>6 DEF Emit, StartAnon, vars, anon, Dir
  <2> QED  BY <2>1 DEF QueuesDone
<1>7. CASE EndNamed \/ NextAnonRound \/ EndAnon
  <2>1. CASE EndNamed
    BY <2>1 DEF EndNamed, BeginAnon, QueuesDone
  <2>2. CASE NextAnonRound
    <3>1. /\ phase \in Dir /\ phase' = phase
          /\ anonNeeds' = [anonNeeds EXCEPT ![phase] = [items |-> <<>>, cap |-> @.cap]]
      BY <2>2 DEF NextAnonRound, AnonRoundOver
    <3> QED  BY <3>1 DEF QueuesDone, Dir
  <2>3. CASE EndAnon
    <3>1. CASE phase = "Scan"
      <4>1. /\ phase' = "Value" /\ anonNeeds["Scan"].items = <<>>
            /\ anonNeeds' = [anonNeeds EXCEPT !["Value"] = [items |-> <<>>, cap |-> 0]]
        BY <2>3, <3>1 DEF EndAnon, BeginAnon
      <4>2. anonNeeds \in [Dir -> Slices]  BY DEF TypeOK, Slices
      <4>3. anonNeeds'["Scan"] = anonNeeds["Scan"]  BY <4>1, <4>2 DEF Dir
      <4> QED  BY <4>1, <4>3 DEF QueuesDone
    <3>2. CASE phase # "Scan"
      BY <2>3, <3>2 DEF EndAnon, AnonRoundOver, QueuesDone, Dir, anon
    <3> QED  BY <3>1, <3>2
  <2> QED  BY <1>7, <2>1, <2>2, <2>3
<1> QED  BY <1>2, <1>3, <1>4, <1>5, <1>6, <1>7 DEF Next, Step, Terminated

-----------------------------------------------------------------------------
(* No struct is in two places, or twice in one.                            *)
Apart(S, T) == \A a \in S, b \in T : a.fn # b.fn

QueueOnce(d) ==
    \A i, j \in DOMAIN anonNeeds[d].items :
        anonNeeds[d].items[i].name = anonNeeds[d].items[j].name => i = j

RoundOnce ==
    phase \in Dir => \A i, j \in anonRound.pos..Len(anonRound.items) :
                        anonRound.items[i].name = anonRound.items[j].name => i = j

OnePlace ==
    /\ \A d \in Dir : QueueOnce(d) /\ Apart(Queued(d), Unread \cup InWork)
    /\ RoundOnce /\ Apart(Unread, InWork)
    /\ FunctionOnce /\ (job # NoJob => job.fn \notin Emitted)

EachOnce == Wide \/ Tangled \/ OnePlace

LEMMA AnonNodeIs ==
    ASSUME NEW d, NEW a
    PROVE  /\ ~IsMethod(AnonNode(d, a)) /\ AnonNode(d, a).fn.dir = d
           /\ AnonNode(d, a).fn.name = a.name /\ AnonNode(d, a).fn = AnonFn(d, a.name)
<1>1. PICK m : m = AnonFn(d, a.name)  OBVIOUS
<1>2. m.type = NoType /\ m.dir = d /\ m.name = a.name  BY <1>1 DEF AnonFn
<1>3. AnonNode(d, a) = [fn |-> m, type |-> a.type]  BY <1>1 DEF AnonNode
<1> QED  BY <1>1, <1>2, <1>3 DEF IsMethod

LEMMA ApartFromMethods ==
    ASSUME NEW Q, \A a \in Q : ~IsMethod(a), NEW S, NEW T, AnonsIn(T) \subseteq S, Apart(Q, S)
    PROVE  Apart(Q, T)
<1> SUFFICES ASSUME NEW a \in Q, NEW b \in T, a.fn = b.fn PROVE FALSE  BY DEF Apart
<1>1. ~IsMethod(b)  BY DEF IsMethod
<1>2. b \in S  BY <1>1 DEF AnonsIn
<1> QED  BY <1>2 DEF Apart

(* The method that is begun has not been made.                             *)
LEMMA MethodIsNew ==
    ASSUME TypeOK', Bookkeeping', Shape', phase' # "panic", job' # NoJob, IsMethod(job')
    PROVE  job'.fn \notin Emitted'
<1>1. job' \in Job /\ MethodForm(job)'  BY DEF TypeOK, Shape
<1>2. PICK f : f = job'  OBVIOUS
<1>3. PICK m : m = f.fn /\ m.dir \in Dir /\ f.type \in Type  BY <1>1, <1>2 DEF Job, FnId
<1>4. m = Method(m.dir, f.type)'
  BY <1>1, <1>2, <1>3 DEF MethodForm, IsMethod, Method
<1>5. PICK n : n = <<m.dir, f.type>>  OBVIOUS
<1>6. n \in Need /\ n[1] = m.dir /\ n[2] = f.type  BY <1>3, <1>5 DEF Need
<1>7. n \in InHand'  BY <1>2, <1>3, <1>4, <1>6 DEF InHand, Method
<1>8. n \notin EmittedNeeds'  BY <1>7 DEF Bookkeeping, NeedsAccounted
<1>9. m \notin Emitted'  BY <1>4, <1>6, <1>8 DEF EmittedNeeds, Method
<1> QED  BY <1>2, <1>3, <1>9

(* A struct that is met has a name no known one has.                       *)
LEMMA MetIsNew ==
    ASSUME TypeOK, Shape, Bookkeeping, RenderAnon, phase # "panic", Sourced, ~Tangled,
           job.fn \notin Emitted, NEW k \in Known
    PROVE  k.fn # Met.fn
<1> SUFFICES ASSUME k.fn = Met.fn PROVE FALSE  OBVIOUS
<1>1. PICK x, i : x = NodeOf(job) /\ i = Behind + 1  OBVIOUS
<1>2. /\ x \in InWork /\ i \in AnonFields(x) /\ Callee(x, i) = {Met} /\ ~IsMethod(Met)
      /\ job # NoJob /\ Behind \in Nat
  BY <1>1, MetShape
<1>3. ~IsMethod(k) /\ k \in Come  BY <1>2 DEF IsMethod, Sourced
<1>4. Met \in AnonsIn(Callee(x, i))  BY <1>2 DEF AnonsIn
<1>5. ASSUME NEW y \in InWork, NEW j \in DOMAIN Body(y), k \in Callee(y, j) PROVE x = y /\ i = j
  <2>1. k \in AnonsIn(Callee(y, j))  BY <1>3, <1>5 DEF AnonsIn
  <2>2. j \in AnonFields(y)  BY <2>1 DEF AnonFields
  <2> QED  BY <1>2, <1>4, <2>1, <2>2 DEF Tangled
<1>6. CASE k \in CalledBy(Made)
  <2>1. PICK y \in Made : k \in Callees(y)  BY <1>6 DEF CalledBy
  <2>2. PICK j \in DOMAIN Body(y) : k \in Callee(y, j)  BY <2>1 DEF Callees
  <2>3. x = y  BY <1>5, <2>1, <2>2 DEF InWork
  <2>4. x.fn \in Emitted  BY <2>1, <2>3 DEF Made, Emitted
  <2> QED  BY <1>1, <2>4 DEF NodeOf
<1>7. CASE k \in Passed
  <2>1. PICK j \in 1..Behind : k \in Callee(x, j)  BY <1>1, <1>2, <1>7 DEF Passed
  <2>2. j \in DOMAIN Body(x)
    <3>1. i \in DOMAIN Body(x) /\ DOMAIN Body(x) = 1..Len(Body(x)) /\ Len(Body(x)) \in Nat
      BY <1>1, <1>2, JobNode DEF AnonFields
    <3> QED  BY <1>1, <1>2, <2>1, <3>1
  <2>3. i = j  BY <1>2, <1>5, <2>1, <2>2
  <2> QED  BY <1>1, <1>2, <2>1, <2>3
<1> QED  BY <1>3, <1>6, <1>7 DEF Come

LEMMA QueuedAnons ==
    /\ \A d : \A x \in Queued(d) : ~IsMethod(x) /\ x.fn.dir = d
    /\ \A x \in Unread : ~IsMethod(x)
<1>1. \A d : \A x \in Queued(d) : ~IsMethod(x) /\ x.fn.dir = d  BY AnonNodeIs DEF Queued
<1>2. \A x \in Unread : ~IsMethod(x)  BY AnonNodeIs DEF Unread
<1> QED  BY <1>1, <1>2

LEMMA FunctionOnceKept ==
    ASSUME TypeOK, FunctionOnce, funcs' = funcs \/ (Emit /\ job.fn \notin Emitted)
    PROVE  FunctionOnce'
<1>1. CASE funcs' = funcs
  BY <1>1 DEF FunctionOnce
<1>2. CASE Emit /\ job.fn \notin Emitted
  <2>1. PICK n : n = Len(funcs)  OBVIOUS
  <2>2. /\ n \in Nat /\ DOMAIN funcs = 1..n /\ DOMAIN funcs' = 1..(n + 1)
        /\ funcs'[n + 1] = job /\ \A i \in 1..n : funcs'[i] = funcs[i]
    BY <1>2, <2>1, EmitShape
  <2>3. \A i \in 1..n : funcs[i].fn # job.fn  BY <1>2, <2>2 DEF Emitted
  <2>4. ASSUME NEW i \in 1..(n + 1), NEW j \in 1..(n + 1), funcs'[i].fn = funcs'[j].fn
        PROVE  i = j
    <3>1. (i \in 1..n \/ i = n + 1) /\ (j \in 1..n \/ j = n + 1)  BY <2>2
    <3>2. CASE i \in 1..n /\ j \in 1..n
      BY <2>2, <2>4, <3>2 DEF FunctionOnce
    <3>3. CASE i \in 1..n /\ j = n + 1
      BY <2>2, <2>3, <2>4, <3>3
    <3>4. CASE i = n + 1 /\ j \in 1..n
      BY <2>2, <2>3, <2>4, <3>4
    <3> QED  BY <3>1, <3>2, <3>3, <3>4
  <2> QED  BY <2>2, <2>4 DEF FunctionOnce
<1> QED  BY <1>1, <1>2

LEMMA OnePlaceMet ==
    ASSUME TypeOK, Bookkeeping, Shape, SharedRound, Sourced, OnePlace, ~Wide, ~Tangled,
           RenderAnon, phase # "panic"
    PROVE  OnePlace'
<1>1. PICK d, c, q : d = job.fn.dir /\ c = Head(stack) /\ q = anonNeeds[d].items  OBVIOUS
<1>2. /\ d \in Dir /\ phase' = phase /\ job # NoJob /\ job'.fn = job.fn /\ InWork' = InWork
      /\ ~IsMethod(Met) /\ Met = AnonNode(d, c) /\ funcs' = funcs
  <2>1. Met = AnonNode(d, c)  BY <1>1 DEF Met
  <2>2. funcs' = funcs  BY DEF RenderAnon, control
  <2> QED  BY <1>1, <2>1, <2>2, MetShape
<1>3. phase \in Dir => Room  BY <1>2, RoomToQueue
<1>4. /\ \A e \in Dir : Queued(e)' = IF e = d THEN Queued(e) \cup {Met} ELSE Queued(e)
      /\ Unread' = Unread
      /\ phase \in Dir => \A i \in anonRound.pos..Len(anonRound.items) :
                              anonRound'.items[i] = anonRound.items[i]
  BY <1>1, <1>3, MetKnown
<1>5. /\ q \in Seq(Anon) /\ c \in Anon /\ anonNeeds'[d].items = Append(q, c)
      /\ \A e \in Dir \ {d} : anonNeeds'[e] = anonNeeds[e]
      /\ anonRound'.pos = anonRound.pos /\ Len(anonRound'.items) = Len(anonRound.items)
  BY <1>1, MetQueued
<1>6. job.fn \notin Emitted  BY <1>2 DEF OnePlace
<1>7. \A k \in Known : k.fn # Met.fn  BY <1>6, MetIsNew
<1>8. ASSUME NEW e \in Dir PROVE QueueOnce(e)'
  <2>1. CASE e # d
    <3>1. anonNeeds'[e].items = anonNeeds[e].items  BY <1>5, <2>1
    <3> QED  BY <3>1 DEF OnePlace, QueueOnce
  <2>2. CASE e = d
    <3>1. PICK n, t : n = Len(q) /\ t = Append(q, c)  OBVIOUS
    <3>2. /\ n \in Nat /\ DOMAIN q = 1..n /\ DOMAIN t = 1..(n + 1)
          /\ t[n + 1] = c /\ \A i \in 1..n : t[i] = q[i]
      BY <1>5, <3>1, AppendProperties
    <3>3. \A i, j \in 1..n : q[i].name = q[j].name => i = j
      BY <1>1, <1>2, <3>2 DEF OnePlace, QueueOnce
    <3>4. ASSUME NEW i \in 1..n PROVE q[i].name # c.name
      <4>1. AnonNode(d, q[i]) \in Queued(d)  BY <1>1, <3>2 DEF Queued
      <4>2. AnonNode(d, q[i]) \in Known  BY <1>2, <4>1 DEF Known, Dir
      <4>3. AnonNode(d, q[i]).fn # AnonNode(d, c).fn  BY <1>2, <1>7, <4>2
      <4> QED  BY <4>3, AnonNodeIs
    <3>5. ASSUME NEW i \in 1..(n + 1), NEW j \in 1..(n + 1), t[i].name = t[j].name
          PROVE  i = j
      <4>1. (i \in 1..n \/ i = n + 1) /\ (j \in 1..n \/ j = n + 1)  BY <3>2
      <4> QED  BY <3>2, <3>3, <3>4, <3>5, <4>1
    <3>6. anonNeeds'[e].items = t  BY <1>5, <2>2, <3>1
    <3> QED  BY <3>2, <3>5, <3>6 DEF QueueOnce
  <2> QED  BY <2>1, <2>2
<1>9. Apart({Met}, Unread \cup InWork)
  <2>1. Apart({Met}, Known)  BY <1>7 DEF Apart
  <2>2. AnonsIn(Unread \cup InWork) \subseteq Known  BY DEF Known, AnonsIn
  <2> QED  BY <1>2, <2>1, <2>2, ApartFromMethods
<1>10. ASSUME NEW e \in Dir PROVE Apart(Queued(e), Unread \cup InWork)'
  <2>1. Apart(Queued(e), Unread \cup InWork)  BY DEF OnePlace
  <2>2. Apart(Queued(e)', Unread \cup InWork)  BY <1>4, <1>9, <2>1 DEF Apart
  <2> QED  BY <1>2, <1>4, <2>2 DEF Apart
<1>11. Apart(Unread, InWork)'  BY <1>2, <1>4 DEF OnePlace, Apart
<1>12. RoundOnce'
  <2> SUFFICES ASSUME phase \in Dir PROVE RoundOnce'  BY <1>2 DEF RoundOnce
  <2>1. \A i, j \in anonRound.pos..Len(anonRound.items) :
            anonRound.items[i].name = anonRound.items[j].name => i = j
    BY DEF OnePlace, RoundOnce
  <2> QED  BY <1>4, <1>5, <2>1 DEF RoundOnce
<1>13. FunctionOnce' /\ job'.fn \notin Emitted'
  BY <1>2, <1>6 DEF OnePlace, FunctionOnce, Emitted
<1> QED  BY <1>8, <1>10, <1>11, <1>12, <1>13 DEF OnePlace

LEMMA OnePlaceTaken ==
    ASSUME TypeOK, TypeOK', OnePlace, StartAnon
    PROVE  OnePlace'
<1>1. PICK x, p, r : x = NodeOf(job)' /\ p = anonRound.pos /\ r = anonRound.items  OBVIOUS
<1>2. /\ phase \in Dir /\ phase' = phase /\ x = AnonNode(phase, r[p]) /\ ~IsMethod(x)
      /\ anonNeeds' = anonNeeds /\ anonRound'.items = r /\ anonRound'.pos = p + 1
      /\ funcs' = funcs /\ p \in DOMAIN r /\ Unread = Unread' \cup {x} /\ InWork' = InWork \cup {x}
      /\ p \in Nat /\ Len(r) \in Nat /\ DOMAIN r = 1..Len(r)
  <2>1. anonRound \in Rounds /\ r \in Seq(Anon) /\ p \in Nat  BY <1>1 DEF TypeOK, Rounds
  <2> QED  BY <1>1, <2>1, Taken
<1>3. \A i, j \in p..Len(r) : r[i].name = r[j].name => i = j
  BY <1>1, <1>2 DEF OnePlace, RoundOnce
<1>4. RoundOnce'
  <2>1. \A i \in (p + 1)..Len(r) : i \in p..Len(r)  BY <1>2
  <2> QED  BY <1>2, <1>3, <2>1 DEF RoundOnce
<1>5. ASSUME NEW e \in Dir PROVE QueueOnce(e)' /\ Apart(Queued(e), Unread \cup InWork)'
  <2>1. Queued(e)' = Queued(e)  BY <1>2 DEF Queued, AnonNode, AnonFn
  <2>2. Apart(Queued(e), Unread \cup InWork) /\ QueueOnce(e)  BY DEF OnePlace
  <2>3. QueueOnce(e)'  BY <1>2, <2>2 DEF QueueOnce
  <2>4. Unread' \cup InWork' = Unread \cup InWork  BY <1>2
  <2>5. Apart(Queued(e)', Unread' \cup InWork')  BY <2>1, <2>2, <2>4
  <2> QED  BY <2>3, <2>5 DEF Apart
<1>6. Apart(Unread', {x})
  <2> SUFFICES ASSUME NEW a \in Unread', a.fn = x.fn PROVE FALSE  BY DEF Apart
  <2>1. PICK i \in (p + 1)..Len(r) : a = AnonNode(phase, r[i])
    BY <1>2 DEF Unread, AnonNode, AnonFn
  <2>2. r[i].name = r[p].name  BY <1>2, <2>1, AnonNodeIs
  <2>3. i \in p..Len(r) /\ p \in p..Len(r) /\ i # p  BY <1>2, <2>1
  <2> QED  BY <1>3, <2>2, <2>3
<1>7. Apart(Unread, InWork)'
  <2>1. Apart(Unread', InWork)  BY <1>2 DEF OnePlace, Apart
  <2>2. Apart(Unread', InWork')  BY <1>2, <1>6, <2>1 DEF Apart
  <2> QED  BY <2>2 DEF Apart
<1>8. FunctionOnce'  BY <1>2 DEF OnePlace, FunctionOnce
<1>9. job'.fn \notin Emitted'
  <2>1. \A y \in Made : x.fn # y.fn
    <3>1. Apart(Unread, InWork) /\ x \in Unread  BY <1>2 DEF OnePlace
    <3>2. Made \subseteq InWork  BY DEF InWork
    <3> QED  BY <3>1, <3>2 DEF Apart
  <2>2. x.fn \notin Emitted
    <3>1. ASSUME NEW i \in DOMAIN funcs PROVE funcs[i].fn # x.fn
      <4>1. PICK y : y = [fn |-> funcs[i].fn, type |-> funcs[i].type]  OBVIOUS
      <4>2. y \in Made /\ y.fn = funcs[i].fn  BY <4>1 DEF Made
      <4> QED  BY <2>1, <4>2
    <3> QED  BY <3>1 DEF Emitted
  <2>3. x.fn = job'.fn  BY <1>1 DEF NodeOf
  <2>4. Emitted' = Emitted  BY <1>2 DEF Emitted
  <2> QED  BY <2>2, <2>3, <2>4
<1> QED  BY <1>4, <1>5, <1>7, <1>8, <1>9 DEF OnePlace

LEMMA OnePlaceTurned ==
    ASSUME TypeOK, OnePlace, NEW d \in Dir, Turned(d)
    PROVE  OnePlace'
<1>1. /\ phase' = d /\ job' = NoJob /\ funcs' = funcs /\ InWork' = InWork
      /\ Unread' = Queued(d) /\ anonNeeds'[d].items = <<>> /\ Queued(d)' = {}
      /\ \A e \in Dir \ {d} : anonNeeds'[e] = anonNeeds[e] /\ Queued(e)' = Queued(e)
      /\ anonRound'.items = anonNeeds[d].items /\ anonRound'.pos = 1
  BY DEF Turned
<1>2. \A e \in Dir : QueueOnce(e) /\ Apart(Queued(e), InWork)  BY DEF OnePlace, Apart
<1>3. RoundOnce'
  <2>1. PICK q : q = anonNeeds[d].items  OBVIOUS
  <2>2. q \in Seq(Anon) /\ DOMAIN q = 1..Len(q)
    <3>1. anonNeeds[d] \in Slices  BY DEF TypeOK, Slices
    <3> QED  BY <2>1, <3>1 DEF Slices
  <2>3. \A i, j \in 1..Len(q) : q[i].name = q[j].name => i = j
    BY <1>2, <2>1, <2>2 DEF QueueOnce
  <2> QED  BY <1>1, <2>1, <2>3 DEF RoundOnce
<1>4. ASSUME NEW e \in Dir PROVE QueueOnce(e)' /\ Apart(Queued(e), Unread \cup InWork)'
  <2>1. CASE e = d
    <3>1. DOMAIN anonNeeds'[e].items = {}  BY <1>1, <2>1
    <3>2. QueueOnce(e)'  BY <3>1 DEF QueueOnce
    <3>3. Queued(e)' = {}  BY <1>1, <2>1
    <3> QED  BY <3>2, <3>3 DEF Apart
  <2>2. CASE e # d
    <3>1. anonNeeds'[e].items = anonNeeds[e].items /\ Queued(e)' = Queued(e)  BY <1>1, <2>2
    <3>2. QueueOnce(e)'  BY <1>2, <3>1 DEF QueueOnce
    <3>3. Apart(Queued(e), Queued(d))
      <4>1. \A a \in Queued(e), b \in Queued(d) : a.fn.dir = e /\ b.fn.dir = d
        BY QueuedAnons
      <4> QED  BY <2>2, <4>1 DEF Apart
    <3>4. Apart(Queued(e)', Unread' \cup InWork')  BY <1>1, <1>2, <3>1, <3>3 DEF Apart
    <3> QED  BY <3>2, <3>4 DEF Apart
  <2> QED  BY <2>1, <2>2
<1>5. Apart(Unread, InWork)'
  <2>1. Apart(Unread', InWork')  BY <1>1, <1>2
  <2> QED  BY <2>1 DEF Apart
<1>6. FunctionOnce'  BY <1>1 DEF OnePlace, FunctionOnce
<1> QED  BY <1>1, <1>3, <1>4, <1>5, <1>6 DEF OnePlace

LEMMA EachOnceStep ==
    ASSUME TypeOK, TypeOK', Bookkeeping, Bookkeeping', Shape, Shape', SharedRound, Sourced,
           EachOnce, [Next]_vars, phase' # "panic"
    PROVE  EachOnce'
<1> SUFFICES ASSUME ~Wide', ~Tangled' PROVE OnePlace'  BY DEF EachOnce
<1>0. phase # "panic" /\ src' = src /\ (funcs' = funcs \/ Emit)
  BY NoPanicBefore, StepShape
<1>1. ~Wide /\ ~Tangled /\ OnePlace
  BY <1>0, KnownStep, WideKept DEF EachOnce
<1>2. CASE RenderAnon
  BY <1>0, <1>1, <1>2, OnePlaceMet
<1>3. CASE StartAnon
  BY <1>1, <1>3, OnePlaceTaken
<1>4. CASE EndNamed \/ NextAnonRound \/ (EndAnon /\ phase = "Scan")
  BY <1>1, <1>4, TurnedStep, OnePlaceTurned
<1>5. CASE ~(RenderAnon \/ StartAnon \/ EndNamed \/ NextAnonRound \/ (EndAnon /\ phase = "Scan"))
  <2>1. /\ anonNeeds' = anonNeeds /\ anonRound' = anonRound /\ Unread' = Unread
        /\ AnonsIn(InWork') = AnonsIn(InWork)
    BY <1>0, <1>5, QuietStep DEF Quiet
  <2>2. ASSUME NEW e \in Dir PROVE QueueOnce(e)' /\ Apart(Queued(e), Unread \cup InWork)'
    <3>1. Queued(e)' = Queued(e)  BY <2>1 DEF Queued, AnonNode, AnonFn
    <3>2. QueueOnce(e)'  BY <1>1, <2>1 DEF OnePlace, QueueOnce
    <3>3. Apart(Queued(e), Unread \cup InWork)  BY <1>1 DEF OnePlace
    <3>4. AnonsIn(Unread' \cup InWork') \subseteq Unread \cup InWork  BY <2>1 DEF AnonsIn
    <3>5. \A a \in Queued(e) : ~IsMethod(a)  BY QueuedAnons
    <3>6. Apart(Queued(e), Unread' \cup InWork')  BY <3>3, <3>4, <3>5, ApartFromMethods
    <3> QED  BY <3>1, <3>2, <3>6 DEF Apart
  <2>3. Apart(Unread, InWork)'
    <3>1. Apart(Unread, InWork)  BY <1>1 DEF OnePlace
    <3>2. AnonsIn(InWork') \subseteq InWork  BY <2>1 DEF AnonsIn
    <3>3. \A a \in Unread : ~IsMethod(a)  BY QueuedAnons
    <3>4. Apart(Unread, InWork')  BY <3>1, <3>2, <3>3, ApartFromMethods
    <3> QED  BY <2>1, <3>4 DEF Apart
  <2>4. RoundOnce'
    <3>1. phase' \in Dir => phase' = phase  BY <1>5, QuietJob
    <3> QED  BY <1>1, <2>1, <3>1 DEF OnePlace, RoundOnce
  <2>5. FunctionOnce'
    <3>1. Emit => job # NoJob  BY DEF Emit, Rendered
    <3> QED  BY <1>0, <1>1, <3>1, FunctionOnceKept DEF OnePlace
  <2>6. ASSUME job' # NoJob PROVE job'.fn \notin Emitted'
    <3>1. CASE phase' \in Dir
      <4>1. job # NoJob /\ job'.fn = job.fn  BY <1>5, <2>6, <3>1, QuietJob
      <4>2. funcs' = funcs  BY <1>0, <2>6 DEF Emit
      <4> QED  BY <1>1, <4>1, <4>2 DEF OnePlace, Emitted
    <3>2. CASE phase' \notin Dir
      <4>1. IsMethod(job')  BY <2>6, <3>2 DEF Shape, JobPhase, IsMethod
      <4> QED  BY <2>6, <4>1, MethodIsNew
    <3> QED  BY <3>1, <3>2
  <2> QED  BY <2>2, <2>3, <2>4, <2>5, <2>6 DEF OnePlace
<1> QED  BY <1>2, <1>3, <1>4, <1>5

(* All of it, while the tool runs.                                         *)
AnonPlaces ==
    phase # "panic" =>
        QueuesDone /\ AnonsKnown /\ NoAnonExtra /\ Sourced /\ SharedRound /\ EachOnce

LEMMA AnonPlacesStep ==
    ASSUME TypeOK, TypeOK', Bookkeeping, Bookkeeping', Shape, Shape', AnonPlaces, [Next]_vars
    PROVE  AnonPlaces'
<1> SUFFICES ASSUME phase' # "panic" PROVE AnonPlaces'  BY DEF AnonPlaces
<1>1. phase # "panic"  BY NoPanicBefore
<1>2. QueuesDone' /\ SharedRound'
  BY <1>1, QueuesDoneStep, SharedRoundStep DEF AnonPlaces
<1>3. AnonsKnown' /\ NoAnonExtra' /\ Sourced'
  BY <1>1, KnownKept DEF AnonPlaces
<1>4. EachOnce'  BY <1>1, EachOnceStep DEF AnonPlaces
<1> QED  BY <1>2, <1>3, <1>4 DEF AnonPlaces

(* A struct that the renderers come to is in one place at any time, from   *)
(* the queue to the file, and no other struct is in one.                   *)
THEOREM AnonPlacesInvariant == Spec => []AnonPlaces
<1>1. Init => AnonPlaces
  <2> SUFFICES ASSUME Init PROVE AnonPlaces  OBVIOUS
  <2>1. /\ phase = "macros" /\ funcs = <<>> /\ job = NoJob
        /\ \A d \in Dir : anonNeeds[d].items = <<>>
    BY DEF Init
  <2>2. Made = {} /\ InWork = {} /\ Come = {} /\ Emitted = {}
    BY <2>1 DEF Made, InWork, Come, CalledBy, Passed, Emitted
  <2>3. Unread = {} /\ \A d \in Dir : Queued(d) = {}
    BY <2>1 DEF Unread, Dir, Queued
  <2>4. Known = {}  BY <2>2, <2>3 DEF Known, AnonsIn, Dir
  <2>5. QueuesDone /\ SharedRound /\ RoundOnce  BY <2>1 DEF QueuesDone, SharedRound, RoundOnce, Dir
  <2>6. AnonsKnown /\ NoAnonExtra /\ Sourced
    BY <2>2, <2>4 DEF AnonsKnown, NoAnonExtra, Sourced, AnonsIn
  <2>7. OnePlace
    BY <2>1, <2>2, <2>3, <2>5 DEF OnePlace, QueueOnce, Apart, FunctionOnce
  <2> QED  BY <2>5, <2>6, <2>7 DEF AnonPlaces, EachOnce
<1>2. TypeOK /\ TypeOK' /\ Bookkeeping /\ Bookkeeping' /\ Shape /\ Shape' /\ AnonPlaces
      /\ [Next]_vars => AnonPlaces'
  BY AnonPlacesStep
<1> QED
  BY <1>1, <1>2, TypeCorrect, BookkeepingInvariant, ShapeInvariant, PTL DEF Spec

LEMMA AnonsReached ==
    ASSUME TypeOK, Shape, AnonPlaces, phase = "done", Narrow
    PROVE  AnonsAsReachable /\ (Unambiguous => FunctionOnce)
<1>1. job = NoJob /\ InWork = Made /\ Come = CalledBy(Made) /\ Made \in SUBSET Node
  <2>1. job = NoJob  BY DEF AnonPlaces, QueuesDone
  <2> QED  BY <2>1, NothingPassed, EmittedMethods DEF InWork
<1>2. Known = AnonsIn(Made)
  <2>1. Queued("Scan") = {} /\ Queued("Value") = {}
    BY DEF AnonPlaces, QueuesDone, Queued
  <2>2. Unread = {}  BY DEF Unread, Dir
  <2> QED  BY <1>1, <2>1, <2>2 DEF Known
<1>3. ~Wide  BY <1>1 DEF Wide, Narrow
<1>4. ReachableAnons(AnonsIn(Made))
  <2>1. MethodsIn(Made) \cup AnonsIn(Made) = Made  BY DEF MethodsIn, AnonsIn
  <2>2. AnonsIn(CalledBy(Made)) \subseteq AnonsIn(Made)
    BY <1>1, <1>2, <1>3 DEF AnonPlaces, AnonsKnown
  <2> QED  BY <2>1, <2>2 DEF ReachableAnons
<1>5. ASSUME NEW nodes \in SUBSET AnonsIn(Made), ReachableAnons(nodes)
      PROVE  nodes = AnonsIn(Made)
  <2>1. nodes \in SUBSET Node  BY <1>1 DEF AnonsIn
  <2>2. NoAnonExtra  BY DEF AnonPlaces
  <2>3. Known \subseteq nodes  BY <1>1, <1>5, <2>1, <2>2 DEF NoAnonExtra, ReachableAnons
  <2> QED  BY <1>2, <2>3
<1>6. ASSUME Unambiguous PROVE FunctionOnce
  <2>1. ~Tangled  BY <1>1, <1>6 DEF Tangled, Unambiguous
  <2> QED  BY <1>3, <2>1 DEF AnonPlaces, EachOnce, OnePlace
<1> QED  BY <1>4, <1>5, <1>6 DEF AnonsAsReachable

(* The file holds exactly the functions that the package calls for: the    *)
(* methods always; those of the anonymous structs if these are narrow      *)
(* enough for an iterator whose queue starts over in the array it ranges   *)
(* over (main.go:1123), each once unless two fields come to one name.      *)
THEOREM FileAsReachable == Spec => []EmittedAsReachable
<1>1. (phase = "done" => MethodsAsReachable) /\ TypeOK /\ Shape /\ AnonPlaces
      => EmittedAsReachable
  BY AnonsReached DEF EmittedAsReachable
<1> QED
  BY <1>1, MethodsReached, TypeCorrect, ShapeInvariant, AnonPlacesInvariant, PTL
=============================================================================
