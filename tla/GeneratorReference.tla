------------------------- MODULE GeneratorReference -------------------------
(***************************************************************************)
(* What the generated file should hold, told by the package alone: the     *)
(* functions reachable from the semantic comments.  No queue, map or order *)
(* appears here.                                                           *)
(***************************************************************************)
EXTENDS Generator

(* A function and the type whose fields or elements its body handles. *)
Node == [fn: FnId, type: Type]

IsMethod(x) == x.fn.type # NoType

(* The code for a type that stands for another one is that one's code. *)
StandsIn(d, c) == Descends(d, c.type) \/ UsesPod(d, c.type)

StandsFor(d, c) ==
    IF Descends(d, c.type) THEN [type |-> Sub(c.type), name |-> c.name]
    ELSE [type |-> Info(c.type).pod[d], name |-> PodName(d, c.type, c.name)]

(* The function to generate, if any, that the code for a type calls. *)
Called(d, c) ==
    IF KindOf(c.type) = "struct" THEN {[fn |-> AnonFn(d, c.name), type |-> c.type]}
    ELSE IF /\ CallsMethod(d, c.type) /\ Info(c.type).local
            /\ Info(c.type).method[d] # "user"
    THEN {[fn |-> Method(d, c.type), type |-> c.type]}
    ELSE {}

(* The function that the code for q[2] in direction q[1] ends up calling. *)
Ends[q \in Dir \X Call] ==
    IF StandsIn(q[1], q[2]) THEN Ends[<<q[1], StandsFor(q[1], q[2])>>]
                            ELSE Called(q[1], q[2])

Body(x) == IF IsMethod(x) THEN MethodBody(x.fn.dir, x.type)
                          ELSE Fields(x.type, x.fn.name)

(* What the i-th call of a body ends up calling, and the whole body. *)
Callee(x, i) == Ends[<<x.fn.dir, Body(x)[i]>>]

Callees(x) == UNION {Callee(x, i) : i \in DOMAIN Body(x)}

(* The methods among the nodes, the functions of anonymous structs. *)
MethodsIn(nodes) == {x \in nodes : IsMethod(x)}

AnonsIn(nodes) == {x \in nodes : ~IsMethod(x)}

CalledBy(nodes) == UNION {Callees(x) : x \in nodes}

Made == {[fn |-> funcs[i].fn, type |-> funcs[i].type] : i \in DOMAIN funcs}

Asked == {[fn |-> Method(n[1], n[2]), type |-> n[2]] :
             n \in UNION {MacroNeeds(src.decls[i]) : i \in DOMAIN src.decls}}

(* A set of nodes that has the ones to start from and what it calls. *)
ReachableMethods(nodes) ==
    Asked \subseteq nodes /\ MethodsIn(CalledBy(nodes)) \subseteq nodes

ReachableAnons(nodes) ==
    AnonsIn(CalledBy(MethodsIn(Made) \cup nodes)) \subseteq nodes

(* The methods of the file are the smallest set of that kind: nothing that *)
(* is reachable is missing, and nothing else is there.                     *)
MethodsAsReachable ==
    /\ ReachableMethods(MethodsIn(Made))
    /\ \A nodes \in SUBSET MethodsIn(Made) :
          ReachableMethods(nodes) => nodes = MethodsIn(Made)

AnonsAsReachable ==
    /\ ReachableAnons(AnonsIn(Made))
    /\ \A nodes \in SUBSET AnonsIn(Made) :
          ReachableAnons(nodes) => nodes = AnonsIn(Made)

(* The fields that hold an anonymous struct. *)
AnonFields(x) == {i \in DOMAIN Body(x) : AnonsIn(Callee(x, i)) # {}}

(* An anonymous struct inside an anonymous one has at most one of its own. *)
Narrow ==
    \A x \in AnonsIn(Made) :
        x \in CalledBy(AnonsIn(Made)) =>
            \A i, j \in AnonFields(x) : i = j

(* No two fields come to an anonymous struct of one name: underscores do   *)
(* not line up.                                                            *)
Unambiguous ==
    \A x, y \in Made : \A i \in AnonFields(x), j \in AnonFields(y) :
        \A a \in AnonsIn(Callee(x, i)), b \in AnonsIn(Callee(y, j)) :
            a.fn = b.fn => x = y /\ i = j

FunctionOnce == \A i, j \in DOMAIN funcs : funcs[i].fn = funcs[j].fn => i = j

(* Whatever the order of the maps, the tool stops with exactly the methods *)
(* that are reachable through methods.  If the structs are narrow enough   *)
(* for the iterator over a shared array, it also has exactly the functions *)
(* of the anonymous structs inside them, each once unless names collide.   *)
EmittedAsReachable ==
    phase = "done" =>
        /\ MethodsAsReachable
        /\ Narrow => AnonsAsReachable /\ (Unambiguous => FunctionOnce)
=============================================================================
