----------------------------- MODULE MCGenerator -----------------------------
(***************************************************************************)
(* Packages to run the generator on.  A type is the string that Go would   *)
(* print for it; its description is one of the constructors below.         *)
(***************************************************************************)
EXTENDS GeneratorReference, TLC

MCPart == STRING

MCType ==
    {"string", "int", "bool", "byte", "complex", "chan", "error",
     \* example/types/container.go
     "Keks", "[]Kek", "Kek", "Kek{}", "NamedSlice", "[]string", "MyPod1",
     "NullableMyPod1", "*MyPod1", "SubMyPod1", "*SubMyPod1", "MyPod2", "MyPod3", "Pod{}",
     "Option", "Option{}", "BadThing{}", "[]Lol{}", "Lol{}", "ShaDigest",
     "NullString", "*uintptr", "Lossy",
     \* recursive types
     "Tree", "Tree{}", "*Tree", "Node", "Node{}", "[]Tree", "Meta{}", "map", "Entry{}",
     \* deep nesting
     "S", "S{}", "A{}", "B1{}", "B2{}", "C1{}", "C2{}", "T", "T{}",
     \* types the tool refuses
     "[]Alias", "Alias", "Refused", "Refused{}", "Odd{}", "External"}

(* Constructors of type descriptions. *)
Plain(k) == [kind |-> k, sub |-> "string", fields |-> <<>>, name |-> <<>>,
             local |-> FALSE, method |-> [d \in Dir |-> "none"],
             pod |-> [d \in Dir |-> NoType], podForm |-> "ret"]
Of(k, t) == [Plain(k) EXCEPT !.sub = t]
Struct(fs) == [Plain("struct") EXCEPT !.fields = fs]
F(n, t) == [name |-> <<n>>, type |-> t]
Named(n, t) == [Of("named", t) EXCEPT !.name = <<n>>, !.local = TRUE]
With(info, m) == [info EXCEPT !.method = [d \in Dir |-> m]]
Pod(info, from, to, form) == [info EXCEPT !.pod = ("Scan" :> from) @@ ("Value" :> to),
                                          !.podForm = form]

(* Constructors of declarations. *)
Gen(d) == [op |-> "generate", dir |-> d]
Exc(d) == [op |-> "exclude", dir |-> d]
Spec_(t, doc) == [type |-> t, documented |-> doc # <<>>, doc |-> doc]
Bare(t) == [type |-> t, documented |-> FALSE, doc |-> <<>>]
Remark(t) == [type |-> t, documented |-> TRUE, doc |-> <<>>]
Group(doc, specs) == [doc |-> doc, specs |-> specs]

Common ==
    ("string" :> Plain("basic")) @@ ("int" :> Plain("basic"))
    @@ ("bool" :> Plain("basic")) @@ ("byte" :> Plain("byte"))
    @@ ("complex" :> Plain("complex")) @@ ("chan" :> Plain("other"))
    @@ ("error" :> Plain("scanner")) @@ ("[]string" :> Of("slice", "string"))
    @@ ("NullString" :> With([Named("NullString", "Odd{}") EXCEPT !.local = FALSE], "user"))
    @@ ("External" :> [Named("External", "Odd{}") EXCEPT !.local = FALSE])

Package(types, decls) ==
    [type |-> [t \in Type |-> IF t \in DOMAIN types THEN types[t]
                              ELSE IF t \in DOMAIN Common THEN Common[t]
                              ELSE Plain("basic")],
     decls |-> decls]

(* example/types/container.go, the types that its comments ask for; `m' is *)
(* what a previous run has left behind.                                    *)
Container(m) ==
    ("Keks" :> With(Named("Keks", "[]Kek"), m))
    @@ ("[]Kek" :> Of("slice", "Kek"))
    @@ ("Kek" :> With(Named("Kek", "Kek{}"), m))
    @@ ("Kek{}" :> Struct(<<F("NamedSlice", "NamedSlice"), F("MyPod1", "MyPod1"),
                            F("Nul", "NullableMyPod1"), F("MyPod2", "MyPod2"),
                            F("MyPod3", "MyPod3")>>))
    @@ ("NamedSlice" :> With(Named("NamedSlice", "[]string"), m))
    @@ ("Pod{}" :> Struct(<<F("bigThing", "string")>>))
    @@ ("MyPod1" :> Pod(Named("MyPod1", "Pod{}"), "int", "string", "out"))
    @@ ("MyPod2" :> Pod(Named("MyPod2", "Pod{}"), "string", "string", "ret"))
    @@ ("MyPod3" :> Pod(With(Named("MyPod3", "Pod{}"), m), NoType, "string", "retErr"))
    @@ ("*MyPod1" :> Of("pointer", "MyPod1"))
    @@ ("SubMyPod1" :> Pod(Named("SubMyPod1", "Pod{}"), NoType, "*MyPod1", "ret"))
    @@ ("*SubMyPod1" :> Of("pointer", "SubMyPod1"))
    @@ ("NullableMyPod1" :>
            Pod(Named("NullableMyPod1", "Pod{}"), "*MyPod1", "*SubMyPod1", "ret"))

ContainerDecls ==
    <<Group(<<>>, <<Bare("MyPod1"), Spec_("Keks", <<Gen("Scan")>>),
                    Spec_("Kek", <<Gen("Value")>>)>>),
      Group(<<Gen("Scan")>>, <<Bare("NamedSlice")>>)>>

(* The struct that container.go calls Option, with its nested structs. *)
OptionTypes ==
    ("Option" :> Named("Option", "Option{}"))
    @@ ("Option{}" :> Struct(<<F("Type", "string"), F("D", "*uintptr"),
                               F("BadThing", "BadThing{}"), F("Hash", "ShaDigest"),
                               F("Extern", "NullString"), F("Tree", "Tree"),
                               F("Lossy", "Lossy")>>))
    @@ ("*uintptr" :> Of("pointer", "int"))
    @@ ("BadThing{}" :> Struct(<<F("Kek", "string"), F("Lol", "[]Lol{}")>>))
    @@ ("[]Lol{}" :> Of("slice", "Lol{}"))
    @@ ("Lol{}" :> Struct(<<F("Kek", "string"), F("Hash", "ShaDigest")>>))
    @@ ("Lossy" :> Pod(With(Named("Lossy", "Pod{}"), "user"), NoType, "Tree", "many"))
    @@ ("ShaDigest" :> With(Named("ShaDigest", "[]string"), "user"))
    @@ ("Tree" :> Named("Tree", "Tree{}"))
    @@ ("Tree{}" :> Struct(<<F("Left", "*Tree"), F("Node", "Node"),
                             F("Meta", "Meta{}")>>))
    @@ ("*Tree" :> Of("pointer", "Tree"))
    @@ ("Node" :> Named("Node", "Node{}"))
    @@ ("Node{}" :> Struct(<<F("Kids", "[]Tree")>>))
    @@ ("[]Tree" :> Of("array", "Tree"))
    @@ ("Meta{}" :> Struct(<<F("Owner", "Node")>>))
    @@ ("map" :> Of("map", "Entry{}"))
    @@ ("Entry{}" :> Struct(<<F("Key", "string"), F("Value", "Tree")>>))

OptionDecls == <<Group(<<Gen("Value")>>,
                       <<Spec_("Option", <<Gen("Scan")>>), Bare("Tree"),
                         Remark("Node")>>)>>

(* Every struct has at most one anonymous struct below its second level.   *)
Small == {Package(Container("none"), ContainerDecls),
          Package(Container("generated"), ContainerDecls),
          Package(OptionTypes, OptionDecls),
          Package(OptionTypes @@ ("S" :> Named("S", "S{}"))
                  @@ ("S{}" :> Struct(<<F("Index", "map"), F("Tree", "Tree"),
                                        F("A", "A{}"), F("B", "B1{}")>>))
                  @@ ("A{}" :> Struct(<<F("C", "C1{}"), F("D", "C2{}")>>))
                  @@ ("B1{}" :> Struct(<<F("E", "B2{}")>>))
                  @@ ("C1{}" :> Struct(<<F("X", "T{}")>>))
                  @@ ("C2{}" :> Struct(<<>>)) @@ ("B2{}" :> Struct(<<>>))
                  @@ ("T{}" :> Struct(<<F("Y", "NullString")>>)),
                  <<Group(<<>>, <<Spec_("S", <<Gen("Scan")>>),
                                  Spec_("Tree", <<Gen("Value"), Exc("Value"), Gen("Value")>>)>>)>>)}

(* Packages that the tool refuses, one panic each. *)
OneField(t) == ("Refused" :> Named("Refused", "Refused{}"))
               @@ ("Refused{}" :> Struct(<<F("X", "string"), F("Y", t)>>))
Ask(doc) == <<Group(<<>>, <<Remark("Node"), Spec_("Refused", doc)>>)>>
Both == <<Gen("Scan"), Gen("Value")>>

Refused ==
    {Package(OneField(t) @@ OptionTypes @@ ("Alias" :> Of("alias", "int"))
             @@ ("[]Alias" :> Of("slice", "Alias"))
             @@ ("T" :> Pod(Named("T", "T{}"), BadPOD, "chan", "out"))
             @@ ("Odd{}" :> Struct(<<F("Z", "error")>>)), Ask(<<Gen(d)>>)) :
        t \in {"Alias", "[]Alias", "byte", "complex", "chan", "error", "map",
               "External", "T", "Odd{}"}, d \in Dir}
    \cup {Package("Refused" :> Named("Refused", "map") @@ OptionTypes, Ask(Both))}
    \cup {Package(OneField("string"), Ask(doc)) :
            doc \in {<<Gen("Scan"), Gen("Scan")>>, <<Exc("Value")>>,
                     <<Gen("Scan"), Exc("Scan"), Exc("Scan")>>}}
    \cup {Package(OneField("string"), <<Group(doc, <<Bare("Refused")>>)>>) :
            doc \in {<<Exc("Scan")>>, <<Gen("Value"), Gen("Value")>>}}

(* A struct three levels deep whose second level refills the queue by more *)
(* than it has read.                                                       *)
Deep == {Package(("S" :> Named("S", "S{}"))
                 @@ ("S{}" :> Struct(<<F("A", "A{}")>>))
                 @@ ("A{}" :> Struct(<<F("B1", "B1{}"), F("B2", "B2{}")>>))
                 @@ ("B1{}" :> Struct(<<F("C1", "C1{}"), F("C2", "C2{}")>>))
                 @@ ("B2{}" :> Struct(<<F("X", "string")>>))
                 @@ ("C1{}" :> Struct(<<F("Y", "int")>>))
                 @@ ("C2{}" :> Struct(<<>>)),
                 <<Group(<<>>, <<Spec_("S", Both)>>)>>)}

(* A named type that only an anonymous struct mentions. *)
Hidden == {Package(("S" :> Named("S", "S{}"))
                   @@ ("S{}" :> Struct(<<F("A", "A{}")>>))
                   @@ ("A{}" :> Struct(<<F("Inner", "T")>>))
                   @@ ("T" :> Named("T", "T{}"))
                   @@ ("T{}" :> Struct(<<F("X", "string")>>)),
                   <<Group(<<>>, <<Spec_("S", Both)>>)>>)}

MCPrograms == Small \cup Refused \cup Deep \cup Hidden
=============================================================================
