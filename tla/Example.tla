------------------------------ MODULE Example ------------------------------
(***************************************************************************)
(* The types of src/example/types/container.go as the file that pggen has  *)
(* generated for them takes them apart                                     *)
(* (src/example/types/zz_scannervaluer.generated.go): what each Scan reads *)
(* and what Value writes.                                                  *)
(***************************************************************************)
EXTENDS Literal

String    == [kind |-> "text"]
Integer   == [kind |-> "int"]
From(t)   == [kind |-> "pod", to |-> t, ok |-> TRUE]
StructOf(ts) == [kind |-> "struct", fields |-> ts]
SliceOf(t)   == [kind |-> "slice", elem |-> t]

(* NamedSlice.Scan: a record with the array as its column. *)
NamedSliceScan == StructOf(<<SliceOf(String)>>)

(* MyPod3.Scan and MyPod4.Scan; these two have no FromPOD. *)
MyPodScan == StructOf(<<String>>)

(* Kek.Scan: NamedSlice, MyPod1, Nul, MyPod2, MyPod3, MyPod4. *)
KekScan == StructOf(<<NamedSliceScan, From(Integer),
                      From([kind |-> "ptr", to |-> From(Integer)]),
                      From(String), MyPodScan, MyPodScan>>)

(* Keks.Scan *)
KeksScan == StructOf(<<SliceOf(KekScan)>>)

(* Every ToPOD of a string returns the same one. *)
Kke == <<EnByte>>
AsPOD(g)  == [kind |-> "pod", ok |-> TRUE, to |-> g]
PtrTo(g)  == [kind |-> "ptr", to |-> g]
PodString == AsPOD([kind |-> "text", text |-> Kke])

(* Kek.Value; a Nul that is valid is a SubMyPod1, which is a MyPod1. *)
KekValue(valid) ==
    <<[kind |-> "call", answer |-> [kind |-> "panic"]],
      PodString,
      AsPOD(IF valid THEN PtrTo(AsPOD(PtrTo(PodString))) ELSE [kind |-> "nil"]),
      PodString, PodString, PodString>>
=============================================================================
