------------------------------- MODULE WorkSet -------------------------------
(***************************************************************************)
(* What the worklist of a code generator promises, with no data structure  *)
(* behind it.  A need is requested at most once, it is completed at most   *)
(* once and only after it was requested, and nothing that was requested is *)
(* ever forgotten: a need leaves `pending' only by entering `done'.        *)
(*                                                                         *)
(* Generator.tla implements this specification with the seen map, the two  *)
(* maps of typeNeedsIterator and the recursion of the renderers            *)
(* (src/cmd/pggen/main.go).                                                *)
(***************************************************************************)

CONSTANT Need          \* everything that may ever be requested

VARIABLES pending,     \* requested and not yet completed
          done         \* completed

vars == <<pending, done>>

TypeOK == pending \subseteq Need /\ done \subseteq Need

Init == pending = {} /\ done = {}

(* Some needs nobody asked for before are requested. *)
Request == /\ pending' \subseteq Need
           /\ pending \subseteq pending'
           /\ (pending' \ pending) \cap done = {}
           /\ done' = done

(* One pending need is completed. *)
Complete == \E n \in pending : /\ pending' = pending \ {n}
                               /\ done' = done \cup {n}

Next == Request \/ Complete

Spec == Init /\ [][Next]_vars
=============================================================================
