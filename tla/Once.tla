-------------------------------- MODULE Once --------------------------------
(***************************************************************************)
(* What a piece of work shared by several callers promises: it is begun at *)
(* most once, its outcome is fixed when it is ended, and every caller who  *)
(* asks is told that outcome, and nothing before it is there.              *)
(*                                                                         *)
(* Loader.tla implements this specification with the flag word and the     *)
(* wait items of a Package (src/cmd/pggen/main.go).                        *)
(***************************************************************************)

CONSTANTS Caller,      \* who asks
          Work,        \* the pieces of work
          Outcome      \* how one may end

VARIABLES begun,       \* the work somebody has begun
          ended,       \* <<w, o>>: w has ended with o
          told         \* <<c, w, o>>: c was told that w has ended with o

vars == <<begun, ended, told>>

Init == begun = {} /\ ended = {} /\ told = {}

Begin(w) == /\ w \notin begun
            /\ begun' = begun \cup {w}
            /\ UNCHANGED <<ended, told>>

(* Whoever does the work is told its outcome as it ends. *)
End(c, w, o) == /\ w \in begun
                /\ \A p \in Outcome : <<w, p>> \notin ended
                /\ ended' = ended \cup {<<w, o>>}
                /\ told' = told \cup {<<c, w, o>>}
                /\ begun' = begun

Tell(c, w, o) == /\ <<w, o>> \in ended
                 /\ told' = told \cup {<<c, w, o>>}
                 /\ UNCHANGED <<begun, ended>>

Next == \/ \E w \in Work : Begin(w)
        \/ \E c \in Caller, w \in Work, o \in Outcome : End(c, w, o) \/ Tell(c, w, o)

Spec == Init /\ [][Next]_vars
=============================================================================
