------------------------------- MODULE MCArena -------------------------------
(* Two arenas with chunks of two words, asked for sizes on both sides of a *)
(* word and of a chunk.                                                    *)
EXTENDS Arena, TLC

MCSizes == {0, 5, 8, 24}
ArenaSymmetry == Permutations(Arenas)
=============================================================================
