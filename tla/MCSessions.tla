----------------------------- MODULE MCSessions -----------------------------
(* One browser with two tabs; the calls are all made in the first. *)
EXTENDS Sessions, TLC

CONSTANTS b1, t1

MCBrowserOf == [t \in Tab |-> b1]
MCTabOf     == [c \in Call |-> t1]
Symmetry    == Permutations(User) \cup Permutations(Call)
=============================================================================
