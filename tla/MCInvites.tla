------------------------------- MODULE MCInvites -------------------------------
EXTENDS Invites, TLC

Symmetry == Permutations(Actor) \cup Permutations(Org) \cup Permutations(Email)
=============================================================================
