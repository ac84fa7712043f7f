--------------------------- MODULE MCMembership ---------------------------
EXTENDS Membership, TLC

Interchangeable == Permutations(Orgs)

===========================================================================
