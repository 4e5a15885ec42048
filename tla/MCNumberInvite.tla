----------------------------- MODULE MCNumberInvite -----------------------------
EXTENDS NumberInvite, TLC

\* The companies are alike.
CompanySymmetry == Permutations(Companies)
=============================================================================
