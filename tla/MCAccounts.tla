------------------------------ MODULE MCAccounts ------------------------------
EXTENDS Accounts, TLC

Symmetry == Permutations(Users) \cup Permutations(Keys) \cup Permutations(Requests)
=============================================================================
