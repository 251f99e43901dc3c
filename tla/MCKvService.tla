---------------------------- MODULE MCKvService ----------------------------
EXTENDS KvService, TLC

ServiceSymmetry == Permutations(Replica) \cup Permutations(Call)
=============================================================================
