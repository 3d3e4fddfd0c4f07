------------------------------- MODULE MCArp -------------------------------
(* Arp with two hardware addresses that differ in both their parts.        *)
EXTENDS Arp, TLC

TwoMacs == {<<1, 1>>, <<2, 2>>}
Symmetry == Permutations(Entries) \union Permutations(Ips)
=============================================================================
