----------------------------- MODULE ForkOrder -----------------------------
(* The forks by their index in the activation order (the Fork enumeration  *)
(* of the protocol schema); the rules compare indices.                     *)

Byzantium == 2
Istanbul == 4
Berlin == 5
London == 6
Paris == 9
Shanghai == 10
Cancun == 11
Prague == 12
Osaka == 13
BPO1 == 14
BPO2 == 15
Amsterdam == 16
=============================================================================
