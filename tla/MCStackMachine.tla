--------------------------- MODULE MCStackMachine ---------------------------
(* Words of two bytes of two bits; offsets and lengths are words, so that  *)
(* windows within, across and beyond the memory limit all occur.           *)
EXTENDS StackMachine

(* Prices that differ, small enough for a nested frame to live on a word   *)
(* of gas.                                                                 *)
MCPrice ==
    [base |-> 1, verylow |-> 2, low |-> 3, mid |-> 4, exp |-> 5, expbyte |-> 6,
     blockhash |-> 7, warm |-> 8, cold |-> 9, copyword |-> 3]
MCEnv ==
    [address |-> 1, origin |-> 2, caller |-> 3, value |-> 4, gasprice |-> 5, coinbase |-> 6,
     timestamp |-> 7, number |-> 8, slot |-> 9, randao |-> 10, gaslimit |-> 11, chainid |-> 12,
     basefee |-> 13, blobfee |-> 14, balance |-> 15, created |-> 9]
MCExternal == [balance |-> 6, codehash |-> 11]
MCInput == <<1, 2, 3>>
MCCode == <<3, 2, 1, 2, 3>>
MCExternalCode == <<2, 2>>
MCBlockHashes == <<5, 7>>
MCBlobHashes == <<4>>

(* One frame with operands, bottom first. *)
Alone ==
    [stacks |-> {<<>>, <<0>>, <<9>>, [i \in 1 .. STACK_LIMIT |-> i % 4]}
                  \cup {<<b, a>> : a, b \in {0, 3, 15}}
                  \cup {<<c, b, a>> : a, b, c \in {0, 2, 9}}
                  \cup {<<b, a, 2, 1>> : a, b \in {0, 2, 7}},
     gas |-> {2, 11, 40, 800, 3000},
     memories |-> {<<>>, <<1, 2, 3>>},
     pushed |-> {<<0>>, <<1>>},
     depth |-> 0,
     steps |-> 2,
     families |-> {"compute", "memory", "copy", "returndata", "log", "shuffle", "halt"}]

(* A caller with the operands of two calls: gas, address, value, input and *)
(* output windows; the stack holds them bottom first.                      *)
CallOperands(g, inoff, inlen, outoff, outlen) == <<outlen, outoff, inlen, inoff, 0, 1, g>>
Calls ==
    [stacks |-> {CallOperands(14, 1, 1, 0, 1) \o CallOperands(15, 0, 2, 1, 2),
                 <<2, 0, 0>> \o CallOperands(14, 0, 1, 1, 3)},
     gas |-> {40},
     memories |-> {<<1, 2>>},
     pushed |-> {<<3, 0>>, <<2, 1>>},
     depth |-> 1,
     steps |-> 6,
     families |-> {"memory", "call", "create", "halt", "returndata"}]

(* Every pair of words, and some moduli.                                   *)
Arithmetic ==
    [stacks |-> {<<n, b, a>> : a, b \in Word, n \in {0, 1, 7, 15}},
     gas |-> {3000},
     memories |-> {<<>>},
     pushed |-> {},
     depth |-> 0,
     steps |-> 1,
     families |-> {"compute"}]

MCScenes == {Alone, Calls, Arithmetic}
=============================================================================
