------------------------------- MODULE MCCode -------------------------------
(* What the interpreter runs and what it charges: walks over all codes of  *)
(* up to four bytes among those that steer a walk, and over codes that     *)
(* first fill the stack deep enough for EIP-8024 operands; charges and     *)
(* memory growth; pairs of precompile calls.  A behaviour has one of these *)
(* parts, the others are at rest.                                          *)
EXTENDS CodeWalk, GasCharges

VARIABLE part
vars == <<walk, charges, precompiles, part>>

MCForks == {9, 16}
MCCalldataSizes == {1, 3, 19}
MCBytes == {54, 86, 87, 88, 91, 96, 97, 230, 232}
MCPrefix == [i \in 1 .. 18 |-> 54]
MCCodes ==
    UNION {[1 .. n -> MCBytes] : n \in 1 .. 4}
    \cup {MCPrefix \o b : b \in {<<230, 128>>, <<231, 129>>, <<231, 128>>, <<232, 142>>,
                                 <<232, 90, 91>>, <<230, 91>>, <<232, 4>>,
                                 <<86, 91, 231, 128>>, <<87, 96>>, <<12>>, <<95, 86>>}}

(* The beginnings of the tables, and their last entries.                   *)
MCDiscounts == <<1000, 949, 848, 797, 519>>
MCG2Discounts == <<1000, 1000, 923, 884, 524>>
MCOffsets == {0, 1, 31, 32, 100, 640, 1150, 999990, 1000000}
MCSizes == {0, 1, 32, 33, 64, 1000, 24576, 24577}
MCBudgets == {0, 10, 199, 200, 499, 500, 700, 3000, 12345, 200000, 5600000, 700000000}
MCPairCounts == {0, 1, 2, 3, 4, 5, 10, 150}
ModexpLengths == {0, 1, 8, 32, 33, 64, 1024, 1025}
MCModexpInputs ==
    {[bl |-> b, el |-> e, ml |-> m, len |-> l, bits |-> h] :
        b \in ModexpLengths, e \in {0, 1, 32, 33, 1024}, m \in ModexpLengths,
        l \in {96, 97, 2000}, h \in {0, 1, 2, 256}}
    \cup {[bl |-> 0, el |-> e, ml |-> m, len |-> 96, bits |-> 0] :
            e \in {2097120, 2100000, 3000000}, m \in {0, 1, 9}}

MCPrecompileForks == {5, 12, 13}
Plain(len) == [len |-> len, dirty |-> len, byte |-> 0, rounds |-> 0, accelerator |-> 1,
               bl |-> 0, el |-> 0, ml |-> 0, bits |-> 0]

(* Lengths around those each precompile knows. *)
Lengths(n) ==
    CASE n \in BLS -> {0, ItemSize(n) - 1, ItemSize(n), 2 * ItemSize(n), 2 * ItemSize(n) + 32}
      [] n = Bn254Pairing -> {0, 191, 192, 384}
      [] n = Blake2f -> {212, 213, 214}
      [] n = KzgPointEvaluation -> {191, 192}
      [] n = P256Verify -> {159, 160}
      [] n \notin BLS \cup {Bn254Pairing, Blake2f, KzgPointEvaluation, P256Verify} -> {0, 33, 128}

(* In every run of 16 bytes of an encoded point the first or the last may  *)
(* be the one that is not zero.                                            *)
MCInputs(n) ==
    IF n \in BLS
    THEN UNION {{[Plain(l) EXCEPT !.dirty = 16 * i + 15 * (i % 2), !.accelerator = 3] :
                    i \in 0 .. l \div 16 - 1} : l \in Lengths(n)}
         \cup {[Plain(l) EXCEPT !.accelerator = a] : l \in Lengths(n), a \in 0 .. 3}
    ELSE IF n = Modexp
    THEN {[Plain(96 + b + m) EXCEPT !.bl = b, !.ml = m, !.el = e, !.bits = 1, !.accelerator = a] :
             b \in {0, 32}, e \in {0, 1, 1025}, m \in {0, 1, 64}, a \in {0, 1}}
    ELSE {[Plain(l) EXCEPT !.byte = b, !.rounds = r, !.accelerator = a] :
             l \in Lengths(n), b \in {0, 1, 2, 28}, r \in {12, 99000000}, a \in 0 .. 3}

NoWalk == code = <<>> /\ fork = 16 /\ size = 0 /\ WalkStart
NoPrecompile == active_fork = 13 /\ PrecompilesInit
Init ==
    /\ ChargesInit
    /\ \/ part = "walk" /\ WalkInit /\ NoPrecompile
       \/ part = "charges" /\ NoWalk /\ NoPrecompile
       \/ part = "precompiles" /\ NoWalk /\ PrecompilesInit

Next ==
    /\ \/ part = "walk" /\ WalkNext /\ UNCHANGED <<charges, precompiles>>
       \/ part = "charges" /\ ChargesNext /\ UNCHANGED <<walk, precompiles>>
       \/ part = "precompiles" /\ PrecompilesNext /\ UNCHANGED <<walk, charges>>
    /\ UNCHANGED part

Spec == Init /\ [][Next]_vars
=============================================================================
