---------------------------- MODULE HeaderChain ----------------------------
(***************************************************************************)
(* What a payload is allowed to know of the chain below it: the headers of *)
(* the witness, walked oldest first (lib/ssz/stateless_input.py), the      *)
(* table of ancestor hashes they fill, the checks of the payload's header  *)
(* against its parent (executor/payload.py) and the BLOCKHASH instruction  *)
(* that reads the table (kernel/environment.py).                           *)
(*                                                                         *)
(* A header is the fields the walk reads, the number of its fields, which  *)
(* grows with the forks, and its hash.  The chain is what the network      *)
(* agreed on; a witness is any list of headers.                            *)
(***************************************************************************)
EXTENDS ForkOrder, Naturals, Sequences

CONSTANTS
    BlobGas,            \* 2^17, the gas of one blob
    WordBits,           \* 256
    Fractions,          \* base_fee_update_fraction: Cancun, Prague, BPO1, BPO2
    NumericOverflow, InvalidConfig,     \* reasons of fatal_error
    Forks,              \* the forks the chain passes through
    MaxChain,           \* blocks of the chain
    DearFee,            \* a base fee above the reserve price of blobs
    Window,             \* 256, ancestors BLOCKHASH reaches, headers of a witness
    WitnessDeficient, RlpDecode, InvalidGasUsed, InvalidParentHash,
    InvalidBlobGasUsed, InvalidExcessBlobGas, InvalidBlockHash,
    NoReason            \* no fatal_error yet

ASSUME HeaderChainAssumption ==
    /\ {BlobGas, WordBits, Window, MaxChain, DearFee} \subseteq Nat \ {0}
    /\ \A i \in 1 .. 4 : Fractions[i] \in Nat \ {0}
    /\ Forks \subseteq Berlin .. Amsterdam
    /\ NoReason \notin {NumericOverflow, InvalidConfig, WitnessDeficient, RlpDecode,
                        InvalidGasUsed, InvalidParentHash, InvalidBlobGasUsed,
                        InvalidExcessBlobGas, InvalidBlockHash}

VARIABLES
    chain,              \* the agreed headers, block i at index i
    phase,              \* "chain", "index", "validate", "execute" or "fatal"
    reason,             \* of fatal_error
    payload,            \* k_header and the hash the request names
    witness,            \* the header list of the witness
    index,              \* WitnessHeaderIndex
    ancestors,          \* the host's ancestor hashes
    k_n_headers,
    answer              \* the last BLOCKHASH: number asked, hash returned

below == <<chain, phase, reason, payload, witness, index, ancestors, k_n_headers, answer>>

-----------------------------------------------------------------------------
(* The blob gas of a block: the schedule of each fork                      *)
(* (primitives/chain_config.py), the price of blob gas and the excess the  *)
(* header of the next block must carry (evm/gas.py).  Counts of blobs are  *)
(* those of the code; the width of a word and the update fractions are     *)
(* parameters, so that prices near the end of the word are within reach.   *)
blob_schedule(target, max, fraction) ==
    [target |-> target, max |-> max, fraction |-> fraction]
Schedule(fork) ==
    CASE fork < Cancun -> blob_schedule(0, 0, 1)
      [] fork = Cancun -> blob_schedule(3, 6, Fractions[1])
      [] fork \in {Prague, Osaka} -> blob_schedule(6, 9, Fractions[2])
      [] fork = BPO1 -> blob_schedule(10, 15, Fractions[3])
      [] fork >= BPO2 -> blob_schedule(14, 21, Fractions[4])

compute_profile_excess_blob_gas_limit(fork) ==
    IF fork < Cancun THEN 0
    ELSE WordBits * Schedule(fork).fraction
            + (Schedule(fork).max - Schedule(fork).target) * BlobGas

-----------------------------------------------------------------------------
(* fraction * e^(numerator / fraction), term by term, until a term is zero *)
(* or the sum stands for a price beyond a word.                            *)
ExpTerms(fraction, numerator) ==
    LET limit == fraction * 2^WordBits
        from[i \in Nat, term \in Nat, output \in Nat] ==
            IF term = 0 THEN output
            ELSE IF term >= limit \/ output + term >= limit \/ i >= limit
            THEN NumericOverflow
            ELSE from[i + 1, (term * numerator) \div (fraction * i), output + term]
    IN  from[1, fraction, 0]

fake_exponential_word(schedule, numerator) ==
    LET output == ExpTerms(schedule.fraction, numerator)
    IN  IF output = NumericOverflow THEN output ELSE output \div schedule.fraction

blob_base_fee(fork, excess) ==
    IF fork >= Cancun /\ excess <= compute_profile_excess_blob_gas_limit(fork)
    THEN fake_exponential_word(Schedule(fork), excess)
    ELSE InvalidConfig

(* EIP-7918 from Osaka on: while execution gas is the dearer part, blobs   *)
(* below the target do not lower the excess.                               *)
ReservePriced(fork, price, base_fee) == fork >= Osaka /\ 16 * price < base_fee

next_excess_blob_gas(fork, excess, used, base_fee) ==
    LET s == Schedule(fork)
        price == blob_base_fee(fork, excess)
        next == IF ReservePriced(fork, price, base_fee)
                THEN excess + (used * (s.max - s.target)) \div s.max
                ELSE excess + used - BlobGas * s.target
    IN  IF excess + used < BlobGas * s.target THEN 0
        ELSE IF price \in {NumericOverflow, InvalidConfig} THEN price
        ELSE IF next <= compute_profile_excess_blob_gas_limit(fork) THEN next
        ELSE InvalidConfig

-----------------------------------------------------------------------------
ZERO_HASH == 0
keccak256(header) == header.id

(* Positions of the fields the walk reads. *)
PARENT_HASH == 0
STATE_ROOT == 3
BASE_FEE == 15
BLOB_GAS_USED == 17
EXCESS_BLOB_GAS == 18

Has(header, field) == field < header.fields

(* Every header is held to the limits of the block being executed. *)
decode_parent_header_fields(header) ==
    /\ Has(header, BLOB_GAS_USED) =>
         header.blob % BlobGas = 0 /\ header.blob <= BlobGas * Schedule(payload.fork).max
    /\ Has(header, EXCESS_BLOB_GAS) =>
         header.excess <= compute_profile_excess_blob_gas_limit(payload.fork)

EMPTY_INDEX(headers) ==
    [at |-> 0, previous |-> ZERO_HASH, valid |-> headers # <<>>, parent_valid |-> FALSE,
     state_root |-> ZERO_HASH, base_fee |-> 0, blob |-> 0, excess |-> 0]

Fields(header, field, value) == IF Has(header, field) THEN value ELSE 0

(* The newest header gives the execution context; from Cancun on it has a  *)
(* base fee, and both blob fields or neither.                              *)
ParentContext(i, header) ==
    [i EXCEPT !.state_root = Fields(header, STATE_ROOT, header.root),
              !.base_fee = Fields(header, BASE_FEE, header.base_fee),
              !.blob = Fields(header, BLOB_GAS_USED, header.blob),
              !.excess = Fields(header, EXCESS_BLOB_GAS, header.excess),
              !.parent_valid =
                  /\ Has(header, STATE_ROOT)
                  /\ payload.fork >= Cancun =>
                       /\ Has(header, BASE_FEE)
                       /\ Has(header, BLOB_GAS_USED) = Has(header, EXCESS_BLOB_GAS)]

MutLinked(i, header) ==
    i.at <= 1 \/ (Has(header, PARENT_HASH) /\ header.parent = i.previous)
Linked(i, header) ==
    i.at = 0 \/ (Has(header, PARENT_HASH) /\ header.parent = i.previous)

-----------------------------------------------------------------------------
(* The next block of the chain is agreed on.                               *)
Extend(header) ==
    /\ phase = "chain"
    /\ chain' = Append(chain, header)
    /\ UNCHANGED <<phase, reason, payload, witness, index, ancestors, k_n_headers, answer>>

(* fatal_error: the run ends with this reason. *)
Refuse(r) ==
    /\ phase' = "fatal" /\ reason' = r
    /\ UNCHANGED <<chain, payload, witness, index, ancestors, k_n_headers, answer>>

decode_payload_blob_gas_used(p) ==
    p.blob % BlobGas = 0 /\ p.blob <= BlobGas * Schedule(p.fork).max
decode_payload_excess_blob_gas(p) ==
    p.excess <= compute_profile_excess_blob_gas_limit(p.fork)

(* decode_stateless_input: the header fields with a range, then the walk.  *)
Submit(p, w) ==
    /\ phase = "chain"
    /\ payload' = p /\ witness' = w
    /\ index' = EMPTY_INDEX(w)
    /\ reason' = IF ~decode_payload_blob_gas_used(p) THEN InvalidBlobGasUsed
                 ELSE IF ~decode_payload_excess_blob_gas(p) THEN InvalidExcessBlobGas
                 ELSE NoReason
    /\ phase' = IF reason' = NoReason THEN "index" ELSE "fatal"
    /\ UNCHANGED <<chain, ancestors, k_n_headers, answer>>

(* One header: its fields are read unless it is the oldest and not the     *)
(* newest; its hash is filed under its distance from the payload.          *)
index_witness_header_cursor ==
    /\ phase = "index" /\ index.at < Len(witness)
    /\ LET header == witness[index.at + 1]
           last == index.at + 1 = Len(witness)
           read == index.at # 0 \/ last
           linked == [index EXCEPT !.valid = @ /\ Linked(index, header)]
           context == IF last THEN ParentContext(linked, header) ELSE linked
           distance == Len(witness) - (index.at + 1)
       IN  IF read /\ ~decode_parent_header_fields(header)
           THEN Refuse(RlpDecode)
           ELSE /\ index' = [context EXCEPT !.at = @ + 1, !.previous = keccak256(header)]
                /\ ancestors' = IF distance < Window
                                THEN [ancestors EXCEPT ![distance] = keccak256(header)]
                                ELSE ancestors
                /\ UNCHANGED <<chain, phase, reason, payload, witness, k_n_headers, answer>>

index_witness_headers ==
    /\ phase = "index" /\ index.at = Len(witness)
    /\ k_n_headers' = Len(witness)
    /\ reason' = IF ~index.valid THEN WitnessDeficient
                 ELSE IF ~index.parent_valid THEN RlpDecode ELSE NoReason
    /\ phase' = IF reason' = NoReason THEN "validate" ELSE "fatal"
    /\ UNCHANGED <<chain, payload, witness, index, ancestors, answer>>

expected_payload_excess_blob_gas ==
    next_excess_blob_gas(payload.fork, index.excess, index.blob, index.base_fee)

(* The expected excess is computed on every fork, and may end the run.     *)
validate_execution_payload ==
    /\ phase = "validate"
    /\ LET expected == expected_payload_excess_blob_gas
       IN  reason' =
             IF payload.gas_limit < payload.gas_used THEN InvalidGasUsed
             ELSE IF index.previous # payload.parent THEN InvalidParentHash
             ELSE IF expected \in {NumericOverflow, InvalidConfig} THEN expected
             ELSE IF payload.fork >= Cancun /\ payload.excess # expected
                  THEN InvalidExcessBlobGas
             ELSE IF payload.fork >= Paris /\ keccak256(payload) # payload.expected_hash
                  THEN InvalidBlockHash
             ELSE NoReason
    /\ phase' = IF reason' = NoReason THEN "execute" ELSE "fatal"
    /\ UNCHANGED <<chain, payload, witness, index, ancestors, k_n_headers, answer>>

(* Zero outside the window; inside it the witness has to reach far enough. *)
k_blockhash(number) ==
    /\ phase = "execute"
    /\ LET distance == payload.number - number
       IN  IF number < payload.number /\ distance <= Window /\ k_n_headers < distance
           THEN Refuse(WitnessDeficient)
           ELSE /\ answer' = [number |-> number,
                              hash |-> IF number < payload.number /\ distance <= Window
                                       THEN ancestors[distance - 1] ELSE ZERO_HASH]
                /\ UNCHANGED <<chain, phase, reason, payload, witness, index,
                               ancestors, k_n_headers>>

Ended == phase \in {"execute", "fatal"} /\ UNCHANGED below

-----------------------------------------------------------------------------
(* The network: the blocks it agrees on, and the requests made of it.  The *)
(* excess a block owes is the rule of EIP-4844 and EIP-7918 over numbers   *)
(* without a width.                                                        *)
ExactPrice(fork, excess) ==
    LET f == Schedule(fork).fraction
        from[i \in Nat, term \in Nat] ==
            IF term = 0 THEN 0 ELSE term + from[i + 1, (term * excess) \div (f * i)]
    IN  from[1, f] \div f

DueExcess(fork, parent) ==
    LET s == Schedule(fork)
        blobs == parent.blob \div BlobGas
    IN  IF fork < Cancun \/ parent.excess + parent.blob < BlobGas * s.target THEN 0
        ELSE IF fork >= Osaka /\ parent.base_fee > 16 * ExactPrice(fork, parent.excess)
        THEN parent.excess + (BlobGas * blobs * (s.max - s.target)) \div s.max
        ELSE parent.excess + parent.blob - BlobGas * s.target

(* Fields of a block header: London, Shanghai, Cancun, Prague and          *)
(* Amsterdam each append theirs.                                           *)
HeaderFieldCount(fork) ==
    CASE fork = Berlin -> 15
      [] fork > Berlin /\ fork < Shanghai -> 16
      [] fork = Shanghai -> 17
      [] fork = Cancun -> 20
      [] fork > Cancun /\ fork < Amsterdam -> 21
      [] fork >= Amsterdam -> 23

Block(id, parent, fork, base_fee, blob, excess) ==
    [id |-> id, parent |-> parent, fork |-> fork, fields |-> HeaderFieldCount(fork),
     root |-> id, base_fee |-> base_fee, blob |-> blob, excess |-> excess]

Parent == chain[Len(chain)]

(* The next blocks that follow the rules: of the parent's fork or of the   *)
(* fork after it, empty and cheap or full and dear.                        *)
LaterForks == {f \in Forks : f >= Parent.fork
                /\ \A g \in Forks : (g > Parent.fork /\ g # f) => g > f \/ f = Parent.fork}
NextBlocks ==
    UNION { {Block(Len(chain) + 1, Parent.id, f, 1, 0, DueExcess(f, Parent)),
             Block(Len(chain) + 1, Parent.id, f, DearFee, BlobGas * Schedule(f).max,
                   DueExcess(f, Parent))} : f \in LaterForks }

Request(b) == [id |-> b.id, parent |-> b.parent, fork |-> b.fork, fields |-> b.fields,
               root |-> b.root, base_fee |-> b.base_fee, blob |-> b.blob,
               excess |-> b.excess, number |-> Len(chain) + 1, gas_limit |-> 1,
               gas_used |-> 1, expected_hash |-> b.id]

Honest == {Request(b) : b \in NextBlocks}
Dishonest ==
    UNION { {[p EXCEPT !.excess = @ + 1], [p EXCEPT !.blob = @ + 1],
             [p EXCEPT !.parent = ZERO_HASH], [p EXCEPT !.gas_used = 2],
             [p EXCEPT !.expected_hash = ZERO_HASH]} : p \in Honest }

Suffix(n) == SubSeq(chain, Len(chain) - n + 1, Len(chain))
ChainEnds == {Suffix(n) : n \in 1 .. (IF Len(chain) < Window THEN Len(chain) ELSE Window)}

(* Headers that are not of the chain, with hashes of their own: another    *)
(* base fee, no state root, or blob gas without the excess.                *)
Forged(h) == {[h EXCEPT !.id = MaxChain + @, !.base_fee = @ + 1],
              [h EXCEPT !.id = 2 * MaxChain + @, !.fields = STATE_ROOT],
              [h EXCEPT !.id = 3 * MaxChain + @, !.fields = EXCESS_BLOB_GAS]}
Without(w, i) == [j \in 1 .. Len(w) - 1 |-> IF j < i THEN w[j] ELSE w[j + 1]]
Damaged(w) ==
    {Without(w, i) : i \in 1 .. Len(w)}
        \cup {[w EXCEPT ![i] = w[j]] : i \in 1 .. Len(w), j \in 1 .. Len(w)}
        \cup UNION { {[w EXCEPT ![i] = h] : h \in Forged(w[i])} : i \in 1 .. Len(w) }

HeadersUnread ==
    /\ phase = "chain" /\ reason = NoReason
    /\ payload = [Block(0, 0, Berlin, 0, 0, 0) EXCEPT !.root = 0]
    /\ witness = <<>> /\ index = EMPTY_INDEX(<<>>)
    /\ ancestors = [d \in 0 .. Window - 1 |-> ZERO_HASH]
    /\ k_n_headers = 0
    /\ answer = [number |-> 0, hash |-> ZERO_HASH]

HeaderInit ==
    /\ HeadersUnread
    /\ \E f \in Forks : \E e \in {0, 4 * Schedule(f).fraction,
                                     compute_profile_excess_blob_gas_limit(f)} :
          chain = <<Block(1, ZERO_HASH, f, 1, BlobGas * Schedule(f).max,
                          IF f < Cancun THEN 0 ELSE e)>>

HeaderNext ==
    \/ /\ phase = "chain"
       /\ \/ Len(chain) < MaxChain /\ \E b \in NextBlocks : Extend(b)
          \/ \E p \in Honest : \E w \in ChainEnds \cup UNION {Damaged(s) : s \in ChainEnds} :
                Submit(p, w)
          \/ \E p \in Dishonest : \E w \in ChainEnds : Submit(p, w)
    \/ index_witness_header_cursor
    \/ index_witness_headers
    \/ validate_execution_payload
    \/ \E n \in 1 .. MaxChain + 1 : k_blockhash(n)
    \/ Ended

HeaderSpec == HeaderInit /\ [][HeaderNext]_below

-----------------------------------------------------------------------------
Genuine == witness \in ChainEnds /\ payload \in Honest
Price == ExactPrice(payload.fork, Parent.excess)

(* BLOCKHASH answers with the hash of the block of that number, or zero    *)
(* outside the window, whatever headers the witness brought: hashes filed  *)
(* by their distance from the end of a list of unknown length are those of *)
(* the chain once the list hangs together and ends in the parent.          *)
BlockhashIsTheAncestor ==
    answer.number # 0 =>
        answer.hash = IF answer.number < payload.number
                            /\ payload.number - answer.number <= Window
                      THEN chain[answer.number].id ELSE ZERO_HASH

(* Only a piece of the chain itself is accepted as a witness, although the *)
(* fields of its oldest header are never read, and execution starts from   *)
(* the state of the true parent.                                           *)
AcceptedIsOfTheChain ==
    phase = "execute" => witness \in ChainEnds /\ index.state_root = Parent.root

(* The excess blob gas of an accepted payload is the one due after its     *)
(* true parent.                                                            *)
ExcessIsDue ==
    phase = "execute" /\ payload.fork >= Cancun =>
        payload.excess = DueExcess(payload.fork, Parent)

(* A block that follows the rules, with a piece of the chain for a         *)
(* witness, is not refused: not at a fork where the schedule changes under *)
(* the limits its ancestors are held to, not where they have no blob       *)
(* fields yet, and not by the bound on the excess, which only a price      *)
(* beyond a word exceeds.  BLOCKHASH may still find the witness short.     *)
FollowsTheRules ==
    phase = "fatal" /\ Genuine =>
        \/ Price >= 2^WordBits
        \/ /\ reason = WitnessDeficient
           /\ Len(witness) < Len(chain) /\ Len(witness) < Window
ValidBlocksAreAccepted == payload.fork >= Cancun => FollowsTheRules

(* The witness is trusted exactly as far as it hangs together: what is     *)
(* accepted is of the chain, what is asked of it later is answered from    *)
(* the chain, and what follows the rules is not refused                    *)
(* (index_witness_headers, validate_execution_payload, k_blockhash).       *)
OnlyTheChainIsAccepted ==
    AcceptedIsOfTheChain /\ ExcessIsDue /\ BlockhashIsTheAncestor /\ ValidBlocksAreAccepted

(* The same of every fork a schema selects, from Berlin on: the README of  *)
(* the repository counts them among the forks that are run.                *)
ValidBlocksOfEveryFork == FollowsTheRules
=============================================================================
