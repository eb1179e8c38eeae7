------------------------------- MODULE Ledger -------------------------------
(***************************************************************************)
(* What the overlays, generations and journal of WorldState promise: one   *)
(* map from addresses to accounts, each with its storage, and for every    *)
(* open scope a copy of that map to go back to.  An account that becomes   *)
(* empty loses its storage; an account created in this transaction starts  *)
(* with none; the fork says which self-destructed accounts disappear when  *)
(* the transaction ends.                                                   *)
(***************************************************************************)
EXTENDS Naturals, Sequences

CONSTANTS Addr, Slot, NoCode, Code, Value, Parent, Sender, Creatable, Fee, Reward,
          Blocks   \* the block of each fork: who is paid, the system calls, its length

VARIABLES
  world,   \* address -> account; `orig` is its storage when the transaction began
  saved,   \* the world at the entry of every open scope, outermost first
  frames, phase, calls, tx, fork

vars == <<world, saved, frames, phase, calls, tx, fork>>

NoStorage == [s \in Slot |-> 0]
Top == frames[Len(frames)]
Pop(s) == SubSeq(s, 1, Len(s) - 1)
Self == Top.addr

Empty(acc) == acc.nonce = 0 /\ acc.balance = 0 /\ acc.code = NoCode
Occupied(acc) == acc.nonce # 0 \/ acc.code # NoCode \/ acc.storage # NoStorage

(* EIP-161: what has neither nonce, balance nor code does not exist. *)
Exist(acc) == IF Empty(acc) THEN [acc EXCEPT !.storage = NoStorage, !.orig = NoStorage] ELSE acc

Credit(w, a, v) == [w EXCEPT ![a].balance = @ + v]
Debit(w, a, v) == IF v = 0 THEN w ELSE [w EXCEPT ![a] = Exist([w[a] EXCEPT !.balance = w[a].balance - v])]
Pay(w, src, dst, v) == IF src = dst THEN w ELSE Credit(Debit(w, src, v), dst, v)
Bump(w, a) == [w EXCEPT ![a].nonce = @ + 1]

Newborn(acc) ==
  [acc EXCEPT !.nonce = acc.nonce + 1, !.created = TRUE, !.storage = NoStorage, !.orig = NoStorage]
Born(w, creator, a, v) == Pay([w EXCEPT ![a] = Newborn(w[a])], creator, a, v)

(* The whole balance goes to the beneficiary.  The account is doomed, and  *)
(* before Amsterdam what it kept by naming itself is burned, unless the    *)
(* fork spares accounts that this transaction did not create.              *)
Destruct(w, a, b) ==
  LET paid == Pay(w, a, b, w[a].balance)
      doom == [paid EXCEPT ![a].doomed = TRUE]
  IN IF fork # "Shanghai" /\ ~w[a].created THEN paid
     ELSE IF fork = "Amsterdam" THEN doom
     ELSE Debit(doom, a, doom[a].balance)

Erased(acc) ==
  [acc EXCEPT !.nonce = 0, !.code = NoCode, !.storage = NoStorage,
              !.balance = IF fork = "Amsterdam" THEN acc.balance ELSE 0]

Finish(w) ==
  [a \in Addr |->
     LET acc == IF w[a].doomed /\ (fork = "Shanghai" \/ w[a].created) THEN Erased(w[a]) ELSE w[a]
     IN [acc EXCEPT !.created = FALSE, !.doomed = FALSE, !.orig = acc.storage]]

----------------------------------------------------------------------------
Scopes == IF fork = "Amsterdam" THEN 2 ELSE 1
Settled(w) == Finish(IF phase = "body" THEN Credit(w, Blocks[fork].coinbase, Fee) ELSE w)

(* The frame ends and the world becomes w; its end is that of the          *)
(* transaction or system call when it is the outermost frame.              *)
Leave(w) ==
  /\ world' = IF Len(frames) = 1 THEN Settled(w) ELSE w
  /\ saved' = IF Len(frames) = 1 THEN <<>> ELSE Pop(saved)
  /\ frames' = Pop(frames)

Runs == frames # <<>> /\ (Top.kind = "create" \/ world[Self].code # NoCode)

Store(s, v) ==
  /\ Runs
  /\ world' = [world EXCEPT ![Self].storage[s] = v]
  /\ UNCHANGED <<saved, frames, phase, calls, tx>>

Call(a, v) ==
  /\ Runs /\ world[Self].balance >= v
  /\ saved' = Append(saved, world)
  /\ world' = Pay(world, Self, a, v)
  /\ frames' = Append(frames, [kind |-> "call", addr |-> a])
  /\ UNCHANGED <<phase, calls, tx>>

(* The creator's nonce is spent whatever becomes of the creation. *)
Create(a, v) ==
  /\ Runs /\ world[Self].balance >= v
  /\ IF Occupied(world[a])
     THEN world' = Bump(world, Self) /\ UNCHANGED <<saved, frames>>
     ELSE /\ saved' = Append(saved, Bump(world, Self))
          /\ world' = Born(Bump(world, Self), Self, a, v)
          /\ frames' = Append(frames, [kind |-> "create", addr |-> a])
  /\ UNCHANGED <<phase, calls, tx>>

Return(c) ==
  /\ frames # <<>> /\ (Top.kind = "create" \/ c = NoCode)
  /\ Leave(IF Top.kind = "create" THEN [world EXCEPT ![Self].code = c] ELSE world)
  /\ UNCHANGED <<phase, calls, tx>>

Revert ==
  /\ frames # <<>>
  /\ Leave(saved[Len(saved)])
  /\ phase' \in {phase, "invalid"}
  /\ UNCHANGED <<calls, tx>>

Selfdestruct(b) ==
  /\ Runs
  /\ LET w == Destruct(world, Self, b)
     IN Leave(IF Top.kind = "create" THEN [w EXCEPT ![Self].code = NoCode] ELSE w)
  /\ UNCHANGED <<phase, calls, tx>>

Charged == Bump(Debit(world, Sender, Fee), Sender)

Transaction(to, v, kind) ==
  /\ frames = <<>> /\ phase = "body" /\ tx < Blocks[fork].transactions /\ world[Sender].balance >= Fee + v
  /\ tx' = tx + 1
  /\ IF kind = "create" /\ Occupied(Charged[to])
     THEN world' = Settled(Charged) /\ UNCHANGED <<saved, frames>>
     ELSE /\ saved' = [n \in 1 .. Scopes |-> Charged]
          /\ world' = IF kind = "create" THEN Born(Charged, Sender, to, v) ELSE Pay(Charged, Sender, to, v)
          /\ frames' = <<[kind |-> kind, addr |-> to]>>
  /\ UNCHANGED <<phase, calls>>

SystemCall ==
  /\ frames = <<>> /\ calls # <<>>
  /\ calls' = Tail(calls)
  /\ IF world[Head(calls)].code = NoCode
     THEN phase' \in {phase, "invalid"} /\ UNCHANGED <<frames, saved>>
     ELSE frames' = <<[kind |-> "call", addr |-> Head(calls)]>> /\ saved' = <<world>> /\ UNCHANGED phase
  /\ UNCHANGED <<world, tx>>

Withdraw(a) ==
  /\ frames = <<>> /\ phase = "body" /\ tx = Blocks[fork].transactions
  /\ world' = Finish(Credit(world, a, Reward))
  /\ phase' = "end" /\ calls' = Blocks[fork].end
  /\ UNCHANGED <<saved, frames, tx>>

Advance ==
  /\ frames = <<>> /\ calls = <<>>
  /\ <<phase, phase'>> \in {<<"start", "body">>, <<"end", "done">>}
  /\ UNCHANGED <<world, saved, frames, calls, tx>>

Init ==
  /\ fork \in DOMAIN Blocks
  /\ world = [a \in Addr |->
       [nonce |-> Parent[a].nonce, balance |-> Parent[a].balance, code |-> Parent[a].code,
        created |-> FALSE, doomed |-> FALSE,
        storage |-> Parent[a].storage, orig |-> Parent[a].storage]]
  /\ saved = <<>> /\ frames = <<>> /\ phase = "start" /\ calls = Blocks[fork].start /\ tx = 0

Step ==
  \/ \E s \in Slot, v \in Blocks[fork].words : Store(s, v)
  \/ \E a \in Addr, v \in Value : Call(a, v) \/ Transaction(a, v, "call")
  \/ \E a \in Creatable, v \in Value : Create(a, v) \/ Transaction(a, v, "create")
  \/ \E c \in Code \union {NoCode} : Return(c)
  \/ Revert
  \/ \E b \in Addr : Selfdestruct(b) \/ Withdraw(b)
  \/ SystemCall \/ Advance

Next == Step /\ UNCHANGED fork

Spec == Init /\ [][Next]_vars
=============================================================================
