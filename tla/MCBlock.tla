------------------------------ MODULE MCBlock -------------------------------
(* Blocks of up to two transactions whose logs include deposits in and out *)
(* of order, a near miss and a malformed one; and, before a block is run,  *)
(* the headers below it: chains of up to four blocks over four forks, with *)
(* words of six bits and update fractions in the proportion of the code's  *)
(* to the gas of a blob.                                                   *)
EXTENDS BlockExecution, HeaderChain

VARIABLE part
vars == <<body, below, part>>

MCFractions == <<50, 76, 128, 178>>
MCForks == {Shanghai, Cancun, Osaka, Amsterdam}

MCHash == [x \in {"deposit", "token", "event", "other"} |->
              CASE x = "deposit" -> <<1, 2, 9, 255, 7, 255>>
                [] x = "token"   -> <<8, 2, 0, 3, 0, 0>>
                [] x = "event"   -> <<255, 255, 1, 2, 0, 64>>
                [] x = "other"   -> <<2, 0, 2, 0, 5, 17>>]

Log(a, topics, layout, r) == [address |-> a, topics |-> topics, layout |-> layout, request |-> r]
Dep(r) == Log("deposit", <<"event">>, TRUE, r)
Near == Log("deposit", <<"other", "event">>, TRUE, "d1")
Bare == Log("token", <<>>, FALSE, "none")
Broken == Log("deposit", <<"event">>, FALSE, "d1")

Push(w, c, b) == [s \in Range(Streams) |-> CASE s = "withdrawal" -> w [] s = "consolidation" -> c
                                             [] s = "builder_deposit" -> b [] OTHER -> <<>>]
Effect(logs, push, touch, t) == [logs |-> logs, push |-> push, touch |-> touch, transient |-> t]
MCEffects == {Effect(<<Bare>>, Push(<<"r1">>, <<>>, <<>>), {"a"}, TRUE),
              Effect(<<Dep("d1"), Near>>, Push(<<>>, <<"r2">>, <<>>), {"a", "b"}, FALSE),
              Effect(<<Near, Dep("d2"), Dep("d1")>>, Push(<<"r2">>, <<>>, <<"r3">>), {}, FALSE),
              Effect(<<Broken>>, Push(<<>>, <<>>, <<>>), {"b"}, FALSE)}
MCSystemEffects == {Effect(<<Bare>>, Push(<<>>, <<>>, <<>>), {"b"}, FALSE)}

Lists(w, c, b) == Push(w, c, b)
Bases == [fork : {Shanghai, Prague, Amsterdam}, txs : 0 .. 2, keys : 0 .. 2,
         deposits : {<<>>, <<"d1">>, <<"d2", "d1">>, <<"d1", "d2", "d1">>, <<"d1", "d2">>},
         streams : {Lists(<<>>, <<>>, <<>>), Lists(<<"r1">>, <<"r2">>, <<>>), Lists(<<"r2">>, <<>>, <<"r3">>),
                    Lists(<<"r2">>, <<"r2">>, <<"r3">>), Lists(<<"r1", "r1">>, <<>>, <<>>)}]
(* What the block hash commits to: the lists, or another block's. *)
Commit(b) == IF b.fork < Prague THEN {} ELSE Digests(RequestLists(b), 1 .. 5)
MCBlocks == {[x \in {"requests_hash"} \cup DOMAIN b |-> IF x = "requests_hash" THEN h ELSE b[x]] :
               b \in {c \in Bases : c.keys = c.txs \/ (c.txs = 1 /\ c.keys = 0)}, h \in {{[type |-> 0, list |-> <<"d1">>]}}}
            \cup {[x \in {"requests_hash"} \cup DOMAIN b |-> IF x = "requests_hash" THEN Commit(b) ELSE b[x]] :
               b \in {c \in Bases : c.keys = c.txs \/ (c.txs = 1 /\ c.keys = 0)}}

MCHeaderBlooms ==
    {{<<255 - (b \div 8), b % 8>> :
        b \in UNION {{BitIndex(MCHash[x], k) : k \in 1 .. 3} : x \in s}} :
      s \in SUBSET DOMAIN MCHash}

NoBody ==
    /\ block = [fork |-> Shanghai, txs |-> 0]
    /\ pc = "ended" /\ cursor = 0 /\ epoch = 0
    /\ host = [logs |-> <<>>, log_start |-> 0, transient |-> FALSE,
               warm |-> [a \in Addresses |-> 0], warm_epoch |-> 1, pending |-> <<>>]
    /\ merged = <<>> /\ receipts = <<>> /\ remaining = <<>> /\ did = <<>>
    /\ code = {} /\ queue = <<>> /\ produced = <<>>
    /\ logs_start = 0 /\ result = NoLogs
    /\ outcome = "none" /\ bloom = {} /\ touched = {}
NoHeaders ==
    /\ chain = <<Block(1, ZERO_HASH, Shanghai, 1, 0, 0)>>
    /\ HeadersUnread

Init ==
    \/ part = "body" /\ BodyInit /\ NoHeaders
    \/ part = "headers" /\ NoBody /\ HeaderInit

Next ==
    /\ \/ part = "body" /\ BodyNext /\ UNCHANGED below
       \/ part = "headers" /\ HeaderNext /\ UNCHANGED body
    /\ UNCHANGED part

(* The validator is one thread that never waits. *)
Spec == Init /\ [][Next]_vars /\ WF_vars(Next)
=============================================================================
