----------------------------- MODULE LedgerSpec -----------------------------
(***************************************************************************)
(* What HoneyBadgerBFT promises its clients: one ledger of blocks.  Every  *)
(* block holds the proposals of at least N - F nodes, an honest node only  *)
(* proposes what was submitted to it, and every honest node commits the    *)
(* blocks of the ledger in their order.                                    *)
(***************************************************************************)
EXTENDS Integers, Sequences, FiniteSets

CONSTANTS N, Honest, F, Clients, Value, None

VARIABLES
    ledger,     \* the blocks: what each node contributed, or None
    committed   \* committed[n]: the tuples n's rounds have returned

specVars == <<ledger, committed>>

Node == 0..(N - 1)

\* The elements of a set of numbers, smallest first.
InOrder(S) == [i \in 1..Cardinality(S) |-> CHOOSE j \in S : Cardinality({k \in S : k <= j}) = i]

\* The contributions of a block in the order of the nodes, as the bytes that
\* come out of the decryption.
Contents(block) ==
    LET chosen == InOrder({j \in Node : block[j] # None})
    IN  [i \in DOMAIN chosen |-> [bytes |-> block[chosen[i]]]]

Init ==
    /\ ledger = <<>>
    /\ committed = [n \in Honest |-> <<>>]

\* The next block is fixed.
Extend(block) ==
    /\ Cardinality({j \in Node : block[j] # None}) >= N - F
    /\ \A j \in Honest : block[j] \in Clients[j] \cup {None}
    /\ ledger' = Append(ledger, block)
    /\ UNCHANGED committed

Commit(n) ==
    /\ Len(committed[n]) < Len(ledger)
    /\ committed' = [committed EXCEPT ![n] = Append(@, Contents(ledger[Len(@) + 1]))]
    /\ UNCHANGED ledger

Next ==
    \/ \E block \in [Node -> Value \cup {None}] : Extend(block)
    \/ \E n \in Honest : Commit(n)

Spec == Init /\ [][Next]_specVars
=============================================================================
