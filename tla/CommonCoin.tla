----------------------------- MODULE CommonCoin -----------------------------
(***************************************************************************)
(* The shared coins of one binary agreement, honeybadgerbft/core/          *)
(* commoncoin.py, at every honest node: getCoin(r) broadcasts the node's   *)
(* threshold-signature share for round r and blocks on a one-place queue;  *)
(* a receive greenlet verifies shares, combines the first F + 1 of a round *)
(* and puts one bit of the signature into that queue.                      *)
(***************************************************************************)
EXTENDS Integers, FiniteSets

CONSTANTS
    Node, Faulty, F,
    Round,      \* the rounds that are played, 0..n
    Byte,       \* Byte[r]: first byte of the hash of the signature on (sid, r)
    FaultyShare,\* the shares faulty nodes may send
    NoBit       \* nothing: an empty queue, a coin not obtained

N == Cardinality(Node)
Honest == Node \ Faulty

\* Seeded bugs: one share too few, one too many.
FewerShares == F
MoreShares == F + 2

\* The shares that make a coin, and the k of the key, by an assertion on entry.
Shares == F + 1

ASSUME CoinNodes ==
    /\ IsFiniteSet(Node) /\ F \in Nat /\ N >= 3 * F + 1
    /\ Faulty \subseteq Node /\ Cardinality(Faulty) <= F

\* A share is what one node sends about one round.  It verifies exactly if it
\* is that node's key applied to the hash of (sid, r): valid.  A faulty node may
\* name a round that is none; the sender is named by the channel.
BadRound == -1
ShareMsg == [from : Node, round : Round \cup {BadRound}, valid : BOOLEAN]

ASSUME CoinConstants ==
    /\ Round \subseteq Nat
    /\ Byte \in [Round -> 0 .. 255]
    /\ FaultyShare \subseteq {s \in ShareMsg : s.from \in Faulty}
    /\ NoBit \notin {0, 1}

BitOf(r) == Byte[r] % 2

VARIABLES
    calls,      \* how many getCoin calls each node's agreement has made
    waiting,    \* whether the last of them is blocked in outputQueue[r].get()
    got,        \* the bits getCoin has returned
    received,   \* the verified shares
    outputQueue,
    ended,      \* what ended a node's receive greenlet, or "no"
    msgs        \* the shares honest nodes have broadcast

coinVars == <<calls, waiting, got, received, outputQueue, ended, msgs>>

Init ==
    /\ calls = [n \in Honest |-> 0]
    /\ waiting = [n \in Honest |-> FALSE]
    /\ got = [n \in Honest |-> [r \in Round |-> NoBit]]
    /\ received = [n \in Honest |-> {}]
    /\ outputQueue = [n \in Honest |-> [r \in Round |-> NoBit]]
    /\ ended = [n \in Honest |-> "no"]
    /\ msgs = {}

\* getCoin up to the blocking get(): the agreement asks for rounds 0, 1, ...
GetCoin(n) ==
    /\ ~waiting[n]
    /\ calls[n] \in Round
    /\ msgs' = msgs \cup {[from |-> n, round |-> calls[n], valid |-> TRUE]}
    /\ waiting' = [waiting EXCEPT ![n] = TRUE]
    /\ calls' = [calls EXCEPT ![n] = @ + 1]
    /\ UNCHANGED <<got, received, outputQueue, ended>>

\* get() returns and so does getCoin.
ReturnCoin(n) ==
    LET r == calls[n] - 1 IN
    /\ waiting[n]
    /\ outputQueue[n][r] # NoBit
    /\ got' = [got EXCEPT ![n][r] = outputQueue[n][r]]
    /\ outputQueue' = [outputQueue EXCEPT ![n][r] = NoBit]
    /\ waiting' = [waiting EXCEPT ![n] = FALSE]
    /\ UNCHANGED <<calls, received, ended, msgs>>

SharesOf(S, r) == {s \in S : s.round = r}

\* Seeded bug: shares are not verified.
NoVerification(s) == TRUE

\* verify_share: one pairing check against the sender's verification key.
VerifyShare(s) == s.valid

\* combine_shares followed by verify_signature: interpolation of k shares yields
\* the one signature on (sid, r) if and only if all of them are valid.
Combines(S) == \A s \in S : s.valid

\* A share that is taken up.  A combination that does not verify fails an
\* assertion, and put_nowait raises Full when the one place of the queue is
\* taken; nothing catches either, and the receive greenlet ends.
KeepShare(n, s) ==
    LET S == SharesOf(received[n] \cup {s}, s.round) IN
    /\ \A x \in SharesOf(received[n], s.round) : x.from # s.from
    /\ VerifyShare(s)
    /\ received' = [received EXCEPT ![n] = @ \cup {s}]
    /\ \/ /\ Cardinality(S) # Shares
          /\ UNCHANGED <<outputQueue, ended>>
       \/ /\ Cardinality(S) = Shares /\ Combines(S) /\ outputQueue[n][s.round] = NoBit
          /\ outputQueue' = [outputQueue EXCEPT ![n][s.round] = BitOf(s.round)]
          /\ UNCHANGED ended
       \/ /\ Cardinality(S) = Shares /\ ~Combines(S)
          /\ ended' = [ended EXCEPT ![n] = "signature"]
          /\ UNCHANGED outputQueue
       \/ /\ Cardinality(S) = Shares /\ Combines(S) /\ outputQueue[n][s.round] # NoBit
          /\ ended' = [ended EXCEPT ![n] = "queue"]
          /\ UNCHANGED outputQueue

\* The assertion on the round stands before the try that guards verify_share: a
\* round below 0 ends the greenlet, as a share does that is no group element at
\* all.  A repeated share and one that does not verify are skipped.
ReceiveShare(n, s) ==
    /\ ended[n] = "no"
    /\ \/ s.round >= 0 /\ KeepShare(n, s)
       \/ /\ s.round < 0
          /\ ended' = [ended EXCEPT ![n] = "round"]
          /\ UNCHANGED <<received, outputQueue>>
    /\ UNCHANGED <<calls, waiting, got, msgs>>

Next ==
    \/ \E n \in Honest : GetCoin(n)
    \/ \E n \in Honest : ReturnCoin(n)
    \/ \E n \in Honest, s \in msgs \cup FaultyShare : ReceiveShare(n, s)

Spec == Init /\ [][Next]_coinVars

\* Channels deliver and gevent runs greenlets that can run; when the agreement
\* asks for a coin is up to the agreement.
FairSpec ==
    Spec /\ \A n \in Honest : WF_coinVars(ReturnCoin(n))
                              /\ WF_coinVars(\E s \in msgs : ReceiveShare(n, s))
-----------------------------------------------------------------------------
\* The type invariant.
TypeOK ==
    /\ calls \in [Honest -> Nat]
    /\ waiting \in [Honest -> BOOLEAN]
    /\ got \in [Honest -> [Round -> {0, 1, NoBit}]]
    /\ received \in [Honest -> SUBSET ShareMsg]
    /\ outputQueue \in [Honest -> [Round -> {0, 1, NoBit}]]
    /\ ended \in [Honest -> {"no", "round", "signature", "queue"}]
    /\ msgs \subseteq ShareMsg

Asked(n, r) == calls[n] > r

\* A share for a round ends no receive greenlet, whoever sends it and whenever:
\* shares are checked before they are combined, exactly F + 1 of them are, and
\* the queue's one place is never filled twice.  Only the assertion on the round
\* (line 48) does, on a message that no honest node sends.
ReceiverAlive == \A n \in Honest : ended[n] \in {"no", "round"}

\* Once F + 1 honest nodes have asked for a coin, everyone who asks gets it,
\* also those that ask late, whose queue was filled before they called; unless
\* a faulty node has ended that very node's receive greenlet with a round that
\* is none.  What it does so to other nodes keeps nobody waiting.
CoinLiveness ==
    \A n \in Honest, r \in Round :
        (Asked(n, r) /\ Cardinality({q \in Honest : Asked(q, r)}) >= F + 1)
            ~> got[n][r] # NoBit \/ ended[n] = "round"

\* Nothing FairSpec asks for is left to do: honest shares have been taken, and
\* nobody blocks on a queue with a bit in it.
AtRest ==
    \A n \in Honest :
        /\ waiting[n] => outputQueue[n][calls[n] - 1] = NoBit
        /\ ended[n] = "no" =>
              \A s \in msgs : VerifyShare(s) => \E x \in SharesOf(received[n], s.round) : x.from = s.from

\* Coins that have come to rest are awaited only where a receive greenlet was
\* ended by a bad round, unless fewer than F + 1 honest nodes have asked; that
\* is why CoinLiveness holds.
RestLeavesNobody ==
    AtRest =>
        \A n \in Honest, r \in Round :
            Asked(n, r) /\ Cardinality({q \in Honest : Asked(q, r)}) >= F + 1
                => got[n][r] # NoBit \/ ended[n] = "round"

\* The coins implement the abstract ones the agreement is modelled with.
Coin == INSTANCE CoinSpec
            WITH asked <- {p \in Honest \X Round : Asked(p[1], p[2])},
                 revealed <- {r \in Round : \E n \in Honest : outputQueue[n][r] # NoBit \/ got[n][r] # NoBit},
                 Bit <- [r \in Round |-> Byte[r] % 2]

\* What callers of getCoin rely on: the same bit everywhere, and none computed
\* anywhere, asked for or not, before F + 1 shares can have been released.
ImplementsCoin == Coin!Spec
=============================================================================
