-------------------------- MODULE CommonCoinProofs --------------------------
(***************************************************************************)
(* Proofs about CommonCoin for all nodes, rounds, bytes and faulty shares. *)
(***************************************************************************)
EXTENDS CommonCoin, FiniteSetTheorems, TLAPS

\* The rounds a node has asked for, and those of which it has the coin.
CallsMatch ==
    \A n \in Honest :
        /\ waiting[n] => calls[n] > 0 /\ calls[n] - 1 \in Round
        /\ \A r \in Round : got[n][r] # NoBit => r < calls[n] - (IF waiting[n] THEN 1 ELSE 0)

\* Honest shares are valid and sent by nodes that have asked.
SentShares == \A s \in msgs : s.from \in Honest /\ s.round \in Round /\ s.valid /\ Asked(s.from, s.round)

\* What a node keeps was sent, has been verified, and is one share per sender.
KeptShares ==
    \A n \in Honest :
        /\ IsFiniteSet(received[n])
        /\ \A s \in received[n] : s \in msgs \cup FaultyShare /\ s.round \in Round /\ s.valid

\* A coin anywhere rests on enough shares, and has the right value.
CoinsMade ==
    \A n \in Honest, r \in Round :
        /\ outputQueue[n][r] \in {NoBit, BitOf(r)}
        /\ got[n][r] \in {NoBit, BitOf(r)}
        /\ outputQueue[n][r] # NoBit \/ got[n][r] # NoBit =>
             Cardinality(SharesOf(received[n], r)) >= Shares

IInv == TypeOK /\ CallsMatch /\ SentShares /\ KeptShares /\ CoinsMade /\ ReceiverAlive

-----------------------------------------------------------------------------
LEMMA Constants ==
  /\ F \in Nat /\ Shares = F + 1 /\ IsFiniteSet(Node) /\ IsFiniteSet(Honest)
  /\ Faulty \subseteq Node /\ IsFiniteSet(Faulty) /\ Cardinality(Faulty) \in Nat
  /\ Round \subseteq Nat /\ NoBit \notin {0, 1}
  /\ \A r \in Round : BitOf(r) \in {0, 1}
  /\ \A s \in FaultyShare : s \in ShareMsg /\ s.from \in Faulty
<1>1. IsFiniteSet(Honest) /\ IsFiniteSet(Faulty) /\ Cardinality(Faulty) \in Nat
  BY CoinNodes, FS_Subset, FS_CardinalityType, Honest \in SUBSET Node DEF Honest
<1>2. ASSUME NEW r \in Round PROVE BitOf(r) \in {0, 1}
  <2>1. Byte[r] \in 0..255
    BY CoinConstants
  <2> QED
    BY <2>1 DEF BitOf
<1> QED
  BY <1>1, <1>2, CoinNodes, CoinConstants DEF Shares

LEMMA InitInvariant == Init => IInv
<1> SUFFICES ASSUME Init PROVE IInv
  OBVIOUS
<1>1. \A n \in Honest : received[n] = {}
  BY DEF Init
<1>2. KeptShares
  BY <1>1, FS_EmptySet DEF KeptShares
<1> QED
  BY <1>2, Constants DEF Init, IInv, TypeOK, CallsMatch, SentShares, CoinsMade, ReceiverAlive

LEMMA GetCoinInvariant == ASSUME IInv, NEW n \in Honest, GetCoin(n) PROVE IInv'
<1> USE DEF IInv
<1>1. calls[n] \in Nat /\ calls[n] \in Round
  BY Constants DEF TypeOK, GetCoin
<1>2. TypeOK'
  <2>1. [from |-> n, round |-> calls[n], valid |-> TRUE] \in ShareMsg
    BY <1>1 DEF ShareMsg, Honest
  <2>2. msgs' \subseteq ShareMsg
    BY <2>1 DEF TypeOK, GetCoin
  <2>3. calls' \in [Honest -> Nat] /\ waiting' \in [Honest -> BOOLEAN]
    BY <1>1 DEF TypeOK, GetCoin
  <2> QED
    BY <2>2, <2>3 DEF TypeOK, GetCoin
<1>3. CallsMatch'
  <2> SUFFICES ASSUME NEW q \in Honest
               PROVE  /\ waiting'[q] => calls'[q] > 0 /\ calls'[q] - 1 \in Round
                      /\ \A r \in Round : got'[q][r] # NoBit => r < calls'[q] - (IF waiting'[q] THEN 1 ELSE 0)
    BY DEF CallsMatch
  <2>1. CASE q = n
    <3>1. calls'[q] = calls[n] + 1 /\ waiting'[q] /\ ~waiting[n] /\ got' = got
      BY <2>1 DEF TypeOK, GetCoin
    <3> QED
      BY <2>1, <3>1, <1>1 DEF CallsMatch
  <2>2. CASE q # n
    BY <2>2 DEF TypeOK, GetCoin, CallsMatch
  <2> QED
    BY <2>1, <2>2
<1>4. SentShares'
  <2>1. \A q \in Honest : calls[q] \in Nat /\ calls'[q] \in Nat /\ calls'[q] >= calls[q]
    BY <1>1 DEF TypeOK, GetCoin
  <2>2. calls'[n] > calls[n]
    BY <1>1 DEF TypeOK, GetCoin
  <2>3. \A s \in msgs : s.round \in Nat
    BY Constants DEF SentShares
  <2> QED
    BY <1>1, <2>1, <2>2, <2>3 DEF GetCoin, SentShares, Asked
<1>5. KeptShares' /\ CoinsMade' /\ ReceiverAlive'
  BY DEF GetCoin, KeptShares, CoinsMade, ReceiverAlive, SharesOf
<1> QED
  BY <1>2, <1>3, <1>4, <1>5

LEMMA ReturnCoinInvariant == ASSUME IInv, NEW n \in Honest, ReturnCoin(n) PROVE IInv'
<1> USE DEF IInv
<1> DEFINE c == calls[n] - 1
<1>1. c \in Round /\ c \in Nat /\ waiting[n] /\ calls[n] \in Nat
  BY Constants DEF TypeOK, CallsMatch, ReturnCoin
<1>2. outputQueue[n][c] = BitOf(c) /\ outputQueue[n][c] # NoBit
  BY <1>1 DEF ReturnCoin, CoinsMade
<1>3. TypeOK'
  BY <1>1, <1>2, Constants DEF TypeOK, ReturnCoin
<1>4. CallsMatch'
  <2> SUFFICES ASSUME NEW q \in Honest
               PROVE  /\ waiting'[q] => calls'[q] > 0 /\ calls'[q] - 1 \in Round
                      /\ \A r \in Round : got'[q][r] # NoBit => r < calls'[q] - (IF waiting'[q] THEN 1 ELSE 0)
    BY DEF CallsMatch
  <2>1. CASE q = n
    <3>1. calls' = calls /\ ~waiting'[q] /\ \A r \in Round : r # c => got'[q][r] = got[q][r]
      BY <2>1, <1>1 DEF TypeOK, ReturnCoin
    <3>2. ASSUME NEW r \in Round, got'[q][r] # NoBit PROVE r < calls[q]
      <4>1. CASE r = c
        BY <4>1, <1>1, <2>1
      <4>2. CASE r # c
        <5>1. r < calls[q] - 1
          BY <4>2, <3>1, <3>2, <1>1, <2>1 DEF CallsMatch
        <5> QED
          BY <5>1, <1>1, <2>1, Constants
      <4> QED
        BY <4>1, <4>2
    <3> QED
      BY <3>1, <3>2, <2>1, <1>1
  <2>2. CASE q # n
    BY <2>2 DEF TypeOK, ReturnCoin, CallsMatch
  <2> QED
    BY <2>1, <2>2
<1>5. CoinsMade'
  <2> SUFFICES ASSUME NEW q \in Honest, NEW r \in Round
               PROVE  /\ outputQueue'[q][r] \in {NoBit, BitOf(r)}
                      /\ got'[q][r] \in {NoBit, BitOf(r)}
                      /\ outputQueue'[q][r] # NoBit \/ got'[q][r] # NoBit =>
                           Cardinality(SharesOf(received'[q], r)) >= Shares
    BY DEF CoinsMade, SharesOf
  <2>1. received' = received
    BY DEF ReturnCoin
  <2>2. CASE q = n /\ r = c
    <3>1. outputQueue'[q][r] = NoBit /\ got'[q][r] = BitOf(r)
      BY <2>2, <1>1, <1>2 DEF TypeOK, ReturnCoin
    <3> QED
      BY <3>1, <2>1, <2>2, <1>2 DEF CoinsMade
  <2>3. CASE ~(q = n /\ r = c)
    <3>1. outputQueue'[q][r] = outputQueue[q][r] /\ got'[q][r] = got[q][r]
      BY <2>3, <1>1 DEF TypeOK, ReturnCoin
    <3> QED
      BY <3>1, <2>1 DEF CoinsMade
  <2> QED
    BY <2>2, <2>3
<1>6. SentShares' /\ KeptShares' /\ ReceiverAlive'
  BY DEF ReturnCoin, SentShares, KeptShares, ReceiverAlive, Asked
<1> QED
  BY <1>3, <1>4, <1>5, <1>6

\* The queue is empty when the share arrives that completes the threshold: a
\* coin would rest on as many shares already.
LEMMA ThresholdOnce ==
  ASSUME IInv, NEW n \in Honest, NEW s \in msgs \cup FaultyShare, s.round >= 0, KeepShare(n, s)
  PROVE  /\ s \in ShareMsg /\ s.round \in Round /\ s.valid
         /\ SharesOf(received[n] \cup {s}, s.round) = SharesOf(received[n], s.round) \cup {s}
         /\ IsFiniteSet(SharesOf(received[n], s.round)) /\ IsFiniteSet(received[n] \cup {s})
         /\ Cardinality(SharesOf(received[n] \cup {s}, s.round)) = Cardinality(SharesOf(received[n], s.round)) + 1
         /\ Cardinality(SharesOf(received[n], s.round)) \in Nat
         /\ Cardinality(SharesOf(received[n] \cup {s}, s.round)) = Shares => outputQueue[n][s.round] = NoBit
         /\ Combines(SharesOf(received[n] \cup {s}, s.round))
<1> DEFINE S == SharesOf(received[n], s.round)
<1>1. s \in ShareMsg /\ s.round \in Round /\ s.valid
  <2>1. s \in ShareMsg /\ s.valid
    BY Constants DEF IInv, TypeOK, KeepShare, VerifyShare
  <2>2. ~(BadRound >= 0)
    BY DEF BadRound
  <2> QED
    BY <2>1, <2>2 DEF ShareMsg
<1>2. SharesOf(received[n] \cup {s}, s.round) = S \cup {s} /\ s \notin S
  BY DEF SharesOf, KeepShare
<1>3. IsFiniteSet(S) /\ IsFiniteSet(received[n] \cup {s}) /\ Cardinality(S) \in Nat
  BY FS_Subset, FS_AddElement, FS_CardinalityType, S \in SUBSET received[n] DEF IInv, KeptShares, SharesOf
<1>4. Cardinality(S \cup {s}) = Cardinality(S) + 1
  BY <1>2, <1>3, FS_AddElement
<1>5. Cardinality(S \cup {s}) = Shares => outputQueue[n][s.round] = NoBit
  <2>1. outputQueue[n][s.round] # NoBit => Cardinality(S) >= Shares
    BY <1>1 DEF IInv, CoinsMade
  <2> QED
    BY <2>1, <1>3, <1>4, Constants
<1>6. Combines(S \cup {s})
  BY <1>1 DEF IInv, KeptShares, Combines, SharesOf
<1> QED
  BY <1>1, <1>2, <1>3, <1>4, <1>5, <1>6

LEMMA KeepShareInvariant ==
  ASSUME IInv, NEW n \in Honest, NEW s \in msgs \cup FaultyShare, s.round >= 0, KeepShare(n, s),
         UNCHANGED <<calls, waiting, got, msgs>>
  PROVE  IInv'
<1> USE DEF IInv
<1> DEFINE S == SharesOf(received[n] \cup {s}, s.round)
<1>1. /\ s \in ShareMsg /\ s.round \in Round /\ s.valid
      /\ received' = [received EXCEPT ![n] = received[n] \cup {s}]
      /\ UNCHANGED <<calls, waiting, got, msgs>>
  BY ThresholdOnce DEF KeepShare
<1>2. /\ UNCHANGED ended
      /\ outputQueue' = IF Cardinality(S) = Shares
                          THEN [outputQueue EXCEPT ![n][s.round] = BitOf(s.round)] ELSE outputQueue
  BY ThresholdOnce DEF KeepShare
<1>3. received'[n] = received[n] \cup {s} /\ \A q \in Honest : q # n => received'[q] = received[q]
  BY <1>1 DEF TypeOK
<1>4. TypeOK'
  BY <1>1, <1>2, Constants DEF TypeOK
<1>5. KeptShares'
  BY <1>1, <1>3, ThresholdOnce DEF KeptShares
<1>6. CoinsMade'
  <2> SUFFICES ASSUME NEW q \in Honest, NEW r \in Round
               PROVE  /\ outputQueue'[q][r] \in {NoBit, BitOf(r)}
                      /\ got'[q][r] \in {NoBit, BitOf(r)}
                      /\ outputQueue'[q][r] # NoBit \/ got'[q][r] # NoBit =>
                           Cardinality(SharesOf(received'[q], r)) >= Shares
    BY DEF CoinsMade, SharesOf
  <2>1. CASE q = n /\ r = s.round
    <3>1. Cardinality(S) = Cardinality(SharesOf(received[n], r)) + 1 /\ Cardinality(SharesOf(received[n], r)) \in Nat
      BY <2>1, ThresholdOnce
    <3>2. Cardinality(SharesOf(received'[q], r)) = Cardinality(S)
      BY <2>1, <1>3
    <3>3. outputQueue'[q][r] = IF Cardinality(S) = Shares THEN BitOf(r) ELSE outputQueue[q][r]
      BY <2>1, <1>2 DEF TypeOK
    <3> QED
      BY <3>1, <3>2, <3>3, <2>1, <1>1, Constants DEF CoinsMade
  <2>2. CASE q = n /\ r # s.round
    <3>1. outputQueue'[q][r] = outputQueue[q][r]
      BY <2>2, <1>2 DEF TypeOK
    <3>2. SharesOf(received'[q], r) = SharesOf(received[q], r)
      BY <2>2, <1>3 DEF SharesOf
    <3> QED
      BY <3>1, <3>2, <1>1 DEF CoinsMade
  <2>3. CASE q # n
    <3>1. outputQueue'[q][r] = outputQueue[q][r]
      BY <2>3, <1>2 DEF TypeOK
    <3> QED
      BY <3>1, <2>3, <1>1, <1>3 DEF CoinsMade
  <2> QED
    BY <2>1, <2>2, <2>3
<1>7. CallsMatch' /\ SentShares' /\ ReceiverAlive'
  BY <1>1, <1>2 DEF CallsMatch, SentShares, ReceiverAlive, Asked
<1> QED
  BY <1>4, <1>5, <1>6, <1>7

\* A share for no round changes nothing but the state of the receive greenlet.
LEMMA BadRoundStep ==
  ASSUME IInv, NEW n \in Honest, NEW s, ReceiveShare(n, s), ~(s.round >= 0 /\ KeepShare(n, s))
  PROVE  /\ ended' = [ended EXCEPT ![n] = "round"]
         /\ UNCHANGED <<calls, waiting, got, received, outputQueue, msgs>>
BY DEF ReceiveShare

LEMMA ReceiveShareInvariant ==
  ASSUME IInv, NEW n \in Honest, NEW s \in msgs \cup FaultyShare, ReceiveShare(n, s)
  PROVE  IInv'
<1>1. CASE s.round >= 0 /\ KeepShare(n, s)
  BY <1>1, KeepShareInvariant DEF ReceiveShare
<1>2. CASE ~(s.round >= 0 /\ KeepShare(n, s))
  <2>1. /\ ended' = [ended EXCEPT ![n] = "round"]
        /\ UNCHANGED <<calls, waiting, got, received, outputQueue, msgs>>
    BY <1>2, BadRoundStep
  <2>2. TypeOK' /\ ReceiverAlive'
    BY <2>1 DEF IInv, TypeOK, ReceiverAlive
  <2> QED
    BY <2>1, <2>2 DEF IInv, CallsMatch, SentShares, KeptShares, CoinsMade, Asked, SharesOf
<1> QED
  BY <1>1, <1>2

LEMMA NextInvariant == IInv /\ [Next]_coinVars => IInv'
<1> SUFFICES ASSUME IInv, [Next]_coinVars PROVE IInv'
  OBVIOUS
<1>1. CASE \E n \in Honest : GetCoin(n)
  BY <1>1, GetCoinInvariant
<1>2. CASE \E n \in Honest : ReturnCoin(n)
  BY <1>2, ReturnCoinInvariant
<1>3. CASE \E n \in Honest, s \in msgs \cup FaultyShare : ReceiveShare(n, s)
  BY <1>3, ReceiveShareInvariant
<1>4. CASE UNCHANGED coinVars
  BY <1>4 DEF coinVars, IInv, TypeOK, CallsMatch, SentShares, KeptShares, CoinsMade, ReceiverAlive, Asked, SharesOf
<1> QED
  BY <1>1, <1>2, <1>3, <1>4 DEF Next

\* The inductive invariant: coins rest on F + 1 verified shares of different
\* nodes that have asked (or are faulty), and have the dealer's value.
THEOREM CoinInvariant == Spec => []IInv
  BY InitInvariant, NextInvariant, PTL DEF Spec

\* Every variable of getCoin and of the receive greenlets keeps its type, for
\* any number of rounds.
THEOREM TypeCorrect == Spec => []TypeOK
  BY CoinInvariant, PTL DEF IInv

\* Whatever shares for whatever rounds come, in any order and from whomever, no
\* combination fails, no queue is full: a receive greenlet of shared_coin ends
\* on a round below 0 only.
THEOREM ReceiversLive == Spec => []ReceiverAlive
  BY CoinInvariant, PTL DEF IInv

-----------------------------------------------------------------------------
\* The refinement

LEMMA SameCardinality == \A S : Coin!Cardinality(S) = Cardinality(S)
  BY DEF Cardinality, Coin!Cardinality

\* Enough shares come from nodes that asked or are faulty.
LEMMA CoinAvailable ==
  ASSUME IInv, NEW r \in Round, NEW S \in SUBSET (msgs \cup FaultyShare), Cardinality(S) >= Shares,
         \A s \in S : s.valid /\ s.round = r
  PROVE  Coin!Available(r)
<1> DEFINE A == Coin!Askers(r)
           f == [s \in S |-> s.from]
<1>1. A \in SUBSET Honest
  BY DEF Coin!Askers, Coin!Honest, Honest
<1>2. IsFiniteSet(A) /\ IsFiniteSet(Faulty) /\ Cardinality(A) \in Nat /\ Cardinality(Faulty) \in Nat
  BY <1>1, Constants, FS_Subset, FS_CardinalityType
<1>3. ASSUME NEW s \in S
      PROVE  /\ s \in ShareMsg /\ s.round = r /\ s.valid = TRUE
             /\ s.from \in A \cup Faulty
  <2>1. s \in ShareMsg /\ s.round = r /\ s.valid = TRUE
    BY Constants DEF IInv, TypeOK, ShareMsg
  <2>2. CASE s \in msgs
    BY <2>1, <2>2 DEF IInv, SentShares, Coin!Askers, Coin!Honest, Honest
  <2>3. CASE s \in FaultyShare
    BY <2>3, Constants
  <2> QED
    BY <2>1, <2>2, <2>3
<1>4. f \in Injection(S, A \cup Faulty)
  <2>1. ASSUME NEW s1 \in S, NEW s2 \in S, s1.from = s2.from PROVE s1 = s2
    <3>1. /\ s1 \in ShareMsg /\ s1.round = r /\ s1.valid = TRUE
          /\ s2 \in ShareMsg /\ s2.round = r /\ s2.valid = TRUE
      BY <1>3
    <3> QED
      BY <2>1, <3>1 DEF ShareMsg
  <2> QED
    BY <2>1, <1>3 DEF Injection, IsInjective
<1>5. IsFiniteSet(A \cup Faulty) /\ IsFiniteSet(A \cap Faulty)
  BY <1>2, FS_Union, FS_Subset, A \cap Faulty \in SUBSET A
<1>6. Cardinality(S) <= Cardinality(A \cup Faulty)
  BY <1>4, <1>5, FS_Injection
<1>7. Cardinality(A \cup Faulty) = Cardinality(A) + Cardinality(Faulty) - Cardinality(A \cap Faulty)
  BY <1>2, FS_Union
<1>8. Cardinality(A \cap Faulty) \in Nat /\ Cardinality(A \cup Faulty) \in Nat /\ Cardinality(S) \in Nat
  BY <1>4, <1>5, FS_CardinalityType, FS_Injection
<1>9. Cardinality(A) + Cardinality(Faulty) >= F + 1
  BY <1>2, <1>6, <1>7, <1>8, Constants
<1> QED
  BY <1>9, SameCardinality DEF Coin!Available

LEMMA RefinementInit == Init => Coin!Init
<1> SUFFICES ASSUME Init PROVE Coin!Init
  OBVIOUS
<1>1. {p \in Honest \X Round : Asked(p[1], p[2])} = {}
  <2>1. ASSUME NEW q \in Honest, NEW r \in Round PROVE ~Asked(q, r)
    <3>1. calls[q] = 0 /\ r \in Nat
      BY Constants DEF Init
    <3> QED
      BY <3>1 DEF Asked
  <2> QED
    BY <2>1
<1>2. {r \in Round : \E q \in Honest : outputQueue[q][r] # NoBit \/ got[q][r] # NoBit} = {}
  BY DEF Init
<1> QED
  BY <1>1, <1>2 DEF Init, Coin!Init, Coin!Honest, Honest

LEMMA GetCoinRefines == ASSUME IInv, NEW n \in Honest, GetCoin(n) PROVE [Coin!Next]_(Coin!specVars)
<1> DEFINE c == calls[n]
           asked == {p \in Honest \X Round : Asked(p[1], p[2])}
<1>1. c \in Round /\ c \in Nat /\ \A q \in Honest : calls[q] \in Nat
  BY Constants DEF GetCoin, IInv, TypeOK
<1>2. \A q \in Honest : calls'[q] = IF q = n THEN c + 1 ELSE calls[q]
  BY DEF GetCoin, IInv, TypeOK
<1>3. <<n, c>> \notin asked /\ asked' = asked \cup {<<n, c>>}
  <2>1. ~Asked(n, c)
    BY <1>1 DEF Asked
  <2>2. ASSUME NEW q \in Honest, NEW r \in Round PROVE Asked(q, r)' <=> Asked(q, r) \/ (q = n /\ r = c)
    <3>1. r \in Nat
      BY Constants
    <3> QED
      BY <3>1, <1>1, <1>2 DEF Asked
  <2> QED
    BY <2>1, <2>2, <1>1
<1>4. UNCHANGED <<outputQueue, got>>
  BY DEF GetCoin
<1>5. Coin!Ask(n, c)
  BY <1>3, <1>4 DEF Coin!Ask
<1> QED
  BY <1>1, <1>5 DEF Coin!Next, Coin!Honest, Honest

LEMMA ReturnCoinRefines == ASSUME IInv, NEW n \in Honest, ReturnCoin(n) PROVE [Coin!Next]_(Coin!specVars)
<1> DEFINE c == calls[n] - 1
           has(q, r) == outputQueue[q][r] # NoBit \/ got[q][r] # NoBit
           then(q, r) == outputQueue'[q][r] # NoBit \/ got'[q][r] # NoBit
           asked == {p \in Honest \X Round : Asked(p[1], p[2])}
           revealed == {r \in Round : \E q \in Honest : has(q, r)}
<1>1. c \in Round /\ c \in Nat /\ waiting[n] /\ calls[n] \in Nat
  BY Constants DEF IInv, TypeOK, CallsMatch, ReturnCoin
<1>2. outputQueue[n][c] # NoBit /\ outputQueue[n][c] = BitOf(c)
  BY <1>1 DEF IInv, CoinsMade, ReturnCoin
<1>3. got[n][c] = NoBit
  BY <1>1 DEF IInv, CallsMatch
<1>4. got' = [got EXCEPT ![n][c] = BitOf(c)]
  BY <1>2 DEF ReturnCoin
<1>5. \A q \in Honest, r \in Round : then(q, r) <=> has(q, r)
  <2>1. got'[n][c] = BitOf(c) /\ BitOf(c) # NoBit
    BY <1>1, <1>2, <1>4 DEF IInv, TypeOK
  <2>2. ASSUME NEW q \in Honest, NEW r \in Round, q # n \/ r # c PROVE then(q, r) <=> has(q, r)
    <3>1. got'[q][r] = got[q][r] /\ outputQueue'[q][r] = outputQueue[q][r]
      BY <1>1, <2>2 DEF IInv, TypeOK, ReturnCoin
    <3> QED
      BY <3>1
  <2>3. then(n, c) /\ has(n, c)
    BY <2>1, <1>2
  <2> QED
    BY <2>2, <2>3
<1>6. calls' = calls
  BY DEF ReturnCoin
<1>7. Coin!Answer(n, c)
  <2>1. Asked(n, c)
    BY <1>1 DEF Asked
  <2>2. asked' = asked
    BY <1>6 DEF Asked
  <2>3. revealed' = revealed
    BY <1>5
  <2> QED
    BY <1>1, <1>2, <1>3, <1>4, <2>1, <2>2, <2>3 DEF Coin!Answer, BitOf
<1> QED
  BY <1>1, <1>7 DEF Coin!Next, Coin!Honest, Honest

LEMMA KeepShareRefines ==
  ASSUME IInv, NEW n \in Honest, NEW s \in msgs \cup FaultyShare, s.round >= 0, KeepShare(n, s),
         UNCHANGED <<calls, waiting, got, msgs>>
  PROVE  [Coin!Next]_(Coin!specVars)
<1> DEFINE S == SharesOf(received[n] \cup {s}, s.round)
           asked == {p \in Honest \X Round : Asked(p[1], p[2])}
           revealed == {r \in Round : \E q \in Honest : outputQueue[q][r] # NoBit \/ got[q][r] # NoBit}
<1>1. s.round \in Round /\ UNCHANGED <<calls, got>>
  BY ThresholdOnce
<1>2. outputQueue' = IF Cardinality(S) = Shares
                       THEN [outputQueue EXCEPT ![n][s.round] = BitOf(s.round)] ELSE outputQueue
  BY ThresholdOnce DEF KeepShare
<1>3. asked' = asked
  BY <1>1 DEF Asked
<1>4. CASE Cardinality(S) # Shares
  BY <1>1, <1>2, <1>3, <1>4 DEF Coin!specVars
<1>5. CASE Cardinality(S) = Shares
  <2>1. revealed' = revealed \cup {s.round}
    <3>1. outputQueue'[n][s.round] = BitOf(s.round) /\ BitOf(s.round) # NoBit
      BY <1>1, <1>2, <1>5, Constants DEF IInv, TypeOK
    <3>2. \A q \in Honest, r \in Round : r # s.round => outputQueue'[q][r] = outputQueue[q][r]
      BY <1>1, <1>2, <1>5 DEF IInv, TypeOK
    <3> QED
      BY <3>1, <3>2, <1>1
  <2>2. Coin!Available(s.round)
    <3>1. S \in SUBSET (msgs \cup FaultyShare) /\ \A x \in S : x.valid /\ x.round = s.round
      BY ThresholdOnce DEF IInv, KeptShares, SharesOf
    <3>2. Cardinality(S) >= Shares
      BY <1>5, Constants
    <3> QED
      BY <3>1, <3>2, <1>1, CoinAvailable
  <2>3. CASE s.round \in revealed
    BY <2>1, <2>3, <1>1, <1>3 DEF Coin!specVars
  <2>4. CASE s.round \notin revealed
    <3>1. Coin!Reveal(s.round)
      BY <2>1, <2>2, <2>4, <1>1, <1>3 DEF Coin!Reveal
    <3> QED
      BY <3>1, <1>1 DEF Coin!Next
  <2> QED
    BY <2>3, <2>4
<1> QED
  BY <1>4, <1>5

LEMMA ReceiveShareRefines ==
  ASSUME IInv, NEW n \in Honest, NEW s \in msgs \cup FaultyShare, ReceiveShare(n, s)
  PROVE  [Coin!Next]_(Coin!specVars)
<1>1. CASE s.round >= 0 /\ KeepShare(n, s)
  BY <1>1, KeepShareRefines DEF ReceiveShare
<1>2. CASE ~(s.round >= 0 /\ KeepShare(n, s))
  <2>1. UNCHANGED <<calls, waiting, got, received, outputQueue, msgs>>
    BY <1>2, BadRoundStep
  <2> QED
    BY <2>1 DEF Coin!specVars, Asked
<1> QED
  BY <1>1, <1>2

LEMMA RefinementNext == IInv /\ [Next]_coinVars => [Coin!Next]_(Coin!specVars)
<1> SUFFICES ASSUME IInv, [Next]_coinVars PROVE [Coin!Next]_(Coin!specVars)
  OBVIOUS
<1>1. CASE \E n \in Honest : GetCoin(n)
  BY <1>1, GetCoinRefines
<1>2. CASE \E n \in Honest : ReturnCoin(n)
  BY <1>2, ReturnCoinRefines
<1>3. CASE \E n \in Honest, s \in msgs \cup FaultyShare : ReceiveShare(n, s)
  BY <1>3, ReceiveShareRefines
<1>4. CASE UNCHANGED coinVars
  BY <1>4 DEF coinVars, Coin!specVars, Asked
<1> QED
  BY <1>1, <1>2, <1>3, <1>4 DEF Next

\* The coins of shared_coin are common, and none is made before an honest node
\* has asked, whatever F faulty nodes send: they implement CoinSpec.
THEOREM RefinementHolds == Spec => ImplementsCoin
<1>1. Spec => Coin!Init /\ [][Coin!Next]_(Coin!specVars)
  BY RefinementInit, RefinementNext, CoinInvariant, PTL DEF Spec
<1> QED
  BY <1>1 DEF ImplementsCoin, Coin!Spec
-----------------------------------------------------------------------------
\* What has been done about the coins asked for: the share is out, the queue was
\* filled when its shares were complete, and a call that returned left its bit.
SharesSent ==
    \A n \in Honest, r \in Round : Asked(n, r) => [from |-> n, round |-> r, valid |-> TRUE] \in msgs
QueuesFilled ==
    \A n \in Honest, r \in Round :
        Cardinality(SharesOf(received[n], r)) >= Shares => outputQueue[n][r] # NoBit \/ got[n][r] # NoBit
CallsReturned ==
    \A n \in Honest, r \in Round : Asked(n, r) => got[n][r] # NoBit \/ (waiting[n] /\ r = calls[n] - 1)

WorkInv == IInv /\ SharesSent /\ QueuesFilled /\ CallsReturned

LEMMA WorkInit == Init => WorkInv
<1> SUFFICES ASSUME Init PROVE WorkInv
  OBVIOUS
<1>1. IInv
  BY InitInvariant
<1>2. ASSUME NEW n \in Honest, NEW r \in Round PROVE ~Asked(n, r)
  <2>1. calls[n] = 0 /\ r \in Nat
    BY Constants DEF Init
  <2> QED
    BY <2>1 DEF Asked
<1>3. ASSUME NEW n \in Honest, NEW r \in Round PROVE ~(Cardinality(SharesOf(received[n], r)) >= Shares)
  <2>1. SharesOf(received[n], r) = {}
    BY DEF Init, SharesOf
  <2>2. Cardinality(SharesOf(received[n], r)) = 0
    BY <2>1, FS_EmptySet
  <2> QED
    BY <2>2, Constants
<1> QED
  BY <1>1, <1>2, <1>3 DEF WorkInv, SharesSent, QueuesFilled, CallsReturned

LEMMA GetCoinWork == ASSUME WorkInv, NEW n \in Honest, GetCoin(n) PROVE WorkInv'
<1> USE DEF WorkInv
<1>1. calls[n] \in Nat /\ calls[n] \in Round /\ ~waiting[n] /\ UNCHANGED <<got, received, outputQueue, ended>>
  BY Constants DEF IInv, TypeOK, GetCoin
<1>2. /\ msgs' = msgs \cup {[from |-> n, round |-> calls[n], valid |-> TRUE]}
      /\ \A q \in Honest : /\ calls'[q] = IF q = n THEN calls[n] + 1 ELSE calls[q]
                           /\ waiting'[q] = IF q = n THEN TRUE ELSE waiting[q]
  BY DEF IInv, TypeOK, GetCoin
<1>3. ASSUME NEW q \in Honest, NEW r \in Round, Asked(q, r)'
      PROVE  Asked(q, r) \/ (q = n /\ r = calls[n])
  <2>1. r \in Nat /\ calls[q] \in Nat
    BY Constants DEF IInv, TypeOK
  <2>2. CASE q = n
    <3>1. calls[n] + 1 > r
      BY <1>2, <1>3, <2>2 DEF Asked
    <3> QED
      BY <3>1, <1>1, <2>1, <2>2 DEF Asked
  <2>3. CASE q # n
    BY <1>2, <1>3, <2>3 DEF Asked
  <2> QED
    BY <2>2, <2>3
<1>4. SharesSent'
  BY <1>2, <1>3 DEF SharesSent
<1>5. QueuesFilled'
  BY <1>1 DEF QueuesFilled
<1>6. CallsReturned'
  <2> SUFFICES ASSUME NEW q \in Honest, NEW r \in Round, Asked(q, r)'
               PROVE  got[q][r] # NoBit \/ (waiting'[q] /\ r = calls'[q] - 1)
    BY <1>1 DEF CallsReturned
  <2>1. CASE q = n /\ r = calls[n]
    <3>1. calls'[q] = calls[n] + 1 /\ waiting'[q]
      BY <2>1, <1>2
    <3>2. r = calls'[q] - 1
      BY <3>1, <2>1, <1>1
    <3> QED
      BY <3>1, <3>2
  <2>2. CASE Asked(q, r)
    BY <2>2, <1>1, <1>2 DEF CallsReturned
  <2> QED
    BY <2>1, <2>2, <1>3
<1> QED
  BY <1>4, <1>5, <1>6, GetCoinInvariant

LEMMA ReturnCoinWork == ASSUME WorkInv, NEW n \in Honest, ReturnCoin(n) PROVE WorkInv'
<1> USE DEF WorkInv
<1> DEFINE c == calls[n] - 1
<1>1. c \in Round /\ waiting[n] /\ UNCHANGED <<calls, received, ended, msgs>>
  BY DEF IInv, CallsMatch, ReturnCoin
<1>2. got'[n][c] # NoBit
  BY <1>1 DEF IInv, TypeOK, ReturnCoin
<1>3. ASSUME NEW q \in Honest, NEW r \in Round, q # n \/ r # c
      PROVE  got'[q][r] = got[q][r] /\ outputQueue'[q][r] = outputQueue[q][r]
  BY <1>1, <1>3 DEF IInv, TypeOK, ReturnCoin
<1>4. \A q \in Honest : q # n => waiting'[q] = waiting[q]
  BY DEF IInv, TypeOK, ReturnCoin
<1>5. SharesSent'
  BY <1>1 DEF SharesSent, Asked
<1>6. QueuesFilled'
  BY <1>1, <1>2, <1>3 DEF QueuesFilled
<1>7. CallsReturned'
  BY <1>1, <1>2, <1>3, <1>4 DEF CallsReturned, Asked
<1> QED
  BY <1>5, <1>6, <1>7, ReturnCoinInvariant

LEMMA KeepShareWork ==
  ASSUME WorkInv, NEW n \in Honest, NEW s \in msgs \cup FaultyShare, s.round >= 0, KeepShare(n, s),
         UNCHANGED <<calls, waiting, got, msgs>>
  PROVE  WorkInv'
<1> USE DEF WorkInv
<1> DEFINE S == SharesOf(received[n] \cup {s}, s.round)
<1>1. s.round \in Round /\ UNCHANGED <<calls, waiting, got, msgs>>
  BY ThresholdOnce
<1>2. outputQueue' = IF Cardinality(S) = Shares
                       THEN [outputQueue EXCEPT ![n][s.round] = BitOf(s.round)] ELSE outputQueue
  BY ThresholdOnce DEF KeepShare
<1>3. received'[n] = received[n] \cup {s} /\ \A q \in Honest : q # n => received'[q] = received[q]
  BY DEF IInv, TypeOK, KeepShare
<1>4. QueuesFilled'
  <2> SUFFICES ASSUME NEW q \in Honest, NEW r \in Round, Cardinality(SharesOf(received'[q], r)) >= Shares
               PROVE  outputQueue'[q][r] # NoBit \/ got[q][r] # NoBit
    BY <1>1 DEF QueuesFilled
  <2>1. outputQueue'[q][r] = IF q = n /\ r = s.round /\ Cardinality(S) = Shares
                               THEN BitOf(r) ELSE outputQueue[q][r]
    BY <1>1, <1>2 DEF IInv, TypeOK
  <2>2. BitOf(r) # NoBit
    BY Constants
  <2>3. CASE q = n /\ r = s.round
    <3> DEFINE B == SharesOf(received[n], s.round)
    <3>1. Cardinality(S) >= Shares
      BY <2>3, <1>3
    <3>2. Cardinality(S) = Cardinality(B) + 1 /\ Cardinality(B) \in Nat
      BY ThresholdOnce
    <3> HIDE DEF B, S
    <3>3. CASE Cardinality(S) = Shares
      BY <2>1, <2>2, <2>3, <3>3
    <3>4. CASE Cardinality(S) # Shares
      <4>1. Cardinality(B) >= Shares
        BY <3>1, <3>2, <3>4, Constants
      <4>2. outputQueue[n][s.round] # NoBit \/ got[n][s.round] # NoBit
        BY <4>1, <1>1 DEF QueuesFilled, B
      <4> QED
        BY <4>2, <2>1, <2>3, <3>4
    <3> QED
      BY <3>3, <3>4
  <2>4. CASE ~(q = n /\ r = s.round)
    <3>1. SharesOf(received'[q], r) = SharesOf(received[q], r)
      BY <2>4, <1>3 DEF SharesOf
    <3> QED
      BY <3>1, <2>1, <2>4 DEF QueuesFilled
  <2> QED
    BY <2>3, <2>4
<1>5. SharesSent' /\ CallsReturned'
  BY <1>1 DEF SharesSent, CallsReturned, Asked
<1> QED
  BY <1>4, <1>5, KeepShareInvariant

LEMMA ReceiveShareWork ==
  ASSUME WorkInv, NEW n \in Honest, NEW s \in msgs \cup FaultyShare, ReceiveShare(n, s)
  PROVE  WorkInv'
<1> USE DEF WorkInv
<1>1. CASE s.round >= 0 /\ KeepShare(n, s)
  BY <1>1, KeepShareWork DEF ReceiveShare
<1>2. CASE ~(s.round >= 0 /\ KeepShare(n, s))
  <2>1. UNCHANGED <<calls, waiting, got, received, outputQueue, msgs>>
    BY <1>2, BadRoundStep
  <2> QED
    BY <2>1, ReceiveShareInvariant DEF SharesSent, QueuesFilled, CallsReturned, Asked
<1> QED
  BY <1>1, <1>2

LEMMA WorkNext == WorkInv /\ [Next]_coinVars => WorkInv'
<1> SUFFICES ASSUME WorkInv, [Next]_coinVars PROVE WorkInv'
  OBVIOUS
<1>1. CASE \E n \in Honest : GetCoin(n)
  BY <1>1, GetCoinWork
<1>2. CASE \E n \in Honest : ReturnCoin(n)
  BY <1>2, ReturnCoinWork
<1>3. CASE \E n \in Honest, s \in msgs \cup FaultyShare : ReceiveShare(n, s)
  BY <1>3, ReceiveShareWork
<1>4. CASE UNCHANGED coinVars
  BY <1>4, NextInvariant DEF coinVars, WorkInv, SharesSent, QueuesFilled, CallsReturned, Asked
<1> QED
  BY <1>1, <1>2, <1>3, <1>4 DEF Next

\* A receive greenlet that still runs holds, at rest, the share of every honest node that asked.
LEMMA RestShares ==
  ASSUME WorkInv, AtRest, NEW n \in Honest, ended[n] = "no", NEW r \in Round,
         Cardinality({q \in Honest : Asked(q, r)}) >= F + 1
  PROVE  Cardinality(SharesOf(received[n], r)) >= Shares
<1> DEFINE A == {q \in Honest : Asked(q, r)}
           S == SharesOf(received[n], r)
           share(q) == [from |-> q, round |-> r, valid |-> TRUE]
           f == [q \in A |-> share(q)]
<1>1. ASSUME NEW q \in A PROVE share(q) \in S
  <2>1. share(q) \in msgs /\ VerifyShare(share(q))
    BY DEF WorkInv, SharesSent, VerifyShare
  <2>2. PICK x \in S : x.from = q
    BY <2>1 DEF AtRest
  <2>3. x \in ShareMsg /\ x.round = r /\ x.valid = TRUE
    BY <2>2, Constants DEF WorkInv, IInv, TypeOK, KeptShares, SharesOf, ShareMsg
  <2>4. x = share(q)
    BY <2>2, <2>3 DEF ShareMsg
  <2> QED
    BY <2>2, <2>4
<1>2. IsFiniteSet(S)
  BY FS_Subset, S \in SUBSET received[n] DEF WorkInv, IInv, KeptShares, SharesOf
<1>3. f \in Injection(A, S)
  BY <1>1 DEF Injection, IsInjective
<1> HIDE DEF A, S, f
<1>4. Cardinality(A) <= Cardinality(S) /\ Cardinality(A) \in Nat /\ Cardinality(S) \in Nat
  BY <1>2, <1>3, FS_Injection, FS_CardinalityType
<1>5. Cardinality(A) >= F + 1
  BY DEF A
<1>6. Cardinality(S) >= Shares
  BY <1>4, <1>5, Constants
<1> QED
  BY <1>6 DEF S

\* No call of getCoin is left blocked (line 99) once F + 1 honest nodes have
\* asked for its round and their shares have been taken, whatever faulty nodes
\* sent in between and however late the call came, except at a node that was
\* itself sent a share for a round below 0.
THEOREM RestHolds == Spec => []RestLeavesNobody
<1>1. WorkInv => RestLeavesNobody
  <2> SUFFICES ASSUME WorkInv, AtRest, NEW n \in Honest, NEW r \in Round, Asked(n, r),
                      Cardinality({q \in Honest : Asked(q, r)}) >= F + 1, ended[n] # "round"
               PROVE  got[n][r] # NoBit
    BY DEF RestLeavesNobody
  <2>0. ended[n] = "no"
    BY DEF WorkInv, IInv, ReceiverAlive
  <2>1. outputQueue[n][r] # NoBit \/ got[n][r] # NoBit
    BY <2>0, RestShares DEF WorkInv, QueuesFilled
  <2> QED
    BY <2>1 DEF WorkInv, CallsReturned, AtRest
<1> QED
  BY <1>1, WorkInit, WorkNext, PTL DEF Spec
=============================================================================
