---------------------- MODULE ReliableBroadcastProofs ----------------------
(***************************************************************************)
(* Proofs about ReliableBroadcast for every N, F with N >= 3F + 1 within   *)
(* the sizes whose padding decode undoes (K <= 128), every choice of at    *)
(* most F faulty nodes and everything they may send.                       *)
(***************************************************************************)
EXTENDS ReliableBroadcast, FiniteSetTheorems, TLAPS

LEMMA NodeFacts ==
  /\ N \in Nat /\ F \in Nat /\ N >= 3 * F + 1
  /\ IsFiniteSet(Node) /\ Faulty \subseteq Node
  /\ Cardinality(Faulty) \in Nat /\ Cardinality(Faulty) <= F
  /\ Cardinality(Node) = N
<1>1. N \in Nat
  BY NodeAssumption, FS_CardinalityType DEF N
<1>2. Cardinality(Faulty) \in Nat
  BY NodeAssumption, FaultAssumption, FS_Subset, FS_CardinalityType
<1> QED
  BY <1>1, <1>2, NodeAssumption, FaultAssumption DEF N

LEMMA CardinalityNat == \A Q \in SUBSET Node : IsFiniteSet(Q) /\ Cardinality(Q) \in Nat
  BY NodeFacts, FS_Subset, FS_CardinalityType

\* Counting messages with one per sender is counting senders.
LEMMA SendersCounted ==
  ASSUME NEW M, OneEach(M), \A m \in M : m.from \in Node
  PROVE  Cardinality({m.from : m \in M}) = Cardinality(M)
<1> DEFINE S == {m.from : m \in M}
           f == [m \in M |-> m.from]
<1>1. f \in Injection(M, S)
  BY DEF OneEach, Injection, IsInjective
<1>2. f \in Surjection(M, S)
  BY DEF Surjection
<1>3. IsFiniteSet(S)
  BY NodeFacts, FS_Subset
<1> QED
  BY <1>1, <1>2, <1>3, FS_Injection

\* More than F nodes include an honest one.
LEMMA HonestAmong ==
  ASSUME NEW Q \in SUBSET Node, Cardinality(Q) > F
  PROVE  \E q \in Q : q \in Honest
<1>1. CASE Q \subseteq Faulty
  <2>1. Cardinality(Q) <= Cardinality(Faulty)
    BY <1>1, NodeFacts, FS_Subset
  <2> QED
    BY <2>1, NodeFacts, CardinalityNat
<1>2. CASE ~(Q \subseteq Faulty)
  BY <1>2 DEF Honest
<1> QED
  BY <1>1, <1>2

\* Two sets of N - F nodes share an honest node.
LEMMA QuorumsMeet ==
  ASSUME NEW P \in SUBSET Node, NEW Q \in SUBSET Node,
         Cardinality(P) >= EchoThreshold, Cardinality(Q) >= EchoThreshold
  PROVE  \E q \in P \cap Q : q \in Honest
<1>1. Cardinality(P \cup Q) = Cardinality(P) + Cardinality(Q) - Cardinality(P \cap Q)
  BY CardinalityNat, FS_Union
<1>2. Cardinality(P \cup Q) <= N
  BY NodeFacts, FS_Subset, P \cup Q \in SUBSET Node
<1>3. Cardinality(P \cup Q) \in Nat /\ Cardinality(P \cap Q) \in Nat
  BY CardinalityNat, P \cup Q \in SUBSET Node, P \cap Q \in SUBSET Node
<1>4. Cardinality(P \cap Q) > F
  BY <1>1, <1>2, <1>3, CardinalityNat, NodeFacts DEF EchoThreshold
<1> QED
  BY <1>4, HonestAmong, P \cap Q \in SUBSET Node

\* So the leader cannot get two roots past the ECHO threshold.
LEMMA QuorumsAgree ==
  ASSUME NEW g, NEW h, EchoQuorum(g), EchoQuorum(h)
  PROVE  g = h
<1>1. PICK P \in SUBSET Node :
        Cardinality(P) >= EchoThreshold /\ \A q \in P \cap Honest : fromLeader[q] = g
  BY DEF EchoQuorum
<1>2. PICK Q \in SUBSET Node :
        Cardinality(Q) >= EchoThreshold /\ \A q \in Q \cap Honest : fromLeader[q] = h
  BY DEF EchoQuorum
<1> QED
  BY <1>1, <1>2, QuorumsMeet

\* A root commits to at most one message.
LEMMA CodeInjective == \A m1, m2 \in Message : Code[m1] = Code[m2] => m1 = m2
<1>1. K <= Cardinality(Node)
  BY NodeFacts DEF K
<1> QED
  BY <1>1, CodeAssumption, SizeAssumption

\* Quorums stay: fromLeader is assigned once.
LEMMA QuorumStable ==
  ASSUME NEW h \in Root, EchoQuorum(h),
         \A q \in Honest : fromLeader[q] # NoRoot => fromLeader'[q] = fromLeader[q]
  PROVE  EchoQuorum(h)'
  BY CodeAssumption DEF EchoQuorum, EchoThreshold, N, Honest

LEMMA MessageTypes ==
  ASSUME TypeOK, NEW m \in Deliverable
  PROVE  /\ m \in ValMsg \cup EchoMsg \cup ReadyMsg
         /\ m \in msgs \/ m.from \in Faulty
  BY FaultyMsgAssumption DEF TypeOK, Deliverable

LEMMA StoredTypes ==
  ASSUME TypeOK
  PROVE  /\ \A E : StoredEchoes(E) => E \in SUBSET EchoMsg
         /\ \A R : StoredReadies(R) => R \in SUBSET ReadyMsg
  BY MessageTypes DEF StoredEchoes, StoredReadies, ValMsg, EchoMsg, ReadyMsg

\* N - F stored ECHOs for h are an echo quorum for h.
LEMMA EnoughEchoes ==
  ASSUME TypeOK, MsgsInv, NEW E, StoredEchoes(E), NEW h,
         Cardinality(EchoesFor(E, h)) >= EchoThreshold
  PROVE  EchoQuorum(h)
<1> DEFINE M == EchoesFor(E, h)
           Q == {m.from : m \in M}
<1>1. \A m \in M : m \in EchoMsg /\ m.root = h /\ m.type = "ECHO" /\ (m \in msgs \/ m.from \in Faulty)
  BY StoredTypes, MessageTypes DEF EchoesFor, StoredEchoes
<1>2. Q \in SUBSET Node
  BY <1>1 DEF EchoMsg
<1>3. Cardinality(Q) >= EchoThreshold
  <2>1. OneEach(M)
    BY DEF StoredEchoes, OneEach, EchoesFor
  <2>2. \A m \in M : m.from \in Node
    BY <1>1 DEF EchoMsg
  <2> HIDE DEF M
  <2> QED
    BY <2>1, <2>2, SendersCounted DEF M
<1>4. \A q \in Q \cap Honest : fromLeader[q] = h
  BY <1>1 DEF MsgsInv, Honest
<1> QED
  BY <1>2, <1>3, <1>4 DEF EchoQuorum

\* F + 1 stored READYs for h include one of an honest node, hence a quorum.
LEMMA EnoughReadies ==
  ASSUME TypeOK, MsgsInv, NEW R, StoredReadies(R), NEW h,
         Cardinality(ReadiesFor(R, h)) >= ReadyThreshold
  PROVE  EchoQuorum(h)
<1> DEFINE M == ReadiesFor(R, h)
           Q == {m.from : m \in M}
<1>1. \A m \in M : m \in ReadyMsg /\ m.root = h /\ m.type = "READY" /\ (m \in msgs \/ m.from \in Faulty)
  BY StoredTypes, MessageTypes DEF ReadiesFor, StoredReadies
<1>2. Q \in SUBSET Node
  BY <1>1 DEF ReadyMsg
<1>3. Cardinality(Q) = Cardinality(M)
  <2>1. OneEach(M)
    BY DEF StoredReadies, OneEach, ReadiesFor
  <2>2. \A m \in M : m.from \in Node
    BY <1>1 DEF ReadyMsg
  <2> HIDE DEF M
  <2> QED
    BY <2>1, <2>2, SendersCounted
<1>4. Cardinality(Q) > F
  BY <1>2, <1>3, CardinalityNat, NodeFacts DEF ReadyThreshold
<1>5. PICK q \in Q : q \in Honest
  BY <1>2, <1>4, HonestAmong
<1> QED
  BY <1>1, <1>5 DEF MsgsInv, Honest
-----------------------------------------------------------------------------
LEMMA InitInvariant == Init => BroadcastInv
  BY NodeFacts
  DEF Init, BroadcastInv, TypeOK, LocalsInv, MsgsInv, LeaderInv, OutcomeInv,
      StoredEchoes, StoredReadies, OneEach

\* What decode_output can answer, given verified stripes of h: the message h
\* encodes or, if h is no codeword, a failure.
LEMMA FinishOutcome ==
  ASSUME TypeOK, NEW n \in Honest, NEW E, StoredEchoes(E), NEW h \in Root,
         result[n] = NoMessage, Finish(n, E, h)
  PROVE  /\ echoes' = [echoes EXCEPT ![n] = {}] /\ readies' = [readies EXCEPT ![n] = {}]
         /\ \/ /\ pc' = [pc EXCEPT ![n] = "returned"]
               /\ \E m \in Message : Code[m] = h /\ result' = [result EXCEPT ![n] = m]
            \/ /\ pc' = [pc EXCEPT ![n] = "failed"]
               /\ result' = result
               /\ \A m \in Message : Code[m] # h
<1> DEFINE M == EchoesFor(E, h)
<1>1. PICK S \in SUBSET {e.from : e \in M} :
        IF DecodeOutput(M, h, S) # {}
          THEN \E m \in DecodeOutput(M, h, S) :
                 /\ result' = [result EXCEPT ![n] = m]
                 /\ pc' = [pc EXCEPT ![n] = "returned"]
          ELSE pc' = [pc EXCEPT ![n] = "failed"] /\ UNCHANGED result
  BY DEF Finish
<1>2. \A m \in Message : Code[m] = h => m \in DecodeOutput(M, h, S)
  BY DEF DecodeOutput, Decoded, Encode, EchoesFor, StoredEchoes, MerkleVerify
<1>3. \A m \in DecodeOutput(M, h, S) : m \in Message /\ Code[m] = h
  BY DEF DecodeOutput, Decoded, Encode
<1> HIDE DEF M
<1> QED
  BY <1>1, <1>2, <1>3 DEF Finish

\* The common end of the ECHO and READY branches keeps the invariant, provided
\* a READY is only sent on the strength of an echo quorum.
LEMMA BranchEnd ==
  ASSUME BroadcastInv, NEW n \in Honest, pc[n] = "receive",
         NEW E, StoredEchoes(E), NEW R, StoredReadies(R),
         NEW h \in Root, NEW enough \in BOOLEAN, enough => EchoQuorum(h),
         SendReady(n, h, enough), FinishOrLoop(n, E, R, h),
         UNCHANGED <<input, fromLeader>>
  PROVE  BroadcastInv'
<1> USE DEF BroadcastInv
<1>1. /\ msgs' = msgs \/ (EchoQuorum(h) /\ msgs' = msgs \cup {Ready(n, h)})
      /\ readySent' \in [Honest -> BOOLEAN]
  BY DEF SendReady, TypeOK
<1>2. Ready(n, h) \in ReadyMsg /\ Ready(n, h).root = h /\ Ready(n, h).type = "READY"
      /\ Ready(n, h).from = n
  BY DEF Ready, ReadyMsg, Honest
<1>3. result[n] = NoMessage
  BY DEF OutcomeInv
<1>4. /\ \A g : EchoQuorum(g)' <=> EchoQuorum(g)
  BY DEF EchoQuorum, EchoThreshold, N, Honest
<1>5. CanOutput(E, R, h) => EchoQuorum(h)
  <2>1. SUFFICES ASSUME CanOutput(E, R, h) PROVE Cardinality(ReadiesFor(R, h)) >= ReadyThreshold
    BY EnoughReadies
  <2> DEFINE M == ReadiesFor(R, h)
  <2>2. Cardinality(M) >= 2 * F + 1
    BY <2>1 DEF CanOutput, OutputThreshold
  <2>3. Cardinality(M) \in Int
    <3>1. OneEach(M) /\ \A m \in M : m.from \in Node
      BY StoredTypes DEF StoredReadies, OneEach, ReadiesFor, ReadyMsg
    <3>2. {m.from : m \in M} \in SUBSET Node
      BY <3>1
    <3> HIDE DEF M
    <3>3. Cardinality({m.from : m \in M}) = Cardinality(M)
      BY <3>1, SendersCounted
    <3> QED
      BY <3>2, <3>3, CardinalityNat
  <2> HIDE DEF M
  <2> QED
    BY <2>2, <2>3, NodeFacts DEF ReadyThreshold, M
<1>6. E \in SUBSET EchoMsg /\ R \in SUBSET ReadyMsg
  BY StoredTypes
<1>7. \/ /\ ~CanOutput(E, R, h)
         /\ echoes' = [echoes EXCEPT ![n] = E] /\ readies' = [readies EXCEPT ![n] = R]
         /\ pc' = pc /\ result' = result
      \/ /\ EchoQuorum(h)
         /\ echoes' = [echoes EXCEPT ![n] = {}] /\ readies' = [readies EXCEPT ![n] = {}]
         /\ \/ /\ pc' = [pc EXCEPT ![n] = "returned"]
               /\ \E m \in Message : Code[m] = h /\ result' = [result EXCEPT ![n] = m]
            \/ /\ pc' = [pc EXCEPT ![n] = "failed"]
               /\ result' = result
               /\ \A m \in Message : Code[m] # h
  BY <1>3, <1>5, FinishOutcome DEF FinishOrLoop
<1>8. TypeOK'
  BY <1>1, <1>2, <1>6, <1>7 DEF TypeOK
<1>9. LocalsInv'
  <2>1. msgs \subseteq msgs'
    BY <1>1
  <2>2. /\ echoes' \in [Honest -> SUBSET EchoMsg] /\ readies' \in [Honest -> SUBSET ReadyMsg]
        /\ \A x \in Honest : x # n => echoes'[x] = echoes[x] /\ readies'[x] = readies[x]
        /\ echoes'[n] \in {E, {}} /\ readies'[n] \in {R, {}}
    BY <1>7, <1>8 DEF TypeOK
  <2>3. SUFFICES ASSUME NEW x \in Honest
                 PROVE  StoredEchoes(echoes[x])' /\ StoredReadies(readies[x])'
    BY DEF LocalsInv
  <2>4. StoredEchoes(echoes[x]) /\ StoredReadies(readies[x])
    BY DEF LocalsInv
  <2>5. StoredEchoes(echoes[x])'
    BY <2>1, <2>2, <2>4 DEF StoredEchoes, OneEach, Deliverable
  <2>6. StoredReadies(readies[x])'
    BY <2>1, <2>2, <2>4 DEF StoredReadies, OneEach, Deliverable
  <2> QED
    BY <2>5, <2>6
<1>10. MsgsInv'
  BY <1>1, <1>2, <1>4 DEF MsgsInv
<1>11. LeaderInv'
  BY <1>7 DEF LeaderInv, TypeOK
<1>12. OutcomeInv'
  BY <1>4, <1>7 DEF OutcomeInv, TypeOK
<1> QED
  BY <1>8, <1>9, <1>10, <1>11, <1>12
-----------------------------------------------------------------------------
LEMMA LeaderInputStep ==
  ASSUME BroadcastInv, NEW m \in Message, LeaderInput(m)
  PROVE  BroadcastInv'
<1> USE DEF BroadcastInv, LeaderInput, Encode
<1>1. Leader \in Node /\ Code[m] \in Root /\ Root \subseteq [Node -> Block]
  BY NodeFacts, NodeAssumption, CodeAssumption
<1>2. input = NoMessage /\ NoMessage \notin Message
  BY CodeAssumption DEF LeaderInv
<1>3. \A i \in Node : LET v == Val(Leader, i, Code[m]) IN
        v \in ValMsg /\ v.from = Leader /\ v.type = "VAL" /\ v.root = Code[m]
  BY <1>1 DEF Val, ValMsg
<1>4. TypeOK'
  BY <1>3 DEF TypeOK
<1>5. LocalsInv'
  BY DEF LocalsInv, StoredEchoes, StoredReadies, OneEach, Deliverable
<1>6. \A g : EchoQuorum(g)' <=> EchoQuorum(g)
  BY DEF EchoQuorum, EchoThreshold, N, Honest
<1>7. MsgsInv'
  BY <1>2, <1>3, <1>6 DEF MsgsInv
<1>8. LeaderInv'
  BY <1>2 DEF LeaderInv, TypeOK
<1>9. OutcomeInv'
  BY <1>6 DEF OutcomeInv, TypeOK
<1> QED
  BY <1>4, <1>5, <1>7, <1>8, <1>9

LEMMA ReceiveValStep ==
  ASSUME BroadcastInv, NEW n \in Honest, NEW v \in Deliverable, ReceiveVal(n, v)
  PROVE  BroadcastInv'
<1> USE DEF BroadcastInv, ReceiveVal
<1>1. v \in ValMsg /\ v.root \in Root /\ v.stripe \in Block /\ (v \in msgs \/ v.from \in Faulty)
  BY MessageTypes DEF ValMsg, EchoMsg, ReadyMsg
<1>2. LET e == Echo(n, v.root, v.stripe) IN
        e \in EchoMsg /\ e.from = n /\ e.type = "ECHO" /\ e.root = v.root
  BY <1>1 DEF Echo, EchoMsg, Honest
<1>3. /\ \A q \in Honest : fromLeader[q] # NoRoot => fromLeader'[q] = fromLeader[q]
      /\ fromLeader'[n] = v.root
  BY DEF TypeOK
<1>4. \A g \in Root : EchoQuorum(g) => EchoQuorum(g)'
  BY <1>3, QuorumStable
<1>5. TypeOK'
  BY <1>1, <1>2 DEF TypeOK
<1>6. LocalsInv'
  BY DEF LocalsInv, StoredEchoes, StoredReadies, OneEach, Deliverable
<1>7. MsgsInv'
  <2>1. SUFFICES ASSUME NEW m \in msgs', m.type # "VAL" 
                 PROVE  /\ m.from \in Honest
                        /\ m.type = "ECHO" => fromLeader'[m.from] = m.root
                        /\ m.type = "READY" => EchoQuorum(m.root)'
    BY <1>2 DEF MsgsInv
  <2>2. CASE m \in msgs
    <3>1. m.root \in Root
      BY <2>2 DEF TypeOK, ValMsg, EchoMsg, ReadyMsg
    <3> QED
      BY <2>2, <3>1, <1>3, <1>4, CodeAssumption DEF MsgsInv
  <2>3. CASE m = Echo(n, v.root, v.stripe)
    BY <2>3, <1>2, <1>3
  <2> QED
    BY <2>2, <2>3
<1>8. LeaderInv'
  <2>1. Leader \in Honest => v \in msgs
    BY <1>1 DEF Honest
  <2> QED
    BY <2>1, <1>3 DEF LeaderInv, MsgsInv, TypeOK
<1>9. OutcomeInv'
  BY <1>4, CodeAssumption DEF OutcomeInv
<1> QED
  BY <1>5, <1>6, <1>7, <1>8, <1>9

LEMMA ReceiveEchoStep ==
  ASSUME BroadcastInv, NEW n \in Honest, NEW e \in Deliverable, ReceiveEcho(n, e)
  PROVE  BroadcastInv'
<1> USE DEF BroadcastInv, ReceiveEcho
<1> DEFINE E == echoes[n] \cup {e}
           enough == Cardinality(EchoesFor(E, e.root)) >= EchoThreshold
<1>1. e.root \in Root
  BY MessageTypes DEF ValMsg, EchoMsg, ReadyMsg
<1>2. StoredEchoes(E)
  BY DEF LocalsInv, StoredEchoes, OneEach
<1>3. StoredReadies(readies[n])
  BY DEF LocalsInv
<1>4. enough => EchoQuorum(e.root)
  BY <1>2, EnoughEchoes
<1>5. enough \in BOOLEAN /\ SendReady(n, e.root, enough) /\ FinishOrLoop(n, E, readies[n], e.root)
  OBVIOUS
<1> HIDE DEF E, enough
<1> QED
  BY <1>1, <1>2, <1>3, <1>4, <1>5, BranchEnd

LEMMA ReceiveReadyStep ==
  ASSUME BroadcastInv, NEW n \in Honest, NEW r \in Deliverable, ReceiveReady(n, r)
  PROVE  BroadcastInv'
<1> USE DEF BroadcastInv, ReceiveReady
<1> DEFINE R == readies[n] \cup {r}
           enough == Cardinality(ReadiesFor(R, r.root)) >= ReadyThreshold
<1>1. r.root \in Root
  BY MessageTypes DEF ValMsg, EchoMsg, ReadyMsg
<1>2. StoredReadies(R)
  BY DEF LocalsInv, StoredReadies, OneEach
<1>3. StoredEchoes(echoes[n])
  BY DEF LocalsInv
<1>4. enough => EchoQuorum(r.root)
  BY <1>2, EnoughReadies
<1>5. enough \in BOOLEAN /\ SendReady(n, r.root, enough) /\ FinishOrLoop(n, echoes[n], R, r.root)
  OBVIOUS
<1> HIDE DEF R, enough
<1> QED
  BY <1>1, <1>2, <1>3, <1>4, <1>5, BranchEnd

LEMMA ReceiveBrokenStep ==
  ASSUME BroadcastInv, NEW n \in Honest, ReceiveBroken(n)
  PROVE  BroadcastInv'
<1> USE DEF BroadcastInv, ReceiveBroken
<1>1. TypeOK'
  BY DEF TypeOK
<1>2. LocalsInv'
  BY DEF LocalsInv, StoredEchoes, StoredReadies, OneEach, Deliverable, TypeOK
<1>3. \A g : EchoQuorum(g)' <=> EchoQuorum(g)
  BY DEF EchoQuorum, EchoThreshold, N, Honest
<1>4. MsgsInv'
  BY <1>3 DEF MsgsInv
<1>5. LeaderInv'
  BY DEF LeaderInv, TypeOK
<1>6. OutcomeInv'
  BY <1>3 DEF OutcomeInv, TypeOK
<1> QED
  BY <1>1, <1>2, <1>4, <1>5, <1>6

LEMMA StutterStep == BroadcastInv /\ UNCHANGED vars => BroadcastInv'
  BY DEF vars, BroadcastInv, TypeOK, LocalsInv, MsgsInv, LeaderInv, OutcomeInv,
         EchoQuorum, StoredEchoes, StoredReadies, Deliverable, OneEach

LEMMA NextInvariant == BroadcastInv /\ [Next]_vars => BroadcastInv'
  BY LeaderInputStep, ReceiveValStep, ReceiveEchoStep, ReceiveReadyStep, ReceiveBrokenStep,
     StutterStep DEF Next

\* Every reachable state has its type, every stored message was delivered and
\* counted once, and every READY and every outcome rests on an echo quorum:
\* the bookkeeping of the receive loop (lines 232-292).
THEOREM BroadcastInvariant == Spec => []BroadcastInv
  BY InitInvariant, NextInvariant, PTL DEF Spec

\* Type correctness of the receive loop's state.
THEOREM TypeCorrect == Spec => []TypeOK
<1>1. BroadcastInv => TypeOK
  BY DEF BroadcastInv
<1> QED
  BY <1>1, BroadcastInvariant, PTL

\* No two honest nodes send READY for different roots (lines 268-270, 287-289).
THEOREM ReadyAgreementHolds == Spec => []ReadyAgreement
<1>1. BroadcastInv => ReadyAgreement
  BY QuorumsAgree DEF BroadcastInv, MsgsInv, ReadyAgreement
<1> QED
  BY <1>1, BroadcastInvariant, PTL

LEMMA InvAgreement == BroadcastInv => Agreement
<1> SUFFICES ASSUME BroadcastInv, NEW x \in Honest, NEW y \in Honest, Finished(x), Finished(y)
             PROVE  pc[x] = pc[y] /\ result[x] = result[y]
  BY DEF Agreement
<1>1. \A n \in Honest : Finished(n) => \E h \in Root : 
         /\ EchoQuorum(h)
         /\ pc[n] = "returned" => result[n] \in Message /\ Code[result[n]] = h
         /\ pc[n] = "failed" => result[n] = NoMessage /\ \A m \in Message : Code[m] # h
  BY CodeAssumption DEF BroadcastInv, OutcomeInv, Finished
<1>2. PICK h \in Root :
         /\ EchoQuorum(h)
         /\ \A n \in {x, y} :
              /\ pc[n] = "returned" => result[n] \in Message /\ Code[result[n]] = h
              /\ pc[n] = "failed" => result[n] = NoMessage /\ \A m \in Message : Code[m] # h
  BY <1>1, QuorumsAgree
<1> QED
  BY <1>2, CodeInjective DEF Finished

\* All honest nodes end with one outcome: one value, or decode_output's
\* assertion fails at each of them (lines 222-230).
THEOREM AgreementHolds == Spec => []Agreement
  BY InvAgreement, BroadcastInvariant, PTL

LEMMA InvValidity == BroadcastInv => Validity
<1> SUFFICES ASSUME BroadcastInv, Leader \in Honest, NEW n \in Honest, Finished(n)
             PROVE  pc[n] = "returned" /\ result[n] = input
  BY DEF Validity
<1>1. \A h \in Root : EchoQuorum(h) => input \in Message /\ h = Code[input]
  <2>1. SUFFICES ASSUME NEW h \in Root, EchoQuorum(h) PROVE input \in Message /\ h = Code[input]
    OBVIOUS
  <2>2. PICK Q \in SUBSET Node :
          Cardinality(Q) >= EchoThreshold /\ \A q \in Q \cap Honest : fromLeader[q] = h
    BY <2>1 DEF EchoQuorum
  <2>3. PICK q \in Q : q \in Honest
    BY <2>2, QuorumsMeet
  <2> QED
    BY <2>2, <2>3, CodeAssumption DEF BroadcastInv, LeaderInv
<1> QED
  BY <1>1, CodeInjective, CodeAssumption DEF BroadcastInv, OutcomeInv, Finished

\* With an honest leader every honest node that ends the loop by itself returns
\* the leader's input, as long as K <= 128 (decode undoes the padding of encode).
THEOREM ValidityHolds == Spec => []Validity
  BY InvValidity, BroadcastInvariant, PTL
-----------------------------------------------------------------------------
LEMMA RefinementInit == Init => Broadcast!Init
  BY DEF Init, Broadcast!Init, Finished

\* A branch that ends the loop is the abstract Finish; one that does not is a
\* stuttering step.
LEMMA RefinementBranch ==
  ASSUME BroadcastInv, BroadcastInv', NEW n \in Honest, pc[n] = "receive",
         NEW E, StoredEchoes(E), NEW R, NEW h \in Root,
         FinishOrLoop(n, E, R, h), UNCHANGED input
  PROVE  [Broadcast!Next]_(Broadcast!specVars)
<1> DEFINE done == {x \in Honest : Finished(x)}
<1>1. CASE ~CanOutput(E, R, h)
  <2>1. UNCHANGED <<pc, result>>
    BY <1>1 DEF FinishOrLoop
  <2> QED
    BY <2>1 DEF Broadcast!specVars, Finished
<1>2. CASE CanOutput(E, R, h)
  <2>1. result[n] = NoMessage /\ TypeOK
    BY DEF BroadcastInv, OutcomeInv
  <2>2. \E w \in {"returned", "failed"}, v \in Message \cup {NoMessage} :
           pc' = [pc EXCEPT ![n] = w] /\ result' = [result EXCEPT ![n] = v]
    <3>1. result = [result EXCEPT ![n] = NoMessage]
      BY <2>1 DEF TypeOK
    <3> QED
      BY <1>2, <2>1, <3>1, FinishOutcome DEF FinishOrLoop
  <2>3. PICK w \in {"returned", "failed"}, v \in Message \cup {NoMessage} :
           pc' = [pc EXCEPT ![n] = w] /\ result' = [result EXCEPT ![n] = v]
    BY <2>2
  <2>4. n \notin done /\ done' = done \cup {n} /\ result'[n] = v
    BY <2>1, <2>3 DEF Finished, TypeOK
  <2>5. Agreement' /\ Validity'
    BY InvAgreement, InvValidity, PTL
  <2>6. \A x \in done : result[x] = v
    BY <2>1, <2>3, <2>4, <2>5 DEF Agreement, TypeOK
  <2>7. Leader \in Honest => v \in Message /\ v = input
    <3>1. SUFFICES ASSUME Leader \in Honest PROVE v \in Message /\ v = input
      OBVIOUS
    <3>2. pc'[n] = "returned" /\ result'[n] = input'
      BY <2>4, <2>5, <3>1 DEF Validity
    <3>3. result'[n] \in Message
      BY <3>2 DEF BroadcastInv, OutcomeInv
    <3> QED
      BY <2>4, <3>2, <3>3
  <2> QED
    BY <2>3, <2>4, <2>6, <2>7 DEF Broadcast!Next, Broadcast!Finish
<1> QED
  BY <1>1, <1>2

LEMMA RefinementNext ==
  BroadcastInv /\ BroadcastInv' /\ [Next]_vars => [Broadcast!Next]_(Broadcast!specVars)
<1> SUFFICES ASSUME BroadcastInv, BroadcastInv', [Next]_vars
             PROVE  [Broadcast!Next]_(Broadcast!specVars)
  OBVIOUS
<1>1. ASSUME NEW m \in Message, LeaderInput(m) PROVE [Broadcast!Next]_(Broadcast!specVars)
  <2>1. Leader \in Honest /\ input = NoMessage
    BY <1>1 DEF LeaderInput, BroadcastInv, LeaderInv
  <2>2. \A x \in Honest : Finished(x)' <=> Finished(x)
    BY <1>1 DEF LeaderInput, Finished, BroadcastInv, TypeOK
  <2> QED
    BY <1>1, <2>1, <2>2 DEF LeaderInput, Broadcast!Next, Broadcast!Propose
<1>2. ASSUME NEW n \in Honest, NEW v \in Deliverable, ReceiveVal(n, v)
      PROVE  [Broadcast!Next]_(Broadcast!specVars)
  BY <1>2 DEF ReceiveVal, Broadcast!specVars, Finished
<1>3. ASSUME NEW n \in Honest, NEW e \in Deliverable, ReceiveEcho(n, e)
      PROVE  [Broadcast!Next]_(Broadcast!specVars)
  <2> DEFINE E == echoes[n] \cup {e}
  <2>1. e.root \in Root
    BY MessageTypes DEF BroadcastInv, ValMsg, EchoMsg, ReadyMsg
  <2>2. StoredEchoes(E)
    BY <1>3 DEF BroadcastInv, LocalsInv, StoredEchoes, OneEach, ReceiveEcho
  <2>3. pc[n] = "receive" /\ FinishOrLoop(n, E, readies[n], e.root) /\ UNCHANGED input
    BY <1>3 DEF ReceiveEcho
  <2> HIDE DEF E
  <2> QED
    BY <2>1, <2>2, <2>3, RefinementBranch
<1>4. ASSUME NEW n \in Honest, NEW r \in Deliverable, ReceiveReady(n, r)
      PROVE  [Broadcast!Next]_(Broadcast!specVars)
  <2> DEFINE R == readies[n] \cup {r}
  <2>1. r.root \in Root
    BY MessageTypes DEF BroadcastInv, ValMsg, EchoMsg, ReadyMsg
  <2>2. StoredEchoes(echoes[n])
    BY DEF BroadcastInv, LocalsInv
  <2>3. pc[n] = "receive" /\ FinishOrLoop(n, echoes[n], R, r.root) /\ UNCHANGED input
    BY <1>4 DEF ReceiveReady
  <2> HIDE DEF R
  <2> QED
    BY <2>1, <2>2, <2>3, RefinementBranch
<1>5. CASE UNCHANGED vars
  BY <1>5 DEF vars, Broadcast!specVars, Finished
<1>6. ASSUME NEW n \in Honest, ReceiveBroken(n)
      PROVE  [Broadcast!Next]_(Broadcast!specVars)
  <2>1. \A x \in Honest : Finished(x)' <=> Finished(x)
    BY <1>6 DEF ReceiveBroken, Finished, BroadcastInv, TypeOK
  <2> QED
    BY <1>6, <2>1 DEF ReceiveBroken, Broadcast!specVars
<1> QED
  BY <1>1, <1>2, <1>3, <1>4, <1>5, <1>6 DEF Next

\* reliablebroadcast() implements the abstract broadcast its callers use, for the
\* sizes of SizeAssumption; a greenlet that a broken message ended never finishes.
THEOREM RefinementHolds == Spec => ImplementsBroadcast
<1>1. Spec => Broadcast!Init /\ [][Broadcast!Next]_(Broadcast!specVars)
  BY RefinementInit, RefinementNext, BroadcastInvariant, PTL DEF Spec
<1> QED
  BY <1>1 DEF ImplementsBroadcast, Broadcast!Spec
-----------------------------------------------------------------------------
\* An honest node that was shown a root has echoed its stripe of it.
EchoedInv ==
    \A q \in Honest : fromLeader[q] # NoRoot => Echo(q, fromLeader[q], fromLeader[q][q]) \in msgs

Echoers(h) == {q \in Honest : Echo(q, h, h[q]) \in msgs}
Supporters(h) == {q \in Honest : Ready(q, h) \in msgs}
Retrievable(h) == Cardinality(Echoers(h)) >= K /\ Cardinality(Supporters(h)) >= F + 1

RetrievableInv == BroadcastInv /\ EchoedInv /\ OutputRetrievable

\* All but F of some nodes are honest.
LEMMA MostHonest ==
  ASSUME NEW Q \in SUBSET Node
  PROVE  Cardinality(Q \cap Honest) \in Nat /\ Cardinality(Q \cap Honest) >= Cardinality(Q) - F
<1> DEFINE A == Q \cap Honest
           B == Q \cap Faulty
<1>1. A \in SUBSET Node /\ B \in SUBSET Node /\ Q = A \cup B /\ A \cap B = {}
  BY NodeFacts DEF Honest
<1> HIDE DEF A, B
<1>2. Cardinality(A \cap B) = 0
  BY <1>1, FS_EmptySet
<1>3. Cardinality(Q) = Cardinality(A) + Cardinality(B) - Cardinality(A \cap B)
  BY <1>1, CardinalityNat, FS_Union
<1>4. Cardinality(B) <= Cardinality(Faulty)
  BY NodeFacts, CardinalityNat, FS_Subset DEF B
<1>5. Cardinality(A) \in Nat /\ Cardinality(B) \in Nat
  BY <1>1, CardinalityNat
<1>6. Cardinality(A) >= Cardinality(Q) - F
  BY <1>2, <1>3, <1>4, <1>5, NodeFacts
<1> QED
  BY <1>5, <1>6 DEF A

LEMMA LargerStill ==
  ASSUME NEW A, NEW B \in SUBSET Node, A \subseteq B, NEW k \in Nat, Cardinality(A) >= k
  PROVE  Cardinality(B) >= k
<1>1. Cardinality(A) <= Cardinality(B) /\ Cardinality(A) \in Nat /\ Cardinality(B) \in Nat
  BY CardinalityNat, FS_Subset
<1> QED
  BY <1>1

LEMMA RetrievableStays ==
  ASSUME msgs \subseteq msgs', NEW h, Retrievable(h)
  PROVE  Retrievable(h)'
<1>1. Echoers(h) \subseteq Echoers(h)' /\ Echoers(h)' \in SUBSET Node
  BY DEF Echoers, Honest
<1>2. Supporters(h) \subseteq Supporters(h)' /\ Supporters(h)' \in SUBSET Node
  BY DEF Supporters, Honest
<1>3. K \in Nat /\ F + 1 \in Nat
  BY NodeFacts DEF K
<1>4. Cardinality(Echoers(h)') >= K /\ Cardinality(Supporters(h)') >= F + 1
  BY <1>1, <1>2, <1>3, LargerStill DEF Retrievable
<1> QED
  BY <1>4 DEF Retrievable, K, N

\* The condition for leaving the loop: 2F + 1 READY, of which F + 1 are honest,
\* and an echo quorum behind them, of which K are.
LEMMA OutputCondition ==
  ASSUME BroadcastInv, EchoedInv, NEW E, NEW R, StoredReadies(R), NEW h \in Root, CanOutput(E, R, h)
  PROVE  Retrievable(h)
<1> DEFINE M == ReadiesFor(R, h)
           Q == {m.from : m \in M}
<1>1. \A m \in M : m \in ReadyMsg /\ m.root = h /\ m.type = "READY" /\ (m \in msgs \/ m.from \in Faulty)
  BY StoredTypes, MessageTypes DEF ReadiesFor, StoredReadies, BroadcastInv
<1>2. Q \in SUBSET Node
  BY <1>1 DEF ReadyMsg
<1>3. Cardinality(Q) = Cardinality(M)
  <2>1. OneEach(M) /\ \A m \in M : m.from \in Node
    BY <1>1 DEF StoredReadies, OneEach, ReadiesFor, ReadyMsg
  <2> HIDE DEF M
  <2> QED
    BY <2>1, SendersCounted
<1>4. Cardinality(Q) >= 2 * F + 1
  BY <1>3 DEF CanOutput, OutputThreshold
<1>5. \A m \in M : m.from \in Honest => Ready(m.from, h) \in msgs
  BY <1>1 DEF ReadyMsg, Ready, Honest
<1> HIDE DEF M
<1>6. Q \cap Honest \subseteq Supporters(h)
  BY <1>5 DEF Supporters
<1> HIDE DEF Q
<1>7. Cardinality(Q \cap Honest) >= F + 1
  <2>1. Cardinality(Q \cap Honest) \in Nat /\ Cardinality(Q \cap Honest) >= Cardinality(Q) - F /\ Cardinality(Q) \in Nat
    BY <1>2, MostHonest, CardinalityNat
  <2> QED
    BY <2>1, <1>4, NodeFacts
<1>8. Cardinality(Supporters(h)) >= F + 1
  BY <1>6, <1>7, NodeFacts, LargerStill, Supporters(h) \in SUBSET Node DEF Supporters, Honest
<1>9. EchoQuorum(h)
  <2>1. PICK q \in Supporters(h) : TRUE
    <3>1. Cardinality({}) = 0
      BY FS_EmptySet
    <3> QED
      BY <1>8, <3>1, NodeFacts
  <2>2. Ready(q, h) \in msgs /\ Ready(q, h).type = "READY" /\ Ready(q, h).root = h
    BY <2>1 DEF Supporters, Ready
  <2> QED
    BY <2>2 DEF BroadcastInv, MsgsInv
<1>10. PICK P \in SUBSET Node : Cardinality(P) >= EchoThreshold /\ \A q \in P \cap Honest : fromLeader[q] = h
  BY <1>9 DEF EchoQuorum
<1>11. P \cap Honest \subseteq Echoers(h)
  BY <1>10, CodeAssumption DEF EchoedInv, Echoers
<1>12. Cardinality(P \cap Honest) >= K /\ K \in Nat
  <2>1. Cardinality(P \cap Honest) \in Nat /\ Cardinality(P \cap Honest) >= Cardinality(P) - F /\ Cardinality(P) \in Nat
    BY MostHonest, CardinalityNat
  <2> QED
    BY <2>1, <1>10, NodeFacts DEF K, EchoThreshold
<1>13. Cardinality(Echoers(h)) >= K
  BY <1>11, <1>12, LargerStill, Echoers(h) \in SUBSET Node DEF Echoers, Honest
<1> QED
  BY <1>8, <1>13 DEF Retrievable

\* What the end of a branch means for this.
LEMMA BranchRetrievable ==
  ASSUME RetrievableInv, NEW n \in Honest, NEW E, NEW R, StoredReadies(R), NEW h \in Root, NEW enough,
         SendReady(n, h, enough), FinishOrLoop(n, E, R, h), UNCHANGED fromLeader
  PROVE  EchoedInv' /\ OutputRetrievable'
<1>1. msgs \subseteq msgs'
  BY DEF SendReady
<1>2. EchoedInv'
  BY <1>1 DEF RetrievableInv, EchoedInv
<1>3. \A q \in Honest : Finished(q)' => Finished(q) \/ CanOutput(E, R, h)
  BY DEF FinishOrLoop, Finish, Finished
<1>4. ASSUME NEW q \in Honest, Finished(q)'
      PROVE  \E g \in Root : Retrievable(g)'
  <2>1. \E g \in Root : Retrievable(g)
    BY <1>3, <1>4, OutputCondition DEF RetrievableInv, OutputRetrievable, Retrievable, Echoers, Supporters
  <2> QED
    BY <2>1, <1>1, RetrievableStays
<1> QED
  BY <1>2, <1>4 DEF OutputRetrievable, Retrievable, Echoers, Supporters

LEMMA RetrievableNext == RetrievableInv /\ [Next]_vars => RetrievableInv'
<1> SUFFICES ASSUME RetrievableInv, [Next]_vars PROVE RetrievableInv'
  OBVIOUS
<1>0. BroadcastInv /\ BroadcastInv'
  BY NextInvariant DEF RetrievableInv
<1>1. ASSUME msgs \subseteq msgs', \A q \in Honest : Finished(q)' => Finished(q)
      PROVE  OutputRetrievable'
  <2>1. ASSUME NEW q \in Honest, Finished(q)'
        PROVE  \E g \in Root : Retrievable(g)'
    <3>1. \E g \in Root : Retrievable(g)
      BY <1>1, <2>1 DEF RetrievableInv, OutputRetrievable, Retrievable, Echoers, Supporters
    <3> QED
      BY <3>1, <1>1, RetrievableStays
  <2> QED
    BY <2>1 DEF OutputRetrievable, Retrievable, Echoers, Supporters
<1>2. CASE \E m \in Message : LeaderInput(m)
  <2>1. msgs \subseteq msgs' /\ fromLeader' = fromLeader /\ \A q \in Honest : Finished(q)' => Finished(q)
    BY <1>2 DEF LeaderInput, Finished
  <2> QED
    BY <1>0, <1>1, <2>1 DEF RetrievableInv, EchoedInv
<1>3. CASE \E n \in Honest, v \in Deliverable : ReceiveVal(n, v)
  <2>1. PICK n \in Honest, v \in Deliverable : ReceiveVal(n, v)
    BY <1>3
  <2>2. msgs \subseteq msgs' /\ pc' = pc /\ Echo(n, v.root, v.root[n]) \in msgs'
    BY <2>1 DEF ReceiveVal, MerkleVerify
  <2>3. \A q \in Honest : fromLeader'[q] = IF q = n THEN v.root ELSE fromLeader[q]
    BY <1>0, <2>1 DEF ReceiveVal, BroadcastInv, TypeOK
  <2>4. EchoedInv'
    BY <2>2, <2>3 DEF RetrievableInv, EchoedInv
  <2> QED
    BY <1>0, <1>1, <2>2, <2>4 DEF RetrievableInv, Finished
<1>4. CASE \E n \in Honest, e \in Deliverable : ReceiveEcho(n, e)
  <2>1. PICK n \in Honest, e \in Deliverable : ReceiveEcho(n, e)
    BY <1>4
  <2>2. e.root \in Root /\ StoredReadies(readies[n])
    BY <1>0, MessageTypes DEF ValMsg, EchoMsg, ReadyMsg, BroadcastInv, LocalsInv
  <2>3. EchoedInv' /\ OutputRetrievable'
    BY <2>1, <2>2, BranchRetrievable DEF ReceiveEcho
  <2> QED
    BY <1>0, <2>3 DEF RetrievableInv
<1>5. CASE \E n \in Honest, r \in Deliverable : ReceiveReady(n, r)
  <2>1. PICK n \in Honest, r \in Deliverable : ReceiveReady(n, r)
    BY <1>5
  <2>2. r.root \in Root /\ StoredReadies(readies[n] \cup {r})
    BY <1>0, <2>1, MessageTypes DEF ValMsg, EchoMsg, ReadyMsg, BroadcastInv, LocalsInv, ReceiveReady, StoredReadies, OneEach
  <2>3. EchoedInv' /\ OutputRetrievable'
    BY <2>1, <2>2, BranchRetrievable DEF ReceiveReady
  <2> QED
    BY <1>0, <2>3 DEF RetrievableInv
<1>6. CASE UNCHANGED vars
  <2>1. msgs' = msgs /\ pc' = pc /\ fromLeader' = fromLeader
    BY <1>6 DEF vars
  <2> QED
    BY <1>0, <1>1, <2>1 DEF RetrievableInv, EchoedInv, Finished
<1>7. CASE \E n \in Honest : ReceiveBroken(n)
  <2>1. msgs' = msgs /\ fromLeader' = fromLeader /\ \A q \in Honest : Finished(q)' => Finished(q)
    BY <1>0, <1>7 DEF ReceiveBroken, Finished, BroadcastInv, TypeOK
  <2> QED
    BY <1>0, <1>1, <2>1 DEF RetrievableInv, EchoedInv
<1> QED
  BY <1>2, <1>3, <1>4, <1>5, <1>6, <1>7 DEF Next

\* Nobody ends the loop (and so stops answering) before the stripes and READYs
\* the others need have been sent by honest nodes.
THEOREM OutputRetrievableHolds == Spec => []OutputRetrievable
<1>1. Init => RetrievableInv
  <2>1. Init => EchoedInv /\ OutputRetrievable
    BY DEF Init, EchoedInv, OutputRetrievable, Finished
  <2> QED
    BY <2>1, InitInvariant DEF RetrievableInv
<1>2. RetrievableInv => OutputRetrievable
  BY DEF RetrievableInv
<1> QED
  BY <1>1, <1>2, RetrievableNext, PTL DEF Spec
-----------------------------------------------------------------------------
\* What a running greenlet has done about the messages it holds, and that it
\* would have ended with enough of them.
ValsSent ==
    Leader \in Honest /\ input # NoMessage => \A i \in Node : Val(Leader, i, Code[input]) \in msgs
ReadyOut(n) == readySent[n] => \E h \in Root : Ready(n, h) \in msgs
ReadyDue(n) ==
    /\ Finished(n) => readySent[n]
    /\ pc[n] = "input" => n = Leader /\ echoes[n] = {} /\ readies[n] = {}
    /\ pc[n] = "receive" =>
          \A h \in Root :
             /\ ~CanOutput(echoes[n], readies[n], h)
             /\ Cardinality(ReadiesFor(readies[n], h)) >= ReadyThreshold => readySent[n]
             /\ Cardinality(EchoesFor(echoes[n], h)) >= EchoThreshold => readySent[n]

WorkInv == RetrievableInv /\ ValsSent /\ \A n \in Honest : ReadyOut(n) /\ ReadyDue(n)

LEMMA EmptyTallies ==
  \A h \in Root : /\ ~CanOutput({}, {}, h)
                  /\ ~(Cardinality(ReadiesFor({}, h)) >= ReadyThreshold)
                  /\ ~(Cardinality(EchoesFor({}, h)) >= EchoThreshold)
<1>1. \A h : ReadiesFor({}, h) = {} /\ EchoesFor({}, h) = {}
  BY DEF ReadiesFor, EchoesFor
<1>2. \A h : Cardinality(ReadiesFor({}, h)) = 0 /\ Cardinality(EchoesFor({}, h)) = 0
  BY <1>1, FS_EmptySet
<1>3. K >= 1 /\ ReadyThreshold >= 1 /\ EchoThreshold >= 1
  BY NodeFacts DEF K, ReadyThreshold, EchoThreshold
<1>4. K \in Int /\ ReadyThreshold \in Int /\ EchoThreshold \in Int
  BY NodeFacts DEF K, ReadyThreshold, EchoThreshold
<1> HIDE DEF K, ReadyThreshold, EchoThreshold
<1>5. ~(0 >= K) /\ ~(0 >= ReadyThreshold) /\ ~(0 >= EchoThreshold)
  BY <1>3, <1>4
<1> QED
  BY <1>2, <1>5 DEF CanOutput

LEMMA ReadiesFinite ==
  ASSUME TypeOK, NEW R, StoredReadies(R), NEW h
  PROVE  Cardinality(ReadiesFor(R, h)) \in Nat
<1> DEFINE M == ReadiesFor(R, h)
<1>1. OneEach(M) /\ \A m \in M : m.from \in Node
  BY StoredTypes DEF StoredReadies, OneEach, ReadiesFor, ReadyMsg
<1> HIDE DEF M
<1>2. Cardinality({m.from : m \in M}) = Cardinality(M) /\ {m.from : m \in M} \in SUBSET Node
  BY <1>1, SendersCounted
<1>3. Cardinality(M) \in Nat
  BY <1>2, CardinalityNat
<1> QED
  BY <1>3 DEF M

LEMMA WorkInit == Init => WorkInv
<1> SUFFICES ASSUME Init PROVE WorkInv
  OBVIOUS
<1>1. RetrievableInv
  BY InitInvariant DEF Init, RetrievableInv, EchoedInv, OutputRetrievable, Finished
<1>2. \A n \in Honest : ReadyOut(n) /\ ReadyDue(n)
  BY EmptyTallies DEF Init, ReadyOut, ReadyDue, Finished
<1> QED
  BY <1>1, <1>2 DEF Init, WorkInv, ValsSent

\* The end of the ECHO and READY branches: a greenlet that goes on has sent the
\* READY its tallies ask for, one that ends too.
LEMMA BranchWork ==
  ASSUME WorkInv, WorkInv => RetrievableInv', NEW n \in Honest, pc[n] = "receive",
         NEW E \in SUBSET EchoMsg, NEW R \in SUBSET ReadyMsg, NEW h \in Root, NEW enough \in BOOLEAN,
         SendReady(n, h, enough), FinishOrLoop(n, E, R, h), UNCHANGED <<input, fromLeader>>,
         \A g \in Root : g # h => /\ EchoesFor(E, g) = EchoesFor(echoes[n], g)
                                  /\ ReadiesFor(R, g) = ReadiesFor(readies[n], g),
         Cardinality(ReadiesFor(R, h)) >= ReadyThreshold => enough \/ readySent[n],
         Cardinality(EchoesFor(E, h)) >= EchoThreshold => enough \/ readySent[n],
         CanOutput(E, R, h) => enough \/ readySent[n]
  PROVE  WorkInv'
<1>0. TypeOK /\ RetrievableInv' /\ TypeOK'
  BY DEF WorkInv, RetrievableInv, BroadcastInv
<1>1. msgs \subseteq msgs'
  BY DEF SendReady
<1>2. ValsSent'
  BY <1>1 DEF WorkInv, ValsSent
<1>3. /\ \A q \in Honest : q # n => /\ pc'[q] = pc[q] /\ readySent'[q] = readySent[q]
                                    /\ echoes'[q] = echoes[q] /\ readies'[q] = readies[q]
      /\ readySent[n] => readySent'[n]
      /\ enough => readySent'[n]
  BY <1>0 DEF SendReady, FinishOrLoop, Finish, TypeOK
<1>4. ASSUME NEW q \in Honest PROVE ReadyOut(q)'
  <2>1. readySent'[q] => readySent[q] \/ (Ready(n, h) \in msgs' /\ q = n)
    BY <1>0, <1>3 DEF SendReady, TypeOK
  <2> QED
    BY <1>1, <2>1 DEF WorkInv, ReadyOut
<1>5. ASSUME NEW q \in Honest, q # n PROVE ReadyDue(q)'
  BY <1>3, <1>5 DEF WorkInv, ReadyDue, Finished, CanOutput, OutputThreshold, ReadyThreshold, EchoThreshold, K, N
<1>6. ReadyDue(n)'
  <2>1. CASE CanOutput(E, R, h)
    <3>1. pc'[n] \in {"returned", "failed"}
      BY <1>0, <2>1 DEF FinishOrLoop, Finish, TypeOK
    <3> QED
      BY <1>3, <2>1, <3>1 DEF ReadyDue
  <2>2. CASE ~CanOutput(E, R, h)
    <3>1. pc'[n] = "receive" /\ echoes'[n] = E /\ readies'[n] = R
      BY <1>0, <2>2 DEF FinishOrLoop, TypeOK
    <3>2. ASSUME NEW g \in Root
          PROVE  /\ ~CanOutput(E, R, g)
                 /\ Cardinality(ReadiesFor(R, g)) >= ReadyThreshold => readySent'[n]
                 /\ Cardinality(EchoesFor(E, g)) >= EchoThreshold => readySent'[n]
      <4>1. CASE g = h
        BY <1>3, <2>2, <4>1
      <4>2. CASE g # h
        BY <1>3, <4>2 DEF WorkInv, ReadyDue, CanOutput
      <4> QED
        BY <4>1, <4>2
    <3> QED
      BY <3>1, <3>2 DEF ReadyDue, Finished, CanOutput, OutputThreshold, ReadyThreshold, EchoThreshold, K, N
  <2> QED
    BY <2>1, <2>2
<1> QED
  BY <1>0, <1>2, <1>4, <1>5, <1>6 DEF WorkInv

LEMMA WorkNext == WorkInv /\ [Next]_vars => WorkInv'
<1> SUFFICES ASSUME WorkInv, [Next]_vars PROVE WorkInv'
  OBVIOUS
<1>0. TypeOK /\ BroadcastInv /\ RetrievableInv' /\ LocalsInv
  BY RetrievableNext DEF WorkInv, RetrievableInv, BroadcastInv
<1>1. ASSUME NEW m \in Message, LeaderInput(m) PROVE WorkInv'
  <2> USE <1>1 DEF LeaderInput
  <2>1. ValsSent'
    BY DEF ValsSent, Encode
  <2>2. ASSUME NEW q \in Honest PROVE ReadyOut(q)'
    BY DEF WorkInv, ReadyOut
  <2>3. ASSUME NEW q \in Honest, q # Leader PROVE ReadyDue(q)'
    <3>1. pc'[q] = pc[q]
      BY <1>0, <2>3 DEF TypeOK
    <3> QED
      BY <3>1 DEF WorkInv, ReadyDue, Finished, CanOutput, OutputThreshold, ReadyThreshold, EchoThreshold, K, N
  <2>4. ReadyDue(Leader)'
    <3>1. pc'[Leader] = "receive" /\ echoes'[Leader] = {} /\ readies'[Leader] = {}
      BY <1>0 DEF TypeOK, WorkInv, ReadyDue
    <3> QED
      BY <3>1, EmptyTallies DEF ReadyDue, Finished, CanOutput, OutputThreshold, ReadyThreshold, EchoThreshold, K, N
  <2> QED
    BY <1>0, <2>1, <2>2, <2>3, <2>4 DEF WorkInv
<1>2. ASSUME NEW n \in Honest, NEW v \in Deliverable, ReceiveVal(n, v) PROVE WorkInv'
  <2>1. msgs \subseteq msgs' /\ UNCHANGED <<pc, input, echoes, readies, readySent>>
    BY <1>2 DEF ReceiveVal
  <2>2. ValsSent' /\ \A q \in Honest : ReadyOut(q)'
    BY <2>1 DEF WorkInv, ValsSent, ReadyOut
  <2>3. \A q \in Honest : ReadyDue(q)'
    BY <2>1 DEF WorkInv, ReadyDue, Finished, CanOutput, OutputThreshold, ReadyThreshold, EchoThreshold, K, N
  <2> QED
    BY <1>0, <2>2, <2>3 DEF WorkInv
<1>3. ASSUME NEW n \in Honest, NEW e \in Deliverable, ReceiveEcho(n, e) PROVE WorkInv'
  <2> DEFINE E == echoes[n] \cup {e}
             R == readies[n]
             enough == Cardinality(EchoesFor(E, e.root)) >= EchoThreshold
  <2>1. e \in EchoMsg /\ e.root \in Root /\ E \in SUBSET EchoMsg /\ R \in SUBSET ReadyMsg
    BY <1>0, <1>3, MessageTypes DEF ReceiveEcho, ValMsg, EchoMsg, ReadyMsg, TypeOK
  <2>2. /\ pc[n] = "receive" /\ enough \in BOOLEAN /\ SendReady(n, e.root, enough)
        /\ FinishOrLoop(n, E, R, e.root) /\ UNCHANGED <<input, fromLeader>>
    BY <1>3 DEF ReceiveEcho
  <2>3. \A g \in Root : g # e.root => EchoesFor(E, g) = EchoesFor(echoes[n], g)
    BY DEF EchoesFor
  <2>4. Cardinality(ReadiesFor(R, e.root)) >= ReadyThreshold => readySent[n]
    BY <2>1, <2>2 DEF WorkInv, ReadyDue
  <2>5. CanOutput(E, R, e.root) => readySent[n]
    <3>1. StoredReadies(R)
      BY <1>0 DEF LocalsInv
    <3>2. Cardinality(ReadiesFor(R, e.root)) \in Nat
      BY <1>0, <3>1, ReadiesFinite
    <3> QED
      BY <2>4, <3>2, NodeFacts DEF CanOutput, OutputThreshold, ReadyThreshold
  <2> HIDE DEF E, R
  <2>6. Cardinality(EchoesFor(E, e.root)) >= EchoThreshold => enough
    OBVIOUS
  <2> HIDE DEF enough
  <2>7. \A g \in Root : g # e.root => ReadiesFor(R, g) = ReadiesFor(readies[n], g)
    BY DEF R
  <2>8. /\ Cardinality(ReadiesFor(R, e.root)) >= ReadyThreshold => enough \/ readySent[n]
        /\ Cardinality(EchoesFor(E, e.root)) >= EchoThreshold => enough \/ readySent[n]
        /\ CanOutput(E, R, e.root) => enough \/ readySent[n]
    BY <2>4, <2>5, <2>6
  <2> QED
    BY <1>0, <2>1, <2>2, <2>3, <2>7, <2>8, BranchWork
<1>4. ASSUME NEW n \in Honest, NEW r \in Deliverable, ReceiveReady(n, r) PROVE WorkInv'
  <2> DEFINE E == echoes[n]
             R == readies[n] \cup {r}
             enough == Cardinality(ReadiesFor(R, r.root)) >= ReadyThreshold
  <2>1. r \in ReadyMsg /\ r.root \in Root /\ E \in SUBSET EchoMsg /\ R \in SUBSET ReadyMsg
    BY <1>0, <1>4, MessageTypes DEF ReceiveReady, ValMsg, EchoMsg, ReadyMsg, TypeOK
  <2>2. /\ pc[n] = "receive" /\ enough \in BOOLEAN /\ SendReady(n, r.root, enough)
        /\ FinishOrLoop(n, E, R, r.root) /\ UNCHANGED <<input, fromLeader>>
    BY <1>4 DEF ReceiveReady
  <2>3. \A g \in Root : g # r.root => ReadiesFor(R, g) = ReadiesFor(readies[n], g)
    BY DEF ReadiesFor
  <2>4. Cardinality(EchoesFor(E, r.root)) >= EchoThreshold => readySent[n]
    BY <2>1, <2>2 DEF WorkInv, ReadyDue
  <2>5. CanOutput(E, R, r.root) => enough
    <3>1. StoredReadies(R)
      BY <1>0, <1>4 DEF LocalsInv, StoredReadies, OneEach, ReceiveReady
    <3> HIDE DEF R
    <3>2. Cardinality(ReadiesFor(R, r.root)) \in Nat
      BY <1>0, <3>1, ReadiesFinite
    <3> QED
      BY <3>2, NodeFacts DEF CanOutput, OutputThreshold, ReadyThreshold
  <2> HIDE DEF E, R
  <2>6. Cardinality(ReadiesFor(R, r.root)) >= ReadyThreshold => enough
    OBVIOUS
  <2> HIDE DEF enough
  <2>7. \A g \in Root : g # r.root => EchoesFor(E, g) = EchoesFor(echoes[n], g)
    BY DEF E
  <2> QED
    BY <1>0, <2>1, <2>2, <2>3, <2>4, <2>5, <2>6, <2>7, BranchWork
<1>5. CASE UNCHANGED vars
  <2>1. UNCHANGED <<msgs, pc, input, echoes, readies, readySent>>
    BY <1>5 DEF vars
  <2>2. ValsSent' /\ \A q \in Honest : ReadyOut(q)'
    BY <2>1 DEF WorkInv, ValsSent, ReadyOut
  <2>3. \A q \in Honest : ReadyDue(q)'
    BY <2>1 DEF WorkInv, ReadyDue, Finished, CanOutput, OutputThreshold, ReadyThreshold, EchoThreshold, K, N
  <2> QED
    BY <1>0, <2>2, <2>3 DEF WorkInv
<1>6. ASSUME NEW n \in Honest, ReceiveBroken(n) PROVE WorkInv'
  <2>1. /\ UNCHANGED <<msgs, input, readySent>> /\ pc'[n] = "broken"
        /\ \A q \in Honest : q # n => pc'[q] = pc[q] /\ echoes'[q] = echoes[q] /\ readies'[q] = readies[q]
    BY <1>0, <1>6 DEF ReceiveBroken, TypeOK
  <2>2. ValsSent' /\ \A q \in Honest : ReadyOut(q)'
    BY <2>1 DEF WorkInv, ValsSent, ReadyOut
  <2>3. \A q \in Honest : q # n => ReadyDue(q)'
    BY <2>1 DEF WorkInv, ReadyDue, Finished, CanOutput, OutputThreshold, ReadyThreshold, EchoThreshold, K, N
  <2>4. ReadyDue(n)'
    BY <2>1 DEF ReadyDue, Finished
  <2> QED
    BY <1>0, <2>2, <2>3, <2>4 DEF WorkInv
<1> QED
  BY <1>1, <1>2, <1>3, <1>4, <1>5, <1>6 DEF Next
-----------------------------------------------------------------------------
\* A greenlet at rest holds a READY, and an ECHO, of every honest sender.
LEMMA RestTallies ==
  ASSUME WorkInv, NEW n \in Honest, Exhausted(n), NEW h \in Root
  PROVE  /\ \A k \in Nat : Cardinality(Supporters(h)) >= k => Cardinality(ReadiesFor(readies[n], h)) >= k
         /\ \A k \in Nat : Cardinality(Echoers(h)) >= k => Cardinality(EchoesFor(echoes[n], h)) >= k
<1>0. /\ TypeOK /\ MsgsInv /\ StoredEchoes(echoes[n]) /\ StoredReadies(readies[n])
      /\ \A r1, r2 \in msgs : r1.type = "READY" /\ r2.type = "READY" => r1.root = r2.root
  BY QuorumsAgree DEF WorkInv, RetrievableInv, BroadcastInv, LocalsInv, MsgsInv
<1>1. ASSUME NEW k \in Nat, Cardinality(Supporters(h)) >= k
      PROVE  Cardinality(ReadiesFor(readies[n], h)) >= k
  <2> DEFINE M == ReadiesFor(readies[n], h)
             Q == {m.from : m \in M}
  <2>1. \A m \in readies[n] : m \in ReadyMsg /\ m.type = "READY" /\ (m \in msgs \/ m.from \in Faulty)
    BY <1>0, StoredTypes, MessageTypes DEF StoredReadies
  <2>2. \A m \in M : m.from \in Node
    BY <2>1 DEF ReadiesFor, ReadyMsg
  <2>3. OneEach(M)
    BY <1>0 DEF StoredReadies, OneEach, ReadiesFor
  <2>4. ASSUME NEW q \in Supporters(h) PROVE q \in Q
    <3>1. q \in Honest /\ Ready(q, h) \in msgs /\ Ready(q, h).type = "READY"
          /\ Ready(q, h).from = q /\ Ready(q, h).root = h
      BY DEF Supporters, Ready
    <3>2. PICK x \in readies[n] : x.from = q
      BY <3>1 DEF Exhausted
    <3>3. x \in msgs
      BY <2>1, <3>1, <3>2 DEF Honest
    <3> QED
      BY <1>0, <2>1, <3>1, <3>2, <3>3 DEF ReadiesFor
  <2>5. Q \in SUBSET Node
    BY <2>2
  <2> HIDE DEF M
  <2>6. Cardinality(Q) = Cardinality(M)
    BY <2>2, <2>3, SendersCounted
  <2> HIDE DEF Q
  <2>7. Cardinality(Q) >= k
    BY <1>1, <2>4, <2>5, LargerStill, Supporters(h) \subseteq Q
  <2> QED
    BY <2>6, <2>7 DEF M
<1>2. ASSUME NEW k \in Nat, Cardinality(Echoers(h)) >= k
      PROVE  Cardinality(EchoesFor(echoes[n], h)) >= k
  <2> DEFINE M == EchoesFor(echoes[n], h)
             Q == {m.from : m \in M}
  <2>1. \A m \in echoes[n] : m \in EchoMsg /\ m.type = "ECHO" /\ (m \in msgs \/ m.from \in Faulty)
    BY <1>0, StoredTypes, MessageTypes DEF StoredEchoes
  <2>2. \A m \in M : m.from \in Node
    BY <2>1 DEF EchoesFor, EchoMsg
  <2>3. OneEach(M)
    BY <1>0 DEF StoredEchoes, OneEach, EchoesFor
  <2>4. ASSUME NEW q \in Echoers(h) PROVE q \in Q
    <3> DEFINE m == Echo(q, h, h[q])
    <3>1. q \in Honest /\ m \in msgs
      BY DEF Echoers
    <3>2. m.type = "ECHO" /\ m.from = q /\ m.root = h /\ MerkleVerify(m.stripe, m.root, m.from)
      BY DEF Echo, MerkleVerify
    <3> HIDE DEF m
    <3>3. PICK x \in echoes[n] : x.from = q
      BY <3>1, <3>2 DEF Exhausted
    <3>4. x \in msgs
      BY <2>1, <3>1, <3>3 DEF Honest
    <3>5. x.root = fromLeader[q] /\ fromLeader[q] = h
      BY <1>0, <2>1, <3>1, <3>2, <3>3, <3>4 DEF MsgsInv
    <3> QED
      BY <3>3, <3>5 DEF EchoesFor
  <2>5. Q \in SUBSET Node
    BY <2>2
  <2> HIDE DEF M
  <2>6. Cardinality(Q) = Cardinality(M)
    BY <2>2, <2>3, SendersCounted
  <2> HIDE DEF Q
  <2>7. Cardinality(Q) >= k
    BY <1>2, <2>4, <2>5, LargerStill, Echoers(h) \subseteq Q
  <2> QED
    BY <2>6, <2>7 DEF M
<1> QED
  BY <1>1, <1>2

LEMMA HonestQuorum == Cardinality(Honest) \in Nat /\ Cardinality(Honest) >= EchoThreshold
<1>1. Node \cap Honest = Honest
  BY DEF Honest
<1>2. Cardinality(Node \cap Honest) \in Nat /\ Cardinality(Node \cap Honest) >= Cardinality(Node) - F
  BY MostHonest
<1> QED
  BY <1>1, <1>2, NodeFacts DEF EchoThreshold

\* The one READY root: a node that sent READY sent it for the root of any READY.
LEMMA OneReadyRoot ==
  ASSUME WorkInv, NEW h \in Root, EchoQuorum(h), NEW q \in Honest, readySent[q]
  PROVE  q \in Supporters(h)
<1>1. PICK g \in Root : Ready(q, g) \in msgs
  BY DEF WorkInv, ReadyOut
<1>2. Ready(q, g).type = "READY" /\ Ready(q, g).root = g
  BY DEF Ready
<1>3. EchoQuorum(g)
  BY <1>1, <1>2 DEF WorkInv, RetrievableInv, BroadcastInv, MsgsInv
<1> QED
  BY <1>1, <1>3, QuorumsAgree DEF Supporters

\* Everybody's READY and K honest ECHOs leave nobody in the receive loop.
LEMMA AllSupport ==
  ASSUME WorkInv, NEW h \in Root, Honest \subseteq Supporters(h), Cardinality(Echoers(h)) >= K,
         NEW n \in Honest, Exhausted(n)
  PROVE  pc[n] # "receive"
<1>1. Cardinality(Supporters(h)) >= 2 * F + 1
  <2>1. Supporters(h) = Honest
    BY DEF Supporters
  <2> QED
    BY <2>1, HonestQuorum, NodeFacts DEF EchoThreshold
<1>2. Cardinality(ReadiesFor(readies[n], h)) >= OutputThreshold
  BY <1>1, RestTallies, NodeFacts, 2 * F + 1 \in Nat DEF OutputThreshold
<1>3. K \in Nat
  BY NodeFacts DEF K
<1>4. Cardinality(EchoesFor(echoes[n], h)) >= K
  BY <1>3, RestTallies
<1> QED
  BY <1>2, <1>4 DEF WorkInv, ReadyDue, CanOutput

\* Totality at rest: whoever ended had been told of K ECHOs and F + 1 READYs of
\* honest nodes, which everybody has received and amplified by now.
LEMMA RestTotal ==
  ASSUME WorkInv, AtRest, Whole, NEW p \in Honest, Finished(p), NEW n \in Honest
  PROVE  Finished(n)
<1>0. TypeOK /\ MsgsInv /\ LeaderInv
  BY DEF WorkInv, RetrievableInv, BroadcastInv
<1>1. PICK h \in Root : Cardinality(Echoers(h)) >= K /\ Cardinality(Supporters(h)) >= F + 1
  BY DEF WorkInv, RetrievableInv, OutputRetrievable, Echoers, Supporters
<1>2. EchoQuorum(h)
  <2>1. PICK q \in Supporters(h) : TRUE
    <3>1. Cardinality({}) = 0
      BY FS_EmptySet
    <3>2. Cardinality(Supporters(h)) # 0
      BY <1>1, NodeFacts
    <3> QED
      BY <3>1, <3>2
  <2>2. Ready(q, h) \in msgs /\ Ready(q, h).type = "READY" /\ Ready(q, h).root = h
    BY <2>1 DEF Supporters, Ready
  <2> QED
    BY <1>0, <2>2 DEF MsgsInv
<1>3. \A q \in Honest : pc[q] # "input"
  <2>1. PICK Q \in SUBSET Node : Cardinality(Q) >= EchoThreshold /\ \A q \in Q \cap Honest : fromLeader[q] = h
    BY <1>2 DEF EchoQuorum
  <2>2. PICK q \in Q : q \in Honest
    BY <2>1, QuorumsMeet
  <2>3. fromLeader[q] # NoRoot
    BY <2>1, <2>2, CodeAssumption
  <2> QED
    BY <1>0, <2>2, <2>3, CodeAssumption DEF LeaderInv, WorkInv, ReadyDue
<1>4. ASSUME NEW q \in Honest PROVE q \in Supporters(h)
  <2>1. CASE Finished(q)
    BY <2>1, <1>2, OneReadyRoot DEF WorkInv, ReadyDue
  <2>2. CASE ~Finished(q)
    <3>1. pc[q] = "receive" /\ Exhausted(q)
      BY <1>0, <1>3, <2>2 DEF TypeOK, Finished, AtRest, Whole
    <3>2. Cardinality(ReadiesFor(readies[q], h)) >= ReadyThreshold
      BY <1>1, <3>1, RestTallies, NodeFacts, F + 1 \in Nat DEF ReadyThreshold
    <3>3. readySent[q]
      BY <3>1, <3>2 DEF WorkInv, ReadyDue
    <3> QED
      BY <1>2, <3>3, OneReadyRoot
  <2> QED
    BY <2>1, <2>2
<1>5. pc[n] = "receive" => Exhausted(n)
  BY DEF AtRest
<1>6. pc[n] # "receive"
  BY <1>1, <1>4, <1>5, AllSupport
<1> QED
  BY <1>0, <1>3, <1>6 DEF TypeOK, Finished, Whole

\* Termination at rest: the VALs, the ECHOs and the READYs of all honest nodes
\* have been received.
LEMMA RestEnds ==
  ASSUME WorkInv, AtRest, Whole, Leader \in Honest, input # NoMessage
  PROVE  \E p \in Honest : Finished(p)
<1> SUFFICES ASSUME \A p \in Honest : ~Finished(p) PROVE FALSE
  OBVIOUS
<1>0. TypeOK /\ MsgsInv /\ LeaderInv /\ EchoedInv
  BY DEF WorkInv, RetrievableInv, BroadcastInv
<1> DEFINE h == Code[input]
<1>1. input \in Message /\ h \in Root
  BY <1>0, CodeAssumption DEF TypeOK
<1>2. \A q \in Honest : pc[q] = "receive" /\ Exhausted(q)
  BY <1>0 DEF TypeOK, Finished, AtRest, Whole, WorkInv, ReadyDue, LeaderInv
<1>3. ASSUME NEW q \in Honest PROVE fromLeader[q] = h
  <2> DEFINE m == Val(Leader, q, h)
  <2>1. m \in msgs
    BY DEF WorkInv, ValsSent, Honest
  <2>2. m.type = "VAL" /\ m.to = q /\ m.from = Leader /\ MerkleVerify(m.stripe, m.root, q)
    BY DEF Val, MerkleVerify
  <2> HIDE DEF m
  <2>3. fromLeader[q] # NoRoot
    BY <1>2, <2>1, <2>2 DEF Exhausted
  <2> QED
    BY <1>0, <2>3 DEF LeaderInv
<1> HIDE DEF h
<1>4. Honest \subseteq Echoers(h)
  BY <1>0, <1>1, <1>3, CodeAssumption DEF EchoedInv, Echoers
<1>5. Cardinality(Echoers(h)) >= EchoThreshold
  BY <1>4, HonestQuorum, Echoers(h) = Honest DEF Echoers
<1>6. EchoThreshold \in Nat
  BY NodeFacts DEF EchoThreshold
<1>7. EchoQuorum(h)
  BY <1>3, HonestQuorum, Honest \in SUBSET Node DEF EchoQuorum, Honest
<1>8. ASSUME NEW q \in Honest PROVE q \in Supporters(h)
  <2>1. Cardinality(EchoesFor(echoes[q], h)) >= EchoThreshold
    BY <1>1, <1>2, <1>5, <1>6, RestTallies
  <2>2. readySent[q]
    BY <1>1, <1>2, <2>1 DEF WorkInv, ReadyDue
  <2> QED
    BY <1>1, <1>7, <2>2, OneReadyRoot
<1>9. Cardinality(Echoers(h)) >= K
  <2>1. K \in Nat /\ EchoThreshold >= K /\ Cardinality(Echoers(h)) \in Nat
    BY NodeFacts, CardinalityNat, Echoers(h) \in SUBSET Node DEF K, EchoThreshold, Echoers, Honest
  <2> QED
    BY <2>1, <1>5, <1>6
<1> QED
  BY <1>1, <1>2, <1>8, <1>9, AllSupport

\* No greenlet is left waiting (lines 236-290): when what honest nodes sent has
\* been received and one of them has ended, all have, and with an honest leader
\* that had an input they have ended with it, unless a message that the loop
\* cannot handle has ended one of them.
THEOREM RestIsFinalHolds == Spec => []RestIsFinal
<1>1. WorkInv => RestIsFinal
  <2> SUFFICES ASSUME WorkInv, AtRest, Whole
               PROVE  /\ (\E n \in Honest : Finished(n)) => \A n \in Honest : Finished(n)
                      /\ Leader \in Honest /\ input # NoMessage => \A n \in Honest : result[n] = input
    BY DEF RestIsFinal
  <2>1. (\E n \in Honest : Finished(n)) => \A n \in Honest : Finished(n)
    BY RestTotal
  <2>2. Validity
    BY InvValidity DEF WorkInv, RetrievableInv
  <2> QED
    BY <2>1, <2>2, RestEnds DEF Validity
<1> QED
  BY <1>1, WorkInit, WorkNext, PTL DEF Spec
=============================================================================
