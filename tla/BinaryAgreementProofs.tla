----------------------- MODULE BinaryAgreementProofs -----------------------
(***************************************************************************)
(* Proofs about BinaryAgreement for every N, F with N >= 3F + 1, every     *)
(* number of rounds, every sequence of coins, every choice of at most F    *)
(* faulty nodes and everything they may send.                              *)
(***************************************************************************)
EXTENDS BinaryAgreement, FiniteSetTheorems, WellFoundedInduction, TLAPS

\* Node n began round r with estimate v: its input in round 0, later what
\* set_new_estimate made of the values of the round before.
Starts(n, r, v) ==
    IF r = 0 THEN vi[n] = v /\ v \in Bits
    ELSE /\ r - 1 \in Round /\ r <= round[n]
         /\ v \in values[n][r - 1]
         /\ values[n][r - 1] = {v} \/ v = coin[r - 1]

Somewhere(r, v) == \E q \in Honest : Starts(q, r, v)

\* Which variables are set in which phase.
PhaseOK(n) ==
    /\ round[n] \in Round \/ pc[n] = "beyond"
    /\ pc[n] = "input" => round[n] = 0 /\ vi[n] = None /\ already_decided[n] = None
    /\ pc[n] # "input" => vi[n] # None /\ Starts(n, round[n], est[n])
    /\ pc[n] = "aux" => bin_values[n][round[n]] # {}
    /\ \A r \in Round :
          /\ r < round[n] => values[n][r] # {}
          /\ r = round[n] /\ pc[n] \in {"coin", "quit"} => values[n][r] # {}
          /\ values[n][r] # {} => r < round[n] \/ (r = round[n] /\ pc[n] \in {"coin", "quit"})
Phases == \A n \in Honest : PhaseOK(n)

\* An honest node sends one CONF per round.
ConfSent(n, r) == r < round[n] \/ (r = round[n] /\ pc[n] \in {"conf", "coin", "quit"})
SentByHonest ==
    /\ \A m \in msgs : m.from \in Honest
    /\ \A n \in Honest, r \in Round, vs \in SUBSET Bits : Conf(n, r, vs) \in msgs => ConfSent(n, r)
    /\ \A n \in Honest, r \in Round, vs, ws \in SUBSET Bits :
          Conf(n, r, vs) \in msgs /\ Conf(n, r, ws) \in msgs => vs = ws

\* A value that is relayed, accepted or returned is one somebody honest began
\* the round with, and with which somebody honest began every round before.
Justified ==
    /\ \A n \in Honest, r \in Round, v \in Bits :
          /\ Est(n, r, v) \in msgs => Somewhere(r, v)
          /\ v \in bin_values[n][r] => Somewhere(r, v)
          /\ v \in values[n][r] => v \in bin_values[n][r]
    /\ \A n \in Honest, r \in 0 .. MaxRound + 1, v \in Bits :
          Starts(n, r, v) => \A s \in 0 .. r : Somewhere(s, v)

\* A single value was returned by N - F nodes.
Backed ==
    \A n \in Honest, r \in Round, v \in Bits :
        values[n][r] = {v} => Cardinality(ConfSenders(r, {v})) >= Quorum

\* A decision is a value that came out of a round alone and met its coin.
Met(n, r) == values[n][r] = {coin[r]}
Decisions ==
    \A n \in Honest :
        /\ already_decided[n] # None =>
              \E r \in Round : r < round[n] /\ Met(n, r) /\ already_decided[n] = coin[r]
        /\ \A r \in Round : r < round[n] /\ Met(n, r) => already_decided[n] # None
        /\ pc[n] = "quit" => Met(n, round[n]) /\ already_decided[n] = coin[round[n]]

\* Everything but which receive greenlets have ended.
course == <<pc, vi, round, est, already_decided, bin_values, values, coin, msgs>>

IInv == TypeOK /\ Phases /\ SentByHonest /\ Justified /\ Backed /\ Decisions
-----------------------------------------------------------------------------
LEMMA Constants ==
  /\ N \in Nat /\ F \in Nat /\ N >= 3 * F + 1 /\ MaxRound \in Nat
  /\ IsFiniteSet(Node) /\ Faulty \subseteq Node /\ Cardinality(Node) = N
  /\ Cardinality(Faulty) \in Nat /\ Cardinality(Faulty) <= F
  /\ \A Q \in SUBSET Node : IsFiniteSet(Q) /\ Cardinality(Q) \in Nat
  /\ \A m \in FaultyMsg : m \in BitMsg \cup ConfMsg /\ m.from \in Faulty
  /\ Coins \subseteq [Round -> Bits] /\ None \notin Bits
<1>1. \A Q \in SUBSET Node : IsFiniteSet(Q) /\ Cardinality(Q) \in Nat
  BY AgreementNodes, FS_Subset, FS_CardinalityType
<1> QED
  BY <1>1, AgreementNodes, AgreementFaults, AgreementFaultyMsg, AgreementCoins DEF N

LEMMA RoundBits == /\ Round = {r \in Nat : r <= MaxRound} /\ Bits = {0, 1}
  BY Constants DEF Round, Bits

\* Messages of different kinds, senders, rounds or contents differ.
LEMMA MessageKinds ==
  ASSUME NEW n, NEW r, NEW v, NEW k, NEW s, NEW w
  PROVE  /\ Est(n, r, v) = Est(k, s, w) => n = k /\ r = s /\ v = w
         /\ Conf(n, r, v) = Conf(k, s, w) => n = k /\ r = s /\ v = w
         /\ Est(n, r, v) # Aux(k, s, w) /\ Est(n, r, v) # Conf(k, s, w) /\ Aux(n, r, v) # Conf(k, s, w)
         /\ Est(n, r, v).from = n /\ Aux(n, r, v).from = n /\ Conf(n, r, v).from = n
<1>1. /\ Est(n, r, v).type = "EST" /\ Aux(n, r, v).type = "AUX" /\ Conf(n, r, v).type = "CONF"
      /\ Est(k, s, w).type = "EST" /\ Aux(k, s, w).type = "AUX" /\ Conf(k, s, w).type = "CONF"
  BY DEF Est, Aux, Conf
<1>2. Est(n, r, v) = Est(k, s, w) => n = k /\ r = s /\ v = w
  BY DEF Est
<1>3. Conf(n, r, v) = Conf(k, s, w) => n = k /\ r = s /\ v = w
  BY DEF Conf
<1>4. Est(n, r, v).from = n /\ Aux(n, r, v).from = n /\ Conf(n, r, v).from = n
  BY DEF Est, Aux, Conf
<1> QED
  BY <1>1, <1>2, <1>3, <1>4

\* More than F nodes include an honest one.
LEMMA HonestAmong ==
  ASSUME NEW Q \in SUBSET Node, Cardinality(Q) > F
  PROVE  \E q \in Q : q \in Honest
<1>1. CASE Q \subseteq Faulty
  <2>1. Cardinality(Q) <= Cardinality(Faulty)
    BY <1>1, Constants, FS_Subset
  <2> QED
    BY <2>1, Constants
<1>2. CASE ~(Q \subseteq Faulty)
  BY <1>2 DEF Honest
<1> QED
  BY <1>1, <1>2

\* Two sets of N - F nodes share an honest node.
LEMMA QuorumsMeet ==
  ASSUME NEW P \in SUBSET Node, NEW Q \in SUBSET Node,
         Cardinality(P) >= Quorum, Cardinality(Q) >= Quorum
  PROVE  \E q \in P \cap Q : q \in Honest
<1>1. Cardinality(P \cup Q) = Cardinality(P) + Cardinality(Q) - Cardinality(P \cap Q)
  BY Constants, FS_Union
<1>2. Cardinality(P \cup Q) <= N
  BY Constants, FS_Subset, P \cup Q \in SUBSET Node
<1>3. Cardinality(P \cup Q) \in Nat /\ Cardinality(P \cap Q) \in Nat
  BY Constants, P \cup Q \in SUBSET Node, P \cap Q \in SUBSET Node
<1>4. Cardinality(P \cap Q) > F
  BY <1>1, <1>2, <1>3, Constants DEF Quorum
<1> QED
  BY <1>4, HonestAmong, P \cap Q \in SUBSET Node

\* What an honest node is taken to have sent it did send.
LEMMA HonestSent ==
  /\ \A n \in Honest : \A r, v : n \in EstSenders(r, v) => Est(n, r, v) \in msgs
  /\ \A n \in Honest : \A r, vs : n \in ConfSenders(r, vs) => Conf(n, r, vs) \in msgs
<1>1. ASSUME NEW n \in Honest, NEW r, NEW v, Est(n, r, v) \in FaultyMsg \/ Conf(n, r, v) \in FaultyMsg
      PROVE  FALSE
  BY <1>1, Constants, MessageKinds DEF Honest
<1> QED
  BY <1>1 DEF EstSenders, ConfSenders, Sent

\* F + 1 EST for v include one of a node that had its reason.
LEMMA EstReason ==
  ASSUME IInv, NEW r \in Round, NEW v \in Bits, Cardinality(EstSenders(r, v)) >= F + 1
  PROVE  Somewhere(r, v)
<1>1. EstSenders(r, v) \in SUBSET Node
  BY DEF EstSenders
<1>2. Cardinality(EstSenders(r, v)) > F
  BY <1>1, Constants
<1>3. PICK q \in EstSenders(r, v) : q \in Honest
  BY <1>1, <1>2, HonestAmong
<1> QED
  BY <1>3, HonestSent DEF IInv, Justified

\* What holds of every step: inputs, finished rounds and messages stay.
Grows ==
    /\ TypeOK' /\ coin' = coin /\ msgs \subseteq msgs'
    /\ \A n \in Honest :
          /\ vi[n] # None => vi'[n] = vi[n]
          /\ round[n] <= round'[n]
          /\ \A r \in Round : r < round[n] => values'[n][r] = values[n][r]

LEMMA StartsStay ==
  ASSUME IInv, Grows
  PROVE  /\ \A n \in Honest, r \in 0 .. MaxRound + 1, v \in Bits : Starts(n, r, v) => Starts(n, r, v)'
         /\ \A r \in 0 .. MaxRound + 1, v \in Bits : Somewhere(r, v) => Somewhere(r, v)'
<1>1. ASSUME NEW n \in Honest, NEW r \in 0 .. MaxRound + 1, NEW v \in Bits, Starts(n, r, v)
      PROVE  Starts(n, r, v)'
  <2>1. CASE r = 0
    BY <1>1, <2>1, Constants DEF Starts, Grows
  <2>2. CASE r # 0
    <3>1. r - 1 \in Round /\ r - 1 < round[n] /\ r <= round'[n]
      BY <1>1, <2>2, Constants DEF Starts, Grows, IInv, TypeOK, Round
    <3>2. values'[n][r - 1] = values[n][r - 1]
      BY <3>1 DEF Grows
    <3> QED
      BY <1>1, <2>2, <3>1, <3>2 DEF Starts, Grows
  <2> QED
    BY <2>1, <2>2
<1> QED
  BY <1>1 DEF Somewhere

LEMMA QuorumsStay ==
  ASSUME Grows, NEW r, NEW vs, Cardinality(ConfSenders(r, vs)) >= Quorum
  PROVE  Cardinality(ConfSenders(r, vs)') >= Quorum
<1>1. ConfSenders(r, vs) \subseteq ConfSenders(r, vs)' /\ ConfSenders(r, vs)' \in SUBSET Node
  BY DEF ConfSenders, Sent, Grows
<1>2. Cardinality(ConfSenders(r, vs)) <= Cardinality(ConfSenders(r, vs)')
  BY <1>1, Constants, FS_Subset
<1>3. ConfSenders(r, vs) \in SUBSET Node
  BY DEF ConfSenders
<1> QED
  BY <1>1, <1>2, <1>3, Constants DEF Quorum
\* The conjuncts of the invariant that talk about several nodes, for a step of
\* which little is known.
LEMMA SentStays ==
  ASSUME IInv, Grows, NEW M, msgs' = msgs \cup M, \A m \in M : m.from \in Honest,
         \A n, r, vs : Conf(n, r, vs) \notin M,
         \A n \in Honest, r \in Round : ConfSent(n, r) => ConfSent(n, r)'
  PROVE  SentByHonest'
  BY DEF IInv, SentByHonest

LEMMA BackedStays ==
  ASSUME IInv, Grows,
         \A n \in Honest, r \in Round, v \in Bits :
            values'[n][r] = {v} => values[n][r] = {v} \/ Cardinality(ConfSenders(r, {v})) >= Quorum
  PROVE  Backed'
<1>1. ASSUME NEW n \in Honest, NEW r \in Round, NEW v \in Bits, values'[n][r] = {v}
      PROVE  Cardinality(ConfSenders(r, {v})') >= Quorum
  <2>1. Cardinality(ConfSenders(r, {v})) >= Quorum
    BY <1>1 DEF IInv, Backed
  <2> QED
    BY <2>1, QuorumsStay
<1> QED
  BY <1>1 DEF Backed, Quorum, N

LEMMA JustifiedStays ==
  ASSUME IInv, Grows,
         \A n \in Honest, r \in Round, v \in Bits :
            /\ Est(n, r, v) \in msgs' => Est(n, r, v) \in msgs \/ Somewhere(r, v)'
            /\ v \in bin_values'[n][r] => v \in bin_values[n][r] \/ Somewhere(r, v)
            /\ v \in values'[n][r] => v \in bin_values'[n][r],
         \A n \in Honest, r \in 0 .. MaxRound + 1, v \in Bits :
            Starts(n, r, v)' => Starts(n, r, v) \/ r = 0 \/ (r - 1 \in Round /\ v \in bin_values[n][r - 1])
  PROVE  Justified'
<1>1. ASSUME NEW n \in Honest, NEW r \in Round, NEW v \in Bits
      PROVE  /\ Est(n, r, v) \in msgs' => Somewhere(r, v)'
             /\ v \in bin_values'[n][r] => Somewhere(r, v)'
  BY StartsStay, Constants DEF IInv, Justified, Round
<1>2. ASSUME NEW n \in Honest, NEW r \in 0 .. MaxRound + 1, NEW v \in Bits, Starts(n, r, v)', NEW s \in 0 .. r
      PROVE  Somewhere(s, v)'
  <2>0. s \in 0 .. MaxRound + 1
    BY Constants
  <2>1. CASE Starts(n, r, v)
    <3>1. Somewhere(s, v)
      BY <2>1 DEF IInv, Justified
    <3> QED
      BY <3>1, <2>0, StartsStay
  <2>2. CASE s = r
    BY <1>2, <2>2 DEF Somewhere
  <2>3. CASE s # r /\ r - 1 \in Round /\ v \in bin_values[n][r - 1]
    <3>1. PICK q \in Honest : Starts(q, r - 1, v)
      BY <2>3 DEF IInv, Justified, Somewhere
    <3>2. s \in 0 .. r - 1 /\ r - 1 \in 0 .. MaxRound + 1
      BY <2>3, Constants DEF Round
    <3>3. Somewhere(s, v)
      BY <3>1, <3>2 DEF IInv, Justified
    <3> QED
      BY <3>3, <2>0, StartsStay
  <2>4. r = 0 => s = r
    BY Constants
  <2> QED
    BY <1>2, <2>1, <2>2, <2>3, <2>4
<1> QED
  BY <1>1, <1>2 DEF Justified

LEMMA DecisionsStay ==
  ASSUME IInv, coin' = coin, UNCHANGED <<already_decided, round>>,
         \A n \in Honest : pc'[n] = "quit" => pc[n] = "quit",
         \A n \in Honest, r \in Round :
            r < round[n] \/ pc[n] = "quit" => values'[n][r] = values[n][r]
  PROVE  Decisions'
<1> SUFFICES ASSUME NEW n \in Honest
             PROVE  /\ already_decided'[n] # None =>
                         \E r \in Round : r < round[n] /\ Met(n, r)' /\ already_decided[n] = coin[r]
                    /\ \A r \in Round : r < round[n] /\ Met(n, r)' => already_decided[n] # None
                    /\ pc'[n] = "quit" => Met(n, round[n])' /\ already_decided[n] = coin[round[n]]
  BY DEF Decisions, Met
<1>1. \A r \in Round : r < round[n] \/ pc[n] = "quit" => (Met(n, r)' <=> Met(n, r))
  BY DEF Met
<1>2. pc[n] = "quit" => round[n] \in Round
  BY DEF IInv, Phases, PhaseOK
<1>3. pc[n] = "quit" => (Met(n, round[n])' <=> Met(n, round[n]))
  BY <1>2 DEF Met
<1> QED
  BY <1>1, <1>2, <1>3 DEF IInv, Decisions

\* The start of a round is only new for a node that gets an input or ends a round.
LEMMA StartsKept ==
  ASSUME IInv, coin' = coin, NEW n \in Honest, vi'[n] = vi[n], round'[n] = round[n],
         \A r \in Round : r < round[n] => values'[n][r] = values[n][r]
  PROVE  \A r \in 0 .. MaxRound + 1 : \A v : Starts(n, r, v)' = Starts(n, r, v)
<1> SUFFICES ASSUME NEW r \in 0 .. MaxRound + 1, NEW v PROVE Starts(n, r, v)' = Starts(n, r, v)
  OBVIOUS
<1>1. CASE r = 0
  BY <1>1 DEF Starts
<1>2. CASE r # 0
  <2>1. r - 1 \in Round /\ r <= round[n] => values'[n][r - 1] = values[n][r - 1]
    BY Constants DEF IInv, TypeOK, Round
  <2> QED
    BY <1>2, <2>1 DEF Starts
<1> QED
  BY <1>1, <1>2
-----------------------------------------------------------------------------
LEMMA InitInvariant == Init => IInv
<1> SUFFICES ASSUME Init PROVE IInv
  OBVIOUS
<1>1. TypeOK
  BY Constants DEF Init, TypeOK, Round
<1>2. Phases
  BY Constants DEF Init, Phases, PhaseOK, Round
<1>3. SentByHonest
  BY DEF Init, SentByHonest
<1>4. Justified
  <2>1. ASSUME NEW n \in Honest, NEW r \in 0 .. MaxRound + 1, NEW v PROVE ~Starts(n, r, v)
    BY Constants DEF Init, Starts, Round
  <2> QED
    BY <2>1 DEF Init, Justified
<1>5. Backed
  BY DEF Init, Backed
<1>6. Decisions
  BY DEF Init, Decisions, Met
<1> QED
  BY <1>1, <1>2, <1>3, <1>4, <1>5, <1>6 DEF IInv

LEMMA InputInvariant == ASSUME IInv, NEW n \in Honest, NEW v \in Bits, Input(n, v) PROVE IInv'
<1> USE DEF Input
<1>1. TypeOK'
  <2>1. Est(n, 0, v) \in BitMsg
    BY Constants DEF Est, BitMsg, Round, Honest
  <2> QED
    BY <2>1 DEF IInv, TypeOK
<1>2. Grows
  BY <1>1 DEF Grows, IInv, TypeOK, Phases, PhaseOK, Round
<1>3. Starts(n, 0, v)' /\ round[n] = 0 /\ already_decided[n] = None
  BY DEF Starts, IInv, TypeOK, Phases, PhaseOK
<1>4. \A q \in Honest, r \in 0 .. MaxRound + 1 : \A w : q # n \/ r # 0 => Starts(q, r, w)' = Starts(q, r, w)
  <2>1. ASSUME NEW q \in Honest, NEW r \in 0 .. MaxRound + 1, NEW w, q # n \/ r # 0
        PROVE  Starts(q, r, w)' = Starts(q, r, w)
    <3>1. CASE r = 0
      <4>1. vi'[q] = vi[q]
        BY <2>1, <3>1 DEF IInv, TypeOK
      <4> QED
        BY <3>1, <4>1 DEF Starts
    <3>2. CASE r # 0
      BY <3>2 DEF Starts
    <3> QED
      BY <3>1, <3>2
  <2> QED
    BY <2>1
<1>5. Phases'
  <2>1. ASSUME NEW q \in Honest PROVE PhaseOK(q)'
    <3>1. CASE q = n
      BY <3>1, <1>3, Constants DEF PhaseOK, IInv, TypeOK, Phases, Round
    <3>2. CASE q # n
      <4>1. round[q] \in 0 .. MaxRound + 1
        BY DEF IInv, TypeOK
      <4>2. Starts(q, round[q], est[q])' = Starts(q, round[q], est[q])
        BY <3>2, <4>1, <1>4 DEF IInv, TypeOK
      <4> QED
        BY <3>2, <4>2 DEF PhaseOK, IInv, TypeOK, Phases
    <3> QED
      BY <3>1, <3>2
  <2> QED
    BY <2>1 DEF Phases
<1>6. SentByHonest'
  <2>1. \A q \in Honest, r \in Round : ConfSent(q, r) => ConfSent(q, r)'
    BY DEF ConfSent, IInv, TypeOK
  <2>2. \A m \in {Est(n, 0, v)} : m.from \in Honest
    BY MessageKinds
  <2>3. \A q, r, vs : Conf(q, r, vs) \notin {Est(n, 0, v)}
    BY MessageKinds
  <2> QED
    BY <1>2, <2>1, <2>2, <2>3, SentStays
<1>7. Justified'
  <2>1. Somewhere(0, v)'
    BY <1>3 DEF Somewhere
  <2> QED
    BY <1>2, <1>4, <2>1, MessageKinds, JustifiedStays DEF IInv, Justified
<1>8. Backed'
  BY <1>2, BackedStays
<1>9. Decisions'
  BY DecisionsStay DEF IInv, TypeOK
<1> QED
  BY <1>1, <1>5, <1>6, <1>7, <1>8, <1>9 DEF IInv

\* A step of the main greenlet from the first wait to the second, or on to the
\* third.
LEMMA QuietStep ==
  ASSUME IInv, TypeOK', NEW n \in Honest, UNCHANGED <<vi, round, est, already_decided, values, coin>>,
         NEW M, msgs' = msgs \cup M,
         NEW p, pc' = [pc EXCEPT ![n] = p],
         <<pc[n], p>> \in {<<"bin", "aux">>, <<"aux", "conf">>},
         p = "aux" => bin_values'[n][round[n]] # {},
         \A q \in Honest, r \in Round : bin_values[q][r] \subseteq bin_values'[q][r]
  PROVE  /\ Grows /\ Phases' /\ Backed' /\ Decisions'
         /\ \A q \in Honest, r \in 0 .. MaxRound + 1 : \A w : Starts(q, r, w)' = Starts(q, r, w)
<1>1. Grows
  BY DEF Grows, IInv, TypeOK, Round
<1>2. \A q \in Honest, r \in 0 .. MaxRound + 1 : \A w : Starts(q, r, w)' = Starts(q, r, w)
  BY DEF Starts
<1>3. Phases'
  <2>1. ASSUME NEW q \in Honest PROVE PhaseOK(q)'
    <3>1. round[q] \in 0 .. MaxRound + 1 /\ Starts(q, round[q], est[q])' = Starts(q, round[q], est[q])
      BY <1>2 DEF IInv, TypeOK
    <3>2. PhaseOK(q)
      BY DEF IInv, Phases
    <3>3. CASE q = n
      <4>1. pc'[n] = p /\ pc[n] # "quit"
        BY DEF IInv, TypeOK
      <4> QED
        BY <3>1, <3>2, <3>3, <4>1 DEF PhaseOK
    <3>4. CASE q # n
      <4>1. pc'[q] = pc[q]
        BY <3>4 DEF IInv, TypeOK
      <4>2. pc[q] = "aux" => round[q] \in Round
        BY <3>2 DEF PhaseOK
      <4> QED
        BY <3>1, <3>2, <4>1, <4>2 DEF PhaseOK
    <3> QED
      BY <3>3, <3>4
  <2> QED
    BY <2>1 DEF Phases
<1>4. Backed'
  BY <1>1, BackedStays
<1>5. Decisions'
  BY DecisionsStay DEF IInv, TypeOK
<1> QED
  BY <1>1, <1>2, <1>3, <1>4, <1>5
LEMMA SendAuxInvariant == ASSUME IInv, NEW n \in Honest, NEW w \in Bits, SendAux(n, w) PROVE IInv'
<1> USE DEF SendAux
<1>0. round[n] \in Round
  BY DEF IInv, Phases, PhaseOK
<1>1. TypeOK'
  <2>1. Aux(n, round[n], w) \in BitMsg
    BY <1>0 DEF Aux, BitMsg, Honest
  <2> QED
    BY <2>1 DEF IInv, TypeOK
<1>2. /\ Grows /\ Phases' /\ Backed' /\ Decisions'
      /\ \A q \in Honest, r \in 0 .. MaxRound + 1 : \A u : Starts(q, r, u)' = Starts(q, r, u)
  BY <1>1, QuietStep
<1>3. SentByHonest'
  <2>1. \A q \in Honest, r \in Round : ConfSent(q, r) => ConfSent(q, r)'
    BY DEF ConfSent, IInv, TypeOK
  <2>2. \A m \in {Aux(n, round[n], w)} : m.from \in Honest
    BY MessageKinds
  <2>3. \A q, r, vs : Conf(q, r, vs) \notin {Aux(n, round[n], w)}
    BY MessageKinds
  <2> QED
    BY <1>2, <2>1, <2>2, <2>3, SentStays
<1>4. Justified'
  <2>1. \A q, r, u : Est(q, r, u) # Aux(n, round[n], w)
    BY MessageKinds
  <2> QED
    BY <1>2, <2>1, JustifiedStays DEF IInv, Justified
<1> QED
  BY <1>1, <1>2, <1>3, <1>4 DEF IInv

LEMMA CompleteAuxInvariant == ASSUME IInv, NEW n \in Honest, CompleteAux(n, Node) PROVE IInv'
<1> DEFINE r0 == round[n]
           vs0 == bin_values[n][r0]
<1> USE DEF CompleteAux
<1>0. r0 \in Round /\ vs0 \in SUBSET Bits /\ vs0 # {}
  BY DEF IInv, Phases, PhaseOK, TypeOK
<1>1. TypeOK'
  <2>1. Conf(n, r0, vs0) \in ConfMsg
    BY <1>0 DEF Conf, ConfMsg, Honest
  <2> QED
    BY <2>1 DEF IInv, TypeOK
<1>2. /\ Grows /\ Phases' /\ Backed' /\ Decisions'
      /\ \A q \in Honest, r \in 0 .. MaxRound + 1 : \A u : Starts(q, r, u)' = Starts(q, r, u)
  BY <1>1, QuietStep
<1>3. SentByHonest'
  <2>1. \A q \in Honest, r \in Round : ConfSent(q, r) => ConfSent(q, r)'
    BY DEF ConfSent, IInv, TypeOK
  <2>2. ConfSent(n, r0)' /\ ~ConfSent(n, r0)
    BY <1>0, Constants DEF ConfSent, IInv, TypeOK, Round
  <2>3. Conf(n, r0, vs0).from \in Honest
    BY MessageKinds
  <2>4. \A q, r, vs : Conf(q, r, vs) \in msgs' =>
            Conf(q, r, vs) \in msgs \/ (q = n /\ r = r0 /\ vs = vs0)
    BY MessageKinds
  <2>5. \A vs \in SUBSET Bits : Conf(n, r0, vs) \notin msgs
    BY <1>0, <2>2 DEF IInv, SentByHonest
  <2>6. \A m \in msgs' : m.from \in Honest
    BY <2>3 DEF IInv, SentByHonest
  <2>7. ASSUME NEW q \in Honest, NEW r \in Round, NEW vs \in SUBSET Bits, Conf(q, r, vs) \in msgs'
        PROVE  ConfSent(q, r)'
    BY <2>1, <2>2, <2>4, <2>7 DEF IInv, SentByHonest
  <2>8. ASSUME NEW q \in Honest, NEW r \in Round, NEW vs \in SUBSET Bits, NEW ws \in SUBSET Bits,
               Conf(q, r, vs) \in msgs', Conf(q, r, ws) \in msgs'
        PROVE  vs = ws
    BY <2>4, <2>5, <2>8 DEF IInv, SentByHonest
  <2> QED
    BY <2>6, <2>7, <2>8 DEF SentByHonest
<1>4. Justified'
  <2>1. \A q, r, u : Est(q, r, u) # Conf(n, r0, vs0)
    BY MessageKinds
  <2> QED
    BY <1>2, <2>1, JustifiedStays DEF IInv, Justified
<1> QED
  BY <1>1, <1>2, <1>3, <1>4 DEF IInv

LEMMA ReceiveEstInvariant ==
  ASSUME IInv, NEW n \in Honest, NEW r \in Round, NEW v \in Bits,
         NEW count \in {RelayThreshold, AcceptThreshold}, ReceiveEst(n, r, v, count)
  PROVE  IInv'
<1> USE DEF ReceiveEst
<1>1. TypeOK'
  <2>1. Est(n, r, v) \in BitMsg
    BY DEF Est, BitMsg, Honest
  <2> QED
    BY <2>1 DEF IInv, TypeOK
<1>2. Grows
  BY <1>1 DEF Grows, IInv, TypeOK, Round
<1>3. \A q \in Honest, s \in 0 .. MaxRound + 1 : \A u : Starts(q, s, u)' = Starts(q, s, u)
  BY DEF Starts
<1>4. Somewhere(r, v)
  <2>1. EstSenders(r, v) \in SUBSET Node
    BY DEF EstSenders
  <2>2. Cardinality(EstSenders(r, v)) >= F + 1
    BY <2>1, Constants DEF RelayThreshold, AcceptThreshold
  <2> QED
    BY <2>2, EstReason
<1>5. \A q \in Honest, s \in Round : /\ bin_values[q][s] \subseteq bin_values'[q][s]
                                     /\ bin_values'[q][s] \subseteq bin_values[q][s] \cup {v}
                                     /\ s # r => bin_values'[q][s] = bin_values[q][s]
  BY DEF IInv, TypeOK
<1>6. Phases'
  <2>1. ASSUME NEW q \in Honest PROVE PhaseOK(q)'
    <3>1. round[q] \in 0 .. MaxRound + 1 /\ Starts(q, round[q], est[q])' = Starts(q, round[q], est[q])
      BY <1>3 DEF IInv, TypeOK
    <3>2. PhaseOK(q)
      BY DEF IInv, Phases
    <3>3. pc[q] = "aux" => round[q] \in Round
      BY <3>2 DEF PhaseOK
    <3> QED
      BY <3>1, <3>2, <3>3, <1>5 DEF PhaseOK
  <2> QED
    BY <2>1 DEF Phases
<1>7. SentByHonest'
  <2>1. \A q \in Honest, s \in Round : ConfSent(q, s) => ConfSent(q, s)'
    BY DEF ConfSent
  <2>2. \A m \in {Est(n, r, v)} : m.from \in Honest
    BY MessageKinds
  <2>3. \A q, s, vs : Conf(q, s, vs) \notin {Est(n, r, v)}
    BY MessageKinds
  <2> QED
    BY <1>2, <2>1, <2>2, <2>3, SentStays
<1>8. Justified'
  <2>1. Somewhere(r, v)'
    BY <1>2, <1>4, StartsStay, Constants DEF Round
  <2>2. ASSUME NEW q \in Honest, NEW s \in Round, NEW u \in Bits
        PROVE  /\ Est(q, s, u) \in msgs' => Est(q, s, u) \in msgs \/ Somewhere(s, u)'
               /\ u \in bin_values'[q][s] => u \in bin_values[q][s] \/ Somewhere(s, u)
               /\ u \in values'[q][s] => u \in bin_values'[q][s]
    BY <1>4, <1>5, <2>1, MessageKinds DEF IInv, Justified
  <2> QED
    BY <1>2, <1>3, <2>2, JustifiedStays
<1>9. Backed'
  BY <1>2, BackedStays
<1>10. Decisions'
  BY DecisionsStay
<1> QED
  BY <1>1, <1>6, <1>7, <1>8, <1>9, <1>10 DEF IInv
\* Both values are returned only if both are in bin_values.
LEMMA ReturnedAccepted ==
  ASSUME NEW r, NEW B \in SUBSET Bits, NEW vs, ConfReturns(r, B, vs, Node)
  PROVE  /\ vs \in SUBSET Bits /\ vs # {} /\ vs \subseteq B
         /\ \A v \in Bits : vs = {v} => Cardinality(ConfSenders(r, {v})) >= Quorum
<1> DEFINE tally(x) == Cardinality(ConfSenders(r, x) \cap Node)
<1>1. \A x : ConfSenders(r, x) \cap Node = ConfSenders(r, x) /\ tally(x) \in Nat
  <2>1. \A x : ConfSenders(r, x) \cap Node \in SUBSET Node
    OBVIOUS
  <2> QED
    BY <2>1, Constants DEF ConfSenders
<1>2. CASE \E v \in B : vs = {v} /\ tally({v}) >= Quorum
  BY <1>1, <1>2
<1>3. CASE ~(\E v \in B : vs = {v} /\ tally({v}) >= Quorum)
  <2>1. vs = Bits
    BY <1>3 DEF ConfReturns
  <2>2. (IF 0 \in B THEN Below(tally({0})) ELSE 0) + (IF 1 \in B THEN Below(tally({1})) ELSE 0)
             + (IF B = Bits THEN tally(Bits) ELSE 0) >= Quorum
    BY <1>3 DEF ConfReturns
  <2>3. Quorum \in Nat /\ Quorum > 0
    BY Constants DEF Quorum
  <2> HIDE DEF tally
  <2>4. Below(tally({0})) \in Int /\ Below(tally({0})) < Quorum /\ Below(tally({1})) \in Int /\ Below(tally({1})) < Quorum
    BY <1>1, <2>3 DEF Below
  <2>5. B = {} \/ B = {0} \/ B = {1} \/ B = Bits
    BY RoundBits
  <2>6. B = Bits
    <3>1. CASE B = {}
      BY <2>2, <2>3, <3>1, RoundBits
    <3>2. CASE B = {0}
      BY <2>2, <2>3, <2>4, <3>2, RoundBits
    <3>3. CASE B = {1}
      BY <2>2, <2>3, <2>4, <3>3, RoundBits
    <3> QED
      BY <2>5, <3>1, <3>2, <3>3
  <2> QED
    BY <2>1, <2>6, RoundBits
<1> QED
  BY <1>2, <1>3

LEMMA CompleteConfInvariant ==
  ASSUME IInv, NEW n \in Honest, NEW vs \in SUBSET Bits, CompleteConf(n, vs, Node)
  PROVE  IInv'
<1> USE DEF CompleteConf
<1>a. PhaseOK(n) /\ pc[n] = "conf"
  BY DEF IInv, Phases
<1>b. PICK r0 \in Round : r0 = round[n]
  BY <1>a DEF PhaseOK
<1>0. bin_values[n][r0] \in SUBSET Bits /\ values[n][r0] = {} /\ ConfReturns(r0, bin_values[n][r0], vs, Node)
  <2>1. ~(r0 < round[n])
    BY <1>b, RoundBits
  <2>2. values[n][r0] = {}
    BY <1>a, <1>b, <2>1 DEF PhaseOK
  <2> QED
    BY <1>b, <2>2 DEF IInv, TypeOK
<1>1. /\ vs # {} /\ vs \subseteq bin_values[n][r0]
      /\ \A v \in Bits : vs = {v} => Cardinality(ConfSenders(r0, {v})) >= Quorum
  BY <1>0, ReturnedAccepted, ZenonT(60)
<1>2. TypeOK'
  BY DEF IInv, TypeOK
<1>3. \A q \in Honest, r \in Round : values'[q][r] = IF q = n /\ r = r0 THEN vs ELSE values[q][r]
  BY <1>b DEF IInv, TypeOK
<1>4. \A q \in Honest, r \in Round : r < round[q] \/ pc[q] = "quit" => values'[q][r] = values[q][r]
  BY <1>a, <1>b, <1>3, RoundBits
<1>5. Grows
  BY <1>2, <1>4 DEF Grows, IInv, TypeOK
<1>6. \A q \in Honest, r \in 0 .. MaxRound + 1 : \A u : Starts(q, r, u)' = Starts(q, r, u)
  BY <1>4, StartsKept
<1>7. Phases'
  <2>1. ASSUME NEW q \in Honest PROVE PhaseOK(q)'
    <3>1. round[q] \in 0 .. MaxRound + 1 /\ Starts(q, round[q], est[q])' = Starts(q, round[q], est[q])
      BY <1>6 DEF IInv, TypeOK
    <3>2. PhaseOK(q)
      BY DEF IInv, Phases
    <3>3. pc'[q] = IF q = n THEN "coin" ELSE pc[q]
      BY DEF IInv, TypeOK
    <3> QED
      BY <3>1, <3>2, <3>3, <1>b, <1>1, <1>3 DEF PhaseOK
  <2> QED
    BY <2>1 DEF Phases
<1>8. SentByHonest'
  <2>1. \A q \in Honest, r \in Round : ConfSent(q, r) => ConfSent(q, r)'
    BY DEF ConfSent, IInv, TypeOK
  <2> QED
    BY <2>1 DEF IInv, SentByHonest
<1>9. Justified'
  <2>1. ASSUME NEW q \in Honest, NEW r \in Round, NEW v \in Bits, v \in values'[q][r]
        PROVE  v \in bin_values[q][r]
    BY <2>1, <1>1, <1>3 DEF IInv, Justified
  <2> QED
    BY <1>5, <1>6, <2>1, JustifiedStays
<1>10. Backed'
  BY <1>1, <1>3, <1>5, BackedStays
<1>11. Decisions'
  <2>1. \A q \in Honest : pc'[q] = "quit" => pc[q] = "quit"
    BY DEF IInv, TypeOK
  <2> QED
    BY <2>1, <1>4, DecisionsStay
<1> QED
  BY <1>2, <1>7, <1>8, <1>9, <1>10, <1>11 DEF IInv

\* A round ends: its value is decided if it met the coin, and goes on.
LEMMA NextRoundInvariant ==
  ASSUME IInv, NEW n \in Honest, NEW v \in Bits, CoinStep(n), NextRound(n, v),
         v \in values[n][round[n]], values[n][round[n]] = {v} \/ v = coin[round[n]],
         already_decided' = [already_decided EXCEPT
             ![n] = IF Met(n, round[n]) /\ @ = None THEN coin[round[n]] ELSE @]
  PROVE  IInv'
<1> USE DEF CoinStep
<1>b. PICK r0 \in Round : r0 = round[n]
  BY DEF IInv, Phases, PhaseOK
<1>0. /\ pc[n] = "coin" /\ r0 \in Round /\ r0 = round[n] /\ coin[r0] \in Bits
      /\ round' = [round EXCEPT ![n] = r0 + 1] /\ est' = [est EXCEPT ![n] = v]
      /\ v \in values[n][r0] /\ (values[n][r0] = {v} \/ v = coin[r0])
  BY <1>b, Constants DEF IInv, TypeOK, NextRound
<1>1. /\ msgs' \subseteq msgs \cup {Est(n, r0 + 1, v)} /\ msgs \subseteq msgs'
      /\ pc' = [pc EXCEPT ![n] = IF r0 + 1 \in Round THEN "bin" ELSE "beyond"]
      /\ r0 + 1 \notin Round => msgs' = msgs
  BY <1>b DEF NextRound
<1>2. r0 + 1 \in 0 .. MaxRound + 1
  BY <1>0, Constants DEF Round
<1>3. TypeOK'
  <2>1. r0 + 1 \in Round => Est(n, r0 + 1, v) \in BitMsg
    BY DEF Est, BitMsg, Honest
  <2>2. msgs' \subseteq BitMsg \cup ConfMsg
    BY <1>1, <2>1 DEF IInv, TypeOK
  <2> QED
    BY <1>0, <1>1, <1>2, <2>2 DEF IInv, TypeOK
<1>4. Grows
  BY <1>0, <1>1, <1>3 DEF Grows, IInv, TypeOK, Round
<1>5. Starts(n, r0 + 1, v)'
  <2>1. r0 + 1 # 0 /\ r0 + 1 - 1 = r0 /\ round'[n] = r0 + 1
    BY <1>0, RoundBits DEF IInv, TypeOK
  <2> QED
    BY <1>0, <2>1, RoundBits DEF Starts
<1>6. \A q \in Honest, r \in 0 .. MaxRound + 1 : \A w :
        q # n \/ r # r0 + 1 => Starts(q, r, w)' = Starts(q, r, w)
  <2>1. ASSUME NEW q \in Honest, NEW r \in 0 .. MaxRound + 1, NEW w, q # n
        PROVE  Starts(q, r, w)' = Starts(q, r, w)
    BY <2>1, <1>0 DEF Starts, IInv, TypeOK
  <2>2. ASSUME NEW r \in 0 .. MaxRound + 1, NEW w, r # r0 + 1
        PROVE  Starts(n, r, w)' = Starts(n, r, w)
    <3>1. r <= r0 + 1 <=> r <= r0
      BY <2>2, RoundBits
    <3>2. round'[n] = r0 + 1
      BY <1>0 DEF IInv, TypeOK
    <3> QED
      BY <3>1, <3>2, <1>0 DEF Starts
  <2> QED
    BY <2>1, <2>2
<1>7. Phases'
  <2>1. ASSUME NEW q \in Honest PROVE PhaseOK(q)'
    <3>1. PhaseOK(q)
      BY DEF IInv, Phases
    <3>2. CASE q = n
      <4>1. round'[n] = r0 + 1 /\ est'[n] = v /\ pc'[n] \in {"bin", "beyond"} /\ (pc'[n] = "bin" => r0 + 1 \in Round)
        BY <1>0, <1>1 DEF IInv, TypeOK
      <4>2. ASSUME NEW r \in Round
            PROVE  /\ r < r0 + 1 => values[n][r] # {}
                   /\ values[n][r] # {} => r < r0 + 1
        BY <1>0, <3>1, <3>2, Constants DEF PhaseOK, Round
      <4> QED
        BY <1>0, <3>1, <3>2, <4>1, <4>2, <1>5 DEF PhaseOK
    <3>3. CASE q # n
      <4>1. round'[q] = round[q] /\ pc'[q] = pc[q] /\ est'[q] = est[q] /\ already_decided'[q] = already_decided[q]
        BY <3>3, <1>0, <1>1 DEF IInv, TypeOK
      <4>2. Starts(q, round[q], est[q])' = Starts(q, round[q], est[q])
        BY <3>3, <4>1, <1>6 DEF IInv, TypeOK
      <4> QED
        BY <3>1, <4>1, <4>2 DEF PhaseOK
    <3> QED
      BY <3>2, <3>3
  <2> QED
    BY <2>1 DEF Phases
<1>8. SentByHonest'
  <2>1. \A q \in Honest, r \in Round : ConfSent(q, r) => ConfSent(q, r)'
    BY <1>0, <1>1, Constants DEF ConfSent, IInv, TypeOK, Round
  <2>2. \A m \in {Est(n, r0 + 1, v)} : m.from \in Honest
    BY MessageKinds
  <2>3. \A q, s, vs : Conf(q, s, vs) \notin {Est(n, r0 + 1, v)}
    BY MessageKinds
  <2> DEFINE M == msgs' \cap {Est(n, r0 + 1, v)}
  <2>4. msgs' = msgs \cup M
    BY <1>1
  <2>5. (\A m \in M : m.from \in Honest) /\ \A q, s, vs : Conf(q, s, vs) \notin M
    BY <2>2, <2>3
  <2> HIDE DEF M
  <2> QED
    BY <1>4, <2>1, <2>4, <2>5, SentStays
<1>9. Justified'
  <2>1. ASSUME NEW q \in Honest, NEW r \in Round, NEW w \in Bits, Est(q, r, w) \in msgs'
        PROVE  Est(q, r, w) \in msgs \/ Somewhere(r, w)'
    <3>1. Est(q, r, w) \in msgs \/ (q = n /\ r = r0 + 1 /\ w = v)
      <4>1. Est(q, r, w) = Est(n, r0 + 1, v) => q = n /\ r = r0 + 1 /\ w = v
        BY MessageKinds
      <4> QED
        BY <2>1, <1>1, <4>1
    <3> QED
      BY <3>1, <1>5 DEF Somewhere
  <2>2. ASSUME NEW q \in Honest, NEW r \in 0 .. MaxRound + 1, NEW w \in Bits, Starts(q, r, w)'
        PROVE  Starts(q, r, w) \/ r = 0 \/ (r - 1 \in Round /\ w \in bin_values[q][r - 1])
    <3>1. CASE q = n /\ r = r0 + 1
      <4>1. w \in values[n][r0] /\ r - 1 = r0
        BY <2>2, <3>1, <1>0 DEF Starts, Round
      <4> QED
        BY <4>1, <3>1, <1>0 DEF IInv, Justified
    <3>2. CASE ~(q = n /\ r = r0 + 1)
      BY <2>2, <3>2, <1>6
    <3> QED
      BY <3>1, <3>2
  <2> QED
    BY <1>4, <2>1, <2>2, JustifiedStays DEF IInv, Justified
<1>10. Backed'
  BY <1>4, BackedStays
<1>11. Decisions'
  <2>1. \A q \in Honest, r \in Round : Met(q, r)' <=> Met(q, r)
    BY DEF Met
  <2>2. ASSUME NEW q \in Honest, q # n
        PROVE  round'[q] = round[q] /\ pc'[q] = pc[q] /\ already_decided'[q] = already_decided[q]
    BY <2>2, <1>0, <1>1 DEF IInv, TypeOK
  <2>3. /\ round'[n] = r0 + 1 /\ pc'[n] # "quit"
        /\ already_decided'[n] = IF Met(n, r0) /\ already_decided[n] = None THEN coin[r0] ELSE already_decided[n]
    BY <1>b, <1>0, <1>1 DEF IInv, TypeOK
  <2>4. \A r \in Round : r < r0 + 1 <=> r < r0 \/ r = r0
    BY <1>0, Constants DEF Round
  <2>5. coin[r0] # None
    BY <1>0, Constants
  <2>6. ASSUME NEW q \in Honest
        PROVE  /\ already_decided'[q] # None =>
                    \E r \in Round : r < round'[q] /\ Met(q, r) /\ already_decided'[q] = coin[r]
               /\ \A r \in Round : r < round'[q] /\ Met(q, r) => already_decided'[q] # None
               /\ pc'[q] = "quit" => Met(q, round'[q]) /\ already_decided'[q] = coin[round'[q]]
    <3>1. CASE q = n
      BY <3>1, <2>3, <2>4, <2>5, <1>0 DEF IInv, Decisions
    <3>2. CASE q # n
      BY <3>2, <2>2 DEF IInv, Decisions, Met
    <3> QED
      BY <3>1, <3>2
  <2> QED
    BY <2>6 DEF Decisions, Met
<1> QED
  BY <1>3, <1>7, <1>8, <1>9, <1>10, <1>11 DEF IInv

LEMMA AdoptCoinInvariant == ASSUME IInv, NEW n \in Honest, AdoptCoin(n) PROVE IInv'
<1>1. CoinStep(n) /\ values[n][round[n]] = Bits /\ NextRound(n, coin[round[n]]) /\ UNCHANGED already_decided
  BY DEF AdoptCoin
<1>2. coin[round[n]] \in Bits
  BY <1>1, Constants DEF CoinStep, IInv, TypeOK, Phases, PhaseOK
<1>3. ~Met(n, round[n])
  BY <1>1, RoundBits DEF Met
<1>4. already_decided' = [already_decided EXCEPT
             ![n] = IF Met(n, round[n]) /\ @ = None THEN coin[round[n]] ELSE @]
  BY <1>1, <1>3 DEF IInv, TypeOK
<1> QED
  BY <1>1, <1>2, <1>4, NextRoundInvariant

LEMMA KeepValueInvariant == ASSUME IInv, NEW n \in Honest, NEW v \in Bits, KeepValue(n, v) PROVE IInv'
<1>1. CoinStep(n) /\ values[n][round[n]] = {v} /\ NextRound(n, v)
  BY DEF KeepValue
<1>2. Met(n, round[n]) <=> v = coin[round[n]]
  BY <1>1 DEF Met
<1>3. already_decided' = [already_decided EXCEPT
             ![n] = IF Met(n, round[n]) /\ @ = None THEN coin[round[n]] ELSE @]
  BY <1>1, <1>2 DEF KeepValue, IInv, TypeOK
<1> QED
  BY <1>1, <1>3, NextRoundInvariant

LEMMA QuitInvariant == ASSUME IInv, NEW n \in Honest, NEW v \in Bits, Quit(n, v) PROVE IInv'
<1> USE DEF Quit, CoinStep
<1>1. TypeOK'
  BY DEF IInv, TypeOK
<1>2. Grows
  BY <1>1 DEF Grows, IInv, TypeOK, Round
<1>3. \A q \in Honest, r \in 0 .. MaxRound + 1 : \A w : Starts(q, r, w)' = Starts(q, r, w)
  BY DEF Starts
<1>4. \A q \in Honest : pc'[q] = IF q = n THEN "quit" ELSE pc[q]
  BY DEF IInv, TypeOK
<1>5. Phases'
  <2>1. ASSUME NEW q \in Honest PROVE PhaseOK(q)'
    <3>1. round[q] \in 0 .. MaxRound + 1 /\ Starts(q, round[q], est[q])' = Starts(q, round[q], est[q])
      BY <1>3 DEF IInv, TypeOK
    <3>2. PhaseOK(q)
      BY DEF IInv, Phases
    <3> QED
      BY <3>1, <3>2, <1>4 DEF PhaseOK
  <2> QED
    BY <2>1 DEF Phases
<1>6. SentByHonest'
  <2>1. \A q \in Honest, r \in Round : ConfSent(q, r) => ConfSent(q, r)'
    BY <1>4 DEF ConfSent
  <2> QED
    BY <2>1 DEF IInv, SentByHonest
<1>7. Justified'
  BY <1>2, <1>3, JustifiedStays DEF IInv, Justified
<1>8. Backed'
  BY <1>2, BackedStays
<1>9. Decisions'
  BY <1>4 DEF IInv, Decisions, Met
<1> QED
  BY <1>1, <1>5, <1>6, <1>7, <1>8, <1>9 DEF IInv
\* The invariant is about the course of the agreement only.
LEMMA CourseInvariant ==
  ASSUME IInv, UNCHANGED course, ended' \subseteq Honest \X Greenlets \/ UNCHANGED ended
  PROVE  IInv'
<1> USE DEF course
<1>1. TypeOK'
  BY DEF IInv, TypeOK
<1>2. \A n, r, v : Starts(n, r, v)' = Starts(n, r, v)
  BY DEF Starts
<1>3. Phases' /\ Justified'
  BY <1>2 DEF IInv, Phases, PhaseOK, Justified, Somewhere
<1>4. SentByHonest'
  BY DEF IInv, SentByHonest, ConfSent
<1>5. Backed'
  BY DEF IInv, Backed, ConfSenders, Sent
<1>6. Decisions'
  BY DEF IInv, Decisions, Met
<1> QED
  BY <1>1, <1>3, <1>4, <1>5, <1>6 DEF IInv

LEMMA EndReceiverInvariant ==
  ASSUME IInv, NEW n \in Honest, NEW g \in Greenlets, EndReceiver(n, g)
  PROVE  IInv' /\ UNCHANGED course
<1>1. UNCHANGED course
  BY DEF EndReceiver, course
<1>2. ended' \subseteq Honest \X Greenlets
  BY DEF EndReceiver, IInv, TypeOK
<1> QED
  BY <1>1, <1>2, CourseInvariant

LEMMA NextInvariant == IInv /\ [Next]_vars => IInv'
<1> SUFFICES ASSUME IInv, [Next]_vars PROVE IInv'
  OBVIOUS
<1>1. CASE Next
  <2> PICK n \in Honest :
        \/ \E v \in Bits : Input(n, v)
        \/ \E r \in Round, v \in Bits, count \in {RelayThreshold, AcceptThreshold} : ReceiveEst(n, r, v, count)
        \/ \E g \in Greenlets : EndReceiver(n, g)
        \/ \E w \in Bits : SendAux(n, w)
        \/ CompleteAux(n, Node)
        \/ \E vs \in SUBSET Bits : CompleteConf(n, vs, Node)
        \/ AdoptCoin(n)
        \/ \E v \in Bits : KeepValue(n, v)
        \/ \E v \in Bits : Quit(n, v)
    BY <1>1 DEF Next
  <2> QED
    BY EndReceiverInvariant, InputInvariant, ReceiveEstInvariant, SendAuxInvariant, CompleteAuxInvariant,
       CompleteConfInvariant, AdoptCoinInvariant, KeepValueInvariant, QuitInvariant
<1>2. CASE UNCHANGED vars
  BY <1>2, CourseInvariant DEF vars, course
<1> QED
  BY <1>1, <1>2

\* The inductive invariant.
THEOREM AgreementInvariant == Spec => []IInv
  BY InitInvariant, NextInvariant, PTL DEF Spec

\* Every variable stays in its type, and every message is one the others can read.
THEOREM TypeCorrect == Spec => []TypeOK
<1>1. IInv => TypeOK
  BY DEF IInv
<1> QED
  BY <1>1, AgreementInvariant, PTL
-----------------------------------------------------------------------------
LEMMA InvSingletons == IInv => SingletonsAgree
<1> SUFFICES ASSUME IInv, NEW r \in Round, NEW n1 \in Honest, NEW n2 \in Honest,
                    values[n1][r] = {0}, values[n2][r] = {1}
             PROVE  FALSE
  BY DEF SingletonsAgree
<1>1. Cardinality(ConfSenders(r, {0})) >= Quorum /\ Cardinality(ConfSenders(r, {1})) >= Quorum
  BY RoundBits DEF IInv, Backed
<1>2. PICK q \in ConfSenders(r, {0}) \cap ConfSenders(r, {1}) : q \in Honest
  BY <1>1, QuorumsMeet DEF ConfSenders
<1>3. Conf(q, r, {0}) \in msgs /\ Conf(q, r, {1}) \in msgs
  BY <1>2, HonestSent
<1>4. {0} \in SUBSET Bits /\ {1} \in SUBSET Bits /\ {0} # {1}
  BY RoundBits
<1> QED
  BY <1>2, <1>3, <1>4 DEF IInv, SentByHonest

\* Of two nodes that finish the CONF phase of a round, one with the coin alone,
\* the other takes the coin along too.
LEMMA CoinKept ==
  ASSUME IInv, NEW r \in Round, NEW n \in Honest, Met(n, r),
         NEW q \in Honest, NEW v \in Bits, v \in values[q][r], values[q][r] = {v} \/ v = coin[r]
  PROVE  v = coin[r]
<1>1. CASE values[q][r] = {v}
  <2>1. coin[r] \in Bits
    BY Constants DEF IInv, TypeOK
  <2>2. values[n][r] = {coin[r]}
    BY DEF Met
  <2> QED
    BY <1>1, <2>1, <2>2, InvSingletons, RoundBits DEF SingletonsAgree
<1> QED
  BY <1>1

\* Once a value has met the coin of round r somewhere, every later round begins
\* with it at every honest node.
LEMMA LaterStarts ==
  ASSUME IInv, NEW r \in Round, NEW n \in Honest, Met(n, r),
         NEW q \in Honest, NEW s \in 0 .. MaxRound + 1, s > r, NEW v \in Bits, Starts(q, s, v)
  PROVE  v = coin[r]
<1>1. PICK t \in 0 .. s : t # 0 /\ t - 1 = r
  <2>1. r + 1 \in 0 .. s /\ r + 1 # 0 /\ (r + 1) - 1 = r
    BY RoundBits
  <2> QED
    BY <2>1
<1>2. PICK p \in Honest : Starts(p, t, v)
  BY DEF IInv, Justified, Somewhere
<1>3. v \in values[p][r] /\ (values[p][r] = {v} \/ v = coin[r])
  BY <1>1, <1>2 DEF Starts
<1> QED
  BY <1>3, CoinKept

\* Then nothing else comes out of these rounds.
LEMMA LaterValues ==
  ASSUME IInv, NEW r \in Round, NEW n \in Honest, Met(n, r),
         NEW q \in Honest, NEW s \in Round, s > r
  PROVE  values[q][s] \subseteq {coin[r]}
<1> SUFFICES ASSUME NEW v \in values[q][s] PROVE v = coin[r]
  OBVIOUS
<1>1. v \in Bits /\ s \in 0 .. MaxRound + 1
  BY Constants DEF IInv, TypeOK, Round
<1>2. Somewhere(s, v)
  BY <1>1 DEF IInv, Justified
<1> QED
  BY <1>1, <1>2, LaterStarts DEF Somewhere

LEMMA InvAgreement == IInv => Agreement
<1> SUFFICES ASSUME IInv, NEW n1 \in Honest, NEW n2 \in Honest,
                    already_decided[n1] # None, already_decided[n2] # None
             PROVE  already_decided[n1] = already_decided[n2]
  BY DEF Agreement
<1>1. PICK r1 \in Round : Met(n1, r1) /\ already_decided[n1] = coin[r1]
  BY DEF IInv, Decisions
<1>2. PICK r2 \in Round : Met(n2, r2) /\ already_decided[n2] = coin[r2]
  BY DEF IInv, Decisions
<1>3. ASSUME NEW p \in Honest, NEW q \in Honest, NEW r \in Round, NEW s \in Round,
             Met(p, r), Met(q, s), s > r
      PROVE  coin[s] = coin[r]
  BY <1>3, LaterValues DEF Met
<1>4. r1 = r2 \/ r1 > r2 \/ r2 > r1
  BY RoundBits
<1> QED
  BY <1>1, <1>2, <1>3, <1>4

LEMMA InvValidity == IInv => Validity
<1> SUFFICES ASSUME IInv, NEW n \in Honest, already_decided[n] # None
             PROVE  \E q \in Honest : vi[q] = already_decided[n]
  BY DEF Validity
<1>1. PICK r \in Round : Met(n, r) /\ already_decided[n] = coin[r]
  BY DEF IInv, Decisions
<1>2. coin[r] \in Bits /\ coin[r] \in values[n][r] /\ r \in 0 .. MaxRound + 1 /\ 0 \in 0 .. r
  BY <1>1, Constants, RoundBits DEF Met, IInv, TypeOK
<1>3. PICK q \in Honest : Starts(q, r, coin[r])
  BY <1>2 DEF IInv, Justified, Somewhere
<1>4. PICK p \in Honest : Starts(p, 0, coin[r])
  BY <1>2, <1>3 DEF IInv, Justified, Somewhere
<1> QED
  BY <1>1, <1>4 DEF Starts

LEMMA InvLocked == IInv => LockedIn
<1> SUFFICES ASSUME IInv, NEW r \in Round, NEW n1 \in Honest, NEW n2 \in Honest,
                    values[n1][r] = {coin[r]}, round[n2] > r
             PROVE  est[n2] = coin[r]
  BY DEF LockedIn
<1>1. pc[n2] # "input" /\ round[n2] \in 0 .. MaxRound + 1
  BY RoundBits DEF IInv, TypeOK, Phases, PhaseOK
<1>2. Starts(n2, round[n2], est[n2])
  BY <1>1 DEF IInv, Phases, PhaseOK
<1>3. est[n2] \in Bits
  <2>1. round[n2] # 0 /\ round[n2] - 1 \in Round
    BY <1>1, RoundBits, Constants
  <2> QED
    BY <1>2, <2>1 DEF Starts, IInv, TypeOK
<1> QED
  BY <1>1, <1>2, <1>3, LaterStarts DEF Met

LEMMA InvQuit == IInv => QuitLeavesDecided
<1> SUFFICES ASSUME IInv, NEW n1 \in Honest, NEW n2 \in Honest, pc[n1] = "quit", round[n2] > round[n1]
             PROVE  already_decided[n2] # None
  BY DEF QuitLeavesDecided
<1>1. PICK s \in Round : s = round[n1] /\ Met(n1, s) /\ already_decided[n1] = coin[s]
  BY DEF IInv, Phases, PhaseOK, Decisions
<1>2. coin[s] # None
  BY Constants DEF IInv, TypeOK
<1>3. PICK r \in Round : r < s /\ Met(n1, r) /\ coin[s] = coin[r]
  BY <1>1, <1>2 DEF IInv, Decisions
<1>4. values[n2][s] \subseteq {coin[s]}
  BY <1>3, LaterValues, RoundBits
<1>5. values[n2][s] # {}
  BY <1>1 DEF IInv, Phases, PhaseOK
<1>6. Met(n2, s)
  BY <1>4, <1>5 DEF Met
<1> QED
  BY <1>1, <1>6 DEF IInv, Decisions

\* No two honest nodes decide differently, in whatever rounds they decide.
THEOREM AgreementHolds == Spec => []Agreement
  BY AgreementInvariant, InvAgreement, PTL

\* Only an honest node's input is decided.
THEOREM ValidityHolds == Spec => []Validity
  BY AgreementInvariant, InvValidity, PTL

\* The CONF phase of a round never yields {0} here and {1} there.
THEOREM SingletonsHold == Spec => []SingletonsAgree
  BY AgreementInvariant, InvSingletons, PTL

\* The comment at lines 274-277: after a decision everybody proposes its value,
\* in all the following rounds.
THEOREM LockedInHolds == Spec => []LockedIn
  BY AgreementInvariant, InvLocked, PTL

\* Whoever gets past a round in which somebody quit has decided.
THEOREM QuitHolds == Spec => []QuitLeavesDecided
  BY AgreementInvariant, InvQuit, PTL
-----------------------------------------------------------------------------
LEMMA RefinementInit == Init => Promise!Init
  BY DEF Init, Promise!Init

LEMMA RefinementNext == IInv /\ IInv' /\ [Next]_vars => [Promise!Next]_(Promise!specVars)
<1> SUFFICES ASSUME IInv, IInv', [Next]_vars PROVE [Promise!Next]_(Promise!specVars)
  OBVIOUS
<1> USE DEF Promise!specVars
<1>1. CASE UNCHANGED <<vi, already_decided>>
  BY <1>1
<1>2. CASE \E n \in Honest, v \in Bits : Input(n, v)
  <2>1. PICK n \in Honest, v \in Bits : Input(n, v)
    BY <1>2
  <2>2. Promise!Propose(n, v)
    BY <2>1 DEF Input, Promise!Propose, IInv, Phases, PhaseOK
  <2> QED
    BY <2>1, <2>2 DEF Promise!Next, Promise!Bits, Bits
<1>3. CASE \E n \in Honest, v \in Bits : KeepValue(n, v)
  <2>1. PICK n \in Honest, v \in Bits : KeepValue(n, v)
    BY <1>3
  <2>2. CASE UNCHANGED already_decided
    BY <2>1, <2>2 DEF KeepValue, CoinStep
  <2>3. CASE already_decided' = [already_decided EXCEPT ![n] = v] /\ already_decided[n] = None
    <3>1. vi' = vi /\ pc[n] = "coin"
      BY <2>1 DEF KeepValue, CoinStep
    <3>2. Agreement' /\ Validity'
      BY InvAgreement, InvValidity, PTL
    <3>3. already_decided'[n] = v /\ v # None
      BY <2>3, Constants DEF IInv, TypeOK
    <3>4. \E q \in Honest : vi[q] = v
      BY <3>1, <3>2, <3>3 DEF Validity
    <3>5. \A q \in Honest : already_decided[q] \in {None, v}
      <4>1. ASSUME NEW q \in Honest, already_decided[q] # None PROVE already_decided[q] = v
        <5>1. already_decided'[q] = already_decided[q]
          BY <2>3, <4>1 DEF IInv, TypeOK
        <5> QED
          BY <3>2, <3>3, <4>1, <5>1 DEF Agreement
      <4> QED
        BY <4>1
    <3>6. vi[n] # None
      BY <3>1 DEF IInv, Phases, PhaseOK
    <3>7. Promise!Decide(n, v)
      BY <2>3, <3>1, <3>4, <3>5, <3>6 DEF Promise!Decide
    <3> QED
      BY <3>7 DEF Promise!Next, Promise!Bits, Bits
  <2> QED
    BY <2>1, <2>2, <2>3 DEF KeepValue
<1>4. ASSUME NEW n \in Honest
      PROVE  /\ \A r \in Round, v \in Bits, c \in {RelayThreshold, AcceptThreshold} :
                    ReceiveEst(n, r, v, c) => UNCHANGED <<vi, already_decided>>
             /\ \A g \in Greenlets : EndReceiver(n, g) => UNCHANGED <<vi, already_decided>>
             /\ \A w \in Bits : SendAux(n, w) => UNCHANGED <<vi, already_decided>>
             /\ CompleteAux(n, Node) => UNCHANGED <<vi, already_decided>>
             /\ \A vs \in SUBSET Bits : CompleteConf(n, vs, Node) => UNCHANGED <<vi, already_decided>>
             /\ AdoptCoin(n) => UNCHANGED <<vi, already_decided>>
             /\ \A v \in Bits : Quit(n, v) => UNCHANGED <<vi, already_decided>>
  BY DEF ReceiveEst, EndReceiver, SendAux, CompleteAux, CompleteConf, AdoptCoin, CoinStep, Quit
<1>5. UNCHANGED vars => UNCHANGED <<vi, already_decided>>
  BY DEF vars
<1>6. UNCHANGED <<vi, already_decided>> \/ (\E n \in Honest, v \in Bits : Input(n, v)) \/ \E n \in Honest, v \in Bits : KeepValue(n, v)
  BY <1>4, <1>5 DEF Next
<1> QED
  BY <1>1, <1>2, <1>3, <1>6

\* The agreement implements the abstract agreement the common subset is built on.
THEOREM RefinementHolds == Spec => ImplementsAgreement
  BY AgreementInvariant, RefinementInit, RefinementNext, PTL DEF Spec, ImplementsAgreement, Promise!Spec
-----------------------------------------------------------------------------
\* CoinBinding needs more.
\* Honest nodes send one AUX a round, so their CONF never name different single
\* values; and both values were returned for N - F nodes that sent some CONF, if none is counted
\* twice.
AuxSent(n, r) == r < round[n] \/ (r = round[n] /\ pc[n] \in {"aux", "conf", "coin", "quit"})
Confirmed(r) == ConfSenders(r, {0}) \cup ConfSenders(r, {1}) \cup ConfSenders(r, Bits)

AuxOnce ==
    \A n \in Honest, r \in Round, v, w \in Bits :
        /\ Aux(n, r, v) \in msgs => AuxSent(n, r)
        /\ Aux(n, r, v) \in msgs /\ Aux(n, r, w) \in msgs => v = w
ConfBacked ==
    \A n \in Honest, r \in Round, v \in Bits :
        Conf(n, r, {v}) \in msgs => Cardinality(AuxSenders(r, v)) >= Quorum
BothBacked ==
    \A n \in Honest, r \in Round :
        OneConfEach(r) /\ values[n][r] = Bits => Cardinality(Confirmed(r)) >= Quorum

BindingInv == IInv /\ AuxOnce /\ ConfBacked /\ BothBacked

LEMMA BindingInit == Init => BindingInv
  BY InitInvariant, RoundBits DEF Init, BindingInv, AuxOnce, ConfBacked, BothBacked

LEMMA BindingStays ==
  ASSUME BindingInv, IInv', msgs \subseteq msgs',
         \A n \in Honest, r \in Round : AuxSent(n, r) => AuxSent(n, r)',
         \A n \in Honest, r \in Round, v \in Bits :
            Aux(n, r, v) \in msgs' => Aux(n, r, v) \in msgs
                \/ (AuxSent(n, r)' /\ ~AuxSent(n, r) /\ \A w \in Bits : Aux(n, r, w) \in msgs' => w = v),
         \A n \in Honest, r \in Round, v \in Bits :
            Conf(n, r, {v}) \in msgs' => Conf(n, r, {v}) \in msgs \/ Cardinality(AuxSenders(r, v)) >= Quorum,
         \A n \in Honest, r \in Round :
            OneConfEach(r) /\ values'[n][r] = Bits => values[n][r] = Bits \/ Cardinality(Confirmed(r)) >= Quorum
  PROVE  BindingInv'
<1>1. \A A, B : A \in SUBSET B /\ B \in SUBSET Node /\ Cardinality(A) >= Quorum => Cardinality(B) >= Quorum
  <2>1. \A A, B : A \in SUBSET B /\ B \in SUBSET Node => Cardinality(A) <= Cardinality(B) /\ A \in SUBSET Node
    BY Constants, FS_Subset
  <2> QED
    BY <2>1, Constants DEF Quorum
<1>2. AuxOnce'
  BY DEF BindingInv, AuxOnce
<1>3. \A r, v : AuxSenders(r, v) \in SUBSET (AuxSenders(r, v)') /\ AuxSenders(r, v)' \in SUBSET Node
  BY DEF AuxSenders, Sent
<1>4. \A r : Confirmed(r) \in SUBSET (Confirmed(r)') /\ Confirmed(r)' \in SUBSET Node
  BY DEF Confirmed, ConfSenders, Sent
<1>5. ConfBacked'
  <2>1. ASSUME NEW n \in Honest, NEW r \in Round, NEW v \in Bits, Conf(n, r, {v}) \in msgs'
        PROVE  Cardinality(AuxSenders(r, v)') >= Quorum
    <3>1. Cardinality(AuxSenders(r, v)) >= Quorum
      BY <2>1 DEF BindingInv, ConfBacked
    <3> QED
      BY <3>1, <1>1, <1>3
  <2> QED
    BY <2>1 DEF ConfBacked, Quorum, N
<1>6. BothBacked'
  <2>1. ASSUME NEW n \in Honest, NEW r \in Round, OneConfEach(r), values'[n][r] = Bits
        PROVE  Cardinality(Confirmed(r)') >= Quorum
    <3>1. Cardinality(Confirmed(r)) >= Quorum
      BY <2>1 DEF BindingInv, BothBacked
    <3> QED
      BY <3>1, <1>1, <1>4
  <2> QED
    BY <2>1 DEF BothBacked, OneConfEach, Quorum, N
<1> QED
  BY <1>2, <1>5, <1>6 DEF BindingInv

\* The AUX a single value in bin_values is left with come from N - F nodes.
LEMMA SingleAux ==
  ASSUME NEW r, NEW v, AuxCount(r, {v}, Node) >= Quorum
  PROVE  Cardinality(AuxSenders(r, v)) >= Quorum
<1> DEFINE A == AuxSenders(r, v)
           P == {p \in {v} \X Node : p[2] \in AuxSenders(r, p[1])}
           f == [n \in A |-> <<v, n>>]
<1>1. IsFiniteSet(A)
  BY Constants DEF AuxSenders
<1>2. f \in Surjection(A, P)
  <2>1. \A n \in A : n \in Node
    BY DEF AuxSenders
  <2>2. \A n \in A : <<v, n>> \in P
    BY <2>1
  <2>3. \A p \in P : p[2] \in A /\ p = <<v, p[2]>>
    OBVIOUS
  <2> HIDE DEF A, P
  <2> QED
    BY <2>2, <2>3 DEF Surjection
<1>3. IsFiniteSet(P) /\ Cardinality(P) <= Cardinality(A)
  BY <1>1, <1>2, FS_Surjection
<1>4. Cardinality(P) >= Quorum
  BY DEF AuxCount
<1>5. Cardinality(P) \in Nat /\ Cardinality(A) \in Nat
  BY <1>1, <1>3, FS_CardinalityType
<1> QED
  BY <1>3, <1>4, <1>5, Constants DEF Quorum

LEMMA DisjointUnion ==
  ASSUME NEW A \in SUBSET Node, NEW B \in SUBSET Node, A \cap B = {}
  PROVE  Cardinality(A \cup B) = Cardinality(A) + Cardinality(B)
<1>1. IsFiniteSet(A) /\ IsFiniteSet(B) /\ Cardinality(A) \in Nat /\ Cardinality(B) \in Nat
  BY Constants
<1>2. Cardinality(A \cup B) = Cardinality(A) + Cardinality(B) - Cardinality(A \cap B)
  BY <1>1, FS_Union
<1>3. Cardinality(A \cap B) = 0
  BY FS_EmptySet
<1> QED
  BY <1>1, <1>2, <1>3

\* Without double counting, a full tally of all CONF is one of N - F nodes.
LEMMA TallyConfirmed ==
  ASSUME IInv, NEW r \in Round, OneConfEach(r), NEW B, ConfReturns(r, B, Bits, Node)
  PROVE  Cardinality(Confirmed(r)) >= Quorum
<1> DEFINE C0 == ConfSenders(r, {0})
           C1 == ConfSenders(r, {1})
           C2 == ConfSenders(r, Bits)
<1>1. C0 \in SUBSET Node /\ C1 \in SUBSET Node /\ C2 \in SUBSET Node
  BY DEF ConfSenders
<1>2. \A n, vs, ws : vs \in SUBSET Bits /\ ws \in SUBSET Bits /\ n \in ConfSenders(r, vs) /\ n \in ConfSenders(r, ws) => vs = ws
  <2> SUFFICES ASSUME NEW n, NEW vs \in SUBSET Bits, NEW ws \in SUBSET Bits,
                      n \in ConfSenders(r, vs), n \in ConfSenders(r, ws)
               PROVE  vs = ws
    OBVIOUS
  <2>1. CASE n \in Honest
    BY <2>1, HonestSent DEF IInv, SentByHonest
  <2>2. CASE n \notin Honest
    <3>1. n \in Faulty /\ Conf(n, r, vs) \in Sent /\ Conf(n, r, ws) \in Sent
      BY <2>2 DEF ConfSenders, Honest
    <3>2. Conf(n, r, vs) \notin msgs /\ Conf(n, r, ws) \notin msgs
      <4>1. Conf(n, r, vs).from = n /\ Conf(n, r, ws).from = n
        BY DEF Conf
      <4> QED
        BY <2>2, <4>1 DEF IInv, SentByHonest
    <3>3. Conf(n, r, vs) \in FaultyMsg /\ Conf(n, r, ws) \in FaultyMsg
      BY <3>1, <3>2 DEF Sent
    <3> QED
      BY <3>1, <3>3 DEF OneConfEach
  <2> QED
    BY <2>1, <2>2
<1>3. C0 \cap C1 = {} /\ (C0 \cup C1) \cap C2 = {}
  <2>1. {0} \in SUBSET Bits /\ {1} \in SUBSET Bits /\ {0} # {1} /\ {0} # Bits /\ {1} # Bits
    BY RoundBits
  <2> QED
    BY <1>2, <2>1
<1> HIDE DEF C0, C1, C2
<1>4. Cardinality(C0 \cup C1) = Cardinality(C0) + Cardinality(C1)
  BY <1>1, <1>3, DisjointUnion
<1>5. Cardinality(C0 \cup C1 \cup C2) = Cardinality(C0 \cup C1) + Cardinality(C2)
  BY <1>1, <1>3, DisjointUnion, C0 \cup C1 \in SUBSET Node
<1>6. Cardinality(C0) \in Nat /\ Cardinality(C1) \in Nat /\ Cardinality(C2) \in Nat /\ Quorum \in Nat
  BY <1>1, Constants DEF Quorum
<1>7. C0 \cap Node = C0 /\ C1 \cap Node = C1 /\ C2 \cap Node = C2
  BY <1>1
<1>8. (IF 0 \in B THEN Below(Cardinality(C0)) ELSE 0) + (IF 1 \in B THEN Below(Cardinality(C1)) ELSE 0)
        + (IF B = Bits THEN Cardinality(C2) ELSE 0) >= Quorum
  <2>1. \A v : Bits # {v}
    BY RoundBits
  <2> QED
    BY <1>7, <2>1 DEF ConfReturns, C0, C1, C2
<1>9. \A k \in Nat : Below(k) \in Int /\ Below(k) <= k
  BY <1>6 DEF Below
<1>10. Cardinality(C0) + Cardinality(C1) + Cardinality(C2) >= Quorum
  <2> DEFINE b0 == Below(Cardinality(C0))
             b1 == Below(Cardinality(C1))
             k0 == Cardinality(C0)
             k1 == Cardinality(C1)
             k2 == Cardinality(C2)
  <2>1. b0 \in Int /\ b0 <= k0 /\ b1 \in Int /\ b1 <= k1 /\ k0 \in Nat /\ k1 \in Nat /\ k2 \in Nat
    BY <1>6, <1>9
  <2>2. (IF 0 \in B THEN b0 ELSE 0) + (IF 1 \in B THEN b1 ELSE 0) + (IF B = Bits THEN k2 ELSE 0) >= Quorum
    BY <1>8
  <2> HIDE DEF b0, b1, k0, k1, k2
  <2>3. k0 + k1 + k2 >= Quorum
    BY <2>1, <2>2, <1>6
  <2> QED
    BY <2>3 DEF k0, k1, k2
<1> QED
  BY <1>4, <1>5, <1>6, <1>10 DEF Confirmed, C0, C1, C2

LEMMA BindingNext == BindingInv /\ [Next]_vars => BindingInv'
<1> SUFFICES ASSUME BindingInv, [Next]_vars PROVE BindingInv'
  OBVIOUS
<1>0. IInv /\ IInv'
  BY NextInvariant DEF BindingInv
<1>1. CASE \E n \in Honest, w \in Bits : SendAux(n, w)
  <2> PICK n \in Honest, w \in Bits : SendAux(n, w)
    BY <1>1
  <2> USE DEF SendAux
  <2>0. PICK r0 \in Round : r0 = round[n]
    BY <1>0 DEF IInv, Phases, PhaseOK
  <2>1. \A q \in Honest, r \in Round : AuxSent(q, r) => AuxSent(q, r)'
    BY <1>0 DEF AuxSent, IInv, TypeOK
  <2>2. AuxSent(n, r0)' /\ ~AuxSent(n, r0)
    BY <1>0, <2>0, RoundBits DEF AuxSent, IInv, TypeOK
  <2>3. \A u \in Bits : Aux(n, r0, u) \notin msgs
    BY <2>2 DEF BindingInv, AuxOnce
  <2>4. \A q, r, u : Aux(q, r, u) = Aux(n, r0, w) => q = n /\ r = r0 /\ u = w
    BY DEF Aux
  <2>5. \A q, r, vs : Conf(q, r, vs) # Aux(n, r0, w)
    BY MessageKinds
  <2> QED
    BY <1>0, <2>0, <2>1, <2>2, <2>3, <2>4, <2>5, BindingStays
<1>2. CASE \E n \in Honest : CompleteAux(n, Node)
  <2> PICK n \in Honest : CompleteAux(n, Node)
    BY <1>2
  <2> USE DEF CompleteAux
  <2>0. PICK r0 \in Round : r0 = round[n]
    BY <1>0 DEF IInv, Phases, PhaseOK
  <2>1. \A q \in Honest, r \in Round : AuxSent(q, r) => AuxSent(q, r)'
    BY <1>0 DEF AuxSent, IInv, TypeOK
  <2>2. ASSUME NEW q \in Honest, NEW r \in Round, NEW v \in Bits, Conf(q, r, {v}) \in msgs', Conf(q, r, {v}) \notin msgs
        PROVE  Cardinality(AuxSenders(r, v)) >= Quorum
    <3>1. Conf(q, r, {v}) = Conf(n, r0, bin_values[n][r0])
      BY <2>0, <2>2
    <3>2. r = r0 /\ {v} = bin_values[n][r0]
      BY <3>1, MessageKinds
    <3> QED
      BY <2>0, <3>2, SingleAux
  <2>3. \A q, r, u : Aux(q, r, u) \in msgs' => Aux(q, r, u) \in msgs
    BY <2>0, MessageKinds
  <2> QED
    BY <1>0, <2>1, <2>2, <2>3, BindingStays
<1>3. CASE \E n \in Honest, vs \in SUBSET Bits : CompleteConf(n, vs, Node)
  <2> PICK n \in Honest, vs \in SUBSET Bits : CompleteConf(n, vs, Node)
    BY <1>3
  <2> USE DEF CompleteConf
  <2>0. PICK r0 \in Round : r0 = round[n]
    BY <1>0 DEF IInv, Phases, PhaseOK
  <2>1. \A q \in Honest, r \in Round : AuxSent(q, r) => AuxSent(q, r)'
    BY <1>0 DEF AuxSent, IInv, TypeOK
  <2>2. OneConfEach(r0) /\ vs = Bits => Cardinality(Confirmed(r0)) >= Quorum
    BY <1>0, <2>0, TallyConfirmed
  <2>3. \A q \in Honest, r \in Round : values'[q][r] = IF q = n /\ r = r0 THEN vs ELSE values[q][r]
    BY <1>0, <2>0 DEF IInv, TypeOK
  <2> QED
    BY <1>0, <2>1, <2>2, <2>3, BindingStays
<1>4. CASE /\ \E n \in Honest :
                \/ \E v \in Bits : Input(n, v) \/ KeepValue(n, v) \/ Quit(n, v)
                \/ \E r \in Round, v \in Bits, count \in {RelayThreshold, AcceptThreshold} : ReceiveEst(n, r, v, count)
                \/ AdoptCoin(n)
  <2>1. /\ \A m \in msgs' : m \in msgs \/ \E n, r, v : m = Est(n, r, v)
        /\ msgs \subseteq msgs'
        /\ values' = values
    BY <1>4 DEF Input, KeepValue, Quit, ReceiveEst, AdoptCoin, CoinStep, NextRound
  <2>2. /\ \A n, r, v : Aux(n, r, v) \in msgs' => Aux(n, r, v) \in msgs
        /\ \A n, r, v : Conf(n, r, v) \in msgs' => Conf(n, r, v) \in msgs
    BY <2>1, MessageKinds
  <2>3. ASSUME NEW q \in Honest, NEW r \in Round, AuxSent(q, r) PROVE AuxSent(q, r)'
    <3>1. PICK n \in Honest :
                \/ \E v \in Bits : Input(n, v) \/ KeepValue(n, v) \/ Quit(n, v)
                \/ \E s \in Round, v \in Bits, count \in {RelayThreshold, AcceptThreshold} : ReceiveEst(n, s, v, count)
                \/ AdoptCoin(n)
      BY <1>4
    <3>2. CASE \E v \in Bits : Input(n, v)
      BY <1>0, <2>3, <3>2 DEF Input, AuxSent, IInv, TypeOK
    <3>3. CASE \E v \in Bits : Quit(n, v)
      BY <1>0, <2>3, <3>3 DEF Quit, CoinStep, AuxSent, IInv, TypeOK
    <3>4. CASE \E s \in Round, v \in Bits, count \in {RelayThreshold, AcceptThreshold} : ReceiveEst(n, s, v, count)
      BY <2>3, <3>4 DEF ReceiveEst, AuxSent
    <3>5. CASE AdoptCoin(n) \/ \E v \in Bits : KeepValue(n, v)
      <4>1. round' = [round EXCEPT ![n] = @ + 1] /\ \E p : pc' = [pc EXCEPT ![n] = p]
        BY <3>5 DEF AdoptCoin, KeepValue, NextRound
      <4> QED
        BY <1>0, <2>3, <4>1, RoundBits DEF AuxSent, IInv, TypeOK
    <3> QED
      BY <3>1, <3>2, <3>3, <3>4, <3>5
  <2> QED
    BY <1>0, <2>1, <2>2, <2>3, BindingStays
<1>5. CASE UNCHANGED course
  <2>1. \A n \in Honest, r \in Round : AuxSent(n, r) => AuxSent(n, r)'
    BY <1>5 DEF AuxSent, course
  <2> QED
    BY <1>0, <1>5, <2>1, BindingStays DEF course
<1>6. UNCHANGED vars \/ (\E n \in Honest, g \in Greenlets : EndReceiver(n, g)) => UNCHANGED course
  BY DEF vars, course, EndReceiver
<1> QED
  BY <1>1, <1>2, <1>3, <1>4, <1>5, <1>6 DEF Next

\* A set of N - F nodes whose CONF are out, none of them {v} if honest, leaves v
\* no chance.
LEMMA NoChance ==
  ASSUME NEW r, NEW v \in Bits, NEW C \in SUBSET Node, Cardinality(C) >= Quorum,
         \A q \in C \cap Honest : Conf(q, r, {v}) \notin msgs /\ \E vs \in SUBSET Bits : Conf(q, r, vs) \in msgs
  PROVE  ~StillPossible(r, v)
<1> SUFFICES ASSUME StillPossible(r, v) PROVE FALSE
  OBVIOUS
<1> DEFINE P == ConfSenders(r, {v}) \cup {n \in Honest : \A vs \in SUBSET Bits : Conf(n, r, vs) \notin msgs} \cup Faulty
<1>1. P \in SUBSET Node
  BY Constants DEF ConfSenders, Honest
<1>2. Cardinality(P) >= Quorum
  BY DEF StillPossible, Quorum
<1>3. PICK q \in P \cap C : q \in Honest
  BY <1>1, <1>2, QuorumsMeet
<1>4. q \in ConfSenders(r, {v})
  BY <1>3 DEF Honest
<1> QED
  BY <1>3, <1>4, HonestSent

LEMMA InvBinding == BindingInv => CoinBinding
<1> SUFFICES ASSUME BindingInv, NEW r \in Round, OneConfEach(r), CoinAvailable(r)
             PROVE  ~StillPossible(r, 0) \/ ~StillPossible(r, 1)
  BY DEF CoinBinding
<1>0. IInv /\ 0 \in Bits /\ 1 \in Bits
  BY RoundBits DEF BindingInv
<1>1. PICK n \in Honest : AskedCoin(n, r)
  <2>1. CoinAskers(r) \in SUBSET Node
    BY DEF CoinAskers, Honest
  <2>2. CoinAskers(r) # {}
    <3>1. SUFFICES ASSUME CoinAskers(r) = {} PROVE FALSE
      OBVIOUS
    <3>2. Cardinality(CoinAskers(r)) = 0
      BY <3>1, FS_EmptySet
    <3> QED
      BY <3>2, Constants DEF CoinAvailable
  <2> QED
    BY <2>2 DEF CoinAskers
<1>2. values[n][r] # {} /\ values[n][r] \in SUBSET Bits
  BY <1>0, <1>1 DEF AskedCoin, IInv, Phases, PhaseOK, TypeOK
<1>3. ASSUME NEW v \in Bits, NEW w \in Bits, v # w, values[n][r] = {w}
      PROVE  ~StillPossible(r, v)
  <2>1. Cardinality(ConfSenders(r, {w})) >= Quorum /\ ConfSenders(r, {w}) \in SUBSET Node
    BY <1>0, <1>3 DEF IInv, Backed, ConfSenders
  <2>2. ASSUME NEW q \in ConfSenders(r, {w}) \cap Honest
        PROVE  Conf(q, r, {v}) \notin msgs /\ Conf(q, r, {w}) \in msgs
    <3>1. Conf(q, r, {w}) \in msgs
      BY HonestSent
    <3>2. {v} \in SUBSET Bits /\ {w} \in SUBSET Bits /\ {v} # {w}
      BY <1>3
    <3> QED
      BY <1>0, <3>1, <3>2 DEF IInv, SentByHonest
  <2>3. {w} \in SUBSET Bits
    OBVIOUS
  <2> QED
    BY <2>1, <2>2, <2>3, NoChance
<1>4. CASE values[n][r] = Bits
  <2>1. Cardinality(Confirmed(r)) >= Quorum /\ Confirmed(r) \in SUBSET Node
    BY <1>4 DEF BindingInv, BothBacked, Confirmed, ConfSenders
  <2>2. \A q \in Confirmed(r) \cap Honest : \E vs \in SUBSET Bits : Conf(q, r, vs) \in msgs
    <3>1. {0} \in SUBSET Bits /\ {1} \in SUBSET Bits /\ Bits \in SUBSET Bits
      BY <1>0
    <3> QED
      BY <3>1, HonestSent DEF Confirmed
  <2>3. PICK v \in Bits : \A q \in Honest : Conf(q, r, {v}) \notin msgs
    <3>1. SUFFICES ASSUME NEW p \in Honest, NEW q \in Honest, Conf(p, r, {0}) \in msgs, Conf(q, r, {1}) \in msgs
                   PROVE  FALSE
      BY <1>0
    <3>2. Cardinality(AuxSenders(r, 0)) >= Quorum /\ Cardinality(AuxSenders(r, 1)) >= Quorum
      BY <1>0, <3>1 DEF BindingInv, ConfBacked
    <3>3. PICK h \in AuxSenders(r, 0) \cap AuxSenders(r, 1) : h \in Honest
      BY <3>2, QuorumsMeet DEF AuxSenders
    <3>4. Aux(h, r, 0) \notin FaultyMsg /\ Aux(h, r, 1) \notin FaultyMsg
      BY <3>3, Constants, MessageKinds DEF Honest
    <3>5. Aux(h, r, 0) \in msgs /\ Aux(h, r, 1) \in msgs
      BY <3>3, <3>4 DEF AuxSenders, Sent
    <3> QED
      BY <1>0, <3>3, <3>5 DEF BindingInv, AuxOnce
  <2>4. ~StillPossible(r, v)
    BY <2>1, <2>2, <2>3, NoChance
  <2> QED
    BY <2>4, RoundBits
<1>5. values[n][r] = {0} \/ values[n][r] = {1} \/ values[n][r] = Bits
  BY <1>2, RoundBits
<1> QED
  BY <1>0, <1>3, <1>4, <1>5

\* When the coin of a round can first become known, at most one value can still
\* come out of the round alone, if no faulty node sends two CONF in that round;
\* in other rounds, and in other respects, it may send what it likes.
THEOREM CoinBindingHolds == Spec => []CoinBinding
  BY BindingInit, BindingNext, InvBinding, PTL DEF Spec
-----------------------------------------------------------------------------
\* What an honest node owes the others in each phase it has been through, and
\* why a value was accepted.
EstOwed(n, r)  == r <= round[n] /\ pc[n] # "input"
EstPaid(n, r)  == \E v \in Bits : Est(n, r, v) \in msgs
AuxPaid(n, r)  == \E v \in Bits : v \in bin_values[n][r] /\ Aux(n, r, v) \in msgs
ConfPaid(n, r) == \E vs \in SUBSET Bits : vs # {} /\ vs \subseteq bin_values[n][r] /\ Conf(n, r, vs) \in msgs

PhasesPaid ==
    \A n \in Honest, r \in Round :
        /\ EstOwed(n, r) => EstPaid(n, r)
        /\ AuxSent(n, r) => AuxPaid(n, r)
        /\ ConfSent(n, r) => ConfPaid(n, r)
AcceptedByMany ==
    \A n \in Honest, r \in Round, v \in Bits :
        v \in bin_values[n][r] => Cardinality(EstSenders(r, v)) >= AcceptThreshold

Past == \A n \in Honest : pc[n] = "beyond" => round[n] = MaxRound + 1

RestInv == IInv /\ PhasesPaid /\ AcceptedByMany /\ Past

LEMMA RestInit == Init => RestInv
<1> SUFFICES ASSUME Init PROVE RestInv
  OBVIOUS
<1>1. \A n \in Honest, r \in Round : ~EstOwed(n, r) /\ ~AuxSent(n, r) /\ ~ConfSent(n, r)
  BY RoundBits DEF Init, EstOwed, AuxSent, ConfSent
<1> QED
  BY <1>1, InitInvariant DEF Init, RestInv, PhasesPaid, AcceptedByMany, Past

\* Messages and accepted values stay, so each step only has to pay for the phase
\* it ends.
LEMMA RestStays ==
  ASSUME RestInv, IInv', msgs \subseteq msgs',
         \A n \in Honest, r \in Round :
            /\ bin_values[n][r] \subseteq bin_values'[n][r]
            /\ EstOwed(n, r)' => EstOwed(n, r) \/ EstPaid(n, r)'
            /\ AuxSent(n, r)' => AuxSent(n, r) \/ AuxPaid(n, r)'
            /\ ConfSent(n, r)' => ConfSent(n, r) \/ ConfPaid(n, r)'
            /\ \A v \in Bits : v \in bin_values'[n][r] =>
                  v \in bin_values[n][r] \/ Cardinality(EstSenders(r, v)) >= AcceptThreshold,
         \A n \in Honest : pc'[n] = "beyond" =>
            (pc[n] = "beyond" /\ round'[n] = round[n]) \/ round'[n] = MaxRound + 1
  PROVE  RestInv'
<1>1. ASSUME NEW n \in Honest, NEW r \in Round
      PROVE  /\ EstOwed(n, r)' => EstPaid(n, r)'
             /\ AuxSent(n, r)' => AuxPaid(n, r)'
             /\ ConfSent(n, r)' => ConfPaid(n, r)'
  <2>1. /\ EstPaid(n, r) => EstPaid(n, r)'
        /\ AuxPaid(n, r) => AuxPaid(n, r)'
        /\ ConfPaid(n, r) => ConfPaid(n, r)'
    BY DEF EstPaid, AuxPaid, ConfPaid
  <2> QED
    BY <2>1 DEF RestInv, PhasesPaid
<1>2. ASSUME NEW n \in Honest, NEW r \in Round, NEW v \in Bits, v \in bin_values'[n][r]
      PROVE  Cardinality(EstSenders(r, v)') >= AcceptThreshold
  <2>1. Cardinality(EstSenders(r, v)) >= AcceptThreshold
    BY <1>2 DEF RestInv, AcceptedByMany
  <2>2. EstSenders(r, v) \subseteq EstSenders(r, v)' /\ EstSenders(r, v) \in SUBSET Node /\ EstSenders(r, v)' \in SUBSET Node
    BY DEF EstSenders, Sent
  <2>3. Cardinality(EstSenders(r, v)) <= Cardinality(EstSenders(r, v)')
    BY <2>2, Constants, FS_Subset
  <2> QED
    BY <2>1, <2>2, <2>3, Constants DEF AcceptThreshold
<1>3. PhasesPaid'
  BY <1>1 DEF PhasesPaid
<1>4. AcceptedByMany'
  BY <1>2 DEF AcceptedByMany, AcceptThreshold
<1>5. Past'
  BY DEF RestInv, Past
<1> QED
  BY <1>3, <1>4, <1>5 DEF RestInv

LEMMA RestNext == RestInv /\ [Next]_vars => RestInv'
<1> SUFFICES ASSUME RestInv, [Next]_vars PROVE RestInv'
  OBVIOUS
<1>0. IInv /\ IInv' /\ TypeOK
  BY NextInvariant DEF RestInv, IInv
<1>1. ASSUME NEW n \in Honest, NEW v \in Bits, Input(n, v) PROVE RestInv'
  <2> USE <1>1 DEF Input
  <2>1. round[n] = 0 /\ Est(n, 0, v) \in msgs'
    BY <1>0 DEF IInv, Phases, PhaseOK
  <2>2. \A q \in Honest, r \in Round : EstOwed(q, r)' => EstOwed(q, r) \/ EstPaid(q, r)'
    BY <1>0, <2>1, RoundBits DEF EstOwed, EstPaid, TypeOK
  <2>3. \A q \in Honest, r \in Round : (AuxSent(q, r)' => AuxSent(q, r)) /\ (ConfSent(q, r)' => ConfSent(q, r))
    BY <1>0 DEF AuxSent, ConfSent, TypeOK
  <2>8. \A q \in Honest : pc'[q] = "beyond" => pc[q] = "beyond" /\ round'[q] = round[q]
    BY <1>0 DEF TypeOK
  <2> QED
    BY <1>0, <2>2, <2>3, <2>8, RestStays
<1>2. ASSUME NEW n \in Honest, NEW r \in Round, NEW v \in Bits, NEW count \in {RelayThreshold, AcceptThreshold},
             ReceiveEst(n, r, v, count)
      PROVE  RestInv'
  <2> USE <1>2 DEF ReceiveEst
  <2>1. \A q \in Honest, s \in Round :
           /\ EstOwed(q, s)' = EstOwed(q, s) /\ AuxSent(q, s)' = AuxSent(q, s) /\ ConfSent(q, s)' = ConfSent(q, s)
    BY DEF EstOwed, AuxSent, ConfSent
  <2>2. ASSUME NEW q \in Honest, NEW s \in Round
        PROVE  /\ bin_values[q][s] \subseteq bin_values'[q][s]
               /\ \A u \in Bits : u \in bin_values'[q][s] =>
                     u \in bin_values[q][s] \/ (s = r /\ u = v /\ count >= AcceptThreshold)
    BY <1>0 DEF TypeOK
  <2>3. Cardinality(EstSenders(r, v)) \in Nat
    BY Constants DEF EstSenders
  <2>4. count >= AcceptThreshold => Cardinality(EstSenders(r, v)) >= AcceptThreshold
    BY <2>3, Constants DEF RelayThreshold, AcceptThreshold
  <2>8. \A q \in Honest : pc'[q] = "beyond" => pc[q] = "beyond" /\ round'[q] = round[q]
    BY <1>0 DEF TypeOK
  <2> QED
    BY <1>0, <2>1, <2>2, <2>4, <2>8, RestStays
<1>3. ASSUME NEW n \in Honest, NEW w \in Bits, SendAux(n, w) PROVE RestInv'
  <2> USE <1>3 DEF SendAux
  <2>1. \A q \in Honest, r \in Round : q = n /\ r = round[n] => AuxPaid(q, r)'
    BY DEF AuxPaid
  <2>2. \A q \in Honest, r \in Round : AuxSent(q, r)' => AuxSent(q, r) \/ (q = n /\ r = round[n])
    BY <1>0 DEF AuxSent, TypeOK
  <2>3. \A q \in Honest, r \in Round : (EstOwed(q, r)' => EstOwed(q, r)) /\ (ConfSent(q, r)' => ConfSent(q, r))
    BY <1>0 DEF EstOwed, ConfSent, TypeOK
  <2>8. \A q \in Honest : pc'[q] = "beyond" => pc[q] = "beyond" /\ round'[q] = round[q]
    BY <1>0 DEF TypeOK
  <2> QED
    BY <1>0, <2>1, <2>2, <2>3, <2>8, RestStays
<1>4. ASSUME NEW n \in Honest, CompleteAux(n, Node) PROVE RestInv'
  <2> USE <1>4 DEF CompleteAux
  <2>1. round[n] \in Round /\ bin_values[n][round[n]] # {} /\ bin_values[n][round[n]] \in SUBSET Bits
    BY <1>0 DEF IInv, Phases, PhaseOK, TypeOK
  <2>2. \A q \in Honest, r \in Round : q = n /\ r = round[n] => ConfPaid(q, r)'
    BY <2>1 DEF ConfPaid
  <2>3. \A q \in Honest, r \in Round : ConfSent(q, r)' => ConfSent(q, r) \/ (q = n /\ r = round[n])
    BY <1>0 DEF ConfSent, TypeOK
  <2>4. \A q \in Honest, r \in Round : (EstOwed(q, r)' => EstOwed(q, r)) /\ (AuxSent(q, r)' => AuxSent(q, r))
    BY <1>0 DEF EstOwed, AuxSent, TypeOK
  <2>8. \A q \in Honest : pc'[q] = "beyond" => pc[q] = "beyond" /\ round'[q] = round[q]
    BY <1>0 DEF TypeOK
  <2> QED
    BY <1>0, <2>2, <2>3, <2>4, <2>8, RestStays
<1>5. ASSUME NEW n \in Honest, NEW vs \in SUBSET Bits, CompleteConf(n, vs, Node) PROVE RestInv'
  <2> USE <1>5 DEF CompleteConf
  <2>1. \A q \in Honest, r \in Round :
           (EstOwed(q, r)' => EstOwed(q, r)) /\ (AuxSent(q, r)' => AuxSent(q, r)) /\ (ConfSent(q, r)' => ConfSent(q, r))
    BY <1>0 DEF EstOwed, AuxSent, ConfSent, TypeOK
  <2>8. \A q \in Honest : pc'[q] = "beyond" => pc[q] = "beyond" /\ round'[q] = round[q]
    BY <1>0 DEF TypeOK
  <2> QED
    BY <1>0, <2>1, <2>8, RestStays
<1>6. ASSUME NEW n \in Honest, NEW v \in Bits, CoinStep(n), NextRound(n, v) PROVE RestInv'
  <2> USE <1>6 DEF CoinStep, NextRound
  <2>1. pc[n] = "coin" /\ round[n] \in Nat /\ round' = [round EXCEPT ![n] = @ + 1] /\ pc'[n] \in {"bin", "beyond"}
    BY <1>0, RoundBits DEF IInv, Phases, PhaseOK, TypeOK
  <2>2. \A q \in Honest : q # n => round'[q] = round[q] /\ pc'[q] = pc[q]
    BY <1>0 DEF TypeOK
  <2>3. round'[n] = round[n] + 1
    BY <1>0 DEF TypeOK
  <2>4. \A r \in Round : r = round[n] + 1 => EstPaid(n, r)'
    BY DEF EstPaid
  <2>5. \A q \in Honest, r \in Round : EstOwed(q, r)' => EstOwed(q, r) \/ EstPaid(q, r)'
    BY <2>1, <2>2, <2>3, <2>4, RoundBits DEF EstOwed
  <2>6. \A q \in Honest, r \in Round : (AuxSent(q, r)' => AuxSent(q, r)) /\ (ConfSent(q, r)' => ConfSent(q, r))
    BY <2>1, <2>2, <2>3, RoundBits DEF AuxSent, ConfSent
  <2>7. \A q \in Honest : pc'[q] = "beyond" =>
           (pc[q] = "beyond" /\ round'[q] = round[q]) \/ round'[q] = MaxRound + 1
    <3>1. pc'[n] = "beyond" => round[n] + 1 \notin Round
      BY <1>0 DEF TypeOK
    <3>2. round[n] \in Round
      BY <1>0, <2>1 DEF IInv, Phases, PhaseOK
    <3> QED
      BY <2>2, <2>3, <3>1, <3>2, RoundBits, Constants
  <2> QED
    BY <1>0, <2>5, <2>6, <2>7, RestStays
<1>7. ASSUME NEW n \in Honest, NEW v \in Bits, Quit(n, v) PROVE RestInv'
  <2> USE <1>7 DEF Quit, CoinStep
  <2>1. \A q \in Honest, r \in Round :
           (EstOwed(q, r)' => EstOwed(q, r)) /\ (AuxSent(q, r)' => AuxSent(q, r)) /\ (ConfSent(q, r)' => ConfSent(q, r))
    BY <1>0 DEF EstOwed, AuxSent, ConfSent, TypeOK
  <2>8. \A q \in Honest : pc'[q] = "beyond" => pc[q] = "beyond" /\ round'[q] = round[q]
    BY <1>0 DEF TypeOK
  <2> QED
    BY <1>0, <2>1, <2>8, RestStays
<1>8. CASE UNCHANGED course
  <2>1. \A q \in Honest, r \in Round :
           EstOwed(q, r)' = EstOwed(q, r) /\ AuxSent(q, r)' = AuxSent(q, r) /\ ConfSent(q, r)' = ConfSent(q, r)
    BY <1>8 DEF EstOwed, AuxSent, ConfSent, course
  <2>8. \A q \in Honest : pc'[q] = "beyond" => pc[q] = "beyond" /\ round'[q] = round[q]
    BY <1>8 DEF course
  <2> QED
    BY <1>0, <1>8, <2>1, <2>8, RestStays DEF course
<1>9. ASSUME NEW n \in Honest, AdoptCoin(n) PROVE RestInv'
  <2>1. round[n] \in Round
    BY <1>0, <1>9 DEF AdoptCoin, CoinStep, IInv, Phases, PhaseOK
  <2>2. coin[round[n]] \in Bits
    BY <1>0, <2>1, Constants DEF TypeOK
  <2> QED
    BY <1>6, <1>9, <2>2 DEF AdoptCoin
<1>10. ASSUME NEW n \in Honest, NEW v \in Bits, KeepValue(n, v) PROVE RestInv'
  BY <1>6, <1>10 DEF KeepValue
<1>11. UNCHANGED vars \/ (\E n \in Honest, g \in Greenlets : EndReceiver(n, g)) => UNCHANGED course
  BY DEF vars, course, EndReceiver
<1> QED
  BY <1>1, <1>2, <1>3, <1>4, <1>5, <1>7, <1>8, <1>9, <1>10, <1>11 DEF Next

LEMMA HonestMany ==
  /\ Honest \in SUBSET Node /\ IsFiniteSet(Honest) /\ Cardinality(Honest) \in Nat
  /\ Cardinality(Honest) >= Quorum /\ Quorum >= AcceptThreshold
  /\ AcceptThreshold >= RelayThreshold /\ RelayThreshold = F + 1
<1>1. Honest \in SUBSET Node /\ Node \cap Faulty = Faulty
  BY Constants DEF Honest
<1>2. Cardinality(Honest) = N - Cardinality(Faulty)
  BY <1>1, Constants, FS_Difference DEF Honest
<1> QED
  BY <1>1, <1>2, Constants DEF Quorum, AcceptThreshold, RelayThreshold

\* A value enough honest nodes sent EST for is accepted everywhere.
LEMMA AcceptedByAll ==
  ASSUME AtRest, ended = {}, \A n \in Honest : pc[n] # "quit", NEW r \in Round, NEW v \in Bits,
         Cardinality(EstSenders(r, v) \cap Honest) >= F + 1
  PROVE  \A n \in Honest : v \in bin_values[n][r]
<1>1. \A n \in Honest : Est(n, r, v) \in msgs
  BY HonestMany DEF AtRest, ReceivedAll, Unharmed
<1>2. EstSenders(r, v) \cap Honest = Honest
  BY <1>1, HonestMany DEF EstSenders, Sent
<1> QED
  BY <1>2, HonestMany, Constants DEF AtRest, ReceivedAll, Unharmed, AcceptThreshold, Quorum

\* So is a value one honest node accepted.
LEMMA AcceptedAlike ==
  ASSUME RestInv, AtRest, ended = {}, \A n \in Honest : pc[n] # "quit", NEW r \in Round, NEW v \in Bits,
         NEW q \in Honest, v \in bin_values[q][r]
  PROVE  \A n \in Honest : v \in bin_values[n][r]
<1> DEFINE S == EstSenders(r, v)
<1>1. S \in SUBSET Node /\ Cardinality(S) >= 2 * F + 1
  BY DEF EstSenders, RestInv, AcceptedByMany, AcceptThreshold
<1>2. S \cap Honest = S \ Faulty
  BY <1>1 DEF Honest
<1>3. Cardinality(S \ Faulty) = Cardinality(S) - Cardinality(S \cap Faulty)
  BY <1>1, Constants, FS_Difference
<1>4. Cardinality(S \cap Faulty) <= Cardinality(Faulty)
  BY Constants, FS_Subset, S \cap Faulty \in SUBSET Faulty
<1>5. Cardinality(S) \in Nat /\ Cardinality(S \cap Faulty) \in Nat
  BY <1>1, Constants, S \cap Faulty \in SUBSET Node
<1>6. Cardinality(S \cap Honest) >= F + 1
  <2> DEFINE k == Cardinality(S)
             l == Cardinality(S \cap Faulty)
             b == Cardinality(Faulty)
  <2>1. k >= 2 * F + 1 /\ l <= b /\ b <= F /\ k \in Nat /\ l \in Nat /\ b \in Nat /\ F \in Nat
    BY <1>1, <1>4, <1>5, Constants
  <2> HIDE DEF k, l, b
  <2>2. k - l >= F + 1
    BY <2>1
  <2> QED
    BY <1>2, <1>3, <2>2 DEF k, l
<1> QED
  BY <1>6, AcceptedByAll

\* Two values are not too many: one of them has F + 1 honest EST.
LEMMA SomeAccepted ==
  ASSUME AtRest, ended = {}, \A n \in Honest : pc[n] # "quit", NEW r \in Round, \A n \in Honest : EstPaid(n, r)
  PROVE  \E v \in Bits : \A n \in Honest : v \in bin_values[n][r]
<1> DEFINE S(v) == EstSenders(r, v) \cap Honest
<1>1. /\ S(0) \in SUBSET Node /\ S(1) \in SUBSET Node /\ Honest \subseteq S(0) \cup S(1)
  BY RoundBits, HonestMany DEF EstPaid, EstSenders, Sent
<1>2. /\ Cardinality(S(0)) \in Nat /\ Cardinality(S(1)) \in Nat
      /\ Cardinality(S(0) \cup S(1)) <= Cardinality(S(0)) + Cardinality(S(1))
  <2>1. Cardinality(S(0) \cup S(1)) = Cardinality(S(0)) + Cardinality(S(1)) - Cardinality(S(0) \cap S(1))
    BY <1>1, Constants, FS_Union
  <2>2. S(0) \cap S(1) \in SUBSET Node
    BY <1>1
  <2> HIDE DEF S
  <2>3. Cardinality(S(0) \cap S(1)) \in Nat /\ Cardinality(S(0)) \in Nat /\ Cardinality(S(1)) \in Nat
    BY <1>1, <2>2, Constants
  <2> QED
    BY <2>1, <2>3
<1>3. Cardinality(Honest) <= Cardinality(S(0) \cup S(1)) /\ Cardinality(S(0) \cup S(1)) \in Nat
  BY <1>1, Constants, FS_Subset, S(0) \cup S(1) \in SUBSET Node
<1>4. Cardinality(S(0)) >= F + 1 \/ Cardinality(S(1)) >= F + 1
  <2> DEFINE a == Cardinality(S(0))
             b == Cardinality(S(1))
             c == Cardinality(S(0) \cup S(1))
             h == Cardinality(Honest)
  <2>1. /\ a \in Nat /\ b \in Nat /\ c \in Nat /\ h \in Nat /\ F \in Nat
        /\ c <= a + b /\ h <= c /\ h >= 2 * F + 1
    BY <1>2, <1>3, HonestMany, Constants DEF AcceptThreshold, Quorum
  <2> HIDE DEF a, b, c, h
  <2>2. a >= F + 1 \/ b >= F + 1
    BY <2>1
  <2> QED
    BY <2>2 DEF a, b
<1> QED
  BY <1>4, AcceptedByAll, RoundBits

LEMMA AuxPairs ==
  ASSUME NEW r, NEW B \in SUBSET Bits
  PROVE  /\ IsFiniteSet({p \in B \X Honest : p[2] \in AuxSenders(r, p[1])})
         /\ AuxCount(r, B, Honest) \in Nat
<1>1. IsFiniteSet(B)
  <2>1. Bits = {0} \cup {1}
    BY DEF Bits
  <2>2. IsFiniteSet({0} \cup {1})
    BY FS_Singleton, FS_AddElement
  <2> QED
    BY <2>1, <2>2, FS_Subset
<1>2. IsFiniteSet(B \X Honest)
  BY <1>1, HonestMany, FS_Product
<1>3. IsFiniteSet({p \in B \X Honest : p[2] \in AuxSenders(r, p[1])})
  BY <1>2, FS_Subset
<1> QED
  BY <1>3, FS_CardinalityType DEF AuxCount

\* When all honest nodes have sent AUX for values in B, their AUX suffice.
LEMMA AuxSuffice ==
  ASSUME NEW r, NEW B \in SUBSET Bits,
         \A q \in Honest : \E v \in Bits : v \in B /\ Aux(q, r, v) \in msgs
  PROVE  AuxCount(r, B, Honest) >= Quorum
<1> DEFINE P == {p \in B \X Honest : p[2] \in AuxSenders(r, p[1])}
           f == [q \in Honest |-> <<CHOOSE v \in Bits : v \in B /\ Aux(q, r, v) \in msgs, q>>]
<1>1. ASSUME NEW q \in Honest PROVE f[q] \in P /\ f[q][2] = q
  <2>1. PICK v \in Bits : v = (CHOOSE w \in Bits : w \in B /\ Aux(q, r, w) \in msgs) /\ v \in B /\ Aux(q, r, v) \in msgs
    OBVIOUS
  <2>2. q \in AuxSenders(r, v)
    BY <2>1, HonestMany DEF AuxSenders, Sent
  <2>3. f[q] = <<v, q>>
    BY <2>1
  <2> QED
    BY <2>1, <2>2, <2>3
<1>2. f \in Injection(Honest, P)
  <2>1. f \in [Honest -> P]
    BY <1>1
  <2>2. \A a, b \in Honest : f[a] = f[b] => a = b
    BY <1>1
  <2> QED
    BY <2>1, <2>2 DEF Injection, IsInjective
<1>3. IsFiniteSet(P)
  BY AuxPairs
<1>4. Cardinality(Honest) <= Cardinality(P)
  BY <1>2, <1>3, FS_Injection
<1>5. Cardinality(P) \in Nat
  BY <1>3, FS_CardinalityType
<1>6. AuxCount(r, B, Honest) = Cardinality(P)
  BY DEF AuxCount
<1> HIDE DEF P
<1> QED
  BY <1>4, <1>5, <1>6, HonestMany, Constants DEF Quorum

LEMMA ThreeSets ==
  ASSUME NEW A \in SUBSET Node, NEW B \in SUBSET Node, NEW C \in SUBSET Node,
         Honest \subseteq A \cup B \cup C
  PROVE  /\ Cardinality(A) + Cardinality(B) + Cardinality(C) >= Quorum
         /\ Cardinality(A) \in Nat /\ Cardinality(B) \in Nat /\ Cardinality(C) \in Nat
<1>1. /\ Cardinality(A) \in Nat /\ Cardinality(B) \in Nat /\ Cardinality(C) \in Nat
      /\ Cardinality(A \cap B) \in Nat /\ Cardinality(A \cup B) \in Nat
      /\ Cardinality((A \cup B) \cap C) \in Nat /\ Cardinality(A \cup B \cup C) \in Nat
  BY Constants, A \cap B \in SUBSET Node, A \cup B \in SUBSET Node, (A \cup B) \cap C \in SUBSET Node,
     A \cup B \cup C \in SUBSET Node
<1>2. Cardinality(A \cup B) = Cardinality(A) + Cardinality(B) - Cardinality(A \cap B)
  BY Constants, FS_Union
<1>3. Cardinality(A \cup B \cup C) = Cardinality(A \cup B) + Cardinality(C) - Cardinality((A \cup B) \cap C)
  BY Constants, FS_Union, A \cup B \in SUBSET Node
<1>4. Cardinality(Honest) <= Cardinality(A \cup B \cup C)
  BY Constants, FS_Subset, A \cup B \cup C \in SUBSET Node
<1> QED
  BY <1>1, <1>2, <1>3, <1>4, HonestMany, Constants DEF Quorum

\* When all honest nodes have sent CONF within B, some values are returned.
LEMMA ConfSuffice ==
  ASSUME NEW r, NEW B \in SUBSET Bits,
         \A q \in Honest : \E vs \in SUBSET Bits : vs # {} /\ vs \subseteq B /\ Conf(q, r, vs) \in msgs
  PROVE  \E vs \in SUBSET Bits : ConfReturns(r, B, vs, Honest)
<1> DEFINE C(vs) == ConfSenders(r, vs) \cap Honest
           k0 == Cardinality(C({0}))
           k1 == Cardinality(C({1}))
           k2 == Cardinality(C(Bits))
<1>0. 0 \in Bits /\ 1 \in Bits /\ {0} # Bits /\ {1} # Bits /\ Quorum \in Nat
  BY RoundBits, Constants DEF Quorum
<1>1. /\ C({0}) \in SUBSET Node /\ C({1}) \in SUBSET Node /\ C(Bits) \in SUBSET Node
      /\ C({0}) \cup C({1}) \in SUBSET Node /\ C({0}) \cup C({1}) \cup C(Bits) \in SUBSET Node
  BY HonestMany
<1>2. ASSUME NEW q \in Honest
      PROVE  (0 \in B /\ q \in C({0})) \/ (1 \in B /\ q \in C({1})) \/ (B = Bits /\ q \in C(Bits))
  <2>1. PICK vs \in SUBSET Bits : vs # {} /\ vs \subseteq B /\ Conf(q, r, vs) \in msgs
    OBVIOUS
  <2>2. q \in C(vs)
    BY <2>1, HonestMany DEF ConfSenders, Sent
  <2>3. vs = {0} \/ vs = {1} \/ vs = Bits
    BY <2>1, RoundBits
  <2> QED
    BY <2>1, <2>2, <2>3
<1>3. CASE \E v \in B : Cardinality(C({v})) >= Quorum
  <2>1. PICK v \in B : Cardinality(C({v})) >= Quorum
    BY <1>3
  <2>2. ConfReturns(r, B, {v}, Honest)
    BY <2>1 DEF ConfReturns
  <2> QED
    BY <2>2
<1>4. CASE ~\E v \in B : Cardinality(C({v})) >= Quorum
  <2> DEFINE D0 == IF 0 \in B THEN C({0}) ELSE {}
             D1 == IF 1 \in B THEN C({1}) ELSE {}
             D2 == IF B = Bits THEN C(Bits) ELSE {}
  <2>1. D0 \in SUBSET Node /\ D1 \in SUBSET Node /\ D2 \in SUBSET Node
    BY <1>1
  <2>2. Honest \subseteq D0 \cup D1 \cup D2
    BY <1>2
  <2> DEFINE d0 == Cardinality(D0)
             d1 == Cardinality(D1)
             d2 == Cardinality(D2)
  <2>3. /\ (0 \in B => d0 = k0 /\ k0 < Quorum) /\ (0 \notin B => d0 = 0)
        /\ (1 \in B => d1 = k1 /\ k1 < Quorum) /\ (1 \notin B => d1 = 0)
        /\ (B = Bits => d2 = k2) /\ (B # Bits => d2 = 0)
    <3>1. Cardinality({}) = 0
      BY FS_EmptySet
    <3>2. k0 \in Nat /\ k1 \in Nat
      BY <1>1, Constants
    <3>3. (0 \in B => ~(k0 >= Quorum)) /\ (1 \in B => ~(k1 >= Quorum))
      BY <1>4
    <3>4. (0 \in B => k0 < Quorum) /\ (1 \in B => k1 < Quorum)
      <4> HIDE DEF k0, k1
      <4> QED
        BY <1>0, <3>2, <3>3
    <3> QED
      BY <3>1, <3>4
  <2>4. k0 \in Nat /\ k1 \in Nat /\ k2 \in Nat
    BY <1>1, Constants
  <2> HIDE DEF D0, D1, D2, C
  <2>5. d0 + d1 + d2 >= Quorum /\ d0 \in Nat /\ d1 \in Nat /\ d2 \in Nat
    BY <2>1, <2>2, HonestMany, ThreeSets
  <2> HIDE DEF d0, d1, d2, k0, k1, k2
  <2>6. (IF 0 \in B THEN Below(k0) ELSE 0) + (IF 1 \in B THEN Below(k1) ELSE 0) + (IF B = Bits THEN k2 ELSE 0) >= Quorum
    <3>1. /\ d0 = IF 0 \in B THEN Below(k0) ELSE 0
          /\ d1 = IF 1 \in B THEN Below(k1) ELSE 0
          /\ d2 = IF B = Bits THEN k2 ELSE 0
      BY <2>3 DEF Below
    <3> QED
      BY <2>5, <3>1
  <2>7. ConfReturns(r, B, Bits, Honest)
    BY <2>6 DEF ConfReturns, k0, k1, k2, C
  <2> QED
    BY <2>7
<1> QED
  BY <1>3, <1>4

\* Some round is the first in which a node waits.
LEMMA Least ==
  ASSUME NEW S \in SUBSET Nat, S # {}
  PROVE  \E k \in S : \A j \in S : k <= j
<1> DEFINE Less == {p \in Nat \X Nat : p[1] < p[2]}
<1>1. IsWellFoundedOn(Less, Nat)
  BY NatLessThanWellFounded DEF OpToRel
<1>2. \A j, k \in S : <<j, k>> \in Less <=> j < k
  OBVIOUS
<1> HIDE DEF Less
<1>3. PICK k \in S : \A j \in S : ~ (<<j, k>> \in Less)
  BY <1>1, WFMin
<1>4. \A j \in S : j \in Nat /\ k \in Nat /\ ~(j < k)
  BY <1>2, <1>3
<1> QED
  BY <1>4

LEMMA InvRest == RestInv => RestOnlyBehindQuit
<1> SUFFICES ASSUME RestInv, AllGiven, AtRest, ended = {}, \A n \in Honest : pc[n] # "quit",
                    NEW n0 \in Honest, pc[n0] # "beyond"
             PROVE  FALSE
  BY DEF RestOnlyBehindQuit
<1>0. TypeOK /\ \A n \in Honest : PhaseOK(n) /\ pc[n] # "input" /\ Waits(n)
  BY DEF RestInv, IInv, Phases, PhaseOK, AllGiven, AtRest, Unharmed
<1> DEFINE Waiting == {n \in Honest : pc[n] # "beyond"}
<1>1. PICK r \in Round : /\ \E n \in Waiting : round[n] = r
                         /\ \A n \in Waiting : r <= round[n]
  <2> DEFINE S == {round[n] : n \in Waiting}
  <2>1. S # {} /\ S \subseteq Round
    BY <1>0 DEF PhaseOK
  <2>2. PICK k \in S : \A j \in S : k <= j
    BY <2>1, Least, RoundBits
  <2> QED
    BY <2>1, <2>2
<1>2. \A n \in Honest : /\ r <= round[n]
                        /\ r < round[n] \/ (r = round[n] /\ pc[n] \in {"bin", "aux", "conf", "coin"})
  <2>1. ASSUME NEW n \in Honest, pc[n] = "beyond" PROVE r < round[n]
    BY <2>1, RoundBits, Constants DEF RestInv, Past
  <2>2. \A n \in Honest : round[n] \in Nat /\ pc[n] \in {"input", "bin", "aux", "conf", "coin", "quit", "beyond"}
    BY <1>0, Constants DEF TypeOK
  <2> QED
    BY <1>0, <1>1, <2>1, <2>2, RoundBits
\* Everybody has begun round r, so nobody waits for bin_values.
<1>3. \A n \in Honest : bin_values[n][r] # {}
  <2>1. \A n \in Honest : EstPaid(n, r)
    BY <1>0, <1>2 DEF RestInv, PhasesPaid, EstOwed
  <2> QED
    BY <2>1, SomeAccepted
<1>4. \A n \in Honest : AuxSent(n, r)
  BY <1>0, <1>2, <1>3 DEF Waits, AuxSent
\* So everybody has sent AUX, for a value that everybody accepts.
<1>5. ASSUME NEW n \in Honest PROVE AuxCount(r, bin_values[n][r], Honest) >= Quorum
  <2>1. \A q \in Honest : \E v \in Bits : v \in bin_values[n][r] /\ Aux(q, r, v) \in msgs
    BY <1>4, AcceptedAlike DEF RestInv, PhasesPaid, AuxPaid
  <2>2. bin_values[n][r] \in SUBSET Bits
    BY <1>0 DEF TypeOK
  <2> QED
    BY <2>1, <2>2, AuxSuffice
<1>6. \A n \in Honest : ConfSent(n, r)
  <2>1. \A n \in Honest : round[n] = r => pc[n] # "aux" /\ pc[n] # "bin"
    <3>1. \A n \in Honest : AuxCount(r, bin_values[n][r], Honest) \in Nat
      BY AuxPairs, <1>0 DEF TypeOK
    <3> QED
      BY <1>0, <1>3, <1>5, <3>1, Constants DEF Waits, Quorum
  <2> QED
    BY <1>2, <2>1 DEF ConfSent
\* And CONF, with values that everybody accepts.
<1>7. ASSUME NEW n \in Honest PROVE \E vs \in SUBSET Bits : ConfReturns(r, bin_values[n][r], vs, Honest)
  <2>1. ASSUME NEW q \in Honest
        PROVE  \E vs \in SUBSET Bits : vs # {} /\ vs \subseteq bin_values[n][r] /\ Conf(q, r, vs) \in msgs
    <3>1. PICK vs \in SUBSET Bits : vs # {} /\ vs \subseteq bin_values[q][r] /\ Conf(q, r, vs) \in msgs
      BY <1>6 DEF RestInv, PhasesPaid, ConfPaid
    <3>2. vs \subseteq bin_values[n][r]
      BY <3>1, AcceptedAlike
    <3> QED
      BY <3>1, <3>2
  <2>2. bin_values[n][r] \in SUBSET Bits
    BY <1>0 DEF TypeOK
  <2> QED
    BY <2>1, <2>2, ConfSuffice
\* And asked for the coin.
<1>8. CoinAskers(r) = Honest
  BY <1>0, <1>2, <1>3, <1>6, <1>7, ZenonT(60) DEF Waits, ConfSent, CoinAskers, AskedCoin
<1>9. PICK n \in Waiting : round[n] = r
  BY <1>1
<1>10. pc[n] = "coin"
  <2>1. n \in Honest /\ ~(r < round[n])
    BY <1>9, RoundBits
  <2>2. pc[n] \in {"conf", "coin", "quit"}
    BY <1>6, <2>1 DEF ConfSent
  <2>3. pc[n] # "conf"
    BY <1>0, <1>7, <1>9, <2>1 DEF Waits
  <2> QED
    BY <2>1, <2>2, <2>3
<1>11. Cardinality(Honest) < F + 1
  BY <1>0, <1>8, <1>9, <1>10 DEF Waits
<1> QED
  BY <1>11, HonestMany, Constants DEF AcceptThreshold, Quorum

\* As long as nobody has quit and no receive greenlet was ended by a repeated or
\* malformed message, the agreement cannot come to rest before the last round.
THEOREM RestHolds == Spec => []RestOnlyBehindQuit
  BY RestInit, RestNext, InvRest, PTL DEF Spec
=============================================================================
