------------------------ MODULE AgreementNodeProofs ------------------------
(***************************************************************************)
(* Proofs about AgreementNode for every number of nodes and rounds, every  *)
(* sequence of coins, everything the peers may send, in any order, any of  *)
(* it repeated, and anything no assertion lets through.                    *)
(***************************************************************************)
EXTENDS AgreementNode, FiniteSetTheorems, TLAPS

Messages ==
    [type : {"EST", "AUX"}, from : Node, round : Round, v : Bits]
        \cup [type : {"CONF"}, from : Node, round : Round, vs : (SUBSET Bits) \ {{}}]

\* What the main greenlet has behind it in each phase.
PhaseOK ==
    /\ round \in Round \/ pc = "beyond"
    /\ pc = "input" => round = 0 /\ vi = None /\ already_decided = None
    /\ pc # "input" => vi \in Bits /\ est \in Bits
    /\ pc = "aux" => bin_values[round] # {}
    /\ \A r \in Round : r < round \/ (r = round /\ pc \in {"coin", "quit"}) => values[r] # {}

\* AUX and CONF of a round are sent on leaving its first and its second wait.
AuxSent(r)  == r < round \/ (r = round /\ pc \in {"aux", "conf", "coin", "quit"})
ConfSent(r) == r < round \/ (r = round /\ pc \in {"conf", "coin", "quit"})
SentInPhase ==
    /\ \A r \in Round, v \in Bits : Aux(r, v) \in Elements(sent) => AuxSent(r)
    /\ \A r \in Round, vs \in SUBSET Bits : Conf(r, vs) \in Elements(sent) => ConfSent(r)

Typed == TypeOK /\ sent \in Seq(Messages) /\ env \in EnvMsgs /\ coin \in Coins

IInv == Typed /\ PhaseOK /\ SendsOnce /\ SentInPhase /\ NoLostWakeup
-----------------------------------------------------------------------------
LEMMA Constants ==
  /\ N \in Nat /\ F \in Nat /\ N >= 3 * F + 1 /\ MaxRound \in Nat
  /\ IsFiniteSet(Node) /\ self \in Node
  /\ Coins \subseteq [Round -> Bits] /\ None \notin Bits
  /\ Bits = {0, 1} /\ Round = {r \in Nat : r <= MaxRound}
  /\ \A E \in EnvMsgs : E \subseteq Messages /\ \A m \in E : m.from # self
<1>1. \A E \in EnvMsgs : E \subseteq Messages /\ \A m \in E : m.from # self
  BY AgreementNodeAssumption DEF Votes, Confirmations, Messages
<1>2. N \in Nat
  BY AgreementNodeAssumption, FS_CardinalityType DEF N
<1> QED
  BY <1>1, <1>2, AgreementNodeAssumption DEF Bits, Round

LEMMA MessageKinds ==
  ASSUME NEW r, NEW v, NEW s, NEW w
  PROVE  /\ Est(r, v) = Est(s, w) => r = s /\ v = w
         /\ Aux(r, v) = Aux(s, w) => r = s /\ v = w
         /\ Conf(r, v) = Conf(s, w) => r = s /\ v = w
         /\ Est(r, v) # Aux(s, w) /\ Est(r, v) # Conf(s, w) /\ Aux(r, v) # Conf(s, w)
<1>1. Est(r, v).type = "EST" /\ Aux(s, w).type = "AUX" /\ Conf(s, w).type = "CONF" /\ Aux(r, v).type = "AUX"
  BY DEF Est, Aux, Conf
<1>2. (Est(r, v) = Est(s, w) => r = s /\ v = w) /\ (Aux(r, v) = Aux(s, w) => r = s /\ v = w)
  BY DEF Est, Aux
<1>3. Conf(r, v) = Conf(s, w) => r = s /\ v = w
  BY DEF Conf
<1> QED
  BY <1>1, <1>2, <1>3

LEMMA OwnMessages ==
  ASSUME NEW r \in Round
  PROVE  /\ \A v \in Bits : Est(r, v) \in Messages /\ Aux(r, v) \in Messages
         /\ \A vs \in (SUBSET Bits) \ {{}} : Conf(r, vs) \in Messages
  BY Constants DEF Est, Aux, Conf, Messages

\* Broadcasting something new.
LEMMA Appended ==
  ASSUME NEW s \in Seq(Messages), NEW m \in Messages
  PROVE  /\ Append(s, m) \in Seq(Messages)
         /\ Elements(Append(s, m)) = Elements(s) \cup {m}
         /\ m \notin Elements(s) /\ (\A i, j \in DOMAIN s : s[i] = s[j] => i = j)
              => \A i, j \in DOMAIN Append(s, m) : Append(s, m)[i] = Append(s, m)[j] => i = j
<1> DEFINE t == Append(s, m)
           L == Len(s)
<1>1. t \in Seq(Messages) /\ L \in Nat /\ Len(t) = L + 1
  OBVIOUS
<1>2. DOMAIN s = 1 .. L /\ DOMAIN t = 1 .. L + 1
  BY <1>1
<1>3. (\A i \in 1 .. L : t[i] = s[i]) /\ t[L + 1] = m
  OBVIOUS
<1>4. \A i \in 1 .. L + 1 : i \in 1 .. L \/ i = L + 1
  BY <1>1
<1>5. \A i \in 1 .. L : i \in 1 .. L + 1
  BY <1>1
<1>6. L + 1 \in 1 .. L + 1
  BY <1>1
<1> HIDE DEF t, L
<1>7. Elements(t) = Elements(s) \cup {m}
  BY <1>2, <1>3, <1>4, <1>5, <1>6 DEF Elements
<1>8. ASSUME m \notin Elements(s), \A i, j \in DOMAIN s : s[i] = s[j] => i = j
      PROVE  \A i, j \in DOMAIN t : t[i] = t[j] => i = j
  BY <1>2, <1>3, <1>4, <1>8 DEF Elements
<1> QED
  BY <1>1, <1>7, <1>8 DEF t

\* What is common to all steps: nothing, or one new message, is broadcast.
Broadcasts(m) == m \in Messages /\ m \notin Elements(sent) /\ sent' = Append(sent, m)

LEMMA SentStep ==
  ASSUME IInv, NEW m, sent' = sent \/ Broadcasts(m)
  PROVE  /\ sent' \in Seq(Messages) /\ SendsOnce'
         /\ Elements(sent)' = Elements(sent) \/ (Broadcasts(m) /\ Elements(sent)' = Elements(sent) \cup {m})
<1>1. CASE sent' = sent
  BY <1>1 DEF IInv, Typed, SendsOnce, Elements
<1>2. CASE Broadcasts(m)
  <2>1. sent \in Seq(Messages) /\ m \in Messages /\ m \notin Elements(sent) /\ sent' = Append(sent, m)
    BY <1>2 DEF Broadcasts, IInv, Typed
  <2>2. \A i, j \in DOMAIN sent : sent[i] = sent[j] => i = j
    BY DEF IInv, SendsOnce
  <2>3. \A i, j \in DOMAIN sent' : sent'[i] = sent'[j] => i = j
    BY <2>1, <2>2, Appended
  <2>4. Elements(sent)' = Elements(sent')
    BY DEF Elements
  <2> QED
    BY <1>2, <2>1, <2>3, <2>4, Appended DEF SendsOnce
<1> QED
  BY <1>1, <1>2

LEMMA InitInvariant == Init => IInv
<1> SUFFICES ASSUME Init PROVE IInv
  OBVIOUS
<1> USE DEF Init
<1>1. Typed
  <2>1. sent \in Seq(Messages)
    OBVIOUS
  <2>2. waiting \in BOOLEAN /\ signal \in BOOLEAN
    BY Zenon
  <2>3. 0 \in 0 .. MaxRound + 1
    BY Constants
  <2>4. bin_values \in [Round -> SUBSET Bits] /\ values \in [Round -> SUBSET Bits]
    OBVIOUS
  <2>5. got \subseteq env \cup Elements(sent)
    OBVIOUS
  <2>6. waiting => pc \in {"bin", "aux", "conf"}
    BY Zenon
  <2> HIDE DEF Init
  <2>7. /\ pc = "input" /\ receiver = "up" /\ round = 0
        /\ vi \in Bits \cup {None} /\ est \in Bits \cup {None} /\ already_decided \in Bits \cup {None}
    BY DEF Init
  <2>8. TypeOK
    BY <2>2, <2>3, <2>4, <2>5, <2>6, <2>7 DEF TypeOK
  <2> QED
    BY <2>1, <2>8 DEF Typed, Init
<1>2. PhaseOK
  BY Constants DEF PhaseOK
<1>3. SendsOnce /\ SentInPhase
  BY DEF SendsOnce, SentInPhase, Elements
<1>4. NoLostWakeup
  BY DEF NoLostWakeup
<1> QED
  BY <1>1, <1>2, <1>3, <1>4 DEF IInv
-----------------------------------------------------------------------------
\* The receive greenlet

\* A message that has arrived is of a legal form.
LEMMA Arrived ==
  ASSUME IInv, NEW m, Arrives(m)
  PROVE  /\ m \in Messages /\ m \in env \cup Elements(sent)
         /\ m.type = "EST" => m.round \in Round /\ m.v \in Bits /\ Est(m.round, m.v) \in Messages
<1>1. \A x \in Elements(sent) : x \in Messages
  BY DEF Elements, IInv, Typed
<1>2. m \in Messages /\ m \in env \cup Elements(sent)
  BY <1>1, Constants DEF Arrives, IInv, Typed
<1>3. m.type = "EST" => m.round \in Round /\ m.v \in Bits
  BY <1>2 DEF Messages
<1> QED
  BY <1>2, <1>3, OwnMessages

\* Its steps leave the main greenlet's variables alone.
LEMMA ReceiverFrame ==
  ASSUME IInv, UNCHANGED <<main, coin, env>>, NEW m, m \in env \cup Elements(sent),
         NEW e, sent' = sent \/ Broadcasts(e), \E r, v : e = Est(r, v),
         \A r \in Round : bin_values[r] \subseteq bin_values'[r],
         bin_values' \in [Round -> SUBSET Bits],
         signal' \in BOOLEAN, receiver' \in {"up", "failed"}, pc # "quit" \/ receiver' # "up",
         got' = got \/ got' = got \cup {m}
  PROVE  Typed' /\ PhaseOK' /\ SendsOnce' /\ SentInPhase'
<1>1. /\ sent' \in Seq(Messages) /\ SendsOnce'
      /\ Elements(sent) \subseteq Elements(sent)'
      /\ \A x \in Elements(sent)' : x \in Elements(sent) \/ x = e
  BY SentStep
<1>2. UNCHANGED <<pc, waiting, vi, round, est, already_decided, values, coin, env>>
  BY DEF main
<1>3. TypeOK'
  <2>1. got' \subseteq env \cup Elements(sent)'
    BY <1>1 DEF IInv, Typed, TypeOK
  <2> QED
    BY <1>2, <2>1 DEF IInv, Typed, TypeOK
<1>4. Typed'
  BY <1>1, <1>2, <1>3 DEF IInv, Typed
<1>5. PhaseOK'
  <2>1. pc = "aux" => round \in Round
    BY DEF IInv, PhaseOK
  <2> QED
    BY <1>2, <2>1 DEF IInv, PhaseOK
<1>6. SentInPhase'
  <2>1. /\ \A r, v : Aux(r, v) \in Elements(sent)' => Aux(r, v) \in Elements(sent)
        /\ \A r, v : Conf(r, v) \in Elements(sent)' => Conf(r, v) \in Elements(sent)
    <3>1. ASSUME NEW r, NEW v PROVE e # Aux(r, v) /\ e # Conf(r, v)
      <4>1. PICK q, w : e = Est(q, w)
        OBVIOUS
      <4> QED
        BY <4>1, MessageKinds
    <3> QED
      BY <1>1, <3>1
  <2> QED
    BY <1>2, <2>1 DEF IInv, SentInPhase, AuxSent, ConfSent
<1> QED
  BY <1>1, <1>4, <1>5, <1>6

LEMMA ReceiveRedundantInvariant == ASSUME IInv, NEW m, ReceiveRedundant(m) PROVE IInv'
<1> USE DEF ReceiveRedundant, Arrives
<1>1. m \in env \cup Elements(sent) /\ \E r, v : Est(0, 0) = Est(r, v)
  OBVIOUS
<1>2. signal' \in BOOLEAN /\ bin_values' \in [Round -> SUBSET Bits]
  BY DEF IInv, Typed, TypeOK
<1>3. Typed' /\ PhaseOK' /\ SendsOnce' /\ SentInPhase'
  BY <1>1, <1>2, ReceiverFrame
<1>4. NoLostWakeup'
  BY DEF main, IInv, NoLostWakeup, Ready, AuxDone, AuxTally, ConfResult, Full, AllConf, ConfTally
<1> QED
  BY <1>3, <1>4 DEF IInv

LEMMA ReceiveMalformedInvariant == ASSUME IInv, NEW m, ReceiveMalformed(m) PROVE IInv'
<1> USE DEF ReceiveMalformed, main
<1>1. Elements(sent)' = Elements(sent)
  BY DEF Elements
<1>2. TypeOK'
  BY <1>1 DEF IInv, Typed, TypeOK
<1>3. Typed' /\ PhaseOK' /\ SendsOnce' /\ SentInPhase'
  BY <1>1, <1>2 DEF IInv, Typed, PhaseOK, SendsOnce, SentInPhase, AuxSent, ConfSent
<1>4. NoLostWakeup'
  BY DEF IInv, NoLostWakeup, Ready, AuxDone, AuxTally, ConfResult, Full, AllConf, ConfTally
<1> QED
  BY <1>3, <1>4 DEF IInv

LEMMA ReceiveEstInvariant == ASSUME IInv, NEW m, ReceiveEst(m) PROVE IInv'
<1> DEFINE e == Est(m.round, m.v)
           tally == EstTally(m.round, m.v) + 1
<1>1. Arrives(m) /\ m.type = "EST" /\ got' = got \cup {m} /\ receiver' = receiver
  BY DEF ReceiveEst
<1>2. m \in env \cup Elements(sent) /\ m.round \in Round /\ m.v \in Bits /\ e \in Messages
  BY <1>1, Arrived
<1>3. receiver = "up" /\ UNCHANGED <<main, coin, env>>
  BY <1>1 DEF Arrives
<1>4. sent' = sent \/ Broadcasts(e)
  BY <1>2 DEF ReceiveEst, est_sent, Broadcasts
<1>5. \/ UNCHANGED <<bin_values, signal>>
      \/ bin_values' = [bin_values EXCEPT ![m.round] = @ \cup {m.v}] /\ signal' = TRUE
  BY DEF ReceiveEst
<1>6. /\ bin_values' \in [Round -> SUBSET Bits]
      /\ \A r \in Round : bin_values[r] \subseteq bin_values'[r]
  BY <1>2, <1>5 DEF IInv, Typed, TypeOK
<1>7. signal' \in BOOLEAN
  BY <1>5, Zenon DEF IInv, Typed, TypeOK
<1>8. pc # "quit"
  BY <1>3 DEF IInv, Typed, TypeOK
<1>9. Typed' /\ PhaseOK' /\ SendsOnce' /\ SentInPhase'
  <2>1. \E r, v : e = Est(r, v)
    OBVIOUS
  <2> HIDE DEF e
  <2> QED
    BY <1>1, <1>2, <1>3, <1>4, <1>6, <1>7, <1>8, <2>1, ReceiverFrame
<1>10. NoLostWakeup'
  <2>1. CASE signal' = TRUE
    BY <2>1 DEF NoLostWakeup
  <2>2. CASE UNCHANGED <<bin_values, signal>>
    <3>1. ASSUME NEW r, NEW v
          PROVE  AuxTally(r, v)' = AuxTally(r, v) /\ ConfTally(r, v)' = ConfTally(r, v)
      <4>1. {x \in got' : x.type = "AUX" /\ x.round = r /\ x.v = v} = {x \in got : x.type = "AUX" /\ x.round = r /\ x.v = v}
        BY <1>1
      <4>2. {x \in got' : x.type = "CONF" /\ x.round = r /\ x.vs = v} = {x \in got : x.type = "CONF" /\ x.round = r /\ x.vs = v}
        BY <1>1
      <4>3. AuxTally(r, v)' = AuxTally(r, v)
        BY <4>1, Zenon DEF AuxTally
      <4>4. ConfTally(r, v)' = ConfTally(r, v)
        BY <4>2, Zenon DEF ConfTally
      <4> QED
        BY <4>3, <4>4
    <3>3. UNCHANGED <<pc, waiting, round>>
      BY <1>3 DEF main
    <3>4. Ready' = Ready
      BY <2>2, <3>1, <3>3 DEF Ready, AuxDone, ConfResult, Full, AllConf
    <3> QED
      BY <2>2, <3>3, <3>4 DEF IInv, NoLostWakeup
  <2> QED
    BY <1>5, <2>1, <2>2
<1> QED
  BY <1>9, <1>10 DEF IInv

LEMMA ReceiveVoteInvariant == ASSUME IInv, NEW m, ReceiveVote(m) PROVE IInv'
<1> USE DEF ReceiveVote
<1>1. m \in env \cup Elements(sent) /\ \E r, v : Est(0, 0) = Est(r, v)
  BY DEF Arrives
<1>2. receiver' = "up" /\ UNCHANGED <<main, coin, env>> /\ pc # "quit"
  BY DEF Arrives, IInv, Typed, TypeOK
<1>3. signal' \in BOOLEAN
  BY Zenon
<1>4. bin_values' \in [Round -> SUBSET Bits]
  BY DEF IInv, Typed, TypeOK
<1>5. Typed' /\ PhaseOK' /\ SendsOnce' /\ SentInPhase'
  BY <1>1, <1>2, <1>3, <1>4, ReceiverFrame
<1>6. NoLostWakeup'
  BY DEF NoLostWakeup
<1> QED
  BY <1>5, <1>6 DEF IInv
-----------------------------------------------------------------------------
\* The main greenlet.  What its steps have in common: the receive greenlet's
\* part stays, and nobody is left asleep.
LEMMA MainFrame ==
  ASSUME IInv, UNCHANGED <<bin_values, coin, env, got>>, NEW m, sent' = sent \/ Broadcasts(m),
         pc' \in {"input", "bin", "aux", "conf", "coin", "quit", "beyond"},
         receiver' \in {"up", "failed", "killed"}, pc' = "quit" => receiver' # "up",
         waiting' = FALSE, signal' = signal,
         vi' \in Bits \cup {None}, est' \in Bits \cup {None}, already_decided' \in Bits \cup {None},
         round' \in 0 .. MaxRound + 1, values' \in [Round -> SUBSET Bits]
  PROVE  Typed' /\ SendsOnce' /\ NoLostWakeup'
<1>1. sent' \in Seq(Messages) /\ SendsOnce' /\ Elements(sent) \subseteq Elements(sent)'
  BY SentStep
<1>2. got' \subseteq env' \cup Elements(sent)'
  BY <1>1 DEF IInv, Typed, TypeOK
<1>3. waiting' \in BOOLEAN /\ signal' \in BOOLEAN
  BY Zenon DEF IInv, Typed, TypeOK
<1>4. waiting' => pc' \in {"bin", "aux", "conf"}
  BY Zenon
<1>5. bin_values' \in [Round -> SUBSET Bits]
  BY DEF IInv, Typed, TypeOK
<1>6. TypeOK'
  BY <1>2, <1>3, <1>4, <1>5 DEF TypeOK
<1>7. Typed'
  BY <1>1, <1>6 DEF IInv, Typed
<1>8. NoLostWakeup'
  BY DEF NoLostWakeup
<1> QED
  BY <1>1, <1>7, <1>8

LEMMA Awake == IInv /\ pc \notin {"bin", "aux", "conf"} => waiting = FALSE
  BY Zenon DEF IInv, Typed, TypeOK

LEMMA BlockInvariant == IInv /\ Block => IInv'
<1> SUFFICES ASSUME IInv, Block PROVE IInv'
  OBVIOUS
<1>1. /\ pc \in {"bin", "aux", "conf"} /\ ~Ready
      /\ UNCHANGED <<pc, vi, round, est, already_decided, values, receiver, bin_values, coin, env, got, sent>>
  BY DEF Block
<1>2. waiting' \in BOOLEAN /\ signal' \in BOOLEAN
  BY Zenon DEF Block
<1>3. Elements(sent)' = Elements(sent)
  BY <1>1 DEF Elements
<1>4. TypeOK'
  BY <1>1, <1>2, <1>3 DEF IInv, Typed, TypeOK
<1>5. Typed' /\ PhaseOK' /\ SendsOnce' /\ SentInPhase'
  BY <1>1, <1>3, <1>4 DEF IInv, Typed, PhaseOK, SendsOnce, SentInPhase, AuxSent, ConfSent
<1>6. NoLostWakeup'
  BY <1>1 DEF NoLostWakeup, Ready, AuxDone, AuxTally, ConfResult, Full, AllConf, ConfTally
<1> QED
  BY <1>5, <1>6 DEF IInv

LEMMA WakeInvariant == IInv /\ Wake => IInv'
<1> SUFFICES ASSUME IInv, Wake PROVE IInv'
  OBVIOUS
<1> USE DEF Wake
<1>1. Elements(sent)' = Elements(sent)
  BY DEF Elements
<1>2. Typed' /\ SendsOnce' /\ NoLostWakeup'
  BY MainFrame DEF IInv, Typed, TypeOK
<1>3. PhaseOK' /\ SentInPhase'
  BY <1>1 DEF IInv, PhaseOK, SentInPhase, AuxSent, ConfSent
<1> QED
  BY <1>2, <1>3 DEF IInv

\* SendEst broadcasts an EST that is new.
LEMMA SendEstOnce ==
  ASSUME NEW r \in Round, NEW v \in Bits, SendEst(r, v)
  PROVE  sent' = sent \/ Broadcasts(Est(r, v))
  BY OwnMessages DEF SendEst, est_sent, Broadcasts

LEMMA InputInvariant == ASSUME IInv, NEW v \in Bits, Input(v) PROVE IInv'
<1> USE DEF Input
<1>1. round = 0 /\ 0 \in Round /\ 0 \in 0 .. MaxRound + 1
  BY Constants DEF IInv, PhaseOK
<1>2. sent' = sent \/ Broadcasts(Est(0, v))
  BY <1>1, SendEstOnce
<1>3. waiting' = FALSE
  BY Awake
<1>4. Typed' /\ SendsOnce' /\ NoLostWakeup'
  BY <1>1, <1>2, <1>3, MainFrame DEF IInv, Typed, TypeOK
<1>5. PhaseOK'
  BY <1>1, Constants DEF IInv, PhaseOK
<1>6. SentInPhase'
  <2>1. \A x \in Elements(sent)' : x \in Elements(sent) \/ x = Est(0, v)
    BY <1>2, SentStep
  <2>2. \A s \in Round : (AuxSent(s) => AuxSent(s)') /\ (ConfSent(s) => ConfSent(s)')
    BY <1>1 DEF AuxSent, ConfSent
  <2>3. \A s, u : Aux(s, u) \in Elements(sent)' => Aux(s, u) \in Elements(sent)
    BY <2>1, MessageKinds
  <2>4. \A s, vs : Conf(s, vs) \in Elements(sent)' => Conf(s, vs) \in Elements(sent)
    BY <2>1, MessageKinds
  <2> QED
    BY <2>2, <2>3, <2>4 DEF IInv, SentInPhase
<1> QED
  BY <1>4, <1>5, <1>6 DEF IInv

LEMMA SendAuxInvariant == ASSUME IInv, NEW w \in Bits, SendAux(w) PROVE IInv'
<1> USE DEF SendAux
<1>1. PICK r \in Round : r = round
  BY DEF IInv, PhaseOK
<1>2. ~AuxSent(r)
  BY <1>1, Constants DEF AuxSent
<1>3. sent' = sent \/ Broadcasts(Aux(r, w))
  BY <1>1, <1>2, OwnMessages DEF Broadcasts, IInv, SentInPhase
<1>4. waiting' = FALSE
  BY Zenon DEF IInv, Typed, TypeOK
<1>5. Typed' /\ SendsOnce' /\ NoLostWakeup'
  BY <1>3, <1>4, MainFrame DEF IInv, Typed, TypeOK
<1>6. PhaseOK'
  BY <1>1 DEF IInv, PhaseOK
<1>7. SentInPhase'
  <2>1. \A x \in Elements(sent)' : x \in Elements(sent) \/ x = Aux(r, w)
    BY <1>3, SentStep
  <2>2. \A s \in Round : (AuxSent(s) => AuxSent(s)') /\ (ConfSent(s) => ConfSent(s)')
    BY DEF AuxSent, ConfSent
  <2>3. AuxSent(r)'
    BY <1>1 DEF AuxSent
  <2>4. \A s, u : Aux(s, u) \in Elements(sent)' => Aux(s, u) \in Elements(sent) \/ s = r
    BY <2>1, MessageKinds
  <2>5. \A s, vs : Conf(s, vs) \in Elements(sent)' => Conf(s, vs) \in Elements(sent)
    BY <2>1, MessageKinds
  <2> QED
    BY <2>2, <2>3, <2>4, <2>5 DEF IInv, SentInPhase
<1> QED
  BY <1>5, <1>6, <1>7 DEF IInv

LEMMA CompleteAuxInvariant == IInv /\ CompleteAux => IInv'
<1> SUFFICES ASSUME IInv, CompleteAux PROVE IInv'
  OBVIOUS
<1> USE DEF CompleteAux
<1>1. PICK r \in Round, B \in (SUBSET Bits) \ {{}} : r = round /\ B = bin_values[r]
  BY DEF IInv, PhaseOK, Typed, TypeOK
<1>2. ~ConfSent(r)
  BY <1>1, Constants DEF ConfSent
<1>3. sent' = sent \/ Broadcasts(Conf(r, B))
  BY <1>1, <1>2, OwnMessages DEF Broadcasts, IInv, SentInPhase
<1>4. waiting' = FALSE
  BY Zenon DEF IInv, Typed, TypeOK
<1>5. Typed' /\ SendsOnce' /\ NoLostWakeup'
  BY <1>3, <1>4, MainFrame DEF IInv, Typed, TypeOK
<1>6. PhaseOK'
  BY <1>1 DEF IInv, PhaseOK
<1>7. SentInPhase'
  <2>1. \A x \in Elements(sent)' : x \in Elements(sent) \/ x = Conf(r, B)
    BY <1>3, SentStep
  <2>2. \A s \in Round : (AuxSent(s) => AuxSent(s)') /\ (ConfSent(s) => ConfSent(s)')
    BY DEF AuxSent, ConfSent
  <2>3. ConfSent(r)'
    BY <1>1 DEF ConfSent
  <2>4. \A s, u : Aux(s, u) \in Elements(sent)' => Aux(s, u) \in Elements(sent)
    BY <2>1, MessageKinds
  <2>5. \A s, vs : Conf(s, vs) \in Elements(sent)' => Conf(s, vs) \in Elements(sent) \/ s = r
    BY <2>1, MessageKinds
  <2> QED
    BY <2>2, <2>3, <2>4, <2>5 DEF IInv, SentInPhase
<1> QED
  BY <1>5, <1>6, <1>7 DEF IInv

LEMMA CompleteConfInvariant == ASSUME IInv, NEW vs \in SUBSET Bits, CompleteConf(vs) PROVE IInv'
<1> USE DEF CompleteConf
<1>1. PICK r \in Round : r = round
  BY DEF IInv, PhaseOK
<1>2. waiting' = FALSE
  BY Zenon DEF IInv, Typed, TypeOK
<1>3. values' \in [Round -> SUBSET Bits]
  BY DEF IInv, Typed, TypeOK
<1>4. Typed' /\ SendsOnce' /\ NoLostWakeup'
  BY <1>2, <1>3, MainFrame DEF IInv, Typed, TypeOK
<1>5. PhaseOK'
  BY <1>1 DEF IInv, PhaseOK, Typed, TypeOK
<1>6. Elements(sent)' = Elements(sent)
  BY DEF Elements
<1>7. SentInPhase'
  BY <1>6 DEF IInv, SentInPhase, AuxSent, ConfSent
<1> QED
  BY <1>4, <1>5, <1>7 DEF IInv

LEMMA NextRoundInvariant == IInv /\ NextRound => IInv'
<1> SUFFICES ASSUME IInv, NextRound PROVE IInv'
  OBVIOUS
<1> USE DEF NextRound
<1>1. PICK r \in Round : r = round
  BY DEF IInv, PhaseOK
<1>2. values[r] # {} /\ values[r] \in SUBSET Bits /\ coin[r] \in Bits
  <2>1. pc = "coin"
    OBVIOUS
  <2>2. values \in [Round -> SUBSET Bits] /\ coin \in Coins
    BY DEF IInv, Typed, TypeOK
  <2> HIDE DEF NextRound
  <2>3. values[r] # {}
    BY <1>1, <2>1 DEF IInv, PhaseOK
  <2>4. coin \in [Round -> Bits]
    BY <2>2, Constants
  <2> QED
    BY <2>2, <2>3, <2>4
<1>3. est' \in Bits
  BY <1>1, <1>2 DEF NewEstimate
<1>4. already_decided' \in Bits \cup {None}
  BY <1>1, <1>2 DEF IInv, Typed, TypeOK
<1>5. round' = r + 1 /\ r + 1 \in 0 .. MaxRound + 1 /\ pc' \in {"bin", "beyond"} /\ (pc' = "bin" => r + 1 \in Round)
  BY <1>1, Constants
<1>6. sent' = sent \/ Broadcasts(Est(r + 1, est'))
  BY <1>1, <1>3, SendEstOnce
<1>7. waiting' = FALSE
  BY Awake
<1>8. Typed' /\ SendsOnce' /\ NoLostWakeup'
  BY <1>3, <1>4, <1>5, <1>6, <1>7, MainFrame DEF IInv, Typed, TypeOK
<1>9. PhaseOK'
  <2>1. \A s \in Round : s < r + 1 => values[s] # {}
    BY <1>1, <1>2, Constants DEF IInv, PhaseOK
  <2>2. vi \in Bits
    BY DEF IInv, PhaseOK
  <2> QED
    BY <1>3, <1>5, <2>1, <2>2 DEF PhaseOK
<1>10. SentInPhase'
  <2>1. \A x \in Elements(sent)' : x \in Elements(sent) \/ \E s, u : x = Est(s, u)
    BY <1>6, SentStep
  <2>2. \A s, u : /\ Aux(s, u) \in Elements(sent)' => Aux(s, u) \in Elements(sent)
                  /\ Conf(s, u) \in Elements(sent)' => Conf(s, u) \in Elements(sent)
    BY <2>1, MessageKinds
  <2>3. \A s \in Round : (AuxSent(s) => AuxSent(s)') /\ (ConfSent(s) => ConfSent(s)')
    BY <1>1, <1>5, Constants DEF AuxSent, ConfSent
  <2> QED
    BY <2>2, <2>3 DEF IInv, SentInPhase
<1> QED
  BY <1>8, <1>9, <1>10 DEF IInv

LEMMA QuitInvariant == IInv /\ Quit => IInv'
<1> SUFFICES ASSUME IInv, Quit PROVE IInv'
  OBVIOUS
<1> USE DEF Quit
<1>1. waiting' = FALSE
  BY Awake
<1>2. Typed' /\ SendsOnce' /\ NoLostWakeup'
  BY <1>1, MainFrame DEF IInv, Typed, TypeOK
<1>3. PhaseOK'
  BY DEF IInv, PhaseOK
<1>4. Elements(sent)' = Elements(sent)
  BY DEF Elements
<1>5. SentInPhase'
  BY <1>4 DEF IInv, SentInPhase, AuxSent, ConfSent
<1> QED
  BY <1>2, <1>3, <1>5 DEF IInv

LEMMA NextInvariant == IInv /\ [Next]_vars => IInv'
<1> SUFFICES ASSUME IInv, [Next]_vars PROVE IInv'
  OBVIOUS
<1>1. CASE Next
  BY <1>1, ReceiveRedundantInvariant, ReceiveMalformedInvariant, ReceiveEstInvariant, ReceiveVoteInvariant, InputInvariant, WakeInvariant,
     BlockInvariant, SendAuxInvariant, CompleteAuxInvariant, CompleteConfInvariant, NextRoundInvariant, QuitInvariant
  DEF Next, MainStep
<1>2. CASE UNCHANGED vars
  <2>1. Elements(sent)' = Elements(sent)
    BY <1>2 DEF vars, Elements
  <2>2. UNCHANGED <<main, signal, receiver, bin_values, coin, env, got, sent>>
    BY <1>2 DEF vars
  <2>3. UNCHANGED <<pc, waiting, vi, round, est, already_decided, values, signal, receiver, bin_values, coin, env, got, sent>>
    BY <2>2 DEF main
  <2>4. Typed' /\ PhaseOK' /\ SendsOnce' /\ SentInPhase'
    BY <2>1, <2>3 DEF IInv, Typed, TypeOK, PhaseOK, SendsOnce, SentInPhase, AuxSent, ConfSent
  <2>5. NoLostWakeup'
    BY <2>3 DEF IInv, NoLostWakeup, Ready, AuxDone, AuxTally, ConfResult, Full, AllConf, ConfTally
  <2> QED
    BY <2>4, <2>5 DEF IInv
<1> QED
  BY <1>1, <1>2

\* The inductive invariant.
THEOREM NodeInvariant == Spec => []IInv
  BY InitInvariant, NextInvariant, PTL DEF Spec

\* The two greenlets keep every variable in its type, and a node that quit has
\* no receive greenlet any more.
THEOREM TypeCorrect == Spec => []TypeOK
<1>1. IInv => TypeOK
  BY DEF IInv, Typed
<1> QED
  BY <1>1, NodeInvariant, PTL

\* The main greenlet never sleeps on a clear event with something to do.
THEOREM NoWakeupLost == Spec => []NoLostWakeup
<1>1. IInv => NoLostWakeup
  BY DEF IInv
<1> QED
  BY <1>1, NodeInvariant, PTL

\* Neither greenlet broadcasts what the node has broadcast before.
THEOREM EverythingSentOnce == Spec => []SendsOnce
<1>1. IInv => SendsOnce
  BY DEF IInv
<1> QED
  BY <1>1, NodeInvariant, PTL
-----------------------------------------------------------------------------
\* The refinement.  The node counts messages, BinaryAgreement counts those from
\* whom they may have come; no tally is ahead of the senders.

\* The instance's Cardinality is the one of the lemmas.
LEMMA SameCardinality == \A S : Protocol!Cardinality(S) = Cardinality(S)
  BY DEF Cardinality, Protocol!Cardinality

\* A message is told by its fields.
LEMMA Shape ==
  ASSUME NEW m \in Messages
  PROVE  /\ m.from \in Node
         /\ m.type = "EST" => m = Protocol!Est(m.from, m.round, m.v)
         /\ m.type = "AUX" => m = Protocol!Aux(m.from, m.round, m.v)
         /\ m.type = "CONF" => m = Protocol!Conf(m.from, m.round, m.vs)
  BY DEF Messages, Protocol!Est, Protocol!Aux, Protocol!Conf

\* What has been sent to the node, as BinaryAgreement has it.
LEMMA Arriving ==
  ASSUME IInv, NEW m \in env \cup Elements(sent)
  PROVE  m \in Messages /\ m \in Protocol!Sent
<1>1. \A x \in Elements(sent) : x \in Messages
  BY DEF Elements, IInv, Typed
<1> QED
  BY <1>1, Constants DEF IInv, Typed, Protocol!Sent

LEMMA SendersFinite ==
  ASSUME NEW r, NEW v
  PROVE  /\ IsFiniteSet(Protocol!EstSenders(r, v)) /\ Cardinality(Protocol!EstSenders(r, v)) \in Nat
         /\ IsFiniteSet(Protocol!ConfSenders(r, v)) /\ Cardinality(Protocol!ConfSenders(r, v)) \in Nat
<1>1. Protocol!EstSenders(r, v) \subseteq Node /\ Protocol!ConfSenders(r, v) \subseteq Node
  BY DEF Protocol!EstSenders, Protocol!ConfSenders
<1> QED
  BY <1>1, Constants, FS_Subset, FS_CardinalityType

LEMMA EstBound ==
  ASSUME IInv, NEW r, NEW v, NEW G \in SUBSET (env \cup Elements(sent))
  PROVE  LET S == {m \in G : m.type = "EST" /\ m.round = r /\ m.v = v} IN
         IsFiniteSet(S) /\ Cardinality(S) <= Cardinality(Protocol!EstSenders(r, v))
<1> DEFINE S == {m \in G : m.type = "EST" /\ m.round = r /\ m.v = v}
           T == Protocol!EstSenders(r, v)
           f == [m \in S |-> m.from]
<1>1. \A m \in S : m.from \in Node /\ m = Protocol!Est(m.from, r, v) /\ m \in Protocol!Sent
  BY Shape, Arriving
<1>2. \A m \in S : m.from \in T
  BY <1>1 DEF Protocol!EstSenders
<1>3. \A m, w \in S : m.from = w.from => m = w
  <2> TAKE m, w \in S
  <2> QED
    BY <1>1
<1>4. f \in Injection(S, T)
  BY <1>2, <1>3 DEF Injection, IsInjective
<1> HIDE DEF S, T, f
<1>5. IsFiniteSet(S) /\ Cardinality(S) <= Cardinality(T)
  BY <1>4, SendersFinite, FS_Injection DEF T
<1> QED
  BY <1>5 DEF S, T

LEMMA ConfBound ==
  ASSUME IInv, NEW r, NEW vs
  PROVE  /\ ConfTally(r, vs) \in Nat
         /\ ConfTally(r, vs) <= Cardinality(Protocol!ConfSenders(r, vs) \cap Node)
<1> DEFINE S == {m \in got : m.type = "CONF" /\ m.round = r /\ m.vs = vs}
           T == Protocol!ConfSenders(r, vs)
           f == [m \in S |-> m.from]
<1>1. \A m \in got : m \in env \cup Elements(sent)
  BY DEF IInv, Typed, TypeOK
<1>2. \A m \in S : m.from \in Node /\ m = Protocol!Conf(m.from, r, vs) /\ m \in Protocol!Sent
  BY <1>1, Shape, Arriving
<1>3. \A m \in S : m.from \in T
  BY <1>2 DEF Protocol!ConfSenders
<1>4. \A m, w \in S : m.from = w.from => m = w
  <2> TAKE m, w \in S
  <2> QED
    BY <1>2
<1>5. f \in Injection(S, T)
  BY <1>3, <1>4 DEF Injection, IsInjective
<1>6. T = T \cap Node
  BY DEF Protocol!ConfSenders
<1> HIDE DEF S, T, f
<1>7. IsFiniteSet(S) /\ Cardinality(S) <= Cardinality(T)
  BY <1>5, SendersFinite, FS_Injection DEF T
<1>8. ConfTally(r, vs) = Cardinality(S)
  BY DEF ConfTally, S
<1> QED
  BY <1>6, <1>7, <1>8, FS_CardinalityType DEF T

\* A sender counts once for each value here and there.
LEMMA AuxBound ==
  ASSUME IInv, pc = "aux", AuxDone
  PROVE  Protocol!AuxCount(round, bin_values[round], Node) >= N - F
<1> DEFINE B == bin_values[round]
           T == {p \in B \X Node : p[2] \in Protocol!AuxSenders(round, p[1])}
           S == {m \in got : m.type = "AUX" /\ m.round = round /\ m.v \in B}
           One(v) == {m \in got : m.type = "AUX" /\ m.round = round /\ m.v = v}
           f == [m \in S |-> <<m.v, m.from>>]
<1>1. B \subseteq {0, 1} /\ round \in Round
  BY Constants DEF IInv, Typed, TypeOK, PhaseOK
<1>2. \A m \in S : m.from \in Node /\ m = Protocol!Aux(m.from, round, m.v) /\ m \in Protocol!Sent
  <2>1. \A m \in got : m \in env \cup Elements(sent)
    BY DEF IInv, Typed, TypeOK
  <2> QED
    BY <2>1, Shape, Arriving
<1>3. \A m \in S : <<m.v, m.from>> \in T
  BY <1>2 DEF Protocol!AuxSenders
<1>4. \A m, w \in S : <<m.v, m.from>> = <<w.v, w.from>> => m = w
  <2> TAKE m, w \in S
  <2> QED
    BY <1>2
<1>5. f \in Injection(S, T)
  <2>1. f \in [S -> T]
    BY <1>3
  <2>2. \A m, w \in S : f[m] = f[w] => m = w
    BY <1>4
  <2> QED
    BY <2>1, <2>2 DEF Injection, IsInjective
<1>6. IsFiniteSet(T)
  <2>1. IsFiniteSet({0, 1})
    <3>1. IsFiniteSet({0}) /\ {0, 1} = {0} \cup {1}
      BY FS_Singleton
    <3> QED
      BY <3>1, FS_AddElement
  <2>2. IsFiniteSet(B)
    BY <1>1, <2>1, FS_Subset
  <2>3. IsFiniteSet(B \X Node)
    BY <2>2, Constants, FS_Product
  <2> QED
    BY <2>3, FS_Subset
<1>7. \A v \in B : One(v) \subseteq S
  OBVIOUS
<1>8. 0 \in B /\ 1 \in B => S = One(0) \cup One(1) /\ One(0) \cap One(1) = {}
  BY <1>1
<1>9. \A v : AuxTally(round, v) = Cardinality(One(v))
  BY DEF AuxTally
<1>10. Protocol!AuxCount(round, B, Node) = Cardinality(T)
  BY SameCardinality DEF Protocol!AuxCount
<1> HIDE DEF S, T, f, One
<1>11. IsFiniteSet(S) /\ Cardinality(S) <= Cardinality(T)
  BY <1>5, <1>6, FS_Injection
<1>12. \A v \in B : IsFiniteSet(One(v)) /\ Cardinality(One(v)) <= Cardinality(S)
  BY <1>7, <1>11, FS_Subset
<1>13. Cardinality(S) \in Nat /\ Cardinality(T) \in Nat /\ \A v \in B : Cardinality(One(v)) \in Nat
  BY <1>6, <1>11, <1>12, FS_CardinalityType
<1>14. 0 \in B /\ 1 \in B => Cardinality(One(0)) + Cardinality(One(1)) = Cardinality(S)
  <2> SUFFICES ASSUME 0 \in B, 1 \in B PROVE Cardinality(One(0)) + Cardinality(One(1)) = Cardinality(S)
    OBVIOUS
  <2>1. Cardinality(One(0) \cap One(1)) = 0
    BY <1>8, FS_EmptySet
  <2>2. IsFiniteSet(One(0)) /\ IsFiniteSet(One(1)) /\ S = One(0) \cup One(1)
    BY <1>8, <1>12
  <2>3. Cardinality(One(0) \cup One(1)) = Cardinality(One(0)) + Cardinality(One(1)) - Cardinality(One(0) \cap One(1))
    BY <2>2, FS_Union
  <2> QED
    BY <1>13, <2>1, <2>2, <2>3
<1>15. Cardinality(S) >= N - F
  <2>1. CASE \E v \in B : Cardinality(One(v)) >= N - F
    BY <2>1, <1>12, <1>13, Constants
  <2>2. CASE (IF 0 \in B THEN Cardinality(One(0)) ELSE 0) + (IF 1 \in B THEN Cardinality(One(1)) ELSE 0) >= N - F
    <3> N - F > 0
      BY Constants
    <3> QED
      BY <2>2, <1>12, <1>13, <1>14, Constants
  <2> QED
    BY <2>1, <2>2, <1>9 DEF AuxDone
<1> QED
  BY <1>10, <1>11, <1>13, <1>15, Constants

LEMMA ConfSimulated ==
  ASSUME IInv, pc = "conf", NEW vs, vs = ConfResult, vs # {}
  PROVE  Protocol!ConfReturns(round, bin_values[round], vs, Node)
<1> DEFINE B == bin_values[round]
           C(x) == Cardinality(Protocol!ConfSenders(round, x) \cap Node)
           t(x) == ConfTally(round, x)
<1>1. B \subseteq {0, 1} /\ round \in Round
  BY Constants DEF IInv, Typed, TypeOK, PhaseOK
<1>2. \A x : t(x) \in Nat /\ C(x) \in Nat /\ t(x) <= C(x)
  <2> TAKE x
  <2>1. Protocol!ConfSenders(round, x) \cap Node \subseteq Node
    OBVIOUS
  <2> QED
    BY <2>1, ConfBound, Constants, FS_Subset, FS_CardinalityType
<1>3. Protocol!Quorum = N - F /\ N - F \in Nat /\ N - F > 0
  <2>1. Protocol!N = N
    BY SameCardinality DEF Protocol!N, N
  <2> QED
    BY <2>1, Constants DEF Protocol!Quorum
<1>4. \/ vs = {1} /\ 1 \in B /\ t({1}) >= N - F
      \/ vs = {0} /\ 0 \in B /\ t({0}) >= N - F
      \/ vs = Bits /\ AllConf >= N - F /\ (1 \in B => t({1}) < N - F) /\ (0 \in B => t({0}) < N - F)
  <2>1. t({0}) \in Nat /\ t({1}) \in Nat
    BY <1>2
  <2>2. /\ Full(1) <=> 1 \in B /\ t({1}) >= N - F
        /\ Full(0) <=> 0 \in B /\ t({0}) >= N - F
    BY DEF Full
  <2>3. (vs = {1} /\ Full(1)) \/ (vs = {0} /\ Full(0)) \/ (vs = Bits /\ AllConf >= N - F /\ ~Full(1) /\ ~Full(0))
    BY Zenon DEF ConfResult
  <2> HIDE DEF B, t
  <2> QED
    BY <1>3, <2>1, <2>2, <2>3
<1>5. AllConf = (IF 0 \in B THEN t({0}) ELSE 0) + (IF 1 \in B THEN t({1}) ELSE 0) + (IF B = {0, 1} THEN t({0, 1}) ELSE 0)
  BY <1>1, Constants DEF AllConf
<1> HIDE DEF C, t, B
<1>6. CASE vs = {1} /\ 1 \in B /\ t({1}) >= N - F
  <2>1. C({1}) >= N - F
    BY <1>2, <1>3, <1>6
  <2> QED
    BY <1>3, <1>6, <2>1, SameCardinality, Zenon DEF Protocol!ConfReturns, C, B
<1>7. CASE vs = {0} /\ 0 \in B /\ t({0}) >= N - F
  <2>1. C({0}) >= N - F
    BY <1>2, <1>3, <1>7
  <2> QED
    BY <1>3, <1>7, <2>1, SameCardinality, Zenon DEF Protocol!ConfReturns, C, B
<1>8. CASE vs = Bits /\ AllConf >= N - F /\ (1 \in B => t({1}) < N - F) /\ (0 \in B => t({0}) < N - F)
  <2>1. /\ 0 \in B => t({0}) <= Protocol!Below(C({0}))
        /\ 1 \in B => t({1}) <= Protocol!Below(C({1}))
    BY <1>2, <1>3, <1>8 DEF Protocol!Below
  <2>2. Protocol!Below(C({0})) \in Nat /\ Protocol!Below(C({1})) \in Nat
    BY <1>2, <1>3 DEF Protocol!Below
  <2>3. (IF 0 \in B THEN Protocol!Below(C({0})) ELSE 0) + (IF 1 \in B THEN Protocol!Below(C({1})) ELSE 0)
          + (IF B = {0, 1} THEN C({0, 1}) ELSE 0) >= N - F
    BY <1>2, <1>3, <1>5, <1>8, <2>1, <2>2
  <2>4. Protocol!Bits = {0, 1} /\ vs = {0, 1}
    BY <1>8, Constants DEF Protocol!Bits
  <2> QED
    BY <1>3, <2>3, <2>4, SameCardinality DEF Protocol!ConfReturns, C, B
<1> QED
  BY <1>4, <1>6, <1>7, <1>8
\* The node is the only one of the instance that is not faulty.
LEMMA OnlyHonest ==
  /\ Protocol!Honest = {self} /\ Protocol!Bits = Bits /\ Protocol!Round = Round
  /\ Protocol!RelayThreshold = F + 1 /\ Protocol!AcceptThreshold = 2 * F + 1
  /\ \A x : Only(x)[self] = x /\ \A y : [Only(x) EXCEPT ![self] = y] = Only(y)
  /\ \A r, v : /\ Protocol!Est(self, r, v) = Est(r, v) /\ Protocol!Aux(self, r, v) = Aux(r, v)
               /\ Protocol!Conf(self, r, v) = Conf(r, v)
  BY Constants DEF Protocol!Honest, Protocol!Bits, Bits, Protocol!Round, Round, Only,
       Protocol!RelayThreshold, Protocol!AcceptThreshold, Protocol!Est, Est, Protocol!Aux, Aux, Protocol!Conf, Conf

LEMMA ProtocolInit == Init => Protocol!Init
<1> SUFFICES ASSUME Init PROVE Protocol!Init
  OBVIOUS
<1>1. Elements(sent) = {}
  BY DEF Init, Elements
<1> QED
  BY <1>1, OnlyHonest DEF Init, Protocol!Init, Only, Ended

ProtocolVars == <<pc, vi, round, est, already_decided, bin_values, values, coin, Ended, Elements(sent)>>

LEMMA Unseen == UNCHANGED ProtocolVars => [Protocol!Next]_(Protocol!vars)
  BY DEF ProtocolVars, Protocol!vars, Only

\* A message the receive greenlet cannot take.
LEMMA SimulateFailure ==
  ASSUME IInv, NEW m, ReceiveRedundant(m) \/ ReceiveMalformed(m)
  PROVE  [Protocol!Next]_(Protocol!vars)
<1>1. /\ receiver = "up" /\ receiver' = "failed"
      /\ UNCHANGED <<pc, vi, round, est, already_decided, bin_values, values, coin, sent>>
  BY DEF ReceiveRedundant, ReceiveMalformed, Arrives, main
<1>2. pc # "quit" /\ Ended = {} /\ Ended' = {<<self, "agreement">>}
  BY <1>1 DEF IInv, Typed, TypeOK, Ended
<1>3. Elements(sent)' = Elements(sent)
  BY <1>1 DEF Elements
<1>4. Protocol!EndReceiver(self, "agreement")
  BY <1>1, <1>2, <1>3, OnlyHonest DEF Protocol!EndReceiver
<1>5. "agreement" \in Protocol!Greenlets
  BY DEF Protocol!Greenlets
<1> QED
  BY <1>4, <1>5, OnlyHonest DEF Protocol!Next

\* An EST that relays or accepts is a step of the instance, whether one or both.
LEMMA SimulateReceiveEst ==
  ASSUME IInv, NEW m, ReceiveEst(m)
  PROVE  [Protocol!Next]_(Protocol!vars)
<1> DEFINE r == m.round
           v == m.v
           tally == EstTally(r, v) + 1
           senders == Cardinality(Protocol!EstSenders(r, v))
<1>1. /\ Arrives(m) /\ m.type = "EST" /\ m \notin got
      /\ sent' = IF tally >= F + 1 /\ Est(r, v) \notin Elements(sent) THEN Append(sent, Est(r, v)) ELSE sent
      /\ IF tally >= 2 * F + 1
           THEN bin_values' = [bin_values EXCEPT ![r] = @ \cup {v}]
           ELSE bin_values' = bin_values
  BY DEF ReceiveEst, est_sent
<1>2. m \in env \cup Elements(sent) /\ r \in Round /\ v \in Bits /\ Est(r, v) \in Messages
  BY <1>1, Arrived
<1>3. UNCHANGED <<pc, vi, round, est, already_decided, values, coin, Ended>> /\ pc # "quit" /\ Ended = {}
  <2>1. receiver = "up" /\ receiver' = receiver
    BY <1>1 DEF Arrives, ReceiveEst
  <2> QED
    BY <1>1, <2>1 DEF Arrives, main, IInv, Typed, TypeOK, Ended
<1>4. tally \in Nat /\ senders \in Nat /\ tally <= senders
  <2> DEFINE S == {x \in got : x.type = "EST" /\ x.round = r /\ x.v = v}
             G == got \cup {m}
  <2>1. G \in SUBSET (env \cup Elements(sent))
    BY <1>2 DEF IInv, Typed, TypeOK
  <2>2. {x \in G : x.type = "EST" /\ x.round = r /\ x.v = v} = S \cup {m} /\ m \notin S
    BY <1>1
  <2> HIDE DEF G
  <2>3. IsFiniteSet(S \cup {m}) /\ Cardinality(S \cup {m}) <= senders
    <3> DEFINE SG == {x \in G : x.type = "EST" /\ x.round = r /\ x.v = v}
    <3>1. IsFiniteSet(SG) /\ Cardinality(SG) <= senders
      BY <2>1, EstBound
    <3>2. SG = S \cup {m}
      BY <2>2
    <3> HIDE DEF SG, S, senders
    <3> QED
      BY <3>1, <3>2
  <2> HIDE DEF S
  <2>4. IsFiniteSet(S)
    BY <2>3, FS_Subset
  <2>5. Cardinality(S \cup {m}) = Cardinality(S) + 1 /\ Cardinality(S) \in Nat
    BY <2>2, <2>4, FS_AddElement, FS_CardinalityType
  <2>6. EstTally(r, v) = Cardinality(S)
    BY DEF EstTally, S
  <2> QED
    BY <2>3, <2>5, <2>6, SendersFinite
<1>5. Elements(sent)' = IF tally >= F + 1 THEN Elements(sent) \cup {Est(r, v)} ELSE Elements(sent)
  <2>1. Elements(sent)' = Elements(sent')
    BY DEF Elements
  <2>2. CASE tally >= F + 1 /\ Est(r, v) \notin Elements(sent)
    BY <1>1, <1>2, <2>1, <2>2, Appended DEF IInv, Typed
  <2>3. CASE ~(tally >= F + 1 /\ Est(r, v) \notin Elements(sent))
    BY <1>1, <2>1, <2>3
  <2> QED
    BY <2>2, <2>3
<1>6. bin_values \in [Round -> SUBSET Bits] /\ bin_values[r] \cup {v} \subseteq Bits
  BY <1>2 DEF IInv, Typed, TypeOK
<1>7. F \in Nat
  BY Constants
<1> HIDE DEF tally, senders, r, v
<1>8. CASE tally < F + 1
  <2>1. UNCHANGED <<bin_values, Elements(sent)>>
    BY <1>1, <1>4, <1>5, <1>7, <1>8
  <2> QED
    BY <1>3, <2>1, Unseen DEF ProtocolVars
<1>9. CASE F + 1 <= tally /\ tally < 2 * F + 1
  <2>1. bin_values' = bin_values /\ Elements(sent)' = Elements(sent) \cup {Est(r, v)}
    BY <1>1, <1>4, <1>5, <1>7, <1>9
  <2>2. CASE Est(r, v) \in Elements(sent)
    BY <1>3, <2>1, <2>2, Unseen DEF ProtocolVars
  <2>3. CASE Est(r, v) \notin Elements(sent)
    <3>1. F + 1 <= Protocol!Cardinality(Protocol!EstSenders(r, v)) /\ ~(F + 1 >= 2 * F + 1)
      BY <1>4, <1>7, <1>9, SameCardinality DEF senders
    <3>2. Protocol!ReceiveEst(self, r, v, Protocol!RelayThreshold)
      BY <1>3, <1>7, <2>1, <2>3, <3>1, OnlyHonest DEF Protocol!ReceiveEst
    <3> QED
      BY <1>2, <3>2, OnlyHonest DEF Protocol!Next
  <2> QED
    BY <2>2, <2>3
<1>10. CASE 2 * F + 1 <= tally
  <2>1. bin_values' = [bin_values EXCEPT ![r] = @ \cup {v}] /\ Elements(sent)' = Elements(sent) \cup {Est(r, v)}
    BY <1>1, <1>4, <1>5, <1>7, <1>10
  <2>2. CASE Est(r, v) \in Elements(sent) /\ v \in bin_values[r]
    <3>1. bin_values' = bin_values /\ Elements(sent)' = Elements(sent)
      BY <1>2, <1>6, <2>1, <2>2
    <3> QED
      BY <1>3, <3>1, Unseen DEF ProtocolVars
  <2>3. CASE ~(Est(r, v) \in Elements(sent) /\ v \in bin_values[r])
    <3>1. 2 * F + 1 <= Protocol!Cardinality(Protocol!EstSenders(r, v)) /\ F + 1 <= 2 * F + 1
      BY <1>4, <1>7, <1>10, SameCardinality DEF senders
    <3>2. Only(bin_values') = [Only(bin_values) EXCEPT ![self][r] = @ \cup {v}]
      BY <2>1, OnlyHonest DEF Only
    <3>3. Protocol!ReceiveEst(self, r, v, Protocol!AcceptThreshold)
      BY <1>3, <1>7, <2>1, <2>3, <3>1, <3>2, OnlyHonest DEF Protocol!ReceiveEst
    <3> QED
      BY <1>2, <3>3, OnlyHonest DEF Protocol!Next
  <2> QED
    BY <2>2, <2>3
<1> QED
  BY <1>4, <1>7, <1>8, <1>9, <1>10

\* What a step of the main greenlet broadcasts is new or repeats nothing.
LEMMA Broadcast ==
  ASSUME IInv, NEW m \in Messages, sent' = Append(sent, m)
  PROVE  Elements(sent)' = Elements(sent) \cup {m}
<1>1. Elements(sent)' = Elements(sent')
  BY DEF Elements
<1> QED
  BY <1>1, Appended DEF IInv, Typed

LEMMA EstBroadcast ==
  ASSUME IInv, NEW r \in Round, NEW v \in Bits, SendEst(r, v)
  PROVE  Elements(sent)' = Elements(sent) \cup {Est(r, v)}
<1>1. CASE est_sent(r, v)
  BY <1>1 DEF SendEst, est_sent, Elements
<1>2. CASE ~est_sent(r, v)
  BY <1>2, Broadcast, OwnMessages DEF SendEst
<1> QED
  BY <1>1, <1>2

LEMMA SimulateInput ==
  ASSUME IInv, NEW v \in Bits, Input(v)
  PROVE  [Protocol!Next]_(Protocol!vars)
<1>1. 0 \in Round
  BY Constants
<1>2. Elements(sent)' = Elements(sent) \cup {Est(0, v)}
  BY <1>1, EstBroadcast DEF Input
<1>3. Protocol!Input(self, v)
  BY <1>2, OnlyHonest DEF Input, Protocol!Input, Ended
<1> QED
  BY <1>3, OnlyHonest DEF Protocol!Next

LEMMA SimulateSendAux ==
  ASSUME IInv, NEW w \in Bits, SendAux(w)
  PROVE  [Protocol!Next]_(Protocol!vars)
<1>1. round \in Round
  BY DEF SendAux, IInv, PhaseOK
<1>2. Elements(sent)' = Elements(sent) \cup {Aux(round, w)}
  BY <1>1, Broadcast, OwnMessages DEF SendAux
<1>3. Protocol!SendAux(self, w)
  BY <1>2, OnlyHonest DEF SendAux, Protocol!SendAux, Ended
<1> QED
  BY <1>3, OnlyHonest DEF Protocol!Next

LEMMA SimulateCompleteAux ==
  ASSUME IInv, CompleteAux
  PROVE  [Protocol!Next]_(Protocol!vars)
<1>1. round \in Round /\ bin_values[round] \in (SUBSET Bits) \ {{}}
  BY DEF CompleteAux, IInv, PhaseOK, Typed, TypeOK
<1>2. Elements(sent)' = Elements(sent) \cup {Conf(round, bin_values[round])}
  BY <1>1, Broadcast, OwnMessages DEF CompleteAux
<1>3. Protocol!AuxCount(round, bin_values[round], Node) >= Protocol!Quorum
  <2>1. Protocol!Quorum = N - F
    BY SameCardinality DEF Protocol!Quorum, Protocol!N, N
  <2>2. pc = "aux" /\ AuxDone
    BY DEF CompleteAux, Ready
  <2> QED
    BY <2>1, <2>2, AuxBound
<1>4. Protocol!CompleteAux(self, Node)
  BY <1>2, <1>3, OnlyHonest DEF CompleteAux, Protocol!CompleteAux, Ended
<1> QED
  BY <1>4, OnlyHonest DEF Protocol!Next

LEMMA SimulateCompleteConf ==
  ASSUME IInv, NEW vs \in SUBSET Bits, CompleteConf(vs)
  PROVE  [Protocol!Next]_(Protocol!vars)
<1>1. Protocol!ConfReturns(round, bin_values[round], vs, Node)
  BY ConfSimulated DEF CompleteConf
<1>2. Only(values') = [Only(values) EXCEPT ![self][round] = vs]
  BY OnlyHonest DEF CompleteConf, Only
<1>3. Elements(sent)' = Elements(sent)
  BY DEF CompleteConf, Elements
<1>4. Protocol!CompleteConf(self, vs, Node)
  BY <1>1, <1>2, <1>3, OnlyHonest DEF CompleteConf, Protocol!CompleteConf, Ended
<1> QED
  BY <1>4, OnlyHonest DEF Protocol!Next

\* Everybody else may give a share of the coin, and the node has given its own.
LEMMA CoinThere == pc = "coin" => Protocol!CoinAvailable(round)
<1> SUFFICES ASSUME pc = "coin" PROVE Protocol!CoinAvailable(round)
  OBVIOUS
<1>1. Protocol!CoinAskers(round) = {self}
  BY OnlyHonest DEF Protocol!CoinAskers, Protocol!AskedCoin
<1>2. Cardinality({self}) = 1
  BY FS_Singleton
<1>3. Cardinality(Node \ {self}) = N - 1
  BY Constants, FS_RemoveElement DEF N
<1> QED
  BY <1>1, <1>2, <1>3, Constants, SameCardinality DEF Protocol!CoinAvailable

LEMMA SimulateNextRound ==
  ASSUME IInv, NextRound
  PROVE  [Protocol!Next]_(Protocol!vars)
<1> DEFINE vs == values[round]
           s == coin[round]
           e == NewEstimate(vs, s)
<1>1. /\ pc = "coin" /\ ~Abandons(vs, s) /\ est' = e /\ round' = round + 1
      /\ already_decided' = IF Decides(vs, s) THEN s ELSE already_decided
      /\ IF round + 1 \in Round THEN pc' = "bin" /\ SendEst(round + 1, e) ELSE pc' = "beyond" /\ UNCHANGED sent
      /\ UNCHANGED <<vi, bin_values, values, coin, Ended>>
  BY DEF NextRound, Ended
<1>2. round \in Round /\ vs \in (SUBSET Bits) \ {{}} /\ s \in Bits
  <2>1. round \in Round
    BY <1>1 DEF IInv, PhaseOK
  <2>2. values[round] # {}
    BY <1>1, <2>1 DEF IInv, PhaseOK
  <2>3. values \in [Round -> SUBSET Bits] /\ coin \in [Round -> Bits]
    BY Constants DEF IInv, Typed, TypeOK
  <2> QED
    BY <2>1, <2>2, <2>3
<1>3. vs = Bits \/ \E v \in Bits : vs = {v}
  BY <1>2, Constants
<1>4. e \in Bits /\ (vs = Bits => e = s) /\ \A v \in Bits : vs = {v} => e = v
  <2>1. \A v \in Bits : {v} # Bits /\ \A w : w \in {v} <=> w = v
    BY Constants
  <2>2. ASSUME NEW v \in Bits, vs = {v} PROVE e = v
    <3>1. (CHOOSE w \in {v} : TRUE) = v
      OBVIOUS
    <3> QED
      BY <2>1, <2>2, <3>1 DEF NewEstimate
  <2>3. vs = Bits => e = s
    BY DEF NewEstimate
  <2> QED
    BY <1>2, <1>3, <2>2, <2>3
<1>5. Protocol!CoinStep(self)
  BY <1>1, CoinThere, OnlyHonest DEF Protocol!CoinStep
<1> HIDE DEF e
<1>6. Protocol!NextRound(self, e)
  <2>1. Only(pc)' = [Only(pc) EXCEPT ![self] = pc'] /\ Only(est)' = [Only(est) EXCEPT ![self] = e]
    BY <1>1, OnlyHonest DEF Only
  <2>2. Only(round)' = [Only(round) EXCEPT ![self] = @ + 1]
    BY <1>1, OnlyHonest DEF Only
  <2>3. CASE round + 1 \in Round
    <3>1. Elements(sent)' = Elements(sent) \cup {Est(round + 1, e)} /\ pc' = "bin"
      BY <1>1, <1>4, <2>3, EstBroadcast
    <3> QED
      BY <2>1, <2>2, <2>3, <3>1, OnlyHonest DEF Protocol!NextRound
  <2>4. CASE round + 1 \notin Round
    <3>1. Elements(sent)' = Elements(sent) /\ pc' = "beyond"
      <4>1. sent' = sent /\ pc' = "beyond"
        BY <1>1, <2>4
      <4> QED
        BY <4>1 DEF Elements
    <3> QED
      BY <2>1, <2>2, <2>4, <3>1, OnlyHonest DEF Protocol!NextRound
  <2> QED
    BY <2>3, <2>4
<1>7. CASE vs = Bits
  <2>1. already_decided' = already_decided
    <3>1. vs # {s}
      <4>1. 0 \in vs /\ 1 \in vs
        BY <1>7 DEF Bits
      <4>2. ~(0 \in {s} /\ 1 \in {s})
        OBVIOUS
      <4> QED
        BY <4>1, <4>2
    <3> QED
      BY <1>1, <3>1 DEF Decides
  <2>2. Protocol!AdoptCoin(self)
    BY <1>4, <1>5, <1>6, <1>7, <2>1, OnlyHonest DEF Protocol!AdoptCoin
  <2> QED
    BY <2>2, OnlyHonest DEF Protocol!Next
<1>8. CASE \E v \in Bits : vs = {v}
  <2>1. PICK v \in Bits : vs = {v}
    BY <1>8
  <2>2. e = v
    BY <1>4, <2>1
  <2>3. vs = {s} <=> v = s
    BY <2>1
  <2>4. ~(v = s /\ already_decided = v)
    BY <1>1, <2>1 DEF Abandons
  <2>5. already_decided' = IF v = s /\ already_decided = None THEN v ELSE already_decided
    BY <1>1, <2>3 DEF Decides
  <2>6. IF v = s /\ already_decided = None
          THEN Only(already_decided)' = [Only(already_decided) EXCEPT ![self] = v]
          ELSE Only(already_decided)' = Only(already_decided)
    BY <2>5, OnlyHonest DEF Only
  <2>7. Protocol!KeepValue(self, v)
    BY <1>5, <1>6, <2>1, <2>2, <2>4, <2>6, OnlyHonest DEF Protocol!KeepValue
  <2> QED
    BY <2>7, OnlyHonest DEF Protocol!Next
<1> QED
  BY <1>3, <1>7, <1>8, Zenon

LEMMA SimulateQuit ==
  ASSUME IInv, Quit
  PROVE  [Protocol!Next]_(Protocol!vars)
<1> DEFINE v == coin[round]
<1>1. round \in Round /\ v \in Bits
  <2>1. round \in Round
    BY DEF Quit, IInv, PhaseOK
  <2>2. coin \in [Round -> Bits]
    BY Constants DEF IInv, Typed
  <2> QED
    BY <2>1, <2>2
<1>2. pc = "coin" /\ values[round] = {v} /\ already_decided = v
  BY DEF Quit, Abandons
<1>3. Protocol!CoinStep(self)
  BY <1>2, CoinThere, OnlyHonest DEF Quit, Protocol!CoinStep, Ended
<1>4. Elements(sent)' = Elements(sent)
  BY DEF Quit, Elements
<1>5. Protocol!Quit(self, v)
  BY <1>2, <1>3, <1>4, OnlyHonest DEF Quit, Protocol!Quit, Ended
<1> QED
  BY <1>1, <1>5, OnlyHonest DEF Protocol!Next

LEMMA ProtocolNext == IInv /\ [Next]_vars => [Protocol!Next]_(Protocol!vars)
<1> SUFFICES ASSUME IInv, [Next]_vars PROVE [Protocol!Next]_(Protocol!vars)
  OBVIOUS
<1>1. ASSUME NEW m, ReceiveVote(m) PROVE UNCHANGED ProtocolVars
  BY <1>1 DEF ReceiveVote, Arrives, main, ProtocolVars, Elements, Ended
<1>2. Wake \/ Block \/ UNCHANGED vars => UNCHANGED ProtocolVars
  BY DEF Wake, Block, vars, main, ProtocolVars, Elements, Ended
<1> QED
  BY <1>1, <1>2, Unseen, SimulateFailure, SimulateReceiveEst, SimulateInput, SimulateSendAux, SimulateCompleteAux,
     SimulateCompleteConf, SimulateNextRound, SimulateQuit DEF Next, MainStep

\* Two greenlets, one event and a receive greenlet that ends at a message it
\* cannot take do what a node of BinaryAgreement does, whatever the
\* others send.
THEOREM RefinementHolds == Spec => ImplementsProtocol
<1>1. Spec => Protocol!Init /\ [][Protocol!Next]_(Protocol!vars)
  BY ProtocolInit, ProtocolNext, NodeInvariant, PTL DEF Spec
<1> QED
  BY <1>1 DEF ImplementsProtocol, Protocol!Spec
=============================================================================
