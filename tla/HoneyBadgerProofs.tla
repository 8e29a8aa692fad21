------------------------- MODULE HoneyBadgerProofs -------------------------
(***************************************************************************)
(* Proofs about HoneyBadger for every number of nodes and rounds, every    *)
(* set of faulty nodes that leaves one of N - F honest, everything they    *)
(* propose and send, and everything clients submit.                        *)
(***************************************************************************)
EXTENDS HoneyBadger, FiniteSetTheorems, WellFoundedInduction, TLAPS

Block(b) == Ledger!Contents(b)

Typed ==
    /\ pc \in [Honest -> {"start", "acs", "shares", "finished", "failed"}]
    /\ round \in [Honest -> 0..MaxRound]
    /\ listener \in [Honest -> {"up", "failed"}]
    /\ buffer \in [Honest -> Seq(Tx)]
    /\ queues \in [Honest -> [Round -> Seq(Msg) \cup {None}]]
    /\ receiver \in [Honest -> [Round -> {"none", "up", "failed"}]]
    /\ tpke \in [Honest -> [Round -> Seq(Msg)]]
    /\ received \in [Honest -> SUBSET Msg]
    /\ proposal \in [Round -> [Node -> Proposal \cup {None}]]
    /\ subset \in [Round -> [Node -> Proposal \cup {None}]]
    /\ net \in [Honest -> SUBSET Msg]

\* What honest nodes send says nothing before the subset of its round is fixed.
Sound(m) == m.from \in Honest => m.round \in Round /\ m.tag = "TPKE" /\ m.valid = Node /\ subset[m.round] # Nothing

Queued ==
    /\ \A n \in Honest : \A m \in net[n] : Sound(m)
    /\ \A n \in Honest : \A m \in received[n] : Sound(m)
    /\ \A n \in Honest, r \in Round : queues[n][r] # None =>
          \A m \in Elements(queues[n][r]) : Sound(m) /\ m.round = r
    /\ \A n \in Honest, r \in Round :
          \A m \in Elements(tpke[n][r]) : Sound(m) /\ m.round = r /\ m.tag = "TPKE"
    /\ \A n \in Honest : pc[n] \in {"acs", "shares"} => \A m \in received[n] : m.round = round[n]

\* Which queues and proposals there are, by the progress of their node.
Opened ==
    /\ \A n \in Honest : pc[n] # "finished" => round[n] \in Round
    /\ \A n \in Honest, r \in Round :
          queues[n][r] = None => r > round[n] \/ (r = round[n] /\ pc[n] = "start")
    /\ \A n \in Honest, r \in Round : receiver[n][r] # "none" => queues[n][r] # None
    /\ \A n \in Honest, r \in Round :
          r > round[n] \/ (r = round[n] /\ pc[n] = "start") => proposal[r][n] = None

\* Everything an honest node proposes comes from its clients.
FromClients ==
    /\ \A n \in Honest : Elements(buffer[n]) \subseteq Clients[n]
    /\ \A r \in Round, n \in Honest : proposal[r][n] \in Clients[n] \cup {None}

\* Subsets are fixed one after the other, none after a node has passed it.
Fixed ==
    /\ \A r \in Round : subset[r] # Nothing =>
          /\ Cardinality(Chosen(r)) >= N - F
          /\ \A j \in Honest : subset[r][j] \in Clients[j] \cup {None}
          /\ \A s \in Round : s < r => subset[s] # Nothing
    /\ \A n \in Honest, r \in Round :
          r < round[n] \/ (r = round[n] /\ pc[n] = "shares") => subset[r] # Nothing
    /\ blocks = [n \in Honest |-> [i \in 1..round[n] |-> Block(subset[i - 1])]]

IInv == Typed /\ Queued /\ Opened /\ FromClients /\ Fixed /\ FailureHasCause
-----------------------------------------------------------------------------
\* Numbers

LEMMA Least ==
  ASSUME NEW S \in SUBSET Nat, S # {}
  PROVE  \E m \in S : \A k \in S : m <= k
<1> DEFINE Less == {p \in Nat \X Nat : p[1] < p[2]}
<1>1. IsWellFoundedOn(Less, Nat)
  BY NatLessThanWellFounded DEF OpToRel
<1>2. \A k, m \in S : <<k, m>> \in Less <=> k < m
  OBVIOUS
<1> HIDE DEF Less
<1>3. PICK m \in S : \A k \in S : ~ (<<k, m>> \in Less)
  BY <1>1, WFMin
<1>4. \A k \in S : k \in Nat /\ m \in Nat /\ ~(k < m)
  BY <1>2, <1>3
<1>5. \A k \in S : m <= k
  BY <1>4
<1> QED
  BY <1>5

\* The i-th smallest element of a finite set of numbers is one of them.
LEMMA Enumerated ==
  ASSUME NEW L \in Nat, NEW S, S \subseteq 0..L, NEW i \in 1..Cardinality(S)
  PROVE  InOrder(S)[i] \in S
<1> DEFINE upto(m) == {k \in S : k <= m}
           T == {m \in Nat : Cardinality(upto(m)) >= i}
<1>1. IsFiniteSet(S) /\ Cardinality(S) \in Nat /\ i \in Nat /\ i >= 1 /\ i <= Cardinality(S)
  <2>1. IsFiniteSet(0..L)
    BY FS_Interval
  <2>2. IsFiniteSet(S) /\ Cardinality(S) \in Nat
    BY <2>1, FS_Subset, FS_CardinalityType
  <2> QED
    BY <2>2
<1>2. \A k \in S : k \in Nat /\ k <= L
  OBVIOUS
<1>3. \A m : IsFiniteSet(upto(m)) /\ Cardinality(upto(m)) \in Nat
  BY <1>1, FS_Subset, FS_CardinalityType
<1>4. PICK m \in Nat : m \in T /\ \A k \in Nat : k < m => k \notin T
  <2>1. upto(L) = S
    BY <1>2
  <2>2. L \in T
    BY <2>1, <1>1
  <2>3. PICK m \in T : \A k \in T : m <= k
    BY <2>2, Least
  <2>4. m \in Nat
    BY <2>3
  <2>5. \A k \in Nat : k < m => k \notin T
    <3> HIDE DEF T
    <3> QED
      BY <2>3, <2>4
  <2> HIDE DEF T
  <2> QED
    BY <2>3, <2>4, <2>5
<1>5. Cardinality(upto(m)) >= i
  BY <1>4
<1>6. Cardinality(upto(m - 1)) < i
  <2>1. CASE m = 0
    <3>1. \A k \in S : ~(k <= m - 1)
      BY <1>2, <2>1
    <3>2. upto(m - 1) = {}
      BY <3>1
    <3> QED
      BY <3>2, FS_EmptySet, <1>1
  <2>2. CASE m # 0
    <3>1. m - 1 \in Nat /\ m - 1 < m
      BY <2>2
    <3>2. m - 1 \notin T
      BY <3>1, <1>4
    <3>3. ~(Cardinality(upto(m - 1)) >= i)
      BY <3>1, <3>2
    <3>4. Cardinality(upto(m - 1)) \in Nat
      BY <1>3
    <3> HIDE DEF upto, T
    <3> QED
      BY <3>3, <3>4, <1>1
  <2> QED
    BY <2>1, <2>2
<1>7. \A k \in S : k <= m <=> k <= m - 1 \/ k = m
  BY <1>2
<1>8. m \in S
  <2>1. m \notin S => upto(m) = upto(m - 1)
    BY <1>7
  <2> QED
    BY <2>1, <1>1, <1>3, <1>5, <1>6
<1>9. upto(m) = upto(m - 1) \cup {m}
  BY <1>7, <1>8
<1> HIDE DEF upto, T
<1>10. Cardinality(upto(m)) <= Cardinality(upto(m - 1)) + 1
  BY <1>3, <1>9, FS_AddElement
<1>11. Cardinality(upto(m)) = i
  BY <1>1, <1>3, <1>5, <1>6, <1>10
<1>12. InOrder(S)[i] = CHOOSE j \in S : Cardinality(upto(j)) = i
  BY DEF InOrder, upto
<1> QED
  BY <1>8, <1>11, <1>12
-----------------------------------------------------------------------------
LEMMA Constants ==
  /\ N \in Nat /\ F \in Nat /\ F < N /\ MaxRound \in Nat /\ MaxRound > 0
  /\ Honest \subseteq Node /\ Round = 0..(MaxRound - 1) /\ Node = 0..(N - 1)
  /\ \A n \in Honest : Clients[n] \subseteq Tx
  /\ FaultyMsg \in [Honest -> SUBSET Msg] /\ \A n \in Honest : \A m \in FaultyMsg[n] : m.from \notin Honest
  /\ None \notin Proposal /\ None \notin Seq(Msg) /\ Malformed \in Proposal /\ Tx \subseteq Proposal
  /\ \A m \in Msg : m.round \in Round \cup {BadRound} /\ m.from \in Node
  /\ Undecryptable \in Proposal
  /\ Nothing \in [Node -> Proposal \cup {None}] /\ \A j \in Node : Nothing[j] = None
<1>1. FaultyMsg \in [Honest -> SUBSET Msg] /\ \A n \in Honest : \A m \in FaultyMsg[n] : m.from \notin Honest
  BY HoneyBadgerAssumption DEF Honest
<1>2. N \in Nat /\ F \in Nat /\ F < N /\ MaxRound \in Nat /\ MaxRound > 0 /\ \A n \in Honest : Clients[n] \subseteq Tx
  BY HoneyBadgerAssumption
<1>3. \A m \in Msg : m.round \in Round \cup {BadRound} /\ m.from \in Node
  BY DEF Msg
<1> QED
  BY <1>1, <1>2, <1>3, HoneyBadgerAssumption DEF Honest, Round, Node, Proposal, Nothing

\* What a queue holds after something was put at its end or taken from its front.
LEMMA Queues ==
  ASSUME NEW S, NEW s \in Seq(S)
  PROVE  /\ \A x \in S : Append(s, x) \in Seq(S) /\ Elements(Append(s, x)) = Elements(s) \cup {x}
         /\ s # <<>> => Head(s) \in S /\ Head(s) \in Elements(s) /\ Tail(s) \in Seq(S) /\ Elements(Tail(s)) \subseteq Elements(s)
         /\ Elements(s) \subseteq S
<1>1. ASSUME NEW x \in S PROVE Append(s, x) \in Seq(S) /\ Elements(Append(s, x)) = Elements(s) \cup {x}
  <2> DEFINE t == Append(s, x)
             L == Len(s)
  <2>1. t \in Seq(S) /\ L \in Nat /\ DOMAIN s = 1..L /\ DOMAIN t = 1..(L + 1)
    OBVIOUS
  <2>2. (\A i \in 1..L : t[i] = s[i]) /\ t[L + 1] = x
    OBVIOUS
  <2>3. \A i \in 1..(L + 1) : i \in 1..L \/ i = L + 1
    BY <2>1
  <2>4. (\A i \in 1..L : i \in 1..(L + 1)) /\ L + 1 \in 1..(L + 1)
    BY <2>1
  <2> HIDE DEF t, L
  <2>5. Elements(t) = Elements(s) \cup {x}
    BY <2>1, <2>2, <2>3, <2>4 DEF Elements
  <2> QED
    BY <2>1, <2>5 DEF t
<1>2. ASSUME s # <<>>
      PROVE  Head(s) \in S /\ Head(s) \in Elements(s) /\ Tail(s) \in Seq(S) /\ Elements(Tail(s)) \subseteq Elements(s)
  <2>1. Len(s) \in Nat /\ Len(s) > 0 /\ DOMAIN s = 1..Len(s) /\ Head(s) = s[1]
    BY <1>2
  <2>2. Tail(s) \in Seq(S) /\ Len(Tail(s)) = Len(s) - 1 /\ \A i \in 1..(Len(s) - 1) : Tail(s)[i] = s[i + 1]
    BY <1>2
  <2>3. DOMAIN Tail(s) = 1..(Len(s) - 1) /\ \A i \in 1..(Len(s) - 1) : i + 1 \in DOMAIN s
    BY <2>1, <2>2
  <2>4. 1 \in DOMAIN s
    BY <2>1
  <2> QED
    BY <2>1, <2>2, <2>3, <2>4 DEF Elements
<1>3. Elements(s) \subseteq S
  BY DEF Elements
<1> QED
  BY <1>1, <1>2, <1>3

LEMMA Empty == Elements(<<>>) = {}
  BY DEF Elements

LEMMA InitInvariant == Init => IInv
<1> SUFFICES ASSUME Init PROVE IInv
  OBVIOUS
<1> USE Constants DEF Init
<1>1. Typed
  <2>1. <<>> \in Seq(Tx) /\ <<>> \in Seq(Msg) /\ 0 \in 0..MaxRound
    OBVIOUS
  <2>2. proposal \in [Round -> [Node -> Proposal \cup {None}]] /\ subset \in [Round -> [Node -> Proposal \cup {None}]]
    OBVIOUS
  <2> QED
    BY <2>1, <2>2 DEF Typed
<1>2. Queued
  BY Empty DEF Queued, Sound
<1>3. Opened
  BY DEF Opened, Nothing
<1>4. FromClients
  BY Empty DEF FromClients, Nothing
<1>5. Fixed
  <2>1. [i \in 1..0 |-> Block(subset[i - 1])] = <<>>
    OBVIOUS
  <2> QED
    BY <2>1 DEF Fixed
<1>6. FailureHasCause
  BY DEF FailureHasCause
<1> QED
  BY <1>1, <1>2, <1>3, <1>4, <1>5, <1>6 DEF IInv

LEMMA SubmitInvariant == ASSUME IInv, NEW n \in Honest, NEW t \in Tx, Submit(n, t) PROVE IInv'
<1> USE DEF Submit
<1>1. buffer[n] \in Seq(Tx) /\ t \in Clients[n]
  BY DEF IInv, Typed
<1>2. buffer' \in [Honest -> Seq(Tx)]
  BY <1>1, Queues DEF IInv, Typed
<1>3. Typed'
  BY <1>2 DEF IInv, Typed
<1>4. Queued' /\ Opened' /\ FailureHasCause'
  BY DEF IInv, Queued, Sound, Opened, FailureHasCause, Chosen
<1>5. FromClients'
  <2>1. \A q \in Honest : buffer'[q] = IF q = n THEN Append(buffer[n], t) ELSE buffer[q]
    BY DEF IInv, Typed
  <2>2. Elements(Append(buffer[n], t)) = Elements(buffer[n]) \cup {t}
    BY <1>1, Queues
  <2> QED
    BY <1>1, <2>1, <2>2 DEF IInv, FromClients
<1>6. Fixed'
  BY DEF IInv, Fixed, Chosen
<1> QED
  BY <1>3, <1>4, <1>5, <1>6 DEF IInv

\* The assertion on the round holds for the messages of the rounds, and for no others.
LEMMA RoundsAccepted ==
  ASSUME IInv, NEW n \in Honest, NEW m \in Msg
  PROVE  Accepted(n, m) <=> m.round \in Round
<1>1. round[n] \in 0..MaxRound /\ m.round \in Round \cup {BadRound}
  BY Constants DEF IInv, Typed
<1>2. ASSUME m.round \in Round PROVE Accepted(n, m)
  <2>1. queues[n][m.round] = None => m.round > round[n] \/ m.round = round[n]
    BY <1>2 DEF IInv, Opened
  <2>2. m.round > round[n] \/ m.round = round[n] => m.round >= round[n]
    BY <1>1, <1>2, Constants
  <2> QED
    BY <1>2, <2>1, <2>2 DEF Accepted
<1>3. ASSUME m.round = BadRound PROVE ~Accepted(n, m)
  <2>1. m.round \notin Round
    BY <1>3, Constants DEF BadRound
  <2>2. ~(m.round >= round[n])
    BY <1>1, <1>3, Constants DEF BadRound
  <2> QED
    BY <2>1, <2>2 DEF Accepted
<1> QED
  BY <1>1, <1>2, <1>3

LEMMA RefuseInvariant == ASSUME IInv, NEW n \in Honest, NEW m \in net[n], Refuse(n, m) PROVE IInv'
<1> USE DEF Refuse
<1>1. \A q \in Honest : net'[q] \subseteq net[q]
  BY DEF IInv, Typed
<1>2. Typed'
  BY DEF IInv, Typed
<1>3. Queued'
  BY <1>1 DEF IInv, Queued, Sound
<1>4. Opened' /\ FromClients'
  BY DEF IInv, Opened, FromClients
<1>5. Fixed'
  BY DEF IInv, Fixed, Chosen
<1>6. FailureHasCause'
  BY DEF IInv, FailureHasCause, Chosen
<1> QED
  BY <1>2, <1>3, <1>4, <1>5, <1>6 DEF IInv

LEMMA DeliverInvariant == ASSUME IInv, NEW n \in Honest, NEW m \in net[n], Deliver(n, m) PROVE IInv'
<1>1. m \in Msg /\ m.round \in Round /\ Sound(m)
  <2>1. m \in Msg /\ Sound(m) /\ Accepted(n, m)
    BY DEF Deliver, IInv, Typed, Queued
  <2> QED
    BY <2>1, RoundsAccepted
<1> USE DEF Deliver
<1> DEFINE old == queues[n][m.round]
           new == IF old = None THEN <<m>> ELSE Append(old, m)
<1>2. old \in Seq(Msg) \cup {None}
  BY <1>1 DEF IInv, Typed
<1>3. new \in Seq(Msg) /\ new # None /\ Elements(new) = (IF old = None THEN {} ELSE Elements(old)) \cup {m}
  <2>1. <<m>> \in Seq(Msg) /\ Elements(<<m>>) = {m}
    BY <1>1 DEF Elements
  <2>2. CASE old = None
    <3> QED
      BY <2>1, <2>2, Constants
  <2>3. CASE old # None
    <3>1. old \in Seq(Msg)
      BY <1>2, <2>3
    <3>2. Append(old, m) \in Seq(Msg) /\ Elements(Append(old, m)) = Elements(old) \cup {m}
      BY <3>1, <1>1, Queues
    <3> HIDE DEF old
    <3> QED
      BY <2>3, <3>2, Constants
  <2> QED
    BY <2>2, <2>3
<1>4. \A q \in Honest, r \in Round : queues'[q][r] = IF q = n /\ r = m.round THEN new ELSE queues[q][r]
  BY <1>1 DEF IInv, Typed
<1> HIDE DEF old, new
<1>5. Typed'
  <2>1. queues' \in [Honest -> [Round -> Seq(Msg) \cup {None}]]
    BY <1>1, <1>3 DEF IInv, Typed, old, new
  <2>2. net' \in [Honest -> SUBSET Msg]
    BY DEF IInv, Typed
  <2> QED
    BY <2>1, <2>2 DEF IInv, Typed
<1>6. Queued'
  <2>1. \A x : Sound(x)' <=> Sound(x)
    BY DEF Sound
  <2>2. \A q \in Honest : net'[q] \subseteq net[q]
    BY DEF IInv, Typed
  <2>3. \A q \in Honest, r \in Round : queues'[q][r] # None =>
          \A x \in Elements(queues'[q][r]) : Sound(x) /\ x.round = r
    BY <1>1, <1>3, <1>4 DEF IInv, Queued, old
  <2> QED
    BY <2>1, <2>2, <2>3 DEF IInv, Queued
<1>7. Opened'
  <2>1. new # None
    BY <1>3
  <2> HIDE DEF Deliver
  <2>2. ASSUME NEW q \in Honest, NEW r \in Round, queues'[q][r] = None PROVE queues[q][r] = None
    BY <1>4, <2>1, <2>2
  <2> USE DEF Deliver
  <2> QED
    BY <2>2 DEF IInv, Opened
<1>8. FromClients' /\ Fixed' /\ FailureHasCause'
  BY ZenonT(60) DEF IInv, FromClients, Fixed, FailureHasCause, Chosen
<1> QED
  BY <1>5, <1>6, <1>7, <1>8 DEF IInv

LEMMA RouteInvariant == ASSUME IInv, NEW n \in Honest, NEW r \in Round, Route(n, r) PROVE IInv'
<1> USE DEF Route
<1> DEFINE old == queues[n][r]
           m == Head(old)
<1>1. old \in Seq(Msg) \cup {None} /\ tpke[n][r] \in Seq(Msg)
  BY DEF IInv, Typed
<1>2. old # None
  <2>1. receiver[n][r] = "up"
    OBVIOUS
  <2> QED
    BY <2>1 DEF IInv, Opened
<1>3. m \in Msg /\ m \in Elements(old) /\ Tail(old) \in Seq(Msg) /\ Elements(Tail(old)) \subseteq Elements(old) /\ Tail(old) # None
  <2>1. old \in Seq(Msg) /\ old # <<>>
    BY <1>1, <1>2
  <2> HIDE DEF Route, old
  <2>2. Head(old) \in Msg /\ Head(old) \in Elements(old) /\ Tail(old) \in Seq(Msg) /\ Elements(Tail(old)) \subseteq Elements(old)
    BY <2>1, Queues
  <2> QED
    BY <2>2, Constants
<1>4. Sound(m) /\ m.round = r
  BY <1>2, <1>3 DEF IInv, Queued
<1>5. Append(tpke[n][r], m) \in Seq(Msg) /\ Elements(Append(tpke[n][r], m)) = Elements(tpke[n][r]) \cup {m}
  BY <1>1, <1>3, Queues
<1>6. \A q \in Honest, s \in Round : queues'[q][s] = IF q = n /\ s = r THEN Tail(old) ELSE queues[q][s]
  BY DEF IInv, Typed
<1>7. \A q \in Honest, s \in Round :
        tpke'[q][s] = tpke[q][s] \/ (q = n /\ s = r /\ m.tag = "TPKE" /\ tpke'[q][s] = Append(tpke[n][r], m))
  BY DEF IInv, Typed
<1>8. Typed'
  <2>1. queues' \in [Honest -> [Round -> Seq(Msg) \cup {None}]]
    BY <1>3 DEF IInv, Typed
  <2>2. tpke' = tpke \/ tpke' = [tpke EXCEPT ![n][r] = Append(tpke[n][r], m)]
    OBVIOUS
  <2>3. receiver' = receiver \/ receiver' = [receiver EXCEPT ![n][r] = "failed"]
    OBVIOUS
  <2>4. tpke' \in [Honest -> [Round -> Seq(Msg)]]
    <3> HIDE DEF Route, m
    <3>1. tpke \in [Honest -> [Round -> Seq(Msg)]]
      BY DEF IInv, Typed
    <3>2. CASE tpke' = tpke
      BY <3>1, <3>2
    <3>3. CASE tpke' = [tpke EXCEPT ![n][r] = Append(tpke[n][r], m)]
      <4> DEFINE new == Append(tpke[n][r], m)
      <4>1. new \in Seq(Msg)
        BY <1>5
      <4> HIDE DEF new
      <4>2. tpke' = [tpke EXCEPT ![n][r] = new]
        BY <3>3 DEF new
      <4> QED
        BY <3>1, <4>1, <4>2
    <3> QED
      BY <2>2, <3>2, <3>3
  <2>5. receiver' \in [Honest -> [Round -> {"none", "up", "failed"}]]
    <3> HIDE DEF Route, m
    <3>1. receiver \in [Honest -> [Round -> {"none", "up", "failed"}]]
      BY DEF IInv, Typed
    <3> QED
      BY <2>3, <3>1
  <2> QED
    BY <2>1, <2>4, <2>5 DEF IInv, Typed
<1>12. \A q \in Honest, s \in Round : receiver'[q][s] = receiver[q][s] \/ receiver[q][s] = "up"
  <2>1. receiver[n][r] = "up" /\ (receiver' = receiver \/ receiver' = [receiver EXCEPT ![n][r] = "failed"])
    OBVIOUS
  <2> HIDE DEF Route
  <2>2. receiver \in [Honest -> [Round -> {"none", "up", "failed"}]]
    BY DEF IInv, Typed
  <2>3. CASE receiver' = receiver
    BY <2>3
  <2>4. CASE receiver' = [receiver EXCEPT ![n][r] = "failed"]
    BY <2>1, <2>2, <2>4
  <2> QED
    BY <2>1, <2>3, <2>4
<1> HIDE DEF old, m
<1>9. Queued'
  <2>1. \A x : Sound(x)' <=> Sound(x)
    BY DEF Sound
  <2>2. \A q \in Honest, s \in Round : queues'[q][s] # None =>
          \A x \in Elements(queues'[q][s]) : Sound(x) /\ x.round = s
    BY <1>2, <1>3, <1>6 DEF IInv, Queued, old
  <2>3. \A q \in Honest, s \in Round : \A x \in Elements(tpke'[q][s]) : Sound(x) /\ x.round = s /\ x.tag = "TPKE"
    <3> HIDE DEF Route
    <3>1. \A x \in Elements(Append(tpke[n][r], m)) : Sound(x) /\ x.round = r /\ (m.tag = "TPKE" => x.tag = "TPKE")
      BY <1>4, <1>5 DEF IInv, Queued
    <3>2. \A q \in Honest, s \in Round : \A x \in Elements(tpke[q][s]) : Sound(x) /\ x.round = s /\ x.tag = "TPKE"
      BY DEF IInv, Queued
    <3>3. ASSUME NEW q \in Honest, NEW s \in Round, NEW x \in Elements(tpke'[q][s])
          PROVE  Sound(x) /\ x.round = s /\ x.tag = "TPKE"
      <4>1. CASE tpke'[q][s] = tpke[q][s]
        BY <3>2, <3>3, <4>1
      <4>2. CASE q = n /\ s = r /\ m.tag = "TPKE" /\ tpke'[q][s] = Append(tpke[n][r], m)
        BY <3>1, <3>3, <4>2
      <4> QED
        BY <1>7, <4>1, <4>2
    <3> QED
      BY <3>3
  <2> QED
    BY <2>1, <2>2, <2>3 DEF IInv, Queued
<1>10. Opened'
  <2>1. Tail(old) # None
    BY <1>3
  <2>2. ASSUME NEW q \in Honest, NEW s \in Round, queues'[q][s] = None PROVE queues[q][s] = None
    <3> HIDE DEF Route
    <3> QED
      BY <1>6, <2>1, <2>2
  <2> QED
    BY <1>12, <2>2 DEF IInv, Opened
<1>11. FromClients' /\ Fixed' /\ FailureHasCause'
  <2>1. UNCHANGED <<pc, round, buffer, received, blocks, proposal, subset>>
    OBVIOUS
  <2> HIDE DEF Route
  <2> QED
    BY <2>1, ZenonT(60) DEF IInv, FromClients, Fixed, FailureHasCause, Chosen
<1> QED
  BY <1>8, <1>9, <1>10, <1>11 DEF IInv

\* A round begins with its queue.
LEMMA QueueOpened ==
  ASSUME IInv, NEW n \in Honest, pc[n] = "start", queues' = OpenQueue(n)
  PROVE  /\ round[n] \in Round
         /\ queues' \in [Honest -> [Round -> Seq(Msg) \cup {None}]]
         /\ queues'[n][round[n]] # None
         /\ \A q \in Honest, r \in Round :
              queues'[q][r] = queues[q][r] \/ (q = n /\ r = round[n] /\ queues'[q][r] = <<>>)
<1> DEFINE old == queues[n][round[n]]
<1>1. round[n] \in Round /\ old \in Seq(Msg) \cup {None}
  BY DEF IInv, Opened, Typed
<1>2. <<>> \in Seq(Msg) /\ <<>> # None
  <2>1. <<>> \in Seq(Msg)
    OBVIOUS
  <2> QED
    BY <2>1, Constants
<1>3. queues' = [queues EXCEPT ![n][round[n]] = IF old = None THEN <<>> ELSE old]
  BY DEF OpenQueue
<1> HIDE DEF old
<1>4. queues' \in [Honest -> [Round -> Seq(Msg) \cup {None}]]
  BY <1>1, <1>2, <1>3 DEF IInv, Typed
<1>5. \A q \in Honest, r \in Round :
        queues'[q][r] = IF q = n /\ r = round[n] THEN (IF old = None THEN <<>> ELSE old) ELSE queues[q][r]
  BY <1>1, <1>3 DEF IInv, Typed
<1>6. queues'[n][round[n]] # None
  BY <1>1, <1>2, <1>5
<1> QED
  BY <1>1, <1>4, <1>5, <1>6 DEF old

LEMMA QueueKept ==
  ASSUME IInv, NEW n \in Honest, pc[n] = "start", queues' = OpenQueue(n),
         NEW q \in Honest, NEW r \in Round, queues'[q][r] = None
  PROVE  queues[q][r] = None /\ ~(q = n /\ r = round[n])
<1>1. <<>> # None
  <2>1. <<>> \in Seq(Msg)
    OBVIOUS
  <2> QED
    BY <2>1, Constants
<1> QED
  BY <1>1, QueueOpened

LEMMA ToProposeSubmitted ==
  ASSUME IInv, NEW n \in Honest, Selected(n) # <<>>
  PROVE  ToPropose(n) \in Clients[n]
<1> DEFINE k == IF Len(buffer[n]) < B THEN Len(buffer[n]) ELSE B
<1>1. buffer[n] \in Seq(Tx) /\ B \in Nat /\ B > 0
  BY HoneyBadgerAssumption DEF IInv, Typed
<1>2. k \in Nat /\ k <= Len(buffer[n]) /\ Len(buffer[n]) \in Nat
  BY <1>1
<1>3. Selected(n) = SubSeq(buffer[n], 1, k)
  BY DEF Selected
<1>4. k >= 1
  BY <1>1, <1>2, <1>3
<1> HIDE DEF k
<1>5. Selected(n)[1] = buffer[n][1] /\ 1 \in DOMAIN buffer[n]
  BY <1>1, <1>2, <1>3, <1>4
<1>6. Elements(buffer[n]) \subseteq Clients[n]
  BY DEF IInv, FromClients
<1> QED
  BY <1>5, <1>6 DEF ToPropose, Elements

LEMMA StartRoundInvariant == ASSUME IInv, NEW n \in Honest, StartRound(n) PROVE IInv'
<1> USE DEF StartRound
<1>1. round[n] \in Round /\ n \in Node /\ ToPropose(n) \in Clients[n] /\ ToPropose(n) \in Proposal
  BY QueueOpened, ToProposeSubmitted, Constants
<1>2. \A q \in Honest : pc'[q] = IF q = n THEN "acs" ELSE pc[q]
  BY DEF IInv, Typed
<1>3. \A r \in Round, j \in Node :
        proposal'[r][j] = IF r = round[n] /\ j = n THEN ToPropose(n) ELSE proposal[r][j]
  BY <1>1 DEF IInv, Typed
<1>4. \A q \in Honest : received'[q] = IF q = n THEN {} ELSE received[q]
  BY DEF IInv, Typed
<1>5. Typed'
  <2>1. proposal' \in [Round -> [Node -> Proposal \cup {None}]]
    BY <1>1 DEF IInv, Typed
  <2>2. receiver' \in [Honest -> [Round -> {"none", "up", "failed"}]]
    BY <1>1 DEF IInv, Typed
  <2> QED
    BY <2>1, <2>2, QueueOpened DEF IInv, Typed
<1>6. Queued'
  <2>1. \A x : Sound(x)' <=> Sound(x)
    BY DEF Sound
  <2>2. \A q \in Honest, r \in Round : queues'[q][r] # None =>
          \A x \in Elements(queues'[q][r]) : Sound(x) /\ x.round = r
    BY QueueOpened, Empty DEF IInv, Queued
  <2> QED
    BY <1>2, <1>4, <2>1, <2>2 DEF IInv, Queued
<1>7. Opened'
  <2>1. \A q \in Honest, r \in Round : queues'[q][r] = None => queues[q][r] = None /\ ~(q = n /\ r = round[n])
    BY QueueKept
  <2>2. \A q \in Honest, r \in Round : receiver'[q][r] = receiver[q][r] \/ (q = n /\ r = round[n])
    BY <1>1 DEF IInv, Typed
  <2>3. round' = round
    OBVIOUS
  <2> HIDE DEF StartRound
  <2>4. \A q \in Honest, r \in Round : receiver'[q][r] # "none" => queues'[q][r] # None
    BY <2>1, <2>2 DEF IInv, Opened
  <2>5. \A q \in Honest : round[q] \in 0..MaxRound
    BY DEF IInv, Typed
  <2>6. \A q \in Honest : pc'[q] # "finished" => round[q] \in Round
    BY <1>1, <1>2 DEF IInv, Opened
  <2>7. \A q \in Honest, r \in Round : queues'[q][r] = None => r > round[q] \/ (r = round[q] /\ pc'[q] = "start")
    BY <1>2, <2>1 DEF IInv, Opened
  <2>8. ASSUME NEW q \in Honest, NEW r \in Round, r > round[q] \/ (r = round[q] /\ pc'[q] = "start")
        PROVE  proposal'[r][q] = None
    <3>1. ~(r = round[n] /\ q = n)
      BY <1>1, <1>2, <2>5, <2>8, Constants
    <3>2. proposal'[r][q] = proposal[r][q]
      BY <1>3, <3>1, Constants
    <3>3. pc'[q] = "start" => pc[q] = "start"
      BY <1>2
    <3> QED
      BY <2>8, <3>2, <3>3 DEF IInv, Opened
  <2> QED
    BY <2>3, <2>4, <2>6, <2>7, <2>8 DEF Opened
<1>8. FromClients'
  BY <1>1, <1>3, Constants DEF IInv, FromClients
<1>9. Fixed'
  <2>1. UNCHANGED <<round, blocks, subset>> /\ \A q \in Honest : pc'[q] = "shares" => pc[q] = "shares"
    BY <1>2
  <2> HIDE DEF StartRound
  <2> QED
    BY <2>1 DEF IInv, Fixed, Chosen
<1>10. FailureHasCause'
  <2> SUFFICES ASSUME NEW q \in Honest, pc'[q] = "failed"
               PROVE  \/ proposal'[round[q]][q] = None
                      \/ Malformed \in Elements(subset[round[q]])
                      \/ Undecryptable \in Elements(subset[round[q]])
                      \/ \E m \in received'[q] : m.from \in Faulty /\ m.round = round[q] /\ ~(Chosen(round[q]) \subseteq m.valid)
    BY DEF FailureHasCause, Chosen
  <2>1. q # n /\ pc[q] = "failed" /\ received'[q] = received[q]
    BY <1>2, <1>4
  <2>2. round[q] \in Round
    BY <2>1 DEF IInv, Opened
  <2>3. proposal'[round[q]][q] = proposal[round[q]][q]
    BY <1>3, <2>1, <2>2, Constants
  <2> QED
    BY <2>1, <2>3 DEF IInv, FailureHasCause
<1> QED
  BY <1>5, <1>6, <1>7, <1>8, <1>9, <1>10 DEF IInv

LEMMA NothingToSendInvariant == ASSUME IInv, NEW n \in Honest, NothingToSend(n) PROVE IInv'
<1> USE DEF NothingToSend
<1>1. \A q \in Honest : pc'[q] = IF q = n THEN "failed" ELSE pc[q]
  BY DEF IInv, Typed
<1>2. Typed'
  BY QueueOpened DEF IInv, Typed
<1>3. Queued'
  <2>1. \A x : Sound(x)' <=> Sound(x)
    BY DEF Sound
  <2>2. \A q \in Honest, r \in Round : queues'[q][r] # None =>
          \A x \in Elements(queues'[q][r]) : Sound(x) /\ x.round = r
    BY QueueOpened, Empty DEF IInv, Queued
  <2> QED
    BY <1>1, <2>1, <2>2 DEF IInv, Queued
<1>4. Opened'
  <2>1. \A q \in Honest, r \in Round : queues'[q][r] = None => queues[q][r] = None /\ ~(q = n /\ r = round[n])
    BY QueueKept
  <2>2. UNCHANGED <<round, receiver, proposal>> /\ pc[n] = "start"
    OBVIOUS
  <2> HIDE DEF NothingToSend
  <2>3. \A q \in Honest : pc'[q] # "finished" => round[q] \in Round
    BY <1>1, <2>2 DEF IInv, Opened
  <2>4. \A q \in Honest, r \in Round : queues'[q][r] = None => r > round[q] \/ (r = round[q] /\ pc'[q] = "start")
    BY <1>1, <2>1 DEF IInv, Opened
  <2>5. \A q \in Honest, r \in Round : receiver[q][r] # "none" => queues'[q][r] # None
    BY <2>1 DEF IInv, Opened
  <2>6. \A q \in Honest, r \in Round : r > round[q] \/ (r = round[q] /\ pc'[q] = "start") => proposal[r][q] = None
    BY <1>1 DEF IInv, Opened
  <2> QED
    BY <2>2, <2>3, <2>4, <2>5, <2>6 DEF Opened
<1>5. FromClients' /\ Fixed'
  <2>1. UNCHANGED <<round, buffer, blocks, proposal, subset>> /\ \A q \in Honest : pc'[q] = "shares" => pc[q] = "shares"
    BY <1>1
  <2> HIDE DEF NothingToSend
  <2> QED
    BY <2>1 DEF IInv, FromClients, Fixed, Chosen
<1>6. FailureHasCause'
  <2>1. proposal[round[n]][n] = None
    BY DEF IInv, Opened
  <2> QED
    BY <1>1, <2>1 DEF IInv, FailureHasCause, Chosen
<1> QED
  BY <1>2, <1>3, <1>4, <1>5, <1>6 DEF IInv
\* Something of the round is chosen, so its subset is fixed.
LEMMA ChosenFixed ==
  ASSUME NEW r \in Round, NEW x \in Chosen(r)
  PROVE  subset[r] # Nothing
  BY DEF Chosen, Nothing

\* The subset of a round after the common subset has returned at a node.
LEMMA AcsReturns ==
  ASSUME IInv, NEW n \in Honest, AcsOutput(n), NEW r \in Round, r = round[n]
  PROVE  /\ subset' \in [Round -> [Node -> Proposal \cup {None}]]
         /\ subset'[r] # Nothing
         /\ Cardinality(Chosen(r)') >= N - F
         /\ \A j \in Honest : subset'[r][j] \in Clients[j] \cup {None}
         /\ \A s \in Round : subset'[s] = subset[s] \/ (s = r /\ subset[s] = Nothing)
<1>1. r \in Round
  OBVIOUS
<1>2. CASE subset[r] = Nothing
  <2>1. PICK v \in Choices(r) : subset' = [subset EXCEPT ![r] = v]
    BY <1>2 DEF AcsOutput
  <2>2. v \in [Node -> Proposal \cup {None}] /\ Cardinality({j \in Node : v[j] # None}) >= N - F
    BY DEF Choices
  <2>3. \A j \in Honest : v[j] \in Clients[j] \cup {None}
    <3>1. \A j \in Honest : v[j] \in {proposal[r][j]} \cup {None}
      BY Constants DEF Choices
    <3> QED
      BY <1>1, <3>1 DEF IInv, FromClients
  <2>4. v # Nothing
    <3>1. {j \in Node : Nothing[j] # None} = {}
      BY DEF Nothing
    <3>2. Cardinality({j \in Node : Nothing[j] # None}) = 0
      BY <3>1, FS_EmptySet
    <3>3. ~(0 >= N - F)
      BY Constants
    <3> QED
      BY <2>2, <3>2, <3>3
  <2>5. \A s \in Round : subset'[s] = IF s = r THEN v ELSE subset[s]
    BY <1>1, <2>1 DEF IInv, Typed
  <2>6. Chosen(r)' = {j \in Node : v[j] # None}
    BY <1>1, <2>5 DEF Chosen
  <2>7. subset' \in [Round -> [Node -> Proposal \cup {None}]]
    BY <2>1, <2>2 DEF IInv, Typed
  <2> QED
    BY <1>1, <1>2, <2>2, <2>3, <2>4, <2>5, <2>6, <2>7
<1>3. CASE subset[r] # Nothing
  <2>1. subset' = subset
    BY <1>3 DEF AcsOutput
  <2> QED
    BY <1>1, <1>3, <2>1 DEF IInv, Typed, Fixed, Chosen
<1> QED
  BY <1>2, <1>3

LEMMA ShareSent ==
  ASSUME NEW n \in Honest, NEW r \in Round
  PROVE  Share(n, r) \in Msg /\ Share(n, r).from = n /\ Share(n, r).round = r
         /\ Share(n, r).tag = "TPKE" /\ Share(n, r).valid = Node
  BY Constants DEF Share, Msg

LEMMA AcsOutputInvariant == ASSUME IInv, NEW n \in Honest, AcsOutput(n) PROVE IInv'
<1>13. PICK r \in Round : r = round[n]
  BY DEF AcsOutput, IInv, Opened
<1>1. pc[n] = "acs" /\ UNCHANGED <<round, buffer, queues, receiver, listener, tpke, received, blocks, proposal>>
  BY DEF AcsOutput
<1>2. \/ pc' = [pc EXCEPT ![n] = "failed"] /\ net' = net /\ Malformed \in Elements(subset'[r])
      \/ pc' = [pc EXCEPT ![n] = "shares"] /\ net' = [q \in Honest |-> net[q] \cup {Share(n, r)}]
  BY <1>13 DEF AcsOutput
<1>3. pc' = [pc EXCEPT ![n] = "failed"] \/ pc' = [pc EXCEPT ![n] = "shares"]
  BY <1>2
<1>4. \A q \in Honest : pc'[q] = pc[q] \/ (q = n /\ pc'[q] \in {"failed", "shares"})
  BY <1>3 DEF IInv, Typed
<1>5. \A q \in Honest : net'[q] \subseteq net[q] \cup {Share(n, r)}
  BY <1>2
<1>6. Typed'
  <2>1. pc' \in [Honest -> {"start", "acs", "shares", "finished", "failed"}]
    BY <1>3 DEF IInv, Typed
  <2>2. net' \in [Honest -> SUBSET Msg]
    BY <1>1, <1>2, ShareSent DEF IInv, Typed
  <2> QED
    BY <1>1, <2>1, <2>2, <1>13, AcsReturns DEF IInv, Typed
<1>7. \A m \in Msg : Sound(m) => Sound(m)'
  BY <1>13, AcsReturns, Constants DEF Sound
<1>8. Queued'
  <2>1. Sound(Share(n, r))'
    BY <1>1, ShareSent, <1>13, AcsReturns DEF Sound
  <2>2. \A q \in Honest : \A m \in net'[q] : Sound(m)'
    <3>1. \A q \in Honest : \A m \in net[q] : m \in Msg /\ Sound(m)
      BY DEF IInv, Queued, Typed
    <3> QED
      BY <1>5, <1>7, <2>1, <3>1
  <2>3. \A q \in Honest : \A m \in received[q] : Sound(m)'
    BY <1>7 DEF IInv, Queued, Typed
  <2>4. \A q \in Honest, s \in Round : queues[q][s] # None => \A m \in Elements(queues[q][s]) : Sound(m)' /\ m.round = s
    <3>1. \A q \in Honest, s \in Round : queues[q][s] # None => queues[q][s] \in Seq(Msg)
      BY DEF IInv, Typed
    <3>2. \A q \in Honest, s \in Round : queues[q][s] # None => Elements(queues[q][s]) \subseteq Msg
      BY <3>1, Queues
    <3> QED
      BY <1>7, <3>2 DEF IInv, Queued
  <2>5. \A q \in Honest, s \in Round : \A m \in Elements(tpke[q][s]) : Sound(m)' /\ m.round = s /\ m.tag = "TPKE"
    <3>1. \A q \in Honest, s \in Round : tpke[q][s] \in Seq(Msg)
      BY DEF IInv, Typed
    <3>2. \A q \in Honest, s \in Round : Elements(tpke[q][s]) \subseteq Msg
      BY <3>1, Queues
    <3> QED
      BY <1>7, <3>2 DEF IInv, Queued
  <2>6. \A q \in Honest : pc'[q] \in {"acs", "shares"} => \A m \in received[q] : m.round = round[q]
    BY <1>1, <1>4 DEF IInv, Queued
  <2> QED
    BY <1>1, <2>2, <2>3, <2>4, <2>5, <2>6 DEF Queued
<1>9. Opened' /\ FromClients'
  BY <1>1, <1>4 DEF IInv, Opened, FromClients
<1>10. Fixed'
  <2>1. \A s \in Round : s < r => subset[s] # Nothing
    BY <1>13 DEF IInv, Fixed
  <2>2. \A s \in Round : subset[s] # Nothing => subset'[s] # Nothing /\ subset'[s] = subset[s] /\ Chosen(s)' = Chosen(s)
    BY <1>13, AcsReturns DEF Chosen
  <2>3. ASSUME NEW s \in Round, subset'[s] # Nothing
        PROVE  /\ Cardinality(Chosen(s)') >= N - F
               /\ \A j \in Honest : subset'[s][j] \in Clients[j] \cup {None}
               /\ \A t \in Round : t < s => subset'[t] # Nothing
    <3>1. CASE s = r
      BY <2>1, <2>2, <3>1, <1>13, AcsReturns
    <3>2. CASE s # r
      <4>1. subset[s] # Nothing /\ subset'[s] = subset[s] /\ Chosen(s)' = Chosen(s)
        BY <2>2, <2>3, <3>2, <1>13, AcsReturns
      <4> QED
        BY <2>2, <4>1 DEF IInv, Fixed
    <3> QED
      BY <3>1, <3>2
  <2>4. \A q \in Honest, s \in Round : s < round[q] \/ (s = round[q] /\ pc'[q] = "shares") => subset'[s] # Nothing
    BY <1>1, <1>4, <2>2, <1>13, AcsReturns DEF IInv, Fixed
  <2>5. ASSUME NEW q \in Honest, NEW i \in 1..round[q]
        PROVE  subset'[i - 1] = subset[i - 1]
    <3>1. round[q] \in 0..MaxRound
      BY DEF IInv, Typed
    <3>2. i - 1 \in Round /\ i - 1 < round[q]
      BY <3>1, Constants
    <3> QED
      BY <2>2, <3>2 DEF IInv, Fixed
  <2>6. blocks' = [q \in Honest |-> [i \in 1..round'[q] |-> Block(subset'[i - 1])]]
    <3>1. blocks = [q \in Honest |-> [i \in 1..round[q] |-> Block(subset[i - 1])]]
      BY DEF IInv, Fixed
    <3> QED
      BY <1>1, <2>5, <3>1
  <2> QED
    BY <1>1, <2>3, <2>4, <2>6 DEF Fixed
<1>11. FailureHasCause'
  <2> SUFFICES ASSUME NEW q \in Honest, pc'[q] = "failed"
               PROVE  \/ proposal[round[q]][q] = None
                      \/ Malformed \in Elements(subset'[round[q]])
                      \/ Undecryptable \in Elements(subset'[round[q]])
                      \/ \E m \in received[q] : m.from \in Faulty /\ m.round = round[q] /\ ~(Chosen(round[q])' \subseteq m.valid)
    BY <1>1 DEF FailureHasCause
  <2>1. CASE q = n
    <3>1. pc' # [pc EXCEPT ![n] = "shares"]
      BY <2>1 DEF IInv, Typed
    <3> QED
      BY <1>2, <1>13, <2>1, <3>1
  <2>2. CASE q # n
    <3>1. pc[q] = "failed"
      BY <1>4, <2>2
    <3>5. PICK s \in Round : s = round[q] /\ s = round'[q]
      BY <1>1, <3>1 DEF IInv, Opened
    <3>2. Malformed \in Elements(subset[round[q]]) \/ Undecryptable \in Elements(subset[round[q]])
            => subset[round[q]] # Nothing
      BY Constants DEF Elements, Nothing
    <3>3. Chosen(round[q]) # {} => subset[round[q]] # Nothing
      BY <3>5, ChosenFixed
    <3>4. subset[s] # Nothing => subset'[s] = subset[s] /\ Chosen(s)' = Chosen(s)
      BY <1>13, AcsReturns DEF Chosen
    <3>6. \/ proposal[s][q] = None
          \/ Malformed \in Elements(subset[s])
          \/ Undecryptable \in Elements(subset[s])
          \/ \E m \in received[q] : m.from \in Faulty /\ m.round = s /\ ~(Chosen(s) \subseteq m.valid)
      BY <3>1, <3>5 DEF IInv, FailureHasCause
    <3>7. \/ proposal[s][q] = None
          \/ Malformed \in Elements(subset'[s])
          \/ Undecryptable \in Elements(subset'[s])
          \/ \E m \in received[q] : m.from \in Faulty /\ m.round = s /\ ~(Chosen(s)' \subseteq m.valid)
      <4>1. CASE subset[s] = Nothing
        BY <3>2, <3>3, <3>5, <3>6, <4>1
      <4>2. CASE subset[s] # Nothing
        BY <3>4, <3>6, <4>2
      <4> QED
        BY <4>1, <4>2
    <3>8. Chosen(round[q])' = Chosen(s)'
      BY <3>5 DEF Chosen
    <3>9. subset'[round[q]] = subset'[s] /\ proposal[round[q]][q] = proposal[s][q]
      BY <3>5
    <3> QED
      BY <3>5, <3>7, <3>8, <3>9, SMTT(30)
  <2> QED
    BY <2>1, <2>2
<1> QED
  BY <1>6, <1>8, <1>9, <1>10, <1>11 DEF IInv
\* A block is the contents of its subset when all shares in it verify.
LEMMA BlockOpened ==
  ASSUME NEW r, NEW got, VerifyShares(r, got), Chosen(r) \subseteq Node
  PROVE  Decryptions(r, got) = Block(subset[r])
<1> DEFINE chosen == InOrder(Chosen(r))
           entry(j) == IF \A m \in got : j \in m.valid THEN subset[r][j] ELSE Garbage
<1>1. Decryptions(r, got) = [i \in DOMAIN chosen |-> [bytes |-> entry(chosen[i])]]
  BY DEF Decryptions
<1>2. Block(subset[r]) = [i \in DOMAIN chosen |-> [bytes |-> subset[r][chosen[i]]]]
  <2>1. Ledger!InOrder(Chosen(r)) = InOrder(Chosen(r))
    <3> HIDE DEF chosen, entry
    <3> QED
      BY DEF Ledger!InOrder, InOrder, Ledger!Cardinality, Cardinality
  <2>2. Block(subset[r]) = LET c == Ledger!InOrder({j \in Ledger!Node : subset[r][j] # None})
                          IN  [i \in DOMAIN c |-> [bytes |-> subset[r][c[i]]]]
    BY DEF Block, Ledger!Contents
  <2>3. {j \in Ledger!Node : subset[r][j] # None} = Chosen(r)
    BY DEF Ledger!Node, Node, Chosen
  <2> HIDE DEF entry
  <2> QED
    BY <2>1, <2>2, <2>3
<1>3. \A i \in DOMAIN chosen : chosen[i] \in Chosen(r)
  <2>1. N \in Nat /\ N > 0 /\ Node = 0..(N - 1)
    BY Constants
  <2>2. N - 1 \in Nat /\ Chosen(r) \subseteq 0..(N - 1)
    BY <2>1
  <2>3. DOMAIN chosen = 1..Cardinality(Chosen(r))
    BY DEF InOrder
  <2> HIDE DEF chosen
  <2>4. \A i \in 1..Cardinality(Chosen(r)) : InOrder(Chosen(r))[i] \in Chosen(r)
    BY <2>2, Enumerated
  <2> QED
    BY <2>3, <2>4 DEF chosen
<1>4. \A j \in Chosen(r) : entry(j) = subset[r][j]
  BY DEF VerifyShares
<1> HIDE DEF chosen, entry
<1> QED
  BY <1>1, <1>2, <1>3, <1>4

\* What stays in the buffer was in it.
LEMMA StillBuffered ==
  ASSUME NEW n, NEW new_tx, buffer[n] \in Seq(Tx)
  PROVE  Remaining(n, new_tx) \in Seq(Tx) /\ Elements(Remaining(n, new_tx)) \subseteq Elements(buffer[n])
<1> DEFINE L == Len(buffer[n])
           S == {i \in DOMAIN buffer[n] : buffer[n][i] \notin Elements(new_tx)}
           kept == InOrder(S)
<1>1. L \in Nat /\ DOMAIN buffer[n] = 1..L /\ S \subseteq 0..L /\ S \subseteq DOMAIN buffer[n]
  OBVIOUS
<1>2. DOMAIN kept = 1..Cardinality(S)
  BY DEF InOrder
<1>3. Remaining(n, new_tx) = [i \in DOMAIN kept |-> buffer[n][kept[i]]]
  BY DEF Remaining
<1>4. IsFiniteSet(S) /\ Cardinality(S) \in Nat
  <2>1. IsFiniteSet(0..L)
    BY <1>1, FS_Interval
  <2> HIDE DEF S, L
  <2> QED
    BY <1>1, <2>1, FS_Subset, FS_CardinalityType
<1> HIDE DEF L, S
<1>5. \A i \in 1..Cardinality(S) : kept[i] \in S
  BY <1>1, Enumerated
<1> HIDE DEF kept
<1>6. \A i \in 1..Cardinality(S) : kept[i] \in DOMAIN buffer[n] /\ buffer[n][kept[i]] \in Tx
  <2>1. \A j \in DOMAIN buffer[n] : buffer[n][j] \in Tx
    OBVIOUS
  <2> QED
    BY <1>1, <1>5, <2>1
<1>7. Remaining(n, new_tx) = [i \in 1..Cardinality(S) |-> buffer[n][kept[i]]]
  BY <1>2, <1>3
<1>8. Remaining(n, new_tx) \in Seq(Tx)
  BY <1>4, <1>6, <1>7
<1>9. \A x \in Elements(Remaining(n, new_tx)) : x \in Elements(buffer[n])
  BY <1>6, <1>7 DEF Elements
<1> QED
  BY <1>8, <1>9

LEMMA ReceiveSharesInvariant == ASSUME IInv, NEW n \in Honest, ReceiveShares(n) PROVE IInv'
<1>1. pc[n] = "shares" /\ UNCHANGED <<listener, queues, receiver, proposal, subset, net>>
  BY DEF ReceiveShares
<1>2. PICK r \in Round : r = round[n]
  BY <1>1 DEF IInv, Opened
<1> DEFINE m == Head(tpke[n][r])
           got == Collected(n, m)
           over == round' = [round EXCEPT ![n] = r + 1]
<1>3. tpke[n][r] \in Seq(Msg) /\ tpke[n][r] # <<>>
  BY <1>2 DEF ReceiveShares, IInv, Typed
<1>4. m \in Msg /\ m \in Elements(tpke[n][r]) /\ Tail(tpke[n][r]) \in Seq(Msg)
        /\ Elements(Tail(tpke[n][r])) \subseteq Elements(tpke[n][r])
  BY <1>3, Queues
<1>5. \A x \in got : x \in Msg /\ Sound(x) /\ x.round = r
  BY <1>1, <1>2, <1>4 DEF Collected, IInv, Typed, Queued
<1>6. tpke' = [tpke EXCEPT ![n][r] = Tail(tpke[n][r])] /\ received' = [received EXCEPT ![n] = got]
  BY <1>2 DEF ReceiveShares
<1>7. \/ UNCHANGED <<pc, round, buffer, blocks>>
      \/ Opens(r, got) /\ EndRound(n, got)
      \/ ~Opens(r, got) /\ pc' = [pc EXCEPT ![n] = "failed"] /\ UNCHANGED <<round, buffer, blocks>>
  BY <1>2 DEF ReceiveShares
<1> HIDE DEF m, got
<1>8. \A x : Sound(x)' <=> Sound(x)
  BY <1>1 DEF Sound
<1>9. \A q \in Honest, s \in Round : Elements(tpke'[q][s]) \subseteq Elements(tpke[q][s])
  <2>1. \A q \in Honest, s \in Round : tpke'[q][s] = IF q = n /\ s = r THEN Tail(tpke[n][r]) ELSE tpke[q][s]
    BY <1>6 DEF IInv, Typed
  <2> QED
    BY <1>4, <2>1
<1>10. \A q \in Honest : received'[q] = IF q = n THEN got ELSE received[q]
  BY <1>6 DEF IInv, Typed
<1>11. tpke' \in [Honest -> [Round -> Seq(Msg)]] /\ received' \in [Honest -> SUBSET Msg]
  BY <1>4, <1>5, <1>6 DEF IInv, Typed
<1>12. subset[r] # Nothing /\ queues[n][r] # None
  <2>1. r \in Nat /\ ~(r > round[n]) /\ pc[n] # "start"
    BY <1>1, <1>2, Constants
  <2> QED
    BY <1>1, <1>2, <2>1 DEF IInv, Fixed, Opened
<1>13. ASSUME pc'[n] \in {"acs", "shares"} => round' = round, \A q \in Honest : q # n => pc'[q] = pc[q] /\ round'[q] = round[q]
       PROVE  Queued'
  <2>1. \A q \in Honest : \A x \in received'[q] : Sound(x)
    BY <1>5, <1>10 DEF IInv, Queued
  <2>2. \A q \in Honest : pc'[q] \in {"acs", "shares"} => \A x \in received'[q] : x.round = round'[q]
    BY <1>2, <1>5, <1>10, <1>13 DEF IInv, Queued
  <2>3. \A q \in Honest, s \in Round : \A x \in Elements(tpke'[q][s]) : Sound(x) /\ x.round = s /\ x.tag = "TPKE"
    BY <1>9 DEF IInv, Queued
  <2>4. /\ \A q \in Honest : \A x \in net[q] : Sound(x)
        /\ \A q \in Honest, s \in Round : queues[q][s] # None =>
              \A x \in Elements(queues[q][s]) : Sound(x) /\ x.round = s
    BY DEF IInv, Queued
  <2>5. UNCHANGED <<net, queues>>
    BY <1>1
  <2> QED
    BY <1>8, <2>1, <2>2, <2>3, <2>4, <2>5 DEF Queued
<1>14. CASE UNCHANGED <<pc, round, buffer, blocks>>
  <2>1. Typed'
    BY <1>1, <1>11, <1>14 DEF IInv, Typed
  <2>2. Queued'
    BY <1>13, <1>14
  <2>3. Opened' /\ FromClients' /\ Fixed'
    BY <1>1, <1>14, ZenonT(60) DEF IInv, Opened, FromClients, Fixed, Chosen
  <2>4. FailureHasCause'
    BY <1>1, <1>10, <1>14 DEF IInv, FailureHasCause, Chosen
  <2> QED
    BY <2>1, <2>2, <2>3, <2>4 DEF IInv
<1>15. CASE ~Opens(r, got) /\ pc' = [pc EXCEPT ![n] = "failed"] /\ UNCHANGED <<round, buffer, blocks>>
  <2>1. \A q \in Honest : pc'[q] = IF q = n THEN "failed" ELSE pc[q]
    BY <1>15 DEF IInv, Typed
  <2>2. Typed'
    BY <1>1, <1>11, <1>15 DEF IInv, Typed
  <2>3. Queued'
    BY <1>13, <1>15, <2>1
  <2>4. Opened' /\ FromClients'
    BY <1>1, <1>2, <1>15, <2>1 DEF IInv, Opened, FromClients
  <2>5. Fixed'
    <3>1. \A q \in Honest : pc'[q] = "shares" => pc[q] = "shares"
      BY <2>1
    <3> QED
      BY <1>1, <1>15, <3>1 DEF IInv, Fixed, Chosen
  <2>6. \/ Undecryptable \in Elements(subset[r])
        \/ \E x \in got : x.from \in Faulty /\ x.round = r /\ ~(Chosen(r) \subseteq x.valid)
    <3> SUFFICES ASSUME Undecryptable \notin Elements(subset[r])
                 PROVE  \E x \in got : x.from \in Faulty /\ x.round = r /\ ~(Chosen(r) \subseteq x.valid)
      OBVIOUS
    <3>1. PICK x \in got : ~(x.round = r /\ Chosen(r) \subseteq x.valid)
      BY <1>15 DEF Opens, VerifyShares
    <3>2. x.round = r /\ Sound(x) /\ x.from \in Node
      BY <1>5, Constants
    <3>3. Chosen(r) \subseteq Node
      BY DEF Chosen
    <3>4. x.from \notin Honest
      BY <3>1, <3>2, <3>3 DEF Sound
    <3> QED
      BY <3>1, <3>2, <3>4 DEF Honest
  <2>7. FailureHasCause'
    <3> SUFFICES ASSUME NEW q \in Honest, pc'[q] = "failed"
                 PROVE  \/ proposal[round[q]][q] = None
                        \/ Malformed \in Elements(subset[round[q]])
                        \/ Undecryptable \in Elements(subset[round[q]])
                        \/ \E y \in received'[q] : y.from \in Faulty /\ y.round = round[q] /\ ~(Chosen(round[q]) \subseteq y.valid)
      BY <1>1, <1>15 DEF FailureHasCause, Chosen
    <3>1. CASE q = n
      BY <1>2, <1>10, <2>6, <3>1
    <3>2. CASE q # n
      BY <1>10, <2>1, <3>2 DEF IInv, FailureHasCause
    <3> QED
      BY <3>1, <3>2
  <2> QED
    BY <2>2, <2>3, <2>4, <2>5, <2>7 DEF IInv
<1>16. CASE Opens(r, got) /\ EndRound(n, got)
  <2>1. /\ blocks' = [blocks EXCEPT ![n] = Append(blocks[n], Decryptions(r, got))]
        /\ buffer' = [buffer EXCEPT ![n] = Remaining(n, Decryptions(r, got))]
        /\ round' = [round EXCEPT ![n] = r + 1]
        /\ pc' = [pc EXCEPT ![n] = IF r + 1 >= MaxRound THEN "finished" ELSE "start"]
    BY <1>2, <1>16 DEF EndRound, IInv, Typed
  <2>2. r \in Nat /\ r + 1 \in 0..MaxRound /\ (~(r + 1 >= MaxRound) => r + 1 \in Round)
    BY <1>2, Constants
  <2>3. \A q \in Honest : /\ round'[q] = IF q = n THEN r + 1 ELSE round[q]
                          /\ pc'[q] = IF q = n THEN (IF r + 1 >= MaxRound THEN "finished" ELSE "start") ELSE pc[q]
    BY <2>1 DEF IInv, Typed
  <2>4. buffer' \in [Honest -> Seq(Tx)] /\ \A q \in Honest : Elements(buffer'[q]) \subseteq Elements(buffer[q])
    <3> DEFINE new == Remaining(n, Decryptions(r, got))
    <3>1. buffer \in [Honest -> Seq(Tx)]
      BY DEF IInv, Typed
    <3>2. new \in Seq(Tx) /\ Elements(new) \subseteq Elements(buffer[n])
      BY <3>1, StillBuffered
    <3>3. buffer' = [buffer EXCEPT ![n] = new]
      BY <2>1
    <3> HIDE DEF new
    <3> QED
      BY <3>1, <3>2, <3>3
  <2>5. Typed'
    <3>1. round' \in [Honest -> 0..MaxRound]
      BY <2>1, <2>2 DEF IInv, Typed
    <3>2. pc' \in [Honest -> {"start", "acs", "shares", "finished", "failed"}]
      BY <2>1 DEF IInv, Typed
    <3> QED
      BY <1>1, <1>11, <2>4, <3>1, <3>2 DEF IInv, Typed
  <2>6. Queued'
    BY <1>13, <2>3
  <2>7. \A s \in Round : s > r => s > r + 1 \/ s = r + 1
    BY <2>2, Constants
  <2>8. Opened'
    <3>1. \A q \in Honest : pc'[q] # "finished" => round'[q] \in Round
      BY <2>2, <2>3 DEF IInv, Opened
    <3>2. ASSUME NEW q \in Honest, NEW s \in Round, queues[q][s] = None
          PROVE  s > round'[q] \/ (s = round'[q] /\ pc'[q] = "start")
      <4>1. CASE q = n
        <5>1. s > r
          BY <1>1, <1>2, <3>2, <4>1 DEF IInv, Opened
        <5>2. s = r + 1 => ~(r + 1 >= MaxRound)
          BY <2>2, Constants
        <5> QED
          BY <2>3, <2>7, <4>1, <5>1, <5>2
      <4>2. CASE q # n
        BY <2>3, <3>2, <4>2 DEF IInv, Opened
      <4> QED
        BY <4>1, <4>2
    <3>3. ASSUME NEW q \in Honest, NEW s \in Round, s > round'[q] \/ (s = round'[q] /\ pc'[q] = "start")
          PROVE  proposal[s][q] = None
      <4>1. CASE q = n
        <5>1. s > round[q]
          BY <1>2, <2>2, <2>3, <3>3, <4>1, Constants
        <5> QED
          BY <5>1 DEF IInv, Opened
      <4>2. CASE q # n
        BY <2>3, <3>3, <4>2 DEF IInv, Opened
      <4> QED
        BY <4>1, <4>2
    <3>4. \A q \in Honest, s \in Round : receiver[q][s] # "none" => queues[q][s] # None
      BY DEF IInv, Opened
    <3> QED
      BY <1>1, <3>1, <3>2, <3>3, <3>4 DEF Opened
  <2>9. FromClients'
    BY <1>1, <2>4 DEF IInv, FromClients
  <2>10. Fixed'
    <3>1. \A q \in Honest, s \in Round : s < round'[q] \/ (s = round'[q] /\ pc'[q] = "shares") => subset[s] # Nothing
      <4>1. \A s \in Round : s < r + 1 => s < r \/ s = r
        BY <2>2, Constants
      <4> QED
        BY <1>2, <1>12, <2>3, <4>1 DEF IInv, Fixed
    <3>2. blocks' = [q \in Honest |-> [i \in 1..round'[q] |-> Block(subset'[i - 1])]]
      <4> DEFINE e(i) == Block(subset[i - 1])
      <4>1. blocks = [q \in Honest |-> [i \in 1..round[q] |-> e(i)]]
        BY DEF IInv, Fixed
      <4>2. Decryptions(r, got) = e(r + 1)
        <5>1. (r + 1) - 1 = r /\ Chosen(r) \subseteq Node
          BY <2>2 DEF Chosen
        <5> QED
          BY <1>16, <5>1, BlockOpened DEF Opens
      <4> HIDE DEF e
      <4>3. Append([i \in 1..r |-> e(i)], e(r + 1)) = [i \in 1..(r + 1) |-> e(i)]
        BY <2>2
      <4>4. blocks' = [q \in Honest |-> [i \in 1..round'[q] |-> e(i)]]
        BY <1>2, <2>1, <2>3, <4>1, <4>2, <4>3
      <4> QED
        BY <1>1, <4>4 DEF e
    <3> QED
      BY <1>1, <3>1, <3>2 DEF IInv, Fixed, Chosen
  <2>11. FailureHasCause'
    <3>1. \A q \in Honest : pc'[q] = "failed" => q # n /\ pc[q] = "failed" /\ round'[q] = round[q] /\ received'[q] = received[q]
      BY <1>10, <2>3
    <3> QED
      BY <1>1, <3>1 DEF IInv, FailureHasCause, Chosen
  <2> QED
    BY <2>5, <2>6, <2>8, <2>9, <2>10, <2>11 DEF IInv
<1> QED
  BY <1>7, <1>14, <1>15, <1>16
-----------------------------------------------------------------------------
LEMMA NextInvariant == IInv /\ [Next]_vars => IInv'
<1> SUFFICES ASSUME IInv, [Next]_vars PROVE IInv'
  OBVIOUS
<1>1. CASE UNCHANGED vars
  <2> USE <1>1 DEF vars
  <2>1. Typed' /\ Opened' /\ FromClients'
    BY DEF IInv, Typed, Opened, FromClients
  <2>2. Queued'
    BY DEF IInv, Queued, Sound
  <2>3. Fixed' /\ FailureHasCause'
    BY DEF IInv, Fixed, FailureHasCause, Chosen
  <2> QED
    BY <2>1, <2>2, <2>3 DEF IInv
<1>2. CASE Next
  <2> PICK n \in Honest :
        \/ \E t \in Tx : Submit(n, t)
        \/ \E m \in net[n] : Deliver(n, m) \/ Refuse(n, m)
        \/ \E r \in Round : Route(n, r)
        \/ StartRound(n) \/ NothingToSend(n) \/ AcsOutput(n) \/ ReceiveShares(n)
    BY <1>2 DEF Next
  <2>1. ASSUME NEW t \in Tx, Submit(n, t) PROVE IInv'
    BY <2>1, SubmitInvariant
  <2>2. ASSUME NEW m \in net[n], Deliver(n, m) \/ Refuse(n, m) PROVE IInv'
    BY <2>2, DeliverInvariant, RefuseInvariant
  <2>3. ASSUME NEW r \in Round, Route(n, r) PROVE IInv'
    BY <2>3, RouteInvariant
  <2>4. ASSUME StartRound(n) \/ NothingToSend(n) PROVE IInv'
    BY <2>4, StartRoundInvariant, NothingToSendInvariant
  <2>5. ASSUME AcsOutput(n) PROVE IInv'
    BY <2>5, AcsOutputInvariant
  <2>6. ASSUME ReceiveShares(n) PROVE IInv'
    BY <2>6, ReceiveSharesInvariant
  <2> QED
    BY <2>1, <2>2, <2>3, <2>4, <2>5, <2>6
<1> QED
  BY <1>1, <1>2

\* Messages are where their round and the progress of their receiver put them,
\* nodes pass a round after its subset is fixed, and failures have a cause.
THEOREM LedgerInvariant == Spec => []IInv
<1>1. Init => IInv
  BY InitInvariant
<1>2. IInv /\ [Next]_vars => IInv'
  BY NextInvariant
<1> QED
  BY <1>1, <1>2, PTL DEF Spec

\* Every variable keeps its type, and a message stays in the queues of its round.
THEOREM TypeCorrect == Spec => []TypeOK
<1>1. IInv => TypeOK
  <2> SUFFICES ASSUME IInv PROVE TypeOK
    OBVIOUS
  <2>1. \A n \in Honest, r \in Round : queues[n][r] # None => \A m \in Elements(queues[n][r]) : m \in Msg
    <3>1. \A n \in Honest, r \in Round : queues[n][r] # None => queues[n][r] \in Seq(Msg)
      BY DEF IInv, Typed
    <3> QED
      BY <3>1, Queues
  <2>2. \A n \in Honest, r \in Round : \A m \in Elements(tpke[n][r]) : m \in Msg
    <3>1. \A n \in Honest, r \in Round : tpke[n][r] \in Seq(Msg)
      BY DEF IInv, Typed
    <3> QED
      BY <3>1, Queues
  <2>3. \A n \in Honest : Len(blocks[n]) = round[n]
    <3> SUFFICES ASSUME NEW n \in Honest PROVE Len(blocks[n]) = round[n]
      OBVIOUS
    <3> DEFINE e(i) == Block(subset[i - 1])
    <3>1. blocks[n] = [i \in 1..round[n] |-> e(i)] /\ round[n] \in Nat
      BY Constants DEF IInv, Fixed, Typed
    <3> HIDE DEF e
    <3> QED
      BY <3>1
  <2>4. \A n \in Honest, r \in Round : receiver[n][r] \in {"none", "up", "failed"}
    BY DEF IInv, Typed
  <2>5. \A n \in Honest : received[n] \subseteq Msg /\ net[n] \subseteq Msg
    BY DEF IInv, Typed
  <2>6. \A r \in Round : {proposal[r], subset[r]} \subseteq [Node -> Proposal \cup {None}]
    BY DEF IInv, Typed
  <2>7. \A n \in Honest, r \in Round :
          /\ queues[n][r] = None \/ \A m \in Elements(queues[n][r]) : m \in Msg /\ m.round = r
          /\ queues[n][r] = None => r > round[n] \/ (r = round[n] /\ pc[n] = "start")
          /\ \A m \in Elements(tpke[n][r]) : m \in Msg /\ m.round = r /\ m.tag = "TPKE"
    BY <2>1, <2>2 DEF IInv, Queued, Opened
  <2> QED
    BY <2>3, <2>4, <2>5, <2>6, <2>7 DEF IInv, Typed, FromClients, TypeOK
<1> QED
  BY <1>1, LedgerInvariant, PTL

\* No decryption share of an honest node exists before the subset of its round
\* is fixed.
THEOREM SharesAfterChoiceHolds == Spec => []SharesAfterChoice
<1>1. IInv => SharesAfterChoice
  <2> SUFFICES ASSUME IInv, NEW r \in Round, NEW m \in Released(r) PROVE subset[r] # Nothing
    BY DEF SharesAfterChoice
  <2>1. m.from \in Honest /\ m.round = r
    BY DEF Released
  <2>2. PICK n \in Honest :
          \/ m \in net[n] \/ m \in Elements(tpke[n][r]) \/ m \in received[n]
          \/ queues[n][r] # None /\ m \in Elements(queues[n][r])
    BY DEF Released
  <2>3. Sound(m)
    BY <2>2 DEF IInv, Queued
  <2> QED
    BY <2>1, <2>3 DEF Sound
<1> QED
  BY <1>1, LedgerInvariant, PTL

\* A run ends early for four reasons only: nothing to propose, a ciphertext of a
\* faulty node that does not verify, one that verifies and cannot be decrypted, a
\* wrong share list of a faulty node among the first F + 1.
THEOREM FailureHasCauseHolds == Spec => []FailureHasCause
<1>1. IInv => FailureHasCause
  BY DEF IInv
<1> QED
  BY <1>1, LedgerInvariant, PTL
-----------------------------------------------------------------------------
\* The ledger

LEMMA SameCardinality == \A S : Ledger!Cardinality(S) = Cardinality(S)
  BY DEF Cardinality, Ledger!Cardinality

\* The decided rounds are the first ones.
LEMMA DecidedRounds ==
  ASSUME IInv
  PROVE  \E k \in Nat : k <= MaxRound /\ Decided = 0..(k - 1) /\ Cardinality(Decided) = k
<1> DEFINE Undecided == {s \in Nat : s \notin Decided}
<1>1. MaxRound \in Nat /\ \A s \in Decided : s \in Round /\ s \in Nat /\ s < MaxRound
  BY Constants DEF Decided
<1>2. MaxRound \in Undecided
  BY <1>1
<1>3. PICK k \in Undecided : \A s \in Undecided : k <= s
  BY <1>2, Least
<1>4. k \in Nat /\ k \notin Decided /\ k <= MaxRound
  BY <1>2, <1>3
<1>5. \A s \in Nat : s < k => s \in Decided
  <2>1. \A s \in Undecided : s \in Nat => ~(s < k)
    BY <1>3, <1>4
  <2> QED
    BY <2>1
<1> HIDE DEF Undecided
<1>6. \A s \in Decided : s < k
  <2> SUFFICES ASSUME NEW s \in Decided, ~(s < k) PROVE FALSE
    OBVIOUS
  <2>1. k < s /\ k \in Round /\ s \in Round
    BY <1>1, <1>4, Constants
  <2>2. subset[k] # Nothing
    BY <2>1 DEF IInv, Fixed, Decided
  <2> QED
    BY <1>4, <2>1, <2>2 DEF Decided
<1>7. Decided = 0..(k - 1)
  <2>1. \A s : s \in 0..(k - 1) <=> s \in Nat /\ s < k
    BY <1>4
  <2>2. \A s : s \in Decided <=> s \in Nat /\ s < k
    BY <1>1, <1>5, <1>6
  <2> QED
    BY <2>1, <2>2
<1>8. Cardinality(Decided) = k
  BY <1>4, <1>7, FS_Interval
<1> QED
  BY <1>4, <1>7, <1>8

LEMMA LedgerInit == Init => Ledger!Init
<1> SUFFICES ASSUME Init PROVE Ledger!Init
  OBVIOUS
<1>1. Decided = {}
  BY DEF Init, Decided
<1>2. Cardinality(Decided) = 0
  BY <1>1, FS_EmptySet
<1>3. [i \in 1..Cardinality(Decided) |-> subset[i - 1]] = <<>>
  BY <1>2
<1> QED
  BY <1>3 DEF Init, Ledger!Init

\* The common subset extends the ledger when it returns for the first time.
LEMMA AcsExtends ==
  ASSUME IInv, NEW n \in Honest, AcsOutput(n)
  PROVE  Ledger!Next \/ UNCHANGED <<subset, blocks>>
<1>1. PICK r \in Round : r = round[n]
  BY DEF AcsOutput, IInv, Opened
<1>2. UNCHANGED blocks
  BY DEF AcsOutput
<1>3. CASE subset[r] # Nothing
  BY <1>1, <1>2, <1>3 DEF AcsOutput
<1>4. CASE subset[r] = Nothing
  <2>1. PICK k \in Nat : k <= MaxRound /\ Decided = 0..(k - 1) /\ Cardinality(Decided) = k
    BY DecidedRounds
  <2>2. r = k
    <3>1. r \in Nat /\ r \notin Decided /\ \A s \in Round : s < r => s \in Decided
      BY <1>1, <1>4, Constants DEF IInv, Fixed, Decided
    <3>2. ~(r < k)
      BY <2>1, <3>1
    <3>3. k < r => k \in Round
      BY <2>1, <3>1, Constants
    <3>4. k \notin Decided
      BY <2>1
    <3> QED
      BY <2>1, <3>1, <3>2, <3>3, <3>4
  <2>12. PICK v : v = subset'[r]
    OBVIOUS
  <2>3. v \in [Node -> Proposal \cup {None}] /\ v # Nothing /\ \A j \in Honest : v[j] \in Clients[j] \cup {None}
    BY <1>1, <2>12, AcsReturns
  <2>4. Ledger!Cardinality({j \in Ledger!Node : v[j] # None}) >= N - F
    <3>1. {j \in Ledger!Node : v[j] # None} = Chosen(r)'
      BY <2>12 DEF Ledger!Node, Node, Chosen
    <3>2. Cardinality(Chosen(r)') >= N - F
      BY <1>1, AcsReturns
    <3> QED
      BY <3>1, <3>2, SameCardinality
  <2>5. \A s \in Round : s # r => subset'[s] = subset[s]
    BY <1>1, AcsReturns
  <2>6. Decided' = Decided \cup {r}
    BY <1>1, <2>3, <2>5, <2>12 DEF Decided
  <2>7. Cardinality(Decided)' = k + 1
    <3>1. Decided' = 0..k
      BY <2>1, <2>2, <2>6
    <3>2. Cardinality(0..k) = k + 1
      BY <2>1, FS_Interval
    <3> QED
      BY <3>1, <3>2
  <2>8. [i \in 1..Cardinality(Decided) |-> subset[i - 1]]' = Append([i \in 1..Cardinality(Decided) |-> subset[i - 1]], v)
    <3>1. \A i \in 1..k : subset'[i - 1] = subset[i - 1]
      <4>1. \A i \in 1..k : i - 1 \in Round /\ i - 1 # r
        BY <2>1, <2>2, Constants
      <4> QED
        BY <2>5, <4>1
    <3>2. subset'[(k + 1) - 1] = v
      BY <2>1, <2>2, <2>12
    <3>3. [i \in 1..(k + 1) |-> subset'[i - 1]] = Append([i \in 1..k |-> subset[i - 1]], v)
      BY <2>1, <3>1, <3>2
    <3> QED
      BY <2>1, <2>7, <3>3
  <2>9. Ledger!Extend(v)
    BY <1>2, <2>3, <2>4, <2>8 DEF Ledger!Extend
  <2>10. v \in [Ledger!Node -> Proposal \cup {None}]
    BY <2>3 DEF Ledger!Node, Node
  <2>11. \E block \in [Ledger!Node -> Proposal \cup {None}] : Ledger!Extend(block)
    BY <2>9, <2>10
  <2> QED
    BY <2>11 DEF Ledger!Next
<1> QED
  BY <1>3, <1>4

\* A node that ends a round commits the block of that round.
LEMMA SharesCommit ==
  ASSUME IInv, NEW n \in Honest, ReceiveShares(n)
  PROVE  Ledger!Next \/ UNCHANGED <<subset, blocks>>
<1>1. PICK r \in Round : r = round[n]
  BY DEF ReceiveShares, IInv, Opened
<1>2. UNCHANGED subset /\ pc[n] = "shares"
  BY DEF ReceiveShares
<1> DEFINE got == Collected(n, Head(tpke[n][r]))
<1>3. UNCHANGED blocks \/ (Opens(r, got) /\ EndRound(n, got))
  BY <1>1 DEF ReceiveShares
<1> HIDE DEF got
<1>4. CASE Opens(r, got) /\ EndRound(n, got)
  <2> DEFINE e(i) == Block(subset[i - 1])
             ledger == [i \in 1..Cardinality(Decided) |-> subset[i - 1]]
  <2>1. PICK k \in Nat : k <= MaxRound /\ Decided = 0..(k - 1) /\ Cardinality(Decided) = k
    BY DecidedRounds
  <2>2. subset[r] # Nothing /\ r \in Nat
    BY <1>1, <1>2, Constants DEF IInv, Fixed
  <2>3. r < k
    BY <2>1, <2>2 DEF Decided
  <2>4. Decryptions(r, got) = Block(subset[r])
    <3>1. Chosen(r) \subseteq Node
      BY DEF Chosen
    <3> QED
      BY <1>4, <3>1, BlockOpened DEF Opens
  <2>5. Len(blocks[n]) = r
    <3>1. blocks[n] = [i \in 1..r |-> e(i)]
      BY <1>1 DEF IInv, Fixed
    <3> HIDE DEF e
    <3> QED
      BY <2>2, <3>1
  <2>6. ledger[r + 1] = subset[r] /\ Len(ledger) = k
    BY <2>1, <2>2, <2>3
  <2>7. UNCHANGED ledger
    BY <1>2 DEF Decided
  <2>8. blocks' = [blocks EXCEPT ![n] = Append(blocks[n], Ledger!Contents(ledger[r + 1]))]
    BY <1>1, <1>4, <2>4, <2>6 DEF EndRound, Block
  <2>9. Ledger!Commit(n)
    BY <2>3, <2>5, <2>6, <2>7, <2>8 DEF Ledger!Commit
  <2> QED
    BY <2>9 DEF Ledger!Next
<1> QED
  BY <1>2, <1>3, <1>4

\* The rounds build one ledger, in order, the same at every honest node.
THEOREM RefinementHolds == Spec => ImplementsLedger
<1>1. Init => Ledger!Init
  BY LedgerInit
<1>2. IInv /\ [Next]_vars => [Ledger!Next]_(Ledger!specVars)
  <2> SUFFICES ASSUME IInv, [Next]_vars PROVE Ledger!Next \/ UNCHANGED Ledger!specVars
    OBVIOUS
  <2>1. UNCHANGED <<subset, blocks>> => UNCHANGED Ledger!specVars
    BY DEF Ledger!specVars, Decided
  <2>2. CASE UNCHANGED vars
    BY <2>1, <2>2 DEF vars
  <2>3. CASE Next
    <3>1. \/ \E n \in Honest : AcsOutput(n) \/ ReceiveShares(n)
          \/ UNCHANGED <<subset, blocks>>
      BY <2>3, ZenonT(60) DEF Next, Submit, Deliver, Refuse, Route, StartRound, NothingToSend
    <3> QED
      BY <2>1, <3>1, AcsExtends, SharesCommit
  <2> QED
    BY <2>2, <2>3
<1> QED
  BY <1>1, <1>2, LedgerInvariant, PTL DEF Spec, ImplementsLedger, Ledger!Spec
-----------------------------------------------------------------------------
\* Where the share of an honest node is at another, from the moment it is sent
\* to the end of its round there.
Sent(q, r) == r < round[q] \/ (r = round[q] /\ pc[q] = "shares")
Arriving(n, q, r) ==
    \/ Share(q, r) \in net[n]
    \/ queues[n][r] # None /\ Share(q, r) \in Elements(queues[n][r])
    \/ Share(q, r) \in Elements(tpke[n][r])
Taken(n, q, r) ==
    \/ r < round[n]
    \/ pc[n] = "failed"
    \/ r = round[n] /\ pc[n] = "shares" /\ \E s \in received[n] : s.from = q
SharesTravel == \A n, q \in Honest, r \in Round : Sent(q, r) => Arriving(n, q, r) \/ Taken(n, q, r)

\* What a node has done for the rounds it has entered.
InRound(n) ==
    /\ pc[n] = "finished" => round[n] = MaxRound
    /\ \A r \in Round : r < round[n] \/ (r = round[n] /\ pc[n] \in {"acs", "shares"}) =>
          proposal[r][n] # None /\ receiver[n][r] # "none"
    /\ pc[n] = "acs" => received[n] = {}
    /\ pc[n] = "shares" => IsFiniteSet(received[n]) /\ Cardinality(received[n]) < ShareThreshold

WorkInv == IInv /\ SharesTravel /\ \A n \in Honest : InRound(n)

\* A queue is its first element and the rest.
LEMMA FrontLeaves ==
  ASSUME NEW S, NEW s \in Seq(S), s # <<>>
  PROVE  \A x \in Elements(s) : x = Head(s) \/ x \in Elements(Tail(s))
<1> SUFFICES ASSUME NEW i \in DOMAIN s, i # 1 PROVE s[i] \in Elements(Tail(s))
  <2>1. Head(s) = s[1]
    OBVIOUS
  <2> QED
    BY <2>1 DEF Elements
<1>1. i \in 2..Len(s) /\ Len(s) \in Nat
  OBVIOUS
<1>2. i - 1 \in 1..(Len(s) - 1) /\ (i - 1) + 1 = i
  BY <1>1
<1>3. Len(Tail(s)) = Len(s) - 1 /\ \A k \in 1..(Len(s) - 1) : Tail(s)[k] = s[k + 1]
  BY <1>1
<1>4. DOMAIN Tail(s) = 1..(Len(s) - 1)
  BY <1>1, <1>3
<1> QED
  BY <1>2, <1>3, <1>4 DEF Elements

LEMMA WorkInit == Init => WorkInv
<1> SUFFICES ASSUME Init PROVE WorkInv
  OBVIOUS
<1>1. \A q \in Honest : pc[q] = "start" /\ round[q] = 0
  BY DEF Init
<1>2. \A r \in Round : ~(r < 0)
  BY Constants
<1> QED
  BY <1>1, <1>2, InitInvariant DEF WorkInv, SharesTravel, Sent, InRound

LEMMA SubmitWork == ASSUME WorkInv, NEW n \in Honest, NEW t \in Tx, Submit(n, t) PROVE WorkInv'
<1>1. UNCHANGED <<pc, round, queues, receiver, tpke, received, proposal, net>>
  BY DEF Submit
<1> QED
  BY <1>1, SubmitInvariant
     DEF WorkInv, SharesTravel, Sent, Arriving, Taken, InRound, ShareThreshold

LEMMA DeliverWork == ASSUME WorkInv, NEW n \in Honest, NEW m \in net[n], Deliver(n, m) PROVE WorkInv'
<1>1. UNCHANGED <<pc, round, receiver, tpke, received, proposal>>
  BY DEF Deliver
<1>2. m \in Msg /\ m.round \in Round
  <2>1. m \in Msg /\ Accepted(n, m) /\ IInv
    BY DEF Deliver, WorkInv, IInv, Typed
  <2> QED
    BY <2>1, RoundsAccepted
<1> DEFINE old == queues[n][m.round]
           new == IF old = None THEN <<m>> ELSE Append(old, m)
<1>3. \A q \in Honest, r \in Round : queues'[q][r] = IF q = n /\ r = m.round THEN new ELSE queues[q][r]
  BY <1>2 DEF Deliver, WorkInv, IInv, Typed
<1>4. \A q \in Honest : net'[q] = IF q = n THEN net[n] \ {m} ELSE net[q]
  BY DEF Deliver, WorkInv, IInv, Typed
<1>5. new # None /\ m \in Elements(new) /\ (old # None => Elements(old) \subseteq Elements(new))
  <2>1. <<m>> \in Seq(Msg) /\ Elements(<<m>>) = {m}
    BY <1>2 DEF Elements
  <2>2. old \in Seq(Msg) \cup {None}
    BY <1>2 DEF WorkInv, IInv, Typed
  <2>3. CASE old = None
    BY <2>1, <2>3, Constants
  <2>4. CASE old # None
    <3>1. old \in Seq(Msg)
      BY <2>2, <2>4
    <3>2. Append(old, m) \in Seq(Msg) /\ Elements(Append(old, m)) = Elements(old) \cup {m}
      BY <3>1, <1>2, Queues
    <3> HIDE DEF old
    <3> QED
      BY <2>4, <3>2, Constants
  <2> QED
    BY <2>3, <2>4
<1> HIDE DEF new
<1>6. ASSUME NEW p \in Honest, NEW q \in Honest, NEW r \in Round, Arriving(p, q, r)
      PROVE  Arriving(p, q, r)'
  <2>1. Share(q, r)' = Share(q, r) /\ Share(q, r).round = r
    BY ShareSent DEF Share
  <2>2. CASE p = n /\ Share(q, r) = m
    BY <1>3, <1>5, <2>1, <2>2 DEF Arriving
  <2>3. CASE p # n \/ Share(q, r) # m
    BY <1>1, <1>3, <1>4, <1>5, <1>6, <2>1, <2>3 DEF Arriving
  <2> QED
    BY <2>2, <2>3
<1>7. SharesTravel'
  BY <1>1, <1>6 DEF WorkInv, SharesTravel, Sent, Taken
<1>8. \A q \in Honest : InRound(q)'
  BY <1>1 DEF WorkInv, InRound, ShareThreshold
<1> QED
  BY <1>7, <1>8, DeliverInvariant DEF WorkInv

LEMMA RefuseWork == ASSUME WorkInv, NEW n \in Honest, NEW m \in net[n], Refuse(n, m) PROVE WorkInv'
<1>1. UNCHANGED <<pc, round, queues, receiver, tpke, received, proposal>>
  BY DEF Refuse
<1>2. \A q \in Honest : net'[q] = IF q = n THEN net[n] \ {m} ELSE net[q]
  BY DEF Refuse, WorkInv, IInv, Typed
<1>3. m.round \notin Round
  <2>1. m \in Msg /\ ~Accepted(n, m) /\ IInv
    BY DEF Refuse, WorkInv, IInv, Typed
  <2> QED
    BY <2>1, RoundsAccepted
<1>4. ASSUME NEW p \in Honest, NEW q \in Honest, NEW r \in Round, Arriving(p, q, r)
      PROVE  Arriving(p, q, r)'
  <2>1. Share(q, r)' = Share(q, r) /\ Share(q, r) # m
    BY <1>3, ShareSent DEF Share
  <2> QED
    BY <1>1, <1>2, <1>4, <2>1 DEF Arriving
<1>5. SharesTravel'
  BY <1>1, <1>4 DEF WorkInv, SharesTravel, Sent, Taken
<1>6. \A q \in Honest : InRound(q)'
  BY <1>1 DEF WorkInv, InRound, ShareThreshold
<1> QED
  BY <1>5, <1>6, RefuseInvariant DEF WorkInv

LEMMA RouteWork == ASSUME WorkInv, NEW n \in Honest, NEW r \in Round, Route(n, r) PROVE WorkInv'
<1>1. UNCHANGED <<pc, round, received, proposal, net>>
  BY DEF Route
<1> DEFINE old == queues[n][r]
<1>2. old \in Seq(Msg) /\ old # <<>> /\ old # None /\ tpke[n][r] \in Seq(Msg)
  BY DEF Route, WorkInv, IInv, Typed, Opened
<1>3. /\ Head(old) \in Msg /\ Tail(old) \in Seq(Msg) /\ Tail(old) # None
      /\ \A x \in Elements(old) : x = Head(old) \/ x \in Elements(Tail(old))
  <2>1. Head(old) \in Msg /\ Tail(old) \in Seq(Msg)
    BY <1>2, Queues
  <2>2. \A x \in Elements(old) : x = Head(old) \/ x \in Elements(Tail(old))
    BY <1>2, FrontLeaves
  <2> QED
    BY <2>1, <2>2, Constants
<1>4. Elements(Append(tpke[n][r], Head(old))) = Elements(tpke[n][r]) \cup {Head(old)}
  BY <1>2, <1>3, Queues
<1>5. \A p \in Honest, s \in Round : queues'[p][s] = IF p = n /\ s = r THEN Tail(old) ELSE queues[p][s]
  BY DEF Route, WorkInv, IInv, Typed
<1>6. \/ tpke' = [tpke EXCEPT ![n][r] = Append(@, Head(old))] /\ receiver' = receiver
      \/ tpke' = tpke /\ receiver' = [receiver EXCEPT ![n][r] = "failed"] /\ Head(old).tag # "TPKE"
  BY DEF Route
<1>7. \A p \in Honest, s \in Round :
        /\ Elements(tpke[p][s]) \subseteq Elements(tpke'[p][s])
        /\ receiver[p][s] # "none" => receiver'[p][s] # "none"
  <2> DEFINE more == Append(tpke[n][r], Head(old))
             stop == "failed"
  <2>1. Elements(more) = Elements(tpke[n][r]) \cup {Head(old)}
    BY <1>4
  <2>2. \/ tpke' = [tpke EXCEPT ![n][r] = more] /\ receiver' = receiver
        \/ tpke' = tpke /\ receiver' = [receiver EXCEPT ![n][r] = stop]
    BY <1>6
  <2>3. tpke \in [Honest -> [Round -> Seq(Msg)]] /\ receiver \in [Honest -> [Round -> {"none", "up", "failed"}]]
    BY DEF WorkInv, IInv, Typed
  <2>4. stop # "none"
    OBVIOUS
  <2> HIDE DEF more, stop, old
  <2>5. \A p \in Honest, s \in Round : tpke'[p][s] = tpke[p][s] \/ (p = n /\ s = r /\ tpke'[p][s] = more)
    BY <2>2, <2>3
  <2>6. \A p \in Honest, s \in Round : receiver'[p][s] = receiver[p][s] \/ receiver'[p][s] = stop
    <3>1. CASE receiver' = receiver
      BY <3>1
    <3>2. CASE receiver' = [receiver EXCEPT ![n][r] = stop]
      BY <2>3, <3>2, SMT
    <3> QED
      BY <2>2, <3>1, <3>2
  <2> QED
    BY <2>1, <2>4, <2>5, <2>6
<1>8. Head(old).tag = "TPKE" => Head(old) \in Elements(tpke'[n][r])
  <2> DEFINE more == Append(tpke[n][r], Head(old))
  <2>1. Elements(more) = Elements(tpke[n][r]) \cup {Head(old)}
    BY <1>4
  <2>2. Head(old).tag = "TPKE" => tpke' = [tpke EXCEPT ![n][r] = more]
    BY <1>6
  <2>3. tpke \in [Honest -> [Round -> Seq(Msg)]]
    BY DEF WorkInv, IInv, Typed
  <2> HIDE DEF more, old
  <2> QED
    BY <2>1, <2>2, <2>3
<1>9. ASSUME NEW p \in Honest, NEW q \in Honest, NEW s \in Round, Arriving(p, q, s)
      PROVE  Arriving(p, q, s)'
  <2>1. Share(q, s)' = Share(q, s) /\ Share(q, s).tag = "TPKE"
    BY ShareSent DEF Share
  <2>2. CASE p = n /\ s = r /\ Share(q, s) = Head(old)
    BY <1>8, <2>1, <2>2 DEF Arriving
  <2>3. CASE ~(p = n /\ s = r /\ Share(q, s) = Head(old))
    <3> HIDE DEF old
    <3>1. queues[p][s] # None /\ Share(q, s) \in Elements(queues[p][s]) =>
            queues'[p][s] # None /\ Share(q, s) \in Elements(queues'[p][s])
      BY <1>3, <1>5, <2>3 DEF old
    <3> QED
      BY <1>1, <1>7, <1>9, <2>1, <3>1 DEF Arriving
  <2> QED
    BY <2>2, <2>3
<1>10. SharesTravel'
  BY <1>1, <1>9 DEF WorkInv, SharesTravel, Sent, Taken
<1>11. \A q \in Honest : InRound(q)'
  BY <1>1, <1>7 DEF WorkInv, InRound, ShareThreshold
<1> QED
  BY <1>10, <1>11, RouteInvariant DEF WorkInv

LEMMA StartRoundWork == ASSUME WorkInv, NEW n \in Honest, StartRound(n) PROVE WorkInv'
<1>1. pc[n] = "start" /\ round[n] \in Round /\ UNCHANGED <<round, tpke, net>> /\ queues' = OpenQueue(n)
  BY DEF StartRound, WorkInv, IInv, Opened
<1>2. ToPropose(n) # None
  BY ToProposeSubmitted, Constants DEF StartRound, WorkInv
<1>3. \A q \in Honest : /\ pc'[q] = IF q = n THEN "acs" ELSE pc[q]
                        /\ received'[q] = IF q = n THEN {} ELSE received[q]
  BY DEF StartRound, WorkInv, IInv, Typed
<1>4. \A q \in Honest, r \in Round :
        /\ receiver'[q][r] = IF q = n /\ r = round[n] THEN "up" ELSE receiver[q][r]
        /\ proposal'[r][q] = IF q = n /\ r = round[n] THEN ToPropose(n) ELSE proposal[r][q]
  BY <1>1, Constants DEF StartRound, WorkInv, IInv, Typed
<1>5. ASSUME NEW p \in Honest, NEW r \in Round, queues[p][r] # None PROVE queues'[p][r] = queues[p][r]
  BY <1>1, <1>5 DEF OpenQueue, WorkInv, IInv, Typed
<1>6. ASSUME NEW p \in Honest, NEW q \in Honest, NEW r \in Round, Arriving(p, q, r) PROVE Arriving(p, q, r)'
  <2>1. Share(q, r)' = Share(q, r)
    BY DEF Share
  <2> QED
    BY <1>1, <1>5, <1>6, <2>1 DEF Arriving
<1>7. \A p, q \in Honest, r \in Round : (Taken(p, q, r) => Taken(p, q, r)') /\ (Sent(q, r)' => Sent(q, r))
  BY <1>1, <1>3 DEF Taken, Sent
<1>8. SharesTravel'
  BY <1>6, <1>7 DEF WorkInv, SharesTravel
<1>9. ASSUME NEW q \in Honest PROVE InRound(q)'
  BY <1>1, <1>2, <1>3, <1>4 DEF WorkInv, InRound, ShareThreshold
<1> QED
  BY <1>8, <1>9, StartRoundInvariant DEF WorkInv

LEMMA NothingToSendWork == ASSUME WorkInv, NEW n \in Honest, NothingToSend(n) PROVE WorkInv'
<1>1. pc[n] = "start" /\ UNCHANGED <<round, receiver, tpke, received, proposal, net>> /\ queues' = OpenQueue(n)
      /\ round[n] \in Round
  BY DEF NothingToSend, WorkInv, IInv, Opened
<1>2. \A q \in Honest : pc'[q] = IF q = n THEN "failed" ELSE pc[q]
  BY DEF NothingToSend, WorkInv, IInv, Typed
<1>3. ASSUME NEW p \in Honest, NEW r \in Round, queues[p][r] # None PROVE queues'[p][r] = queues[p][r]
  BY <1>1, <1>3 DEF OpenQueue, WorkInv, IInv, Typed
<1>4. ASSUME NEW p \in Honest, NEW q \in Honest, NEW r \in Round, Arriving(p, q, r) PROVE Arriving(p, q, r)'
  <2>1. Share(q, r)' = Share(q, r)
    BY DEF Share
  <2> QED
    BY <1>1, <1>3, <1>4, <2>1 DEF Arriving
<1>5. \A p, q \in Honest, r \in Round : (Taken(p, q, r) => Taken(p, q, r)') /\ (Sent(q, r)' => Sent(q, r))
  BY <1>1, <1>2 DEF Taken, Sent
<1>6. SharesTravel'
  BY <1>4, <1>5 DEF WorkInv, SharesTravel
<1>7. ASSUME NEW q \in Honest PROVE InRound(q)'
  BY <1>1, <1>2 DEF WorkInv, InRound, ShareThreshold
<1> QED
  BY <1>6, <1>7, NothingToSendInvariant DEF WorkInv

LEMMA AcsOutputWork == ASSUME WorkInv, NEW n \in Honest, AcsOutput(n) PROVE WorkInv'
<1>1. PICK r \in Round : r = round[n]
  BY DEF AcsOutput, WorkInv, IInv, Opened
<1>2. pc[n] = "acs" /\ UNCHANGED <<round, queues, receiver, tpke, received, proposal>>
  BY DEF AcsOutput
<1>3. \/ pc' = [pc EXCEPT ![n] = "failed"] /\ net' = net
      \/ pc' = [pc EXCEPT ![n] = "shares"] /\ net' = [q \in Honest |-> net[q] \cup {Share(n, r)}]
  BY <1>1 DEF AcsOutput
<1>4. /\ \A q \in Honest : q # n => pc'[q] = pc[q]
      /\ pc'[n] \in {"failed", "shares"}
      /\ \A q \in Honest : net[q] \subseteq net'[q]
      /\ pc'[n] = "shares" => \A q \in Honest : Share(n, r) \in net'[q]
  BY <1>3 DEF WorkInv, IInv, Typed
<1>5. ASSUME NEW p \in Honest, NEW q \in Honest, NEW s \in Round PROVE Share(q, s)' = Share(q, s)
  BY DEF Share
<1>6. \A p, q \in Honest, s \in Round :
        (Arriving(p, q, s) => Arriving(p, q, s)') /\ (Taken(p, q, s) => Taken(p, q, s)')
  BY <1>2, <1>4, <1>5 DEF Arriving, Taken
<1>7. ASSUME NEW p \in Honest, NEW q \in Honest, NEW s \in Round, Sent(q, s)'
      PROVE  Arriving(p, q, s)' \/ Taken(p, q, s)'
  <2>1. CASE Sent(q, s)
    BY <1>6, <2>1 DEF WorkInv, SharesTravel
  <2>2. CASE ~Sent(q, s)
    <3>1. q = n /\ s = r /\ pc'[n] = "shares"
      BY <1>1, <1>2, <1>4, <1>7, <2>2 DEF Sent
    <3> QED
      BY <1>4, <1>5, <3>1 DEF Arriving
  <2> QED
    BY <2>1, <2>2
<1>8. ASSUME NEW q \in Honest PROVE InRound(q)'
  <2>1. CASE q = n
    <3>1. received'[n] = {} /\ IsFiniteSet({}) /\ Cardinality({}) = 0
      BY <1>2, FS_EmptySet DEF WorkInv, InRound
    <3>2. 0 < ShareThreshold
      BY Constants DEF ShareThreshold
    <3> QED
      BY <1>1, <1>2, <1>4, <2>1, <3>1, <3>2 DEF WorkInv, InRound, ShareThreshold
  <2>2. CASE q # n
    BY <1>2, <1>4, <2>2 DEF WorkInv, InRound, ShareThreshold
  <2> QED
    BY <2>1, <2>2
<1> QED
  BY <1>7, <1>8, AcsOutputInvariant DEF WorkInv, SharesTravel

LEMMA ReceiveSharesWork == ASSUME WorkInv, NEW n \in Honest, ReceiveShares(n) PROVE WorkInv'
<1>1. pc[n] = "shares" /\ UNCHANGED <<queues, receiver, proposal, net>>
  BY DEF ReceiveShares
<1>2. PICK r \in Round : r = round[n]
  BY <1>1 DEF WorkInv, IInv, Opened
<1> DEFINE m == Head(tpke[n][r])
           got == Collected(n, m)
<1>3. tpke[n][r] \in Seq(Msg) /\ tpke[n][r] # <<>>
  BY <1>2 DEF ReceiveShares, WorkInv, IInv, Typed
<1>4. \A x \in Elements(tpke[n][r]) : x = m \/ x \in Elements(Tail(tpke[n][r]))
  BY <1>3, FrontLeaves
<1>5. tpke' = [tpke EXCEPT ![n][r] = Tail(tpke[n][r])] /\ received' = [received EXCEPT ![n] = got]
  BY <1>2 DEF ReceiveShares
<1>6. \/ UNCHANGED <<pc, round>> /\ Cardinality(got) < ShareThreshold
      \/ /\ round' = [round EXCEPT ![n] = r + 1]
         /\ pc' = [pc EXCEPT ![n] = IF r + 1 >= MaxRound THEN "finished" ELSE "start"]
      \/ pc' = [pc EXCEPT ![n] = "failed"] /\ round' = round
  BY <1>2 DEF ReceiveShares, EndRound, WorkInv, IInv, Typed
<1>7. received[n] \subseteq got /\ (\E x \in got : x.from = m.from) /\ (IsFiniteSet(received[n]) => IsFiniteSet(got))
  BY FS_AddElement DEF Collected
<1> HIDE DEF m, got
<1>8. /\ tpke'[n][r] = Tail(tpke[n][r]) /\ received'[n] = got
      /\ \A q \in Honest : q # n => received'[q] = received[q]
      /\ \A q \in Honest, s \in Round : q # n \/ s # r => tpke'[q][s] = tpke[q][s]
  BY <1>5 DEF WorkInv, IInv, Typed
<1>9. /\ \A q \in Honest : q # n => pc'[q] = pc[q] /\ round'[q] = round[q]
      /\ \/ pc'[n] = "shares" /\ round'[n] = r /\ Cardinality(got) < ShareThreshold
         \/ pc'[n] \in {"finished", "start"} /\ round'[n] = r + 1 /\ (pc'[n] = "finished" => r + 1 >= MaxRound)
         \/ pc'[n] = "failed" /\ round'[n] = r
  BY <1>1, <1>2, <1>6 DEF WorkInv, IInv, Typed
<1>10. r \in Nat /\ r < r + 1 /\ (r + 1 >= MaxRound => r + 1 = MaxRound) /\ \A s \in Round : s < r + 1 => s < r \/ s = r
  BY <1>2, Constants
<1>15. \A s \in Round : s < r => s < r + 1
  BY <1>2, Constants
<1>16. \A s \in Round : s = r + 1 => ~(s < r + 1)
  BY <1>10
<1>11. ASSUME NEW p \in Honest, NEW q \in Honest, NEW s \in Round, Taken(p, q, s)
       PROVE  Taken(p, q, s)'
  <2>1. CASE p = n
    <3>1. s < r \/ (s = r /\ \E x \in got : x.from = q)
      BY <1>1, <1>2, <1>7, <1>11, <2>1 DEF Taken
    <3> QED
      BY <1>8, <1>9, <1>10, <1>15, <2>1, <3>1 DEF Taken
  <2>2. CASE p # n
    BY <1>8, <1>9, <1>11, <2>2 DEF Taken
  <2> QED
    BY <2>1, <2>2
<1>12. ASSUME NEW p \in Honest, NEW q \in Honest, NEW s \in Round, Arriving(p, q, s)
       PROVE  Arriving(p, q, s)' \/ Taken(p, q, s)'
  <2>1. Share(q, s)' = Share(q, s) /\ Share(q, s).from = q
    BY ShareSent DEF Share
  <2>2. CASE p = n /\ s = r /\ Share(q, s) = m
    BY <1>7, <1>8, <1>9, <1>10, <2>1, <2>2 DEF Taken
  <2>3. CASE ~(p = n /\ s = r /\ Share(q, s) = m)
    <3>1. Share(q, s) \in Elements(tpke[p][s]) => Share(q, s) \in Elements(tpke'[p][s])
      BY <1>4, <1>8, <2>3
    <3> QED
      BY <1>1, <1>12, <2>1, <3>1 DEF Arriving
  <2> QED
    BY <2>2, <2>3
<1>13. ASSUME NEW q \in Honest, NEW s \in Round, Sent(q, s)' PROVE Sent(q, s)
  <2>1. CASE q = n
    BY <1>1, <1>2, <1>9, <1>10, <1>13, <2>1 DEF Sent
  <2>2. CASE q # n
    BY <1>9, <1>13, <2>2 DEF Sent
  <2> QED
    BY <2>1, <2>2
<1>14. ASSUME NEW q \in Honest PROVE InRound(q)'
  <2>1. CASE q = n
    <3>1. IsFiniteSet(got)
      BY <1>1, <1>7 DEF WorkInv, InRound
    <3>2. pc'[n] = "finished" => round'[n] = MaxRound
      BY <1>9, <1>10
    <3>3. ASSUME NEW s \in Round, s < round'[n] \/ (s = round'[n] /\ pc'[n] \in {"acs", "shares"})
          PROVE  proposal[s][n] # None /\ receiver[n][s] # "none"
      <4>1. s < r \/ s = r
        BY <1>9, <1>10, <3>3
      <4> QED
        BY <4>1, <1>1, <1>2 DEF WorkInv, InRound
    <3>4. pc'[n] = "shares" => Cardinality(got) < ShareThreshold
      BY <1>9
    <3> QED
      BY <1>1, <1>8, <1>9, <2>1, <3>1, <3>2, <3>3, <3>4 DEF InRound, ShareThreshold
  <2>2. CASE q # n
    BY <1>1, <1>8, <1>9, <2>2 DEF WorkInv, InRound, ShareThreshold
  <2> QED
    BY <2>1, <2>2
<1> QED
  BY <1>11, <1>12, <1>13, <1>14, ReceiveSharesInvariant DEF WorkInv, SharesTravel

LEMMA WorkNext == WorkInv /\ [Next]_vars => WorkInv'
<1> SUFFICES ASSUME WorkInv, [Next]_vars PROVE WorkInv'
  OBVIOUS
<1>1. CASE UNCHANGED vars
  <2>1. UNCHANGED <<pc, round, queues, receiver, tpke, received, proposal, net>>
    BY <1>1 DEF vars
  <2> QED
    BY <2>1, NextInvariant DEF WorkInv, SharesTravel, Sent, Arriving, Taken, InRound, ShareThreshold
<1>2. CASE Next
  <2> PICK n \in Honest :
        \/ \E t \in Tx : Submit(n, t)
        \/ \E m \in net[n] : Deliver(n, m) \/ Refuse(n, m)
        \/ \E r \in Round : Route(n, r)
        \/ StartRound(n) \/ NothingToSend(n) \/ AcsOutput(n) \/ ReceiveShares(n)
    BY <1>2 DEF Next
  <2> QED
    BY SubmitWork, DeliverWork, RefuseWork, RouteWork, StartRoundWork, NothingToSendWork, AcsOutputWork, ReceiveSharesWork
<1> QED
  BY <1>1, <1>2

\* The node that is furthest behind is held up by nobody: all honest nodes have
\* entered its round, so it gets its subset, and their shares have reached it.
LEMMA RestInv ==
  ASSUME WorkInv, AtRest, NoFailure, Cardinality(Faulty) <= F, N > 2 * F, NEW p \in Honest,
         \A q \in Honest : round[p] <= round[q]
  PROVE  pc[p] = "finished"
<1> SUFFICES ASSUME pc[p] # "finished" PROVE FALSE
  OBVIOUS
<1>1. Cardinality(Honest) \in Nat /\ Cardinality(Honest) >= N - F /\ IsFiniteSet(Honest) /\ Cardinality(Honest) > F
  <2>1. IsFiniteSet(Node) /\ Cardinality(Node) = N
    <3>1. N - 1 \in Nat \/ N = 0
      BY Constants
    <3> QED
      BY Constants, FS_Interval
  <2>2. Honest \in SUBSET Node /\ Faulty \in SUBSET Node /\ Node = Honest \cup Faulty /\ Honest \cap Faulty = {}
    BY HoneyBadgerAssumption DEF Honest
  <2>3. IsFiniteSet(Honest) /\ IsFiniteSet(Faulty) /\ Cardinality(Honest) \in Nat /\ Cardinality(Faulty) \in Nat
    BY <2>1, <2>2, FS_Subset, FS_CardinalityType
  <2>4. Cardinality(Honest \cup Faulty) = Cardinality(Honest) + Cardinality(Faulty) - Cardinality(Honest \cap Faulty)
    BY <2>3, FS_Union
  <2>5. Cardinality(Honest \cap Faulty) = 0
    BY <2>2, FS_EmptySet
  <2>6. Cardinality(Honest) + Cardinality(Faulty) = N
    BY <2>1, <2>2, <2>3, <2>4, <2>5
  <2> QED
    BY <2>3, <2>6, Constants
<1>2. PICK r \in Round : r = round[p]
  BY DEF WorkInv, IInv, Opened
<1>3. ASSUME NEW q \in Honest PROVE r < round[q] \/ (r = round[q] /\ pc[q] \in {"acs", "shares"})
  <2>1. round[q] \in 0..MaxRound /\ r <= round[q] /\ r \in Nat /\ r < MaxRound
    BY <1>2, Constants DEF WorkInv, IInv, Typed
  <2>2. CASE r = round[q]
    <3>1. pc[q] # "finished"
      BY <2>1, <2>2 DEF WorkInv, InRound
    <3> QED
      BY <2>2, <3>1 DEF WorkInv, IInv, Typed, AtRest, NoFailure
  <2>3. CASE r # round[q]
    BY <2>1, <2>3
  <2> QED
    BY <2>2, <2>3
<1>4. Serving(r) = Honest
  BY <1>3 DEF WorkInv, InRound, Serving
<1>5. \A q \in Honest : r = round[q] => pc[q] # "acs"
  <2>1. Cardinality(Serving(r)) >= N - F
    BY <1>1, <1>4
  <2> QED
    BY <2>1 DEF AtRest, Stuck
<1>6. \A q \in Honest : Sent(q, r)
  BY <1>3, <1>5 DEF Sent
<1>7. pc[p] = "shares"
  BY <1>2, <1>3, <1>5, Constants
<1>8. receiver[p][r] = "up" /\ queues[p][r] = <<>> /\ tpke[p][r] = <<>>
  <2>1. receiver[p][r] # "none" /\ receiver[p][r] \in {"none", "up", "failed"}
    BY <1>2, <1>7 DEF WorkInv, InRound, IInv, Typed
  <2> QED
    BY <1>2, <1>7, <2>1 DEF NoFailure, AtRest
<1>9. ASSUME NEW q \in Honest PROVE \E s \in received[p] : s.from = q
  <2>1. ~Arriving(p, q, r)
    BY <1>8, Empty DEF Arriving, AtRest
  <2>2. Taken(p, q, r)
    BY <1>6, <2>1 DEF WorkInv, SharesTravel
  <2>3. ~(r < round[p])
    BY <1>2, Constants
  <2> QED
    BY <1>7, <2>2, <2>3 DEF Taken
<1>10. IsFiniteSet(received[p]) /\ Cardinality(received[p]) \in Nat /\ Cardinality(received[p]) < F + 1
  BY <1>7, FS_CardinalityType DEF WorkInv, InRound, ShareThreshold
<1> DEFINE f == [q \in Honest |-> CHOOSE s \in received[p] : s.from = q]
<1>11. \A q \in Honest : f[q] \in received[p] /\ f[q].from = q
  BY <1>9
<1> HIDE DEF f
<1>12. f \in Injection(Honest, received[p])
  <2>1. f = [q \in Honest |-> f[q]]
    BY DEF f
  <2> QED
    BY <1>11, <2>1 DEF Injection, IsInjective
<1>13. Cardinality(Honest) <= Cardinality(received[p])
  BY <1>10, <1>12, FS_Injection
<1> QED
  BY <1>1, <1>10, <1>13, Constants

\* The rounds come to an end at every honest node if nothing fails (lines
\* 112-147): shares wait in the queue of their round for a node that is behind,
\* and whoever has gone on has left its own.
THEOREM RestFinishedHolds ==
  ASSUME Cardinality(Faulty) <= F, N > 2 * F
  PROVE  Spec => []RestFinished
<1>1. WorkInv => RestFinished
  <2> SUFFICES ASSUME WorkInv, AtRest, NoFailure, NEW n \in Honest PROVE pc[n] = "finished"
    BY DEF RestFinished
  <2> DEFINE S == {round[q] : q \in Honest}
  <2>1. \A q \in Honest : round[q] \in Nat /\ round[q] <= MaxRound
    BY Constants DEF WorkInv, IInv, Typed
  <2>2. PICK p \in Honest : \A q \in Honest : round[p] <= round[q]
    <3>1. S \in SUBSET Nat /\ S # {}
      BY <2>1
    <3>2. PICK k \in S : \A j \in S : k <= j
      BY <3>1, Least
    <3> QED
      BY <3>2
  <2>3. pc[p] = "finished"
    BY <2>2, RestInv
  <2>4. round[p] = MaxRound
    BY <2>3 DEF WorkInv, InRound
  <2>5. round[n] = MaxRound /\ round[n] \notin Round
    BY <2>1, <2>2, <2>4, Constants
  <2> QED
    BY <2>5 DEF WorkInv, IInv, Opened
<1> QED
  BY <1>1, WorkInit, WorkNext, PTL DEF Spec
=============================================================================
