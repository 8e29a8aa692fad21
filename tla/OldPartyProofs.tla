--------------------------- MODULE OldPartyProofs ---------------------------
(***************************************************************************)
(* The earlier broadcast and the parties on top of it, for any number of   *)
(* nodes of which t < N / 3 crash.  That a node tries to reconstruct only  *)
(* when a READY comes is enough because of an order within channels: the   *)
(* first READY of an honest node rests on N - t stripes, so N - 2t honest  *)
(* nodes have sent their stripes before any READY of theirs.               *)
(***************************************************************************)
EXTENDS OldParty, FiniteSetTheorems, TLAPS

Kinds == {"i", "e", "r", "o"}
Sendable == {<<>>, <<"e">>, <<"r">>, <<"o">>}

Has(s, x) == \E i \in 1 .. Len(s) : s[i] = x
Once(s) == \A i, j \in 1 .. Len(s) : s[i] = "r" /\ s[j] = "r" => i = j

\* A stripe is in the channel, and no READY before it.
StripeFirst(s) == \E i \in 1 .. Len(s) : s[i] = "e" /\ \A j \in 1 .. i : s[j] # "r"

\* The nodes whose READY n has received.
Came(n) == {p \in Node : (p \in Honest => readySent[p]) /\ ~Has(chan[p][n], "r")}

\* p's stripe has reached n, or is ahead of p's READY.
Ahead(p, n) ==
    \/ p \in opinions[n]
    \/ StripeFirst(chan[p][n]) /\ (readySent[p] => Has(chan[p][n], "r"))

Typed ==
    /\ faulty \in SUBSET Node /\ Cardinality(faulty) = t
    /\ chan \in [Node -> [Honest -> Seq(Kinds)]]
    /\ signed \in [Honest -> BOOLEAN]
    /\ opinions \in [Honest -> SUBSET Node]
    /\ readyCounter \in [Honest -> Nat]
    /\ readySent \in [Honest -> BOOLEAN]
    /\ output \in [Honest -> BOOLEAN]

\* READYs are sent once and counted once.
Counted ==
    /\ \A p \in Node, n \in Honest : Once(chan[p][n])
    /\ \A p, n \in Honest : ~readySent[p] => ~Has(chan[p][n], "r")
    /\ \A n \in Honest : readyCounter[n] = Cardinality(Came(n))

\* Who has its stripe has sent it on; whose stripe was seen has it.
Echoed ==
    /\ \A n \in Honest : signed[n] \/ Has(chan[Leader][n], "i")
    /\ \A p, n \in Honest : signed[p] => p \in opinions[n] \/ Has(chan[p][n], "e")
    /\ \A p, n \in Honest : p \in opinions[n] \/ Has(chan[p][n], "e") => signed[p]

\* No threshold passes unnoticed.
Noticed ==
    /\ \A n \in Honest : Cardinality(opinions[n]) >= Threshold2 => readySent[n]
    /\ \A n \in Honest : readyCounter[n] >= Amplify => readySent[n]
    /\ \A n \in Honest : Honest \subseteq Came(n) => output[n]
    /\ \A n \in Honest : output[n] => readyCounter[n] >= Threshold2

\* Behind every READY there are stripes ahead of their senders' READYs.
Backed ==
    (\E p \in Honest : readySent[p]) =>
        \E Q \in SUBSET Honest : Cardinality(Q) >= Threshold /\ \A p \in Q, n \in Honest : Ahead(p, n)

BroadcastInv == Typed /\ Counted /\ Echoed /\ Noticed /\ Backed

\* The shares of the key, and the one combination of them.
PartyInv ==
    /\ receivedProposals \in [Honest -> BOOLEAN]
    /\ encCounter \in [Honest -> SUBSET Node]
    /\ doneCombination \in [Honest -> BOOLEAN]
    /\ lock \in [Honest -> BOOLEAN]
    /\ recovered \in [Honest -> BOOLEAN]
    /\ \A n \in Honest : receivedProposals[n] => output[n]
    /\ \A p, n \in Honest : receivedProposals[p] => p \in encCounter[n] \/ Has(chan[p][n], "o")
    /\ \A n \in Honest : receivedProposals[n] /\ Cardinality(encCounter[n]) >= ENC_THRESHOLD => doneCombination[n]
    /\ \A n \in Honest : doneCombination[n] <=> lock[n] \/ recovered[n]
    /\ \A n \in Honest : doneCombination[n] => receivedProposals[n]
    /\ \A n \in Honest : ~(lock[n] /\ recovered[n])

IInv == BroadcastInv /\ PartyInv

-----------------------------------------------------------------------------
\* Constants and numbers

LEMMA Constants ==
  /\ t \in Nat /\ IsFiniteSet(Node) /\ Leader \in Node
  /\ N \in Nat /\ N > 3 * t
  /\ Threshold = N - 2 * t /\ Threshold2 = N - t /\ Amplify = t + 1 /\ ENC_THRESHOLD = N - 2 * t
  BY OldBroadcastAssumption, FS_CardinalityType DEF N, Threshold, Threshold2, Amplify, ENC_THRESHOLD

LEMMA Subsets ==
  ASSUME NEW S \in SUBSET Node
  PROVE  /\ IsFiniteSet(S) /\ Cardinality(S) \in Nat /\ Cardinality(S) <= N
         /\ \A T \in SUBSET S : Cardinality(T) <= Cardinality(S)
  BY Constants, FS_Subset, FS_CardinalityType DEF N

\* All honest nodes are N - t; N - t nodes have N - 2t honest ones among them.
LEMMA HonestNodes ==
  ASSUME Typed, NEW S \in SUBSET Node
  PROVE  /\ Cardinality(Honest) = N - t
         /\ Cardinality(S \cap Honest) >= Cardinality(S) - t
         /\ S \subseteq faulty => Cardinality(S) <= t
<1>1. faulty \in SUBSET Node /\ Cardinality(faulty) = t
  BY DEF Typed
<1>2. Cardinality(Honest) = N - t
  <2>1. Node \cap faulty = faulty
    BY <1>1
  <2>2. Cardinality(Node \ faulty) = Cardinality(Node) - Cardinality(Node \cap faulty)
    BY Constants, FS_Difference
  <2> QED
    BY <1>1, <2>1, <2>2 DEF Honest, N
<1>3. Cardinality(S \cap Honest) >= Cardinality(S) - t
  <2>1. S \cap Honest = S \ faulty
    BY DEF Honest
  <2>2. Cardinality(S \ faulty) = Cardinality(S) - Cardinality(S \cap faulty)
    BY Subsets, FS_Difference
  <2>3. Cardinality(S \cap faulty) <= Cardinality(faulty) /\ Cardinality(S \cap faulty) \in Nat
    <3>1. S \cap faulty \in SUBSET Node /\ S \cap faulty \in SUBSET faulty
      OBVIOUS
    <3> QED
      BY <1>1, <3>1, Subsets
  <2>4. Cardinality(S) \in Nat /\ t \in Nat
    BY Subsets, Constants
  <2>5. Cardinality(S \cap faulty) <= t
    BY <1>1, <2>3
  <2>6. Cardinality(S \cap Honest) = Cardinality(S) - Cardinality(S \cap faulty)
    BY <2>1, <2>2
  <2> QED
    BY <2>3, <2>4, <2>5, <2>6
<1>4. S \subseteq faulty => Cardinality(S) <= t
  BY <1>1, Subsets
<1> QED
  BY <1>2, <1>3, <1>4

-----------------------------------------------------------------------------
\* Channels

\* Taking the head of a channel.
LEMMA Taken ==
  ASSUME NEW s \in Seq(Kinds), s # <<>>
  PROVE  /\ Tail(s) \in Seq(Kinds) /\ Head(s) \in Kinds
         /\ Has(s, Head(s))
         /\ \A x : Has(Tail(s), x) => Has(s, x)
         /\ \A x : Has(s, x) => Head(s) = x \/ Has(Tail(s), x)
         /\ Once(s) => Once(Tail(s)) /\ (Head(s) = "r" => ~Has(Tail(s), "r"))
         /\ StripeFirst(s) => Head(s) # "r" /\ (Head(s) = "e" \/ StripeFirst(Tail(s)))
<1> DEFINE u == Tail(s)
           L == Len(s)
<1>1. u \in Seq(Kinds) /\ L \in Nat /\ L >= 1 /\ Len(u) = L - 1 /\ Head(s) = s[1] /\ s[1] \in Kinds
  OBVIOUS
<1>2. \A i \in 1 .. Len(u) : u[i] = s[i + 1]
  OBVIOUS
<1> HIDE DEF u
<1>3. \A x : Has(u, x) => Has(s, x)
  <2>1. \A i \in 1 .. Len(u) : i + 1 \in 1 .. L
    BY <1>1
  <2> QED
    BY <1>2, <2>1 DEF Has
<1>4. \A i \in 2 .. L : i - 1 \in 1 .. Len(u) /\ u[i - 1] = s[i]
  <2>1. \A i \in 2 .. L : i - 1 \in 1 .. Len(u) /\ (i - 1) + 1 = i
    BY <1>1
  <2> QED
    BY <1>2, <2>1
<1>5. \A x : Has(s, x) => Head(s) = x \/ Has(u, x)
  <2>1. \A i \in 1 .. L : i = 1 \/ i \in 2 .. L
    BY <1>1
  <2> QED
    BY <1>1, <1>4, <2>1 DEF Has
<1>6. Once(s) => Once(u)
  <2>1. \A i \in 1 .. Len(u) : i \in Nat /\ i + 1 \in 1 .. L
    BY <1>1
  <2>2. \A i, j \in Nat : i + 1 = j + 1 => i = j
    OBVIOUS
  <2> QED
    BY <1>2, <2>1, <2>2 DEF Once
<1>7. Once(s) /\ Head(s) = "r" => ~Has(u, "r")
  <2>1. \A i \in 1 .. Len(u) : i + 1 \in 1 .. L /\ i + 1 # 1 /\ 1 \in 1 .. L
    BY <1>1
  <2> QED
    BY <1>1, <1>2, <2>1 DEF Once, Has
<1>8. ASSUME StripeFirst(s) PROVE Head(s) # "r" /\ (Head(s) = "e" \/ StripeFirst(u))
  <2>1. PICK i \in 1 .. L : s[i] = "e" /\ \A j \in 1 .. i : s[j] # "r"
    BY <1>8 DEF StripeFirst
  <2>2. 1 \in 1 .. i
    BY <2>1
  <2>3. CASE i = 1
    BY <1>1, <2>1, <2>3
  <2>4. CASE i # 1
    <3>1. i - 1 \in 1 .. Len(u) /\ u[i - 1] = "e"
      BY <1>4, <2>1, <2>4, <1>1
    <3>2. \A j \in 1 .. i - 1 : j \in 1 .. Len(u) /\ j + 1 \in 1 .. i
      BY <1>1, <2>1
    <3>3. \A j \in 1 .. i - 1 : u[j] # "r"
      BY <1>2, <2>1, <3>2
    <3> QED
      BY <1>1, <2>1, <2>2, <3>1, <3>3 DEF StripeFirst
  <2> QED
    BY <2>3, <2>4
<1>9. Has(s, Head(s))
  BY <1>1 DEF Has
<1> QED
  BY <1>1, <1>3, <1>5, <1>6, <1>7, <1>8, <1>9 DEF u

\* Appending a message or none.
LEMMA Sent ==
  ASSUME NEW s \in Seq(Kinds), NEW ms \in Sendable
  PROVE  /\ s \o ms \in Seq(Kinds)
         /\ \A x : Has(s, x) \/ ms = <<x>> => Has(s \o ms, x)
         /\ \A x : Has(s \o ms, x) => Has(s, x) \/ ms = <<x>>
         /\ Once(s) /\ (ms = <<"r">> => ~Has(s, "r")) => Once(s \o ms)
         /\ StripeFirst(s) => StripeFirst(s \o ms)
<1> DEFINE u == s \o ms
           L == Len(s)
<1>1. u \in Seq(Kinds) /\ L \in Nat
  <2>1. ms \in Seq(Kinds)
    <3>1. <<>> \in Seq(Kinds)
      OBVIOUS
    <3>2. \A x \in Kinds : <<x>> \in Seq(Kinds)
      OBVIOUS
    <3>3. "e" \in Kinds /\ "r" \in Kinds /\ "o" \in Kinds
      BY DEF Kinds
    <3> QED
      BY <3>1, <3>2, <3>3 DEF Sendable
  <2> QED
    BY <2>1
<1>2. \A i \in 1 .. L : i \in 1 .. Len(u) /\ u[i] = s[i]
  BY DEF Sendable
<1>3. ASSUME NEW x, ms = <<x>> PROVE Len(u) = L + 1 /\ u[L + 1] = x
  <2>1. x \in Kinds
    BY <1>3 DEF Sendable, Kinds
  <2>2. Len(s \o <<x>>) = L + 1 /\ (s \o <<x>>)[L + 1] = x
    BY <2>1
  <2> QED
    BY <1>3, <2>2
<1>4. ms = <<>> => u = s
  OBVIOUS
<1>5. ms = <<>> \/ \E x : ms = <<x>>
  BY DEF Sendable
<1> HIDE DEF u
<1>6. \A x : Has(s, x) \/ ms = <<x>> => Has(u, x)
  <2>1. \A x : Has(s, x) => Has(u, x)
    BY <1>2 DEF Has
  <2>2. ASSUME NEW x, ms = <<x>> PROVE Has(u, x)
    <3>1. Len(u) = L + 1 /\ u[L + 1] = x
      BY <1>3, <2>2
    <3>2. L + 1 \in 1 .. Len(u)
      BY <1>1, <3>1
    <3> QED
      BY <3>1, <3>2 DEF Has
  <2> QED
    BY <2>1, <2>2
<1>7. \A x : Has(u, x) => Has(s, x) \/ ms = <<x>>
  <2>1. CASE ms = <<>>
    BY <1>4, <2>1
  <2>2. CASE \E x : ms = <<x>>
    <3>1. PICK y : ms = <<y>>
      BY <2>2
    <3>2. Len(u) = L + 1 /\ u[L + 1] = y
      BY <1>3, <3>1
    <3>3. \A i \in 1 .. Len(u) : i \in 1 .. L \/ i = L + 1
      BY <1>1, <3>2
    <3> QED
      BY <1>2, <3>1, <3>2, <3>3 DEF Has
  <2> QED
    BY <1>5, <2>1, <2>2
<1>8. ASSUME Once(s), ms = <<"r">> => ~Has(s, "r") PROVE Once(u)
  <2>1. CASE ms = <<>>
    BY <1>4, <1>8, <2>1
  <2>2. CASE \E x : ms = <<x>>
    <3>1. PICK y : ms = <<y>>
      BY <2>2
    <3>2. Len(u) = L + 1 /\ u[L + 1] = y
      BY <1>3, <3>1
    <3>3. \A i \in 1 .. Len(u) : i \in 1 .. L \/ i = L + 1
      BY <1>1, <3>2
    <3>4. y = "r" => \A i \in 1 .. L : s[i] # "r"
      BY <1>8, <3>1 DEF Has
    <3> QED
      BY <1>2, <1>8, <3>2, <3>3, <3>4 DEF Once
  <2> QED
    BY <1>5, <2>1, <2>2
<1>9. ASSUME StripeFirst(s) PROVE StripeFirst(u)
  <2>1. PICK i \in 1 .. L : s[i] = "e" /\ \A j \in 1 .. i : s[j] # "r"
    BY <1>9 DEF StripeFirst
  <2>2. \A j \in 1 .. i : j \in 1 .. L
    BY <1>1, <2>1
  <2> QED
    BY <1>2, <2>1, <2>2 DEF StripeFirst
<1> QED
  BY <1>1, <1>6, <1>7, <1>8, <1>9 DEF u

\* A stripe in a channel without READY is ahead of it.
LEMMA NoReady ==
  ASSUME NEW s \in Seq(Kinds), Has(s, "e"), ~Has(s, "r")
  PROVE  StripeFirst(s)
<1>1. PICK i \in 1 .. Len(s) : s[i] = "e"
  BY DEF Has
<1>2. \A j \in 1 .. i : j \in 1 .. Len(s)
  OBVIOUS
<1> QED
  BY <1>1, <1>2 DEF Has, StripeFirst
-----------------------------------------------------------------------------
\* What n does with a message x of p: it broadcasts ms.  x is "none" if there
\* was no message to take.

Handles(n, p, x, ms) ==
    /\ x \in Kinds \cup {"none"} /\ ms \in Sendable
    /\ x # "none" => chan[p][n] # <<>> /\ Head(chan[p][n]) = x
    /\ chan' = [q \in Node |-> [r \in Honest |->
           (IF x # "none" /\ q = p /\ r = n THEN Tail(chan[q][r]) ELSE chan[q][r])
               \o (IF q = n THEN ms ELSE <<>>)]]
    /\ faulty' = faulty
    /\ \A q \in Honest : signed'[q] <=> signed[q] \/ (q = n /\ x = "i")
    /\ ms = <<"e">> <=> x = "i" /\ ~signed[n]
    /\ \A q \in Honest : opinions'[q] = IF q = n /\ x = "e" THEN opinions[q] \cup {p} ELSE opinions[q]
    /\ \A q \in Honest : readyCounter'[q] = IF q = n /\ x = "r" THEN readyCounter[q] + 1 ELSE readyCounter[q]
    /\ \A q \in Honest : readySent'[q] <=> readySent[q] \/ (q = n /\ ms = <<"r">>)
    /\ ms = <<"r">> <=> /\ ~readySent[n]
                        /\ \/ x = "e" /\ Cardinality(opinions'[n]) >= Threshold2
                           \/ x = "r" /\ readyCounter'[n] >= Amplify
    /\ \A q \in Honest : output'[q] <=> \/ output[q]
                                        \/ q = n /\ x = "r" /\ Reconstructs(n, readyCounter'[n])
    /\ Typed'

\* What a step does to the channels.
LEMMA Channels ==
  ASSUME Typed, NEW n \in Honest, NEW p \in Node, NEW x, NEW ms, Handles(n, p, x, ms)
  PROVE  \A q \in Node, r \in Honest :
           /\ \A k : Has(chan'[q][r], k) => Has(chan[q][r], k) \/ (q = n /\ ms = <<k>>)
           /\ \A k : Has(chan[q][r], k) => Has(chan'[q][r], k) \/ (q = p /\ r = n /\ x = k)
           /\ \A k : q = n /\ ms = <<k>> => Has(chan'[q][r], k)
           /\ Once(chan[q][r]) /\ (q = n /\ ms = <<"r">> => ~Has(chan[q][r], "r"))
                => Once(chan'[q][r]) /\ (q = p /\ r = n /\ x = "r" => ~Has(chan'[q][r], "r"))
           /\ StripeFirst(chan[q][r]) =>
                /\ q = p /\ r = n => x # "r"
                /\ StripeFirst(chan'[q][r]) \/ (q = p /\ r = n /\ x = "e")
<1> TAKE q \in Node, r \in Honest
<1> DEFINE c == chan[q][r]
           pops == x # "none" /\ q = p /\ r = n
           d == IF pops THEN Tail(c) ELSE c
           s == IF q = n THEN ms ELSE <<>>
<1>1. c \in Seq(Kinds) /\ s \in Sendable
  BY DEF Typed, Handles, Sendable
<1>2. chan'[q][r] = d \o s
  BY DEF Handles
<1>3. pops => c # <<>> /\ Head(c) = x
  BY DEF Handles
<1>4. q = p /\ r = n /\ x \in Kinds => pops
  BY DEF Kinds
<1>5. "r" \in Kinds /\ x \in Kinds \cup {"none"}
  BY DEF Kinds, Handles
<1> HIDE DEF c
<1>6. d \in Seq(Kinds) /\ (\A k : Has(d, k) => Has(c, k))
  BY <1>1, <1>3, Taken
<1>7. \A k : Has(c, k) => Has(d, k) \/ (pops /\ x = k)
  BY <1>1, <1>3, Taken
<1>8. Once(c) => Once(d) /\ (pops /\ x = "r" => ~Has(d, "r"))
  BY <1>1, <1>3, Taken
<1>9. StripeFirst(c) => (pops => x # "r") /\ (StripeFirst(d) \/ (pops /\ x = "e"))
  BY <1>1, <1>3, Taken
<1>10. pops => Has(c, x)
  BY <1>1, <1>3, Taken
<1> HIDE DEF d
<1>11. s = <<>> \/ (q = n /\ s = ms)
  OBVIOUS
<1>12. \A k : s = <<k>> <=> q = n /\ ms = <<k>>
  OBVIOUS
<1> HIDE DEF s
<1>13. /\ \A k : Has(d \o s, k) => Has(d, k) \/ s = <<k>>
       /\ \A k : Has(d, k) \/ s = <<k>> => Has(d \o s, k)
       /\ Once(d) /\ (s = <<"r">> => ~Has(d, "r")) => Once(d \o s)
       /\ StripeFirst(d) => StripeFirst(d \o s)
  BY <1>1, <1>6, Sent
<1>14. \A k : Has(chan'[q][r], k) => Has(c, k) \/ (q = n /\ ms = <<k>>)
  BY <1>2, <1>6, <1>12, <1>13
<1>15. \A k : Has(c, k) => Has(chan'[q][r], k) \/ (q = p /\ r = n /\ x = k)
  BY <1>2, <1>7, <1>13
<1>16. \A k : q = n /\ ms = <<k>> => Has(chan'[q][r], k)
  BY <1>2, <1>12, <1>13
<1>17. ASSUME Once(c), q = n /\ ms = <<"r">> => ~Has(c, "r")
       PROVE  Once(chan'[q][r]) /\ (q = p /\ r = n /\ x = "r" => ~Has(chan'[q][r], "r"))
  <2>1. s = <<"r">> => ~Has(d, "r")
    BY <1>6, <1>12, <1>17
  <2>2. Once(chan'[q][r])
    BY <1>2, <1>8, <1>13, <1>17, <2>1
  <2>3. ASSUME q = p, r = n, x = "r" PROVE ~Has(chan'[q][r], "r")
    <3>1. pops
      BY <1>4, <1>5, <2>3
    <3>2. ~Has(d, "r") /\ Has(c, "r")
      BY <1>8, <1>10, <1>17, <2>3, <3>1
    <3>3. s # <<"r">>
      BY <1>12, <1>17, <3>2
    <3> QED
      BY <1>2, <1>13, <3>2, <3>3
  <2> QED
    BY <2>2, <2>3
<1>18. ASSUME StripeFirst(c)
       PROVE  /\ q = p /\ r = n => x # "r"
              /\ StripeFirst(chan'[q][r]) \/ (q = p /\ r = n /\ x = "e")
  <2>1. StripeFirst(chan'[q][r]) \/ (q = p /\ r = n /\ x = "e")
    BY <1>2, <1>9, <1>13, <1>18
  <2>2. q = p /\ r = n => x # "r"
    BY <1>4, <1>5, <1>9, <1>18
  <2> QED
    BY <2>1, <2>2
<1> QED
  BY <1>14, <1>15, <1>16, <1>17, <1>18 DEF c
\* The message that is taken was there.
LEMMA HeadThere ==
  ASSUME Typed, NEW n \in Honest, NEW p \in Node, NEW x \in Kinds, NEW ms, Handles(n, p, x, ms)
  PROVE  Has(chan[p][n], x)
<1>1. chan[p][n] \in Seq(Kinds) /\ x # "none"
  BY DEF Typed, Kinds
<1> QED
  BY <1>1, Taken DEF Handles

\* A READY is received by its one receiver, once.
LEMMA CameStep ==
  ASSUME Typed, Counted, NEW n \in Honest, NEW p \in Node, NEW x, NEW ms, Handles(n, p, x, ms)
  PROVE  /\ \A m \in Honest : Came(m)' = IF m = n /\ x = "r" THEN Came(m) \cup {p} ELSE Came(m)
         /\ x = "r" => p \notin Came(n) /\ (p \in Honest => readySent[p])
<1>1. /\ faulty' = faulty /\ Honest' = Honest /\ Honest \subseteq Node
      /\ \A q \in Honest : readySent'[q] <=> readySent[q] \/ (q = n /\ ms = <<"r">>)
      /\ ms = <<"r">> => ~readySent[n]
  BY DEF Handles, Honest
<1>2. x = "r" => Has(chan[p][n], "r") /\ (p \in Honest => readySent[p])
  BY HeadThere DEF Counted, Kinds
<1>3. ASSUME NEW q \in Node, NEW m \in Honest
      PROVE  Once(chan[q][m]) /\ (q = n /\ ms = <<"r">> => ~Has(chan[q][m], "r"))
  BY <1>1 DEF Counted
<1>4. ASSUME NEW m \in Honest, NEW q \in Node
      PROVE  q \in Came(m)' <=> q \in Came(m) \/ (q = p /\ m = n /\ x = "r")
  <2>1. q \in Came(m)' <=> (q \in Honest => readySent'[q]) /\ ~Has(chan'[q][m], "r")
    BY <1>1 DEF Came
  <2>2. q \in Came(m) <=> (q \in Honest => readySent[q]) /\ ~Has(chan[q][m], "r")
    BY DEF Came
  <2>3. Has(chan'[q][m], "r") => Has(chan[q][m], "r") \/ (q = n /\ ms = <<"r">>)
    BY Channels
  <2>4. Has(chan[q][m], "r") => Has(chan'[q][m], "r") \/ (q = p /\ m = n /\ x = "r")
    BY Channels
  <2>5. q = n /\ ms = <<"r">> => Has(chan'[q][m], "r")
    BY Channels
  <2>6. q = p /\ m = n /\ x = "r" => ~Has(chan'[q][m], "r")
    BY <1>3, Channels
  <2> QED
    BY <1>1, <1>2, <2>1, <2>2, <2>3, <2>4, <2>5, <2>6
<1>5. \A m \in Honest : Came(m) \subseteq Node /\ Came(m)' \subseteq Node
  BY DEF Came
<1>6. x = "r" => p \notin Came(n)
  BY <1>2 DEF Came
<1> QED
  BY <1>2, <1>4, <1>5, <1>6

LEMMA CountedStep ==
  ASSUME Typed, Counted, NEW n \in Honest, NEW p \in Node, NEW x, NEW ms, Handles(n, p, x, ms)
  PROVE  Counted'
<1>1. /\ Honest' = Honest /\ Honest \subseteq Node
      /\ \A q \in Honest : readySent'[q] <=> readySent[q] \/ (q = n /\ ms = <<"r">>)
      /\ ms = <<"r">> => ~readySent[n]
  BY DEF Handles, Honest
<1>2. \A q \in Node, m \in Honest : Once(chan'[q][m])
  <2>1. \A q \in Node, m \in Honest : Once(chan[q][m]) /\ (q = n /\ ms = <<"r">> => ~Has(chan[q][m], "r"))
    BY <1>1 DEF Counted
  <2> QED
    BY <2>1, Channels
<1>3. ASSUME NEW q \in Honest, NEW m \in Honest, ~readySent'[q] PROVE ~Has(chan'[q][m], "r")
  <2>1. ~readySent[q] /\ ~(q = n /\ ms = <<"r">>)
    BY <1>1, <1>3
  <2>2. ~Has(chan[q][m], "r")
    BY <2>1 DEF Counted
  <2>3. Has(chan'[q][m], "r") => Has(chan[q][m], "r") \/ (q = n /\ ms = <<"r">>)
    BY <1>1, Channels
  <2> QED
    BY <2>1, <2>2, <2>3
<1>4. ASSUME NEW m \in Honest PROVE readyCounter'[m] = Cardinality(Came(m)')
  <2>1. Came(m) \in SUBSET Node /\ readyCounter[m] = Cardinality(Came(m))
    BY DEF Came, Counted
  <2>2. CASE m = n /\ x = "r"
    <3>1. Came(m)' = Came(m) \cup {p} /\ p \notin Came(m)
      BY <2>2, CameStep
    <3>2. Cardinality(Came(m) \cup {p}) = Cardinality(Came(m)) + 1
      BY <2>1, <3>1, Subsets, FS_AddElement
    <3>3. readyCounter'[m] = readyCounter[m] + 1
      BY <2>2 DEF Handles
    <3> QED
      BY <2>1, <3>1, <3>2, <3>3
  <2>3. CASE ~(m = n /\ x = "r")
    <3>1. Came(m)' = Came(m)
      BY <2>3, CameStep
    <3>2. readyCounter'[m] = readyCounter[m]
      BY <2>3 DEF Handles
    <3> QED
      BY <2>1, <3>1, <3>2
  <2> QED
    BY <2>2, <2>3
<1> QED
  BY <1>1, <1>2, <1>3, <1>4 DEF Counted

LEMMA EchoedStep ==
  ASSUME Typed, Echoed, NEW n \in Honest, NEW p \in Node, NEW x, NEW ms, Handles(n, p, x, ms)
  PROVE  Echoed'
<1>1. /\ Honest' = Honest /\ Honest \subseteq Node
      /\ \A q \in Honest : signed'[q] <=> signed[q] \/ (q = n /\ x = "i")
      /\ ms = <<"e">> <=> x = "i" /\ ~signed[n]
      /\ \A q \in Honest : opinions'[q] = IF q = n /\ x = "e" THEN opinions[q] \cup {p} ELSE opinions[q]
  BY DEF Handles, Honest
<1>2. ASSUME NEW m \in Honest PROVE signed'[m] \/ Has(chan'[Leader][m], "i")
  <2>1. Has(chan[Leader][m], "i") => Has(chan'[Leader][m], "i") \/ (Leader = p /\ m = n /\ x = "i")
    BY Constants, Channels
  <2> QED
    BY <1>1, <2>1 DEF Echoed
<1>3. ASSUME NEW q \in Honest, NEW m \in Honest, signed'[q] PROVE q \in opinions'[m] \/ Has(chan'[q][m], "e")
  <2>1. Has(chan[q][m], "e") => Has(chan'[q][m], "e") \/ (q = p /\ m = n /\ x = "e")
    BY <1>1, Channels
  <2>2. q = n /\ ms = <<"e">> => Has(chan'[q][m], "e")
    BY <1>1, Channels
  <2>3. CASE signed[q]
    <3>1. q \in opinions[m] \/ Has(chan[q][m], "e")
      BY <2>3 DEF Echoed
    <3> QED
      BY <1>1, <2>1, <3>1
  <2>4. CASE ~signed[q]
    BY <1>1, <1>3, <2>2, <2>4
  <2> QED
    BY <2>3, <2>4
<1>4. ASSUME NEW q \in Honest, NEW m \in Honest, q \in opinions'[m] \/ Has(chan'[q][m], "e") PROVE signed'[q]
  <2>1. Has(chan'[q][m], "e") => Has(chan[q][m], "e") \/ (q = n /\ ms = <<"e">>)
    BY <1>1, Channels
  <2>2. x = "e" => Has(chan[p][n], "e")
    BY HeadThere DEF Kinds
  <2>3. q \in opinions[m] \/ Has(chan[q][m], "e") => signed[q]
    BY DEF Echoed
  <2>4. q \in opinions'[m] => q \in opinions[m] \/ (q = p /\ m = n /\ x = "e")
    BY <1>1
  <2> QED
    BY <1>1, <1>4, <2>1, <2>2, <2>3, <2>4
<1> QED
  BY <1>1, <1>2, <1>3, <1>4 DEF Echoed

\* A stripe that is ahead stays so until it arrives.
LEMMA AheadStep ==
  ASSUME Typed, NEW n \in Honest, NEW p \in Node, NEW x, NEW ms, Handles(n, p, x, ms),
         NEW q \in Honest, NEW m \in Honest, Ahead(q, m)
  PROVE  Ahead(q, m)'
<1>1. /\ q \in Node
      /\ readySent'[q] <=> readySent[q] \/ (q = n /\ ms = <<"r">>)
      /\ opinions'[m] = IF m = n /\ x = "e" THEN opinions[m] \cup {p} ELSE opinions[m]
  BY DEF Handles, Honest
<1>2. CASE q \in opinions[m]
  BY <1>1, <1>2 DEF Ahead
<1>3. CASE StripeFirst(chan[q][m]) /\ (readySent[q] => Has(chan[q][m], "r"))
  <2>1. /\ q = p /\ m = n => x # "r"
        /\ StripeFirst(chan'[q][m]) \/ (q = p /\ m = n /\ x = "e")
    BY <1>1, <1>3, Channels
  <2>2. Has(chan[q][m], "r") => Has(chan'[q][m], "r") \/ (q = p /\ m = n /\ x = "r")
    BY <1>1, Channels
  <2>3. q = n /\ ms = <<"r">> => Has(chan'[q][m], "r")
    BY <1>1, Channels
  <2> QED
    BY <1>1, <1>3, <2>1, <2>2, <2>3 DEF Ahead
<1> QED
  BY <1>2, <1>3 DEF Ahead
LEMMA SomeHonest == ASSUME Typed PROVE \E q \in Honest : TRUE
<1>1. Cardinality(Honest) = N - t
  BY HonestNodes
<1>2. N - t # 0
  BY Constants
<1>3. Honest # {}
  BY <1>1, <1>2, FS_EmptySet
<1> QED
  BY <1>3

\* When the last READY of an honest node comes, the stripes are there.
LEMMA StripesThere ==
  ASSUME Typed, Counted, Backed, NEW n \in Honest, NEW p \in Node, NEW x, NEW ms, Handles(n, p, x, ms),
         Honest \subseteq Came(n)'
  PROVE  Cardinality(opinions[n]) >= Threshold /\ Honest \subseteq Came(n) \cup {p}
<1>1. Honest \subseteq Came(n) \cup {p}
  BY CameStep
<1>2. /\ faulty' = faulty /\ Honest' = Honest /\ Honest \subseteq Node
      /\ \A q \in Honest : readySent'[q] <=> readySent[q] \/ (q = n /\ ms = <<"r">>)
  BY DEF Handles, Honest
<1>3. \A q \in Honest : readySent'[q] /\ ~Has(chan'[q][n], "r")
  BY <1>2 DEF Came
<1>4. \A q \in Honest : readySent[q]
  <2>1. \A q \in Honest : q = n /\ ms = <<"r">> => Has(chan'[q][n], "r")
    BY <1>2, Channels
  <2> QED
    BY <1>2, <1>3, <2>1
<1>5. PICK Q \in SUBSET Honest : Cardinality(Q) >= Threshold /\ \A q \in Q, m \in Honest : Ahead(q, m)
  BY <1>4, SomeHonest DEF Backed
<1>6. ASSUME NEW q \in Q, q \notin opinions[n] PROVE FALSE
  <2>1. q \in Node /\ StripeFirst(chan[q][n]) /\ Has(chan[q][n], "r")
    BY <1>2, <1>4, <1>5, <1>6 DEF Ahead
  <2>2. q = p => x # "r"
    BY <2>1, Channels
  <2>3. Has(chan'[q][n], "r")
    BY <2>1, <2>2, Channels
  <2> QED
    BY <1>3, <2>3
<1>7. Q \in SUBSET opinions[n] /\ opinions[n] \in SUBSET Node
  BY <1>6 DEF Typed
<1>8. Cardinality(Q) <= Cardinality(opinions[n]) /\ Cardinality(Q) \in Nat /\ Cardinality(opinions[n]) \in Nat
  BY <1>2, <1>7, Subsets
<1> QED
  BY <1>1, <1>5, <1>8, Constants

LEMMA NoticedStep ==
  ASSUME BroadcastInv, NEW n \in Honest, NEW p \in Node, NEW x, NEW ms, Handles(n, p, x, ms)
  PROVE  Noticed'
<1> USE DEF BroadcastInv
<1>1. /\ faulty' = faulty /\ Honest' = Honest /\ Honest \subseteq Node
      /\ \A q \in Honest : readySent'[q] <=> readySent[q] \/ (q = n /\ ms = <<"r">>)
      /\ \A q \in Honest : opinions'[q] = IF q = n /\ x = "e" THEN opinions[q] \cup {p} ELSE opinions[q]
      /\ \A q \in Honest : readyCounter'[q] = IF q = n /\ x = "r" THEN readyCounter[q] + 1 ELSE readyCounter[q]
      /\ \A q \in Honest : output'[q] <=> \/ output[q]
                                          \/ q = n /\ x = "r" /\ Reconstructs(n, readyCounter'[n])
      /\ ms = <<"r">> <=> /\ ~readySent[n]
                          /\ \/ x = "e" /\ Cardinality(opinions'[n]) >= Threshold2
                             \/ x = "r" /\ readyCounter'[n] >= Amplify
  BY DEF Handles, Honest
<1>2. /\ N' = N /\ Threshold' = Threshold /\ Threshold2' = Threshold2 /\ Amplify' = Amplify
      /\ \A m \in Honest : readyCounter[m] \in Nat
  BY DEF N, Threshold, Threshold2, Amplify, Typed
<1>3. ASSUME NEW m \in Honest, Cardinality(opinions'[m]) >= Threshold2 PROVE readySent'[m]
  BY <1>1, <1>3 DEF Noticed
<1>4. ASSUME NEW m \in Honest, readyCounter'[m] >= Amplify PROVE readySent'[m]
  BY <1>1, <1>4 DEF Noticed
<1>5. ASSUME NEW m \in Honest, Honest \subseteq Came(m)' PROVE output'[m]
  <2>1. CASE Honest \subseteq Came(m)
    BY <1>1, <2>1 DEF Noticed
  <2>2. CASE ~(Honest \subseteq Came(m))
    <3>1. m = n /\ x = "r"
      BY <1>5, <2>2, CameStep
    <3>2. Cardinality(opinions[n]) >= Threshold
      BY <1>5, <3>1, StripesThere
    <3>3. Came(n)' \in SUBSET Node /\ Honest \in SUBSET Came(n)'
      BY <1>1, <1>5, <3>1 DEF Came
    <3>4. Cardinality(Honest) <= Cardinality(Came(n)') /\ Cardinality(Honest) = N - t
      BY <1>1, <3>3, Subsets, HonestNodes
    <3>5. readyCounter'[n] = Cardinality(Came(n)')
      BY <1>1, CountedStep DEF Counted
    <3>6. readyCounter'[n] >= Threshold2
      BY <3>4, <3>5, Constants
    <3> QED
      BY <1>1, <3>1, <3>2, <3>6 DEF Reconstructs
  <2> QED
    BY <2>1, <2>2
<1>6. ASSUME NEW m \in Honest, output'[m] PROVE readyCounter'[m] >= Threshold2
  <2>1. CASE output[m]
    <3>1. readyCounter[m] >= Threshold2 /\ readyCounter[m] \in Nat
      BY <1>2, <2>1 DEF Noticed
    <3> QED
      BY <1>1, <3>1, Constants
  <2>2. CASE ~output[m]
    BY <1>1, <1>6, <2>2 DEF Reconstructs
  <2> QED
    BY <2>1, <2>2
<1> QED
  BY <1>1, <1>2, <1>3, <1>4, <1>5, <1>6 DEF Noticed

\* The first READY of an honest node rests on stripes.
LEMMA FirstReady ==
  ASSUME BroadcastInv, NEW n \in Honest, NEW p \in Node, NEW x, NEW ms, Handles(n, p, x, ms),
         \A q \in Honest : ~readySent[q], ms = <<"r">>
  PROVE  x = "e" /\ Cardinality(opinions'[n]) >= Threshold2
<1> USE DEF BroadcastInv
<1>1. \/ x = "e" /\ Cardinality(opinions'[n]) >= Threshold2
      \/ x = "r" /\ readyCounter'[n] >= Amplify
  BY DEF Handles
<1>2. ASSUME x = "r" PROVE readyCounter'[n] <= t /\ readyCounter'[n] \in Nat
  <2>1. Came(n)' = Came(n) \cup {p} /\ p \notin Honest
    BY <1>2, CameStep
  <2>2. Came(n) \subseteq faulty /\ p \in faulty
    BY <2>1 DEF Came, Honest
  <2>3. Came(n)' \in SUBSET Node /\ Came(n)' \subseteq faulty
    BY <2>1, <2>2 DEF Typed
  <2>4. readyCounter'[n] = Cardinality(Came(n)')
    <3>1. Counted'
      BY CountedStep
    <3>2. Honest' = Honest
      BY DEF Handles, Honest
    <3> QED
      BY <3>1, <3>2 DEF Counted
  <2> QED
    BY <2>3, <2>4, HonestNodes, Subsets
<1> QED
  BY <1>1, <1>2, Constants

LEMMA BackedStep ==
  ASSUME BroadcastInv, NEW n \in Honest, NEW p \in Node, NEW x, NEW ms, Handles(n, p, x, ms)
  PROVE  Backed'
<1> USE DEF BroadcastInv
<1>1. /\ Honest' = Honest /\ Honest \subseteq Node /\ Threshold' = Threshold
      /\ \A q \in Honest : readySent'[q] <=> readySent[q] \/ (q = n /\ ms = <<"r">>)
      /\ opinions'[n] = IF x = "e" THEN opinions[n] \cup {p} ELSE opinions[n]
  BY DEF Handles, Honest, Threshold, N
<1>2. CASE \E q \in Honest : readySent[q]
  <2>1. PICK Q \in SUBSET Honest : Cardinality(Q) >= Threshold /\ \A q \in Q, m \in Honest : Ahead(q, m)
    BY <1>2 DEF Backed
  <2>2. \A q \in Q, m \in Honest : Ahead(q, m)'
    BY <2>1, AheadStep
  <2> QED
    BY <1>1, <2>1, <2>2 DEF Backed
<1>3. CASE (\A q \in Honest : ~readySent[q]) /\ ms = <<"r">>
  <2> DEFINE Q == opinions'[n] \cap Honest
  <2>1. x = "e" /\ Cardinality(opinions'[n]) >= Threshold2
    BY <1>3, FirstReady
  <2>2. opinions'[n] \in SUBSET Node
    BY <1>1 DEF Handles, Typed
  <2>3. Cardinality(Q) >= Threshold
    <3>1. Cardinality(Q) >= Cardinality(opinions'[n]) - t
      BY <2>2, HonestNodes
    <3>2. Cardinality(Q) \in Nat /\ Cardinality(opinions'[n]) \in Nat
      BY <1>1, <2>2, Subsets, Q \in SUBSET Node
    <3> QED
      BY <2>1, <3>1, <3>2, Constants
  <2>4. ASSUME NEW q \in Q, NEW m \in Honest PROVE Ahead(q, m)
    <3>1. q \in opinions[n] \/ Has(chan[q][n], "e")
      BY <1>1, <2>1, HeadThere DEF Kinds
    <3>2. signed[q]
      BY <3>1 DEF Echoed
    <3>3. q \in opinions[m] \/ Has(chan[q][m], "e")
      BY <3>2 DEF Echoed
    <3>4. ~readySent[q] /\ ~Has(chan[q][m], "r") /\ chan[q][m] \in Seq(Kinds)
      BY <1>1, <1>3 DEF Counted, Typed
    <3> QED
      BY <3>3, <3>4, NoReady DEF Ahead
  <2>5. \A q \in Q, m \in Honest : Ahead(q, m)'
    BY <2>4, AheadStep
  <2>6. Q \in SUBSET Honest
    OBVIOUS
  <2> HIDE DEF Q
  <2> QED
    BY <1>1, <2>3, <2>5, <2>6 DEF Backed
<1>4. CASE (\A q \in Honest : ~readySent[q]) /\ ms # <<"r">>
  BY <1>1, <1>4 DEF Backed
<1> QED
  BY <1>2, <1>3, <1>4

LEMMA HandlesInvariant ==
  ASSUME BroadcastInv, NEW n \in Honest, NEW p \in Node, NEW x, NEW ms, Handles(n, p, x, ms)
  PROVE  BroadcastInv'
<1>1. Typed'
  BY DEF Handles
<1> QED
  BY <1>1, CountedStep, EchoedStep, NoticedStep, BackedStep DEF BroadcastInv
-----------------------------------------------------------------------------
\* The steps of the broadcast

\* Consume takes a message and sends one or none.
LEMMA ConsumeTyped ==
  ASSUME Typed, NEW n \in Honest, NEW p \in Node, NEW ms \in Sendable, chan[p][n] # <<>>, Consume(p, n, ms)
  PROVE  chan' \in [Node -> [Honest -> Seq(Kinds)]]
<1>1. ASSUME NEW q \in Node, NEW r \in Honest
      PROVE  (IF q = p /\ r = n THEN Tail(chan[q][r]) ELSE chan[q][r]) \o (IF q = n THEN ms ELSE <<>>)
                \in Seq(Kinds)
  <2>1. chan[q][r] \in Seq(Kinds)
    BY DEF Typed
  <2>2. (IF q = p /\ r = n THEN Tail(chan[q][r]) ELSE chan[q][r]) \in Seq(Kinds)
    BY <2>1, Taken
  <2>3. (IF q = n THEN ms ELSE <<>>) \in Sendable
    BY DEF Sendable
  <2> QED
    BY <2>2, <2>3, Sent
<1> QED
  BY <1>1 DEF Consume

LEMMA ReceiveHandles ==
  ASSUME BroadcastInv, NEW n \in Honest, NEW p \in Node, Receive(n, p)
  PROVE  \E x, ms : Handles(n, p, x, ms) /\ x # "o" /\ ms # <<"o">>
<1> USE DEF BroadcastInv
<1>1. chan[p][n] # <<>> /\ \A x \in Kinds : x # "none"
  BY DEF Receive, Kinds
<1>2. /\ <<>> \in Sendable /\ <<"e">> \in Sendable /\ <<"r">> \in Sendable
      /\ "i" \in Kinds /\ "e" \in Kinds /\ "r" \in Kinds
      /\ <<>> # <<"e">> /\ <<>> # <<"r">> /\ <<>> # <<"o">> /\ <<"e">> # <<"r">> /\ <<"e">> # <<"o">> /\ <<"r">> # <<"o">>
  BY DEF Sendable, Kinds
<1>3. CASE ReceiveInitial(n, p)
  <2> DEFINE ms == IF signed[n] THEN <<>> ELSE <<"e">>
  <2>1. /\ Head(chan[p][n]) = "i" /\ signed' = [signed EXCEPT ![n] = TRUE] /\ Consume(p, n, ms)
        /\ UNCHANGED <<faulty, opinions, readyCounter, readySent, output>>
    BY <1>3 DEF ReceiveInitial
  <2>2. ms \in Sendable /\ (ms = <<"e">> <=> ~signed[n]) /\ ms # <<"r">> /\ ms # <<"o">>
    BY <1>2
  <2> HIDE DEF ms
  <2>3. Typed'
    BY <1>1, <2>1, <2>2, ConsumeTyped DEF Typed, Honest
  <2>4. \A q \in Honest : signed'[q] <=> signed[q] \/ (q = n /\ "i" = "i")
    BY <2>1 DEF Typed
  <2>5. Handles(n, p, "i", ms)
    BY <1>1, <1>2, <2>1, <2>2, <2>3, <2>4 DEF Handles, Consume
  <2> QED
    BY <2>2, <2>5
<1>4. CASE ReceiveEcho(n, p)
  <2> DEFINE enough == Cardinality(opinions[n] \cup {p}) >= Threshold2 /\ ~readySent[n]
             ms == IF enough THEN <<"r">> ELSE <<>>
  <2>1. /\ Head(chan[p][n]) = "e" /\ opinions' = [opinions EXCEPT ![n] = @ \cup {p}]
        /\ readySent' = [readySent EXCEPT ![n] = @ \/ enough] /\ Consume(p, n, ms)
        /\ UNCHANGED <<faulty, signed, readyCounter, output>>
    BY <1>4 DEF ReceiveEcho
  <2>2. ms \in Sendable /\ (ms = <<"r">> <=> enough) /\ ms # <<"e">> /\ ms # <<"o">>
    BY <1>2
  <2>3. enough <=> Cardinality(opinions'[n]) >= Threshold2 /\ ~readySent[n]
    BY <2>1 DEF Typed
  <2> HIDE DEF enough, ms
  <2>4. /\ readySent' \in [Honest -> BOOLEAN]
        /\ \A q \in Honest : readySent'[q] <=> readySent[q] \/ (q = n /\ ms = <<"r">>)
    BY <2>1, <2>2 DEF Typed
  <2>5. /\ opinions' \in [Honest -> SUBSET Node]
        /\ \A q \in Honest : opinions'[q] = IF q = n THEN opinions[q] \cup {p} ELSE opinions[q]
    BY <2>1 DEF Typed
  <2>6. Typed'
    BY <1>1, <2>1, <2>2, <2>4, <2>5, ConsumeTyped DEF Typed, Honest
  <2>7. Handles(n, p, "e", ms)
    BY <1>1, <1>2, <2>1, <2>2, <2>3, <2>4, <2>5, <2>6 DEF Handles, Consume
  <2> QED
    BY <2>2, <2>7
<1>5. CASE ReceiveReady(n, p)
  <2> DEFINE count == readyCounter[n] + 1
             amplify == count >= Amplify /\ ~readySent[n]
             ms == IF amplify THEN <<"r">> ELSE <<>>
  <2>1. /\ Head(chan[p][n]) = "r" /\ readyCounter' = [readyCounter EXCEPT ![n] = count]
        /\ readySent' = [readySent EXCEPT ![n] = @ \/ amplify]
        /\ output' = [output EXCEPT ![n] = @ \/ Reconstructs(n, count)]
        /\ Consume(p, n, ms)
        /\ UNCHANGED <<faulty, signed, opinions>>
    BY <1>5 DEF ReceiveReady
  <2>2. ms \in Sendable /\ (ms = <<"r">> <=> amplify) /\ ms # <<"e">> /\ ms # <<"o">>
    BY <1>2
  <2>3. /\ readyCounter' \in [Honest -> Nat] /\ readyCounter'[n] = count
        /\ \A q \in Honest : readyCounter'[q] = IF q = n THEN readyCounter[q] + 1 ELSE readyCounter[q]
    BY <2>1 DEF Typed
  <2>4. amplify <=> readyCounter'[n] >= Amplify /\ ~readySent[n]
    BY <2>3
  <2> HIDE DEF amplify, ms
  <2>5. /\ readySent' \in [Honest -> BOOLEAN]
        /\ \A q \in Honest : readySent'[q] <=> readySent[q] \/ (q = n /\ ms = <<"r">>)
    BY <2>1, <2>2 DEF Typed
  <2> HIDE DEF count
  <2>6. /\ output' \in [Honest -> BOOLEAN]
        /\ \A q \in Honest : output'[q] <=> output[q] \/ (q = n /\ Reconstructs(n, count))
    BY <2>1 DEF Typed, Reconstructs
  <2>7. Typed'
    BY <1>1, <2>1, <2>2, <2>3, <2>5, <2>6, ConsumeTyped DEF Typed, Honest
  <2>8. Handles(n, p, "r", ms)
    BY <1>1, <1>2, <2>1, <2>2, <2>3, <2>4, <2>5, <2>6, <2>7 DEF Handles, Consume
  <2> QED
    BY <2>2, <2>8
<1> QED
  BY <1>3, <1>4, <1>5 DEF Receive
-----------------------------------------------------------------------------
\* The invariant

LEMMA InitInvariant == PartyInit => IInv
<1> SUFFICES ASSUME PartyInit PROVE IInv
  OBVIOUS
<1>1. PICK order \in {<<"e", "r">>, <<"r", "e">>} :
        chan = [p \in Node |-> [n \in Honest |->
                  (IF p = Leader THEN <<"i">> ELSE <<>>) \o (IF p \in faulty THEN order ELSE <<>>)]]
  BY DEF PartyInit, Init
<1>2. /\ faulty \in SUBSET Node /\ Cardinality(faulty) = t
      /\ signed = [n \in Honest |-> FALSE] /\ opinions = [n \in Honest |-> {}]
      /\ readyCounter = [n \in Honest |-> 0]
      /\ readySent = [n \in Honest |-> FALSE] /\ output = [n \in Honest |-> FALSE]
  BY DEF PartyInit, Init
<1>3. Honest \subseteq Node /\ \A p \in Honest : p \notin faulty
  BY DEF Honest
<1>4. ASSUME NEW p \in Node, NEW n \in Honest
      PROVE  /\ chan[p][n] \in Seq(Kinds) /\ Once(chan[p][n])
             /\ p = Leader => Has(chan[p][n], "i")
             /\ p \in faulty => Has(chan[p][n], "r")
             /\ p \notin faulty => ~Has(chan[p][n], "r") /\ ~Has(chan[p][n], "e")
  <2>1. "i" \in Kinds /\ "e" \in Kinds /\ "r" \in Kinds
    BY DEF Kinds
  <2>2. /\ chan[p][n] = (IF p = Leader THEN <<"i">> ELSE <<>>) \o (IF p \in faulty THEN order ELSE <<>>)
        /\ order = <<"e", "r">> \/ order = <<"r", "e">>
    BY <1>1
  <2>0. /\ order \in Seq(Kinds) /\ Len(order) = 2
        /\ (order[1] = "e" /\ order[2] = "r") \/ (order[1] = "r" /\ order[2] = "e")
    <3>1. \A x, y \in Kinds : <<x, y>> \in Seq(Kinds) /\ Len(<<x, y>>) = 2 /\ <<x, y>>[1] = x /\ <<x, y>>[2] = y
      OBVIOUS
    <3>2. CASE order = <<"e", "r">>
      BY <2>1, <3>1, <3>2
    <3>3. CASE order = <<"r", "e">>
      BY <2>1, <3>1, <3>3
    <3> QED
      BY <2>2, <3>2, <3>3
  <2>3. CASE p = Leader /\ p \in faulty
    <3>1. /\ chan[p][n] \in Seq(Kinds) /\ Len(chan[p][n]) = 3
          /\ chan[p][n][1] = "i" /\ chan[p][n][2] = order[1] /\ chan[p][n][3] = order[2]
      <4>1. ASSUME NEW v \in Seq(Kinds), NEW w \in Seq(Kinds), Len(v) = 1, Len(w) = 2
            PROVE  /\ v \o w \in Seq(Kinds) /\ Len(v \o w) = 3
                   /\ (v \o w)[1] = v[1] /\ (v \o w)[2] = w[1] /\ (v \o w)[3] = w[2]
        <5>1. v \o w \in Seq(Kinds) /\ Len(v \o w) = Len(v) + Len(w)
          OBVIOUS
        <5>2. \A k \in 1 .. Len(v) + Len(w) : (v \o w)[k] = IF k <= Len(v) THEN v[k] ELSE w[k - Len(v)]
          OBVIOUS
        <5> QED
          BY <4>1, <5>1, <5>2
      <4> DEFINE v == <<"i">>
      <4>2. v \in Seq(Kinds) /\ Len(v) = 1 /\ v[1] = "i"
        BY DEF Kinds
      <4>3. chan[p][n] = v \o order
        BY <2>2, <2>3
      <4> HIDE DEF v
      <4>4. /\ v \o order \in Seq(Kinds) /\ Len(v \o order) = 3
            /\ (v \o order)[1] = v[1] /\ (v \o order)[2] = order[1] /\ (v \o order)[3] = order[2]
        BY <2>0, <4>1, <4>2
      <4> QED
        BY <4>2, <4>3, <4>4
    <3>2. 1 .. 3 = {1, 2, 3}
      OBVIOUS
    <3> QED
      BY <2>0, <2>3, <3>1, <3>2 DEF Once, Has
  <2>4. CASE p # Leader /\ p \in faulty
    <3>1. chan[p][n] = order
      BY <2>0, <2>2, <2>4
    <3>2. 1 .. 2 = {1, 2}
      OBVIOUS
    <3> QED
      BY <2>0, <2>4, <3>1, <3>2 DEF Once, Has
  <2>5. CASE p = Leader /\ p \notin faulty
    <3>1. chan[p][n] = <<"i">>
      BY <2>2, <2>5
    <3> QED
      BY <2>1, <2>5, <3>1 DEF Once, Has
  <2>6. CASE p # Leader /\ p \notin faulty
    <3>1. chan[p][n] = <<>>
      BY <2>2, <2>6
    <3> QED
      BY <2>1, <2>6, <3>1 DEF Once, Has
  <2> QED
    BY <2>3, <2>4, <2>5, <2>6
<1>5. Typed
  <2>1. chan \in [Node -> [Honest -> Seq(Kinds)]]
    BY <1>1, <1>4
  <2> QED
    BY <1>2, <2>1 DEF Typed
<1>6. \A n \in Honest : Came(n) = {}
  BY <1>2, <1>4 DEF Came, Honest
<1>7. Cardinality({}) = 0
  BY FS_EmptySet
<1>8. Counted
  BY <1>2, <1>3, <1>4, <1>6, <1>7 DEF Counted
<1>9. Echoed
  BY <1>2, <1>3, <1>4, Constants DEF Echoed
<1>10. Noticed
  <2>1. Threshold2 > 0 /\ Amplify > 0
    BY Constants
  <2>2. \A n \in Honest : ~(Honest \subseteq Came(n))
    BY <1>5, <1>6, SomeHonest
  <2>3. \A n \in Honest : Cardinality(opinions[n]) = 0 /\ readyCounter[n] = 0 /\ ~output[n]
    BY <1>2, <1>7
  <2>4. ~(0 >= Threshold2) /\ ~(0 >= Amplify)
    BY <2>1, Constants
  <2> QED
    BY <2>2, <2>3, <2>4 DEF Noticed
<1>11. Backed
  BY <1>2 DEF Backed
<1>12. PartyInv
  <2>1. /\ receivedProposals = [n \in Honest |-> FALSE] /\ encCounter = [n \in Honest |-> {}]
        /\ doneCombination = [n \in Honest |-> FALSE] /\ lock = [n \in Honest |-> FALSE]
        /\ recovered = [n \in Honest |-> FALSE]
    BY DEF PartyInit
  <2> QED
    BY <2>1 DEF PartyInv
<1> QED
  BY <1>5, <1>8, <1>9, <1>10, <1>11, <1>12 DEF IInv, BroadcastInv

\* The broadcast goes on without the parties.
LEMMA BroadcastingInvariant ==
  ASSUME IInv, NEW n \in Honest, NEW p \in Node, Broadcasting(n, p)
  PROVE  IInv'
<1>1. Receive(n, p) /\ UNCHANGED party
  BY DEF Broadcasting
<1>2. PICK x, ms : Handles(n, p, x, ms) /\ x # "o" /\ ms # <<"o">>
  BY <1>1, ReceiveHandles DEF IInv
<1>3. BroadcastInv'
  BY <1>2, HandlesInvariant DEF IInv
<1>4. PartyInv'
  <2>1. Honest' = Honest /\ Honest \subseteq Node /\ ENC_THRESHOLD' = ENC_THRESHOLD
    BY <1>2 DEF Handles, Honest, ENC_THRESHOLD, N
  <2>2. \A m \in Honest : output[m] => output'[m]
    BY <1>2 DEF Handles
  <2>3. \A q \in Node, m \in Honest : Has(chan[q][m], "o") => Has(chan'[q][m], "o")
    BY <1>2, Channels DEF IInv, BroadcastInv
  <2>4. UNCHANGED <<receivedProposals, encCounter, doneCombination, lock, recovered>>
    BY <1>1 DEF party
  <2> QED
    BY <2>1, <2>2, <2>3, <2>4 DEF IInv, PartyInv
<1> QED
  BY <1>3, <1>4 DEF IInv

\* probe, whichever way it goes.
LEMMA Probed ==
  ASSUME IInv, NEW n \in Honest, NEW shares \in SUBSET Node, NEW proposals \in BOOLEAN,
         Probe(n, shares, proposals), receivedProposals[n] => proposals, UNCHANGED recovered
  PROVE  /\ doneCombination' \in [Honest -> BOOLEAN] /\ lock' \in [Honest -> BOOLEAN]
         /\ \A m \in Honest : m # n => doneCombination'[m] = doneCombination[m] /\ lock'[m] = lock[m]
         /\ proposals /\ Cardinality(shares) >= ENC_THRESHOLD => doneCombination'[n]
         /\ doneCombination'[n] <=> lock'[n] \/ recovered[n]
         /\ doneCombination'[n] => proposals
         /\ ~(lock'[n] /\ recovered[n])
<1>1. /\ doneCombination \in [Honest -> BOOLEAN] /\ lock \in [Honest -> BOOLEAN] /\ recovered \in [Honest -> BOOLEAN]
      /\ doneCombination[n] <=> lock[n] \/ recovered[n]
      /\ doneCombination[n] => receivedProposals[n]
      /\ ~(lock[n] /\ recovered[n])
  BY DEF IInv, PartyInv
<1>2. CASE Cardinality(shares) >= ENC_THRESHOLD /\ proposals /\ ~lock[n] /\ ~doneCombination[n]
  <2>1. doneCombination' = [doneCombination EXCEPT ![n] = TRUE] /\ lock' = [lock EXCEPT ![n] = TRUE]
    BY <1>2 DEF Probe
  <2> QED
    BY <1>1, <1>2, <2>1
<1>3. CASE ~(Cardinality(shares) >= ENC_THRESHOLD /\ proposals /\ ~lock[n] /\ ~doneCombination[n])
  <2>1. UNCHANGED <<doneCombination, lock>>
    BY <1>3 DEF Probe
  <2> QED
    BY <1>1, <1>3, <2>1
<1> QED
  BY <1>2, <1>3
LEMMA StutterInvariant == ASSUME BroadcastInv, UNCHANGED vars PROVE BroadcastInv'
<1>1. /\ UNCHANGED <<faulty, chan, signed, opinions, readyCounter, readySent, output>>
      /\ Honest' = Honest /\ Threshold' = Threshold /\ Threshold2' = Threshold2 /\ Amplify' = Amplify
  BY DEF vars, Honest, Threshold, Threshold2, Amplify, N
<1>2. \A m \in Honest : Came(m)' = Came(m)
  BY <1>1 DEF Came
<1>3. \A q, m \in Honest : Ahead(q, m)' <=> Ahead(q, m)
  BY <1>1 DEF Ahead
<1>4. Typed' /\ Echoed'
  BY <1>1 DEF BroadcastInv, Typed, Echoed
<1>5. Counted' /\ Noticed'
  BY <1>1, <1>2 DEF BroadcastInv, Counted, Noticed
<1>6. Backed'
  BY <1>1, <1>3 DEF BroadcastInv, Backed
<1> QED
  BY <1>4, <1>5, <1>6 DEF BroadcastInv

LEMMA ReceiveShareInvariant ==
  ASSUME IInv, NEW n \in Honest, NEW p \in Node, ReceiveShare(n, p)
  PROVE  IInv'
<1> USE DEF IInv, BroadcastInv
<1>1. /\ ShareArrives(n, p)
      /\ encCounter' = [encCounter EXCEPT ![n] = @ \cup {p}]
      /\ Probe(n, encCounter'[n], receivedProposals[n])
      /\ UNCHANGED <<faulty, signed, opinions, readyCounter, readySent, output, receivedProposals, recovered>>
  BY DEF ReceiveShare
<1>2. /\ Honest' = Honest /\ Honest \subseteq Node /\ ENC_THRESHOLD' = ENC_THRESHOLD
      /\ encCounter' \in [Honest -> SUBSET Node] /\ encCounter'[n] = encCounter[n] \cup {p}
      /\ \A m \in Honest : m # n => encCounter'[m] = encCounter[m]
      /\ receivedProposals \in [Honest -> BOOLEAN]
  BY <1>1 DEF Honest, ENC_THRESHOLD, N, PartyInv
<1>3. /\ BroadcastInv'
      /\ \A q \in Node, m \in Honest : Has(chan[q][m], "o") => Has(chan'[q][m], "o") \/ (q = p /\ m = n)
  <2>1. CASE UNCHANGED chan
    <3>1. UNCHANGED vars
      BY <1>1, <2>1 DEF vars
    <3> QED
      BY <2>1, <3>1, StutterInvariant
  <2>2. CASE chan[p][n] # <<>> /\ Head(chan[p][n]) = "o" /\ Consume(p, n, <<>>)
    <3>1. /\ <<>> \in Sendable /\ "o" \in Kinds /\ "o" # "none"
          /\ <<>> # <<"e">> /\ <<>> # <<"r">>
      BY DEF Sendable, Kinds
    <3>2. Typed'
      BY <1>1, <1>2, <2>2, <3>1, ConsumeTyped DEF Typed
    <3>3. Handles(n, p, "o", <<>>)
      BY <1>1, <1>2, <2>2, <3>1, <3>2 DEF Handles, Consume
    <3> QED
      BY <3>3, HandlesInvariant, Channels
  <2> QED
    BY <1>1, <2>1, <2>2 DEF ShareArrives
<1>4. PartyInv'
  <2>1. /\ doneCombination' \in [Honest -> BOOLEAN] /\ lock' \in [Honest -> BOOLEAN]
        /\ \A m \in Honest : m # n => doneCombination'[m] = doneCombination[m] /\ lock'[m] = lock[m]
        /\ receivedProposals[n] /\ Cardinality(encCounter'[n]) >= ENC_THRESHOLD => doneCombination'[n]
        /\ doneCombination'[n] <=> lock'[n] \/ recovered[n]
        /\ doneCombination'[n] => receivedProposals[n]
        /\ ~(lock'[n] /\ recovered[n])
    <3>1. encCounter'[n] \in SUBSET Node /\ receivedProposals[n] \in BOOLEAN
      BY <1>2
    <3> QED
      BY <1>1, <3>1, Probed
  <2>2. ASSUME NEW q \in Honest, NEW m \in Honest, receivedProposals[q]
        PROVE  q \in encCounter'[m] \/ Has(chan'[q][m], "o")
    <3>1. q \in encCounter[m] \/ Has(chan[q][m], "o")
      BY <2>2 DEF PartyInv
    <3>2. q \in encCounter[m] => q \in encCounter'[m]
      BY <1>2
    <3> QED
      BY <1>2, <1>3, <3>1, <3>2
  <2>3. UNCHANGED <<output, receivedProposals, recovered>>
    BY <1>1
  <2>4. /\ receivedProposals \in [Honest -> BOOLEAN] /\ recovered \in [Honest -> BOOLEAN]
        /\ \A m \in Honest : receivedProposals[m] => output[m]
        /\ \A m \in Honest : receivedProposals[m] /\ Cardinality(encCounter[m]) >= ENC_THRESHOLD => doneCombination[m]
        /\ \A m \in Honest : doneCombination[m] <=> lock[m] \/ recovered[m]
        /\ \A m \in Honest : doneCombination[m] => receivedProposals[m]
        /\ \A m \in Honest : ~(lock[m] /\ recovered[m])
    BY DEF PartyInv
  <2>5. \A m \in Honest : /\ receivedProposals[m] /\ Cardinality(encCounter'[m]) >= ENC_THRESHOLD => doneCombination'[m]
                          /\ doneCombination'[m] <=> lock'[m] \/ recovered[m]
                          /\ doneCombination'[m] => receivedProposals[m]
                          /\ ~(lock'[m] /\ recovered[m])
    BY <1>2, <2>1, <2>4
  <2> QED
    BY <1>2, <2>1, <2>2, <2>3, <2>4, <2>5 DEF PartyInv
<1> QED
  BY <1>3, <1>4

LEMMA IncludeInvariant == ASSUME IInv, NEW n \in Honest, Include(n) PROVE IInv'
<1> USE DEF IInv, BroadcastInv
<1>1. /\ output[n] /\ ~receivedProposals[n]
      /\ receivedProposals' = [receivedProposals EXCEPT ![n] = TRUE]
      /\ Probe(n, encCounter[n], TRUE)
      /\ chan' = [chan EXCEPT ![n] = [r \in Honest |-> Append(@[r], "o")]]
      /\ UNCHANGED <<faulty, signed, opinions, readyCounter, readySent, output, encCounter, recovered>>
  BY DEF Include
<1>2. /\ Honest' = Honest /\ Honest \subseteq Node /\ ENC_THRESHOLD' = ENC_THRESHOLD
      /\ receivedProposals' \in [Honest -> BOOLEAN] /\ receivedProposals'[n]
      /\ \A m \in Honest : m # n => receivedProposals'[m] = receivedProposals[m]
  BY <1>1 DEF Honest, ENC_THRESHOLD, N, PartyInv
<1>3. /\ <<"o">> \in Sendable /\ <<>> \in Sendable /\ "none" # "i" /\ "none" # "e" /\ "none" # "r"
      /\ <<"o">> # <<"e">> /\ <<"o">> # <<"r">>
  BY DEF Sendable
<1>4. chan' = [q \in Node |-> [r \in Honest |-> chan[q][r] \o (IF q = n THEN <<"o">> ELSE <<>>)]]
  <2>1. chan \in [Node -> [Honest -> Seq(Kinds)]] /\ n \in Node
    BY <1>2 DEF Typed
  <2>2. \A s \in Seq(Kinds) : s \o <<>> = s /\ s \o <<"o">> = Append(s, "o")
    OBVIOUS
  <2>3. \A q \in Node : q # n => chan[q] = [r \in Honest |-> chan[q][r] \o <<>>]
    BY <2>1, <2>2
  <2>4. [r \in Honest |-> Append(chan[n][r], "o")] = [r \in Honest |-> chan[n][r] \o <<"o">>]
    BY <2>1, <2>2
  <2>5. chan' = [q \in Node |-> IF q = n THEN [r \in Honest |-> Append(chan[n][r], "o")] ELSE chan[q]]
    BY <1>1, <2>1
  <2>6. ASSUME NEW q \in Node
        PROVE  (IF q = n THEN [r \in Honest |-> Append(chan[n][r], "o")] ELSE chan[q])
                   = [r \in Honest |-> chan[q][r] \o (IF q = n THEN <<"o">> ELSE <<>>)]
    <3>1. CASE q = n
      BY <2>4, <3>1
    <3>2. CASE q # n
      BY <2>3, <3>2
    <3> QED
      BY <3>1, <3>2
  <2> QED
    BY <2>5, <2>6
<1>5. Handles(n, n, "none", <<"o">>)
  <2>1. chan' \in [Node -> [Honest -> Seq(Kinds)]]
    <3>1. \A q \in Node, r \in Honest : chan[q][r] \o (IF q = n THEN <<"o">> ELSE <<>>) \in Seq(Kinds)
      <4>1. \A q \in Node, r \in Honest : chan[q][r] \in Seq(Kinds)
        BY DEF Typed
      <4>2. \A s \in Seq(Kinds) : s \o <<"o">> \in Seq(Kinds) /\ s \o <<>> \in Seq(Kinds)
        BY <1>3, Sent
      <4> QED
        BY <4>1, <4>2
    <3> QED
      BY <1>4, <3>1
  <2>2. Typed'
    BY <1>1, <1>2, <2>1 DEF Typed
  <2> DEFINE x == "none"
             ms == <<"o">>
  <2>3. /\ x \in Kinds \cup {"none"} /\ ms \in Sendable /\ x = "none"
        /\ x # "i" /\ x # "e" /\ x # "r" /\ ms # <<"e">> /\ ms # <<"r">>
    BY <1>3
  <2>4. chan' = [q \in Node |-> [r \in Honest |->
           (IF x # "none" /\ q = n /\ r = n THEN Tail(chan[q][r]) ELSE chan[q][r])
               \o (IF q = n THEN ms ELSE <<>>)]]
    BY <1>4
  <2> HIDE DEF x, ms
  <2>5. /\ faulty' = faulty
        /\ UNCHANGED <<signed, opinions, readyCounter, readySent, output>>
    BY <1>1
  <2>6. Handles(n, n, x, ms)
    BY <2>2, <2>3, <2>4, <2>5 DEF Handles
  <2> QED
    BY <2>6 DEF x, ms
<1>6. BroadcastInv'
  BY <1>2, <1>5, HandlesInvariant
<1>7. \A q \in Node, m \in Honest : (Has(chan[q][m], "o") \/ q = n) => Has(chan'[q][m], "o")
  <2>1. n \in Node /\ "o" # "none"
    BY <1>2
  <2> QED
    BY <1>5, <2>1, Channels
<1>8. PartyInv'
  <2>1. /\ doneCombination' \in [Honest -> BOOLEAN] /\ lock' \in [Honest -> BOOLEAN]
        /\ \A m \in Honest : m # n => doneCombination'[m] = doneCombination[m] /\ lock'[m] = lock[m]
        /\ Cardinality(encCounter[n]) >= ENC_THRESHOLD => doneCombination'[n]
        /\ doneCombination'[n] <=> lock'[n] \/ recovered[n]
        /\ ~(lock'[n] /\ recovered[n])
    <3>1. encCounter[n] \in SUBSET Node
      BY DEF PartyInv
    <3> QED
      BY <1>1, <3>1, Probed
  <2>2. /\ encCounter \in [Honest -> SUBSET Node] /\ recovered \in [Honest -> BOOLEAN]
        /\ \A m \in Honest : receivedProposals[m] => output[m]
        /\ \A q, m \in Honest : receivedProposals[q] => q \in encCounter[m] \/ Has(chan[q][m], "o")
        /\ \A m \in Honest : receivedProposals[m] /\ Cardinality(encCounter[m]) >= ENC_THRESHOLD => doneCombination[m]
        /\ \A m \in Honest : doneCombination[m] <=> lock[m] \/ recovered[m]
        /\ \A m \in Honest : doneCombination[m] => receivedProposals[m]
        /\ \A m \in Honest : ~(lock[m] /\ recovered[m])
    BY DEF PartyInv
  <2>3. \A q, m \in Honest : receivedProposals'[q] => q \in encCounter[m] \/ Has(chan'[q][m], "o")
    BY <1>2, <1>7, <2>2
  <2>4. \A m \in Honest : /\ receivedProposals'[m] => output[m]
                          /\ receivedProposals'[m] /\ Cardinality(encCounter[m]) >= ENC_THRESHOLD => doneCombination'[m]
                          /\ doneCombination'[m] <=> lock'[m] \/ recovered[m]
                          /\ doneCombination'[m] => receivedProposals'[m]
                          /\ ~(lock'[m] /\ recovered[m])
    BY <1>1, <1>2, <2>1, <2>2
  <2>5. UNCHANGED <<output, encCounter, recovered>>
    BY <1>1
  <2> QED
    BY <1>2, <2>1, <2>2, <2>3, <2>4, <2>5 DEF PartyInv
<1> QED
  BY <1>6, <1>8

LEMMA PrepareTxInvariant == ASSUME IInv, NEW n \in Honest, PrepareTx(n) PROVE IInv'
<1>1. /\ receivedProposals[n] /\ ~recovered[n] /\ lock[n]
      /\ lock' = [lock EXCEPT ![n] = FALSE]
      /\ recovered' = [recovered EXCEPT ![n] = TRUE]
      /\ UNCHANGED <<vars, receivedProposals, encCounter, doneCombination>>
  BY DEF PrepareTx
<1>2. BroadcastInv'
  BY <1>1, StutterInvariant DEF IInv
<1>3. PartyInv'
  <2>1. /\ lock' \in [Honest -> BOOLEAN] /\ recovered' \in [Honest -> BOOLEAN]
        /\ \A m \in Honest : /\ doneCombination[m] <=> lock'[m] \/ recovered'[m]
                             /\ ~(lock'[m] /\ recovered'[m])
    BY <1>1 DEF IInv, PartyInv
  <2>2. UNCHANGED <<chan, output>> /\ Honest' = Honest /\ ENC_THRESHOLD' = ENC_THRESHOLD
    BY <1>1 DEF vars, Honest, ENC_THRESHOLD, N
  <2> QED
    BY <1>1, <2>1, <2>2 DEF IInv, PartyInv
<1> QED
  BY <1>2, <1>3 DEF IInv
\* Every step of the parties preserves the invariant.
LEMMA NextInvariant == IInv /\ [PartyNext]_partyVars => IInv'
<1> SUFFICES ASSUME IInv, [PartyNext]_partyVars PROVE IInv'
  OBVIOUS
<1>1. CASE PartyNext
  <2>1. PICK n \in Honest : \/ \E p \in Node : Broadcasting(n, p) \/ ReceiveShare(n, p)
                            \/ Include(n) \/ PrepareTx(n)
    BY <1>1 DEF PartyNext
  <2>2. ASSUME NEW p \in Node, Broadcasting(n, p) PROVE IInv'
    BY <2>2, BroadcastingInvariant
  <2>3. ASSUME NEW p \in Node, ReceiveShare(n, p) PROVE IInv'
    BY <2>3, ReceiveShareInvariant
  <2>4. CASE Include(n)
    BY <2>4, IncludeInvariant
  <2>5. CASE PrepareTx(n)
    BY <2>5, PrepareTxInvariant
  <2> QED
    BY <2>1, <2>2, <2>3, <2>4, <2>5
<1>2. CASE UNCHANGED partyVars
  <2>1. UNCHANGED vars /\ UNCHANGED party
    BY <1>2 DEF partyVars
  <2>2. BroadcastInv'
    BY <2>1, StutterInvariant DEF IInv
  <2>3. UNCHANGED <<chan, output>> /\ Honest' = Honest /\ ENC_THRESHOLD' = ENC_THRESHOLD
    BY <2>1 DEF vars, Honest, ENC_THRESHOLD, N
  <2>4. PartyInv'
    BY <2>1, <2>3 DEF IInv, PartyInv, party
  <2> QED
    BY <2>2, <2>4 DEF IInv
<1> QED
  BY <1>1, <1>2

\* The inductive invariant of the earlier broadcast and its parties.
THEOREM PartyInvariant == PartySpec => []IInv
<1>1. PartyInit => IInv
  BY InitInvariant
<1>2. IInv /\ [PartyNext]_partyVars => IInv'
  BY NextInvariant
<1> QED
  BY <1>1, <1>2, PTL DEF PartySpec

-----------------------------------------------------------------------------
\* What follows from it

LEMMA Entries ==
  ASSUME NEW s \in Seq(Kinds)
  PROVE  \A x : Has(s, x) <=> \E i \in DOMAIN s : s[i] = x
<1>1. DOMAIN s = 1 .. Len(s)
  OBVIOUS
<1> QED
  BY <1>1 DEF Has

LEMMA StripesInvariant == ASSUME IInv PROVE StripesBehindReadies
<1> USE DEF IInv, BroadcastInv
<1> SUFFICES ASSUME NEW n \in Honest, \A p \in Honest : readySent[p] /\ \A i \in DOMAIN chan[p][n] : chan[p][n][i] # "r"
             PROVE  Cardinality(opinions[n]) >= Threshold
  BY DEF StripesBehindReadies
<1>1. \A p \in Honest : readySent[p] /\ ~Has(chan[p][n], "r")
  <2>1. \A p \in Honest : chan[p][n] \in Seq(Kinds)
    BY DEF Typed, Honest
  <2> QED
    BY <2>1, Entries
<1>2. PICK Q \in SUBSET Honest : Cardinality(Q) >= Threshold /\ \A p \in Q, m \in Honest : Ahead(p, m)
  BY <1>1, SomeHonest DEF Backed
<1>3. Q \in SUBSET opinions[n] /\ opinions[n] \in SUBSET Node /\ Q \in SUBSET Node
  BY <1>1, <1>2 DEF Ahead, Typed, Honest
<1>4. Cardinality(Q) <= Cardinality(opinions[n]) /\ Cardinality(Q) \in Nat /\ Cardinality(opinions[n]) \in Nat
  BY <1>3, Subsets
<1> QED
  BY <1>2, <1>4, Constants

\* In an empty channel there is nothing.
LEMMA NothingInTransit ==
  ASSUME IInv, Settled
  PROVE  \A p, n \in Honest, x \in Kinds : ~Has(chan[p][n], x)
<1>1. \A p, n \in Honest : chan[p][n] = <<>>
  BY DEF Settled
<1>2. \A x : ~Has(<<>>, x)
  BY DEF Has
<1> QED
  BY <1>1, <1>2

\* Once all honest nodes have sent READY and nothing is in transit, all have the message.
LEMMA ReadiesSuffice ==
  ASSUME IInv, Settled, \A p \in Honest : readySent[p]
  PROVE  \A n \in Honest : output[n]
<1>1. \A n \in Honest : Honest \subseteq Came(n)
  BY NothingInTransit DEF Came, Honest, Kinds
<1> QED
  BY <1>1 DEF IInv, BroadcastInv, Noticed

LEMMA AllOrNoneInvariant == ASSUME IInv PROVE AllOrNone
<1> USE DEF IInv, BroadcastInv
<1> SUFFICES ASSUME Settled
             PROVE  \A n, m \in Honest : output[n] = output[m] /\ (Leader \in Honest => output[n])
  BY DEF AllOrNone
<1>1. ASSUME NEW n \in Honest, output[n] PROVE \A m \in Honest : output[m]
  <2> DEFINE S == Came(n) \cap Honest
  <2>1. Came(n) \in SUBSET Node /\ Cardinality(Came(n)) >= Threshold2
    <3>1. readyCounter[n] >= Threshold2
      BY <1>1 DEF Noticed
    <3>2. readyCounter[n] = Cardinality(Came(n))
      BY DEF Counted
    <3>3. Came(n) \in SUBSET Node
      BY DEF Came
    <3> QED
      BY <3>1, <3>2, <3>3
  <2>2. Cardinality(S) >= Cardinality(Came(n)) - t /\ S \in SUBSET Node
    BY <2>1, HonestNodes
  <2>3. Cardinality(S) >= Amplify
    BY <2>1, <2>2, Subsets, Constants
  <2>4. ASSUME NEW m \in Honest PROVE readySent[m]
    <3>1. S \in SUBSET Came(m) /\ Came(m) \in SUBSET Node
      BY NothingInTransit DEF Came, Kinds
    <3>2. Cardinality(S) <= Cardinality(Came(m)) /\ Cardinality(S) \in Nat /\ Cardinality(Came(m)) \in Nat
      BY <2>2, <3>1, Subsets
    <3>3. readyCounter[m] >= Amplify
      BY <2>3, <3>2, Constants DEF Counted
    <3> QED
      BY <3>3 DEF Noticed
  <2> QED
    BY <2>4, ReadiesSuffice
<1>2. ASSUME Leader \in Honest PROVE \A n \in Honest : output[n]
  <2>1. \A p, m \in Honest : p \in opinions[m]
    BY <1>2, NothingInTransit DEF Echoed, Kinds
  <2>2. ASSUME NEW m \in Honest PROVE readySent[m]
    <3>1. Honest \in SUBSET opinions[m] /\ opinions[m] \in SUBSET Node /\ Honest \in SUBSET Node
      BY <2>1 DEF Typed, Honest
    <3>2. Cardinality(Honest) <= Cardinality(opinions[m]) /\ Cardinality(Honest) = N - t
      BY <3>1, Subsets, HonestNodes
    <3>3. Cardinality(opinions[m]) >= Threshold2
      BY <3>1, <3>2, Subsets, Constants
    <3> QED
      BY <3>3 DEF Noticed
  <2> QED
    BY <2>2, ReadiesSuffice
<1>3. output \in [Honest -> BOOLEAN]
  BY DEF Typed
<1> QED
  BY <1>1, <1>2, <1>3

LEMMA AllRecoverInvariant == ASSUME IInv PROVE AllRecover
<1> SUFFICES ASSUME NothingLeft
             PROVE  \A n, m \in Honest : recovered[n] = receivedProposals[m] /\ ~lock[n]
  BY DEF AllRecover
<1>1. Settled /\ \A n \in Honest : (output[n] => receivedProposals[n]) /\ (lock[n] => recovered[n])
  BY DEF NothingLeft
<1>2. /\ receivedProposals \in [Honest -> BOOLEAN] /\ recovered \in [Honest -> BOOLEAN]
      /\ encCounter \in [Honest -> SUBSET Node]
      /\ \A n \in Honest : receivedProposals[n] => output[n]
      /\ \A p, n \in Honest : receivedProposals[p] => p \in encCounter[n] \/ Has(chan[p][n], "o")
      /\ \A n \in Honest : receivedProposals[n] /\ Cardinality(encCounter[n]) >= ENC_THRESHOLD => doneCombination[n]
      /\ \A n \in Honest : doneCombination[n] <=> lock[n] \/ recovered[n]
      /\ \A n \in Honest : doneCombination[n] => receivedProposals[n]
      /\ \A n \in Honest : ~(lock[n] /\ recovered[n])
  BY DEF IInv, PartyInv
<1>3. \A n \in Honest : ~lock[n]
  BY <1>1, <1>2
<1>4. \A n, m \in Honest : receivedProposals[n] = receivedProposals[m]
  <2>1. \A n, m \in Honest : output[n] = output[m]
    BY <1>1, AllOrNoneInvariant DEF AllOrNone
  <2> QED
    BY <1>1, <1>2, <2>1
<1>5. ASSUME NEW n \in Honest, receivedProposals[n] PROVE recovered[n]
  <2>1. \A p \in Honest : p \in encCounter[n]
    BY <1>1, <1>2, <1>4, <1>5, NothingInTransit DEF Kinds
  <2>2. Honest \in SUBSET encCounter[n] /\ encCounter[n] \in SUBSET Node
    BY <1>2, <2>1
  <2>3. Cardinality(Honest) <= Cardinality(encCounter[n]) /\ Cardinality(Honest) = N - t /\ Cardinality(encCounter[n]) \in Nat
    BY <2>2, Subsets, HonestNodes DEF IInv, BroadcastInv, Typed
  <2>4. Cardinality(encCounter[n]) >= ENC_THRESHOLD
    BY <2>3, Constants
  <2> QED
    BY <1>2, <1>3, <1>5, <2>4
<1>6. \A n \in Honest : recovered[n] => receivedProposals[n]
  BY <1>2
<1>7. \A n \in Honest : recovered[n] = receivedProposals[n]
  BY <1>2, <1>5, <1>6
<1> QED
  BY <1>3, <1>4, <1>7

\* When the READYs of all honest nodes have arrived, so have enough stripes
\* (line 147): no node misses its last chance to reconstruct.
THEOREM StripesHold == PartySpec => []StripesBehindReadies
  BY PartyInvariant, StripesInvariant, PTL

\* Once nothing is in transit all honest nodes have the message or none has,
\* and all have that of an honest leader (lines 147-172).
THEOREM AllOrNoneHolds == PartySpec => []AllOrNone
  BY PartyInvariant, AllOrNoneInvariant, PTL

\* Once nothing is left to do all parties have the batch or none, whatever came
\* first, and no lock is left full (lines 288-360).
THEOREM AllRecoverHolds == PartySpec => []AllRecover
  BY PartyInvariant, AllRecoverInvariant, PTL
=============================================================================
