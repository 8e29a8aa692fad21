--------------------------- MODULE AlgorithmsProofs ---------------------------
(***************************************************************************)
(* Proofs about the algorithms, for inputs of every size: the padding of   *)
(* both erasure codes and of the symmetric cipher, the trees of hashes of  *)
(* both broadcasts, the shares of keys at every prime order, and messages, *)
(* proposals and the frames of sockets as bytes.  What needs induction     *)
(* takes it over sets of numbers (Least, Induction), never over operators; *)
(* the sums over sets of players are taken apart one player at a time      *)
(* (SubsetInduction).                                                      *)
(***************************************************************************)
EXTENDS Algorithms, SequenceTheorems, FiniteSetTheorems, WellFoundedInduction, TLAPS

\* Division with remainder.
LEMMA Division ==
  ASSUME NEW k \in Nat \ {0}, NEW a \in Nat
  PROVE  /\ a \div k \in Nat /\ a % k \in 0..(k - 1)
         /\ a = (k * (a \div k)) + (a % k)
  OBVIOUS

\* It is unique.
LEMMA DivisionUnique ==
  ASSUME NEW k \in Nat \ {0}, NEW u \in Nat, NEW w \in 0..(k - 1)
  PROVE  (k * u + w) \div k = u /\ (k * u + w) % k = w
  OBVIOUS

\* Products of natural numbers.
LEMMA Products ==
  ASSUME NEW a \in Nat, NEW b \in Nat, NEW s \in Nat
  PROVE  /\ a * s \in Nat
         /\ a <= b => a * s <= b * s
         /\ (a + 1) * s = a * s + s
         /\ a * s = s * a
<1>1. ASSUME a <= b PROVE a * s <= b * s
  <2>1. b - a \in Nat /\ b = a + (b - a)
    BY <1>1
  <2>2. (b - a) * s \in Nat /\ b * s = a * s + (b - a) * s
    BY <2>1
  <2>3. a * s \in Nat
    OBVIOUS
  <2> QED
    BY <2>2, <2>3
<1> QED
  BY <1>1

-----------------------------------------------------------------------------
\* The padding of encode and decode

\* chr(c).encode() has one byte below 128 and two above.
LEMMA EncodedByte ==
  ASSUME NEW c \in 0..255
  PROVE  /\ c < 128 => Erasure!Encoded(c) = <<c>>
         /\ c >= 128 => Erasure!Encoded(c) = <<192 + c \div 64, 128 + (c % 64)>>
         /\ Erasure!Encoded(c) \in Seq(Nat)
         /\ Len(Erasure!Encoded(c)) = IF c < 128 THEN 1 ELSE 2
<1>1. c \div 64 \in Nat /\ c % 64 \in Nat
  OBVIOUS
<1>2. <<c>> \in Seq(Nat) /\ Len(<<c>>) = 1
  OBVIOUS
<1>3. <<192 + c \div 64, 128 + (c % 64)>> \in Seq(Nat) /\ Len(<<192 + c \div 64, 128 + (c % 64)>>) = 2
  BY <1>1
<1> QED
  BY <1>2, <1>3 DEF Erasure!Encoded

\* Byte i of a string that is repeated n times.
LEMMA Repeated ==
  ASSUME NEW n \in Nat, NEW s \in Seq(Nat), s # <<>>
  PROVE  /\ Erasure!Times(n, s) \in Seq(Nat)
         /\ Len(Erasure!Times(n, s)) = n * Len(s)
         /\ \A i \in 1..(n * Len(s)) : Erasure!Times(n, s)[i] = s[1 + ((i - 1) % Len(s))]
<1>1. Len(s) \in Nat \ {0} /\ n * Len(s) \in Nat
  BY EmptySeq, LenProperties
<1>2. \A i \in 1..(n * Len(s)) : s[1 + ((i - 1) % Len(s))] \in Nat
  <2>1. ASSUME NEW i \in 1..(n * Len(s)) PROVE (i - 1) % Len(s) \in 0..(Len(s) - 1)
    <3>1. i - 1 \in Nat
      BY <1>1
    <3> QED
      BY <1>1, <3>1, Division
  <2> QED
    BY <1>1, <2>1, ElementOfSeq
<1>3. Erasure!Times(n, s) \in [1..(n * Len(s)) -> Nat]
  BY <1>2 DEF Erasure!Times
<1> QED
  BY <1>1, <1>3 DEF Erasure!Times

\* What encode pads a message to: the padding byte as often as it takes, which
\* is one byte or two.
LEMMA Padded ==
  ASSUME NEW K \in 1..256, NEW m \in Seq(Nat)
  PROVE  LET last == Len(m) % K
             e == Erasure!Encoded(last)
         IN  /\ last \in 0..(K - 1) /\ last \in 0..255
             /\ Erasure!Pad(K, m) \in Seq(Nat)
             /\ Len(Erasure!Pad(K, m)) = Len(m) + (K - last) * Len(e)
             /\ \A i \in 1..Len(m) : Erasure!Pad(K, m)[i] = m[i]
             /\ \A i \in 1..((K - last) * Len(e)) : Erasure!Pad(K, m)[Len(m) + i] = e[1 + ((i - 1) % Len(e))]
<1> DEFINE last == Len(m) % K
           e == Erasure!Encoded(last)
<1>0. last = Len(m) % K /\ e = Erasure!Encoded(last)
  OBVIOUS
<1> HIDE DEF last, e
<1>1. Len(m) \in Nat /\ last \in 0..(K - 1) /\ last \in 0..255
  <2>1. K \in Nat \ {0} /\ Len(m) \in Nat /\ K <= 256
    BY LenProperties
  <2>2. last \in 0..(K - 1)
    BY <1>0, <2>1, Division
  <2>3. \A x \in 0..(K - 1) : x \in 0..255
    BY <2>1
  <2> QED
    BY <2>1, <2>2, <2>3, Zenon
<1>2. e \in Seq(Nat) /\ e # <<>> /\ K - last \in Nat /\ K - (K - last) = last
  <2>1. e \in Seq(Nat) /\ Len(e) # 0
    <3>1. Erasure!Encoded(last) \in Seq(Nat) /\ Len(Erasure!Encoded(last)) = IF last < 128 THEN 1 ELSE 2
      BY <1>0, <1>1, EncodedByte, Zenon
    <3> QED
      BY <1>0, <3>1
  <2>2. e # <<>>
    BY <2>1, EmptySeq
  <2>3. K - last \in Nat /\ K - (K - last) = last
    BY <1>1
  <2> QED
    BY <2>1, <2>2, <2>3
<1> DEFINE pad == Erasure!Times(K - last, e)
<1>3. /\ pad \in Seq(Nat) /\ Len(pad) = (K - last) * Len(e) /\ Len(pad) \in Nat
      /\ \A i \in 1..((K - last) * Len(e)) : pad[i] = e[1 + ((i - 1) % Len(e))]
  <2>1. /\ pad \in Seq(Nat) /\ Len(pad) = (K - last) * Len(e)
        /\ \A i \in 1..((K - last) * Len(e)) : pad[i] = e[1 + ((i - 1) % Len(e))]
    BY <1>2, Repeated
  <2> QED
    BY <2>1, LenProperties
<1>4. Erasure!Pad(K, m) = m \o pad
  BY <1>0, <1>2 DEF Erasure!Pad
<1> HIDE DEF pad
<1>5. /\ m \o pad \in Seq(Nat) /\ Len(m \o pad) = Len(m) + Len(pad)
      /\ \A i \in 1..(Len(m) + Len(pad)) : (m \o pad)[i] = IF i <= Len(m) THEN m[i] ELSE pad[i - Len(m)]
  BY <1>3, ConcatProperties, Zenon
<1>6. \A i \in 1..Len(pad) : (m \o pad)[Len(m) + i] = pad[i]
  <2>1. ASSUME NEW i \in 1..Len(pad)
        PROVE  /\ Len(m) + i \in 1..(Len(m) + Len(pad))
               /\ ~((Len(m) + i) <= Len(m))
               /\ (Len(m) + i) - Len(m) = i
    BY <1>1, <1>3
  <2> QED
    BY <1>5, <2>1
<1>7. \A i \in 1..Len(m) : (m \o pad)[i] = m[i]
  BY <1>1, <1>3, <1>5
<1> QED
  <2>1. Erasure!Pad(K, m) \in Seq(Nat) /\ Len(Erasure!Pad(K, m)) = Len(m) + (K - last) * Len(e)
    BY <1>3, <1>4, <1>5
  <2>2. \A i \in 1..Len(m) : Erasure!Pad(K, m)[i] = m[i]
    BY <1>4, <1>7
  <2>3. \A i \in 1..((K - last) * Len(e)) : Erasure!Pad(K, m)[Len(m) + i] = e[1 + ((i - 1) % Len(e))]
    <3>1. 1..Len(pad) = 1..((K - last) * Len(e))
      BY <1>3
    <3>2. \A i \in 1..Len(pad) : pad[i] = e[1 + ((i - 1) % Len(e))]
      BY <1>3, <3>1, Zenon
    <3>3. \A i \in 1..Len(pad) : (m \o pad)[Len(m) + i] = e[1 + ((i - 1) % Len(e))]
      BY <1>6, <3>2, Zenon
    <3> QED
      BY <1>4, <3>1, <3>3, Zenon
  <2> QED
    BY <1>1, <2>1, <2>2, <2>3, Zenon DEF last, e

\* Cut into blocks and joined again, a message keeps what fills whole blocks.
LEMMA BlocksJoined ==
  ASSUME NEW K \in Nat \ {0}, NEW p \in Seq(Nat)
  PROVE  LET step == Len(p) \div K
         IN  /\ step \in Nat /\ K * step \in 0..Len(p)
             /\ Erasure!Join(Erasure!Blocks(K, p)) = SubSeq(p, 1, K * step)
<1> DEFINE step == Len(p) \div K
<1>0. step = Len(p) \div K
  OBVIOUS
<1> HIDE DEF step
<1>1. Len(p) \in Nat /\ step \in Nat /\ K * step \in Nat /\ K * step <= Len(p)
  <2>1. Len(p) \in Nat
    BY LenProperties
  <2>2. /\ Len(p) \div K \in Nat /\ Len(p) % K \in 0..(K - 1)
        /\ Len(p) = (K * (Len(p) \div K)) + (Len(p) % K)
    BY <2>1, Division, Zenon
  <2>3. step \in Nat /\ Len(p) = (K * step) + (Len(p) % K)
    BY <1>0, <2>2, Zenon
  <2>4. K * step \in Nat
    BY <2>3
  <2> QED
    BY <2>1, <2>2, <2>3, <2>4
<1> DEFINE blocks == Erasure!Blocks(K, p)
<1>2. blocks = [i \in 1..K |-> SubSeq(p, (i - 1) * step + 1, i * step)]
  BY <1>0 DEF Erasure!Blocks
<1>3. ASSUME NEW i \in 1..K
      PROVE  /\ Len(blocks[i]) = step
             /\ \A k \in 1..step : blocks[i][k] = p[(i - 1) * step + k]
  <2>1. /\ (i - 1) * step \in Nat /\ i * step \in Nat
        /\ i * step = (i - 1) * step + step /\ i * step <= K * step
    <3> DEFINE before == i - 1
    <3>1. before \in Nat /\ before + 1 = i /\ i \in Nat /\ i <= K /\ K \in Nat
      OBVIOUS
    <3> HIDE DEF before
    <3>2. before * step \in Nat /\ (before + 1) * step = before * step + step
      BY <1>1, <3>1, Products, Zenon
    <3>3. i * step \in Nat /\ i * step <= K * step
      BY <1>1, <3>1, Products, Zenon
    <3> QED
      BY <3>1, <3>2, <3>3, Zenon DEF before
  <2>2. blocks[i] = SubSeq(p, (i - 1) * step + 1, i * step)
    BY <1>2
  <2> DEFINE lo == (i - 1) * step + 1
             hi == i * step
  <2>3. lo \in Int /\ hi \in Int /\ lo \in Nat \ {0} /\ hi <= Len(p) /\ hi - lo + 1 = step
    <3> DEFINE below == (i - 1) * step
               all == K * step
    <3>1. below \in Nat /\ all \in Nat /\ all <= Len(p) /\ hi \in Nat /\ hi = below + step /\ hi <= all
          /\ lo = below + 1
      BY <1>1, <2>1
    <3> HIDE DEF below, all, lo, hi
    <3> QED
      BY <1>1, <3>1
  <2> HIDE DEF lo, hi, blocks
  <2>4. \A j \in lo..hi : p[j] \in Nat
    BY <2>3, <1>1, ElementOfSeq
  <2>5. /\ Len(SubSeq(p, lo, hi)) = IF lo <= hi THEN hi - lo + 1 ELSE 0
        /\ \A k \in 1..(hi - lo + 1) : SubSeq(p, lo, hi)[k] = p[lo + k - 1]
    BY <2>3, <2>4, SubSeqProperties
  <2>6. Len(SubSeq(p, lo, hi)) = step
    BY <1>1, <2>3, <2>5
  <2>7. \A k \in 1..step : SubSeq(p, lo, hi)[k] = p[(i - 1) * step + k]
    <3>1. \A k \in 1..step : lo + k - 1 = (i - 1) * step + k
      BY <1>1, <2>1 DEF lo
    <3> QED
      BY <2>3, <2>5, <3>1
  <2>8. blocks[i] = SubSeq(p, lo, hi)
    BY <2>2 DEF lo, hi
  <2> QED
    BY <2>6, <2>7, <2>8
<1>4. Len(blocks) = K
  BY <1>2
<1> HIDE DEF blocks
<1>5. Erasure!Join(blocks) =
        [i \in 1..(K * step) |-> blocks[1 + ((i - 1) \div step)][1 + ((i - 1) % step)]]
  <2>1. Len(blocks[1]) = step
    BY <1>3
  <2> QED
    BY <1>4, <2>1, Zenon DEF Erasure!Join
<1>6. ASSUME NEW i \in 1..(K * step)
      PROVE  blocks[1 + ((i - 1) \div step)][1 + ((i - 1) % step)] = p[i]
  <2> DEFINE u == (i - 1) \div step
             w == (i - 1) % step
  <2>1. step \in Nat \ {0} /\ i - 1 \in Nat
    BY <1>1
  <2>2. u \in Nat /\ w \in 0..(step - 1) /\ i - 1 = (step * u) + w
    BY <2>1, Division
  <2> HIDE DEF u, w
  <2>3. u < K
    <3>1. SUFFICES ASSUME u >= K PROVE FALSE
      BY <2>2
    <3>2. u * step \in Nat /\ K * step <= u * step /\ u * step = step * u
      BY <1>1, <2>1, <2>2, <3>1, Products
    <3> DEFINE all == K * step
               low == u * step
    <3>3. all \in Nat /\ low \in Nat /\ all <= low /\ i <= all /\ i - 1 = low + w
      BY <1>1, <2>2, <3>2
    <3> HIDE DEF all, low
    <3> QED
      BY <2>2, <3>3
  <2>4. 1 + u \in 1..K /\ 1 + w \in 1..step /\ ((1 + u) - 1) * step + (1 + w) = i
    <3>1. 1 + u \in 1..K /\ 1 + w \in 1..step /\ (1 + u) - 1 = u
      BY <1>1, <2>2, <2>3
    <3>2. u * step \in Nat /\ u * step = step * u
      BY <1>1, <2>2, Products
    <3> DEFINE low == u * step
    <3>3. low \in Nat /\ i - 1 = low + w
      BY <2>2, <3>2
    <3> HIDE DEF low
    <3>4. low + (1 + w) = i
      BY <2>2, <3>3
    <3> QED
      BY <3>1, <3>4 DEF low
  <2>5. blocks[1 + u][1 + w] = p[((1 + u) - 1) * step + (1 + w)]
    BY <1>3, <2>4
  <2> QED
    BY <2>4, <2>5 DEF u, w
<1>7. Erasure!Join(blocks) = [i \in 1..(K * step) |-> p[i]]
  BY <1>5, <1>6
<1>8. SubSeq(p, 1, K * step) = [i \in 1..(K * step) |-> p[i]]
  <2> DEFINE hi == K * step
  <2>1. hi \in Nat /\ hi <= Len(p)
    BY <1>1
  <2> HIDE DEF hi
  <2>2. SubSeq(p, 1, hi) = [i \in 1..hi |-> p[i]]
    BY <2>1
  <2> QED
    BY <2>2 DEF hi
<1> QED
  <2> DEFINE all == K * step
  <2>1. all \in Nat /\ all <= Len(p) /\ Len(p) \in Nat
    BY <1>1
  <2> HIDE DEF all
  <2>2. all \in 0..Len(p)
    BY <2>1
  <2>3. K * step \in 0..Len(p)
    BY <2>2, Zenon DEF all
  <2> QED
    BY <1>1, <1>7, <1>8, <2>3, Zenon DEF blocks, step

\* Any set of numbers has a least one.
LEMMA Least ==
  ASSUME NEW S \in SUBSET Nat, S # {}
  PROVE  \E m \in S : \A k \in S : m <= k
<1> DEFINE Less == {p \in Nat \X Nat : p[1] < p[2]}
<1>1. IsWellFoundedOn(Less, Nat)
  BY NatLessThanWellFounded DEF OpToRel
<1>2. \A k, m \in S : <<k, m>> \in Less <=> k < m
  OBVIOUS
<1> HIDE DEF Less
<1>3. PICK m \in S : \A k \in S : ~ (<<k, m>> \in Less)
  BY <1>1, WFMin
<1>4. \A k \in S : k \in Nat /\ m \in Nat /\ ~(k < m)
  BY <1>2, <1>3
<1> QED
  BY <1>4

\* A set of K numbers or more has a K-th smallest.
LEMMA KthThere ==
  ASSUME NEW N \in Nat, NEW T \in SUBSET (1..N), NEW K \in Nat \ {0}, K <= Cardinality(T)
  PROVE  \E i \in T : Cardinality({j \in T : j <= i}) = K
<1> DEFINE upto(i) == {j \in T : j <= i}
           S == {i \in Nat : Cardinality(upto(i)) >= K}
<1>1. \A j \in T : j \in Nat \ {0} /\ j <= N
  OBVIOUS
<1>2. \A i : IsFiniteSet(upto(i)) /\ Cardinality(upto(i)) \in Nat
  <2>1. IsFiniteSet(T)
    <3>1. IsFiniteSet(1..N)
      BY FS_Interval
    <3> QED
      BY <3>1, FS_Subset
  <2> QED
    BY <2>1, FS_Subset, FS_CardinalityType
<1>3. PICK m \in Nat : m \in S /\ \A i \in Nat : i < m => i \notin S
  <2>1. upto(N) = T
    BY <1>1
  <2>2. N \in S
    BY <2>1, <1>2
  <2>3. PICK m \in S : \A i \in S : m <= i
    BY <2>2, Least
  <2>4. m \in Nat
    BY <2>3
  <2>5. \A i \in Nat : i < m => i \notin S
    <3> HIDE DEF S
    <3> QED
      BY <2>3, <2>4
  <2> HIDE DEF S
  <2> QED
    BY <2>3, <2>4, <2>5
<1>4. Cardinality(upto(m)) >= K
  BY <1>3
<1>5. m # 0
  <2>1. \A j \in T : ~(j <= 0)
    BY <1>1
  <2>2. upto(0) = {}
    BY <2>1
  <2>3. Cardinality(upto(0)) = 0
    BY <2>2, FS_EmptySet
  <2> HIDE DEF upto
  <2> QED
    BY <1>4, <2>3
<1>6. Cardinality(upto(m - 1)) < K
  <2>1. m - 1 \in Nat /\ m - 1 < m
    BY <1>5
  <2>2. ~(Cardinality(upto(m - 1)) >= K)
    BY <1>3, <2>1
  <2>3. Cardinality(upto(m - 1)) \in Nat
    BY <1>2
  <2> HIDE DEF upto, S
  <2> QED
    BY <2>2, <2>3
<1>7. \A j \in T : j <= m <=> j <= m - 1 \/ j = m
  BY <1>1
<1>8. m \in T
  <2>1. m \notin T => upto(m) = upto(m - 1)
    BY <1>7
  <2> QED
    BY <2>1, <1>2, <1>4, <1>6
<1>9. upto(m) = upto(m - 1) \cup {m}
  BY <1>7, <1>8
<1> HIDE DEF upto, S
<1>10. Cardinality(upto(m)) <= Cardinality(upto(m - 1)) + 1
  BY <1>2, <1>9, FS_AddElement
<1>11. Cardinality(upto(m)) = K
  BY <1>2, <1>4, <1>6, <1>10
<1> QED
  BY <1>8, <1>11 DEF upto

\* How long the padded message is, in blocks: the bytes that are kept fill one
\* block row more than the message does, whether the padding byte takes one
\* byte or two.
LEMMA PaddedStep ==
  ASSUME NEW K \in Nat \ {0}, NEW n \in Nat, NEW c \in {1, 2}, c = 2 => n % K > 0
  PROVE  LET last == n % K
         IN  /\ (n + (K - last) * c) \div K = n \div K + 1
             /\ K * (n \div K + 1) = n + (K - last)
             /\ last <= n
<1> DEFINE q == n \div K
           last == n % K
<1>0. c = 2 => last > 0
  OBVIOUS
<1>1. q \in Nat /\ last \in 0..(K - 1) /\ n = (K * q) + last
  BY Division
<1> HIDE DEF q, last
<1>2. K * q \in Nat /\ K * (q + 1) = K * q + K
  BY <1>1
<1> DEFINE low == K * q
           more == IF c = 1 THEN 0 ELSE K - last
<1>3. low \in Nat /\ n = low + last /\ more \in 0..(K - 1) /\ last <= n
  <2> HIDE DEF low
  <2>1. low \in Nat /\ n = low + last
    BY <1>1, <1>2 DEF low
  <2>2. more \in 0..(K - 1)
    <3>1. CASE c = 1
      BY <3>1
    <3>2. CASE c = 2
      BY <1>0, <1>1, <3>2
    <3> QED
      BY <3>1, <3>2
  <2> HIDE DEF more
  <2> QED
    BY <1>1, <2>1, <2>2
<1>4. n + (K - last) * c = (low + K) + more
  <2>1. CASE c = 1
    BY <1>1, <1>3, <2>1
  <2>2. CASE c = 2
    BY <1>0, <1>1, <1>3, <2>2
  <2> QED
    BY <2>1, <2>2
<1>5. n + (K - last) * c = K * (q + 1) + more
  BY <1>2, <1>4
<1>6. (K * (q + 1) + more) \div K = q + 1
  <2>1. q + 1 \in Nat /\ more \in 0..(K - 1)
    BY <1>1, <1>3
  <2> HIDE DEF more
  <2> QED
    BY <2>1, DivisionUnique
<1>7. low + K = n + (K - last)
  BY <1>1, <1>3
<1> QED
  BY <1>2, <1>3, <1>5, <1>6, <1>7, Zenon DEF q, last, low

\* What zfec gives back: the message, and K - last bytes of the padding.
LEMMA Kept ==
  ASSUME NEW K \in 1..256, NEW m \in Seq(Nat)
  PROVE  LET last == Len(m) % K
             e == Erasure!Encoded(last)
             kept == Erasure!Join(Erasure!Blocks(K, Erasure!Pad(K, m)))
         IN  /\ last \in 0..(K - 1) /\ last \in 0..255 /\ Len(m) \in Nat /\ last <= Len(m)
             /\ kept \in Seq(Nat)
             /\ Len(kept) = Len(m) + (K - last)
             /\ \A i \in 1..Len(m) : kept[i] = m[i]
             /\ kept[Len(m) + (K - last)] = e[1 + (((K - last) - 1) % Len(e))]
<1> DEFINE p == Erasure!Pad(K, m)
           n == Len(m)
           last == n % K
           e == Erasure!Encoded(last)
           c == Len(e)
           step == Len(p) \div K
           all == n + (K - last)
           whole == (K - last) * c
           kept == Erasure!Join(Erasure!Blocks(K, p))
           final == e[1 + (((K - last) - 1) % c)]
<1>1. n \in Nat /\ K \in Nat \ {0}
  BY LenProperties
<1>2. /\ last \in 0..(K - 1) /\ last \in 0..255
      /\ p \in Seq(Nat)
      /\ Len(p) = n + whole
      /\ \A i \in 1..n : p[i] = m[i]
      /\ \A i \in 1..whole : p[n + i] = e[1 + ((i - 1) % c)]
  BY Padded, Zenon
<1>3. c \in {1, 2} /\ (c = 2 => last > 0)
  <2>1. c = IF last < 128 THEN 1 ELSE 2
    BY <1>2, EncodedByte, Zenon
  <2> HIDE DEF c, last
  <2> QED
    BY <1>2, <2>1
<1>4. (n + whole) \div K = n \div K + 1 /\ K * (n \div K + 1) = all /\ last <= n
  BY <1>1, <1>3, PaddedStep, Zenon
<1>5. K * step = all
  BY <1>2, <1>4, Zenon
<1>6. K * step \in 0..Len(p) /\ kept = SubSeq(p, 1, K * step)
  BY <1>1, <1>2, BlocksJoined, Zenon
<1>7. kept = SubSeq(p, 1, all) /\ all \in 0..Len(p)
  BY <1>5, <1>6, Zenon
<1>8. K - last \in 1..whole
  <2> HIDE DEF c, last
  <2>1. CASE c = 1
    BY <1>1, <1>2, <2>1
  <2>2. CASE c = 2
    BY <1>1, <1>2, <2>2
  <2> QED
    BY <1>3, <2>1, <2>2
<1>9. p[all] = final
  BY <1>2, <1>8, Zenon
<1> HIDE DEF p, n, last, e, step, kept, final
<1>10. all \in Nat /\ all >= 1 /\ n <= all /\ all <= Len(p) /\ Len(p) \in Nat
  BY <1>1, <1>2, <1>7
<1> HIDE DEF all
<1>11. /\ kept \in Seq(Nat) /\ Len(kept) = all
       /\ \A i \in 1..all : kept[i] = p[i]
  <2>1. \A i \in 1..all : p[i] \in Nat
    BY <1>2, <1>10, ElementOfSeq
  <2>2. /\ SubSeq(p, 1, all) \in Seq(Nat)
        /\ Len(SubSeq(p, 1, all)) = IF 1 <= all THEN all - 1 + 1 ELSE 0
        /\ \A i \in 1..(all - 1 + 1) : SubSeq(p, 1, all)[i] = p[1 + i - 1]
    BY <1>10, <2>1, SubSeqProperties
  <2>3. all - 1 + 1 = all /\ \A i \in 1..all : 1 + i - 1 = i
    BY <1>10
  <2> QED
    BY <1>7, <1>10, <2>2, <2>3
<1>12. \A i \in 1..n : kept[i] = m[i]
  <2>1. \A i \in 1..n : i \in 1..all
    BY <1>1, <1>10
  <2> QED
    BY <1>2, <1>11, <2>1, Zenon
<1>13. kept[all] = final
  <2>1. all \in 1..all
    BY <1>10
  <2> QED
    BY <1>9, <1>11, <2>1, Zenon
<1> QED
  BY <1>1, <1>2, <1>4, <1>11, <1>12, <1>13, Zenon DEF p, n, last, e, kept, all, final

\* The last byte that is kept, and when it is the right one.
LEMMA LastByte ==
  ASSUME NEW K \in 1..256, NEW last \in 0..255, last < K
  PROVE  LET e == Erasure!Encoded(last)
             b == e[1 + (((K - last) - 1) % Len(e))]
         IN  /\ b \in Nat
             /\ b = last \/ (last >= 128 /\ b \in 128..195)
             /\ b = last <=> \/ last < 128
                             \/ last \in 128..191 /\ (K - last) % 2 = 0
                             \/ last = 195 /\ (K - last) % 2 = 1
<1> DEFINE e == Erasure!Encoded(last)
           b == e[1 + (((K - last) - 1) % Len(e))]
<1>1. CASE last < 128
  <2>1. e = <<last>> /\ Len(e) = 1
    BY <1>1, EncodedByte
  <2>2. ((K - last) - 1) % 1 = 0
    OBVIOUS
  <2>3. b = last
    BY <2>1, <2>2
  <2> QED
    BY <1>1, <2>3
<1>2. CASE last >= 128
  <2> DEFINE d == (K - last) - 1
             first == 192 + last \div 64
             second == 128 + (last % 64)
  <2>1. e = <<first, second>> /\ Len(e) = 2
    BY <1>2, EncodedByte, ZenonT(60)
  <2>2. /\ first = (IF last < 192 THEN 194 ELSE 195)
        /\ second = (IF last < 192 THEN last ELSE last - 64)
    BY <1>2
  <2>3. d \in Nat /\ K - last = d + 1
    OBVIOUS
  <2> HIDE DEF d, first, second
  <2>4. d % 2 \in {0, 1} /\ ((K - last) % 2 = 1 <=> d % 2 = 0) /\ ((K - last) % 2 = 0 <=> d % 2 = 1)
    <3> DEFINE half == d \div 2
               odd == d % 2
    <3>1. half \in Nat /\ odd \in {0, 1} /\ d = 2 * half + odd
      BY <2>3
    <3>2. (2 * half + 1) % 2 = 1 /\ (2 * (half + 1) + 0) % 2 = 0
      <4> HIDE DEF half
      <4> QED
        BY <3>1
    <3> HIDE DEF half, odd
    <3>3. odd = 0 => K - last = 2 * half + 1
      BY <2>3, <3>1
    <3>4. odd = 1 => K - last = 2 * (half + 1) + 0
      BY <2>3, <3>1
    <3>5. odd \in {0, 1} /\ ((K - last) % 2 = 1 <=> odd = 0) /\ ((K - last) % 2 = 0 <=> odd = 1)
      BY <3>1, <3>2, <3>3, <3>4
    <3> QED
      BY <3>5 DEF odd
  <2>5. b = IF d % 2 = 0 THEN first ELSE second
    <3>1. b = e[1 + (d % 2)]
      BY <2>1 DEF d
    <3> HIDE DEF b, e
    <3> QED
      BY <2>1, <2>4, <3>1
  <2> HIDE DEF b
  <2>6. /\ b \in Nat
        /\ b = last \/ (last >= 128 /\ b \in 128..195)
        /\ b = last <=> \/ last \in 128..191 /\ d % 2 = 1
                        \/ last = 195 /\ d % 2 = 0
    BY <1>2, <2>2, <2>4, <2>5
  <2>7. /\ b \in Nat
        /\ b = last \/ (last >= 128 /\ b \in 128..195)
        /\ b = last <=> \/ last < 128
                        \/ last \in 128..191 /\ (K - last) % 2 = 0
                        \/ last = 195 /\ (K - last) % 2 = 1
    BY <1>2, <2>4, <2>6
  <2> QED
    BY <2>7, Zenon DEF b
<1> QED
  BY <1>1, <1>2

\* What decode cuts off, and what it can rely on: the blocks hold the message
\* and padlen bytes more, of which the last is right, or at least 128.
Cutting(kept, padlen) ==
    IF padlen > 0 THEN SubSeq(kept, 1, Len(kept) - padlen)
    ELSE IF -padlen < Len(kept) THEN SubSeq(kept, 1, -padlen) ELSE kept

Holds(K, m, last, kept, b) ==
    /\ K \in 1..256 /\ m \in Seq(Nat) /\ last \in 0..(K - 1) /\ last <= Len(m)
    /\ kept \in Seq(Nat) /\ Len(kept) = Len(m) + (K - last)
    /\ \A i \in 1..Len(m) : kept[i] = m[i]
    /\ b \in Nat /\ (b = last \/ (last >= 128 /\ b \in 128..195))

\* It is the message only if the last byte is len(m) % K.
LEMMA Cut ==
  ASSUME NEW K, NEW m, NEW last, NEW kept, NEW b, Holds(K, m, last, kept, b)
  PROVE  Cutting(kept, K - b) = m <=> b = last
<1> DEFINE n == Len(m)
           l == Len(kept)
           padlen == K - b
           got == Cutting(kept, padlen)
<1>0. /\ K \in 1..256 /\ m \in Seq(Nat) /\ last \in 0..(K - 1) /\ last <= n
      /\ kept \in Seq(Nat) /\ l = n + (K - last)
      /\ \A i \in 1..n : kept[i] = m[i]
      /\ b \in Nat /\ (b = last \/ (last >= 128 /\ b \in 128..195))
  BY Zenon DEF Holds
<1>1. n \in Nat /\ K \in Nat /\ l = n + (K - last) /\ last \in Nat /\ last < K /\ last <= n /\ padlen \in Int
  BY <1>0, LenProperties
<1> HIDE DEF n, l
<1>2. l \in Nat /\ n < l
  BY <1>1
<1>3. ASSUME NEW h \in 0..l
      PROVE  SubSeq(kept, 1, h) \in Seq(Nat) /\ Len(SubSeq(kept, 1, h)) = h
             /\ \A i \in 1..h : SubSeq(kept, 1, h)[i] = kept[i]
  <2>1. h \in Nat /\ h <= l
    BY <1>2
  <2>2. \A i \in 1..h : kept[i] \in Nat
    <3>1. \A i \in 1..h : i \in 1..l
      BY <1>2, <2>1
    <3> QED
      BY <1>0, <3>1, ElementOfSeq DEF l
  <2>3. /\ SubSeq(kept, 1, h) \in Seq(Nat)
        /\ Len(SubSeq(kept, 1, h)) = IF 1 <= h THEN h - 1 + 1 ELSE 0
        /\ \A i \in 1..(h - 1 + 1) : SubSeq(kept, 1, h)[i] = kept[1 + i - 1]
    BY <2>1, <2>2, SubSeqProperties
  <2>4. h - 1 + 1 = h /\ \A i \in 1..h : 1 + i - 1 = i
    BY <2>1
  <2> QED
    BY <2>1, <2>3, <2>4
<1>4. CASE b = last
  <2>1. padlen > 0 /\ l - padlen = n /\ n \in 0..l
    BY <1>1, <1>2, <1>4
  <2> HIDE DEF padlen
  <2>2. got = SubSeq(kept, 1, n)
    BY <2>1, Zenon DEF Cutting, l
  <2>3. SubSeq(kept, 1, n) \in Seq(Nat) /\ Len(SubSeq(kept, 1, n)) = n
        /\ \A i \in 1..n : SubSeq(kept, 1, n)[i] = kept[i]
    BY <1>3, <2>1
  <2>4. \A i \in 1..n : SubSeq(kept, 1, n)[i] = m[i]
    BY <1>0, <2>3, Zenon DEF n
  <2>5. SubSeq(kept, 1, n) = m
    BY <1>0, <2>3, <2>4, SeqEqual DEF n
  <2> QED
    BY <1>4, <2>2, <2>5, Zenon DEF padlen
<1>5. CASE b # last
  <2>1. last >= 128 /\ b \in 128..195
    BY <1>0, <1>5
  <2>2. n >= 128 /\ K > 128
    BY <1>1, <2>1
  <2>3. Len(got) # n
    <3>1. CASE padlen > 0
      <4>1. l - padlen \in 0..l /\ l - padlen # n
        BY <1>1, <1>2, <1>5, <2>1, <2>2, <3>1
      <4>2. Len(SubSeq(kept, 1, l - padlen)) = l - padlen
        BY <1>3, <4>1
      <4>3. got = SubSeq(kept, 1, l - padlen)
        BY <3>1, Zenon DEF Cutting, l
      <4> QED
        BY <4>1, <4>2, <4>3, Zenon
    <3>2. CASE ~(padlen > 0) /\ -padlen < l
      <4>1. -padlen \in 0..l /\ -padlen # n
        BY <1>1, <1>2, <2>1, <2>2, <3>2
      <4>2. Len(SubSeq(kept, 1, -padlen)) = -padlen
        BY <1>3, <4>1
      <4>3. got = SubSeq(kept, 1, -padlen)
        BY <3>2, Zenon DEF Cutting, l
      <4> QED
        BY <4>1, <4>2, <4>3, Zenon
    <3>3. CASE ~(padlen > 0) /\ ~(-padlen < l)
      <4>1. got = kept
        BY <3>3, Zenon DEF Cutting, l
      <4>2. l # n
        BY <1>1, <1>2
      <4> QED
        BY <4>1, <4>2, Zenon DEF l
    <3> QED
      BY <3>1, <3>2, <3>3, Zenon
  <2>4. got # m
    BY <2>3, Zenon DEF n
  <2> QED
    BY <1>5, <2>4, Zenon
<1> QED
  BY <1>4, <1>5, Zenon

\* decode of all stripes but the lost ones gives the message back precisely
\* when the last byte kept is len(m) % K.
RoundTrip(K, N, m, lost) ==
    LET stripes == Erasure!Encode(K, N, m)
        got == Erasure!Decode(K, [i \in 1..N |-> IF i \in lost THEN Erasure!None ELSE stripes[i]])
        last == Len(m) % K
    IN  got = m <=> \/ last < 128
                    \/ last \in 128..191 /\ (K - last) % 2 = 0
                    \/ last = 195 /\ (K - last) % 2 = 1

\* This is so for every message, every K that encode takes and any stripes
\* that are lost, as long as K are left (encode and decode of
\* reliablebroadcast.py).
THEOREM StripesDecode ==
  ASSUME NEW K \in 1..256, NEW N \in Nat, NEW m \in Seq(Nat), NEW lost,
         Cardinality((1..N) \ lost) >= K
  PROVE  RoundTrip(K, N, m, lost)
<1> DEFINE blocks == Erasure!Blocks(K, Erasure!Pad(K, m))
           stripes == Erasure!Encode(K, N, m)
           left == [i \in 1..N |-> IF i \in lost THEN Erasure!None ELSE stripes[i]]
           there == {i \in DOMAIN left : left[i] # Erasure!None}
           kth == CHOOSE i \in there : Cardinality({j \in there : j <= i}) = K
           kept == Erasure!Join(blocks)
           last == Len(m) % K
           e == Erasure!Encoded(last)
           b == e[1 + (((K - last) - 1) % Len(e))]
<1>1. \A i \in 1..N : stripes[i] = [index |-> i, of |-> blocks] /\ stripes[i].of = blocks
  <2> HIDE DEF blocks
  <2>1. stripes = [i \in 1..N |-> [index |-> i, of |-> blocks]]
    BY Zenon DEF blocks, Erasure!Encode
  <2> HIDE DEF stripes
  <2> QED
    BY <2>1
<1> HIDE DEF blocks, stripes
<1>2. \A i \in 1..N : stripes[i] # Erasure!None
  <2>1. \A i \in 1..N : [index |-> i, of |-> blocks] # <<>>
    OBVIOUS
  <2> QED
    BY <1>1, <2>1, Zenon DEF Erasure!None
<1>3. there = (1..N) \ lost
  BY <1>2
<1>4. kth \in there
  <2> HIDE DEF there
  <2>1. there \in SUBSET (1..N) /\ K \in Nat \ {0}
    BY <1>3
  <2>2. K <= Cardinality(there)
    <3>1. IsFiniteSet(1..N)
      BY FS_Interval
    <3>2. IsFiniteSet(there)
      BY <2>1, <3>1, FS_Subset
    <3>3. Cardinality(there) \in Nat
      BY <3>2, FS_CardinalityType
    <3> QED
      BY <1>3, <2>1, <3>3
  <2>3. \E i \in there : Cardinality({j \in there : j <= i}) = K
    BY <2>1, <2>2, KthThere
  <2> QED
    BY <2>3
<1>5. left[kth].of = blocks
  <2> HIDE DEF kth, there
  <2>1. kth \in 1..N /\ kth \notin lost
    BY <1>3, <1>4
  <2>2. left[kth] = stripes[kth]
    BY <2>1
  <2> HIDE DEF left
  <2> QED
    BY <1>1, <2>1, <2>2
<1>6. Erasure!Decode(K, left) = Cutting(kept, K - kept[Len(kept)])
  <2> HIDE DEF left
  <2>1. Erasure!Join(left[kth].of) = kept
    BY <1>5, Zenon
  <2> HIDE DEF kept
  <2>2. Erasure!Decode(K, left) =
          LET mm == Erasure!Join(left[kth].of) IN Cutting(mm, K - mm[Len(mm)])
    BY Zenon DEF Cutting, Erasure!Decode, Erasure!Cardinality, Cardinality
  <2> HIDE DEF kth
  <2> QED
    BY <2>1, <2>2, Zenon
<1> HIDE DEF left
<1>7. /\ last \in 0..(K - 1) /\ last \in 0..255 /\ Len(m) \in Nat /\ last <= Len(m)
      /\ kept \in Seq(Nat)
      /\ Len(kept) = Len(m) + (K - last)
      /\ \A i \in 1..Len(m) : kept[i] = m[i]
      /\ kept[Len(m) + (K - last)] = b
  BY Kept, Zenon DEF blocks
<1> HIDE DEF kept, last
<1>8. last < K
  BY <1>7
<1>9. /\ b \in Nat
      /\ b = last \/ (last >= 128 /\ b \in 128..195)
      /\ b = last <=> \/ last < 128
                      \/ last \in 128..191 /\ (K - last) % 2 = 0
                      \/ last = 195 /\ (K - last) % 2 = 1
  BY <1>7, <1>8, LastByte, ZenonT(60)
<1> HIDE DEF b
<1>10. Holds(K, m, last, kept, b)
  BY <1>7, <1>9, Zenon DEF Holds
<1>11. Cutting(kept, K - b) = m <=> b = last
  BY <1>10, Cut
<1>12. Erasure!Decode(K, left) = Cutting(kept, K - b)
  BY <1>6, <1>7, Zenon
<1> QED
  BY <1>9, <1>11, <1>12, Zenon DEF RoundTrip, left, last, stripes

-----------------------------------------------------------------------------
\* The padding of the earlier broadcast

\* What is put behind a message does not show in front.
LEMMA FrontKept ==
  ASSUME NEW m \in Seq(Nat), NEW t \in Seq(Nat)
  PROVE  /\ m \o t \in Seq(Nat)
         /\ Len(m \o t) = Len(m) + Len(t)
         /\ t # <<>> => (m \o t)[Len(m) + Len(t)] = t[Len(t)]
         /\ SubSeq(m \o t, 1, Len(m)) = m
<1> DEFINE n == Len(m)
           l == Len(t)
           both == m \o t
           front == SubSeq(both, 1, n)
<1>1. n \in Nat /\ l \in Nat /\ (t # <<>> => l \in Nat \ {0})
  BY LenProperties, EmptySeq
<1>2. /\ both \in Seq(Nat) /\ Len(both) = n + l
      /\ \A i \in 1..(n + l) : both[i] = IF i <= n THEN m[i] ELSE t[i - n]
  BY ConcatProperties
<1> HIDE DEF both
<1>3. \A i \in 1..n : both[i] = m[i] /\ both[i] \in Nat /\ m[i] \in Nat
  <2>1. \A i \in 1..n : i \in 1..(n + l) /\ i <= n
    BY <1>1
  <2>2. \A i \in 1..n : m[i] \in Nat
    BY ElementOfSeq
  <2> QED
    BY <1>2, <2>1, <2>2
<1>4. t # <<>> => both[n + l] = t[l]
  <2> SUFFICES ASSUME t # <<>> PROVE both[n + l] = t[l]
    OBVIOUS
  <2> HIDE DEF n, l
  <2>1. n + l \in 1..(n + l) /\ ~(n + l <= n) /\ (n + l) - n = l
    BY <1>1
  <2> QED
    BY <1>2, <2>1
<1>5. front = m
  <2>1. /\ front \in Seq(Nat)
        /\ Len(front) = IF 1 <= n THEN n - 1 + 1 ELSE 0
        /\ \A i \in 1..(n - 1 + 1) : front[i] = both[1 + i - 1]
    <3> HIDE DEF n
    <3> QED
      BY <1>1, <1>3, SubSeqProperties
  <2> HIDE DEF front
  <2>2. n - 1 + 1 = n /\ \A i \in 1..n : 1 + i - 1 = i
    BY <1>1
  <2>3. Len(front) = n
    <3> HIDE DEF n
    <3> QED
      BY <1>1, <2>1
  <2>4. \A i \in 1..n : front[i] = m[i]
    BY <1>3, <2>1, <2>2
  <2> QED
    BY <2>1, <2>3, <2>4, SeqEqual
<1> QED
  BY <1>2, <1>4, <1>5, Zenon DEF both, front

\* The earlier broadcast adds between one byte and T, and cuts off as many as
\* the last byte says; only a message that fills rows of 256 blocks asks for
\* more than a byte can say (the assertion on the padding, line 177).
THEOREM OldPaddingUndone ==
  ASSUME NEW T \in 1..256, NEW m \in Seq(Nat)
  PROVE  /\ Erasure!OldPadding(T, m) \in 1..T
         /\ Erasure!OldPadding(T, m) >= 256 <=> T = 256 /\ Len(m) % T = 0
         /\ Erasure!OldDecode(Erasure!OldBlocks(T, m)) = m
<1> DEFINE n == Len(m)
           rest == n % T
           step == n \div T + 1
           pad == Erasure!OldPadding(T, m)
           filled == Erasure!Times(pad - 1, <<255>>)
           tail == filled \o <<pad>>
           buf == m \o tail
           full == T * step
<1>1. n \in Nat /\ T \in Nat \ {0} /\ T <= 256
  BY LenProperties
<1>2. rest \in 0..(T - 1) /\ step \in Nat /\ step * T = full /\ full \in Nat /\ full = n + (T - rest)
  <2> DEFINE q == n \div T
  <2>1. q \in Nat /\ rest \in 0..(T - 1) /\ n = (T * q) + rest
    BY <1>1, Division
  <2> HIDE DEF q, rest, n
  <2>2. /\ T * q \in Nat /\ q * T = T * q
        /\ (q + 1) * T = q * T + T /\ (q + 1) * T = T * (q + 1)
    BY <1>1, <2>1
  <2> DEFINE low == T * q
             high == T * (q + 1)
  <2>3. low \in Nat /\ n = low + rest /\ high = low + T /\ (q + 1) * T = high
    BY <2>1, <2>2
  <2> HIDE DEF low, high
  <2>4. high \in Nat /\ high = n + (T - rest) /\ q + 1 \in Nat
    BY <1>1, <2>1, <2>3
  <2> QED
    BY <2>1, <2>3, <2>4, Zenon DEF high, q, n
<1>3. pad = T - rest
  <2>1. pad = step * T - n
    BY Zenon DEF Erasure!OldPadding, Erasure!OldStep
  <2> HIDE DEF pad, step, rest, n, full
  <2> QED
    BY <1>1, <1>2, <2>1
<1>4. pad \in 1..T /\ (pad >= 256 <=> T = 256 /\ rest = 0)
  <2> HIDE DEF pad, rest
  <2> QED
    BY <1>1, <1>2, <1>3
<1>5. /\ tail \in Seq(Nat) /\ Len(tail) = pad /\ tail # <<>> /\ tail[pad] = pad
  <2> HIDE DEF pad
  <2>1. pad - 1 \in Nat /\ <<255>> \in Seq(Nat) /\ <<255>> # <<>> /\ Len(<<255>>) = 1 /\ (pad - 1) * 1 = pad - 1
    BY <1>4
  <2>2. filled \in Seq(Nat) /\ Len(filled) = pad - 1
    <3>1. filled \in Seq(Nat) /\ Len(filled) = (pad - 1) * Len(<<255>>)
      BY <2>1, Repeated, ZenonT(60)
    <3> QED
      BY <2>1, <3>1
  <2>3. <<pad>> \in Seq(Nat) /\ Len(<<pad>>) = 1 /\ <<pad>> # <<>> /\ <<pad>>[1] = pad
    BY <1>4
  <2> HIDE DEF filled
  <2>4. /\ tail \in Seq(Nat) /\ Len(tail) = Len(filled) + Len(<<pad>>)
        /\ tail[Len(filled) + Len(<<pad>>)] = <<pad>>[Len(<<pad>>)]
    BY <2>2, <2>3, FrontKept, Zenon
  <2>5. Len(filled) + Len(<<pad>>) = pad /\ <<pad>>[Len(<<pad>>)] = pad
    BY <1>4, <2>2, <2>3
  <2>6. tail \in Seq(Nat) /\ Len(tail) = pad /\ tail[pad] = pad
    BY <2>4, <2>5, Zenon
  <2>7. tail # <<>>
    <3> HIDE DEF tail
    <3> QED
      BY <1>4, <2>6, EmptySeq
  <2> QED
    BY <2>6, <2>7
<1> HIDE DEF tail
<1>6. /\ buf \in Seq(Nat) /\ Len(buf) = n + pad /\ buf[n + pad] = pad
      /\ SubSeq(buf, 1, n) = m
  <2>1. /\ buf \in Seq(Nat) /\ Len(buf) = n + Len(tail)
        /\ buf[n + Len(tail)] = tail[Len(tail)] /\ SubSeq(buf, 1, n) = m
    BY <1>5, FrontKept, Zenon
  <2> QED
    BY <1>5, <2>1, Zenon
<1>7. Erasure!OldBlocks(T, m) = [i \in 1..T |-> SubSeq(buf, (i - 1) * step + 1, i * step)]
  <2>1. buf = m \o Erasure!Times(pad - 1, <<255>>) \o <<pad>>
    <3>1. filled \in Seq(Nat) /\ <<pad>> \in Seq(Nat)
      <4> HIDE DEF pad
      <4>1. pad - 1 \in Nat /\ <<255>> \in Seq(Nat) /\ <<255>> # <<>> /\ <<pad>> \in Seq(Nat)
        BY <1>4
      <4> QED
        BY <4>1, Repeated, Zenon
    <3> HIDE DEF filled, pad
    <3>2. (m \o filled) \o <<pad>> = m \o (filled \o <<pad>>)
      BY <3>1, ConcatAssociative
    <3> QED
      BY <3>2, Zenon DEF tail, filled
  <2> HIDE DEF buf
  <2> QED
    BY <2>1, Zenon DEF Erasure!OldBlocks, Erasure!OldStep
<1> HIDE DEF buf
<1>8. Len(buf) = full /\ Len(buf) \div T = step
  <2>1. Len(buf) = full
    <3> HIDE DEF pad, rest, n, full
    <3> QED
      BY <1>1, <1>2, <1>3, <1>6
  <2>2. (T * step + 0) \div T = step
    <3> HIDE DEF step
    <3> QED
      BY <1>1, <1>2, DivisionUnique
  <2>3. full + 0 = full
    BY <1>2
  <2> QED
    BY <2>1, <2>2, <2>3, Zenon
<1>9. Erasure!OldBlocks(T, m) = Erasure!Blocks(T, buf)
  BY <1>7, <1>8, Zenon DEF Erasure!Blocks
<1>10. Erasure!Join(Erasure!Blocks(T, buf)) = buf
  <2>1. Erasure!Join(Erasure!Blocks(T, buf)) = SubSeq(buf, 1, T * (Len(buf) \div T))
    BY <1>1, <1>6, BlocksJoined, Zenon
  <2>2. T * (Len(buf) \div T) = Len(buf)
    BY <1>8, Zenon
  <2>3. SubSeq(buf, 1, Len(buf)) = buf
    BY <1>6, SubSeqFull
  <2> QED
    BY <2>1, <2>2, <2>3, Zenon
<1>11. Erasure!OldDecode(Erasure!OldBlocks(T, m)) = SubSeq(buf, 1, Len(buf) - buf[Len(buf)])
  BY <1>9, <1>10, Zenon DEF Erasure!OldDecode
<1>12. Len(buf) - buf[Len(buf)] = n
  <2>1. Len(buf) = n + pad /\ buf[Len(buf)] = pad
    BY <1>6, Zenon
  <2> HIDE DEF pad, n
  <2>2. (n + pad) - pad = n
    BY <1>1, <1>4
  <2> QED
    BY <2>1, <2>2, Zenon
<1>13. Erasure!OldDecode(Erasure!OldBlocks(T, m)) = m
  BY <1>6, <1>11, <1>12, Zenon
<1> QED
  BY <1>4, <1>13, Zenon

-----------------------------------------------------------------------------
\* Both erasure codes

\* Inductive invariant: what is drawn for the codes is what encode takes, and
\* K stripes are left.
CodeInput ==
    input.of = "code" =>
        /\ input.K \in 1..254 /\ input.m \in Seq(Nat)
        /\ Cardinality((1..(input.K + 2)) \ input.lost) >= input.K

\* Of K + 2 stripes at most two are lost.
LEMMA EnoughLeft ==
  ASSUME NEW K \in 1..254, NEW lost \in {{}, {1}, {2, K}, {K + 1, K + 2}}
  PROVE  Cardinality((1..(K + 2)) \ lost) >= K
<1> DEFINE all == 1..(K + 2)
<1>1. IsFiniteSet(all) /\ Cardinality(all) = K + 2
  <2>1. 1 \in Int /\ K + 2 \in Int /\ ~(1 > K + 2) /\ (K + 2) - 1 + 1 = K + 2
    OBVIOUS
  <2> QED
    BY <2>1, FS_Interval
<1> HIDE DEF all
<1>2. \A a, b : Cardinality((all \ {a}) \ {b}) >= K
  <2>1. ASSUME NEW a PROVE IsFiniteSet(all \ {a}) /\ Cardinality(all \ {a}) \in {K + 1, K + 2}
    BY <1>1, FS_RemoveElement
  <2>2. ASSUME NEW a, NEW b PROVE Cardinality((all \ {a}) \ {b}) >= K
    <3>1. IsFiniteSet(all \ {a}) /\ Cardinality(all \ {a}) \in {K + 1, K + 2}
      BY <2>1
    <3>2. Cardinality((all \ {a}) \ {b}) =
            IF b \in all \ {a} THEN Cardinality(all \ {a}) - 1 ELSE Cardinality(all \ {a})
      BY <3>1, FS_RemoveElement
    <3> QED
      BY <3>1, <3>2
  <2> QED
    BY <2>2
<1>3. \A a, b : all \ {a, b} = (all \ {a}) \ {b}
  OBVIOUS
<1>4. all \ {1} = (all \ {1}) \ {1}
  OBVIOUS
<1>5. CASE lost = {}
  <2>1. all \ lost = all
    BY <1>5
  <2> QED
    <3>1. K + 2 >= K
      OBVIOUS
    <3> QED
      BY <1>1, <2>1, <3>1, Zenon DEF all
<1>6. CASE lost = {1}
  BY <1>2, <1>4, <1>6 DEF all
<1>7. CASE lost \in {{2, K}, {K + 1, K + 2}}
  <2>1. \A a, b : Cardinality(all \ {a, b}) >= K
    <3> SUFFICES ASSUME NEW a, NEW b PROVE Cardinality(all \ {a, b}) >= K
      OBVIOUS
    <3>1. all \ {a, b} = (all \ {a}) \ {b}
      BY <1>3
    <3>2. Cardinality((all \ {a}) \ {b}) >= K
      BY <1>2
    <3> QED
      BY <3>1, <3>2
  <2>2. Cardinality(all \ {2, K}) >= K
    BY <2>1, Zenon
  <2>3. Cardinality(all \ {K + 1, K + 2}) >= K
    BY <2>1, Zenon
  <2> QED
    BY <1>7, <2>2, <2>3, Zenon DEF all
<1> QED
  BY <1>5, <1>6, <1>7

\* CodeInput holds at first, and every step keeps it.
LEMMA CodeInputInit == Init => CodeInput
  BY DEF Init, Nothing, CodeInput

LEMMA CodeInputNext == CodeInput /\ [Next]_vars => CodeInput'
<1> SUFFICES ASSUME CodeInput, [Next]_vars PROVE CodeInput'
  OBVIOUS
<1>1. CASE Listen
  BY <1>1 DEF Listen, CodeInput
<1>2. CASE Pad
  <2>0. PICK K \in DOMAIN Codes : \E n \in Codes[K], lost \in {{}, {1}, {2, K}, {K + 1, K + 2}} :
          input' = [of |-> "code", K |-> K, m |-> [i \in 1..n |-> (7 * i) % 256], lost |-> lost]
    BY <1>2 DEF Pad
  <2>1. PICK n \in Codes[K], lost \in {{}, {1}, {2, K}, {K + 1, K + 2}} :
          input' = [of |-> "code", K |-> K, m |-> [i \in 1..n |-> (7 * i) % 256], lost |-> lost]
    BY <2>0
  <2>2. K \in 1..254 /\ n \in Nat
    BY CodesAssumption
  <2>3. [i \in 1..n |-> (7 * i) % 256] \in Seq(Nat)
    <3>1. \A i \in 1..n : (7 * i) % 256 \in Nat
      BY <2>2
    <3> QED
      BY <2>2, <3>1
  <2>4. Cardinality((1..(K + 2)) \ lost) >= K
    BY <2>2, EnoughLeft, ZenonT(30)
  <2>5. input'.K = K /\ input'.m = [i \in 1..n |-> (7 * i) % 256] /\ input'.lost = lost
    BY <2>1
  <2> QED
    BY <2>2, <2>3, <2>4, <2>5, Zenon DEF CodeInput
<1>3. CASE Prove
  BY <1>3 DEF Prove, CodeInput
<1>4. CASE Deal
  BY <1>4 DEF Deal, CodeInput
<1>5. CASE Test
  BY <1>5 DEF Test, CodeInput
<1>6. CASE Rsa
  BY <1>6 DEF Rsa, CodeInput
<1>7. CASE Send
  BY <1>7 DEF Send, CodeInput
<1>8. CASE Propose
  BY <1>8 DEF Propose, CodeInput
<1>9. CASE UNCHANGED vars
  BY <1>9 DEF vars, CodeInput
<1> QED
  BY <1>1, <1>2, <1>3, <1>4, <1>5, <1>6, <1>7, <1>8, <1>9 DEF Next

\* CodesRoundTrip: each of the two broadcasts gets back what it put in within
\* the sizes whose padding a byte can tell, for whatever numbers of blocks up to
\* 254 and lengths of messages Codes allows.
THEOREM CodesHold == Spec => []CodesRoundTrip
<1> DEFINE K == input.K
           m == input.m
           lost == input.lost
<1>0. CodeInput /\ input.of = "code" =>
        K \in 1..254 /\ m \in Seq(Nat) /\ Cardinality((1..(K + 2)) \ lost) >= K
  BY Zenon DEF CodeInput
<1>1. CodeInput => PaddingRoundTrip
  <2> SUFFICES ASSUME CodeInput, input.of = "code", Len(m) % K < 128 PROVE Recovered = m
    BY Zenon DEF PaddingRoundTrip
  <2> HIDE DEF K, m, lost
  <2>1. K \in 1..256 /\ m \in Seq(Nat) /\ Cardinality((1..(K + 2)) \ lost) >= K
    BY <1>0
  <2>2. K + 2 \in Nat
    BY <2>1
  <2>3. RoundTrip(K, K + 2, m, lost)
    BY <2>1, <2>2, StripesDecode
  <2> QED
    BY <2>3, Zenon DEF Recovered, RoundTrip, K, m, lost
<1>2. CodeInput => OldPaddingRoundTrip
  <2> SUFFICES ASSUME CodeInput, input.of = "code" PROVE OldPaddingRoundTrip
    BY Zenon DEF OldPaddingRoundTrip
  <2> HIDE DEF K, m, lost
  <2>0. K \in 1..254 /\ m \in Seq(Nat)
    BY <1>0, Zenon
  <2>1. K \in 1..256 /\ m \in Seq(Nat) /\ K < 256
    BY <2>0
  <2>2. Erasure!OldPadding(K, m) \in 1..K /\ Erasure!OldDecode(Erasure!OldBlocks(K, m)) = m
    BY <2>1, OldPaddingUndone, Zenon
  <2>3. Erasure!OldPadding(K, m) < 256
    BY <2>1, <2>2
  <2> QED
    BY <2>2, <2>3, Zenon DEF OldPaddingRoundTrip, K, m
<1>3. CodeInput => CodesRoundTrip
  BY <1>1, <1>2 DEF CodesRoundTrip
<1> QED
  BY <1>3, CodeInputInit, CodeInputNext, PTL DEF Spec

-----------------------------------------------------------------------------
\* Padding of the symmetric cipher, and two small sums

\* What fills a block, and a number of blocks.
LEMMA BlockFilled ==
  ASSUME NEW l \in Nat
  PROVE  16 - (l % 16) \in 1..16 /\ (l + (16 - (l % 16))) % 16 = 0
  OBVIOUS

\* z is y behind x.
Behind(z, x, y) ==
  /\ Len(z) = Len(x) + Len(y) /\ DOMAIN z = 1..(Len(x) + Len(y))
  /\ \A i \in 1..Len(x) : z[i] = x[i]
  /\ \A i \in 1..Len(y) : z[Len(x) + i] = y[i]

LEMMA ConcatBehind ==
  ASSUME NEW B, NEW x \in Seq(B), NEW y \in Seq(B)
  PROVE  x \o y \in Seq(B) /\ Behind(x \o y, x, y)
<1>1. Len(x) \in Nat /\ Len(y) \in Nat
  BY LenProperties
<1>2. PICK c, n, k : c = x \o y /\ n = Len(x) /\ k = Len(y)
  OBVIOUS
<1>3. /\ c \in Seq(B) /\ Len(c) = n + k
      /\ \A i \in 1..(n + k) : c[i] = IF i <= n THEN x[i] ELSE y[i - n]
  BY <1>2, ConcatProperties
<1>4. DOMAIN c = 1..(n + k)
  BY <1>3, LenProperties
<1>5. \A i \in 1..n : c[i] = x[i]
  BY <1>1, <1>2, <1>3
<1>6. \A i \in 1..k : c[n + i] = y[i]
  <2>1. ASSUME NEW i \in 1..k PROVE c[n + i] = y[i]
    <3>1. n + i \in 1..(n + k) /\ ~(n + i <= n) /\ (n + i) - n = i
      BY <1>1, <1>2
    <3> QED
      BY <1>3, <3>1
  <2> QED
    BY <2>1
<1> QED
  BY <1>2, <1>3, <1>4, <1>5, <1>6, Zenon DEF Behind

\* What encrypt makes, the initialization vector in front.
Encrypted(key) == Nat \cup {[key |-> key, byte |-> b] : b \in Nat}

\* decrypt gives back the bytes that encrypt was given, and these fill whole
\* blocks: for strings of every length and whatever they end with.
THEOREM PadRemoved ==
  ASSUME NEW s \in Seq(Nat), NEW key, NEW iv \in Seq(Nat), Len(iv) = Cipher!BS
  PROVE  /\ Cipher!Pad(s) \in Seq(Nat) /\ Len(Cipher!Pad(s)) % Cipher!BS = 0
         /\ Len(Cipher!Pad(s)) = Len(s) + (16 - (Len(s) % 16))
         /\ Cipher!SymEncrypt(key, s, iv) \in Seq(Encrypted(key))
         /\ Cipher!SymDecrypt(Cipher!SymEncrypt(key, s, iv)) = s
<1> DEFINE l == Len(s)
           n == 16 - (l % 16)
           added == [i \in 1..n |-> n]
           padded == Cipher!Pad(s)
           secret == [i \in DOMAIN padded |-> [key |-> key, byte |-> padded[i]]]
           enc == iv \o secret
<1>1. l \in Nat /\ n \in 1..16 /\ (l + n) % 16 = 0
  <2>1. l \in Nat
    BY LenProperties
  <2> HIDE DEF l
  <2> QED
    BY <2>1, BlockFilled, Zenon
<1>2. padded = s \o added
  BY Zenon DEF Cipher!Pad, Cipher!BS
<1>3. added \in Seq(Nat) /\ Len(added) = n /\ added # <<>> /\ added[n] = n
  <2> HIDE DEF n
  <2>1. added \in Seq(Nat) /\ Len(added) = n /\ added[n] = n
    BY <1>1
  <2> HIDE DEF added
  <2>2. added # <<>>
    BY <1>1, <2>1, EmptySeq
  <2> QED
    BY <2>1, <2>2
<1> HIDE DEF added, padded, n
<1>4. /\ padded \in Seq(Nat) /\ Len(padded) = l + n /\ padded[l + n] = n
      /\ SubSeq(padded, 1, l) = s
  <2>1. /\ s \o added \in Seq(Nat)
        /\ Len(s \o added) = l + Len(added) /\ (s \o added)[l + Len(added)] = added[Len(added)]
        /\ SubSeq(s \o added, 1, l) = s
    BY <1>3, FrontKept, Zenon
  <2> QED
    BY <1>2, <1>3, <2>1, Zenon
<1>5. Cipher!SymEncrypt(key, s, iv) = enc
  BY Zenon DEF Cipher!SymEncrypt, padded
<1>6. /\ enc \in Seq(Encrypted(key)) /\ Len(enc) = 16 + Len(padded)
      /\ \A i \in 1..Len(padded) : enc[16 + i] = secret[i]
  <2> DEFINE Mixed == Encrypted(key)
  <2>1. DOMAIN padded = 1..Len(padded) /\ Len(padded) \in Nat
    BY <1>4, LenProperties
  <2>2. \A i \in 1..Len(padded) : padded[i] \in Nat
    BY <1>4, ElementOfSeq
  <2>3. \A i \in 1..Len(padded) : secret[i] \in Mixed
    BY <2>1, <2>2 DEF Encrypted
  <2>4. secret = [i \in 1..Len(padded) |-> [key |-> key, byte |-> padded[i]]]
    BY <2>1
  <2> HIDE DEF secret
  <2> HIDE DEF Mixed
  <2>5. secret \in Seq(Mixed) /\ Len(secret) = Len(padded)
    BY <2>1, <2>3, <2>4
  <2>6. iv \in Seq(Mixed) /\ Len(iv) = 16
    <3>1. Nat \subseteq Mixed
      BY DEF Mixed, Encrypted
    <3> QED
      BY <3>1, SeqMonotonic DEF Cipher!BS
  <2> HIDE DEF Mixed
  <2>7. iv \o secret \in Seq(Mixed) /\ Behind(iv \o secret, iv, secret)
    BY <2>5, <2>6, ConcatBehind
  <2> QED
    BY <2>5, <2>6, <2>7, Zenon DEF Mixed, Behind
<1>7. [i \in 1..(Len(enc) - 16) |-> enc[16 + i].byte] = padded
  <2>1. DOMAIN padded = 1..Len(padded) /\ Len(padded) \in Nat
    BY <1>4, LenProperties
  <2>2. padded = [i \in 1..Len(padded) |-> padded[i]]
    BY <1>4, <2>1
  <2>3. \A i \in 1..Len(padded) : secret[i].byte = padded[i]
    BY <2>1
  <2>4. 16 + Len(padded) - 16 = Len(padded)
    BY <2>1
  <2> HIDE DEF secret, enc
  <2>5. \A i \in 1..Len(padded) : enc[16 + i].byte = padded[i]
    BY <1>6, <2>3, Zenon
  <2>6. [i \in 1..Len(padded) |-> enc[16 + i].byte] = [i \in 1..Len(padded) |-> padded[i]]
    BY <2>5
  <2>7. Len(enc) - 16 = Len(padded)
    BY <1>6, <2>4
  <2> QED
    BY <2>2, <2>6, <2>7, Zenon
<1> HIDE DEF l, enc
<1>8. (l + n) - n = l
  BY <1>1
<1>9. Cipher!Unpad(padded) = s
  BY <1>4, <1>8, Zenon DEF Cipher!Unpad
<1>10. Cipher!SymDecrypt(enc) = s
  BY <1>7, <1>9, Zenon DEF Cipher!SymDecrypt, Cipher!BS
<1> QED
  BY <1>1, <1>4, <1>5, <1>6, <1>10, Zenon DEF Cipher!BS, padded, n, l

\* A string of n times the character c.
AllOf(c, n) == [i \in 1..n |-> c]

\* A str of n equal characters encrypts if they are below 128, and if each takes
\* two bytes exactly when n is a multiple of the block: pad counts characters.
LEMMA WhatEncrypts ==
  ASSUME NEW n \in Nat, NEW c \in Nat
  PROVE  Cipher!Encryptable(AllOf(c, n)) <=> c < 128 \/ n % Cipher!BS = 0
<1> DEFINE s == AllOf(c, n)
           k == 16 - (n % 16)
           padded == Cipher!Pad(s)
           wide == {i \in DOMAIN padded : padded[i] >= 128}
<1>1. s \in Seq(Nat) /\ Len(s) = n
  BY DEF AllOf
<1>2. k \in 1..16 /\ (n + k) % 16 = 0
  BY BlockFilled, Zenon
<1>3. padded = s \o [i \in 1..k |-> k]
  BY <1>1, Zenon DEF Cipher!Pad, Cipher!BS
<1>4. /\ DOMAIN padded = 1..(n + k) /\ Len(padded) = n + k
      /\ \A i \in 1..n : padded[i] = c
      /\ \A i \in 1..k : padded[n + i] = k
  <2> DEFINE t == [i \in 1..k |-> k]
  <2> HIDE DEF k
  <2>1. t \in Seq(Nat) /\ Len(t) = k /\ \A i \in 1..k : t[i] = k
    BY <1>2
  <2>2. \A i \in 1..n : s[i] = c
    BY DEF AllOf
  <2>3. padded = s \o t
    BY <1>3, Zenon DEF k
  <2> HIDE DEF s, t, padded
  <2>4. Behind(s \o t, s, t)
    BY <1>1, <2>1, ConcatBehind
  <2> QED
    BY <1>1, <2>1, <2>2, <2>3, <2>4, Zenon DEF Behind
<1> HIDE DEF padded, k
<1>5. wide = IF c < 128 THEN {} ELSE 1..n
  <2>1. ASSUME NEW i \in 1..(n + k) PROVE padded[i] >= 128 <=> i \in 1..n /\ c >= 128
    <3>1. CASE i \in 1..n
      BY <1>4, <3>1
    <3>2. CASE i \notin 1..n
      <4>1. i - n \in 1..k /\ n + (i - n) = i
        BY <1>2, <3>2
      <4>2. padded[i] = k
        BY <1>4, <4>1
      <4> QED
        BY <1>2, <3>2, <4>2
    <3> QED
      BY <3>1, <3>2
  <2>2. 1..n \subseteq 1..(n + k)
    BY <1>2
  <2> QED
    BY <1>4, <2>1, <2>2
<1>6. Cardinality(wide) = IF c < 128 THEN 0 ELSE n
  <2>1. Cardinality({}) = 0 /\ Cardinality(1..n) = n
    BY FS_EmptySet, FS_Interval
  <2> QED
    BY <1>5, <2>1, Zenon
<1>7. Cipher!ByteLength(padded) = n + k + Cardinality(wide)
  BY <1>4, Zenon DEF Cipher!ByteLength, Cipher!Cardinality, Cardinality, Cipher!IsFiniteSet, IsFiniteSet
<1>8. Cipher!Encryptable(s) <=> Cipher!ByteLength(padded) % 16 = 0
  BY Zenon DEF Cipher!Encryptable, Cipher!BS, padded
<1>9. (n + k + n) % 16 = 0 <=> n % 16 = 0
  BY <1>2
<1> QED
  BY <1>2, <1>6, <1>7, <1>8, <1>9 DEF Cipher!BS

\* In a network of 3F + 1 nodes the threshold that _generate_keys takes when it
\* is given none is the F + 1 that shared_coin asserts for F = 1 and F = 2 only.
THEOREM DefaultThresholdFew ==
  \A F \in Nat : Keys!DefaultThreshold(3 * F + 1) = F + 1 <=> F \in {1, 2}
  BY DEF Keys!DefaultThreshold

\* The string that initiateRND makes for TX transactions has a place to take
\* the filling of a transaction from unless TX is 1, or 0, and the filling
\* does not run over its end.
THEOREM RandomBytesFit ==
  ASSUME NEW TX \in Nat
  PROVE  LET n == LongLength(TX)
             length == TR_SIZE - 5
             starts == Starts(length, n)
         IN  /\ starts # {} <=> TX >= 2
             /\ \A s \in starts : s + length <= n
  BY DEF LongLength, TR_SIZE, Starts

-----------------------------------------------------------------------------
\* Powers of two, and the depth of a tree

\* Induction: a set of numbers that has 0, and with every number the next one,
\* has them all.
LEMMA Induction ==
  ASSUME NEW S, 0 \in S, \A n \in Nat : n \in S => n + 1 \in S
  PROVE  \A n \in Nat : n \in S
<1> DEFINE Missing == {n \in Nat : n \notin S}
<1>1. SUFFICES ASSUME Missing # {} PROVE FALSE
  OBVIOUS
<1>2. PICK m \in Missing : \A k \in Missing : m <= k
  BY <1>1, Least
<1>3. m \in Nat /\ m # 0 /\ m - 1 \in Nat /\ m - 1 \notin Missing
  BY <1>2
<1>4. (m - 1) + 1 \in S
  BY <1>3
<1> QED
  BY <1>2, <1>3, <1>4

\* The equations of the recursive function Power have a solution.
LEMMA PowerIs ==
  /\ Merkle!Power[0] = 1
  /\ \A k \in Nat : Merkle!Power[k + 1] = 2 * Merkle!Power[k]
<1> DEFINE e(f, k) == IF k = 0 THEN 1 ELSE 2 * f[k - 1]
           upto(f, n) == \A k \in 0..n : f[k] = e(f, k)
           S == {n \in Nat : \E f : upto(f, n)}
           F(n) == CHOOSE f : upto(f, n)
           power == [n \in Nat |-> F(n)[n]]
<1>1. \A n \in Nat : n \in S
  <2>1. 0 \in S
    <3>1. upto([k \in 0..0 |-> 1], 0)
      OBVIOUS
    <3> QED
      BY <3>1
  <2>2. ASSUME NEW n \in Nat, n \in S PROVE n + 1 \in S
    <3>1. PICK f : upto(f, n)
      BY <2>2
    <3> DEFINE g == [k \in 0..(n + 1) |-> e(f, k)]
    <3>2. ASSUME NEW k \in 0..(n + 1) PROVE g[k] = e(g, k)
      <4>1. CASE k = 0
        BY <4>1
      <4>2. CASE k # 0
        <5>1. k - 1 \in 0..n /\ k - 1 \in 0..(n + 1)
          BY <4>2
        <5>2. g[k - 1] = f[k - 1]
          BY <3>1, <5>1
        <5> QED
          BY <4>2, <5>2
      <4> QED
        BY <4>1, <4>2
    <3>3. upto(g, n + 1)
      BY <3>2
    <3> HIDE DEF g, upto
    <3> QED
      BY <3>3
  <2> HIDE DEF S
  <2> QED
    BY <2>1, <2>2, Induction
<1>2. \A n \in Nat : upto(F(n), n)
  <2>1. ASSUME NEW n \in Nat PROVE \E f : upto(f, n)
    BY <1>1
  <2> HIDE DEF upto
  <2> QED
    BY <2>1
<1> HIDE DEF F
<1>3. ASSUME NEW n \in Nat PROVE F(n + 1)[n] = F(n)[n]
  <2> DEFINE same == {k \in Nat : k <= n => F(n + 1)[k] = F(n)[k]}
  <2>1. 0 \in same
    BY <1>2
  <2>2. ASSUME NEW k \in Nat, k \in same PROVE k + 1 \in same
    <3>1. CASE k + 1 <= n
      <4>1. k + 1 \in 0..n /\ k + 1 \in 0..(n + 1) /\ k + 1 # 0 /\ (k + 1) - 1 = k
        BY <3>1
      <4>2. F(n + 1)[k + 1] = 2 * F(n + 1)[k] /\ F(n)[k + 1] = 2 * F(n)[k]
        BY <1>2, <4>1
      <4> QED
        BY <2>2, <3>1, <4>2
    <3> QED
      BY <3>1
  <2> HIDE DEF same
  <2>3. n \in same
    BY <2>1, <2>2, Induction
  <2> QED
    BY <2>3 DEF same
<1>4. power = [n \in Nat |-> IF n = 0 THEN 1 ELSE 2 * power[n - 1]]
  <2>1. ASSUME NEW n \in Nat PROVE power[n] = IF n = 0 THEN 1 ELSE 2 * power[n - 1]
    <3>1. CASE n = 0
      BY <1>2, <3>1
    <3>2. CASE n # 0
      <4>1. n - 1 \in Nat /\ (n - 1) + 1 = n /\ n \in 0..n
        BY <3>2
      <4>2. F(n)[n] = 2 * F(n)[n - 1]
        BY <1>2, <3>2, <4>1
      <4>3. F(n)[n - 1] = F(n - 1)[n - 1]
        BY <1>3, <4>1
      <4> QED
        BY <3>2, <4>1, <4>2, <4>3
    <3> QED
      BY <3>1, <3>2
  <2> HIDE DEF F
  <2> QED
    BY <2>1
<1> HIDE DEF power
<1>5. Merkle!Power = [n \in Nat |-> IF n = 0 THEN 1 ELSE 2 * Merkle!Power[n - 1]]
  <2>1. \E f : f = [n \in Nat |-> IF n = 0 THEN 1 ELSE 2 * f[n - 1]]
    BY <1>4
  <2> QED
    BY <2>1, Zenon DEF Merkle!Power
<1>6. ASSUME NEW k \in Nat PROVE Merkle!Power[k + 1] = 2 * Merkle!Power[k]
  <2>1. k + 1 \in Nat /\ k + 1 # 0 /\ (k + 1) - 1 = k
    OBVIOUS
  <2> QED
    BY <1>5, <2>1
<1> QED
  BY <1>5, <1>6

\* Powers are numbers, larger than the exponent, and grow with it.
LEMMA PowersGrow ==
  /\ \A k \in Nat : Merkle!Power[k] \in Nat \ {0} /\ Merkle!Power[k] >= k + 1
  /\ \A k \in Nat : \A l \in 0..k : Merkle!Power[l] <= Merkle!Power[k]
  /\ \A k \in Nat : \A l \in 0..(k - 1) : Merkle!Power[l] < Merkle!Power[k]
<1> DEFINE S == {k \in Nat : Merkle!Power[k] \in Nat \ {0} /\ Merkle!Power[k] >= k + 1}
<1>1. \A k \in Nat : Merkle!Power[k] \in Nat \ {0} /\ Merkle!Power[k] >= k + 1
  <2>1. 0 \in S
    BY PowerIs
  <2>2. ASSUME NEW k \in Nat, k \in S PROVE k + 1 \in S
    <3>1. Merkle!Power[k + 1] = 2 * Merkle!Power[k]
      BY PowerIs
    <3> QED
      BY <2>2, <3>1
  <2> HIDE DEF S
  <2>3. \A k \in Nat : k \in S
    BY <2>1, <2>2, Induction
  <2> QED
    BY <2>3 DEF S
<1> DEFINE T == {k \in Nat : \A l \in 0..k : Merkle!Power[l] <= Merkle!Power[k]}
<1>2. \A k \in Nat : k \in T
  <2>1. 0 \in T
    BY PowerIs
  <2>2. ASSUME NEW k \in Nat, k \in T PROVE k + 1 \in T
    <3>1. Merkle!Power[k + 1] = 2 * Merkle!Power[k] /\ Merkle!Power[k] \in Nat
      BY <1>1, PowerIs
    <3>2. ASSUME NEW l \in 0..(k + 1) PROVE Merkle!Power[l] <= Merkle!Power[k + 1]
      <4>1. CASE l = k + 1
        BY <3>1, <4>1
      <4>2. CASE l # k + 1
        <5>1. l \in 0..k /\ l \in Nat
          BY <4>2
        <5>2. Merkle!Power[l] <= Merkle!Power[k] /\ Merkle!Power[l] \in Nat
          BY <1>1, <2>2, <5>1
        <5> QED
          BY <3>1, <5>2
      <4> QED
        BY <4>1, <4>2
    <3> QED
      BY <3>2
  <2> HIDE DEF T
  <2> QED
    BY <2>1, <2>2, Induction
<1>3. ASSUME NEW k \in Nat, NEW l \in 0..(k - 1) PROVE Merkle!Power[l] < Merkle!Power[k]
  <2>1. k - 1 \in Nat /\ (k - 1) + 1 = k /\ l \in 0..(k - 1) /\ l \in Nat
    OBVIOUS
  <2>2. Merkle!Power[k] = 2 * Merkle!Power[k - 1]
    BY <2>1, PowerIs
  <2>3. Merkle!Power[l] <= Merkle!Power[k - 1] /\ Merkle!Power[l] \in Nat
    BY <1>1, <1>2, <2>1
  <2>4. Merkle!Power[k - 1] \in Nat /\ Merkle!Power[k - 1] >= 1
    BY <1>1, <2>1
  <2> QED
    BY <2>2, <2>3, <2>4
<1> QED
  BY <1>1, <1>2, <1>3

\* The depth is the least number of bits that tells n leaves apart, and a tree
\* of as many leaves as the lowest row has the same depth.
LEMMA DepthIs ==
  ASSUME NEW n \in Nat \ {0}
  PROVE  LET d == Merkle!Depth(n) IN
         /\ d \in Nat /\ Merkle!Power[d] >= n
         /\ d = 0 \/ Merkle!Power[d - 1] < n
         /\ d = 0 <=> n = 1
         /\ Merkle!Depth(Merkle!Power[d]) = d
<1> DEFINE P(k, m) == Merkle!Power[k] >= m /\ (k = 0 \/ Merkle!Power[k - 1] < m)
<1>1. \A m \in Nat \ {0} : Merkle!Depth(m) = CHOOSE k \in 0..m : P(k, m)
  BY DEF Merkle!Depth
<1>2. ASSUME NEW m \in Nat \ {0} PROVE Merkle!Depth(m) \in 0..m /\ P(Merkle!Depth(m), m)
  <2> DEFINE enough == {k \in Nat : Merkle!Power[k] >= m}
  <2>1. m \in enough
    BY PowersGrow
  <2>2. PICK k \in enough : \A l \in enough : k <= l
    BY <2>1, Least
  <2>3. k \in 0..m
    BY <2>1, <2>2
  <2>4. k = 0 \/ Merkle!Power[k - 1] < m
    <3>1. CASE k # 0
      <4>1. k - 1 \in Nat /\ ~(k <= k - 1)
        BY <2>3, <3>1
      <4>2. ~(Merkle!Power[k - 1] >= m)
        BY <2>2, <4>1
      <4> QED
        BY <4>1, <4>2, PowersGrow
    <3> QED
      BY <3>1
  <2>5. P(k, m)
    BY <2>2, <2>4
  <2> HIDE DEF P
  <2> QED
    BY <1>1, <2>3, <2>5
<1>3. ASSUME NEW m \in Nat \ {0}, NEW k \in Nat, NEW l \in Nat, P(k, m), P(l, m) PROVE k = l
  <2>1. ASSUME NEW x \in Nat, NEW y \in Nat, x < y, P(x, m), P(y, m) PROVE FALSE
    <3>1. x \in 0..(y - 1) /\ y - 1 \in Nat /\ y # 0
      BY <2>1
    <3>2. Merkle!Power[x] <= Merkle!Power[y - 1] /\ Merkle!Power[x] \in Nat /\ Merkle!Power[y - 1] \in Nat
      BY <3>1, PowersGrow
    <3> QED
      BY <2>1, <3>1, <3>2
  <2> HIDE DEF P
  <2> QED
    BY <1>3, <2>1
<1> DEFINE d == Merkle!Depth(n)
<1>4. d \in Nat /\ P(d, n)
  BY <1>2
<1>5. Merkle!Depth(Merkle!Power[d]) = d
  <2>1. Merkle!Power[d] \in Nat \ {0}
    BY <1>4, PowersGrow
  <2>2. P(d, Merkle!Power[d])
    <3>1. CASE d # 0
      <4>1. d - 1 \in 0..(d - 1)
        BY <1>4, <3>1
      <4> QED
        BY <1>4, <2>1, <4>1, PowersGrow
    <3> QED
      BY <1>4, <2>1, <3>1
  <2> HIDE DEF P, d
  <2> QED
    BY <1>2, <1>3, <1>4, <2>1, <2>2
<1>6. d = 0 <=> n = 1
  <2>1. ASSUME d # 0 PROVE Merkle!Power[d - 1] >= 1 /\ Merkle!Power[d - 1] \in Nat /\ Merkle!Power[d - 1] < n
    <3>1. d - 1 \in Nat
      BY <1>4, <2>1
    <3> QED
      BY <1>4, <2>1, <3>1, PowersGrow
  <2> HIDE DEF d
  <2> QED
    BY <1>4, <2>1, PowerIs
<1> HIDE DEF d
<1> QED
  BY <1>4, <1>5, <1>6 DEF d

-----------------------------------------------------------------------------
\* The path from a leaf to the root

\* Halving a quotient.
LEMMA Halved ==
  ASSUME NEW a \in Nat, NEW p \in Nat \ {0}
  PROVE  (a \div p) \div 2 = a \div (2 * p)
<1> DEFINE q == a \div p
           r == a % p
           s == q \div 2
           t == q % 2
<1>1. q \in Nat /\ r \in 0..(p - 1) /\ a = p * q + r
  BY Division
<1> HIDE DEF q, r
<1>2. s \in Nat /\ t \in 0..1 /\ q = 2 * s + t
  BY <1>1, Division
<1> HIDE DEF s, t
<1>3. a = (2 * p) * s + (p * t + r)
  <2>1. p * q = p * (2 * s) + p * t
    BY <1>1, <1>2
  <2>2. p * (2 * s) = (2 * p) * s
    BY <1>2
  <2>3. p * q \in Nat /\ p * t \in Nat /\ (2 * p) * s \in Nat
    BY <1>1, <1>2
  <2> QED
    BY <1>1, <2>1, <2>2, <2>3
<1>4. p * t + r \in 0..((2 * p) - 1)
  <2>1. CASE t = 0
    BY <1>1, <2>1
  <2>2. CASE t = 1
    BY <1>1, <2>2
  <2> QED
    BY <1>2, <2>1, <2>2
<1>5. a \div (2 * p) = s
  <2>1. 2 * p \in Nat \ {0}
    OBVIOUS
  <2> DEFINE k == 2 * p
             w == p * t + r
  <2>2. k \in Nat \ {0} /\ w \in 0..(k - 1) /\ a = k * s + w
    BY <1>3, <1>4, <2>1
  <2> HIDE DEF k, w
  <2>3. (k * s + w) \div k = s
    BY <1>2, <2>2, DivisionUnique
  <2>4. a \div k = s
    BY <2>2, <2>3
  <2> QED
    BY <2>4 DEF k
<1> QED
  BY <1>5 DEF q, s

\* The node h levels above leaf index is the number that the upper bits of
\* index make, counted from the first node of its row; the lowest bit tells on
\* which side it is of its parent.
LEMMA OnPath ==
  ASSUME NEW d \in Nat, NEW index \in Nat, index < Merkle!Power[d]
  PROVE  /\ Merkle!Path(d, index, 0) = index + Merkle!Power[d]
         /\ Merkle!Path(d, index, d) = 1
         /\ \A h \in 0..d : Merkle!Path(d, index, h) = index \div Merkle!Power[h] + Merkle!Power[d - h]
         /\ \A h \in 0..(d - 1) :
              /\ Merkle!Path(d, index, h + 1) = Merkle!Path(d, index, h) \div 2
              /\ Merkle!Path(d, index, h) % 2 = (index \div Merkle!Power[h]) % 2
<1> DEFINE p(h) == Merkle!Path(d, index, h)
           q(h) == index \div Merkle!Power[h]
<1>1. /\ Merkle!Power[d] \in Nat \ {0}
      /\ \A h \in 0..d : Merkle!Power[h] \in Nat \ {0} /\ Merkle!Power[d - h] \in Nat \ {0} /\ q(h) \in Nat
  <2>1. \A k \in Nat : Merkle!Power[k] \in Nat \ {0}
    BY PowersGrow
  <2>2. ASSUME NEW h \in 0..d PROVE Merkle!Power[h] \in Nat \ {0} /\ Merkle!Power[d - h] \in Nat \ {0} /\ q(h) \in Nat
    <3>1. h \in Nat /\ d - h \in Nat
      OBVIOUS
    <3>2. Merkle!Power[h] \in Nat \ {0} /\ Merkle!Power[d - h] \in Nat \ {0}
      BY <2>1, <3>1
    <3> QED
      BY <3>2, Division
  <2> QED
    BY <2>1, <2>2
<1>2. /\ Merkle!Power[0] = 1
      /\ p(0) = index + Merkle!Power[d]
      /\ q(0) = index
  BY <1>1, PowerIs DEF Merkle!Path
<1>3. ASSUME NEW h \in 0..(d - 1)
      PROVE  /\ p(h + 1) = p(h) \div 2 /\ q(h + 1) = q(h) \div 2
             /\ Merkle!Power[d - h] = 2 * Merkle!Power[d - (h + 1)]
  <2>1. /\ h \in Nat /\ h \in 0..d /\ h + 1 \in 0..d /\ index + Merkle!Power[d] \in Nat
        /\ d - (h + 1) \in Nat /\ (d - (h + 1)) + 1 = d - h
    BY <1>1
  <2>2. Merkle!Power[h + 1] = 2 * Merkle!Power[h] /\ Merkle!Power[d - h] = 2 * Merkle!Power[d - (h + 1)]
    BY <2>1, PowerIs
  <2>3. (index \div Merkle!Power[h]) \div 2 = index \div (2 * Merkle!Power[h])
    BY <1>1, <2>1, Halved
  <2>4. ((index + Merkle!Power[d]) \div Merkle!Power[h]) \div 2 = (index + Merkle!Power[d]) \div (2 * Merkle!Power[h])
    BY <1>1, <2>1, Halved
  <2> QED
    BY <2>2, <2>3, <2>4, Zenon DEF Merkle!Path
<1> HIDE DEF p, q
<1> DEFINE S == {h \in Nat : h <= d => p(h) = q(h) + Merkle!Power[d - h]}
<1>4. \A h \in Nat : h \in S
  <2>1. 0 \in S
    BY <1>2
  <2>2. ASSUME NEW h \in Nat, h \in S PROVE h + 1 \in S
    <3>1. CASE h + 1 <= d
      <4>1. h \in 0..(d - 1) /\ h \in 0..d /\ h + 1 \in 0..d
        BY <3>1
      <4> DEFINE w == Merkle!Power[d - (h + 1)]
      <4>2. p(h) = q(h) + 2 * w /\ w \in Nat /\ q(h) \in Nat
        BY <1>1, <1>3, <2>2, <3>1, <4>1
      <4>3. p(h + 1) = p(h) \div 2 /\ q(h + 1) = q(h) \div 2
        BY <1>3, <4>1
      <4> HIDE DEF w
      <4>4. p(h + 1) = q(h + 1) + w
        BY <4>2, <4>3
      <4> QED
        BY <4>4 DEF w
    <3> QED
      BY <3>1
  <2> HIDE DEF S
  <2> QED
    BY <2>1, <2>2, Induction
<1>5. \A h \in 0..d : p(h) = q(h) + Merkle!Power[d - h]
  BY <1>4
<1>6. p(d) = 1
  <2>1. q(d) = 0
    <3> DEFINE k == Merkle!Power[d]
    <3>1. k \in Nat \ {0} /\ index \in 0..(k - 1) /\ k * 0 + index = index
      BY <1>1
    <3> HIDE DEF k
    <3>2. index \div k = 0
      BY <3>1
    <3> QED
      BY <3>2 DEF q, k
  <2>2. d \in 0..d /\ d - d = 0
    OBVIOUS
  <2> QED
    BY <1>2, <1>5, <2>1, <2>2
<1>7. ASSUME NEW h \in 0..(d - 1) PROVE p(h) % 2 = q(h) % 2
  <2> DEFINE w == Merkle!Power[d - (h + 1)]
  <2>1. h \in 0..d /\ h + 1 \in 0..d
    OBVIOUS
  <2>2. p(h) = q(h) + 2 * w /\ w \in Nat /\ q(h) \in Nat
    BY <1>1, <1>3, <1>5, <2>1
  <2> HIDE DEF w
  <2> QED
    BY <2>2
<1> QED
  BY <1>2, <1>3, <1>5, <1>6, <1>7 DEF p, q

\* So all nodes of the path are in the tree, those above the leaf above the
\* lowest row, and each is one of the two children of the next.
LEMMA PathInTree ==
  ASSUME NEW d \in Nat, NEW index \in Nat, index < Merkle!Power[d]
  PROVE  LET row == Merkle!Power[d]
             p(h) == Merkle!Path(d, index, h) IN
         /\ \A h \in 0..d : p(h) \in 1..(2 * row - 1)
         /\ \A h \in 1..d : p(h) \in 1..(row - 1)
         /\ \A h \in 1..d : IF (index \div Merkle!Power[h - 1]) % 2 = 1
                            THEN p(h - 1) = 2 * p(h) + 1 /\ Merkle!Sibling(p(h - 1)) = 2 * p(h)
                            ELSE p(h - 1) = 2 * p(h) /\ Merkle!Sibling(p(h - 1)) = 2 * p(h) + 1
<1> DEFINE row == Merkle!Power[d]
           p(h) == Merkle!Path(d, index, h)
           b(h) == (index \div Merkle!Power[h]) % 2
<1>1. row \in Nat \ {0}
  BY PowersGrow
<1>2. p(0) \in row..(2 * row - 1)
  BY <1>1, OnPath
<1>3. ASSUME NEW h \in 1..d
      PROVE  h - 1 \in 0..(d - 1) /\ p(h) = p(h - 1) \div 2 /\ p(h - 1) % 2 = b(h - 1)
  <2>1. h - 1 \in 0..(d - 1) /\ (h - 1) + 1 = h
    OBVIOUS
  <2> QED
    BY <2>1, OnPath
<1>4. \A h \in 0..d : p(h) \in Nat \ {0}
  <2>1. ASSUME NEW h \in 0..d PROVE p(h) \in Nat \ {0}
    <3>1. h \in Nat /\ d - h \in Nat
      OBVIOUS
    <3>2. Merkle!Power[h] \in Nat \ {0} /\ Merkle!Power[d - h] \in Nat \ {0}
      BY <3>1, PowersGrow
    <3>3. index \div Merkle!Power[h] \in Nat
      BY <3>2, Division
    <3>4. p(h) = index \div Merkle!Power[h] + Merkle!Power[d - h]
      BY OnPath
    <3> QED
      BY <3>2, <3>3, <3>4
  <2> QED
    BY <2>1
<1> HIDE DEF p, row, b
<1> DEFINE S == {h \in Nat : h + 1 <= d => p(h + 1) < row}
<1>5. \A h \in Nat : h \in S
  <2>1. 0 \in S
    <3>1. CASE 1 <= d
      <4>1. 1 \in 1..d /\ 1 - 1 = 0
        BY <3>1
      <4>2. p(1) = p(0) \div 2
        BY <1>3, <4>1
      <4>3. p(1) < row
        BY <1>1, <1>2, <4>2
      <4> QED
        BY <4>3
    <3> QED
      BY <3>1
  <2>2. ASSUME NEW h \in Nat, h \in S PROVE h + 1 \in S
    <3>1. CASE (h + 1) + 1 <= d
      <4>1. (h + 1) + 1 \in 1..d /\ ((h + 1) + 1) - 1 = h + 1 /\ h + 1 \in 0..d /\ h + 1 <= d
        BY <3>1
      <4>2. p((h + 1) + 1) = p(h + 1) \div 2
        BY <1>3, <4>1
      <4>3. p(h + 1) \in Nat \ {0} /\ p(h + 1) < row
        BY <1>4, <2>2, <4>1
      <4>4. p((h + 1) + 1) < row
        BY <1>1, <4>2, <4>3
      <4> QED
        BY <4>4
    <3> QED
      BY <3>1
  <2> HIDE DEF S
  <2> QED
    BY <2>1, <2>2, Induction
<1>6. ASSUME NEW h \in 1..d PROVE p(h) \in 1..(row - 1)
  <2>1. h - 1 \in Nat /\ (h - 1) + 1 = h /\ h <= d /\ h \in 0..d
    OBVIOUS
  <2>2. p(h) < row
    BY <1>5, <2>1
  <2> QED
    BY <1>1, <1>4, <2>1, <2>2
<1>7. ASSUME NEW h \in 0..d PROVE p(h) \in 1..(2 * row - 1)
  <2>1. CASE h = 0
    BY <1>1, <1>2, <2>1
  <2>2. CASE h # 0
    BY <1>1, <1>6, <2>2
  <2> QED
    BY <2>1, <2>2
<1>8. ASSUME NEW h \in 1..d
      PROVE  IF b(h - 1) = 1
             THEN p(h - 1) = 2 * p(h) + 1 /\ Merkle!Sibling(p(h - 1)) = 2 * p(h)
             ELSE p(h - 1) = 2 * p(h) /\ Merkle!Sibling(p(h - 1)) = 2 * p(h) + 1
  <2>1. p(h) = p(h - 1) \div 2 /\ p(h - 1) % 2 = b(h - 1) /\ p(h - 1) \in Nat
    BY <1>3, <1>4
  <2>2. b(h - 1) \in 0..1
    BY <2>1
  <2> QED
    BY <2>1, <2>2 DEF Merkle!Sibling
<1> QED
  BY <1>6, <1>7, <1>8 DEF p, row, b

-----------------------------------------------------------------------------
\* The equations of the recursive functions of the trees have solutions

\* merkleTree: the nodes of the tree.
LEMMA TreeIs ==
  ASSUME NEW leaves
  PROVE  LET row == Merkle!Power[Merkle!Depth(Len(leaves))]
             tree == Merkle!Tree(leaves) IN
         Len(leaves) \in Nat \ {0} =>
         /\ tree = [i \in 1..(2 * row - 1) |-> tree[i]]
         /\ \A i \in 1..(row - 1) : tree[i] = Merkle!Hash(tree[2 * i] \o tree[2 * i + 1])
         /\ \A i \in row..(2 * row - 1) :
              tree[i] = IF i < row + Len(leaves) THEN Merkle!Hash(leaves[i - row + 1]) ELSE <<>>
<1> DEFINE row == Merkle!Power[Merkle!Depth(Len(leaves))]
           N == 2 * row - 1
           e(f, i) == IF i < row THEN Merkle!Hash(f[2 * i] \o f[2 * i + 1])
                      ELSE IF i < row + Len(leaves) THEN Merkle!Hash(leaves[i - row + 1])
                      ELSE <<>>
           tree == Merkle!Tree(leaves)
<1> SUFFICES ASSUME Len(leaves) \in Nat \ {0}
             PROVE  /\ tree = [i \in 1..N |-> tree[i]]
                    /\ \A i \in 1..(row - 1) : tree[i] = Merkle!Hash(tree[2 * i] \o tree[2 * i + 1])
                    /\ \A i \in row..N :
                         tree[i] = IF i < row + Len(leaves) THEN Merkle!Hash(leaves[i - row + 1]) ELSE <<>>
  OBVIOUS
<1>1. row \in Nat \ {0} /\ N \in Nat \ {0}
  <2>1. Merkle!Depth(Len(leaves)) \in Nat
    BY DepthIs
  <2>2. \A k \in Nat : Merkle!Power[k] \in Nat \ {0}
    BY PowersGrow
  <2>3. row \in Nat \ {0}
    BY <2>1, <2>2
  <2> HIDE DEF row
  <2> QED
    BY <2>3
<1>2. ASSUME NEW f, NEW g, NEW i \in 1..N, i < row => f[2 * i] = g[2 * i] /\ f[2 * i + 1] = g[2 * i + 1]
      PROVE  e(f, i) = e(g, i)
  BY <1>2
<1>3. ASSUME NEW i \in 1..N, i < row PROVE 2 * i \in 1..N /\ 2 * i + 1 \in 1..N /\ 2 * i > i /\ 2 * i + 1 > i
  <2> HIDE DEF row
  <2> QED
    BY <1>1, <1>3
<1>4. tree = CHOOSE f : f = [i \in 1..N |-> e(f, i)]
  BY Zenon DEF Merkle!Tree
<1> HIDE DEF e, N, row
<1> DEFINE below(f, k) == \A i \in 1..N : i > N - k => f[i] = e(f, i)
           S == {k \in Nat : \E f : below(f, k)}
<1>5. \A k \in Nat : k \in S
  <2>1. 0 \in S
    <3>1. below(leaves, 0)
      BY <1>1
    <3> QED
      BY <3>1
  <2>2. ASSUME NEW k \in Nat, k \in S PROVE k + 1 \in S
    <3>1. PICK f : below(f, k)
      BY <2>2
    <3> DEFINE g == [i \in 1..N |-> e(f, i)]
    <3>2. ASSUME NEW i \in 1..N, i > N - (k + 1) PROVE g[i] = e(g, i)
      <4>1. ASSUME i < row PROVE f[2 * i] = g[2 * i] /\ f[2 * i + 1] = g[2 * i + 1]
        <5>1. /\ 2 * i \in 1..N /\ 2 * i + 1 \in 1..N
              /\ 2 * i > N - k /\ 2 * i + 1 > N - k
          BY <1>1, <1>3, <3>2, <4>1
        <5> QED
          BY <3>1, <5>1
      <4>2. e(f, i) = e(g, i)
        <5> HIDE DEF g
        <5> QED
          BY <1>2, <4>1
      <4> QED
        BY <4>2
    <3>3. below(g, k + 1)
      BY <3>2
    <3> HIDE DEF g, below
    <3> QED
      BY <3>3
  <2> HIDE DEF S
  <2> QED
    BY <2>1, <2>2, Induction
<1>6. \E f : f = [i \in 1..N |-> e(f, i)]
  <2>1. PICK f : below(f, N)
    BY <1>1, <1>5
  <2> DEFINE g == [i \in 1..N |-> e(f, i)]
  <2>2. ASSUME NEW i \in 1..N PROVE g[i] = f[i] /\ g[i] = e(f, i)
    BY <1>1, <2>1
  <2>3. ASSUME NEW i \in 1..N PROVE e(f, i) = e(g, i)
    <3>1. ASSUME i < row PROVE f[2 * i] = g[2 * i] /\ f[2 * i + 1] = g[2 * i + 1]
      BY <1>3, <2>2, <3>1
    <3> HIDE DEF g
    <3> QED
      BY <1>2, <3>1
  <2>4. g = [i \in 1..N |-> e(g, i)]
    BY <2>3
  <2> HIDE DEF g
  <2> QED
    BY <2>4
<1>7. tree = [i \in 1..N |-> e(tree, i)]
  <2> HIDE DEF tree
  <2> QED
    BY <1>4, <1>6, Zenon
<1> HIDE DEF tree
<1>8. \A i \in 1..N : tree[i] = e(tree, i)
  BY <1>7
<1>9. tree = [i \in 1..N |-> tree[i]]
  BY <1>7, <1>8
<1>10. ASSUME NEW i \in 1..(row - 1) PROVE tree[i] = Merkle!Hash(tree[2 * i] \o tree[2 * i + 1])
  <2>1. i \in 1..N /\ i < row
    BY <1>1 DEF N
  <2>2. tree[i] = e(tree, i)
    BY <1>8, <2>1
  <2> QED
    BY <2>1, <2>2 DEF e
<1>11. ASSUME NEW i \in row..N
       PROVE  tree[i] = IF i < row + Len(leaves) THEN Merkle!Hash(leaves[i - row + 1]) ELSE <<>>
  <2>1. i \in 1..N /\ ~(i < row)
    BY <1>1 DEF N
  <2>2. tree[i] = e(tree, i)
    BY <1>8, <2>1
  <2> QED
    BY <2>1, <2>2 DEF e
<1> QED
  BY <1>9, <1>10, <1>11 DEF N

\* merkleTree of the earlier broadcast.
LEMMA OldTreeIs ==
  ASSUME NEW leaves
  PROVE  LET row == Merkle!Power[Merkle!Depth(Len(leaves))]
             tree == Merkle!OldTree(leaves) IN
         Len(leaves) \in Nat \ {0} =>
         /\ tree = [i \in 1..(2 * row - 1) |-> tree[i]]
         /\ \A i \in 1..(row - 1) : tree[i] = Merkle!OldJoin(tree[2 * i], tree[2 * i + 1])
         /\ \A i \in row..(2 * row - 1) :
              tree[i] = IF i < row + Len(leaves) THEN Merkle!Hash(leaves[i - row + 1]) ELSE Merkle!Unused
<1> DEFINE row == Merkle!Power[Merkle!Depth(Len(leaves))]
           N == 2 * row - 1
           e(f, i) == IF i < row THEN Merkle!OldJoin(f[2 * i], f[2 * i + 1])
                      ELSE IF i < row + Len(leaves) THEN Merkle!Hash(leaves[i - row + 1])
                      ELSE Merkle!Unused
           tree == Merkle!OldTree(leaves)
<1> SUFFICES ASSUME Len(leaves) \in Nat \ {0}
             PROVE  /\ tree = [i \in 1..N |-> tree[i]]
                    /\ \A i \in 1..(row - 1) : tree[i] = Merkle!OldJoin(tree[2 * i], tree[2 * i + 1])
                    /\ \A i \in row..N :
                         tree[i] = IF i < row + Len(leaves) THEN Merkle!Hash(leaves[i - row + 1]) ELSE Merkle!Unused
  OBVIOUS
<1>1. row \in Nat \ {0} /\ N \in Nat \ {0}
  <2>1. Merkle!Depth(Len(leaves)) \in Nat
    BY DepthIs
  <2>2. \A k \in Nat : Merkle!Power[k] \in Nat \ {0}
    BY PowersGrow
  <2>3. row \in Nat \ {0}
    BY <2>1, <2>2
  <2> HIDE DEF row
  <2> QED
    BY <2>3
<1>2. ASSUME NEW f, NEW g, NEW i \in 1..N, i < row => f[2 * i] = g[2 * i] /\ f[2 * i + 1] = g[2 * i + 1]
      PROVE  e(f, i) = e(g, i)
  BY <1>2
<1>3. ASSUME NEW i \in 1..N, i < row PROVE 2 * i \in 1..N /\ 2 * i + 1 \in 1..N /\ 2 * i > i /\ 2 * i + 1 > i
  <2> HIDE DEF row
  <2> QED
    BY <1>1, <1>3
<1>4. tree = CHOOSE f : f = [i \in 1..N |-> e(f, i)]
  BY Zenon DEF Merkle!OldTree
<1> HIDE DEF e, N, row
<1> DEFINE below(f, k) == \A i \in 1..N : i > N - k => f[i] = e(f, i)
           S == {k \in Nat : \E f : below(f, k)}
<1>5. \A k \in Nat : k \in S
  <2>1. 0 \in S
    <3>1. below(leaves, 0)
      BY <1>1
    <3> QED
      BY <3>1
  <2>2. ASSUME NEW k \in Nat, k \in S PROVE k + 1 \in S
    <3>1. PICK f : below(f, k)
      BY <2>2
    <3> DEFINE g == [i \in 1..N |-> e(f, i)]
    <3>2. ASSUME NEW i \in 1..N, i > N - (k + 1) PROVE g[i] = e(g, i)
      <4>1. ASSUME i < row PROVE f[2 * i] = g[2 * i] /\ f[2 * i + 1] = g[2 * i + 1]
        <5>1. /\ 2 * i \in 1..N /\ 2 * i + 1 \in 1..N
              /\ 2 * i > N - k /\ 2 * i + 1 > N - k
          BY <1>1, <1>3, <3>2, <4>1
        <5> QED
          BY <3>1, <5>1
      <4>2. e(f, i) = e(g, i)
        <5> HIDE DEF g
        <5> QED
          BY <1>2, <4>1
      <4> QED
        BY <4>2
    <3>3. below(g, k + 1)
      BY <3>2
    <3> HIDE DEF g, below
    <3> QED
      BY <3>3
  <2> HIDE DEF S
  <2> QED
    BY <2>1, <2>2, Induction
<1>6. \E f : f = [i \in 1..N |-> e(f, i)]
  <2>1. PICK f : below(f, N)
    BY <1>1, <1>5
  <2> DEFINE g == [i \in 1..N |-> e(f, i)]
  <2>2. ASSUME NEW i \in 1..N PROVE g[i] = f[i] /\ g[i] = e(f, i)
    BY <1>1, <2>1
  <2>3. ASSUME NEW i \in 1..N PROVE e(f, i) = e(g, i)
    <3>1. ASSUME i < row PROVE f[2 * i] = g[2 * i] /\ f[2 * i + 1] = g[2 * i + 1]
      BY <1>3, <2>2, <3>1
    <3> HIDE DEF g
    <3> QED
      BY <1>2, <3>1
  <2>4. g = [i \in 1..N |-> e(g, i)]
    BY <2>3
  <2> HIDE DEF g
  <2> QED
    BY <2>4
<1>7. tree = [i \in 1..N |-> e(tree, i)]
  <2> HIDE DEF tree
  <2> QED
    BY <1>4, <1>6, Zenon
<1> HIDE DEF tree
<1>8. \A i \in 1..N : tree[i] = e(tree, i)
  BY <1>7
<1>9. tree = [i \in 1..N |-> tree[i]]
  BY <1>7, <1>8
<1>10. ASSUME NEW i \in 1..(row - 1) PROVE tree[i] = Merkle!OldJoin(tree[2 * i], tree[2 * i + 1])
  <2>1. i \in 1..N /\ i < row
    BY <1>1 DEF N
  <2>2. tree[i] = e(tree, i)
    BY <1>8, <2>1
  <2> QED
    BY <2>1, <2>2 DEF e
<1>11. ASSUME NEW i \in row..N
       PROVE  tree[i] = IF i < row + Len(leaves) THEN Merkle!Hash(leaves[i - row + 1]) ELSE Merkle!Unused
  <2>1. i \in 1..N /\ ~(i < row)
    BY <1>1 DEF N
  <2>2. tree[i] = e(tree, i)
    BY <1>8, <2>1
  <2> QED
    BY <2>1, <2>2 DEF e
<1> QED
  BY <1>9, <1>10, <1>11 DEF N

\* The values that the variable of the loop of merkleVerify goes through: it
\* starts as the hash of the value and is hashed with one sibling after the
\* other.
Climbing(tmp, val, branch, index) ==
  /\ tmp[0] = Merkle!Hash(val)
  /\ \A h \in 1..Len(branch) :
       tmp[h] = IF (index \div Merkle!Power[h - 1]) % 2 = 1
                THEN Merkle!Hash(branch[h] \o tmp[h - 1])
                ELSE Merkle!Hash(tmp[h - 1] \o branch[h])
  /\ Merkle!Climb(val, branch, index) = tmp[Len(branch)]

LEMMA ClimbIs ==
  ASSUME NEW val, NEW branch, NEW index, Len(branch) \in Nat
  PROVE  \E tmp : Climbing(tmp, val, branch, index)
<1> DEFINE L == Len(branch)
           b(h) == (index \div Merkle!Power[h - 1]) % 2 = 1
           e(f, h) == IF h = 0 THEN Merkle!Hash(val)
                      ELSE IF b(h) THEN Merkle!Hash(branch[h] \o f[h - 1])
                      ELSE Merkle!Hash(f[h - 1] \o branch[h])
           tmp == CHOOSE f : f = [h \in 0..L |-> e(f, h)]
<1>1. Merkle!Climb(val, branch, index) = tmp[L]
  BY Zenon DEF Merkle!Climb
<1>2. ASSUME NEW f, NEW g, NEW h \in Nat, h # 0 => f[h - 1] = g[h - 1] PROVE e(f, h) = e(g, h)
  BY <1>2
<1>3. L \in Nat
  OBVIOUS
<1>4. /\ \A f : e(f, 0) = Merkle!Hash(val)
      /\ \A f : \A h \in 1..L : e(f, h) = IF b(h) THEN Merkle!Hash(branch[h] \o f[h - 1])
                                          ELSE Merkle!Hash(f[h - 1] \o branch[h])
  BY <1>3
<1> HIDE DEF e, b, L
<1> DEFINE S == {n \in Nat : \E f : f = [h \in 0..n |-> e(f, h)]}
<1>5. \A n \in Nat : n \in S
  <2>1. 0 \in S
    <3> DEFINE g == [h \in 0..0 |-> Merkle!Hash(val)]
    <3>1. g = [h \in 0..0 |-> e(g, h)]
      <4>1. ASSUME NEW h \in 0..0 PROVE e(g, h) = Merkle!Hash(val)
        <5>1. h = 0
          OBVIOUS
        <5> HIDE DEF g
        <5> QED
          BY <1>4, <5>1
      <4> QED
        BY <4>1
    <3> HIDE DEF g
    <3> QED
      BY <3>1
  <2>2. ASSUME NEW n \in Nat, n \in S PROVE n + 1 \in S
    <3>1. PICK f : f = [h \in 0..n |-> e(f, h)]
      BY <2>2
    <3> DEFINE g == [h \in 0..(n + 1) |-> e(f, h)]
    <3>2. ASSUME NEW h \in 0..(n + 1) PROVE e(f, h) = e(g, h)
      <4>1. ASSUME h # 0 PROVE f[h - 1] = g[h - 1]
        <5>1. h - 1 \in 0..n /\ h - 1 \in 0..(n + 1)
          BY <4>1
        <5> QED
          BY <3>1, <5>1
      <4> HIDE DEF g
      <4> QED
        BY <1>2, <4>1
    <3>3. g = [h \in 0..(n + 1) |-> e(g, h)]
      BY <3>2
    <3> HIDE DEF g
    <3> QED
      BY <3>3
  <2> HIDE DEF S
  <2> QED
    BY <2>1, <2>2, Induction
<1>6. tmp = [h \in 0..L |-> e(tmp, h)]
  <2>1. \E f : f = [h \in 0..L |-> e(f, h)]
    BY <1>3, <1>5
  <2> QED
    BY <2>1, Zenon
<1> HIDE DEF tmp
<1>7. \A h \in 0..L : tmp[h] = e(tmp, h)
  BY <1>6
<1>8. tmp[0] = Merkle!Hash(val)
  BY <1>3, <1>4, <1>7
<1>9. ASSUME NEW h \in 1..L
      PROVE  tmp[h] = IF b(h) THEN Merkle!Hash(branch[h] \o tmp[h - 1]) ELSE Merkle!Hash(tmp[h - 1] \o branch[h])
  <2>1. h \in 0..L
    BY <1>3
  <2> QED
    BY <1>4, <1>7, <2>1
<1> QED
  BY <1>1, <1>8, <1>9 DEF L, b, Climbing

-----------------------------------------------------------------------------
\* A branch verifies its leaf, and nothing else

\* Different strings have different digests, which are one atom long.
LEMMA Digests ==
  /\ \A x, y : Merkle!Hash(x) = Merkle!Hash(y) => x = y
  /\ \A x : Merkle!Hash(x) = <<[hash |-> x]>> /\ Len(Merkle!Hash(x)) = 1
<1>1. ASSUME NEW x, NEW y, Merkle!Hash(x) = Merkle!Hash(y) PROVE x = y
  <2>1. [hash |-> x] = [hash |-> y]
    BY <1>1 DEF Merkle!Hash
  <2>2. [hash |-> x].hash = x /\ [hash |-> y].hash = y
    OBVIOUS
  <2> QED
    BY <2>1, <2>2
<1> QED
  BY <1>1 DEF Merkle!Hash

\* With the siblings of its path, the loop of merkleVerify goes through the
\* nodes of the path up to the root, in any tree of which those nodes are the
\* hashes of their children.
LEMMA Climbs ==
  ASSUME NEW t, NEW leaf, NEW d \in Nat, NEW index \in Nat, index < Merkle!Power[d],
         Merkle!Depth(Merkle!Power[d]) = d,
         Len(t) = 2 * Merkle!Power[d] - 1,
         t[Merkle!Path(d, index, 0)] = Merkle!Hash(leaf),
         \A h \in 1..d : t[Merkle!Path(d, index, h)] =
             Merkle!Hash(t[2 * Merkle!Path(d, index, h)] \o t[2 * Merkle!Path(d, index, h) + 1])
  PROVE  /\ Len(Merkle!Branch(index, t)) = d
         /\ Merkle!Climb(leaf, Merkle!Branch(index, t), index) = t[1]
<1> DEFINE row == Merkle!Power[d]
           p(h) == Merkle!Path(d, index, h)
           branch == Merkle!Branch(index, t)
           b(h) == (index \div Merkle!Power[h - 1]) % 2 = 1
<1>1. branch = [h \in 1..d |-> t[Merkle!Sibling(p(h - 1))]]
  <2>1. Len(t) \div 2 + 1 = row
    <3>1. row \in Nat \ {0} /\ Len(t) = 2 * row - 1
      BY PowersGrow
    <3> HIDE DEF row
    <3> QED
      BY <3>1
  <2>2. Merkle!Depth(Len(t) \div 2 + 1) = d
    BY <2>1, Zenon
  <2> QED
    BY <2>2, Zenon DEF Merkle!Branch
<1>2. \A h \in 1..d : IF b(h) THEN p(h - 1) = 2 * p(h) + 1 /\ Merkle!Sibling(p(h - 1)) = 2 * p(h)
                      ELSE p(h - 1) = 2 * p(h) /\ Merkle!Sibling(p(h - 1)) = 2 * p(h) + 1
  BY PathInTree
<1>3. p(d) = 1
  BY OnPath
<1>4. t[p(0)] = Merkle!Hash(leaf) /\ \A h \in 1..d : t[p(h)] = Merkle!Hash(t[2 * p(h)] \o t[2 * p(h) + 1])
  OBVIOUS
<1>5. Len(branch) = d /\ \A h \in 1..d : branch[h] = t[Merkle!Sibling(p(h - 1))]
  BY <1>1
<1> HIDE DEF branch
<1>6. PICK tmp : /\ tmp[0] = Merkle!Hash(leaf)
                 /\ \A h \in 1..d : tmp[h] = IF b(h) THEN Merkle!Hash(branch[h] \o tmp[h - 1])
                                             ELSE Merkle!Hash(tmp[h - 1] \o branch[h])
                 /\ Merkle!Climb(leaf, branch, index) = tmp[d]
  <2>1. Len(branch) \in Nat
    BY <1>5
  <2>2. \E tmp : Climbing(tmp, leaf, branch, index)
    BY <2>1, ClimbIs
  <2> QED
    BY <1>5, <2>2 DEF Climbing
<1> HIDE DEF p, b
<1> DEFINE S == {h \in Nat : h <= d => tmp[h] = t[p(h)]}
<1>7. \A h \in Nat : h \in S
  <2>1. 0 \in S
    BY <1>4, <1>6
  <2>2. ASSUME NEW k \in Nat, k \in S PROVE k + 1 \in S
    <3>1. CASE k + 1 <= d
      <4> DEFINE h == k + 1
      <4>1. h \in 1..d /\ h - 1 = k /\ k <= d
        BY <3>1
      <4> HIDE DEF h
      <4>2. tmp[h - 1] = t[p(h - 1)]
        BY <2>2, <4>1
      <4>3. tmp[h] = t[p(h)]
        <5>1. CASE b(h)
          <6>1. branch[h] = t[2 * p(h)] /\ tmp[h - 1] = t[2 * p(h) + 1]
            BY <1>2, <1>5, <4>1, <4>2, <5>1
          <6>2. tmp[h] = Merkle!Hash(branch[h] \o tmp[h - 1])
            BY <1>6, <4>1, <5>1
          <6> QED
            BY <1>4, <4>1, <6>1, <6>2
        <5>2. CASE ~b(h)
          <6>1. branch[h] = t[2 * p(h) + 1] /\ tmp[h - 1] = t[2 * p(h)]
            BY <1>2, <1>5, <4>1, <4>2, <5>2
          <6>2. tmp[h] = Merkle!Hash(tmp[h - 1] \o branch[h])
            BY <1>6, <4>1, <5>2
          <6> QED
            BY <1>4, <4>1, <6>1, <6>2
        <5> QED
          BY <5>1, <5>2
      <4> QED
        BY <4>3 DEF h
    <3> QED
      BY <3>1
  <2> HIDE DEF S
  <2> QED
    BY <2>1, <2>2, Induction
<1>8. tmp[d] = t[1]
  <2>1. tmp[d] = t[p(d)]
    BY <1>7
  <2> QED
    BY <1>3, <2>1 DEF p
<1> QED
  BY <1>5, <1>6, <1>8 DEF branch

\* A leaf is at the bottom of its path, and the other nodes of the path are
\* above the lowest row.
LEMMA LeafOnPath ==
  ASSUME NEW n \in Nat \ {0}, NEW index \in 0..(n - 1)
  PROVE  LET d == Merkle!Depth(n)
             row == Merkle!Power[d]
             p(h) == Merkle!Path(d, index, h) IN
         /\ d \in Nat /\ row \in Nat \ {0} /\ n <= row
         /\ index \in Nat /\ index < row
         /\ p(0) = row + index /\ p(0) \in row..(2 * row - 1) /\ p(0) < row + n
         /\ p(0) - row + 1 = index + 1
<1> DEFINE d == Merkle!Depth(n)
           row == Merkle!Power[d]
<1>1. d \in Nat /\ row >= n
  BY DepthIs
<1> HIDE DEF d
<1>2. row \in Nat \ {0}
  BY <1>1, PowersGrow
<1>3. index \in Nat /\ index < row
  BY <1>1, <1>2
<1>4. Merkle!Path(d, index, 0) = index + row
  BY <1>1, <1>3, OnPath
<1> HIDE DEF row
<1>5. /\ d \in Nat /\ row \in Nat \ {0} /\ n <= row
      /\ index \in Nat /\ index < row
      /\ Merkle!Path(d, index, 0) = row + index /\ Merkle!Path(d, index, 0) \in row..(2 * row - 1)
      /\ Merkle!Path(d, index, 0) < row + n
      /\ Merkle!Path(d, index, 0) - row + 1 = index + 1
  BY <1>1, <1>2, <1>3, <1>4
<1> QED
  BY <1>5 DEF d, row

\* The branch that getMerkleBranch makes of a leaf verifies that leaf, in a
\* tree of any number of leaves.
THEOREM MerkleComplete ==
  ASSUME NEW leaves, Len(leaves) \in Nat \ {0}, NEW index \in 0..(Len(leaves) - 1)
  PROVE  LET tree == Merkle!Tree(leaves) IN
         Merkle!Verify(Len(leaves), leaves[index + 1], tree[1], Merkle!Branch(index, tree), index)
<1> DEFINE n == Len(leaves)
           d == Merkle!Depth(n)
           row == Merkle!Power[d]
           tree == Merkle!Tree(leaves)
           leaf == leaves[index + 1]
           p(h) == Merkle!Path(d, index, h)
<1>1. /\ d \in Nat /\ row \in Nat \ {0} /\ n <= row
      /\ index \in Nat /\ index < row
      /\ p(0) \in row..(2 * row - 1) /\ p(0) < row + n
      /\ p(0) - row + 1 = index + 1
  BY LeafOnPath
<1>2. /\ tree = [i \in 1..(2 * row - 1) |-> tree[i]]
      /\ \A i \in 1..(row - 1) : tree[i] = Merkle!Hash(tree[2 * i] \o tree[2 * i + 1])
      /\ \A i \in row..(2 * row - 1) :
           tree[i] = IF i < row + n THEN Merkle!Hash(leaves[i - row + 1]) ELSE <<>>
  BY TreeIs, Zenon
<1>3. Merkle!Depth(row) = d
  BY DepthIs
<1> HIDE DEF tree, d
<1>4. \A h \in 1..d : p(h) \in 1..(row - 1)
  BY <1>1, PathInTree
<1> HIDE DEF p
<1>5. tree[p(0)] = Merkle!Hash(leaf)
  BY <1>1, <1>2
<1>6. \A h \in 1..d : tree[p(h)] = Merkle!Hash(tree[2 * p(h)] \o tree[2 * p(h) + 1])
  BY <1>2, <1>4
<1>7. Len(tree) = 2 * row - 1
  <2> HIDE DEF row
  <2>1. 2 * row - 1 \in Nat
    BY <1>1
  <2> QED
    BY <1>2, <2>1
<1>8. /\ Len(Merkle!Branch(index, tree)) = d
      /\ Merkle!Climb(leaf, Merkle!Branch(index, tree), index) = tree[1]
  <2> USE DEF p
  <2>1. tree[Merkle!Path(d, index, 0)] = Merkle!Hash(leaf)
    BY <1>5
  <2>2. \A h \in 1..d : tree[Merkle!Path(d, index, h)] =
             Merkle!Hash(tree[2 * Merkle!Path(d, index, h)] \o tree[2 * Merkle!Path(d, index, h) + 1])
    BY <1>6
  <2> HIDE DEF leaf, p
  <2> QED
    BY <1>1, <1>3, <1>7, <2>1, <2>2, Climbs, SMTT(30)
<1> QED
  BY <1>8, Zenon DEF Merkle!Verify, tree, d

\* What is in a node of a tree: nothing, or a digest.
IsDigest(v) == \E z : v = Merkle!Hash(z)
IsNode(v) == v = <<>> \/ IsDigest(v)

\* Two strings that end, or begin, with an atom and are equal do so with the
\* same atom.
LEMMA SameLast ==
  ASSUME NEW C, NEW s \in Seq(C), NEW w \in Seq(C), NEW a \in C, NEW c \in C, s \o <<a>> = w \o <<c>>
  PROVE  a = c
<1>1. Len(s) \in Nat /\ Len(w) \in Nat /\ Len(s \o <<a>>) = Len(s) + 1 /\ Len(w \o <<c>>) = Len(w) + 1
  OBVIOUS
<1>2. (s \o <<a>>)[Len(s) + 1] = a /\ (w \o <<c>>)[Len(w) + 1] = c
  OBVIOUS
<1> QED
  BY <1>1, <1>2

LEMMA SameFirst ==
  ASSUME NEW C, NEW s \in Seq(C), NEW w \in Seq(C), NEW a \in C, NEW c \in C, <<a>> \o s = <<c>> \o w
  PROVE  a = c
<1>1. (<<a>> \o s)[1] = a /\ (<<c>> \o w)[1] = c
  OBVIOUS
<1> QED
  BY <1>1

\* A string over B, and a node, as strings over one set that has the atoms of
\* two digests too.
LEMMA CommonAtoms ==
  ASSUME NEW B, NEW u \in Seq(B), NEW v, IsNode(v), NEW a, NEW c
  PROVE  \E C : u \in Seq(C) /\ v \in Seq(C) /\ a \in C /\ c \in C
<1>1. PICK e : v = <<>> \/ v = <<e>>
  BY Digests DEF IsNode, IsDigest
<1> DEFINE C == B \cup {a, c, e}
<1>2. u \in Seq(C)
  <2>1. Len(u) \in Nat /\ \A i \in 1..Len(u) : u[i] \in C
    BY ElementOfSeq, LenProperties
  <2> HIDE DEF C
  <2> QED
    BY <2>1
<1>3. a \in C /\ c \in C /\ e \in C
  OBVIOUS
<1> HIDE DEF C
<1>4. <<>> \in Seq(C) /\ <<e>> \in Seq(C)
  BY <1>3
<1> QED
  BY <1>1, <1>2, <1>3, <1>4

\* Two strings that end, or begin, with a digest and are equal do so with the
\* same digest.
LEMMA SameEnd ==
  ASSUME NEW B, NEW u \in Seq(B), NEW v, IsNode(v), NEW x, IsDigest(x), NEW y, IsDigest(y), u \o x = v \o y
  PROVE  x = y
<1>1. PICK a, c : x = <<a>> /\ y = <<c>>
  BY Digests DEF IsDigest
<1>2. PICK C : u \in Seq(C) /\ v \in Seq(C) /\ a \in C /\ c \in C
  BY CommonAtoms
<1>3. u \o <<a>> = v \o <<c>>
  BY <1>1
<1>4. a = c
  BY <1>2, <1>3, SameLast
<1> QED
  BY <1>1, <1>4

LEMMA SameBegin ==
  ASSUME NEW B, NEW u \in Seq(B), NEW v, IsNode(v), NEW x, IsDigest(x), NEW y, IsDigest(y), x \o u = y \o v
  PROVE  x = y
<1>1. PICK a, c : x = <<a>> /\ y = <<c>>
  BY Digests DEF IsDigest
<1>2. PICK C : u \in Seq(C) /\ v \in Seq(C) /\ a \in C /\ c \in C
  BY CommonAtoms
<1>3. <<a>> \o u = <<c>> \o v
  BY <1>1
<1>4. a = c
  BY <1>2, <1>3, SameFirst
<1> QED
  BY <1>1, <1>4

\* A branch of strings verifies no other value at an index: the length of the
\* branch and the bits of the index say where in the tree its value is.
THEOREM MerkleSound ==
  ASSUME NEW B, NEW leaves, Len(leaves) \in Nat \ {0}, NEW index \in 0..(Len(leaves) - 1),
         NEW branch \in Seq(Seq(B)), NEW val
  PROVE  Merkle!Verify(Len(leaves), val, Merkle!Tree(leaves)[1], branch, index) => val = leaves[index + 1]
<1> DEFINE n == Len(leaves)
           d == Merkle!Depth(n)
           row == Merkle!Power[d]
           tree == Merkle!Tree(leaves)
           leaf == leaves[index + 1]
           p(h) == Merkle!Path(d, index, h)
           b(h) == (index \div Merkle!Power[h - 1]) % 2 = 1
<1> SUFFICES ASSUME Len(branch) = d, Merkle!Climb(val, branch, index) = tree[1]
             PROVE  val = leaf
  BY Zenon DEF Merkle!Verify
<1>1. /\ d \in Nat /\ row \in Nat \ {0} /\ n <= row
      /\ index \in Nat /\ index < row
      /\ p(0) \in row..(2 * row - 1) /\ p(0) < row + n
      /\ p(0) - row + 1 = index + 1
  BY LeafOnPath
<1>2. /\ \A i \in 1..(row - 1) : tree[i] = Merkle!Hash(tree[2 * i] \o tree[2 * i + 1])
      /\ \A i \in row..(2 * row - 1) :
           tree[i] = IF i < row + n THEN Merkle!Hash(leaves[i - row + 1]) ELSE <<>>
  BY TreeIs, Zenon
<1> HIDE DEF tree, d
<1>3. /\ \A h \in 0..d : p(h) \in 1..(2 * row - 1)
      /\ \A h \in 1..d : p(h) \in 1..(row - 1)
      /\ \A h \in 1..d : IF b(h) THEN p(h - 1) = 2 * p(h) + 1 ELSE p(h - 1) = 2 * p(h)
  <2>1. /\ \A h \in 0..d : p(h) \in 1..(2 * row - 1)
        /\ \A h \in 1..d : p(h) \in 1..(row - 1)
        /\ \A h \in 1..d : IF b(h) THEN p(h - 1) = 2 * p(h) + 1 /\ Merkle!Sibling(p(h - 1)) = 2 * p(h)
                           ELSE p(h - 1) = 2 * p(h) /\ Merkle!Sibling(p(h - 1)) = 2 * p(h) + 1
    BY <1>1, PathInTree
  <2> HIDE DEF p, b, row
  <2> QED
    BY <2>1
<1>4. p(d) = 1
  BY <1>1, OnPath
<1>5. PICK tmp : /\ tmp[0] = Merkle!Hash(val)
                 /\ \A h \in 1..d : tmp[h] = IF b(h) THEN Merkle!Hash(branch[h] \o tmp[h - 1])
                                             ELSE Merkle!Hash(tmp[h - 1] \o branch[h])
                 /\ tmp[d] = tree[1]
  <2>1. \E tmp : Climbing(tmp, val, branch, index)
    BY <1>1, ClimbIs
  <2> QED
    BY <2>1 DEF Climbing
<1> HIDE DEF p, b, row
<1>6. \A h \in 0..d : IsDigest(tmp[h])
  <2>1. ASSUME NEW h \in 0..d PROVE IsDigest(tmp[h])
    <3>1. CASE h = 0
      BY <1>5, <3>1 DEF IsDigest
    <3>2. CASE h # 0
      <4>1. h \in 1..d
        BY <1>1, <3>2
      <4>2. CASE b(h)
        BY <1>5, <4>1, <4>2 DEF IsDigest
      <4>3. CASE ~b(h)
        BY <1>5, <4>1, <4>3 DEF IsDigest
      <4> QED
        BY <4>2, <4>3
    <3> QED
      BY <3>1, <3>2
  <2> QED
    BY <2>1
<1>7. tree[p(0)] = Merkle!Hash(leaf)
  BY <1>1, <1>2
<1>8. \A i \in 1..(2 * row - 1) : IsNode(tree[i])
  <2>1. ASSUME NEW i \in 1..(2 * row - 1) PROVE IsNode(tree[i])
    <3>1. CASE i < row
      <4>1. i \in 1..(row - 1)
        BY <1>1, <3>1
      <4> QED
        BY <1>2, <4>1 DEF IsNode, IsDigest
    <3>2. CASE ~(i < row)
      <4>1. i \in row..(2 * row - 1)
        BY <1>1, <3>2
      <4> QED
        BY <1>2, <4>1 DEF IsNode, IsDigest
    <3> QED
      BY <3>1, <3>2
  <2> QED
    BY <2>1
<1>9. \A h \in 0..d : IsDigest(tree[p(h)])
  <2>1. ASSUME NEW h \in 0..d PROVE IsDigest(tree[p(h)])
    <3>1. CASE h = 0
      BY <1>7, <3>1 DEF IsDigest
    <3>2. CASE h # 0
      <4>1. h \in 1..d
        BY <1>1, <3>2
      <4> QED
        BY <1>2, <1>3, <4>1 DEF IsDigest
    <3> QED
      BY <3>1, <3>2
  <2> QED
    BY <2>1
<1> DEFINE S == {k \in Nat : k <= d => tmp[d - k] = tree[p(d - k)]}
<1>10. \A k \in Nat : k \in S
  <2>1. 0 \in S
    <3>1. d - 0 = d
      BY <1>1
    <3> QED
      BY <1>4, <1>5, <3>1
  <2>2. ASSUME NEW k \in Nat, k \in S PROVE k + 1 \in S
    <3>1. CASE k + 1 <= d
      <4> DEFINE h == d - k
      <4>1. h \in 1..d /\ h - 1 = d - (k + 1) /\ k <= d /\ h - 1 \in 0..d
        BY <1>1, <3>1
      <4>2. tmp[h] = tree[p(h)]
        BY <2>2, <4>1
      <4> HIDE DEF h
      <4>3. IsDigest(tmp[h - 1])
        BY <1>6, <4>1
      <4>4. IsDigest(tree[p(h - 1)])
        BY <1>9, <4>1
      <4> DEFINE left == tree[2 * p(h)]
                 right == tree[2 * p(h) + 1]
      <4>5. IsNode(left) /\ IsNode(right)
        <5>1. p(h) \in 1..(row - 1)
          BY <1>3, <4>1
        <5>2. 2 * p(h) \in 1..(2 * row - 1) /\ 2 * p(h) + 1 \in 1..(2 * row - 1)
          BY <1>1, <5>1
        <5> QED
          BY <1>8, <5>2
      <4>6. tree[p(h)] = Merkle!Hash(left \o right)
        BY <1>2, <1>3, <4>1
      <4>7. branch[h] \in Seq(B)
        BY <4>1, ElementOfSeq
      <4>8. PICK u, x, y : u = branch[h] /\ x = tmp[h - 1] /\ y = tree[p(h - 1)]
        OBVIOUS
      <4>9. u \in Seq(B) /\ IsDigest(x) /\ IsDigest(y)
        BY <4>3, <4>4, <4>7, <4>8
      <4>10. x = y
        <5>1. CASE b(h)
          <6>1. tree[p(h - 1)] = right
            BY <1>3, <4>1, <5>1
          <6>2. Merkle!Hash(branch[h] \o tmp[h - 1]) = Merkle!Hash(left \o right)
            BY <1>5, <4>1, <4>2, <4>6, <5>1
          <6> HIDE DEF left, right
          <6>3. u \o x = left \o y
            BY <4>8, <6>1, <6>2, Digests
          <6> QED
            BY <4>5, <4>9, <6>3, SameEnd
        <5>2. CASE ~b(h)
          <6>1. tree[p(h - 1)] = left
            BY <1>3, <4>1, <5>2
          <6>2. Merkle!Hash(tmp[h - 1] \o branch[h]) = Merkle!Hash(left \o right)
            BY <1>5, <4>1, <4>2, <4>6, <5>2
          <6> HIDE DEF left, right
          <6>3. x \o u = y \o right
            BY <4>8, <6>1, <6>2, Digests
          <6> QED
            BY <4>5, <4>9, <6>3, SameBegin
        <5> QED
          BY <5>1, <5>2
      <4>11. tmp[h - 1] = tree[p(h - 1)]
        BY <4>8, <4>10
      <4> QED
        BY <4>1, <4>11
    <3> QED
      BY <3>1
  <2> HIDE DEF S
  <2> QED
    BY <2>1, <2>2, Induction
<1>11. tmp[0] = tree[p(0)]
  <2>1. d - d = 0 /\ d <= d
    BY <1>1
  <2>2. tmp[d - d] = tree[p(d - d)]
    BY <1>1, <1>10, <2>1
  <2> QED
    BY <2>1, <2>2
<1> QED
  BY <1>5, <1>7, <1>11, Digests

-----------------------------------------------------------------------------
\* The tree of the earlier broadcast

\* What is made of two children: two digests are hashed together, two unused
\* leaves make a digest, and a digest and an unused leaf cannot be added.
LEMMA JoinedPair ==
  /\ \A x, y : IsDigest(x) /\ IsDigest(y) => Merkle!OldJoin(x, y) = Merkle!Hash(x \o y)
  /\ IsDigest(Merkle!OldJoin(Merkle!Unused, Merkle!Unused))
  /\ \A x : IsDigest(x) => x # Merkle!Failed /\ Merkle!OldJoin(x, Merkle!Unused) = Merkle!Failed
  /\ \A x : Merkle!OldJoin(x, Merkle!Failed) = Merkle!Failed /\ Merkle!OldJoin(Merkle!Failed, x) = Merkle!Failed
<1>1. Merkle!Unused = Merkle!Zero
  BY DEF Merkle!Unused
<1>2. Merkle!Zero # Merkle!Failed
  <2>1. Merkle!Zero[1] = [number |-> 0] /\ Merkle!Failed[1] = [failed |-> TRUE]
    BY DEF Merkle!Zero, Merkle!Failed
  <2>2. DOMAIN [number |-> 0] = {"number"} /\ DOMAIN [failed |-> TRUE] = {"failed"}
    OBVIOUS
  <2> QED
    BY <2>1, <2>2
<1>3. ASSUME NEW x, IsDigest(x) PROVE x # Merkle!Failed /\ x # Merkle!Zero
  <2>1. PICK z : x = <<[hash |-> z]>>
    BY <1>3, Digests DEF IsDigest
  <2>2. x[1] = [hash |-> z] /\ Merkle!Zero[1] = [number |-> 0] /\ Merkle!Failed[1] = [failed |-> TRUE]
    BY <2>1 DEF Merkle!Zero, Merkle!Failed
  <2>3. DOMAIN [hash |-> z] = {"hash"} /\ DOMAIN [number |-> 0] = {"number"} /\ DOMAIN [failed |-> TRUE] = {"failed"}
    OBVIOUS
  <2> QED
    BY <2>2, <2>3
<1>4. ASSUME NEW x, NEW y, IsDigest(x), IsDigest(y) PROVE Merkle!OldJoin(x, y) = Merkle!Hash(x \o y)
  <2>1. x # Merkle!Failed /\ x # Merkle!Zero /\ y # Merkle!Failed /\ y # Merkle!Zero
    BY <1>3, <1>4
  <2>2. ~(Merkle!Failed \in {x, y}) /\ {x, y} \cap {Merkle!Failed, Merkle!Zero} = {}
    BY <2>1
  <2> QED
    BY <2>1, <2>2 DEF Merkle!OldJoin
<1>5. IsDigest(Merkle!OldJoin(Merkle!Zero, Merkle!Zero))
  <2>1. ~(Merkle!Failed \in {Merkle!Zero, Merkle!Zero}) /\ {Merkle!Zero, Merkle!Zero} \cap {Merkle!Failed, Merkle!Zero} # {}
    BY <1>2
  <2>2. Merkle!OldJoin(Merkle!Zero, Merkle!Zero) = Merkle!Hash(<<[leaf |-> "0"]>>)
    BY <2>1 DEF Merkle!OldJoin
  <2> QED
    BY <2>2 DEF IsDigest
<1>6. ASSUME NEW x, IsDigest(x) PROVE Merkle!OldJoin(x, Merkle!Zero) = Merkle!Failed
  <2>1. x # Merkle!Failed /\ x # Merkle!Zero
    BY <1>3, <1>6
  <2>2. ~(Merkle!Failed \in {x, Merkle!Zero}) /\ {x, Merkle!Zero} \cap {Merkle!Failed, Merkle!Zero} # {}
    BY <1>2, <2>1
  <2> QED
    BY <2>1, <2>2 DEF Merkle!OldJoin
<1>7. ASSUME NEW x PROVE Merkle!OldJoin(x, Merkle!Failed) = Merkle!Failed /\ Merkle!OldJoin(Merkle!Failed, x) = Merkle!Failed
  <2>1. /\ Merkle!Failed \in {x, Merkle!Failed} /\ Merkle!Failed \in {Merkle!Failed, x}
        /\ {x, Merkle!Failed} \cap {Merkle!Failed, Merkle!Zero} # {}
        /\ {Merkle!Failed, x} \cap {Merkle!Failed, Merkle!Zero} # {}
    OBVIOUS
  <2> QED
    BY <1>2, <2>1 DEF Merkle!OldJoin
<1> QED
  BY <1>1, <1>3, <1>4, <1>5, <1>6, <1>7

\* A row of more than one leaf is twice the row above it.
LEMMA RowIsEven ==
  ASSUME NEW n \in Nat \ {0}, n # 1
  PROVE  LET d == Merkle!Depth(n) IN
         /\ d \in Nat \ {0}
         /\ \E half \in Nat \ {0} : Merkle!Power[d] = 2 * half
<1> DEFINE d == Merkle!Depth(n)
<1>1. d \in Nat \ {0}
  BY DepthIs
<1> HIDE DEF d
<1>2. d - 1 \in Nat /\ (d - 1) + 1 = d
  BY <1>1
<1>3. Merkle!Power[d] = 2 * Merkle!Power[d - 1] /\ Merkle!Power[d - 1] \in Nat \ {0}
  BY <1>2, PowerIs, PowersGrow
<1> QED
  BY <1>1, <1>3 DEF d

\* For an even number of leaves it is a tree, and all branches of it verify,
\* and so it is for one leaf.
THEOREM OldTreeEven ==
  ASSUME NEW leaves, Len(leaves) \in Nat \ {0}, Len(leaves) = 1 \/ Len(leaves) % 2 = 0,
         NEW index \in 0..(Len(leaves) - 1)
  PROVE  LET mt == Merkle!OldTree(leaves) IN
         /\ mt[1] # Merkle!Failed
         /\ Merkle!AnyLength(Len(leaves), leaves[index + 1], mt[1], Merkle!Branch(index, mt), index)
<1> DEFINE n == Len(leaves)
           d == Merkle!Depth(n)
           row == Merkle!Power[d]
           mt == Merkle!OldTree(leaves)
           leaf == leaves[index + 1]
           p(h) == Merkle!Path(d, index, h)
<1>1. /\ d \in Nat /\ row \in Nat \ {0} /\ n <= row
      /\ index \in Nat /\ index < row
      /\ p(0) \in row..(2 * row - 1) /\ p(0) < row + n
      /\ p(0) - row + 1 = index + 1
  BY LeafOnPath
<1>2. /\ mt = [i \in 1..(2 * row - 1) |-> mt[i]]
      /\ \A i \in 1..(row - 1) : mt[i] = Merkle!OldJoin(mt[2 * i], mt[2 * i + 1])
      /\ \A i \in row..(2 * row - 1) :
           mt[i] = IF i < row + n THEN Merkle!Hash(leaves[i - row + 1]) ELSE Merkle!Unused
  BY OldTreeIs, Zenon
<1>3. Merkle!Depth(row) = d
  BY DepthIs
<1>4. d # 0 => n # 1 /\ n % 2 = 0 /\ \E half \in Nat \ {0} : row = 2 * half
  <2>1. d = 0 <=> n = 1
    BY DepthIs
  <2>2. n # 1 => \E half \in Nat \ {0} : row = 2 * half
    BY RowIsEven
  <2> QED
    BY <2>1, <2>2
<1> HIDE DEF mt, d
<1>5. /\ \A h \in 0..d : p(h) \in 1..(2 * row - 1)
      /\ \A h \in 1..d : p(h) \in 1..(row - 1)
      /\ \A h \in 1..d : p(h - 1) = 2 * p(h) + 1 \/ p(h - 1) = 2 * p(h)
  <2> DEFINE b(h) == (index \div Merkle!Power[h - 1]) % 2 = 1
  <2>1. /\ \A h \in 0..d : p(h) \in 1..(2 * row - 1)
        /\ \A h \in 1..d : p(h) \in 1..(row - 1)
        /\ \A h \in 1..d : IF b(h) THEN p(h - 1) = 2 * p(h) + 1 /\ Merkle!Sibling(p(h - 1)) = 2 * p(h)
                           ELSE p(h - 1) = 2 * p(h) /\ Merkle!Sibling(p(h - 1)) = 2 * p(h) + 1
    BY <1>1, PathInTree
  <2> HIDE DEF p, b, row
  <2> QED
    BY <2>1
<1>6. p(d) = 1
  BY <1>1, OnPath
<1>7. 1 <= row - 1 => d # 0
  <2>1. d = 0 => row = 1
    BY PowerIs
  <2> HIDE DEF row
  <2> QED
    BY <2>1
<1> HIDE DEF p, row, n
<1>8. n \in Nat \ {0}
  BY DEF n
<1>9. mt[p(0)] = Merkle!Hash(leaf)
  BY <1>1, <1>2
\* Nodes above leaves have two used leaves or two unused ones under them.
<1>10. ASSUME NEW i \in 1..(row - 1)
       PROVE  /\ 2 * i \in 1..(2 * row - 1) /\ 2 * i + 1 \in 1..(2 * row - 1)
              /\ 2 * i < row <=> 2 * i + 1 < row
              /\ 2 * i < row + n <=> 2 * i + 1 < row + n
  <2>1. PICK half \in Nat \ {0} : row = 2 * half
    BY <1>1, <1>4, <1>7
  <2>2. n % 2 = 0
    BY <1>1, <1>4, <1>7
  <2>3. PICK m \in Nat : n = 2 * m
    <3>1. n = 2 * (n \div 2) + (n % 2) /\ n \div 2 \in Nat
      BY <1>8
    <3> QED
      BY <2>2, <3>1
  <2> QED
    BY <2>1, <2>3
<1> DEFINE S == {k \in Nat : \A i \in 1..(row - 1) : i >= row - k => IsDigest(mt[i])}
<1>11. \A k \in Nat : k \in S
  <2>1. 0 \in S
    BY <1>1
  <2>2. ASSUME NEW k \in Nat, k \in S PROVE k + 1 \in S
    <3>1. ASSUME NEW i \in 1..(row - 1), i >= row - (k + 1) PROVE IsDigest(mt[i])
      <4>1. mt[i] = Merkle!OldJoin(mt[2 * i], mt[2 * i + 1])
        BY <1>2
      <4>2. CASE 2 * i < row
        <5>1. 2 * i \in 1..(row - 1) /\ 2 * i + 1 \in 1..(row - 1) /\ 2 * i >= row - k /\ 2 * i + 1 >= row - k
          BY <1>1, <1>10, <3>1, <4>2
        <5>2. IsDigest(mt[2 * i]) /\ IsDigest(mt[2 * i + 1])
          BY <2>2, <5>1
        <5>3. mt[i] = Merkle!Hash(mt[2 * i] \o mt[2 * i + 1])
          BY <4>1, <5>2, JoinedPair
        <5> QED
          BY <5>3 DEF IsDigest
      <4>3. CASE ~(2 * i < row)
        <5>1. 2 * i \in row..(2 * row - 1) /\ 2 * i + 1 \in row..(2 * row - 1)
          BY <1>1, <1>10, <4>3
        <5>2. CASE 2 * i < row + n
          <6>1. IsDigest(mt[2 * i]) /\ IsDigest(mt[2 * i + 1])
            BY <1>2, <1>10, <5>1, <5>2 DEF IsDigest
          <6>2. mt[i] = Merkle!Hash(mt[2 * i] \o mt[2 * i + 1])
            BY <4>1, <6>1, JoinedPair
          <6> QED
            BY <6>2 DEF IsDigest
        <5>3. CASE ~(2 * i < row + n)
          <6>1. mt[2 * i] = Merkle!Unused /\ mt[2 * i + 1] = Merkle!Unused
            BY <1>2, <1>10, <5>1, <5>3
          <6> QED
            BY <4>1, <6>1, JoinedPair
        <5> QED
          BY <5>2, <5>3
      <4> QED
        BY <4>2, <4>3
    <3> QED
      BY <3>1
  <2> HIDE DEF S
  <2> QED
    BY <2>1, <2>2, Induction
<1>12. \A i \in 1..(row - 1) : IsDigest(mt[i])
  <2>1. row \in S
    BY <1>1, <1>11
  <2>2. \A i \in 1..(row - 1) : i >= row - row
    BY <1>1
  <2> QED
    BY <2>1, <2>2
<1>13. mt[1] # Merkle!Failed
  <2>1. IsDigest(mt[1])
    <3>1. CASE row = 1
      <4>1. p(0) = 1
        BY <1>1, <3>1
      <4> QED
        BY <1>9, <4>1 DEF IsDigest
    <3>2. CASE row # 1
      <4>1. 1 \in 1..(row - 1)
        BY <1>1, <3>2
      <4> QED
        BY <1>12, <4>1
    <3> QED
      BY <3>1, <3>2
  <2> QED
    BY <2>1, JoinedPair
<1>14. ASSUME NEW h \in 1..d PROVE mt[p(h)] = Merkle!Hash(mt[2 * p(h)] \o mt[2 * p(h) + 1])
  <2> DEFINE i == p(h)
  <2>1. i \in 1..(row - 1)
    BY <1>5
  <2>2. mt[i] = Merkle!OldJoin(mt[2 * i], mt[2 * i + 1])
    BY <1>2, <2>1
  <2>3. IsDigest(mt[2 * i]) /\ IsDigest(mt[2 * i + 1])
    <3>1. CASE 2 * i < row
      <4>1. 2 * i \in 1..(row - 1) /\ 2 * i + 1 \in 1..(row - 1)
        BY <1>1, <1>10, <2>1, <3>1
      <4> QED
        BY <1>12, <4>1
    <3>2. CASE ~(2 * i < row)
      <4>1. p(h - 1) = 2 * i + 1 \/ p(h - 1) = 2 * i
        BY <1>5
      <4>2. h = 1
        <5>1. ASSUME h # 1 PROVE FALSE
          <6>1. h - 1 \in 1..d
            BY <1>1, <5>1
          <6>2. p(h - 1) \in 1..(row - 1)
            BY <1>5, <6>1
          <6> QED
            BY <1>1, <2>1, <3>2, <4>1, <6>2
        <5> QED
          BY <5>1
      <4>3. p(h - 1) < row + n
        BY <1>1, <4>2
      <4>4. 2 * i < row + n /\ 2 * i + 1 < row + n
        <5> HIDE DEF i
        <5> QED
          BY <1>1, <1>8, <1>10, <2>1, <4>1, <4>3
      <4>5. 2 * i \in row..(2 * row - 1) /\ 2 * i + 1 \in row..(2 * row - 1)
        BY <1>1, <1>10, <2>1, <3>2
      <4> QED
        BY <1>2, <4>4, <4>5 DEF IsDigest
    <3> QED
      BY <3>1, <3>2
  <2> QED
    BY <2>2, <2>3, JoinedPair
<1>15. Len(mt) = 2 * row - 1
  <2>1. 2 * row - 1 \in Nat
    BY <1>1
  <2> QED
    BY <1>2, <2>1
<1>16. Merkle!Climb(leaf, Merkle!Branch(index, mt), index) = mt[1]
  <2> USE DEF p, row
  <2>1. mt[Merkle!Path(d, index, 0)] = Merkle!Hash(leaf)
    BY <1>9
  <2>2. \A h \in 1..d : mt[Merkle!Path(d, index, h)] =
             Merkle!Hash(mt[2 * Merkle!Path(d, index, h)] \o mt[2 * Merkle!Path(d, index, h) + 1])
    BY <1>14
  <2> HIDE DEF leaf, p
  <2> QED
    BY <1>1, <1>3, <1>15, <2>1, <2>2, Climbs
<1> QED
  BY <1>13, <1>16, Zenon DEF Merkle!AnyLength, mt, n

\* For an odd number of leaves but one it is not: the last leaf has an unused
\* one at its side, and nothing comes of their parent, nor of any node from
\* there to the root.
THEOREM OldTreeOdd ==
  ASSUME NEW leaves, Len(leaves) \in Nat \ {0}, Len(leaves) # 1, Len(leaves) % 2 = 1
  PROVE  Merkle!OldTree(leaves)[1] = Merkle!Failed
<1> DEFINE n == Len(leaves)
           d == Merkle!Depth(n)
           row == Merkle!Power[d]
           mt == Merkle!OldTree(leaves)
           last == n - 1
           p(h) == Merkle!Path(d, last, h)
<1>0. n \in Nat \ {0} /\ last \in 0..(n - 1) /\ n % 2 = 1
  OBVIOUS
<1>1. /\ d \in Nat /\ row \in Nat \ {0} /\ n <= row
      /\ last \in Nat /\ last < row
      /\ p(0) = row + last /\ p(0) \in row..(2 * row - 1)
  <2> HIDE DEF n, last
  <2> QED
    BY <1>0, LeafOnPath
<1>2. /\ \A i \in 1..(row - 1) : mt[i] = Merkle!OldJoin(mt[2 * i], mt[2 * i + 1])
      /\ \A i \in row..(2 * row - 1) :
           mt[i] = IF i < row + n THEN Merkle!Hash(leaves[i - row + 1]) ELSE Merkle!Unused
  BY OldTreeIs, Zenon
<1>3. d \in Nat \ {0} /\ \E half \in Nat \ {0} : row = 2 * half
  BY RowIsEven
<1> HIDE DEF mt, d
<1>5. /\ \A h \in 1..d : p(h) \in 1..(row - 1)
      /\ \A h \in 1..d : p(h - 1) = 2 * p(h) + 1 \/ p(h - 1) = 2 * p(h)
  <2> DEFINE b(h) == (last \div Merkle!Power[h - 1]) % 2 = 1
  <2>1. /\ \A h \in 0..d : p(h) \in 1..(2 * row - 1)
        /\ \A h \in 1..d : p(h) \in 1..(row - 1)
        /\ \A h \in 1..d : IF b(h) THEN p(h - 1) = 2 * p(h) + 1 /\ Merkle!Sibling(p(h - 1)) = 2 * p(h)
                           ELSE p(h - 1) = 2 * p(h) /\ Merkle!Sibling(p(h - 1)) = 2 * p(h) + 1
    BY <1>1, PathInTree
  <2> HIDE DEF p, b, row
  <2> QED
    BY <2>1
<1>6. p(d) = 1
  <2> HIDE DEF last
  <2> QED
    BY <1>1, OnPath
<1> HIDE DEF p, row
<1>7. PICK half \in Nat \ {0} : row = 2 * half
  BY <1>3
<1>8. PICK m \in Nat : n = 2 * m + 1
  <2> HIDE DEF n
  <2>1. n = 2 * (n \div 2) + (n % 2) /\ n \div 2 \in Nat
    BY <1>0
  <2> QED
    BY <1>0, <2>1
<1>9. last = 2 * m
  BY <1>8
<1> HIDE DEF last, n
<1>10. mt[p(1)] = Merkle!Failed
  <2>1. 1 \in 1..d /\ 1 - 1 = 0
    BY <1>3
  <2>2. p(1) \in 1..(row - 1) /\ (p(0) = 2 * p(1) + 1 \/ p(0) = 2 * p(1))
    BY <1>5, <2>1
  <2>3. p(0) = 2 * half + 2 * m
    BY <1>1, <1>7, <1>9
  <2>4. p(0) = 2 * p(1)
    BY <2>2, <2>3
  <2>5. 2 * p(1) < row + n /\ ~(2 * p(1) + 1 < row + n)
    BY <1>1, <1>7, <1>8, <1>9, <2>3, <2>4
  <2>6. 2 * p(1) \in row..(2 * row - 1) /\ 2 * p(1) + 1 \in row..(2 * row - 1)
    BY <1>1, <2>2, <2>4
  <2>7. IsDigest(mt[2 * p(1)]) /\ mt[2 * p(1) + 1] = Merkle!Unused
    BY <1>2, <2>5, <2>6 DEF IsDigest
  <2>8. mt[p(1)] = Merkle!OldJoin(mt[2 * p(1)], mt[2 * p(1) + 1])
    BY <1>2, <2>2
  <2> QED
    BY <2>7, <2>8, JoinedPair
<1> DEFINE S == {k \in Nat : k + 1 <= d => mt[p(k + 1)] = Merkle!Failed}
<1>11. \A k \in Nat : k \in S
  <2>1. 0 \in S
    BY <1>10
  <2>2. ASSUME NEW k \in Nat, k \in S PROVE k + 1 \in S
    <3>1. CASE (k + 1) + 1 <= d
      <4> DEFINE h == (k + 1) + 1
      <4>1. h \in 1..d /\ h - 1 = k + 1 /\ k + 1 <= d
        BY <1>1, <3>1
      <4>2. mt[h - 1] = mt[k + 1] /\ mt[p(h - 1)] = Merkle!Failed
        BY <2>2, <4>1
      <4> HIDE DEF h
      <4>3. mt[p(h)] = Merkle!OldJoin(mt[2 * p(h)], mt[2 * p(h) + 1])
        BY <1>2, <1>5, <4>1
      <4>4. CASE p(h - 1) = 2 * p(h) + 1
        <5>1. mt[2 * p(h) + 1] = Merkle!Failed
          BY <4>2, <4>4
        <5> QED
          BY <4>3, <5>1, JoinedPair DEF h
      <4>5. CASE p(h - 1) = 2 * p(h)
        <5>1. mt[2 * p(h)] = Merkle!Failed
          BY <4>2, <4>5
        <5> QED
          BY <4>3, <5>1, JoinedPair DEF h
      <4> QED
        BY <1>5, <4>1, <4>4, <4>5
    <3> QED
      BY <3>1
  <2> HIDE DEF S
  <2> QED
    BY <2>1, <2>2, Induction
<1>12. mt[p(d)] = Merkle!Failed
  <2>1. d - 1 \in Nat /\ (d - 1) + 1 = d /\ d <= d
    BY <1>3
  <2>2. d - 1 \in S
    BY <1>11, <2>1
  <2> QED
    BY <2>1, <2>2
<1> QED
  BY <1>6, <1>12 DEF mt

-----------------------------------------------------------------------------
\* All trees a behaviour asks about

\* The leaves are strings, one of them that of the index.
BranchInput == input.of = "branch" => /\ Len(input.leaves) \in Nat \ {0}
                                      /\ input.index \in 0..(Len(input.leaves) - 1)

\* BranchInput holds at first, and every step keeps it.
LEMMA BranchInputInit == Init => BranchInput
  BY DEF Init, Nothing, BranchInput

LEMMA BranchInputNext == BranchInput /\ [Next]_vars => BranchInput'
<1> SUFFICES ASSUME BranchInput, [Next]_vars PROVE BranchInput'
  OBVIOUS
<1>1. CASE Listen
  BY <1>1 DEF Listen, BranchInput
<1>2. CASE Pad
  BY <1>2 DEF Pad, BranchInput
<1>3. CASE Prove
  <2>1. PICK n \in LeafCounts : \E index \in 0..(n - 1) :
          input' = [of |-> "branch", leaves |-> [i \in 1..n |-> Leaf(i)], index |-> index]
    BY <1>3 DEF Prove
  <2>2. PICK index \in 0..(n - 1) :
          input' = [of |-> "branch", leaves |-> [i \in 1..n |-> Leaf(i)], index |-> index]
    BY <2>1
  <2>3. n \in Nat \ {0}
    BY LeavesAssumption
  <2>4. Len([i \in 1..n |-> Leaf(i)]) = n
    BY <2>3
  <2>5. input'.leaves = [i \in 1..n |-> Leaf(i)] /\ input'.index = index
    BY <2>2
  <2> QED
    BY <2>3, <2>4, <2>5 DEF BranchInput
<1>4. CASE Deal
  BY <1>4 DEF Deal, BranchInput
<1>5. CASE Test
  BY <1>5 DEF Test, BranchInput
<1>6. CASE Rsa
  BY <1>6 DEF Rsa, BranchInput
<1>7. CASE Send
  BY <1>7 DEF Send, BranchInput
<1>8. CASE Propose
  BY <1>8 DEF Propose, BranchInput
<1>9. CASE UNCHANGED vars
  BY <1>9 DEF vars, BranchInput
<1> QED
  BY <1>1, <1>2, <1>3, <1>4, <1>5, <1>6, <1>7, <1>8, <1>9 DEF Next

\* The nodes of a tree are strings of the digests in it.
LEMMA NodesAreStrings ==
  ASSUME NEW leaves, Len(leaves) \in Nat \ {0}
  PROVE  \E B : \A i \in DOMAIN Merkle!Tree(leaves) : Merkle!Tree(leaves)[i] \in Seq(B)
<1> DEFINE row == Merkle!Power[Merkle!Depth(Len(leaves))]
           tree == Merkle!Tree(leaves)
           B == {tree[i][1] : i \in DOMAIN tree}
<1>1. /\ tree = [i \in 1..(2 * row - 1) |-> tree[i]]
      /\ \A i \in 1..(row - 1) : tree[i] = Merkle!Hash(tree[2 * i] \o tree[2 * i + 1])
      /\ \A i \in row..(2 * row - 1) :
           tree[i] = IF i < row + Len(leaves) THEN Merkle!Hash(leaves[i - row + 1]) ELSE <<>>
  BY TreeIs, Zenon
<1>2. row \in Nat \ {0}
  <2>1. Merkle!Depth(Len(leaves)) \in Nat
    BY DepthIs
  <2> QED
    BY <2>1, PowersGrow, Zenon
<1> HIDE DEF tree, row
<1>3. DOMAIN tree = 1..(2 * row - 1)
  BY <1>1
<1>4. ASSUME NEW i \in DOMAIN tree PROVE tree[i] \in Seq(B)
  <2>1. tree[i] = <<>> \/ \E x : tree[i] = Merkle!Hash(x)
    <3>1. CASE i \in 1..(row - 1)
      BY <1>1, <3>1
    <3>2. CASE i \in row..(2 * row - 1)
      BY <1>1, <3>2
    <3> QED
      BY <1>2, <1>3, <3>1, <3>2
  <2>2. tree[i][1] \in B
    OBVIOUS
  <2>3. CASE tree[i] = <<>>
    BY <2>3
  <2>4. CASE tree[i] # <<>>
    <3>1. PICK a : tree[i] = <<a>>
      BY <2>1, <2>4, Digests
    <3>2. a \in B
      BY <2>2, <3>1
    <3> HIDE DEF B
    <3> QED
      BY <3>1, <3>2
  <2> QED
    BY <2>3, <2>4
<1> QED
  BY <1>4 DEF tree

\* TreesAuthenticate: a branch verifies the leaf it was made for, and nothing
\* else; the trees of the earlier broadcast exist for even numbers of leaves
\* and for one; for whatever numbers of leaves LeafCounts allows.
THEOREM TreesHold == Spec => []TreesAuthenticate
<1> DEFINE leaves == input.leaves
           index == input.index
           n == Len(leaves)
<1>0. BranchInput /\ input.of = "branch" => n \in Nat \ {0} /\ index \in 0..(n - 1)
  BY Zenon DEF BranchInput
<1>1. BranchInput => BranchVerifies
  <2> SUFFICES ASSUME BranchInput, input.of = "branch" PROVE BranchVerifies
    BY Zenon DEF BranchVerifies
  <2> HIDE DEF leaves, index
  <2>1. n \in Nat \ {0} /\ index \in 0..(n - 1)
    BY <1>0, Zenon
  <2>2. Merkle!Verify(n, leaves[index + 1], Merkle!Tree(leaves)[1],
                      Merkle!Branch(index, Merkle!Tree(leaves)), index)
    BY <2>1, MerkleComplete
  <2> QED
    BY <2>2, Zenon DEF BranchVerifies, leaves, index
<1>2. BranchInput => ValueBound
  <2> DEFINE tree == Merkle!Tree(leaves)
             nodes == {tree[i] : i \in DOMAIN tree} \cup {<<>>}
             branches == UNION {[1..h -> nodes] : h \in 0..2}
  <2> SUFFICES ASSUME BranchInput, input.of = "branch"
               PROVE  \A val : \A branch \in branches :
                        Merkle!Verify(n, val, tree[1], branch, index) => val = leaves[index + 1]
    BY DEF ValueBound
  <2> HIDE DEF leaves, index
  <2> SUFFICES ASSUME NEW val, NEW branch \in branches, Merkle!Verify(n, val, tree[1], branch, index)
               PROVE  val = leaves[index + 1]
    BY Zenon
  <2>1. n \in Nat \ {0} /\ index \in 0..(n - 1)
    BY <1>0, Zenon
  <2>2. PICK B : \A i \in DOMAIN tree : tree[i] \in Seq(B)
    BY <2>1, NodesAreStrings
  <2> HIDE DEF tree
  <2>3. nodes \subseteq Seq(B)
    <3>1. <<>> \in Seq(B)
      OBVIOUS
    <3> QED
      BY <2>2, <3>1, Zenon
  <2> HIDE DEF nodes
  <2>4. PICK h \in 0..2 : branch \in [1..h -> nodes]
    OBVIOUS
  <2>5. branch \in Seq(Seq(B))
    BY <2>3, <2>4
  <2> USE DEF tree
  <2> HIDE DEF n
  <2> QED
    BY <2>1, <2>5, MerkleSound DEF n
<1>3. BranchInput => OldTreeExists
  <2> DEFINE mt == Merkle!OldTree(leaves)
  <2> SUFFICES ASSUME BranchInput, input.of = "branch" PROVE OldTreeExists
    BY Zenon DEF OldTreeExists
  <2> HIDE DEF leaves, index
  <2>1. n \in Nat \ {0} /\ index \in 0..(n - 1)
    BY <1>0, Zenon
  <2>2. CASE n = 1 \/ n % 2 = 0
    <3>1. /\ mt[1] # Merkle!Failed
          /\ Merkle!AnyLength(n, leaves[index + 1], mt[1], Merkle!Branch(index, mt), index)
      BY <2>1, <2>2, OldTreeEven
    <3> QED
      BY <2>2, <3>1, Zenon DEF OldTreeExists, leaves, index
  <2>3. CASE ~(n = 1 \/ n % 2 = 0)
    <3>1. n # 1 /\ n % 2 = 1
      <4> HIDE DEF n
      <4> QED
        BY <2>1, <2>3
    <3>2. mt[1] = Merkle!Failed
      BY <2>1, <3>1, OldTreeOdd
    <3> QED
      BY <2>3, <3>2, Zenon DEF OldTreeExists, leaves, index
  <2> QED
    BY <2>2, <2>3
<1>4. BranchInput => TreesAuthenticate
  BY <1>1, <1>2, <1>3 DEF TreesAuthenticate
<1> QED
  BY <1>4, BranchInputInit, BranchInputNext, PTL DEF Spec

-----------------------------------------------------------------------------
\* Numbers modulo the order of the groups

Same(a, b) == a % Q = b % Q

LEMMA Field ==
  /\ Q \in Nat /\ Q >= 2 /\ Keys!Field = 0..(Q - 1) /\ Keys!Field \subseteq Int
  /\ 0 \in Keys!Field /\ 1 \in Keys!Field
<1>1. Q \in Nat /\ Q >= 2
  BY FieldAssumption DEF IsPrime
<1> QED
  BY <1>1 DEF Keys!Field

\* A remainder is in the field, and a number of the field its own remainder.
LEMMA Residue ==
  ASSUME NEW a \in Int
  PROVE  /\ a % Q \in Keys!Field /\ a % Q \in Int
         /\ Same(a % Q, a) /\ Same(a, a % Q)
         /\ a \in Keys!Field => a % Q = a
<1>1. Q \in Nat /\ Q >= 2
  BY FieldAssumption DEF IsPrime
<1>2. a % Q \in 0..(Q - 1)
  BY <1>1
<1>3. \A c \in 0..(Q - 1) : c % Q = c
  BY <1>1
<1>4. a % Q \in Int
  BY <1>1, <1>2
<1> QED
  BY <1>2, <1>3, <1>4, Zenon DEF Keys!Field, Same

LEMMA SameIs ==
  /\ \A a : Same(a, a)
  /\ \A a, b : Same(a, b) => Same(b, a)
  /\ \A a, b, c : Same(a, b) /\ Same(b, c) => Same(a, c)
  BY Zenon DEF Same

LEMMA SameInField ==
  ASSUME NEW a \in Keys!Field, NEW b \in Keys!Field, Same(a, b)
  PROVE  a = b
<1>1. a % Q = a /\ b % Q = b
  BY Field, Residue
<1> QED
  BY <1>1, Zenon DEF Same

\* Numbers with the same remainder have a multiple of Q between them.
LEMMA SameBy ==
  ASSUME NEW a \in Int, NEW b \in Int
  PROVE  Same(a, b) <=> \E m \in Int : a = b + Q * m
<1>1. Q \in Nat /\ Q >= 2
  BY FieldAssumption DEF IsPrime
<1>2. \A c \in Int : c % Q \in 0..(Q - 1) /\ c \div Q \in Int /\ c = Q * (c \div Q) + (c % Q)
  BY <1>1
<1>3. ASSUME Same(a, b) PROVE \E m \in Int : a = b + Q * m
  <2> DEFINE u == a \div Q
             v == b \div Q
             w == a % Q
  <2>1. u \in Int /\ v \in Int /\ w \in Int /\ a = Q * u + w /\ b = Q * v + w
    BY <1>1, <1>2, <1>3 DEF Same
  <2> HIDE DEF u, v, w
  <2>2. u - v \in Int /\ a = b + Q * (u - v)
    BY <1>1, <2>1
  <2> QED
    BY <2>2
<1>4. ASSUME NEW m \in Int, a = b + Q * m PROVE Same(a, b)
  <2>1. \A u \in Int, w \in 0..(Q - 1) : (Q * u + w) % Q = w
    BY <1>1
  <2> DEFINE u == b \div Q
             w == b % Q
  <2>2. u \in Int /\ w \in 0..(Q - 1) /\ b = Q * u + w
    BY <1>2
  <2> HIDE DEF u, w
  <2>3. a = Q * (u + m) + w /\ u + m \in Int
    BY <1>1, <1>4, <2>2
  <2>4. a % Q = w
    BY <2>1, <2>2, <2>3
  <2> QED
    BY <2>4 DEF w, Same
<1> QED
  BY <1>3, <1>4

\* Remainders can be taken before a sum, a difference or a product is made.
LEMMA SameSums ==
  ASSUME NEW a \in Int, NEW b \in Int, NEW c \in Int, NEW d \in Int, Same(a, b), Same(c, d)
  PROVE  Same(a + c, b + d) /\ Same(a - c, b - d) /\ Same(a * c, b * d)
<1>1. Q \in Nat
  BY FieldAssumption
<1>2. PICK m \in Int : a = b + Q * m
  BY SameBy
<1>3. PICK n \in Int : c = d + Q * n
  BY SameBy
<1>4. a + c = (b + d) + Q * (m + n) /\ a - c = (b - d) + Q * (m - n)
  BY <1>1, <1>2, <1>3
<1>5. a * c = b * d + Q * (b * n + m * d + Q * m * n)
  BY <1>1, <1>2, <1>3
<1>6. /\ a + c \in Int /\ b + d \in Int /\ a - c \in Int /\ b - d \in Int /\ a * c \in Int /\ b * d \in Int
      /\ m + n \in Int /\ m - n \in Int /\ b * n + m * d + Q * m * n \in Int
  BY <1>1
<1>7. \A x, y, z \in Int : x = y + Q * z => Same(x, y)
  BY SameBy
<1> QED
  BY <1>4, <1>5, <1>6, <1>7

LEMMA SameProduct ==
  ASSUME NEW a \in Int, NEW b \in Int, Same(a, b)
  PROVE  \A c \in Int : /\ Same(c * a, c * b) /\ Same(a * c, b * c)
                        /\ Same(c + a, c + b) /\ Same(a + c, b + c)
                        /\ Same(c - a, c - b) /\ Same(a - c, b - c)
<1> SUFFICES ASSUME NEW c \in Int
             PROVE  /\ Same(c * a, c * b) /\ Same(a * c, b * c)
                    /\ Same(c + a, c + b) /\ Same(a + c, b + c)
                    /\ Same(c - a, c - b) /\ Same(a - c, b - c)
  OBVIOUS
<1>1. Same(c, c)
  BY SameIs, Zenon
<1>2. Same(c * a, c * b) /\ Same(c + a, c + b) /\ Same(c - a, c - b)
  BY <1>1, SameSums, Zenon
<1>3. Same(a * c, b * c) /\ Same(a + c, b + c) /\ Same(a - c, b - c)
  BY <1>1, SameSums, Zenon
<1> QED
  BY <1>2, <1>3

\* What is not 0 modulo a prime has a reciprocal, which Reciprocal is.
LEMMA ReciprocalIs ==
  ASSUME NEW a \in Int, ~Same(a, 0)
  PROVE  Keys!Reciprocal(a) \in Keys!Field /\ Same(a * Keys!Reciprocal(a), 1)
<1>1. Q \in Nat /\ Q >= 2 /\ \A d \in 2..(Q - 1) : Q % d # 0
  BY FieldAssumption DEF IsPrime
<1> DEFINE x == a % Q
           S == {m \in Nat \ {0} : \E u, v \in Int : m = u * x + v * Q}
<1>2. x \in Nat \ {0} /\ x < Q /\ Same(x, a)
  <2>1. x \in 0..(Q - 1) /\ Same(x, a)
    BY Field, Residue
  <2>2. 0 % Q = 0
    BY <1>1
  <2>3. x # 0
    BY <2>2, Zenon DEF Same
  <2> QED
    BY <1>1, <2>1, <2>3
<1> HIDE DEF x
<1>3. x \in S
  <2>1. x = 1 * x + 0 * Q /\ 1 \in Int /\ 0 \in Int
    BY <1>1, <1>2
  <2> QED
    BY <1>2, <2>1
<1>4. PICK m \in S : \A k \in S : m <= k
  BY <1>3, Least
<1>5. PICK u \in Int, v \in Int : m = u * x + v * Q
  BY <1>4
<1>6. m \in Nat \ {0} /\ m <= x
  BY <1>3, <1>4
<1>7. Q % m = 0
  <2> DEFINE q == Q \div m
             r == Q % m
  <2>1. q \in Int /\ r \in 0..(m - 1) /\ Q = m * q + r
    <3>1. m \in Nat \ {0} /\ Q \in Nat
      BY <1>1, <1>6
    <3> QED
      BY <3>1, Division
  <2> HIDE DEF q, r
  <2>2. r = ((-q) * u) * x + (1 - q * v) * Q
    BY <1>1, <1>2, <1>5, <2>1
  <2>3. (-q) * u \in Int /\ 1 - q * v \in Int
    BY <2>1
  <2>4. ~(r \in S)
    <3>1. ~(m <= r)
      BY <1>6, <2>1
    <3> HIDE DEF S
    <3> QED
      BY <1>4, <3>1
  <2>5. r = 0
    BY <1>6, <2>1, <2>2, <2>3, <2>4
  <2> QED
    BY <2>5 DEF r
<1>8. m = 1
  BY <1>1, <1>2, <1>6, <1>7
<1>9. Same(x * u, 1)
  <2>1. x * u = 1 + Q * (-v) /\ -v \in Int /\ x * u \in Int /\ 1 \in Int
    BY <1>1, <1>2, <1>5, <1>8
  <2> QED
    BY <2>1, SameBy
<1>10. u % Q \in Keys!Field /\ Same(a * (u % Q), 1)
  <2>1. u % Q \in Keys!Field /\ u % Q \in Int /\ Same(u % Q, u)
    BY Residue
  <2> DEFINE w == u % Q
  <2> HIDE DEF w
  <2>2. w \in Int /\ Same(w, u) /\ Same(a, x) /\ x \in Int
    BY <1>2, <2>1, SameIs DEF w
  <2>3. Same(a * w, x * u)
    BY <2>2, SameSums
  <2>4. Same(a * w, 1)
    BY <1>9, <2>3, SameIs
  <2> QED
    BY <2>1, <2>4 DEF w
<1>11. \A y : Same(a * y, 1) <=> (a * y) % Q = 1
  <2>1. 1 % Q = 1
    BY <1>1
  <2> QED
    BY <2>1, Zenon DEF Same
<1> HIDE DEF S
<1> QED
  BY <1>10, <1>11, Zenon DEF Keys!Reciprocal

\* So it can be cancelled, and products of such numbers are not 0 either.
LEMMA Cancelled ==
  ASSUME NEW d \in Int, ~Same(d, 0), NEW a \in Int, NEW b \in Int
  PROVE  /\ Same(d * a, d * b) => Same(a, b)
         /\ ~Same(a, 0) => ~Same(d * a, 0)
<1>1. PICK r \in Int : Same(d * r, 1)
  BY ReciprocalIs, Field
<1>2. ASSUME NEW x \in Int PROVE Same(r * (d * x), x)
  <2>1. (d * r) * x = r * (d * x) /\ d * r \in Int /\ 1 * x = x /\ 1 \in Int
    OBVIOUS
  <2>2. Same((d * r) * x, 1 * x)
    BY <1>1, <2>1, SameProduct
  <2> QED
    BY <2>1, <2>2
<1>3. ASSUME Same(d * a, d * b) PROVE Same(a, b)
  <2>1. d * a \in Int /\ d * b \in Int
    OBVIOUS
  <2>2. Same(r * (d * a), r * (d * b))
    BY <1>3, <2>1, SameProduct
  <2> QED
    BY <1>2, <2>2, SameIs
<1>4. ASSUME Same(d * a, 0) PROVE Same(a, 0)
  <2>1. d * a \in Int /\ r * 0 = 0 /\ 0 \in Int
    OBVIOUS
  <2>2. Same(r * (d * a), r * 0)
    BY <1>4, <2>1, SameProduct
  <2> QED
    BY <1>2, <2>1, <2>2, SameIs
<1> QED
  BY <1>3, <1>4

-----------------------------------------------------------------------------
\* Sums and products over sets, in whatever order they are folded

LEMMA Removed ==
  ASSUME NEW T, IsFiniteSet(T)
  PROVE  \A x \in T : /\ IsFiniteSet(T \ {x}) /\ Cardinality(T \ {x}) \in Nat
                     /\ Cardinality(T) = Cardinality(T \ {x}) + 1
<1>1. ASSUME NEW x \in T PROVE /\ IsFiniteSet(T \ {x}) /\ Cardinality(T \ {x}) \in Nat
                              /\ Cardinality(T) = Cardinality(T \ {x}) + 1
  <2>1. IsFiniteSet(T \ {x}) /\ Cardinality(T \ {x}) = Cardinality(T) - 1
    BY FS_RemoveElement
  <2>2. Cardinality(T) \in Nat /\ Cardinality(T \ {x}) \in Nat
    BY <2>1, FS_CardinalityType
  <2> QED
    BY <2>1, <2>2
<1> QED
  BY <1>1

\* Induction over the subsets of a finite set.
LEMMA SubsetInduction ==
  ASSUME NEW S, IsFiniteSet(S), NEW G, {} \in G,
         \A T \in SUBSET S : T # {} /\ (\A x \in T : T \ {x} \in G) => T \in G
  PROVE  \A T \in SUBSET S : T \in G
<1> DEFINE A == {n \in Nat : \A T \in SUBSET S : Cardinality(T) = n => T \in G}
<1>1. \A T \in SUBSET S : IsFiniteSet(T) /\ Cardinality(T) \in Nat
  BY FS_Subset, FS_CardinalityType
<1>2. 0 \in A
  <2>1. ASSUME NEW T \in SUBSET S, Cardinality(T) = 0 PROVE T \in G
    <3>1. T = {}
      BY <1>1, <2>1, FS_EmptySet
    <3> QED
      BY <3>1
  <2> QED
    BY <2>1
<1>3. ASSUME NEW n \in Nat, n \in A PROVE n + 1 \in A
  <2>1. ASSUME NEW T \in SUBSET S, Cardinality(T) = n + 1 PROVE T \in G
    <3>1. T # {}
      BY <1>1, <2>1, FS_EmptySet
    <3>2. \A x \in T : Cardinality(T \ {x}) = n /\ T \ {x} \in SUBSET S
      BY <1>1, <2>1, Removed
    <3> QED
      BY <1>3, <3>1, <3>2
  <2> QED
    BY <2>1
<1> HIDE DEF A
<1>4. \A n \in Nat : n \in A
  BY <1>2, <1>3, Induction
<1> QED
  BY <1>1, <1>4 DEF A

\* I folds f over the subsets of S with the operation o from base on, taking
\* out the element that CHOOSE picks.
Picked(s) == CHOOSE x \in s : TRUE
Folds(I, o, base, f, S) ==
  \A s \in SUBSET S : I[s] = IF s = {} THEN base ELSE o[<<f[Picked(s)], I[s \ {Picked(s)}]>>]

\* Two that fold the same values agree.
LEMMA FoldsAgree ==
  ASSUME NEW S, IsFiniteSet(S), NEW I, NEW J, NEW o, NEW base, NEW f, NEW g,
         Folds(I, o, base, f, S), Folds(J, o, base, g, S), \A x \in S : f[x] = g[x]
  PROVE  I[S] = J[S]
<1> DEFINE G == {T \in SUBSET S : I[T] = J[T]}
<1>1. {} \in G
  BY DEF Folds
<1>2. ASSUME NEW T \in SUBSET S, T # {}, \A x \in T : T \ {x} \in G PROVE T \in G
  <2> DEFINE s == Picked(T)
  <2>1. s \in T
    BY <1>2 DEF Picked
  <2>2. I[T] = o[<<f[s], I[T \ {s}]>>] /\ J[T] = o[<<g[s], J[T \ {s}]>>]
    BY <1>2 DEF Folds
  <2> HIDE DEF s
  <2>3. I[T \ {s}] = J[T \ {s}] /\ f[s] = g[s]
    BY <1>2, <2>1
  <2> QED
    BY <2>2, <2>3
<1> HIDE DEF G
<1>3. \A T \in SUBSET S : T \in G
  BY <1>1, <1>2, SubsetInduction
<1>4. S \in SUBSET S
  OBVIOUS
<1> QED
  BY <1>3, <1>4 DEF G

\* Two operands change places with each other, and an element goes first.
TakesTurns(o) ==
  /\ \A a, b \in Int : o[<<a, b>>] \in Int
  /\ \A a, b, c \in Int : o[<<a, o[<<b, c>>]>>] = o[<<b, o[<<a, c>>]>>]

AnyOrder(I, o, f, S) ==
  \A T \in SUBSET S : I[T] \in Int /\ \A y \in T : I[T] = o[<<f[y], I[T \ {y}]>>]

\* Any element may be taken out first if the operation does not mind.
LEMMA FoldsAnyOrder ==
  ASSUME NEW S, IsFiniteSet(S), NEW I, NEW o, NEW base \in Int, NEW f, Folds(I, o, base, f, S),
         \A x \in S : f[x] \in Int, TakesTurns(o)
  PROVE  AnyOrder(I, o, f, S)
<1>0. /\ \A a, b \in Int : o[<<a, b>>] \in Int
      /\ \A a, b, c \in Int : o[<<a, o[<<b, c>>]>>] = o[<<b, o[<<a, c>>]>>]
  BY DEF TakesTurns
<1> USE <1>0
<1> DEFINE G == {T \in SUBSET S : I[T] \in Int}
           H == {T \in SUBSET S : \A y \in T : I[T] = o[<<f[y], I[T \ {y}]>>]}
<1>1. {} \in G /\ {} \in H
  BY DEF Folds
<1>2. \A T \in SUBSET S : T \in G
  <2>1. ASSUME NEW T \in SUBSET S, T # {}, \A x \in T : T \ {x} \in G PROVE T \in G
    <3> DEFINE s == Picked(T)
    <3>1. s \in T /\ I[T] = o[<<f[s], I[T \ {s}]>>]
      BY <2>1 DEF Folds, Picked
    <3> HIDE DEF s
    <3>2. I[T \ {s}] \in Int /\ f[s] \in Int
      BY <2>1, <3>1
    <3> QED
      BY <3>1, <3>2
  <2> HIDE DEF G
  <2> QED
    BY <1>1, <2>1, SubsetInduction
<1>3. \A T \in SUBSET S : T \in H
  <2>1. ASSUME NEW T \in SUBSET S, T # {}, \A x \in T : T \ {x} \in H PROVE T \in H
    <3> DEFINE s == Picked(T)
    <3>1. s \in T /\ I[T] = o[<<f[s], I[T \ {s}]>>]
      BY <2>1 DEF Folds, Picked
    <3> HIDE DEF s
    <3>2. ASSUME NEW y \in T PROVE I[T] = o[<<f[y], I[T \ {y}]>>]
      <4>1. CASE y = s
        BY <3>1, <4>1
      <4>2. CASE y # s
        <5> DEFINE rest == (T \ {s}) \ {y}
        <5>1. rest = (T \ {y}) \ {s} /\ y \in T \ {s} /\ s \in T \ {y} /\ rest \in SUBSET S
          BY <3>1, <4>2
        <5>2. I[T \ {s}] = o[<<f[y], I[rest]>>]
          BY <2>1, <5>1
        <5>3. I[T \ {y}] = o[<<f[s], I[rest]>>]
          <6>1. T \ {y} \in H
            BY <2>1
          <6>2. \A x \in T \ {y} : I[T \ {y}] = o[<<f[x], I[(T \ {y}) \ {x}]>>]
            BY <6>1
          <6>3. I[T \ {y}] = o[<<f[s], I[(T \ {y}) \ {s}]>>]
            BY <5>1, <6>2
          <6> HIDE DEF rest
          <6> QED
            BY <5>1, <6>3
        <5>4. I[rest] \in Int /\ f[s] \in Int /\ f[y] \in Int
          BY <1>2, <5>1
        <5> HIDE DEF rest
        <5> QED
          BY <3>1, <5>2, <5>3, <5>4
      <4> QED
        BY <4>1, <4>2
    <3> QED
      BY <3>2
  <2> HIDE DEF H
  <2> QED
    BY <1>1, <2>1, SubsetInduction
<1> QED
  BY <1>2, <1>3 DEF AnyOrder

\* Every operation on whole numbers is folded by some I.
FoldsFully(I, o, base, f, S) ==
  /\ I = [s \in SUBSET S |-> IF s = {} THEN base ELSE o[<<f[Picked(s)], I[s \ {Picked(s)}]>>]]
  /\ \A T \in SUBSET S : I[T] \in Int

LEMMA FoldsExist ==
  ASSUME NEW S, IsFiniteSet(S), NEW o, NEW base \in Int, NEW f,
         \A x \in S : f[x] \in Int, \A a, b \in Int : o[<<a, b>>] \in Int
  PROVE  \E I : FoldsFully(I, o, base, f, S)
<1> DEFINE step(J, T) == IF T = {} THEN base ELSE o[<<f[Picked(T)], J[T \ {Picked(T)}]>>]
           upTo(J, n) == \A T \in SUBSET S : Cardinality(T) <= n => J[T] = step(J, T)
           A == {n \in Nat : \E J : upTo(J, n)}
<1>1. \A T \in SUBSET S : IsFiniteSet(T) /\ Cardinality(T) \in Nat
  BY FS_Subset, FS_CardinalityType
<1>2. \A T \in SUBSET S : T # {} =>
        /\ Picked(T) \in T /\ T \ {Picked(T)} \in SUBSET S
        /\ Cardinality(T) = Cardinality(T \ {Picked(T)}) + 1
  <2>1. ASSUME NEW T \in SUBSET S, T # {} PROVE Picked(T) \in T
    BY <2>1 DEF Picked
  <2> QED
    BY <1>1, <2>1, Removed
<1>3. 0 \in A
  <2> DEFINE J == [T \in SUBSET S |-> base]
  <2>1. ASSUME NEW T \in SUBSET S, Cardinality(T) <= 0 PROVE J[T] = step(J, T)
    <3>1. T = {}
      BY <1>1, <2>1, FS_EmptySet
    <3> QED
      BY <3>1
  <2>2. upTo(J, 0)
    BY <2>1
  <2> QED
    BY <2>2
<1>4. ASSUME NEW n \in Nat, n \in A PROVE n + 1 \in A
  <2>1. PICK J : upTo(J, n)
    BY <1>4
  <2> DEFINE K == [T \in SUBSET S |-> IF Cardinality(T) <= n THEN J[T] ELSE step(J, T)]
  <2>2. ASSUME NEW T \in SUBSET S, Cardinality(T) <= n + 1 PROVE K[T] = step(K, T)
    <3>1. K[T] = step(J, T)
      BY <2>1
    <3>2. T # {} => K[T \ {Picked(T)}] = J[T \ {Picked(T)}]
      BY <1>1, <1>2, <2>2
    <3>3. step(K, T) = step(J, T)
      <4> HIDE DEF K
      <4> QED
        BY <3>2
    <3> QED
      BY <3>1, <3>3, Zenon
  <2> HIDE DEF K
  <2>3. upTo(K, n + 1) /\ n + 1 \in Nat
    BY <2>2
  <2> QED
    BY <2>3
<1>5. Cardinality(S) \in A
  <2> HIDE DEF A
  <2>1. \A n \in Nat : n \in A
    BY <1>3, <1>4, Induction
  <2> QED
    BY <1>1, <2>1
<1>6. PICK J : upTo(J, Cardinality(S))
  BY <1>5
<1> DEFINE I == [T \in SUBSET S |-> J[T]]
<1>7. \A T \in SUBSET S : J[T] = step(J, T)
  <2>1. \A T \in SUBSET S : Cardinality(T) <= Cardinality(S)
    BY FS_Subset
  <2> QED
    BY <1>6, <2>1
<1>8. \A T \in SUBSET S : step(I, T) = step(J, T)
  BY <1>2
<1>9. I = [T \in SUBSET S |-> step(I, T)]
  <2> HIDE DEF step
  <2> QED
    BY <1>7, <1>8
<1>10. \A T \in SUBSET S : I[T] = step(I, T)
  <2> HIDE DEF step
  <2> QED
    BY <1>7, <1>8
<1> HIDE DEF I
<1>11. \A T \in SUBSET S : I[T] \in Int
  <2> DEFINE G == {T \in SUBSET S : I[T] \in Int}
  <2>1. {} \in G
    BY <1>10
  <2>2. ASSUME NEW T \in SUBSET S, T # {}, \A x \in T : T \ {x} \in G PROVE T \in G
    <3>1. I[T \ {Picked(T)}] \in Int /\ f[Picked(T)] \in Int
      BY <1>2, <2>2
    <3> QED
      BY <1>10, <2>2, <3>1
  <2> HIDE DEF G
  <2>3. \A T \in SUBSET S : T \in G
    BY <2>1, <2>2, SubsetInduction
  <2> QED
    BY <2>3 DEF G
<1> QED
  BY <1>9, <1>11, Zenon DEF FoldsFully

Adding == [p \in Int \X Int |-> (p[1] + p[2]) % Q]
Multiplying == [p \in Int \X Int |-> (p[1] * p[2]) % Q]

LEMMA Operations ==
  /\ \A a, b \in Int : Adding[<<a, b>>] = (a + b) % Q /\ Adding[<<a, b>>] \in Int
  /\ \A a, b \in Int : Multiplying[<<a, b>>] = (a * b) % Q /\ Multiplying[<<a, b>>] \in Int
  /\ \A a, b, c \in Int : Adding[<<a, Adding[<<b, c>>]>>] = Adding[<<b, Adding[<<a, c>>]>>]
  /\ \A a, b, c \in Int : Multiplying[<<a, Multiplying[<<b, c>>]>>] = Multiplying[<<b, Multiplying[<<a, c>>]>>]
<1>1. \A a \in Int : a % Q \in Int
  BY Residue
<1>2. \A a, b \in Int : Adding[<<a, b>>] = (a + b) % Q /\ Multiplying[<<a, b>>] = (a * b) % Q
  BY DEF Adding, Multiplying
<1>3. \A a, b \in Int : a + b \in Int /\ a * b \in Int
  OBVIOUS
<1>4. ASSUME NEW a \in Int, NEW b \in Int, NEW c \in Int
      PROVE  /\ (a + ((b + c) % Q)) % Q = (b + ((a + c) % Q)) % Q
             /\ (a * ((b * c) % Q)) % Q = (b * ((a * c) % Q)) % Q
  <2> DEFINE bc == b + c
             ac == a + c
             u == bc % Q
             v == ac % Q
  <2>1. bc \in Int /\ ac \in Int /\ a + bc = b + ac
    OBVIOUS
  <2> DEFINE tbc == b * c
             tac == a * c
             w == tbc % Q
             x == tac % Q
  <2>2. tbc \in Int /\ tac \in Int /\ a * tbc = b * tac
    OBVIOUS
  <2> HIDE DEF bc, ac, tbc, tac
  <2>3. u \in Int /\ v \in Int /\ w \in Int /\ x \in Int /\ Same(u, bc) /\ Same(v, ac) /\ Same(w, tbc) /\ Same(x, tac)
    BY <2>1, <2>2, Residue
  <2> HIDE DEF u, v, w, x
  <2>4. Same(a + u, a + bc) /\ Same(b + v, b + ac)
    BY <2>1, <2>3, SameProduct
  <2>5. Same(a * w, a * tbc) /\ Same(b * x, b * tac)
    BY <2>2, <2>3, SameProduct
  <2>6. Same(a + u, b + v) /\ Same(a * w, b * x)
    BY <2>1, <2>2, <2>4, <2>5, SameIs
  <2> QED
    BY <2>6 DEF Same, u, v, w, x, bc, ac, tbc, tac
<1>5. ASSUME NEW a \in Int, NEW b \in Int, NEW c \in Int
      PROVE  /\ Adding[<<a, Adding[<<b, c>>]>>] = Adding[<<b, Adding[<<a, c>>]>>]
             /\ Multiplying[<<a, Multiplying[<<b, c>>]>>] = Multiplying[<<b, Multiplying[<<a, c>>]>>]
  <2> DEFINE bc == b + c
             ac == a + c
             tbc == b * c
             tac == a * c
  <2>1. bc \in Int /\ ac \in Int /\ tbc \in Int /\ tac \in Int
    OBVIOUS
  <2>2. /\ (a + (bc % Q)) % Q = (b + (ac % Q)) % Q
        /\ (a * (tbc % Q)) % Q = (b * (tac % Q)) % Q
        /\ Adding[<<b, c>>] = bc % Q /\ Adding[<<a, c>>] = ac % Q
        /\ Multiplying[<<b, c>>] = tbc % Q /\ Multiplying[<<a, c>>] = tac % Q
    BY <1>2, <1>4
  <2> HIDE DEF bc, ac, tbc, tac
  <2>3. bc % Q \in Int /\ ac % Q \in Int /\ tbc % Q \in Int /\ tac % Q \in Int
    BY <1>1, <2>1
  <2> QED
    BY <1>2, <2>2, <2>3
<1>6. ASSUME NEW a \in Int, NEW b \in Int PROVE Adding[<<a, b>>] \in Int /\ Multiplying[<<a, b>>] \in Int
  <2> DEFINE u == a + b
             v == a * b
  <2>1. u \in Int /\ v \in Int /\ Adding[<<a, b>>] = u % Q /\ Multiplying[<<a, b>>] = v % Q
    BY <1>2
  <2> HIDE DEF u, v
  <2> QED
    BY <1>1, <2>1, Zenon
<1>7. \A a, b \in Int : Adding[<<a, b>>] = (a + b) % Q /\ Adding[<<a, b>>] \in Int
  BY <1>2, <1>6, Zenon
<1>8. \A a, b \in Int : Multiplying[<<a, b>>] = (a * b) % Q /\ Multiplying[<<a, b>>] \in Int
  BY <1>2, <1>6, Zenon
<1>9. \A a, b, c \in Int : Adding[<<a, Adding[<<b, c>>]>>] = Adding[<<b, Adding[<<a, c>>]>>]
  BY <1>5, Zenon
<1>10. \A a, b, c \in Int : Multiplying[<<a, Multiplying[<<b, c>>]>>] = Multiplying[<<b, Multiplying[<<a, c>>]>>]
  BY <1>5, Zenon
<1> QED
  BY <1>7, <1>8, <1>9, <1>10, Zenon

Sum(f, T) == Keys!SumOf([i \in T |-> f[i]])
Product(f, T) == Keys!ProductOf([i \in T |-> f[i]])

\* SumOf folds its argument over the domain.
LEMMA SumFolds ==
  ASSUME NEW S, IsFiniteSet(S), NEW f, DOMAIN f = S, \A x \in S : f[x] \in Int
  PROVE  \E I : Folds(I, Adding, 0, f, S) /\ Keys!SumOf(f) = I[S]
<1> DEFINE step(J) == [s \in SUBSET DOMAIN f |->
             IF s = {} THEN 0
             ELSE (f[CHOOSE x \in s : TRUE] + J[s \ {CHOOSE x \in s : TRUE}]) % Q]
           I == CHOOSE J : J = step(J)
<1>1. 0 \in Int /\ \A a, b \in Int : Adding[<<a, b>>] = (a + b) % Q /\ Adding[<<a, b>>] \in Int
  BY Operations
<1>2. \A T \in SUBSET S : T # {} => Picked(T) \in T /\ T \ {Picked(T)} \in SUBSET S /\ f[Picked(T)] \in Int
  BY DEF Picked
<1>3. PICK J : /\ J = [s \in SUBSET S |-> IF s = {} THEN 0 ELSE Adding[<<f[Picked(s)], J[s \ {Picked(s)}]>>]]
               /\ \A T \in SUBSET S : J[T] \in Int
  <2>1. PICK o, base : o = Adding /\ base = 0
    OBVIOUS
  <2>2. base \in Int /\ \A a, b \in Int : o[<<a, b>>] \in Int
    BY <1>1, <2>1
  <2>3. \E K : FoldsFully(K, o, base, f, S)
    BY <2>2, FoldsExist
  <2> QED
    BY <2>1, <2>3, Zenon DEF FoldsFully
<1>4. J = step(J)
  <2>1. ASSUME NEW T \in SUBSET S, T # {}
        PROVE  Adding[<<f[Picked(T)], J[T \ {Picked(T)}]>>] = (f[Picked(T)] + J[T \ {Picked(T)}]) % Q
    <3>1. f[Picked(T)] \in Int /\ J[T \ {Picked(T)}] \in Int
      BY <1>2, <1>3, <2>1
    <3> QED
      BY <1>1, <3>1, Zenon
  <2>2. J = [s \in SUBSET S |-> IF s = {} THEN 0 ELSE (f[Picked(s)] + J[s \ {Picked(s)}]) % Q]
    BY <1>3, <2>1, Zenon
  <2> QED
    BY <2>2, Zenon DEF Picked
<1>5. I = step(I)
  <2> HIDE DEF step
  <2> QED
    BY <1>4, Zenon
<1>6. Keys!SumOf(f) = I[S]
  BY Zenon DEF Keys!SumOf, Keys!FoldFunction, Keys!FoldFunctionOnSet, Keys!MapThenFoldSet
<1> HIDE DEF I
<1>7. \A T \in SUBSET S : I[T] = IF T = {} THEN 0 ELSE (f[Picked(T)] + I[T \ {Picked(T)}]) % Q
  <2>1. I = [s \in SUBSET S |-> IF s = {} THEN 0 ELSE (f[Picked(s)] + I[s \ {Picked(s)}]) % Q]
    BY <1>5, Zenon DEF Picked
  <2> QED
    BY <2>1, Zenon
<1>8. \A T \in SUBSET S : I[T] \in Int
  <2> DEFINE G == {T \in SUBSET S : I[T] \in Int}
  <2>1. {} \in G
    <3>1. I[{}] = 0
      BY <1>7
    <3> QED
      BY <1>1, <3>1, Zenon
  <2>2. ASSUME NEW T \in SUBSET S, T # {}, \A x \in T : T \ {x} \in G PROVE T \in G
    <3> DEFINE a == f[Picked(T)]
               b == I[T \ {Picked(T)}]
    <3>1. a \in Int /\ b \in Int /\ I[T] = (a + b) % Q
      <4>1. Picked(T) \in T /\ a \in Int
        BY <1>2, <2>2
      <4>2. T \ {Picked(T)} \in G
        BY <2>2, <4>1
      <4>3. I[T] = (a + b) % Q
        BY <1>7, <2>2, Zenon
      <4> QED
        BY <4>1, <4>2, <4>3
    <3> HIDE DEF a, b
    <3>2. (a + b) % Q \in Int
      <4>1. a + b \in Int
        BY <3>1
      <4> QED
        BY <4>1, Residue
    <3>3. I[T] \in Int
      BY <3>1, <3>2, Zenon
    <3> QED
      BY <3>3
  <2> HIDE DEF G
  <2>3. \A T \in SUBSET S : T \in G
    BY <2>1, <2>2, SubsetInduction
  <2> QED
    BY <2>3 DEF G
<1>9. ASSUME NEW T \in SUBSET S
      PROVE  I[T] = IF T = {} THEN 0 ELSE Adding[<<f[Picked(T)], I[T \ {Picked(T)}]>>]
  <2>1. CASE T = {}
    BY <1>7, <2>1
  <2>2. CASE T # {}
    <3>1. f[Picked(T)] \in Int /\ I[T \ {Picked(T)}] \in Int
      BY <1>2, <1>8, <2>2
    <3>2. I[T] = (f[Picked(T)] + I[T \ {Picked(T)}]) % Q
      BY <1>7, <2>2, Zenon
    <3> QED
      BY <1>1, <2>2, <3>1, <3>2, Zenon
  <2> QED
    BY <2>1, <2>2
<1> QED
  BY <1>6, <1>9, Zenon DEF Folds

\* Both operations take their operands in any order.
LEMMA BothTakeTurns == TakesTurns(Adding) /\ TakesTurns(Multiplying)
<1>1. /\ \A a, b \in Int : Adding[<<a, b>>] \in Int
      /\ \A a, b, c \in Int : Adding[<<a, Adding[<<b, c>>]>>] = Adding[<<b, Adding[<<a, c>>]>>]
  BY Operations, Zenon
<1>2. /\ \A a, b \in Int : Multiplying[<<a, b>>] \in Int
      /\ \A a, b, c \in Int : Multiplying[<<a, Multiplying[<<b, c>>]>>] = Multiplying[<<b, Multiplying[<<a, c>>]>>]
  BY Operations, Zenon
<1> QED
  BY <1>1, <1>2, Zenon DEF TakesTurns

\* So any element of a set can be the first of its sum.
LEMMA SumStep ==
  ASSUME NEW S, IsFiniteSet(S), NEW f, \A x \in S : f[x] \in Int
  PROVE  \A T \in SUBSET S : /\ Sum(f, T) \in Keys!Field /\ Sum(f, T) \in Int
                             /\ T = {} => Sum(f, T) = 0
                             /\ \A y \in T : Same(Sum(f, T), f[y] + Sum(f, T \ {y}))
<1>1. 0 \in Int /\ \A a, b \in Int : Adding[<<a, b>>] = (a + b) % Q /\ Adding[<<a, b>>] \in Int
  BY Operations
<1>2. PICK I : /\ I = [s \in SUBSET S |-> IF s = {} THEN 0 ELSE Adding[<<f[Picked(s)], I[s \ {Picked(s)}]>>]]
               /\ \A T \in SUBSET S : I[T] \in Int
  <2>1. PICK o, base : o = Adding /\ base = 0
    OBVIOUS
  <2>2. base \in Int /\ \A a, b \in Int : o[<<a, b>>] \in Int
    BY <1>1, <2>1
  <2>3. \E K : FoldsFully(K, o, base, f, S)
    BY <2>2, FoldsExist
  <2> QED
    BY <2>1, <2>3, Zenon DEF FoldsFully
<1>3. \A T \in SUBSET S : I[T] = IF T = {} THEN 0 ELSE Adding[<<f[Picked(T)], I[T \ {Picked(T)}]>>]
  BY <1>2, Zenon
<1>4. \A T \in SUBSET S : \A y \in T : I[T] = Adding[<<f[y], I[T \ {y}]>>]
  <2>1. Folds(I, Adding, 0, f, S)
    BY <1>3, Zenon DEF Folds
  <2>2. PICK o, base : o = Adding /\ base = 0
    OBVIOUS
  <2>3. base \in Int /\ (\A a, b \in Int : o[<<a, b>>] \in Int) /\ Folds(I, o, base, f, S)
    BY <1>1, <2>1, <2>2
  <2>6. TakesTurns(o)
    BY <2>2, BothTakeTurns, Zenon
  <2>7. AnyOrder(I, o, f, S)
    BY <2>3, <2>6, FoldsAnyOrder, Zenon
  <2>5. \A T \in SUBSET S : \A y \in T : I[T] = o[<<f[y], I[T \ {y}]>>]
    BY <2>7, Zenon DEF AnyOrder
  <2> QED
    BY <2>2, <2>5, Zenon
<1>5. ASSUME NEW T \in SUBSET S PROVE Sum(f, T) = I[T]
  <2> DEFINE g == [i \in T |-> f[i]]
  <2>1. IsFiniteSet(T) /\ DOMAIN g = T /\ (\A x \in T : g[x] \in Int) /\ (\A x \in T : g[x] = f[x])
    BY FS_Subset
  <2> HIDE DEF g
  <2>2. PICK J : Folds(J, Adding, 0, g, T) /\ Keys!SumOf(g) = J[T]
    BY <2>1, SumFolds
  <2>3. Folds(I, Adding, 0, f, T)
    BY <1>3 DEF Folds
  <2>4. J[T] = I[T]
    BY <2>1, <2>2, <2>3, FoldsAgree
  <2> QED
    BY <2>2, <2>4, Zenon DEF Sum, g
<1>6. ASSUME NEW T \in SUBSET S, NEW y \in T
      PROVE  Sum(f, T) = (f[y] + Sum(f, T \ {y})) % Q /\ f[y] + Sum(f, T \ {y}) \in Int
  <2> DEFINE a == f[y]
             b == I[T \ {y}]
  <2>1. a \in Int /\ b \in Int /\ I[T] = Adding[<<a, b>>] /\ T \ {y} \in SUBSET S
    BY <1>2, <1>4
  <2>2. I[T] = (a + b) % Q
    BY <1>1, <2>1, Zenon
  <2>3. b = Sum(f, T \ {y}) /\ I[T] = Sum(f, T)
    BY <1>5, <2>1
  <2>4. a + b \in Int
    BY <2>1
  <2> QED
    BY <2>2, <2>3, <2>4, Zenon
<1>7. ASSUME NEW T \in SUBSET S, T = {} PROVE Sum(f, T) = 0
  BY <1>3, <1>5, <1>7
<1>8. ASSUME NEW T \in SUBSET S, NEW y \in T
      PROVE  Sum(f, T) \in Keys!Field /\ Same(Sum(f, T), f[y] + Sum(f, T \ {y}))
  <2> DEFINE a == f[y] + Sum(f, T \ {y})
  <2>1. a \in Int /\ Sum(f, T) = a % Q
    BY <1>6
  <2> HIDE DEF a
  <2>2. a % Q \in Keys!Field /\ Same(a % Q, a)
    BY <2>1, Residue
  <2> QED
    BY <2>1, <2>2, Zenon DEF a
<1>9. ASSUME NEW T \in SUBSET S PROVE Sum(f, T) \in Keys!Field /\ Sum(f, T) \in Int
  <2>1. CASE T = {}
    BY <1>7, <2>1, Field
  <2>2. CASE T # {}
    BY <1>8, <2>2, Field
  <2> QED
    BY <2>1, <2>2
<1> QED
  BY <1>7, <1>8, <1>9

\* ProductOf folds its argument over the domain.
LEMMA ProductFolds ==
  ASSUME NEW S, IsFiniteSet(S), NEW f, DOMAIN f = S, \A x \in S : f[x] \in Int
  PROVE  \E I : Folds(I, Multiplying, 1, f, S) /\ Keys!ProductOf(f) = I[S]
<1> DEFINE step(J) == [s \in SUBSET DOMAIN f |->
             IF s = {} THEN 1
             ELSE (f[CHOOSE x \in s : TRUE] * J[s \ {CHOOSE x \in s : TRUE}]) % Q]
           I == CHOOSE J : J = step(J)
<1>1. 1 \in Int /\ \A a, b \in Int : Multiplying[<<a, b>>] = (a * b) % Q /\ Multiplying[<<a, b>>] \in Int
  BY Operations
<1>2. \A T \in SUBSET S : T # {} => Picked(T) \in T /\ T \ {Picked(T)} \in SUBSET S /\ f[Picked(T)] \in Int
  BY DEF Picked
<1>3. PICK J : /\ J = [s \in SUBSET S |-> IF s = {} THEN 1 ELSE Multiplying[<<f[Picked(s)], J[s \ {Picked(s)}]>>]]
               /\ \A T \in SUBSET S : J[T] \in Int
  <2>1. PICK o, base : o = Multiplying /\ base = 1
    OBVIOUS
  <2>2. base \in Int /\ \A a, b \in Int : o[<<a, b>>] \in Int
    BY <1>1, <2>1
  <2>3. \E K : FoldsFully(K, o, base, f, S)
    BY <2>2, FoldsExist
  <2> QED
    BY <2>1, <2>3, Zenon DEF FoldsFully
<1>4. J = step(J)
  <2>1. ASSUME NEW T \in SUBSET S, T # {}
        PROVE  Multiplying[<<f[Picked(T)], J[T \ {Picked(T)}]>>] = (f[Picked(T)] * J[T \ {Picked(T)}]) % Q
    <3>1. f[Picked(T)] \in Int /\ J[T \ {Picked(T)}] \in Int
      BY <1>2, <1>3, <2>1
    <3> QED
      BY <1>1, <3>1, Zenon
  <2>2. J = [s \in SUBSET S |-> IF s = {} THEN 1 ELSE (f[Picked(s)] * J[s \ {Picked(s)}]) % Q]
    BY <1>3, <2>1, Zenon
  <2> QED
    BY <2>2, Zenon DEF Picked
<1>5. I = step(I)
  <2> HIDE DEF step
  <2> QED
    BY <1>4, Zenon
<1>6. Keys!ProductOf(f) = I[S]
  BY Zenon DEF Keys!ProductOf, Keys!FoldFunction, Keys!FoldFunctionOnSet, Keys!MapThenFoldSet
<1> HIDE DEF I
<1>7. \A T \in SUBSET S : I[T] = IF T = {} THEN 1 ELSE (f[Picked(T)] * I[T \ {Picked(T)}]) % Q
  <2>1. I = [s \in SUBSET S |-> IF s = {} THEN 1 ELSE (f[Picked(s)] * I[s \ {Picked(s)}]) % Q]
    BY <1>5, Zenon DEF Picked
  <2> QED
    BY <2>1, Zenon
<1>8. \A T \in SUBSET S : I[T] \in Int
  <2> DEFINE G == {T \in SUBSET S : I[T] \in Int}
  <2>1. {} \in G
    <3>1. I[{}] = 1
      BY <1>7
    <3> QED
      BY <1>1, <3>1, Zenon
  <2>2. ASSUME NEW T \in SUBSET S, T # {}, \A x \in T : T \ {x} \in G PROVE T \in G
    <3> DEFINE a == f[Picked(T)]
               b == I[T \ {Picked(T)}]
    <3>1. a \in Int /\ b \in Int /\ I[T] = (a * b) % Q
      <4>1. Picked(T) \in T /\ a \in Int
        BY <1>2, <2>2
      <4>2. T \ {Picked(T)} \in G
        BY <2>2, <4>1
      <4>3. I[T] = (a * b) % Q
        BY <1>7, <2>2, Zenon
      <4> QED
        BY <4>1, <4>2, <4>3
    <3> HIDE DEF a, b
    <3>2. (a * b) % Q \in Int
      <4>1. a * b \in Int
        BY <3>1
      <4> QED
        BY <4>1, Residue
    <3>3. I[T] \in Int
      BY <3>1, <3>2, Zenon
    <3> QED
      BY <3>3
  <2> HIDE DEF G
  <2>3. \A T \in SUBSET S : T \in G
    BY <2>1, <2>2, SubsetInduction
  <2> QED
    BY <2>3 DEF G
<1>9. ASSUME NEW T \in SUBSET S
      PROVE  I[T] = IF T = {} THEN 1 ELSE Multiplying[<<f[Picked(T)], I[T \ {Picked(T)}]>>]
  <2>1. CASE T = {}
    BY <1>7, <2>1
  <2>2. CASE T # {}
    <3>1. f[Picked(T)] \in Int /\ I[T \ {Picked(T)}] \in Int
      BY <1>2, <1>8, <2>2
    <3>2. I[T] = (f[Picked(T)] * I[T \ {Picked(T)}]) % Q
      BY <1>7, <2>2, Zenon
    <3> QED
      BY <1>1, <2>2, <3>1, <3>2, Zenon
  <2> QED
    BY <2>1, <2>2
<1> QED
  BY <1>6, <1>9, Zenon DEF Folds

\* So any element of a set can be the first of its product.
LEMMA ProductStep ==
  ASSUME NEW S, IsFiniteSet(S), NEW f, \A x \in S : f[x] \in Int
  PROVE  \A T \in SUBSET S : /\ Product(f, T) \in Keys!Field /\ Product(f, T) \in Int
                             /\ T = {} => Product(f, T) = 1
                             /\ \A y \in T : Same(Product(f, T), f[y] * Product(f, T \ {y}))
<1>1. 1 \in Int /\ \A a, b \in Int : Multiplying[<<a, b>>] = (a * b) % Q /\ Multiplying[<<a, b>>] \in Int
  BY Operations
<1>2. PICK I : /\ I = [s \in SUBSET S |-> IF s = {} THEN 1 ELSE Multiplying[<<f[Picked(s)], I[s \ {Picked(s)}]>>]]
               /\ \A T \in SUBSET S : I[T] \in Int
  <2>1. PICK o, base : o = Multiplying /\ base = 1
    OBVIOUS
  <2>2. base \in Int /\ \A a, b \in Int : o[<<a, b>>] \in Int
    BY <1>1, <2>1
  <2>3. \E K : FoldsFully(K, o, base, f, S)
    BY <2>2, FoldsExist
  <2> QED
    BY <2>1, <2>3, Zenon DEF FoldsFully
<1>3. \A T \in SUBSET S : I[T] = IF T = {} THEN 1 ELSE Multiplying[<<f[Picked(T)], I[T \ {Picked(T)}]>>]
  BY <1>2, Zenon
<1>4. \A T \in SUBSET S : \A y \in T : I[T] = Multiplying[<<f[y], I[T \ {y}]>>]
  <2>1. Folds(I, Multiplying, 1, f, S)
    BY <1>3, Zenon DEF Folds
  <2>2. PICK o, base : o = Multiplying /\ base = 1
    OBVIOUS
  <2>3. base \in Int /\ (\A a, b \in Int : o[<<a, b>>] \in Int) /\ Folds(I, o, base, f, S)
    BY <1>1, <2>1, <2>2
  <2>6. TakesTurns(o)
    BY <2>2, BothTakeTurns, Zenon
  <2>7. AnyOrder(I, o, f, S)
    BY <2>3, <2>6, FoldsAnyOrder, Zenon
  <2>5. \A T \in SUBSET S : \A y \in T : I[T] = o[<<f[y], I[T \ {y}]>>]
    BY <2>7, Zenon DEF AnyOrder
  <2> QED
    BY <2>2, <2>5, Zenon
<1>5. ASSUME NEW T \in SUBSET S PROVE Product(f, T) = I[T]
  <2> DEFINE g == [i \in T |-> f[i]]
  <2>1. IsFiniteSet(T) /\ DOMAIN g = T /\ (\A x \in T : g[x] \in Int) /\ (\A x \in T : g[x] = f[x])
    BY FS_Subset
  <2> HIDE DEF g
  <2>2. PICK J : Folds(J, Multiplying, 1, g, T) /\ Keys!ProductOf(g) = J[T]
    BY <2>1, ProductFolds
  <2>3. Folds(I, Multiplying, 1, f, T)
    BY <1>3 DEF Folds
  <2>4. J[T] = I[T]
    BY <2>1, <2>2, <2>3, FoldsAgree
  <2> QED
    BY <2>2, <2>4, Zenon DEF Product, g
<1>6. ASSUME NEW T \in SUBSET S, NEW y \in T
      PROVE  Product(f, T) = (f[y] * Product(f, T \ {y})) % Q /\ f[y] * Product(f, T \ {y}) \in Int
  <2> DEFINE a == f[y]
             b == I[T \ {y}]
  <2>1. a \in Int /\ b \in Int /\ I[T] = Multiplying[<<a, b>>] /\ T \ {y} \in SUBSET S
    BY <1>2, <1>4
  <2>2. I[T] = (a * b) % Q
    BY <1>1, <2>1, Zenon
  <2>3. b = Product(f, T \ {y}) /\ I[T] = Product(f, T)
    BY <1>5, <2>1
  <2>4. a * b \in Int
    BY <2>1
  <2> QED
    BY <2>2, <2>3, <2>4, Zenon
<1>7. ASSUME NEW T \in SUBSET S, T = {} PROVE Product(f, T) = 1
  BY <1>3, <1>5, <1>7
<1>8. ASSUME NEW T \in SUBSET S, NEW y \in T
      PROVE  Product(f, T) \in Keys!Field /\ Same(Product(f, T), f[y] * Product(f, T \ {y}))
  <2> DEFINE a == f[y] * Product(f, T \ {y})
  <2>1. a \in Int /\ Product(f, T) = a % Q
    BY <1>6
  <2> HIDE DEF a
  <2>2. a % Q \in Keys!Field /\ Same(a % Q, a)
    BY <2>1, Residue
  <2> QED
    BY <2>1, <2>2, Zenon DEF a
<1>9. ASSUME NEW T \in SUBSET S PROVE Product(f, T) \in Keys!Field /\ Product(f, T) \in Int
  <2>1. CASE T = {}
    BY <1>7, <2>1, Field
  <2>2. CASE T # {}
    BY <1>8, <2>2, Field
  <2> QED
    BY <2>1, <2>2
<1> QED
  BY <1>7, <1>8, <1>9

\* Sums are linear.
LEMMA SameLinear ==
  ASSUME NEW a \in Int, NEW b \in Int, NEW c \in Int, NEW d \in Int, NEW e \in Int, NEW f \in Int,
         NEW u \in Int, NEW v \in Int, NEW w \in Int, NEW k \in Int,
         Same(u, a + b), Same(v, c + d), Same(w, e + f), Same(a, c + k * e), Same(b, d + k * f)
  PROVE  Same(u, v + k * w)
<1>1. Q \in Int
  BY Field
<1>2. PICK l \in Int : u = (a + b) + Q * l
  BY SameBy
<1>3. PICK m \in Int : v = (c + d) + Q * m
  BY SameBy
<1>4. PICK n \in Int : w = (e + f) + Q * n
  BY SameBy
<1>5. PICK p \in Int : a = (c + k * e) + Q * p
  BY SameBy
<1>6. PICK q \in Int : b = (d + k * f) + Q * q
  BY SameBy
<1>7. u = (v + k * w) + Q * (l + p + q - m - k * n)
  BY <1>1, <1>2, <1>3, <1>4, <1>5, <1>6
<1> DEFINE x == v + k * w
           y == l + p + q - m - k * n
<1>8. x \in Int /\ y \in Int /\ u = x + Q * y
  BY <1>7
<1> HIDE DEF x, y
<1>9. Same(u, x)
  BY <1>8, SameBy
<1> QED
  BY <1>9 DEF x

LEMMA SumLinear ==
  ASSUME NEW S, IsFiniteSet(S), NEW f, NEW g, NEW h, NEW k \in Int,
         \A x \in S : f[x] \in Int /\ g[x] \in Int /\ h[x] \in Int /\ Same(f[x], g[x] + k * h[x])
  PROVE  Same(Sum(f, S), Sum(g, S) + k * Sum(h, S))
<1> DEFINE G == {T \in SUBSET S : Same(Sum(f, T), Sum(g, T) + k * Sum(h, T))}
<1>1. \A T \in SUBSET S : /\ Sum(f, T) \in Int /\ Sum(g, T) \in Int /\ Sum(h, T) \in Int
                          /\ T = {} => Sum(f, T) = 0 /\ Sum(g, T) = 0 /\ Sum(h, T) = 0
                          /\ \A y \in T : /\ Same(Sum(f, T), f[y] + Sum(f, T \ {y}))
                                          /\ Same(Sum(g, T), g[y] + Sum(g, T \ {y}))
                                          /\ Same(Sum(h, T), h[y] + Sum(h, T \ {y}))
  BY SumStep
<1>2. {} \in G
  <2>1. Sum(f, {}) = 0 /\ Sum(g, {}) = 0 /\ Sum(h, {}) = 0 /\ 0 + k * 0 = 0
    BY <1>1
  <2> QED
    BY <2>1, SameIs
<1>3. ASSUME NEW T \in SUBSET S, T # {}, \A x \in T : T \ {x} \in G PROVE T \in G
  <2>1. PICK y \in T : TRUE
    BY <1>3
  <2>2. T \ {y} \in SUBSET S /\ Same(Sum(f, T \ {y}), Sum(g, T \ {y}) + k * Sum(h, T \ {y}))
    BY <1>3
  <2>3. PICK a, b, c, d, e, i :
          a = f[y] /\ b = Sum(f, T \ {y}) /\ c = g[y] /\ d = Sum(g, T \ {y}) /\ e = h[y] /\ i = Sum(h, T \ {y})
    OBVIOUS
  <2>4. a \in Int /\ b \in Int /\ c \in Int /\ d \in Int /\ e \in Int /\ i \in Int /\ Same(a, c + k * e) /\ Same(b, d + k * i)
    BY <1>1, <2>2, <2>3
  <2>5. PICK u, v, w : u = Sum(f, T) /\ v = Sum(g, T) /\ w = Sum(h, T)
    OBVIOUS
  <2>6. u \in Int /\ v \in Int /\ w \in Int /\ Same(u, a + b) /\ Same(v, c + d) /\ Same(w, e + i)
    BY <1>1, <2>3, <2>5
  <2>7. Same(u, v + k * w)
    BY <2>4, <2>6, SameLinear, ZenonT(60)
  <2> QED
    BY <2>5, <2>7
<1> HIDE DEF G
<1>4. \A T \in SUBSET S : T \in G
  BY <1>2, <1>3, SubsetInduction
<1>5. S \in SUBSET S
  OBVIOUS
<1> QED
  BY <1>4, <1>5 DEF G

LEMMA SumSame ==
  ASSUME NEW S, IsFiniteSet(S), NEW f, NEW g, \A x \in S : f[x] \in Int /\ g[x] \in Int /\ Same(f[x], g[x])
  PROVE  Sum(f, S) = Sum(g, S)
<1>1. \A x \in S : g[x] + 0 * g[x] = g[x]
  OBVIOUS
<1>2. Same(Sum(f, S), Sum(g, S) + 0 * Sum(g, S))
  BY <1>1, SumLinear
<1>3. Sum(f, S) \in Keys!Field /\ Sum(g, S) \in Keys!Field /\ Sum(g, S) \in Int
  <2>1. S \in SUBSET S
    OBVIOUS
  <2> QED
    BY <2>1, SumStep
<1>4. Sum(g, S) + 0 * Sum(g, S) = Sum(g, S)
  BY <1>3
<1> QED
  BY <1>2, <1>3, <1>4, SameInField

LEMMA SumTimes ==
  ASSUME NEW S, IsFiniteSet(S), NEW f, NEW g, NEW k \in Int,
         \A x \in S : f[x] \in Int /\ g[x] \in Int /\ Same(f[x], k * g[x])
  PROVE  Same(Sum(f, S), k * Sum(g, S))
<1> DEFINE z == [x \in S |-> 0]
<1>1. \A x \in S : z[x] = 0 /\ 0 + k * g[x] = k * g[x]
  OBVIOUS
<1>2. Same(Sum(z, S), 0)
  <2> DEFINE G == {T \in SUBSET S : Same(Sum(z, T), 0)}
  <2>1. \A T \in SUBSET S : /\ Sum(z, T) \in Int
                            /\ T = {} => Sum(z, T) = 0
                            /\ \A y \in T : Same(Sum(z, T), z[y] + Sum(z, T \ {y}))
    <3>1. \A x \in S : z[x] \in Int
      OBVIOUS
    <3> HIDE DEF z
    <3> QED
      BY <3>1, SumStep
  <2>2. {} \in G
    BY <2>1, SameIs
  <2>3. ASSUME NEW T \in SUBSET S, T # {}, \A x \in T : T \ {x} \in G PROVE T \in G
    <3>1. PICK y \in T : TRUE
      BY <2>3
    <3>2. Same(Sum(z, T), 0 + Sum(z, T \ {y})) /\ Same(Sum(z, T \ {y}), 0) /\ Sum(z, T \ {y}) \in Int
      BY <1>1, <2>1, <2>3
    <3>3. 0 + Sum(z, T \ {y}) = Sum(z, T \ {y})
      BY <3>2
    <3>4. Same(Sum(z, T), 0)
      BY <3>2, <3>3, SameIs
    <3> QED
      BY <3>4
  <2> HIDE DEF G
  <2>4. \A T \in SUBSET S : T \in G
    BY <2>2, <2>3, SubsetInduction
  <2>5. S \in SUBSET S
    OBVIOUS
  <2> QED
    BY <2>4, <2>5 DEF G
<1> HIDE DEF z
<1>3. Same(Sum(f, S), Sum(z, S) + k * Sum(g, S))
  BY <1>1, SumLinear
<1>4. Sum(z, S) \in Int /\ Sum(g, S) \in Int
  <2>1. S \in SUBSET S
    OBVIOUS
  <2> QED
    BY <1>1, <2>1, SumStep
<1>5. k * Sum(g, S) \in Int /\ 0 + k * Sum(g, S) = k * Sum(g, S)
  BY <1>4
<1>6. Same(Sum(z, S) + k * Sum(g, S), 0 + k * Sum(g, S))
  BY <1>2, <1>4, <1>5, SameProduct
<1> QED
  BY <1>3, <1>5, <1>6, SameIs

\* A product of numbers that are not 0 is not 0.
LEMMA ProductNotZero ==
  ASSUME NEW S, IsFiniteSet(S), NEW f, \A x \in S : f[x] \in Int /\ ~Same(f[x], 0)
  PROVE  ~Same(Product(f, S), 0)
<1> DEFINE G == {T \in SUBSET S : ~Same(Product(f, T), 0)}
<1>1. \A T \in SUBSET S : /\ Product(f, T) \in Int
                          /\ T = {} => Product(f, T) = 1
                          /\ \A y \in T : Same(Product(f, T), f[y] * Product(f, T \ {y}))
  BY ProductStep
<1>2. {} \in G
  <2>1. 1 \in Keys!Field /\ 0 \in Keys!Field /\ 1 # 0
    BY Field
  <2>2. ~Same(1, 0)
    BY <2>1, SameInField
  <2> QED
    BY <1>1, <2>2
<1>3. ASSUME NEW T \in SUBSET S, T # {}, \A x \in T : T \ {x} \in G PROVE T \in G
  <2>1. PICK y \in T : TRUE
    BY <1>3
  <2>2. PICK a, b : a = f[y] /\ b = Product(f, T \ {y})
    OBVIOUS
  <2>3. a \in Int /\ ~Same(a, 0) /\ b \in Int /\ ~Same(b, 0) /\ Same(Product(f, T), a * b)
    BY <1>1, <1>3, <2>2
  <2>4. ~Same(a * b, 0)
    BY <2>3, Cancelled
  <2>5. ~Same(Product(f, T), 0)
    BY <2>3, <2>4, SameIs
  <2> QED
    BY <2>5
<1> HIDE DEF G
<1>4. \A T \in SUBSET S : T \in G
  BY <1>2, <1>3, SubsetInduction
<1>5. S \in SUBSET S
  OBVIOUS
<1> QED
  BY <1>4, <1>5 DEF G

-----------------------------------------------------------------------------
\* The coefficients of Lagrange; player j has the point j + 1

Points == 0..(Q - 2)

LEMMA Differences ==
  /\ Points \subseteq Int
  /\ \A j \in Points : /\ Keys!Minus(0, j + 1) \in Int /\ Same(Keys!Minus(0, j + 1), -(j + 1))
                       /\ ~Same(Keys!Minus(0, j + 1), 0)
  /\ \A i, j \in Points : /\ Keys!Minus(i, j) \in Int /\ Same(Keys!Minus(i, j), i - j)
                          /\ i # j => ~Same(i - j, 0) /\ ~Same(Keys!Minus(i, j), 0)
<1>1. Q \in Nat /\ Q >= 2 /\ Keys!Field = 0..(Q - 1)
  BY Field
<1>2. ASSUME NEW x \in 0..(Q - 1), NEW y \in 0..(Q - 1)
      PROVE  Keys!Minus(x, y) \in Int /\ Same(Keys!Minus(x, y), x - y)
  <2>1. y % Q = y
    BY <1>1
  <2> DEFINE u == x + Q - y
  <2>2. Keys!Minus(x, y) = u % Q
    BY <2>1 DEF Keys!Minus
  <2>3. u \in Int /\ x - y \in Int /\ u = (x - y) + Q * 1 /\ 1 \in Int
    BY <1>1
  <2>4. Same(u, x - y)
    BY <2>3, SameBy
  <2> HIDE DEF u
  <2>5. u % Q \in Int /\ Same(u % Q, u)
    BY <2>3, Residue
  <2> QED
    BY <2>2, <2>4, <2>5, SameIs
<1>3. ASSUME NEW d \in Int, d # 0, d < Q, -Q < d PROVE ~Same(d, 0)
  <2>1. SUFFICES ASSUME Same(d, 0) PROVE FALSE
    OBVIOUS
  <2>2. PICK m \in Int : d = 0 + Q * m
    <3>1. 0 \in Int
      OBVIOUS
    <3> QED
      BY <2>1, <3>1, SameBy
  <2>3. m = 0 \/ m >= 1 \/ m <= -1
    OBVIOUS
  <2>4. m >= 1 => Q * m >= Q
    BY <1>1
  <2>5. m <= -1 => Q * m <= -Q
    BY <1>1
  <2>6. m = 0 => Q * m = 0
    BY <1>1
  <2>7. Q * m \in Int /\ d = Q * m
    BY <1>1, <2>2
  <2> QED
    BY <1>1, <1>3, <2>3, <2>4, <2>5, <2>6, <2>7
<1>4. ASSUME NEW j \in Points
      PROVE  /\ Keys!Minus(0, j + 1) \in Int /\ Same(Keys!Minus(0, j + 1), -(j + 1))
             /\ ~Same(Keys!Minus(0, j + 1), 0)
  <2>1. j + 1 \in 0..(Q - 1) /\ 0 \in 0..(Q - 1) /\ 0 - (j + 1) = -(j + 1)
    BY <1>1 DEF Points
  <2>2. Keys!Minus(0, j + 1) \in Int /\ Same(Keys!Minus(0, j + 1), -(j + 1))
    BY <1>2, <2>1
  <2>3. -(j + 1) \in Int /\ -(j + 1) # 0 /\ -(j + 1) < Q /\ -Q < -(j + 1)
    BY <1>1 DEF Points
  <2>4. ~Same(-(j + 1), 0)
    BY <1>3, <2>3
  <2> QED
    BY <2>2, <2>4, SameIs
<1>5. ASSUME NEW i \in Points, NEW j \in Points
      PROVE  /\ Keys!Minus(i, j) \in Int /\ Same(Keys!Minus(i, j), i - j)
             /\ i # j => ~Same(i - j, 0) /\ ~Same(Keys!Minus(i, j), 0)
  <2>1. i \in 0..(Q - 1) /\ j \in 0..(Q - 1)
    BY <1>1 DEF Points
  <2>2. Keys!Minus(i, j) \in Int /\ Same(Keys!Minus(i, j), i - j)
    BY <1>2, <2>1
  <2>3. i # j => i - j \in Int /\ i - j # 0 /\ i - j < Q /\ -Q < i - j
    BY <1>1, <2>1
  <2>4. i # j => ~Same(i - j, 0)
    BY <1>3, <2>3
  <2> QED
    BY <2>2, <2>4, SameIs
<1>6. Points \subseteq Int
  BY <1>1 DEF Points
<1> QED
  BY <1>4, <1>5, <1>6

\* What Lagrange multiplies.
Negated == [i \in Points |-> Keys!Minus(0, i + 1)]
Between(j) == [i \in Points |-> Keys!Minus(j, i)]

LEMMA LagrangeIs ==
  ASSUME NEW S \in SUBSET Points, NEW j
  PROVE  Keys!Lagrange(S, j) = (Product(Negated, S \ {j}) * Keys!Reciprocal(Product(Between(j), S \ {j}))) % Q
<1>1. [i \in S \ {j} |-> Negated[i]] = [i \in S \ {j} |-> Keys!Minus(0, i + 1)]
  BY DEF Negated
<1>2. [i \in S \ {j} |-> Between(j)[i]] = [i \in S \ {j} |-> Keys!Minus(j, i)]
  BY DEF Between
<1> QED
  BY <1>1, <1>2, Zenon DEF Keys!Lagrange, Product

\* The coefficient is the quotient of the two, and not 0.
LEMMA LagrangeBy ==
  ASSUME NEW S \in SUBSET Points, IsFiniteSet(S), NEW j \in Points
  PROVE  /\ Keys!Lagrange(S, j) \in Keys!Field /\ Keys!Lagrange(S, j) \in Int
         /\ Same(Product(Between(j), S \ {j}) * Keys!Lagrange(S, j), Product(Negated, S \ {j}))
         /\ ~Same(Product(Between(j), S \ {j}), 0)
         /\ ~Same(Keys!Lagrange(S, j), 0)
<1> DEFINE T == S \ {j}
<1>1. IsFiniteSet(T) /\ T \in SUBSET T
  BY FS_Subset
<1>2. \A x \in T : /\ Negated[x] \in Int /\ ~Same(Negated[x], 0)
                   /\ Between(j)[x] \in Int /\ ~Same(Between(j)[x], 0)
  BY Differences DEF Negated, Between
<1>3. PICK d, n, r, L : /\ d = Product(Between(j), T) /\ n = Product(Negated, T)
                        /\ r = Keys!Reciprocal(d) /\ L = Keys!Lagrange(S, j)
  OBVIOUS
<1> HIDE DEF T
<1>4. d \in Int /\ n \in Int /\ ~Same(d, 0) /\ ~Same(n, 0)
  BY <1>1, <1>2, <1>3, ProductStep, ProductNotZero
<1>5. r \in Int /\ Same(d * r, 1)
  BY <1>3, <1>4, ReciprocalIs, Field
<1>6. L = (n * r) % Q
  BY <1>3, LagrangeIs, Zenon DEF T
<1>7. L \in Keys!Field /\ L \in Int /\ Same(L, n * r)
  <2> DEFINE x == n * r
  <2>1. x \in Int /\ L = x % Q
    BY <1>4, <1>5, <1>6
  <2> HIDE DEF x
  <2>2. L \in Keys!Field /\ L \in Int /\ Same(L, x)
    BY <2>1, Residue
  <2> QED
    BY <2>2 DEF x
<1>8. Same(d * L, n)
  <2>1. PICK m \in Int : L = n * r + Q * m
    BY <1>4, <1>5, <1>7, SameBy
  <2>2. PICK k \in Int : d * r = 1 + Q * k
    BY <1>4, <1>5, SameBy
  <2>3. Q \in Int
    BY Field
  <2>4. d * L = n * (d * r) + Q * (d * m)
    BY <1>4, <1>5, <2>1, <2>3
  <2>5. d * L = n + Q * (n * k + d * m) /\ n * k + d * m \in Int /\ d * L \in Int
    BY <1>4, <1>7, <2>1, <2>2, <2>3, <2>4
  <2> QED
    BY <1>4, <2>5, SameBy
<1>9. ~Same(L, 0)
  <2>1. SUFFICES ASSUME Same(L, 0) PROVE FALSE
    OBVIOUS
  <2>2. Same(d * L, d * 0) /\ d * 0 = 0
    BY <1>4, <1>7, <2>1, SameProduct
  <2> QED
    BY <1>4, <1>8, <2>2, SameIs
<1> QED
  BY <1>3, <1>4, <1>7, <1>8, <1>9 DEF T

\* Taking away a player s changes the coefficient of j by a factor.
LEMMA LagrangeLess ==
  ASSUME NEW S \in SUBSET Points, IsFiniteSet(S), NEW j \in S, NEW s \in S \ {j}
  PROVE  Same((j - s) * Keys!Lagrange(S, j), (-(s + 1)) * Keys!Lagrange(S \ {s}, j))
<1> DEFINE T == S \ {j}
           R == S \ {s}
<1>1. /\ IsFiniteSet(T) /\ T \in SUBSET T /\ s \in T /\ T \ {s} = R \ {j}
      /\ IsFiniteSet(R) /\ R \in SUBSET Points /\ j \in Points /\ s \in Points /\ T \ {s} \in SUBSET T
  BY FS_Subset
<1>2. \A x \in T : Negated[x] \in Int /\ Between(j)[x] \in Int
  BY Differences DEF Negated, Between
<1>3. PICK d, e, n, m, L, K, u, v :
        /\ d = Product(Between(j), T) /\ e = Product(Between(j), R \ {j})
        /\ n = Product(Negated, T) /\ m = Product(Negated, R \ {j})
        /\ L = Keys!Lagrange(S, j) /\ K = Keys!Lagrange(R, j)
        /\ u = Keys!Minus(j, s) /\ v = Keys!Minus(0, s + 1)
  OBVIOUS
<1>4. u = Between(j)[s] /\ v = Negated[s]
  BY <1>1, <1>3 DEF Between, Negated
<1> HIDE DEF T, R
<1>5. Same(d * L, n) /\ L \in Int /\ Same(e * K, m) /\ K \in Int /\ ~Same(e, 0)
  <2>1. Same(d * L, n) /\ L \in Int
    BY <1>1, <1>3, LagrangeBy DEF T
  <2>2. Same(e * K, m) /\ K \in Int /\ ~Same(e, 0)
    BY <1>1, <1>3, LagrangeBy
  <2> QED
    BY <2>1, <2>2
<1>6. d \in Int /\ e \in Int /\ Same(d, u * e)
  BY <1>1, <1>2, <1>3, <1>4, ProductStep
<1>7. n \in Int /\ m \in Int /\ Same(n, v * m)
  BY <1>1, <1>2, <1>3, <1>4, ProductStep
<1>8. u \in Int /\ v \in Int /\ Same(u, j - s) /\ Same(v, -(s + 1)) /\ j - s \in Int /\ -(s + 1) \in Int
  BY <1>1, <1>3, Differences
<1>9. PICK a, b : a = j - s /\ b = -(s + 1)
  OBVIOUS
<1>10. a \in Int /\ b \in Int /\ Same(u, a) /\ Same(v, b)
  BY <1>8, <1>9
<1>11. Same(e * (a * L), e * (b * K))
  <2>1. Q \in Int /\ e * (a * L) \in Int /\ e * (b * K) \in Int
    BY <1>5, <1>6, <1>10, Field
  <2>2. PICK k1 \in Int : u = a + Q * k1
    BY <1>8, <1>10, SameBy
  <2>3. PICK k2 \in Int : v = b + Q * k2
    BY <1>8, <1>10, SameBy
  <2>4. PICK k3 \in Int : d = u * e + Q * k3
    BY <1>6, <1>8, SameBy
  <2>5. PICK k4 \in Int : n = v * m + Q * k4
    BY <1>7, <1>8, SameBy
  <2>6. PICK k5 \in Int : d * L = n + Q * k5
    BY <1>5, <1>6, <1>7, SameBy
  <2>7. PICK k6 \in Int : e * K = m + Q * k6
    BY <1>5, <1>6, <1>7, SameBy
  <2>8. e * (a * L) = d * L - Q * (k1 * e * L + k3 * L)
    BY <1>5, <1>6, <1>10, <2>1, <2>2, <2>4
  <2>9. e * (b * K) = b * m + Q * (b * k6)
    BY <1>5, <1>6, <1>7, <1>10, <2>1, <2>7
  <2>10. n = b * m + Q * (k2 * m + k4)
    BY <1>7, <1>10, <2>1, <2>3, <2>5
  <2>11. e * (a * L) = e * (b * K) + Q * (k2 * m + k4 + k5 - k1 * e * L - k3 * L - b * k6)
    BY <1>5, <1>6, <1>7, <1>10, <2>1, <2>6, <2>8, <2>9, <2>10
  <2>12. k2 * m + k4 + k5 - k1 * e * L - k3 * L - b * k6 \in Int
    BY <1>5, <1>6, <1>7, <1>10
  <2> QED
    BY <2>1, <2>11, <2>12, SameBy
<1>12. a * L \in Int /\ b * K \in Int
  BY <1>5, <1>10
<1>13. Same(a * L, b * K)
  BY <1>5, <1>6, <1>11, <1>12, Cancelled
<1> QED
  BY <1>3, <1>9, <1>13 DEF R
LEMMA SumOfWhole ==
  ASSUME NEW S, IsFiniteSet(S), NEW f, \A x \in S : f[x] \in Int
  PROVE  Sum(f, S) \in Keys!Field /\ Sum(f, S) \in Int
<1>1. S \in SUBSET S
  OBVIOUS
<1> QED
  BY <1>1, SumStep

\* A sum with a term that is 0.
LEMMA SumWithout ==
  ASSUME NEW S, IsFiniteSet(S), NEW t \in S, NEW f, NEW g, NEW k \in Int, f[t] = 0,
         \A x \in S \ {t} : f[x] \in Int /\ g[x] \in Int /\ Same(f[x], k * g[x])
  PROVE  Same(Sum(f, S), k * Sum(g, S \ {t}))
<1>1. S \in SUBSET S /\ S \ {t} \in SUBSET S /\ IsFiniteSet(S \ {t}) /\ \A x \in S : f[x] \in Int
  BY FS_Subset
<1>2. Same(Sum(f, S), 0 + Sum(f, S \ {t})) /\ Sum(f, S \ {t}) \in Int
  BY <1>1, SumStep
<1>3. 0 + Sum(f, S \ {t}) = Sum(f, S \ {t})
  BY <1>2
<1>4. Same(Sum(f, S \ {t}), k * Sum(g, S \ {t}))
  BY <1>1, SumTimes
<1> QED
  BY <1>2, <1>3, <1>4, SameIs

Coefficients(S) == [j \in S |-> Keys!Lagrange(S, j)]

\* The coefficients add up to 1.
LEMMA CoefficientsSum ==
  ASSUME NEW S \in SUBSET Points, IsFiniteSet(S), S # {}
  PROVE  Sum(Coefficients(S), S) = 1
<1> DEFINE G == {T \in SUBSET S : T # {} => Sum(Coefficients(T), T) = 1}
<1>1. {} \in G
  OBVIOUS
<1>2. ASSUME NEW T \in SUBSET S, T # {}, \A x \in T : T \ {x} \in G PROVE T \in G
  <2>1. /\ IsFiniteSet(T) /\ T \in SUBSET Points /\ \A x \in T : IsFiniteSet(T \ {x})
        /\ \A x \in T : T \ {x} # {} => Sum(Coefficients(T \ {x}), T \ {x}) = 1
    BY <1>2, FS_Subset
  <2>2. \A R \in SUBSET T : \A j \in R : Coefficients(R)[j] = Keys!Lagrange(R, j) /\ Coefficients(R)[j] \in Int
    <3>1. ASSUME NEW R \in SUBSET T, NEW j \in R PROVE Keys!Lagrange(R, j) \in Int
      <4>1. IsFiniteSet(R) /\ R \in SUBSET Points /\ j \in Points
        BY <2>1, FS_Subset
      <4> QED
        BY <4>1, LagrangeBy
    <3> QED
      BY <3>1 DEF Coefficients
  <2>3. Sum(Coefficients(T), T) \in Keys!Field /\ Sum(Coefficients(T), T) \in Int
    BY <2>1, <2>2, SumOfWhole
  <2>4. 1 \in Keys!Field /\ 1 \in Int
    BY Field
  <2>5. PICK t \in T : TRUE
    BY <1>2
  <2>6. CASE T = {t}
    <3>1. T \ {t} = {} /\ t \in Points /\ {} \in SUBSET T /\ T \in SUBSET T
      BY <2>1, <2>6
    <3> DEFINE L == Keys!Lagrange(T, t)
               d == Product(Between(t), {})
               n == Product(Negated, {})
    <3>2. d = 1 /\ n = 1
      <4>1. IsFiniteSet({}) /\ {} \in SUBSET {} /\ \A x \in {} : Between(t)[x] \in Int /\ Negated[x] \in Int
        BY FS_EmptySet
      <4> QED
        BY <4>1, ProductStep
    <3>3. L \in Int /\ Same(d * L, n)
      BY <2>1, <3>1, LagrangeBy
    <3> HIDE DEF L, d, n
    <3>4. d * L = L
      BY <3>2, <3>3
    <3>5. Same(Sum(Coefficients(T), T), L + Sum(Coefficients(T), {})) /\ Sum(Coefficients(T), {}) = 0
      <4>1. \A x \in T : Coefficients(T)[x] \in Int
        BY <2>2
      <4>2. Coefficients(T)[t] = L
        BY <2>2, <2>5 DEF L
      <4> QED
        BY <2>1, <3>1, <4>1, <4>2, SumStep
    <3>6. L + Sum(Coefficients(T), {}) = L
      BY <3>3, <3>5
    <3>7. Same(Sum(Coefficients(T), T), 1)
      BY <3>2, <3>3, <3>4, <3>5, <3>6, SameIs
    <3>8. Sum(Coefficients(T), T) = 1
      BY <2>3, <2>4, <3>7, SameInField
    <3> QED
      BY <3>8
  <2>7. CASE T # {t}
    <3>1. PICK s \in T : s # t
      BY <2>5, <2>7
    <3>2. t \in Points /\ s \in Points /\ t \in Int /\ s \in Int /\ t - s \in Int /\ t + 1 \in Int /\ s + 1 \in Int
      BY <2>1, Differences
    <3> DEFINE L == Coefficients(T)
               M == Coefficients(T \ {t})
               K == Coefficients(T \ {s})
               f == [j \in T |-> (t - s) * L[j]]
               g == [j \in T |-> IF j = t THEN 0 ELSE (t + 1) * M[j]]
               h == [j \in T |-> IF j = s THEN 0 ELSE (s + 1) * K[j]]
    <3>3. /\ \A j \in T : L[j] \in Int /\ L[j] = Keys!Lagrange(T, j)
          /\ \A j \in T \ {t} : M[j] \in Int /\ M[j] = Keys!Lagrange(T \ {t}, j)
          /\ \A j \in T \ {s} : K[j] \in Int /\ K[j] = Keys!Lagrange(T \ {s}, j)
      BY <2>2
    <3>4. Sum(M, T \ {t}) = 1 /\ Sum(K, T \ {s}) = 1
      BY <2>1, <3>1
    <3> HIDE DEF L, M, K
    <3>5. /\ \A j \in T : f[j] \in Int /\ g[j] \in Int /\ h[j] \in Int
          /\ g[t] = 0 /\ h[s] = 0
          /\ \A j \in T \ {t} : Same(g[j], (t + 1) * M[j])
          /\ \A j \in T \ {s} : Same(h[j], (s + 1) * K[j])
          /\ \A j \in T : Same(f[j], (t - s) * L[j])
      BY <3>2, <3>3, SameIs
    <3>6. ASSUME NEW j \in T PROVE Same(f[j], g[j] + (-1) * h[j])
      <4>1. j \in Int
        BY <2>1, Differences
      <4>2. j # t => Same((j - t) * L[j], (-(t + 1)) * M[j])
        BY <2>1, <3>3, LagrangeLess
      <4>3. j # s => Same((j - s) * L[j], (-(s + 1)) * K[j])
        BY <2>1, <3>3, LagrangeLess
      <4>4. PICK u, v, w, x, y, z : u = j - t /\ v = j - s /\ w = L[j] /\ x = t + 1 /\ y = s + 1 /\ z = t - s
        OBVIOUS
      <4>5. u \in Int /\ v \in Int /\ w \in Int /\ x \in Int /\ y \in Int /\ z \in Int /\ z = v - u
        BY <3>2, <3>3, <4>1, <4>4
      <4>6. CASE j = t
        <5>1. PICK k : k = K[j]
          OBVIOUS
        <5>2. k \in Int /\ Same(v * w, (-y) * k) /\ z = v /\ f[j] = z * w /\ g[j] = 0 /\ h[j] = y * k
          BY <3>1, <3>3, <4>3, <4>4, <4>6, <5>1
        <5>3. 0 + (-1) * (y * k) = (-y) * k
          BY <4>5, <5>2
        <5> QED
          BY <5>2, <5>3, Zenon
      <4>7. CASE j = s
        <5>1. PICK k : k = M[j]
          OBVIOUS
        <5>2. k \in Int /\ Same(u * w, (-x) * k) /\ z = -u /\ f[j] = z * w /\ g[j] = x * k /\ h[j] = 0
          BY <3>1, <3>3, <4>1, <4>2, <4>4, <4>7, <5>1
        <5>3. PICK p, q : p = u * w /\ q = (-x) * k
          OBVIOUS
        <5>4. p \in Int /\ q \in Int /\ Same(p, q)
          BY <4>5, <5>2, <5>3
        <5>5. Same(0 - p, 0 - q)
          BY <5>4, SameProduct
        <5>6. 0 - p = z * w /\ 0 - q = x * k + (-1) * 0
          BY <4>5, <5>2, <5>3
        <5> QED
          BY <5>2, <5>5, <5>6, Zenon
      <4>8. CASE j # t /\ j # s
        <5>1. PICK k, m : k = M[j] /\ m = K[j]
          OBVIOUS
        <5>2. /\ k \in Int /\ m \in Int /\ Same(u * w, (-x) * k) /\ Same(v * w, (-y) * m)
              /\ f[j] = z * w /\ g[j] = x * k /\ h[j] = y * m
          BY <3>3, <4>2, <4>3, <4>4, <4>8, <5>1
        <5>3. PICK p, q, a, b : p = u * w /\ q = (-x) * k /\ a = v * w /\ b = (-y) * m
          OBVIOUS
        <5>4. p \in Int /\ q \in Int /\ Same(p, q) /\ a \in Int /\ b \in Int /\ Same(a, b)
          BY <4>5, <5>2, <5>3
        <5>5. Same(a - p, b - q)
          BY <5>4, SameSums
        <5>6. a - p = z * w /\ b - q = x * k + (-1) * (y * m)
          BY <4>5, <5>2, <5>3
        <5> QED
          BY <5>2, <5>5, <5>6, Zenon
      <4> QED
        BY <4>6, <4>7, <4>8
    <3> HIDE DEF f, g, h
    <3>7. PICK a, b, c, d : a = Sum(L, T) /\ b = Sum(f, T) /\ c = Sum(g, T) /\ d = Sum(h, T)
      OBVIOUS
    <3>8. a \in Int /\ b \in Int /\ c \in Int /\ d \in Int
      BY <2>1, <3>3, <3>5, <3>7, SumOfWhole
    <3>9. Same(b, c + (-1) * d)
      BY <2>1, <3>5, <3>6, <3>7, SumLinear
    <3>10. Same(b, (t - s) * a)
      BY <2>1, <3>2, <3>3, <3>5, <3>7, SumTimes
    <3>11. Same(c, (t + 1) * 1)
      BY <2>1, <3>2, <3>3, <3>4, <3>5, <3>7, SumWithout, ZenonT(30)
    <3>12. Same(d, (s + 1) * 1)
      BY <2>1, <3>2, <3>3, <3>4, <3>5, <3>7, SumWithout, ZenonT(30)
    <3>13. PICK x, y, z : x = t + 1 /\ y = s + 1 /\ z = t - s
      OBVIOUS
    <3>14. x \in Int /\ y \in Int /\ z \in Int /\ z = x - y /\ ~Same(z, 0) /\ Same(c, x) /\ Same(d, y) /\ Same(b, z * a)
      BY <3>1, <3>2, <3>10, <3>11, <3>12, <3>13, Differences
    <3>15. c + (-1) * d = c - d /\ z * 1 = x - y /\ z * a \in Int
      BY <3>8, <3>14
    <3>16. Same(c - d, x - y)
      BY <3>8, <3>14, SameSums
    <3>17. Same(z * a, z * 1)
      BY <3>9, <3>14, <3>15, <3>16, SameIs
    <3>18. Same(a, 1)
      BY <2>4, <3>8, <3>14, <3>17, Cancelled
    <3>19. a = 1
      BY <2>3, <2>4, <3>7, <3>18, SameInField DEF L
    <3> QED
      BY <3>7, <3>19 DEF L
  <2> QED
    BY <2>6, <2>7
<1> HIDE DEF G
<1>3. \A T \in SUBSET S : T \in G
  BY <1>1, <1>2, SubsetInduction
<1>4. S \in SUBSET S
  OBVIOUS
<1> QED
  BY <1>3, <1>4 DEF G
-----------------------------------------------------------------------------
\* Polynomials

Powers(x, k) == CHOOSE xx : xx = [i \in 1..k |-> IF i = 1 THEN 1 ELSE (xx[i - 1] * x) % Q]

LEMMA PowersAre ==
  ASSUME NEW x \in Int, NEW k \in Nat
  PROVE  /\ Powers(x, k) = [i \in 1..k |-> IF i = 1 THEN 1 ELSE (Powers(x, k)[i - 1] * x) % Q]
         /\ \A i \in 1..k : Powers(x, k)[i] \in Int
         /\ k >= 1 => Powers(x, k)[1] = 1
         /\ \A i \in 1..(k - 1) : Same(Powers(x, k)[i + 1], Powers(x, k)[i] * x)
<1> DEFINE step(f, i) == IF i = 1 THEN 1 ELSE (f[i - 1] * x) % Q
           A == {n \in Nat : \E f : \A i \in 1..n : f[i] = step(f, i)}
<1>1. 0 \in A
  OBVIOUS
<1>2. ASSUME NEW n \in Nat, n \in A PROVE n + 1 \in A
  <2>1. PICK f : \A i \in 1..n : f[i] = step(f, i)
    BY <1>2
  <2> DEFINE g == [i \in 1..(n + 1) |-> IF i <= n THEN f[i] ELSE step(f, i)]
  <2>2. \A i \in 1..(n + 1) : g[i] = step(f, i)
    BY <2>1
  <2>3. \A i \in 1..(n + 1) : i # 1 => g[i - 1] = f[i - 1]
    OBVIOUS
  <2> HIDE DEF g
  <2>4. \A i \in 1..(n + 1) : g[i] = step(g, i)
    BY <2>2, <2>3
  <2> QED
    BY <2>4
<1>3. k \in A
  <2> HIDE DEF A
  <2>1. \A n \in Nat : n \in A
    BY <1>1, <1>2, Induction
  <2> QED
    BY <2>1
<1>4. PICK f : \A i \in 1..k : f[i] = step(f, i)
  BY <1>3
<1> DEFINE g == [i \in 1..k |-> f[i]]
<1>5. g = [i \in 1..k |-> step(g, i)]
  <2>1. \A i \in 1..k : step(g, i) = step(f, i)
    OBVIOUS
  <2> HIDE DEF step
  <2> QED
    BY <1>4, <2>1
<1> HIDE DEF g
<1> DEFINE xx == Powers(x, k)
<1>6. xx = [i \in 1..k |-> step(xx, i)]
  BY <1>5, Zenon DEF Powers
<1> HIDE DEF xx
<1>7. k >= 1 => xx[1] = 1
  BY <1>6
<1>8. \A i \in 1..(k - 1) : xx[i + 1] = (xx[i] * x) % Q
  <2>1. ASSUME NEW i \in 1..(k - 1) PROVE xx[i + 1] = (xx[i] * x) % Q
    <3>1. i + 1 \in 1..k /\ i + 1 # 1 /\ (i + 1) - 1 = i
      OBVIOUS
    <3>2. \A m \in 1..k : xx[m] = step(xx, m)
      BY <1>6, Zenon
    <3> QED
      BY <3>1, <3>2, Zenon
  <2> QED
    BY <2>1
<1>9. \A i \in 1..k : xx[i] \in Int
  <2> DEFINE B == {n \in Nat : n + 1 \in 1..k => xx[n + 1] \in Int}
  <2>1. 0 \in B
    BY <1>7
  <2>2. ASSUME NEW n \in Nat, n \in B PROVE n + 1 \in B
    <3>1. SUFFICES ASSUME (n + 1) + 1 \in 1..k PROVE xx[(n + 1) + 1] \in Int
      OBVIOUS
    <3>2. n + 1 \in 1..(k - 1) /\ xx[n + 1] \in Int
      BY <2>2, <3>1
    <3>3. xx[n + 1] * x \in Int
      BY <3>2
    <3>4. (xx[n + 1] * x) % Q \in Int
      BY <3>3, Residue
    <3> QED
      BY <1>8, <3>2, <3>4, Zenon
  <2> HIDE DEF B
  <2>3. \A n \in Nat : n \in B
    BY <2>1, <2>2, Induction
  <2>4. ASSUME NEW i \in 1..k PROVE xx[i] \in Int
    <3>1. i - 1 \in Nat /\ (i - 1) + 1 = i
      OBVIOUS
    <3>2. i - 1 \in B
      BY <2>3, <3>1
    <3> QED
      BY <3>1, <3>2 DEF B
  <2> QED
    BY <2>4
<1>10. \A i \in 1..(k - 1) : Same(xx[i + 1], xx[i] * x)
  <2>1. ASSUME NEW i \in 1..(k - 1) PROVE Same(xx[i + 1], xx[i] * x)
    <3> DEFINE y == xx[i] * x
    <3>1. y \in Int /\ xx[i + 1] = y % Q
      BY <1>8, <1>9
    <3> HIDE DEF y
    <3>2. Same(xx[i + 1], y)
      BY <3>1, Residue
    <3> QED
      BY <3>2 DEF y
  <2> QED
    BY <2>1
<1> QED
  BY <1>6, <1>7, <1>9, <1>10 DEF xx

\* The terms of a polynomial at x.
Terms(a, x, k) == [i \in 1..k |-> a[i] * Powers(x, k)[i]]

LEMMA PolynomIs ==
  ASSUME NEW k \in Nat, NEW a \in [1..k -> Int], NEW x \in Int
  PROVE  /\ Keys!PolynomEval(x, a) = Sum(Terms(a, x, k), 1..k)
         /\ \A i \in 1..k : Terms(a, x, k)[i] \in Int /\ Terms(a, x, k)[i] = a[i] * Powers(x, k)[i]
         /\ IsFiniteSet(1..k)
         /\ Keys!PolynomEval(x, a) \in Keys!Field /\ Keys!PolynomEval(x, a) \in Int
<1>1. DOMAIN a = 1..k
  OBVIOUS
<1>2. Keys!PolynomEval(x, a) = Keys!SumOf([i \in 1..k |-> a[i] * Powers(x, k)[i]])
  <2> DEFINE value(D) ==
        Keys!SumOf([i \in D |->
          a[i] * (CHOOSE xx : xx = [m \in D |-> IF m = 1 THEN 1 ELSE (xx[m - 1] * x) % Q])[i]])
  <2>1. Keys!PolynomEval(x, a) = value(DOMAIN a)
    BY Zenon DEF Keys!PolynomEval
  <2>2. value(1..k) = Keys!SumOf([i \in 1..k |-> a[i] * Powers(x, k)[i]])
    BY Zenon DEF Powers
  <2> HIDE DEF value
  <2>3. value(DOMAIN a) = value(1..k)
    BY <1>1, Zenon
  <2> QED
    BY <2>1, <2>2, <2>3, Zenon
<1>3. \A i \in 1..k : Powers(x, k)[i] \in Int /\ a[i] \in Int
  BY PowersAre
<1>4. \A i \in 1..k : Terms(a, x, k)[i] \in Int /\ Terms(a, x, k)[i] = a[i] * Powers(x, k)[i]
  BY <1>3 DEF Terms
<1>5. [i \in 1..k |-> Terms(a, x, k)[i]] = [i \in 1..k |-> a[i] * Powers(x, k)[i]]
  BY <1>4
<1>6. Keys!PolynomEval(x, a) = Sum(Terms(a, x, k), 1..k)
  BY <1>2, <1>5, Zenon DEF Sum
<1>7. IsFiniteSet(1..k)
  BY FS_Interval
<1> HIDE DEF Terms
<1> QED
  BY <1>4, <1>6, <1>7, SumOfWhole

\* Polynomials are added, and multiplied by a number, term by term.
LEMMA PolynomLinear ==
  ASSUME NEW k \in Nat, NEW a \in [1..k -> Int], NEW b \in [1..k -> Int], NEW d \in [1..k -> Int], NEW c \in Int,
         \A i \in 1..k : Same(d[i], a[i] + c * b[i]), NEW x \in Int
  PROVE  Same(Keys!PolynomEval(x, d), Keys!PolynomEval(x, a) + c * Keys!PolynomEval(x, b))
<1> DEFINE f == Terms(d, x, k)
           g == Terms(a, x, k)
           h == Terms(b, x, k)
<1>1. ASSUME NEW i \in 1..k PROVE Same(f[i], g[i] + c * h[i])
  <2>1. PICK p, q, r, y : p = a[i] /\ q = b[i] /\ r = d[i] /\ y = Powers(x, k)[i]
    OBVIOUS
  <2>2. p \in Int /\ q \in Int /\ r \in Int /\ y \in Int /\ Same(r, p + c * q)
    BY <2>1, PowersAre
  <2>3. f[i] = r * y /\ g[i] = p * y /\ h[i] = q * y
    BY <2>1, PolynomIs
  <2>4. PICK s : s = p + c * q
    OBVIOUS
  <2>5. s \in Int /\ Same(r * y, s * y)
    BY <2>2, <2>4, SameProduct
  <2>6. s * y = p * y + c * (q * y)
    BY <2>2, <2>4
  <2> QED
    BY <2>3, <2>5, <2>6, Zenon
<1>2. \A i \in 1..k : f[i] \in Int /\ g[i] \in Int /\ h[i] \in Int
  BY PolynomIs
<1>3. IsFiniteSet(1..k)
  BY FS_Interval
<1>4. Keys!PolynomEval(x, d) = Sum(f, 1..k) /\ Keys!PolynomEval(x, a) = Sum(g, 1..k) /\ Keys!PolynomEval(x, b) = Sum(h, 1..k)
  BY PolynomIs
<1> HIDE DEF f, g, h
<1>5. Same(Sum(f, 1..k), Sum(g, 1..k) + c * Sum(h, 1..k))
  BY <1>1, <1>2, <1>3, SumLinear
<1> QED
  BY <1>4, <1>5, Zenon

\* Powers do not depend on how many of them are made.
LEMMA PowersShorter ==
  ASSUME NEW x \in Int, NEW k \in Nat, NEW i \in 1..k
  PROVE  Powers(x, k + 1)[i] = Powers(x, k)[i]
<1> DEFINE f == Powers(x, k)
           g == Powers(x, k + 1)
           B == {n \in Nat : n + 1 \in 1..k => f[n + 1] = g[n + 1]}
<1>1. f = [m \in 1..k |-> IF m = 1 THEN 1 ELSE (f[m - 1] * x) % Q]
  BY PowersAre
<1>2. g = [m \in 1..(k + 1) |-> IF m = 1 THEN 1 ELSE (g[m - 1] * x) % Q]
  <2>1. k + 1 \in Nat
    OBVIOUS
  <2> QED
    BY <2>1, PowersAre, Zenon
<1> HIDE DEF f, g
<1>3. 0 \in B
  BY <1>1, <1>2
<1>4. ASSUME NEW n \in Nat, n \in B PROVE n + 1 \in B
  <2>1. SUFFICES ASSUME (n + 1) + 1 \in 1..k PROVE f[(n + 1) + 1] = g[(n + 1) + 1]
    OBVIOUS
  <2>2. PICK m : m = (n + 1) + 1
    OBVIOUS
  <2>3. m \in 1..k /\ m \in 1..(k + 1) /\ m # 1 /\ n + 1 \in 1..k /\ m - 1 = n + 1 /\ f[m - 1] = g[m - 1]
    BY <1>4, <2>1, <2>2
  <2>4. f[m] = (f[m - 1] * x) % Q /\ g[m] = (g[m - 1] * x) % Q
    BY <1>1, <1>2, <2>3, Zenon
  <2> QED
    BY <2>2, <2>3, <2>4, Zenon
<1> HIDE DEF B
<1>5. \A n \in Nat : n \in B
  BY <1>3, <1>4, Induction
<1>6. i - 1 \in B /\ (i - 1) + 1 = i
  BY <1>5
<1> QED
  BY <1>6 DEF B, f, g

\* Without the constant coefficient, a polynomial is x times one of lower degree.
Lower(a, k) == [i \in 1..k |-> a[i + 1]]

LEMMA Horner ==
  ASSUME NEW k \in Nat, NEW a \in [1..(k + 1) -> Int], NEW x \in Int
  PROVE  /\ Lower(a, k) \in [1..k -> Int]
         /\ Same(Keys!PolynomEval(x, a), a[1] + x * Keys!PolynomEval(x, Lower(a, k)))
<1> DEFINE b == Lower(a, k)
           f == Terms(a, x, k + 1)
           g == Terms(b, x, k)
<1>1. k + 1 \in Nat /\ b \in [1..k -> Int]
  BY DEF Lower
<1>2. /\ Keys!PolynomEval(x, a) = Sum(f, 1..(k + 1)) /\ IsFiniteSet(1..(k + 1))
      /\ \A i \in 1..(k + 1) : f[i] \in Int /\ f[i] = a[i] * Powers(x, k + 1)[i]
  BY <1>1, PolynomIs
<1>3. /\ Keys!PolynomEval(x, b) = Sum(g, 1..k) /\ IsFiniteSet(1..k)
      /\ \A i \in 1..k : g[i] \in Int /\ g[i] = b[i] * Powers(x, k)[i]
  BY <1>1, PolynomIs
<1>4. \A i \in 1..k : Same(f[i + 1], x * g[i])
  <2>1. ASSUME NEW i \in 1..k PROVE Same(f[i + 1], x * g[i])
    <3>1. PICK c, y, z : c = a[i + 1] /\ y = Powers(x, k + 1)[i + 1] /\ z = Powers(x, k + 1)[i]
      OBVIOUS
    <3>2. i \in 1..(k + 1) /\ i + 1 \in 1..(k + 1) /\ i \in 1..((k + 1) - 1)
      OBVIOUS
    <3>3. c \in Int /\ y \in Int /\ z \in Int /\ Same(y, z * x)
      BY <1>1, <3>1, <3>2, PowersAre
    <3>4. z = Powers(x, k)[i] /\ b[i] = c
      BY <3>1, PowersShorter DEF Lower
    <3>5. f[i + 1] = c * y /\ g[i] = c * z
      BY <1>2, <1>3, <3>1, <3>2, <3>4
    <3>6. PICK w : w = z * x
      OBVIOUS
    <3>7. w \in Int /\ Same(c * y, c * w)
      <4>1. w \in Int /\ Same(y, w)
        BY <3>3, <3>6
      <4> QED
        BY <3>3, <4>1, SameProduct
    <3>8. c * w = x * (c * z)
      BY <3>3, <3>6
    <3> QED
      BY <3>5, <3>7, <3>8, Zenon
  <2> QED
    BY <2>1
<1>5. a[1] \in Int /\ f[1] = a[1]
  <2>1. 1 \in 1..(k + 1) /\ Powers(x, k + 1)[1] = 1
    BY <1>1, PowersAre
  <2> QED
    BY <1>2, <2>1
<1> HIDE DEF f, g, b
<1> DEFINE B == {n \in Nat : n <= k => Same(Sum(f, 1..(n + 1)), a[1] + x * Sum(g, 1..n))}
<1>6. \A T \in SUBSET (1..(k + 1)) : /\ Sum(f, T) \in Int
                                     /\ T = {} => Sum(f, T) = 0
                                     /\ \A y \in T : Same(Sum(f, T), f[y] + Sum(f, T \ {y}))
  BY <1>2, SumStep
<1>7. \A T \in SUBSET (1..k) : /\ Sum(g, T) \in Int
                               /\ T = {} => Sum(g, T) = 0
                               /\ \A y \in T : Same(Sum(g, T), g[y] + Sum(g, T \ {y}))
  BY <1>3, SumStep
<1>8. 0 \in B
  <2>1. 1..(0 + 1) = {1} /\ 1..0 = {} /\ {1} \ {1} = {} /\ {1} \in SUBSET (1..(k + 1))
    OBVIOUS
  <2>2. Same(Sum(f, {1}), f[1] + Sum(f, {})) /\ Sum(f, {}) = 0 /\ Sum(g, {}) = 0
    BY <1>6, <1>7, <2>1
  <2>3. a[1] + 0 = a[1] + x * 0
    BY <1>5
  <2>4. Same(Sum(f, 1..(0 + 1)), a[1] + x * Sum(g, 1..0))
    BY <1>5, <2>1, <2>2, <2>3, Zenon
  <2> QED
    BY <2>4
<1>9. ASSUME NEW n \in Nat, n \in B PROVE n + 1 \in B
  <2>1. SUFFICES ASSUME n + 1 <= k PROVE Same(Sum(f, 1..((n + 1) + 1)), a[1] + x * Sum(g, 1..(n + 1)))
    BY <1>9
  <2>2. /\ 1..((n + 1) + 1) \in SUBSET (1..(k + 1)) /\ (n + 1) + 1 \in 1..((n + 1) + 1)
        /\ (1..((n + 1) + 1)) \ {(n + 1) + 1} = 1..(n + 1)
        /\ 1..(n + 1) \in SUBSET (1..k) /\ n + 1 \in 1..(n + 1) /\ n + 1 \in 1..k /\ (1..(n + 1)) \ {n + 1} = 1..n
    BY <2>1
  <2>3. PICK u, v, p, q, s, t :
          /\ u = Sum(f, 1..((n + 1) + 1)) /\ v = Sum(f, 1..(n + 1)) /\ p = f[(n + 1) + 1]
          /\ s = Sum(g, 1..(n + 1)) /\ t = Sum(g, 1..n) /\ q = g[n + 1]
    OBVIOUS
  <2>4. u \in Int /\ v \in Int /\ p \in Int /\ Same(u, p + v)
    <3>1. 1..(n + 1) \in SUBSET (1..(k + 1)) /\ (n + 1) + 1 \in 1..(k + 1)
      BY <2>1
    <3> QED
      BY <1>2, <1>6, <2>2, <2>3, <3>1
  <2>5. s \in Int /\ t \in Int /\ q \in Int /\ Same(s, q + t)
    <3>1. 1..n \in SUBSET (1..k)
      BY <2>1
    <3> QED
      BY <1>3, <1>7, <2>2, <2>3, <3>1
  <2>6. Same(v, a[1] + x * t)
    BY <1>9, <2>1, <2>3
  <2>7. Same(p, x * q)
    BY <1>4, <2>2, <2>3
  <2>8. PICK c : c = a[1]
    OBVIOUS
  <2>9. Same(u, c + x * s)
    <3>1. Q \in Int /\ c \in Int /\ Same(v, c + x * t)
      BY <1>5, <2>6, <2>8, Field
    <3>2. PICK k1 \in Int : u = (p + v) + Q * k1
      BY <2>4, SameBy
    <3>3. PICK k2 \in Int : s = (q + t) + Q * k2
      BY <2>5, SameBy
    <3>4. PICK k3 \in Int : v = (c + x * t) + Q * k3
      BY <2>4, <2>5, <3>1, SameBy
    <3>5. PICK k4 \in Int : p = x * q + Q * k4
      BY <2>4, <2>5, <2>7, SameBy
    <3>6. u = (c + x * s) + Q * (k1 + k3 + k4 - x * k2)
      BY <2>4, <2>5, <3>1, <3>2, <3>3, <3>4, <3>5
    <3>7. PICK y, z : y = c + x * s /\ z = k1 + k3 + k4 - x * k2
      OBVIOUS
    <3>8. y \in Int /\ z \in Int /\ u = y + Q * z
      BY <2>5, <3>1, <3>6, <3>7
    <3>9. Same(u, y)
      BY <2>4, <3>8, SameBy
    <3> QED
      BY <3>7, <3>9
  <2> QED
    BY <2>3, <2>8, <2>9, Zenon
<1>10. k \in B
  <2> HIDE DEF B
  <2>1. \A n \in Nat : n \in B
    BY <1>8, <1>9, Induction
  <2> QED
    BY <2>1
<1>11. Same(Sum(f, 1..(k + 1)), a[1] + x * Sum(g, 1..k))
  BY <1>10
<1> QED
  BY <1>1, <1>2, <1>3, <1>11 DEF b

\* The shares of S, each times its coefficient.
Weighted(a, S) == [j \in S |-> Keys!PolynomEval(j + 1, a) * Keys!Lagrange(S, j)]

LEMMA WeightedIs ==
  ASSUME NEW k \in Nat, NEW a \in [1..k -> Int], NEW S \in SUBSET Points, IsFiniteSet(S)
  PROVE  /\ \A j \in S : /\ Weighted(a, S)[j] = Keys!PolynomEval(j + 1, a) * Coefficients(S)[j]
                         /\ Weighted(a, S)[j] \in Int /\ Coefficients(S)[j] \in Int
                         /\ Coefficients(S)[j] = Keys!Lagrange(S, j)
                         /\ Keys!PolynomEval(j + 1, a) \in Int
         /\ Sum(Weighted(a, S), S) \in Int
<1>1. ASSUME NEW j \in S
      PROVE  Keys!PolynomEval(j + 1, a) \in Int /\ Keys!Lagrange(S, j) \in Int
  <2>1. j \in Points /\ j + 1 \in Int
    BY Differences
  <2> QED
    BY <2>1, PolynomIs, LagrangeBy
<1>2. \A j \in S : /\ Weighted(a, S)[j] = Keys!PolynomEval(j + 1, a) * Coefficients(S)[j]
                   /\ Weighted(a, S)[j] \in Int /\ Coefficients(S)[j] \in Int
                   /\ Coefficients(S)[j] = Keys!Lagrange(S, j)
  BY <1>1 DEF Weighted, Coefficients
<1> QED
  BY <1>1, <1>2, SumOfWhole

\* Enough shares, each times its coefficient, add up to the secret.
THEOREM Interpolated ==
  ASSUME NEW k \in Nat \ {0}, NEW a \in [1..k -> Int], NEW S \in SUBSET Points, IsFiniteSet(S), Cardinality(S) >= k
  PROVE  Same(Sum(Weighted(a, S), S), a[1])
<1> DEFINE holds(n, c, T) == Same(Sum(Weighted(c, T), T), c[1])
           A == {n \in Nat : \A c \in [1..(n + 1) -> Int], T \in SUBSET Points :
                               IsFiniteSet(T) /\ Cardinality(T) >= n + 1 => holds(n, c, T)}
<1>1. ASSUME NEW n \in Nat, NEW c \in [1..(n + 1) -> Int], NEW T \in SUBSET Points,
             IsFiniteSet(T), Cardinality(T) >= n + 1,
             n = 0 \/ n - 1 \in A
      PROVE  holds(n, c, T)
  <2> DEFINE b == Lower(c, n)
             L == Coefficients(T)
             V == Weighted(b, T)
             u == [j \in T |-> (j + 1) * V[j]]
  <2>1. n + 1 \in Nat /\ b \in [1..n -> Int] /\ c[1] \in Int /\ T # {}
    <3>1. T # {}
      BY <1>1, FS_EmptySet
    <3> QED
      BY <3>1 DEF Lower
  <2>2. \A j \in T : j \in Points /\ j \in Int /\ j + 1 \in Int
    BY Differences
  <2>3. /\ \A j \in T : /\ Weighted(c, T)[j] = Keys!PolynomEval(j + 1, c) * L[j]
                        /\ Weighted(c, T)[j] \in Int /\ L[j] \in Int /\ L[j] = Keys!Lagrange(T, j)
                        /\ Keys!PolynomEval(j + 1, c) \in Int
        /\ Sum(Weighted(c, T), T) \in Int
    BY <1>1, <2>1, WeightedIs
  <2>4. /\ \A j \in T : /\ V[j] = Keys!PolynomEval(j + 1, b) * L[j]
                        /\ V[j] \in Int /\ Keys!PolynomEval(j + 1, b) \in Int
        /\ Sum(V, T) \in Int
    BY <1>1, <2>1, WeightedIs
  <2>5. \A j \in T : Same(Keys!PolynomEval(j + 1, c), c[1] + (j + 1) * Keys!PolynomEval(j + 1, b))
    BY <2>2, Horner
  <2>6. \A j \in T : u[j] = (j + 1) * V[j] /\ u[j] \in Int
    BY <2>2, <2>4
  <2>7. Sum(L, T) = 1
    BY <1>1, <2>1, CoefficientsSum
  <2> HIDE DEF b, L, V, u
  <2>8. \A j \in T : Same(Weighted(c, T)[j], u[j] + c[1] * L[j])
    <3>1. ASSUME NEW j \in T PROVE Same(Weighted(c, T)[j], u[j] + c[1] * L[j])
      <4>1. PICK p, q, l, x, d : /\ p = Keys!PolynomEval(j + 1, c) /\ q = Keys!PolynomEval(j + 1, b)
                                 /\ l = L[j] /\ x = j + 1 /\ d = c[1]
        OBVIOUS
      <4>2. p \in Int /\ q \in Int /\ l \in Int /\ x \in Int /\ d \in Int /\ Same(p, d + x * q)
        BY <2>1, <2>2, <2>3, <2>4, <2>5, <4>1
      <4>3. Weighted(c, T)[j] = p * l /\ u[j] = x * (q * l)
        BY <2>3, <2>4, <2>6, <4>1
      <4>4. PICK y : y = d + x * q
        OBVIOUS
      <4>5. y \in Int /\ Same(p, y)
        BY <4>2, <4>4
      <4>6. Same(p * l, y * l)
        BY <4>2, <4>5, SameProduct
      <4>7. y * l = x * (q * l) + d * l
        BY <4>2, <4>4
      <4> QED
        BY <4>1, <4>3, <4>6, <4>7, Zenon
    <3> QED
      BY <3>1
  <2>9. Same(Sum(Weighted(c, T), T), Sum(u, T) + c[1] * 1)
    BY <1>1, <2>1, <2>3, <2>6, <2>7, <2>8, SumLinear
  <2>10. Sum(u, T) \in Int /\ Same(Sum(u, T), 0)
    <3>1. Sum(u, T) \in Int
      BY <1>1, <2>6, SumOfWhole
    <3>2. CASE n = 0
      <4>1. \A j \in T : V[j] = 0
        <5>1. ASSUME NEW j \in T PROVE Keys!PolynomEval(j + 1, b) = 0
          <6>1. 1..n = {} /\ {} \in SUBSET {}
            BY <3>2
          <6> DEFINE w == Terms(b, j + 1, n)
          <6>2. Keys!PolynomEval(j + 1, b) = Sum(Terms(b, j + 1, n), 1..n)
            BY <2>1, <2>2, PolynomIs
          <6>3. IsFiniteSet({}) /\ \A x \in {} : w[x] \in Int
            BY FS_EmptySet
          <6> HIDE DEF w
          <6>4. Sum(w, {}) = 0
            BY <6>1, <6>3, SumStep
          <6> QED
            BY <6>1, <6>2, <6>4 DEF w
        <5>2. \A l \in Int : 0 * l = 0
          OBVIOUS
        <5> QED
          BY <2>3, <2>4, <5>1, <5>2
      <4>2. \A j \in T : Same(u[j], 0 * L[j]) /\ L[j] \in Int
        <5>1. ASSUME NEW j \in T PROVE Same(u[j], 0 * L[j])
          <6>1. PICK x, l : x = j + 1 /\ l = L[j]
            OBVIOUS
          <6>2. x \in Int /\ l \in Int /\ u[j] = x * 0
            BY <2>2, <2>3, <2>6, <4>1, <6>1
          <6>3. x * 0 = 0 * l
            BY <6>2
          <6> QED
            BY <6>1, <6>2, <6>3, SameIs
        <5> QED
          BY <2>3, <5>1
      <4>3. Same(Sum(u, T), 0 * Sum(L, T))
        BY <1>1, <2>6, <4>2, SumTimes
      <4> QED
        BY <2>7, <3>1, <4>3
    <3>3. CASE n # 0
      <4>1. PICK s \in T : TRUE
        BY <2>1
      <4> DEFINE R == T \ {s}
                 W == Weighted(b, R)
                 g == [j \in T |-> (s + 1) * V[j]]
                 h == [j \in T |-> IF j = s THEN 0 ELSE (s + 1) * W[j]]
      <4>2. n - 1 \in Nat /\ (n - 1) + 1 = n /\ n - 1 \in A
        BY <1>1, <3>3
      <4>3. R \in SUBSET Points /\ IsFiniteSet(R) /\ Cardinality(R) >= n
        <5>1. IsFiniteSet(R) /\ Cardinality(R) \in Nat /\ Cardinality(T) = Cardinality(R) + 1
          BY <1>1, <4>1, Removed
        <5> QED
          BY <1>1, <5>1
      <4>4. Cardinality(T) \in Nat /\ Cardinality(T) >= n
        BY <1>1, FS_CardinalityType
      <4>5. Same(Sum(V, T), b[1]) /\ Same(Sum(W, R), b[1]) /\ b[1] \in Int
        <5>1. \A d \in [1..n -> Int], X \in SUBSET Points : IsFiniteSet(X) /\ Cardinality(X) >= n => Same(Sum(Weighted(d, X), X), d[1])
          BY <4>2
        <5>2. Same(Sum(Weighted(b, T), T), b[1]) /\ Same(Sum(Weighted(b, R), R), b[1])
          BY <1>1, <2>1, <4>3, <4>4, <5>1
        <5>3. 1 \in 1..n
          BY <4>2
        <5> QED
          BY <2>1, <5>2, <5>3 DEF V
      <4>6. \A j \in R : /\ W[j] = Keys!PolynomEval(j + 1, b) * Keys!Lagrange(R, j)
                         /\ W[j] \in Int /\ Keys!Lagrange(R, j) \in Int
        <5>1. \A j \in R : /\ W[j] = Keys!PolynomEval(j + 1, b) * Coefficients(R)[j] /\ W[j] \in Int
                           /\ Coefficients(R)[j] \in Int /\ Coefficients(R)[j] = Keys!Lagrange(R, j)
          <6> HIDE DEF R
          <6> QED
            BY <1>1, <2>1, <4>3, WeightedIs
        <5> QED
          BY <5>1, Zenon
      <4>7. Sum(W, R) \in Int
        BY <2>1, <4>3, WeightedIs
      <4>8. s + 1 \in Int /\ s \in Int /\ s \in Points
        BY <2>2
      <4>9. \A j \in T : g[j] \in Int /\ h[j] \in Int /\ g[j] = (s + 1) * V[j] /\ h[j] = IF j = s THEN 0 ELSE (s + 1) * W[j]
        <5> HIDE DEF W
        <5>1. \A j \in T : g[j] = (s + 1) * V[j] /\ h[j] = IF j = s THEN 0 ELSE (s + 1) * W[j]
          OBVIOUS
        <5>2. \A j \in T : (s + 1) * V[j] \in Int /\ (j # s => (s + 1) * W[j] \in Int)
          BY <2>4, <4>6, <4>8, SMTT(30)
        <5> HIDE DEF g, h
        <5> QED
          BY <5>1, <5>2
      <4> HIDE DEF W, g, h
      <4>10. ASSUME NEW j \in T PROVE Same(u[j], g[j] + (-1) * h[j])
        <5>1. CASE j = s
          <6>1. u[j] = g[j] /\ h[j] = 0 /\ g[j] \in Int
            BY <2>6, <4>9, <5>1
          <6>2. g[j] + (-1) * 0 = g[j]
            BY <6>1
          <6> QED
            BY <6>1, <6>2, SameIs
        <5>2. CASE j # s
          <6>1. j \in R /\ s \in T \ {j}
            BY <4>1, <5>2
          <6>2. PICK q, l, m, x, y : /\ q = Keys!PolynomEval(j + 1, b) /\ l = L[j] /\ m = Keys!Lagrange(R, j)
                                     /\ x = j + 1 /\ y = s + 1
            OBVIOUS
          <6>3. q \in Int /\ l \in Int /\ m \in Int /\ x \in Int /\ y \in Int /\ j - s = x - y /\ j - s \in Int
            <7>1. j \in Int /\ s \in Int
              BY <2>2
            <7>2. q \in Int /\ l \in Int /\ m \in Int
              BY <2>3, <2>4, <4>6, <6>1, <6>2
            <7> QED
              BY <6>2, <7>1, <7>2
          <6>4. Same((j - s) * l, (-(s + 1)) * m)
            BY <1>1, <2>3, <6>1, <6>2, LagrangeLess
          <6>5. PICK z, w : z = (x - y) * l /\ w = (-y) * m
            OBVIOUS
          <6>6. z \in Int /\ w \in Int /\ Same(z, w)
            <7>1. Same((x - y) * l, (-y) * m)
              BY <6>2, <6>3, <6>4, Zenon
            <7> QED
              BY <6>3, <6>5, <7>1
          <6>7. PICK v : v = y * (q * l)
            OBVIOUS
          <6>8. v \in Int /\ q * z \in Int /\ q * w \in Int /\ Same(q * z, q * w)
            BY <6>3, <6>6, <6>7, SameProduct
          <6>9. Same(v + q * z, v + q * w)
            <7>1. PICK z1, w1 : z1 = q * z /\ w1 = q * w
              OBVIOUS
            <7>2. z1 \in Int /\ w1 \in Int /\ Same(z1, w1)
              BY <6>8, <7>1
            <7>3. Same(v + z1, v + w1)
              BY <6>8, <7>2, SameProduct
            <7> QED
              BY <7>1, <7>3, Zenon
          <6>10. u[j] = x * (q * l) /\ g[j] = y * (q * l) /\ h[j] = y * (q * m)
            BY <2>4, <2>6, <4>6, <4>9, <5>2, <6>1, <6>2
          <6>11. v + q * z = x * (q * l) /\ v + q * w = y * (q * l) + (-1) * (y * (q * m))
            BY <6>3, <6>5, <6>7
          <6> QED
            BY <6>9, <6>10, <6>11, Zenon
        <5> QED
          BY <5>1, <5>2
      <4>11. Same(Sum(u, T), Sum(g, T) + (-1) * Sum(h, T))
        BY <1>1, <2>6, <4>9, <4>10, SumLinear
      <4>12. Same(Sum(g, T), (s + 1) * Sum(V, T))
        BY <1>1, <2>4, <4>8, <4>9, SameIs, SumTimes, ZenonT(60)
      <4>13. Same(Sum(h, T), (s + 1) * Sum(W, R))
        <5>1. \A j \in T \ {s} : h[j] \in Int /\ W[j] \in Int /\ Same(h[j], (s + 1) * W[j])
          BY <4>6, <4>9, SameIs
        <5> QED
          BY <1>1, <4>1, <4>8, <4>9, <5>1, SumWithout
      <4>14. PICK p, q, x, y, z, e, r : /\ p = Sum(g, T) /\ q = Sum(h, T) /\ x = s + 1 /\ y = Sum(V, T)
                                        /\ z = Sum(W, R) /\ e = b[1] /\ r = Sum(u, T)
        OBVIOUS
      <4>15. p \in Int /\ q \in Int /\ x \in Int /\ y \in Int /\ z \in Int /\ e \in Int /\ r \in Int
        BY <1>1, <2>4, <3>1, <4>5, <4>7, <4>8, <4>9, <4>14, SumOfWhole
      <4>16. Same(r, p + (-1) * q) /\ Same(p, x * y) /\ Same(q, x * z) /\ Same(y, e) /\ Same(z, e)
        BY <4>5, <4>11, <4>12, <4>13, <4>14
      <4>17. Same(x * y, x * e) /\ Same(x * z, x * e)
        BY <4>15, <4>16, SameProduct
      <4>18. PICK xe : xe = x * e
        OBVIOUS
      <4>19. xe \in Int /\ Same(p, xe) /\ Same(q, xe)
        BY <4>15, <4>16, <4>17, <4>18, SameIs
      <4>20. Same(p - q, xe - xe)
        BY <4>15, <4>19, SameSums
      <4>21. p + (-1) * q = p - q /\ xe - xe = 0
        BY <4>15, <4>19
      <4> QED
        BY <3>1, <4>14, <4>16, <4>20, <4>21, SameIs
    <3> QED
      BY <3>2, <3>3
  <2>11. PICK w, z, d : w = Sum(Weighted(c, T), T) /\ z = Sum(u, T) /\ d = c[1]
    OBVIOUS
  <2>12. z \in Int /\ d \in Int /\ Same(z, 0) /\ Same(w, z + d * 1) /\ d * 1 = d /\ 0 + d = d
    BY <2>1, <2>9, <2>10, <2>11
  <2>13. Same(z + d, 0 + d)
    BY <2>12, SameProduct
  <2>14. Same(w, d)
    BY <2>12, <2>13, SameIs
  <2> QED
    BY <2>11, <2>14
<1>2. 0 \in A
  BY <1>1
<1>3. ASSUME NEW n \in Nat, n \in A PROVE n + 1 \in A
  <2>1. n + 1 \in Nat /\ (n + 1) - 1 = n
    OBVIOUS
  <2> HIDE DEF holds
  <2>2. ASSUME NEW c \in [1..((n + 1) + 1) -> Int], NEW T \in SUBSET Points, IsFiniteSet(T), Cardinality(T) >= (n + 1) + 1
        PROVE  holds(n + 1, c, T)
    BY <1>1, <1>3, <2>1, <2>2
  <2> QED
    BY <2>1, <2>2
<1> HIDE DEF A
<1>4. \A n \in Nat : n \in A
  BY <1>2, <1>3, Induction
<1>5. k - 1 \in A /\ (k - 1) + 1 = k
  BY <1>4
<1> QED
  BY <1>5 DEF A
-----------------------------------------------------------------------------
\* Signatures

\* k shares of a signature, and the players they are of.
Quorum(k, a, S) == /\ k \in Nat \ {0} /\ a \in [1..k -> Keys!Field]
                   /\ S \in SUBSET Points /\ IsFiniteSet(S) /\ Cardinality(S) = k

LEMMA QuorumIs ==
  ASSUME NEW k, NEW a, NEW S, Quorum(k, a, S)
  PROVE  /\ a \in [1..k -> Int] /\ a[1] \in Keys!Field /\ a[1] \in Int /\ Len(a) = k
         /\ \A j \in S : Keys!SK(a, j) \in Keys!Field /\ Keys!SK(a, j) \in Int /\ Keys!SK(a, j) = Keys!PolynomEval(j + 1, a)
         /\ \A j \in S : Keys!Lagrange(S, j) \in Int /\ ~Same(Keys!Lagrange(S, j), 0)
<1>1. k \in Nat \ {0} /\ a \in [1..k -> Keys!Field] /\ S \in SUBSET Points /\ IsFiniteSet(S)
  BY DEF Quorum
<1>2. a \in [1..k -> Int] /\ a[1] \in Keys!Field /\ a[1] \in Int /\ Len(a) = k
  BY <1>1, Field
<1>3. ASSUME NEW j \in S PROVE Keys!PolynomEval(j + 1, a) \in Keys!Field /\ Keys!PolynomEval(j + 1, a) \in Int
  <2>1. j + 1 \in Int
    BY <1>1, Differences
  <2> QED
    BY <1>1, <1>2, <2>1, PolynomIs
<1>4. \A j \in S : Keys!Lagrange(S, j) \in Int /\ ~Same(Keys!Lagrange(S, j), 0)
  BY <1>1, LagrangeBy
<1> QED
  BY <1>2, <1>3, <1>4 DEF Keys!SK

\* Combining is a sum over the players.
Combined(sigs, S) == [j \in S |-> sigs[j] * Keys!Lagrange(S, j)]

LEMMA CombineIs ==
  ASSUME NEW k, NEW a, NEW S, Quorum(k, a, S), NEW sigs, DOMAIN sigs = S, \A j \in S : sigs[j] \in Int
  PROVE  /\ Keys!CombineShares(sigs) = Sum(Combined(sigs, S), S)
         /\ \A j \in S : Combined(sigs, S)[j] = sigs[j] * Keys!Lagrange(S, j) /\ Combined(sigs, S)[j] \in Int
         /\ Keys!CombineShares(sigs) \in Keys!Field /\ Keys!CombineShares(sigs) \in Int
<1> DEFINE value(D) == Keys!SumOf([j \in D |-> sigs[j] * Keys!Lagrange(D, j)])
<1>1. Keys!CombineShares(sigs) = value(DOMAIN sigs)
  BY Zenon DEF Keys!CombineShares
<1>2. [j \in S |-> Combined(sigs, S)[j]] = [j \in S |-> sigs[j] * Keys!Lagrange(S, j)]
  BY DEF Combined
<1>3. value(S) = Sum(Combined(sigs, S), S)
  BY <1>2, Zenon DEF Sum
<1> HIDE DEF value
<1>4. value(DOMAIN sigs) = value(S)
  BY Zenon
<1>5. \A j \in S : Combined(sigs, S)[j] = sigs[j] * Keys!Lagrange(S, j) /\ Combined(sigs, S)[j] \in Int
  BY QuorumIs DEF Combined
<1>6. IsFiniteSet(S)
  BY DEF Quorum
<1> QED
  BY <1>1, <1>3, <1>4, <1>5, <1>6, SumOfWhole

LEMMA SharesCombine ==
  ASSUME NEW k, NEW a, NEW S, Quorum(k, a, S), NEW h \in Int, NEW sigs, DOMAIN sigs = S,
         \A j \in S : sigs[j] \in Int /\ Same(sigs[j], h * Keys!SK(a, j))
  PROVE  Same(Keys!CombineShares(sigs), h * a[1])
<1> DEFINE f == Combined(sigs, S)
           g == Weighted(a, S)
<1>1. k \in Nat \ {0} /\ a \in [1..k -> Int] /\ S \in SUBSET Points /\ IsFiniteSet(S) /\ Cardinality(S) >= k /\ a[1] \in Int
  BY QuorumIs DEF Quorum
<1>2. Keys!CombineShares(sigs) = Sum(f, S) /\ \A j \in S : f[j] = sigs[j] * Keys!Lagrange(S, j) /\ f[j] \in Int
  BY CombineIs
<1>3. /\ \A j \in S : g[j] = Keys!PolynomEval(j + 1, a) * Keys!Lagrange(S, j) /\ g[j] \in Int
      /\ Sum(g, S) \in Int
  <2>1. /\ \A j \in S : /\ g[j] = Keys!PolynomEval(j + 1, a) * Coefficients(S)[j] /\ g[j] \in Int
                        /\ Coefficients(S)[j] = Keys!Lagrange(S, j)
        /\ Sum(g, S) \in Int
    BY <1>1, WeightedIs
  <2> QED
    BY <2>1, Zenon
<1> HIDE DEF f, g
<1>4. \A j \in S : Same(f[j], h * g[j])
  <2>1. ASSUME NEW j \in S PROVE Same(f[j], h * g[j])
    <3>1. PICK s, p, l, y : s = sigs[j] /\ p = Keys!PolynomEval(j + 1, a) /\ l = Keys!Lagrange(S, j) /\ y = h * p
      OBVIOUS
    <3>2. s \in Int /\ p \in Int /\ l \in Int /\ y \in Int /\ Same(s, y)
      BY <3>1, QuorumIs
    <3>3. Same(s * l, y * l) /\ y * l = h * (p * l)
      BY <3>1, <3>2, SameProduct
    <3> QED
      BY <1>2, <1>3, <3>1, <3>3, Zenon
  <2> QED
    BY <2>1
<1>5. Same(Sum(f, S), h * Sum(g, S))
  BY <1>1, <1>2, <1>3, <1>4, SumTimes
<1>6. Same(Sum(g, S), a[1])
  BY <1>1, Interpolated DEF g
<1>7. Same(h * Sum(g, S), h * a[1])
  BY <1>1, <1>3, <1>6, SameProduct
<1> QED
  BY <1>2, <1>5, <1>7, SameIs

\* A pairing with the generator.
LEMMA PairOne ==
  ASSUME NEW x \in Int
  PROVE  Keys!Pair(x, 1) = x % Q
<1>1. x * 1 = x
  OBVIOUS
<1> QED
  BY <1>1, Zenon DEF Keys!Pair

\* Any k valid shares combine into the one group element that
\* verify_signature accepts, whoever they are from (combine_shares and
\* verify_signature of boldyreva.py).
THEOREM AnyQuorumSigns ==
  ASSUME NEW k, NEW a, NEW S, Quorum(k, a, S), NEW h \in 1..(Q - 1)
  PROVE  LET sigs == [i \in S |-> Keys!Sign(a, i, h)] IN
         /\ \A i \in S : Keys!VerifyShare(a, sigs[i], i, h)
         /\ \A sig \in Keys!Field : Keys!VerifySignature(a, sig, h) <=> sig = Keys!CombineShares(sigs)
<1> DEFINE sigs == [i \in S |-> Keys!Sign(a, i, h)]
<1>1. h \in Int
  BY Field
<1>2. \A i \in S : /\ sigs[i] \in Keys!Field /\ sigs[i] \in Int /\ Same(sigs[i], h * Keys!SK(a, i))
                   /\ Keys!Pair(sigs[i], 1) = (h * Keys!SK(a, i)) % Q
  <2>1. ASSUME NEW i \in S
        PROVE  /\ sigs[i] \in Keys!Field /\ sigs[i] \in Int /\ Same(sigs[i], h * Keys!SK(a, i))
               /\ Keys!Pair(sigs[i], 1) = (h * Keys!SK(a, i)) % Q
    <3>1. PICK x : x = h * Keys!SK(a, i)
      OBVIOUS
    <3>2. x \in Int
      BY <1>1, <3>1, QuorumIs
    <3>3. sigs[i] = x % Q
      BY <3>1, Zenon DEF Keys!Sign
    <3>4. sigs[i] \in Keys!Field /\ sigs[i] \in Int /\ Same(sigs[i], x) /\ sigs[i] % Q = sigs[i]
      <4>1. x % Q \in Keys!Field /\ x % Q \in Int /\ Same(x % Q, x)
        BY <3>2, Residue
      <4>2. (x % Q) % Q = x % Q
        BY <4>1, Residue
      <4> QED
        BY <3>3, <4>1, <4>2, Zenon
    <3>5. Keys!Pair(sigs[i], 1) = sigs[i] % Q
      BY <3>4, PairOne
    <3> QED
      BY <3>1, <3>3, <3>4, <3>5, Zenon
  <2> QED
    BY <2>1
<1>3. DOMAIN sigs = S
  OBVIOUS
<1> HIDE DEF sigs
<1>4. \A i \in S : Keys!VerifyShare(a, sigs[i], i, h)
  BY <1>2, Zenon DEF Keys!VerifyShare, Keys!VKs, Keys!Pair
<1>5. PICK c : c = Keys!CombineShares(sigs)
  OBVIOUS
<1>6. c \in Keys!Field /\ c \in Int /\ Same(c, h * a[1])
  BY <1>1, <1>2, <1>3, <1>5, CombineIs, SharesCombine
<1>7. ASSUME NEW sig \in Keys!Field PROVE Keys!VerifySignature(a, sig, h) <=> sig = c
  <2>1. sig \in Int
    BY Field
  <2>2. Keys!VerifySignature(a, sig, h) <=> Same(sig, h * a[1])
    BY <2>1, PairOne, Zenon DEF Keys!VerifySignature, Keys!VK, Same, Keys!Pair
  <2>3. Same(sig, h * a[1]) <=> Same(sig, c)
    BY <1>6, SameIs
  <2>4. Same(sig, c) <=> sig = c
    BY <1>6, SameIs, SameInField
  <2> QED
    BY <2>2, <2>3, <2>4
<1> QED
  BY <1>4, <1>5, <1>7, Zenon DEF sigs

\* If one of k shares is replaced by anything else, what is combined verifies
\* if and only if verify_share accepts the replacement: a worker process that
\* checks the result only (boldyreva_gipc.py) answers combine_and_verify just
\* when a check of every share would pass.
THEOREM WrongShareNoticed ==
  ASSUME NEW k, NEW a, NEW S, Quorum(k, a, S), NEW i \in S, NEW wrong \in Keys!Field
  PROVE  LET sigs == [j \in S |-> IF j = i THEN wrong ELSE Keys!Sign(a, j, 1)] IN
         Keys!CombineAndVerify(a, 1, sigs) # {} <=> Keys!VerifyShare(a, wrong, i, 1)
<1> DEFINE sigs == [j \in S |-> IF j = i THEN wrong ELSE Keys!Sign(a, j, 1)]
           good == [j \in S |-> Keys!SK(a, j)]
           f == Combined(sigs, S)
           g == Combined(good, S)
<1>1. wrong \in Int /\ 1 \in Int /\ IsFiniteSet(S) /\ Cardinality(S) = Len(a) /\ a[1] \in Int
  BY Field, QuorumIs DEF Quorum
<1>2. \A j \in S : Keys!SK(a, j) \in Keys!Field /\ Keys!SK(a, j) \in Int /\ Keys!Lagrange(S, j) \in Int /\ ~Same(Keys!Lagrange(S, j), 0)
  BY QuorumIs
<1>3. \A j \in S : Keys!Sign(a, j, 1) = Keys!SK(a, j)
  <2>1. ASSUME NEW j \in S PROVE Keys!Sign(a, j, 1) = Keys!SK(a, j)
    <3>1. 1 * Keys!SK(a, j) = Keys!SK(a, j) /\ Keys!SK(a, j) % Q = Keys!SK(a, j)
      BY <1>2, Residue
    <3> QED
      BY <3>1, Zenon DEF Keys!Sign
  <2> QED
    BY <2>1
<1>4. /\ DOMAIN sigs = S /\ DOMAIN good = S /\ sigs[i] = wrong /\ good[i] = Keys!SK(a, i)
      /\ \A j \in S : sigs[j] \in Int /\ good[j] \in Int /\ good[j] = Keys!SK(a, j)
      /\ \A j \in S \ {i} : sigs[j] = good[j]
  BY <1>1, <1>2, <1>3
<1> HIDE DEF sigs, good
<1>5. Keys!CombineShares(sigs) = Sum(f, S) /\ \A j \in S : f[j] = sigs[j] * Keys!Lagrange(S, j) /\ f[j] \in Int
  BY <1>4, CombineIs
<1>6. Keys!CombineShares(good) = Sum(g, S) /\ \A j \in S : g[j] = good[j] * Keys!Lagrange(S, j) /\ g[j] \in Int
  BY <1>4, CombineIs
<1>7. Same(Sum(g, S), a[1])
  <2>1. \A j \in S : good[j] \in Int /\ Same(good[j], 1 * Keys!SK(a, j))
    <3>1. \A x \in Int : 1 * x = x
      OBVIOUS
    <3> QED
      BY <1>2, <1>4, <3>1, SameIs
  <2>2. Same(Keys!CombineShares(good), 1 * a[1]) /\ 1 * a[1] = a[1]
    <3>1. 1 \in Int /\ DOMAIN good = S
      BY <1>4, SMT
    <3>2. Same(Keys!CombineShares(good), 1 * a[1])
      BY <2>1, <3>1, SharesCombine, ZenonT(60)
    <3>3. 1 * a[1] = a[1]
      BY <1>1, SMT
    <3> QED
      BY <3>2, <3>3, Zenon
  <2> QED
    BY <1>6, <2>2
<1> HIDE DEF f, g
<1>8. PICK u, v, w, x, y, s, l : /\ u = Sum(f, S) /\ v = Sum(g, S) /\ w = Sum(g, S \ {i})
                                 /\ x = f[i] /\ y = g[i] /\ s = Keys!SK(a, i) /\ l = Keys!Lagrange(S, i)
  OBVIOUS
<1>9. /\ u \in Int /\ v \in Int /\ w \in Int /\ x \in Int /\ y \in Int /\ Same(u, x + w) /\ Same(v, y + w)
      /\ Same(v, a[1])
  <2>1. S \in SUBSET S /\ S \ {i} \in SUBSET S /\ IsFiniteSet(S \ {i})
    BY <1>1, FS_Subset
  <2>2. Sum(f, S \ {i}) = Sum(g, S \ {i})
    <3>1. \A j \in S \ {i} : f[j] \in Int /\ g[j] \in Int /\ Same(f[j], g[j])
      BY <1>4, <1>5, <1>6, SameIs
    <3> QED
      BY <2>1, <3>1, SumSame
  <2>3. u \in Int /\ Same(u, x + Sum(f, S \ {i})) /\ Sum(f, S \ {i}) \in Int
    BY <1>1, <1>5, <1>8, <2>1, SumStep
  <2>4. v \in Int /\ Same(v, y + Sum(g, S \ {i}))
    BY <1>1, <1>6, <1>8, <2>1, SumStep
  <2> QED
    BY <1>5, <1>6, <1>7, <1>8, <2>2, <2>3, <2>4
<1>10. s \in Int /\ l \in Int /\ ~Same(l, 0) /\ x = l * wrong /\ y = l * s
  <2>1. x = wrong * l /\ y = s * l
    BY <1>4, <1>5, <1>6, <1>8
  <2> QED
    BY <1>1, <1>2, <1>8, <2>1
<1>11. Same(u, a[1]) <=> Same(wrong, s)
  <2>1. ASSUME Same(u, a[1]) PROVE Same(wrong, s)
    <3>1. PICK p, q : p = x + w /\ q = y + w
      OBVIOUS
    <3>2. p \in Int /\ q \in Int /\ Same(p, q)
      BY <1>9, <2>1, <3>1, SameIs
    <3>3. Same(p - w, q - w)
      BY <1>9, <3>2, SameProduct
    <3>4. p - w = x /\ q - w = y
      BY <1>9, <3>1
    <3>5. Same(l * wrong, l * s)
      BY <1>10, <3>3, <3>4, Zenon
    <3> QED
      BY <1>1, <1>10, <3>5, Cancelled
  <2>2. ASSUME Same(wrong, s) PROVE Same(u, a[1])
    <3>1. Same(x, y)
      BY <1>1, <1>10, <2>2, SameProduct
    <3>2. Same(x + w, y + w)
      BY <1>9, <3>1, SameProduct
    <3> QED
      BY <1>9, <3>2, SameIs
  <2> QED
    BY <2>1, <2>2
<1>12. Keys!VerifyShare(a, wrong, i, 1) <=> Same(wrong, s)
  <2>1. Keys!Pair(wrong, 1) = wrong % Q /\ 1 * s = s
    BY <1>1, <1>10, PairOne
  <2> QED
    BY <1>8, <2>1, Zenon DEF Keys!VerifyShare, Keys!VKs, Keys!Pair, Same
<1>13. Keys!CombineAndVerify(a, 1, sigs) # {} <=> Same(u, a[1])
  <2>1. Keys!Pair(u, 1) = u % Q /\ 1 * a[1] = a[1]
    BY <1>1, <1>9, PairOne
  <2>2. Keys!Cardinality(DOMAIN sigs) = Cardinality(S)
    BY <1>4, Zenon DEF Keys!Cardinality, Cardinality, Keys!IsFiniteSet, IsFiniteSet
  <2>3. Keys!VerifySignature(a, u, 1) <=> Same(u, a[1])
    BY <2>1, Zenon DEF Keys!VerifySignature, Keys!VK, Keys!Pair, Same
  <2>4. Keys!Worker(a, 1, sigs) # {} <=> Keys!VerifySignature(a, u, 1)
    BY <1>5, <1>8, Zenon DEF Keys!Worker
  <2>5. Keys!CombineAndVerify(a, 1, sigs) = Keys!Worker(a, 1, sigs)
    BY <1>1, <1>4, <2>2, Zenon DEF Keys!CombineAndVerify
  <2> QED
    BY <2>3, <2>4, <2>5, Zenon
<1> QED
  BY <1>11, <1>12, <1>13, Zenon DEF sigs

\* Coefficients that are 0 do not count.
LEMMA ZeroAppended ==
  ASSUME NEW k \in Nat, NEW z \in [1..k -> Int], NEW x \in Int,
         NEW y \in [1..(k + 1) -> Int], y[k + 1] = 0, \A i \in 1..k : y[i] = z[i]
  PROVE  Keys!PolynomEval(x, y) = Keys!PolynomEval(x, z)
<1> DEFINE f == Terms(y, x, k + 1)
           g == Terms(z, x, k)
<1>1. k + 1 \in Nat /\ IsFiniteSet(1..(k + 1)) /\ IsFiniteSet(1..k)
  BY FS_Interval
<1>2. /\ Keys!PolynomEval(x, y) = Sum(f, 1..(k + 1)) /\ Keys!PolynomEval(x, y) \in Keys!Field
      /\ \A i \in 1..(k + 1) : f[i] \in Int /\ f[i] = y[i] * Powers(x, k + 1)[i]
  BY <1>1, PolynomIs
<1>3. /\ Keys!PolynomEval(x, z) = Sum(g, 1..k) /\ Keys!PolynomEval(x, z) \in Keys!Field
      /\ \A i \in 1..k : g[i] \in Int /\ g[i] = z[i] * Powers(x, k)[i]
  BY PolynomIs
<1>4. f[k + 1] = 0
  <2>1. k + 1 \in 1..(k + 1) /\ Powers(x, k + 1)[k + 1] \in Int
    BY <1>1, PowersAre
  <2>2. \A p \in Int : 0 * p = 0
    OBVIOUS
  <2> QED
    BY <1>2, <2>1, <2>2
<1>5. \A i \in 1..k : f[i] = g[i]
  <2>1. ASSUME NEW i \in 1..k PROVE f[i] = g[i]
    <3>1. i \in 1..(k + 1) /\ Powers(x, k + 1)[i] = Powers(x, k)[i] /\ y[i] = z[i]
      BY PowersShorter
    <3> QED
      BY <1>2, <1>3, <3>1, Zenon
  <2> QED
    BY <2>1
<1> HIDE DEF f, g
<1>6. (1..(k + 1)) \ {k + 1} = 1..k /\ k + 1 \in 1..(k + 1) /\ 1..k \in SUBSET (1..(k + 1)) /\ 1..(k + 1) \in SUBSET (1..(k + 1))
  OBVIOUS
<1>7. Same(Sum(f, 1..(k + 1)), f[k + 1] + Sum(f, 1..k)) /\ Sum(f, 1..k) \in Int
  <2>1. PICK S, T, s : S = 1..(k + 1) /\ T = 1..k /\ s = k + 1
    OBVIOUS
  <2>2. S \in SUBSET S /\ T \in SUBSET S /\ s \in S /\ S \ {s} = T /\ IsFiniteSet(S) /\ \A t \in S : f[t] \in Int
    BY <1>1, <1>2, <1>6, <2>1
  <2>3. Same(Sum(f, S), f[s] + Sum(f, S \ {s})) /\ Sum(f, T) \in Int
    BY <2>2, SumStep
  <2> QED
    BY <2>1, <2>2, <2>3, Zenon
<1>8. 0 + Sum(f, 1..k) = Sum(f, 1..k)
  BY <1>7
<1>9. Sum(f, 1..k) = Sum(g, 1..k)
  <2>1. \A i \in 1..k : f[i] \in Int /\ g[i] \in Int /\ Same(f[i], g[i])
    BY <1>2, <1>3, <1>5, <1>6, SameIs
  <2> QED
    BY <1>1, <2>1, SumSame
<1>10. Same(Keys!PolynomEval(x, y), Keys!PolynomEval(x, z))
  BY <1>2, <1>3, <1>4, <1>7, <1>8, <1>9
<1> QED
  BY <1>2, <1>3, <1>10, SameInField

\* A polynomial that is 0 at the points of some players, but not at 0.
Vanishes(z, T) ==
  /\ z \in [1..(Cardinality(T) + 1) -> Int] /\ ~Same(z[1], 0)
  /\ \A j \in T : Same(Keys!PolynomEval(j + 1, z), 0)

LEMMA Vanishing ==
  ASSUME NEW S \in SUBSET Points, IsFiniteSet(S)
  PROVE  \E z : Vanishes(z, S)
<1> DEFINE G == {T \in SUBSET S : \E z : Vanishes(z, T)}
<1>1. {} \in G
  <2> DEFINE z == [i \in 1..1 |-> 1]
  <2>1. 1 \in Keys!Field /\ 0 \in Keys!Field /\ 1 # 0
    BY Field
  <2>2. ~Same(1, 0)
    BY <2>1, SameInField
  <2>3. Cardinality({}) + 1 = 1 /\ z \in [1..1 -> Int] /\ z[1] = 1
    BY FS_EmptySet
  <2>4. Vanishes(z, {})
    BY <2>2, <2>3 DEF Vanishes
  <2> QED
    BY <2>4
<1>2. ASSUME NEW T \in SUBSET S, T # {}, \A x \in T : T \ {x} \in G PROVE T \in G
  <2>1. PICK t \in T : TRUE
    BY <1>2
  <2> DEFINE R == T \ {t}
             n == Cardinality(R)
  <2>2. IsFiniteSet(R) /\ n \in Nat /\ Cardinality(T) = n + 1
    <3>1. IsFiniteSet(T)
      BY FS_Subset
    <3> QED
      BY <2>1, <3>1, Removed
  <2>3. PICK z : Vanishes(z, R)
    BY <1>2, <2>1
  <2> HIDE DEF n
  <2>4. z \in [1..(n + 1) -> Int] /\ ~Same(z[1], 0) /\ z[1] \in Int /\ \A j \in R : Same(Keys!PolynomEval(j + 1, z), 0)
    <3>1. z \in [1..(n + 1) -> Int] /\ ~Same(z[1], 0) /\ \A j \in R : Same(Keys!PolynomEval(j + 1, z), 0)
      BY <2>3, Zenon DEF Vanishes, n
    <3>2. 1 \in 1..(n + 1)
      BY <2>2
    <3> QED
      BY <3>1, <3>2
  <2> DEFINE up == [i \in 1..((n + 1) + 1) |-> IF i = 1 THEN 0 ELSE z[i - 1]]
             flat == [i \in 1..((n + 1) + 1) |-> IF i <= n + 1 THEN z[i] ELSE 0]
             y == [i \in 1..((n + 1) + 1) |-> up[i] + (-(t + 1)) * flat[i]]
  <2>5. n + 1 \in Nat /\ (n + 1) + 1 \in Nat /\ t \in Int /\ -(t + 1) \in Int /\ \A j \in T : j \in Int /\ j + 1 \in Int
    BY <2>2, Differences
  <2>6. up \in [1..((n + 1) + 1) -> Int] /\ flat \in [1..((n + 1) + 1) -> Int]
    BY <2>2, <2>4
  <2>7. Lower(up, n + 1) = z /\ up[1] = 0 /\ flat[(n + 1) + 1] = 0 /\ flat[1] = z[1] /\ \A i \in 1..(n + 1) : flat[i] = z[i]
    <3>1. \A i \in 1..(n + 1) : up[i + 1] = z[i]
      BY <2>2
    <3>2. Lower(up, n + 1) = [i \in 1..(n + 1) |-> z[i]]
      BY <3>1 DEF Lower
    <3>3. z = [i \in 1..(n + 1) |-> z[i]]
      BY <2>4
    <3>4. up[1] = 0 /\ flat[(n + 1) + 1] = 0 /\ flat[1] = z[1]
      BY <2>2
    <3>5. \A i \in 1..(n + 1) : flat[i] = z[i]
      BY <2>2
    <3> HIDE DEF up, flat
    <3> QED
      BY <3>2, <3>3, <3>4, <3>5
  <2> HIDE DEF up, flat
  <2>8. /\ y \in [1..((n + 1) + 1) -> Int]
        /\ \A i \in 1..((n + 1) + 1) : y[i] = up[i] + (-(t + 1)) * flat[i]
    BY <2>5, <2>6
  <2> HIDE DEF y
  <2>9. ASSUME NEW j \in T PROVE Same(Keys!PolynomEval(j + 1, y), 0)
    <3>1. PICK x, u, v, w, p, c : /\ x = j + 1 /\ c = -(t + 1) /\ u = Keys!PolynomEval(x, up) /\ v = Keys!PolynomEval(x, flat)
                                  /\ w = Keys!PolynomEval(x, z) /\ p = Keys!PolynomEval(x, y)
      OBVIOUS
    <3>2. x \in Int /\ c \in Int
      BY <2>5, <3>1
    <3>3. u \in Int /\ v \in Int /\ w \in Int /\ p \in Int
      BY <2>4, <2>5, <2>6, <2>8, <3>1, <3>2, PolynomIs
    <3>4. Same(u, 0 + x * w)
      BY <2>5, <2>6, <2>7, <3>1, <3>2, Horner
    <3>5. v = w
      BY <2>4, <2>5, <2>6, <2>7, <3>1, <3>2, ZeroAppended
    <3>6. \A i \in 1..((n + 1) + 1) : Same(y[i], up[i] + c * flat[i])
      BY <2>8, <3>1, SameIs
    <3>7. Same(p, u + c * v)
      BY <2>5, <2>6, <2>8, <3>1, <3>2, <3>6, PolynomLinear
    <3>8. PICK d, e : d = x * w /\ e = c * w
      OBVIOUS
    <3>9. d \in Int /\ e \in Int /\ Same(u, d) /\ Same(p, u + e)
      <4>1. d \in Int /\ e \in Int /\ 0 + d = d
        BY <3>2, <3>3, <3>8
      <4> QED
        BY <3>4, <3>5, <3>7, <3>8, <4>1
    <3>10. Same(u + e, d + e)
      BY <3>3, <3>9, SameProduct
    <3>11. PICK f : f = j - t
      OBVIOUS
    <3>12. f \in Int /\ d + e = f * w
      <4>1. f \in Int /\ x + c = f
        BY <2>5, <3>1, <3>11
      <4> QED
        BY <3>2, <3>3, <3>8, <4>1
    <3>13. Same(f * w, 0)
      <4>1. CASE j = t
        <5>1. f = 0
          BY <2>5, <3>11, <4>1
        <5>2. 0 * w = 0
          BY <3>3
        <5> QED
          BY <5>1, <5>2, SameIs
      <4>2. CASE j # t
        <5>1. Same(w, 0) /\ f * 0 = 0 /\ 0 \in Int
          BY <2>4, <3>1, <3>12, <4>2
        <5>2. Same(f * w, f * 0)
          BY <3>3, <3>12, <5>1, SameProduct
        <5> QED
          BY <5>1, <5>2
      <4> QED
        BY <4>1, <4>2
    <3>14. Same(p, 0)
      BY <3>9, <3>10, <3>12, <3>13, SameIs
    <3> QED
      BY <3>1, <3>14
  <2>10. ~Same(y[1], 0)
    <3>1. PICK c, d : c = -(t + 1) /\ d = z[1]
      OBVIOUS
    <3>2. 1 \in 1..((n + 1) + 1)
      BY <2>5
    <3>3. c \in Int /\ d \in Int /\ y[1] = c * d
      <4>1. y[1] = 0 + c * d
        BY <2>7, <2>8, <3>1, <3>2
      <4> QED
        BY <2>4, <2>5, <3>1, <4>1
    <3>4. ~Same(c, 0)
      <4>1. t \in Points
        OBVIOUS
      <4> QED
        BY <3>1, <4>1, Differences, SameIs
    <3> QED
      BY <2>4, <3>1, <3>3, <3>4, Cancelled
  <2>11. Vanishes(y, T)
    BY <2>2, <2>8, <2>9, <2>10 DEF Vanishes
  <2> QED
    BY <2>11
<1> HIDE DEF G
<1>3. \A T \in SUBSET S : T \in G
  BY <1>1, <1>2, SubsetInduction
<1>4. S \in SUBSET S
  OBVIOUS
<1> QED
  BY <1>3, <1>4 DEF G

\* k - 1 shares of dealer go with every secret: for each there is another
\* polynomial of the same degree that gives these players the same shares.
THEOREM FewSharesHide ==
  ASSUME NEW k, NEW a, NEW S, Quorum(k, a, S), NEW i \in S, NEW secret \in Keys!Field
  PROVE  \E b \in [DOMAIN a -> Keys!Field] :
           b[1] = secret /\ \A j \in S \ {i} : Keys!SK(b, j) = Keys!SK(a, j)
<1> DEFINE T == S \ {i}
<1>1. k \in Nat \ {0} /\ a \in [1..k -> Int] /\ DOMAIN a = 1..k /\ a[1] \in Int /\ 1 \in 1..k /\ secret \in Int
  BY QuorumIs, Field DEF Quorum
<1>2. T \in SUBSET Points /\ IsFiniteSet(T) /\ Cardinality(T) + 1 = k
  <2>1. IsFiniteSet(S) /\ Cardinality(S) = k /\ S \in SUBSET Points
    BY DEF Quorum
  <2>2. IsFiniteSet(T) /\ Cardinality(T) \in Nat /\ Cardinality(S) = Cardinality(T) + 1
    BY <2>1, Removed
  <2> QED
    BY <2>1, <2>2
<1>3. PICK z : Vanishes(z, T)
  BY <1>2, Vanishing
<1>4. z \in [1..k -> Int] /\ z[1] \in Int /\ ~Same(z[1], 0) /\ \A j \in T : Same(Keys!PolynomEval(j + 1, z), 0)
  BY <1>1, <1>2, <1>3 DEF Vanishes
<1>5. PICK r \in Int : Same(z[1] * r, 1)
  BY <1>4, ReciprocalIs, Field
<1>6. PICK c : c = (secret - a[1]) * r
  OBVIOUS
<1>7. c \in Int
  BY <1>1, <1>6
<1> DEFINE b == [m \in 1..k |-> (a[m] + c * z[m]) % Q]
<1>8. ASSUME NEW m \in 1..k PROVE b[m] \in Keys!Field /\ b[m] \in Int /\ Same(b[m], a[m] + c * z[m])
  <2>1. PICK x : x = a[m] + c * z[m]
    OBVIOUS
  <2>2. x \in Int
    <3>1. a[m] \in Int /\ z[m] \in Int
      BY <1>1, <1>4
    <3> QED
      BY <1>7, <2>1, <3>1
  <2>3. b[m] = x % Q
    BY <2>1
  <2>4. x % Q \in Keys!Field /\ x % Q \in Int /\ Same(x % Q, x)
    BY <2>2, Residue
  <2> HIDE DEF b
  <2> QED
    BY <2>1, <2>3, <2>4, Zenon
<1>9. b \in [1..k -> Int] /\ b \in [DOMAIN a -> Keys!Field]
  <2>1. DOMAIN b = 1..k /\ b = [m \in 1..k |-> b[m]]
    OBVIOUS
  <2> HIDE DEF b
  <2> QED
    BY <1>1, <1>8, <2>1
<1> HIDE DEF b
<1>10. b[1] = secret
  <2>1. PICK d, e : d = a[1] /\ e = z[1]
    OBVIOUS
  <2>2. d \in Int /\ e \in Int /\ b[1] \in Keys!Field /\ Same(b[1], d + c * e)
    BY <1>1, <1>4, <1>8, <2>1
  <2>3. PICK x, y : x = e * r /\ y = secret - d
    OBVIOUS
  <2>4. x \in Int /\ y \in Int /\ Same(x, 1) /\ c * e = y * x /\ y * 1 = y /\ d + y = secret /\ 1 \in Int
    <3>1. x \in Int /\ y \in Int /\ d + y = secret /\ c = y * r
      <4>1. c = y * r
        BY <1>6, <2>1, <2>3, Zenon
      <4> QED
        BY <1>1, <2>2, <2>3, <4>1
    <3>2. c * e = y * x
      BY <1>7, <2>2, <2>3, <3>1
    <3>3. Same(x, 1)
      BY <1>5, <2>1, <2>3
    <3> QED
      BY <3>1, <3>2, <3>3
  <2>5. Same(y * x, y)
    <3>1. Same(y * x, y * 1)
      BY <2>4, SameProduct
    <3> QED
      BY <2>4, <3>1
  <2>6. PICK w : w = y * x
    OBVIOUS
  <2>7. w \in Int /\ Same(w, y) /\ Same(b[1], d + w)
    BY <2>2, <2>4, <2>5, <2>6
  <2>8. Same(d + w, d + y)
    BY <2>2, <2>4, <2>7, SameProduct
  <2>9. Same(b[1], secret)
    BY <2>4, <2>7, <2>8, SameIs
  <2> QED
    BY <2>2, <2>9, SameInField
<1>11. ASSUME NEW j \in S \ {i} PROVE Keys!SK(b, j) = Keys!SK(a, j)
  <2>1. PICK x, u, v, w : x = j + 1 /\ u = Keys!PolynomEval(x, b) /\ v = Keys!PolynomEval(x, a) /\ w = Keys!PolynomEval(x, z)
    OBVIOUS
  <2>2. x \in Int
    BY <1>2, <2>1, Differences
  <2>3. u \in Keys!Field /\ v \in Keys!Field /\ v \in Int /\ w \in Int
    BY <1>1, <1>4, <1>9, <2>1, <2>2, PolynomIs
  <2>4. Same(u, v + c * w)
    BY <1>1, <1>4, <1>7, <1>8, <1>9, <2>1, <2>2, PolynomLinear
  <2>5. Same(w, 0) /\ 0 \in Int /\ c * 0 = 0 /\ v + 0 = v
    BY <1>4, <1>7, <2>1, <2>3
  <2>6. PICK y : y = c * w
    OBVIOUS
  <2>7. y \in Int /\ Same(y, 0)
    <3>1. Same(c * w, c * 0)
      BY <1>7, <2>3, <2>5, SameProduct
    <3> QED
      BY <1>7, <2>3, <2>5, <2>6, <3>1
  <2>8. Same(v + y, v + 0)
    BY <2>3, <2>5, <2>7, SameProduct
  <2>9. Same(u, v)
    BY <2>4, <2>5, <2>6, <2>8, SameIs
  <2>10. u = v
    BY <2>3, <2>9, SameInField
  <2> QED
    BY <2>1, <2>10, Zenon DEF Keys!SK
<1> QED
  BY <1>9, <1>10, <1>11
-----------------------------------------------------------------------------
\* Encryption

\* The players in S give one share each of the ciphertext of m and none of one
\* with another W; the shares open it, and do not if one of them is replaced.
Opens(a, S, r, m) ==
  LET c == Keys!Encrypt(a, m, r) IN
  /\ \A i \in S, w \in Keys!Field : Keys!DecryptShare(a, i, [c EXCEPT !.W = w]) # {} <=> w = c.W
  /\ \E shares \in [S -> Keys!Field] :
       /\ \A i \in S : Keys!DecryptShare(a, i, c) = {shares[i]}
       /\ \A i \in S, share \in Keys!Field :
            Keys!Decryption(a, [shares EXCEPT ![i] = share], c) = IF share = shares[i] THEN {m} ELSE {}

\* Whatever k players hold shares of the secret key, they get back what was
\* encrypted, and notice a share that is wrong (encrypt, decrypt_share and
\* combine_shares of tpke.py).
THEOREM AnyQuorumDecrypts ==
  ASSUME NEW k, NEW a, NEW S, Quorum(k, a, S), NEW r \in 1..(Q - 1), NEW m \in SUBSET Keys!Bit
  PROVE  Opens(a, S, r, m)
<1> DEFINE g == Keys!HashG((a[1] * r) % Q)
           V == Keys!Xor(m, g)
           h == Keys!HashH(r, V)
           c == Keys!Encrypt(a, m, r)
           shares == [i \in S |-> (r * Keys!SK(a, i)) % Q]
<1>1. r \in Int /\ r \in Nat /\ a[1] \in Int
  BY Field, QuorumIs
<1>2. c = [U |-> r, V |-> V, W |-> (h * r) % Q]
  BY Zenon DEF Keys!Encrypt, Keys!VK
<1>3. h \in Int
  <2>1. V \in SUBSET Keys!Bit
    BY DEF Keys!Xor, Keys!HashG
  <2>2. IsFiniteSet(V) /\ Cardinality(V) \in Nat
    <3>1. IsFiniteSet(Keys!Bit)
      <4>1. 1 \in Int /\ 3 \in Int
        OBVIOUS
      <4> QED
        BY <4>1, FS_Interval, Zenon DEF Keys!Bit
    <3> HIDE DEF V
    <3> QED
      BY <2>1, <3>1, FS_Subset, FS_CardinalityType
  <2>3. Keys!Cardinality(V) = Cardinality(V)
    BY Zenon DEF Keys!Cardinality, Cardinality, Keys!IsFiniteSet, IsFiniteSet
  <2> HIDE DEF V
  <2>4. Q \in Nat /\ Q >= 2
    BY Field
  <2>5. (r + Cardinality(V)) % (Q - 1) \in Int
    <3>1. r + Cardinality(V) \in Nat /\ Q - 1 \in Nat \ {0}
      BY <1>1, <2>2, <2>4
    <3>2. \A x \in Nat, y \in Nat \ {0} : x % y \in Int
      OBVIOUS
    <3> QED
      BY <3>1, <3>2
  <2>6. h = 1 + ((r + Cardinality(V)) % (Q - 1))
    BY <2>3, Zenon DEF Keys!HashH
  <2> QED
    BY <2>5, <2>6
<1> HIDE DEF h, V, g, c
<1>4. c.U = r /\ c.V = V /\ c.W = (h * r) % Q
  BY <1>2
<1>5. PICK x : x = h * r
  OBVIOUS
<1>6. x \in Int /\ r * h = x /\ c.W = x % Q /\ x % Q \in Int /\ x % Q \in Keys!Field
  <2>1. x \in Int /\ r * h = x
    BY <1>1, <1>3, <1>5
  <2> QED
    BY <1>4, <1>5, <2>1, Residue
<1>7. \A w \in Keys!Field : Keys!VerifyCiphertext([c EXCEPT !.W = w]) <=> w = c.W
  <2>1. ASSUME NEW w \in Keys!Field
        PROVE  Keys!VerifyCiphertext([c EXCEPT !.W = w]) <=> w = c.W
    <3>1. [c EXCEPT !.W = w].U = r /\ [c EXCEPT !.W = w].V = V /\ [c EXCEPT !.W = w].W = w
      BY <1>2
    <3>2. 1 * w = w /\ w % Q = w
      BY Field, Residue
    <3>3. Keys!VerifyCiphertext([c EXCEPT !.W = w]) <=> Keys!Pair(1, w) = Keys!Pair(r, h)
      BY <3>1, Zenon DEF Keys!VerifyCiphertext, h
    <3>4. Keys!Pair(1, w) = w /\ Keys!Pair(r, h) = x % Q
      BY <1>6, <3>2, Zenon DEF Keys!Pair
    <3> QED
      BY <1>6, <3>3, <3>4
  <2> QED
    BY <2>1
<1>8. Keys!VerifyCiphertext(c)
  <2>1. c = [c EXCEPT !.W = c.W] /\ c.W \in Keys!Field
    BY <1>2, <1>6
  <2> QED
    BY <1>7, <2>1, Zenon
<1>9. ASSUME NEW i \in S
      PROVE  /\ shares[i] \in Keys!Field /\ shares[i] \in Int /\ Same(shares[i], r * Keys!SK(a, i))
             /\ \A w \in Keys!Field : Keys!DecryptShare(a, i, [c EXCEPT !.W = w]) # {} <=> w = c.W
             /\ Keys!DecryptShare(a, i, c) = {shares[i]}
             /\ \A share \in Keys!Field : Keys!VerifyDecryption(a, i, share, c) <=> share = shares[i]
  <2>1. PICK y : y = r * Keys!SK(a, i)
    OBVIOUS
  <2>2. y \in Int
    BY <1>1, <2>1, QuorumIs
  <2>3. shares[i] = y % Q
    BY <2>1
  <2> HIDE DEF shares
  <2>4. y % Q \in Keys!Field /\ y % Q \in Int /\ Same(y % Q, y)
    BY <2>2, Residue
  <2>5. Keys!DecryptShare(a, i, c) = {shares[i]}
    BY <1>4, <1>8, <2>1, <2>3, Zenon DEF Keys!DecryptShare, Keys!DecryptionSK, Keys!SK
  <2>6. ASSUME NEW w \in Keys!Field
        PROVE  Keys!DecryptShare(a, i, [c EXCEPT !.W = w]) # {} <=> w = c.W
    <3>1. PICK d : d = [c EXCEPT !.W = w]
      OBVIOUS
    <3>2. Keys!DecryptShare(a, i, d) # {} <=> Keys!VerifyCiphertext(d)
      BY Zenon DEF Keys!DecryptShare
    <3> QED
      BY <1>7, <3>1, <3>2, Zenon
  <2>7. ASSUME NEW share \in Keys!Field
        PROVE  Keys!VerifyDecryption(a, i, share, c) <=> share = shares[i]
    <3>1. share \in Int /\ share % Q = share
      BY Field, Residue
    <3>2. Keys!Pair(share, 1) = share
      BY <3>1, PairOne
    <3> QED
      BY <1>4, <2>1, <2>3, <3>2, Zenon DEF Keys!VerifyDecryption, Keys!Pair, Keys!DecryptionSK, Keys!SK
  <2> QED
    BY <2>1, <2>3, <2>4, <2>5, <2>6, <2>7, Zenon
<1>10. DOMAIN shares = S
  OBVIOUS
<1> HIDE DEF shares
<1>11. Keys!Decryption(a, shares, c) = {m}
  <2>1. PICK y, z : y = r * a[1] /\ z = Keys!CombineShares(shares)
    OBVIOUS
  <2>2. y \in Int /\ a[1] * r = y /\ z \in Keys!Field /\ Same(z, y)
    <3>1. y \in Int /\ a[1] * r = y
      BY <1>1, <2>1
    <3> QED
      BY <1>1, <1>9, <1>10, <2>1, <3>1, CombineIs, SharesCombine
  <2>3. z = (a[1] * r) % Q
    <3>1. y % Q \in Keys!Field /\ Same(y, y % Q)
      BY <2>2, Residue
    <3>2. Same(z, y % Q)
      BY <2>2, <3>1, SameIs
    <3>3. z = y % Q
      BY <2>2, <3>1, <3>2, SameInField
    <3> QED
      BY <2>2, <3>3, Zenon
  <2>4. Keys!Combined(shares) = z
    BY <2>1, Zenon DEF Keys!Combined, Keys!CombineShares, Keys!DecryptionLagrange
  <2>5. \A j \in DOMAIN shares : Keys!VerifyDecryption(a, j, shares[j], c)
    BY <1>9, <1>10
  <2>6. Keys!Cardinality(DOMAIN shares) = Len(a)
    <3>1. Cardinality(S) = Len(a)
      BY QuorumIs DEF Quorum
    <3> QED
      BY <1>10, <3>1, Zenon DEF Keys!Cardinality, Cardinality, Keys!IsFiniteSet, IsFiniteSet
  <2>7. Keys!Decryption(a, shares, c) = {Keys!Xor(g, Keys!Xor(m, g))}
    BY <1>4, <2>3, <2>4, <2>5, <2>6, Zenon DEF Keys!Decryption, g, V
  <2>8. Keys!Xor(g, Keys!Xor(m, g)) = m
    BY DEF Keys!Xor
  <2> QED
    BY <2>7, <2>8, Zenon
<1>12. ASSUME NEW i \in S, NEW share \in Keys!Field
       PROVE  Keys!Decryption(a, [shares EXCEPT ![i] = share], c) = IF share = shares[i] THEN {m} ELSE {}
  <2>1. PICK t : t = [shares EXCEPT ![i] = share]
    OBVIOUS
  <2>2. t[i] = share /\ i \in DOMAIN t
    BY <1>10, <2>1
  <2>3. CASE share = shares[i]
    <3>1. t = shares
      BY <2>1, <2>3 DEF shares
    <3> QED
      BY <1>11, <2>1, <2>3, <3>1, Zenon
  <2>4. CASE share # shares[i]
    <3>1. ~Keys!VerifyDecryption(a, i, t[i], c)
      BY <1>9, <2>2, <2>4, Zenon
    <3>2. Keys!Decryption(a, t, c) = {}
      BY <2>2, <3>1, Zenon DEF Keys!Decryption
    <3> QED
      BY <2>1, <2>4, <3>2, Zenon
  <2> QED
    BY <2>3, <2>4
<1>13. shares \in [S -> Keys!Field]
  BY <1>9 DEF shares
<1> QED
  BY <1>9, <1>12, <1>13, Zenon DEF c, Opens

-----------------------------------------------------------------------------
\* What Deal and Test draw

\* Shares are those of a threshold of different players, and numbers natural.
ShareInput ==
  /\ input.of = "shares" => \E k \in Thresholds : /\ input.a \in [1..k -> Keys!Field]
                                                  /\ input.S \in SUBSET Player /\ Cardinality(input.S) = k
  /\ input.of = "number" => input.n \in Nat

\* ShareInput holds at first, and every step keeps it.
LEMMA ShareInputInit == Init => ShareInput
  BY DEF Init, Nothing, ShareInput

LEMMA ShareInputNext == ShareInput /\ [Next]_vars => ShareInput'
<1> SUFFICES ASSUME ShareInput, [Next]_vars PROVE ShareInput'
  OBVIOUS
<1>1. CASE Listen
  BY <1>1 DEF Listen, ShareInput
<1>2. CASE Pad
  BY <1>2 DEF Pad, ShareInput
<1>3. CASE Prove
  BY <1>3 DEF Prove, ShareInput
<1>4. CASE Deal
  <2>0. PICK k \in Thresholds : \E a \in [1..k -> Keys!Field], S \in Subsets(k, Player) :
          input' = [of |-> "shares", a |-> a, S |-> S]
    BY <1>4 DEF Deal
  <2>1. PICK a \in [1..k -> Keys!Field], S \in Subsets(k, Player) :
          input' = [of |-> "shares", a |-> a, S |-> S]
    BY <2>0
  <2>2. S \in SUBSET Player /\ Cardinality(S) = k
    BY <2>1 DEF Subsets
  <2>3. input'.of = "shares" /\ input'.a = a /\ input'.S = S
    BY <2>1
  <2> QED
    BY <2>2, <2>3 DEF ShareInput
<1>5. CASE Test
  <2>1. PICK n \in Candidates : input' = [of |-> "number", n |-> n]
    BY <1>5 DEF Test
  <2>2. input'.of = "number" /\ input'.n = n /\ n \in Nat
    BY <2>1, NumbersAssumption
  <2> QED
    BY <2>2 DEF ShareInput
<1>6. CASE Rsa
  BY <1>6 DEF Rsa, ShareInput
<1>7. CASE Send
  BY <1>7 DEF Send, ShareInput
<1>8. CASE Propose
  BY <1>8 DEF Propose, ShareInput
<1>9. CASE UNCHANGED vars
  BY <1>9 DEF vars, ShareInput
<1> QED
  BY <1>1, <1>2, <1>3, <1>4, <1>5, <1>6, <1>7, <1>8, <1>9 DEF Next

LEMMA SharesAreQuorum ==
  ASSUME ShareInput, input.of = "shares"
  PROVE  \E k : Quorum(k, input.a, input.S)
<1>1. PICK k \in Thresholds : /\ input.a \in [1..k -> Keys!Field]
                              /\ input.S \in SUBSET Player /\ Cardinality(input.S) = k
  BY DEF ShareInput
<1>2. k \in Nat \ {0}
  BY NumbersAssumption
<1>3. Player \subseteq Points /\ IsFiniteSet(Player)
  <2>1. Players \in Nat /\ Players < Q /\ Q \in Nat
    BY FieldAssumption
  <2>2. Player \subseteq Points
    BY <2>1 DEF Player, Points
  <2>3. 0 \in Int /\ Players - 1 \in Int
    BY <2>1
  <2>4. IsFiniteSet(Player)
    BY <2>3, FS_Interval DEF Player
  <2> QED
    BY <2>2, <2>4
<1>4. IsFiniteSet(input.S) /\ input.S \in SUBSET Points
  BY <1>1, <1>3, FS_Subset
<1> QED
  BY <1>1, <1>2, <1>4 DEF Quorum

\* Any k shares make the one signature that verifies, none of them can be
\* wrong unnoticed, and k - 1 tell nothing, at every prime order, for every
\* number of players below it and every threshold.
THEOREM SignaturesHold == Spec => []SignaturesNeedQuorum
<1>1. ASSUME ShareInput, input.of = "shares" PROVE QuorumSigns /\ WrongShareSpoils /\ SecretHidden
  <2>1. PICK k : Quorum(k, input.a, input.S)
    BY <1>1, SharesAreQuorum
  <2>2. QuorumSigns
    BY <2>1, AnyQuorumSigns, ZenonT(60) DEF QuorumSigns
  <2>3. WrongShareSpoils
    BY <2>1, WrongShareNoticed, Zenon DEF WrongShareSpoils
  <2>4. SecretHidden
    <3>1. ASSUME NEW i \in input.S, NEW secret \in Keys!Field
          PROVE  \E b \in [DOMAIN input.a -> Keys!Field] :
                   b[1] = secret /\ \A j \in input.S \ {i} : Keys!SK(b, j) = Keys!SK(input.a, j)
      <4>1. PICK a, S : a = input.a /\ S = input.S
        OBVIOUS
      <4>2. Quorum(k, a, S) /\ i \in S
        BY <2>1, <4>1
      <4>3. \E b \in [DOMAIN a -> Keys!Field] :
              b[1] = secret /\ \A j \in S \ {i} : Keys!SK(b, j) = Keys!SK(a, j)
        BY <4>2, FewSharesHide
      <4> QED
        BY <4>1, <4>3, Zenon
    <3> QED
      BY <3>1, Zenon DEF SecretHidden
  <2> QED
    BY <2>2, <2>3, <2>4
<1>2. input.of # "shares" => QuorumSigns /\ WrongShareSpoils /\ SecretHidden
  BY DEF QuorumSigns, WrongShareSpoils, SecretHidden
<1>3. ShareInput => DefaultThresholdFits
  BY DefaultThresholdFew DEF DefaultThresholdFits, ShareInput
<1>4. ShareInput => SignaturesNeedQuorum
  BY <1>1, <1>2, <1>3 DEF SignaturesNeedQuorum
<1> QED
  BY <1>4, ShareInputInit, ShareInputNext, PTL DEF Spec

\* Any k players give shares of what was encrypted, with no other W, and these
\* open it and can not be replaced; the symmetric cipher gives back bytes in any
\* number, and takes a str of equal characters only if they fill its blocks.
THEOREM CiphertextsHold == Spec => []CiphertextsOpen
<1>1. ASSUME ShareInput, input.of = "shares" PROVE DecryptionAgrees
  <2>1. PICK k : Quorum(k, input.a, input.S)
    BY <1>1, SharesAreQuorum
  <2>2. \A m \in {{}, {1, 3}} : m \in SUBSET Keys!Bit
    BY DEF Keys!Bit
  <2>3. ASSUME NEW r \in 1..(Q - 1), NEW m \in {{}, {1, 3}}
        PROVE  Opens(input.a, input.S, r, m)
    <3>1. m \in SUBSET Keys!Bit
      BY <2>2
    <3> QED
      BY <2>1, <3>1, AnyQuorumDecrypts
  <2> QED
    BY <2>3, Zenon DEF DecryptionAgrees, Opens
<1>2. ASSUME ShareInput, input.of = "number" PROVE PadUndone
  <2>0. \A c \in Nat : Cipher!Encryptable(AllOf(c, input.n)) <=> c < 128 \/ input.n % Cipher!BS = 0
    <3>1. input.n \in Nat
      BY <1>2 DEF ShareInput
    <3> QED
      BY <3>1, WhatEncrypts, Zenon
  <2>1. ASSUME NEW c \in {0, 1, 15, 16, 127, 233}
        PROVE  /\ Cipher!SymDecrypt(Cipher!SymEncrypt("key", [i \in 1..input.n |-> c], [i \in 1..Cipher!BS |-> i]))
                    = [i \in 1..input.n |-> c]
               /\ Cipher!Encryptable([i \in 1..input.n |-> c]) <=> c < 128 \/ input.n % Cipher!BS = 0
    <3>1. PICK s, iv : s = [i \in 1..input.n |-> c] /\ iv = [i \in 1..Cipher!BS |-> i]
      OBVIOUS
    <3>2. input.n \in Nat /\ c \in Nat
      BY <1>2 DEF ShareInput
    <3>3. s \in Seq(Nat)
      BY <3>1, <3>2
    <3>4. iv \in Seq(Nat) /\ Len(iv) = Cipher!BS
      BY <3>1 DEF Cipher!BS
    <3>5. Cipher!SymDecrypt(Cipher!SymEncrypt("key", s, iv)) = s
      BY <3>3, <3>4, PadRemoved, Zenon
    <3>6. Cipher!Encryptable(s) <=> c < 128 \/ input.n % Cipher!BS = 0
      <4>1. Cipher!Encryptable(AllOf(c, input.n)) <=> c < 128 \/ input.n % Cipher!BS = 0
        BY <2>0, <3>2
      <4> QED
        BY <3>1, <4>1, Zenon DEF AllOf
    <3> QED
      BY <3>1, <3>5, <3>6
  <2> QED
    BY <2>1, Zenon DEF PadUndone
<1>3. ShareInput => CiphertextsOpen
  BY <1>1, <1>2 DEF CiphertextsOpen, DecryptionAgrees, PadUndone
<1> QED
  BY <1>3, ShareInputInit, ShareInputNext, PTL DEF Spec
-----------------------------------------------------------------------------
\* Strings of bytes and their parts

\* f starts with start and goes on by o.
Iterates(f, o, start) == f[0] = start /\ \A n \in Nat : f[n + 1] = o[<<n, f[n]>>]

\* Every operation on a set is iterated by some f.
LEMMA Iteration ==
  ASSUME NEW D, NEW start \in D, NEW o \in [Nat \X D -> D]
  PROVE  \E f \in [Nat -> D] : Iterates(f, o, start)
<1> DEFINE upto(f, n) == /\ f[0] = start
                         /\ \A k \in Nat : k < n => f[k + 1] = o[<<k, f[k]>>]
           S == {n \in Nat : \E f \in [Nat -> D] : upto(f, n)}
           F(n) == CHOOSE f : f \in [Nat -> D] /\ upto(f, n)
           all == [n \in Nat |-> F(n)[n]]
<1>1. \A n \in Nat : n \in S
  <2>1. 0 \in S
    <3>1. [k \in Nat |-> start] \in [Nat -> D] /\ upto([k \in Nat |-> start], 0)
      OBVIOUS
    <3> QED
      BY <3>1
  <2>2. ASSUME NEW n \in Nat, n \in S PROVE n + 1 \in S
    <3>1. PICK f \in [Nat -> D] : upto(f, n)
      BY <2>2
    <3>2. o[<<n, f[n]>>] \in D
      OBVIOUS
    <3> DEFINE g == [k \in Nat |-> IF k = n + 1 THEN o[<<n, f[n]>>] ELSE f[k]]
    <3>3. g \in [Nat -> D]
      BY <3>2
    <3>4. g[0] = start
      BY <3>1
    <3>5. ASSUME NEW k \in Nat, k < n + 1 PROVE g[k + 1] = o[<<k, g[k]>>]
      <4>1. k # n + 1 /\ g[k] = f[k] /\ k + 1 \in Nat
        BY <3>5
      <4>2. CASE k = n
        BY <4>1, <4>2
      <4>3. CASE k # n
        <5>1. k < n /\ k + 1 # n + 1
          BY <3>5, <4>3
        <5>2. g[k + 1] = f[k + 1]
          BY <4>1, <5>1
        <5> QED
          BY <3>1, <4>1, <5>1, <5>2
      <4> QED
        BY <4>2, <4>3
    <3> HIDE DEF g
    <3> QED
      BY <3>3, <3>4, <3>5
  <2> HIDE DEF S
  <2> QED
    BY <2>1, <2>2, Induction
<1>2. \A n \in Nat : F(n) \in [Nat -> D] /\ upto(F(n), n)
  BY <1>1
<1> HIDE DEF F
<1>3. \A k \in Nat : \A m, n \in Nat : k <= m /\ k <= n => F(m)[k] = F(n)[k]
  <2> DEFINE A == {k \in Nat : \A m, n \in Nat : k <= m /\ k <= n => F(m)[k] = F(n)[k]}
  <2>1. 0 \in A
    BY <1>2
  <2>2. ASSUME NEW k \in Nat, k \in A PROVE k + 1 \in A
    <3>1. ASSUME NEW m \in Nat, NEW n \in Nat, k + 1 <= m, k + 1 <= n PROVE F(m)[k + 1] = F(n)[k + 1]
      <4>1. k < m /\ k < n /\ k <= m /\ k <= n
        BY <3>1
      <4>2. F(m)[k] = F(n)[k]
        BY <2>2, <4>1
      <4>3. F(m)[k + 1] = o[<<k, F(m)[k]>>] /\ F(n)[k + 1] = o[<<k, F(n)[k]>>]
        BY <1>2, <4>1
      <4> QED
        BY <4>2, <4>3
    <3> QED
      BY <3>1
  <2> HIDE DEF A
  <2>3. \A k \in Nat : k \in A
    BY <2>1, <2>2, Induction
  <2> QED
    BY <2>3 DEF A
<1>4. all \in [Nat -> D] /\ all[0] = start
  BY <1>2
<1>5. ASSUME NEW n \in Nat PROVE all[n + 1] = o[<<n, all[n]>>]
  <2>1. all[n + 1] = F(n + 1)[n + 1] /\ all[n] = F(n)[n] /\ n + 1 \in Nat /\ n < n + 1
    OBVIOUS
  <2>2. F(n + 1)[n + 1] = o[<<n, F(n + 1)[n]>>]
    BY <1>2, <2>1
  <2>3. F(n + 1)[n] = F(n)[n]
    BY <1>3, <2>1
  <2> QED
    BY <2>1, <2>2, <2>3
<1> QED
  BY <1>4, <1>5, Zenon DEF Iterates
\* J holds what comes of joining the first strings of q.
Joins(J, q) ==
  /\ J[0] = <<>>
  /\ \A i \in 1..Len(q) : J[i] = J[i - 1] \o q[i]

LEMMA JoinsExist ==
  ASSUME NEW B, NEW q \in Seq(Seq(B))
  PROVE  \E J \in [Nat -> Seq(B)] : Joins(J, q)
<1> DEFINE o == [p \in Nat \X Seq(B) |-> IF p[1] < Len(q) THEN p[2] \o q[p[1] + 1] ELSE p[2]]
<1>1. \A n \in Nat, x \in Seq(B) : n < Len(q) => q[n + 1] \in Seq(B) /\ x \o q[n + 1] \in Seq(B)
  <2>1. ASSUME NEW n \in Nat, NEW x \in Seq(B), n < Len(q) PROVE q[n + 1] \in Seq(B) /\ x \o q[n + 1] \in Seq(B)
    <3>1. n + 1 \in 1..Len(q)
      BY <2>1
    <3>2. q[n + 1] \in Seq(B)
      BY <3>1, ElementOfSeq
    <3> QED
      BY <3>2, ConcatProperties
  <2> QED
    BY <2>1
<1>2. o \in [Nat \X Seq(B) -> Seq(B)]
  BY <1>1
<1>3. <<>> \in Seq(B)
  OBVIOUS
<1>4. \A n \in Nat, x \in Seq(B) : n < Len(q) => o[<<n, x>>] = x \o q[n + 1]
  OBVIOUS
<1> HIDE DEF o
<1>5. PICK J \in [Nat -> Seq(B)] : Iterates(J, o, <<>>)
  BY <1>2, <1>3, Iteration
<1>6. ASSUME NEW i \in 1..Len(q) PROVE J[i] = J[i - 1] \o q[i]
  <2>1. i - 1 \in Nat /\ i - 1 < Len(q) /\ (i - 1) + 1 = i
    BY LenProperties
  <2>2. J[(i - 1) + 1] = o[<<i - 1, J[i - 1]>>]
    BY <1>5, <2>1 DEF Iterates
  <2>3. J[i - 1] \in Seq(B)
    BY <2>1
  <2> QED
    BY <1>4, <2>1, <2>2, <2>3
<1> QED
  BY <1>5, <1>6 DEF Iterates, Joins

LEMMA JoinsAre ==
  ASSUME NEW B, NEW q \in Seq(Seq(B)), NEW J \in [Nat -> Seq(B)], Joins(J, q)
  PROVE  FlattenSeq(q) = J[Len(q)]
<1>1. Len(q) \in Nat
  OBVIOUS
<1>2. CASE Len(q) = 0
  <2>1. q = <<>>
    BY <1>2
  <2> QED
    BY <1>2, <2>1 DEF FlattenSeq, Joins
<1>3. CASE Len(q) # 0
  <2> DEFINE n == Len(q)
             e(f, i) == IF i = 1 THEN q[i] ELSE f[i - 1] \o q[i]
             flat == CHOOSE f : f = [i \in 1..n |-> e(f, i)]
             g == [i \in 1..n |-> J[i]]
  <2>1. FlattenSeq(q) = flat[n]
    BY <1>3, Zenon DEF FlattenSeq
  <2>2. ASSUME NEW i \in 1..n PROVE J[i] = e(g, i)
    <3>1. J[i] = J[i - 1] \o q[i] /\ J[0] = <<>> /\ q[i] \in Seq(B)
      BY ElementOfSeq DEF Joins
    <3>2. CASE i = 1
      <4>0. i - 1 = 0
        BY <3>2
      <4>1. J[i] = <<>> \o q[i]
        BY <3>1, <4>0, Zenon
      <4> QED
        BY <3>1, <3>2, <4>1, ConcatEmptySeq
    <3>3. CASE i # 1
      <4>1. i - 1 \in 1..n
        BY <3>3
      <4> QED
        BY <3>1, <3>3, <4>1
    <3> QED
      BY <3>2, <3>3
  <2>3. g = [i \in 1..n |-> e(g, i)]
    BY <2>2
  <2> HIDE DEF g
  <2>4. flat = [i \in 1..n |-> e(flat, i)]
    BY <2>3, Zenon
  <2> HIDE DEF flat
  <2> DEFINE A == {i \in Nat : i + 1 \in 1..n => flat[i + 1] = J[i + 1]}
  <2>5. 0 \in A
    <3>1. 0 + 1 \in 1..n => flat[0 + 1] = q[0 + 1]
      BY <2>4
    <3>2. 0 + 1 \in 1..n => J[0 + 1] = <<>> \o q[0 + 1] /\ q[0 + 1] \in Seq(B)
      <4>1. ASSUME 0 + 1 \in 1..n PROVE J[0 + 1] = <<>> \o q[0 + 1] /\ q[0 + 1] \in Seq(B)
        <5>1. 1 - 1 = 0 /\ 0 + 1 = 1
          OBVIOUS
        <5> QED
          BY <4>1, <5>1, ElementOfSeq DEF Joins
      <4> QED
        BY <4>1
    <3> QED
      BY <3>1, <3>2, ConcatEmptySeq
  <2>6. ASSUME NEW i \in Nat, i \in A PROVE i + 1 \in A
    <3>1. ASSUME (i + 1) + 1 \in 1..n PROVE flat[(i + 1) + 1] = J[(i + 1) + 1]
      <4>1. i + 1 \in 1..n /\ (i + 1) + 1 # 1 /\ ((i + 1) + 1) - 1 = i + 1
        BY <3>1
      <4>2. flat[(i + 1) + 1] = flat[i + 1] \o q[(i + 1) + 1]
        BY <2>4, <3>1, <4>1
      <4>3. J[(i + 1) + 1] = J[i + 1] \o q[(i + 1) + 1]
        BY <3>1, <4>1, Zenon DEF Joins, n
      <4> QED
        BY <2>6, <4>1, <4>2, <4>3
    <3> QED
      BY <3>1
  <2> HIDE DEF A
  <2>7. \A i \in Nat : i \in A
    BY <2>5, <2>6, Induction
  <2>8. n - 1 \in A /\ (n - 1) + 1 = n /\ n \in 1..n
    <3>1. n - 1 \in Nat /\ (n - 1) + 1 = n /\ n \in 1..n
      BY <1>1, <1>3
    <3> QED
      BY <2>7, <3>1, Zenon
  <2>9. flat[n] = J[n]
    BY <2>8 DEF A
  <2> QED
    BY <2>1, <2>9, Zenon DEF n
<1> QED
  BY <1>2, <1>3

LEMMA FlatEmpty == FlattenSeq(<<>>) = <<>>
  BY DEF FlattenSeq

\* A list with one more string comes to as much more.
LEMMA FlatAppend ==
  ASSUME NEW B, NEW q \in Seq(Seq(B)), NEW x \in Seq(B)
  PROVE  /\ FlattenSeq(q) \in Seq(B) /\ FlattenSeq(Append(q, x)) \in Seq(B)
         /\ FlattenSeq(Append(q, x)) = FlattenSeq(q) \o x
<1> DEFINE r == Append(q, x)
           n == Len(q)
<1>1. /\ r \in Seq(Seq(B)) /\ Len(r) = n + 1 /\ n \in Nat
      /\ \A i \in 1..n : r[i] = q[i]
      /\ r[n + 1] = x
  OBVIOUS
<1> HIDE DEF r, n
<1>2. PICK J \in [Nat -> Seq(B)] : Joins(J, r)
  BY <1>1, JoinsExist
<1>3. Joins(J, q)
  <2>1. ASSUME NEW i \in 1..n PROVE J[i] = J[i - 1] \o q[i]
    <3>1. i \in 1..Len(r)
      BY <1>1
    <3> QED
      BY <1>1, <1>2, <3>1 DEF Joins
  <2> QED
    BY <1>2, <2>1 DEF Joins, n
<1>4. FlattenSeq(q) = J[n] /\ FlattenSeq(r) = J[n + 1]
  <2>1. FlattenSeq(q) = J[Len(q)]
    BY <1>3, JoinsAre
  <2>2. FlattenSeq(r) = J[Len(r)]
    BY <1>1, <1>2, JoinsAre
  <2> QED
    BY <1>1, <2>1, <2>2 DEF n
<1>5. J[n + 1] = J[n] \o x
  <2>1. n \in Nat /\ Len(r) = n + 1 /\ r[n + 1] = x
    BY <1>1
  <2>2. n + 1 \in 1..Len(r) /\ (n + 1) - 1 = n
    BY <2>1
  <2>3. J[n + 1] = J[(n + 1) - 1] \o r[n + 1]
    BY <1>2, <2>2, Zenon DEF Joins
  <2> QED
    BY <2>1, <2>2, <2>3, Zenon
<1>6. J[n] \in Seq(B) /\ J[n + 1] \in Seq(B)
  BY <1>1
<1> QED
  BY <1>4, <1>5, <1>6 DEF r
\* l holds the w lowest bytes of x, of up to four.
BytesOf(l, x, w) ==
  /\ l \in Seq(0..255) /\ l \in Seq(Nat) /\ Len(l) = w
  /\ l[1] = x % 256
  /\ w >= 2 => l[2] = (x \div 256) % 256
  /\ w >= 3 => l[3] = ((x \div 256) \div 256) % 256
  /\ w >= 4 => l[4] = (((x \div 256) \div 256) \div 256) % 256

\* The bytes that struct.pack makes of a number.
LEMMA LittleIs ==
  ASSUME NEW x \in Nat, NEW w \in 1..4
  PROVE  BytesOf(Little(x, w), x, w)
<1> DEFINE x2 == x \div 256
           x3 == x2 \div 256
           x4 == x3 \div 256
           e(f, i) == IF i = 1 THEN x ELSE f[i - 1] \div 256
           left == CHOOSE f : f = [i \in 1..w |-> e(f, i)]
           g == [i \in 1..w |-> IF i = 1 THEN x ELSE IF i = 2 THEN x2 ELSE IF i = 3 THEN x3 ELSE x4]
<1>1. Little(x, w) = [i \in 1..w |-> left[i] % 256]
  BY Zenon DEF Little
<1>2. x2 \in Nat /\ x3 \in Nat /\ x4 \in Nat
  OBVIOUS
<1>3. /\ x2 = x \div 256 /\ x3 = x2 \div 256 /\ x4 = x3 \div 256
      /\ w \in 1..4
  OBVIOUS
<1> HIDE DEF x2, x3, x4
<1>4. g = [i \in 1..w |-> e(g, i)]
  <2>1. ASSUME NEW i \in 1..w PROVE g[i] = e(g, i)
    <3>1. i \in 1..4 /\ (i # 1 => i - 1 \in 1..w)
      BY <1>3
    <3>2. CASE i = 1
      BY <3>2
    <3>3. CASE i = 2
      <4>1. g[1] = x
        BY <3>1, <3>3
      <4> QED
        BY <1>3, <3>3, <4>1
    <3>4. CASE i = 3
      <4>1. g[2] = x2
        BY <3>1, <3>4
      <4> QED
        BY <1>3, <3>4, <4>1
    <3>5. CASE i = 4
      <4>1. g[3] = x3
        BY <3>1, <3>5
      <4> QED
        BY <1>3, <3>5, <4>1
    <3> QED
      BY <3>1, <3>2, <3>3, <3>4, <3>5
  <2> QED
    BY <2>1
<1> HIDE DEF g
<1>5. left = [i \in 1..w |-> e(left, i)]
  <2> HIDE DEF e
  <2> QED
    BY <1>4, Zenon
<1> HIDE DEF left
<1>6. /\ left[1] = x
      /\ w >= 2 => left[2] = x2
      /\ w >= 3 => left[3] = x3
      /\ w >= 4 => left[4] = x4
  <2>1. left[1] = x
    BY <1>3, <1>5
  <2>2. w >= 2 => left[2] = left[1] \div 256
    BY <1>3, <1>5
  <2>3. w >= 3 => left[3] = left[2] \div 256
    BY <1>3, <1>5
  <2>4. w >= 4 => left[4] = left[3] \div 256
    BY <1>3, <1>5
  <2> QED
    BY <1>3, <2>1, <2>2, <2>3, <2>4
<1>7. \A i \in 1..w : left[i] \in Nat
  <2>1. \A i \in 1..w : i = 1 \/ i = 2 \/ i = 3 \/ i = 4
    BY <1>3
  <2> QED
    BY <1>2, <1>3, <1>6, <2>1
<1>8. \A i \in 1..w : left[i] % 256 \in 0..255 /\ left[i] % 256 \in Nat
  BY <1>7
<1> DEFINE l == [i \in 1..w |-> left[i] % 256]
<1>9. l \in Seq(0..255) /\ l \in Seq(Nat) /\ Len(l) = w
  BY <1>3, <1>8
<1>10. \A i \in 1..w : l[i] = left[i] % 256
  OBVIOUS
<1> HIDE DEF l
<1>11. /\ l[1] = x % 256
       /\ w >= 2 => l[2] = x2 % 256
       /\ w >= 3 => l[3] = x3 % 256
       /\ w >= 4 => l[4] = x4 % 256
  BY <1>3, <1>6, <1>10
<1>12. Little(x, w) = l
  BY <1>1, Zenon DEF l
<1>13. BytesOf(l, x, w)
  BY <1>9, <1>11, Zenon DEF BytesOf, x2, x3, x4
<1> QED
  BY <1>12, <1>13, Zenon

\* What struct.unpack makes of up to four bytes.
LEMMA NumberIs ==
  ASSUME NEW b, NEW from \in Nat, NEW w \in 1..4, \A i \in 0..(w - 1) : b[from + i] \in Nat
  PROVE  Number(b, from, from + w - 1) =
           b[from] + 256 * (IF w = 1 THEN 0
             ELSE b[from + 1] + 256 * (IF w = 2 THEN 0
               ELSE b[from + 2] + 256 * (IF w = 3 THEN 0 ELSE b[from + 3])))
<1> DEFINE to == from + w - 1
           e(f, k) == IF k = 0 THEN 0 ELSE b[to - k + 1] + 256 * f[k - 1]
           n == CHOOSE f : f = [k \in 0..(to - from + 1) |-> e(f, k)]
           y1 == b[to]
           y2 == b[to - 1] + 256 * y1
           y3 == b[to - 2] + 256 * y2
           y4 == b[to - 3] + 256 * y3
           g == [k \in 0..w |-> IF k = 0 THEN 0 ELSE IF k = 1 THEN y1 ELSE IF k = 2 THEN y2
                                ELSE IF k = 3 THEN y3 ELSE y4]
<1>1. Number(b, from, to) = n[to - from + 1]
  BY Zenon DEF Number
<1>2. to - from + 1 = w /\ to \in Nat /\ w \in 1..4 /\ to = from + w - 1
  OBVIOUS
<1>3. /\ y1 \in Nat
      /\ w >= 2 => y2 \in Nat
      /\ w >= 3 => y3 \in Nat
      /\ w >= 4 => y4 \in Nat
  <2>1. w >= 1 => b[to] \in Nat
    <3>1. w - 1 \in 0..(w - 1) /\ from + (w - 1) = to
      BY <1>2
    <3> QED
      BY <3>1
  <2>2. w >= 2 => b[to - 1] \in Nat
    <3>1. w >= 2 => w - 2 \in 0..(w - 1) /\ from + (w - 2) = to - 1
      BY <1>2
    <3> QED
      BY <3>1
  <2>3. w >= 3 => b[to - 2] \in Nat
    <3>1. w >= 3 => w - 3 \in 0..(w - 1) /\ from + (w - 3) = to - 2
      BY <1>2
    <3> QED
      BY <3>1
  <2>4. w >= 4 => b[to - 3] \in Nat
    <3>1. w >= 4 => w - 4 \in 0..(w - 1) /\ from + (w - 4) = to - 3
      BY <1>2
    <3> QED
      BY <3>1
  <2> QED
    BY <1>2, <2>1, <2>2, <2>3, <2>4
<1>4. /\ y1 = b[to] /\ y2 = b[to - 1] + 256 * y1
      /\ y3 = b[to - 2] + 256 * y2 /\ y4 = b[to - 3] + 256 * y3
  OBVIOUS
<1> HIDE DEF y1, y2, y3, y4, to
<1>5. g = [k \in 0..(to - from + 1) |-> e(g, k)]
  <2>1. ASSUME NEW k \in 0..w PROVE g[k] = e(g, k)
    <3>1. k \in 0..4 /\ (k # 0 => k - 1 \in 0..w)
      BY <1>2
    <3>2. CASE k = 0
      BY <3>2
    <3>3. CASE k = 1
      <4>1. g[0] = 0 /\ to - 1 + 1 = to /\ y1 + 256 * 0 = y1
        BY <1>2, <1>3, <3>1, <3>3
      <4>2. g[1] = y1
        BY <3>3
      <4> HIDE DEF g
      <4>3. e(g, 1) = b[to] + 256 * g[0]
        BY <4>1
      <4> QED
        BY <1>4, <3>3, <4>1, <4>2, <4>3
    <3>4. CASE k = 2
      <4>1. g[1] = y1 /\ to - 2 + 1 = to - 1
        BY <1>2, <3>1, <3>4
      <4> QED
        BY <1>4, <3>4, <4>1
    <3>5. CASE k = 3
      <4>1. g[2] = y2 /\ to - 3 + 1 = to - 2
        BY <1>2, <3>1, <3>5
      <4> QED
        BY <1>4, <3>5, <4>1
    <3>6. CASE k = 4
      <4>1. g[3] = y3 /\ to - 4 + 1 = to - 3
        BY <1>2, <3>1, <3>6
      <4> QED
        BY <1>4, <3>6, <4>1
    <3> QED
      BY <3>1, <3>2, <3>3, <3>4, <3>5, <3>6
  <2>2. g = [k \in 0..w |-> g[k]]
    OBVIOUS
  <2> HIDE DEF g
  <2>3. g = [k \in 0..w |-> e(g, k)]
    BY <2>1, <2>2
  <2> QED
    BY <1>2, <2>3
<1> HIDE DEF g
<1>6. n = [k \in 0..(to - from + 1) |-> e(n, k)]
  <2> HIDE DEF e
  <2> QED
    BY <1>5, Zenon
<1> HIDE DEF n
<1>7. n[0] = 0 /\ \A k \in 1..w : n[k] = b[to - k + 1] + 256 * n[k - 1]
  BY <1>2, <1>6
<1>8. n[1] = y1
  <2>1. n[1] = b[to - 1 + 1] + 256 * n[1 - 1]
    BY <1>2, <1>7
  <2>2. to - 1 + 1 = to /\ 1 - 1 = 0 /\ y1 + 256 * 0 = y1
    BY <1>2, <1>3
  <2> QED
    BY <1>4, <1>7, <2>1, <2>2
<1>9. w >= 2 => n[2] = y2
  <2>1. w >= 2 => n[2] = b[to - 2 + 1] + 256 * n[2 - 1]
    BY <1>2, <1>7
  <2>2. to - 2 + 1 = to - 1 /\ 2 - 1 = 1
    BY <1>2
  <2> QED
    BY <1>4, <1>8, <2>1, <2>2
<1>10. w >= 3 => n[3] = y3
  <2>1. w >= 3 => n[3] = b[to - 3 + 1] + 256 * n[3 - 1]
    BY <1>2, <1>7
  <2>2. to - 3 + 1 = to - 2 /\ 3 - 1 = 2
    BY <1>2
  <2> QED
    BY <1>2, <1>4, <1>9, <2>1, <2>2
<1>11. w >= 4 => n[4] = y4
  <2>1. w >= 4 => n[4] = b[to - 4 + 1] + 256 * n[4 - 1]
    BY <1>2, <1>7
  <2>2. to - 4 + 1 = to - 3 /\ 4 - 1 = 3
    BY <1>2
  <2> QED
    BY <1>2, <1>4, <1>10, <2>1, <2>2
<1>12. /\ w = 1 => to = from
       /\ w = 2 => to = from + 1 /\ to - 1 = from
       /\ w = 3 => to = from + 2 /\ to - 1 = from + 1 /\ to - 2 = from
       /\ w = 4 => to = from + 3 /\ to - 1 = from + 2 /\ to - 2 = from + 1 /\ to - 3 = from
  BY <1>2
<1>13. Number(b, from, to) = IF w = 1 THEN y1 ELSE IF w = 2 THEN y2 ELSE IF w = 3 THEN y3 ELSE y4
  <2>1. Number(b, from, to) = n[w]
    BY <1>1, <1>2
  <2> QED
    BY <1>2, <1>8, <1>9, <1>10, <1>11, <2>1
<1>14. CASE w = 1
  <2>1. b[from] + 256 * 0 = b[from]
    BY <1>3, <1>4, <1>12, <1>14
  <2> QED
    BY <1>4, <1>12, <1>13, <1>14, <2>1 DEF to
<1>15. CASE w = 2
  <2>1. b[from + 1] + 256 * 0 = b[from + 1]
    BY <1>3, <1>4, <1>12, <1>15
  <2> QED
    BY <1>4, <1>12, <1>13, <1>15, <2>1 DEF to
<1>16. CASE w = 3
  <2>1. b[from + 2] + 256 * 0 = b[from + 2]
    BY <1>3, <1>4, <1>12, <1>16
  <2> QED
    BY <1>4, <1>12, <1>13, <1>16, <2>1 DEF to
<1>17. CASE w = 4
  BY <1>4, <1>12, <1>13, <1>17 DEF to
<1> QED
  BY <1>2, <1>14, <1>15, <1>16, <1>17

\* How many numbers w bytes can hold.
Room(w) == IF w = 1 THEN 256 ELSE IF w = 2 THEN 65536 ELSE 65536 * 65536

\* A number that fits is read as it was written, wherever its bytes are.
LEMMA Unpacked ==
  ASSUME NEW x \in Nat, NEW w \in {1, 2, 4}, x < Room(w),
         NEW b, NEW from \in Nat, \A i \in 1..w : b[from + (i - 1)] = Little(x, w)[i]
  PROVE  Number(b, from, from + w - 1) = x
<1> DEFINE l == Little(x, w)
           x2 == x \div 256
           x3 == x2 \div 256
           x4 == x3 \div 256
<1>1. /\ Len(l) = w /\ \A i \in 1..w : l[i] \in Nat
      /\ l[1] = x % 256
      /\ w >= 2 => l[2] = x2 % 256
      /\ w >= 3 => l[3] = x3 % 256
      /\ w >= 4 => l[4] = x4 % 256
  <2>1. w \in 1..4
    OBVIOUS
  <2>2. /\ l \in Seq(Nat) /\ Len(l) = w
        /\ l[1] = x % 256
        /\ w >= 2 => l[2] = x2 % 256
        /\ w >= 3 => l[3] = x3 % 256
        /\ w >= 4 => l[4] = x4 % 256
    <3>1. BytesOf(l, x, w)
      BY <2>1, LittleIs, Zenon
    <3> HIDE DEF l
    <3> QED
      BY <3>1, Zenon DEF BytesOf
  <2> HIDE DEF l
  <2>3. \A i \in 1..w : l[i] \in Nat
    BY <2>2, ElementOfSeq
  <2> QED
    BY <2>2, <2>3, Zenon
<1>2. /\ x = 256 * x2 + (x % 256) /\ x2 \in Nat
      /\ x2 = 256 * x3 + (x2 % 256) /\ x3 \in Nat
      /\ x3 = 256 * x4 + (x3 % 256) /\ x4 \in Nat
  <2>1. x = 256 * x2 + (x % 256) /\ x2 \in Nat
    BY Division
  <2> HIDE DEF x2
  <2>2. x2 = 256 * x3 + (x2 % 256) /\ x3 \in Nat
    BY <2>1
  <2> HIDE DEF x3
  <2>3. x3 = 256 * x4 + (x3 % 256) /\ x4 \in Nat
    BY <2>2
  <2> QED
    BY <2>1, <2>2, <2>3
<1>3. /\ x % 256 \in 0..255 /\ x2 % 256 \in 0..255 /\ x3 % 256 \in 0..255
      /\ x4 < 256 => x4 % 256 = x4
  BY <1>2
<1> HIDE DEF l, x2, x3, x4
<1>4. /\ b[from] = l[1]
      /\ w >= 2 => b[from + 1] = l[2]
      /\ w >= 4 => b[from + 2] = l[3] /\ b[from + 3] = l[4]
  <2>1. \A i \in 1..w : b[from + (i - 1)] = l[i]
    BY DEF l
  <2>2. /\ 1 \in 1..w /\ from + (1 - 1) = from
        /\ w >= 2 => 2 \in 1..w /\ from + (2 - 1) = from + 1
        /\ w >= 4 => 3 \in 1..w /\ from + (3 - 1) = from + 2 /\ 4 \in 1..w /\ from + (4 - 1) = from + 3
    OBVIOUS
  <2> HIDE DEF l
  <2> QED
    BY <2>1, <2>2
<1>5. \A i \in 0..(w - 1) : b[from + i] \in Nat
  <2>1. ASSUME NEW i \in 0..(w - 1) PROVE b[from + i] \in Nat
    <3>1. PICK k \in 1..w : from + (k - 1) = from + i
      <4>1. i + 1 \in 1..w /\ from + ((i + 1) - 1) = from + i
        OBVIOUS
      <4> QED
        BY <4>1
    <3>2. b[from + (k - 1)] = l[k]
      BY Zenon DEF l
    <3>3. l[k] \in Nat
      BY <1>1, Zenon
    <3> QED
      BY <3>1, <3>2, <3>3, Zenon
  <2> QED
    BY <2>1
<1>6. Number(b, from, from + w - 1) =
        b[from] + 256 * (IF w = 1 THEN 0
          ELSE b[from + 1] + 256 * (IF w = 2 THEN 0
            ELSE b[from + 2] + 256 * (IF w = 3 THEN 0 ELSE b[from + 3])))
  <2>1. w \in 1..4
    OBVIOUS
  <2> QED
    BY <1>5, <2>1, NumberIs
<1>7. CASE w = 1
  <2>1. x2 = 0
    BY <1>2, <1>3, <1>7 DEF Room
  <2> QED
    BY <1>1, <1>2, <1>3, <1>4, <1>6, <1>7, <2>1
<1>8. CASE w = 2
  <2>1. x3 = 0
    BY <1>2, <1>3, <1>8 DEF Room
  <2> QED
    BY <1>1, <1>2, <1>3, <1>4, <1>6, <1>8, <2>1
<1>9. CASE w = 4
  <2>1. x4 < 256
    BY <1>2, <1>3, <1>9 DEF Room
  <2>2. x4 % 256 = x4
    BY <1>3, <2>1
  <2> QED
    BY <1>1, <1>2, <1>3, <1>4, <1>6, <1>9, <2>2
<1> QED
  BY <1>7, <1>8, <1>9
\* Strings that are equal and are cut at the same place have equal parts.
LEMMA CutEqual ==
  ASSUME NEW B, NEW x \in Seq(B), NEW y \in Seq(B), NEW u \in Seq(B), NEW v \in Seq(B),
         x \o y = u \o v, Len(x) = Len(u)
  PROVE  x = u /\ y = v
<1>1. /\ Len(x \o y) = Len(x) + Len(y) /\ Len(u \o v) = Len(u) + Len(v)
      /\ \A i \in 1..(Len(x) + Len(y)) : (x \o y)[i] = IF i <= Len(x) THEN x[i] ELSE y[i - Len(x)]
      /\ \A i \in 1..(Len(u) + Len(v)) : (u \o v)[i] = IF i <= Len(u) THEN u[i] ELSE v[i - Len(u)]
  BY ConcatProperties
<1>2. Len(x) \in Nat /\ Len(y) \in Nat /\ Len(v) = Len(y)
  BY <1>1
<1>3. x = u
  <2>1. \A i \in 1..Len(x) : x[i] = u[i]
    BY <1>1, <1>2
  <2> QED
    BY <2>1, SeqEqual
<1>4. y = v
  <2>1. ASSUME NEW i \in 1..Len(y) PROVE y[i] = v[i]
    <3>1. i + Len(x) \in 1..(Len(x) + Len(y)) /\ ~(i + Len(x) <= Len(x)) /\ (i + Len(x)) - Len(x) = i
      BY <1>2
    <3>2. (x \o y)[i + Len(x)] = y[i] /\ (u \o v)[i + Len(x)] = v[i]
      BY <1>1, <1>2, <3>1
    <3> QED
      BY <3>2
  <2> QED
    BY <1>2, <2>1, SeqEqual
<1> QED
  BY <1>3, <1>4

\* A string cut in two.
LEMMA CutInTwo ==
  ASSUME NEW B, NEW c \in Seq(B), NEW k \in 0..Len(c)
  PROVE  /\ SubSeq(c, 1, k) \in Seq(B) /\ SubSeq(c, k + 1, Len(c)) \in Seq(B)
         /\ Len(SubSeq(c, 1, k)) = k /\ Len(SubSeq(c, k + 1, Len(c))) = Len(c) - k
         /\ SubSeq(c, 1, k) \o SubSeq(c, k + 1, Len(c)) = c
<1> DEFINE x == SubSeq(c, 1, k)
           y == SubSeq(c, k + 1, Len(c))
           n == Len(c)
<1>1. n \in Nat /\ k \in Nat /\ k <= n
  BY LenProperties
<1>2. x \in Seq(B) /\ Len(x) = k /\ \A i \in 1..k : x[i] = c[i]
  <2>1. \A i \in 1..k : c[i] \in B
    BY <1>1, ElementOfSeq
  <2> QED
    BY <1>1, <2>1, SubSeqProperties
<1>3. y \in Seq(B) /\ Len(y) = n - k /\ \A i \in 1..(n - k) : y[i] = c[k + i]
  <2>1. \A i \in (k + 1)..n : c[i] \in B
    BY <1>1, ElementOfSeq
  <2> QED
    BY <1>1, <2>1, SubSeqProperties
<1> HIDE DEF x, y
<1>4. /\ x \o y \in Seq(B) /\ Len(x \o y) = n
      /\ \A i \in 1..n : (x \o y)[i] = IF i <= k THEN x[i] ELSE y[i - k]
  <2>1. k + (n - k) = n
    BY <1>1
  <2>2. x \o y \in Seq(B) /\ Len(x \o y) = Len(x) + Len(y)
        /\ \A i \in 1..(Len(x) + Len(y)) : (x \o y)[i] = IF i <= Len(x) THEN x[i] ELSE y[i - Len(x)]
    BY <1>2, <1>3, ConcatProperties
  <2>3. Len(x) = k /\ Len(y) = n - k
    BY <1>2, <1>3
  <2> HIDE DEF n
  <2> QED
    BY <2>1, <2>2, <2>3
<1>5. ASSUME NEW i \in 1..n PROVE (x \o y)[i] = c[i]
  <2>1. CASE i <= k
    <3>1. i \in 1..k
      BY <1>1, <2>1
    <3> QED
      BY <1>2, <1>4, <2>1, <3>1
  <2>2. CASE ~(i <= k)
    <3>1. i - k \in 1..(n - k) /\ k + (i - k) = i
      BY <1>1, <2>2
    <3> QED
      BY <1>3, <1>4, <2>2, <3>1
  <2> QED
    BY <2>1, <2>2
<1>6. x \o y = c
  BY <1>4, <1>5, SeqEqual DEF n
<1> QED
  BY <1>2, <1>3, <1>6 DEF x, y

\* Strings of bytes can be joined in any order.
LEMMA Associated ==
  \A x, y, z \in Seq(Nat) : (x \o y) \o z = x \o (y \o z)
<1>1. ASSUME NEW x \in Seq(Nat), NEW y \in Seq(Nat), NEW z \in Seq(Nat)
      PROVE  (x \o y) \o z = x \o (y \o z)
  BY ConcatAssociative, SMTT(30)
<1> QED
  BY <1>1

\* The same facts, by names that are looked up.
Tied(x, y, z) == (x \o y) \o z = x \o (y \o z)
CutAt(c, k) ==
  /\ SubSeq(c, 1, k) \in Seq(Nat) /\ SubSeq(c, k + 1, Len(c)) \in Seq(Nat)
  /\ Len(SubSeq(c, 1, k)) = k /\ Len(SubSeq(c, k + 1, Len(c))) = Len(c) - k
  /\ SubSeq(c, 1, k) \o SubSeq(c, k + 1, Len(c)) = c

LEMMA TiedIs == \A x, y, z \in Seq(Nat) : Tied(x, y, z)
  BY Associated, Zenon DEF Tied

LEMMA CutAtIs == \A c \in Seq(Nat) : \A k \in 0..Len(c) : CutAt(c, k)
  BY CutInTwo, ZenonT(60) DEF CutAt

-----------------------------------------------------------------------------
\* Sockets

\* goodread loses nothing: what it got, followed by what is left in the
\* chunks, is what was in the chunks q; and it goes on while bytes are missing.
Reading(s, q, length) ==
  /\ s \in [got : Seq(Nat), missing : Nat, rest : Seq(Seq(Nat))]
  /\ s.got \o FlattenSeq(s.rest) = FlattenSeq(q)
  /\ Len(s.got) + s.missing = length
  /\ s.missing > 0 => FlattenSeq(s.rest) = <<>>

\* What goodread makes of one more chunk.
Reads(p, c) ==
  LET k == IF Len(c) < p.missing THEN Len(c) ELSE p.missing
  IN  [got |-> p.got \o SubSeq(c, 1, k), missing |-> p.missing - k, rest |-> Append(p.rest, SubSeq(c, k + 1, Len(c)))]

LEMMA ReadStep ==
  ASSUME NEW q \in Seq(Seq(Nat)), NEW c \in Seq(Nat), NEW length \in Nat, NEW p, Reading(p, q, length)
  PROVE  Reading(Reads(p, c), Append(q, c), length)
<1> DEFINE k == IF Len(c) < p.missing THEN Len(c) ELSE p.missing
<1>1. PICK g, m, r : g = p.got /\ m = p.missing /\ r = p.rest
  OBVIOUS
<1>2. /\ g \in Seq(Nat) /\ m \in Nat /\ r \in Seq(Seq(Nat))
      /\ g \o FlattenSeq(r) = FlattenSeq(q) /\ Len(g) + m = length
      /\ m > 0 => FlattenSeq(r) = <<>>
  BY <1>1 DEF Reading
<1>3. k \in 0..Len(c) /\ k <= m /\ (k = Len(c) \/ k = m) /\ Len(c) \in Nat
  BY <1>1, <1>2
<1> HIDE DEF k
<1>4. PICK x, y : x = SubSeq(c, 1, k) /\ y = SubSeq(c, k + 1, Len(c))
  OBVIOUS
<1>5. x \in Seq(Nat) /\ y \in Seq(Nat) /\ Len(x) = k /\ Len(y) = Len(c) - k /\ x \o y = c
  BY <1>3, <1>4, CutInTwo
<1>6. Reads(p, c) = [got |-> g \o x, missing |-> m - k, rest |-> Append(r, y)]
  BY <1>1, <1>4, Zenon DEF Reads, k
<1>7. g \o x \in Seq(Nat) /\ Len(g \o x) = Len(g) + k /\ m - k \in Nat /\ Append(r, y) \in Seq(Seq(Nat))
  <2>1. g \o x \in Seq(Nat) /\ Len(g \o x) = Len(g) + Len(x)
    BY <1>2, <1>5, ConcatProperties
  <2>2. Append(r, y) \in Seq(Seq(Nat))
    BY <1>2, <1>5
  <2>3. m - k \in Nat
    BY <1>2, <1>3
  <2> QED
    BY <1>5, <2>1, <2>2, <2>3
<1>8. /\ FlattenSeq(r) \in Seq(Nat) /\ FlattenSeq(Append(r, y)) = FlattenSeq(r) \o y
      /\ FlattenSeq(q) \in Seq(Nat) /\ FlattenSeq(Append(q, c)) = FlattenSeq(q) \o c
  BY <1>2, <1>5, FlatAppend
<1>9. (g \o x) \o FlattenSeq(Append(r, y)) = FlattenSeq(Append(q, c))
  <2>1. PICK f : f = FlattenSeq(r)
    OBVIOUS
  <2>2. f \in Seq(Nat)
    BY <1>8, <2>1
  <2>3. (g \o f) \o (x \o y) = (g \o x) \o (f \o y)
    <3>1. CASE m > 0
      <4>1. f = <<>>
        BY <1>2, <2>1, <3>1
      <4>2. g \o f = g /\ f \o y = y
        BY <1>2, <1>5, <4>1, ConcatEmptySeq
      <4>0. g \in Seq(Nat) /\ x \in Seq(Nat) /\ y \in Seq(Nat)
        BY <1>2, <1>5
      <4>3. (g \o x) \o y = g \o (x \o y)
        BY <4>0, Associated, ZenonT(60)
      <4> QED
        BY <4>2, <4>3
    <3>2. CASE ~(m > 0)
      <4>1. k = 0 /\ Len(x) = 0
        BY <1>2, <1>3, <1>5, <3>2
      <4>2. x = <<>>
        BY <1>5, <4>1
      <4>3. x \o y = y /\ g \o x = g
        BY <1>2, <1>5, <4>2, ConcatEmptySeq
      <4>0. g \in Seq(Nat) /\ f \in Seq(Nat) /\ y \in Seq(Nat)
        BY <1>2, <1>5, <2>2
      <4>4. (g \o f) \o y = g \o (f \o y)
        BY <4>0, Associated
      <4> QED
        BY <4>3, <4>4
    <3> QED
      BY <3>1, <3>2
  <2> QED
    BY <1>2, <1>5, <1>8, <2>1, <2>3
<1>10. Len(g \o x) + (m - k) = length
  <2>1. PICK a, b : a = Len(g) /\ b = Len(g \o x)
    OBVIOUS
  <2>2. a \in Nat /\ k \in Nat /\ m \in Nat /\ b = a + k /\ a + m = length
    BY <1>2, <1>3, <1>7, <2>1
  <2>3. b + (m - k) = length
    BY <2>2
  <2> QED
    BY <2>1, <2>3
<1>11. m - k > 0 => FlattenSeq(Append(r, y)) = <<>>
  <2> SUFFICES ASSUME m - k > 0 PROVE FlattenSeq(Append(r, y)) = <<>>
    OBVIOUS
  <2>1. k = Len(c) /\ m > 0 /\ Len(y) = 0
    BY <1>2, <1>3, <1>5
  <2>2. y = <<>> /\ FlattenSeq(r) = <<>>
    BY <1>2, <1>5, <2>1
  <2> QED
    BY <1>5, <1>8, <2>2, ConcatEmptySeq
<1> DEFINE s == Reads(p, c)
<1>12. s.got = g \o x /\ s.missing = m - k /\ s.rest = Append(r, y)
       /\ s \in [got : Seq(Nat), missing : Nat, rest : Seq(Seq(Nat))]
  BY <1>6, <1>7
<1> HIDE DEF s
<1>13. Reading(s, Append(q, c), length)
  BY <1>9, <1>10, <1>11, <1>12 DEF Reading
<1> QED
  BY <1>13 DEF s
\* The first strings of a list, and one more.
LEMMA OneMore ==
  ASSUME NEW B, NEW q \in Seq(B), NEW i \in 0..(Len(q) - 1)
  PROVE  SubSeq(q, 1, i + 1) = Append(SubSeq(q, 1, i), q[i + 1])
<1> DEFINE x == SubSeq(q, 1, i)
           y == SubSeq(q, 1, i + 1)
<1>1. Len(q) \in Nat /\ i \in Nat /\ i + 1 \in 1..Len(q) /\ \A j \in 1..Len(q) : q[j] \in B
  BY ElementOfSeq
<1>2. x \in Seq(B) /\ Len(x) = i /\ \A j \in 1..i : x[j] = q[j]
  <2>1. \A j \in 1..i : q[j] \in B
    BY <1>1
  <2> QED
    BY <1>1, <2>1, SubSeqProperties
<1>3. y \in Seq(B) /\ Len(y) = i + 1 /\ \A j \in 1..(i + 1) : y[j] = q[j]
  <2>1. \A j \in 1..(i + 1) : q[j] \in B
    BY <1>1
  <2> QED
    BY <1>1, <2>1, SubSeqProperties
<1> HIDE DEF x, y
<1> DEFINE z == Append(x, q[i + 1])
<1>4. z \in Seq(B) /\ Len(z) = i + 1 /\ \A j \in 1..(i + 1) : z[j] = q[j]
  BY <1>1, <1>2
<1> HIDE DEF z
<1>5. y = z
  BY <1>3, <1>4, SeqEqual
<1> QED
  BY <1>5 DEF x, y, z

LEMMA WholeSeq ==
  ASSUME NEW B, NEW q \in Seq(B)
  PROVE  SubSeq(q, 1, Len(q)) = q
<1>1. Len(q) \in Nat /\ \A j \in 1..Len(q) : q[j] \in B
  BY ElementOfSeq
<1>2. SubSeq(q, 1, Len(q)) \in Seq(B) /\ Len(SubSeq(q, 1, Len(q))) = Len(q) /\ \A j \in 1..Len(q) : SubSeq(q, 1, Len(q))[j] = q[j]
  BY <1>1, SubSeqProperties
<1> QED
  BY <1>2, SeqEqual

LEMMA ReadIs ==
  ASSUME NEW q \in Seq(Seq(Nat)), NEW length \in Nat
  PROVE  Reading(GoodRead(q, length), q, length)
<1> DEFINE D == [got : Seq(Nat), missing : Nat, rest : Seq(Seq(Nat))]
           start == [got |-> <<>>, missing |-> length, rest |-> <<>>]
           n == Len(q)
           e(f, i) == IF i = 0 THEN start ELSE Reads(f[i - 1], q[i])
           s == CHOOSE f : f = [i \in 0..n |-> e(f, i)]
           o == [x \in Nat \X D |-> IF x[1] < n THEN Reads(x[2], q[x[1] + 1]) ELSE x[2]]
<1>1. GoodRead(q, length) = s[n]
  BY Zenon DEF GoodRead, Reads
<1>2. n \in Nat /\ \A i \in 1..n : q[i] \in Seq(Nat)
  BY ElementOfSeq
<1>3. start \in D
  OBVIOUS
<1>4. \A x \in D, c \in Seq(Nat) : Reads(x, c) \in D
  <2>1. ASSUME NEW x \in D, NEW c \in Seq(Nat) PROVE Reads(x, c) \in D
    <3> DEFINE k == IF Len(c) < x.missing THEN Len(c) ELSE x.missing
    <3>1. x.got \in Seq(Nat) /\ x.missing \in Nat /\ x.rest \in Seq(Seq(Nat)) /\ Len(c) \in Nat
      OBVIOUS
    <3>2. k \in 0..Len(c) /\ x.missing - k \in Nat
      BY <3>1
    <3> HIDE DEF k
    <3>3. SubSeq(c, 1, k) \in Seq(Nat) /\ SubSeq(c, k + 1, Len(c)) \in Seq(Nat)
      BY <3>2, CutInTwo
    <3>4. x.got \o SubSeq(c, 1, k) \in Seq(Nat) /\ Append(x.rest, SubSeq(c, k + 1, Len(c))) \in Seq(Seq(Nat))
      BY <3>1, <3>3
    <3>5. Reads(x, c) = [got |-> x.got \o SubSeq(c, 1, k), missing |-> x.missing - k,
                         rest |-> Append(x.rest, SubSeq(c, k + 1, Len(c)))]
      BY Zenon DEF Reads, k
    <3>6. PICK a, b, d : a = x.got \o SubSeq(c, 1, k) /\ b = x.missing - k /\ d = Append(x.rest, SubSeq(c, k + 1, Len(c)))
      OBVIOUS
    <3>7. a \in Seq(Nat) /\ b \in Nat /\ d \in Seq(Seq(Nat))
      BY <3>2, <3>4, <3>6
    <3>8. [got |-> a, missing |-> b, rest |-> d] \in D
      BY <3>7
    <3> HIDE DEF D
    <3> QED
      BY <3>5, <3>6, <3>8, Zenon
  <2> QED
    BY <2>1
<1> HIDE DEF start, n, D
<1>5. o \in [Nat \X D -> D]
  <2>1. \A x \in Nat \X D : x[1] < n => x[1] + 1 \in 1..n /\ x[2] \in D
    BY <1>2
  <2> QED
    BY <1>2, <1>4, <2>1
<1>6. \A i \in Nat, x \in D : i < n => o[<<i, x>>] = Reads(x, q[i + 1])
  OBVIOUS
<1> HIDE DEF o
<1>7. PICK h \in [Nat -> D] : Iterates(h, o, start)
  BY <1>3, <1>5, Iteration
<1> DEFINE g == [i \in 0..n |-> h[i]]
<1>8. g = [i \in 0..n |-> e(g, i)]
  <2>1. ASSUME NEW i \in 0..n PROVE h[i] = e(g, i)
    <3>1. CASE i = 0
      BY <1>7, <3>1 DEF Iterates
    <3>2. CASE i # 0
      <4>1. i - 1 \in Nat /\ i - 1 < n /\ (i - 1) + 1 = i /\ i - 1 \in 0..n
        BY <1>2, <3>2
      <4>2. h[(i - 1) + 1] = o[<<i - 1, h[i - 1]>>]
        BY <1>7, <4>1 DEF Iterates
      <4>3. h[i - 1] \in D /\ g[i - 1] = h[i - 1]
        BY <4>1
      <4>4. o[<<i - 1, h[i - 1]>>] = Reads(h[i - 1], q[(i - 1) + 1])
        BY <1>6, <4>1, <4>3
      <4> QED
        BY <3>2, <4>1, <4>2, <4>3, <4>4
    <3> QED
      BY <3>1, <3>2
  <2> QED
    BY <2>1
<1> HIDE DEF g
<1>9. s = [i \in 0..n |-> e(s, i)]
  <2> HIDE DEF e
  <2> QED
    BY <1>8, Zenon
<1> HIDE DEF s
<1>10. s[0] = start /\ \A i \in 1..n : s[i] = Reads(s[i - 1], q[i])
  <2>1. s[0] = e(s, 0)
    BY <1>2, <1>9
  <2>2. ASSUME NEW i \in 1..n PROVE s[i] = Reads(s[i - 1], q[i])
    <3>1. i \in 0..n /\ i # 0
      BY <1>2
    <3>2. s[i] = e(s, i)
      BY <1>9, <3>1
    <3> QED
      BY <3>1, <3>2
  <2> QED
    BY <2>1, <2>2
<1> HIDE DEF e
<1> DEFINE A == {i \in Nat : i <= n => Reading(s[i], SubSeq(q, 1, i), length)}
<1>11. 0 \in A
  <2>1. SubSeq(q, 1, 0) = <<>>
    BY SubSeqEmpty
  <2>2. start.got = <<>> /\ start.rest = <<>> /\ start.missing = length /\ start \in D
    BY <1>3 DEF start
  <2>3. <<>> \in Seq(Nat) /\ <<>> \o <<>> = <<>> /\ Len(<<>>) + length = length
    OBVIOUS
  <2>4. Reading(start, <<>>, length)
    BY <2>2, <2>3, FlatEmpty DEF Reading, D
  <2> QED
    BY <1>10, <2>1, <2>4
<1>12. ASSUME NEW i \in Nat, i \in A PROVE i + 1 \in A
  <2>1. ASSUME i + 1 <= n PROVE Reading(s[i + 1], SubSeq(q, 1, i + 1), length)
    <3>1. i <= n /\ i + 1 \in 1..n /\ (i + 1) - 1 = i /\ i \in 0..Len(q) /\ i \in 0..(Len(q) - 1)
      BY <1>2, <2>1 DEF n
    <3>2. Reading(s[i], SubSeq(q, 1, i), length)
      BY <1>12, <3>1
    <3>3. s[i + 1] = Reads(s[i], q[i + 1]) /\ q[i + 1] \in Seq(Nat)
      BY <1>2, <1>10, <3>1
    <3>4. SubSeq(q, 1, i) \in Seq(Seq(Nat))
      BY <3>1, CutInTwo
    <3>5. SubSeq(q, 1, i + 1) = Append(SubSeq(q, 1, i), q[i + 1])
      BY <3>1, OneMore
    <3> QED
      BY <3>2, <3>3, <3>4, <3>5, ReadStep
  <2> QED
    BY <2>1
<1> HIDE DEF A
<1>13. n \in A
  BY <1>2, <1>11, <1>12, Induction
<1>14. Reading(s[n], SubSeq(q, 1, n), length)
  BY <1>2, <1>13 DEF A
<1>15. SubSeq(q, 1, n) = q
  BY WholeSeq DEF n
<1> QED
  BY <1>1, <1>14, <1>15
\* goodread gets all it asks for if there is enough, and else waits.
LEMMA ReadWhole ==
  ASSUME NEW q \in Seq(Seq(Nat)), NEW x \in Seq(Nat), NEW y \in Seq(Nat), FlattenSeq(q) = x \o y
  PROVE  LET s == GoodRead(q, Len(x)) IN
         s.missing = 0 /\ s.got = x /\ s.rest \in Seq(Seq(Nat)) /\ FlattenSeq(s.rest) = y
<1> DEFINE s == GoodRead(q, Len(x))
<1>1. Reading(s, q, Len(x))
  BY ReadIs
<1> HIDE DEF s
<1>2. PICK g, m, r : g = s.got /\ m = s.missing /\ r = s.rest
  OBVIOUS
<1>3. /\ g \in Seq(Nat) /\ m \in Nat /\ r \in Seq(Seq(Nat))
      /\ g \o FlattenSeq(r) = x \o y /\ Len(g) + m = Len(x)
      /\ m > 0 => FlattenSeq(r) = <<>>
  BY <1>1, <1>2 DEF Reading
<1>4. FlattenSeq(r) \in Seq(Nat)
  <2>1. <<>> \in Seq(Nat)
    OBVIOUS
  <2> QED
    BY <1>3, <2>1, FlatAppend
<1>5. Len(g) \in Nat /\ Len(x) \in Nat /\ Len(y) \in Nat
  BY <1>3
<1>6. m = 0
  <2>1. ASSUME m > 0 PROVE FALSE
    <3>1. g \o <<>> = x \o y /\ g \o <<>> = g
      BY <1>3, <2>1, ConcatEmptySeq
    <3>2. Len(x \o y) = Len(x) + Len(y)
      BY ConcatProperties
    <3> QED
      BY <1>3, <1>5, <2>1, <3>1, <3>2
  <2> QED
    BY <1>3, <2>1
<1>7. Len(g) = Len(x)
  BY <1>3, <1>5, <1>6
<1>8. g = x /\ FlattenSeq(r) = y
  BY <1>3, <1>4, <1>7, CutEqual
<1> QED
  BY <1>2, <1>3, <1>6, <1>8 DEF s

LEMMA ReadShort ==
  ASSUME NEW q \in Seq(Seq(Nat)), NEW length \in Nat, Len(FlattenSeq(q)) < length
  PROVE  GoodRead(q, length).missing > 0
<1> DEFINE s == GoodRead(q, length)
<1>1. Reading(s, q, length)
  BY ReadIs
<1> HIDE DEF s
<1>2. PICK g, m, r : g = s.got /\ m = s.missing /\ r = s.rest
  OBVIOUS
<1>3. /\ g \in Seq(Nat) /\ m \in Nat /\ r \in Seq(Seq(Nat))
      /\ g \o FlattenSeq(r) = FlattenSeq(q) /\ Len(g) + m = length
  BY <1>1, <1>2 DEF Reading
<1>4. FlattenSeq(r) \in Seq(Nat)
  <2>1. <<>> \in Seq(Nat)
    OBVIOUS
  <2> QED
    BY <1>3, <2>1, FlatAppend
<1>5. Len(g \o FlattenSeq(r)) = Len(g) + Len(FlattenSeq(r)) /\ Len(g) \in Nat /\ Len(FlattenSeq(r)) \in Nat
  BY <1>3, <1>4, ConcatProperties
<1>6. m > 0
  BY <1>3, <1>5
<1> QED
  BY <1>2, <1>6 DEF s

\* A frame is the length of its content in four bytes, and the content.
LEMMA FrameIs ==
  ASSUME NEW m \in Seq(Nat)
  PROVE  \E l \in Seq(Nat) : /\ Len(l) = 4 /\ Frame(m) = l \o m
                             /\ Frame(m) \in Seq(Nat) /\ Len(Frame(m)) = Len(m) + 4
                             /\ Len(m) < Room(4) => Number(l, 1, 4) = Len(m)
<1>1. Len(m) \in Nat
  OBVIOUS
<1>2. PICK l : l = Little(Len(m), 4)
  OBVIOUS
<1>3. BytesOf(l, Len(m), 4)
  <2>1. 4 \in 1..4
    OBVIOUS
  <2> QED
    BY <1>1, <1>2, <2>1, LittleIs, Zenon
<1>4. l \in Seq(Nat) /\ Len(l) = 4
  BY <1>3, Zenon DEF BytesOf
<1>5. Len(m) < Room(4) => Number(l, 1, 4) = Len(m)
  <2>1. ASSUME Len(m) < Room(4) PROVE Number(l, 1, 4) = Len(m)
    <3>1. 4 \in {1, 2, 4} /\ 1 \in Nat /\ 1 + 4 - 1 = 4 /\ \A i \in 1..4 : 1 + (i - 1) = i
      OBVIOUS
    <3>2. \A i \in 1..4 : l[1 + (i - 1)] = Little(Len(m), 4)[i]
      BY <1>2, <3>1, Zenon
    <3>3. Number(l, 1, 1 + 4 - 1) = Len(m)
      BY <1>1, <2>1, <3>1, <3>2, Unpacked, ZenonT(60)
    <3> QED
      BY <3>1, <3>3, Zenon
  <2> QED
    BY <2>1
<1>6. Frame(m) = l \o m
  BY <1>2, Zenon DEF Frame
<1>7. PICK f : f = Frame(m)
  OBVIOUS
<1>8. f \in Seq(Nat) /\ Len(f) = Len(m) + 4
  <2>1. f \in Seq(Nat) /\ Len(f) = Len(l) + Len(m)
    BY <1>4, <1>6, <1>7, ConcatProperties, ZenonT(60)
  <2> QED
    BY <1>1, <1>4, <2>1
<1> QED
  BY <1>4, <1>5, <1>6, <1>7, <1>8, Zenon

\* A whole frame is read, with what comes after it left over.
LEMMA FrameRead ==
  ASSUME NEW q \in Seq(Seq(Nat)), NEW m \in Seq(Nat), Len(m) < Room(4), NEW y \in Seq(Nat),
         FlattenSeq(q) = Frame(m) \o y
  PROVE  /\ ~Stuck(q)
         /\ Content(q).got = m
         /\ Content(q).rest \in Seq(Seq(Nat))
         /\ FlattenSeq(Content(q).rest) = y
<1>1. PICK l \in Seq(Nat) : Len(l) = 4 /\ Frame(m) = l \o m /\ Number(l, 1, 4) = Len(m)
  BY FrameIs
<1>2. FlattenSeq(q) = l \o (m \o y) /\ m \o y \in Seq(Nat)
  <2>1. (l \o m) \o y = l \o (m \o y)
    BY Associated
  <2>2. m \o y \in Seq(Nat)
    BY ConcatProperties
  <2> QED
    BY <1>1, <2>1, <2>2
<1> DEFINE s == GoodRead(q, 4)
<1>3. s.missing = 0 /\ s.got = l /\ s.rest \in Seq(Seq(Nat)) /\ FlattenSeq(s.rest) = m \o y
  <2>1. LET u == GoodRead(q, Len(l)) IN
        u.missing = 0 /\ u.got = l /\ u.rest \in Seq(Seq(Nat)) /\ FlattenSeq(u.rest) = m \o y
    BY <1>2, ReadWhole, Zenon
  <2> QED
    BY <1>1, <2>1
<1>4. Content(q) = GoodRead(s.rest, Len(m))
  <2>1. Content(q) = GoodRead(s.rest, Number(s.got, 1, 4))
    BY Zenon DEF Content
  <2> HIDE DEF s
  <2> QED
    BY <1>1, <1>3, <2>1, Zenon
<1>5. Stuck(q) <=> s.missing > 0 \/ Content(q).missing > 0
  BY Zenon DEF Stuck
<1> HIDE DEF s
<1>6. PICK r : r = s.rest
  OBVIOUS
<1>7. LET u == GoodRead(r, Len(m)) IN
      u.missing = 0 /\ u.got = m /\ u.rest \in Seq(Seq(Nat)) /\ FlattenSeq(u.rest) = y
  BY <1>3, <1>6, ReadWhole
<1>8. PICK c : c = Content(q)
  OBVIOUS
<1>9. c.missing = 0 /\ c.got = m /\ c.rest \in Seq(Seq(Nat)) /\ FlattenSeq(c.rest) = y
  BY <1>4, <1>6, <1>7, <1>8, Zenon
<1>10. ~(0 > 0)
  OBVIOUS
<1>11. ~Stuck(q)
  BY <1>3, <1>5, <1>8, <1>9, <1>10, Zenon
<1> QED
  BY <1>8, <1>9, <1>11, Zenon

\* t is what has come of a frame so far: less than all of it, or nothing.
Partial(t) ==
  \E m \in Seq(Nat), d \in Nat :
    Len(m) < Room(4) /\ d < Len(Frame(m)) /\ t = SubSeq(Frame(m), 1, d)

\* While a frame has not come as a whole, the receiver waits.
LEMMA FrameShort ==
  ASSUME NEW q \in Seq(Seq(Nat)), Partial(FlattenSeq(q))
  PROVE  Stuck(q)
<1>1. PICK m \in Seq(Nat), d \in Nat :
        Len(m) < Room(4) /\ d < Len(Frame(m)) /\ FlattenSeq(q) = SubSeq(Frame(m), 1, d)
  BY DEF Partial
<1>2. PICK l \in Seq(Nat) : /\ Len(l) = 4 /\ Frame(m) = l \o m /\ Frame(m) \in Seq(Nat)
                            /\ Len(Frame(m)) = Len(m) + 4 /\ Number(l, 1, 4) = Len(m)
  BY <1>1, FrameIs
<1>3. PICK f : f = Frame(m)
  OBVIOUS
<1>4. f \in Seq(Nat) /\ Len(f) = Len(m) + 4 /\ f = l \o m /\ d < Len(f) /\ FlattenSeq(q) = SubSeq(f, 1, d) /\ Len(m) \in Nat
  BY <1>1, <1>2, <1>3
<1>5. d \in 0..Len(f)
  BY <1>4
<1>6. PICK u, v : u = SubSeq(f, 1, d) /\ v = SubSeq(f, d + 1, Len(f))
  OBVIOUS
<1>7. u \in Seq(Nat) /\ v \in Seq(Nat) /\ Len(u) = d /\ u \o v = f
  <2>1. SubSeq(f, 1, d) \in Seq(Nat) /\ SubSeq(f, d + 1, Len(f)) \in Seq(Nat)
        /\ Len(SubSeq(f, 1, d)) = d /\ SubSeq(f, 1, d) \o SubSeq(f, d + 1, Len(f)) = f
    <3>1. f \in Seq(Nat)
      BY <1>4
    <3> QED
      BY <1>5, <3>1, CutInTwo
  <2> QED
    BY <1>6, <2>1, Zenon
<1>8. CASE d < 4
  <2>1. Len(FlattenSeq(q)) < 4
    BY <1>4, <1>6, <1>7, <1>8
  <2>2. GoodRead(q, 4).missing > 0
    BY <2>1, ReadShort
  <2> QED
    BY <2>2, Zenon DEF Stuck
<1>9. CASE ~(d < 4)
  <2>1. 4 \in 0..Len(u) /\ Len(u) \in Nat
    BY <1>7, <1>9
  <2>2. PICK x, y : x = SubSeq(u, 1, 4) /\ y = SubSeq(u, 4 + 1, Len(u))
    OBVIOUS
  <2>3. x \in Seq(Nat) /\ y \in Seq(Nat) /\ Len(x) = 4 /\ Len(y) = Len(u) - 4 /\ x \o y = u
    BY <1>7, <2>1, <2>2, CutInTwo
  <2>4. x = l
    <3>1. x \o (y \o v) = l \o m /\ y \o v \in Seq(Nat)
      <4>1. (x \o y) \o v = x \o (y \o v)
        <5>1. x \in Seq(Nat) /\ y \in Seq(Nat) /\ v \in Seq(Nat)
          BY <1>7, <2>3
        <5>2. Tied(x, y, v)
          BY <5>1, TiedIs, Zenon
        <5> QED
          BY <5>2, Zenon DEF Tied
      <4>2. y \o v \in Seq(Nat)
        BY <1>7, <2>3, ConcatProperties
      <4> QED
        BY <1>4, <1>7, <2>3, <4>1, <4>2
    <3>2. Len(x) = Len(l)
      BY <1>2, <2>3
    <3> QED
      BY <2>3, <3>1, <3>2, CutEqual
  <2> DEFINE s == GoodRead(q, 4)
  <2>5. s.got = l /\ s.rest \in Seq(Seq(Nat)) /\ FlattenSeq(s.rest) = y
    <3>1. FlattenSeq(q) = x \o y
      BY <1>4, <1>6, <2>3
    <3>2. LET w == GoodRead(q, Len(x)) IN
          w.missing = 0 /\ w.got = x /\ w.rest \in Seq(Seq(Nat)) /\ FlattenSeq(w.rest) = y
      <4>1. x \in Seq(Nat) /\ y \in Seq(Nat)
        BY <2>3
      <4> QED
        BY <3>1, <4>1, ReadWhole, Zenon
    <3> QED
      BY <2>3, <2>4, <3>2, Zenon
  <2>6. Content(q) = GoodRead(s.rest, Number(s.got, 1, 4))
    BY Zenon DEF Content
  <2> HIDE DEF s
  <2>7. PICK r : r = s.rest
    OBVIOUS
  <2>8. Len(FlattenSeq(r)) < Len(m)
    BY <1>4, <1>7, <2>3, <2>5, <2>7
  <2>9. GoodRead(r, Len(m)).missing > 0
    BY <1>4, <2>5, <2>7, <2>8, ReadShort
  <2>10. Content(q).missing > 0
    BY <1>2, <2>5, <2>6, <2>7, <2>9, Zenon
  <2> QED
    BY <2>10, Zenon DEF Stuck
<1> QED
  BY <1>8, <1>9
\* The stream of a list of contents with one more.
LEMMA StreamAppend ==
  ASSUME NEW ms \in Seq(Seq(Nat)), NEW m \in Seq(Nat)
  PROVE  Stream(ms) \in Seq(Nat) /\ Stream(Append(ms, m)) = Stream(ms) \o Frame(m)
<1> DEFINE fs == [k \in DOMAIN ms |-> Frame(ms[k])]
           gs == [k \in DOMAIN Append(ms, m) |-> Frame(Append(ms, m)[k])]
           n == Len(ms)
<1>1. \A x \in Seq(Nat) : Frame(x) \in Seq(Nat)
  BY FrameIs
<1>2. n \in Nat /\ DOMAIN ms = 1..n /\ \A k \in 1..n : ms[k] \in Seq(Nat)
  BY ElementOfSeq
<1>3. /\ DOMAIN Append(ms, m) = 1..(n + 1) /\ Append(ms, m)[n + 1] = m
      /\ \A k \in 1..n : Append(ms, m)[k] = ms[k]
  OBVIOUS
<1>4. Stream(ms) = FlattenSeq(fs) /\ Stream(Append(ms, m)) = FlattenSeq(gs)
  BY Zenon DEF Stream
<1> HIDE DEF n
<1>5. fs \in Seq(Seq(Nat)) /\ Len(fs) = n
  BY <1>1, <1>2
<1>6. PICK f : f = Frame(m)
  OBVIOUS
<1>7. f \in Seq(Nat)
  BY <1>1, <1>6
<1>8. gs = Append(fs, f)
  <2>1. /\ Append(fs, f) \in Seq(Seq(Nat)) /\ Len(Append(fs, f)) = n + 1 /\ Append(fs, f)[n + 1] = f
        /\ \A k \in 1..n : Append(fs, f)[k] = fs[k]
    BY <1>5, <1>7, AppendProperties
  <2>2. \A k \in 1..n : gs[k] = fs[k]
    BY <1>2, <1>3
  <2>3. gs[n + 1] = f
    BY <1>2, <1>3, <1>6
  <2>4. ASSUME NEW k \in 1..(n + 1) PROVE gs[k] = Append(fs, f)[k]
    <3>1. k = n + 1 \/ k \in 1..n
      BY <1>2
    <3> HIDE DEF fs, gs
    <3> QED
      BY <2>1, <2>2, <2>3, <3>1, Zenon
  <2>5. gs = [k \in 1..(n + 1) |-> gs[k]]
    BY <1>3
  <2>6. Append(fs, f) = [k \in 1..(n + 1) |-> Append(fs, f)[k]]
    BY <1>2, <2>1
  <2> HIDE DEF fs, gs
  <2> QED
    BY <2>4, <2>5, <2>6, Zenon
<1> HIDE DEF fs, gs
<1>9. FlattenSeq(fs) \in Seq(Nat) /\ FlattenSeq(Append(fs, f)) = FlattenSeq(fs) \o f
  BY <1>5, <1>7, FlatAppend
<1> QED
  BY <1>4, <1>6, <1>8, <1>9, Zenon

LEMMA StreamEmpty == Stream(<<>>) = <<>>
<1>1. [k \in DOMAIN <<>> |-> Frame(<<>>[k])] = <<>>
  OBVIOUS
<1> QED
  BY <1>1, FlatEmpty, Zenon DEF Stream

\* The stream of the first contents is a stream, and grows by frames.
LEMMA StreamStep ==
  ASSUME NEW ms \in Seq(Seq(Nat)), NEW i \in 0..(Len(ms) - 1)
  PROVE  /\ Stream(SubSeq(ms, 1, i)) \in Seq(Nat)
         /\ ms[i + 1] \in Seq(Nat)
         /\ Frame(ms[i + 1]) \in Seq(Nat)
         /\ Stream(SubSeq(ms, 1, i + 1)) = Stream(SubSeq(ms, 1, i)) \o Frame(ms[i + 1])
<1>1. Len(ms) \in Nat /\ i + 1 \in 1..Len(ms) /\ i \in 0..Len(ms)
  BY LenProperties
<1>2. ms[i + 1] \in Seq(Nat)
  BY <1>1, ElementOfSeq
<1>3. SubSeq(ms, 1, i) \in Seq(Seq(Nat))
  BY <1>1, CutInTwo
<1>4. SubSeq(ms, 1, i + 1) = Append(SubSeq(ms, 1, i), ms[i + 1])
  BY OneMore
<1>5. Frame(ms[i + 1]) \in Seq(Nat)
  BY <1>2, FrameIs
<1> QED
  BY <1>2, <1>3, <1>4, <1>5, StreamAppend

\* What follows the first contents in a stream.
LEMMA StreamFront ==
  ASSUME NEW ms \in Seq(Seq(Nat))
  PROVE  \A i \in 0..Len(ms) : /\ Stream(SubSeq(ms, 1, i)) \in Seq(Nat)
                               /\ \E z \in Seq(Nat) : Stream(ms) = Stream(SubSeq(ms, 1, i)) \o z
<1> DEFINE n == Len(ms)
           P(i) == Stream(SubSeq(ms, 1, i))
           A == {d \in Nat : d <= n => \E z \in Seq(Nat) : Stream(ms) = P(n - d) \o z}
<1>1. n \in Nat /\ Stream(ms) = P(n) /\ <<>> \in Seq(Nat)
  <2>1. SubSeq(ms, 1, n) = ms
    BY WholeSeq
  <2>2. n \in Nat /\ <<>> \in Seq(Nat)
    OBVIOUS
  <2> QED
    BY <2>1, <2>2, Zenon
<1>2. \A i \in 0..n : P(i) \in Seq(Nat)
  <2>1. ASSUME NEW i \in 0..n PROVE P(i) \in Seq(Nat)
    <3>1. SubSeq(ms, 1, i) \in Seq(Seq(Nat))
      BY CutInTwo
    <3> QED
      BY <1>1, <3>1, StreamAppend
  <2> QED
    BY <2>1
<1>3. ASSUME NEW i \in Nat, i < n
      PROVE  P(i + 1) = P(i) \o Frame(ms[i + 1]) /\ Frame(ms[i + 1]) \in Seq(Nat)
  <2>1. i \in 0..(n - 1)
    BY <1>1, <1>3
  <2> QED
    BY <2>1, StreamStep
<1> HIDE DEF P, n
<1>4. 0 \in A
  <2>1. n - 0 = n /\ n \in 0..n
    BY <1>1
  <2>2. Stream(ms) = P(n) \o <<>>
    BY <1>1, <1>2, <2>1, ConcatEmptySeq
  <2> QED
    BY <1>1, <2>1, <2>2
<1>5. ASSUME NEW d \in Nat, d \in A PROVE d + 1 \in A
  <2>1. ASSUME d + 1 <= n PROVE \E z \in Seq(Nat) : Stream(ms) = P(n - (d + 1)) \o z
    <3>1. PICK z \in Seq(Nat) : Stream(ms) = P(n - d) \o z
      <4>1. d <= n
        BY <1>1, <2>1
      <4> QED
        BY <1>5, <4>1, Zenon
    <3>2. PICK i \in Nat : i = n - (d + 1)
      BY <1>1, <2>1
    <3>3. i < n /\ i + 1 = n - d /\ i \in 0..n
      BY <1>1, <3>2
    <3>4. PICK p, f : p = P(i) /\ f = Frame(ms[i + 1])
      OBVIOUS
    <3>5. P(n - d) = p \o f /\ f \in Seq(Nat) /\ p \in Seq(Nat)
      BY <1>2, <1>3, <3>3, <3>4
    <3>6. (p \o f) \o z = p \o (f \o z) /\ f \o z \in Seq(Nat)
      <4>1. f \o z \in Seq(Nat)
        BY <3>5, ConcatProperties
      <4> QED
        BY <3>5, <4>1, Associated
    <3>7. Stream(ms) = p \o (f \o z)
      BY <3>1, <3>5, <3>6, Zenon
    <3> QED
      BY <3>2, <3>4, <3>6, <3>7, Zenon
  <2>2. d + 1 \in Nat
    OBVIOUS
  <2> QED
    BY <2>1, <2>2, Zenon
<1> HIDE DEF A
<1>6. \A d \in Nat : d \in A
  BY <1>4, <1>5, Induction
<1>7. ASSUME NEW i \in 0..n PROVE \E z \in Seq(Nat) : Stream(ms) = P(i) \o z
  <2>1. n - i \in Nat /\ n - (n - i) = i /\ n - i <= n
    BY <1>1
  <2> QED
    BY <1>6, <2>1 DEF A
<1> QED
  BY <1>2, <1>7 DEF P, n

\* There are no more frames in a stream than bytes.
LEMMA StreamLong ==
  ASSUME NEW ms \in Seq(Seq(Nat))
  PROVE  Len(Stream(ms)) >= Len(ms) /\ Stream(ms) \in Seq(Nat)
<1> DEFINE n == Len(ms)
           A == {i \in Nat : i <= n => Len(Stream(SubSeq(ms, 1, i))) >= i}
<1>1. n \in Nat /\ SubSeq(ms, 1, n) = ms
  BY WholeSeq
<1>2. \A i \in 0..n : Stream(SubSeq(ms, 1, i)) \in Seq(Nat)
  BY StreamFront
<1>3. 0 \in A
  <2>1. Len(Stream(SubSeq(ms, 1, 0))) \in Nat
    <3>1. 0 \in 0..n
      BY <1>1
    <3> QED
      BY <1>2, <3>1
  <2> QED
    BY <2>1
<1>4. ASSUME NEW i \in Nat, i \in A PROVE i + 1 \in A
  <2>1. ASSUME i + 1 <= n PROVE Len(Stream(SubSeq(ms, 1, i + 1))) >= i + 1
    <3>1. i \in 0..(n - 1) /\ i <= n
      BY <1>1, <2>1
    <3>2. PICK p, f, x : p = Stream(SubSeq(ms, 1, i)) /\ x = ms[i + 1] /\ f = Frame(x)
      OBVIOUS
    <3>3. p \in Seq(Nat) /\ f \in Seq(Nat) /\ x \in Seq(Nat) /\ Stream(SubSeq(ms, 1, i + 1)) = p \o f
      BY <3>1, <3>2, StreamStep
    <3>4. Len(p) >= i
      BY <1>4, <3>1, <3>2
    <3>5. Len(f) = Len(x) + 4 /\ Len(x) \in Nat
      <4>1. Len(Frame(x)) = Len(x) + 4
        BY <3>3, FrameIs, Zenon
      <4> QED
        BY <3>2, <3>3, <4>1
    <3>6. Len(p \o f) = Len(p) + Len(f) /\ Len(p) \in Nat
      BY <3>3, ConcatProperties
    <3> QED
      BY <3>3, <3>4, <3>5, <3>6
  <2> QED
    BY <2>1
<1> HIDE DEF A
<1>5. n \in A
  BY <1>1, <1>3, <1>4, Induction
<1>6. Len(Stream(SubSeq(ms, 1, n))) >= n
  BY <1>1, <1>5 DEF A
<1>7. n \in 0..n
  BY <1>1
<1>8. Stream(SubSeq(ms, 1, n)) \in Seq(Nat)
  BY <1>2, <1>7, Zenon
<1> QED
  BY <1>1, <1>6, <1>8, Zenon

\* The receiver has queued the first i contents of ms, and has still to read
\* the rest of them and t.
Queued(p, ms, t, i) ==
  /\ p \in [queued : Seq(Seq(Nat)), rest : Seq(Seq(Nat))]
  /\ p.queued = SubSeq(ms, 1, i)
  /\ Stream(SubSeq(ms, 1, i)) \o FlattenSeq(p.rest) = Stream(ms) \o t

\* One round of the loop of listen_to_channel.
Round(p) ==
  IF Stuck(p.rest) THEN p
  ELSE [queued |-> Append(p.queued, Content(p.rest).got), rest |-> Content(p.rest).rest]

\* While there are frames, a round reads the next one; then the receiver waits.
LEMMA RoundStep ==
  ASSUME NEW ms \in Seq(Seq(Nat)), \A k \in 1..Len(ms) : Len(ms[k]) < Room(4),
         NEW t \in Seq(Nat), Partial(t),
         NEW p, NEW i \in 0..Len(ms), Queued(p, ms, t, i)
  PROVE  /\ i < Len(ms) => ~Stuck(p.rest) /\ Queued(Round(p), ms, t, i + 1)
         /\ i = Len(ms) => Stuck(p.rest) /\ Queued(Round(p), ms, t, i)
<1>0. Len(ms) \in Nat /\ i \in Nat
  BY LenProperties
<1>1. PICK q, r, w : q = p.queued /\ r = p.rest /\ w = FlattenSeq(r)
  OBVIOUS
<1>2. q \in Seq(Seq(Nat)) /\ r \in Seq(Seq(Nat)) /\ q = SubSeq(ms, 1, i)
  BY <1>1 DEF Queued
<1>3. w \in Seq(Nat)
  <2>1. <<>> \in Seq(Nat)
    OBVIOUS
  <2> QED
    BY <1>1, <1>2, <2>1, FlatAppend
<1>4. PICK u : u = Stream(SubSeq(ms, 1, i))
  OBVIOUS
<1>5. u \in Seq(Nat) /\ u \o w = Stream(ms) \o t
  BY <1>1, <1>4, StreamFront DEF Queued
<1>6. ASSUME i < Len(ms) PROVE ~Stuck(p.rest) /\ Queued(Round(p), ms, t, i + 1)
  <2>1. i \in 0..(Len(ms) - 1) /\ i + 1 \in 0..Len(ms) /\ i + 1 \in 1..Len(ms)
    BY <1>0, <1>6
  <2>2. PICK x, f : x = ms[i + 1] /\ f = Frame(x)
    OBVIOUS
  <2>3. x \in Seq(Nat) /\ f \in Seq(Nat) /\ Stream(SubSeq(ms, 1, i + 1)) = u \o f
    BY <1>4, <2>1, <2>2, StreamStep
  <2>4. PICK z \in Seq(Nat) : Stream(ms) = (u \o f) \o z
    BY <2>1, <2>3, StreamFront
  <2>5. PICK y : y = z \o t
    OBVIOUS
  <2>6. /\ y \in Seq(Nat) /\ f \o y \in Seq(Nat)
        /\ ((u \o f) \o z) \o t = (u \o f) \o y
        /\ (u \o f) \o y = u \o (f \o y)
    <3>1. y \in Seq(Nat)
      BY <2>5, ConcatProperties
    <3>2. f \o y \in Seq(Nat) /\ u \o f \in Seq(Nat)
      BY <1>5, <2>3, <3>1, ConcatProperties
    <3>3. ((u \o f) \o z) \o t = (u \o f) \o (z \o t)
      <4>1. PICK v : v = u \o f
        OBVIOUS
      <4>2. v \in Seq(Nat) /\ z \in Seq(Nat) /\ t \in Seq(Nat)
        BY <3>2, <4>1
      <4>3. Tied(v, z, t)
        BY <4>2, TiedIs, Zenon
      <4> QED
        BY <4>1, <4>3, Zenon DEF Tied
    <3>4. (u \o f) \o y = u \o (f \o y)
      BY <1>5, <2>3, <3>1, Associated, ZenonT(60)
    <3> QED
      BY <2>5, <3>1, <3>2, <3>3, <3>4, Zenon
  <2>7. w = f \o y
    <3>1. u \o w = u \o (f \o y)
      BY <1>5, <2>4, <2>6, Zenon
    <3> QED
      BY <1>3, <1>5, <2>6, <3>1, CutEqual
  <2>8. Len(x) < Room(4)
    BY <2>1, <2>2
  <2>9. PICK c : c = Content(r)
    OBVIOUS
  <2>10. ~Stuck(r) /\ c.got = x /\ c.rest \in Seq(Seq(Nat)) /\ FlattenSeq(c.rest) = y
    <3>1. FlattenSeq(r) = Frame(x) \o y
      BY <1>1, <2>2, <2>7, Zenon
    <3>2. r \in Seq(Seq(Nat)) /\ x \in Seq(Nat) /\ y \in Seq(Nat)
      BY <1>2, <2>3, <2>6
    <3> QED
      BY <2>8, <2>9, <3>1, <3>2, FrameRead, Zenon
  <2>11. PICK q2, r2 : q2 = Append(q, x) /\ r2 = c.rest
    OBVIOUS
  <2>12. Round(p) = [queued |-> q2, rest |-> r2]
    BY <1>1, <2>9, <2>10, <2>11, Zenon DEF Round
  <2>13. q2 \in Seq(Seq(Nat)) /\ r2 \in Seq(Seq(Nat)) /\ FlattenSeq(r2) = y
    BY <1>2, <2>3, <2>10, <2>11
  <2>14. q2 = SubSeq(ms, 1, i + 1)
    BY <1>2, <2>1, <2>2, <2>11, OneMore
  <2>15. Stream(SubSeq(ms, 1, i + 1)) \o y = Stream(ms) \o t
    BY <2>3, <2>4, <2>6, Zenon
  <2>16. PICK p2 : p2 = [queued |-> q2, rest |-> r2]
    OBVIOUS
  <2>17. p2 \in [queued : Seq(Seq(Nat)), rest : Seq(Seq(Nat))] /\ p2.queued = q2 /\ p2.rest = r2
    BY <2>13, <2>16
  <2>18. Queued(p2, ms, t, i + 1)
    BY <2>13, <2>14, <2>15, <2>17, Zenon DEF Queued
  <2> QED
    BY <1>1, <2>10, <2>12, <2>16, <2>18, Zenon
<1>7. ASSUME i = Len(ms) PROVE Stuck(p.rest) /\ Queued(Round(p), ms, t, i)
  <2>1. u = Stream(ms)
    BY <1>4, <1>7, WholeSeq
  <2>2. w = t
    BY <1>3, <1>5, <2>1, CutEqual
  <2>3. Stuck(r)
    BY <1>1, <1>2, <2>2, FrameShort
  <2> QED
    BY <1>1, <2>3, Zenon DEF Round
<1> QED
  BY <1>6, <1>7

\* Nothing of a frame is less than all of it.
LEMMA PartialEmpty == Partial(<<>>) /\ <<>> \in Seq(Nat)
<1>1. <<>> \in Seq(Nat) /\ Len(<<>>) = 0 /\ 0 \in Nat
  OBVIOUS
<1>2. 0 < Room(4)
  BY DEF Room
<1>3. Len(Frame(<<>>)) = Len(<<>>) + 4
  BY <1>1, FrameIs, Zenon
<1>4. 0 < Len(Frame(<<>>))
  BY <1>1, <1>3
<1>5. <<>> = SubSeq(Frame(<<>>), 1, 0)
  BY SubSeqEmpty
<1>6. Len(<<>>) < Room(4)
  BY <1>1, <1>2, Zenon
<1> QED
  BY <1>1, <1>4, <1>5, <1>6, Zenon DEF Partial

\* What is queued when the loop waits: all contents that have come as a whole.
LEMMA ContentsAre ==
  ASSUME NEW ms \in Seq(Seq(Nat)), \A k \in 1..Len(ms) : Len(ms[k]) < Room(4),
         NEW t \in Seq(Nat), Partial(t),
         NEW chunks \in Seq(Seq(Nat)), FlattenSeq(chunks) = Stream(ms) \o t
  PROVE  Contents(chunks) = ms
<1> DEFINE start == [queued |-> <<>>, rest |-> chunks]
           n == Len(ms)
           D == {p \in [queued : Seq(Seq(Nat)), rest : Seq(Seq(Nat))] : \E i \in 0..n : Queued(p, ms, t, i)}
           e(f, j) == IF j = 0 THEN start ELSE Round(f[j - 1])
           at == CHOOSE f : f = [j \in Nat |-> e(f, j)]
           last == CHOOSE j \in 0..Len(FlattenSeq(chunks)) : Stuck(at[j].rest)
           o == [x \in Nat \X D |-> Round(x[2])]
<1>1. Contents(chunks) = at[last].queued
  BY Zenon DEF Contents, Round
<1>2. n \in Nat
  OBVIOUS
<1>3. Queued(start, ms, t, 0)
  <2>1. SubSeq(ms, 1, 0) = <<>>
    BY SubSeqEmpty
  <2>2. start \in [queued : Seq(Seq(Nat)), rest : Seq(Seq(Nat))] /\ start.queued = <<>> /\ start.rest = chunks
    OBVIOUS
  <2>3. Stream(<<>>) \o FlattenSeq(chunks) = Stream(ms) \o t
    <3>1. Stream(ms) \o t \in Seq(Nat)
      <4>1. Stream(ms) \in Seq(Nat)
        BY StreamLong
      <4> QED
        BY <4>1, ConcatProperties
    <3> QED
      BY <3>1, StreamEmpty, ConcatEmptySeq
  <2> HIDE DEF start
  <2> QED
    BY <2>1, <2>2, <2>3, Zenon DEF Queued
<1>4. \A p, i : i \in 0..n /\ Queued(p, ms, t, i) =>
        /\ i < n => ~Stuck(p.rest) /\ Queued(Round(p), ms, t, i + 1)
        /\ i = n => Stuck(p.rest) /\ Queued(Round(p), ms, t, i)
  <2>1. ASSUME NEW p, NEW i \in 0..n, Queued(p, ms, t, i)
        PROVE  /\ i < n => ~Stuck(p.rest) /\ Queued(Round(p), ms, t, i + 1)
               /\ i = n => Stuck(p.rest) /\ Queued(Round(p), ms, t, i)
    BY <2>1, RoundStep
  <2> QED
    BY <2>1
<1> HIDE DEF start, n
<1>5. \A p \in D : Round(p) \in D
  <2>1. ASSUME NEW p \in D PROVE Round(p) \in D
    <3>1. PICK i \in 0..n : Queued(p, ms, t, i)
      OBVIOUS
    <3>2. PICK k \in 0..n : Queued(Round(p), ms, t, k)
      <4>1. i < n => i + 1 \in 0..n
        BY <1>2
      <4>2. i < n \/ i = n
        BY <1>2
      <4> QED
        BY <1>4, <3>1, <4>1, <4>2, Zenon
    <3>3. Round(p) \in [queued : Seq(Seq(Nat)), rest : Seq(Seq(Nat))]
      BY <3>2, Zenon DEF Queued
    <3> QED
      BY <3>2, <3>3, Zenon
  <2> QED
    BY <2>1
<1>6. start \in D
  <2>1. 0 \in 0..n
    BY <1>2
  <2>2. start \in [queued : Seq(Seq(Nat)), rest : Seq(Seq(Nat))]
    BY <1>3, Zenon DEF Queued
  <2> QED
    BY <1>3, <2>1, <2>2, Zenon
<1> HIDE DEF D
<1>7. o \in [Nat \X D -> D]
  BY <1>5
<1>8. \A j \in Nat, p \in D : o[<<j, p>>] = Round(p)
  OBVIOUS
<1> HIDE DEF o
<1>9. PICK h \in [Nat -> D] : Iterates(h, o, start)
  BY <1>6, <1>7, Iteration
<1>10. h = [j \in Nat |-> e(h, j)]
  <2>1. ASSUME NEW j \in Nat PROVE h[j] = e(h, j)
    <3>1. CASE j = 0
      BY <1>9, <3>1 DEF Iterates
    <3>2. CASE j # 0
      <4>1. j - 1 \in Nat /\ (j - 1) + 1 = j
        BY <3>2
      <4>2. h[(j - 1) + 1] = o[<<j - 1, h[j - 1]>>]
        BY <1>9, <4>1 DEF Iterates
      <4>3. h[j - 1] \in D
        BY <4>1
      <4>4. h[j] = Round(h[j - 1])
        BY <1>8, <4>1, <4>2, <4>3
      <4> QED
        BY <3>2, <4>4, Zenon
    <3> QED
      BY <3>1, <3>2
  <2>2. h = [j \in Nat |-> h[j]]
    OBVIOUS
  <2> QED
    BY <2>1, <2>2, Zenon
<1>11. at = [j \in Nat |-> e(at, j)]
  <2> HIDE DEF e
  <2> QED
    BY <1>10, Zenon
<1> HIDE DEF at
<1>12. at[0] = start /\ \A j \in Nat : at[j + 1] = Round(at[j])
  <2>1. at[0] = e(at, 0)
    BY <1>11
  <2>2. ASSUME NEW j \in Nat PROVE at[j + 1] = Round(at[j])
    <3>1. j + 1 \in Nat /\ j + 1 # 0 /\ (j + 1) - 1 = j
      OBVIOUS
    <3>2. at[j + 1] = e(at, j + 1)
      BY <1>11, <3>1
    <3>3. at[j + 1] = Round(at[(j + 1) - 1])
      BY <3>1, <3>2, Zenon
    <3> QED
      BY <3>1, <3>3
  <2> QED
    BY <2>1, <2>2
<1> HIDE DEF e
<1> DEFINE A == {j \in Nat : Queued(at[j], ms, t, IF j < n THEN j ELSE n)}
<1>13. 0 \in A
  <2>1. (IF 0 < n THEN 0 ELSE n) = 0
    BY <1>2
  <2> QED
    BY <1>3, <1>12, <2>1
<1>14. ASSUME NEW j \in Nat, j \in A PROVE j + 1 \in A
  <2>1. CASE j < n
    <3>1. j \in 0..n /\ (IF j < n THEN j ELSE n) = j /\ (IF j + 1 < n THEN j + 1 ELSE n) = j + 1 /\ j + 1 \in Nat
      BY <1>2, <2>1
    <3>2. Queued(at[j], ms, t, j)
      BY <1>14, <3>1
    <3>3. Queued(Round(at[j]), ms, t, j + 1)
      BY <1>4, <2>1, <3>1, <3>2, Zenon
    <3>4. Queued(at[j + 1], ms, t, j + 1)
      BY <1>12, <3>3
    <3> QED
      BY <3>1, <3>4
  <2>2. CASE ~(j < n)
    <3>1. n \in 0..n /\ (IF j < n THEN j ELSE n) = n /\ (IF j + 1 < n THEN j + 1 ELSE n) = n /\ j + 1 \in Nat
      BY <1>2, <2>2
    <3>2. Queued(at[j], ms, t, n)
      BY <1>14, <3>1
    <3>3. Queued(Round(at[j]), ms, t, n)
      BY <1>4, <3>1, <3>2, Zenon
    <3>4. Queued(at[j + 1], ms, t, n)
      BY <1>12, <3>3
    <3> QED
      BY <3>1, <3>4
  <2> QED
    BY <2>1, <2>2
<1>15. \A j \in Nat : Queued(at[j], ms, t, IF j < n THEN j ELSE n)
  <2> HIDE DEF A
  <2>1. \A j \in Nat : j \in A
    BY <1>13, <1>14, Induction
  <2> QED
    BY <2>1 DEF A
<1>16. last \in Nat /\ Stuck(at[last].rest)
  <2>1. n \in 0..Len(FlattenSeq(chunks)) /\ Len(FlattenSeq(chunks)) \in Nat
    <3>1. Len(Stream(ms)) >= n /\ Stream(ms) \in Seq(Nat)
      BY StreamLong DEF n
    <3>2. Len(Stream(ms) \o t) = Len(Stream(ms)) + Len(t) /\ Len(Stream(ms)) \in Nat /\ Len(t) \in Nat
      BY <3>1, ConcatProperties
    <3> QED
      BY <1>2, <3>1, <3>2
  <2>2. Stuck(at[n].rest)
    <3>1. n \in Nat /\ n \in 0..n /\ (IF n < n THEN n ELSE n) = n
      BY <1>2
    <3>2. Queued(at[n], ms, t, n)
      BY <1>15, <3>1, Zenon
    <3> QED
      BY <1>4, <3>1, <3>2, Zenon
  <2>3. last \in 0..Len(FlattenSeq(chunks)) /\ Stuck(at[last].rest)
    BY <2>1, <2>2, Zenon
  <2> HIDE DEF last
  <2> QED
    BY <2>1, <2>3
<1> HIDE DEF last
<1>17. Queued(at[last], ms, t, n)
  <2>1. Queued(at[last], ms, t, IF last < n THEN last ELSE n)
    BY <1>15, <1>16, Zenon
  <2>2. last < n => last \in 0..n
    BY <1>2, <1>16
  <2>3. ~(last < n)
    BY <1>4, <1>16, <2>1, <2>2, Zenon
  <2> QED
    BY <2>1, <2>3, Zenon
<1>18. at[last].queued = SubSeq(ms, 1, n)
  BY <1>17, Zenon DEF Queued
<1>19. SubSeq(ms, 1, n) = ms
  BY WholeSeq DEF n
<1> QED
  BY <1>1, <1>18, <1>19, Zenon

\* A stream that breaks off: some frames, and less than all of the next.
LEMMA StreamBroken ==
  ASSUME NEW ms \in Seq(Seq(Nat)), \A k \in 1..Len(ms) : Len(ms[k]) < Room(4),
         NEW a \in Seq(Nat), NEW b \in Seq(Nat), a \o b = Stream(ms)
  PROVE  \E k \in 0..Len(ms) : \E t \in Seq(Nat) : Partial(t) /\ a = Stream(SubSeq(ms, 1, k)) \o t
<1> DEFINE n == Len(ms)
           Broken(x, i) == \E k \in 0..i : \E t \in Seq(Nat) : Partial(t) /\ x = Stream(SubSeq(ms, 1, k)) \o t
           A == {i \in Nat : i <= n => \A x, y \in Seq(Nat) : x \o y = Stream(SubSeq(ms, 1, i)) => Broken(x, i)}
<1>1. n \in Nat
  OBVIOUS
<1>2. \A i \in 0..n : Stream(SubSeq(ms, 1, i)) \in Seq(Nat)
  BY StreamFront
<1>3. 0 \in A
  <2>1. ASSUME NEW x \in Seq(Nat), NEW y \in Seq(Nat), x \o y = Stream(SubSeq(ms, 1, 0)) PROVE Broken(x, 0)
    <3>1. SubSeq(ms, 1, 0) = <<>>
      BY SubSeqEmpty
    <3>2. x \o y = <<>> /\ Stream(SubSeq(ms, 1, 0)) = <<>>
      BY <2>1, <3>1, StreamEmpty
    <3>3. Len(x \o y) = Len(x) + Len(y) /\ Len(x) \in Nat /\ Len(y) \in Nat
      BY ConcatProperties
    <3>4. x = <<>>
      <4>1. Len(x) = 0
        BY <3>2, <3>3
      <4> QED
        BY <4>1
    <3>5. <<>> \o <<>> = <<>> /\ 0 \in 0..0
      OBVIOUS
    <3> QED
      BY <3>2, <3>4, <3>5, PartialEmpty, Zenon
  <2> HIDE DEF Broken
  <2> QED
    BY <2>1
<1>4. ASSUME NEW i \in Nat, i \in A PROVE i + 1 \in A
  <2>1. ASSUME i + 1 <= n, NEW x \in Seq(Nat), NEW y \in Seq(Nat), x \o y = Stream(SubSeq(ms, 1, i + 1)) PROVE Broken(x, i + 1)
    <3>1. i <= n /\ i \in 0..n /\ i \in 0..(Len(ms) - 1) /\ i + 1 \in 1..n
      BY <1>1, <2>1
    <3>2. PICK p, m, f : p = Stream(SubSeq(ms, 1, i)) /\ m = ms[i + 1] /\ f = Frame(m)
      OBVIOUS
    <3>3. p \in Seq(Nat) /\ f \in Seq(Nat) /\ m \in Seq(Nat) /\ x \o y = p \o f /\ Len(m) < Room(4)
      BY <2>1, <3>1, <3>2, StreamStep
    <3>4. Len(x) \in Nat /\ Len(p) \in Nat /\ Len(f) \in Nat
      BY <3>3
    <3>5. CASE Len(x) <= Len(p)
      <4>1. Len(x) \in 0..Len(p)
        BY <3>4, <3>5
      <4>2. PICK u, v : u = SubSeq(p, 1, Len(x)) /\ v = SubSeq(p, Len(x) + 1, Len(p))
        OBVIOUS
      <4>3. u \in Seq(Nat) /\ v \in Seq(Nat) /\ Len(u) = Len(x) /\ u \o v = p
        <5>1. p \in Seq(Nat)
          BY <3>3
        <5>2. CutAt(p, Len(x))
          BY <4>1, <5>1, CutAtIs, Zenon
        <5> QED
          BY <4>2, <5>2, Zenon DEF CutAt
      <4>4. v \o f \in Seq(Nat)
        BY <3>3, <4>3, ConcatProperties
      <4>5. (u \o v) \o f = u \o (v \o f)
        <5>1. u \in Seq(Nat) /\ v \in Seq(Nat) /\ f \in Seq(Nat)
          BY <3>3, <4>3
        <5>2. \A c, d, z \in Seq(Nat) : (c \o d) \o z = c \o (d \o z)
          BY Associated, Zenon
        <5>3. \A z \in Seq(Nat) : (u \o v) \o z = u \o (v \o z)
          BY <5>1, <5>2, Zenon
        <5> QED
          BY <5>1, <5>3, Zenon
      <4>6. x \o y = u \o (v \o f)
        BY <3>3, <4>3, <4>5, Zenon
      <4>7. x = u
        BY <4>3, <4>4, <4>6, CutEqual
      <4>8. x \o v = p
        BY <4>3, <4>7, Zenon
      <4>9. Broken(x, i)
        <5> HIDE DEF Broken
        <5> QED
          BY <1>4, <3>1, <3>2, <4>3, <4>8, Zenon
      <4>10. \A k \in 0..i : k \in 0..(i + 1)
        OBVIOUS
      <4> QED
        BY <4>9, <4>10, Zenon
    <3>6. CASE ~(Len(x) <= Len(p))
      <4>1. Len(p) \in 0..Len(x)
        BY <3>4, <3>6
      <4>2. PICK u, v : u = SubSeq(x, 1, Len(p)) /\ v = SubSeq(x, Len(p) + 1, Len(x))
        OBVIOUS
      <4>3. u \in Seq(Nat) /\ v \in Seq(Nat) /\ Len(u) = Len(p) /\ u \o v = x
        <5>1. x \in Seq(Nat)
          BY <3>3
        <5>2. CutAt(x, Len(p))
          BY <4>1, <5>1, CutAtIs, Zenon
        <5> QED
          BY <4>2, <5>2, Zenon DEF CutAt
      <4>4. v \o y \in Seq(Nat) /\ Len(v \o y) = Len(v) + Len(y) /\ Len(v) \in Nat /\ Len(y) \in Nat
        BY <4>3, ConcatProperties
      <4>5. (u \o v) \o y = u \o (v \o y)
        <5>1. u \in Seq(Nat) /\ v \in Seq(Nat)
          BY <4>3
        <5>2. Tied(u, v, y)
          BY <5>1, TiedIs, Zenon
        <5> QED
          BY <5>2, Zenon DEF Tied
      <4>6. u \o (v \o y) = p \o f
        BY <3>3, <4>3, <4>5, Zenon
      <4>7. u = p /\ v \o y = f
        BY <3>3, <4>3, <4>4, <4>6, CutEqual
      <4>8. x = p \o v
        BY <4>3, <4>7, Zenon
      <4>9. CASE Len(v) < Len(f)
        <5>1. Len(v) \in 0..Len(f)
          BY <3>4, <4>4, <4>9
        <5>2. PICK c, d : c = SubSeq(f, 1, Len(v)) /\ d = SubSeq(f, Len(v) + 1, Len(f))
          OBVIOUS
        <5>3. c \in Seq(Nat) /\ d \in Seq(Nat) /\ Len(c) = Len(v) /\ c \o d = f
          <6>1. f \in Seq(Nat)
            BY <3>3
          <6>2. CutAt(f, Len(v))
            BY <5>1, <6>1, CutAtIs, Zenon
          <6> QED
            BY <5>2, <6>2, Zenon DEF CutAt
        <5>4. c \o d = v \o y
          BY <4>7, <5>3, Zenon
        <5>5. c = v
          BY <4>3, <5>3, <5>4, CutEqual
        <5>6. Partial(v)
          BY <3>2, <3>3, <4>4, <4>9, <5>2, <5>5, Zenon DEF Partial
        <5>7. i \in 0..(i + 1)
          OBVIOUS
        <5> QED
          BY <3>2, <4>3, <4>8, <5>6, <5>7, Zenon
      <4>10. CASE ~(Len(v) < Len(f))
        <5>1. Len(v) = Len(f) /\ Len(y) = 0
          BY <3>4, <4>4, <4>7, <4>10
        <5>2. y = <<>>
          BY <5>1
        <5>3. x \o y = x
          BY <5>2, ConcatEmptySeq
        <5>4. x = Stream(SubSeq(ms, 1, i + 1)) \o <<>>
          BY <2>1, <5>2, <5>3, Zenon
        <5>5. i + 1 \in 0..(i + 1)
          OBVIOUS
        <5> QED
          BY <5>4, <5>5, PartialEmpty, Zenon
      <4> QED
        BY <4>9, <4>10
    <3> QED
      BY <3>5, <3>6
  <2>2. i + 1 \in Nat
    OBVIOUS
  <2> HIDE DEF Broken
  <2> QED
    BY <2>1, <2>2, Zenon
<1> HIDE DEF A, Broken
<1>5. n \in A
  BY <1>1, <1>3, <1>4, Induction
<1>6. n <= n /\ SubSeq(ms, 1, n) = ms
  BY <1>1, WholeSeq
<1>7. Broken(a, n)
  BY <1>5, <1>6, Zenon DEF A
<1> QED
  BY <1>7, Zenon DEF Broken

\* A receiver queues the contents that were sent, however the stream is cut
\* into chunks (listen_to_channel and goodread of honest_party_test_EC2.py).
THEOREM FramesQueued ==
  ASSUME NEW ms \in Seq(Seq(Nat)), \A k \in 1..Len(ms) : Len(ms[k]) < Room(4),
         NEW chunks \in Seq(Seq(Nat)), FlattenSeq(chunks) = Stream(ms)
  PROVE  Contents(chunks) = ms
<1>1. FlattenSeq(chunks) = Stream(ms) \o <<>>
  BY StreamLong, ConcatEmptySeq
<1> QED
  BY <1>1, PartialEmpty, ContentsAre

\* Of a stream that breaks off it queues the contents of the first frames, and
\* nothing else.
THEOREM FramesCutOff ==
  ASSUME NEW ms \in Seq(Seq(Nat)), \A k \in 1..Len(ms) : Len(ms[k]) < Room(4),
         NEW chunks \in Seq(Seq(Nat)), NEW lost \in Seq(Nat), FlattenSeq(chunks) \o lost = Stream(ms)
  PROVE  \E k \in 0..Len(ms) : Contents(chunks) = SubSeq(ms, 1, k)
<1>1. FlattenSeq(chunks) \in Seq(Nat)
  <2>1. <<>> \in Seq(Nat)
    OBVIOUS
  <2> QED
    BY <2>1, FlatAppend
<1>2. PICK k \in 0..Len(ms), t \in Seq(Nat) : Partial(t) /\ FlattenSeq(chunks) = Stream(SubSeq(ms, 1, k)) \o t
  BY <1>1, StreamBroken
<1>3. PICK q : q = SubSeq(ms, 1, k)
  OBVIOUS
<1>4. q \in Seq(Seq(Nat)) /\ Len(q) = k
  BY <1>3, CutInTwo
<1>5. \A j \in 1..Len(q) : Len(q[j]) < Room(4)
  <2>1. ASSUME NEW j \in 1..k PROVE Len(q[j]) < Room(4)
    <3>1. j \in 1..Len(ms) /\ Len(ms) \in Nat /\ k \in Nat /\ k <= Len(ms)
      BY LenProperties
    <3>2. \A i \in 1..k : ms[i] \in Seq(Nat)
      BY <3>1, ElementOfSeq
    <3>3. q[j] = ms[j]
      BY <1>3, <3>1, <3>2, SubSeqProperties
    <3> QED
      BY <3>1, <3>3, Zenon
  <2> QED
    BY <1>4, <2>1
<1>6. Contents(chunks) = q
  BY <1>2, <1>3, <1>4, <1>5, ContentsAre
<1> QED
  BY <1>3, <1>6

-----------------------------------------------------------------------------
\* Proposals

\* The part in the middle of a string.
LEMMA Middle ==
  ASSUME NEW B, NEW x \in Seq(B), NEW y \in Seq(B), NEW z \in Seq(B)
  PROVE  SubSeq((x \o y) \o z, Len(x) + 1, Len(x) + Len(y)) = y
<1>1. PICK a, b, d : a = Len(x) /\ b = Len(y) /\ d = Len(z)
  OBVIOUS
<1>2. a \in Nat /\ b \in Nat /\ d \in Nat
  BY <1>1
<1>3. PICK u : u = x \o y
  OBVIOUS
<1>4. u \in Seq(B) /\ Len(u) = a + b /\ \A i \in 1..(a + b) : u[i] = IF i <= a THEN x[i] ELSE y[i - a]
  BY <1>1, <1>3, ConcatProperties
<1>5. PICK c : c = u \o z
  OBVIOUS
<1>6. c \in Seq(B) /\ Len(c) = (a + b) + d /\ \A i \in 1..((a + b) + d) : i <= a + b => c[i] = u[i]
  <2>1. /\ c \in Seq(B) /\ Len(c) = Len(u) + Len(z)
        /\ \A i \in 1..(Len(u) + Len(z)) : c[i] = IF i <= Len(u) THEN u[i] ELSE z[i - Len(u)]
    BY <1>4, <1>5, ConcatProperties
  <2>2. Len(u) = a + b /\ Len(z) = d
    BY <1>1, <1>4
  <2> QED
    BY <2>1, <2>2
<1>7. \A i \in (a + 1)..(a + b) : c[i] = y[i - a] /\ c[i] \in B
  <2>1. ASSUME NEW i \in (a + 1)..(a + b) PROVE c[i] = y[i - a] /\ c[i] \in B
    <3>1. i \in 1..(a + b) /\ i \in 1..((a + b) + d) /\ i <= a + b /\ ~(i <= a)
      BY <1>2
    <3>2. c[i] = y[i - a]
      BY <1>4, <1>6, <3>1
    <3>3. c[i] \in B
      BY <1>6, <3>1, ElementOfSeq
    <3> QED
      BY <3>2, <3>3
  <2> QED
    BY <2>1
<1>8. PICK s : s = SubSeq(c, a + 1, a + b)
  OBVIOUS
<1>9. s \in Seq(B) /\ Len(s) = b /\ \A i \in 1..b : s[i] = c[a + i]
  <2>1. /\ s \in Seq(B) /\ Len(s) = IF a + 1 <= a + b THEN (a + b) - (a + 1) + 1 ELSE 0
        /\ \A i \in 1..((a + b) - (a + 1) + 1) : s[i] = c[(a + 1) + i - 1]
    <3>1. a + 1 \in Int /\ a + b \in Int
      BY <1>2
    <3> QED
      BY <1>7, <1>8, <3>1, SubSeqProperties
  <2>2. (a + b) - (a + 1) + 1 = b /\ (a + 1 <= a + b <=> b # 0) /\ \A i \in 1..b : (a + 1) + i - 1 = a + i
    BY <1>2
  <2> QED
    BY <1>2, <2>1, <2>2
<1>10. ASSUME NEW i \in 1..b PROVE s[i] = y[i]
  <2>1. a + i \in (a + 1)..(a + b) /\ (a + i) - a = i
    BY <1>2
  <2> QED
    BY <1>7, <1>9, <2>1
<1>11. s = y
  BY <1>1, <1>9, <1>10, SeqEqual
<1> QED
  BY <1>1, <1>3, <1>5, <1>8, <1>11, Zenon

\* The two parts of a string.
LEMMA Parts ==
  ASSUME NEW B, NEW x \in Seq(B), NEW y \in Seq(B)
  PROVE  SubSeq(x \o y, 1, Len(x)) = x /\ SubSeq(x \o y, Len(x) + 1, Len(x \o y)) = y
<1>1. PICK c, k : c = x \o y /\ k = Len(x)
  OBVIOUS
<1>2. c \in Seq(B) /\ k \in 0..Len(c)
  BY <1>1, ConcatProperties
<1>3. PICK u, v : u = SubSeq(c, 1, k) /\ v = SubSeq(c, k + 1, Len(c))
  OBVIOUS
<1>4. u \in Seq(B) /\ v \in Seq(B) /\ Len(u) = k /\ u \o v = c
  <2>1. /\ SubSeq(c, 1, k) \in Seq(B) /\ SubSeq(c, k + 1, Len(c)) \in Seq(B)
        /\ Len(SubSeq(c, 1, k)) = k /\ SubSeq(c, 1, k) \o SubSeq(c, k + 1, Len(c)) = c
    BY <1>2, CutInTwo
  <2> QED
    BY <1>3, <2>1, Zenon
<1>5. u \o v = x \o y /\ Len(u) = Len(x)
  BY <1>1, <1>4, Zenon
<1>6. u = x /\ v = y
  BY <1>4, <1>5, CutEqual
<1> QED
  BY <1>1, <1>3, <1>6, Zenon

\* Strings of w bytes, one after another: the k-th of them is where it is
\* looked for.
LEMMA BlocksAre ==
  ASSUME NEW w \in Nat, NEW q \in Seq(Seq(Nat)), \A k \in 1..Len(q) : Len(q[k]) = w
  PROVE  /\ FlattenSeq(q) \in Seq(Nat) /\ Len(FlattenSeq(q)) = w * Len(q)
         /\ \A k \in 1..Len(q) : \E a, c \in Seq(Nat) :
              FlattenSeq(q) = (a \o q[k]) \o c /\ Len(a) = w * (k - 1)
<1> DEFINE n == Len(q)
<1>1. n \in Nat /\ \A k \in 1..n : q[k] \in Seq(Nat) /\ Len(q[k]) = w
  BY ElementOfSeq
<1>2. PICK J \in [Nat -> Seq(Nat)] : Joins(J, q)
  BY JoinsExist
<1>3. FlattenSeq(q) = J[n]
  BY <1>2, JoinsAre
<1>4. J[0] = <<>> /\ \A k \in Nat : k < n => J[k + 1] = J[k] \o q[k + 1] /\ q[k + 1] \in Seq(Nat) /\ Len(q[k + 1]) = w
  <2>1. ASSUME NEW k \in Nat, k < n PROVE J[k + 1] = J[k] \o q[k + 1] /\ q[k + 1] \in Seq(Nat) /\ Len(q[k + 1]) = w
    <3>1. k + 1 \in 1..Len(q) /\ (k + 1) - 1 = k
      BY <1>1, <2>1
    <3>2. J[k + 1] = J[(k + 1) - 1] \o q[k + 1]
      BY <1>2, <3>1, Zenon DEF Joins
    <3> QED
      BY <1>1, <3>1, <3>2
  <2> QED
    BY <1>2, <2>1 DEF Joins
<1> HIDE DEF n
<1>5. \A k \in Nat : k <= n => Len(J[k]) = w * k
  <2> DEFINE A == {k \in Nat : k <= n => Len(J[k]) = w * k}
  <2>1. 0 \in A
    BY <1>4
  <2>2. ASSUME NEW k \in Nat, k \in A PROVE k + 1 \in A
    <3>1. ASSUME k + 1 <= n PROVE Len(J[k + 1]) = w * (k + 1)
      <4>1. k < n /\ k <= n
        BY <1>1, <3>1
      <4>2. PICK x, y : x = J[k] /\ y = q[k + 1]
        OBVIOUS
      <4>3. x \in Seq(Nat) /\ y \in Seq(Nat) /\ J[k + 1] = x \o y /\ Len(y) = w
        BY <1>4, <4>1, <4>2
      <4>4. Len(x) = w * k
        BY <2>2, <4>1, <4>2
      <4>5. Len(x \o y) = Len(x) + Len(y)
        BY <4>3, ConcatProperties
      <4>6. w * (k + 1) = w * k + w
        OBVIOUS
      <4> QED
        BY <4>3, <4>4, <4>5, <4>6
    <3> QED
      BY <3>1
  <2> HIDE DEF A
  <2>3. \A k \in Nat : k \in A
    BY <2>1, <2>2, Induction
  <2> QED
    BY <2>3 DEF A
<1>6. \A d \in Nat : d <= n => \E c \in Seq(Nat) : J[n] = J[n - d] \o c
  <2> DEFINE A == {d \in Nat : d <= n => \E c \in Seq(Nat) : J[n] = J[n - d] \o c}
  <2>1. 0 \in A
    <3>1. n - 0 = n /\ J[n] \in Seq(Nat) /\ <<>> \in Seq(Nat)
      BY <1>1
    <3>2. J[n] = J[n - 0] \o <<>>
      BY <3>1, ConcatEmptySeq
    <3> QED
      BY <3>1, <3>2, Zenon
  <2>2. ASSUME NEW d \in Nat, d \in A PROVE d + 1 \in A
    <3>1. ASSUME d + 1 <= n PROVE \E c \in Seq(Nat) : J[n] = J[n - (d + 1)] \o c
      <4>1. d <= n
        BY <1>1, <3>1
      <4>2. PICK c \in Seq(Nat) : J[n] = J[n - d] \o c
        BY <2>2, <4>1, Zenon
      <4>3. PICK k \in Nat : k = n - (d + 1)
        BY <1>1, <3>1
      <4>4. k < n /\ k + 1 = n - d
        BY <1>1, <4>3
      <4>5. PICK x, y, z : x = J[k] /\ y = q[k + 1] /\ z = y \o c
        OBVIOUS
      <4>6. x \in Seq(Nat) /\ y \in Seq(Nat) /\ J[n - d] = x \o y
        BY <1>4, <4>4, <4>5
      <4>7. z \in Seq(Nat) /\ (x \o y) \o c = x \o z
        <5>1. z \in Seq(Nat)
          BY <4>5, <4>6, ConcatProperties
        <5>2. (x \o y) \o c = x \o (y \o c)
          BY <4>6, Associated, Zenon
        <5> QED
          BY <4>5, <5>1, <5>2, Zenon
      <4>8. J[n] = x \o z
        BY <4>2, <4>6, <4>7, Zenon
      <4> QED
        BY <4>3, <4>5, <4>7, <4>8, Zenon
    <3>2. d + 1 \in Nat
      OBVIOUS
    <3> QED
      BY <3>1, <3>2, Zenon
  <2> HIDE DEF A
  <2>3. \A d \in Nat : d \in A
    BY <2>1, <2>2, Induction
  <2> QED
    BY <2>3 DEF A
<1>7. ASSUME NEW k \in 1..n
      PROVE  \E a, c \in Seq(Nat) : FlattenSeq(q) = (a \o q[k]) \o c /\ Len(a) = w * (k - 1)
  <2>1. n - k \in Nat /\ n - k <= n /\ n - (n - k) = k /\ k - 1 \in Nat /\ k - 1 < n /\ k - 1 <= n /\ (k - 1) + 1 = k
    BY <1>1
  <2>2. PICK c \in Seq(Nat) : J[n] = J[k] \o c
    <3>1. \E c \in Seq(Nat) : J[n] = J[n - (n - k)] \o c
      BY <1>6, <2>1, Zenon
    <3> QED
      BY <2>1, <3>1
  <2>3. PICK a : a = J[k - 1]
    OBVIOUS
  <2>4. a \in Seq(Nat) /\ Len(a) = w * (k - 1)
    BY <1>5, <2>1, <2>3
  <2>5. J[k] = a \o q[k]
    <3>1. J[(k - 1) + 1] = J[k - 1] \o q[(k - 1) + 1]
      BY <1>4, <2>1, Zenon
    <3> QED
      BY <2>1, <2>3, <3>1
  <2> QED
    BY <1>3, <2>2, <2>4, <2>5, Zenon
<1>8. J[n] \in Seq(Nat) /\ Len(J[n]) = w * n
  BY <1>1, <1>5
<1> QED
  BY <1>3, <1>7, <1>8 DEF n

\* Where the k-th string of w bytes is, after a string u and before v.
LEMMA BlockAt ==
  ASSUME NEW w \in Nat, NEW q \in Seq(Seq(Nat)), \A i \in 1..Len(q) : Len(q[i]) = w,
         NEW u \in Seq(Nat), NEW v \in Seq(Nat), NEW k \in 1..Len(q)
  PROVE  SubSeq((u \o FlattenSeq(q)) \o v, (Len(u) + w * (k - 1)) + 1, Len(u) + w * k) = q[k]
<1>1. PICK f, y : f = FlattenSeq(q) /\ y = q[k]
  OBVIOUS
<1>2. y \in Seq(Nat) /\ Len(y) = w /\ k \in Nat /\ k >= 1
  BY <1>1, ElementOfSeq, LenProperties
<1>3. PICK a \in Seq(Nat), c \in Seq(Nat) : f = (a \o y) \o c /\ Len(a) = w * (k - 1)
  BY <1>1, BlocksAre
<1>4. PICK x, z : x = u \o a /\ z = c \o v
  OBVIOUS
<1>5. x \in Seq(Nat) /\ z \in Seq(Nat) /\ Len(x) = Len(u) + w * (k - 1)
  <2>1. x \in Seq(Nat) /\ Len(x) = Len(u) + Len(a)
    BY <1>4, ConcatProperties
  <2>2. z \in Seq(Nat)
    BY <1>4, ConcatProperties
  <2> QED
    BY <1>3, <2>1, <2>2
<1>6. (u \o f) \o v = (x \o y) \o z
  <2>1. PICK g, h : g = a \o y /\ h = x \o y
    OBVIOUS
  <2>2. g \in Seq(Nat) /\ h \in Seq(Nat) /\ u \o g = h
    <3>1. g \in Seq(Nat) /\ h \in Seq(Nat)
      BY <1>2, <1>5, <2>1, ConcatProperties
    <3>2. (u \o a) \o y = u \o (a \o y)
      BY <1>2, Associated, ZenonT(60)
    <3> QED
      BY <1>4, <2>1, <3>1, <3>2, Zenon
  <2>3. u \o (g \o c) = (u \o g) \o c
    <3>1. \A z1 \in Seq(Nat) : (u \o g) \o z1 = u \o (g \o z1)
      BY <2>2, Associated, Zenon
    <3> QED
      BY <3>1, Zenon
  <2>4. (h \o c) \o v = h \o (c \o v)
    <3>1. \A y1 \in Seq(Nat), z1 \in Seq(Nat) : (h \o y1) \o z1 = h \o (y1 \o z1)
      BY <2>2, Associated, Zenon
    <3> QED
      BY <3>1, Zenon
  <2> QED
    BY <1>3, <1>4, <2>1, <2>2, <2>3, <2>4, Zenon
<1>7. SubSeq((x \o y) \o z, Len(x) + 1, Len(x) + Len(y)) = y
  BY <1>2, <1>5, Middle
<1>8. Len(x) + Len(y) = Len(u) + w * k
  <2>1. w * k = w * (k - 1) + w
    BY <1>2
  <2> QED
    BY <1>2, <1>5, <2>1
<1> QED
  BY <1>1, <1>5, <1>6, <1>7, <1>8, Zenon

\* A string that is written after another one.
LEMMA Extended ==
  ASSUME NEW h \in Seq(Nat), NEW l \in Seq(Nat)
  PROVE  /\ h \o l \in Seq(Nat) /\ Len(h \o l) = Len(h) + Len(l)
         /\ \A i \in 1..Len(h) : (h \o l)[i] = h[i]
         /\ \A i \in 1..Len(l) : (h \o l)[Len(h) + i] = l[i]
<1>1. /\ h \o l \in Seq(Nat) /\ Len(h \o l) = Len(h) + Len(l)
      /\ \A i \in 1..(Len(h) + Len(l)) : (h \o l)[i] = IF i <= Len(h) THEN h[i] ELSE l[i - Len(h)]
  BY ConcatProperties
<1>2. PICK c, a, b : c = h \o l /\ a = Len(h) /\ b = Len(l)
  OBVIOUS
<1>3. a \in Nat /\ b \in Nat
  BY <1>2
<1>4. \A i \in 1..(a + b) : c[i] = IF i <= a THEN h[i] ELSE l[i - a]
  BY <1>1, <1>2, Zenon
<1>5. ASSUME NEW i \in 1..a PROVE c[i] = h[i]
  BY <1>3, <1>4
<1>6. ASSUME NEW i \in 1..b PROVE c[a + i] = l[i]
  <2>1. a + i \in 1..(a + b) /\ ~(a + i <= a) /\ (a + i) - a = i
    BY <1>3
  <2> QED
    BY <1>4, <2>1
<1> QED
  BY <1>1, <1>2, <1>5, <1>6, Zenon

\* One byte holds a small number.
LEMMA ByteIs ==
  ASSUME NEW x \in 0..255
  PROVE  LET l == Little(x, 1) IN l \in Seq(Nat) /\ Len(l) = 1 /\ l[1] = x
<1>1. PICK l : l = Little(x, 1)
  OBVIOUS
<1>2. x \in Nat /\ 1 \in 1..4 /\ x % 256 = x
  OBVIOUS
<1>3. BytesOf(l, x, 1)
  <2>1. BytesOf(Little(x, 1), x, 1)
    BY <1>2, LittleIs
  <2> QED
    BY <1>1, <2>1
<1>4. l \in Seq(Nat) /\ Len(l) = 1 /\ l[1] = x % 256
  BY <1>3 DEF BytesOf
<1>5. l \in Seq(Nat) /\ Len(l) = 1 /\ l[1] = x
  BY <1>2, <1>4
<1> QED
  BY <1>1, <1>5

\* Transactions whose numbers fit into their bytes.
Sendable == [source : 0..255, target : 0..255, amount : {x \in Nat : x < Room(2)}]

\* A transaction is read as it was written, and takes n bytes and five.
LEMMA FilledIs ==
  ASSUME NEW tr \in Sendable, NEW n \in Nat
  PROVE  LET r == Filled(tr, n) IN r \in Seq(Nat) /\ Len(r) = n + 5 /\ FromRepr(r) = tr
<1>1. PICK x, y, z : x = tr.source /\ y = tr.target /\ z = tr.amount
  OBVIOUS
<1>2. x \in 0..255 /\ y \in 0..255 /\ z \in Nat /\ z < Room(2) /\ tr = [source |-> x, target |-> y, amount |-> z]
  <2>1. x \in 0..255 /\ y \in 0..255 /\ z \in Nat /\ z < Room(2)
    BY <1>1 DEF Sendable
  <2>2. tr = [source |-> tr.source, target |-> tr.target, amount |-> tr.amount]
    BY DEF Sendable
  <2> QED
    BY <1>1, <2>1, <2>2
<1>3. PICK a, b, c, d, e : /\ a = Little(x, 1) /\ b = Little(y, 1) /\ c = Little(z, 2)
                           /\ d = [i \in 1..n |-> 255] /\ e = <<144>>
  OBVIOUS
<1>4. a \in Seq(Nat) /\ Len(a) = 1 /\ a[1] = x /\ b \in Seq(Nat) /\ Len(b) = 1 /\ b[1] = y
  BY <1>2, <1>3, ByteIs
<1>5. c \in Seq(Nat) /\ Len(c) = 2
  <2>1. 2 \in 1..4
    OBVIOUS
  <2>2. BytesOf(c, z, 2)
    BY <1>2, <1>3, <2>1, LittleIs
  <2> QED
    BY <2>2 DEF BytesOf
<1>6. d \in Seq(Nat) /\ Len(d) = n /\ e \in Seq(Nat) /\ Len(e) = 1
  BY <1>3
<1>7. PICK h1 : h1 = a \o b
  OBVIOUS
<1>8. h1 \in Seq(Nat) /\ Len(h1) = 2 /\ h1[1] = x /\ h1[2] = y
  <2>1. /\ h1 \in Seq(Nat) /\ Len(h1) = Len(a) + Len(b) /\ \A i \in 1..Len(a) : h1[i] = a[i]
        /\ \A i \in 1..Len(b) : h1[Len(a) + i] = b[i]
    BY <1>4, <1>7, Extended
  <2> QED
    BY <1>4, <2>1
<1>9. PICK h2 : h2 = h1 \o c
  OBVIOUS
<1>10. h2 \in Seq(Nat) /\ Len(h2) = 4 /\ h2[1] = x /\ h2[2] = y /\ h2[3] = c[1] /\ h2[4] = c[2]
  <2>1. /\ h2 \in Seq(Nat) /\ Len(h2) = Len(h1) + Len(c) /\ \A i \in 1..Len(h1) : h2[i] = h1[i]
        /\ \A i \in 1..Len(c) : h2[Len(h1) + i] = c[i]
    BY <1>5, <1>8, <1>9, Extended
  <2> QED
    BY <1>5, <1>8, <2>1
<1>11. PICK h3 : h3 = h2 \o d
  OBVIOUS
<1>12. h3 \in Seq(Nat) /\ Len(h3) = n + 4 /\ \A i \in 1..4 : h3[i] = h2[i]
  <2>1. h3 \in Seq(Nat) /\ Len(h3) = Len(h2) + Len(d) /\ \A i \in 1..Len(h2) : h3[i] = h2[i]
    BY <1>6, <1>10, <1>11, Extended
  <2> QED
    BY <1>6, <1>10, <2>1
<1>13. PICK r : r = h3 \o e
  OBVIOUS
<1>14. r \in Seq(Nat) /\ Len(r) = n + 5 /\ \A i \in 1..4 : r[i] = h2[i]
  <2>1. r \in Seq(Nat) /\ Len(r) = Len(h3) + Len(e) /\ \A i \in 1..Len(h3) : r[i] = h3[i]
    BY <1>6, <1>12, <1>13, Extended
  <2>2. \A i \in 1..4 : i \in 1..(n + 4)
    OBVIOUS
  <2> QED
    BY <1>6, <1>12, <2>1, <2>2
<1>15. r = Filled(tr, n)
  BY <1>1, <1>3, <1>7, <1>9, <1>11, <1>13, Zenon DEF Filled
<1>16. r[1] = x /\ r[2] = y /\ r[3] = c[1] /\ r[4] = c[2]
  BY <1>10, <1>14
<1>17. Number(r, 3, 4) = z
  <2>1. 2 \in {1, 2, 4} /\ 3 \in Nat /\ 3 + 2 - 1 = 4
    OBVIOUS
  <2>2. \A i \in 1..2 : r[3 + (i - 1)] = Little(z, 2)[i]
    <3>1. \A i \in 1..2 : r[3 + (i - 1)] = c[i]
      BY <1>16
    <3> QED
      BY <1>3, <3>1
  <2>3. Number(r, 3, 3 + 2 - 1) = z
    BY <1>2, <2>1, <2>2, Unpacked, Zenon
  <2> QED
    BY <2>1, <2>3, Zenon
<1>18. FromRepr(r) = tr
  BY <1>2, <1>16, <1>17, Zenon DEF FromRepr
<1> QED
  BY <1>14, <1>15, <1>18, Zenon

\* A serialized ciphertext of the key, of three parts.
Serialized(C) ==
  /\ C[1] \in Seq(Nat) /\ C[2] \in Seq(Nat) /\ C[3] \in Seq(Nat) /\ C = <<C[1], C[2], C[3]>>
  /\ Len(C[1]) = PAIRING_SERIALIZED_1 /\ Len(C[2]) = CURVE_LENGTH
  /\ Len(C[3]) = PAIRING_SERIALIZED_1

LEMMA SerializedIs ==
  ASSUME NEW C, Serialized(C)
  PROVE  LET c == SerializeEnc(C) IN
         c \in Seq(Nat) /\ Len(c) = EncLength /\ DeserializeEnc(c) = C
<1>1. PICK x, y, z : x = C[1] /\ y = C[2] /\ z = C[3]
  OBVIOUS
<1>2. x \in Seq(Nat) /\ y \in Seq(Nat) /\ z \in Seq(Nat) /\ C = <<x, y, z>>
  BY <1>1, Zenon DEF Serialized
<1>3. PICK v, w : v = PAIRING_SERIALIZED_1 /\ w = CURVE_LENGTH
  OBVIOUS
<1>4. Len(x) = v /\ Len(y) = w /\ Len(z) = v /\ v \in Nat /\ w \in Nat
  BY <1>1, <1>2, <1>3 DEF Serialized
<1>5. PICK g, c : g = x \o y /\ c = g \o z
  OBVIOUS
<1>6. g \in Seq(Nat) /\ Len(g) = v + w /\ c \in Seq(Nat) /\ Len(c) = (v + w) + v
  <2>1. g \in Seq(Nat) /\ Len(g) = Len(x) + Len(y)
    BY <1>2, <1>5, Extended
  <2>2. c \in Seq(Nat) /\ Len(c) = Len(g) + Len(z)
    BY <1>2, <1>5, <2>1, Extended
  <2> QED
    BY <1>4, <2>1, <2>2
<1>7. c = SerializeEnc(C)
  BY <1>1, <1>5, Zenon DEF SerializeEnc
<1>8. SubSeq(c, 1, v) = x
  <2>1. c = x \o (y \o z) /\ y \o z \in Seq(Nat)
    <3>1. (x \o y) \o z = x \o (y \o z)
      BY <1>2, Associated, Zenon
    <3>2. y \o z \in Seq(Nat)
      BY <1>2, ConcatProperties
    <3> QED
      BY <1>5, <3>1, <3>2, Zenon
  <2>2. SubSeq(x \o (y \o z), 1, Len(x)) = x
    BY <1>2, <2>1, Parts
  <2> QED
    BY <1>4, <2>1, <2>2, Zenon
<1>9. SubSeq(c, v + 1, v + w) = y
  <2>1. SubSeq((x \o y) \o z, Len(x) + 1, Len(x) + Len(y)) = y
    BY <1>2, Middle
  <2> QED
    BY <1>4, <1>5, <2>1, Zenon
<1>10. SubSeq(c, (v + w) + 1, (v + w) + v) = z
  <2>1. SubSeq(g \o z, Len(g) + 1, Len(g \o z)) = z
    BY <1>2, <1>6, Parts
  <2> QED
    BY <1>5, <1>6, <2>1, Zenon
<1>11. DeserializeEnc(c) = <<x, y, z>>
  BY <1>3, <1>8, <1>9, <1>10, Zenon DEF DeserializeEnc
<1>12. (v + w) + v = EncLength
  <2>1. EncLength = v * 2 + w
    BY <1>3, Zenon DEF EncLength
  <2> QED
    BY <1>4, <2>1
<1> QED
  BY <1>2, <1>6, <1>7, <1>11, <1>12, Zenon

\* prepareTx finds in a proposal what propose put into it, for every number of
\* transactions: the ciphertext of the key, and the transactions, decrypted and
\* without anything left over (misc/utils.py).
THEOREM ProposalsRead ==
  ASSUME NEW C, Serialized(C), NEW txs \in Seq(Sendable),
         NEW key, NEW iv \in Seq(Nat), Len(iv) = Cipher!BS
  PROVE  LET p == Proposal(C, key, txs, iv)
             got == Split(Batch(p))
         IN  /\ DeserializeEnc(SubSeq(p, 1, EncLength)) = C
             /\ Len(Batch(p)) % TR_SIZE = 0
             /\ [k \in DOMAIN got |-> FromRepr(got[k])] = txs
<1>1. PICK n, T, c : n = Len(txs) /\ T = TR_SIZE /\ c = SerializeEnc(C)
  OBVIOUS
<1>2. n \in Nat /\ T = 250 /\ DOMAIN txs = 1..n /\ \A k \in 1..n : txs[k] \in Sendable
  BY <1>1, ElementOfSeq DEF TR_SIZE
<1>3. c \in Seq(Nat) /\ Len(c) = EncLength /\ DeserializeEnc(c) = C
  BY <1>1, SerializedIs, Zenon
<1> DEFINE q == [k \in 1..n |-> EncodeTransaction(txs[k])]
<1>4. \A k \in 1..n : q[k] \in Seq(Nat) /\ Len(q[k]) = T /\ FromRepr(q[k]) = txs[k]
  <2>1. ASSUME NEW k \in 1..n PROVE q[k] \in Seq(Nat) /\ Len(q[k]) = T /\ FromRepr(q[k]) = txs[k]
    <3>1. PICK r : r = q[k]
      OBVIOUS
    <3>2. r = Filled(txs[k], T - 5)
      BY <1>1, <3>1, Zenon DEF EncodeTransaction
    <3>3. T - 5 \in Nat /\ (T - 5) + 5 = T /\ txs[k] \in Sendable
      BY <1>2
    <3>4. r \in Seq(Nat) /\ Len(r) = (T - 5) + 5 /\ FromRepr(r) = txs[k]
      BY <3>2, <3>3, FilledIs
    <3> HIDE DEF q
    <3> QED
      BY <3>1, <3>3, <3>4
  <2> HIDE DEF q
  <2> QED
    BY <2>1
<1>5. q \in Seq(Seq(Nat)) /\ Len(q) = n /\ q = [k \in DOMAIN txs |-> EncodeTransaction(txs[k])]
  <2>1. q \in [1..n -> Seq(Nat)]
    BY <1>4
  <2>2. q = [k \in DOMAIN txs |-> EncodeTransaction(txs[k])]
    BY <1>2
  <2> HIDE DEF q
  <2> QED
    BY <1>2, <2>1, <2>2
<1> HIDE DEF q
<1>6. PICK f, enc, p : f = FlattenSeq(q) /\ enc = Cipher!SymEncrypt(key, f, iv) /\ p = c \o enc
  OBVIOUS
<1>7. p = Proposal(C, key, txs, iv)
  BY <1>1, <1>5, <1>6, Zenon DEF Proposal
<1>8. T \in Nat /\ \A k \in 1..Len(q) : Len(q[k]) = T
  BY <1>2, <1>4, <1>5
<1>9. f \in Seq(Nat) /\ Len(f) = T * n
  <2>1. FlattenSeq(q) \in Seq(Nat) /\ Len(FlattenSeq(q)) = T * Len(q)
    BY <1>5, <1>8, BlocksAre
  <2> QED
    BY <1>5, <1>6, <2>1, Zenon
<1>10. SubSeq(p, 1, EncLength) = c /\ Batch(p) = f
  <2>1. enc \in Seq(Encrypted(key)) /\ Cipher!SymDecrypt(enc) = f
    BY <1>6, <1>9, PadRemoved, Zenon
  <2>2. c \in Seq(Encrypted(key))
    <3>1. Nat \subseteq Encrypted(key)
      BY DEF Encrypted
    <3> QED
      BY <1>3, <3>1, SeqMonotonic
  <2>3. SubSeq(c \o enc, 1, Len(c)) = c /\ SubSeq(c \o enc, Len(c) + 1, Len(c \o enc)) = enc
    BY <2>1, <2>2, Parts
  <2> QED
    BY <1>3, <1>6, <2>1, <2>3, Zenon DEF Batch
<1>11. Len(f) % T = 0 /\ Len(f) \div T = n
  BY <1>2, <1>9
<1>12. PICK got : got = Split(f)
  OBVIOUS
<1>13. got = [k \in 1..n |-> SubSeq(f, (k - 1) * T + 1, k * T)]
  BY <1>1, <1>11, <1>12, Zenon DEF Split
<1>14. ASSUME NEW k \in 1..n PROVE SubSeq(f, (k - 1) * T + 1, k * T) = q[k]
  <2>1. <<>> \in Seq(Nat) /\ Len(<<>>) = 0 /\ (<<>> \o f) \o <<>> = f
    BY <1>9, ConcatEmptySeq
  <2>2. SubSeq((<<>> \o f) \o <<>>, (Len(<<>>) + T * (k - 1)) + 1, Len(<<>>) + T * k) = q[k]
    <3>1. PICK e : e = <<>>
      OBVIOUS
    <3>2. e \in Seq(Nat) /\ k \in 1..Len(q) /\ q \in Seq(Seq(Nat))
      BY <1>5, <2>1, <3>1
    <3>3. SubSeq((e \o FlattenSeq(q)) \o e, (Len(e) + T * (k - 1)) + 1, Len(e) + T * k) = q[k]
      BY <1>8, <3>2, BlockAt
    <3> QED
      BY <1>6, <3>1, <3>3, Zenon
  <2>3. (0 + T * (k - 1)) + 1 = (k - 1) * T + 1 /\ 0 + T * k = k * T
    BY <1>2
  <2> QED
    BY <2>1, <2>2, <2>3
<1>15. DOMAIN got = 1..n /\ \A k \in 1..n : FromRepr(got[k]) = txs[k]
  <2>1. \A k \in 1..n : got[k] = q[k]
    BY <1>13, <1>14
  <2>2. DOMAIN got = 1..n
    BY <1>13
  <2> QED
    BY <1>4, <2>1, <2>2
<1>16. [k \in DOMAIN got |-> FromRepr(got[k])] = txs
  <2>1. txs = [k \in 1..n |-> txs[k]]
    BY <1>2
  <2>2. [k \in DOMAIN got |-> FromRepr(got[k])] = [k \in 1..n |-> txs[k]]
    BY <1>15
  <2> QED
    BY <2>1, <2>2, Zenon
<1> QED
  BY <1>1, <1>3, <1>7, <1>10, <1>11, <1>12, <1>16, Zenon

-----------------------------------------------------------------------------
\* Messages of the earlier implementation

\* The bytes of a list of numbers and their widths.
Pairs == Seq(Nat \X {1, 2, 4})
Pack(F) == FlattenSeq([k \in DOMAIN F |-> Little(F[k][1], F[k][2])])

\* g is h with a number x of w bytes more.
Grown(h, g, x, w) ==
  /\ h \in Seq(Nat) /\ g \in Seq(Nat) /\ Len(g) = Len(h) + w
  /\ \A i \in 1..Len(h) : g[i] = h[i]
  /\ \A i \in 1..w : g[Len(h) + i] = Little(x, w)[i]
  /\ w = 1 /\ x \in 0..255 => g[Len(h) + 1] = x

LEMMA PackMore ==
  ASSUME NEW F \in Pairs, NEW x \in Nat, NEW w \in {1, 2, 4}
  PROVE  Append(F, <<x, w>>) \in Pairs /\ Grown(Pack(F), Pack(Append(F, <<x, w>>)), x, w)
<1> DEFINE G == Append(F, <<x, w>>)
           ls == [k \in DOMAIN F |-> Little(F[k][1], F[k][2])]
           ks == [k \in DOMAIN G |-> Little(G[k][1], G[k][2])]
           n == Len(F)
<1>1. n \in Nat /\ DOMAIN F = 1..n /\ \A k \in 1..n : F[k][1] \in Nat /\ F[k][2] \in {1, 2, 4}
  BY ElementOfSeq DEF Pairs
<1>2. /\ G \in Pairs /\ DOMAIN G = 1..(n + 1) /\ G[n + 1] = <<x, w>>
      /\ \A k \in 1..n : G[k] = F[k]
  BY DEF Pairs
<1>3. \A y \in Nat, v \in {1, 2, 4} : Little(y, v) \in Seq(Nat) /\ Len(Little(y, v)) = v
  <2>1. ASSUME NEW y \in Nat, NEW v \in {1, 2, 4} PROVE Little(y, v) \in Seq(Nat) /\ Len(Little(y, v)) = v
    <3>1. v \in 1..4
      OBVIOUS
    <3>2. BytesOf(Little(y, v), y, v)
      BY <3>1, LittleIs
    <3> QED
      BY <3>2, Zenon DEF BytesOf
  <2> QED
    BY <2>1
<1>4. Pack(F) = FlattenSeq(ls) /\ Pack(G) = FlattenSeq(ks)
  BY Zenon DEF Pack
<1> HIDE DEF G, n
<1>5. ls \in Seq(Seq(Nat)) /\ Len(ls) = n /\ \A k \in 1..n : ls[k] = Little(F[k][1], F[k][2])
  <2>1. ASSUME NEW k \in 1..n PROVE ls[k] = Little(F[k][1], F[k][2]) /\ ls[k] \in Seq(Nat)
    <3>1. ls[k] = Little(F[k][1], F[k][2])
      BY <1>1
    <3> HIDE DEF ls
    <3> QED
      BY <1>1, <1>3, <3>1
  <2>2. ls = [k \in 1..n |-> ls[k]]
    BY <1>1
  <2> HIDE DEF ls
  <2>3. ls \in [1..n -> Seq(Nat)]
    BY <2>1, <2>2
  <2> QED
    BY <1>1, <2>1, <2>3
<1>6. PICK l : l = Little(x, w)
  OBVIOUS
<1>7. l \in Seq(Nat) /\ Len(l) = w
  BY <1>3, <1>6
<1>8. ks = Append(ls, l)
  <2>1. /\ Append(ls, l) \in Seq(Seq(Nat)) /\ Len(Append(ls, l)) = n + 1 /\ Append(ls, l)[n + 1] = l
        /\ \A k \in 1..n : Append(ls, l)[k] = ls[k]
    BY <1>5, <1>7, AppendProperties
  <2>2. /\ ks = [k \in 1..(n + 1) |-> ks[k]]
        /\ \A k \in 1..(n + 1) : ks[k] = Little(G[k][1], G[k][2])
    BY <1>2
  <2>3. G[n + 1][1] = x /\ G[n + 1][2] = w /\ n + 1 \in 1..(n + 1)
    BY <1>1, <1>2
  <2> HIDE DEF ks, ls
  <2>4. ASSUME NEW k \in 1..(n + 1) PROVE ks[k] = Append(ls, l)[k]
    <3>1. k = n + 1 \/ k \in 1..n
      BY <1>1
    <3>2. CASE k = n + 1
      BY <1>6, <2>1, <2>2, <2>3, <3>2, Zenon
    <3>3. CASE k \in 1..n
      BY <1>2, <1>5, <2>1, <2>2, <3>3, ZenonT(60)
    <3> QED
      BY <3>1, <3>2, <3>3
  <2>5. Append(ls, l) = [k \in 1..(n + 1) |-> Append(ls, l)[k]]
    <3>1. PICK a : a = Append(ls, l)
      OBVIOUS
    <3>2. a \in Seq(Seq(Nat)) /\ Len(a) = n + 1
      BY <2>1, <3>1
    <3>3. a = [k \in 1..(n + 1) |-> a[k]]
      BY <3>2
    <3> QED
      BY <3>1, <3>3, Zenon
  <2> QED
    BY <2>2, <2>4, <2>5, Zenon
<1> HIDE DEF ks, ls
<1>9. PICK h, g : h = Pack(F) /\ g = Pack(G)
  OBVIOUS
<1>10. h \in Seq(Nat) /\ g = h \o l
  BY <1>4, <1>5, <1>7, <1>8, <1>9, FlatAppend
<1>11. /\ g \in Seq(Nat) /\ Len(g) = Len(h) + w /\ \A i \in 1..Len(h) : g[i] = h[i]
       /\ \A i \in 1..w : g[Len(h) + i] = l[i]
  BY <1>7, <1>10, Extended
<1>12. ASSUME w = 1, x \in 0..255 PROVE g[Len(h) + 1] = x
  <2>1. l[1] = x
    BY <1>6, <1>12, ByteIs
  <2>2. 1 \in 1..w
    BY <1>12
  <2> QED
    BY <1>11, <2>1, <2>2
<1> QED
  BY <1>2, <1>6, <1>9, <1>10, <1>11, <1>12, Zenon DEF G, Grown

\* What struct.pack takes.
LEMMA FitsIs ==
  \A x \in Nat : /\ Fits(x, 1) <=> x \in 0..255
                 /\ Fits(x, 2) <=> x < Room(2)
                 /\ Fits(x, 4)
  BY DEF Fits, Room

\* The first numbers of a message: the header hd of seven bytes.
Header(hd, mc, f, t, code) ==
  /\ hd \in Seq(Nat) /\ Len(hd) = 7
  /\ \A i \in 1..4 : hd[i] = Little(mc, 4)[i]
  /\ hd[5] = f /\ hd[6] = t /\ hd[7] = code

Four(mc, f, t, code) == <<<<mc, 4>>, <<f, 1>>, <<t, 1>>, <<code, 1>>>>

LEMMA HeaderIs ==
  ASSUME NEW mc \in Nat, NEW f \in 0..255, NEW t \in 0..255, NEW code \in 0..255
  PROVE  Four(mc, f, t, code) \in Pairs /\ Header(Pack(Four(mc, f, t, code)), mc, f, t, code)
<1>0. f \in Nat /\ t \in Nat /\ code \in Nat /\ 1 \in {1, 2, 4} /\ 4 \in {1, 2, 4}
  OBVIOUS
<1>1. PICK F1, F2, F3 : F1 = Append(<<>>, <<mc, 4>>) /\ F2 = Append(F1, <<f, 1>>) /\ F3 = Append(F2, <<t, 1>>)
  OBVIOUS
<1>2. Four(mc, f, t, code) = Append(F3, <<code, 1>>)
  BY <1>1 DEF Four
<1>3. <<>> \in Pairs
  BY DEF Pairs
<1>4. Pack(<<>>) = <<>>
  <2>1. [k \in DOMAIN <<>> |-> Little(<<>>[k][1], <<>>[k][2])] = <<>>
    OBVIOUS
  <2> QED
    BY <2>1, FlatEmpty, Zenon DEF Pack
<1>5. PICK h1, h2, h3, h4 : h1 = Pack(F1) /\ h2 = Pack(F2) /\ h3 = Pack(F3) /\ h4 = Pack(Four(mc, f, t, code))
  OBVIOUS
<1>6. F1 \in Pairs /\ h1 \in Seq(Nat) /\ Len(h1) = 4 /\ \A i \in 1..4 : h1[i] = Little(mc, 4)[i]
  <2>1. F1 \in Pairs /\ Grown(<<>>, h1, mc, 4)
    BY <1>0, <1>1, <1>3, <1>4, <1>5, PackMore, Zenon
  <2>2. Len(<<>>) = 0 /\ \A i \in 1..4 : 0 + i = i
    OBVIOUS
  <2> QED
    BY <2>1, <2>2 DEF Grown
<1>7. F2 \in Pairs /\ h2 \in Seq(Nat) /\ Len(h2) = 5 /\ (\A i \in 1..4 : h2[i] = h1[i]) /\ h2[5] = f
  <2>1. F2 \in Pairs /\ Grown(h1, h2, f, 1)
    BY <1>0, <1>1, <1>5, <1>6, PackMore, Zenon
  <2> QED
    BY <1>6, <2>1 DEF Grown
<1>8. F3 \in Pairs /\ h3 \in Seq(Nat) /\ Len(h3) = 6 /\ (\A i \in 1..5 : h3[i] = h2[i]) /\ h3[6] = t
  <2>1. F3 \in Pairs /\ Grown(h2, h3, t, 1)
    BY <1>0, <1>1, <1>5, <1>7, PackMore, Zenon
  <2> QED
    BY <1>7, <2>1 DEF Grown
<1>9. /\ Four(mc, f, t, code) \in Pairs /\ h4 \in Seq(Nat) /\ Len(h4) = 7
      /\ (\A i \in 1..6 : h4[i] = h3[i]) /\ h4[7] = code
  <2>1. Four(mc, f, t, code) \in Pairs /\ Grown(h3, h4, code, 1)
    BY <1>0, <1>2, <1>5, <1>8, PackMore, Zenon
  <2> QED
    BY <1>8, <2>1 DEF Grown
<1>10. (\A i \in 1..4 : h4[i] = Little(mc, 4)[i]) /\ h4[5] = f /\ h4[6] = t
  BY <1>6, <1>7, <1>8, <1>9
<1> QED
  BY <1>5, <1>9, <1>10, Zenon DEF Header

\* A number of four bytes is read where it was written.
LEMMA FourRead ==
  ASSUME NEW x \in Nat, x < Room(4), NEW b, NEW k \in Nat,
         \A i \in 1..4 : b[k + i] = Little(x, 4)[i]
  PROVE  Number(b, k + 1, k + 4) = x
<1>1. 4 \in {1, 2, 4} /\ k + 1 \in Nat /\ (k + 1) + 4 - 1 = k + 4 /\ \A i \in 1..4 : (k + 1) + (i - 1) = k + i
  OBVIOUS
<1>2. \A i \in 1..4 : b[(k + 1) + (i - 1)] = Little(x, 4)[i]
  BY <1>1
<1>3. Number(b, k + 1, (k + 1) + 4 - 1) = x
  BY <1>1, <1>2, Unpacked, ZenonT(60)
<1> QED
  BY <1>1, <1>3, Zenon

\* The codes of the messages tell them apart.
LEMMA CodeIs ==
  ASSUME NEW type \in DOMAIN Code
  PROVE  /\ Code[type] \in 0..255
         /\ (CHOOSE x \in DOMAIN Code : Code[x] = Code[type]) = type
<1>1. type \in {"i", "e", "B", "A", "C", "r", "O"} /\ DOMAIN Code = {"i", "e", "B", "A", "C", "r", "O"}
  BY DEF Code
<1>2. /\ Code["i"] = 1 /\ Code["e"] = 2 /\ Code["B"] = 3 /\ Code["A"] = 4
      /\ Code["C"] = 5 /\ Code["r"] = 6 /\ Code["O"] = 7
  BY DEF Code
<1>3. Code[type] \in 0..255
  BY <1>1, <1>2
<1>4. \A x \in DOMAIN Code : Code[x] = Code[type] => x = type
  BY <1>1, <1>2
<1> QED
  BY <1>3, <1>4, Zenon

\* Five strings, one after another, in the groups that are looked at.
Groups(a, b, c, d, e) ==
  LET x == a \o (((b \o c) \o d) \o e) IN
  /\ x = (((a \o b) \o c) \o d) \o e
  /\ x = (a \o b) \o (c \o (d \o e)) /\ c \o (d \o e) \in Seq(Nat)
  /\ x = ((a \o b) \o c) \o (d \o e) /\ d \o e \in Seq(Nat)

LEMMA Regrouped ==
  ASSUME NEW a \in Seq(Nat), NEW b \in Seq(Nat), NEW c \in Seq(Nat), NEW d \in Seq(Nat), NEW e \in Seq(Nat)
  PROVE  Groups(a, b, c, d, e)
<1>1. PICK p, q, r, u, v : p = b \o c /\ q = p \o d /\ r = d \o e /\ u = a \o b /\ v = u \o c
  OBVIOUS
<1>2. p \in Seq(Nat) /\ r \in Seq(Nat) /\ u \in Seq(Nat)
  BY <1>1, ConcatProperties
<1>3. q \in Seq(Nat) /\ v \in Seq(Nat) /\ c \o r \in Seq(Nat)
  BY <1>1, <1>2, ConcatProperties
<1>4. Tied(a, q, e) /\ Tied(a, p, d) /\ Tied(a, b, c) /\ Tied(v, d, e) /\ Tied(u, c, r)
  BY <1>2, <1>3, TiedIs, Zenon
<1>5. a \o (q \o e) = (a \o q) \o e /\ a \o q = (a \o p) \o d /\ a \o p = v
  BY <1>1, <1>4, Zenon DEF Tied
<1>6. (v \o d) \o e = v \o r /\ v \o r = u \o (c \o r)
  BY <1>1, <1>4, Zenon DEF Tied
<1> QED
  BY <1>1, <1>2, <1>3, <1>5, <1>6, Zenon DEF Groups

\* What "i" and "e" messages carry.
Stripes ==
  [s : {x \in Seq(Nat) : Len(x) < Room(4)},
   rh : {x \in Seq(Nat) : Len(x) = SHA_LENGTH},
   mb : {q \in Seq(Seq(Nat)) : \A k \in 1..Len(q) : Len(q[k]) = SHA_LENGTH},
   sig : Seq(Nat)]

\* It is found after the lengths, wherever they end.
LEMMA StripeIs ==
  ASSUME NEW st \in Stripes, NEW hd \in Seq(Nat)
  PROVE  /\ Joined(st) \in Seq(Nat)
         /\ Stripe(hd \o Joined(st), Len(hd), Len(st.s), Len(st.mb)) = st
<1>1. PICK s, rh, mb, sig, f, w :
        s = st.s /\ rh = st.rh /\ mb = st.mb /\ sig = st.sig /\ f = FlattenSeq(mb) /\ w = SHA_LENGTH
  OBVIOUS
<1>2. /\ s \in Seq(Nat) /\ rh \in Seq(Nat) /\ Len(rh) = w /\ mb \in Seq(Seq(Nat)) /\ sig \in Seq(Nat)
      /\ \A k \in 1..Len(mb) : Len(mb[k]) = w
  BY <1>1 DEF Stripes
<1>3. st = [s |-> s, rh |-> rh, mb |-> mb, sig |-> sig]
  <2>1. st = [s |-> st.s, rh |-> st.rh, mb |-> st.mb, sig |-> st.sig]
    BY DEF Stripes
  <2> QED
    BY <1>1, <2>1, Zenon
<1>4. w \in Nat /\ w = 32
  BY <1>1 DEF SHA_LENGTH
<1>5. PICK nr, n, m : nr = Len(mb) /\ n = Len(hd) /\ m = Len(s)
  OBVIOUS
<1>6. nr \in Nat /\ n \in Nat /\ m \in Nat
  BY <1>2, <1>5
<1>7. f \in Seq(Nat) /\ Len(f) = w * nr
  <2>1. FlattenSeq(mb) \in Seq(Nat) /\ Len(FlattenSeq(mb)) = w * Len(mb)
    BY <1>2, <1>4, BlocksAre
  <2> QED
    BY <1>1, <1>5, <2>1, Zenon
<1>8. PICK u, v, x, b : u = hd \o s /\ v = u \o rh /\ x = v \o f /\ b = hd \o (((s \o rh) \o f) \o sig)
  OBVIOUS
<1>9. Joined(st) = ((s \o rh) \o f) \o sig
  BY <1>1, Zenon DEF Joined
<1>10. Joined(st) \in Seq(Nat)
  <2>1. s \o rh \in Seq(Nat)
    BY <1>2, ConcatProperties
  <2>2. (s \o rh) \o f \in Seq(Nat)
    BY <1>7, <2>1, ConcatProperties
  <2>3. ((s \o rh) \o f) \o sig \in Seq(Nat)
    BY <1>2, <2>2, ConcatProperties
  <2> QED
    BY <1>9, <2>3, Zenon
<1>11. u \in Seq(Nat) /\ Len(u) = n + m /\ v \in Seq(Nat) /\ Len(v) = (n + m) + w /\ x \in Seq(Nat) /\ Len(x) = ((n + m) + w) + w * nr
  <2>1. u \in Seq(Nat) /\ Len(u) = Len(hd) + Len(s)
    BY <1>2, <1>8, Extended
  <2>2. v \in Seq(Nat) /\ Len(v) = Len(u) + Len(rh)
    BY <1>2, <1>8, <2>1, Extended
  <2>3. x \in Seq(Nat) /\ Len(x) = Len(v) + Len(f)
    BY <1>7, <1>8, <2>2, Extended
  <2> QED
    BY <1>2, <1>5, <1>7, <2>1, <2>2, <2>3, Zenon
<1>12. PICK y, z : y = rh \o (f \o sig) /\ z = f \o sig
  OBVIOUS
<1>13. y \in Seq(Nat) /\ z \in Seq(Nat) /\ b = u \o y /\ b = v \o z /\ b = x \o sig
  <2>1. s \in Seq(Nat) /\ rh \in Seq(Nat) /\ f \in Seq(Nat) /\ sig \in Seq(Nat)
    BY <1>2, <1>7
  <2>2. Groups(hd, s, rh, f, sig)
    BY <2>1, Regrouped, Zenon
  <2> QED
    BY <1>8, <1>12, <2>2, Zenon DEF Groups
<1>14. SubSeq(b, n + 1, n + m) = s
  <2>1. SubSeq((hd \o s) \o y, Len(hd) + 1, Len(hd) + Len(s)) = s
    BY <1>2, <1>13, Middle
  <2> QED
    BY <1>5, <1>8, <1>13, <2>1, Zenon
<1>15. SubSeq(b, n + m + 1, n + m + w * 1) = rh
  <2>1. SubSeq((u \o rh) \o z, Len(u) + 1, Len(u) + Len(rh)) = rh
    BY <1>2, <1>11, <1>13, Middle
  <2>2. w * 1 = w
    BY <1>4
  <2> QED
    BY <1>2, <1>8, <1>11, <1>13, <2>1, <2>2, Zenon
<1>16. ASSUME NEW k \in 1..nr PROVE SubSeq(b, (n + m + w * k) + 1, n + m + w * (k + 1)) = mb[k]
  <2>1. k \in 1..Len(mb)
    BY <1>5
  <2>2. SubSeq((v \o FlattenSeq(mb)) \o sig, (Len(v) + w * (k - 1)) + 1, Len(v) + w * k) = mb[k]
    <3>1. mb \in Seq(Seq(Nat)) /\ v \in Seq(Nat) /\ sig \in Seq(Nat) /\ \A j \in 1..Len(mb) : Len(mb[j]) = w
      BY <1>2, <1>11
    <3> QED
      BY <1>4, <2>1, <3>1, BlockAt, ZenonT(60)
  <2>3. ((n + m) + w) + w * (k - 1) = n + m + w * k /\ ((n + m) + w) + w * k = n + m + w * (k + 1)
    BY <1>4, <1>6
  <2> QED
    BY <1>1, <1>8, <1>11, <1>13, <2>2, <2>3, Zenon
<1>17. SubSeq(b, (n + m + w * (nr + 1)) + 1, Len(b)) = sig
  <2>1. SubSeq(x \o sig, Len(x) + 1, Len(x \o sig)) = sig
    BY <1>2, <1>11, Parts
  <2>2. ((n + m) + w) + w * nr = n + m + w * (nr + 1)
    BY <1>4, <1>6
  <2> QED
    BY <1>11, <1>13, <2>1, <2>2, Zenon
<1>18. [k \in 1..nr |-> SubSeq(b, (n + m + w * k) + 1, n + m + w * (k + 1))] = mb
  <2>1. mb = [k \in 1..nr |-> mb[k]]
    BY <1>2, <1>5
  <2> QED
    BY <1>16, <2>1, Zenon
<1>19. Stripe(b, n, m, nr) =
         [s |-> SubSeq(b, n + 1, n + m), rh |-> SubSeq(b, n + m + 1, n + m + w * 1),
          mb |-> [k \in 1..nr |-> SubSeq(b, (n + m + w * k) + 1, n + m + w * (k + 1))],
          sig |-> SubSeq(b, (n + m + w * (nr + 1)) + 1, Len(b))]
  BY <1>1, Zenon DEF Stripe
<1>20. Stripe(b, n, m, nr) = st
  BY <1>3, <1>14, <1>15, <1>17, <1>18, <1>19, Zenon
<1> QED
  BY <1>1, <1>5, <1>8, <1>9, <1>10, <1>20, Zenon

\* What a message carries, by its type.
BodiesOf(type) ==
  CASE type = "i" -> Stripes
    [] type = "e" -> [p : Nat, part : Stripes]
    [] type = "r" -> [p : Nat, sig : Seq(Nat)]
    [] type = "O" -> [p : Nat, sig : {x \in Seq(Nat) : Len(x) = PAIRING_SERIALIZED_1}]
    [] type = "C" -> [p : Nat, round : Nat, sig : Seq(Nat)]
    [] type \in {"A", "B"} -> [p : Nat, round : Nat, v : Nat]

\* A message with parts of the sizes that the code assumes, and with a number
\* and lengths below 2^32.
WellFormed(m) ==
  /\ m = [mc |-> m.mc, f |-> m.f, t |-> m.t, type |-> m.type, body |-> m.body]
  /\ m.mc \in Nat /\ m.mc < Room(4) /\ m.f \in Nat /\ m.t \in Nat
  /\ m.type \in DOMAIN Code
  /\ m.body \in BodiesOf(m.type)

\* Numbers of a list that fit into their bytes.
AllFit(F) == \A k \in DOMAIN F : Fits(F[k][1], F[k][2])

LEMMA FitMore ==
  ASSUME NEW F \in Pairs, NEW x \in Nat, NEW w \in {1, 2, 4}
  PROVE  AllFit(Append(F, <<x, w>>)) <=> AllFit(F) /\ Fits(x, w)
<1>1. PICK G, n : G = Append(F, <<x, w>>) /\ n = Len(F)
  OBVIOUS
<1>2. /\ n \in Nat /\ DOMAIN F = 1..n /\ DOMAIN G = 1..(n + 1) /\ G[n + 1] = <<x, w>>
      /\ \A k \in 1..n : G[k] = F[k]
  BY <1>1 DEF Pairs
<1>3. G[n + 1][1] = x /\ G[n + 1][2] = w
  BY <1>2
<1>4. \A k \in 1..(n + 1) : k = n + 1 \/ k \in 1..n
  BY <1>2
<1>5. n + 1 \in 1..(n + 1) /\ \A k \in 1..n : k \in 1..(n + 1)
  BY <1>2
<1>6. AllFit(F) <=> \A k \in 1..n : Fits(G[k][1], G[k][2])
  BY <1>2, Zenon DEF AllFit
<1>7. AllFit(G) <=> \A k \in 1..(n + 1) : Fits(G[k][1], G[k][2])
  BY <1>2, Zenon DEF AllFit
<1> QED
  BY <1>1, <1>3, <1>4, <1>5, <1>6, <1>7, Zenon

LEMMA FitFour ==
  ASSUME NEW mc \in Nat, NEW f \in Nat, NEW t \in Nat, NEW code \in 0..255
  PROVE  /\ Four(mc, f, t, code) \in Pairs
         /\ AllFit(Four(mc, f, t, code)) <=> f \in 0..255 /\ t \in 0..255
<1>1. PICK F1, F2, F3 : F1 = Append(<<>>, <<mc, 4>>) /\ F2 = Append(F1, <<f, 1>>) /\ F3 = Append(F2, <<t, 1>>)
  OBVIOUS
<1>2. Four(mc, f, t, code) = Append(F3, <<code, 1>>)
  BY <1>1 DEF Four
<1>3. <<>> \in Pairs /\ AllFit(<<>>) /\ code \in Nat /\ 1 \in {1, 2, 4} /\ 4 \in {1, 2, 4}
  BY DEF Pairs, AllFit
<1>4. F1 \in Pairs /\ (AllFit(F1) <=> AllFit(<<>>) /\ Fits(mc, 4))
  BY <1>1, <1>3, FitMore, PackMore, Zenon
<1>5. F2 \in Pairs /\ (AllFit(F2) <=> AllFit(F1) /\ Fits(f, 1))
  BY <1>1, <1>3, <1>4, FitMore, PackMore, Zenon
<1>6. F3 \in Pairs /\ (AllFit(F3) <=> AllFit(F2) /\ Fits(t, 1))
  BY <1>1, <1>3, <1>5, FitMore, PackMore, Zenon
<1>7. /\ Four(mc, f, t, code) \in Pairs
      /\ AllFit(Four(mc, f, t, code)) <=> AllFit(F3) /\ Fits(code, 1)
  <2>1. LET G == Append(F3, <<code, 1>>) IN G \in Pairs /\ (AllFit(G) <=> AllFit(F3) /\ Fits(code, 1))
    BY <1>3, <1>6, FitMore, PackMore, Zenon
  <2> QED
    BY <1>2, <2>1, Zenon
<1> QED
  BY <1>3, <1>4, <1>5, <1>6, <1>7, FitsIs, Zenon

\* Pairs that are added to a list.
LEMMA Added ==
  \A F \in Pairs : \A x, y, z \in Nat \X {1, 2, 4} :
    /\ F \o <<x>> = Append(F, x)
    /\ F \o <<x, y>> = Append(Append(F, x), y)
    /\ F \o <<x, y, z>> = Append(Append(Append(F, x), y), z)
<1>1. SUFFICES ASSUME NEW F \in Pairs, NEW x \in Nat \X {1, 2, 4}, NEW y \in Nat \X {1, 2, 4}, NEW z \in Nat \X {1, 2, 4}
      PROVE  /\ F \o <<x>> = Append(F, x)
             /\ F \o <<x, y>> = Append(Append(F, x), y)
             /\ F \o <<x, y, z>> = Append(Append(Append(F, x), y), z)
  BY Zenon
<1>2. F \o <<x>> = Append(F, x)
  BY DEF Pairs
<1>3. F \o <<x, y>> = Append(Append(F, x), y)
  BY DEF Pairs
<1>4. F \o <<x, y, z>> = Append(Append(Append(F, x), y), z)
  BY DEF Pairs
<1> QED
  BY <1>2, <1>3, <1>4

\* b starts with the header of m.
HeadOf(b, m) ==
  /\ \A i \in 1..4 : b[i] = Little(m.mc, 4)[i]
  /\ b[5] = m.f /\ b[6] = m.t /\ b[7] = Code[m.type]

Start(m) == Four(m.mc, m.f, m.t, Code[m.type])

LEMMA StartIs ==
  ASSUME NEW m, WellFormed(m)
  PROVE  /\ Start(m) \in Pairs
         /\ AllFit(Start(m)) <=> m.f \in 0..255 /\ m.t \in 0..255
         /\ AllFit(Start(m)) => /\ Pack(Start(m)) \in Seq(Nat) /\ Len(Pack(Start(m))) = 7
                                /\ HeadOf(Pack(Start(m)), m)
<1>1. PICK mc, f, t, code : mc = m.mc /\ f = m.f /\ t = m.t /\ code = Code[m.type]
  OBVIOUS
<1>2. mc \in Nat /\ f \in Nat /\ t \in Nat /\ code \in 0..255
  <2>1. m.type \in DOMAIN Code /\ mc \in Nat /\ f \in Nat /\ t \in Nat
    BY <1>1, Zenon DEF WellFormed
  <2> QED
    BY <1>1, <2>1, CodeIs, Zenon
<1>3. Start(m) = Four(mc, f, t, code)
  BY <1>1, ZenonT(60) DEF Start
<1>4. Four(mc, f, t, code) \in Pairs /\ (AllFit(Four(mc, f, t, code)) <=> f \in 0..255 /\ t \in 0..255)
  BY <1>2, FitFour, ZenonT(60)
<1>5. ASSUME f \in 0..255, t \in 0..255
      PROVE  Pack(Start(m)) \in Seq(Nat) /\ Len(Pack(Start(m))) = 7 /\ HeadOf(Pack(Start(m)), m)
  <2>1. Header(Pack(Start(m)), mc, f, t, code)
    BY <1>2, <1>3, <1>5, HeaderIs, Zenon
  <2> QED
    BY <1>1, <2>1, Zenon DEF Header, HeadOf
<1> QED
  BY <1>1, <1>3, <1>4, <1>5, Zenon

\* The header stays where it is.
LEMMA HeadStays ==
  ASSUME NEW m, NEW h, NEW g, NEW x, NEW w \in {1, 2, 4}, Len(h) >= 7, HeadOf(h, m), Grown(h, g, x, w)
  PROVE  HeadOf(g, m)
<1>1. Len(h) \in Nat /\ \A i \in 1..Len(h) : g[i] = h[i]
  BY DEF Grown
<1>2. \A i \in 1..7 : g[i] = h[i]
  BY <1>1
<1>3. /\ 5 \in 1..7 /\ 6 \in 1..7 /\ 7 \in 1..7
      /\ \A i \in 1..4 : i \in 1..7
  OBVIOUS
<1> QED
  BY <1>2, <1>3, Zenon DEF HeadOf

LEMMA HeadJoined ==
  ASSUME NEW m, NEW h \in Seq(Nat), NEW l \in Seq(Nat), Len(h) >= 7, HeadOf(h, m)
  PROVE  HeadOf(h \o l, m)
<1>1. \A i \in 1..Len(h) : (h \o l)[i] = h[i]
  BY Extended
<1>2. \A i \in 1..7 : (h \o l)[i] = h[i]
  BY <1>1
<1>3. /\ 5 \in 1..7 /\ 6 \in 1..7 /\ 7 \in 1..7
      /\ \A i \in 1..4 : i \in 1..7
  OBVIOUS
<1> QED
  BY <1>2, <1>3, Zenon DEF HeadOf

\* The code of a message is its numbers and what follows them.
LEMMA EncodedIs ==
  ASSUME NEW m
  PROVE  /\ DeepEncode(m) = Pack(Packed(m)) \o Raw(m.type, m.body)
         /\ Encodable(m) <=> AllFit(Packed(m))
         /\ Packed(m) = Start(m) \o Fields(m.type, m.body)
<1>1. DeepEncode(m) = Pack(Packed(m)) \o Raw(m.type, m.body)
  BY Zenon DEF DeepEncode, Pack
<1>2. Encodable(m) <=> AllFit(Packed(m))
  BY Zenon DEF Encodable, AllFit
<1>3. Packed(m) = Start(m) \o Fields(m.type, m.body)
  BY Zenon DEF Packed, Start, Four
<1> QED
  BY <1>1, <1>2, <1>3

\* A code is decoded if its body is.
LEMMA DecodedIs ==
  ASSUME NEW m, WellFormed(m), NEW b, HeadOf(b, m), Body(b, Code[m.type]) = m.body
  PROVE  DeepDecode(b) = m
<1>1. /\ m = [mc |-> m.mc, f |-> m.f, t |-> m.t, type |-> m.type, body |-> m.body]
      /\ m.mc \in Nat /\ m.mc < Room(4) /\ m.type \in DOMAIN Code
  BY Zenon DEF WellFormed
<1>2. Number(b, 1, 4) = m.mc
  <2>1. 0 \in Nat /\ 0 + 1 = 1 /\ 0 + 4 = 4 /\ \A i \in 1..4 : 0 + i = i
    OBVIOUS
  <2>2. \A i \in 1..4 : b[0 + i] = Little(m.mc, 4)[i]
    BY <2>1, Zenon DEF HeadOf
  <2>3. Number(b, 0 + 1, 0 + 4) = m.mc
    BY <1>1, <2>1, <2>2, FourRead, Zenon
  <2> QED
    BY <2>1, <2>3, Zenon
<1>3. b[5] = m.f /\ b[6] = m.t /\ b[7] = Code[m.type]
  BY Zenon DEF HeadOf
<1>4. (CHOOSE x \in DOMAIN Code : Code[x] = b[7]) = m.type
  <2> DEFINE tag(y) == CHOOSE x \in DOMAIN Code : Code[x] = y
  <2>1. tag(Code[m.type]) = m.type
    BY <1>1, CodeIs, Zenon
  <2> HIDE DEF tag
  <2>2. tag(b[7]) = m.type
    BY <1>3, <2>1, Zenon
  <2> QED
    BY <2>2, Zenon DEF tag
<1>5. Body(b, b[7]) = m.body
  BY <1>3, Zenon
<1>6. DeepDecode(b) =
        [mc |-> Number(b, 1, 4), f |-> b[5], t |-> b[6],
         type |-> CHOOSE x \in DOMAIN Code : Code[x] = b[7], body |-> Body(b, b[7])]
  BY Zenon DEF DeepDecode
<1> QED
  BY <1>1, <1>2, <1>3, <1>4, <1>5, <1>6, Zenon

\* The message comes back unless struct.pack refuses it.
Returned(m) == Encodable(m) => DeepDecode(DeepEncode(m)) = m

LEMMA OneNumber ==
  ASSUME NEW m, WellFormed(m), m.type \in {"r", "O"}
  PROVE  Returned(m)
<1>1. PICK c, p, sig : c = m.body /\ p = c.p /\ sig = c.sig
  OBVIOUS
<1>2. /\ p \in Nat /\ sig \in Seq(Nat) /\ c = [p |-> p, sig |-> sig]
      /\ m.type = "O" => Len(sig) = PAIRING_SERIALIZED_1
  <2>1. c \in BodiesOf(m.type)
    BY <1>1, Zenon DEF WellFormed
  <2>2. CASE m.type = "r"
    <3>1. c \in [p : Nat, sig : Seq(Nat)]
      BY <2>1, <2>2 DEF BodiesOf
    <3> QED
      BY <1>1, <2>2, <3>1
  <2>3. CASE m.type = "O"
    <3>1. c \in [p : Nat, sig : {x \in Seq(Nat) : Len(x) = PAIRING_SERIALIZED_1}]
      BY <2>1, <2>3 DEF BodiesOf
    <3> QED
      BY <1>1, <3>1
  <2> QED
    BY <2>2, <2>3
<1>3. PICK F, G, h, g : F = Start(m) /\ G = Append(F, <<p, 1>>) /\ h = Pack(F) /\ g = Pack(G)
  OBVIOUS
<1>4. F \in Pairs
  BY <1>3, StartIs
<1>5. Fields(m.type, m.body) = <<<<p, 1>>>> /\ Raw(m.type, m.body) = sig
  BY <1>1 DEF Fields, Raw
<1>6. Packed(m) = G
  <2>1. <<p, 1>> \in Nat \X {1, 2, 4}
    BY <1>2
  <2>2. F \o <<<<p, 1>>>> = G
    BY <1>3, <1>4, <2>1, Added DEF Pairs
  <2> QED
    BY <1>3, <1>5, <2>2, EncodedIs, Zenon
<1>7. SUFFICES ASSUME Encodable(m) PROVE DeepDecode(DeepEncode(m)) = m
  BY Zenon DEF Returned
<1>8. AllFit(F) /\ p \in 0..255
  <2>1. AllFit(G) /\ 1 \in {1, 2, 4}
    BY <1>6, <1>7, EncodedIs
  <2>2. AllFit(F) /\ Fits(p, 1)
    BY <1>2, <1>3, <1>4, <2>1, FitMore, Zenon
  <2> QED
    BY <1>2, <2>2, FitsIs, Zenon
<1>9. h \in Seq(Nat) /\ Len(h) = 7 /\ HeadOf(h, m)
  BY <1>3, <1>8, StartIs, Zenon
<1>10. Grown(h, g, p, 1)
  <2>1. 1 \in {1, 2, 4}
    OBVIOUS
  <2> QED
    BY <1>2, <1>3, <1>4, <2>1, PackMore, Zenon
<1>11. g \in Seq(Nat) /\ Len(g) = 8 /\ g[8] = p
  BY <1>8, <1>9, <1>10 DEF Grown
<1>12. HeadOf(g, m)
  <2>1. Len(h) >= 7 /\ 1 \in {1, 2, 4}
    BY <1>9
  <2> QED
    BY <1>9, <1>10, <2>1, HeadStays, Zenon
<1>13. PICK b : b = g \o sig
  OBVIOUS
<1>14. b[8] = p /\ Len(b) = 8 + Len(sig)
  <2>1. Len(b) = Len(g) + Len(sig) /\ \A i \in 1..Len(g) : b[i] = g[i]
    BY <1>2, <1>11, <1>13, Extended
  <2> QED
    BY <1>11, <2>1
<1>15. SubSeq(b, 9, Len(b)) = sig
  <2>1. SubSeq(g \o sig, Len(g) + 1, Len(g \o sig)) = sig
    BY <1>2, <1>11, Parts
  <2>2. 8 + 1 = 9
    OBVIOUS
  <2> QED
    BY <1>11, <1>13, <2>1, <2>2, Zenon
<1>16. Body(b, Code[m.type]) = m.body
  <2>1. CASE m.type = "r"
    <3>1. Code[m.type] = 6
      BY <2>1 DEF Code
    <3>2. Body(b, 6) = [p |-> b[8], sig |-> SubSeq(b, 9, Len(b))]
      BY DEF Body
    <3> QED
      BY <1>1, <1>2, <1>14, <1>15, <3>1, <3>2, Zenon
  <2>2. CASE m.type = "O"
    <3>1. Code[m.type] = 7
      BY <2>2 DEF Code
    <3>2. Body(b, 7) = [p |-> b[8], sig |-> SubSeq(b, 9, 8 + PAIRING_SERIALIZED_1)]
      BY DEF Body
    <3> QED
      BY <1>1, <1>2, <1>14, <1>15, <2>2, <3>1, <3>2, Zenon
  <2> QED
    BY <2>1, <2>2
<1>17. HeadOf(b, m)
  <2>1. Len(g) >= 7
    BY <1>11
  <2> QED
    BY <1>2, <1>11, <1>12, <1>13, <2>1, HeadJoined, Zenon
<1>18. DeepEncode(m) = b
  BY <1>3, <1>5, <1>6, <1>13, EncodedIs, Zenon
<1> QED
  BY <1>16, <1>17, <1>18, DecodedIs, Zenon

LEMMA ThreeNumbers ==
  ASSUME NEW m, WellFormed(m), m.type \in {"A", "B"}
  PROVE  /\ Returned(m)
         /\ Encodable(m) <=> /\ m.f \in 0..255 /\ m.t \in 0..255
                                   /\ m.body.p \in 0..255 /\ m.body.round \in 0..255 /\ m.body.v \in 0..255
<1>1. PICK c, p, r, v : c = m.body /\ p = c.p /\ r = c.round /\ v = c.v
  OBVIOUS
<1>2. p \in Nat /\ r \in Nat /\ v \in Nat /\ c = [p |-> p, round |-> r, v |-> v] /\ 1 \in {1, 2, 4}
  <2>1. c \in BodiesOf(m.type)
    BY <1>1, Zenon DEF WellFormed
  <2>2. c \in [p : Nat, round : Nat, v : Nat]
    BY <2>1 DEF BodiesOf
  <2> QED
    BY <1>1, <2>2
<1>3. PICK F, G1, G2, G3, h, g1, g2, g3 :
        /\ F = Start(m) /\ G1 = Append(F, <<p, 1>>) /\ G2 = Append(G1, <<r, 1>>) /\ G3 = Append(G2, <<v, 1>>)
        /\ h = Pack(F) /\ g1 = Pack(G1) /\ g2 = Pack(G2) /\ g3 = Pack(G3)
  OBVIOUS
<1>4. F \in Pairs
  BY <1>3, StartIs
<1>5. Fields(m.type, m.body) = <<<<p, 1>>, <<r, 1>>, <<v, 1>>>> /\ Raw(m.type, m.body) = <<>>
  BY <1>1 DEF Fields, Raw
<1>6. Packed(m) = G3
  <2>1. <<p, 1>> \in Nat \X {1, 2, 4} /\ <<r, 1>> \in Nat \X {1, 2, 4} /\ <<v, 1>> \in Nat \X {1, 2, 4}
    BY <1>2
  <2>2. PICK a1, a2, a3 : a1 = <<p, 1>> /\ a2 = <<r, 1>> /\ a3 = <<v, 1>>
    OBVIOUS
  <2>3. a1 \in Nat \X {1, 2, 4} /\ a2 \in Nat \X {1, 2, 4} /\ a3 \in Nat \X {1, 2, 4}
    BY <2>1, <2>2, Zenon
  <2>4. F \o <<a1, a2, a3>> = Append(Append(Append(F, a1), a2), a3)
    BY <1>4, <2>3 DEF Pairs
  <2> QED
    BY <1>3, <1>5, <2>2, <2>4, EncodedIs, Zenon
<1>7. G1 \in Pairs /\ Grown(h, g1, p, 1) /\ (AllFit(G1) <=> AllFit(F) /\ Fits(p, 1))
  BY <1>2, <1>3, <1>4, PackMore, FitMore, Zenon
<1>8. G2 \in Pairs /\ Grown(g1, g2, r, 1) /\ (AllFit(G2) <=> AllFit(G1) /\ Fits(r, 1))
  BY <1>2, <1>3, <1>7, PackMore, FitMore, Zenon
<1>9. Grown(g2, g3, v, 1) /\ (AllFit(G3) <=> AllFit(G2) /\ Fits(v, 1))
  BY <1>2, <1>3, <1>8, PackMore, FitMore, Zenon
<1>10. Encodable(m) <=> m.f \in 0..255 /\ m.t \in 0..255 /\ p \in 0..255 /\ r \in 0..255 /\ v \in 0..255
  <2>1. Encodable(m) <=> AllFit(G3)
    BY <1>6, EncodedIs
  <2>2. AllFit(F) <=> m.f \in 0..255 /\ m.t \in 0..255
    BY <1>3, StartIs
  <2> QED
    BY <1>2, <1>7, <1>8, <1>9, <2>1, <2>2, FitsIs, ZenonT(60)
<1>11. ASSUME Encodable(m) PROVE DeepDecode(DeepEncode(m)) = m
  <2>1. h \in Seq(Nat) /\ Len(h) = 7 /\ HeadOf(h, m)
    BY <1>3, <1>10, <1>11, StartIs, Zenon
  <2>2. p \in 0..255 /\ r \in 0..255 /\ v \in 0..255
    BY <1>10, <1>11, Zenon
  <2>3. g1 \in Seq(Nat) /\ Len(g1) = 8 /\ g1[8] = p
    BY <1>7, <2>1, <2>2 DEF Grown
  <2>4. g2 \in Seq(Nat) /\ Len(g2) = 9 /\ g2[8] = p /\ g2[9] = r
    BY <1>8, <2>2, <2>3 DEF Grown
  <2>5. g3 \in Seq(Nat) /\ g3[8] = p /\ g3[9] = r /\ g3[10] = v
    BY <1>9, <2>2, <2>4 DEF Grown
  <2>6. Len(h) >= 7 /\ Len(g1) >= 7 /\ Len(g2) >= 7
    BY <2>1, <2>3, <2>4
  <2>7. HeadOf(g3, m)
    <3>1. HeadOf(g1, m)
      BY <1>2, <1>7, <2>1, <2>6, HeadStays, Zenon
    <3>2. HeadOf(g2, m)
      BY <1>2, <1>8, <2>6, <3>1, HeadStays, Zenon
    <3> QED
      BY <1>2, <1>9, <2>6, <3>2, HeadStays, Zenon
  <2>8. Body(g3, Code[m.type]) = m.body
    <3>1. Code[m.type] \in {3, 4}
      BY DEF Code
    <3>2. \A code \in {3, 4} : Body(g3, code) = [p |-> g3[8], round |-> g3[9], v |-> g3[10]]
      BY DEF Body
    <3> QED
      BY <1>1, <1>2, <2>5, <3>1, <3>2, Zenon
  <2>9. DeepEncode(m) = g3
    <3>1. g3 \o <<>> = g3
      BY <2>5, ConcatEmptySeq
    <3> QED
      BY <1>3, <1>5, <1>6, <3>1, EncodedIs, Zenon
  <2> QED
    BY <2>7, <2>8, <2>9, DecodedIs, Zenon
<1> QED
  BY <1>1, <1>10, <1>11, ZenonT(60) DEF Returned

LEMMA CoinMessage ==
  ASSUME NEW m, WellFormed(m), m.type = "C"
  PROVE  /\ Returned(m)
         /\ Encodable(m) <=> /\ m.f \in 0..255 /\ m.t \in 0..255
                                   /\ m.body.p \in 0..255 /\ m.body.round < Room(2)
<1>1. PICK c, p, r, sig : c = m.body /\ p = c.p /\ r = c.round /\ sig = c.sig
  OBVIOUS
<1>2. /\ p \in Nat /\ r \in Nat /\ sig \in Seq(Nat) /\ c = [p |-> p, round |-> r, sig |-> sig]
      /\ 1 \in {1, 2, 4} /\ 2 \in {1, 2, 4}
  <2>1. c \in BodiesOf(m.type)
    BY <1>1, Zenon DEF WellFormed
  <2>2. c \in [p : Nat, round : Nat, sig : Seq(Nat)]
    BY <2>1 DEF BodiesOf
  <2> QED
    BY <1>1, <2>2
<1>3. PICK F, G1, G2, h, g1, g2 :
        /\ F = Start(m) /\ G1 = Append(F, <<p, 1>>) /\ G2 = Append(G1, <<r, 2>>)
        /\ h = Pack(F) /\ g1 = Pack(G1) /\ g2 = Pack(G2)
  OBVIOUS
<1>4. F \in Pairs
  BY <1>3, StartIs
<1>5. Fields(m.type, m.body) = <<<<p, 1>>, <<r, 2>>>> /\ Raw(m.type, m.body) = sig
  BY <1>1 DEF Fields, Raw
<1>6. Packed(m) = G2
  <2>1. <<p, 1>> \in Nat \X {1, 2, 4} /\ <<r, 2>> \in Nat \X {1, 2, 4}
    BY <1>2
  <2>2. PICK a1, a2 : a1 = <<p, 1>> /\ a2 = <<r, 2>>
    OBVIOUS
  <2>3. a1 \in Nat \X {1, 2, 4} /\ a2 \in Nat \X {1, 2, 4}
    BY <2>1, <2>2, Zenon
  <2>4. F \o <<a1, a2>> = Append(Append(F, a1), a2)
    BY <1>4, <2>3 DEF Pairs
  <2> QED
    BY <1>3, <1>5, <2>2, <2>4, EncodedIs, Zenon
<1>7. G1 \in Pairs /\ Grown(h, g1, p, 1) /\ (AllFit(G1) <=> AllFit(F) /\ Fits(p, 1))
  BY <1>2, <1>3, <1>4, PackMore, FitMore, Zenon
<1>8. Grown(g1, g2, r, 2) /\ (AllFit(G2) <=> AllFit(G1) /\ Fits(r, 2))
  BY <1>2, <1>3, <1>7, PackMore, FitMore, Zenon
<1>9. Encodable(m) <=> m.f \in 0..255 /\ m.t \in 0..255 /\ p \in 0..255 /\ r < Room(2)
  <2>1. Encodable(m) <=> AllFit(G2)
    BY <1>6, EncodedIs
  <2>2. AllFit(F) <=> m.f \in 0..255 /\ m.t \in 0..255
    BY <1>3, StartIs
  <2> QED
    BY <1>2, <1>7, <1>8, <2>1, <2>2, FitsIs, Zenon
<1>10. ASSUME Encodable(m) PROVE DeepDecode(DeepEncode(m)) = m
  <2>1. h \in Seq(Nat) /\ Len(h) = 7 /\ HeadOf(h, m)
    BY <1>3, <1>9, <1>10, StartIs, Zenon
  <2>2. p \in 0..255 /\ r < Room(2)
    BY <1>9, <1>10, Zenon
  <2>3. g1 \in Seq(Nat) /\ Len(g1) = 8 /\ g1[8] = p
    BY <1>7, <2>1, <2>2 DEF Grown
  <2>4. /\ g2 \in Seq(Nat) /\ Len(g2) = 10 /\ g2[8] = p
        /\ \A i \in 1..2 : g2[8 + i] = Little(r, 2)[i]
    BY <1>8, <2>3 DEF Grown
  <2>5. Len(h) >= 7 /\ Len(g1) >= 7 /\ Len(g2) >= 7
    BY <2>1, <2>3, <2>4
  <2>6. HeadOf(g2, m)
    <3>1. HeadOf(g1, m)
      BY <1>2, <1>7, <2>1, <2>5, HeadStays, Zenon
    <3> QED
      BY <1>2, <1>8, <2>5, <3>1, HeadStays, Zenon
  <2>7. PICK b : b = g2 \o sig
    OBVIOUS
  <2>8. \A i \in 1..10 : b[i] = g2[i]
    <3>1. \A i \in 1..Len(g2) : b[i] = g2[i]
      BY <1>2, <2>4, <2>7, Extended
    <3> QED
      BY <2>4, <3>1
  <2>9. b[8] = p
    BY <2>4, <2>8
  <2>10. Number(b, 9, 10) = r
    <3>1. 9 \in Nat /\ 9 + 2 - 1 = 10
      OBVIOUS
    <3>2. \A i \in 1..2 : b[9 + (i - 1)] = Little(r, 2)[i]
      <4>1. ASSUME NEW i \in 1..2 PROVE b[9 + (i - 1)] = Little(r, 2)[i]
        <5>1. 9 + (i - 1) = 8 + i /\ 8 + i \in 1..10
          OBVIOUS
        <5> QED
          BY <2>4, <2>8, <5>1
      <4> QED
        BY <4>1
    <3>3. Number(b, 9, 9 + 2 - 1) = r
      BY <1>2, <2>2, <3>1, <3>2, Unpacked, Zenon
    <3> QED
      BY <3>1, <3>3, Zenon
  <2>11. SubSeq(b, 11, Len(b)) = sig
    <3>1. SubSeq(g2 \o sig, Len(g2) + 1, Len(g2 \o sig)) = sig
      BY <1>2, <2>4, Parts
    <3>2. 10 + 1 = 11
      OBVIOUS
    <3> QED
      BY <2>4, <2>7, <3>1, <3>2, Zenon
  <2>12. Body(b, Code[m.type]) = m.body
    <3>1. Code[m.type] = 5
      BY DEF Code
    <3>2. Body(b, 5) = [p |-> b[8], round |-> Number(b, 9, 10), sig |-> SubSeq(b, 11, Len(b))]
      BY DEF Body, CoinRound
    <3> QED
      BY <1>1, <1>2, <2>9, <2>10, <2>11, <3>1, <3>2, Zenon
  <2>13. HeadOf(b, m)
    BY <1>2, <2>4, <2>5, <2>6, <2>7, HeadJoined, Zenon
  <2>14. DeepEncode(m) = b
    BY <1>3, <1>5, <1>6, <2>7, EncodedIs, Zenon
  <2> QED
    BY <2>12, <2>13, <2>14, DecodedIs, Zenon
<1> QED
  BY <1>1, <1>9, <1>10, Zenon DEF Returned

LEMMA ProposeMessage ==
  ASSUME NEW m, WellFormed(m), m.type = "i"
  PROVE  Returned(m)
<1>1. PICK c, ls, nb, l : c = m.body /\ ls = Len(c.s) /\ nb = Len(c.mb) /\ l = Joined(c)
  OBVIOUS
<1>2. c \in Stripes /\ ls \in Nat /\ nb \in Nat /\ ls < Room(4) /\ 1 \in {1, 2, 4} /\ 4 \in {1, 2, 4}
  <2>1. c \in BodiesOf(m.type)
    BY <1>1, Zenon DEF WellFormed
  <2>2. c \in Stripes
    BY <2>1 DEF BodiesOf
  <2>3. c.s \in Seq(Nat) /\ Len(c.s) < Room(4) /\ c.mb \in Seq(Seq(Nat))
    BY <2>2 DEF Stripes
  <2> QED
    BY <1>1, <2>2, <2>3
<1>3. PICK F, G1, G2, h, g1, g2 :
        /\ F = Start(m) /\ G1 = Append(F, <<ls, 4>>) /\ G2 = Append(G1, <<nb, 1>>)
        /\ h = Pack(F) /\ g1 = Pack(G1) /\ g2 = Pack(G2)
  OBVIOUS
<1>4. F \in Pairs
  BY <1>3, StartIs
<1>5. Fields(m.type, m.body) = <<<<ls, 4>>, <<nb, 1>>>> /\ Raw(m.type, m.body) = l
  BY <1>1 DEF Fields, Raw
<1>6. Packed(m) = G2
  <2>1. <<ls, 4>> \in Nat \X {1, 2, 4} /\ <<nb, 1>> \in Nat \X {1, 2, 4}
    BY <1>2
  <2>2. PICK a1, a2 : a1 = <<ls, 4>> /\ a2 = <<nb, 1>>
    OBVIOUS
  <2>3. a1 \in Nat \X {1, 2, 4} /\ a2 \in Nat \X {1, 2, 4}
    BY <2>1, <2>2, Zenon
  <2>4. F \o <<a1, a2>> = Append(Append(F, a1), a2)
    BY <1>4, <2>3 DEF Pairs
  <2> QED
    BY <1>3, <1>5, <2>2, <2>4, EncodedIs, Zenon
<1>7. G1 \in Pairs /\ Grown(h, g1, ls, 4) /\ (AllFit(G1) <=> AllFit(F) /\ Fits(ls, 4))
  BY <1>2, <1>3, <1>4, PackMore, FitMore, Zenon
<1>8. Grown(g1, g2, nb, 1) /\ (AllFit(G2) <=> AllFit(G1) /\ Fits(nb, 1))
  BY <1>2, <1>3, <1>7, PackMore, FitMore, Zenon
<1>9. SUFFICES ASSUME Encodable(m) PROVE DeepDecode(DeepEncode(m)) = m
  BY Zenon DEF Returned
<1>10. AllFit(F) /\ nb \in 0..255
  <2>1. AllFit(G2)
    BY <1>6, <1>9, EncodedIs
  <2> QED
    BY <1>2, <1>7, <1>8, <2>1, FitsIs, Zenon
<1>11. h \in Seq(Nat) /\ Len(h) = 7 /\ HeadOf(h, m)
  BY <1>3, <1>10, StartIs, Zenon
<1>12. /\ g1 \in Seq(Nat) /\ Len(g1) = 11
       /\ \A i \in 1..4 : g1[7 + i] = Little(ls, 4)[i]
  BY <1>7, <1>11 DEF Grown
<1>13. /\ g2 \in Seq(Nat) /\ Len(g2) = 12 /\ g2[12] = nb
       /\ \A i \in 1..4 : g2[7 + i] = Little(ls, 4)[i]
  BY <1>8, <1>10, <1>12 DEF Grown
<1>14. Len(h) >= 7 /\ Len(g1) >= 7 /\ Len(g2) >= 7
  BY <1>11, <1>12, <1>13
<1>15. HeadOf(g2, m)
  <2>1. HeadOf(g1, m)
    BY <1>2, <1>7, <1>11, <1>14, HeadStays, Zenon
  <2> QED
    BY <1>2, <1>8, <1>14, <2>1, HeadStays, Zenon
<1>16. l \in Seq(Nat) /\ Stripe(g2 \o l, 12, ls, nb) = c
  BY <1>1, <1>2, <1>13, StripeIs, Zenon
<1>17. PICK b : b = g2 \o l
  OBVIOUS
<1>18. \A i \in 1..12 : b[i] = g2[i]
  <2>1. \A i \in 1..Len(g2) : b[i] = g2[i]
    BY <1>13, <1>16, <1>17, Extended
  <2> QED
    BY <1>13, <2>1
<1>19. b[12] = nb
  BY <1>13, <1>18
<1>20. Number(b, 8, 11) = ls
  <2>1. 7 \in Nat /\ 7 + 1 = 8 /\ 7 + 4 = 11 /\ \A i \in 1..4 : 7 + i \in 1..12
    OBVIOUS
  <2>2. \A i \in 1..4 : b[7 + i] = Little(ls, 4)[i]
    BY <1>13, <1>18, <2>1, Zenon
  <2>3. Number(b, 7 + 1, 7 + 4) = ls
    BY <1>2, <2>1, <2>2, FourRead, Zenon
  <2> QED
    BY <2>1, <2>3, Zenon
<1>21. Body(b, Code[m.type]) = m.body
  <2>1. Code[m.type] = 1
    BY DEF Code
  <2>2. Body(b, 1) = Stripe(b, 12, Number(b, 8, 11), b[12])
    BY DEF Body
  <2> QED
    BY <1>1, <1>16, <1>17, <1>19, <1>20, <2>1, <2>2, Zenon
<1>22. HeadOf(b, m)
  BY <1>13, <1>14, <1>15, <1>16, <1>17, HeadJoined, Zenon
<1>23. DeepEncode(m) = b
  BY <1>3, <1>5, <1>6, <1>17, EncodedIs, Zenon
<1> QED
  BY <1>21, <1>22, <1>23, DecodedIs, Zenon

LEMMA EchoMessage ==
  ASSUME NEW m, WellFormed(m), m.type = "e"
  PROVE  Returned(m)
<1>1. PICK c, p, st, ls, nb, l :
        c = m.body /\ p = c.p /\ st = c.part /\ ls = Len(st.s) /\ nb = Len(st.mb) /\ l = Joined(st)
  OBVIOUS
<1>2. /\ p \in Nat /\ st \in Stripes /\ c = [p |-> p, part |-> st]
      /\ ls \in Nat /\ nb \in Nat /\ ls < Room(4) /\ 1 \in {1, 2, 4} /\ 4 \in {1, 2, 4}
  <2>1. c \in BodiesOf(m.type)
    BY <1>1, Zenon DEF WellFormed
  <2>2. c \in [p : Nat, part : Stripes]
    BY <2>1 DEF BodiesOf
  <2>3. p \in Nat /\ st \in Stripes /\ c = [p |-> p, part |-> st]
    BY <1>1, <2>2
  <2>4. st.s \in Seq(Nat) /\ Len(st.s) < Room(4) /\ st.mb \in Seq(Seq(Nat))
    BY <2>3 DEF Stripes
  <2> QED
    BY <1>1, <2>3, <2>4
<1>3. PICK F, G1, G2, G3, h, g1, g2, g3 :
        /\ F = Start(m) /\ G1 = Append(F, <<p, 1>>) /\ G2 = Append(G1, <<ls, 4>>) /\ G3 = Append(G2, <<nb, 1>>)
        /\ h = Pack(F) /\ g1 = Pack(G1) /\ g2 = Pack(G2) /\ g3 = Pack(G3)
  OBVIOUS
<1>4. F \in Pairs
  BY <1>3, StartIs
<1>5. Fields(m.type, m.body) = <<<<p, 1>>, <<ls, 4>>, <<nb, 1>>>> /\ Raw(m.type, m.body) = l
  BY <1>1 DEF Fields, Raw
<1>6. Packed(m) = G3
  <2>1. <<p, 1>> \in Nat \X {1, 2, 4} /\ <<ls, 4>> \in Nat \X {1, 2, 4} /\ <<nb, 1>> \in Nat \X {1, 2, 4}
    BY <1>2
  <2>2. PICK a1, a2, a3 : a1 = <<p, 1>> /\ a2 = <<ls, 4>> /\ a3 = <<nb, 1>>
    OBVIOUS
  <2>3. a1 \in Nat \X {1, 2, 4} /\ a2 \in Nat \X {1, 2, 4} /\ a3 \in Nat \X {1, 2, 4}
    BY <2>1, <2>2, Zenon
  <2>4. F \o <<a1, a2, a3>> = Append(Append(Append(F, a1), a2), a3)
    BY <1>4, <2>3 DEF Pairs
  <2> QED
    BY <1>3, <1>5, <2>2, <2>4, EncodedIs, Zenon
<1>7. G1 \in Pairs /\ Grown(h, g1, p, 1) /\ (AllFit(G1) <=> AllFit(F) /\ Fits(p, 1))
  BY <1>2, <1>3, <1>4, PackMore, FitMore, Zenon
<1>8. G2 \in Pairs /\ Grown(g1, g2, ls, 4) /\ (AllFit(G2) <=> AllFit(G1) /\ Fits(ls, 4))
  BY <1>2, <1>3, <1>7, PackMore, FitMore, Zenon
<1>9. Grown(g2, g3, nb, 1) /\ (AllFit(G3) <=> AllFit(G2) /\ Fits(nb, 1))
  BY <1>2, <1>3, <1>8, PackMore, FitMore, Zenon
<1>10. SUFFICES ASSUME Encodable(m) PROVE DeepDecode(DeepEncode(m)) = m
  BY Zenon DEF Returned
<1>11. AllFit(F) /\ p \in 0..255 /\ nb \in 0..255
  <2>1. AllFit(G3)
    BY <1>6, <1>10, EncodedIs
  <2> QED
    BY <1>2, <1>7, <1>8, <1>9, <2>1, FitsIs, Zenon
<1>12. h \in Seq(Nat) /\ Len(h) = 7 /\ HeadOf(h, m)
  BY <1>3, <1>11, StartIs, Zenon
<1>13. g1 \in Seq(Nat) /\ Len(g1) = 8 /\ g1[8] = p
  BY <1>7, <1>11, <1>12 DEF Grown
<1>14. /\ g2 \in Seq(Nat) /\ Len(g2) = 12 /\ g2[8] = p
       /\ \A i \in 1..4 : g2[8 + i] = Little(ls, 4)[i]
  BY <1>8, <1>13 DEF Grown
<1>15. /\ g3 \in Seq(Nat) /\ Len(g3) = 13 /\ g3[8] = p /\ g3[13] = nb
       /\ \A i \in 1..4 : g3[8 + i] = Little(ls, 4)[i]
  BY <1>9, <1>11, <1>14 DEF Grown
<1>16. Len(h) >= 7 /\ Len(g1) >= 7 /\ Len(g2) >= 7 /\ Len(g3) >= 7
  BY <1>12, <1>13, <1>14, <1>15
<1>17. HeadOf(g3, m)
  <2>1. HeadOf(g1, m)
    BY <1>2, <1>7, <1>12, <1>16, HeadStays, Zenon
  <2>2. HeadOf(g2, m)
    BY <1>2, <1>8, <1>16, <2>1, HeadStays, Zenon
  <2> QED
    BY <1>2, <1>9, <1>16, <2>2, HeadStays, Zenon
<1>18. l \in Seq(Nat) /\ Stripe(g3 \o l, 13, ls, nb) = st
  <2>1. /\ Joined(st) \in Seq(Nat)
        /\ Stripe(g3 \o Joined(st), Len(g3), Len(st.s), Len(st.mb)) = st
    BY <1>2, <1>15, StripeIs
  <2> QED
    BY <1>1, <1>15, <2>1, Zenon
<1>19. PICK b : b = g3 \o l
  OBVIOUS
<1>20. \A i \in 1..13 : b[i] = g3[i]
  <2>1. \A i \in 1..Len(g3) : b[i] = g3[i]
    BY <1>15, <1>18, <1>19, Extended
  <2> QED
    BY <1>15, <2>1
<1>21. b[8] = p /\ b[13] = nb
  BY <1>15, <1>20
<1>22. Number(b, 9, 12) = ls
  <2>1. 8 \in Nat /\ 8 + 1 = 9 /\ 8 + 4 = 12 /\ \A i \in 1..4 : 8 + i \in 1..13
    OBVIOUS
  <2>2. \A i \in 1..4 : b[8 + i] = Little(ls, 4)[i]
    BY <1>15, <1>20, <2>1, Zenon
  <2>3. Number(b, 8 + 1, 8 + 4) = ls
    BY <1>2, <2>1, <2>2, FourRead, Zenon
  <2> QED
    BY <2>1, <2>3, Zenon
<1>23. Body(b, Code[m.type]) = m.body
  <2>1. Code[m.type] = 2
    BY DEF Code
  <2>2. Body(b, 2) = [p |-> b[8], part |-> Stripe(b, 13, Number(b, 9, 12), b[13])]
    BY DEF Body
  <2> QED
    BY <1>1, <1>2, <1>18, <1>19, <1>21, <1>22, <2>1, <2>2, Zenon
<1>24. HeadOf(b, m)
  BY <1>15, <1>16, <1>17, <1>18, <1>19, HeadJoined, Zenon
<1>25. DeepEncode(m) = b
  BY <1>3, <1>5, <1>6, <1>19, EncodedIs, Zenon
<1> QED
  BY <1>23, <1>24, <1>25, DecodedIs, Zenon

\* deepDecode gives back every message that deepEncode does not refuse, of all
\* seven types, with parts of any length that fits (misc/utils.py); which are
\* refused is said by their numbers alone.
THEOREM MessagesDecoded ==
  ASSUME NEW m, WellFormed(m)
  PROVE  /\ Encodable(m) => DeepDecode(DeepEncode(m)) = m
         /\ m.type \in {"A", "B"} =>
              (Encodable(m) <=> /\ m.f \in 0..255 /\ m.t \in 0..255 /\ m.body.p \in 0..255
                                      /\ m.body.round \in 0..255 /\ m.body.v \in 0..255)
         /\ m.type = "C" =>
              (Encodable(m) <=> /\ m.f \in 0..255 /\ m.t \in 0..255 /\ m.body.p \in 0..255
                                      /\ m.body.round < Room(2))
<1>1. m.type = "i" \/ m.type = "e" \/ m.type \in {"r", "O"} \/ m.type \in {"A", "B"} \/ m.type = "C"
  <2>1. m.type \in DOMAIN Code
    BY Zenon DEF WellFormed
  <2> QED
    BY <2>1 DEF Code
<1>2. Returned(m)
  BY <1>1, ProposeMessage, EchoMessage, OneNumber, ThreeNumbers, CoinMessage, ZenonT(60)
<1> QED
  BY <1>2, ThreeNumbers, CoinMessage, ZenonT(60) DEF Returned

-----------------------------------------------------------------------------
\* What Send, Propose, Listen and Test draw

\* Chunks of the frames of ms, of which the last one may get lost.
Framed(ms, chunks) ==
  /\ ms \in Seq(Seq(Nat)) /\ \A k \in 1..Len(ms) : Len(ms[k]) < Room(4)
  /\ chunks \in Seq(Seq(Nat)) /\ FlattenSeq(chunks) = Stream(ms)
  /\ SubSeq(chunks, 1, 2) \in Seq(Seq(Nat))
  /\ \E lost \in Seq(Nat) : FlattenSeq(SubSeq(chunks, 1, 2)) \o lost = Stream(ms)

\* A message is well-formed, and a stream is cut up and nothing else.
MessageInput ==
  /\ input.of = "message" => /\ WellFormed(input.m) /\ input.m.f = 1 /\ input.m.t = 255
                             /\ input.m.type \in {"A", "B"} => input.m.body.v \in {0, 1}
  /\ input.of = "batch" => Serialized(input.C) /\ input.txs \in Seq(Sendable)
  /\ input.of = "stream" => Framed(input.ms, input.chunks)
  /\ input.of = "number" => input.n \in Nat

LEMMA BytesAre ==
  ASSUME NEW n \in Nat
  PROVE  Bytes(n) \in Seq(Nat) /\ Len(Bytes(n)) = n
<1>1. \A i \in 1..n : 255 - (i % 200) \in Nat
  OBVIOUS
<1> QED
  BY <1>1 DEF Bytes

LEMMA StripeDrawn ==
  ASSUME NEW lenS \in Nat, lenS < Room(4), NEW nrBr \in Nat
  PROVE  SomeStripe(lenS, nrBr) \in Stripes
<1>1. PICK s, w, q : s = Bytes(lenS) /\ w = Bytes(32) /\ q = Bytes(70)
  OBVIOUS
<1>2. s \in Seq(Nat) /\ Len(s) = lenS /\ w \in Seq(Nat) /\ Len(w) = 32 /\ q \in Seq(Nat)
  BY <1>1, BytesAre
<1>3. PICK mb : mb = [i \in 1..nrBr |-> w]
  OBVIOUS
<1>4. mb \in Seq(Seq(Nat)) /\ Len(mb) = nrBr /\ \A k \in 1..Len(mb) : Len(mb[k]) = 32
  BY <1>2, <1>3
<1>5. SomeStripe(lenS, nrBr) = [s |-> s, rh |-> w, mb |-> mb, sig |-> q]
  BY <1>1, <1>3, Zenon DEF SomeStripe
<1>6. SHA_LENGTH = 32
  BY DEF SHA_LENGTH
<1>7. /\ s \in {x \in Seq(Nat) : Len(x) < Room(4)}
      /\ w \in {x \in Seq(Nat) : Len(x) = SHA_LENGTH}
      /\ mb \in {x \in Seq(Seq(Nat)) : \A k \in 1..Len(x) : Len(x[k]) = SHA_LENGTH}
  BY <1>2, <1>4, <1>6, Zenon
<1> QED
  BY <1>2, <1>5, <1>7 DEF Stripes

LEMMA SignatureDrawn == Bytes(65) \in {x \in Seq(Nat) : Len(x) = PAIRING_SERIALIZED_1}
<1>1. PICK q : q = Bytes(65)
  OBVIOUS
<1>2. q \in Seq(Nat) /\ Len(q) = 65
  BY <1>1, BytesAre
<1>3. PAIRING_SERIALIZED_1 = 65
  BY DEF PAIRING_SERIALIZED_1
<1> QED
  BY <1>1, <1>2, <1>3, Zenon

\* What the constants allow fits into four bytes.
LEMMA DrawnFit ==
  /\ Values \subseteq Nat /\ Counts \subseteq Nat /\ Lengths \subseteq Nat
  /\ \A x \in Values \cup Lengths : x < Room(4)
<1>1. \A x \in Nat : x \div 65536 < 65536 => x < 65536 * 65536
  OBVIOUS
<1>2. Room(4) = 65536 * 65536
  BY DEF Room
<1>3. \A x \in Values \cup Lengths : x \in Nat /\ x < Room(4)
  BY <1>1, <1>2, MessagesAssumption
<1>4. Counts \subseteq Nat
  BY MessagesAssumption, SMT
<1> QED
  BY <1>3, <1>4

\* Bodies are well-formed.
LEMMA BodyDrawn ==
  ASSUME NEW type \in DOMAIN Code, NEW body \in Bodies(type)
  PROVE  /\ body \in BodiesOf(type)
         /\ type \in {"A", "B"} => body.v \in {0, 1}
<1>1. type = "i" \/ type = "e" \/ type = "r" \/ type = "O" \/ type = "C" \/ type \in {"A", "B"}
  BY DEF Code
<1>2. Values \subseteq Nat
  BY DrawnFit
<1>3. SomeStripes \subseteq Stripes
  <2>1. \A l \in Lengths, b \in Counts : SomeStripe(l, b) \in Stripes
    <3>1. ASSUME NEW l \in Lengths, NEW b \in Counts PROVE SomeStripe(l, b) \in Stripes
      <4>1. l \in Nat /\ l < Room(4) /\ b \in Nat
        BY DrawnFit, Zenon
      <4> QED
        BY <4>1, StripeDrawn
    <3> QED
      BY <3>1
  <2> QED
    BY <2>1 DEF SomeStripes
<1>4. CASE type = "i"
  BY <1>3, <1>4 DEF Bodies, BodiesOf
<1>5. CASE type = "e"
  <2>1. body \in [p : Values, part : SomeStripes]
    BY <1>5 DEF Bodies
  <2>2. body \in [p : Nat, part : Stripes]
    BY <1>2, <1>3, <2>1
  <2> QED
    BY <1>5, <2>2 DEF BodiesOf
<1>6. CASE type = "r"
  <2>1. body \in [p : Values, sig : {Bytes(32)}]
    BY <1>6 DEF Bodies
  <2>2. Bytes(32) \in Seq(Nat)
    BY BytesAre
  <2>3. body \in [p : Nat, sig : Seq(Nat)]
    BY <1>2, <2>1, <2>2
  <2> QED
    BY <1>6, <2>3 DEF BodiesOf
<1>7. CASE type = "O"
  <2>1. body \in [p : Values, sig : {Bytes(65)}]
    BY <1>7 DEF Bodies
  <2>2. PICK q, S : q = Bytes(65) /\ S = {x \in Seq(Nat) : Len(x) = PAIRING_SERIALIZED_1}
    OBVIOUS
  <2>3. q \in S
    BY <2>2, SignatureDrawn, Zenon
  <2>4. body \in [p : Values, sig : {q}]
    BY <2>1, <2>2, Zenon
  <2>5. body \in [p : Nat, sig : S]
    BY <1>2, <2>3, <2>4
  <2> QED
    BY <1>7, <2>2, <2>5 DEF BodiesOf
<1>8. CASE type = "C"
  <2>1. body \in [p : Values, round : Values, sig : {Bytes(29)}]
    BY <1>8 DEF Bodies
  <2>2. Bytes(29) \in Seq(Nat)
    BY BytesAre
  <2>3. body \in [p : Nat, round : Nat, sig : Seq(Nat)]
    BY <1>2, <2>1, <2>2
  <2> QED
    BY <1>8, <2>3 DEF BodiesOf
<1>9. CASE type \in {"A", "B"}
  <2>1. body \in [p : Values, round : Values, v : {0, 1}]
    BY <1>9 DEF Bodies
  <2>2. PICK B : B = {0, 1}
    OBVIOUS
  <2>3. B \subseteq Nat
    BY <2>2
  <2>4. body \in [p : Values, round : Values, v : B]
    BY <2>1, <2>2, Zenon
  <2>5. body \in [p : Nat, round : Nat, v : Nat]
    BY <1>2, <2>3, <2>4
  <2>6. body.v \in B
    BY <2>4
  <2>7. body.v \in {0, 1}
    BY <2>2, <2>6, Zenon
  <2>8. body \in BodiesOf(type)
    BY <1>9, <2>5 DEF BodiesOf
  <2> QED
    BY <1>9, <2>7, <2>8
<1> QED
  BY <1>1, <1>4, <1>5, <1>6, <1>7, <1>8, <1>9

\* What Send puts together.
LEMMA PutTogether ==
  ASSUME NEW mc \in Nat, mc < Room(4), NEW f \in Nat, NEW t \in Nat,
         NEW type \in DOMAIN Code, NEW body \in BodiesOf(type)
  PROVE  LET m == [mc |-> mc, f |-> f, t |-> t, type |-> type, body |-> body]
         IN  WellFormed(m) /\ m.f = f /\ m.t = t /\ m.type = type /\ m.body = body
<1>1. PICK m : m = [mc |-> mc, f |-> f, t |-> t, type |-> type, body |-> body]
  OBVIOUS
<1>2. m.mc = mc /\ m.f = f /\ m.t = t /\ m.type = type /\ m.body = body
  BY <1>1
<1>3. m = [mc |-> m.mc, f |-> m.f, t |-> m.t, type |-> m.type, body |-> m.body]
  BY <1>1, <1>2, Zenon
<1>4. WellFormed(m)
  BY <1>2, <1>3, Zenon DEF WellFormed
<1> QED
  BY <1>1, <1>2, <1>4, Zenon

LEMMA SendDraws ==
  ASSUME Send
  PROVE  MessageInput'
<1>1. PICK type \in DOMAIN Code : \E body \in Bodies(type), mc \in Values :
        input' = [of |-> "message", m |-> [mc |-> mc, f |-> 1, t |-> 255, type |-> type, body |-> body]]
  BY SMT DEF Send
<1>2. PICK body \in Bodies(type), mc \in Values :
        input' = [of |-> "message", m |-> [mc |-> mc, f |-> 1, t |-> 255, type |-> type, body |-> body]]
  BY <1>1, SMT
<1> DEFINE m == [mc |-> mc, f |-> 1, t |-> 255, type |-> type, body |-> body]
<1>3. input' = [of |-> "message", m |-> m]
  BY <1>2, SMT
<1>4. input'.of = "message" /\ input'.m = m
  BY <1>3, SMT
<1>5. body \in BodiesOf(type) /\ (type \in {"A", "B"} => body.v \in {0, 1})
  BY BodyDrawn, SMT
<1>6. mc \in Nat /\ mc < Room(4) /\ 1 \in Nat /\ 255 \in Nat
  BY DrawnFit, SMT
<1>7. WellFormed(m) /\ m.f = 1 /\ m.t = 255 /\ m.type = type /\ m.body = body
  BY <1>5, <1>6, PutTogether, SMT
<1> HIDE DEF m
<1>8. input'.of # "batch" /\ input'.of # "stream" /\ input'.of # "number"
  BY <1>4, SMT
<1> QED
  BY <1>4, <1>5, <1>7, <1>8, SMT DEF MessageInput

\* Transactions can be sent.
LEMMA TransactionsFit == Transactions \subseteq Sendable
<1>1. PICK D, E : D = {x \in Values : x < 256 * 256} /\ E = {x \in Nat : x < Room(2)}
  OBVIOUS
<1>2. PICK A, B : A = Values \cap 0..255 /\ B = 0..255 /\ A \subseteq B
  OBVIOUS
<1>3. D \subseteq E
  <2>1. Values \subseteq Nat
    BY DrawnFit, Zenon
  <2>2. Room(2) = 256 * 256
    BY DEF Room
  <2> QED
    BY <1>1, <2>1, <2>2, Zenon
<1>4. Transactions = [source : A, target : A, amount : D]
  BY <1>1, <1>2, Zenon DEF Transactions
<1>5. Sendable = [source : B, target : B, amount : E]
  BY <1>1, <1>2, Zenon DEF Sendable
<1>6. [source : A, target : A, amount : D] \subseteq [source : B, target : B, amount : E]
  BY <1>2, <1>3
<1> QED
  BY <1>4, <1>5, <1>6, Zenon

LEMMA ProposeDraws ==
  ASSUME Propose
  PROVE  MessageInput'
<1>1. PICK n \in Counts : \E txs \in [1..n -> Transactions] :
        input' = [of |-> "batch", txs |-> txs, C |-> <<Bytes(65), Bytes(32), Bytes(65)>>]
  BY Zenon DEF Propose
<1>2. PICK txs \in [1..n -> Transactions] :
        input' = [of |-> "batch", txs |-> txs, C |-> <<Bytes(65), Bytes(32), Bytes(65)>>]
  BY <1>1, Zenon
<1>3. txs \in Seq(Sendable)
  <2>1. Transactions \subseteq Sendable
    BY TransactionsFit
  <2>2. n \in Nat
    BY DrawnFit
  <2> QED
    BY <2>1, <2>2
<1>4. PICK x, y, C : x = Bytes(65) /\ y = Bytes(32) /\ C = <<x, y, x>>
  OBVIOUS
<1>5. x \in Seq(Nat) /\ Len(x) = 65 /\ y \in Seq(Nat) /\ Len(y) = 32
  BY <1>4, BytesAre
<1>6. Serialized(C)
  <2>1. C[1] = x /\ C[2] = y /\ C[3] = x
    BY <1>4
  <2>2. PAIRING_SERIALIZED_1 = 65 /\ CURVE_LENGTH = 32
    BY DEF PAIRING_SERIALIZED_1, CURVE_LENGTH
  <2> QED
    BY <1>4, <1>5, <2>1, <2>2, Zenon DEF Serialized
<1>7. input' = [of |-> "batch", txs |-> txs, C |-> C]
  BY <1>2, <1>4, Zenon
<1>8. input'.of = "batch" /\ input'.txs = txs /\ input'.C = C
  BY <1>7
<1>9. input'.of # "message" /\ input'.of # "stream" /\ input'.of # "number"
  BY <1>8
<1> QED
  BY <1>3, <1>6, <1>8, <1>9, Zenon DEF MessageInput

\* s in chunks, of which the last one may get lost.
Chunked(chunks, s) ==
  /\ chunks \in Seq(Seq(Nat)) /\ FlattenSeq(chunks) = s
  /\ SubSeq(chunks, 1, 2) \in Seq(Seq(Nat))
  /\ \E lost \in Seq(Nat) : FlattenSeq(SubSeq(chunks, 1, 2)) \o lost = s

LEMMA Listed ==
  ASSUME NEW B, NEW x \in B, NEW y \in B, NEW z \in B
  PROVE  <<x, y, z>> = Append(Append(Append(<<>>, x), y), z)
  OBVIOUS

\* A string cut into three.
LEMMA CutInThree ==
  ASSUME NEW s \in Seq(Nat), NEW c \in 0..Len(s), NEW d \in 0..Len(s), c <= d
  PROVE  Chunked(<<SubSeq(s, 1, c), SubSeq(s, c + 1, d), SubSeq(s, d + 1, Len(s))>>, s)
<1>1. PICK n, u, x, y, z : n = Len(s) /\ u = SubSeq(s, 1, d) /\ x = SubSeq(s, 1, c) /\ y = SubSeq(s, c + 1, d)
                           /\ z = SubSeq(s, d + 1, Len(s))
  OBVIOUS
<1> DEFINE chunks == <<SubSeq(s, 1, c), SubSeq(s, c + 1, d), SubSeq(s, d + 1, Len(s))>>
<1>2. n \in Nat /\ c \in Nat /\ d \in Nat /\ c <= d /\ d <= n
  BY <1>1
<1>3. u \in Seq(Nat) /\ Len(u) = d /\ z \in Seq(Nat) /\ u \o z = s
  BY <1>1, CutInTwo
<1>4. \A i \in 1..d : u[i] = s[i] /\ s[i] \in Nat
  BY <1>1, <1>2
<1>5. SubSeq(u, 1, c) \in Seq(Nat) /\ SubSeq(u, c + 1, Len(u)) \in Seq(Nat)
      /\ SubSeq(u, 1, c) \o SubSeq(u, c + 1, Len(u)) = u
  <2>1. c \in 0..Len(u)
    BY <1>2, <1>3
  <2> QED
    BY <1>3, <2>1, CutInTwo
<1>6. SubSeq(u, 1, c) = x
  BY <1>1, <1>2, <1>3, <1>4
<1>7. SubSeq(u, c + 1, d) = y
  BY <1>1, <1>2, <1>3, <1>4
<1>8. x \in Seq(Nat) /\ y \in Seq(Nat) /\ x \o y = u
  BY <1>3, <1>5, <1>6, <1>7, Zenon
<1>9. PICK e, q1, q2 : e = <<>> /\ q1 = Append(e, x) /\ q2 = Append(q1, y)
  OBVIOUS
<1>10. e \in Seq(Seq(Nat)) /\ q1 \in Seq(Seq(Nat)) /\ q2 \in Seq(Seq(Nat)) /\ Append(q2, z) \in Seq(Seq(Nat))
  BY <1>3, <1>8, <1>9
<1>11. chunks = Append(q2, z) /\ SubSeq(chunks, 1, 2) = q2
  <2>1. chunks = <<x, y, z>>
    BY <1>1, Zenon
  <2>2. <<x, y, z>> = Append(q2, z)
    <3>1. PICK S : S = Seq(Nat)
      OBVIOUS
    <3>2. x \in S /\ y \in S /\ z \in S
      BY <1>3, <1>8, <3>1
    <3>3. <<x, y, z>> = Append(Append(Append(<<>>, x), y), z)
      BY <3>2, Listed
    <3> QED
      BY <1>9, <3>3, Zenon
  <2>3. Len(q2) = 2 /\ Append(q2, z) = q2 \o <<z>> /\ <<z>> \in Seq(Seq(Nat))
    BY <1>3, <1>8, <1>9, <1>10
  <2>4. SubSeq(q2 \o <<z>>, 1, Len(q2)) = q2
    BY <1>10, <2>3, Parts
  <2> QED
    BY <2>1, <2>2, <2>3, <2>4, Zenon
<1> HIDE DEF chunks
<1>12. FlattenSeq(q1) = x
  <2>1. FlattenSeq(q1) = FlattenSeq(e) \o x
    BY <1>8, <1>9, <1>10, FlatAppend
  <2>2. FlattenSeq(e) = <<>>
    BY <1>9, FlatEmpty, Zenon
  <2>3. <<>> \o x = x
    BY <1>8
  <2> QED
    BY <2>1, <2>2, <2>3, Zenon
<1>13. FlattenSeq(q2) = u
  <2>1. FlattenSeq(q2) = FlattenSeq(q1) \o y
    BY <1>8, <1>9, <1>10, FlatAppend
  <2> QED
    BY <1>8, <1>12, <2>1, Zenon
<1>14. FlattenSeq(Append(q2, z)) = s
  <2>1. FlattenSeq(Append(q2, z)) = FlattenSeq(q2) \o z
    BY <1>3, <1>10, FlatAppend
  <2> QED
    BY <1>3, <1>13, <2>1, Zenon
<1>15. Chunked(chunks, s)
  BY <1>3, <1>10, <1>11, <1>13, <1>14, Zenon DEF Chunked
<1> QED
  BY <1>15, Zenon DEF chunks

LEMMA ListenDraws ==
  ASSUME Listen
  PROVE  MessageInput'
<1>0. PICK n \in Counts : \E lengths \in [1..n -> Lengths] :
        LET ms == [k \in 1..n |-> Bytes(lengths[k])]
            s == Stream(ms)
            cuts == Cuts \cap 0..Len(s)
        IN  \E c, d \in cuts : c <= d /\
              input' = [of |-> "stream", ms |-> ms,
                        chunks |-> <<SubSeq(s, 1, c), SubSeq(s, c + 1, d), SubSeq(s, d + 1, Len(s))>>]
  BY Zenon DEF Listen
<1>1. PICK lengths \in [1..n -> Lengths] :
        LET ms == [k \in 1..n |-> Bytes(lengths[k])]
            s == Stream(ms)
            cuts == Cuts \cap 0..Len(s)
        IN  \E c, d \in cuts : c <= d /\
              input' = [of |-> "stream", ms |-> ms,
                        chunks |-> <<SubSeq(s, 1, c), SubSeq(s, c + 1, d), SubSeq(s, d + 1, Len(s))>>]
  BY <1>0, Zenon
<1>2. PICK ms, s : ms = [k \in 1..n |-> Bytes(lengths[k])] /\ s = Stream(ms)
  OBVIOUS
<1>3. PICK c \in 0..Len(s), d \in 0..Len(s) :
        /\ c <= d
        /\ input' = [of |-> "stream", ms |-> ms,
                     chunks |-> <<SubSeq(s, 1, c), SubSeq(s, c + 1, d), SubSeq(s, d + 1, Len(s))>>]
  BY <1>1, <1>2, ZenonT(60)
<1>4. ms \in Seq(Seq(Nat)) /\ \A k \in 1..Len(ms) : Len(ms[k]) < Room(4)
  <2>1. n \in Nat /\ \A l \in Lengths : l \in Nat /\ l < Room(4)
    BY DrawnFit
  <2>2. ASSUME NEW k \in 1..n PROVE Bytes(lengths[k]) \in Seq(Nat) /\ Len(Bytes(lengths[k])) < Room(4)
    <3>1. PICK l \in Lengths : l = lengths[k]
      OBVIOUS
    <3>2. Bytes(l) \in Seq(Nat) /\ Len(Bytes(l)) = l
      <4>1. l \in Nat
        BY <2>1, Zenon
      <4> QED
        BY <4>1, BytesAre
    <3> QED
      BY <2>1, <3>1, <3>2
  <2> QED
    BY <1>2, <2>1, <2>2
<1>5. s \in Seq(Nat)
  BY <1>2, <1>4, StreamLong
<1>6. PICK chunks : chunks = <<SubSeq(s, 1, c), SubSeq(s, c + 1, d), SubSeq(s, d + 1, Len(s))>>
  OBVIOUS
<1>7. Chunked(chunks, s)
  <2>1. c <= d
    BY <1>3
  <2>2. Chunked(<<SubSeq(s, 1, c), SubSeq(s, c + 1, d), SubSeq(s, d + 1, Len(s))>>, s)
    BY <1>5, <2>1, CutInThree
  <2> QED
    BY <1>6, <2>2, Zenon
<1>8. Framed(ms, chunks)
  BY <1>2, <1>4, <1>7, Zenon DEF Framed, Chunked
<1>9. input' = [of |-> "stream", ms |-> ms, chunks |-> chunks]
  BY <1>3, <1>6, Zenon
<1>10. input'.of = "stream" /\ input'.ms = ms /\ input'.chunks = chunks
  BY <1>9
<1>11. input'.of # "message" /\ input'.of # "batch" /\ input'.of # "number"
  BY <1>10
<1> QED
  BY <1>8, <1>10, <1>11, Zenon DEF MessageInput

\* MessageInput holds at first, and every step keeps it.
LEMMA MessageInputInit == Init => MessageInput
  BY DEF Init, Nothing, MessageInput

LEMMA MessageInputNext == MessageInput /\ [Next]_vars => MessageInput'
<1> SUFFICES ASSUME MessageInput, [Next]_vars PROVE MessageInput'
  OBVIOUS
<1>1. CASE Pad
  BY <1>1 DEF Pad, MessageInput
<1>2. CASE Prove
  BY <1>2 DEF Prove, MessageInput
<1>3. CASE Deal
  BY <1>3 DEF Deal, MessageInput
<1>4. CASE Test
  BY <1>4, NumbersAssumption DEF Test, MessageInput
<1>5. CASE Rsa
  BY <1>5 DEF Rsa, MessageInput
<1>6. CASE UNCHANGED vars
  BY <1>6 DEF vars, MessageInput
<1> QED
  BY <1>1, <1>2, <1>3, <1>4, <1>5, <1>6, ListenDraws, SendDraws, ProposeDraws DEF Next

\* Whatever is encoded, proposed or sent through a socket is read as it was,
\* in every behaviour.
THEOREM MessagesHold == Spec => []MessagesRecovered
<1>1. ASSUME MessageInput, input.of = "message" PROVE MessageRoundTrip
  <2>1. PICK m : m = input.m
    OBVIOUS
  <2>2. /\ WellFormed(m) /\ m.f = 1 /\ m.t = 255
        /\ m.type \in {"A", "B"} => m.body.v \in {0, 1}
    BY <1>1, <2>1, Zenon DEF MessageInput
  <2>3. /\ Encodable(m) => DeepDecode(DeepEncode(m)) = m
        /\ m.type \in {"A", "B"} =>
             (Encodable(m) <=> /\ m.f \in 0..255 /\ m.t \in 0..255 /\ m.body.p \in 0..255
                                     /\ m.body.round \in 0..255 /\ m.body.v \in 0..255)
        /\ m.type = "C" =>
             (Encodable(m) <=> /\ m.f \in 0..255 /\ m.t \in 0..255 /\ m.body.p \in 0..255
                                     /\ m.body.round < Room(2))
    BY <2>2, MessagesDecoded
  <2>4. m.type = "C" => m.body.p \in Nat
    <3>1. m.body \in BodiesOf(m.type)
      BY <2>2, Zenon DEF WellFormed
    <3> QED
      BY <3>1 DEF BodiesOf
  <2>5. m.f \in 0..255 /\ m.t \in 0..255
    BY <2>2
  <2>6. m.type = "C" => (m.body.p < 256 /\ m.body.round < 256 * 256 => Encodable(m))
    <3>1. m.type = "C" => (m.body.p \in 0..255 <=> m.body.p < 256)
      BY <2>4
    <3>2. Room(2) = 256 * 256
      BY DEF Room
    <3> QED
      BY <2>3, <2>5, <3>1, <3>2, ZenonT(60)
  <2> QED
    BY <2>1, <2>3, <2>6, ZenonT(60) DEF MessageRoundTrip
<1>2. ASSUME MessageInput, input.of = "batch" PROVE ProposalRecovered
  <2>1. Serialized(input.C) /\ input.txs \in Seq(Sendable)
    BY <1>2, Zenon DEF MessageInput
  <2> QED
    <3>1. PICK iv : iv = [i \in 1..Cipher!BS |-> i]
      OBVIOUS
    <3>2. iv \in Seq(Nat) /\ Len(iv) = Cipher!BS
      BY <3>1 DEF Cipher!BS
    <3>3. PICK p : p = Proposal(input.C, "aesKey", input.txs, iv)
      OBVIOUS
    <3>4. /\ DeserializeEnc(SubSeq(p, 1, EncLength)) = input.C
          /\ Len(Batch(p)) % TR_SIZE = 0
          /\ [k \in DOMAIN Split(Batch(p)) |-> FromRepr(Split(Batch(p))[k])] = input.txs
      <4>1. PICK C, txs, key : C = input.C /\ txs = input.txs /\ key = "aesKey"
        OBVIOUS
      <4>2. Serialized(C) /\ txs \in Seq(Sendable) /\ p = Proposal(C, key, txs, iv)
        BY <2>1, <3>3, <4>1, Zenon
      <4>3. /\ DeserializeEnc(SubSeq(p, 1, EncLength)) = C
            /\ Len(Batch(p)) % TR_SIZE = 0
            /\ [k \in DOMAIN Split(Batch(p)) |-> FromRepr(Split(Batch(p))[k])] = txs
        BY <3>2, <4>2, ProposalsRead
      <4> QED
        BY <4>1, <4>3, Zenon
    <3> QED
      BY <3>1, <3>3, <3>4, Zenon DEF ProposalRecovered
<1>3. ASSUME MessageInput, input.of = "stream" PROVE FramesRecovered
  <2>1. PICK ms, chunks, first : ms = input.ms /\ chunks = input.chunks /\ first = SubSeq(chunks, 1, 2)
    OBVIOUS
  <2>2. Framed(ms, chunks)
    BY <1>3, <2>1, Zenon DEF MessageInput
  <2>3. Contents(chunks) = ms
    BY <2>2, FramesQueued DEF Framed
  <2>4. \E k \in 0..Len(ms) : Contents(first) = SubSeq(ms, 1, k)
    <3>1. first \in Seq(Seq(Nat)) /\ \E lost \in Seq(Nat) : FlattenSeq(first) \o lost = Stream(ms)
      BY <2>1, <2>2, Zenon DEF Framed
    <3>2. PICK lost \in Seq(Nat) : FlattenSeq(first) \o lost = Stream(ms)
      BY <3>1
    <3> QED
      BY <2>2, <3>1, <3>2, FramesCutOff DEF Framed
  <2> QED
    BY <2>1, <2>3, <2>4, Zenon DEF FramesRecovered
<1>4. ASSUME MessageInput, input.of = "number" PROVE RandomBytesExist
  <2>1. input.n \in Nat
    BY <1>4, Zenon DEF MessageInput
  <2> QED
    BY <2>1, RandomBytesFit, Zenon DEF RandomBytesExist
<1>5. MessageInput => MessagesRecovered
  <2>1. input.of # "message" => MessageRoundTrip
    BY Zenon DEF MessageRoundTrip
  <2>2. input.of # "batch" => ProposalRecovered
    BY Zenon DEF ProposalRecovered
  <2>3. input.of # "stream" => FramesRecovered
    BY Zenon DEF FramesRecovered
  <2>4. input.of # "number" => RandomBytesExist
    BY Zenon DEF RandomBytesExist
  <2> QED
    BY <1>1, <1>2, <1>3, <1>4, <2>1, <2>2, <2>3, <2>4, Zenon DEF MessagesRecovered
<1> QED
  BY <1>5, MessageInputInit, MessageInputNext, PTL DEF Spec
=============================================================================
