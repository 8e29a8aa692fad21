--------------------------- MODULE ThresholdKeys ---------------------------
(***************************************************************************)
(* Boldyreva threshold signatures (crypto/threshsig/boldyreva.py) and the  *)
(* threshold encryption of Baek and Zheng (crypto/threshenc/tpke.py) in    *)
(* the exponents: the group element g^x is the number x modulo the prime   *)
(* Q, a product of elements their sum, a power a product, and a pairing    *)
(* multiplies.  This keeps the polynomials, the Lagrange coefficients and  *)
(* every check, and leaves out only that logarithms are hard to find.      *)
(*                                                                         *)
(* A dealer's polynomial is a sequence a of k coefficients; a[1] is the    *)
(* secret.  Players are 0..l-1, and player i holds the value at i + 1.     *)
(***************************************************************************)
EXTENDS Integers, Sequences, FiniteSets, Functions

CONSTANT Q

Field == 0..(Q - 1)
Reciprocal(x) == CHOOSE y \in Field : (x * y) % Q = 1

Minus(x, y) == (x + Q - (y % Q)) % Q
SumOf(f) == FoldFunction(LAMBDA x, y : (x + y) % Q, 0, f)
ProductOf(f) == FoldFunction(LAMBDA x, y : (x * y) % Q, 1, f)

PolynomEval(x, a) ==
    LET xx[i \in DOMAIN a] == IF i = 1 THEN 1 ELSE (xx[i - 1] * x) % Q
    IN  SumOf([i \in DOMAIN a |-> a[i] * xx[i]])

SK(a, i) == PolynomEval(i + 1, a)
VK(a) == a[1]
VKs(a, i) == SK(a, i)

\* Seeded bug: numerators taken at j, not at the point j + 1 of player j.
LagrangeAtIndex(S, j) ==
    (ProductOf([jj \in S \ {j} |-> Minus(0, jj)])
        * Reciprocal(ProductOf([jj \in S \ {j} |-> Minus(j, jj)]))) % Q

\* The coefficient of player j's share for the value at 0.
Lagrange(S, j) ==
    (ProductOf([jj \in S \ {j} |-> Minus(0, jj + 1)])
        * Reciprocal(ProductOf([jj \in S \ {j} |-> Minus(j, jj)]))) % Q

-----------------------------------------------------------------------------
\* Signatures; h is the hash of the message, shares a function on players.

Pair(x, y) == (x * y) % Q
Sign(a, i, h) == (h * SK(a, i)) % Q
VerifyShare(a, sig, i, h) == Pair(sig, 1) = Pair(h, VKs(a, i))
VerifySignature(a, sig, h) == Pair(sig, 1) = Pair(h, VK(a))
CombineShares(shares) == SumOf([j \in DOMAIN shares |-> shares[j] * Lagrange(DOMAIN shares, j)])

\* What a function returns that asserts something: the empty set for none.

\* A worker process makes a signature of shares nobody has verified, verifies it
\* and puts it into its pipe; a wrong one ends the process.  combine_and_verify
\* returns what comes out of the pipe.
Worker(a, h, shares) == {sig \in {CombineShares(shares)} : VerifySignature(a, sig, h)}
CombineAndVerify(a, h, shares) == IF Cardinality(DOMAIN shares) = Len(a) THEN Worker(a, h, shares) ELSE {}

-----------------------------------------------------------------------------
\* Encryption.  A message is a set, the positions of its one bits; the hash of
\* a group element is as many bits, different ones for different elements, and
\* the hash that ties a ciphertext together any element but the neutral one.

Bit == 1..3
Xor(x, y) == (x \ y) \cup (y \ x)
HashG(g) == {b \in Bit : (g \div 2^(b - 1)) % 2 = 1}
HashH(U, V) == 1 + ((U + Cardinality(V)) % (Q - 1))

\* tpke has a dealer and coefficients of its own, which are the same.
DecryptionSK(a, i) == PolynomEval(i + 1, a)
DecryptionLagrange(S, j) == Lagrange(S, j)

Encrypt(a, m, r) ==
    LET V == Xor(m, HashG((VK(a) * r) % Q))
    IN  [U |-> r, V |-> V, W |-> (HashH(r, V) * r) % Q]

\* Seeded bug: W is looked at no further.
UncheckedCiphertext(c) == c.W \in Field

VerifyCiphertext(c) == Pair(1, c.W) = Pair(c.U, HashH(c.U, c.V))
DecryptShare(a, i, c) == IF VerifyCiphertext(c) THEN {(c.U * DecryptionSK(a, i)) % Q} ELSE {}
VerifyDecryption(a, i, share, c) == Pair(share, 1) = Pair(c.U, DecryptionSK(a, i))

\* combine_shares: verify_share accepts all of them, lagrange their number.
Combined(shares) == SumOf([j \in DOMAIN shares |-> shares[j] * DecryptionLagrange(DOMAIN shares, j)])
Decryption(a, shares, c) ==
    IF /\ \A j \in DOMAIN shares : VerifyDecryption(a, j, shares[j], c)
       /\ Cardinality(DOMAIN shares) = Len(a)
      THEN {Xor(HashG(Combined(shares)), c.V)}
      ELSE {}

\* The threshold _generate_keys takes when it is given none.
DefaultThreshold(players) == players \div 2
=============================================================================
