----------------------------- MODULE Algorithms -----------------------------
(***************************************************************************)
(* The pure algorithms the protocols rest on, each checked against what    *)
(* its callers take for granted.  A behaviour is one call: an action draws *)
(* the input, and the properties speak about the results for it.           *)
(***************************************************************************)
EXTENDS Integers, Sequences, FiniteSets, Functions, MessageCodec

CONSTANTS
    Q,              \* prime order of the groups of the threshold schemes
    Players,        \* players of a dealer
    Thresholds,     \* numbers of shares that make a signature
    Codes,          \* codes[K]: the lengths of messages to encode in K blocks
    LeafCounts,     \* sizes of Merkle trees
    Candidates,     \* numbers to test for primality
    RsaDrawn,       \* coefficients Shoup's dealer may draw
    Values,         \* numbers in messages and transactions
    Lengths,        \* lengths of stripes and of what a socket carries
    Counts,         \* of branches, transactions and frames
    Cuts            \* where a socket may cut what it carries

\* Pad asks for K + 2 stripes, and zfec makes 256 at most.
ASSUME CodesAssumption == \A K \in DOMAIN Codes : K \in 1..254 /\ Codes[K] \subseteq Nat
ASSUME LeavesAssumption == LeafCounts \subseteq Nat
ASSUME NumbersAssumption == Thresholds \subseteq Nat \ {0} /\ Candidates \subseteq Nat

\* No number or length needs more than four bytes.
ASSUME MessagesAssumption ==
    /\ \A x \in Values \cup Lengths : x \in Nat /\ x \div 65536 < 65536
    /\ Counts \subseteq Nat /\ Cuts \subseteq Nat

\* The order of the groups is a prime, and larger than the number of players.
IsPrime(n) == n >= 2 /\ \A d \in 2..(n - 1) : n % d # 0
ASSUME FieldAssumption == Q \in Nat /\ IsPrime(Q) /\ Players \in Nat /\ Players < Q

Erasure == INSTANCE ErasureCode
Merkle == INSTANCE MerkleTree
Keys == INSTANCE ThresholdKeys
Numbers == INSTANCE NumberTheory

VARIABLE input

vars == <<input>>
Nothing == [of |-> "nothing"]
Init == input = Nothing

-----------------------------------------------------------------------------
\* Inputs

Player == 0..(Players - 1)
Subsets(k, S) == {T \in SUBSET S : Cardinality(T) = k}

\* A message of n bytes in N = K + 2 stripes, of which at most two are lost.
Pad == \E K \in DOMAIN Codes : \E n \in Codes[K], lost \in {{}, {1}, {2, K}, {K + 1, K + 2}} :
    input' = [of |-> "code", K |-> K, m |-> [i \in 1..n |-> (7 * i) % 256], lost |-> lost]

\* A tree whose third and fourth leaf are equal, and the leaf to speak about.
Leaf(i) == <<[leaf |-> IF i = 4 THEN 3 ELSE i]>>
Prove == \E n \in LeafCounts : \E index \in 0..(n - 1) :
    input' = [of |-> "branch", leaves |-> [i \in 1..n |-> Leaf(i)], index |-> index]

\* A dealer's polynomial, and the players whose shares are used.
Deal == \E k \in Thresholds : \E a \in [1..k -> Keys!Field], S \in Subsets(k, Player) :
    input' = [of |-> "shares", a |-> a, S |-> S]

Test == \E n \in Candidates : input' = [of |-> "number", n |-> n]

\* Keys of three players over the safe primes 7, 11 and 23; drawn is what the
\* dealer drew, and any exponent will do that has an inverse.
Rsa == \E p \in {7, 11}, drawn \in RsaDrawn, x \in {2, 3, 10, 100} :
    \E S \in Subsets(Len(drawn) + 1, 1..3) :
        input' = [of |-> "rsa", p |-> p, key |-> Numbers!ShoupDealer(p, 23, 7, 3, drawn), S |-> S, x |-> x]

Bytes(n) == [i \in 1..n |-> 255 - (i % 200)]
SomeStripe(lenS, nrBr) ==
    [s |-> Bytes(lenS), rh |-> Bytes(32), mb |-> [i \in 1..nrBr |-> Bytes(32)], sig |-> Bytes(70)]
SomeStripes == {SomeStripe(l, b) : l \in Lengths, b \in Counts}
Bodies(type) ==
    CASE type = "i" -> SomeStripes
      [] type = "e" -> [p : Values, part : SomeStripes]
      [] type = "r" -> [p : Values, sig : {Bytes(32)}]
      [] type = "O" -> [p : Values, sig : {Bytes(65)}]
      [] type = "C" -> [p : Values, round : Values, sig : {Bytes(29)}]
      [] type \in {"A", "B"} -> [p : Values, round : Values, v : {0, 1}]
Send == \E type \in DOMAIN Code : \E body \in Bodies(type), mc \in Values :
        input' = [of |-> "message", m |-> [mc |-> mc, f |-> 1, t |-> 255, type |-> type, body |-> body]]

Transactions ==
    [source : Values \cap 0..255, target : Values \cap 0..255, amount : {x \in Values : x < 256 * 256}]
Propose == \E n \in Counts : \E txs \in [1..n -> Transactions] :
    input' = [of |-> "batch", txs |-> txs, C |-> <<Bytes(65), Bytes(32), Bytes(65)>>]

\* Messages of some length that a socket delivers cut into three.
Stream(ms) == FlattenSeq([k \in DOMAIN ms |-> Frame(ms[k])])
Listen == \E n \in Counts : \E lengths \in [1..n -> Lengths] :
    LET ms == [k \in 1..n |-> Bytes(lengths[k])]
        s == Stream(ms)
        cuts == Cuts \cap 0..Len(s)
    IN  \E c, d \in cuts : c <= d /\
            input' = [of |-> "stream", ms |-> ms,
                      chunks |-> <<SubSeq(s, 1, c), SubSeq(s, c + 1, d), SubSeq(s, d + 1, Len(s))>>]

Next == input = Nothing /\ (Listen \/ Pad \/ Prove \/ Deal \/ Test \/ Rsa \/ Send \/ Propose)
Spec == Init /\ [][Next]_vars

-----------------------------------------------------------------------------
\* Properties

\* What decode makes of the stripes of encode that are not lost.
Recovered ==
    LET stripes == Erasure!Encode(input.K, input.K + 2, input.m)
    IN  Erasure!Decode(input.K, [i \in 1..(input.K + 2) |-> IF i \in input.lost THEN Erasure!None ELSE stripes[i]])

\* encode's docstring (lines 12 and 13): any K of the blocks reconstruct what
\* was encoded; line 28 asserts no more than K <= 256.
StripesSuffice == input.of = "code" => Recovered = input.m

\* It is true as long as the padding byte of the message, len(m) % K, is below
\* 128, which has one byte in UTF-8 (line 31): whichever stripes are lost,
\* decode returns what encode was given.
PaddingRoundTrip == input.of = "code" /\ Len(input.m) % input.K < 128 => Recovered = input.m

\* The branch of every leaf verifies, at any number of leaves.
BranchVerifies ==
    input.of = "branch" =>
        LET n == Len(input.leaves)
            tree == Merkle!Tree(input.leaves)
        IN  Merkle!Verify(n, input.leaves[input.index + 1], tree[1], Merkle!Branch(input.index, tree), input.index)

\* The earlier broadcast gets back what it sent, in the same blocks when it
\* encodes it again, and its assertion on the padding (line 177) holds.
OldPaddingRoundTrip ==
    input.of = "code" =>
        LET T == input.K
            blocks == Erasure!OldBlocks(T, input.m) IN
        /\ Erasure!OldPadding(T, input.m) < 256
        /\ Erasure!OldDecode(blocks) = input.m
        /\ Erasure!OldBlocks(T, Erasure!OldDecode(blocks)) = blocks

\* Its tree exists, and all its branches verify, for an even number of nodes or
\* a single one; an odd number makes it add a number to a string (line 75).
OldTreeExists ==
    input.of = "branch" =>
        LET n == Len(input.leaves)
            mt == Merkle!OldTree(input.leaves)
            exists == mt[1] # Merkle!Failed IN
        /\ exists <=> n = 1 \/ n % 2 = 0
        /\ exists => Merkle!AnyLength(n, input.leaves[input.index + 1], mt[1],
                                      Merkle!Branch(input.index, mt), input.index)

\* No other value verifies at a leaf: not another leaf, not the two children
\* of an inner node taken for a stripe, with whatever branch of tree nodes.
ValueBound ==
    input.of = "branch" /\ Len(input.leaves) <= 4 =>
        LET n == Len(input.leaves)
            tree == Merkle!Tree(input.leaves)
            nodes == {tree[i] : i \in DOMAIN tree} \cup {<<>>}
            values == {input.leaves[i] : i \in 1..n} \cup {x \o y : x, y \in nodes}
            branches == UNION {[1..h -> nodes] : h \in 0..2}
        IN  \A val \in values, branch \in branches :
                Merkle!Verify(n, val, tree[1], branch, input.index) => val = input.leaves[input.index + 1]

\* The shares of any k players verify, and make the one signature that
\* verifies, which does not depend on who they are.
QuorumSigns ==
    input.of = "shares" =>
        \A h \in 1..(Q - 1) :
            LET sigs == [i \in input.S |-> Keys!Sign(input.a, i, h)] IN
            /\ \A i \in input.S : Keys!VerifyShare(input.a, sigs[i], i, h)
            /\ \A sig \in Keys!Field :
                 Keys!VerifySignature(input.a, sig, h) <=> sig = Keys!CombineShares(sigs)

\* One wrong share, of whichever of them, spoils the combination: no wrong
\* share cancels out, so a worker process, which combines before it verifies,
\* answers when all shares are right and only then.
WrongShareSpoils ==
    input.of = "shares" =>
        \A i \in input.S, wrong \in Keys!Field :
            LET sigs == [j \in input.S |-> IF j = i THEN wrong ELSE Keys!Sign(input.a, j, 1)] IN
            Keys!CombineAndVerify(input.a, 1, sigs) # {} <=> Keys!VerifyShare(input.a, wrong, i, 1)

\* k - 1 shares are consistent with every secret: the coin and the ciphertexts
\* are open to nobody before k players have spoken.
SecretHidden ==
    input.of = "shares" =>
        \A i \in input.S, secret \in Keys!Field :
            \E b \in [DOMAIN input.a -> Keys!Field] :
                b[1] = secret /\ \A j \in input.S \ {i} : Keys!SK(b, j) = Keys!SK(input.a, j)

\* Each of k players gives one share of a ciphertext (decrypt_share asserts that
\* it is valid) and none of one whose W is another than its U and V ask for.
\* combine_shares opens what was encrypted with these shares, and refuses them
\* when any one of them is replaced by another value.
DecryptionAgrees ==
    input.of = "shares" =>
        \A r \in 1..(Q - 1), m \in {{}, {1, 3}} :
            LET c == Keys!Encrypt(input.a, m, r) IN
            /\ \A i \in input.S, w \in Keys!Field :
                 Keys!DecryptShare(input.a, i, [c EXCEPT !.W = w]) # {} <=> w = c.W
            /\ \E shares \in [input.S -> Keys!Field] :
                 /\ \A i \in input.S : Keys!DecryptShare(input.a, i, c) = {shares[i]}
                 /\ \A i \in input.S, share \in Keys!Field :
                      Keys!Decryption(input.a, [shares EXCEPT ![i] = share], c) =
                          IF share = shares[i] THEN {m} ELSE {}

\* decrypt undoes encrypt for bytes, whatever their number and the last of them,
\* full blocks and bytes that look like padding included.  A str encrypts only if
\* its UTF-8 form fills the blocks after padding: one of n characters that take
\* two bytes each does when n is a multiple of 16.
PadUndone ==
    input.of = "number" =>
        \A c \in {0, 1, 15, 16, 127, 233} :
            LET s == [i \in 1..input.n |-> c]
                iv == [i \in 1..Cipher!BS |-> i] IN
            /\ Cipher!SymDecrypt(Cipher!SymEncrypt("key", s, iv)) = s
            /\ Cipher!Encryptable(s) <=> c < 128 \/ input.n % Cipher!BS = 0

\* Of all networks of 3F + 1 nodes, the threshold that the key generators take
\* by default is the F + 1 that shared_coin asserts for F = 1 and F = 2 only.
DefaultThresholdFits ==
    input.of = "number" =>
        LET F == input.n IN Keys!DefaultThreshold(3 * F + 1) = F + 1 <=> F \in {1, 2}

\* A prime passes whatever bases are drawn, and at least three of four bases
\* show that a composite number is none (is_probable_prime); what
\* generateLargePrime returns is a prime of as many bits as asked for or, from
\* three bits on, possibly its message of failure.
PrimalityTest ==
    input.of = "number" /\ input.n >= 2 =>
        LET bases == 2..(input.n - 1) IN
        /\ Numbers!ProbablePrime(input.n, bases) = IsPrime(input.n)
        /\ input.n % 2 = 1 /\ ~IsPrime(input.n) =>
             4 * Cardinality({x \in bases : ~Numbers!TryComposite(input.n, x)}) <= input.n - 1
        /\ input.n <= 8 =>
             /\ {p \in 2^(input.n - 1)..(2^input.n - 1) : IsPrime(p)} =
                  {p[1] : p \in Numbers!LargePrimes(input.n) \ {Numbers!Failure}}
             /\ Numbers!Failure \in Numbers!LargePrimes(input.n) <=> input.n >= 3

\* Any k of Shoup's shares make a signature that verifies; the coefficients
\* are whole numbers, as lambdaS asserts, and give the secret times l! back, as
\* the dealer does.  generate_safe_prime is good for such keys: it yields safe
\* primes of the size that was asked for.
ShoupSigns ==
    /\ input.of = "rsa" =>
        LET key == input.key
            sigs == [i \in input.S |-> Numbers!ShoupSign(key, i, input.x)]
            terms == [j \in input.S |-> Numbers!LambdaS(key, input.S, 0, j) * Numbers!ShoupShare(key, j)] IN
        /\ \A j \in input.S :
             (Numbers!Delta(key) * Numbers!Numerator(input.S, 0, j)) % Numbers!Abs(Numbers!Denominator(input.S, j)) = 0
        /\ SumFunction(terms) % key.m = (Numbers!Delta(key) * key.a[1]) % key.m
        /\ Numbers!ShoupVerify(key, Numbers!ShoupCombine(key, input.x, sigs), input.x)
    /\ input.of = "number" /\ input.n \in 3..7 =>
        Numbers!SafePrimes(input.n) = {p \in 2^(input.n - 1)..(2^input.n - 1) : IsPrime(p) /\ IsPrime((p - 1) \div 2)}

\* egcd returns the greatest common divisor and the coefficients for it.
BezoutHolds ==
    input.of = "number" =>
        \A b \in 1..12 :
            LET g == Numbers!Egcd(input.n, b) IN
            /\ input.n * g.x + b * g.y = g.gcd
            /\ \A d \in 1..b : (input.n % d = 0 /\ b % d = 0) <=> g.gcd % d = 0

\* A message whose numbers fit their fields comes back as it was; of coin shares
\* these are all that the comment of deepEncode (lines 133 and 134) assumes, with
\* party indices of one byte and rounds of two.  EST and AUX have a byte less.
MessageRoundTrip ==
    input.of = "message" =>
        LET m == input.m IN
        /\ Encodable(m) => DeepDecode(DeepEncode(m)) = m
        /\ m.type = "C" => (m.body.p < 256 /\ m.body.round < 256 * 256 => Encodable(m))

\* prepareTx finds the ciphertext of the key and all transactions in a
\* proposal, decrypted and with nothing left over (its assertion).
ProposalRecovered ==
    input.of = "batch" =>
        LET p == Proposal(input.C, "aesKey", input.txs, [i \in 1..Cipher!BS |-> i])
            txs == Split(Batch(p)) IN
        /\ DeserializeEnc(SubSeq(p, 1, EncLength)) = input.C
        /\ Len(Batch(p)) % TR_SIZE = 0
        /\ [k \in DOMAIN txs |-> FromRepr(txs[k])] = input.txs

\* The receiver of a socket queues the frames that were sent, however they are
\* cut, and of a stream that breaks off those that are complete.
FramesRecovered ==
    input.of = "stream" =>
        /\ Contents(input.chunks) = input.ms
        /\ \E k \in 0..Len(input.ms) :
             Contents(SubSeq(input.chunks, 1, 2)) = SubSeq(input.ms, 1, k)

\* There is a place to take random bytes from, and they do not run over the
\* end, for all numbers of transactions except one: for a single transaction
\* getSomeRandomBytes asks randint for a number between 0 and -1.
RandomBytesExist ==
    input.of = "number" =>
        LET n == LongLength(input.n)
            length == TR_SIZE - 5
            starts == Starts(length, n) IN
        /\ starts # {} <=> input.n >= 2
        /\ \A s \in starts : s + length <= n
-----------------------------------------------------------------------------
\* What the callers of each scheme rely on

\* Erasure codes: what was put in comes out, in both broadcasts, as long as the
\* padding byte has one byte in UTF-8.
CodesRoundTrip == PaddingRoundTrip /\ OldPaddingRoundTrip

\* Merkle trees: a branch verifies the leaf it was made for and nothing else.
TreesAuthenticate == BranchVerifies /\ ValueBound /\ OldTreeExists

\* Threshold signatures: k shares sign, a wrong one among them is noticed, and
\* k - 1 tell nothing; k is what the coin needs for two sizes only.
SignaturesNeedQuorum == QuorumSigns /\ WrongShareSpoils /\ SecretHidden /\ DefaultThresholdFits

\* Encryption: what was encrypted is decrypted, by any k players under the
\* threshold scheme, where neither another W nor another share is accepted, and
\* under AES, which accepts anything.
CiphertextsOpen == DecryptionAgrees /\ PadUndone

\* Arithmetic: primes are told from composites, divisors are found, and the
\* whole numbers of Shoup's scheme make a signature of any k shares.
NumbersHold == PrimalityTest /\ ShoupSigns /\ BezoutHolds

\* Messages: what is encoded, put into a proposal or sent through a socket is
\* read as it was.
MessagesRecovered == MessageRoundTrip /\ ProposalRecovered /\ FramesRecovered /\ RandomBytesExist
=============================================================================
