---------------------------- MODULE NumberTheory ----------------------------
(***************************************************************************)
(* The number theory of two modules: is_probable_prime and                 *)
(* generateLargePrime of crypto/threshsig/millerrabin.py, and the          *)
(* RSA-based threshold signatures of misc/shoup_tsig/shoup.py.  A key is a *)
(* record: the modulus n, the public exponent e, the number of players l,  *)
(* and what the dealer keeps, m and its polynomial a.                      *)
(***************************************************************************)
EXTENDS Integers, Sequences, FiniteSets, FiniteSetsExt, Functions

\* pow(x, e, n) for e >= 0, by squaring.
PowMod(x, e, n) ==
    LET pow[i \in Nat] ==
            IF i = 0 THEN 1 % n
            ELSE LET half == pow[i \div 2] IN (half * half * (IF i % 2 = 1 THEN x ELSE 1)) % n
    IN  pow[e]

Abs(x) == IF x < 0 THEN -x ELSE x

-----------------------------------------------------------------------------
\* Miller and Rabin

\* n - 1 = 2^s * d with d odd.
TwoPart(n) == CHOOSE s \in 0..(n - 1) : (n - 1) % 2^s = 0 /\ ((n - 1) \div 2^s) % 2 = 1

\* try_composite: a shows that n is composite.
TryComposite(n, a) ==
    LET s == TwoPart(n)
        d == (n - 1) \div 2^s
    IN  PowMod(a, d, n) # 1 /\ \A i \in 0..(s - 1) : PowMod(a, 2^i * d, n) # n - 1

\* is_probable_prime, for the bases its trials draw from 2..n-1.
ProbablePrime(n, bases) ==
    \/ n = 2
    \/ n % 2 = 1 /\ \A a \in bases : ~TryComposite(n, a)

\* What generateLargePrime can return for k bits if every base is drawn: a
\* number, or a message when all it tried were composite; for one bit neither,
\* is_probable_prime asserts that its argument is 2 at least.
Failure == <<>>
LargePrimes(k) ==
    {IF ProbablePrime(n, 2..(n - 1)) THEN <<n>> ELSE Failure : n \in 2^(k - 1)..(2^k - 1) \ {1}}

-----------------------------------------------------------------------------
\* Shoup's signatures

\* The loop of egcd: b = x * a0 + y * b0 and a = u * a0 + v * b0 all along.
EgcdLoop[b \in Nat, a \in Nat, x \in Int, y \in Int, u \in Int, v \in Int] ==
    IF a = 0 THEN [gcd |-> b, x |-> x, y |-> y]
    ELSE EgcdLoop[a, b % a, u, v, x - u * (b \div a), y - v * (b \div a)]

Egcd(a, b) == EgcdLoop[b, a, 0, 1, 1, 0]

\* powmod, which inverts x for a negative exponent.
PPow(x, e, n) ==
    IF e >= 0 THEN PowMod(x, e, n)
    ELSE PowMod(CHOOSE y \in 0..(n - 1) : (x * y) % n = 1, -e, n)

Product(S, Op(_)) == MapThenFoldSet(LAMBDA x, y : x * y, 1, Op, LAMBDA T : CHOOSE t \in T : TRUE, S)

\* generate_safe_prime, whatever it draws; after a failure it tries again.
SafePrimes(bits) ==
    {p \in {2 * p_[1] + 1 : p_ \in LargePrimes(bits - 1) \ {Failure}} : ProbablePrime(p, 2..(p - 1))}

\* The dealer: d inverts e modulo m and is the secret of the polynomial, of
\* which the other coefficients are drawn.
ShoupDealer(p, q, e, players, drawn) ==
    LET m == ((p - 1) \div 2) * ((q - 1) \div 2)
        d == CHOOSE x \in 0..(m - 1) : (x * e) % m = 1
    IN  [n |-> p * q, m |-> m, e |-> e, l |-> players, a |-> <<d>> \o drawn]

Delta(key) == Product(1..key.l, LAMBDA i : i)

\* The polynomial of the dealer at i, over the integers.
ShoupShare(key, i) == SumFunction([c \in DOMAIN key.a |-> key.a[c] * i^(c - 1)])

Numerator(S, i, j) == Product(S \ {j}, LAMBDA jj : i - jj)
Denominator(S, j) == Product(S \ {j}, LAMBDA jj : j - jj)

\* Seeded bug: without the factorial, so that the division leaves a remainder.
LambdaWithoutDelta(key, S, i, j) ==
    LET den == Denominator(S, j)
    IN  (IF den < 0 THEN -1 ELSE 1) * (Numerator(S, i, j) \div Abs(den))

\* Lagrange coefficients times l!, which makes them whole numbers.
LambdaS(key, S, i, j) ==
    LET den == Denominator(S, j)
    IN  (IF den < 0 THEN -1 ELSE 1) * ((Delta(key) * Numerator(S, i, j)) \div Abs(den))

ShoupSign(key, i, x) == PowMod(x, 2 * Delta(key) * ShoupShare(key, i), key.n)

ShoupCombine(key, x, sigs) ==
    LET S == DOMAIN sigs
        w == MapThenFoldSet(LAMBDA p, q : (p * q) % key.n, 1,
                 LAMBDA i : PPow(sigs[i], 2 * LambdaS(key, S, 0, i), key.n),
                 LAMBDA T : CHOOSE t \in T : TRUE, S)
        bezout == Egcd(4 * Delta(key)^2, key.e)
    IN  (PPow(w, bezout.x, key.n) * PPow(x, bezout.y, key.n)) % key.n

ShoupVerify(key, sig, x) == PowMod(sig, key.e, key.n) = x
=============================================================================
