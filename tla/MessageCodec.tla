---------------------------- MODULE MessageCodec ----------------------------
(***************************************************************************)
(* misc/utils.py: how the earlier implementation puts messages             *)
(* (deepEncode, deepDecode), ciphertexts (serializeEnc, deserializeEnc)    *)
(* and transactions (encodeTransaction, constructTransactionFromRepr) into *)
(* bytes.  A message is a record of its parts; strings are sequences of    *)
(* bytes, and group elements are in serialized form.  The sockets of       *)
(* experiments/honest_party_test_EC2.py carry them in frames.              *)
(***************************************************************************)
EXTENDS Integers, Sequences, SequencesExt

Cipher == INSTANCE SymmetricCipher

SHA_LENGTH == 32
PAIRING_SERIALIZED_1 == 65
CURVE_LENGTH == 32
TR_SIZE == 250

\* struct.pack of x in w bytes, and struct.unpack of bytes from..to of b.
Little(x, w) ==
    LET left[i \in 1..w] == IF i = 1 THEN x ELSE left[i - 1] \div 256
    IN  [i \in 1..w |-> left[i] % 256]
Number(b, from, to) ==
    LET n[k \in 0..(to - from + 1)] == IF k = 0 THEN 0 ELSE b[to - k + 1] + 256 * n[k - 1]
    IN  n[to - from + 1]
Fits(x, w) == w >= 4 \/ x < IF w = 1 THEN 256 ELSE 65536

Code == [i |-> 1, e |-> 2, B |-> 3, A |-> 4, C |-> 5, r |-> 6, O |-> 7]

\* The numbers of a body with their widths, and the bytes after them.
Fields(type, c) ==
    CASE type = "i" -> <<<<Len(c.s), 4>>, <<Len(c.mb), 1>>>>
      [] type = "e" -> <<<<c.p, 1>>, <<Len(c.part.s), 4>>, <<Len(c.part.mb), 1>>>>
      [] type \in {"r", "O"} -> <<<<c.p, 1>>>>
      [] type \in {"A", "B"} -> <<<<c.p, 1>>, <<c.round, 1>>, <<c.v, 1>>>>
      [] type = "C" -> <<<<c.p, 1>>, <<c.round, 2>>>>

Joined(x) == x.s \o x.rh \o FlattenSeq(x.mb) \o x.sig
Raw(type, c) ==
    CASE type = "i" -> Joined(c)
      [] type = "e" -> Joined(c.part)
      [] type \in {"A", "B"} -> <<>>
      [] type \in {"r", "O", "C"} -> c.sig

Packed(m) ==
    <<<<m.mc, 4>>, <<m.f, 1>>, <<m.t, 1>>, <<Code[m.type], 1>>>> \o Fields(m.type, m.body)

\* struct.pack raises an exception for a number that does not fit.
Encodable(m) == \A k \in DOMAIN Packed(m) : Fits(Packed(m)[k][1], Packed(m)[k][2])

DeepEncode(m) ==
    FlattenSeq([k \in DOMAIN Packed(m) |-> Little(Packed(m)[k][1], Packed(m)[k][2])])
        \o Raw(m.type, m.body)

\* The parts of an "i" or "e" after the lengths, which end at byte n of b.
Stripe(b, n, lenS, nrBr) ==
    LET branch(k) == n + lenS + SHA_LENGTH * k
    IN  [s |-> SubSeq(b, n + 1, n + lenS),
         rh |-> SubSeq(b, n + lenS + 1, branch(1)),
         mb |-> [k \in 1..nrBr |-> SubSeq(b, branch(k) + 1, branch(k + 1))],
         sig |-> SubSeq(b, branch(nrBr + 1) + 1, Len(b))]

CoinRound(b) == Number(b, 9, 10)

Body(b, code) ==
    CASE code = 1 -> Stripe(b, 12, Number(b, 8, 11), b[12])
      [] code = 2 -> [p |-> b[8], part |-> Stripe(b, 13, Number(b, 9, 12), b[13])]
      [] code \in {3, 4} -> [p |-> b[8], round |-> b[9], v |-> b[10]]
      [] code = 5 -> [p |-> b[8], round |-> CoinRound(b), sig |-> SubSeq(b, 11, Len(b))]
      [] code = 6 -> [p |-> b[8], sig |-> SubSeq(b, 9, Len(b))]
      [] code = 7 -> [p |-> b[8], sig |-> SubSeq(b, 9, 8 + PAIRING_SERIALIZED_1)]

DeepDecode(b) ==
    [mc |-> Number(b, 1, 4), f |-> b[5], t |-> b[6],
     type |-> CHOOSE x \in DOMAIN Code : Code[x] = b[7], body |-> Body(b, b[7])]

-----------------------------------------------------------------------------
\* Proposals: the serialized ciphertext of the key, then the encrypted batch.

SerializeEnc(C) == C[1] \o C[2] \o C[3]
DeserializeEnc(r) ==
    LET v == PAIRING_SERIALIZED_1
        w == v + CURVE_LENGTH
    IN  <<SubSeq(r, 1, v), SubSeq(r, v + 1, w), SubSeq(r, w + 1, w + PAIRING_SERIALIZED_1)>>

\* A transaction, of which the names are indices, filled up to TR_SIZE bytes.
Filled(tr, n) ==
    Little(tr.source, 1) \o Little(tr.target, 1) \o Little(tr.amount, 2)
        \o [i \in 1..n |-> 255] \o <<144>>

EncodeTransaction(tr) == Filled(tr, TR_SIZE - 5)
FromRepr(r) == [source |-> r[1], target |-> r[2], amount |-> Number(r, 3, 4)]

\* What a party proposes, and what prepareTx makes of it: aesKey, which C hides,
\* encrypts the batch, which is cut after every TR_SIZE bytes.
Proposal(C, aesKey, txs, iv) ==
    SerializeEnc(C) \o Cipher!SymEncrypt(aesKey, FlattenSeq([k \in DOMAIN txs |-> EncodeTransaction(txs[k])]), iv)
EncLength == PAIRING_SERIALIZED_1 * 2 + CURVE_LENGTH
Batch(proposal) == Cipher!SymDecrypt(SubSeq(proposal, EncLength + 1, Len(proposal)))
Split(batch) ==
    [k \in 1..(Len(batch) \div TR_SIZE) |-> SubSeq(batch, (k - 1) * TR_SIZE + 1, k * TR_SIZE)]

\* getSomeRandomBytes takes the filling from a string that initiateRND makes
\* long enough, or so it seems: where it may start.
LongLength(TX) == IF TX * (TR_SIZE - 5) < 1000000 THEN TX * (TR_SIZE - 5) ELSE 1000000

Starts(length, n) == 0..(n - 1 - length)

-----------------------------------------------------------------------------
\* Sockets: frames of a length and as many bytes, written one after another
\* and read in chunks that are cut anywhere.

Frame(content) == Little(Len(content), 4) \o content

\* Seeded bug: after a short read all bytes are asked for again.
ReadAgain(chunks, length) ==
    LET s[i \in 0..Len(chunks)] ==
            IF i = 0 THEN [got |-> <<>>, missing |-> length, rest |-> <<>>]
            ELSE LET p == s[i - 1]
                     c == chunks[i]
                     wanted == IF p.missing > 0 THEN length ELSE 0
                     k == IF Len(c) < wanted THEN Len(c) ELSE wanted
                 IN  [got |-> p.got \o SubSeq(c, 1, k), missing |-> p.missing - k,
                      rest |-> Append(p.rest, SubSeq(c, k + 1, Len(c)))]
    IN  s[Len(chunks)]

\* goodread: it reads on until nothing is missing.
GoodRead(chunks, length) ==
    LET s[i \in 0..Len(chunks)] ==
            IF i = 0 THEN [got |-> <<>>, missing |-> length, rest |-> <<>>]
            ELSE LET p == s[i - 1]
                     c == chunks[i]
                     k == IF Len(c) < p.missing THEN Len(c) ELSE p.missing
                 IN  [got |-> p.got \o SubSeq(c, 1, k), missing |-> p.missing - k,
                      rest |-> Append(p.rest, SubSeq(c, k + 1, Len(c)))]
    IN  s[Len(chunks)]

\* What listen_to_channel reads in one round of its loop, and whether the bytes
\* do not suffice for it: goodread then waits for more in read, or, when the
\* stream has ended and read returns nothing, calls it again and again for ever.
Content(chunks) ==
    LET length == GoodRead(chunks, 4)
    IN  GoodRead(length.rest, Number(length.got, 1, 4))
Stuck(chunks) == GoodRead(chunks, 4).missing > 0 \/ Content(chunks).missing > 0

\* The contents it has queued when it is stuck; there are no more rounds than
\* bytes.
Contents(chunks) ==
    LET at[n \in Nat] ==
            IF n = 0 THEN [queued |-> <<>>, rest |-> chunks]
            ELSE LET p == at[n - 1] IN
                 IF Stuck(p.rest) THEN p
                 ELSE [queued |-> Append(p.queued, Content(p.rest).got), rest |-> Content(p.rest).rest]
        last == CHOOSE n \in 0..Len(FlattenSeq(chunks)) : Stuck(at[n].rest)
    IN  at[last].queued
=============================================================================
