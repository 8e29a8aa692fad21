---------------------------- MODULE ErasureCode ----------------------------
(***************************************************************************)
(* encode and decode of honeybadgerbft.core.reliablebroadcast: the padding *)
(* around the erasure code of zfec.  A byte of a message is a number in    *)
(* 0..255; zfec makes N stripes out of K blocks, any K of which give the   *)
(* blocks back: stripe i is the pair of its number and the blocks.         *)
(***************************************************************************)
EXTENDS Integers, Sequences, FiniteSets

None == <<>>

\* chr(c).encode() for c < 256: UTF-8, two bytes from 128 on.
Encoded(c) == IF c < 128 THEN <<c>> ELSE <<192 + c \div 64, 128 + (c % 64)>>

Times(n, s) == [i \in 1..(n * Len(s)) |-> s[1 + ((i - 1) % Len(s))]]

\* Seeded bug: the padding byte is padlen, which is what decode takes from K.
PadWithLength(K, m) ==
    LET padlen == K - (Len(m) % K)
    IN  m \o Times(padlen, Encoded(padlen))

Pad(K, m) ==
    LET padlen == K - (Len(m) % K)
    IN  m \o Times(padlen, Encoded(K - padlen))

\* K blocks of len(m) // K bytes; what is left of m is dropped.
Blocks(K, m) ==
    LET step == Len(m) \div K
    IN  [i \in 1..K |-> SubSeq(m, (i - 1) * step + 1, i * step)]

Encode(K, N, m) ==
    LET blocks == Blocks(K, Pad(K, m)) IN [i \in 1..N |-> [index |-> i, of |-> blocks]]

Join(blocks) ==
    LET step == Len(blocks[1])
    IN  [i \in 1..(Len(blocks) * step) |-> blocks[1 + ((i - 1) \div step)][1 + ((i - 1) % step)]]

\* zfec gives the blocks back from the first K stripes that are there; the last
\* byte tells how much m[:-padlen] takes away: nothing is left for a padlen of
\* 0, and a negative one keeps that many bytes from the front.
Decode(K, stripes) ==
    LET there == {i \in DOMAIN stripes : stripes[i] # None}
        kth == CHOOSE i \in there : Cardinality({j \in there : j <= i}) = K
        m == Join(stripes[kth].of)
        padlen == K - m[Len(m)]
    IN  IF padlen > 0 THEN SubSeq(m, 1, Len(m) - padlen)
        ELSE IF -padlen < Len(m) THEN SubSeq(m, 1, -padlen) ELSE m

-----------------------------------------------------------------------------
\* The padding of the earlier broadcast (misc/includeTransaction.py), between
\* one byte and T of them, which the last one counts.

OldStep(T, m) == Len(m) \div T + 1
OldPadding(T, m) == OldStep(T, m) * T - Len(m)
OldBlocks(T, m) ==
    LET step == OldStep(T, m)
        buf == m \o Times(OldPadding(T, m) - 1, <<255>>) \o <<OldPadding(T, m)>>
    IN  [i \in 1..T |-> SubSeq(buf, (i - 1) * step + 1, i * step)]
OldDecode(blocks) ==
    LET rawbuf == Join(blocks) IN SubSeq(rawbuf, 1, Len(rawbuf) - rawbuf[Len(rawbuf)])
=============================================================================
