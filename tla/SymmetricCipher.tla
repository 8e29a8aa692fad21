-------------------------- MODULE SymmetricCipher --------------------------
(***************************************************************************)
(* The symmetric cipher of crypto/threshenc/tpke.py (lines 217 to 242):    *)
(* AES in CBC mode with padding, for the batch of a proposal, whose key    *)
(* the threshold scheme hides.  A string is a sequence of numbers, the     *)
(* code points of its characters or its bytes; an encrypted byte is the    *)
(* pair of the key and the byte.  Nothing authenticates what is encrypted. *)
(***************************************************************************)
EXTENDS Integers, Sequences, FiniteSets

BS == 16

\* 1 to 16 characters are added, each of which tells how many they are.
Pad(s) == LET n == BS - (Len(s) % BS) IN s \o [i \in 1..n |-> n]
Unpad(s) == SubSeq(s, 1, Len(s) - s[Len(s)])

\* Of bytes, padding makes whole blocks.  A str is padded as well, and becomes
\* bytes only then: characters from 128 on (here, below 2048) are two bytes in
\* UTF-8, and AES refuses what does not fill its blocks.
ByteLength(s) == Len(s) + Cardinality({i \in DOMAIN s : s[i] >= 128})
Encryptable(raw) == ByteLength(Pad(raw)) % BS = 0

\* encrypt and decrypt of bytes; iv is as long as a block.
SymEncrypt(key, raw, iv) ==
    LET text == Pad(raw) IN iv \o [i \in DOMAIN text |-> [key |-> key, byte |-> text[i]]]
SymDecrypt(enc) == Unpad([i \in 1..(Len(enc) - BS) |-> enc[BS + i].byte])
=============================================================================
