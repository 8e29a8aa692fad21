----------------------------- MODULE MerkleTree -----------------------------
(***************************************************************************)
(* merkleTree, getMerkleBranch and merkleVerify of                         *)
(* honeybadgerbft.core.reliablebroadcast.  A byte string is a sequence of  *)
(* atoms, a digest a single atom that holds what was hashed: the hash is   *)
(* free of collisions, and concatenation forgets where its parts met.      *)
(***************************************************************************)
EXTENDS Integers, Sequences

Hash(x) == <<[hash |-> x]>>

\* 2 ** k.
Power[k \in Nat] == IF k = 0 THEN 1 ELSE 2 * Power[k - 1]

\* ceil(log2 n)
Depth(n) == CHOOSE d \in 0..n : Power[d] >= n /\ (d = 0 \/ Power[d - 1] < n)

\* tree[1] is the root, tree[2^d + i] leaf i (counted from 0); leaves that are
\* not used are empty strings.
Tree(leaves) ==
    LET row == Power[Depth(Len(leaves))]
        tree[i \in 1..(2 * row - 1)] ==
            IF i < row THEN Hash(tree[2 * i] \o tree[2 * i + 1])
            ELSE IF i < row + Len(leaves) THEN Hash(leaves[i - row + 1])
            ELSE <<>>
    IN  tree

Sibling(t) == IF t % 2 = 0 THEN t + 1 ELSE t - 1

\* The node on the path from leaf index to the root, h levels up.
Path(d, index, h) == (index + Power[d]) \div Power[h]

\* Seeded bug: the nodes on the path instead of their siblings.
PathItself(index, tree) ==
    LET d == Depth(Len(tree) \div 2 + 1)
    IN  [h \in 1..d |-> tree[Path(d, index, h - 1)]]

\* The siblings on the path from the bottom up.
Branch(index, tree) ==
    LET d == Depth(Len(tree) \div 2 + 1)
    IN  [h \in 1..d |-> tree[Sibling(Path(d, index, h - 1))]]

\* The loop of merkleVerify: the bits of index tell on which side the sibling is.
Climb(val, branch, index) ==
    LET tmp[h \in 0..Len(branch)] ==
            IF h = 0 THEN Hash(val)
            ELSE IF (index \div Power[h - 1]) % 2 = 1 THEN Hash(branch[h] \o tmp[h - 1])
            ELSE Hash(tmp[h - 1] \o branch[h])
    IN  tmp[Len(branch)]

\* Seeded bug: the length of the branch is not checked.  This is merkleVerify
\* of the earlier broadcast.
AnyLength(n, val, root, branch, index) == Climb(val, branch, index) = root

Verify(n, val, root, branch, index) ==
    Len(branch) = Depth(n) /\ Climb(val, branch, index) = root

-----------------------------------------------------------------------------
\* The tree of the earlier broadcast (misc/includeTransaction.py): a leaf that
\* is not used is the number 0, which can be added to another number, and
\* hashed as a string, but not be added to a string.

Failed == <<[failed |-> TRUE]>>
Zero == <<[number |-> 0]>>

Unused == Zero

OldJoin(x, y) ==
    CASE Failed \in {x, y} -> Failed
      [] x = Zero /\ y = Zero -> Hash(<<[leaf |-> "0"]>>)
      [] {x, y} \cap {Failed, Zero} = {} -> Hash(x \o y)
      [] OTHER -> Failed

OldTree(leaves) ==
    LET row == Power[Depth(Len(leaves))]
        mt[i \in 1..(2 * row - 1)] ==
            IF i < row THEN OldJoin(mt[2 * i], mt[2 * i + 1])
            ELSE IF i < row + Len(leaves) THEN Hash(leaves[i - row + 1])
            ELSE Unused
    IN  mt
=============================================================================
