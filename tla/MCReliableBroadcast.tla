------------------------ MODULE MCReliableBroadcast ------------------------
(***************************************************************************)
(* Four nodes, one of them faulty (N = 4, F = 1, K = 2), two messages.     *)
(* The runs differ in the leader and in what the faulty node may send.     *)
(***************************************************************************)
EXTENDS ReliableBroadcast, TLC

CONSTANTS n1, n2, n3, n4, ma, mb, a, b

MCNode == {n1, n2, n3, n4}
MCMessage == {ma, mb}
MCBlock == {a, b}

\* Two codewords, and a vector of which n1 and n2 decode ma, n3 and n4 mb, and
\* any other pair decodes a message that is not modelled.
MCCode == [m \in MCMessage |-> [n \in MCNode |-> IF m = ma THEN a ELSE b]]
Mixed == [n \in MCNode |-> IF n \in {n1, n2} THEN a ELSE b]
MCRoot == {MCCode[ma], MCCode[mb], Mixed}

\* The honest leader of the honest-leader runs is given ma; b stripes are noise.
OneMessage == {ma}
OneCode == [m \in OneMessage |-> MCCode[m]]

\* An ECHO of n1 for root h, and one whose stripe is not the one below the root.
EchoOf(h) == Echo(n1, h, h[n1])
BadEcho(h) == Echo(n1, h, IF h[n1] = a THEN b ELSE a)

\* An honest leader: n1 echoes a stripe that is not below the root, and stands
\* up for another root, with a forged VAL and a premature READY.
AgainstHonestLeader == {BadEcho(MCCode[ma]), Ready(n1, MCCode[mb]), Val(n1, n2, MCCode[mb])}

\* A leader that shows two nodes a vector that is no codeword, one of them
\* perhaps a codeword instead, never serves n4, and supports the vector as it
\* likes.
Equivocating ==
    {Val(n1, n2, Mixed), Val(n1, n3, Mixed), Val(n1, n3, MCCode[ma]), EchoOf(Mixed), Ready(n1, Mixed)}
=============================================================================
