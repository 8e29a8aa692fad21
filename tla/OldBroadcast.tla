---------------------------- MODULE OldBroadcast ----------------------------
(***************************************************************************)
(* multiSigBr of misc/includeTransaction.py, the reliable broadcast of the *)
(* earlier implementation, for the instance of one sender.  It is not      *)
(* ReliableBroadcast: READYs are counted, not their senders, and a node    *)
(* tries to reconstruct only when it receives a READY (line 147), so it    *)
(* would never finish if its stripes all came after the last READY.  That  *)
(* they do not rests on the order of messages from one node to another.    *)
(*                                                                         *)
(* Faulty nodes crash: towards each node they fall silent at some point,   *)
(* which is to say that their later messages are never received.  There is *)
(* one root, as a node that meets a second one for the same sender exits   *)
(* (lines 113, 131, 152).                                                  *)
(***************************************************************************)
EXTENDS Integers, Sequences, FiniteSets

CONSTANTS Node, t, Leader

ASSUME OldBroadcastAssumption ==
    t \in Nat /\ IsFiniteSet(Node) /\ Cardinality(Node) > 3 * t /\ Leader \in Node

VARIABLES
    faulty,     \* the nodes that crash
    chan,       \* chan[p][n]: what p sent to n, in order, and n has not received
    signed,     \* signed[n]: n has taken its stripe from the leader
    opinions,   \* opinions[n]: the nodes whose stripes n has
    readyCounter, readySent, output

vars == <<faulty, chan, signed, opinions, readyCounter, readySent, output>>

N == Cardinality(Node)
Threshold == N - 2 * t
Threshold2 == N - t

\* Seeded bug: a single READY is amplified, which a faulty node can send.
AmplifyOne == t
Amplify == t + 1

Honest == Node \ faulty

\* The leader has sent its stripes.  What a faulty node sends is on its way
\* from the start; a node that amplifies sends READY before ECHO.
Init ==
    /\ faulty \in {S \in SUBSET Node : Cardinality(S) = t}
    /\ \E order \in {<<"e", "r">>, <<"r", "e">>} :
         chan = [p \in Node |-> [n \in Honest |->
                   (IF p = Leader THEN <<"i">> ELSE <<>>) \o (IF p \in faulty THEN order ELSE <<>>)]]
    /\ signed = [n \in Honest |-> FALSE]
    /\ opinions = [n \in Honest |-> {}]
    /\ readyCounter = [n \in Honest |-> 0]
    /\ readySent = [n \in Honest |-> FALSE]
    /\ output = [n \in Honest |-> FALSE]

\* n has received the head of its channel from p, and broadcasts ms.
Consume(p, n, ms) ==
    chan' = [q \in Node |-> [r \in Honest |->
        (IF q = p /\ r = n THEN Tail(chan[q][r]) ELSE chan[q][r]) \o (IF q = n THEN ms ELSE <<>>)]]

ReceiveInitial(n, p) ==
    /\ Head(chan[p][n]) = "i"
    /\ signed' = [signed EXCEPT ![n] = TRUE]
    /\ Consume(p, n, IF signed[n] THEN <<>> ELSE <<"e">>)
    /\ UNCHANGED <<faulty, opinions, readyCounter, readySent, output>>

ReceiveEcho(n, p) ==
    LET enough == Cardinality(opinions[n] \cup {p}) >= Threshold2 /\ ~readySent[n] IN
    /\ Head(chan[p][n]) = "e"
    /\ opinions' = [opinions EXCEPT ![n] = @ \cup {p}]
    /\ readySent' = [readySent EXCEPT ![n] = @ \/ enough]
    /\ Consume(p, n, IF enough THEN <<"r">> ELSE <<>>)
    /\ UNCHANGED <<faulty, signed, readyCounter, output>>

\* Seeded bug: only the READY that completes the count is followed by a try.
ExactReadies(n, count) == count = Threshold2 /\ Cardinality(opinions[n]) >= Threshold

Reconstructs(n, count) == count >= Threshold2 /\ Cardinality(opinions[n]) >= Threshold

ReceiveReady(n, p) ==
    LET count == readyCounter[n] + 1
        amplify == count >= Amplify /\ ~readySent[n] IN
    /\ Head(chan[p][n]) = "r"
    /\ readyCounter' = [readyCounter EXCEPT ![n] = count]
    /\ readySent' = [readySent EXCEPT ![n] = @ \/ amplify]
    /\ output' = [output EXCEPT ![n] = @ \/ Reconstructs(n, count)]
    /\ Consume(p, n, IF amplify THEN <<"r">> ELSE <<>>)
    /\ UNCHANGED <<faulty, signed, opinions>>

Receive(n, p) ==
    /\ chan[p][n] # <<>>
    /\ ReceiveInitial(n, p) \/ ReceiveEcho(n, p) \/ ReceiveReady(n, p)

Next == \E n \in Honest, p \in Node : Receive(n, p)
Spec == Init /\ [][Next]_vars

-----------------------------------------------------------------------------
\* Nothing is in transit between honest nodes.  Every behaviour comes to
\* this, as each node sends a bounded number of messages.
Settled == \A p, n \in Honest : chan[p][n] = <<>>

\* When the READYs of all honest nodes have arrived, so have enough stripes
\* to reconstruct: the try at line 147 that follows the last of them is not
\* made too early, and no stripe that arrives after it is needed.
StripesBehindReadies ==
    \A n \in Honest :
        (\A p \in Honest : readySent[p] /\ \A i \in DOMAIN chan[p][n] : chan[p][n][i] # "r")
            => Cardinality(opinions[n]) >= Threshold

\* Once settled, all honest nodes have the message or none has, and all have
\* that of an honest leader (lines 147-172).
AllOrNone ==
    Settled => \A n, m \in Honest : output[n] = output[m] /\ (Leader \in Honest => output[n])
=============================================================================
