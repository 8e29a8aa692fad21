------------------------- MODULE ReliableBroadcast -------------------------
(***************************************************************************)
(* One instance of reliable broadcast, honeybadgerbft/core/                *)
(* reliablebroadcast.py: the leader erasure-codes its input into N         *)
(* stripes, one per node, commits to them with a Merkle root, and the      *)
(* nodes exchange VAL, ECHO and READY until the value can be decoded.      *)
(*                                                                         *)
(* A greenlet runs from one receive() to the next without yielding (send   *)
(* does not block), so each branch of the receive loop is one action.      *)
(* Sent messages stay in msgs: they may be delayed, reordered or delivered *)
(* again.  Nodes in Faulty follow no program: whatever they may send, the  *)
(* set FaultyMsg, is deliverable to anyone at any time.                    *)
(***************************************************************************)
EXTENDS Integers, FiniteSets

CONSTANTS
    Node,       \* range(N)
    Faulty,     \* the nodes that do not run this code
    F,          \* the parameter f
    Leader,
    Message,    \* the values a leader may input
    Block,      \* contents of one stripe
    Root,       \* the stripe vectors whose Merkle roots occur in messages
    Code,       \* encode(K, N, _): the vector of stripes of a message
    FaultyMsg,  \* the messages faulty nodes may send
    Broken,     \* the honest nodes they may send one that the loop cannot handle
    NoRoot,     \* Python's None, for a root and for a message
    NoMessage

N == Cardinality(Node)
Honest == Node \ Faulty

\* Seeded bugs: a threshold too low, no amplification, waiting for everybody.
LowEchoThreshold == F
NoAmplification == N + 1
LowOutputThreshold == 2 * F
OutputByAll == N

K               == N - 2 * F
EchoThreshold   == N - F
ReadyThreshold  == F + 1
OutputThreshold == 2 * F + 1

\* The four asserts at the top of reliablebroadcast().
ASSUME NodeAssumption ==
    /\ IsFiniteSet(Node)
    /\ F \in Nat
    /\ N >= 3 * F + 1
    /\ Leader \in Node

\* The fault model of the protocol: at most f nodes are faulty.
ASSUME FaultAssumption == Faulty \subseteq Node /\ Cardinality(Faulty) <= F

\* How far encode and decode can be relied on: zfec makes at most 256 stripes,
\* and from 129 blocks on decode does not undo the padding of encode (lines 31
\* and 62; StripesSuffice of Algorithms), although line 28 lets K be 256.
ASSUME SizeAssumption == K <= 128 /\ N <= 256

\* SHA-256 is taken to be collision free, so a Merkle root is identified with
\* the vector of stripes below it.  zfec is a maximum-distance code: two
\* messages whose stripes agree at K nodes are equal, if the padding is undone.
ASSUME CodeAssumption ==
    /\ Root \subseteq [Node -> Block]
    /\ Code \in [Message -> Root]
    /\ K <= 128 => \A m1, m2 \in Message :
          \A S \in SUBSET Node :
             Cardinality(S) >= K /\ (\A i \in S : Code[m1][i] = Code[m2][i]) => m1 = m2
    /\ NoRoot \notin Root
    /\ NoMessage \notin Message

VARIABLES
    pc,         \* where each honest greenlet is
    input,      \* the leader's m
    fromLeader,
    echoes,     \* accepted ECHOs: stripes, echoCounter and echoSenders in one
    readies,    \* accepted READYs: ready and readySenders in one
    readySent,
    result,     \* the value returned
    msgs        \* everything an honest node has sent

vars == <<pc, input, fromLeader, echoes, readies, readySent, result, msgs>>

ValMsg   == [type : {"VAL"}, from : Node, to : Node, root : Root, stripe : Block]
EchoMsg  == [type : {"ECHO"}, from : Node, root : Root, stripe : Block]
ReadyMsg == [type : {"READY"}, from : Node, root : Root]

\* Channels are authenticated: no node sends in the name of another.
ASSUME FaultyMsgAssumption ==
    /\ FaultyMsg \subseteq {m \in ValMsg \cup EchoMsg \cup ReadyMsg : m.from \in Faulty}
    /\ Broken \subseteq Honest
    /\ Faulty = {} => Broken = {}

Val(from, to, h)   == [type |-> "VAL", from |-> from, to |-> to, root |-> h, stripe |-> h[to]]
Echo(from, h, s)   == [type |-> "ECHO", from |-> from, root |-> h, stripe |-> s]
Ready(from, h)     == [type |-> "READY", from |-> from, root |-> h]

\* What the receive() of a node may return next.
Deliverable == msgs \cup FaultyMsg

\* encode: the N stripes of m.
Encode(m) == Code[m]

\* Seeded bug: the branch is not checked.
UncheckedBranch(stripe, h, i) == TRUE

\* A branch that hashes to root h at a position exists for the stripe at that
\* position and, without collisions, for no other.
MerkleVerify(stripe, h, i) == h[i] = stripe

EchoesFor(E, h) == {e \in E : e.root = h}
ReadiesFor(R, h) == {r \in R : r.root = h}

\* decode() interpolates K of the stored stripes; whatever they are, there is
\* one message they are stripes of.  A message outside Message stands for none
\* of the vectors in Root.
Decoded(E, S) ==
    {m \in Message : \A e \in E : e.from \in S => Encode(m)[e.from] = e.stripe}

\* Seeded bug: the assertion is dropped.
UncheckedOutput(E, h, S) == Decoded(E, S)

\* decode_output: decode from some K of the stripes of h, encode again, compare
\* the roots; the answer is the set of values the assertion lets through.
DecodeOutput(E, h, S) == {m \in Decoded(E, S) : Encode(m) = h}

\* The condition under which both ECHO and READY end the loop.
CanOutput(E, R, h) ==
    /\ Cardinality(ReadiesFor(R, h)) >= OutputThreshold
    /\ Cardinality(EchoesFor(E, h)) >= K

\* Returning, or failing decode_output's assertion, ends the greenlet and
\* discards its local variables.
Finish(n, E, h) ==
    \E S \in SUBSET {e.from : e \in EchoesFor(E, h)} :
        /\ Cardinality(S) = K
        /\ IF DecodeOutput(EchoesFor(E, h), h, S) # {}
             THEN \E m \in DecodeOutput(EchoesFor(E, h), h, S) :
                    /\ result' = [result EXCEPT ![n] = m]
                    /\ pc' = [pc EXCEPT ![n] = "returned"]
             ELSE /\ pc' = [pc EXCEPT ![n] = "failed"]
                  /\ UNCHANGED result
        /\ echoes' = [echoes EXCEPT ![n] = {}]
        /\ readies' = [readies EXCEPT ![n] = {}]

\* The end of the ECHO and READY branches, with accepted messages E and R.
FinishOrLoop(n, E, R, h) ==
    IF CanOutput(E, R, h)
      THEN Finish(n, E, h)
      ELSE /\ echoes' = [echoes EXCEPT ![n] = E]
           /\ readies' = [readies EXCEPT ![n] = R]
           /\ UNCHANGED <<pc, result>>

\* `if enough and not readySent: readySent = True; broadcast(READY)`
SendReady(n, h, enough) ==
    IF enough /\ ~readySent[n]
      THEN /\ readySent' = [readySent EXCEPT ![n] = TRUE]
           /\ msgs' = msgs \cup {Ready(n, h)}
      ELSE UNCHANGED <<readySent, msgs>>

Init ==
    /\ pc = [n \in Honest |-> IF n = Leader THEN "input" ELSE "receive"]
    /\ input = NoMessage
    /\ fromLeader = [n \in Honest |-> NoRoot]
    /\ echoes = [n \in Honest |-> {}]
    /\ readies = [n \in Honest |-> {}]
    /\ readySent = [n \in Honest |-> FALSE]
    /\ result = [n \in Honest |-> NoMessage]
    /\ msgs = {}

\* The leader leaves input() and sends every node, itself included, its stripe.
LeaderInput(m) ==
    /\ Leader \in Honest
    /\ pc[Leader] = "input"
    /\ pc' = [pc EXCEPT ![Leader] = "receive"]
    /\ input' = m
    /\ msgs' = msgs \cup {Val(Leader, i, Encode(m)) : i \in Node}
    /\ UNCHANGED <<fromLeader, echoes, readies, readySent, result>>

\* Rejected messages (`continue`) change nothing and are not steps.
ReceiveVal(n, v) ==
    /\ v.type = "VAL"
    /\ pc[n] = "receive"
    /\ v.to = n
    /\ fromLeader[n] = NoRoot
    /\ v.from = Leader
    /\ MerkleVerify(v.stripe, v.root, n)
    /\ fromLeader' = [fromLeader EXCEPT ![n] = v.root]
    /\ msgs' = msgs \cup {Echo(n, v.root, v.stripe)}
    /\ UNCHANGED <<pc, input, echoes, readies, readySent, result>>

ReceiveEcho(n, e) ==
    /\ e.type = "ECHO"
    /\ pc[n] = "receive"
    /\ \A x \in echoes[n] : x.from # e.from
    /\ MerkleVerify(e.stripe, e.root, e.from)
    /\ LET E == echoes[n] \cup {e} IN
          /\ SendReady(n, e.root, Cardinality(EchoesFor(E, e.root)) >= EchoThreshold)
          /\ FinishOrLoop(n, E, readies[n], e.root)
    /\ UNCHANGED <<input, fromLeader>>

ReceiveReady(n, r) ==
    /\ r.type = "READY"
    /\ pc[n] = "receive"
    /\ \A x \in readies[n] : x.from # r.from
    /\ LET R == readies[n] \cup {r} IN
          /\ SendReady(n, r.root, Cardinality(ReadiesFor(R, r.root)) >= ReadyThreshold)
          /\ FinishOrLoop(n, echoes[n], R, r.root)
    /\ UNCHANGED <<input, fromLeader>>

\* What the loop cannot handle: a tuple that cannot be unpacked, a root that
\* cannot be hashed, an ECHO whose branch holds no bytes (a TypeError of line 124,
\* where line 259 catches assertions only).  The greenlet ends and has no value.
ReceiveBroken(n) ==
    /\ n \in Broken
    /\ pc[n] = "receive"
    /\ pc' = [pc EXCEPT ![n] = "broken"]
    /\ echoes' = [echoes EXCEPT ![n] = {}]
    /\ readies' = [readies EXCEPT ![n] = {}]
    /\ UNCHANGED <<input, fromLeader, readySent, result, msgs>>

Next ==
    \/ \E m \in Message : LeaderInput(m)
    \/ \E n \in Honest, v \in Deliverable : ReceiveVal(n, v)
    \/ \E n \in Honest, e \in Deliverable : ReceiveEcho(n, e)
    \/ \E n \in Honest, r \in Deliverable : ReceiveReady(n, r)
    \/ \E n \in Honest : ReceiveBroken(n)

Spec == Init /\ [][Next]_vars

\* Channels deliver what honest nodes send, and gevent runs every greenlet
\* that has a message; nothing is asked of faulty nodes or of input().
ReceiveHonest(n) ==
    \E m \in msgs : ReceiveVal(n, m) \/ ReceiveEcho(n, m) \/ ReceiveReady(n, m)

FairSpec == Spec /\ \A n \in Honest : WF_vars(ReceiveHonest(n))
-----------------------------------------------------------------------------
Finished(n) == pc[n] \in {"returned", "failed"}

\* No faulty node has ended a greenlet from outside.
Whole == \A n \in Honest : pc[n] # "broken"

\* The type invariant.
TypeOK ==
    /\ pc \in [Honest -> {"input", "receive", "returned", "failed", "broken"}]
    /\ input \in Message \cup {NoMessage}
    /\ fromLeader \in [Honest -> Root \cup {NoRoot}]
    /\ echoes \in [Honest -> SUBSET EchoMsg]
    /\ readies \in [Honest -> SUBSET ReadyMsg]
    /\ readySent \in [Honest -> BOOLEAN]
    /\ result \in [Honest -> Message \cup {NoMessage}]
    /\ msgs \subseteq ValMsg \cup EchoMsg \cup ReadyMsg

\* No two honest nodes send READY for different roots, whether they were
\* convinced by ECHOs (line 268) or amplified READYs (line 287), and even when
\* the leader shows different roots to different nodes.
ReadyAgreement ==
    \A r1, r2 \in msgs : r1.type = "READY" /\ r2.type = "READY" => r1.root = r2.root

\* Nodes that end the protocol end it alike: the same value, or every one of
\* them fails the assertion of decode_output, although each decodes from the
\* stripes that happened to reach it and the leader may have committed to
\* stripes that are no codeword.
Agreement ==
    \A n1, n2 \in Honest : Finished(n1) /\ Finished(n2) =>
        pc[n1] = pc[n2] /\ result[n1] = result[n2]

\* With an honest leader nobody fails decode_output and nobody returns anything
\* but the leader's input, whatever stripes and roots faulty nodes echo.
Validity ==
    Leader \in Honest =>
        \A n \in Honest : Finished(n) => pc[n] = "returned" /\ result[n] = input

\* A node may only end the loop, and so stop helping, when the others can still
\* finish without it: K honest nodes have echoed one root, so its stripes can be
\* collected, and F + 1 honest nodes have sent READY for it, so everyone will.
OutputRetrievable ==
    \A n \in Honest : Finished(n) =>
        \E h \in Root :
            /\ Cardinality({q \in Honest : Echo(q, h, h[q]) \in msgs}) >= K
            /\ Cardinality({q \in Honest : Ready(q, h) \in msgs}) >= F + 1

\* If one honest node finishes, every honest node does (a faulty leader cannot
\* split them), although finished nodes no longer answer anything; unless a
\* message nobody can handle has ended one of the greenlets.
Totality ==
    (\E n \in Honest : Finished(n)) ~> ((\A n \in Honest : Finished(n)) \/ ~Whole)

\* The input of an honest leader is returned everywhere, with the same exception.
Termination ==
    (Leader \in Honest /\ input # NoMessage) ~> ((\A n \in Honest : result[n] = input) \/ ~Whole)

\* Nothing FairSpec asks for is left to do: every running greenlet has taken what
\* honest nodes sent it.
Exhausted(n) ==
    \A m \in msgs :
        /\ m.type = "VAL" =>
              ~(m.to = n /\ m.from = Leader /\ MerkleVerify(m.stripe, m.root, n) /\ fromLeader[n] = NoRoot)
        /\ m.type = "ECHO" /\ MerkleVerify(m.stripe, m.root, m.from) => \E x \in echoes[n] : x.from = m.from
        /\ m.type = "READY" => \E x \in readies[n] : x.from = m.from

AtRest == \A n \in Honest : pc[n] = "receive" => Exhausted(n)

\* A broadcast that comes to rest, all its greenlets whole, has ended everywhere
\* or nowhere, and everywhere with the input of an honest leader; none is left in
\* receive() because others stopped helping.
RestIsFinal ==
    AtRest /\ Whole =>
        /\ (\E n \in Honest : Finished(n)) => \A n \in Honest : Finished(n)
        /\ Leader \in Honest /\ input # NoMessage => \A n \in Honest : result[n] = input

\* The broadcast implements the abstract one.
Broadcast == INSTANCE BroadcastSpec
                WITH finished <- {n \in Honest : Finished(n)}, value <- result

\* What the callers of reliablebroadcast() rely on: a single verdict for all
\* honest nodes, the leader's input if it is honest, fixed once and for all.
ImplementsBroadcast == Broadcast!Spec
-----------------------------------------------------------------------------
\* The inductive invariant of the proofs.  An echo quorum for h: N - F nodes of
\* which the honest ones were shown h by the leader (and show it to everyone).
EchoQuorum(h) ==
    \E Q \in SUBSET Node :
        /\ Cardinality(Q) >= EchoThreshold
        /\ \A q \in Q \cap Honest : fromLeader[q] = h

OneEach(M) == \A x, y \in M : x.from = y.from => x = y

\* Stored ECHOs were delivered, verified and counted once per sender.
StoredEchoes(E) ==
    /\ \A e \in E : e \in Deliverable /\ e.type = "ECHO" /\ MerkleVerify(e.stripe, e.root, e.from)
    /\ OneEach(E)

StoredReadies(R) ==
    /\ \A r \in R : r \in Deliverable /\ r.type = "READY"
    /\ OneEach(R)

LocalsInv == \A n \in Honest : StoredEchoes(echoes[n]) /\ StoredReadies(readies[n])

MsgsInv ==
    \A m \in msgs :
        /\ m.from \in Honest
        /\ m.type = "VAL" => m.from = Leader /\ input \in Message /\ m.root = Code[input]
        /\ m.type = "ECHO" => fromLeader[m.from] = m.root
        /\ m.type = "READY" => EchoQuorum(m.root)

LeaderInv ==
    Leader \in Honest =>
        /\ pc[Leader] = "input" <=> input = NoMessage
        /\ \A n \in Honest : fromLeader[n] # NoRoot => input \in Message /\ fromLeader[n] = Code[input]

OutcomeInv ==
    \A n \in Honest :
        /\ IF pc[n] = "returned"
              THEN result[n] \in Message /\ EchoQuorum(Code[result[n]])
              ELSE result[n] = NoMessage
        /\ pc[n] = "failed" =>
              \E h \in Root : EchoQuorum(h) /\ \A m \in Message : Code[m] # h

\* Why nodes agree: every READY an honest node ever sends, and so every outcome,
\* rests on an echo quorum for its root, and two echo quorums share an honest
\* node, which follows the leader once (line 234).
BroadcastInv == TypeOK /\ LocalsInv /\ MsgsInv /\ LeaderInv /\ OutcomeInv
=============================================================================
