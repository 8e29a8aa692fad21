-------------------------- MODULE BinaryAgreement --------------------------
(***************************************************************************)
(* One instance of binary agreement at all honest nodes, honeybadgerbft/   *)
(* core/binaryagreement.py.  In a node two greenlets share the tallies of  *)
(* each round: the receive greenlet counts EST, AUX and CONF and relays    *)
(* EST, the main greenlet goes through the phases of a round and asks for  *)
(* its coin.  It wakes up whenever a tally has grown, after any number of  *)
(* further messages; so a step of this module may use any part of the      *)
(* messages sent so far as the part that has arrived (a tally only grows,  *)
(* and is compared with a threshold from below).                           *)
(* Of a node whose receive greenlet has ended this still lets the main      *)
(* greenlet do whatever it could have done: it does some of it at most.    *)
(***************************************************************************)
EXTENDS Integers, FiniteSets

CONSTANTS
    Node, Faulty, F,
    MaxRound,   \* the bound on the rounds modelled
    FaultyMsg,  \* the messages faulty nodes may send
    Provoked,   \* the receive greenlets to which a faulty node sends a message they cannot take
    Coins,      \* the sequences of coins the keys may stand for
    None        \* Python's None

N == Cardinality(Node)
Honest == Node \ Faulty
Round == 0 .. MaxRound
Bits == {0, 1}

\* Seeded bugs: thresholds too low, or no relay before acceptance.
RelayAny == F
RelayLate == 2 * F + 1
LowQuorum == N - 2 * F

RelayThreshold  == F + 1        \* EST to relay
AcceptThreshold == 2 * F + 1    \* EST to enter bin_values
Quorum          == N - F        \* AUX and CONF to go on

ASSUME AgreementNodes == IsFiniteSet(Node) /\ F \in Nat /\ N >= 3 * F + 1 /\ MaxRound \in Nat

ASSUME AgreementFaults == Faulty \subseteq Node /\ Cardinality(Faulty) <= F

\* An EST or AUX carries a bit, a CONF one of (0,), (1,), (0, 1).
BitMsg  == [type : {"EST", "AUX"}, from : Node, round : Round, v : Bits]
ConfMsg == [type : {"CONF"}, from : Node, round : Round, vs : (SUBSET Bits) \ {{}}]

ASSUME AgreementFaultyMsg ==
    FaultyMsg \subseteq {m \in BitMsg \cup ConfMsg : m.from \in Faulty}

\* What can be ended at a node: the agreement's receive greenlet or its coin's.
Greenlets == {"agreement", "coin"}
ASSUME AgreementProvoked == Provoked \subseteq Honest \X Greenlets

ASSUME AgreementCoins == Coins \subseteq [Round -> Bits] /\ None \notin Bits

VARIABLES
    pc,         \* the wait each main greenlet is in
    vi,         \* what input() returned
    round,      \* r
    est,
    already_decided,
    bin_values, \* bin_values[n][r]
    values,     \* values[n][r]: what the CONF phase of round r returned
    coin,       \* the bit of each round, fixed by the keys, unknown to the nodes
    ended,      \* the receive greenlets that an exception has ended
    msgs        \* what honest nodes have broadcast; est_sent is read off it

vars == <<pc, vi, round, est, already_decided, bin_values, values, coin, ended, msgs>>

Est(n, r, v)   == [type |-> "EST", from |-> n, round |-> r, v |-> v]
Aux(n, r, v)   == [type |-> "AUX", from |-> n, round |-> r, v |-> v]
Conf(n, r, vs) == [type |-> "CONF", from |-> n, round |-> r, vs |-> vs]

\* Those from whom a node may have received a message: est_values[r][v],
\* aux_values[r][v] and conf_values[r][vs] are subsets of these.
Sent == msgs \cup FaultyMsg
EstSenders(r, v)   == {n \in Node : Est(n, r, v) \in Sent}
AuxSenders(r, v)   == {n \in Node : Aux(n, r, v) \in Sent}
ConfSenders(r, vs) == {n \in Node : Conf(n, r, vs) \in Sent}

\* Seeded bug: the share is sent before the CONF phase.
AskedBeforeConf(n, r) == round[n] > r \/ (round[n] = r /\ pc[n] \in {"conf", "coin", "quit"})

\* Round r's coin: F + 1 shares are needed and the faulty nodes can give
\* theirs.  A share is sent when the main greenlet calls coin(r).
AskedCoin(n, r) == round[n] > r \/ (round[n] = r /\ pc[n] \in {"coin", "quit"})
CoinAskers(r) == {n \in Honest : AskedCoin(n, r)}
CoinAvailable(r) == Cardinality(CoinAskers(r)) + Cardinality(Faulty) >= F + 1

Init ==
    /\ pc = [n \in Honest |-> "input"]
    /\ vi = [n \in Honest |-> None]
    /\ round = [n \in Honest |-> 0]
    /\ est = [n \in Honest |-> None]
    /\ already_decided = [n \in Honest |-> None]
    /\ bin_values = [n \in Honest |-> [r \in Round |-> {}]]
    /\ values = [n \in Honest |-> [r \in Round |-> {}]]
    /\ coin \in Coins
    /\ ended = {}
    /\ msgs = {}

\* input() returns and round 0 begins with EST, unless it was relayed already.
Input(n, v) ==
    /\ pc[n] = "input"
    /\ vi' = [vi EXCEPT ![n] = v]
    /\ est' = [est EXCEPT ![n] = v]
    /\ msgs' = msgs \cup {Est(n, 0, v)}
    /\ pc' = [pc EXCEPT ![n] = "bin"]
    /\ UNCHANGED <<round, already_decided, bin_values, values, coin, ended>>

\* The receive greenlet's EST branch with `count` senders in est_values[r][v]:
\* relay at F + 1, accept v at 2F + 1, in any round, the node's own or not;
\* messages that do neither are no steps.
ReceiveEst(n, r, v, count) ==
    /\ pc[n] # "quit" /\ <<n, "agreement">> \notin ended
    /\ RelayThreshold <= count /\ count <= Cardinality(EstSenders(r, v))
    /\ Est(n, r, v) \notin msgs \/ (count >= AcceptThreshold /\ v \notin bin_values[n][r])
    /\ msgs' = msgs \cup {Est(n, r, v)}
    /\ bin_values' = IF count >= AcceptThreshold
                       THEN [bin_values EXCEPT ![n][r] = @ \cup {v}]
                       ELSE bin_values
    /\ UNCHANGED <<pc, vi, round, est, already_decided, values, coin, ended>>

\* An EST, AUX or CONF that is in its tally already raises RedundantMessageError,
\* one with another value fails an assertion, and so does a share of the coin for
\* a round below 0: nobody catches that, and the receive greenlet ends.  Only
\* faulty nodes send such messages.
EndReceiver(n, g) ==
    /\ pc[n] # "quit" /\ <<n, g>> \in Provoked \ ended
    /\ ended' = ended \cup {<<n, g>>}
    /\ UNCHANGED <<pc, vi, round, est, already_decided, bin_values, values, coin, msgs>>

\* bin_values[r] is not empty any more: broadcast one element of it (which one a
\* set yields first is left open).
SendAux(n, w) ==
    /\ pc[n] = "bin"
    /\ w \in bin_values[n][round[n]]
    /\ msgs' = msgs \cup {Aux(n, round[n], w)}
    /\ pc' = [pc EXCEPT ![n] = "aux"]
    /\ UNCHANGED <<vi, round, est, already_decided, bin_values, values, coin, ended>>

\* The AUX wait ends when the values in bin_values[r] have N - F AUX together;
\* the two tests before that one are cases of it.  Which one succeeded is
\* recorded in `values` but used for nothing except conf_sent, as CONF carries
\* bin_values[r].  The tallies are per value: a node counts once for each.
\* Q: the nodes whose messages have arrived.
AuxCount(r, B, Q) ==
    Cardinality({p \in B \X Q : p[2] \in AuxSenders(r, p[1])})

CompleteAux(n, Q) ==
    LET r == round[n] IN
    /\ pc[n] = "aux"
    /\ AuxCount(r, bin_values[n][r], Q) >= Quorum
    /\ msgs' = msgs \cup {Conf(n, r, bin_values[n][r])}
    /\ pc' = [pc EXCEPT ![n] = "conf"]
    /\ UNCHANGED <<vi, round, est, already_decided, bin_values, values, coin, ended>>

\* wait_for_conf_values returns {v} as soon as it sees N - F times CONF (v,), and
\* both values when neither tally is full and all tallies within bin_values[r]
\* make N - F together.
Below(k) == IF k < Quorum THEN k ELSE Quorum - 1

ConfReturns(r, B, vs, Q) ==
    LET tally(x) == Cardinality(ConfSenders(r, x) \cap Q) IN
    \/ \E v \in B : vs = {v} /\ tally({v}) >= Quorum
    \/ /\ vs = Bits
       /\ (IF 0 \in B THEN Below(tally({0})) ELSE 0) + (IF 1 \in B THEN Below(tally({1})) ELSE 0)
             + (IF B = Bits THEN tally(Bits) ELSE 0) >= Quorum

\* The CONF wait ends and the main greenlet calls coin(r).
CompleteConf(n, vs, Q) ==
    LET r == round[n] IN
    /\ pc[n] = "conf"
    /\ ConfReturns(r, bin_values[n][r], vs, Q)
    /\ values' = [values EXCEPT ![n][r] = vs]
    /\ pc' = [pc EXCEPT ![n] = "coin"]
    /\ UNCHANGED <<vi, round, est, already_decided, bin_values, coin, ended, msgs>>

\* coin(r) returns s: set_new_estimate, then the next round, whose EST is sent
\* unless it was relayed already.  Beyond MaxRound nothing is modelled.
NextRound(n, v) ==
    /\ est' = [est EXCEPT ![n] = v]
    /\ round' = [round EXCEPT ![n] = @ + 1]
    /\ IF round[n] + 1 \in Round
         THEN /\ pc' = [pc EXCEPT ![n] = "bin"]
              /\ msgs' = msgs \cup {Est(n, round[n] + 1, v)}
         ELSE /\ pc' = [pc EXCEPT ![n] = "beyond"]
              /\ UNCHANGED msgs

CoinStep(n) ==
    /\ pc[n] = "coin"
    /\ CoinAvailable(round[n])
    /\ UNCHANGED <<vi, bin_values, values, coin, ended>>

\* Seeded bug: the coin is ignored.
KeepEstimate(n) ==
    /\ CoinStep(n)
    /\ values[n][round[n]] = Bits
    /\ NextRound(n, est[n])
    /\ UNCHANGED already_decided

\* Both values remain: the coin is the new estimate.
AdoptCoin(n) ==
    /\ CoinStep(n)
    /\ values[n][round[n]] = Bits
    /\ NextRound(n, coin[round[n]])
    /\ UNCHANGED already_decided

\* Seeded bug: a single value is decided whatever the coin says.
DecideAnyway(n, v) ==
    /\ CoinStep(n)
    /\ values[n][round[n]] = {v}
    /\ already_decided' = [already_decided EXCEPT ![n] = IF @ = None THEN v ELSE @]
    /\ NextRound(n, v)

\* One value remains: it is the new estimate, and decided if it is the coin.
KeepValue(n, v) ==
    /\ CoinStep(n)
    /\ values[n][round[n]] = {v}
    /\ ~(v = coin[round[n]] /\ already_decided[n] = v)
    /\ IF v = coin[round[n]] /\ already_decided[n] = None
         THEN already_decided' = [already_decided EXCEPT ![n] = v]
         ELSE UNCHANGED already_decided
    /\ NextRound(n, v)

\* Seeded bug: deciding ends the loop at once.
QuitAtOnce(n, v) ==
    /\ CoinStep(n)
    /\ values[n][round[n]] = {v} /\ v = coin[round[n]]
    /\ already_decided' = [already_decided EXCEPT ![n] = v]
    /\ pc' = [pc EXCEPT ![n] = "quit"]
    /\ UNCHANGED <<round, est, msgs>>

\* AbandonedNodeError: decided before, and the coin says so again.
Quit(n, v) ==
    /\ CoinStep(n)
    /\ values[n][round[n]] = {v}
    /\ v = coin[round[n]] /\ already_decided[n] = v
    /\ pc' = [pc EXCEPT ![n] = "quit"]
    /\ UNCHANGED <<round, est, already_decided, msgs>>

Next ==
    \E n \in Honest :
        \/ \E v \in Bits : Input(n, v)
        \/ \E r \in Round, v \in Bits, count \in {RelayThreshold, AcceptThreshold} : ReceiveEst(n, r, v, count)
        \/ \E g \in Greenlets : EndReceiver(n, g)
        \/ \E w \in Bits : SendAux(n, w)
        \/ CompleteAux(n, Node)
        \/ \E vs \in SUBSET Bits : CompleteConf(n, vs, Node)
        \/ AdoptCoin(n)
        \/ \E v \in Bits : KeepValue(n, v)
        \/ \E v \in Bits : Quit(n, v)

Spec == Init /\ [][Next]_vars

\* Channels deliver what honest nodes send and gevent runs every greenlet that
\* can run.  A faulty node's message need never arrive, input() is not asked to
\* return, and nothing is asked of a node one of whose receive greenlets ended.
Unharmed(n) == \A g \in Greenlets : <<n, g>> \notin ended

ReceiveHonestEst(n) ==
    \E r \in Round, v \in Bits, count \in {RelayThreshold, AcceptThreshold} :
        /\ count <= Cardinality(EstSenders(r, v) \cap Honest)
        /\ ReceiveEst(n, r, v, count)

MainStep(n) ==
    /\ Unharmed(n)
    /\ \/ \E w \in Bits : SendAux(n, w)
       \/ CompleteAux(n, Honest)
       \/ \E vs \in SUBSET Bits : CompleteConf(n, vs, Honest)
       \/ /\ Cardinality(CoinAskers(round[n])) >= F + 1
          /\ AdoptCoin(n) \/ \E v \in Bits : KeepValue(n, v) \/ Quit(n, v)

FairSpec == Spec /\ \A n \in Honest : WF_vars(ReceiveHonestEst(n)) /\ WF_vars(MainStep(n))
-----------------------------------------------------------------------------
\* The type invariant.
TypeOK ==
    /\ pc \in [Honest -> {"input", "bin", "aux", "conf", "coin", "quit", "beyond"}]
    /\ vi \in [Honest -> Bits \cup {None}]
    /\ round \in [Honest -> 0 .. MaxRound + 1]
    /\ est \in [Honest -> Bits \cup {None}]
    /\ already_decided \in [Honest -> Bits \cup {None}]
    /\ bin_values \in [Honest -> [Round -> SUBSET Bits]]
    /\ values \in [Honest -> [Round -> SUBSET Bits]]
    /\ coin \in Coins
    /\ ended \subseteq Honest \X Greenlets
    /\ msgs \subseteq BitMsg \cup ConfMsg

\* Honest nodes never decide differently, in whatever rounds they decide.
Agreement ==
    \A n1, n2 \in Honest :
        already_decided[n1] # None /\ already_decided[n2] # None
            => already_decided[n1] = already_decided[n2]

\* What is decided was the input of an honest node, whatever EST faulty nodes send.
Validity ==
    \A n \in Honest : already_decided[n] # None => \E q \in Honest : vi[q] = already_decided[n]

\* In one round, no honest node ends the CONF phase with {0} and another with {1}.
SingletonsAgree ==
    \A r \in Round, n1, n2 \in Honest : ~(values[n1][r] = {0} /\ values[n2][r] = {1})

\* "If one party decides at round r, then in all the following rounds, everybody
\* will propose r" (lines 274-277): once {v} has met the coin v somewhere, every
\* honest node that gets past that round has estimate v, for good.
LockedIn ==
    \A r \in Round, n1, n2 \in Honest :
        values[n1][r] = {coin[r]} /\ round[n2] > r => est[n2] = coin[r]

\* A node that quits leaves nobody behind undecided: who gets past the round in
\* which it quit has decided, as it may lack the peers to finish another round.
QuitLeavesDecided ==
    \A n1, n2 \in Honest :
        pc[n1] = "quit" /\ round[n2] > round[n1] => already_decided[n2] # None

\* v may still be what some honest node's CONF phase of round r returns alone.
StillPossible(r, v) ==
    Cardinality(ConfSenders(r, {v}) \cup {n \in Honest : \A vs \in SUBSET Bits : Conf(n, r, vs) \notin msgs}
                    \cup Faulty) >= N - F

\* No faulty node sends honest ones two different CONF in round r.  Nothing in
\* the code sees to that: line 50 adds up senders per set, so that one node's
\* CONF (0,), (1,) and (0, 1) count as three.
OneConfEach(r) ==
    \A n \in Faulty, vs1, vs2 \in SUBSET Bits :
        Conf(n, r, vs1) \in FaultyMsg /\ Conf(n, r, vs2) \in FaultyMsg => vs1 = vs2

\* When the coin of a round in which no CONF is counted twice can first become
\* known, no two values can still come out of its CONF phase alone: the purpose
\* of that phase.
CoinBinding ==
    \A r \in Round :
        OneConfEach(r) /\ CoinAvailable(r) => ~(StillPossible(r, 0) /\ StillPossible(r, 1))

\* The agreement implements its abstract specification.
Promise == INSTANCE AgreementSpec WITH proposal <- vi, decision <- already_decided

\* What the common subset relies on: a node decides once, after it was given an
\* input, like all others, and only what some honest node was given.
ImplementsAgreement == Promise!Spec

\* Nothing FairSpec asks for is left to do: no main greenlet can go on and no
\* receive greenlet has EST of honest nodes to act on, at the nodes where both
\* receive greenlets are alive.
ReceivedAll(n) ==
    \A r \in Round, v \in Bits :
        LET count == Cardinality(EstSenders(r, v) \cap Honest) IN
        /\ count >= RelayThreshold => Est(n, r, v) \in msgs
        /\ count >= AcceptThreshold => v \in bin_values[n][r]

Waits(n) ==
    LET r == round[n] IN
    \/ pc[n] \in {"input", "quit", "beyond"}
    \/ pc[n] = "bin" /\ bin_values[n][r] = {}
    \/ pc[n] = "aux" /\ AuxCount(r, bin_values[n][r], Honest) < Quorum
    \/ pc[n] = "conf" /\ \A vs \in SUBSET Bits : ~ConfReturns(r, bin_values[n][r], vs, Honest)
    \/ pc[n] = "coin" /\ Cardinality(CoinAskers(r)) < F + 1

AtRest == \A n \in Honest : Unharmed(n) => Waits(n) /\ (pc[n] # "quit" => ReceivedAll(n))

AllGiven == \A n \in Honest : vi[n] # None

\* As long as no node has quit and no receive greenlet was ended, the agreement
\* does not come to rest: whatever else faulty nodes send and however late values
\* enter bin_values, every round ends at every honest node.
RestOnlyBehindQuit ==
    AllGiven /\ AtRest /\ ended = {} /\ (\A n \in Honest : pc[n] # "quit")
        => \A n \in Honest : pc[n] = "beyond"

\* Line 69: "decide(0) or output(1) is eventually called".  When all have their
\* input, none is left undecided in a state where nothing more will happen.
DecideCalled ==
    AllGiven /\ AtRest => \A n \in Honest : already_decided[n] # None \/ pc[n] = "beyond"
=============================================================================
