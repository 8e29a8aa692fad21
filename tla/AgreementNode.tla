--------------------------- MODULE AgreementNode ---------------------------
(***************************************************************************)
(* One node of honeybadgerbft/core/binaryagreement.py from the inside: the *)
(* receive greenlet with its tallies, the main greenlet with its three     *)
(* waits, and the one Event, bv_signal, between them.  Everybody else is   *)
(* the environment, which may send anything: a message that is in its      *)
(* tally already, or one with a value that is none, ends the receive       *)
(* greenlet.  BinaryAgreement has no event and no tallies; the node is     *)
(* shown to be one of its nodes all the same.                              *)
(***************************************************************************)
EXTENDS Integers, Sequences, FiniteSets

CONSTANTS
    Node, self, F, MaxRound, Coins, None,
    EnvMsgs,    \* the sets of messages the other nodes may send
    Repeated,   \* the messages that may arrive more than once
    Malformed   \* messages whose v the assertions of lines 15, 94 and 130 refuse

N == Cardinality(Node)
Round == 0 .. MaxRound
Bits == {0, 1}

\* What a message of another node may look like.
Votes(t) == [type : {t}, from : Node \ {self}, round : Round, v : Bits]
Confirmations == [type : {"CONF"}, from : Node \ {self}, round : Round, vs : (SUBSET Bits) \ {{}}]

ASSUME AgreementNodeAssumption ==
    /\ IsFiniteSet(Node) /\ self \in Node
    /\ F \in Nat /\ N >= 3 * F + 1 /\ MaxRound \in Nat
    /\ Coins \subseteq [Round -> Bits] /\ None \notin Bits
    /\ EnvMsgs \subseteq SUBSET (Votes("EST") \cup Votes("AUX") \cup Confirmations)

VARIABLES
    pc,         \* the phase of the main greenlet
    waiting,    \* it is inside bv_signal.wait()
    signal,     \* bv_signal is set
    receiver,   \* the receive greenlet: "up", "failed", "killed"
    vi, round, est, already_decided, bin_values, values, coin,
    env,        \* what the others send this time
    got,        \* the messages in est_values, aux_values and conf_values
    sent        \* what the node has broadcast, in order

main == <<pc, waiting, vi, round, est, already_decided, values>>
vars == <<main, signal, receiver, bin_values, coin, env, got, sent>>

Est(r, v)   == [type |-> "EST", from |-> self, round |-> r, v |-> v]
Aux(r, v)   == [type |-> "AUX", from |-> self, round |-> r, v |-> v]
Conf(r, vs) == [type |-> "CONF", from |-> self, round |-> r, vs |-> vs]

Elements(s) == {s[i] : i \in DOMAIN s}
EstTally(r, v) == Cardinality({m \in got : m.type = "EST" /\ m.round = r /\ m.v = v})
AuxTally(r, v) == Cardinality({m \in got : m.type = "AUX" /\ m.round = r /\ m.v = v})
ConfTally(r, vs) == Cardinality({m \in got : m.type = "CONF" /\ m.round = r /\ m.vs = vs})

est_sent(r, v) == Est(r, v) \in Elements(sent)

Init ==
    /\ pc = "input" /\ waiting = FALSE /\ signal = FALSE /\ receiver = "up"
    /\ vi = None /\ round = 0 /\ est = None /\ already_decided = None
    /\ bin_values = [r \in Round |-> {}]
    /\ values = [r \in Round |-> {}]
    /\ coin \in Coins /\ env \in EnvMsgs
    /\ got = {} /\ sent = <<>>

-----------------------------------------------------------------------------
\* The receive greenlet

Arrives(m) ==
    /\ receiver = "up"
    /\ m \in env \cup Elements(sent)
    /\ UNCHANGED <<main, coin, env>>

\* RedundantMessageError, which nobody catches.
ReceiveRedundant(m) ==
    /\ Arrives(m)
    /\ m \in got \cap Repeated
    /\ receiver' = "failed"
    /\ UNCHANGED <<signal, bin_values, got, sent>>

\* An assertion fails, which nobody catches either.
ReceiveMalformed(m) ==
    /\ receiver = "up" /\ m \in Malformed
    /\ receiver' = "failed"
    /\ UNCHANGED <<main, coin, env, signal, bin_values, got, sent>>

\* Seeded bugs: a value is accepted when it is relayed; the relay does not look
\* at est_sent.
AcceptEarly(m) ==
    /\ Arrives(m)
    /\ m.type = "EST" /\ m \notin got
    /\ got' = got \cup {m}
    /\ IF EstTally(m.round, m.v) + 1 >= F + 1
         THEN /\ sent' = IF est_sent(m.round, m.v) THEN sent ELSE Append(sent, Est(m.round, m.v))
              /\ bin_values' = [bin_values EXCEPT ![m.round] = @ \cup {m.v}]
              /\ signal' = TRUE
         ELSE UNCHANGED <<sent, bin_values, signal>>
    /\ UNCHANGED receiver
RelayAgain(m) ==
    /\ Arrives(m)
    /\ m.type = "EST" /\ m \notin got
    /\ got' = got \cup {m}
    /\ LET tally == EstTally(m.round, m.v) + 1 IN
         /\ sent' = IF tally >= F + 1 THEN Append(sent, Est(m.round, m.v)) ELSE sent
         /\ IF tally >= 2 * F + 1
              THEN bin_values' = [bin_values EXCEPT ![m.round] = @ \cup {m.v}] /\ signal' = TRUE
              ELSE UNCHANGED <<bin_values, signal>>
    /\ UNCHANGED receiver

\* Relay at F + 1, accept and wake the main greenlet at 2F + 1.
ReceiveEst(m) ==
    /\ Arrives(m)
    /\ m.type = "EST" /\ m \notin got
    /\ got' = got \cup {m}
    /\ LET tally == EstTally(m.round, m.v) + 1 IN
         /\ sent' = IF tally >= F + 1 /\ ~est_sent(m.round, m.v) THEN Append(sent, Est(m.round, m.v)) ELSE sent
         /\ IF tally >= 2 * F + 1
              THEN bin_values' = [bin_values EXCEPT ![m.round] = @ \cup {m.v}] /\ signal' = TRUE
              ELSE UNCHANGED <<bin_values, signal>>
    /\ UNCHANGED receiver

\* Seeded bug: the main greenlet is not told.
ReceiveQuietly(m) ==
    /\ Arrives(m)
    /\ m.type \in {"AUX", "CONF"} /\ m \notin got
    /\ got' = got \cup {m}
    /\ UNCHANGED <<signal, receiver, bin_values, sent>>

\* AUX and CONF (handle_conf_messages) are counted.
ReceiveVote(m) ==
    /\ Arrives(m)
    /\ m.type \in {"AUX", "CONF"} /\ m \notin got
    /\ got' = got \cup {m}
    /\ signal' = TRUE
    /\ UNCHANGED <<receiver, bin_values, sent>>

-----------------------------------------------------------------------------
\* The main greenlet

AuxDone ==
    \/ \E v \in bin_values[round] : AuxTally(round, v) >= N - F
    \/ (IF 0 \in bin_values[round] THEN AuxTally(round, 0) ELSE 0)
         + (IF 1 \in bin_values[round] THEN AuxTally(round, 1) ELSE 0) >= N - F

\* What wait_for_conf_values returns at this moment, {} if it has to wait.
Full(v) == v \in bin_values[round] /\ ConfTally(round, {v}) >= N - F
AllConf ==
    LET within(vs) == IF vs \subseteq bin_values[round] THEN ConfTally(round, vs) ELSE 0
    IN  within({0}) + within({1}) + within(Bits)
ConfResult ==
    IF Full(1) THEN {1}
    ELSE IF Full(0) THEN {0}
    ELSE IF AllConf >= N - F THEN Bits ELSE {}

\* The test of the loop the main greenlet is in.
Ready ==
    CASE pc = "bin"  -> bin_values[round] # {}
      [] pc = "aux"  -> AuxDone
      [] pc = "conf" -> ConfResult # {}
      [] OTHER       -> FALSE

\* The test fails: bv_signal.clear() and wait(), with nothing in between.
Block ==
    /\ pc \in {"bin", "aux", "conf"} /\ ~waiting /\ ~Ready
    /\ waiting' = TRUE
    /\ signal' = FALSE
    /\ UNCHANGED <<pc, vi, round, est, already_decided, values, receiver, bin_values, coin, env, got, sent>>

\* gevent resumes the waiter of an event that is set, some time later.
Wake ==
    /\ waiting /\ signal
    /\ waiting' = FALSE
    /\ UNCHANGED <<pc, vi, round, est, already_decided, values, signal, receiver, bin_values, coin, env, got, sent>>

\* The beginning of a round.
SendEst(r, v) == sent' = IF est_sent(r, v) THEN sent ELSE Append(sent, Est(r, v))

Input(v) ==
    /\ pc = "input"
    /\ pc' = "bin" /\ vi' = v /\ est' = v
    /\ SendEst(0, v)
    /\ UNCHANGED <<waiting, round, already_decided, values, signal, receiver, bin_values, coin, env, got>>

SendAux(w) ==
    /\ pc = "bin" /\ ~waiting
    /\ w \in bin_values[round]
    /\ pc' = "aux"
    /\ sent' = Append(sent, Aux(round, w))
    /\ UNCHANGED <<waiting, vi, round, est, already_decided, values, signal, receiver, bin_values, coin, env, got>>

\* conf_sent is of this round, so its test never fails.
CompleteAux ==
    /\ pc = "aux" /\ ~waiting /\ Ready
    /\ pc' = "conf"
    /\ sent' = Append(sent, Conf(round, bin_values[round]))
    /\ UNCHANGED <<waiting, vi, round, est, already_decided, values, signal, receiver, bin_values, coin, env, got>>

CompleteConf(vs) ==
    /\ pc = "conf" /\ ~waiting /\ vs # {}
    /\ vs = ConfResult
    /\ pc' = "coin"
    /\ values' = [values EXCEPT ![round] = vs]
    /\ UNCHANGED <<waiting, vi, round, est, already_decided, signal, receiver, bin_values, coin, env, got, sent>>

\* set_new_estimate with values vs and coin s.
NewEstimate(vs, s) == IF vs = Bits THEN s ELSE CHOOSE v \in vs : TRUE
Decides(vs, s) == vs = {s} /\ already_decided = None
Abandons(vs, s) == vs = {s} /\ already_decided = s

NextRound ==
    /\ pc = "coin"
    /\ LET vs == values[round]
           s == coin[round]
       IN  /\ ~Abandons(vs, s)
           /\ est' = NewEstimate(vs, s)
           /\ already_decided' = IF Decides(vs, s) THEN s ELSE already_decided
    /\ round' = round + 1
    /\ IF round + 1 \in Round
         THEN pc' = "bin" /\ SendEst(round + 1, est')
         ELSE pc' = "beyond" /\ UNCHANGED sent
    /\ UNCHANGED <<waiting, vi, values, signal, receiver, bin_values, coin, env, got>>

\* AbandonedNodeError: the receive greenlet is killed, if it has not failed, and
\* the function returns.
Quit ==
    /\ pc = "coin"
    /\ Abandons(values[round], coin[round])
    /\ pc' = "quit"
    /\ receiver' = IF receiver = "up" THEN "killed" ELSE receiver
    /\ UNCHANGED <<waiting, vi, round, est, already_decided, values, signal, bin_values, coin, env, got, sent>>

MainStep ==
    \/ Wake \/ Block \/ CompleteAux \/ NextRound \/ Quit
    \/ \E w \in Bits : SendAux(w)
    \/ \E vs \in SUBSET Bits : CompleteConf(vs)

Next ==
    \/ \E m \in env \cup Elements(sent) : ReceiveRedundant(m) \/ ReceiveEst(m) \/ ReceiveVote(m)
    \/ \E m \in Malformed : ReceiveMalformed(m)
    \/ \E v \in Bits : Input(v)
    \/ MainStep

Spec == Init /\ [][Next]_vars

-----------------------------------------------------------------------------
\* Properties

TypeOK ==
    /\ pc \in {"input", "bin", "aux", "conf", "coin", "quit", "beyond"}
    /\ waiting \in BOOLEAN /\ signal \in BOOLEAN /\ receiver \in {"up", "failed", "killed"}
    /\ vi \in Bits \cup {None} /\ est \in Bits \cup {None} /\ already_decided \in Bits \cup {None}
    /\ round \in 0 .. MaxRound + 1
    /\ bin_values \in [Round -> SUBSET Bits] /\ values \in [Round -> SUBSET Bits]
    /\ got \subseteq env \cup Elements(sent)
    /\ waiting => pc \in {"bin", "aux", "conf"}
    /\ pc = "quit" => receiver # "up"

\* No wake-up is lost: while the main greenlet sleeps on a clear event the loop
\* it is in has nothing to go on with (lines 55, 184 and 214 of the code clear
\* the event only after a failed test, and every tally that grows sets it).
NoLostWakeup == waiting /\ ~signal => ~Ready

\* A node never broadcasts a message twice, so its peers' receive greenlets do
\* not die of RedundantMessageError because of it; EST in particular is sent by
\* both greenlets, which share est_sent.
SendsOnce == \A i, j \in DOMAIN sent : sent[i] = sent[j] => i = j

\* The node behaves like a node of BinaryAgreement all of whose peers may be
\* faulty, also when one of them has ended its receive greenlet.
Ended == IF receiver = "failed" THEN {<<self, "agreement">>} ELSE {}
Only(x) == [n \in {self} |-> x]
Protocol == INSTANCE BinaryAgreement WITH
    Faulty <- Node \ {self}, FaultyMsg <- UNION EnvMsgs, Provoked <- {<<self, "agreement">>}, ended <- Ended,
    pc <- Only(pc), vi <- Only(vi), round <- Only(round), est <- Only(est),
    already_decided <- Only(already_decided), bin_values <- Only(bin_values),
    values <- Only(values), msgs <- Elements(sent)
ImplementsProtocol == Protocol!Spec
=============================================================================
