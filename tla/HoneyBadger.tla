---------------------------- MODULE HoneyBadger ----------------------------
(***************************************************************************)
(* honeybadgerbft.core.honeybadger and honeybadger_block: the rounds of    *)
(* HoneyBadgerBFT.run at every honest node.  A node proposes, encrypted,   *)
(* the first transaction of its buffer, takes what the common subset       *)
(* selects, and only then broadcasts its decryption shares; the first      *)
(* F + 1 share lists that come open the block.  Messages carry their round *)
(* and wait in a queue per round until the node gets there.                *)
(*                                                                         *)
(* The common subset is taken by what SubsetSpec promises.  A ciphertext   *)
(* is the transaction in it, Malformed if the checks of deserialize_UVW    *)
(* and verify_ciphertext reject it, or Undecryptable if they do not but    *)
(* the AES part cannot be decrypted; a share list is the set of proposals  *)
(* for which its share verifies.                                           *)
(***************************************************************************)
EXTENDS Integers, Sequences, FiniteSets

CONSTANTS
    N, F, B,    \* nodes, faults tolerated, batch size
    MaxRound,   \* rounds that are run (3 in the code, line 142)
    Faulty,     \* the nodes that do not follow the code
    Tx,         \* transactions
    Clients,    \* Clients[n]: the transactions that may be submitted to n
    FaultyProposal, \* FaultyProposal[r]: what faulty nodes may propose in round r
    FaultyMsg,  \* FaultyMsg[n]: what faulty nodes may send to n, on the share channel
    Malformed, Undecryptable, Garbage, None

Node == 0..(N - 1)
Honest == Node \ Faulty
Round == 0..(MaxRound - 1)
Proposal == Tx \cup {Malformed, Undecryptable}
Nothing == [j \in Node |-> None]

\* What _send puts on the wire: the round, and for the shares a tag of
\* BroadcastTag.  "Unknown" stands for any tag that is none of its members,
\* BadRound for any round below 0.
BadRound == -1
Msg == [from : Node, round : Round \cup {BadRound}, tag : {"TPKE", "Unknown"}, valid : SUBSET Node]

Elements(s) == {s[i] : i \in DOMAIN s}

\* The elements of a set of numbers, smallest first.
InOrder(S) == [i \in 1..Cardinality(S) |-> CHOOSE j \in S : Cardinality({k \in S : k <= j}) = i]

ASSUME HoneyBadgerAssumption ==
    /\ N \in Nat /\ F \in Nat /\ F < N /\ B \in Nat \ {0} /\ MaxRound \in Nat \ {0}
    /\ Faulty \subseteq Node
    /\ Clients \in [Honest -> SUBSET Tx]
    /\ FaultyProposal \in [Round -> SUBSET Proposal]
    /\ FaultyMsg \in [Honest -> SUBSET {m \in Msg : m.from \in Faulty}]
    /\ None \notin Proposal \cup Seq(Msg) /\ {Malformed, Undecryptable} \cap Tx = {}

VARIABLES
    pc,         \* "start" at the top of the loop, "acs", "shares", "finished", "failed"
    round,      \* self.round
    buffer,     \* self.transaction_buffer
    listener,   \* self._recv_thread: "up" or "failed"
    queues,     \* self._per_round_recv: a queue per round, None where there is none
    receiver,   \* receiver[n][r]: the broadcast_receiver_loop of round r
    tpke,       \* tpke[n][r]: the queue tpke_recv of round r
    received,   \* shares_received of the current round
    blocks,     \* blocks[n][r]: what _run_round returned for round r
    proposal,   \* proposal[r][j]: what j gave to the common subset of round r
    subset,     \* subset[r]: what the common subset of round r returns
    net         \* net[n]: messages on their way to n

vars == <<pc, round, buffer, listener, queues, receiver, tpke, received, blocks, proposal, subset, net>>

Init ==
    /\ pc = [n \in Honest |-> "start"]
    /\ round = [n \in Honest |-> 0]
    /\ buffer = [n \in Honest |-> <<>>]
    /\ listener = [n \in Honest |-> "up"]
    /\ queues = [n \in Honest |-> [r \in Round |-> None]]
    /\ receiver = [n \in Honest |-> [r \in Round |-> "none"]]
    /\ tpke = [n \in Honest |-> [r \in Round |-> <<>>]]
    /\ received = [n \in Honest |-> {}]
    /\ blocks = [n \in Honest |-> <<>>]
    /\ proposal = [r \in Round |-> Nothing]
    /\ subset = [r \in Round |-> Nothing]
    /\ net = FaultyMsg

-----------------------------------------------------------------------------
\* Clients and the network

Submit(n, t) ==
    /\ t \in Clients[n] \ Elements(buffer[n])
    /\ buffer' = [buffer EXCEPT ![n] = Append(@, t)]
    /\ UNCHANGED <<listener, pc, round, queues, receiver, tpke, received, blocks, proposal, subset, net>>

\* The greenlet _recv of run: it queues a message for its round, creating the
\* queue if there is none; the assertion on the round is on the way there.
Accepted(n, m) == m.round >= round[n] \/ (m.round \in Round /\ queues[n][m.round] # None)

Deliver(n, m) ==
    /\ listener[n] = "up" /\ m \in net[n]
    /\ Accepted(n, m)
    /\ net' = [net EXCEPT ![n] = @ \ {m}]
    /\ queues' = [queues EXCEPT ![n][m.round] = IF @ = None THEN <<m>> ELSE Append(@, m)]
    /\ UNCHANGED <<listener, pc, round, buffer, receiver, tpke, received, blocks, proposal, subset>>

\* The assertion fails, nobody catches it, and the node hears nothing any more.
Refuse(n, m) ==
    /\ listener[n] = "up" /\ m \in net[n]
    /\ ~Accepted(n, m)
    /\ net' = [net EXCEPT ![n] = @ \ {m}]
    /\ listener' = [listener EXCEPT ![n] = "failed"]
    /\ UNCHANGED <<pc, round, buffer, queues, receiver, tpke, received, blocks, proposal, subset>>

\* broadcast_receiver of round r: an unknown tag ends the loop.
Route(n, r) ==
    /\ receiver[n][r] = "up"
    /\ queues[n][r] # <<>>
    /\ LET m == Head(queues[n][r]) IN
         /\ queues' = [queues EXCEPT ![n][r] = Tail(@)]
         /\ \/ /\ m.tag = "TPKE"
               /\ tpke' = [tpke EXCEPT ![n][r] = Append(@, m)]
               /\ UNCHANGED receiver
            \/ /\ m.tag # "TPKE"
               /\ receiver' = [receiver EXCEPT ![n][r] = "failed"]
               /\ UNCHANGED tpke
    /\ UNCHANGED <<listener, pc, round, buffer, received, blocks, proposal, subset, net>>

-----------------------------------------------------------------------------
\* One round

\* The transactions that are selected, of which only the first is proposed.
Selected(n) == SubSeq(buffer[n], 1, IF Len(buffer[n]) < B THEN Len(buffer[n]) ELSE B)
ToPropose(n) == Selected(n)[1]

OpenQueue(n) == [queues EXCEPT ![n][round[n]] = IF @ = None THEN <<>> ELSE @]

Share(n, r) == [from |-> n, round |-> r, tag |-> "TPKE", valid |-> Node]

\* Seeded bugs: the shares go out with the proposal; the share lists of the
\* last round are kept.
SharesAtOnce(n) ==
    /\ pc[n] = "start"
    /\ Selected(n) # <<>>
    /\ queues' = OpenQueue(n)
    /\ receiver' = [receiver EXCEPT ![n][round[n]] = "up"]
    /\ proposal' = [proposal EXCEPT ![round[n]][n] = ToPropose(n)]
    /\ received' = [received EXCEPT ![n] = {}]
    /\ net' = [q \in Honest |-> net[q] \cup {Share(n, round[n])}]
    /\ pc' = [pc EXCEPT ![n] = "acs"]
    /\ UNCHANGED <<listener, round, buffer, tpke, blocks, subset>>
KeepShares(n) ==
    /\ pc[n] = "start"
    /\ Selected(n) # <<>>
    /\ queues' = OpenQueue(n)
    /\ receiver' = [receiver EXCEPT ![n][round[n]] = "up"]
    /\ proposal' = [proposal EXCEPT ![round[n]][n] = ToPropose(n)]
    /\ pc' = [pc EXCEPT ![n] = "acs"]
    /\ UNCHANGED <<listener, round, buffer, tpke, received, blocks, subset, net>>

StartRound(n) ==
    /\ pc[n] = "start"
    /\ Selected(n) # <<>>
    /\ queues' = OpenQueue(n)
    /\ receiver' = [receiver EXCEPT ![n][round[n]] = "up"]
    /\ proposal' = [proposal EXCEPT ![round[n]][n] = ToPropose(n)]
    /\ received' = [received EXCEPT ![n] = {}]
    /\ pc' = [pc EXCEPT ![n] = "acs"]
    /\ UNCHANGED <<listener, round, buffer, tpke, blocks, subset, net>>

\* tx_to_send[0] of an empty selection raises IndexError, which ends run.
NothingToSend(n) ==
    /\ pc[n] = "start"
    /\ Selected(n) = <<>>
    /\ queues' = OpenQueue(n)
    /\ pc' = [pc EXCEPT ![n] = "failed"]
    /\ UNCHANGED <<listener, round, buffer, receiver, tpke, received, blocks, proposal, subset, net>>

\* Seeded bug: a node that has gone on does not answer for the round.
ServingNow(r) == {q \in Honest : proposal[r][q] # None /\ round[q] = r}

\* Nobody closes a round: whoever has entered it goes on answering in it.
Serving(r) == {q \in Honest : proposal[r][q] # None}

\* The common subset: at least N - F proposals, the same for every node, fixed
\* when the first node gets it.  Faulty nodes propose what they like.
Choices(r) ==
    {v \in [Node -> Proposal \cup {None}] :
        /\ \A q \in Node : v[q] \in (IF q \in Honest THEN {proposal[r][q]} ELSE FaultyProposal[r]) \cup {None}
        /\ Cardinality({j \in Node : v[j] # None}) >= N - F}

\* The common subset returns at n.  decrypt_share fails an assertion on a
\* ciphertext that does not verify; otherwise the shares go to everybody.
AcsOutput(n) ==
    LET r == round[n] IN
    /\ pc[n] = "acs"
    /\ Cardinality(Serving(r) \cup Faulty) >= N - F
    /\ IF subset[r] = Nothing
       THEN \E v \in Choices(r) : subset' = [subset EXCEPT ![r] = v]
       ELSE UNCHANGED subset
    /\ \/ /\ Malformed \in Elements(subset'[r])
          /\ pc' = [pc EXCEPT ![n] = "failed"]
          /\ UNCHANGED net
       \/ /\ Malformed \notin Elements(subset'[r])
          /\ pc' = [pc EXCEPT ![n] = "shares"]
          /\ net' = [q \in Honest |-> net[q] \cup {Share(n, r)}]
    /\ UNCHANGED <<listener, round, buffer, queues, receiver, tpke, received, blocks, proposal>>

Chosen(r) == {j \in Node : subset[r][j] # None}

\* Seeded bug: shares are combined without verification.
NoVerification(r, got) == TRUE

\* combine_shares verifies every share it is given for an entry; a share of
\* another round belongs to another ciphertext.
VerifyShares(r, got) == \A m \in got : m.round = r /\ Chosen(r) \subseteq m.valid

\* Every entry's shares combine and its AES part decrypts.
Opens(r, got) == VerifyShares(r, got) /\ Undecryptable \notin Elements(subset[r])

\* The decryptions, in the order of the proposals: bytes, whatever was
\* submitted; without the verification a wrong share would yield garbage.
Decryptions(r, got) ==
    LET entry(j) == IF \A m \in got : j \in m.valid THEN subset[r][j] ELSE Garbage
        chosen == InOrder(Chosen(r))
    IN  [i \in DOMAIN chosen |-> [bytes |-> entry(chosen[i])]]

\* Committed transactions leave the buffer if they are `in new_tx'.
Remaining(n, new_tx) ==
    LET kept == InOrder({i \in DOMAIN buffer[n] : buffer[n][i] \notin Elements(new_tx)})
    IN  [i \in DOMAIN kept |-> buffer[n][kept[i]]]

EndRound(n, got) ==
    LET new_tx == Decryptions(round[n], got) IN
    /\ blocks' = [blocks EXCEPT ![n] = Append(@, new_tx)]
    /\ buffer' = [buffer EXCEPT ![n] = Remaining(n, new_tx)]
    /\ round' = [round EXCEPT ![n] = @ + 1]
    /\ pc' = [pc EXCEPT ![n] = IF round[n] + 1 >= MaxRound THEN "finished" ELSE "start"]

ShareThreshold == F + 1

\* shares_received, to which a second list of the same node adds nothing.
Collected(n, m) ==
    IF \E s \in received[n] : s.from = m.from THEN received[n] ELSE received[n] \cup {m}

ReceiveShares(n) ==
    LET r == round[n]
        got == Collected(n, Head(tpke[n][r])) IN
    /\ pc[n] = "shares"
    /\ tpke[n][r] # <<>>
    /\ tpke' = [tpke EXCEPT ![n][r] = Tail(@)]
    /\ received' = [received EXCEPT ![n] = got]
    /\ \/ /\ Cardinality(got) < ShareThreshold
          /\ UNCHANGED <<pc, round, buffer, blocks>>
       \/ /\ Cardinality(got) >= ShareThreshold
          /\ Opens(r, got)
          /\ EndRound(n, got)
       \/ /\ Cardinality(got) >= ShareThreshold
          /\ ~Opens(r, got)
          /\ pc' = [pc EXCEPT ![n] = "failed"]
          /\ UNCHANGED <<round, buffer, blocks>>
    /\ UNCHANGED <<listener, queues, receiver, proposal, subset, net>>

Next == \E n \in Honest :
    \/ \E t \in Tx : Submit(n, t)
    \/ \E m \in net[n] : Deliver(n, m) \/ Refuse(n, m)
    \/ \E r \in Round : Route(n, r)
    \/ StartRound(n)
    \/ NothingToSend(n)
    \/ AcsOutput(n)
    \/ ReceiveShares(n)

Spec == Init /\ [][Next]_vars

\* Honest messages arrive and the greenlets of a node run.
FairSpec ==
    /\ Spec
    /\ \A n \in Honest :
         /\ WF_vars(StartRound(n) \/ NothingToSend(n))
         /\ WF_vars(ReceiveShares(n))
         /\ WF_vars(\E r \in Round : Route(n, r))
         /\ WF_vars(\E q \in Honest, r \in Round : Deliver(n, Share(q, r)))

-----------------------------------------------------------------------------
\* Properties

TypeOK ==
    /\ pc \in [Honest -> {"start", "acs", "shares", "finished", "failed"}]
    /\ round \in [Honest -> 0..MaxRound]
    /\ listener \in [Honest -> {"up", "failed"}]
    /\ \A n \in Honest : Elements(buffer[n]) \subseteq Clients[n]
    /\ \A n \in Honest, r \in Round :
         /\ queues[n][r] = None \/ \A m \in Elements(queues[n][r]) : m \in Msg /\ m.round = r
         /\ queues[n][r] = None => r > round[n] \/ (r = round[n] /\ pc[n] = "start")
         /\ receiver[n][r] \in {"none", "up", "failed"}
         /\ \A m \in Elements(tpke[n][r]) : m \in Msg /\ m.round = r /\ m.tag = "TPKE"
    /\ \A n \in Honest : received[n] \subseteq Msg /\ net[n] \subseteq Msg
    /\ \A n \in Honest : Len(blocks[n]) = round[n]
    /\ \A r \in Round : {proposal[r], subset[r]} \subseteq [Node -> Proposal \cup {None}]

\* The rounds build one ledger: blocks are the same at all nodes, in the same
\* order, complete, and each is fixed before the first node opens it.  One
\* node's F + 1 shares may come from other nodes than another's, and a wrong
\* share must not make their blocks differ.
Decided == {r \in Round : subset[r] # Nothing}
Ledger == INSTANCE LedgerSpec WITH
    Value <- Proposal,
    ledger <- [i \in 1..Cardinality(Decided) |-> subset[i - 1]],
    committed <- blocks
ImplementsLedger == Ledger!Spec

\* Where a message can be from the moment it is sent.
Released(r) ==
    {m \in UNION {net[n] \cup Elements(tpke[n][r]) \cup received[n] \cup
                  (IF queues[n][r] = None THEN {} ELSE Elements(queues[n][r])) : n \in Honest} :
        m.from \in Honest /\ m.round = r}

\* Nobody can open a proposal while it can still be left out: decryption
\* shares of honest nodes exist only once the subset of their round is fixed
\* (the shares are computed after acs_out, honeybadger_block lines 56-74).
SharesAfterChoice == \A r \in Round : Released(r) # {} => subset[r] # Nothing

\* run ends early only for one of four reasons: nothing was submitted, a faulty
\* node's ciphertext that does not verify is part of the block, one that cannot be
\* decrypted is, or one of the first F + 1 share lists is a faulty node's and
\* wrong.  In particular shares that are late, early or of another round never
\* spoil a block.
FailureHasCause ==
    \A n \in Honest : pc[n] = "failed" =>
        \/ proposal[round[n]][n] = None
        \/ Malformed \in Elements(subset[round[n]])
        \/ Undecryptable \in Elements(subset[round[n]])
        \/ \E m \in received[n] : m.from \in Faulty /\ m.round = round[n] /\ ~(Chosen(round[n]) \subseteq m.valid)

\* No run, and no greenlet that feeds it, has been ended by an exception.
NoFailure ==
    \A n \in Honest :
        pc[n] # "failed" /\ listener[n] = "up" /\ \A r \in Round : receiver[n][r] # "failed"

\* Nobody is for ever inside a common subset in which N - F honest nodes take
\* part.  The common subset gives that if its agreements end (CommonSubset's
\* Returns), which those of this code need not.
Stuck(n) == pc[n] = "acs" /\ Cardinality(Serving(round[n])) >= N - F
SubsetsEnd == []<>(\A n \in Honest : ~Stuck(n))

\* Without failures, and if the common subsets end, every honest node completes
\* all rounds, however far behind the others it is: they have gone on to later
\* rounds, where they still answer for the earlier ones.
Progress == SubsetsEnd /\ []NoFailure => <>(\A n \in Honest : pc[n] = "finished")

\* Nothing FairSpec asks for is left to do, no honest share is under way or
\* queued where its node takes it, and no common subset has yet to end.
AtRest ==
    \A n \in Honest :
        /\ pc[n] # "start" /\ ~Stuck(n)
        /\ pc[n] = "shares" => tpke[n][round[n]] = <<>>
        /\ \A r \in Round : receiver[n][r] = "up" => queues[n][r] = <<>>
        /\ \A q \in Honest, r \in Round : Share(q, r) \notin net[n]

\* Rounds at rest are over everywhere if nothing failed: no share gets lost that
\* arrives before its receiver is in the round, or long after its sender was.
RestFinished == AtRest /\ NoFailure => \A n \in Honest : pc[n] = "finished"

\* "Remove all of the new transactions from the buffer" (honeybadger, line
\* 138): when a round has ended none of its transactions is in the buffer.
NewTransactionsRemoved ==
    \A n \in Honest : pc[n] \in {"start", "finished"} /\ blocks[n] # <<>> =>
        \A t \in Elements(buffer[n]) : [bytes |-> t] \notin Elements(blocks[n][Len(blocks[n])])
=============================================================================
