------------------------------ MODULE OldParty ------------------------------
(***************************************************************************)
(* honestParty and includeTransaction of misc/includeTransaction.py on top *)
(* of OldBroadcast, for the proposal of the one sender of that module.  A  *)
(* party gets the proposals and the common subset, broadcasts its share of *)
(* the key of each selected one, and combines N - 2t shares.  Shares go    *)
(* through the same channels as the messages of the broadcast; they may be *)
(* there before the party has the proposals.                               *)
(*                                                                         *)
(* acs, which the repository no longer has, is external: it selects the    *)
(* proposal, and returns at a party some time after the proposal arrived.  *)
(* That no party gets there before the broadcast is over everywhere takes  *)
(* nothing away, as the two have no other state in common.                 *)
(***************************************************************************)
EXTENDS OldBroadcast

VARIABLES
    receivedProposals,  \* includeTransaction has returned
    encCounter,         \* the nodes whose shares have arrived
    doneCombination,
    lock,               \* locks[Leader] holds the key
    recovered           \* prepareTx is through

party == <<receivedProposals, encCounter, doneCombination, lock, recovered>>
partyVars == <<vars, party>>

ENC_THRESHOLD == N - 2 * t

PartyInit ==
    /\ Init
    /\ receivedProposals = [n \in Honest |-> FALSE]
    /\ encCounter = [n \in Honest |-> {}]
    /\ doneCombination = [n \in Honest |-> FALSE]
    /\ lock = [n \in Honest |-> FALSE]
    /\ recovered = [n \in Honest |-> FALSE]

\* What the listeners pass on to multiSigBr.
Broadcasting(n, p) == Receive(n, p) /\ UNCHANGED party

\* Seeded bug: only the share that completes the threshold combines.
CombineOnArrival(n, shares, proposals) ==
    IF shares # encCounter[n] /\ Cardinality(shares) = ENC_THRESHOLD /\ proposals
    THEN doneCombination' = [doneCombination EXCEPT ![n] = TRUE] /\ lock' = [lock EXCEPT ![n] = TRUE]
    ELSE UNCHANGED <<doneCombination, lock>>

\* probe, with the shares and the flag it finds.
Probe(n, shares, proposals) ==
    IF Cardinality(shares) >= ENC_THRESHOLD /\ proposals /\ ~lock[n] /\ ~doneCombination[n]
    THEN doneCombination' = [doneCombination EXCEPT ![n] = TRUE] /\ lock' = [lock EXCEPT ![n] = TRUE]
    ELSE UNCHANGED <<doneCombination, lock>>

\* No message of the broadcast is in transit any more.
BroadcastOver == {chan[p][n] : p \in Node, n \in Honest} \subseteq {<<>>, <<"o">>}

\* The shares of a faulty node come or do not.
ShareArrives(n, p) ==
    \/ /\ chan[p][n] # <<>> /\ Head(chan[p][n]) = "o"
       /\ Consume(p, n, <<>>)
    \/ /\ p \in faulty \ encCounter[n] /\ BroadcastOver
       /\ UNCHANGED chan

ReceiveShare(n, p) ==
    /\ ShareArrives(n, p)
    /\ encCounter' = [encCounter EXCEPT ![n] = @ \cup {p}]
    /\ Probe(n, encCounter'[n], receivedProposals[n])
    /\ UNCHANGED <<faulty, signed, opinions, readyCounter, readySent, output, receivedProposals, recovered>>

\* includeTransaction returns; probe, then the party's own share.
Include(n) ==
    /\ BroadcastOver /\ output[n] /\ ~receivedProposals[n]
    /\ receivedProposals' = [receivedProposals EXCEPT ![n] = TRUE]
    /\ Probe(n, encCounter[n], TRUE)
    /\ chan' = [chan EXCEPT ![n] = [r \in Honest |-> Append(@[r], "o")]]
    /\ UNCHANGED <<faulty, signed, opinions, readyCounter, readySent, output, encCounter, recovered>>

PrepareTx(n) ==
    /\ receivedProposals[n] /\ ~recovered[n] /\ lock[n]
    /\ lock' = [lock EXCEPT ![n] = FALSE]
    /\ recovered' = [recovered EXCEPT ![n] = TRUE]
    /\ UNCHANGED <<vars, receivedProposals, encCounter, doneCombination>>

PartyNext ==
    \E n \in Honest :
        \/ \E p \in Node : Broadcasting(n, p) \/ ReceiveShare(n, p)
        \/ Include(n)
        \/ PrepareTx(n)

PartySpec == PartyInit /\ [][PartyNext]_partyVars

-----------------------------------------------------------------------------
\* When everything has arrived, a party that has the proposals has the batch,
\* whether the last share it needed came before the proposals or after them,
\* and all parties have it or none.  No other key has been put into the lock
\* after prepareTx emptied it (line 289): it would be taken for that of the
\* next epoch.
NothingLeft == Settled /\ \A n \in Honest : (output[n] => receivedProposals[n]) /\ (lock[n] => recovered[n])
AllRecover ==
    NothingLeft => \A n, m \in Honest : recovered[n] = receivedProposals[m] /\ ~lock[n]
=============================================================================
