---------------------------- MODULE CommonSubset ----------------------------
(***************************************************************************)
(* The asynchronous common subset at all honest nodes, honeybadgerbft/     *)
(* core/commonsubset.py.  Each node has 2N greenlets, one per broadcast    *)
(* and one per agreement, and a main greenlet that joins them.             *)
(*                                                                         *)
(* Broadcasts and agreements appear by what they promise (BroadcastSpec,   *)
(* AgreementSpec): a greenlet's blocking call returns when the instance    *)
(* may finish, or decide, at this node.  That a broadcast ends alike at    *)
(* all honest nodes supposes that no faulty node has broken a receive      *)
(* greenlet of it (ReliableBroadcast's ReceiveBroken).                     *)
(***************************************************************************)
EXTENDS Integers, FiniteSets

CONSTANTS
    N, Faulty, F,
    Value,      \* what is broadcast
    Failure,    \* the verdict of a broadcast that fails its assertion
    None

Node == 0 .. N - 1
Honest == Node \ Faulty

\* Seeded bugs: one agreement too few, or waiting for all of them.
FewerOnes == N - F - 1
AllOnes == N

Enough == N - F

ASSUME SubsetNodes == N \in Nat \ {0} /\ F \in 0 .. N /\ Faulty \subseteq Node /\ Cardinality(Faulty) <= F

ASSUME SubsetValues == Failure \notin Value /\ None \notin Value \cup {Failure} \cup {0, 1}

VARIABLES
    verdict,        \* how each broadcast ends where it ends
    r_threads,      \* per node and broadcast: "wait", "done", "dead" or "killed"
    rbc_values,
    proposal,       \* what was put to aba_in[j]; aba_inputted[j] if anything
    aba_values,     \* None while the greenlet waits (the code's list has 0 there)
    pc,             \* the main greenlet: "joinall", "collect", "returned", "failed"
    at              \* j in its final loop

vars == <<verdict, r_threads, rbc_values, proposal, aba_values, pc, at>>

Init ==
    /\ verdict \in [Node -> Value \cup {Failure}]
    /\ \A j \in Honest : verdict[j] # Failure
    /\ r_threads = [n \in Honest |-> [j \in Node |-> "wait"]]
    /\ rbc_values = [n \in Honest |-> [j \in Node |-> None]]
    /\ proposal = [n \in Honest |-> [j \in Node |-> None]]
    /\ aba_values = [n \in Honest |-> [j \in Node |-> None]]
    /\ pc = [n \in Honest |-> "joinall"]
    /\ at = [n \in Honest |-> 0]

\* Seeded bug: a second input.
VoteAgain(n, j) ==
    /\ r_threads[n][j] = "wait"
    /\ verdict[j] # Failure
    /\ r_threads' = [r_threads EXCEPT ![n][j] = "done"]
    /\ rbc_values' = [rbc_values EXCEPT ![n][j] = verdict[j]]
    /\ proposal' = [proposal EXCEPT ![n][j] = 1]
    /\ UNCHANGED <<verdict, aba_values, pc, at>>

\* rbc_out[j]() returns: the value is kept and voted for, unless 0 was voted.
RecvRbc(n, j) ==
    /\ r_threads[n][j] = "wait"
    /\ verdict[j] # Failure
    /\ r_threads' = [r_threads EXCEPT ![n][j] = "done"]
    /\ rbc_values' = [rbc_values EXCEPT ![n][j] = verdict[j]]
    /\ proposal' = [proposal EXCEPT ![n][j] = IF @ = None THEN 1 ELSE @]
    /\ UNCHANGED <<verdict, aba_values, pc, at>>

\* rbc_out[j]() raises the AssertionError that ended the broadcast.
RbcFails(n, j) ==
    /\ r_threads[n][j] = "wait"
    /\ verdict[j] = Failure
    /\ r_threads' = [r_threads EXCEPT ![n][j] = "dead"]
    /\ UNCHANGED <<verdict, rbc_values, proposal, aba_values, pc, at>>

\* The decisions the agreement on j may have taken.
MayDecide(j, v) ==
    /\ \E q \in Honest : proposal[q][j] = v
    /\ \A q \in Honest : aba_values[q][j] \in {None, v}

Ones(values) == {j \in Node : values[j] = 1}

\* aba_out[j]() returns v; once N - F agreements said 1, all others get a 0.
RecvAba(n, j, v) ==
    /\ aba_values[n][j] = None
    /\ proposal[n][j] # None
    /\ MayDecide(j, v)
    /\ aba_values' = [aba_values EXCEPT ![n][j] = v]
    /\ proposal' =
          IF Cardinality(Ones(aba_values'[n])) >= Enough
            THEN [proposal EXCEPT ![n] = [k \in Node |-> IF @[k] = None THEN 0 ELSE @[k]]]
            ELSE proposal
    /\ UNCHANGED <<verdict, r_threads, rbc_values, pc, at>>

\* joinall returns, and the assertion on the number of ones is evaluated.
JoinAll(n) ==
    /\ pc[n] = "joinall"
    /\ \A j \in Node : aba_values[n][j] # None
    /\ pc' = [pc EXCEPT ![n] = IF Cardinality(Ones(aba_values[n])) >= N - F THEN "collect" ELSE "failed"]
    /\ UNCHANGED <<verdict, r_threads, rbc_values, proposal, aba_values, at>>

Advance(n) ==
    /\ at' = [at EXCEPT ![n] = @ + 1]
    /\ pc' = [pc EXCEPT ![n] = IF at[n] = N - 1 THEN "returned" ELSE @]

\* Seeded bug: the loop does not wait for the greenlet.
TakeRbc(n) ==
    /\ pc[n] = "collect"
    /\ aba_values[n][at[n]] = 1
    /\ Advance(n)
    /\ UNCHANGED <<verdict, r_threads, rbc_values, proposal, aba_values>>

\* One turn of the final loop for an accepted broadcast: join its greenlet.
JoinRbc(n) ==
    /\ pc[n] = "collect"
    /\ aba_values[n][at[n]] = 1
    /\ r_threads[n][at[n]] # "wait"
    /\ IF rbc_values[n][at[n]] # None
         THEN Advance(n)
         ELSE /\ pc' = [pc EXCEPT ![n] = "failed"]
              /\ UNCHANGED at
    /\ UNCHANGED <<verdict, r_threads, rbc_values, proposal, aba_values>>

\* One turn for a rejected one: end its greenlet and forget what it received.
KillRbc(n) ==
    /\ pc[n] = "collect"
    /\ aba_values[n][at[n]] = 0
    /\ r_threads' = [r_threads EXCEPT ![n][at[n]] = IF @ = "wait" THEN "killed" ELSE @]
    /\ rbc_values' = [rbc_values EXCEPT ![n][at[n]] = None]
    /\ Advance(n)
    /\ UNCHANGED <<verdict, proposal, aba_values>>

Next ==
    \E n \in Honest :
        \/ \E j \in Node : RecvRbc(n, j)
        \/ \E j \in Node : RbcFails(n, j)
        \/ \E j \in Node, v \in {0, 1} : RecvAba(n, j, v)
        \/ JoinAll(n)
        \/ JoinRbc(n)
        \/ KillRbc(n)

Spec == Init /\ [][Next]_vars

\* gevent runs every greenlet that can run.  A broadcast ends at every honest
\* node if its leader is honest or it ended at one of them.
Ends(j) == j \in Honest \/ \E q \in Honest : r_threads[q][j] \in {"done", "dead"}
FairSpec ==
    /\ Spec
    /\ \A n \in Honest :
        /\ WF_vars(JoinAll(n) \/ JoinRbc(n) \/ KillRbc(n))
        /\ WF_vars(\E j \in Node : Ends(j) /\ (RecvRbc(n, j) \/ RbcFails(n, j)))
-----------------------------------------------------------------------------
\* The type invariant.
TypeOK ==
    /\ verdict \in [Node -> Value \cup {Failure}]
    /\ r_threads \in [Honest -> [Node -> {"wait", "done", "dead", "killed"}]]
    /\ rbc_values \in [Honest -> [Node -> Value \cup {None}]]
    /\ proposal \in [Honest -> [Node -> {0, 1, None}]]
    /\ aba_values \in [Honest -> [Node -> {0, 1, None}]]
    /\ pc \in [Honest -> {"joinall", "collect", "returned", "failed"}]
    /\ at \in [Honest -> 0 .. N]

\* The assertions of lines 55 and 61 never fail: N - F agreements end with 1
\* although nodes vote 0 at different times, and a broadcast that was accepted
\* is one that returns a value, here too.
AssertionsHold == \A n \in Honest : pc[n] # "failed"

\* A greenlet that input its 1 and one that is about to input 0 for the same
\* agreement never both do (its queue has one place), nor does a node use an
\* agreement in any other way than AgreementSpec allows.
Agreement(j) ==
    INSTANCE AgreementSpec
        WITH proposal <- [n \in Honest |-> proposal[n][j]],
             decision <- [n \in Honest |-> aba_values[n][j]]

UsesAgreements == [][\A j \in Node : [Agreement(j)!Next]_(Agreement(j)!specVars)]_vars

\* commonsubset() implements its abstract specification.
Subset == INSTANCE SubsetSpec
            WITH proposal <- verdict,
                 output <- [n \in Honest |-> IF pc[n] = "returned" THEN rbc_values[n]
                                                                   ELSE [j \in Node |-> None]]

\* All honest nodes return the same N - F or more proposals as broadcast, however the
\* broadcasts and agreements end in different orders at different nodes.
ImplementsSubset == Subset!Spec

\* No agreement that all honest nodes have given an input is for ever without its
\* decision.  The design asks that of the agreement; the agreement of this code
\* does not keep it (BinaryAgreement's DecideCalled is violated), so nothing here
\* assumes it but Returns and AtRest, which say so.
AllVoted(j) == \A q \in Honest : proposal[q][j] # None
AgreementsEnd == []<>(\A n \in Honest, j \in Node : AllVoted(j) => aba_values[n][j] # None)

\* If the agreements end, every honest node returns, even if faulty leaders'
\* broadcasts end nowhere: the common subset itself holds nobody up.
Returns == AgreementsEnd => <>(\A n \in Honest : pc[n] = "returned")

\* Nothing FairSpec asks for is left to do, no joined greenlet has ended, and
\* every agreement all honest nodes have given an input has ended.
AtRest ==
    \A n \in Honest :
        /\ pc[n] = "joinall" => \E j \in Node : aba_values[n][j] = None
        /\ pc[n] = "collect" => aba_values[n][at[n]] = 1 /\ r_threads[n][at[n]] = "wait"
        /\ \A j \in Node :
              /\ Ends(j) => r_threads[n][j] # "wait"
              /\ AllVoted(j) => aba_values[n][j] # None

\* A common subset at rest, whose agreements have ended, has returned everywhere:
\* neither an agreement that misses an input nor a broadcast that ends nowhere can
\* hold a node up.
RestReturned == AtRest => \A n \in Honest : pc[n] = "returned"
=============================================================================
