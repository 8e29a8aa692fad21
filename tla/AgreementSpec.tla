--------------------------- MODULE AgreementSpec ---------------------------
(***************************************************************************)
(* What one binary agreement promises to the common subset: nodes that     *)
(* were given an input may decide, all alike, and only for a value that    *)
(* an honest node was given.                                               *)
(***************************************************************************)
CONSTANTS Honest, None

VARIABLES proposal, decision

specVars == <<proposal, decision>>

Bits == {0, 1}

Init ==
    /\ proposal = [n \in Honest |-> None]
    /\ decision = [n \in Honest |-> None]

\* An input is given once.
Propose(n, v) ==
    /\ proposal[n] = None
    /\ proposal' = [proposal EXCEPT ![n] = v]
    /\ UNCHANGED decision

Decide(n, v) ==
    /\ proposal[n] # None
    /\ decision[n] = None
    /\ \E q \in Honest : proposal[q] = v
    /\ \A q \in Honest : decision[q] \in {None, v}
    /\ decision' = [decision EXCEPT ![n] = v]
    /\ UNCHANGED proposal

Next == \E n \in Honest, v \in Bits : Propose(n, v) \/ Decide(n, v)

Spec == Init /\ [][Next]_specVars
=============================================================================
