------------------------------ MODULE CoinSpec ------------------------------
(***************************************************************************)
(* What shared_coin promises to the agreement that calls it: round r has   *)
(* one bit, fixed by the dealer's key, which nobody can know before an     *)
(* honest node has asked for it; whoever asks may then be given it.        *)
(***************************************************************************)
EXTENDS Integers, FiniteSets

CONSTANTS Node, Faulty, F, Round, Bit, NoBit

Honest == Node \ Faulty

VARIABLES
    asked,      \* pairs <<n, r>>: honest n has called getCoin(r)
    revealed,   \* the rounds whose bit some node has computed
    got         \* the answers

specVars == <<asked, revealed, got>>

Askers(r) == {n \in Honest : <<n, r>> \in asked}

\* F + 1 shares are needed, and the faulty nodes hold Cardinality(Faulty).
Available(r) == Cardinality(Askers(r)) + Cardinality(Faulty) >= F + 1

Init ==
    /\ asked = {}
    /\ revealed = {}
    /\ got = [n \in Honest |-> [r \in Round |-> NoBit]]

Ask(n, r) ==
    /\ <<n, r>> \notin asked
    /\ asked' = asked \cup {<<n, r>>}
    /\ UNCHANGED <<revealed, got>>

Reveal(r) ==
    /\ r \notin revealed
    /\ Available(r)
    /\ revealed' = revealed \cup {r}
    /\ UNCHANGED <<asked, got>>

Answer(n, r) ==
    /\ <<n, r>> \in asked
    /\ got[n][r] = NoBit
    /\ r \in revealed
    /\ got' = [got EXCEPT ![n][r] = Bit[r]]
    /\ UNCHANGED <<asked, revealed>>

Next ==
    \/ \E n \in Honest, r \in Round : Ask(n, r) \/ Answer(n, r)
    \/ \E r \in Round : Reveal(r)

Spec == Init /\ [][Next]_specVars
=============================================================================
