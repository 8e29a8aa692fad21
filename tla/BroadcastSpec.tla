--------------------------- MODULE BroadcastSpec ---------------------------
(***************************************************************************)
(* What one instance of reliablebroadcast() promises to the node that      *)
(* spawned it: honest nodes finish one after the other, all with the same  *)
(* verdict, which is a message or, only under a faulty leader, a failure   *)
(* (the greenlet dies of an AssertionError and returns nothing).           *)
(***************************************************************************)
CONSTANTS Honest, Leader, Message, NoMessage

VARIABLES
    input,      \* what an honest leader was given
    finished,   \* the honest nodes whose greenlet has ended
    value       \* what each of them returned; NoMessage if nothing

specVars == <<input, finished, value>>

Init ==
    /\ input = NoMessage
    /\ finished = {}
    /\ value = [n \in Honest |-> NoMessage]

Propose(m) ==
    /\ Leader \in Honest
    /\ input = NoMessage
    /\ input' = m
    /\ UNCHANGED <<finished, value>>

Finish(n, v) ==
    /\ n \notin finished
    /\ \A x \in finished : value[x] = v
    /\ Leader \in Honest => v \in Message /\ v = input
    /\ finished' = finished \cup {n}
    /\ value' = [value EXCEPT ![n] = v]
    /\ UNCHANGED input

Next ==
    \/ \E m \in Message : Propose(m)
    \/ \E n \in Honest, v \in Message \cup {NoMessage} : Finish(n, v)

Spec == Init /\ [][Next]_specVars
=============================================================================
