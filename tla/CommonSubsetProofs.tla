------------------------- MODULE CommonSubsetProofs -------------------------
(***************************************************************************)
(* Proofs about CommonSubset for any number of nodes, any outcome of the   *)
(* broadcasts and any order in which broadcasts and agreements end.        *)
(***************************************************************************)
EXTENDS CommonSubset, FiniteSetTheorems, TLAPS

\* What the agreements promise: one decision, which some node has put in.
DecisionsShared ==
    \A n, q \in Honest, j \in Node :
        aba_values[n][j] # None /\ aba_values[q][j] # None => aba_values[n][j] = aba_values[q][j]
DecisionsProposed ==
    \A n \in Honest, j \in Node :
        aba_values[n][j] # None => \E q \in Honest : proposal[q][j] = aba_values[n][j]

\* A 1 is put in for a broadcast that succeeds, a 0 behind N - F ones.
OnesJustified == \A n \in Honest, j \in Node : proposal[n][j] = 1 => verdict[j] # Failure
ZerosJustified ==
    \A n \in Honest, j \in Node : proposal[n][j] = 0 => Cardinality(Ones(aba_values[n])) >= N - F

\* How each receiving greenlet has ended.
ThreadsMatch ==
    \A n \in Honest, j \in Node :
        /\ r_threads[n][j] = "dead" => verdict[j] = Failure
        /\ r_threads[n][j] = "killed" => aba_values[n][j] = 0
        /\ r_threads[n][j] = "done" =>
             verdict[j] # Failure /\ (aba_values[n][j] = 0 \/ rbc_values[n][j] = verdict[j])

\* What the final loop has made of the first j values.
Entry(n, j) == IF aba_values[n][j] = 1 THEN verdict[j] ELSE None
CollectedAt(n) ==
    /\ Cardinality(Ones(aba_values[n])) >= N - F
    /\ \A j \in Node : aba_values[n][j] # None
    /\ \A j \in Node : j < at[n] => /\ r_threads[n][j] # "wait"
                                    /\ rbc_values[n][j] = Entry(n, j)
                                    /\ aba_values[n][j] = 1 => verdict[j] # Failure
Collected == \A n \in Honest : pc[n] # "joinall" => CollectedAt(n)
Position ==
    \A n \in Honest : /\ pc[n] = "joinall" => at[n] = 0
                      /\ pc[n] = "collect" => at[n] < N
                      /\ pc[n] = "returned" => at[n] = N

IInv ==
    /\ TypeOK /\ DecisionsShared /\ DecisionsProposed /\ OnesJustified /\ ZerosJustified
    /\ ThreadsMatch /\ Collected /\ Position /\ AssertionsHold

-----------------------------------------------------------------------------
LEMMA Constants ==
  /\ N \in Nat /\ N > 0 /\ F \in 0..N /\ Enough = N - F
  /\ Failure \notin Value /\ None \notin Value /\ None # Failure /\ None \notin {0, 1}
  /\ IsFiniteSet(Node) /\ Cardinality(Node) = N /\ Honest \subseteq Node
  /\ \A S \in SUBSET Node : IsFiniteSet(S) /\ Cardinality(S) \in Nat
<1>1. IsFiniteSet(Node) /\ Cardinality(Node) = N
  BY SubsetNodes, FS_Interval DEF Node
<1>2. \A S \in SUBSET Node : IsFiniteSet(S) /\ Cardinality(S) \in Nat
  BY <1>1, FS_Subset, FS_CardinalityType
<1> QED
  BY <1>1, <1>2, SubsetNodes, SubsetValues DEF Enough, Honest

LEMMA OnesGrow ==
  ASSUME NEW f, NEW g, \A j \in Node : f[j] = 1 => g[j] = 1
  PROVE  /\ Cardinality(Ones(f)) <= Cardinality(Ones(g))
         /\ Cardinality(Ones(f)) \in Nat /\ Cardinality(Ones(g)) \in Nat
<1>1. Ones(f) \in SUBSET Ones(g) /\ Ones(g) \in SUBSET Node /\ Ones(f) \in SUBSET Node
  BY DEF Ones
<1> QED
  BY <1>1, Constants, FS_Subset

LEMMA InitInvariant == Init => IInv
<1> SUFFICES ASSUME Init PROVE IInv
  OBVIOUS
<1>1. TypeOK
  BY Constants DEF Init, TypeOK
<1> QED
  BY <1>1, Constants
     DEF Init, IInv, DecisionsShared, DecisionsProposed, OnesJustified, ZerosJustified,
         ThreadsMatch, Collected, Position, AssertionsHold

LEMMA RecvRbcInvariant == ASSUME IInv, NEW n \in Honest, NEW j \in Node, RecvRbc(n, j) PROVE IInv'
<1> USE DEF IInv
<1>1. /\ r_threads[n][j] = "wait" /\ verdict[j] # Failure /\ verdict[j] \in Value
      /\ UNCHANGED <<verdict, aba_values, pc, at>>
  BY DEF RecvRbc, TypeOK
<1>2. \A q \in Honest, k \in Node :
        /\ r_threads'[q][k] = IF q = n /\ k = j THEN "done" ELSE r_threads[q][k]
        /\ rbc_values'[q][k] = IF q = n /\ k = j THEN verdict[j] ELSE rbc_values[q][k]
        /\ proposal'[q][k] = IF q = n /\ k = j /\ proposal[q][k] = None THEN 1 ELSE proposal[q][k]
  BY DEF RecvRbc, TypeOK
<1>3. TypeOK'
  BY <1>1 DEF TypeOK, RecvRbc
<1>4. DecisionsShared' /\ Position' /\ AssertionsHold'
  BY <1>1 DEF DecisionsShared, Position, AssertionsHold
<1>5. DecisionsProposed'
  <2> SUFFICES ASSUME NEW q \in Honest, NEW k \in Node, aba_values[q][k] # None
               PROVE  \E p \in Honest : proposal'[p][k] = aba_values[q][k]
    BY <1>1 DEF DecisionsProposed
  <2>1. PICK p \in Honest : proposal[p][k] = aba_values[q][k]
    BY DEF DecisionsProposed
  <2> QED
    BY <2>1, <1>2
<1>6. OnesJustified' /\ ZerosJustified'
  BY <1>1, <1>2 DEF OnesJustified, ZerosJustified, Ones
<1>7. ThreadsMatch'
  BY <1>1, <1>2 DEF ThreadsMatch
<1>8. Collected'
  <2> SUFFICES ASSUME NEW q \in Honest, pc[q] # "joinall", NEW k \in Node, k < at[q]
               PROVE  r_threads'[q][k] = r_threads[q][k] /\ rbc_values'[q][k] = rbc_values[q][k]
    BY <1>1 DEF Collected, CollectedAt, Entry, Ones
  <2>1. r_threads[q][k] # "wait"
    BY DEF Collected, CollectedAt
  <2> QED
    BY <2>1, <1>1, <1>2
<1> QED
  BY <1>3, <1>4, <1>5, <1>6, <1>7, <1>8

LEMMA RbcFailsInvariant == ASSUME IInv, NEW n \in Honest, NEW j \in Node, RbcFails(n, j) PROVE IInv'
<1> USE DEF IInv
<1>1. /\ r_threads[n][j] = "wait" /\ verdict[j] = Failure
      /\ UNCHANGED <<verdict, rbc_values, proposal, aba_values, pc, at>>
  BY DEF RbcFails
<1>2. \A q \in Honest, k \in Node :
        r_threads'[q][k] = IF q = n /\ k = j THEN "dead" ELSE r_threads[q][k]
  BY DEF RbcFails, TypeOK
<1>3. TypeOK'
  BY <1>1 DEF TypeOK, RbcFails
<1>4. DecisionsShared' /\ DecisionsProposed' /\ OnesJustified' /\ ZerosJustified' /\ Position' /\ AssertionsHold'
  BY <1>1 DEF DecisionsShared, DecisionsProposed, OnesJustified, ZerosJustified, Position, AssertionsHold, Ones
<1>5. ThreadsMatch'
  BY <1>1, <1>2 DEF ThreadsMatch
<1>6. Collected'
  <2> SUFFICES ASSUME NEW q \in Honest, pc[q] # "joinall", NEW k \in Node, k < at[q]
               PROVE  r_threads'[q][k] = r_threads[q][k]
    BY <1>1 DEF Collected, CollectedAt, Entry, Ones
  <2>1. r_threads[q][k] # "wait"
    BY DEF Collected, CollectedAt
  <2> QED
    BY <2>1, <1>1, <1>2
<1> QED
  BY <1>3, <1>4, <1>5, <1>6

LEMMA RecvAbaInvariant ==
  ASSUME IInv, NEW n \in Honest, NEW j \in Node, NEW v \in {0, 1}, RecvAba(n, j, v)
  PROVE  IInv'
<1> USE DEF IInv
<1>1. /\ aba_values[n][j] = None /\ proposal[n][j] # None /\ MayDecide(j, v)
      /\ UNCHANGED <<verdict, r_threads, rbc_values, pc, at>>
  BY DEF RecvAba
<1>2. \A q \in Honest, k \in Node :
        aba_values'[q][k] = IF q = n /\ k = j THEN v ELSE aba_values[q][k]
  BY DEF RecvAba, TypeOK
<1>3. /\ TypeOK'
      /\ \A q \in Honest, k \in Node :
           \/ proposal'[q][k] = proposal[q][k]
           \/ /\ proposal[q][k] = None /\ proposal'[q][k] = 0
              /\ q = n /\ Cardinality(Ones(aba_values'[n])) >= Enough
  <2> DEFINE filled == [k \in Node |-> IF proposal[n][k] = None THEN 0 ELSE proposal[n][k]]
  <2>1. filled \in [Node -> {0, 1, None}]
    BY DEF TypeOK
  <2>2. CASE Cardinality(Ones(aba_values'[n])) >= Enough
    <3>1. proposal' = [proposal EXCEPT ![n] = filled]
      BY <2>2 DEF RecvAba
    <3>2. proposal' \in [Honest -> [Node -> {0, 1, None}]]
      BY <3>1, <2>1 DEF TypeOK
    <3>3. \A q \in Honest : proposal'[q] = IF q = n THEN filled ELSE proposal[q]
      BY <3>1 DEF TypeOK
    <3>4. aba_values' \in [Honest -> [Node -> {0, 1, None}]]
      BY DEF RecvAba, TypeOK
    <3> QED
      BY <3>2, <3>3, <3>4, <2>2, <1>1 DEF TypeOK
  <2>3. CASE ~(Cardinality(Ones(aba_values'[n])) >= Enough)
    <3>1. proposal' = proposal
      BY <2>3 DEF RecvAba
    <3> QED
      BY <3>1, <1>1 DEF TypeOK, RecvAba
  <2> QED
    BY <2>2, <2>3
<1>4. \A q \in Honest : Cardinality(Ones(aba_values'[q])) >= Cardinality(Ones(aba_values[q]))
                        /\ Cardinality(Ones(aba_values[q])) \in Nat /\ Cardinality(Ones(aba_values'[q])) \in Nat
  <2> SUFFICES ASSUME NEW q \in Honest
               PROVE  \A k \in Node : aba_values[q][k] = 1 => aba_values'[q][k] = 1
    BY OnesGrow
  <2> QED
    BY <1>1, <1>2, Constants
<1>5. DecisionsShared'
  BY <1>1, <1>2 DEF DecisionsShared, MayDecide
<1>6. DecisionsProposed'
  <2> SUFFICES ASSUME NEW q \in Honest, NEW k \in Node, aba_values'[q][k] # None
               PROVE  \E p \in Honest : proposal'[p][k] = aba_values'[q][k]
    BY DEF DecisionsProposed
  <2>1. PICK p \in Honest : proposal[p][k] = aba_values'[q][k]
    BY <1>1, <1>2 DEF DecisionsProposed, MayDecide
  <2>2. proposal'[p][k] = proposal[p][k]
    BY <2>1, <1>3
  <2> QED
    BY <2>1, <2>2
<1>7. OnesJustified'
  BY <1>1, <1>3 DEF OnesJustified
<1>8. ZerosJustified'
  <2> SUFFICES ASSUME NEW q \in Honest, NEW k \in Node, proposal'[q][k] = 0
               PROVE  Cardinality(Ones(aba_values'[q])) >= N - F
    BY DEF ZerosJustified, Ones
  <2>1. CASE proposal'[q][k] = proposal[q][k]
    BY <2>1, <1>4, Constants DEF ZerosJustified
  <2>2. CASE q = n /\ Cardinality(Ones(aba_values'[n])) >= Enough
    BY <2>2, Constants
  <2> QED
    BY <2>1, <2>2, <1>3
<1>9. ThreadsMatch'
  BY <1>1, <1>2, Constants DEF ThreadsMatch
<1>10. Collected'
  <2> SUFFICES ASSUME NEW q \in Honest, pc[q] # "joinall" PROVE CollectedAt(q)'
    BY <1>1 DEF Collected
  <2>1. CollectedAt(q) /\ q # n
    BY <1>1 DEF Collected, CollectedAt
  <2>2. aba_values'[q] = aba_values[q]
    BY <2>1 DEF RecvAba, TypeOK
  <2> QED
    BY <1>1, <2>1, <2>2 DEF CollectedAt, Entry
<1>11. Position' /\ AssertionsHold'
  BY <1>1 DEF Position, AssertionsHold
<1> QED
  BY <1>3, <1>5, <1>6, <1>7, <1>8, <1>9, <1>10, <1>11

\* Why the assertion of line 55 holds: a 0 needs a node that has seen N - F
\* ones, which are decisions here too; without any 0 all decisions are ones.
LEMMA EnoughOnes ==
  ASSUME IInv, NEW n \in Honest, \A j \in Node : aba_values[n][j] # None
  PROVE  Cardinality(Ones(aba_values[n])) >= N - F
<1> USE DEF IInv
<1>1. CASE \E q \in Honest, j \in Node : proposal[q][j] = 0
  <2>1. PICK q \in Honest : Cardinality(Ones(aba_values[q])) >= N - F
    BY <1>1 DEF ZerosJustified
  <2>2. \A j \in Node : aba_values[q][j] = 1 => aba_values[n][j] = 1
    BY Constants DEF DecisionsShared
  <2> QED
    BY <2>1, <2>2, OnesGrow, Constants
<1>2. CASE \A q \in Honest, j \in Node : proposal[q][j] # 0
  <2>1. \A j \in Node : aba_values[n][j] = 1
    BY <1>2 DEF DecisionsProposed, TypeOK
  <2>2. Ones(aba_values[n]) = Node
    BY <2>1 DEF Ones
  <2> QED
    BY <2>2, Constants
<1> QED
  BY <1>1, <1>2

LEMMA JoinAllInvariant == ASSUME IInv, NEW n \in Honest, JoinAll(n) PROVE IInv'
<1> USE DEF IInv
<1>1. /\ pc[n] = "joinall" /\ \A j \in Node : aba_values[n][j] # None
      /\ UNCHANGED <<verdict, r_threads, rbc_values, proposal, aba_values, at>>
  BY DEF JoinAll
<1>2. Cardinality(Ones(aba_values[n])) >= N - F
  BY <1>1, EnoughOnes
<1>3. pc' = [pc EXCEPT ![n] = "collect"]
  BY <1>2 DEF JoinAll
<1>4. \A q \in Honest : pc'[q] = IF q = n THEN "collect" ELSE pc[q]
  BY <1>3 DEF TypeOK
<1>5. TypeOK'
  BY <1>1, <1>3 DEF TypeOK
<1>6. at[n] = 0
  BY <1>1 DEF Position
<1>7. \A j \in Node : ~(j < 0)
  BY DEF Node
<1>8. Collected'
  <2> SUFFICES ASSUME NEW q \in Honest, pc'[q] # "joinall" PROVE CollectedAt(q)'
    BY DEF Collected
  <2>1. CASE q = n
    BY <2>1, <1>1, <1>2, <1>6, <1>7 DEF CollectedAt
  <2>2. CASE q # n
    BY <2>2, <1>1, <1>4 DEF Collected, CollectedAt, Entry
  <2> QED
    BY <2>1, <2>2
<1>9. Position' /\ AssertionsHold'
  BY <1>1, <1>4, <1>6, Constants DEF Position, AssertionsHold
<1>10. DecisionsShared' /\ DecisionsProposed' /\ OnesJustified' /\ ZerosJustified' /\ ThreadsMatch'
  BY <1>1 DEF DecisionsShared, DecisionsProposed, OnesJustified, ZerosJustified, ThreadsMatch, Ones
<1> QED
  BY <1>5, <1>8, <1>9, <1>10

\* One turn of the final loop, with what it makes of its greenlet.
LEMMA AdvanceInvariant ==
  ASSUME IInv, NEW n \in Honest, pc[n] = "collect", at[n] \in Node, Advance(n),
         UNCHANGED <<verdict, proposal, aba_values>>, TypeOK', ThreadsMatch',
         \A q \in Honest, j \in Node : q # n \/ j # at[n] =>
             r_threads'[q][j] = r_threads[q][j] /\ rbc_values'[q][j] = rbc_values[q][j],
         r_threads'[n][at[n]] # "wait", rbc_values'[n][at[n]] = Entry(n, at[n]),
         aba_values[n][at[n]] = 1 => verdict[at[n]] # Failure
  PROVE  IInv'
<1> USE DEF IInv
<1>1. at[n] \in Nat /\ at[n] < N
  BY Constants DEF Node
<1>2. \A q \in Honest : /\ at'[q] = IF q = n THEN at[q] + 1 ELSE at[q]
                        /\ pc'[q] = IF q = n /\ at[q] = N - 1 THEN "returned" ELSE pc[q]
  BY DEF Advance, TypeOK
<1>3. Position' /\ AssertionsHold'
  BY <1>1, <1>2, Constants DEF Position, AssertionsHold
<1>4. Collected'
  <2> SUFFICES ASSUME NEW q \in Honest, pc'[q] # "joinall" PROVE CollectedAt(q)'
    BY DEF Collected
  <2>1. pc[q] # "joinall"
    BY <1>2
  <2>2. ASSUME NEW j \in Node, j < at'[q], q # n \/ j # at[n] PROVE j < at[q]
    BY <2>2, <1>1, <1>2 DEF Node
  <2>3. ASSUME NEW j \in Node, j < at'[q]
        PROVE  /\ r_threads'[q][j] # "wait" /\ rbc_values'[q][j] = Entry(q, j)
               /\ aba_values[q][j] = 1 => verdict[j] # Failure
    <3>1. CASE q = n /\ j = at[n]
      BY <3>1
    <3>2. CASE q # n \/ j # at[n]
      BY <3>2, <2>1, <2>2, <2>3 DEF Collected, CollectedAt, Entry
    <3> QED
      BY <3>1, <3>2
  <2> QED
    BY <2>1, <2>3 DEF Collected, CollectedAt, Entry
<1>5. DecisionsShared' /\ DecisionsProposed' /\ OnesJustified' /\ ZerosJustified'
  BY DEF DecisionsShared, DecisionsProposed, OnesJustified, ZerosJustified, Ones
<1> QED
  BY <1>3, <1>4, <1>5

\* Why the assertion of line 61 holds: somebody has put in a 1, so the
\* broadcast has a value, and its greenlet was not killed.
LEMMA JoinedWithValue ==
  ASSUME IInv, NEW n \in Honest, NEW j \in Node, aba_values[n][j] = 1, r_threads[n][j] # "wait"
  PROVE  verdict[j] # Failure /\ rbc_values[n][j] = verdict[j] /\ rbc_values[n][j] # None
<1> USE DEF IInv
<1>1. PICK q \in Honest : proposal[q][j] = 1
  BY Constants DEF DecisionsProposed
<1>2. verdict[j] # Failure /\ verdict[j] \in Value
  BY <1>1 DEF OnesJustified, TypeOK
<1>3. r_threads[n][j] \in {"wait", "done", "dead", "killed"}
  BY DEF TypeOK
<1> QED
  BY <1>2, <1>3, Constants DEF ThreadsMatch

LEMMA JoinRbcInvariant == ASSUME IInv, NEW n \in Honest, JoinRbc(n) PROVE IInv' /\ Advance(n)
<1> USE DEF IInv
<1>1. /\ pc[n] = "collect" /\ aba_values[n][at[n]] = 1 /\ r_threads[n][at[n]] # "wait"
      /\ UNCHANGED <<verdict, r_threads, rbc_values, proposal, aba_values>>
  BY DEF JoinRbc
<1>2. at[n] \in Node /\ at[n] \in Nat /\ at[n] < N
  BY <1>1, Constants DEF TypeOK, Position, Node
<1>3. verdict[at[n]] # Failure /\ rbc_values[n][at[n]] = verdict[at[n]] /\ rbc_values[n][at[n]] # None
  BY <1>1, <1>2, JoinedWithValue
<1>4. Advance(n)
  BY <1>3 DEF JoinRbc
<1>5. TypeOK'
  BY <1>1, <1>2, <1>4, Constants DEF TypeOK, Advance
<1>6. ThreadsMatch'
  BY <1>1 DEF ThreadsMatch
<1> QED
  BY <1>1, <1>2, <1>3, <1>4, <1>5, <1>6, AdvanceInvariant DEF Entry

LEMMA KillRbcInvariant == ASSUME IInv, NEW n \in Honest, KillRbc(n) PROVE IInv'
<1> USE DEF IInv
<1>1. /\ pc[n] = "collect" /\ aba_values[n][at[n]] = 0 /\ Advance(n)
      /\ UNCHANGED <<verdict, proposal, aba_values>>
  BY DEF KillRbc
<1>2. at[n] \in Node /\ at[n] \in Nat /\ at[n] < N
  BY <1>1, Constants DEF TypeOK, Position, Node
<1>3. \A q \in Honest, j \in Node :
        /\ r_threads'[q][j] = IF q = n /\ j = at[n] /\ r_threads[q][j] = "wait" THEN "killed" ELSE r_threads[q][j]
        /\ rbc_values'[q][j] = IF q = n /\ j = at[n] THEN None ELSE rbc_values[q][j]
  BY <1>2 DEF KillRbc, TypeOK
<1>4. TypeOK'
  <2>1. /\ r_threads' \in [Honest -> [Node -> {"wait", "done", "dead", "killed"}]]
        /\ rbc_values' \in [Honest -> [Node -> Value \cup {None}]]
    BY <1>2 DEF TypeOK, KillRbc
  <2>2. /\ at' \in [Honest -> 0 .. N]
        /\ pc' \in [Honest -> {"joinall", "collect", "returned", "failed"}]
    BY <1>1, <1>2, Constants DEF TypeOK, Advance
  <2> QED
    BY <1>1, <2>1, <2>2 DEF TypeOK
<1>5. ThreadsMatch'
  BY <1>1, <1>3 DEF ThreadsMatch
<1>6. r_threads'[n][at[n]] # "wait" /\ rbc_values'[n][at[n]] = Entry(n, at[n])
  BY <1>1, <1>2, <1>3 DEF Entry
<1>7. \A q \in Honest, j \in Node : q # n \/ j # at[n] =>
        r_threads'[q][j] = r_threads[q][j] /\ rbc_values'[q][j] = rbc_values[q][j]
  BY <1>3
<1> QED
  BY <1>1, <1>2, <1>4, <1>5, <1>6, <1>7, AdvanceInvariant

LEMMA NextInvariant == IInv /\ [Next]_vars => IInv'
<1> SUFFICES ASSUME IInv, [Next]_vars PROVE IInv'
  OBVIOUS
<1>1. CASE \E n \in Honest, j \in Node : RecvRbc(n, j)
  BY <1>1, RecvRbcInvariant
<1>2. CASE \E n \in Honest, j \in Node : RbcFails(n, j)
  BY <1>2, RbcFailsInvariant
<1>3. CASE \E n \in Honest, j \in Node, v \in {0, 1} : RecvAba(n, j, v)
  BY <1>3, RecvAbaInvariant
<1>4. CASE \E n \in Honest : JoinAll(n)
  BY <1>4, JoinAllInvariant
<1>5. CASE \E n \in Honest : JoinRbc(n)
  BY <1>5, JoinRbcInvariant
<1>6. CASE \E n \in Honest : KillRbc(n)
  BY <1>6, KillRbcInvariant
<1>7. CASE UNCHANGED vars
  <2>1. TypeOK' /\ Position' /\ AssertionsHold'
    BY <1>7 DEF vars, IInv, TypeOK, Position, AssertionsHold
  <2>2. DecisionsShared' /\ DecisionsProposed' /\ OnesJustified' /\ ZerosJustified' /\ ThreadsMatch'
    BY <1>7 DEF vars, IInv, DecisionsShared, DecisionsProposed, OnesJustified, ZerosJustified, ThreadsMatch
  <2>3. Collected'
    BY <1>7 DEF vars, IInv, Collected, CollectedAt, Entry
  <2> QED
    BY <2>1, <2>2, <2>3 DEF IInv
<1> QED
  BY <1>1, <1>2, <1>3, <1>4, <1>5, <1>6, <1>7 DEF Next

\* The inductive invariant: decisions are shared and put in by somebody, zeros
\* only behind N - F ones, and greenlets and lists fit the verdicts.
THEOREM SubsetInvariant == Spec => []IInv
  BY InitInvariant, NextInvariant, PTL DEF Spec

\* The lists and greenlets of commonsubset keep their types for any N and F.
THEOREM TypeCorrect == Spec => []TypeOK
  BY SubsetInvariant, PTL DEF IInv

\* The assertions of lines 55 and 61 of commonsubset.py hold whatever the order
\* in which broadcasts and agreements end, and whichever broadcasts fail.
THEOREM AssertionsAlwaysHold == Spec => []AssertionsHold
  BY SubsetInvariant, PTL DEF IInv

-----------------------------------------------------------------------------
\* Every step is one each agreement allows, or none of its business.
LEMMA AgreementStep ==
  ASSUME IInv, [Next]_vars, NEW j \in Node
  PROVE  [Agreement(j)!Next]_(Agreement(j)!specVars)
<1> DEFINE put == [n \in Honest |-> proposal[n][j]]
           got == [n \in Honest |-> aba_values[n][j]]
<1>1. ASSUME NEW n \in Honest, NEW v \in {0, 1}, put[n] = None, got' = got,
             put' = [put EXCEPT ![n] = v]
      PROVE  Agreement(j)!Next
  BY <1>1 DEF Agreement!Next, Agreement!Propose, Agreement!Bits
<1>2. CASE \E n \in Honest, k \in Node : RecvRbc(n, k)
  <2>1. PICK n \in Honest, k \in Node : RecvRbc(n, k)
    BY <1>2
  <2>2. got' = got
    BY <2>1 DEF RecvRbc
  <2>3. \A q \in Honest : proposal'[q][j] = IF q = n /\ k = j /\ proposal[q][j] = None THEN 1 ELSE proposal[q][j]
    BY <2>1 DEF RecvRbc, IInv, TypeOK
  <2>4. put' = IF k = j /\ put[n] = None THEN [put EXCEPT ![n] = 1] ELSE put
    BY <2>3
  <2> QED
    BY <1>1, <2>2, <2>4 DEF Agreement!specVars
<1>3. CASE \E n \in Honest, k \in Node, v \in {0, 1} : RecvAba(n, k, v)
  <2>1. PICK n \in Honest, k \in Node, v \in {0, 1} : RecvAba(n, k, v)
    BY <1>3
  <2>2. \A q \in Honest : aba_values'[q][j] = IF q = n /\ k = j THEN v ELSE aba_values[q][j]
    BY <2>1 DEF RecvAba, IInv, TypeOK
  <2>3. got' = IF k = j THEN [got EXCEPT ![n] = v] ELSE got
    BY <2>2
  <2>4. \/ \A q \in Honest : proposal'[q][j] = proposal[q][j]
        \/ \A q \in Honest : proposal'[q][j] = IF q = n /\ proposal[q][j] = None THEN 0 ELSE proposal[q][j]
    BY <2>1 DEF RecvAba, IInv, TypeOK
  <2>5. put' = put \/ put' = IF put[n] = None THEN [put EXCEPT ![n] = 0] ELSE put
    BY <2>4
  <2>6. CASE k = j
    <3>1. proposal[n][j] # None /\ aba_values[n][j] = None /\ MayDecide(j, v)
      BY <2>1, <2>6 DEF RecvAba
    <3>2. put' = put
      BY <2>5, <3>1
    <3>3. Agreement(j)!Decide(n, v)
      BY <2>3, <2>6, <3>1, <3>2 DEF Agreement!Decide, MayDecide
    <3> QED
      BY <3>3 DEF Agreement!Next, Agreement!Bits
  <2>7. CASE k # j
    BY <1>1, <2>3, <2>5, <2>7 DEF Agreement!specVars
  <2> QED
    BY <2>6, <2>7
<1>4. CASE UNCHANGED <<proposal, aba_values>>
  BY <1>4 DEF Agreement!specVars
<1> QED
  BY <1>2, <1>3, <1>4 DEF Next, RbcFails, JoinAll, JoinRbc, KillRbc, vars

\* The one-place queues and the greenlets that fill them: a node gives each
\* binary agreement one input, and otherwise uses it as AgreementSpec allows.
THEOREM AgreementsUsed == Spec => UsesAgreements
<1>1. IInv /\ [Next]_vars => [\A j \in Node : [Agreement(j)!Next]_(Agreement(j)!specVars)]_vars
  BY AgreementStep
<1> QED
  BY <1>1, SubsetInvariant, PTL DEF Spec, UsesAgreements

-----------------------------------------------------------------------------
LEMMA SameCardinality == \A S : Subset!Cardinality(S) = Cardinality(S)
  BY DEF Cardinality, Subset!Cardinality

LEMMA RefinementInit == Init => Subset!Init
  BY DEF Init, Subset!Init, Subset!Nothing

\* What a node that is through returns depends on the decisions only.
LEMMA ReturnedEntries ==
  ASSUME IInv, NEW n \in Honest, pc[n] = "returned"
  PROVE  rbc_values[n] = [j \in Node |-> Entry(n, j)]
<1>1. \A j \in Node : j < at[n]
  BY Constants DEF IInv, Position, Node
<1>2. \A j \in Node : rbc_values[n][j] = Entry(n, j)
  BY <1>1 DEF IInv, Collected, CollectedAt
<1>3. rbc_values[n] \in [Node -> Value \cup {None}]
  BY DEF IInv, TypeOK
<1> QED
  BY <1>2, <1>3

\* The tuple of a node, as the refinement mapping has it.
Tuple(n) == IF pc[n] = "returned" THEN rbc_values[n] ELSE [j \in Node |-> None]

LEMMA NobodyReturns ==
  ASSUME UNCHANGED verdict,
         \A q \in Honest : /\ pc'[q] = "returned" <=> pc[q] = "returned"
                           /\ pc[q] = "returned" => rbc_values'[q] = rbc_values[q]
  PROVE  UNCHANGED Subset!specVars
<1>1. \A q \in Honest : Tuple(q)' = Tuple(q)
  BY DEF Tuple
<1>2. [q \in Honest |-> Tuple(q)'] = [q \in Honest |-> Tuple(q)]
  BY <1>1
<1> QED
  BY <1>2 DEF Subset!specVars, Tuple

\* The last turn of the loop returns the accepted proposals.
LEMMA LoopRefines ==
  ASSUME IInv, IInv', NEW n \in Honest, pc[n] = "collect", Advance(n),
         UNCHANGED <<verdict, aba_values>>,
         \A q \in Honest : q # n => rbc_values'[q] = rbc_values[q]
  PROVE  [Subset!Next]_(Subset!specVars)
<1> DEFINE S == Ones(aba_values[n])
           entries == [j \in Node |-> Entry(n, j)]
           output == [q \in Honest |-> Tuple(q)]
<1>1. \A q \in Honest : pc'[q] = IF q = n /\ at[n] = N - 1 THEN "returned" ELSE pc[q]
  BY DEF Advance, IInv, TypeOK
<1>2. CASE at[n] # N - 1
  <2>1. UNCHANGED Subset!specVars
    BY <1>1, <1>2, NobodyReturns
  <2> QED
    BY <2>1
<1>3. CASE at[n] = N - 1
  <2>1. rbc_values'[n] = entries
    <3>1. pc'[n] = "returned" /\ at'[n] = N
      BY <1>1, <1>3, Constants DEF Advance, IInv, TypeOK
    <3>2. \A j \in Node : j < N
      BY Constants DEF Node
    <3>3. CollectedAt(n)'
      BY <3>1 DEF IInv, Collected
    <3>4. \A j \in Node : rbc_values'[n][j] = Entry(n, j)
      BY <3>1, <3>2, <3>3 DEF CollectedAt, Entry
    <3>5. rbc_values'[n] \in [Node -> Value \cup {None}]
      BY DEF IInv, TypeOK
    <3> QED
      BY <3>4, <3>5
  <2>2. entries = [j \in Node |-> IF j \in S THEN verdict[j] ELSE None]
    BY DEF Entry, Ones
  <2>3. output' = [output EXCEPT ![n] = entries]
    <3>1. \A q \in Honest : q # n => Tuple(q)' = Tuple(q)
      BY <1>1 DEF Tuple
    <3>2. Tuple(n)' = entries
      BY <1>1, <1>3, <2>1 DEF Tuple
    <3> QED
      BY <3>1, <3>2
  <2>4. output[n] = Subset!Nothing
    BY DEF Tuple, Subset!Nothing
  <2>5. \A j \in S : verdict[j] \in Value
    <3>1. ASSUME NEW j \in S PROVE verdict[j] # Failure /\ j \in Node
      <4>1. j \in Node /\ aba_values[n][j] = 1
        BY DEF Ones
      <4>2. PICK q \in Honest : proposal[q][j] = 1
        BY <4>1, Constants DEF IInv, DecisionsProposed
      <4> QED
        BY <4>1, <4>2 DEF IInv, OnesJustified
    <3> QED
      BY <3>1 DEF IInv, TypeOK
  <2>6. Cardinality(S) >= Cardinality(Node) - F /\ S \in SUBSET Node
    BY Constants DEF IInv, Collected, CollectedAt, Ones
  <2>7. ASSUME NEW q \in Honest PROVE output[q] \in {Subset!Nothing, entries}
    <3>1. CASE pc[q] = "returned"
      <4>1. \A j \in Node : aba_values[q][j] # None /\ aba_values[n][j] # None
        BY <3>1 DEF IInv, Collected, CollectedAt
      <4>2. \A j \in Node : Entry(q, j) = Entry(n, j)
        BY <4>1 DEF IInv, DecisionsShared, Entry
      <4>3. rbc_values[q] = [j \in Node |-> Entry(q, j)]
        BY <3>1, ReturnedEntries
      <4> QED
        BY <3>1, <4>2, <4>3 DEF Tuple
    <3>2. CASE pc[q] # "returned"
      BY <3>2 DEF Tuple, Subset!Nothing
    <3> QED
      BY <3>1, <3>2
  <2>8. PICK T \in SUBSET Node : T = S
    BY <2>6
  <2>9. Subset!Finish(n)
    BY <2>2, <2>3, <2>4, <2>5, <2>6, <2>7, <2>8, SameCardinality DEF Subset!Finish, Tuple
  <2> QED
    BY <2>9 DEF Subset!Next
<1> QED
  BY <1>2, <1>3

LEMMA RefinementNext == IInv /\ IInv' /\ [Next]_vars => [Subset!Next]_(Subset!specVars)
<1> SUFFICES ASSUME IInv, IInv', [Next]_vars PROVE [Subset!Next]_(Subset!specVars)
  OBVIOUS
<1>1. CASE \E n \in Honest, j \in Node : RecvRbc(n, j)
  <2>1. PICK n \in Honest, j \in Node : RecvRbc(n, j)
    BY <1>1
  <2>2. pc[n] # "returned"
    BY <2>1, Constants DEF RecvRbc, IInv, Collected, CollectedAt, Position, Node
  <2>3. \A q \in Honest : q # n => rbc_values'[q] = rbc_values[q]
    BY <2>1 DEF RecvRbc, IInv, TypeOK
  <2>4. UNCHANGED <<verdict, pc>>
    BY <2>1 DEF RecvRbc
  <2>5. UNCHANGED Subset!specVars
    BY <2>2, <2>3, <2>4, NobodyReturns
  <2> QED
    BY <2>5
<1>2. CASE \E n \in Honest : JoinAll(n)
  <2>1. PICK n \in Honest : JoinAll(n)
    BY <1>2
  <2>2. \A q \in Honest : pc'[q] = "returned" <=> pc[q] = "returned"
    BY <2>1 DEF JoinAll, IInv, TypeOK
  <2>3. UNCHANGED <<verdict, rbc_values>>
    BY <2>1 DEF JoinAll
  <2>4. UNCHANGED Subset!specVars
    BY <2>2, <2>3, NobodyReturns
  <2> QED
    BY <2>4
<1>3. CASE \E n \in Honest : JoinRbc(n)
  <2>1. PICK n \in Honest : JoinRbc(n)
    BY <1>3
  <2>2. Advance(n)
    BY <2>1, JoinRbcInvariant
  <2>3. pc[n] = "collect" /\ UNCHANGED <<verdict, rbc_values, aba_values>>
    BY <2>1 DEF JoinRbc
  <2> QED
    BY <2>1, <2>2, <2>3, LoopRefines
<1>4. CASE \E n \in Honest : KillRbc(n)
  <2>1. PICK n \in Honest : KillRbc(n)
    BY <1>4
  <2>2. \A q \in Honest : q # n => rbc_values'[q] = rbc_values[q]
    BY <2>1 DEF KillRbc, IInv, TypeOK
  <2>3. pc[n] = "collect" /\ Advance(n) /\ UNCHANGED <<verdict, aba_values>>
    BY <2>1 DEF KillRbc
  <2> QED
    BY <2>1, <2>2, <2>3, LoopRefines
<1>5. CASE UNCHANGED <<verdict, rbc_values, pc>>
  BY <1>5, NobodyReturns
<1> QED
  BY <1>1, <1>2, <1>3, <1>4, <1>5 DEF Next, RbcFails, RecvAba, vars

\* commonsubset implements SubsetSpec: all nodes return the same N - F or more
\* proposals, as they were broadcast.
THEOREM RefinementHolds == Spec => ImplementsSubset
<1>1. Spec => Subset!Init /\ [][Subset!Next]_(Subset!specVars)
  BY RefinementInit, RefinementNext, SubsetInvariant, PTL DEF Spec
<1> QED
  BY <1>1 DEF ImplementsSubset, Subset!Spec
-----------------------------------------------------------------------------
\* Who has given which agreement its input.
Voted ==
    \A n \in Honest, j \in Node :
        /\ r_threads[n][j] = "done" \/ aba_values[n][j] # None => proposal[n][j] # None
        /\ proposal[n][j] = 1 => r_threads[n][j] = "done"
ZerosGiven ==
    \A n \in Honest :
        (\E j \in Node : aba_values[n][j] # None) /\ Cardinality(Ones(aba_values[n])) >= N - F
            => \A k \in Node : proposal[n][k] # None
HonestSucceed == \A j \in Honest : verdict[j] # Failure

WorkInv == IInv /\ Voted /\ ZerosGiven /\ HonestSucceed

LEMMA WorkInit == Init => WorkInv
  BY InitInvariant, Constants DEF Init, WorkInv, Voted, ZerosGiven, HonestSucceed

LEMMA RecvRbcWork == ASSUME WorkInv, NEW n \in Honest, NEW j \in Node, RecvRbc(n, j) PROVE WorkInv'
<1> USE DEF WorkInv
<1>1. /\ r_threads[n][j] = "wait" /\ UNCHANGED <<verdict, aba_values>>
      /\ \A q \in Honest, k \in Node :
           /\ r_threads'[q][k] = IF q = n /\ k = j THEN "done" ELSE r_threads[q][k]
           /\ proposal'[q][k] = IF q = n /\ k = j /\ proposal[q][k] = None THEN 1 ELSE proposal[q][k]
  BY DEF RecvRbc, IInv, TypeOK
<1>2. Voted'
  BY <1>1, Constants DEF Voted
<1>3. ZerosGiven'
  <2> SUFFICES ASSUME NEW q \in Honest, \E k \in Node : aba_values[q][k] # None,
                      Cardinality(Ones(aba_values[q])) >= N - F, NEW k \in Node
               PROVE  proposal'[q][k] # None
    BY <1>1 DEF ZerosGiven, Ones
  <2>1. proposal[q][k] # None
    BY DEF ZerosGiven
  <2> QED
    BY <2>1, <1>1
<1> QED
  BY <1>1, <1>2, <1>3, RecvRbcInvariant DEF HonestSucceed

LEMMA RecvAbaWork ==
  ASSUME WorkInv, NEW n \in Honest, NEW j \in Node, NEW v \in {0, 1}, RecvAba(n, j, v)
  PROVE  WorkInv'
<1> USE DEF WorkInv
<1> DEFINE enough == Cardinality(Ones(aba_values'[n])) >= Enough
<1>1. /\ proposal[n][j] # None /\ UNCHANGED <<verdict, r_threads>>
      /\ \A q \in Honest, k \in Node : aba_values'[q][k] = IF q = n /\ k = j THEN v ELSE aba_values[q][k]
      /\ \A q \in Honest : q # n => aba_values'[q] = aba_values[q]
  BY DEF RecvAba, IInv, TypeOK
<1>2. \A q \in Honest, k \in Node :
        proposal'[q][k] = IF q = n /\ enough /\ proposal[q][k] = None THEN 0 ELSE proposal[q][k]
  BY DEF RecvAba, IInv, TypeOK
<1> HIDE DEF enough
<1>3. Voted'
  BY <1>1, <1>2, Constants DEF Voted
<1>4. ZerosGiven'
  <2> SUFFICES ASSUME NEW q \in Honest, \E k \in Node : aba_values'[q][k] # None,
                      Cardinality(Ones(aba_values'[q])) >= N - F, NEW k \in Node
               PROVE  proposal'[q][k] # None
    BY DEF ZerosGiven, Ones
  <2>1. CASE q = n
    <3>1. enough
      BY <2>1, Constants DEF enough
    <3> QED
      BY <3>1, <2>1, <1>2, Constants
  <2>2. CASE q # n
    BY <2>2, <1>1, <1>2 DEF ZerosGiven
  <2> QED
    BY <2>1, <2>2
<1> QED
  BY <1>1, <1>3, <1>4, RecvAbaInvariant DEF HonestSucceed

LEMMA KillRbcWork == ASSUME WorkInv, NEW n \in Honest, KillRbc(n) PROVE WorkInv'
<1> USE DEF WorkInv
<1>1. UNCHANGED <<verdict, proposal, aba_values>>
  BY DEF KillRbc
<1>2. \A q \in Honest, k \in Node :
        r_threads'[q][k] = r_threads[q][k] \/ (r_threads[q][k] = "wait" /\ r_threads'[q][k] = "killed")
  BY DEF KillRbc, IInv, TypeOK
<1> QED
  BY <1>1, <1>2, KillRbcInvariant DEF Voted, ZerosGiven, HonestSucceed, Ones

LEMMA WorkNext == WorkInv /\ [Next]_vars => WorkInv'
<1> SUFFICES ASSUME WorkInv, [Next]_vars PROVE WorkInv'
  OBVIOUS
<1>1. CASE \E n \in Honest, j \in Node : RecvRbc(n, j)
  BY <1>1, RecvRbcWork
<1>2. CASE \E n \in Honest, j \in Node : RbcFails(n, j)
  <2>1. PICK n \in Honest, j \in Node : RbcFails(n, j)
    BY <1>2
  <2>2. r_threads[n][j] = "wait" /\ r_threads' = [r_threads EXCEPT ![n][j] = "dead"]
        /\ UNCHANGED <<verdict, proposal, aba_values>>
    BY <2>1 DEF RbcFails
  <2>3. \A q \in Honest, k \in Node :
          r_threads'[q][k] = r_threads[q][k] \/ (r_threads[q][k] = "wait" /\ r_threads'[q][k] = "dead")
    BY <2>2 DEF WorkInv, IInv, TypeOK
  <2> QED
    BY <2>1, <2>2, <2>3, RbcFailsInvariant DEF WorkInv, Voted, ZerosGiven, HonestSucceed, Ones
<1>3. CASE \E n \in Honest, j \in Node, v \in {0, 1} : RecvAba(n, j, v)
  BY <1>3, RecvAbaWork
<1>4. CASE \E n \in Honest : KillRbc(n)
  BY <1>4, KillRbcWork
<1>5. CASE UNCHANGED <<verdict, r_threads, proposal, aba_values>>
  BY <1>5, NextInvariant DEF WorkInv, Voted, ZerosGiven, HonestSucceed, Ones
<1> QED
  BY <1>1, <1>2, <1>3, <1>4, <1>5 DEF Next, JoinAll, JoinRbc, vars

\* A successful broadcast that ends has been voted on by everybody, so that its
\* agreement has ended everywhere.
LEMMA EndedDecided ==
  ASSUME WorkInv, AtRest, NEW j \in Node, Ends(j), verdict[j] # Failure, NEW n \in Honest
  PROVE  aba_values[n][j] # None
<1>1. ASSUME NEW q \in Honest PROVE proposal[q][j] # None
  <2>1. r_threads[q][j] \in {"done", "dead", "killed"}
    BY DEF AtRest, WorkInv, IInv, TypeOK
  <2>2. CASE r_threads[q][j] = "done"
    BY <2>2 DEF WorkInv, Voted
  <2>3. CASE r_threads[q][j] # "done"
    <3>1. aba_values[q][j] = 0
      BY <2>1, <2>3 DEF WorkInv, IInv, ThreadsMatch
    <3> QED
      BY <3>1, Constants DEF WorkInv, Voted
  <2> QED
    BY <2>2, <2>3
<1> QED
  BY <1>1 DEF AtRest, AllVoted

\* An agreement somewhere decided as 1 was put in by a node whose broadcast
\* ended with a value.
LEMMA OneEnds ==
  ASSUME WorkInv, NEW n \in Honest, NEW j \in Node, aba_values[n][j] = 1
  PROVE  Ends(j) /\ verdict[j] # Failure
<1>1. PICK q \in Honest : proposal[q][j] = 1
  BY Constants DEF WorkInv, IInv, DecisionsProposed
<1> QED
  BY <1>1 DEF WorkInv, IInv, OnesJustified, Voted, Ends

LEMMA HonestMany == Honest \in SUBSET Node /\ Cardinality(Honest) >= N - F
<1>1. Honest \in SUBSET Node /\ Faulty \in SUBSET Node /\ Node = Honest \cup Faulty /\ Honest \cap Faulty = {}
  BY SubsetNodes DEF Honest
<1>2. Cardinality(Honest \cup Faulty) = Cardinality(Honest) + Cardinality(Faulty) - Cardinality(Honest \cap Faulty)
  BY <1>1, Constants, FS_Union
<1>3. Cardinality(Honest \cap Faulty) = 0
  BY <1>1, FS_EmptySet
<1>4. Cardinality(Honest) \in Nat /\ Cardinality(Faulty) \in Nat /\ Cardinality(Honest \cup Faulty) = N
  BY <1>1, Constants
<1>5. Cardinality(Honest) >= N - F
  BY <1>2, <1>3, <1>4, Constants, SubsetNodes
<1> QED
  BY <1>1, <1>5

\* N - F agreements have said 1 at every node: at one of them since the zeros of
\* others wait for that, and thus at all.
LEMMA OnesEverywhere ==
  ASSUME WorkInv, AtRest, NEW n \in Honest
  PROVE  Cardinality(Ones(aba_values[n])) >= N - F
<1>1. \A q, j \in Honest : aba_values[q][j] # None
  BY EndedDecided, HonestMany DEF WorkInv, HonestSucceed, Ends
<1>2. CASE \E q \in Honest, j \in Node : proposal[q][j] = 0
  <2>1. PICK q \in Honest : Cardinality(Ones(aba_values[q])) >= N - F
    BY <1>2 DEF WorkInv, IInv, ZerosJustified
  <2>2. ASSUME NEW j \in Node, aba_values[q][j] = 1 PROVE aba_values[n][j] = 1
    <3>1. aba_values[n][j] # None
      BY <2>2, OneEnds, EndedDecided
    <3> QED
      BY <3>1, <2>2, Constants DEF WorkInv, IInv, DecisionsShared
  <2> QED
    BY <2>1, <2>2, OnesGrow, Constants
<1>3. CASE \A q \in Honest, j \in Node : proposal[q][j] # 0
  <2>1. ASSUME NEW j \in Honest PROVE aba_values[n][j] = 1
    <3>1. j \in Node /\ aba_values[n][j] # None
      BY <1>1, HonestMany
    <3>2. PICK q \in Honest : proposal[q][j] = aba_values[n][j]
      BY <3>1 DEF WorkInv, IInv, DecisionsProposed
    <3>3. aba_values[n][j] \in {0, 1, None}
      BY <3>1 DEF WorkInv, IInv, TypeOK
    <3> QED
      BY <3>1, <3>2, <3>3, <1>3
  <2>2. Honest \in SUBSET Ones(aba_values[n]) /\ Ones(aba_values[n]) \in SUBSET Node
    BY <2>1, HonestMany DEF Ones
  <2>3. Cardinality(Honest) <= Cardinality(Ones(aba_values[n])) /\ Cardinality(Honest) \in Nat
        /\ Cardinality(Ones(aba_values[n])) \in Nat
    BY <2>2, HonestMany, Constants, FS_Subset
  <2> QED
    BY <2>3, HonestMany, Constants
<1> QED
  BY <1>2, <1>3

\* No honest node is left in joinall or in a join (lines 53 and 60): N - F ones
\* arrive, which give every agreement all its inputs, and the broadcasts behind
\* the ones end.
THEOREM RestHolds == Spec => []RestReturned
<1>1. ASSUME WorkInv, AtRest, NEW n \in Honest PROVE pc[n] = "returned"
  <2>1. ASSUME NEW q \in Honest, NEW j \in Node PROVE proposal[q][j] # None
    <3>1. aba_values[q][q] # None
      BY <1>1, EndedDecided, HonestMany DEF WorkInv, HonestSucceed, Ends
    <3> QED
      BY <1>1, <3>1, OnesEverywhere, HonestMany DEF WorkInv, ZerosGiven
  <2>2. \A j \in Node : aba_values[n][j] # None
    BY <1>1, <2>1 DEF AtRest, AllVoted
  <2>3. pc[n] # "joinall"
    BY <1>1, <2>2 DEF AtRest
  <2>4. pc[n] # "collect"
    <3> SUFFICES ASSUME pc[n] = "collect" PROVE FALSE
      OBVIOUS
    <3>1. at[n] \in Node
      BY <1>1, Constants DEF WorkInv, IInv, TypeOK, Position, Node
    <3>2. aba_values[n][at[n]] = 1 /\ r_threads[n][at[n]] = "wait"
      BY <1>1 DEF AtRest
    <3> QED
      BY <1>1, <3>1, <3>2, OneEnds DEF AtRest
  <2> QED
    BY <1>1, <2>3, <2>4 DEF WorkInv, IInv, TypeOK, AssertionsHold
<1>2. WorkInv => RestReturned
  BY <1>1 DEF RestReturned
<1> QED
  BY <1>2, WorkInit, WorkNext, PTL DEF Spec
=============================================================================
