----------------------------- MODULE MCTitanNet -----------------------------
(***************************************************************************)
(* Small networks for TLC.  The first authority is also the validator of   *)
(* the genesis block, as in the genesis file that the CLI generates.       *)
(***************************************************************************)
EXTENDS TitanNet

CONSTANTS A, B, C       \* nodes

Two == {A, B}
TwoAuthorities == <<A, B>>
OneAuthority == <<A>>
Three == {A, B, C}
ThreeAuthorities == <<A, B, C>>

\* Every node lists every other node under --peers.
Mesh == [n \in Node |-> Node \ {n}]

\* README, Multi-Machine Deployment: A lists B and C, they list A.
Star == [n \in Node |-> IF n = A THEN Node \ {A} ELSE {A}]

\* Only the later nodes dial: everyone else dials A.
Hub == [n \in Node |-> IF n = A THEN {} ELSE {A}]

\* Lives of the processes: nobody crashes; only A may, twice; only B may.
NoCrash == [n \in Node |-> 1]
CrashesOfA == [n \in Node |-> IF n = A THEN 3 ELSE 1]
CrashOfB == [n \in Node |-> IF n = B THEN 2 ELSE 1]

NoTxs == {}
NoAllocations == [a \in {} |-> 0]

\* Account 1 owns everything; it signs two rival transfers for nonce 0 and
\* one for nonce 1 that it can pay for after only one of them.
SomeTxs == {createTransaction(1, 2, 1, 0, 0), createTransaction(1, 1, 2, 0, 1),
            createTransaction(1, 2, 2, 1, 0)}
SomeAllocations == [a \in {1} |-> 2]

=============================================================================
