--------------------------- MODULE MCOrderService ---------------------------
(* Instances of OrderService for TLC: who saves, and how often.            *)
EXTENDS OrderService, TLC

CONSTANTS t1, t2, t3, u1, u2

\* Every user saves once, as the load generator does.
OwnerEach == (t1 :> u1) @@ (t2 :> u2)

\* One user saves twice and has two listeners.
OwnerSame == (t1 :> u1) @@ (t2 :> u1)

\* ... or three times.
OwnerThree == OwnerSame @@ (t3 :> u1)

\* With one owner, two tasks differ in nothing, nor do two instruments.
SameUserSymmetry == Permutations(Tasks) \cup Permutations(Instruments)

\* One user, one save.
OwnerLone == t1 :> u1
=============================================================================
