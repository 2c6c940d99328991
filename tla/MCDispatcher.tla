--------------------------- MODULE MCDispatcher ---------------------------
(***************************************************************************)
(* Instances of Dispatcher for TLC: two calls of one logical order (same   *)
(* key), requests of different kinds without keys, or a single order.      *)
(***************************************************************************)
EXTENDS DispatcherRefinement

CONSTANTS r1, r2, r3, k1

One == {r1}
OneOrder == [r \in One |-> "order"]
NoKeyOne == [r \in One |-> NoKey]
PrintOne == [r \in One |-> 1]

Two == {r1, r2}
TwoOrders == [r \in Two |-> "order"]
OrderAndCancel == [TwoOrders EXCEPT ![r2] = "cancel"]
OrderAndQuery == [TwoOrders EXCEPT ![r2] = "query"]
SameKey == [r \in Two |-> k1]
NoKeys == [r \in Two |-> NoKey]

\* The same parameters, or different ones.
SamePrint == [r \in Two |-> 1]
Prints == [SamePrint EXCEPT ![r2] = 2]

Three == {r1, r2, r3}
OrdersAndQuery == [r \in Three |-> IF r = r3 THEN "query" ELSE "order"]
NoKeysThree == [r \in Three |-> NoKey]
PrintsThree == [r \in Three |-> 1]

\* The two orders differ in nothing but their name.
AlikeOrders == Permutations(Two)

=============================================================================
