-------------------------- MODULE MCChatIdempotency --------------------------
(* Small instances of ChatIdempotency for TLC: two requests of one payload *)
(* and, in the largest, a third that reuses the key for another.           *)
EXTENDS ChatIdempotency, TLC

CONSTANTS r1, r2, r3, same, other

TwoRequests == {r1, r2}
ThreeRequests == {r1, r2, r3}
SamePayload == [r \in ThreeRequests |-> same]
TwoPayloads == [r \in ThreeRequests |-> IF r = r3 THEN other ELSE same]
RequestSymmetry == Permutations(ThreeRequests)
==============================================================================
