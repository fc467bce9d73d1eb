--------------------------- MODULE MCSyncContent ---------------------------
(* SyncContent on a small instance.                                        *)
EXTENDS SyncContent, TLC

CONSTANTS d1, d2, k1, k2, r1, r2, r3, p1, p2

OneKey == [d \in Devices |-> k1]

KeyEach == [d \in Devices |-> IF d = d1 THEN k1 ELSE k2]

(* Request identities are interchangeable, and so are the payloads and the *)
(* devices that share a key.                                               *)
Symmetric == Permutations(Requests) \cup Permutations(Payloads) \cup Permutations(Devices)

SymmetricRequests == Permutations(Requests) \cup Permutations(Payloads)
=============================================================================
