------------------------------ MODULE MCStorage ------------------------------
(* Small instances of the storage backends for TLC.                        *)
EXTENDS StorageProperties, TLC
CONSTANTS c1, c2

NoLimit == [cost |-> 0, burst |-> 1]
Unlimited == [read |-> NoLimit, write |-> NoLimit, perDay |-> 0]
MCLimits == {[read |-> [cost |-> 1, burst |-> 2], write |-> [cost |-> 2, burst |-> 1], perDay |-> 1]}
MCUnlimited == {Unlimited}

Sym == Permutations({c1, c2})
=============================================================================
