-------------------------- MODULE MCProducerTable --------------------------
(* Instances of the producers' list and table for TLC. *)
EXTENDS ProducerTable

CONSTANTS t1, t2, t3, k1, k2, c1, c2

Few == {[who |-> {t1, t2, t3}, failures |-> 1, calls |-> 3],
        [who |-> {t1, k1, c1}, failures |-> 0, calls |-> 2],
        [who |-> {k1, k2, c1}, failures |-> 0, calls |-> 2],
        [who |-> {t1, c1, c2}, failures |-> 0, calls |-> 2]}
=============================================================================
