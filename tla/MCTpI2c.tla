------------------------------ MODULE MCTpI2c ------------------------------
(* Values for checking TpI2c: two words per axis that differ in every bit, *)
(* and words of different axes that differ in every nibble.                *)
EXTENDS TpI2c, FiniteSets

Bits12(S) == [b \in 0..11 |-> IF b \in S THEN 1 ELSE 0]
Complement(w) == [b \in 0..11 |-> 1 - w[b]]
Pair(w) == {w, Complement(w)}

MCSamples == [a \in {"Z", "X", "Y"} |->
                CASE a = "Z" -> Pair(Bits12({11, 9, 4, 3, 0}))
                  [] a = "X" -> Pair(Bits12({10, 7, 6, 2}))
                  [] a = "Y" -> Pair(Bits12({9, 8, 5, 4, 2, 1}))]
=============================================================================
