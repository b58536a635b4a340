------------------------------ MODULE Positions -------------------------------
(* The places of a text or a document at which something is found.            *)
EXTENDS Integers, FiniteSets

(* The positions in the order of the text *)
Ascending(S) ==
    [n \in 1 .. Cardinality(S) |-> CHOOSE i \in S : Cardinality({k \in S : k < i}) = n - 1]
=============================================================================
