----------------------------- MODULE MCCatalog -----------------------------
(* Instances of Catalog for TLC. *)
EXTENDS Catalog, TLC

CONSTANTS c1, c2, c3, n1, n2, s1, s2, s3

\* Payloads with one field and with two, with nulls, and with none.
MCUpdates ==
    {p \in Update : Cardinality(DOMAIN p) <= 1}
    \cup {p \in Update : DOMAIN p = {"code", "is_active"} /\ Null \notin {p[f] : f \in DOMAIN p}}

\* Sessions, codes and names are interchangeable.
Symmetry == Permutations(Sessions) \cup Permutations(Codes) \cup Permutations(Names)
=============================================================================
