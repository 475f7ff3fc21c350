----------------------------- MODULE MCAcyclic -----------------------------
(***************************************************************************)
(* Values for AcyclicServices: an object with a two-octet index that holds   *)
(* three octets at first, and one that takes fourteen, a zero octet among   *)
(* them: its request needs ExtLength and more than 16 one-octet segments.   *)
(* The device raises two events at a time.                                  *)
(***************************************************************************)
EXTENDS AcyclicServices, TLC

Object == <<{4, 64}, {1}>>
Plain == <<{4}, {8}, {16}>>
Long == [i \in 1..14 |-> IF i = 3 THEN {} ELSE {4, 32}]

MCObjects == {Object}
MCStore == Object :> Plain
MCWrites == {<<Object, Long>>}

Warning == <<{32, 2}, {1}, {4}>>
Fault == <<{16, 32, 1}, {2}, {8}>>

MCRaisable == {(1 :> Fault) @@ (2 :> Warning)}

=============================================================================
