------------------------------ MODULE MCOrders ------------------------------
(***************************************************************************)
(* A small instance of Orders: every subscription pays for one query.  The *)
(* workers are interchangeable.                                            *)
(***************************************************************************)
EXTENDS Orders, TLC

OneUnit == [s \in Subs |-> 1]

\* A behaviour is followed up to the third answer, with a failure up to the
\* second, and until both orders have expired.
FewAnswers ==
    /\ MapThenSumSet(LAMBDA s : served[s], Subs) + faults <= 3
    /\ \E s \in Subs : expire[s] # "lapsed"

WorkersInterchangeable == Permutations(Workers)
=============================================================================
