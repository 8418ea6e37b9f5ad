-------------------------- MODULE MCEntityExecutor --------------------------
EXTENDS EntityExecutor, TLC

(* A cached row is checked against the table and a deleted one stays, or   *)
(* neither.                                                                *)
Declarations == {[ownership |-> "sql", softDelete |-> TRUE],
                 [ownership |-> "pass", softDelete |-> FALSE]}

(* Requests are interchangeable, and so are the values of the column.      *)
Symmetry == Permutations(Handlers) \cup Permutations(Statuses)

(* Nothing is claimed of a cache that has been tainted, nor of a row whose *)
(* projection failed unnoticed: such states are not explored further.      *)
Sound == ~tainted /\ ~swallowed
=============================================================================
