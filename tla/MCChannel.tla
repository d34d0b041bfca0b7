------------------------------ MODULE MCChannel -----------------------------
(* Topics of one group for model checking Channel: the group and one type. *)
EXTENDS Channel

MCTopics == {[group |-> 1, type |-> 0], [group |-> 1, type |-> 1]}

=============================================================================
