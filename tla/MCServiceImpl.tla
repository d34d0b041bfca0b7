---------------------------- MODULE MCServiceImpl ----------------------------
(* ServiceImpl from a table that has been in use: sessions have come and    *)
(* gone in one slot or in two, and the next number of each is the last      *)
(* before they start again.  So two connections are enough for a slot to be *)
(* taken again or beside a new one, for its number to pass the wrap, and    *)
(* for the limit of slots to be met.                                        *)
EXTENDS ServiceImpl

\* The limit is met at two slots; with none to begin with it takes a third
\* connection.
Used == {1, 2}

MCInit ==
    /\ \E n \in Used :
          /\ slots = [i \in 1 .. n |-> [session |-> NoSession, seq |-> Wrap - 1]]
          /\ freeSlots = [i \in 1 .. n |-> i - 1]
    /\ writing = FALSE
    /\ acceptors = {} /\ connectors = {} /\ keys = 0
    /\ accepting = {} /\ connecting = {}
    /\ sessionCount = 0 /\ connectorCount = 0
    /\ live = {} /\ service = "running" /\ crash = "none"
    /\ pc = [t \in Threads |-> "idle"]
    /\ loc = [t \in Threads |-> NoLocals]
    /\ sockets = 0
    /\ raced = FALSE /\ early = FALSE /\ doubled = FALSE

MCSpec == MCInit /\ [][Next]_vars /\ Fairness

=============================================================================
