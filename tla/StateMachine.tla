---------------------------- MODULE StateMachine ----------------------------
(***************************************************************************)
(* lax::util::state_machine and state: a tree of states of which a path    *)
(* from the root is active (include/lax/util/state_machine.hpp,            *)
(* state.hpp).                                                             *)
(*                                                                         *)
(* States are numbered in the order in which they are added; 0 is the      *)
(* root.  tran() queues a transition (safe) or makes it at once            *)
(* (immediate); execute() makes the queued ones and then calls on_execute()*)
(* along the active path.  Every enter() and exit() is a step, since their *)
(* callbacks may queue further transitions; those of on_execute() may also *)
(* make one at once.  Keys are used for one state each.                    *)
(***************************************************************************)
EXTENDS Naturals, Sequences

CONSTANTS MaxStates,   \* bound on the states added below the root
          MaxQueue     \* bound on the transitions that wait

ASSUME MachineAssumption == MaxStates \in Nat /\ MaxQueue \in Nat

VARIABLES parent,    \* the parent of each added state
          active,    \* the states whose active_ is set
          child,     \* active_child_ of each state, 0 for none
          current,   \* current_
          q,         \* q_, the targets of the queued transitions
          path,      \* what is left of the path that tran_to() follows
          pc, ret,   \* where the machine is, and where tran_to() returns to
          at         \* the state whose on_execute() runs

vars == <<parent, active, child, current, q, path, pc, ret, at>>

root == 0
States == 0 .. Len(parent)
Targets == 0 .. (Len(parent) + 1)   \* the last one is no state's key

Init ==
    /\ parent = <<>> /\ active = {root} /\ current = root /\ at = root
    /\ child = [s \in 0 .. MaxStates |-> 0]
    /\ q = <<>> /\ path = <<>> /\ pc = "idle" /\ ret = "idle"

-----------------------------------------------------------------------------
(* The path of a transition.                                               *)

\* The children of a state.
Children(s) == {c \in 1 .. Len(parent) : parent[c] = s}

\* has(): the state or one of its children's subtrees has the key.
has(s, target) ==
    LET holds[n \in States] == n = target \/ \E c \in Children(n) : holds[c]
    IN  holds[s]

Node(code, s) == [code |-> code, state |-> s]

\* The node for a state that has the target, and the child that has it.
Here(s, target) ==
    Node(IF s \in active THEN "noop" ELSE IF s = target THEN "target" ELSE "enter", s)
Towards(s, target) == CHOOSE c \in Children(s) : has(c, target)

\* A path that lists a state's exit behind what follows it.
ExitsLast(s, target) ==
    LET to[n \in States] ==
            IF has(n, target)
            THEN <<Here(n, target)>> \o (IF n = target THEN <<>> ELSE to[Towards(n, target)])
            ELSE IF n = root THEN <<>>
                 ELSE LET rest == to[parent[n]]
                      IN  IF rest = <<>> THEN <<>> ELSE Append(rest, Node("exit", n))
    IN  to[s]

\* get_transition_path() and get_child_path(); the empty path is their false.
get_transition_path(s, target) ==
    LET to[n \in States] ==
            IF has(n, target)
            THEN <<Here(n, target)>> \o (IF n = target THEN <<>> ELSE to[Towards(n, target)])
            ELSE IF n = root THEN <<>>
                 ELSE LET rest == to[parent[n]]
                      IN  IF rest = <<>> THEN <<>> ELSE <<Node("exit", n)>> \o rest
    IN  to[s]

-----------------------------------------------------------------------------
(* Building the tree and asking for transitions.                           *)

\* add() of a new state under an existing one.
add(p) ==
    /\ pc = "idle" /\ Len(parent) < MaxStates
    /\ parent' = Append(parent, p)
    /\ UNCHANGED <<active, child, current, q, path, pc, ret, at>>

\* tran() with option safe, from outside or from a callback.
TranSafe(target) ==
    /\ pc \in {"idle", "callback", "exec"} /\ Len(q) < MaxQueue
    /\ q' = Append(q, target)
    /\ UNCHANGED <<parent, active, child, current, path, pc, ret, at>>

\* tran_to(): nothing for the current state or an unknown one.
tran_to(target, back) ==
    LET nodes == IF current = target THEN <<>> ELSE get_transition_path(current, target)
    IN  /\ path' = nodes
        /\ pc' = "path" /\ ret' = back
        /\ UNCHANGED <<parent, active, child, current, q, at>>

\* tran() with option immediate, from outside or from an on_execute().
TranImmediate(target) ==
    /\ pc \in {"idle", "exec"}
    /\ tran_to(target, pc)

-----------------------------------------------------------------------------
(* Following a path.                                                       *)

Enter(s) ==
    /\ active' = active \cup {s}
    /\ child' = IF s = root THEN child ELSE [child EXCEPT ![parent[s]] = s]

\* An exit() that leaves its parent's active_child_ alone.
ExitKeepsLink(s) ==
    /\ active' = active \ {s}
    /\ UNCHANGED child

Exit(s) ==
    /\ active' = active \ {s}
    /\ child' = IF s # root /\ child[parent[s]] = s THEN [child EXCEPT ![parent[s]] = 0] ELSE child

\* A step that leaves current_ alone at a state that is active already.
StepKeepsCurrent(n) ==
    \/ /\ n.code \in {"enter", "target"} /\ Enter(n.state)
       /\ current' = IF n.code = "target" THEN n.state ELSE current
    \/ /\ n.code = "exit" /\ Exit(n.state) /\ UNCHANGED current
    \/ /\ n.code = "noop" /\ UNCHANGED <<active, child, current>>

Step(n) ==
    \/ /\ n.code = "enter" /\ Enter(n.state) /\ UNCHANGED current
    \/ /\ n.code = "target" /\ Enter(n.state) /\ current' = n.state
    \/ /\ n.code = "exit" /\ Exit(n.state) /\ UNCHANGED current
    \/ /\ n.code = "noop" /\ current' = n.state /\ UNCHANGED <<active, child>>

\* tran_to() is under way.
Following == pc \in {"path", "callback"}

\* The next node; the callback of an enter() or exit() runs at its end.
PathStep ==
    /\ Following /\ path # <<>>
    /\ Step(Head(path))
    /\ path' = Tail(path)
    /\ pc' = IF Head(path).code = "noop" THEN "path" ELSE "callback"
    /\ UNCHANGED <<parent, q, ret, at>>

\* tran_to() returns; process_transitions() then removes what it has done.
PathDone ==
    /\ Following /\ path = <<>>
    /\ pc' = ret
    /\ q' = IF ret = "process" THEN Tail(q) ELSE q
    /\ UNCHANGED <<parent, active, child, current, path, ret, at>>

-----------------------------------------------------------------------------
(* execute().                                                              *)

execute ==
    /\ pc = "idle"
    /\ pc' = "process"
    /\ UNCHANGED <<parent, active, child, current, q, path, ret, at>>

\* process_transitions() takes the transition at the front.
ProcessFront ==
    /\ pc = "process" /\ q # <<>>
    /\ tran_to(Head(q), "process")

\* When none is left, the root's on_execute() is called.
ProcessDone ==
    /\ pc = "process" /\ q = <<>>
    /\ pc' = "exec" /\ at' = root
    /\ UNCHANGED <<parent, active, child, current, q, path, ret>>

\* on_execute() returns and the active child is next, if there is one.
Descend ==
    /\ pc = "exec"
    /\ IF child[at] # 0 /\ child[at] \in active
       THEN at' = child[at] /\ UNCHANGED pc
       ELSE at' = root /\ pc' = "idle"
    /\ UNCHANGED <<parent, active, child, current, q, path, ret>>

Next ==
    \/ \E p \in States : add(p)
    \/ \E t \in Targets : TranSafe(t) \/ TranImmediate(t)
    \/ PathStep \/ PathDone
    \/ execute \/ ProcessFront \/ ProcessDone \/ Descend

Spec == Init /\ [][Next]_vars

-----------------------------------------------------------------------------

\* A state and the states above it.
Above(s) ==
    LET up[n \in States] == IF n = root THEN {root} ELSE {n} \cup up[parent[n]] IN up[s]

\* p leads from state s to the target along the edges of the tree: it leaves the
\* states that do not hold the target, the innermost first, turns at the first
\* that does, and enters the states on the way down, the outermost first.
IsTransition(p, s, target) ==
    \E k \in DOMAIN p :
        /\ p[1].state = s /\ p[Len(p)].state = target
        /\ \A i \in 1 .. k - 1 :
              /\ p[i].code = "exit" /\ p[i].state \notin Above(target)
              /\ p[i + 1].state = parent[p[i].state]
        /\ p[k].code = "noop" /\ p[k].state \in Above(s) \cap Above(target)
        /\ \A i \in k + 1 .. Len(p) :
              /\ p[i].code = IF i = Len(p) THEN "target" ELSE "enter"
              /\ p[i].state \notin Above(s) /\ p[i - 1].state = parent[p[i].state]

\* get_transition_path() finds the path of a transition, in every tree and
\* from every state; for a key that is not there it finds none.
PathIsReference ==
    ~Following =>
        /\ \A t \in States : IsTransition(get_transition_path(current, t), current, t)
        /\ get_transition_path(current, Len(parent) + 1) = <<>>

\* The active states are a path from the root, and active_child_ leads along
\* it, even between the steps of a transition: no state is entered before its
\* parent or left before its children.  Between transitions the path ends in
\* current_.
ActiveIsPath ==
    \E s \in States :
        /\ active = Above(s)
        /\ \A a \in 0 .. MaxStates :
              child[a] = IF \E c \in active \ {root} : parent[c] = a
                         THEN CHOOSE c \in active \ {root} : parent[c] = a ELSE 0
        /\ ~Following => s = current

\* What enter() and exit() assert of the state they are called for holds at
\* every node of a path, though the path was made before its first node ran;
\* and tran_to() finds current_ active.
VerifiesHold ==
    /\ ~Following => current \in active
    /\ Following /\ path # <<>> =>
          LET n == Head(path)
          IN  /\ n.code \in {"enter", "target"} =>
                    /\ n.state \notin active
                    /\ n.state # root => parent[n.state] \in active /\ child[parent[n.state]] # n.state
              /\ n.code = "exit" => n.state \in active

\* When the path that process_transitions() follows has come to its end,
\* current_ is the state that the transition at the front asked for, whatever
\* the callbacks on the way have queued, unless there is no such state.
TransitionArrives ==
    Following /\ ret = "process" /\ path = <<>> /\ Head(q) \in States => current = Head(q)

=============================================================================
