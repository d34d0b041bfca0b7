------------------------ MODULE StateMachineProofs --------------------------
(***************************************************************************)
(* Proofs about the state machine, for every tree of states, every order   *)
(* of transitions and calls, and every bound on either.                    *)
(***************************************************************************)
EXTENDS StateMachine, SequenceTheorems, WellFoundedInduction, TLAPS

\* A parent is there before its children.
Tree(par) == par \in Seq(Nat) /\ \A c \in DOMAIN par : par[c] < c

Nodes(par) == 0 .. Len(par)

\* The states above s in a tree.
AboveIn(par, s) ==
    LET up[n \in Nodes(par)] == IF n = root THEN {root} ELSE {n} \cup up[par[n]] IN up[s]

Codes == {"noop", "enter", "target", "exit"}
PathNode == [code : Codes, state : States]

\* Every variable has its type; process_transitions() has yet to remove the
\* transition that it makes.
Types ==
    /\ Tree(parent) /\ Len(parent) <= MaxStates
    /\ active \subseteq States /\ current \in States /\ at \in States
    /\ child \in [0 .. MaxStates -> 0 .. MaxStates]
    /\ q \in Seq(Nat) /\ path \in Seq(PathNode)
    /\ pc \in {"idle", "callback", "path", "process", "exec"} /\ ret \in {"idle", "process", "exec"}
    /\ Following /\ ret = "process" => q # <<>>

\* Where the active path ends before and after a node is followed.
Before(n) == IF n.code \in {"exit", "noop"} THEN n.state ELSE parent[n.state]
After(n) == IF n.code = "exit" THEN parent[n.state] ELSE n.state

\* p can be followed from s, each node where the one before it ends, and it
\* sets current_ last.
Walks(s, p) ==
    /\ p = <<>> => s = current
    /\ p # <<>> => s = Before(p[1]) /\ p[Len(p)].code \in {"noop", "target"}
    /\ \A i \in DOMAIN p : p[i].code # "noop" => p[i].state # root
    /\ \A i \in DOMAIN p : i > 1 => Before(p[i]) = After(p[i - 1])

\* The active states are those above s, where the rest of the path begins.
EndsAt(s) ==
    /\ active = AboveIn(parent, s)
    /\ IF Following THEN Walks(s, path) ELSE s = current

\* active_child_ leads from each active state to the next, and nowhere else.
Linked ==
    /\ \A c \in active \ {root} : child[parent[c]] = c
    /\ \A a \in DOMAIN child : child[a] # 0 => child[a] \in active /\ parent[child[a]] = a

\* The inductive invariant.
IInv == Types /\ (\E s \in States : EndsAt(s)) /\ Linked

-----------------------------------------------------------------------------
(* Recursion along a tree.                                                 *)

\* A set of naturals that is not empty has a least element.
LEMMA Least ==
    ASSUME NEW S \in SUBSET Nat, S # {}
    PROVE  \E x \in S : \A y \in S : x <= y
<1> DEFINE R == OpToRel(<, Nat)
<1>1. IsWellFoundedOn(R, Nat)
  BY NatLessThanWellFounded
<1>2. \A x, y \in Nat : x < y => <<x, y>> \in R
  BY DEF OpToRel
<1> HIDE DEF R
<1>3. PICK x \in S : \A y \in S : ~(<<y, x>> \in R)
  BY <1>1, WFMin
<1>4. \A y \in S : ~(y < x)
  BY <1>2, <1>3
<1>5. QED
  BY <1>4

\* What holds at a number when it holds at all smaller ones holds at all.
LEMMA Induction ==
    ASSUME NEW P \in SUBSET Nat,
           \A n \in Nat : (\A m \in Nat : m < n => m \in P) => n \in P
    PROVE  P = Nat
<1>1. SUFFICES ASSUME Nat \ P # {} PROVE FALSE
  OBVIOUS
<1>2. PICK x \in Nat \ P : \A y \in Nat \ P : x <= y
  BY <1>1, Least
<1>3. \A m \in Nat : m < x => m \in P
  BY <1>2
<1>4. QED
  BY <1>2, <1>3

\* A natural number that is not 0 follows another.
LEMMA Predecessor == ASSUME NEW k \in Nat, k # 0 PROVE \E j \in Nat : k = j + 1
<1>1. k - 1 \in Nat /\ k = (k - 1) + 1
  OBVIOUS
<1>2. QED
  BY <1>1

\* Below a successor there is its predecessor and what is smaller.
LEMMA Smaller == ASSUME NEW m \in Nat, NEW j \in Nat, m < j + 1, m # j PROVE m < j
OBVIOUS

\* G computes a value at each n in S, from those a function has at the elements
\* of lower rank.
FromBelow(S, T, rank, G) ==
    /\ T # {} /\ \E b \in Nat : \A n \in S : rank[n] < b
    /\ rank \in [S -> Nat] /\ G \in [S \X [S -> T] -> T]
    /\ \A n \in S : \A f, g \in [S -> T] :
          (\A m \in S : rank[m] < rank[n] => f[m] = g[m]) => G[<<n, f>>] = G[<<n, g>>]

\* A function whose value at n is computed from its values at elements of
\* lower rank exists.
LEMMA RecursionExists ==
    ASSUME NEW S, NEW T, NEW rank, NEW G, FromBelow(S, T, rank, G)
    PROVE  \E f \in [S -> T] : \A n \in S : f[n] = G[<<n, f>>]
<1> DEFINE Good(f, k) == \A n \in S : rank[n] < k => f[n] = G[<<n, f>>]
           P == {k \in Nat : \E f \in [S -> T] : Good(f, k)}
<1> USE DEF FromBelow
<1>b. PICK t0 \in T, b \in Nat : \A n \in S : rank[n] < b
  OBVIOUS
<1>1. ASSUME NEW k \in Nat, \A m \in Nat : m < k => m \in P PROVE k \in P
  <2>1. CASE k = 0
    <3>1. [n \in S |-> t0] \in [S -> T]
      OBVIOUS
    <3>2. Good([n \in S |-> t0], 0)
      OBVIOUS
    <3> HIDE DEF Good
    <3>3. QED
      BY <2>1, <3>1, <3>2
  <2>2. CASE k # 0
    <3>1. PICK j \in Nat : k = j + 1
      BY <2>2, Predecessor
    <3>2. j \in P
      <4>1. j < k
        BY <3>1
      <4> HIDE DEF P
      <4>2. QED
        BY <4>1, <1>1
    <3>3. PICK f \in [S -> T] : Good(f, j)
      BY <3>2
    <3>4. PICK g : g = [n \in S |-> IF rank[n] = j THEN G[<<n, f>>] ELSE f[n]]
      OBVIOUS
    <3>5. \A n \in S : G[<<n, f>>] \in T /\ f[n] \in T
      OBVIOUS
    <3>6. g \in [S -> T]
      BY <3>4, <3>5
    <3>7. \A n \in S : g[n] = IF rank[n] = j THEN G[<<n, f>>] ELSE f[n]
      BY <3>4
    <3>8. ASSUME NEW n \in S, rank[n] < k PROVE g[n] = G[<<n, g>>]
      <4>1. \A m \in S : rank[m] < rank[n] => f[m] = g[m]
        <5>1. TAKE m \in S
        <5>2. HAVE rank[m] < rank[n]
        <5>3. rank[m] \in Nat /\ rank[n] \in Nat
          OBVIOUS
        <5>4. rank[m] # j
          BY <5>2, <5>3, <3>8, <3>1
        <5>5. QED
          BY <5>4, <3>7
      <4>2. G[<<n, f>>] = G[<<n, g>>]
        BY <4>1, <3>6
      <4>3. CASE rank[n] = j
        BY <4>2, <4>3, <3>7
      <4>4. CASE rank[n] # j
        <5>1. rank[n] \in Nat
          OBVIOUS
        <5>2. rank[n] < j
          <6>1. rank[n] < j + 1
            BY <3>1, <3>8
          <6>2. QED
            BY <5>1, <6>1, <4>4, Smaller
        <5>3. f[n] = G[<<n, f>>]
          BY <5>2, <3>3
        <5>4. QED
          BY <5>3, <4>2, <4>4, <3>7
      <4>5. QED
        BY <4>3, <4>4
    <3>9. Good(g, k)
      BY <3>8
    <3> HIDE DEF Good
    <3>10. QED
      BY <3>6, <3>9
  <2>3. QED
    BY <2>1, <2>2
<1>2. P = Nat
  <2>1. P \in SUBSET Nat
    OBVIOUS
  <2> HIDE DEF P
  <2>2. QED
    BY <2>1, <1>1, Induction
<1>3. PICK f \in [S -> T] : Good(f, b)
  <2>1. b \in P
    BY <1>2
  <2>2. QED
    BY <2>1
<1>4. QED
  BY <1>3, <1>b

-----------------------------------------------------------------------------
(* The states above a state.                                               *)

\* In a tree the root is above itself, and a state is below what is above its
\* parent.
LEMMA AboveEquation ==
    ASSUME NEW par, Tree(par)
    PROVE  /\ AboveIn(par, root) = {root}
           /\ \A c \in DOMAIN par : AboveIn(par, c) = {c} \cup AboveIn(par, par[c])
<1> DEFINE up == CHOOSE up : up = [n \in Nodes(par) |-> IF n = root THEN {root} ELSE {n} \cup up[par[n]]]
<1> HIDE DEF up
<1>s. PICK S : S = Nodes(par)
  OBVIOUS
<1>p. PICK T : T = SUBSET Nat
  OBVIOUS
<1>q. PICK G : G = [x \in S \X [S -> T] |-> IF x[1] = root THEN {root} ELSE {x[1]} \cup x[2][par[x[1]]]]
  OBVIOUS
<1>1. /\ Len(par) \in Nat /\ DOMAIN par = 1 .. Len(par)
      /\ \A c \in DOMAIN par : par[c] \in Nat /\ par[c] < c
  BY DEF Tree
<1>2. /\ S \subseteq Nat /\ root \in S
      /\ \A n \in S : n < Len(par) + 1 /\ (n # root => n \in DOMAIN par /\ par[n] \in S /\ par[n] < n)
  BY <1>1, <1>s DEF Nodes, root
<1>3. G \in [S \X [S -> T] -> T]
  <2>1. ASSUME NEW n \in S, NEW f \in [S -> T] PROVE (IF n = root THEN {root} ELSE {n} \cup f[par[n]]) \in T
    <3>1. CASE n = root
      BY <3>1, <1>p DEF root
    <3>2. CASE n # root
      BY <3>2, <1>2, <1>p
    <3>3. QED
      BY <3>1, <3>2
  <2>2. QED
    BY <2>1, <1>q
<1>4. \A n \in S : \A f \in [S -> T] : G[<<n, f>>] = IF n = root THEN {root} ELSE {n} \cup f[par[n]]
  BY <1>q
<1>t. {} \in T
  BY <1>p
<1>5. PICK b \in Nat : b = Len(par) + 1
  BY <1>1
<1>6. PICK rank : rank = [n \in S |-> n]
  OBVIOUS
<1>7. rank \in [S -> Nat]
  BY <1>2, <1>6
<1>8. \A n \in S : rank[n] = n
  BY <1>6
<1>r. \A n \in S : rank[n] < b
  BY <1>2, <1>5, <1>8
<1>g. ASSUME NEW n \in S, NEW f \in [S -> T], NEW g \in [S -> T],
             \A m \in S : rank[m] < rank[n] => f[m] = g[m]
      PROVE  G[<<n, f>>] = G[<<n, g>>]
  <2>1. n # root => f[par[n]] = g[par[n]]
    BY <1>2, <1>8, <1>g
  <2>2. G[<<n, f>>] = IF n = root THEN {root} ELSE {n} \cup f[par[n]]
    BY <1>4
  <2>3. G[<<n, g>>] = IF n = root THEN {root} ELSE {n} \cup g[par[n]]
    BY <1>4
  <2>4. QED
    BY <2>1, <2>2, <2>3
<1>e. \E f \in [S -> T] : \A n \in S : f[n] = G[<<n, f>>]
  <2>1. FromBelow(S, T, rank, G)
    BY <1>3, <1>t, <1>7, <1>r, <1>g DEF FromBelow
  <2>2. QED
    BY <2>1, RecursionExists
<1>9. PICK f \in [S -> T] : \A n \in S : f[n] = IF n = root THEN {root} ELSE {n} \cup f[par[n]]
  <2>1. PICK f \in [S -> T] : \A n \in S : f[n] = G[<<n, f>>]
    BY <1>e
  <2>2. \A n \in S : f[n] = IF n = root THEN {root} ELSE {n} \cup f[par[n]]
    BY <2>1, <1>4
  <2>3. QED
    BY <2>2
<1>10. f = [n \in S |-> IF n = root THEN {root} ELSE {n} \cup f[par[n]]]
  BY <1>9
<1>11. up = [n \in S |-> IF n = root THEN {root} ELSE {n} \cup up[par[n]]]
  BY <1>10, <1>s DEF up
<1>12. \A n : AboveIn(par, n) = up[n]
  BY DEF AboveIn, up
<1>13. \A n \in S : up[n] = IF n = root THEN {root} ELSE {n} \cup up[par[n]]
  BY <1>11
<1>14. \A c \in DOMAIN par : c \in S /\ c # root
  BY <1>1, <1>s DEF Nodes, root
<1>15. QED
  BY <1>12, <1>13, <1>14, <1>2

\* What is known of a node of a tree.
LEMMA TreeFacts ==
    ASSUME NEW par, Tree(par)
    PROVE  /\ Nodes(par) \subseteq Nat /\ root \in Nodes(par)
           /\ \A n \in Nodes(par) : n # root => n \in DOMAIN par
           /\ \A c \in DOMAIN par : c \in Nodes(par) /\ c # root /\ par[c] \in Nodes(par) /\ par[c] < c
  BY DEF Tree, Nodes, root

\* A state is above itself, the root is above it, and no later state is.
LEMMA AboveBounds ==
    ASSUME NEW par, Tree(par)
    PROVE  \A s \in Nodes(par) :
              /\ s \in AboveIn(par, s) /\ root \in AboveIn(par, s)
              /\ \A x \in AboveIn(par, s) : x \in Nodes(par) /\ x <= s
<1> DEFINE Q(s) == /\ s \in AboveIn(par, s) /\ root \in AboveIn(par, s)
                   /\ \A x \in AboveIn(par, s) : x \in Nodes(par) /\ x <= s
           P == {s \in Nat : s \in Nodes(par) => Q(s)}
<1>1. ASSUME NEW s \in Nat, \A m \in Nat : m < s => m \in P PROVE s \in P
  <2>1. SUFFICES ASSUME s \in Nodes(par) PROVE Q(s)
    OBVIOUS
  <2>2. CASE s = root
    <3>1. AboveIn(par, root) = {root}
      BY AboveEquation
    <3>2. QED
      BY <2>1, <2>2, <3>1 DEF root
  <2>3. CASE s # root
    <3>1. s \in DOMAIN par /\ par[s] \in Nodes(par) /\ par[s] < s /\ par[s] \in Nat
      BY <2>1, <2>3, TreeFacts
    <3>2. Q(par[s])
      BY <3>1, <1>1
    <3>3. AboveIn(par, s) = {s} \cup AboveIn(par, par[s])
      BY <3>1, AboveEquation
    <3>4. ASSUME NEW x \in AboveIn(par, s) PROVE x \in Nodes(par) /\ x <= s
      <4>1. CASE x = s
        BY <4>1, <2>1
      <4>2. CASE x \in AboveIn(par, par[s])
        <5>1. x \in Nodes(par) /\ x <= par[s]
          BY <4>2, <3>2
        <5>2. x \in Nat
          BY <5>1, TreeFacts
        <5>3. QED
          BY <5>1, <5>2, <3>1
      <4>3. QED
        BY <4>1, <4>2, <3>3
    <3>5. QED
      BY <3>2, <3>3, <3>4
  <2>4. QED
    BY <2>2, <2>3
<1>2. P = Nat
  <2>1. P \in SUBSET Nat
    OBVIOUS
  <2> HIDE DEF P
  <2>2. QED
    BY <2>1, <1>1, Induction
<1>3. QED
  BY <1>2, TreeFacts

\* What is above a state above s is above s.
LEMMA AboveUp ==
    ASSUME NEW par, Tree(par)
    PROVE  \A s \in Nodes(par) : \A x \in AboveIn(par, s) : AboveIn(par, x) \subseteq AboveIn(par, s)
<1> DEFINE Q(s) == \A x \in AboveIn(par, s) : AboveIn(par, x) \subseteq AboveIn(par, s)
           P == {s \in Nat : s \in Nodes(par) => Q(s)}
<1>1. ASSUME NEW s \in Nat, \A m \in Nat : m < s => m \in P PROVE s \in P
  <2>1. SUFFICES ASSUME s \in Nodes(par) PROVE Q(s)
    OBVIOUS
  <2>2. CASE s = root
    <3>1. AboveIn(par, root) = {root}
      BY AboveEquation
    <3>2. QED
      BY <2>2, <3>1
  <2>3. CASE s # root
    <3>1. s \in DOMAIN par /\ par[s] \in Nodes(par) /\ par[s] < s /\ par[s] \in Nat
      BY <2>1, <2>3, TreeFacts
    <3>2. Q(par[s])
      BY <3>1, <1>1
    <3>3. AboveIn(par, s) = {s} \cup AboveIn(par, par[s])
      BY <3>1, AboveEquation
    <3>4. QED
      BY <3>2, <3>3
  <2>4. QED
    BY <2>2, <2>3
<1>2. P = Nat
  <2>1. P \in SUBSET Nat
    OBVIOUS
  <2> HIDE DEF P
  <2>2. QED
    BY <2>1, <1>1, Induction
<1>3. QED
  BY <1>2, TreeFacts

\* A state above another one has a child above it, or is it.
LEMMA AboveChild ==
    ASSUME NEW par, Tree(par)
    PROVE  \A s \in Nodes(par) : \A x \in AboveIn(par, s) :
              x = s \/ \E c \in DOMAIN par : par[c] = x /\ c \in AboveIn(par, s)
<1> DEFINE Q(s) == \A x \in AboveIn(par, s) :
                      x = s \/ \E c \in DOMAIN par : par[c] = x /\ c \in AboveIn(par, s)
           P == {s \in Nat : s \in Nodes(par) => Q(s)}
<1>1. ASSUME NEW s \in Nat, \A m \in Nat : m < s => m \in P PROVE s \in P
  <2>1. SUFFICES ASSUME s \in Nodes(par) PROVE Q(s)
    OBVIOUS
  <2>2. CASE s = root
    <3>1. AboveIn(par, root) = {root}
      BY AboveEquation
    <3>2. QED
      BY <2>2, <3>1
  <2>3. CASE s # root
    <3>1. s \in DOMAIN par /\ par[s] \in Nodes(par) /\ par[s] < s /\ par[s] \in Nat
      BY <2>1, <2>3, TreeFacts
    <3>2. Q(par[s])
      BY <3>1, <1>1
    <3>3. AboveIn(par, s) = {s} \cup AboveIn(par, par[s])
      BY <3>1, AboveEquation
    <3>4. QED
      BY <3>1, <3>2, <3>3
  <2>4. QED
    BY <2>2, <2>3
<1>2. P = Nat
  <2>1. P \in SUBSET Nat
    OBVIOUS
  <2> HIDE DEF P
  <2>2. QED
    BY <2>1, <1>1, Induction
<1>3. QED
  BY <1>2, TreeFacts

\* The states above s are the same when another state has been added.
LEMMA AboveAppend ==
    ASSUME NEW par, Tree(par), NEW p \in Nodes(par)
    PROVE  /\ Tree(Append(par, p))
           /\ \A s \in Nodes(par) : AboveIn(Append(par, p), s) = AboveIn(par, s)
<1>1. PICK more : more = Append(par, p)
  OBVIOUS
<1>2. /\ par \in Seq(Nat) /\ p \in Nat /\ p <= Len(par) /\ Len(par) \in Nat /\ DOMAIN par = 1 .. Len(par)
      /\ \A c \in DOMAIN par : par[c] < c /\ par[c] \in Nat
  BY DEF Tree, Nodes
<1>3. more \in Seq(Nat) /\ Len(more) = Len(par) + 1 /\ DOMAIN more = 1 .. Len(par) + 1
  BY <1>1, <1>2
<1>4. \A c \in DOMAIN par : more[c] = par[c]
  BY <1>1, <1>2
<1>5. more[Len(par) + 1] = p
  BY <1>1, <1>2
<1>6. Tree(more)
  <2>1. ASSUME NEW c \in DOMAIN more PROVE more[c] < c
    <3>1. CASE c \in DOMAIN par
      BY <3>1, <1>4, <1>2
    <3>2. CASE c \notin DOMAIN par
      <4>1. c = Len(par) + 1
        BY <3>2, <1>2, <1>3
      <4>2. QED
        BY <4>1, <1>5, <1>2
    <3>3. QED
      BY <3>1, <3>2
  <2>2. QED
    BY <2>1, <1>3 DEF Tree
<1> DEFINE Q(s) == AboveIn(more, s) = AboveIn(par, s)
           P == {s \in Nat : s \in Nodes(par) => Q(s)}
<1>7. ASSUME NEW s \in Nat, \A m \in Nat : m < s => m \in P PROVE s \in P
  <2>1. SUFFICES ASSUME s \in Nodes(par) PROVE Q(s)
    OBVIOUS
  <2>2. CASE s = root
    BY <2>2, <1>6, AboveEquation
  <2>3. CASE s # root
    <3>1. s \in DOMAIN par /\ par[s] \in Nodes(par) /\ par[s] < s /\ par[s] \in Nat
      BY <2>1, <2>3, TreeFacts
    <3>2. Q(par[s])
      BY <3>1, <1>7
    <3>3. AboveIn(par, s) = {s} \cup AboveIn(par, par[s])
      BY <3>1, AboveEquation
    <3>4. s \in DOMAIN more
      BY <3>1, <1>2, <1>3
    <3>5. AboveIn(more, s) = {s} \cup AboveIn(more, more[s])
      BY <3>4, <1>6, AboveEquation
    <3>6. QED
      BY <3>1, <3>2, <3>3, <3>5, <1>4
  <2>4. QED
    BY <2>2, <2>3
<1>8. P = Nat
  <2>1. P \in SUBSET Nat
    OBVIOUS
  <2> HIDE DEF P
  <2>2. QED
    BY <2>1, <1>7, Induction
<1>9. \A s \in Nodes(par) : s \in Nat
  BY TreeFacts
<1>10. QED
  BY <1>1, <1>6, <1>8, <1>9

-----------------------------------------------------------------------------
(* has().                                                                  *)

\* The states above s in the machine's tree.
LEMMA AboveIsAboveIn == \A s : Above(s) = AboveIn(parent, s)
BY DEF Above, AboveIn, States, Nodes

\* What is known of the machine's states and of their children.
LEMMA StateFacts ==
    ASSUME Tree(parent)
    PROVE  /\ States = Nodes(parent) /\ States \subseteq Nat /\ root \in States
           /\ Len(parent) \in Nat /\ \A n \in Nat : n \in States <=> n <= Len(parent)
           /\ \A n \in States : n # root => n \in DOMAIN parent
           /\ \A c \in DOMAIN parent : c \in States /\ c # root /\ parent[c] \in States /\ parent[c] < c
           /\ \A s : \A c \in Children(s) : c \in DOMAIN parent /\ c \in States /\ parent[c] = s /\ s < c
           /\ \A s : \A c \in DOMAIN parent : parent[c] = s => c \in Children(s)
BY DEF Tree, Nodes, States, Children, root

\* has() is what it calls.
LEMMA HasEquation ==
    ASSUME Tree(parent), NEW t
    PROVE  \A n \in States :
              /\ has(n, t) \in BOOLEAN
              /\ has(n, t) <=> n = t \/ \E c \in Children(n) : has(c, t)
<1> DEFINE holds == CHOOSE holds : holds = [n \in States |-> n = t \/ \E c \in Children(n) : holds[c]]
<1> HIDE DEF holds
<1>p. PICK T : T = BOOLEAN
  OBVIOUS
<1>q. PICK G : G = [x \in States \X [States -> T] |-> x[1] = t \/ \E c \in Children(x[1]) : x[2][c]]
  OBVIOUS
<1>s. PICK S : S = States
  OBVIOUS
<1>1. G \in [S \X [S -> T] -> T]
  BY <1>p, <1>q, <1>s
<1>2. \A n \in S : \A f \in [S -> T] : G[<<n, f>>] = (n = t \/ \E c \in Children(n) : f[c])
  BY <1>q, <1>s
<1>3. PICK rank : rank = [n \in S |-> Len(parent) - n]
  OBVIOUS
<1>4. \A n \in S : n \in Nat /\ n <= Len(parent) /\ Len(parent) \in Nat
  BY <1>s, StateFacts
<1>5. rank \in [S -> Nat]
  BY <1>3, <1>4
<1>6. \A n \in S : rank[n] = Len(parent) - n
  BY <1>3
<1>7. ASSUME NEW n \in S, NEW f \in [S -> T], NEW g \in [S -> T],
             \A m \in S : rank[m] < rank[n] => f[m] = g[m]
      PROVE  G[<<n, f>>] = G[<<n, g>>]
  <2>1. ASSUME NEW c \in Children(n) PROVE f[c] = g[c]
    <3>1. c \in S /\ n < c
      BY <1>s, StateFacts
    <3>2. rank[c] < rank[n]
      BY <3>1, <1>4, <1>6
    <3>3. QED
      BY <3>1, <3>2, <1>7
  <2>2. G[<<n, f>>] = (n = t \/ \E c \in Children(n) : f[c])
    BY <1>2
  <2>3. G[<<n, g>>] = (n = t \/ \E c \in Children(n) : g[c])
    BY <1>2
  <2>4. (\E c \in Children(n) : f[c]) = (\E c \in Children(n) : g[c])
    BY <2>1
  <2>5. QED
    BY <2>2, <2>3, <2>4
<1>8. FromBelow(S, T, rank, G)
  <2>1. \E b \in Nat : \A n \in S : rank[n] < b
    <3>1. Len(parent) + 1 \in Nat
      BY StateFacts
    <3>2. \A n \in S : rank[n] < Len(parent) + 1
      BY <1>4, <1>6
    <3>3. QED
      BY <3>1, <3>2
  <2>2. T # {}
    BY <1>p
  <2>3. QED
    BY <1>1, <1>5, <1>7, <2>1, <2>2 DEF FromBelow
<1>9. PICK f \in [S -> T] : \A n \in S : f[n] = G[<<n, f>>]
  BY <1>8, RecursionExists
<1>10. \A n \in S : f[n] = (n = t \/ \E c \in Children(n) : f[c])
  BY <1>2, <1>9
<1>11. f = [n \in States |-> n = t \/ \E c \in Children(n) : f[c]]
  BY <1>10, <1>s
<1>12. holds = [n \in States |-> n = t \/ \E c \in Children(n) : holds[c]]
  BY <1>11 DEF holds
<1>13. \A n : has(n, t) = holds[n]
  BY DEF has, holds
<1>14. \A n \in States : holds[n] = (n = t \/ \E c \in Children(n) : holds[c])
  BY <1>12
<1>15. ASSUME NEW n \in States
       PROVE  /\ has(n, t) \in BOOLEAN
              /\ has(n, t) <=> n = t \/ \E c \in Children(n) : has(c, t)
  <2>1. has(n, t) = holds[n]
    BY <1>13
  <2>2. holds[n] = (n = t \/ \E c \in Children(n) : holds[c])
    BY <1>14
  <2>3. (\E c \in Children(n) : holds[c]) = (\E c \in Children(n) : has(c, t))
    BY <1>13
  <2>4. QED
    BY <2>1, <2>2, <2>3
<1>16. QED
  BY <1>15

\* A state has the states that it is above, and itself.
LEMMA HasIsAbove ==
    ASSUME Tree(parent), NEW t
    PROVE  \A n \in States : has(n, t) <=> t \in States /\ n \in AboveIn(parent, t)
<1> DEFINE Q(n) == has(n, t) <=> t \in States /\ n \in AboveIn(parent, t)
           P == {k \in Nat : \A n \in States : Len(parent) - n = k => Q(n)}
<1>1. ASSUME NEW k \in Nat, \A m \in Nat : m < k => m \in P PROVE k \in P
  <2>1. SUFFICES ASSUME NEW n \in States, Len(parent) - n = k PROVE Q(n)
    OBVIOUS
  <2>2. n \in Nat /\ Len(parent) \in Nat
    BY StateFacts
  <2>3. ASSUME NEW c \in Children(n) PROVE c \in States /\ parent[c] = n /\ Q(c)
    <3>1. c \in States /\ n < c /\ c \in Nat /\ c <= Len(parent) /\ parent[c] = n
      BY StateFacts
    <3>2. Len(parent) - c \in Nat /\ Len(parent) - c < k
      BY <2>1, <2>2, <3>1
    <3>3. Len(parent) - c \in P
      BY <3>2, <1>1
    <3>4. QED
      BY <3>1, <3>3
  <2>4. has(n, t) <=> n = t \/ \E c \in Children(n) : has(c, t)
    BY HasEquation
  <2>5. ASSUME has(n, t) PROVE t \in States /\ n \in AboveIn(parent, t)
    <3>1. CASE n = t
      BY <3>1, AboveBounds, StateFacts
    <3>2. CASE n # t
      <4>1. PICK c \in Children(n) : has(c, t)
        BY <3>2, <2>4, <2>5
      <4>2. t \in States /\ c \in AboveIn(parent, t)
        BY <4>1, <2>3
      <4>3. c \in DOMAIN parent /\ parent[c] = n /\ parent[c] \in Nodes(parent)
        BY StateFacts
      <4>4. n \in AboveIn(parent, c)
        BY <4>3, AboveEquation, AboveBounds
      <4>5. QED
        BY <4>2, <4>4, AboveUp, StateFacts
    <3>3. QED
      BY <3>1, <3>2
  <2>6. ASSUME t \in States, n \in AboveIn(parent, t) PROVE has(n, t)
    <3>1. CASE n = t
      BY <3>1, <2>4
    <3>2. CASE n # t
      <4>1. PICK c \in DOMAIN parent : parent[c] = n /\ c \in AboveIn(parent, t)
        BY <2>6, <3>2, AboveChild, StateFacts
      <4>2. c \in Children(n)
        BY <4>1, StateFacts
      <4>3. has(c, t)
        BY <4>1, <4>2, <2>3, <2>6
      <4>4. QED
        BY <4>2, <4>3, <2>4
    <3>3. QED
      BY <3>1, <3>2
  <2>7. QED
    BY <2>5, <2>6
<1>2. P = Nat
  <2>1. P \in SUBSET Nat
    OBVIOUS
  <2> HIDE DEF P
  <2>2. QED
    BY <2>1, <1>1, Induction
<1>3. ASSUME NEW n \in States PROVE Q(n)
  <2>1. n \in Nat /\ n <= Len(parent) /\ Len(parent) \in Nat
    BY StateFacts
  <2>2. Len(parent) - n \in Nat
    BY <2>1
  <2>3. Len(parent) - n \in P
    BY <2>2, <1>2
  <2>4. QED
    BY <2>3
<1>4. QED
  BY <1>3

-----------------------------------------------------------------------------
(* get_transition_path().                                                  *)

\* A state that has the target and is not it has a child that has it.
LEMMA TowardsHas ==
    ASSUME Tree(parent), NEW t, NEW n \in States, has(n, t), n # t
    PROVE  Towards(n, t) \in Children(n) /\ has(Towards(n, t), t)
<1>1. \E c \in Children(n) : has(c, t)
  BY HasEquation
<1>2. QED
  BY <1>1 DEF Towards

\* The node for a state that has the target is a node for that state.
LEMMA HereIsNode ==
    ASSUME NEW t, NEW n \in States
    PROVE  Here(n, t) \in PathNode /\ Here(n, t).state = n /\ Node("exit", n) \in PathNode
BY DEF Here, Node, PathNode, Codes

\* get_transition_path() is what it calls: itself for the child that has the
\* target, or for the parent.
LEMMA PathEquation ==
    ASSUME Tree(parent), NEW t \in Nat
    PROVE  \A n \in States :
              get_transition_path(n, t) =
                  IF has(n, t)
                  THEN <<Here(n, t)>> \o (IF n = t THEN <<>> ELSE get_transition_path(Towards(n, t), t))
                  ELSE IF n = root THEN <<>>
                       ELSE IF get_transition_path(parent[n], t) = <<>> THEN <<>>
                            ELSE <<Node("exit", n)>> \o get_transition_path(parent[n], t)
<1> DEFINE Value(f, n) == IF has(n, t)
                          THEN <<Here(n, t)>> \o (IF n = t THEN <<>> ELSE f[Towards(n, t)])
                          ELSE IF n = root THEN <<>>
                               ELSE LET rest == f[parent[n]]
                                    IN  IF rest = <<>> THEN <<>> ELSE <<Node("exit", n)>> \o rest
           to == CHOOSE to : to = [n \in States |-> Value(to, n)]
<1> HIDE DEF to
<1>p. PICK T : T = Seq(PathNode)
  OBVIOUS
<1>s. PICK S : S = States
  OBVIOUS
<1>t. \A n \in S : /\ n \in Nat /\ n <= Len(parent) /\ Len(parent) \in Nat
                   /\ has(n, t) => n <= t
                   /\ has(n, t) /\ n # t => Towards(n, t) \in S /\ n < Towards(n, t) /\ has(Towards(n, t), t)
                   /\ n # root => parent[n] \in S /\ parent[n] < n
  <2>1. TAKE n \in S
  <2>2. n \in Nat /\ n <= Len(parent) /\ Len(parent) \in Nat /\ (n # root => parent[n] \in S /\ parent[n] < n)
    BY <1>s, StateFacts
  <2>3. has(n, t) => n <= t
    BY <1>s, HasIsAbove, AboveBounds, StateFacts
  <2>4. has(n, t) /\ n # t => Towards(n, t) \in S /\ n < Towards(n, t) /\ has(Towards(n, t), t)
    BY <1>s, TowardsHas, StateFacts
  <2>5. QED
    BY <2>2, <2>3, <2>4
<1>1. ASSUME NEW n \in S, NEW f \in [S -> T] PROVE Value(f, n) \in T
  <2>1. <<>> \in T
    BY <1>p
  <2>2. Here(n, t) \in PathNode /\ Node("exit", n) \in PathNode
    BY <1>s, HereIsNode
  <2>3. CASE has(n, t)
    <3>1. (IF n = t THEN <<>> ELSE f[Towards(n, t)]) \in T
      BY <2>1, <2>3, <1>t
    <3>2. <<Here(n, t)>> \o (IF n = t THEN <<>> ELSE f[Towards(n, t)]) \in T
      <4>1. PICK rest \in T : rest = IF n = t THEN <<>> ELSE f[Towards(n, t)]
        BY <3>1
      <4>2. <<Here(n, t)>> \o rest \in T
        BY <2>2, <1>p
      <4>3. QED
        BY <4>1, <4>2
    <3>3. QED
      BY <2>3, <3>2
  <2>4. CASE ~has(n, t) /\ n # root
    <3>1. PICK rest \in T : rest = f[parent[n]]
      BY <2>4, <1>t
    <3>2. <<Node("exit", n)>> \o rest \in T
      BY <2>2, <1>p
    <3>3. QED
      BY <2>1, <2>4, <3>1, <3>2
  <2>5. CASE ~has(n, t) /\ n = root
    BY <2>1, <2>5
  <2>6. QED
    BY <2>3, <2>4, <2>5
<1>g. ASSUME NEW n \in S, NEW f \in [S -> T], NEW g \in [S -> T],
             has(n, t) /\ n # t => f[Towards(n, t)] = g[Towards(n, t)],
             ~has(n, t) /\ n # root => f[parent[n]] = g[parent[n]]
      PROVE  Value(f, n) = Value(g, n)
  <2>1. CASE has(n, t)
    BY <2>1, <1>g
  <2>2. CASE ~has(n, t)
    BY <2>2, <1>g
  <2>3. QED
    BY <2>1, <2>2
<1>c. ASSUME NEW f, NEW n \in States, f = [m \in States |-> Value(f, m)] PROVE f[n] = Value(f, n)
  <2> HIDE DEF Value
  <2>1. QED
    BY <1>c
<1>f. \A n \in S : get_transition_path(n, t) = to[n]
  BY DEF get_transition_path, to
<1>v. ASSUME NEW n \in States, to[n] = Value(to, n)
      PROVE  get_transition_path(n, t) =
                  IF has(n, t)
                  THEN <<Here(n, t)>> \o (IF n = t THEN <<>> ELSE get_transition_path(Towards(n, t), t))
                  ELSE IF n = root THEN <<>>
                       ELSE IF get_transition_path(parent[n], t) = <<>> THEN <<>>
                            ELSE <<Node("exit", n)>> \o get_transition_path(parent[n], t)
  <2>1. get_transition_path(n, t) = to[n]
    BY <1>f, <1>s
  <2>2. has(n, t) /\ n # t => get_transition_path(Towards(n, t), t) = to[Towards(n, t)]
    BY <1>f, <1>t, <1>s
  <2>3. n # root => get_transition_path(parent[n], t) = to[parent[n]]
    BY <1>f, <1>t, <1>s
  <2>4. QED
    BY <2>1, <2>2, <2>3, <1>v
<1> HIDE DEF Value
<1>q. PICK G : G = [x \in S \X [S -> T] |-> Value(x[2], x[1])]
  OBVIOUS
<1>2. G \in [S \X [S -> T] -> T]
  BY <1>1, <1>q
<1>3. \A n \in S : \A f \in [S -> T] : G[<<n, f>>] = Value(f, n)
  BY <1>q
<1>4. PICK rank : rank = [n \in S |-> IF has(n, t) THEN t - n ELSE t + 1 + n]
  OBVIOUS
<1>5. \A n \in S : rank[n] = IF has(n, t) THEN t - n ELSE t + 1 + n
  BY <1>4
<1>6. \A n \in S : rank[n] \in Nat /\ rank[n] <= t + 1 + Len(parent)
  <2>1. TAKE n \in S
  <2>2. n \in Nat /\ n <= Len(parent) /\ Len(parent) \in Nat /\ (has(n, t) => n <= t)
    BY <1>t
  <2>3. CASE has(n, t)
    BY <2>2, <2>3, <1>5
  <2>4. CASE ~has(n, t)
    BY <2>2, <2>4, <1>5
  <2>5. QED
    BY <2>3, <2>4
<1>7. rank \in [S -> Nat]
  BY <1>4, <1>6
<1>8. ASSUME NEW n \in S, NEW f \in [S -> T], NEW g \in [S -> T],
             \A m \in S : rank[m] < rank[n] => f[m] = g[m]
      PROVE  G[<<n, f>>] = G[<<n, g>>]
  <2>1. ASSUME has(n, t), n # t PROVE f[Towards(n, t)] = g[Towards(n, t)]
    <3>1. PICK c \in S : c = Towards(n, t)
      BY <1>t, <2>1
    <3>2. n < c /\ has(c, t) /\ c \in Nat /\ n \in Nat /\ c <= t
      BY <1>t, <2>1, <3>1
    <3>3. rank[c] = t - c /\ rank[n] = t - n
      BY <3>2, <2>1, <1>5
    <3>4. rank[c] < rank[n]
      BY <3>2, <3>3
    <3>5. QED
      BY <3>1, <3>4, <1>8
  <2>2. ASSUME ~has(n, t), n # root PROVE f[parent[n]] = g[parent[n]]
    <3>1. PICK m \in S : m = parent[n]
      BY <1>t, <2>2
    <3>2. m < n /\ m \in Nat /\ n \in Nat /\ (has(m, t) => m <= t)
      BY <1>t, <2>2, <3>1
    <3>3. rank[m] = (IF has(m, t) THEN t - m ELSE t + 1 + m) /\ rank[n] = t + 1 + n
      BY <2>2, <1>5
    <3>4. rank[m] < rank[n]
      BY <3>2, <3>3
    <3>5. QED
      BY <3>1, <3>4, <1>8
  <2>3. Value(f, n) = Value(g, n)
    BY <2>1, <2>2, <1>g
  <2>4. QED
    BY <2>3, <1>3
<1>9. FromBelow(S, T, rank, G)
  <2>1. \E b \in Nat : \A n \in S : rank[n] < b
    <3>1. PICK b \in Nat : b = t + 2 + Len(parent)
      BY StateFacts
    <3>2. \A n \in S : rank[n] < b
      BY <1>6, <3>1, StateFacts
    <3>3. QED
      BY <3>2
  <2>2. T # {}
    <3>1. <<>> \in T
      BY <1>p
    <3>2. QED
      BY <3>1
  <2>3. QED
    BY <1>2, <1>7, <1>8, <2>1, <2>2 DEF FromBelow
<1>10. PICK f \in [S -> T] : \A n \in S : f[n] = G[<<n, f>>]
  BY <1>9, RecursionExists
<1>11. f = [n \in States |-> Value(f, n)]
  BY <1>3, <1>10, <1>s
<1>12. to = [n \in States |-> Value(to, n)]
  BY <1>11 DEF to
<1>13. QED
  BY <1>12, <1>c, <1>v

\* For a key that no state has there is no path.
LEMMA NoPath ==
    ASSUME Tree(parent), NEW t \in Nat, t \notin States
    PROVE  \A n \in States : get_transition_path(n, t) = <<>>
<1> DEFINE P == {n \in Nat : n \in States => get_transition_path(n, t) = <<>>}
<1>1. ASSUME NEW n \in Nat, \A m \in Nat : m < n => m \in P PROVE n \in P
  <2>1. SUFFICES ASSUME n \in States PROVE get_transition_path(n, t) = <<>>
    OBVIOUS
  <2>2. ~has(n, t)
    BY <2>1, HasIsAbove
  <2>3. n # root => get_transition_path(parent[n], t) = <<>>
    <3>1. HAVE n # root
    <3>2. parent[n] \in States /\ parent[n] < n /\ parent[n] \in Nat
      BY <2>1, <3>1, StateFacts
    <3>3. QED
      BY <3>2, <1>1
  <2>4. QED
    BY <2>1, <2>2, <2>3, PathEquation
<1>2. P = Nat
  <2>1. P \in SUBSET Nat
    OBVIOUS
  <2> HIDE DEF P
  <2>2. QED
    BY <2>1, <1>1, Induction
<1>3. QED
  BY <1>2, StateFacts

\* What a sequence holds behind a new first element.
LEMMA Cons ==
    ASSUME NEW T, NEW x \in T, NEW p \in Seq(T)
    PROVE  /\ <<x>> \o p \in Seq(T) /\ <<x>> \o p # <<>>
           /\ Len(<<x>> \o p) = Len(p) + 1 /\ (<<x>> \o p)[1] = x
           /\ DOMAIN (<<x>> \o p) = 1 .. Len(p) + 1 /\ Len(p) \in Nat
           /\ \A i \in 2 .. Len(p) + 1 : i - 1 \in DOMAIN p /\ (<<x>> \o p)[i] = p[i - 1]
<1>1. <<x>> \in Seq(T) /\ Len(<<x>>) = 1 /\ <<x>>[1] = x
  OBVIOUS
<1>2. PICK y \in Seq(T) : y = <<x>>
  BY <1>1
<1>3. Len(y) = 1 /\ y[1] = x
  BY <1>1, <1>2
<1>4. /\ y \o p \in Seq(T) /\ Len(y \o p) = Len(p) + 1 /\ Len(p) \in Nat
      /\ \A i \in 1 .. Len(p) + 1 : (y \o p)[i] = IF i <= 1 THEN y[i] ELSE p[i - 1]
  <2>1. Len(p) \in Nat
    BY LenProperties
  <2>2. /\ y \o p \in Seq(T) /\ Len(y \o p) = Len(y) + Len(p)
        /\ \A i \in 1 .. Len(y) + Len(p) : (y \o p)[i] = IF i <= Len(y) THEN y[i] ELSE p[i - Len(y)]
    BY ConcatProperties
  <2>3. Len(y) + Len(p) = Len(p) + 1
    BY <2>1, <1>3
  <2>4. QED
    BY <2>1, <2>2, <2>3, <1>3
<1>5. DOMAIN (y \o p) = 1 .. Len(p) + 1 /\ DOMAIN p = 1 .. Len(p)
  BY <1>4
<1>6. (y \o p)[1] = x /\ y \o p # <<>>
  BY <1>3, <1>4
<1>7. \A i \in 2 .. Len(p) + 1 : i - 1 \in DOMAIN p /\ (y \o p)[i] = p[i - 1]
  BY <1>4, <1>5
<1>8. QED
  BY <1>2, <1>4, <1>5, <1>6, <1>7

\* p goes down from n to the target.
Descent(p, n, t) ==
    /\ p \in Seq(PathNode) /\ p # <<>> /\ p[1].state = n /\ p[Len(p)].state = t
    /\ \A i \in DOMAIN p :
          /\ p[i] = Here(p[i].state, t) /\ p[i].state \in AboveIn(parent, t)
          /\ p[i].state = t <=> i = Len(p)
    /\ \A i \in DOMAIN p : i > 1 =>
          /\ p[i].state \in DOMAIN parent /\ p[i].state > n
          /\ parent[p[i].state] = p[i - 1].state

\* From a state above the target the path goes down.
LEMMA PathDown ==
    ASSUME Tree(parent), NEW t \in States
    PROVE  \A n \in AboveIn(parent, t) : Descent(get_transition_path(n, t), n, t)
<1>t. t \in Nat /\ \A n \in AboveIn(parent, t) : n \in States /\ n \in Nat /\ n <= t /\ has(n, t)
  BY StateFacts, AboveBounds, HasIsAbove
<1> DEFINE Q(n) == Descent(get_transition_path(n, t), n, t)
           P == {k \in Nat : \A n \in AboveIn(parent, t) : t - n = k => Q(n)}
<1>1. ASSUME NEW k \in Nat, \A m \in Nat : m < k => m \in P PROVE k \in P
  <2>1. SUFFICES ASSUME NEW n \in AboveIn(parent, t), t - n = k PROVE Q(n)
    OBVIOUS
  <2>2. PICK x \in PathNode : x = Here(n, t)
    BY <1>t, HereIsNode
  <2>3. x.state = n
    BY <1>t, <2>2, HereIsNode
  <2>4. CASE n = t
    <3>1. get_transition_path(n, t) = <<x>> \o <<>>
      BY <1>t, <2>2, <2>4, PathEquation
    <3>2. PICK p : p = <<x>> \o <<>>
      OBVIOUS
    <3>3. p = <<x>>
      BY <3>2
    <3>4. p \in Seq(PathNode) /\ p # <<>> /\ Len(p) = 1 /\ p[1] = x /\ DOMAIN p = {1}
      BY <3>3
    <3>5. Descent(p, n, t)
      BY <3>4, <2>2, <2>3, <2>4, <2>1 DEF Descent
    <3>6. QED
      BY <3>1, <3>2, <3>5
  <2>5. CASE n # t
    <3>1. PICK c : c = Towards(n, t)
      OBVIOUS
    <3>2. c \in Children(n) /\ has(c, t)
      BY <1>t, <2>5, <3>1, TowardsHas
    <3>3. c \in DOMAIN parent /\ c \in States /\ c \in Nat /\ parent[c] = n /\ n < c
      BY <3>2, StateFacts
    <3>4. c \in AboveIn(parent, t)
      BY <3>2, <3>3, HasIsAbove
    <3>5. t - c \in Nat /\ t - c < k
      BY <1>t, <2>1, <3>3, <3>4
    <3>6. Q(c)
      BY <3>4, <3>5, <1>1
    <3>7. PICK rest : rest = get_transition_path(c, t)
      OBVIOUS
    <3>8. Descent(rest, c, t)
      BY <3>6, <3>7
    <3>9. get_transition_path(n, t) = <<x>> \o rest
      BY <1>t, <2>2, <2>5, <3>1, <3>7, PathEquation
    <3>10. PICK p : p = <<x>> \o rest
      OBVIOUS
    <3>11. rest \in Seq(PathNode) /\ rest # <<>> /\ rest[1].state = c /\ rest[Len(rest)].state = t
      BY <3>8 DEF Descent
    <3>12. /\ p \in Seq(PathNode) /\ p # <<>> /\ Len(p) = Len(rest) + 1 /\ p[1] = x
           /\ DOMAIN p = 1 .. Len(rest) + 1 /\ Len(rest) \in Nat
           /\ \A i \in 2 .. Len(rest) + 1 : i - 1 \in DOMAIN rest /\ p[i] = rest[i - 1]
      BY <3>10, <3>11, Cons
    <3>13. Len(rest) >= 1 /\ DOMAIN rest = 1 .. Len(rest)
      BY <3>11
    <3>14. p[Len(p)].state = t
      BY <3>11, <3>12, <3>13
    <3>15. ASSUME NEW i \in DOMAIN p
           PROVE  /\ p[i] = Here(p[i].state, t) /\ p[i].state \in AboveIn(parent, t)
                  /\ p[i].state = t <=> i = Len(p)
                  /\ i > 1 => /\ p[i].state \in DOMAIN parent /\ p[i].state > n
                              /\ parent[p[i].state] = p[i - 1].state
      <4>1. CASE i = 1
        BY <4>1, <2>1, <2>2, <2>3, <2>5, <3>12, <3>13
      <4>2. CASE i # 1
        <5>1. PICK j \in DOMAIN rest : j = i - 1 /\ p[i] = rest[j]
          BY <4>2, <3>12
        <5>2. /\ rest[j] = Here(rest[j].state, t) /\ rest[j].state \in AboveIn(parent, t)
              /\ rest[j].state = t <=> j = Len(rest)
          BY <3>8 DEF Descent
        <5>3. i = Len(p) <=> j = Len(rest)
          BY <5>1, <3>12, <3>13
        <5>4. CASE j = 1
          <6>1. p[i].state = c /\ i - 1 = 1
            BY <5>1, <5>4, <3>11, <3>13
          <6>2. QED
            BY <6>1, <5>1, <5>2, <5>3, <3>3, <3>12, <2>3
        <5>5. CASE j # 1
          <6>1. j > 1 /\ j \in Nat /\ i - 1 \in 2 .. Len(rest) + 1 /\ (i - 1) - 1 = j - 1
            BY <5>1, <5>5, <3>13
          <6>2. rest[j].state \in DOMAIN parent /\ rest[j].state > c /\ parent[rest[j].state] = rest[j - 1].state
            BY <6>1, <3>8 DEF Descent
          <6>3. p[i - 1] = rest[j - 1]
            BY <6>1, <3>12
          <6>4. rest[j].state > n
            BY <6>2, <3>3, <1>t, <5>2
          <6>5. QED
            BY <6>2, <6>3, <6>4, <5>1, <5>2, <5>3
        <5>6. QED
          BY <5>4, <5>5
      <4>3. QED
        BY <4>1, <4>2
    <3>16. Descent(p, n, t)
      BY <3>12, <3>14, <3>15, <2>3 DEF Descent
    <3>17. QED
      BY <3>9, <3>10, <3>16
  <2>6. QED
    BY <2>4, <2>5
<1>2. P = Nat
  <2>1. P \in SUBSET Nat
    OBVIOUS
  <2> HIDE DEF P
  <2>2. QED
    BY <2>1, <1>1, Induction
<1>3. ASSUME NEW n \in AboveIn(parent, t) PROVE Q(n)
  <2>1. t - n \in Nat
    BY <1>t
  <2>2. t - n \in P
    BY <2>1, <1>2
  <2>3. QED
    BY <2>2
<1>4. QED
  BY <1>3

\* p leads from s to the target and turns at its k-th node.
Route(p, s, t, k) ==
    /\ p \in Seq(PathNode) /\ k \in DOMAIN p /\ p[1].state = s /\ p[Len(p)].state = t
    /\ \A i \in 1 .. k - 1 :
          /\ p[i].code = "exit" /\ p[i].state \notin AboveIn(parent, t)
          /\ p[i].state \in DOMAIN parent /\ p[i + 1].state = parent[p[i].state]
    /\ p[k].code = "noop" /\ p[k].state \in AboveIn(parent, s) \cap AboveIn(parent, t)
    /\ \A i \in k + 1 .. Len(p) :
          /\ p[i].code = IF i = Len(p) THEN "target" ELSE "enter"
          /\ p[i].state \in AboveIn(parent, t) \ AboveIn(parent, s)
          /\ p[i].state \in DOMAIN parent /\ p[i - 1].state = parent[p[i].state]

\* From a state that has the target the route only goes down.
LEMMA RouteDown ==
    ASSUME Tree(parent), NEW t \in States, NEW cur \in States, active = AboveIn(parent, cur),
           NEW s \in AboveIn(parent, cur), s \in AboveIn(parent, t),
           AboveIn(parent, cur) \cap AboveIn(parent, t) \subseteq AboveIn(parent, s)
    PROVE  Route(get_transition_path(s, t), s, t, 1)
<1>1. PICK p : p = get_transition_path(s, t)
  OBVIOUS
<1>2. Descent(p, s, t)
  BY <1>1, PathDown
<1>3. /\ p \in Seq(PathNode) /\ p # <<>> /\ p[1].state = s /\ p[Len(p)].state = t
      /\ \A i \in DOMAIN p :
            /\ p[i] = Here(p[i].state, t) /\ p[i].state \in AboveIn(parent, t)
            /\ p[i].state = t <=> i = Len(p)
      /\ \A i \in DOMAIN p : i > 1 =>
            /\ p[i].state \in DOMAIN parent /\ p[i].state > s
            /\ parent[p[i].state] = p[i - 1].state
  BY <1>2 DEF Descent
<1>4. Len(p) \in Nat /\ Len(p) >= 1 /\ DOMAIN p = 1 .. Len(p) /\ 1 \in DOMAIN p
  BY <1>3
<1>5. s \in States /\ s \in Nat /\ s \in AboveIn(parent, s)
  BY StateFacts, AboveBounds
<1>6. p[1].code = "noop" /\ p[1].state \in AboveIn(parent, s) \cap AboveIn(parent, t)
  BY <1>3, <1>4, <1>5 DEF Here, Node
<1>7. ASSUME NEW i \in 1 + 1 .. Len(p)
      PROVE  /\ p[i].code = IF i = Len(p) THEN "target" ELSE "enter"
             /\ p[i].state \in AboveIn(parent, t) \ AboveIn(parent, s)
             /\ p[i].state \in DOMAIN parent /\ p[i - 1].state = parent[p[i].state]
  <2>1. i \in DOMAIN p /\ i > 1
    BY <1>4
  <2>2. PICK n : n = p[i].state
    OBVIOUS
  <2>3. /\ p[i] = Here(n, t) /\ n \in AboveIn(parent, t) /\ n > s /\ n \in DOMAIN parent
        /\ parent[n] = p[i - 1].state /\ (n = t <=> i = Len(p))
    BY <1>3, <2>1, <2>2
  <2>4. n \in Nat
    BY <2>3, StateFacts
  <2>5. n \notin AboveIn(parent, s)
    <3>1. \A x \in AboveIn(parent, s) : x \in Nat /\ x <= s
      BY <1>5, AboveBounds, StateFacts
    <3>2. ~(n <= s)
      BY <2>3, <2>4, <1>5
    <3>3. QED
      BY <3>1, <3>2
  <2>6. n \notin active
    BY <2>3, <2>5
  <2>7. p[i].code = IF n = t THEN "target" ELSE "enter"
    BY <2>3, <2>6 DEF Here, Node
  <2>8. QED
    BY <2>2, <2>3, <2>5, <2>7
<1>8. \A i \in 1 .. 1 - 1 : FALSE
  OBVIOUS
<1>9. Route(p, s, t, 1)
  BY <1>3, <1>4, <1>6, <1>7, <1>8 DEF Route
<1>10. QED
  BY <1>1, <1>9

\* A route from the parent makes one from a state that does not have the target.
LEMMA RouteUp ==
    ASSUME Tree(parent), NEW t \in States, NEW s \in DOMAIN parent, s \notin AboveIn(parent, t),
           NEW rest, NEW k, Route(rest, parent[s], t, k)
    PROVE  Route(<<Node("exit", s)>> \o rest, s, t, k + 1)
<1>1. PICK x \in PathNode : x = Node("exit", s)
  BY StateFacts, HereIsNode
<1>2. x.code = "exit" /\ x.state = s
  BY <1>1 DEF Node
<1>3. /\ rest \in Seq(PathNode) /\ k \in DOMAIN rest /\ rest[1].state = parent[s] /\ rest[Len(rest)].state = t
      /\ \A i \in 1 .. k - 1 :
            /\ rest[i].code = "exit" /\ rest[i].state \notin AboveIn(parent, t)
            /\ rest[i].state \in DOMAIN parent /\ rest[i + 1].state = parent[rest[i].state]
      /\ rest[k].code = "noop" /\ rest[k].state \in AboveIn(parent, parent[s]) \cap AboveIn(parent, t)
      /\ \A i \in k + 1 .. Len(rest) :
            /\ rest[i].code = IF i = Len(rest) THEN "target" ELSE "enter"
            /\ rest[i].state \in AboveIn(parent, t) \ AboveIn(parent, parent[s])
            /\ rest[i].state \in DOMAIN parent /\ rest[i - 1].state = parent[rest[i].state]
  BY DEF Route
<1>4. PICK p : p = <<x>> \o rest
  OBVIOUS
<1>5. /\ p \in Seq(PathNode) /\ Len(p) = Len(rest) + 1 /\ p[1] = x
      /\ DOMAIN p = 1 .. Len(rest) + 1 /\ Len(rest) \in Nat
      /\ \A i \in 2 .. Len(rest) + 1 : i - 1 \in DOMAIN rest /\ p[i] = rest[i - 1]
  BY <1>3, <1>4, Cons
<1>6. k \in Nat /\ 1 <= k /\ k <= Len(rest) /\ DOMAIN rest = 1 .. Len(rest)
  BY <1>3
<1>7. \A i \in 1 .. Len(rest) : p[i + 1] = rest[i]
  <2>1. TAKE i \in 1 .. Len(rest)
  <2>2. i + 1 \in 2 .. Len(rest) + 1 /\ (i + 1) - 1 = i
    BY <1>5
  <2>3. QED
    BY <2>2, <1>5
<1>8. AboveIn(parent, s) = {s} \cup AboveIn(parent, parent[s])
  BY AboveEquation
<1>9. k + 1 \in DOMAIN p /\ p[Len(p)].state = t /\ p[k + 1] = rest[k]
  <2>1. k + 1 \in 1 .. Len(rest) + 1 /\ Len(rest) \in 1 .. Len(rest) /\ k \in 1 .. Len(rest)
    BY <1>5, <1>6
  <2>2. p[Len(rest) + 1] = rest[Len(rest)] /\ p[k + 1] = rest[k]
    BY <2>1, <1>7
  <2>3. QED
    BY <2>1, <2>2, <1>3, <1>5
<1>10. ASSUME NEW i \in 1 .. (k + 1) - 1
       PROVE  /\ p[i].code = "exit" /\ p[i].state \notin AboveIn(parent, t)
              /\ p[i].state \in DOMAIN parent /\ p[i + 1].state = parent[p[i].state]
  <2>1. CASE i = 1
    <3>1. p[1 + 1].state = parent[s]
      <4>1. 1 \in 1 .. Len(rest)
        BY <1>5, <1>6
      <4>2. p[1 + 1] = rest[1]
        BY <4>1, <1>7
      <4>3. QED
        BY <4>2, <1>3
    <3>2. QED
      BY <2>1, <3>1, <1>2, <1>5
  <2>2. CASE i # 1
    <3>1. PICK j \in 1 .. k - 1 : i = j + 1
      <4>1. i - 1 \in 1 .. k - 1 /\ i = (i - 1) + 1
        BY <2>2, <1>6
      <4>2. QED
        BY <4>1
    <3>2. j \in 1 .. Len(rest) /\ j + 1 \in 1 .. Len(rest)
      BY <1>6, <3>1
    <3>3. p[i] = rest[j] /\ p[i + 1] = rest[j + 1]
      BY <1>7, <3>1, <3>2
    <3>4. QED
      BY <1>3, <3>1, <3>3
  <2>3. QED
    BY <2>1, <2>2
<1>11. ASSUME NEW i \in (k + 1) + 1 .. Len(p)
       PROVE  /\ p[i].code = IF i = Len(p) THEN "target" ELSE "enter"
              /\ p[i].state \in AboveIn(parent, t) \ AboveIn(parent, s)
              /\ p[i].state \in DOMAIN parent /\ p[i - 1].state = parent[p[i].state]
  <2>1. PICK j \in k + 1 .. Len(rest) : i = j + 1
    <3>1. i - 1 \in k + 1 .. Len(rest) /\ i = (i - 1) + 1
      BY <1>5, <1>6
    <3>2. QED
      BY <3>1
  <2>2. j \in 1 .. Len(rest) /\ j - 1 \in 1 .. Len(rest) /\ i - 1 = (j - 1) + 1
    BY <1>6, <2>1
  <2>3. p[i] = rest[j] /\ p[i - 1] = rest[j - 1]
    BY <1>7, <2>1, <2>2
  <2>4. i = Len(p) <=> j = Len(rest)
    BY <1>5, <2>1
  <2>5. rest[j].state # s
    BY <1>3, <2>1
  <2>6. QED
    BY <1>3, <1>8, <2>1, <2>3, <2>4, <2>5
<1>12. p[k + 1].code = "noop" /\ p[k + 1].state \in AboveIn(parent, s) \cap AboveIn(parent, t)
  BY <1>3, <1>8, <1>9
<1>13. Route(p, s, t, k + 1)
  BY <1>2, <1>5, <1>9, <1>10, <1>11, <1>12 DEF Route
<1>14. QED
  BY <1>1, <1>4, <1>13

\* From every active state that is below the states that have the target there
\* is a route.
LEMMA RouteFound ==
    ASSUME Tree(parent), NEW t \in States, NEW cur \in States, active = AboveIn(parent, cur)
    PROVE  \E k \in Nat : Route(get_transition_path(cur, t), cur, t, k)
<1> DEFINE Low(s) == AboveIn(parent, cur) \cap AboveIn(parent, t) \subseteq AboveIn(parent, s)
           Q(s) == \E k \in Nat : Route(get_transition_path(s, t), s, t, k)
           P == {s \in Nat : s \in AboveIn(parent, cur) /\ Low(s) => Q(s)}
<1>t. t \in Nat
  BY StateFacts
<1>1. ASSUME NEW s \in Nat, \A m \in Nat : m < s => m \in P PROVE s \in P
  <2>1. SUFFICES ASSUME s \in AboveIn(parent, cur), Low(s) PROVE Q(s)
    OBVIOUS
  <2>2. s \in States
    BY <2>1, AboveBounds, StateFacts
  <2>3. CASE s \in AboveIn(parent, t)
    <3>1. Route(get_transition_path(s, t), s, t, 1)
      BY <2>1, <2>3, RouteDown
    <3>2. QED
      BY <3>1
  <2>4. CASE s \notin AboveIn(parent, t)
    <3>1. s # root
      BY <2>4, AboveBounds, StateFacts
    <3>2. s \in DOMAIN parent /\ parent[s] \in States /\ parent[s] < s /\ parent[s] \in Nat
      BY <2>2, <3>1, StateFacts
    <3>3. AboveIn(parent, s) = {s} \cup AboveIn(parent, parent[s])
      BY <3>2, AboveEquation
    <3>4. parent[s] \in AboveIn(parent, cur)
      <4>1. parent[s] \in AboveIn(parent, parent[s])
        BY <3>2, AboveBounds, StateFacts
      <4>2. AboveIn(parent, s) \subseteq AboveIn(parent, cur)
        BY <2>1, AboveUp, StateFacts
      <4>3. QED
        BY <4>1, <4>2, <3>3
    <3>5. Low(parent[s])
      BY <2>1, <2>4, <3>3
    <3>6. Q(parent[s])
      BY <3>2, <3>4, <3>5, <1>1
    <3>r. PICK rest : rest = get_transition_path(parent[s], t)
      OBVIOUS
    <3>7. PICK k \in Nat : Route(rest, parent[s], t, k)
      BY <3>6, <3>r
    <3>8. Route(<<Node("exit", s)>> \o rest, s, t, k + 1)
      BY <3>2, <3>7, <2>4, RouteUp
    <3>9. rest # <<>>
      <4>1. k \in DOMAIN rest
        BY <3>7 DEF Route
      <4>2. QED
        BY <4>1
    <3>10. ~has(s, t)
      BY <2>2, <2>4, HasIsAbove
    <3>11. get_transition_path(s, t) = <<Node("exit", s)>> \o rest
      BY <1>t, <2>2, <3>1, <3>r, <3>9, <3>10, PathEquation
    <3>12. k + 1 \in Nat
      OBVIOUS
    <3>13. QED
      BY <3>8, <3>11, <3>12
  <2>5. QED
    BY <2>3, <2>4
<1>2. P = Nat
  <2>1. P \in SUBSET Nat
    OBVIOUS
  <2> HIDE DEF P
  <2>2. QED
    BY <2>1, <1>1, Induction
<1>3. cur \in P
  BY <1>2, StateFacts
<1>4. cur \in AboveIn(parent, cur) /\ Low(cur)
  BY AboveBounds, StateFacts
<1>5. QED
  BY <1>3, <1>4

\* A route is what the property of the path asks for.
LEMMA RouteIsTransition ==
    ASSUME NEW p, NEW s, NEW t, NEW k \in Nat, Route(p, s, t, k)
    PROVE  IsTransition(p, s, t)
BY AboveIsAboveIn DEF Route, IsTransition

\* A route can be followed from its first state.
LEMMA RouteWalks ==
    ASSUME Tree(parent), NEW p, NEW s, NEW t, NEW k \in Nat, Route(p, s, t, k)
    PROVE  p \in Seq(PathNode) /\ Walks(s, p)
<1>1. /\ p \in Seq(PathNode) /\ k \in DOMAIN p /\ p[1].state = s /\ p[Len(p)].state = t
      /\ \A i \in 1 .. k - 1 : p[i].code = "exit" /\ p[i].state \in DOMAIN parent /\ p[i + 1].state = parent[p[i].state]
      /\ p[k].code = "noop"
      /\ \A i \in k + 1 .. Len(p) :
            /\ p[i].code = IF i = Len(p) THEN "target" ELSE "enter"
            /\ p[i].state \in DOMAIN parent /\ p[i - 1].state = parent[p[i].state]
  BY DEF Route
<1>2. Len(p) \in Nat /\ DOMAIN p = 1 .. Len(p) /\ 1 <= k /\ k <= Len(p) /\ p # <<>>
  BY <1>1
<1>n. PICK n \in Nat : n = Len(p)
  BY <1>2
<1>3. s = Before(p[1])
  <2>1. p[1].code \in {"exit", "noop"}
    <3>1. CASE k = 1
      BY <3>1, <1>1
    <3>2. CASE k # 1
      <4>1. 1 \in 1 .. k - 1
        BY <3>2, <1>2
      <4>2. QED
        BY <4>1, <1>1
    <3>3. QED
      BY <3>1, <3>2
  <2>2. QED
    BY <2>1, <1>1 DEF Before
<1>4. p[Len(p)].code \in {"noop", "target"}
  <2>1. CASE k = Len(p)
    BY <2>1, <1>1
  <2>2. CASE k # Len(p)
    <3>1. Len(p) \in k + 1 .. Len(p)
      <4>1. k <= n /\ k # n
        BY <2>2, <1>2, <1>n
      <4>2. n \in k + 1 .. n
        BY <4>1
      <4>3. QED
        BY <4>2, <1>n
    <3>2. QED
      BY <3>1, <1>1
  <2>3. QED
    BY <2>1, <2>2
<1>5. \A c \in DOMAIN parent : c # root
  BY StateFacts
<1>6. ASSUME NEW i \in DOMAIN p, p[i].code # "noop" PROVE p[i].state # root
  <2>1. i \in 1 .. k - 1 \/ i \in k + 1 .. Len(p)
    <3>1. i \in 1 .. n /\ i # k
      BY <1>1, <1>2, <1>6, <1>n
    <3>2. i \in 1 .. k - 1 \/ i \in k + 1 .. n
      BY <3>1
    <3>3. QED
      BY <3>2, <1>n
  <2>2. QED
    BY <2>1, <1>1, <1>5
<1>7. ASSUME NEW i \in DOMAIN p, i > 1 PROVE Before(p[i]) = After(p[i - 1])
  <2>1. CASE i <= k
    <3>1. i - 1 \in 1 .. k - 1 /\ (i - 1) + 1 = i
      BY <2>1, <1>2, <1>7
    <3>2. After(p[i - 1]) = p[i].state
      BY <3>1, <1>1 DEF After
    <3>3. p[i].code \in {"exit", "noop"}
      <4>1. i = k \/ i \in 1 .. k - 1
        BY <2>1, <1>2
      <4>2. QED
        BY <4>1, <1>1
    <3>4. QED
      BY <3>2, <3>3 DEF Before
  <2>2. CASE i > k
    <3>1. i \in k + 1 .. Len(p)
      BY <2>2, <1>2
    <3>2. Before(p[i]) = p[i - 1].state
      BY <3>1, <1>1 DEF Before
    <3>3. p[i - 1].code # "exit"
      <4>1. i - 1 = k \/ i - 1 \in k + 1 .. Len(p)
        BY <3>1, <1>2
      <4>2. QED
        BY <4>1, <1>1
    <3>4. QED
      BY <3>2, <3>3 DEF After
  <2>3. QED
    BY <2>1, <2>2, <1>2
<1>8. QED
  BY <1>1, <1>2, <1>3, <1>4, <1>6, <1>7 DEF Walks

\* What get_transition_path() finds between transitions can be followed.
LEMMA PathWalks ==
    ASSUME Tree(parent), current \in States, active = AboveIn(parent, current), NEW t \in Nat
    PROVE  get_transition_path(current, t) \in Seq(PathNode) /\ Walks(current, get_transition_path(current, t))
<1>1. CASE t \in States
  <2>1. PICK k \in Nat : Route(get_transition_path(current, t), current, t, k)
    BY <1>1, RouteFound
  <2>2. QED
    BY <2>1, RouteWalks
<1>2. CASE t \notin States
  <2>1. get_transition_path(current, t) = <<>>
    BY <1>2, NoPath
  <2>2. <<>> \in Seq(PathNode) /\ Walks(current, <<>>)
    BY DEF Walks
  <2>3. QED
    BY <2>1, <2>2
<1>3. QED
  BY <1>1, <1>2

\* What is left of a path when its first node has been followed.
LEMMA WalksOn ==
    ASSUME NEW s, NEW p \in Seq(PathNode), p # <<>>, Walks(s, p)
    PROVE  /\ p[1] \in PathNode /\ Head(p) = p[1] /\ s = Before(p[1])
           /\ p[1].code # "noop" => p[1].state # root
           /\ Tail(p) \in Seq(PathNode)
           /\ Tail(p) = <<>> => p[1].code \in {"noop", "target"}
           /\ Tail(p) # <<>> => /\ Before(Tail(p)[1]) = After(p[1])
                                /\ Tail(p)[Len(Tail(p))].code \in {"noop", "target"}
           /\ \A i \in DOMAIN Tail(p) : Tail(p)[i].code # "noop" => Tail(p)[i].state # root
           /\ \A i \in DOMAIN Tail(p) : i > 1 => Before(Tail(p)[i]) = After(Tail(p)[i - 1])
<1>1. PICK rest : rest = Tail(p)
  OBVIOUS
<1>2. PICK n \in Nat : Len(p) = n + 1
  <2>1. Len(p) \in Nat /\ Len(p) # 0
    OBVIOUS
  <2>2. QED
    BY <2>1, Predecessor
<1>3. /\ rest \in Seq(PathNode) /\ Len(rest) = n /\ DOMAIN rest = 1 .. n
      /\ \A i \in 1 .. n : rest[i] = p[i + 1]
  BY <1>1, <1>2
<1>4. DOMAIN p = 1 .. n + 1 /\ 1 \in DOMAIN p /\ p[1] \in PathNode /\ Head(p) = p[1]
  BY <1>2
<1>5. /\ s = Before(p[1]) /\ p[n + 1].code \in {"noop", "target"}
      /\ \A i \in DOMAIN p : p[i].code # "noop" => p[i].state # root
      /\ \A i \in DOMAIN p : i > 1 => Before(p[i]) = After(p[i - 1])
  BY <1>2 DEF Walks
<1>6. rest = <<>> => p[1].code \in {"noop", "target"}
  BY <1>3, <1>5
<1>7. rest # <<>> => Before(rest[1]) = After(p[1]) /\ rest[Len(rest)].code \in {"noop", "target"}
  <2>1. HAVE rest # <<>>
  <2>2. n >= 1
    BY <2>1, <1>3
  <2>3. rest[1] = p[2] /\ rest[n] = p[n + 1] /\ 2 \in DOMAIN p /\ 2 - 1 = 1
    BY <2>2, <1>3, <1>4
  <2>4. QED
    BY <2>3, <1>3, <1>5
<1>8. ASSUME NEW i \in 1 .. n
      PROVE  /\ rest[i].code # "noop" => rest[i].state # root
             /\ i > 1 => Before(rest[i]) = After(rest[i - 1])
  <2>1. i + 1 \in DOMAIN p /\ rest[i] = p[i + 1]
    BY <1>3, <1>4
  <2>2. i > 1 => Before(rest[i]) = After(rest[i - 1])
    <3>1. HAVE i > 1
    <3>2. i - 1 \in 1 .. n /\ (i - 1) + 1 = (i + 1) - 1 /\ i + 1 > 1
      BY <3>1
    <3>3. rest[i - 1] = p[(i + 1) - 1]
      BY <3>2, <1>3
    <3>4. QED
      BY <2>1, <3>2, <3>3, <1>5
  <2>3. QED
    BY <2>1, <2>2, <1>5
<1>9. QED
  BY <1>1, <1>3, <1>4, <1>5, <1>6, <1>7, <1>8

-----------------------------------------------------------------------------
(* The invariant.                                                          *)

\* It holds initially: the root is active, alone and current.
LEMMA InitOK == Init => IInv
<1> SUFFICES ASSUME Init PROVE IInv
  OBVIOUS
<1>1. /\ parent = <<>> /\ active = {root} /\ current = root /\ at = root
      /\ child = [s \in 0 .. MaxStates |-> 0] /\ q = <<>> /\ path = <<>> /\ pc = "idle" /\ ret = "idle"
  BY DEF Init
<1>2. parent \in Seq(Nat) /\ Len(parent) = 0 /\ DOMAIN parent = {}
  BY <1>1
<1>3. Tree(parent) /\ States = {root}
  BY <1>2 DEF Tree, States, root
<1>4. MaxStates \in Nat
  BY MachineAssumption DEF MachineAssumption
<1>5. Types
  <2>1. child \in [0 .. MaxStates -> 0 .. MaxStates]
    BY <1>1, <1>4
  <2>2. q \in Seq(Nat) /\ path \in Seq(PathNode)
    BY <1>1
  <2>3. QED
    BY <1>1, <1>2, <1>3, <1>4, <2>1, <2>2 DEF Types, Following
<1>6. EndsAt(root)
  BY <1>1, <1>3, AboveEquation DEF EndsAt, Following
<1>7. Linked
  BY <1>1 DEF Linked
<1>8. QED
  BY <1>3, <1>5, <1>6, <1>7 DEF IInv

\* A step that leaves the tree and the active states alone keeps it when what
\* is left of the path can be followed.
LEMMA QuietStep ==
    ASSUME IInv, Types', UNCHANGED <<parent, active, child, current>>,
           NEW s \in States, EndsAt(s), IF Following' THEN Walks(s, path)' ELSE s = current
    PROVE  IInv'
<1>1. States' = States
  BY DEF States
<1>2. EndsAt(s)'
  BY DEF EndsAt
<1>3. Linked'
  BY DEF IInv, Linked
<1>4. QED
  BY <1>1, <1>2, <1>3 DEF IInv

\* The same holds for a path that is not touched.
LEMMA WalksStays ==
    ASSUME NEW s, NEW p, Walks(s, p), path' = p, UNCHANGED <<parent, current>>
    PROVE  Walks(s, path)'
BY DEF Walks, Before, After

\* tran_to() starts on a path that can be followed.
LEMMA TranToStep ==
    ASSUME IInv, ~Following, NEW t \in Nat, NEW back \in {"idle", "process", "exec"},
           back = "process" => q # <<>>, tran_to(t, back)
    PROVE  IInv'
<1>1. PICK s \in States : EndsAt(s)
  BY DEF IInv
<1>2. s = current /\ active = AboveIn(parent, current)
  BY <1>1 DEF EndsAt
<1>3. PICK p : p = IF current = t THEN <<>> ELSE get_transition_path(current, t)
  OBVIOUS
<1>4. /\ path' = p /\ pc' = "path" /\ ret' = back
      /\ UNCHANGED <<parent, active, child, current, q, at>>
  BY <1>3 DEF tran_to
<1>5. p \in Seq(PathNode) /\ Walks(current, p)
  <2>1. CASE current = t
    <3>1. p = <<>>
      BY <1>3, <2>1
    <3>2. QED
      BY <3>1 DEF Walks
  <2>2. CASE current # t
    <3>1. Tree(parent) /\ current \in States
      BY DEF IInv, Types
    <3>2. QED
      BY <1>2, <1>3, <2>2, <3>1, PathWalks
  <2>3. QED
    BY <2>1, <2>2
<1>6. Types'
  <2>1. PathNode' = PathNode /\ States' = States
    BY <1>4 DEF PathNode, States
  <2>2. QED
    BY <1>4, <1>5, <2>1 DEF IInv, Types, Following
<1>7. Walks(s, path)'
  BY <1>2, <1>4, <1>5, WalksStays
<1>8. Following'
  BY <1>4 DEF Following
<1>9. QED
  BY <1>1, <1>4, <1>6, <1>7, <1>8, QuietStep

\* A state that is added does not change the active path.
LEMMA AddStep == ASSUME IInv, NEW p \in States, add(p) PROVE IInv'
<1>1. PICK s \in States : EndsAt(s)
  BY DEF IInv
<1>2. /\ Tree(parent) /\ States = Nodes(parent) /\ parent \in Seq(Nat) /\ Len(parent) \in Nat
      /\ active \subseteq States /\ ~Following /\ Len(parent) < MaxStates
      /\ parent' = Append(parent, p)
      /\ UNCHANGED <<active, child, current, q, path, pc, ret, at>>
  BY StateFacts DEF IInv, Types, add, Following, Tree
<1>3. PICK more : more = Append(parent, p)
  OBVIOUS
<1>4. Tree(more) /\ \A n \in States : AboveIn(more, n) = AboveIn(parent, n)
  BY <1>2, <1>3, AboveAppend
<1>5. p \in Nat
  BY <1>2, StateFacts
<1>6. Len(more) = Len(parent) + 1 /\ \A c \in DOMAIN parent : more[c] = parent[c]
  BY <1>2, <1>3, <1>5
<1>7. States \subseteq States'
  BY <1>2, <1>3, <1>6 DEF States
<1>8. Types'
  <2>1. Len(more) <= MaxStates
    BY <1>2, <1>6, MachineAssumption DEF MachineAssumption
  <2>2. path \in Seq(PathNode')
    <3>1. PathNode \subseteq PathNode'
      BY <1>7 DEF PathNode
    <3>2. path \in Seq(PathNode)
      BY DEF IInv, Types
    <3>3. QED
      BY <3>1, <3>2
  <2>3. QED
    BY <1>2, <1>3, <1>4, <1>7, <2>1, <2>2 DEF IInv, Types, Following
<1>9. EndsAt(s)'
  BY <1>1, <1>2, <1>3, <1>4 DEF EndsAt, Following
<1>10. Linked'
  <2>1. \A c \in active \ {root} : c \in DOMAIN parent
    BY <1>2, StateFacts
  <2>2. \A a \in DOMAIN child : child[a] # 0 => child[a] \in active /\ parent[child[a]] = a /\ child[a] \in DOMAIN parent
    BY <2>1 DEF IInv, Linked, root
  <2>3. QED
    BY <1>2, <1>3, <1>6, <2>1, <2>2 DEF IInv, Linked
<1>11. QED
  BY <1>7, <1>8, <1>9, <1>10 DEF IInv

\* Entering a state below the end of the active path makes it the end.
LEMMA EnterStep ==
    ASSUME IInv, NEW n \in DOMAIN parent, active = AboveIn(parent, parent[n]), Enter(n), parent' = parent
    PROVE  /\ active' = AboveIn(parent, n) /\ Linked'
           /\ active' \subseteq States /\ child' \in [0 .. MaxStates -> 0 .. MaxStates]
<1>1. /\ Tree(parent) /\ Len(parent) <= MaxStates /\ active \subseteq States
      /\ child \in [0 .. MaxStates -> 0 .. MaxStates]
  BY DEF IInv, Types
<1>2. PICK m : m = parent[n]
  OBVIOUS
<1>3. /\ n # root /\ n \in States /\ n \in Nat /\ m \in States /\ m \in Nat /\ m < n
      /\ Len(parent) \in Nat /\ n <= Len(parent)
  BY <1>1, <1>2, StateFacts
<1>4. n \in 0 .. MaxStates /\ m \in 0 .. MaxStates
  BY <1>1, <1>3, MachineAssumption DEF MachineAssumption
<1>5. active' = active \cup {n} /\ child' = [child EXCEPT ![m] = n]
  BY <1>2, <1>3 DEF Enter
<1>6. AboveIn(parent, n) = {n} \cup AboveIn(parent, m)
  BY <1>1, <1>2, AboveEquation
<1>7. active' = AboveIn(parent, n) /\ active' \subseteq States
  BY <1>1, <1>2, <1>3, <1>5, <1>6
<1>8. child' \in [0 .. MaxStates -> 0 .. MaxStates]
  BY <1>1, <1>4, <1>5
<1>9. \A a \in 0 .. MaxStates : child'[a] = IF a = m THEN n ELSE child[a]
  BY <1>1, <1>4, <1>5
<1>10. \A c \in active \ {root} : c \in DOMAIN parent /\ parent[c] \in 0 .. MaxStates /\ parent[c] # m /\ child[parent[c]] = c
  <2>1. TAKE c \in active \ {root}
  <2>2. c \in States /\ c \in Nat /\ c <= m
    BY <1>1, <1>2, <1>3, AboveBounds, StateFacts
  <2>3. c \in DOMAIN parent /\ parent[c] \in Nat /\ parent[c] < c
    BY <1>1, <2>2, StateFacts
  <2>4. parent[c] # m /\ parent[c] \in 0 .. MaxStates
    <3>1. PICK d \in Nat : d = parent[c]
      BY <2>3
    <3>2. d < c /\ c <= m /\ c \in Nat /\ m \in Nat /\ m <= MaxStates /\ MaxStates \in Nat
      BY <1>3, <1>4, <2>2, <2>3, <3>1, MachineAssumption DEF MachineAssumption
    <3>3. d # m /\ d \in 0 .. MaxStates
      BY <3>2
    <3>4. QED
      BY <3>1, <3>3
  <2>5. child[parent[c]] = c
    BY DEF IInv, Linked
  <2>6. QED
    BY <2>3, <2>4, <2>5
<1>11. \A c \in active' \ {root} : child'[parent[c]] = c
  BY <1>2, <1>4, <1>5, <1>9, <1>10
<1>12. \A a \in 0 .. MaxStates : child'[a] # 0 => child'[a] \in active' /\ parent[child'[a]] = a
  BY <1>1, <1>2, <1>5, <1>9 DEF IInv, Linked
<1>13. Linked'
  <2>1. DOMAIN child' = 0 .. MaxStates
    BY <1>8
  <2>2. QED
    BY <2>1, <1>11, <1>12 DEF Linked
<1>14. QED
  BY <1>7, <1>8, <1>13

\* Leaving the end of the active path makes its parent the end.
LEMMA ExitStep ==
    ASSUME IInv, NEW n \in DOMAIN parent, active = AboveIn(parent, n), Exit(n), parent' = parent
    PROVE  /\ active' = AboveIn(parent, parent[n]) /\ Linked'
           /\ active' \subseteq States /\ child' \in [0 .. MaxStates -> 0 .. MaxStates]
<1>1. /\ Tree(parent) /\ Len(parent) <= MaxStates /\ active \subseteq States
      /\ child \in [0 .. MaxStates -> 0 .. MaxStates]
  BY DEF IInv, Types
<1>2. PICK m : m = parent[n]
  OBVIOUS
<1>3. /\ n # root /\ n \in States /\ n \in Nat /\ m \in States /\ m \in Nat /\ m < n
      /\ Len(parent) \in Nat /\ n <= Len(parent)
  BY <1>1, <1>2, StateFacts
<1>4. m \in 0 .. MaxStates
  BY <1>1, <1>3, MachineAssumption DEF MachineAssumption
<1>5. n \in active /\ child[m] = n
  BY <1>1, <1>2, <1>3, AboveBounds, StateFacts DEF IInv, Linked
<1>6. active' = active \ {n} /\ child' = [child EXCEPT ![m] = 0]
  BY <1>2, <1>3, <1>5 DEF Exit
<1>7. AboveIn(parent, n) = {n} \cup AboveIn(parent, m)
  BY <1>1, <1>2, AboveEquation
<1>8. \A c \in AboveIn(parent, m) : c \in States /\ c \in Nat /\ c <= m
  BY <1>1, <1>3, AboveBounds, StateFacts
<1>9. n \notin AboveIn(parent, m)
  BY <1>3, <1>8
<1>10. active' = AboveIn(parent, m)
  BY <1>6, <1>7, <1>9
<1>11. child' \in [0 .. MaxStates -> 0 .. MaxStates]
  <2>1. 0 \in 0 .. MaxStates
    BY MachineAssumption DEF MachineAssumption
  <2>2. QED
    BY <1>1, <1>6, <2>1
<1>12. \A a \in 0 .. MaxStates : child'[a] = IF a = m THEN 0 ELSE child[a]
  BY <1>1, <1>4, <1>6
<1>13. \A c \in active' \ {root} : parent[c] \in 0 .. MaxStates /\ parent[c] # m /\ child[parent[c]] = c
  <2>1. TAKE c \in active' \ {root}
  <2>2. c \in States /\ c \in Nat /\ c <= m
    BY <1>8, <1>10
  <2>3. c \in DOMAIN parent /\ parent[c] \in Nat /\ parent[c] < c
    BY <1>1, <2>2, StateFacts
  <2>4. parent[c] # m /\ parent[c] \in 0 .. MaxStates
    <3>1. PICK d \in Nat : d = parent[c]
      BY <2>3
    <3>2. d < c /\ c <= m /\ c \in Nat /\ m \in Nat /\ m <= MaxStates /\ MaxStates \in Nat
      BY <1>3, <1>4, <2>2, <2>3, <3>1, MachineAssumption DEF MachineAssumption
    <3>3. d # m /\ d \in 0 .. MaxStates
      BY <3>2
    <3>4. QED
      BY <3>1, <3>3
  <2>5. child[parent[c]] = c
    BY <1>6 DEF IInv, Linked
  <2>6. QED
    BY <2>3, <2>4, <2>5
<1>14. \A c \in active' \ {root} : child'[parent[c]] = c
  BY <1>12, <1>13
<1>15. \A a \in 0 .. MaxStates : child'[a] # 0 => child'[a] \in active' /\ parent[child'[a]] = a
  BY <1>1, <1>2, <1>6, <1>12 DEF IInv, Linked
<1>16. Linked'
  <2>1. DOMAIN child' = 0 .. MaxStates
    BY <1>11
  <2>2. QED
    BY <2>1, <1>14, <1>15 DEF Linked
<1>17. active' \subseteq States
  BY <1>1, <1>6
<1>18. QED
  BY <1>2, <1>10, <1>11, <1>16, <1>17

\* Every node of a path moves the end of the active path along.
LEMMA FollowStep == ASSUME IInv, PathStep PROVE IInv'
<1>1. PICK s \in States : EndsAt(s)
  BY DEF IInv
<1>2. /\ Tree(parent) /\ Len(parent) <= MaxStates /\ path \in Seq(PathNode) /\ path # <<>>
      /\ active \subseteq States /\ current \in States
      /\ Following /\ child \in [0 .. MaxStates -> 0 .. MaxStates]
  BY DEF IInv, Types, PathStep
<1>3. active = AboveIn(parent, s) /\ Walks(s, path)
  BY <1>1, <1>2 DEF EndsAt
<1>4. PICK n \in PathNode : n = path[1] /\ n = Head(path)
  BY <1>2, <1>3, WalksOn
<1>5. n.code \in Codes /\ n.state \in States
  BY <1>4 DEF PathNode
<1>6. s = Before(n) /\ (n.code # "noop" => n.state # root)
  BY <1>2, <1>3, <1>4, WalksOn
<1>7. /\ Step(n) /\ path' = Tail(path) /\ pc' \in {"path", "callback"}
      /\ UNCHANGED <<parent, q, ret, at>>
  BY <1>4 DEF PathStep
<1>8. Following'
  BY <1>7 DEF Following
<1>9. /\ active' = AboveIn(parent, After(n)) /\ Linked' /\ active' \subseteq States
      /\ child' \in [0 .. MaxStates -> 0 .. MaxStates]
      /\ After(n) \in States /\ current' \in States
      /\ n.code \in {"noop", "target"} => current' = After(n)
  <2>1. CASE n.code \in {"enter", "target"}
    <3>1. n.state \in DOMAIN parent
      BY <1>2, <1>5, <1>6, <2>1, StateFacts
    <3>2. s = parent[n.state] /\ After(n) = n.state
      BY <1>6, <2>1 DEF Before, After
    <3>3. Enter(n.state) /\ current' = IF n.code = "target" THEN n.state ELSE current
      BY <1>7, <2>1 DEF Step
    <3>4. /\ active' = AboveIn(parent, n.state) /\ Linked' /\ active' \subseteq States
          /\ child' \in [0 .. MaxStates -> 0 .. MaxStates]
      BY <1>3, <1>7, <3>1, <3>2, <3>3, EnterStep
    <3>5. QED
      BY <1>2, <1>5, <2>1, <3>2, <3>3, <3>4
  <2>2. CASE n.code = "exit"
    <3>1. n.state \in DOMAIN parent /\ parent[n.state] \in States
      BY <1>2, <1>5, <1>6, <2>2, StateFacts
    <3>2. s = n.state /\ After(n) = parent[n.state]
      BY <1>6, <2>2 DEF Before, After
    <3>3. Exit(n.state) /\ current' = current
      BY <1>7, <2>2 DEF Step
    <3>4. /\ active' = AboveIn(parent, parent[n.state]) /\ Linked' /\ active' \subseteq States
          /\ child' \in [0 .. MaxStates -> 0 .. MaxStates]
      BY <1>3, <1>7, <3>1, <3>2, <3>3, ExitStep
    <3>5. QED
      BY <1>2, <2>2, <3>1, <3>2, <3>3, <3>4
  <2>3. CASE n.code = "noop"
    <3>1. s = n.state /\ After(n) = n.state
      BY <1>6, <2>3 DEF Before, After
    <3>2. current' = n.state /\ active' = active /\ child' = child
      BY <1>7, <2>3 DEF Step
    <3>3. Linked'
      BY <1>7, <3>2 DEF IInv, Linked
    <3>4. QED
      BY <1>2, <1>3, <1>5, <3>1, <3>2, <3>3
  <2>4. QED
    BY <1>5, <2>1, <2>2, <2>3 DEF Codes
<1>10. States' = States /\ PathNode' = PathNode
  BY <1>7 DEF States, PathNode
<1>11. PICK rest : rest = Tail(path)
  OBVIOUS
<1>12. /\ rest \in Seq(PathNode)
       /\ rest = <<>> => n.code \in {"noop", "target"}
       /\ rest # <<>> => Before(rest[1]) = After(n) /\ rest[Len(rest)].code \in {"noop", "target"}
       /\ \A i \in DOMAIN rest : rest[i].code # "noop" => rest[i].state # root
       /\ \A i \in DOMAIN rest : i > 1 => Before(rest[i]) = After(rest[i - 1])
  BY <1>2, <1>3, <1>4, <1>11, WalksOn
<1>13. Types'
  BY <1>2, <1>7, <1>9, <1>10, <1>11, <1>12 DEF IInv, Types, Following
<1>14. PICK e \in States : e = After(n)
  BY <1>9
<1>15. Walks(e, path)'
  <2>1. path' = rest /\ parent' = parent
    BY <1>7, <1>11
  <2>2. rest = <<>> => e = current'
    BY <1>9, <1>12, <1>14
  <2>3. QED
    BY <1>12, <1>14, <2>1, <2>2 DEF Walks, Before, After
<1>16. EndsAt(e)'
  BY <1>7, <1>8, <1>9, <1>14, <1>15 DEF EndsAt
<1>17. QED
  BY <1>9, <1>10, <1>13, <1>16 DEF IInv

\* Every step keeps the invariant.
LEMMA StepOK == IInv /\ [Next]_vars => IInv'
<1> SUFFICES ASSUME IInv, [Next]_vars PROVE IInv'
  OBVIOUS
<1>1. PICK s \in States : EndsAt(s)
  BY DEF IInv
<1>2. Types /\ Tree(parent) /\ (~Following => s = current) /\ (Following => Walks(s, path))
  BY <1>1 DEF IInv, Types, EndsAt
<1>3. UNCHANGED parent => States' = States /\ PathNode' = PathNode
  BY DEF States, PathNode
<1>4. ASSUME UNCHANGED <<parent, active, child, current, path>>, Types', Following' <=> Following PROVE IInv'
  BY <1>1, <1>2, <1>4, QuietStep, WalksStays
<1>5. ASSUME NEW p \in States, add(p) PROVE IInv'
  BY <1>5, AddStep
<1>6. ASSUME NEW t \in Targets, TranSafe(t) PROVE IInv'
  <2>1. t \in Nat
    BY <1>2, StateFacts DEF Targets
  <2>2. /\ q' = Append(q, t) /\ UNCHANGED <<parent, active, child, current, path, pc, ret, at>>
    BY <1>6 DEF TranSafe
  <2>3. q' \in Seq(Nat) /\ q' # <<>>
    BY <1>2, <2>1, <2>2 DEF Types
  <2>4. Types'
    BY <1>2, <1>3, <2>2, <2>3 DEF Types, Following
  <2>5. QED
    BY <1>4, <2>2, <2>4 DEF Following
<1>7. ASSUME NEW t \in Targets, TranImmediate(t) PROVE IInv'
  <2>1. t \in Nat
    BY <1>2, StateFacts DEF Targets
  <2>2. pc \in {"idle", "exec"} /\ tran_to(t, pc)
    BY <1>7 DEF TranImmediate
  <2>3. QED
    BY <2>1, <2>2, TranToStep DEF Following
<1>8. CASE PathStep
  BY <1>8, FollowStep
<1>9. CASE PathDone
  <2>1. /\ Following /\ path = <<>> /\ pc' = ret /\ q' = IF ret = "process" THEN Tail(q) ELSE q
        /\ UNCHANGED <<parent, active, child, current, path, ret, at>>
    BY <1>9 DEF PathDone
  <2>2. ~Following'
    BY <1>2, <2>1 DEF Types, Following
  <2>3. q' \in Seq(Nat)
    BY <1>2, <2>1 DEF Types
  <2>4. Types'
    BY <1>2, <1>3, <2>1, <2>2, <2>3 DEF Types
  <2>5. s = current
    BY <1>2, <2>1 DEF Walks
  <2>6. QED
    BY <1>1, <2>1, <2>2, <2>4, <2>5, QuietStep
<1>10. CASE execute \/ ProcessDone \/ Descend
  <2>1. UNCHANGED <<parent, active, child, current, q, path, ret>>
    BY <1>10 DEF execute, ProcessDone, Descend
  <2>2. ~Following /\ ~Following' /\ pc' \in {"idle", "process", "exec"}
    BY <1>10 DEF execute, ProcessDone, Descend, Following
  <2>3. at' \in States
    <3>1. root \in States /\ at \in States /\ active \subseteq States
      BY <1>2, StateFacts DEF Types
    <3>2. QED
      BY <1>10, <3>1 DEF execute, ProcessDone, Descend
  <2>4. Types'
    BY <1>2, <1>3, <2>1, <2>2, <2>3 DEF Types
  <2>5. QED
    BY <1>4, <2>1, <2>2, <2>4
<1>11. CASE ProcessFront
  <2>1. pc = "process" /\ q # <<>> /\ tran_to(Head(q), "process")
    BY <1>11 DEF ProcessFront
  <2>2. Head(q) \in Nat
    BY <1>2, <2>1 DEF Types
  <2>3. QED
    BY <2>1, <2>2, TranToStep DEF Following
<1>12. CASE UNCHANGED vars
  <2>1. Types'
    BY <1>2, <1>3, <1>12 DEF vars, Types, Following
  <2>2. QED
    BY <1>4, <1>12, <2>1 DEF vars, Following
<1>13. QED
  BY <1>5, <1>6, <1>7, <1>8, <1>9, <1>10, <1>11, <1>12 DEF Next

\* In every reachable state the variables have their types, the active states
\* are a path, what is left of a transition continues it, and active_child_
\* leads along it.
THEOREM MachineInvariant == Spec => []IInv
BY InitOK, StepOK, PTL DEF Spec

-----------------------------------------------------------------------------
(* The properties.                                                         *)

\* The active states are a path from the root, and active_child_ leads along
\* it, even between the steps of a transition.
THEOREM ActiveIsAPath == Spec => []ActiveIsPath
<1>1. IInv => ActiveIsPath
  <2> SUFFICES ASSUME IInv PROVE ActiveIsPath
    OBVIOUS
  <2>1. PICK s \in States : EndsAt(s)
    BY DEF IInv
  <2>2. active = Above(s) /\ (~Following => s = current)
    BY <2>1, AboveIsAboveIn DEF EndsAt
  <2>3. ASSUME NEW a \in 0 .. MaxStates
        PROVE  child[a] = IF \E c \in active \ {root} : parent[c] = a
                          THEN CHOOSE c \in active \ {root} : parent[c] = a ELSE 0
    <3>1. CASE \E c \in active \ {root} : parent[c] = a
      <4>1. PICK c : c = CHOOSE x \in active \ {root} : parent[x] = a
        OBVIOUS
      <4>2. c \in active \ {root} /\ parent[c] = a
        BY <3>1, <4>1
      <4>3. child[a] = c
        BY <4>2 DEF IInv, Linked
      <4>4. QED
        BY <3>1, <4>1, <4>3
    <3>2. CASE ~\E c \in active \ {root} : parent[c] = a
      <4>1. a \in DOMAIN child
        BY DEF IInv, Types
      <4>2. child[a] = 0
        BY <3>2, <4>1 DEF IInv, Linked, root
      <4>3. QED
        BY <3>2, <4>2
    <3>3. QED
      BY <3>1, <3>2
  <2>4. QED
    BY <2>2, <2>3 DEF ActiveIsPath
<1>2. QED
  BY <1>1, MachineInvariant, PTL

\* In every tree and from every state get_transition_path() finds the path of
\* a transition to every state, and none to a key that is not there.
THEOREM PathIsTheReference == Spec => []PathIsReference
<1>1. IInv => PathIsReference
  <2> SUFFICES ASSUME IInv, ~Following PROVE /\ \A t \in States : IsTransition(get_transition_path(current, t), current, t)
                                             /\ get_transition_path(current, Len(parent) + 1) = <<>>
    BY DEF PathIsReference
  <2>1. Tree(parent) /\ current \in States /\ active = AboveIn(parent, current)
    BY DEF IInv, Types, EndsAt
  <2>2. ASSUME NEW t \in States PROVE IsTransition(get_transition_path(current, t), current, t)
    BY <2>1, RouteFound, RouteIsTransition
  <2>3. Len(parent) + 1 \in Nat /\ Len(parent) + 1 \notin States
    <3>1. Len(parent) \in Nat
      BY <2>1, StateFacts
    <3>2. QED
      BY <3>1 DEF States
  <2>4. get_transition_path(current, Len(parent) + 1) = <<>>
    BY <2>1, <2>3, NoPath
  <2>5. QED
    BY <2>2, <2>4
<1>2. QED
  BY <1>1, MachineInvariant, PTL

\* What enter() and exit() assert of the state they are called for, and
\* tran_to() of current_, always holds.
THEOREM VerifiesAlwaysHold == Spec => []VerifiesHold
<1>1. IInv => VerifiesHold
  <2> SUFFICES ASSUME IInv PROVE VerifiesHold
    OBVIOUS
  <2>1. PICK s \in States : EndsAt(s)
    BY DEF IInv
  <2>2. /\ Tree(parent) /\ s \in Nat /\ active = AboveIn(parent, s)
        /\ s \in active /\ \A x \in active : x \in Nat /\ x <= s
    BY <2>1, AboveBounds, StateFacts DEF IInv, Types, EndsAt
  <2>3. ~Following => current \in active
    BY <2>1, <2>2 DEF EndsAt
  <2>4. ASSUME Following, path # <<>>, NEW n, n = Head(path)
        PROVE  /\ n.code \in {"enter", "target"} =>
                     /\ n.state \notin active
                     /\ n.state # root => parent[n.state] \in active /\ child[parent[n.state]] # n.state
               /\ n.code = "exit" => n.state \in active
    <3>1. path \in Seq(PathNode) /\ Walks(s, path)
      BY <2>1, <2>4 DEF IInv, Types, EndsAt
    <3>2. n \in PathNode /\ s = Before(n) /\ (n.code # "noop" => n.state # root)
      BY <2>4, <3>1, WalksOn
    <3>3. n.state \in States
      BY <3>2 DEF PathNode
    <3>4. CASE n.code = "exit"
      BY <2>2, <3>2, <3>4 DEF Before
    <3>5. CASE n.code \in {"enter", "target"}
      <4>1. PICK m : m = n.state
        OBVIOUS
      <4>2. m \in DOMAIN parent /\ m # root /\ m \in Nat /\ parent[m] = s /\ s < m
        BY <2>2, <3>2, <3>3, <3>5, <4>1, StateFacts DEF Before
      <4>3. m \notin active
        BY <2>2, <4>2
      <4>4. parent[m] \in DOMAIN child
        BY <2>2, <4>2, StateFacts, MachineAssumption DEF MachineAssumption, IInv, Types
      <4>5. child[parent[m]] # m
        BY <4>2, <4>3, <4>4 DEF IInv, Linked, root
      <4>6. QED
        BY <2>2, <3>5, <4>1, <4>2, <4>3, <4>5
    <3>6. QED
      BY <3>4, <3>5
  <2>5. QED
    BY <2>3, <2>4 DEF VerifiesHold
<1>2. QED
  BY <1>1, MachineInvariant, PTL

\* What is left of the path that process_transitions() follows ends in the
\* state that the transition at the front asks for.
Aimed ==
    Following /\ ret = "process" /\ Head(q) \in States =>
        IF path = <<>> THEN current = Head(q) ELSE path[Len(path)].state = Head(q)

\* tran_to() aims at its target.
LEMMA AimedStart ==
    ASSUME IInv, ~Following, q # <<>>, tran_to(Head(q), "process")
    PROVE  Aimed'
<1>1. PICK p : p = IF current = Head(q) THEN <<>> ELSE get_transition_path(current, Head(q))
  OBVIOUS
<1>2. path' = p /\ UNCHANGED <<parent, current, q>>
  BY <1>1 DEF tran_to
<1>3. States' = States
  BY <1>2 DEF States
<1>4. Tree(parent) /\ current \in States /\ active = AboveIn(parent, current)
  BY DEF IInv, Types, EndsAt
<1>5. ASSUME Head(q) \in States
      PROVE  IF p = <<>> THEN current = Head(q) ELSE p[Len(p)].state = Head(q)
  <2>1. CASE current = Head(q)
    BY <1>1, <2>1
  <2>2. CASE current # Head(q)
    <3>1. PICK k \in Nat : Route(p, current, Head(q), k)
      BY <1>1, <1>4, <1>5, <2>2, RouteFound
    <3>2. p # <<>> /\ p[Len(p)].state = Head(q)
      <4>1. k \in DOMAIN p
        BY <3>1 DEF Route
      <4>2. p # <<>>
        BY <4>1
      <4>3. QED
        BY <3>1, <4>2 DEF Route
    <3>3. QED
      BY <3>2
  <2>3. QED
    BY <2>1, <2>2
<1>6. QED
  BY <1>2, <1>3, <1>5 DEF Aimed

\* Following a node does not change the aim, and the last one reaches it.
LEMMA AimedFollow == ASSUME IInv, Aimed, PathStep PROVE Aimed'
<1>1. PICK s \in States : EndsAt(s)
  BY DEF IInv
<1>2. /\ Following /\ path \in Seq(PathNode) /\ path # <<>> /\ Walks(s, path)
      /\ Step(Head(path)) /\ path' = Tail(path) /\ UNCHANGED <<parent, q, ret>>
  BY <1>1 DEF IInv, Types, EndsAt, PathStep
<1>3. States' = States
  BY <1>2 DEF States
<1>4. PICK n \in Nat : Len(path) = n + 1
  <2>1. Len(path) \in Nat /\ Len(path) # 0
    BY <1>2
  <2>2. QED
    BY <2>1, Predecessor
<1>5. PICK rest : rest = Tail(path)
  OBVIOUS
<1>6. rest \in Seq(PathNode) /\ Len(rest) = n /\ \A i \in 1 .. n : rest[i] = path[i + 1]
  BY <1>2, <1>4, <1>5
<1>7. rest # <<>> => rest[Len(rest)] = path[Len(path)]
  <2>1. HAVE rest # <<>>
  <2>2. n \in 1 .. n
    BY <2>1, <1>6
  <2>3. QED
    BY <2>2, <1>4, <1>6
<1>8. rest = <<>> => current' = path[Len(path)].state
  <2>1. HAVE rest = <<>>
  <2>2. Len(path) = 1 /\ Head(path) = path[1] /\ path[1].code \in {"noop", "target"}
    BY <2>1, <1>2, <1>4, <1>5, <1>6, WalksOn
  <2>3. QED
    BY <2>2, <1>2 DEF Step
<1>9. QED
  BY <1>2, <1>3, <1>5, <1>7, <1>8 DEF Aimed

\* Every transition that process_transitions() takes from the queue ends in the
\* state it asked for.
THEOREM TransitionsArrive == Spec => []TransitionArrives
<1>1. Init => Aimed
  BY DEF Init, Aimed, Following
<1>2. IInv /\ Aimed /\ [Next]_vars => Aimed'
  <2> SUFFICES ASSUME IInv, Aimed, [Next]_vars PROVE Aimed'
    OBVIOUS
  <2>1. CASE PathStep
    BY <2>1, AimedFollow
  <2>2. CASE ProcessFront
    BY <2>2, AimedStart DEF ProcessFront, Following
  <2>3. ASSUME NEW t \in Targets, TranSafe(t) PROVE Aimed'
    <3>1. t \in Nat /\ q \in Seq(Nat) /\ (Following /\ ret = "process" => q # <<>>)
      BY StateFacts DEF Targets, IInv, Types
    <3>2. q' = Append(q, t) /\ UNCHANGED <<parent, current, path, pc, ret>>
      BY <2>3 DEF TranSafe
    <3>3. q # <<>> => Head(Append(q, t)) = Head(q)
      BY <3>1
    <3>4. QED
      BY <3>1, <3>2, <3>3 DEF Aimed, Following, States
  <2>4. ASSUME NEW t \in Targets, TranImmediate(t) PROVE Aimed'
    BY <2>4 DEF TranImmediate, tran_to, Aimed
  <2>5. ASSUME NEW p \in States, add(p) PROVE Aimed'
    BY <2>5 DEF add, Aimed, Following
  <2>6. CASE PathDone
    BY <2>6 DEF PathDone, Aimed, Following, IInv, Types
  <2>7. CASE execute \/ ProcessDone \/ Descend
    BY <2>7 DEF execute, ProcessDone, Descend, Aimed, Following
  <2>8. CASE UNCHANGED vars
    BY <2>8 DEF vars, Aimed, Following, States
  <2>9. QED
    BY <2>1, <2>2, <2>3, <2>4, <2>5, <2>6, <2>7, <2>8 DEF Next
<1>3. Aimed => TransitionArrives
  BY DEF Aimed, TransitionArrives
<1>4. QED
  BY <1>1, <1>2, <1>3, MachineInvariant, PTL DEF Spec

=============================================================================
