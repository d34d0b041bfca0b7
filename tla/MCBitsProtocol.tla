--------------------------- MODULE MCBitsProtocol ---------------------------
(* Message classes for BitsProtocol: empty, plain, numbered, with all       *)
(* trailers, and two that reach the limits of one length byte.  The empty   *)
(* one gets no trailer, and the plain one wants none: their length field    *)
(* may be the caller's.                                                     *)
EXTENDS BitsProtocol, TLC

MCKinds ==
    {[size |-> 8,   sequence |-> FALSE, checksum |-> TRUE],
     [size |-> 12,  sequence |-> FALSE, checksum |-> FALSE],
     [size |-> 12,  sequence |-> TRUE,  checksum |-> FALSE],
     [size |-> 8,   sequence |-> TRUE,  checksum |-> TRUE],
     [size |-> 251, sequence |-> FALSE, checksum |-> TRUE],
     [size |-> 252, sequence |-> FALSE, checksum |-> TRUE]}

\* The senders are alike, and nothing but their number matters.
Symmetry == Permutations(Senders)

=============================================================================
