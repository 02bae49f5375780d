------------------------------- MODULE Chains -------------------------------
(* Singly linked node chains, modelled as sequences of node names.          *)
EXTENDS Naturals, Sequences

\* The nodes on a chain.
Elems(s) == {s[i] : i \in 1..Len(s)}

\* No node is linked twice.
Distinct(s) == \A i, j \in 1..Len(s) : s[i] = s[j] => i = j

\* Unlinking a node, wherever on the chain it is.
Without(s, n) ==
    IF n \notin Elems(s) THEN s
    ELSE LET i == CHOOSE i \in 1..Len(s) : s[i] = n
         IN  [j \in 1..(Len(s) - 1) |-> IF j < i THEN s[j] ELSE s[j + 1]]
=============================================================================
