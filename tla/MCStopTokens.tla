---------------------------- MODULE MCStopTokens ----------------------------
(* A stop_group of two parents: its registrations forward to the child      *)
(* state, whose user's callback may destroy the group.  Besides, the user's *)
(* callback and one on the second parent may reset each other.              *)
EXTENDS StopTokens

CONSTANTS t1, t2, t3, parent1, parent2, child, group1, group2, user, other

To(op, arg) == [op |-> op, arg |-> arg]

MCStateOf ==
    [r \in Registrations |-> CASE r = group1 -> parent1 [] r = user -> child [] OTHER -> parent2]

\* Two threads stop the parents; the third builds the group, drops half of it
\* and retires the child's source.
MCProgram ==
    [t \in Threads |->
        CASE t = t1 -> {To("request", parent1)}
          [] t = t2 -> {To("request", parent2)}
          [] t = t3 -> {To("register", r) : r \in Registrations}
                       \cup {To("reset", group1), To("retire", child)}]

MCCallback ==
    [r \in Registrations |->
        CASE r = user -> {To("reset", g) : g \in Registrations}
          [] r = other -> {To("reset", user)}
          [] OTHER -> {To("request", child)}]

\* No two callbacks wait for each other's end.  reset() of a stop registration
\* does not promise it, and StopTokensCycle.cfg shows that it is false.
NoCycle == \A t \in Threads : ~Embraced(t)
=============================================================================
