------------------------------- MODULE Listing ------------------------------
(***************************************************************************)
(* Two ways of making a list of lists, by saying which element is the      *)
(* n-th instead of building it up: what is picked out of a list by its     *)
(* places, and lists joined end to end.                                    *)
(***************************************************************************)
EXTENDS Integers, FiniteSets, Sequences

\* The n-th of a set of numbers is the one with n - 1 members before it.
Nth(n, S) == CHOOSE i \in S : Cardinality({j \in S : j < i}) = n - 1

\* The elements of a list at the places in S, in their order.
Picked(list, S) == [n \in 1..Cardinality(S) |-> list[Nth(n, S)]]

\* The places of a list of lists, and their reading order.
Places(lists) == UNION {{<<i, j>> : j \in DOMAIN lists[i]} : i \in DOMAIN lists}

Before(p, q) == p[1] < q[1] \/ (p[1] = q[1] /\ p[2] < q[2])

NthPlace(n, P) == CHOOSE p \in P : Cardinality({q \in P : Before(q, p)}) = n - 1

\* The lists, end to end.
Joined(lists) ==
  [n \in 1..Cardinality(Places(lists)) |->
     LET p == NthPlace(n, Places(lists)) IN lists[p[1]][p[2]]]
=============================================================================
