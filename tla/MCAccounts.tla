------------------------------ MODULE MCAccounts ------------------------------
(* Instances of Accounts for TLC.                                             *)
EXTENDS Accounts, TLC, FiniteSets

(* Updates of one column.                                                     *)
Nothing == [email |-> None, role |-> None, org |-> None, id |-> None]
OneColumn ==
    {[Nothing EXCEPT !.email = e] : e \in Emails} \cup {[Nothing EXCEPT !.role = "USER"]}
    \cup {[Nothing EXCEPT !.org = o] : o \in Orgs} \cup {[Nothing EXCEPT !.id = i] : i \in Ids}

Symmetry ==
    Permutations(Emails) \cup Permutations(Ids) \cup Permutations(Orgs) \cup Permutations(Requests)

(* Two tokens are given, and two users deleted, moved or renumbered: bounds.  *)
TwoTokens ==
    Init /\ [][Next /\ Cardinality(tokens') <= 2 /\ Cardinality(left') <= 2]_vars
=============================================================================
