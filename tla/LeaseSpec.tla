------------------------------- MODULE LeaseSpec -------------------------------
(***************************************************************************)
(* What the dictionary lease promises its holders: any number of sessions  *)
(* share the dictionaries, or one holder has them to itself.  A session    *)
(* that publishes turns its share into sole use for the length of one      *)
(* operation and is a sharing session again afterwards.                    *)
(***************************************************************************)
CONSTANT Holders

VARIABLE use   \* what each holder may do with the dictionaries

Uses == {"none", "share", "sole"}

Init == use = [h \in Holders |-> "none"]

\* Nobody else has any use of the dictionaries.
Alone(h) == \A g \in Holders \ {h} : use[g] = "none"

Share(h) ==
    /\ use[h] \in {"none", "sole"}
    /\ \A g \in Holders \ {h} : use[g] # "sole"
    /\ use' = [use EXCEPT ![h] = "share"]

TakeSole(h) ==
    /\ use[h] \in {"none", "share"}
    /\ Alone(h)
    /\ use' = [use EXCEPT ![h] = "sole"]

\* The lease is destroyed or its process dies.
Release(h) ==
    /\ use[h] # "none"
    /\ use' = [use EXCEPT ![h] = "none"]

Next == \E h \in Holders : Share(h) \/ TakeSole(h) \/ Release(h)

Spec == Init /\ [][Next]_use

=============================================================================
