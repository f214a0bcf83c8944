------------------------------- MODULE Roster -------------------------------
(***************************************************************************)
(* What a group promises: who is in it and who runs it.                    *)
(***************************************************************************)
CONSTANTS Users, Creator, Originals   \* Originals: the members it is created with

VARIABLES people, admins
vars == <<people, admins>>

Init == people = Originals /\ admins = {Creator}

Add(a, x) ==
    /\ a \in admins
    /\ x \notin people
    /\ people' = people \cup {x}
    /\ UNCHANGED admins

Remove(a, x) ==
    /\ a \in admins
    /\ x \in people \ {a}
    /\ people' = people \ {x}
    /\ admins' = admins \ {x}

Promote(a, x) ==
    /\ a \in admins
    /\ x \in people
    /\ admins' = admins \cup {x}
    /\ UNCHANGED people

Demote(a, x) ==
    /\ a \in admins
    /\ x \in admins \ {a}
    /\ admins' = admins \ {x}
    /\ UNCHANGED people

(* The last admin leaves an heir behind, unless the group is empty then. *)
Leave(u) ==
    /\ u \in people
    /\ people' = people \ {u}
    /\ \/ admins # {u} /\ admins' = admins \ {u}
       \/ people = {u} /\ admins' = {}
       \/ admins = {u} /\ \E heir \in people \ {u} : admins' = {heir}

Next ==
    \/ \E a, x \in Users : Add(a, x) \/ Remove(a, x) \/ Promote(a, x) \/ Demote(a, x)
    \/ \E u \in Users : Leave(u)

Spec == Init /\ [][Next]_vars
=============================================================================
