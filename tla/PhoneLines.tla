----------------------------- MODULE PhoneLines -----------------------------
(***************************************************************************)
(* What CallsService promises, without handlers, locks or messages: every  *)
(* user has one line, a call is placed only when all the lines it needs    *)
(* are free, and its outcome follows from how far it got.                  *)
(***************************************************************************)
CONSTANTS Users, CallIds, None

VARIABLES phase, line
vars == <<phase, line>>

Init ==
    /\ phase = [c \in CallIds |-> "none"]
    /\ line = [u \in Users |-> None]

(* Nobody calls alone. *)
Place(c, S) ==
    /\ \E u, v \in S : u # v
    /\ phase[c] = "none"
    /\ \A u \in S : line[u] = None
    /\ phase' = [phase EXCEPT ![c] = "ringing"]
    /\ line' = [u \in Users |-> IF u \in S THEN c ELSE line[u]]

PickUp(c) ==
    /\ phase[c] = "ringing"
    /\ phase' = [phase EXCEPT ![c] = "active"]
    /\ UNCHANGED line

(* A member of a group call turns it down and the others keep ringing. *)
StepOut(u) ==
    /\ line[u] # None
    /\ phase[line[u]] = "ringing"
    /\ line' = [line EXCEPT ![u] = None]
    /\ UNCHANGED phase

(* Answered calls end, unanswered ones are missed or declined; every line   *)
(* of the call is free again at that moment.                                *)
Over(c, outcome) ==
    /\ \/ phase[c] = "active" /\ outcome = "ended"
       \/ phase[c] = "ringing" /\ outcome \in {"missed", "declined"}
    /\ phase' = [phase EXCEPT ![c] = outcome]
    /\ line' = [u \in Users |-> IF line[u] = c THEN None ELSE line[u]]

Next ==
    \/ \E c \in CallIds, S \in SUBSET Users : Place(c, S)
    \/ \E c \in CallIds : PickUp(c)
    \/ \E u \in Users : StepOut(u)
    \/ \E c \in CallIds, outcome \in {"ended", "missed", "declined"} : Over(c, outcome)

Spec == Init /\ [][Next]_vars
=============================================================================
