-------------------------------- MODULE Board --------------------------------
(***************************************************************************)
(* What a thread promises of its messages, whatever requests overlap: a    *)
(* receipt only rises and never tells on somebody who keeps read receipts  *)
(* off; one reaction changes one person's mark and nobody else's; hidden   *)
(* stays hidden, deleted stays deleted, and a call changes one of these    *)
(* things of one message.                                                  *)
(***************************************************************************)
EXTENDS Naturals

CONSTANTS Members, Private, Emoji, MaxMessages, None

VARIABLES count, level, reacted, pin, hidden, deleted

Board == <<count, level, reacted, pin, hidden, deleted>>

Ids == 1..MaxMessages

Init ==
    /\ count = 0
    /\ level = [m \in Ids |-> [u \in Members |-> 0]]
    /\ reacted = [m \in Ids |-> {}]
    /\ pin = [m \in Ids |-> None]
    /\ hidden = [m \in Ids |-> {}]
    /\ deleted = [m \in Ids |-> FALSE]

Post ==
    /\ count < MaxMessages
    /\ count' = count + 1
    /\ UNCHANGED <<level, reacted, pin, hidden, deleted>>

Receive(m, u) ==
    /\ \E n \in 1..2 :
          /\ n > level[m][u]
          /\ n = 2 => u \notin Private
          /\ level' = [level EXCEPT ![m][u] = n]
    /\ UNCHANGED <<count, reacted, pin, hidden, deleted>>

React(m, u) ==
    /\ \E e \in Emoji :
          \/ reacted' = [reacted EXCEPT ![m] = @ \cup {<<e, u>>}]
          \/ reacted' = [reacted EXCEPT ![m] = @ \ {<<e, u>>}]
    /\ UNCHANGED <<count, level, pin, hidden, deleted>>

Pin(m, u) ==
    /\ pin' = [pin EXCEPT ![m] = u]
    /\ UNCHANGED <<count, level, reacted, hidden, deleted>>

Hide(m, u) ==
    /\ hidden' = [hidden EXCEPT ![m] = @ \cup {u}]
    /\ UNCHANGED <<count, level, reacted, pin, deleted>>

Delete(m) ==
    /\ deleted' = [deleted EXCEPT ![m] = TRUE]
    /\ UNCHANGED <<count, level, reacted, pin, hidden>>

Next ==
    \/ Post
    \/ \E m \in 1..count :
          \/ \E u \in Members : Receive(m, u) \/ React(m, u) \/ Hide(m, u)
          \/ \E u \in Members \cup {None} : Pin(m, u)
          \/ Delete(m)

Spec == Init /\ [][Next]_Board
=============================================================================
