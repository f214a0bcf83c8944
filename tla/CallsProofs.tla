---------------------------- MODULE CallsProofs ----------------------------
(***************************************************************************)
(* Proofs about Calls, for every value of its constants.  The order:       *)
(* types, the shape of a handler's local variables, what only ever grows,  *)
(* then the parts of the inductive invariant IInv one after the other,     *)
(* what follows from it, and the serial case.                              *)
(***************************************************************************)
EXTENDS Calls, TLAPS

(* A seat of a call is a user's. *)
LEMMA SeatsAreUsers ==
    ASSUME TypeOK
    PROVE  \A c \in CallIds : Seats(c) \subseteq Users
  BY CallsAssumption DEF TypeOK, RowsTyped, Seats

(* What expireRings and hangupAllForUser decide is work for conclude. *)
LEMMA VerdictsAreWork ==
    ASSUME TypeOK
    PROVE  /\ Overdue \subseteq Work
           /\ \A u \in Users : LeftoversOf(u) \subseteq Work
  BY DEF TypeOK, RowsTyped, OutsideTyped, Overdue, LeftoversOf, FinishStatus, Work, Final

(* The state before the first request is typed and has no handler. *)
LEMMA InitTyped == Init => TypeOK /\ HandlerShape
  BY CallsAssumption DEF Init, NoHandlers, TypeOK, RowsTyped, OutsideTyped, HandlersTyped,
     HandlerShape, Labels, Live, Final, Starters, Loaded, Work

(* A handler that finishes leaves its slot typed and without local variables. *)
LEMMA FinishTyped ==
    ASSUME HandlersTyped, NEW p \in Procs, Finish(p)
    PROVE  HandlersTyped'
  BY DEF HandlersTyped, Finish, Labels, Work

(* The member loops of clearStaleBusy and busy keep the types. *)
LEMMA NextMemberTyped ==
    ASSUME HandlersTyped, NEW p \in Procs, NEW u \in Users, NextMember(p, u)
    PROVE  HandlersTyped'
  BY DEF HandlersTyped, NextMember, FoundFree, GoTo, Labels, Work

(* Either way busy answers true, the types are kept. *)
LEMMA FoundBusyTyped ==
    ASSUME HandlersTyped, NEW p \in Procs, FoundBusy(p)
    PROVE  HandlersTyped'
<1>1. CASE round[p] = 1
  BY <1>1 DEF HandlersTyped, FoundBusy, GoTo, Labels, Work
<1>2. CASE round[p] # 1
  BY <1>2, FinishTyped DEF FoundBusy
<1> QED BY <1>1, <1>2

(* A decline goes on to leave a group call or to conclude a direct one. *)
LEMMA DeclineBranches ==
    ASSUME NEW p \in Procs, DeclineUnlock(p)
    PROVE  \/ pc' = [pc EXCEPT ![p] = "leave"] /\ UNCHANGED <<todo, after>>
           \/ /\ pc' = [pc EXCEPT ![p] = "save"]
              /\ todo' = [todo EXCEPT ![p] = {<<cur[p][1], "declined">>}]
              /\ after' = [after EXCEPT ![p] = "idle"]
<1>1. CASE chat[cur[p][1]] \in Groups
  BY <1>1 DEF DeclineUnlock, GoTo
<1>2. CASE chat[cur[p][1]] \notin Groups
  <2>1. ConcludeAll(p, {<<cur[p][1], "declined">>}, "idle")
    BY <1>2 DEF DeclineUnlock
  <2>2. {<<cur[p][1], "declined">>} # {}
    OBVIOUS
  <2> QED BY <2>1, <2>2 DEF ConcludeAll, GoTo
<1> QED BY <1>1, <1>2

(* Types, and the local variables of a handler, are kept by every step. *)
LEMMA TypedStep ==
    ASSUME TypeOK, HandlerShape, [Next]_vars
    PROVE  TypeOK'
<1> USE CallsAssumption, VerdictsAreWork DEF TypeOK, RowsTyped, OutsideTyped, HandlersTyped, HandlerShape,
       Procs, Labels, Live, Final, Work, Loaded, Starters, rows, outside
<1>1. ASSUME NEW p \in Requests, NEW u \in Users, NEW ch \in Chats, Start(p, u, ch) PROVE TypeOK'
  BY <1>1 DEF Start, Begin, ConcludeAll, GoTo
<1>2. ASSUME NEW p \in Requests, NEW u \in Users, NEW c \in CallIds, Accept(p, u, c) PROVE TypeOK'
  BY <1>2 DEF Accept, Begin, Load, GoTo
<1>3. ASSUME NEW p \in Requests, NEW u \in Users, NEW c \in CallIds, Decline(p, u, c) PROVE TypeOK'
  BY <1>3 DEF Decline, Begin, Load, GoTo
<1>4. ASSUME NEW p \in Requests, NEW u \in Users, NEW c \in CallIds, End(p, u, c) PROVE TypeOK'
  BY <1>4 DEF End, Begin, ConcludeAll, GoTo, FinishStatus
<1>5. ASSUME NEW p \in Requests, NEW u \in Users, NEW c \in CallIds, EndAgain(p, u, c) PROVE TypeOK'
  BY <1>5 DEF EndAgain, handlers
<1>6. ASSUME NEW p \in Requests, NEW u \in Users, NEW c \in CallIds, Join(p, u, c) PROVE TypeOK'
  BY <1>6 DEF Join, Begin, Load, GoTo
<1>7. ASSUME NEW p \in Requests, NEW u \in Users, Hangup(p, u) PROVE TypeOK'
  BY <1>7 DEF Hangup, Begin, ConcludeAll, GoTo
<1>8. ASSUME NEW p \in Procs, ConcludeSave(p) PROVE TypeOK'
  BY <1>8, SeatsAreUsers DEF ConcludeSave, GoTo
<1>9. ASSUME NEW p \in Procs, ConcludeUnlock(p) PROVE TypeOK'
  BY <1>9 DEF ConcludeUnlock, GoTo
<1>10. ASSUME NEW p \in Procs, ConcludeLog(p) PROVE TypeOK'
  BY <1>10 DEF ConcludeLog, GoTo
<1>11. ASSUME NEW p \in Procs, ConcludeTell(p) PROVE TypeOK'
  <2>1. RowsTyped' /\ OutsideTyped'
    BY <1>11 DEF ConcludeTell
  <2>2. CASE todo[p] = {} /\ after[p] = "idle"
    BY <2>1, <2>2, <1>11, FinishTyped DEF ConcludeTell
  <2>3. CASE ~(todo[p] = {} /\ after[p] = "idle")
    BY <2>1, <2>3, <1>11 DEF ConcludeTell, GoTo
  <2> QED BY <2>2, <2>3
<1>12. ASSUME NEW p \in Procs, ReadLock(p) PROVE TypeOK'
  <2>1. RowsTyped' /\ OutsideTyped'
    BY <1>12 DEF ReadLock
  <2>2. PICK u \in scan[p] : \/ busy[u] = None /\ NextMember(p, u)
                             \/ /\ busy[u] # None
                                /\ hit' = [hit EXCEPT ![p] = <<u, busy[u]>>]
                                /\ UNCHANGED <<pc, who, room, round, scan, todo, cur, after>>
    BY <1>12 DEF ReadLock
  <2>3. u \in Users
    BY <2>2
  <2>4. CASE busy[u] = None
    BY <2>1, <2>2, <2>3, <2>4, NextMemberTyped
  <2>5. CASE busy[u] # None
    <3>1. <<u, busy[u]>> \in Users \X CallIds
      BY <2>3, <2>5
    <3>2. hit' \in [Procs -> (Users \X CallIds) \cup {None}]
      BY <2>2, <2>5, <3>1
    <3> QED BY <2>1, <2>2, <2>5, <3>2
  <2> QED BY <2>4, <2>5
<1>13. ASSUME NEW p \in Procs, JudgeLock(p) PROVE TypeOK'
  <2>1. hit[p] \in Users \X CallIds /\ pc[p] \in {"stale", "scan"}
    BY <1>13 DEF JudgeLock
  <2>2. RowsTyped' /\ OutsideTyped'
    BY <1>13, <2>1 DEF JudgeLock
  <2>3. NextMember(p, hit[p][1]) \/ FoundBusy(p)
    BY <1>13 DEF JudgeLock
  <2>4. HandlersTyped'
    BY <2>1, <2>3, NextMemberTyped, FoundBusyTyped
  <2> QED BY <2>2, <2>4
<1>14. ASSUME NEW p \in Procs, BusyQuery(p) PROVE TypeOK'
  <2>1. RowsTyped' /\ OutsideTyped'
    BY <1>14 DEF BusyQuery
  <2>2. CASE FoundBusy(p)
    BY <2>1, <2>2, FoundBusyTyped
  <2>3. CASE ~FoundBusy(p)
    BY <2>1, <2>3, <1>14 DEF BusyQuery, GoTo
  <2> QED BY <2>2, <2>3
<1>15. ASSUME NEW p \in Procs, HangLeftovers(p) PROVE TypeOK'
  BY <1>15 DEF HangLeftovers, ConcludeAll, GoTo
<1>16. ASSUME NEW p \in Procs, CreateCall(p) PROVE TypeOK'
  BY <1>16 DEF CreateCall, Unused, GoTo
<1>17. ASSUME NEW p \in Procs, MarkBusy(p) PROVE TypeOK'
  BY <1>17 DEF MarkBusy, GoTo
<1>18. ASSUME NEW p \in Procs, PostLog(p) PROVE TypeOK'
  BY <1>18 DEF PostLog, Finish
<1>19. ASSUME NEW p \in Procs, AcceptSave(p) PROVE TypeOK'
  BY <1>19 DEF AcceptSave, Finish
<1>20. ASSUME NEW p \in Procs, DeclineUnlock(p) PROVE TypeOK'
  <2>1. who[p] \in Users /\ cur[p] \in CallIds \X {"none"}
    BY <1>20 DEF DeclineUnlock
  <2>2. RowsTyped' /\ OutsideTyped'
    BY <1>20, <2>1 DEF DeclineUnlock
  <2>3. {<<cur[p][1], "declined">>} \subseteq Work
    BY <2>1
  <2>4. UNCHANGED <<who, room, round, scan, hit, cur>>
    BY <1>20 DEF DeclineUnlock
  <2>5. CASE pc' = [pc EXCEPT ![p] = "leave"] /\ UNCHANGED <<todo, after>>
    BY <2>2, <2>4, <2>5
  <2>6. CASE /\ pc' = [pc EXCEPT ![p] = "save"]
             /\ todo' = [todo EXCEPT ![p] = {<<cur[p][1], "declined">>}]
             /\ after' = [after EXCEPT ![p] = "idle"]
    BY <2>2, <2>3, <2>4, <2>6
  <2> QED BY <1>20, <2>5, <2>6, DeclineBranches
<1>21. ASSUME NEW p \in Procs, DeclineLeave(p) PROVE TypeOK'
  BY <1>21 DEF DeclineLeave, Finish
<1>22. ASSUME NEW p \in Procs, JoinSave(p) PROVE TypeOK'
  BY <1>22 DEF JoinSave, Finish
<1>23. ASSUME ExpireTick PROVE TypeOK'
  BY <1>23 DEF ExpireTick, Begin, ConcludeAll, GoTo
<1>24. ASSUME NEW c \in CallIds, RingsOut(c) PROVE TypeOK'
  BY <1>24 DEF RingsOut, handlers
<1>25. ASSUME NEW u \in Users, LockExpires(u) PROVE TypeOK'
  BY <1>25 DEF LockExpires, handlers
<1>26. ASSUME Crash PROVE TypeOK'
  BY <1>26 DEF Crash
<1>27. CASE UNCHANGED vars
  BY <1>27 DEF vars, handlers
<1> QED
  BY <1>1, <1>2, <1>3, <1>4, <1>5, <1>6, <1>7, <1>8, <1>9, <1>10, <1>11, <1>12, <1>13, <1>14,
     <1>15, <1>16, <1>17, <1>18, <1>19, <1>20, <1>21, <1>22, <1>23, <1>24, <1>25, <1>26, <1>27
  DEF Next, Request, Continue, Concluding, Starting

(* A handler keeps the local variables its next step needs. *)
LEMMA ShapeStep ==
    ASSUME TypeOK, HandlerShape, [Next]_vars
    PROVE  HandlerShape'
<1> USE CallsAssumption DEF TypeOK, RowsTyped, OutsideTyped, HandlersTyped, HandlerShape,
       Procs, Labels, Work, Loaded, Starters, rows, outside
<1>1. ASSUME NEW p \in Requests, NEW u \in Users, NEW ch \in Chats, Start(p, u, ch) PROVE HandlerShape'
  BY <1>1 DEF Start, Begin, ConcludeAll, GoTo
<1>2. ASSUME NEW p \in Requests, NEW u \in Users, NEW c \in CallIds, Accept(p, u, c) PROVE HandlerShape'
  BY <1>2 DEF Accept, Begin, Load, GoTo
<1>3. ASSUME NEW p \in Requests, NEW u \in Users, NEW c \in CallIds, Decline(p, u, c) PROVE HandlerShape'
  BY <1>3 DEF Decline, Begin, Load, GoTo
<1>4. ASSUME NEW p \in Requests, NEW u \in Users, NEW c \in CallIds, End(p, u, c) PROVE HandlerShape'
  BY <1>4 DEF End, Begin, ConcludeAll, GoTo, FinishStatus
<1>5. ASSUME NEW p \in Requests, NEW u \in Users, NEW c \in CallIds, EndAgain(p, u, c) PROVE HandlerShape'
  BY <1>5 DEF EndAgain, handlers
<1>6. ASSUME NEW p \in Requests, NEW u \in Users, NEW c \in CallIds, Join(p, u, c) PROVE HandlerShape'
  BY <1>6 DEF Join, Begin, Load, GoTo
<1>7. ASSUME NEW p \in Requests, NEW u \in Users, Hangup(p, u) PROVE HandlerShape'
  BY <1>7 DEF Hangup, Begin, ConcludeAll, GoTo
<1>8. ASSUME NEW p \in Procs, ConcludeSave(p) PROVE HandlerShape'
  BY <1>8 DEF ConcludeSave, GoTo
<1>9. ASSUME NEW p \in Procs, ConcludeUnlock(p) PROVE HandlerShape'
  BY <1>9 DEF ConcludeUnlock, GoTo
<1>10. ASSUME NEW p \in Procs, ConcludeLog(p) PROVE HandlerShape'
  BY <1>10 DEF ConcludeLog, GoTo
<1>11. ASSUME NEW p \in Procs, ConcludeTell(p) PROVE HandlerShape'
  <2>1. pc[p] = "tell"
    BY <1>11 DEF ConcludeTell
  <2>2. CASE Finish(p)
    BY <2>1, <2>2 DEF Finish
  <2>3. CASE ~Finish(p)
    <3>1. /\ pc' = [pc EXCEPT ![p] = IF todo[p] = {} THEN after[p] ELSE "save"]
          /\ todo[p] = {} => after[p] = "stale"
      BY <1>11, <2>3 DEF ConcludeTell, GoTo
    <3>2. UNCHANGED <<who, room, round, scan, hit, todo, cur, after>>
      BY <1>11, <2>3 DEF ConcludeTell
    <3>3. pc'[p] \in {"save", "stale"} /\ (pc'[p] = "stale" => after[p] = "stale")
      BY <3>1
    <3>4. \A q \in Procs : q # p => pc'[q] = pc[q]
      BY <3>1
    <3> QED BY <2>1, <3>2, <3>3, <3>4
  <2> QED BY <2>2, <2>3
<1>12. ASSUME NEW p \in Procs, ReadLock(p) PROVE HandlerShape'
  BY <1>12 DEF ReadLock, NextMember, FoundFree, GoTo
<1>13. ASSUME NEW p \in Procs, JudgeLock(p) PROVE HandlerShape'
  <2>1. pc[p] \in {"stale", "scan"} /\ (NextMember(p, hit[p][1]) \/ FoundBusy(p))
    BY <1>13 DEF JudgeLock
  <2>2. CASE NextMember(p, hit[p][1])
    BY <2>1, <2>2 DEF NextMember, FoundFree, GoTo
  <2>3. CASE FoundBusy(p)
    BY <2>1, <2>3 DEF FoundBusy, Finish, GoTo
  <2> QED BY <2>1, <2>2, <2>3
<1>14. ASSUME NEW p \in Procs, BusyQuery(p) PROVE HandlerShape'
  BY <1>14 DEF BusyQuery, FoundBusy, Finish, GoTo
<1>15. ASSUME NEW p \in Procs, HangLeftovers(p) PROVE HandlerShape'
  BY <1>15 DEF HangLeftovers, ConcludeAll, GoTo
<1>16. ASSUME NEW p \in Procs, CreateCall(p) PROVE HandlerShape'
  BY <1>16 DEF CreateCall, Unused, GoTo
<1>17. ASSUME NEW p \in Procs, MarkBusy(p) PROVE HandlerShape'
  BY <1>17 DEF MarkBusy, GoTo
<1>18. ASSUME NEW p \in Procs, PostLog(p) PROVE HandlerShape'
  BY <1>18 DEF PostLog, Finish
<1>19. ASSUME NEW p \in Procs, AcceptSave(p) PROVE HandlerShape'
  BY <1>19 DEF AcceptSave, Finish
<1>20. ASSUME NEW p \in Procs, DeclineUnlock(p) PROVE HandlerShape'
  BY <1>20 DEF DeclineUnlock, ConcludeAll, GoTo
<1>21. ASSUME NEW p \in Procs, DeclineLeave(p) PROVE HandlerShape'
  BY <1>21 DEF DeclineLeave, Finish
<1>22. ASSUME NEW p \in Procs, JoinSave(p) PROVE HandlerShape'
  BY <1>22 DEF JoinSave, Finish
<1>23. ASSUME ExpireTick PROVE HandlerShape'
  BY <1>23 DEF ExpireTick, Begin, ConcludeAll, GoTo
<1>24. ASSUME NEW c \in CallIds, RingsOut(c) PROVE HandlerShape'
  BY <1>24 DEF RingsOut, handlers
<1>25. ASSUME NEW u \in Users, LockExpires(u) PROVE HandlerShape'
  BY <1>25 DEF LockExpires, handlers
<1>26. ASSUME Crash PROVE HandlerShape'
  BY <1>26 DEF Crash
<1>27. CASE UNCHANGED vars
  BY <1>27 DEF vars, handlers
<1> QED
  BY <1>1, <1>2, <1>3, <1>4, <1>5, <1>6, <1>7, <1>8, <1>9, <1>10, <1>11, <1>12, <1>13, <1>14,
     <1>15, <1>16, <1>17, <1>18, <1>19, <1>20, <1>21, <1>22, <1>23, <1>24, <1>25, <1>26, <1>27
  DEF Next, Request, Continue, Concluding, Starting

-----------------------------------------------------------------------------
(* What a step may write: lemmas that leave a later proof only the actions   *)
(* that touch what its invariant is about.                                   *)

RowsWritten ==
    \/ UNCHANGED rows
    \/ \E p \in Procs :
          CreateCall(p) \/ ConcludeSave(p) \/ AcceptSave(p) \/ DeclineLeave(p) \/ JoinSave(p)

(* Five steps write a call row. *)
LEMMA RowsAreWritten ==
    ASSUME [Next]_vars
    PROVE  RowsWritten
<1> USE DEF RowsWritten
<1>1. ASSUME NEW p \in Requests, Request(p) PROVE RowsWritten
  BY <1>1 DEF Request, Start, Accept, Decline, End, EndAgain, Join, Load, Hangup
<1>2. ASSUME NEW p \in Procs, Continue(p) PROVE RowsWritten
  BY <1>2 DEF Continue, Concluding, Starting, ConcludeUnlock, ConcludeLog, ConcludeTell, ReadLock,
     JudgeLock, BusyQuery, HangLeftovers, MarkBusy, PostLog, DeclineUnlock
<1>3. ASSUME NEW c \in CallIds, RingsOut(c) PROVE RowsWritten
  BY <1>3 DEF RingsOut
<1>4. ASSUME NEW u \in Users, LockExpires(u) PROVE RowsWritten
  BY <1>4 DEF LockExpires
<1>5. CASE ExpireTick \/ Crash \/ UNCHANGED vars
  BY <1>5 DEF ExpireTick, Crash, vars
<1> HIDE DEF RowsWritten
<1> QED BY <1>1, <1>2, <1>3, <1>4, <1>5 DEF Next

Settling == {"save", "unlock", "log", "tell"}
Verdicts == {Overdue} \cup {LeftoversOf(u) : u \in Users}

(* No handler's verdicts grow and no call's status changes. *)
Tame ==
    /\ status' = status
    /\ \A p \in Procs : /\ todo'[p] \in {todo[p], {}}
                        /\ pc[p] \in Settling => pc'[p] \in Settling \/ todo'[p] = {}

Judged ==
    \/ Tame
    \/ \E p \in Procs, W \in Verdicts, l \in {"idle", "stale"} : ConcludeAll(p, W, l) /\ UNCHANGED rows
    \/ \E p \in Procs, u \in Users, c \in CallIds : End(p, u, c)
    \/ \E p \in Procs : CreateCall(p) \/ DeclineUnlock(p) \/ AcceptSave(p) \/ ConcludeSave(p)

(* Verdicts come from expireRings, hangupAllForUser, end and decline. *)
LEMMA VerdictsAreJudged ==
    ASSUME TypeOK, HandlerShape, [Next]_vars
    PROVE  Judged
<1> USE DEF Judged, Tame, Settling, Verdicts, TypeOK, HandlersTyped, Procs, rows, outside, handlers,
       GoTo, Finish
<1>1. ASSUME NEW p \in Requests, NEW u \in Users, NEW ch \in Chats, Start(p, u, ch) PROVE Judged
  BY <1>1 DEF Start
<1>2. ASSUME NEW p \in Requests, NEW u \in Users, NEW c \in CallIds,
             Accept(p, u, c) \/ Decline(p, u, c) \/ End(p, u, c) \/ EndAgain(p, u, c) \/ Join(p, u, c)
      PROVE  Judged
  BY <1>2 DEF Accept, Decline, EndAgain, Join, Load, Begin
<1>3. ASSUME NEW p \in Requests, NEW u \in Users, Hangup(p, u) PROVE Judged
  BY <1>3 DEF Hangup
<1>4. ASSUME NEW p \in Procs, Concluding(p) PROVE Judged
  BY <1>4 DEF Concluding, ConcludeUnlock, ConcludeLog, ConcludeTell
<1>5. ASSUME NEW p \in Procs, HangLeftovers(p) PROVE Judged
  <2>1. who[p] \in Users
    BY <1>5, CallsAssumption DEF HangLeftovers, HandlerShape, Starters
  <2> QED BY <1>5, <2>1 DEF HangLeftovers
<1>6. ASSUME NEW p \in Procs,
             ReadLock(p) \/ JudgeLock(p) \/ BusyQuery(p) \/ CreateCall(p) \/ MarkBusy(p) \/ PostLog(p)
      PROVE  Judged
  BY <1>6 DEF ReadLock, NextMember, FoundFree, FoundBusy, JudgeLock, BusyQuery, MarkBusy, PostLog
<1>7. ASSUME NEW p \in Procs, AcceptSave(p) \/ DeclineUnlock(p) \/ DeclineLeave(p) \/ JoinSave(p)
      PROVE  Judged
  BY <1>7 DEF DeclineLeave, JoinSave
<1>8. ASSUME NEW c \in CallIds, RingsOut(c) PROVE Judged
  BY <1>8 DEF RingsOut
<1>9. ASSUME NEW u \in Users, LockExpires(u) PROVE Judged
  BY <1>9 DEF LockExpires
<1>10. CASE ExpireTick
  BY <1>10 DEF ExpireTick
<1>11. CASE Crash \/ UNCHANGED vars
  BY <1>11 DEF vars, Crash
<1> HIDE DEF Judged
<1> QED BY <1>1, <1>2, <1>3, <1>4, <1>5, <1>6, <1>7, <1>8, <1>9, <1>10, <1>11
        DEF Next, Request, Continue, Starting

(* Who is at a label of L after the step was there before, with its copy. *)
Stays(L) ==
    \A p \in Procs : pc'[p] \in L =>
        pc'[p] = pc[p] /\ who'[p] = who[p] /\ cur'[p] = cur[p] /\ room'[p] = room[p]

Copied ==
    \/ Stays(Loaded \cup {"mark"})
    \/ \E p \in Requests, u \in Users, c \in CallIds : Accept(p, u, c) \/ Decline(p, u, c) \/ Join(p, u, c)
    \/ \E p \in Procs : CreateCall(p) \/ DeclineUnlock(p)

(* accept, decline and call:join load the row; start makes it. *)
LEMMA CopiesAreLoaded ==
    ASSUME TypeOK, HandlerShape, [Next]_vars
    PROVE  Copied
<1> USE DEF Copied, Stays, Loaded, TypeOK, HandlersTyped, Labels, Procs, handlers, GoTo, Finish
<1>1. ASSUME NEW p \in Requests, Request(p) PROVE Copied
  BY <1>1 DEF Request, Start, End, EndAgain, Hangup, ConcludeAll
<1>2. ASSUME NEW p \in Procs, Concluding(p) PROVE Copied
  BY <1>2 DEF Concluding, ConcludeSave, ConcludeUnlock, ConcludeLog, ConcludeTell
<1>3. ASSUME NEW p \in Procs, Starting(p) PROVE Copied
  BY <1>3 DEF Starting, ReadLock, NextMember, FoundFree, FoundBusy, JudgeLock, BusyQuery, HangLeftovers,
     ConcludeAll, MarkBusy, PostLog
<1>4. ASSUME NEW p \in Procs, AcceptSave(p) \/ DeclineUnlock(p) \/ DeclineLeave(p) \/ JoinSave(p)
      PROVE  Copied
  BY <1>4 DEF AcceptSave, DeclineLeave, JoinSave
<1>5. ASSUME NEW c \in CallIds, RingsOut(c) PROVE Copied
  BY <1>5 DEF RingsOut
<1>6. ASSUME NEW u \in Users, LockExpires(u) PROVE Copied
  BY <1>6 DEF LockExpires
<1>7. CASE ExpireTick
  BY <1>7 DEF ExpireTick, ConcludeAll
<1>8. CASE Crash \/ UNCHANGED vars
  BY <1>8 DEF Crash, vars
<1> HIDE DEF Copied
<1> QED BY <1>1, <1>2, <1>3, <1>4, <1>5, <1>6, <1>7, <1>8 DEF Next, Continue

Locked ==
    \/ /\ \A u \in Users : busy'[u] \in {busy[u], None}
       /\ \A p \in Procs : hit'[p] \in {hit[p], None}
    \/ \E p \in Procs : ReadLock(p) \/ MarkBusy(p)

(* Only setCallBusy takes a lock, and only the lock loops look at one. *)
LEMMA LocksAreTaken ==
    ASSUME TypeOK, [Next]_vars
    PROVE  Locked
<1> USE DEF Locked, TypeOK, HandlersTyped, OutsideTyped, Procs, outside, handlers, GoTo, Finish
<1>1. ASSUME NEW p \in Requests, Request(p) PROVE Locked
  BY <1>1 DEF Request, Start, Accept, Decline, End, EndAgain, Join, Load, Hangup
<1>2. ASSUME NEW p \in Procs, Concluding(p) PROVE Locked
  BY <1>2 DEF Concluding, ConcludeSave, ConcludeUnlock, ConcludeLog, ConcludeTell
<1>3. ASSUME NEW p \in Procs, Starting(p) PROVE Locked
  BY <1>3 DEF Starting, NextMember, FoundFree, FoundBusy, JudgeLock, BusyQuery, HangLeftovers,
     CreateCall, PostLog
<1>4. ASSUME NEW p \in Procs, AcceptSave(p) \/ DeclineUnlock(p) \/ DeclineLeave(p) \/ JoinSave(p)
      PROVE  Locked
  BY <1>4 DEF AcceptSave, DeclineUnlock, DeclineLeave, JoinSave
<1>5. ASSUME NEW c \in CallIds, RingsOut(c) PROVE Locked
  BY <1>5 DEF RingsOut
<1>6. ASSUME NEW u \in Users, LockExpires(u) PROVE Locked
  BY <1>6 DEF LockExpires
<1>7. CASE ExpireTick \/ Crash \/ UNCHANGED vars
  BY <1>7 DEF ExpireTick, Crash, vars
<1> HIDE DEF Locked
<1> QED BY <1>1, <1>2, <1>3, <1>4, <1>5, <1>6, <1>7 DEF Next, Continue

(* A step that leaves the calls' status and messages alone, and the handlers *)
(* that are between a call's row and its message.                            *)
Offstage ==
    /\ UNCHANGED <<status, log, crashes>>
    /\ \A p \in Procs : \/ pc'[p] = pc[p] /\ cur'[p] = cur[p]
                        \/ {pc[p], pc'[p]} \cap {"mark", "post", "unlock", "log"} = {}

LogWritten ==
    \/ Offstage
    \/ Crash
    \/ \E p \in Procs :
          \/ CreateCall(p) \/ MarkBusy(p) \/ PostLog(p) \/ AcceptSave(p)
          \/ ConcludeSave(p) \/ ConcludeUnlock(p) \/ ConcludeLog(p)

(* The steps between a call's row and its message. *)
LEMMA LogIsWritten ==
    ASSUME HandlersTyped, [Next]_vars
    PROVE  LogWritten
<1> USE DEF LogWritten, Offstage, HandlersTyped, Procs, rows, outside, handlers, GoTo, Finish
<1>1. ASSUME NEW p \in Requests, Request(p) PROVE LogWritten
  BY <1>1 DEF Request, Start, Accept, Decline, End, EndAgain, Join, Load, Hangup, Begin, ConcludeAll
<1>2. ASSUME NEW p \in Procs, Concluding(p) PROVE LogWritten
  BY <1>2 DEF Concluding, ConcludeTell
<1>3. ASSUME NEW p \in Procs, Starting(p) PROVE LogWritten
  BY <1>3 DEF Starting, ReadLock, NextMember, FoundFree, FoundBusy, JudgeLock, BusyQuery, HangLeftovers,
     ConcludeAll
<1>4. ASSUME NEW p \in Procs, AcceptSave(p) \/ DeclineUnlock(p) \/ DeclineLeave(p) \/ JoinSave(p)
      PROVE  LogWritten
  BY <1>4 DEF DeclineUnlock, DeclineLeave, JoinSave, ConcludeAll
<1>5. ASSUME NEW c \in CallIds, RingsOut(c) PROVE LogWritten
  BY <1>5 DEF RingsOut
<1>6. ASSUME NEW u \in Users, LockExpires(u) PROVE LogWritten
  BY <1>6 DEF LockExpires
<1>7. CASE ExpireTick
  BY <1>7 DEF ExpireTick, Begin, ConcludeAll
<1>8. CASE UNCHANGED vars
  BY <1>8 DEF vars
<1> HIDE DEF LogWritten
<1> QED BY <1>1, <1>2, <1>3, <1>4, <1>5, <1>6, <1>7, <1>8 DEF Next, Continue, LogWritten

(* No step takes back that a call was created, its seats or that it was answered. *)
Grown ==
    /\ answered \subseteq answered'
    /\ \A c \in CallIds :
          /\ joined[c] \subseteq joined'[c] \/ status[c] = "none"
          /\ status[c] # "none" =>
                status'[c] # "none" /\ chat'[c] = chat[c] /\ by'[c] = by[c] /\ Seats(c)' = Seats(c)

-----------------------------------------------------------------------------
(* The parts of the inductive invariant *)

(* What the rows say of a call that exists only grows. *)
LEMMA RowsGrow ==
    ASSUME TypeOK, HandlerShape, [Next]_vars
    PROVE  Grown
<1> USE CallsAssumption DEF TypeOK, RowsTyped, HandlersTyped, HandlerShape, Loaded, Starters,
       Grown, Work, Live, Final, rows, Seats, Procs
<1>1. CASE UNCHANGED rows
  BY <1>1
<1>2. ASSUME NEW p \in Procs, CreateCall(p) PROVE Grown
  BY <1>2 DEF CreateCall, Unused
<1>3. ASSUME NEW p \in Procs, ConcludeSave(p) PROVE Grown
  BY <1>3 DEF ConcludeSave
<1>4. ASSUME NEW p \in Procs, AcceptSave(p) PROVE Grown
  BY <1>4 DEF AcceptSave
<1>5. ASSUME NEW p \in Procs, DeclineLeave(p) \/ JoinSave(p) PROVE Grown
  BY <1>5 DEF DeclineLeave, JoinSave
<1> QED BY <1>1, <1>2, <1>3, <1>4, <1>5, RowsAreWritten DEF RowsWritten

RecordsSound == RowsSound /\ ConcludedIsComplete /\ RingingIsFresh

(* Every save leaves a row that makes sense. *)
LEMMA RecordsStep ==
    ASSUME IInv, [Next]_vars
    PROVE  RecordsSound'
<1> USE CallsAssumption DEF IInv, TypeOK, RowsTyped, OutsideTyped, HandlersTyped, HandlerShape,
       Procs, Work, Loaded, Starters, rows, outside, RecordsSound, RowsSound, VerdictsSound,
       ConcludedIsComplete, RingingIsFresh, Live, Final, Seats
<1>1. CASE UNCHANGED rows
  BY <1>1
<1>2. ASSUME NEW p \in Procs, CreateCall(p) PROVE RecordsSound'
  BY <1>2 DEF CreateCall, Unused
<1>3. ASSUME NEW p \in Procs, ConcludeSave(p) PROVE RecordsSound'
  <2>1. PICK k \in todo[p] :
            /\ status' = [status EXCEPT ![k[1]] = k[2]]
            /\ left' = [left EXCEPT ![k[1]] = Seats(k[1])]
            /\ ended' = ended \cup {k[1]}
    BY <1>3 DEF ConcludeSave
  <2>2. /\ k[1] \in CallIds /\ k[2] \in Final
        /\ status[k[1]] # "none"
        /\ k[2] = "ended" => k[1] \in answered
    BY <2>1
  <2>3. UNCHANGED <<chat, by, joined, answered>>
    BY <1>3 DEF ConcludeSave
  <2>4. RowsSound'
    BY <2>1, <2>2, <2>3
  <2>5. ASSUME NEW d \in CallIds
        PROVE  (status'[d] \in Final => d \in ended') /\ (d \in ended' => left'[d] = Seats(d)')
    <3>1. Seats(d)' = Seats(d)
      BY <2>3
    <3> HIDE DEF Seats
    <3>2. CASE d = k[1]
      BY <2>1, <2>2, <3>1, <3>2
    <3>3. CASE d # k[1]
      <4>1. status'[d] = status[d] /\ left'[d] = left[d]
        BY <2>1, <2>2, <3>3
      <4>2. d \in ended' <=> d \in ended
        BY <2>1, <3>3
      <4> QED BY <3>1, <4>1, <4>2
    <3> QED BY <3>2, <3>3
  <2>6. RingingIsFresh'
    BY <2>1, <2>2, <2>3
  <2> QED BY <2>4, <2>5, <2>6
<1>4. ASSUME NEW p \in Procs, AcceptSave(p) PROVE RecordsSound'
  <2> DEFINE c == cur[p][1]
  <2>1. /\ c \in CallIds /\ status[c] # "none"
        /\ who[p] \in Users /\ who[p] # by[c]
    BY <1>4 DEF AcceptSave
  <2>2. /\ status' = [status EXCEPT ![c] = "active"]
        /\ answered' = answered \cup {c}
        /\ joined' = [joined EXCEPT ![c] = joined[c] \cup {who[p]}]
        /\ UNCHANGED <<chat, by, left, ended>>
    BY <1>4 DEF AcceptSave
  <2> HIDE DEF c
  <2>3. status \in [CallIds -> Live \cup Final \cup {"none"}] /\ joined \in [CallIds -> SUBSET Users]
    OBVIOUS
  <2>4. /\ joined'[c] \ {by'[c]} # {}
        /\ status'[c] = "active" /\ c \in answered'
    <3>1. joined'[c] = joined[c] \cup {who[p]} /\ status'[c] = "active"
      BY ONLY <2>1, <2>2, <2>3
    <3> QED BY ONLY <2>1, <2>2, <3>1
  <2>5. ASSUME NEW d \in CallIds, d # c
        PROVE  /\ status'[d] = status[d] /\ joined'[d] = joined[d]
               /\ (d \in answered' <=> d \in answered)
    BY ONLY <2>1, <2>2, <2>3, <2>5
  <2>6. RowsSound'
    BY <2>1, <2>2, <2>4, <2>5
  <2>7. ConcludedIsComplete' /\ RingingIsFresh'
    BY <2>1, <2>2
  <2> QED BY <2>6, <2>7
<1>5. ASSUME NEW p \in Procs, DeclineLeave(p) PROVE RecordsSound'
  <2> DEFINE c == cur[p][1]
  <2>1. /\ c \in CallIds /\ status[c] # "none"
        /\ who[p] \in Seats(c) /\ who[p] # by[c]
    BY <1>5 DEF DeclineLeave
  <2>2. /\ left' = [left EXCEPT ![c] = left[c] \cup {who[p]}]
        /\ UNCHANGED <<status, chat, by, joined, answered, ended>>
    BY <1>5 DEF DeclineLeave
  <2> HIDE DEF c
  <2>3. RowsSound' /\ RingingIsFresh'
    BY <2>1, <2>2
  <2>4. ASSUME NEW d \in CallIds
        PROVE  (status'[d] \in Final => d \in ended') /\ (d \in ended' => left'[d] = Seats(d)')
    <3>1. Seats(d)' = Seats(d) /\ status'[d] = status[d] /\ (d \in ended' <=> d \in ended)
      BY <2>2
    <3>2. d \in ended => left'[d] = left[d]
      <4>1. CASE d = c
        <5>1. d \in ended => left[c] = Seats(c)
          BY <4>1
        <5>2. left'[c] = left[c] \cup {who[p]}
          BY <2>1, <2>2
        <5> HIDE DEF Seats
        <5> QED BY <2>1, <4>1, <5>1, <5>2
      <4>2. CASE d # c
        BY <2>1, <2>2, <4>2
      <4> QED BY <4>1, <4>2
    <3>3. (status[d] \in Final => d \in ended) /\ (d \in ended => left[d] = Seats(d))
      OBVIOUS
    <3> HIDE DEF Seats
    <3> QED BY <3>1, <3>2, <3>3
  <2> QED BY <2>3, <2>4
<1>6. ASSUME NEW p \in Procs, JoinSave(p) PROVE RecordsSound'
  BY <1>6 DEF JoinSave
<1> HIDE DEF RecordsSound
<1> QED BY <1>1, <1>2, <1>3, <1>4, <1>5, <1>6, RowsAreWritten DEF RowsWritten

(* Pending verdicts and saves stay about calls that can bear them. *)
LEMMA VerdictsStep ==
    ASSUME IInv, Grown, [Next]_vars
    PROVE  VerdictsSound'
<1> USE CallsAssumption DEF IInv, TypeOK, RowsTyped, OutsideTyped, HandlersTyped, HandlerShape,
       Procs, Work, Loaded, Starters, RowsSound, VerdictsSound, Live, Final
<1> DEFINE Bearable(k) == status[k[1]] # "none" /\ (k[2] = "ended" => k[1] \in answered)
<1>1. \A k \in Work : Bearable(k) => Bearable(k)'
  BY DEF Grown
<1>2. \A p \in Procs : \A k \in todo'[p] : Bearable(k)'
  <2> DEFINE Sound(q) == \A k \in todo'[q] : k \in Work /\ Bearable(k)
  <2>0. \A q \in Procs : \A k \in todo[q] : k \in Work /\ Bearable(k)
    OBVIOUS
  <2>1. ASSUME NEW p \in Procs, NEW W \in Verdicts, NEW l \in {"idle", "stale"}, ConcludeAll(p, W, l)
        PROVE  \A q \in Procs : Sound(q)
    <3>1. \A k \in W : k \in Work /\ Bearable(k)
      BY DEF Verdicts, Overdue, LeftoversOf, FinishStatus
    <3> HIDE DEF Bearable, VerdictsSound
    <3> QED BY <2>0, <2>1, <3>1 DEF ConcludeAll
  <2>2. ASSUME NEW p \in Procs, NEW u \in Users, NEW c \in CallIds, End(p, u, c)
        PROVE  \A q \in Procs : Sound(q)
    <3> DEFINE k == <<c, FinishStatus(c, u)>>
    <3>1. k \in Work /\ Bearable(k)
      BY <2>2 DEF End, FinishStatus
    <3>2. todo' = [todo EXCEPT ![p] = {k}]
      BY <2>2 DEF End, ConcludeAll
    <3> HIDE DEF k, Bearable, VerdictsSound
    <3> QED BY <2>0, <3>1, <3>2
  <2>3. ASSUME NEW p \in Procs, DeclineUnlock(p) PROVE \A q \in Procs : Sound(q)
    <3> DEFINE k == <<cur[p][1], "declined">>
    <3>1. k \in Work /\ Bearable(k)
      BY <2>3 DEF DeclineUnlock
    <3>2. todo' = todo \/ todo' = [todo EXCEPT ![p] = {k}]
      BY <2>3 DEF DeclineUnlock, ConcludeAll
    <3> HIDE DEF k, Bearable, VerdictsSound
    <3> QED BY <2>0, <3>1, <3>2
  <2>4. ASSUME NEW p \in Procs, CreateCall(p) \/ AcceptSave(p) \/ ConcludeSave(p)
        PROVE  \A q \in Procs : Sound(q)
    <3>1. \A q \in Procs : todo'[q] \subseteq todo[q]
      <4>1. CASE CreateCall(p)
        BY <4>1 DEF CreateCall
      <4>2. CASE AcceptSave(p)
        BY <4>2 DEF AcceptSave, Finish
      <4>3. CASE ConcludeSave(p)
        BY <4>3 DEF ConcludeSave
      <4> QED BY <2>4, <4>1, <4>2, <4>3
    <3> HIDE DEF Bearable, VerdictsSound
    <3> QED BY <2>0, <3>1
  <2>5. CASE Tame
    <3>1. \A q \in Procs : todo'[q] \subseteq todo[q]
      BY <2>5 DEF Tame
    <3> HIDE DEF Bearable, VerdictsSound
    <3> QED BY <1>1, <2>0, <3>1
  <2> HIDE DEF Bearable, VerdictsSound
  <2> QED BY <1>1, <2>1, <2>2, <2>3, <2>4, <2>5, VerdictsAreJudged DEF Judged
<1> DEFINE Holds(p) ==
        /\ pc[p] \in Loaded => status[cur[p][1]] # "none" /\ who[p] \in Seats(cur[p][1])
        /\ pc[p] \in {"accept", "decline", "leave"} => who[p] # by[cur[p][1]]
        /\ pc[p] = "mark" => status[cur[p][1]] # "none" /\ chat[cur[p][1]] = room[p]
<1>3. ASSUME NEW p \in Procs, pc'[p] = pc[p], who'[p] = who[p], cur'[p] = cur[p], room'[p] = room[p]
      PROVE  Holds(p)'
  BY <1>3 DEF Grown
<1>4. \A p \in Procs : Holds(p)'
  <2>1. CASE Stays(Loaded \cup {"mark"})
    <3>1. \A p \in Procs : pc'[p] \notin Loaded \cup {"mark"} => Holds(p)'
      OBVIOUS
    <3> HIDE DEF Holds
    <3> QED BY <1>3, <2>1, <3>1 DEF Stays
  <2>2. ASSUME NEW p \in Requests, NEW u \in Users, NEW c \in CallIds,
               Accept(p, u, c) \/ Decline(p, u, c) \/ Join(p, u, c)
        PROVE  \A q \in Procs : Holds(q)'
    <3>1. ASSUME NEW q \in Procs, q # p PROVE Holds(q)'
      <4>1. pc'[q] = pc[q] /\ who'[q] = who[q] /\ cur'[q] = cur[q] /\ room'[q] = room[q]
        BY <2>2, <3>1 DEF Accept, Decline, Join, Load, GoTo
      <4> QED BY <1>3, <4>1
    <3>2. Holds(p)'
      <4>1. /\ pc'[p] \in Loaded /\ who'[p] = u /\ cur'[p] = <<c, "none">>
            /\ pc'[p] \in {"accept", "decline", "leave"} => u # by[c]
        BY <2>2 DEF Accept, Decline, Join, Load, GoTo
      <4>2. status[c] # "none" /\ u \in Seats(c) /\ UNCHANGED rows
        BY <2>2 DEF Accept, Decline, Join, Load, Seats
      <4> QED BY <4>1, <4>2 DEF rows, Seats
    <3> QED BY <3>1, <3>2
  <2>3. ASSUME NEW p \in Procs, CreateCall(p) PROVE \A q \in Procs : Holds(q)'
    <3>1. ASSUME NEW q \in Procs, q # p PROVE Holds(q)'
      <4>1. pc'[q] = pc[q] /\ who'[q] = who[q] /\ cur'[q] = cur[q] /\ room'[q] = room[q]
        BY <2>3, <3>1 DEF CreateCall, GoTo
      <4> QED BY <1>3, <4>1
    <3>2. Holds(p)'
      BY <2>3 DEF CreateCall, GoTo, Unused
    <3> QED BY <3>1, <3>2
  <2>4. ASSUME NEW p \in Procs, DeclineUnlock(p) PROVE \A q \in Procs : Holds(q)'
    BY <2>4 DEF DeclineUnlock, ConcludeAll, GoTo, rows, Seats
  <2> HIDE DEF Holds
  <2> QED BY <2>1, <2>2, <2>3, <2>4, CopiesAreLoaded DEF Copied
<1> QED BY <1>2, <1>4

(* A lock only ever names a call its holder has a seat in. *)
LEMMA LocksStep ==
    ASSUME IInv, Grown, [Next]_vars
    PROVE  LocksSound'
<1> USE CallsAssumption DEF IInv, TypeOK, RowsTyped, OutsideTyped, HandlersTyped, HandlerShape,
       Procs, Work, Loaded, Starters, VerdictsSound, LocksSound, Grown, Live, Final
<1>1. CASE /\ \A u \in Users : busy'[u] \in {busy[u], None}
           /\ \A p \in Procs : hit'[p] \in {hit[p], None}
  BY <1>1
<1>2. ASSUME NEW p \in Procs, ReadLock(p) PROVE LocksSound'
  BY <1>2 DEF ReadLock, NextMember, outside
<1>3. ASSUME NEW p \in Procs, MarkBusy(p) PROVE LocksSound'
  BY <1>3 DEF MarkBusy, rows, Seats
<1> QED BY <1>1, <1>2, <1>3, LocksAreTaken DEF Locked

(* The inductive invariant holds before the first request. *)
LEMMA InitSound == Init => IInv
<1> SUFFICES ASSUME Init PROVE IInv
  OBVIOUS
<1>1. TypeOK /\ HandlerShape
  BY InitTyped
<1>2. RowsSound /\ VerdictsSound /\ LocksSound
  BY DEF Init, NoHandlers, RowsSound, VerdictsSound, LocksSound, Loaded
<1>3. ConcludedIsComplete /\ RingingIsFresh
  BY DEF Init, ConcludedIsComplete, RingingIsFresh, Final
<1> QED BY <1>1, <1>2, <1>3 DEF IInv

(* Every step of every handler keeps the inductive invariant. *)
LEMMA StepSound ==
    ASSUME IInv, [Next]_vars
    PROVE  IInv'
<1>1. TypeOK /\ HandlerShape
  BY DEF IInv
<1>2. TypeOK' /\ HandlerShape' /\ Grown
  BY <1>1, TypedStep, ShapeStep, RowsGrow
<1>3. RowsSound' /\ ConcludedIsComplete' /\ RingingIsFresh'
  BY RecordsStep DEF RecordsSound
<1>4. VerdictsSound' /\ LocksSound'
  BY <1>2, VerdictsStep, LocksStep
<1> QED BY <1>2, <1>3, <1>4 DEF IInv

(* The inductive invariant holds in every reachable state, for any number of *)
(* users, chats, calls, handlers and restarts and with any overlap.          *)
THEOREM Inductive == Spec => []IInv
<1>1. Init => IInv
  BY InitSound
<1>2. IInv /\ [Next]_vars => IInv'
  BY StepSound
<1> QED BY <1>1, <1>2, PTL DEF Spec

(* Every variable of CallsService keeps its type. *)
THEOREM TypeCorrect == Spec => []TypeOK
<1>1. IInv => TypeOK
  BY DEF IInv
<1> QED BY <1>1, Inductive, PTL

(* conclude never leaves a half-closed row, whichever handlers overlap it. *)
THEOREM Complete == Spec => []ConcludedIsComplete
<1>1. IInv => ConcludedIsComplete
  BY DEF IInv
<1> QED BY <1>1, Inductive, PTL

(* A call is active or ended only after somebody else picked it up. *)
THEOREM Backed == Spec => []AnsweredIsBacked
<1>1. IInv => AnsweredIsBacked
  BY DEF IInv, RowsSound, AnsweredIsBacked
<1> QED BY <1>1, Inductive, PTL

(* A ringing call was neither answered nor concluded, and its caller is there. *)
THEOREM Fresh == Spec => []RingingIsFresh
<1>1. IInv => RingingIsFresh
  BY DEF IInv
<1> QED BY <1>1, Inductive, PTL

(* However handlers overlap, no save loses what an earlier one wrote of a    *)
(* call: who placed it where, who joined it and that it was answered.  Each  *)
(* save sends only the paths its handler assigned (accept, conclude, join).  *)
THEOREM RecordsGrow == Spec => [][Grown]_vars
<1>1. IInv /\ [Next]_vars => [Grown]_vars
  BY RowsGrow DEF IInv
<1> QED BY <1>1, Inductive, PTL DEF Spec

(* Once answered or over, a call never rings again: expireRings, which looks *)
(* for ringing rows, cannot miss one call twice, nor one that was answered,  *)
(* but for the rows it had found before.                                     *)
LEMMA NoRingAgain ==
    ASSUME IInv, [Next]_vars
    PROVE  \A c \in CallIds : status[c] \in Final \cup {"active"} => status'[c] # "ringing"
<1> USE DEF IInv, TypeOK, RowsTyped, HandlersTyped, Work, Final
<1>1. CASE UNCHANGED rows
  BY <1>1 DEF rows
<1>2. ASSUME NEW p \in Procs, CreateCall(p)
      PROVE  \A c \in CallIds : status[c] \in Final \cup {"active"} => status'[c] # "ringing"
  BY <1>2 DEF CreateCall, Unused
<1>3. ASSUME NEW p \in Procs, ConcludeSave(p)
      PROVE  \A c \in CallIds : status[c] \in Final \cup {"active"} => status'[c] # "ringing"
  <2>1. PICK k \in Work : status' = [status EXCEPT ![k[1]] = k[2]]
    BY <1>3 DEF ConcludeSave
  <2> QED BY <2>1
<1>4. ASSUME NEW p \in Procs, AcceptSave(p)
      PROVE  \A c \in CallIds : status[c] \in Final \cup {"active"} => status'[c] # "ringing"
  BY <1>4 DEF AcceptSave
<1>5. ASSUME NEW p \in Procs, DeclineLeave(p) \/ JoinSave(p)
      PROVE  \A c \in CallIds : status[c] \in Final \cup {"active"} => status'[c] # "ringing"
  BY <1>5 DEF DeclineLeave, JoinSave
<1> QED BY <1>1, <1>2, <1>3, <1>4, <1>5, RowsAreWritten DEF RowsWritten

(* The same, of every behaviour. *)
THEOREM RingsOnce ==
    Spec => [][\A c \in CallIds : status[c] \in Final \cup {"active"} => status'[c] # "ringing"]_vars
<1> DEFINE A == \A c \in CallIds : status[c] \in Final \cup {"active"} => status'[c] # "ringing"
<1>1. IInv /\ [Next]_vars => [A]_vars
  BY NoRingAgain
<1>2. Spec => [][A]_vars
  BY <1>1, Inductive, PTL DEF Spec
<1> QED BY <1>2

(* Who has ended calls to tell, until they are told. *)
Telling == {"unlock", "log", "tell"}

(* A call that is over and not told is in the hands of who concluded it. *)
InHand == crashes = 0 =>
    \A c \in ended \ told : \E p \in Procs : pc[p] \in Telling /\ cur[p][1] = c

(* A handler between its save and its notice goes on to give the notice,     *)
(* whatever the others do.                                                   *)
LEMMA TellingGoesOn ==
    ASSUME HandlersTyped, NEW q \in Procs, pc[q] \in Telling, [Next]_vars, ~Crash
    PROVE  \/ pc'[q] \in Telling /\ cur'[q] = cur[q]
           \/ told' = told \cup {cur[q][1]}
<1> USE DEF HandlersTyped, Procs, Telling, handlers, GoTo, Finish
<1>1. ASSUME NEW p \in Requests, Request(p) PROVE pc'[q] = pc[q] /\ cur'[q] = cur[q]
  BY <1>1 DEF Request, Start, Accept, Decline, End, EndAgain, Join, Load, Hangup, Begin, ConcludeAll
<1>2. ASSUME NEW p \in Procs, Continue(p), pc[p] \notin Telling
      PROVE  pc'[q] = pc[q] /\ cur'[q] = cur[q]
  <2> p # q
    BY <1>2
  <2>1. CASE ConcludeSave(p) \/ HangLeftovers(p) \/ CreateCall(p) \/ MarkBusy(p) \/ PostLog(p)
    BY <2>1 DEF ConcludeSave, HangLeftovers, CreateCall, MarkBusy, PostLog, ConcludeAll
  <2>2. CASE ReadLock(p) \/ JudgeLock(p) \/ BusyQuery(p)
    BY <2>2 DEF ReadLock, JudgeLock, BusyQuery, NextMember, FoundFree, FoundBusy
  <2>3. CASE AcceptSave(p) \/ DeclineUnlock(p) \/ DeclineLeave(p) \/ JoinSave(p)
    BY <2>3 DEF AcceptSave, DeclineUnlock, DeclineLeave, JoinSave, ConcludeAll
  <2>4. CASE ConcludeUnlock(p) \/ ConcludeLog(p) \/ ConcludeTell(p)
    BY <1>2, <2>4 DEF ConcludeUnlock, ConcludeLog, ConcludeTell
  <2> QED BY <1>2, <2>1, <2>2, <2>3, <2>4 DEF Continue, Concluding, Starting
<1>3. ASSUME NEW p \in Procs, ConcludeUnlock(p) \/ ConcludeLog(p)
      PROVE  pc'[q] \in Telling /\ cur'[q] = cur[q]
  BY <1>3 DEF ConcludeUnlock, ConcludeLog
<1>4. ASSUME NEW p \in Procs, ConcludeTell(p)
      PROVE  \/ pc'[q] = pc[q] /\ cur'[q] = cur[q]
             \/ told' = told \cup {cur[q][1]}
  BY <1>4 DEF ConcludeTell
<1>5. ASSUME NEW p \in Procs, Continue(p), pc[p] \in Telling
      PROVE  ConcludeUnlock(p) \/ ConcludeLog(p) \/ ConcludeTell(p)
  BY <1>5 DEF Continue, Concluding, Starting, ConcludeSave, ReadLock, JudgeLock, BusyQuery,
     HangLeftovers, CreateCall, MarkBusy, PostLog, AcceptSave, DeclineUnlock, DeclineLeave, JoinSave
<1>6. ASSUME NEW c \in CallIds, RingsOut(c) PROVE pc'[q] = pc[q] /\ cur'[q] = cur[q]
  BY <1>6 DEF RingsOut
<1>7. ASSUME NEW u \in Users, LockExpires(u) PROVE pc'[q] = pc[q] /\ cur'[q] = cur[q]
  BY <1>7 DEF LockExpires
<1>8. CASE ExpireTick
  BY <1>8 DEF ExpireTick, Begin, ConcludeAll
<1>9. CASE UNCHANGED vars
  BY <1>9 DEF vars
<1> QED BY <1>1, <1>2, <1>3, <1>4, <1>5, <1>6, <1>7, <1>8, <1>9 DEF Next

(* A notice once given stays given, and only conclude ends a call. *)
LEMMA EndedByConclude ==
    ASSUME [Next]_vars
    PROVE  /\ told \subseteq told'
           /\ \/ ended' = ended
              \/ \E p \in Procs : ConcludeSave(p)
           /\ Crash \/ crashes' = crashes
<1> DEFINE Quietly == told \subseteq told' /\ ended' = ended /\ (Crash \/ crashes' = crashes)
<1> USE DEF Procs, rows, outside, handlers
<1>1. ASSUME NEW p \in Requests, Request(p) PROVE Quietly
  BY <1>1 DEF Request, Start, Accept, Decline, End, EndAgain, Join, Load, Hangup
<1>2. ASSUME NEW p \in Procs, Concluding(p)
      PROVE  Quietly \/ (told \subseteq told' /\ ConcludeSave(p) /\ crashes' = crashes)
  BY <1>2 DEF Concluding, ConcludeSave, ConcludeUnlock, ConcludeLog, ConcludeTell
<1>3. ASSUME NEW p \in Procs, Starting(p) PROVE Quietly
  BY <1>3 DEF Starting, ReadLock, JudgeLock, BusyQuery, HangLeftovers, CreateCall, MarkBusy, PostLog
<1>4. ASSUME NEW p \in Procs, AcceptSave(p) \/ DeclineUnlock(p) \/ DeclineLeave(p) \/ JoinSave(p)
      PROVE  Quietly
  BY <1>4 DEF AcceptSave, DeclineUnlock, DeclineLeave, JoinSave
<1>5. ASSUME NEW c \in CallIds, RingsOut(c) PROVE Quietly
  BY <1>5 DEF RingsOut
<1>6. ASSUME NEW u \in Users, LockExpires(u) PROVE Quietly
  BY <1>6 DEF LockExpires
<1>7. CASE ExpireTick \/ Crash \/ UNCHANGED vars
  BY <1>7 DEF ExpireTick, Crash, vars
<1> QED BY <1>1, <1>2, <1>3, <1>4, <1>5, <1>6, <1>7 DEF Next, Continue

(* No call falls between its save and its notice. *)
LEMMA InHandStep ==
    ASSUME IInv, InHand, [Next]_vars
    PROVE  InHand'
<1> USE DEF IInv, TypeOK, HandlersTyped, OutsideTyped
<1>1. SUFFICES ASSUME crashes' = 0, NEW c \in ended' \ told'
               PROVE  \E p \in Procs : pc'[p] \in Telling /\ cur'[p][1] = c
  BY DEF InHand
<1>2. ~Crash /\ crashes = 0
  <2>1. Crash => crashes' = crashes + 1
    BY DEF Crash
  <2> QED BY <1>1, <2>1, EndedByConclude, CallsAssumption
<1>3. c \notin told
  BY <1>1, EndedByConclude
<1>4. CASE c \in ended
  <2>1. PICK q \in Procs : pc[q] \in Telling /\ cur[q][1] = c
    BY <1>2, <1>3, <1>4 DEF InHand
  <2> QED BY <1>1, <1>2, <2>1, TellingGoesOn
<1>5. CASE c \notin ended
  <2>1. PICK p \in Procs : ConcludeSave(p)
    BY <1>1, <1>5, EndedByConclude
  <2> QED BY <1>1, <1>5, <2>1 DEF ConcludeSave, GoTo, Telling
<1> QED BY <1>4, <1>5

(* However handlers overlap, as long as the server runs, a call that is over *)
(* has been told to its members or is about to be, by the handler that       *)
(* concluded it: no other handler drops it or takes its place (conclude).    *)
THEOREM NoCallUntold ==
    Spec => [](crashes = 0 => \A c \in ended \ told : \E p \in Procs : pc[p] \in Telling /\ cur[p][1] = c)
<1>1. Init => InHand
  BY DEF Init, InHand
<1>2. IInv /\ InHand /\ [Next]_vars => InHand'
  BY InHandStep
<1>3. Spec => []InHand
  BY <1>1, <1>2, Inductive, PTL DEF Spec
<1> QED BY <1>3 DEF InHand

(* A live call seats a member of the chat p wants to call. *)
Conflict(p) == \E c \in CallIds : status[c] \in Live /\ Seats(c) \cap Members[room[p]] # {}

(* start is refused by a lock it judged, or by the query for live calls. *)
LEMMA RefusedBy ==
    ASSUME TypeOK, NEW r \in Procs, Refused(r), [Next]_vars
    PROVE  JudgeLock(r) \/ BusyQuery(r)
<1> USE DEF Refused, TypeOK, HandlersTyped, OutsideTyped, Procs, handlers, GoTo, Finish
<1>1. ASSUME NEW p \in Requests, Request(p) PROVE FALSE
  BY <1>1 DEF Request, Start, Accept, Decline, End, EndAgain, Join, Load, Hangup, Begin, ConcludeAll
<1>2. ASSUME NEW p \in Procs, Continue(p) PROVE JudgeLock(r) \/ BusyQuery(r)
  <2>1. ASSUME NEW l, pc' = [pc EXCEPT ![p] = l], l # "idle" PROVE FALSE
    BY <2>1
  <2>2. ASSUME pc' = [pc EXCEPT ![p] = "idle"], pc[p] \notin {"query", "scan"} PROVE FALSE
    BY <2>2
  <2>3. CASE Concluding(p)
    BY <2>1, <2>2, <2>3 DEF Concluding, ConcludeSave, ConcludeUnlock, ConcludeLog, ConcludeTell
  <2>4. CASE ReadLock(p)
    BY <2>4 DEF ReadLock, NextMember, FoundFree
  <2>5. CASE JudgeLock(p) \/ BusyQuery(p)
    BY <2>5 DEF JudgeLock, BusyQuery, NextMember, FoundFree, FoundBusy
  <2>6. CASE HangLeftovers(p) \/ CreateCall(p) \/ MarkBusy(p) \/ PostLog(p)
    BY <2>6 DEF HangLeftovers, CreateCall, MarkBusy, PostLog, ConcludeAll
  <2>7. CASE AcceptSave(p) \/ DeclineUnlock(p) \/ DeclineLeave(p) \/ JoinSave(p)
    BY <2>7 DEF AcceptSave, DeclineUnlock, DeclineLeave, JoinSave, ConcludeAll
  <2> QED BY <1>2, <2>3, <2>4, <2>5, <2>6, <2>7 DEF Continue, Starting
<1>3. ASSUME NEW c \in CallIds, RingsOut(c) PROVE FALSE
  BY <1>3 DEF RingsOut
<1>4. ASSUME NEW u \in Users, LockExpires(u) PROVE FALSE
  BY <1>4 DEF LockExpires
<1>5. CASE ExpireTick
  BY <1>5 DEF ExpireTick, Begin, ConcludeAll
<1>6. CASE Crash \/ UNCHANGED vars
  BY <1>6, CallsAssumption DEF Crash, vars
<1> QED BY <1>1, <1>2, <1>3, <1>4, <1>5, <1>6 DEF Next

(* A step that refuses a start saw a live call with a seat of a member. *)
LEMMA RefusalStep ==
    ASSUME IInv, NEW r \in Procs, Refused(r), [Next]_vars
    PROVE  Conflict(r)
<1> USE CallsAssumption DEF IInv, TypeOK, RowsTyped, OutsideTyped, HandlersTyped, HandlerShape,
       Procs, Work, Starters, LocksSound, Refused, Conflict
<1>1. CASE JudgeLock(r)
  BY <1>1 DEF JudgeLock, NextMember, FoundFree, FoundBusy, GoTo
<1>2. CASE BusyQuery(r)
  BY <1>2 DEF BusyQuery, FoundBusy, GoTo, Occupied
<1> QED BY <1>1, <1>2, RefusedBy

(* start answers 409 only while a live call really seats a member. *)
THEOREM RefusalIsReal == Spec => ConflictIsReal
<1> DEFINE A == \A p \in Procs : Refused(p) => Conflict(p)
<1>1. IInv /\ [Next]_vars => [A]_vars
  BY RefusalStep
<1>2. Spec => [][A]_vars
  BY <1>1, Inductive, PTL DEF Spec
<1> QED BY <1>2 DEF ConflictIsReal, Conflict

(* Without overlap a handler finds the rows as it last saw them. *)
LEMMA AloneStep ==
    ASSUME ~Overlap, IInv, Alone, [Next]_vars
    PROVE  Alone'
<1> USE CallsAssumption DEF IInv, TypeOK, RowsTyped, OutsideTyped, HandlersTyped, HandlerShape,
       Procs, Work, Loaded, Starters, rows, outside,
       Alone, Occupied, Seats, Live, Final
<1>1. ASSUME NEW p \in Requests, NEW u \in Users, NEW ch \in Chats, Start(p, u, ch) PROVE Alone'
  BY <1>1 DEF Start, Begin, ConcludeAll, GoTo
<1>2. ASSUME NEW p \in Requests, NEW u \in Users, NEW c \in CallIds, Accept(p, u, c) PROVE Alone'
  BY <1>2 DEF Accept, Begin, Load, GoTo
<1>3. ASSUME NEW p \in Requests, NEW u \in Users, NEW c \in CallIds, Decline(p, u, c) PROVE Alone'
  BY <1>3 DEF Decline, Begin, Load, GoTo
<1>4. ASSUME NEW p \in Requests, NEW u \in Users, NEW c \in CallIds, End(p, u, c) PROVE Alone'
  BY <1>4 DEF End, Begin, ConcludeAll, GoTo, FinishStatus
<1>5. ASSUME NEW p \in Requests, NEW u \in Users, NEW c \in CallIds, EndAgain(p, u, c) PROVE Alone'
  BY <1>5 DEF EndAgain, handlers
<1>6. ASSUME NEW p \in Requests, NEW u \in Users, NEW c \in CallIds, Join(p, u, c) PROVE Alone'
  BY <1>6 DEF Join, Begin, Load, GoTo
<1>7. ASSUME NEW p \in Requests, NEW u \in Users, Hangup(p, u) PROVE Alone'
  BY <1>7 DEF Hangup, Begin, ConcludeAll, GoTo
<1>8. ASSUME NEW p \in Procs, ConcludeSave(p) PROVE Alone'
  BY <1>8 DEF ConcludeSave, GoTo
<1>9. ASSUME NEW p \in Procs, ConcludeUnlock(p) PROVE Alone'
  BY <1>9 DEF ConcludeUnlock, GoTo
<1>10. ASSUME NEW p \in Procs, ConcludeLog(p) PROVE Alone'
  BY <1>10 DEF ConcludeLog, GoTo
<1>11. ASSUME NEW p \in Procs, ConcludeTell(p) PROVE Alone'
  BY <1>11 DEF ConcludeTell, Finish, GoTo
<1>12. ASSUME NEW p \in Procs, ReadLock(p) PROVE Alone'
  BY <1>12 DEF ReadLock, NextMember, FoundFree, GoTo
<1>13. ASSUME NEW p \in Procs, JudgeLock(p) PROVE Alone'
  BY <1>13 DEF JudgeLock, NextMember, FoundFree, FoundBusy, Finish, GoTo
<1>14. ASSUME NEW p \in Procs, BusyQuery(p) PROVE Alone'
  <2>1. pc[p] = "query" /\ UNCHANGED rows
    BY <1>14 DEF BusyQuery
  <2>2. \A q \in Procs : q # p => pc[q] = "idle"
    BY <2>1
  <2>3. CASE FoundBusy(p)
    BY <2>1, <2>2, <2>3 DEF FoundBusy, Finish, GoTo
  <2>4. CASE ~FoundBusy(p)
    <3>1. ~\E c \in CallIds, u \in Members[room[p]] : Occupied(u, c)
      BY <1>14, <2>4 DEF BusyQuery
    <3>2. pc' = [pc EXCEPT ![p] = "scan"] /\ room' = room
      BY <1>14, <2>4 DEF BusyQuery, GoTo
    <3> QED BY <2>1, <2>2, <3>1, <3>2
  <2> QED BY <2>3, <2>4
<1>15. ASSUME NEW p \in Procs, HangLeftovers(p) PROVE Alone'
  BY <1>15 DEF HangLeftovers, ConcludeAll, GoTo
<1>16. ASSUME NEW p \in Procs, CreateCall(p) PROVE Alone'
  BY <1>16 DEF CreateCall, Unused, GoTo
<1>17. ASSUME NEW p \in Procs, MarkBusy(p) PROVE Alone'
  BY <1>17 DEF MarkBusy, GoTo
<1>18. ASSUME NEW p \in Procs, PostLog(p) PROVE Alone'
  BY <1>18 DEF PostLog, Finish
<1>19. ASSUME NEW p \in Procs, AcceptSave(p) PROVE Alone'
  BY <1>19 DEF AcceptSave, Finish
<1>20. ASSUME NEW p \in Procs, DeclineUnlock(p) PROVE Alone'
  <2>1. pc[p] = "decline" /\ UNCHANGED rows /\ cur' = cur /\ room' = room
    BY <1>20 DEF DeclineUnlock
  <2>2. pc' = [pc EXCEPT ![p] = "leave"] \/ pc' = [pc EXCEPT ![p] = "save"]
    BY <1>20, DeclineBranches
  <2>3. \A q \in Procs : q # p => pc[q] = "idle"
    BY <2>1
  <2>4. status[cur[p][1]] = "ringing"
    BY <2>1
  <2> QED BY <2>1, <2>2, <2>3, <2>4
<1>21. ASSUME NEW p \in Procs, DeclineLeave(p) PROVE Alone'
  BY <1>21 DEF DeclineLeave, Finish
<1>22. ASSUME NEW p \in Procs, JoinSave(p) PROVE Alone'
  BY <1>22 DEF JoinSave, Finish
<1>23. ASSUME ExpireTick PROVE Alone'
  BY <1>23 DEF ExpireTick, Begin, ConcludeAll, GoTo
<1>24. ASSUME NEW c \in CallIds, RingsOut(c) PROVE Alone'
  BY <1>24 DEF RingsOut, handlers
<1>25. ASSUME NEW u \in Users, LockExpires(u) PROVE Alone'
  BY <1>25 DEF LockExpires, handlers
<1>26. ASSUME Crash PROVE Alone'
  BY <1>26 DEF Crash
<1>27. CASE UNCHANGED vars
  BY <1>27 DEF vars, handlers
<1> HIDE DEF Alone
<1> QED
  BY <1>1, <1>2, <1>3, <1>4, <1>5, <1>6, <1>7, <1>8, <1>9, <1>10, <1>11, <1>12, <1>13, <1>14,
     <1>15, <1>16, <1>17, <1>18, <1>19, <1>20, <1>21, <1>22, <1>23, <1>24, <1>25, <1>26, <1>27
  DEF Next, Request, Continue, Concluding, Starting

(* ... so no step gives a user a second open seat. *)
LEMMA OneSeatStep ==
    ASSUME ~Overlap, IInv, Alone, OneSeatPerUser, [Next]_vars
    PROVE  OneSeatPerUser'
<1> USE CallsAssumption DEF IInv, TypeOK, RowsTyped, OutsideTyped, HandlersTyped, HandlerShape,
       Procs, Work, Loaded, Starters, rows, Alone, OneSeatPerUser, Occupied, Seats, Live, Final
<1>1. CASE UNCHANGED rows
  BY <1>1
<1>2. ASSUME NEW p \in Procs, CreateCall(p) PROVE OneSeatPerUser'
  BY <1>2 DEF CreateCall, Unused
<1>3. ASSUME NEW p \in Procs, ConcludeSave(p) PROVE OneSeatPerUser'
  BY <1>3 DEF ConcludeSave
<1>4. ASSUME NEW p \in Procs, AcceptSave(p) PROVE OneSeatPerUser'
  BY <1>4 DEF AcceptSave
<1>5. ASSUME NEW p \in Procs, DeclineLeave(p) PROVE OneSeatPerUser'
  BY <1>5 DEF DeclineLeave
<1>6. ASSUME NEW p \in Procs, JoinSave(p) PROVE OneSeatPerUser'
  BY <1>6 DEF JoinSave
<1> QED BY <1>1, <1>2, <1>3, <1>4, <1>5, <1>6, RowsAreWritten DEF RowsWritten

(* ... and a verdict is still the one its row asks for ... *)
LEMMA CurrentStep ==
    ASSUME ~Overlap, IInv, Alone, VerdictsCurrent, [Next]_vars
    PROVE  VerdictsCurrent'
<1> USE DEF IInv, TypeOK, RowsTyped, OutsideTyped, HandlersTyped, HandlerShape, Procs, Work,
       Live, Final, Due
<1>1. CASE Tame
  BY <1>1 DEF Tame, Settling, VerdictsCurrent
<1>2. ASSUME NEW p \in Procs, NEW W \in Verdicts, NEW l \in {"idle", "stale"},
             ConcludeAll(p, W, l), status' = status
      PROVE  VerdictsCurrent'
  <2>1. \A k, m \in W : k[1] = m[1] => k = m
    BY DEF Verdicts, Overdue, LeftoversOf
  <2>2. \A k \in W : Due(k)
    BY DEF Verdicts, Overdue, LeftoversOf, FinishStatus
  <2>3. \A q \in Procs : q # p => pc'[q] = pc[q] /\ todo'[q] = todo[q]
    BY <1>2 DEF ConcludeAll, GoTo
  <2>4. todo'[p] = W /\ pc'[p] = IF W = {} THEN l ELSE "save"
    BY <1>2 DEF ConcludeAll, GoTo
  <2> QED BY <1>2, <2>1, <2>2, <2>3, <2>4 DEF VerdictsCurrent
<1>3. ASSUME NEW p \in Procs, NEW u \in Users, NEW c \in CallIds, End(p, u, c)
      PROVE  VerdictsCurrent'
  BY <1>3 DEF rows, End, ConcludeAll, GoTo, FinishStatus, VerdictsCurrent
<1>4. ASSUME NEW p \in Procs, CreateCall(p) PROVE VerdictsCurrent'
  BY <1>4 DEF CreateCall, Unused, GoTo, VerdictsCurrent
<1>5. ASSUME NEW p \in Procs, DeclineUnlock(p) PROVE VerdictsCurrent'
  <2>1. pc[p] = "decline" /\ status' = status
    BY <1>5 DEF rows, DeclineUnlock
  <2>2. status[cur[p][1]] = "ringing" /\ todo[p] = {}
    BY <2>1 DEF Alone, VerdictsCurrent
  <2>3. \A q \in Procs : q # p => pc'[q] = pc[q] /\ todo'[q] = todo[q]
    BY <1>5, DeclineBranches
  <2>4. \/ pc'[p] = "leave" /\ todo' = todo
        \/ pc'[p] = "save" /\ todo'[p] = {<<cur[p][1], "declined">>}
    BY <1>5, DeclineBranches
  <2>5. CASE pc'[p] = "leave" /\ todo' = todo
    <3>1. \A q \in Procs : q # p => pc'[q] = pc[q]
      BY <2>3
    <3>2. ASSUME NEW k PROVE Due(k)' <=> Due(k)
      BY <2>1 DEF Due
    <3> QED BY ONLY <2>2, <2>5, <3>1, <3>2, VerdictsCurrent DEF VerdictsCurrent
  <2>6. CASE pc'[p] = "save" /\ todo'[p] = {<<cur[p][1], "declined">>}
    <3>1. \A k \in todo'[p] : k = <<cur[p][1], "declined">>
      BY <2>6
    <3>2. \A k \in todo'[p] : Due(k)'
      BY <2>1, <2>2, <3>1 DEF Due
    <3>3. \A q \in Procs : q # p => \A k \in todo'[q] : Due(k)'
      BY <2>1, <2>3 DEF VerdictsCurrent, Due
    <3>4. \A q \in Procs : \A k \in todo'[q] : Due(k)'
      BY ONLY <3>2, <3>3
    <3> QED BY ONLY <2>3, <2>6, <3>1, <3>4, VerdictsCurrent DEF VerdictsCurrent
  <2> QED BY <2>4, <2>5, <2>6
<1>6. ASSUME NEW p \in Procs, AcceptSave(p) PROVE VerdictsCurrent'
  BY <1>6 DEF AcceptSave, Finish, VerdictsCurrent, Alone
<1>7. ASSUME NEW p \in Procs, ConcludeSave(p) PROVE VerdictsCurrent'
  BY <1>7 DEF ConcludeSave, GoTo, VerdictsCurrent, Alone
<1>8. CASE \E p \in Procs, W \in Verdicts, l \in {"idle", "stale"} : ConcludeAll(p, W, l) /\ UNCHANGED rows
  <2>1. PICK p \in Procs, W \in Verdicts, l \in {"idle", "stale"} : ConcludeAll(p, W, l) /\ UNCHANGED rows
    BY <1>8
  <2>2. status' = status
    BY <2>1 DEF rows
  <2> QED BY ONLY <1>2, <2>1, <2>2
<1> QED BY <1>1, <1>3, <1>4, <1>5, <1>6, <1>7, <1>8, VerdictsAreJudged DEF Judged

(* ... and the message of a call follows its row. *)
LEMMA LogStep ==
    ASSUME ~Overlap, IInv, Alone, VerdictsCurrent, LogFollows, [Next]_vars
    PROVE  LogFollows'
<1> USE CallsAssumption DEF IInv, TypeOK, RowsTyped, OutsideTyped, HandlersTyped, HandlerShape,
       Procs, Work, Live, Final
<1>0. ASSUME NEW p \in Procs, pc[p] # "idle"
      PROVE  /\ \A q \in Procs : q # p => pc[q] = "idle"
             /\ crashes = 0 =>
                  /\ \A d \in CallIds : LogSays(d) \/ Posting(p, d) \/ Updating(p, d)
                  /\ pc[p] \in {"mark", "post"} => Posting(p, cur[p][1])
                  /\ pc[p] \in {"unlock", "log"} => Updating(p, cur[p][1])
  BY <1>0 DEF Alone, LogFollows, Posting, Updating
<1>1. CASE Offstage
  <2>1. ASSUME NEW p \in Procs, NEW c \in CallIds
        PROVE  (Posting(p, c)' <=> Posting(p, c)) /\ (Updating(p, c)' <=> Updating(p, c))
    BY <1>1 DEF Offstage, Posting, Updating
  <2>2. \A c \in CallIds : LogSays(c)' <=> LogSays(c)
    BY <1>1 DEF Offstage, LogSays
  <2>3. ASSUME crashes = 0, NEW p \in Procs
        PROVE  /\ pc'[p] \in {"mark", "post"} => Posting(p, cur[p][1])' /\ cur'[p] = cur[p]
               /\ pc'[p] \in {"unlock", "log"} => Updating(p, cur[p][1])' /\ cur'[p] = cur[p]
    <3>1. /\ pc[p] \in {"mark", "post"} => Posting(p, cur[p][1]) /\ cur[p][1] \in CallIds
          /\ pc[p] \in {"unlock", "log"} => Updating(p, cur[p][1]) /\ cur[p][1] \in CallIds
      BY <2>3 DEF LogFollows
    <3>2. CASE pc'[p] = pc[p] /\ cur'[p] = cur[p]
      BY <2>1, <3>1, <3>2
    <3>3. CASE pc'[p] \notin {"mark", "post", "unlock", "log"}
      BY <3>3
    <3> QED BY <1>1, <3>2, <3>3 DEF Offstage
  <2> QED BY <1>1, <2>1, <2>2, <2>3 DEF Offstage, LogFollows
<1>2. CASE Crash
  BY <1>2 DEF Crash, LogFollows
<1> USE DEF Posting, Updating, LogSays
<1>3. ASSUME NEW p \in Procs, CreateCall(p) PROVE LogFollows'
  <2>1. PICK c \in Unused : /\ status' = [status EXCEPT ![c] = "ringing"]
                            /\ cur' = [cur EXCEPT ![p] = <<c, "none">>]
    BY <1>3 DEF CreateCall
  <2>2. pc[p] = "create" /\ pc' = [pc EXCEPT ![p] = "mark"] /\ log' = log /\ crashes' = crashes
    BY <1>3 DEF CreateCall, GoTo, outside
  <2>3. ASSUME crashes = 0
        PROVE  /\ \A d \in CallIds : d # c => LogSays(d)'
               /\ Posting(p, c)' /\ cur'[p][1] = c
    <3>1. c \in CallIds /\ status[c] = "none" /\ \A d \in CallIds : LogSays(d)
      BY <1>0, <2>2, <2>3 DEF Unused
    <3>2. status'[c] = "ringing" /\ log'[c] = "none" /\ pc'[p] = "mark" /\ cur'[p][1] = c
      BY <2>1, <2>2, <3>1
    <3>3. \A d \in CallIds : d # c => status'[d] = status[d] /\ log'[d] = log[d]
      BY <2>1, <2>2
    <3> QED BY <3>1, <3>2, <3>3
  <2>4. \A q \in Procs : q # p => pc'[q] = "idle"
    BY <1>0, <2>2
  <2> HIDE DEF Posting, Updating, LogSays
  <2> QED BY <2>2, <2>3, <2>4 DEF LogFollows
<1>4. ASSUME NEW p \in Procs, MarkBusy(p) PROVE LogFollows'
  BY <1>0, <1>4 DEF MarkBusy, GoTo, rows, LogFollows
<1>5. ASSUME NEW p \in Procs, PostLog(p) PROVE LogFollows'
  <2> DEFINE c == cur[p][1]
  <2>1. /\ pc[p] = "post" /\ pc' = [pc EXCEPT ![p] = "idle"] /\ c \in CallIds
        /\ log' = [log EXCEPT ![c] = "call"] /\ status' = status /\ crashes' = crashes
    BY <1>5 DEF PostLog, Finish, rows
  <2>2. \A q \in Procs : pc'[q] = "idle"
    BY <1>0, <2>1
  <2>3. crashes = 0 => \A d \in CallIds : LogSays(d)'
    BY <1>0, <2>1
  <2> HIDE DEF Posting, Updating, LogSays
  <2> QED BY <2>1, <2>2, <2>3 DEF LogFollows
<1>6. ASSUME NEW p \in Procs, AcceptSave(p) PROVE LogFollows'
  <2> DEFINE c == cur[p][1]
  <2>1. /\ pc[p] = "accept" /\ pc' = [pc EXCEPT ![p] = "idle"] /\ c \in CallIds
        /\ status' = [status EXCEPT ![c] = "active"] /\ log' = log /\ crashes' = crashes
    BY <1>6 DEF AcceptSave, Finish, outside, Loaded
  <2>2. status[c] = "ringing"
    BY <2>1 DEF Alone
  <2>3. \A q \in Procs : pc'[q] = "idle"
    BY <1>0, <2>1
  <2>4. crashes = 0 => \A d \in CallIds : LogSays(d)'
    BY <1>0, <2>1, <2>2
  <2> HIDE DEF Posting, Updating, LogSays
  <2> QED BY <2>1, <2>3, <2>4 DEF LogFollows
<1>7. ASSUME NEW p \in Procs, ConcludeSave(p) PROVE LogFollows'
  <2>1. PICK k \in todo[p] : /\ status' = [status EXCEPT ![k[1]] = k[2]]
                             /\ cur' = [cur EXCEPT ![p] = k]
    BY <1>7 DEF ConcludeSave
  <2>2. pc[p] = "save" /\ pc' = [pc EXCEPT ![p] = "unlock"] /\ log' = log /\ crashes' = crashes
    BY <1>7 DEF ConcludeSave, GoTo, outside
  <2>3. k \in Work /\ status[k[1]] \in Live
    BY <2>1 DEF VerdictsCurrent, Due
  <2>4. ASSUME crashes = 0
        PROVE  /\ \A d \in CallIds : d # k[1] => LogSays(d)'
               /\ Updating(p, k[1])' /\ cur'[p] = k
    BY <1>0, <2>1, <2>2, <2>3, <2>4
  <2>5. \A q \in Procs : q # p => pc'[q] = "idle"
    BY <1>0, <2>2
  <2> HIDE DEF Posting, Updating, LogSays
  <2> QED BY <2>2, <2>3, <2>4, <2>5 DEF LogFollows
<1>8. ASSUME NEW p \in Procs, ConcludeUnlock(p) PROVE LogFollows'
  BY <1>0, <1>8 DEF ConcludeUnlock, GoTo, rows, LogFollows
<1>9. ASSUME NEW p \in Procs, ConcludeLog(p) PROVE LogFollows'
  BY <1>0, <1>9 DEF ConcludeLog, GoTo, rows, LogFollows
<1> QED BY <1>1, <1>2, <1>3, <1>4, <1>5, <1>6, <1>7, <1>8, <1>9, LogIsWritten DEF LogWritten

(* One request at a time: what the handlers rely on. *)
SerialInv == Alone /\ OneSeatPerUser /\ VerdictsCurrent /\ LogFollows

LEMMA Serial == ~Overlap => (Spec => []SerialInv)
<1> SUFFICES ASSUME ~Overlap PROVE Spec => []SerialInv
  OBVIOUS
<1>1. Init => SerialInv
  BY DEF Init, NoHandlers, SerialInv, Alone, OneSeatPerUser, Occupied, VerdictsCurrent, LogFollows,
     LogSays, Live
<1>2. IInv /\ SerialInv /\ [Next]_vars => SerialInv'
  BY AloneStep, OneSeatStep, CurrentStep, LogStep DEF SerialInv
<1> QED BY <1>1, <1>2, Inductive, PTL DEF Spec

(* Handled one request at a time, a user never has two open seats: README's  *)
(* "one ringing / active call per user" holds up to overlapping handlers.    *)
THEOREM OneSeat == ~Overlap => (Spec => []OneSeatPerUser)
<1> SUFFICES ASSUME ~Overlap PROVE Spec => []OneSeatPerUser
  OBVIOUS
<1>1. SerialInv => OneSeatPerUser
  BY DEF SerialInv
<1> QED BY <1>1, Serial, PTL

(* Then, between two requests and with no restart, the message of every call *)
(* in its chat says what became of it: conclude and start never leave it     *)
(* behind, whichever of them ran before.                                     *)
THEOREM LogTrue == ~Overlap => (Spec => []LogMatches)
<1> SUFFICES ASSUME ~Overlap PROVE Spec => []LogMatches
  OBVIOUS
<1>1. SerialInv => LogMatches
  BY DEF SerialInv, LogFollows, LogMatches, LogSays, Quiet, Posting, Updating
<1> QED BY <1>1, Serial, PTL

-----------------------------------------------------------------------------
(* Calls implements PhoneLines when handlers do not overlap. *)

(* A line is the call in which its user has an open seat. *)
LEMMA LineIs ==
    ASSUME OneSeatPerUser, NEW u \in Users
    PROVE  /\ \A c \in CallIds : LineOf[u] = c <=> Occupied(u, c)
           /\ LineOf[u] = None <=> \A c \in CallIds : ~Occupied(u, c)
  BY CallsAssumption DEF OneSeatPerUser, LineOf

(* So it is after a step. *)
LEMMA LineWillBe ==
    ASSUME OneSeatPerUser', NEW u \in Users
    PROVE  /\ \A c \in CallIds : LineOf'[u] = c <=> Occupied(u, c)'
           /\ LineOf'[u] = None <=> \A c \in CallIds : ~Occupied(u, c)'
  BY CallsAssumption DEF OneSeatPerUser, LineOf

(* Same seats, same line. *)
LEMMA LineKept ==
    ASSUME OneSeatPerUser, OneSeatPerUser', NEW u \in Users,
           \A c \in CallIds : Occupied(u, c)' <=> Occupied(u, c)
    PROVE  LineOf'[u] = LineOf[u]
<1>1. CASE LineOf[u] = None
  BY <1>1, LineIs, LineWillBe
<1>2. CASE \E c \in CallIds : Occupied(u, c)
  BY <1>2, LineIs, LineWillBe
<1> QED BY <1>1, <1>2, LineIs

(* Every save of a call row is a step of the lines, or none. *)
LEMMA LinesStep ==
    ASSUME IInv, SerialInv, OneSeatPerUser', [Next]_vars
    PROVE  [Lines!Next]_Lines!vars
<1> USE DEF SerialInv
<1>0. /\ LineOf = [u \in Users |-> LineOf[u]]
      /\ LineOf' = [u \in Users |-> LineOf'[u]]
  BY DEF LineOf
<1>1. ASSUME status' = status, \A u \in Users, c \in CallIds : Occupied(u, c)' <=> Occupied(u, c)
      PROVE  UNCHANGED Lines!vars
  <2>1. \A u \in Users : LineOf'[u] = LineOf[u]
    BY <1>1, LineKept
  <2> QED BY <1>0, <1>1, <2>1 DEF Lines!vars
<1> USE CallsAssumption DEF IInv, TypeOK, RowsTyped, HandlersTyped, HandlerShape, Procs, Work,
       Loaded, Starters, Live, Final
<1>2. CASE UNCHANGED rows
  BY <1>1, <1>2 DEF rows, Occupied, Seats
<1>3. ASSUME NEW p \in Procs, CreateCall(p) PROVE Lines!Next
  <2> DEFINE S == Members[room[p]]
  <2>1. PICK c \in Unused : /\ status' = [status EXCEPT ![c] = "ringing"]
                            /\ chat' = [chat EXCEPT ![c] = room[p]]
    BY <1>3 DEF CreateCall
  <2>2. c \in CallIds /\ status[c] = "none" /\ chat[c] = None /\ left[c] = {} /\ left' = left
    BY <1>3, <2>1 DEF CreateCall, Unused, RowsSound
  <2>3. /\ room[p] \in Chats /\ S \in SUBSET Users /\ pc[p] = "create"
        /\ \E u, v \in S : u # v
    BY <1>3 DEF CreateCall
  <2>4. \A u \in S, d \in CallIds : ~Occupied(u, d)
    BY <2>3 DEF Alone
  <2>5. \A u \in S : Occupied(u, c)'
    BY <2>1, <2>2, <2>3 DEF Occupied, Seats
  <2>6. \A u \in Users \ S, d \in CallIds : Occupied(u, d)' <=> Occupied(u, d)
    BY <2>1, <2>2, <2>3 DEF Occupied, Seats
  <2> HIDE DEF S
  <2>7. \A u \in S : LineOf[u] = None /\ LineOf'[u] = c
    BY <2>2, <2>3, <2>4, <2>5, LineIs, LineWillBe
  <2>8. \A u \in Users \ S : LineOf'[u] = LineOf[u]
    BY <2>6, LineKept
  <2>9. LineOf' = [u \in Users |-> IF u \in S THEN c ELSE LineOf[u]]
    <3>1. \A u \in Users : LineOf'[u] = IF u \in S THEN c ELSE LineOf[u]
      BY <2>7, <2>8
    <3> QED BY ONLY <1>0, <3>1
  <2>10. Lines!Place(c, S)
    BY <2>1, <2>2, <2>3, <2>7, <2>9 DEF Lines!Place
  <2> QED BY <2>2, <2>3, <2>10 DEF Lines!Next
<1>4. ASSUME NEW p \in Procs, ConcludeSave(p) PROVE Lines!Next
  <2>1. PICK k \in todo[p] : /\ status' = [status EXCEPT ![k[1]] = k[2]]
                             /\ left' = [left EXCEPT ![k[1]] = Seats(k[1])]
    BY <1>4 DEF ConcludeSave
  <2>2. k[1] \in CallIds /\ k[2] \in Final /\ Due(k) /\ chat' = chat
    BY <1>4, <2>1 DEF ConcludeSave, VerdictsCurrent
  <2>3. \A u \in Users : ~Occupied(u, k[1])'
    BY <2>1, <2>2 DEF Occupied
  <2>4. \A u \in Users, d \in CallIds : d # k[1] => (Occupied(u, d)' <=> Occupied(u, d))
    BY <2>1, <2>2 DEF Occupied, Seats
  <2>5. ASSUME NEW u \in Users
        PROVE  LineOf'[u] = IF LineOf[u] = k[1] THEN None ELSE LineOf[u]
    <3>1. CASE Occupied(u, k[1])
      <4>1. \A d \in CallIds : ~Occupied(u, d)'
        BY <2>2, <2>3, <2>4, <3>1 DEF OneSeatPerUser
      <4> QED BY <2>2, <3>1, <4>1, LineIs, LineWillBe
    <3>2. CASE ~Occupied(u, k[1])
      <4>1. \A d \in CallIds : Occupied(u, d)' <=> Occupied(u, d)
        BY <2>2, <2>3, <2>4, <3>2
      <4> QED BY <2>2, <3>2, <4>1, LineIs, LineKept
    <3> QED BY <3>1, <3>2
  <2>6. LineOf' = [u \in Users |-> IF LineOf[u] = k[1] THEN None ELSE LineOf[u]]
    BY <1>0, <2>5
  <2>7. Lines!Over(k[1], k[2])
    BY <2>1, <2>2, <2>6 DEF Lines!Over, Due
  <2> QED BY <2>2, <2>7 DEF Lines!Next
<1>5. ASSUME NEW p \in Procs, AcceptSave(p) PROVE Lines!Next
  <2> DEFINE c == cur[p][1]
  <2>1. /\ c \in CallIds /\ status[c] = "ringing"
        /\ status' = [status EXCEPT ![c] = "active"] /\ UNCHANGED <<chat, left>>
    BY <1>5 DEF AcceptSave, Alone
  <2> HIDE DEF c
  <2>2. \A u \in Users, d \in CallIds : Occupied(u, d)' <=> Occupied(u, d)
    BY <2>1 DEF Occupied, Seats
  <2>3. \A u \in Users : LineOf'[u] = LineOf[u]
    BY <2>2, LineKept
  <2>4. LineOf' = LineOf
    BY <1>0, <2>3
  <2> QED BY <2>1, <2>4 DEF Lines!PickUp, Lines!Next
<1>6. ASSUME NEW p \in Procs, DeclineLeave(p) PROVE [Lines!Next]_Lines!vars
  <2>1. PICK c \in CallIds, w \in Users : c = cur[p][1] /\ w = who[p]
    BY <1>6 DEF DeclineLeave
  <2>2. /\ status[c] = "ringing" /\ UNCHANGED <<status, chat>>
        /\ left' = [left EXCEPT ![c] = left[c] \cup {w}]
    BY <1>6, <2>1 DEF DeclineLeave, Alone
  <2>3. /\ ~Occupied(w, c)'
        /\ \A u \in Users, d \in CallIds :
              ~(u = w /\ d = c) => (Occupied(u, d)' <=> Occupied(u, d))
    BY <2>2 DEF Occupied, Seats
  <2>4. CASE Occupied(w, c)
    <3>1. LineOf[w] = c /\ c # None
      BY <2>4, LineIs
    <3>2. LineOf'[w] = None
      <4>1. \A d \in CallIds : ~Occupied(w, d)'
        BY <2>3, <2>4 DEF OneSeatPerUser
      <4> QED BY <4>1, LineWillBe
    <3>3. \A u \in Users : u # w => LineOf'[u] = LineOf[u]
      BY <2>3, LineKept
    <3>4. LineOf' = [LineOf EXCEPT ![w] = None]
      BY <1>0, <3>2, <3>3
    <3>5. Lines!StepOut(w)
      BY <2>2, <3>1, <3>4 DEF Lines!StepOut
    <3> QED BY <3>5 DEF Lines!Next
  <2>5. CASE ~Occupied(w, c)
    BY <1>1, <2>2, <2>3, <2>5
  <2> QED BY <2>4, <2>5
<1>7. ASSUME NEW p \in Procs, JoinSave(p) PROVE UNCHANGED Lines!vars
  BY <1>1, <1>7 DEF JoinSave, Occupied, Seats
<1> QED BY <1>2, <1>3, <1>4, <1>5, <1>6, <1>7, RowsAreWritten DEF RowsWritten

(* Handled one request at a time, the calls are telephone lines: a call is   *)
(* placed only on free lines and ends as its course deserves, for any number *)
(* of users, chats and handlers and with restarts (start, accept, decline,   *)
(* end, expireRings, hangupAllForUser).                                      *)
THEOREM Refines == ~Overlap => (Spec => ImplementsLines)
<1> SUFFICES ASSUME ~Overlap PROVE Spec => ImplementsLines
  OBVIOUS
<1>1. Init => Lines!Init
  BY DEF Init, Lines!Init, LineOf, Occupied, Live
<1>2. IInv /\ SerialInv /\ SerialInv' /\ [Next]_vars => [Lines!Next]_Lines!vars
  BY LinesStep DEF SerialInv
<1> QED BY <1>1, <1>2, Inductive, Serial, PTL DEF Spec, ImplementsLines, Lines!Spec
=============================================================================
