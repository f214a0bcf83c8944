------------------------------- MODULE Calls -------------------------------
(***************************************************************************)
(* CallsService (src/src/calls): placing, answering, declining and ending  *)
(* calls, the ring timeout and the hang-up after a disconnect.             *)
(*                                                                         *)
(* A handler is a process.  Node runs it without interruption between two  *)
(* awaits, so an action is one database or Redis access together with the  *)
(* synchronous code around it, and handlers interleave between actions.    *)
(* A handler that loads a call row keeps deciding from that copy: `todo'   *)
(* and `cur' hold what was decided from it, and a save writes only the     *)
(* paths the handler assigned (Mongoose $set), whatever the row holds now. *)
(***************************************************************************)
EXTENDS Naturals, FiniteSets

CONSTANTS
    Users,
    Chats,        \* conversations
    Groups,       \* those of type 'group'; the others are direct
    Members,      \* Members[ch]: active members of ch (membership is fixed here)
    CallIds,      \* bound: the calls that can be created
    Requests,     \* bound: slots for HTTP / socket handlers in flight
    Timer,        \* the setInterval that runs expireRings
    None,
    Overlap,      \* may a handler begin while another one is running?
    MaxCrashes    \* bound: server restarts

ASSUME CallsAssumption ==
    /\ Members \in [Chats -> SUBSET Users]
    /\ Groups \subseteq Chats
    /\ None \notin CallIds \cup Users \cup Chats
    /\ Timer \notin Requests
    /\ Overlap \in BOOLEAN
    /\ MaxCrashes \in Nat

Procs == Requests \cup {Timer}
Live  == {"ringing", "active"}
Final == {"ended", "missed", "declined"}

VARIABLES
    (* the calls collection *)
    status, chat, by, joined, left, answered, ended,
    (* Redis, the call-log messages, and what the clients were told *)
    busy, log, told,
    (* the clock: calls older than CALL_RING_TIMEOUT_MS *)
    due,
    (* the handlers *)
    pc, who, room, round, scan, hit, todo, cur, after,
    crashes

rows     == <<status, chat, by, joined, left, answered, ended>>
outside  == <<busy, log, told>>
handlers == <<pc, who, room, round, scan, hit, todo, cur, after>>
vars     == <<rows, outside, due, handlers, crashes>>

Seats(c) == IF chat[c] = None THEN {} ELSE Members[chat[c]]

(* A participant of a live call whose leftAt is null (the $elemMatch of busy). *)
Occupied(u, c) == status[c] \in Live /\ u \in Seats(c) \ left[c]

Work == CallIds \X Final
Labels == {"idle", "save", "unlock", "log", "tell", "stale", "query", "scan", "hang",
           "create", "mark", "post", "accept", "decline", "leave", "join"}

RowsTyped ==
    /\ status \in [CallIds -> Live \cup Final \cup {"none"}]
    /\ chat \in [CallIds -> Chats \cup {None}]
    /\ by \in [CallIds -> Users \cup {None}]
    /\ joined \in [CallIds -> SUBSET Users]
    /\ left \in [CallIds -> SUBSET Users]
    /\ answered \subseteq CallIds
    /\ ended \subseteq CallIds

OutsideTyped ==
    /\ busy \in [Users -> CallIds \cup {None}]
    /\ log \in [CallIds -> Final \cup {"none", "call"}]
    /\ told \subseteq CallIds
    /\ due \subseteq CallIds
    /\ crashes \in 0..MaxCrashes

HandlersTyped ==
    /\ pc \in [Procs -> Labels]
    /\ who \in [Procs -> Users \cup {None}]
    /\ room \in [Procs -> Chats \cup {None}]
    /\ round \in [Procs -> {1, 2}]
    /\ scan \in [Procs -> SUBSET Users]
    /\ hit \in [Procs -> (Users \X CallIds) \cup {None}]
    /\ todo \in [Procs -> SUBSET Work]
    /\ cur \in [Procs -> Work \cup (CallIds \X {"none"}) \cup {None}]
    /\ after \in [Procs -> {"idle", "stale"}]

TypeOK == RowsTyped /\ OutsideTyped /\ HandlersTyped

NoHandlers ==
    /\ pc = [p \in Procs |-> "idle"]
    /\ who = [p \in Procs |-> None]
    /\ room = [p \in Procs |-> None]
    /\ round = [p \in Procs |-> 1]
    /\ scan = [p \in Procs |-> {}]
    /\ hit = [p \in Procs |-> None]
    /\ todo = [p \in Procs |-> {}]
    /\ cur = [p \in Procs |-> None]
    /\ after = [p \in Procs |-> "idle"]

Init ==
    /\ status = [c \in CallIds |-> "none"]
    /\ chat = [c \in CallIds |-> None]
    /\ by = [c \in CallIds |-> None]
    /\ joined = [c \in CallIds |-> {}]
    /\ left = [c \in CallIds |-> {}]
    /\ answered = {} /\ ended = {}
    /\ busy = [u \in Users |-> None]
    /\ log = [c \in CallIds |-> "none"]
    /\ told = {} /\ due = {}
    /\ NoHandlers
    /\ crashes = 0

-----------------------------------------------------------------------------
(* A handler begins in an idle slot; with ~Overlap, only when none is running. *)
Begin(p) ==
    /\ pc[p] = "idle"
    /\ Overlap \/ \A q \in Procs : pc[q] = "idle"

(* The handler is over: its local variables are gone. *)
Finish(p) ==
    /\ pc' = [pc EXCEPT ![p] = "idle"]
    /\ who' = [who EXCEPT ![p] = None]
    /\ room' = [room EXCEPT ![p] = None]
    /\ round' = [round EXCEPT ![p] = 1]
    /\ scan' = [scan EXCEPT ![p] = {}]
    /\ hit' = [hit EXCEPT ![p] = None]
    /\ todo' = [todo EXCEPT ![p] = {}]
    /\ cur' = [cur EXCEPT ![p] = None]
    /\ after' = [after EXCEPT ![p] = "idle"]

GoTo(p, l) == pc' = [pc EXCEPT ![p] = l]

(* Mutant: the caller's hang-up of an unanswered call ends it. *)
EndsRinging(c, u) == IF by[c] = u THEN "ended" ELSE "declined"

(* finishStatus of the row as loaded *)
FinishStatus(c, u) ==
    IF status[c] = "active" THEN "ended"
    ELSE IF by[c] = u THEN "missed" ELSE "declined"

(* Mutant: the cutoff compared the wrong way round *)
FreshRings == {c \in CallIds \ due : status[c] = "ringing"} \X {"missed"}

(* The rows expireRings and hangupAllForUser find, each with its verdict. *)
Overdue == {c \in due : status[c] = "ringing"} \X {"missed"}
LeftoversOf(u) ==
    {<<c, FinishStatus(c, u)>> : c \in {d \in CallIds : status[d] \in Live /\ u \in Seats(d)}}

-----------------------------------------------------------------------------
(* conclude: save the row, drop its members' locks, update the log, tell. *)

(* Mutant: only those who joined are marked as having left. *)
ClosesJoined(p) ==
    /\ pc[p] = "save"
    /\ \E k \in todo[p] :
          /\ status' = [status EXCEPT ![k[1]] = k[2]]
          /\ left' = [left EXCEPT ![k[1]] = joined[k[1]]]
          /\ ended' = ended \cup {k[1]}
          /\ cur' = [cur EXCEPT ![p] = k]
          /\ todo' = [todo EXCEPT ![p] = @ \ {k}]
    /\ GoTo(p, "unlock")
    /\ UNCHANGED <<chat, by, joined, answered, outside, due, who, room, round, scan, hit,
                   after, crashes>>

ConcludeSave(p) ==
    /\ pc[p] = "save"
    /\ \E k \in todo[p] :
          /\ status' = [status EXCEPT ![k[1]] = k[2]]
          /\ left' = [left EXCEPT ![k[1]] = Seats(k[1])]
          /\ ended' = ended \cup {k[1]}
          /\ cur' = [cur EXCEPT ![p] = k]
          /\ todo' = [todo EXCEPT ![p] = @ \ {k}]
    /\ GoTo(p, "unlock")
    /\ UNCHANGED <<chat, by, joined, answered, outside, due, who, room, round, scan, hit,
                   after, crashes>>

(* DEL call:busy:{id} of every participant, whichever call the lock names *)
ConcludeUnlock(p) ==
    /\ pc[p] = "unlock"
    /\ busy' = [u \in Users |-> IF u \in Seats(cur[p][1]) THEN None ELSE busy[u]]
    /\ GoTo(p, "log")
    /\ UNCHANGED <<rows, log, told, due, who, room, round, scan, hit, todo, cur, after, crashes>>

(* Mutant: a declined call keeps its message. *)
SkipsDeclined(p) ==
    /\ pc[p] = "log"
    /\ log' = [log EXCEPT ![cur[p][1]] = IF @ = "none" \/ cur[p][2] = "declined" THEN @ ELSE cur[p][2]]
    /\ GoTo(p, "tell")
    /\ UNCHANGED <<rows, busy, told, due, who, room, round, scan, hit, todo, cur, after, crashes>>

(* updateCallLog: nothing to update when the log message is not there (yet) *)
ConcludeLog(p) ==
    /\ pc[p] = "log"
    /\ log' = [log EXCEPT ![cur[p][1]] = IF @ = "none" THEN "none" ELSE cur[p][2]]
    /\ GoTo(p, "tell")
    /\ UNCHANGED <<rows, busy, told, due, who, room, round, scan, hit, todo, cur, after, crashes>>

(* Mutant: a missed call is not announced as ended. *)
TellsNoMissed(p) ==
    /\ pc[p] = "tell"
    /\ told' = IF cur[p][2] = "missed" THEN told ELSE told \cup {cur[p][1]}
    /\ IF todo[p] = {} /\ after[p] = "idle"
         THEN Finish(p)
         ELSE /\ GoTo(p, IF todo[p] = {} THEN after[p] ELSE "save")
              /\ UNCHANGED <<who, room, round, scan, hit, todo, cur, after>>
    /\ UNCHANGED <<rows, busy, log, due, crashes>>

(* notifyEnded, then the next row, or back to the caller *)
ConcludeTell(p) ==
    /\ pc[p] = "tell"
    /\ told' = told \cup {cur[p][1]}
    /\ IF todo[p] = {} /\ after[p] = "idle"
         THEN Finish(p)
         ELSE /\ GoTo(p, IF todo[p] = {} THEN after[p] ELSE "save")
              /\ UNCHANGED <<who, room, round, scan, hit, todo, cur, after>>
    /\ UNCHANGED <<rows, busy, log, due, crashes>>

(* for (const row of rows) await this.conclude(row, ...) and go on at l *)
ConcludeAll(p, work, l) ==
    /\ todo' = [todo EXCEPT ![p] = work]
    /\ after' = [after EXCEPT ![p] = l]
    /\ GoTo(p, IF work = {} THEN l ELSE "save")

-----------------------------------------------------------------------------
(* start *)

Unused == {c \in CallIds : status[c] = "none"}
Placing == {p \in Procs : pc[p] # "idle" /\ room[p] # None /\ pc[p] \notin {"mark", "post"}}

(* The membership, block and availability checks passed; expireRings' find. *)
Start(p, u, ch) ==
    /\ Begin(p)
    /\ u \in Members[ch]
    /\ Members[ch] # {u}
    /\ Cardinality(Placing) < Cardinality(Unused)
    /\ who' = [who EXCEPT ![p] = u]
    /\ room' = [room EXCEPT ![p] = ch]
    /\ scan' = [scan EXCEPT ![p] = Members[ch]]
    /\ ConcludeAll(p, Overdue, "stale")
    /\ UNCHANGED <<rows, outside, due, round, hit, cur, crashes>>

(* busy: true on the first round makes the caller hang up, on the second it *)
(* refuses with 409; false on the first round only leads to the second.     *)
FoundBusy(p) ==
    IF round[p] = 1
      THEN /\ GoTo(p, "hang")
           /\ hit' = [hit EXCEPT ![p] = None]
           /\ UNCHANGED <<who, room, round, scan, todo, cur, after>>
      ELSE Finish(p)

FoundFree(p) ==
    /\ GoTo(p, IF round[p] = 1 THEN "query" ELSE "create")
    /\ round' = [round EXCEPT ![p] = 2]

(* One member's lock was dealt with: the next member, or the end of the loop. *)
NextMember(p, u) ==
    /\ scan' = [scan EXCEPT ![p] = @ \ {u}]
    /\ hit' = [hit EXCEPT ![p] = None]
    /\ IF scan[p] \ {u} # {} THEN UNCHANGED <<pc, round>>
       ELSE IF pc[p] = "stale" THEN GoTo(p, "query") /\ UNCHANGED round
       ELSE FoundFree(p)
    /\ UNCHANGED <<who, room, todo, cur, after>>

(* clearStaleBusy and the lock loop of busy: getCallBusy ... *)
ReadLock(p) ==
    /\ pc[p] \in {"stale", "scan"}
    /\ hit[p] = None
    /\ \E u \in scan[p] :
          \/ /\ busy[u] = None
             /\ NextMember(p, u)
          \/ /\ busy[u] # None
             /\ hit' = [hit EXCEPT ![p] = <<u, busy[u]>>]
             /\ UNCHANGED <<pc, who, room, round, scan, todo, cur, after>>
    /\ UNCHANGED <<rows, outside, due, crashes>>

(* Mutant: a lock is believed without a look at the call. *)
TrustsLock(p) ==
    /\ pc[p] \in {"stale", "scan"}
    /\ hit[p] # None
    /\ IF pc[p] = "stale" THEN NextMember(p, hit[p][1]) ELSE FoundBusy(p)
    /\ UNCHANGED <<rows, outside, due, crashes>>

(* ... then the call it named, and the lock goes if that call is not live. *)
JudgeLock(p) ==
    /\ pc[p] \in {"stale", "scan"}
    /\ hit[p] # None
    /\ LET u == hit[p][1]
           c == hit[p][2] IN
          \/ /\ status[c] \notin Live
             /\ busy' = [busy EXCEPT ![u] = None]
             /\ NextMember(p, u)
          \/ /\ status[c] \in Live
             /\ IF pc[p] = "stale" THEN NextMember(p, u) ELSE FoundBusy(p)
             /\ UNCHANGED busy
    /\ UNCHANGED <<rows, log, told, due, crashes>>

(* Mutant: only answered calls make somebody busy. *)
QueriesActive(p) ==
    /\ pc[p] = "query"
    /\ IF \E c \in CallIds, u \in Members[room[p]] : status[c] = "active" /\ Occupied(u, c)
         THEN FoundBusy(p)
         ELSE /\ GoTo(p, "scan")
              /\ scan' = [scan EXCEPT ![p] = Members[room[p]]]
              /\ UNCHANGED <<who, room, round, hit, todo, cur, after>>
    /\ UNCHANGED <<rows, outside, due, crashes>>

(* busy: the findOne over live rows, by seats not left *)
BusyQuery(p) ==
    /\ pc[p] = "query"
    /\ IF \E c \in CallIds, u \in Members[room[p]] : Occupied(u, c)
         THEN FoundBusy(p)
         ELSE /\ GoTo(p, "scan")
              /\ scan' = [scan EXCEPT ![p] = Members[room[p]]]
              /\ UNCHANGED <<who, room, round, hit, todo, cur, after>>
    /\ UNCHANGED <<rows, outside, due, crashes>>

(* hangupAllForUser(viewer), then clearStaleBusy and busy once more *)
HangLeftovers(p) ==
    /\ pc[p] = "hang"
    /\ ConcludeAll(p, LeftoversOf(who[p]), "stale")
    /\ round' = [round EXCEPT ![p] = 2]
    /\ scan' = [scan EXCEPT ![p] = Members[room[p]]]
    /\ UNCHANGED <<rows, outside, due, who, room, hit, cur, crashes>>

CreateCall(p) ==
    /\ pc[p] = "create"
    /\ \E c \in Unused :
          /\ status' = [status EXCEPT ![c] = "ringing"]
          /\ chat' = [chat EXCEPT ![c] = room[p]]
          /\ by' = [by EXCEPT ![c] = who[p]]
          /\ joined' = [joined EXCEPT ![c] = {who[p]}]
          /\ cur' = [cur EXCEPT ![p] = <<c, "none">>]
    /\ GoTo(p, "mark")
    /\ UNCHANGED <<left, answered, ended, outside, due, who, room, round, scan, hit, todo,
                   after, crashes>>

(* setCallBusy for every member: one batch on the one Redis connection *)
MarkBusy(p) ==
    /\ pc[p] = "mark"
    /\ busy' = [u \in Users |-> IF u \in Members[room[p]] THEN cur[p][1] ELSE busy[u]]
    /\ GoTo(p, "post")
    /\ UNCHANGED <<rows, log, told, due, who, room, round, scan, hit, todo, cur, after, crashes>>

PostLog(p) ==
    /\ pc[p] = "post"
    /\ log' = [log EXCEPT ![cur[p][1]] = "call"]
    /\ Finish(p)
    /\ UNCHANGED <<rows, busy, told, due, crashes>>

-----------------------------------------------------------------------------
(* accept, decline, end, call:join: load the row, then save *)

Load(p, u, c, l) ==
    /\ who' = [who EXCEPT ![p] = u]
    /\ cur' = [cur EXCEPT ![p] = <<c, "none">>]
    /\ GoTo(p, l)
    /\ UNCHANGED <<rows, outside, due, room, round, scan, hit, todo, after, crashes>>

(* Mutant: the caller may answer the call. *)
AnyoneAccepts(p, u, c) ==
    /\ Begin(p)
    /\ u \in Seats(c)
    /\ status[c] = "ringing"
    /\ Load(p, u, c, "accept")

Accept(p, u, c) ==
    /\ Begin(p)
    /\ u \in Seats(c) \ {by[c]}
    /\ status[c] = "ringing"
    /\ Load(p, u, c, "accept")

(* Mutant: the call keeps ringing. *)
KeepsRinging(p) ==
    /\ pc[p] = "accept"
    /\ LET c == cur[p][1] IN
          /\ answered' = answered \cup {c}
          /\ joined' = [joined EXCEPT ![c] = @ \cup {who[p]}]
    /\ Finish(p)
    /\ UNCHANGED <<status, chat, by, left, ended, outside, due, crashes>>

AcceptSave(p) ==
    /\ pc[p] = "accept"
    /\ LET c == cur[p][1] IN
          /\ status' = [status EXCEPT ![c] = "active"]
          /\ answered' = answered \cup {c}
          /\ joined' = [joined EXCEPT ![c] = @ \cup {who[p]}]
    /\ Finish(p)
    /\ UNCHANGED <<chat, by, left, ended, outside, due, crashes>>

Decline(p, u, c) ==
    /\ Begin(p)
    /\ u \in Seats(c) \ {by[c]}
    /\ status[c] = "ringing"
    /\ Load(p, u, c, "decline")

(* Drop the viewer's lock; a direct call is concluded, a group call left. *)
DeclineUnlock(p) ==
    /\ pc[p] = "decline"
    /\ busy' = [busy EXCEPT ![who[p]] = None]
    /\ IF chat[cur[p][1]] \in Groups
         THEN GoTo(p, "leave") /\ UNCHANGED <<todo, after>>
         ELSE ConcludeAll(p, {<<cur[p][1], "declined">>}, "idle")
    /\ UNCHANGED <<rows, log, told, due, who, room, round, scan, hit, cur, crashes>>

DeclineLeave(p) ==
    /\ pc[p] = "leave"
    /\ left' = [left EXCEPT ![cur[p][1]] = @ \cup {who[p]}]
    /\ Finish(p)
    /\ UNCHANGED <<status, chat, by, joined, answered, ended, outside, due, crashes>>

End(p, u, c) ==
    /\ Begin(p)
    /\ u \in Seats(c)
    /\ status[c] \in Live
    /\ ConcludeAll(p, {<<c, FinishStatus(c, u)>>}, "idle")
    /\ UNCHANGED <<rows, outside, due, who, room, round, scan, hit, cur, crashes>>

(* A hang-up of a call that is already over tells everyone again. *)
EndAgain(p, u, c) ==
    /\ Begin(p)
    /\ u \in Seats(c)
    /\ status[c] \in Final
    /\ told' = told \cup {c}
    /\ UNCHANGED <<rows, busy, log, due, handlers, crashes>>

Join(p, u, c) ==
    /\ Begin(p)
    /\ u \in Seats(c) \ joined[c]
    /\ Load(p, u, c, "join")

JoinSave(p) ==
    /\ pc[p] = "join"
    /\ joined' = [joined EXCEPT ![cur[p][1]] = @ \cup {who[p]}]
    /\ Finish(p)
    /\ UNCHANGED <<status, chat, by, left, answered, ended, outside, due, crashes>>

-----------------------------------------------------------------------------
(* Timers, the clock and the process itself *)

(* hangupIfDisconnected fired and the user has no socket left *)
Hangup(p, u) ==
    /\ Begin(p)
    /\ LeftoversOf(u) # {}
    /\ ConcludeAll(p, LeftoversOf(u), "idle")
    /\ UNCHANGED <<rows, outside, due, who, room, round, scan, hit, cur, crashes>>

ExpireTick ==
    /\ Begin(Timer)
    /\ Overdue # {}
    /\ ConcludeAll(Timer, Overdue, "idle")
    /\ UNCHANGED <<rows, outside, due, who, room, round, scan, hit, cur, crashes>>

RingsOut(c) ==
    /\ status[c] = "ringing"
    /\ c \notin due
    /\ due' = due \cup {c}
    /\ UNCHANGED <<rows, outside, handlers, crashes>>

(* EX of call:busy *)
LockExpires(u) ==
    /\ busy[u] # None
    /\ busy' = [busy EXCEPT ![u] = None]
    /\ UNCHANGED <<rows, log, told, due, handlers, crashes>>

(* The server stops and comes back: rows and Redis stay, handlers are gone. *)
Crash ==
    /\ crashes < MaxCrashes
    /\ crashes' = crashes + 1
    /\ pc' = [p \in Procs |-> "idle"]
    /\ who' = [p \in Procs |-> None]
    /\ room' = [p \in Procs |-> None]
    /\ round' = [p \in Procs |-> 1]
    /\ scan' = [p \in Procs |-> {}]
    /\ hit' = [p \in Procs |-> None]
    /\ todo' = [p \in Procs |-> {}]
    /\ cur' = [p \in Procs |-> None]
    /\ after' = [p \in Procs |-> "idle"]
    /\ UNCHANGED <<rows, outside, due>>

-----------------------------------------------------------------------------
Request(p) ==
    \/ \E u \in Users, ch \in Chats : Start(p, u, ch)
    \/ \E u \in Users, c \in CallIds :
          Accept(p, u, c) \/ Decline(p, u, c) \/ End(p, u, c) \/ EndAgain(p, u, c) \/ Join(p, u, c)
    \/ \E u \in Users : Hangup(p, u)

Concluding(p) == ConcludeSave(p) \/ ConcludeUnlock(p) \/ ConcludeLog(p) \/ ConcludeTell(p)

Starting(p) == \/ ReadLock(p) \/ JudgeLock(p) \/ BusyQuery(p) \/ HangLeftovers(p)
               \/ CreateCall(p) \/ MarkBusy(p) \/ PostLog(p)

Continue(p) == \/ Concluding(p) \/ Starting(p)
               \/ AcceptSave(p) \/ DeclineUnlock(p) \/ DeclineLeave(p) \/ JoinSave(p)

Next ==
    \/ \E p \in Requests : Request(p)
    \/ \E p \in Procs : Continue(p)
    \/ ExpireTick
    \/ \E c \in CallIds : RingsOut(c)
    \/ \E u \in Users : LockExpires(u)
    \/ Crash

Spec == Init /\ [][Next]_vars

(* An await is answered, the interval keeps firing and time passes.  No      *)
(* fairness is asked of users, of lock expiry or of crashes.                 *)
Fairness ==
    /\ \A p \in Procs : WF_vars(Continue(p))
    /\ WF_vars(ExpireTick)
    /\ \A c \in CallIds : WF_vars(RingsOut(c))

FairSpec == Spec /\ Fairness
-----------------------------------------------------------------------------
(* Safety with every interleaving *)

(* conclude leaves no row half closed: a finished call has an end time and   *)
(* nobody's seat open, and no late save of another handler reopens a seat.   *)
ConcludedIsComplete ==
    \A c \in CallIds :
        /\ status[c] \in Final => c \in ended
        /\ c \in ended => left[c] = Seats(c)

(* A call counts as answered or as talked (ended) only when somebody other   *)
(* than the caller picked it up, whatever copies the handlers decided from.  *)
AnsweredIsBacked ==
    \A c \in CallIds :
        status[c] \in {"active", "ended"} => c \in answered /\ joined[c] \ {by[c]} # {}

(* A call still rings only while nobody answered, hung up or timed it out,   *)
(* so expireRings can only ever turn an unanswered call into a missed one.   *)
RingingIsFresh ==
    \A c \in CallIds :
        status[c] = "ringing" => c \notin answered \cup ended /\ by[c] \notin left[c]

(* start refuses with 409 only while a live call seats a member of the chat: *)
(* a lock left behind by a finished call or by a crash never refuses one.    *)
Refused(p) ==
    /\ pc[p] \in {"query", "scan"}
    /\ round[p] = 2
    /\ pc'[p] = "idle"
    /\ crashes' = crashes

ConflictIsReal ==
    [][\A p \in Procs : Refused(p) =>
         \E c \in CallIds : status[c] \in Live /\ Seats(c) \cap Members[room[p]] # {}]_vars

(* What makes the above inductive: what each handler still holds, and what   *)
(* the copies it decided from have in common with the rows.                  *)

Starters == {"stale", "query", "scan", "hang", "create", "mark", "post"}
Loaded   == {"accept", "decline", "leave", "join"}

(* A handler has the local variables its next step needs. *)
HandlerShape ==
    \A p \in Procs :
        /\ pc[p] \in {"unlock", "log", "tell"} => cur[p] \in Work
        /\ pc[p] \in Loaded \cup {"mark", "post"} => cur[p] \in CallIds \X {"none"}
        /\ pc[p] \in Loaded => who[p] \in Users
        /\ pc[p] \in Starters => after[p] = "stale"
        /\ pc[p] \in Loaded \cup {"idle"} => after[p] = "idle"
        /\ after[p] = "stale" =>
              /\ room[p] \in Chats /\ scan[p] \subseteq Members[room[p]]
              /\ who[p] \in Members[room[p]] /\ Members[room[p]] # {who[p]}
        /\ hit[p] # None => hit[p][1] \in scan[p] /\ pc[p] \in {"stale", "scan"}

(* A call nobody created is blank; an answered one was picked up by a callee. *)
RowsSound ==
    \A c \in CallIds :
        /\ status[c] = "none" => chat[c] = None /\ left[c] = {} /\ c \notin answered \cup ended
        /\ c \in answered => joined[c] \ {by[c]} # {}
        /\ status[c] = "active" => c \in answered
        /\ status[c] = "ended" => c \in answered

(* Pending verdicts and saves are about calls that exist, "ended" only about *)
(* answered ones, and the callee who answers or declines is not the caller.  *)
VerdictsSound ==
    \A p \in Procs :
        /\ \A k \in todo[p] : /\ status[k[1]] # "none"
                              /\ k[2] = "ended" => k[1] \in answered
        /\ pc[p] \in Loaded =>
              status[cur[p][1]] # "none" /\ who[p] \in Seats(cur[p][1])
        /\ pc[p] \in {"accept", "decline", "leave"} => who[p] # by[cur[p][1]]
        /\ pc[p] = "mark" => status[cur[p][1]] # "none" /\ chat[cur[p][1]] = room[p]

(* A lock, or one that was read, names a call its holder has a seat in. *)
LocksSound ==
    /\ \A u \in Users : busy[u] # None => status[busy[u]] # "none" /\ u \in Seats(busy[u])
    /\ \A p \in Procs : hit[p] # None =>
          status[hit[p][2]] # "none" /\ hit[p][1] \in Seats(hit[p][2])

IInv ==
    /\ TypeOK /\ HandlerShape /\ RowsSound /\ VerdictsSound /\ LocksSound
    /\ ConcludedIsComplete /\ RingingIsFresh

(* Every ring is resolved: by its members, the timer or the timer after a    *)
(* restart: expireRings works from the rows and not from memory.             *)
RingResolves == \A c \in CallIds : status[c] = "ringing" ~> status[c] # "ringing"

(* The members of a concluded call are told, unless the server went down.    *)
ConclusionTold == \A c \in CallIds : c \in ended ~> (c \in told \/ crashes > 0)

-----------------------------------------------------------------------------
(* Safety when handlers do not overlap *)

(* A user holds an open seat in at most one ringing or active call.          *)
OneSeatPerUser ==
    \A u \in Users, c, d \in CallIds : Occupied(u, c) /\ Occupied(u, d) => c = d

(* What makes it inductive: one handler runs, nobody takes a seat between    *)
(* its look at the rows and its new call, and the call it answers rings on.  *)
Alone ==
    /\ \A p, q \in Procs : pc[p] # "idle" /\ pc[q] # "idle" => p = q
    /\ \A p \in Procs :
          /\ pc[p] \in {"scan", "create"} =>
                \A u \in Members[room[p]], c \in CallIds : ~Occupied(u, c)
          /\ pc[p] \in {"accept", "decline", "leave"} => status[cur[p][1]] = "ringing"

Quiet == \A p \in Procs : pc[p] = "idle"

(* Between requests, with no restart, the chat's call message says what      *)
(* became of the call.                                                       *)
LogMatches ==
    Quiet /\ crashes = 0 =>
        \A c \in CallIds : log[c] = IF status[c] \in Live THEN "call" ELSE status[c]

(* What makes these inductive.  A verdict is one the row still asks for, and *)
(* no call has two of them ...                                               *)
Due(k) == \/ status[k[1]] = "active" /\ k[2] = "ended"
          \/ status[k[1]] = "ringing" /\ k[2] \in {"missed", "declined"}

VerdictsCurrent ==
    \A p \in Procs :
        /\ pc[p] \notin {"save", "unlock", "log", "tell"} => todo[p] = {}
        /\ \A k \in todo[p] : Due(k)
        /\ \A k, l \in todo[p] : k[1] = l[1] => k = l

(* ... and the message is behind its call only while the handler that saved  *)
(* the row has still to write it.                                            *)
Posting(p, c) == /\ pc[p] \in {"mark", "post"} /\ cur[p][1] = c
                 /\ status[c] = "ringing" /\ log[c] = "none"
Updating(p, c) == /\ pc[p] \in {"unlock", "log"} /\ cur[p] = <<c, status[c]>>
                  /\ log[c] # "none"
LogSays(c) == log[c] = IF status[c] \in Live THEN "call" ELSE status[c]

LogFollows ==
    crashes = 0 =>
        /\ \A c \in CallIds :
              LogSays(c) \/ \E p \in Procs : Posting(p, c) \/ Updating(p, c)
        /\ \A p \in Procs :
              /\ pc[p] \in {"mark", "post"} => Posting(p, cur[p][1])
              /\ pc[p] \in {"unlock", "log"} => Updating(p, cur[p][1])

(* One handler at a time, the calls are telephone lines: see PhoneLines.     *)
LineOf == [u \in Users |-> IF \E c \in CallIds : Occupied(u, c)
                             THEN CHOOSE c \in CallIds : Occupied(u, c) ELSE None]

Lines == INSTANCE PhoneLines WITH phase <- status, line <- LineOf

ImplementsLines == Lines!Spec

-----------------------------------------------------------------------------
(* What the documents and tests say and the code does not keep *)

(* README: one ringing or active call per user.                              *)
OneCallPerUser ==
    \A u \in Users, c, d \in CallIds :
        (status[c] \in Live /\ status[d] \in Live /\ u \in joined[c] \cap joined[d]) => c = d

=============================================================================
