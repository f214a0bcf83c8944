------------------------- MODULE NotificationsProofs -------------------------
(***************************************************************************)
(* Proofs about Notifications, for any number of users, handlers, rows,    *)
(* settings updates and restarts: what becomes of the messages counted for *)
(* the e-mail digest, and when the unread badge may be believed.           *)
(***************************************************************************)
EXTENDS Notifications, FiniteSetTheorems, SequenceTheorems, TLAPS

Unread(u) == {i \in DOMAIN notifications : notifications[i].user = u /\ ~notifications[i].read}

(* The unread rows are finitely many, so their count is a number. *)
LEMMA UnreadIsCounted ==
    ASSUME TypeOK, NEW u \in Users
    PROVE  unreadCount(u) \in Nat
<1>1. DOMAIN notifications = 1..Len(notifications) /\ Len(notifications) \in Nat
  BY LenProperties DEF TypeOK
<1>2. IsFiniteSet(1..Len(notifications))
  BY <1>1, FS_Interval
<1>3. IsFiniteSet(Unread(u))
  BY <1>1, <1>2, FS_Subset DEF Unread
<1> QED BY <1>3, FS_CardinalityType DEF unreadCount, Unread

LEMMA InitOK == Init => IInv
<1> SUFFICES ASSUME Init PROVE IInv
  OBVIOUS
<1>1. TypeOK
  <2>1. notifications \in Seq(Row)
    BY DEF Init
  <2>2. settings \in [Users -> [Switches -> BOOLEAN]]
    BY DEF Init, Defaults
  <2>3. task \in [Requests -> Task]
    <3>1. Idle \in Task
      BY DEF Idle, Task
    <3> QED BY <3>1 DEF Init
  <2>4. job \in [pc : {"idle", "look", "get", "take", "mail"}, todo : SUBSET Users,
                 user : Users \cup {None}, count : Nat]
    BY DEF Init, NoJob
  <2>5. \A r \in Requests : Fits(task[r], DOMAIN notifications)
    BY DEF Init, Idle, Fits
  <2> QED BY <2>1, <2>2, <2>3, <2>4, <2>5 DEF Init, TypeOK, NoJob
<1>2. DigestBalance
  BY DEF Init, DigestBalance, NoJob
<1>3. BadgeComes
  <2>1. ASSUME NEW u \in Users PROVE unreadCount(u) = 0
    <3>1. Unread(u) = {}
      BY DEF Init, Unread
    <3> QED BY <3>1, FS_EmptySet DEF unreadCount, Unread
  <2> QED BY <2>1 DEF Init, BadgeComes
<1> QED BY <1>1, <1>2, <1>3 DEF IInv

(* The recipient a handler is at. *)
LEMMA UserOfTask ==
    ASSUME TypeOK, NEW r \in Requests, task[r].pc # "idle"
    PROVE  /\ User(r) \in Users
           /\ Tail(task[r].todo) \in Seq(Users)
<1>1. task[r] \in Task /\ Fits(task[r], DOMAIN notifications)
  BY DEF TypeOK
<1>2. task[r].todo \in Seq(Users) /\ task[r].todo # <<>>
  BY <1>1 DEF Task, Fits
<1> QED BY <1>2, HeadTailProperties DEF User

LEMMA NextUserTyped ==
    ASSUME TypeOK, NEW r \in Requests, task[r].pc # "idle", NextUser(r),
           DOMAIN notifications' = DOMAIN notifications
    PROVE  /\ task' \in [Requests -> Task]
           /\ \A q \in Requests : Fits(task'[q], DOMAIN notifications')
           /\ task'[r].pc \in {"idle", "notify"}
           /\ \A q \in Requests \ {r} : task'[q] = task[q]
<1>1. Tail(task[r].todo) \in Seq(Users)
  BY UserOfTask
<1>2. task \in [Requests -> Task]
  BY DEF TypeOK
<1>3. task[r] \in Task
  BY <1>2
<1> DEFINE next == [Idle EXCEPT !.pc = "notify", !.type = task[r].type, !.todo = Tail(task[r].todo)]
<1>4. next \in Task
  BY <1>1, <1>3 DEF Task, Idle
<1>5. Idle \in Task
  BY DEF Idle, Task
<1>6. task' = [task EXCEPT ![r] = IF Tail(task[r].todo) = <<>> THEN Idle ELSE next]
  BY DEF NextUser
<1>7. task' \in [Requests -> Task]
  BY <1>2, <1>4, <1>5, <1>6
<1>8. \A q \in Requests \ {r} : task'[q] = task[q]
  BY <1>2, <1>6
<1>9. /\ task'[r].pc \in {"idle", "notify"}
      /\ task'[r].pc # "idle" => task'[r].todo # <<>>
  <2>1. CASE Tail(task[r].todo) = <<>>
    BY <1>2, <1>6, <2>1 DEF Idle
  <2>2. CASE Tail(task[r].todo) # <<>>
    <3>1. task'[r] = next
      BY <1>2, <1>6, <2>2
    <3>2. next.pc = "notify" /\ next.todo = Tail(task[r].todo)
      BY DEF Idle
    <3> QED BY <2>2, <3>1, <3>2
  <2> QED BY <2>1, <2>2
<1>10. \A q \in Requests \ {r} : Fits(task'[q], DOMAIN notifications')
  BY <1>8 DEF TypeOK
<1>11. Fits(task'[r], DOMAIN notifications')
  BY <1>9 DEF Fits
<1> QED BY <1>7, <1>8, <1>9, <1>10, <1>11

(* A step that moves one handler on, to a place where what it carries fits. *)
LEMMA TasksTyped ==
    ASSUME TypeOK, NEW r \in Requests, NEW new \in Task, task' = [task EXCEPT ![r] = new],
           DOMAIN notifications \subseteq DOMAIN notifications',
           Fits(new, DOMAIN notifications')
    PROVE  /\ task' \in [Requests -> Task]
           /\ \A q \in Requests : Fits(task'[q], DOMAIN notifications')
           /\ task'[r] = new
           /\ \A q \in Requests \ {r} : task'[q] = task[q]
<1>1. task \in [Requests -> Task] /\ \A q \in Requests : Fits(task[q], DOMAIN notifications)
  BY DEF TypeOK
<1>2. \A q \in Requests : Fits(task[q], DOMAIN notifications')
  BY <1>1 DEF Fits
<1> QED BY <1>1, <1>2

(* Every action of a handler keeps the types. *)
LEMMA EventTyped ==
    ASSUME TypeOK, NEW r \in Requests, Handler(r)
    PROVE  TypeOK'
<1>1. /\ task[r] \in Task /\ Idle \in Task /\ task \in [Requests -> Task]
      /\ Fits(task[r], DOMAIN notifications)
  BY DEF TypeOK, Idle, Task
<1>2. CASE SkipUser(r)
  <2>1. task[r].pc # "idle" /\ NextUser(r) /\ notifications' = notifications
    BY <1>2 DEF SkipUser, rows
  <2> QED BY <1>2, <2>1, NextUserTyped DEF SkipUser, TypeOK, rows, digest, bounds
<1>3. CASE notify(r)
  <2> DEFINE u == User(r)
             new == [user |-> u, read |-> FALSE, emailed |-> FALSE]
             pc == IF task[r].type = "message" /\ settings[u]["unreadDigest"] THEN "bump" ELSE "count"
             next == [task[r] EXCEPT !.row = Len(notifications'), !.pc = pc]
  <2>1. u \in Users /\ new \in Row /\ notifications' = Append(notifications, new)
    BY <1>3, UserOfTask DEF notify, Row
  <2>2. /\ notifications' \in Seq(Row)
        /\ Len(notifications') \in Nat
        /\ DOMAIN notifications \subseteq DOMAIN notifications'
        /\ Len(notifications') \in DOMAIN notifications'
    BY <2>1, AppendProperties, LenProperties DEF TypeOK
  <2>3. next \in Task /\ next.todo = task[r].todo
    BY <1>1, <2>2 DEF Task
  <2>4. next.pc \in {"bump", "count"} /\ next.row = Len(notifications') /\ next.type = task[r].type
    BY <1>1 DEF Task
  <2>5. next.pc = "bump" => next.type # "read"
    BY <2>4 DEF Task
  <2>6. Fits(next, DOMAIN notifications')
    <3>1. task[r].todo # <<>>
      BY <1>1, <1>3 DEF notify, Fits
    <3> QED BY <2>2, <2>3, <2>4, <2>5, <3>1 DEF Fits
  <2>7. task' = [task EXCEPT ![r] = next]
    BY <1>1, <1>3 DEF notify
  <2> HIDE DEF next, new
  <2>8. /\ task' \in [Requests -> Task]
        /\ \A q \in Requests : Fits(task'[q], DOMAIN notifications')
    BY <2>2, <2>3, <2>6, <2>7, TasksTyped
  <2> QED BY <1>3, <2>2, <2>8 DEF notify, TypeOK, digest, bounds
<1>4. CASE bumpUnreadDigest(r)
  <2> DEFINE next == [task[r] EXCEPT !.pc = "count"]
  <2>1. /\ next \in Task /\ next.pc = "count" /\ next.todo = task[r].todo
        /\ next.type = task[r].type /\ next.row = task[r].row
    BY <1>1 DEF Task
  <2>2. task' = [task EXCEPT ![r] = next] /\ notifications' = notifications
    BY <1>1, <1>4 DEF bumpUnreadDigest, Goto, rows
  <2>3. Fits(next, DOMAIN notifications)
    BY <1>1, <1>4, <2>1 DEF bumpUnreadDigest, Fits
  <2> HIDE DEF next
  <2>4. /\ task' \in [Requests -> Task]
        /\ \A q \in Requests : Fits(task'[q], DOMAIN notifications')
    BY <2>1, <2>2, <2>3, TasksTyped
  <2>5. User(r) \in Users
    BY <1>4, UserOfTask DEF bumpUnreadDigest
  <2>6. counter' \in [Users -> Nat] /\ owed' \in [Users -> Nat] /\ pending' \subseteq Users
    BY <1>4, <2>5 DEF bumpUnreadDigest, TypeOK
  <2> QED BY <1>4, <2>4, <2>6 DEF bumpUnreadDigest, TypeOK, rows, bounds
<1>5. CASE Count(r)
  <2> DEFINE next == [task[r] EXCEPT !.pc = "badge", !.count = unreadCount(User(r))]
  <2>1. unreadCount(User(r)) \in Nat
    BY <1>5, UserOfTask, UnreadIsCounted DEF Count
  <2>2. /\ next \in Task /\ next.pc = "badge" /\ next.todo = task[r].todo
        /\ next.type = task[r].type /\ next.row = task[r].row
    BY <1>1, <2>1 DEF Task
  <2>3. task' = [task EXCEPT ![r] = next] /\ notifications' = notifications
    BY <1>1, <1>5 DEF Count, rows
  <2>4. Fits(next, DOMAIN notifications)
    BY <1>1, <1>5, <2>2 DEF Count, Fits
  <2> HIDE DEF next
  <2>5. /\ task' \in [Requests -> Task]
        /\ \A q \in Requests : Fits(task'[q], DOMAIN notifications')
    BY <2>2, <2>3, <2>4, TasksTyped
  <2> QED BY <1>5, <2>5 DEF Count, TypeOK, rows, digest, bounds
<1>6. CASE emitBadge(r)
  <2>1. User(r) \in Users /\ task[r].count \in Nat
    BY <1>1, <1>6, UserOfTask DEF emitBadge, Task
  <2>2. badge' \in [Users -> Nat] /\ late' \subseteq Users /\ notifications' = notifications
    BY <1>6, <2>1 DEF emitBadge, TypeOK, rows
  <2>3. /\ task' \in [Requests -> Task]
        /\ \A q \in Requests : Fits(task'[q], DOMAIN notifications')
    <3>1. CASE task[r].type = "missed_call"
      <4> DEFINE next == [task[r] EXCEPT !.pc = "email"]
      <4>1. /\ next \in Task /\ next.pc = "email" /\ next.todo = task[r].todo
            /\ next.type = task[r].type /\ next.row = task[r].row
        BY <1>1 DEF Task
      <4>2. task' = [task EXCEPT ![r] = next]
        BY <1>1, <1>6, <3>1 DEF emitBadge, Goto
      <4>3. Fits(next, DOMAIN notifications)
        BY <1>1, <1>6, <3>1, <4>1 DEF emitBadge, Fits
      <4> HIDE DEF next
      <4> QED BY <2>2, <4>1, <4>2, <4>3, TasksTyped
    <3>2. CASE task[r].type # "missed_call"
      <4>1. task[r].pc # "idle" /\ NextUser(r)
        BY <1>6, <3>2 DEF emitBadge
      <4> QED BY <2>2, <4>1, NextUserTyped
    <3> QED BY <3>1, <3>2
  <2> QED BY <1>6, <2>2, <2>3 DEF emitBadge, TypeOK, rows, digest, bounds
<1>7. CASE maybeEmailMissedCall(r)
  <2>1. task[r].pc = "email" /\ task[r].row \in DOMAIN notifications
    BY <1>1, <1>7 DEF maybeEmailMissedCall, Fits
  <2>2. PICK sent \in BOOLEAN : notifications' = [notifications EXCEPT ![task[r].row].emailed = sent]
    BY <1>7 DEF maybeEmailMissedCall
  <2>3. notifications[task[r].row] \in Row
    BY <2>1, ElementOfSeq, LenProperties DEF TypeOK
  <2>4. [notifications[task[r].row] EXCEPT !.emailed = sent] \in Row
    BY <2>3 DEF Row
  <2>5. notifications' = [notifications EXCEPT ![task[r].row] = [notifications[task[r].row] EXCEPT !.emailed = sent]]
    BY <2>2
  <2>6. notifications' \in Seq(Row) /\ DOMAIN notifications' = DOMAIN notifications
    BY <2>1, <2>4, <2>5, ExceptSeq, LenProperties DEF TypeOK
  <2>7. task[r].pc # "idle" /\ NextUser(r)
    BY <1>7 DEF maybeEmailMissedCall
  <2>8. /\ task' \in [Requests -> Task]
        /\ \A q \in Requests : Fits(task'[q], DOMAIN notifications')
    BY <2>6, <2>7, NextUserTyped
  <2> QED BY <1>7, <2>6, <2>8 DEF maybeEmailMissedCall, TypeOK, digest, bounds
<1>8. CASE SaveSettings(r)
  <2>1. User(r) \in Users
    BY <1>8, UserOfTask DEF SaveSettings
  <2>2. task[r].copy \in [Switches -> BOOLEAN]
    BY <1>1, <1>8 DEF SaveSettings, Fits, Task
  <2>3. task' = [task EXCEPT ![r] = Idle] /\ notifications' = notifications
    BY <1>8 DEF SaveSettings
  <2>4. Fits(Idle, DOMAIN notifications)
    BY DEF Idle, Fits
  <2>5. /\ task' \in [Requests -> Task]
        /\ \A q \in Requests : Fits(task'[q], DOMAIN notifications')
    BY <1>1, <2>3, <2>4, TasksTyped
  <2> QED BY <1>8, <2>1, <2>2, <2>5 DEF SaveSettings, TypeOK, digest, bounds
<1> QED BY <1>2, <1>3, <1>4, <1>5, <1>6, <1>7, <1>8 DEF Handler

(* The requests of the users, the cron job and a crash keep the types.      *)
LEMMA RequestTyped ==
    ASSUME TypeOK, NEW r \in Requests,
           \/ \E type \in Types, us \in Recipients : Hear(r, type, us)
           \/ \E u \in Callers : \E ids \in {DOMAIN notifications} \cup {{i} : i \in DOMAIN notifications} :
                 MarkRead(r, u, ids)
           \/ \E u \in Callers, s \in Switches, value \in BOOLEAN : LoadSettings(r, u, s, value)
    PROVE  TypeOK'
<1>1. Idle \in Task /\ task \in [Requests -> Task]
  BY DEF TypeOK, Idle, Task
<1>2. ASSUME NEW type \in Types, NEW us \in Recipients, Hear(r, type, us) PROVE TypeOK'
  <2> DEFINE next == [Idle EXCEPT !.pc = "notify", !.type = type, !.todo = us]
  <2>1. PICK n \in 1..Cardinality(Users) : us \in [1..n -> Users]
    BY DEF Recipients
  <2>2. us \in Seq(Users) /\ us # <<>>
    BY <2>1, IsASeq, EmptySeq, LenProperties
  <2>3. next \in Task /\ next.pc = "notify" /\ next.todo = us
    BY <2>2 DEF Task, Idle
  <2>4. Fits(next, DOMAIN notifications)
    BY <2>2, <2>3 DEF Fits
  <2>5. task' = [task EXCEPT ![r] = next] /\ notifications' = notifications
    BY <1>2 DEF Hear, rows
  <2> HIDE DEF next
  <2>6. /\ task' \in [Requests -> Task]
        /\ \A q \in Requests : Fits(task'[q], DOMAIN notifications')
    BY <2>3, <2>4, <2>5, TasksTyped
  <2> QED BY <1>2, <2>6 DEF Hear, TypeOK, rows, digest, bounds
<1>3. ASSUME NEW u \in Callers, NEW ids, MarkRead(r, u, ids) PROVE TypeOK'
  <2> DEFINE hit == {i \in ids : notifications[i].user = u /\ ~notifications[i].read}
             us == <<u>>
             next == [Idle EXCEPT !.pc = "count", !.type = "read", !.todo = us]
  <2>1. u \in Users
    BY NotificationsAssumption
  <2>2. next \in Task /\ next.pc = "count" /\ next.type = "read" /\ next.todo = us /\ us # <<>>
    <3>1. us \in Seq(Users) /\ us # <<>>
      BY <2>1
    <3> HIDE DEF us
    <3> QED BY <3>1 DEF Task, Idle
  <2>3. Fits(next, DOMAIN notifications)
    BY <2>2 DEF Fits
  <2>4. task' = [task EXCEPT ![r] = next]
    BY <1>3 DEF MarkRead
  <2>5. notifications' = [i \in DOMAIN notifications |->
              IF i \in hit THEN [notifications[i] EXCEPT !.read = TRUE] ELSE notifications[i]]
    BY <1>3 DEF MarkRead
  <2>6. \A i \in DOMAIN notifications : notifications'[i] \in Row
    <3>1. \A i \in DOMAIN notifications : notifications[i] \in Row
      BY ElementOfSeq, LenProperties DEF TypeOK
    <3>2. \A i \in DOMAIN notifications : [notifications[i] EXCEPT !.read = TRUE] \in Row
      BY <3>1 DEF Row
    <3> QED BY <2>5, <3>1, <3>2
  <2>7. notifications' \in Seq(Row) /\ DOMAIN notifications' = DOMAIN notifications
    <3>1. DOMAIN notifications = 1..Len(notifications) /\ Len(notifications) \in Nat
      BY LenProperties DEF TypeOK
    <3>2. notifications' \in [1..Len(notifications) -> Row]
      BY <2>5, <2>6, <3>1
    <3> QED BY <2>5, <3>1, <3>2, IsASeq
  <2> HIDE DEF next
  <2>8. /\ task' \in [Requests -> Task]
        /\ \A q \in Requests : Fits(task'[q], DOMAIN notifications')
    BY <2>2, <2>3, <2>4, <2>7, TasksTyped
  <2> QED BY <1>3, <2>7, <2>8 DEF MarkRead, TypeOK, digest, bounds
<1>4. ASSUME NEW u \in Callers, NEW s \in Switches, NEW value \in BOOLEAN, LoadSettings(r, u, s, value)
      PROVE  TypeOK'
  <2> DEFINE copy == [settings[u] EXCEPT ![s] = value]
             us == <<u>>
             next == [Idle EXCEPT !.pc = "save", !.todo = us, !.copy = copy]
  <2>1. u \in Users /\ settings[u] \in [Switches -> BOOLEAN]
    BY NotificationsAssumption DEF TypeOK
  <2>2. copy \in [Switches -> BOOLEAN]
    BY <2>1
  <2>3. copy # <<>>
    <3>1. DOMAIN copy = Switches
      BY <2>2
    <3>2. DOMAIN <<>> = {}
      OBVIOUS
    <3> QED BY <3>1, <3>2
  <2> HIDE DEF copy
  <2>4. next \in Task /\ next.pc = "save" /\ next.todo = us /\ us # <<>> /\ next.copy = copy
    <3>1. us \in Seq(Users) /\ us # <<>>
      BY <2>1
    <3> HIDE DEF us
    <3> QED BY <2>2, <3>1 DEF Task, Idle
  <2>5. Fits(next, DOMAIN notifications)
    BY <2>3, <2>4 DEF Fits
  <2>6. task' = [task EXCEPT ![r] = next] /\ notifications' = notifications
    BY <1>4 DEF LoadSettings, rows, copy
  <2> HIDE DEF next
  <2>7. /\ task' \in [Requests -> Task]
        /\ \A q \in Requests : Fits(task'[q], DOMAIN notifications')
    BY <2>4, <2>5, <2>6, TasksTyped
  <2>8. patches' \in Nat /\ UNCHANGED <<rows, digest, badge, job, late, crashes>>
    <3>1. patches' = patches + 1 /\ UNCHANGED <<rows, digest, badge, job, late, crashes>>
      BY <1>4, Zenon DEF LoadSettings
    <3>2. patches \in Nat
      BY DEF TypeOK
    <3> QED BY <3>1, <3>2
  <2> QED BY <2>7, <2>8 DEF TypeOK, rows, digest
<1> QED BY <1>2, <1>3, <1>4

LEMMA JobTyped ==
    ASSUME TypeOK, DigestBalance, Digest
    PROVE  TypeOK'
<1> DEFINE Job == [pc : {"idle", "look", "get", "take", "mail"}, todo : SUBSET Users,
                   user : Users \cup {None}, count : Nat]
<1>1. job \in Job /\ NoJob \in Job
  BY DEF TypeOK, NoJob
<1>2. CASE pendingDigestUserIds
  <2>1. job' \in Job /\ job'.pc = "look"
    BY <1>1, <1>2 DEF pendingDigestUserIds, TypeOK, NoJob
  <2> QED BY <1>2, <2>1 DEF pendingDigestUserIds, TypeOK, rows, digest, bounds
<1>3. ASSUME NEW u \in Users, LookAt(u) PROVE TypeOK'
  <2>1. job' = [job EXCEPT !.pc = "get", !.todo = job.todo \ {u}, !.user = u]
    BY <1>3 DEF LookAt
  <2>2. job' \in Job /\ job'.user = u
    BY <1>1, <2>1
  <2> QED BY <1>3, <2>2 DEF LookAt, TypeOK, rows, digest, bounds
<1>4. CASE GetDigest
  <2>1. job.user \in Users /\ counter[job.user] \in Nat
    BY <1>4 DEF GetDigest, TypeOK
  <2>2. job' \in Job /\ job'.user = job.user
    BY <1>1, <1>4, <2>1 DEF GetDigest
  <2> QED BY <1>4, <2>1, <2>2 DEF GetDigest, TypeOK, rows, digest, bounds
<1>5. CASE TakeDigest
  <2>1. job.user \in Users /\ job.count \in Nat /\ counter[job.user] \in Nat
    BY <1>1, <1>5 DEF TakeDigest, TypeOK
  <2>2. owed[job.user] = counter[job.user]
    BY <1>5, <2>1 DEF TakeDigest, DigestBalance, TypeOK
  <2>3. owed[job.user] - (counter[job.user] - job.count) = job.count
    BY <2>1, <2>2
  <2>4. owed' \in [Users -> Nat] /\ counter' \in [Users -> Nat] /\ pending' \subseteq Users
    BY <1>5, <2>1, <2>3 DEF TakeDigest, TypeOK
  <2>5. job' \in Job /\ job'.user = job.user
    BY <1>1, <1>5 DEF TakeDigest
  <2> QED BY <1>5, <2>1, <2>4, <2>5 DEF TakeDigest, TypeOK, rows, bounds
<1>6. CASE sendUnreadDigest
  <2>1. job.user \in Users /\ job.count \in Nat /\ counter[job.user] \in Nat
    BY <1>1, <1>6 DEF sendUnreadDigest, TypeOK
  <2>2. owed[job.user] - job.count = counter[job.user]
    BY <1>6, <2>1 DEF sendUnreadDigest, DigestBalance, TypeOK
  <2>3. owed' \in [Users -> Nat]
    BY <1>6, <2>1, <2>2 DEF sendUnreadDigest, TypeOK
  <2>4. job' \in Job /\ job'.pc \in {"idle", "look"}
    BY <1>1, <1>6 DEF sendUnreadDigest, NextDigest, NoJob
  <2> QED BY <1>6, <2>3, <2>4 DEF sendUnreadDigest, TypeOK, rows, bounds
<1> QED BY <1>2, <1>3, <1>4, <1>5, <1>6 DEF Digest

LEMMA CrashTyped ==
    ASSUME TypeOK, DigestBalance, Crash
    PROVE  TypeOK'
<1>1. owed' \in [Users -> Nat]
  <2>1. CASE job.pc = "mail"
    <3>1. job.user \in Users /\ job.count \in Nat /\ counter[job.user] \in Nat
      BY <2>1 DEF TypeOK
    <3>2. owed[job.user] - job.count = counter[job.user]
      BY <2>1, <3>1 DEF DigestBalance, TypeOK
    <3> QED BY <2>1, <3>1, <3>2 DEF Crash, TypeOK
  <2>2. CASE job.pc # "mail"
    BY <2>2 DEF Crash, TypeOK
  <2> QED BY <2>1, <2>2
<1>2. task' \in [Requests -> Task] /\ \A r \in Requests : Fits(task'[r], DOMAIN notifications')
  BY DEF Crash, Idle, Task, Fits
<1>3. job' \in [pc : {"idle", "look", "get", "take", "mail"}, todo : SUBSET Users,
                user : Users \cup {None}, count : Nat] /\ job'.pc = "idle"
  BY DEF Crash, NoJob
<1> QED BY <1>1, <1>2, <1>3 DEF Crash, TypeOK, rows

LEMMA TypedStep ==
    ASSUME TypeOK, DigestBalance, [Next]_vars
    PROVE  TypeOK'
<1>1. CASE \E r \in Requests : Handler(r)
  BY <1>1, EventTyped
<1>2. CASE Digest
  BY <1>2, JobTyped
<1>3. CASE Crash
  BY <1>3, CrashTyped
<1>4. CASE UNCHANGED vars
  BY <1>4 DEF vars, rows, digest, bounds, TypeOK
<1> QED BY <1>1, <1>2, <1>3, <1>4, RequestTyped DEF Next

-----------------------------------------------------------------------------
(* The digest *)

LEMMA BalanceStep ==
    ASSUME TypeOK, DigestBalance, [Next]_vars
    PROVE  DigestBalance'
<1>1. counter \in [Users -> Nat] /\ owed \in [Users -> Nat] /\ job.count \in Nat
  BY DEF TypeOK
<1>2. CASE \E r \in Requests : bumpUnreadDigest(r)
  <2>1. PICK r \in Requests : bumpUnreadDigest(r)
    BY <1>2
  <2>2. User(r) \in Users
    BY <2>1, UserOfTask DEF bumpUnreadDigest
  <2>3. /\ counter' = [counter EXCEPT ![User(r)] = @ + 1]
        /\ owed' = [owed EXCEPT ![User(r)] = @ + 1]
        /\ job' = job
    BY <2>1 DEF bumpUnreadDigest
  <2> QED BY <1>1, <2>2, <2>3 DEF DigestBalance
<1>3. ASSUME UNCHANGED <<counter, owed>>, job.pc # "mail", job'.pc # "mail" PROVE DigestBalance'
  BY <1>3 DEF DigestBalance
<1>4. CASE UNCHANGED <<counter, owed, job>>
  BY <1>4 DEF DigestBalance
<1>5. CASE Digest
  <2>1. CASE pendingDigestUserIds
    BY <1>3, <2>1 DEF pendingDigestUserIds, digest, NoJob
  <2>2. ASSUME NEW u \in Users, LookAt(u) PROVE DigestBalance'
    <3>1. job'.pc = "get" /\ job.pc # "mail" /\ UNCHANGED <<counter, owed>>
      BY <2>2 DEF LookAt, digest, TypeOK
    <3> QED BY <1>3, <3>1
  <2>3. CASE GetDigest
    <3>1. job'.pc = "take" /\ job.pc # "mail" /\ UNCHANGED <<counter, owed>>
      BY <2>3 DEF GetDigest, digest, TypeOK
    <3> QED BY <1>3, <3>1
  <2>4. CASE TakeDigest
    <3>1. job.user \in Users /\ job.pc = "take"
      BY <2>4 DEF TakeDigest, TypeOK
    <3>2. job'.pc = "mail" /\ job'.user = job.user /\ job'.count = job.count
      BY <2>4 DEF TakeDigest, TypeOK
    <3>3. /\ counter' = [counter EXCEPT ![job.user] = 0]
          /\ owed' = [owed EXCEPT ![job.user] = owed[job.user] - (counter[job.user] - job.count)]
      BY <2>4 DEF TakeDigest
    <3>4. \A u \in Users : owed[u] = counter[u]
      BY <1>1, <3>1 DEF DigestBalance
    <3> QED BY <1>1, <3>1, <3>2, <3>3, <3>4 DEF DigestBalance
  <2>5. CASE sendUnreadDigest
    <3>1. job.user \in Users /\ job.pc = "mail"
      BY <2>5 DEF sendUnreadDigest, TypeOK
    <3>2. job'.pc # "mail"
      BY <2>5 DEF sendUnreadDigest, NextDigest, NoJob
    <3>3. counter' = counter /\ owed' = [owed EXCEPT ![job.user] = owed[job.user] - job.count]
      BY <2>5 DEF sendUnreadDigest
    <3> QED BY <1>1, <3>1, <3>2, <3>3 DEF DigestBalance
  <2> QED BY <1>5, <2>1, <2>2, <2>3, <2>4, <2>5 DEF Digest
<1>6. CASE Crash
  <2>1. job'.pc # "mail" /\ counter' = counter
    BY <1>6 DEF Crash, NoJob
  <2>2. CASE job.pc = "mail"
    <3>1. owed' = [owed EXCEPT ![job.user] = owed[job.user] - job.count] /\ job.user \in Users
      BY <1>6, <2>2 DEF Crash, TypeOK
    <3> QED BY <1>1, <2>1, <2>2, <3>1 DEF DigestBalance
  <2>3. CASE job.pc # "mail"
    BY <1>3, <1>6, <2>1, <2>3 DEF Crash
  <2> QED BY <2>2, <2>3
<1>7. CASE \E r \in Requests : Handler(r) /\ ~bumpUnreadDigest(r)
  BY <1>4, <1>7 DEF Handler, SkipUser, notify, Count, emitBadge, maybeEmailMissedCall, SaveSettings, digest
<1>8. CASE UNCHANGED vars
  BY <1>4, <1>8 DEF vars, digest
<1>9. ASSUME NEW r \in Requests,
             \/ \E type \in Types, us \in Recipients : Hear(r, type, us)
             \/ \E u \in Callers : \E ids \in {DOMAIN notifications} \cup {{i} : i \in DOMAIN notifications} :
                   MarkRead(r, u, ids)
             \/ \E u \in Callers, s \in Switches, value \in BOOLEAN : LoadSettings(r, u, s, value)
      PROVE  DigestBalance'
  BY <1>4, <1>9 DEF Hear, MarkRead, LoadSettings, digest
<1> QED BY <1>2, <1>5, <1>6, <1>7, <1>8, <1>9 DEF Next

-----------------------------------------------------------------------------
(* The badge *)

Sends(r, u) == task[r].pc \in {"bump", "count", "badge"} /\ User(r) = u

(* A user whose rows, badge and senders stay has a badge to come as before. *)
LEMMA StillComes ==
    ASSUME BadgeComes, NEW u \in Users,
           unreadCount(u)' = unreadCount(u), badge'[u] = badge[u], u \in late => u \in late',
           \A q \in Requests : Sends(q, u) => Sends(q, u)'
    PROVE  u \in late' \/ badge'[u] = unreadCount(u)' \/ \E r \in Requests : Sends(r, u)'
<1>1. u \in late \/ badge[u] = unreadCount(u) \/ \E r \in Requests : Sends(r, u)
  BY DEF BadgeComes, Sends
<1>2. CASE \E r \in Requests : Sends(r, u)
  BY <1>2
<1>3. CASE badge[u] = unreadCount(u)
  BY <1>3
<1>4. CASE u \in late
  BY <1>4
<1> QED BY <1>1, <1>2, <1>3, <1>4

(* The handlers but one stay where they are. *)
LEMMA OthersSend ==
    ASSUME NEW r \in Requests, \A q \in Requests \ {r} : task'[q] = task[q], NEW u,
           Sends(r, u) => Sends(r, u)'
    PROVE  \A q \in Requests : Sends(q, u) => Sends(q, u)'
  BY DEF Sends, User

LEMMA BadgeFollows ==
    ASSUME \A u \in Users : u \in late' \/ badge'[u] = unreadCount(u)' \/ \E r \in Requests : Sends(r, u)'
    PROVE  BadgeComes'
  BY DEF BadgeComes, Sends

(* unreadCount looks at the user and the read flag of the rows. *)
LEMMA UnreadSame ==
    ASSUME NEW u, DOMAIN notifications' = DOMAIN notifications,
           \A i \in DOMAIN notifications :
              (notifications'[i].user = u /\ ~notifications'[i].read)
                 <=> (notifications[i].user = u /\ ~notifications[i].read)
    PROVE  unreadCount(u)' = unreadCount(u)
<1>1. {i \in DOMAIN notifications' : notifications'[i].user = u /\ ~notifications'[i].read}
        = {i \in DOMAIN notifications : notifications[i].user = u /\ ~notifications[i].read}
  OBVIOUS
<1> QED BY <1>1 DEF unreadCount

LEMMA BadgeEvent ==
    ASSUME TypeOK, BadgeComes, NEW r \in Requests, Handler(r)
    PROVE  BadgeComes'
<1>1. task \in [Requests -> Task]
  BY DEF TypeOK
<1>2. CASE SkipUser(r)
  <2>1. /\ task[r].pc = "notify" /\ \A q \in Requests \ {r} : task'[q] = task[q]
        /\ UNCHANGED <<notifications, badge, late>>
    BY <1>1, <1>2 DEF SkipUser, NextUser, rows
  <2>2. ASSUME NEW u PROVE \A q \in Requests : Sends(q, u) => Sends(q, u)'
    BY <2>1, OthersSend DEF Sends
  <2>3. ASSUME NEW u PROVE unreadCount(u)' = unreadCount(u)
    BY <2>1 DEF unreadCount
  <2> QED BY <2>1, <2>2, <2>3, StillComes, BadgeFollows
<1>3. CASE notify(r)
  <2> DEFINE new == [user |-> User(r), read |-> FALSE, emailed |-> FALSE]
  <2>0. PICK v \in Users : v = User(r)
    BY <1>3, UserOfTask DEF notify
  <2>1. /\ notifications' = Append(notifications, new)
        /\ UNCHANGED <<badge, late>>
        /\ \A q \in Requests \ {r} : task'[q] = task[q]
        /\ task[r].pc = "notify"
    BY <1>1, <1>3 DEF notify
  <2>2. task'[r].pc \in {"bump", "count"} /\ task'[r].todo = task[r].todo
    <3>1. task[r] \in Task
      BY <1>1
    <3>2. task'[r] = [task[r] EXCEPT !.row = Len(notifications'),
                        !.pc = IF task[r].type = "message" /\ settings[User(r)]["unreadDigest"]
                                 THEN "bump" ELSE "count"]
      BY <1>1, <1>3 DEF notify
    <3> QED BY <3>1, <3>2 DEF Task
  <2>3. Sends(r, v)'
    BY <2>0, <2>2 DEF Sends, User
  <2>4. ASSUME NEW u, u # v PROVE unreadCount(u)' = unreadCount(u)
    <3>1. /\ DOMAIN notifications = 1..Len(notifications) /\ Len(notifications) \in Nat
          /\ DOMAIN notifications' = 1..(Len(notifications) + 1)
          /\ notifications'[Len(notifications) + 1] = new
          /\ \A i \in 1..Len(notifications) : notifications'[i] = notifications[i]
      <4>1. new \in Row
        BY <1>3, UserOfTask DEF notify, Row
      <4> QED BY <2>1, <4>1, AppendProperties, LenProperties DEF TypeOK
    <3>2. notifications'[Len(notifications) + 1].user # u
      BY <2>0, <2>4, <3>1
    <3>3. {i \in DOMAIN notifications' : notifications'[i].user = u /\ ~notifications'[i].read}
            = {i \in DOMAIN notifications : notifications[i].user = u /\ ~notifications[i].read}
      <4>1. \A i \in DOMAIN notifications' :
               i \in DOMAIN notifications \/ i = Len(notifications) + 1
        BY <3>1
      <4>2. DOMAIN notifications \subseteq DOMAIN notifications'
        BY <3>1
      <4> QED BY <3>1, <3>2, <4>1, <4>2
    <3> QED BY <3>3 DEF unreadCount
  <2>5. ASSUME NEW u PROVE \A q \in Requests : Sends(q, u) => Sends(q, u)'
    BY <2>1, OthersSend DEF Sends
  <2>6. ASSUME NEW u \in Users
        PROVE  u \in late' \/ badge'[u] = unreadCount(u)' \/ \E q \in Requests : Sends(q, u)'
    <3>1. CASE u = v
      BY <2>3, <3>1
    <3>2. CASE u # v
      BY <2>1, <2>4, <2>5, <3>2, StillComes
    <3> QED BY <3>1, <3>2
  <2> QED BY <2>6, BadgeFollows
<1>4. CASE bumpUnreadDigest(r) \/ Count(r)
  <2>1. /\ \A q \in Requests \ {r} : task'[q] = task[q]
        /\ UNCHANGED <<notifications, badge, late>>
    BY <1>1, <1>4 DEF bumpUnreadDigest, Count, Goto, rows
  <2>2. task'[r].pc \in {"count", "badge"} /\ task'[r].todo = task[r].todo
    <3>1. task[r] \in Task
      BY <1>1
    <3>2. CASE bumpUnreadDigest(r)
      <4>1. task'[r] = [task[r] EXCEPT !.pc = "count"]
        BY <1>1, <3>2 DEF bumpUnreadDigest, Goto
      <4> QED BY <3>1, <4>1 DEF Task
    <3>3. CASE Count(r)
      <4>1. task'[r] = [task[r] EXCEPT !.pc = "badge", !.count = unreadCount(User(r))]
        BY <1>1, <3>3 DEF Count
      <4> QED BY <3>1, <4>1 DEF Task
    <3> QED BY <1>4, <3>2, <3>3
  <2>3. ASSUME NEW u PROVE \A q \in Requests : Sends(q, u) => Sends(q, u)'
    BY <2>1, <2>2, OthersSend DEF Sends, User
  <2>4. ASSUME NEW u PROVE unreadCount(u)' = unreadCount(u)
    BY <2>1 DEF unreadCount
  <2> QED BY <2>1, <2>3, <2>4, StillComes, BadgeFollows
<1>5. CASE emitBadge(r)
  <2>0. PICK v \in Users : v = User(r)
    BY <1>5, UserOfTask DEF emitBadge
  <2>1. /\ task[r].pc = "badge"
        /\ badge' = [badge EXCEPT ![v] = task[r].count]
        /\ late' = IF task[r].count = unreadCount(v) THEN late \ {v} ELSE late \cup {v}
        /\ notifications' = notifications
    BY <1>5, <2>0 DEF emitBadge, rows
  <2>2. \A q \in Requests \ {r} : task'[q] = task[q]
    BY <1>1, <1>5 DEF emitBadge, Goto, NextUser
  <2>3. ASSUME NEW u PROVE unreadCount(u)' = unreadCount(u)
    BY <2>1 DEF unreadCount
  <2>4. badge \in [Users -> Nat]
    BY DEF TypeOK
  <2>5. v \in late' \/ badge'[v] = unreadCount(v)'
    <3>1. CASE task[r].count = unreadCount(v)
      BY <2>1, <2>3, <2>4, <3>1
    <3>2. CASE task[r].count # unreadCount(v)
      BY <2>1, <3>2
    <3> QED BY <3>1, <3>2
  <2>6. ASSUME NEW u \in Users, u # v
        PROVE  u \in late' \/ badge'[u] = unreadCount(u)' \/ \E q \in Requests : Sends(q, u)'
    <3>1. \A q \in Requests : Sends(q, u) => Sends(q, u)'
      BY <2>0, <2>2, <2>6, OthersSend DEF Sends
    <3>2. badge'[u] = badge[u] /\ (u \in late => u \in late')
      BY <2>1, <2>4, <2>6
    <3> QED BY <2>3, <3>1, <3>2, StillComes
  <2> QED BY <2>5, <2>6, BadgeFollows
<1>6. CASE maybeEmailMissedCall(r)
  <2>1. /\ task[r].pc = "email"
        /\ \A q \in Requests \ {r} : task'[q] = task[q]
        /\ UNCHANGED <<badge, late>>
    BY <1>1, <1>6 DEF maybeEmailMissedCall, NextUser
  <2>2. ASSUME NEW u PROVE \A q \in Requests : Sends(q, u) => Sends(q, u)'
    BY <2>1, OthersSend DEF Sends
  <2>3. PICK sent \in BOOLEAN : notifications' = [notifications EXCEPT ![task[r].row].emailed = sent]
    BY <1>6 DEF maybeEmailMissedCall
  <2>4. task[r].row \in DOMAIN notifications
    BY <2>1 DEF TypeOK, Fits
  <2>5. notifications[task[r].row] \in Row
    BY <2>4, ElementOfSeq, LenProperties DEF TypeOK
  <2>6. DOMAIN notifications' = DOMAIN notifications
    BY <2>3
  <2>7. \A i \in DOMAIN notifications :
           notifications'[i].user = notifications[i].user /\ notifications'[i].read = notifications[i].read
    BY <2>3, <2>4, <2>5 DEF Row
  <2>8. ASSUME NEW u PROVE unreadCount(u)' = unreadCount(u)
    BY <2>6, <2>7, UnreadSame
  <2> QED BY <2>1, <2>2, <2>8, StillComes, BadgeFollows
<1>7. CASE SaveSettings(r)
  <2>1. /\ task[r].pc = "save"
        /\ \A q \in Requests \ {r} : task'[q] = task[q]
        /\ UNCHANGED <<notifications, badge, late>>
    BY <1>1, <1>7 DEF SaveSettings
  <2>2. ASSUME NEW u PROVE \A q \in Requests : Sends(q, u) => Sends(q, u)'
    BY <2>1, OthersSend DEF Sends
  <2>3. ASSUME NEW u PROVE unreadCount(u)' = unreadCount(u)
    BY <2>1 DEF unreadCount
  <2> QED BY <2>1, <2>2, <2>3, StillComes, BadgeFollows
<1> QED BY <1>2, <1>3, <1>4, <1>5, <1>6, <1>7 DEF Handler

LEMMA BadgeRequest ==
    ASSUME TypeOK, BadgeComes, NEW r \in Requests,
           \/ \E type \in Types, us \in Recipients : Hear(r, type, us)
           \/ \E u \in Callers : \E ids \in {DOMAIN notifications} \cup {{i} : i \in DOMAIN notifications} :
                 MarkRead(r, u, ids)
           \/ \E u \in Callers, s \in Switches, value \in BOOLEAN : LoadSettings(r, u, s, value)
    PROVE  BadgeComes'
<1>1. task \in [Requests -> Task]
  BY DEF TypeOK
<1>2. CASE \/ \E type \in Types, us \in Recipients : Hear(r, type, us)
           \/ \E u \in Callers, s \in Switches, value \in BOOLEAN : LoadSettings(r, u, s, value)
  <2>1. /\ task[r].pc = "idle"
        /\ \A q \in Requests \ {r} : task'[q] = task[q]
        /\ UNCHANGED <<notifications, badge, late>>
    BY <1>1, <1>2, Zenon DEF Hear, LoadSettings, rows
  <2>2. ASSUME NEW u PROVE \A q \in Requests : Sends(q, u) => Sends(q, u)'
    BY <2>1, OthersSend DEF Sends
  <2>3. ASSUME NEW u PROVE unreadCount(u)' = unreadCount(u)
    BY <2>1 DEF unreadCount
  <2> QED BY <2>1, <2>2, <2>3, StillComes, BadgeFollows
<1>3. ASSUME NEW v \in Callers, NEW ids, MarkRead(r, v, ids) PROVE BadgeComes'
  <2> DEFINE hit == {i \in ids : notifications[i].user = v /\ ~notifications[i].read}
  <2>1. /\ task[r].pc = "idle"
        /\ \A q \in Requests \ {r} : task'[q] = task[q]
        /\ UNCHANGED <<badge, late>>
        /\ notifications' = [i \in DOMAIN notifications |->
              IF i \in hit THEN [notifications[i] EXCEPT !.read = TRUE] ELSE notifications[i]]
    BY <1>1, <1>3 DEF MarkRead
  <2>2. ASSUME NEW u PROVE \A q \in Requests : Sends(q, u) => Sends(q, u)'
    BY <2>1, OthersSend DEF Sends
  <2>3. \A i \in DOMAIN notifications : notifications[i] \in Row
    BY ElementOfSeq, LenProperties DEF TypeOK
  <2>4. ASSUME NEW u, u # v PROVE unreadCount(u)' = unreadCount(u)
    <3>1. DOMAIN notifications' = DOMAIN notifications
      BY <2>1
    <3>2. ASSUME NEW i \in DOMAIN notifications
          PROVE  (notifications'[i].user = u /\ ~notifications'[i].read)
                   <=> (notifications[i].user = u /\ ~notifications[i].read)
      <4>1. CASE i \in hit
        <5>1. notifications'[i].user = v /\ notifications[i].user = v
          BY <2>1, <2>3, <4>1 DEF Row
        <5> QED BY <2>4, <5>1
      <4>2. CASE i \notin hit
        BY <2>1, <4>2
      <4> QED BY <4>1, <4>2
    <3> QED BY <3>1, <3>2, UnreadSame
  <2>5. task'[r].pc = "count" /\ task'[r].todo = <<v>>
    BY <1>1, <1>3 DEF MarkRead, Idle
  <2>6. Sends(r, v)'
    BY <2>5 DEF Sends, User
  <2>7. ASSUME NEW u \in Users
        PROVE  u \in late' \/ badge'[u] = unreadCount(u)' \/ \E q \in Requests : Sends(q, u)'
    BY <2>1, <2>2, <2>4, <2>6, StillComes
  <2> QED BY <2>7, BadgeFollows
<1> QED BY <1>2, <1>3

LEMMA BadgeStep ==
    ASSUME TypeOK, BadgeComes, [Next]_vars
    PROVE  BadgeComes'
<1>1. CASE UNCHANGED <<notifications, badge, late, task>>
  <2>1. ASSUME NEW u PROVE unreadCount(u)' = unreadCount(u)
    BY <1>1 DEF unreadCount
  <2> QED BY <1>1, <2>1 DEF BadgeComes, User
<1>2. CASE Digest
  BY <1>1, <1>2 DEF Digest, pendingDigestUserIds, LookAt, GetDigest, TakeDigest, sendUnreadDigest, rows
<1>3. CASE Crash
  BY <1>3 DEF Crash, BadgeComes
<1>4. CASE UNCHANGED vars
  BY <1>1, <1>4 DEF vars, rows
<1> QED BY <1>2, <1>3, <1>4, BadgeEvent, BadgeRequest DEF Next

-----------------------------------------------------------------------------
LEMMA Inductive == Spec => []IInv
<1>1. IInv /\ [Next]_vars => IInv'
  BY TypedStep, BalanceStep, BadgeStep DEF IInv
<1> QED BY <1>1, InitOK, PTL DEF Spec

(* The rows, settings, counters and badges have their types, and every      *)
(* handler carries what its place needs (TypeOK).                           *)
THEOREM TypeCorrect == Spec => []TypeOK
<1>1. IInv => TypeOK
  BY DEF IInv
<1> QED BY <1>1, Inductive, PTL

(* No message is told in two digests, and none vanishes but in the ways     *)
(* named: what was counted is in the counter or in the hands of the job     *)
(* (bumpUnreadDigest, takeUnreadDigest, sendDigests).                       *)
THEOREM NoneToldTwice == Spec => []DigestBalance
<1>1. IInv => DigestBalance
  BY DEF IInv
<1> QED BY <1>1, Inductive, PTL

(* The badge of a user shows the unread rows, unless a handler is at work   *)
(* for the user or the last sending was overtaken (notify, markRead).       *)
THEOREM BadgeCanBeBelieved == Spec => []BadgeIsTrue
<1>1. IInv => BadgeIsTrue
  <2> SUFFICES ASSUME IInv, NEW u \in Users, u \notin late, badge[u] # unreadCount(u)
               PROVE  \E r \in Requests : \E i \in DOMAIN task[r].todo : task[r].todo[i] = u
    BY DEF BadgeIsTrue
  <2>1. PICK r \in Requests : task[r].pc \in {"bump", "count", "badge"} /\ User(r) = u
    BY DEF IInv, BadgeComes
  <2>2. task[r].todo \in Seq(Users) /\ task[r].todo # <<>>
    BY <2>1 DEF IInv, TypeOK, Task, Fits
  <2>3. 1 \in DOMAIN task[r].todo /\ task[r].todo[1] = u
    BY <2>1, <2>2, LenProperties, EmptySeq DEF User
  <2> QED BY <2>3
<1> QED BY <1>1, Inductive, PTL
=============================================================================
