---------------------------- MODULE Notifications ----------------------------
(***************************************************************************)
(* In-app notifications, the unread badge, and the hourly e-mail digest:   *)
(* NotificationsService, its listener and cron job, the digest keys of     *)
(* RedisService, and SettingsService.update for the switches it reads.     *)
(*                                                                         *)
(* Events arrive from other parts (Messages, Calls, Groups) and run as     *)
(* handlers of their own, one recipient after the other; requests of the   *)
(* users and the cron job run beside them.  What decides whether somebody  *)
(* hears of an event at all (muted, blocked, left, reading the thread, the *)
(* rate limit) is kept elsewhere: here any recipient may be skipped.       *)
(***************************************************************************)
EXTENDS Naturals, Sequences, FiniteSets

CONSTANTS
    Users,        \* recipients
    Callers,      \* bound: the users that make requests
    Requests,     \* bound: handlers in flight
    MaxRows,      \* bound: notifications stored
    MaxPatches,   \* bound: settings updates
    MaxCrashes,   \* bound
    None

ASSUME NotificationsAssumption ==
    /\ MaxRows \in Nat /\ MaxPatches \in Nat /\ MaxCrashes \in Nat
    /\ Callers \subseteq Users
    /\ None \notin Users

VARIABLES
    notifications,  \* the rows, oldest first
    settings,       \* of each user
    counter,        \* digest:<user>
    pending,        \* digest:pending
    badge,          \* the last unreadCount sent to the sockets of a user
    task,           \* the handler of each request
    job,            \* sendDigests
    owed,           \* auxiliary: messages counted for the digest, and neither told
                    \* in one nor lost in a way that is named below
    late,           \* auxiliary: users whose last badge was out of date when sent
    patches, crashes

rows == <<notifications, settings>>
digest == <<counter, pending, owed>>
bounds == <<patches, crashes>>
vars == <<rows, digest, badge, task, job, late, bounds>>

Switches == {"messageNotifications", "unreadDigest", "missedCallEmails"}
Types == {"message", "missed_call", "other"}     \* a call, a group
Row == [user : Users, read : BOOLEAN, emailed : BOOLEAN]

Idle == [pc |-> "idle", type |-> "none", todo |-> <<>>, row |-> 0, count |-> 0, copy |-> <<>>]
NoJob == [pc |-> "idle", todo |-> {}, user |-> None, count |-> 0]

Task == [pc : {"idle", "notify", "bump", "count", "badge", "email", "save"},
         type : Types \cup {"none", "read"}, todo : Seq(Users), row : Nat, count : Nat,
         copy : [Switches -> BOOLEAN] \cup {<<>>}]

(* What a handler carries at its place. *)
Fits(t, ids) ==
    /\ t.pc # "idle" => t.todo # <<>>
    /\ t.pc \in {"bump", "count", "badge", "email"} => t.type = "read" \/ t.row \in ids
    /\ t.pc \in {"bump", "email"} => t.type # "read"
    /\ t.pc = "save" => t.copy # <<>>

TypeOK ==
    /\ notifications \in Seq(Row)
    /\ settings \in [Users -> [Switches -> BOOLEAN]]
    /\ counter \in [Users -> Nat]
    /\ owed \in [Users -> Nat]
    /\ badge \in [Users -> Nat]
    /\ pending \subseteq Users
    /\ late \subseteq Users
    /\ task \in [Requests -> Task]
    /\ \A r \in Requests : Fits(task[r], DOMAIN notifications)
    /\ job \in [pc : {"idle", "look", "get", "take", "mail"}, todo : SUBSET Users,
               user : Users \cup {None}, count : Nat]
    /\ job.pc \in {"get", "take", "mail"} => job.user \in Users
    /\ patches \in Nat
    /\ crashes \in Nat

(* mergeSettings over SETTINGS_DEFAULTS *)
Defaults == [s \in Switches |-> s # "unreadDigest"]

Init ==
    /\ notifications = <<>>
    /\ settings = [u \in Users |-> Defaults]
    /\ counter = [u \in Users |-> 0]
    /\ pending = {}
    /\ badge = [u \in Users |-> 0]
    /\ task = [r \in Requests |-> Idle]
    /\ job = NoJob
    /\ owed = [u \in Users |-> 0]
    /\ late = {}
    /\ patches = 0
    /\ crashes = 0

unreadCount(u) == Cardinality({i \in DOMAIN notifications :
                                 notifications[i].user = u /\ ~notifications[i].read})

-----------------------------------------------------------------------------
(* Events *)

User(r) == Head(task[r].todo)

Goto(r, pc) == task' = [task EXCEPT ![r].pc = pc]

(* On to the next recipient, if there is one. *)
NextUser(r) ==
    LET rest == Tail(task[r].todo)
    IN  task' = [task EXCEPT ![r] = IF rest = <<>> THEN Idle
                                    ELSE [Idle EXCEPT !.pc = "notify", !.type = task[r].type, !.todo = rest]]

(* onMessageCreated, onCallIncoming, onCallMissed, onGroupMemberAdded *)
Hear(r, type, us) ==
    /\ task[r].pc = "idle"
    /\ task' = [task EXCEPT ![r] = [Idle EXCEPT !.pc = "notify", !.type = type, !.todo = us]]
    /\ UNCHANGED <<rows, digest, badge, job, late, bounds>>

SkipUser(r) ==
    /\ task[r].pc = "notify"
    /\ NextUser(r)
    /\ UNCHANGED <<rows, digest, badge, job, late, bounds>>

(* notify: store the row; the digest is for messages, and for who wants it *)
notify(r) ==
    /\ task[r].pc = "notify"
    /\ Len(notifications) < MaxRows
    /\ LET u == User(r)
           type == task[r].type
       IN  /\ type = "message" => settings[u]["messageNotifications"]
           /\ notifications' = Append(notifications,
                                 [user |-> u, read |-> FALSE, emailed |-> FALSE])
           /\ task' = [task EXCEPT ![r].row = Len(notifications'),
                                   ![r].pc = IF type = "message" /\ settings[u]["unreadDigest"]
                                               THEN "bump" ELSE "count"]
    /\ UNCHANGED <<settings, digest, badge, job, late, bounds>>

(* Mutant: the counter without the set of pending users *)
OnlyCounts(r) ==
    /\ task[r].pc = "bump"
    /\ counter' = [counter EXCEPT ![User(r)] = @ + 1]
    /\ owed' = [owed EXCEPT ![User(r)] = @ + 1]
    /\ Goto(r, "count")
    /\ UNCHANGED <<rows, pending, badge, job, late, bounds>>

(* one MULTI: the counter, the preview and the set of pending users *)
bumpUnreadDigest(r) ==
    /\ task[r].pc = "bump"
    /\ counter' = [counter EXCEPT ![User(r)] = @ + 1]
    /\ pending' = pending \cup {User(r)}
    /\ owed' = [owed EXCEPT ![User(r)] = @ + 1]
    /\ Goto(r, "count")
    /\ UNCHANGED <<rows, badge, job, late, bounds>>

Count(r) ==
    /\ task[r].pc = "count"
    /\ task' = [task EXCEPT ![r].pc = "badge", ![r].count = unreadCount(User(r))]
    /\ UNCHANGED <<rows, digest, badge, job, late, bounds>>

emitBadge(r) ==
    /\ task[r].pc = "badge"
    /\ badge' = [badge EXCEPT ![User(r)] = task[r].count]
    /\ late' = IF task[r].count = unreadCount(User(r)) THEN late \ {User(r)} ELSE late \cup {User(r)}
    /\ IF task[r].type = "missed_call" THEN Goto(r, "email") ELSE NextUser(r)
    /\ UNCHANGED <<rows, digest, job, bounds>>

(* offlineLongEnough is Presence's to say; the mail server may be down. *)
maybeEmailMissedCall(r) ==
    /\ task[r].pc = "email"
    /\ \E sent \in BOOLEAN :
          /\ sent => settings[User(r)]["missedCallEmails"]
          /\ notifications' = [notifications EXCEPT ![task[r].row].emailed = sent]
    /\ NextUser(r)
    /\ UNCHANGED <<settings, digest, badge, job, late, bounds>>

-----------------------------------------------------------------------------
(* Requests of a user *)

(* Mutant: the badge is sent when nothing was read. *)
BadgeIfNone(r, u, ids) ==
    LET hit == {i \in ids : notifications[i].user = u /\ ~notifications[i].read}
    IN  /\ task[r].pc = "idle"
        /\ notifications' = [i \in DOMAIN notifications |->
              IF i \in hit THEN [notifications[i] EXCEPT !.read = TRUE] ELSE notifications[i]]
        /\ task' = [task EXCEPT ![r] =
              IF hit # {} THEN Idle ELSE [Idle EXCEPT !.pc = "count", !.type = "read", !.todo = <<u>>]]
        /\ UNCHANGED <<settings, digest, badge, job, late, bounds>>

(* markRead of some or all; markOne does the same with a row that is still *)
(* unread, and nothing with one that was read.                             *)
MarkRead(r, u, ids) ==
    LET hit == {i \in ids : notifications[i].user = u /\ ~notifications[i].read}
    IN  /\ task[r].pc = "idle"
        /\ notifications' = [i \in DOMAIN notifications |->
              IF i \in hit THEN [notifications[i] EXCEPT !.read = TRUE] ELSE notifications[i]]
        /\ task' = [task EXCEPT ![r] = [Idle EXCEPT !.pc = "count", !.type = "read", !.todo = <<u>>]]
        /\ UNCHANGED <<settings, digest, badge, job, late, bounds>>

(* update: the settings as loaded, patched, are saved as a whole. *)
LoadSettings(r, u, s, value) ==
    /\ task[r].pc = "idle"
    /\ patches < MaxPatches
    /\ patches' = patches + 1
    /\ task' = [task EXCEPT ![r] = [Idle EXCEPT !.pc = "save", !.todo = <<u>>,
                                                !.copy = [settings[u] EXCEPT ![s] = value]]]
    /\ UNCHANGED <<rows, digest, badge, job, late, crashes>>

SaveSettings(r) ==
    /\ task[r].pc = "save"
    /\ settings' = [settings EXCEPT ![User(r)] = task[r].copy]
    /\ task' = [task EXCEPT ![r] = Idle]
    /\ UNCHANGED <<notifications, digest, badge, job, late, bounds>>

-----------------------------------------------------------------------------
(* The cron job *)

pendingDigestUserIds ==
    /\ job.pc = "idle"
    /\ pending # {}
    /\ job' = [NoJob EXCEPT !.pc = "look", !.todo = pending]
    /\ UNCHANGED <<rows, digest, badge, task, late, bounds>>

NextDigest == job' = IF job.todo = {} THEN NoJob ELSE [NoJob EXCEPT !.pc = "look", !.todo = job.todo]

(* The user is loaded: who has turned the digest off since gets no mail, but *)
(* what was counted is taken as well.                                        *)
LookAt(u) ==
    /\ job.pc = "look"
    /\ u \in job.todo
    /\ job' = [job EXCEPT !.pc = "get", !.todo = @ \ {u}, !.user = u]
    /\ UNCHANGED <<rows, digest, badge, task, late, bounds>>

(* takeUnreadDigest reads, then deletes. *)
GetDigest ==
    /\ job.pc = "get"
    /\ job' = [job EXCEPT !.pc = "take", !.count = counter[job.user]]
    /\ UNCHANGED <<rows, digest, badge, task, late, bounds>>

(* Mutant: the counter survives, only the user leaves the set. *)
KeepsCounter ==
    /\ job.pc = "take"
    /\ pending' = pending \ {job.user}
    /\ owed' = [owed EXCEPT ![job.user] = @ - (counter[job.user] - job.count)]
    /\ job' = [job EXCEPT !.pc = "mail"]
    /\ UNCHANGED <<rows, counter, badge, task, late, bounds>>

TakeDigest ==
    /\ job.pc = "take"
    /\ counter' = [counter EXCEPT ![job.user] = 0]
    /\ pending' = pending \ {job.user}
    /\ owed' = [owed EXCEPT ![job.user] = @ - (counter[job.user] - job.count)]
    /\ job' = [job EXCEPT !.pc = "mail"]
    /\ UNCHANGED <<rows, badge, task, late, bounds>>

(* Mailed or not: a mail that fails is not tried again. *)
sendUnreadDigest ==
    /\ job.pc = "mail"
    /\ owed' = [owed EXCEPT ![job.user] = @ - job.count]
    /\ NextDigest
    /\ UNCHANGED <<rows, counter, pending, badge, task, late, bounds>>

(* The process dies and starts again: handlers and the job are gone. *)
Crash ==
    /\ crashes < MaxCrashes
    /\ crashes' = crashes + 1
    /\ owed' = IF job.pc = "mail" THEN [owed EXCEPT ![job.user] = @ - job.count] ELSE owed
    /\ task' = [r \in Requests |-> Idle]
    /\ job' = NoJob
    /\ late' = Users
    /\ UNCHANGED <<rows, counter, pending, badge, patches>>

-----------------------------------------------------------------------------
Digest == pendingDigestUserIds \/ (\E u \in Users : LookAt(u)) \/ GetDigest \/ TakeDigest \/ sendUnreadDigest

Handler(r) ==
    \/ SkipUser(r) \/ notify(r) \/ bumpUnreadDigest(r) \/ Count(r) \/ emitBadge(r)
    \/ maybeEmailMissedCall(r) \/ SaveSettings(r)

Recipients == {us \in UNION {[1..n -> Users] : n \in 1..Cardinality(Users)} :
                 \A i, j \in DOMAIN us : us[i] = us[j] => i = j}

Next ==
    \/ \E r \in Requests :
          \/ \E type \in Types, us \in Recipients : Hear(r, type, us)
          \/ \E u \in Callers :
                \/ \E ids \in {DOMAIN notifications} \cup {{i} : i \in DOMAIN notifications} :
                      MarkRead(r, u, ids)
                \/ \E s \in Switches, value \in BOOLEAN :
                      value # settings[u][s] /\ LoadSettings(r, u, s, value)
          \/ Handler(r)
    \/ Digest
    \/ Crash

Spec == Init /\ [][Next]_vars

(* Cron starts the job every hour, and it runs on. *)
FairSpec == Spec /\ WF_vars(Digest)

-----------------------------------------------------------------------------
(* Every counted message is in the counter, in the job's hands, told in one  *)
(* digest, or lost in one of the ways named above (the digest turned off, a  *)
(* failed mail, a crash, counted between the job's read and its delete):     *)
(* none is told twice.                                                       *)
DigestBalance ==
    \A u \in Users :
       LET held == IF job.pc = "mail" /\ job.user = u THEN job.count ELSE 0
       IN  owed[u] = counter[u] + held

(* What is counted is taken by some run of the job, crashes or not: the      *)
(* counter of everybody is back at zero again and again.                     *)
CountedIsTaken == \A u \in Users : []<>(counter[u] = 0)

(* When nothing is under way for a user, the badge shows the number of       *)
(* unread rows, unless its last sending had been overtaken.                  *)
BadgeIsTrue ==
    \A u \in Users :
       \/ u \in late
       \/ \E r \in Requests : \E i \in DOMAIN task[r].todo : task[r].todo[i] = u
       \/ badge[u] = unreadCount(u)

-----------------------------------------------------------------------------
(* The inductive invariant of NotificationsProofs: who will send the badge. *)

BadgeComes ==
    \A u \in Users :
       \/ u \in late
       \/ badge[u] = unreadCount(u)
       \/ \E r \in Requests : task[r].pc \in {"bump", "count", "badge"} /\ User(r) = u

IInv == TypeOK /\ DigestBalance /\ BadgeComes
=============================================================================
