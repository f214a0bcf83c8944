------------------------------ MODULE Accounts ------------------------------
(***************************************************************************)
(* One account and what lets its owner in: the user row (status,           *)
(* deletedAt, passwordHash), the sessions in Redis and the set that lists  *)
(* them, the authz cache in front of the row, the emailed codes and the    *)
(* sockets.  Logins, guarded requests, socket handshakes and an owner's    *)
(* moderation run as handlers that interleave between two awaits.          *)
(***************************************************************************)
EXTENDS Naturals

CONSTANTS
    Requests,     \* bound: handlers in flight
    Overlap,      \* TRUE: all handlers may overlap; FALSE: requests that only
                  \* read overlap everything, two others never do
    MaxSessions,  \* bound: logins; sessions are numbered
    MaxSockets,   \* bound: socket handshakes
    MaxResets     \* bound: password resets

ASSUME AccountsAssumption ==
    Overlap \in BOOLEAN /\ MaxSessions \in Nat /\ MaxSockets \in Nat /\ MaxResets \in Nat

VARIABLES
    status, deleted, \* user row: status, deletedAt is set
    password,        \* user row: how often the password was reset
    sess,            \* sessions whose key sess:{id} exists
    listed,          \* user_sessions:{user}
    made,            \* sessions made so far
    knew,            \* auxiliary: the password when a session's login was checked
    authz,           \* authz:{user} holds the viewer
    code, token,     \* otp:reset:{email}, delete:{token}
    sock,            \* sockets: in no room yet, in room user:{id}, closed
    pc, op,          \* where a handler is, what it does
    sid,             \* the session its request came with
    note,            \* its target session, its socket, or what it read of the row
    ids              \* SMEMBERS of the set

row     == <<status, deleted, password>>
keys    == <<sess, listed, made, knew, authz, code, token>>
request == <<pc, op, sid, note, ids>>
vars    == <<row, keys, sock, request>>

Sessions == 1..MaxSessions
Sockets  == 1..MaxSockets

Guarded == {"read", "me", "logout", "logoutAll", "revoke", "delete", "socket"}
Ops     == Guarded \cup {"none", "login", "reset", "ban", "unban", "remove", "close"}

Hidden == status = "banned" \/ deleted

Busy(p) == op[p] \notin {"none", "read"}
Settled == \A p \in Requests : ~Busy(p)

Labels == {"idle", "grant", "save", "spend", "authz", "find", "fill", "enter", "refresh", "del",
           "join", "forget", "mark", "members", "wipe", "kick"}

RowTyped ==
    /\ status \in {"active", "banned"} /\ deleted \in BOOLEAN
    /\ password \in 0..MaxResets

KeysTyped ==
    /\ made \in 0..MaxSessions
    /\ sess \subseteq 1..made /\ listed \subseteq 1..made
    /\ knew \in [Sessions -> 0..MaxResets]
    /\ authz \in BOOLEAN /\ code \in BOOLEAN /\ token \in BOOLEAN

SockTyped == sock \in [Sockets -> {"new", "shaking", "open", "room", "closed"}]

HandlersTyped ==
    /\ pc \in [Requests -> Labels]
    /\ op \in [Requests -> Ops]
    /\ sid \in [Requests -> 0..MaxSessions]
    /\ note \in [Requests -> Nat]
    /\ ids \in [Requests -> SUBSET Sessions]

TypeOK == RowTyped /\ KeysTyped /\ SockTyped /\ HandlersTyped

Init ==
    /\ status = "active" /\ deleted = FALSE /\ password = 0
    /\ sess = {} /\ listed = {} /\ made = 0
    /\ knew = [s \in Sessions |-> 0]
    /\ authz = FALSE /\ code = FALSE /\ token = FALSE
    /\ sock = [k \in Sockets |-> "new"]
    /\ pc = [p \in Requests |-> "idle"]
    /\ op = [p \in Requests |-> "none"]
    /\ sid = [p \in Requests |-> 0]
    /\ note = [p \in Requests |-> 0]
    /\ ids = [p \in Requests |-> {}]

-----------------------------------------------------------------------------
(* Handlers *)

Begin(p, o, l, s, n) ==
    /\ pc[p] = "idle"
    /\ Overlap \/ o = "read" \/ Settled
    /\ pc' = [pc EXCEPT ![p] = l]
    /\ op' = [op EXCEPT ![p] = o]
    /\ sid' = [sid EXCEPT ![p] = s]
    /\ note' = [note EXCEPT ![p] = n]
    /\ UNCHANGED ids

GoTo(p, l) ==
    /\ pc' = [pc EXCEPT ![p] = l]
    /\ UNCHANGED <<op, sid, note, ids>>

Finish(p) ==
    /\ pc' = [pc EXCEPT ![p] = "idle"]
    /\ op' = [op EXCEPT ![p] = "none"]
    /\ sid' = [sid EXCEPT ![p] = 0]
    /\ note' = [note EXCEPT ![p] = 0]
    /\ ids' = [ids EXCEPT ![p] = {}]

-----------------------------------------------------------------------------
(* login, finishOAuth: the row is read, later a session is made *)

(* Mutant: assertAllowed is not asked. *)
LoginAnybody(p) ==
    /\ \A q \in Requests : pc[q] # "grant"
    /\ made < MaxSessions
    /\ Begin(p, "login", "grant", 0, password)
    /\ UNCHANGED <<row, keys, sock>>

Login(p) ==
    /\ ~Hidden
    /\ \A q \in Requests : pc[q] # "grant"     \* bound: numbers sessions
    /\ made < MaxSessions
    /\ Begin(p, "login", "grant", 0, password)
    /\ UNCHANGED <<row, keys, sock>>

Grant(p) ==
    /\ pc[p] = "grant"
    /\ made' = made + 1
    /\ sess' = sess \cup {made'}
    /\ listed' = listed \cup {made'}
    /\ knew' = [knew EXCEPT ![made'] = note[p]]
    /\ Finish(p)
    /\ UNCHANGED <<row, authz, code, token, sock>>

-----------------------------------------------------------------------------
(* forgotPassword, resetPassword *)

Forgot ==
    /\ ~Hidden /\ password < MaxResets
    /\ code' = TRUE
    /\ UNCHANGED <<row, sess, listed, made, knew, authz, token, sock, request>>

Reset(p) ==
    /\ ~Hidden /\ code
    /\ \A q \in Requests : op[q] # "reset"     \* bound
    /\ password < MaxResets
    /\ Begin(p, "reset", "save", 0, 0)
    /\ UNCHANGED <<row, keys, sock>>

SavePassword(p) ==
    /\ pc[p] = "save"
    /\ password' = password + 1
    /\ GoTo(p, "spend")
    /\ UNCHANGED <<status, deleted, keys, sock>>

-----------------------------------------------------------------------------
(* SessionGuard and the handshake of a socket *)

(* The session of cookie or token exists. *)
Request(p, o, s, n) ==
    /\ s \in sess
    /\ o = "revoke" => n \in 1..made /\ n # s  \* one's own session: logout
    /\ o = "socket" => n \in Sockets /\ sock[n] = "new"
    /\ o \notin {"revoke", "socket"} => n = 0
    /\ Begin(p, o, "authz", s, n)
    /\ sock' = IF o = "socket" THEN [sock EXCEPT ![n] = "shaking"] ELSE sock
    /\ UNCHANGED <<row, keys>>

(* getAuthViewer: the cache, or else the row, which fills the cache *)
Authz(p) ==
    /\ pc[p] = "authz"
    /\ GoTo(p, IF authz THEN "enter" ELSE "find")
    /\ UNCHANGED <<row, keys, sock>>

Find(p) ==
    /\ pc[p] = "find"
    /\ \/ ~Hidden /\ GoTo(p, "fill") /\ UNCHANGED sock
       \/ /\ Hidden
          /\ Finish(p)
          /\ sock' = IF op[p] = "socket" THEN [sock EXCEPT ![note[p]] = "closed"] ELSE sock
    /\ UNCHANGED <<row, keys>>

Fill(p) ==
    /\ pc[p] = "fill"
    /\ authz' = TRUE
    /\ GoTo(p, "enter")
    /\ UNCHANGED <<row, sess, listed, made, knew, code, token, sock>>

-----------------------------------------------------------------------------
(* Guarded requests *)

Read(p) ==
    /\ pc[p] = "enter" /\ op[p] = "read"
    /\ Finish(p)
    /\ UNCHANGED <<row, keys, sock>>

(* getMe: refreshSession reads the session and writes it again *)
Me(p) ==
    /\ pc[p] = "enter" /\ op[p] = "me"
    /\ IF sid[p] \in sess THEN GoTo(p, "refresh") ELSE Finish(p)
    /\ UNCHANGED <<row, keys, sock>>

Refresh(p) ==
    /\ pc[p] = "refresh"
    /\ sess' = sess \cup {sid[p]}
    /\ Finish(p)
    /\ UNCHANGED <<row, listed, made, knew, authz, code, token, sock>>

DeleteSession(p, s) ==
    /\ sess' = sess \ {s}
    /\ listed' = listed \ {s}
    /\ Finish(p)
    /\ UNCHANGED <<row, made, knew, authz, code, token, sock>>

Logout(p) ==
    /\ pc[p] = "enter" /\ op[p] = "logout"
    /\ DeleteSession(p, sid[p])

Revoke(p) ==
    /\ pc[p] = "enter" /\ op[p] = "revoke"
    /\ IF note[p] \in sess THEN GoTo(p, "del") ELSE Finish(p)
    /\ UNCHANGED <<row, keys, sock>>

RevokeDelete(p) ==
    /\ pc[p] = "del"
    /\ DeleteSession(p, note[p])

LogoutAll(p) ==
    /\ pc[p] = "enter" /\ op[p] = "logoutAll"
    /\ GoTo(p, "members")
    /\ UNCHANGED <<row, keys, sock>>

RequestDelete(p) ==
    /\ pc[p] = "enter" /\ op[p] = "delete"
    /\ token' = (token \/ ~Hidden)
    /\ Finish(p)
    /\ UNCHANGED <<row, sess, listed, made, knew, authz, code, sock>>

(* handleConnection: the row once more, then the user's room *)
Connection(p) ==
    /\ pc[p] = "enter" /\ op[p] = "socket"
    /\ \/ ~Hidden /\ GoTo(p, "join") /\ sock' = [sock EXCEPT ![note[p]] = "open"]
       \/ Hidden /\ Finish(p) /\ sock' = [sock EXCEPT ![note[p]] = "closed"]
    /\ UNCHANGED <<row, keys>>

Join(p) ==
    /\ pc[p] = "join"
    /\ sock' = [sock EXCEPT ![note[p]] = "room"]
    /\ Finish(p)
    /\ UNCHANGED <<row, keys>>

-----------------------------------------------------------------------------
(* ban, unban and remove by an owner; confirmDelete by token *)

Ban(p) ==
    /\ Begin(p, "ban", "forget", 0, 0)
    /\ UNCHANGED <<row, keys, sock>>

Unban(p) ==
    /\ status = "banned" /\ ~deleted
    /\ Begin(p, "unban", "forget", 0, 0)
    /\ UNCHANGED <<row, keys, sock>>

Remove(p) ==
    /\ ~deleted
    /\ Begin(p, "remove", "forget", 0, IF status = "active" THEN 1 ELSE 0)
    /\ UNCHANGED <<row, keys, sock>>

ConfirmDelete(p) ==
    /\ token
    /\ Begin(p, "close", "spend", 0, 0)
    /\ UNCHANGED <<row, keys, sock>>

(* deleteOtp; the DEL of consumeDeleteToken *)
Spend(p) ==
    /\ pc[p] = "spend"
    /\ \/ op[p] = "reset" /\ code' = FALSE /\ GoTo(p, "members") /\ UNCHANGED token
       \/ op[p] = "close" /\ token' = FALSE /\ GoTo(p, "forget") /\ UNCHANGED code
    /\ UNCHANGED <<row, sess, listed, made, knew, authz, sock>>

Forget(p) ==
    /\ pc[p] = "forget"
    /\ authz' = FALSE
    /\ GoTo(p, "mark")
    /\ UNCHANGED <<row, sess, listed, made, knew, code, token, sock>>

(* A copy that was banned already does not send its status. *)
Mark(p) ==
    /\ pc[p] = "mark"
    /\ status' = IF op[p] = "unban" THEN "active"
                 ELSE IF op[p] = "remove" /\ note[p] = 0 THEN status ELSE "banned"
    /\ deleted' = (deleted \/ op[p] \in {"remove", "close"})
    /\ IF op[p] = "unban" THEN Finish(p) ELSE GoTo(p, "members")
    /\ UNCHANGED <<password, keys, sock>>

(* deleteAllSessions: SMEMBERS, then DEL of those and of the set *)
Members(p) ==
    /\ pc[p] = "members"
    /\ pc' = [pc EXCEPT ![p] = "wipe"]
    /\ ids' = [ids EXCEPT ![p] = listed]
    /\ UNCHANGED <<row, keys, sock, op, sid, note>>

(* Mutant: only the set is deleted. *)
WipeSet(p) ==
    /\ pc[p] = "wipe"
    /\ listed' = {}
    /\ IF op[p] \in {"ban", "remove"} THEN GoTo(p, "kick") ELSE Finish(p)
    /\ UNCHANGED <<row, sess, made, knew, authz, code, token, sock>>

Wipe(p) ==
    /\ pc[p] = "wipe"
    /\ sess' = sess \ ids[p]
    /\ listed' = {}
    /\ IF op[p] \in {"ban", "remove"} THEN GoTo(p, "kick") ELSE Finish(p)
    /\ UNCHANGED <<row, made, knew, authz, code, token, sock>>

(* Mutant: the kick fails, which admin.service swallows. *)
KickFails(p) ==
    /\ pc[p] = "kick"
    /\ Finish(p)
    /\ UNCHANGED <<row, keys, sock>>

(* kickBanned: who is in the room *)
Kick(p) ==
    /\ pc[p] = "kick"
    /\ sock' = [k \in Sockets |-> IF sock[k] = "room" THEN "closed" ELSE sock[k]]
    /\ Finish(p)
    /\ UNCHANGED <<row, keys>>

-----------------------------------------------------------------------------
(* Mutant: the entry has no lifetime. *)
NeverExpires == FALSE /\ UNCHANGED vars

(* AUTHZ_TTL passes. *)
CacheExpires ==
    /\ authz
    /\ authz' = FALSE
    /\ UNCHANGED <<row, sess, listed, made, knew, code, token, sock, request>>

Continue(p) ==
    \/ Grant(p) \/ SavePassword(p) \/ Spend(p)
    \/ Authz(p) \/ Find(p) \/ Fill(p)
    \/ Read(p) \/ Me(p) \/ Refresh(p) \/ Logout(p) \/ Revoke(p) \/ RevokeDelete(p)
    \/ LogoutAll(p) \/ RequestDelete(p) \/ Connection(p) \/ Join(p)
    \/ Forget(p) \/ Mark(p) \/ Members(p) \/ Wipe(p) \/ Kick(p)

Arrive(p) ==
    \/ Login(p) \/ Reset(p) \/ Ban(p) \/ Unban(p) \/ Remove(p) \/ ConfirmDelete(p)
    \/ \E o \in Guarded, s \in Sessions, n \in 0..(MaxSessions + MaxSockets) : Request(p, o, s, n)

Next ==
    \/ \E p \in Requests : Arrive(p) \/ Continue(p)
    \/ Forgot \/ CacheExpires

Spec == Init /\ [][Next]_vars

(* Awaits are answered, and a key with a TTL expires. *)
FairSpec == Spec /\ (\A p \in Requests : WF_vars(Continue(p))) /\ WF_vars(CacheExpires)

-----------------------------------------------------------------------------
(* Properties *)

(* While handlers that write come one at a time, every session that lets a *)
(* request in is in the set that log-out-everywhere, a reset and a ban     *)
(* work from (createSession, refreshSession, deleteSession,                *)
(* deleteAllSessions).                                                     *)
AllListed == sess \subseteq listed

(* Then a banned or deleted account has no session once its handler is     *)
(* through, whatever logins, refreshes and link clicks came before         *)
(* (banAccount, adminDelete, closeAccount with deleteAllSessions).         *)
ShutOut == Settled /\ Hidden => sess = {}

(* Then a banned account has no socket either (kickBanned).  An account    *)
(* that its owner deletes keeps them: confirmDelete does not kick.         *)
KickedOut == Settled /\ Hidden /\ ~deleted => \A k \in Sockets : sock[k] \in {"new", "closed"}

(* Then no session that was signed in with an earlier password outlives    *)
(* the reset (resetPassword, and login, which checks before it creates).   *)
ResetRevokes == Settled => \A s \in sess : knew[s] = password

(* However requests overlap the ban, the cache stops letting a hidden      *)
(* account in: who read the row before the ban fills it at most once more  *)
(* (getAuthViewer, banAccount).                                            *)
KeptOut == <>[]Hidden => <>[]~authz

-----------------------------------------------------------------------------
(* The inductive invariant of AccountsProofs: what a handler's place says  *)
(* about what it does, and what it read is still so.                       *)

PlaceOK(l, o) ==
    /\ l = "idle" <=> o = "none"
    /\ l = "grant" <=> o = "login"
    /\ l = "save" => o = "reset"
    /\ l = "spend" => o \in {"reset", "close"}
    /\ l \in {"authz", "find", "fill", "enter"} => o \in Guarded
    /\ l = "refresh" => o = "me"
    /\ l = "del" => o = "revoke"
    /\ l = "join" => o = "socket"
    /\ l \in {"forget", "mark"} => o \in {"ban", "unban", "remove", "close"}
    /\ l \in {"members", "wipe"} => o \in {"reset", "logoutAll", "ban", "remove", "close"}
    /\ l = "kick" => o \in {"ban", "remove"}

PlacesOK == \A p \in Requests : PlaceOK(pc[p], op[p])

(* What the bounds on logins and resets are for. *)
BoundsOK ==
    /\ \A p \in Requests :
        /\ pc[p] = "grant" => made < MaxSessions /\ note[p] \in 0..MaxResets
        /\ pc[p] = "save" => password < MaxResets
        /\ op[p] = "me" => sid[p] \in 1..made
    /\ \A p, q \in Requests :
        \/ pc[p] = "grant" /\ pc[q] = "grant"
        \/ op[p] = "reset" /\ op[q] = "reset"
        => p = q

OneWriter == ~Overlap => \A p, q \in Requests : Busy(p) /\ Busy(q) => p = q

ReadsHold ==
    ~Overlap => \A p \in Requests :
        /\ pc[p] = "grant" => note[p] = password /\ ~Hidden
        /\ pc[p] = "refresh" => sid[p] \in sess
        /\ pc[p] = "wipe" => ids[p] = listed

(* A handler that has changed the row and not yet deleted the sessions. *)
Revoking(p) == pc[p] \in {"members", "wipe"} \/ (pc[p] = "spend" /\ op[p] = "reset")

SessionsFollow ==
    ~Overlap =>
        /\ AllListed
        /\ (\A p \in Requests : ~Revoking(p)) =>
              /\ Hidden => sess = {}
              /\ \A s \in sess : knew[s] = password

(* A ban that has changed the row and not yet closed the sockets. *)
Expelling(p) == op[p] = "ban" /\ pc[p] \in {"members", "wipe", "kick"}

(* A socket that is neither turned away nor in the user's room has its       *)
(* handshake in flight.                                                      *)
Handshaken ==
    \A k \in Sockets : sock[k] \in {"shaking", "open"} =>
        \E p \in Requests : op[p] = "socket" /\ note[p] = k

SocketsFollow ==
    ~Overlap =>
        /\ \A p \in Requests : pc[p] = "join" => ~Hidden
        /\ status = "banned" /\ ~deleted /\ (\A p \in Requests : ~Expelling(p)) =>
              \A k \in Sockets : sock[k] # "room"

IInv == /\ TypeOK /\ PlacesOK /\ BoundsOK /\ OneWriter /\ ReadsHold /\ SessionsFollow
        /\ Handshaken /\ SocketsFollow
=============================================================================
