------------------------------ MODULE Presence ------------------------------
(***************************************************************************)
(* One user as the server sees them: how many sockets are open (a Redis    *)
(* counter), whether they are shown online (a Redis key with a TTL), and   *)
(* what a disconnect timer makes of it: ChatGateway shows the user offline *)
(* after 2 s, CallsGateway hangs the user's calls up after 2.5 s.          *)
(*                                                                         *)
(* ioredis sends the commands of the process over one connection, in       *)
(* order.  So the INCR of a connect and the DECR of a disconnect happen in *)
(* the order of the two events, and each is part of its event; what the    *)
(* code sends after it saw a reply is a step of its own.                   *)
(***************************************************************************)
EXTENDS Integers, FiniteSets

CONSTANTS
    MaxSockets,   \* bound: sockets, numbered in the order they connect
    MaxBeats,     \* bound: logins and POST /users/me/presence
    MaxCrashes    \* bound: restarts of the process

ASSUME PresenceAssumption ==
    MaxSockets \in Nat /\ MaxBeats \in Nat /\ MaxCrashes \in Nat

VARIABLES
    sock,         \* each socket; "lost": open when the process died
    count,        \* socks:{user}
    live,         \* presence:{user} holds "online" or "away"
    incall,       \* the user has a seat in a live call
    conn, disc,   \* where handleConnection and handleDisconnect of a socket are
    off, pending, \* the 2 s timer of a socket, and the one `offline' remembers
    hang,         \* the 2.5 s timer of a socket
    beats, crashes,
    counted,      \* auxiliary: sockets whose INCR no DECR followed
    raced         \* auxiliary: an INCR came between a drop's DECR and its DEL

Sockets == 1..MaxSockets
None    == 0

timers == <<off, pending, hang>>
bounds == <<beats, crashes>>
vars   == <<sock, count, live, incall, conn, disc, timers, bounds, counted, raced>>

TypeOK ==
    /\ sock \in [Sockets -> {"new", "open", "closed", "lost"}]
    /\ count \in Int
    /\ live \in BOOLEAN
    /\ incall \in BOOLEAN
    /\ conn \in [Sockets -> {"idle", "find"}]
    /\ disc \in [Sockets -> {"idle", "del", "arm"}]
    /\ off \in [Sockets -> {"idle", "armed", "clear"}]
    /\ pending \in Sockets \cup {None}
    /\ hang \in [Sockets -> {"idle", "armed", "end"}]
    /\ beats \in 0..MaxBeats
    /\ crashes \in 0..MaxCrashes
    /\ counted \subseteq Sockets
    /\ raced \in BOOLEAN
    /\ pending # None => off[pending] = "armed"

Open == {s \in Sockets : sock[s] = "open"}
Gone == Open = {}

Quiet == [s \in Sockets |-> "idle"]

Init ==
    /\ sock = [s \in Sockets |-> "new"]
    /\ count = 0 /\ live = FALSE /\ incall = FALSE
    /\ conn = Quiet /\ disc = Quiet /\ off = Quiet /\ hang = Quiet
    /\ pending = None
    /\ beats = 0 /\ crashes = 0
    /\ counted = {} /\ raced = FALSE

-----------------------------------------------------------------------------
(* ChatGateway.handleConnection *)

Connect(s) ==
    /\ sock[s] = "new" /\ \A t \in 1..(s - 1) : sock[t] # "new"
    /\ sock' = [sock EXCEPT ![s] = "open"]
    /\ off' = IF pending = None THEN off ELSE [off EXCEPT ![pending] = "idle"]
    /\ pending' = None
    /\ count' = count + 1
    /\ counted' = counted \cup {s}
    /\ raced' = (raced \/ \E t \in Sockets : disc[t] = "del")
    /\ conn' = [conn EXCEPT ![s] = "find"]
    /\ UNCHANGED <<live, incall, disc, hang, bounds>>

(* The account is active: shown online, even if the socket is gone again. *)
Admit(s) ==
    /\ conn[s] = "find"
    /\ conn' = [conn EXCEPT ![s] = "idle"]
    /\ live' = TRUE
    /\ UNCHANGED <<sock, count, incall, disc, timers, bounds, counted, raced>>

-----------------------------------------------------------------------------
(* A socket closes: both gateways' handleDisconnect *)

Drop(s) ==
    /\ sock[s] = "open"
    /\ sock' = [sock EXCEPT ![s] = "closed"]
    /\ count' = count - 1
    /\ counted' = counted \ {s}
    /\ disc' = [disc EXCEPT ![s] = IF count' <= 0 THEN "del" ELSE "idle"]
    /\ hang' = [hang EXCEPT ![s] = "armed"]

Disconnect(s) ==
    /\ Drop(s)
    /\ UNCHANGED <<live, incall, conn, off, pending, bounds, raced>>

(* Mutant: INCR before the check, and no DECR for a socket it refuses. *)
RefuseUncounted(s) ==
    /\ conn[s] = "find"
    /\ conn' = [conn EXCEPT ![s] = "idle"]
    /\ sock' = [sock EXCEPT ![s] = "closed"]
    /\ counted' = counted \ {s}
    /\ UNCHANGED <<count, live, incall, disc, timers, bounds, raced>>

(* The account is banned or gone: the server closes the socket. *)
Refuse(s) ==
    /\ conn[s] = "find"
    /\ conn' = [conn EXCEPT ![s] = "idle"]
    /\ \/ Drop(s)
       \/ sock[s] # "open" /\ UNCHANGED <<sock, count, counted, disc, hang>>
    /\ UNCHANGED <<live, incall, off, pending, bounds, raced>>

DropDel(s) ==
    /\ disc[s] = "del"
    /\ disc' = [disc EXCEPT ![s] = "arm"]
    /\ count' = 0
    /\ UNCHANGED <<sock, live, incall, conn, timers, bounds, counted, raced>>

Arm(s) ==
    /\ disc[s] = "arm"
    /\ disc' = [disc EXCEPT ![s] = "idle"]
    /\ off' = [off EXCEPT ![s] = "armed"]
    /\ pending' = s
    /\ UNCHANGED <<sock, count, live, incall, conn, hang, bounds, counted, raced>>

-----------------------------------------------------------------------------
(* The timers: look at the counter, then act on what it was *)

(* Mutant: the timer does not look again. *)
OfflineAnyway(s) ==
    /\ off[s] = "armed"
    /\ pending' = None
    /\ off' = [off EXCEPT ![s] = "clear"]
    /\ UNCHANGED <<sock, count, live, incall, conn, disc, hang, bounds, counted, raced>>

LookOffline(s) ==
    /\ off[s] = "armed"
    /\ pending' = None                 \* whoever's timer it is
    /\ off' = [off EXCEPT ![s] = IF count = 0 THEN "clear" ELSE "idle"]
    /\ UNCHANGED <<sock, count, live, incall, conn, disc, hang, bounds, counted, raced>>

GoOffline(s) ==
    /\ off[s] = "clear"
    /\ off' = [off EXCEPT ![s] = "idle"]
    /\ live' = FALSE
    /\ UNCHANGED <<sock, count, incall, conn, disc, pending, hang, bounds, counted, raced>>

(* Mutant: the comparison of the other timer. *)
HangupAtZero(s) ==
    /\ hang[s] = "armed"
    /\ hang' = [hang EXCEPT ![s] = IF count = 0 THEN "end" ELSE "idle"]
    /\ UNCHANGED <<sock, count, live, incall, conn, disc, off, pending, bounds, counted, raced>>

LookHangup(s) ==
    /\ hang[s] = "armed"
    /\ hang' = [hang EXCEPT ![s] = IF count > 0 THEN "idle" ELSE "end"]
    /\ UNCHANGED <<sock, count, live, incall, conn, disc, off, pending, bounds, counted, raced>>

HangupAll(s) ==
    /\ hang[s] = "end"
    /\ hang' = [hang EXCEPT ![s] = "idle"]
    /\ incall' = FALSE
    /\ UNCHANGED <<sock, count, live, conn, disc, off, pending, bounds, counted, raced>>

-----------------------------------------------------------------------------
(* What else touches the key and the seat *)

(* markOnline of a login; setPresence("online" or "away") *)
SetPresence ==
    /\ beats < MaxBeats
    /\ beats' = beats + 1
    /\ live' = TRUE
    /\ UNCHANGED <<sock, count, incall, conn, disc, timers, crashes, counted, raced>>

(* Mutant: the key is set without EX, and nobody logs out. *)
NeverExpires == FALSE /\ UNCHANGED vars

(* PRESENCE_TTL passes without a heartbeat; setPresence("offline");         *)
(* goOffline of a logout or a ban                                          *)
Expire ==
    /\ live
    /\ live' = FALSE
    /\ UNCHANGED <<sock, count, incall, conn, disc, timers, bounds, counted, raced>>

(* A client takes or leaves a seat while it is connected. *)
Seat ==
    /\ ~Gone
    /\ incall' = ~incall
    /\ UNCHANGED <<sock, count, live, conn, disc, timers, bounds, counted, raced>>

Crash ==
    /\ crashes < MaxCrashes
    /\ crashes' = crashes + 1
    /\ sock' = [s \in Sockets |-> IF sock[s] = "open" THEN "lost" ELSE sock[s]]
    /\ conn' = Quiet /\ disc' = Quiet /\ off' = Quiet /\ hang' = Quiet
    /\ pending' = None
    /\ UNCHANGED <<count, live, incall, beats, counted, raced>>

Continue(s) ==
    \/ Admit(s) \/ Refuse(s) \/ DropDel(s) \/ Arm(s)
    \/ LookOffline(s) \/ GoOffline(s) \/ LookHangup(s) \/ HangupAll(s)

Next ==
    \/ \E s \in Sockets : Connect(s) \/ Disconnect(s) \/ Continue(s)
    \/ SetPresence \/ Expire \/ Seat \/ Crash

Spec == Init /\ [][Next]_vars

(* Replies arrive, timers fire, a TTL passes.  Each step of a socket's     *)
(* handlers and timers has its own fairness, since they run side by side.  *)
Fairness ==
    /\ \A s \in Sockets :
        /\ WF_vars(Admit(s) \/ Refuse(s))
        /\ WF_vars(DropDel(s) \/ Arm(s))
        /\ WF_vars(LookOffline(s) \/ GoOffline(s))
        /\ WF_vars(LookHangup(s) \/ HangupAll(s))
    /\ WF_vars(Expire)

FairSpec == Spec /\ Fairness

-----------------------------------------------------------------------------
(* Properties *)

(* The counter never exceeds the sockets that were counted and not yet     *)
(* dropped, whatever order drops, deletes and connects come in: a user     *)
(* without sockets is never kept in a call by the counter alone            *)
(* (dropSocketConnection).  Sockets a restart lost stay counted.           *)
NeverOvercounts == count <= Cardinality(counted)

(* Until a connect comes between the DECR and the DEL of a drop, the       *)
(* counter is exact (addSocketConnection, dropSocketConnection).           *)
CountIsExact == ~raced => count = Cardinality(counted)

Judged(s) ==
    \/ hang[s] = "armed" /\ hang'[s] = "end"
    \/ off[s] = "armed" /\ off'[s] = "clear"

(* Until then too, a disconnect timer that finds the user gone is right:   *)
(* at that moment no socket of theirs is open, however connects, drops and *)
(* timers of other sockets overlap (handleDisconnect of both gateways).    *)
NotTakenForGone == [][\A s \in Sockets : Judged(s) /\ ~raced => Gone]_vars

(* A user in a call whose last socket closes comes back or is hung up,     *)
(* even if the counter was undercounted, unless the process dies first     *)
(* (hangupIfDisconnected).                                                 *)
LeftCallEnds == (incall /\ Gone /\ crashes = 0) ~> (~incall \/ ~Gone \/ crashes > 0)


-----------------------------------------------------------------------------
(* The inductive invariant of PresenceProofs *)

CountedAreBacked ==
    /\ Open \subseteq counted
    /\ \A s \in counted : sock[s] \in {"open", "lost"}

(* Unless a connect came in between, the DEL removes a counter at zero. *)
DelIsHarmless == ~raced /\ (\E s \in Sockets : disc[s] = "del") => counted = {}

CounterSound == CountedAreBacked /\ NeverOvercounts /\ CountIsExact /\ DelIsHarmless

(* Who left a call has a disconnect timer that will not spare them: it       *)
(* looks for count > 0, so that an undercount still hangs up.                *)
LeaverIsAwaited ==
    crashes = 0 =>
        /\ \A s \in Sockets : sock[s] # "lost"
        /\ incall /\ Gone => \E s \in Sockets : hang[s] # "idle"

IInv == TypeOK /\ CounterSound /\ LeaverIsAwaited
=============================================================================
