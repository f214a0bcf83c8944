------------------------------ MODULE Contacts ------------------------------
(***************************************************************************)
(* Two people: their contacts, blocks, their one direct chat and the Redis *)
(* caches of who is restricted for whom (ContactsService, BlocksService,   *)
(* the direct part of ConversationsService, send of MessagesService).      *)
(*                                                                         *)
(* A request is the list of its remaining accesses to MongoDB and Redis,   *)
(* one action each; requests interleave between any two of them.  The row  *)
(* a handler loaded is kept as `draft', the fields its save will set: the  *)
(* members array of a direct chat never grows, so no save is conditional.  *)
(***************************************************************************)
EXTENDS Naturals, Sequences

CONSTANTS
    Users,        \* the pair
    Requests,     \* bound: handlers in flight
    Overlap,      \* bound: of what writes, only these overlap with each other
    MaxPosts,     \* bound: messages stored in the chat
    None

ASSUME ContactsAssumption ==
    /\ \E a, b \in Users : a # b /\ Users = {a, b}
    /\ Overlap \subseteq {"follow", "open", "unfollow", "block", "unblock", "send", "delete"}
    /\ MaxPosts \in Nat
    /\ None \notin Users

VARIABLES
    contacts,     \* rows <<owner, person>>
    blocks,       \* rows <<blocker, blocked>>
    chat,         \* the direct conversation of the pair, or None
    posts,        \* its messages
    cache,        \* blocks:restricted:<user>, a set of users or None
    task,         \* the handler of each request
    raced,        \* auxiliary: handlers that write have overlapped
    stale         \* auxiliary: users whose cache was filled from old rows

rows == <<contacts, blocks, chat, posts>>
vars == <<rows, cache, task, raced, stale>>

Peer(u) == CHOOSE v \in Users : v # u

(* leftAt and archived of each member, and whether lastMessage is set *)
Fields == ({"left", "archived"} \X Users) \cup {<<"last", None>>}
Last == <<"last", None>>

Steps == {"check", "contact?", "contact", "direct?", "direct", "uncontact", "hide?", "save",
          "block", "bust", "archive?", "unblock", "member", "post", "bump?", "wipe", "drop",
          "cached", "load", "fill"}

Idle == [op |-> "none", by |-> None, todo |-> <<>>, draft |-> <<>>, loaded |-> {}]

Writes == {"follow", "open", "unfollow", "block", "unblock", "send", "delete"}
Ops == Writes \cup {"list"}
Pairs == {p \in Users \X Users : p[1] # p[2]}

TypeOK ==
    /\ contacts \subseteq Pairs
    /\ blocks \subseteq Pairs
    /\ chat \in [Fields -> BOOLEAN] \cup {None}
    /\ posts \in 0..MaxPosts
    /\ cache \in [Users -> (SUBSET Users) \cup {None}]
    /\ task \in [Requests ->
          [op : Ops \cup {"none"}, by : Users \cup {None}, todo : Seq(Steps \X Users),
           draft : UNION {[S -> BOOLEAN] : S \in SUBSET Fields}, loaded : SUBSET Users]]
    /\ \A r \in Requests : task[r].todo = <<>> => task[r] = Idle
    /\ raced \in BOOLEAN
    /\ stale \subseteq Users

Init ==
    /\ contacts = {}
    /\ blocks = {}
    /\ chat = None
    /\ posts = 0
    /\ cache = [u \in Users |-> None]
    /\ task = [r \in Requests |-> Idle]
    /\ raced = FALSE
    /\ stale = {}

-----------------------------------------------------------------------------
(* The handlers, as the accesses they make *)

remove(u) == <<<<"uncontact", u>>, <<"hide?", u>>, <<"save", u>>>>

(* Mutant: only the blocker's own contact goes. *)
OwnContactOnly(u) == remove(u) \o <<<<"archive?", u>>, <<"save", u>>>>

(* afterBlock: one try around both removals, one around the archiving *)
afterBlock(u) == remove(u) \o remove(Peer(u)) \o <<<<"archive?", u>>, <<"save", u>>>>

createDirect(u) == <<<<"check", u>>, <<"direct?", u>>>>

(* Mutant: the caches are left to expire. *)
NoBust(op, u) ==
    CASE op = "follow"   -> <<<<"check", u>>, <<"contact?", u>>, <<"contact", u>>>> \o createDirect(u)
      [] op = "open"     -> createDirect(u)
      [] op = "unfollow" -> remove(u)
      [] op = "block"    -> <<<<"block", u>>, <<"bust", u>>>> \o afterBlock(u)
      [] op = "unblock"  -> <<<<"unblock", u>>>>
      [] op = "send"     -> <<<<"member", u>>, <<"check", u>>, <<"post", u>>, <<"bump?", u>>, <<"save", u>>>>
      [] op = "delete"   -> <<<<"member", u>>, <<"wipe", u>>, <<"drop", u>>>>
      [] op = "list"     -> <<<<"cached", u>>, <<"load", u>>, <<"fill", u>>>>

Program(op, u) ==
    CASE op = "follow"   -> <<<<"check", u>>, <<"contact?", u>>, <<"contact", u>>>> \o createDirect(u)
      [] op = "open"     -> createDirect(u)
      [] op = "unfollow" -> remove(u)
      [] op = "block"    -> <<<<"block", u>>, <<"bust", u>>>> \o afterBlock(u)
      [] op = "unblock"  -> <<<<"unblock", u>>, <<"bust", u>>>>
      [] op = "send"     -> <<<<"member", u>>, <<"check", u>>, <<"post", u>>, <<"bump?", u>>, <<"save", u>>>>
      [] op = "delete"   -> <<<<"member", u>>, <<"wipe", u>>, <<"drop", u>>>>
      [] op = "list"     -> <<<<"cached", u>>, <<"load", u>>, <<"fill", u>>>>

Begin(r, op, u) ==
    LET others == {task[q].op : q \in Requests} \cap Writes
        busy == op \in Writes /\ others # {}
    IN  /\ task[r] = Idle
        /\ busy => {op} \cup others \subseteq Overlap
        /\ raced' = (raced \/ busy)
        /\ task' = [task EXCEPT ![r] = [Idle EXCEPT !.op = op, !.by = u, !.todo = Program(op, u)]]
        /\ UNCHANGED <<rows, cache, stale>>

-----------------------------------------------------------------------------
(* Going on to the step after n others, or ending *)

At(r, step) == task[r].todo # <<>> /\ Head(task[r].todo)[1] = step
Who(r) == Head(task[r].todo)[2]

Skipping(r, n, draft, loaded) ==
    LET rest == SubSeq(task[r].todo, n + 2, Len(task[r].todo))
    IN  task' = [task EXCEPT ![r] =
                   IF rest = <<>> THEN Idle
                   ELSE [@ EXCEPT !.todo = rest, !.draft = draft, !.loaded = loaded]]

Then(r) == Skipping(r, 0, <<>>, {})
ThenSave(r, draft) == Skipping(r, 0, draft, {})

End(r) == task' = [task EXCEPT ![r] = Idle]

Goto(r, todo, draft) == task' = [task EXCEPT ![r].todo = todo, ![r].draft = draft]

(* A throw: afterBlock swallows it and goes on to the archiving. *)
Throw(r) ==
    LET t == task[r].todo
        ahead == {i \in 2..Len(t) : t[i][1] = "archive?"}
    IN  IF ahead = {} THEN End(r)
        ELSE Goto(r, SubSeq(t, CHOOSE i \in ahead : TRUE, Len(t)), <<>>)

Blocked == blocks # {}
Restricted(u) == {v \in Users \ {u} : <<u, v>> \in blocks \/ <<v, u>> \in blocks}
Active(u) == chat # None /\ ~chat[<<"left", u>>]
Set(field, u, value) == [f \in {<<field, u>>} |-> value]

(* Mutant: only what the other side blocked counts. *)
OneWay(r) ==
    /\ At(r, "check")
    /\ IF <<Peer(Who(r)), Who(r)>> \in blocks THEN End(r) ELSE Then(r)
    /\ UNCHANGED <<rows, cache, stale, raced>>

(* assertNotBlocked *)
check(r) ==
    /\ At(r, "check")
    /\ IF Blocked THEN End(r) ELSE Then(r)
    /\ UNCHANGED <<rows, cache, stale, raced>>

-----------------------------------------------------------------------------
(* ContactsService *)

findContact(r) ==
    /\ At(r, "contact?")
    /\ IF <<Who(r), Peer(Who(r))>> \in contacts THEN Skipping(r, 1, <<>>, {}) ELSE Then(r)
    /\ UNCHANGED <<rows, cache, stale, raced>>

(* A duplicate is answered from the row, and opens no chat. *)
createContact(r) ==
    /\ At(r, "contact")
    /\ IF <<Who(r), Peer(Who(r))>> \in contacts THEN End(r) ELSE Then(r)
    /\ contacts' = contacts \cup {<<Who(r), Peer(Who(r))>>}
    /\ UNCHANGED <<blocks, chat, posts, cache, stale, raced>>

deleteContact(r) ==
    /\ At(r, "uncontact")
    /\ contacts' = contacts \ {<<Who(r), Peer(Who(r))>>}
    /\ Then(r)
    /\ UNCHANGED <<blocks, chat, posts, cache, stale, raced>>

-----------------------------------------------------------------------------
(* The direct chat *)

(* ensureDirectMembers brings both back; archived stays as it was. *)
findDirect(r) ==
    /\ At(r, "direct?")
    /\ IF chat = None THEN Goto(r, <<<<"direct", Who(r)>>>>, <<>>)
       ELSE Goto(r, <<<<"save", Who(r)>>>>,
                 [f \in {<<"left", v>> : v \in {w \in Users : ~Active(w)}} |-> FALSE])
    /\ UNCHANGED <<rows, cache, stale, raced>>

(* Mutant: the chat is created with the viewer as its only member. *)
OneMember(r) ==
    /\ At(r, "direct")
    /\ chat' = IF chat = None THEN [f \in {g \in Fields : g[2] # Peer(Who(r))} |-> FALSE] ELSE chat
    /\ posts' = posts
    /\ End(r)
    /\ UNCHANGED <<contacts, blocks, cache, stale, raced>>

(* pairKey is unique: the loser answers with the winner's chat. *)
insertDirect(r) ==
    /\ At(r, "direct")
    /\ chat' = IF chat = None THEN [f \in Fields |-> FALSE] ELSE chat
    /\ posts' = posts
    /\ End(r)
    /\ UNCHANGED <<contacts, blocks, cache, stale, raced>>

hideDirectIfEmpty(r) ==
    /\ At(r, "hide?")
    /\ IF Active(Who(r)) /\ ~chat[Last]
         THEN ThenSave(r, Set("left", Who(r), TRUE))
         ELSE Skipping(r, 1, <<>>, {})
    /\ UNCHANGED <<rows, cache, stale, raced>>

archiveDirectBetween(r) ==
    /\ At(r, "archive?")
    /\ IF Active(Who(r)) THEN ThenSave(r, Set("archived", Who(r), TRUE)) ELSE End(r)
    /\ UNCHANGED <<rows, cache, stale, raced>>

(* save() of a row that was deleted throws. *)
save(r) ==
    /\ At(r, "save")
    /\ IF chat = None THEN Throw(r) ELSE Then(r)
    /\ chat' = IF chat = None THEN None
               ELSE [f \in Fields |-> IF f \in DOMAIN task[r].draft THEN task[r].draft[f] ELSE chat[f]]
    /\ UNCHANGED <<contacts, blocks, posts, cache, stale, raced>>

(* assertMember of send (a peer who is not active is not looked at, and so *)
(* not checked against the blocks), requireMine of deleteConversation      *)
loadMember(r) ==
    /\ At(r, "member")
    /\ IF ~Active(Who(r)) THEN End(r)
       ELSE IF task[r].op = "send" /\ ~Active(Peer(Who(r))) THEN Skipping(r, 1, <<>>, {})
       ELSE Then(r)
    /\ UNCHANGED <<rows, cache, stale, raced>>

post(r) ==
    /\ At(r, "post")
    /\ posts < MaxPosts
    /\ posts' = posts + 1
    /\ Then(r)
    /\ UNCHANGED <<contacts, blocks, chat, cache, stale, raced>>

bumpFromMessage(r) ==
    /\ At(r, "bump?")
    /\ IF chat = None THEN End(r) ELSE ThenSave(r, Set("last", None, TRUE))
    /\ UNCHANGED <<rows, cache, stale, raced>>

deleteMessages(r) ==
    /\ At(r, "wipe")
    /\ posts' = 0
    /\ Then(r)
    /\ UNCHANGED <<contacts, blocks, chat, cache, stale, raced>>

deleteChat(r) ==
    /\ At(r, "drop")
    /\ chat' = None
    /\ Then(r)
    /\ UNCHANGED <<contacts, blocks, posts, cache, stale, raced>>

-----------------------------------------------------------------------------
(* BlocksService *)

(* Blocking twice does nothing more. *)
createBlock(r) ==
    /\ At(r, "block")
    /\ blocks' = blocks \cup {<<Who(r), Peer(Who(r))>>}
    /\ IF blocks' = blocks THEN End(r) ELSE Then(r)
    /\ UNCHANGED <<contacts, chat, posts, cache, stale, raced>>

deleteBlock(r) ==
    /\ At(r, "unblock")
    /\ blocks' = blocks \ {<<Who(r), Peer(Who(r))>>}
    /\ Then(r)
    /\ UNCHANGED <<contacts, chat, posts, cache, stale, raced>>

bustRestricted(r) ==
    /\ At(r, "bust")
    /\ cache' = [u \in Users |-> None]
    /\ stale' = {}
    /\ Then(r)
    /\ UNCHANGED <<rows, raced>>

(* restrictedIds, for search, contacts, suggestions and the chat list *)
cacheGet(r) ==
    /\ At(r, "cached")
    /\ IF cache[Who(r)] # None THEN End(r) ELSE Then(r)
    /\ UNCHANGED <<rows, cache, stale, raced>>

loadRestricted(r) ==
    /\ At(r, "load")
    /\ Skipping(r, 0, <<>>, Restricted(Who(r)))
    /\ UNCHANGED <<rows, cache, stale, raced>>

cacheSet(r) ==
    /\ At(r, "fill")
    /\ cache' = [cache EXCEPT ![Who(r)] = task[r].loaded]
    /\ stale' = IF task[r].loaded = Restricted(Who(r)) THEN stale \ {Who(r)} ELSE stale \cup {Who(r)}
    /\ Then(r)
    /\ UNCHANGED <<rows, raced>>

(* Mutant: the entry has no lifetime. *)
NoExpiry(u) == FALSE /\ UNCHANGED vars

(* 30 seconds *)
Expire(u) ==
    /\ cache[u] # None
    /\ cache' = [cache EXCEPT ![u] = None]
    /\ stale' = stale \ {u}
    /\ UNCHANGED <<rows, task, raced>>

-----------------------------------------------------------------------------
Step(r) ==
    \/ check(r) \/ findContact(r) \/ createContact(r) \/ deleteContact(r)
    \/ findDirect(r) \/ insertDirect(r) \/ hideDirectIfEmpty(r) \/ archiveDirectBetween(r) \/ save(r)
    \/ loadMember(r) \/ post(r) \/ bumpFromMessage(r) \/ deleteMessages(r) \/ deleteChat(r)
    \/ createBlock(r) \/ deleteBlock(r) \/ bustRestricted(r)
    \/ cacheGet(r) \/ loadRestricted(r) \/ cacheSet(r)

Next ==
    \/ \E r \in Requests, u \in Users, op \in Ops : Begin(r, op, u)
    \/ \E r \in Requests : Step(r)
    \/ \E u \in Users : Expire(u)

Spec == Init /\ [][Next]_vars

(* Handlers run on; Redis drops what has expired. *)
FairSpec ==
    /\ Spec
    /\ \A r \in Requests : WF_vars(Step(r))
    /\ \A u \in Users : WF_vars(Expire(u))

-----------------------------------------------------------------------------
(* What searching, the directory, the contacts and the chat list leave out *)
Skip(u) == IF cache[u] # None THEN cache[u] ELSE Restricted(u)

Shown(u) == (Users \ {u}) \ Skip(u)

Suggested(u) == {v \in Shown(u) : Active(u) /\ Active(v) /\ <<u, v>> \notin contacts}

Following(u) == {v \in Shown(u) : <<u, v>> \in contacts}

Listed(u) == Active(u) /\ ~chat[<<"archived", u>>] /\ (Active(Peer(u)) => Peer(u) \in Shown(u))

(* Unless handlers overlapped, blocked people do not have each other as a  *)
(* contact: the block takes both rows away and nothing brings one back.    *)
BlockedHaveNoContact ==
    ~raced /\ (\A r \in Requests : task[r].op # "block") /\ Blocked => contacts = {}

(* A cache that is filled tells the truth once the handler that changed the *)
(* rows has dropped it, but for one filled from rows read before a change.  *)
CacheIsTrue ==
    \A u \in Users :
       \/ cache[u] \in {None, Restricted(u)}
       \/ u \in stale
       \/ \E r \in Requests : \E i \in DOMAIN task[r].todo : task[r].todo[i][1] = "bust"

(* A block that stays hides the two from each other for good, whatever was  *)
(* in the caches and whoever was about to fill them.                        *)
BlockTakesHold == <>[]Blocked => \A u \in Users : <>[](Peer(u) \notin Shown(u))

(* Unless handlers overlapped, a message across a block only reaches a chat *)
(* that one of the two has left: send looks at the members who are active.  *)
OnlyLeftChatsPassBlocks ==
    [][posts' > posts /\ ~raced /\ Blocked => \E u \in Users : ~Active(u)]_vars

-----------------------------------------------------------------------------
(* The inductive invariant of ContactsProofs *)

(* A handler has the end of its program left, or what findDirect put there. *)
Placed(t) ==
    t # Idle =>
       /\ t.op \in Ops /\ t.by \in Users /\ t.todo # <<>>
       /\ \/ /\ t.op \in {"follow", "open"}
             /\ Len(t.todo) = 1 /\ t.todo[1] \in {"direct", "save"} \X Users
          \/ LET all == Program(t.op, t.by)
                 done == Len(all) - Len(t.todo)
             IN  Len(t.todo) <= Len(all) /\ \A i \in DOMAIN t.todo : t.todo[i] = all[done + i]

(* The accesses a handler of op has left *)
Left(r, op) == IF task[r].op = op THEN Len(task[r].todo) ELSE 0

(* Whoever changed the rows is about to drop the caches. *)
CacheSound ==
    \A u \in Users : cache[u] \in {None, Restricted(u)} \/ u \in stale \/ \E r \in Requests : At(r, "bust")

(* The only writer: what it found is still so. *)
AloneSound ==
    ~raced =>
       /\ \A q, r \in Requests : task[q].op \in Writes /\ task[r].op \in Writes => q = r
       /\ Blocked /\ contacts # {} => \E r \in Requests : Left(r, "block") \in 5..9
       /\ \A r \in Requests :
             /\ Left(r, "follow") \in {3, 4} => ~Blocked
             /\ Left(r, "block") \in 5..7 => <<task[r].by, Peer(task[r].by)>> \notin contacts
             /\ Left(r, "block") \in {3, 6} => chat # None
             /\ At(r, "post") => ~Blocked \/ \E u \in Users : ~Active(u)

IInv ==
    /\ TypeOK
    /\ \A r \in Requests : Placed(task[r])
    /\ CacheSound
    /\ AloneSound
=============================================================================
