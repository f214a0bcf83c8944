------------------------------- MODULE Groups -------------------------------
(***************************************************************************)
(* One group conversation: its members array, changed by GroupsService     *)
(* (add, remove, promote, demote, leave) and by ConversationsService       *)
(* (delete for the viewer, mark read, the unread counts of a new message). *)
(*                                                                         *)
(* Every operation loads the document, works on its copy and saves it.     *)
(* Mongoose sends only what changed in the copy: fields of array elements  *)
(* by position, on condition that the array was not extended since the     *)
(* load (VersionError otherwise), and new elements with $push, which bumps *)
(* __v and has no condition.  `draft' is what such a save will send.       *)
(***************************************************************************)
EXTENDS Naturals, Sequences, FiniteSets

CONSTANTS
    Users,
    Founders,     \* the members array of createGroup; the first is the creator
    Callers,      \* bound: the users that make requests; all can be targets
    Deleters,     \* those who may use DELETE /conversations/:id on a group
    Requests,     \* bound: handlers in flight
    Overlap,      \* "none": one handler at a time; "traffic": messages and reads
                  \* overlap with everything, two membership changes never do; "all"
    MaxPosts,     \* bound: operations that post a message
    None

ASSUME GroupsAssumption ==
    /\ Founders \in Seq(Users)
    /\ \A i, j \in DOMAIN Founders : Founders[i] = Founders[j] => i = j
    /\ Len(Founders) > 3                     \* MIN_GROUP_MEMBERS others
    /\ Deleters \subseteq Callers /\ Callers \subseteq Users
    /\ Overlap \in {"none", "traffic", "all"}
    /\ MaxPosts \in Nat
    /\ IsFiniteSet(Requests)
    /\ None \notin Users

VARIABLES
    members,      \* the array, an entry per element
    version,      \* __v
    posts,        \* messages so far; also the clock joinedAt is read from
    owed,         \* auxiliary: messages of others since u last read or joined
    pc, op, who, target, draft

request == <<pc, op, who, target, draft>>
vars == <<members, version, posts, owed, request>>

Fields == {"user", "role", "left", "since", "unread"}
Entry  == [user : Users, role : {"admin", "member"}, left : BOOLEAN,
           since : 0..MaxPosts, unread : 0..MaxPosts]

Values(f) ==
    CASE f = "user" -> Users
      [] f = "role" -> {"admin", "member"}
      [] f = "left" -> BOOLEAN
      [] f \in {"since", "unread"} -> 0..MaxPosts

MemberDoc(u, r, now) == [user |-> u, role |-> r, left |-> FALSE, since |-> now, unread |-> 0]

NoDraft == [ver |-> 0, where |-> FALSE, set |-> <<>>, push |-> <<>>]

Membership == {"add", "remove", "role", "leave", "close", "hide"}

TypeOK ==
    /\ members \in Seq(Entry)
    /\ version \in 0..MaxPosts
    /\ posts \in 0..MaxPosts
    /\ owed \in [Users -> 0..MaxPosts]
    /\ pc \in [Requests -> {"idle", "save", "note", "bump"}]
    /\ op \in [Requests -> Membership \cup {"read", "send", "none"}]
    /\ who \in [Requests -> Users \cup {None}]
    /\ target \in [Requests -> Users \cup {None}]
    /\ draft = [p \in Requests |-> draft[p]]
    /\ \A p \in Requests : LET d == draft[p] IN
          /\ d = [ver |-> d.ver, where |-> d.where, set |-> d.set, push |-> d.push]
          /\ d.ver \in 0..version
          /\ d.where \in BOOLEAN
          /\ DOMAIN d.set \subseteq (DOMAIN members) \X Fields
          /\ \A w \in DOMAIN d.set : d.set[w] \in Values(w[2])
          /\ d.push \in Seq(Entry)

Init ==
    /\ posts = 0
    /\ members = [i \in DOMAIN Founders |-> MemberDoc(Founders[i], IF i = 1 THEN "admin" ELSE "member", 0)]
    /\ version = 0
    /\ owed = [u \in Users |-> 0]
    /\ pc = [p \in Requests |-> "idle"]
    /\ op = [p \in Requests |-> "none"]
    /\ who = [p \in Requests |-> None]
    /\ target = [p \in Requests |-> None]
    /\ draft = [p \in Requests |-> NoDraft]

-----------------------------------------------------------------------------
(* Reading a members array *)

Active(row) == {i \in DOMAIN row : ~row[i].left}
SeatsOf(row, u) == {i \in Active(row) : row[i].user = u}
In(row, u) == SeatsOf(row, u) # {}
First(S) == CHOOSE i \in S : \A j \in S : i <= j
activeMember(row, u) == First(SeatsOf(row, u))
Admins(row) == {i \in Active(row) : row[i].role = "admin"}
IsAdmin(row, u) == In(row, u) /\ row[activeMember(row, u)].role = "admin"

(* sort by joinedAt is stable: the earliest, and of those the first in the array *)
longestTenured(row, u) ==
    LET rest == {i \in Active(row) : row[i].user # u}
    IN  First({i \in rest : \A j \in rest : row[i].since <= row[j].since})

-----------------------------------------------------------------------------
(* Load and save *)

Changed(row, new) == {w \in (DOMAIN row) \X Fields : new[w[1]][w[2]] # row[w[1]][w[2]]}

(* What the copy `new' of the document sends; touch: some other field of an *)
(* element (lastReadAt) changes as well.                                    *)
Draft(new, touch) ==
    LET w == Changed(members, new)
    IN  [ver |-> version, where |-> touch \/ w # {},
         set |-> [x \in w |-> new[x[1]][x[2]]],
         push |-> SubSeq(new, Len(members) + 1, Len(new))]

(* What the server makes of the array `row'. *)
Applied(row, d) ==
    [i \in DOMAIN row |->
        [f \in Fields |-> IF <<i, f>> \in DOMAIN d.set THEN d.set[<<i, f>>] ELSE row[i][f]]]
    \o d.push

VersionError(d) == d.where /\ d.ver # version

Saved(d) ==
    /\ members' = Applied(members, d)
    /\ version' = version + Len(d.push)

Begin(p, o) ==
    /\ pc[p] = "idle"
    /\ Overlap = "none" => \A q \in Requests : pc[q] = "idle"
    /\ Overlap = "traffic" /\ o \in Membership =>
          \A q \in Requests : op[q] \notin Membership \/ pc[q] # "save"
    /\ op' = [op EXCEPT ![p] = o]

Finish(p) ==
    /\ pc' = [pc EXCEPT ![p] = "idle"]
    /\ op' = [op EXCEPT ![p] = "none"]
    /\ who' = [who EXCEPT ![p] = None]
    /\ target' = [target EXCEPT ![p] = None]
    /\ draft' = [draft EXCEPT ![p] = NoDraft]

(* The handler of viewer u about x read the document and turned it into new. *)
Load(p, u, x, new, touch) ==
    /\ pc' = [pc EXCEPT ![p] = "save"]
    /\ who' = [who EXCEPT ![p] = u]
    /\ target' = [target EXCEPT ![p] = x]
    /\ draft' = [draft EXCEPT ![p] = Draft(new, touch)]
    /\ UNCHANGED <<members, version, owed>>

Posting == posts < MaxPosts /\ posts' = posts + 1

-----------------------------------------------------------------------------
(* GroupsService *)

(* Mutants of AddMember: a new entry every time; the old entry as it was *)
AlwaysPushes(p, u, x) ==
    /\ Begin(p, "add")
    /\ Posting
    /\ IsAdmin(members, u)
    /\ ~In(members, x)
    /\ Load(p, u, x, Append(members, MemberDoc(x, "member", posts + 1)), FALSE)

RevivesAsIs(p, u, x) ==
    /\ Begin(p, "add")
    /\ Posting
    /\ IsAdmin(members, u)
    /\ ~In(members, x)
    /\ LET old == {i \in DOMAIN members : members[i].user = x}
           new == IF old = {} THEN Append(members, MemberDoc(x, "member", posts + 1))
                  ELSE [members EXCEPT ![First(old)].left = FALSE]
       IN  Load(p, u, x, new, old # {})

(* One candidate a request: an entry left behind is revived, or one is pushed. *)
AddMember(p, u, x) ==
    /\ Begin(p, "add")
    /\ Posting
    /\ IsAdmin(members, u)
    /\ ~In(members, x)
    /\ LET old == {i \in DOMAIN members : members[i].user = x}
           new == IF old = {} THEN Append(members, MemberDoc(x, "member", posts + 1))
                  ELSE [members EXCEPT ![First(old)] = MemberDoc(x, "member", posts + 1)]
       IN  Load(p, u, x, new, old # {})

RemoveMember(p, u, x) ==
    /\ Begin(p, "remove")
    /\ Posting
    /\ IsAdmin(members, u)
    /\ x # u
    /\ In(members, x)
    /\ Load(p, u, x, [members EXCEPT ![activeMember(members, x)].left = TRUE], FALSE)

SetAdmin(p, u, x, isAdmin) ==
    /\ Begin(p, "role")
    /\ Posting
    /\ IsAdmin(members, u)
    /\ In(members, x)
    /\ ~isAdmin /\ IsAdmin(members, x) => Cardinality(Admins(members)) > 1
    /\ x # u
    /\ Load(p, u, x,
            [members EXCEPT ![activeMember(members, x)].role = IF isAdmin THEN "admin" ELSE "member"],
            FALSE)

(* Mutant: off by one, nobody is promoted. *)
NobodyPromoted(row, u) ==
    IF /\ Cardinality(Admins(row)) < 1
       /\ IsAdmin(row, u)
      THEN [row EXCEPT ![longestTenured(row, u)].role = "admin"]
      ELSE row

(* The last admin hands over to the longest-tenured of the others. *)
Promoted(row, u) ==
    IF /\ Cardinality(Admins(row)) = 1
       /\ IsAdmin(row, u)
       /\ \E i \in Active(row) : row[i].user # u
      THEN [row EXCEPT ![longestTenured(row, u)].role = "admin"]
      ELSE row

(* "close": the copy has nobody else in it, so no line will be posted. *)
Leave(p, u) ==
    /\ Begin(p, IF \E i \in Active(members) : members[i].user # u THEN "leave" ELSE "close")
    /\ Posting
    /\ In(members, u)
    /\ Load(p, u, u, [Promoted(members, u) EXCEPT ![activeMember(members, u)].left = TRUE], FALSE)

-----------------------------------------------------------------------------
(* ConversationsService *)

(* deleteConversation of a group: hideForViewer *)
Hide(p, u) ==
    /\ Begin(p, "hide")
    /\ u \in Deleters
    /\ In(members, u)
    /\ Load(p, u, u, [members EXCEPT ![activeMember(members, u)].left = TRUE], FALSE)
    /\ UNCHANGED posts

(* markRead and resetUnread *)
Read(p, u) ==
    /\ Begin(p, "read")
    /\ In(members, u)
    /\ Load(p, u, u, [members EXCEPT ![activeMember(members, u)].unread = 0], TRUE)
    /\ UNCHANGED posts

(* send: the sender is a member; the message and the counts follow *)
Send(p, u) ==
    /\ Begin(p, "send")
    /\ Posting
    /\ In(members, u)
    /\ pc' = [pc EXCEPT ![p] = "note"]
    /\ who' = [who EXCEPT ![p] = u]
    /\ UNCHANGED <<members, version, owed, target, draft>>

(* A membership change goes on to sendSystem; the leaver's line has no sender. *)
Save(p) ==
    /\ pc[p] = "save"
    /\ IF VersionError(draft[p])
         THEN /\ Finish(p)
              /\ UNCHANGED <<members, version, owed>>
         ELSE /\ Saved(draft[p])
              /\ owed' = IF op[p] \in {"read", "add"} THEN [owed EXCEPT ![target[p]] = 0] ELSE owed
              /\ IF op[p] \in {"read", "hide", "close"}
                   THEN Finish(p)
                   ELSE /\ pc' = [pc EXCEPT ![p] = "note"]
                        /\ who' = [who EXCEPT ![p] = IF op[p] = "leave" THEN None ELSE @]
                        /\ draft' = [draft EXCEPT ![p] = NoDraft]
                        /\ UNCHANGED <<op, target>>
    /\ UNCHANGED posts

(* Mutants of Post: counted twice; counted for its author as well; the      *)
(* whole array is marked as changed and sent                                *)
CountsTwice(p) ==
    /\ pc[p] = "note"
    /\ LET others == {i \in Active(members) : members[i].user # who[p]}
           new == [i \in DOMAIN members |->
                     IF i \in others THEN [members[i] EXCEPT !.unread = @ + 2] ELSE members[i]]
       IN  /\ draft' = [draft EXCEPT ![p] = Draft(new, FALSE)]
           /\ owed' = [u \in Users |-> IF \E i \in others : members[i].user = u
                                         THEN owed[u] + 1 ELSE owed[u]]
    /\ pc' = [pc EXCEPT ![p] = "bump"]
    /\ UNCHANGED <<members, version, posts, op, who, target>>

CountsOwn(p) ==
    /\ pc[p] = "note"
    /\ LET others == {i \in Active(members) : members[i].user # who[p]}
           new == [i \in DOMAIN members |->
                     IF i \in Active(members) THEN [members[i] EXCEPT !.unread = @ + 1] ELSE members[i]]
       IN  /\ draft' = [draft EXCEPT ![p] = Draft(new, FALSE)]
           /\ owed' = [u \in Users |-> IF \E i \in others : members[i].user = u
                                         THEN owed[u] + 1 ELSE owed[u]]
    /\ pc' = [pc EXCEPT ![p] = "bump"]
    /\ UNCHANGED <<members, version, posts, op, who, target>>

MarksMembers(p) ==
    /\ pc[p] = "note"
    /\ LET others == {i \in Active(members) : members[i].user # who[p]}
           new == [i \in DOMAIN members |->
                     IF i \in others THEN [members[i] EXCEPT !.unread = @ + 1] ELSE members[i]]
       IN  /\ draft' = [draft EXCEPT ![p] = [Draft(new, TRUE) EXCEPT
                          !.set = [w \in (DOMAIN members) \X Fields |-> new[w[1]][w[2]]]]]
           /\ owed' = [u \in Users |-> IF \E i \in others : members[i].user = u
                                         THEN owed[u] + 1 ELSE owed[u]]
    /\ pc' = [pc EXCEPT ![p] = "bump"]
    /\ UNCHANGED <<members, version, posts, op, who, target>>

(* The message is stored, and bumpFromMessage loads the conversation. *)
Post(p) ==
    /\ pc[p] = "note"
    /\ LET others == {i \in Active(members) : members[i].user # who[p]}
           new == [i \in DOMAIN members |->
                     IF i \in others THEN [members[i] EXCEPT !.unread = @ + 1] ELSE members[i]]
       IN  /\ draft' = [draft EXCEPT ![p] = Draft(new, FALSE)]
           /\ owed' = [u \in Users |-> IF \E i \in others : members[i].user = u
                                         THEN owed[u] + 1 ELSE owed[u]]
    /\ pc' = [pc EXCEPT ![p] = "bump"]
    /\ UNCHANGED <<members, version, posts, op, who, target>>

Bump(p) ==
    /\ pc[p] = "bump"
    /\ IF VersionError(draft[p]) THEN UNCHANGED <<members, version>> ELSE Saved(draft[p])
    /\ Finish(p)
    /\ UNCHANGED <<posts, owed>>

-----------------------------------------------------------------------------
Request(p) ==
    \/ \E u \in Callers, x \in Users :
          \/ AddMember(p, u, x) \/ RemoveMember(p, u, x)
          \/ \E isAdmin \in BOOLEAN : SetAdmin(p, u, x, isAdmin)
    \/ \E u \in Callers : Leave(p, u) \/ Hide(p, u) \/ Read(p, u) \/ Send(p, u)

(* Every message may be used up and everyone may leave. *)
Next == \E p \in Requests : Request(p) \/ Save(p) \/ Post(p) \/ Bump(p)

Spec == Init /\ [][Next]_vars

-----------------------------------------------------------------------------
Quiet == \A p \in Requests : pc[p] = "idle"

(* A group with members has an admin among them (LAST_ADMIN_ERROR): leaving, *)
(* removing and demoting never take the last one away.                       *)
AdminRemains == Active(members) # {} => Admins(members) # {}

(* The array holds one entry per user, so finding the first entry of a user  *)
(* (activeMember) finds all there is to change.                              *)
OneEntry(row) == \A i, j \in DOMAIN row : row[i].user = row[j].user => i = j

OneEntryPerUser == OneEntry(members)

(* Coming back is coming back as a plain member with nothing unread: no role *)
(* or count from before, and none left by a change decided before.           *)
Plain(row, new) ==
    \A i \in DOMAIN row : row[i].left /\ ~new[i].left => new[i].role = "member" /\ new[i].unread = 0

RejoinIsPlain == [][Plain(members, members')]_vars

(* Handlers one at a time, unreadCount is exactly the number of messages of  *)
(* others since the member last read or joined.                              *)
Exact(row, count) == \A i \in Active(row) : row[i].unread = count[row[i].user]

UnreadExact == Quiet => Exact(members, owed)

(* Message traffic never disturbs the membership: with membership changes    *)
(* one at a time, the document behaves as the roster of Roster.              *)
People(row) == {row[i].user : i \in Active(row)}
AdminPeople(row) == {row[i].user : i \in Admins(row)}

Table == INSTANCE Roster WITH people <- People(members), admins <- AdminPeople(members),
                              Creator <- Founders[1],
                              Originals <- {Founders[i] : i \in DOMAIN Founders}

ImplementsRoster == Table!Spec

-----------------------------------------------------------------------------
(* The inductive invariant of GroupsProofs *)

(* Whose line or message is still to be counted, and who will push an entry *)
Owing == {p \in Requests : pc[p] = "note" \/ (pc[p] = "save" /\ op[p] \notin {"read", "hide", "close"})}
Pushing == {p \in Requests : pc[p] = "save" /\ draft[p].push # <<>>}

(* Every count and every push comes from a post of its own. *)
Counted ==
    LET most == posts - Cardinality(Owing)
    IN  /\ most >= 0
        /\ \A i \in DOMAIN members : members[i].unread <= most
        /\ \A u \in Users : owed[u] <= most
        /\ \A p \in Requests :
              /\ \A w \in DOMAIN draft[p].set : w[2] = "unread" => draft[p].set[w] <= most
              /\ \A i \in DOMAIN draft[p].push : draft[p].push[i].unread = 0
              /\ Len(draft[p].push) <= 1
        /\ version + Cardinality(Pushing) <= posts

Harmless(d) == d.push = <<>> /\ \A w \in DOMAIN d.set : w[2] = "unread"

(* Where a handler can be, given what it does *)
Places ==
    \A p \in Requests :
       /\ pc[p] = "idle" => op[p] = "none"
       /\ pc[p] = "save" => op[p] \in Membership \cup {"read"} /\ {who[p], target[p]} \subseteq Users
       /\ pc[p] \in {"note", "bump"} => op[p] \in {"add", "remove", "role", "leave", "send"}
       /\ op[p] = "read" \/ pc[p] = "bump" => Harmless(draft[p])
       /\ op[p] = "hide" => Deleters # {}

(* What a membership change o of u about x makes of the array *)
Change(o, u, x, row, new) ==
    LET in == People(row)
        run == AdminPeople(row)
    IN  /\ o = "add" => u \in run /\ x \notin in /\ People(new) = in \cup {x} /\ AdminPeople(new) = run
        /\ o = "remove" =>
              u \in run /\ x \in in \ {u} /\ People(new) = in \ {x} /\ AdminPeople(new) = run \ {x}
        /\ o = "role" =>
              u \in run /\ x \in in \ {u} /\ People(new) = in /\ AdminPeople(new) \in {run \cup {x}, run \ {x}}
        /\ o \in {"leave", "close"} =>
              /\ u \in in /\ People(new) = in \ {u}
              /\ \/ run # {u} /\ AdminPeople(new) = run \ {u}
                 \/ in = {u} /\ AdminPeople(new) = {}
                 \/ run = {u} /\ \E heir \in in \ {u} : AdminPeople(new) = {heir}

Changing(p) == pc[p] = "save" /\ op[p] \in Membership

(* A change of the membership that nothing but traffic overlaps still is what *)
(* it was when the document was loaded.                                       *)
ChangesHold ==
    Overlap # "all" =>
       /\ OneEntry(members)
       /\ \A p, q \in Requests : Changing(p) /\ Changing(q) => p = q
       /\ \A p \in Requests : Changing(p) =>
             LET new == Applied(members, draft[p])
             IN  OneEntry(new) /\ Change(op[p], who[p], target[p], members, new)

(* A handler that nothing overlaps saves the copy it made. *)
CopiesHold ==
    Overlap = "none" =>
       /\ \A p, q \in Requests : pc[p] # "idle" /\ pc[q] # "idle" => p = q
       /\ (\A p \in Requests : pc[p] # "bump") => Exact(members, owed)
       /\ \A p \in Requests :
             LET new == Applied(members, draft[p])
             IN  /\ pc[p] \in {"save", "bump"} => draft[p].ver = version
                 /\ pc[p] = "bump" => Exact(new, owed)
                 /\ pc[p] = "save" =>
                       /\ Plain(members, new)
                       /\ Exact(new, IF op[p] \in {"read", "add"} THEN [owed EXCEPT ![target[p]] = 0] ELSE owed)

IInv == TypeOK /\ Counted /\ Places /\ ChangesHold /\ CopiesHold
=============================================================================
