------------------------------ MODULE Profiles ------------------------------
(***************************************************************************)
(* Who an account is: its e-mail, its username, the identities of OAuth    *)
(* providers linked to it, the owner flag and its photo (UsersService, the *)
(* sign-up and OAuth half of AuthService, the group photo of               *)
(* ConversationsService, the photos at Cloudinary).                        *)
(*                                                                         *)
(* A request reads, then writes what it computed from the read, one access *)
(* per action; requests interleave anywhere.  Saves set the fields the     *)
(* handler changed, except `providers', which is saved as a whole.         *)
(***************************************************************************)
EXTENDS Naturals, FiniteSets

CONSTANTS
    Accounts,     \* bound: accounts ever created
    Groups,       \* group chats, which carry a photo like an account does
    Emails, Names,
    Root(_),      \* the username an e-mail suggests
    Providers,
    Identities,   \* the ids a provider gives to people
    Requests,     \* bound: handlers in flight
    MaxPhotos,    \* bound: photos uploaded
    None

ASSUME ProfilesAssumption ==
    /\ Accounts \cap Groups = {}
    /\ \A e \in Emails : Root(e) \in Names
    /\ MaxPhotos \in Nat
    /\ None \notin Accounts \cup Groups \cup Emails \cup Names \cup Providers \cup Identities

VARIABLES
    users,        \* the accounts that exist
    photo,        \* the photo each account or group shows
    stored,       \* photos at Cloudinary
    intent,       \* oauth:link:<user>, the provider it is about to link
    run,          \* the handler of each request
    uploads,      \* photos ever uploaded, their ids
    rushed        \* auxiliary: sign-ups have overlapped before there was an account

vars == <<users, photo, stored, intent, run, uploads, rushed>>

Bearers == Accounts \cup Groups
Exists == DOMAIN users
NoIds == [p \in Providers |-> None]

Steps == {"idle", "name", "owner", "insert", "consume", "del", "load", "taken", "find", "findmail", "apply",
          "free?", "rename", "upload", "save", "destroy", "removal", "destroyfirst", "clear"}

Idle == [pc |-> "idle", who |-> None, mail |-> None, name |-> None, provider |-> None, id |-> None,
         ids |-> NoIds, owner |-> FALSE, photo |-> 0, new |-> 0, alone |-> TRUE]

TypeOK ==
    /\ Exists \subseteq Accounts
    /\ \A a \in Exists :
          users[a] \in [mail : Emails \cup {None}, name : Names, ids : [Providers -> Identities \cup {None}],
                        owner : BOOLEAN, banned : BOOLEAN, deleted : BOOLEAN]
    /\ photo \in [Bearers -> 0..MaxPhotos]
    /\ stored \subseteq 1..MaxPhotos
    /\ intent \in [Accounts -> Providers \cup {None}]
    /\ run \in [Requests ->
          [pc : Steps, who : Bearers \cup {None}, mail : Emails \cup {None}, name : Names \cup {None},
           provider : Providers \cup {None}, id : Identities \cup {None},
           ids : [Providers -> Identities \cup {None}], owner : BOOLEAN, photo : 0..MaxPhotos,
           new : 0..MaxPhotos, alone : BOOLEAN]]
    /\ uploads \in 0..MaxPhotos
    /\ rushed \in BOOLEAN
    /\ \A a, b \in Exists : a # b => users[a].name # users[b].name

Init ==
    /\ users = [a \in {} |-> None]
    /\ photo = [b \in Bearers |-> 0]
    /\ stored = {}
    /\ intent = [a \in Accounts |-> None]
    /\ run = [r \in Requests |-> Idle]
    /\ uploads = 0
    /\ rushed = FALSE

-----------------------------------------------------------------------------
assertAllowed(a) == ~users[a].banned /\ ~users[a].deleted
findActiveById(a) == a \in Exists /\ assertAllowed(a)
findByEmail(e) == {a \in Exists : users[a].mail = e}
findByProvider(p, i) == {a \in Exists : users[a].ids[p] = i}
Named(n) == {a \in Exists : users[a].name = n}

At(r, step) == run[r].pc = step
Going(r, record) == run' = [run EXCEPT ![r] = record]
Goto(r, step) == Going(r, [run[r] EXCEPT !.pc = step])
End(r) == Going(r, Idle)

Creating(r) == run[r].pc \in {"find", "findmail", "name", "owner", "insert", "consume", "del"}

(* A request arrives; `alone' tells whether another ran beside it.  bound:  *)
(* photos change last and while there is one account: the handlers of photos *)
(* share no state with the others, but that they ask for an active account. *)
OfPhotos(record) == record.pc \in {"upload", "save", "destroy", "destroyfirst", "clear"}

Arrive(r, record) ==
    LET others == {q \in Requests : run[q] # Idle}
    IN  /\ At(r, "idle")
        /\ IF OfPhotos(record) THEN Cardinality(Exists) = 1 /\ \A q \in others : OfPhotos(run[q])
           ELSE uploads = 0 /\ \A q \in others : ~OfPhotos(run[q])
        /\ run' = [q \in Requests |->
                     IF q = r THEN [record EXCEPT !.alone = others = {}]
                     ELSE IF q \in others THEN [run[q] EXCEPT !.alone = FALSE] ELSE Idle]

(* bound: a slot for every account a handler may still create *)
Room == Cardinality(Exists \cup {q \in Requests : Creating(q)}) < Cardinality(Accounts)

SignUp(r, record) ==
    /\ Room
    /\ Arrive(r, record)
    /\ rushed' = (rushed \/ (Exists = {} /\ \E q \in Requests : Creating(q)))
    /\ UNCHANGED <<users, photo, stored, intent, uploads>>

-----------------------------------------------------------------------------
(* Signing up *)

register(r, e) ==
    /\ findByEmail(e) = {}
    /\ SignUp(r, [Idle EXCEPT !.pc = "name", !.mail = e])

(* uniqueUsername: the name the e-mail suggests or, when taken, a random   *)
(* one; the last resort is a timestamp nobody looks up.                    *)
uniqueUsername(r) ==
    LET root == Root(run[r].mail)
    IN  /\ At(r, "name")
        /\ \E n \in IF Named(root) = {} THEN {root} ELSE Names \ {root} :
              Going(r, [run[r] EXCEPT !.pc = "owner", !.name = n])
        /\ UNCHANGED <<users, photo, stored, intent, uploads, rushed>>

(* Mutant: an account whose only predecessors were deleted owns the place. *)
OwnerIfNoneActive(r) ==
    /\ At(r, "owner")
    /\ Going(r, [run[r] EXCEPT !.pc = "insert", !.owner = \A a \in Exists : ~assertAllowed(a)])
    /\ UNCHANGED <<users, photo, stored, intent, uploads, rushed>>

(* baseAccount: isOwner is "there is no account yet" *)
baseAccount(r) ==
    /\ At(r, "owner")
    /\ Going(r, [run[r] EXCEPT !.pc = "insert", !.owner = Exists = {}])
    /\ UNCHANGED <<users, photo, stored, intent, uploads, rushed>>

(* Mutant: nothing but the e-mail is unique. *)
OnlyMailUnique(a, mail, name, ids) == mail # None => findByEmail(mail) \ {a} = {}

(* The unique indexes: e-mail, username, each provider's id *)
Fits(a, mail, name, ids) ==
    \A b \in Exists \ {a} :
       /\ mail # None => users[b].mail # mail
       /\ users[b].name # name
       /\ \A p \in Providers : ids[p] # None => users[b].ids[p] # ids[p]

(* A duplicate is refused.  There is room, see Room. *)
create(r) ==
    LET m == run[r]
        a == CHOOSE b \in Accounts : b \notin Exists
        row == [mail |-> m.mail, name |-> m.name, ids |-> m.ids, owner |-> m.owner,
                banned |-> FALSE, deleted |-> FALSE]
    IN  /\ At(r, "insert")
        /\ Exists # Accounts
        /\ users' = IF Fits(a, m.mail, m.name, m.ids)
                      THEN [b \in Exists \cup {a} |-> IF b = a THEN row ELSE users[b]]
                      ELSE users
        /\ End(r)
        /\ UNCHANGED <<photo, stored, intent, uploads, rushed>>

-----------------------------------------------------------------------------
(* OAuth *)

startOAuthLink(r, a, p) ==
    /\ At(r, "idle")
    /\ findActiveById(a)
    /\ intent' = [intent EXCEPT ![a] = p]
    /\ UNCHANGED <<users, photo, stored, run, uploads, rushed>>

LinkExpires(a) ==
    /\ intent[a] # None
    /\ intent' = [intent EXCEPT ![a] = None]
    /\ UNCHANGED <<users, photo, stored, run, uploads, rushed>>

(* The callback, with the account of the session cookie or without one.    *)
upsertOAuthUser(r, p, i, e, session) ==
    LET known == session # None /\ findActiveById(session)
    IN  SignUp(r, [Idle EXCEPT !.pc = IF known THEN "consume" ELSE "find", !.who = IF known THEN session ELSE None,
                               !.provider = p, !.id = i, !.mail = e])

(* consumeOAuthLink, a GET and a DEL *)
getIntent(r) ==
    /\ At(r, "consume")
    /\ IF intent[run[r].who] = None THEN Going(r, [run[r] EXCEPT !.pc = "find", !.who = None])
       ELSE Going(r, [run[r] EXCEPT !.pc = "del", !.owner = intent[run[r].who] = run[r].provider])
    /\ UNCHANGED <<users, photo, stored, intent, uploads, rushed>>

delIntent(r) ==
    /\ At(r, "del")
    /\ intent' = [intent EXCEPT ![run[r].who] = None]
    /\ Going(r, IF run[r].owner THEN [run[r] EXCEPT !.pc = "load", !.mail = None, !.owner = FALSE]
                ELSE [run[r] EXCEPT !.pc = "find", !.who = None])
    /\ UNCHANGED <<users, photo, stored, uploads, rushed>>

Found(r, a) == Going(r, [run[r] EXCEPT !.pc = "apply", !.who = a, !.mail = None, !.ids = users[a].ids])

linkProvider(r) ==
    LET a == run[r].who
    IN  /\ At(r, "load")
        /\ IF findActiveById(a) THEN Going(r, [run[r] EXCEPT !.pc = "taken", !.ids = users[a].ids]) ELSE End(r)
        /\ UNCHANGED <<users, photo, stored, intent, uploads, rushed>>

providerTaken(r) ==
    /\ At(r, "taken")
    /\ IF findByProvider(run[r].provider, run[r].id) \ {run[r].who} # {} THEN End(r) ELSE Goto(r, "apply")
    /\ UNCHANGED <<users, photo, stored, intent, uploads, rushed>>

findProvider(r) ==
    LET holders == findByProvider(run[r].provider, run[r].id)
    IN  /\ At(r, "find")
        /\ IF holders = {} THEN Goto(r, "findmail")
           ELSE \E a \in holders : IF assertAllowed(a) THEN Found(r, a) ELSE End(r)
        /\ UNCHANGED <<users, photo, stored, intent, uploads, rushed>>

findMail(r) ==
    LET holders == findByEmail(run[r].mail)
    IN  /\ At(r, "findmail")
        /\ IF holders = {}
             THEN Going(r, [run[r] EXCEPT !.pc = "name", !.who = None,
                                          !.ids = [NoIds EXCEPT ![run[r].provider] = run[r].id]])
             ELSE \E a \in holders : IF assertAllowed(a) THEN Found(r, a) ELSE End(r)
        /\ UNCHANGED <<users, photo, stored, intent, uploads, rushed>>

(* Mutant: the identity replaces whatever was linked. *)
Replaces(r) ==
    LET m == run[r]
        ids == [NoIds EXCEPT ![m.provider] = m.id]
    IN  /\ At(r, "apply")
        /\ users' = IF Fits(m.who, None, None, ids) THEN [users EXCEPT ![m.who].ids = ids] ELSE users
        /\ End(r)
        /\ UNCHANGED <<photo, stored, intent, uploads, rushed>>

(* applyOAuth saves the whole of `providers', as loaded but for this one.  *)
applyOAuth(r) ==
    LET m == run[r]
        ids == [m.ids EXCEPT ![m.provider] = m.id]
    IN  /\ At(r, "apply")
        /\ users' = IF Fits(m.who, None, None, ids) THEN [users EXCEPT ![m.who].ids = ids] ELSE users
        /\ End(r)
        /\ UNCHANGED <<photo, stored, intent, uploads, rushed>>

-----------------------------------------------------------------------------
(* The profile *)

Begin(r, record) == Arrive(r, record) /\ UNCHANGED <<users, photo, stored, intent, uploads, rushed>>

updateMe(r, a, n) ==
    /\ findActiveById(a)
    /\ n # users[a].name
    /\ Begin(r, [Idle EXCEPT !.pc = "free?", !.who = a, !.name = n])

taken(r) ==
    /\ At(r, "free?")
    /\ IF Named(run[r].name) \ {run[r].who} # {} THEN End(r) ELSE Goto(r, "rename")
    /\ UNCHANGED <<users, photo, stored, intent, uploads, rushed>>

saveName(r) ==
    LET a == run[r].who
    IN  /\ At(r, "rename")
        /\ users' = IF Fits(a, None, run[r].name, NoIds) THEN [users EXCEPT ![a].name = run[r].name] ELSE users
        /\ End(r)
        /\ UNCHANGED <<photo, stored, intent, uploads, rushed>>

(* An account or a group gets a photo: upload, save, destroy the one loaded *)
updatePhoto(r, b) ==
    /\ b \in Groups \/ findActiveById(b)
    /\ Begin(r, [Idle EXCEPT !.pc = "upload", !.who = b, !.photo = photo[b]])

uploadAvatar(r) ==
    /\ At(r, "upload")
    /\ uploads < MaxPhotos
    /\ uploads' = uploads + 1
    /\ stored' = stored \cup {uploads'}
    /\ Going(r, [run[r] EXCEPT !.pc = "save", !.new = uploads'])
    /\ UNCHANGED <<users, photo, intent, rushed>>

savePhoto(r) ==
    /\ At(r, "save")
    /\ photo' = [photo EXCEPT ![run[r].who] = run[r].new]
    /\ IF run[r].photo = 0 THEN End(r) ELSE Goto(r, "destroy")
    /\ UNCHANGED <<users, stored, intent, uploads, rushed>>

(* Mutant: the photo shown now is destroyed, not the one loaded. *)
DestroysShown(r) ==
    /\ At(r, "destroy")
    /\ stored' = stored \ {photo[run[r].who]}
    /\ End(r)
    /\ UNCHANGED <<users, photo, intent, uploads, rushed>>

destroyPrevious(r) ==
    /\ At(r, "destroy")
    /\ stored' = stored \ {run[r].photo}
    /\ End(r)
    /\ UNCHANGED <<users, photo, intent, uploads, rushed>>

(* Removing it: destroy, then save. *)
deletePhoto(r, b) ==
    /\ b \in Groups \/ findActiveById(b)
    /\ photo[b] # 0
    /\ Begin(r, [Idle EXCEPT !.pc = "destroyfirst", !.who = b, !.photo = photo[b]])

destroyFirst(r) ==
    /\ At(r, "destroyfirst")
    /\ stored' = stored \ {run[r].photo}
    /\ Goto(r, "clear")
    /\ UNCHANGED <<users, photo, intent, uploads, rushed>>

clearPhoto(r) ==
    /\ At(r, "clear")
    /\ photo' = [photo EXCEPT ![run[r].who] = 0]
    /\ End(r)
    /\ UNCHANGED <<users, stored, intent, uploads, rushed>>

-----------------------------------------------------------------------------
(* The end of an account: by its user, who keeps the e-mail; by the owner,  *)
(* who frees it.  The photo and the linked identities stay.                 *)

closeAccount(r, a) ==
    /\ At(r, "idle")
    /\ findActiveById(a)
    /\ users' = [users EXCEPT ![a].banned = TRUE, ![a].deleted = TRUE]
    /\ UNCHANGED <<photo, stored, intent, run, uploads, rushed>>

setBan(r, a, banned) ==
    /\ At(r, "idle")
    /\ a \in Exists /\ ~users[a].owner /\ ~users[a].deleted
    /\ users' = [users EXCEPT ![a].banned = banned]
    /\ UNCHANGED <<photo, stored, intent, run, uploads, rushed>>

adminDelete(r, a) ==
    /\ a \in Exists /\ ~users[a].owner /\ ~users[a].deleted
    /\ Begin(r, [Idle EXCEPT !.pc = "removal", !.who = a])

saveDeleted(r) ==
    /\ At(r, "removal")
    /\ users' = [users EXCEPT ![run[r].who] = [@ EXCEPT !.banned = TRUE, !.deleted = TRUE, !.mail = None]]
    /\ End(r)
    /\ UNCHANGED <<photo, stored, intent, uploads, rushed>>

-----------------------------------------------------------------------------
Step(r) ==
    \/ uniqueUsername(r) \/ baseAccount(r) \/ create(r)
    \/ getIntent(r) \/ delIntent(r) \/ linkProvider(r) \/ providerTaken(r)
    \/ findProvider(r) \/ findMail(r) \/ applyOAuth(r)
    \/ taken(r) \/ saveName(r)
    \/ uploadAvatar(r) \/ savePhoto(r) \/ destroyPrevious(r) \/ destroyFirst(r) \/ clearPhoto(r)
    \/ saveDeleted(r)

Ask(r) ==
    \/ \E e \in Emails : register(r, e)
    \/ \E p \in Providers, i \in Identities, e \in Emails, s \in Accounts \cup {None} :
          upsertOAuthUser(r, p, i, e, s)
    \/ \E a \in Accounts, p \in Providers : startOAuthLink(r, a, p)
    \/ \E a \in Accounts, n \in Names : updateMe(r, a, n)
    \/ \E b \in Bearers : updatePhoto(r, b)
    \/ \E b \in Bearers : deletePhoto(r, b)
    \/ \E a \in Accounts : closeAccount(r, a)
    \/ \E a \in Accounts, b \in BOOLEAN : setBan(r, a, b)
    \/ \E a \in Accounts : adminDelete(r, a)

Next ==
    \/ \E r \in Requests : Ask(r) \/ Step(r)
    \/ \E a \in Accounts : LinkExpires(a)

Spec == Init /\ [][Next]_vars

-----------------------------------------------------------------------------
(* The first account owns the place and no other does, deleted or not,      *)
(* unless sign-ups overlapped while there was no account at all: baseAccount *)
(* asks for any account some awaits before it creates its own.               *)
OneOwner == Cardinality({a \in Exists : users[a].owner}) > 1 => rushed

(* A photo shown exists at Cloudinary, however uploads and removals of it    *)
(* overlap, but between the two steps of a removal, which destroys first.    *)
ShownPhotoExists ==
    \A b \in Bearers :
       \/ photo[b] \in stored \cup {0}
       \/ \E r \in Requests : At(r, "clear") /\ run[r].who = b

(* A linked provider is never unlinked, only relinked, unless two handlers   *)
(* overlap: each saves `providers' as a whole from what it loaded.           *)
LinksStay ==
    [][\A a \in Exists, p \in Providers :
         \/ users[a].ids[p] = None
         \/ users'[a].ids[p] # None
         \/ \E r \in Requests : At(r, "apply") /\ run[r].who = a /\ ~run[r].alone]_vars

-----------------------------------------------------------------------------
(* The inductive invariant of ProfilesProofs *)

(* What a handler carries where. *)
Shape(t) ==
    /\ t.pc \in {"consume", "del", "find", "findmail", "name"} => t.mail \in Emails
    /\ t.pc \in {"owner", "insert", "free?", "rename"} => t.name \in Names
    /\ t.pc \in {"consume", "del", "load", "taken", "find", "findmail", "apply"} =>
          t.provider \in Providers /\ t.id \in Identities
    /\ t.pc \in {"consume", "del", "load", "taken", "apply", "free?", "rename", "removal"} => t.who \in Exists
    /\ OfPhotos(t) => t.who \in Bearers

(* Who is about to own the place came before any account. *)
OwnerSound ==
    ~rushed =>
       /\ Exists = {} => \A q, r \in Requests : Creating(q) /\ Creating(r) => q = r
       /\ \A r \in Requests : At(r, "insert") /\ run[r].owner => Exists = {}
       /\ \A a, b \in Exists : users[a].owner /\ users[b].owner => a = b

(* What a handler that runs alone loaded is still so. *)
LinksSound ==
    \A r \in Requests : run[r].alone /\ ~At(r, "idle") =>
       /\ \A q \in Requests \ {r} : run[q] = Idle
       /\ run[r].pc \in {"taken", "apply"} => run[r].ids = users[run[r].who].ids

(* A photo belongs to one bearer, is shown once in its life and is destroyed *)
(* when it is shown no more.                                                 *)
PhotosSound ==
    /\ stored \subseteq 1..uploads
    /\ \A b \in Bearers : photo[b] \in 0..uploads
    /\ \A b, c \in Bearers : photo[b] = photo[c] /\ photo[b] # 0 => b = c
    /\ \A r \in Requests :
          /\ run[r].photo \in 0..uploads /\ run[r].new \in 0..uploads
          /\ At(r, "save") =>
                /\ run[r].new \in stored
                /\ \A b \in Bearers : photo[b] # run[r].new
                /\ \A q \in Requests :
                      /\ run[q].photo # run[r].new
                      /\ At(q, "save") /\ run[q].new = run[r].new => q = r
          /\ OfPhotos(run[r]) /\ run[r].photo # 0 =>
                \A b \in Bearers \ {run[r].who} : photo[b] # run[r].photo
          /\ At(r, "destroy") => run[r].photo # 0 /\ \A b \in Bearers : photo[b] # run[r].photo

IInv ==
    /\ TypeOK
    /\ \A r \in Requests : Shape(run[r])
    /\ OwnerSound
    /\ LinksSound
    /\ PhotosSound
    /\ ShownPhotoExists
=============================================================================
