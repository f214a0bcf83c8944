------------------------------ MODULE Messages ------------------------------
(***************************************************************************)
(* The messages of one conversation: MessagesService, whose handlers load  *)
(* one document (reactions, pins, deletions) or many (mark), change their  *)
(* copies and save them one after the other, while other handlers run.     *)
(*                                                                         *)
(* Mongoose sends only what the copy changed.  A new receipt, reaction     *)
(* entry or deletedFor is a $push: no condition, __v is bumped.  A receipt *)
(* or an entry changed in place sends the whole array, on condition that   *)
(* __v is the one that was loaded (VersionError otherwise), and bumps it.  *)
(* The pin fields and deletedAt are plain $sets.                           *)
(***************************************************************************)
EXTENDS Naturals, Sequences, FiniteSets

CONSTANTS
    Members,      \* the active members; who is one is the business of Groups
    Private,      \* those whose settings.readReceipts is off
    Emoji,
    Requests,     \* bound: handlers in flight
    MaxMessages,  \* bound
    MaxBegun,     \* bound: requests in a behaviour
    Uploads,      \* bound: what is sent, [declared type, mime types of the files]
    FilesMax,     \* FILES_MAX
    None

Mimes == {"image", "video", "audio", "other"}
Declared == {"none", "text", "image", "file", "voice", "video", "video_note"}

ASSUME MessagesAssumption ==
    /\ Private \subseteq Members
    /\ None \notin Members /\ None \notin Emoji
    /\ Uploads \subseteq [declared : Declared, mimes : SUBSET Mimes]
    /\ MaxMessages \in Nat /\ MaxBegun \in Nat /\ FilesMax \in Nat

VARIABLES
    messages,     \* the documents, oldest first
    assets,       \* files in Cloudinary: <<message, mime, resource type>>
    task,         \* the handler of each request
    begun,        \* auxiliary: requests so far
    raced         \* auxiliary: messages that got a $push from an old copy

vars == <<messages, assets, task, begun, raced>>

Resources == {"image", "video", "raw"}
Levels == {"sent", "delivered", "seen"}
Ops == {"none", "delivered", "seen", "react", "pin", "hide", "delete"}

Doc == [sender : Members \cup {None}, files : SUBSET Mimes,
        receipts : Seq([user : Members, status : Levels]),
        reactions : Seq([emoji : Emoji, users : (SUBSET Members) \ {{}}]),
        pinnedBy : Members \cup {None}, deletedFor : SUBSET Members,
        deletedAt : BOOLEAN, v : Nat]

Task(ids) == [pc : {"idle", "save", "reset", "purge"}, op : Ops,
              by : Members \cup {None}, emoji : Emoji \cup {None},
              rows : [ids -> Doc], picked : SUBSET (DOMAIN messages)]

Idle == [pc |-> "idle", op |-> "none", by |-> None, emoji |-> None, rows |-> <<>>, picked |-> {}]

TypeOK ==
    /\ messages \in Seq(Doc) /\ Len(messages) <= MaxMessages
    /\ assets \subseteq (1..MaxMessages) \X Mimes \X Resources
    /\ begun \in 0..MaxBegun
    /\ raced \subseteq DOMAIN messages
    /\ DOMAIN task = Requests
    /\ \A r \in Requests :
          /\ task[r] \in Task(DOMAIN task[r].rows)
          /\ DOMAIN task[r].rows \subseteq task[r].picked
          /\ task[r].pc = "idle" => task[r] = Idle

Init ==
    /\ messages = <<>>
    /\ assets = {}
    /\ task = [r \in Requests |-> Idle]
    /\ begun = 0
    /\ raced = {}

-----------------------------------------------------------------------------
(* Files *)

uploadSlot(declared, mime) ==
    IF declared \in {"image", "voice", "video", "video_note"} THEN declared
    ELSE IF mime = "audio" THEN "voice" ELSE IF mime = "other" THEN "file" ELSE mime

(* MEDIA[slot].prefix against the mime type; a plain file may be anything. *)
Accepted(declared, mime) ==
    LET slot == uploadSlot(declared, mime)
    IN  \/ slot = "file"
        \/ slot = "image" /\ mime = "image"
        \/ slot \in {"video", "video_note"} /\ mime = "video"
        \/ slot = "voice" /\ mime = "audio"

attachmentKind(mime) == IF mime \in {"image", "video"} THEN mime ELSE "file"

cloudinaryResource(kind) ==
    CASE kind = "image" -> "image"
      [] kind \in {"video", "voice", "video_note"} -> "video"
      [] OTHER -> "raw"

(* uploadOne: where a file is stored. *)
UploadedTo(declared, mime) ==
    LET slot == uploadSlot(declared, mime)
    IN  cloudinaryResource(IF slot \in {"voice", "video_note"} THEN slot ELSE attachmentKind(mime))

-----------------------------------------------------------------------------
(* What a handler makes of its copy of a document *)

rank(status) == CASE status = "seen" -> 2 [] status = "delivered" -> 1 [] OTHER -> 0

First(S) == CHOOSE i \in S : \A j \in S : i <= j

ReceiptsOf(doc, u) == {i \in DOMAIN doc.receipts : doc.receipts[i].user = u}

Received(doc, u, status) ==
    LET mine == ReceiptsOf(doc, u)
    IN  IF mine = {}
          THEN [doc EXCEPT !.receipts = Append(@, [user |-> u, status |-> status])]
          ELSE IF rank(doc.receipts[First(mine)].status) >= rank(status) THEN doc
          ELSE [doc EXCEPT !.receipts[First(mine)].status = status]

(* Mutant: an entry of its own for every reaction. *)
OwnEntry(doc, u, e) ==
    [doc EXCEPT !.reactions = Append(@, [emoji |-> e, users |-> {u}])]

EntriesOf(doc, e) == {i \in DOMAIN doc.reactions : doc.reactions[i].emoji = e}

Without(s, k) == [i \in 1..(Len(s) - 1) |-> s[IF i < k THEN i ELSE i + 1]]

(* Stored entries have users, so the filter that follows a toggle takes away *)
(* the entry that was toggled or none.                                       *)
Toggled(doc, u, e) ==
    LET at == EntriesOf(doc, e)
        k == First(at)
        users == doc.reactions[k].users
    IN  IF at = {}
          THEN [doc EXCEPT !.reactions = Append(@, [emoji |-> e, users |-> {u}])]
          ELSE IF users = {u} THEN [doc EXCEPT !.reactions = Without(@, k)]
          ELSE [doc EXCEPT !.reactions[k].users = IF u \in users THEN @ \ {u} ELSE @ \cup {u}]

(* togglePin sets pinned, pinnedBy and pinnedAt together. *)
Changed(t, doc) ==
    CASE t.op = "react"  -> Toggled(doc, t.by, t.emoji)
      [] t.op = "pin"    -> [doc EXCEPT !.pinnedBy = IF @ = None THEN t.by ELSE None]
      [] t.op = "hide"   -> [doc EXCEPT !.deletedFor = @ \cup {t.by}]
      [] t.op = "delete" -> [doc EXCEPT !.deletedAt = TRUE]
      [] OTHER           -> Received(doc, t.by, t.op)

-----------------------------------------------------------------------------
(* save() *)

Grown(old, new) == Len(new) > Len(old)
Pushed(old, new) == SubSeq(new, Len(old) + 1, Len(new))

(* Mutant: the whole array is sent without a condition. *)
Unconditional(m, old, new) == FALSE

VersionError(m, old, new) ==
    /\ \E f \in {"receipts", "reactions"} : new[f] # old[f] /\ ~Grown(old[f], new[f])
    /\ old.v # messages[m].v

SavedArray(now, old, new) ==
    IF Grown(old, new) THEN now \o Pushed(old, new) ELSE IF new # old THEN new ELSE now

Saved(now, old, new) ==
    [now EXCEPT !.receipts = SavedArray(@, old.receipts, new.receipts),
                !.reactions = SavedArray(@, old.reactions, new.reactions),
                !.deletedFor = @ \cup (new.deletedFor \ old.deletedFor),
                !.pinnedBy = IF new.pinnedBy # old.pinnedBy THEN new.pinnedBy ELSE @,
                !.deletedAt = @ \/ new.deletedAt,
                !.v = IF <<new.receipts, new.reactions, new.deletedFor>>
                           # <<old.receipts, old.reactions, old.deletedFor>> THEN @ + 1 ELSE @]

-----------------------------------------------------------------------------
(* Handlers: load ... *)

(* Mutant: a first receipt for every message, the system's as well. *)
SignsForNobody(u, declared, mimes) ==
    LET m == Len(messages) + 1
    IN  /\ m <= MaxMessages
        /\ messages' = Append(messages,
              [sender |-> u, files |-> mimes, receipts |-> <<[user |-> u, status |-> "sent"]>>,
               reactions |-> <<>>, pinnedBy |-> None, deletedFor |-> {}, deletedAt |-> FALSE, v |-> 0])
        /\ assets' = assets \cup {<<m, f, UploadedTo(declared, f)>> : f \in mimes}
        /\ UNCHANGED <<task, begun, raced>>

(* send with its files, sendSystem without an author.  A refused send stores *)
(* nothing.                                                                  *)
Create(u, declared, mimes) ==
    LET m == Len(messages) + 1
    IN  /\ m <= MaxMessages
        /\ messages' = Append(messages,
              [sender |-> u, files |-> mimes,
               receipts |-> IF u = None THEN <<>> ELSE <<[user |-> u, status |-> "sent"]>>,
               reactions |-> <<>>, pinnedBy |-> None, deletedFor |-> {}, deletedAt |-> FALSE, v |-> 0])
        /\ assets' = assets \cup {<<m, f, UploadedTo(declared, f)>> : f \in mimes}
        /\ UNCHANGED <<task, begun, raced>>

Send(u) ==
    \E up \in Uploads :
       /\ Cardinality(up.mimes) <= FilesMax
       /\ \A f \in up.mimes : Accepted(up.declared, f)
       /\ Create(u, up.declared, up.mimes)

sendSystem == Create(None, "none", {})

Begin(r, op, u, e, ids) ==
    /\ task[r].pc = "idle"
    /\ begun < MaxBegun /\ begun' = begun + 1
    /\ task' = [task EXCEPT ![r] =
         [pc |-> IF ids # {} THEN "save" ELSE IF op = "seen" THEN "reset" ELSE "idle",
          op |-> IF ids = {} /\ op # "seen" THEN "none" ELSE op,
          by |-> IF ids = {} /\ op # "seen" THEN None ELSE u, emoji |-> e,
          rows |-> [m \in ids |-> messages[m]], picked |-> ids]]
    /\ UNCHANGED <<messages, assets, raced>>

(* load: not deleted, and not hidden from the viewer *)
Loadable(m, u) == ~messages[m].deletedAt /\ u \notin messages[m].deletedFor

toggleReaction(r, u, m, e) == Loadable(m, u) /\ Begin(r, "react", u, e, {m})

togglePin(r, u, m) == Loadable(m, u) /\ Begin(r, "pin", u, None, {m})

(* remove loads with allowDeletedForMe, and does nothing the second time. *)
removeForMe(r, u, m) == Loadable(m, u) /\ Begin(r, "hide", u, None, {m})

removeForEveryone(r, u, m) ==
    /\ ~messages[m].deletedAt
    /\ messages[m].sender = u
    /\ Begin(r, "delete", u, None, {m})

(* All of the thread, or one message. *)
mark(r, u, status, asked) ==
    LET found == {m \in asked : messages[m].sender # u /\ Loadable(m, u)}
    IN  Begin(r, status, u, None, IF status = "seen" /\ u \in Private THEN {} ELSE found)

(* ... and save, one row at a time; a VersionError ends the request. *)

(* Mutant: the loop goes on after a save that failed. *)
SkipsFailed(r) ==
    /\ task[r].pc = "save"
    /\ LET t == task[r]
           m == First(DOMAIN t.rows)
           old == t.rows[m]
           new == Changed(t, old)
           rest == (DOMAIN t.rows) \ {m}
           left == [t EXCEPT !.rows = [n \in rest |-> t.rows[n]]]
       IN  /\ IF VersionError(m, old, new) THEN UNCHANGED <<messages, raced>>
              ELSE messages' = [messages EXCEPT ![m] = Saved(@, old, new)] /\ UNCHANGED raced
           /\ task' = [task EXCEPT ![r] =
                         IF rest # {} THEN left
                         ELSE IF t.op = "seen" THEN [left EXCEPT !.pc = "reset"]
                         ELSE Idle]
    /\ UNCHANGED <<assets, begun>>

Save(r) ==
    /\ task[r].pc = "save"
    /\ LET t == task[r]
           m == First(DOMAIN t.rows)
           old == t.rows[m]
           new == Changed(t, old)
           rest == (DOMAIN t.rows) \ {m}
           left == [t EXCEPT !.rows = [n \in rest |-> t.rows[n]]]
           pushes == Grown(old.receipts, new.receipts) \/ Grown(old.reactions, new.reactions)
       IN  IF VersionError(m, old, new)
             THEN /\ task' = [task EXCEPT ![r] = Idle]
                  /\ UNCHANGED <<messages, raced>>
             ELSE /\ messages' = [messages EXCEPT ![m] = Saved(@, old, new)]
                  /\ raced' = IF pushes /\ old.v # messages[m].v THEN raced \cup {m} ELSE raced
                  /\ task' = [task EXCEPT ![r] =
                       IF rest # {} THEN left
                       ELSE IF t.op = "seen" THEN [left EXCEPT !.pc = "reset"]
                       ELSE IF t.op = "delete" /\ old.files # {} THEN [left EXCEPT !.pc = "purge"]
                       ELSE Idle]
    /\ UNCHANGED <<assets, begun>>

(* A mark of seen ends with resetUnread (Read of Groups). *)
resetUnread(r) ==
    /\ task[r].pc = "reset"
    /\ task' = [task EXCEPT ![r] = Idle]
    /\ UNCHANGED <<messages, assets, begun, raced>>

(* Mutant: deleteAsset with its default resource type *)
PurgeAsImages(r) ==
    /\ task[r].pc = "purge"
    /\ \E m \in task[r].picked : assets' = assets \ {<<m, f, "image">> : f \in messages[m].files}
    /\ task' = [task EXCEPT ![r] = Idle]
    /\ UNCHANGED <<messages, begun, raced>>

(* Deleted for everyone: destroy the files, under the resource type their *)
(* mime type stands for.                                                  *)
Purge(r) ==
    /\ task[r].pc = "purge"
    /\ \E m \in task[r].picked :
          assets' = assets \ {<<m, f, cloudinaryResource(attachmentKind(f))>> : f \in messages[m].files}
    /\ task' = [task EXCEPT ![r] = Idle]
    /\ UNCHANGED <<messages, begun, raced>>

-----------------------------------------------------------------------------
Request(r) ==
    \E u \in Members :
       \/ \E m \in DOMAIN messages :
             \/ \E e \in Emoji : toggleReaction(r, u, m, e)
             \/ togglePin(r, u, m) \/ removeForMe(r, u, m) \/ removeForEveryone(r, u, m)
       \/ \E status \in {"delivered", "seen"} :
             \E asked \in {DOMAIN messages} \cup {{m} : m \in DOMAIN messages} :
                mark(r, u, status, asked)

Next ==
    \/ \E u \in Members : Send(u)
    \/ sendSystem
    \/ \E r \in Requests : Request(r) \/ Save(r) \/ resetUnread(r) \/ Purge(r)

Spec == Init /\ [][Next]_vars

-----------------------------------------------------------------------------
(* What the documents show *)

(* list *)
Listed(u) == {m \in DOMAIN messages : Loadable(m, u)}

(* ticks and seenBy read the first receipt, and all of them. *)
LevelOf(doc, u) ==
    IF ReceiptsOf(doc, u) = {} THEN 0 ELSE rank(doc.receipts[First(ReceiptsOf(doc, u))].status)

ticks(m) ==
    LET others == {LevelOf(messages[m], u) : u \in Members \ {messages[m].sender}}
    IN  IF others = {} THEN 0 ELSE First(others)

seenBy(m) ==
    {u \in Members \ {messages[m].sender} :
        \E i \in ReceiptsOf(messages[m], u) : messages[m].receipts[i].status = "seen"}

ReactedOf(doc) ==
    {by \in Emoji \X Members :
        \E i \in DOMAIN doc.reactions :
           doc.reactions[i].emoji = by[1] /\ by[2] \in doc.reactions[i].users}

(* Whatever overlaps, the documents behave as the board of Board: nobody's   *)
(* reaction is lost to somebody else's toggle, a receipt never falls back,   *)
(* somebody with readReceipts off is never reported as having seen, and no   *)
(* save of an old copy brings a deleted or hidden message back.              *)
Of(m, f, default) == IF m \in DOMAIN messages THEN messages[m][f] ELSE default

Thread == INSTANCE Board WITH
    count <- Len(messages),
    level <- [m \in 1..MaxMessages |-> [u \in Members |->
                IF m \in DOMAIN messages THEN LevelOf(messages[m], u) ELSE 0]],
    reacted <- [m \in 1..MaxMessages |-> IF m \in DOMAIN messages THEN ReactedOf(messages[m]) ELSE {}],
    pin <- [m \in 1..MaxMessages |-> Of(m, "pinnedBy", None)],
    hidden <- [m \in 1..MaxMessages |-> Of(m, "deletedFor", {})],
    deleted <- [m \in 1..MaxMessages |-> Of(m, "deletedAt", FALSE)]

ImplementsBoard == Thread!Spec

(* One receipt a member and one entry an emoji, unless two $pushes crossed:  *)
(* ticks and toggles look at the first one only.                             *)
NoDuplicates ==
    \A m \in (DOMAIN messages) \ raced :
       /\ \A i, j \in DOMAIN messages[m].receipts :
             messages[m].receipts[i].user = messages[m].receipts[j].user => i = j
       /\ \A i, j \in DOMAIN messages[m].reactions :
             messages[m].reactions[i].emoji = messages[m].reactions[j].emoji => i = j

(* The unread count is reset by a reader who shares receipts only when every *)
(* message of the request tells that it was seen: a save that fails half way *)
(* leaves the rest unread.                                                   *)
ResetMeansSeen ==
    [][\A r \in Requests :
         task[r].pc = "reset" /\ task'[r].pc = "idle" /\ task[r].by \notin Private =>
            \A m \in task[r].picked : task[r].by \in seenBy(m)]_vars

(* Nothing of a message deleted for everyone stays in Cloudinary once the    *)
(* request is through, but for what was uploaded as a voice message.         *)
FilesGone ==
    \A a \in assets :
       messages[a[1]].deletedAt /\ a[2] # "audio" =>
          \E r \in Requests : a[1] \in task[r].picked /\ task[r].op = "delete"

-----------------------------------------------------------------------------
(* The strengthening: what the loaded rows are still worth. *)

(* Of arrays of receipts: users keep their place, statuses only rise. *)
Rises(old, new) ==
    \A i \in DOMAIN old :
       i \in DOMAIN new /\ new[i].user = old[i].user /\ rank(new[i].status) >= rank(old[i].status)

(* A loaded row is behind the stored one, and by __v one knows by how much. *)
Follows(old, new) ==
    /\ new.sender = old.sender /\ new.files = old.files
    /\ new.v >= old.v
    /\ new.v = old.v => new.receipts = old.receipts /\ new.reactions = old.reactions
    /\ Rises(old.receipts, new.receipts)
    /\ old.deletedAt => new.deletedAt

CopiesHold ==
    \A r \in Requests : \A m \in DOMAIN task[r].rows : Follows(task[r].rows[m], messages[m])

(* Where a handler can be, given what it does. *)
Placed ==
    \A r \in Requests :
       LET t == task[r]
       IN  t.pc # "idle" =>
             /\ t.by \in Members
             /\ (t.pc = "save") <=> (DOMAIN t.rows # {})
             /\ t.op = "react" => t.emoji \in Emoji
             /\ t.op = "delete" => \E m \in DOMAIN messages : t.picked = {m}
             /\ t.op = "seen" /\ t.picked # {} => t.by \notin Private
             /\ t.op \in {"delivered", "seen"} => \A m \in t.picked : messages[m].sender # t.by
             /\ t.pc = "reset" => t.op = "seen"
             /\ t.pc = "purge" => t.op = "delete"
             /\ t.op # "none"

(* What a loop has saved as seen is seen. *)
MarksHold ==
    \A r \in Requests : task[r].op = "seen" =>
       \A m \in task[r].picked \ DOMAIN task[r].rows : task[r].by \in seenBy(m)

(* Every file belongs to a message, and all but audio is stored under the    *)
(* type that deleting it asks for.                                           *)
FilesKnown ==
    \A a \in assets :
       /\ a[1] \in DOMAIN messages /\ a[2] \in messages[a[1]].files
       /\ a[2] # "audio" => a[3] = cloudinaryResource(attachmentKind(a[2]))

IInv ==
    /\ TypeOK /\ Placed /\ CopiesHold /\ MarksHold
    /\ NoDuplicates
    /\ FilesKnown /\ FilesGone
=============================================================================
