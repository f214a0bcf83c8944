--------------------------- MODULE MessagesProofs ---------------------------
(***************************************************************************)
(* Proofs about Messages, for any number of members, messages and handlers *)
(* that overlap as they like: what a save of an old copy may change, that  *)
(* the documents implement Board, and that a mark of seen keeps its word.  *)
(***************************************************************************)
EXTENDS Messages, SequenceTheorems, FiniteSetTheorems, WellFoundedInduction, TLAPS

Receipt == [user : Members, status : Levels]
Reaction == [emoji : Emoji, users : (SUBSET Members) \ {{}}]

-----------------------------------------------------------------------------
(* Indices and documents *)

LEMMA Minimum ==
    ASSUME NEW S \in SUBSET Nat, S # {}
    PROVE  \E i \in S : \A j \in S : i <= j
<1> DEFINE R == OpToRel(<, Nat)
<1>1. IsWellFoundedOn(R, Nat)
  BY NatLessThanWellFounded
<1>2. \A i, j \in Nat : <<i, j>> \in R <=> i < j
  BY DEF OpToRel
<1> HIDE DEF R
<1>3. PICK i \in S : \A j \in S : ~ (<<j, i>> \in R)
  BY <1>1, WFMin
<1>4. ASSUME NEW j \in S PROVE i <= j
  <2>1. i \in Nat /\ j \in Nat /\ ~ (j < i)
    BY <1>2, <1>3
  <2> QED BY <2>1
<1> QED BY <1>4

LEMMA FirstIn ==
    ASSUME NEW S \in SUBSET Nat, S # {}
    PROVE  First(S) \in S /\ \A j \in S : First(S) <= j
BY Minimum DEF First

LEMMA FirstIs ==
    ASSUME NEW S \in SUBSET Nat, NEW i \in S, \A j \in S : i <= j
    PROVE  First(S) = i
<1>1. First(S) \in S /\ First(S) <= i
  BY FirstIn
<1>2. i <= First(S) /\ i \in Nat /\ First(S) \in Nat
  BY <1>1
<1> QED BY <1>1, <1>2

LEMMA DocFields ==
    ASSUME NEW d \in Doc
    PROVE  /\ d.sender \in Members \cup {None} /\ d.files \in SUBSET Mimes
           /\ d.receipts \in Seq(Receipt) /\ d.reactions \in Seq(Reaction)
           /\ d.pinnedBy \in Members \cup {None} /\ d.deletedFor \in SUBSET Members
           /\ d.deletedAt \in BOOLEAN /\ d.v \in Nat
BY DEF Doc, Receipt, Reaction

(* The documents of one field changed. *)
LEMMA DocExcept ==
    ASSUME NEW d \in Doc
    PROVE  /\ \A x \in Seq(Receipt) : [d EXCEPT !.receipts = x] \in Doc
           /\ \A x \in Seq(Reaction) : [d EXCEPT !.reactions = x] \in Doc
           /\ \A x \in Members \cup {None} : [d EXCEPT !.pinnedBy = x] \in Doc
           /\ \A x \in SUBSET Members : [d EXCEPT !.deletedFor = x] \in Doc
           /\ [d EXCEPT !.deletedAt = TRUE] \in Doc
BY DEF Doc, Receipt, Reaction

LEMMA SetReceipts ==
    ASSUME NEW d \in Doc, NEW x, NEW new, new = [d EXCEPT !.receipts = x]
    PROVE  /\ new.receipts = x
           /\ new.sender = d.sender /\ new.files = d.files /\ new.reactions = d.reactions
           /\ new.pinnedBy = d.pinnedBy /\ new.deletedFor = d.deletedFor
           /\ new.deletedAt = d.deletedAt /\ new.v = d.v
BY DEF Doc

LEMMA SetReactions ==
    ASSUME NEW d \in Doc, NEW x, NEW new, new = [d EXCEPT !.reactions = x]
    PROVE  /\ new.reactions = x
           /\ new.sender = d.sender /\ new.files = d.files /\ new.receipts = d.receipts
           /\ new.pinnedBy = d.pinnedBy /\ new.deletedFor = d.deletedFor
           /\ new.deletedAt = d.deletedAt /\ new.v = d.v
BY DEF Doc

LEMMA Ranks ==
    /\ \A s \in Levels : rank(s) \in 0..2
    /\ rank("sent") = 0 /\ rank("delivered") = 1 /\ rank("seen") = 2
    /\ \A s \in Levels : rank(s) = 2 => s = "seen"
BY DEF rank, Levels

LEMMA WithoutType ==
    ASSUME NEW S, NEW s \in Seq(S), NEW k \in DOMAIN s
    PROVE  /\ Without(s, k) \in Seq(S)
           /\ DOMAIN Without(s, k) = 1..(Len(s) - 1) /\ Len(Without(s, k)) = Len(s) - 1
<1>1. Len(s) - 1 \in Nat
  BY LenProperties
<1>2. \A i \in 1..(Len(s) - 1) : s[IF i < k THEN i ELSE i + 1] \in S
  BY <1>1, LenProperties, ElementOfSeq
<1>3. Without(s, k) \in [1..(Len(s) - 1) -> S]
  BY <1>2 DEF Without
<1> QED BY <1>1, <1>3, IsASeq, LenProperties DEF Without

-----------------------------------------------------------------------------
(* What a handler makes of its copy *)

(* The three ways a mark changes a copy. *)
Marked(d, u, status, new) ==
    LET mine == ReceiptsOf(d, u)
        k == First(mine)
    IN  \/ /\ mine = {}
           /\ new.receipts = Append(d.receipts, [user |-> u, status |-> status])
        \/ /\ mine # {} /\ rank(d.receipts[k].status) >= rank(status)
           /\ new.receipts = d.receipts
        \/ /\ mine # {} /\ rank(d.receipts[k].status) < rank(status)
           /\ new.receipts = [d.receipts EXCEPT ![k] = [user |-> u, status |-> status]]

LEMMA ReceiptsIn ==
    ASSUME NEW d \in Doc, NEW u
    PROVE  /\ ReceiptsOf(d, u) \subseteq DOMAIN d.receipts
           /\ DOMAIN d.receipts = 1..Len(d.receipts) /\ Len(d.receipts) \in Nat
           /\ ReceiptsOf(d, u) \in SUBSET Nat
           /\ ReceiptsOf(d, u) # {} =>
                /\ First(ReceiptsOf(d, u)) \in ReceiptsOf(d, u)
                /\ First(ReceiptsOf(d, u)) \in DOMAIN d.receipts
                /\ d.receipts[First(ReceiptsOf(d, u))].user = u
                /\ \A j \in ReceiptsOf(d, u) : First(ReceiptsOf(d, u)) <= j
           /\ \A i \in DOMAIN d.receipts : d.receipts[i] \in Receipt
<1>1. d.receipts \in Seq(Receipt)
  BY DocFields
<1>2. DOMAIN d.receipts = 1..Len(d.receipts) /\ Len(d.receipts) \in Nat
  BY <1>1, LenProperties
<1>3. ReceiptsOf(d, u) \subseteq DOMAIN d.receipts /\ ReceiptsOf(d, u) \in SUBSET Nat
  BY <1>2 DEF ReceiptsOf
<1>4. \A i \in DOMAIN d.receipts : d.receipts[i] \in Receipt
  BY <1>1, <1>2, ElementOfSeq
<1>5. ASSUME ReceiptsOf(d, u) # {}
      PROVE  /\ First(ReceiptsOf(d, u)) \in ReceiptsOf(d, u)
             /\ \A j \in ReceiptsOf(d, u) : First(ReceiptsOf(d, u)) <= j
  BY <1>3, <1>5, FirstIn
<1>6. \A i \in ReceiptsOf(d, u) : i \in DOMAIN d.receipts /\ d.receipts[i].user = u
  BY DEF ReceiptsOf
<1> QED BY <1>2, <1>3, <1>4, <1>5, <1>6

LEMMA ReceivedEffect ==
    ASSUME NEW d \in Doc, NEW u \in Members, NEW status \in {"delivered", "seen"}
    PROVE  LET new == Received(d, u, status) IN
           /\ new \in Doc
           /\ new.sender = d.sender /\ new.files = d.files /\ new.reactions = d.reactions
           /\ new.pinnedBy = d.pinnedBy /\ new.deletedFor = d.deletedFor
           /\ new.deletedAt = d.deletedAt /\ new.v = d.v
           /\ Marked(d, u, status, new)
<1> DEFINE mine == ReceiptsOf(d, u)
           k == First(mine)
           x == [user |-> u, status |-> status]
<1>1. d.receipts \in Seq(Receipt)
  BY DocFields
<1>2. x \in Receipt
  BY DEF Receipt, Levels
<1>3. CASE mine = {}
  <2>1. Received(d, u, status) = [d EXCEPT !.receipts = Append(@, x)]
    BY <1>3 DEF Received
  <2>2. Append(d.receipts, x) \in Seq(Receipt)
    BY <1>1, <1>2, AppendProperties
  <2>3. Received(d, u, status) \in Doc
    BY <2>1, <2>2, DocExcept
  <2>4. Received(d, u, status).receipts = Append(d.receipts, x)
    BY <2>1, SetReceipts
  <2>5. Marked(d, u, status, Received(d, u, status))
    BY <1>3, <2>4 DEF Marked
  <2> QED BY <2>1, <2>3, <2>5, SetReceipts
<1>4. CASE mine # {} /\ rank(d.receipts[k].status) >= rank(status)
  <2>1. Received(d, u, status) = d
    BY <1>4 DEF Received
  <2> QED BY <1>4, <2>1 DEF Marked
<1>5. CASE mine # {} /\ ~ (rank(d.receipts[k].status) >= rank(status))
  <2>1. k \in DOMAIN d.receipts /\ d.receipts[k].user = u /\ d.receipts[k] \in Receipt
    BY <1>5, ReceiptsIn
  <2>2. rank(d.receipts[k].status) < rank(status)
    BY <1>5, <2>1, Ranks DEF Receipt, Levels
  <2>3. [d.receipts[k] EXCEPT !.status = status] = x
    BY <2>1 DEF Receipt
  <2>4. Received(d, u, status) = [d EXCEPT !.receipts[k].status = status]
    BY <1>5 DEF Received
  <2>5. Received(d, u, status) = [d EXCEPT !.receipts = [d.receipts EXCEPT ![k] = x]]
    BY <2>3, <2>4
  <2>6. [d.receipts EXCEPT ![k] = x] \in Seq(Receipt)
    BY <1>1, <1>2, <2>1, ExceptSeq
  <2>7. Received(d, u, status) \in Doc
    BY <2>5, <2>6, DocExcept
  <2>8. Received(d, u, status).receipts = [d.receipts EXCEPT ![k] = x]
    BY <2>5, SetReceipts
  <2>9. Marked(d, u, status, Received(d, u, status))
    BY <1>5, <2>2, <2>8 DEF Marked
  <2> QED BY <2>5, <2>7, <2>9, SetReceipts
<1> QED BY <1>3, <1>4, <1>5

(* The four ways a toggle changes a copy. *)
Turned(d, u, e, new) ==
    LET at == EntriesOf(d, e)
        k == First(at)
    IN  \/ /\ at = {}
           /\ new.reactions = Append(d.reactions, [emoji |-> e, users |-> {u}])
        \/ /\ at # {} /\ d.reactions[k].users = {u}
           /\ new.reactions = Without(d.reactions, k)
        \/ \E S \in (SUBSET Members) \ {{}} :
              /\ at # {}
              /\ S \in {d.reactions[k].users \cup {u}, d.reactions[k].users \ {u}}
              /\ new.reactions = [d.reactions EXCEPT ![k] = [emoji |-> e, users |-> S]]

LEMMA EntriesIn ==
    ASSUME NEW d \in Doc, NEW e
    PROVE  /\ EntriesOf(d, e) \subseteq DOMAIN d.reactions
           /\ DOMAIN d.reactions = 1..Len(d.reactions) /\ Len(d.reactions) \in Nat
           /\ EntriesOf(d, e) # {} =>
                /\ First(EntriesOf(d, e)) \in DOMAIN d.reactions
                /\ d.reactions[First(EntriesOf(d, e))].emoji = e
           /\ \A i \in DOMAIN d.reactions : d.reactions[i] \in Reaction
<1>1. d.reactions \in Seq(Reaction)
  BY DocFields
<1>2. DOMAIN d.reactions = 1..Len(d.reactions) /\ Len(d.reactions) \in Nat
  BY <1>1, LenProperties
<1>3. EntriesOf(d, e) \subseteq DOMAIN d.reactions /\ EntriesOf(d, e) \in SUBSET Nat
  BY <1>2 DEF EntriesOf
<1>4. \A i \in DOMAIN d.reactions : d.reactions[i] \in Reaction
  BY <1>1, <1>2, ElementOfSeq
<1>5. ASSUME EntriesOf(d, e) # {} PROVE First(EntriesOf(d, e)) \in EntriesOf(d, e)
  BY <1>3, <1>5, FirstIn
<1>6. \A i \in EntriesOf(d, e) : i \in DOMAIN d.reactions /\ d.reactions[i].emoji = e
  BY DEF EntriesOf
<1> QED BY <1>2, <1>3, <1>4, <1>5, <1>6

LEMMA ToggledEffect ==
    ASSUME NEW d \in Doc, NEW u \in Members, NEW e \in Emoji
    PROVE  LET new == Toggled(d, u, e) IN
           /\ new \in Doc
           /\ new.sender = d.sender /\ new.files = d.files /\ new.receipts = d.receipts
           /\ new.pinnedBy = d.pinnedBy /\ new.deletedFor = d.deletedFor
           /\ new.deletedAt = d.deletedAt /\ new.v = d.v
           /\ Turned(d, u, e, new)
<1> DEFINE at == EntriesOf(d, e)
           k == First(at)
           users == d.reactions[k].users
           new == Toggled(d, u, e)
<1>1. d.reactions \in Seq(Reaction)
  BY DocFields
<1>2. CASE at = {}
  <2> DEFINE x == Append(d.reactions, [emoji |-> e, users |-> {u}])
  <2>1. new = [d EXCEPT !.reactions = x]
    BY <1>2 DEF Toggled
  <2>2. [emoji |-> e, users |-> {u}] \in Reaction
    BY DEF Reaction
  <2>3. x \in Seq(Reaction)
    BY <1>1, <2>2, AppendProperties
  <2>4. new \in Doc
    BY <2>1, <2>3, DocExcept
  <2>5. new.reactions = x
    BY <2>1, SetReactions
  <2>6. Turned(d, u, e, new)
    BY <1>2, <2>5 DEF Turned
  <2> QED BY <2>1, <2>4, <2>6, SetReactions
<1>3. CASE at # {} /\ users = {u}
  <2>1. new = [d EXCEPT !.reactions = Without(d.reactions, k)]
    BY <1>3 DEF Toggled
  <2>2. k \in DOMAIN d.reactions
    BY <1>3, EntriesIn
  <2>3. Without(d.reactions, k) \in Seq(Reaction)
    BY <1>1, <2>2, WithoutType
  <2>4. new \in Doc
    BY <2>1, <2>3, DocExcept
  <2>5. new.reactions = Without(d.reactions, k)
    BY <2>1, SetReactions
  <2>6. Turned(d, u, e, new)
    BY <1>3, <2>5 DEF Turned
  <2> QED BY <2>1, <2>4, <2>6, SetReactions
<1>4. CASE at # {} /\ users # {u}
  <2> DEFINE S == IF u \in users THEN users \ {u} ELSE users \cup {u}
             x == [d.reactions EXCEPT ![k] = [emoji |-> e, users |-> S]]
  <2>1. k \in DOMAIN d.reactions /\ d.reactions[k].emoji = e /\ d.reactions[k] \in Reaction
    BY <1>4, EntriesIn
  <2>2. users \in (SUBSET Members) \ {{}}
    BY <2>1 DEF Reaction
  <2>3. S \in (SUBSET Members) \ {{}} /\ S \in {users \cup {u}, users \ {u}}
    BY <1>4, <2>2
  <2>4. [emoji |-> e, users |-> S] \in Reaction
    BY <2>3 DEF Reaction
  <2>5. new = [d EXCEPT !.reactions[k].users = S]
    BY <1>4 DEF Toggled
  <2>6. [d.reactions[k] EXCEPT !.users = S] = [emoji |-> e, users |-> S]
    BY <2>1 DEF Reaction
  <2>7. new = [d EXCEPT !.reactions = x]
    BY <2>5, <2>6
  <2>8. x \in Seq(Reaction)
    BY <1>1, <2>1, <2>4, ExceptSeq
  <2>9. new \in Doc
    BY <2>7, <2>8, DocExcept
  <2>10. new.reactions = x
    BY <2>7, SetReactions
  <2>11. Turned(d, u, e, new)
    BY <1>4, <2>3, <2>10 DEF Turned
  <2> QED BY <2>7, <2>9, <2>11, SetReactions
<1> QED BY <1>2, <1>3, <1>4

-----------------------------------------------------------------------------
(* What save() makes of the stored document *)

LEMMA PushedArray ==
    ASSUME NEW S, NEW now \in Seq(S), NEW old \in Seq(S), NEW x \in S, NEW new, new = Append(old, x)
    PROVE  Grown(old, new) /\ SavedArray(now, old, new) = Append(now, x)
<1>1. /\ new \in Seq(S) /\ Len(new) = Len(old) + 1 /\ Len(old) \in Nat
      /\ new[Len(old) + 1] = x
  BY AppendProperties, LenProperties
<1>2. Grown(old, new)
  BY <1>1 DEF Grown
<1>3. /\ Pushed(old, new) \in Seq(S) /\ Len(Pushed(old, new)) = 1
      /\ Pushed(old, new)[1] = x
  BY <1>1 DEF Pushed
<1>4. Pushed(old, new) = <<x>>
  BY <1>3, SeqEqual
<1>5. now \o <<x>> = Append(now, x)
  BY AppendIsConcat
<1> QED BY <1>2, <1>4, <1>5 DEF SavedArray

LEMMA SetArray ==
    ASSUME NEW now, NEW old, NEW new, ~Grown(old, new)
    PROVE  SavedArray(now, old, new) = IF new # old THEN new ELSE now
BY DEF SavedArray

LEMMA SameArray ==
    ASSUME NEW S, NEW now, NEW old \in Seq(S)
    PROVE  ~Grown(old, old) /\ SavedArray(now, old, old) = now
<1>1. Len(old) \in Nat
  BY LenProperties
<1> QED BY <1>1 DEF Grown, SavedArray

LEMMA SavedDeleted ==
    ASSUME NEW now \in Doc, NEW old \in Doc, NEW new \in Doc
    PROVE  Saved(now, old, new).deletedAt = (now.deletedAt \/ new.deletedAt)
<1>1. now = [sender |-> now.sender, files |-> now.files, receipts |-> now.receipts,
             reactions |-> now.reactions, pinnedBy |-> now.pinnedBy,
             deletedFor |-> now.deletedFor, deletedAt |-> now.deletedAt, v |-> now.v]
  BY DEF Doc
<1> QED BY <1>1 DEF Saved

LEMMA SavedFields ==
    ASSUME NEW now \in Doc, NEW old \in Doc, NEW new \in Doc
    PROVE  LET next == Saved(now, old, new) IN
           /\ next.sender = now.sender /\ next.files = now.files
           /\ next.receipts = SavedArray(now.receipts, old.receipts, new.receipts)
           /\ next.reactions = SavedArray(now.reactions, old.reactions, new.reactions)
           /\ next.deletedFor = now.deletedFor \cup (new.deletedFor \ old.deletedFor)
           /\ new.deletedFor = old.deletedFor => next.deletedFor = now.deletedFor
           /\ next.pinnedBy = IF new.pinnedBy # old.pinnedBy THEN new.pinnedBy ELSE now.pinnedBy
           /\ next.v = IF \/ new.receipts # old.receipts \/ new.reactions # old.reactions
                          \/ new.deletedFor # old.deletedFor THEN now.v + 1 ELSE now.v
           /\ next.receipts \in Seq(Receipt) /\ next.reactions \in Seq(Reaction) => next \in Doc
<1> DEFINE next == Saved(now, old, new)
<1>1. now = [sender |-> now.sender, files |-> now.files, receipts |-> now.receipts,
             reactions |-> now.reactions, pinnedBy |-> now.pinnedBy,
             deletedFor |-> now.deletedFor, deletedAt |-> now.deletedAt, v |-> now.v]
  BY DEF Doc
<1>2. (<<new.receipts, new.reactions, new.deletedFor>> # <<old.receipts, old.reactions, old.deletedFor>>)
        <=> \/ new.receipts # old.receipts \/ new.reactions # old.reactions
            \/ new.deletedFor # old.deletedFor
  OBVIOUS
<1>3. /\ next.sender = now.sender /\ next.files = now.files
      /\ next.receipts = SavedArray(now.receipts, old.receipts, new.receipts)
      /\ next.reactions = SavedArray(now.reactions, old.reactions, new.reactions)
  BY <1>1 DEF Saved
<1>4. /\ next.pinnedBy = IF new.pinnedBy # old.pinnedBy THEN new.pinnedBy ELSE now.pinnedBy
      /\ next.deletedFor = now.deletedFor \cup (new.deletedFor \ old.deletedFor)
  BY <1>1 DEF Saved
<1>5. new.deletedFor = old.deletedFor => next.deletedFor = now.deletedFor
  <2>1. now.deletedFor \cup (old.deletedFor \ old.deletedFor) = now.deletedFor
    OBVIOUS
  <2> QED BY <1>4, <2>1
<1>6. next.v = IF \/ new.receipts # old.receipts \/ new.reactions # old.reactions
                 \/ new.deletedFor # old.deletedFor THEN now.v + 1 ELSE now.v
  BY <1>1, <1>2 DEF Saved
<1>7. next.deletedAt = (now.deletedAt \/ new.deletedAt)
  BY SavedDeleted
<1>8. next = [now EXCEPT !.receipts = next.receipts, !.reactions = next.reactions,
                        !.deletedFor = next.deletedFor, !.pinnedBy = next.pinnedBy,
                        !.deletedAt = next.deletedAt, !.v = next.v]
  <2>1. DOMAIN next = DOMAIN now /\ next = [f \in DOMAIN next |-> next[f]]
    BY DEF Saved
  <2> QED BY <1>1, <1>3, <1>4, <1>6, <1>7, <2>1
<1>9. ASSUME next.receipts \in Seq(Receipt), next.reactions \in Seq(Reaction)
      PROVE  next \in Doc
  <2>1. /\ now.sender \in Members \cup {None} /\ now.files \in SUBSET Mimes
        /\ now.pinnedBy \in Members \cup {None} /\ new.pinnedBy \in Members \cup {None}
        /\ now.deletedFor \in SUBSET Members /\ new.deletedFor \in SUBSET Members
        /\ (now.deletedAt \/ new.deletedAt) \in BOOLEAN /\ now.v \in Nat
    BY DocFields
  <2>2. /\ next.sender \in Members \cup {None} /\ next.files \in SUBSET Mimes
        /\ next.pinnedBy \in Members \cup {None} /\ next.deletedFor \in SUBSET Members
        /\ next.v \in Nat
    BY <1>3, <1>4, <1>6, <2>1
  <2>3. next.deletedAt \in BOOLEAN
    BY <1>7, <2>1
  <2> HIDE DEF next
  <2> QED BY <1>1, <1>8, <1>9, <2>2, <2>3 DEF Doc, Receipt, Reaction
<1> QED BY <1>9, <1>3, <1>4, <1>5, <1>6

-----------------------------------------------------------------------------
(* The effect of a save, operation by operation: in place only on a current  *)
(* copy, pushed on whatever is there.                                        *)

Receives(t, old, new, now, next) ==
    LET mine == ReceiptsOf(now, t.by)
        k == First(mine)
        x == [user |-> t.by, status |-> t.op]
    IN  /\ t.op \in {"delivered", "seen"}
        /\ next.reactions = now.reactions /\ next.pinnedBy = now.pinnedBy
        /\ next.deletedFor = now.deletedFor /\ next.deletedAt = now.deletedAt
        /\ \/ /\ ReceiptsOf(old, t.by) = {} /\ Grown(old.receipts, new.receipts)
              /\ next.receipts = Append(now.receipts, x)
           \/ /\ ReceiptsOf(old, t.by) # {}
              /\ rank(old.receipts[First(ReceiptsOf(old, t.by))].status) >= rank(t.op)
              /\ next.receipts = now.receipts
           \/ /\ mine # {} /\ rank(now.receipts[k].status) < rank(t.op)
              /\ next.receipts = [now.receipts EXCEPT ![k] = x]

Reacts(t, old, new, now, next) ==
    /\ t.op = "react"
    /\ next.receipts = now.receipts /\ next.pinnedBy = now.pinnedBy
    /\ next.deletedFor = now.deletedFor /\ next.deletedAt = now.deletedAt
    /\ \/ /\ EntriesOf(old, t.emoji) = {} /\ Grown(old.reactions, new.reactions)
          /\ next.reactions = Append(now.reactions, [emoji |-> t.emoji, users |-> {t.by}])
       \/ next.reactions = now.reactions
       \/ EntriesOf(now, t.emoji) # {} /\ Turned(now, t.by, t.emoji, next)

Keeps(now, next) == next.receipts = now.receipts /\ next.reactions = now.reactions

Pins(t, now, next) ==
    /\ t.op = "pin" /\ Keeps(now, next)
    /\ next.pinnedBy \in Members \cup {None}
    /\ next.deletedFor = now.deletedFor /\ next.deletedAt = now.deletedAt

Hides(t, now, next) ==
    /\ t.op = "hide" /\ Keeps(now, next)
    /\ next.deletedFor \in {now.deletedFor, now.deletedFor \cup {t.by}}
    /\ next.pinnedBy = now.pinnedBy /\ next.deletedAt = now.deletedAt

Deletes(t, now, next) ==
    /\ t.op = "delete" /\ Keeps(now, next)
    /\ next.deletedAt = TRUE
    /\ next.pinnedBy = now.pinnedBy /\ next.deletedFor = now.deletedFor

Effect(t, old, new, now, next) ==
    \/ Receives(t, old, new, now, next)
    \/ Reacts(t, old, new, now, next)
    \/ Pins(t, now, next)
    \/ Hides(t, now, next)
    \/ Deletes(t, now, next)

LEMMA RisesAppend ==
    ASSUME NEW s \in Seq(Receipt), NEW x \in Receipt
    PROVE  Rises(s, s) /\ Rises(s, Append(s, x)) /\ Append(s, x) \in Seq(Receipt)
<1>1. /\ DOMAIN s = 1..Len(s) /\ Len(s) \in Nat
      /\ \A i \in DOMAIN s : s[i] \in Receipt
  BY LenProperties, ElementOfSeq
<1>2. /\ Append(s, x) \in Seq(Receipt) /\ Len(Append(s, x)) = Len(s) + 1
      /\ \A i \in 1..Len(s) : Append(s, x)[i] = s[i]
  BY AppendProperties
<1>3. DOMAIN Append(s, x) = 1..(Len(s) + 1)
  BY <1>2, LenProperties
<1>4. \A i \in DOMAIN s : rank(s[i].status) \in Nat
  BY <1>1, Ranks DEF Receipt
<1> QED BY <1>1, <1>2, <1>3, <1>4 DEF Rises

LEMMA RisesExcept ==
    ASSUME NEW s \in Seq(Receipt), NEW k \in DOMAIN s, NEW x \in Receipt, x.user = s[k].user,
           rank(s[k].status) < rank(x.status)
    PROVE  Rises(s, [s EXCEPT ![k] = x])
<1>1. /\ DOMAIN s = 1..Len(s) /\ Len(s) \in Nat
      /\ \A i \in DOMAIN s : s[i] \in Receipt
  BY LenProperties, ElementOfSeq
<1>2. \A i \in DOMAIN s : rank(s[i].status) \in Nat
  BY <1>1, Ranks DEF Receipt
<1>3. rank(x.status) \in Nat
  BY Ranks DEF Receipt
<1> QED BY <1>1, <1>2, <1>3 DEF Rises

LEMMA MarkDoc ==
    ASSUME NEW t, t.op \in {"delivered", "seen"}, t.by \in Members,
           NEW m, NEW old \in Doc, messages[m] \in Doc, Follows(old, messages[m]),
           NEW new, new = Changed(t, old), ~VersionError(m, old, new),
           NEW next, next = Saved(messages[m], old, new)
    PROVE  /\ next \in Doc /\ Follows(messages[m], next)
           /\ Receives(t, old, new, messages[m], next)
<1> DEFINE now == messages[m]
           u == t.by
           mine == ReceiptsOf(old, u)
           k == First(mine)
           x == [user |-> u, status |-> t.op]
<1>1. /\ new \in Doc /\ Marked(old, u, t.op, new)
      /\ new.reactions = old.reactions /\ new.pinnedBy = old.pinnedBy
      /\ new.deletedFor = old.deletedFor /\ new.deletedAt = old.deletedAt
  <2>1. new = Received(old, t.by, t.op)
    BY DEF Changed
  <2> HIDE DEF now, u, mine, k, x
  <2> QED BY <2>1, ReceivedEffect DEF u
<1>2. /\ now.receipts \in Seq(Receipt) /\ old.receipts \in Seq(Receipt)
      /\ new.receipts \in Seq(Receipt) /\ now.reactions \in Seq(Reaction)
      /\ old.reactions \in Seq(Reaction) /\ now.v \in Nat
  BY <1>1, DocFields
<1>3. SavedArray(now.reactions, old.reactions, new.reactions) = now.reactions
  BY <1>1, <1>2, SameArray
<1>4. x \in Receipt
  BY DEF Receipt, Levels
<1>5. ~Grown(old.receipts, new.receipts) /\ new.receipts # old.receipts
        => now.v = old.v /\ now.receipts = old.receipts
  BY DEF VersionError, Follows
<1>6. /\ next.sender = now.sender /\ next.files = now.files
      /\ next.reactions = now.reactions /\ next.pinnedBy = now.pinnedBy
      /\ next.deletedFor = now.deletedFor
      /\ next.receipts = SavedArray(now.receipts, old.receipts, new.receipts)
      /\ next.v = IF new.receipts # old.receipts THEN now.v + 1 ELSE now.v
      /\ next.receipts \in Seq(Receipt) => next \in Doc
  BY <1>1, <1>2, <1>3, SavedFields
<1>7. next.deletedAt = now.deletedAt
  <2>1. next.deletedAt = (now.deletedAt \/ new.deletedAt)
    BY <1>1, SavedDeleted
  <2>2. now.deletedAt \in BOOLEAN /\ (old.deletedAt => now.deletedAt)
    BY DocFields DEF Follows
  <2> QED BY <1>1, <2>1, <2>2
<1>8. CASE mine = {} /\ new.receipts = Append(old.receipts, x)
  <2>1. Grown(old.receipts, new.receipts) /\ next.receipts = Append(now.receipts, x)
    <3>1. /\ Grown(old.receipts, new.receipts)
          /\ SavedArray(now.receipts, old.receipts, new.receipts) = Append(now.receipts, x)
      <4>1. now.receipts \in Seq(Receipt) /\ old.receipts \in Seq(Receipt)
        BY <1>2
      <4>2. new.receipts = Append(old.receipts, x)
        BY <1>8
      <4> HIDE DEF x
      <4> QED BY <1>4, <4>1, <4>2, PushedArray
    <3> QED BY <1>6, <3>1
  <2>2. next.receipts \in Seq(Receipt) /\ Rises(now.receipts, next.receipts)
    BY <1>2, <1>4, <2>1, RisesAppend
  <2>3. new.receipts # old.receipts
    BY <1>2, <2>1, LenProperties DEF Grown
  <2>4. Follows(now, next)
    BY <1>2, <1>6, <1>7, <2>2, <2>3 DEF Follows
  <2>5. Receives(t, old, new, now, next)
    BY <1>6, <1>7, <1>8, <2>1 DEF Receives
  <2> QED BY <1>6, <2>2, <2>4, <2>5
<1>9. CASE mine # {} /\ rank(old.receipts[k].status) >= rank(t.op) /\ new.receipts = old.receipts
  <2>1. next.receipts = now.receipts
    BY <1>2, <1>6, <1>9, SameArray
  <2>2. Rises(now.receipts, next.receipts)
    BY <1>2, <1>4, <2>1, RisesAppend
  <2>3. Follows(now, next)
    BY <1>2, <1>6, <1>7, <1>9, <2>1, <2>2 DEF Follows
  <2>4. Receives(t, old, new, now, next)
    BY <1>6, <1>7, <1>9, <2>1 DEF Receives
  <2> QED BY <1>2, <1>6, <2>1, <2>3, <2>4
<1>10. CASE /\ mine # {} /\ rank(old.receipts[k].status) < rank(t.op)
            /\ new.receipts = [old.receipts EXCEPT ![k] = x]
  <2>1. k \in DOMAIN old.receipts /\ old.receipts[k].user = u /\ old.receipts[k] \in Receipt
    BY <1>10, ReceiptsIn
  <2>2. rank(old.receipts[k].status) \in Nat /\ rank(t.op) \in Nat
    BY <1>4, <2>1, Ranks DEF Receipt
  <2>3. new.receipts[k] = x /\ old.receipts[k].status # t.op
    BY <1>10, <2>1, <2>2
  <2>4. new.receipts # old.receipts
    BY <2>3
  <2>5. ~Grown(old.receipts, new.receipts)
    <3>1. Len(new.receipts) = Len(old.receipts) /\ Len(old.receipts) \in Nat
      BY <1>2, <1>10, LenProperties
    <3> QED BY <3>1 DEF Grown
  <2>6. now.v = old.v /\ now.receipts = old.receipts
    BY <1>5, <2>4, <2>5
  <2>7. next.receipts = [now.receipts EXCEPT ![k] = x]
    BY <1>6, <1>10, <2>4, <2>5, <2>6, SetArray
  <2>8. ReceiptsOf(now, u) = mine
    BY <2>6 DEF ReceiptsOf
  <2>9. Rises(now.receipts, next.receipts)
    <3>1. /\ k \in DOMAIN now.receipts /\ x.user = now.receipts[k].user
          /\ rank(now.receipts[k].status) < rank(x.status)
      BY <1>10, <2>1, <2>6
    <3>2. now.receipts \in Seq(Receipt)
      BY <1>2
    <3> HIDE DEF x, k
    <3> QED BY <1>4, <2>7, <3>1, <3>2, RisesExcept
  <2>10. next.receipts \in Seq(Receipt)
    BY <1>2, <1>6, <2>4, <2>5, SetArray
  <2>11. Follows(now, next)
    BY <1>2, <1>6, <1>7, <2>4, <2>9 DEF Follows
  <2>12. Receives(t, old, new, now, next)
    BY <1>6, <1>7, <1>10, <2>6, <2>7, <2>8 DEF Receives
  <2> QED BY <1>6, <2>10, <2>11, <2>12
<1> QED BY <1>1, <1>8, <1>9, <1>10 DEF Marked

LEMMA ReactDoc ==
    ASSUME NEW t, t.op = "react", t.by \in Members, t.emoji \in Emoji,
           NEW m, NEW old \in Doc, messages[m] \in Doc, Follows(old, messages[m]),
           NEW new, new = Changed(t, old), ~VersionError(m, old, new),
           NEW next, next = Saved(messages[m], old, new)
    PROVE  /\ next \in Doc /\ Follows(messages[m], next)
           /\ Reacts(t, old, new, messages[m], next)
<1> DEFINE now == messages[m]
           u == t.by
           e == t.emoji
           x == [emoji |-> e, users |-> {u}]
<1>1. /\ new \in Doc /\ Turned(old, u, e, new)
      /\ new.receipts = old.receipts /\ new.pinnedBy = old.pinnedBy
      /\ new.deletedFor = old.deletedFor /\ new.deletedAt = old.deletedAt
  BY ToggledEffect DEF Changed
<1>2. /\ now.receipts \in Seq(Receipt) /\ old.receipts \in Seq(Receipt)
      /\ new.reactions \in Seq(Reaction) /\ now.reactions \in Seq(Reaction)
      /\ old.reactions \in Seq(Reaction) /\ now.v \in Nat
  BY <1>1, DocFields
<1>3. SavedArray(now.receipts, old.receipts, new.receipts) = now.receipts
  BY <1>1, <1>2, SameArray
<1>4. x \in Reaction
  BY DEF Reaction
<1>5. ~Grown(old.reactions, new.reactions) /\ new.reactions # old.reactions
        => now.v = old.v /\ now.reactions = old.reactions
  BY DEF VersionError, Follows
<1>6. /\ next.sender = now.sender /\ next.files = now.files
      /\ next.receipts = now.receipts /\ next.pinnedBy = now.pinnedBy
      /\ next.deletedFor = now.deletedFor
      /\ next.reactions = SavedArray(now.reactions, old.reactions, new.reactions)
      /\ next.v = IF new.reactions # old.reactions THEN now.v + 1 ELSE now.v
      /\ next.reactions \in Seq(Reaction) => next \in Doc
  BY <1>1, <1>2, <1>3, SavedFields
<1>7. next.deletedAt = now.deletedAt
  <2>1. next.deletedAt = (now.deletedAt \/ new.deletedAt)
    BY <1>1, SavedDeleted
  <2>2. now.deletedAt \in BOOLEAN /\ (old.deletedAt => now.deletedAt)
    BY DocFields DEF Follows
  <2> QED BY <1>1, <2>1, <2>2
<1>8. Rises(now.receipts, next.receipts)
  <2>1. [user |-> u, status |-> "seen"] \in Receipt
    BY DEF Receipt, Levels
  <2> QED BY <1>2, <1>6, <2>1, RisesAppend
<1>9. CASE EntriesOf(old, e) = {} /\ new.reactions = Append(old.reactions, x)
  <2>1. Grown(old.reactions, new.reactions) /\ next.reactions = Append(now.reactions, x)
    <3>1. /\ Grown(old.reactions, new.reactions)
          /\ SavedArray(now.reactions, old.reactions, new.reactions) = Append(now.reactions, x)
      <4>1. now.reactions \in Seq(Reaction) /\ old.reactions \in Seq(Reaction)
        BY <1>2
      <4>2. new.reactions = Append(old.reactions, x)
        BY <1>9
      <4> HIDE DEF x
      <4> QED BY <1>4, <4>1, <4>2, PushedArray
    <3> QED BY <1>6, <3>1
  <2>2. next.reactions \in Seq(Reaction)
    BY <1>2, <1>4, <2>1, AppendProperties
  <2>3. new.reactions # old.reactions
    BY <1>2, <2>1, LenProperties DEF Grown
  <2>4. Follows(now, next)
    BY <1>2, <1>6, <1>7, <1>8, <2>3 DEF Follows
  <2>5. Reacts(t, old, new, now, next)
    BY <1>6, <1>7, <1>9, <2>1 DEF Reacts
  <2> QED BY <1>6, <2>2, <2>4, <2>5
<1>10. CASE new.reactions = old.reactions
  <2>1. next.reactions = now.reactions
    BY <1>2, <1>6, <1>10, SameArray
  <2>2. Follows(now, next)
    BY <1>2, <1>6, <1>7, <1>8, <1>10, <2>1 DEF Follows
  <2>3. Reacts(t, old, new, now, next)
    BY <1>6, <1>7, <2>1 DEF Reacts
  <2> QED BY <1>2, <1>6, <2>1, <2>2, <2>3
<1>11. CASE EntriesOf(old, e) # {} /\ new.reactions # old.reactions
  <2>1. ~Grown(old.reactions, new.reactions)
    <3>1. First(EntriesOf(old, e)) \in DOMAIN old.reactions /\ Len(old.reactions) \in Nat
      BY <1>11, EntriesIn
    <3>2. Len(Without(old.reactions, First(EntriesOf(old, e)))) = Len(old.reactions) - 1
      BY <1>2, <3>1, WithoutType
    <3>3. \A y : Len([old.reactions EXCEPT ![First(EntriesOf(old, e))] = y]) = Len(old.reactions)
      BY <1>2, LenProperties
    <3>4. Len(new.reactions) \in {Len(old.reactions) - 1, Len(old.reactions)}
      BY <1>1, <1>11, <3>2, <3>3 DEF Turned
    <3> QED BY <3>1, <3>4 DEF Grown
  <2>2. now.v = old.v /\ now.reactions = old.reactions
    BY <1>5, <1>11, <2>1
  <2>3. next.reactions = new.reactions
    BY <1>6, <1>11, <2>1, SetArray
  <2>4. EntriesOf(now, e) = EntriesOf(old, e)
    BY <2>2 DEF EntriesOf
  <2>5. Turned(now, u, e, next)
    BY <1>1, <2>2, <2>3, <2>4 DEF Turned
  <2>6. Follows(now, next)
    BY <1>2, <1>6, <1>7, <1>8, <1>11 DEF Follows
  <2>7. Reacts(t, old, new, now, next)
    BY <1>6, <1>7, <1>11, <2>4, <2>5 DEF Reacts
  <2> QED BY <1>2, <1>6, <2>3, <2>6, <2>7
<1> QED BY <1>1, <1>9, <1>10, <1>11 DEF Turned

(* The other three operations leave the arrays alone. *)
LEMMA PlainDoc ==
    ASSUME NEW t, t.op \in {"pin", "hide", "delete"}, t.by \in Members,
           NEW m, NEW old \in Doc, messages[m] \in Doc, Follows(old, messages[m]),
           NEW new, new = Changed(t, old),
           NEW next, next = Saved(messages[m], old, new)
    PROVE  /\ next \in Doc /\ Follows(messages[m], next)
           /\ ~Grown(old.receipts, new.receipts) /\ ~Grown(old.reactions, new.reactions)
           /\ ~VersionError(m, old, new)
           /\ \/ Pins(t, messages[m], next) \/ Hides(t, messages[m], next)
              \/ Deletes(t, messages[m], next)
<1> DEFINE now == messages[m]
<1>1. /\ new \in Doc
      /\ new.receipts = old.receipts /\ new.reactions = old.reactions
      /\ t.op # "pin" => new.pinnedBy = old.pinnedBy
      /\ new.deletedFor = IF t.op = "hide" THEN old.deletedFor \cup {t.by} ELSE old.deletedFor
  <2>1. CASE t.op = "pin"
    <3>1. new = [old EXCEPT !.pinnedBy = IF old.pinnedBy = None THEN t.by ELSE None]
      BY <2>1 DEF Changed
    <3> QED BY <2>1, <3>1 DEF Doc
  <2>2. CASE t.op = "hide"
    <3>1. new = [old EXCEPT !.deletedFor = old.deletedFor \cup {t.by}]
      BY <2>2 DEF Changed
    <3>2. old.deletedFor \cup {t.by} \in SUBSET Members
      BY DocFields
    <3>3. new \in Doc
      BY <3>1, <3>2, DocExcept
    <3> QED BY <2>2, <3>1, <3>3 DEF Doc
  <2>3. CASE t.op = "delete"
    <3>1. new = [old EXCEPT !.deletedAt = TRUE]
      BY <2>3 DEF Changed
    <3> QED BY <2>3, <3>1 DEF Doc
  <2> QED BY <2>1, <2>2, <2>3
<1>2. /\ t.op # "delete" => new.deletedAt = old.deletedAt
      /\ t.op = "delete" => new.deletedAt = TRUE
  BY DEF Changed, Doc
<1>3. /\ now.receipts \in Seq(Receipt) /\ old.receipts \in Seq(Receipt)
      /\ now.reactions \in Seq(Reaction) /\ old.reactions \in Seq(Reaction)
      /\ now.v \in Nat /\ now.pinnedBy \in Members \cup {None}
      /\ new.pinnedBy \in Members \cup {None}
  BY <1>1, DocFields
<1>4. /\ ~Grown(old.receipts, new.receipts) /\ ~Grown(old.reactions, new.reactions)
      /\ SavedArray(now.receipts, old.receipts, new.receipts) = now.receipts
      /\ SavedArray(now.reactions, old.reactions, new.reactions) = now.reactions
  <2>1. /\ ~Grown(old.receipts, old.receipts)
        /\ SavedArray(now.receipts, old.receipts, old.receipts) = now.receipts
    BY <1>3, SameArray
  <2>2. /\ ~Grown(old.reactions, old.reactions)
        /\ SavedArray(now.reactions, old.reactions, old.reactions) = now.reactions
    BY <1>3, SameArray
  <2> QED BY <1>1, <2>1, <2>2
<1>5. ~VersionError(m, old, new)
  BY <1>1 DEF VersionError
<1>6. /\ next.sender = now.sender /\ next.files = now.files /\ Keeps(now, next)
      /\ next.deletedFor = now.deletedFor \cup (new.deletedFor \ old.deletedFor)
      /\ next.pinnedBy = IF new.pinnedBy # old.pinnedBy THEN new.pinnedBy ELSE now.pinnedBy
      /\ next.v \in {now.v, now.v + 1}
      /\ next \in Doc
  BY <1>1, <1>3, <1>4, SavedFields DEF Keeps
<1>7. /\ t.op # "delete" => next.deletedAt = now.deletedAt
      /\ t.op = "delete" => next.deletedAt = TRUE
  <2>1. next.deletedAt = (now.deletedAt \/ new.deletedAt)
    BY <1>1, SavedDeleted
  <2>2. now.deletedAt \in BOOLEAN /\ (old.deletedAt => now.deletedAt)
    BY DocFields DEF Follows
  <2> QED BY <1>2, <2>1, <2>2
<1>8. Follows(now, next)
  <2>1. [user |-> t.by, status |-> "seen"] \in Receipt
    BY DEF Receipt, Levels
  <2>2. Rises(now.receipts, next.receipts)
    BY <1>3, <1>6, <2>1, RisesAppend DEF Keeps
  <2>3. now.deletedAt => next.deletedAt
    BY <1>7
  <2> QED BY <1>3, <1>6, <2>2, <2>3 DEF Follows, Keeps
<1>9. t.op = "pin" => Pins(t, now, next)
  BY <1>1, <1>3, <1>6, <1>7 DEF Pins
<1>10. ASSUME t.op = "hide" PROVE Hides(t, now, next)
  <2>1. next.deletedFor = now.deletedFor \cup ((old.deletedFor \cup {t.by}) \ old.deletedFor)
    BY <1>1, <1>6, <1>10
  <2>2. (old.deletedFor \cup {t.by}) \ old.deletedFor \in {{}, {t.by}}
    OBVIOUS
  <2>3. next.deletedFor \in {now.deletedFor, now.deletedFor \cup {t.by}}
    BY <2>1, <2>2
  <2>4. next.pinnedBy = now.pinnedBy
    BY <1>1, <1>6, <1>10
  <2>5. Keeps(now, next) /\ next.deletedAt = now.deletedAt
    BY <1>6, <1>7, <1>10
  <2> QED BY <1>10, <2>3, <2>4, <2>5 DEF Hides
<1>11. t.op = "delete" => Deletes(t, now, next)
  BY <1>1, <1>6, <1>7 DEF Deletes
<1> QED BY <1>4, <1>5, <1>6, <1>8, <1>9, <1>10, <1>11

-----------------------------------------------------------------------------
(* Steps *)

LEMMA ThreadTypes ==
    ASSUME TypeOK
    PROVE  /\ DOMAIN messages = 1..Len(messages) /\ Len(messages) \in 0..MaxMessages
           /\ messages \in Seq(Doc)
           /\ \A m \in DOMAIN messages : m \in Nat /\ m \in 1..MaxMessages /\ messages[m] \in Doc
<1>1. messages \in Seq(Doc) /\ Len(messages) <= MaxMessages
  BY DEF TypeOK
<1>2. DOMAIN messages = 1..Len(messages) /\ Len(messages) \in Nat
  BY <1>1, LenProperties
<1>3. \A m \in DOMAIN messages : messages[m] \in Doc
  BY <1>1, <1>2, ElementOfSeq
<1> QED BY <1>1, <1>2, <1>3, MessagesAssumption

LEMMA TaskFields ==
    ASSUME TypeOK, NEW r \in Requests
    PROVE  /\ task[r] \in Task(DOMAIN task[r].rows)
           /\ task[r].pc \in {"idle", "save", "reset", "purge"} /\ task[r].op \in Ops
           /\ task[r].by \in Members \cup {None} /\ task[r].emoji \in Emoji \cup {None}
           /\ \A m \in DOMAIN task[r].rows :
                 m \in task[r].picked /\ m \in DOMAIN messages /\ task[r].rows[m] \in Doc
           /\ task[r].picked \subseteq DOMAIN messages
           /\ task[r].pc = "idle" => task[r] = Idle
           /\ r \in DOMAIN task
<1>1. task[r] \in Task(DOMAIN task[r].rows) /\ DOMAIN task[r].rows \subseteq task[r].picked
      /\ r \in DOMAIN task /\ (task[r].pc = "idle" => task[r] = Idle)
  BY DEF TypeOK
<1> QED BY <1>1 DEF Task

(* What is left of a request when row m is saved, loaded as old. *)
Left(t, m) == [t EXCEPT !.rows = [n \in (DOMAIN t.rows) \ {m} |-> t.rows[n]]]

Then(t, m, old) ==
    IF (DOMAIN t.rows) \ {m} # {} THEN Left(t, m)
    ELSE IF t.op = "seen" THEN [Left(t, m) EXCEPT !.pc = "reset"]
    ELSE IF t.op = "delete" /\ old.files # {} THEN [Left(t, m) EXCEPT !.pc = "purge"]
    ELSE Idle

(* Deleting changes no array, so its save is never refused. *)
Refused(r) ==
    /\ task[r].op # "delete"
    /\ UNCHANGED <<messages, raced, assets, begun>> /\ task' = [task EXCEPT ![r] = Idle]

Pushes(old, new) == Grown(old.receipts, new.receipts) \/ Grown(old.reactions, new.reactions)

Stores(r, m, next) ==
    LET t == task[r]
        old == t.rows[m]
        new == Changed(t, old)
    IN  /\ old \in Doc /\ Follows(old, messages[m])
        /\ next \in Doc /\ Follows(messages[m], next)
        /\ Effect(t, old, new, messages[m], next)
        /\ messages' = [messages EXCEPT ![m] = next]
        /\ raced' = IF Pushes(old, new) /\ old.v # messages[m].v THEN raced \cup {m} ELSE raced
        /\ task' = [task EXCEPT ![r] = Then(t, m, old)]
        /\ UNCHANGED <<assets, begun>>

LEMMA SaveStep ==
    ASSUME TypeOK, Placed, CopiesHold, NEW r \in Requests, Save(r)
    PROVE  \/ Refused(r)
           \/ \E m \in DOMAIN task[r].rows : \E next : Stores(r, m, next)
<1> DEFINE t == task[r]
           m == First(DOMAIN t.rows)
           old == t.rows[m]
           new == Changed(t, old)
           next == Saved(messages[m], old, new)
<1>1. /\ t.pc = "save" /\ DOMAIN t.rows # {} /\ t.by \in Members
      /\ t.op = "react" => t.emoji \in Emoji
      /\ t.op # "none"
  BY DEF Save, Placed
<1>2. m \in DOMAIN t.rows
  <2>1. DOMAIN t.rows \in SUBSET Nat
    BY TaskFields, ThreadTypes
  <2> QED BY <1>1, <2>1, FirstIn
<1>3. old \in Doc /\ messages[m] \in Doc /\ Follows(old, messages[m])
  BY <1>2, TaskFields, ThreadTypes DEF CopiesHold
<1>4. CASE VersionError(m, old, new)
  <2>1. t.op # "delete"
    BY <1>1, <1>3, <1>4, PlainDoc
  <2> QED BY <1>4, <2>1 DEF Save, Refused
<1>5. CASE ~VersionError(m, old, new)
  <2>1. /\ messages' = [messages EXCEPT ![m] = next]
        /\ raced' = IF Pushes(old, new) /\ old.v # messages[m].v THEN raced \cup {m} ELSE raced
        /\ UNCHANGED <<assets, begun>>
    BY <1>5 DEF Save, Pushes
  <2>2. task' = [task EXCEPT ![r] = Then(t, m, old)]
    BY <1>5 DEF Save, Then, Left
  <2>3. next \in Doc /\ Follows(messages[m], next) /\ Effect(t, old, new, messages[m], next)
    <3> HIDE DEF m, old, new, next
    <3>1. new = Changed(t, old) /\ next = Saved(messages[m], old, new)
      BY DEF new, next
    <3>2. CASE t.op \in {"delivered", "seen"}
      BY <1>1, <1>3, <1>5, <3>1, <3>2, MarkDoc DEF Effect
    <3>3. CASE t.op = "react"
      BY <1>1, <1>3, <1>5, <3>1, <3>3, ReactDoc DEF Effect
    <3>4. CASE t.op \in {"pin", "hide", "delete"}
      BY <1>1, <1>3, <1>5, <3>1, <3>4, PlainDoc DEF Effect
    <3>5. t.op \in {"delivered", "seen", "react", "pin", "hide", "delete"}
      BY <1>1, TaskFields DEF Ops
    <3> QED BY <3>2, <3>3, <3>4, <3>5
  <2> QED BY <1>2, <1>3, <2>1, <2>2, <2>3 DEF Stores
<1> QED BY <1>4, <1>5

(* What Create adds to the thread. *)
Fresh(u, mimes) ==
    [sender |-> u, files |-> mimes,
     receipts |-> IF u = None THEN <<>> ELSE <<[user |-> u, status |-> "sent"]>>,
     reactions |-> <<>>, pinnedBy |-> None, deletedFor |-> {}, deletedAt |-> FALSE, v |-> 0]

LEMMA FreshDoc ==
    ASSUME NEW u \in Members \cup {None}, NEW mimes \in SUBSET Mimes
    PROVE  /\ Fresh(u, mimes) \in Doc
           /\ Fresh(u, mimes).receipts \in Seq(Receipt)
           /\ DOMAIN Fresh(u, mimes).receipts \subseteq {1}
           /\ \A i \in DOMAIN Fresh(u, mimes).receipts :
                 Fresh(u, mimes).receipts[i].status = "sent"
           /\ DOMAIN Fresh(u, mimes).reactions = {}
<1>1. <<>> \in Seq(Receipt) /\ <<>> \in Seq(Reaction) /\ DOMAIN <<>> = {}
  OBVIOUS
<1>2. CASE u = None
  <2>1. Fresh(u, mimes).receipts = <<>> /\ Fresh(u, mimes).reactions = <<>>
    BY <1>2 DEF Fresh
  <2>2. Fresh(u, mimes) \in Doc
    BY <1>1, <1>2 DEF Fresh, Doc, Receipt, Reaction
  <2> QED BY <1>1, <2>1, <2>2
<1>3. CASE u # None
  <2> DEFINE x == [user |-> u, status |-> "sent"]
  <2>1. x \in Receipt
    BY <1>3 DEF Receipt, Levels
  <2>2. <<x>> \in Seq(Receipt) /\ DOMAIN <<x>> = {1} /\ <<x>>[1] = x
    BY <2>1
  <2>3. Fresh(u, mimes).receipts = <<x>> /\ Fresh(u, mimes).reactions = <<>>
    BY <1>3 DEF Fresh
  <2>4. Fresh(u, mimes) \in Doc
    BY <1>1, <1>3, <2>2 DEF Fresh, Doc, Receipt, Reaction
  <2> QED BY <1>1, <2>2, <2>3, <2>4
<1> QED BY <1>2, <1>3

Uploaded(m, declared, mimes) == {<<m, f, UploadedTo(declared, f)>> : f \in mimes}

LEMMA CreateStep ==
    ASSUME TypeOK, NEW u \in Members \cup {None}, NEW declared, NEW mimes \in SUBSET Mimes,
           Create(u, declared, mimes)
    PROVE  LET m == Len(messages) + 1 IN
           /\ m \in 1..MaxMessages /\ m \notin DOMAIN messages
           /\ DOMAIN messages' = (DOMAIN messages) \cup {m}
           /\ messages' \in Seq(Doc) /\ Len(messages') = m
           /\ \A n \in DOMAIN messages : messages'[n] = messages[n]
           /\ messages'[m] = Fresh(u, mimes)
           /\ assets' = assets \cup Uploaded(m, declared, mimes)
           /\ UNCHANGED <<task, begun, raced>>
<1> DEFINE m == Len(messages) + 1
<1>1. m <= MaxMessages /\ messages' = Append(messages, Fresh(u, mimes))
  BY DEF Create, Fresh
<1>2. /\ messages \in Seq(Doc) /\ DOMAIN messages = 1..Len(messages) /\ Len(messages) \in Nat
  BY ThreadTypes
<1>3. Fresh(u, mimes) \in Doc
  BY FreshDoc
<1>4. /\ messages' \in Seq(Doc) /\ Len(messages') = m /\ messages'[m] = Fresh(u, mimes)
      /\ \A n \in 1..Len(messages) : messages'[n] = messages[n]
  BY <1>1, <1>2, <1>3, AppendProperties
<1>5. DOMAIN messages' = 1..m
  BY <1>4, LenProperties
<1>6. m \in 1..MaxMessages /\ m \notin DOMAIN messages /\ 1..m = (1..Len(messages)) \cup {m}
  BY <1>1, <1>2, MessagesAssumption
<1>7. /\ assets' = assets \cup Uploaded(m, declared, mimes)
      /\ UNCHANGED <<task, begun, raced>>
  BY DEF Create, Uploaded
<1> QED BY <1>2, <1>4, <1>5, <1>6, <1>7

(* What a request asks for, and how it starts. *)
Asks(op, u, e, ids) ==
    /\ op \in Ops \ {"none"} /\ u \in Members /\ e \in Emoji \cup {None}
    /\ ids \subseteq DOMAIN messages
    /\ op = "react" => e \in Emoji
    /\ op = "delete" => \E m \in DOMAIN messages : ids = {m}
    /\ op \in {"delivered", "seen"} => e = None /\ \A m \in ids : messages[m].sender # u
    /\ op \notin {"delivered", "seen"} => ids # {}
    /\ op = "seen" /\ ids # {} => u \notin Private

Started(op, u, e, ids) ==
    [pc |-> IF ids # {} THEN "save" ELSE IF op = "seen" THEN "reset" ELSE "idle",
     op |-> IF ids = {} /\ op # "seen" THEN "none" ELSE op,
     by |-> IF ids = {} /\ op # "seen" THEN None ELSE u, emoji |-> e,
     rows |-> [m \in ids |-> messages[m]], picked |-> ids]

Starts(r) ==
    \E op, u, e, ids :
       /\ Asks(op, u, e, ids)
       /\ task[r].pc = "idle"
       /\ begun < MaxBegun /\ begun' = begun + 1
       /\ task' = [task EXCEPT ![r] = Started(op, u, e, ids)]
       /\ UNCHANGED <<messages, assets, raced>>

LEMMA RequestStarts ==
    ASSUME NEW r \in Requests, Request(r)
    PROVE  Starts(r)
<1>1. ASSUME NEW op, NEW u, NEW e, NEW ids, Begin(r, op, u, e, ids), Asks(op, u, e, ids)
      PROVE  Starts(r)
  BY <1>1 DEF Begin, Starts, Started
<1>2. PICK u \in Members :
         \/ \E m \in DOMAIN messages :
               \/ \E e \in Emoji : toggleReaction(r, u, m, e)
               \/ togglePin(r, u, m) \/ removeForMe(r, u, m) \/ removeForEveryone(r, u, m)
         \/ \E status \in {"delivered", "seen"} :
               \E asked \in {DOMAIN messages} \cup {{m} : m \in DOMAIN messages} :
                  mark(r, u, status, asked)
  BY DEF Request
<1>3. ASSUME NEW m \in DOMAIN messages,
             \/ \E e \in Emoji : toggleReaction(r, u, m, e)
             \/ togglePin(r, u, m) \/ removeForMe(r, u, m) \/ removeForEveryone(r, u, m)
      PROVE  Starts(r)
  <2>1. ASSUME NEW e \in Emoji, toggleReaction(r, u, m, e) PROVE Starts(r)
    <3>1. Begin(r, "react", u, e, {m}) /\ Asks("react", u, e, {m})
      BY <2>1 DEF toggleReaction, Asks, Ops
    <3> QED BY <1>1, <3>1
  <2>2. CASE togglePin(r, u, m)
    <3>1. Begin(r, "pin", u, None, {m}) /\ Asks("pin", u, None, {m})
      BY <2>2 DEF togglePin, Asks, Ops
    <3> QED BY <1>1, <3>1
  <2>3. CASE removeForMe(r, u, m)
    <3>1. Begin(r, "hide", u, None, {m}) /\ Asks("hide", u, None, {m})
      BY <2>3 DEF removeForMe, Asks, Ops
    <3> QED BY <1>1, <3>1
  <2>4. CASE removeForEveryone(r, u, m)
    <3>1. Begin(r, "delete", u, None, {m}) /\ Asks("delete", u, None, {m})
      BY <2>4 DEF removeForEveryone, Asks, Ops
    <3> QED BY <1>1, <3>1
  <2> QED BY <1>3, <2>1, <2>2, <2>3, <2>4
<1>4. ASSUME NEW status \in {"delivered", "seen"},
             NEW asked \in {DOMAIN messages} \cup {{m} : m \in DOMAIN messages},
             mark(r, u, status, asked)
      PROVE  Starts(r)
  <2> DEFINE found == {m \in asked : messages[m].sender # u /\ Loadable(m, u)}
             ids == IF status = "seen" /\ u \in Private THEN {} ELSE found
  <2>1. Begin(r, status, u, None, ids)
    BY <1>4 DEF mark
  <2>2. found \subseteq DOMAIN messages /\ \A m \in found : messages[m].sender # u
    OBVIOUS
  <2>3. Asks(status, u, None, ids)
    BY <2>2 DEF Asks, Ops
  <2> QED BY <1>1, <2>1, <2>3
<1> QED BY <1>2, <1>3, <1>4

Creates(u, declared, mimes) ==
    /\ \A f \in mimes : Accepted(declared, f)
    /\ Create(u, declared, mimes)

LEMMA StepCases ==
    ASSUME TypeOK, Placed, CopiesHold, Next
    PROVE  \/ \E u \in Members \cup {None}, declared \in Declared, mimes \in SUBSET Mimes :
                Creates(u, declared, mimes)
           \/ \E r \in Requests :
                \/ Starts(r) \/ Refused(r) \/ resetUnread(r) \/ Purge(r)
                \/ \E m \in DOMAIN task[r].rows : \E next : Stores(r, m, next)
<1>1. ASSUME NEW u \in Members, Send(u)
      PROVE  \E declared \in Declared, mimes \in SUBSET Mimes : Creates(u, declared, mimes)
  <2>1. PICK up \in Uploads :
           (\A f \in up.mimes : Accepted(up.declared, f)) /\ Create(u, up.declared, up.mimes)
    BY <1>1 DEF Send
  <2>2. up.declared \in Declared /\ up.mimes \in SUBSET Mimes
    BY MessagesAssumption
  <2> QED BY <2>1, <2>2 DEF Creates
<1>2. sendSystem => Creates(None, "none", {})
  BY DEF sendSystem, Creates
<1>3. "none" \in Declared
  BY DEF Declared
<1>4. ASSUME NEW r \in Requests, Save(r)
      PROVE  Refused(r) \/ \E m \in DOMAIN task[r].rows : \E next : Stores(r, m, next)
  BY <1>4, SaveStep
<1>5. ASSUME NEW r \in Requests, Request(r) PROVE Starts(r)
  BY <1>5, RequestStarts
<1> QED BY <1>1, <1>2, <1>3, <1>4, <1>5 DEF Next

-----------------------------------------------------------------------------
(* Tasks *)

LEMMA IdleFields ==
    /\ Idle.pc = "idle" /\ Idle.op = "none" /\ DOMAIN Idle.rows = {} /\ Idle.picked = {}
    /\ Idle \in Task({})
<1>1. <<>> \in [{} -> Doc]
  OBVIOUS
<1> QED BY <1>1 DEF Idle, Task, Ops

(* What comes of task t when its row m is saved. *)
Resumed(t, m, old, new) ==
    \/ /\ new = Idle /\ t.op # "seen" /\ (t.op = "delete" => old.files = {})
       /\ (DOMAIN t.rows) \ {m} = {}
    \/ /\ new.op = t.op /\ new.by = t.by /\ new.emoji = t.emoji /\ new.picked = t.picked
       /\ DOMAIN new.rows = (DOMAIN t.rows) \ {m}
       /\ \A n \in DOMAIN new.rows : new.rows[n] = t.rows[n]
       /\ new.pc \in {"save", "reset", "purge"}
       /\ (new.pc = "save") <=> (DOMAIN new.rows # {})
       /\ new.pc = "reset" => new.op = "seen"
       /\ new.pc = "purge" => new.op = "delete"

LEMMA ThenFields ==
    ASSUME NEW t, t \in Task(DOMAIN t.rows), t.pc = "save", NEW m \in DOMAIN t.rows, NEW old,
           NEW new, new = Then(t, m, old)
    PROVE  /\ new \in Task(DOMAIN new.rows)
           /\ Resumed(t, m, old, new)
<1> DEFINE left == Left(t, m)
<1>1. /\ left \in Task(DOMAIN left.rows) /\ DOMAIN left.rows = (DOMAIN t.rows) \ {m}
      /\ left.pc = "save" /\ left.op = t.op /\ left.by = t.by /\ left.emoji = t.emoji
      /\ left.picked = t.picked /\ \A n \in DOMAIN left.rows : left.rows[n] = t.rows[n]
  <2>1. [n \in (DOMAIN t.rows) \ {m} |-> t.rows[n]] \in [(DOMAIN t.rows) \ {m} -> Doc]
    BY DEF Task
  <2> QED BY <2>1 DEF Left, Task
<1>2. ASSUME NEW c \in {"reset", "purge"}
      PROVE  LET x == [left EXCEPT !.pc = c] IN
             /\ x \in Task(DOMAIN x.rows) /\ x.rows = left.rows /\ x.pc = c /\ x.op = t.op
             /\ x.by = t.by /\ x.emoji = t.emoji /\ x.picked = t.picked
  <2> HIDE DEF left
  <2> QED BY <1>1 DEF Task
<1> HIDE DEF left
<1>3. CASE (DOMAIN t.rows) \ {m} # {}
  <2>1. new = left
    BY <1>3 DEF Then, left
  <2> QED BY <1>1, <1>3, <2>1 DEF Resumed
<1>4. CASE (DOMAIN t.rows) \ {m} = {} /\ t.op = "seen"
  <2>1. new = [left EXCEPT !.pc = "reset"]
    BY <1>4 DEF Then, left
  <2> QED BY <1>1, <1>2, <1>4, <2>1 DEF Resumed
<1>5. CASE (DOMAIN t.rows) \ {m} = {} /\ t.op = "delete" /\ old.files # {}
  <2>1. new = [left EXCEPT !.pc = "purge"]
    BY <1>5 DEF Then, left
  <2> QED BY <1>1, <1>2, <1>5, <2>1 DEF Resumed
<1>6. CASE (DOMAIN t.rows) \ {m} = {} /\ t.op # "seen" /\ ~ (t.op = "delete" /\ old.files # {})
  <2>1. new = Idle
    BY <1>6 DEF Then
  <2> QED BY <1>6, <2>1, IdleFields DEF Resumed
<1> QED BY <1>3, <1>4, <1>5, <1>6

LEMMA StartedFields ==
    ASSUME TypeOK, NEW op, NEW u, NEW e, NEW ids, Asks(op, u, e, ids),
           NEW new, new = Started(op, u, e, ids)
    PROVE  /\ new \in Task(DOMAIN new.rows)
           /\ \/ new = Idle
              \/ /\ new.op = op /\ new.by = u /\ new.emoji = e /\ new.picked = ids
                 /\ DOMAIN new.rows = ids /\ \A m \in ids : new.rows[m] = messages[m]
                 /\ new.pc \in {"save", "reset"}
                 /\ (new.pc = "save") <=> (ids # {})
                 /\ new.pc = "reset" => op = "seen"
<1>1. /\ op \in Ops \ {"none"} /\ u \in Members /\ e \in Emoji \cup {None}
      /\ ids \subseteq DOMAIN messages
  BY DEF Asks
<1>2. [m \in ids |-> messages[m]] \in [ids -> Doc]
  BY <1>1, ThreadTypes
<1>3. CASE ids # {} \/ op = "seen"
  <2>1. new = [pc |-> IF ids # {} THEN "save" ELSE "reset", op |-> op, by |-> u, emoji |-> e,
               rows |-> [m \in ids |-> messages[m]], picked |-> ids]
    BY <1>3 DEF Started
  <2> QED BY <1>1, <1>2, <1>3, <2>1 DEF Task
<1>4. CASE ids = {} /\ op # "seen"
  <2>1. e = None
    BY <1>1, <1>4 DEF Asks, Ops
  <2>2. [m \in {} |-> messages[m]] = <<>>
    OBVIOUS
  <2>3. new = Idle
    BY <1>4, <2>1, <2>2 DEF Started, Idle
  <2> QED BY <2>3, IdleFields
<1> QED BY <1>3, <1>4

-----------------------------------------------------------------------------
(* Forward: stored documents are only ever followed by later ones. *)

LEMMA FollowsSelf ==
    ASSUME NEW d \in Doc
    PROVE  Follows(d, d)
<1>1. /\ d.receipts \in Seq(Receipt) /\ d.v \in Nat
  BY DocFields
<1>2. ASSUME NEW i \in DOMAIN d.receipts PROVE rank(d.receipts[i].status) \in Nat
  <2>1. d.receipts[i] \in Receipt
    BY ReceiptsIn
  <2> QED BY <2>1, Ranks DEF Receipt
<1> QED BY <1>1, <1>2 DEF Follows, Rises

LEMMA FollowsTrans ==
    ASSUME NEW a \in Doc, NEW b \in Doc, NEW c \in Doc, Follows(a, b), Follows(b, c)
    PROVE  Follows(a, c)
<1>1. a.v \in Nat /\ b.v \in Nat /\ c.v \in Nat
  BY DocFields
<1>2. \A d \in Doc : \A i \in DOMAIN d.receipts : rank(d.receipts[i].status) \in Nat
  <2> SUFFICES ASSUME NEW d \in Doc, NEW i \in DOMAIN d.receipts
               PROVE  rank(d.receipts[i].status) \in Nat
    OBVIOUS
  <2>1. d.receipts[i] \in Receipt
    BY ReceiptsIn
  <2> QED BY <2>1, Ranks DEF Receipt
<1>3. Rises(a.receipts, c.receipts)
  <2> SUFFICES ASSUME NEW i \in DOMAIN a.receipts
               PROVE  /\ i \in DOMAIN c.receipts /\ c.receipts[i].user = a.receipts[i].user
                      /\ rank(c.receipts[i].status) >= rank(a.receipts[i].status)
    BY DEF Rises
  <2>1. /\ i \in DOMAIN b.receipts /\ b.receipts[i].user = a.receipts[i].user
        /\ rank(b.receipts[i].status) >= rank(a.receipts[i].status)
    BY DEF Follows, Rises
  <2>2. /\ i \in DOMAIN c.receipts /\ c.receipts[i].user = b.receipts[i].user
        /\ rank(c.receipts[i].status) >= rank(b.receipts[i].status)
    BY <2>1 DEF Follows, Rises
  <2>3. /\ rank(a.receipts[i].status) \in Nat /\ rank(b.receipts[i].status) \in Nat
        /\ rank(c.receipts[i].status) \in Nat
    BY <1>2, <2>1, <2>2
  <2> QED BY <2>1, <2>2, <2>3
<1>4. c.v >= a.v /\ (c.v = a.v => c.receipts = a.receipts /\ c.reactions = a.reactions)
  BY <1>1 DEF Follows
<1>5. /\ c.sender = a.sender /\ c.files = a.files
      /\ a.deletedAt => c.deletedAt
  BY DEF Follows
<1> QED BY <1>3, <1>4, <1>5 DEF Follows

(* What a step does to the thread as a whole. *)
Forward ==
    /\ DOMAIN messages \subseteq DOMAIN messages'
    /\ \A m \in DOMAIN messages : messages'[m] \in Doc /\ Follows(messages[m], messages'[m])

LEMMA StaysForward ==
    ASSUME TypeOK, messages' = messages
    PROVE  Forward
BY ThreadTypes, FollowsSelf DEF Forward

LEMMA StoresThread ==
    ASSUME TypeOK, NEW r \in Requests, NEW m \in DOMAIN task[r].rows, NEW next, Stores(r, m, next)
    PROVE  /\ m \in DOMAIN messages /\ m \in task[r].picked
           /\ messages'[m] = next /\ next \in Doc
           /\ \A n \in DOMAIN messages : n # m => messages'[n] = messages[n]
           /\ DOMAIN messages' = DOMAIN messages
           /\ messages' \in Seq(Doc) /\ Len(messages') = Len(messages)
<1>1. m \in DOMAIN messages /\ m \in task[r].picked
  BY TaskFields
<1>2. next \in Doc /\ messages' = [messages EXCEPT ![m] = next]
  BY DEF Stores
<1>3. messages \in Seq(Doc)
  BY ThreadTypes
<1>4. messages' \in Seq(Doc) /\ Len(messages') = Len(messages)
  BY <1>1, <1>2, <1>3, ExceptSeq
<1> QED BY <1>1, <1>2, <1>4

LEMMA StoresForward ==
    ASSUME TypeOK, NEW r \in Requests, NEW m \in DOMAIN task[r].rows, NEW next, Stores(r, m, next)
    PROVE  Forward
<1> SUFFICES ASSUME NEW n \in DOMAIN messages
             PROVE  messages'[n] \in Doc /\ Follows(messages[n], messages'[n])
  BY StoresThread DEF Forward
<1>1. CASE n = m
  BY <1>1, StoresThread DEF Stores
<1>2. CASE n # m
  BY <1>2, StoresThread, ThreadTypes, FollowsSelf
<1> QED BY <1>1, <1>2

LEMMA CreatesForward ==
    ASSUME TypeOK, NEW u \in Members \cup {None}, NEW declared, NEW mimes \in SUBSET Mimes,
           Create(u, declared, mimes)
    PROVE  Forward
<1>1. /\ DOMAIN messages \subseteq DOMAIN messages'
      /\ \A n \in DOMAIN messages : messages'[n] = messages[n]
  BY CreateStep
<1> QED BY <1>1, ThreadTypes, FollowsSelf DEF Forward

(* The task a step leaves behind: what it was, or a smaller one, or a new    *)
(* one that has just loaded its rows.                                        *)
Shrinks(r, m) ==
    LET old == task[r]
        new == task'[r]
    IN  /\ new.op = old.op /\ new.by = old.by /\ new.emoji = old.emoji /\ new.picked = old.picked
        /\ old.pc = "save" /\ m \in DOMAIN old.rows
        /\ DOMAIN new.rows = (DOMAIN old.rows) \ {m}
        /\ \A n \in DOMAIN new.rows : new.rows[n] = old.rows[n]
        /\ new.pc \in {"save", "reset", "purge"}
        /\ (new.pc = "save") <=> (DOMAIN new.rows # {})
        /\ new.pc = "reset" => new.op = "seen"
        /\ new.pc = "purge" => new.op = "delete"

Loads(r) ==
    LET new == task'[r]
    IN  /\ Asks(new.op, new.by, new.emoji, new.picked)
        /\ DOMAIN new.rows = new.picked /\ \A m \in new.picked : new.rows[m] = messages[m]
        /\ new.pc \in {"save", "reset"}
        /\ (new.pc = "save") <=> (new.picked # {})
        /\ new.pc = "reset" => new.op = "seen"

Turn(r) ==
    /\ task' = [task EXCEPT ![r] = task'[r]]
    /\ DOMAIN task' = DOMAIN task
    /\ \A q \in Requests : q # r => task'[q] = task[q]
    /\ task'[r] \in Task(DOMAIN task'[r].rows)
    /\ task'[r] = Idle \/ (\E m : Shrinks(r, m)) \/ Loads(r)

LEMMA TurnFor ==
    ASSUME TypeOK, NEW r \in Requests, NEW new, task' = [task EXCEPT ![r] = new],
           new \in Task(DOMAIN new.rows)
    PROVE  /\ task'[r] = new /\ task' = [task EXCEPT ![r] = task'[r]]
           /\ DOMAIN task' = DOMAIN task /\ \A q \in Requests : q # r => task'[q] = task[q]
           /\ task'[r] \in Task(DOMAIN task'[r].rows)
BY DEF TypeOK

LEMMA StoresTurn ==
    ASSUME TypeOK, Placed, NEW r \in Requests, NEW m \in DOMAIN task[r].rows, NEW next,
           Stores(r, m, next)
    PROVE  /\ Turn(r)
           /\ \/ /\ task'[r] = Idle /\ task[r].op # "seen"
                 /\ task[r].op = "delete" => messages[m].files = {}
              \/ Shrinks(r, m)
           /\ task[r].pc = "save"
<1> DEFINE t == task[r]
           new == Then(t, m, t.rows[m])
<1>1. task' = [task EXCEPT ![r] = new] /\ Follows(t.rows[m], messages[m])
  BY DEF Stores
<1>2. t.pc = "save"
  <2>1. t.pc # "idle"
    BY TaskFields, IdleFields
  <2> QED BY <2>1 DEF Placed
<1>3. t \in Task(DOMAIN t.rows)
  BY TaskFields
<1> HIDE DEF new
<1>4. new \in Task(DOMAIN new.rows) /\ Resumed(t, m, t.rows[m], new)
  <2>1. new = Then(t, m, t.rows[m]) /\ m \in DOMAIN t.rows
    BY DEF new
  <2> HIDE DEF t
  <2> QED BY <1>2, <1>3, <2>1, ThenFields
<1>5. /\ task'[r] = new /\ task' = [task EXCEPT ![r] = task'[r]]
      /\ DOMAIN task' = DOMAIN task /\ \A q \in Requests : q # r => task'[q] = task[q]
      /\ task'[r] \in Task(DOMAIN task'[r].rows)
  BY <1>1, <1>4, TurnFor
<1>6. \/ task'[r] = Idle /\ t.op # "seen" /\ (t.op = "delete" => t.rows[m].files = {})
      \/ Shrinks(r, m)
  BY <1>2, <1>4, <1>5 DEF Shrinks, Resumed
<1>7. t.rows[m].files = messages[m].files
  BY <1>1 DEF Follows
<1> QED BY <1>2, <1>5, <1>6, <1>7 DEF Turn

LEMMA StartsTurn ==
    ASSUME TypeOK, NEW r \in Requests, Starts(r)
    PROVE  Turn(r) /\ (task'[r] = Idle \/ Loads(r))
<1>1. PICK op, u, e, ids :
         /\ Asks(op, u, e, ids)
         /\ task[r].pc = "idle"
         /\ begun < MaxBegun /\ begun' = begun + 1
         /\ task' = [task EXCEPT ![r] = Started(op, u, e, ids)]
         /\ UNCHANGED <<messages, assets, raced>>
  BY DEF Starts
<1> DEFINE new == Started(op, u, e, ids)
<1> HIDE DEF new
<1>2. /\ new \in Task(DOMAIN new.rows)
      /\ \/ new = Idle
         \/ /\ new.op = op /\ new.by = u /\ new.emoji = e /\ new.picked = ids
            /\ DOMAIN new.rows = ids /\ \A m \in ids : new.rows[m] = messages[m]
            /\ new.pc \in {"save", "reset"}
            /\ (new.pc = "save") <=> (ids # {})
            /\ new.pc = "reset" => op = "seen"
  BY <1>1, StartedFields DEF new
<1>3. /\ task'[r] = new /\ task' = [task EXCEPT ![r] = task'[r]]
      /\ DOMAIN task' = DOMAIN task /\ \A q \in Requests : q # r => task'[q] = task[q]
      /\ task'[r] \in Task(DOMAIN task'[r].rows)
  BY <1>1, <1>2, TurnFor DEF new
<1>4. task'[r] = Idle \/ Loads(r)
  BY <1>1, <1>2, <1>3 DEF Loads
<1> QED BY <1>3, <1>4 DEF Turn

LEMMA EndsTurn ==
    ASSUME TypeOK, NEW r \in Requests, task' = [task EXCEPT ![r] = Idle]
    PROVE  Turn(r) /\ task'[r] = Idle
<1>1. Idle \in Task(DOMAIN Idle.rows)
  BY IdleFields
<1> QED BY <1>1, TurnFor DEF Turn

-----------------------------------------------------------------------------
(* Types and places *)

LEMMA TasksTyped ==
    ASSUME TypeOK, DOMAIN messages \subseteq DOMAIN messages',
           task' = task \/ \E r \in Requests : Turn(r)
    PROVE  /\ DOMAIN task' = Requests
           /\ \A q \in Requests :
                 /\ (task[q] \in Task(DOMAIN task[q].rows))'
                 /\ DOMAIN task'[q].rows \subseteq task'[q].picked
                 /\ task'[q].pc = "idle" => task'[q] = Idle
<1>1. DOMAIN task = Requests
  BY DEF TypeOK
<1>2. DOMAIN task' = Requests
  BY <1>1 DEF Turn
<1>3. ASSUME NEW q \in Requests
      PROVE  /\ task'[q] \in Task(DOMAIN task'[q].rows)
             /\ DOMAIN task'[q].rows \subseteq task'[q].picked
             /\ task'[q].pc = "idle" => task'[q] = Idle
  <2>1. CASE task'[q] = task[q]
    BY <2>1 DEF TypeOK
  <2>2. CASE task'[q] # task[q]
    <3>1. Turn(q)
      BY <2>2 DEF Turn
    <3>2. task'[q] \in Task(DOMAIN task'[q].rows)
      BY <3>1 DEF Turn
    <3>3. CASE task'[q] = Idle
      BY <3>2, <3>3, IdleFields
    <3>4. ASSUME NEW m, Shrinks(q, m)
          PROVE  DOMAIN task'[q].rows \subseteq task'[q].picked /\ task'[q].pc # "idle"
      <4>1. DOMAIN task[q].rows \subseteq task[q].picked
        BY DEF TypeOK
      <4> QED BY <3>4, <4>1 DEF Shrinks
    <3>5. ASSUME Loads(q)
          PROVE  DOMAIN task'[q].rows \subseteq task'[q].picked /\ task'[q].pc # "idle"
      BY <3>5 DEF Loads
    <3> QED BY <3>1, <3>2, <3>3, <3>4, <3>5 DEF Turn
  <2> QED BY <2>1, <2>2
<1>4. ASSUME NEW q \in Requests PROVE (task[q] \in Task(DOMAIN task[q].rows))'
  BY <1>3 DEF Task
<1> QED BY <1>2, <1>3, <1>4

LEMMA Stored ==
    /\ \A kind : cloudinaryResource(kind) \in Resources
    /\ \A declared \in Declared, f \in Mimes :
          /\ UploadedTo(declared, f) \in Resources
          /\ Accepted(declared, f) /\ f # "audio"
                => UploadedTo(declared, f) = cloudinaryResource(attachmentKind(f))
<1>1. \A kind : cloudinaryResource(kind) \in Resources
  BY DEF cloudinaryResource, Resources
<1>2. ASSUME NEW declared \in Declared, NEW f \in Mimes, Accepted(declared, f), f # "audio"
      PROVE  UploadedTo(declared, f) = cloudinaryResource(attachmentKind(f))
  BY <1>2 DEF UploadedTo, cloudinaryResource, attachmentKind, Accepted, uploadSlot, Declared, Mimes
<1>3. \A declared, f : UploadedTo(declared, f) \in Resources
  BY <1>1 DEF UploadedTo
<1> QED BY <1>1, <1>2, <1>3

(* Every step is one of these. *)
Quiet(r) == Starts(r) \/ Refused(r) \/ resetUnread(r) \/ Purge(r)

LEMMA Steps ==
    ASSUME TypeOK, Placed, CopiesHold, Next
    PROVE  /\ Forward
           /\ \/ /\ task' = task
                 /\ \E u \in Members \cup {None}, declared \in Declared, mimes \in SUBSET Mimes :
                       Creates(u, declared, mimes)
              \/ \E r \in Requests :
                    /\ Turn(r)
                    /\ \/ /\ Quiet(r) /\ messages' = messages /\ raced' = raced
                          /\ task'[r] = Idle \/ Loads(r)
                       \/ \E m \in DOMAIN task[r].rows : \E next : Stores(r, m, next)
<1>1. ASSUME NEW u \in Members \cup {None}, NEW declared \in Declared, NEW mimes \in SUBSET Mimes,
             Creates(u, declared, mimes)
      PROVE  Forward /\ task' = task
  BY <1>1, CreatesForward, CreateStep DEF Creates
<1>2. ASSUME NEW r \in Requests, Quiet(r)
      PROVE  /\ Forward /\ Turn(r) /\ messages' = messages /\ raced' = raced
             /\ task'[r] = Idle \/ Loads(r)
  <2>1. messages' = messages /\ raced' = raced
    BY <1>2 DEF Quiet, Starts, Refused, resetUnread, Purge
  <2>2. Starts(r) => Turn(r) /\ (task'[r] = Idle \/ Loads(r))
    BY StartsTurn
  <2>3. Refused(r) \/ resetUnread(r) \/ Purge(r) => Turn(r) /\ task'[r] = Idle
    BY EndsTurn DEF Refused, resetUnread, Purge
  <2> QED BY <1>2, <2>1, <2>2, <2>3, StaysForward DEF Quiet
<1>3. ASSUME NEW r \in Requests, NEW m \in DOMAIN task[r].rows, NEW next, Stores(r, m, next)
      PROVE  Forward /\ Turn(r)
  BY <1>3, StoresForward, StoresTurn
<1> QED BY <1>1, <1>2, <1>3, StepCases DEF Quiet

LEMMA TypeStep ==
    ASSUME TypeOK, Placed, CopiesHold, Next
    PROVE  TypeOK'
<1>1. /\ DOMAIN task' = Requests
      /\ \A q \in Requests :
            /\ (task[q] \in Task(DOMAIN task[q].rows))'
            /\ DOMAIN task'[q].rows \subseteq task'[q].picked
            /\ task'[q].pc = "idle" => task'[q] = Idle
  BY Steps, TasksTyped DEF Forward
<1>2. /\ messages \in Seq(Doc) /\ Len(messages) <= MaxMessages
      /\ assets \subseteq (1..MaxMessages) \X Mimes \X Resources
      /\ begun \in 0..MaxBegun /\ raced \subseteq DOMAIN messages
  BY DEF TypeOK
<1>3. ASSUME NEW u \in Members \cup {None}, NEW declared \in Declared, NEW mimes \in SUBSET Mimes,
             Creates(u, declared, mimes)
      PROVE  /\ messages' \in Seq(Doc) /\ Len(messages') <= MaxMessages
             /\ assets' \subseteq (1..MaxMessages) \X Mimes \X Resources
             /\ begun' \in 0..MaxBegun /\ raced' \subseteq DOMAIN messages'
  <2> DEFINE m == Len(messages) + 1
  <2>1. /\ m \in 1..MaxMessages /\ DOMAIN messages' = (DOMAIN messages) \cup {m}
        /\ messages' \in Seq(Doc) /\ Len(messages') = m
        /\ assets' = assets \cup Uploaded(m, declared, mimes)
        /\ UNCHANGED <<task, begun, raced>>
    <3>1. Create(u, declared, mimes)
      BY <1>3 DEF Creates
    <3> QED BY <3>1, CreateStep
  <2>2. \A f \in mimes : <<m, f, UploadedTo(declared, f)>> \in (1..MaxMessages) \X Mimes \X Resources
    BY <2>1, Stored
  <2>3. m <= MaxMessages
    BY <2>1
  <2>4. Uploaded(m, declared, mimes) \subseteq (1..MaxMessages) \X Mimes \X Resources
    BY <2>2 DEF Uploaded
  <2> QED BY <1>2, <2>1, <2>3, <2>4
<1>4. ASSUME NEW r \in Requests, Quiet(r), messages' = messages, raced' = raced
      PROVE  /\ messages' \in Seq(Doc) /\ Len(messages') <= MaxMessages
             /\ assets' \subseteq (1..MaxMessages) \X Mimes \X Resources
             /\ begun' \in 0..MaxBegun /\ raced' \subseteq DOMAIN messages'
  <2>1. assets' \subseteq assets
    BY <1>4 DEF Quiet, Starts, Refused, resetUnread, Purge
  <2>2. Starts(r) => begun < MaxBegun /\ begun' = begun + 1
    BY Zenon DEF Starts
  <2>3. Refused(r) \/ resetUnread(r) \/ Purge(r) => begun' = begun
    BY DEF Refused, resetUnread, Purge
  <2>4. begun' \in 0..MaxBegun
    BY <1>2, <1>4, <2>2, <2>3, MessagesAssumption DEF Quiet
  <2> QED BY <1>2, <1>4, <2>1, <2>4
<1>5. ASSUME NEW r \in Requests, NEW m \in DOMAIN task[r].rows, NEW next, Stores(r, m, next)
      PROVE  /\ messages' \in Seq(Doc) /\ Len(messages') <= MaxMessages
             /\ assets' \subseteq (1..MaxMessages) \X Mimes \X Resources
             /\ begun' \in 0..MaxBegun /\ raced' \subseteq DOMAIN messages'
  <2>1. /\ m \in DOMAIN messages /\ messages' \in Seq(Doc) /\ Len(messages') = Len(messages)
        /\ DOMAIN messages' = DOMAIN messages
    BY <1>5, StoresThread
  <2>2. assets' = assets /\ begun' = begun /\ raced' \subseteq raced \cup {m}
    BY <1>5 DEF Stores
  <2> QED BY <1>2, <2>1, <2>2
<1>6. /\ messages' \in Seq(Doc) /\ Len(messages') <= MaxMessages
      /\ assets' \subseteq (1..MaxMessages) \X Mimes \X Resources
      /\ begun' \in 0..MaxBegun /\ raced' \subseteq DOMAIN messages'
  BY <1>3, <1>4, <1>5, Steps
<1> QED BY <1>1, <1>6 DEF TypeOK

LEMMA PlacedStep ==
    ASSUME TypeOK, Placed, CopiesHold, Next
    PROVE  Placed'
<1>1. /\ Forward
      /\ task' = task \/ \E r \in Requests : Turn(r)
  BY Steps
<1>2. /\ DOMAIN messages \subseteq DOMAIN messages'
      /\ \A m \in DOMAIN messages : messages'[m].sender = messages[m].sender
  BY <1>1 DEF Forward, Follows
<1> DEFINE Fits(t, row) ==
             /\ t.by \in Members
             /\ (t.pc = "save") <=> (DOMAIN t.rows # {})
             /\ t.op = "react" => t.emoji \in Emoji
             /\ t.op = "delete" => \E m \in DOMAIN row : t.picked = {m}
             /\ t.op = "seen" /\ t.picked # {} => t.by \notin Private
             /\ t.op \in {"delivered", "seen"} => \A m \in t.picked : row[m].sender # t.by
             /\ t.pc = "reset" => t.op = "seen"
             /\ t.pc = "purge" => t.op = "delete"
             /\ t.op # "none"
<1>3. ASSUME NEW q \in Requests, task'[q].pc # "idle"
      PROVE  Fits(task'[q], messages')
  <2>1. ASSUME NEW t, t.picked \subseteq DOMAIN messages, Fits(t, messages) PROVE Fits(t, messages')
    BY <1>2, <2>1
  <2>2. task[q].pc # "idle" => Fits(task[q], messages)
    BY DEF Placed
  <2>3. task[q].picked \subseteq DOMAIN messages
    BY TaskFields
  <2>4. CASE task'[q] = task[q]
    BY <1>3, <2>1, <2>2, <2>3, <2>4
  <2>5. CASE task'[q] # task[q]
    <3>1. Turn(q)
      BY <1>1, <2>5 DEF Turn
    <3>2. task'[q] # Idle
      BY <1>3, IdleFields
    <3>3. ASSUME NEW m, Shrinks(q, m) PROVE Fits(task'[q], messages) /\ task'[q].picked \subseteq DOMAIN messages
      <4>1. task[q].pc # "idle"
        BY <3>3 DEF Shrinks
      <4> QED BY <2>2, <2>3, <3>3, <4>1 DEF Shrinks
    <3>4. ASSUME Loads(q) PROVE Fits(task'[q], messages) /\ task'[q].picked \subseteq DOMAIN messages
      BY <3>4 DEF Loads, Asks
    <3> HIDE DEF Fits
    <3> QED BY <2>1, <3>1, <3>2, <3>3, <3>4 DEF Turn
  <2> QED BY <2>4, <2>5
<1> QED BY <1>3 DEF Placed

LEMMA CopiesStep ==
    ASSUME TypeOK, Placed, CopiesHold, Next
    PROVE  CopiesHold'
<1>1. /\ Forward
      /\ task' = task \/ \E r \in Requests : Turn(r)
  BY Steps
<1>2. ASSUME NEW q \in Requests, NEW m \in DOMAIN task'[q].rows
      PROVE  Follows(task'[q].rows[m], messages'[m])
  <2>1. ASSUME m \in DOMAIN task[q].rows, task'[q].rows[m] = task[q].rows[m]
        PROVE  Follows(task'[q].rows[m], messages'[m])
    <3>1. /\ task[q].rows[m] \in Doc /\ m \in DOMAIN messages /\ messages[m] \in Doc
          /\ Follows(task[q].rows[m], messages[m])
      BY <2>1, TaskFields, ThreadTypes DEF CopiesHold
    <3>2. messages'[m] \in Doc /\ Follows(messages[m], messages'[m])
      BY <1>1, <3>1 DEF Forward
    <3> QED BY <2>1, <3>1, <3>2, FollowsTrans
  <2>2. CASE task'[q] = task[q]
    BY <1>2, <2>1, <2>2
  <2>3. CASE task'[q] # task[q]
    <3>1. Turn(q)
      BY <1>1, <2>3 DEF Turn
    <3>2. task'[q] # Idle
      BY <1>2, IdleFields
    <3>3. ASSUME NEW n, Shrinks(q, n) PROVE Follows(task'[q].rows[m], messages'[m])
      BY <1>2, <2>1, <3>3 DEF Shrinks
    <3>4. ASSUME Loads(q) PROVE Follows(task'[q].rows[m], messages'[m])
      <4>1. m \in DOMAIN messages /\ task'[q].rows[m] = messages[m]
        BY <1>2, <3>4 DEF Loads, Asks
      <4> QED BY <1>1, <4>1 DEF Forward
    <3> QED BY <3>1, <3>2, <3>3, <3>4 DEF Turn
  <2> QED BY <2>2, <2>3
<1> QED BY <1>2 DEF CopiesHold

-----------------------------------------------------------------------------
(* Marks *)

Seen(doc, u) == \E i \in DOMAIN doc.receipts : doc.receipts[i].user = u /\ doc.receipts[i].status = "seen"

LEMMA SeenIs ==
    ASSUME NEW m, NEW u \in Members, u # messages[m].sender
    PROVE  u \in seenBy(m) <=> Seen(messages[m], u)
BY DEF seenBy, Seen, ReceiptsOf

LEMMA SeenStays ==
    ASSUME NEW a \in Doc, NEW b \in Doc, Follows(a, b), NEW u, Seen(a, u)
    PROVE  Seen(b, u)
<1>1. PICK i \in DOMAIN a.receipts : a.receipts[i].user = u /\ a.receipts[i].status = "seen"
  BY DEF Seen
<1>2. /\ i \in DOMAIN b.receipts /\ b.receipts[i].user = u
      /\ rank(b.receipts[i].status) >= rank(a.receipts[i].status)
  BY <1>1 DEF Follows, Rises
<1>3. b.receipts[i].status \in Levels
  BY <1>2, ReceiptsIn DEF Receipt
<1>4. rank(b.receipts[i].status) = 2
  BY <1>1, <1>2, <1>3, Ranks
<1> QED BY <1>2, <1>3, <1>4, Ranks DEF Seen

LEMMA SavedIsSeen ==
    ASSUME TypeOK, NEW r \in Requests, NEW m \in DOMAIN task[r].rows, NEW next,
           Stores(r, m, next), task[r].op = "seen"
    PROVE  Seen(next, task[r].by)
<1> DEFINE t == task[r]
           old == t.rows[m]
           now == messages[m]
           x == [user |-> t.by, status |-> "seen"]
<1>1. now \in Doc
  BY TaskFields, ThreadTypes
<1>2. /\ old \in Doc /\ Follows(old, now) /\ next \in Doc /\ Follows(now, next)
      /\ Receives(t, old, Changed(t, old), now, next)
  BY DEF Stores, Effect, Reacts, Pins, Hides, Deletes
<1>3. CASE next.receipts = Append(now.receipts, x)
  <2>1. now.receipts \in Seq(Receipt) /\ next.receipts \in Seq(Receipt)
    BY <1>1, <1>2, DocFields
  <2>2. /\ Len(next.receipts) = Len(now.receipts) + 1 /\ Len(now.receipts) \in Nat
        /\ next.receipts[Len(now.receipts) + 1] = x
    BY <1>3, <2>1, AppendProperties, LenProperties
  <2>3. Len(now.receipts) + 1 \in DOMAIN next.receipts
    BY <2>1, <2>2, LenProperties
  <2> QED BY <2>2, <2>3 DEF Seen
<1>4. CASE /\ ReceiptsOf(old, t.by) # {}
           /\ rank(old.receipts[First(ReceiptsOf(old, t.by))].status) >= rank("seen")
  <2> DEFINE k == First(ReceiptsOf(old, t.by))
  <2>1. k \in DOMAIN old.receipts /\ old.receipts[k].user = t.by /\ old.receipts[k] \in Receipt
    BY <1>2, <1>4, ReceiptsIn
  <2>2. old.receipts[k].status = "seen"
    BY <1>4, <2>1, Ranks DEF Receipt
  <2>3. Seen(old, t.by)
    BY <2>1, <2>2 DEF Seen
  <2> QED BY <1>1, <1>2, <2>3, SeenStays
<1>5. CASE /\ ReceiptsOf(now, t.by) # {}
           /\ next.receipts = [now.receipts EXCEPT ![First(ReceiptsOf(now, t.by))] = x]
  <2> DEFINE k == First(ReceiptsOf(now, t.by))
  <2>1. k \in DOMAIN now.receipts
    BY <1>1, <1>5, ReceiptsIn
  <2>2. k \in DOMAIN next.receipts /\ next.receipts[k] = x
    BY <1>5, <2>1
  <2> QED BY <2>2 DEF Seen
<1> QED BY <1>2, <1>3, <1>4, <1>5 DEF Receives

LEMMA MarksStep ==
    ASSUME TypeOK, Placed, CopiesHold, MarksHold, Next
    PROVE  MarksHold'
<1> SUFFICES ASSUME NEW q \in Requests, task'[q].op = "seen",
                    NEW m \in task'[q].picked \ DOMAIN task'[q].rows
             PROVE  task'[q].by \in seenBy(m)'
  BY DEF MarksHold
<1>1. Forward
  BY Steps
<1>2. /\ DOMAIN messages \subseteq DOMAIN messages'
      /\ \A n \in DOMAIN messages : messages'[n].sender = messages[n].sender
  BY <1>1 DEF Forward, Follows
<1>3. ASSUME NEW u \in Members, NEW n \in DOMAIN messages, u \in seenBy(n)
      PROVE  u \in seenBy(n)'
  <2>1. u # messages[n].sender /\ Seen(messages[n], u)
    BY <1>3 DEF seenBy, Seen, ReceiptsOf
  <2>2. messages[n] \in Doc /\ messages'[n] \in Doc /\ Follows(messages[n], messages'[n])
    BY <1>1, ThreadTypes DEF Forward
  <2>3. Seen(messages'[n], u)
    BY <2>1, <2>2, SeenStays
  <2> QED BY <1>2, <2>1, <2>3 DEF seenBy, Seen, ReceiptsOf
<1>4. CASE task'[q] = task[q]
  <2>1. m \in DOMAIN messages /\ task[q].by \in seenBy(m)
    BY <1>4, TaskFields DEF MarksHold
  <2>2. task[q].by \in Members
    BY <2>1 DEF seenBy
  <2> QED BY <1>3, <1>4, <2>1, <2>2
<1>5. CASE task'[q] # task[q]
  <2>1. task'[q] # Idle /\ ~Loads(q)
    BY IdleFields DEF Loads
  <2>2. PICK n \in DOMAIN task[q].rows : \E doc : Stores(q, n, doc)
    BY <1>5, <2>1, Steps DEF Turn
  <2>3. PICK next : Stores(q, n, next)
    BY <2>2
  <2>4. Shrinks(q, n) /\ task[q].pc = "save"
    BY <2>1, <2>3, StoresTurn
  <2>5. /\ task[q].op = "seen" /\ task'[q].by = task[q].by /\ task'[q].picked = task[q].picked
        /\ task[q].by \in Members /\ messages[m].sender # task[q].by /\ m \in DOMAIN messages
    BY <2>4, TaskFields DEF Shrinks, Placed
  <2>6. CASE m = n
    <3>1. messages'[m] = next
      BY <2>3, <2>6, StoresThread
    <3>2. Seen(messages'[m], task[q].by)
      BY <2>3, <2>5, <3>1, SavedIsSeen
    <3> QED BY <1>2, <2>5, <3>2 DEF seenBy, Seen, ReceiptsOf
  <2>7. CASE m # n
    <3>1. m \in task[q].picked \ DOMAIN task[q].rows
      BY <2>4, <2>5, <2>7 DEF Shrinks
    <3> QED BY <1>3, <2>5, <3>1 DEF MarksHold
  <2> QED BY <2>6, <2>7
<1> QED BY <1>4, <1>5

-----------------------------------------------------------------------------
(* Duplicates *)

Single(doc) ==
    /\ \A i, j \in DOMAIN doc.receipts : doc.receipts[i].user = doc.receipts[j].user => i = j
    /\ \A i, j \in DOMAIN doc.reactions : doc.reactions[i].emoji = doc.reactions[j].emoji => i = j

LEMMA SingleReceipts ==
    ASSUME NEW t, NEW old, NEW new, NEW now \in Doc, NEW next, Receives(t, old, new, now, next),
           Grown(old.receipts, new.receipts) => now.receipts = old.receipts,
           Single(now)
    PROVE  Single(next)
<1> DEFINE mine == ReceiptsOf(now, t.by)
           k == First(mine)
           x == [user |-> t.by, status |-> t.op]
<1>1. next.reactions = now.reactions /\ now.receipts \in Seq(Receipt)
  BY DocFields DEF Receives
<1>2. DOMAIN now.receipts = 1..Len(now.receipts) /\ Len(now.receipts) \in Nat
  BY <1>1, LenProperties
<1>3. CASE next.receipts = now.receipts
  BY <1>1, <1>3 DEF Single
<1>4. CASE ReceiptsOf(now, t.by) = {} /\ next.receipts = Append(now.receipts, x)
  <2>1. \A i \in DOMAIN now.receipts : now.receipts[i].user # t.by
    BY <1>4 DEF ReceiptsOf
  <2>2. /\ DOMAIN next.receipts = 1..(Len(now.receipts) + 1)
        /\ \A i \in 1..Len(now.receipts) : next.receipts[i] = now.receipts[i]
        /\ next.receipts[Len(now.receipts) + 1] = x
    BY <1>1, <1>4
  <2>3. ASSUME NEW i \in DOMAIN next.receipts, NEW j \in DOMAIN next.receipts,
               next.receipts[i].user = next.receipts[j].user
        PROVE  i = j
    <3> DEFINE n == Len(now.receipts) + 1
    <3>1. ASSUME NEW l \in 1..n, l # n
          PROVE  /\ l \in DOMAIN now.receipts /\ next.receipts[l].user = now.receipts[l].user
                 /\ next.receipts[l].user # t.by
      <4>1. l \in 1..Len(now.receipts)
        BY <1>2, <3>1
      <4>2. l \in DOMAIN now.receipts /\ next.receipts[l] = now.receipts[l]
        BY <1>2, <2>2, <4>1
      <4> QED BY <2>1, <4>2
    <3>2. next.receipts[n].user = t.by /\ i \in 1..n /\ j \in 1..n
      BY <2>2
    <3>3. \A l, h \in DOMAIN now.receipts : now.receipts[l].user = now.receipts[h].user => l = h
      BY DEF Single
    <3> HIDE DEF n
    <3> QED BY <2>3, <3>1, <3>2, <3>3
  <2> QED BY <1>1, <2>3 DEF Single
<1>5. CASE mine # {} /\ next.receipts = [now.receipts EXCEPT ![k] = x]
  <2>1. k \in DOMAIN now.receipts /\ now.receipts[k].user = t.by
    BY <1>5, ReceiptsIn
  <2>2. /\ DOMAIN next.receipts = DOMAIN now.receipts
        /\ \A i \in DOMAIN now.receipts : next.receipts[i].user = now.receipts[i].user
    BY <1>5, <2>1
  <2> QED BY <1>1, <2>2 DEF Single
<1>6. ReceiptsOf(old, t.by) = {} /\ Grown(old.receipts, new.receipts) => ReceiptsOf(now, t.by) = {}
  BY DEF ReceiptsOf
<1> QED BY <1>3, <1>4, <1>5, <1>6 DEF Receives

LEMMA SingleReactions ==
    ASSUME NEW t, NEW old, NEW new, NEW now \in Doc, NEW next, Reacts(t, old, new, now, next),
           Grown(old.reactions, new.reactions) => now.reactions = old.reactions,
           Single(now)
    PROVE  Single(next)
<1> DEFINE at == EntriesOf(now, t.emoji)
           k == First(at)
           x == [emoji |-> t.emoji, users |-> {t.by}]
<1>1. next.receipts = now.receipts /\ now.reactions \in Seq(Reaction)
  BY DocFields DEF Reacts
<1>2. DOMAIN now.reactions = 1..Len(now.reactions) /\ Len(now.reactions) \in Nat
  BY <1>1, LenProperties
<1>3. CASE next.reactions = now.reactions
  BY <1>1, <1>3 DEF Single
<1>4. CASE at = {} /\ next.reactions = Append(now.reactions, x)
  <2>1. \A i \in DOMAIN now.reactions : now.reactions[i].emoji # t.emoji
    BY <1>4 DEF EntriesOf
  <2>2. /\ DOMAIN next.reactions = 1..(Len(now.reactions) + 1)
        /\ \A i \in 1..Len(now.reactions) : next.reactions[i] = now.reactions[i]
        /\ next.reactions[Len(now.reactions) + 1] = x
    BY <1>1, <1>4
  <2>3. ASSUME NEW i \in DOMAIN next.reactions, NEW j \in DOMAIN next.reactions,
               next.reactions[i].emoji = next.reactions[j].emoji
        PROVE  i = j
    <3> DEFINE n == Len(now.reactions) + 1
    <3>1. ASSUME NEW l \in 1..n, l # n
          PROVE  /\ l \in DOMAIN now.reactions /\ next.reactions[l].emoji = now.reactions[l].emoji
                 /\ next.reactions[l].emoji # t.emoji
      <4>1. l \in 1..Len(now.reactions)
        BY <1>2, <3>1
      <4>2. l \in DOMAIN now.reactions /\ next.reactions[l] = now.reactions[l]
        BY <1>2, <2>2, <4>1
      <4> QED BY <2>1, <4>2
    <3>2. next.reactions[n].emoji = t.emoji /\ i \in 1..n /\ j \in 1..n
      BY <2>2
    <3>3. \A l, h \in DOMAIN now.reactions : now.reactions[l].emoji = now.reactions[h].emoji => l = h
      BY DEF Single
    <3> HIDE DEF n
    <3> QED BY <2>3, <3>1, <3>2, <3>3
  <2> QED BY <1>1, <2>3 DEF Single
<1>5. at # {} => k \in DOMAIN now.reactions /\ now.reactions[k].emoji = t.emoji
  BY EntriesIn
<1>6. ASSUME NEW S, at # {},
             next.reactions = [now.reactions EXCEPT ![k] = [emoji |-> t.emoji, users |-> S]]
      PROVE  Single(next)
  <2>1. /\ DOMAIN next.reactions = DOMAIN now.reactions
        /\ \A i \in DOMAIN now.reactions : next.reactions[i].emoji = now.reactions[i].emoji
    BY <1>5, <1>6
  <2> QED BY <1>1, <2>1 DEF Single
<1>7. CASE at # {} /\ next.reactions = Without(now.reactions, k)
  <2>1. k \in DOMAIN now.reactions
    BY <1>5, <1>7
  <2>2. DOMAIN next.reactions = 1..(Len(now.reactions) - 1)
    BY <1>1, <1>7, <2>1, WithoutType
  <2>3. \A i \in DOMAIN next.reactions : next.reactions[i] = now.reactions[IF i < k THEN i ELSE i + 1]
    BY <1>7, <2>2 DEF Without
  <2>4. \A i, j \in DOMAIN now.reactions : now.reactions[i].emoji = now.reactions[j].emoji => i = j
    BY DEF Single
  <2>5. ASSUME NEW i \in DOMAIN next.reactions, NEW j \in DOMAIN next.reactions,
               next.reactions[i].emoji = next.reactions[j].emoji
        PROVE  i = j
    <3> DEFINE i2 == IF i < k THEN i ELSE i + 1
               j2 == IF j < k THEN j ELSE j + 1
    <3> HIDE DEF k
    <3> DEFINE L == Len(now.reactions)
    <3>4. /\ L \in Nat /\ k \in 1..L /\ i \in 1..(L - 1) /\ j \in 1..(L - 1)
          /\ DOMAIN now.reactions = 1..L
      BY <1>2, <2>1, <2>2
    <3> HIDE DEF L
    <3>5. i2 \in 1..L /\ j2 \in 1..L
      BY <3>4
    <3>1. i2 \in DOMAIN now.reactions /\ j2 \in DOMAIN now.reactions
      BY <3>4, <3>5
    <3>2. now.reactions[i2].emoji = now.reactions[j2].emoji
      BY <2>3, <2>5
    <3>3. i2 = j2
      BY <2>4, <3>1, <3>2
    <3> QED BY <1>2, <2>1, <2>2, <3>3
  <2> QED BY <1>1, <2>5 DEF Single
<1>8. EntriesOf(old, t.emoji) = {} /\ Grown(old.reactions, new.reactions) => at = {}
  BY DEF EntriesOf
<1> QED BY <1>3, <1>4, <1>6, <1>7, <1>8 DEF Reacts, Turned

LEMMA SinglesStep ==
    ASSUME TypeOK, Placed, CopiesHold, NoDuplicates, Next
    PROVE  NoDuplicates'
<1>1. \A m \in (DOMAIN messages) \ raced : Single(messages[m])
  BY DEF NoDuplicates, Single
<1>2. ASSUME NEW u \in Members \cup {None}, NEW declared \in Declared, NEW mimes \in SUBSET Mimes,
             Creates(u, declared, mimes), NEW n \in (DOMAIN messages') \ raced'
      PROVE  Single(messages'[n])
  <2>1. Create(u, declared, mimes)
    BY <1>2 DEF Creates
  <2>2. CASE n \in DOMAIN messages
    <3>1. messages'[n] = messages[n] /\ raced' = raced
      BY <2>1, <2>2, CreateStep
    <3> QED BY <1>1, <1>2, <2>2, <3>1
  <2>3. CASE n \notin DOMAIN messages
    <3>1. messages'[n] = Fresh(u, mimes)
      BY <1>2, <2>1, <2>3, CreateStep
    <3>2. DOMAIN Fresh(u, mimes).receipts \subseteq {1} /\ DOMAIN Fresh(u, mimes).reactions = {}
      BY FreshDoc
    <3> QED BY <3>1, <3>2 DEF Single
  <2> QED BY <2>2, <2>3
<1>3. ASSUME NEW r \in Requests, NEW m \in DOMAIN task[r].rows, NEW next, Stores(r, m, next),
             NEW n \in (DOMAIN messages') \ raced'
      PROVE  Single(messages'[n])
  <2> DEFINE t == task[r]
             old == t.rows[m]
             new == Changed(t, old)
             now == messages[m]
  <2>1. /\ m \in DOMAIN messages /\ messages'[m] = next
        /\ \A i \in DOMAIN messages : i # m => messages'[i] = messages[i]
        /\ DOMAIN messages' = DOMAIN messages
    BY <1>3, StoresThread
  <2>2. /\ raced \subseteq raced'
        /\ Pushes(old, new) /\ old.v # now.v => m \in raced'
        /\ Follows(old, now) /\ Effect(t, old, new, now, next)
    BY <1>3 DEF Stores
  <2>3. CASE n # m
    BY <1>1, <1>3, <2>1, <2>2, <2>3
  <2>4. CASE n = m
    <3>1. Single(now) /\ now \in Doc
      BY <1>1, <1>3, <2>1, <2>2, <2>4, ThreadTypes
    <3>2. Pushes(old, new) => now.receipts = old.receipts /\ now.reactions = old.reactions
      BY <1>3, <2>2, <2>4 DEF Follows
    <3>3. Receives(t, old, new, now, next) => Single(next)
      BY <3>1, <3>2, SingleReceipts DEF Pushes
    <3>4. Reacts(t, old, new, now, next) => Single(next)
      BY <3>1, <3>2, SingleReactions DEF Pushes
    <3>5. Pins(t, now, next) \/ Hides(t, now, next) \/ Deletes(t, now, next) => Single(next)
      BY <3>1 DEF Pins, Hides, Deletes, Keeps, Single
    <3> QED BY <2>1, <2>2, <2>4, <3>3, <3>4, <3>5 DEF Effect
  <2> QED BY <2>3, <2>4
<1>4. \A n \in (DOMAIN messages') \ raced' : Single(messages'[n])
  BY <1>1, <1>2, <1>3, Steps
<1> QED BY <1>4 DEF NoDuplicates, Single

-----------------------------------------------------------------------------
(* Files *)

LEMMA AssetParts ==
    ASSUME TypeOK, NEW a \in assets
    PROVE  a = <<a[1], a[2], a[3]>> /\ a[2] \in Mimes
BY DEF TypeOK

LEMMA KnownStep ==
    ASSUME TypeOK, Placed, CopiesHold, FilesKnown, Next
    PROVE  FilesKnown'
<1>1. Forward
  BY Steps
<1>2. ASSUME NEW a \in assets
      PROVE  /\ a[1] \in DOMAIN messages' /\ a[2] \in messages'[a[1]].files
             /\ a[2] # "audio" => a[3] = cloudinaryResource(attachmentKind(a[2]))
  BY <1>1 DEF FilesKnown, Forward, Follows
<1>3. ASSUME NEW u \in Members \cup {None}, NEW declared \in Declared, NEW mimes \in SUBSET Mimes,
             Creates(u, declared, mimes), NEW a \in assets' \ assets
      PROVE  /\ a[1] \in DOMAIN messages' /\ a[2] \in messages'[a[1]].files
             /\ a[2] # "audio" => a[3] = cloudinaryResource(attachmentKind(a[2]))
  <2> DEFINE m == Len(messages) + 1
  <2>1. /\ m \in DOMAIN messages' /\ messages'[m] = Fresh(u, mimes)
        /\ assets' = assets \cup Uploaded(m, declared, mimes)
    <3>1. Create(u, declared, mimes)
      BY <1>3 DEF Creates
    <3> QED BY <3>1, CreateStep
  <2>2. PICK f \in mimes : a = <<m, f, UploadedTo(declared, f)>>
    BY <1>3, <2>1 DEF Uploaded
  <2>3. Accepted(declared, f)
    BY <1>3 DEF Creates
  <2>4. messages'[m].files = mimes
    BY <2>1 DEF Fresh
  <2>5. f # "audio" => UploadedTo(declared, f) = cloudinaryResource(attachmentKind(f))
    BY <2>3, Stored
  <2> HIDE DEF m
  <2> QED BY <2>1, <2>2, <2>4, <2>5
<1>4. ASSUME NEW r \in Requests, Quiet(r) PROVE assets' \subseteq assets
  BY <1>4 DEF Quiet, Starts, Refused, resetUnread, Purge
<1>5. ASSUME NEW r \in Requests, NEW m, NEW next, Stores(r, m, next) PROVE assets' = assets
  BY <1>5 DEF Stores
<1>6. ASSUME NEW a \in assets'
      PROVE  /\ a[1] \in DOMAIN messages' /\ a[2] \in messages'[a[1]].files
             /\ a[2] # "audio" => a[3] = cloudinaryResource(attachmentKind(a[2]))
  <2>1. CASE a \in assets
    BY <1>2, <2>1
  <2>2. CASE a \notin assets
    <3>1. \E u \in Members \cup {None}, declared \in Declared, mimes \in SUBSET Mimes :
             Creates(u, declared, mimes)
      BY <1>4, <1>5, <2>2, Steps
    <3> QED BY <1>3, <2>2, <3>1
  <2> QED BY <2>1, <2>2
<1> QED BY <1>6 DEF FilesKnown

(* The handler that still owes the deletion of the files of message m. *)
Owes(r, m) == m \in task[r].picked /\ task[r].op = "delete"

LEMMA OwedToOne ==
    ASSUME TypeOK, Placed, NEW r \in Requests, NEW m, Owes(r, m)
    PROVE  task[r].pc # "idle" /\ task[r].picked = {m}
<1>1. task[r].pc # "idle"
  BY TaskFields, IdleFields DEF Owes
<1> QED BY <1>1 DEF Placed, Owes

LEMMA OwedAfterPurge ==
    ASSUME TypeOK, Placed, FilesKnown, NEW r \in Requests, Purge(r), NEW a \in assets',
           a[2] # "audio", Owes(r, a[1])
    PROVE  FALSE
<1>1. task[r].picked = {a[1]}
  BY OwedToOne
<1>2. assets' = assets \ {<<a[1], f, cloudinaryResource(attachmentKind(f))>> : f \in messages[a[1]].files}
  BY <1>1 DEF Purge
<1>3. a \in assets
  BY <1>2
<1>4. a = <<a[1], a[2], cloudinaryResource(attachmentKind(a[2]))>> /\ a[2] \in messages[a[1]].files
  BY <1>3, AssetParts DEF FilesKnown
<1> QED BY <1>2, <1>4

LEMMA GoneStep ==
    ASSUME TypeOK, Placed, CopiesHold, FilesKnown, FilesGone, Next
    PROVE  FilesGone'
<1>1. \A a \in assets : messages[a[1]].deletedAt /\ a[2] # "audio" => \E r \in Requests : Owes(r, a[1])
  BY DEF FilesGone, Owes
<1>2. ASSUME NEW u \in Members \cup {None}, NEW declared \in Declared, NEW mimes \in SUBSET Mimes,
             Creates(u, declared, mimes), NEW a \in assets', messages'[a[1]].deletedAt, a[2] # "audio"
      PROVE  \E r \in Requests : Owes(r, a[1])'
  <2> DEFINE m == Len(messages) + 1
  <2>1. /\ \A n \in DOMAIN messages : messages'[n] = messages[n]
        /\ messages'[m] = Fresh(u, mimes) /\ task' = task
        /\ assets' = assets \cup Uploaded(m, declared, mimes)
    <3>1. Create(u, declared, mimes)
      BY <1>2 DEF Creates
    <3> QED BY <3>1, CreateStep
  <2>2. ~ Fresh(u, mimes).deletedAt
    BY DEF Fresh
  <2>3. a \in assets
    <3>1. ASSUME a \in Uploaded(m, declared, mimes) PROVE FALSE
      <4>1. a[1] = m
        BY <3>1 DEF Uploaded
      <4> QED BY <1>2, <2>1, <2>2, <4>1
    <3> QED BY <1>2, <2>1, <3>1
  <2>4. a[1] \in DOMAIN messages
    BY <2>3 DEF FilesKnown
  <2>5. messages[a[1]].deletedAt
    BY <1>2, <2>1, <2>4
  <2> QED BY <1>1, <1>2, <2>1, <2>3, <2>5 DEF Owes
<1>3. ASSUME NEW r \in Requests, Turn(r), Quiet(r), messages' = messages,
             NEW a \in assets', messages'[a[1]].deletedAt, a[2] # "audio"
      PROVE  \E q \in Requests : Owes(q, a[1])'
  <2>1. a \in assets
    BY <1>3 DEF Quiet, Starts, Refused, resetUnread, Purge
  <2>2. PICK q \in Requests : Owes(q, a[1])
    BY <1>1, <1>3, <2>1
  <2>3. q # r
    <3>1. ASSUME Owes(r, a[1]) PROVE FALSE
      <4>1. task[r].pc # "idle"
        BY <3>1, OwedToOne
      <4>2. ~Starts(r)
        BY <4>1, Zenon DEF Starts
      <4>3. ~Refused(r)
        BY <3>1 DEF Refused, Owes
      <4>4. ~resetUnread(r)
        BY <3>1, <4>1 DEF resetUnread, Owes, Placed
      <4>5. ~Purge(r)
        BY <1>3, <3>1, OwedAfterPurge
      <4> QED BY <1>3, <4>2, <4>3, <4>4, <4>5 DEF Quiet
    <3> QED BY <2>2, <3>1
  <2> QED BY <1>3, <2>2, <2>3 DEF Turn, Owes
<1>4. ASSUME NEW r \in Requests, NEW m \in DOMAIN task[r].rows, NEW next, Stores(r, m, next),
             NEW a \in assets', messages'[a[1]].deletedAt, a[2] # "audio"
      PROVE  \E q \in Requests : Owes(q, a[1])'
  <2>1. /\ m \in DOMAIN messages /\ m \in task[r].picked /\ messages'[m] = next
        /\ \A n \in DOMAIN messages : n # m => messages'[n] = messages[n]
    BY <1>4, StoresThread
  <2>2. /\ assets' = assets
        /\ \E new : Effect(task[r], task[r].rows[m], new, messages[m], next)
    BY <1>4 DEF Stores
  <2>3. /\ Turn(r)
        /\ \/ /\ task'[r] = Idle
              /\ task[r].op = "delete" => messages[m].files = {}
           \/ Shrinks(r, m)
    BY <1>4, StoresTurn
  <2>4. a \in assets /\ a[1] \in DOMAIN messages /\ a[2] \in messages[a[1]].files
    BY <1>4, <2>2 DEF FilesKnown
  <2>5. ASSUME Owes(r, a[1]) PROVE Owes(r, a[1])'
    <3>1. a[1] = m
      BY <2>1, <2>5, OwedToOne
    <3>2. Shrinks(r, m)
      BY <2>3, <2>4, <2>5, <3>1 DEF Owes
    <3> QED BY <2>5, <3>2 DEF Owes, Shrinks
  <2>6. ASSUME NEW q \in Requests, Owes(q, a[1]) PROVE Owes(q, a[1])'
    <3>1. CASE q = r
      BY <2>5, <2>6, <3>1
    <3>2. CASE q # r
      BY <2>3, <2>6, <3>2 DEF Turn, Owes
    <3> QED BY <3>1, <3>2
  <2>7. CASE messages[a[1]].deletedAt
    BY <1>1, <1>4, <2>4, <2>6, <2>7
  <2>8. CASE ~messages[a[1]].deletedAt
    <3>1. a[1] = m
      BY <1>4, <2>1, <2>4, <2>8
    <3>2. next.deletedAt /\ ~messages[m].deletedAt
      BY <1>4, <2>1, <2>8, <3>1
    <3>3. task[r].op = "delete"
      BY <2>2, <3>2 DEF Effect, Receives, Reacts, Pins, Hides, Deletes
    <3>4. Owes(r, a[1])
      BY <2>1, <3>1, <3>3 DEF Owes
    <3> QED BY <2>6, <3>4
  <2> QED BY <2>7, <2>8
<1>5. ASSUME NEW a \in assets', messages'[a[1]].deletedAt, a[2] # "audio"
      PROVE  \E q \in Requests : Owes(q, a[1])'
  BY <1>2, <1>3, <1>4, <1>5, Steps
<1> QED BY <1>5 DEF FilesGone, Owes

-----------------------------------------------------------------------------
(* The invariant *)

LEMMA InitOK == ASSUME Init PROVE IInv
<1>1. messages = <<>> /\ DOMAIN messages = {} /\ assets = {} /\ raced = {} /\ begun = 0
  BY DEF Init
<1>2. DOMAIN task = Requests /\ \A r \in Requests : task[r] = Idle
  BY DEF Init
<1>3. \A r \in Requests : /\ task[r].pc = "idle" /\ task[r].op = "none" /\ DOMAIN task[r].rows = {}
                          /\ task[r].picked = {} /\ task[r] \in Task(DOMAIN task[r].rows)
  BY <1>2, IdleFields
<1>4. messages \in Seq(Doc) /\ Len(messages) <= MaxMessages
  BY <1>1, MessagesAssumption
<1>5. TypeOK
  BY <1>1, <1>2, <1>3, <1>4, MessagesAssumption DEF TypeOK
<1>6. Placed /\ CopiesHold /\ MarksHold
  BY <1>3 DEF Placed, CopiesHold, MarksHold
<1>7. NoDuplicates /\ FilesKnown /\ FilesGone
  BY <1>1 DEF NoDuplicates, FilesKnown, FilesGone
<1> QED BY <1>5, <1>6, <1>7 DEF IInv

LEMMA NextOK == ASSUME IInv, [Next]_vars PROVE IInv'
<1>1. CASE Next
  BY <1>1, TypeStep, PlacedStep, CopiesStep, MarksStep, SinglesStep, KnownStep, GoneStep DEF IInv
<1>2. CASE UNCHANGED vars
  <2>1. /\ messages' = messages /\ assets' = assets /\ task' = task /\ begun' = begun
        /\ raced' = raced
    BY <1>2 DEF vars
  <2>2. TypeOK'
    BY <2>1 DEF IInv, TypeOK, Task
  <2>3. Placed' /\ CopiesHold'
    BY <2>1 DEF IInv, Placed, CopiesHold
  <2>4. MarksHold'
    BY <2>1 DEF IInv, MarksHold, seenBy, ReceiptsOf
  <2>5. NoDuplicates' /\ FilesKnown' /\ FilesGone'
    BY <2>1 DEF IInv, NoDuplicates, FilesKnown, FilesGone
  <2> QED BY <2>2, <2>3, <2>4, <2>5 DEF IInv
<1> QED BY <1>1, <1>2

(* The invariant holds of every behaviour, whatever requests overlap. *)
THEOREM Inductive == Spec => []IInv
BY InitOK, NextOK, PTL DEF Spec

(* The documents, the loaded rows and the files stay what the code takes them for. *)
THEOREM TypeCorrect == Spec => []TypeOK
<1>1. IInv => TypeOK
  BY DEF IInv
<1> QED BY <1>1, Inductive, PTL

(* One receipt a member and one entry an emoji, unless two $pushes crossed. *)
THEOREM NoDoubles == Spec => []NoDuplicates
<1>1. IInv => NoDuplicates
  BY DEF IInv
<1> QED BY <1>1, Inductive, PTL

(* A message deleted for everyone leaves no file behind but audio. *)
THEOREM FilesDeleted == Spec => []FilesGone
<1>1. IInv => FilesGone
  BY DEF IInv
<1> QED BY <1>1, Inductive, PTL

(* A mark of seen that resets the unread count has told on every message. *)
THEOREM SeenBeforeReset == Spec => ResetMeansSeen
<1> DEFINE Honest == \A r \in Requests :
              task[r].pc = "reset" /\ task'[r].pc = "idle" /\ task[r].by \notin Private =>
                 \A m \in task[r].picked : task[r].by \in seenBy(m)
<1>1. ASSUME IInv PROVE Honest
  <2>1. ASSUME NEW r \in Requests, task[r].pc = "reset", NEW m \in task[r].picked
        PROVE  task[r].by \in seenBy(m)
    <3>1. task[r].op = "seen"
      BY <1>1, <2>1 DEF IInv, Placed
    <3>2. DOMAIN task[r].rows = {}
      BY <1>1, <2>1 DEF IInv, Placed
    <3> QED BY <1>1, <2>1, <3>1, <3>2 DEF IInv, MarksHold
  <2> QED BY <2>1
<1>2. IInv => [Honest]_vars
  BY <1>1
<1> QED BY <1>2, Inductive, PTL DEF ResetMeansSeen

-----------------------------------------------------------------------------
(* The board: what one document shows, and what an effect makes of it *)

LEMMA LevelKept ==
    ASSUME NEW now, NEW next, next.receipts = now.receipts, NEW u
    PROVE  LevelOf(next, u) = LevelOf(now, u)
BY DEF LevelOf, ReceiptsOf

LEMMA LevelAppend ==
    ASSUME NEW now \in Doc, NEW by \in Members, NEW status \in Levels, NEW next,
           next.receipts = Append(now.receipts, [user |-> by, status |-> status])
    PROVE  /\ \A u \in Members \ {by} : LevelOf(next, u) = LevelOf(now, u)
           /\ ReceiptsOf(now, by) # {} => LevelOf(next, by) = LevelOf(now, by)
           /\ ReceiptsOf(now, by) = {} => LevelOf(now, by) = 0 /\ LevelOf(next, by) = rank(status)
<1> DEFINE n == Len(now.receipts)
<1>1. /\ now.receipts \in Seq(Receipt) /\ DOMAIN now.receipts = 1..n /\ n \in Nat
  BY DocFields, ReceiptsIn
<1>2. /\ DOMAIN next.receipts = 1..(n + 1)
      /\ next.receipts[n + 1] = [user |-> by, status |-> status]
      /\ \A i \in 1..n : next.receipts[i] = now.receipts[i]
  BY <1>1
<1>3. \A u : u # by => ReceiptsOf(next, u) = ReceiptsOf(now, u)
  BY <1>1, <1>2 DEF ReceiptsOf
<1>4. ReceiptsOf(next, by) = ReceiptsOf(now, by) \cup {n + 1}
  BY <1>1, <1>2 DEF ReceiptsOf
<1>5. ASSUME NEW u, ReceiptsOf(now, u) # {}
      PROVE  LET k == First(ReceiptsOf(now, u)) IN
             k \in 1..n /\ next.receipts[k] = now.receipts[k] /\ k \in ReceiptsOf(now, u)
  BY <1>1, <1>2, <1>5, ReceiptsIn
<1>6. ASSUME NEW u \in Members \ {by} PROVE LevelOf(next, u) = LevelOf(now, u)
  BY <1>3, <1>5 DEF LevelOf
<1>7. ASSUME ReceiptsOf(now, by) # {} PROVE LevelOf(next, by) = LevelOf(now, by)
  <2> DEFINE k == First(ReceiptsOf(now, by))
  <2>1. /\ k \in 1..n /\ k \in ReceiptsOf(now, by) /\ next.receipts[k] = now.receipts[k]
        /\ \A j \in ReceiptsOf(now, by) : k <= j
    BY <1>5, <1>7, ReceiptsIn
  <2>2. ReceiptsOf(next, by) \in SUBSET Nat /\ k \in ReceiptsOf(next, by)
    BY <1>1, <1>4, <2>1, ReceiptsIn
  <2>3. \A j \in ReceiptsOf(next, by) : k <= j
    BY <1>1, <1>4, <2>1
  <2>4. First(ReceiptsOf(next, by)) = k
    <3> HIDE DEF k
    <3> QED BY <2>2, <2>3, FirstIs
  <2> QED BY <1>7, <2>1, <2>2, <2>4 DEF LevelOf
<1>8. ASSUME ReceiptsOf(now, by) = {}
      PROVE  LevelOf(now, by) = 0 /\ LevelOf(next, by) = rank(status)
  <2>1. ReceiptsOf(next, by) = {n + 1}
    BY <1>4, <1>8
  <2>2. First({n + 1}) = n + 1
    <3>1. {n + 1} \in SUBSET Nat /\ {n + 1} # {}
      BY <1>1
    <3> HIDE DEF n
    <3>2. First({n + 1}) \in {n + 1}
      BY <3>1, FirstIn
    <3> QED BY <3>2
  <2>3. next.receipts[n + 1].status = status
    BY <1>2
  <2> HIDE DEF n
  <2> QED BY <1>8, <2>1, <2>2, <2>3 DEF LevelOf
<1> QED BY <1>6, <1>7, <1>8

LEMMA LevelExcept ==
    ASSUME NEW now \in Doc, NEW by \in Members, NEW status \in Levels, NEW next,
           ReceiptsOf(now, by) # {},
           next.receipts = [now.receipts EXCEPT ![First(ReceiptsOf(now, by))] =
                                                   [user |-> by, status |-> status]]
    PROVE  /\ \A u \in Members \ {by} : LevelOf(next, u) = LevelOf(now, u)
           /\ LevelOf(now, by) = rank(now.receipts[First(ReceiptsOf(now, by))].status)
           /\ LevelOf(next, by) = rank(status)
<1> DEFINE k == First(ReceiptsOf(now, by))
<1>1. k \in DOMAIN now.receipts /\ now.receipts[k].user = by
  BY ReceiptsIn
<1>2. /\ DOMAIN next.receipts = DOMAIN now.receipts
      /\ next.receipts[k] = [user |-> by, status |-> status]
      /\ \A i \in DOMAIN now.receipts : i # k => next.receipts[i] = now.receipts[i]
  BY <1>1
<1> HIDE DEF k
<1>3. \A i \in DOMAIN now.receipts : next.receipts[i].user = now.receipts[i].user
  BY <1>1, <1>2
<1>4. \A u : ReceiptsOf(next, u) = ReceiptsOf(now, u)
  BY <1>2, <1>3 DEF ReceiptsOf
<1>5. ASSUME NEW u \in Members \ {by} PROVE LevelOf(next, u) = LevelOf(now, u)
  <2>1. CASE ReceiptsOf(now, u) = {}
    BY <1>4, <2>1 DEF LevelOf
  <2>2. CASE ReceiptsOf(now, u) # {}
    <3>1. /\ First(ReceiptsOf(now, u)) \in DOMAIN now.receipts
          /\ now.receipts[First(ReceiptsOf(now, u))].user = u
      BY <2>2, ReceiptsIn
    <3>2. next.receipts[First(ReceiptsOf(now, u))] = now.receipts[First(ReceiptsOf(now, u))]
      BY <1>1, <1>2, <3>1
    <3> QED BY <1>4, <2>2, <3>2 DEF LevelOf
  <2> QED BY <2>1, <2>2
<1>6. LevelOf(now, by) = rank(now.receipts[k].status) /\ LevelOf(next, by) = rank(status)
  BY <1>2, <1>4 DEF LevelOf, k
<1> QED BY <1>5, <1>6 DEF k

(* What an effect leaves of the levels and of the reactions of a document. *)
LEMMA ReceivesLevel ==
    ASSUME NEW t, t.by \in Members, t.op = "seen" => t.by \notin Private,
           NEW old \in Doc, NEW new, NEW now \in Doc, NEW next, Follows(old, now),
           Receives(t, old, new, now, next)
    PROVE  /\ \A u \in Members \ {t.by} : LevelOf(next, u) = LevelOf(now, u)
           /\ \/ LevelOf(next, t.by) = LevelOf(now, t.by)
              \/ \E n \in 1..2 : /\ n > LevelOf(now, t.by) /\ (n = 2 => t.by \notin Private)
                                 /\ LevelOf(next, t.by) = n
<1> DEFINE by == t.by
           k == First(ReceiptsOf(now, by))
           x == [user |-> by, status |-> t.op]
<1>1. t.op \in Levels /\ t.op \in {"delivered", "seen"}
  BY DEF Receives, Levels
<1>2. rank(t.op) \in 1..2 /\ rank(t.op) > 0 /\ (rank(t.op) = 2 => by \notin Private)
  BY <1>1, Ranks
<1>3. \/ next.receipts = Append(now.receipts, x)
      \/ next.receipts = now.receipts
      \/ /\ ReceiptsOf(now, by) # {} /\ rank(now.receipts[k].status) < rank(t.op)
         /\ next.receipts = [now.receipts EXCEPT ![k] = x]
  BY DEF Receives
<1>4. CASE next.receipts = Append(now.receipts, x)
  <2>1. \A u \in Members \ {by} : LevelOf(next, u) = LevelOf(now, u)
    BY <1>1, <1>4, LevelAppend
  <2>2. \/ LevelOf(next, by) = LevelOf(now, by)
        \/ LevelOf(now, by) = 0 /\ LevelOf(next, by) = rank(t.op)
    BY <1>1, <1>4, LevelAppend
  <2> QED BY <1>2, <2>1, <2>2
<1>5. CASE next.receipts = now.receipts
  BY <1>5, LevelKept
<1>6. CASE /\ ReceiptsOf(now, by) # {} /\ rank(now.receipts[k].status) < rank(t.op)
           /\ next.receipts = [now.receipts EXCEPT ![k] = x]
  <2>1. /\ \A u \in Members \ {by} : LevelOf(next, u) = LevelOf(now, u)
        /\ LevelOf(now, by) = rank(now.receipts[k].status) /\ LevelOf(next, by) = rank(t.op)
    BY <1>1, <1>6, LevelExcept
  <2> HIDE DEF k
  <2>2. rank(t.op) > LevelOf(now, by)
    <3>1. now.receipts[k].status \in Levels
      BY <1>6, ReceiptsIn DEF Receipt, k
    <3> QED BY <1>2, <1>6, <2>1, <3>1, Ranks
  <2> QED BY <1>2, <2>1, <2>2
<1> QED BY <1>3, <1>4, <1>5, <1>6

LEMMA ReactedKept ==
    ASSUME NEW now, NEW next, next.reactions = now.reactions
    PROVE  ReactedOf(next) = ReactedOf(now)
BY DEF ReactedOf

LEMMA ReactsMarks ==
    ASSUME NEW t, t.by \in Members, t.emoji \in Emoji, NEW old, NEW new, NEW now \in Doc, NEW next,
           Reacts(t, old, new, now, next)
    PROVE  \/ ReactedOf(next) = ReactedOf(now) \cup {<<t.emoji, t.by>>}
           \/ ReactedOf(next) = ReactedOf(now) \ {<<t.emoji, t.by>>}
<1> DEFINE x == <<t.emoji, t.by>>
           k == First(EntriesOf(now, t.emoji))
           Has(d, p) == \E i \in DOMAIN d.reactions : d.reactions[i].emoji = p[1] /\ p[2] \in d.reactions[i].users
           n == Len(now.reactions)
<1>1. /\ now.reactions \in Seq(Reaction) /\ DOMAIN now.reactions = 1..n /\ n \in Nat
  BY DocFields, EntriesIn
<1>2. \/ next.reactions = Append(now.reactions, [emoji |-> t.emoji, users |-> {t.by}])
      \/ next.reactions = now.reactions
      \/ EntriesOf(now, t.emoji) # {} /\ Turned(now, t.by, t.emoji, next)
  BY DEF Reacts
<1>3. ASSUME NEW p \in (Emoji \X Members) \ {x} PROVE Has(next, p) <=> Has(now, p)
  <2>0. p[1] # t.emoji \/ p[2] # t.by
    BY <1>3
  <2>1. CASE next.reactions = Append(now.reactions, [emoji |-> t.emoji, users |-> {t.by}])
    <3>1. /\ DOMAIN next.reactions = 1..(n + 1)
          /\ next.reactions[n + 1] = [emoji |-> t.emoji, users |-> {t.by}]
          /\ \A i \in 1..n : next.reactions[i] = now.reactions[i]
      BY <1>1, <2>1
    <3>2. ~(next.reactions[n + 1].emoji = p[1] /\ p[2] \in next.reactions[n + 1].users)
      BY <2>0, <3>1
    <3>3. 1..(n + 1) = (1..n) \cup {n + 1}
      BY <1>1
    <3> HIDE DEF n
    <3>4. ASSUME Has(next, p) PROVE Has(now, p)
      <4>1. PICK i \in 1..n : next.reactions[i].emoji = p[1] /\ p[2] \in next.reactions[i].users
        BY <3>1, <3>2, <3>3, <3>4
      <4> QED BY <1>1, <3>1, <4>1
    <3>5. ASSUME Has(now, p) PROVE Has(next, p)
      <4>1. PICK i \in 1..n : now.reactions[i].emoji = p[1] /\ p[2] \in now.reactions[i].users
        BY <1>1, <3>5
      <4> QED BY <3>1, <3>3, <4>1
    <3> QED BY <3>4, <3>5
  <2>2. CASE next.reactions = now.reactions
    BY <2>2
  <2>3. CASE EntriesOf(now, t.emoji) # {} /\ Turned(now, t.by, t.emoji, next)
    <3>1. k \in 1..n /\ now.reactions[k].emoji = t.emoji
      BY <1>1, <2>3, EntriesIn
    <3>2. \/ /\ now.reactions[k].users = {t.by} /\ next.reactions = Without(now.reactions, k)
          \/ \E S : /\ S \in {now.reactions[k].users \cup {t.by}, now.reactions[k].users \ {t.by}}
                    /\ next.reactions = [now.reactions EXCEPT ![k] = [emoji |-> t.emoji, users |-> S]]
      BY <2>3 DEF Turned
    <3> HIDE DEF k
    <3>3. CASE now.reactions[k].users = {t.by} /\ next.reactions = Without(now.reactions, k)
      <4>1. DOMAIN next.reactions = 1..(n - 1)
        BY <1>1, <3>1, <3>3, WithoutType
      <4>2. \A i \in 1..(n - 1) : next.reactions[i] = now.reactions[IF i < k THEN i ELSE i + 1]
        BY <3>3 DEF Without
      <4>3. ~(now.reactions[k].emoji = p[1] /\ p[2] \in now.reactions[k].users)
        BY <2>0, <3>1, <3>3
      <4> HIDE DEF n
      <4>4. \A i \in 1..(n - 1) : (IF i < k THEN i ELSE i + 1) \in 1..n
        BY <1>1, <3>1
      <4>5. ASSUME Has(next, p) PROVE Has(now, p)
        <5>1. PICK i \in 1..(n - 1) : next.reactions[i].emoji = p[1] /\ p[2] \in next.reactions[i].users
          BY <4>1, <4>5
        <5> QED BY <1>1, <4>2, <4>4, <5>1
      <4>6. ASSUME Has(now, p) PROVE Has(next, p)
        <5>1. PICK j \in 1..n : now.reactions[j].emoji = p[1] /\ p[2] \in now.reactions[j].users
          BY <1>1, <4>6
        <5>2. j # k
          BY <4>3, <5>1
        <5>3. CASE j < k
          <6>1. j \in 1..(n - 1) /\ next.reactions[j] = now.reactions[j]
            BY <1>1, <3>1, <4>2, <5>3
          <6> QED BY <4>1, <5>1, <6>1
        <5>4. CASE j > k
          <6>1. j - 1 \in 1..(n - 1) /\ ~(j - 1 < k) /\ (j - 1) + 1 = j
            BY <1>1, <3>1, <5>4
          <6>2. next.reactions[j - 1] = now.reactions[j]
            BY <4>2, <6>1
          <6> QED BY <4>1, <5>1, <6>1, <6>2
        <5> QED BY <1>1, <3>1, <5>2, <5>3, <5>4
      <4> QED BY <4>5, <4>6
    <3>4. ASSUME NEW S, S \in {now.reactions[k].users \cup {t.by}, now.reactions[k].users \ {t.by}},
                 next.reactions = [now.reactions EXCEPT ![k] = [emoji |-> t.emoji, users |-> S]]
          PROVE  Has(next, p) <=> Has(now, p)
      <4>1. /\ DOMAIN next.reactions = 1..n
            /\ next.reactions[k] = [emoji |-> t.emoji, users |-> S]
            /\ \A i \in 1..n : i # k => next.reactions[i] = now.reactions[i]
        BY <1>1, <3>1, <3>4
      <4>2. next.reactions[k].emoji = t.emoji /\ next.reactions[k].users = S
        BY <4>1
      <4>3. p[2] # t.by => (p[2] \in S <=> p[2] \in now.reactions[k].users)
        BY <3>4
      <4>4. \A i \in 1..n : /\ next.reactions[i].emoji = now.reactions[i].emoji
                            /\ now.reactions[i].emoji = p[1] =>
                                 (p[2] \in next.reactions[i].users <=> p[2] \in now.reactions[i].users)
        BY <2>0, <3>1, <4>1, <4>2, <4>3
      <4> HIDE DEF n
      <4> QED BY <1>1, <4>1, <4>4
    <3> QED BY <3>2, <3>3, <3>4
  <2> HIDE DEF Has
  <2> QED BY <1>2, <2>1, <2>2, <2>3
<1>4. \A d : ReactedOf(d) = {p \in Emoji \X Members : Has(d, p)}
  BY DEF ReactedOf
<1> HIDE DEF Has
<1>5. x \in Emoji \X Members
  OBVIOUS
<1>6. CASE Has(next, x)
  BY <1>3, <1>4, <1>5, <1>6
<1>7. CASE ~Has(next, x)
  BY <1>3, <1>4, <1>5, <1>7
<1> QED BY <1>6, <1>7

-----------------------------------------------------------------------------
(* The board: its variables, and how a step changes them *)

Levelled == [m \in 1..MaxMessages |-> [u \in Members |->
                IF m \in DOMAIN messages THEN LevelOf(messages[m], u) ELSE 0]]
Reacted == [m \in 1..MaxMessages |-> IF m \in DOMAIN messages THEN ReactedOf(messages[m]) ELSE {}]
Pinned == [m \in 1..MaxMessages |-> IF m \in DOMAIN messages THEN messages[m].pinnedBy ELSE None]
Hidden == [m \in 1..MaxMessages |-> IF m \in DOMAIN messages THEN messages[m].deletedFor ELSE {}]
Deleted == [m \in 1..MaxMessages |-> IF m \in DOMAIN messages THEN messages[m].deletedAt ELSE FALSE]

Shown == <<Len(messages), Levelled, Reacted, Pinned, Hidden, Deleted>>

LEMMA ShownIs == Thread!Board = Shown
BY DEF Thread!Board, Shown, Levelled, Reacted, Pinned, Hidden, Deleted, Of

LEMMA BoardInit == Init => Thread!Init
<1> SUFFICES ASSUME Init PROVE Thread!Init
  OBVIOUS
<1>1. Len(messages) = 0 /\ DOMAIN messages = {}
  BY DEF Init
<1> QED BY <1>1 DEF Thread!Init, Thread!Ids, Of

(* A step that leaves all but one document. *)
LEMMA OneDocument ==
    ASSUME TypeOK, NEW m \in DOMAIN messages, DOMAIN messages' = DOMAIN messages,
           \A n \in DOMAIN messages : n # m => messages'[n] = messages[n]
    PROVE  /\ m \in 1..MaxMessages
           /\ Levelled' = [Levelled EXCEPT ![m] = [u \in Members |-> LevelOf(messages'[m], u)]]
           /\ Reacted' = [Reacted EXCEPT ![m] = ReactedOf(messages'[m])]
           /\ Pinned' = [Pinned EXCEPT ![m] = messages'[m].pinnedBy]
           /\ Hidden' = [Hidden EXCEPT ![m] = messages'[m].deletedFor]
           /\ Deleted' = [Deleted EXCEPT ![m] = messages'[m].deletedAt]
           /\ \A u \in Members : Levelled[m][u] = LevelOf(messages[m], u)
           /\ Reacted[m] = ReactedOf(messages[m]) /\ Pinned[m] = messages[m].pinnedBy
           /\ Hidden[m] = messages[m].deletedFor /\ Deleted[m] = messages[m].deletedAt
<1>1. m \in 1..MaxMessages
  BY ThreadTypes
<1>2. Levelled' = [Levelled EXCEPT ![m] = [u \in Members |-> LevelOf(messages'[m], u)]]
  <2>1. Levelled' = [n \in 1..MaxMessages |-> [u \in Members |->
                       IF n \in DOMAIN messages' THEN LevelOf(messages'[n], u) ELSE 0]]
    BY DEF Levelled, LevelOf, ReceiptsOf
  <2>2. \A n \in 1..MaxMessages : n # m =>
           [u \in Members |-> IF n \in DOMAIN messages' THEN LevelOf(messages'[n], u) ELSE 0] = Levelled[n]
    BY DEF Levelled
  <2>3. [u \in Members |-> IF m \in DOMAIN messages' THEN LevelOf(messages'[m], u) ELSE 0]
           = [u \in Members |-> LevelOf(messages'[m], u)]
    OBVIOUS
  <2>4. Levelled = [n \in 1..MaxMessages |-> Levelled[n]]
    BY DEF Levelled
  <2> QED BY <1>1, <2>1, <2>2, <2>3, <2>4
<1>3. Reacted' = [Reacted EXCEPT ![m] = ReactedOf(messages'[m])]
  BY <1>1 DEF Reacted, ReactedOf
<1>4. Pinned' = [Pinned EXCEPT ![m] = messages'[m].pinnedBy]
  BY <1>1 DEF Pinned
<1>5. Hidden' = [Hidden EXCEPT ![m] = messages'[m].deletedFor]
  BY <1>1 DEF Hidden
<1>6. Deleted' = [Deleted EXCEPT ![m] = messages'[m].deletedAt]
  BY <1>1 DEF Deleted
<1>7. /\ \A u \in Members : Levelled[m][u] = LevelOf(messages[m], u)
      /\ Reacted[m] = ReactedOf(messages[m]) /\ Pinned[m] = messages[m].pinnedBy
      /\ Hidden[m] = messages[m].deletedFor
  BY <1>1 DEF Levelled, Reacted, Pinned, Hidden
<1>8. Deleted[m] = messages[m].deletedAt
  BY <1>1 DEF Deleted
<1> QED BY <1>1, <1>2, <1>3, <1>4, <1>5, <1>6, <1>7, <1>8

(* Of a new message there is nothing to show but itself. *)
LEMMA FreshShows ==
    ASSUME NEW u \in Members \cup {None}, NEW mimes \in SUBSET Mimes
    PROVE  LET d == Fresh(u, mimes) IN
           /\ \A v \in Members : LevelOf(d, v) = 0
           /\ ReactedOf(d) = {} /\ d.pinnedBy = None /\ d.deletedFor = {} /\ d.deletedAt = FALSE
<1> DEFINE d == Fresh(u, mimes)
<1>1. ASSUME NEW v \in Members PROVE LevelOf(d, v) = 0
  <2>1. CASE ReceiptsOf(d, v) = {}
    BY <2>1 DEF LevelOf
  <2>2. CASE ReceiptsOf(d, v) # {}
    <3>1. d \in Doc /\ \A i \in DOMAIN d.receipts : d.receipts[i].status = "sent"
      BY FreshDoc
    <3> HIDE DEF d
    <3>2. First(ReceiptsOf(d, v)) \in DOMAIN d.receipts
      BY <2>2, <3>1, ReceiptsIn
    <3> QED BY <2>2, <3>1, <3>2, Ranks DEF LevelOf
  <2> QED BY <2>1, <2>2
<1>2. ReactedOf(d) = {}
  BY FreshDoc DEF ReactedOf
<1>3. d.pinnedBy = None /\ d.deletedFor = {} /\ d.deletedAt = FALSE
  BY DEF Fresh
<1> QED BY <1>1, <1>2, <1>3

LEMMA BoardPost ==
    ASSUME TypeOK, NEW u \in Members \cup {None}, NEW declared, NEW mimes \in SUBSET Mimes,
           Create(u, declared, mimes)
    PROVE  Thread!Post
<1> DEFINE m == Len(messages) + 1
           d == Fresh(u, mimes)
<1>1. /\ m \in 1..MaxMessages /\ m \notin DOMAIN messages
      /\ DOMAIN messages' = (DOMAIN messages) \cup {m}
      /\ Len(messages') = m
      /\ \A n \in DOMAIN messages : messages'[n] = messages[n]
      /\ messages'[m] = d
  BY CreateStep
<1>2. Len(messages) \in Nat /\ MaxMessages \in Nat
  BY ThreadTypes, MessagesAssumption
<1>3. /\ \A v \in Members : LevelOf(d, v) = 0
      /\ ReactedOf(d) = {} /\ d.pinnedBy = None /\ d.deletedFor = {} /\ d.deletedAt = FALSE
  BY FreshShows
<1>4. Len(messages) < MaxMessages /\ Len(messages') = Len(messages) + 1
  BY <1>1, <1>2
<1> HIDE DEF m, d
<1>5. Levelled' = Levelled
  <2>1. \A n \in 1..MaxMessages, v \in Members :
           (IF n \in DOMAIN messages' THEN LevelOf(messages'[n], v) ELSE 0)
         = (IF n \in DOMAIN messages THEN LevelOf(messages[n], v) ELSE 0)
    BY <1>1, <1>3
  <2>2. Levelled' = [n \in 1..MaxMessages |-> [v \in Members |->
                        IF n \in DOMAIN messages' THEN LevelOf(messages'[n], v) ELSE 0]]
    BY DEF Levelled, LevelOf, ReceiptsOf
  <2> QED BY <2>1, <2>2 DEF Levelled
<1>6. Reacted' = Reacted
  <2>1. \A n \in 1..MaxMessages :
           (IF n \in DOMAIN messages' THEN ReactedOf(messages'[n]) ELSE {})
         = (IF n \in DOMAIN messages THEN ReactedOf(messages[n]) ELSE {})
    BY <1>1, <1>3
  <2>2. Reacted' = [n \in 1..MaxMessages |->
                       IF n \in DOMAIN messages' THEN ReactedOf(messages'[n]) ELSE {}]
    BY DEF Reacted, ReactedOf
  <2> QED BY <2>1, <2>2 DEF Reacted
<1>7. Pinned' = Pinned /\ Hidden' = Hidden
  BY <1>1, <1>3 DEF Pinned, Hidden
<1>8. Deleted' = Deleted
  BY <1>1, <1>3 DEF Deleted
<1> QED BY <1>4, <1>5, <1>6, <1>7, <1>8
        DEF Thread!Post, Of, Levelled, Reacted, Pinned, Hidden, Deleted

LEMMA BoardStores ==
    ASSUME TypeOK, Placed, NEW r \in Requests, NEW m \in DOMAIN task[r].rows, NEW next,
           Stores(r, m, next)
    PROVE  [Thread!Next]_(Thread!Board)
<1> DEFINE by == task[r].by
           now == messages[m]
           old == task[r].rows[m]
<1>1. /\ m \in DOMAIN messages /\ m \in task[r].picked /\ messages'[m] = next /\ next \in Doc
      /\ \A n \in DOMAIN messages : n # m => messages'[n] = messages[n]
      /\ DOMAIN messages' = DOMAIN messages /\ Len(messages') = Len(messages)
  BY StoresThread
<1>2. now \in Doc /\ old \in Doc /\ Follows(old, now)
  BY <1>1, ThreadTypes DEF Stores
<1>3. task[r].pc = "save"
  BY StoresTurn
<1>4. /\ by \in Members /\ (task[r].op = "react" => task[r].emoji \in Emoji)
      /\ task[r].op = "seen" => by \notin Private
  BY <1>1, <1>3 DEF Placed
<1>5. /\ m \in 1..MaxMessages
      /\ Levelled' = [Levelled EXCEPT ![m] = [u \in Members |-> LevelOf(next, u)]]
      /\ Reacted' = [Reacted EXCEPT ![m] = ReactedOf(next)]
      /\ Pinned' = [Pinned EXCEPT ![m] = next.pinnedBy]
      /\ Hidden' = [Hidden EXCEPT ![m] = next.deletedFor]
      /\ Deleted' = [Deleted EXCEPT ![m] = next.deletedAt]
      /\ \A u \in Members : Levelled[m][u] = LevelOf(now, u)
      /\ Reacted[m] = ReactedOf(now) /\ Pinned[m] = now.pinnedBy
      /\ Hidden[m] = now.deletedFor /\ Deleted[m] = now.deletedAt
  BY <1>1, OneDocument
<1>6. m \in 1..Len(messages)
  BY <1>1, ThreadTypes
<1>7. PICK new : Effect(task[r], old, new, now, next)
  BY DEF Stores
<1> HIDE DEF by, now, old
<1>8. Reacted = [Reacted EXCEPT ![m] = Reacted[m]] /\ Pinned = [Pinned EXCEPT ![m] = Pinned[m]]
  BY DEF Reacted, Pinned
<1>9. Hidden = [Hidden EXCEPT ![m] = Hidden[m]] /\ Deleted = [Deleted EXCEPT ![m] = Deleted[m]]
  BY DEF Hidden, Deleted
<1>10. /\ Levelled = [Levelled EXCEPT ![m] = Levelled[m]]
       /\ Levelled[m] = [u \in Members |-> Levelled[m][u]]
  <2>1. Levelled = [n \in 1..MaxMessages |-> Levelled[n]]
    BY DEF Levelled
  <2>2. Levelled[m] = [u \in Members |-> Levelled[m][u]]
    BY <1>5 DEF Levelled
  <2> QED BY <2>1, <2>2
<1>11. next.receipts = now.receipts => Levelled' = Levelled
  <2>1. next.receipts = now.receipts => [u \in Members |-> LevelOf(next, u)] = [u \in Members |-> Levelled[m][u]]
    BY <1>5, LevelKept
  <2> QED BY <1>5, <1>10, <2>1
<1>12. next.reactions = now.reactions => Reacted' = Reacted
  BY <1>5, <1>8, ReactedKept
<1>13. next.pinnedBy = now.pinnedBy => Pinned' = Pinned
  BY <1>5, <1>8
<1>14. next.deletedFor = now.deletedFor => Hidden' = Hidden
  BY <1>5, <1>9
<1>15. (next.deletedAt = now.deletedAt) => Deleted' = Deleted
  BY <1>5, <1>9
<1>16. Shown' = Shown => UNCHANGED Thread!Board
  BY ShownIs DEF Thread!Board, Shown, Levelled, Reacted, Pinned, Hidden, Deleted, Of
<1>17. CASE Receives(task[r], old, new, now, next)
  <2>1. /\ task[r].op \in {"delivered", "seen"}
        /\ Reacted' = Reacted /\ Pinned' = Pinned /\ Hidden' = Hidden
    BY <1>12, <1>13, <1>14, <1>17 DEF Receives
  <2>2. Deleted' = Deleted
    BY <1>15, <1>17 DEF Receives
  <2>3. /\ \A u \in Members \ {by} : LevelOf(next, u) = LevelOf(now, u)
        /\ \/ LevelOf(next, by) = LevelOf(now, by)
           \/ \E n \in 1..2 : /\ n > LevelOf(now, by) /\ (n = 2 => by \notin Private)
                              /\ LevelOf(next, by) = n
    BY <1>2, <1>4, <1>17, ReceivesLevel DEF by
  <2>4. CASE LevelOf(next, by) = LevelOf(now, by)
    <3>1. [u \in Members |-> LevelOf(next, u)] = [u \in Members |-> Levelled[m][u]]
      BY <1>5, <2>3, <2>4
    <3>2. Levelled' = Levelled
      BY <1>5, <1>10, <3>1
    <3> QED BY <1>1, <1>16, <2>1, <2>2, <3>2 DEF Shown
  <2>5. ASSUME NEW n \in 1..2, n > LevelOf(now, by), n = 2 => by \notin Private, LevelOf(next, by) = n
        PROVE  Thread!Receive(m, by)
    <3>1. [u \in Members |-> LevelOf(next, u)] = [Levelled[m] EXCEPT ![by] = n]
      BY <1>4, <1>5, <1>10, <2>3, <2>5
    <3>2. Levelled' = [Levelled EXCEPT ![m][by] = n]
      BY <1>5, <1>10, <3>1
    <3>3. n > Levelled[m][by]
      BY <1>4, <1>5, <2>5
    <3> QED BY <1>1, <2>1, <2>2, <2>5, <3>2, <3>3
            DEF Thread!Receive, Of, Levelled, Reacted, Pinned, Hidden, Deleted
  <2> QED BY <1>4, <1>6, <2>3, <2>4, <2>5 DEF Thread!Next
<1>18. CASE Reacts(task[r], old, new, now, next)
  <2>1. /\ task[r].emoji \in Emoji /\ Levelled' = Levelled /\ Pinned' = Pinned /\ Hidden' = Hidden
    BY <1>4, <1>11, <1>13, <1>14, <1>18 DEF Reacts
  <2>2. Deleted' = Deleted
    BY <1>15, <1>18 DEF Reacts
  <2>3. \/ ReactedOf(next) = ReactedOf(now) \cup {<<task[r].emoji, by>>}
        \/ ReactedOf(next) = ReactedOf(now) \ {<<task[r].emoji, by>>}
    BY <1>1, <1>2, <1>4, <1>18, <2>1, ReactsMarks DEF by
  <2>4. \/ Reacted' = [Reacted EXCEPT ![m] = @ \cup {<<task[r].emoji, by>>}]
        \/ Reacted' = [Reacted EXCEPT ![m] = @ \ {<<task[r].emoji, by>>}]
    BY <1>5, <2>3
  <2>5. PICK u \in Members : u = by
    BY <1>4
  <2>6. \/ Reacted' = [Reacted EXCEPT ![m] = @ \cup {<<task[r].emoji, u>>}]
        \/ Reacted' = [Reacted EXCEPT ![m] = @ \ {<<task[r].emoji, u>>}]
    BY <2>4, <2>5
  <2>7. Thread!React(m, u)
    BY <1>1, <2>1, <2>2, <2>6 DEF Thread!React, Of, Levelled, Reacted, Pinned, Hidden, Deleted
  <2> QED BY <1>6, <2>7 DEF Thread!Next
<1>19. CASE Pins(task[r], now, next)
  <2>1. Levelled' = Levelled /\ Reacted' = Reacted /\ Hidden' = Hidden
    BY <1>11, <1>12, <1>14, <1>19 DEF Pins, Keeps
  <2>2. Deleted' = Deleted
    BY <1>15, <1>19 DEF Pins
  <2>3. next.pinnedBy \in Members \cup {None} /\ Pinned' = [Pinned EXCEPT ![m] = next.pinnedBy]
    BY <1>5, <1>19 DEF Pins
  <2>4. Thread!Pin(m, next.pinnedBy)
    BY <1>1, <2>1, <2>2, <2>3 DEF Thread!Pin, Of, Levelled, Reacted, Pinned, Hidden, Deleted
  <2> QED BY <1>6, <2>3, <2>4 DEF Thread!Next
<1>20. CASE Hides(task[r], now, next)
  <2>1. Levelled' = Levelled /\ Reacted' = Reacted /\ Pinned' = Pinned
    BY <1>11, <1>12, <1>13, <1>20 DEF Hides, Keeps
  <2>2. Deleted' = Deleted
    BY <1>15, <1>20 DEF Hides
  <2>3. CASE next.deletedFor = now.deletedFor
    BY <1>1, <1>14, <1>16, <2>1, <2>2, <2>3 DEF Shown
  <2>4. CASE next.deletedFor = now.deletedFor \cup {by}
    <3>1. Hidden' = [Hidden EXCEPT ![m] = @ \cup {by}]
      BY <1>5, <2>4
    <3>2. Thread!Hide(m, by)
      BY <1>1, <2>1, <2>2, <3>1 DEF Thread!Hide, Of, Levelled, Reacted, Pinned, Hidden, Deleted
    <3> QED BY <1>4, <1>6, <3>2 DEF Thread!Next
  <2> QED BY <1>20, <2>3, <2>4 DEF Hides, by
<1>21. CASE Deletes(task[r], now, next)
  <2>1. Levelled' = Levelled /\ Reacted' = Reacted /\ Pinned' = Pinned /\ Hidden' = Hidden
    BY <1>11, <1>12, <1>13, <1>14, <1>21 DEF Deletes, Keeps
  <2>2. Deleted' = [Deleted EXCEPT ![m] = TRUE]
    BY <1>5, <1>21 DEF Deletes
  <2>3. Thread!Delete(m)
    BY <1>1, <2>1, <2>2 DEF Thread!Delete, Of, Levelled, Reacted, Pinned, Hidden, Deleted
  <2> QED BY <1>6, <2>3 DEF Thread!Next
<1> QED BY <1>7, <1>17, <1>18, <1>19, <1>20, <1>21 DEF Effect

LEMMA BoardStep == ASSUME IInv, [Next]_vars PROVE [Thread!Next]_(Thread!Board)
<1>1. ASSUME messages' = messages PROVE UNCHANGED Thread!Board
  BY <1>1 DEF Thread!Board, LevelOf, ReceiptsOf, ReactedOf, Of
<1>2. ASSUME Next PROVE [Thread!Next]_(Thread!Board)
  <2>1. TypeOK /\ Placed /\ CopiesHold
    BY DEF IInv
  <2>2. CASE \E u \in Members \cup {None}, declared \in Declared, mimes \in SUBSET Mimes :
                Creates(u, declared, mimes)
    BY <2>1, <2>2, BoardPost DEF Creates, Thread!Next
  <2>3. ASSUME NEW r \in Requests, NEW m \in DOMAIN task[r].rows, NEW next, Stores(r, m, next)
        PROVE  [Thread!Next]_(Thread!Board)
    BY <2>1, <2>3, BoardStores
  <2> QED BY <1>1, <1>2, <2>1, <2>2, <2>3, Steps
<1> QED BY <1>1, <1>2 DEF vars

(* Whatever requests overlap, the documents behave as the board: nobody's    *)
(* reaction is lost to another's toggle, no receipt falls back or tells on   *)
(* somebody with readReceipts off, and no old copy undoes a deletion.        *)
THEOREM Refines == Spec => ImplementsBoard
<1>1. IInv /\ [Next]_vars => [Thread!Next]_(Thread!Board)
  BY BoardStep
<1> QED BY <1>1, BoardInit, Inductive, PTL DEF Spec, ImplementsBoard, Thread!Spec
=============================================================================
