--------------------------- MODULE ContactsProofs ---------------------------
(***************************************************************************)
(* Proofs about Contacts, for any number of handlers and messages and      *)
(* whatever overlaps: the caches of who is restricted tell the truth, and  *)
(* without overlaps blocked people are no contacts and do not write to     *)
(* each other.                                                             *)
(***************************************************************************)
EXTENDS Contacts, SequenceTheorems, TLAPS

Drafts == UNION {[S -> BOOLEAN] : S \in SUBSET Fields}

Handler ==
    [op : Ops \cup {"none"}, by : Users \cup {None}, todo : Seq(Steps \X Users),
     draft : Drafts, loaded : SUBSET Users]

Sound == TypeOK /\ \A r \in Requests : Placed(task[r])

(* There are two of them. *)
LEMMA Two ==
    /\ \A u \in Users : Peer(u) \in Users /\ Peer(u) # u /\ Users = {u, Peer(u)} /\ Peer(Peer(u)) = u
    /\ \A u \in Users : u # None
    /\ Pairs = {<<u, Peer(u)>> : u \in Users}
<1>1. PICK a, b \in Users : a # b /\ Users = {a, b}
  BY ContactsAssumption
<1>2. \A u \in Users : Peer(u) \in Users /\ Peer(u) # u
  BY <1>1 DEF Peer
<1>3. \A u \in Users : Users = {u, Peer(u)} /\ Peer(Peer(u)) = u
  BY <1>1, <1>2
<1>4. Pairs = {<<u, Peer(u)>> : u \in Users}
  BY <1>1, <1>2, <1>3 DEF Pairs
<1> QED BY <1>2, <1>3, <1>4, ContactsAssumption

-----------------------------------------------------------------------------
(* The programs, access by access *)

LEMMA Programs ==
    ASSUME NEW u \in Users
    PROVE  /\ LET P == Program("follow", u) IN
                 /\ P \in Seq(Steps \X Users) /\ Len(P) = 5
                 /\ P[1] = <<"check", u>> /\ P[2] = <<"contact?", u>> /\ P[3] = <<"contact", u>>
                 /\ P[4] = <<"check", u>> /\ P[5] = <<"direct?", u>>
           /\ LET P == Program("open", u) IN
                 /\ P \in Seq(Steps \X Users) /\ Len(P) = 2
                 /\ P[1] = <<"check", u>> /\ P[2] = <<"direct?", u>>
           /\ LET P == Program("unfollow", u) IN
                 /\ P \in Seq(Steps \X Users) /\ Len(P) = 3
                 /\ P[1] = <<"uncontact", u>> /\ P[2] = <<"hide?", u>> /\ P[3] = <<"save", u>>
           /\ LET P == Program("block", u) IN
                 /\ P \in Seq(Steps \X Users) /\ Len(P) = 10
                 /\ P[1] = <<"block", u>> /\ P[2] = <<"bust", u>>
                 /\ P[3] = <<"uncontact", u>> /\ P[4] = <<"hide?", u>> /\ P[5] = <<"save", u>>
                 /\ P[6] = <<"uncontact", Peer(u)>> /\ P[7] = <<"hide?", Peer(u)>> /\ P[8] = <<"save", Peer(u)>>
                 /\ P[9] = <<"archive?", u>> /\ P[10] = <<"save", u>>
           /\ LET P == Program("unblock", u) IN
                 /\ P \in Seq(Steps \X Users) /\ Len(P) = 2
                 /\ P[1] = <<"unblock", u>> /\ P[2] = <<"bust", u>>
           /\ LET P == Program("send", u) IN
                 /\ P \in Seq(Steps \X Users) /\ Len(P) = 5
                 /\ P[1] = <<"member", u>> /\ P[2] = <<"check", u>> /\ P[3] = <<"post", u>>
                 /\ P[4] = <<"bump?", u>> /\ P[5] = <<"save", u>>
           /\ LET P == Program("delete", u) IN
                 /\ P \in Seq(Steps \X Users) /\ Len(P) = 3
                 /\ P[1] = <<"member", u>> /\ P[2] = <<"wipe", u>> /\ P[3] = <<"drop", u>>
           /\ LET P == Program("list", u) IN
                 /\ P \in Seq(Steps \X Users) /\ Len(P) = 3
                 /\ P[1] = <<"cached", u>> /\ P[2] = <<"load", u>> /\ P[3] = <<"fill", u>>
<1> USE Two DEF Steps
<1>1. LET P == Program("follow", u) IN
         /\ P \in Seq(Steps \X Users) /\ Len(P) = 5
         /\ P[1] = <<"check", u>> /\ P[2] = <<"contact?", u>> /\ P[3] = <<"contact", u>>
         /\ P[4] = <<"check", u>> /\ P[5] = <<"direct?", u>>
  BY DEF Program, createDirect
<1>2. LET P == Program("open", u) IN
         /\ P \in Seq(Steps \X Users) /\ Len(P) = 2
         /\ P[1] = <<"check", u>> /\ P[2] = <<"direct?", u>>
  BY DEF Program, createDirect
<1>3. LET P == Program("unfollow", u) IN
         /\ P \in Seq(Steps \X Users) /\ Len(P) = 3
         /\ P[1] = <<"uncontact", u>> /\ P[2] = <<"hide?", u>> /\ P[3] = <<"save", u>>
  BY DEF Program, remove
<1>4. LET P == Program("block", u) IN
         /\ P \in Seq(Steps \X Users) /\ Len(P) = 10
         /\ P[1] = <<"block", u>> /\ P[2] = <<"bust", u>>
         /\ P[3] = <<"uncontact", u>> /\ P[4] = <<"hide?", u>> /\ P[5] = <<"save", u>>
         /\ P[6] = <<"uncontact", Peer(u)>> /\ P[7] = <<"hide?", Peer(u)>> /\ P[8] = <<"save", Peer(u)>>
         /\ P[9] = <<"archive?", u>> /\ P[10] = <<"save", u>>
  BY DEF Program, remove, afterBlock
<1>5. LET P == Program("unblock", u) IN
         /\ P \in Seq(Steps \X Users) /\ Len(P) = 2
         /\ P[1] = <<"unblock", u>> /\ P[2] = <<"bust", u>>
  BY DEF Program
<1>6. LET P == Program("send", u) IN
         /\ P \in Seq(Steps \X Users) /\ Len(P) = 5
         /\ P[1] = <<"member", u>> /\ P[2] = <<"check", u>> /\ P[3] = <<"post", u>>
         /\ P[4] = <<"bump?", u>> /\ P[5] = <<"save", u>>
  BY DEF Program
<1>7. LET P == Program("delete", u) IN
         /\ P \in Seq(Steps \X Users) /\ Len(P) = 3
         /\ P[1] = <<"member", u>> /\ P[2] = <<"wipe", u>> /\ P[3] = <<"drop", u>>
  BY DEF Program
<1>8. LET P == Program("list", u) IN
         /\ P \in Seq(Steps \X Users) /\ Len(P) = 3
         /\ P[1] = <<"cached", u>> /\ P[2] = <<"load", u>> /\ P[3] = <<"fill", u>>
  BY DEF Program
<1> QED BY <1>1, <1>2, <1>3, <1>4, <1>5, <1>6, <1>7, <1>8

(* What a handler does next follows from what it is and how much it has left: *)
(* a handler of u for op with l accesses left begins with step n on v.        *)
Ready(op, u, l, n, v) ==
    \/ /\ op = "follow"
       /\ \/ l = 5 /\ n = "check" /\ v = u
          \/ l = 4 /\ n = "contact?" /\ v = u
          \/ l = 3 /\ n = "contact" /\ v = u
          \/ l = 2 /\ n = "check" /\ v = u
          \/ l = 1 /\ n \in {"direct?", "direct", "save"}
    \/ /\ op = "open"
       /\ \/ l = 2 /\ n = "check" /\ v = u
          \/ l = 1 /\ n \in {"direct?", "direct", "save"}
    \/ /\ op = "unfollow"
       /\ \/ l = 3 /\ n = "uncontact" /\ v = u
          \/ l = 2 /\ n = "hide?" /\ v = u
          \/ l = 1 /\ n = "save" /\ v = u
    \/ /\ op = "block"
       /\ \/ l = 10 /\ n = "block" /\ v = u
          \/ l = 9 /\ n = "bust" /\ v = u
          \/ l = 8 /\ n = "uncontact" /\ v = u
          \/ l = 7 /\ n = "hide?" /\ v = u
          \/ l = 6 /\ n = "save" /\ v = u
          \/ l = 5 /\ n = "uncontact" /\ v = Peer(u)
          \/ l = 4 /\ n = "hide?" /\ v = Peer(u)
          \/ l = 3 /\ n = "save" /\ v = Peer(u)
          \/ l = 2 /\ n = "archive?" /\ v = u
          \/ l = 1 /\ n = "save" /\ v = u
    \/ /\ op = "unblock"
       /\ \/ l = 2 /\ n = "unblock" /\ v = u
          \/ l = 1 /\ n = "bust" /\ v = u
    \/ /\ op = "send"
       /\ \/ l = 5 /\ n = "member" /\ v = u
          \/ l = 4 /\ n = "check" /\ v = u
          \/ l = 3 /\ n = "post" /\ v = u
          \/ l = 2 /\ n = "bump?" /\ v = u
          \/ l = 1 /\ n = "save" /\ v = u
    \/ /\ op = "delete"
       /\ \/ l = 3 /\ n = "member" /\ v = u
          \/ l = 2 /\ n = "wipe" /\ v = u
          \/ l = 1 /\ n = "drop" /\ v = u
    \/ /\ op = "list"
       /\ \/ l = 3 /\ n = "cached" /\ v = u
          \/ l = 2 /\ n = "load" /\ v = u
          \/ l = 1 /\ n = "fill" /\ v = u

LEMMA Where ==
    ASSUME NEW op, NEW u, NEW l, NEW n, NEW v, Ready(op, u, l, n, v)
    PROVE  /\ n = "check" => \/ op = "follow" /\ l \in {5, 2}
                             \/ op = "open" /\ l = 2
                             \/ op = "send" /\ l = 4
           /\ n = "contact?" => op = "follow" /\ l = 4
           /\ n = "contact" => op = "follow" /\ l = 3
           /\ n \in {"direct?", "direct"} => op \in {"follow", "open"} /\ l = 1
           /\ n = "uncontact" => \/ op = "unfollow" /\ l = 3
                                 \/ op = "block" /\ l = 8 /\ v = u
                                 \/ op = "block" /\ l = 5 /\ v = Peer(u)
           /\ n = "hide?" => (op = "unfollow" /\ l = 2) \/ (op = "block" /\ l \in {7, 4})
           /\ n = "save" => l = 1 \/ (op = "block" /\ l \in {6, 3})
           /\ n = "block" => op = "block" /\ l = 10
           /\ n = "unblock" => op = "unblock" /\ l = 2
           /\ n = "bust" <=> (op = "block" /\ l = 9) \/ (op = "unblock" /\ l = 1)
           /\ n = "archive?" => op = "block" /\ l = 2
           /\ n = "member" => (op = "send" /\ l = 5) \/ (op = "delete" /\ l = 3)
           /\ n = "post" <=> op = "send" /\ l = 3
           /\ n = "bump?" => op = "send" /\ l = 2
           /\ n = "wipe" => op = "delete" /\ l = 2
           /\ n = "drop" => op = "delete" /\ l = 1
           /\ n \in {"cached", "load", "fill"} => op = "list"
<1>1. CASE op = "follow"
  BY <1>1 DEF Ready
<1>2. CASE op = "open"
  BY <1>2 DEF Ready
<1>3. CASE op = "unfollow"
  BY <1>3 DEF Ready
<1>4. CASE op = "block"
  BY <1>4 DEF Ready
<1>5. CASE op = "unblock"
  BY <1>5 DEF Ready
<1>6. CASE op = "send"
  BY <1>6 DEF Ready
<1>7. CASE op = "delete"
  BY <1>7 DEF Ready
<1>8. CASE op = "list"
  BY <1>8 DEF Ready
<1> QED BY <1>1, <1>2, <1>3, <1>4, <1>5, <1>6, <1>7, <1>8 DEF Ready

LEMMA NextAccess ==
    ASSUME NEW t \in Handler, Placed(t), t # Idle
    PROVE  /\ t.by \in Users /\ t.op \in Ops
           /\ Len(t.todo) \in Nat \ {0} /\ Head(t.todo) \in Steps \X Users
           /\ Ready(t.op, t.by, Len(t.todo), Head(t.todo)[1], Head(t.todo)[2])
<1> DEFINE u == t.by
           l == Len(t.todo)
           h == Head(t.todo)
           P == Program(t.op, u)
<1>1. /\ u \in Users /\ t.op \in Ops
      /\ t.todo \in Seq(Steps \X Users) /\ l \in Nat \ {0} /\ h = t.todo[1] /\ h \in Steps \X Users
  BY DEF Placed, Handler
<1>2. \/ t.op \in {"follow", "open"} /\ l = 1 /\ h[1] \in {"direct", "save"}
      \/ l <= Len(P) /\ h = P[Len(P) - l + 1]
  <2>1. Len(P) \in Nat
    BY <1>1, Programs DEF Ops, Writes
  <2>2. CASE t.op \in {"follow", "open"} /\ l = 1 /\ t.todo[1] \in {"direct", "save"} \X Users
    BY <1>1, <2>2
  <2>3. CASE l <= Len(P) /\ \A i \in DOMAIN t.todo : t.todo[i] = P[(Len(P) - l) + i]
    <3>1. 1 \in DOMAIN t.todo
      BY <1>1
    <3> HIDE DEF P
    <3> QED BY <1>1, <2>1, <2>3, <3>1
  <2> QED BY <2>2, <2>3 DEF Placed
<1>3. P = Program(t.op, u)
  OBVIOUS
<1> HIDE DEF u, l, h, P
<1>4. ASSUME l <= Len(P), h = P[Len(P) - l + 1] PROVE Ready(t.op, u, l, h[1], h[2])
  <2>1. CASE t.op = "follow"
    <3>0. P = Program("follow", u)
      BY <1>3, <2>1
    <3>1. /\ Len(P) = 5
          /\ P[1] = <<"check", u>> /\ P[2] = <<"contact?", u>> /\ P[3] = <<"contact", u>>
          /\ P[4] = <<"check", u>> /\ P[5] = <<"direct?", u>>
      BY <1>1, <3>0, Programs
    <3>2. l \in 1..5 /\ h = P[6 - l]
      BY <1>1, <1>4, <3>1
    <3> QED BY <1>1, <2>1, <3>1, <3>2 DEF Ready
  <2>2. CASE t.op = "open"
    <3>0. P = Program("open", u)
      BY <1>3, <2>2
    <3>1. /\ Len(P) = 2
          /\ P[1] = <<"check", u>> /\ P[2] = <<"direct?", u>>
      BY <1>1, <3>0, Programs
    <3>2. l \in 1..2 /\ h = P[3 - l]
      BY <1>1, <1>4, <3>1
    <3> QED BY <1>1, <2>2, <3>1, <3>2 DEF Ready
  <2>3. CASE t.op = "unfollow"
    <3>0. P = Program("unfollow", u)
      BY <1>3, <2>3
    <3>1. /\ Len(P) = 3
          /\ P[1] = <<"uncontact", u>> /\ P[2] = <<"hide?", u>> /\ P[3] = <<"save", u>>
      BY <1>1, <3>0, Programs
    <3>2. l \in 1..3 /\ h = P[4 - l]
      BY <1>1, <1>4, <3>1
    <3> QED BY <1>1, <2>3, <3>1, <3>2 DEF Ready
  <2>4. CASE t.op = "block"
    <3>0. P = Program("block", u)
      BY <1>3, <2>4
    <3>1. /\ Len(P) = 10
          /\ P[1] = <<"block", u>> /\ P[2] = <<"bust", u>> /\ P[3] = <<"uncontact", u>>
          /\ P[4] = <<"hide?", u>> /\ P[5] = <<"save", u>> /\ P[6] = <<"uncontact", Peer(u)>>
          /\ P[7] = <<"hide?", Peer(u)>> /\ P[8] = <<"save", Peer(u)>> /\ P[9] = <<"archive?", u>>
          /\ P[10] = <<"save", u>>
      BY <1>1, <3>0, Programs
    <3>2. l \in 1..10 /\ h = P[11 - l]
      BY <1>1, <1>4, <3>1
    <3> QED BY <1>1, <2>4, <3>1, <3>2 DEF Ready
  <2>5. CASE t.op = "unblock"
    <3>0. P = Program("unblock", u)
      BY <1>3, <2>5
    <3>1. /\ Len(P) = 2
          /\ P[1] = <<"unblock", u>> /\ P[2] = <<"bust", u>>
      BY <1>1, <3>0, Programs
    <3>2. l \in 1..2 /\ h = P[3 - l]
      BY <1>1, <1>4, <3>1
    <3> QED BY <1>1, <2>5, <3>1, <3>2 DEF Ready
  <2>6. CASE t.op = "send"
    <3>0. P = Program("send", u)
      BY <1>3, <2>6
    <3>1. /\ Len(P) = 5
          /\ P[1] = <<"member", u>> /\ P[2] = <<"check", u>> /\ P[3] = <<"post", u>>
          /\ P[4] = <<"bump?", u>> /\ P[5] = <<"save", u>>
      BY <1>1, <3>0, Programs
    <3>2. l \in 1..5 /\ h = P[6 - l]
      BY <1>1, <1>4, <3>1
    <3> QED BY <1>1, <2>6, <3>1, <3>2 DEF Ready
  <2>7. CASE t.op = "delete"
    <3>0. P = Program("delete", u)
      BY <1>3, <2>7
    <3>1. /\ Len(P) = 3
          /\ P[1] = <<"member", u>> /\ P[2] = <<"wipe", u>> /\ P[3] = <<"drop", u>>
      BY <1>1, <3>0, Programs
    <3>2. l \in 1..3 /\ h = P[4 - l]
      BY <1>1, <1>4, <3>1
    <3> QED BY <1>1, <2>7, <3>1, <3>2 DEF Ready
  <2>8. CASE t.op = "list"
    <3>0. P = Program("list", u)
      BY <1>3, <2>8
    <3>1. /\ Len(P) = 3
          /\ P[1] = <<"cached", u>> /\ P[2] = <<"load", u>> /\ P[3] = <<"fill", u>>
      BY <1>1, <3>0, Programs
    <3>2. l \in 1..3 /\ h = P[4 - l]
      BY <1>1, <1>4, <3>1
    <3> QED BY <1>1, <2>8, <3>1, <3>2 DEF Ready
  <2> QED BY <1>1, <2>1, <2>2, <2>3, <2>4, <2>5, <2>6, <2>7, <2>8 DEF Ops, Writes
<1>5. ASSUME t.op \in {"follow", "open"}, l = 1, h[1] \in {"direct", "save"} PROVE Ready(t.op, u, l, h[1], h[2])
  BY <1>5 DEF Ready
<1>6. Ready(t.op, u, l, h[1], h[2])
  BY <1>2, <1>4, <1>5
<1> QED BY <1>1, <1>6 DEF u, l, h

-----------------------------------------------------------------------------
(* How a handler goes on *)

(* One handler moves, to a place of its program. *)
Kept(r) ==
    /\ task' \in [Requests -> Handler]
    /\ \A q \in Requests \ {r} : task'[q] = task[q]
    /\ Placed(task'[r])
    /\ task'[r].todo = <<>> => task'[r] = Idle

(* n accesses further, if it has more *)
Onward(r, n) ==
    /\ Kept(r)
    /\ IF Len(task[r].todo) <= n THEN task'[r] = Idle
       ELSE /\ task'[r].op = task[r].op /\ task'[r].by = task[r].by
            /\ Len(task'[r].todo) = Len(task[r].todo) - n

LEMMA Tails ==
    ASSUME NEW S, NEW s \in Seq(S), NEW i \in 2..Len(s)
    PROVE  LET rest == SubSeq(s, i, Len(s))
           IN  /\ i \in Nat /\ Len(s) \in Nat /\ Len(s) >= 2
               /\ rest \in Seq(S) /\ rest # <<>> /\ Len(rest) = Len(s) - i + 1
               /\ \A j \in 1..Len(rest) : rest[j] = s[(i - 1) + j]
<1> DEFINE n == Len(s)
           rest == SubSeq(s, i, Len(s))
<1>1. n \in Nat /\ i \in Nat /\ 2 <= i /\ i <= n /\ \A j \in i..n : s[j] \in S
  BY LenProperties
<1>2. /\ rest \in Seq(S) /\ Len(rest) = IF i <= n THEN n - i + 1 ELSE 0
      /\ \A j \in 1..(n - i + 1) : rest[j] = s[i + j - 1]
  BY <1>1, SubSeqProperties
<1> HIDE DEF n, rest
<1>3. n >= 2 /\ Len(rest) = n - i + 1 /\ Len(rest) # 0
  BY <1>1, <1>2
<1>4. rest # <<>>
  BY <1>3
<1>5. ASSUME NEW j \in 1..Len(rest) PROVE rest[j] = s[(i - 1) + j]
  <2>1. j \in Int /\ j \in 1..(n - i + 1)
    BY <1>1, <1>3
  <2>2. i + j - 1 = (i - 1) + j
    BY <1>1, <2>1
  <2> QED BY <1>2, <2>1, <2>2
<1> QED BY <1>1, <1>2, <1>3, <1>4, <1>5 DEF n, rest

(* A handler t that goes on to its i-th access. *)
From(t, i, d, l) == [t EXCEPT !.todo = SubSeq(t.todo, i, Len(t.todo)), !.draft = d, !.loaded = l]

LEMMA Cut ==
    ASSUME NEW t \in Handler, Placed(t), NEW i \in 2..Len(t.todo), NEW d \in Drafts, NEW l \in SUBSET Users
    PROVE  /\ From(t, i, d, l) \in Handler /\ Placed(From(t, i, d, l))
           /\ From(t, i, d, l).todo # <<>>
           /\ Len(From(t, i, d, l).todo) = Len(t.todo) - i + 1
           /\ From(t, i, d, l).op = t.op /\ From(t, i, d, l).by = t.by
           /\ Len(t.todo) # 1
<1> DEFINE all == Program(t.op, t.by)
           todo == t.todo
           n == Len(todo)
           rest == SubSeq(todo, i, n)
           new == [t EXCEPT !.todo = rest, !.draft = d, !.loaded = l]
<1>1. todo \in Seq(Steps \X Users) /\ n \in Nat /\ DOMAIN todo = 1..n /\ t # Idle
  BY DEF Handler, Idle
<1>2. /\ i \in Nat /\ 2 <= i /\ i <= n /\ n # 1
      /\ rest \in Seq(Steps \X Users) /\ rest # <<>> /\ Len(rest) = n - i + 1 /\ DOMAIN rest = 1..Len(rest)
      /\ \A j \in 1..Len(rest) : rest[j] = todo[(i - 1) + j]
  <2> HIDE DEF todo
  <2>1. i \in Nat /\ n >= 2 /\ n \in Nat
    BY <1>1, Tails DEF todo
  <2>2. 2 <= i /\ i <= n
    BY <1>1, <2>1 DEF todo
  <2>3. /\ rest \in Seq(Steps \X Users) /\ rest # <<>> /\ Len(rest) = n - i + 1
        /\ \A j \in 1..Len(rest) : rest[j] = todo[(i - 1) + j]
    BY <1>1, <2>1, <2>2, Tails
  <2> HIDE DEF rest, n
  <2> QED BY <2>1, <2>2, <2>3
<1>3. t.op \in Ops /\ t.by \in Users /\ Len(all) \in Nat
  BY <1>1, Programs DEF Placed, Ops, Writes
<1>4. n <= Len(all) /\ \A j \in 1..n : todo[j] = all[(Len(all) - n) + j]
  BY <1>1, <1>2 DEF Placed
<1>5. new \in Handler /\ new.todo = rest /\ new.op = t.op /\ new.by = t.by
  BY <1>2 DEF Handler
<1> HIDE DEF all, rest, todo, n, new
<1>6. Len(rest) <= Len(all) /\ \A j \in DOMAIN rest : rest[j] = all[(Len(all) - Len(rest)) + j]
  <2>1. ASSUME NEW j \in 1..Len(rest) PROVE rest[j] = all[(Len(all) - Len(rest)) + j]
    <3>1. j \in Nat /\ (i - 1) + j \in 1..n
      BY <1>1, <1>2
    <3>2. rest[j] = all[(Len(all) - n) + ((i - 1) + j)]
      BY <1>2, <1>4, <3>1
    <3>3. (Len(all) - n) + ((i - 1) + j) = (Len(all) - Len(rest)) + j
      BY <1>1, <1>2, <1>3, <3>1
    <3> QED BY <3>2, <3>3
  <2> QED BY <1>1, <1>2, <1>3, <1>4, <2>1, SMTT(30)
<1>7. Placed(new)
  BY <1>2, <1>3, <1>5, <1>6 DEF Placed, all
<1>8. new = From(t, i, d, l)
  BY DEF From, new, rest, todo, n
<1> QED BY <1>2, <1>5, <1>7, <1>8 DEF todo, n

LEMMA IdleIsHandler == Idle \in Handler /\ Placed(Idle)
<1>1. <<>> \in Drafts
  <2>1. <<>> \in [{} -> BOOLEAN]
    OBVIOUS
  <2>2. {} \in SUBSET Fields
    OBVIOUS
  <2> QED BY <2>1, <2>2 DEF Drafts
<1> QED BY <1>1 DEF Idle, Handler, Placed

LEMMA Ends ==
    ASSUME Sound, NEW r \in Requests, End(r)
    PROVE  Kept(r) /\ task'[r] = Idle
BY IdleIsHandler DEF Sound, TypeOK, Handler, Drafts, End, Kept

LEMMA Skips ==
    ASSUME Sound, NEW r \in Requests, task[r].todo # <<>>, NEW n \in {0, 1},
           NEW d \in Drafts, NEW l \in SUBSET Users, Skipping(r, n, d, l)
    PROVE  Onward(r, n + 1)
<1>1. /\ task \in [Requests -> Handler] /\ task[r] \in Handler /\ Placed(task[r])
      /\ Len(task[r].todo) \in Nat \ {0} /\ task[r].todo \in Seq(Steps \X Users)
  BY DEF Sound, TypeOK, Handler, Drafts
<1> DEFINE rest == SubSeq(task[r].todo, n + 2, Len(task[r].todo))
           new == From(task[r], n + 2, d, l)
<1>2. task' = [task EXCEPT ![r] = IF rest = <<>> THEN Idle ELSE new]
  BY <1>1 DEF Skipping, From
<1>3. CASE Len(task[r].todo) <= n + 1
  <2>1. rest = <<>>
    BY <1>1, <1>3
  <2>2. End(r)
    BY <1>2, <2>1 DEF End
  <2> QED BY <1>3, <2>2, Ends DEF Onward
<1>4. CASE Len(task[r].todo) > n + 1
  <2>1. n + 2 \in 2..Len(task[r].todo)
    BY <1>1, <1>4
  <2>2. /\ new \in Handler /\ Placed(new) /\ new.todo # <<>>
        /\ Len(new.todo) = Len(task[r].todo) - (n + 2) + 1
        /\ new.op = task[r].op /\ new.by = task[r].by
    <3>1. ASSUME NEW i \in 2..Len(task[r].todo)
          PROVE  LET t == From(task[r], i, d, l)
                 IN  /\ t \in Handler /\ Placed(t) /\ t.todo # <<>>
                     /\ Len(t.todo) = Len(task[r].todo) - i + 1
                     /\ t.op = task[r].op /\ t.by = task[r].by
      BY <1>1, Cut
    <3> QED BY <2>1, <3>1
  <2>3. new.todo = rest
    BY <1>1 DEF From, Handler
  <2> HIDE DEF rest, new
  <2>4. task' = [task EXCEPT ![r] = new]
    BY <1>2, <2>2, <2>3
  <2>5. Len(new.todo) = Len(task[r].todo) - (n + 1) /\ ~(Len(task[r].todo) <= n + 1)
    BY <1>1, <1>4, <2>2
  <2> QED BY <1>1, <2>2, <2>4, <2>5 DEF Onward, Kept
<1> QED BY <1>1, <1>3, <1>4

(* A throw ends a handler, or takes afterBlock to its second half. *)
LEMMA Throws ==
    ASSUME Sound, NEW r \in Requests, task[r].todo # <<>>, Throw(r)
    PROVE  /\ Kept(r)
           /\ Len(task[r].todo) = 1 => task'[r] = Idle
           /\ task'[r] = Idle \/ (task'[r].op = task[r].op /\ task'[r].by = task[r].by)
<1>1. /\ task \in [Requests -> Handler] /\ task[r] \in Handler /\ Placed(task[r])
      /\ Len(task[r].todo) \in Nat \ {0} /\ task[r].todo \in Seq(Steps \X Users)
  BY DEF Sound, TypeOK, Handler, Drafts
<1> DEFINE t == task[r].todo
           ahead == {i \in 2..Len(t) : t[i][1] = "archive?"}
<1>2. CASE ahead = {}
  BY <1>2, Ends DEF Throw
<1>3. CASE ahead # {}
  <2>1. PICK i \in 2..Len(t) : task' = [task EXCEPT ![r].todo = SubSeq(t, i, Len(t)), ![r].draft = <<>>]
    BY <1>3 DEF Throw, Goto
  <2> DEFINE new == From(task[r], i, <<>>, task[r].loaded)
  <2>2. <<>> \in Drafts /\ task[r].loaded \in SUBSET Users
    BY <1>1, IdleIsHandler DEF Idle, Handler
  <2>3. /\ new \in Handler /\ Placed(new) /\ new.todo # <<>>
        /\ new.op = task[r].op /\ new.by = task[r].by /\ Len(task[r].todo) # 1
    BY <1>1, <2>1, <2>2, Cut
  <2>4. task' = [task EXCEPT ![r] = new]
    BY <1>1, <2>1 DEF From, Handler
  <2> HIDE DEF new
  <2> QED BY <1>1, <2>3, <2>4 DEF Kept
<1> QED BY <1>2, <1>3

(* The same for the steps of a handler that have no choice. *)
LEMMA Thens ==
    ASSUME Sound, NEW r \in Requests, task[r].todo # <<>>, Then(r)
    PROVE  Onward(r, 1)
<1>1. <<>> \in Drafts /\ {} \in SUBSET Users
  BY IdleIsHandler DEF Idle, Handler
<1>2. Skipping(r, 0, <<>>, {})
  BY DEF Then
<1>3. Onward(r, 0 + 1)
  BY <1>1, <1>2, Skips
<1> QED BY <1>3

LEMMA Skip1 ==
    ASSUME Sound, NEW r \in Requests, task[r].todo # <<>>, Skipping(r, 1, <<>>, {})
    PROVE  Onward(r, 2)
<1>1. <<>> \in Drafts /\ {} \in SUBSET Users
  BY IdleIsHandler DEF Idle, Handler
<1>3. Onward(r, 1 + 1)
  BY <1>1, Skips
<1> QED BY <1>3

LEMMA ThenSaves ==
    ASSUME Sound, NEW r \in Requests, task[r].todo # <<>>, NEW f, NEW u, NEW b \in BOOLEAN,
           <<f, u>> \in Fields, ThenSave(r, Set(f, u, b))
    PROVE  Onward(r, 1)
<1>1. Set(f, u, b) \in Drafts /\ {} \in SUBSET Users
  <2>1. {<<f, u>>} \in SUBSET Fields /\ Set(f, u, b) \in [{<<f, u>>} -> BOOLEAN]
    BY DEF Set
  <2> QED BY <2>1 DEF Drafts
<1>2. Skipping(r, 0, Set(f, u, b), {})
  BY DEF ThenSave
<1>3. Onward(r, 0 + 1)
  BY <1>1, <1>2, Skips
<1> QED BY <1>3

(* The chat is to be created, or both are to be brought back to it. *)
LEMMA Directs ==
    ASSUME Sound, NEW r \in Requests, findDirect(r)
    PROVE  /\ Kept(r) /\ task'[r].op = task[r].op /\ task'[r].op \in {"follow", "open"}
           /\ task'[r].by = task[r].by /\ Len(task'[r].todo) = 1
<1>1. /\ task \in [Requests -> Handler] /\ task[r] \in Handler /\ Placed(task[r]) /\ task[r] # Idle
      /\ Head(task[r].todo)[1] = "direct?"
  BY DEF Sound, TypeOK, Handler, Drafts, findDirect, At, Idle
<1>2. /\ task[r].by \in Users /\ Head(task[r].todo) \in Steps \X Users
      /\ task[r].op \in {"follow", "open"}
  BY <1>1, NextAccess DEF Ready
<1> DEFINE away == {<<"left", v>> : v \in {w \in Users : ~Active(w)}}
           back == [f \in away |-> FALSE]
<1>3. <<>> \in Drafts /\ back \in Drafts
  <2>1. away \in SUBSET Fields /\ back \in [away -> BOOLEAN]
    BY DEF Fields
  <2> QED BY <2>1, IdleIsHandler DEF Idle, Handler, Drafts
<1>4. PICK step \in {"direct", "save"}, d \in Drafts :
         task' = [task EXCEPT ![r].todo = <<<<step, Who(r)>>>>, ![r].draft = d]
  BY <1>3 DEF findDirect, Goto
<1> DEFINE todo == <<<<step, Who(r)>>>>
           new == [task[r] EXCEPT !.todo = todo, !.draft = d]
<1>5. task' = [task EXCEPT ![r] = new]
  BY <1>1, <1>4 DEF Handler
<1>6. /\ todo \in Seq(Steps \X Users) /\ todo # <<>> /\ Len(todo) = 1
      /\ todo[1] \in {"direct", "save"} \X Users
  BY <1>2 DEF Steps, Who
<1> HIDE DEF todo
<1>7. new \in Handler /\ new.todo = todo /\ new.op = task[r].op /\ new.by = task[r].by
  BY <1>1, <1>4, <1>6 DEF Handler
<1> HIDE DEF new
<1>8. Placed(new)
  BY <1>2, <1>6, <1>7 DEF Placed, Ops, Writes
<1> QED BY <1>1, <1>2, <1>5, <1>6, <1>7, <1>8 DEF Kept

-----------------------------------------------------------------------------
(* Types *)

(* A handler that steps has an access left, its own or on behalf of the pair. *)
LEMMA AtStep ==
    ASSUME Sound, NEW r \in Requests, task[r].todo # <<>>
    PROVE  /\ task \in [Requests -> Handler] /\ task[r] \in Handler /\ Placed(task[r]) /\ task[r] # Idle
           /\ task[r].by \in Users /\ task[r].op \in Ops
           /\ Len(task[r].todo) \in Nat \ {0} /\ Head(task[r].todo) \in Steps \X Users
           /\ Ready(task[r].op, task[r].by, Len(task[r].todo), Head(task[r].todo)[1], Head(task[r].todo)[2])
           /\ Who(r) \in Users /\ Peer(Who(r)) \in Users /\ Peer(Who(r)) # Who(r)
<1>1. task \in [Requests -> Handler] /\ task[r] \in Handler /\ Placed(task[r]) /\ task[r] # Idle
  BY DEF Sound, TypeOK, Handler, Drafts, Idle
<1>2. /\ task[r].by \in Users /\ task[r].op \in Ops
      /\ Len(task[r].todo) \in Nat \ {0} /\ Head(task[r].todo) \in Steps \X Users
      /\ Ready(task[r].op, task[r].by, Len(task[r].todo), Head(task[r].todo)[1], Head(task[r].todo)[2])
  BY <1>1, NextAccess
<1> QED BY <1>1, <1>2, Two DEF Who

LEMMA Paths ==
    ASSUME Sound, NEW r \in Requests, Step(r)
    PROVE  /\ task[r].todo # <<>> /\ Kept(r)
           /\ task'[r] = Idle \/ (task'[r].op = task[r].op /\ task'[r].by = task[r].by)
<1>0. task[r].todo # <<>>
  BY DEF Step, At, check, findContact, createContact, deleteContact, findDirect, insertDirect,
     hideDirectIfEmpty, archiveDirectBetween, save, loadMember, post, bumpFromMessage, deleteMessages,
     deleteChat, createBlock, deleteBlock, bustRestricted, cacheGet, loadRestricted, cacheSet
<1>1. Who(r) \in Users
  BY <1>0, AtStep
<1>2. CASE Then(r) \/ End(r) \/ Skipping(r, 1, <<>>, {}) \/ Throw(r)
  BY <1>0, <1>2, Thens, Ends, Skip1, Throws DEF Onward
<1>3. CASE hideDirectIfEmpty(r) \/ archiveDirectBetween(r) \/ bumpFromMessage(r)
  <2>1. \A f \in {"left", "archived"} : <<f, Who(r)>> \in Fields
    BY <1>1 DEF Fields
  <2>2. <<"last", None>> \in Fields
    BY DEF Fields
  <2>3. \/ \E f \in {"left", "archived"} : ThenSave(r, Set(f, Who(r), TRUE))
        \/ ThenSave(r, Set("last", None, TRUE))
        \/ End(r) \/ Skipping(r, 1, <<>>, {})
    BY <1>3 DEF hideDirectIfEmpty, archiveDirectBetween, bumpFromMessage
  <2> QED BY <1>0, <1>2, <2>1, <2>2, <2>3, ThenSaves DEF Onward
<1>4. CASE loadRestricted(r)
  <2>1. Restricted(Who(r)) \in SUBSET Users /\ <<>> \in Drafts
    BY IdleIsHandler DEF Restricted, Idle, Handler
  <2>2. Skipping(r, 0, <<>>, Restricted(Who(r)))
    BY <1>4 DEF loadRestricted
  <2>3. Onward(r, 0 + 1)
    BY <1>0, <2>1, <2>2, Skips
  <2> QED BY <1>0, <2>3 DEF Onward
<1>5. CASE findDirect(r)
  BY <1>0, <1>5, Directs
<1>6. ASSUME ~(hideDirectIfEmpty(r) \/ archiveDirectBetween(r) \/ bumpFromMessage(r) \/ loadRestricted(r) \/ findDirect(r))
      PROVE  Then(r) \/ End(r) \/ Skipping(r, 1, <<>>, {}) \/ Throw(r)
  BY <1>6 DEF Step, check, findContact, createContact, deleteContact, insertDirect, save, loadMember, post,
     deleteMessages, deleteChat, createBlock, deleteBlock, bustRestricted, cacheGet, cacheSet
<1> QED BY <1>2, <1>3, <1>4, <1>5, <1>6

LEMMA RowsTyped ==
    ASSUME Sound, NEW r \in Requests, Step(r)
    PROVE  /\ contacts' \subseteq Pairs /\ blocks' \subseteq Pairs
           /\ chat' \in [Fields -> BOOLEAN] \cup {None}
           /\ posts' \in 0..MaxPosts
           /\ cache' \in [Users -> (SUBSET Users) \cup {None}]
           /\ stale' \subseteq Users /\ raced' = raced
<1>0. /\ task[r] \in Handler /\ <<Who(r), Peer(Who(r))>> \in Pairs /\ Who(r) \in Users
      /\ MaxPosts \in Nat
  BY Paths, AtStep, ContactsAssumption DEF Pairs
<1>1. contacts' \subseteq Pairs /\ raced' = raced
  BY <1>0 DEF Sound, TypeOK, rows, Step, check, findContact, createContact, deleteContact, findDirect, insertDirect,
     hideDirectIfEmpty, archiveDirectBetween, save, loadMember, post, bumpFromMessage, deleteMessages,
     deleteChat, createBlock, deleteBlock, bustRestricted, cacheGet, loadRestricted, cacheSet
<1>2. blocks' \subseteq Pairs
  BY <1>0 DEF Sound, TypeOK, rows, Step, check, findContact, createContact, deleteContact, findDirect, insertDirect,
     hideDirectIfEmpty, archiveDirectBetween, save, loadMember, post, bumpFromMessage, deleteMessages,
     deleteChat, createBlock, deleteBlock, bustRestricted, cacheGet, loadRestricted, cacheSet
<1>3. chat' \in [Fields -> BOOLEAN] \cup {None}
  <2>1. CASE save(r)
    <3>1. CASE chat = None
      BY <2>1, <3>1 DEF save
    <3>2. CASE chat # None
      <4>1. PICK S \in SUBSET Fields : task[r].draft \in [S -> BOOLEAN]
        BY <1>0 DEF Handler, Drafts
      <4>2. chat \in [Fields -> BOOLEAN]
        BY <3>2 DEF Sound, TypeOK
      <4>3. chat' = [f \in Fields |-> IF f \in DOMAIN task[r].draft THEN task[r].draft[f] ELSE chat[f]]
        BY <2>1, <3>2 DEF save
      <4> QED BY <4>1, <4>2, <4>3
    <3> QED BY <3>1, <3>2
  <2>2. CASE insertDirect(r)
    BY <2>2 DEF Sound, TypeOK, insertDirect
  <2>3. CASE deleteChat(r)
    BY <2>3 DEF deleteChat
  <2>4. CASE ~(save(r) \/ insertDirect(r) \/ deleteChat(r))
    BY <2>4 DEF Sound, TypeOK, rows, Step, check, findContact, createContact, deleteContact, findDirect,
       hideDirectIfEmpty, archiveDirectBetween, loadMember, post, bumpFromMessage, deleteMessages,
       createBlock, deleteBlock, bustRestricted, cacheGet, loadRestricted, cacheSet
  <2> QED BY <2>1, <2>2, <2>3, <2>4
<1>4. posts' \in 0..MaxPosts
  <2>1. CASE post(r)
    BY <1>0, <2>1 DEF Sound, TypeOK, post
  <2>2. CASE deleteMessages(r)
    BY <1>0, <2>2 DEF deleteMessages
  <2>3. CASE ~(post(r) \/ deleteMessages(r))
    BY <2>3 DEF Sound, TypeOK, rows, Step, check, findContact, createContact, deleteContact, findDirect,
       insertDirect, hideDirectIfEmpty, archiveDirectBetween, save, loadMember, bumpFromMessage,
       deleteChat, createBlock, deleteBlock, bustRestricted, cacheGet, loadRestricted, cacheSet
  <2> QED BY <2>1, <2>2, <2>3
<1>5. cache' \in [Users -> (SUBSET Users) \cup {None}] /\ stale' \subseteq Users
  <2>1. CASE cacheSet(r)
    <3>1. task[r].loaded \in SUBSET Users
      BY <1>0 DEF Handler
    <3> QED BY <1>0, <2>1, <3>1 DEF Sound, TypeOK, cacheSet
  <2>2. CASE bustRestricted(r)
    BY <2>2 DEF Sound, TypeOK, bustRestricted
  <2>3. CASE ~(cacheSet(r) \/ bustRestricted(r))
    BY <2>3 DEF Sound, TypeOK, rows, Step, check, findContact, createContact, deleteContact, findDirect, insertDirect,
       hideDirectIfEmpty, archiveDirectBetween, save, loadMember, post, bumpFromMessage, deleteMessages,
       deleteChat, createBlock, deleteBlock, cacheGet, loadRestricted
  <2> QED BY <2>1, <2>2, <2>3
<1> QED BY <1>1, <1>2, <1>3, <1>4, <1>5

(* A request is at the beginning of its program. *)
LEMMA Begins ==
    ASSUME Sound, NEW r \in Requests, NEW op \in Ops, NEW u \in Users, Begin(r, op, u)
    PROVE  /\ Kept(r) /\ task[r] = Idle
           /\ task'[r].op = op /\ task'[r].by = u /\ task'[r].todo = Program(op, u)
           /\ UNCHANGED <<contacts, blocks, chat, posts, cache, stale>>
<1> DEFINE new == [Idle EXCEPT !.op = op, !.by = u, !.todo = Program(op, u)]
<1>1. /\ task \in [Requests -> Handler] /\ task[r] = Idle /\ task' = [task EXCEPT ![r] = new]
      /\ UNCHANGED <<contacts, blocks, chat, posts, cache, stale>>
  BY DEF Sound, TypeOK, Handler, Drafts, Begin, rows
<1>2. Program(op, u) \in Seq(Steps \X Users) /\ Program(op, u) # <<>> /\ Len(Program(op, u)) \in Nat
  <2>1. Program(op, u) \in Seq(Steps \X Users) /\ Len(Program(op, u)) \in {2, 3, 5, 10}
    BY Programs DEF Ops, Writes
  <2> QED BY <2>1
<1>3. new \in Handler /\ new.op = op /\ new.by = u /\ new.todo = Program(op, u)
  BY <1>2, IdleIsHandler DEF Idle, Handler, Ops, Writes
<1> HIDE DEF new
<1>4. Placed(new)
  <2> DEFINE P == Program(op, u)
  <2>1. \A i \in DOMAIN P : i \in Nat
    BY <1>2
  <2> HIDE DEF P
  <2>2. \A i \in DOMAIN P : (Len(P) - Len(P)) + i = i
    BY <1>2, <2>1 DEF P
  <2> QED BY <1>2, <1>3, <2>2 DEF Placed, P
<1> QED BY <1>1, <1>2, <1>3, <1>4 DEF Kept

LEMMA Typed ==
    ASSUME Sound, [Next]_vars
    PROVE  Sound'
<1>0. /\ task \in [Requests -> Handler] /\ raced \in BOOLEAN
      /\ \A q \in Requests : Placed(task[q]) /\ (task[q].todo = <<>> => task[q] = Idle)
  BY DEF Sound, TypeOK, Handler, Drafts
<1>1. ASSUME NEW r \in Requests, Kept(r)
      PROVE  /\ task' \in [Requests -> Handler]
             /\ \A q \in Requests : Placed(task'[q]) /\ (task'[q].todo = <<>> => task'[q] = Idle)
  BY <1>0, <1>1 DEF Kept
<1>2. ASSUME NEW r \in Requests, Step(r) PROVE Sound'
  BY <1>0, <1>1, <1>2, Paths, RowsTyped DEF Sound, TypeOK, Handler, Drafts
<1>3. ASSUME NEW r \in Requests, NEW op \in Ops, NEW u \in Users, Begin(r, op, u) PROVE Sound'
  <2>1. raced' \in BOOLEAN
    BY <1>0, <1>3 DEF Begin
  <2> QED BY <1>1, <1>3, <2>1, Begins DEF Sound, TypeOK, Handler, Drafts
<1>4. ASSUME NEW u \in Users, Expire(u) PROVE Sound'
  BY <1>4 DEF Expire, rows, Sound, TypeOK, Handler, Drafts
<1>5. CASE UNCHANGED vars
  BY <1>5 DEF vars, rows, Sound, TypeOK
<1> QED BY <1>2, <1>3, <1>4, <1>5 DEF Next

-----------------------------------------------------------------------------
(* The caches *)

LEMMA CacheStep ==
    ASSUME Sound, CacheSound, [Next]_vars
    PROVE  CacheSound'
<1>0. task \in [Requests -> Handler]
  BY DEF Sound, TypeOK, Handler, Drafts
<1>1. ASSUME NEW r \in Requests, Step(r) PROVE CacheSound'
  <2>1. task[r].todo # <<>> /\ \A q \in Requests \ {r} : task'[q] = task[q]
    BY <1>1, Paths DEF Kept
  <2>2. Ready(task[r].op, task[r].by, Len(task[r].todo), Head(task[r].todo)[1], Head(task[r].todo)[2])
    BY <2>1, AtStep
  (* After a change comes the drop. *)
  <2>3. ASSUME Then(r), At(r, "block") \/ At(r, "unblock") PROVE At(r, "bust")'
    <3>1. \/ task[r].op = "block" /\ Len(task[r].todo) = 10
          \/ task[r].op = "unblock" /\ Len(task[r].todo) = 2
      <4> DEFINE op == task[r].op
                 l == Len(task[r].todo)
                 n == Head(task[r].todo)[1]
                 v == Head(task[r].todo)[2]
      <4>1. Ready(op, task[r].by, l, n, v) /\ n \in {"block", "unblock"}
        BY <2>2, <2>3 DEF At
      <4> HIDE DEF op, l, n, v
      <4>2. (op = "block" /\ l = 10) \/ (op = "unblock" /\ l = 2)
        BY <4>1, Where
      <4> QED BY <4>2 DEF op, l
    <3>2. \/ task'[r].op = "block" /\ Len(task'[r].todo) = 9
          \/ task'[r].op = "unblock" /\ Len(task'[r].todo) = 1
      <4>1. Onward(r, 1) /\ 10 - 1 = 9 /\ 2 - 1 = 1 /\ ~(10 <= 1) /\ ~(2 <= 1)
        BY <2>1, <2>3, Thens
      <4> QED BY <3>1, <4>1 DEF Onward
    <3>3. task'[r] \in Handler /\ Placed(task'[r]) /\ task'[r] # Idle
      BY <1>1, <3>2, Paths DEF Kept, Idle
    <3>4. Ready(task'[r].op, task'[r].by, Len(task'[r].todo), Head(task'[r].todo)[1], Head(task'[r].todo)[2])
      BY <3>3, NextAccess
    <3>5. Head(task'[r].todo)[1] = "bust"
      <4> DEFINE op == task'[r].op
                 l == Len(task'[r].todo)
                 n == Head(task'[r].todo)[1]
                 v == Head(task'[r].todo)[2]
      <4>1. Ready(op, task'[r].by, l, n, v) /\ ((op = "block" /\ l = 9) \/ (op = "unblock" /\ l = 1))
        BY <3>2, <3>4
      <4> HIDE DEF op, l, n, v
      <4>2. n = "bust"
        BY <4>1, Where
      <4> QED BY <4>2 DEF n
    <3>6. task'[r].todo # <<>>
      BY <3>3 DEF Placed
    <3> QED BY <3>5, <3>6 DEF At
  <2>4. CASE createBlock(r) \/ deleteBlock(r)
    <3>1. CASE blocks' = blocks /\ End(r)
      <4>1. \A q \in Requests \ {r} : At(q, "bust")' <=> At(q, "bust")
        BY <2>1 DEF At
      <4>2. ~At(r, "bust")
        BY <2>4 DEF createBlock, deleteBlock, At
      <4> QED BY <2>4, <3>1, <4>1, <4>2 DEF CacheSound, Restricted, createBlock, deleteBlock
    <3>2. CASE Then(r)
      BY <2>3, <2>4, <3>2 DEF CacheSound, createBlock, deleteBlock
    <3> QED BY <2>4, <3>1, <3>2 DEF createBlock, deleteBlock
  <2>5. CASE bustRestricted(r)
    BY <2>5 DEF bustRestricted, CacheSound
  <2>6. CASE ~(createBlock(r) \/ deleteBlock(r) \/ bustRestricted(r))
    <3>1. ~At(r, "bust") /\ blocks' = blocks
      BY <1>1, <2>6 DEF rows, Step, check, findContact, createContact, deleteContact, findDirect, insertDirect,
         hideDirectIfEmpty, archiveDirectBetween, save, loadMember, post, bumpFromMessage, deleteMessages,
         deleteChat, cacheGet, loadRestricted, cacheSet, At
    <3>2. \A q \in Requests : At(q, "bust") => At(q, "bust")'
      BY <2>1, <3>1 DEF At
    <3>3. \A u \in Users : Restricted(u)' = Restricted(u)
      BY <3>1 DEF Restricted
    <3>4. CASE cacheSet(r)
      <4>1. Who(r) \in Users /\ cache \in [Users -> (SUBSET Users) \cup {None}]
        BY <2>1, AtStep DEF Sound, TypeOK
      <4>2. /\ cache' = [cache EXCEPT ![Who(r)] = task[r].loaded]
            /\ stale' = IF task[r].loaded = Restricted(Who(r)) THEN stale \ {Who(r)} ELSE stale \cup {Who(r)}
        BY <3>4 DEF cacheSet
      <4> QED BY <3>2, <3>3, <4>1, <4>2 DEF CacheSound
    <3>5. CASE ~cacheSet(r)
      <4>1. UNCHANGED <<cache, stale>>
        BY <1>1, <2>6, <3>5 DEF rows, Step, check, findContact, createContact, deleteContact, findDirect, insertDirect,
           hideDirectIfEmpty, archiveDirectBetween, save, loadMember, post, bumpFromMessage, deleteMessages,
           deleteChat, cacheGet, loadRestricted
      <4> QED BY <3>2, <3>3, <4>1 DEF CacheSound
    <3> QED BY <3>4, <3>5
  <2> QED BY <2>4, <2>5, <2>6
<1>2. ASSUME NEW r \in Requests, NEW op \in Ops, NEW u \in Users, Begin(r, op, u) PROVE CacheSound'
  <2>1. /\ task[r] = Idle /\ UNCHANGED <<blocks, cache, stale>>
        /\ \A q \in Requests \ {r} : task'[q] = task[q]
    BY <1>2, Begins DEF Kept
  <2>2. \A q \in Requests : At(q, "bust") => At(q, "bust")'
    BY <2>1 DEF At, Idle
  <2> QED BY <2>1, <2>2 DEF CacheSound, Restricted
<1>3. ASSUME NEW u \in Users, Expire(u) PROVE CacheSound'
  <2>1. \A q \in Requests : At(q, "bust") => At(q, "bust")'
    BY <1>3 DEF Expire, At
  <2> QED BY <1>3, <2>1 DEF Expire, rows, CacheSound, Restricted, Sound, TypeOK
<1>4. CASE UNCHANGED vars
  BY <1>4 DEF vars, rows, CacheSound, Restricted, At
<1> QED BY <1>1, <1>2, <1>3, <1>4 DEF Next

-----------------------------------------------------------------------------
(* The only writer *)

(* The step it is at says which action it takes. *)
LEMMA Acts ==
    ASSUME NEW r \in Requests, Step(r)
    PROVE  /\ At(r, "check") => check(r)
           /\ At(r, "contact?") => findContact(r)
           /\ At(r, "contact") => createContact(r)
           /\ At(r, "uncontact") => deleteContact(r)
           /\ At(r, "direct?") => findDirect(r)
           /\ At(r, "direct") => insertDirect(r)
           /\ At(r, "hide?") => hideDirectIfEmpty(r)
           /\ At(r, "archive?") => archiveDirectBetween(r)
           /\ At(r, "save") => save(r)
           /\ At(r, "member") => loadMember(r)
           /\ At(r, "post") => post(r)
           /\ At(r, "bump?") => bumpFromMessage(r)
           /\ At(r, "wipe") => deleteMessages(r)
           /\ At(r, "drop") => deleteChat(r)
           /\ At(r, "block") => createBlock(r)
           /\ At(r, "unblock") => deleteBlock(r)
           /\ At(r, "bust") => bustRestricted(r)
           /\ At(r, "cached") => cacheGet(r)
           /\ At(r, "load") => loadRestricted(r)
           /\ At(r, "fill") => cacheSet(r)
<1> DEFINE n == Head(task[r].todo)[1]
<1>1. /\ check(r) => n = "check"
      /\ findContact(r) => n = "contact?"
      /\ createContact(r) => n = "contact"
      /\ deleteContact(r) => n = "uncontact"
      /\ findDirect(r) => n = "direct?"
      /\ insertDirect(r) => n = "direct"
      /\ hideDirectIfEmpty(r) => n = "hide?"
      /\ archiveDirectBetween(r) => n = "archive?"
      /\ save(r) => n = "save"
  BY DEF At, check, findContact, createContact, deleteContact, findDirect, insertDirect,
     hideDirectIfEmpty, archiveDirectBetween, save
<1>2. /\ loadMember(r) => n = "member"
      /\ post(r) => n = "post"
      /\ bumpFromMessage(r) => n = "bump?"
      /\ deleteMessages(r) => n = "wipe"
      /\ deleteChat(r) => n = "drop"
      /\ createBlock(r) => n = "block"
      /\ deleteBlock(r) => n = "unblock"
      /\ bustRestricted(r) => n = "bust"
      /\ cacheGet(r) => n = "cached"
      /\ loadRestricted(r) => n = "load"
      /\ cacheSet(r) => n = "fill"
  BY DEF At, loadMember, post, bumpFromMessage, deleteMessages, deleteChat, createBlock, deleteBlock,
     bustRestricted, cacheGet, loadRestricted, cacheSet
<1>3. \A x : At(r, x) => n = x
  BY DEF At
<1> HIDE DEF n
<1> QED BY <1>1, <1>2, <1>3 DEF Step

(* What concerns one writer: no blocked contact is left but one it is about *)
(* to remove itself, and what it found is still so.                         *)
Clear(r) == Blocked /\ contacts # {} => Left(r, "block") \in 5..9

Just(r) ==
    /\ Left(r, "follow") \in {3, 4} => ~Blocked
    /\ Left(r, "block") \in 5..7 => <<task[r].by, Peer(task[r].by)>> \notin contacts
    /\ Left(r, "block") \in {3, 6} => chat # None
    /\ At(r, "post") => ~Blocked \/ \E u \in Users : ~Active(u)

(* It goes on in its program, so "post" is a step of send alone. *)
LEMMA Ahead ==
    ASSUME Sound, NEW r \in Requests, Step(r)
    PROVE  /\ task'[r].op \in {task[r].op, "none"}
           /\ task'[r].op = "none" => task'[r] = Idle
           /\ task'[r].op = task[r].op => task'[r].by = task[r].by /\ task'[r] # Idle
           /\ At(r, "post")' => task'[r].op = "send" /\ Len(task'[r].todo) = 3
<1>1. /\ task[r].op \in Ops /\ Kept(r)
      /\ task'[r] = Idle \/ (task'[r].op = task[r].op /\ task'[r].by = task[r].by)
  BY AtStep, Paths
<1>2. "none" \notin Ops /\ Idle.op = "none" /\ Idle.todo = <<>>
  BY DEF Ops, Writes, Idle
<1>3. ASSUME At(r, "post")' PROVE task'[r].op = "send" /\ Len(task'[r].todo) = 3
  <2>1. task'[r] \in Handler /\ Placed(task'[r]) /\ task'[r] # Idle /\ Head(task'[r].todo)[1] = "post"
    BY <1>1, <1>2, <1>3 DEF At, Kept
  <2> DEFINE op == task'[r].op
             l == Len(task'[r].todo)
             v == Head(task'[r].todo)[2]
  <2>2. Ready(op, task'[r].by, l, "post", v)
    BY <2>1, NextAccess
  <2> HIDE DEF op, l, v
  <2>3. op = "send" /\ l = 3
    BY <2>2, Where
  <2> QED BY <2>3 DEF op, l
<1> QED BY <1>1, <1>2, <1>3

(* A handler that ends leaves nothing to claim but what it leaves behind. *)
LEMMA Finished ==
    ASSUME Sound, NEW r \in Requests, Step(r), task'[r] = Idle
    PROVE  Just(r)' /\ Left(r, "block")' = 0
<1>1. Idle.op = "none" /\ Idle.todo = <<>>
  BY DEF Idle
<1> QED BY <1>1 DEF Just, Left, At

(* The steps of follow: it looked for a block before it made the contact. *)
LEMMA Follows ==
    ASSUME Sound, NEW r \in Requests, Step(r), task[r].op = "follow", Clear(r), Just(r)
    PROVE  Clear(r)' /\ Just(r)'
<1> DEFINE l == Len(task[r].todo)
           n == Head(task[r].todo)[1]
<1>1. task[r].todo # <<>> /\ l \in Nat \ {0} /\ (\A x : n = x => At(r, x))
  BY Paths, AtStep DEF At
<1>2. \/ l \in {5, 2} /\ n = "check"
      \/ l = 4 /\ n = "contact?"
      \/ l = 3 /\ n = "contact"
      \/ l = 1 /\ n \in {"direct?", "direct", "save"}
  <2>1. Ready("follow", task[r].by, l, n, Head(task[r].todo)[2])
    BY <1>1, AtStep
  <2> HIDE DEF l, n
  <2> QED BY <2>1 DEF Ready
<1>3. Left(r, "block") = 0 /\ ~(Blocked /\ contacts # {}) /\ (l \in {3, 4} => ~Blocked)
  BY DEF Left, Clear, Just
<1>4. /\ task'[r].op \in {"follow", "none"} /\ Left(r, "block")' = 0 /\ ~At(r, "post")'
      /\ Left(r, "follow")' \in {0, Len(task'[r].todo)}
  BY Ahead DEF Left
<1> HIDE DEF l, n
<1>5. CASE l \in {5, 2} /\ n = "check"
  <2>1. check(r)
    BY <1>1, <1>5, Acts
  <2>2. UNCHANGED <<contacts, blocks>> /\ (task'[r] = Idle \/ ~Blocked)
    BY <2>1, Ends DEF check, rows
  <2> QED BY <1>3, <1>4, <2>2, Finished DEF Clear, Just, Blocked
<1>6. CASE l = 4 /\ n = "contact?"
  <2>1. findContact(r) /\ ~Blocked
    BY <1>1, <1>3, <1>6, Acts
  <2>2. UNCHANGED <<contacts, blocks>>
    BY <2>1 DEF findContact, rows
  <2> QED BY <1>4, <2>1, <2>2 DEF Clear, Just, Blocked
<1>7. CASE l = 3 /\ n = "contact"
  <2>1. createContact(r) /\ ~Blocked
    BY <1>1, <1>3, <1>7, Acts
  <2>2. blocks' = blocks
    BY <2>1 DEF createContact
  <2> QED BY <1>4, <2>1, <2>2 DEF Clear, Just, Blocked
<1>8. CASE l = 1 /\ n \in {"direct?", "direct", "save"}
  <2>1. findDirect(r) \/ insertDirect(r) \/ save(r)
    BY <1>1, <1>8, Acts
  <2>2. UNCHANGED <<contacts, blocks>>
    BY <2>1 DEF findDirect, insertDirect, save, rows
  <2>3. task'[r] = Idle \/ Len(task'[r].todo) = 1
    <3>1. CASE findDirect(r)
      BY <3>1, Directs
    <3>0. Len(task[r].todo) = 1 /\ 1 <= 1
      BY <1>8 DEF l
    <3>2. CASE End(r)
      BY <3>2, Ends
    <3>3. CASE Then(r)
      BY <1>1, <3>0, <3>3, Thens DEF Onward
    <3>4. CASE Throw(r)
      BY <1>1, <3>0, <3>4, Throws
    <3> QED BY <2>1, <3>1, <3>2, <3>3, <3>4 DEF insertDirect, save
  <2>4. CASE task'[r] = Idle
    BY <1>3, <1>4, <2>2, <2>4, Finished DEF Clear, Blocked
  <2>5. CASE Len(task'[r].todo) = 1
    <3>1. Left(r, "follow")' \notin {3, 4}
      BY <1>4, <2>5
    <3> QED BY <1>3, <1>4, <2>2, <3>1 DEF Clear, Just, Blocked
  <2> QED BY <2>3, <2>4, <2>5
<1> QED BY <1>2, <1>5, <1>6, <1>7, <1>8

(* The steps of open, unfollow, unblock and delete make neither contacts nor *)
(* blocks.                                                                   *)
LEMMA Others ==
    ASSUME Sound, NEW r \in Requests, Step(r), task[r].op \in {"open", "unfollow", "unblock", "delete"},
           Clear(r)
    PROVE  Clear(r)' /\ Just(r)'
<1> DEFINE op == task[r].op
           l == Len(task[r].todo)
           n == Head(task[r].todo)[1]
<1>1. \A x : n = x => At(r, x)
  BY Paths DEF At
<1>2. n \in {"check", "direct?", "direct", "uncontact", "hide?", "save", "unblock", "bust", "member", "wipe", "drop"}
  <2>1. Ready(op, task[r].by, l, n, Head(task[r].todo)[2]) /\ op \in {"open", "unfollow", "unblock", "delete"}
    BY Paths, AtStep
  <2> HIDE DEF op, l, n
  <2> QED BY <2>1 DEF Ready
<1> HIDE DEF n
<1>3. \/ check(r) \/ findDirect(r) \/ insertDirect(r) \/ deleteContact(r) \/ hideDirectIfEmpty(r) \/ save(r)
      \/ deleteBlock(r) \/ bustRestricted(r) \/ loadMember(r) \/ deleteMessages(r) \/ deleteChat(r)
  BY <1>1, <1>2, Acts
<1>4. contacts' \subseteq contacts /\ blocks' \subseteq blocks
  BY <1>3 DEF rows, check, findDirect, insertDirect, deleteContact, hideDirectIfEmpty, save, deleteBlock,
     bustRestricted, loadMember, deleteMessages, deleteChat
<1>5. /\ task'[r].op \notin {"follow", "block", "send"}
      /\ task[r].op # "block"
  BY Ahead
<1>6. /\ Left(r, "follow")' = 0 /\ Left(r, "block")' = 0 /\ ~At(r, "post")'
      /\ Left(r, "block") = 0
  BY <1>5, Ahead DEF Left
<1>7. ~(Blocked /\ contacts # {})
  BY <1>6 DEF Clear
<1>8. ~(Blocked /\ contacts # {})'
  BY <1>4, <1>7 DEF Blocked
<1> QED BY <1>6, <1>8 DEF Clear, Just

(* The steps of send: it comes to its post past the check, or because the *)
(* other has left.                                                        *)
LEMMA Sends ==
    ASSUME Sound, NEW r \in Requests, Step(r), task[r].op = "send", Clear(r)
    PROVE  Clear(r)' /\ Just(r)'
<1> DEFINE l == Len(task[r].todo)
           n == Head(task[r].todo)[1]
<1>1. task[r].todo # <<>> /\ l \in Nat \ {0} /\ (\A x : n = x => At(r, x))
  BY Paths, AtStep DEF At
<1>2. \/ l = 5 /\ n = "member"
      \/ l = 4 /\ n = "check"
      \/ l = 3 /\ n = "post"
      \/ l = 2 /\ n = "bump?"
      \/ l = 1 /\ n = "save"
  <2>1. Ready("send", task[r].by, l, n, Head(task[r].todo)[2])
    BY <1>1, AtStep
  <2> HIDE DEF l, n
  <2> QED BY <2>1 DEF Ready
<1>3. ~(Blocked /\ contacts # {})
  BY DEF Left, Clear
<1>4. /\ task'[r].op \in {"send", "none"} /\ Left(r, "block")' = 0 /\ Left(r, "follow")' = 0
      /\ At(r, "post")' => Len(task'[r].todo) = 3 /\ task'[r] # Idle
  BY Ahead DEF Left, Idle
<1> HIDE DEF n
<1>5. loadMember(r) \/ check(r) \/ post(r) \/ bumpFromMessage(r) \/ save(r)
  BY <1>1, <1>2, Acts
<1>6. UNCHANGED <<contacts, blocks>>
  BY <1>5 DEF loadMember, check, post, bumpFromMessage, save, rows
<1>7. ASSUME At(r, "post")' PROVE (~Blocked \/ \E u \in Users : ~Active(u))'
  <2>1. CASE l = 5 /\ n = "member"
    <3>1. loadMember(r) /\ ~End(r)
      BY <1>1, <1>4, <1>7, <2>1, Acts, Ends
    <3>2. CASE Then(r)
      <4>1. Onward(r, 1) /\ ~(5 <= 1) /\ 5 - 1 # 3
        BY <1>1, <3>2, Thens
      <4> QED BY <1>4, <1>7, <2>1, <4>1 DEF Onward
    <3>3. CASE ~Active(Peer(Who(r)))
      <4>1. Peer(Who(r)) \in Users /\ chat' = chat
        BY <1>1, <3>1, AtStep DEF loadMember, rows
      <4> QED BY <3>3, <4>1 DEF Active
    <3> QED BY <3>1, <3>2, <3>3 DEF loadMember
  <2>2. CASE l = 4 /\ n = "check"
    <3>1. check(r) /\ ~End(r)
      BY <1>1, <1>4, <1>7, <2>2, Acts, Ends
    <3> QED BY <1>6, <3>1 DEF check, Blocked
  <2>3. CASE l = 3 /\ n = "post"
    <3>1. post(r)
      BY <1>1, <2>3, Acts
    <3>2. Onward(r, 1) /\ ~(3 <= 1) /\ 3 - 1 # 3
      BY <1>1, <3>1, Thens DEF post
    <3> QED BY <1>4, <1>7, <2>3, <3>2 DEF Onward
  <2>4. CASE l \in {1, 2} /\ n \in {"bump?", "save"}
    <3>1. CASE n = "bump?"
      <4>1. bumpFromMessage(r) /\ ~End(r)
        BY <1>1, <1>4, <1>7, <3>1, Acts, Ends
      <4>2. Onward(r, 1)
        BY <1>1, <4>1, ThenSaves DEF bumpFromMessage, Fields
      <4>3. \A k \in {1, 2} : k - 1 # 3
        OBVIOUS
      <4> QED BY <1>4, <1>7, <2>4, <4>2, <4>3 DEF Onward
    <3>2. CASE n = "save"
      <4>1. save(r) /\ Len(task[r].todo) = 1 /\ 1 <= 1
        BY <1>1, <1>2, <3>2, Acts
      <4>2. task'[r] = Idle
        <5>1. CASE Then(r)
          BY <1>1, <4>1, <5>1, Thens DEF Onward
        <5>2. CASE Throw(r)
          BY <1>1, <4>1, <5>2, Throws
        <5> QED BY <4>1, <5>1, <5>2 DEF save
      <4> QED BY <1>4, <1>7, <4>2
    <3> QED BY <2>4, <3>1, <3>2
  <2> QED BY <1>2, <2>1, <2>2, <2>3, <2>4
<1> QED BY <1>3, <1>4, <1>6, <1>7 DEF Clear, Just, Blocked

(* The steps of block: it makes the block, and takes its own contact away and *)
(* then that of the other, whatever goes wrong with the chat.                 *)
LEMMA Blocking ==
    ASSUME Sound, NEW r \in Requests, Step(r), task[r].op = "block", Clear(r), Just(r)
    PROVE  Clear(r)' /\ Just(r)'
<1> DEFINE l == Len(task[r].todo)
           n == Head(task[r].todo)[1]
           u == task[r].by
           left == Left(r, "block")'
<1>0. \A k \in Nat \ {0} : (k <= 1 <=> k = 1) /\ (k <= 2 <=> k \in {1, 2})
  OBVIOUS
<1>1. task[r].todo # <<>> /\ l \in Nat \ {0} /\ u \in Users /\ (\A x : n = x => At(r, x))
  BY Paths, AtStep DEF At
<1>2. \/ l = 10 /\ n = "block"
      \/ l = 9 /\ n = "bust"
      \/ l = 8 /\ n = "uncontact" /\ Who(r) = u
      \/ l \in {7, 4} /\ n = "hide?"
      \/ l \in {6, 3, 1} /\ n = "save"
      \/ l = 5 /\ n = "uncontact" /\ Who(r) = Peer(u)
      \/ l = 2 /\ n = "archive?"
  <2> DEFINE v == Head(task[r].todo)[2]
  <2>1. Ready("block", u, l, n, v)
    BY <1>1, AtStep
  <2>2. v = Who(r)
    BY DEF Who
  <2> HIDE DEF l, n, u, v
  <2> QED BY <2>1, <2>2 DEF Ready
<1>3. /\ task'[r] = Idle => left = 0 /\ Just(r)'
      /\ task'[r] # Idle => task'[r].op = "block" /\ task'[r].by = u /\ left = Len(task'[r].todo)
      /\ Left(r, "follow")' = 0 /\ ~At(r, "post")'
  BY Ahead, Finished DEF Left
<1>4. /\ Blocked /\ contacts # {} => l \in 5..9
      /\ l \in 5..7 => <<u, Peer(u)>> \notin contacts
      /\ l \in {3, 6} => chat # None
  BY DEF Left, Clear, Just
<1>5. /\ Then(r) => IF l = 1 THEN task'[r] = Idle ELSE task'[r] # Idle /\ left = l - 1
      /\ Skipping(r, 1, <<>>, {}) => IF l \in {1, 2} THEN task'[r] = Idle ELSE task'[r] # Idle /\ left = l - 2
      /\ End(r) => task'[r] = Idle
  <2>0. (l <= 1 <=> l = 1) /\ (l <= 2 <=> l \in {1, 2})
    BY <1>0, <1>1, Zenon
  <2>1. Idle.op # "block"
    BY DEF Idle
  <2>2. Onward(r, 1) => IF l = 1 THEN task'[r] = Idle ELSE task'[r] # Idle /\ left = l - 1
    BY <1>3, <2>0, <2>1 DEF Onward
  <2>3. Onward(r, 2) => IF l \in {1, 2} THEN task'[r] = Idle ELSE task'[r] # Idle /\ left = l - 2
    BY <1>3, <2>0, <2>1 DEF Onward
  <2> QED BY <1>1, <2>2, <2>3, Thens, Skip1, Ends
<1>6. \A f \in {"left", "archived"}, v \in Users :
         ThenSave(r, Set(f, v, TRUE)) => IF l = 1 THEN task'[r] = Idle ELSE task'[r] # Idle /\ left = l - 1
  <2> SUFFICES ASSUME NEW f \in {"left", "archived"}, NEW v \in Users, ThenSave(r, Set(f, v, TRUE))
               PROVE  IF l = 1 THEN task'[r] = Idle ELSE task'[r] # Idle /\ left = l - 1
    OBVIOUS
  <2>1. <<f, v>> \in Fields
    BY DEF Fields
  <2>2. Onward(r, 1)
    BY <1>1, <2>1, ThenSaves
  <2>3. l <= 1 <=> l = 1
    BY <1>0, <1>1, Zenon
  <2> QED BY <1>3, <2>2, <2>3 DEF Onward, Idle
<1>7. Who(r) \in Users
  BY <1>1, AtStep
<1> HIDE DEF l, n, u, left
(* What is to be shown of each step *)
<1>8. ASSUME ~(Blocked /\ contacts # {})' \/ left \in 5..9,
             left \in 5..7 => <<u, Peer(u)>> \notin contacts',
             left \in {3, 6} => chat' # None
      PROVE  Clear(r)' /\ Just(r)'
  <2>1. Clear(r)'
    BY <1>8 DEF Clear, left
  <2>2. CASE task'[r] = Idle
    BY <1>3, <2>1, <2>2
  <2>3. CASE task'[r] # Idle
    BY <1>3, <1>8, <2>1, <2>3 DEF Just, left
  <2> QED BY <2>2, <2>3
<1>11. CASE l = 10 /\ n = "block"
  <2>1. createBlock(r) /\ contacts' = contacts
    BY <1>1, <1>11, Acts DEF createBlock
  <2>2. CASE Then(r)
    <3>1. left = 9
      BY <1>5, <1>11, <2>2
    <3> QED BY <1>8, <3>1
  <2>3. CASE blocks' = blocks /\ End(r)
    <3>1. left = 0 /\ ~(Blocked /\ contacts # {})
      BY <1>3, <1>4, <1>5, <1>11, <2>3
    <3> QED BY <1>8, <2>1, <2>3, <3>1 DEF Blocked
  <2> QED BY <2>1, <2>2, <2>3 DEF createBlock
<1>12. CASE l = 9 /\ n = "bust"
  <2>1. bustRestricted(r)
    BY <1>1, <1>12, Acts
  <2>2. left = 8
    BY <1>5, <1>12, <2>1 DEF bustRestricted
  <2> QED BY <1>8, <2>2
<1>13. CASE l = 8 /\ n = "uncontact" /\ Who(r) = u
  <2>1. deleteContact(r)
    BY <1>1, <1>13, Acts
  <2>2. left = 7 /\ <<u, Peer(u)>> \notin contacts'
    BY <1>5, <1>13, <2>1 DEF deleteContact
  <2> QED BY <1>8, <2>2
<1>14. CASE l \in {7, 4} /\ n = "hide?"
  <2>1. hideDirectIfEmpty(r) /\ UNCHANGED <<contacts, blocks, chat>>
    BY <1>1, <1>14, Acts DEF hideDirectIfEmpty, rows
  <2>2. \/ left = l - 1 /\ chat # None
        \/ left = l - 2
    <3>1. CASE Active(Who(r)) /\ ThenSave(r, Set("left", Who(r), TRUE))
      <4>1. IF l = 1 THEN task'[r] = Idle ELSE task'[r] # Idle /\ left = l - 1
        BY <1>6, <1>7, <3>1, Zenon
      <4> QED BY <1>14, <3>1, <4>1 DEF Active
    <3>2. CASE Skipping(r, 1, <<>>, {})
      BY <1>5, <1>14, <3>2
    <3> QED BY <2>1, <3>1, <3>2 DEF hideDirectIfEmpty
  <2>3. CASE l = 7
    <3>1. left \in {5, 6} /\ (left = 6 => chat # None)
      BY <2>2, <2>3
    <3>2. <<u, Peer(u)>> \notin contacts'
      BY <1>4, <2>1, <2>3
    <3> QED BY <1>8, <2>1, <3>1, <3>2
  <2>4. CASE l = 4
    <3>1. left \in {2, 3} /\ (left = 3 => chat # None)
      BY <2>2, <2>4
    <3>2. ~(Blocked /\ contacts # {})'
      BY <1>4, <2>1, <2>4 DEF Blocked
    <3> QED BY <1>8, <2>1, <3>1, <3>2
  <2> QED BY <1>14, <2>3, <2>4
<1>15. CASE l \in {6, 3, 1} /\ n = "save"
  <2>1. save(r) /\ UNCHANGED <<contacts, blocks>>
    BY <1>1, <1>15, Acts DEF save
  <2>2. CASE l = 6
    <3>1. left = 5 /\ <<u, Peer(u)>> \notin contacts'
      BY <1>4, <1>5, <2>1, <2>2 DEF save
    <3> QED BY <1>8, <3>1
  <2>3. CASE l = 3
    <3>1. left = 2 /\ ~(Blocked /\ contacts # {})'
      BY <1>4, <1>5, <2>1, <2>3 DEF save, Blocked
    <3> QED BY <1>8, <3>1
  <2>4. CASE l = 1
    <3>1. ~(Blocked /\ contacts # {})'
      BY <1>4, <2>1, <2>4 DEF Blocked
    <3>2. task'[r] = Idle
      <4>1. CASE Then(r)
        BY <1>5, <2>4, <4>1
      <4>2. CASE Throw(r)
        <5>1. Len(task[r].todo) = 1
          BY <2>4 DEF l
        <5> QED BY <1>1, <4>2, <5>1, Throws
      <4> QED BY <2>1, <4>1, <4>2 DEF save
    <3>3. left = 0
      BY <1>3, <3>2
    <3> QED BY <1>8, <3>1, <3>3
  <2> QED BY <1>15, <2>2, <2>3, <2>4
<1>16. CASE l = 5 /\ n = "uncontact" /\ Who(r) = Peer(u)
  <2>1. deleteContact(r)
    BY <1>1, <1>16, Acts
  <2>2. left = 4 /\ contacts' = contacts \ {<<Peer(u), u>>}
    BY <1>1, <1>5, <1>16, <2>1, Two DEF deleteContact
  <2>3. contacts' = {}
    <3>1. Pairs = {<<u, Peer(u)>>, <<Peer(u), u>>}
      BY <1>1, Two
    <3>2. contacts \subseteq {<<u, Peer(u)>>, <<Peer(u), u>>} /\ <<u, Peer(u)>> \notin contacts
      BY <1>4, <1>16, <3>1 DEF Sound, TypeOK
    <3> QED BY <2>2, <3>2
  <2> QED BY <1>8, <2>2, <2>3
<1>17. CASE l = 2 /\ n = "archive?"
  <2>1. archiveDirectBetween(r) /\ UNCHANGED <<contacts, blocks>>
    BY <1>1, <1>17, Acts DEF archiveDirectBetween, rows
  <2>2. left \in {0, 1}
    <3>1. CASE ThenSave(r, Set("archived", Who(r), TRUE))
      <4>1. IF l = 1 THEN task'[r] = Idle ELSE task'[r] # Idle /\ left = l - 1
        BY <1>6, <1>7, <3>1, Zenon
      <4> QED BY <1>17, <4>1
    <3>2. CASE End(r)
      BY <1>3, <1>5, <3>2
    <3> QED BY <2>1, <3>1, <3>2 DEF archiveDirectBetween
  <2>3. ~(Blocked /\ contacts # {})'
    BY <1>4, <1>17, <2>1 DEF Blocked
  <2> QED BY <1>8, <2>2, <2>3
<1> QED BY <1>2, <1>11, <1>12, <1>13, <1>14, <1>15, <1>16, <1>17

LEMMA AloneStep ==
    ASSUME Sound, AloneSound, [Next]_vars
    PROVE  AloneSound'
<1>0. /\ task \in [Requests -> Handler] /\ raced \in BOOLEAN
      /\ \A q \in Requests : task[q].op \in Ops \cup {"none"}
  BY DEF Sound, TypeOK, Handler, Drafts
<1>1. SUFFICES ASSUME ~raced' PROVE AloneSound'
  BY DEF AloneSound
<1>2. ASSUME ~raced
      PROVE  /\ \A q, r \in Requests : task[q].op \in Writes /\ task[r].op \in Writes => q = r
             /\ Blocked /\ contacts # {} => \E r \in Requests : Left(r, "block") \in 5..9
             /\ \A r \in Requests : Just(r)
  BY <1>2 DEF AloneSound, Just
<1>3. ASSUME /\ \A q, r \in Requests : task'[q].op \in Writes /\ task'[r].op \in Writes => q = r
             /\ (Blocked /\ contacts # {})' => \E r \in Requests : Left(r, "block")' \in 5..9
             /\ \A r \in Requests : Just(r)'
      PROVE  AloneSound'
  BY <1>3 DEF AloneSound, Just
(* A handler that does not write has nothing to lose. *)
<1>4. ASSUME NEW q \in Requests, task[q].op \notin Writes
      PROVE  /\ Left(q, "block") = 0 /\ Left(q, "follow") = 0 /\ ~At(q, "post")
             /\ task'[q] = task[q] => Left(q, "block")' = 0 /\ Just(q)'
  <2>1. Left(q, "block") = 0 /\ Left(q, "follow") = 0
    BY <1>4 DEF Left, Writes
  <2>2. ~At(q, "post")
    <3> SUFFICES ASSUME At(q, "post") PROVE FALSE
      OBVIOUS
    <3> DEFINE op == task[q].op
               l == Len(task[q].todo)
               v == Head(task[q].todo)[2]
    <3>1. Ready(op, task[q].by, l, "post", v)
      BY AtStep DEF At
    <3>2. op \notin Writes
      BY <1>4
    <3> HIDE DEF op, l, v
    <3> QED BY <3>1, <3>2, Where DEF Writes
  <2>3. task'[q] = task[q] => Left(q, "block")' = 0 /\ Left(q, "follow")' = 0 /\ ~At(q, "post")'
    BY <2>1, <2>2 DEF Left, At
  <2> QED BY <2>1, <2>2, <2>3 DEF Just
<1>5. ASSUME NEW r \in Requests, Step(r) PROVE AloneSound'
  <2>1. /\ ~raced /\ Kept(r) /\ task[r].todo # <<>> /\ task[r].op \in Ops
        /\ task'[r].op \in {task[r].op, "none"}
        /\ \A q \in Requests \ {r} : task'[q] = task[q]
    BY <1>1, <1>5, Paths, RowsTyped, AtStep, Ahead DEF Kept
  <2>2. \A q, p \in Requests : task'[q].op \in Writes /\ task'[p].op \in Writes => q = p
    <3>1. \A q \in Requests : task'[q].op \in Writes => task[q].op \in Writes
      BY <2>1 DEF Writes
    <3> QED BY <1>2, <2>1, <3>1
  <2>3. CASE task[r].op \in Writes
    <3>1. \A q \in Requests \ {r} : task[q].op \notin Writes /\ Left(q, "block") = 0 /\ Just(q)'
      BY <1>2, <1>4, <2>1, <2>3
    <3>2. Clear(r) /\ Just(r)
      <4>1. 0 \notin 5..9
        OBVIOUS
      <4> QED BY <1>2, <2>1, <3>1, <4>1 DEF Clear
    <3>3. Clear(r)' /\ Just(r)'
      BY <1>5, <2>3, <3>2, Follows, Others, Sends, Blocking DEF Writes
    <3> QED BY <1>3, <2>2, <3>1, <3>3 DEF Clear
  <2>4. CASE task[r].op = "list"
    <3> DEFINE n == Head(task[r].todo)[1]
    <3>1. n \in {"cached", "load", "fill"}
      <4>1. Ready("list", task[r].by, Len(task[r].todo), n, Head(task[r].todo)[2])
        BY <2>1, <2>4, AtStep
      <4> HIDE DEF n
      <4> QED BY <4>1 DEF Ready
    <3>2. UNCHANGED <<contacts, blocks, chat>>
      <4>1. \A x : At(r, x) => n = x
        BY DEF At
      <4> HIDE DEF n
      <4>2. cacheGet(r) \/ loadRestricted(r) \/ cacheSet(r)
        BY <1>5, <3>1, <4>1 DEF Step, check, findContact, createContact, deleteContact, findDirect, insertDirect,
           hideDirectIfEmpty, archiveDirectBetween, save, loadMember, post, bumpFromMessage, deleteMessages,
           deleteChat, createBlock, deleteBlock, bustRestricted
      <4> QED BY <4>2 DEF rows, cacheGet, loadRestricted, cacheSet
    <3>3. /\ Left(r, "block") = 0 /\ Left(r, "block")' = 0
          /\ Left(r, "follow")' = 0 /\ ~At(r, "post")'
      BY <1>5, <2>1, <2>4, Ahead DEF Left
    <3>4. Just(r)'
      BY <3>3 DEF Just
    <3>5. ASSUME NEW q \in Requests \ {r} PROVE Left(q, "block")' = Left(q, "block") /\ Just(q)'
      <4>1. task'[q] = task[q]
        BY <2>1
      <4>2. At(q, "post")' <=> At(q, "post")
        BY <4>1 DEF At
      <4>3. (\E u \in Users : ~Active(u))' <=> \E u \in Users : ~Active(u)
        BY <3>2 DEF Active
      <4>4. Just(q)
        BY <1>2, <2>1
      <4> QED BY <3>2, <4>1, <4>2, <4>3, <4>4 DEF Left, Just, Blocked
    <3>6. (Blocked /\ contacts # {})' => \E q \in Requests : Left(q, "block")' \in 5..9
      BY <1>2, <2>1, <3>2, <3>3, <3>5 DEF Blocked
    <3> QED BY <1>3, <2>2, <3>4, <3>5, <3>6
  <2> QED BY <2>1, <2>3, <2>4 DEF Ops
<1>6. ASSUME NEW r \in Requests, NEW op \in Ops, NEW u \in Users, Begin(r, op, u) PROVE AloneSound'
  <2>1. /\ task[r] = Idle /\ task'[r].op = op /\ task'[r].by = u /\ task'[r].todo = Program(op, u)
        /\ UNCHANGED <<contacts, blocks, chat>>
        /\ \A q \in Requests \ {r} : task'[q] = task[q]
    BY <1>6, Begins DEF Kept
  <2>2. ~raced /\ (op \in Writes => {task[q].op : q \in Requests} \cap Writes = {})
    BY <1>1, <1>6 DEF Begin
  <2>3. ASSUME NEW q \in Requests \ {r} PROVE Left(q, "block")' = Left(q, "block") /\ Just(q)'
    <3>1. task'[q] = task[q]
      BY <2>1
    <3>2. At(q, "post")' <=> At(q, "post")
      BY <3>1 DEF At
    <3>3. (\E v \in Users : ~Active(v))' <=> \E v \in Users : ~Active(v)
      BY <2>1 DEF Active
    <3>4. Just(q)
      BY <1>2, <2>2
    <3> QED BY <2>1, <3>1, <3>2, <3>3, <3>4 DEF Left, Just, Blocked
  <2>4. \A q, p \in Requests : task'[q].op \in Writes /\ task'[p].op \in Writes => q = p
    BY <1>2, <2>1, <2>2
  <2>5. Left(r, "block") = 0
    BY <2>1 DEF Left, Idle
  <2>6. (Blocked /\ contacts # {})' => \E q \in Requests : Left(q, "block")' \in 5..9
    <3>1. 0 \notin 5..9
      OBVIOUS
    <3> QED BY <1>2, <2>1, <2>2, <2>3, <2>5, <3>1 DEF Blocked
  <2>7. Just(r)'
    <3> DEFINE P == task'[r].todo
    <3>1. /\ op = "follow" => P[1] = <<"check", u>> /\ Len(P) = 5
          /\ op = "open" => P[1] = <<"check", u>>
          /\ op = "unfollow" => P[1] = <<"uncontact", u>>
          /\ op = "block" => P[1] = <<"block", u>> /\ Len(P) = 10
          /\ op = "unblock" => P[1] = <<"unblock", u>>
          /\ op \in {"send", "delete"} => P[1] = <<"member", u>>
          /\ op = "list" => P[1] = <<"cached", u>>
      <4>1. P = Program(op, u)
        BY <2>1
      <4> HIDE DEF P
      <4>2. op = "follow" => P[1] = <<"check", u>> /\ Len(P) = 5
        BY <4>1, Programs
      <4>3. op = "open" => P[1] = <<"check", u>>
        BY <4>1, Programs
      <4>4. op = "unfollow" => P[1] = <<"uncontact", u>>
        BY <4>1, Programs
      <4>5. op = "block" => P[1] = <<"block", u>> /\ Len(P) = 10
        BY <4>1, Programs
      <4>6. op = "unblock" => P[1] = <<"unblock", u>>
        BY <4>1, Programs
      <4>7. op \in {"send", "delete"} => P[1] = <<"member", u>>
        BY <4>1, Programs
      <4>8. op = "list" => P[1] = <<"cached", u>>
        BY <4>1, Programs
      <4> QED BY <4>2, <4>3, <4>4, <4>5, <4>6, <4>7, <4>8
    <3>2. Head(P) = P[1]
      <4>1. P \in Seq(Steps \X Users) /\ P # <<>>
        <5>1. task'[r] \in Handler /\ (P = <<>> => task'[r] = Idle)
          BY <1>6, Begins DEF Kept
        <5>2. op # "none" /\ Idle.op = "none"
          BY DEF Ops, Writes, Idle
        <5> QED BY <2>1, <5>1, <5>2 DEF Handler
      <4> HIDE DEF P
      <4> QED BY <4>1
    <3> HIDE DEF P
    <3>3. P[1] \in {"check", "uncontact", "block", "unblock", "member", "cached"} \X Users
      BY <3>1 DEF Ops, Writes
    <3>4. ~At(r, "post")'
      <4>1. Head(P)[1] # "post"
        BY <3>2, <3>3
      <4> QED BY <4>1 DEF At, P
    <3>5. Left(r, "follow")' \in {0, 5} /\ Left(r, "block")' \in {0, 10}
      BY <2>1, <3>1 DEF Left, P
    <3>6. \A k \in {0, 5, 10} : k \notin {3, 4, 6} /\ (k = 5 \/ k \notin 5..7)
      OBVIOUS
    <3>7. Left(r, "follow")' \notin {3, 4} /\ Left(r, "block")' \notin 5..7 /\ Left(r, "block")' \notin {3, 6}
      BY <3>5, <3>6
    <3> QED BY <3>4, <3>7 DEF Just
  <2> QED BY <1>3, <2>3, <2>4, <2>6, <2>7
<1>7. ASSUME UNCHANGED <<contacts, blocks, chat, task, raced>> PROVE AloneSound'
  BY <1>7 DEF AloneSound, Left, Blocked, At, Active
<1>8. ASSUME NEW u \in Users, Expire(u) PROVE AloneSound'
  BY <1>7, <1>8 DEF Expire, rows
<1>9. CASE UNCHANGED vars
  BY <1>7, <1>9 DEF vars, rows
<1> QED BY <1>5, <1>6, <1>8, <1>9 DEF Next

-----------------------------------------------------------------------------
(* Theorems *)

(* The strengthening is inductive: every handler stands somewhere in its     *)
(* program, a cache is true but for the fill that raced a change, and what a *)
(* writer that is alone has found still holds.                               *)
THEOREM Inductive == Spec => []IInv
<1>1. Init => IInv
  <2> SUFFICES ASSUME Init PROVE IInv
    OBVIOUS
  <2>1. Sound
    <3>1. Idle \in Handler /\ Placed(Idle)
      BY IdleIsHandler
    <3>2. task \in [Requests -> Handler] /\ \A r \in Requests : Placed(task[r]) /\ task[r] = Idle
      BY <3>1 DEF Init
    <3>3. cache \in [Users -> (SUBSET Users) \cup {None}]
      BY DEF Init
    <3>4. posts \in 0..MaxPosts
      BY ContactsAssumption DEF Init
    <3>5. contacts \subseteq Pairs /\ blocks \subseteq Pairs /\ chat = None /\ raced \in BOOLEAN /\ stale \subseteq Users
      BY DEF Init
    <3> QED BY <3>2, <3>3, <3>4, <3>5 DEF Sound, TypeOK, Handler, Drafts
  <2>2. CacheSound
    BY DEF Init, CacheSound
  <2>3. AloneSound
    <3>1. Idle.op = "none" /\ Idle.todo = <<>>
      BY DEF Idle
    <3>2. \A r \in Requests : task[r] = Idle
      BY DEF Init
    <3> QED BY <3>1, <3>2 DEF Init, AloneSound, Blocked, Left, At, Writes
  <2> QED BY <2>1, <2>2, <2>3 DEF IInv, Sound
<1>2. IInv /\ [Next]_vars => IInv'
  BY Typed, CacheStep, AloneStep DEF IInv, Sound
<1> QED BY <1>1, <1>2, PTL DEF Spec

(* Types, for any number of handlers and messages: among them that a handler *)
(* is idle exactly when it has nothing left to do.                           *)
THEOREM TypeCorrect == Spec => []TypeOK
<1>1. IInv => TypeOK
  BY DEF IInv
<1> QED BY <1>1, Inductive, PTL

(* bustRestricted is on its way as long as a cache lies about the rows, but *)
(* for a cache filled from rows that were read before the change.           *)
THEOREM CacheTrue == Spec => []CacheIsTrue
<1>1. ASSUME IInv PROVE CacheIsTrue
  <2>1. ASSUME NEW r \in Requests, At(r, "bust")
        PROVE  \E i \in DOMAIN task[r].todo : task[r].todo[i][1] = "bust"
    <3>1. task[r].todo \in Seq(Steps \X Users) /\ task[r].todo # <<>> /\ Head(task[r].todo)[1] = "bust"
      BY <1>1, <2>1 DEF IInv, TypeOK, At
    <3>2. 1 \in DOMAIN task[r].todo /\ Head(task[r].todo) = task[r].todo[1]
      BY <3>1
    <3> QED BY <3>1, <3>2
  <2> QED BY <1>1, <2>1 DEF IInv, CacheSound, CacheIsTrue
<1> QED BY <1>1, Inductive, PTL

(* Handlers that do not overlap keep blocked people and contacts apart. *)
THEOREM NoContacts == Spec => []BlockedHaveNoContact
<1>1. ASSUME IInv PROVE BlockedHaveNoContact
  <2>1. ASSUME NEW r \in Requests, Left(r, "block") \in 5..9 PROVE task[r].op = "block"
    <3>1. 0 \notin 5..9
      OBVIOUS
    <3> QED BY <2>1, <3>1 DEF Left
  <2> QED BY <1>1, <2>1 DEF IInv, AloneSound, BlockedHaveNoContact
<1> QED BY <1>1, Inductive, PTL

(* Handlers that do not overlap store no message across a block, but for *)
(* chats one of the two has left.                                        *)
THEOREM PassBlocks == Spec => OnlyLeftChatsPassBlocks
<1> DEFINE Passes == posts' > posts /\ ~raced /\ Blocked => \E u \in Users : ~Active(u)
<1>1. ASSUME IInv, [Next]_vars PROVE [Passes]_vars
  <2>1. Sound /\ posts \in Nat
    BY <1>1, ContactsAssumption DEF IInv, Sound, TypeOK
  <2>2. ASSUME NEW r \in Requests, Step(r), posts' > posts PROVE At(r, "post")
    <3>1. CASE ~post(r)
      <4>1. posts' = posts \/ posts' = 0
        BY <2>2, <3>1 DEF rows, Step, check, findContact, createContact, deleteContact, findDirect, insertDirect,
           hideDirectIfEmpty, archiveDirectBetween, save, loadMember, bumpFromMessage, deleteMessages,
           deleteChat, createBlock, deleteBlock, bustRestricted, cacheGet, loadRestricted, cacheSet
      <4> QED BY <2>1, <2>2, <4>1
    <3>2. CASE post(r)
      BY <3>2 DEF post
    <3> QED BY <3>1, <3>2
  <2>3. ASSUME posts' > posts PROVE \E r \in Requests : Step(r)
    <3>1. posts' # posts
      BY <2>1, <2>3
    <3> QED BY <1>1, <3>1 DEF Next, Begin, Expire, vars, rows
  <2>4. ASSUME posts' > posts, ~raced, Blocked PROVE \E u \in Users : ~Active(u)
    <3>1. PICK r \in Requests : At(r, "post")
      BY <2>2, <2>3, <2>4
    <3> QED BY <1>1, <2>4, <3>1 DEF IInv, AloneSound
  <2> QED BY <2>4
<1> QED BY <1>1, Inductive, PTL DEF Spec, OnlyLeftChatsPassBlocks

(* Every cache that is filled, and every one that is about to be, leaves the *)
(* other out.                                                                *)
Hides ==
    /\ \A u \in Users : cache[u] # None => Peer(u) \in cache[u]
    /\ \A r \in Requests : At(r, "fill") => Peer(Who(r)) \in task[r].loaded

(* Who is about to fill a cache has just loaded the rows. *)
LEMMA FillsWhatItLoaded ==
    ASSUME Sound, NEW r \in Requests, Step(r), At(r, "fill")'
    PROVE  Who(r) \in Users /\ Who(r)' = Who(r) /\ task'[r].loaded = Restricted(Who(r))
<1> DEFINE op == task[r].op
           l == Len(task[r].todo)
           n == Head(task[r].todo)[1]
           v == Head(task[r].todo)[2]
           vNext == Head(task'[r].todo)[2]
<1>1. /\ task[r].todo # <<>> /\ l \in Nat \ {0} /\ (\A x : n = x => At(r, x))
      /\ Ready(op, task[r].by, l, n, v) /\ Who(r) = v /\ Who(r) \in Users /\ Kept(r)
  BY Paths, AtStep DEF At, Who
<1>2. task'[r].todo # <<>> /\ Head(task'[r].todo)[1] = "fill" /\ task'[r] # Idle
  BY DEF At, Idle
<1>3. /\ op = task'[r].op /\ task'[r].by = task[r].by
      /\ Ready(task'[r].op, task'[r].by, Len(task'[r].todo), "fill", vNext)
  BY <1>1, <1>2, Paths, NextAccess DEF Kept
<1>4. Len(task'[r].todo) = 1 /\ op = "list" /\ vNext = task[r].by
  BY <1>3 DEF Ready
<1>5. /\ v = task[r].by
      /\ (l = 3 /\ n = "cached") \/ (l = 2 /\ n = "load") \/ (l = 1 /\ n = "fill")
  <2> HIDE DEF l, n, v, op
  <2> QED BY <1>1, <1>4 DEF Ready
<1>6. CASE n = "cached"
  <2>1. l = 3 /\ cacheGet(r)
    BY <1>1, <1>5, <1>6, Acts
  <2>2. CASE End(r)
    BY <1>2, <2>2, Ends
  <2>3. CASE Then(r)
    <3>1. Onward(r, 1) /\ 3 - 1 = 2 /\ ~(3 <= 1)
      BY <1>1, <2>3, Thens
    <3> QED BY <1>4, <2>1, <3>1 DEF Onward
  <2> QED BY <2>1, <2>2, <2>3 DEF cacheGet
<1>7. CASE n = "fill"
  <2>1. Then(r) /\ l = 1
    BY <1>1, <1>5, <1>7, Acts DEF cacheSet
  <2>2. Onward(r, 1) /\ 1 <= 1
    BY <1>1, <2>1, Thens
  <2> QED BY <1>2, <2>1, <2>2 DEF Onward
<1>8. CASE n = "load"
  <2>1. Skipping(r, 0, <<>>, Restricted(Who(r)))
    BY <1>1, <1>8, Acts DEF loadRestricted
  <2>2. task \in [Requests -> Handler]
    BY DEF Sound, TypeOK, Handler, Drafts
  <2>3. task'[r].loaded = Restricted(Who(r))
    BY <1>2, <2>1, <2>2 DEF Skipping, Handler
  <2> QED BY <1>1, <1>4, <1>5, <2>3 DEF Who
<1> QED BY <1>5, <1>6, <1>7, <1>8

(* A block hides each of the two from the other, whoever made it. *)
LEMMA BothRestricted ==
    ASSUME TypeOK, Blocked, NEW u \in Users
    PROVE  Restricted(u) = {Peer(u)}
<1>1. PICK w \in Users : <<w, Peer(w)>> \in blocks
  <2>1. PICK b \in blocks : b \in Pairs
    BY DEF Blocked, TypeOK
  <2> QED BY <2>1, Two
<1>2. w = u \/ (w = Peer(u) /\ Peer(w) = u)
  BY Two
<1>3. Users \ {u} = {Peer(u)}
  BY Two
<1> QED BY <1>1, <1>2, <1>3 DEF Restricted

(* While a block stays, what hides the two goes on to hide them. *)
LEMMA HidingStep ==
    ASSUME Sound, Blocked, Blocked', Hides, [Next]_vars
    PROVE  Hides'
<1>1. \A u \in Users : Restricted(u) = {Peer(u)}
  BY BothRestricted DEF Sound
<1>2. cache \in [Users -> (SUBSET Users) \cup {None}]
  BY DEF Sound, TypeOK
<1>3. ASSUME NEW r \in Requests, Step(r) PROVE Hides'
  <2>1. \A q \in Requests \ {r} : task'[q] = task[q]
    BY <1>3, Paths DEF Kept
  <2>2. \A q \in Requests : At(q, "fill")' => Peer(Who(q)') \in task'[q].loaded
    <3>1. At(r, "fill")' => Peer(Who(r)') \in task'[r].loaded
      BY <1>1, <1>3, FillsWhatItLoaded
    <3>2. \A q \in Requests \ {r} : At(q, "fill")' => Peer(Who(q)') \in task'[q].loaded
      BY <2>1 DEF Hides, At, Who
    <3> QED BY <3>1, <3>2
  <2>3. \A u \in Users : cache'[u] # None => Peer(u) \in cache'[u]
    <3>1. CASE cacheSet(r)
      <4>1. At(r, "fill") /\ cache' = [cache EXCEPT ![Who(r)] = task[r].loaded]
        BY <3>1 DEF cacheSet
      <4> QED BY <1>2, <4>1 DEF Hides
    <3>2. CASE bustRestricted(r)
      BY <3>2 DEF bustRestricted
    <3>3. CASE ~(cacheSet(r) \/ bustRestricted(r))
      <4>1. cache' = cache
        BY <1>3, <3>3 DEF Step, check, findContact, createContact, deleteContact, findDirect, insertDirect,
           hideDirectIfEmpty, archiveDirectBetween, save, loadMember, post, bumpFromMessage, deleteMessages,
           deleteChat, createBlock, deleteBlock, cacheGet, loadRestricted
      <4> QED BY <4>1 DEF Hides
    <3> QED BY <3>1, <3>2, <3>3
  <2> QED BY <2>2, <2>3 DEF Hides
<1>4. ASSUME NEW r \in Requests, NEW op \in Ops, NEW u \in Users, Begin(r, op, u) PROVE Hides'
  <2>1. \A q \in Requests \ {r} : task'[q] = task[q]
    BY <1>4, Begins DEF Kept
  <2>2. cache' = cache /\ task'[r].todo = Program(op, u) /\ Head(Program(op, u))[1] # "fill"
    <3> DEFINE P == Program(op, u)
    <3>1. P \in Seq(Steps \X Users) /\ Len(P) \in {2, 3, 5, 10} /\ P[1][1] # "fill"
      <4>1. P \in Seq(Steps \X Users) /\ Len(P) \in {2, 3, 5, 10}
        BY Programs DEF Ops, Writes
      <4>2. op \in {"follow", "open"} => P[1] = <<"check", u>>
        BY Programs
      <4>3. op = "unfollow" => P[1] = <<"uncontact", u>>
        BY Programs
      <4>4. op \in {"block", "unblock"} => P[1] = <<op, u>>
        BY Programs
      <4>5. op \in {"send", "delete"} => P[1] = <<"member", u>>
        BY Programs
      <4>6. op = "list" => P[1] = <<"cached", u>>
        BY Programs
      <4> HIDE DEF P
      <4> QED BY <4>1, <4>2, <4>3, <4>4, <4>5, <4>6 DEF Ops, Writes
    <3>2. Head(P) = P[1]
      BY <3>1
    <3> HIDE DEF P
    <3>3. Head(P)[1] # "fill"
      BY <3>1, <3>2
    <3>4. cache' = cache /\ task'[r].todo = P
      BY <1>4, Begins DEF P
    <3> QED BY <3>3, <3>4 DEF P
  <2> QED BY <2>1, <2>2 DEF Hides, At, Who
<1>5. ASSUME NEW u \in Users, Expire(u) PROVE Hides'
  BY <1>2, <1>5 DEF Expire, Hides, At, Who
<1>6. CASE UNCHANGED vars
  BY <1>6 DEF vars, Hides, At, Who
<1> QED BY <1>3, <1>4, <1>5, <1>6 DEF Next

(* Once no cache, and no request that is about to fill one, is older than    *)
(* the block, the two are hidden from each other in every list until it is   *)
(* lifted, whatever overlaps (restrictedIds, bustRestricted).                *)
THEOREM StaysHidden ==
    Spec => /\ [][Blocked /\ Blocked' /\ Hides => Hides']_vars
            /\ [](Blocked /\ Hides => \A u \in Users : Peer(u) \notin Shown(u))
<1>1. IInv /\ [Next]_vars => [Blocked /\ Blocked' /\ Hides => Hides']_vars
  BY HidingStep DEF IInv, Sound
<1>2. IInv => (Blocked /\ Hides => \A u \in Users : Peer(u) \notin Shown(u))
  <2> SUFFICES ASSUME IInv, Blocked, Hides, NEW u \in Users PROVE Peer(u) \in Skip(u)
    BY DEF Shown
  <2>1. Peer(u) \in Restricted(u)
    BY BothRestricted DEF IInv
  <2> QED BY <2>1 DEF Hides, Skip
<1> QED BY <1>1, <1>2, Inductive, PTL DEF Spec
=============================================================================
