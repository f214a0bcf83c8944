---------------------------- MODULE GroupsProofs ----------------------------
(***************************************************************************)
(* Proofs about Groups, for groups of any size and any number of handlers  *)
(* and messages: what a save writes, that traffic leaves the membership    *)
(* alone, and that membership changes one at a time implement Roster.      *)
(***************************************************************************)
EXTENDS Groups, SequenceTheorems, FiniteSetTheorems, WellFoundedInduction, TLAPS

-----------------------------------------------------------------------------
(* Entries and arrays *)

LEMMA EntryFields ==
    ASSUME NEW e \in Entry
    PROVE  /\ e = [f \in Fields |-> e[f]]
           /\ \A f \in Fields : e[f] \in Values(f)
           /\ e["user"] = e.user /\ e["role"] = e.role /\ e["left"] = e.left
           /\ e["since"] = e.since /\ e["unread"] = e.unread
           /\ e.user \in Users /\ e.role \in {"admin", "member"} /\ e.left \in BOOLEAN
           /\ e.since \in Nat /\ e.unread \in Nat
<1>1. e = [f \in Fields |-> e[f]]
  BY DEF Entry, Fields
<1>2. \A f \in Fields : e[f] \in Values(f)
  BY DEF Entry, Fields, Values
<1>3. /\ e.user \in Users /\ e.role \in {"admin", "member"} /\ e.left \in BOOLEAN
      /\ e.since \in Nat /\ e.unread \in Nat
  BY GroupsAssumption DEF Entry
<1> QED BY <1>1, <1>2, <1>3

LEMMA FieldsEntry ==
    ASSUME NEW g, g = [f \in Fields |-> g[f]], \A f \in Fields : g[f] \in Values(f)
    PROVE  g \in Entry
<1>1. /\ g["user"] \in Users /\ g["role"] \in {"admin", "member"} /\ g["left"] \in BOOLEAN
      /\ g["since"] \in 0..MaxPosts /\ g["unread"] \in 0..MaxPosts
  BY DEF Fields, Values
<1>2. g = [user |-> g["user"], role |-> g["role"], left |-> g["left"], since |-> g["since"],
           unread |-> g["unread"]]
  BY Zenon DEF Fields
<1> QED BY <1>1, <1>2 DEF Entry

(* A draft that fits the array it is applied to *)
Fits(d, row) ==
    /\ DOMAIN d.set \subseteq (DOMAIN row) \X Fields
    /\ \A w \in DOMAIN d.set : d.set[w] \in Values(w[2])
    /\ d.push \in Seq(Entry)

(* The server sets the fields that are sent, keeps the others and appends *)
(* what is pushed.                                                        *)
LEMMA AppliedRow ==
    ASSUME NEW row \in Seq(Entry), NEW d, Fits(d, row)
    PROVE  LET new == Applied(row, d) IN
           /\ new \in Seq(Entry) /\ Len(new) = Len(row) + Len(d.push)
           /\ Len(row) \in Nat /\ Len(d.push) \in Nat
           /\ DOMAIN row = 1..Len(row) /\ DOMAIN new = 1..Len(new)
           /\ DOMAIN row \subseteq DOMAIN new
           /\ \A i \in DOMAIN row, f \in Fields :
                 new[i][f] = IF <<i, f>> \in DOMAIN d.set THEN d.set[<<i, f>>] ELSE row[i][f]
           /\ \A i \in 1..Len(d.push) : new[Len(row) + i] = d.push[i]
<1> DEFINE n == Len(row)
           Entry1(i) == [f \in Fields |-> IF <<i, f>> \in DOMAIN d.set THEN d.set[<<i, f>>] ELSE row[i][f]]
           base == [i \in DOMAIN row |-> Entry1(i)]
           new == Applied(row, d)
<1>1. n \in Nat /\ DOMAIN row = 1..n /\ (\A i \in 1..n : row[i] \in Entry) /\ d.push \in Seq(Entry)
      /\ Len(d.push) \in Nat
  BY LenProperties DEF Fits
<1>2. ASSUME NEW i \in 1..n PROVE Entry1(i) \in Entry
  <2> DEFINE g == Entry1(i)
  <2>1. g = [f \in Fields |-> g[f]]
    OBVIOUS
  <2>2. \A f \in Fields : g[f] \in Values(f)
    BY <1>1, EntryFields DEF Fits
  <2> HIDE DEF g
  <2>3. g \in Entry
    BY <2>1, <2>2, FieldsEntry
  <2> QED BY <2>3 DEF g
<1>3. base \in Seq(Entry) /\ Len(base) = n /\ \A i \in 1..n : base[i] = Entry1(i)
  <2>1. base \in [1..n -> Entry]
    BY <1>1, <1>2
  <2> QED BY <1>1, <2>1
<1>4. new = base \o d.push
  BY DEF Applied
<1> HIDE DEF base, new, n
<1>5. /\ new \in Seq(Entry) /\ Len(new) = n + Len(d.push)
      /\ \A i \in 1..(n + Len(d.push)) : new[i] = IF i <= n THEN base[i] ELSE d.push[i - n]
  <2>1. /\ base \o d.push \in Seq(Entry) /\ Len(base \o d.push) = Len(base) + Len(d.push)
        /\ \A i \in 1..(Len(base) + Len(d.push)) :
              (base \o d.push)[i] = IF i <= Len(base) THEN base[i] ELSE d.push[i - Len(base)]
    <3>1. base \in Seq(Entry) /\ d.push \in Seq(Entry)
      BY <1>1, <1>3
    <3> DEFINE push == d.push
    <3> HIDE DEF push
    <3>2. /\ base \o push \in Seq(Entry) /\ Len(base \o push) = Len(base) + Len(push)
          /\ \A i \in 1..(Len(base) + Len(push)) :
                (base \o push)[i] = IF i <= Len(base) THEN base[i] ELSE push[i - Len(base)]
      BY <3>1, ConcatProperties, Zenon DEF push
    <3> QED BY <3>2 DEF push
  <2> QED BY <1>3, <1>4, <2>1
<1>6. DOMAIN new = 1..Len(new)
  BY <1>5, LenProperties
<1>7. 1..n \subseteq 1..Len(new)
  BY <1>1, <1>5
<1>8. ASSUME NEW i \in 1..n, NEW f \in Fields
      PROVE  new[i][f] = IF <<i, f>> \in DOMAIN d.set THEN d.set[<<i, f>>] ELSE row[i][f]
  <2>1. i \in 1..(n + Len(d.push)) /\ i <= n
    BY <1>1
  <2>2. new[i] = Entry1(i)
    BY <1>3, <1>5, <2>1
  <2> QED BY <2>2
<1>9. ASSUME NEW i \in 1..Len(d.push) PROVE new[n + i] = d.push[i]
  <2>1. n + i \in 1..(n + Len(d.push)) /\ ~(n + i <= n) /\ (n + i) - n = i
    BY <1>1
  <2> QED BY <1>5, <2>1
<1> QED BY <1>1, <1>5, <1>6, <1>7, <1>8, <1>9 DEF new, n

(* A save that nothing came before writes the copy that was made: what is *)
(* sent tells all of it.                                                  *)
LEMMA RoundTrip ==
    ASSUME members \in Seq(Entry), NEW new \in Seq(Entry), Len(new) >= Len(members), NEW touch \in BOOLEAN
    PROVE  LET d == Draft(new, touch) IN
           /\ Fits(d, members) /\ Applied(members, d) = new
           /\ d.ver = version /\ d.where \in BOOLEAN
           /\ \A i \in DOMAIN members, f \in Fields :
                 <<i, f>> \in DOMAIN d.set <=> new[i][f] # members[i][f]
           /\ \A i \in DOMAIN members, f \in Fields : <<i, f>> \in DOMAIN d.set => d.set[<<i, f>>] = new[i][f]
           /\ d.push = SubSeq(new, Len(members) + 1, Len(new))
           /\ Len(d.push) = Len(new) - Len(members)
           /\ \A i \in DOMAIN d.push : d.push[i] = new[Len(members) + i]
           /\ d = [ver |-> d.ver, where |-> d.where, set |-> d.set, push |-> d.push]
<1> DEFINE n == Len(members)
           m == Len(new)
           d == Draft(new, touch)
           w == Changed(members, new)
<1>1. /\ n \in Nat /\ m \in Nat /\ DOMAIN members = 1..n /\ DOMAIN new = 1..m
      /\ (\A i \in 1..n : members[i] \in Entry) /\ (\A i \in 1..m : new[i] \in Entry) /\ n <= m
  BY LenProperties
<1>2. /\ d.ver = version /\ d.where \in BOOLEAN /\ DOMAIN d.set = w
      /\ \A x \in w : d.set[x] = new[x[1]][x[2]]
      /\ d.push = SubSeq(new, n + 1, m)
      /\ d = [ver |-> d.ver, where |-> d.where, set |-> d.set, push |-> d.push]
  BY DEF Draft
<1>3. w \subseteq (1..n) \X Fields /\ \A i \in 1..n, f \in Fields : <<i, f>> \in w <=> new[i][f] # members[i][f]
  BY <1>1 DEF Changed
<1> HIDE DEF n, m, d, w
<1>4. /\ d.push \in Seq(Entry) /\ Len(d.push) = m - n /\ DOMAIN d.push = 1..(m - n)
      /\ \A i \in 1..(m - n) : d.push[i] = new[n + i]
  <2>1. \A i \in (n + 1)..m : new[i] \in Entry
    BY <1>1
  <2>2. /\ d.push \in Seq(Entry) /\ Len(d.push) = IF n + 1 <= m THEN m - (n + 1) + 1 ELSE 0
        /\ \A i \in 1..(m - (n + 1) + 1) : d.push[i] = new[(n + 1) + i - 1]
    BY <1>1, <1>2, <2>1, SubSeqProperties
  <2>3. m - (n + 1) + 1 = m - n /\ (~(n + 1 <= m) => m - n = 0)
    BY <1>1
  <2>4. \A i \in 1..(m - n) : (n + 1) + i - 1 = n + i
    BY <1>1
  <2>5. Len(d.push) = m - n
    BY <2>2, <2>3
  <2>6. DOMAIN d.push = 1..(m - n)
    BY <2>2, <2>5, LenProperties
  <2>7. \A i \in 1..(m - n) : d.push[i] = new[n + i]
    BY <2>2, <2>3, <2>4
  <2> QED BY <2>2, <2>5, <2>6, <2>7
<1>5. Fits(d, members)
  <2>1. ASSUME NEW x \in w PROVE d.set[x] \in Values(x[2])
    <3>1. x[1] \in 1..n /\ x[2] \in Fields /\ x[1] \in 1..m
      BY <1>1, <1>3
    <3>2. new[x[1]] \in Entry
      BY <1>1, <3>1
    <3> QED BY <1>2, <3>1, <3>2, EntryFields
  <2> QED BY <1>1, <1>2, <1>3, <1>4, <2>1 DEF Fits
<1> DEFINE a == Applied(members, d)
<1>6. /\ a \in Seq(Entry) /\ Len(a) = n + Len(d.push) /\ DOMAIN a = 1..Len(a)
      /\ \A i \in 1..n, f \in Fields :
            a[i][f] = IF <<i, f>> \in DOMAIN d.set THEN d.set[<<i, f>>] ELSE members[i][f]
      /\ \A i \in 1..Len(d.push) : a[n + i] = d.push[i]
  BY <1>1, <1>5, AppliedRow DEF n
<1> HIDE DEF a
<1>7. Len(a) = m /\ \A i \in 1..m : a[i] \in Entry
  BY <1>1, <1>4, <1>6, ElementOfSeq
<1>8. ASSUME NEW i \in 1..m PROVE a[i] = new[i]
  <2>1. CASE i \in 1..n
    <3>1. ASSUME NEW f \in Fields PROVE a[i][f] = new[i][f]
      <4>1. <<i, f>> \in w => d.set[<<i, f>>] = new[i][f]
        BY <1>2
      <4> QED BY <1>2, <1>3, <1>6, <2>1, <4>1
    <3>2. a[i] = [f \in Fields |-> a[i][f]] /\ new[i] = [f \in Fields |-> new[i][f]]
      BY <1>1, <1>7, EntryFields
    <3> QED BY <3>1, <3>2
  <2>2. CASE i \notin 1..n
    <3>1. i - n \in 1..(m - n) /\ n + (i - n) = i
      BY <1>1, <2>2
    <3> QED BY <1>4, <1>6, <3>1
  <2> QED BY <2>1, <2>2
<1>9. a = new
  BY <1>1, <1>6, <1>7, <1>8, SeqEqual DEF m
<1> QED BY <1>1, <1>2, <1>3, <1>4, <1>5, <1>9 DEF n, m, d, a

-----------------------------------------------------------------------------
(* What traffic leaves alone *)

(* The same entries but for counts and times *)
Alike(row, other) ==
    /\ DOMAIN row = DOMAIN other
    /\ \A i \in DOMAIN row :
          row[i].user = other[i].user /\ row[i].role = other[i].role /\ row[i].left = other[i].left

LEMMA AlikeRows ==
    ASSUME NEW row, NEW other, Alike(row, other)
    PROVE  /\ Active(row) = Active(other) /\ People(row) = People(other)
           /\ AdminPeople(row) = AdminPeople(other)
           /\ OneEntry(row) <=> OneEntry(other)
<1>1. Active(row) = Active(other)
  BY DEF Alike, Active
<1>2. Admins(row) = Admins(other)
  BY <1>1 DEF Alike, Admins, Active
<1>3. \A i \in Active(row) : row[i].user = other[i].user
  BY DEF Alike, Active
<1>4. People(row) = People(other)
  BY <1>1, <1>3 DEF People
<1>5. AdminPeople(row) = AdminPeople(other)
  BY <1>1, <1>2, <1>3 DEF AdminPeople, Admins
<1>6. OneEntry(row) <=> OneEntry(other)
  BY DEF Alike, OneEntry
<1> QED BY <1>1, <1>4, <1>5, <1>6

(* Traffic saves counts and nothing else. *)
LEMMA HarmlessRow ==
    ASSUME NEW row \in Seq(Entry), NEW d, Fits(d, row), Harmless(d)
    PROVE  Alike(row, Applied(row, d))
<1> DEFINE new == Applied(row, d)
<1>1. Len(d.push) = 0 /\ ("user" # "unread" /\ "role" # "unread" /\ "left" # "unread")
  BY DEF Harmless
<1>2. /\ new \in Seq(Entry) /\ Len(new) = Len(row) + Len(d.push) /\ Len(row) \in Nat
      /\ DOMAIN row = 1..Len(row) /\ DOMAIN new = 1..Len(new)
      /\ \A i \in DOMAIN row, f \in Fields :
            new[i][f] = IF <<i, f>> \in DOMAIN d.set THEN d.set[<<i, f>>] ELSE row[i][f]
  BY AppliedRow
<1> HIDE DEF new
<1>3. DOMAIN row = DOMAIN new
  BY <1>1, <1>2
<1>4. ASSUME NEW i \in DOMAIN row, NEW f \in {"user", "role", "left"} PROVE new[i][f] = row[i][f]
  <2>1. <<i, f>> \notin DOMAIN d.set
    <3> SUFFICES ASSUME <<i, f>> \in DOMAIN d.set PROVE FALSE
      OBVIOUS
    <3>1. <<i, f>>[2] = "unread"
      BY DEF Harmless
    <3> QED BY <3>1
  <2>2. f \in Fields
    BY DEF Fields
  <2> QED BY <1>2, <2>1, <2>2
<1>5. \A i \in DOMAIN row : row[i] \in Entry /\ new[i] \in Entry
  BY <1>2, <1>3, ElementOfSeq
<1>6. ASSUME NEW i \in DOMAIN row
      PROVE  row[i].user = new[i].user /\ row[i].role = new[i].role /\ row[i].left = new[i].left
  BY <1>4, <1>5, EntryFields
<1> QED BY <1>3, <1>6 DEF Alike, new

(* A draft makes the same of arrays that differ in counts only. *)
LEMMA AlikeApplied ==
    ASSUME NEW row \in Seq(Entry), NEW other \in Seq(Entry), Alike(row, other), NEW d, Fits(d, row)
    PROVE  Fits(d, other) /\ Alike(Applied(row, d), Applied(other, d))
<1> DEFINE a == Applied(row, d)
           b == Applied(other, d)
           n == Len(row)
           k == Len(d.push)
<1>1. DOMAIN other = DOMAIN row /\ Fits(d, other) /\ Len(other) = n
  <2>1. DOMAIN other = DOMAIN row
    BY DEF Alike
  <2>2. Len(other) = Len(row)
    BY <2>1, LenProperties
  <2> QED BY <2>1, <2>2 DEF Fits
<1>2. /\ a \in Seq(Entry) /\ Len(a) = n + k /\ n \in Nat /\ k \in Nat
      /\ DOMAIN row = 1..n /\ DOMAIN a = 1..Len(a)
      /\ \A i \in DOMAIN row, f \in Fields :
            a[i][f] = IF <<i, f>> \in DOMAIN d.set THEN d.set[<<i, f>>] ELSE row[i][f]
      /\ \A i \in 1..k : a[n + i] = d.push[i]
  BY AppliedRow
<1>3. /\ b \in Seq(Entry) /\ Len(b) = n + k /\ DOMAIN b = 1..Len(b)
      /\ \A i \in DOMAIN row, f \in Fields :
            b[i][f] = IF <<i, f>> \in DOMAIN d.set THEN d.set[<<i, f>>] ELSE other[i][f]
      /\ \A i \in 1..k : b[n + i] = d.push[i]
  <2>1. Fits(d, other)
    BY <1>1
  <2>2. /\ b \in Seq(Entry) /\ Len(b) = Len(other) + k /\ DOMAIN b = 1..Len(b)
        /\ \A i \in DOMAIN other, f \in Fields :
              b[i][f] = IF <<i, f>> \in DOMAIN d.set THEN d.set[<<i, f>>] ELSE other[i][f]
        /\ \A i \in 1..k : b[Len(other) + i] = d.push[i]
    BY <2>1, AppliedRow
  <2> HIDE DEF b, n, k
  <2> QED BY <1>1, <2>2
<1>4. \A i \in DOMAIN row : row[i] \in Entry /\ other[i] \in Entry
  BY <1>1, <1>2, ElementOfSeq
<1> HIDE DEF a, b, n, k
<1>5. \A i \in 1..(n + k) : a[i] \in Entry /\ b[i] \in Entry
  BY <1>2, <1>3, ElementOfSeq
<1>6. ASSUME NEW i \in DOMAIN row, NEW f \in {"user", "role", "left"} PROVE a[i][f] = b[i][f]
  <2>1. f \in Fields
    BY DEF Fields
  <2>2. row[i][f] = other[i][f]
    BY <1>4, EntryFields DEF Alike
  <2> QED BY <1>2, <1>3, <2>1, <2>2
<1>7. ASSUME NEW i \in 1..(n + k)
      PROVE  a[i].user = b[i].user /\ a[i].role = b[i].role /\ a[i].left = b[i].left
  <2>1. CASE i \in 1..n
    <3>1. a[i]["user"] = b[i]["user"] /\ a[i]["role"] = b[i]["role"] /\ a[i]["left"] = b[i]["left"]
      BY <1>2, <1>6, <2>1
    <3> QED BY <1>5, <3>1, EntryFields
  <2>2. CASE i \notin 1..n
    <3>1. i - n \in 1..k /\ n + (i - n) = i
      BY <1>2, <2>2
    <3>2. a[i] = d.push[i - n] /\ b[i] = d.push[i - n]
      BY <1>2, <1>3, <3>1
    <3> QED BY <3>2
  <2> QED BY <2>1, <2>2
<1> QED BY <1>1, <1>2, <1>3, <1>7 DEF Alike, a, b

-----------------------------------------------------------------------------
(* Seats *)

LEMMA Minimum ==
    ASSUME NEW S \in SUBSET Nat, S # {}
    PROVE  \E i \in S : \A j \in S : i <= j
<1> DEFINE R == OpToRel(<, Nat)
<1>1. IsWellFoundedOn(R, Nat)
  BY NatLessThanWellFounded
<1>2. \A i, j \in Nat : <<i, j>> \in R <=> i < j
  BY DEF OpToRel
<1> HIDE DEF R
<1>3. PICK i \in S : \A j \in S : ~ (<<j, i>> \in R)
  BY <1>1, WFMin
<1>4. ASSUME NEW j \in S PROVE i <= j
  <2>1. i \in Nat /\ j \in Nat /\ ~ (j < i)
    BY <1>2, <1>3
  <2> QED BY <2>1
<1> QED BY <1>4

LEMMA FirstIn ==
    ASSUME NEW S \in SUBSET Nat, S # {}
    PROVE  First(S) \in S /\ \A j \in S : First(S) <= j
BY Minimum DEF First

(* With one entry per user, finding the first active one finds the only one. *)
LEMMA Seat ==
    ASSUME NEW row \in Seq(Entry), OneEntry(row), NEW u
    PROVE  /\ In(row, u) <=> u \in People(row)
           /\ IsAdmin(row, u) <=> u \in AdminPeople(row)
           /\ In(row, u) => LET k == activeMember(row, u) IN
                 /\ k \in DOMAIN row /\ row[k].user = u /\ ~row[k].left
                 /\ \A i \in DOMAIN row : row[i].user = u <=> i = k
           /\ AdminPeople(row) \subseteq People(row)
<1> DEFINE k == activeMember(row, u)
<1>1. In(row, u) <=> u \in People(row)
  BY DEF In, SeatsOf, People
<1>2. AdminPeople(row) \subseteq People(row)
  BY DEF AdminPeople, People, Admins
<1>3. SeatsOf(row, u) \in SUBSET Nat /\ SeatsOf(row, u) \subseteq Active(row) /\ Active(row) \subseteq DOMAIN row
  BY LenProperties DEF SeatsOf, Active
<1>4. ASSUME In(row, u)
      PROVE  /\ k \in DOMAIN row /\ row[k].user = u /\ ~row[k].left /\ k \in Active(row)
             /\ \A i \in DOMAIN row : row[i].user = u <=> i = k
  <2>1. k \in SeatsOf(row, u)
    BY <1>3, <1>4, FirstIn DEF In, activeMember
  <2> HIDE DEF k
  <2>2. k \in Active(row) /\ row[k].user = u
    BY <2>1 DEF SeatsOf
  <2>3. k \in DOMAIN row /\ ~row[k].left
    BY <2>2 DEF Active
  <2> QED BY <2>2, <2>3 DEF OneEntry
<1>5. IsAdmin(row, u) <=> u \in AdminPeople(row)
  <2>1. ASSUME IsAdmin(row, u) PROVE u \in AdminPeople(row)
    <3>1. In(row, u) /\ row[k].role = "admin"
      BY <2>1 DEF IsAdmin
    <3>2. k \in Active(row) /\ row[k].user = u
      BY <1>4, <3>1
    <3> QED BY <3>1, <3>2 DEF AdminPeople, Admins
  <2>2. ASSUME u \in AdminPeople(row) PROVE IsAdmin(row, u)
    <3>1. PICK i \in Admins(row) : row[i].user = u
      BY <2>2 DEF AdminPeople
    <3>2. i \in DOMAIN row /\ row[i].role = "admin" /\ In(row, u)
      BY <1>1, <1>2, <2>2, <3>1 DEF Admins, Active
    <3>3. i = k
      BY <1>4, <3>1, <3>2
    <3> QED BY <3>2, <3>3 DEF IsAdmin
  <2> QED BY <2>1, <2>2
<1> QED BY <1>1, <1>2, <1>4, <1>5

-----------------------------------------------------------------------------
(* Copies *)

LEMMA ExceptRow ==
    ASSUME NEW row \in Seq(Entry), NEW k, NEW e, k \in DOMAIN row => e \in Entry
    PROVE  LET new == [row EXCEPT ![k] = e] IN
           /\ new \in Seq(Entry) /\ Len(new) = Len(row) /\ DOMAIN new = DOMAIN row
           /\ \A i \in DOMAIN row : new[i] = IF i = k THEN e ELSE row[i]
<1>1. DOMAIN row = 1..Len(row) /\ Len(row) \in Nat /\ \A i \in 1..Len(row) : row[i] \in Entry
  BY LenProperties
<1> DEFINE new == [row EXCEPT ![k] = e]
<1>2. DOMAIN new = 1..Len(row) /\ \A i \in 1..Len(row) : new[i] = IF i = k THEN e ELSE row[i]
  BY <1>1
<1>3. new \in [1..Len(row) -> Entry]
  BY <1>1
<1>4. new \in Seq(Entry) /\ Len(new) = Len(row)
  BY <1>1, <1>3
<1> QED BY <1>1, <1>2, <1>4

(* One field of one entry is changed. *)
LEMMA OneField ==
    ASSUME NEW row \in Seq(Entry), NEW k
    PROVE  /\ LET new == [row EXCEPT ![k].left = TRUE] IN
                 /\ new \in Seq(Entry) /\ Len(new) = Len(row) /\ DOMAIN new = DOMAIN row
                 /\ \A i \in DOMAIN row : new[i] = IF i = k THEN [row[i] EXCEPT !.left = TRUE] ELSE row[i]
           /\ \A r \in {"admin", "member"} : LET new == [row EXCEPT ![k].role = r] IN
                 /\ new \in Seq(Entry) /\ Len(new) = Len(row) /\ DOMAIN new = DOMAIN row
                 /\ \A i \in DOMAIN row : new[i] = IF i = k THEN [row[i] EXCEPT !.role = r] ELSE row[i]
           /\ LET new == [row EXCEPT ![k].unread = 0] IN
                 /\ new \in Seq(Entry) /\ Len(new) = Len(row) /\ DOMAIN new = DOMAIN row
                 /\ \A i \in DOMAIN row : new[i] = IF i = k THEN [row[i] EXCEPT !.unread = 0] ELSE row[i]
<1>1. \A i \in DOMAIN row : row[i] \in Entry
  BY LenProperties
<1>2. /\ k \in DOMAIN row => [row[k] EXCEPT !.left = TRUE] \in Entry
      /\ \A r \in {"admin", "member"} : k \in DOMAIN row => [row[k] EXCEPT !.role = r] \in Entry
      /\ k \in DOMAIN row => [row[k] EXCEPT !.unread = 0] \in Entry
  <2>1. \A e \in Entry : [e EXCEPT !.left = TRUE] \in Entry
    BY DEF Entry
  <2>2. \A e \in Entry, r \in {"admin", "member"} : [e EXCEPT !.role = r] \in Entry
    BY DEF Entry
  <2>3. \A e \in Entry : [e EXCEPT !.unread = 0] \in Entry
    <3>1. 0 \in 0..MaxPosts
      BY GroupsAssumption
    <3> QED BY <3>1 DEF Entry
  <2> QED BY <1>1, <2>1, <2>2, <2>3
<1>3. LET new == [row EXCEPT ![k] = [row[k] EXCEPT !.left = TRUE]] IN
         /\ new \in Seq(Entry) /\ Len(new) = Len(row) /\ DOMAIN new = DOMAIN row
         /\ \A i \in DOMAIN row : new[i] = IF i = k THEN [row[k] EXCEPT !.left = TRUE] ELSE row[i]
  BY <1>2, ExceptRow
<1>4. ASSUME NEW r \in {"admin", "member"}
      PROVE  LET new == [row EXCEPT ![k] = [row[k] EXCEPT !.role = r]] IN
                /\ new \in Seq(Entry) /\ Len(new) = Len(row) /\ DOMAIN new = DOMAIN row
                /\ \A i \in DOMAIN row : new[i] = IF i = k THEN [row[k] EXCEPT !.role = r] ELSE row[i]
  BY <1>2, ExceptRow
<1>5. LET new == [row EXCEPT ![k] = [row[k] EXCEPT !.unread = 0]] IN
         /\ new \in Seq(Entry) /\ Len(new) = Len(row) /\ DOMAIN new = DOMAIN row
         /\ \A i \in DOMAIN row : new[i] = IF i = k THEN [row[k] EXCEPT !.unread = 0] ELSE row[i]
  BY <1>2, ExceptRow
<1> QED BY <1>3, <1>4, <1>5

(* The entry at k, of somebody active, is left. *)
LEMMA Leaving ==
    ASSUME NEW row, NEW new, DOMAIN new = DOMAIN row, OneEntry(row), NEW k \in Active(row),
           \A i \in DOMAIN row :
              /\ new[i].user = row[i].user /\ new[i].role = row[i].role
              /\ new[i].left <=> (i = k \/ row[i].left)
    PROVE  /\ OneEntry(new)
           /\ People(new) = People(row) \ {row[k].user}
           /\ AdminPeople(new) = AdminPeople(row) \ {row[k].user}
<1>1. OneEntry(new)
  BY DEF OneEntry
<1>2. Active(new) = Active(row) \ {k} /\ Active(row) \subseteq DOMAIN row /\ k \in DOMAIN row
  BY DEF Active
<1>3. \A i \in Active(row) : i # k <=> row[i].user # row[k].user
  BY <1>2 DEF OneEntry
<1>4. People(new) = People(row) \ {row[k].user}
  BY <1>2, <1>3 DEF People
<1>5. AdminPeople(new) = AdminPeople(row) \ {row[k].user}
  BY <1>2, <1>3 DEF AdminPeople, Admins
<1> QED BY <1>1, <1>4, <1>5

(* The role at k, of somebody active, is set. *)
LEMMA Setting ==
    ASSUME NEW row, NEW new, DOMAIN new = DOMAIN row, OneEntry(row), NEW k \in Active(row),
           \A i \in DOMAIN row : new[i].user = row[i].user /\ new[i].left = row[i].left,
           \A i \in DOMAIN row : i # k => new[i].role = row[i].role
    PROVE  /\ OneEntry(new)
           /\ new[k].role = "admin" => AdminPeople(new) = AdminPeople(row) \cup {row[k].user}
           /\ new[k].role # "admin" => AdminPeople(new) = AdminPeople(row) \ {row[k].user}
<1>1. OneEntry(new)
  BY DEF OneEntry
<1>2. Active(new) = Active(row) /\ Active(row) \subseteq DOMAIN row /\ k \in DOMAIN row
  BY DEF Active
<1>3. \A i \in Active(row) : i # k <=> row[i].user # row[k].user
  BY <1>2 DEF OneEntry
<1>4. new[k].role = "admin" => Admins(new) = Admins(row) \cup {k}
  BY <1>2 DEF Admins
<1>5. new[k].role # "admin" => Admins(new) = Admins(row) \ {k}
  BY <1>2 DEF Admins
<1>6. Admins(row) \subseteq Active(row)
  BY DEF Admins
<1>7. new[k].role = "admin" => AdminPeople(new) = AdminPeople(row) \cup {row[k].user}
  BY <1>2, <1>4, <1>6 DEF AdminPeople
<1>8. new[k].role # "admin" => AdminPeople(new) = AdminPeople(row) \ {row[k].user}
  BY <1>2, <1>3, <1>5, <1>6 DEF AdminPeople
<1> QED BY <1>1, <1>7, <1>8

(* The entry of x, whom nobody active is, becomes that of a plain member, or is *)
(* appended.                                                                    *)
LEMMA Joining ==
    ASSUME NEW row \in Seq(Entry), NEW new \in Seq(Entry), OneEntry(row), NEW x, x \notin People(row),
           NEW k \in DOMAIN new, new[k].user = x, new[k].role = "member", ~new[k].left,
           DOMAIN new = DOMAIN row \cup {k},
           \A i \in DOMAIN row : i # k => new[i] = row[i],
           \A i \in DOMAIN row : row[i].user = x <=> i = k
    PROVE  /\ OneEntry(new)
           /\ People(new) = People(row) \cup {x} /\ AdminPeople(new) = AdminPeople(row)
<1>1. \A i \in DOMAIN new : i # k => i \in DOMAIN row /\ new[i] = row[i] /\ new[i].user # x
  OBVIOUS
<1>2. OneEntry(new)
  BY <1>1 DEF OneEntry
<1>3. k \notin Active(row)
  <2> SUFFICES ASSUME k \in Active(row) PROVE FALSE
    OBVIOUS
  <2>1. k \in DOMAIN row /\ ~row[k].left /\ row[k].user \in People(row)
    BY DEF Active, People
  <2> QED BY <2>1
<1>4. Active(new) = Active(row) \cup {k} /\ Active(row) \subseteq DOMAIN row
  BY <1>1, <1>3 DEF Active
<1>5. People(new) = People(row) \cup {x}
  BY <1>1, <1>3, <1>4 DEF People
<1>6. Admins(new) = Admins(row)
  BY <1>1, <1>3, <1>4 DEF Admins
<1>7. AdminPeople(new) = AdminPeople(row)
  <2>1. \A i \in Admins(row) : new[i] = row[i]
    BY <1>3, <1>4 DEF Admins
  <2> QED BY <1>6, <2>1 DEF AdminPeople
<1> QED BY <1>2, <1>5, <1>7

(* What is to be known of the copy `new' of `row' that u makes for o about x: it *)
(* counts nothing up, brings nobody back but as a plain member, and changes the  *)
(* membership as o says.                                                         *)
Copied(o, u, x, row, new) ==
    /\ new \in Seq(Entry) /\ Len(row) <= Len(new) /\ Len(new) <= Len(row) + 1
    /\ \A i \in DOMAIN new : new[i].unread = 0 \/ (i \in DOMAIN row /\ new[i].unread = row[i].unread)
    /\ Plain(row, new)
    /\ OneEntry(row) => OneEntry(new) /\ Change(o, u, x, row, new)
    /\ \A count \in [Users -> Nat] :
          OneEntry(row) /\ Exact(row, count) =>
             Exact(new, IF o \in {"read", "add"} THEN [count EXCEPT ![x] = 0] ELSE count)

LEMMA AddCopied ==
    ASSUME NEW row \in Seq(Entry), NEW u \in Users, NEW x \in Users, IsAdmin(row, u), ~In(row, x),
           NEW now \in 0..MaxPosts
    PROVE  LET old == {i \in DOMAIN row : row[i].user = x}
               new == IF old = {} THEN Append(row, MemberDoc(x, "member", now))
                      ELSE [row EXCEPT ![First(old)] = MemberDoc(x, "member", now)]
           IN  Copied("add", u, x, row, new)
<1> DEFINE doc == MemberDoc(x, "member", now)
           old == {i \in DOMAIN row : row[i].user = x}
           k == IF old = {} THEN Len(row) + 1 ELSE First(old)
           new == IF old = {} THEN Append(row, doc) ELSE [row EXCEPT ![First(old)] = doc]
<1>1. /\ doc \in Entry /\ doc.user = x /\ doc.role = "member" /\ ~doc.left /\ doc.unread = 0
  BY GroupsAssumption DEF MemberDoc, Entry
<1>2. DOMAIN row = 1..Len(row) /\ Len(row) \in Nat /\ \A i \in 1..Len(row) : row[i] \in Entry
  BY LenProperties
<1> HIDE DEF doc
<1>3. /\ new \in Seq(Entry) /\ Len(row) <= Len(new) /\ Len(new) <= Len(row) + 1
      /\ DOMAIN new = DOMAIN row \cup {k} /\ new[k] = doc
      /\ \A i \in DOMAIN row : i # k => new[i] = row[i]
  <2>1. CASE old = {}
    <3>1. new = Append(row, doc) /\ k = Len(row) + 1
      BY <2>1
    <3> HIDE DEF new, k
    <3>2. /\ Append(row, doc) \in Seq(Entry) /\ Len(Append(row, doc)) = Len(row) + 1
          /\ \A i \in 1..Len(row) : Append(row, doc)[i] = row[i]
          /\ Append(row, doc)[Len(row) + 1] = doc
      BY <1>1, AppendProperties
    <3>3. DOMAIN new = 1..(Len(row) + 1)
      BY <3>1, <3>2, LenProperties
    <3> QED BY <1>2, <3>1, <3>2, <3>3
  <2>2. CASE old # {}
    <3>1. new = [row EXCEPT ![k] = doc]
      BY <2>2
    <3>2. k \in DOMAIN row
      <4>1. old \in SUBSET Nat
        BY <1>2
      <4>2. First(old) \in old
        BY <2>2, <4>1, FirstIn
      <4> QED BY <2>2, <4>2
    <3> HIDE DEF new, k
    <3>3. /\ new \in Seq(Entry) /\ Len(new) = Len(row) /\ DOMAIN new = DOMAIN row
          /\ \A i \in DOMAIN row : new[i] = IF i = k THEN doc ELSE row[i]
      BY <1>1, <3>1, ExceptRow
    <3> QED BY <1>2, <3>2, <3>3
  <2> QED BY <2>1, <2>2
<1>4. k \in DOMAIN row => row[k].user = x
  <2>1. CASE old = {}
    BY <1>2, <2>1
  <2>2. CASE old # {}
    <3>1. old \in SUBSET Nat
      BY <1>2
    <3>2. First(old) \in old
      BY <2>2, <3>1, FirstIn
    <3> QED BY <2>2, <3>2
  <2> QED BY <2>1, <2>2
<1>5. old = {} => \A i \in DOMAIN row : row[i].user # x
  OBVIOUS
<1>6. old # {} => k \in DOMAIN row
  <2>1. old \in SUBSET Nat
    BY <1>2
  <2>2. old # {} => First(old) \in old
    BY <2>1, FirstIn
  <2> QED BY <2>2
<1> HIDE DEF new, k, old
<1>7. \A i \in DOMAIN new : new[i].unread = 0 \/ (i \in DOMAIN row /\ new[i].unread = row[i].unread)
  BY <1>1, <1>3
<1>8. Plain(row, new)
  BY <1>1, <1>3 DEF Plain
<1>9. ASSUME OneEntry(row)
      PROVE  /\ OneEntry(new) /\ x \notin People(row) /\ u \in AdminPeople(row)
             /\ People(new) = People(row) \cup {x} /\ AdminPeople(new) = AdminPeople(row)
  <2>1. x \notin People(row) /\ u \in AdminPeople(row)
    BY <1>9, Seat
  <2>2. \A i \in DOMAIN row : row[i].user = x <=> i = k
    BY <1>4, <1>5, <1>6, <1>9 DEF OneEntry
  <2>3. k \in DOMAIN new /\ new[k].user = x /\ new[k].role = "member" /\ ~new[k].left
    BY <1>1, <1>3
  <2> QED BY <1>3, <1>9, <2>1, <2>2, <2>3, Joining
<1>10. ASSUME NEW count \in [Users -> Nat], OneEntry(row), Exact(row, count)
       PROVE  Exact(new, [count EXCEPT ![x] = 0])
  <2>1. OneEntry(new)
    BY <1>9, <1>10
  <2> SUFFICES ASSUME NEW i \in Active(new) PROVE new[i].unread = [count EXCEPT ![x] = 0][new[i].user]
    BY DEF Exact
  <2>2. i \in DOMAIN new /\ ~new[i].left
    BY DEF Active
  <2>3. CASE i = k
    BY <1>1, <1>3, <2>3
  <2>4. CASE i # k
    <3>1. i \in DOMAIN row /\ new[i] = row[i] /\ i \in Active(row)
      BY <1>3, <2>2, <2>4 DEF Active
    <3>2. new[i].user # x /\ row[i].user \in Users
      BY <1>1, <1>2, <1>3, <2>1, <2>2, <2>4, <3>1, EntryFields DEF OneEntry
    <3> QED BY <1>10, <3>1, <3>2 DEF Exact
  <2> QED BY <2>3, <2>4
<1>11. Change("add", u, x, row, new) <=>
          u \in AdminPeople(row) /\ x \notin People(row) /\ People(new) = People(row) \cup {x}
             /\ AdminPeople(new) = AdminPeople(row)
  BY DEF Change
<1>12. Copied("add", u, x, row, new)
  BY <1>3, <1>7, <1>8, <1>9, <1>10, <1>11 DEF Copied
<1> QED BY <1>12 DEF new, old, doc

(* The entry of somebody active is left: removing, hiding, and leaving when *)
(* nobody is promoted.                                                      *)
LEMMA LeftCopied ==
    ASSUME NEW row \in Seq(Entry), NEW u \in Users, In(row, u)
    PROVE  LET k == activeMember(row, u)
               new == [row EXCEPT ![k].left = TRUE]
           IN  /\ new \in Seq(Entry) /\ Len(new) = Len(row) /\ DOMAIN new = DOMAIN row
               /\ \A i \in DOMAIN new : new[i].unread = row[i].unread
               /\ Plain(row, new)
               /\ OneEntry(row) =>
                     /\ OneEntry(new)
                     /\ People(new) = People(row) \ {u} /\ AdminPeople(new) = AdminPeople(row) \ {u}
               /\ \A count : Exact(row, count) => Exact(new, count)
<1> DEFINE k == activeMember(row, u)
           new == [row EXCEPT ![k].left = TRUE]
<1>1. /\ new \in Seq(Entry) /\ Len(new) = Len(row) /\ DOMAIN new = DOMAIN row
      /\ \A i \in DOMAIN row : new[i] = IF i = k THEN [row[i] EXCEPT !.left = TRUE] ELSE row[i]
  BY OneField
<1>2. \A i \in DOMAIN row : row[i] \in Entry
  BY LenProperties
<1> HIDE DEF new
<1>3. \A i \in DOMAIN row :
         /\ new[i].user = row[i].user /\ new[i].role = row[i].role /\ new[i].unread = row[i].unread
         /\ new[i].left <=> (i = k \/ row[i].left)
  BY <1>1, <1>2 DEF Entry
<1>4. OneEntry(row) =>
         /\ OneEntry(new)
         /\ People(new) = People(row) \ {u} /\ AdminPeople(new) = AdminPeople(row) \ {u}
  <2> SUFFICES ASSUME OneEntry(row)
               PROVE  /\ OneEntry(new)
                      /\ People(new) = People(row) \ {u} /\ AdminPeople(new) = AdminPeople(row) \ {u}
    OBVIOUS
  <2>1. k \in DOMAIN row /\ row[k].user = u /\ ~row[k].left
    BY Seat
  <2> HIDE DEF k
  <2>2. k \in Active(row)
    BY <2>1 DEF Active
  <2> QED BY <1>1, <1>3, <2>1, <2>2, Leaving
<1> HIDE DEF k
<1>5. Plain(row, new)
  BY <1>3 DEF Plain
<1>6. \A count : Exact(row, count) => Exact(new, count)
  BY <1>1, <1>3 DEF Exact, Active
<1>7. \A i \in DOMAIN new : new[i].unread = row[i].unread
  BY <1>1, <1>3
<1> QED BY <1>1, <1>4, <1>5, <1>6, <1>7 DEF new, k

LEMMA RemoveCopied ==
    ASSUME NEW row \in Seq(Entry), NEW u \in Users, NEW x \in Users, IsAdmin(row, u), x # u, In(row, x)
    PROVE  LET new == [row EXCEPT ![activeMember(row, x)].left = TRUE]
           IN  Copied("remove", u, x, row, new) /\ Len(new) = Len(row)
<1> DEFINE new == [row EXCEPT ![activeMember(row, x)].left = TRUE]
<1>1. /\ new \in Seq(Entry) /\ Len(new) = Len(row) /\ DOMAIN new = DOMAIN row
      /\ \A i \in DOMAIN new : new[i].unread = row[i].unread
      /\ Plain(row, new)
      /\ OneEntry(row) =>
            /\ OneEntry(new)
            /\ People(new) = People(row) \ {x} /\ AdminPeople(new) = AdminPeople(row) \ {x}
      /\ \A count : Exact(row, count) => Exact(new, count)
  BY LeftCopied
<1>2. Len(row) \in Nat
  BY LenProperties
<1> HIDE DEF new
<1>3. ASSUME OneEntry(row) PROVE Change("remove", u, x, row, new)
  <2>1. u \in AdminPeople(row) /\ x \in People(row)
    BY <1>3, Seat
  <2> QED BY <1>1, <1>3, <2>1 DEF Change
<1>4. Copied("remove", u, x, row, new)
  BY <1>1, <1>2, <1>3 DEF Copied
<1> QED BY <1>1, <1>4 DEF new

LEMMA HideCopied ==
    ASSUME NEW row \in Seq(Entry), NEW u \in Users, In(row, u)
    PROVE  LET new == [row EXCEPT ![activeMember(row, u)].left = TRUE]
           IN  Copied("hide", u, u, row, new) /\ Len(new) = Len(row)
<1> DEFINE new == [row EXCEPT ![activeMember(row, u)].left = TRUE]
<1>1. /\ new \in Seq(Entry) /\ Len(new) = Len(row) /\ DOMAIN new = DOMAIN row
      /\ \A i \in DOMAIN new : new[i].unread = row[i].unread
      /\ Plain(row, new)
      /\ OneEntry(row) => OneEntry(new)
      /\ \A count : Exact(row, count) => Exact(new, count)
  BY LeftCopied
<1>2. Len(row) \in Nat
  BY LenProperties
<1> HIDE DEF new
<1>3. Change("hide", u, u, row, new)
  BY DEF Change
<1>4. Copied("hide", u, u, row, new)
  BY <1>1, <1>2, <1>3 DEF Copied
<1> QED BY <1>1, <1>4 DEF new

(* The role of somebody active is set: promoting, demoting, handing over. *)
LEMMA RoleSet ==
    ASSUME NEW row \in Seq(Entry), NEW k \in Active(row), NEW new, NEW e \in Entry,
           new \in Seq(Entry), Len(new) = Len(row), DOMAIN new = DOMAIN row,
           \A i \in DOMAIN row : new[i] = IF i = k THEN e ELSE row[i],
           e.user = row[k].user, e.left = row[k].left, e.unread = row[k].unread
    PROVE  /\ \A i \in DOMAIN new : new[i].unread = row[i].unread
           /\ \A i \in DOMAIN new : new[i].user = row[i].user
           /\ Plain(row, new) /\ Active(new) = Active(row) /\ People(new) = People(row)
           /\ OneEntry(row) =>
                 /\ OneEntry(new)
                 /\ e.role = "admin" => AdminPeople(new) = AdminPeople(row) \cup {row[k].user}
                 /\ e.role # "admin" => AdminPeople(new) = AdminPeople(row) \ {row[k].user}
           /\ \A count : Exact(row, count) => Exact(new, count)
<1>1. k \in DOMAIN row
  BY DEF Active
<1>2. /\ \A i \in DOMAIN row : new[i].user = row[i].user /\ new[i].left = row[i].left
      /\ \A i \in DOMAIN row : new[i].unread = row[i].unread
      /\ \A i \in DOMAIN row : i # k => new[i].role = row[i].role
      /\ new[k].role = e.role
  BY <1>1
<1>3. Active(new) = Active(row)
  BY <1>2 DEF Active
<1>4. People(new) = People(row)
  BY <1>2, <1>3 DEF People, Active
<1>5. ASSUME OneEntry(row)
      PROVE  /\ OneEntry(new)
             /\ e.role = "admin" => AdminPeople(new) = AdminPeople(row) \cup {row[k].user}
             /\ e.role # "admin" => AdminPeople(new) = AdminPeople(row) \ {row[k].user}
  <2>1. /\ OneEntry(new)
        /\ new[k].role = "admin" => AdminPeople(new) = AdminPeople(row) \cup {row[k].user}
        /\ new[k].role # "admin" => AdminPeople(new) = AdminPeople(row) \ {row[k].user}
    BY <1>2, <1>5, Setting
  <2> QED BY <1>2, <2>1
<1>6. Plain(row, new)
  BY <1>2 DEF Plain
<1>7. \A count : Exact(row, count) => Exact(new, count)
  BY <1>2, <1>3 DEF Exact, Active
<1> QED BY <1>2, <1>3, <1>4, <1>5, <1>6, <1>7

LEMMA RoleCopied ==
    ASSUME NEW row \in Seq(Entry), NEW u \in Users, NEW x \in Users, IsAdmin(row, u), x # u, In(row, x),
           NEW r \in {"admin", "member"}
    PROVE  LET new == [row EXCEPT ![activeMember(row, x)].role = r]
           IN  Copied("role", u, x, row, new) /\ Len(new) = Len(row)
<1> DEFINE k == activeMember(row, x)
           e == [row[k] EXCEPT !.role = r]
           new == [row EXCEPT ![k].role = r]
<1>1. SeatsOf(row, x) # {} /\ SeatsOf(row, x) \in SUBSET Nat
  BY LenProperties DEF In, SeatsOf, Active
<1>2. k \in SeatsOf(row, x)
  BY <1>1, FirstIn DEF activeMember
<1>3. k \in Active(row) /\ row[k].user = x /\ row[k] \in Entry
  BY <1>2, LenProperties DEF SeatsOf, Active
<1> HIDE DEF k
<1>4. /\ e \in Entry /\ e.user = row[k].user /\ e.left = row[k].left /\ e.unread = row[k].unread
  BY <1>3 DEF Entry
<1>5. new = [row EXCEPT ![k] = e]
  OBVIOUS
<1> HIDE DEF e, new
<1>6. /\ new \in Seq(Entry) /\ Len(new) = Len(row) /\ DOMAIN new = DOMAIN row
      /\ \A i \in DOMAIN row : new[i] = IF i = k THEN e ELSE row[i]
  BY <1>4, <1>5, ExceptRow
<1>7. k \in Active(row)
  BY <1>3
<1>8. /\ \A i \in DOMAIN new : new[i].unread = row[i].unread
      /\ \A i \in DOMAIN new : new[i].user = row[i].user
      /\ Plain(row, new) /\ Active(new) = Active(row) /\ People(new) = People(row)
      /\ OneEntry(row) =>
            /\ OneEntry(new)
            /\ e.role = "admin" => AdminPeople(new) = AdminPeople(row) \cup {row[k].user}
            /\ e.role # "admin" => AdminPeople(new) = AdminPeople(row) \ {row[k].user}
      /\ \A count : Exact(row, count) => Exact(new, count)
  BY <1>4, <1>6, <1>7, RoleSet
<1>9. Len(row) \in Nat
  BY LenProperties
<1>10. ASSUME OneEntry(row) PROVE Change("role", u, x, row, new)
  <2>1. u \in AdminPeople(row) /\ x \in People(row)
    BY <1>10, Seat
  <2>2. AdminPeople(new) \in {AdminPeople(row) \cup {x}, AdminPeople(row) \ {x}}
    BY <1>3, <1>8, <1>10
  <2> QED BY <1>8, <2>1, <2>2 DEF Change
<1>11. Copied("role", u, x, row, new)
  BY <1>6, <1>8, <1>9, <1>10 DEF Copied
<1> QED BY <1>6, <1>11 DEF new, k

(* Reading clears one count. *)
LEMMA ReadCopied ==
    ASSUME NEW row \in Seq(Entry), NEW u \in Users, In(row, u)
    PROVE  LET new == [row EXCEPT ![activeMember(row, u)].unread = 0]
           IN  /\ Copied("read", u, u, row, new) /\ Len(new) = Len(row)
               /\ Alike(row, new) /\ \A i \in DOMAIN row : new[i].since = row[i].since
<1> DEFINE k == activeMember(row, u)
           e == [row[k] EXCEPT !.unread = 0]
           new == [row EXCEPT ![k].unread = 0]
<1>1. \A i \in DOMAIN row : row[i] \in Entry
  BY LenProperties
<1>2. k \in Active(row) /\ row[k].user = u /\ k \in DOMAIN row
  <2>1. SeatsOf(row, u) # {} /\ SeatsOf(row, u) \in SUBSET Nat
    BY LenProperties DEF In, SeatsOf, Active
  <2>2. k \in SeatsOf(row, u)
    BY <2>1, FirstIn DEF activeMember
  <2> QED BY <2>2 DEF SeatsOf, Active
<1> HIDE DEF k
<1>3. /\ e \in Entry /\ e.user = row[k].user /\ e.left = row[k].left /\ e.role = row[k].role
      /\ e.since = row[k].since /\ e.unread = 0
  <2>1. 0 \in 0..MaxPosts
    BY GroupsAssumption
  <2> QED BY <1>1, <1>2, <2>1 DEF Entry
<1>4. new = [row EXCEPT ![k] = e]
  OBVIOUS
<1> HIDE DEF e, new
<1>5. /\ new \in Seq(Entry) /\ Len(new) = Len(row) /\ DOMAIN new = DOMAIN row
      /\ \A i \in DOMAIN row : new[i] = IF i = k THEN e ELSE row[i]
  BY <1>3, <1>4, ExceptRow
<1>6. \A i \in DOMAIN row :
         /\ new[i].user = row[i].user /\ new[i].left = row[i].left /\ new[i].role = row[i].role
         /\ new[i].since = row[i].since
         /\ new[i].unread = IF i = k THEN 0 ELSE row[i].unread
  BY <1>3, <1>5
<1>7. Alike(row, new)
  BY <1>5, <1>6 DEF Alike
<1>8. Plain(row, new)
  BY <1>6 DEF Plain
<1>9. OneEntry(row) => OneEntry(new)
  BY <1>7, AlikeRows
<1>10. ASSUME NEW count \in [Users -> Nat], OneEntry(row), Exact(row, count)
       PROVE  Exact(new, [count EXCEPT ![u] = 0])
  <2> SUFFICES ASSUME NEW i \in Active(new) PROVE new[i].unread = [count EXCEPT ![u] = 0][new[i].user]
    BY DEF Exact
  <2>1. i \in DOMAIN row /\ i \in Active(row) /\ new[i].user = row[i].user /\ row[i].user \in Users
    BY <1>1, <1>5, <1>6, EntryFields DEF Active
  <2>2. CASE i = k
    BY <1>2, <1>6, <2>1, <2>2
  <2>3. CASE i # k
    <3>1. row[i].user # u
      BY <1>2, <1>10, <2>1, <2>3 DEF OneEntry
    <3> QED BY <1>6, <1>10, <2>1, <2>3, <3>1 DEF Exact
  <2> QED BY <2>2, <2>3
<1>11. Len(row) \in Nat
  BY LenProperties
<1>12. Change("read", u, u, row, new)
  BY DEF Change
<1>13. \A i \in DOMAIN new : new[i].unread = 0 \/ (i \in DOMAIN row /\ new[i].unread = row[i].unread)
  BY <1>5, <1>6
<1>14. Copied("read", u, u, row, new)
  BY <1>5, <1>8, <1>9, <1>10, <1>11, <1>12, <1>13, SMTT(40) DEF Copied
<1> QED BY <1>5, <1>6, <1>7, <1>14 DEF new, k

(* The longest-tenured of the others, when there is one. *)
LEMMA Heir ==
    ASSUME NEW row \in Seq(Entry), NEW u, NEW i \in Active(row), row[i].user # u
    PROVE  longestTenured(row, u) \in Active(row) /\ row[longestTenured(row, u)].user # u
<1> DEFINE rest == {j \in Active(row) : row[j].user # u}
           oldest == {j \in rest : \A k \in rest : row[j].since <= row[k].since}
           times == {row[j].since : j \in rest}
<1>1. i \in rest /\ rest \subseteq DOMAIN row /\ rest \in SUBSET Nat
  BY LenProperties DEF Active
<1>2. \A j \in rest : row[j].since \in Nat
  BY <1>1, LenProperties, EntryFields
<1>3. times \in SUBSET Nat /\ times # {}
  BY <1>1, <1>2
<1>4. PICK t \in times : \A s \in times : t <= s
  BY <1>3, Minimum
<1>5. PICK j \in rest : row[j].since = t
  OBVIOUS
<1>6. j \in oldest
  BY <1>4, <1>5
<1>7. oldest \in SUBSET Nat /\ oldest # {}
  BY <1>1, <1>6
<1>8. First(oldest) \in oldest
  BY <1>7, FirstIn
<1>9. longestTenured(row, u) = First(oldest)
  BY DEF longestTenured
<1>10. First(oldest) \in rest
  BY <1>8
<1> HIDE DEF oldest
<1> QED BY <1>9, <1>10

(* One admin, counted by entries, is one admin, counted by people. *)
LEMMA LoneAdmin ==
    ASSUME NEW row \in Seq(Entry), OneEntry(row), NEW u
    PROVE  Cardinality(Admins(row)) = 1 /\ IsAdmin(row, u) <=> AdminPeople(row) = {u}
<1>1. IsFiniteSet(Admins(row))
  <2>1. IsFiniteSet(1..Len(row)) /\ DOMAIN row = 1..Len(row)
    BY FS_Interval, LenProperties
  <2>2. Admins(row) \subseteq 1..Len(row)
    BY <2>1 DEF Admins, Active
  <2> QED BY <2>1, <2>2, FS_Subset
<1>2. ASSUME Cardinality(Admins(row)) = 1, IsAdmin(row, u) PROVE AdminPeople(row) = {u}
  <2>1. PICK a : Admins(row) = {a}
    BY <1>1, <1>2, FS_Singleton
  <2>2. AdminPeople(row) = {row[a].user}
    BY <2>1 DEF AdminPeople
  <2>3. u \in AdminPeople(row)
    BY <1>2, Seat
  <2> QED BY <2>2, <2>3
<1>3. ASSUME AdminPeople(row) = {u} PROVE Cardinality(Admins(row)) = 1 /\ IsAdmin(row, u)
  <2>1. IsAdmin(row, u)
    BY <1>3, Seat
  <2>2. PICK a \in Admins(row) : row[a].user = u
    BY <1>3 DEF AdminPeople
  <2>3. \A i \in Admins(row) : row[i].user = u /\ i \in DOMAIN row
    BY <1>3 DEF AdminPeople, Admins, Active
  <2>4. Admins(row) = {a}
    BY <2>2, <2>3 DEF OneEntry
  <2> QED BY <2>1, <2>4, FS_Singleton
<1> QED BY <1>2, <1>3

(* Handing over changes one role and keeps everybody where they are. *)
LEMMA PromotedRow ==
    ASSUME NEW row \in Seq(Entry), NEW u \in Users, In(row, u)
    PROVE  LET mid == Promoted(row, u) IN
           /\ mid \in Seq(Entry) /\ Len(mid) = Len(row) /\ DOMAIN mid = DOMAIN row
           /\ \A i \in DOMAIN mid : mid[i].unread = row[i].unread
           /\ \A i \in DOMAIN mid : mid[i].user = row[i].user
           /\ Active(mid) = Active(row) /\ People(mid) = People(row)
           /\ OneEntry(row) =>
                 /\ OneEntry(mid)
                 /\ \/ AdminPeople(row) # {u} /\ AdminPeople(mid) = AdminPeople(row)
                    \/ People(row) = {u} /\ AdminPeople(mid) = {u}
                    \/ AdminPeople(row) = {u} /\ \E heir \in People(row) \ {u} : AdminPeople(mid) = {u, heir}
           /\ \A count : Exact(row, count) => Exact(mid, count)
<1> DEFINE mid == Promoted(row, u)
           hands == /\ Cardinality(Admins(row)) = 1
                    /\ IsAdmin(row, u)
                    /\ \E i \in Active(row) : row[i].user # u
           k == longestTenured(row, u)
           e == [row[k] EXCEPT !.role = "admin"]
<1>1. CASE ~hands
  <2>1. mid = row
    BY <1>1 DEF Promoted
  <2>2. ASSUME OneEntry(row), AdminPeople(row) = {u} PROVE People(row) = {u}
    <3>1. Cardinality(Admins(row)) = 1 /\ IsAdmin(row, u)
      BY <2>2, LoneAdmin
    <3>2. \A i \in Active(row) : row[i].user = u
      BY <1>1, <3>1
    <3>3. u \in People(row)
      BY <2>2, Seat
    <3> QED BY <3>2, <3>3 DEF People
  <2> QED BY <2>1, <2>2
<1>2. CASE hands
  <2>1. mid = [row EXCEPT ![k].role = "admin"]
    BY <1>2 DEF Promoted
  <2>2. k \in Active(row) /\ row[k].user # u
    BY <1>2, Heir
  <2> HIDE DEF mid, k
  <2>3. row[k] \in Entry
    BY <2>2, LenProperties DEF Active
  <2>4. e \in Entry /\ e.user = row[k].user /\ e.left = row[k].left /\ e.unread = row[k].unread
    BY <2>3 DEF Entry
  <2>5. e.role = "admin"
    BY <2>3 DEF Entry
  <2>6. mid = [row EXCEPT ![k] = e]
    BY <2>1
  <2> HIDE DEF e, hands
  <2>7. /\ mid \in Seq(Entry) /\ Len(mid) = Len(row) /\ DOMAIN mid = DOMAIN row
        /\ \A i \in DOMAIN row : mid[i] = IF i = k THEN e ELSE row[i]
    BY <2>4, <2>6, ExceptRow
  <2>8. k \in Active(row)
    BY <2>2
  <2>9. /\ \A i \in DOMAIN mid : mid[i].unread = row[i].unread
        /\ \A i \in DOMAIN mid : mid[i].user = row[i].user
        /\ Plain(row, mid) /\ Active(mid) = Active(row) /\ People(mid) = People(row)
        /\ OneEntry(row) =>
              /\ OneEntry(mid)
              /\ e.role = "admin" => AdminPeople(mid) = AdminPeople(row) \cup {row[k].user}
              /\ e.role # "admin" => AdminPeople(mid) = AdminPeople(row) \ {row[k].user}
        /\ \A count : Exact(row, count) => Exact(mid, count)
    BY <2>4, <2>7, <2>8, RoleSet, SMTT(40)
  <2>10. ASSUME OneEntry(row)
         PROVE  AdminPeople(row) = {u} /\ \E heir \in People(row) \ {u} : AdminPeople(mid) = {u, heir}
    <3>1. AdminPeople(row) = {u}
      BY <1>2, <2>10, LoneAdmin DEF hands
    <3>2. AdminPeople(mid) = {u, row[k].user}
      BY <2>5, <2>9, <2>10, <3>1
    <3>3. row[k].user \in People(row) \ {u}
      BY <2>2 DEF People
    <3> QED BY <3>1, <3>2, <3>3
  <2> QED BY <2>7, <2>9, <2>10 DEF mid
<1> QED BY <1>1, <1>2

LEMMA LeaveCopied ==
    ASSUME NEW row \in Seq(Entry), NEW u \in Users, In(row, u), NEW o \in {"leave", "close"}
    PROVE  LET new == [Promoted(row, u) EXCEPT ![activeMember(row, u)].left = TRUE]
           IN  Copied(o, u, u, row, new) /\ Len(new) = Len(row)
<1> DEFINE mid == Promoted(row, u)
           new == [mid EXCEPT ![activeMember(row, u)].left = TRUE]
<1>1. /\ mid \in Seq(Entry) /\ Len(mid) = Len(row) /\ DOMAIN mid = DOMAIN row
      /\ \A i \in DOMAIN mid : mid[i].unread = row[i].unread
      /\ \A i \in DOMAIN mid : mid[i].user = row[i].user
      /\ Active(mid) = Active(row) /\ People(mid) = People(row)
      /\ OneEntry(row) =>
            /\ OneEntry(mid)
            /\ \/ AdminPeople(row) # {u} /\ AdminPeople(mid) = AdminPeople(row)
               \/ People(row) = {u} /\ AdminPeople(mid) = {u}
               \/ AdminPeople(row) = {u} /\ \E heir \in People(row) \ {u} : AdminPeople(mid) = {u, heir}
      /\ \A count : Exact(row, count) => Exact(mid, count)
  BY PromotedRow
<1> HIDE DEF mid
<1>2. SeatsOf(mid, u) = SeatsOf(row, u)
  BY <1>1 DEF SeatsOf, Active
<1>3. In(mid, u) /\ activeMember(mid, u) = activeMember(row, u)
  BY <1>2 DEF In, activeMember
<1>4. new = [mid EXCEPT ![activeMember(mid, u)].left = TRUE]
  BY <1>3
<1>5. LET now == [mid EXCEPT ![activeMember(mid, u)].left = TRUE] IN
      /\ now \in Seq(Entry) /\ Len(now) = Len(mid) /\ DOMAIN now = DOMAIN mid
      /\ \A i \in DOMAIN now : now[i].unread = mid[i].unread
      /\ Plain(mid, now)
      /\ OneEntry(mid) =>
            /\ OneEntry(now)
            /\ People(now) = People(mid) \ {u} /\ AdminPeople(now) = AdminPeople(mid) \ {u}
      /\ \A count : Exact(mid, count) => Exact(now, count)
  BY <1>1, <1>3, LeftCopied
<1> HIDE DEF new
<1>6. /\ new \in Seq(Entry) /\ Len(new) = Len(mid) /\ DOMAIN new = DOMAIN mid
      /\ \A i \in DOMAIN new : new[i].unread = mid[i].unread
      /\ Plain(mid, new)
      /\ OneEntry(mid) =>
            /\ OneEntry(new)
            /\ People(new) = People(mid) \ {u} /\ AdminPeople(new) = AdminPeople(mid) \ {u}
      /\ \A count : Exact(mid, count) => Exact(new, count)
  BY <1>4, <1>5
<1>7. \A i \in DOMAIN row : mid[i].left <=> row[i].left
  BY <1>1 DEF Active
<1>8. Plain(row, new)
  BY <1>1, <1>6, <1>7 DEF Plain
<1>9. ASSUME OneEntry(row) PROVE Change(o, u, u, row, new)
  <2>1. People(new) = People(row) \ {u} /\ AdminPeople(new) = AdminPeople(mid) \ {u}
    BY <1>1, <1>6, <1>9
  <2>2. u \in People(row)
    BY <1>9, Seat
  <2>3. \/ AdminPeople(row) # {u} /\ AdminPeople(new) = AdminPeople(row) \ {u}
        \/ People(row) = {u} /\ AdminPeople(new) = {}
        \/ AdminPeople(row) = {u} /\ \E heir \in People(row) \ {u} : AdminPeople(new) = {heir}
    <3>1. CASE AdminPeople(row) # {u} /\ AdminPeople(mid) = AdminPeople(row)
      BY <2>1, <3>1
    <3>2. CASE People(row) = {u} /\ AdminPeople(mid) = {u}
      BY <2>1, <3>2
    <3>3. CASE AdminPeople(row) = {u} /\ \E heir \in People(row) \ {u} : AdminPeople(mid) = {u, heir}
      <4>1. PICK heir \in People(row) \ {u} : AdminPeople(mid) = {u, heir}
        BY <3>3
      <4>2. AdminPeople(new) = {heir}
        BY <2>1, <4>1
      <4> QED BY <3>3, <4>2
    <3> QED BY <1>1, <1>9, <3>1, <3>2, <3>3
  <2> QED BY <2>1, <2>2, <2>3 DEF Change
<1>10. Len(row) \in Nat
  BY LenProperties
<1>11. \A i \in DOMAIN new : i \in DOMAIN row /\ new[i].unread = row[i].unread
  BY <1>1, <1>6
<1>12. \A count : Exact(row, count) => Exact(new, count)
  BY <1>1, <1>6
<1>13. Copied(o, u, u, row, new)
  BY <1>1, <1>6, <1>8, <1>9, <1>10, <1>11, <1>12 DEF Copied
<1> QED BY <1>1, <1>6, <1>13 DEF new, mid

-----------------------------------------------------------------------------
(* Requests *)

(* Handler p of viewer u starts o about x and is about to save the copy new. *)
Asked(p, o, u, x, new, touch) ==
    /\ Begin(p, o) /\ Load(p, u, x, new, touch)
    /\ Copied(o, u, x, members, new)
    /\ o = "add" \/ Len(new) = Len(members)
    /\ IF o \in {"read", "hide"} THEN posts' = posts ELSE posts' = posts + 1 /\ posts' \in 0..MaxPosts
    /\ o = "hide" => Deleters # {}
    /\ o = "read" => Alike(members, new) /\ \A i \in DOMAIN members : new[i].since = members[i].since

LEMMA Asks ==
    ASSUME TypeOK, NEW p \in Requests, Request(p)
    PROVE  \/ \E u \in Users : Send(p, u)
           \/ \E o \in Membership \cup {"read"}, u \in Users, x \in Users, new \in Seq(Entry), touch \in BOOLEAN :
                 Asked(p, o, u, x, new, touch)
<1> DEFINE Goal == \E o \in Membership \cup {"read"}, u \in Users, x \in Users, new \in Seq(Entry), touch \in BOOLEAN :
                      Asked(p, o, u, x, new, touch)
<1>1. /\ members \in Seq(Entry) /\ posts \in 0..MaxPosts /\ MaxPosts \in Nat /\ Callers \subseteq Users
      /\ Len(members) \in Nat
  BY GroupsAssumption, LenProperties DEF TypeOK
<1>2. Posting => posts' = posts + 1 /\ posts' \in 0..MaxPosts
  BY <1>1 DEF Posting
<1>3. ASSUME NEW o \in Membership \cup {"read"}, NEW u \in Users, NEW x \in Users, NEW new, NEW touch \in BOOLEAN,
             Begin(p, o), Load(p, u, x, new, touch), Copied(o, u, x, members, new),
             o = "add" \/ Len(new) = Len(members),
             IF o \in {"read", "hide"} THEN posts' = posts ELSE posts' = posts + 1 /\ posts' \in 0..MaxPosts,
             o = "hide" => Deleters # {},
             o = "read" => Alike(members, new) /\ \A i \in DOMAIN members : new[i].since = members[i].since
      PROVE  Goal
  <2>1. new \in Seq(Entry) /\ Asked(p, o, u, x, new, touch)
    BY <1>3 DEF Copied, Asked
  <2> QED BY <2>1
<1> HIDE DEF Goal
<1>4. ASSUME NEW u \in Users, NEW x \in Users, AddMember(p, u, x) PROVE Goal
  <2> DEFINE now == posts + 1
             old == {i \in DOMAIN members : members[i].user = x}
             new == IF old = {} THEN Append(members, MemberDoc(x, "member", now))
                    ELSE [members EXCEPT ![First(old)] = MemberDoc(x, "member", now)]
  <2>1. /\ Begin(p, "add") /\ Posting /\ IsAdmin(members, u) /\ ~In(members, x)
        /\ Load(p, u, x, new, old # {})
    BY <1>4 DEF AddMember
  <2>2. now \in 0..MaxPosts /\ posts' = posts + 1 /\ posts' \in 0..MaxPosts
    BY <1>2, <2>1
  <2>3. Copied("add", u, x, members, new)
    <3> HIDE DEF now
    <3> QED BY <1>1, <2>1, <2>2, AddCopied
  <2> DEFINE touch == old # {}
  <2> HIDE DEF new
  <2>4. touch \in BOOLEAN /\ Load(p, u, x, new, touch)
    BY <2>1
  <2> HIDE DEF touch
  <2>5. "add" \in Membership \cup {"read"} /\ "add" # "read" /\ "add" # "hide"
    BY DEF Membership
  <2> QED BY <1>3, <2>1, <2>2, <2>3, <2>4, <2>5
<1>5. ASSUME NEW u \in Users, NEW x \in Users, RemoveMember(p, u, x) PROVE Goal
  <2> DEFINE new == [members EXCEPT ![activeMember(members, x)].left = TRUE]
  <2>1. /\ Begin(p, "remove") /\ Posting /\ IsAdmin(members, u) /\ x # u /\ In(members, x)
        /\ Load(p, u, x, new, FALSE)
    BY <1>5 DEF RemoveMember
  <2>2. Copied("remove", u, x, members, new) /\ Len(new) = Len(members)
    BY <1>1, <2>1, RemoveCopied
  <2> HIDE DEF new
  <2>3. "remove" \in Membership \cup {"read"} /\ "remove" # "read" /\ "remove" # "hide"
    BY DEF Membership
  <2> QED BY <1>2, <1>3, <2>1, <2>2, <2>3
<1>6. ASSUME NEW u \in Users, NEW x \in Users, NEW isAdmin \in BOOLEAN, SetAdmin(p, u, x, isAdmin) PROVE Goal
  <2> DEFINE r == IF isAdmin THEN "admin" ELSE "member"
             new == [members EXCEPT ![activeMember(members, x)].role = r]
  <2>1. /\ Begin(p, "role") /\ Posting /\ IsAdmin(members, u) /\ x # u /\ In(members, x)
        /\ Load(p, u, x, new, FALSE)
    BY <1>6 DEF SetAdmin
  <2>2. Copied("role", u, x, members, new) /\ Len(new) = Len(members)
    <3>1. r \in {"admin", "member"}
      OBVIOUS
    <3> HIDE DEF r
    <3> QED BY <1>1, <2>1, <3>1, RoleCopied
  <2> HIDE DEF new
  <2>3. "role" \in Membership \cup {"read"} /\ "role" # "read" /\ "role" # "hide"
    BY DEF Membership
  <2> QED BY <1>2, <1>3, <2>1, <2>2, <2>3
<1>7. ASSUME NEW u \in Users, Leave(p, u) PROVE Goal
  <2> DEFINE o == IF \E i \in Active(members) : members[i].user # u THEN "leave" ELSE "close"
             new == [Promoted(members, u) EXCEPT ![activeMember(members, u)].left = TRUE]
  <2>1. Begin(p, o) /\ Posting /\ In(members, u) /\ Load(p, u, u, new, FALSE)
    BY <1>7 DEF Leave
  <2>2. o \in {"leave", "close"} /\ o \in Membership \cup {"read"} /\ o # "read" /\ o # "hide"
    BY DEF Membership
  <2> HIDE DEF o
  <2>3. Copied(o, u, u, members, new) /\ Len(new) = Len(members)
    BY <1>1, <2>1, <2>2, LeaveCopied
  <2> HIDE DEF new
  <2> QED BY <1>2, <1>3, <2>1, <2>2, <2>3
<1>8. ASSUME NEW u \in Users, Hide(p, u) PROVE Goal
  <2> DEFINE new == [members EXCEPT ![activeMember(members, u)].left = TRUE]
  <2>1. /\ Begin(p, "hide") /\ Deleters # {} /\ In(members, u) /\ Load(p, u, u, new, FALSE) /\ posts' = posts
    BY <1>8 DEF Hide
  <2>2. Copied("hide", u, u, members, new) /\ Len(new) = Len(members)
    BY <1>1, <2>1, HideCopied
  <2> HIDE DEF new
  <2>3. "hide" \in Membership \cup {"read"} /\ "hide" # "read"
    BY DEF Membership
  <2> QED BY <1>3, <2>1, <2>2, <2>3
<1>9. ASSUME NEW u \in Users, Read(p, u) PROVE Goal
  <2> DEFINE new == [members EXCEPT ![activeMember(members, u)].unread = 0]
  <2>1. /\ Begin(p, "read") /\ In(members, u) /\ Load(p, u, u, new, TRUE) /\ posts' = posts
    BY <1>9 DEF Read
  <2>2. /\ Copied("read", u, u, members, new) /\ Len(new) = Len(members)
        /\ Alike(members, new) /\ \A i \in DOMAIN members : new[i].since = members[i].since
    BY <1>1, <2>1, ReadCopied
  <2> HIDE DEF new
  <2>3. "read" \in Membership \cup {"read"} /\ "read" # "hide"
    OBVIOUS
  <2> QED BY <1>3, <2>1, <2>2, <2>3
<1> QED BY <1>1, <1>4, <1>5, <1>6, <1>7, <1>8, <1>9 DEF Request, Goal

(* What a handler that has read is about to send *)
LEMMA AskedDraft ==
    ASSUME TypeOK, NEW o, NEW u, NEW x, NEW new \in Seq(Entry), NEW touch \in BOOLEAN,
           Copied(o, u, x, members, new), o = "add" \/ Len(new) = Len(members),
           o = "read" => Alike(members, new) /\ \A i \in DOMAIN members : new[i].since = members[i].since
    PROVE  LET d == Draft(new, touch) IN
           /\ Fits(d, members) /\ Applied(members, d) = new
           /\ d.ver = version /\ d.where \in BOOLEAN
           /\ d = [ver |-> d.ver, where |-> d.where, set |-> d.set, push |-> d.push]
           /\ \A w \in DOMAIN d.set : w[2] = "unread" => d.set[w] = 0
           /\ \A i \in DOMAIN d.push : d.push[i].unread = 0
           /\ Len(d.push) <= 1
           /\ o # "add" => d.push = <<>>
           /\ o = "read" => Harmless(d)
<1> DEFINE d == Draft(new, touch)
           n == Len(members)
           m == Len(new)
<1>1. /\ members \in Seq(Entry) /\ n \in Nat /\ DOMAIN members = 1..n
      /\ m \in Nat /\ DOMAIN new = 1..m
      /\ n <= m /\ m <= n + 1
  BY LenProperties DEF TypeOK, Copied
<1>2. (o = "add" \/ m = n) /\ members \in Seq(Entry)
  BY DEF TypeOK
<1> HIDE DEF n, m
<1>3. (\A i \in DOMAIN members : i \in DOMAIN new /\ members[i] \in Entry) /\ \A i \in DOMAIN new : new[i] \in Entry
  <2>1. 1..n \subseteq 1..m
    BY <1>1
  <2>2. (\A i \in 1..n : members[i] \in Entry) /\ \A i \in 1..m : new[i] \in Entry
    BY <1>2, LenProperties DEF n, m
  <2> QED BY <1>1, <2>1, <2>2
<1>4. /\ Fits(d, members) /\ Applied(members, d) = new
      /\ d.ver = version /\ d.where \in BOOLEAN
      /\ \A i \in DOMAIN members, f \in Fields :
            <<i, f>> \in DOMAIN d.set <=> new[i][f] # members[i][f]
      /\ \A i \in DOMAIN members, f \in Fields : <<i, f>> \in DOMAIN d.set => d.set[<<i, f>>] = new[i][f]
      /\ d.push = SubSeq(new, n + 1, m)
      /\ Len(d.push) = m - n
      /\ \A i \in DOMAIN d.push : d.push[i] = new[n + i]
      /\ d = [ver |-> d.ver, where |-> d.where, set |-> d.set, push |-> d.push]
  <2>1. m >= n
    BY <1>1
  <2> QED BY <1>2, <2>1, RoundTrip DEF n, m, d
<1> HIDE DEF d
<1>5. DOMAIN d.set \subseteq (DOMAIN members) \X Fields /\ d.push \in Seq(Entry)
  BY <1>4 DEF Fits
<1>6. ASSUME NEW w \in DOMAIN d.set
      PROVE  /\ w[1] \in DOMAIN members /\ w[2] \in Fields /\ w = <<w[1], w[2]>>
             /\ d.set[w] = new[w[1]][w[2]] /\ new[w[1]][w[2]] # members[w[1]][w[2]]
  <2>1. w[1] \in DOMAIN members /\ w[2] \in Fields /\ w = <<w[1], w[2]>>
    BY <1>5
  <2> QED BY <1>4, <2>1
<1>7. \A i \in DOMAIN new : new[i].unread = 0 \/ (i \in DOMAIN members /\ new[i].unread = members[i].unread)
  BY DEF Copied
<1>8. ASSUME NEW w \in DOMAIN d.set, w[2] = "unread" PROVE d.set[w] = 0
  <2>1. w[1] \in DOMAIN members /\ d.set[w] = new[w[1]]["unread"] /\ new[w[1]]["unread"] # members[w[1]]["unread"]
    BY <1>6, <1>8
  <2>2. w[1] \in DOMAIN new /\ new[w[1]] \in Entry /\ members[w[1]] \in Entry
    BY <1>3, <2>1
  <2>3. new[w[1]].unread # members[w[1]].unread /\ d.set[w] = new[w[1]].unread
    BY <2>1, <2>2, EntryFields
  <2> QED BY <1>7, <2>2, <2>3
<1>9. Len(d.push) <= 1 /\ Len(d.push) \in Nat /\ DOMAIN d.push = 1..Len(d.push)
  <2>1. Len(d.push) \in Nat /\ DOMAIN d.push = 1..Len(d.push)
    BY <1>5, LenProperties
  <2>2. Len(d.push) = m - n
    BY <1>4
  <2>3. Len(d.push) <= 1
    BY <1>1, <2>2
  <2> QED BY <2>1, <2>3
<1>10. ASSUME NEW i \in DOMAIN d.push PROVE d.push[i].unread = 0
  <2>1. i \in 1..(m - n)
    BY <1>4, <1>9
  <2>2. i \in Nat /\ 1 <= i /\ i <= m - n
    BY <1>1, <2>1
  <2>3. n + i \in 1..m /\ n + i \notin 1..n
    BY <1>1, <2>2
  <2> QED BY <1>1, <1>4, <1>7, <2>3
<1>11. o # "add" => d.push = <<>>
  <2> SUFFICES ASSUME o # "add" PROVE d.push = <<>>
    OBVIOUS
  <2>1. m - n = 0
    BY <1>1, <1>2
  <2>2. Len(d.push) = 0
    BY <1>4, <2>1
  <2> QED BY <1>5, <2>2, EmptySeq
<1>12. ASSUME o = "read" PROVE Harmless(d)
  <2>1. d.push = <<>>
    BY <1>11, <1>12
  <2>2. ASSUME NEW w \in DOMAIN d.set PROVE w[2] = "unread"
    <3>1. w[1] \in DOMAIN members /\ w[2] \in Fields /\ new[w[1]][w[2]] # members[w[1]][w[2]]
      BY <1>6
    <3>2. new[w[1]] \in Entry /\ members[w[1]] \in Entry
      BY <1>3, <3>1
    <3>3. /\ new[w[1]].user = members[w[1]].user /\ new[w[1]].role = members[w[1]].role
          /\ new[w[1]].left = members[w[1]].left /\ new[w[1]].since = members[w[1]].since
      BY <1>12, <3>1 DEF Alike
    <3>4. /\ new[w[1]]["user"] = members[w[1]]["user"] /\ new[w[1]]["role"] = members[w[1]]["role"]
          /\ new[w[1]]["left"] = members[w[1]]["left"] /\ new[w[1]]["since"] = members[w[1]]["since"]
      BY <3>2, <3>3, EntryFields
    <3> QED BY <3>1, <3>4 DEF Fields
  <2> QED BY <2>1, <2>2 DEF Harmless
<1> QED BY <1>4, <1>8, <1>9, <1>10, <1>11, <1>12 DEF d, n, m

(* The counts of a message of author, to those who are active *)
Others(row, author) == {i \in Active(row) : row[i].user # author}
CountedUp(row, author) ==
    [i \in DOMAIN row |->
       IF i \in Others(row, author) THEN [row[i] EXCEPT !.unread = @ + 1] ELSE row[i]]

LEMMA CountedRow ==
    ASSUME NEW row \in Seq(Entry), NEW author, NEW most \in Nat, most < MaxPosts,
           \A i \in DOMAIN row : row[i].unread <= most
    PROVE  LET new == CountedUp(row, author) IN
           /\ new \in Seq(Entry) /\ Len(new) = Len(row) /\ Alike(row, new)
           /\ \A i \in DOMAIN row : new[i].since = row[i].since
           /\ \A i \in DOMAIN row :
                 new[i].unread = IF i \in Others(row, author) THEN row[i].unread + 1 ELSE row[i].unread
<1> DEFINE new == CountedUp(row, author)
<1>1. DOMAIN row = 1..Len(row) /\ Len(row) \in Nat /\ \A i \in 1..Len(row) : row[i] \in Entry
  BY LenProperties
<1>2. DOMAIN new = DOMAIN row
  BY DEF CountedUp
<1>3. ASSUME NEW i \in DOMAIN row
      PROVE  /\ new[i] \in Entry /\ new[i].user = row[i].user /\ new[i].role = row[i].role
             /\ new[i].left = row[i].left /\ new[i].since = row[i].since
             /\ new[i].unread = IF i \in Others(row, author) THEN row[i].unread + 1 ELSE row[i].unread
  <2>1. row[i] \in Entry
    BY <1>1
  <2>2. row[i].unread + 1 \in 0..MaxPosts
    <3>1. row[i].unread \in Nat /\ row[i].unread <= most /\ MaxPosts \in Nat
      BY <2>1, EntryFields, GroupsAssumption
    <3> QED BY <3>1
  <2>3. new[i] = IF i \in Others(row, author) THEN [row[i] EXCEPT !.unread = row[i].unread + 1] ELSE row[i]
    BY DEF CountedUp
  <2> QED BY <2>1, <2>2, <2>3 DEF Entry
<1> HIDE DEF new
<1>4. new \in Seq(Entry) /\ Len(new) = Len(row)
  <2>1. new = [i \in DOMAIN row |-> new[i]]
    BY DEF new, CountedUp
  <2>2. new \in [1..Len(row) -> Entry]
    BY <1>1, <1>3, <2>1
  <2>3. new \in Seq(Entry)
    BY <1>1, <2>2
  <2> QED BY <1>1, <1>2, <2>3, LenProperties
<1>5. Alike(row, new)
  BY <1>2, <1>3 DEF Alike
<1> QED BY <1>3, <1>4, <1>5 DEF new

(* What the writer of a message sends to have it counted *)
LEMMA PostDraft ==
    ASSUME TypeOK, NEW author, NEW most \in Nat, most < MaxPosts,
           \A i \in DOMAIN members : members[i].unread <= most
    PROVE  LET new == CountedUp(members, author)
               d == Draft(new, FALSE)
           IN  /\ Fits(d, members) /\ Applied(members, d) = new
               /\ d.ver = version /\ d.where \in BOOLEAN
               /\ d = [ver |-> d.ver, where |-> d.where, set |-> d.set, push |-> d.push]
               /\ \A w \in DOMAIN d.set : w[2] = "unread" => d.set[w] <= most + 1
               /\ Harmless(d)
<1> DEFINE new == CountedUp(members, author)
           d == Draft(new, FALSE)
           n == Len(members)
<1>1. members \in Seq(Entry) /\ n \in Nat /\ DOMAIN members = 1..n
  BY LenProperties DEF TypeOK
<1>2. /\ new \in Seq(Entry) /\ Len(new) = n /\ Alike(members, new)
      /\ \A i \in DOMAIN members : new[i].since = members[i].since
      /\ \A i \in DOMAIN members :
            new[i].unread = IF i \in Others(members, author) THEN members[i].unread + 1 ELSE members[i].unread
  BY <1>1, CountedRow
<1> HIDE DEF new
<1>3. /\ Fits(d, members) /\ Applied(members, d) = new
      /\ d.ver = version /\ d.where \in BOOLEAN
      /\ \A i \in DOMAIN members, f \in Fields :
            <<i, f>> \in DOMAIN d.set <=> new[i][f] # members[i][f]
      /\ \A i \in DOMAIN members, f \in Fields : <<i, f>> \in DOMAIN d.set => d.set[<<i, f>>] = new[i][f]
      /\ d.push = SubSeq(new, Len(members) + 1, Len(new))
      /\ Len(d.push) = Len(new) - Len(members)
      /\ \A i \in DOMAIN d.push : d.push[i] = new[Len(members) + i]
      /\ d = [ver |-> d.ver, where |-> d.where, set |-> d.set, push |-> d.push]
  <2>1. new \in Seq(Entry) /\ members \in Seq(Entry) /\ FALSE \in BOOLEAN
    BY <1>1, <1>2
  <2>2. Len(new) >= Len(members)
    BY <1>1, <1>2
  <2> QED BY <2>1, <2>2, RoundTrip
<1> HIDE DEF d, n
<1>4. d.push = <<>>
  <2>1. d.push \in Seq(Entry)
    BY <1>3 DEF Fits
  <2>2. Len(d.push) = 0
    BY <1>1, <1>2, <1>3 DEF n
  <2> QED BY <2>1, <2>2, EmptySeq
<1>5. \A i \in DOMAIN members : members[i] \in Entry /\ new[i] \in Entry
  <2>1. DOMAIN new = DOMAIN members
    BY <1>2 DEF Alike
  <2> QED BY <1>1, <1>2, <2>1, ElementOfSeq, LenProperties
<1>6. ASSUME NEW w \in DOMAIN d.set PROVE w[2] = "unread" /\ d.set[w] <= most + 1
  <2>1. w[1] \in DOMAIN members /\ w[2] \in Fields /\ w = <<w[1], w[2]>>
    BY <1>3 DEF Fits
  <2>2. new[w[1]][w[2]] # members[w[1]][w[2]] /\ d.set[w] = new[w[1]][w[2]]
    BY <1>3, <2>1
  <2>3. new[w[1]] \in Entry /\ members[w[1]] \in Entry
    BY <1>5, <2>1
  <2>4. /\ new[w[1]].user = members[w[1]].user /\ new[w[1]].role = members[w[1]].role
        /\ new[w[1]].left = members[w[1]].left /\ new[w[1]].since = members[w[1]].since
    BY <1>2, <2>1 DEF Alike
  <2>5. /\ new[w[1]]["user"] = members[w[1]]["user"] /\ new[w[1]]["role"] = members[w[1]]["role"]
        /\ new[w[1]]["left"] = members[w[1]]["left"] /\ new[w[1]]["since"] = members[w[1]]["since"]
    BY <2>3, <2>4, EntryFields
  <2>6. w[2] = "unread"
    BY <2>1, <2>2, <2>5 DEF Fields
  <2>7. d.set[w] = new[w[1]].unread
    BY <2>2, <2>3, <2>6, EntryFields
  <2>8. new[w[1]].unread <= most + 1
    <3>1. members[w[1]].unread \in Nat /\ members[w[1]].unread <= most
      BY <2>1, <2>3, EntryFields
    <3>2. new[w[1]].unread \in {members[w[1]].unread + 1, members[w[1]].unread}
      BY <1>2, <2>1
    <3> QED BY <3>1, <3>2
  <2> QED BY <2>6, <2>7, <2>8
<1>7. Harmless(d)
  BY <1>4, <1>6 DEF Harmless
<1> QED BY <1>3, <1>6, <1>7 DEF d, new

-----------------------------------------------------------------------------
(* Steps *)

(* The parts of Save *)
Rejected(p) ==
    /\ pc[p] = "save" /\ VersionError(draft[p])
    /\ Finish(p)
    /\ UNCHANGED <<members, version, posts, owed>>

OwedAfter(p) == IF op[p] \in {"read", "add"} THEN [owed EXCEPT ![target[p]] = 0] ELSE owed

Written(p) ==
    /\ pc[p] = "save" /\ ~VersionError(draft[p]) /\ Saved(draft[p])
    /\ owed' = OwedAfter(p)
    /\ posts' = posts

Ends(p) == Written(p) /\ op[p] \in {"read", "hide", "close"} /\ Finish(p)

GoesOn(p) ==
    /\ Written(p) /\ op[p] \notin {"read", "hide", "close"}
    /\ pc' = [pc EXCEPT ![p] = "note"]
    /\ who' = [who EXCEPT ![p] = IF op[p] = "leave" THEN None ELSE who[p]]
    /\ draft' = [draft EXCEPT ![p] = NoDraft]
    /\ UNCHANGED <<op, target>>

LEMMA Saves ==
    ASSUME NEW p \in Requests, Save(p)
    PROVE  Rejected(p) \/ Ends(p) \/ GoesOn(p)
BY DEF Save, Rejected, Ends, GoesOn, Written, OwedAfter

(* A step of handler p is one of these. *)
LEMMA StepCases ==
    ASSUME TypeOK, NEW p \in Requests, Request(p) \/ Save(p) \/ Post(p) \/ Bump(p)
    PROVE  \/ \E o \in Membership \cup {"read"}, u \in Users, x \in Users, new \in Seq(Entry), touch \in BOOLEAN :
                 Asked(p, o, u, x, new, touch)
           \/ \E u \in Users : Send(p, u)
           \/ Rejected(p) \/ Ends(p) \/ GoesOn(p) \/ Post(p) \/ Bump(p)
BY Asks, Saves

(* Drafts of the handlers, by the array they were made of *)
Drafted(d, ver, row) ==
    /\ d = [ver |-> d.ver, where |-> d.where, set |-> d.set, push |-> d.push]
    /\ d.ver \in 0..ver
    /\ d.where \in BOOLEAN
    /\ Fits(d, row)

Scalars ==
    /\ members \in Seq(Entry)
    /\ version \in 0..MaxPosts
    /\ posts \in 0..MaxPosts
    /\ owed \in [Users -> 0..MaxPosts]
    /\ pc \in [Requests -> {"idle", "save", "note", "bump"}]
    /\ op \in [Requests -> Membership \cup {"read", "send", "none"}]
    /\ who \in [Requests -> Users \cup {None}]
    /\ target \in [Requests -> Users \cup {None}]

AllDrafted ==
    /\ draft = [p \in Requests |-> draft[p]]
    /\ \A p \in Requests : Drafted(draft[p], version, members)

LEMMA TypeParts == TypeOK <=> Scalars /\ AllDrafted
BY DEF TypeOK, Scalars, AllDrafted, Drafted, Fits

LEMMA NoDraftFits ==
    ASSUME NEW ver \in Nat, NEW row
    PROVE  Drafted(NoDraft, ver, row) /\ Harmless(NoDraft) /\ NoDraft.push = <<>> /\ NoDraft.set = <<>>
           /\ DOMAIN NoDraft.set = {} /\ DOMAIN NoDraft.push = {} /\ Len(NoDraft.push) = 0
<1>1. <<>> \in Seq(Entry) /\ DOMAIN <<>> = {} /\ Len(<<>>) = 0
  BY EmptySeq
<1> QED BY <1>1 DEF NoDraft, Drafted, Fits, Harmless

(* One handler gets a new draft while the array stays or grows. *)
LEMMA DraftsAfter ==
    ASSUME TypeOK, NEW p \in Requests, NEW d, draft' = [draft EXCEPT ![p] = d],
           Drafted(d, version', members'), version' \in Nat, version <= version',
           DOMAIN members \subseteq DOMAIN members'
    PROVE  AllDrafted' /\ draft'[p] = d /\ \A q \in Requests : q # p => draft'[q] = draft[q]
<1>1. draft = [q \in Requests |-> draft[q]] /\ version \in Nat
      /\ \A q \in Requests : Drafted(draft[q], version, members)
  BY TypeParts, GroupsAssumption DEF AllDrafted, Scalars
<1>2. draft' = [q \in Requests |-> IF q = p THEN d ELSE draft[q]]
  BY <1>1
<1>3. draft'[p] = d /\ \A q \in Requests : q # p => draft'[q] = draft[q]
  BY <1>2
<1>4. ASSUME NEW q \in Requests PROVE Drafted(draft[q], version', members')
  <2>1. Drafted(draft[q], version, members)
    BY <1>1
  <2>2. draft[q].ver \in 0..version'
    BY <1>1, <2>1 DEF Drafted
  <2>3. Fits(draft[q], members')
    BY <2>1 DEF Drafted, Fits
  <2> QED BY <2>1, <2>2, <2>3 DEF Drafted
<1>5. draft' = [q \in Requests |-> draft'[q]]
  BY <1>2
<1>6. \A q \in Requests : Drafted(draft'[q], version', members')
  BY <1>3, <1>4
<1> QED BY <1>3, <1>5, <1>6 DEF AllDrafted

(* Counting the handlers *)
LEMMA CountOne ==
    ASSUME NEW S \in SUBSET Requests, NEW T \in SUBSET Requests, NEW p
    PROVE  /\ Cardinality(S) \in Nat /\ Cardinality(T) \in Nat
           /\ T \subseteq S => Cardinality(T) <= Cardinality(S)
           /\ T \subseteq S \cup {p} => Cardinality(T) <= Cardinality(S) + 1
           /\ T \subseteq S \ {p} /\ p \in S => Cardinality(T) + 1 <= Cardinality(S)
<1>1. IsFiniteSet(S) /\ IsFiniteSet(T) /\ IsFiniteSet(S \cup {p}) /\ IsFiniteSet(S \ {p})
  <2>1. IsFiniteSet(S) /\ IsFiniteSet(T)
    BY GroupsAssumption, FS_Subset
  <2> QED BY <2>1, FS_AddElement, FS_RemoveElement
<1>2. Cardinality(S) \in Nat /\ Cardinality(T) \in Nat
  BY <1>1, FS_CardinalityType
<1>3. T \subseteq S => Cardinality(T) <= Cardinality(S)
  BY <1>1, FS_Subset
<1>4. T \subseteq S \cup {p} => Cardinality(T) <= Cardinality(S) + 1
  <2>1. Cardinality(S \cup {p}) = Cardinality(S) \/ Cardinality(S \cup {p}) = Cardinality(S) + 1
    BY <1>1, FS_AddElement
  <2>2. T \subseteq S \cup {p} => Cardinality(T) <= Cardinality(S \cup {p})
    BY <1>1, FS_Subset
  <2>3. Cardinality(S) <= Cardinality(S) + 1
    BY <1>2
  <2> QED BY <1>2, <2>1, <2>2, <2>3
<1>5. T \subseteq S \ {p} /\ p \in S => Cardinality(T) + 1 <= Cardinality(S)
  <2> SUFFICES ASSUME T \subseteq S \ {p}, p \in S PROVE Cardinality(T) + 1 <= Cardinality(S)
    OBVIOUS
  <2>1. Cardinality(S \ {p}) = Cardinality(S) - 1
    BY <1>1, FS_RemoveElement
  <2>2. Cardinality(T) <= Cardinality(S \ {p})
    BY <1>1, FS_Subset
  <2> QED BY <1>2, <2>1, <2>2
<1> QED BY <1>2, <1>3, <1>4, <1>5

Most == posts - Cardinality(Owing)

(* The bounds of Counted, when the most that can be counted does not shrink *)
DraftCounted(d, most) ==
    /\ \A w \in DOMAIN d.set : w[2] = "unread" => d.set[w] <= most
    /\ \A i \in DOMAIN d.push : d.push[i].unread = 0
    /\ Len(d.push) <= 1

LEMMA CountedParts ==
    Counted <=> /\ Most >= 0
                /\ \A i \in DOMAIN members : members[i].unread <= Most
                /\ \A u \in Users : owed[u] <= Most
                /\ \A p \in Requests : DraftCounted(draft[p], Most)
                /\ version + Cardinality(Pushing) <= posts
BY DEF Counted, Most, DraftCounted

LEMMA Raised ==
    ASSUME NEW d, NEW row, Fits(d, row), NEW least \in Int, NEW most \in Int, least <= most, DraftCounted(d, least)
    PROVE  DraftCounted(d, most)
<1>1. ASSUME NEW w \in DOMAIN d.set, w[2] = "unread" PROVE d.set[w] <= most
  <2>1. d.set[w] \in Values("unread") /\ d.set[w] <= least
    BY <1>1 DEF Fits, DraftCounted
  <2>2. d.set[w] \in Nat
    BY <2>1, GroupsAssumption DEF Values
  <2> QED BY <2>1, <2>2
<1> QED BY <1>1 DEF DraftCounted

LEMMA CountedAfter ==
    ASSUME TypeOK, Counted, posts' \in Nat, Most \in Int, Most' \in Int, Most <= Most',
           members' \in Seq(Entry), \A i \in DOMAIN members' : members'[i].unread <= Most',
           \A u \in Users : owed'[u] <= Most',
           NEW p \in Requests, DraftCounted(draft'[p], Most'),
           \A q \in Requests : q # p => draft'[q] = draft[q],
           version' + Cardinality(Pushing') <= posts'
    PROVE  Counted'
<1>1. \A q \in Requests : DraftCounted(draft[q], Most) /\ Fits(draft[q], members)
  BY CountedParts, TypeParts DEF AllDrafted, Drafted
<1>2. ASSUME NEW q \in Requests PROVE DraftCounted(draft'[q], Most')
  <2>1. CASE q = p
    BY <2>1
  <2>2. CASE q # p
    <3>1. DraftCounted(draft[q], Most')
      BY <1>1, Raised
    <3> QED BY <2>2, <3>1
  <2> QED BY <2>1, <2>2
<1>3. Most >= 0
  BY CountedParts
<1>4. Most' >= 0
  BY <1>3
<1> QED BY <1>2, <1>4, CountedParts DEF Counted, Most, DraftCounted

Sound == TypeOK /\ Counted /\ Places

Place(p) ==
    /\ pc[p] = "idle" => op[p] = "none"
    /\ pc[p] = "save" => op[p] \in Membership \cup {"read"} /\ {who[p], target[p]} \subseteq Users
    /\ pc[p] \in {"note", "bump"} => op[p] \in {"add", "remove", "role", "leave", "send"}
    /\ op[p] = "read" \/ pc[p] = "bump" => Harmless(draft[p])
    /\ op[p] = "hide" => Deleters # {}

LEMMA PlacesAfter ==
    ASSUME Places, NEW p \in Requests, Place(p)',
           \A q \in Requests : q # p => /\ pc'[q] = pc[q] /\ op'[q] = op[q] /\ who'[q] = who[q]
                                       /\ target'[q] = target[q] /\ draft'[q] = draft[q]
    PROVE  Places'
<1>1. \A q \in Requests : Place(q)
  BY DEF Places, Place
<1>2. ASSUME NEW q \in Requests PROVE Place(q)'
  <2>1. CASE q = p
    BY <2>1
  <2>2. CASE q # p
    BY <1>1, <2>2 DEF Place
  <2> QED BY <2>1, <2>2
<1> QED BY <1>2 DEF Places, Place

LEMMA Numbers ==
    ASSUME TypeOK
    PROVE  /\ MaxPosts \in Nat /\ version \in Nat /\ posts \in Nat /\ posts <= MaxPosts /\ version <= MaxPosts
           /\ Owing \in SUBSET Requests /\ Pushing \in SUBSET Requests
           /\ Owing' \in SUBSET Requests /\ Pushing' \in SUBSET Requests
           /\ Cardinality(Owing) \in Nat /\ Cardinality(Pushing) \in Nat
           /\ Most \in Int /\ Most <= posts
<1>1. MaxPosts \in Nat /\ version \in 0..MaxPosts /\ posts \in 0..MaxPosts
  BY GroupsAssumption DEF TypeOK
<1>2. /\ Owing \in SUBSET Requests /\ Pushing \in SUBSET Requests
      /\ Owing' \in SUBSET Requests /\ Pushing' \in SUBSET Requests
  BY DEF Owing, Pushing
<1>3. Cardinality(Owing) \in Nat /\ Cardinality(Pushing) \in Nat
  BY <1>2, CountOne
<1>4. Most \in Int /\ Most <= posts
  BY <1>1, <1>3 DEF Most
<1> QED BY <1>1, <1>2, <1>3, <1>4

(* A handler starts: its line, if it will have one, is paid for. *)
LEMMA AskedSound ==
    ASSUME Sound, NEW p \in Requests, NEW o \in Membership \cup {"read"}, NEW u \in Users, NEW x \in Users,
           NEW new \in Seq(Entry), NEW touch \in BOOLEAN, Asked(p, o, u, x, new, touch)
    PROVE  Sound'
<1> DEFINE d == Draft(new, touch)
<1>1. TypeOK /\ Counted /\ Places
  BY DEF Sound
<1>2. /\ pc[p] = "idle" /\ op' = [op EXCEPT ![p] = o] /\ pc' = [pc EXCEPT ![p] = "save"]
      /\ who' = [who EXCEPT ![p] = u] /\ target' = [target EXCEPT ![p] = x]
      /\ draft' = [draft EXCEPT ![p] = d]
      /\ members' = members /\ version' = version /\ owed' = owed
  BY DEF Asked, Begin, Load
<1>3. IF o \in {"read", "hide"} THEN posts' = posts ELSE posts' = posts + 1 /\ posts' \in 0..MaxPosts
  BY DEF Asked
<1>4. /\ Fits(d, members) /\ Applied(members, d) = new
      /\ d.ver = version /\ d.where \in BOOLEAN
      /\ d = [ver |-> d.ver, where |-> d.where, set |-> d.set, push |-> d.push]
      /\ \A w \in DOMAIN d.set : w[2] = "unread" => d.set[w] = 0
      /\ \A i \in DOMAIN d.push : d.push[i].unread = 0
      /\ Len(d.push) <= 1
      /\ o # "add" => d.push = <<>>
      /\ o = "read" => Harmless(d)
  <2>1. /\ Copied(o, u, x, members, new) /\ (o = "add" \/ Len(new) = Len(members))
        /\ (o = "read" => Alike(members, new) /\ \A i \in DOMAIN members : new[i].since = members[i].since)
    BY DEF Asked
  <2> QED BY <1>1, <2>1, AskedDraft
<1> HIDE DEF d
<1>5. Scalars /\ AllDrafted
  BY <1>1, TypeParts
<1>6. posts' \in 0..MaxPosts /\ posts <= posts' /\ posts' \in Nat
  BY <1>1, <1>3, <1>5, Numbers DEF Scalars
<1>7. Drafted(d, version', members') /\ version' \in Nat /\ version <= version'
  BY <1>1, <1>2, <1>4, Numbers DEF Drafted
<1>8. AllDrafted' /\ draft'[p] = d /\ \A q \in Requests : q # p => draft'[q] = draft[q]
  BY <1>1, <1>2, <1>7, DraftsAfter
<1>9. /\ pc'[p] = "save" /\ op'[p] = o /\ who'[p] = u /\ target'[p] = x
      /\ \A q \in Requests : q # p => pc'[q] = pc[q] /\ op'[q] = op[q] /\ who'[q] = who[q] /\ target'[q] = target[q]
  BY <1>2, <1>5 DEF Scalars
<1>10. Scalars'
  BY <1>2, <1>5, <1>6 DEF Scalars
<1>11. TypeOK'
  BY <1>8, <1>10 DEF TypeOK, Scalars, AllDrafted, Drafted, Fits
<1>12. Place(p)'
  BY <1>4, <1>8, <1>9 DEF Place, Asked
<1>13. Places'
  BY <1>1, <1>8, <1>9, <1>12, PlacesAfter
<1>14. Most \in Int /\ Most' \in Int /\ Most <= Most'
  <2>1. Cardinality(Owing') \in Nat /\ Cardinality(Owing) \in Nat
    BY <1>1, Numbers, CountOne
  <2>2. CASE o \in {"read", "hide"}
    <3>1. Owing' \subseteq Owing
      BY <1>9, <2>2 DEF Owing
    <3>2. Cardinality(Owing') <= Cardinality(Owing)
      BY <1>1, <3>1, Numbers, CountOne
    <3> QED BY <1>1, <1>6, <2>1, <3>2, Numbers DEF Most
  <2>3. CASE o \notin {"read", "hide"}
    <3>1. Owing' \subseteq Owing \cup {p}
      BY <1>9 DEF Owing
    <3>2. Cardinality(Owing') <= Cardinality(Owing) + 1
      BY <1>1, <3>1, Numbers, CountOne
    <3>3. posts' = posts + 1
      BY <1>3, <2>3
    <3> QED BY <1>1, <1>6, <2>1, <3>2, <3>3, Numbers DEF Most
  <2> QED BY <2>2, <2>3
<1>15. version' + Cardinality(Pushing') <= posts'
  <2>1. version + Cardinality(Pushing) <= posts /\ version' = version
    BY <1>1, <1>2, CountedParts
  <2>2. Cardinality(Pushing') \in Nat /\ Cardinality(Pushing) \in Nat
    BY <1>1, Numbers, CountOne
  <2>3. CASE o = "add"
    <3>1. Pushing' \subseteq Pushing \cup {p}
      BY <1>8, <1>9 DEF Pushing
    <3>2. Cardinality(Pushing') <= Cardinality(Pushing) + 1
      BY <1>1, <3>1, Numbers, CountOne
    <3>3. posts' = posts + 1
      BY <1>3, <2>3
    <3> QED BY <1>1, <2>1, <2>2, <3>2, <3>3, Numbers
  <2>4. CASE o # "add"
    <3>1. Pushing' \subseteq Pushing
      BY <1>4, <1>8, <1>9, <2>4 DEF Pushing
    <3>2. Cardinality(Pushing') <= Cardinality(Pushing)
      BY <1>1, <3>1, Numbers, CountOne
    <3> QED BY <1>1, <1>6, <2>1, <2>2, <3>2, Numbers
  <2> QED BY <2>3, <2>4
<1>16. /\ members' \in Seq(Entry) /\ \A i \in DOMAIN members' : members'[i].unread <= Most'
       /\ \A v \in Users : owed'[v] <= Most'
  <2>1. members \in Seq(Entry) /\ owed \in [Users -> Nat]
    BY <1>5, GroupsAssumption DEF Scalars
  <2>2. ASSUME NEW i \in DOMAIN members PROVE members[i].unread <= Most'
    <3>1. members[i].unread \in Nat /\ members[i].unread <= Most
      BY <1>1, <2>1, EntryFields, ElementOfSeq, CountedParts, LenProperties
    <3> QED BY <1>14, <3>1
  <2>3. ASSUME NEW v \in Users PROVE owed[v] <= Most'
    <3>1. owed[v] \in Nat /\ owed[v] <= Most
      BY <1>1, <2>1, CountedParts
    <3> QED BY <1>14, <3>1
  <2> QED BY <1>2, <2>1, <2>2, <2>3
<1>17. DraftCounted(draft'[p], Most')
  <2>1. 0 <= Most'
    BY <1>1, <1>14, CountedParts
  <2> QED BY <1>4, <1>8, <2>1 DEF DraftCounted
<1>18. Counted'
  BY <1>1, <1>6, <1>8, <1>14, <1>15, <1>16, <1>17, CountedAfter
<1> QED BY <1>11, <1>13, <1>18 DEF Sound

(* What is left to show of a step of handler p *)
LEMMA SoundAfter ==
    ASSUME Sound, NEW p \in Requests, Scalars',
           NEW d, draft' = [draft EXCEPT ![p] = d], Drafted(d, version', members'),
           version <= version', DOMAIN members \subseteq DOMAIN members',
           \A q \in Requests : q # p => /\ pc'[q] = pc[q] /\ op'[q] = op[q] /\ who'[q] = who[q]
                                       /\ target'[q] = target[q],
           draft'[p] = d => Place(p)',
           Most <= Most', Most' \in Int, DraftCounted(d, Most'),
           \A i \in DOMAIN members' : members'[i].unread <= Most',
           \A u \in Users : owed'[u] <= Most',
           version' + Cardinality(Pushing') <= posts'
    PROVE  Sound'
<1>1. TypeOK /\ Counted /\ Places /\ Most \in Int
  BY Numbers DEF Sound
<1>2. members' \in Seq(Entry) /\ version' \in Nat /\ posts' \in Nat
  BY GroupsAssumption DEF Scalars
<1>3. AllDrafted' /\ draft'[p] = d /\ \A q \in Requests : q # p => draft'[q] = draft[q]
  BY <1>1, <1>2, DraftsAfter
<1>4. TypeOK'
  BY <1>3 DEF TypeOK, Scalars, AllDrafted, Drafted, Fits
<1>5. Places'
  BY <1>1, <1>3, PlacesAfter
<1>6. DraftCounted(draft'[p], Most')
  BY <1>3
<1>7. Counted'
  BY <1>1, <1>2, <1>3, <1>6, CountedAfter
<1> QED BY <1>4, <1>5, <1>7 DEF Sound

(* What the bounds give where the arrays and counts stay *)
LEMMA StillCounted ==
    ASSUME Sound, NEW most \in Int, Most <= most
    PROVE  /\ 0 <= most
           /\ \A i \in DOMAIN members : members[i].unread <= most
           /\ \A u \in Users : owed[u] <= most
           /\ \A p \in Requests : DraftCounted(draft[p], most) /\ Drafted(draft[p], version, members)
<1>1. TypeOK /\ Counted /\ Most \in Int
  BY Numbers DEF Sound
<1>2. Scalars /\ AllDrafted /\ members \in Seq(Entry) /\ owed \in [Users -> Nat]
  BY <1>1, TypeParts, GroupsAssumption DEF Scalars
<1>3. Most >= 0
  BY <1>1, CountedParts
<1>4. 0 <= most
  BY <1>1, <1>3
<1>5. ASSUME NEW i \in DOMAIN members PROVE members[i].unread <= most
  <2>1. members[i].unread \in Nat /\ members[i].unread <= Most
    BY <1>1, <1>2, EntryFields, ElementOfSeq, CountedParts, LenProperties
  <2> QED BY <1>1, <2>1
<1>6. ASSUME NEW u \in Users PROVE owed[u] <= most
  <2>1. owed[u] \in Nat /\ owed[u] <= Most
    BY <1>1, <1>2, CountedParts
  <2> QED BY <1>1, <2>1
<1>7. ASSUME NEW p \in Requests PROVE DraftCounted(draft[p], most) /\ Drafted(draft[p], version, members)
  <2>1. Drafted(draft[p], version, members) /\ Fits(draft[p], members) /\ DraftCounted(draft[p], Most)
    BY <1>1, <1>2, CountedParts DEF AllDrafted, Drafted
  <2> QED BY <1>1, <2>1, Raised
<1> QED BY <1>4, <1>5, <1>6, <1>7

(* A message is on its way: it will be counted once. *)
LEMMA SendSound ==
    ASSUME Sound, NEW p \in Requests, NEW u \in Users, Send(p, u)
    PROVE  Sound'
<1>1. TypeOK /\ Counted /\ Places /\ Scalars /\ AllDrafted
  BY TypeParts DEF Sound
<1>2. /\ pc[p] = "idle" /\ op' = [op EXCEPT ![p] = "send"] /\ pc' = [pc EXCEPT ![p] = "note"]
      /\ who' = [who EXCEPT ![p] = u] /\ target' = target /\ draft' = draft
      /\ members' = members /\ version' = version /\ owed' = owed
      /\ posts < MaxPosts /\ posts' = posts + 1
  BY DEF Send, Begin, Posting
<1>3. /\ pc'[p] = "note" /\ op'[p] = "send" /\ who'[p] = u
      /\ \A q \in Requests : q # p => pc'[q] = pc[q] /\ op'[q] = op[q] /\ who'[q] = who[q] /\ target'[q] = target[q]
  BY <1>1, <1>2 DEF Scalars
<1>4. posts' \in 0..MaxPosts
  BY <1>1, <1>2, Numbers
<1>5. Scalars'
  BY <1>1, <1>2, <1>4 DEF Scalars
<1>6. Place(p)'
  BY <1>3 DEF Place
<1>7. draft' = [draft EXCEPT ![p] = draft[p]]
  BY <1>1, <1>2 DEF AllDrafted
<1>8. Cardinality(Owing') <= Cardinality(Owing) + 1 /\ Cardinality(Owing') \in Nat
  <2>1. Owing' \subseteq Owing \cup {p}
    BY <1>3 DEF Owing
  <2> QED BY <1>1, <2>1, Numbers, CountOne
<1>9. Most <= Most' /\ Most' \in Int
  BY <1>1, <1>2, <1>8, Numbers DEF Most
<1>10. version' + Cardinality(Pushing') <= posts'
  <2>1. Pushing' \subseteq Pushing
    BY <1>2, <1>3 DEF Pushing
  <2>2. Cardinality(Pushing') <= Cardinality(Pushing) /\ Cardinality(Pushing') \in Nat
    BY <1>1, <2>1, Numbers, CountOne
  <2>3. version + Cardinality(Pushing) <= posts
    BY <1>1, CountedParts
  <2> QED BY <1>1, <1>2, <2>2, <2>3, Numbers
<1>11. /\ \A i \in DOMAIN members' : members'[i].unread <= Most'
       /\ \A v \in Users : owed'[v] <= Most'
       /\ DraftCounted(draft[p], Most') /\ Drafted(draft[p], version', members')
  BY <1>2, <1>9, StillCounted
<1>12. version <= version' /\ DOMAIN members \subseteq DOMAIN members'
  BY <1>1, <1>2, Numbers
<1> QED BY <1>3, <1>5, <1>6, <1>7, <1>9, <1>10, <1>11, <1>12, SoundAfter

(* A save that comes too late leaves everything as it was. *)
LEMMA RejectedSound ==
    ASSUME Sound, NEW p \in Requests, Rejected(p)
    PROVE  Sound'
<1>1. TypeOK /\ Counted /\ Places /\ Scalars /\ AllDrafted
  BY TypeParts DEF Sound
<1>2. /\ pc[p] = "save" /\ op' = [op EXCEPT ![p] = "none"] /\ pc' = [pc EXCEPT ![p] = "idle"]
      /\ who' = [who EXCEPT ![p] = None] /\ target' = [target EXCEPT ![p] = None]
      /\ draft' = [draft EXCEPT ![p] = NoDraft]
      /\ members' = members /\ version' = version /\ owed' = owed /\ posts' = posts
  BY DEF Rejected, Finish
<1>3. /\ pc'[p] = "idle" /\ op'[p] = "none"
      /\ \A q \in Requests : q # p => pc'[q] = pc[q] /\ op'[q] = op[q] /\ who'[q] = who[q] /\ target'[q] = target[q]
  BY <1>1, <1>2 DEF Scalars
<1>4. /\ draft'[p] = NoDraft /\ \A q \in Requests : q # p => draft'[q] = draft[q]
  BY <1>1, <1>2 DEF AllDrafted
<1>5. Scalars'
  BY <1>1, <1>2 DEF Scalars
<1>6. Place(p)'
  BY <1>3 DEF Place
<1>7. Cardinality(Owing') <= Cardinality(Owing) /\ Cardinality(Owing') \in Nat
  <2>1. Owing' \subseteq Owing
    BY <1>3 DEF Owing
  <2> QED BY <1>1, <2>1, Numbers, CountOne
<1>8. Most <= Most' /\ Most' \in Int
  BY <1>1, <1>2, <1>7, Numbers DEF Most
<1>9. version' + Cardinality(Pushing') <= posts'
  <2>1. Pushing' \subseteq Pushing
    BY <1>3, <1>4 DEF Pushing
  <2>2. Cardinality(Pushing') <= Cardinality(Pushing) /\ Cardinality(Pushing') \in Nat
    BY <1>1, <2>1, Numbers, CountOne
  <2>3. version + Cardinality(Pushing) <= posts
    BY <1>1, CountedParts
  <2> QED BY <1>1, <1>2, <2>2, <2>3, Numbers
<1>10. /\ \A i \in DOMAIN members' : members'[i].unread <= Most'
       /\ \A v \in Users : owed'[v] <= Most'
       /\ 0 <= Most'
  BY <1>2, <1>8, StillCounted
<1>11. version <= version' /\ DOMAIN members \subseteq DOMAIN members' /\ version' \in Nat
  BY <1>1, <1>2, Numbers
<1>12. Drafted(NoDraft, version', members') /\ DraftCounted(NoDraft, Most')
  BY <1>11, NoDraftFits DEF DraftCounted
<1> QED BY <1>2, <1>3, <1>5, <1>6, <1>8, <1>9, <1>10, <1>11, <1>12, SoundAfter

(* A save writes counts that are due and pushes what was paid for. *)
LEMMA WrittenRow ==
    ASSUME Sound, NEW p \in Requests, pc[p] = "save" \/ pc[p] = "bump", Saved(draft[p])
    PROVE  /\ Fits(draft[p], members) /\ members' = Applied(members, draft[p])
           /\ members' \in Seq(Entry) /\ DOMAIN members \subseteq DOMAIN members'
           /\ \A i \in DOMAIN members' : members'[i].unread <= Most
           /\ version' \in Nat /\ version <= version' /\ version' <= posts
           /\ \A S \in SUBSET Requests :
                 S \subseteq Pushing \ {p} => Cardinality(S) \in Nat /\ version' + Cardinality(S) <= posts
<1> DEFINE d == draft[p]
           k == Len(d.push)
           n == Len(members)
<1>1. TypeOK /\ Counted /\ Places /\ Scalars /\ AllDrafted /\ Most \in Int
  BY TypeParts, Numbers DEF Sound
<1>2. Fits(d, members) /\ members \in Seq(Entry) /\ d.push \in Seq(Entry) /\ k \in Nat
  BY <1>1, LenProperties DEF AllDrafted, Drafted, Scalars, Fits
<1>3. members' = Applied(members, d) /\ version' = version + k
  BY DEF Saved
<1>4. DraftCounted(d, Most) /\ version + Cardinality(Pushing) <= posts /\ 0 <= Most
  BY <1>1, CountedParts
<1> HIDE DEF d
<1> DEFINE new == Applied(members, d)
<1>5. /\ new \in Seq(Entry) /\ Len(new) = n + k
      /\ n \in Nat
      /\ DOMAIN members = 1..n /\ DOMAIN new = 1..Len(new)
      /\ DOMAIN members \subseteq DOMAIN new
      /\ \A i \in DOMAIN members, f \in Fields :
            new[i][f] = IF <<i, f>> \in DOMAIN d.set THEN d.set[<<i, f>>] ELSE members[i][f]
      /\ \A i \in 1..k : new[n + i] = d.push[i]
  <2>1. members \in Seq(Entry) /\ Fits(d, members)
    BY <1>2
  <2> HIDE DEF n, k
  <2>2. /\ new \in Seq(Entry) /\ Len(new) = Len(members) + Len(d.push)
        /\ Len(members) \in Nat /\ Len(d.push) \in Nat
        /\ DOMAIN members = 1..Len(members) /\ DOMAIN new = 1..Len(new)
        /\ DOMAIN members \subseteq DOMAIN new
        /\ \A i \in DOMAIN members, f \in Fields :
              new[i][f] = IF <<i, f>> \in DOMAIN d.set THEN d.set[<<i, f>>] ELSE members[i][f]
        /\ \A i \in 1..Len(d.push) : new[Len(members) + i] = d.push[i]
    BY <2>1, AppliedRow
  <2> HIDE DEF new
  <2> QED BY <2>2 DEF n, k
<1> HIDE DEF new, n, k
<1>6. ASSUME NEW i \in DOMAIN new PROVE new[i].unread <= Most
  <2>1. CASE i \in DOMAIN members
    <3>1. members[i] \in Entry /\ new[i] \in Entry /\ "unread" \in Fields
      BY <1>2, <1>5, <2>1, ElementOfSeq, LenProperties DEF Fields
    <3>2. members[i].unread <= Most
      BY <1>1, <2>1, CountedParts
    <3>3. <<i, "unread">> \in DOMAIN d.set => d.set[<<i, "unread">>] <= Most
      <4> SUFFICES ASSUME <<i, "unread">> \in DOMAIN d.set PROVE d.set[<<i, "unread">>] <= Most
        OBVIOUS
      <4>1. <<i, "unread">>[2] = "unread"
        OBVIOUS
      <4> QED BY <1>4, <4>1 DEF DraftCounted
    <3>4. new[i]["unread"] <= Most
      <4>1. members[i]["unread"] <= Most
        BY <3>1, <3>2, EntryFields
      <4> QED BY <1>5, <2>1, <3>1, <3>3, <4>1
    <3> QED BY <3>1, <3>4, EntryFields
  <2>2. CASE i \notin DOMAIN members
    <3>1. i - n \in 1..k /\ n + (i - n) = i
      BY <1>2, <1>5, <2>2
    <3>2. new[i] = d.push[i - n]
      BY <1>5, <3>1
    <3>3. i - n \in DOMAIN d.push
      BY <1>2, <3>1, LenProperties DEF k
    <3> QED BY <1>4, <3>2, <3>3 DEF DraftCounted
  <2> QED BY <2>1, <2>2
<1>7. k <= 1
  BY <1>4 DEF DraftCounted, k
<1>8. k # 0 => p \in Pushing
  <2> SUFFICES ASSUME k # 0 PROVE p \in Pushing
    OBVIOUS
  <2>1. d.push # <<>>
    BY <1>2, EmptySeq DEF k
  <2>2. pc[p] # "bump"
    BY <1>1, <2>1 DEF Places, Harmless, d
  <2> QED BY <2>1, <2>2 DEF Pushing, d
<1>9. ASSUME NEW S \in SUBSET Requests, S \subseteq Pushing \ {p}
      PROVE  Cardinality(S) \in Nat /\ version' + Cardinality(S) <= posts
  <2>1. Cardinality(S) \in Nat /\ Cardinality(Pushing) \in Nat /\ version \in Nat /\ posts \in Nat
    BY <1>1, Numbers, CountOne
  <2>2. CASE k = 0
    <3>1. S \subseteq Pushing
      BY <1>9
    <3>2. Cardinality(S) <= Cardinality(Pushing)
      BY <1>1, <3>1, Numbers, CountOne
    <3> QED BY <1>3, <1>4, <2>1, <2>2, <3>2
  <2>3. CASE k # 0
    <3>1. p \in Pushing /\ k = 1
      BY <1>2, <1>7, <1>8, <2>3
    <3>2. Cardinality(S) + 1 <= Cardinality(Pushing)
      BY <1>1, <1>9, <3>1, Numbers, CountOne
    <3> QED BY <1>3, <1>4, <2>1, <3>1, <3>2
  <2> QED BY <2>2, <2>3
<1>10. version' \in Nat /\ version <= version' /\ version' <= posts
  <2>1. {} \in SUBSET Requests /\ {} \subseteq Pushing \ {p}
    OBVIOUS
  <2>2. Cardinality({}) \in Nat /\ version' + Cardinality({}) <= posts
    BY <1>9, <2>1
  <2>3. version \in Nat /\ posts \in Nat
    BY <1>1, Numbers
  <2> QED BY <1>2, <1>3, <2>2, <2>3
<1> QED BY <1>2, <1>3, <1>5, <1>6, <1>9, <1>10 DEF d, new

LEMMA OwedIsNumber ==
    ASSUME Sound, NEW p \in Requests, pc[p] = "save"
    PROVE  /\ OwedAfter(p) \in [Users -> 0..MaxPosts]
           /\ \A u \in Users : OwedAfter(p)[u] <= Most
           /\ op[p] \in {"read", "add"} => target[p] \in Users /\ OwedAfter(p) = [owed EXCEPT ![target[p]] = 0]
           /\ op[p] \notin {"read", "add"} => OwedAfter(p) = owed
<1>1. /\ owed \in [Users -> 0..MaxPosts] /\ MaxPosts \in Nat
      /\ \A u \in Users : owed[u] <= Most
      /\ target[p] \in Users /\ 0 <= Most
  BY TypeParts, CountedParts, GroupsAssumption DEF Sound, Scalars, Places
<1>2. 0 \in 0..MaxPosts
  BY <1>1
<1> QED BY <1>1, <1>2 DEF OwedAfter

(* Reading, hiding and closing end with the save. *)
LEMMA EndsSound ==
    ASSUME Sound, NEW p \in Requests, Ends(p)
    PROVE  Sound'
<1>1. TypeOK /\ Counted /\ Places /\ Scalars /\ AllDrafted
  BY TypeParts DEF Sound
<1>2. /\ pc[p] = "save" /\ op' = [op EXCEPT ![p] = "none"] /\ pc' = [pc EXCEPT ![p] = "idle"]
      /\ who' = [who EXCEPT ![p] = None] /\ target' = [target EXCEPT ![p] = None]
      /\ draft' = [draft EXCEPT ![p] = NoDraft]
      /\ owed' = OwedAfter(p) /\ posts' = posts /\ Saved(draft[p])
  BY DEF Ends, Written, Finish
<1>3. /\ pc'[p] = "idle" /\ op'[p] = "none"
      /\ \A q \in Requests : q # p => pc'[q] = pc[q] /\ op'[q] = op[q] /\ who'[q] = who[q] /\ target'[q] = target[q]
  BY <1>1, <1>2 DEF Scalars
<1>4. draft'[p] = NoDraft /\ \A q \in Requests : q # p => draft'[q] = draft[q]
  BY <1>1, <1>2 DEF AllDrafted
<1>5. /\ members' \in Seq(Entry) /\ DOMAIN members \subseteq DOMAIN members'
      /\ \A i \in DOMAIN members' : members'[i].unread <= Most
      /\ version' \in Nat /\ version <= version' /\ version' <= posts
      /\ \A S \in SUBSET Requests :
            S \subseteq Pushing \ {p} => Cardinality(S) \in Nat /\ version' + Cardinality(S) <= posts
  BY <1>2, WrittenRow
<1>6. version' \in 0..MaxPosts
  BY <1>1, <1>5, Numbers
<1>7. owed' \in [Users -> 0..MaxPosts] /\ \A u \in Users : owed'[u] <= Most
  BY <1>2, OwedIsNumber
<1>8. Scalars'
  BY <1>1, <1>2, <1>5, <1>6, <1>7 DEF Scalars
<1>9. Place(p)'
  BY <1>3 DEF Place
<1>10. Cardinality(Owing') <= Cardinality(Owing) /\ Cardinality(Owing') \in Nat
  <2>1. Owing' \subseteq Owing
    BY <1>3 DEF Owing
  <2> QED BY <1>1, <2>1, Numbers, CountOne
<1>11. Most <= Most' /\ Most' \in Int /\ Most \in Int /\ 0 <= Most
  BY <1>1, <1>2, <1>10, Numbers, CountedParts DEF Most
<1>12. version' + Cardinality(Pushing') <= posts'
  <2>1. Pushing' \subseteq Pushing \ {p}
    BY <1>3, <1>4 DEF Pushing
  <2> QED BY <1>1, <1>2, <1>5, <2>1, Numbers
<1>13. /\ \A i \in DOMAIN members' : members'[i].unread <= Most'
       /\ \A u \in Users : owed'[u] <= Most'
  <2>1. \A i \in DOMAIN members' : members'[i].unread \in Nat
    BY <1>5, EntryFields, ElementOfSeq, LenProperties
  <2>2. \A u \in Users : owed'[u] \in Nat
    BY <1>7, GroupsAssumption
  <2> QED BY <1>5, <1>7, <1>11, <2>1, <2>2
<1>14. Drafted(NoDraft, version', members') /\ DraftCounted(NoDraft, Most')
  BY <1>5, NoDraftFits DEF DraftCounted
<1> QED BY <1>2, <1>3, <1>5, <1>8, <1>9, <1>11, <1>12, <1>13, <1>14, SoundAfter

(* Any other membership change goes on to its line. *)
LEMMA GoesOnSound ==
    ASSUME Sound, NEW p \in Requests, GoesOn(p)
    PROVE  Sound'
<1>1. TypeOK /\ Counted /\ Places /\ Scalars /\ AllDrafted
  BY TypeParts DEF Sound
<1>2. /\ pc[p] = "save" /\ op' = op /\ pc' = [pc EXCEPT ![p] = "note"]
      /\ who' = [who EXCEPT ![p] = IF op[p] = "leave" THEN None ELSE who[p]] /\ target' = target
      /\ draft' = [draft EXCEPT ![p] = NoDraft]
      /\ owed' = OwedAfter(p) /\ posts' = posts /\ Saved(draft[p])
      /\ op[p] \notin {"read", "hide", "close"}
  BY DEF GoesOn, Written
<1>3. /\ pc'[p] = "note" /\ op'[p] = op[p]
      /\ \A q \in Requests : q # p => pc'[q] = pc[q] /\ op'[q] = op[q] /\ who'[q] = who[q] /\ target'[q] = target[q]
  BY <1>1, <1>2 DEF Scalars
<1>4. draft'[p] = NoDraft /\ \A q \in Requests : q # p => draft'[q] = draft[q]
  BY <1>1, <1>2 DEF AllDrafted
<1>5. /\ members' \in Seq(Entry) /\ DOMAIN members \subseteq DOMAIN members'
      /\ \A i \in DOMAIN members' : members'[i].unread <= Most
      /\ version' \in Nat /\ version <= version' /\ version' <= posts
      /\ \A S \in SUBSET Requests :
            S \subseteq Pushing \ {p} => Cardinality(S) \in Nat /\ version' + Cardinality(S) <= posts
  BY <1>2, WrittenRow
<1>6. version' \in 0..MaxPosts
  BY <1>1, <1>5, Numbers
<1>7. owed' \in [Users -> 0..MaxPosts] /\ \A u \in Users : owed'[u] <= Most
  BY <1>2, OwedIsNumber
<1>8. Scalars'
  <2>1. who' \in [Requests -> Users \cup {None}]
    BY <1>1, <1>2 DEF Scalars
  <2>2. pc' \in [Requests -> {"idle", "save", "note", "bump"}]
    BY <1>1, <1>2 DEF Scalars
  <2> QED BY <1>1, <1>2, <1>5, <1>6, <1>7, <2>1, <2>2 DEF Scalars
<1>9. Place(p)'
  BY <1>1, <1>2, <1>3 DEF Place, Places, Membership
<1>10. Cardinality(Owing') <= Cardinality(Owing) /\ Cardinality(Owing') \in Nat
  <2>1. Owing' \subseteq Owing
    BY <1>2, <1>3 DEF Owing
  <2> QED BY <1>1, <2>1, Numbers, CountOne
<1>11. Most <= Most' /\ Most' \in Int /\ Most \in Int /\ 0 <= Most
  BY <1>1, <1>2, <1>10, Numbers, CountedParts DEF Most
<1>12. version' + Cardinality(Pushing') <= posts'
  <2>1. Pushing' \subseteq Pushing \ {p}
    BY <1>3, <1>4 DEF Pushing
  <2> QED BY <1>1, <1>2, <1>5, <2>1, Numbers
<1>13. /\ \A i \in DOMAIN members' : members'[i].unread <= Most'
       /\ \A u \in Users : owed'[u] <= Most'
  <2>1. \A i \in DOMAIN members' : members'[i].unread \in Nat
    BY <1>5, EntryFields, ElementOfSeq, LenProperties
  <2>2. \A u \in Users : owed'[u] \in Nat
    BY <1>7, GroupsAssumption
  <2> QED BY <1>5, <1>7, <1>11, <2>1, <2>2
<1>14. Drafted(NoDraft, version', members') /\ DraftCounted(NoDraft, Most')
  BY <1>5, NoDraftFits DEF DraftCounted
<1> QED BY <1>2, <1>3, <1>5, <1>8, <1>9, <1>11, <1>12, <1>13, <1>14, SoundAfter

(* Whoever owes a count leaves room for it. *)
LEMMA Room ==
    ASSUME Sound, NEW p \in Requests, pc[p] = "note"
    PROVE  Most \in Nat /\ Most < MaxPosts
<1>1. TypeOK /\ Counted
  BY DEF Sound
<1>2. p \in Owing
  BY DEF Owing
<1>3. Cardinality({}) \in Nat /\ Cardinality({}) + 1 <= Cardinality(Owing)
  <2>1. {} \in SUBSET Requests /\ {} \subseteq Owing \ {p}
    OBVIOUS
  <2> QED BY <1>1, <1>2, <2>1, Numbers, CountOne
<1> QED BY <1>1, <1>3, Numbers, CountedParts DEF Most

(* The step of Post, by the operators of this module *)
LEMMA Posts ==
    ASSUME NEW p \in Requests, Post(p)
    PROVE  /\ pc[p] = "note"
           /\ draft' = [draft EXCEPT ![p] = Draft(CountedUp(members, who[p]), FALSE)]
           /\ owed' = [u \in Users |-> IF \E i \in Others(members, who[p]) : members[i].user = u
                                          THEN owed[u] + 1 ELSE owed[u]]
           /\ pc' = [pc EXCEPT ![p] = "bump"]
           /\ UNCHANGED <<members, version, posts, op, who, target>>
BY DEF Post, CountedUp, Others

LEMMA PostSound ==
    ASSUME Sound, NEW p \in Requests, Post(p)
    PROVE  Sound'
<1> DEFINE d == Draft(CountedUp(members, who[p]), FALSE)
<1>1. TypeOK /\ Counted /\ Places /\ Scalars /\ AllDrafted
  BY TypeParts DEF Sound
<1>2. /\ pc[p] = "note" /\ op' = op /\ pc' = [pc EXCEPT ![p] = "bump"]
      /\ who' = who /\ target' = target
      /\ draft' = [draft EXCEPT ![p] = d]
      /\ owed' = [u \in Users |-> IF \E i \in Others(members, who[p]) : members[i].user = u
                                     THEN owed[u] + 1 ELSE owed[u]]
      /\ members' = members /\ version' = version /\ posts' = posts
  BY Posts
<1>3. /\ pc'[p] = "bump" /\ op'[p] = op[p]
      /\ \A q \in Requests : q # p => pc'[q] = pc[q] /\ op'[q] = op[q] /\ who'[q] = who[q] /\ target'[q] = target[q]
  BY <1>1, <1>2 DEF Scalars
<1>4. Most \in Nat /\ Most < MaxPosts
  BY <1>2, Room
<1>5. /\ Fits(d, members)
      /\ d.ver = version /\ d.where \in BOOLEAN
      /\ d = [ver |-> d.ver, where |-> d.where, set |-> d.set, push |-> d.push]
      /\ \A w \in DOMAIN d.set : w[2] = "unread" => d.set[w] <= Most + 1
      /\ Harmless(d)
  <2>1. \A i \in DOMAIN members : members[i].unread <= Most
    BY <1>1, CountedParts
  <2> QED BY <1>1, <1>4, <2>1, PostDraft
<1> HIDE DEF d
<1>6. \A q \in Requests : q # p => draft'[q] = draft[q]
  BY <1>1, <1>2 DEF AllDrafted
<1>7. owed' \in [Users -> 0..MaxPosts] /\ \A u \in Users : owed'[u] <= Most + 1
  <2>1. owed \in [Users -> 0..MaxPosts] /\ \A u \in Users : owed[u] <= Most
    BY <1>1, CountedParts DEF Scalars
  <2>2. \A m \in 0..MaxPosts : m <= Most => m + 1 \in 0..MaxPosts /\ m + 1 <= Most + 1 /\ m <= Most + 1
    BY <1>1, <1>4, Numbers
  <2> QED BY <1>2, <2>1, <2>2
<1>8. Scalars'
  BY <1>1, <1>2, <1>7 DEF Scalars
<1>9. draft'[p] = d => Place(p)'
  BY <1>1, <1>2, <1>3, <1>5 DEF Place, Places
<1>10. Cardinality(Owing') + 1 <= Cardinality(Owing) /\ Cardinality(Owing') \in Nat
  <2>1. Owing' \subseteq Owing \ {p} /\ p \in Owing
    BY <1>2, <1>3 DEF Owing
  <2> QED BY <1>1, <2>1, Numbers, CountOne
<1>11. Most + 1 <= Most' /\ Most' \in Int
  BY <1>1, <1>2, <1>10, Numbers DEF Most
<1>12. version' + Cardinality(Pushing') <= posts'
  <2>1. Pushing' \subseteq Pushing
    BY <1>2, <1>3, <1>6 DEF Pushing
  <2>2. Cardinality(Pushing') <= Cardinality(Pushing) /\ Cardinality(Pushing') \in Nat
    BY <1>1, <2>1, Numbers, CountOne
  <2>3. version + Cardinality(Pushing) <= posts
    BY <1>1, CountedParts
  <2> QED BY <1>1, <1>2, <2>2, <2>3, Numbers
<1>13. Most <= Most'
  BY <1>4, <1>11
<1>14. \A i \in DOMAIN members' : members'[i].unread <= Most'
  BY <1>2, <1>11, <1>13, StillCounted
<1>15. \A u \in Users : owed'[u] <= Most'
  <2>1. \A m \in 0..MaxPosts : m <= Most + 1 => m <= Most'
    BY <1>4, <1>11
  <2> QED BY <1>7, <2>1
<1>16. Drafted(d, version', members') /\ version <= version' /\ DOMAIN members \subseteq DOMAIN members'
  BY <1>1, <1>2, <1>5, Numbers DEF Drafted
<1>17. DraftCounted(d, Most')
  <2>1. DraftCounted(d, Most + 1)
    <3>1. DOMAIN d.push = {} /\ Len(d.push) = 0
      BY <1>5, EmptySeq DEF Harmless
    <3> QED BY <1>5, <3>1 DEF DraftCounted
  <2> QED BY <1>4, <1>5, <1>11, <2>1, Raised
<1> QED BY <1>2, <1>3, <1>8, <1>9, <1>11, <1>12, <1>13, <1>14, <1>15, <1>16, <1>17, SoundAfter

LEMMA BumpSound ==
    ASSUME Sound, NEW p \in Requests, Bump(p)
    PROVE  Sound'
<1>1. TypeOK /\ Counted /\ Places /\ Scalars /\ AllDrafted
  BY TypeParts DEF Sound
<1>2. /\ pc[p] = "bump" /\ op' = [op EXCEPT ![p] = "none"] /\ pc' = [pc EXCEPT ![p] = "idle"]
      /\ who' = [who EXCEPT ![p] = None] /\ target' = [target EXCEPT ![p] = None]
      /\ draft' = [draft EXCEPT ![p] = NoDraft]
      /\ owed' = owed /\ posts' = posts
      /\ Saved(draft[p]) \/ (members' = members /\ version' = version)
  BY DEF Bump, Finish
<1>3. /\ pc'[p] = "idle" /\ op'[p] = "none"
      /\ \A q \in Requests : q # p => pc'[q] = pc[q] /\ op'[q] = op[q] /\ who'[q] = who[q] /\ target'[q] = target[q]
  BY <1>1, <1>2 DEF Scalars
<1>4. draft'[p] = NoDraft /\ \A q \in Requests : q # p => draft'[q] = draft[q]
  BY <1>1, <1>2 DEF AllDrafted
<1>5. /\ members' \in Seq(Entry) /\ DOMAIN members \subseteq DOMAIN members'
      /\ \A i \in DOMAIN members' : members'[i].unread <= Most
      /\ version' \in Nat /\ version <= version' /\ version' <= posts
      /\ \A S \in SUBSET Requests :
            S \subseteq Pushing \ {p} => Cardinality(S) \in Nat /\ version' + Cardinality(S) <= posts
  <2>1. CASE Saved(draft[p])
    BY <1>2, <2>1, WrittenRow
  <2>2. CASE members' = members /\ version' = version
    <3>1. members \in Seq(Entry) /\ \A i \in DOMAIN members : members[i].unread <= Most
      BY <1>1, CountedParts DEF Scalars
    <3>2. version + Cardinality(Pushing) <= posts /\ version \in Nat /\ posts \in Nat /\ Cardinality(Pushing) \in Nat
      BY <1>1, CountedParts, Numbers
    <3>3. ASSUME NEW S \in SUBSET Requests, S \subseteq Pushing \ {p}
          PROVE  Cardinality(S) \in Nat /\ Cardinality(S) <= Cardinality(Pushing)
      BY <1>1, <3>3, Numbers, CountOne
    <3>4. \A m \in Nat : m <= Cardinality(Pushing) => version + m <= posts
      BY <3>2
    <3> QED BY <2>2, <3>1, <3>2, <3>3, <3>4
  <2> QED BY <1>2, <2>1, <2>2
<1>6. version' \in 0..MaxPosts
  BY <1>1, <1>5, Numbers
<1>7. Scalars'
  BY <1>1, <1>2, <1>5, <1>6 DEF Scalars
<1>8. Place(p)'
  BY <1>3 DEF Place
<1>9. Cardinality(Owing') <= Cardinality(Owing) /\ Cardinality(Owing') \in Nat
  <2>1. Owing' \subseteq Owing
    BY <1>3 DEF Owing
  <2> QED BY <1>1, <2>1, Numbers, CountOne
<1>10. Most <= Most' /\ Most' \in Int /\ Most \in Int /\ 0 <= Most
  BY <1>1, <1>2, <1>9, Numbers, CountedParts DEF Most
<1>11. version' + Cardinality(Pushing') <= posts'
  <2>1. Pushing' \subseteq Pushing \ {p}
    BY <1>3, <1>4 DEF Pushing
  <2> QED BY <1>1, <1>2, <1>5, <2>1, Numbers
<1>12. /\ \A i \in DOMAIN members' : members'[i].unread <= Most'
       /\ \A u \in Users : owed'[u] <= Most'
  <2>1. \A i \in DOMAIN members' : members'[i].unread \in Nat
    BY <1>5, EntryFields, ElementOfSeq, LenProperties
  <2>2. \A u \in Users : owed'[u] <= Most'
    BY <1>2, <1>10, StillCounted
  <2> QED BY <1>5, <1>10, <2>1, <2>2
<1>13. Drafted(NoDraft, version', members') /\ DraftCounted(NoDraft, Most')
  BY <1>5, <1>10, NoDraftFits DEF DraftCounted
<1> QED BY <1>2, <1>3, <1>5, <1>7, <1>8, <1>10, <1>11, <1>12, <1>13, SoundAfter

LEMMA SoundStep ==
    ASSUME Sound, NEW p \in Requests, Request(p) \/ Save(p) \/ Post(p) \/ Bump(p)
    PROVE  Sound'
<1>1. TypeOK
  BY DEF Sound
<1> QED BY <1>1, StepCases, AskedSound, SendSound, RejectedSound, EndsSound, GoesOnSound, PostSound, BumpSound

(* What each kind of step does to the handlers *)
Rest(p) ==
    \A q \in Requests : q # p => /\ pc'[q] = pc[q] /\ op'[q] = op[q] /\ who'[q] = who[q]
                                /\ target'[q] = target[q] /\ draft'[q] = draft[q]

LEMMA AskedEffect ==
    ASSUME Sound, NEW p \in Requests, NEW o \in Membership \cup {"read"}, NEW u \in Users, NEW x \in Users,
           NEW new \in Seq(Entry), NEW touch \in BOOLEAN, Asked(p, o, u, x, new, touch)
    PROVE  /\ Rest(p) /\ pc[p] = "idle" /\ pc'[p] = "save" /\ op'[p] = o /\ who'[p] = u /\ target'[p] = x
           /\ members' = members /\ version' = version /\ owed' = owed
           /\ Applied(members, draft'[p]) = new /\ draft'[p].ver = version
           /\ Copied(o, u, x, members, new) /\ Begin(p, o)
<1> DEFINE d == Draft(new, touch)
<1>1. TypeOK /\ Scalars /\ AllDrafted
  BY TypeParts DEF Sound
<1>2. /\ pc[p] = "idle" /\ op' = [op EXCEPT ![p] = o] /\ pc' = [pc EXCEPT ![p] = "save"]
      /\ who' = [who EXCEPT ![p] = u] /\ target' = [target EXCEPT ![p] = x]
      /\ draft' = [draft EXCEPT ![p] = d]
      /\ members' = members /\ version' = version /\ owed' = owed
      /\ Copied(o, u, x, members, new) /\ Begin(p, o)
  BY DEF Asked, Begin, Load
<1>3. /\ Fits(d, members) /\ Applied(members, d) = new
      /\ d.ver = version /\ d.where \in BOOLEAN
      /\ d = [ver |-> d.ver, where |-> d.where, set |-> d.set, push |-> d.push]
      /\ \A w \in DOMAIN d.set : w[2] = "unread" => d.set[w] = 0
      /\ \A i \in DOMAIN d.push : d.push[i].unread = 0
      /\ Len(d.push) <= 1
      /\ o # "add" => d.push = <<>>
      /\ o = "read" => Harmless(d)
  <2>1. /\ Copied(o, u, x, members, new) /\ (o = "add" \/ Len(new) = Len(members))
        /\ (o = "read" => Alike(members, new) /\ \A i \in DOMAIN members : new[i].since = members[i].since)
    BY DEF Asked
  <2> QED BY <1>1, <2>1, AskedDraft
<1> HIDE DEF d
<1>4. draft'[p] = d /\ Rest(p)
  BY <1>1, <1>2 DEF Scalars, AllDrafted, Rest
<1>5. pc'[p] = "save" /\ op'[p] = o /\ who'[p] = u /\ target'[p] = x
  BY <1>1, <1>2 DEF Scalars
<1> QED BY <1>2, <1>3, <1>4, <1>5

LEMMA SaveEffect ==
    ASSUME Sound, NEW p \in Requests
    PROVE  /\ Rejected(p) => Rest(p) /\ pc'[p] = "idle" /\ UNCHANGED <<members, version, owed>>
           /\ Ends(p) => Rest(p) /\ pc'[p] = "idle" /\ Written(p)
           /\ GoesOn(p) => Rest(p) /\ pc'[p] = "note" /\ Written(p)
<1>1. Scalars /\ AllDrafted
  BY TypeParts DEF Sound
<1>2. Finish(p) => Rest(p) /\ pc'[p] = "idle"
  BY <1>1 DEF Finish, Scalars, AllDrafted, Rest
<1>3. GoesOn(p) => Rest(p) /\ pc'[p] = "note"
  BY <1>1 DEF GoesOn, Scalars, AllDrafted, Rest
<1> QED BY <1>2, <1>3 DEF Rejected, Ends, GoesOn

LEMMA TrafficEffect ==
    ASSUME Sound, NEW p \in Requests
    PROVE  /\ \A u \in Users : Send(p, u) =>
                 Rest(p) /\ pc[p] = "idle" /\ pc'[p] = "note" /\ UNCHANGED <<members, version, owed>> /\ Begin(p, "send")
           /\ Post(p) => Rest(p) /\ pc'[p] = "bump" /\ UNCHANGED <<members, version>>
           /\ Bump(p) => /\ Rest(p) /\ pc'[p] = "idle" /\ pc[p] = "bump" /\ owed' = owed
                         /\ IF VersionError(draft[p]) THEN UNCHANGED <<members, version>> ELSE Saved(draft[p])
<1>1. Scalars /\ AllDrafted
  BY TypeParts DEF Sound
<1>2. ASSUME NEW u \in Users, Send(p, u)
      PROVE  Rest(p) /\ pc[p] = "idle" /\ pc'[p] = "note" /\ UNCHANGED <<members, version, owed>> /\ Begin(p, "send")
  BY <1>1, <1>2 DEF Send, Begin, Scalars, Rest
<1>3. Post(p) => Rest(p) /\ pc'[p] = "bump" /\ UNCHANGED <<members, version>>
  <2> SUFFICES ASSUME Post(p) PROVE Rest(p) /\ pc'[p] = "bump" /\ UNCHANGED <<members, version>>
    OBVIOUS
  <2> DEFINE d == Draft(CountedUp(members, who[p]), FALSE)
  <2>1. /\ op' = op /\ pc' = [pc EXCEPT ![p] = "bump"] /\ who' = who /\ target' = target
        /\ draft' = [draft EXCEPT ![p] = d]
        /\ members' = members /\ version' = version
    BY Posts
  <2> HIDE DEF d
  <2> QED BY <1>1, <2>1 DEF Scalars, AllDrafted, Rest
<1>4. Finish(p) => Rest(p) /\ pc'[p] = "idle"
  BY <1>1 DEF Finish, Scalars, AllDrafted, Rest
<1> QED BY <1>2, <1>3, <1>4 DEF Bump

-----------------------------------------------------------------------------
(* Membership changes one at a time *)

LEMMA SelfAlike == ASSUME NEW row PROVE Alike(row, row)
BY DEF Alike

LEMMA SameChange ==
    ASSUME NEW o, NEW u, NEW x, NEW row, NEW other, NEW new, NEW now,
           Alike(row, other), Alike(new, now), Change(o, u, x, row, new)
    PROVE  Change(o, u, x, other, now)
<1>1. People(row) = People(other) /\ AdminPeople(row) = AdminPeople(other)
  BY AlikeRows
<1>2. People(new) = People(now) /\ AdminPeople(new) = AdminPeople(now)
  BY AlikeRows
<1> QED BY <1>1, <1>2 DEF Change

(* Traffic leaves the changes that are under way what they are. *)
LEMMA ChangesAfter ==
    ASSUME Sound, ChangesHold, NEW p \in Requests, Rest(p), pc'[p] # "save" \/ op'[p] \notin Membership,
           members' \in Seq(Entry), Alike(members, members')
    PROVE  ChangesHold'
<1> SUFFICES ASSUME Overlap # "all"
             PROVE  /\ OneEntry(members')
                    /\ \A q, r \in Requests : Changing(q)' /\ Changing(r)' => q = r
                    /\ \A q \in Requests : Changing(q)' =>
                          LET new == Applied(members', draft'[q])
                          IN  OneEntry(new) /\ Change(op'[q], who'[q], target'[q], members', new)
  BY DEF ChangesHold
<1>1. /\ OneEntry(members)
      /\ \A q, r \in Requests : Changing(q) /\ Changing(r) => q = r
      /\ \A q \in Requests : Changing(q) =>
            LET new == Applied(members, draft[q])
            IN  OneEntry(new) /\ Change(op[q], who[q], target[q], members, new)
  BY DEF ChangesHold
<1>2. \A q \in Requests : Changing(q)' => Changing(q) /\ q # p
  BY DEF Changing, Rest
<1>3. OneEntry(members')
  BY <1>1, AlikeRows
<1>4. ASSUME NEW q \in Requests, Changing(q)'
      PROVE  OneEntry(Applied(members', draft'[q]))
             /\ Change(op'[q], who'[q], target'[q], members', Applied(members', draft'[q]))
  <2> DEFINE d == draft[q]
  <2>1. Changing(q) /\ q # p /\ draft'[q] = d /\ op'[q] = op[q] /\ who'[q] = who[q] /\ target'[q] = target[q]
    BY <1>2, <1>4 DEF Rest
  <2>2. Fits(d, members) /\ members \in Seq(Entry)
    BY TypeParts DEF Sound, AllDrafted, Drafted, Scalars
  <2>3. OneEntry(Applied(members, d)) /\ Change(op[q], who[q], target[q], members, Applied(members, d))
    BY <1>1, <2>1
  <2> HIDE DEF d
  <2>4. Alike(Applied(members, d), Applied(members', d))
    BY <2>2, AlikeApplied
  <2>5. OneEntry(Applied(members', d))
    BY <2>3, <2>4, AlikeRows
  <2>6. Change(op[q], who[q], target[q], members', Applied(members', d))
    BY <2>3, <2>4, SameChange
  <2> QED BY <2>1, <2>5, <2>6
<1> QED BY <1>1, <1>2, <1>3, <1>4

LEMMA AskedChanges ==
    ASSUME Sound, ChangesHold, NEW p \in Requests, NEW o \in Membership \cup {"read"}, NEW u \in Users,
           NEW x \in Users, NEW new \in Seq(Entry), NEW touch \in BOOLEAN, Asked(p, o, u, x, new, touch)
    PROVE  ChangesHold'
<1>1. /\ Rest(p) /\ pc[p] = "idle" /\ pc'[p] = "save" /\ op'[p] = o /\ who'[p] = u /\ target'[p] = x
      /\ members' = members /\ version' = version /\ owed' = owed
      /\ Applied(members, draft'[p]) = new /\ draft'[p].ver = version
      /\ Copied(o, u, x, members, new) /\ Begin(p, o)
  BY AskedEffect
<1>2. members \in Seq(Entry)
  BY DEF Sound, TypeOK
<1>3. CASE o = "read"
  <2>1. op'[p] \notin Membership
    BY <1>1, <1>3 DEF Membership
  <2>2. members' \in Seq(Entry) /\ Alike(members, members')
    BY <1>1, <1>2, SelfAlike
  <2> QED BY <1>1, <2>1, <2>2, ChangesAfter
<1>4. CASE o \in Membership
  <2> SUFFICES ASSUME Overlap # "all"
               PROVE  /\ OneEntry(members')
                      /\ \A q, r \in Requests : Changing(q)' /\ Changing(r)' => q = r
                      /\ \A q \in Requests : Changing(q)' =>
                            LET now == Applied(members', draft'[q])
                            IN  OneEntry(now) /\ Change(op'[q], who'[q], target'[q], members', now)
    BY DEF ChangesHold
  <2>1. OneEntry(members)
    BY DEF ChangesHold
  <2>2. \A q \in Requests : ~Changing(q)
    <3>1. Overlap = "none" \/ Overlap = "traffic"
      BY GroupsAssumption
    <3> QED BY <1>1, <1>4, <3>1 DEF Begin, Changing
  <2>3. \A q \in Requests : Changing(q)' => q = p
    BY <2>2 DEF Changing, Rest, Asked, Begin, Load
  <2>4. OneEntry(new) /\ Change(o, u, x, members, new)
    BY <1>1, <2>1 DEF Copied
  <2>5. OneEntry(Applied(members', draft'[p]))
        /\ Change(op'[p], who'[p], target'[p], members', Applied(members', draft'[p]))
    BY <1>1, <2>4
  <2> QED BY <1>1, <2>1, <2>3, <2>5
<1> QED BY <1>3, <1>4

(* A save writes what its handler decided, and ends the change. *)
LEMMA WrittenChanges ==
    ASSUME Sound, ChangesHold, NEW p \in Requests, Written(p), Rest(p), pc'[p] # "save"
    PROVE  /\ ChangesHold'
           /\ \/ Alike(members, members')
              \/ /\ op[p] \in Membership
                 /\ Overlap # "all" => Change(op[p], who[p], target[p], members, members')
<1>1. /\ pc[p] = "save" /\ Saved(draft[p])
      /\ op[p] \in Membership \cup {"read"} /\ (op[p] = "read" => Harmless(draft[p]))
  BY DEF Written, Sound, Places
<1>2. /\ Fits(draft[p], members) /\ members' = Applied(members, draft[p])
      /\ members' \in Seq(Entry)
  BY <1>1, WrittenRow
<1>3. members \in Seq(Entry)
  BY DEF Sound, TypeOK
<1>4. CASE op[p] = "read"
  <2>1. Harmless(draft[p])
    BY <1>1, <1>4
  <2> DEFINE d == draft[p]
  <2>2. Fits(d, members) /\ Harmless(d) /\ members' = Applied(members, d)
    BY <1>2, <2>1
  <2> HIDE DEF d
  <2>3. Alike(members, members')
    BY <1>3, <2>2, HarmlessRow
  <2> QED BY <1>2, <2>3, ChangesAfter
<1>5. CASE op[p] \in Membership
  <2>1. Changing(p)
    BY <1>1, <1>5 DEF Changing
  <2>2. ASSUME Overlap # "all"
        PROVE  /\ OneEntry(members')
               /\ Change(op[p], who[p], target[p], members, members')
               /\ \A q \in Requests : ~Changing(q)'
    <3>1. \A q \in Requests : Changing(q) => q = p
      BY <2>1, <2>2 DEF ChangesHold
    <3>2. \A q \in Requests : ~Changing(q)'
      BY <3>1 DEF Changing, Rest
    <3>3. OneEntry(members') /\ Change(op[p], who[p], target[p], members, members')
      BY <1>2, <2>1, <2>2 DEF ChangesHold
    <3> QED BY <3>2, <3>3
  <2>3. ChangesHold'
    BY <2>2 DEF ChangesHold
  <2> QED BY <1>5, <2>2, <2>3
<1> QED BY <1>1, <1>4, <1>5

(* Counts never touch the membership. *)
LEMMA BumpAlike ==
    ASSUME Sound, NEW p \in Requests, Bump(p)
    PROVE  members' \in Seq(Entry) /\ Alike(members, members') /\ version' = version
<1>1. members \in Seq(Entry) /\ pc[p] = "bump" /\ version \in Nat
  BY TypeParts, Numbers DEF Sound, Scalars, Bump
<1>2. CASE VersionError(draft[p])
  <2>1. members' = members /\ version' = version
    BY <1>2 DEF Bump
  <2> QED BY <1>1, <2>1, SelfAlike
<1>3. CASE ~VersionError(draft[p])
  <2>1. Saved(draft[p])
    BY <1>3 DEF Bump
  <2>2. Fits(draft[p], members) /\ members' = Applied(members, draft[p]) /\ members' \in Seq(Entry)
    BY <1>1, <2>1, WrittenRow
  <2>3. Harmless(draft[p])
    BY <1>1 DEF Sound, Places
  <2>4. Len(draft[p].push) = 0
    BY <2>3, EmptySeq DEF Harmless
  <2>5. version' = version
    BY <1>1, <2>1, <2>4 DEF Saved
  <2> DEFINE d == draft[p]
  <2>6. Fits(d, members) /\ Harmless(d) /\ members' = Applied(members, d)
    BY <2>2, <2>3
  <2> HIDE DEF d
  <2>7. Alike(members, members')
    BY <1>1, <2>6, HarmlessRow
  <2> QED BY <2>2, <2>5, <2>7
<1> QED BY <1>2, <1>3

LEMMA ChangesStep ==
    ASSUME Sound, ChangesHold, NEW p \in Requests, Request(p) \/ Save(p) \/ Post(p) \/ Bump(p)
    PROVE  ChangesHold'
<1>1. members \in Seq(Entry) /\ TypeOK
  BY DEF Sound, TypeOK
<1>2. ASSUME members' = members, Rest(p), pc'[p] # "save" PROVE ChangesHold'
  <2>1. members' \in Seq(Entry) /\ Alike(members, members')
    BY <1>1, <1>2, SelfAlike
  <2> QED BY <1>2, <2>1, ChangesAfter
<1>3. ASSUME NEW u \in Users, Send(p, u) PROVE ChangesHold'
  BY <1>2, <1>3, TrafficEffect
<1>4. CASE Rejected(p)
  BY <1>2, <1>4, SaveEffect
<1>5. CASE Ends(p)
  BY <1>5, SaveEffect, WrittenChanges
<1>6. CASE GoesOn(p)
  BY <1>6, SaveEffect, WrittenChanges
<1>7. CASE Post(p)
  BY <1>2, <1>7, TrafficEffect
<1>8. CASE Bump(p)
  <2>1. Rest(p) /\ pc'[p] # "save"
    BY <1>8, TrafficEffect
  <2> QED BY <1>8, <2>1, BumpAlike, ChangesAfter
<1> QED BY <1>1, <1>3, <1>4, <1>5, <1>6, <1>7, <1>8, StepCases, AskedChanges

-----------------------------------------------------------------------------
(* Handlers one at a time *)

(* What is left to show of a step of the only handler there is *)
CopyFits(p) ==
    /\ pc[p] # "bump" => Exact(members, owed)
    /\ pc[p] \in {"save", "bump"} => draft[p].ver = version
    /\ pc[p] = "bump" => Exact(Applied(members, draft[p]), owed)
    /\ pc[p] = "save" => Plain(members, Applied(members, draft[p])) /\ Exact(Applied(members, draft[p]), OwedAfter(p))

LEMMA CopiesAfter ==
    ASSUME NEW p \in Requests, Rest(p),
           Overlap = "none" => (\A q \in Requests : q # p => pc[q] = "idle") /\ CopyFits(p)'
    PROVE  CopiesHold'
<1> SUFFICES ASSUME Overlap = "none"
             PROVE  /\ \A q, r \in Requests : pc'[q] # "idle" /\ pc'[r] # "idle" => q = r
                    /\ (\A q \in Requests : pc'[q] # "bump") => Exact(members', owed')
                    /\ \A q \in Requests :
                          LET new == Applied(members', draft'[q])
                          IN  /\ pc'[q] \in {"save", "bump"} => draft'[q].ver = version'
                              /\ pc'[q] = "bump" => Exact(new, owed')
                              /\ pc'[q] = "save" =>
                                    /\ Plain(members', new)
                                    /\ Exact(new, IF op'[q] \in {"read", "add"}
                                                    THEN [owed' EXCEPT ![target'[q]] = 0] ELSE owed')
  BY DEF CopiesHold
<1>1. \A q \in Requests : q # p => pc'[q] = "idle"
  BY DEF Rest
<1>2. CopyFits(p)'
  OBVIOUS
<1>3. (\A q \in Requests : pc'[q] # "bump") => Exact(members', owed')
  BY <1>2 DEF CopyFits
<1>4. LET new == Applied(members', draft'[p])
      IN  /\ pc'[p] \in {"save", "bump"} => draft'[p].ver = version'
          /\ pc'[p] = "bump" => Exact(new, owed')
          /\ pc'[p] = "save" =>
                /\ Plain(members', new)
                /\ Exact(new, IF op'[p] \in {"read", "add"} THEN [owed' EXCEPT ![target'[p]] = 0] ELSE owed')
  BY <1>2 DEF CopyFits, OwedAfter
<1> QED BY <1>1, <1>3, <1>4

(* What is known of the only handler there is *)
LEMMA Lone ==
    ASSUME CopiesHold, Overlap = "none", NEW p \in Requests, pc[p] # "idle"
    PROVE  (\A q \in Requests : q # p => pc[q] = "idle") /\ CopyFits(p)
<1>1. \A q \in Requests : q # p => pc[q] = "idle"
  BY DEF CopiesHold
<1>2. pc[p] # "bump" => Exact(members, owed)
  BY <1>1 DEF CopiesHold
<1> QED BY <1>1, <1>2 DEF CopiesHold, CopyFits, OwedAfter

LEMMA AskedCopies ==
    ASSUME Sound, ChangesHold, CopiesHold, NEW p \in Requests, NEW o \in Membership \cup {"read"}, NEW u \in Users,
           NEW x \in Users, NEW new \in Seq(Entry), NEW touch \in BOOLEAN, Asked(p, o, u, x, new, touch)
    PROVE  CopiesHold'
<1>1. /\ Rest(p) /\ pc[p] = "idle" /\ pc'[p] = "save" /\ op'[p] = o /\ who'[p] = u /\ target'[p] = x
      /\ members' = members /\ version' = version /\ owed' = owed
      /\ Applied(members, draft'[p]) = new /\ draft'[p].ver = version
      /\ Copied(o, u, x, members, new) /\ Begin(p, o)
  BY AskedEffect
<1>2. ASSUME Overlap = "none" PROVE (\A q \in Requests : q # p => pc[q] = "idle") /\ CopyFits(p)'
  <2>1. \A q \in Requests : pc[q] = "idle"
    BY <1>1, <1>2 DEF Begin
  <2>2. Exact(members, owed) /\ OneEntry(members)
    BY <1>2, <2>1 DEF CopiesHold, ChangesHold
  <2>3. owed \in [Users -> Nat]
    BY GroupsAssumption DEF Sound, TypeOK
  <2>4. Plain(members, new) /\ Exact(new, IF o \in {"read", "add"} THEN [owed EXCEPT ![x] = 0] ELSE owed)
    BY <1>1, <2>2, <2>3 DEF Copied
  <2>5. OwedAfter(p)' = IF o \in {"read", "add"} THEN [owed EXCEPT ![x] = 0] ELSE owed
    BY <1>1 DEF OwedAfter
  <2>6. /\ pc'[p] # "bump" /\ Exact(members', owed') /\ draft'[p].ver = version'
        /\ Plain(members', Applied(members', draft'[p])) /\ Exact(Applied(members', draft'[p]), OwedAfter(p)')
    BY <1>1, <2>2, <2>4, <2>5
  <2> QED BY <2>1, <2>6 DEF CopyFits
<1> QED BY <1>1, <1>2, CopiesAfter

LEMMA WrittenCopies ==
    ASSUME CopiesHold, NEW p \in Requests, Written(p), Rest(p), pc'[p] \in {"idle", "note"}
    PROVE  CopiesHold' /\ (Overlap = "none" => Plain(members, members'))
<1>1. pc[p] = "save" /\ members' = Applied(members, draft[p]) /\ owed' = OwedAfter(p)
  BY DEF Written, Saved
<1>2. ASSUME Overlap = "none"
      PROVE  (\A q \in Requests : q # p => pc[q] = "idle") /\ CopyFits(p)' /\ Plain(members, members')
  <2>1. (\A q \in Requests : q # p => pc[q] = "idle") /\ CopyFits(p)
    BY <1>1, <1>2, Lone
  <2>2. Plain(members, members') /\ Exact(members', owed')
    BY <1>1, <2>1 DEF CopyFits
  <2> QED BY <2>1, <2>2 DEF CopyFits
<1> QED BY <1>2, CopiesAfter

(* Each member's count goes up by the one message it is owed. *)
LEMMA PostExact ==
    ASSUME NEW row \in Seq(Entry), NEW author, NEW count \in [Users -> 0..MaxPosts], Exact(row, count),
           NEW most \in Nat, most < MaxPosts, \A i \in DOMAIN row : row[i].unread <= most
    PROVE  Exact(CountedUp(row, author),
                 [u \in Users |-> IF \E i \in Others(row, author) : row[i].user = u THEN count[u] + 1 ELSE count[u]])
<1> DEFINE new == CountedUp(row, author)
           next == [u \in Users |-> IF \E i \in Others(row, author) : row[i].user = u
                                      THEN count[u] + 1 ELSE count[u]]
<1>1. /\ new \in Seq(Entry) /\ Len(new) = Len(row) /\ Alike(row, new)
      /\ \A i \in DOMAIN row : new[i].since = row[i].since
      /\ \A i \in DOMAIN row :
            new[i].unread = IF i \in Others(row, author) THEN row[i].unread + 1 ELSE row[i].unread
  BY CountedRow
<1> HIDE DEF new
<1> SUFFICES ASSUME NEW i \in Active(new) PROVE new[i].unread = next[new[i].user]
  BY DEF Exact, new
<1>2. i \in Active(row) /\ i \in DOMAIN row /\ new[i].user = row[i].user
  BY <1>1, AlikeRows DEF Alike, Active
<1>3. row[i].user \in Users /\ row[i].unread = count[row[i].user]
  BY <1>2, LenProperties, ElementOfSeq, EntryFields DEF Exact
<1>4. i \in Others(row, author) <=> \E j \in Others(row, author) : row[j].user = row[i].user
  BY <1>2 DEF Others
<1> QED BY <1>1, <1>2, <1>3, <1>4

LEMMA PostCopies ==
    ASSUME Sound, CopiesHold, NEW p \in Requests, Post(p)
    PROVE  CopiesHold'
<1> DEFINE new == CountedUp(members, who[p])
           d == Draft(new, FALSE)
<1>1. Rest(p) /\ pc'[p] = "bump" /\ members' = members /\ version' = version
  BY TrafficEffect
<1>2. /\ pc[p] = "note" /\ draft' = [draft EXCEPT ![p] = d]
      /\ owed' = [u \in Users |-> IF \E i \in Others(members, who[p]) : members[i].user = u
                                     THEN owed[u] + 1 ELSE owed[u]]
  BY Posts
<1>3. TypeOK /\ Counted /\ members \in Seq(Entry) /\ owed \in [Users -> 0..MaxPosts] /\ draft = [q \in Requests |-> draft[q]]
  BY DEF Sound, TypeOK
<1>4. Most \in Nat /\ Most < MaxPosts /\ \A i \in DOMAIN members : members[i].unread <= Most
  BY <1>2, <1>3, Room, CountedParts
<1>5. /\ Fits(d, members) /\ Applied(members, d) = new
      /\ d.ver = version /\ d.where \in BOOLEAN
      /\ d = [ver |-> d.ver, where |-> d.where, set |-> d.set, push |-> d.push]
      /\ \A w \in DOMAIN d.set : w[2] = "unread" => d.set[w] <= Most + 1
      /\ Harmless(d)
  BY <1>3, <1>4, PostDraft
<1>6. draft'[p] = d
  <2> HIDE DEF d
  <2> QED BY <1>2, <1>3
<1>7. ASSUME Overlap = "none" PROVE (\A q \in Requests : q # p => pc[q] = "idle") /\ CopyFits(p)'
  <2>1. (\A q \in Requests : q # p => pc[q] = "idle") /\ Exact(members, owed)
    BY <1>2, <1>7, Lone DEF CopyFits
  <2>2. Exact(new, owed')
    <3> DEFINE author == who[p]
    <3> HIDE DEF d, author
    <3>1. /\ members \in Seq(Entry) /\ owed \in [Users -> 0..MaxPosts] /\ Exact(members, owed)
          /\ Most \in Nat /\ Most < MaxPosts /\ \A i \in DOMAIN members : members[i].unread <= Most
      BY <1>3, <1>4, <2>1
    <3>2. Exact(CountedUp(members, author),
                [u \in Users |-> IF \E i \in Others(members, author) : members[i].user = u
                                   THEN owed[u] + 1 ELSE owed[u]])
      BY <3>1, PostExact, Zenon
    <3> QED BY <1>2, <3>2 DEF author
  <2> HIDE DEF d, new
  <2>3. Exact(Applied(members', draft'[p]), owed') /\ draft'[p].ver = version'
    BY <1>1, <1>5, <1>6, <2>2
  <2> QED BY <1>1, <2>1, <2>3 DEF CopyFits
<1> QED BY <1>1, <1>7, CopiesAfter

LEMMA CopiesStep ==
    ASSUME Sound, ChangesHold, CopiesHold, NEW p \in Requests, Request(p) \/ Save(p) \/ Post(p) \/ Bump(p)
    PROVE  CopiesHold'
<1>1. TypeOK
  BY DEF Sound
<1>2. ASSUME NEW u \in Users, Send(p, u) PROVE CopiesHold'
  <2>1. Rest(p) /\ pc'[p] = "note" /\ UNCHANGED <<members, version, owed>> /\ Begin(p, "send")
    BY <1>2, TrafficEffect
  <2>2. ASSUME Overlap = "none" PROVE (\A q \in Requests : q # p => pc[q] = "idle") /\ CopyFits(p)'
    <3>1. \A q \in Requests : pc[q] = "idle"
      BY <2>1, <2>2 DEF Begin
    <3>2. Exact(members, owed)
      BY <2>2, <3>1 DEF CopiesHold
    <3> QED BY <2>1, <3>1, <3>2 DEF CopyFits
  <2> QED BY <2>1, <2>2, CopiesAfter
<1>3. CASE Rejected(p)
  <2>1. Rest(p) /\ pc[p] = "save" /\ VersionError(draft[p])
    BY <1>3, SaveEffect DEF Rejected
  <2>2. ASSUME Overlap = "none" PROVE FALSE
    <3>1. draft[p].ver = version
      BY <2>1, <2>2, Lone DEF CopyFits
    <3> QED BY <2>1, <3>1 DEF VersionError
  <2> QED BY <2>1, <2>2, CopiesAfter
<1>4. CASE Ends(p)
  BY <1>4, SaveEffect, WrittenCopies
<1>5. CASE GoesOn(p)
  BY <1>5, SaveEffect, WrittenCopies
<1>6. CASE Post(p)
  BY <1>6, PostCopies
<1>7. CASE Bump(p)
  <2>1. /\ Rest(p) /\ pc'[p] = "idle" /\ pc[p] = "bump" /\ owed' = owed
        /\ IF VersionError(draft[p]) THEN UNCHANGED <<members, version>> ELSE Saved(draft[p])
    BY <1>7, TrafficEffect
  <2>2. ASSUME Overlap = "none" PROVE (\A q \in Requests : q # p => pc[q] = "idle") /\ CopyFits(p)'
    <3>1. (\A q \in Requests : q # p => pc[q] = "idle") /\ CopyFits(p)
      BY <2>1, <2>2, Lone
    <3>2. draft[p].ver = version /\ Exact(Applied(members, draft[p]), owed)
      BY <2>1, <3>1 DEF CopyFits
    <3>3. members' = Applied(members, draft[p])
      BY <2>1, <3>2 DEF VersionError, Saved
    <3>4. Exact(members', owed')
      BY <2>1, <3>2, <3>3
    <3> QED BY <2>1, <3>1, <3>4 DEF CopyFits
  <2> QED BY <2>1, <2>2, CopiesAfter
<1> QED BY <1>1, <1>2, <1>3, <1>4, <1>5, <1>6, <1>7, StepCases, AskedCopies

-----------------------------------------------------------------------------
(* The group as createGroup stores it *)

LEMMA Creation ==
    ASSUME Init
    PROVE  /\ members \in Seq(Entry) /\ OneEntry(members) /\ DOMAIN members = DOMAIN Founders
           /\ \A i \in DOMAIN members :
                 /\ members[i].user = Founders[i] /\ ~members[i].left /\ members[i].unread = 0
                 /\ members[i].role = IF i = 1 THEN "admin" ELSE "member"
           /\ 1 \in DOMAIN Founders
<1> DEFINE doc(i) == MemberDoc(Founders[i], IF i = 1 THEN "admin" ELSE "member", 0)
<1>1. /\ Founders \in Seq(Users) /\ DOMAIN Founders = 1..Len(Founders) /\ Len(Founders) \in Nat
      /\ Len(Founders) > 3 /\ (\A i \in DOMAIN Founders : Founders[i] \in Users)
      /\ 0 \in 0..MaxPosts
  BY GroupsAssumption, LenProperties, ElementOfSeq
<1>2. members = [i \in DOMAIN Founders |-> doc(i)]
  BY DEF Init
<1>3. ASSUME NEW i \in DOMAIN Founders
      PROVE  /\ doc(i) \in Entry /\ doc(i).user = Founders[i] /\ ~doc(i).left /\ doc(i).unread = 0
             /\ doc(i).role = IF i = 1 THEN "admin" ELSE "member"
  BY <1>1 DEF MemberDoc, Entry
<1> HIDE DEF doc
<1>4. members \in Seq(Entry)
  <2>1. members \in [1..Len(Founders) -> Entry]
    BY <1>1, <1>2, <1>3
  <2> QED BY <1>1, <2>1
<1>5. \A i \in DOMAIN members :
         /\ i \in DOMAIN Founders
         /\ members[i].user = Founders[i] /\ ~members[i].left /\ members[i].unread = 0
         /\ members[i].role = IF i = 1 THEN "admin" ELSE "member"
  BY <1>2, <1>3
<1>6. OneEntry(members)
  BY <1>5, GroupsAssumption DEF OneEntry
<1>7. 1 \in DOMAIN Founders
  BY <1>1
<1> QED BY <1>2, <1>4, <1>5, <1>6, <1>7

LEMMA InitOK == ASSUME Init PROVE IInv
<1>1. /\ members \in Seq(Entry) /\ OneEntry(members) /\ DOMAIN members = DOMAIN Founders
      /\ \A i \in DOMAIN members :
            /\ members[i].user = Founders[i] /\ ~members[i].left /\ members[i].unread = 0
            /\ members[i].role = IF i = 1 THEN "admin" ELSE "member"
  BY Creation
<1>2. /\ version = 0 /\ posts = 0 /\ owed = [u \in Users |-> 0] /\ 0 \in 0..MaxPosts
      /\ \A p \in Requests : pc[p] = "idle" /\ op[p] = "none" /\ draft[p] = NoDraft
  BY GroupsAssumption DEF Init
<1>3. TypeOK
  <2>1. Scalars
    BY <1>1, <1>2 DEF Init, Scalars
  <2>2. draft = [p \in Requests |-> draft[p]]
    BY DEF Init
  <2>3. \A p \in Requests : Drafted(draft[p], version, members)
    <3>1. version \in Nat
      BY <1>2
    <3> QED BY <1>2, <3>1, NoDraftFits
  <2> QED BY <2>1, <2>2, <2>3, TypeParts DEF AllDrafted
<1>4. Counted
  <2>1. Owing = {} /\ Pushing = {}
    BY <1>2 DEF Owing, Pushing
  <2>2. Cardinality(Owing) = 0 /\ Cardinality(Pushing) = 0
    BY <2>1, FS_EmptySet
  <2>3. Most = 0
    BY <1>2, <2>2 DEF Most
  <2>4. \A p \in Requests : DraftCounted(draft[p], Most)
    BY <1>2, NoDraftFits DEF DraftCounted
  <2> QED BY <1>1, <1>2, <2>2, <2>3, <2>4, CountedParts
<1>5. Places
  BY <1>2 DEF Places
<1>6. ChangesHold
  BY <1>1, <1>2 DEF ChangesHold, Changing
<1>7. Exact(members, owed)
  <2>1. \A i \in Active(members) : members[i].unread = 0 /\ members[i].user \in Users
    BY <1>1, ElementOfSeq, LenProperties, EntryFields DEF Active
  <2> QED BY <1>2, <2>1 DEF Exact
<1>8. CopiesHold
  BY <1>2, <1>7 DEF CopiesHold
<1> QED BY <1>3, <1>4, <1>5, <1>6, <1>8 DEF IInv

LEMMA NextOK == ASSUME IInv, [Next]_vars PROVE IInv'
<1>1. CASE UNCHANGED vars
  <2>1. /\ members' = members /\ version' = version /\ posts' = posts /\ owed' = owed
        /\ pc' = pc /\ op' = op /\ who' = who /\ target' = target /\ draft' = draft
    BY <1>1 DEF vars, request
  <2>2. TypeOK'
    BY <2>1 DEF IInv, TypeOK
  <2>3. Counted'
    BY <2>1 DEF IInv, Counted, Owing, Pushing
  <2>4. Places'
    BY <2>1 DEF IInv, Places
  <2>5. ChangesHold'
    BY <2>1 DEF IInv, ChangesHold, Changing
  <2>6. CopiesHold'
    BY <2>1 DEF IInv, CopiesHold
  <2> QED BY <2>2, <2>3, <2>4, <2>5, <2>6 DEF IInv
<1>2. CASE Next
  <2>1. PICK p \in Requests : Request(p) \/ Save(p) \/ Post(p) \/ Bump(p)
    BY <1>2 DEF Next
  <2>2. Sound /\ ChangesHold /\ CopiesHold
    BY DEF IInv, Sound
  <2>3. Sound' /\ ChangesHold' /\ CopiesHold'
    BY <2>1, <2>2, SoundStep, ChangesStep, CopiesStep
  <2> QED BY <2>3 DEF IInv, Sound
<1> QED BY <1>1, <1>2

-----------------------------------------------------------------------------
(* The roster *)

LEMMA TableInit == ASSUME Init PROVE Table!Init
<1>1. /\ DOMAIN members = DOMAIN Founders
      /\ \A i \in DOMAIN members :
            /\ members[i].user = Founders[i] /\ ~members[i].left
            /\ members[i].role = IF i = 1 THEN "admin" ELSE "member"
      /\ 1 \in DOMAIN Founders
  BY Creation
<1>2. Active(members) = DOMAIN Founders
  BY <1>1 DEF Active
<1>3. People(members) = {Founders[i] : i \in DOMAIN Founders}
  BY <1>1, <1>2 DEF People
<1>4. Admins(members) = {1}
  BY <1>1, <1>2 DEF Admins
<1>5. AdminPeople(members) = {Founders[1]}
  BY <1>1, <1>4 DEF AdminPeople
<1> QED BY <1>3, <1>5 DEF Table!Init

LEMMA TableChange ==
    ASSUME NEW o \in Membership, o # "hide", NEW u \in Users, NEW x \in Users,
           Change(o, u, x, members, members')
    PROVE  [Table!Next]_(Table!vars)
<1>1. CASE o = "add"
  <2>1. Table!Add(u, x)
    BY <1>1 DEF Change, Table!Add
  <2> QED BY <2>1 DEF Table!Next
<1>2. CASE o = "remove"
  <2>1. Table!Remove(u, x)
    BY <1>2 DEF Change, Table!Remove
  <2> QED BY <2>1 DEF Table!Next
<1>3. CASE o = "role"
  <2>1. /\ u \in AdminPeople(members) /\ x \in People(members) \ {u} /\ People(members') = People(members)
        /\ AdminPeople(members') \in {AdminPeople(members) \cup {x}, AdminPeople(members) \ {x}}
    BY <1>3 DEF Change
  <2>2. CASE AdminPeople(members') = AdminPeople(members) \cup {x}
    <3>1. Table!Promote(u, x)
      BY <2>1, <2>2 DEF Table!Promote
    <3> QED BY <3>1 DEF Table!Next
  <2>3. CASE AdminPeople(members') = AdminPeople(members) \ {x} /\ x \in AdminPeople(members)
    <3>1. Table!Demote(u, x)
      BY <2>1, <2>3 DEF Table!Demote
    <3> QED BY <3>1 DEF Table!Next
  <2>4. CASE AdminPeople(members') = AdminPeople(members) \ {x} /\ x \notin AdminPeople(members)
    <3>1. AdminPeople(members') = AdminPeople(members)
      BY <2>4
    <3> QED BY <2>1, <3>1 DEF Table!vars
  <2> QED BY <2>1, <2>2, <2>3, <2>4
<1>4. CASE o \in {"leave", "close"}
  <2>1. Table!Leave(u)
    BY <1>4 DEF Change, Table!Leave
  <2> QED BY <2>1 DEF Table!Next
<1> QED BY <1>1, <1>2, <1>3, <1>4 DEF Membership

(* A step changes nothing of the membership, or all that one change decided. *)
LEMMA StepChange ==
    ASSUME IInv, NEW p \in Requests, Request(p) \/ Save(p) \/ Post(p) \/ Bump(p)
    PROVE  \/ Alike(members, members')
           \/ /\ op[p] \in Membership /\ pc[p] = "save"
              /\ Overlap # "all" => Change(op[p], who[p], target[p], members, members')
<1>1. Sound /\ ChangesHold /\ TypeOK
  BY DEF IInv, Sound
<1>2. members' = members => Alike(members, members')
  BY SelfAlike
<1>3. ASSUME NEW u \in Users, Send(p, u) PROVE members' = members
  BY <1>1, <1>3, TrafficEffect
<1>4. ASSUME NEW o \in Membership \cup {"read"}, NEW u \in Users, NEW x \in Users,
             NEW new \in Seq(Entry), NEW touch \in BOOLEAN, Asked(p, o, u, x, new, touch)
      PROVE  members' = members
  BY <1>4 DEF Asked, Load
<1>5. Rejected(p) => members' = members
  BY DEF Rejected
<1>6. ASSUME Ends(p) \/ GoesOn(p)
      PROVE  \/ Alike(members, members')
             \/ /\ op[p] \in Membership /\ pc[p] = "save"
                /\ Overlap # "all" => Change(op[p], who[p], target[p], members, members')
  <2>1. Written(p) /\ Rest(p) /\ pc'[p] # "save"
    BY <1>1, <1>6, SaveEffect
  <2>2. pc[p] = "save"
    BY <2>1 DEF Written
  <2> QED BY <1>1, <2>1, <2>2, WrittenChanges
<1>7. Post(p) => members' = members
  BY <1>1, TrafficEffect
<1>8. Bump(p) => Alike(members, members')
  BY <1>1, BumpAlike
<1> QED BY <1>1, <1>2, <1>3, <1>4, <1>5, <1>6, <1>7, <1>8, StepCases

LEMMA TableStep ==
    ASSUME Overlap # "all", Deleters = {}, IInv, [Next]_vars
    PROVE  [Table!Next]_(Table!vars)
<1>1. ASSUME Alike(members, members') PROVE UNCHANGED Table!vars
  BY <1>1, AlikeRows DEF Table!vars
<1>2. CASE UNCHANGED vars
  <2>1. members' = members
    BY <1>2 DEF vars
  <2> QED BY <1>1, <2>1, SelfAlike
<1>3. CASE Next
  <2>1. PICK p \in Requests : Request(p) \/ Save(p) \/ Post(p) \/ Bump(p)
    BY <1>3 DEF Next
  <2>2. CASE Alike(members, members')
    BY <1>1, <2>2
  <2>3. CASE /\ op[p] \in Membership /\ pc[p] = "save"
             /\ Overlap # "all" => Change(op[p], who[p], target[p], members, members')
    <3>1. op[p] # "hide" /\ who[p] \in Users /\ target[p] \in Users
      BY <2>3 DEF IInv, Places
    <3> QED BY <2>3, <3>1, TableChange
  <2> QED BY <2>1, <2>2, <2>3, StepChange
<1> QED BY <1>2, <1>3

-----------------------------------------------------------------------------
(* Theorems *)

(* The strengthening is inductive: every count and every pushed entry is paid *)
(* for by a post, and what a handler that may rely on it decided still holds. *)
THEOREM Inductive == Spec => []IInv
<1>1. Init => IInv
  BY InitOK
<1>2. IInv /\ [Next]_vars => IInv'
  BY NextOK
<1> QED BY <1>1, <1>2, PTL DEF Spec

(* Types, however the handlers overlap: no save writes past the array or more *)
(* than was posted, and __v never runs ahead of what was pushed.              *)
THEOREM TypeCorrect == Spec => []TypeOK
<1>1. IInv => TypeOK
  BY DEF IInv
<1> QED BY <1>1, Inductive, PTL

(* Membership changes that do not overlap keep one entry per user, whatever *)
(* messages and reads do in between.                                        *)
THEOREM OneEntryKept ==
    ASSUME Overlap # "all"
    PROVE  Spec => []OneEntryPerUser
<1>1. IInv => OneEntryPerUser
  BY DEF IInv, ChangesHold, OneEntryPerUser
<1> QED BY <1>1, Inductive, PTL

(* Where nobody may delete the group for themselves, membership changes that *)
(* do not overlap are those of Roster, whatever messages and reads do.       *)
THEOREM Refines ==
    ASSUME Overlap # "all", Deleters = {}
    PROVE  Spec => ImplementsRoster
<1>1. Init => Table!Init
  BY TableInit
<1>2. IInv /\ [Next]_vars => [Table!Next]_(Table!vars)
  BY TableStep
<1> QED BY <1>1, <1>2, Inductive, PTL DEF Spec, ImplementsRoster, Table!Spec

(* A group that somebody is left in has an admin among them. *)
THEOREM AdminStays ==
    ASSUME Overlap # "all", Deleters = {}
    PROVE  Spec => []AdminRemains
<1> DEFINE Run == People(members) # {} => AdminPeople(members) # {}
<1>1. Init => Run
  BY TableInit DEF Table!Init
<1>2. ASSUME Run, [Table!Next]_(Table!vars) PROVE Run'
  BY <1>2 DEF Table!Next, Table!vars, Table!Add, Table!Remove, Table!Promote, Table!Demote, Table!Leave
<1>3. IInv /\ [Next]_vars => [Table!Next]_(Table!vars)
  BY TableStep
<1>4. Run => AdminRemains
  <2>1. Active(members) # {} => People(members) # {}
    BY DEF People
  <2>2. AdminPeople(members) # {} => Admins(members) # {}
    BY DEF AdminPeople
  <2> QED BY <2>1, <2>2 DEF AdminRemains
<1> QED BY <1>1, <1>2, <1>3, <1>4, Inductive, PTL DEF Spec

(* Handlers one at a time, the counts are exact whenever none is at work. *)
THEOREM CountsExact ==
    ASSUME Overlap = "none"
    PROVE  Spec => []UnreadExact
<1>1. IInv => UnreadExact
  BY DEF IInv, CopiesHold, UnreadExact, Quiet
<1> QED BY <1>1, Inductive, PTL

(* Handlers one at a time, whoever comes back is a plain member. *)
THEOREM Rejoins ==
    ASSUME Overlap = "none"
    PROVE  Spec => RejoinIsPlain
<1>1. ASSUME IInv, [Next]_vars PROVE [Plain(members, members')]_vars
  <2>1. Sound /\ CopiesHold /\ TypeOK
    BY <1>1 DEF IInv, Sound
  <2>2. Alike(members, members') => Plain(members, members')
    BY DEF Alike, Plain
  <2>3. ASSUME Next PROVE Plain(members, members')
    <3>1. PICK p \in Requests : Request(p) \/ Save(p) \/ Post(p) \/ Bump(p)
      BY <2>3 DEF Next
    <3>2. CASE Ends(p) \/ GoesOn(p)
      <4>1. Written(p) /\ Rest(p) /\ pc'[p] \in {"idle", "note"}
        BY <2>1, <3>2, SaveEffect
      <4> QED BY <2>1, <4>1, WrittenCopies
    <3>3. CASE Bump(p)
      BY <2>1, <2>2, <3>3, BumpAlike
    <3>4. CASE Rejected(p) \/ Post(p) \/ \E u \in Users : Send(p, u)
      <4>1. members' = members
        BY <3>4 DEF Rejected, Post, Send
      <4> QED BY <2>2, <4>1, SelfAlike
    <3>5. CASE \E o \in Membership \cup {"read"}, u \in Users, x \in Users, new \in Seq(Entry), touch \in BOOLEAN :
                  Asked(p, o, u, x, new, touch)
      <4>1. members' = members
        BY <3>5 DEF Asked, Load
      <4> QED BY <2>2, <4>1, SelfAlike
    <3> QED BY <2>1, <3>1, <3>2, <3>3, <3>4, <3>5, StepCases
  <2> QED BY <1>1, <2>3
<1> QED BY <1>1, Inductive, PTL DEF Spec, RejoinIsPlain
=============================================================================
