--------------------------- MODULE ProfilesProofs ---------------------------
(***************************************************************************)
(* Proofs about Profiles, for any number of accounts, groups, identities,  *)
(* photos and handlers: the place has one owner unless the first sign-ups  *)
(* overlapped, a photo that is shown exists, and a linked provider stays   *)
(* linked unless handlers overlapped.                                      *)
(***************************************************************************)
EXTENDS Profiles, FiniteSetTheorems, TLAPS

Handler ==
    [pc : Steps, who : Bearers \cup {None}, mail : Emails \cup {None}, name : Names \cup {None},
     provider : Providers \cup {None}, id : Identities \cup {None},
     ids : [Providers -> Identities \cup {None}], owner : BOOLEAN, photo : 0..MaxPhotos,
     new : 0..MaxPhotos, alone : BOOLEAN]

Row ==
    [mail : Emails \cup {None}, name : Names, ids : [Providers -> Identities \cup {None}],
     owner : BOOLEAN, banned : BOOLEAN, deleted : BOOLEAN]

(* A row in use keeps its place, so what a handler refers to stays there. *)
Sound == TypeOK /\ \A r \in Requests : Shape(run[r])

LEMMA IdleIsHandler == Idle \in Handler /\ ~OfPhotos(Idle)
<1>1. 0 \in 0..MaxPhotos
  BY ProfilesAssumption
<1> QED BY <1>1 DEF Idle, Handler, Steps, NoIds, OfPhotos

LEMMA InitOK == Init => IInv
<1> SUFFICES ASSUME Init PROVE IInv
  OBVIOUS
<1> USE IdleIsHandler
<1>0. 0 \in 0..MaxPhotos /\ Exists = {}
  BY ProfilesAssumption DEF Init, Exists
<1>1. TypeOK
  BY <1>0, ZenonT(60) DEF Init, TypeOK, Handler
<1>2. \A r \in Requests : Shape(run[r])
  BY DEF Init, Shape, Idle
<1>3. OwnerSound
  BY <1>0 DEF Init, OwnerSound, Creating, At, Idle
<1>4. LinksSound
  BY DEF Init, LinksSound, At, Idle
<1>5. PhotosSound
  BY DEF Init, PhotosSound, At, Idle, OfPhotos
<1>6. ShownPhotoExists
  BY DEF Init, ShownPhotoExists
<1> QED BY <1>1, <1>2, <1>3, <1>4, <1>5, <1>6 DEF IInv

-----------------------------------------------------------------------------
(* Types *)

(* A handler that moves on, while no account goes. *)
LEMMA MovesOn ==
    ASSUME Sound, NEW r \in Requests, NEW new \in Handler, run' = [run EXCEPT ![r] = new],
           Exists \subseteq Exists', Shape(new)'
    PROVE  /\ run' \in [Requests -> Handler]
           /\ \A q \in Requests : Shape(run[q])'
<1>1. run \in [Requests -> Handler] /\ \A q \in Requests : Shape(run[q])
  BY DEF Sound, TypeOK, Handler
<1>2. ASSUME NEW q \in Requests \ {r} PROVE Shape(run[q])'
  <2>1. run'[q] = run[q] /\ Shape(run[q])
    BY <1>1
  <2> QED BY <2>1 DEF Shape, OfPhotos
<1>3. run'[r] = new
  BY <1>1
<1>4. Shape(run[r])'
  BY <1>3
<1> QED BY <1>1, <1>2, <1>4

(* A handler that begins: the others learn that they are not alone. *)
LEMMA Begins ==
    ASSUME Sound, NEW r \in Requests, NEW new \in Handler, Arrive(r, new), Shape(new),
           UNCHANGED users
    PROVE  /\ run' \in [Requests -> Handler]
           /\ \A q \in Requests : Shape(run[q])'
<1>1. run \in [Requests -> Handler] /\ \A q \in Requests : Shape(run[q])
  BY DEF Sound, TypeOK, Handler
<1>2. \A t \in Handler, b \in BOOLEAN :
         /\ [t EXCEPT !.alone = b] \in Handler
         /\ Shape(t) => Shape([t EXCEPT !.alone = b])
  BY DEF Handler, Shape, OfPhotos
<1>3. Shape(Idle)
  BY DEF Shape, Idle, OfPhotos
<1>4. \A q \in Requests : run'[q] \in Handler /\ Shape(run'[q])
  BY <1>1, <1>2, <1>3, IdleIsHandler DEF Arrive
<1>5. DOMAIN run' = Requests
  BY DEF Arrive
<1> QED BY <1>4, <1>5 DEF Arrive, Shape, Exists, OfPhotos

(* A handler that ends. *)
LEMMA Ends ==
    ASSUME Sound, NEW r \in Requests, End(r), Exists \subseteq Exists'
    PROVE  /\ run' \in [Requests -> Handler]
           /\ \A q \in Requests : Shape(run[q])'
<1>1. Shape(Idle)'
  BY DEF Shape, Idle, OfPhotos
<1> QED BY <1>1, IdleIsHandler, MovesOn DEF End, Going

(* A handler that moves on or ends, while the accounts are the same. *)
LEMMA Moved ==
    ASSUME Sound, NEW r \in Requests, Exists' = Exists,
           \/ End(r)
           \/ \E new \in Handler : run' = [run EXCEPT ![r] = new] /\ Shape(new)
    PROVE  /\ run' \in [Requests -> Handler]
           /\ \A q \in Requests : Shape(run[q])'
<1>1. CASE End(r)
  BY <1>1, Ends
<1>2. ASSUME NEW new \in Handler, run' = [run EXCEPT ![r] = new], Shape(new)
      PROVE  /\ run' \in [Requests -> Handler]
             /\ \A q \in Requests : Shape(run[q])'
  <2>1. Shape(new)'
    BY <1>2 DEF Shape, OfPhotos
  <2> QED BY <1>2, <2>1, MovesOn
<1> QED BY <1>1, <1>2

(* The accounts stay as they are. *)
LEMMA SoundAgain ==
    ASSUME Sound, run' \in [Requests -> Handler], \A q \in Requests : Shape(run[q])',
           UNCHANGED users, photo' \in [Bearers -> 0..MaxPhotos], stored' \subseteq 1..MaxPhotos,
           intent' \in [Accounts -> Providers \cup {None}], uploads' \in 0..MaxPhotos, rushed' \in BOOLEAN
    PROVE  Sound'
BY DEF Sound, TypeOK, Exists, Handler

(* Signing up and logging in *)
LEMMA SignUpTyped ==
    ASSUME Sound, NEW r \in Requests,
           uniqueUsername(r) \/ baseAccount(r) \/ create(r)
    PROVE  Sound'
<1>0. run[r] \in Handler /\ Shape(run[r])
  BY DEF Sound, TypeOK, Handler
<1>1. CASE uniqueUsername(r)
  <2>1. Exists' = Exists /\ UNCHANGED users
    BY <1>1 DEF uniqueUsername, Exists
  <2>2. PICK n \in Names : run' = [run EXCEPT ![r] = [run[r] EXCEPT !.pc = "owner", !.name = n]]
    <3>1. Root(run[r].mail) \in Names
      BY <1>0, <1>1, ProfilesAssumption DEF uniqueUsername, At, Shape
    <3> QED BY <1>1, <3>1 DEF uniqueUsername, Going
  <2>3. [run[r] EXCEPT !.pc = "owner", !.name = n] \in Handler
    BY <1>0 DEF Handler, Steps
  <2>4. Shape([run[r] EXCEPT !.pc = "owner", !.name = n])
    BY <1>0 DEF Shape, OfPhotos, Handler
  <2>5. /\ run' \in [Requests -> Handler]
        /\ \A q \in Requests : Shape(run[q])'
    BY <2>1, <2>2, <2>3, <2>4, Moved
  <2> QED BY <1>1, <2>5, SoundAgain DEF uniqueUsername, Sound, TypeOK
<1>2. CASE baseAccount(r)
  <2> DEFINE new == [run[r] EXCEPT !.pc = "insert", !.owner = (Exists = {})]
  <2>1. Exists' = Exists /\ UNCHANGED users
    BY <1>2 DEF baseAccount, Exists
  <2>2. run' = [run EXCEPT ![r] = new]
    BY <1>2 DEF baseAccount, Going
  <2>3. new \in Handler
    BY <1>0, ZenonT(60) DEF Handler, Steps
  <2>4. Shape(new)
    BY <1>0, <1>2 DEF baseAccount, At, Shape, OfPhotos, Handler
  <2> HIDE DEF new
  <2>5. /\ run' \in [Requests -> Handler]
        /\ \A q \in Requests : Shape(run[q])'
    BY <2>1, <2>2, <2>3, <2>4, Moved
  <2> QED BY <1>2, <2>5, SoundAgain DEF baseAccount, Sound, TypeOK
<1>3. CASE create(r)
  <2> DEFINE a == CHOOSE b \in Accounts : b \notin Exists
             m == run[r]
             row == [mail |-> m.mail, name |-> m.name, ids |-> m.ids, owner |-> m.owner,
                     banned |-> FALSE, deleted |-> FALSE]
  <2>1. a \in Accounts /\ a \notin Exists
    BY <1>3 DEF create, Sound, TypeOK
  <2>2. row \in Row
    BY <1>0, <1>3 DEF create, At, Shape, Handler, Row
  <2>3. users' = IF Fits(a, m.mail, m.name, m.ids)
                   THEN [b \in Exists \cup {a} |-> IF b = a THEN row ELSE users[b]]
                   ELSE users
    BY <1>3 DEF create
  <2>4. /\ Exists' \subseteq Accounts /\ Exists \subseteq Exists'
        /\ \A b \in Exists' : users'[b] \in Row
        /\ \A b, c \in Exists' : b # c => users'[b].name # users'[c].name
    <3> HIDE DEF a
    <3>0. Exists \subseteq Accounts /\ \A b \in Exists : users[b] \in Row
      BY DEF Sound, TypeOK, Row
    <3>1. CASE Fits(a, m.mail, m.name, m.ids)
      <4>1. /\ Exists' = Exists \cup {a} /\ users'[a] = row
            /\ \A b \in Exists : users'[b] = users[b]
        BY <2>1, <2>3, <3>1 DEF Exists
      <4>2. \A b \in Exists : users[b].name # row.name
        BY <2>1, <3>1 DEF Fits
      <4> HIDE DEF row
      <4> QED BY <2>1, <2>2, <3>0, <4>1, <4>2 DEF Sound, TypeOK
    <3>2. CASE ~Fits(a, m.mail, m.name, m.ids)
      BY <2>3, <3>0, <3>2 DEF Sound, TypeOK, Exists
    <3> QED BY <3>1, <3>2
  <2>5. /\ run' \in [Requests -> Handler]
        /\ \A q \in Requests : Shape(run[q])'
    BY <1>3, <2>4, Ends DEF create
  <2> QED BY <1>3, <2>4, <2>5 DEF create, Sound, TypeOK, Handler, Row
<1> QED BY <1>1, <1>2, <1>3

LEMMA OAuthTyped ==
    ASSUME Sound, NEW r \in Requests,
           \/ getIntent(r) \/ delIntent(r) \/ linkProvider(r) \/ providerTaken(r)
           \/ findProvider(r) \/ findMail(r)
    PROVE  Sound'
<1>0. run[r] \in Handler /\ Shape(run[r])
  BY DEF Sound, TypeOK, Handler
<1>1. /\ Exists' = Exists /\ UNCHANGED <<users, photo, stored, uploads, rushed>>
      /\ intent' \in [Accounts -> Providers \cup {None}]
  <2>1. CASE delIntent(r)
    BY <2>1 DEF delIntent, Exists, Sound, TypeOK
  <2> QED BY <2>1 DEF getIntent, linkProvider, providerTaken, findProvider, findMail, Exists, Sound, TypeOK
<1>2. \A a \in Exists : users[a] \in Row
  BY DEF Sound, TypeOK, Row
<1>3. \/ End(r)
      \/ \E new \in Handler : run' = [run EXCEPT ![r] = new] /\ Shape(new)
  <2>1. CASE getIntent(r)
    <3>1. [run[r] EXCEPT !.pc = "find", !.who = None] \in Handler /\ Shape([run[r] EXCEPT !.pc = "find", !.who = None])
      BY <1>0, <2>1 DEF getIntent, At, Shape, Handler, Steps, OfPhotos
    <3>2. \A b \in BOOLEAN : [run[r] EXCEPT !.pc = "del", !.owner = b] \in Handler /\ Shape([run[r] EXCEPT !.pc = "del", !.owner = b])
      BY <1>0, <2>1, ZenonT(60) DEF getIntent, At, Shape, Handler, Steps, OfPhotos
    <3>3. (intent[run[r].who] = run[r].provider) \in BOOLEAN
      OBVIOUS
    <3> QED BY <2>1, <3>1, <3>2, <3>3 DEF getIntent, Going
  <2>2. CASE delIntent(r)
    <3>1. [run[r] EXCEPT !.pc = "find", !.who = None] \in Handler /\ Shape([run[r] EXCEPT !.pc = "find", !.who = None])
      BY <1>0, <2>2 DEF delIntent, At, Shape, Handler, Steps, OfPhotos
    <3>2. /\ [run[r] EXCEPT !.pc = "load", !.mail = None, !.owner = FALSE] \in Handler
          /\ Shape([run[r] EXCEPT !.pc = "load", !.mail = None, !.owner = FALSE])
      BY <1>0, <2>2 DEF delIntent, At, Shape, Handler, Steps, OfPhotos
    <3> QED BY <2>2, <3>1, <3>2 DEF delIntent, Going
  <2>3. CASE linkProvider(r)
    <3>1. run[r].who \in Exists /\ users[run[r].who] \in Row
      BY <1>0, <1>2, <2>3 DEF linkProvider, At, Shape
    <3>2. /\ [run[r] EXCEPT !.pc = "taken", !.ids = users[run[r].who].ids] \in Handler
          /\ Shape([run[r] EXCEPT !.pc = "taken", !.ids = users[run[r].who].ids])
      BY <1>0, <2>3, <3>1 DEF linkProvider, At, Shape, Handler, Row, Steps, OfPhotos
    <3> QED BY <2>3, <3>2 DEF linkProvider, Going
  <2>4. CASE providerTaken(r)
    <3>1. [run[r] EXCEPT !.pc = "apply"] \in Handler /\ Shape([run[r] EXCEPT !.pc = "apply"])
      BY <1>0, <2>4 DEF providerTaken, At, Shape, Handler, Steps, OfPhotos
    <3> QED BY <2>4, <3>1 DEF providerTaken, Goto, Going
  <2>5. ASSUME NEW a \in Exists, Found(r, a),
               run[r].provider \in Providers, run[r].id \in Identities
        PROVE  \E new \in Handler : run' = [run EXCEPT ![r] = new] /\ Shape(new)
    <3> DEFINE new == [run[r] EXCEPT !.pc = "apply", !.who = a, !.mail = None, !.ids = users[a].ids]
    <3>1. a \in Bearers /\ users[a].ids \in [Providers -> Identities \cup {None}]
      BY <1>2, <2>5 DEF Bearers, Row, Sound, TypeOK
    <3>2. new \in Handler /\ Shape(new)
      BY <1>0, <2>5, <3>1, ZenonT(60) DEF Shape, Handler, Steps, OfPhotos
    <3> QED BY <2>5, <3>2 DEF Found, Going
  <2>6. CASE findProvider(r)
    <3>1. run[r].provider \in Providers /\ run[r].id \in Identities /\ run[r].mail \in Emails
      BY <1>0, <2>6 DEF findProvider, At, Shape
    <3>2. [run[r] EXCEPT !.pc = "findmail"] \in Handler /\ Shape([run[r] EXCEPT !.pc = "findmail"])
      BY <1>0, <3>1 DEF Shape, Handler, Steps, OfPhotos
    <3> QED BY <2>5, <2>6, <3>1, <3>2 DEF findProvider, findByProvider, Goto, Going
  <2>7. CASE findMail(r)
    <3> DEFINE new == [run[r] EXCEPT !.pc = "name", !.who = None,
                                     !.ids = [NoIds EXCEPT ![run[r].provider] = run[r].id]]
    <3>1. run[r].provider \in Providers /\ run[r].id \in Identities /\ run[r].mail \in Emails
      BY <1>0, <2>7 DEF findMail, At, Shape
    <3>2. [NoIds EXCEPT ![run[r].provider] = run[r].id] \in [Providers -> Identities \cup {None}]
      BY <3>1 DEF NoIds
    <3>3. new \in Handler /\ Shape(new)
      BY <1>0, <3>1, <3>2, ZenonT(60) DEF Shape, Handler, Steps, OfPhotos
    <3> HIDE DEF new
    <3>4. \/ run' = [run EXCEPT ![r] = new]
          \/ End(r)
          \/ \E a \in Exists : Found(r, a)
      BY <2>7 DEF findMail, findByEmail, Going, new
    <3> QED BY <2>5, <3>1, <3>3, <3>4
  <2> QED BY <2>1, <2>2, <2>3, <2>4, <2>6, <2>7
<1>4. /\ run' \in [Requests -> Handler]
      /\ \A q \in Requests : Shape(run[q])'
  BY <1>1, <1>3, Moved
<1> QED BY <1>1, <1>4, SoundAgain DEF Sound, TypeOK

(* What changes the rows of accounts *)
LEMMA RowsTyped ==
    ASSUME Sound, NEW r \in Requests, applyOAuth(r) \/ saveName(r) \/ saveDeleted(r)
    PROVE  Sound'
<1>0. /\ run[r] \in Handler /\ Shape(run[r]) /\ \A a \in Exists : users[a] \in Row
      /\ \A a, b \in Exists : a # b => users[a].name # users[b].name
  BY DEF Sound, TypeOK, Handler, Row
<1>1. /\ Exists' = Exists
      /\ \A a \in Exists : users'[a] \in Row
      /\ \A a, b \in Exists : a # b => users'[a].name # users'[b].name
  <2> DEFINE who == run[r].who
  <2>1. CASE applyOAuth(r)
    <3> DEFINE ids == [run[r].ids EXCEPT ![run[r].provider] = run[r].id]
    <3>1. who \in Exists /\ ids \in [Providers -> Identities \cup {None}]
      BY <1>0, <2>1 DEF applyOAuth, At, Shape, Handler
    <3>2. users' = users \/ users' = [users EXCEPT ![who].ids = ids]
      BY <2>1 DEF applyOAuth
    <3> HIDE DEF ids, who
    <3>3. CASE users' = users
      BY <1>0, <3>3 DEF Exists
    <3>4. CASE users' = [users EXCEPT ![who].ids = ids]
      <4>1. /\ Exists' = Exists
            /\ users'[who] = [users[who] EXCEPT !.ids = ids]
            /\ \A b \in Exists \ {who} : users'[b] = users[b]
        BY <3>1, <3>4 DEF Exists
      <4>2. users'[who] \in Row /\ users'[who].name = users[who].name
        BY <1>0, <3>1, <4>1 DEF Row
      <4> QED BY <1>0, <3>1, <4>1, <4>2, ZenonT(60)
    <3> QED BY <3>2, <3>3, <3>4
  <2>2. CASE saveName(r)
    <3>1. who \in Exists /\ run[r].name \in Names
      BY <1>0, <2>2 DEF saveName, At, Shape
    <3>2. \/ users' = users
          \/ /\ users' = [users EXCEPT ![who].name = run[r].name]
             /\ Fits(who, None, run[r].name, NoIds)
      BY <2>2 DEF saveName
    <3>3. Fits(who, None, run[r].name, NoIds) => \A b \in Exists \ {who} : users[b].name # run[r].name
      BY DEF Fits
    <3> HIDE DEF who
    <3>4. CASE users' = users
      BY <1>0, <3>4 DEF Exists
    <3>5. CASE users' # users
      <4>1. /\ Exists' = Exists
            /\ users'[who] = [users[who] EXCEPT !.name = run[r].name]
            /\ \A b \in Exists \ {who} : users'[b] = users[b]
        BY <3>1, <3>2, <3>5 DEF Exists
      <4>2. users'[who] \in Row /\ users'[who].name = run[r].name
        BY <1>0, <3>1, <4>1 DEF Row
      <4>3. \A b \in Exists \ {who} : users'[b] \in Row /\ users'[b].name # users'[who].name
        BY <1>0, <3>2, <3>3, <3>5, <4>1, <4>2
      <4>4. \A b, c \in Exists \ {who} : b # c => users'[b].name # users'[c].name
        BY <1>0, <4>1
      <4>5. \A b, c \in Exists : b # c => users'[b].name # users'[c].name
        BY <4>3, <4>4
      <4> QED BY <4>1, <4>2, <4>3, <4>5
    <3> QED BY <3>4, <3>5
  <2>3. CASE saveDeleted(r)
    <3>1. who \in Exists
      BY <1>0, <2>3 DEF saveDeleted, At, Shape
    <3>2. /\ Exists' = Exists
          /\ users'[who] = [users[who] EXCEPT !.banned = TRUE, !.deleted = TRUE, !.mail = None]
          /\ \A b \in Exists \ {who} : users'[b] = users[b]
      BY <2>3, <3>1 DEF saveDeleted, Exists
    <3>3. users'[who] \in Row /\ users'[who].name = users[who].name
      BY <1>0, <3>1, <3>2 DEF Row
    <3> HIDE DEF who
    <3> QED BY <1>0, <3>1, <3>2, <3>3, ZenonT(60)
  <2> QED BY <2>1, <2>2, <2>3
<1>2. End(r) /\ UNCHANGED <<photo, stored, intent, uploads, rushed>>
  BY DEF applyOAuth, saveName, saveDeleted
<1>3. /\ run' \in [Requests -> Handler]
      /\ \A q \in Requests : Shape(run[q])'
  BY <1>1, <1>2, Moved
<1> QED BY <1>1, <1>2, <1>3 DEF Sound, TypeOK, Handler, Row

(* Names and photos *)
LEMMA ProfileTyped ==
    ASSUME Sound, NEW r \in Requests,
           \/ taken(r) \/ uploadAvatar(r) \/ savePhoto(r)
           \/ destroyPrevious(r) \/ destroyFirst(r) \/ clearPhoto(r)
    PROVE  Sound'
<1>0. run[r] \in Handler /\ Shape(run[r])
  BY DEF Sound, TypeOK, Handler
<1>1. MaxPhotos \in Nat /\ uploads \in 0..MaxPhotos
  BY ProfilesAssumption DEF Sound, TypeOK
<1>2. Exists' = Exists /\ UNCHANGED <<users, intent, rushed>>
  BY DEF taken, uploadAvatar, savePhoto, destroyPrevious, destroyFirst, clearPhoto, Exists
<1>3. /\ uploads' \in 0..MaxPhotos
      /\ stored' \subseteq 1..MaxPhotos
      /\ photo' \in [Bearers -> 0..MaxPhotos]
  <2>1. CASE uploadAvatar(r)
    BY <1>1, <2>1 DEF uploadAvatar, Sound, TypeOK
  <2>2. CASE savePhoto(r)
    BY <1>0, <2>2 DEF savePhoto, Handler, Sound, TypeOK
  <2>3. CASE clearPhoto(r)
    <3>1. 0 \in 0..MaxPhotos
      BY <1>1
    <3> QED BY <2>3, <3>1 DEF clearPhoto, Sound, TypeOK
  <2>4. CASE taken(r) \/ destroyPrevious(r) \/ destroyFirst(r)
    BY <1>1, <2>4 DEF taken, destroyPrevious, destroyFirst, Sound, TypeOK
  <2> QED BY <2>1, <2>2, <2>3, <2>4
<1>4. \/ End(r)
      \/ \E new \in Handler : run' = [run EXCEPT ![r] = new] /\ Shape(new)
  <2>1. CASE taken(r)
    <3>1. [run[r] EXCEPT !.pc = "rename"] \in Handler /\ Shape([run[r] EXCEPT !.pc = "rename"])
      BY <1>0, <2>1 DEF taken, At, Shape, Handler, Steps, OfPhotos
    <3> QED BY <2>1, <3>1 DEF taken, Goto, Going
  <2>2. CASE uploadAvatar(r)
    <3> DEFINE new == [run[r] EXCEPT !.pc = "save", !.new = uploads + 1]
    <3>1. uploads + 1 \in 0..MaxPhotos
      BY <1>1, <2>2 DEF uploadAvatar
    <3>2. new \in Handler /\ Shape(new)
      BY <1>0, <2>2, <3>1 DEF uploadAvatar, At, Shape, Handler, Steps, OfPhotos
    <3>3. run' = [run EXCEPT ![r] = new]
      BY <2>2 DEF uploadAvatar, Going
    <3> HIDE DEF new
    <3> QED BY <3>2, <3>3
  <2>3. CASE savePhoto(r)
    <3>1. [run[r] EXCEPT !.pc = "destroy"] \in Handler /\ Shape([run[r] EXCEPT !.pc = "destroy"])
      BY <1>0, <2>3 DEF savePhoto, At, Shape, Handler, Steps, OfPhotos
    <3> QED BY <2>3, <3>1 DEF savePhoto, Goto, Going
  <2>4. CASE destroyFirst(r)
    <3>1. [run[r] EXCEPT !.pc = "clear"] \in Handler /\ Shape([run[r] EXCEPT !.pc = "clear"])
      BY <1>0, <2>4 DEF destroyFirst, At, Shape, Handler, Steps, OfPhotos
    <3> QED BY <2>4, <3>1 DEF destroyFirst, Goto, Going
  <2>5. CASE destroyPrevious(r) \/ clearPhoto(r)
    BY <2>5 DEF destroyPrevious, clearPhoto
  <2> QED BY <2>1, <2>2, <2>3, <2>4, <2>5
<1>5. /\ run' \in [Requests -> Handler]
      /\ \A q \in Requests : Shape(run[q])'
  BY <1>2, <1>4, Moved
<1> QED BY <1>2, <1>3, <1>5, SoundAgain DEF Sound, TypeOK

(* What a request asks for: a handler begins, or it is answered at once. *)
Begun(r, new) ==
    /\ Arrive(r, new) /\ Shape(new)
    /\ new.pc \in {"name", "consume", "find", "free?", "upload", "destroyfirst", "removal"}
    /\ new.new = 0
    /\ new.photo = IF OfPhotos(new) THEN photo[new.who] ELSE 0
    /\ UNCHANGED <<users, photo, stored, intent, uploads>>
    /\ rushed' = (rushed \/ /\ new.pc \in {"name", "consume", "find"}
                            /\ Exists = {} /\ \E q \in Requests : Creating(q))

Answered ==
    /\ UNCHANGED <<run, photo, stored, uploads, rushed>>
    /\ Exists' = Exists
    /\ intent' \in [Accounts -> Providers \cup {None}]
    /\ \A a \in Exists :
          /\ users'[a] \in Row
          /\ users'[a].name = users[a].name
          /\ users'[a].ids = users[a].ids
          /\ users'[a].owner = users[a].owner

LEMMA Asks ==
    ASSUME Sound, NEW r \in Requests, Ask(r)
    PROVE  Answered \/ \E new \in Handler : Begun(r, new)
<1> USE IdleIsHandler
<1>0. Exists \subseteq Accounts /\ rushed \in BOOLEAN /\ \A a \in Exists : users[a] \in Row
  BY DEF Sound, TypeOK, Row
<1>1. ASSUME NEW new \in Handler, Shape(new), new.pc \in {"name", "consume", "find"}, SignUp(r, new),
             new.new = 0, new.photo = 0
      PROVE  Begun(r, new)
  BY <1>1 DEF SignUp, Begun, OfPhotos
<1>2. ASSUME NEW new \in Handler, Shape(new), new.pc \in {"free?", "upload", "destroyfirst", "removal"},
             Begin(r, new), new.new = 0, new.photo = IF OfPhotos(new) THEN photo[new.who] ELSE 0
      PROVE  Begun(r, new)
  BY <1>0, <1>2 DEF Begin, Begun
<1>3. ASSUME NEW e \in Emails, register(r, e) PROVE \E new \in Handler : Begun(r, new)
  <2> DEFINE new == [Idle EXCEPT !.pc = "name", !.mail = e]
  <2>1. new \in Handler /\ Shape(new) /\ new.pc = "name" /\ new.new = 0 /\ new.photo = 0
    BY DEF Handler, Shape, Steps, Idle, OfPhotos
  <2>2. SignUp(r, new)
    BY <1>3 DEF register
  <2> HIDE DEF new
  <2> QED BY <1>1, <2>1, <2>2
<1>4. ASSUME NEW p \in Providers, NEW i \in Identities, NEW e \in Emails, NEW a \in Accounts \cup {None},
             upsertOAuthUser(r, p, i, e, a)
      PROVE  \E new \in Handler : Begun(r, new)
  <2> DEFINE known == a # None /\ findActiveById(a)
             new == [Idle EXCEPT !.pc = IF known THEN "consume" ELSE "find", !.who = IF known THEN a ELSE None,
                                 !.provider = p, !.id = i, !.mail = e]
  <2>1. known => a \in Exists /\ a \in Bearers
    BY <1>0 DEF findActiveById, Bearers
  <2>2. SignUp(r, new)
    BY <1>4 DEF upsertOAuthUser
  <2> HIDE DEF known
  <2>3. new \in Handler /\ Shape(new) /\ new.pc \in {"consume", "find"} /\ new.new = 0 /\ new.photo = 0
    BY <2>1, ZenonT(60) DEF Handler, Shape, Steps, Idle, OfPhotos, Bearers
  <2> HIDE DEF new
  <2> QED BY <1>1, <2>2, <2>3
<1>5. ASSUME NEW a \in Accounts, NEW p \in Providers, startOAuthLink(r, a, p) PROVE Answered
  BY <1>0, <1>5 DEF startOAuthLink, Answered, Exists, Sound, TypeOK
<1>6. ASSUME NEW a \in Accounts, NEW n \in Names, updateMe(r, a, n) PROVE \E new \in Handler : Begun(r, new)
  <2> DEFINE new == [Idle EXCEPT !.pc = "free?", !.who = a, !.name = n]
  <2>1. a \in Exists /\ Begin(r, new)
    BY <1>6 DEF updateMe, findActiveById
  <2>2. /\ new \in Handler /\ Shape(new) /\ new.pc = "free?" /\ new.new = 0 /\ new.photo = 0
        /\ ~OfPhotos(new)
    BY <2>1 DEF Handler, Shape, Steps, Idle, OfPhotos, Bearers
  <2> HIDE DEF new
  <2> QED BY <1>2, <2>1, <2>2
<1>7. ASSUME NEW b \in Bearers, updatePhoto(r, b) \/ deletePhoto(r, b)
      PROVE  \E new \in Handler : Begun(r, new)
  <2>0. photo[b] \in 0..MaxPhotos
    BY DEF Sound, TypeOK
  <2>1. PICK pc \in {"upload", "destroyfirst"} : Begin(r, [Idle EXCEPT !.pc = pc, !.who = b, !.photo = photo[b]])
    BY <1>7 DEF updatePhoto, deletePhoto
  <2> DEFINE new == [Idle EXCEPT !.pc = pc, !.who = b, !.photo = photo[b]]
  <2>2. /\ new \in Handler /\ Shape(new) /\ new.pc \in {"upload", "destroyfirst"} /\ new.new = 0
        /\ OfPhotos(new) /\ new.photo = photo[new.who]
    BY <2>0, <2>1 DEF Handler, Shape, Steps, Idle, OfPhotos
  <2>3. Begin(r, new)
    BY <2>1
  <2> HIDE DEF new
  <2> QED BY <1>2, <2>2, <2>3
<1>8. ASSUME NEW a \in Accounts, closeAccount(r, a) PROVE Answered
  <2>1. a \in Exists
    BY <1>8 DEF closeAccount, findActiveById
  <2> QED BY <1>0, <1>8, <2>1, ZenonT(60) DEF closeAccount, Answered, Row, Exists, Sound, TypeOK
<1>9. ASSUME NEW a \in Accounts, NEW b \in BOOLEAN, setBan(r, a, b) PROVE Answered
  BY <1>0, <1>9 DEF setBan, Answered, Row, Exists, Sound, TypeOK
<1>10. ASSUME NEW a \in Accounts, adminDelete(r, a) PROVE \E new \in Handler : Begun(r, new)
  <2> DEFINE new == [Idle EXCEPT !.pc = "removal", !.who = a]
  <2>1. a \in Exists /\ Begin(r, new)
    BY <1>10 DEF adminDelete
  <2>2. /\ new \in Handler /\ Shape(new) /\ new.pc = "removal" /\ new.new = 0 /\ new.photo = 0
        /\ ~OfPhotos(new)
    BY <2>1 DEF Handler, Shape, Steps, Idle, OfPhotos, Bearers
  <2> HIDE DEF new
  <2> QED BY <1>2, <2>1, <2>2
<1> QED BY <1>3, <1>4, <1>5, <1>6, <1>7, <1>8, <1>9, <1>10 DEF Ask

LEMMA AskTyped ==
    ASSUME Sound, NEW r \in Requests, Ask(r)
    PROVE  Sound'
<1>1. CASE Answered
  <2>1. run \in [Requests -> Handler] /\ \A q \in Requests : Shape(run[q])'
    BY <1>1 DEF Answered, Sound, TypeOK, Handler, Shape, OfPhotos
  <2> QED BY <1>1, <2>1 DEF Answered, Sound, TypeOK, Handler, Row
<1>2. ASSUME NEW new \in Handler, Begun(r, new) PROVE Sound'
  BY <1>2, Begins, SoundAgain DEF Begun, Sound, TypeOK
<1> QED BY <1>1, <1>2, Asks

LEMMA Typed ==
    ASSUME Sound, [Next]_vars
    PROVE  Sound'
<1>1. ASSUME NEW r \in Requests, Ask(r) PROVE Sound'
  BY <1>1, AskTyped
<1>2. ASSUME NEW r \in Requests, Step(r) PROVE Sound'
  BY <1>2, SignUpTyped, OAuthTyped, RowsTyped, ProfileTyped DEF Step
<1>3. ASSUME NEW a \in Accounts, LinkExpires(a) PROVE Sound'
  <2>1. Exists' = Exists /\ UNCHANGED run /\ run \in [Requests -> Handler]
    BY <1>3 DEF LinkExpires, Exists, Sound, TypeOK, Handler
  <2>2. \A q \in Requests : Shape(run[q])'
    BY <2>1 DEF Sound, Shape, OfPhotos
  <2> QED BY <1>3, <2>1, <2>2, SoundAgain DEF LinkExpires, Sound, TypeOK
<1>4. CASE UNCHANGED vars
  <2>1. \A q \in Requests : Shape(run[q])'
    BY <1>4 DEF vars, Sound, Shape, OfPhotos, Exists
  <2>2. run \in [Requests -> Handler]
    BY DEF Sound, TypeOK, Handler
  <2> QED BY <1>4, <2>1, <2>2, SoundAgain DEF vars, Sound, TypeOK
<1> QED BY <1>1, <1>2, <1>3, <1>4 DEF Next

-----------------------------------------------------------------------------
(* How far a step of a handler reaches: its own slot, or, when it begins,    *)
(* whether the others are alone.                                             *)
LEMMA OwnSlot ==
    ASSUME Sound, NEW r \in Requests, Step(r)
    PROVE  /\ run[r] # Idle /\ run[r].pc # "idle"
           /\ \A q \in Requests \ {r} : run'[q] = run[q]
           /\ run'[r] = Idle \/ run'[r].alone = run[r].alone
<1>1. run \in [Requests -> Handler] /\ run[r] \in Handler
  BY DEF Sound, TypeOK, Handler
<1>2. run[r].pc # "idle"
  BY DEF Step, At, uniqueUsername, baseAccount, create, getIntent, delIntent, linkProvider, providerTaken,
     findProvider, findMail, applyOAuth, taken, saveName, uploadAvatar, savePhoto, destroyPrevious,
     destroyFirst, clearPhoto, saveDeleted
<1>3. /\ \A q \in Requests \ {r} : run'[q] = run[q]
      /\ run'[r] = Idle \/ run'[r].alone = run[r].alone
  <2> USE <1>1 DEF Goto, Going, End
  <2>1. CASE uniqueUsername(r)
    BY <2>1 DEF uniqueUsername, Handler
  <2>2. CASE baseAccount(r)
    BY <2>2 DEF baseAccount, Handler
  <2>3. CASE create(r) \/ applyOAuth(r) \/ saveName(r) \/ destroyPrevious(r) \/ clearPhoto(r) \/ saveDeleted(r)
    BY <2>3 DEF create, applyOAuth, saveName, destroyPrevious, clearPhoto, saveDeleted
  <2>4. CASE getIntent(r)
    BY <2>4, ZenonT(60) DEF getIntent, Handler
  <2>5. CASE delIntent(r)
    BY <2>5 DEF delIntent, Handler
  <2>6. CASE linkProvider(r)
    BY <2>6 DEF linkProvider, Handler
  <2>7. CASE providerTaken(r)
    BY <2>7 DEF providerTaken, Handler
  <2>8. CASE findProvider(r)
    BY <2>8, ZenonT(60) DEF findProvider, Found, Handler
  <2>9. CASE findMail(r)
    BY <2>9, ZenonT(60) DEF findMail, Found, Handler
  <2>10. CASE taken(r) \/ destroyFirst(r) \/ savePhoto(r)
    BY <2>10 DEF taken, destroyFirst, savePhoto, Handler
  <2>11. CASE uploadAvatar(r)
    BY <2>11 DEF uploadAvatar, Handler
  <2> QED BY <2>1, <2>2, <2>3, <2>4, <2>5, <2>6, <2>7, <2>8, <2>9, <2>10, <2>11 DEF Step
<1> QED BY <1>2, <1>3 DEF Idle

(* A handler of OAuth after a load: on to `taken' or `apply' with what it loaded, *)
(* elsewhere, or done.                                                         *)
LEMMA Loads ==
    ASSUME Sound, NEW r \in Requests, linkProvider(r) \/ findProvider(r) \/ findMail(r)
    PROVE  /\ UNCHANGED users
           /\ \/ run'[r] = Idle
              \/ run'[r].pc \in {"taken", "apply"} /\ run'[r].ids = users[run'[r].who].ids
              \/ run[r].pc = "find" /\ run'[r].pc = "findmail"
              \/ run[r].pc = "findmail" /\ run'[r].pc = "name"
<1>0. run \in [Requests -> Handler] /\ run[r] \in Handler
  BY DEF Sound, TypeOK, Handler
<1>1. ASSUME NEW t, run' = [run EXCEPT ![r] = t] PROVE run'[r] = t
  BY <1>0, <1>1
<1>2. ASSUME NEW a, Found(r, a) PROVE run'[r].pc = "apply" /\ run'[r].ids = users[run'[r].who].ids
  <2>1. run'[r] = [run[r] EXCEPT !.pc = "apply", !.who = a, !.mail = None, !.ids = users[a].ids]
    BY <1>1, <1>2 DEF Found, Going
  <2> QED BY <1>0, <2>1 DEF Handler
<1>3. CASE linkProvider(r)
  <2> DEFINE new == [run[r] EXCEPT !.pc = "taken", !.ids = users[run[r].who].ids]
  <2>1. run'[r] = Idle \/ run'[r] = new
    BY <1>1, <1>3 DEF linkProvider, Going, End
  <2>2. new.pc = "taken" /\ new.who = run[r].who /\ new.ids = users[run[r].who].ids
    BY <1>0 DEF Handler
  <2> QED BY <1>3, <2>1, <2>2 DEF linkProvider
<1>4. CASE findProvider(r)
  <2>1. run[r].pc = "find" /\ users' = users
    BY <1>4 DEF findProvider, At
  <2>2. \/ run'[r] = Idle
        \/ run'[r] = [run[r] EXCEPT !.pc = "findmail"]
        \/ \E a : Found(r, a)
    BY <1>1, <1>4 DEF findProvider, End, Goto, Going
  <2> QED BY <1>0, <1>2, <2>1, <2>2 DEF Handler
<1>5. CASE findMail(r)
  <2> DEFINE new == [run[r] EXCEPT !.pc = "name", !.who = None,
                                   !.ids = [NoIds EXCEPT ![run[r].provider] = run[r].id]]
  <2>1. run[r].pc = "findmail" /\ users' = users
    BY <1>5 DEF findMail, At
  <2>2. \/ run'[r] = Idle
        \/ run'[r] = new
        \/ \E a : Found(r, a)
    BY <1>1, <1>5 DEF findMail, End, Going
  <2>3. new.pc = "name"
    BY <1>0 DEF Handler
  <2> QED BY <1>2, <2>1, <2>2, <2>3
<1> QED BY <1>3, <1>4, <1>5

-----------------------------------------------------------------------------
(* The owner *)

(* A step that neither begins a sign-up nor makes anybody the owner. *)
LEMMA OwnerKept ==
    ASSUME OwnerSound, UNCHANGED rushed, Exists' = Exists,
           \A q \in Requests : Creating(q)' => Creating(q),
           \A q \in Requests : At(q, "insert")' /\ run'[q].owner =>
              \/ At(q, "insert") /\ run[q].owner
              \/ Exists = {},
           \A a \in Exists : users'[a].owner = users[a].owner
    PROVE  OwnerSound'
BY DEF OwnerSound

LEMMA OwnerStep ==
    ASSUME Sound, OwnerSound, [Next]_vars
    PROVE  OwnerSound'
<1>0. /\ run \in [Requests -> Handler] /\ \A q \in Requests : Shape(run[q]) /\ run[q] \in Handler
      /\ rushed \in BOOLEAN
  BY DEF Sound, TypeOK, Handler
<1>1. ASSUME NEW r \in Requests, Ask(r) PROVE OwnerSound'
  <2>1. CASE Answered
    BY <2>1, OwnerKept DEF Answered, Creating, At
  <2>2. ASSUME NEW new \in Handler, Begun(r, new) PROVE OwnerSound'
    <3>1. /\ run[r].pc = "idle"
          /\ \A q \in Requests : run'[q].pc = IF q = r THEN new.pc ELSE run[q].pc
          /\ \A q \in Requests \ {r} : run'[q].owner = run[q].owner
      <4>1. ASSUME NEW q \in Requests \ {r}
            PROVE  run'[q].pc = run[q].pc /\ run'[q].owner = run[q].owner
        <5>1. run[q] \in Handler
          BY <1>0
        <5>2. CASE run[q] = Idle
          BY <2>2, <5>2 DEF Begun, Arrive
        <5>3. CASE run[q] # Idle
          BY <2>2, <5>1, <5>3 DEF Begun, Arrive, Handler
        <5> QED BY <5>2, <5>3
      <4>2. run[r].pc = "idle" /\ run'[r].pc = new.pc
        BY <2>2 DEF Begun, Arrive, At, Handler
      <4> QED BY <4>1, <4>2
    <3>2. Exists' = Exists /\ users' = users /\ run'[r].pc # "insert"
      BY <2>2, <3>1 DEF Begun, Exists
    <3>3. CASE new.pc \notin {"name", "consume", "find"}
      <4>1. UNCHANGED rushed
        BY <1>0, <2>2, <3>3 DEF Begun
      <4>2. new.pc \notin {"findmail", "owner", "insert", "del"}
        BY <2>2 DEF Begun
      <4> QED BY <3>1, <3>2, <3>3, <4>1, <4>2, OwnerKept DEF Creating, At
    <3>4. CASE new.pc \in {"name", "consume", "find"}
      <4>1. ~rushed' => ~rushed /\ (Exists = {} => \A q \in Requests : ~Creating(q))
        BY <1>0, <2>2, <3>4 DEF Begun
      <4>2. \A q \in Requests \ {r} : Creating(q)' => Creating(q)
        BY <3>1 DEF Creating
      <4>3. \A q \in Requests : At(q, "insert")' /\ run'[q].owner => At(q, "insert") /\ run[q].owner
        BY <3>1, <3>2 DEF At
      <4> QED BY <3>2, <4>1, <4>2, <4>3 DEF OwnerSound
    <3> QED BY <3>3, <3>4
  <2> QED BY <1>1, <2>1, <2>2, Asks
<1>2. ASSUME NEW r \in Requests, Step(r) PROVE OwnerSound'
  <2>1. \A q \in Requests \ {r} : run'[q] = run[q]
    BY <1>2, OwnSlot
  <2>2. UNCHANGED rushed
    BY <1>2 DEF Step, uniqueUsername, baseAccount, create, getIntent, delIntent, linkProvider, providerTaken,
       findProvider, findMail, applyOAuth, taken, saveName, uploadAvatar, savePhoto, destroyPrevious,
       destroyFirst, clearPhoto, saveDeleted
  <2>3. CASE create(r)
    <3> DEFINE a == CHOOSE b \in Accounts : b \notin Exists
               m == run[r]
               row == [mail |-> m.mail, name |-> m.name, ids |-> m.ids, owner |-> m.owner,
                       banned |-> FALSE, deleted |-> FALSE]
    <3>1. /\ At(r, "insert") /\ Creating(r) /\ run'[r] = Idle
          /\ users' = IF Fits(a, m.mail, m.name, m.ids)
                        THEN [b \in Exists \cup {a} |-> IF b = a THEN row ELSE users[b]]
                        ELSE users
      BY <1>0, <2>3 DEF create, At, Creating, End, Going
    <3>2. a \notin Exists
      BY <2>3 DEF create, Sound, TypeOK
    <3>3. ~Creating(r)' /\ ~At(r, "insert")'
      BY <3>1 DEF Creating, At, Idle
    <3>4. \A q \in Requests \ {r} : (Creating(q)' <=> Creating(q)) /\ (At(q, "insert")' <=> At(q, "insert"))
      BY <2>1 DEF Creating, At
    <3>5. \A q \in Requests : At(q, "insert") => Creating(q)
      BY DEF At, Creating
    <3> HIDE DEF a
    <3>6. CASE ~Fits(a, m.mail, m.name, m.ids)
      BY <2>1, <2>2, <3>1, <3>3, <3>4, <3>6 DEF OwnerSound, Exists
    <3>7. CASE Fits(a, m.mail, m.name, m.ids)
      <4>1. /\ Exists' = Exists \cup {a} /\ users'[a].owner = run[r].owner
            /\ \A b \in Exists : users'[b] = users[b]
        BY <3>1, <3>2, <3>7 DEF Exists
      <4>2. ASSUME ~rushed, NEW q \in Requests \ {r}, At(q, "insert"), run[q].owner PROVE FALSE
        BY <3>1, <3>5, <4>2 DEF OwnerSound
      <4>3. ASSUME ~rushed, NEW b \in Exists', NEW c \in Exists', users'[b].owner, users'[c].owner PROVE b = c
        BY <3>1, <4>1, <4>3 DEF OwnerSound
      <4> QED BY <2>1, <2>2, <3>3, <3>4, <4>1, <4>2, <4>3 DEF OwnerSound
    <3> QED BY <3>6, <3>7
  <2>4. CASE baseAccount(r)
    <3>1. /\ run[r].pc = "owner" /\ run'[r].pc = "insert"
          /\ run'[r].owner = (Exists = {}) /\ users' = users
      BY <1>0, <2>4 DEF baseAccount, At, Going, Handler
    <3> QED BY <2>1, <2>2, <3>1, OwnerKept DEF Creating, At, Exists
  <2>5. CASE applyOAuth(r) \/ saveName(r) \/ saveDeleted(r)
    <3>1. run'[r] = Idle
      BY <1>0, <2>5 DEF applyOAuth, saveName, saveDeleted, End, Going
    <3>2. ~Creating(r)' /\ ~At(r, "insert")'
      BY <3>1 DEF Creating, At, Idle
    <3>3. \A b \in Exists : users[b] \in Row
      BY DEF Sound, TypeOK, Row
    <3>4. Exists' = Exists /\ \A b \in Exists : users'[b].owner = users[b].owner
      <4>1. run[r].who \in Exists
        BY <1>0, <2>5 DEF applyOAuth, saveName, saveDeleted, At, Shape
      <4>2. CASE applyOAuth(r)
        BY <3>3, <4>1, <4>2 DEF applyOAuth, Exists, Row
      <4>3. CASE saveName(r)
        BY <3>3, <4>1, <4>3 DEF saveName, Exists, Row
      <4>4. CASE saveDeleted(r)
        BY <3>3, <4>1, <4>4 DEF saveDeleted, Exists, Row
      <4> QED BY <2>5, <4>2, <4>3, <4>4
    <3> QED BY <2>1, <2>2, <3>2, <3>4, OwnerKept DEF Creating, At
  <2>6. CASE ~(create(r) \/ baseAccount(r) \/ applyOAuth(r) \/ saveName(r) \/ saveDeleted(r))
    <3>1. /\ users' = users /\ run'[r].pc # "insert"
          /\ Creating(r)' => Creating(r)
      <4>0. run \in [Requests -> Handler] /\ run[r] \in Handler
        BY <1>0
      <4>1. CASE uniqueUsername(r)
        BY <4>0, <4>1 DEF uniqueUsername, At, Going, Creating, Handler
      <4>2. CASE getIntent(r)
        <5>1. \/ run'[r] = [run[r] EXCEPT !.pc = "find", !.who = None]
              \/ run'[r] = [run[r] EXCEPT !.pc = "del", !.owner = (intent[run[r].who] = run[r].provider)]
          BY <4>0, <4>2 DEF getIntent, Going
        <5>2. run'[r].pc \in {"find", "del"}
          BY <4>0, <5>1 DEF Handler
        <5> QED BY <4>2, <5>2 DEF getIntent, At, Creating
      <4>3. CASE delIntent(r)
        BY <4>0, <4>3 DEF delIntent, At, Going, Creating, Handler
      <4>4. CASE linkProvider(r) \/ findProvider(r) \/ findMail(r)
        BY <4>4, Loads DEF Creating, Idle
      <4>5. CASE providerTaken(r)
        BY <4>0, <4>5 DEF providerTaken, Going, Goto, End, Creating, Handler, Idle
      <4>8. CASE taken(r)
        BY <4>0, <4>8 DEF taken, Going, Goto, End, Creating, Handler, Idle
      <4>9. CASE uploadAvatar(r)
        BY <4>0, <4>9 DEF uploadAvatar, Going, Creating, Handler
      <4>10. CASE savePhoto(r) \/ destroyFirst(r)
        BY <4>0, <4>10 DEF savePhoto, destroyFirst, Going, Goto, End, Creating, Handler, Idle
      <4>11. CASE destroyPrevious(r) \/ clearPhoto(r)
        BY <4>0, <4>11 DEF destroyPrevious, clearPhoto, Going, End, Creating, Idle
      <4> QED BY <1>2, <2>6, <4>1, <4>2, <4>3, <4>4, <4>5, <4>8, <4>9, <4>10, <4>11 DEF Step
    <3> QED BY <2>1, <2>2, <3>1, OwnerKept DEF Creating, At, Exists
  <2> QED BY <2>3, <2>4, <2>5, <2>6
<1>3. CASE UNCHANGED vars \/ \E a \in Accounts : LinkExpires(a)
  <2>1. UNCHANGED <<users, run, rushed>>
    BY <1>3 DEF vars, LinkExpires
  <2> QED BY <2>1, OwnerKept DEF Creating, At, Exists
<1> QED BY <1>1, <1>2, <1>3 DEF Next

-----------------------------------------------------------------------------
(* Linked providers *)

LEMMA LinksStep ==
    ASSUME Sound, LinksSound, [Next]_vars
    PROVE  LinksSound'
<1>0. /\ run \in [Requests -> Handler] /\ \A q \in Requests : Shape(run[q]) /\ run[q] \in Handler
      /\ \A a \in Exists : users[a] \in Row
  BY DEF Sound, TypeOK, Handler, Row
<1>1. ASSUME NEW r \in Requests, Ask(r) PROVE LinksSound'
  <2>1. CASE Answered
    <3>1. \A q \in Requests : run[q].pc \in {"taken", "apply"} => run[q].who \in Exists
      BY <1>0 DEF Shape
    <3> QED BY <2>1, <3>1 DEF Answered, LinksSound, At
  <2>2. ASSUME NEW new \in Handler, Begun(r, new) PROVE LinksSound'
    <3> DEFINE others == {q \in Requests : run[q] # Idle}
    <3>1. /\ run[r].pc = "idle" /\ run'[r].pc = new.pc /\ run'[r].alone = (others = {})
          /\ \A q \in Requests \ {r} : IF q \in others THEN run'[q].alone = FALSE ELSE run'[q] = Idle
      BY <1>0, <2>2 DEF Begun, Arrive, At, Handler
    <3>2. new.pc \notin {"taken", "apply"}
      BY <2>2 DEF Begun
    <3>3. \A q \in Requests \ {r} : At(q, "idle")' \/ ~run'[q].alone
      BY <3>1 DEF At, Idle
    <3>4. run'[r].alone => \A q \in Requests \ {r} : run'[q] = Idle
      BY <3>1
    <3> QED BY <3>1, <3>2, <3>3, <3>4 DEF LinksSound
  <2> QED BY <1>1, <2>1, <2>2, Asks
<1>2. ASSUME NEW r \in Requests, Step(r) PROVE LinksSound'
  <2>1. /\ run[r] # Idle /\ run[r].pc # "idle"
        /\ \A q \in Requests \ {r} : run'[q] = run[q]
        /\ run'[r] = Idle \/ run'[r].alone = run[r].alone
    BY <1>2, OwnSlot
  <2>2. \A q \in Requests \ {r} : At(q, "idle") \/ ~run[q].alone
    BY <2>1 DEF LinksSound
  <2>3. \A q \in Requests \ {r} : At(q, "idle")' \/ ~run'[q].alone
    BY <2>1, <2>2 DEF At
  <2>4. ASSUME run'[r].pc \in {"taken", "apply"}
        PROVE  run'[r].alone => run'[r].ids = users'[run'[r].who].ids
    <3>0. run \in [Requests -> Handler] /\ run[r] \in Handler
      BY <1>0
    <3>1. CASE linkProvider(r) \/ findProvider(r) \/ findMail(r)
      BY <2>4, <3>1, Loads DEF Idle
    <3>2. CASE providerTaken(r)
      <4>1. run'[r] = [run[r] EXCEPT !.pc = "apply"] /\ users' = users
        BY <2>4, <3>0, <3>2 DEF providerTaken, Goto, Going, End, Idle
      <4>2. run[r].alone => run[r].ids = users[run[r].who].ids
        BY <2>1, <3>2 DEF providerTaken, At, LinksSound
      <4>3. run'[r].alone = run[r].alone /\ run'[r].ids = run[r].ids /\ run'[r].who = run[r].who
        BY <3>0, <4>1 DEF Handler
      <4> QED BY <4>1, <4>2, <4>3
    <3>5. CASE uniqueUsername(r)
      BY <2>4, <3>0, <3>5 DEF uniqueUsername, Going, Handler
    <3>6. CASE baseAccount(r)
      BY <2>4, <3>0, <3>6 DEF baseAccount, Going, Handler
    <3>7. CASE getIntent(r)
      <4>1. \/ run'[r] = [run[r] EXCEPT !.pc = "find", !.who = None]
            \/ run'[r] = [run[r] EXCEPT !.pc = "del", !.owner = (intent[run[r].who] = run[r].provider)]
        BY <3>0, <3>7 DEF getIntent, Going
      <4> QED BY <2>4, <3>0, <4>1 DEF Handler
    <3>8. CASE delIntent(r)
      BY <2>4, <3>0, <3>8 DEF delIntent, Going, Handler
    <3>9. CASE create(r) \/ applyOAuth(r) \/ saveName(r) \/ saveDeleted(r) \/ destroyPrevious(r) \/ clearPhoto(r)
      BY <2>4, <3>0, <3>9 DEF create, applyOAuth, saveName, saveDeleted, destroyPrevious, clearPhoto, End, Going, Idle
    <3>10. CASE taken(r)
      BY <2>4, <3>0, <3>10 DEF taken, Goto, Going, End, Handler, Idle
    <3>11. CASE uploadAvatar(r)
      BY <2>4, <3>0, <3>11 DEF uploadAvatar, Going, Handler
    <3>12. CASE savePhoto(r) \/ destroyFirst(r)
      BY <2>4, <3>0, <3>12 DEF savePhoto, destroyFirst, Goto, Going, End, Handler, Idle
    <3> QED BY <1>2, <3>1, <3>2, <3>5, <3>6, <3>7, <3>8, <3>9, <3>10, <3>11, <3>12 DEF Step
  <2>5. ASSUME run'[r].pc # "idle", run'[r].alone
        PROVE  \A q \in Requests \ {r} : run'[q] = Idle
    <3>1. run'[r] # Idle
      BY <2>5 DEF Idle
    <3>2. run[r].alone /\ ~At(r, "idle")
      BY <2>1, <2>5, <3>1 DEF At
    <3> QED BY <2>1, <3>2 DEF LinksSound
  <2> QED BY <2>3, <2>4, <2>5 DEF LinksSound, At
<1>3. CASE UNCHANGED vars \/ \E a \in Accounts : LinkExpires(a)
  <2>1. UNCHANGED <<users, run>>
    BY <1>3 DEF vars, LinkExpires
  <2> QED BY <2>1 DEF LinksSound, At
<1> QED BY <1>1, <1>2, <1>3 DEF Next

(* Only applyOAuth changes what is linked, and it sets what it loaded. *)
LEMMA LinkedStays ==
    ASSUME Sound, LinksSound, Next, NEW a \in Exists, NEW p \in Providers, users[a].ids[p] # None
    PROVE  \/ users'[a].ids[p] # None
           \/ \E r \in Requests : At(r, "apply") /\ run[r].who = a /\ ~run[r].alone
<1>0. \A r \in Requests : Shape(run[r]) /\ run[r] \in Handler
  BY DEF Sound, TypeOK, Handler
<1>1. \A b \in Exists : users[b] \in Row
  BY DEF Sound, TypeOK, Row
<1>2. ASSUME NEW r \in Requests, Ask(r) PROVE users'[a].ids = users[a].ids
  <2>1. CASE Answered
    BY <2>1 DEF Answered
  <2>2. CASE \E new \in Handler : Begun(r, new)
    BY <2>2 DEF Begun
  <2> QED BY <1>2, <2>1, <2>2, Asks
<1>3. ASSUME NEW r \in Requests, applyOAuth(r), run[r].who = a
      PROVE  users'[a].ids[p] # None \/ ~run[r].alone
  <2> DEFINE ids == [run[r].ids EXCEPT ![run[r].provider] = run[r].id]
  <2>1. run[r].id \in Identities /\ run[r].id # None /\ run[r].ids \in [Providers -> Identities \cup {None}]
    BY <1>0, <1>3, ProfilesAssumption DEF applyOAuth, At, Shape, Handler
  <2>2. run[r].alone => run[r].ids = users[a].ids
    BY <1>3 DEF applyOAuth, At, LinksSound
  <2>3. run[r].alone => ids[p] # None
    BY <2>1, <2>2
  <2>4. users' = users \/ users' = [users EXCEPT ![a].ids = ids]
    BY <1>3 DEF applyOAuth
  <2> HIDE DEF ids
  <2>5. users'[a].ids = users[a].ids \/ users'[a].ids = ids
    BY <1>1, <2>4 DEF Row, Exists
  <2> QED BY <2>3, <2>5
<1>4. ASSUME NEW r \in Requests, Step(r), ~(applyOAuth(r) /\ run[r].who = a) PROVE users'[a].ids = users[a].ids
  <2>0. run[r].who \in Exists \/ ~(applyOAuth(r) \/ saveName(r) \/ saveDeleted(r))
    BY <1>0 DEF applyOAuth, saveName, saveDeleted, At, Shape
  <2>1. CASE create(r)
    <3> DEFINE new == CHOOSE b \in Accounts : b \notin Exists
               m == run[r]
               row == [mail |-> m.mail, name |-> m.name, ids |-> m.ids, owner |-> m.owner,
                       banned |-> FALSE, deleted |-> FALSE]
    <3>1. users' = users \/ users' = [b \in Exists \cup {new} |-> IF b = new THEN row ELSE users[b]]
      BY <2>1 DEF create
    <3>2. new \notin Exists
      BY <2>1 DEF create, Sound, TypeOK
    <3> QED BY <3>1, <3>2
  <2>2. CASE applyOAuth(r)
    BY <1>4, <2>0, <2>2 DEF applyOAuth, Exists
  <2>3. CASE saveName(r)
    BY <1>1, <2>0, <2>3 DEF saveName, Exists, Row
  <2>4. CASE saveDeleted(r)
    BY <1>1, <2>0, <2>4 DEF saveDeleted, Exists, Row
  <2>5. CASE ~(create(r) \/ applyOAuth(r) \/ saveName(r) \/ saveDeleted(r))
    BY <1>4, <2>5 DEF Step, uniqueUsername, baseAccount, getIntent, delIntent, linkProvider, providerTaken,
       findProvider, findMail, taken, uploadAvatar, savePhoto, destroyPrevious, destroyFirst, clearPhoto
  <2> QED BY <2>1, <2>2, <2>3, <2>4, <2>5
<1>5. ASSUME NEW b \in Accounts, LinkExpires(b) PROVE users'[a].ids = users[a].ids
  BY <1>5 DEF LinkExpires
<1>6. ASSUME NEW r \in Requests, applyOAuth(r), run[r].who = a
      PROVE  users'[a].ids[p] # None \/ (At(r, "apply") /\ run[r].who = a /\ ~run[r].alone)
  BY <1>3, <1>6 DEF applyOAuth
<1> QED BY <1>2, <1>4, <1>5, <1>6 DEF Next

-----------------------------------------------------------------------------
(* Photos *)

(* Handlers that keep away from photos carry none of their own. *)
LEMMA PhotosKept ==
    ASSUME Sound, PhotosSound, ShownPhotoExists, UNCHANGED <<photo, stored, uploads>>,
           \A q \in Requests :
              \/ run'[q] = run[q]
              \/ /\ ~OfPhotos(run'[q]) /\ ~At(q, "clear")
                 /\ run'[q].photo \in {0, run[q].photo} /\ run'[q].new \in {0, run[q].new}
              \/ /\ run'[q].photo = run[q].photo /\ run'[q].new = run[q].new
                 /\ run'[q].pc = run[q].pc /\ run'[q].who = run[q].who
    PROVE  PhotosSound' /\ ShownPhotoExists'
<1>0. uploads \in Nat /\ MaxPhotos \in Nat
  BY ProfilesAssumption DEF Sound, TypeOK
<1>1. ASSUME NEW q \in Requests
      PROVE  /\ run'[q].photo \in {0, run[q].photo} /\ run'[q].new \in {0, run[q].new}
             /\ OfPhotos(run'[q]) => /\ run'[q].photo = run[q].photo /\ run'[q].new = run[q].new
                                     /\ run'[q].pc = run[q].pc /\ run'[q].who = run[q].who
             /\ At(q, "clear") => run'[q].pc = "clear" /\ run'[q].who = run[q].who
  BY DEF At
<1>2. ASSUME NEW q \in Requests, At(q, "save") \/ At(q, "destroy") PROVE OfPhotos(run[q])
  BY <1>2 DEF At, OfPhotos
<1>3. ASSUME NEW q \in Requests, run'[q].pc \in {"save", "destroy"}
      PROVE  run'[q].photo = run[q].photo /\ run'[q].new = run[q].new /\ run'[q].pc = run[q].pc
  BY <1>1, <1>3 DEF OfPhotos
<1>4. ShownPhotoExists'
  BY <1>1 DEF ShownPhotoExists, At
<1>5. ASSUME NEW r \in Requests
      PROVE  /\ run'[r].photo \in 0..uploads /\ run'[r].new \in 0..uploads
             /\ run'[r].pc = "save" =>
                   /\ run'[r].new \in stored
                   /\ \A b \in Bearers : photo[b] # run'[r].new
                   /\ \A q \in Requests :
                         /\ run'[q].photo # run'[r].new
                         /\ run'[q].pc = "save" /\ run'[q].new = run'[r].new => q = r
             /\ OfPhotos(run'[r]) /\ run'[r].photo # 0 =>
                   \A b \in Bearers \ {run'[r].who} : photo[b] # run'[r].photo
             /\ run'[r].pc = "destroy" => run'[r].photo # 0 /\ \A b \in Bearers : photo[b] # run'[r].photo
  <2>1. run'[r].photo \in 0..uploads /\ run'[r].new \in 0..uploads
    BY <1>0, <1>1 DEF PhotosSound
  <2>2. ASSUME run'[r].pc = "save"
        PROVE  /\ run'[r].new \in stored
               /\ \A b \in Bearers : photo[b] # run'[r].new
               /\ \A q \in Requests :
                     /\ run'[q].photo # run'[r].new
                     /\ run'[q].pc = "save" /\ run'[q].new = run'[r].new => q = r
    <3>1. run'[r].new = run[r].new /\ At(r, "save")
      BY <1>3, <2>2 DEF At
    <3>2. run[r].new \in stored /\ run[r].new # 0
      BY <1>0, <3>1 DEF PhotosSound
    <3> QED BY <1>1, <1>3, <3>1, <3>2 DEF PhotosSound, At
  <2>3. OfPhotos(run'[r]) /\ run'[r].photo # 0 =>
           \A b \in Bearers \ {run'[r].who} : photo[b] # run'[r].photo
    BY <1>1 DEF PhotosSound, OfPhotos
  <2>4. run'[r].pc = "destroy" => run'[r].photo # 0 /\ \A b \in Bearers : photo[b] # run'[r].photo
    BY <1>3 DEF PhotosSound, At
  <2> QED BY <2>1, <2>2, <2>3, <2>4
<1> QED BY <1>4, <1>5 DEF PhotosSound, At, OfPhotos

(* A handler that begins has at most loaded what its bearer shows. *)
LEMMA PhotosBegun ==
    ASSUME Sound, PhotosSound, ShownPhotoExists, NEW r \in Requests, NEW new \in Handler, Begun(r, new)
    PROVE  PhotosSound' /\ ShownPhotoExists'
<1>0. run \in [Requests -> Handler] /\ uploads \in Nat
  BY DEF Sound, TypeOK, Handler
<1>1. ASSUME NEW q \in Requests \ {r}
      PROVE  /\ run'[q].pc = run[q].pc /\ run'[q].who = run[q].who
             /\ run'[q].photo = run[q].photo /\ run'[q].new = run[q].new
  <2>1. run[q] \in Handler
    BY <1>0
  <2>2. CASE run[q] = Idle
    BY <2>2 DEF Begun, Arrive
  <2>3. CASE run[q] # Idle
    BY <2>1, <2>3 DEF Begun, Arrive, Handler
  <2> QED BY <2>2, <2>3
<1>2. /\ run[r].pc = "idle"
      /\ run'[r].pc = new.pc /\ run'[r].who = new.who /\ run'[r].photo = new.photo /\ run'[r].new = 0
  BY DEF Begun, Arrive, At, Handler
<1>3. /\ new.pc \notin {"save", "destroy", "clear"} /\ UNCHANGED <<photo, stored, uploads>>
      /\ new.photo = IF OfPhotos(new) THEN photo[new.who] ELSE 0
      /\ OfPhotos(new) => new.who \in Bearers
  BY DEF Begun, Shape
<1>4. ShownPhotoExists'
  BY <1>1, <1>2, <1>3 DEF ShownPhotoExists, At
<1>5. new.photo \in 0..uploads
  BY <1>0, <1>3 DEF PhotosSound
<1>6. ASSUME NEW s \in Requests, run'[s].pc = "save"
      PROVE  /\ s # r /\ At(s, "save") /\ run'[s].new = run[s].new
             /\ run[s].new # 0 /\ new.photo # run[s].new
  <2>1. s # r /\ At(s, "save") /\ run'[s].new = run[s].new
    BY <1>1, <1>2, <1>3, <1>6 DEF At
  <2>2. run[s].new # 0
    BY <1>0, <2>1 DEF PhotosSound
  <2> QED BY <1>3, <2>1, <2>2 DEF PhotosSound
<1>7. ASSUME NEW s \in Requests
      PROVE  /\ run'[s].photo \in 0..uploads /\ run'[s].new \in 0..uploads
             /\ run'[s].pc = "save" =>
                   /\ run'[s].new \in stored
                   /\ \A b \in Bearers : photo[b] # run'[s].new
                   /\ \A q \in Requests :
                         /\ run'[q].photo # run'[s].new
                         /\ run'[q].pc = "save" /\ run'[q].new = run'[s].new => q = s
             /\ run'[s].pc \in {"upload", "save", "destroy", "destroyfirst", "clear"} /\ run'[s].photo # 0 =>
                   \A b \in Bearers \ {run'[s].who} : photo[b] # run'[s].photo
             /\ run'[s].pc = "destroy" => run'[s].photo # 0 /\ \A b \in Bearers : photo[b] # run'[s].photo
  <2>1. run'[s].photo \in 0..uploads /\ run'[s].new \in 0..uploads
    BY <1>0, <1>1, <1>2, <1>5 DEF PhotosSound
  <2>2. run'[s].pc = "save" =>
           /\ run'[s].new \in stored
           /\ \A b \in Bearers : photo[b] # run'[s].new
           /\ \A q \in Requests :
                 /\ run'[q].photo # run'[s].new
                 /\ run'[q].pc = "save" /\ run'[q].new = run'[s].new => q = s
    BY <1>1, <1>2, <1>6 DEF PhotosSound, At
  <2>3. run'[s].pc \in {"upload", "save", "destroy", "destroyfirst", "clear"} /\ run'[s].photo # 0 =>
           \A b \in Bearers \ {run'[s].who} : photo[b] # run'[s].photo
    <3>1. CASE s = r
      BY <1>2, <1>3, <3>1 DEF PhotosSound, OfPhotos
    <3>2. CASE s # r
      BY <1>1, <3>2 DEF PhotosSound, OfPhotos
    <3> QED BY <3>1, <3>2
  <2>4. run'[s].pc = "destroy" => run'[s].photo # 0 /\ \A b \in Bearers : photo[b] # run'[s].photo
    BY <1>1, <1>2, <1>3 DEF PhotosSound, At
  <2> QED BY <2>1, <2>2, <2>3, <2>4
<1> QED BY <1>3, <1>4, <1>7 DEF PhotosSound, At, OfPhotos

(* What a handler of a photo leaves in its own slot. *)
LEMMA PhotoSlot ==
    ASSUME Sound, NEW r \in Requests
    PROVE  /\ uploadAvatar(r) =>
                 /\ run'[r].pc = "save" /\ run'[r].new = uploads + 1
                 /\ run'[r].who = run[r].who /\ run'[r].photo = run[r].photo
           /\ savePhoto(r) =>
                 \/ run'[r] = Idle
                 \/ /\ run'[r].pc = "destroy" /\ run'[r].new = run[r].new /\ run[r].photo # 0
                    /\ run'[r].who = run[r].who /\ run'[r].photo = run[r].photo
           /\ destroyFirst(r) =>
                 /\ run'[r].pc = "clear" /\ run'[r].new = run[r].new
                 /\ run'[r].who = run[r].who /\ run'[r].photo = run[r].photo
           /\ destroyPrevious(r) \/ clearPhoto(r) => run'[r] = Idle
<1>0. run \in [Requests -> Handler] /\ run[r] \in Handler
  BY DEF Sound, TypeOK, Handler
<1>1. CASE uploadAvatar(r)
  BY <1>0, <1>1 DEF uploadAvatar, savePhoto, destroyFirst, destroyPrevious, clearPhoto, At, Going, Handler
<1>2. CASE savePhoto(r)
  BY <1>0, <1>2 DEF uploadAvatar, savePhoto, destroyFirst, destroyPrevious, clearPhoto, At, Going, Goto, End, Handler
<1>3. CASE destroyFirst(r)
  BY <1>0, <1>3 DEF uploadAvatar, savePhoto, destroyFirst, destroyPrevious, clearPhoto, At, Going, Goto, Handler
<1>4. CASE destroyPrevious(r) \/ clearPhoto(r)
  BY <1>0, <1>4 DEF uploadAvatar, savePhoto, destroyFirst, destroyPrevious, clearPhoto, At, Going, End
<1> QED BY <1>1, <1>2, <1>3, <1>4

(* An upload is nobody's yet. *)
LEMMA Uploaded ==
    ASSUME Sound, PhotosSound, ShownPhotoExists, NEW r \in Requests, uploadAvatar(r)
    PROVE  PhotosSound' /\ ShownPhotoExists'
<1>0. uploads \in Nat /\ uploads' = uploads + 1 /\ photo' = photo /\ stored' = stored \cup {uploads + 1}
  BY DEF uploadAvatar, Sound, TypeOK
<1>1. \A q \in Requests \ {r} : run'[q] = run[q]
  BY OwnSlot DEF Step
<1>2. /\ run[r].pc = "upload" /\ run'[r].pc = "save" /\ run'[r].new = uploads + 1
      /\ run'[r].who = run[r].who /\ run'[r].photo = run[r].photo
  BY PhotoSlot DEF uploadAvatar, At
<1>3. ShownPhotoExists'
  BY <1>0, <1>1, <1>2 DEF ShownPhotoExists, At
<1>4. stored' \subseteq 1..uploads' /\ \A b \in Bearers : photo'[b] \in 0..uploads'
  BY <1>0 DEF PhotosSound
<1>5. ASSUME NEW s \in Requests
      PROVE  /\ run'[s].photo \in 0..uploads' /\ run'[s].new \in 0..uploads'
             /\ run'[s].photo \in 0..uploads
             /\ s # r => run'[s].new \in 0..uploads
  BY <1>0, <1>1, <1>2 DEF PhotosSound
<1>6. ASSUME NEW s \in Requests, run'[s].pc = "save"
      PROVE  /\ run'[s].new \in stored'
             /\ \A b \in Bearers : photo'[b] # run'[s].new
             /\ \A q \in Requests :
                   /\ run'[q].photo # run'[s].new
                   /\ run'[q].pc = "save" /\ run'[q].new = run'[s].new => q = s
  <2>1. CASE s = r
    <3>1. \A b \in Bearers : photo'[b] # uploads + 1
      BY <1>0 DEF PhotosSound
    <3>2. \A q \in Requests : run'[q].photo # uploads + 1 /\ (q # r => run'[q].new # uploads + 1)
      BY <1>0, <1>5
    <3> QED BY <1>0, <1>2, <2>1, <3>1, <3>2
  <2>2. CASE s # r
    <3>1. run'[s] = run[s] /\ At(s, "save") /\ run[s].new \in 0..uploads
      BY <1>1, <1>6, <2>2 DEF At, PhotosSound
    <3>2. run[s].new # uploads + 1
      BY <1>0, <3>1
    <3> QED BY <1>0, <1>1, <1>2, <2>2, <3>1, <3>2 DEF PhotosSound, At
  <2> QED BY <2>1, <2>2
<1>7. ASSUME NEW s \in Requests
      PROVE  /\ OfPhotos(run'[s]) /\ run'[s].photo # 0 =>
                   \A b \in Bearers \ {run'[s].who} : photo'[b] # run'[s].photo
             /\ run'[s].pc = "destroy" => run'[s].photo # 0 /\ \A b \in Bearers : photo'[b] # run'[s].photo
  BY <1>0, <1>1, <1>2 DEF PhotosSound, At, OfPhotos
<1>8. \A b, c \in Bearers : photo'[b] = photo'[c] /\ photo'[b] # 0 => b = c
  BY <1>0 DEF PhotosSound
<1> QED BY <1>3, <1>4, <1>5, <1>6, <1>7, <1>8 DEF PhotosSound, At, OfPhotos

(* What is shown now was shown by nobody and loaded by nobody. *)
LEMMA Saved ==
    ASSUME Sound, PhotosSound, ShownPhotoExists, NEW r \in Requests, savePhoto(r)
    PROVE  PhotosSound' /\ ShownPhotoExists'
<1> DEFINE new == run[r].new
           who == run[r].who
<1>0. /\ uploads \in Nat /\ who \in Bearers /\ UNCHANGED <<stored, uploads>>
      /\ photo \in [Bearers -> 0..MaxPhotos]
      /\ photo' = [photo EXCEPT ![who] = new]
      /\ run[r].pc = "save" /\ OfPhotos(run[r])
  BY DEF savePhoto, Sound, TypeOK, Shape, OfPhotos, At
<1>1. \A q \in Requests \ {r} : run'[q] = run[q]
  BY OwnSlot DEF Step
<1>2. \/ run'[r].pc = "idle" /\ run'[r].photo = 0 /\ run'[r].new = 0
      \/ /\ run'[r].pc = "destroy" /\ run'[r].new = run[r].new /\ run[r].photo # 0
         /\ run'[r].who = run[r].who /\ run'[r].photo = run[r].photo
  BY PhotoSlot DEF Idle
<1>3. /\ new \in stored /\ new # 0 /\ new \in 0..uploads
      /\ \A b \in Bearers : photo[b] # new
      /\ \A q \in Requests : run[q].photo # new /\ (run[q].pc = "save" /\ run[q].new = new => q = r)
  BY <1>0 DEF PhotosSound, At
<1>4. photo'[who] = new /\ \A b \in Bearers \ {who} : photo'[b] = photo[b]
  BY <1>0
<1> HIDE DEF new, who
<1>5. ShownPhotoExists'
  BY <1>0, <1>1, <1>3, <1>4 DEF ShownPhotoExists, At
<1>6. /\ stored' \subseteq 1..uploads' /\ \A b \in Bearers : photo'[b] \in 0..uploads'
      /\ \A b, c \in Bearers : photo'[b] = photo'[c] /\ photo'[b] # 0 => b = c
  BY <1>0, <1>3, <1>4 DEF PhotosSound
<1>7. ASSUME NEW s \in Requests
      PROVE  /\ run'[s].photo \in {0, run[s].photo} /\ run'[s].new \in {0, run[s].new}
             /\ run'[s].photo \in 0..uploads' /\ run'[s].new \in 0..uploads'
  BY <1>0, <1>1, <1>2 DEF PhotosSound
<1>8. ASSUME NEW s \in Requests, run'[s].pc = "save"
      PROVE  /\ run'[s].new \in stored'
             /\ \A b \in Bearers : photo'[b] # run'[s].new
             /\ \A q \in Requests :
                   /\ run'[q].photo # run'[s].new
                   /\ run'[q].pc = "save" /\ run'[q].new = run'[s].new => q = s
  <2>1. s # r /\ run'[s] = run[s] /\ At(s, "save")
    BY <1>1, <1>2, <1>8 DEF At
  <2>2. run[s].new \in stored /\ run[s].new # 0 /\ run[s].new # new
    BY <1>0, <1>3, <2>1 DEF PhotosSound, At
  <2>3. \A b \in Bearers : photo'[b] # run[s].new
    BY <1>4, <2>1, <2>2 DEF PhotosSound
  <2>4. ASSUME NEW q \in Requests
        PROVE  /\ run'[q].photo # run[s].new
               /\ run'[q].pc = "save" /\ run'[q].new = run[s].new => q = s
    <3>1. run'[q].photo # run[s].new
      BY <1>7, <2>1, <2>2 DEF PhotosSound
    <3>2. ASSUME run'[q].pc = "save", run'[q].new = run[s].new PROVE q = s
      <4>1. run'[q] = run[q] /\ At(q, "save")
        BY <1>1, <1>2, <3>2 DEF At
      <4> QED BY <2>1, <3>2, <4>1 DEF PhotosSound
    <3> QED BY <3>1, <3>2
  <2> QED BY <1>0, <2>1, <2>2, <2>3, <2>4
<1>9. ASSUME NEW s \in Requests, OfPhotos(run'[s]), run'[s].photo # 0, NEW b \in Bearers \ {run'[s].who}
      PROVE  photo'[b] # run'[s].photo
  <2>1. OfPhotos(run[s]) /\ run'[s].photo = run[s].photo /\ run'[s].who = run[s].who
    BY <1>0, <1>1, <1>2, <1>9 DEF OfPhotos
  <2>2. photo[b] # run[s].photo
    BY <1>9, <2>1 DEF PhotosSound
  <2> QED BY <1>3, <1>4, <2>1, <2>2
<1>10. ASSUME NEW s \in Requests, run'[s].pc = "destroy"
       PROVE  run'[s].photo # 0 /\ \A b \in Bearers : photo'[b] # run'[s].photo
  <2>1. CASE s = r
    <3>1. run'[s].photo = run[r].photo /\ run[r].photo # 0
      BY <1>2, <1>10, <2>1
    <3>2. \A b \in Bearers \ {who} : photo[b] # run[r].photo
      BY <1>0, <3>1 DEF PhotosSound, who
    <3> QED BY <1>3, <1>4, <3>1, <3>2
  <2>2. CASE s # r
    <3>1. run'[s] = run[s] /\ At(s, "destroy")
      BY <1>1, <1>10, <2>2 DEF At
    <3> QED BY <1>3, <1>4, <3>1 DEF PhotosSound
  <2> QED BY <2>1, <2>2
<1> QED BY <1>5, <1>6, <1>7, <1>8, <1>9, <1>10 DEF PhotosSound, At, OfPhotos

(* What goes is shown by nobody, or by the bearer whose photo is removed. *)
LEMMA Destroyed ==
    ASSUME Sound, PhotosSound, ShownPhotoExists, NEW r \in Requests,
           destroyPrevious(r) \/ destroyFirst(r)
    PROVE  PhotosSound' /\ ShownPhotoExists'
<1> DEFINE gone == run[r].photo
<1>0. /\ uploads \in Nat /\ run[r].who \in Bearers /\ UNCHANGED <<photo, uploads>>
      /\ stored' = stored \ {gone}
      /\ run[r].pc \in {"destroy", "destroyfirst"} /\ OfPhotos(run[r])
  BY DEF destroyPrevious, destroyFirst, Sound, TypeOK, Shape, OfPhotos, At
<1>1. \A q \in Requests \ {r} : run'[q] = run[q]
  BY OwnSlot DEF Step
<1>2. \/ destroyPrevious(r) /\ run'[r].pc = "idle" /\ run'[r].photo = 0 /\ run'[r].new = 0
      \/ /\ destroyFirst(r) /\ run'[r].pc = "clear" /\ run'[r].new = run[r].new
         /\ run'[r].who = run[r].who /\ run'[r].photo = run[r].photo
  BY PhotoSlot DEF Idle
<1>3. ShownPhotoExists'
  <2>0. stored \subseteq 1..uploads
    BY DEF PhotosSound
  <2>1. \A b \in Bearers : \A q \in Requests :
           At(q, "clear") /\ run[q].who = b => run'[q].pc = "clear" /\ run'[q].who = b
    BY <1>0, <1>1 DEF At
  <2>2. CASE destroyPrevious(r)
    <3>1. \A b \in Bearers : photo[b] # gone
      BY <2>2 DEF destroyPrevious, PhotosSound
    <3> QED BY <1>0, <2>1, <3>1 DEF ShownPhotoExists, At
  <2>3. CASE destroyFirst(r)
    <3>1. run'[r].pc = "clear" /\ run'[r].who = run[r].who
      BY <2>3, PhotoSlot
    <3>2. \A b \in Bearers \ {run[r].who} : photo[b] # gone \/ photo[b] = 0
      BY <1>0 DEF PhotosSound
    <3> HIDE DEF gone
    <3>3. ASSUME NEW b \in Bearers
          PROVE  photo'[b] \in stored' \cup {0} \/ \E q \in Requests : run'[q].pc = "clear" /\ run'[q].who = b
      <4>1. CASE b = run[r].who
        BY <3>1, <4>1
      <4>2. CASE b # run[r].who
        BY <1>0, <2>1, <3>2, <4>2 DEF ShownPhotoExists
      <4> QED BY <4>1, <4>2
    <3> QED BY <3>3 DEF ShownPhotoExists, At
  <2> QED BY <2>2, <2>3
<1>4. ASSUME NEW s \in Requests
      PROVE  /\ run'[s].photo \in {0, run[s].photo} /\ run'[s].new \in {0, run[s].new}
             /\ run'[s].photo \in 0..uploads' /\ run'[s].new \in 0..uploads'
             /\ run'[s].pc \in {"save", "destroy"} => run'[s] = run[s]
             /\ OfPhotos(run'[s]) =>
                   OfPhotos(run[s]) /\ run'[s].photo = run[s].photo /\ run'[s].who = run[s].who
  BY <1>0, <1>1, <1>2 DEF PhotosSound, OfPhotos
<1>5. ASSUME NEW s \in Requests, run'[s].pc = "save"
      PROVE  /\ run'[s].new \in stored'
             /\ \A b \in Bearers : photo'[b] # run'[s].new
             /\ \A q \in Requests :
                   /\ run'[q].photo # run'[s].new
                   /\ run'[q].pc = "save" /\ run'[q].new = run'[s].new => q = s
  <2>1. run'[s] = run[s] /\ At(s, "save")
    BY <1>4, <1>5 DEF At
  <2>2. run[s].new \in stored /\ run[s].new # 0 /\ run[s].new # gone
    BY <1>0, <2>1 DEF PhotosSound
  <2>3. \A q \in Requests :
           /\ run'[q].photo # run[s].new
           /\ run'[q].pc = "save" /\ run'[q].new = run[s].new => q = s
    BY <1>4, <2>1, <2>2 DEF PhotosSound, At
  <2> QED BY <1>0, <2>1, <2>2, <2>3 DEF PhotosSound
<1>6. ASSUME NEW s \in Requests
      PROVE  /\ OfPhotos(run'[s]) /\ run'[s].photo # 0 =>
                   \A b \in Bearers \ {run'[s].who} : photo'[b] # run'[s].photo
             /\ run'[s].pc = "destroy" => run'[s].photo # 0 /\ \A b \in Bearers : photo'[b] # run'[s].photo
  BY <1>0, <1>4 DEF PhotosSound, At
<1>7. /\ stored' \subseteq 1..uploads' /\ \A b \in Bearers : photo'[b] \in 0..uploads'
      /\ \A b, c \in Bearers : photo'[b] = photo'[c] /\ photo'[b] # 0 => b = c
  BY <1>0 DEF PhotosSound
<1> QED BY <1>3, <1>4, <1>5, <1>6, <1>7 DEF PhotosSound, At, OfPhotos

(* Nothing is shown any more. *)
LEMMA Cleared ==
    ASSUME Sound, PhotosSound, ShownPhotoExists, NEW r \in Requests, clearPhoto(r)
    PROVE  PhotosSound' /\ ShownPhotoExists'
<1> DEFINE who == run[r].who
<1>0. /\ uploads \in Nat /\ who \in Bearers /\ UNCHANGED <<stored, uploads>>
      /\ photo' = [photo EXCEPT ![who] = 0] /\ photo \in [Bearers -> 0..MaxPhotos]
  BY DEF clearPhoto, Sound, TypeOK, Shape, OfPhotos, At
<1>1. \A q \in Requests \ {r} : run'[q] = run[q]
  BY OwnSlot DEF Step
<1>2. run'[r].pc = "idle" /\ run'[r].photo = 0 /\ run'[r].new = 0
  BY PhotoSlot DEF Idle
<1>3. photo'[who] = 0 /\ \A b \in Bearers \ {who} : photo'[b] = photo[b]
  BY <1>0
<1>4. ShownPhotoExists'
  BY <1>0, <1>1, <1>3 DEF ShownPhotoExists, At
<1> HIDE DEF who
<1>5. /\ stored' \subseteq 1..uploads' /\ \A b \in Bearers : photo'[b] \in 0..uploads'
      /\ \A b, c \in Bearers : photo'[b] = photo'[c] /\ photo'[b] # 0 => b = c
  BY <1>0, <1>3 DEF PhotosSound
<1>6. ASSUME NEW s \in Requests
      PROVE  /\ run'[s].photo \in {0, run[s].photo} /\ run'[s].new \in {0, run[s].new}
             /\ run'[s].photo \in 0..uploads' /\ run'[s].new \in 0..uploads'
             /\ run'[s].pc # "idle" => run'[s] = run[s]
  BY <1>0, <1>1, <1>2 DEF PhotosSound
<1>7. ASSUME NEW s \in Requests, run'[s].pc = "save"
      PROVE  /\ run'[s].new \in stored'
             /\ \A b \in Bearers : photo'[b] # run'[s].new
             /\ \A q \in Requests :
                   /\ run'[q].photo # run'[s].new
                   /\ run'[q].pc = "save" /\ run'[q].new = run'[s].new => q = s
  <2>1. run'[s] = run[s] /\ At(s, "save")
    BY <1>6, <1>7 DEF At
  <2>2. run[s].new \in stored /\ run[s].new # 0
    BY <1>0, <2>1 DEF PhotosSound
  <2>3. \A b \in Bearers : photo'[b] # run[s].new
    BY <1>3, <2>1, <2>2 DEF PhotosSound
  <2>4. \A q \in Requests :
           /\ run'[q].photo # run[s].new
           /\ run'[q].pc = "save" /\ run'[q].new = run[s].new => q = s
    BY <1>6, <2>1, <2>2 DEF PhotosSound, At
  <2> QED BY <1>0, <2>1, <2>2, <2>3, <2>4
<1>8. ASSUME NEW s \in Requests
      PROVE  /\ OfPhotos(run'[s]) /\ run'[s].photo # 0 =>
                   \A b \in Bearers \ {run'[s].who} : photo'[b] # run'[s].photo
             /\ run'[s].pc = "destroy" => run'[s].photo # 0 /\ \A b \in Bearers : photo'[b] # run'[s].photo
  <2>1. OfPhotos(run'[s]) \/ run'[s].pc = "destroy" => run'[s] = run[s]
    BY <1>6 DEF OfPhotos
  <2> QED BY <1>3, <2>1 DEF PhotosSound, At
<1> QED BY <1>4, <1>5, <1>6, <1>7, <1>8 DEF PhotosSound, At, OfPhotos

LEMMA PhotosStep ==
    ASSUME Sound, PhotosSound, ShownPhotoExists, [Next]_vars
    PROVE  PhotosSound' /\ ShownPhotoExists'
<1>1. ASSUME NEW r \in Requests, Ask(r) PROVE PhotosSound' /\ ShownPhotoExists'
  <2>1. CASE Answered
    BY <2>1, PhotosKept DEF Answered
  <2> QED BY <1>1, <2>1, Asks, PhotosBegun
<1>2. ASSUME NEW r \in Requests, Step(r),
             ~(\/ uploadAvatar(r) \/ savePhoto(r) \/ destroyPrevious(r)
               \/ destroyFirst(r) \/ clearPhoto(r))
      PROVE  PhotosSound' /\ ShownPhotoExists'
  <2>0. run \in [Requests -> Handler] /\ run[r] \in Handler
    BY DEF Sound, TypeOK, Handler
  <2>1. UNCHANGED <<photo, stored, uploads>>
    BY <1>2 DEF Step, uniqueUsername, baseAccount, create, getIntent, delIntent, linkProvider, providerTaken,
       findProvider, findMail, applyOAuth, taken, saveName, saveDeleted
  <2>2. ~At(r, "clear")
    BY <1>2 DEF Step, uniqueUsername, baseAccount, create, getIntent, delIntent, linkProvider, providerTaken,
       findProvider, findMail, applyOAuth, taken, saveName, saveDeleted, At
  <2>3. ~OfPhotos(run'[r]) /\ run'[r].photo \in {0, run[r].photo} /\ run'[r].new \in {0, run[r].new}
    <3> USE <2>0 DEF Goto, Going, End, OfPhotos, At
    <3>1. CASE uniqueUsername(r)
      BY <3>1 DEF uniqueUsername, Handler
    <3>2. CASE baseAccount(r)
      BY <3>2 DEF baseAccount, Handler
    <3>3. CASE create(r) \/ applyOAuth(r) \/ saveName(r) \/ saveDeleted(r)
      BY <3>3 DEF create, applyOAuth, saveName, saveDeleted, Idle
    <3>4. CASE getIntent(r)
      <4>1. \/ run'[r] = [run[r] EXCEPT !.pc = "find", !.who = None]
            \/ run'[r] = [run[r] EXCEPT !.pc = "del", !.owner = (intent[run[r].who] = run[r].provider)]
        BY <3>4 DEF getIntent
      <4> QED BY <4>1 DEF Handler
    <3>5. CASE delIntent(r)
      BY <3>5 DEF delIntent, Handler
    <3>6. CASE linkProvider(r)
      <4> DEFINE new == [run[r] EXCEPT !.pc = "taken", !.ids = users[run[r].who].ids]
      <4>1. run'[r] = Idle \/ run'[r] = new
        BY <3>6 DEF linkProvider
      <4>2. new.pc = "taken" /\ new.photo = run[r].photo /\ new.new = run[r].new
        BY DEF Handler
      <4> HIDE DEF new
      <4> QED BY <4>1, <4>2 DEF Idle
    <3>7. CASE providerTaken(r)
      BY <3>7 DEF providerTaken, Handler, Idle
    <3>0. ASSUME NEW a, Found(r, a)
          PROVE  run'[r].pc = "apply" /\ run'[r].photo = run[r].photo /\ run'[r].new = run[r].new
      <4>1. run'[r] = [run[r] EXCEPT !.pc = "apply", !.who = a, !.mail = None, !.ids = users[a].ids]
        BY <3>0 DEF Found
      <4> QED BY <4>1 DEF Handler
    <3>8. CASE findProvider(r)
      <4>1. run'[r] = Idle \/ run'[r] = [run[r] EXCEPT !.pc = "findmail"] \/ \E a : Found(r, a)
        BY <3>8 DEF findProvider
      <4> QED BY <3>0, <4>1 DEF Handler, Idle
    <3>9. CASE findMail(r)
      <4> DEFINE new == [run[r] EXCEPT !.pc = "name", !.who = None,
                                       !.ids = [NoIds EXCEPT ![run[r].provider] = run[r].id]]
      <4>1. run'[r] = Idle \/ run'[r] = new \/ \E a : Found(r, a)
        BY <3>9 DEF findMail
      <4>2. new.pc = "name" /\ new.photo = run[r].photo /\ new.new = run[r].new
        BY DEF Handler
      <4> HIDE DEF new
      <4> QED BY <3>0, <4>1, <4>2 DEF Idle
    <3>10. CASE taken(r)
      BY <3>10 DEF taken, Handler, Idle
    <3> QED BY <1>2, <3>1, <3>2, <3>3, <3>4, <3>5, <3>6, <3>7, <3>8, <3>9, <3>10 DEF Step
  <2>4. \A q \in Requests \ {r} : run'[q] = run[q]
    BY <1>2, OwnSlot
  <2> QED BY <2>1, <2>2, <2>3, <2>4, PhotosKept
<1>3. CASE UNCHANGED vars \/ \E a \in Accounts : LinkExpires(a)
  <2>1. UNCHANGED <<run, photo, stored, uploads>>
    BY <1>3 DEF vars, LinkExpires
  <2> QED BY <2>1, PhotosKept
<1> QED BY <1>1, <1>2, <1>3, Uploaded, Saved, Destroyed, Cleared DEF Next

-----------------------------------------------------------------------------
(* Every state that handlers, in any number and order, can reach is typed,  *)
(* has the owner, the links and the photos as their handlers assume.        *)
THEOREM Inductive == Spec => []IInv
<1>1. Init => IInv
  BY InitOK
<1>2. IInv /\ [Next]_vars => IInv'
  <2> SUFFICES ASSUME IInv, [Next]_vars PROVE IInv'
    OBVIOUS
  <2>1. Sound
    BY DEF IInv, Sound
  <2>2. Sound' /\ OwnerSound' /\ LinksSound' /\ PhotosSound' /\ ShownPhotoExists'
    BY <2>1, Typed, OwnerStep, LinksStep, PhotosStep DEF IInv
  <2> QED BY <2>2 DEF IInv, Sound
<1> QED BY <1>1, <1>2, PTL DEF Spec

(* Accounts, photos and handlers keep their types, and no two accounts the  *)
(* username, which taken and uniqueUsername only look up before they save.  *)
THEOREM TypeCorrect == Spec => []TypeOK
<1>1. IInv => TypeOK
  BY DEF IInv
<1> QED BY <1>1, Inductive, PTL

(* The place has one owner, unless sign-ups overlapped while there was no   *)
(* account: baseAccount makes whoever sees an empty table the owner.        *)
THEOREM OwnerIsOne == Spec => []OneOwner
<1>1. IInv => OneOwner
  <2> SUFFICES ASSUME IInv, ~rushed PROVE ~(Cardinality({a \in Exists : users[a].owner}) > 1)
    BY DEF OneOwner
  <2> DEFINE Owners == {a \in Exists : users[a].owner}
  <2>1. \A a, b \in Owners : a = b
    BY DEF IInv, OwnerSound
  <2>2. CASE Owners = {}
    BY <2>2, FS_EmptySet
  <2>3. CASE Owners # {}
    <3>1. PICK a \in Owners : TRUE
      BY <2>3
    <3>2. Owners = {a}
      BY <2>1, <3>1
    <3>3. Cardinality({a}) = 1
      BY FS_Singleton
    <3> HIDE DEF Owners
    <3>4. Cardinality(Owners) = 1
      BY <3>2, <3>3
    <3> QED BY <3>4 DEF Owners
  <2> QED BY <2>2, <2>3
<1> QED BY <1>1, Inductive, PTL

(* A photo that is shown is at Cloudinary, whatever uploads and removals     *)
(* overlap, but between the two steps of a removal.                          *)
THEOREM PhotosExist == Spec => []ShownPhotoExists
<1>1. IInv => ShownPhotoExists
  BY DEF IInv
<1> QED BY <1>1, Inductive, PTL

(* No step unlinks a provider but a save of `providers' by a handler that    *)
(* another one overlapped.                                                   *)
THEOREM LinksAreKept == Spec => LinksStay
<1>1. IInv /\ [Next]_vars =>
        [\A a \in Exists, p \in Providers :
           \/ users[a].ids[p] = None
           \/ users'[a].ids[p] # None
           \/ \E r \in Requests : At(r, "apply") /\ run[r].who = a /\ ~run[r].alone]_vars
  BY LinkedStays DEF IInv, Sound
<1> QED BY <1>1, Inductive, PTL DEF Spec, LinksStay
=============================================================================
