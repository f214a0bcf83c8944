--------------------------- MODULE AccountsProofs ---------------------------
(***************************************************************************)
(* Proofs about Accounts, for any number of requests, sessions, sockets    *)
(* and resets.  First what holds however handlers overlap (types, where a  *)
(* handler can be), then what a handler read is still so when it writes,   *)
(* as long as writers come one at a time, and what follows for sessions.   *)
(***************************************************************************)
EXTENDS Accounts, TLAPS

(* The state before the first request. *)
LEMMA InitOK == Init => IInv
<1> SUFFICES ASSUME Init PROVE IInv
  OBVIOUS
<1>1. TypeOK
  <2>0. 0 \in 0..MaxResets /\ 0 \in 0..MaxSessions
    BY AccountsAssumption
  <2>1. RowTyped
    BY <2>0 DEF Init, RowTyped
  <2>2. KeysTyped
    BY <2>0 DEF Init, KeysTyped
  <2>3. SockTyped /\ HandlersTyped
    BY AccountsAssumption DEF Init, SockTyped, HandlersTyped, Labels, Ops
  <2> QED BY <2>1, <2>2, <2>3 DEF TypeOK
<1>2. PlacesOK /\ BoundsOK /\ OneWriter /\ ReadsHold
  BY DEF Init, PlacesOK, PlaceOK, Guarded, BoundsOK, OneWriter, Busy, ReadsHold
<1>3. SessionsFollow
  BY DEF Init, SessionsFollow, AllListed
<1>4. Handshaken /\ SocketsFollow
  BY DEF Init, Handshaken, SocketsFollow
<1> QED BY <1>1, <1>2, <1>3, <1>4 DEF IInv

(* A handler that moves on or ends keeps the types of all handlers. *)
LEMMA HandlerTyped ==
    ASSUME HandlersTyped, NEW p \in Requests
    PROVE  /\ \A l \in Labels : GoTo(p, l) => HandlersTyped'
           /\ Finish(p) => HandlersTyped'
           /\ \A o \in Ops, l \in Labels, s \in 0..MaxSessions, n \in Nat :
                  Begin(p, o, l, s, n) => HandlersTyped'
<1>1. ASSUME NEW l \in Labels, GoTo(p, l) PROVE HandlersTyped'
  BY <1>1 DEF HandlersTyped, GoTo
<1>2. ASSUME Finish(p) PROVE HandlersTyped'
  <2>1. "idle" \in Labels /\ "none" \in Ops /\ 0 \in 0..MaxSessions /\ 0 \in Nat /\ {} \in SUBSET Sessions
    BY AccountsAssumption DEF Labels, Ops
  <2> QED BY <1>2, <2>1 DEF HandlersTyped, Finish
<1>3. ASSUME NEW o \in Ops, NEW l \in Labels, NEW s \in 0..MaxSessions, NEW n \in Nat,
             Begin(p, o, l, s, n)
      PROVE  HandlersTyped'
  BY <1>3 DEF HandlersTyped, Begin
<1> QED BY <1>1, <1>2, <1>3

(* Every step keeps the types. *)
LEMMA TypedStep ==
    ASSUME TypeOK, PlacesOK, BoundsOK, [Next]_vars
    PROVE  TypeOK'
<1> USE AccountsAssumption, HandlerTyped DEF TypeOK, vars, row, keys, request, Labels, Ops
<1>1. ASSUME NEW p \in Requests, Arrive(p) PROVE TypeOK'
  <2>0. 0 \in 0..MaxSessions /\ 0 \in Nat /\ 1 \in Nat /\ (RowTyped => password \in Nat)
    BY DEF RowTyped
  <2>1. CASE Login(p)
    BY <2>0, <2>1 DEF Login, RowTyped, KeysTyped, SockTyped
  <2>2. CASE Reset(p)
    BY <2>0, <2>2 DEF Reset, RowTyped, KeysTyped, SockTyped
  <2>3. CASE Ban(p)
    BY <2>0, <2>3 DEF Ban, RowTyped, KeysTyped, SockTyped
  <2>4. CASE Unban(p)
    BY <2>0, <2>4 DEF Unban, RowTyped, KeysTyped, SockTyped
  <2>5. CASE Remove(p)
    BY <2>0, <2>5 DEF Remove, RowTyped, KeysTyped, SockTyped
  <2>6. CASE ConfirmDelete(p)
    BY <2>0, <2>6 DEF ConfirmDelete, RowTyped, KeysTyped, SockTyped
  <2>7. ASSUME NEW o \in Guarded, NEW s \in Sessions, NEW n \in 0..(MaxSessions + MaxSockets),
               Request(p, o, s, n)
        PROVE  TypeOK'
    <3>1. s \in 0..MaxSessions /\ n \in Nat
      BY DEF Sessions
    <3>2. HandlersTyped'
      BY <2>7, <3>1 DEF Request
    <3>3. SockTyped'
      BY <2>7 DEF Request, SockTyped
    <3> QED BY <2>7, <3>2, <3>3 DEF Request, RowTyped, KeysTyped
  <2> QED BY <1>1, <2>1, <2>2, <2>3, <2>4, <2>5, <2>6, <2>7 DEF Arrive
<1>2. ASSUME NEW p \in Requests, Continue(p) PROVE TypeOK'
  <2>1. CASE Grant(p)
    <3>1. HandlersTyped' /\ SockTyped' /\ RowTyped'
      BY <2>1 DEF Grant, SockTyped, RowTyped
    <3>2. made < MaxSessions /\ note[p] \in 0..MaxResets
      BY <2>1 DEF Grant, BoundsOK
    <3>3. KeysTyped'
      BY <2>1, <3>2 DEF Grant, KeysTyped, Sessions
    <3> QED BY <3>1, <3>3
  <2>2. CASE SavePassword(p)
    <3>1. HandlersTyped' /\ SockTyped' /\ KeysTyped'
      BY <2>2 DEF SavePassword, SockTyped, KeysTyped
    <3>2. RowTyped'
      BY <2>2 DEF SavePassword, RowTyped, BoundsOK
    <3> QED BY <3>1, <3>2
  <2>3. CASE Spend(p)
    BY <2>3 DEF Spend, RowTyped, KeysTyped, SockTyped
  <2>4. CASE Authz(p)
    BY <2>4 DEF Authz, RowTyped, KeysTyped, SockTyped
  <2>5. CASE Find(p)
    <3>1. HandlersTyped'
      BY <2>5 DEF Find
    <3>2. SockTyped'
      BY <2>5 DEF Find, SockTyped
    <3> QED BY <2>5, <3>1, <3>2 DEF Find, RowTyped, KeysTyped
  <2>6. CASE Fill(p)
    BY <2>6 DEF Fill, RowTyped, KeysTyped, SockTyped
  <2>7. CASE Read(p) \/ Me(p) \/ Revoke(p) \/ LogoutAll(p)
    <3>1. HandlersTyped'
      BY <2>7 DEF Read, Me, Revoke, LogoutAll
    <3> QED BY <2>7, <3>1 DEF Read, Me, Revoke, LogoutAll, RowTyped, KeysTyped, SockTyped
  <2>8. CASE Refresh(p)
    <3>1. HandlersTyped' /\ SockTyped' /\ RowTyped'
      BY <2>8 DEF Refresh, SockTyped, RowTyped
    <3>2. sid[p] \in 1..made
      BY <2>8 DEF Refresh, PlacesOK, PlaceOK, BoundsOK
    <3> QED BY <2>8, <3>1, <3>2 DEF Refresh, KeysTyped
  <2>9. ASSUME NEW s, DeleteSession(p, s) PROVE TypeOK'
    <3>1. HandlersTyped' /\ SockTyped' /\ RowTyped'
      BY <2>9 DEF DeleteSession, SockTyped, RowTyped
    <3> QED BY <2>9, <3>1 DEF DeleteSession, KeysTyped
  <2>10. CASE RequestDelete(p)
    <3>1. HandlersTyped' /\ SockTyped' /\ RowTyped'
      BY <2>10 DEF RequestDelete, SockTyped, RowTyped
    <3>2. token' \in BOOLEAN
      BY <2>10 DEF RequestDelete, Hidden
    <3> QED BY <2>10, <3>1, <3>2 DEF RequestDelete, KeysTyped
  <2>11. CASE Connection(p)
    <3>1. HandlersTyped'
      BY <2>11 DEF Connection
    <3>2. SockTyped'
      BY <2>11 DEF Connection, SockTyped
    <3> QED BY <2>11, <3>1, <3>2 DEF Connection, RowTyped, KeysTyped
  <2>12. CASE Join(p)
    <3>1. HandlersTyped'
      BY <2>12 DEF Join
    <3>2. SockTyped'
      BY <2>12 DEF Join, SockTyped
    <3> QED BY <2>12, <3>1, <3>2 DEF Join, RowTyped, KeysTyped
  <2>13. CASE Forget(p)
    BY <2>13 DEF Forget, RowTyped, KeysTyped, SockTyped
  <2>14. CASE Mark(p)
    <3>1. HandlersTyped'
      BY <2>14 DEF Mark
    <3>2. RowTyped'
      BY <2>14 DEF Mark, RowTyped
    <3> QED BY <2>14, <3>1, <3>2 DEF Mark, KeysTyped, SockTyped
  <2>15. CASE Members(p)
    <3>1. listed \in SUBSET Sessions
      BY DEF KeysTyped, Sessions
    <3>2. HandlersTyped'
      BY <2>15, <3>1 DEF Members, HandlersTyped
    <3> QED BY <2>15, <3>2 DEF Members, RowTyped, KeysTyped, SockTyped
  <2>16. CASE Wipe(p)
    <3>1. HandlersTyped'
      BY <2>16 DEF Wipe
    <3> QED BY <2>16, <3>1 DEF Wipe, RowTyped, KeysTyped, SockTyped
  <2>17. CASE Kick(p)
    <3>1. HandlersTyped'
      BY <2>17 DEF Kick
    <3>2. SockTyped'
      BY <2>17 DEF Kick, SockTyped
    <3> QED BY <2>17, <3>1, <3>2 DEF Kick, RowTyped, KeysTyped
  <2> QED BY <1>2, <2>1, <2>2, <2>3, <2>4, <2>5, <2>6, <2>7, <2>8, <2>9, <2>10, <2>11, <2>12,
             <2>13, <2>14, <2>15, <2>16, <2>17 DEF Continue, Logout, RevokeDelete
<1>3. CASE Forgot \/ CacheExpires
  BY <1>3 DEF Forgot, CacheExpires, RowTyped, KeysTyped, SockTyped, HandlersTyped
<1>4. CASE UNCHANGED vars
  BY <1>4 DEF RowTyped, KeysTyped, SockTyped, HandlersTyped
<1> QED BY <1>1, <1>2, <1>3, <1>4 DEF Next

(* A handler that moves to a place of what it does leaves all in place. *)
LEMMA HandlerPlaced ==
    ASSUME HandlersTyped, PlacesOK, NEW p \in Requests
    PROVE  /\ \A l \in Labels : GoTo(p, l) /\ PlaceOK(l, op[p]) => PlacesOK'
           /\ Finish(p) => PlacesOK'
           /\ \A o \in Ops, l \in Labels : \A s, n :
                  Begin(p, o, l, s, n) /\ PlaceOK(l, o) => PlacesOK'
<1>1. ASSUME NEW l \in Labels, GoTo(p, l), PlaceOK(l, op[p]) PROVE PlacesOK'
  BY <1>1 DEF HandlersTyped, PlacesOK, GoTo
<1>2. ASSUME Finish(p) PROVE PlacesOK'
  <2>1. PlaceOK("idle", "none")
    BY DEF PlaceOK
  <2> QED BY <1>2, <2>1 DEF HandlersTyped, PlacesOK, Finish
<1>3. ASSUME NEW o \in Ops, NEW l \in Labels, NEW s, NEW n, Begin(p, o, l, s, n), PlaceOK(l, o)
      PROVE  PlacesOK'
  BY <1>3 DEF HandlersTyped, PlacesOK, Begin
<1> QED BY <1>1, <1>2, <1>3

(* Every step keeps handlers in place. *)
LEMMA PlacedStep ==
    ASSUME TypeOK, PlacesOK, [Next]_vars
    PROVE  PlacesOK'
<1> USE HandlerPlaced DEF TypeOK, vars, request, Labels, Ops
<1>1. ASSUME NEW p \in Requests, Arrive(p) PROVE PlacesOK'
  <2>1. PlaceOK("grant", "login") /\ PlaceOK("save", "reset") /\ PlaceOK("spend", "close")
    BY DEF PlaceOK
  <2>2. \A o \in {"ban", "unban", "remove"} : PlaceOK("forget", o)
    BY DEF PlaceOK
  <2>3. \A o \in Guarded : PlaceOK("authz", o)
    BY DEF PlaceOK, Guarded
  <2> QED BY <1>1, <2>1, <2>2, <2>3 DEF Arrive, Login, Reset, Ban, Unban, Remove, ConfirmDelete, Request
<1>2. ASSUME NEW p \in Requests, Continue(p) PROVE PlacesOK'
  <2>1. PlaceOK(pc[p], op[p])
    BY DEF PlacesOK
  <2>2. CASE Grant(p) \/ Read(p) \/ Refresh(p) \/ Logout(p) \/ RevokeDelete(p) \/ RequestDelete(p)
             \/ Join(p) \/ Kick(p)
    BY <2>2 DEF Grant, Read, Refresh, Logout, RevokeDelete, DeleteSession, RequestDelete, Join, Kick
  <2>3. CASE SavePassword(p)
    BY <2>1, <2>3 DEF SavePassword, PlaceOK
  <2>4. CASE Spend(p)
    BY <2>1, <2>4 DEF Spend, PlaceOK
  <2>5. CASE Authz(p)
    BY <2>1, <2>5 DEF Authz, PlaceOK
  <2>6. CASE Find(p)
    BY <2>1, <2>6 DEF Find, PlaceOK
  <2>7. CASE Fill(p)
    BY <2>1, <2>7 DEF Fill, PlaceOK
  <2>8. CASE Me(p)
    BY <2>1, <2>8 DEF Me, PlaceOK
  <2>9. CASE Revoke(p)
    BY <2>1, <2>9 DEF Revoke, PlaceOK
  <2>10. CASE LogoutAll(p)
    BY <2>1, <2>10 DEF LogoutAll, PlaceOK
  <2>11. CASE Connection(p)
    BY <2>1, <2>11 DEF Connection, PlaceOK
  <2>12. CASE Forget(p)
    BY <2>1, <2>12 DEF Forget, PlaceOK
  <2>13. CASE Mark(p)
    BY <2>1, <2>13 DEF Mark, PlaceOK
  <2>14. CASE Members(p)
    <3>1. PlaceOK("wipe", op[p])
      BY <2>1, <2>14 DEF Members, PlaceOK
    <3> QED BY <2>14, <3>1 DEF Members, HandlersTyped, PlacesOK
  <2>15. CASE Wipe(p)
    BY <2>1, <2>15 DEF Wipe, PlaceOK
  <2> QED BY <1>2, <2>2, <2>3, <2>4, <2>5, <2>6, <2>7, <2>8, <2>9, <2>10, <2>11, <2>12, <2>13,
             <2>14, <2>15 DEF Continue
<1>3. CASE Forgot \/ CacheExpires \/ UNCHANGED vars
  BY <1>3 DEF Forgot, CacheExpires, PlacesOK
<1> QED BY <1>1, <1>2, <1>3 DEF Next

(* A handler that does not begin or come to a login or a reset leaves the   *)
(* bounds alone.                                                            *)
LEMMA HandlerBounded ==
    ASSUME HandlersTyped, BoundsOK, NEW p \in Requests, made' = made, password' = password
    PROVE  /\ \A l \in Labels : GoTo(p, l) /\ l \notin {"grant", "save"} => BoundsOK'
           /\ Finish(p) => BoundsOK'
           /\ \A o \in Ops, l \in Labels : \A s, n :
                  Begin(p, o, l, s, n) /\ l \notin {"grant", "save"} /\ o # "reset"
                  /\ (o = "me" => s \in 1..made) => BoundsOK'
<1>1. ASSUME NEW l \in Labels, GoTo(p, l), l \notin {"grant", "save"} PROVE BoundsOK'
  BY <1>1 DEF HandlersTyped, BoundsOK, GoTo
<1>2. ASSUME Finish(p) PROVE BoundsOK'
  BY <1>2 DEF HandlersTyped, BoundsOK, Finish
<1>3. ASSUME NEW o \in Ops, NEW l \in Labels, NEW s, NEW n, Begin(p, o, l, s, n),
             l \notin {"grant", "save"}, o # "reset", o = "me" => s \in 1..made
      PROVE  BoundsOK'
  BY <1>3 DEF HandlersTyped, BoundsOK, Begin
<1> QED BY <1>1, <1>2, <1>3

(* Sessions and resets stay within their bounds. *)
LEMMA BoundedStep ==
    ASSUME TypeOK, PlacesOK, BoundsOK, [Next]_vars
    PROVE  BoundsOK'
<1> USE HandlerBounded DEF TypeOK, vars, row, keys, request, Labels, Ops
<1>1. ASSUME NEW p \in Requests, Arrive(p) PROVE BoundsOK'
  <2>1. CASE Login(p)
    <3>1. pc' = [pc EXCEPT ![p] = "grant"] /\ note' = [note EXCEPT ![p] = password]
          /\ op' = [op EXCEPT ![p] = "login"]
      BY <2>1 DEF Login, Begin
    <3>2. /\ \A q \in Requests : pc[q] # "grant"
          /\ made < MaxSessions /\ password \in 0..MaxResets
          /\ made' = made /\ password' = password /\ sid'[p] = 0
          /\ \A q \in Requests : q # p => sid'[q] = sid[q]
      BY <2>1 DEF Login, Begin, RowTyped, HandlersTyped
    <3> HIDE HandlerBounded
    <3> QED BY <3>1, <3>2 DEF BoundsOK, HandlersTyped
  <2>2. CASE Reset(p)
    <3>1. pc' = [pc EXCEPT ![p] = "save"] /\ op' = [op EXCEPT ![p] = "reset"]
      BY <2>2 DEF Reset, Begin
    <3>2. /\ \A q \in Requests : op[q] # "reset"
          /\ password < MaxResets /\ made' = made /\ password' = password
          /\ \A q \in Requests : q # p => note'[q] = note[q] /\ sid'[q] = sid[q]
      BY <2>2 DEF Reset, Begin, HandlersTyped
    <3> HIDE HandlerBounded
    <3> QED BY <3>1, <3>2 DEF BoundsOK, HandlersTyped
  <2>3. CASE Ban(p) \/ Unban(p) \/ Remove(p) \/ ConfirmDelete(p)
    BY <2>3 DEF Ban, Unban, Remove, ConfirmDelete
  <2>4. ASSUME NEW o \in Guarded, NEW s \in Sessions, NEW n \in 0..(MaxSessions + MaxSockets),
               Request(p, o, s, n)
        PROVE  BoundsOK'
    BY <2>4 DEF Request, KeysTyped, Guarded
  <2> QED BY <1>1, <2>1, <2>2, <2>3, <2>4 DEF Arrive
<1>2. ASSUME NEW p \in Requests, Continue(p) PROVE BoundsOK'
  <2>1. CASE Grant(p)
    BY <2>1 DEF Grant, Finish, BoundsOK, HandlersTyped, KeysTyped
  <2>2. CASE SavePassword(p)
    <3>1. op[p] = "reset" /\ \A q \in Requests : pc[q] = "save" => op[q] = "reset"
      BY <2>2 DEF SavePassword, PlacesOK, PlaceOK
    <3> QED BY <2>2, <3>1 DEF SavePassword, GoTo, BoundsOK, HandlersTyped
  <2>3. CASE Spend(p) \/ Authz(p) \/ Fill(p) \/ LogoutAll(p) \/ Forget(p)
    BY <2>3 DEF Spend, Authz, Fill, LogoutAll, Forget
  <2>4. CASE Find(p) \/ Connection(p) \/ Me(p) \/ Revoke(p) \/ Mark(p) \/ Wipe(p)
    BY <2>4 DEF Find, Connection, Me, Revoke, Mark, Wipe
  <2>5. CASE Read(p) \/ Refresh(p) \/ Logout(p) \/ RevokeDelete(p) \/ RequestDelete(p) \/ Join(p)
             \/ Kick(p)
    BY <2>5 DEF Read, Refresh, Logout, RevokeDelete, DeleteSession, RequestDelete, Join, Kick
  <2>6. CASE Members(p)
    BY <2>6 DEF Members, BoundsOK, HandlersTyped
  <2> QED BY <1>2, <2>1, <2>2, <2>3, <2>4, <2>5, <2>6 DEF Continue
<1>3. CASE Forgot \/ CacheExpires \/ UNCHANGED vars
  BY <1>3 DEF Forgot, CacheExpires, BoundsOK
<1> QED BY <1>1, <1>2, <1>3 DEF Next

(* A handler begins to write only when no other writer is in flight, and    *)
(* keeps doing what it does until it ends.                                  *)
LEMMA OneWriterStep ==
    ASSUME TypeOK, OneWriter, [Next]_vars
    PROVE  OneWriter'
<1> USE DEF TypeOK, HandlersTyped, vars, request
<1>1. ASSUME NEW p \in Requests, NEW o \in Ops, NEW l, NEW s, NEW n, Begin(p, o, l, s, n)
      PROVE  OneWriter'
  BY <1>1 DEF Begin, OneWriter, Busy, Settled
<1>2. ASSUME NEW p \in Requests, op' = op \/ op' = [op EXCEPT ![p] = "none"] PROVE OneWriter'
  BY <1>2 DEF OneWriter, Busy
<1>3. ASSUME NEW p \in Requests, Arrive(p) PROVE OneWriter'
  BY <1>1, <1>3 DEF Arrive, Login, Reset, Ban, Unban, Remove, ConfirmDelete, Request, Ops
<1>4. ASSUME NEW p \in Requests, Continue(p) PROVE op' = op \/ op' = [op EXCEPT ![p] = "none"]
  BY <1>4 DEF Continue, GoTo, Finish, Grant, SavePassword, Spend, Authz, Find, Fill, Read, Me, Refresh,
     Logout, Revoke, RevokeDelete, DeleteSession, LogoutAll, RequestDelete, Connection, Join, Forget,
     Mark, Members, Wipe, Kick
<1>5. CASE Forgot \/ CacheExpires \/ UNCHANGED vars
  BY <1>5 DEF Forgot, CacheExpires, OneWriter, Busy
<1> QED BY <1>2, <1>3, <1>4, <1>5 DEF Next

(* A step that leaves the row and the sessions alone, and does not end a    *)
(* revocation, keeps what was read and what follows for sessions.           *)
LEMMA QuietStep ==
    ASSUME TypeOK, ReadsHold, SessionsFollow, NEW p \in Requests,
           row' = row, sess' = sess, listed' = listed, knew' = knew,
           \/ \E l \in Labels : GoTo(p, l) /\ l \notin {"grant", "refresh", "wipe"} /\ (Revoking(p) => Revoking(p)')
           \/ Finish(p) /\ ~Revoking(p)
           \/ \E o \in Ops, l \in Labels : \E s, n : Begin(p, o, l, s, n) /\ l \notin {"grant", "refresh", "wipe"}
    PROVE  ReadsHold' /\ SessionsFollow'
<1> USE DEF TypeOK, HandlersTyped, row
<1>1. \A q \in Requests : q # p => pc'[q] = pc[q] /\ op'[q] = op[q] /\ sid'[q] = sid[q]
                                   /\ note'[q] = note[q] /\ ids'[q] = ids[q]
  BY DEF GoTo, Finish, Begin
<1>2. pc'[p] \notin {"grant", "refresh", "wipe"}
  BY DEF GoTo, Finish, Begin
<1>3. \A q \in Requests : Revoking(q) => Revoking(q)'
  <2>1. Revoking(p) => Revoking(p)'
    BY DEF Begin, Revoking
  <2> QED BY <1>1, <2>1 DEF Revoking
<1>4. ReadsHold'
  BY <1>1, <1>2 DEF ReadsHold, Hidden
<1>5. SessionsFollow'
  BY <1>3 DEF SessionsFollow, AllListed, Hidden
<1> QED BY <1>4, <1>5

(* While one handler writes, no other has read anything it relies on.       *)
LEMMA LoneWriter ==
    ASSUME TypeOK, PlacesOK, OneWriter, ~Overlap, NEW p \in Requests, Busy(p)
    PROVE  \A q \in Requests : q # p => /\ pc[q] \notin {"grant", "refresh", "wipe"}
                                        /\ ~Revoking(q)
<1> SUFFICES ASSUME NEW q \in Requests, q # p
             PROVE  pc[q] \notin {"grant", "refresh", "wipe"} /\ ~Revoking(q)
  OBVIOUS
<1>1. op[q] \in {"none", "read"}
  BY DEF OneWriter, Busy
<1> QED BY <1>1 DEF PlacesOK, PlaceOK, Revoking

(* When all are through, nobody is revoking.                                *)
LEMMA SettledIsQuiet ==
    ASSUME PlacesOK, Settled
    PROVE  \A q \in Requests : ~Revoking(q) /\ pc[q] \notin {"grant", "refresh", "wipe"}
BY DEF PlacesOK, PlaceOK, Settled, Busy, Revoking

(* With one writer at a time, what a handler read is still so, every        *)
(* session is listed, and whoever hides the account or changes its password *)
(* ends its sessions before it ends.                                        *)
LEMMA FollowStep ==
    ASSUME IInv, ~Overlap, [Next]_vars
    PROVE  ReadsHold' /\ SessionsFollow'
<1> USE DEF IInv, row, keys, request, vars
<1>0. TypeOK /\ HandlersTyped /\ KeysTyped /\ SessionsFollow /\ ReadsHold /\ AllListed
  BY DEF TypeOK, SessionsFollow
<1>1. ASSUME NEW p \in Requests, Arrive(p) PROVE ReadsHold' /\ SessionsFollow'
  <2>1. CASE Login(p)
    <3>1. Settled
      BY <2>1 DEF Login, Begin
    <3>2. \A q \in Requests : ~Revoking(q) /\ pc[q] \notin {"grant", "refresh", "wipe"}
      BY <3>1, SettledIsQuiet
    <3>3. ReadsHold'
      BY <1>0, <2>1, <3>2 DEF Login, Begin, ReadsHold, Hidden, HandlersTyped
    <3>4. SessionsFollow'
      BY <1>0, <2>1, <3>2 DEF Login, SessionsFollow, AllListed, Hidden
    <3> QED BY <3>3, <3>4
  <2>2. CASE Reset(p)
    BY <1>0, <2>2, QuietStep DEF Reset, Labels, Ops
  <2>3. CASE Ban(p) \/ Unban(p) \/ Remove(p) \/ ConfirmDelete(p)
    BY <1>0, <2>3, QuietStep DEF Ban, Unban, Remove, ConfirmDelete, Labels, Ops
  <2>4. ASSUME NEW o \in Guarded, NEW s \in Sessions, NEW n \in 0..(MaxSessions + MaxSockets),
               Request(p, o, s, n)
        PROVE  ReadsHold' /\ SessionsFollow'
    BY <1>0, <2>4, QuietStep DEF Request, Labels, Ops
  <2> QED BY <1>1, <2>1, <2>2, <2>3, <2>4 DEF Arrive
<1>2. ASSUME NEW p \in Requests, Continue(p) PROVE ReadsHold' /\ SessionsFollow'
  <2>0. PlaceOK(pc[p], op[p])
    BY DEF PlacesOK
  <2>1. Busy(p) => \A q \in Requests : q # p => ~Revoking(q) /\ pc[q] \notin {"grant", "refresh", "wipe"}
    BY <1>0, LoneWriter
  <2>2. CASE Grant(p)
    <3>1. Busy(p) /\ ~Revoking(p) /\ note[p] = password /\ ~Hidden
      BY <1>0, <2>0, <2>2 DEF Grant, PlaceOK, Busy, Revoking, ReadsHold
    <3>2. made + 1 \in Sessions /\ made + 1 \notin sess
      BY <1>0, <2>2, AccountsAssumption DEF Grant, BoundsOK, KeysTyped, Sessions
    <3>3. ReadsHold'
      BY <1>0, <2>1, <2>2, <3>1 DEF Grant, Finish, ReadsHold, Hidden, HandlersTyped
    <3>4. \A s \in sess : knew[s] = password
      BY <1>0, <2>1, <3>1 DEF SessionsFollow
    <3>5. \A s \in sess' : knew'[s] = password
      <4>1. sess \subseteq Sessions /\ knew \in [Sessions -> 0..MaxResets]
        BY <1>0, AccountsAssumption DEF KeysTyped, Sessions
      <4> QED BY <2>2, <3>1, <3>2, <3>4, <4>1 DEF Grant
    <3>6. SessionsFollow'
      BY <1>0, <2>2, <3>1, <3>5 DEF Grant, SessionsFollow, AllListed, Hidden
    <3> QED BY <3>3, <3>6
  <2>3. CASE Refresh(p)
    <3>1. sess' = sess /\ ~Revoking(p)
      BY <1>0, <2>3 DEF Refresh, ReadsHold, Revoking
    <3> QED BY <1>0, <2>3, <3>1, QuietStep DEF Refresh
  <2>4. CASE SavePassword(p)
    <3>1. op[p] = "reset" /\ Busy(p)
      BY <2>0, <2>4 DEF SavePassword, PlaceOK, Busy
    <3>2. ReadsHold'
      BY <1>0, <2>1, <2>4, <3>1 DEF SavePassword, GoTo, ReadsHold, HandlersTyped
    <3>3. Revoking(p)'
      BY <1>0, <2>4, <3>1 DEF SavePassword, GoTo, Revoking, HandlersTyped
    <3> QED BY <1>0, <2>4, <3>2, <3>3 DEF SavePassword, SessionsFollow, AllListed
  <2>5. ASSUME NEW s, DeleteSession(p, s), Busy(p), ~Revoking(p)
        PROVE  ReadsHold' /\ SessionsFollow'
    <3>1. ReadsHold'
      BY <1>0, <2>1, <2>5 DEF DeleteSession, Finish, ReadsHold, Hidden, HandlersTyped
    <3>2. (Hidden => sess = {}) /\ \A t \in sess : knew[t] = password
      BY <1>0, <2>1, <2>5 DEF SessionsFollow
    <3> QED BY <1>0, <2>5, <3>1, <3>2 DEF DeleteSession, SessionsFollow, AllListed, Hidden
  <2>6. CASE Logout(p) \/ RevokeDelete(p)
    BY <2>0, <2>5, <2>6 DEF Logout, RevokeDelete, PlaceOK, Busy, Revoking
  <2>7. CASE Mark(p)
    <3>1. Busy(p) /\ ~Revoking(p)
      BY <2>0, <2>7 DEF Mark, PlaceOK, Busy, Revoking
    <3>2. ReadsHold'
      BY <1>0, <2>1, <2>7, <3>1 DEF Mark, GoTo, Finish, ReadsHold, HandlersTyped
    <3>3. CASE op[p] = "unban"
      <4>1. (Hidden => sess = {}) /\ (\A t \in sess : knew[t] = password) /\ (Hidden' => Hidden)
        BY <1>0, <2>1, <2>7, <3>1, <3>3 DEF SessionsFollow, Mark, Hidden
      <4> QED BY <1>0, <2>7, <3>2, <4>1 DEF Mark, SessionsFollow, AllListed
    <3>4. CASE op[p] # "unban"
      <4>1. Revoking(p)'
        BY <1>0, <2>7, <3>4 DEF Mark, GoTo, Revoking, HandlersTyped
      <4> QED BY <1>0, <2>7, <3>2, <4>1 DEF Mark, SessionsFollow, AllListed
    <3> QED BY <3>3, <3>4
  <2>8. CASE Wipe(p)
    <3>1. Busy(p) /\ ids[p] = listed
      BY <1>0, <2>0, <2>8 DEF Wipe, PlaceOK, Busy, ReadsHold
    <3>2. sess' = {} /\ listed' = {}
      BY <1>0, <2>8, <3>1 DEF Wipe, AllListed
    <3>3. ReadsHold'
      BY <1>0, <2>1, <2>8, <3>1 DEF Wipe, GoTo, Finish, ReadsHold, Hidden, HandlersTyped
    <3> QED BY <3>2, <3>3 DEF SessionsFollow, AllListed
  <2>9. CASE Me(p)
    <3>1. CASE GoTo(p, "refresh") /\ sid[p] \in sess
      <4>1. ReadsHold'
        BY <1>0, <2>9, <3>1 DEF Me, GoTo, ReadsHold, Hidden, HandlersTyped
      <4>2. \A q \in Requests : Revoking(q) => Revoking(q)'
        BY <1>0, <2>9 DEF Me, GoTo, Finish, Revoking, HandlersTyped
      <4> QED BY <1>0, <2>9, <4>1, <4>2 DEF Me, SessionsFollow, AllListed, Hidden
    <3>2. CASE Finish(p)
      BY <1>0, <2>9, <3>2, QuietStep DEF Me, Revoking
    <3> QED BY <2>9, <3>1, <3>2 DEF Me
  <2>10. CASE Members(p)
    <3>1. ReadsHold'
      BY <1>0, <2>10 DEF Members, ReadsHold, Hidden, HandlersTyped
    <3>2. \A q \in Requests : Revoking(q) => Revoking(q)'
      BY <1>0, <2>10 DEF Members, Revoking, HandlersTyped
    <3> QED BY <1>0, <2>10, <3>1, <3>2 DEF Members, SessionsFollow, AllListed, Hidden
  <2>11. CASE Authz(p) \/ Fill(p) \/ LogoutAll(p) \/ Forget(p)
    BY <1>0, <2>11, QuietStep DEF Authz, Fill, LogoutAll, Forget, Revoking, Labels
  <2>12. CASE Find(p) \/ Connection(p) \/ Revoke(p)
    BY <1>0, <2>12, QuietStep DEF Find, Connection, Revoke, Revoking, Labels
  <2>13. CASE Spend(p)
    <3>1. Revoking(p) => Revoking(p)'
      BY <1>0, <2>13 DEF Spend, GoTo, Revoking, HandlersTyped
    <3> QED BY <1>0, <2>13, <3>1, QuietStep DEF Spend, Labels
  <2>14. CASE Read(p) \/ RequestDelete(p) \/ Join(p) \/ Kick(p)
    BY <1>0, <2>14, QuietStep DEF Read, RequestDelete, Join, Kick, Revoking
  <2> QED BY <1>2, <2>2, <2>3, <2>4, <2>6, <2>7, <2>8, <2>9, <2>10, <2>11, <2>12, <2>13, <2>14
          DEF Continue
<1>3. CASE Forgot \/ CacheExpires \/ UNCHANGED vars
  BY <1>0, <1>3 DEF Forgot, CacheExpires, ReadsHold, SessionsFollow, AllListed, Hidden, Revoking
<1> QED BY <1>1, <1>2, <1>3 DEF Next

(* A handshake ends only in its own handler, which puts the socket into the *)
(* user's room or closes it (handleConnection).                             *)
LEMMA HandshakeStep ==
    ASSUME TypeOK, PlacesOK, Handshaken, [Next]_vars
    PROVE  Handshaken'
<1> USE DEF TypeOK, HandlersTyped, SockTyped, Handshaken
<1>1. ASSUME NEW p \in Requests, sock' = sock,
             op[p] # "socket" \/ (op'[p] = op[p] /\ note'[p] = note[p]),
             \A q \in Requests : q # p => op'[q] = op[q] /\ note'[q] = note[q]
      PROVE  Handshaken'
  BY <1>1
<1>2. ASSUME NEW p \in Requests, sock' = sock,
             \/ \E l : GoTo(p, l)
             \/ Finish(p) /\ op[p] # "socket"
             \/ op[p] = "none" /\ \E o, l, s, n : Begin(p, o, l, s, n)
      PROVE  Handshaken'
  BY <1>1, <1>2 DEF GoTo, Finish, Begin
<1>3. ASSUME NEW p \in Requests, op[p] = "socket", NEW v \in {"room", "closed"},
             Finish(p), sock' = [sock EXCEPT ![note[p]] = v]
      PROVE  Handshaken'
  <2>1. \A k \in Sockets : sock'[k] \in {"shaking", "open"} => k # note[p] /\ sock'[k] = sock[k]
    BY <1>3
  <2>2. \A q \in Requests : q # p => op'[q] = op[q] /\ note'[q] = note[q]
    BY <1>3 DEF Finish
  <2> QED BY <2>1, <2>2
<1>4. ASSUME NEW p \in Requests, Arrive(p) PROVE Handshaken'
  <2>1. op[p] = "none"
    BY <1>4 DEF Arrive, Login, Reset, Ban, Unban, Remove, ConfirmDelete, Request, Begin, PlacesOK, PlaceOK
  <2>2. CASE Login(p) \/ Reset(p) \/ Ban(p) \/ Unban(p) \/ Remove(p) \/ ConfirmDelete(p)
    BY <1>2, <2>1, <2>2 DEF Login, Reset, Ban, Unban, Remove, ConfirmDelete
  <2>3. ASSUME NEW o \in Guarded, NEW s \in Sessions, NEW n \in 0..(MaxSessions + MaxSockets),
               Request(p, o, s, n)
        PROVE  Handshaken'
    <3>1. CASE o = "socket"
      <4>1. op'[p] = "socket" /\ note'[p] = n /\ sock' = [sock EXCEPT ![n] = "shaking"]
        BY <2>3, <3>1 DEF Request, Begin
      <4>2. \A q \in Requests : q # p => op'[q] = op[q] /\ note'[q] = note[q]
        BY <2>3 DEF Request, Begin
      <4> QED BY <2>1, <4>1, <4>2
    <3>2. CASE o # "socket"
      BY <1>2, <2>1, <2>3, <3>2 DEF Request
    <3> QED BY <3>1, <3>2
  <2> QED BY <1>4, <2>2, <2>3 DEF Arrive
<1>5. ASSUME NEW p \in Requests, Continue(p) PROVE Handshaken'
  <2>0. PlaceOK(pc[p], op[p])
    BY DEF PlacesOK
  <2>1. CASE SavePassword(p) \/ Spend(p) \/ Authz(p) \/ Fill(p) \/ LogoutAll(p) \/ Forget(p)
    BY <1>2, <2>1 DEF SavePassword, Spend, Authz, Fill, LogoutAll, Forget
  <2>2. CASE Grant(p) \/ Read(p) \/ Me(p) \/ Refresh(p) \/ Logout(p) \/ Revoke(p) \/ RevokeDelete(p)
             \/ RequestDelete(p) \/ Mark(p) \/ Wipe(p)
    BY <1>2, <2>0, <2>2 DEF Grant, Read, Me, Refresh, Logout, Revoke, RevokeDelete, DeleteSession,
       RequestDelete, Mark, Wipe, PlaceOK
  <2>3. CASE Find(p)
    <3>1. CASE Hidden /\ op[p] = "socket"
      BY <1>3, <2>3, <3>1 DEF Find
    <3>2. CASE ~(Hidden /\ op[p] = "socket")
      BY <1>2, <2>3, <3>2 DEF Find
    <3> QED BY <3>1, <3>2
  <2>4. CASE Connection(p)
    <3>1. CASE Hidden
      BY <1>3, <2>4, <3>1 DEF Connection
    <3>2. CASE ~Hidden
      <4>1. /\ op[p] = "socket" /\ sock' = [sock EXCEPT ![note[p]] = "open"]
            /\ op' = op /\ note' = note
        BY <2>4, <3>2 DEF Connection, GoTo
      <4> QED BY <4>1
    <3> QED BY <3>1, <3>2
  <2>5. CASE Join(p)
    BY <1>3, <2>0, <2>5 DEF Join, PlaceOK
  <2>6. CASE Members(p)
    BY <2>6 DEF Members
  <2>7. CASE Kick(p)
    <3>1. /\ op[p] # "socket"
          /\ \A q \in Requests : q # p => op'[q] = op[q] /\ note'[q] = note[q]
          /\ \A k \in Sockets : sock'[k] \in {"shaking", "open"} => sock'[k] = sock[k]
      BY <2>0, <2>7 DEF Kick, Finish, PlaceOK
    <3> QED BY <3>1
  <2> QED BY <1>5, <2>1, <2>2, <2>3, <2>4, <2>5, <2>6, <2>7 DEF Continue
<1>6. CASE Forgot \/ CacheExpires \/ UNCHANGED vars
  BY <1>6 DEF Forgot, CacheExpires, vars, request
<1> QED BY <1>4, <1>5, <1>6 DEF Next

(* A step that leaves the row and the sockets alone, and does not end a ban,*)
(* closes no socket and has none to close.                                  *)
LEMMA CalmStep ==
    ASSUME TypeOK, SocketsFollow, NEW p \in Requests, row' = row, sock' = sock,
           \/ \E l \in Labels : GoTo(p, l) /\ l # "join" /\ (Expelling(p) => Expelling(p)')
           \/ Finish(p) /\ ~Expelling(p)
           \/ \E o \in Ops, l \in Labels : \E s, n : Begin(p, o, l, s, n) /\ l # "join"
    PROVE  SocketsFollow'
<1> USE DEF TypeOK, HandlersTyped, row
<1>1. /\ \A q \in Requests : q # p => pc'[q] = pc[q] /\ op'[q] = op[q]
      /\ pc'[p] # "join"
  BY DEF GoTo, Finish, Begin
<1>2. \A q \in Requests : Expelling(q) => Expelling(q)'
  <2>1. Expelling(p) => Expelling(p)'
    BY DEF Begin, Expelling
  <2> QED BY <1>1, <2>1 DEF Expelling
<1> QED BY <1>1, <1>2 DEF SocketsFollow, Hidden

(* With one writer at a time, a handshake enters the room only while the    *)
(* account may, and a ban ends with an empty room (banAccount, kickBanned). *)
LEMMA ExpelStep ==
    ASSUME IInv, ~Overlap, [Next]_vars
    PROVE  SocketsFollow'
<1> USE DEF row, keys, request, vars
<1>0. TypeOK /\ HandlersTyped /\ PlacesOK /\ OneWriter /\ SocketsFollow
  BY DEF IInv, TypeOK
<1>1. ASSUME NEW p \in Requests, Arrive(p) PROVE SocketsFollow'
  <2>1. CASE Login(p) \/ Reset(p) \/ Ban(p) \/ Unban(p) \/ Remove(p) \/ ConfirmDelete(p)
    BY <1>0, <2>1, CalmStep DEF Login, Reset, Ban, Unban, Remove, ConfirmDelete, Labels, Ops
  <2>2. ASSUME NEW o \in Guarded, NEW s \in Sessions, NEW n \in 0..(MaxSessions + MaxSockets),
               Request(p, o, s, n)
        PROVE  SocketsFollow'
    <3>1. CASE o = "socket"
      <4>1. /\ \A q \in Requests : q # p => pc'[q] = pc[q] /\ op'[q] = op[q]
            /\ pc[p] = "idle" /\ pc'[p] = "authz" /\ row' = row
            /\ sock' = [sock EXCEPT ![n] = "shaking"]
        BY <1>0, <2>2, <3>1 DEF Request, Begin, HandlersTyped
      <4>2. \A q \in Requests : Expelling(q) => Expelling(q)'
        BY <4>1 DEF Expelling
      <4>3. \A k \in Sockets : sock'[k] = "room" => sock[k] = "room"
        BY <1>0, <4>1 DEF TypeOK, SockTyped
      <4> QED BY <1>0, <4>1, <4>2, <4>3 DEF SocketsFollow, Hidden
    <3>2. CASE o # "socket"
      BY <1>0, <2>2, <3>2, CalmStep DEF Request, Labels, Ops
    <3> QED BY <3>1, <3>2
  <2> QED BY <1>1, <2>1, <2>2 DEF Arrive
<1>2. ASSUME NEW p \in Requests, Continue(p) PROVE SocketsFollow'
  <2>0. PlaceOK(pc[p], op[p])
    BY <1>0 DEF PlacesOK
  <2>1. ASSUME Busy(p) PROVE \A q \in Requests : q # p => ~Expelling(q) /\ pc[q] # "join"
    BY <1>0, <2>1 DEF OneWriter, Busy, PlacesOK, PlaceOK, Expelling
  <2>2. CASE Grant(p) \/ Refresh(p) \/ Logout(p) \/ RevokeDelete(p) \/ Read(p) \/ RequestDelete(p)
    BY <1>0, <2>0, <2>2, CalmStep DEF Grant, Refresh, Logout, RevokeDelete, DeleteSession, Read,
       RequestDelete, PlaceOK, Expelling
  <2>3. CASE Authz(p) \/ Fill(p) \/ LogoutAll(p) \/ Forget(p) \/ Spend(p)
    BY <1>0, <2>3, CalmStep DEF Authz, Fill, LogoutAll, Forget, Spend, Expelling, Labels
  <2>4. CASE Me(p) \/ Revoke(p)
    BY <1>0, <2>4, CalmStep DEF Me, Revoke, Expelling, Labels
  <2>5. ASSUME row' = row, sock' = [sock EXCEPT ![note[p]] = "closed"], ~Expelling(p), Finish(p)
        PROVE  SocketsFollow'
    <3>1. /\ \A q \in Requests : q # p => pc'[q] = pc[q] /\ op'[q] = op[q]
          /\ pc'[p] # "join"
      BY <1>0, <2>5 DEF Finish, HandlersTyped
    <3>2. \A q \in Requests : Expelling(q) => Expelling(q)'
      BY <2>5, <3>1 DEF Expelling
    <3>3. \A k \in Sockets : sock'[k] = "room" => sock[k] = "room"
      BY <1>0, <2>5 DEF TypeOK, SockTyped
    <3> QED BY <1>0, <2>5, <3>1, <3>2, <3>3 DEF SocketsFollow, Hidden
  <2>6. CASE Find(p)
    <3>1. ~Expelling(p)
      BY <2>6 DEF Find, Expelling
    <3>2. CASE Hidden /\ op[p] = "socket"
      BY <2>5, <2>6, <3>1, <3>2 DEF Find
    <3>3. CASE ~(Hidden /\ op[p] = "socket")
      BY <1>0, <2>6, <3>1, <3>3, CalmStep DEF Find, Labels
    <3> QED BY <3>2, <3>3
  <2>7. CASE Connection(p)
    <3>1. ~Expelling(p)
      BY <2>7 DEF Connection, Expelling
    <3>2. CASE Hidden
      BY <2>5, <2>7, <3>1, <3>2 DEF Connection
    <3>3. CASE ~Hidden
      <4>1. row' = row /\ status # "banned"
        BY <2>7, <3>3 DEF Connection, Hidden
      <4> QED BY <3>3, <4>1 DEF SocketsFollow, Hidden
    <3> QED BY <3>2, <3>3
  <2>8. CASE Join(p)
    <3>1. ~Hidden /\ row' = row
      BY <1>0, <2>8 DEF Join, SocketsFollow
    <3> QED BY <3>1 DEF SocketsFollow, Hidden
  <2>9. CASE SavePassword(p)
    BY <1>0, <2>9 DEF SavePassword, GoTo, SocketsFollow, Hidden, Expelling
  <2>10. CASE Mark(p)
    <3>1. Busy(p) /\ pc[p] = "mark" /\ op[p] \in {"ban", "unban", "remove", "close"}
      BY <2>0, <2>10 DEF Mark, PlaceOK, Busy
    <3>2. \A q \in Requests : pc'[q] # "join"
      BY <1>0, <2>1, <2>10, <3>1 DEF Mark, GoTo, Finish, HandlersTyped
    <3>3. CASE op[p] = "ban"
      <4>1. Expelling(p)'
        BY <1>0, <2>10, <3>3 DEF Mark, GoTo, Expelling, HandlersTyped
      <4> QED BY <3>2, <4>1 DEF SocketsFollow
    <3>4. CASE op[p] # "ban"
      <4>1. status' = "active" \/ deleted' = TRUE
        BY <2>10, <3>1, <3>4 DEF Mark
      <4> QED BY <3>2, <4>1 DEF SocketsFollow
    <3> QED BY <3>3, <3>4
  <2>11. CASE Members(p)
    BY <1>0, <2>11 DEF Members, SocketsFollow, Hidden, Expelling
  <2>12. CASE Wipe(p)
    <3>1. CASE op[p] = "ban"
      <4>1. Expelling(p)'
        BY <1>0, <2>12, <3>1 DEF Wipe, GoTo, Expelling, HandlersTyped
      <4> QED BY <1>0, <2>12, <3>1, <4>1, CalmStep DEF Wipe, Labels
    <3>2. CASE op[p] # "ban"
      BY <1>0, <2>12, <3>2, CalmStep DEF Wipe, Expelling, Labels
    <3> QED BY <3>1, <3>2
  <2>13. CASE Kick(p)
    <3>1. /\ \A q \in Requests : pc'[q] = "join" => pc[q] = "join"
          /\ \A k \in Sockets : sock'[k] # "room"
      BY <1>0, <2>13 DEF Kick, Finish, TypeOK, SockTyped
    <3> QED BY <1>0, <2>13, <3>1 DEF Kick, SocketsFollow, Hidden
  <2> QED BY <1>2, <2>2, <2>3, <2>4, <2>6, <2>7, <2>8, <2>9, <2>10, <2>11, <2>12, <2>13 DEF Continue
<1>3. CASE Forgot \/ CacheExpires \/ UNCHANGED vars
  BY <1>0, <1>3 DEF Forgot, CacheExpires, SocketsFollow, Hidden, Expelling
<1> QED BY <1>1, <1>2, <1>3 DEF Next

LEMMA Step == IInv /\ [Next]_vars => IInv'
<1> SUFFICES ASSUME IInv, [Next]_vars PROVE IInv'
  OBVIOUS
<1>1. TypeOK' /\ PlacesOK' /\ BoundsOK' /\ OneWriter' /\ Handshaken'
  BY TypedStep, PlacedStep, BoundedStep, OneWriterStep, HandshakeStep DEF IInv
<1>2. CASE Overlap
  BY <1>1, <1>2, Overlap' = Overlap DEF IInv, ReadsHold, SessionsFollow, SocketsFollow
<1>3. CASE ~Overlap
  BY <1>1, <1>3, FollowStep, ExpelStep DEF IInv
<1> QED BY <1>2, <1>3

LEMMA Invariance == Spec => []IInv
<1> QED BY InitOK, Step, PTL DEF Spec

(* Every run keeps the types, and with them the bounds of the handlers'     *)
(* locals (the whole module).                                               *)
THEOREM TypeCorrect == Spec => []TypeOK
<1>1. IInv => TypeOK
  BY DEF IInv
<1> QED BY <1>1, Invariance, PTL

(* If writers come one at a time, every session is in the set that the      *)
(* revoking operations work from, for any number of requests and sessions   *)
(* (createSession, refreshSession, deleteSession, deleteAllSessions).       *)
THEOREM SessionsAreListed == ASSUME ~Overlap PROVE Spec => []AllListed
<1>1. IInv => AllListed
  BY DEF IInv, SessionsFollow
<1> QED BY <1>1, Invariance, PTL

(* Then a banned, deleted or closed account has no session once nobody is   *)
(* at work on it (banAccount, adminDelete, closeAccount).                   *)
THEOREM HiddenIsShutOut == ASSUME ~Overlap PROVE Spec => []ShutOut
<1>1. IInv => ShutOut
  BY SettledIsQuiet DEF IInv, SessionsFollow, ShutOut
<1> QED BY <1>1, Invariance, PTL

(* Then no session that was signed in with an earlier password outlives its *)
(* reset (resetPassword).                                                   *)
THEOREM ResetRevokesAll == ASSUME ~Overlap PROVE Spec => []ResetRevokes
<1>1. IInv => ResetRevokes
  BY SettledIsQuiet DEF IInv, SessionsFollow, ResetRevokes
<1> QED BY <1>1, Invariance, PTL

(* Then a banned account has no socket once its ban is through, whichever   *)
(* handshakes were under way when it began (kickBanned, handleConnection).  *)
THEOREM BannedIsKicked == ASSUME ~Overlap PROVE Spec => []KickedOut
<1>1. IInv => KickedOut
  <2> SUFFICES ASSUME IInv, Settled, Hidden, ~deleted, NEW k \in Sockets
               PROVE  sock[k] \in {"new", "closed"}
    BY DEF KickedOut
  <2>1. sock[k] \notin {"shaking", "open"}
    BY DEF IInv, Handshaken, Settled, Busy
  <2>2. \A p \in Requests : ~Expelling(p)
    BY DEF Settled, Busy, Expelling
  <2>3. status = "banned"
    BY DEF Hidden
  <2>4. sock[k] # "room"
    BY <2>2, <2>3 DEF IInv, SocketsFollow
  <2> QED BY <2>1, <2>4 DEF IInv, TypeOK, SockTyped
<1> QED BY <1>1, Invariance, PTL

(* Where a handler is past the check that it will act on. *)
Passed == {"grant", "refresh", "fill", "join"}

(* A hidden account that nothing lets in: no session, no cached viewer, and  *)
(* no handler that has already passed the check it will act on.              *)
Shut ==
    /\ Hidden /\ ~authz /\ sess = {}
    /\ \A p \in Requests : pc[p] \notin Passed

(* The next access of a handler does not bring it past such a check. *)
LEMMA ShutStep ==
    ASSUME HandlersTyped, Shut, Hidden', [Next]_vars
    PROVE  Shut'
<1> USE DEF Shut, HandlersTyped, Passed
<1>1. ASSUME NEW p \in Requests, NEW l, GoTo(p, l), l \notin Passed
      PROVE  \A q \in Requests : pc'[q] \notin Passed
  BY <1>1 DEF GoTo
<1>2. ASSUME NEW p \in Requests, Finish(p)
      PROVE  \A q \in Requests : pc'[q] \notin Passed
  BY <1>2 DEF Finish
<1>3. ASSUME NEW p \in Requests, Arrive(p) PROVE Shut'
  <2>1. ASSUME NEW o, NEW l, NEW n, Begin(p, o, l, 0, n), l \notin Passed
        PROVE  \A q \in Requests : pc'[q] \notin Passed
    BY <2>1 DEF Begin
  <2>2. ~Login(p) /\ \A o \in Guarded, i \in Sessions, n \in 0..(MaxSessions + MaxSockets) : ~Request(p, o, i, n)
    BY DEF Login, Request
  <2> QED BY <1>3, <2>1, <2>2 DEF Arrive, Reset, Ban, Unban, Remove, ConfirmDelete, keys
<1>4. ASSUME NEW p \in Requests, Continue(p) PROVE Shut'
  <2>1. ~Grant(p) /\ ~Refresh(p) /\ ~Fill(p) /\ ~Join(p)
    BY DEF Grant, Refresh, Fill, Join
  <2>2. CASE SavePassword(p) \/ Spend(p) \/ Authz(p) \/ Find(p) \/ Read(p) \/ Me(p)
    BY <1>1, <1>2, <2>2 DEF SavePassword, Spend, Authz, Find, Read, Me, keys
  <2>3. CASE Logout(p) \/ Revoke(p) \/ RevokeDelete(p) \/ LogoutAll(p) \/ RequestDelete(p)
    BY <1>1, <1>2, <2>3 DEF Logout, Revoke, RevokeDelete, DeleteSession, LogoutAll, RequestDelete, keys
  <2>4. CASE Connection(p) \/ Forget(p) \/ Mark(p) \/ Kick(p)
    BY <1>1, <1>2, <2>4 DEF Connection, Forget, Mark, Kick, keys
  <2>5. CASE Members(p)
    BY <2>5 DEF Members, row, keys
  <2>6. CASE Wipe(p)
    BY <1>1, <1>2, <2>6 DEF Wipe
  <2> QED BY <1>4, <2>1, <2>2, <2>3, <2>4, <2>5, <2>6 DEF Continue
<1>5. CASE Forgot \/ CacheExpires \/ UNCHANGED vars
  BY <1>5 DEF Forgot, CacheExpires, vars, row, keys, request
<1> HIDE DEF Shut
<1> QED BY <1>3, <1>4, <1>5 DEF Next

(* No handshake reaches the user's room then. *)
LEMMA NobodyEnters ==
    ASSUME HandlersTyped, SockTyped, Shut, [Next]_vars
    PROVE  \A k \in Sockets : sock'[k] = "room" => sock[k] = "room"
<1> USE DEF HandlersTyped, SockTyped
<1>1. ASSUME NEW p \in Requests, Arrive(p)
      PROVE  \A k \in Sockets : sock'[k] = "room" => sock[k] = "room"
  <2>1. ASSUME NEW o \in Guarded, NEW i \in Sessions, NEW n \in 0..(MaxSessions + MaxSockets), Request(p, o, i, n)
        PROVE  \A k \in Sockets : sock'[k] = "room" => sock[k] = "room"
    BY <2>1 DEF Request
  <2> QED BY <1>1, <2>1 DEF Arrive, Login, Reset, Ban, Unban, Remove, ConfirmDelete
<1>2. ASSUME NEW p \in Requests, Continue(p)
      PROVE  \A k \in Sockets : sock'[k] = "room" => sock[k] = "room"
  <2>1. ~Join(p)
    BY DEF Join, Shut, Passed
  <2>2. CASE Connection(p) \/ Kick(p) \/ Find(p)
    BY <2>2 DEF Connection, Kick, Find
  <2>3. ~Connection(p) /\ ~Kick(p) /\ ~Find(p) => UNCHANGED sock
    BY <1>2, <2>1 DEF Continue, Grant, SavePassword, Spend, Authz, Fill, Read, Me, Refresh, Logout, Revoke,
       RevokeDelete, DeleteSession, LogoutAll, RequestDelete, Forget, Mark, Members, Wipe
  <2> QED BY <2>2, <2>3
<1>3. CASE Forgot \/ CacheExpires \/ UNCHANGED vars
  BY <1>3 DEF Forgot, CacheExpires, vars
<1> QED BY <1>1, <1>2, <1>3 DEF Next

(* Whatever overlaps: once a hidden account has no session and no cached     *)
(* viewer, and no login, request or handshake is past its check, none lets   *)
(* the owner in again until the ban is lifted (assertAllowed, getAuthViewer, *)
(* refreshSession, handleConnection).                                        *)
THEOREM StaysShut ==
    Spec => [][Shut /\ Hidden' => Shut' /\ \A k \in Sockets : sock'[k] = "room" => sock[k] = "room"]_vars
<1> DEFINE A == Shut /\ Hidden' => Shut' /\ \A k \in Sockets : sock'[k] = "room" => sock[k] = "room"
<1>1. TypeOK /\ [Next]_vars => [A]_vars
  BY ShutStep, NobodyEnters DEF TypeOK
<1> HIDE DEF A
<1>2. Spec => [][A]_vars
  BY <1>1, TypeCorrect, PTL DEF Spec
<1> QED BY <1>2 DEF A
=============================================================================
