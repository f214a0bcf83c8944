--------------------------- MODULE PresenceProofs ---------------------------
(***************************************************************************)
(* Proofs about Presence, for any number of sockets, heartbeats and        *)
(* restarts: what the Redis counter is worth, and when a disconnect timer  *)
(* may be believed.                                                        *)
(***************************************************************************)
EXTENDS Presence, FiniteSetTheorems, TLAPS

(* What is counted is a finite set, so its cardinality is a number. *)
LEMMA CountedIsFinite ==
    ASSUME TypeOK
    PROVE  /\ IsFiniteSet(counted)
           /\ Cardinality(counted) \in Nat
           /\ Cardinality(counted) = 0 <=> counted = {}
<1>1. IsFiniteSet(Sockets)
  BY PresenceAssumption, FS_Interval DEF Sockets
<1>2. IsFiniteSet(counted)
  BY <1>1, FS_Subset DEF TypeOK
<1> QED BY <1>2, FS_CardinalityType, FS_EmptySet

(* A connect adds one to the set, a drop takes one from it. *)
LEMMA CountingSteps ==
    ASSUME TypeOK, NEW s \in Sockets
    PROVE  /\ s \notin counted => Cardinality(counted \cup {s}) = Cardinality(counted) + 1
           /\ s \in counted => Cardinality(counted \ {s}) = Cardinality(counted) - 1
           /\ IsFiniteSet(counted \ {s})
           /\ Cardinality(counted \ {s}) \in Nat
           /\ Cardinality(counted \ {s}) = 0 <=> counted \ {s} = {}
  BY CountedIsFinite, FS_AddElement, FS_RemoveElement, FS_CardinalityType, FS_EmptySet

(* The counter, its auxiliaries and the sockets, before the first connect. *)
LEMMA InitOK == Init => IInv
<1> SUFFICES ASSUME Init PROVE IInv
  OBVIOUS
<1>1. TypeOK
  <2>1. count \in Int /\ beats \in 0..MaxBeats /\ crashes \in 0..MaxCrashes
    BY PresenceAssumption DEF Init
  <2>2. live \in BOOLEAN /\ incall \in BOOLEAN /\ raced \in BOOLEAN
    BY DEF Init
  <2> QED BY <2>1, <2>2 DEF Init, TypeOK, Quiet, None
<1>2. CountedAreBacked
  BY DEF Init, CountedAreBacked, Open
<1>3. Cardinality(counted) = 0
  BY FS_EmptySet DEF Init
<1>4. NeverOvercounts /\ CountIsExact /\ DelIsHarmless
  BY <1>3 DEF Init, NeverOvercounts, CountIsExact, DelIsHarmless
<1>5. LeaverIsAwaited
  BY DEF Init, LeaverIsAwaited
<1> QED BY <1>1, <1>2, <1>4, <1>5 DEF IInv, CounterSound

(* Every step keeps the types. *)
LEMMA TypedStep ==
    ASSUME TypeOK, [Next]_vars
    PROVE  TypeOK'
<1> USE PresenceAssumption DEF TypeOK, vars, timers, bounds, Sockets, None, Quiet
<1>1. ASSUME NEW s \in Sockets, Connect(s) PROVE TypeOK'
  BY <1>1 DEF Connect
<1>2. ASSUME NEW s \in Sockets, Disconnect(s) PROVE TypeOK'
  BY <1>2 DEF Disconnect, Drop
<1>3. ASSUME NEW s \in Sockets, Continue(s) PROVE TypeOK'
  <2>1. CASE Admit(s)
    BY <2>1 DEF Admit
  <2>2. CASE Refuse(s)
    <3>1. CASE Drop(s)
      BY <2>2, <3>1 DEF Refuse, Drop
    <3>2. CASE ~Drop(s)
      BY <2>2, <3>2 DEF Refuse
    <3> QED BY <3>1, <3>2
  <2>3. CASE DropDel(s)
    BY <2>3 DEF DropDel
  <2>4. CASE Arm(s)
    BY <2>4 DEF Arm
  <2>5. CASE LookOffline(s)
    BY <2>5 DEF LookOffline
  <2>6. CASE GoOffline(s)
    BY <2>6 DEF GoOffline
  <2>7. CASE LookHangup(s)
    BY <2>7 DEF LookHangup
  <2>8. CASE HangupAll(s)
    BY <2>8 DEF HangupAll
  <2> QED BY <1>3, <2>1, <2>2, <2>3, <2>4, <2>5, <2>6, <2>7, <2>8 DEF Continue
<1>4. CASE SetPresence
  BY <1>4 DEF SetPresence
<1>5. CASE Expire
  BY <1>5 DEF Expire
<1>6. CASE Seat
  BY <1>6 DEF Seat
<1>7. CASE Crash
  BY <1>7 DEF Crash
<1>8. CASE UNCHANGED vars
  BY <1>8
<1> QED BY <1>1, <1>2, <1>3, <1>4, <1>5, <1>6, <1>7, <1>8 DEF Next

(* What the counter promises survives a step that leaves it, the sockets    *)
(* and the drops in flight alone.                                           *)
LEMMA CounterUntouched ==
    ASSUME IInv, TypeOK',
           UNCHANGED <<sock, count, counted, raced>>,
           \A t \in Sockets : disc'[t] = "del" => disc[t] = "del"
    PROVE  CounterSound'
  BY DEF IInv, CounterSound, Open, CountedAreBacked, NeverOvercounts, CountIsExact, DelIsHarmless

(* A socket that closes was counted, so the counter stays what it promises. *)
LEMMA DropKeeps ==
    ASSUME IInv, TypeOK', NEW s \in Sockets, Drop(s), raced' = raced
    PROVE  CounterSound'
<1> DEFINE n == Cardinality(counted)
<1>1. s \in counted /\ counted' = counted \ {s} /\ count' = count - 1
  BY DEF IInv, CounterSound, CountedAreBacked, Open, Drop
<1>2. n \in Nat /\ Cardinality(counted') = n - 1 /\ count \in Int
  BY <1>1, CountedIsFinite, CountingSteps DEF IInv, CounterSound, TypeOK
<1>3. CountedAreBacked'
  BY DEF IInv, CounterSound, TypeOK, CountedAreBacked, Open, Drop
<1>4. NeverOvercounts' /\ CountIsExact'
  BY <1>1, <1>2 DEF IInv, CounterSound, NeverOvercounts, CountIsExact
<1>5. DelIsHarmless'
  <2>1. SUFFICES ASSUME ~raced, NEW t \in Sockets, disc'[t] = "del"
                 PROVE  counted' = {}
    BY DEF DelIsHarmless
  <2>2. disc[t] # "del"
    BY <1>1, <2>1 DEF IInv, CounterSound, DelIsHarmless
  <2>3. count' <= 0
    BY <2>1, <2>2 DEF Drop, IInv, CounterSound, TypeOK
  <2>4. Cardinality(counted') = 0
    BY <1>1, <1>2, <2>1, <2>3, CountingSteps DEF IInv, CounterSound, CountIsExact
  <2> QED BY <1>1, <2>4, CountingSteps DEF IInv, CounterSound
<1> QED BY <1>3, <1>4, <1>5 DEF CounterSound

(* A connect counts a socket that was not counted; from then on the counter *)
(* is exact only if no drop was between its two commands.                   *)
LEMMA ConnectKeeps ==
    ASSUME IInv, TypeOK', NEW s \in Sockets, Connect(s)
    PROVE  CounterSound'
<1> DEFINE n == Cardinality(counted)
<1>1. s \notin counted /\ counted' = counted \cup {s} /\ count' = count + 1
  BY DEF IInv, CounterSound, CountedAreBacked, Connect
<1>2. n \in Nat /\ Cardinality(counted') = n + 1 /\ count \in Int
  BY <1>1, CountedIsFinite, CountingSteps DEF IInv, CounterSound, TypeOK
<1>3. CountedAreBacked'
  BY DEF IInv, CounterSound, TypeOK, CountedAreBacked, Open, Connect
<1>4. NeverOvercounts' /\ CountIsExact'
  <2>1. ~raced' => ~raced
    BY DEF Connect
  <2> QED BY <1>1, <1>2, <2>1 DEF IInv, CounterSound, NeverOvercounts, CountIsExact
<1>5. DelIsHarmless'
  BY DEF DelIsHarmless, Connect
<1> QED BY <1>3, <1>4, <1>5 DEF CounterSound

(* The DEL finds the counter at or below zero, and nothing counted unless   *)
(* a connect came in between.                                               *)
LEMMA DelKeeps ==
    ASSUME IInv, TypeOK', NEW s \in Sockets, DropDel(s)
    PROVE  CounterSound'
<1>1. Cardinality(counted) \in Nat /\ (counted = {} => Cardinality(counted) = 0)
  BY CountedIsFinite DEF IInv, CounterSound
<1>2. NeverOvercounts' /\ CountIsExact'
  BY <1>1 DEF IInv, CounterSound, NeverOvercounts, CountIsExact, DelIsHarmless, DropDel
<1>3. CountedAreBacked' /\ DelIsHarmless'
  BY DEF IInv, CounterSound, TypeOK, CountedAreBacked, Open, DelIsHarmless, DropDel
<1> QED BY <1>2, <1>3 DEF CounterSound

(* The counter stays sound. *)
LEMMA CounterStep ==
    ASSUME IInv, [Next]_vars
    PROVE  CounterSound'
<1> TypeOK'
  BY TypedStep DEF IInv, CounterSound
<1> USE DEF vars, timers, bounds
<1>1. ASSUME NEW s \in Sockets, Connect(s) PROVE CounterSound'
  BY <1>1, ConnectKeeps
<1>2. ASSUME NEW s \in Sockets, Disconnect(s) PROVE CounterSound'
  BY <1>2, DropKeeps DEF Disconnect
<1>3. ASSUME NEW s \in Sockets, Continue(s) PROVE CounterSound'
  <2>1. CASE Admit(s)
    BY <2>1, CounterUntouched DEF Admit
  <2>2. CASE Refuse(s)
    <3>1. CASE Drop(s)
      BY <2>2, <3>1, DropKeeps DEF Refuse
    <3>2. CASE ~Drop(s)
      BY <2>2, <3>2, CounterUntouched DEF Refuse
    <3> QED BY <3>1, <3>2
  <2>3. CASE DropDel(s)
    BY <2>3, DelKeeps
  <2>4. CASE Arm(s)
    <3>1. \A t \in Sockets : disc'[t] = "del" => disc[t] = "del"
      BY <2>4 DEF Arm, IInv, CounterSound, TypeOK
    <3> QED BY <2>4, <3>1, CounterUntouched DEF Arm
  <2>5. CASE LookOffline(s)
    BY <2>5, CounterUntouched DEF LookOffline
  <2>6. CASE GoOffline(s)
    BY <2>6, CounterUntouched DEF GoOffline
  <2>7. CASE LookHangup(s)
    BY <2>7, CounterUntouched DEF LookHangup
  <2>8. CASE HangupAll(s)
    BY <2>8, CounterUntouched DEF HangupAll
  <2> QED BY <1>3, <2>1, <2>2, <2>3, <2>4, <2>5, <2>6, <2>7, <2>8 DEF Continue
<1>4. CASE SetPresence \/ Expire \/ Seat \/ UNCHANGED vars
  BY <1>4, CounterUntouched DEF SetPresence, Expire, Seat
<1>5. CASE Crash
  BY <1>5 DEF Crash, Quiet, IInv, CounterSound, TypeOK, CountedAreBacked, Open, NeverOvercounts, CountIsExact,
     DelIsHarmless
<1> QED BY <1>1, <1>2, <1>3, <1>4, <1>5 DEF Next

(* Whoever is gone from a call stays awaited: the last socket to close arms  *)
(* a timer, and the counter, of which a user without sockets has none left   *)
(* before the first restart, cannot make the timer spare them.               *)
LEMMA AwaitedStep ==
    ASSUME IInv, [Next]_vars
    PROVE  LeaverIsAwaited'
<1> USE DEF vars, timers, bounds, IInv, TypeOK, LeaverIsAwaited, Gone, Open
<1>1. crashes = 0 /\ Gone => count <= 0
  BY CountedIsFinite DEF CounterSound, CountedAreBacked, NeverOvercounts
<1>2. ASSUME NEW s \in Sockets, Connect(s) PROVE LeaverIsAwaited'
  BY <1>2 DEF Connect
<1>3. ASSUME NEW s \in Sockets, Drop(s), UNCHANGED <<incall, crashes>> PROVE LeaverIsAwaited'
  BY <1>3 DEF Drop
<1>4. ASSUME UNCHANGED <<sock, hang, crashes>>, incall' => incall \/ ~Gone PROVE LeaverIsAwaited'
  BY <1>4
<1>5. ASSUME NEW s \in Sockets, Refuse(s) PROVE LeaverIsAwaited'
  BY <1>3, <1>4, <1>5 DEF Refuse
<1>6. ASSUME NEW s \in Sockets, LookHangup(s) PROVE LeaverIsAwaited'
  BY <1>1, <1>6 DEF LookHangup
<1>7. ASSUME NEW s \in Sockets, HangupAll(s) PROVE LeaverIsAwaited'
  BY <1>7 DEF HangupAll
<1>8. ASSUME NEW s \in Sockets,
             Admit(s) \/ DropDel(s) \/ Arm(s) \/ LookOffline(s) \/ GoOffline(s)
      PROVE  LeaverIsAwaited'
  BY <1>4, <1>8 DEF Admit, DropDel, Arm, LookOffline, GoOffline
<1>9. CASE SetPresence \/ Expire \/ Seat \/ UNCHANGED vars
  BY <1>4, <1>9 DEF SetPresence, Expire, Seat
<1>10. CASE Crash
  BY <1>10, PresenceAssumption DEF Crash
<1> HIDE DEF LeaverIsAwaited
<1> QED BY <1>2, <1>3, <1>5, <1>6, <1>7, <1>8, <1>9, <1>10 DEF Next, Continue, Disconnect

(* IInv is inductive. *)
LEMMA Step == IInv /\ [Next]_vars => IInv'
  BY TypedStep, CounterStep, AwaitedStep DEF IInv

(* The inductive invariant holds, and with it the types. *)
LEMMA Invariance == Spec => []IInv
  BY InitOK, Step, PTL DEF Spec

(* The variables keep their types, and the timer that `offline' remembers   *)
(* is one that is armed.                                                    *)
THEOREM TypeCorrect == Spec => []TypeOK
<1>1. IInv => TypeOK
  BY DEF IInv
<1> QED BY <1>1, Invariance, PTL

(* However connects, drops and their deletes interleave, over any number of *)
(* sockets and restarts, socks:{user} never exceeds the sockets counted and *)
(* not dropped.                                                             *)
THEOREM CounterNeverOvercounts == Spec => []NeverOvercounts
<1>1. IInv => NeverOvercounts
  BY DEF IInv, CounterSound
<1> QED BY <1>1, Invariance, PTL

(* The only thing that makes the counter wrong is a connect between the two *)
(* commands of a drop.                                                      *)
THEOREM CounterIsExact == Spec => []CountIsExact
<1>1. IInv => CountIsExact
  BY DEF IInv, CounterSound
<1> QED BY <1>1, Invariance, PTL

(* A step in which a disconnect timer finds the user gone is right, unless  *)
(* such a connect happened before.                                          *)
LEMMA JudgedRight ==
    ASSUME IInv, [Next]_vars
    PROVE  [\A s \in Sockets : Judged(s) /\ ~raced => Gone]_vars
<1> SUFFICES ASSUME NEW s \in Sockets, Judged(s), ~raced, Next PROVE Gone
  BY DEF vars, timers, Judged
<1>1. count <= 0
  <2>1. ASSUME NEW t \in Sockets, LookHangup(t) PROVE count <= 0
    BY <2>1 DEF LookHangup, Judged, IInv, TypeOK
  <2>2. ASSUME NEW t \in Sockets, LookOffline(t) PROVE count <= 0
    BY <2>2 DEF LookOffline, Judged, IInv, TypeOK
  <2>3. ASSUME NEW t \in Sockets,
               \/ Connect(t) \/ Disconnect(t) \/ Admit(t) \/ Refuse(t) \/ DropDel(t)
               \/ Arm(t) \/ GoOffline(t) \/ HangupAll(t)
        PROVE  FALSE
    BY <2>3 DEF Judged, IInv, TypeOK, timers, Connect, Disconnect, Drop, Admit, Refuse, DropDel, Arm,
       GoOffline, HangupAll
  <2>4. CASE SetPresence \/ Expire \/ Seat \/ Crash
    BY <2>4 DEF Judged, IInv, TypeOK, timers, SetPresence, Expire, Seat, Crash, Quiet
  <2> QED BY <2>1, <2>2, <2>3, <2>4 DEF Next, Continue
<1>2. counted = {}
  BY <1>1, CountedIsFinite DEF IInv, CounterSound, TypeOK, CountIsExact
<1> QED BY <1>2 DEF Gone, IInv, CounterSound, CountedAreBacked

(* Until a connect comes between the two commands of a drop, no disconnect  *)
(* timer takes a user with an open socket for gone.                         *)
THEOREM TimersAreRight == Spec => NotTakenForGone
  BY Invariance, JudgedRight, PTL DEF Spec, NotTakenForGone

(* Who leaves a call by losing the last socket, and does not come back, is  *)
(* in the hands of a disconnect timer until they are hung up, even where    *)
(* the counter is wrong: as long as the process lives.                      *)
THEOREM LeaverNotForgotten ==
    Spec => [](incall /\ Gone /\ crashes = 0 => \E s \in Sockets : hang[s] # "idle")
<1>1. IInv => (incall /\ Gone /\ crashes = 0 => \E s \in Sockets : hang[s] # "idle")
  BY DEF IInv, LeaverIsAwaited
<1> QED BY <1>1, Invariance, PTL

(* A timer that spares its user found the counter above zero, so a socket.  *)
LEMMA SparedHasSocket ==
    ASSUME IInv, [Next]_vars, NEW s \in Sockets, hang[s] = "armed", hang'[s] = "idle"
    PROVE  ~Gone \/ crashes' > 0
<1> USE PresenceAssumption DEF IInv, TypeOK, LeaverIsAwaited, vars, timers, bounds
<1>1. crashes = 0 /\ Gone => count <= 0
  BY CountedIsFinite DEF CounterSound, CountedAreBacked, NeverOvercounts, Gone, Open
<1>2. ASSUME NEW t \in Sockets, LookHangup(t) PROVE crashes' = crashes /\ count > 0
  BY <1>2 DEF LookHangup
<1>3. ASSUME NEW t \in Sockets,
             \/ Connect(t) \/ Disconnect(t) \/ Admit(t) \/ Refuse(t) \/ DropDel(t)
             \/ Arm(t) \/ LookOffline(t) \/ GoOffline(t) \/ HangupAll(t)
      PROVE  FALSE
  BY <1>3 DEF Connect, Disconnect, Drop, Admit, Refuse, DropDel, Arm, LookOffline, GoOffline, HangupAll
<1>4. CASE SetPresence \/ Expire \/ Seat \/ UNCHANGED vars
  BY <1>4 DEF SetPresence, Expire, Seat
<1>5. CASE Crash
  BY <1>5 DEF Crash
<1> QED BY <1>1, <1>2, <1>3, <1>4, <1>5 DEF Next, Continue

(* ... and that timer decides to hang up, whatever the counter says.        *)
THEOREM LeaverNotSpared ==
    Spec => [][\A s \in Sockets : hang[s] = "armed" /\ hang'[s] = "idle" => ~Gone \/ crashes' > 0]_vars
<1> DEFINE A == \A s \in Sockets : hang[s] = "armed" /\ hang'[s] = "idle" => ~Gone \/ crashes' > 0
<1>1. IInv /\ [Next]_vars => [A]_vars
  BY SparedHasSocket
<1> QED BY <1>1, Invariance, PTL DEF Spec
=============================================================================
