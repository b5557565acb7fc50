-------------------------- MODULE LoginClientProofs --------------------------
(***************************************************************************)
(* Theorems about LoginClient for any tabs, requests and thresholds: its   *)
(* types, that no open tab leaves the login lock behind, and that a storm  *)
(* of failures opens the circuit.  The lock is removed by a test and a     *)
(* call apart, and may be lost to another tab at any step; what is         *)
(* inductive is that whoever it names is on the way to giving it back.     *)
(* Then theorems about AnomalyGuard, which watches these logins and the    *)
(* answers 401 that lead to them: its types, and that it alarms exactly    *)
(* of storms and loops.                                                    *)
(***************************************************************************)
EXTENDS LoginClient, AnomalyGuard, FiniteSetTheorems, SequenceTheorems, TLAPS

USE LoginAssumption

Locks == [id: Tabs \cup {Nobody, Orphan}, live: BOOLEAN]

Logins == [pc: Phases, tries: 0..Patience, held: BOOLEAN, base: 0..MaxCount, ok: BOOLEAN]

RequestRecords ==
  [pc: {"idle", "start", "before", "sent", "clear", "ensure", "after"}, retry: BOOLEAN,
   tab: Tabs \cup {Nobody}]

\* A login that has written the lock, or holds it and will come to its release.
Holding(l) ==
  \/ l.pc = "reread"
  \/ l.held /\ l.pc \notin {"none", "circuit", "look", "write"}

LockHeld == lock.id \in Tabs => Holding(login[lock.id])

\* A try that failed may be counted.
TriesLeft == \A t \in Tabs : login[t].pc \in {"write", "reread"} => login[t].tries < Patience

IInv == TypeOK /\ LockHeld /\ TriesLeft

-----------------------------------------------------------------------------
\* A login that has not begun, or has just begun, holds nothing.
LEMMA FreshType ==
  ASSUME NEW pc \in {"none", "circuit"}
  PROVE  Fresh(pc) \in Logins /\ Fresh(pc).pc = pc /\ ~Holding(Fresh(pc))
BY DEF Fresh, Logins, Phases, Holding

LEMMA IdleType == Idle \in RequestRecords
BY DEF Idle, RequestRecords

\* A request may take any step that keeps its tab.
LEMMA RequestType ==
  ASSUME TypeOK, NEW q \in Requests, NEW from, NEW to \in {"idle", "start", "before", "sent",
                                                  "clear", "ensure", "after"},
         Request(q, from, to)
  PROVE  requests' \in [Requests -> RequestRecords]
BY DEF TypeOK, Request, RequestRecords

\* Settling a login moves the requests that wait for it (authService.ts 210-215).
LEMMA SettleType ==
  ASSUME TypeOK, NEW t \in Tabs, NEW ok, Settle(t, ok)
  PROVE  /\ requests' \in [Requests -> RequestRecords]
         /\ login' = [login EXCEPT ![t] = NoLogin]
<1> SUFFICES ASSUME NEW q \in Requests PROVE requests'[q] \in RequestRecords
  BY DEF Settle
<1>1. requests[q] \in RequestRecords
  BY DEF TypeOK, RequestRecords
<1>2. \/ requests'[q] = requests[q]
      \/ requests'[q] = [requests[q] EXCEPT !.pc = "sent"]
      \/ requests'[q] = Retried(requests[q])
      \/ requests'[q] = Idle
  BY DEF Settle
<1>3. Retried(requests[q]) \in RequestRecords
  BY <1>1 DEF Retried, RequestRecords
<1>4. [requests[q] EXCEPT !.pc = "sent"] \in RequestRecords
  BY <1>1 DEF RequestRecords
<1>5. QED
  BY <1>1, <1>2, <1>3, <1>4, IdleType

\* A login that moves, with a lock that stays, goes, or names it while it holds it.
LEMMA LoginMoves ==
  ASSUME IInv, NEW t \in Tabs, NEW next \in Logins,
         login' = [login EXCEPT ![t] = next],
         next.pc \in {"write", "reread"} => next.tries < Patience,
         lock' \in Locks, lock'.id \in {lock.id, t, Nobody, Orphan},
         lock'.id = t => Holding(next)
  PROVE  /\ login' \in [Tabs -> Logins]
         /\ LockHeld' /\ TriesLeft'
<1>1. login \in [Tabs -> Logins]
  BY DEF IInv, TypeOK, Logins
<1>2. /\ login' \in [Tabs -> Logins]
      /\ \A u \in Tabs : login'[u] = IF u = t THEN next ELSE login[u]
  BY <1>1
<1>3. TriesLeft'
  BY <1>2 DEF IInv, TriesLeft
<1>4. LockHeld'
  BY <1>2 DEF IInv, LockHeld, Holding
<1>5. QED
  BY <1>2, <1>3, <1>4

LEMMA InitIInv == Init => IInv
<1> SUFFICES ASSUME Init PROVE IInv
  OBVIOUS
<1>0. token \in BOOLEAN /\ storm \in Nat
  BY DEF Init
<1>1. /\ lock \in [id: Tabs \cup {Nobody, Orphan}, live: BOOLEAN]
      /\ fails \in [count: 0..MaxCount, recent: BOOLEAN]
  BY DEF Init
<1>2. /\ login \in [Tabs -> Logins]
      /\ requests \in [Requests -> RequestRecords]
  BY FreshType, IdleType DEF Init, NoLogin
<1>3. lock.id = Nobody /\ \A t \in Tabs : login[t].pc = "none"
  BY FreshType DEF Init, NoLogin
<1>4. QED
  BY <1>0, <1>1, <1>2, <1>3 DEF IInv, TypeOK, LockHeld, TriesLeft, Logins, RequestRecords

\* Joining begins a login where there is none.
LEMMA JoinIInv ==
  ASSUME IInv, NEW t \in Tabs \cup {Nobody}, JoinLogin(t), UNCHANGED lock
  PROVE  login' \in [Tabs -> Logins] /\ LockHeld' /\ TriesLeft'
<1>1. lock \in Locks /\ login \in [Tabs -> Logins]
  BY DEF IInv, TypeOK, Locks, Logins
<1>2. CASE login' = login
  BY <1>1, <1>2 DEF IInv, LockHeld, TriesLeft
<1>3. CASE t \in Tabs /\ login[t].pc = "none"
  <2>1. login' = [login EXCEPT ![t] = Fresh("circuit")]
    BY <1>3, FreshType DEF JoinLogin
  <2>2. lock.id # t
    BY <1>3 DEF IInv, LockHeld, Holding
  <2>3. lock' \in Locks /\ lock'.id = lock.id
    BY <1>1
  <2>4. Fresh("circuit").pc \notin {"write", "reread"}
    BY FreshType
  <2>5. QED
    BY <1>3, <2>1, <2>2, <2>3, <2>4, FreshType, LoginMoves
<1>4. CASE t \notin Tabs
  <2>1. [login EXCEPT ![t] = Fresh("circuit")] = login
    BY <1>1, <1>4
  <2>2. QED
    BY <1>2, <2>1 DEF JoinLogin
<1>5. QED
  BY <1>2, <1>3, <1>4 DEF JoinLogin

-----------------------------------------------------------------------------
(* Requests. *)

LEMMA RequestIInv ==
  ASSUME IInv, NEW q \in Requests, Begin(q) \/ RequestStep(q)
  PROVE  IInv'
<1>1. /\ UNCHANGED <<lock, fails, storm>> /\ token' \in BOOLEAN
      /\ requests' \in [Requests -> RequestRecords]
      /\ login' = login \/ JoinLogin(requests[q].tab)
  <2>1. requests \in [Requests -> RequestRecords] /\ token \in BOOLEAN /\ TypeOK
    BY DEF IInv, TypeOK, RequestRecords
  <2>2. CASE Begin(q)
    <3>1. PICK t \in TabsOf[q] :
            requests' = [requests EXCEPT ![q] = [pc |-> "start", retry |-> TRUE, tab |-> t]]
      BY <2>2 DEF Begin
    <3>2. [pc |-> "start", retry |-> TRUE, tab |-> t] \in RequestRecords
      BY <3>1 DEF RequestRecords
    <3>3. QED
      BY <2>1, <2>2, <3>1, <3>2 DEF Begin, shared
  <2>3. CASE PreEnsure(q)
    BY <2>1, <2>3, RequestType DEF PreEnsure, shared
  <2>4. CASE Answered(q)
    BY <2>1, <2>4, IdleType DEF Answered, shared
  <2>5. CASE Unauthorized(q)
    BY <2>1, <2>5, RequestType DEF Unauthorized, shared
  <2>6. CASE ClearToken(q)
    BY <2>1, <2>6, RequestType DEF ClearToken
  <2>7. CASE EnsureToken(q)
    <3>1. Retried(requests[q]) \in RequestRecords
      BY <2>1 DEF Retried, RequestRecords
    <3>2. QED
      BY <2>1, <2>7, <3>1, RequestType DEF EnsureToken, shared
  <2>8. QED
    BY <2>2, <2>3, <2>4, <2>5, <2>6, <2>7 DEF RequestStep
<1>2. requests[q].tab \in Tabs \cup {Nobody}
  BY DEF IInv, TypeOK
<1>3. login' \in [Tabs -> Logins] /\ LockHeld' /\ TriesLeft'
  <2>1. CASE JoinLogin(requests[q].tab)
    BY <1>1, <1>2, <2>1, JoinIInv
  <2>2. CASE login' = login
    BY <1>1, <2>2 DEF IInv, TypeOK, Logins, LockHeld, TriesLeft
  <2>3. QED
    BY <1>1, <2>1, <2>2
<1>4. TypeOK'
  BY <1>1, <1>3 DEF IInv, TypeOK, Logins, RequestRecords
<1>5. QED
  BY <1>3, <1>4 DEF IInv

-----------------------------------------------------------------------------
(* Logins. *)

\* The phases from the lock on: a login there gives back the lock it holds.
Late == {"recheck", "post", "clear", "count", "bump", "store", "forgive", "release", "remove"}

LateStep(t) ==
  \/ RecheckToken(t) \/ LoginAnswered(t) \/ ClearAfterFailure(t)
  \/ ReadFails(t) \/ BumpFails(t) \/ StoreToken(t) \/ ClearFails(t)

\* From there a login goes on with what it holds.
LEMMA LateIInv ==
  ASSUME IInv, NEW t \in Tabs, LateStep(t)
  PROVE  IInv'
<1>1. /\ login \in [Tabs -> Logins] /\ login[t] \in Logins /\ lock \in Locks
      /\ token \in BOOLEAN /\ fails \in [count: 0..MaxCount, recent: BOOLEAN] /\ storm \in Nat
  BY DEF IInv, TypeOK, Logins, Locks
<1>2. login[t].pc \in Late /\ lock' = lock /\ requests' = requests
  <2>1. CASE RecheckToken(t) \/ LoginAnswered(t)
    BY <2>1 DEF RecheckToken, LoginAnswered, At, Late, shared
  <2>2. CASE ClearAfterFailure(t) \/ ReadFails(t) \/ BumpFails(t)
    BY <2>2 DEF ClearAfterFailure, ReadFails, BumpFails, At, Late, shared
  <2>3. CASE StoreToken(t) \/ ClearFails(t)
    BY <2>3 DEF StoreToken, ClearFails, At, Late
  <2>4. QED
    BY <2>1, <2>2, <2>3 DEF LateStep
<1>3. token' \in BOOLEAN /\ storm' \in Nat
  <2>1. CASE UNCHANGED <<token, storm>>
    BY <1>1, <2>1
  <2>2. CASE ClearAfterFailure(t) \/ StoreToken(t)
    BY <1>1, <2>2 DEF ClearAfterFailure, StoreToken
  <2>3. CASE BumpFails(t) \/ ClearFails(t)
    BY <1>1, <2>3 DEF BumpFails, ClearFails
  <2>4. QED
    BY <2>1, <2>2, <2>3 DEF LateStep, RecheckToken, LoginAnswered, ReadFails, shared
<1>4. fails' \in [count: 0..MaxCount, recent: BOOLEAN]
  <2>1. CASE BumpFails(t)
    <3>1. login[t].base \in 0..MaxCount
      BY <1>1 DEF Logins
    <3>2. (IF login[t].base = MaxCount THEN MaxCount ELSE login[t].base + 1) \in 0..MaxCount
      BY <3>1
    <3>3. QED
      BY <2>1, <3>2 DEF BumpFails
  <2>2. CASE ClearFails(t)
    BY <2>2 DEF ClearFails
  <2>3. CASE UNCHANGED fails
    BY <1>1, <2>3
  <2>4. QED
    BY <2>1, <2>2, <2>3 DEF LateStep, RecheckToken, LoginAnswered, ClearAfterFailure,
                            ReadFails, StoreToken, shared
<1>5. PICK next \in Logins : /\ login' = [login EXCEPT ![t] = next]
                             /\ next.pc \in Late /\ next.held = login[t].held
  <2>1. CASE RecheckToken(t)
    <3>1. PICK next \in {[login[t] EXCEPT !.pc = "release", !.ok = TRUE],
                         [login[t] EXCEPT !.pc = "post"]} :
            login' = [login EXCEPT ![t] = next]
      BY <2>1 DEF RecheckToken
    <3>2. next \in Logins /\ next.pc \in {"release", "post"} /\ next.held = login[t].held
      BY <1>1 DEF Logins, Phases
    <3>3. QED
      BY <3>1, <3>2 DEF Late
  <2>2. CASE LoginAnswered(t) \/ ClearAfterFailure(t) \/ StoreToken(t)
    <3>1. PICK pc \in {"store", "clear", "release", "count", "forgive"} : Goto(t, pc)
      BY <2>2 DEF LoginAnswered, ClearAfterFailure, StoreToken
    <3>2. login' = [login EXCEPT ![t] = [login[t] EXCEPT !.pc = pc]]
      BY <3>1 DEF Goto
    <3>3. [login[t] EXCEPT !.pc = pc] \in Logins
      BY <1>1 DEF Logins, Phases
    <3>4. QED
      BY <1>1, <3>2, <3>3 DEF Logins, Late
  <2>3. CASE ReadFails(t)
    <3>1. PICK base \in {fails.count} \cup (IF fails.recent THEN {} ELSE {0}) :
            login' = [login EXCEPT ![t].pc = "bump", ![t].base = base]
      BY <2>3, Zenon DEF ReadFails
    <3>2. base \in 0..MaxCount
      BY <1>1
    <3> DEFINE next == [login[t] EXCEPT !.pc = "bump", !.base = base]
    <3>3. login' = [login EXCEPT ![t] = next]
      BY <1>1, <3>1
    <3>4. next \in Logins /\ next.pc = "bump" /\ next.held = login[t].held
      BY <1>1, <3>2 DEF Logins, Phases
    <3>5. QED
      BY <3>3, <3>4 DEF Late
  <2>4. CASE BumpFails(t)
    <3> DEFINE next == [login[t] EXCEPT !.pc = "release", !.base = 0]
    <3>1. login' = [login EXCEPT ![t] = next]
      BY <2>4 DEF BumpFails
    <3>2. 0 \in 0..MaxCount
      OBVIOUS
    <3>3. next \in Logins /\ next.pc = "release" /\ next.held = login[t].held
      BY <1>1, <3>2 DEF Logins, Phases
    <3>4. QED
      BY <3>1, <3>3 DEF Late
  <2>5. CASE ClearFails(t)
    <3> DEFINE next == [login[t] EXCEPT !.pc = "release", !.ok = TRUE]
    <3>1. login' = [login EXCEPT ![t] = next]
      BY <2>5 DEF ClearFails
    <3>2. next \in Logins /\ next.pc = "release" /\ next.held = login[t].held
      BY <1>1 DEF Logins, Phases
    <3>3. QED
      BY <3>1, <3>2 DEF Late
  <2>6. QED
    BY <2>1, <2>2, <2>3, <2>4, <2>5 DEF LateStep
<1>6. lock'.id = t => Holding(next)
  BY <1>2, <1>5 DEF IInv, LockHeld, Holding, Late
<1>7. login' \in [Tabs -> Logins] /\ LockHeld' /\ TriesLeft'
  BY <1>1, <1>2, <1>5, <1>6, LoginMoves DEF Late
<1>8. TypeOK'
  BY <1>1, <1>2, <1>3, <1>4, <1>7 DEF IInv, TypeOK, Logins
<1>9. QED
  BY <1>7, <1>8 DEF IInv

\* A login settles without the lock, or removes it.
LEMMA SettleIInv ==
  ASSUME IInv, NEW t \in Tabs, NEW ok, Settle(t, ok), UNCHANGED <<token, fails, storm>>,
         lock' \in Locks, lock'.id # t, lock'.id \in {lock.id, Nobody}
  PROVE  IInv'
<1>1. /\ requests' \in [Requests -> RequestRecords]
      /\ login' = [login EXCEPT ![t] = Fresh("none")]
  BY SettleType DEF IInv, NoLogin
<1>2. Fresh("none") \in Logins /\ Fresh("none").pc = "none"
  BY FreshType
<1>3. login' \in [Tabs -> Logins] /\ LockHeld' /\ TriesLeft'
  BY <1>1, <1>2, LoginMoves
<1>4. QED
  BY <1>1, <1>3 DEF IInv, TypeOK, Logins, RequestRecords, Locks

\* Taking the lock: whoever writes it rereads it, and is not named by it before
\* (acquireLoginLock, authService.ts 38-71).
LEMMA AcquireIInv ==
  ASSUME IInv, NEW t \in Tabs, LookAtLock(t) \/ WriteLock(t) \/ RereadLock(t)
  PROVE  IInv'
<1>1. /\ login \in [Tabs -> Logins] /\ login[t] \in Logins /\ lock \in Locks
      /\ UNCHANGED <<token, fails, requests, storm>>
  BY DEF IInv, TypeOK, Logins, Locks, LookAtLock, WriteLock, RereadLock, shared
<1>2. PICK next \in Logins : /\ login' = [login EXCEPT ![t] = next]
                             /\ next.pc \in {"write", "reread"} => next.tries < Patience
                             /\ lock' \in Locks /\ lock'.id \in {lock.id, t}
                             /\ lock'.id = t => Holding(next)
  <2>1. CASE LookAtLock(t)
    <3>1. lock' = lock /\ lock.id # t
      BY <2>1 DEF LookAtLock, shared, At, IInv, LockHeld, Holding
    <3>2. \/ login[t].tries < Patience /\ Goto(t, "write")
          \/ login[t].tries < Patience /\ login' = [login EXCEPT ![t].tries = @ + 1]
          \/ login' = [login EXCEPT ![t].pc = "recheck", ![t].tries = 0]
      BY <2>1 DEF LookAtLock
    <3>3. CASE login[t].tries < Patience /\ Goto(t, "write")
      <4> DEFINE next == [login[t] EXCEPT !.pc = "write"]
      <4>1. login' = [login EXCEPT ![t] = next]
        BY <3>3 DEF Goto
      <4>2. next \in Logins /\ next.tries = login[t].tries
        BY <1>1 DEF Logins, Phases
      <4>3. QED
        BY <1>1, <3>1, <3>3, <4>1, <4>2
    <3>4. CASE login[t].tries < Patience /\ login' = [login EXCEPT ![t].tries = @ + 1]
      <4> DEFINE next == [login[t] EXCEPT !.tries = login[t].tries + 1]
      <4>1. login' = [login EXCEPT ![t] = next]
        BY <3>4
      <4>2. login[t].tries + 1 \in 0..Patience
        BY <1>1, <3>4 DEF Logins
      <4>3. next \in Logins /\ next.pc = "look"
        BY <1>1, <2>1, <4>2 DEF Logins, Phases, LookAtLock, At
      <4>4. QED
        BY <1>1, <3>1, <4>1, <4>3
    <3>5. CASE login' = [login EXCEPT ![t].pc = "recheck", ![t].tries = 0]
      <4> DEFINE next == [login[t] EXCEPT !.pc = "recheck", !.tries = 0]
      <4>1. login' = [login EXCEPT ![t] = next]
        BY <3>5
      <4>2. 0 \in 0..Patience
        OBVIOUS
      <4>3. next \in Logins /\ next.pc = "recheck"
        BY <1>1, <4>2 DEF Logins, Phases
      <4>4. QED
        BY <1>1, <3>1, <4>1, <4>3
    <3>6. QED
      BY <3>2, <3>3, <3>4, <3>5
  <2>2. CASE WriteLock(t)
    <3> DEFINE next == [login[t] EXCEPT !.pc = "reread"]
    <3>1. login' = [login EXCEPT ![t] = next]
      BY <2>2 DEF WriteLock, Goto
    <3>2. next \in Logins /\ next.pc = "reread" /\ next.tries = login[t].tries
      BY <1>1 DEF Logins, Phases
    <3>3. login[t].tries < Patience
      BY <2>2 DEF WriteLock, At, IInv, TriesLeft
    <3>4. lock' \in Locks /\ lock'.id = t
      BY <2>2 DEF WriteLock, Locks
    <3>5. QED
      BY <3>1, <3>2, <3>3, <3>4 DEF Holding
  <2>3. CASE RereadLock(t)
    <3>1. lock' = lock
      BY <2>3 DEF RereadLock, shared
    <3>2. CASE lock.id = t
      <4> DEFINE next == [login[t] EXCEPT !.pc = "recheck", !.held = TRUE, !.tries = 0]
      <4>1. login' = [login EXCEPT ![t] = next]
        BY <2>3, <3>2 DEF RereadLock
      <4>2. 0 \in 0..Patience
        OBVIOUS
      <4>3. next \in Logins /\ next.pc = "recheck" /\ next.held
        BY <1>1, <4>2 DEF Logins, Phases
      <4>4. QED
        BY <1>1, <3>1, <4>1, <4>3 DEF Holding
    <3>3. CASE lock.id # t
      <4> DEFINE next == [login[t] EXCEPT !.pc = "look", !.tries = login[t].tries + 1]
      <4>1. login' = [login EXCEPT ![t] = next]
        BY <2>3, <3>3 DEF RereadLock
      <4>2. login[t].tries + 1 \in 0..Patience
        BY <1>1, <2>3 DEF Logins, RereadLock, At, IInv, TriesLeft
      <4>3. next \in Logins /\ next.pc = "look"
        BY <1>1, <4>2 DEF Logins, Phases
      <4>4. QED
        BY <1>1, <3>1, <3>3, <4>1, <4>3
    <3>4. QED
      BY <3>2, <3>3
  <2>4. QED
    BY <2>1, <2>2, <2>3
<1>3. login' \in [Tabs -> Logins] /\ LockHeld' /\ TriesLeft'
  BY <1>2, LoginMoves
<1>4. TypeOK'
  BY <1>1, <1>2, <1>3 DEF IInv, TypeOK, Logins, Locks
<1>5. QED
  BY <1>3, <1>4 DEF IInv

\* A login that ends does not leave the lock, if it is still its own.
LEMMA EndIInv ==
  ASSUME IInv, NEW t \in Tabs, CheckCircuit(t) \/ Release(t) \/ RemoveLock(t)
  PROVE  IInv'
<1>1. /\ login \in [Tabs -> Logins] /\ login[t] \in Logins /\ lock \in Locks
      /\ Holding(login[t]) \/ lock.id # t
  BY DEF IInv, TypeOK, Logins, Locks, LockHeld
<1>2. CASE RemoveLock(t)
  <2>1. lock' \in Locks /\ lock'.id = Nobody
    BY <1>2 DEF RemoveLock, Locks
  <2>2. QED
    BY <1>2, <2>1, SettleIInv DEF RemoveLock
<1>3. CASE (CheckCircuit(t) \/ Release(t)) /\ \E ok : Settle(t, ok)
  <2>1. lock.id # t
    <3>1. CASE CheckCircuit(t)
      BY <1>1, <3>1 DEF CheckCircuit, At, Holding
    <3>2. CASE Release(t) /\ lock.id = t
      <4>1. login[t].pc = "release" /\ login[t].held
        BY <1>1, <3>2 DEF Release, At, Holding
      <4>2. Goto(t, "remove")
        BY <3>2, <4>1 DEF Release
      <4>3. login'[t].pc = "remove"
        BY <1>1, <4>2 DEF Goto, Logins
      <4>4. login'[t] = Fresh("none")
        BY <1>1, <1>3 DEF Settle, NoLogin
      <4>5. QED
        BY <4>3, <4>4, FreshType
    <3>3. QED
      BY <1>3, <3>1, <3>2
  <2>2. UNCHANGED <<token, lock, fails, storm>>
    BY <1>3 DEF CheckCircuit, Release, shared
  <2>3. QED
    BY <1>1, <1>3, <2>1, <2>2, SettleIInv
<1>4. CASE \/ CheckCircuit(t) /\ Goto(t, "look") /\ UNCHANGED requests
           \/ Release(t) /\ Goto(t, "remove") /\ UNCHANGED requests
  <2>1. PICK pc \in {"look", "remove"} :
          /\ login' = [login EXCEPT ![t] = [login[t] EXCEPT !.pc = pc]]
          /\ UNCHANGED <<shared, requests, storm>>
          /\ lock.id = t => pc = "remove" /\ login[t].held
    <3>1. CASE CheckCircuit(t) /\ Goto(t, "look") /\ UNCHANGED requests
      BY <1>1, <3>1 DEF CheckCircuit, Goto, At, Holding
    <3>2. CASE Release(t) /\ Goto(t, "remove") /\ UNCHANGED requests
      BY <1>1, <3>2 DEF Release, Goto, At, Holding
    <3>3. QED
      BY <1>4, <3>1, <3>2
  <2> DEFINE next == [login[t] EXCEPT !.pc = pc]
  <2>2. next \in Logins /\ next.pc = pc /\ next.held = login[t].held
    BY <1>1 DEF Logins, Phases
  <2>3. lock' = lock /\ pc \notin {"write", "reread"}
    BY <2>1 DEF shared
  <2>4. lock'.id = t => Holding(next)
    BY <2>1, <2>2, <2>3 DEF Holding
  <2>5. login' \in [Tabs -> Logins] /\ LockHeld' /\ TriesLeft'
    <3> HIDE DEF next
    <3>1. QED
      BY <1>1, <2>1, <2>2, <2>3, <2>4, LoginMoves DEF next
  <2>6. TypeOK'
    BY <2>1, <2>5 DEF IInv, TypeOK, Logins, shared
  <2>7. QED
    BY <2>5, <2>6 DEF IInv
<1>5. QED
  BY <1>2, <1>3, <1>4 DEF CheckCircuit, Release

-----------------------------------------------------------------------------
(* The rest of the world. *)

LEMMA CloseIInv ==
  ASSUME IInv, NEW t \in Tabs, Close(t)
  PROVE  IInv'
<1>1. /\ lock \in Locks /\ requests \in [Requests -> RequestRecords]
      /\ login' = [login EXCEPT ![t] = Fresh("none")]
  BY DEF IInv, TypeOK, Locks, RequestRecords, Close, NoLogin
<1>2. lock' \in Locks /\ lock'.id \in {lock.id, Orphan} /\ lock'.id # t
  BY <1>1 DEF Close, Locks
<1>3. login' \in [Tabs -> Logins] /\ LockHeld' /\ TriesLeft'
  BY <1>1, <1>2, FreshType, LoginMoves
<1>4. requests' \in [Requests -> RequestRecords]
  BY <1>1, IdleType DEF Close
<1>5. TypeOK'
  BY <1>2, <1>3, <1>4 DEF IInv, TypeOK, Close, Logins, Locks, RequestRecords
<1>6. QED
  BY <1>3, <1>5 DEF IInv

LEMMA TimeIInv ==
  ASSUME IInv, LockExpires \/ WindowPasses
  PROVE  IInv'
<1>1. /\ lock' \in [id: Tabs \cup {Nobody, Orphan}, live: BOOLEAN] /\ lock'.id = lock.id
      /\ fails' \in [count: 0..MaxCount, recent: BOOLEAN] /\ storm' \in Nat
      /\ UNCHANGED <<token, login, requests>>
  <2>1. CASE LockExpires
    BY <2>1 DEF IInv, TypeOK, LockExpires
  <2>2. CASE WindowPasses
    BY <2>2 DEF IInv, TypeOK, WindowPasses
  <2>3. QED
    BY <2>1, <2>2
<1>2. QED
  BY <1>1 DEF IInv, TypeOK, LockHeld, TriesLeft

LEMMA NextIInv == IInv /\ [Next]_vars => IInv'
<1> SUFFICES ASSUME IInv, [Next]_vars PROVE IInv'
  OBVIOUS
<1>1. CASE \E q \in Requests : Begin(q) \/ RequestStep(q)
  BY <1>1, RequestIInv
<1>2. CASE \E t \in Tabs : LoginStep(t)
  BY <1>2, LateIInv, AcquireIInv, EndIInv DEF LoginStep, LateStep
<1>3. CASE \E t \in Tabs : Close(t)
  BY <1>3, CloseIInv
<1>4. CASE LockExpires \/ WindowPasses
  BY <1>4, TimeIInv
<1>5. CASE UNCHANGED vars
  BY <1>5 DEF vars, IInv, TypeOK, LockHeld, TriesLeft
<1>6. QED
  BY <1>1, <1>2, <1>3, <1>4, <1>5 DEF Next

-----------------------------------------------------------------------------
(* The theorems. *)

\* The inductive invariant holds for any tabs and requests.
THEOREM SpecIInv == Spec => []IInv
BY InitIInv, NextIInv, PTL DEF Spec

\* Storage, logins and requests keep their types.
THEOREM SpecTypeOK == Spec => []TypeOK
<1>1. IInv => TypeOK
  BY DEF IInv
<1>2. QED
  BY <1>1, SpecIInv, PTL

\* No open tab leaves the login lock behind (authService.ts 56-62, 205-207).
THEOREM SpecLockNotLeaked == Spec => []LockNotLeaked
<1>1. IInv => LockNotLeaked
  BY DEF IInv, LockHeld, LockNotLeaked, Holding
<1>2. QED
  BY <1>1, SpecIInv, PTL

-----------------------------------------------------------------------------
(* The failure count (authService.ts 77-107).  Each tab can write the count   *)
(* once more after the circuit has opened, one more than what it reads or has *)
(* read: what the two may still add depends on those two counts alone.        *)

\* A sum 2 + 3 + ... + (n + 1).
Tri(n) == (n * (n + 3)) \div 2

\* How far a count is from opening the circuit.
Left(n) == IF n < Threshold THEN Threshold - n ELSE 0

\* A login that has passed the circuit and may yet count its failure.
Armed(l) == l.pc \in {"look", "write", "reread", "recheck", "post", "clear", "count", "bump"}

\* A tab may count once more at least: its login is past the circuit, or may pass it.
Weight(l) == IF Armed(l) \/ fails.count < Threshold THEN 1 ELSE 0

\* The count that it has read or, at present, would read.
Base(l) == IF l.pc = "bump" /\ l.base < fails.count THEN l.base ELSE fails.count

\* The failures to come of two tabs with those weights and counts, at most: the tab with
\* the higher count opens the circuit, the other takes it back to just above its own.
Cost(v, w, x, y) ==
  v + w + Left(IF x < y THEN y + 1 ELSE x + 1) + Tri(Left(IF x < y THEN x + 1 ELSE y + 1))

Ahead(l, m) == Cost(Weight(l), Weight(m), Base(l), Base(m))

StormInv ==
  /\ storm > 0 => fails.recent
  /\ \A t, u \in Tabs :
       t # u /\ Tabs = {t, u} => storm + Ahead(login[t], login[u]) <= Tri(Threshold)

LEMMA TriStep ==
  ASSUME NEW n \in Nat
  PROVE  Tri(n) \in Nat /\ Tri(n + 1) = Tri(n) + n + 2
<1>1. n * (n + 3) \in Nat /\ (n + 1) * (n + 1 + 3) = n * (n + 3) + 2 * (n + 2)
  OBVIOUS
<1>2. \A k \in Nat : k \div 2 \in Nat /\ (k + 2 * (n + 2)) \div 2 = k \div 2 + n + 2
  OBVIOUS
<1>3. QED
  BY <1>1, <1>2 DEF Tri

LEMMA TriMonotone ==
  ASSUME NEW m \in Nat, NEW n \in Nat, m <= n
  PROVE  Tri(m) <= Tri(n)
<1>1. PICK d \in Nat : n = m + d
  <2>1. n - m \in Nat /\ n = m + (n - m)
    OBVIOUS
  <2>2. QED
    BY <2>1
<1>2. d * (d + 3) \in Nat /\ m * d \in Nat
  OBVIOUS
<1>3. n * (n + 3) = m * (m + 3) + d * (d + 3) + 2 * (m * d)
  BY <1>1
<1>4. m * (m + 3) \in Nat /\ n * (n + 3) \in Nat /\ m * (m + 3) <= n * (n + 3)
  BY <1>2, <1>3
<1>5. \A j, k \in Nat : j <= k => j \div 2 <= k \div 2
  OBVIOUS
<1>6. QED
  BY <1>4, <1>5 DEF Tri

LEMMA LeftFacts ==
  ASSUME NEW m \in Nat, NEW n \in Nat
  PROVE  /\ Left(m) \in 0..Threshold
         /\ m <= n => Left(n) <= Left(m) /\ Tri(Left(n)) <= Tri(Left(m))
         /\ Threshold <= n => Left(n) = 0 /\ Tri(Left(n)) = 0
         /\ n < Threshold => Left(n) = Left(n + 1) + 1 /\ Tri(Left(n)) = Tri(Left(n + 1)) + Left(n) + 1
         /\ Tri(Left(m)) \in Nat
<1>1. Left(m) \in 0..Threshold /\ Left(n) \in Nat /\ (m <= n => Left(n) <= Left(m))
  BY DEF Left
<1>2. Threshold <= n => Left(n) = 0
  BY DEF Left
<1>3. Tri(0) = 0
  BY DEF Tri
<1>4. n < Threshold => Left(n + 1) \in Nat /\ Left(n) = Left(n + 1) + 1
  BY DEF Left
<1>5. n < Threshold => Tri(Left(n)) = Tri(Left(n + 1)) + Left(n) + 1
  <2> SUFFICES ASSUME n < Threshold PROVE Tri(Left(n)) = Tri(Left(n + 1)) + Left(n) + 1
    OBVIOUS
  <2> DEFINE k == Left(n + 1)
  <2>1. k \in Nat /\ Left(n) = k + 1
    BY <1>4
  <2>2. Tri(k) \in Nat /\ Tri(k + 1) = Tri(k) + k + 2
    <3> HIDE DEF k
    <3>1. QED
      BY <2>1, TriStep
  <2>3. QED
    BY <2>1, <2>2
<1>6. Tri(Left(m)) \in Nat /\ (m <= n => Tri(Left(n)) <= Tri(Left(m)))
  BY <1>1, TriStep, TriMonotone
<1>7. QED
  BY <1>1, <1>2, <1>3, <1>4, <1>5, <1>6

\* Fewer tabs that may count, or higher counts, leave less to come.
LEMMA CostMonotone ==
  ASSUME NEW v \in Nat, NEW w \in Nat, NEW x \in Nat, NEW y \in Nat,
         NEW v2 \in Nat, NEW w2 \in Nat, NEW x2 \in Nat, NEW y2 \in Nat,
         v2 <= v, w2 <= w, x <= x2, y <= y2
  PROVE  Cost(v2, w2, x2, y2) <= Cost(v, w, x, y)
<1> DEFINE hi == IF x < y THEN y + 1 ELSE x + 1
           lo == IF x < y THEN x + 1 ELSE y + 1
           hi2 == IF x2 < y2 THEN y2 + 1 ELSE x2 + 1
           lo2 == IF x2 < y2 THEN x2 + 1 ELSE y2 + 1
<1>1. hi \in Nat /\ lo \in Nat /\ hi2 \in Nat /\ lo2 \in Nat /\ hi <= hi2 /\ lo <= lo2
  OBVIOUS
<1>2. Cost(v, w, x, y) = v + w + Left(hi) + Tri(Left(lo))
  BY DEF Cost
<1>3. Cost(v2, w2, x2, y2) = v2 + w2 + Left(hi2) + Tri(Left(lo2))
  BY DEF Cost
<1> HIDE DEF hi, lo, hi2, lo2
<1>4. /\ Left(hi) \in Nat /\ Left(hi2) \in Nat /\ Left(hi2) <= Left(hi)
      /\ Tri(Left(lo)) \in Nat /\ Tri(Left(lo2)) \in Nat /\ Tri(Left(lo2)) <= Tri(Left(lo))
  BY <1>1, LeftFacts
<1>5. QED
  BY <1>2, <1>3, <1>4

\* All there is to come begins with a count of nothing in two tabs.
LEMMA CostBound ==
  ASSUME NEW v \in 0..1, NEW w \in 0..1, NEW x \in Nat, NEW y \in Nat
  PROVE  Cost(v, w, x, y) \in Nat /\ Cost(v, w, x, y) <= Tri(Threshold)
<1> DEFINE hi == IF x < y THEN y + 1 ELSE x + 1
           lo == IF x < y THEN x + 1 ELSE y + 1
<1>1. hi \in Nat /\ lo \in Nat
  OBVIOUS
<1>2. Cost(v, w, x, y) = v + w + Left(hi) + Tri(Left(lo))
  BY DEF Cost
<1> HIDE DEF hi, lo
<1>3. Left(hi) \in Nat /\ Tri(Left(lo)) \in Nat
  BY <1>1, LeftFacts
<1>4. Cost(1, 1, 0, 0) = 2 + Left(1) + Tri(Left(1))
  BY DEF Cost
<1>5. Left(0) = Threshold /\ Left(0) = Left(1) + 1 /\ Tri(Left(0)) = Tri(Left(1)) + Left(0) + 1
  <2>1. Left(0) = Threshold /\ 0 < Threshold
    BY DEF Left
  <2>2. 0 + 1 = 1
    OBVIOUS
  <2>3. QED
    BY <2>1, <2>2, LeftFacts
<1>6. Left(1) \in Nat /\ Tri(Left(1)) \in Nat
  BY LeftFacts
<1>7. Cost(v, w, x, y) <= Cost(1, 1, 0, 0)
  <2>1. v \in Nat /\ w \in Nat /\ 1 \in Nat /\ 0 \in Nat /\ v <= 1 /\ w <= 1 /\ 0 <= x /\ 0 <= y
    OBVIOUS
  <2>2. QED
    BY <2>1, CostMonotone
<1>8. QED
  BY <1>2, <1>3, <1>4, <1>5, <1>6, <1>7

\* A tab that had read x writes c, more than it had read, and with that the other's count y
\* becomes y2: the failure is paid for by what it leaves to come.
LEMMA CostOfBump ==
  ASSUME NEW w \in 0..1, NEW w2 \in 0..1, NEW x \in Nat, NEW y \in Nat,
         NEW c \in Nat, NEW y2 \in Nat,
         x < c \/ Threshold <= c,
         y2 <= c, y <= y2 \/ y2 = c,
         w = 0 => Threshold <= y /\ y2 = c /\ (Threshold <= c => w2 = 0)
  PROVE  1 + Cost(IF c < Threshold THEN 1 ELSE 0, w2, c, y2) <= Cost(1, w, x, y)
<1> DEFINE hi == IF x < y THEN y + 1 ELSE x + 1
           lo == IF x < y THEN x + 1 ELSE y + 1
<1>1. Cost(1, w, x, y) = 1 + w + Left(hi) + Tri(Left(lo))
  BY DEF Cost
<1>2. \A v : Cost(v, w2, c, y2) = v + w2 + Left(c + 1) + Tri(Left(y2 + 1))
  BY DEF Cost
<1>3. /\ hi \in Nat /\ lo \in Nat /\ Left(hi) \in Nat /\ Tri(Left(lo)) \in Nat
      /\ Left(c + 1) \in Nat /\ Tri(Left(y2 + 1)) \in Nat /\ Left(x + 1) \in Nat /\ Left(x + 2) \in Nat
      /\ Tri(Left(x + 1)) \in Nat /\ Tri(Left(x + 2)) \in Nat /\ Tri(Left(y + 1)) \in Nat
  <2>1. hi \in Nat /\ lo \in Nat /\ x + 1 \in Nat /\ x + 2 \in Nat /\ y + 1 \in Nat /\ c + 1 \in Nat
        /\ y2 + 1 \in Nat
    OBVIOUS
  <2> HIDE DEF hi, lo
  <2>2. QED
    BY <2>1, LeftFacts
<1>4. CASE Threshold <= c
  <2>1. Left(c + 1) = 0
    BY <1>4 DEF Left
  <2>2. CASE w = 0
    <3>1. Tri(Left(y2 + 1)) = 0
      <4>1. y2 + 1 \in Nat /\ Threshold <= y2 + 1
        BY <1>4, <2>2
      <4>2. QED
        BY <4>1, LeftFacts
    <3>2. QED
      BY <1>1, <1>2, <1>3, <1>4, <2>1, <2>2, <3>1
  <2>3. CASE w = 1
    <3>1. Tri(Left(y2 + 1)) <= Tri(Left(lo))
      <4>1. CASE y <= y2
        <5>1. y2 + 1 \in Nat /\ lo \in Nat /\ lo <= y2 + 1
          BY <4>1
        <5> HIDE DEF lo
        <5>2. QED
          BY <5>1, LeftFacts
      <4>2. CASE y2 = c
        <5>1. y2 + 1 \in Nat /\ Threshold <= y2 + 1
          BY <1>4, <4>2
        <5>2. Tri(Left(y2 + 1)) = 0
          BY <5>1, LeftFacts
        <5>3. QED
          BY <1>3, <5>2
      <4>3. QED
        BY <4>1, <4>2
    <3>2. QED
      BY <1>1, <1>2, <1>3, <1>4, <2>1, <2>3, <3>1
  <2>4. QED
    BY <2>2, <2>3
<1>5. CASE c < Threshold
  <2>1. x + 1 \in Nat /\ x + 1 < Threshold /\ x + 1 <= c
    BY <1>5
  <2>2. /\ Left(x + 1) = Left(x + 2) + 1
        /\ Tri(Left(x + 1)) = Tri(Left(x + 2)) + Left(x + 1) + 1
    <3>1. (x + 1) + 1 = x + 2
      OBVIOUS
    <3>2. QED
      BY <2>1, <3>1, LeftFacts
  <2>3. Left(c + 1) <= Left(x + 2)
    <3>1. c + 1 \in Nat /\ x + 2 \in Nat /\ x + 2 <= c + 1
      BY <2>1
    <3>2. QED
      BY <3>1, LeftFacts
  <2>4. CASE w = 1 /\ y <= x
    <3>1. hi = x + 1 /\ lo = y + 1 /\ y <= y2
      BY <2>1, <2>4
    <3>2. Tri(Left(y2 + 1)) <= Tri(Left(y + 1))
      <4>1. y + 1 \in Nat /\ y2 + 1 \in Nat /\ y + 1 <= y2 + 1
        BY <3>1
      <4>2. QED
        BY <4>1, LeftFacts
    <3> HIDE DEF hi, lo
    <3>3. QED
      BY <1>1, <1>2, <1>3, <1>5, <2>2, <2>3, <2>4, <3>1, <3>2
  <2>5. CASE w = 0 \/ x < y
    <3>1. hi = y + 1 /\ lo = x + 1 /\ x + 2 <= y2 + 1
      BY <2>1, <2>5
    <3>2. Tri(Left(y2 + 1)) <= Tri(Left(x + 2))
      <4>1. x + 2 \in Nat /\ y2 + 1 \in Nat
        OBVIOUS
      <4>2. QED
        BY <3>1, <4>1, LeftFacts
    <3> HIDE DEF hi, lo
    <3>3. QED
      BY <1>1, <1>2, <1>3, <1>5, <2>2, <2>3, <2>5, <3>1, <3>2
  <2>6. QED
    BY <2>4, <2>5
<1>6. QED
  BY <1>4, <1>5

-----------------------------------------------------------------------------
(* The storm in the runs of the specification. *)

LEMMA AheadType ==
  ASSUME TypeOK, NEW l \in Logins, NEW m \in Logins
  PROVE  /\ Weight(l) \in 0..1 /\ Base(l) \in Nat /\ Base(l) <= fails.count
         /\ Ahead(l, m) \in Nat /\ Ahead(l, m) <= Tri(Threshold)
<1>1. /\ fails.count \in Nat /\ l.base \in Nat /\ m.base \in Nat
  BY DEF TypeOK, Logins
<1>2. /\ Weight(l) \in 0..1 /\ Base(l) \in Nat /\ Base(l) <= fails.count
      /\ Weight(m) \in 0..1 /\ Base(m) \in Nat
  BY <1>1 DEF Weight, Base
<1>3. QED
  BY <1>2, CostBound DEF Ahead

LEMMA CostSymmetric ==
  ASSUME NEW v \in 0..1, NEW w \in 0..1, NEW x \in Nat, NEW y \in Nat
  PROVE  Cost(v, w, x, y) = Cost(w, v, y, x)
<1>1. /\ (IF x < y THEN y + 1 ELSE x + 1) = (IF y < x THEN x + 1 ELSE y + 1)
      /\ (IF x < y THEN x + 1 ELSE y + 1) = (IF y < x THEN y + 1 ELSE x + 1)
      /\ v + w = w + v
  OBVIOUS
<1>2. QED
  BY <1>1 DEF Cost

\* Whatever the tabs have read, a new storm has all its failures to come at most.
LEMMA StormBegins ==
  ASSUME TypeOK', storm' = 0
  PROVE  StormInv'
<1> SUFFICES ASSUME NEW t \in Tabs, NEW u \in Tabs
             PROVE  Ahead(login[t], login[u])' <= Tri(Threshold) /\ Ahead(login[t], login[u])' \in Nat
  BY DEF StormInv
<1>1. login'[t] \in Logins /\ login'[u] \in Logins
  BY DEF TypeOK, Logins
<1>2. /\ fails'.count \in Nat /\ login'[t].base \in Nat /\ login'[u].base \in Nat
  BY DEF TypeOK
<1>3. /\ Weight(login[t])' \in 0..1 /\ Base(login[t])' \in Nat
      /\ Weight(login[u])' \in 0..1 /\ Base(login[u])' \in Nat
  BY <1>2 DEF Weight, Base
<1>4. QED
  BY <1>3, CostBound DEF Ahead

\* A login moves without counting: it arms itself only where it may, and reads what is stored.
Tame(l, m) ==
  /\ m.pc = "bump" => m.base = fails.count
  /\ Armed(m) => Armed(l) \/ fails.count < Threshold

LEMMA StormSteady ==
  ASSUME TypeOK, TypeOK', StormInv, UNCHANGED <<fails, storm>>,
         \A t \in Tabs : login'[t] = login[t] \/ Tame(login[t], login'[t])
  PROVE  StormInv'
<1> SUFFICES ASSUME NEW t \in Tabs, NEW u \in Tabs, t # u, Tabs = {t, u}
             PROVE  Ahead(login[t], login[u])' <= Ahead(login[t], login[u])
  <2>1. storm > 0 => fails'.recent
    BY DEF StormInv
  <2>2. ASSUME NEW x \in Tabs, NEW y \in Tabs, x # y, Tabs = {x, y},
               Ahead(login[x], login[y])' <= Ahead(login[x], login[y])
        PROVE  storm' + Ahead(login[x], login[y])' <= Tri(Threshold)
    <3>1. login[x] \in Logins /\ login[y] \in Logins /\ login'[x] \in Logins /\ login'[y] \in Logins
      BY DEF TypeOK, Logins
    <3>2. Ahead(login[x], login[y]) \in Nat /\ storm \in Nat /\ storm' = storm
      BY <3>1, AheadType DEF TypeOK
    <3>3. Ahead(login[x], login[y])' \in Nat
      <4>1. /\ fails'.count \in Nat /\ login'[x].base \in Nat /\ login'[y].base \in Nat
        BY DEF TypeOK
      <4>2. /\ Weight(login[x])' \in 0..1 /\ Base(login[x])' \in Nat
            /\ Weight(login[y])' \in 0..1 /\ Base(login[y])' \in Nat
        BY <4>1 DEF Weight, Base
      <4>3. QED
        BY <4>2, CostBound DEF Ahead
    <3>4. storm + Ahead(login[x], login[y]) <= Tri(Threshold) /\ Tri(Threshold) \in Nat
      BY <2>2, TriStep DEF StormInv
    <3>5. QED
      BY <2>2, <3>2, <3>3, <3>4
  <2>3. QED
    BY <2>1, <2>2 DEF StormInv
<1>1. ASSUME NEW x \in Tabs
      PROVE  /\ Weight(login[x]) \in 0..1 /\ Base(login[x]) \in Nat
             /\ Weight(login[x])' \in 0..1 /\ Base(login[x])' \in Nat
             /\ Weight(login[x])' <= Weight(login[x]) /\ Base(login[x]) <= Base(login[x])'
  <2>1. fails.count \in Nat /\ login[x].base \in Nat /\ login'[x].base \in Nat /\ fails' = fails
    BY DEF TypeOK
  <2>2. CASE login'[x] = login[x]
    BY <2>1, <2>2 DEF Weight, Base
  <2>3. CASE Tame(login[x], login'[x])
    BY <2>1, <2>3 DEF Weight, Base, Tame
  <2>4. QED
    BY <2>2, <2>3
<1>2. QED
  <2>1. \A x \in Tabs : /\ Weight(login[x]) \in Nat /\ Weight(login[x])' \in Nat
                        /\ Base(login[x]) \in Nat /\ Base(login[x])' \in Nat
                        /\ Weight(login[x])' <= Weight(login[x]) /\ Base(login[x]) <= Base(login[x])'
    BY <1>1
  <2>2. QED
    BY <2>1, CostMonotone DEF Ahead

\* A tab writes the failure that it counted (bumpFail, authService.ts 93-98).
LEMMA StormBump ==
  ASSUME IInv, TypeOK', StormInv, NEW t \in Tabs, BumpFails(t)
  PROVE  StormInv'
<1>1. /\ fails \in [count: 0..MaxCount, recent: BOOLEAN] /\ storm \in Nat
      /\ login \in [Tabs -> Logins] /\ login[t].base \in 0..MaxCount
  BY DEF IInv, TypeOK, Logins
<1>2. /\ login[t].pc = "bump" /\ storm' = storm + 1 /\ fails'.recent
      /\ fails'.count = IF login[t].base = MaxCount THEN MaxCount ELSE login[t].base + 1
      /\ login'[t].pc = "release"
      /\ \A u \in Tabs : u # t => login'[u] = login[u]
  BY <1>1 DEF BumpFails, At, Logins
<1>3. ASSUME NEW u \in Tabs, u # t, Tabs = {t, u}
      PROVE  /\ Ahead(login[t], login[u])' \in Nat
             /\ 1 + Ahead(login[t], login[u])' <= Ahead(login[t], login[u])
  <2> DEFINE c == fails'.count
             x == Base(login[t])
             y == Base(login[u])
             y2 == Base(login[u])'
             w == Weight(login[u])
             w2 == Weight(login[u])'
  <2>1. /\ login[u].base \in Nat /\ login[t].base \in Nat /\ fails.count \in Nat
        /\ c \in Nat /\ login'[u] = login[u]
    BY <1>1, <1>2, <1>3 DEF Logins
  <2>2. x \in Nat /\ y \in Nat /\ y2 \in Nat /\ w \in 0..1 /\ w2 \in 0..1
    BY <2>1 DEF Base, Weight
  <2>3. x <= login[t].base /\ (x < c \/ Threshold <= c)
    BY <1>1, <1>2, <2>1 DEF Base
  <2>4. y2 <= c /\ (y <= y2 \/ y2 = c)
    BY <2>1 DEF Base
  <2>5. w = 0 => Threshold <= y /\ y2 = c /\ (Threshold <= c => w2 = 0)
    BY <2>1 DEF Base, Weight, Armed
  <2>6. Weight(login[t]) = 1
    BY <1>2 DEF Weight, Armed
  <2>7. Weight(login[t])' = (IF c < Threshold THEN 1 ELSE 0) /\ Base(login[t])' = c
    BY <1>2 DEF Weight, Armed, Base
  <2>8. Weight(login[t])' \in 0..1
    BY <2>7
  <2>9. Ahead(login[t], login[u]) = Cost(1, w, x, y)
    BY <2>6 DEF Ahead
  <2>10. Ahead(login[t], login[u])' = Cost(IF c < Threshold THEN 1 ELSE 0, w2, c, y2)
    BY <2>7 DEF Ahead
  <2> HIDE DEF c, x, y, y2, w, w2
  <2>11. 1 + Cost(IF c < Threshold THEN 1 ELSE 0, w2, c, y2) <= Cost(1, w, x, y)
    BY <2>1, <2>2, <2>3, <2>4, <2>5, CostOfBump
  <2>12. Cost(IF c < Threshold THEN 1 ELSE 0, w2, c, y2) \in Nat
    <3>1. (IF c < Threshold THEN 1 ELSE 0) \in 0..1
      OBVIOUS
    <3>2. QED
      BY <2>1, <2>2, <3>1, CostBound
  <2>13. QED
    BY <2>9, <2>10, <2>11, <2>12
<1>4. ASSUME NEW u \in Tabs, u # t, Tabs = {t, u}
      PROVE  /\ storm' + Ahead(login[t], login[u])' <= Tri(Threshold)
             /\ storm' + Ahead(login[u], login[t])' <= Tri(Threshold)
  <2>1. login[t] \in Logins /\ login[u] \in Logins
    BY <1>1
  <2>2. Ahead(login[t], login[u]) \in Nat
    BY <2>1, AheadType DEF IInv
  <2>3. storm + Ahead(login[t], login[u]) <= Tri(Threshold) /\ Tri(Threshold) \in Nat
    BY <1>4, TriStep DEF StormInv
  <2>4. storm' + Ahead(login[t], login[u])' <= Tri(Threshold)
    BY <1>1, <1>2, <1>3, <1>4, <2>2, <2>3
  <2>5. Ahead(login[u], login[t])' = Ahead(login[t], login[u])'
    <3>1. login'[t] \in Logins /\ login'[u] \in Logins
      BY DEF TypeOK, Logins
    <3>2. /\ fails'.count \in Nat /\ login'[t].base \in Nat /\ login'[u].base \in Nat
      BY DEF TypeOK
    <3>3. /\ Weight(login[t])' \in 0..1 /\ Base(login[t])' \in Nat
          /\ Weight(login[u])' \in 0..1 /\ Base(login[u])' \in Nat
      BY <3>2 DEF Weight, Base
    <3>4. QED
      BY <3>3, CostSymmetric DEF Ahead
  <2>6. QED
    BY <2>4, <2>5
<1>5. QED
  <2>1. ASSUME NEW a \in Tabs, NEW b \in Tabs, a # b, Tabs = {a, b}
        PROVE  storm' + Ahead(login[a], login[b])' <= Tri(Threshold)
    <3>1. a = t \/ b = t
      BY <2>1
    <3>2. QED
      BY <1>4, <2>1, <3>1
  <2>2. QED
    BY <1>2, <2>1 DEF StormInv

LEMMA StormInit == Init => StormInv
<1> SUFFICES ASSUME Init PROVE StormInv
  OBVIOUS
<1>1. TypeOK /\ storm = 0
  BY InitIInv DEF IInv, Init
<1>2. ASSUME NEW t \in Tabs, NEW u \in Tabs
      PROVE  Ahead(login[t], login[u]) \in Nat /\ Ahead(login[t], login[u]) <= Tri(Threshold)
  <2>1. login[t] \in Logins /\ login[u] \in Logins
    BY <1>1 DEF TypeOK, Logins
  <2>2. QED
    BY <1>1, <2>1, AheadType
<1>3. QED
  BY <1>1, <1>2 DEF StormInv

\* The steps of a request, which may begin a login (cpApi.ts 99-158).
LEMMA StormRequest ==
  ASSUME IInv, TypeOK', StormInv, NEW q \in Requests, Begin(q) \/ RequestStep(q)
  PROVE  StormInv'
<1>1. UNCHANGED <<fails, storm>> /\ (login' = login \/ JoinLogin(requests[q].tab))
  BY DEF Begin, RequestStep, PreEnsure, Answered, Unauthorized, ClearToken, EnsureToken, shared
<1>2. ASSUME NEW t \in Tabs
      PROVE  login'[t] = login[t] \/ Tame(login[t], login'[t])
  <2>1. \/ login' = login
        \/ login' = [login EXCEPT ![requests[q].tab] = Fresh("circuit")]
    BY <1>1 DEF JoinLogin
  <2>2. login'[t] = login[t] \/ login'[t] = Fresh("circuit")
    BY <2>1 DEF IInv, TypeOK
  <2>3. Tame(login[t], Fresh("circuit"))
    BY FreshType DEF Tame, Armed
  <2>4. QED
    BY <2>2, <2>3
<1>3. QED
  BY <1>1, <1>2, StormSteady DEF IInv

\* The steps of a login that count nothing and forgive nothing.
LEMMA StormLogin ==
  ASSUME IInv, TypeOK', StormInv, NEW t \in Tabs, LoginStep(t), UNCHANGED <<fails, storm>>
  PROVE  StormInv'
<1>1. login \in [Tabs -> Logins] /\ login[t] \in Logins /\ storm \in Nat
  BY DEF IInv, TypeOK, Logins
<1>2. \/ storm = 0
      \/ /\ Tame(login[t], login'[t])
         /\ \A u \in Tabs : u # t => login'[u] = login[u]
  <2>1. CASE \E ok : Settle(t, ok)
    <3>1. login' = [login EXCEPT ![t] = Fresh("none")]
      BY <2>1 DEF Settle, NoLogin
    <3>2. login'[t] = Fresh("none") /\ \A u \in Tabs : u # t => login'[u] = login[u]
      BY <1>1, <3>1
    <3>3. QED
      BY <3>2, FreshType DEF Tame, Armed
  <2>2. CASE CheckCircuit(t) /\ ~CircuitOpen /\ Goto(t, "look")
    <3>1. storm = 0 \/ fails.count < Threshold
      BY <1>1, <2>2 DEF CircuitOpen, StormInv, IInv, TypeOK
    <3>2. login'[t].pc = "look" /\ \A u \in Tabs : u # t => login'[u] = login[u]
      BY <1>1, <2>2 DEF Goto, Logins
    <3>3. QED
      BY <3>1, <3>2 DEF Tame
  <2>3. CASE LookAtLock(t) \/ WriteLock(t) \/ RereadLock(t)
    <3>1. login[t].pc \in {"look", "write", "reread"}
      BY <2>3 DEF LookAtLock, WriteLock, RereadLock, At
    <3>2. login'[t].pc \in {"look", "write", "reread", "recheck"}
          /\ \A u \in Tabs : u # t => login'[u] = login[u]
      <4>1. CASE LookAtLock(t)
        BY <1>1, <4>1 DEF LookAtLock, Goto, At, Logins
      <4>2. CASE WriteLock(t)
        BY <1>1, <4>2 DEF WriteLock, Goto, Logins
      <4>3. CASE RereadLock(t)
        BY <1>1, <4>3 DEF RereadLock, Logins
      <4>4. QED
        BY <2>3, <4>1, <4>2, <4>3
    <3>3. QED
      BY <3>1, <3>2 DEF Tame, Armed
  <2>4. CASE RecheckToken(t) \/ LoginAnswered(t) \/ ClearAfterFailure(t)
    <3>1. login[t].pc \in {"recheck", "post", "clear"}
      BY <2>4 DEF RecheckToken, LoginAnswered, ClearAfterFailure, At
    <3>2. login'[t].pc # "bump" /\ \A u \in Tabs : u # t => login'[u] = login[u]
      <4>1. CASE RecheckToken(t)
        BY <1>1, <4>1 DEF RecheckToken, Logins
      <4>2. CASE LoginAnswered(t) \/ ClearAfterFailure(t)
        <5>1. PICK pc \in {"store", "clear", "release", "count"} : Goto(t, pc)
          BY <4>2 DEF LoginAnswered, ClearAfterFailure
        <5>2. QED
          BY <1>1, <5>1 DEF Goto, Logins
      <4>3. QED
        BY <2>4, <4>1, <4>2
    <3>3. QED
      BY <3>1, <3>2 DEF Tame, Armed
  <2>5. CASE ReadFails(t)
    <3>1. PICK base \in {fails.count} \cup (IF fails.recent THEN {} ELSE {0}) :
            login' = [login EXCEPT ![t].pc = "bump", ![t].base = base]
      BY <2>5, Zenon DEF ReadFails
    <3>2. login'[t].base = base /\ \A u \in Tabs : u # t => login'[u] = login[u]
      BY <1>1, <3>1 DEF Logins
    <3>3. storm = 0 \/ base = fails.count
      BY <1>1 DEF StormInv
    <3>4. Armed(login[t])
      BY <2>5 DEF ReadFails, At, Armed
    <3>5. QED
      BY <3>2, <3>3, <3>4 DEF Tame
  <2>6. CASE StoreToken(t)
    <3>1. login'[t].pc = "forgive" /\ \A u \in Tabs : u # t => login'[u] = login[u]
      BY <1>1, <2>6 DEF StoreToken, Goto, Logins
    <3>2. QED
      BY <3>1 DEF Tame, Armed
  <2>7. CASE Release(t) /\ Goto(t, "remove")
    <3>1. login'[t].pc = "remove" /\ \A u \in Tabs : u # t => login'[u] = login[u]
      BY <1>1, <2>7 DEF Goto, Logins
    <3>2. QED
      BY <3>1 DEF Tame, Armed
  <2>8. CASE BumpFails(t)
    BY <1>1, <2>8 DEF BumpFails
  <2>9. CASE ClearFails(t)
    BY <2>9 DEF ClearFails
  <2>10. QED
    BY <2>1, <2>2, <2>3, <2>4, <2>5, <2>6, <2>7, <2>8, <2>9
       DEF LoginStep, CheckCircuit, Release, RemoveLock
<1>3. QED
  BY <1>2, StormBegins, StormSteady DEF IInv

LEMMA StormNext == IInv /\ TypeOK' /\ StormInv /\ [Next]_vars => StormInv'
<1> SUFFICES ASSUME IInv, TypeOK', StormInv, [Next]_vars PROVE StormInv'
  OBVIOUS
<1>1. CASE \E q \in Requests : Begin(q) \/ RequestStep(q)
  BY <1>1, StormRequest
<1>2. ASSUME NEW t \in Tabs, LoginStep(t)
      PROVE  StormInv'
  <2>1. CASE BumpFails(t)
    BY <2>1, StormBump
  <2>2. CASE ClearFails(t)
    BY <2>2, StormBegins DEF ClearFails
  <2>3. CASE UNCHANGED <<fails, storm>>
    BY <1>2, <2>3, StormLogin
  <2>4. QED
    BY <1>2, <2>1, <2>2, <2>3
       DEF LoginStep, CheckCircuit, LookAtLock, WriteLock, RereadLock, RecheckToken, LoginAnswered,
           ClearAfterFailure, ReadFails, StoreToken, Release, RemoveLock, shared
<1>3. ASSUME NEW t \in Tabs, Close(t)
      PROVE  StormInv'
  <2>1. login' = [login EXCEPT ![t] = Fresh("none")] /\ UNCHANGED <<fails, storm>>
    BY <1>3 DEF Close, NoLogin
  <2>2. \A u \in Tabs : login'[u] = login[u] \/ login'[u] = Fresh("none")
    BY <2>1 DEF IInv, TypeOK
  <2>3. \A l : Tame(l, Fresh("none"))
    BY FreshType DEF Tame, Armed
  <2>4. QED
    BY <2>1, <2>2, <2>3, StormSteady DEF IInv
<1>4. CASE LockExpires \/ UNCHANGED vars
  BY <1>4, StormSteady DEF LockExpires, vars, IInv
<1>5. CASE WindowPasses
  BY <1>5, StormBegins DEF WindowPasses
<1>6. QED
  BY <1>1, <1>2, <1>3, <1>4, <1>5 DEF Next

\* Failures that two tabs count without excluding each other still open the circuit after
\* a number that depends on the threshold alone (authService.ts 92-107, 161-164).
THEOREM SpecStormBounded == Spec => []StormBounded
<1>1. IInv /\ StormInv => StormBounded
  <2> SUFFICES ASSUME IInv, StormInv, Cardinality(Tabs) = 2
               PROVE  storm <= (Threshold * (Threshold + 3)) \div 2
    BY DEF StormBounded
  <2>1. PICK t, u \in Tabs : t # u /\ Tabs = {t, u}
    <3>1. Tabs # {}
      BY FS_EmptySet
    <3>2. PICK t \in Tabs : TRUE
      BY <3>1
    <3>3. IsFiniteSet(Tabs \ {t}) /\ Cardinality(Tabs \ {t}) = 1
      BY TabsFinite, <3>2, FS_RemoveElement
    <3>4. PICK u : Tabs \ {t} = {u}
      BY <3>3, FS_Singleton
    <3>5. QED
      BY <3>2, <3>4
  <2>2. login[t] \in Logins /\ login[u] \in Logins /\ storm \in Nat
    BY DEF IInv, TypeOK, Logins
  <2>3. Ahead(login[t], login[u]) \in Nat
    BY <2>2, AheadType DEF IInv
  <2>4. storm + Ahead(login[t], login[u]) <= Tri(Threshold) /\ Tri(Threshold) \in Nat
    BY <2>1, TriStep DEF StormInv
  <2>5. storm <= Tri(Threshold)
    BY <2>2, <2>3, <2>4
  <2>6. QED
    BY <2>5 DEF Tri
<1>2. IInv => TypeOK
  BY DEF IInv
<1>3. QED
  BY <1>1, <1>2, SpecIInv, StormInit, StormNext, PTL DEF Spec

-----------------------------------------------------------------------------
(* The anomaly guard (anomalyGuard.ts): what it forgets, merges or prunes late *)
(* does not change its alarms.                                                 *)

\* The events that have not left the window are those recorded since the last alarm: all
\* of them are still in the list, beside older ones (prune, anomalyGuard.ts 28-31).
Remembered ==
  /\ DOMAIN recent = Kinds /\ DOMAIN past = Kinds
  /\ \A k \in Kinds :
       /\ DOMAIN past[k] = {e \in DOMAIN recent[k] : recent[k][e] <= Window[k]}
       /\ \A e \in DOMAIN past[k] : past[k][e] = recent[k][e]

Resolutions == [hash: Hashes, isFallback: BOOLEAN, soon: BOOLEAN, warned: BOOLEAN]

\* The resolution at i continues one chain with those after it.
Linked(i) == trail[i].isFallback /\ trail[i].hash = lastHash /\ ~trail[i].warned

\* The resolution before the chain is not of it.
Broken(i) ==
  \/ ~trail[i].isFallback \/ trail[i].warned
  \/ fallbacks > 0 /\ (trail[i].hash # lastHash \/ ~trail[i + 1].soon)

\* The count is the length of the longest chain of fallbacks that the trail ends with
\* (recordRouteResolution, anomalyGuard.ts 74-95).
Chained ==
  /\ trail \in Seq(Resolutions) /\ Len(trail) <= LoopCount /\ fallbacks <= Len(trail)
  /\ since \in 0..LoopWindow
  /\ fallbacks > 0 => fallback = since
  /\ \A i \in 1..Len(trail) : i > Len(trail) - fallbacks => Linked(i)
  /\ \A i \in 1..Len(trail) : i > Len(trail) - fallbacks + 1 => trail[i].soon
  /\ \A i \in 1..Len(trail) : i = Len(trail) - fallbacks => Broken(i)

GuardInv == GuardTypeOK /\ Remembered /\ Chained

LEMMA GuardConstants ==
  /\ \A k \in Kinds : Window[k] \in Nat /\ StormThreshold[k] \in Nat
  /\ Persist \in Nat /\ LoopWindow \in Nat /\ LoopWindow > 0 /\ LoopCount \in Nat /\ LoopCount > 1
BY AnomalyGuardAssumption

LEMMA NothingEmpty == DOMAIN Nothing = {} /\ IsFiniteSet({}) /\ Cardinality({}) = 0
BY FS_EmptySet DEF Nothing

LEMMA GuardInitInv == GuardInit => GuardInv
<1> SUFFICES ASSUME GuardInit PROVE GuardInv
  OBVIOUS
<1>1. \A k \in Kinds : recent[k] = Nothing /\ past[k] = Nothing
  BY DEF GuardInit
<1>2. GuardTypeOK
  BY <1>1, NothingEmpty, GuardConstants DEF GuardInit, GuardTypeOK, Never
<1>3. Remembered
  <2>1. DOMAIN recent = Kinds /\ DOMAIN past = Kinds
    BY DEF GuardInit
  <2>2. QED
    BY <1>1, <2>1, NothingEmpty DEF Remembered
<1>4. Chained
  BY GuardConstants DEF GuardInit, Chained
<1>5. QED
  BY <1>2, <1>3, <1>4 DEF GuardInv

-----------------------------------------------------------------------------
(* Storms. *)

\* The window of an event holds it and what the history has.
LEMMA WindowIsPast ==
  ASSUME GuardInv, NEW k \in Kinds, NEW event \in Events, event \notin DOMAIN recent[k]
  PROVE  /\ DOMAIN InWindow(k, event) = DOMAIN past[k] \cup {event}
         /\ event \notin DOMAIN past[k] /\ DOMAIN past[k] \subseteq Events
         /\ IsFiniteSet(DOMAIN past[k]) /\ IsFiniteSet(DOMAIN InWindow(k, event))
         /\ Cardinality(DOMAIN InWindow(k, event)) = Cardinality(DOMAIN past[k]) + 1
         /\ Cardinality(DOMAIN past[k]) \in Nat
         /\ \A e \in DOMAIN InWindow(k, event) :
              InWindow(k, event)[e] = IF e = event THEN 0 ELSE recent[k][e]
<1>1. Window[k] \in Nat
  BY GuardConstants
<1>2. DOMAIN past[k] = {e \in DOMAIN recent[k] : recent[k][e] <= Window[k]}
  BY DEF GuardInv, Remembered
<1>3. /\ DOMAIN Adding(recent[k], event) = DOMAIN recent[k] \cup {event}
      /\ \A e \in DOMAIN recent[k] \cup {event} :
           Adding(recent[k], event)[e] = IF e = event THEN 0 ELSE recent[k][e]
  BY DEF Adding
<1>4. /\ DOMAIN InWindow(k, event)
           = {e \in DOMAIN recent[k] \cup {event} : Adding(recent[k], event)[e] <= Window[k]}
      /\ \A e \in DOMAIN InWindow(k, event) : InWindow(k, event)[e] = Adding(recent[k], event)[e]
  BY <1>3 DEF InWindow, Prune
<1>5. DOMAIN InWindow(k, event) = DOMAIN past[k] \cup {event} /\ event \notin DOMAIN past[k]
  BY <1>1, <1>2, <1>3, <1>4
<1>6. IsFiniteSet(DOMAIN past[k]) /\ DOMAIN past[k] \subseteq Events
  <2>1. IsFiniteSet(DOMAIN recent[k]) /\ DOMAIN recent[k] \subseteq Events
    BY DEF GuardInv, GuardTypeOK
  <2>2. QED
    BY <1>2, <2>1, FS_Subset
<1>7. /\ IsFiniteSet(DOMAIN past[k] \cup {event})
      /\ Cardinality(DOMAIN past[k] \cup {event}) = Cardinality(DOMAIN past[k]) + 1
      /\ Cardinality(DOMAIN past[k]) \in Nat
  BY <1>5, <1>6, FS_AddElement, FS_CardinalityType
<1>8. QED
  BY <1>3, <1>4, <1>5, <1>6, <1>7

\* What a call records and says (record401, recordLoginAttempt, anomalyGuard.ts 33-72).
LEMMA RecordEffect ==
  ASSUME GuardInv, NEW k \in Kinds, NEW event \in Events, Record(k, event)
  PROVE  /\ said' \in {"nothing", "warning", "error"}
         /\ said' # "nothing" <=> IsStorm(k, event)
         /\ IsStorm(k, event) <=> Cardinality(DOMAIN past[k]) + 1 > StormThreshold[k]
         /\ firstStorm' \in 0..Never
<1>1. event \notin DOMAIN recent[k]
  BY DEF Record
<1>2. IsStorm(k, event) <=> Cardinality(DOMAIN past[k]) + 1 > StormThreshold[k]
  BY <1>1, WindowIsPast DEF IsStorm
<1>3. Never \in Nat /\ firstStorm \in 0..Never
  BY GuardConstants DEF GuardInv, GuardTypeOK, Never
<1>4. k \in {"401", "login"}
  BY DEF Kinds
<1>5. CASE ~IsStorm(k, event)
  BY <1>2, <1>3, <1>4, <1>5 DEF Record
<1>6. CASE IsStorm(k, event) /\ Escalates /\ k = "401"
  BY <1>2, <1>3, <1>4, <1>6 DEF Record
<1>7. CASE IsStorm(k, event) /\ ~Escalates /\ k = "401"
  BY <1>2, <1>3, <1>4, <1>7 DEF Record
<1>8. CASE IsStorm(k, event) /\ k = "login"
  BY <1>2, <1>3, <1>4, <1>8 DEF Record
<1>9. QED
  BY <1>4, <1>5, <1>6, <1>7, <1>8

LEMMA RecordInv ==
  ASSUME GuardInv, NEW k \in Kinds, NEW event \in Events, Record(k, event)
  PROVE  GuardInv'
<1>1. /\ event \notin DOMAIN recent[k]
      /\ recent' = [recent EXCEPT ![k] = Kept(k, event)]
      /\ past' = [past EXCEPT ![k] = IF said' = "nothing" THEN Adding(past[k], event) ELSE Nothing]
      /\ UNCHANGED <<lastHash, fallbacks, fallback, trail, since>>
  BY DEF Record
<1>2. /\ DOMAIN recent = Kinds /\ DOMAIN past = Kinds
      /\ Window[k] \in Nat /\ StormThreshold[k] \in Nat
  BY GuardConstants DEF GuardInv, Remembered
<1>3. /\ DOMAIN recent' = Kinds /\ DOMAIN past' = Kinds
      /\ \A j \in Kinds : j # k => recent'[j] = recent[j] /\ past'[j] = past[j]
      /\ recent'[k] = Kept(k, event)
      /\ past'[k] = IF IsStorm(k, event) THEN Nothing ELSE Adding(past[k], event)
  BY <1>1, <1>2, RecordEffect
<1>4. /\ DOMAIN recent'[k] \subseteq Events /\ IsFiniteSet(DOMAIN recent'[k])
      /\ Cardinality(DOMAIN recent'[k]) <= StormThreshold[k]
      /\ \A e \in DOMAIN recent'[k] : recent'[k][e] \in 0 .. Window[k]
      /\ DOMAIN past'[k] = DOMAIN recent'[k]
      /\ \A e \in DOMAIN past'[k] : past'[k][e] = recent'[k][e]
  <2>1. CASE IsStorm(k, event)
    <3>1. recent'[k] = Nothing /\ past'[k] = Nothing
      BY <1>3, <2>1 DEF Kept
    <3>2. QED
      BY <1>2, <3>1, NothingEmpty
  <2>2. CASE ~IsStorm(k, event)
    <3>1. recent'[k] = InWindow(k, event) /\ past'[k] = Adding(past[k], event)
      BY <1>3, <2>2 DEF Kept
    <3>2. /\ DOMAIN past'[k] = DOMAIN past[k] \cup {event}
          /\ \A e \in DOMAIN past[k] \cup {event} : past'[k][e] = IF e = event THEN 0 ELSE past[k][e]
      BY <3>1 DEF Adding
    <3>3. /\ DOMAIN recent'[k] = DOMAIN past[k] \cup {event}
          /\ DOMAIN past[k] \subseteq Events /\ IsFiniteSet(DOMAIN recent'[k])
          /\ Cardinality(DOMAIN recent'[k]) \in Nat
          /\ \A e \in DOMAIN recent'[k] : recent'[k][e] = IF e = event THEN 0 ELSE recent[k][e]
      <4>1. /\ DOMAIN InWindow(k, event) = DOMAIN past[k] \cup {event}
            /\ DOMAIN past[k] \subseteq Events /\ IsFiniteSet(DOMAIN InWindow(k, event))
            /\ \A e \in DOMAIN InWindow(k, event) :
                 InWindow(k, event)[e] = IF e = event THEN 0 ELSE recent[k][e]
        BY <1>1, WindowIsPast
      <4>2. Cardinality(DOMAIN InWindow(k, event)) \in Nat
        BY <4>1, FS_CardinalityType
      <4> HIDE DEF InWindow
      <4>3. QED
        BY <3>1, <4>1, <4>2
    <3>4. ~(Cardinality(DOMAIN recent'[k]) > StormThreshold[k])
      BY <2>2, <3>1 DEF IsStorm
    <3>5. /\ \A e \in DOMAIN past[k] : past[k][e] = recent[k][e] /\ recent[k][e] \in 0 .. Window[k]
      BY <1>2 DEF GuardInv, Remembered, GuardTypeOK
    <3>6. QED
      BY <1>2, <3>2, <3>3, <3>4, <3>5
  <2>3. QED
    BY <2>1, <2>2
<1>5. GuardTypeOK'
  <2>1. ASSUME NEW j \in Kinds
        PROVE  /\ DOMAIN recent'[j] \subseteq Events
               /\ IsFiniteSet(DOMAIN recent'[j]) /\ Cardinality(DOMAIN recent'[j]) <= StormThreshold[j]
               /\ \A e \in DOMAIN recent'[j] : recent'[j][e] \in 0 .. Window[j] + 1
    <3>1. CASE j = k
      BY <1>2, <1>4, <3>1
    <3>2. CASE j # k
      BY <1>3, <3>2 DEF GuardInv, GuardTypeOK
    <3>3. QED
      BY <3>1, <3>2
  <2>2. QED
    BY <1>1, <2>1, RecordEffect DEF GuardInv, GuardTypeOK
<1>6. Remembered'
  <2>1. ASSUME NEW j \in Kinds
        PROVE  /\ DOMAIN past'[j] = {e \in DOMAIN recent'[j] : recent'[j][e] <= Window[j]}
               /\ \A e \in DOMAIN past'[j] : past'[j][e] = recent'[j][e]
    <3>1. CASE j = k
      BY <1>2, <1>4, <3>1
    <3>2. CASE j # k
      BY <1>3, <3>2 DEF GuardInv, Remembered
    <3>3. QED
      BY <3>1, <3>2
  <2>2. QED
    BY <1>3, <2>1 DEF Remembered
<1>7. Chained'
  BY <1>1 DEF GuardInv, Chained, Linked, Broken
<1>8. QED
  BY <1>5, <1>6, <1>7 DEF GuardInv

-----------------------------------------------------------------------------
(* Loops. *)

\* The resolution that is added to the trail.
Resolution(hash, isFallback) ==
  [hash |-> hash, isFallback |-> isFallback, soon |-> since < LoopWindow, warned |-> said' # "nothing"]

LEMMA ResolutionFields ==
  ASSUME NEW h, NEW f \in BOOLEAN, NEW s \in BOOLEAN, NEW w \in BOOLEAN, NEW r,
         r = [hash |-> h, isFallback |-> f, soon |-> s, warned |-> w]
  PROVE  r.hash = h /\ (r.isFallback <=> f) /\ (r.soon <=> s) /\ (r.warned <=> w)
OBVIOUS

\* How far the trail moves when one more is added.
Shift == IF Len(trail) < LoopCount THEN 0 ELSE 1

LEMMA LoggedEffect ==
  ASSUME GuardInv, NEW hash \in Hashes, NEW isFallback \in BOOLEAN, Logged(hash, isFallback)
  PROVE  /\ trail' \in Seq(Resolutions) /\ Len(trail') = Len(trail) + 1 - Shift
         /\ Len(trail) \in Nat /\ Len(trail') <= LoopCount
         /\ Shift \in 0..1 /\ (Shift = 0 <=> Len(trail) < LoopCount)
         /\ trail'[Len(trail')] = Resolution(hash, isFallback)
         /\ \A i \in 1 .. Len(trail') - 1 : i + Shift \in 1..Len(trail) /\ trail'[i] = trail[i + Shift]
         /\ since' = 0
<1> DEFINE new == Resolution(hash, isFallback)
           all == Append(trail, new)
<1>1. trail \in Seq(Resolutions) /\ Len(trail) \in Nat /\ Len(trail) <= LoopCount /\ LoopCount \in Nat
      /\ LoopCount > 1
  BY GuardConstants DEF GuardInv, Chained
<1>2. new \in Resolutions
  BY DEF Resolution, Resolutions
<1>3. trail' = (IF Len(all) > LoopCount THEN Tail(all) ELSE all) /\ since' = 0
  BY DEF Logged, Resolution
<1> HIDE DEF new
<1>4. /\ all \in Seq(Resolutions) /\ Len(all) = Len(trail) + 1
      /\ all[Len(trail) + 1] = new /\ \A i \in 1..Len(trail) : all[i] = trail[i]
  BY <1>1, <1>2
<1>5. Shift \in 0..1 /\ (Shift = 0 <=> Len(trail) < LoopCount)
  BY DEF Shift
<1> HIDE DEF all
<1>6. CASE Len(trail) < LoopCount
  <2>1. trail' = all /\ Shift = 0
    BY <1>1, <1>3, <1>4, <1>5, <1>6
  <2>2. QED
    BY <1>1, <1>3, <1>4, <1>5, <1>6, <2>1 DEF new
<1>7. CASE ~(Len(trail) < LoopCount)
  <2>1. trail' = Tail(all) /\ Shift = 1
    BY <1>1, <1>3, <1>4, <1>5, <1>7
  <2>2. /\ Tail(all) \in Seq(Resolutions) /\ Len(Tail(all)) = Len(trail)
        /\ \A i \in 1..Len(trail) : Tail(all)[i] = all[i + 1]
    BY <1>1, <1>4, <1>7
  <2>3. QED
    BY <1>1, <1>3, <1>4, <1>5, <1>7, <2>1, <2>2 DEF new
<1>8. QED
  BY <1>6, <1>7

LEMMA FallbackTypes ==
  ASSUME GuardInv
  PROVE  /\ fallbacks \in Nat /\ fallbacks < LoopCount /\ fallbacks <= Len(trail)
         /\ Len(trail) \in Nat /\ Len(trail) <= LoopCount /\ LoopCount \in Nat /\ LoopCount > 1
         /\ LoopWindow \in Nat /\ LoopWindow > 0
         /\ fallback \in 0..LoopWindow /\ since \in 0..LoopWindow
BY GuardConstants DEF GuardInv, GuardTypeOK, Chained

\* A warning is of a chain of LoopCount, and of every such chain.
LEMMA FallbackExact ==
  ASSUME GuardInv, NEW hash \in Hashes, Fallback(hash)
  PROVE  said' # "nothing" <=> IsLoop(trail')
<1> DEFINE n == Len(trail)  m == Len(trail')
<1>1. Logged(hash, TRUE)
  BY DEF Fallback
<1>2. /\ m = n + 1 - Shift /\ Shift \in 0..1 /\ (Shift = 0 <=> n < LoopCount)
      /\ trail'[m] = Resolution(hash, TRUE)
      /\ \A i \in 1 .. m - 1 : i + Shift \in 1..n /\ trail'[i] = trail[i + Shift]
  BY <1>1, LoggedEffect
<1>3. said' # "nothing" <=> Again(hash) /\ fallbacks + 1 >= LoopCount
  BY DEF Fallback
<1>4. /\ trail'[m].isFallback /\ trail'[m].hash = hash
      /\ trail'[m].soon <=> since < LoopWindow
  <2> DEFINE f == TRUE  s == since < LoopWindow  w == said' # "nothing"
  <2>1. trail'[m] = [hash |-> hash, isFallback |-> f, soon |-> s, warned |-> w]
    BY <1>2 DEF Resolution
  <2>2. f \in BOOLEAN /\ s \in BOOLEAN /\ w \in BOOLEAN /\ f
    OBVIOUS
  <2> HIDE DEF f, s, w
  <2>3. /\ trail'[m].hash = hash /\ (trail'[m].isFallback <=> f)
        /\ (trail'[m].soon <=> s) /\ (trail'[m].warned <=> w)
    BY <2>1, <2>2, ResolutionFields
  <2>4. QED
    BY <2>2, <2>3 DEF s, w
<1>5. /\ \A i \in 1..n : i > n - fallbacks => Linked(i)
      /\ \A i \in 1..n : i > n - fallbacks + 1 => trail[i].soon
      /\ \A i \in 1..n : i = n - fallbacks => Broken(i)
      /\ fallbacks > 0 => fallback = since
  BY DEF GuardInv, Chained
<1> HIDE DEF n, m
<1>6. /\ fallbacks \in Nat /\ fallbacks < LoopCount /\ fallbacks <= n
      /\ n \in Nat /\ n <= LoopCount /\ LoopCount \in Nat /\ LoopCount > 1
  BY FallbackTypes DEF n
<1>7. ASSUME Again(hash), fallbacks + 1 >= LoopCount
      PROVE  IsLoop(trail')
  <2>1. fallbacks = LoopCount - 1 /\ fallbacks > 0 /\ hash = lastHash /\ since < LoopWindow
    BY <1>5, <1>6, <1>7 DEF Again
  <2>2. m = LoopCount /\ n - fallbacks = Shift
    BY <1>2, <1>6, <2>1
  <2>3. ASSUME NEW i \in 1 .. LoopCount - 1
        PROVE  /\ trail'[i].isFallback /\ trail'[i].hash = hash /\ ~trail'[i].warned
               /\ i > 1 => trail'[i].soon
    <3>1. i + Shift \in 1..n /\ trail'[i] = trail[i + Shift] /\ i + Shift > n - fallbacks
          /\ (i > 1 => i + Shift > n - fallbacks + 1)
      BY <1>2, <1>6, <2>2
    <3>2. Linked(i + Shift) /\ (i > 1 => trail[i + Shift].soon)
      BY <1>5, <3>1
    <3>3. QED
      BY <2>1, <3>1, <3>2 DEF Linked
  <2>4. \A i \in 1..LoopCount : trail'[i].isFallback /\ trail'[i].hash = trail'[LoopCount].hash
    BY <1>4, <1>6, <2>2, <2>3
  <2>5. \A i \in 2..LoopCount : trail'[i].soon /\ ~trail'[i - 1].warned
    <3>1. SUFFICES ASSUME NEW i \in 2..LoopCount PROVE trail'[i].soon /\ ~trail'[i - 1].warned
      OBVIOUS
    <3>2. i - 1 \in 1 .. LoopCount - 1
      BY <1>6
    <3>3. i = LoopCount \/ i \in 1 .. LoopCount - 1
      BY <1>6
    <3>4. QED
      BY <1>4, <2>1, <2>2, <2>3, <3>2, <3>3
  <2>6. QED
    BY <2>2, <2>4, <2>5 DEF IsLoop, m
<1>8. ASSUME IsLoop(trail')
      PROVE  Again(hash) /\ fallbacks + 1 >= LoopCount
  <2>1. /\ m = LoopCount
        /\ \A i \in 1..LoopCount : trail'[i].isFallback /\ trail'[i].hash = trail'[LoopCount].hash
        /\ \A i \in 2..LoopCount : trail'[i].soon /\ ~trail'[i - 1].warned
    BY <1>8 DEF IsLoop, m
  <2>2. ASSUME NEW j \in 1..n, j > Shift
        PROVE  /\ trail[j].isFallback /\ ~trail[j].warned /\ trail[j].hash = hash
               /\ j > Shift + 1 => trail[j].soon
    <3>1. j - Shift \in 1 .. m - 1 /\ j - Shift + 1 \in 2..LoopCount /\ j - Shift \in 1..LoopCount
          /\ (j - Shift) + Shift = j /\ (j - Shift + 1) - 1 = j - Shift
      BY <1>2, <1>6, <2>1, <2>2
    <3>2. trail'[j - Shift] = trail[j]
      BY <1>2, <3>1
    <3>3. j > Shift + 1 => j - Shift \in 2..LoopCount
      BY <1>2, <3>1
    <3>4. ~trail'[j - Shift].warned
      BY <2>1, <3>1
    <3>5. QED
      BY <1>4, <2>1, <3>1, <3>2, <3>3, <3>4
  <2>3. n = LoopCount - 1 + Shift
    BY <1>2, <1>6, <2>1
  <2>4. fallbacks + 1 >= LoopCount
    <3>1. SUFFICES ASSUME fallbacks + 1 < LoopCount PROVE FALSE
      BY <1>6
    <3>2. n - fallbacks \in 1..n /\ n - fallbacks > Shift
      BY <1>2, <1>6, <2>3, <3>1
    <3>3. Broken(n - fallbacks) /\ trail[n - fallbacks].isFallback /\ ~trail[n - fallbacks].warned
          /\ trail[n - fallbacks].hash = hash
      BY <1>5, <2>2, <3>2
    <3>4. fallbacks > 0
      BY <3>3 DEF Broken
    <3>5. n \in 1..n /\ n > n - fallbacks /\ n > Shift
      BY <1>2, <1>6, <3>2, <3>4
    <3>6. lastHash = hash
      BY <1>5, <2>2, <3>5 DEF Linked
    <3>7. n - fallbacks + 1 \in 1..n /\ n - fallbacks + 1 > Shift + 1
      BY <1>2, <1>6, <3>2, <3>4
    <3>8. trail[n - fallbacks + 1].soon
      <4>1. n - fallbacks + 1 > Shift
        BY <1>2, <1>6, <3>7
      <4>2. QED
        BY <2>2, <3>7, <4>1
    <3>9. QED
      BY <3>3, <3>6, <3>8 DEF Broken
  <2>5. fallbacks > 0 /\ n \in 1..n /\ n > n - fallbacks /\ n > Shift
    BY <1>2, <1>6, <2>3, <2>4
  <2>6. lastHash = hash
    BY <1>5, <2>2, <2>5 DEF Linked
  <2>7. since < LoopWindow /\ fallback = since
    <3>1. m \in 2..LoopCount
      BY <1>6, <2>1
    <3>2. trail'[m].soon
      BY <2>1, <3>1
    <3>3. QED
      BY <1>4, <1>5, <2>5, <3>2
  <2>8. QED
    BY <2>4, <2>6, <2>7 DEF Again
<1>9. QED
  BY <1>3, <1>7, <1>8

\* A fallback lengthens the chain, or begins another that the one before does not belong to.
LEMMA FallbackInv ==
  ASSUME GuardInv, NEW hash \in Hashes, Fallback(hash)
  PROVE  GuardInv'
<1> DEFINE n == Len(trail)  m == Len(trail')
           loop == Again(hash) /\ fallbacks + 1 >= LoopCount
<1>1. /\ UNCHANGED <<recent, firstStorm, past>> /\ lastHash' = hash /\ fallback' = 0
      /\ said' = IF loop THEN "warning" ELSE "nothing"
      /\ fallbacks' = IF loop THEN 0 ELSE IF Again(hash) THEN fallbacks + 1 ELSE 1
      /\ Logged(hash, TRUE)
  BY FallbackTypes DEF Fallback
<1>2. /\ m = n + 1 - Shift /\ Shift \in 0..1 /\ (Shift = 0 <=> n < LoopCount)
      /\ trail' \in Seq(Resolutions) /\ m <= LoopCount /\ since' = 0
      /\ trail'[m] = Resolution(hash, TRUE)
      /\ \A i \in 1 .. m - 1 : i + Shift \in 1..n /\ trail'[i] = trail[i + Shift]
  BY <1>1, LoggedEffect
<1>3. /\ trail'[m].isFallback /\ trail'[m].hash = hash
      /\ trail'[m].soon <=> since < LoopWindow
      /\ trail'[m].warned <=> said' # "nothing"
  <2> DEFINE f == TRUE  s == since < LoopWindow  w == said' # "nothing"
  <2>1. trail'[m] = [hash |-> hash, isFallback |-> f, soon |-> s, warned |-> w]
    BY <1>2 DEF Resolution
  <2>2. f \in BOOLEAN /\ s \in BOOLEAN /\ w \in BOOLEAN /\ f
    OBVIOUS
  <2> HIDE DEF f, s, w
  <2>3. /\ trail'[m].hash = hash /\ (trail'[m].isFallback <=> f)
        /\ (trail'[m].soon <=> s) /\ (trail'[m].warned <=> w)
    BY <2>1, <2>2, ResolutionFields
  <2>4. QED
    BY <2>2, <2>3 DEF s, w
<1>4. /\ \A i \in 1..n : i > n - fallbacks => Linked(i)
      /\ \A i \in 1..n : i > n - fallbacks + 1 => trail[i].soon
      /\ \A i \in 1..n : i = n - fallbacks => Broken(i)
      /\ fallbacks > 0 => fallback = since
  BY DEF GuardInv, Chained
<1>5. /\ fallbacks \in Nat /\ fallbacks < LoopCount /\ fallbacks <= n
      /\ n \in Nat /\ n <= LoopCount /\ LoopCount \in Nat /\ LoopCount > 1
      /\ LoopWindow \in Nat /\ LoopWindow > 0
  BY FallbackTypes
<1> HIDE DEF n, m, loop
<1>6. GuardTypeOK'
  <2>1. fallbacks' \in 0 .. LoopCount - 1
    BY <1>1, <1>5 DEF loop
  <2>2. said' \in {"nothing", "warning", "error"} /\ fallback' \in 0..LoopWindow
    BY <1>1, <1>5
  <2>3. QED
    BY <1>1, <2>1, <2>2 DEF GuardInv, GuardTypeOK
<1>7. Remembered'
  BY <1>1 DEF GuardInv, Remembered
<1>8. since' \in 0..LoopWindow /\ fallback' = since'
  BY <1>1, <1>2, <1>5
<1>9. /\ m \in Nat /\ fallbacks' <= m
      /\ \A i \in 1..m : i > m - fallbacks' => Linked(i)'
      /\ \A i \in 1..m : i > m - fallbacks' + 1 => trail'[i].soon
      /\ \A i \in 1..m : i = m - fallbacks' => Broken(i)'
  <2>1. CASE loop
    <3>1. fallbacks' = 0 /\ trail'[m].warned
      BY <1>1, <1>3, <2>1
    <3>2. m \in Nat /\ m - fallbacks' = m
      BY <1>2, <1>5, <3>1
    <3>3. \A i \in 1..m : ~(i > m - fallbacks') /\ ~(i > m - fallbacks' + 1)
      BY <3>2
    <3>4. ASSUME NEW i \in 1..m, i = m - fallbacks' PROVE Broken(i)'
      <4>1. i = m
        BY <3>2, <3>4
      <4>2. QED
        BY <3>1, <4>1 DEF Broken
    <3>5. QED
      BY <3>1, <3>2, <3>3, <3>4
  <2>2. CASE ~loop /\ Again(hash) /\ fallbacks > 0
    <3>1. /\ fallbacks' = fallbacks + 1 /\ hash = lastHash /\ since < LoopWindow /\ lastHash' = lastHash
          /\ ~trail'[m].warned
      BY <1>1, <1>3, <1>4, <2>2 DEF Again
    <3>2. m \in Nat /\ fallbacks' <= m /\ m - fallbacks' = n - fallbacks - Shift
      BY <1>2, <1>5, <2>2, <3>1 DEF loop
    <3>3. ASSUME NEW i \in 1..m, i > m - fallbacks' PROVE Linked(i)'
      <4>1. CASE i = m
        BY <1>1, <1>3, <3>1, <4>1 DEF Linked
      <4>2. CASE i # m
        <5>1. i \in 1 .. m - 1 /\ i + Shift > n - fallbacks
          BY <1>2, <1>5, <3>2, <3>3, <4>2
        <5>2. Linked(i + Shift) /\ trail'[i] = trail[i + Shift]
          BY <1>2, <1>4, <5>1
        <5>3. QED
          BY <3>1, <5>2 DEF Linked
      <4>3. QED
        BY <4>1, <4>2
    <3>4. ASSUME NEW i \in 1..m, i > m - fallbacks' + 1 PROVE trail'[i].soon
      <4>1. CASE i = m
        BY <1>3, <3>1, <4>1
      <4>2. CASE i # m
        <5>1. i \in 1 .. m - 1 /\ i + Shift > n - fallbacks + 1
          BY <1>2, <1>5, <3>2, <3>4, <4>2
        <5>2. QED
          BY <1>2, <1>4, <5>1
      <4>3. QED
        BY <4>1, <4>2
    <3>5. ASSUME NEW i \in 1..m, i = m - fallbacks' PROVE Broken(i)'
      <4>1. i \in 1 .. m - 1 /\ i + Shift = n - fallbacks
        BY <1>2, <1>5, <3>1, <3>2, <3>5
      <4>2. Broken(i + Shift) /\ trail'[i] = trail[i + Shift]
        BY <1>2, <1>4, <4>1
      <4>3. i + 1 \in 1 .. m - 1 /\ (i + 1) + Shift = (i + Shift) + 1
        BY <1>2, <1>5, <2>2, <3>1, <3>5, <4>1
      <4>4. trail'[i + 1] = trail[(i + Shift) + 1]
        BY <1>2, <4>3
      <4>5. fallbacks' > 0
        BY <1>5, <3>1
      <4>6. QED
        BY <2>2, <3>1, <4>2, <4>4, <4>5 DEF Broken
    <3>6. QED
      BY <3>2, <3>3, <3>4, <3>5
  <2>3. CASE ~loop /\ ~(Again(hash) /\ fallbacks > 0)
    <3>1. fallbacks' = 1 /\ ~trail'[m].warned
      BY <1>1, <1>3, <1>5, <2>3
    <3>2. m \in Nat /\ m >= 1
      BY <1>2, <1>5
    <3>3. ASSUME NEW i \in 1..m, i > m - fallbacks' PROVE Linked(i)'
      <4>1. i = m
        BY <3>1, <3>2, <3>3
      <4>2. QED
        BY <1>1, <1>3, <3>1, <4>1 DEF Linked
    <3>4. ASSUME NEW i \in 1..m, i = m - fallbacks' PROVE Broken(i)'
      <4>1. i \in 1 .. m - 1 /\ i + Shift = n /\ i + 1 = m
        BY <1>2, <1>5, <3>1, <3>4
      <4>2. trail'[i] = trail[n] /\ trail'[i + 1] = trail'[m] /\ n \in 1..n
        BY <1>2, <4>1
      <4>3. CASE fallbacks = 0
        <5>1. Broken(n)
          BY <1>4, <1>5, <4>2, <4>3
        <5>2. ~trail[n].isFallback \/ trail[n].warned
          BY <4>3, <5>1 DEF Broken
        <5>3. QED
          BY <4>2, <5>2 DEF Broken
      <4>4. CASE fallbacks > 0
        <5>1. Linked(n)
          BY <1>4, <1>5, <4>2, <4>4
        <5>2. hash # lastHash \/ ~(since < LoopWindow)
          BY <1>4, <2>3, <4>4 DEF Again
        <5>3. trail'[i].hash # lastHash' \/ ~trail'[i + 1].soon
          BY <1>1, <1>3, <4>2, <5>1, <5>2 DEF Linked
        <5>4. fallbacks' > 0
          BY <3>1
        <5>5. QED
          BY <5>3, <5>4 DEF Broken
      <4>5. QED
        BY <1>5, <4>3, <4>4
    <3>5. QED
      BY <3>1, <3>2, <3>3, <3>4
  <2>4. QED
    BY <2>1, <2>2, <2>3
<1>10. Chained'
  BY <1>2, <1>8, <1>9 DEF Chained, m
<1>11. QED
  BY <1>6, <1>7, <1>10 DEF GuardInv

\* A route that is found ends the chain.
LEMMA ResolvedInv ==
  ASSUME GuardInv, NEW hash \in Hashes, Resolved(hash)
  PROVE  GuardInv'
<1>1. /\ UNCHANGED <<recent, firstStorm, past, fallback>> /\ lastHash' = hash /\ fallbacks' = 0
      /\ said' = "nothing" /\ Logged(hash, FALSE)
  BY DEF Resolved
<1>2. /\ Len(trail') = Len(trail) + 1 - Shift /\ Shift \in 0..1 /\ Len(trail) \in Nat
      /\ trail' \in Seq(Resolutions) /\ Len(trail') <= LoopCount /\ since' = 0
      /\ trail'[Len(trail')] = Resolution(hash, FALSE)
  BY <1>1, LoggedEffect
<1>3. ~trail'[Len(trail')].isFallback
  BY <1>2 DEF Resolution
<1>4. GuardTypeOK' /\ Remembered'
  BY <1>1, FallbackTypes DEF GuardInv, GuardTypeOK, Remembered
<1>5. Chained'
  <2>1. \A i \in 1..Len(trail') : i = Len(trail') - fallbacks' => Broken(i)'
    <3>1. SUFFICES ASSUME NEW i \in 1..Len(trail'), i = Len(trail') - fallbacks' PROVE Broken(i)'
      OBVIOUS
    <3>2. i = Len(trail')
      BY <1>1, <1>2, <3>1
    <3>3. QED
      BY <1>3, <3>2 DEF Broken
  <2>2. QED
    BY <1>1, <1>2, <2>1, FallbackTypes DEF Chained
<1>6. QED
  BY <1>4, <1>5 DEF GuardInv

\* What is remembered ages with what is kept.
LEMMA TickInv ==
  ASSUME GuardInv, Tick
  PROVE  GuardInv'
<1>1. ASSUME NEW k \in Kinds
      PROVE  /\ DOMAIN recent'[k] = DOMAIN recent[k]
             /\ \A e \in DOMAIN recent[k] : recent'[k][e] = Older(recent[k][e], Window[k] + 1)
             /\ DOMAIN past'[k] = {e \in DOMAIN past[k] : past[k][e] < Window[k]}
             /\ \A e \in DOMAIN past'[k] : past'[k][e] = past[k][e] + 1
  <2>1. /\ recent'[k] = Aged(recent[k], Window[k] + 1)
        /\ past'[k] = [e \in {d \in DOMAIN past[k] : past[k][d] < Window[k]} |-> past[k][e] + 1]
    BY DEF Tick
  <2>2. QED
    BY <2>1 DEF Aged
<1>2. ASSUME NEW k \in Kinds
      PROVE  /\ Window[k] \in Nat
             /\ \A e \in DOMAIN recent[k] : recent[k][e] \in 0 .. Window[k] + 1
             /\ DOMAIN past[k] = {e \in DOMAIN recent[k] : recent[k][e] <= Window[k]}
             /\ \A e \in DOMAIN past[k] : past[k][e] = recent[k][e]
  BY GuardConstants DEF GuardInv, GuardTypeOK, Remembered
<1>3. GuardTypeOK'
  <2>1. ASSUME NEW k \in Kinds
        PROVE  \A e \in DOMAIN recent'[k] : recent'[k][e] \in 0 .. Window[k] + 1
    BY <1>1, <1>2 DEF Older
  <2>2. firstStorm' \in 0..Never
    BY GuardConstants DEF Tick, GuardInv, GuardTypeOK, Older, Never
  <2>3. fallback' \in 0..LoopWindow
    BY GuardConstants DEF Tick, GuardInv, GuardTypeOK, Older
  <2>4. UNCHANGED <<lastHash, fallbacks>> /\ said' = "nothing"
    BY DEF Tick
  <2>5. QED
    BY <1>1, <2>1, <2>2, <2>3, <2>4 DEF GuardInv, GuardTypeOK
<1>4. Remembered'
  <2>1. ASSUME NEW k \in Kinds
        PROVE  /\ DOMAIN past'[k] = {e \in DOMAIN recent'[k] : recent'[k][e] <= Window[k]}
               /\ \A e \in DOMAIN past'[k] : past'[k][e] = recent'[k][e]
    BY <1>1, <1>2 DEF Older
  <2>2. DOMAIN recent' = Kinds /\ DOMAIN past' = Kinds
    BY DEF Tick
  <2>3. QED
    BY <2>1, <2>2 DEF Remembered
<1>5. Chained'
  <2>1. UNCHANGED <<lastHash, fallbacks, trail>>
    BY DEF Tick
  <2>2. since' \in 0..LoopWindow /\ (fallbacks > 0 => fallback' = since')
    BY FallbackTypes DEF Tick, GuardInv, Chained, Older
  <2>3. QED
    BY <2>1, <2>2 DEF GuardInv, Chained, Linked, Broken
<1>6. QED
  BY <1>3, <1>4, <1>5 DEF GuardInv

-----------------------------------------------------------------------------
(* The theorems about the guard. *)

\* The inductive invariant of the guard, for any thresholds and windows.
THEOREM GuardSpecInv == GuardSpec => []GuardInv
<1>1. GuardInv /\ [GuardNext]_guardVars => GuardInv'
  <2> SUFFICES ASSUME GuardInv, [GuardNext]_guardVars PROVE GuardInv'
    OBVIOUS
  <2>1. CASE UNCHANGED guardVars
    BY <2>1 DEF guardVars, GuardInv, GuardTypeOK, Remembered, Chained, Linked, Broken
  <2>2. CASE GuardNext
    BY <2>2, RecordInv, FallbackInv, ResolvedInv, TickInv DEF GuardNext
  <2>3. QED
    BY <2>1, <2>2
<1>2. QED
  BY <1>1, GuardInitInv, PTL DEF GuardSpec

\* The guard keeps its types, and its lists of events stay short.
THEOREM SpecGuardTypeOK == GuardSpec => []GuardTypeOK
<1>1. GuardInv => GuardTypeOK
  BY DEF GuardInv
<1>2. QED
  BY <1>1, GuardSpecInv, PTL

\* An event raises an alarm exactly when it is one too many in the window since the last
\* alarm (record401, recordLoginAttempt, anomalyGuard.ts 33-72).
THEOREM SpecStormsExact == GuardSpec => StormsExact
<1>1. ASSUME GuardInv, NEW k \in Kinds, NEW event \in Events, Record(k, event)
      PROVE  said' # "nothing" <=> Cardinality(DOMAIN past[k]) + 1 > StormThreshold[k]
  BY <1>1, RecordEffect
<1>2. GuardInv /\ [GuardNext]_guardVars
        => [\A k \in Kinds, event \in Events :
              Record(k, event) =>
                (said' # "nothing" <=> Cardinality(DOMAIN past[k]) + 1 > StormThreshold[k])]_guardVars
  BY <1>1
<1>3. QED
  BY <1>2, GuardSpecInv, PTL DEF GuardSpec, StormsExact

\* A fallback is warned of exactly when it closes a loop (recordRouteResolution,
\* anomalyGuard.ts 74-95).
THEOREM SpecLoopsExact == GuardSpec => LoopsExact
<1>1. GuardInv /\ [GuardNext]_guardVars
        => [\A hash \in Hashes : Fallback(hash) => (said' # "nothing" <=> IsLoop(trail'))]_guardVars
  BY FallbackExact
<1>2. QED
  BY <1>1, GuardSpecInv, PTL DEF GuardSpec, LoopsExact

=============================================================================
