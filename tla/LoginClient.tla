----------------------------- MODULE LoginClient -----------------------------
(***************************************************************************)
(* How the control plane gets its API token: services/authService.ts and    *)
(* platform/http/cpApi.ts, in the tabs of one browser profile.  The token,   *)
(* the login lock and the failure count are in localStorage, shared by the  *)
(* tabs; the login in flight is in the memory of each.  Tabs run in          *)
(* different processes, so every localStorage call is a step of its own.     *)
(*                                                                         *)
(* Clocks are left out: a lock may expire and the failure window may pass    *)
(* at any moment.  The endpoint may refuse any token and any login.          *)
(***************************************************************************)
EXTENDS Naturals, FiniteSets

CONSTANTS Tabs,
          Requests,
          TabsOf,      \* the tabs a request may be made in
          Nobody,      \* no lock
          Orphan,      \* the lock id of a tab that was closed
          Patience,    \* tries to take the lock until acquireLoginLock's deadline
          Threshold,   \* failures that open the login circuit (5)
          MaxCount     \* bound on the failures an origin counts (50)

ASSUME LoginAssumption ==
  /\ TabsOf \in [Requests -> SUBSET Tabs]
  /\ Nobody \notin Tabs /\ Orphan \notin Tabs /\ Nobody # Orphan
  /\ Patience \in Nat \ {0} /\ Threshold \in Nat \ {0}
  /\ MaxCount \in Nat /\ Threshold <= MaxCount

ASSUME TabsFinite == IsFiniteSet(Tabs)

VARIABLES token,     \* API_TOKEN_KEY is set
          lock,      \* LOGIN_LOCK_KEY: whose id, and whether it has not expired
          fails,     \* LOGIN_FAIL_KEY: the count, and whether lastTs is within 60 s
          login,     \* inflightLogin of each tab and how far it is
          requests,  \* calls of cpFetchInternal
          storm      \* history: failures since the last success or quiet window

shared == <<token, lock, fails>>
vars == <<token, lock, fails, login, requests, storm>>

Phases == {"none", "circuit", "look", "write", "reread", "recheck", "post",
           "clear", "count", "bump", "store", "forgive", "release", "remove"}

Idle == [pc |-> "idle", retry |-> FALSE, tab |-> Nobody]

Fresh(pc) == [pc |-> pc, tries |-> 0, held |-> FALSE, base |-> 0, ok |-> FALSE]

NoLogin == Fresh("none")

TypeOK ==
  /\ token \in BOOLEAN
  /\ lock \in [id: Tabs \cup {Nobody, Orphan}, live: BOOLEAN]
  /\ fails \in [count: 0..MaxCount, recent: BOOLEAN]
  /\ login \in [Tabs -> [pc: Phases, tries: 0..Patience, held: BOOLEAN,
                         base: 0..MaxCount, ok: BOOLEAN]]
  /\ requests \in [Requests -> [pc: {"idle", "start", "before", "sent",
                                     "clear", "ensure", "after"}, retry: BOOLEAN,
                            tab: Tabs \cup {Nobody}]]
  /\ storm \in Nat

-----------------------------------------------------------------------------
(* A request: cpFetchInternal. *)

Request(q, from, to) ==
  /\ requests[q].pc = from
  /\ requests' = [requests EXCEPT ![q].pc = to]

\* ensureApiAccessToken without a token: join the login of the tab or begin one.
JoinLogin(t) ==
  login' = IF login[t].pc = "none" THEN [login EXCEPT ![t] = Fresh("circuit")]
           ELSE login

Begin(q) ==
  /\ requests[q].pc = "idle"
  /\ \E t \in TabsOf[q] :
       requests' = [requests EXCEPT ![q] = [pc |-> "start", retry |-> TRUE, tab |-> t]]
  /\ UNCHANGED <<shared, login, storm>>

\* preEnsureTokenIfMissing, whose errors are swallowed; then the request goes out
\* with the token there is, if any.
PreEnsure(q) ==
  \/ token /\ Request(q, "start", "sent") /\ UNCHANGED <<shared, login, storm>>
  \/ /\ ~token /\ Request(q, "start", "before")
     /\ JoinLogin(requests[q].tab)
     /\ UNCHANGED <<shared, storm>>

\* Anything but a 401 for the token, or a 401 for the second time.
Answered(q) ==
  /\ requests[q].pc = "sent"
  /\ requests' = [requests EXCEPT ![q] = Idle]
  /\ UNCHANGED <<shared, login, storm>>

\* Mutant: a request is retried as often as it gets a 401.
MutUnauthorized(q) ==
  Request(q, "sent", "clear") /\ UNCHANGED <<shared, login, storm>>

\* INVALID_TOKEN or AUTH_REQUIRED, and not retried yet.
Unauthorized(q) ==
  /\ requests[q].retry
  /\ Request(q, "sent", "clear")
  /\ UNCHANGED <<shared, login, storm>>

ClearToken(q) ==
  /\ Request(q, "clear", "ensure")
  /\ token' = FALSE
  /\ UNCHANGED <<lock, fails, login, storm>>

Retried(r) == [r EXCEPT !.pc = "start", !.retry = FALSE]

\* The token another tab may have set meanwhile is used as it is.
EnsureToken(q) ==
  /\ requests[q].pc = "ensure"
  /\ \/ /\ token
        /\ requests' = [requests EXCEPT ![q] = Retried(@)]
        /\ UNCHANGED login
     \/ ~token /\ Request(q, "ensure", "after") /\ JoinLogin(requests[q].tab)
  /\ UNCHANGED <<shared, storm>>

-----------------------------------------------------------------------------
(* The login of a tab: the body of ensureApiAccessToken. *)

At(t, pc) == login[t].pc = pc
Goto(t, pc) == login' = [login EXCEPT ![t].pc = pc]

\* The promise settles: whoever waits before a request goes on in any case,
\* whoever waits after a 401 retries or gives up.
Settle(t, ok) ==
  /\ login' = [login EXCEPT ![t] = NoLogin]
  /\ requests' = [q \in Requests |->
       IF requests[q].tab # t THEN requests[q]
       ELSE CASE requests[q].pc = "before" -> [requests[q] EXCEPT !.pc = "sent"]
              [] requests[q].pc = "after" /\ ok -> Retried(requests[q])
              [] requests[q].pc = "after" /\ ~ok -> Idle
              [] OTHER -> requests[q]]

CircuitOpen == fails.count >= Threshold /\ fails.recent

\* Mutant: the circuit is not looked at.
MutCheckCircuit(t) ==
  /\ At(t, "circuit")
  /\ Goto(t, "look") /\ UNCHANGED <<shared, requests, storm>>

CheckCircuit(t) ==
  /\ At(t, "circuit")
  /\ \/ CircuitOpen /\ Settle(t, FALSE) /\ UNCHANGED <<shared, storm>>
     \/ ~CircuitOpen /\ Goto(t, "look") /\ UNCHANGED <<shared, requests, storm>>

\* acquireLoginLock: the deadline comes after a try that failed, after the last at
\* the latest; the login then goes on without the lock.
LookAtLock(t) ==
  /\ At(t, "look")
  /\ \/ login[t].tries < Patience /\ (lock.id = Nobody \/ ~lock.live)
        /\ Goto(t, "write")
     \/ login[t].tries < Patience /\ lock.id # Nobody /\ lock.live
        /\ login' = [login EXCEPT ![t].tries = @ + 1]
     \/ login[t].tries > 0 /\ login' = [login EXCEPT ![t].pc = "recheck", ![t].tries = 0]
  /\ UNCHANGED <<shared, requests, storm>>

WriteLock(t) ==
  /\ At(t, "write")
  /\ lock' = [id |-> t, live |-> TRUE]
  /\ Goto(t, "reread")
  /\ UNCHANGED <<token, fails, requests, storm>>

RereadLock(t) ==
  /\ At(t, "reread")
  /\ login' = [login EXCEPT ![t] =
       IF lock.id = t THEN [@ EXCEPT !.pc = "recheck", !.held = TRUE, !.tries = 0]
                      ELSE [@ EXCEPT !.pc = "look", !.tries = login[t].tries + 1]]
  /\ UNCHANGED <<shared, requests, storm>>

\* Another tab may have logged in meanwhile.
RecheckToken(t) ==
  /\ At(t, "recheck")
  /\ login' = [login EXCEPT ![t] = IF token THEN [@ EXCEPT !.pc = "release", !.ok = TRUE]
                                            ELSE [@ EXCEPT !.pc = "post"]]
  /\ UNCHANGED <<shared, requests, storm>>

\* POST /api/auth/login is answered with a token, refused, or fails on the way;
\* only a refusal counts as a failure.
LoginAnswered(t) ==
  /\ At(t, "post")
  /\ Goto(t, "store") \/ Goto(t, "clear") \/ Goto(t, "release")
  /\ UNCHANGED <<shared, requests, storm>>

\* A refused login clears the token, whoever set it, and counts: bumpFail.
ClearAfterFailure(t) ==
  /\ At(t, "clear")
  /\ token' = FALSE
  /\ Goto(t, "count")
  /\ UNCHANGED <<lock, fails, requests, storm>>

\* A count that is very old starts again.
ReadFails(t) ==
  /\ At(t, "count")
  /\ \E base \in {fails.count} \cup (IF fails.recent THEN {} ELSE {0}) :
       login' = [login EXCEPT ![t].pc = "bump", ![t].base = base]
  /\ UNCHANGED <<shared, requests, storm>>

\* Mutant: the count has no ceiling.
MutBumpFails(t) ==
  /\ At(t, "bump")
  /\ fails' = [count |-> login[t].base + 1, recent |-> TRUE]
  /\ storm' = storm + 1
  /\ login' = [login EXCEPT ![t].pc = "release", ![t].base = 0]
  /\ UNCHANGED <<token, lock, requests>>

BumpFails(t) ==
  /\ At(t, "bump")
  /\ fails' = [count |-> IF login[t].base = MaxCount THEN MaxCount ELSE login[t].base + 1,
               recent |-> TRUE]
  /\ storm' = storm + 1
  /\ login' = [login EXCEPT ![t].pc = "release", ![t].base = 0]
  /\ UNCHANGED <<token, lock, requests>>

StoreToken(t) ==
  /\ At(t, "store")
  /\ token' = TRUE
  /\ Goto(t, "forgive")
  /\ UNCHANGED <<lock, fails, requests, storm>>

ClearFails(t) ==
  /\ At(t, "forgive")
  /\ fails' = [count |-> 0, recent |-> FALSE]
  /\ storm' = 0
  /\ login' = [login EXCEPT ![t].pc = "release", ![t].ok = TRUE]
  /\ UNCHANGED <<token, lock, requests>>

\* Mutant: the lock is given back after a success only.
MutRelease(t) ==
  /\ At(t, "release")
  /\ IF login[t].held /\ login[t].ok /\ lock.id = t
     THEN Goto(t, "remove") /\ UNCHANGED requests
     ELSE Settle(t, login[t].ok)
  /\ UNCHANGED <<shared, storm>>

\* finally: a lock that was taken is removed if it still is this login's.
Release(t) ==
  /\ At(t, "release")
  /\ IF login[t].held /\ lock.id = t
     THEN Goto(t, "remove") /\ UNCHANGED requests
     ELSE Settle(t, login[t].ok)
  /\ UNCHANGED <<shared, storm>>

RemoveLock(t) ==
  /\ At(t, "remove")
  /\ lock' = [id |-> Nobody, live |-> FALSE]
  /\ Settle(t, login[t].ok)
  /\ UNCHANGED <<token, fails, storm>>

-----------------------------------------------------------------------------
(* The rest of the world. *)

LockExpires ==
  /\ lock.live
  /\ lock' = [lock EXCEPT !.live = FALSE]
  /\ UNCHANGED <<token, fails, login, requests, storm>>

WindowPasses ==
  /\ fails.recent
  /\ fails' = [fails EXCEPT !.recent = FALSE]
  /\ storm' = 0
  /\ UNCHANGED <<token, lock, login, requests>>

\* A tab is closed, and opened again with nothing in its memory.
Close(t) ==
  /\ login' = [login EXCEPT ![t] = NoLogin]
  /\ requests' = [q \in Requests |->
       IF requests[q].tab = t THEN Idle ELSE requests[q]]
  /\ lock' = IF lock.id = t THEN [lock EXCEPT !.id = Orphan] ELSE lock
  /\ UNCHANGED <<token, fails, storm>>

Init ==
  /\ token = FALSE /\ lock = [id |-> Nobody, live |-> FALSE]
  /\ fails = [count |-> 0, recent |-> FALSE]
  /\ login = [t \in Tabs |-> NoLogin]
  /\ requests = [q \in Requests |-> Idle]
  /\ storm = 0

RequestStep(q) ==
  \/ PreEnsure(q) \/ Answered(q) \/ Unauthorized(q)
  \/ ClearToken(q) \/ EnsureToken(q)

LoginStep(t) ==
  \/ CheckCircuit(t) \/ LookAtLock(t) \/ WriteLock(t) \/ RereadLock(t)
  \/ RecheckToken(t) \/ LoginAnswered(t) \/ ClearAfterFailure(t)
  \/ ReadFails(t) \/ BumpFails(t) \/ StoreToken(t) \/ ClearFails(t)
  \/ Release(t) \/ RemoveLock(t)

Next ==
  \/ \E q \in Requests : Begin(q) \/ RequestStep(q)
  \/ \E t \in Tabs : LoginStep(t) \/ Close(t)
  \/ LockExpires \/ WindowPasses

Spec == Init /\ [][Next]_vars

\* A tab that is open runs, and what it posts is answered or fails.
FairSpec ==
  /\ Spec
  /\ \A q \in Requests : WF_vars(RequestStep(q))
  /\ \A t \in Tabs : WF_vars(LoginStep(t))

-----------------------------------------------------------------------------
(* Properties. *)

\* The lock is never left behind by a tab that is open: whoever it names is
\* still logging in, or was closed (authService.ts 56-62, 205-207).
LockNotLeaked ==
  lock.id \in Tabs => login[lock.id].pc \notin {"none", "circuit", "look", "write"}

\* Two tabs whose logins overtake each other, each writing back a failure count it
\* read before the other's was written, still open the circuit: not at Threshold
\* failures in a row, but at a number of them that depends on Threshold alone, for
\* a tab's count is more than it had read (authService.ts 92-107, 161-164).
StormBounded ==
  Cardinality(Tabs) = 2 => storm <= (Threshold * (Threshold + 3)) \div 2

\* Every request is answered or given up, although the lock may be held by a tab
\* that was closed and logins may be refused ("do not deadlock boot",
\* authService.ts 69-71; retry once, cpApi.ts 150-157).
RequestSettles == \A q \in Requests : requests[q].pc # "idle" ~> requests[q].pc = "idle"

\* No two tabs post a login at once: "Cross-tab mutex: only 1 tab performs login at
\* a time" (authService.ts 166).
OneLoginAtATime == Cardinality({t \in Tabs : At(t, "post")}) <= 1

=============================================================================
