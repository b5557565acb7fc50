--------------------------- MODULE CircuitBreaker ----------------------------
(***************************************************************************)
(* policies/circuit.breaker.ts: one entry of rt.__BREAKERS__ shared by     *)
(* concurrent withBreaker calls on the same key.                           *)
(*                                                                         *)
(* JavaScript runs each stretch of code between two awaits without         *)
(* interruption, so an action is one such stretch: the entry of a call     *)
(* down to the race it awaits, the settlement of that race with everything *)
(* it does to the entry, and the wake-up after a backoff.  A call that was *)
(* let in keeps no memory of the state it saw: its answer is applied to    *)
(* whatever state the entry is in when it arrives.                         *)
(*                                                                         *)
(* Time: nextAttemptAt is kept as the ticks that remain of it (cooldown),  *)
(* which is what every test on it compares; the clock needs no bound.      *)
(* timeoutMs and the backoff sleep are durations nothing else is compared  *)
(* with: they end at any time, and fairness says that they end.            *)
(***************************************************************************)
EXTENDS Naturals, FiniteSets

CONSTANTS Callers,   \* the concurrent users of the key
          Configs,   \* the configurations they may pass (DEFAULTS with a patch)
          NoCfg      \* the entry has not been created yet

Config == [failureThreshold: Nat \ {0}, successThreshold: Nat \ {0},
           openMs: Nat, maxRetries: Nat]

ASSUME ConfigsAssumption ==
  /\ Configs # {} /\ Configs \subseteq Config
  /\ NoCfg \notin Configs

VARIABLES breaker,   \* the entry: state, failures, successes, cooldown, cfg
          calls,     \* where each caller is inside withBreaker
          gauge      \* the breaker.state gauge of the metrics registry

vars == <<breaker, calls, gauge>>

States == {"CLOSED", "OPEN", "HALF_OPEN"}

TypeOK ==
  /\ breaker \in [state: States, failures: Nat, successes: Nat,
                  cooldown: Nat, cfg: Configs \cup {NoCfg}]
  /\ calls \in [Callers -> [pc: {"idle", "racing", "backoff"},
                            attempt: Nat, cfg: Configs \cup {NoCfg}]]
  /\ gauge \in States \cup {"unset"}

Idle == [pc |-> "idle", attempt |-> 0, cfg |-> NoCfg]

Init ==
  /\ breaker = [state |-> "CLOSED", failures |-> 0, successes |-> 0,
                cooldown |-> 0, cfg |-> NoCfg]
  /\ calls = [c \in Callers |-> Idle]
  /\ gauge = "unset"

-----------------------------------------------------------------------------
(* The transitions of the entry. *)

\* The cool-down is that of the entry's cfg: of the latest caller, which
\* need not be the caller whose failure opens it.
Opened(b) == [b EXCEPT !.state = "OPEN", !.cooldown = b.cfg.openMs, !.successes = 0]

HalfOpened(b) == [b EXCEPT !.state = "HALF_OPEN", !.failures = 0, !.successes = 0]

Closed(b) == [b EXCEPT !.state = "CLOSED", !.failures = 0, !.successes = 0, !.cooldown = 0]

\* Mutant: the caller's patch is merged into the configuration the entry has,
\* instead of DEFAULTS, so the cool-down it leaves out stays another caller's.
MutFetched(b, cfg) ==
  [b EXCEPT !.cfg = IF b.cfg = NoCfg THEN cfg ELSE [cfg EXCEPT !.openMs = b.cfg.openMs]]

\* Every call stores its own configuration in the entry.
Fetched(b, cfg) == [b EXCEPT !.cfg = cfg]

\* Mutant: nextAttemptAt is not looked at.
MutCoolingDown(b) == FALSE

CoolingDown(b) == b.state = "OPEN" /\ b.cooldown > 0

AfterSuccess(b, cfg) ==
  CASE b.state = "HALF_OPEN" /\ b.successes + 1 >= cfg.successThreshold -> Closed(b)
    [] b.state = "HALF_OPEN" /\ b.successes + 1 < cfg.successThreshold ->
         [b EXCEPT !.successes = @ + 1]
    [] OTHER -> [b EXCEPT !.failures = 0]

\* Mutant: one failure too many is tolerated.
MutTrips(b, cfg) == b.state = "HALF_OPEN" \/ b.failures >= cfg.failureThreshold

Trips(b, cfg) == b.state = "HALF_OPEN" \/ b.failures + 1 >= cfg.failureThreshold

AfterFailure(b, cfg) ==
  LET counted == [b EXCEPT !.failures = @ + 1]
  IN  IF Trips(b, cfg) THEN Opened(counted) ELSE counted

Attempts(cfg) == 1 + cfg.maxRetries

-----------------------------------------------------------------------------
(* withBreaker. *)

\* Mutant: a call that finds the breaker cooling down is let in all the same.
MutAdmit(c, cfg) ==
  /\ calls[c].pc = "idle"
  /\ breaker' = Fetched(breaker, cfg)
  /\ calls' = [calls EXCEPT ![c] = [pc |-> "racing", attempt |-> 1, cfg |-> cfg]]
  /\ UNCHANGED gauge

\* The call is let in: an OPEN entry whose cool-down is over turns
\* HALF_OPEN, and the first attempt starts.  HALF_OPEN admits any number.
Admit(c, cfg) ==
  /\ calls[c].pc = "idle"
  /\ ~CoolingDown(breaker)
  /\ breaker' = IF breaker.state = "OPEN"
                THEN HalfOpened(Fetched(breaker, cfg)) ELSE Fetched(breaker, cfg)
  /\ calls' = [calls EXCEPT ![c] = [pc |-> "racing", attempt |-> 1, cfg |-> cfg]]
  /\ UNCHANGED gauge

\* ERR_BREAKER_OPEN: the entry keeps the rejected caller's configuration.
Reject(c, cfg) ==
  /\ calls[c].pc = "idle"
  /\ CoolingDown(breaker)
  /\ breaker' = Fetched(breaker, cfg)
  /\ gauge' = breaker.state
  /\ UNCHANGED calls

\* The work won the race and resolved.
Succeed(c) ==
  /\ calls[c].pc = "racing"
  /\ breaker' = AfterSuccess(breaker, calls[c].cfg)
  /\ gauge' = breaker'.state
  /\ calls' = [calls EXCEPT ![c] = Idle]

\* The catch block: the failure is counted and the call sleeps before
\* another attempt, or gives up.
Fault(c) ==
  LET call == calls[c]
  IN  /\ call.pc = "racing"
      /\ breaker' = AfterFailure(breaker, call.cfg)
      /\ gauge' = IF Trips(breaker, call.cfg) THEN "OPEN" ELSE gauge
      /\ calls' = [calls EXCEPT ![c] =
                     IF call.attempt < Attempts(call.cfg)
                     THEN [call EXCEPT !.pc = "backoff"] ELSE Idle]

\* The work won the race and rejected.
Fail(c) == Fault(c)

\* Mutant: the work is awaited without a race.
MutTimeOut(c) == FALSE

\* The sleep of timeoutMs won the race; the work's own answer is dropped.
TimeOut(c) == Fault(c)

\* The backoff is over.  The loop does not look at the entry again.
Retry(c) ==
  /\ calls[c].pc = "backoff"
  /\ calls' = [calls EXCEPT ![c].pc = "racing", ![c].attempt = @ + 1]
  /\ UNCHANGED <<breaker, gauge>>

Tick ==
  /\ breaker.cooldown > 0
  /\ breaker' = [breaker EXCEPT !.cooldown = @ - 1]
  /\ UNCHANGED <<calls, gauge>>

Next ==
  \/ \E c \in Callers, cfg \in Configs : Admit(c, cfg) \/ Reject(c, cfg)
  \/ \E c \in Callers : Succeed(c) \/ Fail(c) \/ TimeOut(c) \/ Retry(c)
  \/ Tick

Spec == Init /\ [][Next]_vars

\* Timers fire: the clock, the timeout of every attempt and the end of every
\* backoff.  Nothing is assumed of the work, which may never answer.
Fairness ==
  /\ WF_vars(Tick)
  /\ \A c \in Callers : WF_vars(TimeOut(c)) /\ WF_vars(Retry(c))

FairSpec == Spec /\ Fairness

-----------------------------------------------------------------------------
(* Properties. *)

\* A CLOSED breaker has counted fewer failures than a caller tolerates, also
\* when its callers disagree on the threshold: no failure slips through
\* uncounted between the threshold test and the opening (lines 181-186).
ClosedWithinBudget ==
  breaker.state = "CLOSED" =>
    \E cfg \in Configs : breaker.failures < cfg.failureThreshold

\* A HALF_OPEN breaker is a fresh trial: no failure has been counted, its
\* cool-down is over and it is still short of the successes that close it,
\* although answers of calls let in long before count in it (156-179).
HalfOpenIsFresh ==
  breaker.state = "HALF_OPEN" =>
    /\ breaker.failures = 0 /\ breaker.cooldown = 0
    /\ \E cfg \in Configs : breaker.successes < cfg.successThreshold

\* However many late failures re-open it, the breaker never refuses for longer
\* than one cool-down from now, and a CLOSED one refuses nothing (94-113).
CooldownBounded ==
  /\ \E cfg \in Configs : breaker.cooldown <= cfg.openMs
  /\ breaker.state = "CLOSED" => breaker.cooldown = 0

\* What the operator's gauge shows lags the breaker in one way only: a probe
\* that has not answered yet is still shown as OPEN (noteBreakerState is not
\* called by the half-opening, line 129).
GaugeLagsOnlyProbes ==
  \/ gauge = breaker.state
  \/ gauge = "OPEN" /\ breaker.state = "HALF_OPEN"
  \/ gauge = "unset" /\ breaker.state = "CLOSED"

\* An OPEN breaker never closes without a half-open trial in between, even if
\* a call let in before it opened succeeds now (lines 156-164).
OpenNeverClosesDirectly ==
  [][breaker.state = "OPEN" => breaker'.state # "CLOSED"]_vars

\* Late failures may push the cool-down back, but not for ever: an OPEN
\* breaker reaches the end of its cool-down, or a trial, because nothing new is
\* let in meanwhile (lines 127-137).
CooldownEnds == breaker.state = "OPEN" ~> ~CoolingDown(breaker)

\* Every call let in settles, even if its work hangs in every attempt
\* (the timeout of lines 145-154 bounds each).
CallSettles == \A c \in Callers : calls[c].pc # "idle" ~> calls[c].pc = "idle"

-----------------------------------------------------------------------------
(* The contract, with the cool-downs and quotas of the configurations.      *)

Contract == INSTANCE BreakerContract
  WITH state <- breaker.state, cooldown <- breaker.cooldown,
       good <- breaker.successes,
       Cooldowns <- {cfg.openMs : cfg \in Configs},
       Quotas <- {cfg.successThreshold : cfg \in Configs}

\* Whatever calls, retries and late answers do to it, the entry behaves as the
\* contract of a circuit breaker says (lines 94-197).
ImplementsContract == Contract!Spec

=============================================================================
