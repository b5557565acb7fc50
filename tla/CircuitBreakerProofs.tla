------------------------ MODULE CircuitBreakerProofs -------------------------
(***************************************************************************)
(* Theorems about CircuitBreaker for any callers and any configurations:   *)
(* the safety invariants, the step property and the refinement of          *)
(* BreakerContract.                                                        *)
(***************************************************************************)
EXTENDS CircuitBreaker, TLAPS

\* A call in flight knows its configuration, and the entry has one as soon as
\* anything is in flight or the entry has left its initial state.
CallsWellFormed ==
  \A c \in Callers : calls[c].pc # "idle" =>
                       calls[c].cfg \in Configs /\ breaker.cfg \in Configs

\* Successes are only counted during a trial.
SuccessesOnlyInTrial == breaker.state # "HALF_OPEN" => breaker.successes = 0

\* The inductive invariant of the circuit breaker.
IInv ==
  /\ TypeOK
  /\ CallsWellFormed
  /\ SuccessesOnlyInTrial
  /\ ClosedWithinBudget
  /\ HalfOpenIsFresh
  /\ CooldownBounded
  /\ GaugeLagsOnlyProbes

-----------------------------------------------------------------------------
(* The transitions of the entry. *)

\* The records the entry ranges over, once it has a configuration.
Entries == [state: States, failures: Nat, successes: Nat, cooldown: Nat, cfg: Configs]

\* Every caller's configuration has the fields withBreaker reads (lines 7-15).
LEMMA ConfigFields ==
  ASSUME NEW cfg \in Configs
  PROVE  /\ cfg.failureThreshold \in Nat \ {0}
         /\ cfg.successThreshold \in Nat \ {0}
         /\ cfg.openMs \in Nat
         /\ cfg.maxRetries \in Nat
BY ConfigsAssumption DEF Config

\* What an answer does to the entry is one of its transitions (lines 156-187).
LEMMA AfterSuccessEffect ==
  ASSUME NEW b \in Entries, NEW cfg \in Configs
  PROVE  /\ AfterSuccess(b, cfg) \in Entries
         /\ AfterSuccess(b, cfg).cfg = b.cfg
         /\ \/ /\ b.state = "HALF_OPEN"
               /\ b.successes + 1 >= cfg.successThreshold
               /\ AfterSuccess(b, cfg) = Closed(b)
            \/ /\ b.state = "HALF_OPEN"
               /\ b.successes + 1 < cfg.successThreshold
               /\ AfterSuccess(b, cfg) = [b EXCEPT !.successes = b.successes + 1]
            \/ /\ b.state # "HALF_OPEN"
               /\ AfterSuccess(b, cfg) = [b EXCEPT !.failures = 0]
<1>1. cfg.successThreshold \in Nat
  BY ConfigFields
<1>2. CASE b.state = "HALF_OPEN" /\ b.successes + 1 >= cfg.successThreshold
  <2>1. AfterSuccess(b, cfg) = Closed(b)
    BY <1>1, <1>2 DEF AfterSuccess, Entries
  <2>2. Closed(b) \in Entries /\ Closed(b).cfg = b.cfg
    BY DEF Closed, Entries, States
  <2>3. QED
    BY <2>1, <2>2, <1>2
<1>3. CASE b.state = "HALF_OPEN" /\ b.successes + 1 < cfg.successThreshold
  <2>1. AfterSuccess(b, cfg) = [b EXCEPT !.successes = b.successes + 1]
    BY <1>1, <1>3 DEF AfterSuccess, Entries
  <2>2. [b EXCEPT !.successes = b.successes + 1] \in Entries
    BY DEF Entries
  <2>3. QED
    BY <2>1, <2>2, <1>3 DEF Entries
<1>4. CASE b.state # "HALF_OPEN"
  <2>1. AfterSuccess(b, cfg) = [b EXCEPT !.failures = 0]
    BY <1>4 DEF AfterSuccess, Entries
  <2>2. [b EXCEPT !.failures = 0] \in Entries
    BY DEF Entries
  <2>3. QED
    BY <2>1, <2>2, <1>4 DEF Entries
<1>5. QED
  BY <1>1, <1>2, <1>3, <1>4 DEF Entries

\* A failure opens the entry or leaves it CLOSED/OPEN with one more failure.
LEMMA AfterFailureEffect ==
  ASSUME NEW b \in Entries, NEW cfg \in Configs
  PROVE  /\ AfterFailure(b, cfg) \in Entries
         /\ AfterFailure(b, cfg).cfg = b.cfg
         /\ \/ /\ Trips(b, cfg)
               /\ AfterFailure(b, cfg).state = "OPEN"
               /\ AfterFailure(b, cfg).cooldown = b.cfg.openMs
               /\ AfterFailure(b, cfg).successes = 0
            \/ /\ ~Trips(b, cfg)
               /\ b.state # "HALF_OPEN"
               /\ b.failures + 1 < cfg.failureThreshold
               /\ AfterFailure(b, cfg) = [b EXCEPT !.failures = b.failures + 1]
<1>1. cfg.failureThreshold \in Nat /\ b.cfg.openMs \in Nat
  BY ConfigFields DEF Entries
<1> DEFINE counted == [b EXCEPT !.failures = b.failures + 1]
<1>2. counted \in Entries /\ counted.cfg = b.cfg
  BY DEF Entries
<1>3. CASE Trips(b, cfg)
  <2>1. AfterFailure(b, cfg) = Opened(counted)
    BY <1>3 DEF AfterFailure, Entries
  <2>2. /\ Opened(counted) \in Entries
        /\ Opened(counted).cfg = b.cfg
        /\ Opened(counted).state = "OPEN"
        /\ Opened(counted).cooldown = b.cfg.openMs
        /\ Opened(counted).successes = 0
    BY <1>1, <1>2 DEF Opened, Entries, States
  <2>3. QED
    BY <2>1, <2>2, <1>3
<1>4. CASE ~Trips(b, cfg)
  <2>1. AfterFailure(b, cfg) = counted
    BY <1>4 DEF AfterFailure, Entries
  <2>2. b.state # "HALF_OPEN" /\ b.failures + 1 < cfg.failureThreshold
    BY <1>1, <1>4 DEF Trips, Entries
  <2>3. QED
    BY <2>1, <2>2, <1>2, <1>4
<1>5. QED
  BY <1>3, <1>4

-----------------------------------------------------------------------------
(* The inductive invariant. *)

\* The entry is created CLOSED, within everyone's budget (lines 60-77).
LEMMA InitIInv == Init => IInv
<1> SUFFICES ASSUME Init PROVE IInv
  OBVIOUS
<1>1. PICK cfg \in Configs : TRUE
  BY ConfigsAssumption
<1>2. 0 < cfg.failureThreshold /\ 0 <= cfg.openMs
  BY ConfigFields
<1>3. TypeOK /\ CallsWellFormed
  BY DEF Init, TypeOK, CallsWellFormed, Idle, States
<1>4. ClosedWithinBudget /\ CooldownBounded
  BY <1>2 DEF Init, ClosedWithinBudget, CooldownBounded
<1>5. QED
  BY <1>3, <1>4 DEF Init, IInv, SuccessesOnlyInTrial, HalfOpenIsFresh, GaugeLagsOnlyProbes

\* Letting a call in keeps the invariant (lines 121-138).
LEMMA AdmitIInv ==
  ASSUME IInv, NEW c \in Callers, NEW cfg \in Configs, Admit(c, cfg)
  PROVE  IInv'
<1> DEFINE f == Fetched(breaker, cfg)
<1> USE DEF IInv
<1>1. breaker.state = "OPEN" => breaker.cooldown = 0
  BY DEF Admit, CoolingDown, TypeOK
<1>2. f \in Entries /\ f = [breaker EXCEPT !.cfg = cfg]
  BY DEF TypeOK, Fetched, Entries
<1>3. calls' = [calls EXCEPT ![c] = [pc |-> "racing", attempt |-> 1, cfg |-> cfg]]
  BY DEF Admit
<1>4. CASE breaker.state = "OPEN"
  <2>1. breaker' = HalfOpened(f)
    BY <1>4 DEF Admit
  <2>2. /\ breaker' \in Entries /\ breaker'.state = "HALF_OPEN" /\ breaker'.failures = 0
        /\ breaker'.successes = 0 /\ breaker'.cooldown = 0 /\ breaker'.cfg = cfg
    BY <2>1, <1>1, <1>2, <1>4 DEF HalfOpened, Entries, States, TypeOK
  <2>3. 0 < cfg.successThreshold /\ 0 <= cfg.openMs
    BY ConfigFields
  <2>4. TypeOK'
    BY <2>2, <1>3 DEF TypeOK, Admit, Entries
  <2>5. CallsWellFormed'
    BY <2>2, <1>3 DEF CallsWellFormed, TypeOK
  <2>6. ClosedWithinBudget' /\ SuccessesOnlyInTrial'
    BY <2>2 DEF ClosedWithinBudget, SuccessesOnlyInTrial
  <2>7. HalfOpenIsFresh' /\ CooldownBounded'
    BY <2>2, <2>3 DEF HalfOpenIsFresh, CooldownBounded
  <2>8. GaugeLagsOnlyProbes'
    BY <2>2, <1>4 DEF GaugeLagsOnlyProbes, Admit
  <2>9. QED
    BY <2>4, <2>5, <2>6, <2>7, <2>8
<1>5. CASE breaker.state # "OPEN"
  <2>1. breaker' = f
    BY <1>5 DEF Admit
  <2>2. /\ breaker' \in Entries /\ breaker'.cfg = cfg
        /\ breaker'.state = breaker.state /\ breaker'.failures = breaker.failures
        /\ breaker'.successes = breaker.successes /\ breaker'.cooldown = breaker.cooldown
    BY <2>1, <1>2 DEF TypeOK, Entries
  <2>4. TypeOK'
    BY <2>2, <1>3 DEF TypeOK, Admit, Entries
  <2>5. CallsWellFormed'
    BY <2>2, <1>3 DEF CallsWellFormed, TypeOK
  <2>6. QED
    BY <2>2, <2>4, <2>5 DEF ClosedWithinBudget, SuccessesOnlyInTrial, HalfOpenIsFresh,
                            CooldownBounded, GaugeLagsOnlyProbes, Admit
<1>6. QED
  BY <1>4, <1>5

\* Refusing a call keeps it (lines 131-136).
LEMMA RejectIInv ==
  ASSUME IInv, NEW c \in Callers, NEW cfg \in Configs, Reject(c, cfg)
  PROVE  IInv'
<1> USE DEF IInv
<1>1. /\ breaker' = [breaker EXCEPT !.cfg = cfg]
      /\ breaker.state = "OPEN" /\ gauge' = "OPEN" /\ calls' = calls
  BY DEF Reject, Fetched, CoolingDown
<1>2. /\ breaker' \in Entries /\ breaker'.cfg = cfg
      /\ breaker'.state = "OPEN" /\ breaker'.failures = breaker.failures
      /\ breaker'.successes = breaker.successes /\ breaker'.cooldown = breaker.cooldown
  BY <1>1 DEF TypeOK, Entries
<1>3. TypeOK' /\ CallsWellFormed'
  BY <1>1, <1>2 DEF TypeOK, CallsWellFormed, Entries, States
<1>4. QED
  BY <1>1, <1>2, <1>3 DEF ClosedWithinBudget, SuccessesOnlyInTrial, HalfOpenIsFresh,
                          CooldownBounded, GaugeLagsOnlyProbes

\* A call in flight has a configuration, and so has the entry.
LEMMA RacingEntry ==
  ASSUME IInv, NEW c \in Callers, calls[c].pc = "racing"
  PROVE  breaker \in Entries /\ calls[c].cfg \in Configs
BY DEF IInv, TypeOK, CallsWellFormed, Entries

\* A success, however late, keeps it (lines 156-168).
LEMMA SucceedIInv ==
  ASSUME IInv, NEW c \in Callers, Succeed(c)
  PROVE  IInv'
<1> DEFINE cfg == calls[c].cfg
<1>1. breaker \in Entries /\ cfg \in Configs /\ breaker' = AfterSuccess(breaker, cfg)
  BY RacingEntry DEF Succeed
<1> HIDE DEF cfg
<1>2. calls' = [calls EXCEPT ![c] = Idle] /\ gauge' = breaker'.state
  BY DEF Succeed
<1>3. breaker' \in Entries /\ breaker'.cfg = breaker.cfg
  BY <1>1, AfterSuccessEffect
<1>4. TypeOK'
  BY <1>2, <1>3 DEF IInv, TypeOK, Idle, Entries, States
<1>5. CallsWellFormed'
  BY <1>2, <1>3 DEF IInv, TypeOK, CallsWellFormed, Idle
<1>6. GaugeLagsOnlyProbes'
  BY <1>2 DEF GaugeLagsOnlyProbes
<1>7. /\ cfg.failureThreshold \in Nat \ {0} /\ cfg.successThreshold \in Nat \ {0}
      /\ cfg.openMs \in Nat
  BY <1>1, ConfigFields
<1>8. SuccessesOnlyInTrial' /\ ClosedWithinBudget' /\ HalfOpenIsFresh' /\ CooldownBounded'
  <2>1. CASE breaker' = Closed(breaker)
    <3>1. /\ breaker'.state = "CLOSED" /\ breaker'.failures = 0
          /\ breaker'.successes = 0 /\ breaker'.cooldown = 0
      BY <2>1, <1>1 DEF Closed, Entries
    <3>2. QED
      BY <3>1, <1>1, <1>7 DEF SuccessesOnlyInTrial, ClosedWithinBudget,
                              HalfOpenIsFresh, CooldownBounded
  <2>2. CASE /\ breaker.state = "HALF_OPEN"
             /\ breaker.successes + 1 < cfg.successThreshold
             /\ breaker' = [breaker EXCEPT !.successes = breaker.successes + 1]
    <3>1. /\ breaker'.state = "HALF_OPEN" /\ breaker'.failures = breaker.failures
          /\ breaker'.successes < cfg.successThreshold
          /\ breaker'.cooldown = breaker.cooldown
      BY <2>2, <1>1 DEF Entries
    <3>2. QED
      BY <3>1, <2>2, <1>1 DEF IInv, SuccessesOnlyInTrial, ClosedWithinBudget,
                              HalfOpenIsFresh, CooldownBounded
  <2>3. CASE /\ breaker.state # "HALF_OPEN"
             /\ breaker' = [breaker EXCEPT !.failures = 0]
    <3>1. /\ breaker'.state = breaker.state /\ breaker'.failures = 0
          /\ breaker'.successes = breaker.successes /\ breaker'.cooldown = breaker.cooldown
      BY <2>3, <1>1 DEF Entries
    <3>2. QED
      BY <3>1, <2>3, <1>1, <1>7 DEF IInv, SuccessesOnlyInTrial, ClosedWithinBudget,
                                    HalfOpenIsFresh, CooldownBounded
  <2>4. QED
    BY <2>1, <2>2, <2>3, <1>1, AfterSuccessEffect
<1>9. QED
  BY <1>4, <1>5, <1>6, <1>8 DEF IInv

\* A failure or a timeout, however late, keeps it (lines 169-194).
LEMMA FaultIInv ==
  ASSUME IInv, NEW c \in Callers, Fault(c)
  PROVE  IInv'
<1> DEFINE cfg == calls[c].cfg
<1>1. breaker \in Entries /\ cfg \in Configs /\ breaker' = AfterFailure(breaker, cfg)
  BY RacingEntry DEF Fault
<1>2. gauge' = IF Trips(breaker, cfg) THEN "OPEN" ELSE gauge
  BY DEF Fault
<1>3. breaker' \in Entries /\ breaker'.cfg = breaker.cfg
  BY <1>1, AfterFailureEffect
<1>4. calls' \in [Callers -> [pc: {"idle", "racing", "backoff"},
                              attempt: Nat, cfg: Configs \cup {NoCfg}]]
  BY DEF IInv, TypeOK, Fault, Idle
<1>5. TypeOK'
  BY <1>2, <1>3, <1>4 DEF IInv, TypeOK, Entries, States
<1>6. CallsWellFormed'
  BY <1>1, <1>3 DEF IInv, TypeOK, CallsWellFormed, Fault, Idle, Entries
<1> HIDE DEF cfg
<1>7. /\ cfg.failureThreshold \in Nat \ {0} /\ breaker.cfg.openMs \in Nat
      /\ breaker.cfg \in Configs
  BY <1>1, ConfigFields DEF Entries
<1>8. /\ SuccessesOnlyInTrial' /\ ClosedWithinBudget' /\ HalfOpenIsFresh'
      /\ CooldownBounded' /\ GaugeLagsOnlyProbes'
  <2>1. CASE /\ Trips(breaker, cfg)
             /\ breaker'.state = "OPEN" /\ breaker'.cooldown = breaker.cfg.openMs
             /\ breaker'.successes = 0
    BY <2>1, <1>2, <1>7 DEF SuccessesOnlyInTrial, ClosedWithinBudget, HalfOpenIsFresh,
                            CooldownBounded, GaugeLagsOnlyProbes
  <2>2. CASE /\ ~Trips(breaker, cfg) /\ breaker.state # "HALF_OPEN"
             /\ breaker.failures + 1 < cfg.failureThreshold
             /\ breaker' = [breaker EXCEPT !.failures = breaker.failures + 1]
    <3>1. /\ breaker'.state = breaker.state /\ breaker'.failures < cfg.failureThreshold
          /\ breaker'.successes = breaker.successes /\ breaker'.cooldown = breaker.cooldown
      BY <2>2, <1>1 DEF Entries
    <3>2. QED
      BY <3>1, <2>2, <1>1, <1>2 DEF IInv, SuccessesOnlyInTrial, ClosedWithinBudget,
                        HalfOpenIsFresh, CooldownBounded, GaugeLagsOnlyProbes
  <2>3. QED
    BY <2>1, <2>2, <1>1, AfterFailureEffect
<1>9. QED
  BY <1>5, <1>6, <1>8 DEF IInv

\* Every step keeps the invariant.
LEMMA NextIInv == IInv /\ [Next]_vars => IInv'
<1> SUFFICES ASSUME IInv, [Next]_vars PROVE IInv'
  OBVIOUS
<1>1. ASSUME NEW c \in Callers, NEW cfg \in Configs, Admit(c, cfg) PROVE IInv'
  BY <1>1, AdmitIInv
<1>2. ASSUME NEW c \in Callers, NEW cfg \in Configs, Reject(c, cfg) PROVE IInv'
  BY <1>2, RejectIInv
<1>3. ASSUME NEW c \in Callers, Succeed(c) PROVE IInv'
  BY <1>3, SucceedIInv
<1>4. ASSUME NEW c \in Callers, Fail(c) \/ TimeOut(c) PROVE IInv'
  BY <1>4, FaultIInv DEF Fail, TimeOut
<1>5. ASSUME NEW c \in Callers, Retry(c) PROVE IInv'
  <2>1. breaker' = breaker /\ gauge' = gauge
    BY <1>5 DEF Retry
  <2>2. TypeOK' /\ CallsWellFormed'
    BY <1>5 DEF Retry, IInv, TypeOK, CallsWellFormed
  <2>3. QED
    BY <2>1, <2>2 DEF IInv, SuccessesOnlyInTrial, ClosedWithinBudget, HalfOpenIsFresh,
                      CooldownBounded, GaugeLagsOnlyProbes
<1>6. CASE Tick
  <2>1. /\ breaker.cooldown \in Nat /\ breaker.cooldown > 0
        /\ breaker' = [breaker EXCEPT !.cooldown = breaker.cooldown - 1]
        /\ calls' = calls /\ gauge' = gauge
    BY <1>6 DEF Tick, IInv, TypeOK
  <2>2. /\ breaker'.state = breaker.state /\ breaker'.failures = breaker.failures
        /\ breaker'.successes = breaker.successes /\ breaker'.cfg = breaker.cfg
        /\ breaker'.cooldown = breaker.cooldown - 1
    BY <2>1 DEF IInv, TypeOK
  <2>3. TypeOK' /\ CallsWellFormed'
    BY <2>1 DEF IInv, TypeOK, CallsWellFormed
  <2>4. CooldownBounded'
    <3>1. PICK cfg \in Configs : breaker.cooldown <= cfg.openMs
      BY DEF IInv, CooldownBounded
    <3>2. cfg.openMs \in Nat
      BY ConfigFields
    <3>3. QED
      BY <2>1, <2>2, <3>1, <3>2 DEF IInv, CooldownBounded
  <2>5. HalfOpenIsFresh'
    BY <2>1, <2>2 DEF IInv, HalfOpenIsFresh
  <2>6. QED
    BY <2>1, <2>2, <2>3, <2>4, <2>5 DEF IInv, SuccessesOnlyInTrial, ClosedWithinBudget,
                                        GaugeLagsOnlyProbes
<1>7. CASE UNCHANGED vars
  BY <1>7 DEF vars, IInv, TypeOK, CallsWellFormed, SuccessesOnlyInTrial,
              ClosedWithinBudget, HalfOpenIsFresh, CooldownBounded, GaugeLagsOnlyProbes
<1>8. QED
  BY <1>1, <1>2, <1>3, <1>4, <1>5, <1>6, <1>7 DEF Next

\* The circuit breaker keeps its inductive invariant.
THEOREM SpecIInv == Spec => []IInv
BY InitIInv, NextIInv, PTL DEF Spec

\* A CLOSED breaker has counted fewer failures than a caller tolerates.
THEOREM SpecClosedWithinBudget == Spec => []ClosedWithinBudget
BY SpecIInv, PTL DEF IInv

\* Every value the breaker stores has its type.
THEOREM SpecTypeOK == Spec => []TypeOK
BY SpecIInv, PTL DEF IInv

\* A trial starts from nothing and ends before its quota is exceeded.
THEOREM SpecHalfOpenIsFresh == Spec => []HalfOpenIsFresh
BY SpecIInv, PTL DEF IInv

\* The breaker never refuses for longer than one configured cool-down.
THEOREM SpecCooldownBounded == Spec => []CooldownBounded
BY SpecIInv, PTL DEF IInv

\* The gauge lags the breaker only by a trial without an answer.
THEOREM SpecGaugeLagsOnlyProbes == Spec => []GaugeLagsOnlyProbes
BY SpecIInv, PTL DEF IInv

-----------------------------------------------------------------------------
(* Steps. *)

\* An answer that arrives while the entry is OPEN leaves it OPEN.
LEMMA OpenStays ==
  ASSUME IInv, NEW c \in Callers, breaker.state = "OPEN",
         Succeed(c) \/ Fault(c)
  PROVE  breaker'.state = "OPEN"
<1>1. breaker \in Entries /\ calls[c].cfg \in Configs
  BY RacingEntry DEF Succeed, Fault
<1>2. CASE Succeed(c)
  <2>1. breaker' = [breaker EXCEPT !.failures = 0]
    BY <1>1, <1>2, AfterSuccessEffect DEF Succeed
  <2>2. QED
    BY <1>1, <2>1 DEF Entries
<1>3. CASE Fault(c)
  <2>1. breaker' = AfterFailure(breaker, calls[c].cfg)
    BY <1>3 DEF Fault
  <2>2. CASE breaker'.state = "OPEN"
    BY <2>2
  <2>3. CASE breaker' = [breaker EXCEPT !.failures = breaker.failures + 1]
    BY <1>1, <2>3 DEF Entries
  <2>4. QED
    BY <1>1, <2>1, <2>2, <2>3, AfterFailureEffect
<1>4. QED
  BY <1>2, <1>3

\* No step of the program takes the entry from OPEN to CLOSED.
LEMMA StepKeepsOpen ==
  IInv /\ [Next]_vars => [breaker.state = "OPEN" => breaker'.state # "CLOSED"]_vars
<1> SUFFICES ASSUME IInv, Next, breaker.state = "OPEN"
             PROVE  breaker'.state # "CLOSED"
  OBVIOUS
<1>1. ASSUME NEW c \in Callers, NEW cfg \in Configs, Admit(c, cfg) \/ Reject(c, cfg)
      PROVE  breaker'.state # "CLOSED"
  BY <1>1 DEF Admit, Reject, Fetched, HalfOpened, IInv, TypeOK
<1>2. ASSUME NEW c \in Callers, Succeed(c) \/ Fail(c) \/ TimeOut(c)
      PROVE  breaker'.state # "CLOSED"
  BY <1>2, OpenStays DEF Fail, TimeOut
<1>3. ASSUME NEW c \in Callers, Retry(c)
      PROVE  breaker'.state # "CLOSED"
  BY <1>3 DEF Retry
<1>4. CASE Tick
  BY <1>4 DEF Tick, IInv, TypeOK
<1>5. QED
  BY <1>1, <1>2, <1>3, <1>4 DEF Next

\* An OPEN breaker closes only through a trial.
THEOREM SpecOpenNeverClosesDirectly == Spec => OpenNeverClosesDirectly
BY SpecIInv, StepKeepsOpen, PTL DEF Spec, OpenNeverClosesDirectly

-----------------------------------------------------------------------------
(* The refinement of BreakerContract. *)

\* An answer is a step of the contract or leaves what it sees alone.
LEMMA AnswerImplements ==
  ASSUME IInv, NEW c \in Callers, Succeed(c) \/ Fault(c)
  PROVE  [Contract!Next]_(Contract!vars)
<1> DEFINE cfg == calls[c].cfg
<1>1. breaker \in Entries /\ cfg \in Configs
  BY RacingEntry DEF Succeed, Fault
<1> HIDE DEF cfg
<1>2. breaker.cfg \in Configs
  BY <1>1 DEF Entries
<1>3. ASSUME breaker'.state = breaker.state, breaker'.successes = breaker.successes,
             breaker'.cooldown = breaker.cooldown
      PROVE  UNCHANGED Contract!vars
  BY <1>3 DEF Contract!vars
<1>4. CASE Succeed(c)
  <2>1. breaker' = AfterSuccess(breaker, cfg)
    BY <1>4 DEF Succeed, cfg
  <2>2. CASE /\ breaker.state = "HALF_OPEN"
             /\ breaker.successes + 1 >= cfg.successThreshold
             /\ breaker' = Closed(breaker)
    <3>1. breaker'.state = "CLOSED" /\ breaker'.successes = 0 /\ breaker'.cooldown = 0
      BY <2>2, <1>1 DEF Closed, Entries
    <3>2. Contract!Recover
      BY <3>1, <2>2, <1>1 DEF Contract!Recover
    <3>3. QED
      BY <3>2 DEF Contract!Next
  <2>3. CASE /\ breaker.state = "HALF_OPEN"
             /\ breaker' = [breaker EXCEPT !.successes = breaker.successes + 1]
    <3>1. /\ breaker'.state = breaker.state /\ breaker'.cooldown = breaker.cooldown
          /\ breaker'.successes = breaker.successes + 1
      BY <2>3, <1>1 DEF Entries
    <3>2. Contract!ProbeSucceeds
      BY <3>1, <2>3 DEF Contract!ProbeSucceeds
    <3>3. QED
      BY <3>2 DEF Contract!Next
  <2>4. CASE breaker' = [breaker EXCEPT !.failures = 0]
    BY <2>4, <1>1, <1>3 DEF Entries
  <2>5. QED
    BY <2>1, <2>2, <2>3, <2>4, <1>1, AfterSuccessEffect
<1>5. CASE Fault(c)
  <2>1. breaker' = AfterFailure(breaker, cfg)
    BY <1>5 DEF Fault, cfg
  <2>2. CASE /\ breaker'.state = "OPEN" /\ breaker'.cooldown = breaker.cfg.openMs
             /\ breaker'.successes = 0
    <3>1. Contract!Trip
      BY <2>2, <1>2 DEF Contract!Trip
    <3>2. QED
      BY <3>1 DEF Contract!Next
  <2>3. CASE breaker' = [breaker EXCEPT !.failures = breaker.failures + 1]
    BY <2>3, <1>1, <1>3 DEF Entries
  <2>4. QED
    BY <2>1, <2>2, <2>3, <1>1, AfterFailureEffect
<1>6. QED
  BY <1>4, <1>5

\* Every step of the program is a step of the contract or stutters it.
LEMMA StepImplements == IInv /\ [Next]_vars => [Contract!Next]_(Contract!vars)
<1> SUFFICES ASSUME IInv, [Next]_vars PROVE [Contract!Next]_(Contract!vars)
  OBVIOUS
<1>1. ASSUME NEW c \in Callers, NEW cfg \in Configs, Admit(c, cfg)
      PROVE  [Contract!Next]_(Contract!vars)
  <2>1. CASE breaker.state = "OPEN"
    <3>1. breaker.cooldown = 0
      BY <1>1, <2>1 DEF Admit, CoolingDown, IInv, TypeOK
    <3>2. /\ breaker'.state = "HALF_OPEN" /\ breaker'.successes = 0
          /\ breaker'.cooldown = breaker.cooldown
      BY <1>1, <2>1 DEF Admit, Fetched, HalfOpened, IInv, TypeOK
    <3>3. Contract!Probe
      BY <2>1, <3>1, <3>2 DEF Contract!Probe
    <3>4. QED
      BY <3>3 DEF Contract!Next
  <2>2. CASE breaker.state # "OPEN"
    BY <1>1, <2>2 DEF Admit, Fetched, IInv, TypeOK, Contract!vars
  <2>3. QED
    BY <2>1, <2>2
<1>2. ASSUME NEW c \in Callers, NEW cfg \in Configs, Reject(c, cfg)
      PROVE  UNCHANGED Contract!vars
  BY <1>2 DEF Reject, Fetched, IInv, TypeOK, Contract!vars
<1>3. ASSUME NEW c \in Callers, Succeed(c) \/ Fail(c) \/ TimeOut(c)
      PROVE  [Contract!Next]_(Contract!vars)
  BY <1>3, AnswerImplements DEF Fail, TimeOut
<1>4. ASSUME NEW c \in Callers, Retry(c) PROVE UNCHANGED Contract!vars
  BY <1>4 DEF Retry, Contract!vars
<1>5. CASE Tick
  BY <1>5 DEF Tick, IInv, TypeOK, Contract!Next, Contract!Cool
<1>6. CASE UNCHANGED vars
  BY <1>6 DEF vars, Contract!vars
<1>7. QED
  BY <1>1, <1>2, <1>3, <1>4, <1>5, <1>6 DEF Next

\* The program's breaker implements the contract of a circuit breaker.
THEOREM SpecImplementsContract == Spec => ImplementsContract
<1>1. Init => Contract!Init
  BY DEF Init, Contract!Init
<1>2. QED
  BY <1>1, SpecIInv, StepImplements, PTL DEF Spec, ImplementsContract, Contract!Spec
=============================================================================
