----------------------------- MODULE AnomalyGuard -----------------------------
(* The anomaly guard of the control plane in the browser                      *)
(* (platform/observability/anomalyGuard.ts): storms of answers 401 and of     *)
(* logins, and loops of the router's fallback. Its three functions are called *)
(* by cpApi.ts, authService.ts and router.ts and run to their end.            *)
(*                                                                            *)
(* A time is kept as its age, in ticks, up to the first that is too old to    *)
(* matter: the code prunes when it records, an age goes on growing till then. *)
(* A list of times is a function from its events to their ages: the code asks *)
(* of it no more than how many are young enough.                              *)
EXTENDS Naturals, Sequences, FiniteSets

CONSTANTS
    Events,          \* what is recorded: the entries of recent401, recentLoginAttempts
    Window,          \* kind of event -> WINDOW_401_MS, WINDOW_LOGIN_MS
    StormThreshold,  \* kind of event -> THRESHOLD_401, THRESHOLD_LOGIN
    Persist,         \* ESCALATION_401_PERSIST_MS
    LoopWindow,      \* FALLBACK_LOOP_WINDOW_MS
    LoopCount,       \* FALLBACK_LOOP_COUNT
    Hashes,
    NoHash

Kinds == {"401", "login"}

ASSUME AnomalyGuardAssumption ==
    /\ Window \in [Kinds -> Nat] /\ StormThreshold \in [Kinds -> Nat]
    /\ Persist \in Nat /\ LoopWindow \in Nat \ {0} /\ LoopCount \in Nat \ {0, 1}
    /\ NoHash \notin Hashes

\* There always is another event.
ASSUME EventsSuffice ==
    \A k \in Kinds : IsFiniteSet(Events) => Cardinality(Events) > StormThreshold[k]

VARIABLES
    recent,     \* kind -> the ages of the events in recent401, recentLoginAttempts
    firstStorm, \* age of first401StormWarnTs, Never if it is null
    lastHash,   \* lastRouteHash
    fallbacks,  \* fallbackCount
    fallback,   \* age of lastFallbackTs, which begins at 0, long ago
    said,       \* what the last call logged: "nothing", "warning" or "error"
    past,       \* history: kind -> ages of the events since the last alarm, those of the window
    trail,      \* history: the last LoopCount resolutions, the newest last
    since       \* history: the age of the last resolution

guardVars == <<recent, firstStorm, lastHash, fallbacks, fallback, said, past, trail, since>>

Never == Persist + 2
Older(age, cap) == IF age < cap THEN age + 1 ELSE age

Nothing == [e \in {} |-> 0]
Adding(ages, event) ==
    [e \in DOMAIN ages \cup {event} |-> IF e = event THEN 0 ELSE ages[e]]

GuardInit ==
    /\ recent = [k \in Kinds |-> Nothing] /\ past = [k \in Kinds |-> Nothing]
    /\ firstStorm = Never
    /\ lastHash = NoHash /\ fallbacks = 0 /\ fallback = LoopWindow
    /\ said = "nothing"
    /\ trail = <<>> /\ since = LoopWindow

\* Mutant: an event exactly as old as the window is pruned.
MutPrune(ages, window) == [e \in {d \in DOMAIN ages : ages[d] < window} |-> ages[e]]

Prune(ages, window) == [e \in {d \in DOMAIN ages : ages[d] <= window} |-> ages[e]]

(* The events of the window, the one that is being recorded among them.       *)
InWindow(k, event) == Prune(Adding(recent[k], event), Window[k])

\* Mutant: the events that made a storm are kept.
MutKept(k, event) == InWindow(k, event)

(* What is kept of them: nothing once they make a storm.                      *)
IsStorm(k, event) == Cardinality(DOMAIN InWindow(k, event)) > StormThreshold[k]
Kept(k, event) == IF IsStorm(k, event) THEN Nothing ELSE InWindow(k, event)

(* record401 and recordLoginAttempt. A storm of 401 is an error if one was    *)
(* warned of more than Persist ago, and no error since.                       *)
Escalates == firstStorm # Never /\ firstStorm > Persist
Record(k, event) ==
    /\ event \notin DOMAIN recent[k]
    /\ recent' = [recent EXCEPT ![k] = Kept(k, event)]
    /\ said' = CASE ~IsStorm(k, event) -> "nothing"
                 [] IsStorm(k, event) /\ k = "401" /\ Escalates -> "error"
                 [] OTHER -> "warning"
    /\ firstStorm' = CASE k = "login" \/ ~IsStorm(k, event) -> firstStorm
                       [] k = "401" /\ IsStorm(k, event) /\ Escalates -> Never
                       [] OTHER -> IF firstStorm = Never THEN 0 ELSE firstStorm
    /\ past' = [past EXCEPT ![k] = IF said' = "nothing" THEN Adding(@, event) ELSE Nothing]
    /\ UNCHANGED <<lastHash, fallbacks, fallback, trail, since>>

Logged(hash, isFallback) ==
    LET all == Append(trail, [hash |-> hash, isFallback |-> isFallback, soon |-> since < LoopWindow,
                              warned |-> said' # "nothing"])
    IN  trail' = (IF Len(all) > LoopCount THEN Tail(all) ELSE all) /\ since' = 0

(* recordRouteResolution of a route the router fell back from.                *)
Again(hash) == hash = lastHash /\ fallback < LoopWindow
Fallback(hash) ==
    LET count == IF Again(hash) THEN fallbacks + 1 ELSE 1
        loop == Again(hash) /\ count >= LoopCount
    IN  /\ fallbacks' = IF loop THEN 0 ELSE count
        /\ lastHash' = hash
        /\ fallback' = 0
        /\ said' = IF loop THEN "warning" ELSE "nothing"
        /\ Logged(hash, TRUE)
        /\ UNCHANGED <<recent, firstStorm, past>>

\* Mutant: a route that resolves does not end the count.
MutResolved(hash) ==
    /\ lastHash' = hash
    /\ said' = "nothing"
    /\ Logged(hash, FALSE)
    /\ UNCHANGED <<recent, firstStorm, past, fallback, fallbacks>>

(* recordRouteResolution of a route that was found.                           *)
Resolved(hash) ==
    /\ lastHash' = hash
    /\ fallbacks' = 0
    /\ said' = "nothing"
    /\ Logged(hash, FALSE)
    /\ UNCHANGED <<recent, firstStorm, past, fallback>>

Aged(ages, cap) == [e \in DOMAIN ages |-> Older(ages[e], cap)]
Tick ==
    /\ recent' = [k \in Kinds |-> Aged(recent[k], Window[k] + 1)]
    /\ firstStorm' = IF firstStorm = Never THEN Never ELSE Older(firstStorm, Persist + 1)
    /\ fallback' = Older(fallback, LoopWindow)
    /\ said' = "nothing"
    /\ past' = [k \in Kinds |->
                  [e \in {d \in DOMAIN past[k] : past[k][d] < Window[k]} |-> past[k][e] + 1]]
    /\ since' = Older(since, LoopWindow)
    /\ UNCHANGED <<lastHash, fallbacks, trail>>

GuardNext ==
    \/ \E k \in Kinds, event \in Events : Record(k, event)
    \/ \E hash \in Hashes : Fallback(hash) \/ Resolved(hash)
    \/ Tick

GuardSpec == GuardInit /\ [][GuardNext]_guardVars

-----------------------------------------------------------------------------
(* Types of what the guard keeps; its lists of events stay short.             *)
GuardTypeOK ==
    /\ \A k \in Kinds :
         /\ DOMAIN recent[k] \subseteq Events
         /\ IsFiniteSet(DOMAIN recent[k]) /\ Cardinality(DOMAIN recent[k]) <= StormThreshold[k]
         /\ \A e \in DOMAIN recent[k] : recent[k][e] \in 0 .. Window[k] + 1
    /\ firstStorm \in 0 .. Never
    /\ lastHash \in Hashes \cup {NoHash} /\ fallbacks \in 0 .. LoopCount - 1 /\ fallback \in 0 .. LoopWindow
    /\ said \in {"nothing", "warning", "error"}

(* "Too many 401 in short window": an event raises an alarm exactly when it   *)
(* is one too many of its kind in the window since the last alarm, however    *)
(* the events spread over it and whenever the lists were pruned.              *)
StormsExact ==
    [][\A k \in Kinds, event \in Events :
         Record(k, event) =>
           (said' # "nothing" <=> Cardinality(DOMAIN past[k]) + 1 > StormThreshold[k])]_guardVars

(* "Route fallback loop detected": a warning after a fallback says exactly    *)
(* that the last LoopCount resolutions, none of them warned of before, were   *)
(* fallbacks from one route, each within the window of the one before it.     *)
IsLoop(t) ==
    /\ Len(t) = LoopCount
    /\ \A i \in 1 .. LoopCount : t[i].isFallback /\ t[i].hash = t[LoopCount].hash
    /\ \A i \in 2 .. LoopCount : t[i].soon /\ ~t[i - 1].warned
LoopsExact ==
    [][\A hash \in Hashes : Fallback(hash) => (said' # "nothing" <=> IsLoop(trail'))]_guardVars
=============================================================================
