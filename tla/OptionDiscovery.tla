--------------------------- MODULE OptionDiscovery ---------------------------
(***************************************************************************)
(* The discovery of options through the BigQMT bridge: the candidates of   *)
(* an underlying and the list of underlyings of adapters/bigqmt/options.py *)
(* and instruments.py, read through reader.py with the identity that       *)
(* transport.py has of the strategy, which the health loop of              *)
(* adapters/bigqmt/connection.py finds again after a restart.              *)
(*                                                                         *)
(* An instance is a number, never used again.  A value is what its load    *)
(* read: from which instances, and after how many clears of the cache.     *)
(***************************************************************************)
EXTENDS DiscoveryCache

CONSTANTS
    Underlyings,  \* underlyings that are asked for
    MaxInstances, \* bound: instances of the strategy
    MaxFailures,    \* bound: requests that fail although the strategy is up
    MaxAttempts   \* max_attempts; 0 is no limit, and failures are not counted

ASSUME DiscoveryAssumption ==
    /\ MaxInstances \in Nat \ {0} /\ MaxFailures \in Nat /\ MaxAttempts \in Nat
    /\ Nothing \notin Nat

VARIABLES
    strategy,  \* the running instance, or Nothing
    started,   \* how many instances were started
    faults,    \* failures so far
    instance,  \* transport.instance
    health,    \* the health loop: its step, the instance it heard, failures in a row
    my         \* each caller's query

bridge == <<strategy, started, faults, instance>>
discoveryVars == <<bridge, health, my, cacheVars>>

NoQuery == [kind |-> "none", step |-> "idle", token |-> Nothing, outer |-> Nothing,
            addressed |-> Nothing, reads |-> {}, since |-> 0]

DiscoveryInit ==
    /\ strategy = Nothing /\ started = 0 /\ faults = 0 /\ instance = Nothing
    /\ health = [step |-> "probe", heard |-> Nothing, failures |-> 0]
    /\ my = [c \in Callers |-> NoQuery]
    /\ CacheInit

-----------------------------------------------------------------------------
(* The strategy, and what the transport knows of it. *)

\* QMT or its strategy starts, under a new identity, or ends.
Restart ==
    /\ \/ started < MaxInstances /\ started' = started + 1 /\ strategy' = started'
       \/ strategy # Nothing /\ strategy' = Nothing /\ UNCHANGED started
    /\ UNCHANGED <<faults, instance, health, my, cacheVars>>

\* _invalidate: only the identity that was seen fail is given up.
Invalidated(observed) == IF instance = observed THEN Nothing ELSE instance

-----------------------------------------------------------------------------
(* The health loop. *)

\* A ping is answered by the running instance, ...
Ping ==
    /\ health.step = "probe" /\ strategy # Nothing
    /\ health' = [health EXCEPT !.step = "answered", !.heard = strategy]
    /\ UNCHANGED <<bridge, my, cacheVars>>

\* ... whose identity is adopted.
Adopt ==
    /\ health.step = "answered"
    /\ instance' = health.heard
    /\ health' = [step |-> "probe", heard |-> Nothing, failures |-> 0]
    /\ UNCHANGED <<strategy, started, faults, my, cacheVars>>

Counted == IF MaxAttempts = 0 THEN 0 ELSE health.failures + 1

\* It fails: nobody answers, the exchange breaks down, or the answer is an
\* error, and then the identity stays (EXPIRED, OVERLOADED) or goes (STOPPED).
\* A local wait for capacity that expires is no failure.
PingFails ==
    /\ health.step = "probe"
    /\ \/ strategy = Nothing /\ instance' = Invalidated(instance) /\ UNCHANGED faults
       \/ /\ strategy # Nothing /\ faults < MaxFailures /\ faults' = faults + 1
          /\ instance' \in {instance, Invalidated(instance)}
    /\ health' = [health EXCEPT !.failures = Counted,
                     !.step = IF MaxAttempts # 0 /\ Counted >= MaxAttempts THEN "over" ELSE "probe"]
    /\ UNCHANGED <<strategy, started, my, cacheVars>>

\* stop(): the loop ends before its next probe.
Stop ==
    /\ health.step = "probe" /\ health' = [health EXCEPT !.step = "over"]
    /\ UNCHANGED <<bridge, my, cacheVars>>

-----------------------------------------------------------------------------
(* A query: tokens, reads and checks. *)

Step(c, s) == my' = [my EXCEPT ![c].step = s]

\* The step after a failed read: a leader tells its followers.
AfterFailure(c) == IF get[c].at = "load" THEN "loadFailed" ELSE "failed"

\* list_option_underlyings reads a token for all that follows.
Ask(c, kind) ==
    /\ my[c].step = "idle"
    /\ my' = [my EXCEPT ![c].kind = kind, ![c].outer = IF kind = "underlyings" THEN instance ELSE @,
                        ![c].step = IF kind # "underlyings" THEN "token"
                                    ELSE IF instance = Nothing THEN "failed" ELSE "map"]
    /\ UNCHANGED <<bridge, health, cacheVars>>

\* cache_token: the candidates of an underlying are asked for, ...
TakeToken(c) ==
    /\ my[c].step = "token"
    /\ my' = [my EXCEPT ![c].token = instance,
                        ![c].step = IF instance = Nothing THEN "failed"
                                    ELSE IF my[c].kind = "chain" THEN "get" ELSE "codes"]
    /\ UNCHANGED <<bridge, health, cacheVars>>

\* ... by get_option_chain from the cache, ...
LookUp(c) ==
    /\ my[c].step = "get"
    /\ \E u \in Underlyings : Get(c, <<my[c].token, u>>)
    /\ my' = [my EXCEPT ![c].step = IF get'[c].at = "load" THEN "codes" ELSE "wait"]
    /\ UNCHANGED <<bridge, health>>

\* ... which gives them at once, or when the leader has them.
Take(c) ==
    /\ my[c].step = "wait" /\ get[c].at = "left"
    /\ my' = IF get[c].result = <<>> THEN [my EXCEPT ![c].step = "failed"]
             ELSE [my EXCEPT ![c].step = "check", ![c].reads = get[c].result[1].reads,
                             ![c].since = get[c].result[1].since]
    /\ UNCHANGED <<bridge, health, cacheVars>>

ReadSteps == {"map", "codes", "details"}

\* request(): a read is addressed to the instance known now ...
Send(c) ==
    /\ my[c].step \in ReadSteps /\ my[c].addressed = Nothing
    /\ my' = IF instance = Nothing THEN [my EXCEPT ![c].step = AfterFailure(c)]
             ELSE [my EXCEPT ![c].addressed = instance,
                             ![c].since = IF my[c].step = "codes" /\ get[c].at = "load"
                                               THEN generation ELSE @]
    /\ UNCHANGED <<bridge, health, cacheVars>>

\* The details come in groups; an underlying may have no options.
NextSteps(c) ==
    CASE my[c].step = "map" -> {"token", "outerCheck"}
      [] my[c].step = "codes" -> {"details", "loaded"}
      [] OTHER -> {"details", "loaded"}

\* ... and answered by it, ...
Reply(c) ==
    /\ my[c].addressed # Nothing /\ my[c].addressed = strategy
    /\ \E s \in NextSteps(c) :
        my' = [my EXCEPT ![c].reads = @ \cup {strategy}, ![c].addressed = Nothing,
                         ![c].step = IF s = "loaded" /\ get[c].at # "load" THEN "check" ELSE s]
    /\ UNCHANGED <<bridge, health, cacheVars>>

\* ... or fails: the instance is another one, or the exchange breaks down.
ReadFails(c) ==
    /\ my[c].addressed # Nothing
    /\ \/ my[c].addressed # strategy /\ instance' = Invalidated(my[c].addressed) /\ UNCHANGED faults
       \/ /\ faults < MaxFailures /\ faults' = faults + 1
          /\ instance' \in {instance, Invalidated(my[c].addressed)}
    /\ my' = [my EXCEPT ![c].addressed = Nothing, ![c].step = AfterFailure(c)]
    /\ UNCHANGED <<strategy, started, health, cacheVars>>

\* The end of a flight that c leads.
Fly(c) ==
    /\ \/ my[c].step = "loaded" /\ Loaded(c, [reads |-> my[c].reads, since |-> my[c].since])
          /\ Step(c, "flying")
       \/ my[c].step = "loadFailed" /\ LoadFails(c) /\ Step(c, "flying")
       \/ my[c].step = "flying" /\ SetResult(c) /\ UNCHANGED my
       \/ my[c].step = "flying" /\ Untrack(c) /\ Step(c, "wait")
    /\ UNCHANGED <<bridge, health>>

AnyToken(c) == TRUE  \* mutant: the bridge may change during the discovery
SameToken(c) == instance = my[c].token

\* The token is compared after the discovery, ...
Check(c) ==
    /\ my[c].step = "check"
    /\ \/ ~SameToken(c) /\ Step(c, "failed")
       \/ SameToken(c) /\ my[c].kind # "underlyings" /\ Step(c, "answered")
       \/ SameToken(c) /\ my[c].kind = "underlyings"
          /\ \E s \in {"token", "outerCheck"} : Step(c, s)
    /\ UNCHANGED <<bridge, health, cacheVars>>

\* ... and again after all underlyings were discovered.
OuterCheck(c) ==
    /\ my[c].step = "outerCheck"
    /\ Step(c, IF instance = my[c].outer THEN "answered" ELSE "failed")
    /\ UNCHANGED <<bridge, health, cacheVars>>

\* The caller has its answer and may ask again.
Return(c) ==
    /\ my[c].step \in {"answered", "failed"}
    /\ my' = [my EXCEPT ![c] = NoQuery] /\ get' = [get EXCEPT ![c] = Outside]
    /\ UNCHANGED <<bridge, health, values, pending, generation>>

\* bridge.clear_cache of the diagnostics.
ClearCache == Clear /\ UNCHANGED <<bridge, health, my>>

-----------------------------------------------------------------------------
Kinds == {"chain", "dates", "underlyings"}

DiscoveryNext ==
    \/ Restart \/ Ping \/ Adopt \/ PingFails \/ Stop \/ ClearCache
    \/ \E c \in Callers :
        \/ \E kind \in Kinds : Ask(c, kind)
        \/ TakeToken(c) \/ LookUp(c) \/ Take(c) \/ Send(c) \/ Reply(c) \/ ReadFails(c)
        \/ Fly(c) \/ Check(c) \/ OuterCheck(c) \/ Return(c)

\* What is answered was read from one instance alone, the one that the caller
\* found before it asked: no restart of the strategy gets into the middle of a
\* discovery, or into the cache and from there into a later one.
OneInstance ==
    \A c \in Callers : my[c].step = "answered" =>
        my[c].reads = {IF my[c].kind = "underlyings" THEN my[c].outer ELSE my[c].token}

\* Nobody who looks into the cache after it was cleared is given what was read
\* before, not even by the flights that the clear met.
FreshAfterClear ==
    \A c \in Callers : my[c].step = "answered" => my[c].since >= get[c].generation
=============================================================================
