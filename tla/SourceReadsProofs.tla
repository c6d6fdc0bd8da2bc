-------------------------- MODULE SourceReadsProofs --------------------------
(***************************************************************************)
(* Theorems about SourceReads and the modules it is made of, for any       *)
(* finite sets of threads and callers, any keys and lock objects, and      *)
(* batches of any size.                                                    *)
(*                                                                         *)
(* The locks (PartitionLocks).  An entry counts its users, so it is        *)
(* deleted only when nobody else is in hold for its key; hence all who are *)
(* in hold for a key at one time have the same lock object, and different  *)
(* keys have different ones.                                               *)
(***************************************************************************)
EXTENDS SourceReads, FiniteSetTheorems, TLAPS

\* The threads in hold for key k.
Users(k) == {t \in Threads : at[t][k] # "out"}

\* Whoever is in hold for a key has the lock of its entry.
LocalInv ==
    \A t \in Threads, k \in Keys :
        at[t][k] # "out" => lock[t][k] = entries[k].lock /\ lock[t][k] \in Locks

CountInv ==
    \A k \in Keys :
        /\ entries[k].users = Cardinality(Users(k))
        /\ entries[k].users = 0 => entries[k] = NoEntry

\* No two keys share a lock.
FreshInv ==
    \A j, k \in Keys : j # k => entries[j].lock # entries[k].lock \/ entries[j].lock = None

OwnerInv ==
    \A t \in Threads, k \in Keys : at[t][k] = "in" => owner[lock[t][k]] = t

IInv == TypeOK /\ LocalInv /\ CountInv /\ FreshInv /\ OwnerInv

USE LocksAssumption
USE DEF NoEntry

-----------------------------------------------------------------------------
LEMMA UsersFinite ==
    \A k \in Keys : IsFiniteSet(Users(k)) /\ Cardinality(Users(k)) \in Nat
  BY FS_Subset, FS_CardinalityType DEF Users

\* An entry without users has nobody in hold for its key, and one with a single
\* user only that one.
LEMMA NoUsers ==
    ASSUME CountInv, NEW k \in Keys, entries[k].users = 0
    PROVE  \A t \in Threads : at[t][k] = "out"
<1>1. Users(k) = {}
  BY UsersFinite, FS_EmptySet DEF CountInv
<1> QED BY <1>1 DEF Users

LEMMA OneUser ==
    ASSUME CountInv, NEW k \in Keys, NEW t \in Threads, at[t][k] # "out", entries[k].users = 1
    PROVE  \A u \in Threads : u # t => at[u][k] = "out"
<1>1. t \in Users(k)
  BY DEF Users
<1>2. Cardinality(Users(k) \ {t}) = 0 /\ IsFiniteSet(Users(k) \ {t})
  BY <1>1, UsersFinite, FS_RemoveElement DEF CountInv
<1>3. Users(k) \ {t} = {}
  BY <1>2, FS_EmptySet
<1> QED BY <1>3 DEF Users

LEMMA OneUserAtLeast ==
    ASSUME TypeOK, CountInv, NEW k \in Keys, NEW t \in Threads, at[t][k] # "out"
    PROVE  entries[k].users >= 1 /\ entries[k].users \in Nat
<1>1. entries[k].users # 0
  BY NoUsers
<1> QED BY <1>1 DEF TypeOK

LEMMA InitIInv == Init => IInv
<1> SUFFICES ASSUME Init PROVE IInv
  OBVIOUS
<1>1. TypeOK
  BY DEF Init, TypeOK
<1>2. LocalInv /\ OwnerInv /\ FreshInv
  BY DEF Init, LocalInv, OwnerInv, FreshInv
<1>3. CountInv
  <2>1. \A k \in Keys : Users(k) = {}
    BY DEF Init, Users
  <2> QED BY <2>1, FS_EmptySet DEF Init, CountInv
<1> QED BY <1>1, <1>2, <1>3 DEF IInv

\* Steps that change nobody's being in hold.
LEMMA SameUsers ==
    ASSUME CountInv, entries' = entries,
           \A t \in Threads, k \in Keys : at[t][k] = "out" <=> at'[t][k] = "out"
    PROVE  CountInv'
<1>1. \A k \in Keys : Users(k)' = Users(k)
  BY DEF Users
<1> QED BY <1>1 DEF CountInv

LEMMA EnterKeeps ==
    ASSUME IInv, NEW t \in Threads, NEW k \in Keys, Enter(t, k)
    PROVE  IInv'
<1>1. PICK l \in IF entries[k].users = 0 THEN Locks \ Referenced ELSE {entries[k].lock} :
        /\ entries' = [entries EXCEPT ![k] = [lock |-> l, users |-> entries[k].users + 1]]
        /\ lock' = [lock EXCEPT ![t][k] = l]
  BY DEF Enter
<1>2. /\ at' = [at EXCEPT ![t][k] = "waiting"] /\ at[t][k] = "out"
      /\ UNCHANGED <<owner, plan, leaving>>
  BY DEF Enter, Due
<1>3. l \in Locks
  <2>1. CASE entries[k].users = 0
    BY <1>1, <2>1
  <2>2. CASE entries[k].users # 0
    <3>1. Users(k) # {}
      BY <2>2, FS_EmptySet DEF IInv, CountInv
    <3> QED BY <1>1, <2>2, <3>1 DEF Users, IInv, LocalInv
  <2> QED BY <2>1, <2>2
<1>4. TypeOK'
  BY <1>1, <1>2, <1>3 DEF IInv, TypeOK
<1>5. LocalInv'
  <2> SUFFICES ASSUME NEW u \in Threads, NEW j \in Keys, at'[u][j] # "out"
               PROVE  lock'[u][j] = entries'[j].lock /\ lock'[u][j] \in Locks
    BY DEF LocalInv
  <2>1. CASE u = t /\ j = k
    BY <1>1, <1>3, <2>1 DEF IInv, TypeOK
  <2>2. CASE u # t /\ j = k
    <3>1. at[u][k] # "out"
      BY <1>2, <2>2 DEF IInv, TypeOK
    <3>2. entries[k].users # 0
      BY <3>1, NoUsers DEF IInv
    <3>3. l = entries[k].lock
      BY <1>1, <3>2
    <3> QED BY <1>1, <2>2, <3>1, <3>3 DEF IInv, TypeOK, LocalInv
  <2>3. CASE j # k
    BY <1>1, <1>2, <2>3 DEF IInv, TypeOK, LocalInv
  <2> QED BY <2>1, <2>2, <2>3
<1>6. CountInv'
  <2> SUFFICES ASSUME NEW j \in Keys
               PROVE  /\ entries'[j].users = Cardinality(Users(j)')
                      /\ entries'[j].users = 0 => entries'[j] = NoEntry
    BY DEF CountInv
  <2>1. CASE j = k
    <3>1. Users(k)' = Users(k) \cup {t} /\ t \notin Users(k)
      BY <1>2 DEF Users, IInv, TypeOK
    <3>2. Cardinality(Users(k)') = Cardinality(Users(k)) + 1
      BY <3>1, UsersFinite, FS_AddElement
    <3>3. entries'[k].users = entries[k].users + 1 /\ entries[k].users \in Nat
      BY <1>1 DEF IInv, TypeOK
    <3> QED BY <2>1, <3>2, <3>3 DEF IInv, CountInv
  <2>2. CASE j # k
    <3>1. Users(j)' = Users(j) /\ entries'[j] = entries[j]
      BY <1>1, <1>2, <2>2 DEF Users, IInv, TypeOK
    <3> QED BY <3>1 DEF IInv, CountInv
  <2> QED BY <2>1, <2>2
<1>7. FreshInv'
  <2>1. \A j \in Keys : j # k => entries'[j] = entries[j]
    BY <1>1 DEF IInv, TypeOK
  <2>2. entries'[k].lock = l
    BY <1>1 DEF IInv, TypeOK
  <2>3. CASE entries[k].users = 0
    <3>1. \A j \in Keys : entries[j].lock # l
      BY <1>1, <2>3 DEF Referenced
    <3> QED BY <1>3, <2>1, <2>2, <3>1 DEF IInv, FreshInv
  <2>4. CASE entries[k].users # 0
    BY <1>1, <2>1, <2>2, <2>4 DEF IInv, FreshInv
  <2> QED BY <2>3, <2>4
<1>8. OwnerInv'
  BY <1>1, <1>2 DEF IInv, TypeOK, OwnerInv
<1> QED BY <1>4, <1>5, <1>6, <1>7, <1>8 DEF IInv

LEMMA AcquireKeeps ==
    ASSUME IInv, NEW t \in Threads, NEW k \in Keys, Acquire(t, k)
    PROVE  IInv'
<1>1. /\ at[t][k] = "waiting" /\ owner[lock[t][k]] = None
      /\ owner' = [owner EXCEPT ![lock[t][k]] = t]
      /\ at' = [at EXCEPT ![t][k] = "in"]
      /\ UNCHANGED <<entries, plan, lock, leaving>>
  BY DEF Acquire
<1>2. TypeOK'
  BY <1>1 DEF IInv, TypeOK
<1>3. LocalInv'
  BY <1>1 DEF IInv, TypeOK, LocalInv
<1>4. CountInv'
  BY <1>1, SameUsers DEF IInv, TypeOK
<1>5. FreshInv'
  BY <1>1 DEF IInv, FreshInv
<1>6. OwnerInv'
  <2> SUFFICES ASSUME NEW u \in Threads, NEW j \in Keys, at'[u][j] = "in"
               PROVE  owner'[lock[u][j]] = u
    BY <1>1 DEF OwnerInv
  <2>1. lock[t][k] \in Locks
    BY <1>1 DEF IInv, LocalInv
  <2>2. CASE u = t /\ j = k
    BY <1>1, <2>1, <2>2 DEF IInv, TypeOK
  <2>3. CASE ~(u = t /\ j = k)
    <3>1. at[u][j] = "in"
      BY <1>1, <2>3 DEF IInv, TypeOK
    <3>2. owner[lock[u][j]] = u /\ lock[u][j] \in Locks
      BY <3>1 DEF IInv, OwnerInv, LocalInv
    <3>3. lock[u][j] # lock[t][k]
      BY <1>1, <3>2
    <3> QED BY <1>1, <3>2, <3>3 DEF IInv, TypeOK
  <2> QED BY <2>2, <2>3
<1> QED BY <1>2, <1>3, <1>4, <1>5, <1>6 DEF IInv

LEMMA ReleaseKeeps ==
    ASSUME IInv, NEW t \in Threads, NEW k \in Keys, Release(t, k)
    PROVE  IInv'
<1>1. /\ at[t][k] = "in"
      /\ owner' = [owner EXCEPT ![lock[t][k]] = None]
      /\ at' = [at EXCEPT ![t][k] = "released"]
      /\ UNCHANGED <<entries, plan, lock, leaving>>
  BY DEF Release
<1>2. TypeOK'
  BY <1>1 DEF IInv, TypeOK
<1>3. LocalInv'
  BY <1>1 DEF IInv, TypeOK, LocalInv
<1>4. CountInv'
  BY <1>1, SameUsers DEF IInv, TypeOK
<1>5. FreshInv'
  BY <1>1 DEF IInv, FreshInv
<1>6. OwnerInv'
  <2> SUFFICES ASSUME NEW u \in Threads, NEW j \in Keys, at'[u][j] = "in"
               PROVE  owner'[lock[u][j]] = u
    BY <1>1 DEF OwnerInv
  <2>1. at[u][j] = "in" /\ ~(u = t /\ j = k)
    BY <1>1 DEF IInv, TypeOK
  <2>2. /\ owner[lock[u][j]] = u /\ lock[u][j] \in Locks /\ lock[u][j] = entries[j].lock
        /\ owner[lock[t][k]] = t /\ lock[t][k] \in Locks /\ lock[t][k] = entries[k].lock
    BY <1>1, <2>1 DEF IInv, OwnerInv, LocalInv
  <2>3. lock[u][j] # lock[t][k]
    BY <2>1, <2>2 DEF IInv, FreshInv
  <2> QED BY <1>1, <2>2, <2>3 DEF IInv, TypeOK
<1> QED BY <1>2, <1>3, <1>4, <1>5, <1>6 DEF IInv

LEMMA LeaveKeeps ==
    ASSUME IInv, NEW t \in Threads, NEW k \in Keys, Leave(t, k)
    PROVE  IInv'
<1>1. /\ at[t][k] = "released"
      /\ entries' = [entries EXCEPT ![k] = Left(t, k)]
      /\ at' = [at EXCEPT ![t][k] = "out"]
      /\ lock' = [lock EXCEPT ![t][k] = None]
      /\ UNCHANGED owner
  BY DEF Leave
<1>2. /\ entries[k].users \in Nat /\ entries[k].users >= 1
      /\ lock[t][k] = entries[k].lock /\ lock[t][k] \in Locks
  BY <1>1, OneUserAtLeast DEF IInv, LocalInv
<1>3. TypeOK'
  <2>1. entries' \in [Keys -> [lock : Locks \cup {None}, users : Nat]]
    BY <1>1, <1>2 DEF IInv, TypeOK, Left
  <2>2. /\ at' \in [Threads -> [Keys -> {"out", "waiting", "in", "released"}]]
        /\ lock' \in [Threads -> [Keys -> Locks \cup {None}]]
    BY <1>1 DEF IInv, TypeOK
  <2>3. plan' \in [Threads -> SUBSET Keys] /\ leaving' \in [Threads -> BOOLEAN]
    BY DEF IInv, TypeOK, Leave
  <2> QED BY <1>1, <2>1, <2>2, <2>3 DEF IInv, TypeOK
<1>4. LocalInv'
  <2> SUFFICES ASSUME NEW u \in Threads, NEW j \in Keys, at'[u][j] # "out"
               PROVE  lock'[u][j] = entries'[j].lock /\ lock'[u][j] \in Locks
    BY DEF LocalInv
  <2>1. at[u][j] # "out" /\ ~(u = t /\ j = k) /\ lock'[u][j] = lock[u][j]
    BY <1>1 DEF IInv, TypeOK
  <2>2. CASE j # k
    BY <1>1, <2>1, <2>2 DEF IInv, TypeOK, LocalInv
  <2>3. CASE j = k
    <3>1. entries[k].users # 1
      BY <1>1, <2>1, <2>3, OneUser DEF IInv
    <3>2. entries'[k].lock = lock[t][k]
      BY <1>1, <3>1 DEF Left, IInv, TypeOK
    <3> QED BY <1>2, <2>1, <2>3, <3>2 DEF IInv, LocalInv
  <2> QED BY <2>2, <2>3
<1>5. CountInv'
  <2> SUFFICES ASSUME NEW j \in Keys
               PROVE  /\ entries'[j].users = Cardinality(Users(j)')
                      /\ entries'[j].users = 0 => entries'[j] = NoEntry
    BY DEF CountInv
  <2>1. CASE j = k
    <3>1. Users(k)' = Users(k) \ {t} /\ t \in Users(k)
      BY <1>1 DEF Users, IInv, TypeOK
    <3>2. Cardinality(Users(k)') = Cardinality(Users(k)) - 1
      BY <3>1, UsersFinite, FS_RemoveElement
    <3>3. entries'[k] = Left(t, k)
      BY <1>1 DEF IInv, TypeOK
    <3>4. /\ Left(t, k).users = entries[k].users - 1
          /\ Left(t, k).users = 0 => Left(t, k) = NoEntry
      BY <1>2 DEF Left
    <3> QED BY <2>1, <3>2, <3>3, <3>4 DEF IInv, CountInv
  <2>2. CASE j # k
    <3>1. Users(j)' = Users(j) /\ entries'[j] = entries[j]
      BY <1>1, <2>2 DEF Users, IInv, TypeOK
    <3> QED BY <3>1 DEF IInv, CountInv
  <2> QED BY <2>1, <2>2
<1>6. FreshInv'
  <2>1. \A j \in Keys : j # k => entries'[j] = entries[j]
    BY <1>1 DEF IInv, TypeOK
  <2>2. entries'[k].lock \in {None, entries[k].lock}
    BY <1>1, <1>2 DEF IInv, TypeOK, Left
  <2> QED BY <2>1, <2>2 DEF IInv, FreshInv
<1>7. OwnerInv'
  BY <1>1 DEF IInv, TypeOK, OwnerInv
<1> QED BY <1>3, <1>4, <1>5, <1>6, <1>7 DEF IInv

LEMMA NextIInv == IInv /\ [Next]_vars => IInv'
<1> SUFFICES ASSUME IInv, [Next]_vars PROVE IInv'
  OBVIOUS
<1>1. ASSUME NEW t \in Threads, Call(t) PROVE IInv'
  <2>1. plan' \in [Threads -> SUBSET Keys] /\ leaving' \in [Threads -> BOOLEAN]
    BY <1>1 DEF Call, Plans, Keys, IInv, TypeOK
  <2>2. TypeOK'
    BY <1>1, <2>1 DEF Call, IInv, TypeOK
  <2>3. CountInv'
    BY <1>1, SameUsers DEF Call, IInv
  <2> QED BY <1>1, <2>2, <2>3 DEF Call, IInv, LocalInv, FreshInv, OwnerInv
<1>2. ASSUME NEW t \in Threads, Finish(t) PROVE IInv'
  <2>1. TypeOK'
    BY <1>2 DEF Finish, IInv, TypeOK
  <2>2. CountInv'
    BY <1>2, SameUsers DEF Finish, IInv
  <2> QED BY <1>2, <2>1, <2>2 DEF Finish, IInv, LocalInv, FreshInv, OwnerInv
<1>3. CASE UNCHANGED vars
  <2>1. CountInv'
    BY <1>3, SameUsers DEF vars, IInv
  <2> QED BY <1>3, <2>1 DEF vars, IInv, TypeOK, LocalInv, FreshInv, OwnerInv
<1> QED
  BY <1>1, <1>2, <1>3, EnterKeeps, AcquireKeeps, ReleaseKeeps, LeaveKeeps DEF Next

LEMMA Invariance == Spec => []IInv
  BY InitIInv, NextIInv, PTL DEF Spec

-----------------------------------------------------------------------------
\* At most one thread is in the body of hold for a key.
THEOREM Exclusion == Spec => []MutualExclusion
<1>1. IInv => MutualExclusion
  BY DEF IInv, LocalInv, OwnerInv, MutualExclusion
<1> QED BY <1>1, Invariance, PTL

\* No entry outlives the calls that use it, so the table does not grow with the
\* number of codes ever asked for.
THEOREM EntriesAreDropped ==
    Spec => [](\A k \in Keys : (\A t \in Threads : at[t][k] = "out") => entries[k] = NoEntry)
<1>1. IInv => \A k \in Keys : (\A t \in Threads : at[t][k] = "out") => entries[k] = NoEntry
  <2> SUFFICES ASSUME IInv, NEW k \in Keys, \A t \in Threads : at[t][k] = "out"
               PROVE  entries[k] = NoEntry
    OBVIOUS
  <2>1. Users(k) = {}
    BY DEF Users
  <2> QED BY <2>1, FS_EmptySet DEF IInv, CountInv
<1> QED BY <1>1, Invariance, PTL

-----------------------------------------------------------------------------
(***************************************************************************)
(* The discovery (OptionDiscovery).  Instances grow: one that was read     *)
(* from is never greater than one the transport believes in afterwards.    *)
(* What a query reads after it took its token is not less than the token;  *)
(* so if the token is still valid at the end, all of it is the token's.    *)
(***************************************************************************)

Instances == Nat \cup {Nothing}

\* The transport adopted instance r once: it will not believe in a lesser one.
Known(r) ==
    /\ r \in Nat /\ r <= started
    /\ instance # Nothing => r <= instance
    /\ health.step = "answered" => r <= health.heard

BridgeInv ==
    /\ started \in Nat /\ strategy \in Instances /\ instance \in Instances
    /\ strategy # Nothing => strategy = started
    /\ instance # Nothing => Known(instance)
    /\ health \in [step : {"probe", "answered", "over"}, heard : Instances, failures : Nat]
    /\ health.step = "answered" => health.heard \in Nat /\ health.heard <= started

\* Values that were read from instances not less than floor.
Good(v, floor) ==
    /\ v.reads # {} /\ v.since \in Nat
    /\ \A r \in v.reads : Known(r) /\ floor \in Nat /\ r >= floor

LoadSteps == {"codes", "details", "loaded", "loadFailed"}
QuerySteps == {"idle", "map", "token", "get", "wait", "flying", "check", "outerCheck",
               "answered", "failed"} \cup LoadSteps

Query == [kind : Kinds \cup {"none"}, step : QuerySteps, token : Instances, outer : Instances,
          addressed : Instances, reads : SUBSET Nat, since : Nat]

\* The instance that a query found before it read.
Floor(c) == IF my[c].kind = "underlyings" THEN my[c].outer ELSE my[c].token

HasFloor(c) == my[c].kind = "underlyings" \/ my[c].step # "token"
Alive(c) == my[c].step \notin {"idle", "failed"}

\* What a query has read so far.
QueryInv(c) ==
    /\ my[c].step = "idle" => my[c] = NoQuery
    /\ my[c].step # "idle" => my[c].kind \in Kinds
    /\ my[c].step \in {"map", "outerCheck"} => my[c].kind = "underlyings"
    /\ my[c].step \in {"get", "wait", "flying", "loaded", "loadFailed"} => my[c].kind = "chain"
    /\ Alive(c) /\ HasFloor(c) => Floor(c) # Nothing /\ Known(Floor(c))
    /\ my[c].step \in {"codes", "details", "loaded", "check"} => my[c].token # Nothing
    /\ my[c].step = "token" /\ my[c].kind # "underlyings" => my[c].reads = {}
    /\ my[c].addressed # Nothing =>
         my[c].step \in ReadSteps /\ Known(my[c].addressed) /\ my[c].addressed >= Floor(c)
    /\ \A r \in my[c].reads : Known(r) /\ (Alive(c) => r >= Floor(c))
    /\ \/ my[c].step \in {"details", "loaded", "check", "outerCheck", "answered"}
       \/ my[c].step \in {"token", "codes"} /\ my[c].kind = "underlyings"
       => my[c].reads # {}
    /\ my[c].step = "answered" => my[c].reads = {Floor(c)}

\* Where a caller is in get, ...
PlaceInv(c) ==
    /\ my[c].kind # "chain" \/ my[c].step \in {"idle", "token", "get"} => get[c] = Outside
    /\ my[c].kind = "chain" =>
         /\ get[c].at = "load" <=> my[c].step \in LoadSteps
         /\ get[c].at \in {"store", "set"} <=> my[c].step = "flying"
         /\ my[c].step = "wait" => get[c].at \in {"wait", "left"}
         /\ my[c].step \in {"check", "answered"} => get[c].at = "left"
         /\ my[c].step = "failed" => get[c].at \in {"left", "out"}

\* ... and what he was given there.
GetInv(c) ==
    /\ get[c].at # "out" => get[c].key[1] = my[c].token /\ get[c].generation <= generation
    /\ \/ get[c].at = "load" /\ my[c].step \in {"details", "loaded"}
       \/ get[c].at = "load" /\ my[c].step = "codes" /\ my[c].addressed # Nothing
       \/ my[c].step \in {"check", "answered"}
       => my[c].since >= get[c].generation
    /\ get[c].at \in {"store", "set", "left"} /\ get[c].result # <<>> =>
         /\ Good(get[c].result[1], get[c].key[1])
         /\ get[c].result[1].since >= get[c].generation
    /\ get[c].at = "wait" =>
         LET l == get[c].leader IN
         /\ l \in Callers /\ get[l].at \in {"load", "store"}
         /\ get[l].key = get[c].key /\ get[l].generation = get[c].generation

\* The cache and its flights.
StoreInv ==
    /\ \A v \in values : Good(v.value, v.key[1]) /\ v.value.since >= generation
    /\ \A f \in pending :
         /\ f.leader \in Callers /\ get[f.leader].at \in {"load", "store", "set"}
         /\ get[f.leader].key = f.key /\ get[f.leader].generation = f.generation

GetTypeOK ==
    /\ generation \in Nat
    /\ my \in [Callers -> Query]
    /\ DOMAIN get = Callers
    /\ \A v \in values : DOMAIN v = {"key", "value", "rank"}
    /\ \A c \in Callers :
         /\ DOMAIN get[c] = DOMAIN Outside
         /\ get[c].at \in {"out", "load", "store", "set", "wait", "left"}
         /\ get[c].generation \in Nat

DInv == BridgeInv /\ GetTypeOK /\ StoreInv /\ \A c \in Callers : QueryInv(c) /\ PlaceInv(c) /\ GetInv(c)

-----------------------------------------------------------------------------
(***************************************************************************)
(* The batches (BatchReads).                                               *)
(***************************************************************************)
Expected == IF batch.operation = "details" THEN 2 ELSE 1

BatchTypeOK ==
    /\ batch \in [operation : Operations \cup {"none"},
                  step : {"idle", "group", "pool", "leaving", "answered", "raised"},
                  addressed : Instances, lost : BOOLEAN]
    /\ item \in [Items -> [at : {"queued", "reading", "found", "failed", "raised", "cancelled"},
                           addressed : Instances, answers : Nat, why : {"none", "bad", "lost"}]]

ItemInv(i) ==
    /\ batch.step \in {"idle", "group"} => item[i] = Queued
    /\ batch.step \in {"answered", "raised"} => item[i].at # "reading"
    /\ item[i].at = "queued" => item[i].answers = 0
    /\ item[i].at = "reading" => item[i].answers < Expected
    /\ item[i].at = "found" => item[i].answers = Expected
    /\ item[i].at = "failed" => item[i].why = "bad"
    /\ item[i].at = "raised" => item[i].why = "lost"
    /\ item[i].addressed # Nothing => item[i].at = "reading"
    /\ batch.step = "answered" => item[i].at \in Settled

CallerInv ==
    /\ batch.step \in {"group", "pool", "leaving"} => batch.operation \in Operations
    /\ batch.addressed # Nothing => batch.step = "group"
    /\ batch.step = "leaving" => \E i \in Items : item[i].why = "lost" /\ item[i].at = "raised"
    /\ batch.step = "raised" => batch.lost \/ \E i \in Items : item[i].why = "lost"

BInv == BatchTypeOK /\ CallerInv /\ \A i \in Items : ItemInv(i)

-----------------------------------------------------------------------------
(* Steps of the strategy, of the health loop, and of whoever loses them. *)

Mono == \A r : Known(r) => Known(r)'

\* A failed read may take the transport's instance away.
Fades == instance' \in {instance, Nothing} /\ UNCHANGED <<strategy, started, health>>

LEMMA BridgeStep ==
    ASSUME BridgeInv, Restart \/ Ping \/ Adopt \/ PingFails \/ Stop \/ Fades
    PROVE  BridgeInv' /\ Mono
<1> USE DiscoveryAssumption DEF BridgeInv, Instances, Known, Mono
<1>1. CASE Restart
  BY <1>1 DEF Restart
<1>2. CASE Ping
  <2>1. /\ health'.step = "answered" /\ health'.heard = strategy /\ health'.failures = health.failures
        /\ UNCHANGED <<strategy, started, instance>>
    BY <1>2 DEF Ping, bridge
  <2>2. health' \in [step : {"probe", "answered", "over"}, heard : Nat \cup {Nothing},
     failures : Nat]
    BY <1>2, <2>1 DEF Ping
  <2> QED BY <1>2, <2>1, <2>2 DEF Ping
<1>3. CASE Adopt
  BY <1>3 DEF Adopt
<1>4. CASE PingFails
  <2>1. /\ health'.step \in {"probe", "over"} /\ health'.heard = health.heard
        /\ UNCHANGED <<strategy, started>> /\ instance' \in {instance, Nothing}
    BY <1>4 DEF PingFails, Invalidated
  <2>2. Counted \in Nat
    BY DEF Counted
  <2>3. health' \in [step : {"probe", "answered", "over"}, heard : Nat \cup {Nothing},
     failures : Nat]
    BY <1>4, <2>1, <2>2 DEF PingFails
  <2> QED BY <2>1, <2>3
<1>5. CASE Stop
  BY <1>5 DEF Stop, bridge
<1>6. CASE Fades
  BY <1>6 DEF Fades
<1> QED BY <1>1, <1>2, <1>3, <1>4, <1>5, <1>6

LEMMA GoodStays == ASSUME Mono PROVE \A v, f : Good(v, f) => Good(v, f)'
BY DEF Mono, Good

\* Whoever does not move keeps what is known of him.
LEMMA QueryStays ==
    ASSUME Mono, NEW d \in Callers, my'[d] = my[d], QueryInv(d)
    PROVE  QueryInv(d)'
BY DEF Mono, QueryInv, Alive, HasFloor, Floor

\* A step of one query, in which the cache is left alone.
LEMMA OneQuery ==
    ASSUME DInv, BridgeInv', Mono, NEW c \in Callers,
           my' \in [Callers -> Query], \A d \in Callers : d # c => my'[d] = my[d],
           UNCHANGED cacheVars, QueryInv(c)', PlaceInv(c)', GetInv(c)'
    PROVE  DInv'
<1>1. GetTypeOK'
  BY DEF DInv, GetTypeOK, cacheVars
<1>2. StoreInv'
  BY GoodStays DEF DInv, StoreInv, cacheVars
<1>3. ASSUME NEW d \in Callers, d # c PROVE QueryInv(d)' /\ PlaceInv(d)' /\ GetInv(d)'
  <2>1. QueryInv(d)'
    BY <1>3, QueryStays DEF DInv
  <2>2. GetInv(d)'
    BY <1>3, GoodStays DEF DInv, GetInv, cacheVars
  <2>3. PlaceInv(d)'
    BY <1>3 DEF DInv, PlaceInv, cacheVars
  <2> QED BY <2>1, <2>2, <2>3
<1> QED BY <1>1, <1>2, <1>3 DEF DInv

\* A step of nobody's query.
LEMMA NoQueryMoves ==
    ASSUME DInv, BridgeInv', Mono, UNCHANGED <<my, cacheVars>>
    PROVE  DInv'
<1>1. GetTypeOK'
  BY DEF DInv, GetTypeOK, cacheVars
<1>2. StoreInv'
  BY GoodStays DEF DInv, StoreInv, cacheVars
<1>3. ASSUME NEW d \in Callers PROVE QueryInv(d)' /\ PlaceInv(d)' /\ GetInv(d)'
  <2>1. QueryInv(d)'
    BY <1>3, QueryStays DEF DInv
  <2>2. GetInv(d)'
    BY <1>3, GoodStays DEF DInv, GetInv, cacheVars
  <2>3. PlaceInv(d)'
    BY <1>3 DEF DInv, PlaceInv, cacheVars
  <2> QED BY <2>1, <2>2, <2>3
<1> QED BY <1>1, <1>2, <1>3 DEF DInv

LEMMA BridgeUnchanged ==
    ASSUME BridgeInv, UNCHANGED <<bridge, health>> PROVE BridgeInv' /\ Mono
BY DEF BridgeInv, Mono, Known, bridge

LEMMA AskInv == ASSUME DInv, NEW c \in Callers, NEW kind \in Kinds, Ask(c, kind) PROVE DInv'
<1> DEFINE q == my[c]
<1>1. BridgeInv' /\ Mono
  BY BridgeUnchanged DEF DInv, Ask, Kinds
<1>2. /\ q \in Query /\ QueryInv(c) /\ PlaceInv(c) /\ GetInv(c) /\ my \in [Callers -> Query]
      /\ instance \in Instances /\ (instance # Nothing => Known(instance))
  BY DEF DInv, GetTypeOK, BridgeInv
<1>0. q.step = "idle" /\ q = NoQuery
  BY <1>2 DEF Ask, QueryInv
<1>3. /\ \A d \in Callers : d # c => my'[d] = my[d]
      /\ my'[c].kind = kind
      /\ my'[c].step = IF kind # "underlyings" THEN "token" ELSE IF instance = Nothing
                THEN "failed" ELSE "map"
      /\ my'[c].token = q.token
      /\ my'[c].outer = IF kind = "underlyings" THEN instance ELSE q.outer
      /\ my'[c].addressed = q.addressed
      /\ my'[c].reads = q.reads
      /\ my'[c].since = q.since
  BY <1>2, <1>0 DEF Ask, Kinds, Query
<1>4. my' \in [Callers -> Query]
  BY <1>2, <1>3, <1>0 DEF Ask, Kinds, Query, QuerySteps, LoadSteps, Instances
<1>5. UNCHANGED cacheVars
  BY DEF Ask, Kinds
<1>6. QueryInv(c)'
  <2> USE <1>1, <1>2, <1>3, <1>0, DiscoveryAssumption DEF QueryInv, Floor, HasFloor, Alive,
     LoadSteps, ReadSteps, Mono, Known
  <2>1. CASE kind = "underlyings" /\ instance # Nothing
    BY <2>1 DEF NoQuery, Outside
  <2>2. CASE kind = "underlyings" /\ instance = Nothing
    BY <2>2 DEF NoQuery, Outside
  <2>3. CASE kind # "underlyings"
    BY <2>3 DEF NoQuery, Outside
  <2> QED BY <2>1, <2>2, <2>3
<1>7. PlaceInv(c)' /\ GetInv(c)'
  <2> USE <1>1, <1>2, <1>3, <1>0, <1>5, DiscoveryAssumption DEF GetInv, LoadSteps, ReadSteps,
     cacheVars
  <2>0. \A v, f : Good(v, f) => Good(v, f)'
    BY GoodStays
  <2>p. PlaceInv(c)'
    BY DEF PlaceInv, QueryInv, NoQuery, Outside
  <2>1. ASSUME kind = "underlyings" /\ instance # Nothing PROVE GetInv(c)'
    BY <2>0, <2>1 DEF QueryInv, PlaceInv, NoQuery, Outside
  <2>2. ASSUME kind = "underlyings" /\ instance = Nothing PROVE GetInv(c)'
    BY <2>0, <2>2 DEF QueryInv, PlaceInv, NoQuery, Outside
  <2>3. ASSUME kind # "underlyings" PROVE GetInv(c)'
    BY <2>0, <2>3 DEF QueryInv, PlaceInv, NoQuery, Outside
  <2> QED BY <2>p, <2>1, <2>2, <2>3
<1> QED BY <1>1, <1>3, <1>4, <1>5, <1>6, <1>7, OneQuery

LEMMA TakeTokenInv == ASSUME DInv, NEW c \in Callers, TakeToken(c) PROVE DInv'
<1> DEFINE q == my[c]
<1>1. BridgeInv' /\ Mono
  BY BridgeUnchanged DEF DInv, TakeToken, Kinds
<1>2. /\ q \in Query /\ QueryInv(c) /\ PlaceInv(c) /\ GetInv(c) /\ my \in [Callers -> Query]
      /\ instance \in Instances /\ (instance # Nothing => Known(instance))
  BY DEF DInv, GetTypeOK, BridgeInv
<1>0. q.step = "token"
  BY DEF TakeToken
<1>3. /\ \A d \in Callers : d # c => my'[d] = my[d]
      /\ my'[c].kind = q.kind
      /\ my'[c].step = IF instance = Nothing THEN "failed" ELSE IF q.kind = "chain"
                THEN "get" ELSE "codes"
      /\ my'[c].token = instance
      /\ my'[c].outer = q.outer
      /\ my'[c].addressed = q.addressed
      /\ my'[c].reads = q.reads
      /\ my'[c].since = q.since
  BY <1>2, <1>0 DEF TakeToken, Kinds, Query
<1>4. my' \in [Callers -> Query]
  BY <1>2, <1>3, <1>0 DEF TakeToken, Kinds, Query, QuerySteps, LoadSteps, Instances
<1>5. UNCHANGED cacheVars
  BY DEF TakeToken, Kinds
<1>6. QueryInv(c)'
  <2> USE <1>1, <1>2, <1>3, <1>0, DiscoveryAssumption DEF QueryInv, Floor, HasFloor, Alive,
     LoadSteps, ReadSteps, Mono, Known
  <2>1. CASE instance = Nothing
    BY <2>1 DEF Outside
  <2>2. CASE instance # Nothing /\ q.kind = "underlyings"
    BY <2>2 DEF Outside
  <2>3. CASE instance # Nothing /\ q.kind # "underlyings"
    BY <2>3 DEF Outside
  <2> QED BY <2>1, <2>2, <2>3
<1>7. PlaceInv(c)' /\ GetInv(c)'
  <2> USE <1>1, <1>2, <1>3, <1>0, <1>5, DiscoveryAssumption DEF GetInv, LoadSteps, ReadSteps,
     cacheVars
  <2>0. \A v, f : Good(v, f) => Good(v, f)'
    BY GoodStays
  <2>p. PlaceInv(c)'
    BY DEF PlaceInv, QueryInv, Outside
  <2>1. ASSUME instance = Nothing PROVE GetInv(c)'
    BY <2>0, <2>1 DEF QueryInv, PlaceInv, Outside
  <2>2. ASSUME instance # Nothing /\ q.kind = "underlyings" PROVE GetInv(c)'
    BY <2>0, <2>2 DEF QueryInv, PlaceInv, Outside
  <2>3. ASSUME instance # Nothing /\ q.kind # "underlyings" PROVE GetInv(c)'
    BY <2>0, <2>3 DEF QueryInv, PlaceInv, Outside
  <2> QED BY <2>p, <2>1, <2>2, <2>3
<1> QED BY <1>1, <1>3, <1>4, <1>5, <1>6, <1>7, OneQuery

LEMMA SendInv == ASSUME DInv, NEW c \in Callers, Send(c) PROVE DInv'
<1> DEFINE q == my[c]
<1>1. BridgeInv' /\ Mono
  BY BridgeUnchanged DEF DInv, Send, AfterFailure, ReadSteps, Kinds
<1>2. /\ q \in Query /\ QueryInv(c) /\ PlaceInv(c) /\ GetInv(c) /\ my \in [Callers -> Query]
      /\ instance \in Instances /\ (instance # Nothing => Known(instance))
  BY DEF DInv, GetTypeOK, BridgeInv
<1>0. q.step \in ReadSteps /\ q.addressed = Nothing /\ generation \in Nat
  BY DEF Send, DInv, GetTypeOK
<1>g. get[c].at = "load" <=> q.kind = "chain"
  <2>1. CASE q.kind = "chain"
    <3>1. q.step # "map"
      BY <1>2, <2>1 DEF QueryInv
    <3> QED BY <1>2, <1>0, <2>1, <3>1 DEF PlaceInv, ReadSteps, LoadSteps
  <2>2. CASE q.kind # "chain"
    BY <1>2, <2>2 DEF PlaceInv, Outside
  <2> QED BY <2>1, <2>2
<1>3. /\ \A d \in Callers : d # c => my'[d] = my[d]
      /\ my'[c].kind = q.kind
      /\ my'[c].step = IF instance # Nothing THEN q.step ELSE IF get[c].at = "load"
                THEN "loadFailed" ELSE "failed"
      /\ my'[c].token = q.token
      /\ my'[c].outer = q.outer
      /\ my'[c].addressed = IF instance = Nothing THEN q.addressed ELSE instance
      /\ my'[c].reads = q.reads
      /\ my'[c].since = IF instance # Nothing /\ q.step = "codes" /\ get[c].at = "load"
                THEN generation ELSE q.since
  BY <1>2, <1>0, <1>g DEF Send, AfterFailure, ReadSteps, Kinds, Query
<1>4. my' \in [Callers -> Query]
  BY <1>2, <1>3, <1>0, <1>g DEF Send, AfterFailure, ReadSteps, Kinds, Query, QuerySteps,
     LoadSteps, Instances
<1>5. UNCHANGED cacheVars
  BY DEF Send, AfterFailure, ReadSteps, Kinds
<1>6. QueryInv(c)'
  <2> USE <1>1, <1>2, <1>3, <1>0, <1>g, DiscoveryAssumption DEF QueryInv, Floor, HasFloor, Alive,
     LoadSteps, ReadSteps, Mono, Known
  <2>1. CASE instance = Nothing
    BY <2>1 DEF Outside
  <2>2. CASE instance # Nothing /\ q.kind = "underlyings"
    BY <2>2 DEF Outside
  <2>3. CASE instance # Nothing /\ q.kind # "underlyings"
    BY <2>3 DEF Outside
  <2> QED BY <2>1, <2>2, <2>3
<1>7. PlaceInv(c)' /\ GetInv(c)'
  <2> USE <1>1, <1>2, <1>3, <1>0, <1>g, <1>5, DiscoveryAssumption DEF GetInv, LoadSteps,
     ReadSteps, cacheVars
  <2>0. \A v, f : Good(v, f) => Good(v, f)'
    BY GoodStays
  <2>p. PlaceInv(c)'
    BY DEF PlaceInv, QueryInv, Outside
  <2>1. ASSUME instance = Nothing PROVE GetInv(c)'
    BY <2>0, <2>1 DEF QueryInv, PlaceInv, Outside
  <2>2. ASSUME instance # Nothing /\ q.kind = "underlyings" PROVE GetInv(c)'
    BY <2>0, <2>2 DEF QueryInv, PlaceInv, Outside
  <2>3. ASSUME instance # Nothing /\ q.kind # "underlyings" PROVE GetInv(c)'
    BY <2>0, <2>3 DEF QueryInv, PlaceInv, Outside
  <2> QED BY <2>p, <2>1, <2>2, <2>3
<1> QED BY <1>1, <1>3, <1>4, <1>5, <1>6, <1>7, OneQuery

LEMMA TakeInv == ASSUME DInv, NEW c \in Callers, Take(c) PROVE DInv'
<1> DEFINE q == my[c]
<1>1. BridgeInv' /\ Mono
  BY BridgeUnchanged DEF DInv, Take, Kinds
<1>2. /\ q \in Query /\ QueryInv(c) /\ PlaceInv(c) /\ GetInv(c) /\ my \in [Callers -> Query]
      /\ instance \in Instances /\ (instance # Nothing => Known(instance))
  BY DEF DInv, GetTypeOK, BridgeInv
<1>0. q.step = "wait" /\ get[c].at = "left" /\ q.kind = "chain" /\ q.addressed = Nothing
  BY <1>2 DEF Take, QueryInv, ReadSteps
<1>g. get[c].result # <<>> =>
        /\ Good(get[c].result[1], q.token)
        /\ get[c].result[1].reads \subseteq Nat /\ get[c].result[1].since \in Nat
        /\ get[c].result[1].since >= get[c].generation
  BY <1>2, <1>0 DEF GetInv, Good, Known
<1>3. /\ \A d \in Callers : d # c => my'[d] = my[d]
      /\ my'[c].kind = q.kind
      /\ my'[c].step = IF get[c].result = <<>> THEN "failed" ELSE "check"
      /\ my'[c].token = q.token
      /\ my'[c].outer = q.outer
      /\ my'[c].addressed = q.addressed
      /\ my'[c].reads = IF get[c].result = <<>> THEN q.reads ELSE get[c].result[1].reads
      /\ my'[c].since = IF get[c].result = <<>> THEN q.since ELSE get[c].result[1].since
  BY <1>2, <1>0, <1>g DEF Take, Kinds, Query
<1>4. my' \in [Callers -> Query]
  BY <1>2, <1>3, <1>0, <1>g DEF Take, Kinds, Query, QuerySteps, LoadSteps, Instances
<1>5. UNCHANGED cacheVars
  BY DEF Take, Kinds
<1>6. QueryInv(c)'
  <2> USE <1>1, <1>2, <1>3, <1>0, <1>g, DiscoveryAssumption DEF QueryInv, Floor, HasFloor, Alive,
     LoadSteps, ReadSteps, Mono, Known
  <2>1. CASE get[c].result = <<>>
    BY <2>1 DEF Good, Outside
  <2>2. CASE get[c].result # <<>>
    BY <2>2 DEF Good, Outside
  <2> QED BY <2>1, <2>2
<1>7. PlaceInv(c)' /\ GetInv(c)'
  <2> USE <1>1, <1>2, <1>3, <1>0, <1>g, <1>5, DiscoveryAssumption DEF GetInv, LoadSteps,
     ReadSteps, cacheVars
  <2>0. \A v, f : Good(v, f) => Good(v, f)'
    BY GoodStays
  <2>p. PlaceInv(c)'
    BY DEF PlaceInv, QueryInv, Good, Outside
  <2>1. ASSUME get[c].result = <<>> PROVE GetInv(c)'
    BY <2>0, <2>1 DEF QueryInv, PlaceInv, Good, Outside
  <2>2. ASSUME get[c].result # <<>> PROVE GetInv(c)'
    BY <2>0, <2>2 DEF QueryInv, PlaceInv, Good, Outside
  <2> QED BY <2>p, <2>1, <2>2
<1> QED BY <1>1, <1>3, <1>4, <1>5, <1>6, <1>7, OneQuery

LEMMA ReplyInv == ASSUME DInv, NEW c \in Callers, Reply(c) PROVE DInv'
<1> DEFINE q == my[c]
<1>1. BridgeInv' /\ Mono
  BY BridgeUnchanged DEF DInv, Reply, NextSteps, Kinds
<1>2. /\ q \in Query /\ QueryInv(c) /\ PlaceInv(c) /\ GetInv(c) /\ my \in [Callers -> Query]
      /\ instance \in Instances /\ (instance # Nothing => Known(instance))
  BY DEF DInv, GetTypeOK, BridgeInv
<1>0. /\ q.addressed # Nothing /\ q.addressed = strategy /\ q.step \in ReadSteps
      /\ strategy \in Nat /\ Known(strategy) /\ strategy >= Floor(c)
  BY <1>2 DEF Reply, QueryInv, Known
<1>s. PICK s \in NextSteps(c) :
        my' = [my EXCEPT ![c].reads = @ \cup {strategy}, ![c].addressed = Nothing,
                         ![c].step = IF s = "loaded" /\ get[c].at # "load" THEN "check" ELSE s]
  BY DEF Reply
<1>n. s \in IF q.step = "map" THEN {"token", "outerCheck"} ELSE {"details", "loaded"}
  BY <1>0, <1>s DEF NextSteps, ReadSteps
<1>g. get[c].at = "load" <=> q.kind = "chain"
  <2>1. CASE q.kind = "chain"
    <3>1. q.step # "map"
      BY <1>2, <2>1 DEF QueryInv
    <3> QED BY <1>2, <1>0, <2>1, <3>1 DEF PlaceInv, ReadSteps, LoadSteps
  <2>2. CASE q.kind # "chain"
    BY <1>2, <2>2 DEF PlaceInv, Outside
  <2> QED BY <2>1, <2>2
<1>3. /\ \A d \in Callers : d # c => my'[d] = my[d]
      /\ my'[c].kind = q.kind
      /\ my'[c].step = IF s = "loaded" /\ get[c].at # "load" THEN "check" ELSE s
      /\ my'[c].token = q.token
      /\ my'[c].outer = q.outer
      /\ my'[c].addressed = Nothing
      /\ my'[c].reads = q.reads \cup {strategy}
      /\ my'[c].since = q.since
  BY <1>2, <1>s, <1>n, <1>0, <1>g DEF Reply, NextSteps, Kinds, Query
<1>4. my' \in [Callers -> Query]
  <2>1. my'[c].step \in QuerySteps
    BY <1>3, <1>n DEF QuerySteps, LoadSteps
  <2>2. my'[c].reads \in SUBSET Nat
    BY <1>2, <1>3, <1>0 DEF Query
  <2>3. my'[c] \in Query
    BY <1>2, <1>s, <1>3, <2>1, <2>2 DEF Query, Instances
  <2> QED BY <1>2, <1>s, <2>3
<1>5. UNCHANGED cacheVars
  BY DEF Reply, NextSteps, Kinds
<1>6. QueryInv(c)'
  <2> USE <1>1, <1>2, <1>3, <1>s, <1>n, <1>0, <1>g, DiscoveryAssumption DEF QueryInv, Floor,
     HasFloor, Alive, LoadSteps, ReadSteps, Mono, Known
  <2>1. CASE q.step = "map"
    BY <2>1 DEF Query, Outside
  <2>2. CASE q.step = "codes"
    BY <2>2 DEF Query, Outside
  <2>3. CASE q.step = "details"
    BY <2>3 DEF Query, Outside
  <2> QED BY <2>1, <2>2, <2>3
<1>7. PlaceInv(c)' /\ GetInv(c)'
  <2> USE <1>1, <1>2, <1>3, <1>s, <1>n, <1>0, <1>g, <1>5, DiscoveryAssumption DEF GetInv,
     LoadSteps, ReadSteps, cacheVars
  <2>0. \A v, f : Good(v, f) => Good(v, f)'
    BY GoodStays
  <2>p. PlaceInv(c)'
    BY DEF PlaceInv, QueryInv, Query, Outside
  <2>1. ASSUME q.step = "map" PROVE GetInv(c)'
    BY <2>0, <2>1 DEF QueryInv, PlaceInv, Query, Outside
  <2>2. ASSUME q.step = "codes" PROVE GetInv(c)'
    BY <2>0, <2>2 DEF QueryInv, PlaceInv, Query, Outside
  <2>3. ASSUME q.step = "details" PROVE GetInv(c)'
    BY <2>0, <2>3 DEF QueryInv, PlaceInv, Query, Outside
  <2> QED BY <2>p, <2>1, <2>2, <2>3
<1> QED BY <1>1, <1>3, <1>4, <1>5, <1>6, <1>7, OneQuery

LEMMA ReadFailsInv == ASSUME DInv, NEW c \in Callers, ReadFails(c) PROVE DInv'
<1> DEFINE q == my[c]
<1>f. Fades
  BY DEF ReadFails, Fades, Invalidated
<1>1. BridgeInv' /\ Mono
  BY BridgeStep, <1>f DEF DInv, ReadFails, AfterFailure, Kinds
<1>2. /\ q \in Query /\ QueryInv(c) /\ PlaceInv(c) /\ GetInv(c) /\ my \in [Callers -> Query]
      /\ instance \in Instances /\ (instance # Nothing => Known(instance))
  BY DEF DInv, GetTypeOK, BridgeInv
<1>0. q.step \in ReadSteps
  BY <1>2 DEF ReadFails, QueryInv
<1>g. get[c].at = "load" <=> q.kind = "chain"
  <2>1. CASE q.kind = "chain"
    <3>1. q.step # "map"
      BY <1>2, <2>1 DEF QueryInv
    <3> QED BY <1>2, <1>0, <2>1, <3>1 DEF PlaceInv, ReadSteps, LoadSteps
  <2>2. CASE q.kind # "chain"
    BY <1>2, <2>2 DEF PlaceInv, Outside
  <2> QED BY <2>1, <2>2
<1>3. /\ \A d \in Callers : d # c => my'[d] = my[d]
      /\ my'[c].kind = q.kind
      /\ my'[c].step = IF get[c].at = "load" THEN "loadFailed" ELSE "failed"
      /\ my'[c].token = q.token
      /\ my'[c].outer = q.outer
      /\ my'[c].addressed = Nothing
      /\ my'[c].reads = q.reads
      /\ my'[c].since = q.since
  BY <1>2, <1>0, <1>g DEF ReadFails, AfterFailure, Kinds, Query
<1>4. my' \in [Callers -> Query]
  BY <1>2, <1>3, <1>0, <1>g DEF ReadFails, AfterFailure, Kinds, Query, QuerySteps, LoadSteps,
     Instances
<1>5. UNCHANGED cacheVars
  BY DEF ReadFails, AfterFailure, Kinds
<1>6. QueryInv(c)'
  <2> USE <1>1, <1>2, <1>3, <1>0, <1>g, DiscoveryAssumption DEF QueryInv, Floor, HasFloor, Alive,
     LoadSteps, ReadSteps, Mono, Known
  <2>1. CASE q.kind = "chain"
    BY <2>1 DEF Query, Outside
  <2>2. CASE q.kind # "chain"
    BY <2>2 DEF Query, Outside
  <2> QED BY <2>1, <2>2
<1>7. PlaceInv(c)' /\ GetInv(c)'
  <2> USE <1>1, <1>2, <1>3, <1>0, <1>g, <1>5, DiscoveryAssumption DEF GetInv, LoadSteps,
     ReadSteps, cacheVars
  <2>0. \A v, f : Good(v, f) => Good(v, f)'
    BY GoodStays
  <2>p. PlaceInv(c)'
    BY DEF PlaceInv, QueryInv, Query, Outside
  <2>1. ASSUME q.kind = "chain" PROVE GetInv(c)'
    BY <2>0, <2>1 DEF QueryInv, PlaceInv, Query, Outside
  <2>2. ASSUME q.kind # "chain" PROVE GetInv(c)'
    BY <2>0, <2>2 DEF QueryInv, PlaceInv, Query, Outside
  <2> QED BY <2>p, <2>1, <2>2
<1> QED BY <1>1, <1>3, <1>4, <1>5, <1>6, <1>7, OneQuery

LEMMA CheckInv == ASSUME DInv, NEW c \in Callers, Check(c) PROVE DInv'
<1> DEFINE q == my[c]
<1>1. BridgeInv' /\ Mono
  BY BridgeUnchanged DEF DInv, Check, SameToken, Step, Kinds
<1>2. /\ q \in Query /\ QueryInv(c) /\ PlaceInv(c) /\ GetInv(c) /\ my \in [Callers -> Query]
      /\ instance \in Instances /\ (instance # Nothing => Known(instance))
  BY DEF DInv, GetTypeOK, BridgeInv
<1>0. q.step = "check" /\ q.addressed = Nothing
  BY <1>2 DEF Check, QueryInv, ReadSteps
<1>s. PICK s \in {"failed", "answered", "token", "outerCheck"} :
        /\ Step(c, s)
        /\ s = "failed" <=> instance # q.token
        /\ s = "answered" <=> instance = q.token /\ q.kind # "underlyings"
  BY DEF Check, SameToken
<1>g. s = "answered" => q.reads = {q.token}
  <2> SUFFICES ASSUME instance = q.token, q.kind # "underlyings" PROVE q.reads = {q.token}
    BY <1>s
  <2>1. instance # Nothing /\ q.reads # {} /\ Floor(c) = q.token /\ Alive(c)
    BY <1>2, <1>0 DEF QueryInv, Floor, Alive
  <2>2. \A r \in q.reads : Known(r) /\ (Alive(c) => r >= Floor(c))
    BY <1>2 DEF QueryInv
  <2>3. instance \in Nat
    BY <1>2, <2>1 DEF Instances
  <2>4. ASSUME NEW r \in q.reads PROVE r = q.token
    <3>1. Known(r) /\ r >= instance
      BY <2>1, <2>2
    <3> QED BY <2>1, <2>3, <3>1 DEF Known
  <2> QED BY <2>1, <2>4
<1>3. /\ \A d \in Callers : d # c => my'[d] = my[d]
      /\ my'[c].kind = q.kind
      /\ my'[c].step = s
      /\ my'[c].token = q.token
      /\ my'[c].outer = q.outer
      /\ my'[c].addressed = q.addressed
      /\ my'[c].reads = q.reads
      /\ my'[c].since = q.since
  BY <1>2, <1>s, <1>0, <1>g DEF Check, SameToken, Step, Kinds, Query
<1>4. my' \in [Callers -> Query]
  BY <1>2, <1>3, <1>s, <1>0, <1>g DEF Check, SameToken, Step, Kinds, Query, QuerySteps,
     LoadSteps, Instances
<1>5. UNCHANGED cacheVars
  BY DEF Check, SameToken, Step, Kinds
<1>6. QueryInv(c)'
  <2> USE <1>1, <1>2, <1>3, <1>s, <1>0, <1>g, DiscoveryAssumption DEF QueryInv, Floor, HasFloor,
     Alive, LoadSteps, ReadSteps, Mono, Known
  <2>1. CASE instance # q.token
    BY <2>1 DEF Query, Outside
  <2>2. CASE instance = q.token /\ q.kind # "underlyings"
    BY <2>2 DEF Query, Outside
  <2>3. CASE instance = q.token /\ q.kind = "underlyings"
    BY <2>3 DEF Query, Outside
  <2> QED BY <2>1, <2>2, <2>3
<1>7. PlaceInv(c)' /\ GetInv(c)'
  <2> USE <1>1, <1>2, <1>3, <1>s, <1>0, <1>g, <1>5, DiscoveryAssumption DEF GetInv, LoadSteps,
     ReadSteps, cacheVars
  <2>0. \A v, f : Good(v, f) => Good(v, f)'
    BY GoodStays
  <2>p. PlaceInv(c)'
    BY DEF PlaceInv, QueryInv, Query, Outside
  <2>1. ASSUME instance # q.token PROVE GetInv(c)'
    BY <2>0, <2>1 DEF QueryInv, PlaceInv, Query, Outside
  <2>2. ASSUME instance = q.token /\ q.kind # "underlyings" PROVE GetInv(c)'
    BY <2>0, <2>2 DEF QueryInv, PlaceInv, Query, Outside
  <2>3. ASSUME instance = q.token /\ q.kind = "underlyings" PROVE GetInv(c)'
    BY <2>0, <2>3 DEF QueryInv, PlaceInv, Query, Outside
  <2> QED BY <2>p, <2>1, <2>2, <2>3
<1> QED BY <1>1, <1>3, <1>4, <1>5, <1>6, <1>7, OneQuery

LEMMA OuterCheckInv == ASSUME DInv, NEW c \in Callers, OuterCheck(c) PROVE DInv'
<1> DEFINE q == my[c]
<1>1. BridgeInv' /\ Mono
  BY BridgeUnchanged DEF DInv, OuterCheck, Step, Kinds
<1>2. /\ q \in Query /\ QueryInv(c) /\ PlaceInv(c) /\ GetInv(c) /\ my \in [Callers -> Query]
      /\ instance \in Instances /\ (instance # Nothing => Known(instance))
  BY DEF DInv, GetTypeOK, BridgeInv
<1>0. q.step = "outerCheck" /\ q.addressed = Nothing /\ q.kind = "underlyings"
      /\ get[c] = Outside /\ q.since \in Nat
  BY <1>2 DEF OuterCheck, QueryInv, ReadSteps, PlaceInv, Query
<1>g. instance = q.outer => q.reads = {q.outer}
  <2> SUFFICES ASSUME instance = q.outer PROVE q.reads = {q.outer}
    OBVIOUS
  <2>1. instance # Nothing /\ q.reads # {} /\ Floor(c) = q.outer /\ Alive(c)
    BY <1>2, <1>0 DEF QueryInv, Floor, HasFloor, Alive
  <2>2. \A r \in q.reads : Known(r) /\ (Alive(c) => r >= Floor(c))
    BY <1>2 DEF QueryInv
  <2>3. instance \in Nat
    BY <1>2, <2>1 DEF Instances
  <2>4. ASSUME NEW r \in q.reads PROVE r = q.outer
    <3>1. Known(r) /\ r >= instance
      BY <2>1, <2>2
    <3> QED BY <2>1, <2>3, <3>1 DEF Known
  <2> QED BY <2>1, <2>4
<1>3. /\ \A d \in Callers : d # c => my'[d] = my[d]
      /\ my'[c].kind = q.kind
      /\ my'[c].step = IF instance = q.outer THEN "answered" ELSE "failed"
      /\ my'[c].token = q.token
      /\ my'[c].outer = q.outer
      /\ my'[c].addressed = q.addressed
      /\ my'[c].reads = q.reads
      /\ my'[c].since = q.since
  BY <1>2, <1>0, <1>g DEF OuterCheck, Step, Kinds, Query
<1>4. my' \in [Callers -> Query]
  BY <1>2, <1>3, <1>0, <1>g DEF OuterCheck, Step, Kinds, Query, QuerySteps, LoadSteps, Instances
<1>5. UNCHANGED cacheVars
  BY DEF OuterCheck, Step, Kinds
<1>6. QueryInv(c)'
  <2> USE <1>1, <1>2, <1>3, <1>0, <1>g, DiscoveryAssumption DEF QueryInv, Floor, HasFloor, Alive,
     LoadSteps, ReadSteps, Mono, Known
  <2>1. CASE instance # q.outer
    BY <2>1 DEF Query, Outside
  <2>2. CASE instance = q.outer
    BY <2>2 DEF Query, Outside
  <2> QED BY <2>1, <2>2
<1>7. PlaceInv(c)' /\ GetInv(c)'
  <2> USE <1>1, <1>2, <1>3, <1>0, <1>g, <1>5, DiscoveryAssumption DEF GetInv, LoadSteps,
     ReadSteps, cacheVars
  <2>0. \A v, f : Good(v, f) => Good(v, f)'
    BY GoodStays
  <2>p. PlaceInv(c)'
    BY DEF PlaceInv, QueryInv, Query, Outside
  <2>1. ASSUME instance # q.outer PROVE GetInv(c)'
    BY <2>0, <2>1 DEF QueryInv, PlaceInv, Query, Outside
  <2>2. ASSUME instance = q.outer PROVE GetInv(c)'
    BY <2>0, <2>2 DEF QueryInv, PlaceInv, Query, Outside
  <2> QED BY <2>p, <2>1, <2>2
<1> QED BY <1>1, <1>3, <1>4, <1>5, <1>6, <1>7, OneQuery

-----------------------------------------------------------------------------
(* Steps in the cache. *)

\* The order of the values is of no matter for what they are.
LEMMA RankedValues ==
    ASSUME NEW S, \A w \in S : DOMAIN w = {"key", "value", "rank"}, NEW v \in Ranked(S)
    PROVE  /\ DOMAIN v = {"key", "value", "rank"}
           /\ \E w \in S : v.key = w.key /\ v.value = w.value
<1>1. PICK w \in S : v = [w EXCEPT !.rank = Cardinality({x \in S : x.rank <= w.rank})]
  BY DEF Ranked
<1>2. DOMAIN v = DOMAIN w
  BY <1>1
<1>3. v.key = w.key /\ v.value = w.value
  BY <1>1
<1> QED BY <1>2, <1>3

\* One caller moves in the cache; if others wait for him, he still works for them.
LEMMA OneGetter ==
    ASSUME DInv, BridgeInv', Mono, NEW c \in Callers, UNCHANGED generation,
           my' \in [Callers -> Query], \A d \in Callers : d # c => my'[d] = my[d],
           DOMAIN get' = Callers, \A d \in Callers : d # c => get'[d] = get[d],
           DOMAIN get'[c] = DOMAIN Outside, get'[c].generation \in Nat,
           get'[c].at \in {"out", "load", "store", "set", "wait", "left"},
           get[c].at \in {"load", "store"} =>
             /\ get'[c].at \in {"load", "store"}
             /\ get'[c].key = get[c].key /\ get'[c].generation = get[c].generation,
           \A v \in values' : DOMAIN v = {"key", "value", "rank"},
           StoreInv', QueryInv(c)', PlaceInv(c)', GetInv(c)'
    PROVE  DInv'
<1>1. GetTypeOK'
  <2>1. \A d \in Callers :
          /\ DOMAIN get'[d] = DOMAIN Outside
          /\ get'[d].at \in {"out", "load", "store", "set", "wait", "left"}
          /\ get'[d].generation \in Nat
    BY DEF DInv, GetTypeOK
  <2> QED BY <2>1 DEF DInv, GetTypeOK
<1>2. ASSUME NEW d \in Callers, d # c PROVE QueryInv(d)' /\ PlaceInv(d)' /\ GetInv(d)'
  <2>1. QueryInv(d)'
    BY <1>2, QueryStays DEF DInv
  <2>2. PlaceInv(d)'
    BY <1>2 DEF DInv, PlaceInv
  <2>3. GetInv(d)'
    <3>1. GetInv(d) /\ my'[d] = my[d] /\ get'[d] = get[d]
      BY <1>2 DEF DInv
    <3>2. get[d].at = "wait" =>
            LET l == get[d].leader IN
            /\ l \in Callers /\ get'[l].at \in {"load", "store"}
            /\ get'[l].key = get[d].key /\ get'[l].generation = get[d].generation
      BY <3>1 DEF GetInv
    <3>3. get[d].at \in {"store", "set", "left"} /\ get[d].result # <<>> =>
            Good(get[d].result[1], get[d].key[1])'
      BY <3>1, GoodStays DEF GetInv
    <3> QED BY <3>1, <3>2, <3>3 DEF GetInv
  <2> QED BY <2>1, <2>2, <2>3
<1> QED BY <1>1, <1>2 DEF DInv

\* The flights that others lead.
LEMMA FlightsStay ==
    ASSUME DInv, NEW c \in Callers, \A d \in Callers : d # c => get'[d] = get[d],
           NEW f \in pending, f.leader # c
    PROVE  /\ f.leader \in Callers /\ get'[f.leader].at \in {"load", "store", "set"}
           /\ get'[f.leader].key = f.key /\ get'[f.leader].generation = f.generation
BY DEF DInv, StoreInv

\* Values that were there before are still good.
LEMMA ValuesStay ==
    ASSUME DInv, Mono, UNCHANGED generation, NEW S, S \subseteq values
    PROVE  \A v \in Ranked(S) : /\ DOMAIN v = {"key", "value", "rank"}
                                /\ Good(v.value, v.key[1])' /\ v.value.since >= generation'
<1> TAKE v \in Ranked(S)
<1>1. \A w \in S : DOMAIN w = {"key", "value", "rank"} /\ Good(w.value, w.key[1])
                   /\ w.value.since >= generation
  BY DEF DInv, GetTypeOK, StoreInv
<1>2. PICK w \in S : v.key = w.key /\ v.value = w.value
  BY <1>1, RankedValues
<1>3. DOMAIN v = {"key", "value", "rank"}
  BY <1>1, RankedValues
<1> QED BY <1>1, <1>2, <1>3, GoodStays

LEMMA LookUpInv == ASSUME DInv, NEW c \in Callers, LookUp(c) PROVE DInv'
<1> DEFINE q == my[c]
<1>1. BridgeInv' /\ Mono
  BY BridgeUnchanged DEF DInv, LookUp
<1>2. /\ q \in Query /\ QueryInv(c) /\ PlaceInv(c) /\ GetInv(c) /\ my \in [Callers -> Query]
      /\ generation \in Nat
  BY DEF DInv, GetTypeOK
<1>3. /\ q.step = "get" /\ q.kind = "chain" /\ q.addressed = Nothing /\ get[c] = Outside
      /\ q.token # Nothing /\ Known(q.token)
  BY <1>2 DEF LookUp, QueryInv, ReadSteps, PlaceInv, Alive, HasFloor, Floor
<1>4. PICK u \in Underlyings : Get(c, <<q.token, u>>)
  BY DEF LookUp
<1> DEFINE k == <<q.token, u>>
<1>5. PICK kept \in SUBSET values :
         IF \E v \in kept : v.key = k THEN Hit(c, k, kept)
         ELSE /\ values' = Ranked(kept)
              /\ IF FlightOf(k) # {} THEN \E f \in FlightOf(k) : Follow(c, k, f) ELSE Lead(c, k)
  BY <1>4 DEF Get
<1>6. UNCHANGED generation
  BY <1>4 DEF Get
<1>7. /\ my'[c].step = IF get'[c].at = "load" THEN "codes" ELSE "wait"
      /\ my'[c].kind = q.kind /\ my'[c].token = q.token /\ my'[c].outer = q.outer
      /\ my'[c].addressed = q.addressed /\ my'[c].reads = q.reads /\ my'[c].since = q.since
      /\ \A d \in Callers : d # c => my'[d] = my[d]
  BY <1>2 DEF LookUp, Query
<1>8. my' \in [Callers -> Query]
  BY <1>2 DEF LookUp, Query, QuerySteps, LoadSteps
<1>9. QueryInv(c)'
  BY <1>1, <1>2, <1>3, <1>7 DEF QueryInv, Floor, HasFloor, Alive, ReadSteps, Mono
<1>10. DOMAIN get = Callers /\ \A d \in Callers : DOMAIN get[d] = DOMAIN Outside
  BY DEF DInv, GetTypeOK
<1>11. ASSUME DOMAIN get' = Callers, \A d \in Callers : d # c => get'[d] = get[d],
              DOMAIN get'[c] = DOMAIN Outside,
              get'[c].key = k, get'[c].generation = generation,
              get'[c].at \in {"load", "wait", "left"}, GetInv(c)',
              \A v \in values' : /\ DOMAIN v = {"key", "value", "rank"}
                                 /\ Good(v.value, v.key[1])' /\ v.value.since >= generation',
              \A f \in pending' : f \in pending \/
                /\ get'[c].at = "load"
                /\ f.leader = c /\ f.key = k /\ f.generation = generation
       PROVE  DInv'
  <2>1. PlaceInv(c)'
    BY <1>3, <1>7, <1>11 DEF PlaceInv, LoadSteps
  <2>2. \A f \in pending : f.leader # c
    BY <1>3 DEF DInv, StoreInv, Outside
  <2>3. StoreInv'
    BY <1>11, <2>2, FlightsStay DEF StoreInv
  <2> QED BY <1>1, <1>2, <1>3, <1>6, <1>7, <1>8, <1>9, <1>11, <2>1, <2>3, OneGetter DEF Outside
<1>12. CASE \E v \in kept : v.key = k
  <2>1. PICK v \in kept :
          /\ v.key = k
          /\ values' = Ranked((kept \ {v}) \cup {[v EXCEPT !.rank = Last]})
          /\ get' = [get EXCEPT ![c] = [Outside EXCEPT !.at = "left", !.key = k,
                                            !.generation = generation, !.result = <<v.value>>]]
          /\ UNCHANGED pending
    BY <1>5, <1>12 DEF Hit
  <2>2. /\ get'[c].at = "left" /\ get'[c].key = k /\ get'[c].generation = generation
        /\ get'[c].result = <<v.value>> /\ DOMAIN get'[c] = DOMAIN Outside
        /\ DOMAIN get' = Callers /\ \A d \in Callers : d # c => get'[d] = get[d]
    BY <1>10, <2>1 DEF Outside
  <2>3. Good(v.value, v.key[1]) /\ v.value.since >= generation /\ DOMAIN v = {"key", "value",
     "rank"}
    BY DEF DInv, StoreInv, GetTypeOK
  <2>4. GetInv(c)'
    <3>1. Good(get[c].result[1], get[c].key[1])' /\ get'[c].result[1].since >= generation
      BY <1>1, <2>1, <2>2, <2>3, GoodStays
    <3>2. get'[c].key[1] = my'[c].token /\ my'[c].step = "wait"
      BY <1>7, <2>2
    <3> QED BY <1>2, <1>6, <2>2, <3>1, <3>2 DEF GetInv
  <2> DEFINE w == [v EXCEPT !.rank = Last]
             S == (kept \ {v}) \cup {w}
  <2>5. w.key = v.key /\ w.value = v.value /\ DOMAIN w = {"key", "value", "rank"}
    BY <2>3
  <2>6. \A x \in S : /\ DOMAIN x = {"key", "value", "rank"}
                     /\ Good(x.value, x.key[1]) /\ x.value.since >= generation
    BY <2>3, <2>5 DEF DInv, StoreInv, GetTypeOK
  <2>7. ASSUME NEW y \in values'
        PROVE  /\ DOMAIN y = {"key", "value", "rank"}
               /\ Good(y.value, y.key[1])' /\ y.value.since >= generation'
    <3>1. y \in Ranked(S)
      BY <2>1
    <3>2. PICK x \in S : y.key = x.key /\ y.value = x.value
      BY <2>6, <3>1, RankedValues
    <3>3. DOMAIN y = {"key", "value", "rank"}
      BY <2>6, <3>1, RankedValues
    <3> QED BY <1>1, <1>6, <2>6, <3>2, <3>3, GoodStays
  <2> QED BY <1>11, <2>1, <2>2, <2>4, <2>7
<1>13. CASE ~(\E v \in kept : v.key = k) /\ FlightOf(k) # {}
  <2>1. PICK f \in FlightOf(k) : Follow(c, k, f)
    BY <1>5, <1>13
  <2> DEFINE l == f.leader
  <2>2. /\ f \in pending /\ f.key = k /\ f.generation = generation
        /\ l \in Callers /\ get[l].at \in {"load", "store", "set"}
        /\ get[l].key = k /\ get[l].generation = generation /\ l # c /\ GetInv(l)
    BY <1>3, <2>1 DEF FlightOf, DInv, StoreInv, Outside
  <2>3. /\ get'[c].at = IF get[l].at = "set" THEN "left" ELSE "wait"
        /\ get'[c].key = k /\ get'[c].generation = generation
        /\ get'[c].leader = l /\ get'[c].result = get[l].result
        /\ DOMAIN get'[c] = DOMAIN Outside
        /\ DOMAIN get' = Callers /\ \A d \in Callers : d # c => get'[d] = get[d]
    BY <1>10, <2>1 DEF Follow, Outside
  <2>4. GetInv(c)'
    <3>1. get'[c].key[1] = my'[c].token /\ my'[c].step = "wait"
      BY <1>7, <2>3
    <3>2. get'[c].at = "left" /\ get'[c].result # <<>> =>
             Good(get[c].result[1], get[c].key[1])' /\ get'[c].result[1].since >= generation
      BY <1>1, <2>2, <2>3, GoodStays DEF GetInv
    <3>3. get'[l] = get[l]
      BY <2>2, <2>3
    <3> QED BY <1>2, <1>6, <2>2, <2>3, <3>1, <3>2, <3>3 DEF GetInv
  <2>5. values' = Ranked(kept) /\ UNCHANGED pending
    BY <1>5, <1>13, <2>1 DEF Follow
  <2>6. \A v \in values' : /\ DOMAIN v = {"key", "value", "rank"}
                           /\ Good(v.value, v.key[1])' /\ v.value.since >= generation'
    BY <1>1, <1>6, <2>5, ValuesStay
  <2> QED BY <1>11, <2>3, <2>4, <2>5, <2>6
<1>14. CASE ~(\E v \in kept : v.key = k) /\ FlightOf(k) = {}
  <2>1. values' = Ranked(kept) /\ Lead(c, k)
    BY <1>5, <1>14
  <2>2. /\ get'[c].at = "load" /\ get'[c].key = k /\ get'[c].generation = generation
        /\ DOMAIN get'[c] = DOMAIN Outside
        /\ DOMAIN get' = Callers /\ \A d \in Callers : d # c => get'[d] = get[d]
    BY <1>10, <2>1 DEF Lead, Outside
  <2>3. GetInv(c)'
    <3>1. get'[c].key[1] = my'[c].token /\ my'[c].step = "codes" /\ my'[c].addressed = Nothing
      BY <1>3, <1>7, <2>2
    <3> QED BY <1>2, <1>6, <2>2, <3>1 DEF GetInv
  <2>4. \A v \in values' : /\ DOMAIN v = {"key", "value", "rank"}
                           /\ Good(v.value, v.key[1])' /\ v.value.since >= generation'
    BY <1>1, <1>6, <2>1, ValuesStay
  <2>5. \A f \in pending' : f \in pending \/ (f.leader = c /\ f.key = k /\ f.generation = generation)
    <3>1. pending' \subseteq pending \cup {[generation |-> generation, key |-> k, leader |-> c]}
      BY <2>1 DEF Lead
    <3> TAKE f \in pending'
    <3>2. CASE f = [generation |-> generation, key |-> k, leader |-> c]
      BY <3>2
    <3> QED BY <3>1, <3>2
  <2> QED BY <1>11, <2>2, <2>3, <2>4, <2>5
<1> QED BY <1>12, <1>13, <1>14

\* A value is loaded: it is good, and as old as the flight at most.
LEMMA LoadedInv ==
    ASSUME DInv, NEW c \in Callers, my[c].step = "loaded",
           Loaded(c, [reads |-> my[c].reads, since |-> my[c].since]), Step(c, "flying"),
           UNCHANGED <<bridge, health>>
    PROVE  DInv'
<1> DEFINE q == my[c]
           value == [reads |-> q.reads, since |-> q.since]
<1>1. BridgeInv' /\ Mono
  BY BridgeUnchanged DEF DInv
<1>2. /\ q \in Query /\ QueryInv(c) /\ PlaceInv(c) /\ GetInv(c) /\ my \in [Callers -> Query]
      /\ generation \in Nat /\ DOMAIN get = Callers
      /\ DOMAIN get[c] = DOMAIN Outside /\ get[c].generation \in Nat
  BY DEF DInv, GetTypeOK
<1>3. /\ get[c].at = "load" /\ q.kind = "chain" /\ q.addressed = Nothing
      /\ q.reads # {} /\ q.since \in Nat /\ q.since >= get[c].generation
      /\ get[c].key[1] = q.token /\ get[c].generation <= generation
      /\ q.token # Nothing /\ Known(q.token) /\ Floor(c) = q.token /\ Alive(c)
  BY <1>2 DEF Loaded, QueryInv, GetInv, ReadSteps, Alive, HasFloor, Floor, Query
<1>4. Good(value, q.token)
  <2>1. \A r \in q.reads : Known(r) /\ r >= q.token
    BY <1>2, <1>3 DEF QueryInv
  <2>2. q.token \in Nat
    BY <1>3 DEF Known
  <2> QED BY <1>3, <2>1, <2>2 DEF Good
<1>5. /\ my'[c].step = "flying" /\ my'[c].kind = q.kind /\ my'[c].token = q.token
      /\ my'[c].outer = q.outer /\ my'[c].addressed = q.addressed
      /\ my'[c].reads = q.reads /\ my'[c].since = q.since
      /\ \A d \in Callers : d # c => my'[d] = my[d]
  BY <1>2 DEF Step, Query
<1>6. my' \in [Callers -> Query]
  BY <1>2 DEF Step, Query, QuerySteps
<1>7. QueryInv(c)'
  BY <1>1, <1>2, <1>3, <1>5 DEF QueryInv, Floor, HasFloor, Alive, ReadSteps, Mono
<1>8. /\ get'[c].at = "store" /\ get'[c].result = <<value>> /\ get'[c].key = get[c].key
      /\ get'[c].generation = get[c].generation
      /\ DOMAIN get'[c] = DOMAIN Outside /\ DOMAIN get' = Callers
      /\ \A d \in Callers : d # c => get'[d] = get[d]
      /\ UNCHANGED <<pending, generation>>
  BY <1>2 DEF Loaded, Outside
<1>9. PlaceInv(c)'
  BY <1>3, <1>5, <1>8 DEF PlaceInv, LoadSteps
<1>10. GetInv(c)'
  <2>1. Good(get[c].result[1], get[c].key[1])'
    BY <1>1, <1>3, <1>4, <1>8, GoodStays
  <2> QED BY <1>3, <1>5, <1>8, <2>1 DEF GetInv
<1>11. \A v \in values' : /\ DOMAIN v = {"key", "value", "rank"}
                          /\ Good(v.value, v.key[1])' /\ v.value.since >= generation'
  <2>1. CASE ~MayStore(c)
    <3>1. values' = values
      BY <2>1 DEF Loaded
    <3> QED BY <1>1, <1>8, <3>1, GoodStays DEF DInv, StoreInv, GetTypeOK
  <2>2. CASE MayStore(c)
    <3> DEFINE new == [key |-> get[c].key, value |-> value, rank |-> Last]
               all == {v \in values : v.key # get[c].key} \cup {new}
               kept == {v \in all : v.rank > 1 \/ Cardinality(all) <= Capacity}
    <3>1. values' = Ranked(kept)
      BY <2>2 DEF Loaded
    <3>2. get[c].generation = generation
      BY <2>2 DEF MayStore
    <3>3. Good(new.value, new.key[1]) /\ new.value.since >= generation
      BY <1>3, <1>4, <3>2
    <3>4. ASSUME NEW x \in kept
          PROVE  /\ DOMAIN x = {"key", "value", "rank"}
                 /\ Good(x.value, x.key[1]) /\ x.value.since >= generation
      <4>1. CASE x = new
        BY <3>3, <4>1
      <4>2. CASE x \in values
        BY <4>2 DEF DInv, StoreInv, GetTypeOK
      <4> QED BY <4>1, <4>2
    <3> HIDE DEF kept
    <3>5. ASSUME NEW y \in values'
          PROVE  /\ DOMAIN y = {"key", "value", "rank"}
                 /\ Good(y.value, y.key[1])' /\ y.value.since >= generation'
      <4>1. PICK x \in kept : y.key = x.key /\ y.value = x.value
        BY <3>1, <3>4, RankedValues
      <4>2. DOMAIN y = {"key", "value", "rank"}
        BY <3>1, <3>4, RankedValues
      <4> QED BY <1>1, <1>8, <3>4, <4>1, <4>2, GoodStays
    <3> QED BY <3>5
  <2> QED BY <2>1, <2>2
<1>12. \A f \in pending' :
         /\ f.leader \in Callers /\ get'[f.leader].at \in {"load", "store", "set"}
         /\ get'[f.leader].key = f.key /\ get'[f.leader].generation = f.generation
  BY <1>8 DEF DInv, StoreInv
<1>13. StoreInv'
  BY <1>11, <1>12 DEF StoreInv
<1> QED BY <1>1, <1>2, <1>3, <1>5, <1>6, <1>7, <1>8, <1>9, <1>10, <1>11, <1>13, OneGetter

\* A flight ends for all that wait for it.
LEMMA SettleInv ==
    ASSUME DInv, NEW c \in Callers, NEW result, Settle(c, result),
           get[c].at \in {"load", "store"}, my[c].kind = "chain",
           result = get[c].result \/ result = <<>>,
           get[c].at = "load" => result = <<>> /\ my[c].step = "loadFailed",
           my'[c].step = "flying", my' = [my EXCEPT ![c].step = "flying"],
           UNCHANGED <<values, pending, generation, bridge, health>>
    PROVE  DInv'
<1> DEFINE q == my[c]
<1>1. BridgeInv' /\ Mono
  BY BridgeUnchanged DEF DInv
<1>2. /\ q \in Query /\ QueryInv(c) /\ PlaceInv(c) /\ GetInv(c) /\ my \in [Callers -> Query]
      /\ generation \in Nat /\ DOMAIN get = Callers
      /\ DOMAIN get[c] = DOMAIN Outside /\ get[c].generation \in Nat
      /\ \A d \in Callers : DOMAIN get[d] = DOMAIN Outside
  BY DEF DInv, GetTypeOK
<1>3. q.step \in {"loadFailed", "flying"} /\ q.addressed = Nothing
  BY <1>2 DEF PlaceInv, QueryInv, ReadSteps
<1>4. /\ my'[c].step = "flying" /\ my'[c].kind = q.kind /\ my'[c].token = q.token
      /\ my'[c].outer = q.outer /\ my'[c].addressed = q.addressed
      /\ my'[c].reads = q.reads /\ my'[c].since = q.since
      /\ \A d \in Callers : d # c => my'[d] = my[d]
  BY <1>2 DEF Query
<1>5. my' \in [Callers -> Query]
  BY <1>2 DEF Query, QuerySteps
<1>6. /\ DOMAIN get' = Callers
      /\ get'[c] = [get[c] EXCEPT !.at = "set", !.result = result]
      /\ \A d \in Callers : d # c => get'[d] =
           IF get[d].at = "wait" /\ get[d].leader = c
           THEN [get[d] EXCEPT !.at = "left", !.result = result] ELSE get[d]
  BY DEF Settle
<1>7. /\ get'[c].at = "set" /\ get'[c].result = result /\ get'[c].key = get[c].key
      /\ get'[c].generation = get[c].generation /\ DOMAIN get'[c] = DOMAIN Outside
  BY <1>2, <1>6 DEF Outside
<1>8. result # <<>> =>
        Good(result[1], get[c].key[1])' /\ result[1].since >= get[c].generation
  <2>1. result # <<>> => Good(result[1], get[c].key[1]) /\ result[1].since >= get[c].generation
    BY <1>2 DEF GetInv
  <2> QED BY <1>1, <1>7, <2>1, GoodStays
<1>9. QueryInv(c)' /\ PlaceInv(c)' /\ GetInv(c)'
  <2>1. QueryInv(c)'
    BY <1>1, <1>2, <1>3, <1>4 DEF QueryInv, Floor, HasFloor, Alive, ReadSteps, Mono
  <2>2. PlaceInv(c)'
    BY <1>4, <1>7 DEF PlaceInv, LoadSteps
  <2>3. get'[c].result # <<>> =>
          Good(get[c].result[1], get[c].key[1])' /\ get'[c].result[1].since >= get'[c].generation
    BY <1>7, <1>8
  <2> QED BY <1>2, <1>4, <1>7, <2>1, <2>2, <2>3 DEF GetInv
<1>10. ASSUME NEW d \in Callers, d # c, get[d].at = "wait", get[d].leader = c
       PROVE  QueryInv(d)' /\ PlaceInv(d)' /\ GetInv(d)'
  <2>1. /\ get'[d].at = "left" /\ get'[d].result = result /\ get'[d].key = get[d].key
        /\ get'[d].generation = get[d].generation
    BY <1>2, <1>6, <1>10 DEF Outside
  <2>2. my'[d] = my[d] /\ QueryInv(d) /\ PlaceInv(d) /\ GetInv(d)
    BY <1>4, <1>10 DEF DInv
  <2>3. get[d].key = get[c].key /\ get[d].generation = get[c].generation
    BY <1>10, <2>2 DEF GetInv
  <2>4. my[d].kind = "chain" /\ my[d].step = "wait"
    BY <1>10, <2>2 DEF PlaceInv, QueryInv, Outside, LoadSteps, DInv, GetTypeOK, Query, QuerySteps
  <2>5. QueryInv(d)'
    BY <1>1, <2>2, QueryStays
  <2>6. PlaceInv(d)'
    BY <2>1, <2>2, <2>4 DEF PlaceInv, LoadSteps
  <2>7. get'[d].result # <<>> =>
          Good(get[d].result[1], get[d].key[1])' /\ get'[d].result[1].since >= get'[d].generation
    BY <1>7, <1>8, <2>1, <2>3
  <2>8. get'[d].key[1] = my'[d].token /\ get'[d].generation <= generation'
    BY <1>10, <2>1, <2>2 DEF GetInv
  <2> QED BY <2>1, <2>2, <2>4, <2>5, <2>6, <2>7, <2>8 DEF GetInv
<1>11. ASSUME NEW d \in Callers, d # c, ~(get[d].at = "wait" /\ get[d].leader = c)
       PROVE  QueryInv(d)' /\ PlaceInv(d)' /\ GetInv(d)'
  <2>1. my'[d] = my[d] /\ get'[d] = get[d] /\ QueryInv(d) /\ PlaceInv(d) /\ GetInv(d)
    BY <1>4, <1>6, <1>11 DEF DInv
  <2>2. QueryInv(d)'
    BY <1>1, <2>1, QueryStays
  <2>3. PlaceInv(d)'
    BY <2>1 DEF PlaceInv
  <2>4. get[d].at = "wait" =>
          LET l == get[d].leader IN
          /\ l \in Callers /\ get'[l].at \in {"load", "store"}
          /\ get'[l].key = get[d].key /\ get'[l].generation = get[d].generation
    <3> SUFFICES ASSUME get[d].at = "wait"
                 PROVE  LET l == get[d].leader IN
                        /\ l \in Callers /\ get'[l].at \in {"load", "store"}
                        /\ get'[l].key = get[d].key /\ get'[l].generation = get[d].generation
      OBVIOUS
    <3> DEFINE l == get[d].leader
    <3>1. /\ l \in Callers /\ get[l].at \in {"load", "store"} /\ l # c
          /\ get[l].key = get[d].key /\ get[l].generation = get[d].generation
      BY <1>11, <2>1 DEF GetInv
    <3>2. get'[l] = get[l]
      BY <1>6, <3>1
    <3> QED BY <3>1, <3>2
  <2>5. get[d].at \in {"store", "set", "left"} /\ get[d].result # <<>> =>
          Good(get[d].result[1], get[d].key[1])'
    BY <1>1, <2>1, GoodStays DEF GetInv
  <2> QED BY <2>1, <2>2, <2>3, <2>4, <2>5 DEF GetInv
<1>12. GetTypeOK'
  <2>1. ASSUME NEW d \in Callers
        PROVE  /\ DOMAIN get'[d] = DOMAIN Outside
               /\ get'[d].at \in {"out", "load", "store", "set", "wait", "left"}
               /\ get'[d].generation \in Nat
    <3>1. /\ DOMAIN get[d] = DOMAIN Outside /\ get[d].generation \in Nat
          /\ get[d].at \in {"out", "load", "store", "set", "wait", "left"}
      BY DEF DInv, GetTypeOK
    <3> QED BY <1>6, <1>7, <3>1 DEF Outside
  <2> QED BY <1>5, <1>6, <2>1 DEF DInv, GetTypeOK
<1>13. StoreInv'
  <2>1. \A v \in values' : Good(v.value, v.key[1])' /\ v.value.since >= generation'
    BY <1>1, GoodStays DEF DInv, StoreInv
  <2>2. ASSUME NEW f \in pending
        PROVE  /\ f.leader \in Callers /\ get'[f.leader].at \in {"load", "store", "set"}
               /\ get'[f.leader].key = f.key /\ get'[f.leader].generation = f.generation
    <3>1. /\ f.leader \in Callers /\ get[f.leader].at \in {"load", "store", "set"}
          /\ get[f.leader].key = f.key /\ get[f.leader].generation = f.generation
      BY DEF DInv, StoreInv
    <3>2. CASE f.leader = c
      BY <1>7, <3>1, <3>2
    <3>3. CASE f.leader # c
      BY <1>6, <3>1, <3>3
    <3> QED BY <3>2, <3>3
  <2> QED BY <2>1, <2>2 DEF StoreInv
<1> QED BY <1>1, <1>9, <1>10, <1>11, <1>12, <1>13 DEF DInv

\* A leader is done, or a query has returned.
LEMMA LeaderLeaves ==
    ASSUME DInv, NEW c \in Callers, my[c].step = "flying", Untrack(c), Step(c, "wait"),
           UNCHANGED <<bridge, health>>
    PROVE  DInv'
<1> DEFINE q == my[c]
<1>1. BridgeInv' /\ Mono
  BY BridgeUnchanged DEF DInv
<1>2. /\ q \in Query /\ QueryInv(c) /\ PlaceInv(c) /\ GetInv(c) /\ my \in [Callers -> Query]
      /\ generation \in Nat /\ DOMAIN get = Callers
      /\ DOMAIN get[c] = DOMAIN Outside /\ get[c].generation \in Nat
  BY DEF DInv, GetTypeOK
<1>3. q.kind = "chain" /\ q.addressed = Nothing /\ get[c].at = "set"
  BY <1>2 DEF QueryInv, ReadSteps, Untrack
<1>4. /\ my'[c].step = "wait" /\ my'[c].kind = q.kind /\ my'[c].token = q.token
      /\ my'[c].outer = q.outer /\ my'[c].addressed = q.addressed
      /\ my'[c].reads = q.reads /\ my'[c].since = q.since
      /\ \A d \in Callers : d # c => my'[d] = my[d]
  BY <1>2 DEF Step, Query
<1>5. my' \in [Callers -> Query]
  BY <1>2 DEF Step, Query, QuerySteps
<1>6. /\ get'[c].at = "left" /\ get'[c].result = get[c].result /\ get'[c].key = get[c].key
      /\ get'[c].generation = get[c].generation /\ DOMAIN get'[c] = DOMAIN Outside
      /\ DOMAIN get' = Callers /\ \A d \in Callers : d # c => get'[d] = get[d]
      /\ pending' = {f \in pending : f.leader # c} /\ UNCHANGED <<values, generation>>
  BY <1>2 DEF Untrack, Leaves, Outside
<1>7. QueryInv(c)'
  BY <1>1, <1>2, <1>3, <1>4 DEF QueryInv, Floor, HasFloor, Alive, ReadSteps, Mono
<1>8. PlaceInv(c)'
  BY <1>3, <1>4, <1>6 DEF PlaceInv, LoadSteps
<1>9. GetInv(c)'
  <2>1. get[c].result # <<>> =>
          Good(get[c].result[1], get[c].key[1])' /\ get[c].result[1].since >= get[c].generation
    BY <1>1, <1>2, <1>3, <1>6, GoodStays DEF GetInv
  <2>2. get'[c].key[1] = my'[c].token /\ get'[c].generation <= generation'
    BY <1>2, <1>3, <1>4, <1>6 DEF GetInv
  <2> QED BY <1>4, <1>6, <2>1, <2>2 DEF GetInv
<1>10. \A v \in values' : /\ DOMAIN v = {"key", "value", "rank"}
                          /\ Good(v.value, v.key[1])' /\ v.value.since >= generation'
  BY <1>1, <1>6, GoodStays DEF DInv, StoreInv, GetTypeOK
<1>11. StoreInv'
  BY <1>6, <1>10, FlightsStay DEF StoreInv
<1> QED BY <1>1, <1>2, <1>3, <1>4, <1>5, <1>6, <1>7, <1>8, <1>9, <1>10, <1>11, OneGetter

LEMMA FlyInv == ASSUME DInv, NEW c \in Callers, Fly(c) PROVE DInv'
<1>1. my[c] \in Query /\ QueryInv(c) /\ my \in [Callers -> Query]
  BY DEF DInv, GetTypeOK
<1>2. CASE /\ my[c].step = "loaded" /\ Step(c, "flying")
           /\ Loaded(c, [reads |-> my[c].reads, since |-> my[c].since])
  BY <1>2, LoadedInv DEF Fly
<1>3. CASE my[c].step = "loadFailed" /\ LoadFails(c) /\ Step(c, "flying")
  <2>1. my[c].kind = "chain" /\ my'[c].step = "flying"
    BY <1>1, <1>3 DEF QueryInv, Step, Query
  <2> QED BY <1>3, <2>1, SettleInv DEF Fly, LoadFails, Step
<1>4. CASE my[c].step = "flying" /\ SetResult(c) /\ UNCHANGED my
  <2>1. my[c].kind = "chain" /\ my' = [my EXCEPT ![c].step = "flying"]
    BY <1>1, <1>4 DEF QueryInv, Query
  <2> QED BY <1>4, <2>1, SettleInv DEF Fly, SetResult
<1>5. CASE my[c].step = "flying" /\ Untrack(c) /\ Step(c, "wait")
  BY <1>5, LeaderLeaves DEF Fly
<1> QED BY <1>2, <1>3, <1>4, <1>5 DEF Fly

LEMMA ReturnInv == ASSUME DInv, NEW c \in Callers, Return(c) PROVE DInv'
<1>1. BridgeInv' /\ Mono
  BY BridgeUnchanged DEF DInv, Return
<1>2. /\ my[c] \in Query /\ QueryInv(c) /\ PlaceInv(c) /\ my \in [Callers -> Query]
      /\ DOMAIN get = Callers
  BY DEF DInv, GetTypeOK
<1>3. get[c].at \in {"out", "left"}
  BY <1>2 DEF Return, PlaceInv, QueryInv, Kinds, Outside
<1>4. /\ my'[c] = NoQuery /\ \A d \in Callers : d # c => my'[d] = my[d]
      /\ get'[c] = Outside /\ DOMAIN get' = Callers
      /\ \A d \in Callers : d # c => get'[d] = get[d]
      /\ UNCHANGED <<values, pending, generation>>
  BY <1>2 DEF Return
<1>5. my' \in [Callers -> Query]
  BY <1>2 DEF Return, NoQuery, Query, QuerySteps, Instances
<1>6. QueryInv(c)' /\ PlaceInv(c)' /\ GetInv(c)'
  BY <1>4 DEF QueryInv, PlaceInv, GetInv, NoQuery, Outside, Alive, HasFloor, Floor, LoadSteps
<1>7. \A v \in values' : /\ DOMAIN v = {"key", "value", "rank"}
                         /\ Good(v.value, v.key[1])' /\ v.value.since >= generation'
  BY <1>1, <1>4, GoodStays DEF DInv, StoreInv, GetTypeOK
<1>8. \A f \in pending : f.leader # c
  BY <1>3 DEF DInv, StoreInv
<1>9. StoreInv'
  BY <1>4, <1>7, <1>8, FlightsStay DEF StoreInv
<1>10. /\ DOMAIN get'[c] = DOMAIN Outside /\ get'[c].generation \in Nat
       /\ get'[c].at \in {"out", "load", "store", "set", "wait", "left"}
  BY <1>4 DEF Outside
<1> QED BY <1>1, <1>3, <1>4, <1>5, <1>6, <1>7, <1>9, <1>10, OneGetter

LEMMA ClearCacheInv == ASSUME DInv, ClearCache PROVE DInv'
<1>1. BridgeInv' /\ Mono
  BY BridgeUnchanged DEF DInv, ClearCache
<1>2. /\ generation \in Nat /\ generation' = generation + 1 /\ values' = {}
      /\ UNCHANGED <<pending, get, my>>
  BY DEF ClearCache, Clear, DInv, GetTypeOK
<1>3. GetTypeOK'
  BY <1>2 DEF DInv, GetTypeOK
<1>4. StoreInv'
  BY <1>2 DEF DInv, StoreInv
<1>5. ASSUME NEW d \in Callers PROVE QueryInv(d)' /\ PlaceInv(d)' /\ GetInv(d)'
  <2>1. QueryInv(d)'
    BY <1>1, <1>2, QueryStays DEF DInv
  <2>2. PlaceInv(d)'
    BY <1>2 DEF DInv, PlaceInv
  <2>3. GetInv(d) /\ get[d].generation \in Nat
    BY DEF DInv, GetTypeOK
  <2>4. GetInv(d)'
    BY <1>1, <1>2, <2>3, GoodStays DEF GetInv
  <2> QED BY <2>1, <2>2, <2>4
<1> QED BY <1>1, <1>3, <1>4, <1>5 DEF DInv

LEMMA DiscoveryInvariant == ASSUME DInv, DiscoveryNext PROVE DInv'
<1>1. CASE Restart \/ Ping \/ Adopt \/ PingFails \/ Stop
  <2>1. UNCHANGED <<my, cacheVars>>
    BY <1>1 DEF Restart, Ping, Adopt, PingFails, Stop
  <2> QED BY <1>1, <2>1, BridgeStep, NoQueryMoves DEF DInv
<1>2. ASSUME NEW c \in Callers,
             \/ \E kind \in Kinds : Ask(c, kind)
             \/ TakeToken(c) \/ LookUp(c) \/ Take(c) \/ Send(c) \/ Reply(c) \/ ReadFails(c)
             \/ Fly(c) \/ Check(c) \/ OuterCheck(c) \/ Return(c)
      PROVE  DInv'
  BY <1>2, AskInv, TakeTokenInv, LookUpInv, TakeInv, SendInv, ReplyInv, ReadFailsInv, FlyInv,
     CheckInv, OuterCheckInv, ReturnInv
<1> QED BY <1>1, <1>2, ClearCacheInv DEF DiscoveryNext

\* The batches read through the same transport and leave the queries alone.
LEMMA BatchesKeepQueries == ASSUME DInv, BatchNext PROVE DInv'
<1>1. CASE Restart \/ Ping \/ Adopt \/ PingFails \/ Stop
  BY <1>1, DiscoveryInvariant DEF DiscoveryNext
<1>2. CASE GroupFails \/ \E i \in Items : ItemFails(i)
  <2>1. Fades /\ UNCHANGED <<my, cacheVars>>
    BY <1>2 DEF GroupFails, ItemFails, Fades, Invalidated
  <2> QED BY <2>1, BridgeStep, NoQueryMoves DEF DInv
<1>3. CASE UNCHANGED discoveryVars
  <2>1. UNCHANGED <<bridge, health>> /\ UNCHANGED <<my, cacheVars>>
    BY <1>3 DEF discoveryVars
  <2> QED BY <2>1, BridgeUnchanged, NoQueryMoves DEF DInv
<1> QED
  BY <1>1, <1>2, <1>3 DEF BatchNext, AskBatch, SendGroup, ReplyGroup, Begin, SendItem, Answered,
     Collect, Raise, LeavePool, ReturnBatch

-----------------------------------------------------------------------------
(* Steps of a batch. *)

\* One item goes on.
LEMMA OneItem ==
    ASSUME BInv, NEW i \in Items, UNCHANGED batch, NEW new, item' = [item EXCEPT ![i] = new],
           new \in [at : {"queued", "reading", "found", "failed", "raised", "cancelled"},
                    addressed : Instances, answers : Nat, why : {"none", "bad", "lost"}],
           batch.step \in {"pool", "leaving"},
           new.at \notin {"queued", "cancelled"}, new.at = "reading" => new.answers < Expected,
           new.at = "found" => new.answers = Expected,
           new.at = "failed" => new.why = "bad", new.at = "raised" => new.why = "lost",
           new.addressed # Nothing => new.at = "reading",
           item[i].at \in {"queued", "reading"}
    PROVE  BInv'
<1>1. item'[i] = new /\ \A j \in Items : j # i => item'[j] = item[j]
  BY DEF BInv, BatchTypeOK
<1>2. BatchTypeOK'
  BY DEF BInv, BatchTypeOK
<1>3. ASSUME NEW j \in Items PROVE ItemInv(j)'
  <2>1. CASE j = i
    BY <1>1, <2>1 DEF ItemInv, Expected
  <2>2. CASE j # i
    BY <1>1, <2>2 DEF BInv, ItemInv, Expected
  <2> QED BY <2>1, <2>2
<1>4. CallerInv'
  <2>1. batch.step = "leaving" => \E j \in Items : item'[j].why = "lost" /\ item'[j].at = "raised"
    <3> SUFFICES ASSUME batch.step = "leaving"
                 PROVE  \E j \in Items : item'[j].why = "lost" /\ item'[j].at = "raised"
      OBVIOUS
    <3>1. PICK j \in Items : item[j].why = "lost" /\ item[j].at = "raised"
      BY DEF BInv, CallerInv
    <3>2. item'[j] = item[j]
      BY <1>1, <3>1
    <3> QED BY <3>1, <3>2
  <2> QED BY <2>1 DEF BInv, CallerInv
<1> QED BY <1>2, <1>3, <1>4 DEF BInv

\* The record of an item that fails.
LEMMA ItemFailed ==
    ASSUME BInv, NEW i \in Items, UNCHANGED batch, item[i].at = "reading",
           NEW why \in {"bad", "lost"}, Fails(i, why)
    PROVE  BInv'
<1> DEFINE new == [item[i] EXCEPT !.at = Rethrown(why), !.why = why, !.addressed = Nothing]
<1>1. item[i] \in [at : {"queued", "reading", "found", "failed", "raised", "cancelled"},
                   addressed : Instances, answers : Nat, why : {"none", "bad", "lost"}]
  BY DEF BInv, BatchTypeOK
<1>2. item' = [item EXCEPT ![i] = new]
  BY DEF Fails
<1>3. /\ new.at = Rethrown(why) /\ new.why = why /\ new.addressed = Nothing
      /\ new \in [at : {"queued", "reading", "found", "failed", "raised", "cancelled"},
                  addressed : Instances, answers : Nat, why : {"none", "bad", "lost"}]
  BY <1>1 DEF Rethrown, Instances
<1>4. batch.step \in {"pool", "leaving"}
  BY DEF BInv, BatchTypeOK, ItemInv, Queued
<1> HIDE DEF new
<1> QED BY <1>2, <1>3, <1>4, OneItem DEF Rethrown

LEMMA BatchInvariant == ASSUME BInv, DInv, BatchNext PROVE BInv'
<1> USE DiscoveryAssumption
<1>1. /\ batch \in [operation : Operations \cup {"none"},
                    step : {"idle", "group", "pool", "leaving", "answered", "raised"},
                    addressed : Instances, lost : BOOLEAN]
      /\ instance \in Instances /\ strategy \in Instances
  BY DEF BInv, BatchTypeOK, DInv, BridgeInv
<1>2. ASSUME UNCHANGED item, BatchTypeOK', CallerInv', batch'.operation = batch.operation,
             batch'.step \in {"idle", "group"} =>
               batch.step \in {"idle", "group"},
             batch'.step \in {"answered", "raised"} =>
               Running = {},
             batch'.step = "answered" => \A i \in Items : item[i].at \in Settled
      PROVE  BInv'
  BY <1>2 DEF BInv, ItemInv, Expected, Running
<1>3. ASSUME NEW operation \in Operations, AskBatch(operation) PROVE BInv'
  <2>1. /\ batch.step = "idle" /\ UNCHANGED item /\ batch'.operation = operation
        /\ batch'.step \in {"group", "pool"} /\ batch'.addressed = batch.addressed
        /\ batch'.lost = batch.lost
    BY <1>1, <1>3 DEF AskBatch
  <2>2. BatchTypeOK'
    BY <1>1, <1>3, <2>1 DEF AskBatch, BInv, BatchTypeOK
  <2>3. CallerInv'
    BY <2>1 DEF BInv, CallerInv
  <2>4. \A i \in Items : item[i] = Queued
    BY <2>1 DEF BInv, ItemInv
  <2>5. \A i \in Items : ItemInv(i)'
    BY <2>1, <2>4 DEF ItemInv, Queued, Expected
  <2> QED BY <2>2, <2>3, <2>5 DEF BInv
<1>4. ASSUME batch.step = "group", UNCHANGED item,
             NEW step \in {"group", "pool", "raised"}, NEW address \in Instances,
                NEW lost \in BOOLEAN,
             batch' = [batch EXCEPT !.step = step, !.addressed = address, !.lost = lost],
             address # Nothing => step = "group", step = "raised" => lost
      PROVE  BInv'
  <2>1. /\ batch'.step = step /\ batch'.addressed = address /\ batch'.lost = lost
        /\ batch'.operation = batch.operation
    BY <1>1, <1>4
  <2>2. BatchTypeOK'
    BY <1>1, <1>4 DEF BInv, BatchTypeOK
  <2>3. CallerInv'
    BY <1>4, <2>1 DEF BInv, CallerInv
  <2>4. \A i \in Items : item[i] = Queued
    BY <1>4 DEF BInv, ItemInv
  <2>5. \A i \in Items : ItemInv(i)'
    BY <1>4, <2>1, <2>4 DEF ItemInv, Queued, Expected
  <2> QED BY <2>2, <2>3, <2>5 DEF BInv
<1>5. CASE SendGroup
  <2>1. CASE instance = Nothing
    <3>1. batch' = [batch EXCEPT !.step = "raised", !.addressed = Nothing, !.lost = TRUE]
      BY <1>1, <1>5, <2>1 DEF SendGroup
    <3> QED BY <1>4, <1>5, <3>1 DEF SendGroup, Instances
  <2>2. CASE instance # Nothing
    <3>1. batch' = [batch EXCEPT !.step = "group", !.addressed = instance, !.lost = batch.lost]
      BY <1>1, <1>5, <2>2 DEF SendGroup
    <3> QED BY <1>1, <1>4, <1>5, <3>1 DEF SendGroup
  <2> QED BY <2>1, <2>2
<1>6. CASE ReplyGroup
  <2>1. batch.step = "group"
    BY <1>6 DEF ReplyGroup, BInv, CallerInv
  <2>2. PICK step \in {"group", "pool"} : batch' = [batch EXCEPT !.step = step,
     !.addressed = Nothing]
    BY <1>6 DEF ReplyGroup
  <2>3. batch' = [batch EXCEPT !.step = step, !.addressed = Nothing, !.lost = batch.lost]
    BY <1>1, <2>2
  <2> QED BY <1>1, <1>4, <1>6, <2>1, <2>3 DEF ReplyGroup, Instances
<1>7. CASE GroupFails
  <2>1. batch.step = "group"
    BY <1>7 DEF GroupFails, BInv, CallerInv
  <2> QED BY <1>4, <1>7, <2>1 DEF GroupFails, Instances
<1>8. ASSUME NEW i \in Items, Begin(i) PROVE BInv'
  <2> DEFINE new == [item[i] EXCEPT !.at = "reading"]
  <2>1. /\ item[i] \in [at : {"queued", "reading", "found", "failed", "raised", "cancelled"},
                        addressed : Instances, answers : Nat, why : {"none", "bad", "lost"}]
        /\ item[i].answers = 0
    BY <1>8 DEF Begin, BInv, BatchTypeOK, ItemInv
  <2>2. /\ new.at = "reading" /\ new.answers = 0
        /\ new \in [at : {"queued", "reading", "found", "failed", "raised", "cancelled"},
                    addressed : Instances, answers : Nat, why : {"none", "bad", "lost"}]
    BY <2>1
  <2>3. /\ item' = [item EXCEPT ![i] = new] /\ UNCHANGED batch
        /\ batch.step = "pool" /\ item[i].at = "queued"
    BY <1>8 DEF Begin
  <2>4. 0 < Expected
    BY DEF Expected
  <2> HIDE DEF new
  <2> QED BY <2>2, <2>3, <2>4, OneItem
<1>9. ASSUME NEW i \in Items, SendItem(i) PROVE BInv'
  <2>1. UNCHANGED batch /\ item[i].at = "reading"
    BY <1>9 DEF SendItem, Reading
  <2>2. CASE instance = Nothing
    BY <1>9, <2>1, <2>2, ItemFailed DEF SendItem
  <2>3. CASE instance # Nothing
    <3> DEFINE new == [item[i] EXCEPT !.addressed = instance]
    <3>1. /\ item[i] \in [at : {"queued", "reading", "found", "failed", "raised", "cancelled"},
                          addressed : Instances, answers : Nat, why : {"none", "bad", "lost"}]
          /\ item[i].answers < Expected /\ batch.step \in {"pool", "leaving"}
      BY <2>1 DEF BInv, BatchTypeOK, ItemInv, Queued
    <3>2. /\ new.at = "reading" /\ new.answers = item[i].answers
          /\ new \in [at : {"queued", "reading", "found", "failed", "raised", "cancelled"},
                      addressed : Instances, answers : Nat, why : {"none", "bad", "lost"}]
      BY <1>1, <2>1, <3>1
    <3>3. item' = [item EXCEPT ![i] = new]
      BY <1>9, <2>3 DEF SendItem
    <3> HIDE DEF new
    <3> QED BY <2>1, <3>1, <3>2, <3>3, OneItem
  <2> QED BY <2>2, <2>3
<1>10. ASSUME NEW i \in Items, Answered(i) PROVE BInv'
  <2>1. UNCHANGED batch /\ item[i].at = "reading"
    BY <1>10 DEF Answered, Reading, BInv, ItemInv
  <2>2. PICK next \in AfterAnswer(item[i].answers + 1) :
          IF next = "failed" THEN Fails(i, "bad")
          ELSE item' = [item EXCEPT ![i].at = next, ![i].answers = @ + 1, ![i].addressed = Nothing]
    BY <1>10 DEF Answered
  <2>3. CASE next = "failed"
    BY <2>1, <2>2, <2>3, ItemFailed
  <2>4. CASE next # "failed"
    <3> DEFINE new == [item[i] EXCEPT !.at = next, !.answers = @ + 1, !.addressed = Nothing]
    <3>1. /\ item[i] \in [at : {"queued", "reading", "found", "failed", "raised", "cancelled"},
                          addressed : Instances, answers : Nat, why : {"none", "bad", "lost"}]
          /\ item[i].answers \in Nat
          /\ item[i].answers < Expected /\ batch.step \in {"pool", "leaving"}
      BY <2>1 DEF BInv, BatchTypeOK, ItemInv, Queued
    <3>2. /\ next \in {"reading", "found"}
          /\ next = "reading" => item[i].answers + 1 < Expected
          /\ next = "found" => item[i].answers + 1 = Expected
      BY <2>2, <2>4, <3>1 DEF AfterAnswer, DetailsNext, ReferenceNext, ReportsNext, RowNext,
         Settled, Expected
    <3>3. /\ new.at = next /\ new.answers = item[i].answers + 1 /\ new.addressed = Nothing
          /\ new \in [at : {"queued", "reading", "found", "failed", "raised", "cancelled"},
                      addressed : Instances, answers : Nat, why : {"none", "bad", "lost"}]
      <4>1. /\ next \in {"queued", "reading", "found", "failed", "raised", "cancelled"}
            /\ item[i].answers + 1 \in Nat /\ Nothing \in Instances
        BY <3>1, <3>2 DEF Instances
      <4> QED BY <3>1, <4>1
    <3>4. item' = [item EXCEPT ![i] = new]
      BY <2>2, <2>4
    <3> HIDE DEF new
    <3> QED BY <2>1, <3>1, <3>2, <3>3, <3>4, OneItem
  <2> QED BY <2>3, <2>4
<1>11. ASSUME NEW i \in Items, ItemFails(i) PROVE BInv'
  <2>1. UNCHANGED batch /\ item[i].at = "reading"
    BY <1>11 DEF ItemFails, BInv, ItemInv
  <2>2. \E why \in {"lost", "bad"} : Fails(i, why)
    BY <1>11 DEF ItemFails
  <2> QED BY <2>1, <2>2, ItemFailed
<1>12. CASE Collect
  <2>1. /\ batch'.step = "answered" /\ batch'.operation = batch.operation
        /\ batch'.addressed = batch.addressed /\ batch.step = "pool" /\ UNCHANGED item
        /\ \A i \in Items : item[i].at \in Settled
    BY <1>1, <1>12 DEF Collect
  <2>2. Running = {}
    BY <2>1 DEF Running, Settled
  <2>3. BatchTypeOK'
    BY <1>1, <1>12 DEF Collect, BInv, BatchTypeOK
  <2>4. CallerInv'
    BY <2>1 DEF BInv, CallerInv
  <2> QED BY <1>2, <2>1, <2>2, <2>3, <2>4
<1>13. CASE Raise
  <2>1. /\ batch'.step = "leaving" /\ batch'.operation = batch.operation
        /\ batch'.addressed = batch.addressed /\ batch.step = "pool"
    BY <1>1, <1>13 DEF Raise
  <2>2. PICK i \in Items : item[i].at = "raised"
    BY <1>13 DEF Raise
  <2>3. /\ item' \in [Items -> [at : {"queued", "reading", "found", "failed", "raised",
                          "cancelled"},
                         addressed : Instances, answers : Nat, why : {"none", "bad", "lost"}]]
        /\ \A j \in Items :
             \/ item[j].at = "queued" /\ item'[j].at = "cancelled" /\ item'[j].addressed = item[j].addressed
             \/ item[j].at # "queued" /\ item'[j] = item[j]
    <3>1. \A j \in Items : item'[j] = IF item[j].at = "queued"
       THEN [item[j] EXCEPT !.at = "cancelled"]
                                      ELSE item[j]
      BY <1>13 DEF Raise
    <3>2. \A j \in Items :
            item[j] \in [at : {"queued", "reading", "found", "failed", "raised", "cancelled"},
                         addressed : Instances, answers : Nat, why : {"none", "bad", "lost"}]
      BY DEF BInv, BatchTypeOK
    <3>3. \A j \in Items :
            item'[j] \in [at : {"queued", "reading", "found", "failed", "raised", "cancelled"},
                          addressed : Instances, answers : Nat, why : {"none", "bad", "lost"}]
      BY <3>1, <3>2
    <3>4. item' = [j \in Items |-> item'[j]]
      BY <1>13 DEF Raise
    <3>5. \A j \in Items :
             \/ item[j].at = "queued" /\ item'[j].at = "cancelled" /\ item'[j].addressed = item[j].addressed
             \/ item[j].at # "queued" /\ item'[j] = item[j]
      BY <3>1, <3>2
    <3> QED BY <3>3, <3>4, <3>5
  <2>4. BatchTypeOK'
    BY <1>1, <1>13, <2>3 DEF Raise, BatchTypeOK
  <2>5. CallerInv'
    <3>1. item'[i].at = "raised" /\ item'[i].why = "lost"
      BY <2>2, <2>3 DEF BInv, ItemInv
    <3> QED BY <2>1, <3>1 DEF BInv, CallerInv
  <2>6. ASSUME NEW j \in Items PROVE ItemInv(j)'
    <3>1. ItemInv(j)
      BY DEF BInv
    <3> QED BY <2>1, <2>3, <3>1 DEF ItemInv, Expected
  <2> QED BY <2>4, <2>5, <2>6 DEF BInv
<1>14. CASE LeavePool
  <2>1. /\ batch'.step = "raised" /\ batch'.operation = batch.operation
        /\ batch'.addressed = batch.addressed /\ batch.step = "leaving"
        /\ batch'.lost = batch.lost /\ UNCHANGED item /\ Running = {}
    BY <1>1, <1>14 DEF LeavePool
  <2>2. BatchTypeOK'
    BY <1>1, <1>14 DEF LeavePool, BInv, BatchTypeOK
  <2>3. CallerInv'
    BY <2>1 DEF BInv, CallerInv
  <2> QED BY <1>2, <2>1, <2>2, <2>3
<1>15. CASE ReturnBatch
  <2>1. batch' = NoBatch /\ item' = [i \in Items |-> Queued]
    BY <1>15 DEF ReturnBatch
  <2> QED BY <2>1 DEF BInv, BatchTypeOK, CallerInv, ItemInv, NoBatch, Queued, Expected, Instances
<1>16. CASE UNCHANGED batchVars
  BY <1>16 DEF batchVars, BInv, BatchTypeOK, CallerInv, ItemInv, Expected
<1> QED
  BY <1>3, <1>5, <1>6, <1>7, <1>8, <1>9, <1>10, <1>11, <1>12, <1>13, <1>14, <1>15, <1>16
     DEF BatchNext

-----------------------------------------------------------------------------
(* All that reads, together. *)

LEMMA InitReads == ReadsInit => DInv /\ BInv
<1> SUFFICES ASSUME ReadsInit PROVE DInv /\ BInv
  OBVIOUS
<1> USE DiscoveryAssumption
<1>1. BridgeInv
  BY DEF ReadsInit, DiscoveryInit, BridgeInv, Instances
<1>2. GetTypeOK
  <2>1. NoQuery \in Query
    BY DEF NoQuery, Query, QuerySteps, Instances
  <2> QED BY <2>1 DEF ReadsInit, DiscoveryInit, CacheInit, GetTypeOK, Outside
<1>3. StoreInv
  BY DEF ReadsInit, DiscoveryInit, CacheInit, StoreInv
<1>4. ASSUME NEW c \in Callers PROVE QueryInv(c) /\ PlaceInv(c) /\ GetInv(c)
  <2>1. my[c] = NoQuery /\ get[c] = Outside
    BY DEF ReadsInit, DiscoveryInit, CacheInit
  <2> QED BY <2>1 DEF QueryInv, PlaceInv, GetInv, NoQuery, Outside, Alive, HasFloor, Floor,
     LoadSteps
<1>5. BInv
  BY DEF ReadsInit, BatchInit, BInv, BatchTypeOK, CallerInv, ItemInv, NoBatch, Queued, Expected,
     Instances
<1> QED BY <1>1, <1>2, <1>3, <1>4, <1>5 DEF DInv

LEMMA StepReads == DInv /\ BInv /\ [ReadsNext]_readsVars => DInv' /\ BInv'
<1> SUFFICES ASSUME DInv, BInv, [ReadsNext]_readsVars PROVE DInv' /\ BInv'
  OBVIOUS
<1>1. ASSUME UNCHANGED discoveryVars PROVE DInv'
  <2>1. UNCHANGED <<bridge, health>> /\ UNCHANGED <<my, cacheVars>>
    BY <1>1 DEF discoveryVars
  <2> QED BY <2>1, BridgeUnchanged, NoQueryMoves DEF DInv
<1>2. ASSUME UNCHANGED batchVars PROVE BInv'
  BY <1>2 DEF batchVars, BInv, BatchTypeOK, CallerInv, ItemInv, Expected
<1> QED
  BY <1>1, <1>2, DiscoveryInvariant, BatchesKeepQueries, BatchInvariant DEF ReadsNext, readsVars

LEMMA ReadsInvariance == ReadsSpec => [](DInv /\ BInv)
BY InitReads, StepReads, PTL DEF ReadsSpec

\* What a discovery answers was read from one instance of the strategy alone,
\* the one whose identity the caller found before it asked: neither a restart
\* nor the cache nor another caller's flight mixes in what another instance said.
THEOREM OneInstanceAnswers == ReadsSpec => []OneInstance
<1>1. DInv => OneInstance
  BY DEF DInv, QueryInv, Floor, OneInstance
<1> QED BY <1>1, ReadsInvariance, PTL

\* After clear_cache nobody is given what was read before it: a flight that the
\* clear met neither stores its result nor is followed from then on.
THEOREM FreshAnswers == ReadsSpec => []FreshAfterClear
<1>1. DInv => FreshAfterClear
  BY DEF DInv, GetInv, FreshAfterClear
<1> QED BY <1>1, ReadsInvariance, PTL

\* A batch is answered with one result of its own for every security, or not at
\* all, and none of its reads goes on after it has returned.
THEOREM BatchesAreWhole == ReadsSpec => []BatchIsWhole
<1>1. BInv => BatchIsWhole
  BY DEF BInv, CallerInv, ItemInv, BatchIsWhole, Running, Settled, Expected
<1> QED BY <1>1, ReadsInvariance, PTL

-----------------------------------------------------------------------------
(***************************************************************************)
(* Who waits for whom.  Whoever is in hold for a key has the locks of all  *)
(* lesser keys of his call, so that the thread that waits for the greatest *)
(* key of all waits for one that is not waiting.                           *)
(***************************************************************************)

OrderInv ==
    \A t \in Threads, k \in Keys : at[t][k] # "out" =>
        k \in plan[t] /\ \A j \in plan[t] : j < k => at[t][j] = "in"

HeldInv ==
    \A l \in Locks : owner[l] # None =>
        \E k \in Keys : at[owner[l]][k] = "in" /\ lock[owner[l]][k] = l

LEMMA InitHeld == Init => OrderInv /\ HeldInv
BY DEF Init, OrderInv, HeldInv

LEMMA NextHeld == IInv /\ OrderInv /\ HeldInv /\ [Next]_vars => OrderInv' /\ HeldInv'
<1> SUFFICES ASSUME IInv, OrderInv, HeldInv, [Next]_vars PROVE OrderInv' /\ HeldInv'
  OBVIOUS
<1> USE DEF IInv, TypeOK
<1>0. Keys \subseteq Int
  BY DEF Keys
<1>1. ASSUME NEW t \in Threads, Call(t) PROVE OrderInv' /\ HeldInv'
  <2>1. \A k \in Keys : at[t][k] = "out"
    BY <1>1 DEF Call, OrderInv
  <2>2. UNCHANGED <<at, owner, lock>> /\ \A u \in Threads : u # t => plan'[u] = plan[u]
    BY <1>1 DEF Call
  <2> QED BY <2>1, <2>2 DEF OrderInv, HeldInv
<1>2. ASSUME NEW t \in Threads, Finish(t) PROVE OrderInv' /\ HeldInv'
  BY <1>2 DEF Finish, OrderInv, HeldInv
<1>3. ASSUME NEW t \in Threads, NEW k \in Keys, Enter(t, k) PROVE OrderInv' /\ HeldInv'
  <2>1. /\ k \in plan[t] /\ at[t][k] = "out" /\ \A j \in plan[t] : j < k => at[t][j] = "in"
        /\ at'[t][k] = "waiting" /\ UNCHANGED <<owner, plan>>
        /\ \A u \in Threads, j \in Keys : ~(u = t /\ j = k) =>
             at'[u][j] = at[u][j] /\ lock'[u][j] = lock[u][j]
    BY <1>3 DEF Enter, Due
  <2>2. OrderInv'
    <3> SUFFICES ASSUME NEW u \in Threads, NEW j \in Keys, at'[u][j] # "out"
                 PROVE  j \in plan[u] /\ \A i \in plan[u] : i < j => at'[u][i] = "in"
      BY <2>1 DEF OrderInv
    <3>1. CASE u = t /\ j = k
      BY <1>0, <2>1, <3>1
    <3>2. CASE ~(u = t /\ j = k)
      BY <2>1, <3>2 DEF OrderInv
    <3> QED BY <3>1, <3>2
  <2>3. HeldInv'
    <3> SUFFICES ASSUME NEW l \in Locks, owner[l] # None
                 PROVE  \E j \in Keys : at'[owner[l]][j] = "in" /\ lock'[owner[l]][j] = l
      BY <2>1 DEF HeldInv
    <3>1. PICK j \in Keys : at[owner[l]][j] = "in" /\ lock[owner[l]][j] = l
      BY DEF HeldInv
    <3>2. owner[l] \in Threads /\ ~(owner[l] = t /\ j = k)
      BY <2>1, <3>1
    <3> QED BY <2>1, <3>1, <3>2
  <2> QED BY <2>2, <2>3
<1>4. ASSUME NEW t \in Threads, NEW k \in Keys, Acquire(t, k) PROVE OrderInv' /\ HeldInv'
  <2>1. /\ at[t][k] = "waiting" /\ at'[t][k] = "in" /\ UNCHANGED <<plan, lock>>
        /\ \A u \in Threads, j \in Keys : ~(u = t /\ j = k) => at'[u][j] = at[u][j]
        /\ lock[t][k] \in Locks /\ owner' = [owner EXCEPT ![lock[t][k]] = t]
    BY <1>4 DEF Acquire, LocalInv
  <2>2. OrderInv'
    <3> SUFFICES ASSUME NEW u \in Threads, NEW j \in Keys, at'[u][j] # "out"
                 PROVE  j \in plan[u] /\ \A i \in plan[u] : i < j => at'[u][i] = "in"
      BY <2>1 DEF OrderInv
    <3>1. at[u][j] # "out"
      BY <2>1
    <3>2. j \in plan[u] /\ \A i \in plan[u] : i < j => at[u][i] = "in"
      BY <3>1 DEF OrderInv
    <3>3. plan[u] \subseteq Keys
      OBVIOUS
    <3> QED BY <2>1, <3>2, <3>3
  <2>3. HeldInv'
    <3> SUFFICES ASSUME NEW l \in Locks, owner'[l] # None
                 PROVE  \E j \in Keys : at'[owner'[l]][j] = "in" /\ lock[owner'[l]][j] = l
      BY <2>1 DEF HeldInv
    <3>1. CASE l = lock[t][k]
      <4>1. owner'[l] = t
        BY <2>1, <3>1
      <4> QED BY <2>1, <3>1, <4>1
    <3>2. CASE l # lock[t][k]
      <4>1. owner'[l] = owner[l] /\ owner[l] \in Threads
        BY <2>1, <3>2
      <4>2. PICK j \in Keys : at[owner[l]][j] = "in" /\ lock[owner[l]][j] = l
        BY <4>1 DEF HeldInv
      <4>3. at'[owner[l]][j] = "in"
        BY <2>1, <4>1, <4>2
      <4> QED BY <4>1, <4>2, <4>3
    <3> QED BY <3>1, <3>2
  <2> QED BY <2>2, <2>3
<1>5. ASSUME NEW t \in Threads, NEW k \in Keys, Release(t, k) PROVE OrderInv' /\ HeldInv'
  <2>1. /\ at[t][k] = "in" /\ at'[t][k] = "released" /\ UNCHANGED <<plan, lock>>
        /\ \A j \in plan[t] : j > k => at[t][j] = "out"
        /\ \A u \in Threads, j \in Keys : ~(u = t /\ j = k) => at'[u][j] = at[u][j]
        /\ lock[t][k] \in Locks /\ owner' = [owner EXCEPT ![lock[t][k]] = None]
    BY <1>5 DEF Release, LocalInv
  <2>2. OrderInv'
    <3> SUFFICES ASSUME NEW u \in Threads, NEW j \in Keys, at'[u][j] # "out"
                 PROVE  j \in plan[u] /\ \A i \in plan[u] : i < j => at'[u][i] = "in"
      BY <2>1 DEF OrderInv
    <3>1. at[u][j] # "out"
      BY <2>1
    <3>2. j \in plan[u] /\ \A i \in plan[u] : i < j => at[u][i] = "in"
      BY <3>1 DEF OrderInv
    <3>3. u = t => ~(k < j)
      BY <1>0, <2>1, <3>1, <3>2
    <3>4. plan[u] \subseteq Keys
      OBVIOUS
    <3> QED BY <1>0, <2>1, <3>2, <3>3, <3>4
  <2>3. HeldInv'
    <3> SUFFICES ASSUME NEW l \in Locks, owner'[l] # None
                 PROVE  \E j \in Keys : at'[owner'[l]][j] = "in" /\ lock[owner'[l]][j] = l
      BY <2>1 DEF HeldInv
    <3>1. l # lock[t][k] /\ owner'[l] = owner[l] /\ owner[l] \in Threads
      BY <2>1
    <3>2. PICK j \in Keys : at[owner[l]][j] = "in" /\ lock[owner[l]][j] = l
      BY <3>1 DEF HeldInv
    <3>3. at'[owner[l]][j] = "in"
      BY <2>1, <3>1, <3>2
    <3> QED BY <3>1, <3>2, <3>3
  <2> QED BY <2>2, <2>3
<1>6. ASSUME NEW t \in Threads, NEW k \in Keys, Leave(t, k) PROVE OrderInv' /\ HeldInv'
  <2>1. /\ at[t][k] = "released" /\ at'[t][k] = "out" /\ UNCHANGED owner
        /\ \A u \in Threads, j \in Keys : ~(u = t /\ j = k) =>
             at'[u][j] = at[u][j] /\ lock'[u][j] = lock[u][j]
        /\ \A u \in Threads : u # t => plan'[u] = plan[u]
        /\ plan'[t] = IF \A j \in Keys \ {k} : at[t][j] = "out" THEN {} ELSE plan[t]
    BY <1>6 DEF Leave
  <2>2. OrderInv'
    <3> SUFFICES ASSUME NEW u \in Threads, NEW j \in Keys, at'[u][j] # "out"
                 PROVE  j \in plan'[u] /\ \A i \in plan'[u] : i < j => at'[u][i] = "in"
      BY DEF OrderInv
    <3>1. ~(u = t /\ j = k) /\ at[u][j] # "out"
      BY <2>1
    <3>2. plan'[u] = plan[u] /\ plan[u] \subseteq Keys
      BY <2>1, <3>1
    <3>3. j \in plan[u] /\ \A i \in plan[u] : i < j => at[u][i] = "in"
      BY <3>1 DEF OrderInv
    <3>4. ASSUME NEW i \in plan'[u], i < j PROVE at'[u][i] = "in"
      <4>1. i \in Keys /\ at[u][i] = "in"
        BY <3>2, <3>3, <3>4
      <4>2. ~(u = t /\ i = k)
        BY <2>1, <4>1
      <4> QED BY <2>1, <4>1, <4>2
    <3> QED BY <3>2, <3>3, <3>4
  <2>3. HeldInv'
    <3> SUFFICES ASSUME NEW l \in Locks, owner[l] # None
                 PROVE  \E j \in Keys : at'[owner[l]][j] = "in" /\ lock'[owner[l]][j] = l
      BY <2>1 DEF HeldInv
    <3>1. PICK j \in Keys : at[owner[l]][j] = "in" /\ lock[owner[l]][j] = l
      BY DEF HeldInv
    <3>2. owner[l] \in Threads /\ ~(owner[l] = t /\ j = k)
      BY <2>1, <3>1
    <3> QED BY <2>1, <3>1, <3>2
  <2> QED BY <2>2, <2>3
<1>7. CASE UNCHANGED vars
  BY <1>7 DEF vars, OrderInv, HeldInv
<1> QED BY <1>1, <1>2, <1>3, <1>4, <1>5, <1>6, <1>7 DEF Next

Blocked(t, k) == at[t][k] = "waiting" /\ owner[lock[t][k]] # None

\* Of the threads that are blocked, one waits for a key that is not exceeded.
LEMMA GreatestKey ==
    ASSUME IInv, OrderInv, NEW s \in Threads, NEW i \in Keys, Blocked(s, i)
    PROVE  \E t \in Threads, k \in Keys :
             Blocked(t, k) /\ \A u \in Threads, j \in Keys : Blocked(u, j) => ~(j > k)
<1> DEFINE Above(k) == {u \in Threads : \E j \in Keys : Blocked(u, j) /\ j > k}
           T == {A \in SUBSET Threads : \E t \in Threads, k \in Keys : Blocked(t,
              k) /\ A = Above(k)}
<1>1. Above(i) \in T
  OBVIOUS
<1>2. SUBSET Threads = FiniteSubsetsOf(Threads)
  BY FS_FiniteSubsetsOfFinite
<1>3. IsWellFoundedOn(StrictSubsetOrdering(Threads), FiniteSubsetsOf(Threads))
  BY FS_StrictSubsetOrderingWellFounded
<1>4. T \subseteq FiniteSubsetsOf(Threads) /\ T # {}
  BY <1>1, <1>2
<1> HIDE DEF T
<1>5. PICK A \in T : \A B \in T : ~(<<B, A>> \in StrictSubsetOrdering(Threads))
  BY <1>3, <1>4, WFMin
<1>6. PICK t \in Threads, k \in Keys : Blocked(t, k) /\ A = Above(k)
  BY <1>5 DEF T
<1>7. \A u \in Threads, j, l \in Keys : Blocked(u, j) /\ Blocked(u, l) => j = l
  BY DEF Blocked, OrderInv, IInv, TypeOK, Keys
<1>8. ASSUME NEW u \in Threads, NEW j \in Keys, Blocked(u, j), j > k
      PROVE  FALSE
  <2>1. Above(j) \in T
    BY <1>8 DEF T
  <2>2. Above(j) \subseteq Above(k)
    BY <1>8 DEF Keys
  <2>3. u \in Above(k) /\ u \notin Above(j)
    BY <1>7, <1>8 DEF Keys
  <2>4. Above(j) \in SUBSET Threads /\ Above(k) \in SUBSET Threads
    OBVIOUS
  <2> HIDE DEF Above
  <2>5. <<Above(j), Above(k)>> \in StrictSubsetOrdering(Threads)
    BY <2>2, <2>3, <2>4 DEF StrictSubsetOrdering
  <2> QED BY <1>5, <1>6, <2>1, <2>5
<1> QED BY <1>6, <1>8

\* Of the threads whose calls are in progress one is not blocked.
LEMMA SomebodyMoves ==
    ASSUME IInv, OrderInv, HeldInv, NEW s \in Threads, plan[s] # {}
    PROVE  \E t \in Threads :
             plan[t] # {} /\ \A k \in Keys : at[t][k] = "waiting" => owner[lock[t][k]] = None
<1> SUFFICES ASSUME \A t \in Threads : plan[t] # {} => \E k \in Keys : Blocked(t, k)
             PROVE  FALSE
  BY DEF Blocked
<1>1. PICK t \in Threads, k \in Keys :
        Blocked(t, k) /\ \A u \in Threads, j \in Keys : Blocked(u, j) => ~(j > k)
  BY GreatestKey
<1> DEFINE u == owner[lock[t][k]]
<1>2. /\ lock[t][k] \in Locks /\ lock[t][k] = entries[k].lock /\ u \in Threads
  BY <1>1 DEF Blocked, IInv, TypeOK, LocalInv
<1>3. PICK j \in Keys : at[u][j] = "in" /\ lock[u][j] = lock[t][k]
  BY <1>1, <1>2 DEF HeldInv, Blocked
<1>4. j = k
  <2>1. lock[u][j] = entries[j].lock
    BY <1>2, <1>3 DEF IInv, LocalInv
  <2> QED BY <1>2, <1>3, <2>1 DEF IInv, FreshInv
<1>5. PICK i \in Keys : Blocked(u, i)
  BY <1>2, <1>3 DEF OrderInv
<1>6. k < i
  <2>1. k \in plan[u] /\ i \in plan[u] /\ at[u][k] = "in" /\ at[u][i] = "waiting"
    BY <1>2, <1>3, <1>4, <1>5 DEF OrderInv, Blocked
  <2>2. ~(i < k) /\ i # k
    BY <1>2, <2>1 DEF OrderInv
  <2> QED BY <2>2 DEF Keys
<1> QED BY <1>1, <1>2, <1>5, <1>6 DEF Keys

\* The reads include those of the queries that take locks.
LEMMA ReadsHeld == ReadsSpec => [](IInv /\ OrderInv /\ HeldInv)
<1>1. ReadsInit => IInv /\ OrderInv /\ HeldInv
  BY InitIInv, InitHeld DEF ReadsInit
<1>2. IInv /\ OrderInv /\ HeldInv /\ [ReadsNext]_readsVars => (IInv /\ OrderInv /\ HeldInv)'
  <2>1. [ReadsNext]_readsVars => [Next]_vars
    BY DEF ReadsNext, readsVars
  <2> QED BY <2>1, NextIInv, NextHeld
<1> QED BY <1>1, <1>2, PTL DEF ReadsSpec

\* The threads that read never all wait for each other: the locks are taken in
\* the order of their keys, and whoever flies a flight waits for nobody.
THEOREM ThreadsMove == ReadsSpec => []QueriesMove
<1>1. IInv /\ OrderInv /\ HeldInv /\ DInv => QueriesMove
  <2> SUFFICES ASSUME IInv, OrderInv, HeldInv, DInv PROVE QueriesMove
    OBVIOUS
  <2>1. (\E t \in Threads : plan[t] # {}) =>
          \E t \in Threads : /\ plan[t] # {}
                             /\ \A k \in Keys : at[t][k] = "waiting" => owner[lock[t][k]] = None
    BY SomebodyMoves
  <2>2. ASSUME NEW c \in Callers, get[c].at = "wait"
        PROVE  get[get[c].leader].at \in {"load", "store"} /\ my[get[c].leader].step # "idle"
    <3>1. get[c].leader \in Callers /\ get[get[c].leader].at \in {"load", "store"}
      BY <2>2 DEF DInv, GetInv
    <3>2. PlaceInv(get[c].leader)
      BY <3>1 DEF DInv
    <3> QED BY <3>1, <3>2 DEF PlaceInv, Outside
  <2> QED BY <2>1, <2>2 DEF QueriesMove
<1> QED BY <1>1, ReadsHeld, ReadsInvariance, PTL

=============================================================================
