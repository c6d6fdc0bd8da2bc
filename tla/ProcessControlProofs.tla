------------------------ MODULE ProcessControlProofs ------------------------
(***************************************************************************)
(* Theorems about ProcessControl, for any sets of commands and servers.    *)
(* The argument: who installs has the command lock, and had the instance   *)
(* lock to itself when it began; a server that is to take the instance     *)
(* lock later has the command lock, or was launched by a command that has  *)
(* it, or by one that gave it up.  Who has the instance lock is the only   *)
(* one to write the state.                                                 *)
(***************************************************************************)
EXTENDS ProcessControl, TLAPS

\* A launch on its way to its answer; a status, which has no lock, takes some
\* of these steps too.
Polling == {"poll", "status?", "status read", "status again?", "status ask"}
Holding(c) == at[c] \in LockedSteps \/ (at[c] \in Polling /\ kind[c] # "status")

\* The command lock is where its holder's steps say it is.
LockInv ==
    /\ \A c \in Commands : commandLock = c <=> Holding(c)
    /\ \A c \in Commands :
         /\ at[c] \in LockedSteps \cup {"lock"} => kind[c] # "status"
         /\ at[c] = "idle" <=> kind[c] = "none"
    /\ \A s \in Servers :
         /\ commandLock = s => srv[s] \in {"foreground", "owner"}
         /\ srv[s] = "foreground" => commandLock = s

\* The instance lock is with the server that is alive, if there is one.
InstanceInv == \A s \in Servers : instanceLock = s <=> s \in Alive

\* A server that has not written its state is known by the command lock.
Launching(s) ==
    \/ s \in Orphans
    \/ commandLock = s
    \/ \E d \in Commands : child[d] = s /\ at[d] \in Polling /\ kind[d] # "status"
ChildInv == \A s \in Servers : srv[s] \in {"spawned", "owner"} => Launching(s)

\* The state on disk is that of the server that is alive since its setup, and
\* whoever is known by name exists.
RecordInv ==
    /\ \A s \in Servers :
         srv[s] \in {"setup", "active", "closing", "cleanup", "leaving"} => record = s
    /\ record # None => srv[record] # "none"

InstallInv == \A c \in Commands : at[c] \in Installing => Alive \subseteq Orphans

\* A pip process has a command that waits for it, or was killed.
PipInv == \A c \in replacing : at[c] \in {"installing", "killed"}

IInv == TypeOK /\ LockInv /\ InstanceInv /\ ChildInv /\ RecordInv /\ InstallInv /\ PipInv

USE DEF files, locals, servers

-----------------------------------------------------------------------------
(* The shape of the steps, and what each shape preserves. *)

GaveUp == {"not ready", "killed"}
Held(c, step) == step \in LockedSteps \/ (step \in Polling /\ kind[c] # "status")
SinceSetup == {"setup", "active", "closing", "cleanup", "leaving"}

\* Command c goes to a step, and keeps the locks as that step demands.
Move(c, step) ==
    /\ at[c] \notin Outcomes \cup {"idle"} /\ step \in (Steps \cup Outcomes) \ {"idle"}
    /\ at' = [at EXCEPT ![c] = step]
    /\ UNCHANGED <<record, kind, child>>
    /\ \A s \in Servers : srv'[s] = srv[s] \/ (srv[s] = "active" /\ srv'[s] = "closing")
    /\ kind[c] = "status" => step \notin LockedSteps \cup {"lock"}
    /\ step \in Installing => at[c] \in Installing \/ instanceLock = c
    /\ Held(c, at[c]) /\ at[c] \in Polling =>
         step \in Polling \cup GaveUp \/ \A s \in Servers : child[c] = s => srv[s] \notin {"spawned", "owner"}
    /\ instanceLock' = instanceLock \/ {instanceLock, instanceLock'} \subseteq {c, None}
    /\ \/ step \in Outcomes /\ commandLock' = Without(commandLock, c)
       \/ commandLock' = commandLock /\ (Held(c, step) <=> Held(c, at[c]))
       \/ commandLock = None /\ commandLock' = c /\ Held(c, step)
    /\ \/ replacing' = replacing /\ at[c] # "installing"
       \/ /\ replacing' \subseteq replacing \cup {c}
          /\ c \in replacing' => step \in {"installing", "killed"}

\* Server s goes to another phase of its life, and the locks and the record
\* with it.
Turn(s, phase) ==
    /\ srv' = [srv EXCEPT ![s] = phase]
    /\ UNCHANGED <<at, kind, child, replacing>>
    /\ phase \notin {"none", "spawned"}
    /\ \/ commandLock' = commandLock
       \/ commandLock' = Without(commandLock, s)
       \/ commandLock = None /\ commandLock' = s
    /\ commandLock' = s => phase \in {"foreground", "owner"}
    /\ phase = "foreground" => commandLock' = s
    /\ \/ instanceLock' = instanceLock
       \/ instanceLock' = Without(instanceLock, s)
       \/ instanceLock = None /\ instanceLock' = s
    /\ instanceLock' = s <=> phase \in Process \ {"foreground", "spawned"}
    /\ phase = "owner" => srv[s] \in {"foreground", "spawned"} /\ commandLock' = commandLock
    /\ phase \in Process \ {"foreground", "spawned"} => s \in Alive \/ phase = "owner"
    /\ \/ record' = record /\ (phase \in SinceSetup => srv[s] \in SinceSetup)
       \/ record' = s /\ srv[s] = "owner" /\ phase = "setup"

\* Nobody gives up, and who has given up keeps its child.
LEMMA OrphansKept ==
    ASSUME \A d \in Commands :
             /\ at'[d] \in {"not ready", "killed"} <=> at[d] \in {"not ready", "killed"}
             /\ at[d] \in {"not ready", "killed"} => child'[d] = child[d]
    PROVE  Orphans' = Orphans
<1>1. ASSUME NEW x \in Orphans PROVE x \in Orphans'
  <2>1. PICK d \in Commands : at[d] \in {"not ready", "killed"} /\ x = child[d]
    BY DEF Orphans
  <2>2. at'[d] \in {"not ready", "killed"} /\ x = child'[d]
    BY <2>1
  <2> QED BY <2>2 DEF Orphans
<1>2. ASSUME NEW x \in Orphans' PROVE x \in Orphans
  <2>1. PICK d \in Commands : at'[d] \in {"not ready", "killed"} /\ x = child'[d]
    BY DEF Orphans
  <2>2. at[d] \in {"not ready", "killed"} /\ x = child[d]
    BY <2>1
  <2> QED BY <2>2 DEF Orphans
<1> QED BY <1>1, <1>2

LEMMA MoveKeepsInv ==
    ASSUME IInv, TypeOK', NEW c \in Commands, NEW step, Move(c, step)
    PROVE  IInv'
<1> USE NoneAssumption
<1>1. /\ at'[c] = step
      /\ \A d \in Commands \ {c} : at'[d] = at[d]
      /\ \A d \in Commands : kind'[d] = kind[d] /\ child'[d] = child[d]
  BY DEF Move, IInv, TypeOK
<1>2. /\ \A d \in Commands \ {c} : Holding(d)' <=> Holding(d)
      /\ Holding(c)' <=> Held(c, step)
      /\ Holding(c) <=> Held(c, at[c])
  BY <1>1 DEF Holding, Held
<1>3. /\ \A d \in Commands \ {c} : commandLock' = d <=> commandLock = d
      /\ \A s \in Servers : commandLock' = s <=> commandLock = s
  BY DEF Move, Without
<1>4. step \in Outcomes => ~Held(c, step)
  BY DEF Outcomes, Held, LockedSteps, Polling
<1>5. commandLock' = c <=> Holding(c)'
  BY <1>2, <1>4 DEF Move, Without, IInv, LockInv
<1>6. \A s \in Servers : (s \in Alive)' <=> s \in Alive
  BY DEF Move, Alive, Process
<1>7. Orphans \subseteq Orphans'
  <2>1. at[c] \notin GaveUp
    BY DEF Move, Outcomes, GaveUp
  <2> QED BY <1>1, <2>1 DEF Orphans, GaveUp
<1>8. LockInv'
  <2>1. \A d \in Commands : (commandLock = d <=> Holding(d))'
    BY <1>2, <1>3, <1>5 DEF IInv, LockInv
  <2>2. \A d \in Commands : (at[d] \in LockedSteps \cup {"lock"} => kind[d] # "status")'
    BY <1>1 DEF Move, IInv, LockInv
  <2>3. \A d \in Commands : (at[d] = "idle" <=> kind[d] = "none")'
    BY <1>1 DEF Move, IInv, LockInv
  <2>4. \A s \in Servers : /\ commandLock' = s => srv'[s] \in {"foreground", "owner"}
                           /\ srv'[s] = "foreground" => commandLock' = s
    BY <1>3 DEF Move, IInv, LockInv
  <2> QED BY <2>1, <2>2, <2>3, <2>4 DEF LockInv
<1>9. InstanceInv'
  BY <1>6 DEF Move, IInv, InstanceInv
<1>10. ChildInv'
  <2> SUFFICES ASSUME NEW s \in Servers, srv'[s] \in {"spawned", "owner"} PROVE Launching(s)'
    BY DEF ChildInv
  <2>1. srv[s] \in {"spawned", "owner"} /\ Launching(s)
    BY DEF Move, IInv, ChildInv
  <2>2. CASE s \in Orphans \/ commandLock = s
    BY <2>2, <1>3, <1>7 DEF Launching
  <2>3. ASSUME NEW d \in Commands, child[d] = s, at[d] \in Polling, kind[d] # "status"
        PROVE  Launching(s)'
    <3>1. CASE d # c
      BY <2>3, <3>1, <1>1 DEF Launching
    <3>2. CASE d = c
      <4>1. step \in Polling \cup GaveUp
        BY <2>1, <2>3, <3>2 DEF Move, Held
      <4>2. CASE step \in Polling
        BY <2>3, <3>2, <4>2, <1>1 DEF Launching
      <4>3. CASE step \in GaveUp
        BY <2>3, <3>2, <4>3, <1>1 DEF Launching, Orphans, GaveUp
      <4> QED BY <4>1, <4>2, <4>3
    <3> QED BY <3>1, <3>2
  <2> QED BY <2>1, <2>2, <2>3 DEF Launching
<1>11. RecordInv'
  BY DEF Move, IInv, TypeOK, RecordInv
<1>12. InstallInv'
  <2> SUFFICES ASSUME NEW d \in Commands, at'[d] \in Installing PROVE Alive' \subseteq Orphans'
    BY DEF InstallInv
  <2>1. CASE at[d] \in Installing
    BY <2>1, <1>6, <1>7 DEF IInv, InstallInv, Alive
  <2>2. CASE at[d] \notin Installing
    <3>1. d = c /\ instanceLock = c
      BY <2>2, <1>1 DEF Move
    <3>2. Alive = {}
      BY <3>1 DEF IInv, InstanceInv, Alive
    <3> QED BY <3>2, <1>6 DEF Alive
  <2> QED BY <2>1, <2>2
<1>13. PipInv'
  <2> SUFFICES ASSUME NEW d \in replacing' PROVE at'[d] \in {"installing", "killed"}
    BY DEF PipInv
  <2>1. d \in Commands
    BY DEF TypeOK
  <2>2. CASE d = c
    BY <2>2, <1>1 DEF Move, IInv, PipInv, Outcomes
  <2>3. CASE d # c
    BY <2>1, <2>3, <1>1 DEF Move, IInv, PipInv
  <2> QED BY <2>2, <2>3
<1> QED BY <1>8, <1>9, <1>10, <1>11, <1>12, <1>13 DEF IInv

LEMMA TurnKeepsInv ==
    ASSUME IInv, TypeOK', NEW s \in Servers, NEW phase, Turn(s, phase)
    PROVE  IInv'
<1> USE NoneAssumption
<1>1. /\ srv'[s] = phase
      /\ \A t \in Servers \ {s} : srv'[t] = srv[t]
  BY DEF Turn, IInv, TypeOK
<1>2. /\ \A c \in Commands : Holding(c)' <=> Holding(c)
      /\ \A c \in Commands : at'[c] = at[c] /\ kind'[c] = kind[c] /\ child'[c] = child[c]
      /\ Orphans' = Orphans
  BY DEF Turn, Holding, Orphans
<1>3. /\ \A c \in Commands : commandLock' = c <=> commandLock = c
      /\ \A t \in Servers \ {s} : commandLock' = t <=> commandLock = t
  BY DEF Turn, Without
<1>4. \A t \in Servers \ {s} : instanceLock' = t <=> instanceLock = t
  BY DEF Turn, Without
<1>5. LockInv'
  <2>1. \A c \in Commands : (commandLock = c <=> Holding(c))'
    BY <1>2, <1>3 DEF IInv, LockInv
  <2>2. \A c \in Commands : (/\ at[c] \in LockedSteps \cup {"lock"} => kind[c] # "status"
                             /\ at[c] = "idle" <=> kind[c] = "none")'
    BY <1>2 DEF IInv, LockInv
  <2>3. \A t \in Servers : (/\ commandLock = t => srv[t] \in {"foreground", "owner"}
                            /\ srv[t] = "foreground" => commandLock = t)'
    BY <1>1, <1>3 DEF Turn, IInv, LockInv
  <2> QED BY <2>1, <2>2, <2>3 DEF LockInv
<1>6. InstanceInv'
  BY <1>1, <1>4 DEF Turn, IInv, InstanceInv, Alive
<1>7. ASSUME NEW t \in Servers, Launching(t), t # s \/ commandLock' = commandLock
      PROVE  Launching(t)'
  BY <1>7, <1>2, <1>3 DEF Launching
<1>8. ChildInv'
  <2> SUFFICES ASSUME NEW t \in Servers, srv'[t] \in {"spawned", "owner"} PROVE Launching(t)'
    BY DEF ChildInv
  <2>1. CASE t # s
    BY <2>1, <1>1, <1>7 DEF IInv, ChildInv
  <2>2. CASE t = s
    <3>1. phase = "owner" /\ commandLock' = commandLock
      BY <2>2, <1>1 DEF Turn
    <3>2. Launching(t)
      BY <2>2, <3>1 DEF Turn, IInv, LockInv, ChildInv, Launching
    <3> QED BY <3>1, <3>2, <1>7
  <2> QED BY <2>1, <2>2
<1>9. RecordInv'
  <2>1. CASE record' = record /\ (phase \in SinceSetup => srv[s] \in SinceSetup)
    BY <2>1, <1>1 DEF Turn, IInv, TypeOK, RecordInv, SinceSetup
  <2>2. CASE record' = s /\ srv[s] = "owner" /\ phase = "setup"
    <3>1. instanceLock = s
      BY <2>2 DEF IInv, InstanceInv, Alive, Process
    <3>2. \A t \in Servers \ {s} : srv[t] \notin SinceSetup
      BY <3>1 DEF IInv, InstanceInv, Alive, Process, SinceSetup
    <3> QED BY <2>2, <3>2, <1>1 DEF RecordInv, SinceSetup
  <2> QED BY <2>1, <2>2 DEF Turn
<1>10. InstallInv'
  <2> SUFFICES ASSUME NEW c \in Commands, at[c] \in Installing, NEW t \in Alive' PROVE t \in Orphans
    BY <1>2 DEF InstallInv
  <2>1. CASE t \in Alive
    BY <2>1 DEF IInv, InstallInv
  <2>2. CASE t \notin Alive
    <3>1. t = s /\ t \in Servers /\ phase = "owner" /\ srv[s] \in {"foreground", "spawned"}
      BY <2>2, <1>1 DEF Alive, Turn, Process
    <3>2. commandLock = c
      BY DEF IInv, LockInv, Holding, Installing, LockedSteps
    <3>3. srv[s] = "spawned" /\ Launching(s)
      BY <3>1, <3>2 DEF IInv, LockInv, ChildInv
    <3>4. ASSUME NEW d \in Commands, at[d] \in Polling, kind[d] # "status" PROVE FALSE
      <4>1. d = c
        BY <3>2, <3>4 DEF IInv, LockInv, Holding
      <4> QED BY <3>4, <4>1 DEF Polling, Installing
    <3> QED BY <3>1, <3>2, <3>3, <3>4 DEF Launching
  <2> QED BY <2>1, <2>2
<1>11. PipInv'
  BY DEF Turn, IInv, PipInv
<1> QED BY <1>5, <1>6, <1>8, <1>9, <1>10, <1>11 DEF IInv

-----------------------------------------------------------------------------
(* The steps. *)

LEMMA InvBegin == ASSUME IInv, NEW c \in Commands, NEW k \in Kinds, Begin(c, k) PROVE IInv'
<1> USE NoneAssumption DEF Begin
<1>1. /\ at'[c] \in {"lock", "status?", "schedule"} /\ at' = [at EXCEPT ![c] = at'[c]]
      /\ at'[c] = "lock" => k # "status"
      /\ at'[c] = "status?" => k = "status"
  BY DEF Go, IInv, TypeOK
<1>2. TypeOK'
  <2>1. at' \in [Commands -> Steps \cup Outcomes]
    BY <1>1 DEF IInv, TypeOK, Steps
  <2>2. kind' \in [Commands -> Kinds]
    BY DEF IInv, TypeOK
  <2> QED BY <2>1, <2>2 DEF IInv, TypeOK
<1>3. /\ \A d \in Commands \ {c} : at'[d] = at[d] /\ kind'[d] = kind[d]
      /\ kind'[c] = k /\ kind[c] = "none" /\ child' = child
  BY <1>1 DEF IInv, TypeOK
<1>4. /\ \A d \in Commands \ {c} : Holding(d)' <=> Holding(d)
      /\ ~Holding(c)' /\ ~Holding(c)
  BY <1>1, <1>3 DEF Holding, LockedSteps, Polling
<1>5. Orphans' = Orphans /\ Alive' = Alive
  <2>1. \A d \in Commands : at'[d] \in {"not ready", "killed"} <=> at[d] \in {"not ready", "killed"}
    BY <1>1, <1>3
  <2> QED BY <2>1, <1>3 DEF Orphans, Alive
<1>6. LockInv'
  <2>1. \A d \in Commands : (commandLock = d <=> Holding(d))'
    BY <1>4 DEF IInv, LockInv
  <2>2. \A d \in Commands : (/\ at[d] \in LockedSteps \cup {"lock"} => kind[d] # "status"
                             /\ at[d] = "idle" <=> kind[d] = "none")'
    BY <1>1, <1>3 DEF IInv, LockInv, LockedSteps
  <2> QED BY <2>1, <2>2 DEF IInv, LockInv
<1>7. InstanceInv' /\ RecordInv'
  BY <1>5 DEF IInv, InstanceInv, RecordInv
<1>8. ChildInv'
  <2> SUFFICES ASSUME NEW s \in Servers, srv[s] \in {"spawned", "owner"} PROVE Launching(s)'
    BY DEF ChildInv
  <2>1. CASE s \in Orphans \/ commandLock = s
    BY <2>1, <1>5 DEF Launching
  <2>2. ASSUME NEW d \in Commands, child[d] = s, at[d] \in Polling, kind[d] # "status"
        PROVE  Launching(s)'
    BY <2>2, <1>1, <1>3 DEF Launching, Polling
  <2> QED BY <2>1, <2>2 DEF IInv, ChildInv, Launching
<1>9. InstallInv'
  BY <1>1, <1>3, <1>5 DEF IInv, InstallInv, Installing
<1>10. PipInv'
  BY <1>3 DEF IInv, TypeOK, PipInv
<1> QED BY <1>2, <1>6, <1>7, <1>8, <1>9, <1>10 DEF IInv

LEMMA InvTakeCommandLock == ASSUME IInv, NEW c \in Commands, TakeCommandLock(c) PROVE IInv'
<1> USE NoneAssumption DEF TakeCommandLock, Locked
<1>1. kind[c] # "status"
  BY DEF IInv, LockInv
<1>2. FirstSteps(c) \subseteq LockedSteps \ Installing
  BY DEF FirstSteps, Prepare, LockedSteps, Installing
<1>3. CASE commandLock = None
  <2>1. PICK step \in FirstSteps(c) : at' = [at EXCEPT ![c] = step]
    BY <1>3 DEF Go
  <2>2. step \in LockedSteps /\ step \notin Installing
    BY <1>2, <2>1
  <2>3. TypeOK'
    BY <1>3, <2>1, <2>2 DEF IInv, TypeOK, Steps
  <2>4. Move(c, step)
    BY <1>1, <1>3, <2>1, <2>2
       DEF Move, Held, IInv, TypeOK, Outcomes, Steps, LockedSteps, Polling, Installing
  <2> QED BY <2>3, <2>4, MoveKeepsInv
<1>4. CASE commandLock # None
  <2> USE <1>4 DEF Conclude, Go
  <2>1. TypeOK'
    BY DEF IInv, TypeOK, Outcomes, Without
  <2>2. Move(c, "failed")
    BY DEF Move, Held, IInv, TypeOK, Outcomes, Steps, LockedSteps, Polling, Installing, Without
  <2> QED BY <2>1, <2>2, MoveKeepsInv
<1> QED BY <1>3, <1>4

LEMMA InvProbe == ASSUME IInv, NEW c \in Commands, Probe(c) PROVE IInv'
<1> USE NoneAssumption DEF Probe
<1>1. TypeOK'
  BY DEF IInv, TypeOK
<1>2. \A s \in Servers : instanceLock' = s <=> instanceLock = s
  BY DEF IInv, InstanceInv
<1>3. Orphans' = Orphans
  BY OrphansKept
<1>4. Alive' = Alive
  BY DEF Alive
<1>5. LockInv'
  BY DEF IInv, LockInv, Holding
<1>6. ChildInv'
  BY <1>3 DEF IInv, ChildInv, Launching
<1>7. RecordInv' /\ InstallInv' /\ InstanceInv' /\ PipInv'
  BY <1>2, <1>3, <1>4 DEF IInv, RecordInv, InstallInv, InstanceInv, PipInv
<1> QED BY <1>1, <1>5, <1>6, <1>7 DEF IInv

\* Where running() = FALSE leads, and what it keeps.
LEMMA StoppedStep ==
    ASSUME IInv, NEW c \in Commands, at[c] \in ProbeSteps
    PROVE  /\ IfStopped(c) \in (Steps \cup Outcomes) \ {"idle", "lock"}
           /\ IfStopped(c) \notin GaveUp
           /\ IfStopped(c) \in Outcomes \/ (Held(c, IfStopped(c)) <=> Held(c, at[c]))
           /\ kind[c] = "status" => IfStopped(c) \notin LockedSteps
           /\ Held(c, at[c]) /\ at[c] \in Polling => IfStopped(c) \in Polling
<1>1. at[c] \in LockedSteps => kind[c] # "status"
  BY DEF IInv, LockInv
<1> USE <1>1 DEF IfStopped, Held, Steps, Outcomes, LockedSteps, Polling, GaveUp, AfterStop, Restarts
<1>2. CASE at[c] = "launch?"
  BY <1>2
<1>3. CASE at[c] \in {"status?", "status again?"}
  BY <1>3
<1>4. CASE at[c] \in {"stop?", "exit?"}
  BY <1>4
<1>5. CASE at[c] \in {"stop again?", "prepare?", "halt?"}
  BY <1>5
<1> QED BY <1>2, <1>3, <1>4, <1>5 DEF ProbeSteps

LEMMA InvNotRunning == ASSUME IInv, NEW c \in Commands, NotRunning(c) PROVE IInv'
<1> USE NoneAssumption DEF NotRunning
<1> DEFINE step == IfStopped(c)
<1> HIDE DEF step
<1>1. /\ step \in (Steps \cup Outcomes) \ {"idle", "lock"}
      /\ step \in Outcomes \/ (Held(c, step) <=> Held(c, at[c]))
      /\ kind[c] = "status" => step \notin LockedSteps
      /\ Held(c, at[c]) /\ at[c] \in Polling => step \in Polling
  BY StoppedStep DEF step
<1>2. at[c] \notin Outcomes \cup {"idle", "installing"}
  BY DEF ProbeSteps, Outcomes
<1>3. /\ at' = [at EXCEPT ![c] = step]
      /\ UNCHANGED <<record, replacing, kind, child, srv>>
      /\ IF step \in Outcomes THEN commandLock' = Without(commandLock, c) ELSE UNCHANGED commandLock
      /\ {instanceLock, instanceLock'} \subseteq {c, None}
  BY DEF step, Conclude, Go, Without
<1>4. TypeOK'
  BY <1>1, <1>3 DEF IInv, TypeOK, Without
<1>5. Move(c, step)
  BY <1>1, <1>2, <1>3 DEF Move
<1> QED BY <1>4, <1>5, MoveKeepsInv

LEMMA InvIsRunning == ASSUME IInv, NEW c \in Commands, IsRunning(c) PROVE IInv'
<1> USE NoneAssumption DEF IsRunning
<1>1. PICK step \in IfRunning(c) :
        IF step \in Outcomes THEN Conclude(c, step) ELSE Go(c, step) /\ UNCHANGED files
  OBVIOUS
<1>2. at[c] \in LockedSteps => kind[c] # "status"
  BY DEF IInv, LockInv
<1>3. /\ step \in (Steps \cup Outcomes) \ ({"idle", "lock"} \cup Installing)
      /\ step \in Outcomes \/ (Held(c, step) <=> Held(c, at[c]))
      /\ kind[c] = "status" => step \notin LockedSteps
      /\ Held(c, at[c]) /\ at[c] \in Polling => step \in Polling
  <2> USE <1>1, <1>2 DEF IfRunning, Held, Steps, Outcomes, LockedSteps, Polling, Installing
  <2>1. CASE at[c] = "launch?"
    BY <2>1
  <2>2. CASE at[c] \in {"status?", "status again?"}
    BY <2>2
  <2>3. CASE at[c] \in {"stop?", "stop again?", "exit?"}
    BY <2>3
  <2>4. CASE at[c] \in {"prepare?", "halt?"}
    BY <2>4
  <2> QED BY <2>1, <2>2, <2>3, <2>4 DEF ProbeSteps
<1>4. at[c] \notin Outcomes \cup {"idle", "installing"}
  BY DEF ProbeSteps, Outcomes
<1>5. /\ at' = [at EXCEPT ![c] = step]
      /\ UNCHANGED <<record, replacing, kind, child, srv, instanceLock>>
      /\ IF step \in Outcomes THEN commandLock' = Without(commandLock, c) ELSE UNCHANGED commandLock
  BY <1>1 DEF Conclude, Go, Without
<1>6. TypeOK'
  BY <1>3, <1>5 DEF IInv, TypeOK, Without
<1>7. Move(c, step)
  BY <1>3, <1>4, <1>5 DEF Move
<1> QED BY <1>6, <1>7, MoveKeepsInv

LEMMA InvReadState == ASSUME IInv, NEW c \in Commands, ReadState(c) PROVE IInv'
<1> USE NoneAssumption DEF ReadState, Go, Without
<1>1. TypeOK'
  BY DEF IInv, TypeOK, Steps, Outcomes, LockedSteps
<1>2. Move(c, at'[c])
  BY DEF Move, Held, IInv, TypeOK, LockInv, Steps, Outcomes, LockedSteps, Polling, GaveUp, Installing
<1> QED BY <1>1, <1>2, MoveKeepsInv

LEMMA InvAskStatus == ASSUME IInv, NEW c \in Commands, AskStatus(c) PROVE IInv'
<1> USE NoneAssumption DEF AskStatus, Conclude, Go
<1>1. TypeOK'
  BY DEF IInv, TypeOK, Without, Steps, Outcomes, LockedSteps
<1>2. CASE at'[c] = "ready"
  <2>1. \/ kind[c] = "status"
        \/ srv[child[c]] = "active"
    BY <1>2 DEF ReadyOfChild, IInv, TypeOK
  <2>2. Move(c, "ready")
    BY <1>2, <2>1 DEF Move, Held, Without, IInv, TypeOK, Outcomes, Steps, LockedSteps, Polling,
       Installing
  <2> QED BY <1>1, <2>2, MoveKeepsInv
<1>3. CASE at'[c] # "ready"
  <2>1. Move(c, at'[c])
    BY <1>3 DEF Move, Held, Without, IInv, TypeOK, Outcomes, Steps, LockedSteps, Polling,
       Installing
  <2> QED BY <1>1, <2>1, MoveKeepsInv
<1> QED BY <1>2, <1>3

LEMMA InvAskStop == ASSUME IInv, NEW c \in Commands, AskStop(c) PROVE IInv'
<1> USE NoneAssumption DEF AskStop
<1>1. at' = [at EXCEPT ![c] = at'[c]] /\ at'[c] \in {"exit?", "failed"}
  BY DEF Conclude, Go, IInv, TypeOK
<1>2. \/ srv' = srv /\ victim' = victim
      \/ /\ seen[c] \in Servers /\ srv[seen[c]] = "active"
         /\ srv' = [srv EXCEPT ![seen[c]] = "closing"]
         /\ victim' = [victim EXCEPT ![c] = seen[c]] \/ victim' = victim
  BY DEF Answering
<1>3. /\ UNCHANGED <<record, replacing, kind, child, seen, saved, conf>>
      /\ instanceLock' \in {instanceLock, Without(instanceLock, c)}
      /\ IF at'[c] = "failed" THEN commandLock' = Without(commandLock, c) ELSE UNCHANGED commandLock
  BY DEF Conclude, Go, IInv, TypeOK
<1>4. TypeOK'
  <2>1. at' \in [Commands -> Steps \cup Outcomes]
    BY <1>1 DEF IInv, TypeOK, Steps, Outcomes, LockedSteps
  <2>2. srv' \in [Servers -> Process \cup {"none", "gone"}] /\ victim' \in [Commands -> Servers \cup {None}]
    BY <1>2 DEF IInv, TypeOK, Process
  <2> QED BY <1>3, <2>1, <2>2 DEF IInv, TypeOK, Without
<1>5. \A s \in Servers : srv'[s] = srv[s] \/ (srv[s] = "active" /\ srv'[s] = "closing")
  BY <1>2 DEF IInv, TypeOK
<1>6. kind[c] # "status"
  BY DEF IInv, LockInv, LockedSteps
<1>7. Move(c, at'[c])
  BY <1>1, <1>3, <1>5, <1>6 DEF Move, Held, Without, Outcomes, Steps, LockedSteps, Polling, Installing
<1> QED BY <1>4, <1>7, MoveKeepsInv

LEMMA InvRemember == ASSUME IInv, NEW c \in Commands, Remember(c) PROVE IInv'
<1> USE NoneAssumption DEF Remember, Go, Without
<1>1. TypeOK'
  BY DEF IInv, TypeOK, Steps, Outcomes, LockedSteps
<1>2. Move(c, at'[c])
  BY DEF Move, Held, IInv, TypeOK, LockInv, Steps, Outcomes, LockedSteps, Polling, GaveUp, Installing
<1> QED BY <1>1, <1>2, MoveKeepsInv

LEMMA InvSpawn == ASSUME IInv, NEW c \in Commands, Spawn(c) PROVE IInv'
<1> USE NoneAssumption DEF Spawn
<1>1. ASSUME NEW s \in Servers, srv[s] = "none", srv' = [srv EXCEPT ![s] = "spawned"],
             child' = [child EXCEPT ![c] = s], Go(c, "poll"), UNCHANGED files,
             conf' = [conf EXCEPT ![s] = Configuration(c, s)]
      PROVE  IInv'
  <2> USE <1>1 DEF Go
  <2>1. TypeOK'
    BY DEF IInv, TypeOK, Configuration, Steps, LockedSteps, Process
  <2>2. /\ at'[c] = "poll" /\ at[c] = "spawn" /\ kind[c] # "status" /\ kind' = kind
        /\ child'[c] = s /\ srv'[s] = "spawned"
        /\ \A d \in Commands \ {c} : at'[d] = at[d] /\ child'[d] = child[d]
        /\ \A t \in Servers \ {s} : srv'[t] = srv[t]
    BY DEF IInv, TypeOK, LockInv, LockedSteps
  <2>3. /\ \A d \in Commands \ {c} : Holding(d)' <=> Holding(d)
        /\ Holding(c)' /\ Holding(c)
    BY <2>2 DEF Holding, LockedSteps
  <2>4. Orphans' = Orphans /\ Alive' = Alive
    <3>1. \A d \in Commands : at[d] \in {"not ready", "killed"} => child'[d] = child[d]
      BY <2>2
    <3>2. \A d \in Commands : at'[d] \in {"not ready", "killed"} <=> at[d] \in {"not ready", "killed"}
      BY <2>2
    <3>3. s \notin Alive /\ s \notin Alive'
      BY <2>2 DEF Alive, Process
    <3>4. Orphans' = Orphans
      BY <3>1, <3>2, OrphansKept
    <3>5. Alive' = Alive
      BY <2>2, <3>3 DEF Alive
    <3> QED BY <3>4, <3>5
  <2>5. LockInv'
    <3>1. \A d \in Commands : (commandLock = d <=> Holding(d))'
      BY <2>3 DEF IInv, LockInv
    <3>2. \A d \in Commands : (/\ at[d] \in LockedSteps \cup {"lock"} => kind[d] # "status"
                               /\ at[d] = "idle" <=> kind[d] = "none")'
      BY <2>2 DEF IInv, LockInv
    <3>3. \A t \in Servers : (/\ commandLock = t => srv[t] \in {"foreground", "owner"}
                              /\ srv[t] = "foreground" => commandLock = t)'
      BY <2>2 DEF IInv, LockInv
    <3> QED BY <3>1, <3>2, <3>3 DEF LockInv
  <2>6. InstanceInv' /\ RecordInv'
    BY <2>2, <2>4 DEF IInv, TypeOK, InstanceInv, RecordInv
  <2>7. ChildInv'
    <3>1. Launching(s)'
      BY <2>2 DEF Launching, Polling
    <3>2. ASSUME NEW t \in Servers \ {s}, srv[t] \in {"spawned", "owner"} PROVE Launching(t)'
      <4>1. CASE t \in Orphans \/ commandLock = t
        BY <4>1, <2>4 DEF Launching
      <4>2. ASSUME NEW d \in Commands, child[d] = t, at[d] \in Polling, kind[d] # "status"
            PROVE  Launching(t)'
        BY <4>2, <2>2 DEF Launching, Polling
      <4> QED BY <3>2, <4>1, <4>2 DEF IInv, ChildInv, Launching
    <3> QED BY <2>2, <3>1, <3>2 DEF ChildInv
  <2>8. InstallInv'
    BY <2>2, <2>4 DEF IInv, InstallInv, Installing
  <2>9. PipInv'
    BY <2>2 DEF IInv, TypeOK, PipInv
  <2> QED BY <2>1, <2>5, <2>6, <2>7, <2>8, <2>9 DEF IInv
<1>2. CASE Conclude(c, "failed") /\ UNCHANGED <<srv, child, conf>>
  <2> USE <1>2 DEF Conclude, Go
  <2>1. TypeOK'
    BY DEF IInv, TypeOK, Without, Outcomes
  <2>2. Move(c, "failed")
    BY DEF Move, Held, Without, Outcomes, Steps, LockedSteps, Polling, Installing
  <2> QED BY <2>1, <2>2, MoveKeepsInv
<1> QED BY <1>1, <1>2

LEMMA InvPoll == ASSUME IInv, NEW c \in Commands, Poll(c) PROVE IInv'
<1> USE NoneAssumption DEF Poll, Conclude, Go, Without
<1>1. TypeOK'
  BY DEF IInv, TypeOK, Steps, Outcomes, LockedSteps
<1>2. Move(c, at'[c])
  BY DEF Move, Held, IInv, TypeOK, LockInv, Steps, Outcomes, LockedSteps, Polling, GaveUp, Installing
<1> QED BY <1>1, <1>2, MoveKeepsInv

LEMMA InvDownload == ASSUME IInv, NEW c \in Commands, Download(c) PROVE IInv'
<1> USE NoneAssumption DEF Download, Conclude, Go, Without
<1>1. TypeOK'
  <2>1. at' \in [Commands -> Steps \cup Outcomes]
    BY DEF IInv, TypeOK, Steps, Outcomes, LockedSteps
  <2> QED BY <2>1 DEF IInv, TypeOK
<1>2. Move(c, at'[c])
  BY DEF Move, Held, IInv, TypeOK, LockInv, Steps, Outcomes, LockedSteps, Polling, GaveUp, Installing
<1> QED BY <1>1, <1>2, MoveKeepsInv

LEMMA InvInstall == ASSUME IInv, NEW c \in Commands, Install(c) PROVE IInv'
<1> USE NoneAssumption DEF Install, Conclude, Go, Without
<1>1. TypeOK'
  BY DEF IInv, TypeOK, Steps, Outcomes, LockedSteps
<1>2. Move(c, at'[c])
  BY DEF Move, Held, IInv, TypeOK, LockInv, Steps, Outcomes, LockedSteps, Polling, GaveUp, Installing
<1> QED BY <1>1, <1>2, MoveKeepsInv

LEMMA InvInstalled == ASSUME IInv, NEW c \in Commands, Installed(c) PROVE IInv'
<1> USE NoneAssumption DEF Installed, Conclude, Go, Without
<1>1. TypeOK'
  BY DEF IInv, TypeOK, Steps, Outcomes, LockedSteps
<1>2. Move(c, at'[c])
  BY DEF Move, Held, IInv, TypeOK, LockInv, Steps, Outcomes, LockedSteps, Polling, GaveUp, Installing
<1> QED BY <1>1, <1>2, MoveKeepsInv

LEMMA InvVerify == ASSUME IInv, NEW c \in Commands, Verify(c) PROVE IInv'
<1> USE NoneAssumption DEF Verify, Conclude, Go, Without
<1>1. TypeOK'
  <2>1. at' \in [Commands -> Steps \cup Outcomes]
    BY DEF IInv, TypeOK, Steps, Outcomes, LockedSteps
  <2> QED BY <2>1 DEF IInv, TypeOK
<1>2. Move(c, at'[c])
  BY DEF Move, Held, IInv, TypeOK, LockInv, Steps, Outcomes, LockedSteps, Polling, GaveUp, Installing
<1> QED BY <1>1, <1>2, MoveKeepsInv

LEMMA InvSchedule == ASSUME IInv, NEW c \in Commands, Schedule(c) PROVE IInv'
<1> USE NoneAssumption DEF Schedule
<1>1. PICK w \in Commands :
        /\ at[w] = "idle" /\ kind[w] = "none" /\ w # c
        /\ kind' = [kind EXCEPT ![w] = "worker"]
        /\ child' = [child EXCEPT ![c] = w]
        /\ at' = [at EXCEPT ![c] = "await worker", ![w] = "lock"]
  OBVIOUS
<1>2. TypeOK'
  BY <1>1 DEF IInv, TypeOK, Steps, Kinds
<1>3. /\ at[c] = "schedule" /\ at'[c] = "await worker" /\ at'[w] = "lock" /\ kind'[w] = "worker"
      /\ kind'[c] = kind[c] /\ kind[c] # "none"
      /\ \A d \in Commands \ {c} : child'[d] = child[d]
      /\ \A d \in Commands \ {c, w} : at'[d] = at[d] /\ kind'[d] = kind[d]
  BY <1>1 DEF IInv, TypeOK, LockInv
<1>4. /\ \A d \in Commands \ {c, w} : Holding(d)' <=> Holding(d)
      /\ ~Holding(c) /\ ~Holding(w) /\ ~Holding(c)' /\ ~Holding(w)'
  BY <1>1, <1>3 DEF Holding, LockedSteps, Polling
<1>5. Orphans' = Orphans /\ Alive' = Alive
  <2>1. \A d \in Commands : /\ at'[d] \in {"not ready", "killed"} <=> at[d] \in {"not ready", "killed"}
                            /\ at[d] \in {"not ready", "killed"} => child'[d] = child[d]
    BY <1>1, <1>3
  <2>2. Orphans' = Orphans
    BY <2>1, OrphansKept
  <2>3. Alive' = Alive
    BY DEF Alive
  <2> QED BY <2>2, <2>3
<1>6. LockInv'
  <2>1. \A d \in Commands : (commandLock = d <=> Holding(d))'
    BY <1>4 DEF IInv, LockInv
  <2>2. \A d \in Commands : (/\ at[d] \in LockedSteps \cup {"lock"} => kind[d] # "status"
                             /\ at[d] = "idle" <=> kind[d] = "none")'
    <3> SUFFICES ASSUME NEW d \in Commands
                 PROVE  /\ at'[d] \in LockedSteps \cup {"lock"} => kind'[d] # "status"
                        /\ at'[d] = "idle" <=> kind'[d] = "none"
      OBVIOUS
    <3>1. CASE d = c
      BY <3>1, <1>3 DEF LockedSteps
    <3>2. CASE d = w
      BY <3>2, <1>3
    <3>3. CASE d \notin {c, w}
      <4>1. at'[d] = at[d] /\ kind'[d] = kind[d]
        BY <3>3, <1>3
      <4> QED BY <4>1 DEF IInv, LockInv
    <3> QED BY <3>1, <3>2, <3>3
  <2> QED BY <2>1, <2>2 DEF IInv, LockInv
<1>7. InstanceInv' /\ RecordInv'
  BY <1>5 DEF IInv, InstanceInv, RecordInv
<1>8. ChildInv'
  <2> SUFFICES ASSUME NEW s \in Servers, srv[s] \in {"spawned", "owner"} PROVE Launching(s)'
    BY DEF ChildInv
  <2>1. CASE s \in Orphans \/ commandLock = s
    BY <2>1, <1>5 DEF Launching
  <2>2. ASSUME NEW d \in Commands, child[d] = s, at[d] \in Polling, kind[d] # "status"
        PROVE  Launching(s)'
    <3>1. d \notin {c, w}
      BY <2>2, <1>1, <1>3 DEF Polling
    <3> QED BY <2>2, <3>1, <1>3 DEF Launching
  <2> QED BY <2>1, <2>2 DEF IInv, ChildInv, Launching
<1>9. InstallInv'
  <2>1. \A d \in Commands : at'[d] \in Installing => at[d] \in Installing
    BY <1>1, <1>3 DEF Installing
  <2> QED BY <2>1, <1>5 DEF IInv, InstallInv
<1>10. PipInv'
  BY <1>1, <1>3 DEF IInv, TypeOK, PipInv
<1> QED BY <1>2, <1>6, <1>7, <1>8, <1>9, <1>10 DEF IInv

LEMMA InvAwaitWorker == ASSUME IInv, NEW c \in Commands, AwaitWorker(c) PROVE IInv'
<1> USE NoneAssumption DEF AwaitWorker, Conclude, Ended, Go, Without
<1>1. TypeOK'
  BY DEF IInv, TypeOK, Steps, Outcomes, LockedSteps
<1>2. Move(c, at'[c])
  BY DEF Move, Held, IInv, TypeOK, LockInv, Steps, Outcomes, LockedSteps, Polling, GaveUp, Installing
<1> QED BY <1>1, <1>2, MoveKeepsInv

LEMMA InvAwaitParent == ASSUME IInv, NEW c \in Commands, AwaitParent(c) PROVE IInv'
<1> USE NoneAssumption DEF AwaitParent, Conclude, Prepare, Ended, Go, Without
<1>1. TypeOK'
  BY DEF IInv, TypeOK, Steps, Outcomes, LockedSteps
<1>2. Move(c, at'[c])
  BY DEF Move, Held, IInv, TypeOK, LockInv, Steps, Outcomes, LockedSteps, Polling, GaveUp, Installing
<1> QED BY <1>1, <1>2, MoveKeepsInv

LEMMA InvKill == ASSUME IInv, NEW c \in Commands, Kill(c) PROVE IInv'
<1> USE NoneAssumption DEF Kill, Conclude, Ended, Go, Without
<1>1. TypeOK'
  BY DEF IInv, TypeOK, Steps, Outcomes, LockedSteps
<1>2. Move(c, at'[c])
  BY DEF Move, Held, IInv, TypeOK, LockInv, Steps, Outcomes, LockedSteps, Polling, GaveUp, Installing
<1> QED BY <1>1, <1>2, MoveKeepsInv

LEMMA InvPipEnds == ASSUME IInv, NEW c \in Commands, PipEnds(c) PROVE IInv'
<1> USE DEF PipEnds
<1>1. TypeOK' /\ LockInv' /\ InstanceInv' /\ RecordInv' /\ PipInv'
  BY DEF IInv, TypeOK, LockInv, Holding, InstanceInv, Alive, RecordInv, PipInv
<1>2. Orphans' = Orphans
  BY OrphansKept
<1>3. Alive' = Alive
  BY DEF Alive
<1>4. ChildInv' /\ InstallInv'
  BY <1>2, <1>3 DEF IInv, ChildInv, Launching, InstallInv
<1> QED BY <1>1, <1>4 DEF IInv

LEMMA InvOwn == ASSUME IInv, NEW s \in Servers, Own(s) PROVE IInv'
<1> USE NoneAssumption DEF Own, LockKept, Become, Without
<1>1. TypeOK'
  BY DEF IInv, TypeOK, Process
<1>2. Turn(s, srv'[s])
  BY DEF Turn, IInv, TypeOK, LockInv, InstanceInv, Alive, Process, SinceSetup
<1> QED BY <1>1, <1>2, TurnKeepsInv

LEMMA InvOpenControl == ASSUME IInv, NEW s \in Servers, OpenControl(s) PROVE IInv'
<1> USE NoneAssumption DEF OpenControl, RecordOf, Become, Without
<1>1. TypeOK'
  BY DEF IInv, TypeOK, Process
<1>2. Turn(s, srv'[s])
  BY DEF Turn, IInv, TypeOK, LockInv, InstanceInv, Alive, Process, SinceSetup
<1> QED BY <1>1, <1>2, TurnKeepsInv

LEMMA InvOpen == ASSUME IInv, NEW s \in Servers, Open(s) PROVE IInv'
<1> USE NoneAssumption DEF Open, Become, Without
<1>1. TypeOK'
  BY DEF IInv, TypeOK, Process
<1>2. Turn(s, srv'[s])
  BY DEF Turn, IInv, TypeOK, LockInv, InstanceInv, Alive, Process, SinceSetup
<1> QED BY <1>1, <1>2, TurnKeepsInv

LEMMA InvLeave == ASSUME IInv, NEW s \in Servers, Leave(s) PROVE IInv'
<1> USE NoneAssumption DEF Leave, Become, Without
<1>1. TypeOK'
  BY DEF IInv, TypeOK, Process
<1>2. Turn(s, srv'[s])
  BY DEF Turn, IInv, TypeOK, LockInv, InstanceInv, Alive, Process, SinceSetup
<1> QED BY <1>1, <1>2, TurnKeepsInv

LEMMA InvCleanUp == ASSUME IInv, NEW s \in Servers, CleanUp(s) PROVE IInv'
<1> USE NoneAssumption DEF CleanUp, Become, Without
<1>1. TypeOK'
  BY DEF IInv, TypeOK, Process
<1>2. Turn(s, srv'[s])
  BY DEF Turn, IInv, TypeOK, LockInv, InstanceInv, Alive, Process, SinceSetup
<1> QED BY <1>1, <1>2, TurnKeepsInv

LEMMA InvExit == ASSUME IInv, NEW s \in Servers, Exit(s) PROVE IInv'
<1> USE NoneAssumption DEF Exit, Become, Without
<1>1. TypeOK'
  BY DEF IInv, TypeOK, Process
<1>2. Turn(s, srv'[s])
  BY DEF Turn, IInv, TypeOK, LockInv, InstanceInv, Alive, Process, SinceSetup
<1> QED BY <1>1, <1>2, TurnKeepsInv

LEMMA InvForeground == ASSUME IInv, NEW s \in Servers, Foreground(s) PROVE IInv'
<1> USE NoneAssumption DEF Foreground, Become, Without
<1>1. TypeOK'
  BY DEF IInv, TypeOK, Process
<1>2. Turn(s, srv'[s])
  BY DEF Turn, IInv, TypeOK, LockInv, InstanceInv, Alive, Process, SinceSetup
<1> QED BY <1>1, <1>2, TurnKeepsInv

LEMMA InvInit == ASSUME Init PROVE IInv
BY NoneAssumption DEF Init, IInv, TypeOK, LockInv, Holding, InstanceInv, Alive, ChildInv,
   Launching, Orphans, RecordInv, InstallInv, PipInv, Restarts, Steps, LockedSteps, Polling, Installing, Kinds,
   Process

LEMMA InvStutter == ASSUME IInv, UNCHANGED vars PROVE IInv'
<1> USE DEF vars
<1>1. TypeOK' /\ InstanceInv' /\ RecordInv' /\ PipInv'
  BY DEF IInv, TypeOK, InstanceInv, Alive, RecordInv, PipInv
<1>2. LockInv'
  BY DEF IInv, LockInv, Holding
<1>3. Orphans' = Orphans
  BY OrphansKept
<1>4. Alive' = Alive
  BY DEF Alive
<1>5. ChildInv'
  BY <1>3 DEF IInv, ChildInv, Launching
<1>6. InstallInv'
  BY <1>3, <1>4 DEF IInv, InstallInv
<1> QED BY <1>1, <1>2, <1>5, <1>6 DEF IInv

LEMMA InvNext == ASSUME IInv, [Next]_vars PROVE IInv'
<1>1. ASSUME NEW c \in Commands,
             CommandStep(c) \/ Kill(c) \/ PipEnds(c) \/ \E k \in Kinds : Begin(c, k)
      PROVE  IInv'
  BY <1>1, InvBegin, InvTakeCommandLock, InvProbe, InvNotRunning, InvIsRunning, InvReadState,
     InvAskStatus, InvAskStop, InvRemember, InvSpawn, InvPoll, InvDownload, InvInstall,
     InvInstalled, InvVerify, InvSchedule, InvAwaitWorker, InvAwaitParent, InvKill, InvPipEnds
     DEF CommandStep
<1>2. ASSUME NEW s \in Servers, ServerStep(s) \/ Foreground(s) PROVE IInv'
  BY <1>2, InvOwn, InvOpenControl, InvOpen, InvLeave, InvCleanUp, InvExit, InvForeground DEF
     ServerStep
<1> QED BY <1>1, <1>2, InvStutter DEF Next

LEMMA Invariance == Spec => []IInv
BY InvInit, InvNext, PTL DEF Spec

\* Every variable keeps its type.
THEOREM TypeCorrect == Spec => []TypeOK
BY Invariance, PTL DEF IInv

\* Installations do not overlap each other or a server that is alive, but for
\* servers given up by the command that launched them and pip processes of
\* updates that were killed.
THEOREM UpdatesInstallAlone == Spec => []InstallsAlone
<1>1. IInv => InstallsAlone
  <2> SUFFICES ASSUME IInv, NEW c \in Commands, at[c] \in Installing
               PROVE  /\ Alive \subseteq Orphans
                      /\ \A d \in Commands \ {c} :
                           at[d] \notin Installing /\ (d \in replacing => at[d] = "killed")
    BY DEF InstallsAlone
  <2>1. \A d \in Commands : at[d] \in Installing => commandLock = d
    BY DEF IInv, LockInv, Holding, Installing, LockedSteps
  <2>2. \A d \in Commands \ {c} : at[d] \notin Installing
    BY <2>1
  <2> QED BY <2>2 DEF IInv, InstallInv, PipInv, Installing
<1> QED BY <1>1, Invariance, PTL

\* A server that serves is the one whose state and port the commands read.
THEOREM ServingIsReachable == Spec => []ReachableWhileServing
<1>1. IInv => ReachableWhileServing
  BY DEF IInv, InstanceInv, Alive, RecordInv, ReachableWhileServing, Process
<1> QED BY <1>1, Invariance, PTL

\* Only the answer of a status request reports readiness; the other steps of a
\* command, and those of the servers, report something else or nothing.
LEMMA ReadyByAnswer ==
    ASSUME IInv, Next, NEW c \in Commands, at[c] # "ready", at'[c] = "ready"
    PROVE  AskStatus(c)
<1> USE DEF Go, Conclude, IInv, TypeOK
<1>1. ASSUME NEW d \in Commands, CommandStep(d), ~AskStatus(d) PROVE FALSE
  <2>1. CASE TakeCommandLock(d)
    BY <2>1 DEF TakeCommandLock, FirstSteps, Prepare
  <2>2. CASE Probe(d) \/ ReadState(d) \/ Remember(d)
    BY <2>2 DEF Probe, ReadState, Remember
  <2>3. CASE NotRunning(d)
    BY <2>3 DEF NotRunning, IfStopped, AfterStop, ProbeSteps
  <2>4. CASE IsRunning(d)
    BY <2>4 DEF IsRunning, IfRunning, ProbeSteps
  <2>5. CASE AskStop(d)
    BY <2>5 DEF AskStop
  <2>6. CASE Spawn(d) \/ Poll(d)
    BY <2>6 DEF Spawn, Poll
  <2>7. CASE Download(d) \/ Install(d) \/ Installed(d) \/ Verify(d)
    BY <2>7 DEF Download, Install, Installed, Verify
  <2>8. CASE Schedule(d)
    BY <2>8 DEF Schedule
  <2>9. CASE AwaitWorker(d) \/ AwaitParent(d)
    BY <2>9 DEF AwaitWorker, AwaitParent, Prepare
  <2> QED BY <1>1, <2>1, <2>2, <2>3, <2>4, <2>5, <2>6, <2>7, <2>8, <2>9 DEF CommandStep
<1>2. ASSUME NEW d \in Commands, Kill(d) \/ PipEnds(d) \/ \E k \in Kinds : Begin(d, k)
      PROVE  FALSE
  BY <1>2 DEF Kill, PipEnds, Begin
<1>3. ASSUME NEW s \in Servers, ServerStep(s) \/ Foreground(s) PROVE FALSE
  BY <1>3 DEF ServerStep, Own, OpenControl, Open, Leave, CleanUp, Exit, Foreground
<1>4. ASSUME NEW d \in Commands, AskStatus(d) PROVE d = c
  BY <1>4 DEF AskStatus
<1> QED BY <1>1, <1>2, <1>3, <1>4 DEF Next

\* A launch that reports readiness reports that of the server it has launched,
\* which serves at that moment.
THEOREM ReadinessIsOwn == Spec => ReadyIsOwn
<1>1. ASSUME IInv, [Next]_vars, NEW c \in Commands, kind[c] \in {"start"} \cup Restarts,
             at[c] # "ready", at'[c] = "ready"
      PROVE  srv[child[c]] = "active"
  <2>1. Next
    BY <1>1 DEF vars
  <2>2. AskStatus(c)
    BY <1>1, <2>1, ReadyByAnswer
  <2>3. ~(Go(c, "poll"))
    BY <1>1 DEF Go, IInv, TypeOK
  <2>4. srv[seen[c]] = "active" /\ seen[c] = child[c]
    BY <1>1, <2>2, <2>3 DEF AskStatus, ReadyOfChild, Restarts
  <2> QED BY <2>4
<1>2. IInv /\ [Next]_vars =>
        [\A c \in Commands :
           kind[c] \in {"start"} \cup Restarts /\ at[c] # "ready" /\ at'[c] = "ready" =>
             srv[child[c]] = "active"]_vars
  BY <1>1
<1> QED BY <1>2, Invariance, PTL DEF Spec, ReadyIsOwn

-----------------------------------------------------------------------------
(* A restart.  From the moment it has read the state to its launch it has    *)
(* the command lock, and a server that writes its state meanwhile was given  *)
(* up; hence another one that accepts the stop is the one it has read.       *)

ToStop == {"stop?", "stop read", "stop again?", "stop ask"}
ToLaunch == ToStop \cup {"exit?", "launch?", "spawn"}

Restarting(c) ==
    /\ at[c] \in {"lock", "remember"} \cup ToLaunch \cup Polling \cup Outcomes
    /\ at[c] \in {"lock", "remember"} \cup ToLaunch => child[c] = None
    /\ at[c] \in {"lock", "remember"} \cup ToStop => victim[c] = None
    /\ child[c] # None => child[c] \in Servers /\ srv[child[c]] # "none"
    /\ at[c] \in ToStop =>
         \A s \in Servers \ Orphans : srv[s] \in SinceSetup => saved[c] = s
    /\ at[c] \in ToLaunch /\ victim[c] \notin {None} \cup Orphans => saved[c] = victim[c]
    /\ child[c] # None /\ victim[c] \notin {None} \cup Orphans => conf[child[c]] = conf[victim[c]]

RestartOf(c) ==
    /\ victim[c] # None => srv[victim[c]] # "none"
    /\ kind[c] = "none" => child[c] = None /\ victim[c] = None
    /\ kind[c] = "restart" => Restarting(c)
RestartInv == \A c \in Commands : RestartOf(c)

\* What others do to a restart: they leave what it knows alone, start servers,
\* and give servers up.
Others(c) ==
    /\ at'[c] = at[c] /\ kind'[c] = kind[c] /\ child'[c] = child[c]
    /\ saved'[c] = saved[c] /\ victim'[c] = victim[c]

Meanwhile ==
    /\ \A s \in Servers : srv[s] # "none" => srv'[s] # "none" /\ conf'[s] = conf[s]
    /\ Orphans \subseteq Orphans'

\* Nobody begins to serve but a server that was given up.
NobodyComes ==
    \A s \in Servers : srv'[s] \in SinceSetup => srv[s] \in SinceSetup \/ s \in Orphans

LEMMA OthersKeepRestart ==
    ASSUME TypeOK, NEW c \in Commands, RestartOf(c), Others(c), Meanwhile,
           kind[c] = "restart" /\ at[c] \in ToStop => NobodyComes
    PROVE  RestartOf(c)'
<1> USE NoneAssumption
<1>1. \A s \in Servers : srv[s] # "none" => srv'[s] # "none" /\ conf'[s] = conf[s]
  BY DEF Meanwhile
<1>2. /\ victim[c] # None => victim[c] \in Servers
      /\ victim[c] \notin {None} \cup Orphans' => victim[c] \notin {None} \cup Orphans
  BY DEF Meanwhile, TypeOK
<1>3. victim'[c] # None => srv'[victim'[c]] # "none"
  BY <1>1, <1>2 DEF Others, RestartOf
<1>4. kind'[c] = "none" => child'[c] = None /\ victim'[c] = None
  BY DEF Others, RestartOf
<1>5. ASSUME kind'[c] = "restart" PROVE Restarting(c)'
  <2>1. Restarting(c) /\ kind[c] = "restart"
    BY <1>5 DEF Others, RestartOf
  <2>2. /\ at'[c] \in {"lock", "remember"} \cup ToLaunch \cup Polling \cup Outcomes
        /\ at'[c] \in {"lock", "remember"} \cup ToLaunch => child'[c] = None
        /\ at'[c] \in {"lock", "remember"} \cup ToStop => victim'[c] = None
    BY <2>1 DEF Others, Restarting
  <2>3. child'[c] # None => child'[c] \in Servers /\ srv'[child'[c]] # "none"
    BY <2>1, <1>1 DEF Others, Restarting
  <2>4. ASSUME at'[c] \in ToStop, NEW s \in Servers \ Orphans', srv'[s] \in SinceSetup
        PROVE  saved'[c] = s
    BY <2>1, <2>4 DEF Others, Restarting, Meanwhile, NobodyComes
  <2>5. at'[c] \in ToLaunch /\ victim'[c] \notin {None} \cup Orphans' => saved'[c] = victim'[c]
    BY <2>1, <1>2 DEF Others, Restarting
  <2>6. child'[c] # None /\ victim'[c] \notin {None} \cup Orphans' =>
          conf'[child'[c]] = conf'[victim'[c]]
    <3>1. /\ child[c] # None => child[c] \in Servers /\ srv[child[c]] # "none"
          /\ victim[c] # None => srv[victim[c]] # "none"
          /\ child[c] # None /\ victim[c] \notin {None} \cup Orphans =>
               conf[child[c]] = conf[victim[c]]
      BY <2>1 DEF Restarting, RestartOf
    <3> QED BY <3>1, <1>1, <1>2 DEF Others
  <2> QED BY <2>2, <2>3, <2>4, <2>5, <2>6 DEF Restarting
<1> QED BY <1>3, <1>4, <1>5 DEF RestartOf

\* Whoever has given up stays so and keeps its child.
LEMMA OrphansGrow ==
    ASSUME \A d \in Commands : at[d] \in {"not ready", "killed"} =>
             at'[d] = at[d] /\ child'[d] = child[d]
    PROVE  Orphans \subseteq Orphans'
BY DEF Orphans

\* A step of command c that changes no more than its own place, and the locks.
LEMMA StepKeepsRestarts ==
    ASSUME IInv, RestartInv, NEW c \in Commands, at[c] \notin {"not ready", "killed"},
           at' = [at EXCEPT ![c] = at'[c]],
           UNCHANGED <<record, kind, child, saved, victim, conf>>,
           \A s \in Servers : srv[s] # "none" => srv'[s] # "none",
           \A s \in Servers : srv'[s] \in SinceSetup => srv[s] \in SinceSetup,
           kind[c] = "restart" =>
             \/ at'[c] \in Polling \cup Outcomes
             \/ at[c] = "lock" /\ at'[c] = "remember"
             \/ /\ at[c] \in ToLaunch /\ at'[c] \in ToLaunch
                /\ at'[c] \in ToStop => at[c] \in ToStop
    PROVE  RestartInv'
<1>0. /\ \A d \in Commands \ {c} : at'[d] = at[d]
      /\ TypeOK
  BY DEF IInv, TypeOK
<1>1. Orphans \subseteq Orphans'
  BY <1>0, OrphansGrow
<1>2. Meanwhile
  BY <1>1 DEF Meanwhile
<1>3. ASSUME NEW d \in Commands \ {c} PROVE RestartOf(d)'
  BY <1>0, <1>2, OthersKeepRestart DEF Others, RestartInv, NobodyComes
<1>4. RestartOf(c)'
  <2>1. RestartOf(c)
    BY DEF RestartInv
  <2>2. \A s \in Servers : s \notin Orphans' => s \notin Orphans
    BY <1>1
  <2>3. victim[c] # None => victim[c] \in Servers
    BY <1>0 DEF TypeOK
  <2>4. ASSUME kind[c] = "restart" PROVE Restarting(c)'
    <3>1. Restarting(c)
      BY <2>1, <2>4 DEF RestartOf
    <3> QED BY <2>2, <2>3, <2>4, <3>1, <1>2, NoneAssumption
            DEF Restarting, Meanwhile, ToStop, ToLaunch, Polling, Outcomes
  <2> QED BY <2>1, <2>3, <2>4 DEF RestartOf
<1> QED BY <1>3, <1>4 DEF RestartInv

LEMMA RestartTakeCommandLock ==
    ASSUME IInv, RestartInv, NEW c \in Commands, TakeCommandLock(c) PROVE RestartInv'
<1>1. /\ at' = [at EXCEPT ![c] = at'[c]]
      /\ kind[c] = "restart" => at'[c] \in {"remember", "failed"}
  BY DEF TakeCommandLock, FirstSteps, Restarts, Conclude, Go, IInv, TypeOK
<1> QED BY <1>1, StepKeepsRestarts DEF TakeCommandLock, Conclude, Outcomes

LEMMA RestartProbe ==
    ASSUME IInv, RestartInv, NEW c \in Commands, Probe(c) PROVE RestartInv'
<1>1. Meanwhile
  BY DEF Probe, Meanwhile, Orphans
<1> QED BY <1>1, OthersKeepRestart DEF Probe, RestartInv, Others, NobodyComes, IInv

LEMMA RestartNotRunning ==
    ASSUME IInv, RestartInv, NEW c \in Commands, NotRunning(c) PROVE RestartInv'
<1>1. /\ at' = [at EXCEPT ![c] = IfStopped(c)] /\ at'[c] = IfStopped(c)
      /\ at[c] \in ProbeSteps
      /\ UNCHANGED <<record, kind, child, saved, victim, conf, srv>>
  BY DEF NotRunning, Conclude, Go, IInv, TypeOK
<1>2. kind[c] = "restart" => at[c] \in ToLaunch \cup Polling
  BY <1>1 DEF RestartInv, RestartOf, Restarting, ProbeSteps, Outcomes
<1>3. kind[c] = "restart" =>
        \/ IfStopped(c) \in Polling \cup Outcomes
        \/ at[c] \in ToLaunch /\ IfStopped(c) \in ToLaunch \ ToStop
  <2> USE <1>1, <1>2 DEF IfStopped, AfterStop, Restarts, ToLaunch, ToStop, Polling, Outcomes
  <2>1. CASE at[c] = "launch?"
    BY <2>1
  <2>2. CASE at[c] \in {"status?", "status again?"}
    BY <2>2
  <2>3. CASE at[c] \in {"stop?", "exit?"}
    BY <2>3
  <2>4. CASE at[c] \in {"stop again?", "prepare?", "halt?"}
    BY <2>4
  <2> QED BY <2>1, <2>2, <2>3, <2>4 DEF ProbeSteps
<1> QED BY <1>1, <1>3, StepKeepsRestarts DEF ProbeSteps

LEMMA RestartIsRunning ==
    ASSUME IInv, RestartInv, NEW c \in Commands, IsRunning(c) PROVE RestartInv'
<1>1. PICK step \in IfRunning(c) :
        IF step \in Outcomes THEN Conclude(c, step) ELSE Go(c, step) /\ UNCHANGED files
  BY DEF IsRunning
<1>2. /\ at' = [at EXCEPT ![c] = step] /\ at'[c] = step
      /\ at[c] \in ProbeSteps
      /\ UNCHANGED <<record, kind, child, saved, victim, conf, srv>>
  BY <1>1 DEF IsRunning, Conclude, Go, IInv, TypeOK
<1>3. kind[c] = "restart" => at[c] \in ToLaunch \cup Polling
  BY <1>2 DEF RestartInv, RestartOf, Restarting, ProbeSteps, Outcomes
<1>4. kind[c] = "restart" =>
        \/ step \in Polling \cup Outcomes
        \/ /\ at[c] \in ToLaunch /\ step \in ToLaunch
           /\ step \in ToStop => at[c] \in ToStop
  <2> USE <1>1, <1>2, <1>3 DEF IfRunning, ToLaunch, ToStop, Polling, Outcomes
  <2>1. CASE at[c] = "launch?"
    BY <2>1
  <2>2. CASE at[c] \in {"status?", "status again?"}
    BY <2>2
  <2>3. CASE at[c] \in {"stop?", "stop again?", "exit?"}
    BY <2>3
  <2>4. CASE at[c] \in {"prepare?", "halt?"}
    BY <2>4
  <2> QED BY <2>1, <2>2, <2>3, <2>4 DEF ProbeSteps
<1> QED BY <1>2, <1>4, StepKeepsRestarts DEF ProbeSteps

LEMMA RestartReadState ==
    ASSUME IInv, RestartInv, NEW c \in Commands, ReadState(c) PROVE RestartInv'
<1>1. /\ at' = [at EXCEPT ![c] = at'[c]]
      /\ at'[c] = IF at[c] = "status read" THEN "status again?" ELSE "stop again?"
  BY DEF ReadState, Go, IInv, TypeOK
<1> QED BY <1>1, StepKeepsRestarts DEF ReadState, Polling, ToLaunch, ToStop

LEMMA RestartAskStatus ==
    ASSUME IInv, RestartInv, NEW c \in Commands, AskStatus(c) PROVE RestartInv'
<1>1. at' = [at EXCEPT ![c] = at'[c]] /\ at'[c] \in {"ready", "running", "poll"}
  BY DEF AskStatus, Conclude, Go, IInv, TypeOK
<1> QED BY <1>1, StepKeepsRestarts DEF AskStatus, Conclude, Polling, Outcomes

\* The server that accepts the stop of a restart has written the state on disk.
LEMMA RestartAskStop ==
    ASSUME IInv, RestartInv, NEW c \in Commands, AskStop(c) PROVE RestartInv'
<1> USE NoneAssumption
<1>1. /\ at[c] = "stop ask" /\ at' = [at EXCEPT ![c] = at'[c]]
      /\ UNCHANGED <<record, kind, child, saved, conf>>
  BY DEF AskStop, Conclude, Go, IInv, TypeOK
<1>2. /\ \A s \in Servers : srv[s] # "none" => srv'[s] # "none"
      /\ \A s \in Servers : srv'[s] \in SinceSetup => srv[s] \in SinceSetup
  BY DEF AskStop, IInv, TypeOK, SinceSetup
<1>3. CASE at'[c] = "failed"
  <2>1. victim' = victim
    BY <1>3 DEF AskStop, Go, IInv, TypeOK
  <2> QED BY <1>1, <1>2, <1>3, <2>1, StepKeepsRestarts DEF Outcomes
<1>4. CASE at'[c] # "failed"
  <2>1. /\ at'[c] = "exit?" /\ seen[c] \in Servers /\ srv[seen[c]] = "active"
        /\ victim' = [victim EXCEPT ![c] = seen[c]]
    BY <1>4 DEF AskStop, Answering, Conclude, Go, IInv, TypeOK
  <2>3. /\ \A d \in Commands \ {c} : at'[d] = at[d] /\ victim'[d] = victim[d]
        /\ victim'[c] = seen[c] /\ TypeOK
    BY <1>1, <2>1 DEF IInv, TypeOK
  <2>4. Orphans \subseteq Orphans'
    BY <1>1, <2>3, OrphansGrow
  <2>5. Meanwhile
    BY <1>1, <1>2, <2>4 DEF Meanwhile
  <2>6. ASSUME NEW d \in Commands \ {c} PROVE RestartOf(d)'
    BY <1>1, <1>2, <2>3, <2>5, OthersKeepRestart DEF Others, RestartInv, NobodyComes
  <2>7. RestartOf(c)
    BY DEF RestartInv
  <2>8. ASSUME kind[c] = "restart" PROVE Restarting(c)'
    <3>1. child'[c] = None /\ (seen[c] \notin Orphans => saved[c] = seen[c])
      BY <1>1, <2>1, <2>7, <2>8 DEF RestartOf, Restarting, ToLaunch, ToStop, SinceSetup
    <3>2. seen[c] \notin Orphans' => seen[c] \notin Orphans
      BY <2>4
    <3> QED BY <1>1, <2>1, <2>3, <3>1, <3>2 DEF Restarting, ToLaunch, ToStop
  <2>9. kind[c] # "none"
    BY <1>1 DEF IInv, LockInv
  <2>10. RestartOf(c)'
    BY <1>1, <1>2, <2>1, <2>3, <2>8, <2>9 DEF RestartOf
  <2> QED BY <2>6, <2>10 DEF RestartInv
<1> QED BY <1>3, <1>4

LEMMA RestartRemember ==
    ASSUME IInv, RestartInv, NEW c \in Commands, Remember(c) PROVE RestartInv'
<1> USE NoneAssumption
<1>1. /\ at[c] = "remember" /\ at' = [at EXCEPT ![c] = "stop?"]
      /\ saved' = [saved EXCEPT ![c] = record]
      /\ UNCHANGED <<record, kind, child, victim, conf, srv>>
  BY DEF Remember, Go
<1>2. /\ \A d \in Commands \ {c} : at'[d] = at[d] /\ saved'[d] = saved[d]
      /\ at'[c] = "stop?" /\ saved'[c] = record /\ TypeOK
  BY <1>1 DEF IInv, TypeOK
<1>3. Orphans \subseteq Orphans'
  BY <1>1, <1>2, OrphansGrow
<1>4. Meanwhile
  BY <1>1, <1>3 DEF Meanwhile
<1>5. ASSUME NEW d \in Commands \ {c} PROVE RestartOf(d)'
  BY <1>1, <1>2, <1>4, OthersKeepRestart DEF Others, RestartInv, NobodyComes
<1>6. RestartOf(c)
  BY DEF RestartInv
<1>7. ASSUME kind[c] = "restart" PROVE Restarting(c)'
  <2>1. child[c] = None /\ victim[c] = None
    BY <1>1, <1>6, <1>7 DEF RestartOf, Restarting
  <2>2. \A s \in Servers : srv[s] \in SinceSetup => record = s
    BY DEF IInv, RecordInv, SinceSetup
  <2> QED BY <1>1, <1>2, <2>1, <2>2 DEF Restarting, ToLaunch, ToStop
<1>8. RestartOf(c)'
  BY <1>1, <1>6, <1>7 DEF RestartOf
<1> QED BY <1>5, <1>8 DEF RestartInv

\* The server that is launched has the configuration that was read.
LEMMA RestartSpawn ==
    ASSUME IInv, RestartInv, NEW c \in Commands, Spawn(c) PROVE RestartInv'
<1> USE NoneAssumption
<1>1. ASSUME NEW s \in Servers, srv[s] = "none", srv' = [srv EXCEPT ![s] = "spawned"],
             child' = [child EXCEPT ![c] = s], Go(c, "poll"), UNCHANGED files,
             conf' = [conf EXCEPT ![s] = Configuration(c, s)]
      PROVE  RestartInv'
  <2>1. /\ at[c] = "spawn" /\ at'[c] = "poll" /\ child'[c] = s /\ srv'[s] = "spawned"
        /\ conf'[s] = Configuration(c, s)
        /\ \A d \in Commands \ {c} : at'[d] = at[d] /\ child'[d] = child[d]
        /\ \A t \in Servers \ {s} : srv'[t] = srv[t] /\ conf'[t] = conf[t]
        /\ UNCHANGED <<record, kind, saved, victim>> /\ TypeOK
    BY <1>1 DEF Spawn, Go, IInv, TypeOK
  <2>2. Orphans \subseteq Orphans'
    BY <2>1, OrphansGrow
  <2>3. Meanwhile
    BY <1>1, <2>1, <2>2 DEF Meanwhile
  <2>4. ASSUME NEW d \in Commands \ {c} PROVE RestartOf(d)'
    BY <2>1, <2>3, OthersKeepRestart DEF Others, RestartInv, NobodyComes, SinceSetup
  <2>5. RestartOf(c)
    BY DEF RestartInv
  <2>6. victim[c] # None => victim[c] \in Servers \ {s}
    BY <1>1, <2>1, <2>5 DEF RestartOf, TypeOK
  <2>7. ASSUME kind[c] = "restart", victim[c] \notin {None} \cup Orphans'
        PROVE  conf'[s] = conf'[victim[c]]
    <3>1. saved[c] = victim[c]
      BY <2>1, <2>2, <2>5, <2>7 DEF RestartOf, Restarting, ToLaunch
    <3> QED BY <2>1, <2>6, <2>7, <3>1 DEF Configuration
  <2>8. ASSUME kind[c] = "restart" PROVE Restarting(c)'
    BY <2>1, <2>7, <2>8 DEF Restarting, ToLaunch, ToStop, Polling
  <2>9. kind[c] # "none"
    BY <2>1 DEF IInv, LockInv
  <2>10. RestartOf(c)'
    BY <2>1, <2>5, <2>6, <2>8, <2>9 DEF RestartOf
  <2> QED BY <2>4, <2>10 DEF RestartInv
<1>2. CASE Conclude(c, "failed") /\ UNCHANGED <<srv, child, conf>>
  <2>1. at' = [at EXCEPT ![c] = at'[c]] /\ at'[c] = "failed"
    BY <1>2 DEF Conclude, Go, IInv, TypeOK
  <2> QED BY <1>2, <2>1, StepKeepsRestarts DEF Spawn, Conclude, Outcomes
<1> QED BY <1>1, <1>2 DEF Spawn

LEMMA RestartPoll ==
    ASSUME IInv, RestartInv, NEW c \in Commands, Poll(c) PROVE RestartInv'
<1>1. /\ at' = [at EXCEPT ![c] = at'[c]] /\ at'[c] \in {"exited", "status?", "not ready"}
      /\ at[c] = "poll" /\ UNCHANGED <<record, kind, child, saved, victim, conf, srv>>
  BY DEF Poll, Conclude, Go, IInv, TypeOK
<1> QED BY <1>1, StepKeepsRestarts DEF Polling, Outcomes

\* A restart takes none of the steps of an update.
LEMMA RestartUpdateSteps ==
    ASSUME IInv, RestartInv, NEW c \in Commands,
           \/ Download(c) \/ Install(c) \/ Installed(c) \/ Verify(c)
           \/ AwaitWorker(c) \/ AwaitParent(c)
    PROVE  RestartInv'
<1>1. /\ at[c] \in {"download", "install", "installing", "verify", "await worker", "await parent"}
      /\ at' = [at EXCEPT ![c] = at'[c]]
      /\ UNCHANGED <<record, kind, child, saved, victim, conf, srv>>
  BY DEF Download, Install, Installed, Verify, AwaitWorker, AwaitParent, Conclude, Go, IInv, TypeOK
<1>2. kind[c] # "restart"
  BY <1>1 DEF RestartInv, RestartOf, Restarting, ToLaunch, ToStop, Polling, Outcomes
<1> QED BY <1>1, <1>2, StepKeepsRestarts

LEMMA RestartKill ==
    ASSUME IInv, RestartInv, NEW c \in Commands, Kill(c) PROVE RestartInv'
<1>1. /\ at' = [at EXCEPT ![c] = at'[c]] /\ at'[c] = "killed"
      /\ at[c] \notin {"not ready", "killed"}
      /\ UNCHANGED <<record, kind, child, saved, victim, conf, srv>>
  BY DEF Kill, Ended, Outcomes, Conclude, Go, IInv, TypeOK
<1> QED BY <1>1, StepKeepsRestarts DEF Outcomes

LEMMA RestartSchedule ==
    ASSUME IInv, RestartInv, NEW c \in Commands, Schedule(c) PROVE RestartInv'
<1> USE NoneAssumption
<1>1. PICK w \in Commands :
        /\ at[w] = "idle" /\ kind[w] = "none" /\ w # c
        /\ kind' = [kind EXCEPT ![w] = "worker"]
        /\ child' = [child EXCEPT ![c] = w]
        /\ at' = [at EXCEPT ![c] = "await worker", ![w] = "lock"]
  BY DEF Schedule
<1>2. /\ at[c] = "schedule" /\ kind'[w] = "worker" /\ kind'[c] = kind[c] /\ child'[w] = child[w]
      /\ \A d \in Commands \ {c, w} : at'[d] = at[d] /\ kind'[d] = kind[d] /\ child'[d] = child[d]
      /\ UNCHANGED <<record, saved, victim, conf, srv>> /\ TypeOK
  <2>1. at \in [Commands -> Steps \cup Outcomes] /\ kind \in [Commands -> Kinds] /\ TypeOK
    BY DEF IInv, TypeOK
  <2>2. child \in [Commands -> Commands \cup Servers \cup {None}]
    BY DEF IInv, TypeOK
  <2> QED BY <1>1, <2>1, <2>2 DEF Schedule
<1>3. Orphans \subseteq Orphans'
  BY <1>1, <1>2, OrphansGrow
<1>4. Meanwhile
  BY <1>2, <1>3 DEF Meanwhile
<1>5. ASSUME NEW d \in Commands \ {c, w} PROVE RestartOf(d)'
  BY <1>2, <1>4, OthersKeepRestart DEF Others, RestartInv, NobodyComes
<1>6. kind[c] \notin {"restart", "none"}
  BY <1>2 DEF RestartInv, RestartOf, Restarting, ToLaunch, ToStop, Polling, Outcomes, IInv, LockInv
<1>7. RestartOf(c)' /\ RestartOf(w)'
  BY <1>2, <1>6 DEF RestartInv, RestartOf
<1> QED BY <1>5, <1>7 DEF RestartInv

LEMMA RestartBegin ==
    ASSUME IInv, RestartInv, NEW c \in Commands, NEW k \in Kinds, Begin(c, k) PROVE RestartInv'
<1> USE NoneAssumption
<1>1. /\ at[c] = "idle" /\ kind[c] = "none" /\ kind' = [kind EXCEPT ![c] = k] /\ k # "none"
      /\ at' = [at EXCEPT ![c] = at'[c]]
      /\ k = "restart" => at'[c] = "lock"
      /\ UNCHANGED <<record, child, saved, victim, conf, srv>>
  BY DEF Begin, Go, IInv, TypeOK
<1>2. /\ \A d \in Commands \ {c} : at'[d] = at[d] /\ kind'[d] = kind[d]
      /\ kind'[c] = k /\ TypeOK
  BY <1>1 DEF IInv, TypeOK
<1>3. Orphans \subseteq Orphans'
  BY <1>1, <1>2, OrphansGrow
<1>4. Meanwhile
  BY <1>1, <1>3 DEF Meanwhile
<1>5. ASSUME NEW d \in Commands \ {c} PROVE RestartOf(d)'
  BY <1>1, <1>2, <1>4, OthersKeepRestart DEF Others, RestartInv, NobodyComes
<1>6. child[c] = None /\ victim[c] = None
  BY <1>1 DEF RestartInv, RestartOf
<1>7. k = "restart" => Restarting(c)'
  BY <1>1, <1>6 DEF Restarting, ToLaunch, ToStop, Polling, Outcomes
<1>8. RestartOf(c)'
  BY <1>1, <1>2, <1>6, <1>7 DEF RestartOf
<1> QED BY <1>5, <1>8 DEF RestartInv

\* The end of a pip process is nothing to a restart.
LEMMA RestartPipEnds ==
    ASSUME IInv, RestartInv, NEW c \in Commands, PipEnds(c) PROVE RestartInv'
<1>1. Meanwhile
  BY DEF PipEnds, Meanwhile, Orphans
<1> QED BY <1>1, OthersKeepRestart DEF PipEnds, RestartInv, Others, NobodyComes, IInv

\* A server that writes its state while somebody restarts was given up.
LEMMA RestartServer ==
    ASSUME IInv, RestartInv, NEW s \in Servers, ServerStep(s) \/ Foreground(s)
    PROVE  RestartInv'
<1> USE NoneAssumption
<1>1. /\ UNCHANGED <<kind, at, child, saved, victim, conf>>
      /\ \A t \in Servers : srv[t] # "none" => srv'[t] # "none"
      /\ \A t \in Servers : srv'[t] \in SinceSetup => srv[t] \in SinceSetup \cup {"owner"}
  BY DEF ServerStep, Own, OpenControl, Open, Leave, CleanUp, Exit, Foreground, Become, SinceSetup,
     IInv, TypeOK
<1>2. Meanwhile
  BY <1>1 DEF Meanwhile, Orphans
<1>3. ASSUME NEW c \in Commands, at[c] \in ToStop, NEW t \in Servers \ Orphans, srv[t] = "owner"
      PROVE  FALSE
  <2>1. commandLock = c
    BY <1>3 DEF IInv, LockInv, Holding, ToStop, LockedSteps
  <2>2. Launching(t) /\ commandLock # t
    BY <1>3, <2>1 DEF IInv, ChildInv
  <2>3. PICK d \in Commands : at[d] \in Polling /\ kind[d] # "status"
    BY <1>3, <2>2 DEF Launching
  <2>4. d = c
    BY <2>1, <2>3 DEF IInv, LockInv, Holding
  <2> QED BY <1>3, <2>3, <2>4 DEF Polling, ToStop
<1>4. ASSUME NEW c \in Commands, at[c] \in ToStop PROVE NobodyComes
  BY <1>1, <1>3, <1>4 DEF NobodyComes
<1> QED BY <1>1, <1>2, <1>4, OthersKeepRestart DEF Others, RestartInv, IInv

LEMMA RestartNext == ASSUME IInv, RestartInv, [Next]_vars PROVE RestartInv'
<1>1. ASSUME NEW c \in Commands,
             CommandStep(c) \/ Kill(c) \/ PipEnds(c) \/ \E k \in Kinds : Begin(c, k)
      PROVE  RestartInv'
  BY <1>1, RestartBegin, RestartTakeCommandLock, RestartProbe, RestartNotRunning, RestartIsRunning,
     RestartReadState, RestartAskStatus, RestartAskStop, RestartRemember, RestartSpawn, RestartPoll,
     RestartUpdateSteps, RestartSchedule, RestartKill, RestartPipEnds DEF CommandStep
<1>2. ASSUME NEW s \in Servers, ServerStep(s) \/ Foreground(s) PROVE RestartInv'
  BY <1>2, RestartServer
<1>3. ASSUME UNCHANGED vars PROVE RestartInv'
  <2>1. Meanwhile
    BY <1>3 DEF vars, Meanwhile, Orphans
  <2> QED BY <1>3, <2>1, OthersKeepRestart DEF vars, Others, RestartInv, NobodyComes, IInv
<1> QED BY <1>1, <1>2, <1>3 DEF Next

\* What a restart launches has the configuration of the server that accepted
\* its stop, unless that server was given up by the command that launched it.
THEOREM RestartsKeepConfiguration == Spec => []RestartKeepsConfiguration
<1>1. ASSUME Init PROVE RestartInv
  <2>1. \A c \in Commands : kind[c] = "none" /\ child[c] = None /\ victim[c] = None
    BY <1>1 DEF Init
  <2> QED BY <2>1 DEF RestartInv, RestartOf
<1>2. IInv /\ RestartInv /\ [Next]_vars => RestartInv'
  BY RestartNext
<1>3. RestartInv => RestartKeepsConfiguration
  BY DEF RestartInv, RestartOf, Restarting, RestartKeepsConfiguration
<1> QED BY <1>1, <1>2, <1>3, Invariance, PTL DEF Spec

=============================================================================
