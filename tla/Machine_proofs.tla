---------------------------- MODULE Machine_proofs ----------------------------
(***************************************************************************)
(* Proofs about the processes of one machine.  Lifecycle: no process ends  *)
(* for nothing.  Sidecar, for any number of servers, callers, children and *)
(* failures: a supervisor that says it is ready has a child that loaded    *)
(* the model, and one that is degraded says so.                            *)
(***************************************************************************)
EXTENDS Lifecycle, Sidecar, TLAPS

-----------------------------------------------------------------------------
(* The lifecycle of a process.                                             *)

Own(pid) == IF pid = "parent" THEN Parent ELSE Grandparent

(* Births are numbered upwards, so that an id belongs to its first process,     *)
(* to nobody, or to one that was born after both ancestors.                    *)
TableOK ==
    /\ clock \in Nat /\ clock >= Parent
    /\ DOMAIN table = Pids
    /\ \A p \in Pids : /\ table[p] \in Nat /\ table[p] <= clock
                       /\ table[p] = 0 \/ table[p] = Own(p) \/ table[p] > Parent

SelfOK ==
    /\ self \in Nat /\ self <= clock
    /\ step # "unborn" \/ ended # "no" => self > Parent
    /\ self > 0 => \A p \in Pids : table[p] # self

(* What is watched was opened: a handle is to a process older than this one,    *)
(* or to one whose birth cannot be read.                                      *)
IsWatch(w) ==
    /\ DOMAIN w = {"kind", "pid", "birth"} /\ w.pid \in Pids /\ w.kind \in {"wait", "kept", "poll"}
    /\ w.birth \in Nat /\ (w.birth = Own(w.pid) \/ w.birth > Parent)
    /\ w.kind # "poll" => /\ w.birth < self \/ access[w.birth] = "timeless"
                          /\ access[w.birth] \notin {"limited", "none"}

(* A process that is held open keeps its id.                                  *)
IsHeld(w) == w.kind # "poll" /\ ended = "no" => table[w.pid] \in {0, w.birth}

LifecycleInv ==
    /\ TableOK /\ SelfOK
    /\ watch # {} => step # "unborn"
    /\ \A w \in watch : IsWatch(w) /\ IsHeld(w)
    /\ EndsForAReason

-----------------------------------------------------------------------------
\* A process finds its ancestors at its birth, and nothing is watched.
LEMMA InitLifecycle == Init => LifecycleInv
<1> SUFFICES ASSUME Init PROVE LifecycleInv
  OBVIOUS
<1> USE DEF Init, Parent, Grandparent
<1>1. TableOK
  BY DEF TableOK, Own, Pids
<1>2. SelfOK /\ EndsForAReason
  BY DEF SelfOK, EndsForAReason
<1> QED
  BY <1>1, <1>2 DEF LifecycleInv

\* The process is born after all that are there.
LEMMA StartKeeps == LifecycleInv /\ Start => LifecycleInv'
<1> SUFFICES ASSUME LifecycleInv, Start PROVE LifecycleInv'
  OBVIOUS
<1> USE DEF Parent, Grandparent
<1>1. /\ clock \in Nat /\ clock >= 2 /\ clock' = clock + 1 /\ self' = clock + 1
      /\ UNCHANGED <<table, ended>> /\ ended = "no"
  BY DEF LifecycleInv, TableOK, Start, At
<1>3. TableOK'
  BY <1>1 DEF LifecycleInv, TableOK
<1>4. SelfOK'
  BY <1>1 DEF LifecycleInv, TableOK, SelfOK
<1>2. watch' = {} /\ EndsForAReason'
  BY DEF LifecycleInv, Start, At, EndsForAReason
<1> QED
  BY <1>2, <1>3, <1>4 DEF LifecycleInv

\* Watching an ancestor: who was opened had the id, and is the older one.
LEMMA OpensIsWatch ==
  ASSUME LifecycleInv, step # "unborn", NEW pid \in Pids
  PROVE  /\ Opens(pid, "opened") => IsWatch(Watched("wait", pid)) /\ IsHeld(Watched("wait", pid))
         /\ Opens(pid, "denied") => IsWatch(Watched("poll", pid)) /\ IsHeld(Watched("poll", pid))
         /\ Opens(pid, "gone") \/ Opens(pid, "younger") => table[pid] # Own(pid)
<1> USE DEF Parent, Grandparent
<1>1. /\ table[pid] \in Nat /\ self \in Nat /\ self > 2 /\ table[pid] # self
      /\ table[pid] # 0 => table[pid] = Own(pid) \/ table[pid] > 2
      /\ Own(pid) \in 1 .. 2
  BY DEF LifecycleInv, TableOK, SelfOK, Own
<1>2. Opens(pid, "opened") =>
         /\ table[pid] # 0 /\ access[table[pid]] \notin {"limited", "none"}
         /\ table[pid] < self \/ access[table[pid]] = "timeless"
  BY <1>1 DEF Opens
<1>3. Opens(pid, "denied") => table[pid] # 0
  BY <1>1 DEF Opens
<1>4. Opens(pid, "gone") \/ Opens(pid, "younger") => table[pid] = 0 \/ table[pid] > self
  BY <1>1 DEF Opens
<1> QED
  BY <1>1, <1>2, <1>3, <1>4 DEF IsWatch, IsHeld, Watched

\* arm_ancestor_watch: the process goes on with one more ancestor to watch, or it
\* ends because its parent is not there.
LEMMA ArmingKeeps == LifecycleInv /\ (OpenParent \/ OpenGrandparent) => LifecycleInv'
<1> SUFFICES ASSUME LifecycleInv, OpenParent \/ OpenGrandparent PROVE LifecycleInv'
  OBVIOUS
<1>1. /\ step # "unborn" /\ step' # "unborn" /\ ended = "no"
      /\ UNCHANGED <<table, clock, self, access, stdin>>
  BY DEF OpenParent, OpenGrandparent, At
<1>2. TableOK' /\ SelfOK'
  BY <1>1 DEF LifecycleInv, TableOK, SelfOK, Parent
<1>3. \A w \in watch' : IsWatch(w) /\ IsHeld(w)
  <2>1. \E pid \in Pids :
           \/ watch' \subseteq watch
           \/ Opens(pid, "denied") /\ watch' \subseteq watch \cup {Watched("poll", pid)}
           \/ Opens(pid, "opened") /\ watch' \subseteq watch \cup {Watched("wait", pid)}
    BY DEF OpenParent, OpenGrandparent, Pids
  <2>2. \A w \in watch : IsWatch(w) /\ IsHeld(w)
    BY DEF LifecycleInv
  <2> QED
    BY <1>1, <2>1, <2>2, OpensIsWatch
<1>4. \A w \in watch' : IsWatch(w)' /\ IsHeld(w)'
  BY <1>1, <1>3 DEF IsWatch, IsHeld
<1>5. EndsForAReason'
  BY <1>1, OpensIsWatch DEF OpenParent, OpenGrandparent, End, EndsForAReason, Own, Pids
<1> QED
  BY <1>1, <1>2, <1>3, <1>4, <1>5 DEF LifecycleInv, IsWatch

\* A signal, a poll or the pipe: what it tells is a reason.
LEMMA EndingKeeps == LifecycleInv /\ (Signalled \/ Polled \/ PipeWatch) => LifecycleInv'
<1> SUFFICES ASSUME LifecycleInv, Signalled \/ Polled \/ PipeWatch PROVE LifecycleInv'
  OBVIOUS
<1>1. /\ UNCHANGED <<table, clock, self, step, watch, access, stdin>>
      /\ step # "unborn"
  BY DEF Signalled, Polled, PipeWatch, At
<1>2. TableOK' /\ SelfOK'
  BY <1>1 DEF LifecycleInv, TableOK, SelfOK
<1>3. EndsForAReason'
  <2>1. CASE PipeWatch
    BY <1>1, <2>1 DEF PipeWatch, EndsForAReason
  <2>2. CASE Signalled \/ Polled
    <3>1. PICK w \in watch :
             \/ w.kind = "wait" /\ table[w.pid] # w.birth
             \/ w.kind \in {"poll", "kept"} /\ table[w.pid] = 0
             \/ w.kind \in {"poll", "kept"} /\ Refuses(w.pid)
      BY <2>2 DEF Signalled, Polled, PollSees
    <3>2. IsWatch(w) /\ IsHeld(w) /\ ended = "no"
      BY <2>2 DEF LifecycleInv, Signalled, Polled, At
    <3>5. CASE Refuses(w.pid) /\ w.kind = "poll"
      BY <1>1, <3>5 DEF EndsForAReason, Refuses
    <3>6. Refuses(w.pid) => w.kind = "poll"
      BY <3>2 DEF Refuses, IsWatch, IsHeld
    <3>3. CASE w.birth = Own(w.pid)
      BY <1>1, <3>1, <3>2, <3>3, <3>5, <3>6 DEF EndsForAReason, IsWatch, Own, Pids, Parent, Grandparent
    <3>4. CASE w.birth > Parent
      BY <1>1, <3>1, <3>2, <3>4, <3>5, <3>6 DEF EndsForAReason, IsWatch, Stranger, Parent, Grandparent
    <3> QED
      BY <3>2, <3>3, <3>4 DEF IsWatch
  <2> QED
    BY <2>1, <2>2
<1> QED
  BY <1>1, <1>2, <1>3 DEF LifecycleInv, IsWatch, IsHeld, Signalled, Polled, PipeWatch, At

\* A wait that fails leaves the handles open.
LEMMA WaitFailsKeeps == LifecycleInv /\ WaitFails => LifecycleInv'
<1> SUFFICES ASSUME LifecycleInv, WaitFails PROVE LifecycleInv'
  OBVIOUS
<1>1. /\ UNCHANGED <<table, clock, self, step, access, stdin, ended>> /\ ended = "no"
      /\ watch' = {[w EXCEPT !.kind = IF @ = "wait" THEN "kept" ELSE @] : w \in watch}
      /\ step # "unborn"
  BY DEF WaitFails, At
<1>2. TableOK' /\ SelfOK' /\ EndsForAReason'
  BY <1>1 DEF LifecycleInv, TableOK, SelfOK, EndsForAReason
<1>3. ASSUME NEW w \in watch
      PROVE  LET v == [w EXCEPT !.kind = IF @ = "wait" THEN "kept" ELSE @]
             IN  IsWatch(v) /\ IsHeld(v)
  BY DEF LifecycleInv, IsWatch, IsHeld
<1>4. \A w \in watch' : IsWatch(w) /\ IsHeld(w)
  BY <1>1, <1>3
<1> QED
  BY <1>1, <1>2, <1>4 DEF LifecycleInv, IsWatch, IsHeld

\* Ids pass on, the pipe breaks: a reason that was one remains one.
LEMMA MachineKeeps ==
  ASSUME LifecycleInv, (\E p \in Pids : Dies(p) \/ Reuse(p)) \/ PipeBreaks \/ ReportPeer
  PROVE  LifecycleInv'
<1> USE DEF Parent, Grandparent
<1>1. /\ UNCHANGED <<self, step, watch, access, ended>>
      /\ stdin = "broken" => stdin' = "broken"
  BY DEF Dies, Reuse, PipeBreaks, ReportPeer
<1>2. /\ clock' \in Nat /\ clock <= clock' /\ DOMAIN table' = Pids
      /\ \A p \in Pids : \/ table'[p] = table[p] \/ table'[p] = 0
                         \/ table'[p] = clock + 1 /\ clock' = clock + 1
  <2>1. clock \in Nat /\ DOMAIN table = Pids
    BY DEF LifecycleInv, TableOK
  <2>2. ASSUME NEW p \in Pids, Dies(p)
        PROVE  clock' = clock /\ table' = [table EXCEPT ![p] = 0]
    BY <2>2 DEF Dies
  <2>3. ASSUME NEW p \in Pids, Reuse(p)
        PROVE  clock' = clock + 1 /\ table' = [table EXCEPT ![p] = clock + 1]
    BY <2>3 DEF Reuse
  <2>4. CASE PipeBreaks \/ ReportPeer
    BY <2>1, <2>4 DEF PipeBreaks, ReportPeer
  <2> QED
    BY <2>1, <2>2, <2>3, <2>4
<1>3. TableOK' /\ SelfOK'
  BY <1>1, <1>2 DEF LifecycleInv, TableOK, SelfOK
<1>4. \A p \in Pids : table[p] # Own(p) => table'[p] # Own(p)
  BY <1>2 DEF LifecycleInv, TableOK, Own
<1>5. EndsForAReason'
  <2>1. ASSUME NEW w \in watch, Refuses(w.pid), w.kind = "poll", ended # "no"
        PROVE  EndsForAReason'
    <3>1. IsWatch(w)
      BY DEF LifecycleInv
    <3>2. CASE table'[w.pid] = table[w.pid]
      BY <1>1, <2>1, <3>2 DEF EndsForAReason, Refuses
    <3>3. CASE table'[w.pid] # table[w.pid]
      <4>1. table'[w.pid] # Own(w.pid)
        BY <1>2, <3>1, <3>3 DEF LifecycleInv, TableOK, Own, IsWatch
      <4> QED
        BY <1>1, <2>1, <3>1, <4>1 DEF EndsForAReason, Stranger, Own, Pids, IsWatch
    <3> QED
      BY <3>2, <3>3
  <2> QED
    BY <1>1, <1>4, <2>1 DEF LifecycleInv, EndsForAReason, Stranger, Own, Pids
<1>6. \A w \in watch : IsHeld(w)'
  <2> SUFFICES ASSUME NEW w \in watch, w.kind # "poll", ended = "no"
               PROVE  table'[w.pid] \in {0, w.birth}
    BY <1>1 DEF IsHeld
  <2>1. IsWatch(w) /\ table[w.pid] \in {0, w.birth}
    BY DEF LifecycleInv, IsHeld
  <2>2. HeldOpen(w.pid)
    BY <2>1 DEF HeldOpen, IsWatch
  <2>3. CASE UNCHANGED table
    BY <2>1, <2>3
  <2>4. ASSUME NEW p \in Pids, Dies(p) PROVE table'[w.pid] \in {0, w.birth}
    BY <2>1, <2>4 DEF Dies, LifecycleInv, TableOK, IsWatch
  <2>5. ASSUME NEW p \in Pids, Reuse(p) PROVE table'[w.pid] \in {0, w.birth}
    BY <2>1, <2>2, <2>5 DEF Reuse, LifecycleInv, TableOK, IsWatch
  <2> QED
    BY <2>3, <2>4, <2>5 DEF PipeBreaks, ReportPeer
<1> QED
  BY <1>1, <1>3, <1>5, <1>6 DEF LifecycleInv, IsWatch

-----------------------------------------------------------------------------
\* However often ids are used again, whichever handles are refused and waits fail,
\* a process ends only because its parent died, its pipe broke or its grandparent
\* died after it was found - or a stranger that was taken for one of them did
\* (arm_ancestor_watch, _watch, arm_stdin_watch).
THEOREM NoIdleEnd == Spec => []EndsForAReason
<1>1. LifecycleInv /\ [Next]_vars => LifecycleInv'
  <2> SUFFICES ASSUME LifecycleInv, [Next]_vars
               PROVE  LifecycleInv'
    OBVIOUS
  <2>1. CASE UNCHANGED vars
    BY <2>1 DEF vars, LifecycleInv, TableOK, SelfOK, IsWatch, IsHeld, EndsForAReason, Refuses
  <2>2. CASE Next
    BY <2>2, StartKeeps, ArmingKeeps, EndingKeeps, WaitFailsKeeps, MachineKeeps DEF Next, Watching
  <2> QED
    BY <2>1, <2>2
<1>2. LifecycleInv => EndsForAReason
  BY DEF LifecycleInv
<1> QED
  BY <1>1, <1>2, InitLifecycle, PTL DEF Spec

-----------------------------------------------------------------------------
(* The embedding sidecar.                                                  *)

(* The inductive invariant.                                                 *)

ThreadSteps == {"attempt", "loading", "loaded", "drop", "failed", "wait", "stopped", "gone"}
KidSteps == {"unborn", "started", "lockwait", "loading", "serving", "refusing", "wedged", "dead"}
CallSteps == {"idle", "refused", "sent", "kill", "mark"}

Supervisors == [at : ThreadSteps, own : Children \cup {NoChild}, tries : Nat,
                process : Children \cup {NoChild}, degraded : BOOLEAN, ready : BOOLEAN,
                failed : BOOLEAN, stop : BOOLEAN, unsynced : BOOLEAN]
Kids == [at : KidSteps, owner : Servers \cup {NoChild}]
Calls == [at : CallSteps, proc : Children \cup {NoChild}]

Types ==
    /\ sup \in [Servers -> Supervisors]
    /\ kid \in [Children -> Kids]
    /\ mutex \in Children \cup {NoChild}
    /\ call \in [Servers \X Callers -> Calls]

Born(c) == c \in Children /\ kid[c].at # "unborn"
HasModel(c) == c \in Children /\ kid[c].at \in {"serving", "dead"}

(* A supervisor and its calls point at children that were started.          *)
PointsAtChildren(s) ==
    /\ sup[s].process # NoChild => Born(sup[s].process)
    /\ \A k \in Callers : call[<<s, k>>].proc # NoChild => Born(call[<<s, k>>].proc)

(* A supervisor that is loading again after it was ready is degraded: no     *)
(* call is sent until the new child is published.                           *)
LoadsWhenDegraded(s) ==
    /\ sup[s].at = "wait" => sup[s].ready
    /\ sup[s].at \in {"attempt", "loading", "loaded", "drop", "failed"} =>
          (sup[s].ready => sup[s].degraded)

(* The child being loaded is the current one, and no call uses it yet.       *)
LoadsTheCurrent(s) ==
    /\ sup[s].at \in {"loading", "loaded", "drop"} => Born(sup[s].own)
    /\ sup[s].at \in {"loading", "loaded"} =>
          /\ \A k \in Callers : call[<<s, k>>].proc # sup[s].own
          /\ ~ sup[s].stop => sup[s].process = sup[s].own
    /\ sup[s].at = "loaded" => HasModel(sup[s].own)

ReadyHasModel(s) ==
    Running(s) /\ sup[s].ready /\ ~ sup[s].degraded /\ ~ sup[s].stop =>
        HasModel(sup[s].process)

SupervisorInv(s) ==
    PointsAtChildren(s) /\ LoadsWhenDegraded(s) /\ LoadsTheCurrent(s) /\ ReadyHasModel(s)

SidecarInv == Types /\ \A s \in Servers : SupervisorInv(s)

(* The error text follows the two flags.                                    *)
ErrorInv ==
    \A s \in Servers : /\ sup[s].degraded => sup[s].failed
                       /\ sup[s].failed => sup[s].degraded \/ sup[s].unsynced

-----------------------------------------------------------------------------
(* Children only age: one that was started stays started, one that loaded    *)
(* the model keeps it until it dies.                                        *)
KidsOnlyAge == \A c \in Children : (Born(c) => Born(c)') /\ (HasModel(c) => HasModel(c)')

(* NoChild is the name of no child (_process is None).                       *)
LEMMA NoChildIsNone == NoChild \notin Children
BY DEF NoChild, Children

(* Also when nothing happens to them.                                       *)
LEMMA KidsAtRest == ASSUME UNCHANGED kid PROVE KidsOnlyAge
BY DEF KidsOnlyAge, Born, HasModel

(* Killing a child ages it (_SidecarProcess.kill).                           *)
LEMMA KillAges ==
    ASSUME Types, NEW c \in Children \cup {NoChild}, Kill(c)
    PROVE  kid' \in [Children -> Kids] /\ KidsOnlyAge
<1>1. CASE c = NoChild
  BY <1>1, NoChildIsNone DEF Kill, KidsOnlyAge, Born, HasModel, Types
<1>2. CASE c \in Children
  <2>1. kid' = [kid EXCEPT ![c].at = "dead"]
    BY <1>2, NoChildIsNone DEF Kill
  <2> QED
    BY <1>2, <2>1 DEF KidsOnlyAge, Born, HasModel, Types, Kids, KidSteps
<1> QED
  BY <1>1, <1>2

(* Whatever a child does, it only ages, and nothing else changes but the     *)
(* mutex (sidecar.py main, _do_load).                                       *)
LEMMA ChildAges ==
    ASSUME Types, NEW c \in Children, Child(c) \/ WaitExpires(c) \/ Wedges(c) \/ Crash(c)
    PROVE  Types' /\ KidsOnlyAge /\ UNCHANGED <<sup, call>>
<1> USE DEF Types, Kids, KidSteps
<1>1. CASE WaitForLock(c)
  BY <1>1 DEF WaitForLock, KidsOnlyAge, Born, HasModel
<1>2. CASE Acquire(c)
  BY <1>2 DEF Acquire, StartsLoading, KidsOnlyAge, Born, HasModel
<1>3. CASE WaitExpires(c) \/ WaitsOut(c)
  BY <1>3 DEF WaitExpires, WaitsOut, Expires, StartsLoading, KidsOnlyAge, Born, HasModel
<1>6. CASE Wedges(c)
  BY <1>6 DEF Wedges, KidsOnlyAge, Born, HasModel
<1>4. CASE Loads(c)
  <2>1. kid' = [kid EXCEPT ![c].at = "serving"] \/ kid' = [kid EXCEPT ![c].at = "refusing"]
    BY <1>4 DEF Loads
  <2>2. kid' \in [Children -> Kids]
    BY <2>1
  <2>3. kid[c].at = "loading"
    BY <1>4 DEF Loads
  <2>4. KidsOnlyAge
    BY <2>1, <2>3 DEF KidsOnlyAge, Born, HasModel
  <2> QED
    BY <1>4, <2>2, <2>4 DEF Loads, Release
<1>5. CASE Crash(c) \/ FollowsServer(c)
  <2>1. Kill(c) /\ UNCHANGED <<sup, mutex, call>>
    BY <1>5 DEF Crash, FollowsServer
  <2>2. kid' \in [Children -> Kids] /\ KidsOnlyAge
    BY <2>1, KillAges
  <2> QED
    BY <2>1, <2>2
<1> QED
  BY <1>1, <1>2, <1>3, <1>4, <1>5, <1>6 DEF Child

(* A supervisor that neither steps nor is called keeps its invariant.        *)
LEMMA Steady ==
    ASSUME NEW s \in Servers, SupervisorInv(s), KidsOnlyAge,
           sup'[s] = sup[s], \A k \in Callers : call'[<<s, k>>] = call[<<s, k>>]
    PROVE  SupervisorInv(s)'
<1>1. PointsAtChildren(s)'
  BY DEF SupervisorInv, PointsAtChildren, KidsOnlyAge, Born
<1>2. LoadsWhenDegraded(s)'
  BY DEF SupervisorInv, LoadsWhenDegraded
<1>3. LoadsTheCurrent(s)'
  BY DEF SupervisorInv, LoadsTheCurrent, KidsOnlyAge, Born, HasModel
<1>4. ReadyHasModel(s)'
  BY DEF SupervisorInv, ReadyHasModel, KidsOnlyAge, HasModel, Running
<1> QED
  BY <1>1, <1>2, <1>3, <1>4 DEF SupervisorInv

(* A step of one supervisor, or of a call to it, leaves the others alone.    *)
LEMMA OneServer ==
    ASSUME SidecarInv, Types', KidsOnlyAge, NEW s \in Servers,
           \A r \in Servers \ {s} :
               sup'[r] = sup[r] /\ \A k \in Callers : call'[<<r, k>>] = call[<<r, k>>],
           SupervisorInv(s)'
    PROVE  SidecarInv'
BY Steady DEF SidecarInv

-----------------------------------------------------------------------------
(* The loading and recovery thread.                                         *)

(* Each step of a server's loader, failed spawns and fills included         *)
(* (_attempt_load, _recovery_loop).                                         *)
LEMMA LoaderKeeps ==
    ASSUME SidecarInv, NEW s \in Servers, Loader(s) \/ SpawnFails(s) \/ SyncFails(s)
    PROVE  SidecarInv'
<1> DEFINE x == sup[s]
<1>0. /\ Types /\ SupervisorInv(s) /\ x \in Supervisors /\ NoChild \notin Children
      /\ sup \in [Servers -> Supervisors]
  BY NoChildIsNone DEF SidecarInv, Types
<1>a. ASSUME UNCHANGED <<kid, mutex, call>>, NEW y \in Supervisors,
             sup' = [sup EXCEPT ![s] = y], SupervisorInv(s)'
      PROVE  SidecarInv'
  <2>1. Types'
    BY <1>0, <1>a DEF Types
  <2>2. KidsOnlyAge
    BY <1>a, KidsAtRest
  <2> QED
    BY <1>0, <1>a, <2>1, <2>2, OneServer
<1>1. CASE Spawn(s)
  <2>1. PICK c \in Children :
          /\ kid[c].at = "unborn"
          /\ kid' = [kid EXCEPT ![c] = [at |-> "started", owner |-> s]]
          /\ sup' = [sup EXCEPT ![s].at = "loading", ![s].own = c, ![s].process = c]
    BY <1>1 DEF Spawn
  <2>2. /\ sup'[s] = [x EXCEPT !.at = "loading", !.own = c, !.process = c]
        /\ \A r \in Servers \ {s} : sup'[r] = sup[r]
        /\ UNCHANGED <<call, mutex>> /\ x.at = "attempt"
    BY <1>0, <1>1, <2>1 DEF Spawn, Thread
  <2>3. sup'[s] \in Supervisors
    BY <1>0, <2>2 DEF Supervisors, ThreadSteps
  <2>4. Types'
    BY <1>0, <2>1, <2>2, <2>3 DEF Types, Kids, KidSteps
  <2>5. KidsOnlyAge /\ Born(c)'
    BY <1>0, <2>1 DEF KidsOnlyAge, Born, HasModel, Types
  <2>6. \A k \in Callers : call[<<s, k>>].proc # c
    BY <1>0, <2>1 DEF SupervisorInv, PointsAtChildren, Born
  <2>7. x.ready => x.degraded
    BY <1>0, <2>2 DEF SupervisorInv, LoadsWhenDegraded
  <2>8. /\ sup'[s].at = "loading" /\ sup'[s].own = c /\ sup'[s].process = c
        /\ sup'[s].ready = x.ready /\ sup'[s].degraded = x.degraded
    BY <1>0, <2>2 DEF Supervisors
  <2>9. PointsAtChildren(s)'
    BY <1>0, <2>2, <2>5, <2>8 DEF SupervisorInv, PointsAtChildren, KidsOnlyAge, Born
  <2>10. LoadsWhenDegraded(s)' /\ LoadsTheCurrent(s)' /\ ReadyHasModel(s)'
    BY <2>2, <2>5, <2>6, <2>7, <2>8 DEF LoadsWhenDegraded, LoadsTheCurrent, ReadyHasModel
  <2> QED
    BY <2>2, <2>4, <2>5, <2>9, <2>10, OneServer DEF SupervisorInv
<1>2. CASE SpawnFails(s)
  <2> DEFINE y == [x EXCEPT !.at = "failed"]
  <2>1. /\ sup' = [sup EXCEPT ![s] = y] /\ UNCHANGED <<kid, mutex, call>> /\ x.at = "attempt"
    BY <1>0, <1>2 DEF SpawnFails, Thread, Supervisors
  <2>2. y \in Supervisors
    BY <1>0 DEF Supervisors, ThreadSteps
  <2>3. SupervisorInv(s)'
    BY <1>0, <2>1 DEF SupervisorInv, PointsAtChildren, LoadsWhenDegraded, LoadsTheCurrent,
         ReadyHasModel, Running, Born, HasModel, Supervisors
  <2> QED
    BY <1>a, <2>1, <2>2, <2>3
<1>3. CASE LoadAnswered(s)
  <2> DEFINE y == [x EXCEPT !.at = "loaded"]
  <2>1. /\ sup' = [sup EXCEPT ![s] = y] /\ UNCHANGED <<kid, mutex, call>> /\ x.at = "loading"
        /\ kid[x.own].at = "serving"
    BY <1>0, <1>3 DEF LoadAnswered, Thread, Supervisors
  <2>2. y \in Supervisors
    BY <1>0 DEF Supervisors, ThreadSteps
  <2>3. SupervisorInv(s)'
    BY <1>0, <2>1 DEF SupervisorInv, PointsAtChildren, LoadsWhenDegraded, LoadsTheCurrent,
         ReadyHasModel, Running, Born, HasModel, Supervisors
  <2> QED
    BY <1>a, <2>1, <2>2, <2>3
<1>4. CASE LoadRaises(s)
  <2> DEFINE y == [x EXCEPT !.at = "drop"]
  <2>1. /\ sup' = [sup EXCEPT ![s] = y] /\ UNCHANGED <<mutex, call>> /\ x.at = "loading"
        /\ Kill(x.own)
    BY <1>0, <1>4 DEF LoadRaises, Thread, Supervisors
  <2>2. y \in Supervisors /\ x.own \in Children \cup {NoChild}
    BY <1>0 DEF Supervisors, ThreadSteps
  <2>3. kid' \in [Children -> Kids] /\ KidsOnlyAge
    BY <1>0, <2>1, <2>2, KillAges
  <2>4. Types'
    BY <1>0, <2>1, <2>2, <2>3 DEF Types
  <2>5. sup'[s] = y /\ \A r \in Servers \ {s} : sup'[r] = sup[r]
    BY <1>0, <2>1
  <2>6. PointsAtChildren(s)' /\ LoadsWhenDegraded(s)' /\ LoadsTheCurrent(s)'
    BY <1>0, <2>1, <2>3, <2>5 DEF SupervisorInv, PointsAtChildren, LoadsWhenDegraded,
         LoadsTheCurrent, KidsOnlyAge, Born, Supervisors
  <2>7. ReadyHasModel(s)'
    BY <1>0, <2>1, <2>5 DEF SupervisorInv, LoadsWhenDegraded, ReadyHasModel, Supervisors
  <2> QED
    BY <2>1, <2>3, <2>4, <2>5, <2>6, <2>7, OneServer DEF SupervisorInv
<1>5. CASE DropChild(s)
  <2> DEFINE y == [x EXCEPT !.at = "failed", !.own = NoChild,
                            !.process = IF x.process = x.own THEN NoChild ELSE x.process]
  <2>1. /\ sup' = [sup EXCEPT ![s] = y] /\ UNCHANGED <<kid, mutex, call>> /\ x.at = "drop"
    BY <1>0, <1>5 DEF DropChild, Thread, Supervisors
  <2>2. y \in Supervisors
    BY <1>0 DEF Supervisors, ThreadSteps
  <2>3. SupervisorInv(s)'
    BY <1>0, <2>1 DEF SupervisorInv, PointsAtChildren, LoadsWhenDegraded, LoadsTheCurrent,
         ReadyHasModel, Running, Born, HasModel, Supervisors
  <2> QED
    BY <1>a, <2>1, <2>2, <2>3
<1>6. CASE AttemptFails(s)
  <2>1. PICK y \in Supervisors :
          /\ sup' = [sup EXCEPT ![s] = y]
          /\ y.at \in {"wait", "attempt"} /\ y.process = x.process
          /\ y.at = "wait" => y.ready
          /\ y.degraded \/ (y.ready = x.ready /\ y.degraded = x.degraded)
    <3> DEFINE n == IF x.ready THEN x.tries ELSE x.tries + 1
               z == [x EXCEPT !.tries = n]
               y == IF z.ready THEN [z EXCEPT !.at = "wait"]
                    ELSE IF z.tries < MaxAttempts THEN [z EXCEPT !.at = "attempt"]
                    ELSE [z EXCEPT !.at = "wait", !.ready = TRUE, !.degraded = TRUE,
                                   !.failed = TRUE]
    <3>1. sup' = [sup EXCEPT ![s] = y]
      BY <1>6 DEF AttemptFails
    <3>2. n \in Nat
      BY <1>0 DEF Supervisors
    <3>3. z \in Supervisors /\ z.process = x.process /\ z.ready = x.ready
          /\ z.degraded = x.degraded
      <4> HIDE DEF n
      <4> QED
        BY <1>0, <3>2 DEF Supervisors
    <3>4. /\ y \in Supervisors
          /\ y.at \in {"wait", "attempt"} /\ y.process = x.process
          /\ y.at = "wait" => y.ready
          /\ y.degraded \/ (y.ready = x.ready /\ y.degraded = x.degraded)
      <4> HIDE DEF z
      <4> QED
        BY <3>3 DEF Supervisors, ThreadSteps
    <3> HIDE DEF y
    <3> QED
      BY <3>1, <3>4
  <2>2. UNCHANGED <<kid, mutex, call>> /\ x.at = "failed"
    BY <1>6 DEF AttemptFails, Thread
  <2>3. sup'[s] = y /\ (y.ready => y.degraded)
    BY <1>0, <2>1, <2>2 DEF SupervisorInv, LoadsWhenDegraded
  <2>4. SupervisorInv(s)'
    BY <1>0, <2>1, <2>2, <2>3 DEF SupervisorInv, PointsAtChildren, LoadsWhenDegraded,
         LoadsTheCurrent, ReadyHasModel, Born
  <2> QED
    BY <1>a, <2>1, <2>2, <2>4
<1>7. CASE Publish(s)
  <2> DEFINE y == [x EXCEPT !.at = "wait", !.own = NoChild, !.ready = TRUE,
                            !.degraded = FALSE, !.failed = FALSE]
  <2>1. /\ sup' = [sup EXCEPT ![s] = y] /\ UNCHANGED <<kid, mutex, call>> /\ x.at = "loaded"
    BY <1>0, <1>7 DEF Publish, Thread, Supervisors
  <2>2. y \in Supervisors
    BY <1>0 DEF Supervisors, ThreadSteps
  <2>3. SupervisorInv(s)'
    BY <1>0, <2>1 DEF SupervisorInv, PointsAtChildren, LoadsWhenDegraded, LoadsTheCurrent,
         ReadyHasModel, Running, Born, HasModel, Supervisors
  <2> QED
    BY <1>a, <2>1, <2>2, <2>3
<1>8. CASE Recover(s)
  <2> DEFINE y == [x EXCEPT !.at = IF x.stop THEN "stopped" ELSE "attempt"]
  <2>1. /\ sup' = [sup EXCEPT ![s] = y] /\ UNCHANGED <<kid, mutex, call>> /\ x.at = "wait"
        /\ x.stop \/ x.degraded
    BY <1>0, <1>8 DEF Recover, WantsRetry, Thread, Supervisors
  <2>2. y \in Supervisors
    BY <1>0 DEF Supervisors, ThreadSteps
  <2>3. SupervisorInv(s)'
    BY <1>0, <2>1 DEF SupervisorInv, PointsAtChildren, LoadsWhenDegraded, LoadsTheCurrent,
         ReadyHasModel, Running, Born, HasModel, Supervisors
  <2> QED
    BY <1>a, <2>1, <2>2, <2>3
<1>9. CASE SyncFails(s)
  <2> DEFINE y == [x EXCEPT !.failed = TRUE, !.unsynced = TRUE]
  <2>1. /\ sup' = [sup EXCEPT ![s] = y] /\ UNCHANGED <<kid, mutex, call>>
    BY <1>0, <1>9 DEF SyncFails, Supervisors
  <2>2. y \in Supervisors
    BY <1>0 DEF Supervisors
  <2>3. SupervisorInv(s)'
    BY <1>0, <2>1 DEF SupervisorInv, PointsAtChildren, LoadsWhenDegraded, LoadsTheCurrent,
         ReadyHasModel, Running, Born, HasModel, Supervisors
  <2> QED
    BY <1>a, <2>1, <2>2, <2>3
<1> QED
  BY <1>1, <1>2, <1>3, <1>4, <1>5, <1>6, <1>7, <1>8, <1>9 DEF Loader

-----------------------------------------------------------------------------
(* Calls, and the end of a server.                                          *)

(* Each step of a call, with its time-out and its late failure (generate).   *)
LEMMA CallerKeeps ==
    ASSUME SidecarInv, NEW s \in Servers, NEW k \in Callers, Ask(s, k) \/ Caller(s, k)
    PROVE  SidecarInv'
<1> DEFINE x == sup[s]
           c == call[<<s, k>>].proc
<1>0. /\ Types /\ SupervisorInv(s) /\ x \in Supervisors /\ NoChild \notin Children
      /\ sup \in [Servers -> Supervisors] /\ call \in [Servers \X Callers -> Calls]
      /\ <<s, k>> \in Servers \X Callers /\ call[<<s, k>>] \in Calls
      /\ c \in Children \cup {NoChild}
  BY NoChildIsNone DEF SidecarInv, Types, Calls
<1>a. ASSUME UNCHANGED <<sup, kid, mutex>>, NEW y \in Calls,
             call' = [call EXCEPT ![<<s, k>>] = y],
             y.proc = NoChild \/ y.proc = c
               \/ (y.proc = x.process /\ x.ready /\ ~ x.degraded)
      PROVE  SidecarInv'
  <2>1. Types' /\ KidsOnlyAge
    BY <1>0, <1>a, KidsAtRest DEF Types
  <2>2. /\ \A r \in Servers \ {s}, j \in Callers : call'[<<r, j>>] = call[<<r, j>>]
        /\ \A j \in Callers \ {k} : call'[<<s, j>>] = call[<<s, j>>]
        /\ call'[<<s, k>>] = y
    BY <1>0, <1>a
  <2>3. PointsAtChildren(s)'
    BY <1>0, <1>a, <2>2 DEF SupervisorInv, PointsAtChildren, Born
  <2>4. LoadsWhenDegraded(s)' /\ ReadyHasModel(s)'
    BY <1>0, <1>a DEF SupervisorInv, LoadsWhenDegraded, ReadyHasModel, Running, HasModel
  <2>5. LoadsTheCurrent(s)'
    <3>1. x.at \in {"loading", "loaded"} => y.proc # x.own
      BY <1>0, <1>a DEF SupervisorInv, LoadsTheCurrent, LoadsWhenDegraded, Born
    <3> QED
      BY <1>0, <1>a, <2>2, <3>1 DEF SupervisorInv, LoadsTheCurrent, Born, HasModel
  <2> QED
    BY <1>a, <2>1, <2>2, <2>3, <2>4, <2>5, OneServer DEF SupervisorInv
<1>1. CASE Ask(s, k)
  <2> DEFINE y == IF x.degraded \/ x.failed \/ x.process = NoChild
                  THEN [at |-> "refused", proc |-> NoChild]
                  ELSE [at |-> "sent", proc |-> x.process]
  <2>1. call' = [call EXCEPT ![<<s, k>>] = y] /\ UNCHANGED <<sup, kid, mutex>> /\ x.ready
    BY <1>1 DEF Ask
  <2>2. y \in Calls /\ (y.proc = NoChild \/ (y.proc = x.process /\ ~ x.degraded))
    BY <1>0 DEF Calls, CallSteps, Supervisors
  <2> QED
    BY <1>a, <2>1, <2>2
<1>2. CASE Refused(s, k) \/ Answered(s, k)
  <2>1. call' = [call EXCEPT ![<<s, k>>] = NewCall] /\ UNCHANGED <<sup, kid, mutex>>
    BY <1>2 DEF Refused, Answered
  <2>2. NewCall \in Calls /\ NewCall.proc = NoChild
    BY DEF NewCall, Calls, CallSteps
  <2> QED
    BY <1>a, <2>1, <2>2
<1>3. CASE Raises(s, k)
  <2> DEFINE y == [call[<<s, k>>] EXCEPT !.at = "kill"]
  <2>1. call' = [call EXCEPT ![<<s, k>>] = y] /\ UNCHANGED <<sup, kid, mutex>>
    BY <1>0, <1>3 DEF Raises, Calls
  <2>2. y \in Calls /\ y.proc = c
    BY <1>0 DEF Calls, CallSteps
  <2> QED
    BY <1>a, <2>1, <2>2
<1>4. CASE KillChild(s, k)
  <2> DEFINE y == [call[<<s, k>>] EXCEPT !.at = "mark"]
  <2>1. call' = [call EXCEPT ![<<s, k>>] = y] /\ UNCHANGED <<sup, mutex>> /\ Kill(c)
    BY <1>0, <1>4 DEF KillChild, Calls
  <2>2. y \in Calls /\ y.proc = c
    BY <1>0 DEF Calls, CallSteps
  <2>3. kid' \in [Children -> Kids] /\ KidsOnlyAge
    BY <1>0, <2>1, KillAges
  <2>4. Types'
    BY <1>0, <2>1, <2>2, <2>3 DEF Types
  <2>5. \A r \in Servers, j \in Callers :
           /\ call'[<<r, j>>].proc = call[<<r, j>>].proc
           /\ r # s => call'[<<r, j>>] = call[<<r, j>>]
    BY <1>0, <2>1, <2>2
  <2>6. SupervisorInv(s)'
    <3>1. PointsAtChildren(s)' /\ LoadsWhenDegraded(s)'
      BY <1>0, <2>1, <2>3, <2>5
         DEF SupervisorInv, PointsAtChildren, LoadsWhenDegraded, KidsOnlyAge, Born
    <3>2. LoadsTheCurrent(s)' /\ ReadyHasModel(s)'
      BY <1>0, <2>1, <2>3, <2>5
         DEF SupervisorInv, LoadsTheCurrent, ReadyHasModel, KidsOnlyAge, Born, HasModel, Running
    <3> QED
      BY <3>1, <3>2 DEF SupervisorInv
  <2> QED
    BY <2>1, <2>3, <2>4, <2>5, <2>6, OneServer
<1>5. CASE MarkDegraded(s, k)
  <2> DEFINE y == Degraded(x, c)
  <2>1. /\ sup' = [sup EXCEPT ![s] = y] /\ UNCHANGED <<kid, mutex>>
        /\ call' = [call EXCEPT ![<<s, k>>] = NewCall]
    BY <1>5 DEF MarkDegraded
  <2>2. /\ y \in Supervisors /\ y.at = x.at /\ y.own = x.own /\ y.ready = x.ready
        /\ y.stop = x.stop /\ y.degraded
        /\ y.process = IF x.process = c THEN NoChild ELSE x.process
    BY <1>0 DEF Degraded, Supervisors
  <2>3. NewCall \in Calls /\ NewCall.proc = NoChild
    BY DEF NewCall, Calls, CallSteps
  <2> HIDE DEF y
  <2>4. Types' /\ KidsOnlyAge
    BY <1>0, <2>1, <2>2, <2>3, KidsAtRest DEF Types
  <2>5. /\ \A r \in Servers \ {s} :
             sup'[r] = sup[r] /\ \A j \in Callers : call'[<<r, j>>] = call[<<r, j>>]
        /\ \A j \in Callers \ {k} : call'[<<s, j>>] = call[<<s, j>>]
        /\ call'[<<s, k>>] = NewCall /\ sup'[s] = y
    BY <1>0, <2>1
  <2>6. PointsAtChildren(s)' /\ LoadsWhenDegraded(s)' /\ ReadyHasModel(s)'
    BY <1>0, <2>1, <2>2, <2>3, <2>5
       DEF SupervisorInv, PointsAtChildren, LoadsWhenDegraded, ReadyHasModel, Born
  <2>7. LoadsTheCurrent(s)'
    BY <1>0, <2>1, <2>2, <2>3, <2>5 DEF SupervisorInv, LoadsTheCurrent, Born, HasModel
  <2> QED
    BY <2>4, <2>5, <2>6, <2>7, OneServer DEF SupervisorInv
<1> QED
  BY <1>1, <1>2, <1>3, <1>4, <1>5 DEF Caller

(* A shutdown, or an end without one.                                        *)
LEMMA EndKeeps ==
    ASSUME SidecarInv, NEW s \in Servers, Shutdown(s) \/ Gone(s) \/ ExitsNow(s)
    PROVE  SidecarInv'
<1> DEFINE x == sup[s]
<1>0. /\ Types /\ SupervisorInv(s) /\ x \in Supervisors /\ NoChild \notin Children
      /\ sup \in [Servers -> Supervisors] /\ call \in [Servers \X Callers -> Calls]
  BY NoChildIsNone DEF SidecarInv, Types
<1>1. CASE Shutdown(s)
  <2> DEFINE y == [x EXCEPT !.stop = TRUE, !.process = NoChild]
  <2>1. sup' = [sup EXCEPT ![s] = y] /\ UNCHANGED <<mutex, call>> /\ Kill(x.process)
    BY <1>0, <1>1 DEF Shutdown, Supervisors
  <2>2. y \in Supervisors /\ x.process \in Children \cup {NoChild}
    BY <1>0 DEF Supervisors
  <2>3. kid' \in [Children -> Kids] /\ KidsOnlyAge
    BY <1>0, <2>1, <2>2, KillAges
  <2>4. Types'
    BY <1>0, <2>1, <2>2, <2>3 DEF Types
  <2>5. sup'[s] = y /\ \A r \in Servers \ {s} : sup'[r] = sup[r]
    BY <1>0, <2>1
  <2>6. /\ y.stop /\ y.process = NoChild /\ y.at = x.at /\ y.own = x.own
        /\ y.ready = x.ready /\ y.degraded = x.degraded
    BY <1>0 DEF Supervisors
  <2> HIDE DEF y
  <2>7. SupervisorInv(s)'
    BY <1>0, <2>1, <2>3, <2>5, <2>6
       DEF SupervisorInv, PointsAtChildren, LoadsWhenDegraded, LoadsTheCurrent,
           ReadyHasModel, KidsOnlyAge, Born, HasModel
  <2> QED
    BY <2>1, <2>3, <2>4, <2>5, <2>7, OneServer
<1>2. CASE Gone(s) \/ ExitsNow(s)
  <2> DEFINE y == [x EXCEPT !.at = "gone", !.stop = TRUE]
  <2>1. /\ sup' = [sup EXCEPT ![s] = y] /\ UNCHANGED <<kid, mutex>>
        /\ call' = [k \in Servers \X Callers |-> IF k[1] = s THEN NewCall ELSE call[k]]
    BY <1>0, <1>2 DEF Gone, ExitsNow, Leaves, Supervisors
  <2>2. y \in Supervisors /\ NewCall \in Calls /\ NewCall.proc = NoChild
    BY <1>0 DEF Supervisors, ThreadSteps, NewCall, Calls, CallSteps
  <2>3. Types' /\ KidsOnlyAge
    BY <1>0, <2>1, <2>2, KidsAtRest DEF Types
  <2>4. /\ \A r \in Servers \ {s} :
             sup'[r] = sup[r] /\ \A j \in Callers : call'[<<r, j>>] = call[<<r, j>>]
        /\ sup'[s] = y /\ \A j \in Callers : call'[<<s, j>>] = NewCall
    BY <1>0, <2>1
  <2>5. y.at = "gone" /\ y.process = x.process
    BY <1>0 DEF Supervisors
  <2> HIDE DEF y
  <2>6. SupervisorInv(s)'
    BY <1>0, <2>1, <2>2, <2>4, <2>5
       DEF SupervisorInv, PointsAtChildren, LoadsWhenDegraded, LoadsTheCurrent,
           ReadyHasModel, Running, Born
  <2> QED
    BY <2>3, <2>4, <2>6, OneServer
<1> QED
  BY <1>1, <1>2

-----------------------------------------------------------------------------
(* The invariant holds of servers that have not started a child.             *)
LEMMA InitSidecar == SidecarInit => SidecarInv
<1> SUFFICES ASSUME SidecarInit PROVE SidecarInv
  OBVIOUS
<1>1. NewSupervisor \in Supervisors /\ NewKid \in Kids /\ NewCall \in Calls
  BY DEF NewSupervisor, NewKid, NewCall, Supervisors, Kids, Calls, ThreadSteps, KidSteps,
         CallSteps
<1>2. Types
  BY <1>1 DEF SidecarInit, Types
<1>3. \A s \in Servers : sup[s] = NewSupervisor
  BY DEF SidecarInit
<1>4. \A s \in Servers, k \in Callers : call[<<s, k>>] = NewCall
  BY DEF SidecarInit
<1>5. ASSUME NEW s \in Servers PROVE SupervisorInv(s)
  BY <1>3, <1>4 DEF SupervisorInv, PointsAtChildren, LoadsWhenDegraded, LoadsTheCurrent,
         ReadyHasModel, NewSupervisor, NewCall
<1> QED
  BY <1>2, <1>5 DEF SidecarInv

(* ... and every step keeps it, those of the children included.              *)
LEMMA NextSidecar == SidecarInv /\ [SidecarNext]_sidecarVars => SidecarInv'
<1> SUFFICES ASSUME SidecarInv, [SidecarNext]_sidecarVars PROVE SidecarInv'
  OBVIOUS
<1>1. ASSUME NEW c \in Children, Child(c) \/ WaitExpires(c) \/ Wedges(c) \/ Crash(c) PROVE SidecarInv'
  <2>1. Types' /\ KidsOnlyAge /\ UNCHANGED <<sup, call>>
    BY <1>1, ChildAges DEF SidecarInv
  <2>2. \A s \in Servers : SupervisorInv(s)'
    BY <2>1, Steady DEF SidecarInv
  <2> QED
    BY <2>1, <2>2 DEF SidecarInv
<1>2. CASE UNCHANGED sidecarVars
  <2>1. Types' /\ KidsOnlyAge
    BY <1>2, KidsAtRest DEF sidecarVars, SidecarInv, Types
  <2>2. \A s \in Servers : SupervisorInv(s)'
    BY <1>2, <2>1, Steady DEF sidecarVars, SidecarInv
  <2> QED
    BY <2>1, <2>2 DEF SidecarInv
<1> QED
  BY <1>1, <1>2, LoaderKeeps, CallerKeeps, EndKeeps DEF SidecarNext

(* A supervisor that is ready and not degraded has a current child that      *)
(* loaded the model, however loads, calls, time-outs, crashes and exits of   *)
(* all servers interleave (sidecar_client.py, ensure_ready and generate).    *)
THEOREM ReadyStaysLoaded == SidecarSpec => []ReadyMeansLoaded
<1>1. SidecarInv => ReadyMeansLoaded
  BY NoChildIsNone DEF SidecarInv, SupervisorInv, ReadyHasModel, ReadyMeansLoaded, HasModel
<1> QED
  BY <1>1, InitSidecar, NextSidecar, PTL DEF SidecarSpec

-----------------------------------------------------------------------------
(* The error text. *)

(* Every step that sets or clears a flag keeps the text in line with it.      *)
LEMMA NextError == SidecarInv /\ ErrorInv /\ [SidecarNext]_sidecarVars => ErrorInv'
<1> SUFFICES ASSUME SidecarInv, ErrorInv, [SidecarNext]_sidecarVars PROVE ErrorInv'
  OBVIOUS
<1>0. sup \in [Servers -> Supervisors] /\ \A s \in Servers : sup[s] \in Supervisors
  BY DEF SidecarInv, Types
<1>1. ASSUME UNCHANGED sup PROVE ErrorInv'
  BY <1>1 DEF ErrorInv
<1>2. ASSUME NEW s \in Servers,
             Spawn(s) \/ SpawnFails(s) \/ LoadAnswered(s) \/ LoadRaises(s) \/ DropChild(s)
               \/ Recover(s) \/ Shutdown(s) \/ Gone(s) \/ ExitsNow(s)
      PROVE  ErrorInv'
  <2>1. /\ \A r \in Servers \ {s} : sup'[r] = sup[r]
        /\ sup'[s].degraded = sup[s].degraded /\ sup'[s].failed = sup[s].failed
        /\ sup'[s].unsynced = sup[s].unsynced
    <3>1. CASE Spawn(s)
      BY <1>0, <3>1 DEF Spawn, Supervisors
    <3>2. CASE SpawnFails(s) \/ LoadAnswered(s) \/ LoadRaises(s)
      BY <1>0, <3>2 DEF SpawnFails, LoadAnswered, LoadRaises, Supervisors
    <3>3. CASE DropChild(s)
      BY <1>0, <3>3 DEF DropChild, Supervisors
    <3>4. CASE Recover(s)
      BY <1>0, <3>4 DEF Recover, Supervisors
    <3>5. CASE Shutdown(s) \/ Gone(s) \/ ExitsNow(s)
      BY <1>0, <3>5 DEF Shutdown, Gone, ExitsNow, Leaves, Supervisors
    <3> QED
      BY <1>2, <3>1, <3>2, <3>3, <3>4, <3>5
  <2> QED
    BY <2>1 DEF ErrorInv
<1>3. ASSUME NEW s \in Servers, AttemptFails(s) PROVE ErrorInv'
  <2> DEFINE z == [sup[s] EXCEPT !.tries = IF sup[s].ready THEN sup[s].tries ELSE sup[s].tries + 1]
             y == IF z.ready THEN [z EXCEPT !.at = "wait"]
                  ELSE IF z.tries < MaxAttempts THEN [z EXCEPT !.at = "attempt"]
                  ELSE [z EXCEPT !.at = "wait", !.ready = TRUE, !.degraded = TRUE,
                                 !.failed = TRUE]
  <2>1. sup' = [sup EXCEPT ![s] = y]
    BY <1>3 DEF AttemptFails
  <2>2. z \in Supervisors
    BY <1>0 DEF Supervisors
  <2>3. z.degraded = sup[s].degraded /\ z.failed = sup[s].failed /\ z.unsynced = sup[s].unsynced
    BY <1>0 DEF Supervisors
  <2> HIDE DEF z
  <2>4. /\ y.degraded => y.failed
        /\ y.failed => y.degraded \/ y.unsynced
    BY <2>2, <2>3 DEF ErrorInv, Supervisors
  <2>5. sup'[s] = y /\ \A r \in Servers \ {s} : sup'[r] = sup[r]
    BY <1>0, <2>1
  <2> QED
    BY <2>4, <2>5 DEF ErrorInv
<1>4. ASSUME NEW s \in Servers, Publish(s) \/ SyncFails(s) PROVE ErrorInv'
  BY <1>0, <1>4 DEF Publish, SyncFails, ErrorInv, Supervisors
<1>5. ASSUME NEW s \in Servers, NEW k \in Callers, MarkDegraded(s, k) PROVE ErrorInv'
  BY <1>0, <1>5 DEF MarkDegraded, Degraded, ErrorInv, Supervisors
<1>6. ASSUME NEW c \in Children, Child(c) \/ WaitExpires(c) \/ Wedges(c) \/ Crash(c) PROVE ErrorInv'
  BY <1>1, <1>6, ChildAges DEF SidecarInv
<1>7. ASSUME NEW s \in Servers, NEW k \in Callers,
             Ask(s, k) \/ Refused(s, k) \/ Answered(s, k) \/ Raises(s, k) \/ KillChild(s, k)
      PROVE  ErrorInv'
  BY <1>1, <1>7 DEF Ask, Refused, Answered, Raises, KillChild
<1>8. CASE UNCHANGED sidecarVars
  BY <1>1, <1>8 DEF sidecarVars
<1> QED
  BY <1>2, <1>3, <1>4, <1>5, <1>6, <1>7, <1>8 DEF SidecarNext, Loader, Caller

(* Calls are refused with an error text exactly while the supervisor is      *)
(* degraded or the first fill of the index failed (_mark_degraded,           *)
(* _recovery_loop).                                                         *)
THEOREM ErrorStaysTrue == SidecarSpec => []ErrorMeansDegraded
<1>1. SidecarInit => ErrorInv
  BY DEF SidecarInit, NewSupervisor, ErrorInv
<1>2. ErrorInv => ErrorMeansDegraded
  BY DEF ErrorInv, ErrorMeansDegraded
<1> QED
  BY <1>1, <1>2, InitSidecar, NextSidecar, NextError, PTL DEF SidecarSpec

=============================================================================
