---------------------------- MODULE Tools_proofs ----------------------------
(***************************************************************************)
(* Proofs about four parts of the tool layer.  Tasks: what a task's status,   *)
(* claimant and log tell agrees, however calls overlap, because a call writes *)
(* back metadata that agreed when it was read, with at most one entry more;   *)
(* and the tree that is kept twice is one tree.  Projects: however many calls *)
(* cross, a listed project can be searched.  Search: what an answer says of   *)
(* itself is true.  Curation: versions have heads, reviews suggest a change,  *)
(* and a start leaves nothing unlinked.                                      *)
(***************************************************************************)
EXTENDS Tasks, Projects, Search, Curation, NumberLemmas, FiniteSetTheorems, TLAPS

-----------------------------------------------------------------------------
(* Tasks: their status, claimant and log.                                   *)

States == {"open", "in_progress", "blocked", "done", "cancelled"}
Entries == [status : States, by : Callers \cup {"somebody"}, note : BOOLEAN]
Fields == {"status", "claimant", "parent", "log"}

Held(log, i) == {j \in Claims(log) : j < i}
HasLast(S) == \E k \in S : \A j \in S : j <= k

(* The entry at i of a log follows from those before it.                      *)
Follows(log, i) ==
    /\ \/ log[i].status \in Allowed(log[i - 1].status)
       \/ log[i].status = "in_progress" /\ log[i - 1].status = "in_progress"
    /\ /\ log[i].status = "in_progress"
       /\ log[i - 1].status \in {"in_progress", "blocked"}
       /\ Held(log, i) # {}
       => log[i].by = log[LastOf(Held(log, i))].by \/ log[i].note

Claimant(log) == IF Claims(log) = {} THEN None ELSE log[LastOf(Claims(log))].by

(* A log grows entry by entry: that any claims have a last one is carried        *)
(* along, and needs no induction over sets.                                  *)
SoundLog(log) ==
    /\ log \in Seq(Entries) /\ Len(log) > 0
    /\ \A i \in 1 .. Len(log) + 1 : Held(log, i) # {} => HasLast(Held(log, i))
    /\ \A i \in 2 .. Len(log) : Follows(log, i)

Sound(m) ==
    /\ DOMAIN m = Fields
    /\ SoundLog(m.log)
    /\ m.status = m.log[Len(m.log)].status
    /\ m.claimant = Claimant(m.log)

Writing(c) == call[c].at \in {"link", "linking", "unlink", "write"}

TasksInv ==
    /\ DOMAIN task = Tasks /\ DOMAIN call = Callers
    /\ \A t \in Tasks : Exists(t) => Sound(task[t])
    /\ \A c \in Callers : Writing(c) => Sound(call[c].meta)

-----------------------------------------------------------------------------
\* The last one of claims is one of them.
LEMMA LastIsOne ==
  ASSUME NEW S, HasLast(S)
  PROVE  LastOf(S) \in S /\ \A j \in S : j <= LastOf(S)
BY DEF HasLast, LastOf

\* The claims of a log that got one entry more.
LEMMA ClaimsOfAppend ==
  ASSUME NEW log \in Seq(Entries), NEW e \in Entries
  PROVE  /\ Append(log, e) \in Seq(Entries)
         /\ Len(Append(log, e)) = Len(log) + 1
         /\ Append(log, e)[Len(log) + 1] = e
         /\ \A i \in 1 .. Len(log) : Append(log, e)[i] = log[i]
         /\ Claims(log) \subseteq 1 .. Len(log)
         /\ Claims(Append(log, e)) =
               Claims(log) \cup (IF e.status = "in_progress" THEN {Len(log) + 1} ELSE {})
         /\ \A i \in 1 .. Len(log) + 1 : Held(Append(log, e), i) = Held(log, i)
<1> DEFINE new == Append(log, e)
<1>1. /\ new \in Seq(Entries) /\ Len(new) = Len(log) + 1 /\ Len(log) \in Nat
      /\ new[Len(log) + 1] = e /\ DOMAIN log = 1 .. Len(log)
      /\ DOMAIN new = 1 .. Len(log) + 1
      /\ \A i \in 1 .. Len(log) : new[i] = log[i]
  OBVIOUS
<1> HIDE DEF new
<1>2. Claims(log) \subseteq 1 .. Len(log)
  BY <1>1 DEF Claims
<1>3. Claims(new) = Claims(log) \cup (IF e.status = "in_progress" THEN {Len(log) + 1} ELSE {})
  BY <1>1 DEF Claims
<1>4. \A i \in 1 .. Len(log) + 1 : Held(new, i) = Held(log, i)
  BY <1>1, <1>2, <1>3 DEF Held
<1> QED
  BY <1>1, <1>2, <1>3, <1>4 DEF new

\* An entry further on changes nothing for those before it.
LEMMA OldOnesFollow ==
  ASSUME NEW log, SoundLog(log), NEW e \in Entries, NEW i \in 2 .. Len(log)
  PROVE  Follows(Append(log, e), i)
<1> DEFINE new == Append(log, e)
<1>1. log \in Seq(Entries) /\ Len(log) \in Nat
  BY DEF SoundLog
<1>2. Follows(log, i) /\ (Held(log, i) # {} => LastOf(Held(log, i)) \in Held(log, i))
  BY <1>1, LastIsOne DEF SoundLog
<1>3. new[i] = log[i] /\ new[i - 1] = log[i - 1] /\ Held(new, i) = Held(log, i)
  BY <1>1, ClaimsOfAppend
<1>4. Held(log, i) # {} => new[LastOf(Held(log, i))] = log[LastOf(Held(log, i))]
  BY <1>1, <1>2, ClaimsOfAppend DEF Held
<1> HIDE DEF new
<1> QED
  BY <1>2, <1>3, <1>4 DEF Follows, new

\* A status that is set, with its entry in the log, keeps the two in agreement,
\* if the change is allowed and a claim of somebody else is taken with a note.
LEMMA EntryKeepsSound ==
  ASSUME None \notin Callers,
         NEW m, Sound(m), NEW c \in Callers, NEW status \in States, NEW note \in BOOLEAN,
         status \in Allowed(m.status) \/ (status = "in_progress" /\ m.status = "in_progress"),
         (status = "in_progress" /\ m.status \in {"in_progress", "blocked"} /\ HeldByAnother(m, c)) => note,
         NEW n, DOMAIN n = Fields, n.status = status,
         n.log = Append(m.log, Entry(status, c, note)),
         n.claimant = IF status = "in_progress" THEN c ELSE m.claimant
  PROVE  Sound(n)
<1> DEFINE e == Entry(status, c, note)
           log == m.log
           k == Len(log)
<1>1. /\ log \in Seq(Entries) /\ k \in Nat \ {0} /\ e \in Entries
      /\ e.status = status /\ e.by = c /\ e.note = note
      /\ log[k].status = m.status
  BY DEF Sound, SoundLog, Entry, Entries
<1>2. /\ n.log \in Seq(Entries) /\ Len(n.log) = k + 1 /\ n.log[k + 1] = e
      /\ \A i \in 1 .. k : n.log[i] = log[i]
      /\ Claims(log) \subseteq 1 .. k
      /\ Claims(n.log) = Claims(log) \cup (IF status = "in_progress" THEN {k + 1} ELSE {})
      /\ \A i \in 1 .. k + 1 : Held(n.log, i) = Held(log, i)
  BY <1>1, ClaimsOfAppend
<1>3. Held(log, k + 1) = Claims(log) /\ Held(n.log, k + 2) = Claims(n.log)
  BY <1>1, <1>2 DEF Held
<1>4. Claims(log) # {} => LastOf(Claims(log)) \in Claims(log) /\ HasLast(Claims(log))
  BY <1>1, <1>3, LastIsOne DEF Sound, SoundLog
<1>5. status = "in_progress" => LastOf(Claims(n.log)) = k + 1 /\ HasLast(Claims(n.log))
  BY <1>1, <1>2 DEF LastOf, HasLast
<1>6. \A i \in 1 .. k + 2 : Held(n.log, i) # {} => HasLast(Held(n.log, i))
  <2>1. \A i \in 1 .. k + 1 : Held(n.log, i) # {} => HasLast(Held(n.log, i))
    BY <1>1, <1>2 DEF Sound, SoundLog
  <2>2. Claims(n.log) # {} => HasLast(Claims(n.log))
    BY <1>2, <1>4, <1>5
  <2>3. \A i \in 1 .. k + 2 : i \in 1 .. k + 1 \/ i = k + 2
    BY <1>1
  <2> QED
    BY <1>3, <2>1, <2>2, <2>3
<1>7. n.claimant = Claimant(n.log)
  <2>1. CASE status = "in_progress"
    BY <1>1, <1>2, <1>5, <2>1 DEF Claimant
  <2>2. CASE status # "in_progress"
    BY <1>1, <1>2, <1>4, <2>2 DEF Claimant, Sound
  <2> QED
    BY <2>1, <2>2
<1>8. Follows(n.log, k + 1)
  <2>1. (k + 1) - 1 = k /\ n.log[k] = log[k]
    BY <1>1, <1>2
  <2>2. Claims(log) # {} => /\ n.log[LastOf(Claims(log))] = log[LastOf(Claims(log))]
                           /\ log[LastOf(Claims(log))].by = m.claimant
    BY <1>1, <1>2, <1>4 DEF Sound, Claimant
  <2>3. Claims(log) # {} => m.claimant # None
    <3>1. Claims(log) # {} => log[LastOf(Claims(log))] \in Entries
      BY <1>1, <1>2, <1>4
    <3> QED
      BY <2>2, <3>1 DEF Entries, None
  <2>4. Held(n.log, k + 1) = Claims(log)
    BY <1>1, <1>2, <1>3
  <2>5. n.log[k + 1].status = status /\ n.log[k + 1].by = c /\ n.log[k + 1].note = note
    BY <1>1, <1>2
  <2>6. \/ status \in Allowed(log[k].status)
        \/ status = "in_progress" /\ log[k].status = "in_progress"
    BY <1>1
  <2>7. /\ status = "in_progress" /\ log[k].status \in {"in_progress", "blocked"}
        /\ Claims(log) # {}
        => c = n.log[LastOf(Claims(log))].by \/ note
    BY <1>1, <2>2, <2>3 DEF HeldByAnother
  <2>8. n.log[(k + 1) - 1].status = log[k].status
    BY <2>1
  <2>9. \/ n.log[k + 1].status \in Allowed(n.log[(k + 1) - 1].status)
        \/ n.log[k + 1].status = "in_progress" /\ n.log[(k + 1) - 1].status = "in_progress"
    BY <2>5, <2>6, <2>8
  <2>10. /\ n.log[k + 1].status = "in_progress"
         /\ n.log[(k + 1) - 1].status \in {"in_progress", "blocked"}
         /\ Held(n.log, k + 1) # {}
         => n.log[k + 1].by = n.log[LastOf(Held(n.log, k + 1))].by \/ n.log[k + 1].note
    BY <2>4, <2>5, <2>7, <2>8
  <2> HIDE DEF e, k, log
  <2> QED
    BY <2>9, <2>10 DEF Follows
<1>9. \A i \in 2 .. k + 1 : Follows(n.log, i)
  <2>1. \A i \in 2 .. k : Follows(n.log, i)
    BY <1>1, OldOnesFollow DEF Sound
  <2> QED
    BY <1>1, <1>8, <2>1
<1> HIDE DEF e
<1> QED
  BY <1>1, <1>2, <1>6, <1>7, <1>9 DEF Sound, SoundLog

\* What a call makes of sound metadata is sound (_update_task).
LEMMA MovedIsSound ==
  ASSUME None \notin Callers, NEW m, Sound(m), NEW c \in Callers,
         NEW status \in Tried \cup {None}, NEW note \in BOOLEAN, NEW n \in Moved(m, c, status, note)
  PROVE  Sound(n)
<1>1. m.status \in States
  <2>1. m.log \in Seq(Entries) /\ Len(m.log) \in 1 .. Len(m.log)
    BY DEF Sound, SoundLog
  <2>2. m.log[Len(m.log)] \in Entries
    BY <2>1
  <2> QED
    BY <2>2 DEF Sound, Entries
<1>2. CASE n = m
  BY <1>2
<1>3. CASE n # m /\ status = m.status
  <2>1. /\ status = "in_progress" /\ HeldByAnother(m, c) /\ note /\ n = Takeover(m, c)
    BY <1>1, <1>3 DEF Moved, None, States
  <2>2. /\ DOMAIN n = Fields /\ n.status = m.status /\ n.claimant = c
        /\ n.log = Append(m.log, Entry("in_progress", c, TRUE))
    BY <2>1 DEF Takeover, Sound, Fields
  <2> QED
    BY <1>1, <1>3, <2>1, <2>2, EntryKeepsSound
<1>4. CASE n # m /\ status # m.status
  <2>1. /\ status \in Allowed(m.status)
        /\ ~ (m.status = "blocked" /\ status = "in_progress" /\ HeldByAnother(m, c) /\ ~ note)
        /\ n = [m EXCEPT !.status = status,
                         !.claimant = IF status = "in_progress" THEN c ELSE @,
                         !.log = Append(@, Entry(status, c, note))]
    BY <1>1, <1>4 DEF Moved, None, States
  <2>2. /\ DOMAIN n = Fields /\ n.status = status
        /\ n.claimant = IF status = "in_progress" THEN c ELSE m.claimant
        /\ n.log = Append(m.log, Entry(status, c, note))
    BY <2>1 DEF Sound, Fields
  <2>3. status \in States /\ (m.status = "in_progress" => status # "in_progress")
    BY <1>1, <2>1 DEF Allowed, States
  <2>4. (status = "in_progress" /\ m.status \in {"in_progress", "blocked"} /\ HeldByAnother(m, c)) => note
    BY <2>1, <2>3
  <2>5. status \in Allowed(m.status)
    BY <2>1
  <2> QED
    BY <2>2, <2>3, <2>4, <2>5, EntryKeepsSound
<1> QED
  BY <1>2, <1>3, <1>4

\* A new task is sound: it is open, and nobody's.
LEMMA FreshIsSound ==
  ASSUME NEW by \in Callers \cup {"somebody"}, NEW parent
  PROVE  Sound(Fresh(by, parent))
<1> DEFINE m == Fresh(by, parent)
           e == Entry("open", by, FALSE)
<1>1. DOMAIN m = Fields /\ m.status = "open" /\ m.claimant = None /\ m.log = <<e>>
  BY DEF Fresh, Fields
<1>2. e \in Entries /\ e.status = "open"
  BY DEF Entry, Entries, States
<1> HIDE DEF m, e
<1>3. m.log \in Seq(Entries) /\ Len(m.log) = 1 /\ m.log[1] = e /\ DOMAIN m.log = {1}
  BY <1>1, <1>2
<1>4. Claims(m.log) = {}
  BY <1>2, <1>3 DEF Claims
<1>5. SoundLog(m.log)
  BY <1>3, <1>4 DEF SoundLog, Held
<1> QED
  BY <1>1, <1>2, <1>3, <1>4, <1>5 DEF Sound, Claimant, m

-----------------------------------------------------------------------------
\* A caller that goes on, or ends, holds what it held.
LEMMA CallsKeep ==
  ASSUME TasksInv, NEW c \in Callers, NEW next,
         call' = [call EXCEPT ![c] = next],
         next.at \in {"link", "linking", "unlink", "write"} => Sound(next.meta)
  PROVE  DOMAIN call' = Callers /\ \A d \in Callers : Writing(d)' => Sound(call'[d].meta)
BY DEF TasksInv, Writing

\* The call reads the metadata and makes its change to it (_update_task).
LEMMA ReadKeeps ==
  ASSUME None \notin Callers, TasksInv, NEW c \in Callers, NEW t \in Tasks, UpdateReads(c, t)
  PROVE  TasksInv'
<1>1. PICK status \in Tried \cup {None}, note \in BOOLEAN, parent \in Tasks \cup {None, Detach} :
         \E m \in Moved(task[t], c, status, note) :
            Starts(c, [at |-> IF parent = None THEN "write"
                              ELSE IF parent = Detach THEN "unlink" ELSE "link",
                       task |-> t, meta |-> m, parent |-> parent])
  BY DEF UpdateReads
<1> PICK m \in Moved(task[t], c, status, note) :
         Starts(c, [at |-> IF parent = None THEN "write"
                           ELSE IF parent = Detach THEN "unlink" ELSE "link",
                    task |-> t, meta |-> m, parent |-> parent])
  BY <1>1
<1>2. Sound(task[t])
  BY DEF UpdateReads, TasksInv
<1>3. Sound(m)
  BY <1>2, MovedIsSound
<1> DEFINE next == [at |-> IF parent = None THEN "write"
                           ELSE IF parent = Detach THEN "unlink" ELSE "link",
                    task |-> t, meta |-> m, parent |-> parent]
<1>4. call' = [call EXCEPT ![c] = next] /\ next.meta = m /\ UNCHANGED task
  BY DEF Starts, MayStart, UpdateReads
<1> HIDE DEF next
<1>5. DOMAIN call' = Callers /\ \A d \in Callers : Writing(d)' => Sound(call'[d].meta)
  BY <1>3, <1>4, CallsKeep
<1> QED
  BY <1>4, <1>5 DEF TasksInv, Exists

\* The steps between reading and writing touch the edges, and the parent in what
\* will be written (_reparent_task).
LEMMA LinkingKeeps ==
  ASSUME TasksInv, NEW c \in Callers,
         Link(c) \/ AddParentEdge(c) \/ Unlink(c) \/ LinkBorn(c) \/ CutOff(c)
  PROVE  TasksInv'
<1>1. UNCHANGED task
  BY DEF Link, AddParentEdge, Unlink, LinkBorn, CutOff
<1>2. CASE Ends(c)
  <2>1. Idle.at \notin {"link", "linking", "unlink", "write"}
    BY DEF Idle
  <2> QED
    BY <1>1, <1>2, <2>1, CallsKeep DEF Ends, TasksInv, Exists
<1>3. CASE \E at \in {"linking", "unlink"} : Goes(c, at) /\ (Link(c) \/ AddParentEdge(c))
  BY <1>1, <1>3 DEF Goes, Link, AddParentEdge, At, TasksInv, Exists, Writing
<1>4. CASE Unlink(c)
  <2>1. /\ DOMAIN call' = Callers /\ \A d \in Callers \ {c} : call'[d] = call[d]
        /\ Sound(call[c].meta)
        /\ DOMAIN call'[c].meta = DOMAIN call[c].meta
        /\ \A f \in {"status", "claimant", "log"} : call'[c].meta[f] = call[c].meta[f]
    BY <1>4 DEF Unlink, At, TasksInv, Writing
  <2>2. Sound(call'[c].meta)
    BY <2>1 DEF Sound
  <2> QED
    BY <1>1, <2>1, <2>2 DEF TasksInv, Exists, Writing
<1> QED
  BY <1>2, <1>3, <1>4 DEF Link, AddParentEdge, LinkBorn, CutOff

\* What was prepared is written, over whatever another call wrote since
\* (update_node).
LEMMA WriteKeeps ==
  ASSUME TasksInv, NEW c \in Callers, Write(c)
  PROVE  TasksInv'
<1>1. Sound(call[c].meta)
  BY DEF Write, At, TasksInv, Writing
<1>2. Idle.at \notin {"link", "linking", "unlink", "write"}
  BY DEF Idle
<1>3. DOMAIN call' = Callers /\ \A d \in Callers : Writing(d)' => Sound(call'[d].meta)
  BY <1>2, CallsKeep DEF Write, Ends
<1>4. DOMAIN task' = Tasks /\ \A t \in Tasks : Exists(t)' => Sound(task'[t])
  BY <1>1 DEF Write, TasksInv, Exists
<1> QED
  BY <1>3, <1>4 DEF TasksInv

\* Tasks that are added or removed (cognition_add_task, cognition_remove_node).
LEMMA BirthsKeep ==
  ASSUME TasksInv, NEW t \in Tasks, (\E c \in Callers : AddTask(c, t)) \/ RemoveTask(t)
  PROVE  TasksInv'
<1>1. CASE RemoveTask(t)
  BY <1>1 DEF RemoveTask, TasksInv, Exists, NoTask, Writing
<1>2. CASE \E c \in Callers : AddTask(c, t)
  <2> PICK c \in Callers : AddTask(c, t)
    BY <1>2
  <2> PICK parent \in {None} \cup Tasks :
         /\ call' = [call EXCEPT ![c] = [at |-> IF parent = None THEN "idle" ELSE "born",
                                         task |-> t, parent |-> parent]]
         /\ task' = [task EXCEPT ![t] = Fresh(c, parent)]
    BY DEF AddTask, MayStart, Starts
  <2> DEFINE next == [at |-> IF parent = None THEN "idle" ELSE "born",
                      task |-> t, parent |-> parent]
  <2>1. next.at \notin {"link", "linking", "unlink", "write"} /\ call' = [call EXCEPT ![c] = next]
    OBVIOUS
  <2> HIDE DEF next
  <2>2. DOMAIN call' = Callers /\ \A d \in Callers : Writing(d)' => Sound(call'[d].meta)
    BY <2>1, CallsKeep
  <2>3. DOMAIN task' = Tasks /\ \A u \in Tasks : Exists(u)' => Sound(task'[u])
    BY FreshIsSound DEF TasksInv, Exists
  <2> QED
    BY <2>2, <2>3 DEF TasksInv
<1> QED
  BY <1>1, <1>2

-----------------------------------------------------------------------------

\* At first there are no tasks, and nobody calls.
LEMMA InitTasks == Init => TasksInv
<1> SUFFICES ASSUME Init PROVE TasksInv
  OBVIOUS
<1>1. \A t \in Tasks : Sound(task[t])
  BY FreshIsSound DEF Init
<1> QED
  BY <1>1 DEF Init, TasksInv, Writing, Idle

\* Every step of every call keeps the logs in order.
LEMMA NextTasks == TasksInv /\ [Next]_vars => TasksInv'
<1> SUFFICES ASSUME TasksInv, [Next]_vars
             PROVE  TasksInv'
  OBVIOUS
<1>1. CASE UNCHANGED vars
  BY <1>1 DEF vars, TasksInv, Exists, Writing
<1>2. ASSUME NEW c \in Callers, NEW t \in Tasks, UpdateReads(c, t) PROVE TasksInv'
  BY <1>2, TasksAssumption, ReadKeeps
<1>3. ASSUME NEW c \in Callers, Link(c) \/ AddParentEdge(c) \/ Unlink(c) \/ LinkBorn(c) \/ CutOff(c)
      PROVE  TasksInv'
  BY <1>3, LinkingKeeps
<1>4. ASSUME NEW c \in Callers, Write(c) PROVE TasksInv'
  BY <1>4, WriteKeeps
<1>5. ASSUME NEW t \in Tasks, (\E c \in Callers : AddTask(c, t)) \/ RemoveTask(t)
      PROVE  TasksInv'
  BY <1>5, BirthsKeep
<1> QED
  BY <1>1, <1>2, <1>3, <1>4, <1>5 DEF Next

\* However many calls read and write back one task at the same time, and wherever
\* they are cut off, its status and its claimant are those of its log, every step
\* of the log is allowed, and nobody took the task of another person without a
\* note (_update_task).
THEOREM LogAlwaysTells == Spec => []LogTellsTheState
<1>1. TasksInv => LogTellsTheState
  BY DEF TasksInv, LogTellsTheState, Sound, SoundLog, Follows, Held, Claimant
<1> QED
  BY <1>1, InitTasks, NextTasks, PTL DEF Spec

-----------------------------------------------------------------------------
(* Tasks: the ancestors of one.                                             *)

StepUp(parent, S) == S \cup {parent[t] : t \in S \cap Tasks}
FarUp(parent, start, n) ==
    CHOOSE far : far = [k \in 0..n |-> IF k = 0 THEN start ELSE StepUp(parent, far[k - 1])]

\* The steps upwards are defined by the steps before them.
LEMMA StepsUp ==
    ASSUME NEW parent, NEW start, NEW n \in Nat
    PROVE  FarUp(parent, start, n)
             = [k \in 0..n |-> IF k = 0 THEN start ELSE StepUp(parent, FarUp(parent, start, n)[k - 1])]
<1> DEFINE Is(f, m) == f = [k \in 0..m |-> IF k = 0 THEN start ELSE StepUp(parent, f[k - 1])]
           T == {m \in Nat : ~ \E f : Is(f, m)}
<1>1. T = {}
  <2> SUFFICES ASSUME T # {} PROVE FALSE
    OBVIOUS
  <2>1. PICK m \in T : \A x \in T : m <= x
    BY LeastNumber
  <2>2. CASE m = 0
    <3> DEFINE f == [k \in 0..0 |-> start]
    <3>1. Is(f, 0)
      OBVIOUS
    <3> QED
      BY <2>1, <2>2, <3>1
  <2>3. CASE m # 0
    <3>1. m - 1 \in Nat /\ ~ (m <= m - 1)
      BY <2>1, <2>3
    <3>2. PICK g : Is(g, m - 1)
      BY <2>1, <3>1
    <3> DEFINE f == [k \in 0..m |-> IF k = m THEN StepUp(parent, g[m - 1]) ELSE g[k]]
    <3>3. \A k \in 0..m : f[k] = IF k = 0 THEN start ELSE StepUp(parent, f[k - 1])
      BY <2>1, <2>3, <3>2
    <3>4. Is(f, m)
      BY <3>3
    <3> QED
      BY <2>1, <3>4
  <2> QED
    BY <2>2, <2>3
<1>2. \E f : Is(f, n)
  BY <1>1
<1> QED
  BY <1>2 DEF FarUp

\* The ancestors are what the last of those steps has found.
LEMMA UpIsFar ==
    ASSUME NEW parent, NEW start
    PROVE  Up(parent, start) = FarUp(parent, start, Cardinality(Tasks))[Cardinality(Tasks)]
BY DEF Up, FarUp, StepUp

Closed(parent, S) == \A t \in S \cap Tasks : parent[t] \in S

\* A set that holds the parents of its own holds the ancestors.
LEMMA UpIsLeast ==
    ASSUME NEW parent, NEW start, NEW S, start \subseteq S, Closed(parent, S)
    PROVE  Up(parent, start) \subseteq S
<1> DEFINE N == Cardinality(Tasks)
           far == FarUp(parent, start, N)
           T == {k \in Nat : k <= N /\ ~ (far[k] \subseteq S)}
<1>1. N \in Nat
  BY TasksAssumption, FS_CardinalityType
<1>2. far = [k \in 0..N |-> IF k = 0 THEN start ELSE StepUp(parent, far[k - 1])]
  BY <1>1, StepsUp
<1> HIDE DEF far, N
<1>3. T = {}
  <2> SUFFICES ASSUME T # {} PROVE FALSE
    OBVIOUS
  <2>1. PICK k \in T : \A j \in T : k <= j
    BY LeastNumber
  <2>2. k # 0
    BY <1>1, <1>2, <2>1
  <2>3. k - 1 \in Nat /\ k - 1 <= N /\ ~ (k <= k - 1) /\ far[k] = StepUp(parent, far[k - 1])
    BY <1>1, <1>2, <2>1, <2>2
  <2>4. far[k - 1] \subseteq S
    BY <2>1, <2>3
  <2> QED
    BY <2>1, <2>3, <2>4 DEF StepUp, Closed
<1>4. far[N] \subseteq S
  BY <1>1, <1>3
<1> QED
  BY <1>4, UpIsFar DEF far, N

\* The ancestors hold the parents of their own: each step but the last finds a task
\* that was not found before.
LEMMA UpIsClosed ==
    ASSUME NEW parent, NEW start
    PROVE  start \subseteq Up(parent, start) /\ Closed(parent, Up(parent, start))
<1> DEFINE N == Cardinality(Tasks)
           far == FarUp(parent, start, N)
           OK(k) == /\ start \subseteq far[k]
                    /\ Closed(parent, far[k]) \/ Cardinality(far[k] \cap Tasks) > k
           T == {k \in Nat : k <= N /\ ~ OK(k)}
<1>1. N \in Nat
  BY TasksAssumption, FS_CardinalityType
<1>2. far = [k \in 0..N |-> IF k = 0 THEN start ELSE StepUp(parent, far[k - 1])]
  BY <1>1, StepsUp
<1> HIDE DEF far, N
<1>3. \A S : IsFiniteSet(S \cap Tasks) /\ Cardinality(S \cap Tasks) \in Nat
             /\ Cardinality(S \cap Tasks) <= N
  BY TasksAssumption, FS_Subset, FS_CardinalityType DEF N
<1>4. T = {}
  <2> SUFFICES ASSUME T # {} PROVE FALSE
    OBVIOUS
  <2>1. PICK k \in T : \A j \in T : k <= j
    BY LeastNumber
  <2>2. CASE k = 0
    <3>1. far[0] = start
      BY <1>1, <1>2
    <3>2. start \cap Tasks = {} => Closed(parent, start)
      BY DEF Closed
    <3>3. start \cap Tasks # {} => Cardinality(start \cap Tasks) > 0
      BY <1>3, FS_EmptySet
    <3> QED
      BY <2>1, <2>2, <3>1, <3>2, <3>3
  <2>3. CASE k # 0
    <3>1. k - 1 \in Nat /\ k - 1 <= N /\ ~ (k <= k - 1) /\ far[k] = StepUp(parent, far[k - 1])
      BY <1>1, <1>2, <2>1, <2>3
    <3>2. OK(k - 1)
      BY <2>1, <3>1
    <3> DEFINE A == far[k - 1]
               B == far[k]
    <3>3. B = StepUp(parent, A) /\ A \subseteq B
      BY <3>1 DEF StepUp
    <3> HIDE DEF A, B
    <3>4. CASE Closed(parent, A) \/ A \cap Tasks = B \cap Tasks
      <4>1. Closed(parent, B)
        BY <3>3, <3>4 DEF Closed, StepUp
      <4> QED
        BY <2>1, <3>2, <3>3, <4>1 DEF A, B
    <3>5. CASE ~ Closed(parent, A) /\ A \cap Tasks # B \cap Tasks
      <4>1. Cardinality(A \cap Tasks) < Cardinality(B \cap Tasks)
        <5>1. A \cap Tasks \subseteq B \cap Tasks
          BY <3>3
        <5>2. /\ Cardinality(A \cap Tasks) <= Cardinality(B \cap Tasks)
              /\ Cardinality(B \cap Tasks) = Cardinality(A \cap Tasks) => B \cap Tasks = A \cap Tasks
          BY <1>3, <5>1, FS_Subset
        <5> QED
          BY <1>3, <3>5, <5>2
      <4>2. Cardinality(A \cap Tasks) > k - 1
        BY <3>2, <3>5 DEF A
      <4>3. Cardinality(B \cap Tasks) > k
        <5>1. k \in Nat /\ Cardinality(A \cap Tasks) \in Nat /\ Cardinality(B \cap Tasks) \in Nat
          BY <1>3, <2>1
        <5> HIDE DEF T
        <5> QED
          BY <4>1, <4>2, <5>1
      <4> QED
        BY <2>1, <3>2, <3>3, <4>3 DEF A, B
    <3> QED
      BY <3>4, <3>5
  <2> QED
    BY <2>2, <2>3
<1>5. OK(N)
  BY <1>1, <1>4
<1>6. ~ (Cardinality(far[N] \cap Tasks) > N)
  BY <1>1, <1>3
<1> QED
  BY <1>5, <1>6, UpIsFar DEF far, N

\* Nothing is above None.
LEMMA NoneIsRoot == \A parent : \A t \in Tasks : t \notin Up(parent, {None})
<1> SUFFICES ASSUME NEW parent, NEW t \in Tasks PROVE t \notin Up(parent, {None})
  OBVIOUS
<1>1. Closed(parent, {None})
  BY TasksAssumption DEF Closed
<1> QED
  BY <1>1, TasksAssumption, UpIsLeast

Acyclic(parent) == \A t \in Tasks : t \notin Up(parent, {parent[t]})

\* A task that is put under one it is not above closes no cycle.
LEMMA AttachKeeps ==
    ASSUME NEW parent, DOMAIN parent = Tasks, Acyclic(parent), NEW t \in Tasks, NEW p,
           t \notin Up(parent, {p})
    PROVE  Acyclic([parent EXCEPT ![t] = p])
<1> DEFINE new == [parent EXCEPT ![t] = p]
           W == Up(parent, {p})
<1>1. p \in W /\ Closed(parent, W) /\ t \notin W
  BY UpIsClosed
<1>2. new[t] = p /\ \A u \in Tasks \ {t} : new[u] = parent[u]
  OBVIOUS
<1> HIDE DEF new, W
<1> SUFFICES ASSUME NEW u \in Tasks PROVE u \notin Up(new, {new[u]})
  BY DEF Acyclic, new
<1>3. CASE u = t
  <2>1. Closed(new, W)
    BY <1>1, <1>2 DEF Closed
  <2> QED
    BY <1>1, <1>2, <1>3, <2>1, UpIsLeast
<1>4. CASE u # t
  <2> DEFINE V == Up(parent, {parent[u]})
  <2>1. parent[u] \in V /\ Closed(parent, V) /\ u \notin V
    BY UpIsClosed DEF Acyclic
  <2> HIDE DEF V
  <2>2. CASE t \notin V
    <3>1. Closed(new, V)
      BY <1>2, <2>1, <2>2 DEF Closed
    <3> QED
      BY <1>2, <1>4, <2>1, <3>1, UpIsLeast
  <2>3. CASE t \in V
    <3>1. Closed(new, V \cup W)
      BY <1>1, <1>2, <2>1 DEF Closed
    <3>2. u \notin W
      <4> SUFFICES ASSUME u \in W PROVE FALSE
        OBVIOUS
      <4>1. {parent[u]} \subseteq W
        BY <1>1 DEF Closed
      <4>2. V \subseteq W
        BY <1>1, <4>1, UpIsLeast DEF V
      <4> QED
        BY <1>1, <2>3, <4>2
    <3>3. Up(new, {new[u]}) \subseteq V \cup W
      BY <1>2, <1>4, <2>1, <3>1, UpIsLeast
    <3> QED
      BY <2>1, <3>2, <3>3
  <2> QED
    BY <2>2, <2>3
<1> QED
  BY <1>3, <1>4

\* A task that comes off its parent leaves the others below fewer.
LEMMA DetachKeeps ==
    ASSUME NEW parent, DOMAIN parent = Tasks, NEW t \in Tasks, NEW u \in Tasks, NEW p,
           u \notin Up(parent, {p})
    PROVE  u \notin Up([parent EXCEPT ![t] = None], {p})
<1> DEFINE new == [parent EXCEPT ![t] = None]
           W == Up(parent, {p})
<1>1. p \in W /\ Closed(parent, W) /\ u \notin W
  BY UpIsClosed
<1>2. new[t] = None /\ \A v \in Tasks \ {t} : new[v] = parent[v]
  OBVIOUS
<1> HIDE DEF new, W
<1>3. Closed(new, W \cup {None})
  BY <1>1, <1>2, TasksAssumption DEF Closed
<1>4. Up(new, {p}) \subseteq W \cup {None}
  BY <1>1, <1>3, UpIsLeast
<1> QED
  BY <1>1, <1>4, TasksAssumption DEF new

-----------------------------------------------------------------------------
(* The tree while calls follow one another.                                  *)

Under(c) == call[c].at # "idle"
Agrees(t, parents) ==
    Exists(t) => {p \in Tasks : <<t, p>> \in edges} = parents \cap {p \in Tasks : Exists(p)}

(* t would not be below itself if p were its parent.                         *)
Above(t, p) == t \notin Up(Parent, {p})

(* What the call under way knows of the tree, step by step.                  *)
KnowsParent(x) ==
    Exists(x.task) => x.meta.parent = task[x.task].parent
LinkOK(x) ==
    /\ x.parent \in Tasks /\ KnowsParent(x) /\ Agrees(x.task, {x.meta.parent})
    /\ x.at = "linking" => Above(x.task, x.parent)
UnlinkOK(x) ==
    /\ KnowsParent(x)
    /\ x.parent = Detach => Agrees(x.task, {x.meta.parent})
    /\ x.parent # Detach => /\ x.parent \in Tasks /\ Above(x.task, x.parent)
                            /\ Agrees(x.task, {x.meta.parent, x.parent})
WriteOK(x) == Agrees(x.task, {x.meta.parent}) /\ Above(x.task, x.meta.parent)
BornOK(x) ==
    /\ x.parent \in Tasks /\ Agrees(x.task, {})
    /\ Exists(x.task) => task[x.task].parent = x.parent

CallKnows(c) ==
    Under(c) =>
        /\ call[c].task \in Tasks
        /\ call[c].at \in {"link", "linking", "unlink", "write", "born"}
        /\ call[c].at # "born" => call[c].meta.parent \in Tasks \cup {None}
        /\ call[c].at \in {"link", "linking"} => LinkOK(call[c])
        /\ call[c].at = "unlink" => UnlinkOK(call[c])
        /\ call[c].at = "write" => WriteOK(call[c])
        /\ call[c].at = "born" => BornOK(call[c])

Alone == \A c, d \in Callers : Under(c) /\ Under(d) => c = d
ParentsAreTasks == \A t \in Tasks : task[t].parent \in Tasks \cup {None}

TreeOK ==
    /\ Alone /\ ParentsAreTasks /\ InTree
    /\ \A t \in Tasks : ~ Busy(t) => Agrees(t, {task[t].parent})
    /\ \A c \in Callers : CallKnows(c)

TreeInv == TasksInv /\ raced \in BOOLEAN /\ (~ raced => TreeOK)

-----------------------------------------------------------------------------

\* What holds of the tree when no task changes.
LEMMA SameTasks ==
    ASSUME UNCHANGED task
    PROVE  /\ Parent' = Parent /\ InTree' = InTree /\ ParentsAreTasks' = ParentsAreTasks
           /\ \A t : Exists(t)' = Exists(t)
           /\ \A t, p : Above(t, p)' = Above(t, p)
<1>1. Parent' = Parent
  BY DEF Parent
<1> QED
  BY <1>1 DEF InTree, ParentsAreTasks, Exists, Above

\* The parents, as they are stored.
LEMMA ParentIs ==
    /\ DOMAIN Parent = Tasks /\ \A t \in Tasks : Parent[t] = task[t].parent
    /\ InTree <=> Acyclic(Parent)
BY DEF Parent, InTree, Acyclic

\* A step of the only call under way, or of one that starts alone.
LEMMA OnlyCall ==
    ASSUME TasksInv, NEW c \in Callers, NEW x, call' = [call EXCEPT ![c] = x],
           \A d \in Callers \ {c} : ~ Under(d),
           ParentsAreTasks', InTree', x.at # "idle" => CallKnows(c)',
           \A t \in Tasks : x.at = "idle" \/ x.task # t => Agrees(t, {task[t].parent})'
    PROVE  TreeOK'
<1>1. call'[c] = x /\ \A d \in Callers \ {c} : call'[d] = call[d] /\ call'[d].at = "idle"
  BY DEF TasksInv, Under
<1>2. Alone' /\ \A d \in Callers : CallKnows(d)'
  BY <1>1 DEF Alone, CallKnows, Under
<1>3. \A t \in Tasks : ~ Busy(t)' => x.at = "idle" \/ x.task # t
  BY <1>1 DEF Busy
<1> QED
  BY <1>2, <1>3 DEF TreeOK

\* The call that is under way is the only one.
LEMMA Others ==
    ASSUME TreeOK, NEW c \in Callers, Under(c)
    PROVE  /\ \A d \in Callers \ {c} : ~ Under(d)
           /\ \A t \in Tasks : call[c].task # t => ~ Busy(t) /\ Agrees(t, {task[t].parent})
           /\ CallKnows(c)
<1>1. \A d \in Callers \ {c} : ~ Under(d)
  BY DEF TreeOK, Alone
<1>2. \A t \in Tasks : call[c].task # t => ~ Busy(t)
  BY <1>1 DEF Busy, Under
<1> QED
  BY <1>1, <1>2 DEF TreeOK

\* A caller that did nothing yet is idle.
LEMMA IdleIs == Idle.at = "idle"
BY DEF Idle

\* A call that ends leaves the tree as it knows it.
LEMMA EndsWell ==
    ASSUME TasksInv, TreeOK, NEW c \in Callers, Under(c), Ends(c), UNCHANGED <<task, edges>>,
           Agrees(call[c].task, {task[call[c].task].parent})
    PROVE  TreeOK'
<1>1. \A t \in Tasks : Agrees(t, {task[t].parent})
  BY Others
<1>2. \A t \in Tasks : Agrees(t, {task[t].parent})'
  BY <1>1 DEF Agrees, Exists
<1>3. InTree' /\ ParentsAreTasks'
  BY SameTasks DEF TreeOK
<1> QED
  BY <1>2, <1>3, Others, OnlyCall, IdleIs DEF Ends

\* A call starts alone, with the metadata it read.
LEMMA ReadKeepsTree ==
    ASSUME TasksInv, ~ raced => TreeOK, raced \in BOOLEAN, ~ raced',
           NEW c \in Callers, NEW t \in Tasks, UpdateReads(c, t)
    PROVE  TreeOK'
<1>1. PICK status \in Tried \cup {None}, note \in BOOLEAN, parent \in Tasks \cup {None, Detach} :
         \E m \in Moved(task[t], c, status, note) :
            Starts(c, [at |-> IF parent = None THEN "write"
                              ELSE IF parent = Detach THEN "unlink" ELSE "link",
                       task |-> t, meta |-> m, parent |-> parent])
  BY DEF UpdateReads
<1> PICK m \in Moved(task[t], c, status, note) :
         Starts(c, [at |-> IF parent = None THEN "write"
                           ELSE IF parent = Detach THEN "unlink" ELSE "link",
                    task |-> t, meta |-> m, parent |-> parent])
  BY <1>1
<1> DEFINE x == [at |-> IF parent = None THEN "write"
                        ELSE IF parent = Detach THEN "unlink" ELSE "link",
                 task |-> t, meta |-> m, parent |-> parent]
<1>2. /\ call' = [call EXCEPT ![c] = x] /\ ~ raced /\ ~ Overlaps(c) /\ call[c].at = "idle"
      /\ UNCHANGED <<task, edges>>
  BY DEF Starts, MayStart, UpdateReads
<1>3. TreeOK /\ \A d \in Callers : ~ Under(d)
  BY <1>2 DEF Overlaps, Under
<1>4. \A u \in Tasks : ~ Busy(u) /\ Agrees(u, {task[u].parent})
  BY <1>3 DEF TreeOK, Busy, Under
<1>5. m.parent = task[t].parent
  <2>1. "parent" \in DOMAIN task[t]
    BY DEF UpdateReads, TasksInv, Sound, Fields
  <2> QED
    BY <2>1 DEF Moved, Takeover
<1>6. InTree' /\ ParentsAreTasks'
  BY <1>2, <1>3, SameTasks DEF TreeOK
<1>7. \A u \in Tasks : Agrees(u, {task[u].parent})'
  BY <1>2, <1>4 DEF Agrees, Exists
<1>8. m.parent \in Tasks \cup {None} /\ Above(t, m.parent)
  BY <1>3, <1>5, ParentIs DEF TreeOK, ParentsAreTasks, Above, InTree
<1>9. Above(t, m.parent)'
  BY <1>2, <1>8, SameTasks
<1>10. call'[c] = x
  BY <1>2 DEF TasksInv
<1>11. CallKnows(c)'
  <2>1. KnowsParent(x)' /\ Agrees(t, {m.parent})'
    BY <1>2, <1>5, <1>7 DEF KnowsParent
  <2>2. CASE parent = None
    BY <1>8, <1>9, <1>10, <2>1, <2>2, TasksAssumption DEF CallKnows, WriteOK
  <2>3. CASE parent = Detach
    BY <1>8, <1>10, <2>1, <2>3, TasksAssumption DEF CallKnows, UnlinkOK, None, Detach
  <2>4. CASE parent \in Tasks
    BY <1>8, <1>10, <2>1, <2>4, TasksAssumption DEF CallKnows, LinkOK
  <2> QED
    BY <2>2, <2>3, <2>4
<1> HIDE DEF x
<1> QED
  BY <1>2, <1>3, <1>6, <1>7, <1>11, OnlyCall

\* The new parent is checked (_task_ancestor_ids).
LEMMA LinkKeepsTree ==
    ASSUME TasksInv, TreeOK, NEW c \in Callers, Link(c)
    PROVE  TreeOK'
<1>1. Under(c) /\ call[c].at = "link" /\ UNCHANGED <<task, edges>>
  BY DEF Link, At, Under
<1>2. /\ LinkOK(call[c]) /\ call[c].task \in Tasks /\ call[c].meta.parent \in Tasks \cup {None}
      /\ Agrees(call[c].task, {task[call[c].task].parent})
  BY <1>1, Others DEF CallKnows, LinkOK, KnowsParent, Agrees
<1>3. CASE Ends(c)
  BY <1>1, <1>2, <1>3, EndsWell
<1>4. CASE /\ Goes(c, "linking") /\ call[c].parent # call[c].task
           /\ ~ BelowItself(call[c].task, call[c].parent)
  <2> DEFINE x == [call[c] EXCEPT !.at = "linking"]
  <2>1. call' = [call EXCEPT ![c] = x]
    BY <1>4 DEF Goes
  <2>2. /\ call'[c].at = "linking" /\ call'[c].task = call[c].task
        /\ call'[c].meta = call[c].meta /\ call'[c].parent = call[c].parent /\ call'[c] = x
    BY <1>1, <2>1 DEF TasksInv
  <2>3. Above(call[c].task, call[c].parent)
    BY <1>2, <1>4 DEF BelowItself, Above, LinkOK
  <2>4. CallKnows(c)'
    BY <1>1, <1>2, <2>2, <2>3, SameTasks DEF CallKnows, LinkOK, KnowsParent, Agrees
  <2>5. \A t \in Tasks : call[c].task # t => Agrees(t, {task[t].parent})'
    BY <1>1, Others DEF Agrees, Exists
  <2>6. InTree' /\ ParentsAreTasks'
    BY <1>1, SameTasks DEF TreeOK
  <2> HIDE DEF x
  <2> QED
    BY <1>1, <2>1, <2>2, <2>4, <2>5, <2>6, Others, OnlyCall
<1> QED
  BY <1>3, <1>4 DEF Link

\* The new edge is added beside the old one (_reparent_task).
LEMMA AddParentEdgeKeepsTree ==
    ASSUME TasksInv, TreeOK, NEW c \in Callers, AddParentEdge(c)
    PROVE  TreeOK'
<1>1. Under(c) /\ call[c].at = "linking" /\ UNCHANGED task
  BY DEF AddParentEdge, At, Under
<1> PICK t, m, p : t = call[c].task /\ m = call[c].meta.parent /\ p = call[c].parent
  OBVIOUS
<1>2. /\ t \in Tasks /\ p \in Tasks /\ m \in Tasks \cup {None} /\ Above(t, p)
      /\ Agrees(t, {m}) /\ Agrees(t, {task[t].parent})
      /\ Exists(t) => m = task[t].parent
  BY <1>1, Others DEF CallKnows, LinkOK, KnowsParent, Agrees
<1>3. CASE Ends(c) /\ UNCHANGED edges
  BY <1>1, <1>2, <1>3, EndsWell
<1>4. CASE Exists(t) /\ Exists(p) /\ Goes(c, "unlink") /\ edges' = edges \cup {<<t, p>>}
  <2> DEFINE x == [call[c] EXCEPT !.at = "unlink"]
  <2>1. call' = [call EXCEPT ![c] = x]
    BY <1>4 DEF Goes
  <2>2. /\ call'[c].at = "unlink" /\ call'[c].task = t /\ call'[c].meta.parent = m
        /\ call'[c].parent = p /\ x.at = "unlink" /\ x.task = t
    BY <1>1, <2>1 DEF TasksInv
  <2>3. p # Detach
    BY <1>2, TasksAssumption
  <2>4. Agrees(t, {m, p})'
    BY <1>1, <1>2, <1>4, SameTasks DEF Agrees
  <2>5. CallKnows(c)'
    <3>1. Above(t, p)'
      BY <1>1, <1>2, SameTasks
    <3> QED
      BY <1>1, <1>2, <2>2, <2>3, <2>4, <3>1, SameTasks
         DEF CallKnows, UnlinkOK, KnowsParent, Agrees, Above
  <2>6. \A u \in Tasks : u # t => Agrees(u, {task[u].parent})'
    BY <1>1, <1>4, Others DEF Agrees, Exists
  <2>7. InTree' /\ ParentsAreTasks'
    BY <1>1, SameTasks DEF TreeOK
  <2> HIDE DEF x
  <2> QED
    BY <1>1, <2>1, <2>2, <2>5, <2>6, <2>7, Others, OnlyCall
<1> QED
  BY <1>3, <1>4 DEF AddParentEdge

\* The old edge goes, and the new parent is in what will be written.
LEMMA UnlinkKeepsTree ==
    ASSUME TasksInv, TreeOK, NEW c \in Callers, Unlink(c)
    PROVE  TreeOK'
<1>1. Under(c) /\ call[c].at = "unlink" /\ UNCHANGED task /\ edges' = WithoutOld(call[c])
  BY DEF Unlink, At, Under
<1> PICK t, m, p : /\ t = call[c].task /\ m = call[c].meta.parent
                   /\ p = IF call[c].parent = Detach THEN None ELSE call[c].parent
  OBVIOUS
<1>2. /\ UnlinkOK(call[c]) /\ t \in Tasks /\ m \in Tasks \cup {None}
      /\ p \in Tasks \cup {None} /\ Above(t, p)
  BY <1>1, Others, NoneIsRoot DEF CallKnows, UnlinkOK, Above
<1>3. PICK x : /\ call' = [call EXCEPT ![c] = x] /\ call'[c] = x
               /\ x.at = "write" /\ x.task = t /\ x.meta.parent = p
  <2>1. "parent" \in DOMAIN call[c].meta
    BY <1>1 DEF TasksInv, Writing, Sound, Fields
  <2> DEFINE x == [call[c] EXCEPT !.at = "write", !.meta.parent = p]
  <2>2. call' = [call EXCEPT ![c] = x]
    BY DEF Unlink
  <2>3. call'[c] = x
    BY <2>2 DEF TasksInv
  <2>4. x.at = "write" /\ x.task = t /\ x.meta.parent = p
    BY <1>1, <1>2, <2>1
  <2> QED
    BY <2>2, <2>3, <2>4
<1>4. Agrees(t, {p})'
  <2>1. CASE call[c].parent = Detach
    BY <1>1, <1>2, <2>1, SameTasks, TasksAssumption DEF UnlinkOK, WithoutOld, Agrees, None, Detach
  <2>2. CASE call[c].parent # Detach
    BY <1>1, <1>2, <2>2, SameTasks, TasksAssumption DEF UnlinkOK, WithoutOld, Agrees
  <2> QED
    BY <2>1, <2>2
<1>5. CallKnows(c)'
  <2>1. Above(t, p)'
    BY <1>1, <1>2, SameTasks
  <2> QED
    BY <1>2, <1>3, <1>4, <2>1 DEF CallKnows, WriteOK, Agrees, Above
<1>6. \A u \in Tasks : u # t => Agrees(u, {task[u].parent})'
  BY <1>1, Others DEF Agrees, Exists, WithoutOld
<1>7. InTree' /\ ParentsAreTasks'
  BY <1>1, SameTasks DEF TreeOK
<1> QED
  BY <1>1, <1>3, <1>5, <1>6, <1>7, Others, OnlyCall

\* The new parent is written (update_node).
LEMMA WriteKeepsTree ==
    ASSUME TasksInv, TreeOK, NEW c \in Callers, Write(c)
    PROVE  TreeOK'
<1>1. Under(c) /\ call[c].at = "write" /\ UNCHANGED edges /\ call' = [call EXCEPT ![c] = Idle]
  BY DEF Write, At, Under, Ends
<1> DEFINE t == call[c].task
           m == call[c].meta
<1>2. t \in Tasks /\ m.parent \in Tasks \cup {None} /\ Agrees(t, {m.parent}) /\ Above(t, m.parent)
  BY <1>1, Others DEF CallKnows, WriteOK
<1>3. \A u \in Tasks : u # t => Agrees(u, {task[u].parent})
  BY <1>1, Others
<1>4. CASE ~ Exists(t)
  <2>1. UNCHANGED task
    BY <1>4 DEF Write
  <2>2. Agrees(t, {task[t].parent})
    BY <1>4 DEF Agrees
  <2> QED
    BY <1>1, <2>1, <2>2, EndsWell DEF Ends
<1>5. CASE Exists(t)
  <2>1. task' = [task EXCEPT ![t] = m]
    BY <1>5 DEF Write
  <2>2. m.status # "none"
    <3>1. Sound(m)
      BY <1>1 DEF TasksInv, Writing
    <3>2. m.log \in Seq(Entries) /\ Len(m.log) \in 1 .. Len(m.log)
      BY <3>1 DEF Sound, SoundLog
    <3>3. m.log[Len(m.log)] \in Entries
      BY <3>2
    <3> QED
      BY <3>1, <3>3 DEF Sound, Entries, States
  <2> HIDE DEF t, m
  <2>3. task'[t] = m /\ \A u \in Tasks : u # t => task'[u] = task[u]
    BY <1>2, <2>1 DEF TasksInv
  <2>4. \A u \in Tasks : Exists(u)' <=> Exists(u)
    BY <1>5, <2>2, <2>3 DEF Exists
  <2>5. \A u \in Tasks : Agrees(u, {task[u].parent})'
    BY <1>1, <1>2, <1>3, <2>3, <2>4 DEF Agrees
  <2>6. InTree'
    <3>1. Parent' = [Parent EXCEPT ![t] = m.parent]
      BY <1>2, <2>3 DEF Parent
    <3>2. Acyclic(Parent)'
      BY <1>2, <3>1, ParentIs, AttachKeeps DEF TreeOK, Above, Acyclic
    <3> QED
      BY <3>2 DEF InTree, Acyclic, Parent
  <2>7. ParentsAreTasks'
    BY <1>2, <2>3 DEF TreeOK, ParentsAreTasks
  <2> QED
    BY <1>1, <2>5, <2>6, <2>7, Others, OnlyCall, IdleIs
<1> QED
  BY <1>4, <1>5

\* A task is added under one that is there (cognition_add_task).
LEMMA AddTaskKeepsTree ==
    ASSUME TasksInv, ~ raced => TreeOK, raced \in BOOLEAN, ~ raced',
           NEW c \in Callers, NEW t \in Tasks, AddTask(c, t)
    PROVE  TreeOK'
<1> PICK p \in {None} \cup {q \in Tasks : Exists(q)} :
       /\ Starts(c, [at |-> IF p = None THEN "idle" ELSE "born", task |-> t, parent |-> p])
       /\ task' = [task EXCEPT ![t] = Fresh(c, p)]
  BY DEF AddTask
<1> DEFINE x == [at |-> IF p = None THEN "idle" ELSE "born", task |-> t, parent |-> p]
<1>1. /\ call' = [call EXCEPT ![c] = x] /\ ~ raced /\ ~ Overlaps(c) /\ call[c].at = "idle"
      /\ UNCHANGED edges
  BY DEF Starts, MayStart, AddTask
<1>2. /\ ~ Exists(t) /\ t # p /\ p \in Tasks \cup {None}
      /\ \A e \in edges : t \notin {e[1], e[2]}
      /\ \A u \in Tasks : task[u].parent # t
  BY TasksAssumption DEF AddTask, Exists, NoTask
<1>3. TreeOK /\ \A d \in Callers : ~ Under(d)
  BY <1>1 DEF Overlaps, Under
<1>4. \A u \in Tasks : Agrees(u, {task[u].parent})
  BY <1>3 DEF TreeOK, Busy, Under
<1>5. /\ task'[t].parent = p /\ Exists(t)' /\ task'[t].status = "open"
      /\ \A u \in Tasks : u # t => task'[u] = task[u]
  BY DEF TasksInv, Fresh, Exists
<1>6. \A u \in Tasks : u # t => (Exists(u)' <=> Exists(u))
  BY <1>5 DEF Exists
<1>7. \A u \in Tasks : <<u, t>> \notin edges /\ <<t, u>> \notin edges
  BY <1>2
<1>8. \A u \in Tasks : u # t => Agrees(u, {task[u].parent})'
  BY <1>1, <1>2, <1>4, <1>5, <1>6, <1>7 DEF Agrees
<1>9. Agrees(t, {})'
  BY <1>1, <1>7 DEF Agrees
<1>10. p = None => Agrees(t, {task[t].parent})'
  BY <1>5, <1>9, TasksAssumption DEF Agrees
<1>11. InTree'
  <2> HIDE DEF x
  <2> DEFINE W == Up(Parent, {p})
  <2>1. Closed(Parent, W) /\ p \in W
    BY UpIsClosed
  <2> HIDE DEF W
  <2>2. Closed(Parent, W \ {t}) /\ {p} \subseteq W \ {t}
    BY <1>2, <2>1, ParentIs DEF Closed
  <2>3. t \notin W
    BY <2>2, UpIsLeast DEF W
  <2>4. Parent' = [Parent EXCEPT ![t] = p]
    <3>1. \A u \in Tasks : task'[u].parent = IF u = t THEN p ELSE task[u].parent
      BY <1>5
    <3> HIDE <1>5
    <3> QED
      BY ONLY <3>1 DEF Parent
  <2>5. Acyclic(Parent)'
    BY <1>3, <2>3, <2>4, ParentIs, AttachKeeps DEF TreeOK, W, Acyclic
  <2> QED
    BY <2>5 DEF InTree, Acyclic, Parent
<1>12. ParentsAreTasks'
  BY <1>2, <1>3, <1>5 DEF TreeOK, ParentsAreTasks
<1>13. x.at # "idle" => CallKnows(c)'
  BY <1>1, <1>2, <1>5, <1>9 DEF TasksInv, CallKnows, BornOK
<1>14. x.task = t /\ (x.at = "idle" => p = None)
  OBVIOUS
<1> HIDE DEF x
<1> QED
  BY <1>1, <1>3, <1>8, <1>10, <1>11, <1>12, <1>13, <1>14, OnlyCall

\* The new task gets its edge.
LEMMA LinkBornKeepsTree ==
    ASSUME TasksInv, TreeOK, NEW c \in Callers, LinkBorn(c)
    PROVE  TreeOK'
<1>1. Under(c) /\ call[c].at = "born" /\ UNCHANGED task /\ call' = [call EXCEPT ![c] = Idle]
  BY DEF LinkBorn, At, Under, Ends
<1> PICK t, p : t = call[c].task /\ p = call[c].parent
  OBVIOUS
<1>2. t \in Tasks /\ p \in Tasks /\ Agrees(t, {}) /\ (Exists(t) => task[t].parent = p)
  BY <1>1, Others DEF CallKnows, BornOK
<1>3. edges' = IF Exists(t) /\ Exists(p) THEN edges \cup {<<t, p>>} ELSE edges
  BY DEF LinkBorn
<1>4. \A u \in Tasks : u # t => Agrees(u, {task[u].parent})'
  BY <1>1, <1>3, Others DEF Agrees, Exists
<1>5. Agrees(t, {task[t].parent})'
  BY <1>1, <1>2, <1>3, SameTasks DEF Agrees
<1>6. InTree' /\ ParentsAreTasks'
  BY <1>1, SameTasks DEF TreeOK
<1> QED
  BY <1>1, <1>4, <1>5, <1>6, Others, OnlyCall, IdleIs

\* A task is removed with its edges, perhaps under a call (cognition_remove_node).
LEMMA RemoveKeepsTree ==
    ASSUME TasksInv, TreeOK, NEW t \in Tasks, RemoveTask(t)
    PROVE  TreeOK'
<1>1. /\ task'[t] = NoTask /\ \A u \in Tasks : u # t => task'[u] = task[u]
      /\ UNCHANGED call
      /\ edges' = {e \in edges : t \notin {e[1], e[2]}}
  BY DEF RemoveTask, TasksInv
<1>2. /\ ~ Exists(t)' /\ \A u \in Tasks : u # t => (Exists(u)' <=> Exists(u))
      /\ task'[t].parent = None
  BY <1>1 DEF Exists, NoTask
<1>3. \A u, p \in Tasks : u # t => (<<u, p>> \in edges' <=> <<u, p>> \in edges /\ p # t)
  BY <1>1
<1>4. \A u \in Tasks : \A ps : Agrees(u, ps) => Agrees(u, ps)'
  BY <1>2, <1>3 DEF Agrees
<1>5. \A u \in Tasks : Agrees(u, {task[u].parent}) => Agrees(u, {task[u].parent})'
  <2> SUFFICES ASSUME NEW u \in Tasks, u # t, Agrees(u, {task[u].parent})
               PROVE  Agrees(u, {task[u].parent})'
    BY <1>2 DEF Agrees
  <2> QED
    BY <1>1, <1>2, <1>3 DEF Agrees
<1>6. Parent' = [Parent EXCEPT ![t] = None]
  BY <1>1, <1>2 DEF Parent
<1>7. InTree'
  <2>1. Acyclic(Parent)'
    BY <1>6, ParentIs, NoneIsRoot, AttachKeeps DEF TreeOK, Acyclic
  <2> QED
    BY <2>1 DEF InTree, Acyclic, Parent
<1>8. \A u \in Tasks : \A p : Above(u, p) => Above(u, p)'
  BY <1>6, ParentIs, DetachKeeps DEF Above
<1>9. \A c \in Callers : CallKnows(c)'
  <2> SUFFICES ASSUME NEW c \in Callers, Under(c) PROVE CallKnows(c)'
    BY <1>1 DEF CallKnows, Under
  <2>1. CallKnows(c) /\ call[c].task \in Tasks /\ call' = call
    BY <1>1 DEF TreeOK, CallKnows
  <2>2. Exists(call[c].task)' => Exists(call[c].task) /\ task'[call[c].task] = task[call[c].task]
    BY <1>1, <1>2, <2>1
  <2>3. KnowsParent(call[c]) => KnowsParent(call[c])'
    BY <2>1, <2>2 DEF KnowsParent
  <2>4. call[c].at \in {"link", "linking"} => LinkOK(call[c])'
    BY <1>4, <1>8, <2>1, <2>3 DEF CallKnows, LinkOK
  <2>5. call[c].at = "unlink" => UnlinkOK(call[c])'
    BY <1>4, <1>8, <2>1, <2>3 DEF CallKnows, UnlinkOK
  <2>6. call[c].at = "write" => WriteOK(call[c])'
    BY <1>4, <1>8, <2>1 DEF CallKnows, WriteOK
  <2>7. call[c].at = "born" => BornOK(call[c])'
    BY <1>4, <2>1, <2>2 DEF CallKnows, BornOK
  <2> QED
    BY <2>1, <2>4, <2>5, <2>6, <2>7 DEF CallKnows, Under
<1>10. Alone' /\ ParentsAreTasks'
  BY <1>1, <1>2 DEF TreeOK, Alone, Under, ParentsAreTasks
<1>11. \A u \in Tasks : Busy(u)' <=> Busy(u)
  BY <1>1 DEF Busy
<1> QED
  BY <1>5, <1>7, <1>9, <1>10, <1>11 DEF TreeOK

\* Every step of a call keeps the tree, as the call knows it.
LEMMA NextTree == TreeInv /\ [Next]_vars => TreeInv'
<1> SUFFICES ASSUME TreeInv, [Next]_vars PROVE TreeInv'
  OBVIOUS
<1>1. TasksInv' /\ raced' \in BOOLEAN
  <2>1. TasksInv'
    BY TasksAssumption, NextTasks DEF TreeInv
  <2>2. raced' \in BOOLEAN
    BY DEF TreeInv, Next, UpdateReads, AddTask, Starts, MayStart, Link, AddParentEdge, Unlink, Write, LinkBorn,
       CutOff, RemoveTask, vars
  <2> QED
    BY <2>1, <2>2
<1> SUFFICES ASSUME ~ raced' PROVE TreeOK'
  BY <1>1 DEF TreeInv
<1>2. CASE UNCHANGED vars
  <2>1. InTree' /\ ParentsAreTasks'
    BY <1>2, SameTasks DEF vars, TreeInv, TreeOK
  <2>2. \A t, p : Above(t, p)' = Above(t, p)
    BY <1>2, SameTasks DEF vars
  <2> QED
    BY <1>2, <2>1, <2>2 DEF vars, TreeInv, TreeOK, Alone, Under, Busy, Agrees, Exists, CallKnows,
       LinkOK, UnlinkOK, WriteOK, BornOK, KnowsParent
<1>3. ASSUME NEW c \in Callers, NEW t \in Tasks, UpdateReads(c, t) \/ AddTask(c, t) PROVE TreeOK'
  BY <1>3, ReadKeepsTree, AddTaskKeepsTree DEF TreeInv
<1>4. ASSUME NEW c \in Callers, Link(c) \/ AddParentEdge(c) \/ Unlink(c) \/ Write(c) \/ LinkBorn(c)
      PROVE  TreeOK'
  <2>1. TreeOK
    BY <1>4 DEF TreeInv, Link, AddParentEdge, Unlink, Write, LinkBorn
  <2> QED
    BY <1>4, <2>1, LinkKeepsTree, AddParentEdgeKeepsTree, UnlinkKeepsTree, WriteKeepsTree,
       LinkBornKeepsTree DEF TreeInv
<1>5. ASSUME NEW c \in Callers, CutOff(c) PROVE FALSE
  BY <1>5 DEF CutOff
<1>6. ASSUME NEW t \in Tasks, RemoveTask(t) PROVE TreeOK'
  <2>1. TreeOK
    BY <1>6 DEF TreeInv, RemoveTask
  <2> QED
    BY <1>6, <2>1, RemoveKeepsTree DEF TreeInv
<1> QED
  BY <1>2, <1>3, <1>4, <1>5, <1>6 DEF Next

\* At first the tree is empty.
LEMMA InitTree == Init => TreeInv
<1> SUFFICES ASSUME Init PROVE TreeInv
  OBVIOUS
<1>1. TasksInv /\ raced = FALSE
  BY InitTasks DEF Init
<1>2. \A t \in Tasks : task[t].parent = Forest[t] /\ Exists(t)
  BY DEF Init, Fresh, Exists
<1>3. Parent = Forest
  BY <1>2, TasksAssumption DEF Parent
<1>4. InTree /\ ParentsAreTasks
  BY <1>2, <1>3, TasksAssumption DEF InTree, ParentsAreTasks
<1>5. \A t \in Tasks : Agrees(t, {task[t].parent})
  BY <1>2, TasksAssumption DEF Init, Agrees
<1>6. \A c \in Callers : ~ Under(c)
  BY DEF Init, Under, Idle
<1> QED
  BY <1>1, <1>4, <1>5, <1>6 DEF TreeInv, TreeOK, Alone, CallKnows

\* While calls follow one another and complete, the parent in the metadata and the edge
\* agree, and no task is below itself, however tasks are moved, added and removed
\* (_reparent_task, _task_ancestor_ids, cognition_add_task, cognition_remove_node).
THEOREM TreeStaysSound == Spec => []TreeIsSound
<1>1. TreeInv => TreeIsSound
  <2> SUFFICES ASSUME TreeOK PROVE ParentsAndEdgesAgree /\ InTree
    BY DEF TreeInv, TreeIsSound
  <2> QED
    BY DEF TreeOK, ParentsAndEdgesAgree, Agrees
<1> QED
  BY <1>1, InitTree, NextTree, PTL DEF Spec

-----------------------------------------------------------------------------
(* Projects.                                                                *)

(* What a call under way holds: the store that is not entered yet, and the     *)
(* entry that is being unloaded.                                             *)
Pending(w) ==
    IF loading[w].at = "name" THEN loading[w].store
    ELSE IF loading[w].at = "add" THEN loading[w].entry.store ELSE NoStore
Unloads(w) == loading[w].at \in {"close", "remove"}

IsEntry(e, last) ==
    /\ e.path \in Paths /\ e.store \in 0 .. last
    /\ e.path = Home => e.pinned

EntriesOK ==
    /\ opened \in Nat /\ open \subseteq 1 .. opened
    /\ \A e \in entries : IsEntry(e, opened)
    /\ \A e, f \in entries : e.path = f.path => e = f
    /\ Listed(Home)

CallsOK ==
    /\ DOMAIN loading = Workers
    /\ \A w \in Workers :
          /\ loading[w].at \in {"open", "name"} => loading[w].path \in Foreign
          /\ loading[w].at = "add" => IsEntry(loading[w].entry, opened) /\ loading[w].entry.path \in Foreign
          /\ Unloads(w) => IsEntry(loading[w].entry, opened) /\ loading[w].entry.path # Home
          /\ Pending(w) \in open \cup {NoStore}

(* no two have one store                                                     *)
OwnStores ==
    /\ \A e, f \in entries : e.store = f.store /\ e.store # NoStore => e = f
    /\ \A w \in Workers : Pending(w) # NoStore =>
          /\ \A e \in entries : e.store # Pending(w)
          /\ \A v \in Workers : /\ v # w => Pending(v) # Pending(w)
                                /\ Unloads(v) => loading[v].entry.store # Pending(w)
    /\ \A v \in Workers : Unloads(v) /\ loading[v].entry.store # NoStore =>
          \A e \in entries : e.store = loading[v].entry.store => e = loading[v].entry

EntriesOpen == \A e \in entries : e.store \in open \cup {NoStore} \/ e \in Unloading

ProjectsInv == EntriesOK /\ CallsOK /\ OwnStores /\ EntriesOpen

-----------------------------------------------------------------------------
\* A server that starts has its own project, with an open store (build_registry).
LEMMA InitProjects ==
  ASSUME Home \notin Foreign, ProjectsInit
  PROVE  ProjectsInv
<1> USE DEF ProjectsInit, AtRest, NoStore, HomeStore, Paths
<1>1. EntriesOK
  BY DEF EntriesOK, IsEntry, Listed
<1>2. CallsOK
  BY DEF CallsOK, IsEntry, Unloads, Pending
<1>3. OwnStores
  BY DEF OwnStores, Unloads, Pending
<1>4. EntriesOpen
  BY DEF EntriesOpen
<1> QED
  BY <1>1, <1>2, <1>3, <1>4 DEF ProjectsInv

\* What one call does leaves the others where they are.
LEMMA OthersStay ==
  ASSUME CallsOK, NEW w \in Workers, NEW next, Turns(w, next)
  PROVE  /\ DOMAIN loading' = Workers
         /\ loading'[w] = next
         /\ \A v \in Workers \ {w} : loading'[v] = loading[v]
BY DEF CallsOK, Turns

\* A store that is open, or none, has one of the numbers given out.
LEMMA StoreRange ==
  ASSUME NEW last \in Nat, NEW stores \in SUBSET (1 .. last), NEW store \in stores \cup {0}
  PROVE  store \in 0 .. last
OBVIOUS

\* A call begins, or names its project: nothing else changes
\* (_load_project_core).
LEMMA LoadKeeps ==
  ASSUME Home \notin Foreign, ProjectsInv, NEW w \in Workers,
         (\E path \in Foreign : Load(w, path)) \/ NameProject(w)
  PROVE  ProjectsInv'
<1> USE DEF ProjectsInv, EntriesOK, CallsOK, OwnStores, EntriesOpen, IsEntry, Unloads, Pending,
            Unloading, Listed, NoStore, AtRest, Free
<1>1. CASE \E path \in Foreign : Load(w, path)
  <2> PICK path \in Foreign : Load(w, path)
    BY <1>1
  <2>1. /\ DOMAIN loading' = Workers /\ loading'[w] = [at |-> "open", path |-> path]
        /\ \A v \in Workers \ {w} : loading'[v] = loading[v]
        /\ UNCHANGED <<entries, open, opened>> /\ loading[w].at = "idle"
    BY OthersStay DEF Load
  <2> QED
    BY <2>1
<1>2. CASE NameProject(w)
  <2>1. /\ DOMAIN loading' = Workers
        /\ loading'[w].at = "add" /\ loading'[w].entry.path = loading[w].path
        /\ loading'[w].entry.store = loading[w].store
        /\ \A v \in Workers \ {w} : loading'[v] = loading[v]
        /\ UNCHANGED <<entries, open, opened>> /\ loading[w].at = "name"
    BY <1>2, OthersStay DEF NameProject
  <2>2. Pending(w)' = Pending(w) /\ ~ Unloads(w)' /\ Unloading' = Unloading
    BY <2>1
  <2>3. \A v \in Workers \ {w} : Pending(v)' = Pending(v) /\ (Unloads(v)' <=> Unloads(v))
    BY <2>1
  <2>4. EntriesOK' /\ EntriesOpen'
    BY <2>1, <2>2
  <2>5. CallsOK'
    <3>1. IsEntry(loading'[w].entry, opened') /\ loading'[w].entry.path \in Foreign
      <4>1. loading[w].store \in open \cup {0} /\ loading[w].path \in Foreign
        BY <2>1
      <4>2. loading[w].store \in 0 .. opened
        BY <4>1, StoreRange
      <4> QED
        BY <2>1, <4>1, <4>2 DEF Paths
    <3> QED
      BY <2>1, <2>2, <2>3, <3>1
  <2>6. OwnStores'
    BY <2>1, <2>2, <2>3
  <2> QED
    BY <2>4, <2>5, <2>6
<1> QED
  BY <1>1, <1>2

\* The store that is opened is new (VectorStore.open_existing).
LEMMA OpenKeeps ==
  ASSUME Home \notin Foreign, ProjectsInv, NEW w \in Workers, NEW found \in BOOLEAN,
         OpenStore(w, found)
  PROVE  ProjectsInv'
<1> USE DEF ProjectsInv, EntriesOK, CallsOK, OwnStores, EntriesOpen, IsEntry, Unloads, Pending,
            Unloading, Listed, NoStore
<1> DEFINE store == loading'[w].store
<1>1. /\ DOMAIN loading' = Workers /\ loading'[w].at = "name" /\ loading'[w].path = loading[w].path
      /\ \A v \in Workers \ {w} : loading'[v] = loading[v]
      /\ UNCHANGED entries /\ loading[w].at = "open"
  BY OthersStay DEF OpenStore
<1>2. /\ opened' \in Nat /\ opened <= opened' /\ open \subseteq open'
      /\ open' \subseteq 1 .. opened'
      /\ store # NoStore => store \in open' /\ store > opened
      /\ store \in open' \cup {NoStore}
  <2>1. CASE found
    <3>1. /\ loading'[w] = [at |-> "name", path |-> loading[w].path,
                         store |-> Kept(loading[w].path, opened + 1)]
          /\ opened' = opened + 1
          /\ open' = IF loading[w].path \in Foul THEN open ELSE open \cup {opened + 1}
      BY <2>1, OthersStay DEF OpenStore
    <3>2. store = IF loading[w].path \in Foul THEN 0 ELSE opened + 1
      BY <3>1 DEF Kept
    <3> QED
      BY <3>1, <3>2
  <2>2. CASE ~ found
    <3>1. store = 0 /\ opened' = opened /\ open' = open
      BY <2>2, OthersStay DEF OpenStore
    <3> QED
      BY <3>1
  <2> QED
    BY <2>1, <2>2
<1>3. EntriesOK' /\ EntriesOpen'
  BY <1>1, <1>2
<1>4. Pending(w)' = store /\ ~ Unloads(w)' /\ ~ Unloads(w)
  BY <1>1
<1>5. \A v \in Workers \ {w} : Pending(v)' = Pending(v) /\ (Unloads(v)' <=> Unloads(v))
  BY <1>1
<1>6. \A v \in Workers \ {w} : Pending(v) \in 0 .. opened
  <2> SUFFICES ASSUME NEW v \in Workers \ {w}
               PROVE  Pending(v) \in 0 .. opened
    OBVIOUS
  <2>1. Pending(v) \in open \cup {0} /\ open \in SUBSET (1 .. opened) /\ opened \in Nat
    OBVIOUS
  <2> QED
    BY <2>1, StoreRange
<1>7. CallsOK'
  <2>1. Pending(w)' \in open' \cup {NoStore}
    BY <1>2, <1>4
  <2>2. \A v \in Workers \ {w} : Unloads(v) => IsEntry(loading'[v].entry, opened')
    BY <1>1, <1>2
  <2>3. \A v \in Workers \ {w} : loading[v].at = "add" => IsEntry(loading'[v].entry, opened')
    BY <1>1, <1>2
  <2> QED
    <3>1. loading'[w].path \in Foreign /\ loading'[w].at = "name"
      BY <1>1
    <3>2. \A v \in Workers \ {w} : Pending(v)' \in open' \cup {NoStore}
      <4> SUFFICES ASSUME NEW v \in Workers \ {w}
                   PROVE  Pending(v)' \in open' \cup {NoStore}
        OBVIOUS
      <4>1. loading'[v] = loading[v]
        BY <1>1
      <4>2. Pending(v) \in open \cup {NoStore}
        OBVIOUS
      <4> QED
        BY <1>2, <4>1, <4>2
    <3>3. \A v \in Workers \ {w} :
             /\ loading'[v].at \in {"open", "name"} => loading'[v].path \in Foreign
             /\ loading'[v].at = "add" => /\ IsEntry(loading'[v].entry, opened')
                                      /\ loading'[v].entry.path \in Foreign
             /\ Unloads(v)' => /\ IsEntry(loading'[v].entry, opened')
                               /\ loading'[v].entry.path # Home
      BY <1>1, <2>2, <2>3
    <3> QED
      BY <1>1, <1>4, <2>1, <3>1, <3>2, <3>3
<1>8. OwnStores'
  <2>1. store # NoStore => /\ \A e \in entries : e.store # store
                           /\ \A v \in Workers \ {w} : Pending(v) # store
                           /\ \A v \in Workers : Unloads(v) => loading[v].entry.store # store
    <3> SUFFICES ASSUME store # NoStore
                 PROVE  /\ \A e \in entries : e.store # store
                        /\ \A v \in Workers \ {w} : Pending(v) # store
                        /\ \A v \in Workers : Unloads(v) => loading[v].entry.store # store
      OBVIOUS
    <3>1. store \notin 0 .. opened
      BY <1>2
    <3>2. \A e \in entries : e.store \in 0 .. opened
      OBVIOUS
    <3>3. \A v \in Workers : Unloads(v) => loading[v].entry.store \in 0 .. opened
      OBVIOUS
    <3> HIDE DEF Pending, Unloads, store, EntriesOK, CallsOK, OwnStores, EntriesOpen, ProjectsInv
    <3> QED
      BY <3>1, <3>2, <3>3, <1>6
  <2>2. \A e, f \in entries' : e.store = f.store /\ e.store # NoStore => e = f
    BY <1>1
  <2>3. \A v \in Workers : Unloads(v)' /\ loading'[v].entry.store # NoStore =>
           \A e \in entries' : e.store = loading'[v].entry.store => e = loading'[v].entry
    BY <1>1
  <2>4. \A v \in Workers : Pending(v)' # NoStore =>
           /\ \A e \in entries' : e.store # Pending(v)'
           /\ \A u \in Workers : /\ u # v => Pending(u)' # Pending(v)'
                                 /\ Unloads(u)' => loading'[u].entry.store # Pending(v)'
    <3> SUFFICES ASSUME NEW v \in Workers, Pending(v)' # NoStore
                 PROVE  /\ \A e \in entries' : e.store # Pending(v)'
                        /\ \A u \in Workers :
                              /\ u # v => Pending(u)' # Pending(v)'
                              /\ Unloads(u)' => loading'[u].entry.store # Pending(v)'
      OBVIOUS
    <3>1. CASE v = w
      BY <1>1, <1>4, <1>5, <2>1, <3>1
    <3>2. CASE v # w
      BY <1>1, <1>4, <1>5, <2>1, <3>2
    <3> QED
      BY <3>1, <3>2
  <2> QED
    BY <2>2, <2>3, <2>4
<1> QED
  BY <1>3, <1>7, <1>8

\* The store of the entry is in nobody else's hands (add_foreign).
LEMMA AddKeeps ==
  ASSUME Home \notin Foreign, ProjectsInv, NEW w \in Workers, Add(w)
  PROVE  ProjectsInv'
<1> USE DEF ProjectsInv, EntriesOK, CallsOK, OwnStores, EntriesOpen, IsEntry, Unloads, Pending,
            Unloading, Listed, NoStore, AtRest
<1>1. /\ DOMAIN loading' = Workers /\ loading'[w].at = "idle"
      /\ \A v \in Workers \ {w} : loading'[v] = loading[v]
      /\ UNCHANGED <<open, opened>> /\ loading[w].at = "add"
      /\ entries' = {e \in entries : e.path # loading[w].entry.path} \cup {loading[w].entry}
  BY OthersStay DEF Add
<1> QED
  BY <1>1

\* What is closed belongs to the entry that is unloaded (_unload_project_core).
LEMMA UnloadKeeps ==
  ASSUME Home \notin Foreign, ProjectsInv, NEW w \in Workers,
         (\E e \in entries : Unload(w, e)) \/ CloseStore(w)
  PROVE  ProjectsInv'
<1> USE DEF ProjectsInv, EntriesOK, CallsOK, OwnStores, EntriesOpen, IsEntry, Unloads, Pending,
            Unloading, Listed, NoStore, AtRest, Free
<1>1. CASE \E e \in entries : Unload(w, e)
  <2> PICK e \in entries : Unload(w, e)
    BY <1>1
  <2>1. /\ DOMAIN loading' = Workers /\ loading'[w] = [at |-> "close", entry |-> e]
        /\ \A v \in Workers \ {w} : loading'[v] = loading[v]
        /\ UNCHANGED <<entries, open, opened>> /\ loading[w].at = "idle" /\ ~ e.pinned
    BY OthersStay DEF Unload
  <2> QED
    BY <2>1
<1>2. CASE CloseStore(w)
  <2>1. /\ DOMAIN loading' = Workers /\ loading'[w] = [at |-> "remove", entry |-> loading[w].entry]
        /\ \A v \in Workers \ {w} : loading'[v] = loading[v]
        /\ UNCHANGED <<entries, opened>> /\ loading[w].at = "close"
        /\ open' = open \ {loading[w].entry.store}
    BY <1>2, OthersStay DEF CloseStore
  <2>2. EntriesOK'
    BY <2>1
  <2>3. CallsOK'
    BY <2>1
  <2>4. OwnStores'
    BY <2>1
  <2>5. EntriesOpen'
    BY <2>1
  <2> QED
    BY <2>2, <2>3, <2>4, <2>5
<1> QED
  BY <1>1, <1>2

\* The home project is not taken out (remove).
LEMMA RemoveKeeps ==
  ASSUME Home \notin Foreign, ProjectsInv, NEW w \in Workers, RemoveEntry(w)
  PROVE  ProjectsInv'
<1> USE DEF ProjectsInv, EntriesOK, CallsOK, OwnStores, EntriesOpen, IsEntry, Unloads, Pending,
            Unloading, Listed, NoStore, AtRest
<1>1. /\ DOMAIN loading' = Workers /\ loading'[w].at = "idle"
      /\ \A v \in Workers \ {w} : loading'[v] = loading[v]
      /\ UNCHANGED <<open, opened>> /\ loading[w].at = "remove"
      /\ entries' = {e \in entries : e.path # loading[w].entry.path}
  BY OthersStay DEF RemoveEntry
<1> QED
  BY <1>1

-----------------------------------------------------------------------------
\* However many loads and unloads cross, on any number of threads, every listed
\* project has an open store, or none, or is just being unloaded; the home project
\* is listed; and a path is listed once (ProjectEntry, _unload_project_core).
THEOREM ListedStaysOpen ==
  ASSUME Home \notin Foreign
  PROVE  ProjectsSpec => []ListedIsOpen
<1>1. ProjectsInit => ProjectsInv
  BY InitProjects
<1>2. ProjectsInv /\ [ProjectsNext]_projectsVars => ProjectsInv'
  <2> SUFFICES ASSUME ProjectsInv, [ProjectsNext]_projectsVars
               PROVE  ProjectsInv'
    OBVIOUS
  <2>1. CASE UNCHANGED projectsVars
    BY <2>1 DEF projectsVars, ProjectsInv, EntriesOK, CallsOK, OwnStores, EntriesOpen, IsEntry, Unloads,
                Pending, Unloading, Listed
  <2>2. CASE ProjectsNext
    <3> PICK w \in Workers :
          \/ \E path \in Foreign : Load(w, path)
          \/ \E found \in BOOLEAN : OpenStore(w, found)
          \/ NameProject(w) \/ Add(w)
          \/ \E e \in entries : Unload(w, e)
          \/ CloseStore(w) \/ RemoveEntry(w)
      BY <2>2 DEF ProjectsNext
    <3> QED
      BY LoadKeeps, OpenKeeps, AddKeeps, UnloadKeeps, RemoveKeeps
  <2> QED
    BY <2>1, <2>2
<1>3. ProjectsInv => ListedIsOpen
  BY DEF ProjectsInv, EntriesOK, EntriesOpen, ListedIsOpen
<1> QED
  BY <1>1, <1>2, <1>3, PTL DEF ProjectsSpec

-----------------------------------------------------------------------------
(***************************************************************************)
(* Search.  A round fetches the best rows, so what it finds is what all rows *)
(* would give for the same nodes; a store that runs dry gave everything; and *)
(* the best of the best of every project are the best of all.                *)
(***************************************************************************)

(* Rows and their order.                                                    *)

RowsOK ==
    /\ DOMAIN rows = Projects
    /\ \A p \in Projects : DOMAIN rows[p] \subseteq Scores[p]
                           /\ \A s \in DOMAIN rows[p] : rows[p][s] \in Findable
    /\ live \in [Projects -> SUBSET Findable]

\* A store has finitely many rows.
LEMMA RowsFinite ==
    ASSUME RowsOK, NEW p \in Projects
    PROVE  IsFiniteSet(DOMAIN rows[p]) /\ DOMAIN rows[p] \subseteq Nat
BY SearchAssumption, FS_Subset DEF RowsOK

\* What a round fetches are the best rows.
LEMMA FetchedAreBest ==
    ASSUME RowsOK, NEW p \in Projects, NEW n \in Nat,
           NEW s \in Fetch(p, n), NEW t \in DOMAIN rows[p], t > s
    PROVE  t \in Fetch(p, n)
<1>1. Cardinality(Higher(DOMAIN rows[p], t)) < Cardinality(Higher(DOMAIN rows[p], s))
  BY RowsFinite, HigherShrinks DEF Fetch
<1>2. Cardinality(Higher(DOMAIN rows[p], t)) \in Nat /\ Cardinality(Higher(DOMAIN rows[p], s)) \in Nat
  BY RowsFinite, FS_Subset, FS_CardinalityType DEF Higher
<1> QED
  BY <1>1, <1>2 DEF Fetch, Higher

\* A round that fetches fewer rows than it asked for has them all.
LEMMA DryHasAll ==
    ASSUME RowsOK, NEW p \in Projects, NEW n \in Nat, Cardinality(Fetch(p, n)) < n
    PROVE  Fetch(p, n) = DOMAIN rows[p]
<1> SUFFICES ASSUME DOMAIN rows[p] \ Fetch(p, n) # {} PROVE FALSE
  BY DEF Fetch
<1> DEFINE rest == DOMAIN rows[p] \ Fetch(p, n)
<1>1. IsFiniteSet(rest) /\ rest \subseteq Nat
  BY RowsFinite, FS_Subset
<1>2. PICK s \in rest : \A t \in rest : t <= s
  BY <1>1, MaxIsLargest
<1>3. Higher(DOMAIN rows[p], s) \subseteq Fetch(p, n)
  BY <1>2, RowsFinite DEF Higher
<1>4. IsFiniteSet(Fetch(p, n)) /\ Cardinality(Fetch(p, n)) \in Nat
  BY RowsFinite, FS_Subset, FS_CardinalityType DEF Fetch
<1>5. Cardinality(Higher(DOMAIN rows[p], s)) <= Cardinality(Fetch(p, n))
      /\ Cardinality(Higher(DOMAIN rows[p], s)) \in Nat
  BY <1>3, <1>4, FS_Subset, FS_CardinalityType
<1>6. Cardinality(Higher(DOMAIN rows[p], s)) < n
  BY <1>4, <1>5
<1> QED
  BY <1>2, <1>6 DEF Fetch, Higher

-----------------------------------------------------------------------------
(* Hits.                                                                    *)

AllHits == [project : Projects, node : Findable, score : Nat]
OfProject(hits, p) == {h \in hits : h.project = p}

\* A hit names one of the rows fetched, and no two name one.
LEMMA HitsNameRows ==
    ASSUME RowsOK, NEW p \in Projects, NEW fetched \in SUBSET DOMAIN rows[p]
    PROVE  /\ Hits(p, fetched) \subseteq AllHits
           /\ \A h \in Hits(p, fetched) : h.project = p /\ h.score \in fetched
           /\ IsFiniteSet(Hits(p, fetched))
           /\ Cardinality(Hits(p, fetched)) \in Nat
<1>1. IsFiniteSet(fetched) /\ fetched \subseteq Nat
  BY RowsFinite, FS_Subset
<1>2. \A m \in {rows[p][s] : s \in fetched} :
         LET S == {s \in fetched : rows[p][s] = m} IN Max(S) \in fetched /\ rows[p][Max(S)] = m
  <2> SUFFICES ASSUME NEW m \in {rows[p][s] : s \in fetched}
               PROVE  Max({s \in fetched : rows[p][s] = m}) \in {s \in fetched : rows[p][s] = m}
    OBVIOUS
  <2>1. IsFiniteSet({s \in fetched : rows[p][s] = m})
    BY <1>1, FS_Subset
  <2> QED
    BY <1>1, <2>1, MaxIsLargest
<1>3. \A h \in Hits(p, fetched) :
         /\ h.project = p /\ h.score \in fetched /\ h.node = rows[p][h.score]
         /\ h = [project |-> p, node |-> h.node, score |-> h.score]
  <2> TAKE h \in Hits(p, fetched)
  <2>1. PICK m \in {rows[p][s] : s \in fetched} :
           h = [project |-> p, node |-> m, score |-> Max({s \in fetched : rows[p][s] = m})]
    BY DEF Hits
  <2>2. h.project = p /\ h.node = m /\ h.score = Max({s \in fetched : rows[p][s] = m})
    BY <2>1
  <2>3. h.score \in fetched /\ rows[p][h.score] = m
    BY <2>2, <1>2
  <2> QED
    BY <2>1, <2>2, <2>3
<1>4. \A s \in fetched : s \in Nat /\ rows[p][s] \in Findable
  BY <1>1 DEF RowsOK
<1>5. Hits(p, fetched) \subseteq AllHits
  BY <1>3, <1>4 DEF AllHits
<1>6. IsFiniteSet(Hits(p, fetched))
  <2> DEFINE f == [h \in Hits(p, fetched) |-> h.score]
  <2>1. f \in Injection(Hits(p, fetched), fetched)
    <3>1. f \in [Hits(p, fetched) -> fetched]
      BY <1>3
    <3>2. ASSUME NEW h \in Hits(p, fetched), NEW g \in Hits(p, fetched), f[h] = f[g] PROVE h = g
      <4>1. h.score = g.score
        BY <3>2
      <4> QED
        BY <4>1, <1>3
    <3> QED
      BY <3>1, <3>2 DEF Injection, IsInjective
  <2> QED
    BY <2>1, <1>1, FS_Injection
<1> QED
  BY <1>3, <1>5, <1>6, FS_CardinalityType

\* What a round finds is what all rows would give for these nodes.
LEMMA HitsMatch ==
    ASSUME RowsOK, NEW p \in Projects, NEW n \in Nat
    PROVE  Hits(p, Fetch(p, n)) \subseteq Matching(p)
<1> DEFINE few(m) == {s \in Fetch(p, n) : rows[p][s] = m}
           many(m) == {s \in DOMAIN rows[p] : rows[p][s] = m}
<1>1. ASSUME NEW m \in {rows[p][s] : s \in Fetch(p, n)} PROVE Max(few(m)) = Max(many(m))
  <2>1. few(m) \subseteq many(m) /\ few(m) # {}
    BY <1>1 DEF Fetch
  <2>2. /\ IsFiniteSet(many(m)) /\ IsFiniteSet(few(m))
        /\ many(m) \subseteq Nat /\ few(m) \subseteq Nat /\ many(m) # {}
    BY <2>1, RowsFinite, FS_Subset
  <2>3. /\ Max(few(m)) \in few(m) /\ \A s \in few(m) : s <= Max(few(m))
        /\ Max(many(m)) \in many(m) /\ \A s \in many(m) : s <= Max(many(m))
    BY <2>1, <2>2, MaxIsLargest
  <2> HIDE DEF few, many
  <2>4. Max(few(m)) <= Max(many(m)) /\ Max(few(m)) \in Nat /\ Max(many(m)) \in Nat
    BY <2>1, <2>2, <2>3
  <2>5. CASE Max(many(m)) > Max(few(m))
    <3>1. Max(many(m)) \in few(m)
      BY <2>3, <2>5, FetchedAreBest DEF few, many
    <3> QED
      BY <2>3, <2>4, <2>5, <3>1
  <2> QED
    BY <2>4, <2>5
<1> HIDE DEF few, many
<1>2. \A m : m \in {rows[p][s] : s \in Fetch(p, n)} => m \in {rows[p][s] : s \in DOMAIN rows[p]}
  BY DEF Fetch
<1> QED
  BY <1>1, <1>2 DEF Hits, Matching, few, many

-----------------------------------------------------------------------------
(* The top of what was found.                                               *)

\* A best part of a finite set.
LEMMA TopsAreParts ==
    ASSUME NEW hits, IsFiniteSet(hits), NEW limit \in Nat, NEW T \in Tops(hits, limit)
    PROVE  /\ T \subseteq hits /\ IsFiniteSet(T)
           /\ Cardinality(T) \in Nat /\ Cardinality(hits) \in Nat
           /\ Cardinality(T) = Lesser(limit, Cardinality(hits))
           /\ Cardinality(T) <= limit
           /\ T # hits => Cardinality(T) = limit /\ limit <= Cardinality(hits)
           /\ \A h \in T, g \in hits \ T : ~ Before(g, h)
<1>1. T \subseteq hits /\ Cardinality(T) = Lesser(limit, Cardinality(hits))
      /\ \A h \in T, g \in hits \ T : ~ Before(g, h)
  BY DEF Tops, kSubset
<1>2. IsFiniteSet(T) /\ Cardinality(T) \in Nat /\ Cardinality(hits) \in Nat
      /\ (Cardinality(hits) = Cardinality(T) => hits = T)
  BY <1>1, FS_Subset, FS_CardinalityType
<1> QED
  BY <1>1, <1>2 DEF Lesser

\* What is not before one that is not before another is not before that either.
LEMMA BeforeIsAnOrder ==
    ASSUME NEW f \in AllHits, NEW g \in AllHits, NEW h \in AllHits, ~ Before(g, f), ~ Before(f, h)
    PROVE  ~ Before(g, h)
<1>1. \A x \in AllHits : Weighted(x) \in Nat /\ x.score \in Nat
  <2> SUFFICES ASSUME NEW x \in AllHits PROVE Weighted(x) \in Nat /\ x.score \in Nat
    OBVIOUS
  <2>1. x.score \in Nat /\ Weight[x.node] \in Nat
    BY SearchAssumption DEF AllHits
  <2>2. \A a, b \in Nat : a * b \in Nat
    OBVIOUS
  <2> QED
    BY <2>1, <2>2 DEF Weighted
<1> QED
  BY <1>1 DEF Before

\* The top of the tops of all projects is the top of all.
LEMMA TopOfTops ==
    ASSUME NEW W \in SUBSET AllHits, IsFiniteSet(W), NEW limit \in Nat, NEW found \in SUBSET W,
           \A p \in Projects : OfProject(found, p) \in Tops(OfProject(W, p), limit),
           NEW T \in Tops(found, limit)
    PROVE  T \in Tops(W, limit)
<1>1. IsFiniteSet(found) /\ \A p : IsFiniteSet(OfProject(W, p))
  BY FS_Subset DEF OfProject
<1>2. ASSUME NEW g \in W \ found
      PROVE  /\ g.project \in Projects
             /\ LET F == OfProject(found, g.project)
                IN  /\ Cardinality(F) = limit /\ IsFiniteSet(F) /\ F \subseteq found
                    /\ \A f \in F : ~ Before(g, f)
  <2> DEFINE F == OfProject(found, g.project)
             A == OfProject(W, g.project)
  <2>1. g.project \in Projects /\ g \in A \ F /\ F \subseteq found
    BY <1>2 DEF AllHits, OfProject
  <2>2. F \in Tops(A, limit) /\ IsFiniteSet(A)
    BY <1>1, <2>1
  <2> HIDE DEF F, A
  <2>3. Cardinality(F) = limit /\ IsFiniteSet(F) /\ \A f \in F : ~ Before(g, f)
    BY <2>1, <2>2, TopsAreParts
  <2> QED
    BY <2>1, <2>3 DEF F
<1>3. /\ T \subseteq found /\ IsFiniteSet(T) /\ Cardinality(T) \in Nat /\ Cardinality(T) <= limit
      /\ Cardinality(T) = Lesser(limit, Cardinality(found))
      /\ \A h \in T, g \in found \ T : ~ Before(g, h)
  BY <1>1, TopsAreParts
<1>4. Cardinality(T) = Lesser(limit, Cardinality(W))
  <2>1. CASE found = W
    BY <2>1, <1>3
  <2>2. CASE found # W
    <3>1. PICK g \in W \ found : TRUE
      BY <2>2
    <3>2. limit <= Cardinality(found) /\ Cardinality(found) <= Cardinality(W)
          /\ Cardinality(found) \in Nat /\ Cardinality(W) \in Nat
      BY <1>1, <1>2, <3>1, FS_Subset, FS_CardinalityType
    <3> QED
      BY <1>3, <3>2 DEF Lesser
  <2> QED
    BY <2>1, <2>2
<1>5. ASSUME NEW h \in T, NEW g \in W \ T, Before(g, h) PROVE FALSE
  <2>1. g \notin found
    BY <1>3, <1>5
  <2> DEFINE F == OfProject(found, g.project)
  <2>2. Cardinality(F) = limit /\ IsFiniteSet(F) /\ F \subseteq found /\ \A f \in F : ~ Before(g, f)
    BY <1>2, <2>1
  <2> HIDE DEF F
  <2>3. CASE F \subseteq T
    <3>1. F = T
      <4>1. Cardinality(F) <= Cardinality(T) /\ (Cardinality(T) = Cardinality(F) => T = F)
        BY <2>3, <1>3, FS_Subset
      <4> QED
        BY <4>1, <2>2, <1>3
    <3> QED
      BY <3>1, <2>2, <1>5
  <2>4. CASE ~ (F \subseteq T)
    <3>1. PICK f \in F : f \notin T
      BY <2>4
    <3>2. ~ Before(g, f) /\ ~ Before(f, h)
      BY <3>1, <2>2, <1>3
    <3>3. f \in AllHits /\ g \in AllHits /\ h \in AllHits
      BY <3>1, <2>2, <1>3
    <3> QED
      BY <3>2, <3>3, <1>5, BeforeIsAnOrder
  <2> QED
    BY <2>3, <2>4
<1>6. T \subseteq W
  BY <1>3
<1> QED
  BY <1>4, <1>5, <1>6 DEF Tops, kSubset

-----------------------------------------------------------------------------
(* The inductive invariant.                                                 *)

Running == search.at # "idle"

Runs == [at : {"entry", "round", "done"}, todo : SUBSET Projects, limit : Limits,
         found : SUBSET AllHits, total : Nat, exhaustive : BOOLEAN, noted : SUBSET Projects,
         capped : SUBSET Projects, short : SUBSET Projects, project : Projects \cup {"none"}, n : Nat]

SearchTypes == RowsOK /\ search \in Runs \cup {NoSearch}

(* Where the search is: a project is still to do, under way, noted as closed, *)
(* or done.                                                                 *)
PlaceOK ==
    Running => /\ search.noted \cap search.todo = {}
               /\ search.at = "round" => /\ search.project \in Projects
                                         /\ search.project \notin search.todo \cup search.noted
               /\ search.at = "done" => search.todo = {}

Done == {p \in Projects : /\ p \notin search.todo \cup search.noted
                          /\ ~ (search.at = "round" /\ p = search.project)}
Reached == UNION {Matching(p) : p \in Done}
Shorts == {p \in Done : IsShort(p)}

(* What was counted is there, and all of it when every store ran dry; then no  *)
(* index was short.                                                          *)
CountOK ==
    Running => /\ IsFiniteSet(Reached)
               /\ search.total <= Cardinality(Reached)
               /\ search.exhaustive => search.total = Cardinality(Reached) /\ Shorts = {}

(* What was kept is the top of each project, or of all in the end.           *)
FoundOK ==
    Running => /\ search.found \subseteq Reached
               /\ search.exhaustive /\ search.at # "done" =>
                     \A p \in Projects :
                        OfProject(search.found, p) \in Tops(OfProject(Reached, p), search.limit)
               /\ search.exhaustive /\ search.at = "done" =>
                     search.found \in Tops(Reached, search.limit)

(* What was kept is enough, when a store was left that had more.             *)
EnoughOK ==
    Running => \/ search.exhaustive \/ search.capped # {} \/ search.short # {}
               \/ Cardinality(search.found) >= search.limit

SearchInv == SearchTypes /\ PlaceOK /\ CountOK /\ FoundOK /\ EnoughOK

-----------------------------------------------------------------------------

\* At first nobody searches.
LEMMA InitSearch == SearchInit => SearchInv
<1> SUFFICES ASSUME SearchInit PROVE SearchInv
  OBVIOUS
<1>1. search = NoSearch /\ ~ Running
  BY DEF SearchInit, NoSearch, Running
<1>2. RowsOK
  <2>1. \A p \in Projects : DOMAIN rows[p] \subseteq Scores[p] /\ DOMAIN rows = Projects
    BY DEF SearchInit
  <2>2. ASSUME NEW p \in Projects, NEW s \in DOMAIN rows[p] PROVE rows[p][s] \in Findable
    <3>1. PICK S : rows[p] \in [S -> Findable]
      BY DEF SearchInit
    <3> QED
      BY <3>1, <2>2
  <2> QED
    BY <2>1, <2>2 DEF SearchInit, RowsOK
<1> QED
  BY <1>1, <1>2 DEF SearchInv, SearchTypes, PlaceOK, CountOK, FoundOK, EnoughOK

\* What may be found does not change while a search runs.
LEMMA SameReached ==
    ASSUME UNCHANGED <<rows, live>>
    PROVE  /\ \A p : Matching(p)' = Matching(p)
           /\ \A p : IsShort(p)' <=> IsShort(p)
           /\ Done' = Done => Reached' = Reached /\ Shorts' = Shorts
<1>1. \A p : Matching(p)' = Matching(p)
  BY DEF Matching, Hits
<1>2. \A p : IsShort(p)' <=> IsShort(p)
  BY DEF IsShort
<1> QED
  BY <1>1, <1>2 DEF Reached, Shorts

\* The top of nothing is nothing.
LEMMA TopOfNothing == \A limit \in Nat : {} \in Tops({}, limit)
BY FS_EmptySet DEF Tops, kSubset, Lesser

\* A search begins with nothing found (cognition_search).
LEMMA BeginKeeps ==
    ASSUME SearchInv, NEW limit \in Limits, Begin(limit)
    PROVE  SearchInv'
<1>1. search'.at = "entry" /\ search'.found = {} /\ search'.total = 0 /\ search'.limit = limit
      /\ search'.exhaustive /\ search'.noted = {} /\ search'.todo = Projects
  BY DEF Begin
<1>2. search' \in Runs
  BY DEF Begin, Runs
<1>3. Done' = {} /\ Reached' = {} /\ Shorts' = {}
  BY <1>1 DEF Done, Reached, Shorts
<1>4. limit \in Nat
  BY SearchAssumption
<1>5. SearchTypes' /\ PlaceOK' /\ EnoughOK'
  BY <1>1, <1>2 DEF SearchInv, SearchTypes, RowsOK, PlaceOK, EnoughOK, Begin
<1>6. CountOK'
  BY <1>1, <1>3, FS_EmptySet DEF CountOK
<1>7. FoundOK'
  BY <1>1, <1>3, <1>4, TopOfNothing DEF FoundOK, OfProject
<1> QED
  BY <1>5, <1>6, <1>7 DEF SearchInv

\* The first number of rows asked for is a number.
LEMMA FirstNumber == \A limit \in Limits : Max({limit * Overquery, limit, 1}) \in Nat
<1> TAKE limit \in Limits
<1>1. limit \in Nat /\ limit * Overquery \in Nat
  BY SearchAssumption
<1>2. IsFiniteSet({limit * Overquery, limit, 1})
  <2>1. IsFiniteSet({limit * Overquery})
    BY FS_Singleton
  <2>2. IsFiniteSet({limit * Overquery} \cup {limit})
    BY <2>1, FS_AddElement
  <2>3. IsFiniteSet(({limit * Overquery} \cup {limit}) \cup {1})
    BY <2>2, FS_AddElement
  <2>4. ({limit * Overquery} \cup {limit}) \cup {1} = {limit * Overquery, limit, 1}
    OBVIOUS
  <2> QED
    BY <2>3, <2>4
<1> QED
  BY <1>1, <1>2, MaxIsLargest

\* The search goes on to the store of another project (_search_entry).
LEMMA NextEntryKeeps ==
    ASSUME SearchInv, NEW p \in Projects, NextEntry(p)
    PROVE  SearchInv'
<1>1. search \in Runs /\ search.at = "entry" /\ p \in search.todo
  BY DEF SearchInv, SearchTypes, NextEntry, NoSearch
<1>2. /\ search' = [search EXCEPT !.at = "round", !.todo = @ \ {p}, !.project = p,
                                  !.n = Max({search.limit * Overquery, search.limit, 1})]
      /\ UNCHANGED <<rows, live>>
  BY DEF NextEntry
<1>3. search' \in Runs /\ search'.at = "round" /\ search'.todo = search.todo \ {p}
      /\ search'.project = p /\ search'.noted = search.noted /\ search'.found = search.found
      /\ search'.limit = search.limit /\ search'.total = search.total
      /\ search'.exhaustive = search.exhaustive /\ search'.capped = search.capped
      /\ search'.short = search.short
  BY <1>1, <1>2, FirstNumber DEF Runs
<1>4. Done' = Done /\ Reached' = Reached /\ Shorts' = Shorts
  <2>1. Done' = Done
    BY <1>1, <1>3 DEF Done, SearchInv, PlaceOK, Running
  <2> QED
    BY <2>1, <1>2, SameReached
<1>5. SearchTypes' /\ PlaceOK' /\ EnoughOK'
  BY <1>1, <1>2, <1>3 DEF SearchInv, SearchTypes, RowsOK, PlaceOK, EnoughOK, Running
<1>6. CountOK' /\ FoundOK'
  BY <1>1, <1>3, <1>4 DEF SearchInv, CountOK, FoundOK, Running, OfProject
<1> QED
  BY <1>5, <1>6 DEF SearchInv

\* A store that is closed under the search is noted, and the next one is taken.
LEMMA NotedKeeps ==
    ASSUME SearchInv, search.at = "round", UNCHANGED <<rows, live>>,
           search' = [search EXCEPT !.at = "entry", !.noted = @ \cup {search.project}]
    PROVE  SearchInv'
<1>1. search \in Runs /\ search.project \in Projects
  BY DEF SearchInv, SearchTypes, PlaceOK, Running, NoSearch
<1>2. search' \in Runs /\ search'.at = "entry" /\ search'.todo = search.todo
      /\ search'.noted = search.noted \cup {search.project} /\ search'.found = search.found
      /\ search'.limit = search.limit /\ search'.total = search.total
      /\ search'.exhaustive = search.exhaustive /\ search'.capped = search.capped
      /\ search'.short = search.short
  BY <1>1 DEF Runs
<1>3. Done' = Done /\ Reached' = Reached /\ Shorts' = Shorts
  <2>1. Done' = Done
    BY <1>1, <1>2 DEF Done, SearchInv, PlaceOK, Running
  <2> QED
    BY <2>1, SameReached
<1>4. SearchTypes' /\ PlaceOK' /\ EnoughOK'
  BY <1>1, <1>2 DEF SearchInv, SearchTypes, RowsOK, PlaceOK, EnoughOK, Running
<1>5. CountOK' /\ FoundOK'
  BY <1>2, <1>3 DEF SearchInv, CountOK, FoundOK, Running, OfProject
<1> QED
  BY <1>4, <1>5 DEF SearchInv

\* More rows of the same store.
LEMMA MoreRowsKeeps ==
    ASSUME SearchInv, search.at = "round", UNCHANGED <<rows, live>>,
           search' = [search EXCEPT !.n = Lesser(2 * search.n, Cap)]
    PROVE  SearchInv'
<1>1. search \in Runs /\ Lesser(2 * search.n, Cap) \in Nat
  BY SearchAssumption DEF SearchInv, SearchTypes, NoSearch, Runs, Lesser
<1>2. search' \in Runs /\ search'.at = "round" /\ search'.todo = search.todo
      /\ search'.noted = search.noted /\ search'.found = search.found
      /\ search'.project = search.project
      /\ search'.limit = search.limit /\ search'.total = search.total
      /\ search'.exhaustive = search.exhaustive /\ search'.capped = search.capped
      /\ search'.short = search.short
  BY <1>1 DEF Runs
<1>3. Done' = Done /\ Reached' = Reached /\ Shorts' = Shorts
  BY <1>2, SameReached DEF Done
<1> QED
  BY <1>1, <1>2, <1>3 DEF SearchInv, SearchTypes, RowsOK, PlaceOK, CountOK, FoundOK, EnoughOK,
     Running, OfProject

\* The round at hand.
Rows == Fetch(search.project, search.n)
Found == Hits(search.project, Rows)
RanDry == Cardinality(Rows) < search.n

\* The top of what the last round of a store found is kept.
LEMMA TakenKeeps ==
    ASSUME SearchInv, search.at = "round", UNCHANGED <<rows, live>>,
           Cardinality(Found) >= search.limit \/ RanDry \/ search.n >= Cap,
           NEW top \in Tops(Found, search.limit),
           search' = [search EXCEPT !.at = "entry", !.found = @ \cup top,
                          !.total = @ + Cardinality(Found),
                          !.exhaustive = @ /\ RanDry /\ ~ IsShort(search.project),
                          !.capped = IF search.n >= Cap THEN @ \cup {search.project} ELSE @,
                          !.short = IF IsShort(search.project) THEN @ \cup {search.project} ELSE @]
    PROVE  SearchInv'
<1> DEFINE p == search.project
<1>1. search \in Runs /\ p \in Projects /\ p \notin search.todo \cup search.noted /\ RowsOK /\ Running
      /\ search.limit \in Nat
  BY SearchAssumption DEF SearchInv, SearchTypes, PlaceOK, Running, NoSearch, Runs
<1>2. /\ Found \subseteq AllHits /\ IsFiniteSet(Found) /\ Cardinality(Found) \in Nat
      /\ \A h \in Found : h.project = p
  <2>1. Rows \in SUBSET DOMAIN rows[p]
    BY DEF Fetch, Rows
  <2> QED
    BY <1>1, <2>1, HitsNameRows DEF Found
<1>3. /\ IsFiniteSet(Matching(p)) /\ Cardinality(Matching(p)) \in Nat
      /\ \A h \in Matching(p) : h.project = p
  BY <1>1, HitsNameRows DEF Matching
<1>4. Found \subseteq Matching(p) /\ (RanDry => Found = Matching(p))
  <2>1. search.n \in Nat
    BY <1>1 DEF Runs
  <2>2. RanDry => Rows = DOMAIN rows[p]
    BY <1>1, <2>1, DryHasAll DEF Rows, RanDry
  <2> QED
    BY <1>1, <2>1, <2>2, HitsMatch DEF Matching, Found, Rows
<1>5. /\ top \subseteq Found /\ IsFiniteSet(top) /\ Cardinality(top) \in Nat
      /\ Cardinality(Found) >= search.limit => Cardinality(top) = search.limit
  BY <1>1, <1>2, TopsAreParts DEF Lesser
<1>6. RanDry \in BOOLEAN /\ IsShort(p) \in BOOLEAN
  BY DEF RanDry, IsShort
<1> HIDE DEF p
<1>7. top \subseteq AllHits
  BY <1>2, <1>5
<1>8. /\ search' \in Runs /\ search'.at = "entry" /\ search'.found = search.found \cup top
      /\ search'.total = search.total + Cardinality(Found) /\ search'.limit = search.limit
      /\ (search'.exhaustive => search.exhaustive /\ RanDry /\ ~ IsShort(p))
      /\ (search.exhaustive /\ RanDry => search'.exhaustive \/ search'.short # {})
      /\ search.short \subseteq search'.short
      /\ search'.todo = search.todo /\ search'.noted = search.noted
      /\ search.capped \subseteq search'.capped /\ (search.n >= Cap => search'.capped # {})
  <2> DEFINE capped == IF search.n >= Cap THEN search.capped \cup {search.project} ELSE search.capped
             short == IF IsShort(search.project) THEN search.short \cup {search.project} ELSE search.short
             dry == search.exhaustive /\ RanDry /\ ~ IsShort(search.project)
  <2>1. capped \in SUBSET Projects /\ search.capped \subseteq capped /\ (search.n >= Cap => capped # {})
    BY <1>1 DEF Runs, p
  <2>4. /\ short \in SUBSET Projects /\ search.short \subseteq short
        /\ (IsShort(search.project) => short # {})
    BY <1>1 DEF Runs, p
  <2>2. search' = [search EXCEPT !.at = "entry", !.found = @ \cup top,
                       !.total = @ + Cardinality(Found), !.exhaustive = dry, !.capped = capped,
                       !.short = short]
    OBVIOUS
  <2>3. dry \in BOOLEAN /\ search.total + Cardinality(Found) \in Nat
        /\ search.found \cup top \in SUBSET AllHits
    BY <1>1, <1>2, <1>7 DEF Runs
  <2>5. (dry => search.exhaustive /\ RanDry /\ ~ IsShort(p))
        /\ (search.exhaustive /\ RanDry => dry \/ short # {})
    BY <2>4 DEF p
  <2> HIDE DEF capped, short, dry
  <2> QED
    BY <1>1, <2>1, <2>2, <2>3, <2>4, <2>5 DEF Runs
<1>9. Done' = Done \cup {p} /\ p \notin Done
  BY <1>1, <1>8 DEF Done, SearchInv, PlaceOK, Running, p
<1>10. Reached' = Reached \cup Matching(p) /\ (IsShort(p) \/ Shorts' = Shorts)
  BY <1>9, SameReached DEF Reached, Shorts
<1>11. \A q \in Done : \A h \in Matching(q) : h.project = q
  BY <1>1, HitsNameRows DEF Matching, Done
<1>12. Reached \cap Matching(p) = {}
  BY <1>3, <1>9, <1>11 DEF Reached
<1>13. /\ IsFiniteSet(Reached) /\ Cardinality(Reached) \in Nat /\ search.total \in Nat
       /\ search.total <= Cardinality(Reached) /\ search.found \subseteq Reached
       /\ search.exhaustive => search.total = Cardinality(Reached) /\ Shorts = {}
  BY <1>1, FS_CardinalityType DEF SearchInv, CountOK, FoundOK, Runs
<1>14. /\ IsFiniteSet(Reached') /\ Cardinality(Reached') = Cardinality(Reached) + Cardinality(Matching(p))
  <2>1. /\ IsFiniteSet(Reached \cup Matching(p))
        /\ Cardinality(Reached \cup Matching(p))
             = Cardinality(Reached) + Cardinality(Matching(p)) - Cardinality(Reached \cap Matching(p))
    BY <1>3, <1>13, FS_Union
  <2>2. Cardinality(Reached \cap Matching(p)) = 0
    BY <1>12, FS_EmptySet
  <2> QED
    BY <1>3, <1>10, <1>13, <2>1, <2>2
<1>15. CountOK'
  <2>1. Cardinality(Found) <= Cardinality(Matching(p))
    BY <1>3, <1>4, FS_Subset
  <2> QED
    BY <1>2, <1>3, <1>4, <1>8, <1>10, <1>13, <1>14, <2>1 DEF CountOK, Running
<1>16. FoundOK'
  <2>1. search'.found \subseteq Reached'
    BY <1>4, <1>5, <1>8, <1>10, <1>13
  <2>2. ASSUME search'.exhaustive, NEW q \in Projects
        PROVE  OfProject(search'.found, q) \in Tops(OfProject(Reached', q), search'.limit)
    <3>1. OfProject(search.found, q) \in Tops(OfProject(Reached, q), search.limit)
      BY <1>1, <1>8, <2>2 DEF SearchInv, FoundOK
    <3>2. CASE q = p
      <4>1. OfProject(Reached, p) = {} /\ OfProject(search.found, p) = {}
        BY <1>9, <1>11, <1>13 DEF OfProject, Reached
      <4>2. OfProject(search'.found, p) = top
        BY <1>2, <1>5, <1>8, <4>1 DEF OfProject
      <4>3. OfProject(Reached', p) = Matching(p)
        BY <1>3, <1>10, <4>1 DEF OfProject
      <4> QED
        BY <1>4, <1>8, <2>2, <3>2, <4>2, <4>3
    <3>3. CASE q # p
      <4>1. OfProject(search'.found, q) = OfProject(search.found, q)
        BY <1>2, <1>5, <1>8, <3>3 DEF OfProject
      <4>2. OfProject(Reached', q) = OfProject(Reached, q)
        BY <1>3, <1>10, <3>3 DEF OfProject
      <4> QED
        BY <1>8, <3>1, <4>1, <4>2
    <3> QED
      BY <3>2, <3>3
  <2> QED
    BY <1>8, <2>1, <2>2 DEF FoundOK
<1>17. EnoughOK'
  <2>1. IsFiniteSet(search.found) /\ IsFiniteSet(search'.found)
    BY <1>5, <1>8, <1>13, FS_Subset, FS_Union
  <2>2. /\ Cardinality(search.found) <= Cardinality(search'.found)
        /\ Cardinality(top) <= Cardinality(search'.found)
        /\ Cardinality(search.found) \in Nat /\ Cardinality(search'.found) \in Nat
    BY <1>8, <2>1, FS_Subset, FS_CardinalityType
  <2> QED
    <3>1. search.exhaustive \/ search.capped # {} \/ search.short # {}
          \/ Cardinality(search.found) >= search.limit
      BY <1>1 DEF SearchInv, EnoughOK
    <3>2. RanDry \/ search.n >= Cap \/ Cardinality(top) = search.limit
      BY <1>5
    <3> QED
      BY <1>1, <1>5, <1>8, <2>2, <3>1, <3>2 DEF EnoughOK
<1>18. SearchTypes' /\ PlaceOK'
  BY <1>1, <1>8 DEF SearchInv, SearchTypes, RowsOK, PlaceOK, Running
<1> QED
  BY <1>15, <1>16, <1>17, <1>18 DEF SearchInv

\* A round ends the search of a store, or asks for more rows (adaptive_vector_search).
LEMMA RoundKeeps ==
    ASSUME SearchInv, Round
    PROVE  SearchInv'
<1>1. search.at = "round" /\ UNCHANGED <<rows, live>>
  BY DEF Round
<1>2. CASE search' = [search EXCEPT !.at = "entry", !.noted = @ \cup {search.project}]
  BY <1>1, <1>2, NotedKeeps
<1>3. CASE search' = [search EXCEPT !.n = Lesser(2 * search.n, Cap)]
  BY <1>1, <1>3, MoreRowsKeeps
<1>4. ASSUME Cardinality(Found) >= search.limit \/ RanDry \/ search.n >= Cap,
             NEW top \in Tops(Found, search.limit),
             search' = [search EXCEPT !.at = "entry", !.found = @ \cup top,
                            !.total = @ + Cardinality(Found),
                            !.exhaustive = @ /\ RanDry /\ ~ IsShort(search.project),
                            !.capped = IF search.n >= Cap THEN @ \cup {search.project} ELSE @,
                            !.short = IF IsShort(search.project) THEN @ \cup {search.project} ELSE @]
      PROVE  SearchInv'
  BY <1>1, <1>4, TakenKeeps
<1> QED
  BY <1>2, <1>3, <1>4 DEF Round, Enough, Dry, Rows, Found, RanDry

\* The answer is the top of what the projects gave.
LEMMA MergeKeeps ==
    ASSUME SearchInv, Merge
    PROVE  SearchInv'
<1>1. /\ search.at = "entry" /\ search.todo = {} /\ UNCHANGED <<rows, live>>
      /\ search \in Runs /\ Running /\ search.limit \in Nat /\ RowsOK
  BY SearchAssumption DEF SearchInv, SearchTypes, Merge, Running, NoSearch, Runs
<1>2. PICK top \in Tops(search.found, search.limit) :
         search' = [search EXCEPT !.at = "done", !.found = top]
  BY DEF Merge
<1>3. /\ IsFiniteSet(search.found) /\ IsFiniteSet(Reached) /\ search.found \subseteq Reached
      /\ search.found \subseteq AllHits
  BY <1>1, FS_Subset DEF SearchInv, CountOK, FoundOK, Runs
<1>4. /\ top \subseteq search.found /\ Cardinality(top) = Lesser(search.limit, Cardinality(search.found))
      /\ Cardinality(search.found) \in Nat
  BY <1>1, <1>3, TopsAreParts
<1>5. /\ search' \in Runs /\ search'.at = "done" /\ search'.found = top /\ search'.todo = search.todo
      /\ search'.noted = search.noted /\ search'.limit = search.limit
      /\ search'.total = search.total /\ search'.capped = search.capped
      /\ search'.short = search.short
      /\ search'.exhaustive = search.exhaustive
  BY <1>1, <1>2, <1>3, <1>4 DEF Runs
<1>6. Done' = Done /\ Reached' = Reached /\ Shorts' = Shorts
  <2>1. Done' = Done
    BY <1>1, <1>5 DEF Done
  <2> QED
    BY <2>1, <1>1, SameReached
<1>7. SearchTypes' /\ PlaceOK' /\ CountOK'
  BY <1>1, <1>5, <1>6 DEF SearchInv, SearchTypes, RowsOK, PlaceOK, CountOK, Running
<1>8. EnoughOK'
  BY <1>1, <1>4, <1>5 DEF SearchInv, EnoughOK, Running, Lesser
<1>9. FoundOK'
  <2>1. Reached \subseteq AllHits
    <3>1. \A q \in Projects : Matching(q) \subseteq AllHits
      BY <1>1, HitsNameRows DEF Matching
    <3> QED
      BY <3>1 DEF Reached, Done
  <2>2. ASSUME search.exhaustive PROVE top \in Tops(Reached, search.limit)
    <3>1. \A q \in Projects :
             OfProject(search.found, q) \in Tops(OfProject(Reached, q), search.limit)
      BY <1>1, <2>2 DEF SearchInv, FoundOK
    <3> HIDE DEF Reached
    <3> QED
      BY <1>1, <1>2, <1>3, <2>1, <3>1, TopOfTops
  <2> QED
    BY <1>1, <1>3, <1>4, <1>5, <1>6, <2>2 DEF FoundOK
<1> QED
  BY <1>7, <1>8, <1>9 DEF SearchInv

\* What happens around the search.
LEMMA AroundKeeps ==
    ASSUME SearchInv,
           \/ \E p \in Projects, m \in Findable : RemoveElsewhere(p, m)
           \/ \E p \in Projects : \E s \in Scores[p] : Unembed(p, s)
           \/ \E p \in Projects : Close(p)
           \/ UNCHANGED searchVars
    PROVE  SearchInv'
<1>1. CASE UNCHANGED <<rows, live, search>>
  <2>1. Done' = Done /\ Reached' = Reached /\ Shorts' = Shorts
    BY <1>1, SameReached DEF Done
  <2> QED
    BY <1>1, <2>1 DEF SearchInv, SearchTypes, RowsOK, PlaceOK, CountOK, FoundOK, EnoughOK, Running
<1>2. CASE search = NoSearch /\ UNCHANGED search /\ RowsOK'
  BY <1>2 DEF SearchInv, SearchTypes, PlaceOK, CountOK, FoundOK, EnoughOK, Running, NoSearch
<1>3. ASSUME NEW p \in Projects, NEW m \in Findable, RemoveElsewhere(p, m) PROVE RowsOK'
  BY <1>3 DEF RemoveElsewhere, SearchInv, SearchTypes, RowsOK
<1>4. ASSUME NEW p \in Projects, NEW s \in Scores[p], Unembed(p, s) PROVE RowsOK'
  BY <1>4 DEF Unembed, SearchInv, SearchTypes, RowsOK
<1> QED
  BY <1>1, <1>2, <1>3, <1>4 DEF RemoveElsewhere, Unembed, Edit, Close, searchVars

\* Every step of a search, and all that happens beside it, keeps the invariant.
LEMMA NextSearch == SearchInv /\ [SearchNext]_searchVars => SearchInv'
BY BeginKeeps, NextEntryKeeps, RoundKeeps, MergeKeeps, AroundKeeps DEF SearchNext

\* An index that is not short covers the nodes of its project.
LEMMA NotShortCovers ==
    ASSUME RowsOK, NEW p \in Projects \ Pinned, ~ IsShort(p)
    PROVE  Covers(p)
<1> DEFINE I == {rows[p][s] : s \in DOMAIN rows[p]}
           N == live[p]
<1>1. I \subseteq Findable /\ N \subseteq Findable
  BY DEF RowsOK
<1>2. ~ (Cardinality(N) > Cardinality(I) + 1 /\ 49 * Cardinality(N) > 50 * Cardinality(I))
  BY DEF IsShort
<1>3. SUFFICES \/ Cardinality(N \ I) <= Cardinality(I \ N) + 1
               \/ 50 * Cardinality(N \ I) <= 50 * Cardinality(I \ N) + Cardinality(N)
  BY DEF Covers
<1> HIDE DEF I, N
<1>4. IsFiniteSet(I) /\ IsFiniteSet(N)
  BY <1>1, SearchAssumption, FS_Subset
<1>5. /\ Cardinality(N \ I) = Cardinality(N) - Cardinality(N \cap I)
      /\ Cardinality(I \ N) = Cardinality(I) - Cardinality(I \cap N)
  BY <1>4, FS_Difference
<1>6. N \cap I = I \cap N
  OBVIOUS
<1>7. /\ Cardinality(N) \in Nat /\ Cardinality(I) \in Nat /\ Cardinality(I \cap N) \in Nat
  BY <1>4, FS_Intersection, FS_CardinalityType
<1>8. \A n, i, x \in Nat : ~ (n > i + 1 /\ 49 * n > 50 * i) =>
          n - x <= (i - x) + 1 \/ 50 * (n - x) <= 50 * (i - x) + n
  OBVIOUS
<1> QED
  BY <1>2, <1>5, <1>6, <1>7, <1>8

(* What a search says of itself is true: its count is that of the nodes that  *)
(* may be found in the projects that were open, or a floor of it when it says *)
(* so; an answer said to be exhaustive is the weighted top of them all, and   *)
(* the indexes of the other projects covered their nodes up to the slack; and *)
(* a short answer that is not exhaustive is due to the cap or names an index  *)
(* that is short (adaptive_vector_search, _index_coverage, cognition_search). *)
THEOREM SearchAnswersHonestly == SearchSpec => []AnswersAreHonest
<1>1. ASSUME SearchInv, Answered PROVE AnswersAreHonest
  <2>1. search \in Runs /\ Running /\ search.at = "done" /\ search.todo = {} /\ search.limit \in Nat
    <3>1. search.at = "done" /\ Running
      BY <1>1 DEF Answered, Running
    <3>2. search \in Runs
      BY <1>1, <3>1 DEF SearchInv, SearchTypes, NoSearch
    <3> QED
      BY <1>1, <3>1, <3>2, SearchAssumption DEF SearchInv, PlaceOK, Runs
  <2>2. Reached = All
    BY <2>1 DEF Reached, Done, All, Searched
  <2>3. IsFiniteSet(search.found) /\ Cardinality(search.found) \in Nat
    BY <1>1, <2>1, FS_Subset, FS_CardinalityType DEF SearchInv, CountOK, FoundOK
  <2>4. ASSUME search.exhaustive, NEW q \in Searched \ Pinned PROVE Covers(q)
    <3>1. RowsOK /\ Shorts = {}
      BY <1>1, <2>1, <2>4 DEF SearchInv, SearchTypes, CountOK
    <3>2. q \in Done /\ q \in Projects
      BY <2>1 DEF Done, Searched
    <3>3. ~ IsShort(q)
      BY <3>1, <3>2 DEF Shorts
    <3> QED
      BY <3>1, <3>2, <3>3, NotShortCovers
  <2> QED
    BY <1>1, <2>1, <2>2, <2>3, <2>4 DEF SearchInv, CountOK, FoundOK, EnoughOK, AnswersAreHonest
<1>2. SearchInv => AnswersAreHonest
  BY <1>1 DEF AnswersAreHonest
<1> QED
  BY <1>2, InitSearch, NextSearch, PTL DEF SearchSpec

-----------------------------------------------------------------------------
(* Curation: what the clones know, and what is so of it.                     *)

IsBorn(R, n) == n \in Initial \/ \E r \in R : r.kind = "node" /\ r.of = n
Earlier(R, at) == {r \in R : r.at < at}
OnScope(r) == r.kind \in {"scope", "flag"}

\* No version is replaced, in however many steps, by what it replaces: in every set of
\* nodes there is an oldest and a newest.
NoRing(E) ==
    \A S \in SUBSET Nodes : S # {} =>
        /\ \E n \in S : Older(E, n) \cap S = {}
        /\ \E n \in S : Newer(E, n) \cap S = {}

\* What may be said of a set of records; those of a clone have stamps up to now.
StampedBy(R, t) == \A r \in R : r.at \in Nat /\ r.at <= t
JustWritten(W, t) == \A r \in W : r.at = t + 1
EdgesOK(R) == \A r \in R : r.kind = "edge" =>
    \A n \in {From(r.of), To(r.of)} : n \in Nodes /\ IsBorn(R, n)
RulingsOK(R) == \A r, s \in R :
    OnScope(r) /\ OnScope(s) /\ r.of = s.of /\ r.at = s.at => r = s

\* A flag suggests another scope than the node had when the flag was written.
FlagsOK(R) == \A f \in R : f.kind = "flag" =>
    Type[f.of] = "constraint" /\ f.value # Scope(Earlier(R, f.at), f.of)

\* Of two clones one knows all that the other knows, while all writers are up to date.
InLine == \A c, d \in Repos : known[c] \subseteq known[d] \/ known[d] \subseteq known[c]

\* A version that was checked, and is not yet written, closes no ring of all records.
ClosesNone(E, e) == From(e) \notin Reach([n \in Nodes |-> Older(E, n)], {To(e)})
CheckedOK == \A x \in checked : From(x[2]) \in Nodes /\ To(x[2]) \in Nodes
ChecksHold(R) == \A x \in checked : Versions(x[2]) => ClosesNone(EdgesIn(R), x[2])

CurationInv ==
    /\ now \in Nat /\ DOMAIN known = Repos /\ scene \in Scenes /\ swept \subseteq Repos
    /\ StampedBy(Records, now) /\ RulingsOK(Records)
    /\ \A c \in Repos : EdgesOK(known[c])
    /\ unheard \/ (InLine /\ \A c \in Repos : FlagsOK(known[c]))
    /\ CheckedOK
    /\ unheard \/ astray \/ (ChecksHold(Records) /\ \A c \in Repos : NoRing(EdgesIn(known[c])))
    /\ SweptIsLinked

-----------------------------------------------------------------------------
(* Curation: what is reached from a node.                                    *)

StepOn(step, S) == S \cup UNION {step[n] : n \in S}
FarOn(step, start, k) ==
    CHOOSE far : far = [i \in 0..k |-> IF i = 0 THEN start ELSE StepOn(step, far[i - 1])]

\* The steps are defined by the steps before them.
LEMMA StepsOn ==
    ASSUME NEW step, NEW start, NEW k \in Nat
    PROVE  FarOn(step, start, k)
             = [i \in 0..k |-> IF i = 0 THEN start ELSE StepOn(step, FarOn(step, start, k)[i - 1])]
<1> DEFINE Is(f, m) == f = [i \in 0..m |-> IF i = 0 THEN start ELSE StepOn(step, f[i - 1])]
           T == {m \in Nat : ~ \E f : Is(f, m)}
<1>1. T = {}
  <2> SUFFICES ASSUME T # {} PROVE FALSE
    OBVIOUS
  <2>1. PICK m \in T : \A x \in T : m <= x
    BY LeastNumber
  <2>2. CASE m = 0
    <3> DEFINE f == [i \in 0..0 |-> start]
    <3>1. Is(f, 0)
      OBVIOUS
    <3> QED
      BY <2>1, <2>2, <3>1
  <2>3. CASE m # 0
    <3>1. m - 1 \in Nat /\ ~ (m <= m - 1)
      BY <2>1, <2>3
    <3>2. PICK g : Is(g, m - 1)
      BY <2>1, <3>1
    <3> DEFINE f == [i \in 0..m |-> IF i = m THEN StepOn(step, g[m - 1]) ELSE g[i]]
    <3>3. \A i \in 0..m : f[i] = IF i = 0 THEN start ELSE StepOn(step, f[i - 1])
      BY <2>1, <2>3, <3>2
    <3>4. Is(f, m)
      BY <3>3
    <3> QED
      BY <2>1, <3>4
  <2> QED
    BY <2>2, <2>3
<1>2. \E f : Is(f, k)
  BY <1>1
<1> QED
  BY <1>2 DEF FarOn

\* What is reached is what the last of those steps has found.
LEMMA ReachIsFar ==
    ASSUME NEW step, NEW start
    PROVE  Reach(step, start) = FarOn(step, start, Cardinality(Nodes))[Cardinality(Nodes)]
BY DEF Reach, FarOn, StepOn

KeptBy(step, S) == \A n \in S : step[n] \subseteq S

\* A set that no step leaves holds what is reached from within it.
LEMMA ReachIsLeast ==
    ASSUME NEW step, NEW start, NEW S, start \subseteq S, KeptBy(step, S)
    PROVE  Reach(step, start) \subseteq S
<1> DEFINE N == Cardinality(Nodes)
           far == FarOn(step, start, N)
           T == {k \in Nat : k <= N /\ ~ (far[k] \subseteq S)}
<1>1. N \in Nat
  BY CurationAssumption, FS_CardinalityType
<1>2. far = [k \in 0..N |-> IF k = 0 THEN start ELSE StepOn(step, far[k - 1])]
  BY <1>1, StepsOn
<1> HIDE DEF far, N
<1>3. T = {}
  <2> SUFFICES ASSUME T # {} PROVE FALSE
    OBVIOUS
  <2>1. PICK k \in T : \A j \in T : k <= j
    BY LeastNumber
  <2>2. k # 0
    BY <1>1, <1>2, <2>1
  <2>3. k - 1 \in Nat /\ k - 1 <= N /\ ~ (k <= k - 1) /\ far[k] = StepOn(step, far[k - 1])
    BY <1>1, <1>2, <2>1, <2>2
  <2>4. far[k - 1] \subseteq S
    BY <2>1, <2>3
  <2> QED
    BY <2>1, <2>3, <2>4 DEF StepOn, KeptBy
<1>4. far[N] \subseteq S
  BY <1>1, <1>3
<1> QED
  BY <1>4, ReachIsFar DEF far, N

\* Where a step leads from what is reached is reached: each step but the last finds a
\* node that was not found before.
LEMMA ReachIsKept ==
    ASSUME NEW step \in [Nodes -> SUBSET Nodes], NEW start \in SUBSET Nodes
    PROVE  /\ start \subseteq Reach(step, start) /\ Reach(step, start) \subseteq Nodes
           /\ KeptBy(step, Reach(step, start))
<1> DEFINE N == Cardinality(Nodes)
           far == FarOn(step, start, N)
           OK(k) == /\ start \subseteq far[k] /\ far[k] \subseteq Nodes
                    /\ KeptBy(step, far[k]) \/ Cardinality(far[k]) > k
           T == {k \in Nat : k <= N /\ ~ OK(k)}
<1>1. N \in Nat
  BY CurationAssumption, FS_CardinalityType
<1>2. far = [k \in 0..N |-> IF k = 0 THEN start ELSE StepOn(step, far[k - 1])]
  BY <1>1, StepsOn
<1> HIDE DEF far, N
<1>3. \A S \in SUBSET Nodes : IsFiniteSet(S) /\ Cardinality(S) \in Nat /\ Cardinality(S) <= N
  BY CurationAssumption, FS_Subset, FS_CardinalityType DEF N
<1>4. T = {}
  <2> SUFFICES ASSUME T # {} PROVE FALSE
    OBVIOUS
  <2>1. PICK k \in T : \A j \in T : k <= j
    BY LeastNumber
  <2>2. CASE k = 0
    <3>1. far[0] = start
      BY <1>1, <1>2
    <3>2. start = {} => KeptBy(step, start)
      BY DEF KeptBy
    <3>3. start # {} => Cardinality(start) > 0
      BY <1>3, FS_EmptySet
    <3> QED
      BY <2>1, <2>2, <3>1, <3>2, <3>3
  <2>3. CASE k # 0
    <3>1. k - 1 \in Nat /\ k - 1 <= N /\ ~ (k <= k - 1) /\ far[k] = StepOn(step, far[k - 1])
      BY <1>1, <1>2, <2>1, <2>3
    <3>2. OK(k - 1)
      BY <2>1, <3>1
    <3> DEFINE A == far[k - 1]
               B == far[k]
    <3>3. B = StepOn(step, A) /\ A \subseteq B /\ start \subseteq A /\ A \subseteq Nodes /\ B \subseteq Nodes
      BY <3>1, <3>2 DEF StepOn
    <3> HIDE DEF A, B
    <3>4. CASE A = B
      <4>1. KeptBy(step, B)
        BY <3>3, <3>4 DEF KeptBy, StepOn
      <4> QED
        BY <2>1, <3>3, <4>1 DEF A, B
    <3>5. CASE A # B
      <4>1. ~ KeptBy(step, A)
        BY <3>3, <3>5 DEF KeptBy, StepOn
      <4>2. /\ Cardinality(A) <= Cardinality(B)
            /\ Cardinality(B) = Cardinality(A) => B = A
        BY <1>3, <3>3, FS_Subset
      <4>3. Cardinality(A) > k - 1
        BY <3>2, <4>1 DEF A
      <4>4. Cardinality(B) > k
        <5>1. k \in Nat /\ Cardinality(A) \in Nat /\ Cardinality(B) \in Nat
          BY <1>3, <2>1, <3>3
        <5> HIDE DEF T
        <5> QED
          BY <3>5, <4>2, <4>3, <5>1
      <4> QED
        BY <2>1, <3>3, <4>4 DEF A, B
    <3> QED
      BY <3>4, <3>5
  <2> QED
    BY <2>2, <2>3
<1>5. OK(N)
  BY <1>1, <1>4
<1>6. ~ (Cardinality(far[N]) > N)
  BY <1>1, <1>3, <1>5
<1> QED
  BY <1>5, <1>6, ReachIsFar DEF far, N

-----------------------------------------------------------------------------
(* Curation: versions that replace each other.                               *)

Olders(E) == [n \in Nodes |-> Older(E, n)]
Newers(E) == [n \in Nodes |-> Newer(E, n)]
InNodes(E) == \A e \in E : From(e) \in Nodes /\ To(e) \in Nodes

LEMMA StepsStay ==
    ASSUME NEW E, InNodes(E)
    PROVE  Olders(E) \in [Nodes -> SUBSET Nodes] /\ Newers(E) \in [Nodes -> SUBSET Nodes]
BY DEF Olders, Newers, Older, Newer, InNodes

\* With fewer versions there is no ring either.
LEMMA FewerKeepNoRing ==
    ASSUME NEW E, NEW F, NoRing(E), \A e \in F : e[2] = Supersedes => e \in E
    PROVE  NoRing(F)
<1>1. \A n : Older(F, n) \subseteq Older(E, n) /\ Newer(F, n) \subseteq Newer(E, n)
  BY DEF Older, Newer
<1> QED
  BY <1>1 DEF NoRing

\* A version is drawn to a node from which nothing leads back: no ring is closed.
LEMMA DrawnKeepsNoRing ==
    ASSUME NEW E, InNodes(E), NoRing(E), NEW e, To(e) \in Nodes,
           From(e) \notin Reach(Olders(E), {To(e)})
    PROVE  NoRing(E \cup {e})
<1> DEFINE D == Reach(Olders(E), {To(e)})
           F == E \cup {e}
<1>1. To(e) \in D /\ D \subseteq Nodes /\ From(e) \notin D /\ KeptBy(Olders(E), D)
  BY StepsStay, ReachIsKept
<1>2. \A n \in D : Older(E, n) \subseteq D
  BY <1>1 DEF KeptBy, Olders
<1>3. \A n : n \notin D => Newer(E, n) \cap D = {}
  BY <1>2 DEF Older, Newer
<1>4. /\ \A n : n # From(e) => Older(F, n) = Older(E, n)
      /\ \A n : n # To(e) => Newer(F, n) = Newer(E, n)
      /\ \A n : Older(F, n) \subseteq Older(E, n) \cup {To(e)}
      /\ \A n : Newer(F, n) \subseteq Newer(E, n) \cup {From(e)}
  BY DEF Older, Newer
<1> HIDE DEF D, F
<1> SUFFICES ASSUME NEW S \in SUBSET Nodes, S # {}
             PROVE  /\ \E n \in S : Older(F, n) \cap S = {}
                    /\ \E n \in S : Newer(F, n) \cap S = {}
  BY DEF NoRing, F
<1>5. \E n \in S : Older(F, n) \cap S = {}
  <2>1. CASE S \cap D = {}
    <3>1. PICK n \in S : Older(E, n) \cap S = {}
      BY DEF NoRing
    <3> QED
      BY <1>1, <1>4, <2>1, <3>1
  <2>2. CASE S \cap D # {}
    <3>1. PICK n \in S \cap D : Older(E, n) \cap (S \cap D) = {}
      BY <2>2 DEF NoRing
    <3>2. Older(E, n) \cap S = {} /\ n # From(e)
      BY <1>1, <1>2, <3>1
    <3> QED
      BY <1>4, <3>1, <3>2
  <2> QED
    BY <2>1, <2>2
<1>6. \E n \in S : Newer(F, n) \cap S = {}
  <2>1. CASE S \subseteq D
    <3>1. PICK n \in S : Newer(E, n) \cap S = {}
      BY DEF NoRing
    <3> QED
      BY <1>1, <1>4, <2>1, <3>1
  <2>2. CASE S \ D # {}
    <3>1. PICK n \in S \ D : Newer(E, n) \cap (S \ D) = {}
      BY <2>2 DEF NoRing
    <3>2. Newer(E, n) \cap S = {} /\ n # To(e)
      BY <1>1, <1>3, <3>1
    <3> QED
      BY <1>4, <3>1, <3>2
  <2> QED
    BY <2>1, <2>2
<1> QED
  BY <1>5, <1>6

\* Where newer versions lead upwards, the older ones lead back, and the reverse.
LEMMA WaysLeadBack ==
    ASSUME NEW E, InNodes(E), NEW n \in Nodes
    PROVE  /\ \A h \in Reach(Newers(E), {n}) : n \in Reach(Olders(E), {h})
           /\ \A m \in Reach(Olders(E), {n}) : n \in Reach(Newers(E), {m})
<1>1. \A x, y \in Nodes : x \in Older(E, y) <=> y \in Newer(E, x)
  BY DEF Older, Newer
<1>2. \A x \in Nodes : /\ Older(E, x) \subseteq Nodes /\ Newer(E, x) \subseteq Nodes
                       /\ Olders(E)[x] = Older(E, x) /\ Newers(E)[x] = Newer(E, x)
  BY DEF Older, Newer, InNodes, Olders, Newers
<1>3. \A x \in Nodes :
          /\ x \in Reach(Olders(E), {x}) /\ Reach(Olders(E), {x}) \subseteq Nodes
          /\ KeptBy(Olders(E), Reach(Olders(E), {x}))
          /\ x \in Reach(Newers(E), {x}) /\ Reach(Newers(E), {x}) \subseteq Nodes
          /\ KeptBy(Newers(E), Reach(Newers(E), {x}))
  BY StepsStay, ReachIsKept
<1>4. ASSUME NEW x \in Nodes, NEW y \in Newer(E, x)
      PROVE  Reach(Olders(E), {x}) \subseteq Reach(Olders(E), {y})
  <2>1. y \in Nodes /\ x \in Olders(E)[y]
    BY <1>1, <1>2, <1>4
  <2>2. {x} \subseteq Reach(Olders(E), {y})
    BY <1>3, <2>1 DEF KeptBy
  <2> QED
    BY <1>3, <2>1, <2>2, ReachIsLeast
<1>5. ASSUME NEW x \in Nodes, NEW y \in Older(E, x)
      PROVE  Reach(Newers(E), {x}) \subseteq Reach(Newers(E), {y})
  <2>1. y \in Nodes /\ x \in Newers(E)[y]
    BY <1>1, <1>2, <1>5
  <2>2. {x} \subseteq Reach(Newers(E), {y})
    BY <1>3, <2>1 DEF KeptBy
  <2> QED
    BY <1>3, <2>1, <2>2, ReachIsLeast
<1> DEFINE A == {h \in Nodes : n \in Reach(Olders(E), {h})}
           B == {m \in Nodes : n \in Reach(Newers(E), {m})}
<1>6. {n} \subseteq A /\ KeptBy(Newers(E), A)
  BY <1>2, <1>3, <1>4 DEF KeptBy
<1>7. {n} \subseteq B /\ KeptBy(Olders(E), B)
  BY <1>2, <1>3, <1>5 DEF KeptBy
<1>8. Reach(Newers(E), {n}) \subseteq A
  BY <1>6, ReachIsLeast
<1>9. Reach(Olders(E), {n}) \subseteq B
  BY <1>7, ReachIsLeast
<1> QED
  BY <1>8, <1>9

\* With fewer versions no more is reached.
LEMMA FewerReach ==
    ASSUME NEW E, InNodes(E), NEW F, \A e \in F : Versions(e) => e \in E, NEW e, To(e) \in Nodes,
           ClosesNone(E, e)
    PROVE  ClosesNone(F, e)
<1> DEFINE D == Reach(Olders(E), {To(e)})
<1>1. To(e) \in D /\ D \subseteq Nodes /\ From(e) \notin D /\ KeptBy(Olders(E), D)
  BY StepsStay, ReachIsKept DEF ClosesNone, Olders
<1> HIDE DEF D
<1>2. \A n \in Nodes : Olders(F)[n] \subseteq Olders(E)[n]
  BY DEF Olders, Older, Versions
<1>3. {To(e)} \subseteq D /\ KeptBy(Olders(F), D)
  BY <1>1, <1>2 DEF KeptBy
<1>4. Reach(Olders(F), {To(e)}) \subseteq D
  BY <1>3, ReachIsLeast
<1> QED
  BY <1>1, <1>4 DEF ClosesNone, Olders

\* Without a ring the walk up from a version ends at one that none replaces, and where
\* no version replaces two, the history of that one leads back.
LEMMA HeadsAreFound ==
    ASSUME NEW E, InNodes(E), NoRing(E), NEW n \in Nodes, NEW h \in HeadsOf(E, n)
    PROVE  /\ Newer(E, h) = {}
           /\ h = n \/ \E e \in E : From(e) = h
           /\ Branches(E) \/ n \in HistoryOf(E, h)
<1> DEFINE U == Reach(Newers(E), {n})
<1>1. /\ h \in U
      /\ Newers(E)[h] = {} \/ h \in Reach(Newers(E), Newers(E)[h])
  BY DEF HeadsOf, Newers
<1>2. \A x \in Nodes : Olders(E)[x] = Older(E, x) /\ Newers(E)[x] = Newer(E, x)
  BY DEF Olders, Newers
<1>3. U \subseteq Nodes /\ n \in U /\ KeptBy(Newers(E), U)
  BY StepsStay, ReachIsKept
<1>4. h \in Nodes
  BY <1>1, <1>3
<1>5. Newer(E, h) = {}
  <2> SUFFICES ASSUME Newer(E, h) # {} PROVE FALSE
    OBVIOUS
  <2> DEFINE V == Reach(Newers(E), Newer(E, h))
             C == Reach(Olders(E), {h})
             S == C \cap V
  <2>1. h \in V
    BY <1>1, <1>2, <1>4
  <2>2. Newer(E, h) \in SUBSET Nodes
    BY DEF Newer, InNodes
  <2>3. Newer(E, h) \subseteq V /\ V \subseteq Nodes /\ KeptBy(Newers(E), V)
    BY <2>2, StepsStay, ReachIsKept
  <2>4. C \subseteq Nodes /\ h \in C /\ KeptBy(Olders(E), C)
    BY <1>4, StepsStay, ReachIsKept
  <2> HIDE DEF V, C
  <2>5. PICK x \in S : Older(E, x) \cap S = {}
    BY <2>1, <2>3, <2>4 DEF NoRing
  <2>6. x \notin Newer(E, h)
    BY <2>1, <2>4, <2>5 DEF Older, Newer
  <2>7. PICK y \in V : x \in Newer(E, y)
    <3> SUFFICES ASSUME ~ \E y \in V : x \in Newer(E, y) PROVE FALSE
      OBVIOUS
    <3>1. Newer(E, h) \subseteq V \ {x} /\ KeptBy(Newers(E), V \ {x})
      BY <1>2, <2>3, <2>6 DEF KeptBy
    <3>2. V \subseteq V \ {x}
      BY <3>1, ReachIsLeast DEF V
    <3> QED
      BY <2>5, <3>2
  <2>8. y \in Older(E, x)
    BY <2>7 DEF Older, Newer
  <2>9. y \in C
    BY <1>2, <2>4, <2>5, <2>8 DEF KeptBy
  <2> QED
    BY <2>5, <2>7, <2>8, <2>9
<1>6. h = n \/ \E e \in E : From(e) = h
  <2> DEFINE A == {n} \cup {x \in Nodes : \E e \in E : From(e) = x}
  <2>1. {n} \subseteq A /\ KeptBy(Newers(E), A)
    BY <1>2 DEF KeptBy, Newer, InNodes
  <2>2. U \subseteq A
    BY <2>1, ReachIsLeast
  <2> QED
    BY <1>1, <2>2
<1>7. ASSUME ~ Branches(E) PROVE n \in HistoryOf(E, h)
  <2>1. n \in Reach(Olders(E), {h})
    BY <1>1, WaysLeadBack
  <2> DEFINE single == [o \in Nodes |-> IF Cardinality(Older(E, o)) = 1 THEN Older(E, o) ELSE {}]
  <2>2. ASSUME NEW o \in Nodes PROVE single[o] = Older(E, o)
    <3>1. IsFiniteSet(Older(E, o))
      <4>1. Older(E, o) \subseteq Nodes
        BY DEF Older, InNodes
      <4> QED
        BY <4>1, CurationAssumption, FS_Subset
    <3>2. Cardinality(Older(E, o)) \in Nat /\ ~ (Cardinality(Older(E, o)) > 1)
      BY <1>7, <3>1, FS_CardinalityType DEF Branches
    <3>3. Cardinality(Older(E, o)) = 0 => Older(E, o) = {}
      BY <3>1, FS_EmptySet
    <3>4. Cardinality(Older(E, o)) = 0 \/ Cardinality(Older(E, o)) = 1
      BY <3>2
    <3> QED
      BY <3>3, <3>4
  <2>3. single = Olders(E)
    <3>1. Olders(E) = [o \in Nodes |-> Older(E, o)]
      BY DEF Olders
    <3> QED
      BY <2>2, <3>1
  <2>4. HistoryOf(E, h) = Reach(single, {h})
    BY DEF HistoryOf
  <2> HIDE DEF single
  <2> QED
    BY <2>1, <2>3, <2>4
<1> QED
  BY <1>5, <1>6, <1>7

-----------------------------------------------------------------------------
(* Curation: what records say, and go on saying when others are added.       *)

\* Of records with stamps there is a newest.
LEMMA NewestIsThere ==
    ASSUME NEW R, NEW t \in Nat, StampedBy(R, t), R # {}
    PROVE  \E r \in R : \A o \in R : o.at <= r.at
<1> DEFINE T == {b \in Nat : \A o \in R : o.at <= b}
<1>1. t \in T
  BY DEF StampedBy
<1>2. PICK b \in T : \A x \in T : b <= x
  BY <1>1, LeastNumber
<1>3. PICK r \in R : r.at >= b
  <2>1. CASE b = 0
    BY <2>1 DEF StampedBy
  <2>2. CASE b # 0
    <3>1. b - 1 \in Nat /\ ~ (b <= b - 1)
      BY <1>2, <2>2
    <3>2. PICK o \in R : ~ (o.at <= b - 1)
      BY <1>2, <3>1
    <3> QED
      BY <1>2, <3>1, <3>2 DEF StampedBy
  <2> QED
    BY <2>1, <2>2
<1> QED
  BY <1>2, <1>3 DEF StampedBy

About(R, kinds, subject) == {r \in R : r.kind \in kinds /\ r.of = subject}

Newest(S) == CHOOSE r \in S : \A o \in S : o.at <= r.at

LEMMA SaidIs ==
    ASSUME NEW R, NEW kinds, NEW subject, NEW else
    PROVE  Said(R, kinds, subject, else)
             = IF About(R, kinds, subject) = {} THEN else ELSE Newest(About(R, kinds, subject)).value
BY Zenon DEF Said, About, Newest

\* What is said is what the newest record says.
LEMMA SaidByNewest ==
    ASSUME NEW R, NEW t \in Nat, StampedBy(R, t), NEW kinds, NEW subject, NEW else,
           About(R, kinds, subject) # {}
    PROVE  LET newest == Newest(About(R, kinds, subject))
           IN  /\ newest \in About(R, kinds, subject)
               /\ \A o \in About(R, kinds, subject) : o.at <= newest.at
               /\ Said(R, kinds, subject, else) = newest.value
<1> DEFINE S == About(R, kinds, subject)
<1>1. \E r \in S : \A o \in S : o.at <= r.at
  <2>1. StampedBy(S, t) /\ S # {}
    BY DEF StampedBy, About
  <2> HIDE DEF S
  <2> QED
    BY <2>1, NewestIsThere
<1>2. Newest(S) \in S /\ \A o \in S : o.at <= Newest(S).at
  <2> HIDE DEF S
  <2> QED
    BY <1>1, Zenon DEF Newest
<1> QED
  BY <1>2, SaidIs

LEMMA SaidBySame ==
    ASSUME NEW R, NEW Q, NEW kinds, NEW subject, NEW else,
           About(R, kinds, subject) = About(Q, kinds, subject)
    PROVE  Said(R, kinds, subject, else) = Said(Q, kinds, subject, else)
BY SaidIs

\* New records decide, where there are any.
LEMMA SaidByNew ==
    ASSUME NEW R, NEW W, NEW t \in Nat, StampedBy(R, t), JustWritten(W, t),
           NEW kinds, NEW subject, NEW else, About(W, kinds, subject) # {}
    PROVE  \E r \in About(W, kinds, subject) :
               Said(R \cup W, kinds, subject, else) = r.value
<1> DEFINE u == t + 1
<1>1. StampedBy(R \cup W, u) /\ u \in Nat /\ u > t /\ \A r \in W : r.at = u
  BY DEF StampedBy, JustWritten
<1> HIDE DEF u
<1>2. About(R \cup W, kinds, subject) # {}
  BY DEF About
<1> DEFINE r == Newest(About(R \cup W, kinds, subject))
<1>3. /\ r \in About(R \cup W, kinds, subject)
      /\ \A o \in About(R \cup W, kinds, subject) : o.at <= r.at
      /\ Said(R \cup W, kinds, subject, else) = r.value
  BY <1>1, <1>2, SaidByNewest
<1> HIDE DEF r
<1>4. r.at >= u
  BY <1>1, <1>3 DEF About
<1>5. r \in W
  BY <1>1, <1>3, <1>4 DEF About, StampedBy
<1> QED
  BY <1>3, <1>5 DEF About

LEMMA LivesByOthers ==
    ASSUME NEW R, NEW W, \A r \in W : r.kind \notin {"node", "removed"}
    PROVE  \A n : Lives(R \cup W, n) <=> Lives(R, n)
BY DEF Lives

LEMMA ScopeByOthers ==
    ASSUME NEW R, NEW W, \A r \in W : r.kind # "scope"
    PROVE  \A n : Scope(R \cup W, n) = Scope(R, n)
<1>1. \A n : About(R \cup W, {"scope"}, n) = About(R, {"scope"}, n)
  BY DEF About
<1>2. \A n, else : Said(R \cup W, {"scope"}, n, else) = Said(R, {"scope"}, n, else)
  BY <1>1, SaidBySame
<1> QED
  BY <1>2, Zenon DEF Scope

\* New records show no edge but those they say.
LEMMA EdgesAfter ==
    ASSUME NEW R, NEW W, NEW t \in Nat, StampedBy(R, t), JustWritten(W, t), EdgesOK(R),
           NEW x \in EdgesIn(R \cup W)
    PROVE  x \in EdgesIn(R) \/ \E r \in W : r.kind = "edge" /\ r.of = x /\ r.value
<1>1. Said(R \cup W, {"edge"}, x, FALSE) /\ Lives(R \cup W, From(x)) /\ Lives(R \cup W, To(x))
  BY DEF EdgesIn
<1> DEFINE no == FALSE
<1>2. CASE About(W, {"edge"}, x) # {}
  <2> HIDE DEF no
  <2>1. PICK r \in About(W, {"edge"}, x) : Said(R \cup W, {"edge"}, x, no) = r.value
    BY <1>2, SaidByNew
  <2> QED
    BY <1>1, <2>1 DEF About, no
<1>3. CASE About(W, {"edge"}, x) = {}
  <2>1. About(R \cup W, {"edge"}, x) = About(R, {"edge"}, x)
    BY <1>3 DEF About
  <2>2. Said(R, {"edge"}, x, FALSE)
    <3> HIDE DEF no
    <3>1. Said(R \cup W, {"edge"}, x, no) = Said(R, {"edge"}, x, no)
      BY <2>1, SaidBySame
    <3> QED
      BY <1>1, <3>1 DEF no
  <2>3. PICK r \in R : r.kind = "edge" /\ r.of = x
    BY <2>2 DEF Said
  <2>4. IsBorn(R, From(x)) /\ IsBorn(R, To(x))
    BY <2>3 DEF EdgesOK
  <2>5. Lives(R, From(x)) /\ Lives(R, To(x))
    BY <1>1, <2>4 DEF Lives, IsBorn
  <2>6. x \in {o.of : o \in {o \in R : o.kind = "edge"}}
    BY <2>3
  <2> QED
    BY <2>2, <2>5, <2>6 DEF EdgesIn
<1> QED
  BY <1>2, <1>3

\* An edge that shows runs between nodes.
LEMMA EdgesShown ==
    ASSUME NEW R, EdgesOK(R)
    PROVE  /\ InNodes(EdgesIn(R))
           /\ \A e \in EdgesIn(R) : /\ Lives(R, From(e)) /\ Lives(R, To(e))
                                    /\ IsBorn(R, From(e)) /\ IsBorn(R, To(e))
BY DEF EdgesOK, EdgesIn, InNodes

LEMMA FlagsAfter ==
    ASSUME NEW R, NEW W, NEW t \in Nat, StampedBy(R, t), JustWritten(W, t), FlagsOK(R),
           \A f \in W : f.kind = "flag" => Type[f.of] = "constraint" /\ f.value # Scope(R, f.of)
    PROVE  FlagsOK(R \cup W)
<1>1. \A f \in R : Earlier(R \cup W, f.at) = Earlier(R, f.at)
  BY DEF Earlier, StampedBy, JustWritten
<1>2. \A f \in W : Earlier(R \cup W, f.at) = R
  BY DEF Earlier, StampedBy, JustWritten
<1> QED
  BY <1>1, <1>2 DEF FlagsOK

-----------------------------------------------------------------------------
(* Curation: its steps.                                                      *)

\* What a clone may write into the records that it knows.
MayWrite(R, W) ==
    /\ RulingsOK(W) /\ EdgesOK(R \cup W)
    /\ \A f \in W : f.kind = "flag" => Type[f.of] = "constraint" /\ f.value # Scope(R, f.of)

NoNewVersion(R, W) == \A x \in EdgesIn(R \cup W) : Versions(x) => x \in EdgesIn(R)

\* What is said in the records of a clone that has heard of everything draws no version
\* at all; or one that closes no ring, while no other is waiting to be written.
DrawsSafely(c, W) ==
    unheard' \/ astray' \/ NoNewVersion(known[c], W)
    \/ (NoRing(EdgesIn(known[c] \cup W)) /\ \A x \in checked' : ~ Versions(x[2]))

\* A clone whose records did not change is still linked.
LEMMA SweptStay ==
    ASSUME CurationInv, swept' \subseteq swept, \A d \in swept' : known'[d] = known[d]
    PROVE  SweptIsLinked'
<1>1. \A d \in swept' : known'[d] = known[d] /\ d \in swept
  OBVIOUS
<1>2. \A d \in swept : \A e \in Warranted(known[d], d) : Connected(d, From(e), To(e))
  BY DEF CurationInv, SweptIsLinked
<1>3. \A d \in swept' : \A m, n : Connected(d, m, n)' <=> Connected(d, m, n)
  BY <1>1 DEF Connected, Shown, Sees
<1> QED
  BY <1>1, <1>2, <1>3 DEF SweptIsLinked

\* A clone writes what it may.
LEMMA WritingKeeps ==
    ASSUME CurationInv, NEW c \in Repos, NEW W, JustWritten(W, now), MayWrite(known[c], W),
           now' = now + 1, known' = [known EXCEPT ![c] = @ \cup W], UNCHANGED scene,
           unheard' = (unheard \/ known[c] # Records), astray => astray',
           checked' \subseteq checked, DrawsSafely(c, W), swept' \subseteq Repos, SweptIsLinked'
    PROVE  CurationInv'
<1>1. /\ now \in Nat /\ DOMAIN known = Repos /\ scene \in Scenes
      /\ StampedBy(Records, now) /\ RulingsOK(Records)
      /\ \A d \in Repos : EdgesOK(known[d])
  BY DEF CurationInv
<1>2. DOMAIN known' = Repos /\ known'[c] = known[c] \cup W
      /\ \A d \in Repos \ {c} : known'[d] = known[d]
  BY <1>1
<1>3. Records' = Records \cup W /\ \A d \in Repos : known[d] \subseteq Records
  BY <1>2 DEF Records
<1>4. now' \in Nat /\ StampedBy(Records', now')
  BY <1>1, <1>3 DEF StampedBy, JustWritten
<1>5. RulingsOK(Records')
  <2>1. \A r \in Records, s \in W : r.at # s.at
    BY <1>1 DEF StampedBy, JustWritten
  <2> QED
    BY <1>1, <1>3, <2>1 DEF RulingsOK, MayWrite
<1>6. \A d \in Repos : EdgesOK(known'[d])
  BY <1>1, <1>2 DEF MayWrite
<1>7. ASSUME ~ unheard' PROVE InLine' /\ \A d \in Repos : FlagsOK(known'[d])
  <2>1. ~ unheard /\ known[c] = Records /\ InLine /\ \A d \in Repos : FlagsOK(known[d])
    BY <1>7 DEF CurationInv
  <2>2. InLine'
    BY <1>2, <1>3, <2>1 DEF InLine
  <2>3. FlagsOK(known[c] \cup W)
    <3>1. StampedBy(known[c], now)
      BY <1>1, <2>1
    <3> QED
      BY <1>1, <2>1, <3>1, FlagsAfter DEF MayWrite
  <2> QED
    BY <1>2, <2>1, <2>2, <2>3
<1>8. ASSUME ~ unheard', ~ astray'
      PROVE  ChecksHold(Records)' /\ \A d \in Repos : NoRing(EdgesIn(known'[d]))
  <2> DEFINE E == EdgesIn(known[c])
             F == EdgesIn(known[c] \cup W)
  <2>1. /\ \A d \in Repos : NoRing(EdgesIn(known[d]))
        /\ ChecksHold(Records) /\ known[c] = Records
    BY <1>8 DEF CurationInv
  <2>2. InNodes(E)
    BY <1>1, EdgesShown
  <2>3. CheckedOK
    BY DEF CurationInv
  <2>4. EdgesIn(Records)' = F
    BY <1>3, <2>1 DEF EdgesIn
  <2>5. NoRing(E) /\ \A x \in checked : Versions(x[2]) => ClosesNone(E, x[2])
    BY <2>1 DEF ChecksHold
  <2>6. CASE NoNewVersion(known[c], W)
    <3>1. \A x \in F : Versions(x) => x \in E
      BY <2>6 DEF NoNewVersion
    <3> HIDE DEF E, F
    <3>2. NoRing(F)
      BY <2>5, <3>1, FewerKeepNoRing DEF Versions
    <3>3. \A x \in checked : Versions(x[2]) => ClosesNone(F, x[2])
      BY <2>2, <2>3, <2>5, <3>1, FewerReach DEF CheckedOK
    <3>4. ChecksHold(Records)'
      BY <2>4, <3>3 DEF ChecksHold
    <3> QED
      BY <1>2, <2>1, <3>2, <3>4 DEF F
  <2>7. CASE NoRing(F) /\ \A x \in checked' : ~ Versions(x[2])
    BY <1>2, <2>1, <2>7 DEF ChecksHold
  <2> QED
    BY <1>8, <2>6, <2>7 DEF DrawsSafely
<1>9. CheckedOK'
  BY DEF CheckedOK, CurationInv
<1> QED
  BY <1>1, <1>2, <1>4, <1>5, <1>6, <1>7, <1>8, <1>9 DEF CurationInv

NewOf(written, t) == {Rec(w.kind, w.of, w.value, t) : w \in written}

LEMMA WriteAllKeeps ==
    ASSUME CurationInv, NEW c \in Repos, NEW written, WriteAll(c, written), UNCHANGED scene,
           MayWrite(known[c], NewOf(written, now + 1)), astray => astray',
           checked' \subseteq checked, DrawsSafely(c, NewOf(written, now + 1))
    PROVE  CurationInv'
<1> DEFINE W == NewOf(written, now + 1)
<1>1. /\ now' = now + 1 /\ known' = [known EXCEPT ![c] = @ \cup W]
      /\ unheard' = (unheard \/ known[c] # Records) /\ swept' = swept \ {c}
  BY DEF WriteAll, NewOf
<1>2. JustWritten(W, now)
  BY DEF JustWritten, NewOf, Rec
<1>3. SweptIsLinked' /\ swept' \subseteq Repos
  <2>1. swept' \subseteq swept /\ swept \subseteq Repos
    BY <1>1 DEF CurationInv
  <2>2. \A d \in swept' : known'[d] = known[d]
    BY <1>1, <2>1 DEF CurationInv
  <2> QED
    BY <2>1, <2>2, SweptStay
<1> HIDE DEF W
<1> QED
  BY <1>1, <1>2, <1>3, WritingKeeps DEF W

\* Edges are written between nodes that are there.
LEMMA EdgesMayBeWritten ==
    ASSUME NEW R, EdgesOK(R), NEW W, \A r \in W : r.kind = "edge",
           \A r \in W : \A n \in {From(r.of), To(r.of)} : n \in Nodes /\ Lives(R, n)
    PROVE  MayWrite(R, W)
<1>1. \A n : Lives(R, n) => IsBorn(R, n)
  BY DEF Lives, IsBorn
<1>2. \A n : IsBorn(R, n) => IsBorn(R \cup W, n)
  BY DEF IsBorn
<1>3. RulingsOK(W)
  BY DEF RulingsOK, OnScope
<1>4. EdgesOK(R \cup W)
  BY <1>1, <1>2 DEF EdgesOK
<1> QED
  BY <1>3, <1>4 DEF MayWrite

\* And no edges show but those and the ones before.
LEMMA EdgesShowAfter ==
    ASSUME NEW R, NEW t \in Nat, StampedBy(R, t), EdgesOK(R), NEW D
    PROVE  EdgesIn(R \cup NewOf({Says("edge", e, TRUE) : e \in D}, t + 1)) \subseteq EdgesIn(R) \cup D
<1> DEFINE W == NewOf({Says("edge", e, TRUE) : e \in D}, t + 1)
<1>1. JustWritten(W, t) /\ \A r \in W : r.of \in D
  BY DEF JustWritten, NewOf, Says, Rec
<1> HIDE DEF W
<1> SUFFICES ASSUME NEW x \in EdgesIn(R \cup W) PROVE x \in EdgesIn(R) \cup D
  BY DEF W
<1> QED
  BY <1>1, EdgesAfter

\* What a clone knows.
LEMMA Knows ==
    ASSUME CurationInv, NEW c \in Repos
    PROVE  StampedBy(known[c], now) /\ now \in Nat /\ EdgesOK(known[c])
BY DEF CurationInv, Records, StampedBy

LEMMA SameIsSwept ==
    ASSUME CurationInv, UNCHANGED <<known, swept>>
    PROVE  SweptIsLinked' /\ swept' \subseteq Repos
<1>1. swept' \subseteq swept /\ \A d \in swept' : known'[d] = known[d]
  OBVIOUS
<1> QED
  BY <1>1, SweptStay DEF CurationInv

\* Where nothing is written, only what was swept may change.
LEMMA NothingWritten ==
    ASSUME CurationInv, UNCHANGED <<scene, known, now, unheard, astray>>, checked' \subseteq checked,
           swept' \subseteq Repos, SweptIsLinked'
    PROVE  CurationInv'
BY DEF CurationInv, Records, InLine, CheckedOK, ChecksHold

\* Who sees every node sees every edge.
LEMMA SeesEveryEdge ==
    ASSUME CurationInv, NEW c \in Repos, ~ Blind(c)
    PROVE  Shown(c) = EdgesIn(known[c])
<1>1. \A n \in Nodes : Lives(known[c], n) => Sees(c, n)
  BY DEF Blind, Live
<1> QED
  BY <1>1, Knows, EdgesShown DEF Shown, InNodes

\* _add_edge_core: what it asks.
LEMMA CheckEdgeKeeps ==
    ASSUME CurationInv, UNCHANGED scene, NEW c \in Repos, NEW e,
           From(e) \in Nodes, To(e) \in Nodes, CheckEdge(c, e)
    PROVE  CurationInv'
<1>1. /\ checked' = checked \cup {<<c, e>>} /\ UNCHANGED <<known, now, swept, unheard>>
      /\ astray' = (astray \/ (Versions(e) /\ (Blind(c) \/ known[c] # Records)))
      /\ Versions(e) => ~ WouldCycle(Shown(c), From(e), To(e))
  BY DEF CheckEdge, Accepted
<1>2. SweptIsLinked' /\ swept' \subseteq Repos
  BY <1>1, SameIsSwept
<1>3. CheckedOK'
  BY <1>1 DEF CheckedOK, CurationInv
<1>4. Records' = Records
  BY <1>1 DEF Records
<1>5. ASSUME ~ unheard', ~ astray' PROVE ChecksHold(Records)'
  <2>1. ~ unheard /\ ~ astray /\ ChecksHold(Records)
    BY <1>1, <1>5 DEF CurationInv
  <2>2. ASSUME Versions(e) PROVE ClosesNone(EdgesIn(Records), e)
    <3>1. ~ Blind(c) /\ known[c] = Records
      BY <1>1, <1>5, <2>2
    <3>2. Shown(c) = EdgesIn(Records)
      BY <3>1, SeesEveryEdge
    <3> QED
      BY <1>1, <2>2, <3>2 DEF WouldCycle, ClosesNone
  <2>3. \A x \in checked' : x \in checked \/ x[2] = e
    BY <1>1
  <2> QED
    BY <1>4, <2>1, <2>2, <2>3 DEF ChecksHold
<1> QED
  BY <1>1, <1>2, <1>3, <1>4, <1>5 DEF CurationInv, InLine

\* _add_edge_core: what it writes.
LEMMA WriteEdgeKeeps ==
    ASSUME CurationInv, UNCHANGED scene, NEW c \in Repos, NEW e, WriteEdge(c, e)
    PROVE  CurationInv'
<1>1. <<c, e>> \in checked /\ checked' \subseteq checked
  BY DEF WriteEdge
<1>2. From(e) \in Nodes /\ To(e) \in Nodes
  <2>1. <<c, e>>[2] = e
    OBVIOUS
  <2> QED
    BY <1>1, <2>1 DEF CurationInv, CheckedOK
<1>3. CASE UNCHANGED <<known, now, swept, unheard, astray>>
  BY <1>1, <1>3, SameIsSwept, NothingWritten
<1>4. CASE /\ Sees(c, From(e)) /\ Sees(c, To(e)) /\ WriteAll(c, {Says("edge", e, TRUE)})
           /\ astray' = (astray \/ (Versions(e) /\ \E x \in checked' : Versions(x[2])))
  <2> DEFINE R == known[c]
             D == {e}
             W == NewOf({Says("edge", x, TRUE) : x \in D}, now + 1)
  <2>1. StampedBy(R, now) /\ now \in Nat /\ EdgesOK(R)
    BY Knows
  <2>2. {Says("edge", x, TRUE) : x \in D} = {Says("edge", e, TRUE)}
    OBVIOUS
  <2>3. \A n \in {From(e), To(e)} : n \in Nodes /\ Lives(R, n)
    BY <1>2, <1>4 DEF Sees, VisibleTo
  <2>4. \A r \in W : r.kind = "edge" /\ r.of = e
    BY DEF NewOf, Says, Rec
  <2> HIDE DEF D
  <2>5. EdgesIn(R \cup W) \subseteq EdgesIn(R) \cup D
    BY <2>1, EdgesShowAfter
  <2>6. MayWrite(R, W)
    <3> HIDE DEF W, R
    <3> QED
      BY <2>1, <2>3, <2>4, EdgesMayBeWritten
  <2>7. DrawsSafely(c, W)
    <3> SUFFICES ASSUME ~ unheard', ~ astray'
                 PROVE  \/ NoNewVersion(R, W)
                        \/ NoRing(EdgesIn(R \cup W)) /\ \A x \in checked' : ~ Versions(x[2])
      BY DEF DrawsSafely
    <3>1. CASE ~ Versions(e)
      BY <2>5, <3>1 DEF NoNewVersion, D
    <3>2. CASE Versions(e)
      <4>1. /\ R = Records /\ ChecksHold(Records) /\ NoRing(EdgesIn(R))
            /\ \A x \in checked' : ~ Versions(x[2])
        BY <1>4, <3>2 DEF CurationInv, WriteAll
      <4>2. <<c, e>>[2] = e
        OBVIOUS
      <4>3. From(e) \notin Reach(Olders(EdgesIn(R)), {To(e)})
        BY <1>1, <3>2, <4>1, <4>2 DEF ChecksHold, ClosesNone, Olders
      <4>4. InNodes(EdgesIn(R))
        BY <2>1, EdgesShown
      <4>5. NoRing(EdgesIn(R) \cup {e})
        BY <1>2, <4>1, <4>3, <4>4, DrawnKeepsNoRing
      <4>6. \A x \in EdgesIn(R \cup W) : x \in EdgesIn(R) \cup {e}
        BY <2>5 DEF D
      <4> HIDE DEF R, W
      <4>7. NoRing(EdgesIn(R \cup W))
        BY <4>5, <4>6, FewerKeepNoRing
      <4> QED
        BY <4>1, <4>7
    <3> QED
      BY <3>1, <3>2
  <2>8. WriteAll(c, {Says("edge", x, TRUE) : x \in D})
    BY <1>4, <2>2
  <2> QED
    BY <1>1, <1>4, <2>6, <2>7, <2>8, WriteAllKeeps
<1> QED
  BY <1>3, <1>4 DEF WriteEdge

\* A record of another kind shows no edge.
LEMMA OtherKindKeeps ==
    ASSUME CurationInv, NEW c \in Repos, NEW kind \in {"removed", "scope", "flag"}, NEW n, NEW value,
           kind = "flag" => Type[n] = "constraint" /\ value # Scope(known[c], n),
           WriteAll(c, {Says(kind, n, value)}), UNCHANGED <<scene, checked, astray>>
    PROVE  CurationInv'
<1> DEFINE R == known[c]
           W == NewOf({Says(kind, n, value)}, now + 1)
<1>1. StampedBy(R, now) /\ now \in Nat /\ EdgesOK(R)
  BY Knows
<1>2. W = {Rec(kind, n, value, now + 1)}
  BY DEF NewOf, Says, Rec
<1>3. \A r \in W : /\ r.kind = kind /\ r.of = n /\ r.value = value /\ r.at = now + 1
                   /\ r.kind \notin {"edge", "node"}
  BY <1>2 DEF Rec
<1>4. JustWritten(W, now)
  BY <1>3 DEF JustWritten
<1>5. RulingsOK(W)
  BY <1>2 DEF RulingsOK
<1> HIDE DEF W
<1>6. EdgesOK(R \cup W)
  BY <1>1, <1>3 DEF EdgesOK, IsBorn
<1>7. MayWrite(R, W)
  BY <1>3, <1>5, <1>6 DEF MayWrite
<1>8. DrawsSafely(c, W)
  <2>1. \A x \in EdgesIn(R \cup W) : x \in EdgesIn(R)
    <3> HIDE DEF R
    <3> QED
      BY <1>1, <1>3, <1>4, EdgesAfter
  <2> QED
    BY <2>1 DEF DrawsSafely, NoNewVersion
<1> QED
  BY <1>7, <1>8, WriteAllKeeps DEF W

LEMMA RemoveEdgeKeeps ==
    ASSUME CurationInv, UNCHANGED scene, NEW c \in Repos, NEW e \in Shown(c), RemoveEdge(c, e)
    PROVE  CurationInv'
<1> DEFINE R == known[c]
           W == NewOf({Says("edge", e, FALSE)}, now + 1)
<1>1. StampedBy(R, now) /\ now \in Nat /\ EdgesOK(R)
  BY Knows
<1>2. \A r \in W : r.kind = "edge" /\ r.of = e /\ ~ r.value /\ r.at = now + 1
  BY DEF NewOf, Says, Rec
<1>3. JustWritten(W, now)
  BY <1>2 DEF JustWritten
<1>4. e \in EdgesIn(R)
  BY DEF Shown
<1> HIDE DEF R, W
<1>5. \A n \in {From(e), To(e)} : n \in Nodes /\ Lives(R, n)
  BY <1>1, <1>4, EdgesShown DEF InNodes
<1>6. MayWrite(R, W)
  BY <1>1, <1>2, <1>5, EdgesMayBeWritten
<1>7. DrawsSafely(c, W)
  <2>1. \A x \in EdgesIn(R \cup W) : x \in EdgesIn(R)
    BY <1>1, <1>2, <1>3, EdgesAfter
  <2> QED
    BY <2>1 DEF DrawsSafely, NoNewVersion, R
<1>8. WriteAll(c, {Says("edge", e, FALSE)}) /\ UNCHANGED <<checked, astray>>
  BY DEF RemoveEdge
<1> QED
  BY <1>6, <1>7, <1>8, WriteAllKeeps DEF R, W

\* What a rule warrants.
LEMMA LinksAre ==
    ASSUME NEW R, NEW c, NEW e \in Warranted(R, c)
    PROVE  /\ From(e) \in Nodes /\ To(e) \in Nodes /\ From(e) # To(e) /\ e[2] # Supersedes
           /\ VisibleTo(Person[c], R, From(e)) /\ VisibleTo(Person[c], R, To(e))
           /\ Refs[From(e)] \cap Refs[To(e)] # {}
<1>1. PICK pair \in Nodes \X Nodes :
         /\ VisibleTo(Person[c], R, pair[1]) /\ VisibleTo(Person[c], R, pair[2])
         /\ e \in LinksOf(pair[1], pair[2])
  BY DEF Warranted
<1>2. e = <<<<pair[1], pair[2]>>, "part_of">> \/ e = <<<<pair[1], pair[2]>>, "relates_to">>
  BY <1>1 DEF LinksOf
<1>3. From(e) = pair[1] /\ To(e) = pair[2] /\ e[2] \in {"part_of", "relates_to"}
  BY <1>2 DEF From, To
<1>4. Refs[pair[1]] \cap Refs[pair[2]] # {} /\ Type[pair[1]] # Type[pair[2]]
  BY <1>1 DEF LinksOf, Entity
<1> QED
  BY <1>1, <1>3, <1>4 DEF Supersedes

\* cognition_record (_record_node).
LEMMA RecordNodeKeeps ==
    ASSUME CurationInv, UNCHANGED scene, NEW c \in Repos, NEW n, RecordNode(c, n)
    PROVE  CurationInv'
<1> DEFINE R == known[c]
           W == NewOf(Born(c, n), now + 1)
           new == R \cup {Rec("node", n, TRUE, now + 1)}
           M == Minted(new, c, {n})
<1>1. StampedBy(R, now) /\ now \in Nat /\ EdgesOK(R)
  BY Knows
<1>2. WriteAll(c, Born(c, n)) /\ UNCHANGED <<checked, astray>>
  BY DEF RecordNode
<1>3. /\ \A r \in W : /\ r.kind \in {"node", "edge"} /\ (r.kind = "edge" => r.of \in M)
                      /\ r.at = now + 1
      /\ \E r \in W : r.kind = "node" /\ r.of = n
  <2>1. Born(c, n) = {Says("node", n, TRUE)} \cup {Says("edge", e, TRUE) : e \in M}
    BY DEF Born
  <2> HIDE DEF M
  <2>2. \A w \in Born(c, n) : w.kind \in {"node", "edge"} /\ (w.kind = "edge" => w.of \in M)
    BY <2>1 DEF Says
  <2>3. Says("node", n, TRUE) \in Born(c, n)
    BY <2>1
  <2>4. \A w \in Born(c, n) : LET r == Rec(w.kind, w.of, w.value, now + 1)
                             IN  r.kind = w.kind /\ r.of = w.of /\ r.at = now + 1
    BY DEF Rec
  <2>5. Says("node", n, TRUE).kind = "node" /\ Says("node", n, TRUE).of = n
    BY DEF Says
  <2> QED
    BY <2>2, <2>3, <2>4, <2>5 DEF NewOf
<1>4. \A e \in M : /\ From(e) \in Nodes /\ To(e) \in Nodes /\ e[2] # Supersedes
                   /\ Lives(new, From(e)) /\ Lives(new, To(e))
  <2>1. \A e \in M : e \in Warranted(new, c)
    BY DEF Minted
  <2> HIDE DEF new, M
  <2> QED
    BY <2>1, LinksAre DEF VisibleTo
<1>5. \A m : Lives(new, m) => IsBorn(R \cup W, m)
  <2>1. \A r \in new : r \in R \/ r.of = n
    BY DEF Rec
  <2> HIDE DEF new, W
  <2> QED
    BY <1>3, <2>1 DEF Lives, IsBorn
<1>6. \A r \in W : r.kind \in {"node", "edge"} /\ (r.kind = "edge" => r.of \in M)
  BY <1>3
<1>7. JustWritten(W, now)
  BY <1>3 DEF JustWritten
<1> HIDE DEF W, M, new
<1>8. MayWrite(R, W)
  <2>1. EdgesOK(R \cup W)
    BY <1>1, <1>4, <1>5, <1>6 DEF EdgesOK, IsBorn
  <2> QED
    BY <1>6, <2>1 DEF MayWrite, RulingsOK, OnScope
<1>9. DrawsSafely(c, W)
  <2>1. \A x \in EdgesIn(R \cup W) : x[2] = Supersedes => x \in EdgesIn(R)
    <3> HIDE DEF R
    <3> QED
      BY <1>1, <1>4, <1>6, <1>7, EdgesAfter
  <2> QED
    BY <2>1 DEF DrawsSafely, NoNewVersion, Versions
<1> QED
  BY <1>2, <1>8, <1>9, WriteAllKeeps DEF W

\* Edges that are written show, and so do those that showed before.
LEMMA EdgesStay ==
    ASSUME NEW R, NEW W, NEW t \in Nat, StampedBy(R, t), JustWritten(W, t),
           \A r \in W : r.kind = "edge" /\ r.value
    PROVE  /\ \A x \in EdgesIn(R) : x \in EdgesIn(R \cup W)
           /\ \A r \in W : Lives(R, From(r.of)) /\ Lives(R, To(r.of)) => r.of \in EdgesIn(R \cup W)
<1> DEFINE no == FALSE
<1>1. \A n : Lives(R \cup W, n) <=> Lives(R, n)
  <2>1. \A r \in W : r.kind \notin {"node", "removed"}
    OBVIOUS
  <2> QED
    BY <2>1, LivesByOthers
<1>2. ASSUME NEW x, About(W, {"edge"}, x) # {} PROVE Said(R \cup W, {"edge"}, x, FALSE)
  <2> HIDE DEF no
  <2>1. PICK r \in About(W, {"edge"}, x) : Said(R \cup W, {"edge"}, x, no) = r.value
    BY <1>2, SaidByNew
  <2> QED
    BY <2>1 DEF About, no
<1>3. ASSUME NEW x, About(W, {"edge"}, x) = {}, Said(R, {"edge"}, x, FALSE)
      PROVE  Said(R \cup W, {"edge"}, x, FALSE)
  <2>1. About(R \cup W, {"edge"}, x) = About(R, {"edge"}, x)
    BY <1>3 DEF About
  <2> HIDE DEF no
  <2>2. Said(R \cup W, {"edge"}, x, no) = Said(R, {"edge"}, x, no)
    BY <2>1, SaidBySame
  <2> QED
    BY <1>3, <2>2 DEF no
<1>4. ASSUME NEW x \in EdgesIn(R) PROVE x \in EdgesIn(R \cup W)
  <2>1. /\ x \in {r.of : r \in {y \in R : y.kind = "edge"}}
        /\ Said(R, {"edge"}, x, FALSE) /\ Lives(R, From(x)) /\ Lives(R, To(x))
    BY DEF EdgesIn
  <2>2. x \in {r.of : r \in {y \in R \cup W : y.kind = "edge"}}
    BY <2>1
  <2>3. Said(R \cup W, {"edge"}, x, FALSE)
    BY <1>2, <1>3, <2>1
  <2> QED
    BY <1>1, <2>1, <2>2, <2>3 DEF EdgesIn
<1>5. ASSUME NEW r \in W, Lives(R, From(r.of)), Lives(R, To(r.of))
      PROVE  r.of \in EdgesIn(R \cup W)
  <2>1. r \in About(W, {"edge"}, r.of)
    BY DEF About
  <2>2. Said(R \cup W, {"edge"}, r.of, FALSE)
    BY <1>2, <2>1
  <2>3. r.of \in {o.of : o \in {y \in R \cup W : y.kind = "edge"}}
    OBVIOUS
  <2> QED
    BY <1>1, <1>5, <2>2, <2>3 DEF EdgesIn
<1> QED
  BY <1>4, <1>5

Due(c) == {n \in Nodes : Sees(c, n) /\ Refs[n] # {} /\ LinkMissing(c, n)}
Swept(c) == Minted(known[c], c, Due(c))

\* The start of a server looks at every node that a warranted edge does not reach.
LEMMA MissingIsMinted ==
    ASSUME CurationInv, NEW c \in Repos, NEW e \in Warranted(known[c], c),
           ~ Connected(c, From(e), To(e))
    PROVE  e \in Swept(c)
<1>1. /\ From(e) \in Nodes /\ To(e) \in Nodes /\ From(e) # To(e)
      /\ Sees(c, From(e)) /\ Sees(c, To(e)) /\ Refs[From(e)] \cap Refs[To(e)] # {}
  BY LinksAre DEF Sees
<1>2. \A x \in Shown(c) : {From(x), To(x)} # {To(e), From(e)}
  BY DEF Connected
<1>3. LinkMissing(c, From(e))
  BY <1>1, <1>2 DEF LinkMissing
<1>4. From(e) \in Due(c)
  BY <1>1, <1>3 DEF Due
<1>5. e \notin EdgesIn(known[c])
  BY <1>1, <1>2 DEF Shown
<1> QED
  BY <1>4, <1>5 DEF Swept, Minted

\* _create_deterministic_edges_for_edgeless.
LEMMA ServerStartKeeps ==
    ASSUME CurationInv, UNCHANGED scene, NEW c \in Repos, ServerStart(c)
    PROVE  CurationInv'
<1>0. PICK done :
      LET minted == Minted(known[c], c, done)
      IN  /\ swept' = IF done = Due(c) THEN swept \cup {c} ELSE swept
          /\ IF minted = {}
             THEN UNCHANGED <<known, now, unheard>>
             ELSE /\ now < scene.writes
                  /\ now' = now + 1
                  /\ known' = [known EXCEPT ![c] = @ \cup
                                  {Rec("edge", e, TRUE, now') : e \in minted}]
                  /\ unheard' = (unheard \/ known[c] # Records)
  BY DEF ServerStart, Due
<1> DEFINE R == known[c]
           M == Minted(known[c], c, done)
           W == {Rec("edge", e, TRUE, now + 1) : e \in M}
<1>1. /\ swept' \subseteq swept \cup {c} /\ (c \in swept' => done = Due(c))
      /\ astray' = astray /\ checked' \subseteq checked
      /\ \/ M = {} /\ UNCHANGED <<known, now, unheard>>
         \/ /\ now' = now + 1 /\ known' = [known EXCEPT ![c] = @ \cup W]
            /\ unheard' = (unheard \/ known[c] # Records)
  <2>1. c \notin swept /\ astray' = astray /\ checked' = {x \in checked : x[1] # c}
    BY DEF ServerStart
  <2>2. /\ swept' = IF done = Due(c) THEN swept \cup {c} ELSE swept
        /\ IF M = {}
           THEN UNCHANGED <<known, now, unheard>>
           ELSE /\ now' = now + 1
                /\ known' = [known EXCEPT ![c] = @ \cup {Rec("edge", e, TRUE, now') : e \in M}]
                /\ unheard' = (unheard \/ known[c] # Records)
    BY <1>0
  <2>3. swept' \subseteq swept \cup {c} /\ (c \in swept' => done = Due(c))
    BY <2>1, <2>2
  <2> HIDE DEF M
  <2>4. \/ M = {} /\ UNCHANGED <<known, now, unheard>>
        \/ /\ now' = now + 1 /\ known' = [known EXCEPT ![c] = @ \cup W]
           /\ unheard' = (unheard \/ known[c] # Records)
    BY <2>2
  <2> QED
    BY <2>1, <2>3, <2>4
<1>2. /\ swept \subseteq Repos /\ swept' \subseteq Repos /\ DOMAIN known = Repos
      /\ \A d \in swept : \A e \in Warranted(known[d], d) : Connected(d, From(e), To(e))
  BY <1>1 DEF CurationInv, SweptIsLinked
<1>3. c \in swept' => \A e \in Warranted(R, c) : Connected(c, From(e), To(e)) \/ e \in M
  BY <1>1, MissingIsMinted DEF Swept
<1>4. CASE M = {} /\ UNCHANGED <<known, now, unheard>>
  <2>1. \A d \in swept' : \A e \in Warranted(known[d], d) : Connected(d, From(e), To(e))
    BY <1>1, <1>2, <1>3, <1>4
  <2>2. \A d : Warranted(known'[d], d) = Warranted(known[d], d)
               /\ \A m, n : Connected(d, m, n)' <=> Connected(d, m, n)
    BY <1>4 DEF Connected, Shown, Sees
  <2>3. SweptIsLinked'
    BY <2>1, <2>2 DEF SweptIsLinked
  <2> QED
    BY <1>1, <1>2, <1>4, <2>3, NothingWritten
<1>5. CASE /\ now' = now + 1 /\ known' = [known EXCEPT ![c] = @ \cup W]
           /\ unheard' = (unheard \/ known[c] # Records)
  <2>1. StampedBy(R, now) /\ now \in Nat /\ EdgesOK(R)
    BY Knows
  <2>2. \A r \in W : r.kind = "edge" /\ r.value /\ r.of \in M /\ r.at = now + 1
    BY DEF Rec
  <2>3. \A e \in M : \E r \in W : r.of = e
    <3>1. \A e : Rec("edge", e, TRUE, now + 1).of = e
      BY DEF Rec
    <3> QED
      BY <3>1
  <2>4. JustWritten(W, now)
    BY <2>2 DEF JustWritten
  <2>5. \A e \in M : /\ From(e) \in Nodes /\ To(e) \in Nodes /\ e[2] # Supersedes
                     /\ VisibleTo(Person[c], R, From(e)) /\ VisibleTo(Person[c], R, To(e))
    <3>1. \A e \in M : e \in Warranted(R, c)
      BY DEF Swept, Minted
    <3> QED
      BY <3>1, LinksAre
  <2>6. known'[c] = R \cup W /\ \A d \in Repos \ {c} : known'[d] = known[d]
    BY <1>2, <1>5
  <2> HIDE DEF R, M, W
  <2>7. \A r \in W : \A n \in {From(r.of), To(r.of)} : n \in Nodes /\ Lives(R, n)
    BY <2>2, <2>5 DEF VisibleTo
  <2>8. MayWrite(R, W)
    BY <2>1, <2>2, <2>7, EdgesMayBeWritten
  <2>9. DrawsSafely(c, W)
    <3>1. \A x \in EdgesIn(R \cup W) : x[2] = Supersedes => x \in EdgesIn(R)
      BY <2>1, <2>2, <2>4, <2>5, EdgesAfter
    <3> QED
      BY <3>1 DEF DrawsSafely, NoNewVersion, Versions, R
  <2>10. \A n : VisibleTo(Person[c], R \cup W, n) <=> VisibleTo(Person[c], R, n)
    <3>1. \A n : Lives(R \cup W, n) <=> Lives(R, n)
      BY <2>2, LivesByOthers
    <3>2. \A n : Scope(R \cup W, n) = Scope(R, n)
      BY <2>2, ScopeByOthers
    <3> QED
      BY <3>1, <3>2 DEF VisibleTo
  <2>11. Warranted(R \cup W, c) = Warranted(R, c)
    BY <2>10 DEF Warranted
  <2>12. \A x \in EdgesIn(R) : x \in EdgesIn(R \cup W)
    BY <2>1, <2>2, <2>4, EdgesStay
  <2>13. \A e \in M : e \in EdgesIn(R \cup W)
    <3>1. \A r \in W : r.of \in EdgesIn(R \cup W)
      BY <2>1, <2>2, <2>4, <2>7, EdgesStay
    <3> QED
      BY <2>3, <3>1
  <2>14. ASSUME c \in swept', NEW e \in Warranted(known'[c], c) PROVE Connected(c, From(e), To(e))'
    <3> DEFINE Seen(x) == /\ x \in EdgesIn(R \cup W) /\ VisibleTo(Person[c], R \cup W, From(x))
                          /\ VisibleTo(Person[c], R \cup W, To(x))
    <3>1. e \in Warranted(R, c)
      BY <2>6, <2>11, <2>14
    <3>0. Connected(c, From(e), To(e)) \/ e \in M
      BY <1>3, <2>14, <3>1
    <3>2. \E x : Seen(x) /\ {From(x), To(x)} = {From(e), To(e)}
      <4>1. CASE Connected(c, From(e), To(e))
        <5>1. PICK x \in Shown(c) : {From(x), To(x)} = {From(e), To(e)}
          BY <4>1 DEF Connected
        <5>2. /\ x \in EdgesIn(R) /\ VisibleTo(Person[c], R, From(x))
              /\ VisibleTo(Person[c], R, To(x))
          BY DEF Shown, Sees, R
        <5> QED
          BY <2>10, <2>12, <5>1, <5>2
      <4>2. CASE e \in M
        BY <2>5, <2>10, <2>13, <4>2
      <4> QED
        BY <3>0, <4>1, <4>2
    <3> QED
      BY <2>6, <3>2 DEF Connected, Shown, Sees
  <2>15. SweptIsLinked'
    <3>1. \A d \in swept \ {c} : known'[d] = known[d]
      BY <1>1, <1>2, <2>6
    <3>2. \A d \in swept \ {c} : \A m, n : Connected(d, m, n)' <=> Connected(d, m, n)
      BY <3>1 DEF Connected, Shown, Sees
    <3> QED
      BY <1>1, <1>2, <2>14, <3>1, <3>2 DEF SweptIsLinked
  <2> QED
    BY <1>1, <1>2, <1>5, <2>4, <2>8, <2>9, <2>15, WritingKeeps DEF R
<1> QED
  BY <1>1, <1>4, <1>5

\* A merge brings what another clone knew: all of it, while all writers are up to date.
LEMMA MergeRecordsKeeps ==
    ASSUME CurationInv, UNCHANGED scene, NEW c \in Repos, NEW d \in Repos, MergeRecords(c, d)
    PROVE  CurationInv'
<1>1. /\ ~ (known[d] \subseteq known[c]) /\ known' = [known EXCEPT ![c] = @ \cup known[d]]
      /\ swept' = swept \ {c} /\ UNCHANGED <<now, checked, unheard, astray>>
  BY DEF MergeRecords
<1>2. /\ DOMAIN known = Repos /\ DOMAIN known' = Repos /\ swept' \subseteq Repos /\ swept' \subseteq swept
      /\ known'[c] = known[c] \cup known[d] /\ \A x \in Repos \ {c} : known'[x] = known[x]
  BY <1>1 DEF CurationInv
<1>3. Records' = Records
  BY <1>2 DEF Records
<1>4. SweptIsLinked'
  <2>1. \A x \in swept' : known'[x] = known[x]
    BY <1>1, <1>2
  <2> QED
    BY <1>2, <2>1, SweptStay
<1>5. \A x \in Repos : EdgesOK(known'[x])
  <2>1. \A x \in Repos : EdgesOK(known[x])
    BY DEF CurationInv
  <2>2. EdgesOK(known[c] \cup known[d])
    BY <2>1 DEF EdgesOK, IsBorn
  <2> QED
    BY <1>2, <2>1, <2>2
<1>6. ~ unheard' => known'[c] = known[d] /\ InLine /\ \A x \in Repos : FlagsOK(known[x])
  BY <1>1, <1>2 DEF CurationInv, InLine
<1>7. ~ unheard' => InLine' /\ \A x \in Repos : FlagsOK(known'[x])
  <2>1. ~ unheard' => InLine'
    BY <1>2, <1>6 DEF InLine
  <2> QED
    BY <1>2, <1>6, <2>1
<1>8. /\ CheckedOK'
      /\ unheard' \/ astray' \/ (ChecksHold(Records)' /\ \A x \in Repos : NoRing(EdgesIn(known'[x])))
  BY <1>1, <1>2, <1>3, <1>6 DEF CurationInv, CheckedOK, ChecksHold
<1>9. now' \in Nat /\ scene' \in Scenes /\ StampedBy(Records', now') /\ RulingsOK(Records')
  BY <1>1, <1>3 DEF CurationInv
<1> QED
  BY <1>2, <1>4, <1>5, <1>7, <1>8, <1>9 DEF CurationInv

LEMMA InitCuration == CurationInit => CurationInv
<1> SUFFICES ASSUME CurationInit PROVE CurationInv
  OBVIOUS
<1>1. /\ scene \in Scenes /\ now = 0 /\ swept = {} /\ unheard = FALSE /\ DOMAIN known = Repos
      /\ checked = {}
      /\ \A c \in Repos : known[c] = {}
  BY DEF CurationInit
<1>2. Records = {}
  BY <1>1 DEF Records
<1>3. EdgesIn({}) = {} /\ NoRing({})
  BY DEF EdgesIn, NoRing, Older, Newer
<1>4. EdgesOK({}) /\ FlagsOK({}) /\ StampedBy({}, now) /\ RulingsOK({})
  BY DEF EdgesOK, FlagsOK, StampedBy, RulingsOK
<1>5. InLine
  BY <1>1 DEF InLine
<1>6. \A c \in Repos : EdgesOK(known[c]) /\ FlagsOK(known[c]) /\ NoRing(EdgesIn(known[c]))
  BY <1>1, <1>3, <1>4
<1> QED
  BY <1>1, <1>2, <1>4, <1>5, <1>6 DEF CurationInv, SweptIsLinked, CheckedOK, ChecksHold

\* Every call, start and merge keeps the invariant.
LEMMA NextCuration == CurationInv /\ [CurationNext]_curationVars => CurationInv'
<1> SUFFICES ASSUME CurationInv, [CurationNext]_curationVars PROVE CurationInv'
  OBVIOUS
<1>1. CASE UNCHANGED curationVars
  BY <1>1, SameIsSwept, NothingWritten DEF curationVars
<1>2. CASE CurationNext
  <2>1. UNCHANGED scene /\ scene.nodes \subseteq Nodes
    BY <1>2, CurationAssumption DEF CurationNext, CurationInv
  <2>2. PICK c \in Repos :
        \/ BeginCuration(c) \/ ServerStart(c)
        \/ \E d \in Repos : MergeRecords(c, d)
        \/ \E e \in Shown(c) : RemoveEdge(c, e)
        \/ \E e \in (scene.nodes \X scene.nodes) \X scene.drawn :
              CheckEdge(c, e) \/ WriteEdge(c, e)
        \/ \E n \in scene.nodes, scope \in {"personal", "project"} :
              SetScope(c, n, scope) \/ FlagScope(c, n, scope)
        \/ \E n \in scene.nodes : RemoveNode(c, n) \/ RecordNode(c, n)
    BY <1>2 DEF CurationNext
  <2>3. ASSUME BeginCuration(c) PROVE CurationInv'
    <3>1. UNCHANGED <<known, now, swept, checked, unheard, astray>>
      BY <2>3 DEF BeginCuration
    <3> QED
      BY <2>1, <3>1, SameIsSwept, NothingWritten
  <2>4. ASSUME NEW e \in (scene.nodes \X scene.nodes) \X scene.drawn, CheckEdge(c, e)
        PROVE  CurationInv'
    <3>1. From(e) \in Nodes /\ To(e) \in Nodes
      BY <2>1 DEF From, To
    <3> QED
      BY <2>1, <2>4, <3>1, CheckEdgeKeeps
  <2>5. ASSUME NEW e, WriteEdge(c, e) PROVE CurationInv'
    BY <2>1, <2>5, WriteEdgeKeeps
  <2>6. ASSUME NEW n, NEW scope, SetScope(c, n, scope) PROVE CurationInv'
    <3>1. WriteAll(c, {Says("scope", n, scope)}) /\ UNCHANGED <<checked, astray>>
      BY <2>6 DEF SetScope
    <3> QED
      BY <2>1, <3>1, OtherKindKeeps
  <2>7. ASSUME NEW n, NEW scope, FlagScope(c, n, scope) PROVE CurationInv'
    <3>1. /\ WriteAll(c, {Says("flag", n, scope)}) /\ UNCHANGED <<checked, astray>>
          /\ Type[n] = "constraint" /\ scope # Scope(known[c], n)
      BY <2>7 DEF FlagScope, MayFlag
    <3> QED
      BY <2>1, <3>1, OtherKindKeeps
  <2>8. ASSUME NEW n, RemoveNode(c, n) PROVE CurationInv'
    <3> DEFINE yes == TRUE
    <3>1. WriteAll(c, {Says("removed", n, yes)}) /\ UNCHANGED <<checked, astray>>
      BY <2>8 DEF RemoveNode
    <3> HIDE DEF yes
    <3> QED
      BY <2>1, <3>1, OtherKindKeeps
  <2> QED
    BY <2>1, <2>2, <2>3, <2>4, <2>5, <2>6, <2>7, <2>8,
       ServerStartKeeps, MergeRecordsKeeps, RemoveEdgeKeeps, RecordNodeKeeps
<1> QED
  BY <1>1, <1>2

\* Whatever clones draw, remove, link and merge, as long as those who link versions see
\* all there is and their calls do not overlap: whichever match comes first, a version
\* that was replaced is answered with one that the session start lists, and where no
\* version replaces two its history leads back (_would_create_supersedes_cycle,
\* get_workflow_head, get_superseded_chain).
THEOREM VersionsAlwaysHaveHeads == CurationSpec => []VersionsHaveHeads
<1>1. ASSUME CurationInv, ~ unheard, ~ astray PROVE EveryVersionHasAHead
  <2> SUFFICES ASSUME NEW c \in Repos, NEW n \in Replaced(c), NEW head \in HeadsOf(Shown(c), n)
               PROVE  /\ head \in ListedAtStart(c)
                      /\ Branches(Shown(c)) \/ n \in HistoryOf(Shown(c), head)
    BY DEF EveryVersionHasAHead
  <2> DEFINE E == Shown(c)
  <2>1. InNodes(EdgesIn(known[c])) /\ NoRing(EdgesIn(known[c]))
    BY <1>1, Knows, EdgesShown DEF CurationInv
  <2>2. InNodes(E) /\ \A e \in E : Sees(c, From(e)) /\ Sees(c, To(e))
    BY <2>1 DEF Shown, InNodes
  <2>3. NoRing(E)
    <3>1. \A e \in E : e[2] = Supersedes => e \in EdgesIn(known[c])
      BY DEF Shown
    <3> HIDE DEF E
    <3> QED
      BY <2>1, <3>1, FewerKeepNoRing
  <2>4. n \in Nodes /\ Sees(c, n)
    BY <2>2 DEF Replaced, InNodes
  <2>5. Replaced(c) = {To(e) : e \in {x \in E : x[2] = Supersedes}}
    BY DEF Replaced
  <2> HIDE DEF E
  <2>6. /\ Newer(E, head) = {}
        /\ head = n \/ \E e \in E : From(e) = head
        /\ Branches(E) \/ n \in HistoryOf(E, head)
    BY <2>2, <2>3, <2>4, HeadsAreFound DEF E
  <2>7. head \in ListedAtStart(c)
    BY <2>2, <2>4, <2>5, <2>6 DEF ListedAtStart, Newer, InNodes
  <2> QED
    BY <2>6, <2>7 DEF E
<1>2. CurationInv => VersionsHaveHeads
  BY <1>1 DEF VersionsHaveHeads
<1> QED
  BY <1>2, InitCuration, NextCuration, PTL DEF CurationSpec

\* A review that waits suggests another scope than the constraint has, whoever ruled or
\* flagged in between (_flag_constraint_scope, _format_scope_reviews).
THEOREM ReviewsAlwaysSuggest == CurationSpec => []ReviewsSuggestAChange
<1>1. ASSUME CurationInv, ~ unheard, NEW c \in Repos, NEW n \in ReviewsOf(c)
      PROVE  Review(known[c], n) # Scope(known[c], n)
  <2> DEFINE R == known[c]
             S == {r \in R : r.kind \in {"scope", "flag"} /\ r.of = n}
  <2>1. StampedBy(R, now) /\ now \in Nat /\ FlagsOK(R) /\ RulingsOK(R)
    BY <1>1, Knows DEF CurationInv, Records, RulingsOK
  <2>2. Review(R, n) # Nil
    BY DEF ReviewsOf
  <2> HIDE DEF R
  <2>3. PICK f \in S : f.kind = "flag" /\ \A o \in S : o.at <= f.at
    BY <2>2 DEF Review
  <2>4. Review(R, n) = Said(R, {"flag"}, n, Nil)
    BY <2>2 DEF Review
  <2>5. Said(R, {"flag"}, n, Nil) = f.value
    <3> DEFINE g == Newest(About(R, {"flag"}, n))
    <3>1. f \in About(R, {"flag"}, n)
      BY <2>3 DEF About
    <3>2. /\ g \in About(R, {"flag"}, n) /\ \A o \in About(R, {"flag"}, n) : o.at <= g.at
          /\ Said(R, {"flag"}, n, Nil) = g.value
      BY <2>1, <3>1, SaidByNewest
    <3> HIDE DEF g
    <3>3. g \in S /\ g \in R /\ f \in R /\ f.at <= g.at /\ g.at <= f.at
      BY <2>3, <3>1, <3>2 DEF About
    <3>4. g.at = f.at
      BY <2>1, <3>3 DEF StampedBy
    <3>5. g = f
      BY <2>1, <2>3, <3>2, <3>3, <3>4 DEF RulingsOK, OnScope, About
    <3> QED
      BY <3>2, <3>5
  <2>6. About(Earlier(R, f.at), {"scope"}, n) = About(R, {"scope"}, n)
    <3>1. ASSUME NEW r \in R, r.kind = "scope", r.of = n PROVE r.at < f.at
      <4>1. r \in S /\ r.at <= f.at /\ f.of = n /\ f \in R
        BY <2>3, <3>1
      <4>2. r.at # f.at
        BY <2>1, <2>3, <3>1, <4>1 DEF RulingsOK, OnScope
      <4> QED
        BY <2>1, <4>1, <4>2 DEF StampedBy
    <3> QED
      BY <3>1 DEF About, Earlier
  <2>7. Scope(Earlier(R, f.at), n) = Scope(R, n)
    <3> DEFINE P == Earlier(R, f.at)
               else == IF n \in Personal THEN "personal" ELSE "project"
    <3> HIDE DEF P, else
    <3>1. Said(P, {"scope"}, n, else) = Said(R, {"scope"}, n, else)
      BY <2>6, SaidBySame DEF P
    <3>2. /\ Scope(P, n) = IF Type[n] # "constraint" THEN "project" ELSE Said(P, {"scope"}, n, else)
          /\ Scope(R, n) = IF Type[n] # "constraint" THEN "project" ELSE Said(R, {"scope"}, n, else)
      BY DEF Scope, else
    <3> QED
      BY <3>1, <3>2 DEF P
  <2>8. f.value # Scope(Earlier(R, f.at), n)
    BY <2>1, <2>3 DEF FlagsOK
  <2> QED
    BY <2>4, <2>5, <2>7, <2>8 DEF R
<1>2. CurationInv => ReviewsSuggestAChange
  BY <1>1 DEF ReviewsSuggestAChange
<1> QED
  BY <1>2, InitCuration, NextCuration, PTL DEF CurationSpec

\* After the start of a server every two nodes that the rules connect are connected,
\* whichever clones recorded them, and until that clone writes or merges again
\* (_create_deterministic_edges_for_edgeless).
THEOREM SweptIsAlwaysLinked == CurationSpec => []SweptIsLinked
<1>1. CurationInv => SweptIsLinked
  BY DEF CurationInv
<1> QED
  BY <1>1, InitCuration, NextCuration, PTL DEF CurationSpec

=============================================================================
