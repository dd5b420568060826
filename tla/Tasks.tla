------------------------------- MODULE Tasks -------------------------------
(***************************************************************************)
(* Tasks (tools/cognition_tools.py): their status and its log, who claimed  *)
(* them, and the tree they form, which is kept twice, as parent_id in the    *)
(* metadata and as a part_of edge.                                          *)
(*                                                                         *)
(* Every operation of the store is atomic and sees what was written before.  *)
(* A tool call is a sequence of them: calls of several threads or servers    *)
(* take turns, and metadata that was read is written back as a whole.       *)
(***************************************************************************)
EXTENDS Naturals, Sequences, FiniteSets

CONSTANTS Tasks,
          Callers,     \* the calls that may be under way, each for a person of its own
          Forest,      \* [Tasks -> the parent, or None] at the start
          Tried,       \* the states calls ask for, a bound
          MaxCalls     \* bound on calls

None == "none"
Detach == "detach"

(* _TASK_TRANSITIONS                                                        *)
Allowed(from) ==
    CASE from = "open" -> {"in_progress", "blocked", "cancelled", "done"}
      [] from = "in_progress" -> {"blocked", "done", "cancelled", "open"}
      [] from = "blocked" -> {"in_progress", "open", "cancelled", "done"}
      [] OTHER -> {"open"}

VARIABLES
    task,     \* [Tasks -> the node]
    edges,    \* the part_of edges between child and parent
    call,     \* [Callers -> the call under way]
    calls,    \* the calls so far
    raced     \* two calls overlapped, or one was cut off

vars == <<task, edges, call, calls, raced>>

Entry(status, by, note) == [status |-> status, by |-> by, note |-> note]

Fresh(by, parent) ==
    [status |-> "open", claimant |-> None, parent |-> parent,
     log |-> <<Entry("open", by, FALSE)>>]

NoTask == [status |-> "none", claimant |-> None, parent |-> None, log |-> <<>>]
Exists(t) == task[t].status # "none"

Idle == [at |-> "idle"]

(* ancestors by parent_id                                                   *)
Up(parent, start) ==
    LET step(S) == S \cup {parent[t] : t \in S \cap Tasks}
        far[n \in 0..Cardinality(Tasks)] == IF n = 0 THEN start ELSE step(far[n - 1])
    IN  far[Cardinality(Tasks)]

(* what tasks there are at the start form a forest                            *)
ASSUME TasksAssumption ==
    /\ IsFiniteSet(Tasks) /\ None \notin Tasks /\ Detach \notin Tasks
    /\ None \notin Callers
    /\ Forest \in [Tasks -> Tasks \cup {None}]
    /\ \A t \in Tasks : t \notin Up(Forest, {Forest[t]})

Init ==
    /\ task = [t \in Tasks |-> Fresh("somebody", Forest[t])]
    /\ edges = {<<t, Forest[t]>> : t \in {x \in Tasks : Forest[x] # None}}
    /\ call = [c \in Callers |-> Idle]
    /\ calls = 0 /\ raced = FALSE

-----------------------------------------------------------------------------
(* cognition_update_task.  m is the metadata as it was read.                *)

HeldByAnother(m, c) == m.claimant \notin {None, c}

\* Mutant: a takeover is not logged.
TakeoverUnlogged(m, c) == [m EXCEPT !.claimant = c]

(* in_progress again, by somebody else, with a note                         *)
Takeover(m, c) ==
    [m EXCEPT !.claimant = c, !.log = Append(@, Entry("in_progress", c, TRUE))]

(* the metadata after a change of status; without a note a live claim of     *)
(* another person stands, and a note alone changes nothing                  *)
Moved(m, c, status, note) ==
    CASE status = None -> {m : x \in {0} \ {IF note THEN 0 ELSE 1}}
      [] status = m.status ->
            IF status = "in_progress" /\ HeldByAnother(m, c)
            THEN {IF note THEN Takeover(m, c) ELSE m}
            ELSE IF note THEN {} ELSE {m}
      [] status \notin {None, m.status} /\ status \in Allowed(m.status) ->
            IF m.status = "blocked" /\ status = "in_progress" /\ HeldByAnother(m, c) /\ ~ note
            THEN {}
            ELSE {[m EXCEPT !.status = status,
                            !.claimant = IF status = "in_progress" THEN c ELSE @,
                            !.log = Append(@, Entry(status, c, note))]}
      [] OTHER -> {}

Overlaps(c) == \E d \in Callers \ {c} : call[d].at # "idle"

(* no call starts after two overlapped, a bound                              *)
MayStart(c) == call[c].at = "idle" /\ calls < MaxCalls /\ ~ raced

Starts(c, record) ==
    /\ calls' = calls + 1
    /\ raced' = (raced \/ Overlaps(c))
    /\ call' = [call EXCEPT ![c] = record]

Goes(c, at) == call' = [call EXCEPT ![c].at = at]
Ends(c) == call' = [call EXCEPT ![c] = Idle]

UpdateReads(c, t) ==
    /\ MayStart(c) /\ Exists(t)
    /\ \E status \in Tried \cup {None}, note \in BOOLEAN, parent \in Tasks \cup {None, Detach} :
          /\ IF parent = None THEN status # None ELSE status \in {None, "done"}
          /\ note => status = "in_progress" /\ parent = None   \* elsewhere it decides nothing
          /\ \E m \in Moved(task[t], c, status, note) :
                Starts(c, [at |-> IF parent = None THEN "write"
                                  ELSE IF parent = Detach THEN "unlink" ELSE "link",
                           task |-> t, meta |-> m, parent |-> parent])
    /\ UNCHANGED <<task, edges>>

At(c, at) == call[c].at = at

Parent == [t \in Tasks |-> task[t].parent]

(* _task_ancestor_ids: the new parent is a descendant of the task            *)
BelowItself(t, parent) == t \in Up(Parent, {parent}) \ {parent}

(* _reparent_task, checked and then linked; an edge to a node that vanished  *)
(* is refused, and the call ends with nothing written                       *)
Link(c) ==
    /\ At(c, "link")
    /\ LET x == call[c]
       IN  IF x.parent = x.task \/ ~ Exists(x.parent) \/ BelowItself(x.task, x.parent)
           THEN Ends(c) /\ UNCHANGED edges
           ELSE Goes(c, "linking") /\ UNCHANGED edges
    /\ UNCHANGED <<task, calls, raced>>

AddParentEdge(c) ==
    /\ At(c, "linking")
    /\ LET x == call[c]
       IN  IF Exists(x.task) /\ Exists(x.parent)
           THEN edges' = edges \cup {<<x.task, x.parent>>} /\ Goes(c, "unlink")
           ELSE Ends(c) /\ UNCHANGED edges
    /\ UNCHANGED <<task, calls, raced>>

\* Mutant: the old edge stays.
WithoutOldKept(x) == edges

WithoutOld(x) ==
    IF x.meta.parent # x.parent THEN edges \ {<<x.task, x.meta.parent>>} ELSE edges

Unlink(c) ==
    /\ At(c, "unlink")
    /\ edges' = WithoutOld(call[c])
    /\ call' = [call EXCEPT ![c].at = "write",
                            ![c].meta.parent = IF call[c].parent = Detach THEN None
                                               ELSE call[c].parent]
    /\ UNCHANGED <<task, calls, raced>>

(* update_node replaces the metadata                                        *)
Write(c) ==
    /\ At(c, "write")
    /\ task' = IF Exists(call[c].task)
               THEN [task EXCEPT ![call[c].task] = call[c].meta] ELSE task
    /\ Ends(c)
    /\ UNCHANGED <<edges, calls, raced>>

-----------------------------------------------------------------------------
(* cognition_add_task: the node, then the edge.  A removed task never comes   *)
(* back: its id is not used again.                                          *)

AddTask(c, t) ==
    /\ MayStart(c)
    /\ task[t] = NoTask /\ \A e \in edges : t \notin {e[1], e[2]}
    /\ \A u \in Tasks : task[u].parent # t
    /\ \E parent \in {None} \cup {p \in Tasks : Exists(p)} :
          /\ Starts(c, [at |-> IF parent = None THEN "idle" ELSE "born", task |-> t,
                        parent |-> parent])
          /\ task' = [task EXCEPT ![t] = Fresh(c, parent)]
    /\ UNCHANGED edges

LinkBorn(c) ==
    /\ At(c, "born")
    /\ LET x == call[c]
       IN  edges' = IF Exists(x.task) /\ Exists(x.parent)
                    THEN edges \cup {<<x.task, x.parent>>} ELSE edges
    /\ Ends(c)
    /\ UNCHANGED <<task, calls, raced>>

(* cognition_remove_node takes the edges of the node with it; the children   *)
(* keep its id                                                              *)
RemoveTask(t) ==
    /\ Exists(t) /\ calls < MaxCalls
    /\ calls' = calls + 1
    /\ task' = [task EXCEPT ![t] = NoTask]
    /\ edges' = {e \in edges : t \notin {e[1], e[2]}}
    /\ UNCHANGED <<call, raced>>

(* the server ends in the middle of a call                                  *)
CutOff(c) ==
    /\ call[c].at # "idle"
    /\ Ends(c)
    /\ raced' = TRUE
    /\ UNCHANGED <<task, edges, calls>>

Next ==
    \/ \E c \in Callers :
          \/ \E t \in Tasks : UpdateReads(c, t) \/ AddTask(c, t)
          \/ Link(c) \/ AddParentEdge(c) \/ Unlink(c) \/ Write(c) \/ LinkBorn(c) \/ CutOff(c)
    \/ \E t \in Tasks : RemoveTask(t)

Spec == Init /\ [][Next]_vars

-----------------------------------------------------------------------------
(* Properties.                                                              *)

Claims(log) == {i \in DOMAIN log : log[i].status = "in_progress"}
LastOf(S) == CHOOSE i \in S : \A j \in S : j <= i

(* "claimed_by strictly mirrors the by of the last ACTUAL ->in_progress       *)
(* transition" (_update_task): in every interleaving status and claimant are *)
(* those of the log, each step of the log is an allowed one, and nobody took  *)
(* a blocked or running task of another person without a note.              *)
LogTellsTheState ==
    \A t \in {x \in Tasks : Exists(x)} :
        LET log == task[t].log
        IN  /\ task[t].status = log[Len(log)].status
            /\ task[t].claimant =
                  IF Claims(log) = {} THEN None ELSE log[LastOf(Claims(log))].by
            /\ \A i \in 2..Len(log) :
                  LET held == {j \in Claims(log) : j < i}
                  IN  /\ \/ log[i].status \in Allowed(log[i - 1].status)
                         \/ log[i].status = "in_progress" /\ log[i - 1].status = "in_progress"
                      /\ /\ log[i].status = "in_progress"
                         /\ log[i - 1].status \in {"in_progress", "blocked"}
                         /\ held # {}
                         => log[i].by = log[LastOf(held)].by \/ log[i].note

Busy(t) == \E c \in Callers : call[c].at # "idle" /\ call[c].task = t

(* "metadata.parent_id and the edge stay in sync" (_reparent_task): a task   *)
(* that no call is changing has an edge to its parent and to no other task.  *)
ParentsAndEdgesAgree ==
    \A t \in {x \in Tasks : Exists(x) /\ ~ Busy(x)} :
        {p \in Tasks : <<t, p>> \in edges} = {task[t].parent} \cap {p \in Tasks : Exists(p)}

InTree ==
    \A t \in Tasks : t \notin Up(Parent, {task[t].parent})

(* While calls do not overlap and none is cut off, the two records of the    *)
(* tree agree, whatever is moved, added and removed, and no task is below     *)
(* itself.                                                                  *)
TreeIsSound == raced \/ (ParentsAndEdgesAgree /\ InTree)

=============================================================================
