---------------------------- MODULE GraphReplay ----------------------------
(***************************************************************************)
(* Several server processes, one person and one checkout each, that write  *)
(* journal lines to their own shard and replay everybody's lines into      *)
(* their own graph (cognition/storage.py).  Git, Subversion and the other  *)
(* processes decide which lines a process finds on disk and when: any set  *)
(* of lines may arrive, in any order, and a rollback may take any away.    *)
(*                                                                         *)
(* A catch-up pass is one critical section of the process (the storage     *)
(* RLock), but lines keep being written elsewhere while it runs; it is a   *)
(* BeginPass or Rebuild, one Consume per line, then the retry rounds.      *)
(***************************************************************************)
EXTENDS ReplayView, FiniteSets

CONSTANTS Proc,           \* server processes
          ShardOf,        \* the shard each process writes
          LegacyLines,    \* what the frozen legacy journal holds
          SharedMint,     \* TRUE: two processes may mint one id (storage.py:547)
          MaxStamp,       \* bound on write times
          MaxLines,       \* bound on lines ever written
          MaxUpsets,      \* bound on rebuilds and restarts
          MaxRounds       \* retry rounds of a pass

ASSUME ShardAssumption == ShardOf \in [Proc -> File]
ASSUME LegacyAssumption ==
  /\ LegacyLines \subseteq Line
  /\ \A e \in LegacyLines : IsLegacy(e) /\ e.file = NoFile
ASSUME MintAssumption == SharedMint \in BOOLEAN
ASSUME BoundAssumption ==
  /\ MaxStamp \in Nat /\ MaxLines \in Nat /\ MaxUpsets \in Nat
  /\ MaxRounds \in Nat \ {0}

VARIABLES lines,     \* every line ever written to any journal file
          view,      \* each process's replay state
          read,      \* lines each process has consumed from its files
          pending,   \* deferred lines (self._pending)
          applied,   \* history: lines a process's view and pending reflect
          last,      \* newest write time of the process (self._last_at)
          pass,      \* where each process is in its catch-up pass
          upsets     \* rebuilds and restarts so far

vars == <<lines, view, read, pending, applied, last, pass, upsets>>

Idle == [phase |-> "idle", todo |-> {}, round |-> 0, progressed |-> FALSE]
Reading(todo) == [phase |-> "read", todo |-> todo, round |-> 0, progressed |-> FALSE]
Retrying(todo, round, progressed) ==
  [phase |-> "retry", todo |-> todo, round |-> round, progressed |-> progressed]

TypeOK ==
  /\ lines \subseteq Line
  /\ view \in [Proc -> View]
  /\ read \in [Proc -> SUBSET Line]
  /\ pending \in [Proc -> SUBSET Line]
  /\ applied \in [Proc -> SUBSET Line]
  /\ last \in [Proc -> Nat]
  /\ pass \in [Proc -> [phase : {"idle", "read", "retry"},
                        todo : SUBSET Line,
                        round : Nat,
                        progressed : BOOLEAN]]
  /\ upsets \in 0 .. MaxUpsets

Init ==
  /\ lines = LegacyLines
  /\ view = [p \in Proc |-> EmptyView]
  /\ read = [p \in Proc |-> {}]
  /\ pending = [p \in Proc |-> {}]
  /\ applied = [p \in Proc |-> {}]
  /\ last = [p \in Proc |-> 0]
  /\ pass = [p \in Proc |-> Idle]
  /\ upsets = 0

-----------------------------------------------------------------------------
(* Writes.  _append_journal stamps the line later than anything it must     *)
(* beat, appends it to the person's shard, then applies it.  Wall clocks    *)
(* differ, so any later stamp is possible.                                  *)

Append(p, action, id) ==
  /\ pass[p] = Idle
  /\ Cardinality(lines) < MaxLines
  /\ \E s \in FirstShardStamp .. MaxStamp :
       /\ s > Floor(view[p], action, id)
       /\ s > last[p]
       /\ \A e \in lines : e.stamp # s
       /\ LET e == [action |-> action, id |-> id, stamp |-> s, file |-> ShardOf[p]]
          IN /\ lines' = lines \cup {e}
             /\ view' = [view EXCEPT ![p] = Apply(@, e)]
             /\ applied' = [applied EXCEPT ![p] = @ \cup {e}]
             /\ last' = [last EXCEPT ![p] = s]
  /\ UNCHANGED <<read, pending, pass, upsets>>

\* The mint salts an id until it is free in this process's graph.  Ids hash the
\* summary and the creation time, so an id another line already added comes up
\* again only in the documented cross-process window (SharedMint).
AddNode(p, n) ==
  /\ n \notin view[p].nodes
  /\ SharedMint \/ \A e \in lines : e.action = "add_node" => e.id # n
  /\ Append(p, "add_node", n)

UpdateNode(p, n) ==
  /\ n \in view[p].nodes
  /\ Append(p, "update_node", n)

RemoveNode(p, n) ==
  /\ n \in view[p].nodes
  /\ Append(p, "remove_node", n)

AddEdge(p, k) ==
  /\ EndpointsIn(view[p], k)
  /\ Append(p, "add_edge", k)

RemoveEdge(p, k) ==
  /\ EndpointsIn(view[p], k)
  /\ k \in view[p].edges
  /\ Append(p, "remove_edge", k)

-----------------------------------------------------------------------------
(* Catch-up.  The legacy journal is one file read in line order, before     *)
(* the shards; the order of shard lines depends on file names and merges.   *)

LegacyPrefix(S) ==
  \A e \in S, l \in LegacyLines : IsLegacy(e) /\ l.stamp < e.stamp => l \in S

\* _catch_up with verdicts "append" or "insert": only unread lines are consumed.
BeginPass(p) ==
  /\ pass[p] = Idle
  /\ \E S \in SUBSET (lines \ read[p]) :
       /\ S # {}
       /\ LegacyPrefix(read[p] \cup S)
       /\ pass' = [pass EXCEPT ![p] = Reading(S)]
  /\ UNCHANGED <<lines, view, read, pending, applied, last, upsets>>

\* _rebuild (a line this process had read, or one it wrote, is gone) and reload():
\* the per-file state and the pending lines are dropped, the graph and its stamps
\* are kept, and whatever the files hold now is read again from the top.  A line of
\* its own that is missing is noticed once a pass has read everything.
Rebuild(p) ==
  /\ pass[p].phase # "retry" /\ pass[p].todo = {}
  /\ upsets < MaxUpsets
  /\ upsets' = upsets + 1
  /\ \E D \in SUBSET lines :
       /\ LegacyPrefix(D)
       /\ pass' = [pass EXCEPT ![p] = Reading(D)]
  /\ read' = [read EXCEPT ![p] = {}]
  /\ applied' = [applied EXCEPT ![p] = @ \ pending[p]]
  /\ pending' = [pending EXCEPT ![p] = {}]
  /\ UNCHANGED <<lines, view, last>>

ReadsNext(S, e) ==
  /\ e \in S
  /\ \A d \in S : IsLegacy(d) => IsLegacy(e) /\ e.stamp <= d.stamp

Consume(p) ==
  /\ pass[p].phase = "read"
  /\ \E e \in pass[p].todo :
       /\ ReadsNext(pass[p].todo, e)
       /\ view' = [view EXCEPT ![p] = Apply(@, e)]
       /\ pending' = IF Deferred(view[p], e)
                       THEN [pending EXCEPT ![p] = @ \cup {e}] ELSE pending
       /\ read' = [read EXCEPT ![p] = @ \cup {e}]
       /\ applied' = [applied EXCEPT ![p] = @ \cup {e}]
       /\ pass' = [pass EXCEPT ![p].todo = @ \ {e}]
  /\ UNCHANGED <<lines, last, upsets>>

\* All files read: _retry_pending starts, unless there is nothing to retry.
BeginRetry(p) ==
  /\ pass[p].phase = "read"
  /\ pass[p].todo = {}
  /\ pass' = [pass EXCEPT ![p] =
                IF pending[p] = {} THEN Idle ELSE Retrying(pending[p], 1, FALSE)]
  /\ UNCHANGED <<lines, view, read, pending, applied, last, upsets>>

Oldest(S, e) == e \in S /\ \A d \in S : e.stamp <= d.stamp

RetryOne(p) ==
  /\ pass[p].phase = "retry"
  /\ \E e \in pass[p].todo :
       /\ Oldest(pass[p].todo, e)
       /\ view' = [view EXCEPT ![p] = Apply(@, e)]
       /\ pass' = [pass EXCEPT ![p] =
                     Retrying(pass[p].todo \ {e}, pass[p].round,
                              pass[p].progressed \/ ~Deferred(view[p], e))]
       /\ pending' = IF Deferred(view[p], e)
                       THEN pending ELSE [pending EXCEPT ![p] = @ \ {e}]
  /\ UNCHANGED <<lines, read, applied, last, upsets>>

EndRound(p) ==
  /\ pass[p].phase = "retry"
  /\ pass[p].todo = {}
  /\ pass' = [pass EXCEPT ![p] =
                IF pass[p].progressed /\ pending[p] # {} /\ pass[p].round < MaxRounds
                  THEN Retrying(pending[p], pass[p].round + 1, FALSE)
                  ELSE Idle]
  /\ UNCHANGED <<lines, view, read, pending, applied, last, upsets>>

\* A restart (accept-disk's _hard_reset runs in a process of its own): nothing
\* is kept but the files.
HardReset(p) ==
  /\ pass[p] = Idle
  /\ upsets < MaxUpsets
  /\ upsets' = upsets + 1
  /\ view' = [view EXCEPT ![p] = EmptyView]
  /\ read' = [read EXCEPT ![p] = {}]
  /\ pending' = [pending EXCEPT ![p] = {}]
  /\ applied' = [applied EXCEPT ![p] = {}]
  /\ last' = [last EXCEPT ![p] = 0]
  /\ UNCHANGED <<lines, pass>>

-----------------------------------------------------------------------------
Write(p) ==
  \/ \E n \in Node : AddNode(p, n) \/ UpdateNode(p, n) \/ RemoveNode(p, n)
  \/ \E k \in Edge : AddEdge(p, k) \/ RemoveEdge(p, k)

Replay(p) ==
  \/ BeginPass(p) \/ Rebuild(p) \/ HardReset(p)
  \/ Consume(p) \/ BeginRetry(p) \/ RetryOne(p) \/ EndRound(p)

Next == \E p \in Proc : Write(p) \/ Replay(p)

Spec == Init /\ [][Next]_vars

-----------------------------------------------------------------------------
(* Properties.  A process is settled between two passes.                    *)

Settled(p) == pass[p] = Idle

IsAddOf(e, n) == e.action = "add_node" /\ e.id = n
IsRemovalOf(e, n) == e.action = "remove_node" /\ e.id = n

\* A removal wins over its node for good: a settled process shows a node exactly
\* when it has met the line that adds it and no line that removes it, in whatever
\* order they came and however often the files were read again ("the removal
\* still wins once the node appears", _apply_remove_node).
RemovalWins ==
  \A p \in Proc, n \in Node :
    Settled(p) =>
      (n \in view[p].nodes <=> /\ \E e \in applied[p] : IsAddOf(e, n)
                               /\ ~ \E e \in applied[p] : IsRemovalOf(e, n))

LinesAbout(p, actions, id) ==
  {e \in applied[p] : e.action \in actions /\ e.id = id}

\* No edit is lost: a settled process shows, for a live node, the newest edit it
\* has met, also one that arrived before the node it edits.
NewestEditShows ==
  \A p \in Proc : \A n \in view[p].nodes :
    Settled(p) =>
      LET edits == LinesAbout(p, {"add_node", "update_node"}, n)
      IN /\ \E e \in edits : e.stamp = view[p].field[n]
         /\ \A e \in edits : e.stamp <= view[p].field[n]

\* An edge is drawn exactly when both its nodes are live and the newest decision
\* about it that the process has met added it.
NewestEdgeDecisionShows ==
  \A p \in Proc, k \in Edge :
    Settled(p) =>
      LET decisions == LinesAbout(p, EdgeAction, k)
      IN k \in view[p].edges <=>
           /\ EndpointsIn(view[p], k)
           /\ \E e \in decisions : /\ e.action = "add_edge"
                                   /\ \A d \in decisions : d.stamp <= e.stamp

\* "Whatever order entries arrive in, the result is the same" (_apply): settled
\* processes that have met the same lines show the same graph.
Shown(p) ==
  [nodes |-> view[p].nodes,
   field |-> [n \in view[p].nodes |-> view[p].field[n]],
   edges |-> view[p].edges]

Convergence ==
  \A p, q \in Proc :
    Settled(p) /\ Settled(q) /\ applied[p] = applied[q] => Shown(p) = Shown(q)

-----------------------------------------------------------------------------
(* The inductive invariant behind RemovalWins (and TypeOK).                 *)

\* The lines of L are written the way writers write them: an id is minted once,
\* and a removal is stamped later than the add of its node.
AddsUnique(L) ==
  \A d, e \in L : d.action = "add_node" /\ e.action = "add_node" /\ d.id = e.id => d = e
RemovalsFollow(L) ==
  \A r \in L : r.action = "remove_node" =>
    \E d \in L : IsAddOf(d, r.id) /\ d.stamp < r.stamp

\* A replay state v agrees about nodes with the lines A it reflects, among all
\* lines L: a tombstone stands for a removal met and beats every add of the node,
\* and a node is live when its add was met and it has no tombstone.
NodesMatch(v, A, L) ==
  \A n \in Node :
    /\ v.tomb[n] # 0 <=> \E r \in A : IsRemovalOf(r, n)
    /\ \A d \in L : IsAddOf(d, n) /\ v.tomb[n] # 0 => d.stamp < v.tomb[n]
    /\ n \in v.nodes <=> v.tomb[n] = 0 /\ \E d \in A : IsAddOf(d, n)
    /\ n \in v.nodes => \E d \in A : /\ IsAddOf(d, n)
                                     /\ d.stamp = v.added[n]
                                     /\ d.file = v.home[n]
    /\ n \notin v.nodes => v.added[n] = 0

Unread(p) == IF pass[p].phase = "read" THEN pass[p].todo ELSE {}

\* What a process has read, will read and keeps pending are lines that exist, the
\* legacy journal is read from its top, and only edits and edges wait.
ReadingInv ==
  \A p \in Proc :
    /\ applied[p] \subseteq lines
    /\ read[p] \subseteq applied[p]
    /\ Unread(p) \subseteq lines
    /\ pass[p].phase = "retry" => pass[p].todo \subseteq pending[p]
    /\ pass[p].phase = "idle" => pass[p].todo = {}
    /\ pending[p] \subseteq applied[p]
    /\ \A e \in pending[p] : e.action \in {"update_node", "add_edge"}
    /\ LegacyPrefix(read[p] \cup Unread(p))

WritingInv ==
  /\ AddsUnique(lines)
  /\ RemovalsFollow(lines)
  /\ \A e \in lines : IsLegacy(e) => e \in LegacyLines

ReplayInv ==
  /\ TypeOK
  /\ WritingInv
  /\ ReadingInv
  /\ \A p \in Proc : NodesMatch(view[p], applied[p], lines)

=============================================================================
