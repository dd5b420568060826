------------------------- MODULE GraphReplay_proofs -------------------------
(***************************************************************************)
(* Type correctness of GraphReplay, and the proofs that a removal wins     *)
(* over its node for good, that no edit and no decision about an edge is   *)
(* lost, and that processes which have met the same lines show the same    *)
(* graph, for any number of processes, nodes and lines.                    *)
(***************************************************************************)
EXTENDS GraphReplay, TLAPS

USE DEF Home, NodeAction, EdgeAction, Line

-----------------------------------------------------------------------------
(* Types of the apply operators.                                            *)

\* The newer of two stamps is a stamp (the stamp comparisons of _apply).
LEMMA NewestType == \A s, t \in Nat : Newest(s, t) \in Nat
BY DEF Newest

\* What a line about a node or an edge is about (the "data" of an entry).
LEMMA LineIds ==
  \A e \in Line :
    /\ e.action \in NodeAction => e.id \in Node
    /\ e.action \in EdgeAction => e.id \in Edge
    /\ e.action \in NodeAction \cup EdgeAction
    /\ e.stamp \in Nat \ {0}
    /\ e.file \in Home
OBVIOUS

\* Applying a line keeps the shape of the replay state (_apply).
LEMMA ApplyType ==
  ASSUME NEW v \in View, NEW e \in Line
  PROVE  Apply(v, e) \in View
<1> USE LineIds
<1>1. CASE e.action = "add_node"
  <2>1. MergeAdd(v, e) \in View
    BY <1>1, NewestType DEF MergeAdd, View
  <2>2. KeepEarlierWhole(v, e) \in View
    BY <1>1 DEF KeepEarlierWhole, View
  <2> QED
    BY <1>1, <2>1, <2>2 DEF Apply, ApplyAddNode
<1>2. CASE e.action = "update_node"
  BY <1>2, NewestType DEF Apply, ApplyUpdateNode, View
<1>3. CASE e.action = "remove_node"
  BY <1>3 DEF Apply, ApplyRemoveNode, View
<1>4. CASE e.action = "add_edge"
  BY <1>4 DEF Apply, ApplyAddEdge, View
<1>5. CASE e.action = "remove_edge"
  BY <1>5 DEF Apply, ApplyRemoveEdge, View
<1> QED
  BY <1>1, <1>2, <1>3, <1>4, <1>5

\* A process with nothing replayed yet has a well-formed replay state.
LEMMA EmptyViewType == EmptyView \in View
BY DEF EmptyView, View

\* A new line is a line, whatever its stamp.
LEMMA NewLineType ==
  ASSUME NEW p \in Proc, NEW s \in FirstShardStamp .. MaxStamp
  PROVE  /\ \A action \in NodeAction, id \in Node :
              [action |-> action, id |-> id, stamp |-> s, file |-> ShardOf[p]] \in Line
         /\ \A action \in EdgeAction, id \in Edge :
              [action |-> action, id |-> id, stamp |-> s, file |-> ShardOf[p]] \in Line
         /\ s \in Nat
BY ShardAssumption, TierAssumption, BoundAssumption

-----------------------------------------------------------------------------
(* Type correctness of the machine.                                         *)

\* A write appends a line of its writer and keeps every type (_append_journal).
LEMMA AppendType ==
  ASSUME TypeOK, NEW p \in Proc,
         NEW action, NEW id,
         \/ action \in NodeAction /\ id \in Node
         \/ action \in EdgeAction /\ id \in Edge,
         Append(p, action, id)
  PROVE  TypeOK'
<1> PICK s \in FirstShardStamp .. MaxStamp :
      LET e == [action |-> action, id |-> id, stamp |-> s, file |-> ShardOf[p]]
      IN /\ lines' = lines \cup {e}
         /\ view' = [view EXCEPT ![p] = Apply(@, e)]
         /\ applied' = [applied EXCEPT ![p] = @ \cup {e}]
         /\ last' = [last EXCEPT ![p] = s]
  BY DEF Append
<1> DEFINE e == [action |-> action, id |-> id, stamp |-> s, file |-> ShardOf[p]]
<1>1. e \in Line /\ s \in Nat
  BY NewLineType
<1>2. UNCHANGED <<read, pending, pass, upsets>>
  BY DEF Append
<1> HIDE DEF e
<1>3. Apply(view[p], e) \in View
  BY <1>1, ApplyType DEF TypeOK
<1> QED
  BY <1>1, <1>2, <1>3 DEF TypeOK, e

\* Every step of a pass, a rebuild and a restart keeps every type.
LEMMA ReplayType ==
  ASSUME TypeOK, NEW p \in Proc, Replay(p)
  PROVE  TypeOK'
<1>1. CASE BeginPass(p)
  BY <1>1 DEF BeginPass, TypeOK, Reading
<1>2. CASE Rebuild(p)
  <2> PICK D \in SUBSET lines : pass' = [pass EXCEPT ![p] = Reading(D)]
    BY <1>2 DEF Rebuild
  <2>1. Reading(D) \in [phase : {"idle", "read", "retry"}, todo : SUBSET Line,
                        round : Nat, progressed : BOOLEAN]
    BY DEF Reading, TypeOK
  <2> QED
    BY <1>2, <2>1, BoundAssumption DEF Rebuild, TypeOK
<1>3. CASE HardReset(p)
  BY <1>3, EmptyViewType, BoundAssumption DEF HardReset, TypeOK
<1>4. CASE Consume(p)
  <2> PICK e \in pass[p].todo :
        /\ view' = [view EXCEPT ![p] = Apply(@, e)]
        /\ pending' = IF Deferred(view[p], e)
                        THEN [pending EXCEPT ![p] = @ \cup {e}] ELSE pending
        /\ read' = [read EXCEPT ![p] = @ \cup {e}]
        /\ applied' = [applied EXCEPT ![p] = @ \cup {e}]
        /\ pass' = [pass EXCEPT ![p].todo = @ \ {e}]
    BY <1>4 DEF Consume
  <2>1. e \in Line
    BY DEF TypeOK
  <2>2. Apply(view[p], e) \in View
    BY <2>1, ApplyType DEF TypeOK
  <2> QED
    BY <1>4, <2>1, <2>2 DEF Consume, TypeOK
<1>5. CASE BeginRetry(p)
  BY <1>5 DEF BeginRetry, TypeOK, Idle, Retrying
<1>6. CASE RetryOne(p)
  <2> PICK e \in pass[p].todo :
        /\ view' = [view EXCEPT ![p] = Apply(@, e)]
        /\ pass' = [pass EXCEPT ![p] =
                      Retrying(pass[p].todo \ {e}, pass[p].round,
                               pass[p].progressed \/ ~Deferred(view[p], e))]
        /\ pending' = IF Deferred(view[p], e)
                        THEN pending ELSE [pending EXCEPT ![p] = @ \ {e}]
    BY <1>6 DEF RetryOne
  <2>1. e \in Line
    BY DEF TypeOK
  <2>2. Apply(view[p], e) \in View
    BY <2>1, ApplyType DEF TypeOK
  <2>3. pass' \in [Proc -> [phase : {"idle", "read", "retry"}, todo : SUBSET Line,
                            round : Nat, progressed : BOOLEAN]]
    <3> DEFINE b == pass[p].progressed \/ ~Deferred(view[p], e)
    <3>1. b \in BOOLEAN
      OBVIOUS
    <3>2. pass' = [pass EXCEPT ![p] = Retrying(pass[p].todo \ {e}, pass[p].round, b)]
      OBVIOUS
    <3> HIDE DEF b
    <3> QED
      BY <3>1, <3>2 DEF TypeOK, Retrying
  <2>4. pending' \in [Proc -> SUBSET Line]
    BY DEF TypeOK
  <2> QED
    BY <1>6, <2>2, <2>3, <2>4 DEF RetryOne, TypeOK
<1>7. CASE EndRound(p)
  BY <1>7 DEF EndRound, TypeOK, Idle, Retrying
<1> QED
  BY <1>1, <1>2, <1>3, <1>4, <1>5, <1>6, <1>7 DEF Replay

\* The type invariant of the replay machine holds in every reachable state.
THEOREM TypeCorrect == Spec => []TypeOK
<1>1. Init => TypeOK
  BY EmptyViewType, LegacyAssumption, BoundAssumption DEF Init, TypeOK, Idle
<1>2. TypeOK /\ [Next]_vars => TypeOK'
  <2> SUFFICES ASSUME TypeOK, [Next]_vars PROVE TypeOK'
    OBVIOUS
  <2>1. CASE UNCHANGED vars
    BY <2>1 DEF vars, TypeOK
  <2>2. ASSUME NEW p \in Proc, Write(p) PROVE TypeOK'
    BY <2>2, AppendType DEF Write, AddNode, UpdateNode, RemoveNode, AddEdge, RemoveEdge
  <2>3. ASSUME NEW p \in Proc, Replay(p) PROVE TypeOK'
    BY <2>3, ReplayType
  <2> QED
    BY <2>1, <2>2, <2>3 DEF Next
<1> QED
  BY <1>1, <1>2, PTL DEF Spec

-----------------------------------------------------------------------------
(* One line.  NodesMatch survives applying any line, in any order, provided *)
(* a legacy removal is met after the add of its node.                       *)

\* Applying one line (the first time or again) keeps the replay state in
\* agreement with the lines it reflects (_apply, every branch).
LEMMA ApplyMatches ==
  ASSUME NEW L \in SUBSET Line, NEW A \in SUBSET L, NEW e \in L, NEW v \in View,
         AddsUnique(L), RemovalsFollow(L), NodesMatch(v, A, L),
         e.action = "remove_node" /\ IsLegacy(e) =>
           \E d \in A : IsAddOf(d, e.id)
  PROVE  /\ NodesMatch(Apply(v, e), A \cup {e}, L)
         /\ Deferred(v, e) => e.action \in {"update_node", "add_edge"}
<1> USE LineIds DEF IsAddOf, IsRemovalOf
<1>0. e \in Line
  OBVIOUS
<1>1. CASE e.action = "add_node"
  <2>1. ~Deferred(v, e)
    BY <1>1 DEF Deferred
  <2>2. CASE e.stamp <= v.tomb[e.id]
    <3>1. Apply(v, e) = v
      BY <1>1, <2>2 DEF Apply, ApplyAddNode
    <3> QED
      BY <1>1, <2>1, <2>2, <3>1 DEF NodesMatch, View
  <2>3. CASE ~(e.stamp <= v.tomb[e.id])
    <3>1. v.tomb[e.id] = 0
      BY <1>1, <2>3 DEF NodesMatch, View
    <3>2. ~Collides(v, e)
      BY <1>1 DEF Collides, NodesMatch, AddsUnique
    <3>3. Apply(v, e) = MergeAdd(v, e)
      BY <1>1, <2>3, <3>2 DEF Apply, ApplyAddNode
    <3> DEFINE w == MergeAdd(v, e)
    <3>4. e.id \in v.nodes => v.added[e.id] = e.stamp /\ v.home[e.id] = e.file
      BY <1>1 DEF NodesMatch, AddsUnique
    <3>5. e.id \notin v.nodes => v.added[e.id] = 0
      BY <1>1 DEF NodesMatch
    <3>6. w.nodes = v.nodes \cup {e.id} /\ w.tomb = v.tomb
      BY <1>1, <3>1 DEF MergeAdd, View
    <3>7. w.added[e.id] = e.stamp /\ w.home[e.id] = e.file
      BY <1>1, <3>4, <3>5 DEF MergeAdd, View, Newest
    <3>8. \A n \in Node \ {e.id} : w.added[n] = v.added[n] /\ w.home[n] = v.home[n]
      BY <1>1 DEF MergeAdd, View
    <3> HIDE DEF w
    <3>9. NodesMatch(w, A \cup {e}, L)
      <4> SUFFICES ASSUME NEW n \in Node
                   PROVE  NodesMatch(w, A \cup {e}, L)!(n)
        BY DEF NodesMatch
      <4>1. CASE n = e.id
        BY <1>1, <3>1, <3>6, <3>7, <4>1 DEF NodesMatch
      <4>2. CASE n # e.id
        BY <1>1, <3>6, <3>8, <4>2 DEF NodesMatch
      <4> QED
        BY <4>1, <4>2
    <3> QED
      BY <2>1, <3>3, <3>9 DEF w
  <2> QED
    BY <2>2, <2>3
<1>2. CASE e.action = "update_node"
  <2>1. /\ Apply(v, e).nodes = v.nodes
        /\ Apply(v, e).added = v.added
        /\ Apply(v, e).home = v.home
        /\ Apply(v, e).tomb = v.tomb
    BY <1>2 DEF Apply, ApplyUpdateNode, View
  <2> QED
    BY <1>2, <2>1 DEF NodesMatch
<1>3. CASE e.action \in EdgeAction
  <2>1. /\ Apply(v, e).nodes = v.nodes
        /\ Apply(v, e).added = v.added
        /\ Apply(v, e).home = v.home
        /\ Apply(v, e).tomb = v.tomb
    BY <1>3 DEF Apply, ApplyAddEdge, ApplyRemoveEdge, View
  <2>2. Deferred(v, e) => e.action = "add_edge"
    BY <1>3 DEF Deferred
  <2> QED
    BY <1>3, <2>1, <2>2 DEF NodesMatch
<1>4. CASE e.action = "remove_node"
  <2>1. ~Deferred(v, e)
    BY <1>4 DEF Deferred, NodesMatch
  <2>2. PICK d \in L : IsAddOf(d, e.id) /\ d.stamp < e.stamp
    BY <1>4 DEF RemovalsFollow
  <2>3. e.id \in v.nodes => v.added[e.id] < e.stamp
    BY <1>4, <2>2 DEF NodesMatch, AddsUnique
  <2>4. CASE RemovalRefused(v, e)
    <3>1. Apply(v, e) = v
      BY <1>4, <2>4 DEF Apply, ApplyRemoveNode
    <3>2. v.tomb[e.id] # 0
      BY <1>4, <2>1, <2>3, <2>4 DEF RemovalRefused, NodesMatch, View, Deferred
    <3> QED
      BY <1>4, <2>1, <3>1, <3>2 DEF NodesMatch
  <2>5. CASE ~RemovalRefused(v, e)
    <3> DEFINE w == Apply(v, e)
    <3>1. w.nodes = v.nodes \ {e.id} /\ w.tomb[e.id] = e.stamp /\ w.added[e.id] = 0
      BY <1>4, <2>5 DEF Apply, ApplyRemoveNode, View
    <3>2. \A n \in Node \ {e.id} : /\ w.tomb[n] = v.tomb[n]
                                   /\ w.added[n] = v.added[n]
                                   /\ w.home[n] = v.home[n]
      BY <1>4, <2>5 DEF Apply, ApplyRemoveNode, View
    <3> HIDE DEF w
    <3>3. NodesMatch(w, A \cup {e}, L)
      <4> SUFFICES ASSUME NEW n \in Node
                   PROVE  NodesMatch(w, A \cup {e}, L)!(n)
        BY DEF NodesMatch
      <4>1. CASE n = e.id
        BY <1>4, <2>2, <3>1, <4>1 DEF NodesMatch, AddsUnique
      <4>2. CASE n # e.id
        BY <1>4, <3>1, <3>2, <4>2 DEF NodesMatch
      <4> QED
        BY <4>1, <4>2
    <3> QED
      BY <2>1, <3>3 DEF w
  <2> QED
    BY <2>4, <2>5
<1> QED
  BY <1>0, <1>1, <1>2, <1>3, <1>4

-----------------------------------------------------------------------------
(* The machine.  The legacy journal is read from its top, so a legacy       *)
(* removal is met after the add of its node; shard lines come in any order. *)

\* What the theorems ask of the environment: ids are minted once (the mint's
\* cross-process window is not hit), and the frozen legacy journal was written in
\* order -- no merge put a removal before the add of its node.
OrderedHistory ==
  /\ ~SharedMint
  /\ AddsUnique(LegacyLines)
  /\ RemovalsFollow(LegacyLines)

\* A new line leaves every other process in agreement with what it reflects
\* (_append_journal): nothing about its id was met before it was minted.
LEMMA NewLineMatches ==
  ASSUME NEW L \in SUBSET Line, NEW A \in SUBSET L, NEW e \in Line, NEW v \in View,
         RemovalsFollow(L), NodesMatch(v, A, L),
         e.action = "add_node" => ~ \E d \in L : IsAddOf(d, e.id)
  PROVE  NodesMatch(v, A, L \cup {e})
<1> SUFFICES ASSUME NEW n \in Node
             PROVE  NodesMatch(v, A, L \cup {e})!(n)
  BY DEF NodesMatch
<1>1. CASE IsAddOf(e, n)
  <2>1. v.tomb[n] = 0
    BY <1>1 DEF NodesMatch, RemovalsFollow, IsAddOf, IsRemovalOf
  <2> QED
    BY <2>1 DEF NodesMatch
<1>2. CASE ~IsAddOf(e, n)
  BY <1>2 DEF NodesMatch
<1> QED
  BY <1>1, <1>2

\* A write keeps the invariant: the line it appends is applied at once to the
\* writer's graph, and every other process still agrees with what it reflects.
LEMMA AppendKeepsInv ==
  ASSUME ReplayInv, NEW p \in Proc, NEW action, NEW id,
         \/ action \in NodeAction /\ id \in Node
         \/ action \in EdgeAction /\ id \in Edge,
         action = "add_node" => ~ \E d \in lines : IsAddOf(d, id),
         action = "remove_node" => id \in view[p].nodes,
         Append(p, action, id)
  PROVE  ReplayInv'
<1> PICK s \in FirstShardStamp .. MaxStamp :
      /\ s > Floor(view[p], action, id)
      /\ LET e == [action |-> action, id |-> id, stamp |-> s, file |-> ShardOf[p]]
         IN /\ lines' = lines \cup {e}
            /\ view' = [view EXCEPT ![p] = Apply(@, e)]
            /\ applied' = [applied EXCEPT ![p] = @ \cup {e}]
  BY DEF Append
<1> DEFINE e == [action |-> action, id |-> id, stamp |-> s, file |-> ShardOf[p]]
<1>1. e \in Line /\ s \in Nat
  BY NewLineType
<1>2. e.action = action /\ e.id = id /\ e.stamp = s /\ ~IsLegacy(e)
  BY TierAssumption, BoundAssumption DEF IsLegacy
<1>3. UNCHANGED <<read, pending, pass>> /\ pass[p] = Idle
  BY DEF Append
<1>4. /\ lines' = lines \cup {e}
      /\ view' = [view EXCEPT ![p] = Apply(@, e)]
      /\ applied' = [applied EXCEPT ![p] = @ \cup {e}]
  OBVIOUS
<1>5. TypeOK'
  BY AppendType DEF ReplayInv
<1> HIDE DEF e
<1>6. WritingInv'
  <2>1. AddsUnique(lines')
    BY <1>2, <1>4 DEF ReplayInv, WritingInv, AddsUnique, IsAddOf
  <2>2. RemovalsFollow(lines')
    <3>1. ASSUME action = "remove_node" PROVE \E d \in lines : IsAddOf(d, id) /\ d.stamp < s
      <4>1. PICK d \in applied[p] : IsAddOf(d, id) /\ d.stamp = view[p].added[id]
        BY <3>1 DEF ReplayInv, NodesMatch, NodeAction, EdgeAction
      <4>2. view[p].added[id] < s
        <5>1. /\ view[p].added[id] \in Nat
              /\ view[p].field[id] \in Nat
              /\ view[p].tomb[id] \in Nat
          BY <3>1 DEF ReplayInv, TypeOK, View
        <5> QED
          BY <1>1, <3>1, <5>1 DEF Floor, Newest
      <4> QED
        BY <4>1, <4>2 DEF ReplayInv, ReadingInv
    <3> QED
      BY <1>2, <1>4, <3>1 DEF ReplayInv, WritingInv, RemovalsFollow, IsAddOf
  <2> QED
    BY <1>2, <1>4, <2>1, <2>2 DEF ReplayInv, WritingInv
<1>7. ReadingInv'
  BY <1>3, <1>4 DEF ReplayInv, TypeOK, ReadingInv, Unread, LegacyPrefix
<1>8. ASSUME NEW o \in Proc PROVE NodesMatch(view[o], applied[o], lines')
  <2>1. applied[o] \in SUBSET lines /\ lines \in SUBSET Line /\ view[o] \in View
    BY DEF ReplayInv, ReadingInv, TypeOK
  <2> QED
    BY <1>1, <1>2, <1>4, <2>1, NewLineMatches DEF ReplayInv, WritingInv
<1>9. NodesMatch(Apply(view[p], e), applied[p] \cup {e}, lines')
  <2>1. /\ lines' \in SUBSET Line /\ applied[p] \in SUBSET lines'
        /\ e \in lines' /\ view[p] \in View
    BY <1>1, <1>4 DEF ReplayInv, ReadingInv, TypeOK
  <2>2. AddsUnique(lines') /\ RemovalsFollow(lines')
    BY <1>6 DEF WritingInv
  <2> QED
    BY <1>2, <1>8, <2>1, <2>2, ApplyMatches
<1>10. \A o \in Proc : NodesMatch(view'[o], applied'[o], lines')
  BY <1>4, <1>8, <1>9 DEF ReplayInv, TypeOK
<1> QED
  BY <1>5, <1>6, <1>7, <1>10 DEF ReplayInv

\* A line met in a pass or retried keeps the invariant's part about nodes: it is a
\* line that exists, and a legacy removal comes after the add of its node.
LEMMA MeetingKeepsMatch ==
  ASSUME ReplayInv, OrderedHistory, NEW p \in Proc, NEW e \in lines,
         IsLegacy(e) => \A l \in LegacyLines : l.stamp < e.stamp => l \in applied[p]
  PROVE  /\ NodesMatch(Apply(view[p], e), applied[p] \cup {e}, lines)
         /\ Deferred(view[p], e) => e.action \in {"update_node", "add_edge"}
<1>1. /\ lines \in SUBSET Line /\ applied[p] \in SUBSET lines /\ view[p] \in View
      /\ AddsUnique(lines) /\ RemovalsFollow(lines)
      /\ NodesMatch(view[p], applied[p], lines)
  BY DEF ReplayInv, ReadingInv, WritingInv, TypeOK
<1>2. ASSUME e.action = "remove_node", IsLegacy(e)
      PROVE  \E d \in applied[p] : IsAddOf(d, e.id)
  BY <1>2 DEF ReplayInv, WritingInv, OrderedHistory, RemovalsFollow
<1> QED
  BY <1>1, <1>2, ApplyMatches

\* Every step of a pass, a rebuild and a restart keeps the invariant.
LEMMA ReplayKeepsInv ==
  ASSUME ReplayInv, OrderedHistory, NEW p \in Proc, Replay(p)
  PROVE  ReplayInv'
<1>0. TypeOK'
  BY ReplayType DEF ReplayInv
<1> SUFFICES WritingInv' /\ ReadingInv'
             /\ \A o \in Proc : NodesMatch(view'[o], applied'[o], lines')
  BY <1>0 DEF ReplayInv
<1>1. WritingInv'
  BY DEF Replay, BeginPass, Rebuild, HardReset, Consume, BeginRetry, RetryOne,
         EndRound, ReplayInv, WritingInv
<1>2. CASE BeginPass(p)
  <2> PICK S \in SUBSET (lines \ read[p]) :
        /\ LegacyPrefix(read[p] \cup S)
        /\ pass' = [pass EXCEPT ![p] = Reading(S)]
    BY <1>2 DEF BeginPass
  <2>0. UNCHANGED <<lines, read, pending, applied>>
    BY <1>2 DEF BeginPass
  <2>1. ReadingInv'
    <3> SUFFICES ASSUME NEW o \in Proc PROVE ReadingInv!(o)'
      BY DEF ReadingInv
    <3>1. CASE o = p
      <4>1. pass'[o].phase = "read" /\ pass'[o].todo = S
        BY <3>1 DEF ReplayInv, TypeOK, Reading
      <4>2. Unread(o)' = S
        BY <4>1 DEF Unread
      <4>3. LegacyPrefix(read[o] \cup Unread(o))'
        BY <2>0, <3>1, <4>2 DEF LegacyPrefix
      <4> QED
        BY <2>0, <3>1, <4>1, <4>2, <4>3 DEF ReplayInv, ReadingInv
    <3>2. CASE o # p
      <4>1. pass'[o] = pass[o]
        BY <3>2 DEF ReplayInv, TypeOK
      <4> QED
        BY <2>0, <4>1 DEF ReplayInv, ReadingInv, Unread, LegacyPrefix
    <3> QED
      BY <3>1, <3>2
  <2> QED
    BY <1>1, <1>2, <2>1 DEF BeginPass, ReplayInv
<1>3. CASE Rebuild(p)
  <2>1. /\ read' = [read EXCEPT ![p] = {}]
        /\ applied' = [applied EXCEPT ![p] = @ \ pending[p]]
        /\ pending' = [pending EXCEPT ![p] = {}]
        /\ UNCHANGED <<lines, view>>
    BY <1>3 DEF Rebuild
  <2>2. PICK D \in SUBSET lines : /\ LegacyPrefix(D)
                                  /\ pass' = [pass EXCEPT ![p] = Reading(D)]
    BY <1>3 DEF Rebuild
  <2>3. /\ read'[p] = {} /\ pending'[p] = {} /\ applied'[p] = applied[p] \ pending[p]
        /\ pass'[p] = Reading(D)
        /\ \A o \in Proc \ {p} : /\ read'[o] = read[o] /\ pending'[o] = pending[o]
                                 /\ applied'[o] = applied[o] /\ pass'[o] = pass[o]
    <3>1. /\ read \in [Proc -> SUBSET Line] /\ pending \in [Proc -> SUBSET Line]
          /\ applied \in [Proc -> SUBSET Line] /\ pass = [o \in Proc |-> pass[o]]
      BY DEF ReplayInv, TypeOK
    <3> HIDE DEF Reading
    <3> QED
      BY <2>1, <2>2, <3>1
  <2>4. ReadingInv'
    <3> SUFFICES ASSUME NEW o \in Proc PROVE ReadingInv!(o)'
      BY DEF ReadingInv
    <3>1. CASE o = p
      <4>1. /\ pass'[o].phase = "read" /\ pass'[o].todo = D
            /\ read'[o] = {} /\ pending'[o] = {} /\ applied'[o] \subseteq applied[o]
        BY <2>3, <3>1 DEF Reading
      <4>2. Unread(o)' = D
        BY <4>1 DEF Unread
      <4>3. applied[o] \subseteq lines /\ lines' = lines
        BY <2>1 DEF ReplayInv, ReadingInv
      <4>4. LegacyPrefix(read[o] \cup Unread(o))'
        BY <2>2, <4>1, <4>2 DEF LegacyPrefix
      <4> QED
        BY <4>1, <4>2, <4>3, <4>4
    <3>2. CASE o # p
      BY <2>1, <2>3, <3>2 DEF ReplayInv, ReadingInv, Unread, LegacyPrefix
    <3> QED
      BY <3>1, <3>2
  <2>5. ASSUME NEW e \in pending[p], NEW n \in Node
        PROVE  ~IsAddOf(e, n) /\ ~IsRemovalOf(e, n)
    BY DEF ReplayInv, ReadingInv, IsAddOf, IsRemovalOf
  <2>6. NodesMatch(view[p], applied[p] \ pending[p], lines)
    <3> SUFFICES ASSUME NEW n \in Node
                 PROVE  NodesMatch(view[p], applied[p] \ pending[p], lines)!(n)
      BY DEF NodesMatch
    <3>1. \A d \in applied[p] : IsAddOf(d, n) \/ IsRemovalOf(d, n) => d \notin pending[p]
      BY <2>5
    <3>2. NodesMatch(view[p], applied[p], lines)!(n)
      BY DEF ReplayInv, NodesMatch
    <3> QED
      BY <3>1, <3>2
  <2> QED
    BY <1>1, <2>1, <2>4, <2>6 DEF ReplayInv, TypeOK
<1>4. CASE HardReset(p)
  <2>1. /\ view' = [view EXCEPT ![p] = EmptyView]
        /\ read' = [read EXCEPT ![p] = {}]
        /\ applied' = [applied EXCEPT ![p] = {}]
        /\ pending' = [pending EXCEPT ![p] = {}]
        /\ UNCHANGED <<lines, pass>>
        /\ pass[p] = Idle
    BY <1>4 DEF HardReset
  <2>2. ReadingInv'
    BY <2>1 DEF ReplayInv, TypeOK, ReadingInv, Unread, Idle, LegacyPrefix
  <2>3. NodesMatch(EmptyView, {}, lines)
    BY DEF NodesMatch, EmptyView
  <2> QED
    BY <1>1, <2>1, <2>2, <2>3 DEF ReplayInv, TypeOK
<1>5. CASE Consume(p)
  <2> PICK e \in pass[p].todo :
        /\ ReadsNext(pass[p].todo, e)
        /\ view' = [view EXCEPT ![p] = Apply(@, e)]
        /\ pending' = IF Deferred(view[p], e)
                        THEN [pending EXCEPT ![p] = @ \cup {e}] ELSE pending
        /\ read' = [read EXCEPT ![p] = @ \cup {e}]
        /\ applied' = [applied EXCEPT ![p] = @ \cup {e}]
        /\ pass' = [pass EXCEPT ![p].todo = @ \ {e}]
    BY <1>5 DEF Consume
  <2>1. pass[p].phase = "read" /\ lines' = lines
    BY <1>5 DEF Consume
  <2>2. e \in lines
    BY <2>1 DEF ReplayInv, ReadingInv, Unread
  <2>3. ASSUME IsLegacy(e), NEW l \in LegacyLines, l.stamp < e.stamp
        PROVE  l \in applied[p]
    <3>1. l \in read[p] \cup pass[p].todo
      BY <2>1, <2>3 DEF ReplayInv, ReadingInv, Unread, LegacyPrefix
    <3>2. IsLegacy(l) /\ l.stamp \in Nat /\ e.stamp \in Nat
      BY <2>2, LegacyAssumption, LineIds DEF ReplayInv, TypeOK
    <3>3. l \notin pass[p].todo
      BY <2>3, <3>2 DEF ReadsNext
    <3> QED
      BY <3>1, <3>3 DEF ReplayInv, ReadingInv
  <2>4. /\ NodesMatch(Apply(view[p], e), applied[p] \cup {e}, lines)
        /\ Deferred(view[p], e) => e.action \in {"update_node", "add_edge"}
    BY <2>2, <2>3, MeetingKeepsMatch
  <2>5. pending'[p] \subseteq pending[p] \cup {e} /\ \A o \in Proc \ {p} : pending'[o] = pending[o]
    BY DEF ReplayInv, TypeOK
  <2>6. \A d \in pending'[p] : d.action \in {"update_node", "add_edge"}
    BY <2>4 DEF ReplayInv, TypeOK, ReadingInv
  <2>7. /\ pass'[p].phase = "read" /\ pass'[p].todo = pass[p].todo \ {e}
        /\ \A o \in Proc \ {p} : pass'[o] = pass[o]
    BY <2>1 DEF ReplayInv, TypeOK
  <2>8. read'[p] \cup Unread(p)' = read[p] \cup Unread(p)
    BY <2>1, <2>7 DEF ReplayInv, TypeOK, Unread
  <2>9. ReadingInv'
    <3> SUFFICES ASSUME NEW o \in Proc PROVE ReadingInv!(o)'
      BY DEF ReadingInv
    <3>1. CASE o = p
      BY <2>1, <2>2, <2>5, <2>6, <2>7, <2>8, <3>1
      DEF ReplayInv, TypeOK, ReadingInv, Unread
    <3>2. CASE o # p
      BY <2>1, <2>5, <2>7, <3>2 DEF ReplayInv, TypeOK, ReadingInv, Unread
    <3> QED
      BY <3>1, <3>2
  <2> QED
    BY <1>1, <2>1, <2>4, <2>9 DEF ReplayInv, TypeOK
<1>6. CASE BeginRetry(p)
  <2>1. ReadingInv'
    BY <1>6 DEF BeginRetry, ReplayInv, TypeOK, ReadingInv, Unread, Retrying, Idle, LegacyPrefix
  <2> QED
    BY <1>1, <1>6, <2>1 DEF BeginRetry, ReplayInv
<1>7. CASE RetryOne(p)
  <2> PICK e \in pass[p].todo :
        /\ view' = [view EXCEPT ![p] = Apply(@, e)]
        /\ pass' = [pass EXCEPT ![p] =
                      Retrying(pass[p].todo \ {e}, pass[p].round,
                               pass[p].progressed \/ ~Deferred(view[p], e))]
        /\ pending' = IF Deferred(view[p], e)
                        THEN pending ELSE [pending EXCEPT ![p] = @ \ {e}]
    BY <1>7 DEF RetryOne
  <2>1. pass[p].phase = "retry" /\ UNCHANGED <<lines, read, applied>>
    BY <1>7 DEF RetryOne
  <2>2. /\ e \in pending[p] /\ e \in applied[p] /\ e \in lines
        /\ e.action \in {"update_node", "add_edge"}
    BY <2>1 DEF ReplayInv, ReadingInv
  <2>3. NodesMatch(Apply(view[p], e), applied[p] \cup {e}, lines)
    BY <2>2, ApplyMatches DEF ReplayInv, ReadingInv, WritingInv, TypeOK
  <2>4. applied[p] \cup {e} = applied[p]
    BY <2>2
  <2>5. /\ pass'[p].phase = "retry" /\ pass'[p].todo = pass[p].todo \ {e}
        /\ \A o \in Proc \ {p} : pass'[o] = pass[o]
    BY DEF ReplayInv, TypeOK, Retrying
  <2>6. /\ pending'[p] = pending[p] \/ pending'[p] = pending[p] \ {e}
        /\ \A o \in Proc \ {p} : pending'[o] = pending[o]
    BY DEF ReplayInv, TypeOK
  <2>7. ReadingInv'
    <3> SUFFICES ASSUME NEW o \in Proc PROVE ReadingInv!(o)'
      BY DEF ReadingInv
    <3>1. CASE o = p
      BY <2>1, <2>5, <2>6, <3>1 DEF ReplayInv, ReadingInv, Unread
    <3>2. CASE o # p
      BY <2>1, <2>5, <2>6, <3>2 DEF ReplayInv, ReadingInv, Unread
    <3> QED
      BY <3>1, <3>2
  <2> QED
    BY <1>1, <2>1, <2>3, <2>4, <2>7 DEF ReplayInv, TypeOK
<1>8. CASE EndRound(p)
  <2>1. ReadingInv'
    BY <1>8 DEF EndRound, ReplayInv, TypeOK, ReadingInv, Unread, Retrying, Idle, LegacyPrefix
  <2> QED
    BY <1>1, <1>8, <2>1 DEF EndRound, ReplayInv
<1> QED
  BY <1>2, <1>3, <1>4, <1>5, <1>6, <1>7, <1>8 DEF Replay

\* Before anything is read the graph agrees with the nothing it reflects.
LEMMA InitReplay ==
  ASSUME OrderedHistory, Init
  PROVE  ReplayInv
<1>1. TypeOK
  BY EmptyViewType, LegacyAssumption, BoundAssumption DEF Init, TypeOK, Idle
<1>2. WritingInv
  BY DEF Init, WritingInv, OrderedHistory
<1>3. ReadingInv
  BY DEF Init, ReadingInv, Unread, Idle, LegacyPrefix
<1>4. \A p \in Proc : NodesMatch(view[p], applied[p], lines)
  BY DEF Init, NodesMatch, EmptyView
<1> QED
  BY <1>1, <1>2, <1>3, <1>4 DEF ReplayInv

\* Every step keeps the invariant: a write of any process, or a step of its replay.
LEMMA NextReplay ==
  ASSUME OrderedHistory, ReplayInv, [Next]_vars
  PROVE  ReplayInv'
<1>1. CASE UNCHANGED vars
  BY <1>1 DEF vars, ReplayInv, TypeOK, WritingInv, ReadingInv, Unread
<1>2. ASSUME NEW p \in Proc, Write(p) PROVE ReplayInv'
  <2>1. ASSUME NEW n \in Node, AddNode(p, n) PROVE ReplayInv'
    BY <2>1, AppendKeepsInv DEF AddNode, OrderedHistory, IsAddOf
  <2>2. ASSUME NEW n \in Node, UpdateNode(p, n) PROVE ReplayInv'
    BY <2>2, AppendKeepsInv DEF UpdateNode
  <2>3. ASSUME NEW n \in Node, RemoveNode(p, n) PROVE ReplayInv'
    BY <2>3, AppendKeepsInv DEF RemoveNode
  <2>4. ASSUME NEW k \in Edge, AddEdge(p, k) PROVE ReplayInv'
    BY <2>4, AppendKeepsInv DEF AddEdge
  <2>5. ASSUME NEW k \in Edge, RemoveEdge(p, k) PROVE ReplayInv'
    BY <2>5, AppendKeepsInv DEF RemoveEdge
  <2> QED
    BY <1>2, <2>1, <2>2, <2>3, <2>4, <2>5 DEF Write
<1>3. ASSUME NEW p \in Proc, Replay(p) PROVE ReplayInv'
  BY <1>3, ReplayKeepsInv
<1> QED
  BY <1>1, <1>2, <1>3 DEF Next

\* The inductive invariant holds in every reachable state, when ids are minted
\* once and the legacy journal was written in order.
THEOREM ReplayInvariant ==
  ASSUME OrderedHistory
  PROVE  Spec => []ReplayInv
BY InitReplay, NextReplay, PTL DEF Spec

\* A removal wins over its node for good, for any number of processes, nodes,
\* lines, rebuilds and restarts ("the removal still wins once the node appears").
THEOREM RemovalAlwaysWins ==
  ASSUME OrderedHistory
  PROVE  Spec => []RemovalWins
<1>1. ReplayInv => RemovalWins
  BY DEF ReplayInv, NodesMatch, RemovalWins
<1> QED
  BY <1>1, ReplayInvariant, PTL

-----------------------------------------------------------------------------
(* Edits and edges.  The two properties speak of a settled process, but     *)
(* lines also wait: an edit of a node, or an edge between nodes, that was   *)
(* met before them.  The invariant says what the graph reflects of the      *)
(* lines that do not wait, and when a line may still be waiting.            *)

\* Edits and edges are written about nodes that were added, and no two lines rank the
\* same: what a writer keeps, and what is asked of the legacy journal.
EditsFollow(L) ==
  \A e \in L :
    /\ e.action = "update_node" => \E d \in L : IsAddOf(d, e.id)
    /\ e.action = "add_edge" => \A i \in 1 .. 2 : \E d \in L : IsAddOf(d, e.id[i])
StampsUnique(L) == \A d, e \in L : d.stamp = e.stamp => d = e

WellWrittenHistory ==
  OrderedHistory /\ EditsFollow(LegacyLines) /\ StampsUnique(LegacyLines)

\* The lines a process has met and does not keep waiting.
Met(p) == applied[p] \ pending[p]

IsEditOf(e, n) == e.action \in {"add_node", "update_node"} /\ e.id = n
IsDecisionOn(e, k) == e.action \in EdgeAction /\ e.id = k

\* A live node shows the newest edit among the lines M; a node that is not there shows
\* none, and unless it was removed none was met.
FieldMatches(v, M, n) ==
  /\ n \in v.nodes =>
       /\ \E d \in M : IsEditOf(d, n) /\ d.stamp = v.field[n]
       /\ \A d \in M : IsEditOf(d, n) => d.stamp <= v.field[n]
  /\ n \notin v.nodes =>
       /\ v.field[n] = 0
       /\ v.tomb[n] = 0 => \A d \in M : ~IsEditOf(d, n)

FieldsMatch(v, M) == \A n \in Node : FieldMatches(v, M, n)

\* The stamp of an edge is the newest decision among M; the edge is drawn when that
\* decision drew it, unless one of its nodes was removed since.
EdgeMatches(v, M, k) ==
  /\ \A d \in M : IsDecisionOn(d, k) => d.stamp <= v.edgeStamp[k]
  /\ v.edgeStamp[k] # 0 => \E d \in M : IsDecisionOn(d, k) /\ d.stamp = v.edgeStamp[k]
  /\ k \in v.edges =>
       /\ EndpointsIn(v, k)
       /\ \E d \in M : d.action = "add_edge" /\ d.id = k /\ d.stamp = v.edgeStamp[k]
  /\ \A d \in M :
       d.action = "add_edge" /\ d.id = k /\ d.stamp = v.edgeStamp[k] =>
         k \in v.edges \/ v.tomb[k[1]] # 0 \/ v.tomb[k[2]] # 0

EdgesMatch(v, M) == \A k \in Edge : EdgeMatches(v, M, k)

\* What line e waits for is not there.
StillWaits(v, e) ==
  /\ e.action = "update_node" => e.id \notin v.nodes
  /\ e.action = "add_edge" => ~EndpointsIn(v, e.id)

\* Between two passes every pending line waits for something that is not there, and in
\* a retry round every pending line that was tried in it does; no line is read twice.
WaitingInv ==
  \A p \in Proc :
    /\ pending[p] \subseteq read[p]
    /\ Unread(p) \cap read[p] = {}
    /\ pass[p].phase # "read" => \A e \in pending[p] \ pass[p].todo : StillWaits(view[p], e)

EditInv ==
  /\ ReplayInv
  /\ EditsFollow(lines) /\ StampsUnique(lines)
  /\ WaitingInv
  /\ \A p \in Proc : FieldsMatch(view[p], Met(p)) /\ EdgesMatch(view[p], Met(p))

\* What an add_node line does: nothing when the node was removed, else the node is there
\* with the newer of the two edits (_apply_add_node; no id is minted twice).
LEMMA AddOutcome ==
  ASSUME NEW L \in SUBSET Line, NEW A \in SUBSET L, NEW e \in L, NEW v \in View,
         AddsUnique(L), NodesMatch(v, A, L), e.action = "add_node"
  PROVE  \/ v.tomb[e.id] # 0 /\ e.id \notin v.nodes /\ Apply(v, e) = v
         \/ v.tomb[e.id] = 0 /\ Apply(v, e) = MergeAdd(v, e)
<1>0. /\ e \in Line /\ e.id \in Node /\ e.stamp \in Nat \ {0}
      /\ v.tomb[e.id] \in Nat
  BY DEF View
<1>1. CASE v.tomb[e.id] # 0
  <2>1. e.stamp < v.tomb[e.id] /\ e.id \notin v.nodes
    BY <1>0, <1>1 DEF NodesMatch, IsAddOf
  <2> QED
    BY <1>0, <1>1, <2>1 DEF Apply, ApplyAddNode
<1>2. CASE v.tomb[e.id] = 0
  <2>1. ~Collides(v, e)
    BY <1>0 DEF NodesMatch, AddsUnique, Collides, IsAddOf
  <2> QED
    BY <1>0, <1>2, <2>1 DEF Apply, ApplyAddNode
<1> QED
  BY <1>1, <1>2

\* A line that does not touch what is known of a node leaves it matched: it is no edit
\* of the node, or the node was removed (the early returns of _apply).
LEMMA FieldUntouched ==
  ASSUME NEW v, NEW w, NEW M, NEW e, NEW n, FieldMatches(v, M, n),
         n \in w.nodes <=> n \in v.nodes,
         w.field[n] = v.field[n], w.tomb[n] = v.tomb[n],
         ~IsEditOf(e, n) \/ (n \notin v.nodes /\ v.tomb[n] # 0)
  PROVE  FieldMatches(w, M \cup {e}, n)
BY DEF FieldMatches

\* Applying a line that need not wait keeps the newest edit of every node, in whatever
\* order the lines come (_apply_add_node, _apply_update_node, _apply_remove_node).
LEMMA ApplyFields ==
  ASSUME NEW L \in SUBSET Line, NEW A \in SUBSET L, NEW M \in SUBSET A, NEW e \in L,
         NEW v \in View, AddsUnique(L), NodesMatch(v, A, L), FieldsMatch(v, M),
         ~Deferred(v, e)
  PROVE  FieldsMatch(Apply(v, e), M \cup {e})
<1>0. /\ e.stamp \in Nat \ {0} /\ \A d \in M : d.stamp \in Nat
      /\ \A n \in Node : FieldMatches(v, M, n) /\ v.field[n] \in Nat /\ v.tomb[n] \in Nat
  BY LineIds DEF View, FieldsMatch
<1>1. SUFFICES ASSUME NEW n \in Node PROVE FieldMatches(Apply(v, e), M \cup {e}, n)
  BY DEF FieldsMatch
<1> DEFINE w == Apply(v, e)
<1>2. CASE e.action = "add_node"
  <2>0. e.id \in Node
    BY <1>2, LineIds
  <2>1. CASE v.tomb[e.id] # 0 /\ e.id \notin v.nodes /\ Apply(v, e) = v
    BY <1>0, <1>2, <2>1, FieldUntouched DEF IsEditOf
  <2>2. CASE v.tomb[e.id] = 0 /\ Apply(v, e) = MergeAdd(v, e)
    <3>1. /\ w.nodes = v.nodes \cup {e.id} /\ w.tomb[n] = v.tomb[n]
          /\ w.field[e.id] = Newest(e.stamp, v.field[e.id])
          /\ n # e.id => w.field[n] = v.field[n]
      BY <1>2, <2>0, <2>2 DEF MergeAdd, View
    <3> HIDE DEF w
    <3>2. CASE n # e.id
      BY <1>0, <3>1, <3>2, FieldUntouched DEF w, IsEditOf
    <3>3. CASE n = e.id
      <4>1. n \in w.nodes /\ IsEditOf(e, n)
        BY <1>2, <3>1, <3>3 DEF IsEditOf
      <4>2. CASE n \in v.nodes
        BY <1>0, <3>1, <3>3, <4>1, <4>2 DEF w, FieldMatches, Newest
      <4>3. CASE n \notin v.nodes
        BY <1>0, <2>2, <3>1, <3>3, <4>1, <4>3 DEF w, FieldMatches, Newest
      <4> QED
        BY <4>2, <4>3
    <3> QED
      BY <3>2, <3>3
  <2> QED
    BY <1>2, <2>1, <2>2, AddOutcome
<1>3. CASE e.action = "update_node"
  <2>0. e.id \in Node
    BY <1>3, LineIds
  <2>1. CASE e.id \notin v.nodes
    <3>1. Apply(v, e) = v
      BY <1>3, <2>1 DEF Apply, ApplyUpdateNode
    <3>2. v.tomb[e.id] # 0
      BY <1>0, <1>3, <2>0, <2>1 DEF Deferred
    <3> QED
      BY <1>0, <1>3, <2>1, <3>1, <3>2, FieldUntouched DEF IsEditOf
  <2>2. CASE e.id \in v.nodes
    <3>1. /\ w.nodes = v.nodes /\ w.tomb = v.tomb
          /\ w.field[e.id] = Newest(e.stamp, v.field[e.id])
          /\ n # e.id => w.field[n] = v.field[n]
      BY <1>3, <2>0, <2>2 DEF Apply, ApplyUpdateNode, View
    <3> HIDE DEF w
    <3>2. CASE n # e.id
      BY <1>0, <3>1, <3>2, FieldUntouched DEF w, IsEditOf
    <3>3. CASE n = e.id
      <4>1. n \in w.nodes /\ n \in v.nodes /\ IsEditOf(e, n)
        BY <1>3, <2>2, <3>1, <3>3 DEF IsEditOf
      <4> QED
        BY <1>0, <3>1, <3>3, <4>1 DEF w, FieldMatches, Newest
    <3> QED
      BY <3>2, <3>3
  <2> QED
    BY <2>1, <2>2
<1>4. CASE e.action \in EdgeAction
  <2>1. w.nodes = v.nodes /\ w.tomb = v.tomb /\ w.field = v.field
    BY <1>4 DEF Apply, ApplyAddEdge, ApplyRemoveEdge, View
  <2> HIDE DEF w
  <2> QED
    BY <1>0, <1>4, <2>1, FieldUntouched DEF w, IsEditOf
<1>5. CASE e.action = "remove_node"
  <2>0. e.id \in Node
    BY <1>5, LineIds
  <2>1. CASE RemovalRefused(v, e)
    <3>1. Apply(v, e) = v
      BY <1>5, <2>1 DEF Apply, ApplyRemoveNode
    <3> QED
      BY <1>0, <1>5, <3>1, FieldUntouched DEF IsEditOf
  <2>2. CASE ~RemovalRefused(v, e)
    <3>1. /\ w.nodes = v.nodes \ {e.id} /\ w.field[e.id] = 0 /\ w.tomb[e.id] = e.stamp
          /\ n # e.id => w.field[n] = v.field[n] /\ w.tomb[n] = v.tomb[n]
      BY <1>5, <2>0, <2>2 DEF Apply, ApplyRemoveNode, View
    <3> HIDE DEF w
    <3>2. CASE n # e.id
      BY <1>0, <3>1, <3>2, FieldUntouched DEF w, IsEditOf
    <3>3. CASE n = e.id
      BY <1>0, <3>1, <3>3 DEF w, FieldMatches
    <3> QED
      BY <3>2, <3>3
  <2> QED
    BY <2>1, <2>2
<1> QED
  BY LineIds, <1>2, <1>3, <1>4, <1>5

\* A line that changes no decision about an edge leaves the edge matched: it is no
\* decision about it, or an older one; nodes may come, and go with their edges.
LEMMA EdgeUntouched ==
  ASSUME NEW v, NEW w, NEW M, NEW e, NEW k, EdgeMatches(v, M, k),
         w.edgeStamp[k] = v.edgeStamp[k],
         k \in w.edges => k \in v.edges /\ EndpointsIn(w, k),
         k \in v.edges => k \in w.edges \/ w.tomb[k[1]] # 0 \/ w.tomb[k[2]] # 0,
         v.tomb[k[1]] # 0 => w.tomb[k[1]] # 0,
         v.tomb[k[2]] # 0 => w.tomb[k[2]] # 0,
         IsDecisionOn(e, k) => /\ e.stamp <= v.edgeStamp[k]
                               /\ e.stamp = v.edgeStamp[k] => e \in M
  PROVE  EdgeMatches(w, M \cup {e}, k)
BY DEF EdgeMatches, IsDecisionOn, EdgeAction

\* Applying a line that need not wait keeps the newest decision about every edge
\* (_apply_add_edge, _apply_remove_edge; a removed node takes its edges along).
LEMMA ApplyEdges ==
  ASSUME NEW L \in SUBSET Line, NEW A \in SUBSET L, NEW M \in SUBSET A, NEW e \in L,
         NEW v \in View, AddsUnique(L), StampsUnique(L), NodesMatch(v, A, L),
         EdgesMatch(v, M), ~Deferred(v, e)
  PROVE  EdgesMatch(Apply(v, e), M \cup {e})
<1> DEFINE w == Apply(v, e)
<1>1. SUFFICES ASSUME NEW k \in Edge PROVE EdgeMatches(w, M \cup {e}, k)
  BY DEF EdgesMatch
<1>0. /\ e \in Line /\ e.stamp \in Nat \ {0} /\ \A d \in M : d.stamp \in Nat \ {0}
      /\ v.edgeStamp[k] \in Nat
      /\ EdgeMatches(v, M, k) /\ k[1] \in Node /\ k[2] \in Node
  BY LineIds, EdgeAssumption DEF View, EdgesMatch
<1>2. e.action \notin EdgeAction => ~IsDecisionOn(e, k)
  BY DEF IsDecisionOn
<1>3. k \in v.edges => EndpointsIn(v, k)
  BY <1>0 DEF EdgeMatches
<1>4. CASE e.action \in {"add_node", "update_node"}
  <2>1. /\ v.nodes \subseteq w.nodes /\ w.tomb = v.tomb
        /\ w.edges = v.edges /\ w.edgeStamp = v.edgeStamp
    <3>1. CASE e.action = "add_node"
      <4>0. e.id \in Node
        BY <3>1, LineIds
      <4>1. v.tomb[e.id] = 0 => /\ MergeAdd(v, e).nodes = v.nodes \cup {e.id}
                               /\ MergeAdd(v, e).tomb = v.tomb
                               /\ MergeAdd(v, e).edges = v.edges
                               /\ MergeAdd(v, e).edgeStamp = v.edgeStamp
        BY <4>0 DEF MergeAdd, View
      <4> QED
        BY <3>1, <4>1, AddOutcome
    <3>2. CASE e.action = "update_node"
      BY <3>2 DEF Apply, ApplyUpdateNode, View
    <3> QED
      BY <1>4, <3>1, <3>2
  <2>2. ~IsDecisionOn(e, k)
    BY <1>2, <1>4
  <2>3. k \in v.edges => EndpointsIn(w, k)
    BY <1>3, <2>1 DEF EndpointsIn
  <2> HIDE DEF w
  <2> QED
    BY <1>0, <2>1, <2>2, <2>3, EdgeUntouched
<1>5. CASE e.action = "remove_node"
  <2>0. e.id \in Node /\ ~IsDecisionOn(e, k)
    BY <1>2, <1>5, LineIds
  <2>1. CASE RemovalRefused(v, e)
    <3>1. w = v
      BY <1>5, <2>1 DEF Apply, ApplyRemoveNode
    <3> HIDE DEF w
    <3> QED
      BY <1>0, <1>3, <2>0, <3>1, EdgeUntouched
  <2>2. CASE ~RemovalRefused(v, e)
    <3>1. /\ w.nodes = v.nodes \ {e.id} /\ w.edges = {j \in v.edges : e.id # j[1] /\ e.id # j[2]}
          /\ w.tomb = [v.tomb EXCEPT ![e.id] = e.stamp] /\ w.edgeStamp = v.edgeStamp
      BY <1>5, <2>2 DEF Apply, ApplyRemoveNode, View
    <3>2. v.tomb \in [Node -> Nat]
      BY DEF View
    <3> HIDE DEF w
    <3>3. k \in w.edges => k \in v.edges /\ EndpointsIn(w, k)
      BY <1>3, <3>1 DEF EndpointsIn
    <3>4. k \in v.edges => k \in w.edges \/ w.tomb[k[1]] # 0 \/ w.tomb[k[2]] # 0
      BY <1>0, <2>0, <3>1, <3>2
    <3>5. (v.tomb[k[1]] # 0 => w.tomb[k[1]] # 0) /\ (v.tomb[k[2]] # 0 => w.tomb[k[2]] # 0)
      BY <1>0, <2>0, <3>1, <3>2
    <3> QED
      BY <1>0, <2>0, <3>1, <3>3, <3>4, <3>5, EdgeUntouched
  <2> QED
    BY <2>1, <2>2
<1>6. CASE e.action \in EdgeAction /\ e.stamp <= v.edgeStamp[e.id]
  <2>1. w = v
    BY <1>6 DEF Apply, ApplyAddEdge, ApplyRemoveEdge, EdgeAction
  <2> HIDE DEF w
  <2>2. IsDecisionOn(e, k) /\ e.stamp = v.edgeStamp[k] => e \in M
    BY <1>0 DEF EdgeMatches, StampsUnique
  <2>3. IsDecisionOn(e, k) => e.stamp <= v.edgeStamp[k]
    BY <1>6 DEF IsDecisionOn
  <2> QED
    BY <1>0, <1>3, <2>1, <2>2, <2>3, EdgeUntouched
<1>7. CASE e.action \in EdgeAction /\ ~(e.stamp <= v.edgeStamp[e.id])
  <2>0. e.id \in Edge
    BY <1>7, LineIds
  <2>1. e.action = "add_edge" => EndpointsIn(v, e.id)
    BY <1>0, <1>7, <2>0 DEF Deferred, View
  <2>2. /\ w.nodes = v.nodes /\ w.tomb = v.tomb
        /\ w.edgeStamp = [v.edgeStamp EXCEPT ![e.id] = e.stamp]
        /\ e.action = "add_edge" => w.edges = v.edges \cup {e.id}
        /\ e.action = "remove_edge" => w.edges = v.edges \ {e.id}
    BY <1>7, <2>1 DEF Apply, ApplyAddEdge, ApplyRemoveEdge, View, EdgeAction
  <2>3. v.edgeStamp \in [Edge -> Nat]
    BY DEF View
  <2>4. e.action \in {"add_edge", "remove_edge"}
    BY <1>7 DEF EdgeAction
  <2> HIDE DEF w
  <2>5. CASE k # e.id
    <3>1. ~IsDecisionOn(e, k) /\ w.edgeStamp[k] = v.edgeStamp[k]
      BY <2>2, <2>3, <2>5 DEF IsDecisionOn
    <3>2. k \in w.edges <=> k \in v.edges
      BY <2>2, <2>4, <2>5
    <3>3. k \in w.edges => EndpointsIn(w, k)
      BY <1>3, <2>2, <3>2 DEF EndpointsIn
    <3> QED
      BY <1>0, <2>2, <3>1, <3>2, <3>3, EdgeUntouched
  <2>6. CASE k = e.id
    <3>1. w.edgeStamp[k] = e.stamp /\ IsDecisionOn(e, k)
      BY <1>7, <2>0, <2>2, <2>3, <2>6 DEF IsDecisionOn
    <3>2. \A d \in M : IsDecisionOn(d, k) => d.stamp < e.stamp
      BY <1>0, <1>7, <2>6 DEF EdgeMatches
    <3>3. k \in w.edges <=> e.action = "add_edge"
      BY <2>2, <2>4, <2>6
    <3>4. k \in w.edges => EndpointsIn(w, k)
      BY <2>1, <2>2, <2>6, <3>3 DEF EndpointsIn
    <3>5. \A d \in M \cup {e} : d.action = "add_edge" /\ d.id = k /\ d.stamp = e.stamp => d = e
      BY <1>0, <3>2 DEF IsDecisionOn, EdgeAction
    <3>6. \A d \in M \cup {e} : IsDecisionOn(d, k) => d.stamp <= e.stamp
      BY <1>0, <3>2
    <3> QED
      BY <2>6, <3>1, <3>3, <3>4, <3>5, <3>6 DEF EdgeMatches
  <2> QED
    BY <2>5, <2>6
<1> QED
  BY <1>4, <1>5, <1>6, <1>7, LineIds DEF NodeAction

\* A line that has to wait changes nothing, and was not met before as one that need not:
\* an edge decision that is newer than all met, or an edit of a node that is not there.
LEMMA DeferredMatches ==
  ASSUME NEW L \in SUBSET Line, NEW A \in SUBSET L, NEW M \in SUBSET A, NEW e \in L,
         NEW v \in View, FieldsMatch(v, M), EdgesMatch(v, M),
         Deferred(v, e), e.action \in {"update_node", "add_edge"}
  PROVE  /\ Apply(v, e) = v
         /\ FieldsMatch(v, M \ {e}) /\ EdgesMatch(v, M \ {e})
         /\ StillWaits(v, e)
<1>1. CASE e.action = "update_node"
  <2>1. Apply(v, e) = v /\ e.id \notin v.nodes
    BY <1>1 DEF Apply, ApplyUpdateNode, Deferred
  <2>2. FieldsMatch(v, M \ {e})
    <3> SUFFICES ASSUME NEW n \in Node PROVE FieldMatches(v, M \ {e}, n)
      BY DEF FieldsMatch
    <3>1. FieldMatches(v, M, n)
      BY DEF FieldsMatch
    <3> QED
      BY <2>1, <3>1 DEF FieldMatches, IsEditOf
  <2>3. EdgesMatch(v, M \ {e})
    <3> SUFFICES ASSUME NEW k \in Edge PROVE EdgeMatches(v, M \ {e}, k)
      BY DEF EdgesMatch
    <3>1. EdgeMatches(v, M, k)
      BY DEF EdgesMatch
    <3> QED
      BY <1>1, <3>1 DEF EdgeMatches, IsDecisionOn, EdgeAction
  <2> QED
    BY <1>1, <2>1, <2>2, <2>3 DEF StillWaits
<1>2. CASE e.action = "add_edge"
  <2>0. e.id \in Edge /\ e.stamp \in Nat /\ v.edgeStamp[e.id] \in Nat
    BY <1>2, LineIds DEF View, EdgeAction
  <2>1. Apply(v, e) = v /\ ~EndpointsIn(v, e.id) /\ e.stamp > v.edgeStamp[e.id]
    BY <1>2 DEF Apply, ApplyAddEdge, Deferred
  <2>2. e \notin M
    BY <1>2, <2>0, <2>1 DEF EdgesMatch, EdgeMatches, IsDecisionOn, EdgeAction
  <2>3. M \ {e} = M
    BY <2>2
  <2> QED
    BY <1>2, <2>1, <2>3 DEF StillWaits
<1> QED
  BY <1>1, <1>2

\* A line about a node changes which nodes are there only when it adds or removes one.
LEMMA ApplyNodes ==
  ASSUME NEW v \in View, NEW e \in Line
  PROVE  /\ e.action = "add_node" => Apply(v, e).nodes \subseteq v.nodes \cup {e.id}
         /\ e.action # "add_node" => Apply(v, e).nodes \subseteq v.nodes
<1>1. CASE e.action = "add_node"
  <2>1. MergeAdd(v, e).nodes = v.nodes \cup {e.id}
    BY DEF MergeAdd, View
  <2>2. KeepEarlierWhole(v, e).nodes = v.nodes
    BY DEF KeepEarlierWhole, View
  <2> QED
    BY <1>1, <2>1, <2>2 DEF Apply, ApplyAddNode
<1>2. CASE e.action # "add_node"
  BY <1>2, LineIds DEF Apply, ApplyUpdateNode, ApplyRemoveNode, ApplyAddEdge,
                       ApplyRemoveEdge, View, NodeAction, EdgeAction
<1> QED
  BY <1>1, <1>2

\* What is not there is still waited for when no node that an edit or an edge among
\* the lines is about comes to be there.
LEMMA WaitsOn ==
  ASSUME NEW L \in SUBSET Line, NEW d \in L, NEW v, NEW w, StillWaits(v, d),
         \A n \in Node : n \in w.nodes /\ n \notin v.nodes =>
           (d.action = "update_node" => d.id # n)
           /\ (d.action = "add_edge" => d.id[1] # n /\ d.id[2] # n)
  PROVE  StillWaits(w, d)
<1>1. /\ d.action = "update_node" => d.id \in Node
      /\ d.action = "add_edge" => d.id[1] \in Node /\ d.id[2] \in Node
  BY LineIds, EdgeAssumption DEF NodeAction, EdgeAction
<1> QED
  BY <1>1 DEF StillWaits, EndpointsIn

\* A write keeps the invariant: it edits a node its writer shows, never one that an
\* edit or an edge was already written about, and ranks after what it must beat.
LEMMA AppendKeepsEdits ==
  ASSUME EditInv, ReplayInv', NEW p \in Proc, NEW action, NEW id,
         \/ action \in NodeAction /\ id \in Node
         \/ action \in EdgeAction /\ id \in Edge,
         action = "add_node" => ~ \E d \in lines : IsAddOf(d, id),
         action = "update_node" => id \in view[p].nodes,
         action = "add_edge" => EndpointsIn(view[p], id),
         Append(p, action, id)
  PROVE  EditInv'
<1> PICK s \in FirstShardStamp .. MaxStamp :
      /\ \A e \in lines : e.stamp # s
      /\ LET e == [action |-> action, id |-> id, stamp |-> s, file |-> ShardOf[p]]
         IN /\ lines' = lines \cup {e}
            /\ view' = [view EXCEPT ![p] = Apply(@, e)]
            /\ applied' = [applied EXCEPT ![p] = @ \cup {e}]
  BY DEF Append
<1> DEFINE e == [action |-> action, id |-> id, stamp |-> s, file |-> ShardOf[p]]
<1>1. e \in Line /\ s \in Nat
  BY NewLineType
<1>2. /\ e.action = action /\ e.id = id /\ e.stamp = s /\ ~IsLegacy(e)
      /\ \A d \in lines : d.stamp # e.stamp
  BY TierAssumption, BoundAssumption DEF IsLegacy
<1>3. UNCHANGED <<read, pending, pass>> /\ pass[p] = Idle
  BY DEF Append
<1>4. /\ lines' = lines \cup {e}
      /\ view' = [view EXCEPT ![p] = Apply(@, e)]
      /\ applied' = [applied EXCEPT ![p] = @ \cup {e}]
  OBVIOUS
<1> HIDE DEF e
<1>5. /\ lines \in SUBSET Line /\ applied[p] \in SUBSET lines /\ view[p] \in View
      /\ NodesMatch(view[p], applied[p], lines) /\ e \notin lines
      /\ view \in [Proc -> View] /\ applied \in [Proc -> SUBSET Line]
      /\ pending[p] \subseteq applied[p]
  BY <1>2 DEF EditInv, ReplayInv, ReadingInv, TypeOK
<1>6. /\ lines' \in SUBSET Line /\ applied[p] \in SUBSET lines'
      /\ AddsUnique(lines') /\ NodesMatch(view[p], applied[p], lines')
  <2>1. lines' \in SUBSET Line /\ AddsUnique(lines')
    BY <1>1, <1>4, <1>5 DEF ReplayInv, WritingInv
  <2>2. RemovalsFollow(lines)
    BY DEF EditInv, ReplayInv, WritingInv
  <2> QED
    BY <1>1, <1>2, <1>4, <1>5, <2>1, <2>2, NewLineMatches
<1>7. ~Deferred(view[p], e)
  BY <1>2 DEF Deferred
<1>8. StampsUnique(lines')
  BY <1>2, <1>4 DEF EditInv, StampsUnique
<1>9. EditsFollow(lines')
  <2>1. ASSUME NEW n \in Node, n \in view[p].nodes PROVE \E d \in lines' : IsAddOf(d, n)
    BY <1>4, <1>5, <2>1 DEF NodesMatch
  <2>2. action = "update_node" => \E d \in lines' : IsAddOf(d, id)
    BY <2>1 DEF NodeAction, EdgeAction
  <2>3. action = "add_edge" => \A i \in 1 .. 2 : \E d \in lines' : IsAddOf(d, id[i])
    <3> SUFFICES ASSUME action = "add_edge", NEW i \in 1 .. 2
                 PROVE  \E d \in lines' : IsAddOf(d, id[i])
      OBVIOUS
    <3>1. id[1] \in Node /\ id[2] \in Node /\ (i = 1 \/ i = 2)
      BY EdgeAssumption DEF NodeAction, EdgeAction
    <3> QED
      BY <2>1, <3>1 DEF EndpointsIn
  <2>4. EditsFollow(lines)
    BY DEF EditInv
  <2> QED
    BY <1>2, <1>4, <2>2, <2>3, <2>4 DEF EditsFollow
<1>10. /\ view'[p] = Apply(view[p], e) /\ Met(p)' = Met(p) \cup {e}
       /\ \A o \in Proc \ {p} : view'[o] = view[o] /\ Met(o)' = Met(o)
  BY <1>3, <1>4, <1>5 DEF Met
<1>11. /\ Met(p) \in SUBSET applied[p] /\ e \in lines'
       /\ FieldsMatch(view[p], Met(p)) /\ EdgesMatch(view[p], Met(p))
  BY <1>4 DEF Met, EditInv
<1>12. FieldsMatch(view'[p], Met(p)') /\ EdgesMatch(view'[p], Met(p)')
  <2>1. FieldsMatch(Apply(view[p], e), Met(p) \cup {e})
    BY <1>5, <1>6, <1>7, <1>11, ApplyFields
  <2>2. EdgesMatch(Apply(view[p], e), Met(p) \cup {e})
    BY <1>5, <1>6, <1>7, <1>8, <1>11, ApplyEdges
  <2> QED
    BY <1>10, <2>1, <2>2
<1>13. WaitingInv'
  <2> SUFFICES ASSUME NEW o \in Proc PROVE WaitingInv!(o)'
    BY DEF WaitingInv
  <2>1. WaitingInv!(o)
    BY DEF EditInv, WaitingInv
  <2>2. CASE o # p
    BY <1>3, <1>10, <2>1, <2>2 DEF Unread
  <2>3. CASE o = p
    <3>1. ASSUME NEW d \in pending[p] PROVE StillWaits(Apply(view[p], e), d)
      <4>1. StillWaits(view[p], d)
        BY <1>3, <2>1, <2>3, <3>1 DEF Idle
      <4>2. d \in lines
        BY <1>5
      <4>3. Apply(view[p], e).nodes \subseteq view[p].nodes \cup {id} \/ action # "add_node"
        BY <1>1, <1>2, <1>5, ApplyNodes
      <4>4. action # "add_node" => Apply(view[p], e).nodes \subseteq view[p].nodes
        BY <1>1, <1>2, <1>5, ApplyNodes
      <4>5. ASSUME NEW n \in Node, n \in Apply(view[p], e).nodes, n \notin view[p].nodes
            PROVE  ~ \E c \in lines : IsAddOf(c, n)
        BY <4>3, <4>4, <4>5
      <4>6. /\ d.action = "update_node" => \E c \in lines : IsAddOf(c, d.id)
            /\ d.action = "add_edge" => \E c \in lines : IsAddOf(c, d.id[1])
            /\ d.action = "add_edge" => \E c \in lines : IsAddOf(c, d.id[2])
        BY <4>2 DEF EditInv, EditsFollow
      <4> QED
        BY <1>5, <4>1, <4>2, <4>5, <4>6, WaitsOn
    <3> QED
      BY <1>3, <1>10, <2>1, <2>3, <3>1 DEF Unread
  <2> QED
    BY <2>2, <2>3
<1>14. ASSUME NEW o \in Proc
       PROVE  FieldsMatch(view'[o], Met(o)') /\ EdgesMatch(view'[o], Met(o)')
  BY <1>10, <1>12 DEF EditInv
<1> QED
  BY <1>8, <1>9, <1>13, <1>14 DEF EditInv

\* A line met or retried keeps what the process shows true to what it has met: it is
\* applied, or it has to wait and changes nothing.
LEMMA MeetingKeepsEdits ==
  ASSUME EditInv, NEW p \in Proc, NEW e \in lines,
         Deferred(view[p], e) => e.action \in {"update_node", "add_edge"}
  PROVE  LET w == Apply(view[p], e)
         IN /\ ~Deferred(view[p], e) =>
                 FieldsMatch(w, Met(p) \cup {e}) /\ EdgesMatch(w, Met(p) \cup {e})
            /\ Deferred(view[p], e) =>
                 /\ w = view[p] /\ StillWaits(view[p], e)
                 /\ FieldsMatch(w, Met(p) \ {e}) /\ EdgesMatch(w, Met(p) \ {e})
<1>1. /\ lines \in SUBSET Line /\ applied[p] \in SUBSET lines /\ view[p] \in View
      /\ AddsUnique(lines) /\ StampsUnique(lines)
      /\ NodesMatch(view[p], applied[p], lines)
      /\ Met(p) \in SUBSET applied[p]
      /\ FieldsMatch(view[p], Met(p)) /\ EdgesMatch(view[p], Met(p))
  BY DEF EditInv, ReplayInv, ReadingInv, WritingInv, TypeOK, Met
<1>2. CASE ~Deferred(view[p], e)
  BY <1>1, <1>2, ApplyFields, ApplyEdges
<1>3. CASE Deferred(view[p], e)
  BY <1>1, <1>3, DeferredMatches
<1> QED
  BY <1>2, <1>3

\* Every step of a pass, a rebuild and a restart keeps the invariant.
LEMMA ReplayKeepsEdits ==
  ASSUME EditInv, ReplayInv', NEW p \in Proc, Replay(p)
  PROVE  EditInv'
<1>0. /\ view \in [Proc -> View] /\ applied \in [Proc -> SUBSET Line]
      /\ read \in [Proc -> SUBSET Line] /\ pending \in [Proc -> SUBSET Line]
      /\ pass \in [Proc -> [phase : {"idle", "read", "retry"}, todo : SUBSET Line,
                            round : Nat, progressed : BOOLEAN]]
      /\ lines \subseteq Line
  BY DEF EditInv, ReplayInv, TypeOK
<1>1. lines' = lines
  BY DEF Replay, BeginPass, Rebuild, HardReset, Consume, BeginRetry, RetryOne, EndRound
<1>2. ASSUME WaitingInv',
             \A o \in Proc : FieldsMatch(view'[o], Met(o)') /\ EdgesMatch(view'[o], Met(o)')
      PROVE  EditInv'
  BY <1>1, <1>2 DEF EditInv
<1>3. ASSUME view' = view, \A o \in Proc : Met(o)' = Met(o)
      PROVE  \A o \in Proc : FieldsMatch(view'[o], Met(o)') /\ EdgesMatch(view'[o], Met(o)')
  BY <1>3 DEF EditInv
<1>4. \A o \in Proc :
        /\ pending[o] \subseteq read[o] /\ Unread(o) \cap read[o] = {}
        /\ pass[o].phase # "read" => \A e \in pending[o] \ pass[o].todo : StillWaits(view[o], e)
  BY DEF EditInv, WaitingInv
<1>5. CASE BeginPass(p)
  <2>1. view' = view /\ \A o \in Proc : Met(o)' = Met(o)
    BY <1>5 DEF BeginPass, Met
  <2>2. WaitingInv'
    BY <1>0, <1>4, <1>5 DEF BeginPass, WaitingInv, Unread, Reading, Idle
  <2> QED
    BY <1>2, <1>3, <2>1, <2>2
<1>6. CASE Rebuild(p)
  <2>1. view' = view /\ \A o \in Proc : Met(o)' = Met(o)
    BY <1>0, <1>6 DEF Rebuild, Met
  <2>2. WaitingInv'
    BY <1>0, <1>4, <1>6 DEF Rebuild, WaitingInv, Unread, Reading
  <2> QED
    BY <1>2, <1>3, <2>1, <2>2
<1>7. CASE HardReset(p)
  <2>1. /\ view'[p] = EmptyView /\ Met(p)' = {}
        /\ \A o \in Proc \ {p} : view'[o] = view[o] /\ Met(o)' = Met(o)
    BY <1>0, <1>7 DEF HardReset, Met
  <2>2. FieldsMatch(EmptyView, {}) /\ EdgesMatch(EmptyView, {})
    BY DEF FieldsMatch, FieldMatches, EdgesMatch, EdgeMatches, EmptyView
  <2>3. \A o \in Proc : FieldsMatch(view'[o], Met(o)') /\ EdgesMatch(view'[o], Met(o)')
    BY <2>1, <2>2 DEF EditInv
  <2>4. WaitingInv'
    BY <1>0, <1>4, <1>7, <2>1 DEF HardReset, WaitingInv, Unread, Idle
  <2> QED
    BY <1>2, <2>3, <2>4
<1>8. CASE Consume(p)
  <2> PICK e \in pass[p].todo :
        /\ view' = [view EXCEPT ![p] = Apply(@, e)]
        /\ pending' = IF Deferred(view[p], e)
                        THEN [pending EXCEPT ![p] = @ \cup {e}] ELSE pending
        /\ read' = [read EXCEPT ![p] = @ \cup {e}]
        /\ applied' = [applied EXCEPT ![p] = @ \cup {e}]
        /\ pass' = [pass EXCEPT ![p].todo = @ \ {e}]
    BY <1>8 DEF Consume
  <2>1. e \in Unread(p) /\ e \in lines /\ e \notin read[p] /\ e \notin pending[p]
    BY <1>4, <1>8 DEF Consume, Unread, EditInv, ReplayInv, ReadingInv
  <2>2. /\ view'[p] = Apply(view[p], e)
        /\ ~Deferred(view[p], e) => Met(p)' = Met(p) \cup {e}
        /\ Deferred(view[p], e) => Met(p)' = Met(p) \ {e} /\ e \in pending'[p]
        /\ \A o \in Proc \ {p} : view'[o] = view[o] /\ Met(o)' = Met(o)
    BY <1>0, <2>1 DEF Met
  <2>3. Deferred(view[p], e) => e.action \in {"update_node", "add_edge"}
    BY <2>2 DEF ReplayInv, ReadingInv
  <2>4. FieldsMatch(view'[p], Met(p)') /\ EdgesMatch(view'[p], Met(p)')
    BY <2>1, <2>2, <2>3, MeetingKeepsEdits
  <2>5. \A o \in Proc : FieldsMatch(view'[o], Met(o)') /\ EdgesMatch(view'[o], Met(o)')
    BY <2>2, <2>4 DEF EditInv
  <2>6. WaitingInv'
    <3> SUFFICES ASSUME NEW o \in Proc PROVE WaitingInv!(o)'
      BY DEF WaitingInv
    <3>1. CASE o = p
      <4>1. /\ pass'[p].phase = "read" /\ pass'[p].todo = pass[p].todo \ {e}
            /\ read'[p] = read[p] \cup {e}
            /\ pending'[p] = pending[p] \/ pending'[p] = pending[p] \cup {e}
        BY <1>0, <1>8 DEF Consume
      <4>2. Unread(p) = pass[p].todo
        BY <1>8 DEF Consume, Unread
      <4> QED
        BY <1>4, <3>1, <4>1, <4>2 DEF Unread
    <3>2. CASE o # p
      BY <1>0, <1>4, <2>2, <3>2 DEF Unread
    <3> QED
      BY <3>1, <3>2
  <2> QED
    BY <1>2, <2>5, <2>6
<1>9. CASE BeginRetry(p)
  <2>1. view' = view /\ \A o \in Proc : Met(o)' = Met(o)
    BY <1>9 DEF BeginRetry, Met
  <2>2. WaitingInv'
    BY <1>0, <1>4, <1>9 DEF BeginRetry, WaitingInv, Unread, Retrying, Idle
  <2> QED
    BY <1>2, <1>3, <2>1, <2>2
<1>10. CASE RetryOne(p)
  <2>1. PICK e \in pass[p].todo :
        /\ view' = [view EXCEPT ![p] = Apply(@, e)]
        /\ pass' = [pass EXCEPT ![p] =
                      Retrying(pass[p].todo \ {e}, pass[p].round,
                               pass[p].progressed \/ ~Deferred(view[p], e))]
        /\ pending' = IF Deferred(view[p], e)
                        THEN pending ELSE [pending EXCEPT ![p] = @ \ {e}]
    BY <1>10 DEF RetryOne
  <2>2. pass[p].phase = "retry" /\ UNCHANGED <<read, applied>>
    BY <1>10 DEF RetryOne
  <2>3. /\ e \in pending[p] /\ e \in lines /\ e \in Line /\ e \in applied[p]
        /\ e.action \in {"update_node", "add_edge"}
    BY <2>2 DEF EditInv, ReplayInv, ReadingInv, TypeOK
  <2>4. /\ view'[p] = Apply(view[p], e)
        /\ ~Deferred(view[p], e) => Met(p)' = Met(p) \cup {e}
        /\ Deferred(view[p], e) => Met(p)' = Met(p) \ {e}
        /\ \A o \in Proc \ {p} : view'[o] = view[o] /\ Met(o)' = Met(o)
    <3>1. /\ Deferred(view[p], e) => pending' = pending
          /\ ~Deferred(view[p], e) => pending' = [pending EXCEPT ![p] = @ \ {e}]
      BY <2>1
    <3>2. Deferred(view[p], e) => Met(p)' = Met(p) \ {e}
      BY <2>2, <2>3, <3>1 DEF Met
    <3>3. ~Deferred(view[p], e) => Met(p)' = Met(p) \cup {e}
      BY <1>0, <2>2, <2>3, <3>1 DEF Met
    <3>4. \A o \in Proc \ {p} : view'[o] = view[o] /\ Met(o)' = Met(o)
      BY <1>0, <2>1, <2>2, <3>1 DEF Met
    <3> QED
      BY <1>0, <2>1, <3>2, <3>3, <3>4
  <2>5. FieldsMatch(view'[p], Met(p)') /\ EdgesMatch(view'[p], Met(p)')
    <3>1. e \in lines /\ (Deferred(view[p], e) => e.action \in {"update_node", "add_edge"})
      BY <2>3
    <3>2. /\ ~Deferred(view[p], e) => /\ FieldsMatch(Apply(view[p], e), Met(p) \cup {e})
                                      /\ EdgesMatch(Apply(view[p], e), Met(p) \cup {e})
          /\ Deferred(view[p], e) => /\ FieldsMatch(Apply(view[p], e), Met(p) \ {e})
                                     /\ EdgesMatch(Apply(view[p], e), Met(p) \ {e})
      BY <3>1, MeetingKeepsEdits
    <3> QED
      BY <2>4, <3>2
  <2>6. \A o \in Proc : FieldsMatch(view'[o], Met(o)') /\ EdgesMatch(view'[o], Met(o)')
    BY <2>4, <2>5 DEF EditInv
  <2>7. WaitingInv'
    <3> SUFFICES ASSUME NEW o \in Proc PROVE WaitingInv!(o)'
      BY DEF WaitingInv
    <3>1. CASE o = p
      <4>1. /\ pass'[p].phase = "retry" /\ pass'[p].todo = pass[p].todo \ {e}
            /\ Deferred(view[p], e) => pending'[p] = pending[p]
            /\ ~Deferred(view[p], e) => pending'[p] = pending[p] \ {e}
        BY <1>0, <2>1 DEF Retrying
      <4>2. Apply(view[p], e).nodes \subseteq view[p].nodes
        BY <1>0, <2>3, ApplyNodes
      <4>3. ASSUME NEW d \in pending'[p] \ pass'[p].todo PROVE StillWaits(view'[p], d)
        <5>1. CASE d = e
          BY <2>3, <2>4, <4>1, <4>3, <5>1, MeetingKeepsEdits
        <5>2. CASE d # e
          <6>1. StillWaits(view[p], d)
            BY <1>4, <2>2, <4>1, <4>3, <5>2
          <6>2. d \in pending[p] /\ d \in lines
            BY <4>1, <4>3 DEF EditInv, ReplayInv, ReadingInv
          <6> QED
            BY <1>0, <2>4, <4>2, <6>1, <6>2, WaitsOn
        <5> QED
          BY <5>1, <5>2
      <4>4. read'[p] = read[p] /\ pending'[p] \subseteq pending[p]
        BY <2>2, <4>1
      <4> QED
        BY <1>4, <3>1, <4>1, <4>3, <4>4 DEF Unread
    <3>2. CASE o # p
      BY <1>0, <1>4, <2>1, <2>2, <2>4, <3>2 DEF Unread
    <3> QED
      BY <3>1, <3>2
  <2> QED
    BY <1>2, <2>6, <2>7
<1>11. CASE EndRound(p)
  <2>1. view' = view /\ \A o \in Proc : Met(o)' = Met(o)
    BY <1>11 DEF EndRound, Met
  <2>2. WaitingInv'
    BY <1>0, <1>4, <1>11 DEF EndRound, WaitingInv, Unread, Retrying, Idle
  <2> QED
    BY <1>2, <1>3, <2>1, <2>2
<1> QED
  BY <1>5, <1>6, <1>7, <1>8, <1>9, <1>10, <1>11 DEF Replay

\* The invariant about edits and edges holds in every reachable state, when ids are
\* minted once and the legacy journal was written in order, edits after their nodes.
THEOREM EditInvariant ==
  ASSUME WellWrittenHistory
  PROVE  Spec => []EditInv
<1>1. Init => EditInv
  <2> SUFFICES ASSUME Init, ReplayInv PROVE EditInv
    BY InitReplay DEF WellWrittenHistory
  <2>1. WaitingInv
    BY DEF Init, WaitingInv, Unread, Idle
  <2>2. FieldsMatch(EmptyView, {}) /\ EdgesMatch(EmptyView, {})
    BY DEF FieldsMatch, FieldMatches, EdgesMatch, EdgeMatches, EmptyView
  <2>3. \A p \in Proc : view[p] = EmptyView /\ Met(p) = {}
    BY DEF Init, Met
  <2> QED
    BY <2>1, <2>2, <2>3 DEF Init, EditInv, WellWrittenHistory
<1>2. EditInv /\ [Next]_vars => EditInv'
  <2> SUFFICES ASSUME EditInv, [Next]_vars PROVE EditInv'
    OBVIOUS
  <2>0. ReplayInv'
    BY NextReplay DEF EditInv, WellWrittenHistory
  <2>1. CASE UNCHANGED vars
    BY <2>0, <2>1 DEF vars, EditInv, WaitingInv, Unread, Met
  <2>2. ASSUME NEW p \in Proc, Write(p) PROVE EditInv'
    <3>1. ASSUME NEW n \in Node, AddNode(p, n) PROVE EditInv'
      BY <2>0, <3>1, AppendKeepsEdits DEF AddNode, WellWrittenHistory, OrderedHistory, IsAddOf
    <3>2. ASSUME NEW n \in Node, UpdateNode(p, n) PROVE EditInv'
      BY <2>0, <3>2, AppendKeepsEdits DEF UpdateNode
    <3>3. ASSUME NEW n \in Node, RemoveNode(p, n) PROVE EditInv'
      BY <2>0, <3>3, AppendKeepsEdits DEF RemoveNode
    <3>4. ASSUME NEW k \in Edge, AddEdge(p, k) PROVE EditInv'
      BY <2>0, <3>4, AppendKeepsEdits DEF AddEdge
    <3>5. ASSUME NEW k \in Edge, RemoveEdge(p, k) PROVE EditInv'
      BY <2>0, <3>5, AppendKeepsEdits DEF RemoveEdge
    <3> QED
      BY <2>2, <3>1, <3>2, <3>3, <3>4, <3>5 DEF Write
  <2>3. ASSUME NEW p \in Proc, Replay(p) PROVE EditInv'
    BY <2>0, <2>3, ReplayKeepsEdits
  <2> QED
    BY <2>1, <2>2, <2>3 DEF Next
<1> QED
  BY <1>1, <1>2, PTL DEF Spec

\* What a settled process keeps waiting is an edit or an edge, and what it is about is
\* not there (the outcome "deferred").
LEMMA SettledWait ==
  ASSUME EditInv, NEW p \in Proc, Settled(p)
  PROVE  \A e \in pending[p] : StillWaits(view[p], e) /\ e.action \in {"update_node", "add_edge"}
<1>1. pass[p].phase = "idle" /\ pass[p].todo = {}
  BY DEF Settled, Idle
<1>2. pass[p].phase # "read" => \A e \in pending[p] \ pass[p].todo : StillWaits(view[p], e)
  BY DEF EditInv, WaitingInv
<1>3. \A e \in pending[p] : e.action \in {"update_node", "add_edge"}
  BY DEF EditInv, ReplayInv, ReadingInv
<1> QED
  BY <1>1, <1>2, <1>3

\* No edit is lost: a settled process shows, for a live node, the newest edit it has
\* met, also one that arrived before the node it edits (_apply_update_node, _retry_pending).
LEMMA EditsShow == EditInv => NewestEditShows
<1> SUFFICES ASSUME EditInv, NEW p \in Proc, NEW n \in view[p].nodes, Settled(p)
             PROVE  LET edits == LinesAbout(p, {"add_node", "update_node"}, n)
                    IN /\ \E e \in edits : e.stamp = view[p].field[n]
                       /\ \A e \in edits : e.stamp <= view[p].field[n]
  BY DEF NewestEditShows
<1>1. n \in Node /\ FieldMatches(view[p], Met(p), n)
  BY DEF EditInv, ReplayInv, TypeOK, View, FieldsMatch
<1>2. \A e \in pending[p] : StillWaits(view[p], e) /\ e.action \in {"update_node", "add_edge"}
  BY SettledWait
<1>3. \A e \in applied[p] : IsEditOf(e, n) => e \in Met(p)
  BY <1>2 DEF StillWaits, IsEditOf, Met
<1>4. Met(p) \subseteq applied[p]
  BY DEF Met
<1> QED
  BY <1>1, <1>3, <1>4 DEF LinesAbout, FieldMatches, IsEditOf

\* An edge is drawn exactly when both its nodes are live and the newest decision a settled
\* process has met about it drew it (_apply_add_edge, _apply_remove_edge).
LEMMA EdgesShow == EditInv => NewestEdgeDecisionShows
<1> SUFFICES ASSUME EditInv, NEW p \in Proc, NEW k \in Edge, Settled(p)
             PROVE  LET decisions == LinesAbout(p, EdgeAction, k)
                    IN k \in view[p].edges <=>
                         /\ EndpointsIn(view[p], k)
                         /\ \E e \in decisions :
                              /\ e.action = "add_edge"
                              /\ \A d \in decisions : d.stamp <= e.stamp
  BY DEF NewestEdgeDecisionShows
<1>0. k[1] \in Node /\ k[2] \in Node
  BY EdgeAssumption
<1>1. /\ EdgeMatches(view[p], Met(p), k) /\ Met(p) \subseteq applied[p]
      /\ NodesMatch(view[p], applied[p], lines)
      /\ view[p].edgeStamp[k] \in Nat
      /\ \A d \in applied[p] : d.stamp \in Nat \ {0}
  <2>1. view[p] \in View /\ applied[p] \subseteq Line
    BY DEF EditInv, ReplayInv, TypeOK
  <2>2. view[p].edgeStamp[k] \in Nat
    BY <2>1 DEF View
  <2>3. \A d \in applied[p] : d.stamp \in Nat \ {0}
    BY <2>1, LineIds
  <2>4. EdgeMatches(view[p], Met(p), k) /\ NodesMatch(view[p], applied[p], lines)
    BY DEF EditInv, ReplayInv, EdgesMatch
  <2> QED
    BY <2>2, <2>3, <2>4 DEF Met
<1>2. \A e \in pending[p] : StillWaits(view[p], e) /\ e.action \in {"update_node", "add_edge"}
  BY SettledWait
<1>3. EndpointsIn(view[p], k) => \A e \in applied[p] : IsDecisionOn(e, k) => e \in Met(p)
  BY <1>2 DEF StillWaits, IsDecisionOn, Met, EdgeAction
<1>4. LinesAbout(p, EdgeAction, k) = {e \in applied[p] : IsDecisionOn(e, k)}
  BY DEF LinesAbout, IsDecisionOn
<1>5. ASSUME k \in view[p].edges
      PROVE  /\ EndpointsIn(view[p], k)
             /\ \E e \in applied[p] :
                  /\ IsDecisionOn(e, k) /\ e.action = "add_edge"
                  /\ \A d \in applied[p] : IsDecisionOn(d, k) => d.stamp <= e.stamp
  BY <1>1, <1>3, <1>5 DEF EdgeMatches, IsDecisionOn, EdgeAction
<1>6. ASSUME EndpointsIn(view[p], k),
             NEW e \in applied[p], IsDecisionOn(e, k), e.action = "add_edge",
             \A d \in applied[p] : IsDecisionOn(d, k) => d.stamp <= e.stamp
      PROVE  k \in view[p].edges
  <2>1. e \in Met(p) /\ e.id = k
    BY <1>3, <1>6 DEF IsDecisionOn
  <2>2. e.stamp <= view[p].edgeStamp[k]
    BY <1>1, <1>6, <2>1 DEF EdgeMatches
  <2>3. e.stamp = view[p].edgeStamp[k]
    BY <1>1, <1>6, <2>1, <2>2 DEF EdgeMatches
  <2>4. view[p].tomb[k[1]] = 0 /\ view[p].tomb[k[2]] = 0
    BY <1>0, <1>1, <1>6 DEF NodesMatch, EndpointsIn
  <2> QED
    BY <1>1, <1>6, <2>1, <2>3, <2>4 DEF EdgeMatches
<1> QED
  BY <1>4, <1>5, <1>6

\* No edit is lost, for any number of processes, nodes and lines, whatever order the
\* lines come in and however often they are read again (_apply_update_node).
THEOREM NewestEditAlwaysShows ==
  ASSUME WellWrittenHistory
  PROVE  Spec => []NewestEditShows
BY EditsShow, EditInvariant, PTL

\* The newest decision about an edge shows, for any number of processes, nodes and
\* lines, whatever order they come in (_apply_add_edge, _apply_remove_edge).
THEOREM EdgeDecisionAlwaysShows ==
  ASSUME WellWrittenHistory
  PROVE  Spec => []NewestEdgeDecisionShows
BY EdgesShow, EditInvariant, PTL

\* "Whatever order entries arrive in, the result is the same" (_apply): settled
\* processes that have met the same lines always show the same graph.
THEOREM ProcessesConverge ==
  ASSUME WellWrittenHistory
  PROVE  Spec => []Convergence
<1>1. EditInv => Convergence
  <2> SUFFICES ASSUME EditInv, NEW p \in Proc, NEW q \in Proc, Settled(p), Settled(q),
                      applied[p] = applied[q]
               PROVE  Shown(p) = Shown(q)
    BY DEF Convergence
  <2>1. /\ view[p].nodes \subseteq Node /\ view[q].nodes \subseteq Node
        /\ view[p].edges \subseteq Edge /\ view[q].edges \subseteq Edge
        /\ \A n \in Node : view[p].field[n] \in Nat /\ view[q].field[n] \in Nat
    BY DEF EditInv, ReplayInv, TypeOK, View
  <2>2. view[p].nodes = view[q].nodes
    <3>1. NodesMatch(view[p], applied[p], lines) /\ NodesMatch(view[q], applied[p], lines)
      BY DEF EditInv, ReplayInv
    <3>2. \A n \in Node : n \in view[p].nodes <=> n \in view[q].nodes
      BY <3>1 DEF NodesMatch
    <3> QED
      BY <2>1, <3>2
  <2>3. ASSUME NEW n \in view[p].nodes PROVE view[p].field[n] = view[q].field[n]
    <3> DEFINE edits == LinesAbout(p, {"add_node", "update_node"}, n)
    <3>1. edits = LinesAbout(q, {"add_node", "update_node"}, n)
      BY DEF LinesAbout
    <3>2. /\ \E e \in edits : e.stamp = view[p].field[n]
          /\ \A e \in edits : e.stamp <= view[p].field[n]
      BY EditsShow DEF NewestEditShows
    <3>3. /\ \E e \in edits : e.stamp = view[q].field[n]
          /\ \A e \in edits : e.stamp <= view[q].field[n]
      BY <2>2, <3>1, EditsShow DEF NewestEditShows
    <3> HIDE DEF edits
    <3> QED
      BY <2>1, <3>2, <3>3
  <2>4. view[p].edges = view[q].edges
    <3>1. ASSUME NEW k \in Edge PROVE k \in view[p].edges <=> k \in view[q].edges
      <4>1. LinesAbout(p, EdgeAction, k) = LinesAbout(q, EdgeAction, k)
        BY DEF LinesAbout
      <4>2. EndpointsIn(view[p], k) <=> EndpointsIn(view[q], k)
        BY <2>2 DEF EndpointsIn
      <4> QED
        BY <4>1, <4>2, EdgesShow DEF NewestEdgeDecisionShows
    <3> QED
      BY <2>1, <3>1
  <2> QED
    BY <2>2, <2>3, <2>4 DEF Shown
<1> QED
  BY <1>1, EditInvariant, PTL
=============================================================================
