---------------------------- MODULE VectorIndex ----------------------------
(***************************************************************************)
(* The sessions of one project keeping its vector index in step with the   *)
(* graph (server.py, cognition_tools.py, operations.py).                   *)
(*                                                                         *)
(* Each session has two threads that use the index: the background thread, *)
(* which loads the model, makes the start-up pass and then one pass for    *)
(* every request, and the tools, here one call at a time.  Sessions share  *)
(* the graph and the index on disk.  Only plain nodes are modelled:        *)
(* documents and workflows also have chunk vectors.                        *)
(***************************************************************************)
EXTENDS VectorStore

CONSTANTS
    Sessions,    \* the server processes of this project
    InlineCap,   \* _INLINE_REEMBED_CAP
    Budgets      \* bound: how often each event may happen in a run, which keeps
                 \* within one of these

(* the file is damaged or held, a load or an embedding fails, a session ends, *)
(* a node is recorded or edited                                              *)
Events == {"damage", "hold", "load", "embed", "exit", "record", "edit"}

ASSUME IndexAssumption ==
    /\ InlineCap \in Nat
    /\ Budgets \subseteq [Events -> Nat]

VARIABLES
    disk,      \* the generations
    held,      \* another program holds the index file
    events,    \* [Events -> Nat]: how often each has happened
    ver,       \* [Nodes -> Texts]: the latest text of a node, 0 before it is recorded
    removed,   \* the nodes removed from the graph
    handle,    \* [Sessions -> Handles]
    resync,    \* the sessions whose vector_resync event is set
    ready,     \* the sessions whose model is loaded
    unseen,    \* [Sessions -> SUBSET Nodes]: recorded elsewhere, not replayed yet
    queue,     \* [Sessions -> SUBSET Nodes]: _replayed_node_ids
    failed,    \* [Sessions -> SUBSET Nodes]: no state of the code, the nodes whose
               \* text the session could not embed and has not come back to since
    bg,        \* [Sessions -> background thread]
    tool       \* [Sessions -> the tool call in progress]

env == <<disk, held, events>>
graph == <<ver, removed>>
replay == <<unseen, queue>>
vars == <<disk, held, events, ver, removed, handle, resync, ready, unseen, queue, failed, bg, tool>>

Live == {n \in Nodes : ver[n] > 0} \ removed

(* todo maps each node of the pass to the text the pass read for it; now is *)
(* the node it is embedding; ids are the stored ids the sweep has read.     *)
Threads == [step : {"off", "boot", "load", "sync", "scan", "embed", "sweep", "idle", "gone"},
            todo : [Nodes -> Texts],
            now  : SUBSET Nodes,
            ids  : SUBSET Nodes]

(* a write of text for node now, then the rest of a drain; replayed tells a *)
(* drain of the replayed ids from the embedding of the session's own node.  *)
Calls == [step     : {"none", "write", "drain", "query", "purge", "chunks"},
          now      : SUBSET Nodes,
          text     : Texts,
          rest     : SUBSET Nodes,
          replayed : BOOLEAN]

At(step) == [step |-> step, todo |-> [n \in Nodes |-> 0], now |-> {}, ids |-> {}]

NoCall == [step |-> "none", now |-> {}, text |-> 0, rest |-> {}, replayed |-> FALSE]

Todo(s) == {n \in Nodes : bg[s].todo[n] # 0}

Running(s) == bg[s].step # "off"

(* _index_syncing: the sync event is not set and the load has not failed     *)
Syncing(s) == bg[s].step \notin {"idle", "gone"}

Init ==
    /\ disk = EmptyDisk
    /\ held = FALSE
    /\ events = [k \in Events |-> 0]
    /\ ver = [n \in Nodes |-> 0]
    /\ removed = {}
    /\ handle = [s \in Sessions |-> NewHandle]
    /\ resync = {}
    /\ ready = {}
    /\ unseen = [s \in Sessions |-> {}]
    /\ queue = [s \in Sessions |-> {}]
    /\ failed = [s \in Sessions |-> {}]
    /\ bg = [s \in Sessions |-> At("off")]
    /\ tool = [s \in Sessions |-> NoCall]

(* one more event of this kind *)
Happens(kind) ==
    LET more == [events EXCEPT ![kind] = @ + 1]
    IN  /\ \E b \in Budgets : \A k \in Events : more[k] <= b[k]
        /\ events' = more

-----------------------------------------------------------------------------
(* What a step does to the session it belongs to.                           *)

(* the session's call on the store had outcome o                            *)
Took(s, o) ==
    /\ disk' = o.disk
    /\ handle' = [handle EXCEPT ![s] = o.handle]
    /\ resync' = IF o.ask THEN resync \cup {s} ELSE resync

NoStoreCall == UNCHANGED <<disk, handle, resync>>

Reads(s) == Read(disk, handle[s], held)
Writes(s, ns, v) == Run(disk, handle[s], held, TRUE, ns, v)

(* the session has come back to nodes ns, or failed to embed them            *)
ComesBack(s, ns) == failed' = [failed EXCEPT ![s] = @ \ ns]
Fails(s, ns) == failed' = [failed EXCEPT ![s] = @ \cup ns]

Thread(s, t) == bg' = [bg EXCEPT ![s] = t]
Call(s, c) == tool' = [tool EXCEPT ![s] = c]

(* every graph operation first replays what the journals hold; ids that go  *)
(* back into the queue go with it.                                          *)
CatchUp(s, back) ==
    /\ queue' = [queue EXCEPT ![s] = @ \cup unseen[s] \cup back]
    /\ unseen' = [unseen EXCEPT ![s] = {}]

\* Mutant: a pass cut short asks for nothing.
AbortForGood(s, o) ==
    /\ Took(s, o)
    /\ Thread(s, At("idle"))

(* a pass cut short: request_resync_on_recovery                             *)
Abort(s, o) ==
    /\ Took(s, [o EXCEPT !.handle = Owing(@)])
    /\ Thread(s, At("idle"))

-----------------------------------------------------------------------------
(* The background thread.                                                   *)

(* a session starts: lifespan opens the store and reads the whole graph     *)
Start(s) ==
    /\ bg[s].step = "off"
    /\ \E o \in Open(disk, NewHandle, held) :
          /\ disk' = o.disk
          /\ handle' = [handle EXCEPT ![s] = o.handle]
    /\ queue' = [queue EXCEPT ![s] = Live]
    /\ Thread(s, At("boot"))
    /\ UNCHANGED <<held, events, graph, resync, ready, failed, unseen, tool>>

CheckStore(s) ==
    /\ bg[s].step = "boot"
    /\ \E o \in HealthCheck(disk, handle[s], held) : Took(s, o)
    /\ Thread(s, At("load"))
    /\ UNCHANGED <<held, events, graph, ready, failed, replay, tool>>

Load(s) ==
    /\ bg[s].step = "load"
    /\ ready' = ready \cup {s}
    /\ Thread(s, At("sync"))
    /\ UNCHANGED <<env, graph, handle, resync, failed, replay, tool>>

(* the load fails: the thread ends without a pass and nobody waits for the   *)
(* event any more; the supervisor may bring the model up later.             *)
LoadFails(s) ==
    /\ bg[s].step = "load"
    /\ Happens("load")
    /\ Thread(s, At("gone"))
    /\ UNCHANGED <<disk, held, graph, handle, resync, ready, failed, replay, tool>>

Recover(s) ==
    /\ bg[s].step = "gone"
    /\ s \notin ready
    /\ ready' = ready \cup {s}
    /\ UNCHANGED <<env, graph, handle, resync, failed, replay, bg, tool>>

(* a request is taken up; the event is cleared before the pass              *)
Wake(s) ==
    /\ bg[s].step = "idle"
    /\ s \in resync
    /\ resync' = resync \ {s}
    /\ Thread(s, At("sync"))
    /\ UNCHANGED <<env, graph, handle, ready, failed, replay, tool>>

(* the pass is skipped when the store is not usable, which looking at its   *)
(* state finds out without trying to open it                                *)
SkipPass(s) ==
    /\ bg[s].step = "sync"
    /\ \E o \in CheckGeneration(disk, handle[s], held) :
          /\ ~ o.handle.open
          /\ Abort(s, o)
    /\ UNCHANGED <<held, events, graph, ready, failed, replay, tool>>

(* the pass reads the graph, and which of its nodes have a vector           *)
BeginPass(s) ==
    /\ bg[s].step = "sync"
    /\ handle[s].open
    /\ CatchUp(s, {})
    /\ IF Live = {}
       THEN /\ \E o \in CheckGeneration(disk, handle[s], held) :
                  o.handle.open /\ Took(s, o) /\ Thread(s, At("idle"))
            /\ UNCHANGED failed
       ELSE \E o \in Reads(s) :
               IF ~ o.ok THEN Abort(s, o) /\ UNCHANGED failed
               ELSE LET row == o.disk.rows[o.handle.gen]
                    IN  /\ Took(s, o)
                        /\ ComesBack(s, Live)
                        /\ Thread(s, [At("scan") EXCEPT !.todo =
                              [n \in Nodes |-> IF n \in Live /\ row[n] = 0 THEN ver[n] ELSE 0]])
    /\ UNCHANGED <<held, events, graph, ready, tool>>

Drop(t, n) == [t EXCEPT !.step = "scan", !.todo = [@ EXCEPT ![n] = 0], !.now = {}]

(* each node is checked again before it is embedded                         *)
Recheck(s) ==
    /\ bg[s].step = "scan"
    /\ \E n \in Todo(s), o \in Reads(s) :
          \/ /\ o.ok
             /\ o.disk.rows[o.handle.gen][n] # 0
             /\ Took(s, o)
             /\ Thread(s, Drop(bg[s], n))
          \/ /\ o.ok
             /\ o.disk.rows[o.handle.gen][n] = 0
             /\ CanWrite(o.handle)
             /\ Took(s, o)
             /\ Thread(s, [bg[s] EXCEPT !.step = "embed", !.now = {n}])
          \/ /\ ~ o.ok \/ (o.disk.rows[o.handle.gen][n] = 0 /\ ~ CanWrite(o.handle))
             /\ Abort(s, o)
    /\ UNCHANGED <<held, events, graph, ready, failed, replay, tool>>

(* the vector is made and written                                           *)
Embed(s) ==
    /\ bg[s].step = "embed"
    /\ \E n \in bg[s].now : \E o \in Writes(s, {n}, bg[s].todo[n]) :
          IF o.ok THEN Took(s, o) /\ Thread(s, Drop(bg[s], n)) ELSE Abort(s, o)
    /\ UNCHANGED <<held, events, graph, ready, failed, replay, tool>>

(* generate raises: the node is logged and skipped, the pass goes on and     *)
(* ends as complete                                                         *)
EmbedFails(s) ==
    /\ bg[s].step = "embed"
    /\ Happens("embed")
    /\ \E n \in bg[s].now : Thread(s, Drop(bg[s], n))
    /\ Fails(s, bg[s].now)
    /\ UNCHANGED <<disk, held, graph, handle, resync, ready, replay, tool>>

(* _reconcile_orphan_embeddings: the stored ids, then the graph             *)
ReadIds(s) ==
    /\ bg[s].step = "scan"
    /\ Todo(s) = {}
    /\ \E o \in Reads(s) :
          /\ Took(s, o)
          /\ LET ids == IF o.ok THEN {n \in Nodes : o.disk.rows[o.handle.gen][n] # 0} ELSE {}
             IN  Thread(s, IF ids = {} THEN At("idle") ELSE [At("sweep") EXCEPT !.ids = ids])
    /\ UNCHANGED <<held, events, graph, ready, failed, replay, tool>>

\* Mutant: the graph is not caught up before the sweep.
OrphansOfLastLook(s) == bg[s].ids \ (Live \ unseen[s])

Orphans(s) == bg[s].ids \ Live

(* an id that has left the graph does not come back, so reading the graph   *)
(* and deleting are one step                                                *)
Sweep(s) ==
    /\ bg[s].step = "sweep"
    /\ CatchUp(s, {})
    /\ IF Orphans(s) = {} THEN NoStoreCall
       ELSE \E o \in Writes(s, Orphans(s), 0) : Took(s, o)
    /\ Thread(s, At("idle"))
    /\ UNCHANGED <<held, events, graph, ready, failed, tool>>

-----------------------------------------------------------------------------
(* The tools.                                                               *)

(* embed the session's own node if the model is there                       *)
OwnWrite(s, n, v) ==
    Call(s, IF s \in ready
            THEN [NoCall EXCEPT !.step = "write", !.now = {n}, !.text = v]
            ELSE NoCall)

(* _record_node up to the vector; the other sessions replay the line later  *)
Record(s, n) ==
    /\ Running(s)
    /\ tool[s].step = "none"
    /\ ver[n] = 0
    /\ Happens("record")
    /\ ver' = [ver EXCEPT ![n] = 1]
    /\ queue' = [queue EXCEPT ![s] = @ \cup unseen[s] \cup {n}]
    /\ unseen' = [t \in Sessions |->
                     IF t = s THEN {} ELSE IF Running(t) THEN unseen[t] \cup {n} ELSE {}]
    /\ OwnWrite(s, n, 1)
    /\ NoStoreCall
    /\ UNCHANGED <<held, removed, ready, failed, bg>>

(* _update_node up to the vector                                            *)
Edit(s, n) ==
    /\ Running(s)
    /\ tool[s].step = "none"
    /\ n \in Live
    /\ ver[n] < MaxVer
    /\ Happens("edit")
    /\ ver' = [ver EXCEPT ![n] = @ + 1]
    /\ CatchUp(s, {})
    /\ OwnWrite(s, n, ver[n] + 1)
    /\ NoStoreCall
    /\ UNCHANGED <<held, removed, ready, failed, bg>>

(* delete_cognition_node up to the vector                                   *)
Delete(s, n) ==
    /\ Running(s)
    /\ tool[s].step = "none"
    /\ n \in Live
    /\ removed' = removed \cup {n}
    /\ CatchUp(s, {})
    /\ Call(s, [NoCall EXCEPT !.step = "purge", !.now = {n}])
    /\ NoStoreCall
    /\ UNCHANGED <<held, events, ver, ready, failed, bg>>

(* delete_embedding, then delete_by_node_id, which finds no chunks          *)
Purge(s) ==
    /\ tool[s].step \in {"purge", "chunks"}
    /\ \E o \in Writes(s, IF tool[s].step = "purge" THEN tool[s].now ELSE {}, 0) : Took(s, o)
    /\ Call(s, IF tool[s].step = "purge" THEN [tool[s] EXCEPT !.step = "chunks"] ELSE NoCall)
    /\ UNCHANGED <<held, events, graph, ready, failed, replay, bg>>

(* upsert_embedding; a drain that fails goes back into the queue, an        *)
(* embedding of the session's own node does not                             *)
Write(s) ==
    /\ tool[s].step = "write"
    /\ \E o \in Writes(s, tool[s].now, tool[s].text) :
          /\ Took(s, o)
          /\ ComesBack(s, IF o.ok THEN tool[s].now ELSE {})
          /\ IF ~ tool[s].replayed
             THEN Call(s, NoCall) /\ UNCHANGED queue
             ELSE IF o.ok
             THEN Call(s, [tool[s] EXCEPT !.step = "drain", !.now = {}, !.text = 0])
                  /\ UNCHANGED queue
             ELSE Call(s, [NoCall EXCEPT !.step = "query"])
                  /\ queue' = [queue EXCEPT ![s] = @ \cup tool[s].now \cup tool[s].rest]
    /\ UNCHANGED <<held, events, graph, ready, unseen, bg>>

(* generate raises: a drain goes on without the node, which it does not put  *)
(* back, and the tool that wrote the session's own node fails, whose line is *)
(* still to be replayed if it recorded the node                             *)
WriteFails(s) ==
    /\ tool[s].step = "write"
    /\ Happens("embed")
    /\ Call(s, IF tool[s].replayed
               THEN [tool[s] EXCEPT !.step = "drain", !.now = {}, !.text = 0]
               ELSE NoCall)
    /\ Fails(s, tool[s].now \ queue[s])
    /\ UNCHANGED <<disk, held, graph, handle, resync, ready, replay, bg>>

(* cognition_search of a store that is not usable answers at once: it looks *)
(* at the state, which opens nothing                                        *)
SearchRefused(s) ==
    /\ s \in ready
    /\ tool[s].step = "none"
    /\ \E o \in CheckGeneration(disk, handle[s], held) : ~ o.handle.open /\ Took(s, o)
    /\ UNCHANGED <<held, events, graph, ready, failed, replay, bg, tool>>

(* while a pass is under way the replayed ids wait                          *)
SearchOnly(s) ==
    /\ s \in ready
    /\ tool[s].step = "none"
    /\ Syncing(s) \/ queue[s] = {}
    /\ \E o \in CheckGeneration(disk, handle[s], held) : o.handle.open /\ Took(s, o)
    /\ Call(s, [NoCall EXCEPT !.step = "query"])
    /\ UNCHANGED <<held, events, graph, ready, failed, replay, bg>>

(* _reembed_replayed_nodes: take the queue, keep what has no vector, and no  *)
(* more of it than the cap; the thread is asked to do the rest              *)
SearchDrains(s) ==
    /\ s \in ready
    /\ tool[s].step = "none"
    /\ ~ Syncing(s)
    /\ queue[s] # {}
    /\ handle[s].open
    /\ \E o \in Reads(s) :
          LET missing == {n \in queue[s] : o.disk.rows[o.handle.gen][n] = 0}
              drain(rest) == Call(s, [NoCall EXCEPT !.step = "drain", !.rest = rest,
                                                    !.replayed = TRUE])
          IN  \/ /\ ~ o.ok
                 /\ Took(s, o)
                 /\ Call(s, [NoCall EXCEPT !.step = "query"])
                 /\ UNCHANGED queue
              \/ /\ o.ok
                 /\ Cardinality(missing) <= InlineCap
                 /\ Took(s, o)
                 /\ drain(missing)
                 /\ queue' = [queue EXCEPT ![s] = {}]
              \/ /\ o.ok
                 /\ Cardinality(missing) > InlineCap
                 /\ Took(s, [o EXCEPT !.ask = TRUE])
                 /\ \E now \in SUBSET missing :
                       /\ Cardinality(now) = InlineCap
                       /\ drain(now)
                       /\ queue' = [queue EXCEPT ![s] = missing \ now]
    /\ UNCHANGED <<held, events, graph, ready, failed, unseen, bg>>

(* the next node of the drain, with the text it has now                     *)
DrainNext(s) ==
    /\ tool[s].step = "drain"
    /\ \E n \in tool[s].rest :
          /\ Call(s, IF n \in Live
                     THEN [tool[s] EXCEPT !.step = "write", !.now = {n}, !.text = ver[n],
                                          !.rest = @ \ {n}]
                     ELSE [tool[s] EXCEPT !.rest = @ \ {n}])
    /\ CatchUp(s, {})
    /\ NoStoreCall
    /\ UNCHANGED <<held, events, graph, ready, failed, bg>>

(* after the drain, the search itself, whose hits are looked up in the graph *)
Query(s) ==
    /\ tool[s].step = "query" \/ (tool[s].step = "drain" /\ tool[s].rest = {})
    /\ \E o \in Reads(s) : Took(s, o)
    /\ CatchUp(s, {})
    /\ Call(s, NoCall)
    /\ UNCHANGED <<held, events, graph, ready, failed, bg>>

(* get_status counts the nodes of the graph and the vectors                 *)
Status(s) ==
    /\ Running(s)
    /\ tool[s].step = "none"
    /\ \E o \in Reads(s) : Took(s, o)
    /\ CatchUp(s, {})
    /\ UNCHANGED <<held, events, graph, ready, failed, bg, tool>>

-----------------------------------------------------------------------------
(* The surroundings.                                                        *)

Elapse(s, t) ==
    /\ t \in handle[s].waits
    /\ handle' = [handle EXCEPT ![s].waits = @ \ {t}]
    /\ UNCHANGED <<env, graph, resync, ready, failed, replay, bg, tool>>

Hold ==
    /\ ~ held
    /\ Happens("hold")
    /\ held' = TRUE
    /\ UNCHANGED <<disk, graph, handle, resync, ready, failed, replay, bg, tool>>

Release ==
    /\ held
    /\ held' = FALSE
    /\ UNCHANGED <<disk, events, graph, handle, resync, ready, failed, replay, bg, tool>>

(* only the generation in use is damaged, and the last one never: MaxGen is *)
(* a bound of the model                                                     *)
Damage ==
    /\ Happens("damage")
    /\ disk.top < MaxGen
    /\ disk.top \notin disk.damaged
    /\ disk' = [disk EXCEPT !.damaged = @ \cup {disk.top}]
    /\ UNCHANGED <<held, graph, handle, resync, ready, failed, replay, bg, tool>>

(* a session ends, whatever its threads are doing                           *)
Exit(s) ==
    /\ Running(s)
    /\ Happens("exit")
    /\ handle' = [handle EXCEPT ![s] = NewHandle]
    /\ resync' = resync \ {s}
    /\ ready' = ready \ {s}
    /\ queue' = [queue EXCEPT ![s] = {}]
    /\ unseen' = [unseen EXCEPT ![s] = {}]
    /\ failed' = [failed EXCEPT ![s] = {}]
    /\ Thread(s, At("off"))
    /\ Call(s, NoCall)
    /\ UNCHANGED <<disk, held, graph>>

-----------------------------------------------------------------------------

Background(s) ==
    \/ CheckStore(s) \/ Load(s) \/ Wake(s) \/ SkipPass(s) \/ BeginPass(s)
    \/ Recheck(s) \/ Embed(s) \/ ReadIds(s) \/ Sweep(s)

InCall(s) == Purge(s) \/ Write(s) \/ DrainNext(s) \/ Query(s)

Search(s) == SearchRefused(s) \/ SearchOnly(s) \/ SearchDrains(s)

Next ==
    \/ \E s \in Sessions :
          \/ Start(s) \/ LoadFails(s) \/ Recover(s) \/ Background(s)
          \/ EmbedFails(s) \/ WriteFails(s)
          \/ InCall(s) \/ Search(s) \/ Status(s) \/ Exit(s)
          \/ \E n \in Nodes : Record(s, n) \/ Edit(s, n) \/ Delete(s, n)
          \/ \E t \in Timers : Elapse(s, t)
    \/ Hold \/ Release \/ Damage

Spec == Init /\ [][Next]_vars

(* A thread that can go on does, a call that was made ends, timers run out, *)
(* other programs let go of the file and the sidecar's supervisor brings a  *)
(* failed model up.  A running session is searched and asked for its status *)
(* again and again.  Nothing is assumed of records, edits, deletes, starts, *)
(* exits, damage and failing embeddings.                                    *)
FairSpec ==
    /\ Spec
    /\ WF_vars(Release)
    /\ \A s \in Sessions :
          /\ WF_vars(Background(s)) /\ WF_vars(InCall(s)) /\ WF_vars(Recover(s))
          /\ \A t \in Timers : WF_vars(Elapse(s, t))
          /\ WF_vars(Search(s)) /\ WF_vars(Status(s))

-----------------------------------------------------------------------------
(* Properties. *)

(* Every variable keeps its shape; a handle is on a generation that exists. *)
TypeOK ==
    /\ disk \in Disks
    /\ Active(disk) \in Generations
    /\ held \in BOOLEAN
    /\ events \in [Events -> Nat]
    /\ ver \in [Nodes -> Texts]
    /\ removed \subseteq Nodes
    /\ handle \in [Sessions -> Handles]
    /\ resync \subseteq Sessions
    /\ ready \subseteq Sessions
    /\ unseen \in [Sessions -> SUBSET Nodes]
    /\ queue \in [Sessions -> SUBSET Nodes]
    /\ failed \in [Sessions -> SUBSET Nodes]
    /\ bg \in [Sessions -> Threads]
    /\ tool \in [Sessions -> Calls]

Indexed(n) == disk.rows[Active(disk)][n] # 0

(* the session's background thread lives: after a failed load it does not  *)
Listening(s) == bg[s].step \notin {"off", "gone"}

(* what makes session s come back to node n: a pass its thread was asked    *)
(* for, will be asked for or makes; a generation it has yet to leave; an id *)
(* it has yet to replay or to take from its queue; a write under way        *)
Owes(s, n) ==
    \/ /\ Listening(s)
       /\ \/ s \in resync
          \/ handle[s].pending
          \/ handle[s].gen # Active(disk)
          \/ bg[s].step \in {"boot", "load", "sync"}
          \/ n \in Todo(s)
    \/ n \in unseen[s] \cup queue[s]
    \/ tool[s].step \in {"write", "drain"} /\ n \in tool[s].now \cup tool[s].rest

(* A live node that search cannot find is forgotten in one way only: every  *)
(* session whose background thread lives still has the node to embed,       *)
(* unless its own generator failed on this very node and it has not come    *)
(* back to it since.  This is what the replay queue, the pending flag and   *)
(* the resync event are for together, whichever of the write, the pass or   *)
(* the file fails, and whoever marks the generation or goes away first.     *)
MissingIsOwed ==
    \A s \in Sessions : Listening(s) =>
        \A n \in Live : Indexed(n) \/ Owes(s, n) \/ n \in failed[s]

(* The vector of a live node stays in the generation in use.  A sweep reads *)
(* the ids first and the graph after, so a node recorded and embedded by    *)
(* another session meanwhile is spared.                                     *)
LiveVectorsStay ==
    [][\A n \in Live : Indexed(n) /\ Active(disk') = Active(disk) => Indexed(n)']_vars

(* a session met damage too often and waits for its user                    *)
SwitchedOff == \E s \in Sessions : "repeated" \in handle[s].waits

(* What is owed is done: while a background thread lives, a live node is in *)
(* the index again after any lost write, rebuild or restart.  A node the    *)
(* generator failed on is excused only until a pass comes back to it.       *)
IndexCatchesUp ==
    \A n \in Nodes :
        n \in Live ~> \/ Indexed(n) \/ n \notin Live \/ SwitchedOff
                      \/ \E s \in Sessions : n \in failed[s]
                      \/ \A s \in Sessions : ~ Listening(s)

(* CHANGELOG: a damaged index "repairs itself", the next generation is      *)
(* "rebuilt from the journal".  Then a live node is in the index again      *)
(* while a session with a loaded model runs.                                *)
DamagedIndexIsRebuilt ==
    \A n \in Nodes :
        n \in Live ~> (Indexed(n) \/ n \notin Live \/ SwitchedOff \/ ready = {})

(* upsert_embedding: a failed write is "filled from the journal by a        *)
(* re-sync once the store works again".  Then the vector of an edited node  *)
(* comes to be of its latest text.                                          *)
EditsBecomeSearchable ==
    \A n \in Nodes :
        (n \in Live /\ disk.rows[Active(disk)][n] # ver[n]) ~>
            (\/ disk.rows[Active(disk)][n] = ver[n] \/ n \notin Live
             \/ \A s \in Sessions : ~ Listening(s))

=============================================================================
