---------------------------- MODULE LocalRecords ----------------------------
(***************************************************************************)
(* What one checkout remembers about its journal between sessions          *)
(* (cognition/journal_watch.py, own_ledger.py, loss_notices.py): the ids   *)
(* it has seen, in a snapshot and a log of ids created since; the lines it *)
(* wrote, in the ledger; and the notice of a loss that happened while no   *)
(* session ran.                                                            *)
(*                                                                         *)
(* Each of these is a file, read and written in the steps below by every   *)
(* session of the checkout.  Replaying and repairing the journal itself is *)
(* JournalRepair; here the journal is the set of ids it holds, one set for *)
(* each branch.                                                            *)
(***************************************************************************)
EXTENDS Naturals, FiniteSets

CONSTANTS Sessions,    \* processes of this checkout that open the journal
          Ids,         \* node ids
          Budgets      \* bounds: each says how often every one of Events happens

Events == {"loss", "move", "accept", "start", "create"}

Branches == {"main", "topic"}

VARIABLES
    head,       \* the branch checked out
    onBranch,   \* [Branches -> the ids its journal adds]
    deleted,    \* [Branches -> the ids its journal removes]
    snapshot,   \* known-node-ids.json: ids and the branch they were seen on
    idLog,      \* known-node-ids.log
    ledger,     \* own-appends.jsonl, one line for each id written here
    notice,     \* the ids of the between-sessions notice nobody has read yet
    told,       \* the ids a session has been told about
    ses,        \* [Sessions -> what the session knows and is doing]
    seen,       \* history: ids the records have held
    lost,       \* history: ids that vanished from a journal
    excused,    \* history: ids that the code itself has no occasion to report (GivenUp,
                \* CutLog, Tell), that were accepted, or whose report a crash took
    crossed,    \* history: ids written while a session was starting, on a branch
                \* that HEAD left under a session or came to under one that was
                \* starting, or noted beside the snapshot of another branch
    budget        \* [Events -> how often each may still happen]

journal == <<head, onBranch, deleted>>
records == <<snapshot, idLog, ledger, notice>>
history == <<seen, lost, excused, crossed>>
recordsVars == <<journal, records, told, ses, history, budget>>

NoSnapshot == [ids |-> {}, source |-> "none"]

Steps == {"off", "read", "readlog", "snapshot", "readcut", "cut", "readnotice", "tell",
          "idle", "record", "note", "prune", "pruned"}

(* view and gone: the graph's nodes and tombstones.  known, source, here,    *)
(* report: the check under way.  start: it is that of a start, not a refresh.   *)
(* new: the id just written.  keep: what the next write of a file leaves in. *)
At(step) == [step |-> step, view |-> {}, gone |-> {}, known |-> {}, source |-> "none",
             here |-> "none", report |-> {}, start |-> FALSE, new |-> {}, keep |-> {}]

RecordsInit ==
    /\ head = "main"
    /\ onBranch = [b \in Branches |-> {}]
    /\ deleted = [b \in Branches |-> {}]
    /\ snapshot = NoSnapshot
    /\ idLog = {} /\ ledger = {} /\ notice = {} /\ told = {}
    /\ ses = [s \in Sessions |-> At("off")]
    /\ seen = {} /\ lost = {} /\ excused = {} /\ crossed = {}
    /\ budget \in Budgets

Here(s, step) == ses[s].step = step

Turns(s, to) == ses' = [ses EXCEPT ![s] = to]

(* a session has replayed the journal and not yet looked at the records           *)
Starting == \E t \in Sessions : Here(t, "read") \/ Here(t, "readlog")

Spend(event) ==
    /\ budget[event] > 0
    /\ budget' = [budget EXCEPT ![event] = @ - 1]

-----------------------------------------------------------------------------
(* The watch: check_between_sessions at a start, refresh_known later.       *)

(* the graph after a pass over the files keeps what it had but the removed  *)
Seen(x) == [x EXCEPT !.view = (@ \cup onBranch[head]) \ (x.gone \cup deleted[head]),
                     !.gone = @ \cup deleted[head]]

(* a session starts and replays the journal                                 *)
Boot(s) ==
    /\ Here(s, "off")
    /\ Turns(s, [Seen(At("read")) EXCEPT !.start = TRUE])
    /\ Spend("start")
    /\ UNCHANGED <<journal, records, told, history>>

(* catch-up: a rebuild, which a vanished line causes, refreshes the records; *)
(* new lines refresh them when the last refresh was long enough ago          *)
CatchUp(s) ==
    /\ Here(s, "idle")
    /\ LET rebuilt == ~ (ses[s].view \subseteq onBranch[head])
           now == Seen(ses[s])
       IN  /\ rebuilt \/ now # ses[s]
           /\ \/ Turns(s, [now EXCEPT !.step = "read"])
              \/ ~ rebuilt /\ Turns(s, now)
    /\ UNCHANGED <<journal, records, told, history, budget>>

(* _read_known: the snapshot ...                                            *)
ReadSnapshot(s) ==
    /\ Here(s, "read")
    /\ Turns(s, [ses[s] EXCEPT !.step = IF snapshot = NoSnapshot THEN "snapshot" ELSE "readlog",
                              !.known = snapshot.ids, !.source = snapshot.source,
                              !.here = head])
    /\ UNCHANGED <<journal, records, told, history, budget>>

MovedDeliberately(x) == x.source # "none" /\ x.source # x.here

(* only a start compares what is known with the graph, and not after a move  *)
Compares(x) == x.start /\ ~ MovedDeliberately(x)

\* Mutant: the deletions are not looked at.
MissingWithTombstones(x) ==
    IF Compares(x) THEN x.known \ x.view ELSE {}

\* Mutant: a refresh reports, and a start does not.
MissingOnRefresh(x) ==
    IF Compares(x) THEN {} ELSE x.known \ (x.view \cup x.gone)

(* what is reported: known, and neither in the graph nor deleted            *)
Missing(x) ==
    IF Compares(x) THEN x.known \ (x.view \cup x.gone) ELSE {}

(* ... then the log, unless there was no snapshot to go with it             *)
ReadLog(s) ==
    /\ Here(s, "readlog")
    /\ LET x == [ses[s] EXCEPT !.known = @ \cup idLog]
       IN  Turns(s, [x EXCEPT !.step = "snapshot", !.report = Missing(x)])
    /\ UNCHANGED <<journal, records, told, history, budget>>

(* ids the snapshot may lose without a report: all that was read, when there *)
(* is no comparing it, and what another session wrote since it was read     *)
GivenUp(x) ==
    ((IF Compares(x) THEN {} ELSE x.known) \cup (snapshot.ids \ x.known))
        \ (x.view \cup x.gone)

(* ids in the log, or on their way there                                    *)
Noting(s) == ses[s].new \cup (IF Here(s, "cut") THEN ses[s].keep ELSE {})

Noted == idLog \cup UNION {Noting(s) : s \in Sessions}

(* _write_snapshot: the snapshot is replaced ...                            *)
WriteSnapshot(s) ==
    /\ Here(s, "snapshot")
    /\ snapshot' = [ids |-> ses[s].view,
                    source |-> IF ses[s].start THEN ses[s].here ELSE head]
    /\ seen' = seen \cup ses[s].view
    /\ excused' = excused \cup GivenUp(ses[s])
    /\ crossed' = crossed \cup (Noted \ onBranch[snapshot'.source])
    /\ Turns(s, [ses[s] EXCEPT !.step = "readcut"])
    /\ UNCHANGED <<journal, idLog, ledger, notice, told, lost, budget>>

(* ... the log is read again, and what the check has not accounted for ...  *)
Unaccounted(x, entries) == entries \ (x.known \cup x.view)

ReadLogAgain(s) ==
    /\ Here(s, "readcut")
    /\ Turns(s, [ses[s] EXCEPT !.step = "cut", !.keep = Unaccounted(ses[s], idLog)])
    /\ UNCHANGED <<journal, records, told, history, budget>>

(* ... is written back, over anything appended in between                    *)
CutLog(s) ==
    /\ Here(s, "cut")
    /\ idLog' = ses[s].keep
    /\ excused' = excused \cup (Unaccounted(ses[s], idLog) \ ses[s].keep)
    /\ Turns(s, [ses[s] EXCEPT !.step = IF ses[s].report # {} THEN "readnotice" ELSE "idle",
                              !.known = {}, !.source = "none",
                              !.here = "none", !.keep = {}, !.start = FALSE])
    /\ UNCHANGED <<journal, snapshot, ledger, notice, told, seen, lost, crossed, budget>>

(* the end of __init__: the report joins the notice that is still unread, as *)
(* read before the file's lock is taken ...                                  *)
Joined(x) == x.report \cup notice

ReadNotice(s) ==
    /\ Here(s, "readnotice")
    /\ Turns(s, [ses[s] EXCEPT !.step = "tell", !.report = Joined(ses[s]),
                              !.keep = notice])
    /\ UNCHANGED <<journal, records, told, history, budget>>

(* ... and takes its place                                                   *)
Tell(s) ==
    /\ Here(s, "tell")
    /\ notice' = ses[s].report
    /\ excused' = excused \cup (notice \ (ses[s].report \cup ses[s].keep))
    /\ Turns(s, [ses[s] EXCEPT !.step = "idle", !.report = {}, !.keep = {}])
    /\ UNCHANGED <<journal, snapshot, idLog, ledger, told, seen, lost, crossed, budget>>

(* the session-start hook shows the notice once                             *)
ShowNotice ==
    /\ notice # {}
    /\ told' = told \cup notice
    /\ notice' = {}
    /\ UNCHANGED <<journal, snapshot, idLog, ledger, ses, history, budget>>

-----------------------------------------------------------------------------
(* Writing.                                                                 *)

(* add_node: the line, the ledger, the log                                  *)
Create(s, i) ==
    /\ Here(s, "idle")
    /\ Spend("create")
    /\ i \notin UNION {onBranch[b] : b \in Branches} \cup lost
    /\ onBranch' = [onBranch EXCEPT ![head] = @ \cup {i}]
    /\ crossed' = IF Starting \/ snapshot.source # head
                  THEN crossed \cup {i} ELSE crossed
    /\ Turns(s, [Seen(ses[s]) EXCEPT !.step = "record", !.new = {i}])
    /\ UNCHANGED <<head, deleted, records, told, seen, lost, excused>>

RecordLine(s) ==
    /\ Here(s, "record")
    /\ ledger' = ledger \cup ses[s].new
    /\ Turns(s, [ses[s] EXCEPT !.step = "note", !.view = @ \cup ses[s].new])
    /\ UNCHANGED <<journal, snapshot, idLog, notice, told, history, budget>>

NoteCreated(s) ==
    /\ Here(s, "note")
    /\ idLog' = idLog \cup ses[s].new
    /\ seen' = seen \cup ses[s].new
    /\ Turns(s, [ses[s] EXCEPT !.step = "idle", !.new = {}])
    /\ UNCHANGED <<journal, snapshot, ledger, notice, told, lost, excused, crossed, budget>>

(* remove_node                                                              *)
Delete(s, i) ==
    /\ Here(s, "idle")
    /\ LET x == Seen(ses[s])
       IN  /\ i \in x.view
           /\ Turns(s, [x EXCEPT !.view = @ \ {i}, !.gone = @ \cup {i}])
    /\ deleted' = [deleted EXCEPT ![head] = @ \cup {i}]
    /\ UNCHANGED <<head, onBranch, records, told, history, budget>>

(* accept_disk: the ledger is cut to what the file holds, read first ...     *)
AcceptDisk(s) ==
    /\ Here(s, "idle")
    /\ Spend("accept")
    /\ Turns(s, [ses[s] EXCEPT !.step = "prune", !.keep = ledger \cap onBranch[head]])
    /\ UNCHANGED <<journal, records, told, history>>

(* ... then replaced; record() does not take the lock prune() holds          *)
Prune(s) ==
    /\ Here(s, "prune")
    /\ ledger' = ses[s].keep
    /\ Turns(s, [ses[s] EXCEPT !.step = "pruned", !.keep = {}])
    /\ UNCHANGED <<journal, snapshot, idLog, notice, told, history, budget>>

(* ... the graph is read anew, the notice dropped and the records refreshed  *)
ForgetLosses(s) ==
    /\ Here(s, "pruned")
    /\ notice' = {}
    /\ excused' = excused \cup notice
    /\ Turns(s, Seen(At("read")))
    /\ UNCHANGED <<journal, snapshot, idLog, ledger, told, seen, lost, crossed, budget>>

(* a session ends or crashes: a report not yet written dies with it          *)
Exit(s) ==
    /\ ses[s].step # "off"
    /\ Turns(s, At("off"))
    /\ excused' = IF Here(s, "readcut") \/ Here(s, "cut") \/ Here(s, "readnotice") \/ Here(s, "tell")
                  THEN excused \cup ses[s].report ELSE excused
    /\ UNCHANGED <<journal, records, told, seen, lost, crossed, budget>>

-----------------------------------------------------------------------------
(* Version control.                                                         *)

(* a line vanishes from the journal                                         *)
Lose(i) ==
    /\ i \in onBranch[head] \ deleted[head]
    /\ Spend("loss")
    /\ onBranch' = [onBranch EXCEPT ![head] = @ \ {i}]
    /\ lost' = lost \cup {i}
    /\ UNCHANGED <<head, deleted, records, told, ses, seen, excused, crossed>>

Switch(b) ==
    /\ b # head
    /\ Spend("move")
    /\ head' = b
    /\ crossed' = crossed
          \cup (IF \A s \in Sessions : Here(s, "off") THEN {} ELSE onBranch[head])
          \cup (IF Starting THEN onBranch[b] ELSE {})
    /\ UNCHANGED <<onBranch, deleted, records, told, ses, seen, lost, excused>>

-----------------------------------------------------------------------------
RecordsNext ==
    \/ \E s \in Sessions :
          \/ Boot(s) \/ CatchUp(s) \/ ReadSnapshot(s) \/ ReadLog(s) \/ WriteSnapshot(s)
          \/ ReadLogAgain(s) \/ CutLog(s) \/ ReadNotice(s) \/ Tell(s)
          \/ RecordLine(s) \/ NoteCreated(s)
          \/ AcceptDisk(s) \/ Prune(s) \/ ForgetLosses(s) \/ Exit(s)
          \/ \E i \in Ids : Create(s, i) \/ Delete(s, i)
    \/ ShowNotice
    \/ \E i \in Ids : Lose(i)
    \/ \E b \in Branches : Switch(b)

RecordsSpec == RecordsInit /\ [][RecordsNext]_recordsVars

-----------------------------------------------------------------------------
(* Properties. *)

(* No loss slips through the records while sessions race over them: an id    *)
(* that was recorded and then vanished is recorded still, so that a later   *)
(* start compares it; or a start has compared it, and its report is on its   *)
(* way, unread or read.  A start that compares has to report whatever it     *)
(* read and then drops.  Given up are only the ids that a refresh or a start *)
(* after a move read, that another session wrote between this one's reading  *)
(* and writing of a file, that were accepted, or whose reporter crashed.     *)
Reporting(s) ==
    IF ses[s].step \in {"readcut", "cut", "readnotice", "tell"} THEN ses[s].report ELSE {}

LossesAreTold ==
    \A i \in (seen \cap lost) \ UNION {deleted[b] : b \in Branches} :
        i \in told \cup notice \cup excused \cup snapshot.ids \cup idLog
              \cup UNION {Reporting(s) : s \in Sessions}

(* What a session is told of did vanish: neither deleting a node nor another *)
(* session's older look at the records raises an alarm.  Three cases are     *)
(* left out because they do: HEAD moved under a running session; a node was  *)
(* written by another session between a start's replay and its look at the   *)
(* records; and the log holds an id of another branch than the snapshot      *)
(* beside it, which carries no branch of its own.                            *)
AlarmsAreTrue == told \cup notice \subseteq lost \cup crossed

(* "a deliberate move (branch switch ...) is recognised ... and re-baselines *)
(* silently" (journal_watch.py, module docstring).                          *)
MovesAreSilent == told \cup notice \subseteq lost

(* "a live session appending to the ledger while a CLI prunes it cannot lose *)
(* that line" (own_ledger.py, prune): a line leaves the ledger only when    *)
(* the file does not hold it.                                               *)
RecordedLinesStay ==
    [][(ledger \ ledger') \cap onBranch[head] = {}]_recordsVars

=============================================================================
