--------------------------- MODULE Checkout_proofs --------------------------
(***************************************************************************)
(* Proofs about what a checkout keeps beside the graph, for any number of     *)
(* sessions, callers, files, folders and documents: the records of its        *)
(* journal, what Subversion is told, who signs, and the documents.           *)
(***************************************************************************)
EXTENDS LocalRecords, SvnHygiene, Identity, Documents, FiniteSetTheorems, TLAPS

-----------------------------------------------------------------------------
(***************************************************************************)
(* LocalRecords: no loss is forgotten, and no alarm is false, for any number  *)
(* of sessions, ids and events.                                             *)
(***************************************************************************)


Sources == Branches \cup {"none"}

Checks == [step : Steps, view : SUBSET Ids, gone : SUBSET Ids, known : SUBSET Ids,
           source : Sources, here : Sources, report : SUBSET Ids, start : BOOLEAN,
           new : SUBSET Ids, keep : SUBSET Ids]

(* Every variable keeps its shape; the bounds are left alone.                 *)
TypeOK ==
    /\ head \in Branches
    /\ onBranch \in [Branches -> SUBSET Ids]
    /\ deleted \in [Branches -> SUBSET Ids]
    /\ snapshot \in [ids : SUBSET Ids, source : Sources]
    /\ idLog \subseteq Ids /\ ledger \subseteq Ids /\ notice \subseteq Ids /\ told \subseteq Ids
    /\ ses \in [Sessions -> Checks]
    /\ seen \subseteq Ids /\ lost \subseteq Ids /\ excused \subseteq Ids /\ crossed \subseteq Ids

-----------------------------------------------------------------------------
(* Why no loss is forgotten.                                                *)

Deleted == UNION {deleted[b] : b \in Branches}
Reported == UNION {Reporting(s) : s \in Sessions}

(* What no step takes away: the ids in the snapshot, those told or about to   *)
(* be, those given up and those deleted.                                     *)
Safe == told \cup notice \cup excused \cup snapshot.ids \cup Reported \cup Deleted

(* A start that compares has what it read in its view, deleted or reported.   *)
Compared(x) == Compares(x) => x.known \subseteq x.view \cup x.gone \cup x.report

(* What a session is about to take out of the snapshot is compared, what it   *)
(* is about to cut from the log is safe by then, and what a report is about   *)
(* to replace is in it.                                                      *)
KeptBy(s) ==
    /\ ses[s].gone \subseteq Deleted
    /\ ses[s].step \in {"readcut", "cut"} => ses[s].view \cup ses[s].known \subseteq Safe
    /\ Here(s, "snapshot") => Compared(ses[s])
    /\ Here(s, "tell") => ses[s].keep \subseteq ses[s].report

LossesInv ==
    /\ TypeOK
    /\ seen \subseteq Safe \cup idLog
    /\ \A s \in Sessions : KeptBy(s)

-----------------------------------------------------------------------------
(* Why no alarm is false.                                                   *)

(* the ids whose absence need not be explained on branch b                   *)
Of(b) == onBranch[b] \cup lost \cup crossed

(* A start compares the records with its view.  While it does, what it read  *)
(* and what it will read of the log belong to the branch it is on, and that   *)
(* branch is in its view, but for what was lost or has crossed.              *)
ComparesAlike(x) ==
    /\ x.step = "read" => onBranch[head] \subseteq x.view \cup x.gone \cup crossed
    /\ x.step = "readlog" /\ x.source = x.here =>
          /\ onBranch[x.here] \subseteq x.view \cup x.gone \cup crossed
          /\ x.known \cup Noted \subseteq Of(x.here)

(* The view of a session that is at x, and the id it is noting, are of the    *)
(* branch that is checked out, or that its start has looked at; what it has  *)
(* to report is true.                                                       *)
TrueAt(x) ==
    /\ x.step = "off" => x = At("off")
    /\ x.step \notin {"off", "read", "snapshot"} => snapshot.source \in Branches
    /\ x.step \notin {"off", "read"} => x.here \in Branches \/ ~ x.start
    /\ x.step = "readlog" => x.source \in Branches /\ x.here \in Branches
    /\ x.view \cup x.new \subseteq Of(head)
    /\ x.step \in {"readlog", "snapshot"} /\ x.start => x.view \subseteq Of(x.here)
    /\ x.start => ComparesAlike(x)
    /\ x.report \subseteq lost \cup crossed

AlarmsInv ==
    /\ TypeOK
    /\ snapshot.source = "none" => snapshot = NoSnapshot
    /\ snapshot.source \in Branches => snapshot.ids \cup Noted \subseteq Of(snapshot.source)
    /\ told \cup notice \subseteq lost \cup crossed
    /\ \A s \in Sessions : TrueAt(ses[s])

-----------------------------------------------------------------------------
(* Types. *)

(* A session that turns to a check leaves the others at theirs.              *)
LEMMA TurnsIs ==
    ASSUME TypeOK, NEW s \in Sessions, NEW to \in Checks, Turns(s, to)
    PROVE  /\ ses' \in [Sessions -> Checks]
           /\ ses'[s] = to
           /\ \A t \in Sessions \ {s} : ses'[t] = ses[t]
BY DEF TypeOK, Turns

(* A session that has nothing in hand.                                       *)
LEMMA AtIsCheck == \A step \in Steps : At(step) \in Checks
BY DEF At, Checks, Sources

(* The graph after a pass over the files.                                    *)
LEMMA SeenIsCheck ==
    ASSUME TypeOK, NEW x \in Checks
    PROVE  /\ Seen(x) \in Checks
           /\ Seen(x).view = (x.view \cup onBranch[head]) \ (x.gone \cup deleted[head])
           /\ Seen(x).gone = x.gone \cup deleted[head]
           /\ Seen(x).step = x.step /\ Seen(x).known = x.known /\ Seen(x).source = x.source
           /\ Seen(x).here = x.here /\ Seen(x).report = x.report /\ Seen(x).start = x.start
           /\ Seen(x).new = x.new /\ Seen(x).keep = x.keep
<1>1. onBranch[head] \in SUBSET Ids /\ deleted[head] \in SUBSET Ids
  BY DEF TypeOK
<1> QED
  BY <1>1 DEF Seen, Checks

(* The steps of the watch keep the types (check_between_sessions,            *)
(* refresh_known).                                                          *)
LEMMA WatchTypes ==
    ASSUME TypeOK, NEW s \in Sessions,
           \/ Boot(s) \/ CatchUp(s) \/ ReadSnapshot(s) \/ ReadLog(s) \/ WriteSnapshot(s)
           \/ ReadLogAgain(s) \/ CutLog(s) \/ ReadNotice(s) \/ Tell(s)
    PROVE  TypeOK'
<1> DEFINE x == ses[s]
<1>0. x \in Checks
  BY DEF TypeOK
<1>1. CASE Boot(s)
  <2>1. Seen(At("read")) \in Checks
    BY AtIsCheck, SeenIsCheck DEF Steps
  <2>2. [Seen(At("read")) EXCEPT !.start = TRUE] \in Checks
    BY <2>1 DEF Checks
  <2> QED
    BY <1>1, <2>2, TurnsIs DEF Boot, TypeOK, journal, records, history
<1>2. CASE CatchUp(s)
  <2>1. Seen(x) \in Checks
    BY <1>0, SeenIsCheck
  <2>2. [Seen(x) EXCEPT !.step = "read"] \in Checks
    BY <2>1 DEF Checks, Steps
  <2> QED
    BY <1>2, <2>1, <2>2, TurnsIs DEF CatchUp, TypeOK, journal, records, history
<1>3. CASE ReadSnapshot(s)
  <2> DEFINE y == [x EXCEPT !.step = IF snapshot = NoSnapshot THEN "snapshot" ELSE "readlog",
                            !.known = snapshot.ids, !.source = snapshot.source, !.here = head]
  <2>1. y \in Checks
    BY <1>0 DEF Checks, Steps, TypeOK, Sources
  <2> QED
    BY <1>3, <2>1, TurnsIs DEF ReadSnapshot, TypeOK, journal, records, history
<1>4. CASE ReadLog(s)
  <2> DEFINE y == [x EXCEPT !.known = @ \cup idLog]
  <2>1. y \in Checks
    BY <1>0 DEF Checks, TypeOK
  <2>2. Missing(y) \in SUBSET Ids
    BY <2>1 DEF Missing, Checks
  <2>3. [y EXCEPT !.step = "snapshot", !.report = Missing(y)] \in Checks
    BY <2>1, <2>2 DEF Checks, Steps
  <2> QED
    BY <1>4, <2>3, TurnsIs DEF ReadLog, TypeOK, journal, records, history
<1>5. CASE WriteSnapshot(s)
  <2>1. [x EXCEPT !.step = "readcut"] \in Checks
    BY <1>0 DEF Checks, Steps
  <2>2. GivenUp(x) \subseteq Ids /\ x.view \subseteq Ids /\ x.here \in Sources
    BY <1>0 DEF GivenUp, Checks, TypeOK
  <2>3. Noted \subseteq Ids
    BY DEF Noted, Noting, TypeOK, Checks
  <2> QED
    BY <1>5, <2>1, <2>2, <2>3, TurnsIs DEF WriteSnapshot, TypeOK, journal, Sources
<1>6. CASE ReadLogAgain(s)
  <2>1. [x EXCEPT !.step = "cut", !.keep = Unaccounted(x, idLog)] \in Checks
    BY <1>0 DEF Checks, Steps, Unaccounted, TypeOK
  <2> QED
    BY <1>6, <2>1, TurnsIs DEF ReadLogAgain, TypeOK, journal, records, history
<1>7. CASE CutLog(s)
  <2>1. [x EXCEPT !.step = IF x.report # {} THEN "readnotice" ELSE "idle",
                  !.known = {}, !.source = "none",
                  !.here = "none", !.keep = {}, !.start = FALSE] \in Checks
    BY <1>0 DEF Checks, Steps, Sources
  <2>2. x.keep \subseteq Ids /\ Unaccounted(x, idLog) \subseteq Ids
    BY <1>0 DEF Checks, Unaccounted, TypeOK
  <2> QED
    BY <1>7, <2>1, <2>2, TurnsIs DEF CutLog, TypeOK, journal
<1>8. CASE ReadNotice(s)
  <2>1. Joined(x) \subseteq Ids /\ notice \subseteq Ids
    BY <1>0 DEF Joined, Checks, TypeOK
  <2>2. [x EXCEPT !.step = "tell", !.report = Joined(x), !.keep = notice] \in Checks
    BY <1>0, <2>1 DEF Checks, Steps
  <2> QED
    BY <1>8, <2>2, TurnsIs DEF ReadNotice, TypeOK, journal, records, history
<1>9. CASE Tell(s)
  <2>1. [x EXCEPT !.step = "idle", !.report = {}, !.keep = {}] \in Checks
    BY <1>0 DEF Checks, Steps
  <2>2. x.report \subseteq Ids
    BY <1>0 DEF Checks
  <2> QED
    BY <1>9, <2>1, <2>2, TurnsIs DEF Tell, TypeOK, journal
<1> QED
  BY <1>1, <1>2, <1>3, <1>4, <1>5, <1>6, <1>7, <1>8, <1>9

(* Writing, accepting a loss and ending keep them (add_node, remove_node,     *)
(* accept_disk).                                                            *)
LEMMA WritingTypes ==
    ASSUME TypeOK, NEW s \in Sessions,
           \/ RecordLine(s) \/ NoteCreated(s) \/ AcceptDisk(s) \/ Prune(s) \/ ForgetLosses(s)
           \/ Exit(s) \/ \E i \in Ids : Create(s, i) \/ Delete(s, i)
    PROVE  TypeOK'
<1> DEFINE x == ses[s]
<1>0. x \in Checks /\ Seen(x) \in Checks
  BY SeenIsCheck DEF TypeOK
<1>1. CASE RecordLine(s)
  <2>1. [x EXCEPT !.step = "note", !.view = @ \cup x.new] \in Checks /\ x.new \subseteq Ids
    BY <1>0 DEF Checks, Steps
  <2> QED
    BY <1>1, <2>1, TurnsIs DEF RecordLine, TypeOK, journal, history
<1>2. CASE NoteCreated(s)
  <2>1. [x EXCEPT !.step = "idle", !.new = {}] \in Checks /\ x.new \subseteq Ids
    BY <1>0 DEF Checks, Steps
  <2> QED
    BY <1>2, <2>1, TurnsIs DEF NoteCreated, TypeOK, journal
<1>3. CASE AcceptDisk(s)
  <2>1. ledger \cap onBranch[head] \subseteq Ids
    BY DEF TypeOK
  <2>2. [x EXCEPT !.step = "prune", !.keep = ledger \cap onBranch[head]] \in Checks
    BY <1>0, <2>1 DEF Checks, Steps
  <2> QED
    BY <1>3, <2>2, TurnsIs DEF AcceptDisk, TypeOK, journal, records, history
<1>4. CASE Prune(s)
  <2>1. [x EXCEPT !.step = "pruned", !.keep = {}] \in Checks /\ x.keep \subseteq Ids
    BY <1>0 DEF Checks, Steps
  <2> QED
    BY <1>4, <2>1, TurnsIs DEF Prune, TypeOK, journal, history
<1>5. CASE ForgetLosses(s)
  <2>1. Seen(At("read")) \in Checks
    BY AtIsCheck, SeenIsCheck DEF Steps
  <2> QED
    BY <1>5, <2>1, TurnsIs DEF ForgetLosses, TypeOK, journal
<1>6. CASE Exit(s)
  <2>1. At("off") \in Checks /\ x.report \subseteq Ids
    BY <1>0, AtIsCheck DEF Steps, Checks
  <2> QED
    BY <1>6, <2>1, TurnsIs DEF Exit, TypeOK, journal, records
<1>7. ASSUME NEW i \in Ids, Create(s, i)
      PROVE  TypeOK'
  <2>1. [Seen(x) EXCEPT !.step = "record", !.new = {i}] \in Checks
    BY <1>0 DEF Checks, Steps
  <2>2. onBranch' \in [Branches -> SUBSET Ids]
    BY <1>7 DEF Create, TypeOK
  <2> QED
    BY <1>7, <2>1, <2>2, TurnsIs DEF Create, TypeOK, records
<1>8. ASSUME NEW i \in Ids, Delete(s, i)
      PROVE  TypeOK'
  <2>1. [Seen(x) EXCEPT !.view = @ \ {i}, !.gone = @ \cup {i}] \in Checks
    BY <1>0 DEF Checks
  <2>2. deleted' \in [Branches -> SUBSET Ids]
    BY <1>8 DEF Delete, TypeOK
  <2> QED
    BY <1>8, <2>1, <2>2, TurnsIs DEF Delete, TypeOK, records, history
<1> QED
  BY <1>1, <1>2, <1>3, <1>4, <1>5, <1>6, <1>7, <1>8

(* ... and so does what happens to the checkout from outside.                *)
LEMMA OutsideTypes ==
    ASSUME TypeOK,
           \/ ShowNotice \/ (\E i \in Ids : Lose(i)) \/ (\E b \in Branches : Switch(b))
           \/ UNCHANGED recordsVars
    PROVE  TypeOK'
<1>1. CASE ShowNotice
  BY <1>1 DEF ShowNotice, TypeOK, journal, history
<1>2. ASSUME NEW i \in Ids, Lose(i) PROVE TypeOK'
  <2>1. onBranch' \in [Branches -> SUBSET Ids]
    BY <1>2 DEF Lose, TypeOK
  <2> QED
    BY <1>2, <2>1 DEF Lose, TypeOK, records
<1>3. ASSUME NEW b \in Branches, Switch(b) PROVE TypeOK'
  <2>1. onBranch[head] \subseteq Ids /\ onBranch[b] \subseteq Ids
    BY DEF TypeOK
  <2>2. crossed' \subseteq Ids
    BY <1>3, <2>1 DEF Switch, TypeOK
  <2> QED
    BY <1>3, <2>2 DEF Switch, TypeOK, records
<1>4. CASE UNCHANGED recordsVars
  BY <1>4 DEF recordsVars, TypeOK, journal, records, history
<1> QED
  BY <1>1, <1>2, <1>3, <1>4

(* A checkout where no session ran yet.                                      *)
LEMMA InitTypes == RecordsInit => TypeOK
BY AtIsCheck DEF RecordsInit, TypeOK, NoSnapshot, Sources, Branches, Steps

(* Types hold initially and after every step.                                *)
LEMMA NextTypes == TypeOK /\ [RecordsNext]_recordsVars => TypeOK'
BY WatchTypes, WritingTypes, OutsideTypes DEF RecordsNext

-----------------------------------------------------------------------------
(* No loss is forgotten. *)

(* What a session is about to report is counted.                             *)
LEMMA ReportedHas ==
    /\ \A s \in Sessions : Reporting(s) \subseteq Reported
    /\ \A s \in Sessions : Reporting(s)' \subseteq Reported'
BY DEF Reported

(* A step of one session takes nothing out of Safe when what it holds itself  *)
(* of the notice, the snapshot and its report stays there.                   *)
LEMMA SafeGrows ==
    ASSUME NEW s \in Sessions, \A t \in Sessions \ {s} : ses'[t] = ses[t],
           Deleted \subseteq Deleted',
           told \cup notice \cup excused \cup snapshot.ids \cup Reporting(s) \subseteq Safe'
    PROVE  Safe \subseteq Safe'
<1>1. ASSUME NEW t \in Sessions PROVE Reporting(t) \subseteq Safe'
  <2>1. CASE t = s
    BY <2>1
  <2>2. CASE t # s
    <3>1. Reporting(t)' = Reporting(t)
      BY <2>2 DEF Reporting
    <3> QED
      BY <3>1, ReportedHas DEF Safe
  <2> QED
    BY <2>1, <2>2
<1>2. Reported \subseteq Safe'
  BY <1>1 DEF Reported
<1> QED
  BY <1>2 DEF Safe

(* A step of one session keeps the invariant when it keeps what concerns that *)
(* session.                                                                 *)
LEMMA OneSession ==
    ASSUME LossesInv, TypeOK', NEW s \in Sessions,
           \A t \in Sessions \ {s} : ses'[t] = ses[t],
           Safe \subseteq Safe', Deleted \subseteq Deleted',
           seen' \subseteq Safe' \cup idLog', KeptBy(s)'
    PROVE  LossesInv'
<1>1. ASSUME NEW t \in Sessions PROVE KeptBy(t)'
  <2>1. CASE t = s
    BY <2>1
  <2>2. CASE t # s
    BY <2>2 DEF LossesInv, KeptBy, Here
  <2> QED
    BY <2>1, <2>2
<1> QED
  BY <1>1 DEF LossesInv

(* A step that changes only what a session has in hand keeps the invariant    *)
(* when the report stays, and what is to be cut or replaced is safe.         *)
LEMMA HandsKeep ==
    ASSUME LossesInv, TypeOK', NEW s \in Sessions, NEW y \in Checks, Turns(s, y),
           UNCHANGED <<journal, records, told, history>>,
           Reporting(s) \subseteq Reporting(s)',
           y.gone \subseteq Deleted,
           y.step \in {"readcut", "cut"} => y.view \cup y.known \subseteq Safe,
           y.step = "snapshot" => Compared(y),
           y.step = "tell" => y.keep \subseteq y.report
    PROVE  LossesInv'
<1>1. ses'[s] = y /\ \A t \in Sessions \ {s} : ses'[t] = ses[t]
  BY TurnsIs DEF LossesInv
<1>2. Deleted' = Deleted
  BY DEF Deleted, journal
<1>3. told \cup notice \cup excused \cup snapshot.ids \cup Reporting(s) \subseteq Safe'
  BY ReportedHas DEF records, history, Safe
<1>4. Safe \subseteq Safe'
  BY <1>1, <1>2, <1>3, SafeGrows
<1>5. seen' \subseteq Safe' \cup idLog'
  BY <1>4 DEF LossesInv, records, history
<1>6. KeptBy(s)'
  BY <1>1, <1>2, <1>4 DEF KeptBy, Here
<1> QED
  BY <1>1, <1>2, <1>4, <1>5, <1>6, OneSession

(* The steps that read the files, start a check or begin to prune.           *)
LEMMA ReadsKeep ==
    ASSUME LossesInv, NEW s \in Sessions,
           \/ Boot(s) \/ CatchUp(s) \/ ReadSnapshot(s) \/ ReadLog(s)
           \/ ReadLogAgain(s) \/ ReadNotice(s) \/ AcceptDisk(s)
    PROVE  LossesInv'
<1> DEFINE x == ses[s]
<1>0. TypeOK /\ x \in Checks /\ Seen(x) \in Checks /\ KeptBy(s)
  BY SeenIsCheck DEF LossesInv, TypeOK
<1>1. TypeOK'
  BY <1>0, WatchTypes, WritingTypes
<1>2. deleted[head] \subseteq Deleted /\ x.gone \subseteq Deleted
  BY <1>0 DEF Deleted, TypeOK, KeptBy
<1>3. CASE Boot(s)
  <2> DEFINE y == [Seen(At("read")) EXCEPT !.start = TRUE]
  <2>1. At("read") \in Checks /\ At("read").gone = {} /\ At("read").step = "read"
    BY AtIsCheck DEF At, Steps
  <2>2. Seen(At("read")) \in Checks /\ Seen(At("read")).gone = deleted[head]
                                    /\ Seen(At("read")).step = "read"
    BY <2>1, <1>0, SeenIsCheck
  <2>3. y \in Checks /\ y.gone = deleted[head] /\ y.step = "read"
    BY <2>2 DEF Checks
  <2>4. Reporting(s) = {}
    BY <1>3 DEF Boot, Here, Reporting
  <2> QED
    BY <1>1, <1>2, <1>3, <2>3, <2>4, HandsKeep DEF Boot
<1>4. CASE CatchUp(s)
  <2> DEFINE y == [Seen(x) EXCEPT !.step = "read"]
  <2>1. Reporting(s) = {}
    BY <1>4 DEF CatchUp, Here, Reporting
  <2>2. Seen(x).gone = x.gone \cup deleted[head] /\ Seen(x).step = "idle"
    BY <1>0, <1>4, SeenIsCheck DEF CatchUp, Here
  <2>3. y \in Checks /\ y.gone = Seen(x).gone /\ y.step = "read"
    BY <1>0 DEF Checks, Steps
  <2> QED
    BY <1>0, <1>1, <1>2, <1>4, <2>1, <2>2, <2>3, HandsKeep DEF CatchUp
<1>5. CASE ReadSnapshot(s)
  <2> DEFINE y == [x EXCEPT !.step = IF snapshot = NoSnapshot THEN "snapshot" ELSE "readlog",
                            !.known = snapshot.ids, !.source = snapshot.source, !.here = head]
  <2>1. Reporting(s) = {}
    BY <1>5 DEF ReadSnapshot, Here, Reporting
  <2>2. y \in Checks /\ y.gone = x.gone /\ y.step \in {"snapshot", "readlog"}
    BY <1>0 DEF Checks, Steps, TypeOK, Sources
  <2>3. y.step = "snapshot" => y.known = {}
    <3>1. y.known = snapshot.ids
          /\ y.step = IF snapshot = NoSnapshot THEN "snapshot" ELSE "readlog"
      BY <1>0 DEF Checks
    <3>2. NoSnapshot.ids = {}
      BY DEF NoSnapshot
    <3> QED
      BY <3>1, <3>2
  <2>4. y.step = "snapshot" => Compared(y)
    BY <2>3 DEF Compared
  <2> QED
    BY <1>1, <1>2, <1>5, <2>1, <2>2, <2>4, HandsKeep DEF ReadSnapshot
<1>6. CASE ReadLog(s)
  <2> DEFINE z == [x EXCEPT !.known = @ \cup idLog]
             y == [z EXCEPT !.step = "snapshot", !.report = Missing(z)]
  <2>1. Reporting(s) = {}
    BY <1>6 DEF ReadLog, Here, Reporting
  <2>2. z \in Checks /\ z.gone = x.gone
    BY <1>0 DEF Checks, TypeOK
  <2>3. Missing(z) \in SUBSET Ids
    BY <2>2 DEF Missing, Checks
  <2>4. y \in Checks /\ y.gone = x.gone /\ y.step = "snapshot"
    BY <2>2, <2>3 DEF Checks, Steps
  <2>5. /\ y.known = z.known /\ y.view = z.view /\ y.gone = z.gone /\ y.report = Missing(z)
        /\ y.start = z.start /\ y.source = z.source /\ y.here = z.here
    BY <2>2, <2>3 DEF Checks
  <2>6. Compares(y) <=> Compares(z)
    BY <2>5 DEF Compares, MovedDeliberately
  <2>7. Compared(y)
    BY <2>5, <2>6 DEF Compared, Missing
  <2> QED
    BY <1>1, <1>2, <1>6, <2>1, <2>4, <2>7, HandsKeep DEF ReadLog
<1>7. CASE ReadLogAgain(s)
  <2> DEFINE y == [x EXCEPT !.step = "cut", !.keep = Unaccounted(x, idLog)]
  <2>1. y \in Checks /\ y.gone = x.gone /\ y.step = "cut" /\ y.report = x.report
                     /\ y.view = x.view /\ y.known = x.known
    BY <1>0 DEF Checks, Steps, Unaccounted, TypeOK
  <2>2. Turns(s, y)
    BY <1>7 DEF ReadLogAgain
  <2>3. Reporting(s) = x.report /\ Reporting(s)' = y.report
    BY <1>0, <1>7, <2>1, <2>2, TurnsIs DEF Reporting, ReadLogAgain, Here
  <2>4. x.view \cup x.known \subseteq Safe
    BY <1>0, <1>7 DEF KeptBy, ReadLogAgain, Here
  <2> QED
    BY <1>1, <1>2, <1>7, <2>1, <2>2, <2>3, <2>4, HandsKeep DEF ReadLogAgain
<1>8. CASE ReadNotice(s)
  <2> DEFINE y == [x EXCEPT !.step = "tell", !.report = Joined(x), !.keep = notice]
  <2>1. Joined(x) \subseteq Ids /\ notice \subseteq Ids
    BY <1>0 DEF Joined, Checks, TypeOK
  <2>2. y \in Checks /\ y.gone = x.gone /\ y.step = "tell" /\ y.keep = notice
                     /\ y.report = x.report \cup notice
    BY <1>0, <2>1 DEF Checks, Steps, Joined
  <2>3. Turns(s, y)
    BY <1>8 DEF ReadNotice
  <2>4. Reporting(s) = x.report /\ Reporting(s)' = y.report
    BY <1>0, <1>8, <2>2, <2>3, TurnsIs DEF Reporting, ReadNotice, Here
  <2> QED
    BY <1>1, <1>2, <1>8, <2>2, <2>3, <2>4, HandsKeep DEF ReadNotice
<1>9. CASE AcceptDisk(s)
  <2> DEFINE y == [x EXCEPT !.step = "prune", !.keep = ledger \cap onBranch[head]]
  <2>1. Reporting(s) = {}
    BY <1>9 DEF AcceptDisk, Here, Reporting
  <2>2. ledger \cap onBranch[head] \subseteq Ids
    BY <1>0 DEF TypeOK
  <2>3. y \in Checks /\ y.gone = x.gone /\ y.step = "prune"
    BY <1>0, <2>2 DEF Checks, Steps
  <2> QED
    BY <1>1, <1>2, <1>9, <2>1, <2>3, HandsKeep DEF AcceptDisk
<1> QED
  BY <1>3, <1>4, <1>5, <1>6, <1>7, <1>8, <1>9

(* The snapshot is replaced: what it loses and does not report is given up   *)
(* (_write_snapshot).                                                       *)
LEMMA SnapshotKeeps ==
    ASSUME LossesInv, NEW s \in Sessions, WriteSnapshot(s)
    PROVE  LossesInv'
<1> DEFINE x == ses[s]
           y == [x EXCEPT !.step = "readcut"]
<1>0. TypeOK /\ TypeOK' /\ x \in Checks /\ KeptBy(s)
  BY WatchTypes DEF LossesInv, TypeOK
<1>1. y \in Checks /\ y.step = "readcut" /\ y.view = x.view /\ y.known = x.known
      /\ y.gone = x.gone /\ y.report = x.report
  BY <1>0 DEF Checks, Steps
<1>2. ses'[s] = y /\ \A t \in Sessions \ {s} : ses'[t] = ses[t]
  BY <1>0, <1>1, TurnsIs DEF WriteSnapshot
<1>3. Deleted' = Deleted /\ told' = told /\ notice' = notice /\ idLog' = idLog
      /\ excused' = excused \cup GivenUp(x) /\ snapshot'.ids = x.view
      /\ seen' = seen \cup x.view
  BY DEF WriteSnapshot, journal, Deleted
<1>4. Reporting(s)' = x.report /\ Reporting(s) = {}
  BY <1>1, <1>2 DEF Reporting, WriteSnapshot, Here
<1>5. excused' \cup x.view \cup x.report \cup told \cup notice \cup Deleted \subseteq Safe'
  BY <1>3, <1>4, ReportedHas DEF Safe
<1>6. x.view \cup x.known \cup snapshot.ids \subseteq Safe'
  <2>1. x.known \cup snapshot.ids
          \subseteq x.view \cup x.gone \cup x.report \cup GivenUp(x)
    BY <1>0 DEF GivenUp, KeptBy, Compared, WriteSnapshot, Here
  <2> QED
    BY <1>0, <1>3, <1>5, <2>1 DEF KeptBy
<1>7. Safe \subseteq Safe'
  BY <1>2, <1>3, <1>4, <1>5, <1>6, SafeGrows
<1>8. seen' \subseteq Safe' \cup idLog'
  BY <1>3, <1>5, <1>7 DEF LossesInv
<1>9. KeptBy(s)'
  BY <1>0, <1>1, <1>2, <1>3, <1>6 DEF KeptBy, Here
<1> QED
  BY <1>0, <1>2, <1>3, <1>7, <1>8, <1>9, OneSession

(* The log is cut: what it loses was accounted for, or is given up because   *)
(* another session appended it meanwhile (_write_snapshot).                  *)
LEMMA CutKeeps ==
    ASSUME LossesInv, NEW s \in Sessions, CutLog(s)
    PROVE  LossesInv'
<1> DEFINE x == ses[s]
           y == [x EXCEPT !.step = IF x.report # {} THEN "readnotice" ELSE "idle",
                          !.known = {}, !.source = "none",
                          !.here = "none", !.keep = {}, !.start = FALSE]
<1>0. TypeOK /\ TypeOK' /\ x \in Checks /\ KeptBy(s)
  BY WatchTypes DEF LossesInv, TypeOK
<1>1. y \in Checks /\ y.step = (IF x.report # {} THEN "readnotice" ELSE "idle")
      /\ y.gone = x.gone /\ y.report = x.report
  BY <1>0 DEF Checks, Steps, Sources
<1>2. ses'[s] = y /\ \A t \in Sessions \ {s} : ses'[t] = ses[t]
  BY <1>0, <1>1, TurnsIs DEF CutLog
<1>3. Deleted' = Deleted /\ told' = told /\ notice' = notice /\ idLog' = x.keep
      /\ excused' = excused \cup (Unaccounted(x, idLog) \ x.keep)
      /\ snapshot' = snapshot /\ seen' = seen
  BY DEF CutLog, journal, Deleted
<1>4. Reporting(s)' = x.report /\ Reporting(s) = x.report
  BY <1>1, <1>2 DEF Reporting, CutLog, Here
<1>5. told \cup notice \cup excused \cup snapshot.ids \cup Reporting(s) \cup excused' \subseteq Safe'
  BY <1>3, <1>4, ReportedHas DEF Safe
<1>6. Safe \subseteq Safe'
  BY <1>2, <1>3, <1>5, SafeGrows
<1>7. x.view \cup x.known \subseteq Safe
  BY <1>0 DEF KeptBy, CutLog, Here
<1>8. idLog \subseteq Safe' \cup idLog'
  BY <1>3, <1>5, <1>6, <1>7 DEF Unaccounted
<1>9. seen' \subseteq Safe' \cup idLog'
  BY <1>3, <1>6, <1>8 DEF LossesInv
<1>10. KeptBy(s)'
  BY <1>0, <1>1, <1>2, <1>3 DEF KeptBy, Here
<1> QED
  BY <1>0, <1>2, <1>3, <1>6, <1>9, <1>10, OneSession

(* The notice is replaced by a report that it was joined to.                 *)
LEMMA TellKeeps ==
    ASSUME LossesInv, NEW s \in Sessions, Tell(s)
    PROVE  LossesInv'
<1> DEFINE x == ses[s]
           y == [x EXCEPT !.step = "idle", !.report = {}, !.keep = {}]
<1>0. TypeOK /\ TypeOK' /\ x \in Checks /\ KeptBy(s)
  BY WatchTypes DEF LossesInv, TypeOK
<1>1. y \in Checks /\ y.step = "idle" /\ y.gone = x.gone
  BY <1>0 DEF Checks, Steps
<1>2. ses'[s] = y /\ \A t \in Sessions \ {s} : ses'[t] = ses[t]
  BY <1>0, <1>1, TurnsIs DEF Tell
<1>3. Deleted' = Deleted /\ told' = told /\ notice' = x.report /\ idLog' = idLog
      /\ excused' = excused \cup (notice \ (x.report \cup x.keep))
      /\ snapshot' = snapshot /\ seen' = seen
  BY DEF Tell, journal, Deleted
<1>4. Reporting(s) = x.report /\ x.keep \subseteq x.report
  BY <1>0 DEF Reporting, Tell, Here, KeptBy
<1>5. told \cup notice \cup excused \cup snapshot.ids \cup Reporting(s) \subseteq Safe'
  BY <1>3, <1>4 DEF Safe
<1>6. Safe \subseteq Safe'
  BY <1>2, <1>3, <1>5, SafeGrows
<1>7. seen' \subseteq Safe' \cup idLog'
  BY <1>3, <1>6 DEF LossesInv
<1>8. KeptBy(s)'
  BY <1>0, <1>1, <1>2, <1>3 DEF KeptBy, Here
<1> QED
  BY <1>0, <1>2, <1>3, <1>6, <1>7, <1>8, OneSession

(* Writing a node: the line, the ledger and the log (add_node).              *)
LEMMA CreateKeeps ==
    ASSUME LossesInv, NEW s \in Sessions,
           RecordLine(s) \/ NoteCreated(s) \/ \E i \in Ids : Create(s, i)
    PROVE  LossesInv'
<1> DEFINE x == ses[s]
<1>0. TypeOK /\ TypeOK' /\ x \in Checks /\ KeptBy(s)
  BY WritingTypes DEF LossesInv, TypeOK
<1>1. ASSUME NEW y \in Checks, Turns(s, y), y.step \in {"record", "note", "idle"},
             y.gone \subseteq Deleted
      PROVE  LossesInv'
  <2>1. ses'[s] = y /\ \A t \in Sessions \ {s} : ses'[t] = ses[t]
    BY <1>0, <1>1, TurnsIs
  <2>2. Deleted' = Deleted /\ told' = told /\ notice' = notice /\ excused' = excused
        /\ snapshot' = snapshot /\ idLog \subseteq idLog' /\ seen' \subseteq seen \cup idLog'
    <3>1. CASE RecordLine(s)
      BY <3>1 DEF RecordLine, Deleted, journal, history
    <3>2. CASE NoteCreated(s)
      <4>1. deleted' = deleted /\ told' = told /\ notice' = notice /\ excused' = excused
            /\ snapshot' = snapshot
        BY <3>2 DEF NoteCreated, journal
      <4>2. idLog' = idLog \cup x.new /\ seen' = seen \cup x.new
        BY <3>2 DEF NoteCreated
      <4> QED
        BY <4>1, <4>2 DEF Deleted
    <3>3. CASE \E i \in Ids : Create(s, i)
      <4>1. deleted' = deleted /\ UNCHANGED records /\ told' = told /\ excused' = excused
            /\ seen' = seen
        BY <3>3 DEF Create
      <4> QED
        BY <4>1 DEF Deleted, records
    <3> QED
      BY <3>1, <3>2, <3>3
  <2>3. Reporting(s) = {}
    BY DEF RecordLine, NoteCreated, Create, Reporting, Here
  <2>4. told \cup notice \cup excused \cup snapshot.ids \cup Reporting(s) \subseteq Safe'
    BY <2>2, <2>3 DEF Safe
  <2>5. Safe \subseteq Safe'
    BY <2>1, <2>2, <2>4, SafeGrows
  <2>6. seen' \subseteq Safe' \cup idLog'
    BY <2>2, <2>5 DEF LossesInv
  <2>7. KeptBy(s)'
    BY <1>1, <2>1, <2>2 DEF KeptBy, Here
  <2> QED
    BY <1>0, <2>1, <2>2, <2>5, <2>6, <2>7, OneSession
<1>2. CASE RecordLine(s)
  <2> DEFINE y == [x EXCEPT !.step = "note", !.view = @ \cup x.new]
  <2>1. y \in Checks /\ y.step = "note" /\ y.gone = x.gone
    BY <1>0 DEF Checks, Steps
  <2> QED
    BY <1>0, <1>1, <1>2, <2>1 DEF RecordLine, KeptBy
<1>3. CASE NoteCreated(s)
  <2> DEFINE y == [x EXCEPT !.step = "idle", !.new = {}]
  <2>1. y \in Checks /\ y.step = "idle" /\ y.gone = x.gone
    BY <1>0 DEF Checks, Steps
  <2> QED
    BY <1>0, <1>1, <1>3, <2>1 DEF NoteCreated, KeptBy
<1>4. ASSUME NEW i \in Ids, Create(s, i) PROVE LossesInv'
  <2> DEFINE y == [Seen(x) EXCEPT !.step = "record", !.new = {i}]
  <2>1. Seen(x) \in Checks /\ Seen(x).gone = x.gone \cup deleted[head]
    BY <1>0, SeenIsCheck
  <2>2. y \in Checks /\ y.step = "record" /\ y.gone = x.gone \cup deleted[head]
    BY <2>1 DEF Checks, Steps
  <2>3. y.gone \subseteq Deleted
    BY <1>0, <2>2 DEF KeptBy, Deleted, TypeOK
  <2> QED
    BY <1>1, <1>4, <2>2, <2>3 DEF Create
<1> QED
  BY <1>2, <1>3, <1>4

(* Deleting a node (remove_node).                                            *)
LEMMA DeleteKeeps ==
    ASSUME LossesInv, NEW s \in Sessions, NEW i \in Ids, Delete(s, i)
    PROVE  LossesInv'
<1> DEFINE x == ses[s]
           y == [Seen(x) EXCEPT !.view = @ \ {i}, !.gone = @ \cup {i}]
<1>0. TypeOK /\ TypeOK' /\ x \in Checks /\ KeptBy(s) /\ Seen(x) \in Checks
  BY WritingTypes, SeenIsCheck DEF LossesInv, TypeOK
<1>1. Seen(x).step = "idle" /\ Seen(x).gone = x.gone \cup deleted[head]
  BY <1>0, SeenIsCheck DEF Delete, Here
<1>2. y \in Checks /\ y.step = "idle" /\ y.gone = x.gone \cup deleted[head] \cup {i}
  BY <1>0, <1>1 DEF Checks
<1>3. ses'[s] = y /\ \A t \in Sessions \ {s} : ses'[t] = ses[t]
  BY <1>0, <1>2, TurnsIs DEF Delete
<1>4. told' = told /\ notice' = notice /\ excused' = excused /\ snapshot' = snapshot
      /\ idLog' = idLog /\ seen' = seen
  BY DEF Delete, records, history
<1>5. \A b \in Branches : deleted[b] \subseteq deleted'[b]
  BY <1>0 DEF Delete, TypeOK
<1>6. Deleted \subseteq Deleted'
  BY <1>5 DEF Deleted
<1>7. deleted'[head] = deleted[head] \cup {i} /\ head \in Branches
  BY <1>0 DEF Delete, TypeOK
<1>8. y.gone \subseteq Deleted'
  BY <1>0, <1>2, <1>6, <1>7 DEF KeptBy, Deleted
<1>9. Reporting(s) = {}
  BY DEF Delete, Reporting, Here
<1>10. told \cup notice \cup excused \cup snapshot.ids \cup Reporting(s) \subseteq Safe'
  BY <1>4, <1>9 DEF Safe
<1>11. Safe \subseteq Safe'
  BY <1>3, <1>6, <1>10, SafeGrows
<1>12. seen' \subseteq Safe' \cup idLog'
  BY <1>4, <1>11 DEF LossesInv
<1>13. KeptBy(s)'
  BY <1>2, <1>3, <1>8 DEF KeptBy, Here
<1> QED
  BY <1>0, <1>3, <1>6, <1>11, <1>12, <1>13, OneSession

(* Accepting the losses, and ending (accept_disk).                           *)
LEMMA EndKeeps ==
    ASSUME LossesInv, NEW s \in Sessions, Prune(s) \/ ForgetLosses(s) \/ Exit(s)
    PROVE  LossesInv'
<1> DEFINE x == ses[s]
<1>0. TypeOK /\ TypeOK' /\ x \in Checks /\ KeptBy(s)
  BY WritingTypes DEF LossesInv, TypeOK
<1>1. Deleted' = Deleted /\ told' = told /\ snapshot' = snapshot /\ idLog' = idLog
      /\ seen' = seen /\ excused \subseteq excused' /\ notice \subseteq notice' \cup excused'
  BY DEF Prune, ForgetLosses, Exit, Deleted, journal, records, history
<1>2. Reporting(s) \subseteq excused'
  BY DEF Prune, ForgetLosses, Exit, Reporting, Here
<1>3. told \cup notice \cup excused \cup snapshot.ids \cup Reporting(s) \subseteq Safe'
  BY <1>1, <1>2 DEF Safe
<1>4. ASSUME NEW y \in Checks, Turns(s, y), y.step \in {"pruned", "read", "off"},
             y.gone \subseteq Deleted
      PROVE  LossesInv'
  <2>1. ses'[s] = y /\ \A t \in Sessions \ {s} : ses'[t] = ses[t]
    BY <1>0, <1>4, TurnsIs
  <2>2. Safe \subseteq Safe'
    BY <1>1, <1>3, <2>1, SafeGrows
  <2>3. seen' \subseteq Safe' \cup idLog'
    BY <1>1, <2>2 DEF LossesInv
  <2>4. KeptBy(s)'
    BY <1>1, <1>4, <2>1 DEF KeptBy, Here
  <2> QED
    BY <1>0, <1>1, <2>1, <2>2, <2>3, <2>4, OneSession
<1>5. CASE Prune(s)
  <2> DEFINE y == [x EXCEPT !.step = "pruned", !.keep = {}]
  <2>1. y \in Checks /\ y.step = "pruned" /\ y.gone = x.gone
    BY <1>0 DEF Checks, Steps
  <2> QED
    BY <1>0, <1>4, <1>5, <2>1 DEF Prune, KeptBy
<1>6. CASE ForgetLosses(s)
  <2>1. At("read") \in Checks /\ At("read").gone = {} /\ At("read").step = "read"
    BY AtIsCheck DEF At, Steps
  <2>2. Seen(At("read")) \in Checks /\ Seen(At("read")).gone = deleted[head]
                                    /\ Seen(At("read")).step = "read"
    BY <2>1, <1>0, SeenIsCheck
  <2>3. deleted[head] \subseteq Deleted
    BY <1>0 DEF TypeOK, Deleted
  <2> QED
    BY <1>4, <1>6, <2>2, <2>3 DEF ForgetLosses
<1>7. CASE Exit(s)
  <2>1. At("off") \in Checks /\ At("off").gone = {} /\ At("off").step = "off"
    BY AtIsCheck DEF At, Steps
  <2> QED
    BY <1>4, <1>7, <2>1 DEF Exit
<1> QED
  BY <1>5, <1>6, <1>7

(* The hook shows the notice; lines vanish; HEAD moves.                      *)
LEMMA LineLossKeeps ==
    ASSUME LossesInv,
           \/ ShowNotice \/ (\E i \in Ids : Lose(i)) \/ (\E b \in Branches : Switch(b))
           \/ UNCHANGED recordsVars
    PROVE  LossesInv'
<1>1. TypeOK'
  BY OutsideTypes DEF LossesInv
<1>2. ses' = ses /\ deleted' = deleted /\ snapshot' = snapshot /\ idLog' = idLog
      /\ excused' = excused /\ seen' = seen /\ told \subseteq told'
      /\ notice \subseteq notice' \cup told'
  BY DEF ShowNotice, Lose, Switch, recordsVars, journal, records, history
<1>3. Deleted' = Deleted /\ Reported' = Reported
  BY <1>2 DEF Deleted, Reported, Reporting
<1>4. Safe \subseteq Safe'
  BY <1>2, <1>3 DEF Safe
<1>5. ASSUME NEW s \in Sessions PROVE KeptBy(s)'
  BY <1>2, <1>3, <1>4 DEF LossesInv, KeptBy, Here
<1> QED
  BY <1>1, <1>2, <1>4, <1>5 DEF LossesInv

(* The invariant holds before the first session.                             *)
LEMMA InitLosses == RecordsInit => LossesInv
<1> SUFFICES ASSUME RecordsInit PROVE LossesInv
  OBVIOUS
<1>1. \A s \in Sessions : ses[s] = At("off")
  BY DEF RecordsInit
<1>2. At("off").gone = {} /\ At("off").step = "off"
  BY DEF At
<1>3. \A s \in Sessions : KeptBy(s)
  BY <1>1, <1>2 DEF KeptBy, Here
<1> QED
  BY <1>3, InitTypes DEF LossesInv, RecordsInit

(* A loss that was recorded is recorded still, told, about to be told, or was *)
(* given up at a named place (LossesAreTold): journal_watch.py.              *)
THEOREM LossesStayTold == RecordsSpec => []LossesAreTold
<1>1. LossesInv /\ [RecordsNext]_recordsVars => LossesInv'
  BY ReadsKeep, SnapshotKeeps, CutKeeps, TellKeeps, CreateKeeps, DeleteKeeps, EndKeeps,
     LineLossKeeps DEF RecordsNext
<1>2. LossesInv => LossesAreTold
  BY DEF LossesInv, LossesAreTold, Safe, Deleted, Reported
<1> QED
  BY <1>1, <1>2, InitLosses, PTL DEF RecordsSpec

-----------------------------------------------------------------------------
(* No alarm is false. *)

(* What is on its way to the log after a session has turned to y.            *)
LEMMA NotedIs ==
    ASSUME TypeOK, NEW s \in Sessions, NEW y \in Checks, Turns(s, y), NEW N,
           Noted \subseteq N, idLog' \subseteq N, y.new \subseteq N,
           y.step = "cut" => y.keep \subseteq N
    PROVE  Noted' \subseteq N
<1>1. ses'[s] = y /\ \A t \in Sessions \ {s} : ses'[t] = ses[t]
  BY TurnsIs
<1>2. ASSUME NEW t \in Sessions PROVE Noting(t)' \subseteq N
  <2>1. CASE t = s
    BY <1>1, <2>1 DEF Noting, Here
  <2>2. CASE t # s
    <3>1. Noting(t)' = Noting(t)
      BY <1>1, <2>2 DEF Noting, Here
    <3> QED
      BY <3>1 DEF Noted
  <2> QED
    BY <2>1, <2>2
<1> QED
  BY <1>2 DEF Noted

(* What a session has in hand for the log is on its way there.               *)
LEMMA NotedHas ==
    ASSUME NEW s \in Sessions
    PROVE  idLog \subseteq Noted /\ ses[s].new \subseteq Noted
           /\ (Here(s, "cut") => ses[s].keep \subseteq Noted)
BY DEF Noted, Noting

(* A step of one session that moves no branch keeps what is true of the       *)
(* others: an id that comes to a branch, or to the log, while one of them is  *)
(* starting has crossed.                                                    *)
LEMMA OthersStayTrue ==
    ASSUME AlarmsInv, NEW s \in Sessions, NEW t \in Sessions \ {s},
           ses'[t] = ses[t], head' = head,
           crossed \subseteq crossed', lost \subseteq lost',
           \A b \in Branches : onBranch[b] \subseteq onBranch'[b],
           Starting => /\ \A b \in Branches : onBranch'[b] \subseteq onBranch[b] \cup crossed'
                       /\ Noted' \subseteq Noted \cup crossed',
           snapshot.source \in Branches => snapshot'.source \in Branches
    PROVE  TrueAt(ses[t])'
<1> DEFINE x == ses[t]
<1>0. TrueAt(x) /\ x \in Checks /\ head \in Branches
  BY DEF AlarmsInv, TypeOK
<1>1. \A b \in Branches : Of(b) \subseteq Of(b)'
  BY DEF Of
<1>2. (x.step = "read" \/ x.step = "readlog") => Starting
  BY DEF Starting, Here
<1>3. x.start => ComparesAlike(ses[t])'
  <2>1. ASSUME x.start, x.step = "read"
        PROVE  onBranch'[head] \subseteq x.view \cup x.gone \cup crossed'
    BY <1>0, <1>2, <2>1 DEF TrueAt, ComparesAlike
  <2>2. ASSUME x.start, x.step = "readlog", x.source = x.here
        PROVE  /\ onBranch'[x.here] \subseteq x.view \cup x.gone \cup crossed'
               /\ x.known \cup Noted' \subseteq Of(x.here)'
    <3>1. x.here \in Branches
      BY <1>0, <2>2 DEF TrueAt
    <3>2. crossed' \subseteq Of(x.here)'
      BY DEF Of
    <3>3. /\ onBranch[x.here] \subseteq x.view \cup x.gone \cup crossed
          /\ x.known \cup Noted \subseteq Of(x.here)
      BY <1>0, <2>2 DEF TrueAt, ComparesAlike
    <3> QED
      BY <1>1, <1>2, <2>2, <3>1, <3>2, <3>3
  <2> QED
    BY <2>1, <2>2 DEF ComparesAlike, Of
<1>4. x.view \cup x.new \subseteq Of(head)'
  BY <1>0, <1>1 DEF TrueAt
<1>5. x.step \in {"readlog", "snapshot"} /\ x.start => x.view \subseteq Of(x.here)'
  <2> SUFFICES ASSUME x.step \in {"readlog", "snapshot"}, x.start
               PROVE  x.view \subseteq Of(x.here)'
    OBVIOUS
  <2>1. x.here \in Branches
    BY <1>0 DEF TrueAt
  <2> QED
    BY <1>0, <1>1, <2>1 DEF TrueAt
<1>6. x.report \subseteq lost' \cup crossed'
  BY <1>0 DEF TrueAt
<1>7. /\ x.step = "off" => x = At("off")
      /\ x.step \notin {"off", "read", "snapshot"} => snapshot'.source \in Branches
      /\ x.step \notin {"off", "read"} => x.here \in Branches \/ ~ x.start
      /\ x.step = "readlog" => x.source \in Branches /\ x.here \in Branches
  BY <1>0 DEF TrueAt
<1> QED
  BY <1>3, <1>4, <1>5, <1>6, <1>7 DEF TrueAt, Of

(* A step that leaves the journal, the snapshot and the history alone.        *)
LEMMA QuietStep ==
    ASSUME AlarmsInv, TypeOK', NEW s \in Sessions, NEW y \in Checks, Turns(s, y), TrueAt(y),
           UNCHANGED <<head, onBranch, snapshot, lost, crossed>>,
           idLog' \cup y.new \subseteq Noted, y.step = "cut" => y.keep \subseteq Noted,
           told' \cup notice' \subseteq lost \cup crossed
    PROVE  AlarmsInv'
<1>1. ses'[s] = y /\ \A t \in Sessions \ {s} : ses'[t] = ses[t]
  BY TurnsIs DEF AlarmsInv
<1>2. Noted' \subseteq Noted
  BY NotedIs DEF AlarmsInv
<1>3. ASSUME NEW t \in Sessions \ {s} PROVE TrueAt(ses[t])'
  BY <1>1, <1>2, OthersStayTrue
<1>4. ComparesAlike(y) => ComparesAlike(ses[s])'
  BY <1>1, <1>2 DEF ComparesAlike, Of
<1>5. TrueAt(ses[s])'
  BY <1>1, <1>4 DEF TrueAt, Of
<1>6. snapshot'.source \in Branches => snapshot'.ids \cup Noted' \subseteq Of(snapshot.source)'
  BY <1>2 DEF AlarmsInv, Of
<1> QED
  BY <1>3, <1>5, <1>6 DEF AlarmsInv

(* Starting and catching up: the session's view is of the branch that is      *)
(* checked out (check_between_sessions, refresh_known).                      *)
LEMMA PassTrue ==
    ASSUME AlarmsInv, NEW s \in Sessions, Boot(s) \/ CatchUp(s) \/ ForgetLosses(s)
    PROVE  AlarmsInv'
<1> DEFINE x == ses[s]
<1>0. TypeOK /\ TypeOK' /\ x \in Checks /\ TrueAt(x)
  BY WatchTypes, WritingTypes DEF AlarmsInv, TypeOK
<1>1. UNCHANGED <<head, onBranch, snapshot, lost, crossed, idLog>>
      /\ told' \cup notice' \subseteq told \cup notice
  BY DEF Boot, CatchUp, ForgetLosses, journal, records, history
<1>2. told' \cup notice' \subseteq lost \cup crossed
  BY <1>1 DEF AlarmsInv
<1>3. idLog' \subseteq Noted /\ x.new \subseteq Noted
  BY <1>1, NotedHas
<1>4. /\ Seen(At("read")) \in Checks
      /\ Seen(At("read")).view = onBranch[head] \ deleted[head]
      /\ Seen(At("read")).gone = deleted[head]
      /\ Seen(At("read")).step = "read" /\ Seen(At("read")).new = {}
      /\ Seen(At("read")).report = {} /\ Seen(At("read")).start = FALSE
  <2>1. At("read") \in Checks /\ At("read").view = {} /\ At("read").gone = {}
        /\ At("read").step = "read" /\ At("read").new = {} /\ At("read").report = {}
        /\ At("read").start = FALSE
    BY AtIsCheck DEF At, Steps
  <2> QED
    BY <1>0, <2>1, SeenIsCheck
<1>5. CASE Boot(s)
  <2> DEFINE y == [Seen(At("read")) EXCEPT !.start = TRUE]
  <2>1. y \in Checks /\ y.view = onBranch[head] \ deleted[head] /\ y.gone = deleted[head]
        /\ y.step = "read" /\ y.new = {} /\ y.report = {}
    BY <1>4 DEF Checks
  <2>2. TrueAt(y)
    BY <2>1 DEF TrueAt, ComparesAlike, Of
  <2> QED
    BY <1>0, <1>1, <1>2, <1>3, <1>5, <2>1, <2>2, QuietStep DEF Boot
<1>6. CASE ForgetLosses(s)
  <2> DEFINE y == Seen(At("read"))
  <2>1. TrueAt(y)
    BY <1>4 DEF TrueAt, ComparesAlike, Of
  <2>2. Turns(s, y)
    BY <1>6 DEF ForgetLosses
  <2> QED
    BY <1>0, <1>1, <1>2, <1>3, <1>4, <2>1, <2>2, QuietStep
<1>7. CASE CatchUp(s)
  <2>1. /\ Seen(x) \in Checks /\ Seen(x).step = "idle"
        /\ Seen(x).view = (x.view \cup onBranch[head]) \ (x.gone \cup deleted[head])
        /\ Seen(x).gone = x.gone \cup deleted[head] /\ Seen(x).new = x.new
        /\ Seen(x).report = x.report /\ Seen(x).start = x.start /\ Seen(x).here = x.here
    BY <1>0, <1>7, SeenIsCheck DEF CatchUp, Here
  <2>2. x.step = "idle"
    BY <1>7 DEF CatchUp, Here
  <2>3. PICK y \in Checks :
            /\ Turns(s, y) /\ y.step \in {"idle", "read"}
            /\ y.view = Seen(x).view /\ y.gone = Seen(x).gone /\ y.new = x.new
            /\ y.report = x.report /\ y.start = x.start /\ y.here = x.here
    <3> DEFINE z == [Seen(x) EXCEPT !.step = "read"]
    <3>1. z \in Checks /\ z.step = "read" /\ z.view = Seen(x).view /\ z.gone = Seen(x).gone
          /\ z.new = x.new /\ z.report = x.report /\ z.start = x.start /\ z.here = x.here
      BY <2>1 DEF Checks, Steps
    <3>2. Turns(s, z) \/ Turns(s, Seen(x))
      BY <1>7 DEF CatchUp
    <3> QED
      BY <2>1, <3>1, <3>2
  <2>4. TrueAt(y)
    BY <1>0, <2>1, <2>2, <2>3 DEF TrueAt, ComparesAlike, Of
  <2> QED
    BY <1>0, <1>1, <1>2, <1>3, <2>3, <2>4, QuietStep
<1> QED
  BY <1>5, <1>6, <1>7

(* The reads of a check: what a start reports as missing was lost or has       *)
(* crossed (_read_known, _moved_deliberately).                               *)
LEMMA LookTrue ==
    ASSUME AlarmsInv, NEW s \in Sessions, ReadSnapshot(s) \/ ReadLog(s)
    PROVE  AlarmsInv'
<1> DEFINE x == ses[s]
<1>0. TypeOK /\ TypeOK' /\ x \in Checks /\ TrueAt(x) /\ head \in Branches
  BY WatchTypes DEF AlarmsInv, TypeOK
<1>1. UNCHANGED <<head, onBranch, snapshot, lost, crossed, idLog, told, notice>>
  BY DEF ReadSnapshot, ReadLog, journal, records, history
<1>2. told' \cup notice' \subseteq lost \cup crossed
  BY <1>1 DEF AlarmsInv
<1>3. idLog' \subseteq Noted /\ x.new \subseteq Noted /\ idLog \subseteq Noted
  BY <1>1, NotedHas
<1>4. CASE ReadSnapshot(s)
  <2> DEFINE y == [x EXCEPT !.step = IF snapshot = NoSnapshot THEN "snapshot" ELSE "readlog",
                            !.known = snapshot.ids, !.source = snapshot.source, !.here = head]
  <2>1. x.step = "read" /\ Turns(s, y)
    BY <1>4 DEF ReadSnapshot, Here
  <2>2. /\ y \in Checks /\ y.here = head /\ y.source = snapshot.source /\ y.known = snapshot.ids
        /\ y.step = (IF snapshot = NoSnapshot THEN "snapshot" ELSE "readlog")
        /\ y.view = x.view /\ y.gone = x.gone /\ y.new = x.new /\ y.report = x.report
        /\ y.start = x.start
    BY <1>0 DEF Checks, Steps, TypeOK, Sources
  <2>3. y.step = "readlog" => snapshot.source \in Branches /\ snapshot.ids \cup Noted \subseteq Of(snapshot.source)
    BY <2>2 DEF AlarmsInv, TypeOK, Sources
  <2>4. x.start => onBranch[head] \subseteq x.view \cup x.gone \cup crossed
    BY <1>0, <2>1 DEF TrueAt, ComparesAlike
  <2>5. y.start => ComparesAlike(y)
    BY <2>2, <2>3, <2>4 DEF ComparesAlike
  <2>6. x.view \cup x.new \subseteq Of(head) /\ x.report \subseteq lost \cup crossed
    BY <1>0 DEF TrueAt
  <2>7. TrueAt(y)
    BY <1>0, <2>2, <2>3, <2>5, <2>6 DEF TrueAt
  <2>8. y.new \subseteq Noted /\ y.step # "cut"
    BY <1>3, <2>2
  <2> QED
    BY <1>0, <1>1, <1>2, <1>3, <2>1, <2>2, <2>7, <2>8, QuietStep
<1>5. CASE ReadLog(s)
  <2> DEFINE z == [x EXCEPT !.known = @ \cup idLog]
             y == [z EXCEPT !.step = "snapshot", !.report = Missing(z)]
  <2>1. x.step = "readlog" /\ Turns(s, y)
    BY <1>5 DEF ReadLog, Here
  <2>2. /\ z \in Checks /\ z.known = x.known \cup idLog /\ z.start = x.start
        /\ z.source = x.source /\ z.here = x.here /\ z.view = x.view /\ z.gone = x.gone
        /\ z.new = x.new
    BY <1>0 DEF Checks, TypeOK
  <2>3. Missing(z) \in SUBSET Ids
    BY <2>2 DEF Missing, Checks
  <2>4. /\ y \in Checks /\ y.step = "snapshot" /\ y.report = Missing(z) /\ y.start = x.start
        /\ y.here = x.here /\ y.view = x.view /\ y.new = x.new
    BY <2>2, <2>3 DEF Checks, Steps
  <2>5. Missing(z) \subseteq lost \cup crossed
    <3>1. CASE x.start /\ ~ MovedDeliberately(z)
      <4>1. x.source = x.here
        BY <1>0, <2>1, <2>2, <3>1 DEF MovedDeliberately, TrueAt, Branches
      <4>2. /\ onBranch[x.here] \subseteq x.view \cup x.gone \cup crossed
            /\ x.known \cup Noted \subseteq Of(x.here)
        BY <1>0, <2>1, <3>1, <4>1 DEF TrueAt, ComparesAlike
      <4>3. Missing(z) = (x.known \cup idLog) \ (x.view \cup x.gone)
        BY <2>2, <3>1 DEF Missing, Compares
      <4> QED
        BY <1>3, <4>2, <4>3 DEF Of
    <3>2. CASE ~ (x.start /\ ~ MovedDeliberately(z))
      BY <2>2, <3>2 DEF Missing, Compares
    <3> QED
      BY <3>1, <3>2
  <2>6. TrueAt(y)
    BY <1>0, <2>1, <2>4, <2>5 DEF TrueAt, ComparesAlike
  <2>7. y.new \subseteq Noted /\ y.step # "cut"
    BY <1>3, <2>4
  <2> QED
    BY <1>0, <1>1, <1>2, <1>3, <2>1, <2>4, <2>6, <2>7, QuietStep
<1> QED
  BY <1>4, <1>5

(* The end of a check: the log is cut, the report joins the notice.          *)
LEMMA ReportTrue ==
    ASSUME AlarmsInv, NEW s \in Sessions,
           ReadLogAgain(s) \/ CutLog(s) \/ ReadNotice(s) \/ Tell(s)
    PROVE  AlarmsInv'
<1> DEFINE x == ses[s]
<1>0. TypeOK /\ TypeOK' /\ x \in Checks /\ TrueAt(x)
  BY WatchTypes DEF AlarmsInv, TypeOK
<1>1. UNCHANGED <<head, onBranch, snapshot, lost, crossed, told>>
  BY DEF ReadLogAgain, CutLog, ReadNotice, Tell, journal, records, history
<1>2. x.report \subseteq lost \cup crossed /\ notice \subseteq lost \cup crossed
      /\ told \subseteq lost \cup crossed
  BY <1>0 DEF AlarmsInv, TrueAt
<1>3. idLog \subseteq Noted /\ x.new \subseteq Noted /\ (x.step = "cut" => x.keep \subseteq Noted)
  BY NotedHas DEF Here
<1>4. CASE ReadLogAgain(s)
  <2> DEFINE y == [x EXCEPT !.step = "cut", !.keep = Unaccounted(x, idLog)]
  <2>1. x.step = "readcut" /\ Turns(s, y) /\ idLog' = idLog /\ notice' = notice
    BY <1>4 DEF ReadLogAgain, Here, records
  <2>2. /\ y \in Checks /\ y.step = "cut" /\ y.keep = Unaccounted(x, idLog)
        /\ y.view = x.view /\ y.new = x.new /\ y.report = x.report /\ y.start = x.start
        /\ y.here = x.here
    BY <1>0 DEF Checks, Steps, Unaccounted, TypeOK
  <2>3. TrueAt(y)
    BY <1>0, <2>1, <2>2 DEF TrueAt, ComparesAlike
  <2>4. y.new \subseteq Noted /\ y.keep \subseteq Noted
    BY <1>3, <2>2 DEF Unaccounted
  <2> QED
    BY <1>0, <1>1, <1>2, <1>3, <2>1, <2>2, <2>3, <2>4, QuietStep
<1>5. CASE CutLog(s)
  <2> DEFINE y == [x EXCEPT !.step = IF x.report # {} THEN "readnotice" ELSE "idle",
                            !.known = {}, !.source = "none",
                            !.here = "none", !.keep = {}, !.start = FALSE]
  <2>1. x.step = "cut" /\ Turns(s, y) /\ idLog' = x.keep /\ notice' = notice
    BY <1>5 DEF CutLog, Here
  <2>2. /\ y \in Checks /\ y.step \in {"readnotice", "idle"} /\ y.view = x.view /\ y.new = x.new
        /\ y.report = x.report /\ y.start = FALSE
    BY <1>0 DEF Checks, Steps, Sources
  <2>3. TrueAt(y)
    BY <1>0, <2>1, <2>2 DEF TrueAt
  <2>4. idLog' \cup y.new \subseteq Noted /\ y.step # "cut"
    BY <1>3, <2>1, <2>2
  <2> QED
    BY <1>0, <1>1, <1>2, <2>1, <2>2, <2>3, <2>4, QuietStep
<1>6. CASE ReadNotice(s)
  <2> DEFINE y == [x EXCEPT !.step = "tell", !.report = Joined(x), !.keep = notice]
  <2>1. x.step = "readnotice" /\ Turns(s, y) /\ idLog' = idLog /\ notice' = notice
    BY <1>6 DEF ReadNotice, Here, records
  <2>2. Joined(x) = x.report \cup notice /\ Joined(x) \subseteq Ids
    BY <1>0 DEF Joined, Checks, TypeOK
  <2>3. /\ y \in Checks /\ y.step = "tell" /\ y.view = x.view /\ y.new = x.new
        /\ y.report = x.report \cup notice /\ y.start = x.start /\ y.here = x.here
    BY <1>0, <2>2 DEF Checks, Steps, TypeOK
  <2>4. TrueAt(y)
    BY <1>0, <1>2, <2>1, <2>3 DEF TrueAt, ComparesAlike
  <2>5. y.new \subseteq Noted /\ y.step # "cut"
    BY <1>3, <2>3
  <2> QED
    BY <1>0, <1>1, <1>2, <1>3, <2>1, <2>3, <2>4, <2>5, QuietStep
<1>7. CASE Tell(s)
  <2> DEFINE y == [x EXCEPT !.step = "idle", !.report = {}, !.keep = {}]
  <2>1. x.step = "tell" /\ Turns(s, y) /\ idLog' = idLog /\ notice' = x.report
    BY <1>7 DEF Tell, Here
  <2>2. /\ y \in Checks /\ y.step = "idle" /\ y.view = x.view /\ y.new = x.new
        /\ y.report = {} /\ y.start = x.start /\ y.here = x.here
    BY <1>0 DEF Checks, Steps
  <2>3. TrueAt(y)
    BY <1>0, <2>1, <2>2 DEF TrueAt, ComparesAlike
  <2>4. y.new \subseteq Noted /\ y.step # "cut"
    BY <1>3, <2>2
  <2> QED
    BY <1>0, <1>1, <1>2, <1>3, <2>1, <2>2, <2>3, <2>4, QuietStep
<1> QED
  BY <1>4, <1>5, <1>6, <1>7

(* Writing a line to the ledger and the log, deleting, accepting, ending.     *)
LEMMA WriteTrue ==
    ASSUME AlarmsInv, NEW s \in Sessions,
           \/ RecordLine(s) \/ NoteCreated(s) \/ AcceptDisk(s) \/ Prune(s) \/ Exit(s)
           \/ \E i \in Ids : Delete(s, i)
    PROVE  AlarmsInv'
<1> DEFINE x == ses[s]
<1>0. TypeOK /\ TypeOK' /\ x \in Checks /\ TrueAt(x)
  BY WritingTypes DEF AlarmsInv, TypeOK
<1>1. UNCHANGED <<head, onBranch, snapshot, lost, crossed, told, notice>>
  <2>1. CASE \E i \in Ids : Delete(s, i)
    BY <2>1 DEF Delete, records, history
  <2>2. CASE RecordLine(s) \/ NoteCreated(s) \/ AcceptDisk(s) \/ Prune(s) \/ Exit(s)
    BY <2>2 DEF RecordLine, NoteCreated, AcceptDisk, Prune, Exit, journal, records, history
  <2> QED
    BY <2>1, <2>2
<1>2. told' \cup notice' \subseteq lost \cup crossed
  BY <1>1 DEF AlarmsInv
<1>3. idLog \subseteq Noted /\ x.new \subseteq Noted
  BY NotedHas
<1>4. idLog' \subseteq Noted
  <2>1. CASE NoteCreated(s)
    BY <1>3, <2>1 DEF NoteCreated
  <2>2. CASE \E i \in Ids : Delete(s, i)
    BY <1>3, <2>2 DEF Delete, records
  <2>3. CASE RecordLine(s) \/ AcceptDisk(s) \/ Prune(s) \/ Exit(s)
    BY <1>3, <2>3 DEF RecordLine, AcceptDisk, Prune, Exit, records
  <2> QED
    BY <2>1, <2>2, <2>3
<1>5. ASSUME NEW y \in Checks, Turns(s, y), TrueAt(y), y.step # "cut", y.new \subseteq Noted
      PROVE  AlarmsInv'
  BY <1>0, <1>1, <1>2, <1>4, <1>5, QuietStep
<1>6. CASE RecordLine(s)
  <2> DEFINE y == [x EXCEPT !.step = "note", !.view = @ \cup x.new]
  <2>1. x.step = "record" /\ Turns(s, y)
    BY <1>6 DEF RecordLine, Here
  <2>2. /\ y \in Checks /\ y.step = "note" /\ y.view = x.view \cup x.new /\ y.new = x.new
        /\ y.report = x.report /\ y.start = x.start /\ y.here = x.here
    BY <1>0 DEF Checks, Steps
  <2>3. TrueAt(y)
    BY <1>0, <2>1, <2>2 DEF TrueAt, ComparesAlike
  <2> QED
    BY <1>3, <1>5, <2>1, <2>2, <2>3
<1>7. CASE NoteCreated(s)
  <2> DEFINE y == [x EXCEPT !.step = "idle", !.new = {}]
  <2>1. x.step = "note" /\ Turns(s, y)
    BY <1>7 DEF NoteCreated, Here
  <2>2. /\ y \in Checks /\ y.step = "idle" /\ y.view = x.view /\ y.new = {}
        /\ y.report = x.report /\ y.start = x.start /\ y.here = x.here
    BY <1>0 DEF Checks, Steps
  <2>3. TrueAt(y)
    BY <1>0, <2>1, <2>2 DEF TrueAt, ComparesAlike
  <2> QED
    BY <1>5, <2>1, <2>2, <2>3
<1>8. CASE AcceptDisk(s)
  <2> DEFINE y == [x EXCEPT !.step = "prune", !.keep = ledger \cap onBranch[head]]
  <2>1. x.step = "idle" /\ Turns(s, y) /\ ledger \cap onBranch[head] \subseteq Ids
    BY <1>0, <1>8 DEF AcceptDisk, Here, TypeOK
  <2>2. /\ y \in Checks /\ y.step = "prune" /\ y.view = x.view /\ y.new = x.new
        /\ y.report = x.report /\ y.start = x.start /\ y.here = x.here
    BY <1>0, <2>1 DEF Checks, Steps
  <2>3. TrueAt(y)
    BY <1>0, <2>1, <2>2 DEF TrueAt, ComparesAlike
  <2> QED
    BY <1>3, <1>5, <2>1, <2>2, <2>3
<1>9. CASE Prune(s)
  <2> DEFINE y == [x EXCEPT !.step = "pruned", !.keep = {}]
  <2>1. x.step = "prune" /\ Turns(s, y)
    BY <1>9 DEF Prune, Here
  <2>2. /\ y \in Checks /\ y.step = "pruned" /\ y.view = x.view /\ y.new = x.new
        /\ y.report = x.report /\ y.start = x.start /\ y.here = x.here
    BY <1>0 DEF Checks, Steps
  <2>3. TrueAt(y)
    BY <1>0, <2>1, <2>2 DEF TrueAt, ComparesAlike
  <2> QED
    BY <1>3, <1>5, <2>1, <2>2, <2>3
<1>10. CASE Exit(s)
  <2>1. At("off") \in Checks /\ At("off").step = "off" /\ At("off").view = {}
        /\ At("off").new = {} /\ At("off").report = {} /\ At("off").start = FALSE
    BY AtIsCheck DEF At, Steps
  <2>2. TrueAt(At("off"))
    BY <2>1 DEF TrueAt
  <2> QED
    BY <1>5, <1>10, <2>1, <2>2 DEF Exit
<1>11. ASSUME NEW i \in Ids, Delete(s, i) PROVE AlarmsInv'
  <2> DEFINE y == [Seen(x) EXCEPT !.view = @ \ {i}, !.gone = @ \cup {i}]
  <2>1. x.step = "idle" /\ Turns(s, y)
    BY <1>11 DEF Delete, Here
  <2>2. /\ Seen(x) \in Checks /\ Seen(x).step = "idle"
        /\ Seen(x).view = (x.view \cup onBranch[head]) \ (x.gone \cup deleted[head])
        /\ Seen(x).new = x.new /\ Seen(x).report = x.report /\ Seen(x).start = x.start
        /\ Seen(x).here = x.here
    BY <1>0, <2>1, SeenIsCheck
  <2>3. /\ y \in Checks /\ y.step = "idle" /\ y.view \subseteq x.view \cup onBranch[head]
        /\ y.new = x.new /\ y.report = x.report /\ y.start = x.start /\ y.here = x.here
    BY <2>2 DEF Checks
  <2>4. TrueAt(y)
    BY <1>0, <2>1, <2>3 DEF TrueAt, ComparesAlike, Of
  <2> QED
    BY <1>3, <1>5, <2>1, <2>3, <2>4
<1> QED
  BY <1>6, <1>7, <1>8, <1>9, <1>10, <1>11

(* The snapshot is replaced: its ids are of the branch it names, and what the  *)
(* log holds of other branches has crossed (_write_snapshot).                *)
LEMMA SnapshotTrue ==
    ASSUME AlarmsInv, NEW s \in Sessions, WriteSnapshot(s)
    PROVE  AlarmsInv'
<1> DEFINE x == ses[s]
           y == [x EXCEPT !.step = "readcut"]
<1>0. TypeOK /\ TypeOK' /\ x \in Checks /\ TrueAt(x) /\ head \in Branches
  BY WatchTypes DEF AlarmsInv, TypeOK
<1>1. /\ UNCHANGED <<head, onBranch, lost, idLog, told, notice>>
      /\ crossed' = crossed \cup (Noted \ onBranch[snapshot'.source])
      /\ snapshot' = [ids |-> x.view, source |-> IF x.start THEN x.here ELSE head]
      /\ x.step = "snapshot" /\ Turns(s, y)
  BY DEF WriteSnapshot, journal, Here
<1>2. /\ y \in Checks /\ y.step = "readcut" /\ y.view = x.view /\ y.new = x.new
      /\ y.report = x.report /\ y.start = x.start /\ y.here = x.here
  BY <1>0 DEF Checks, Steps
<1>3. ses'[s] = y /\ \A t \in Sessions \ {s} : ses'[t] = ses[t]
  BY <1>0, <1>1, <1>2, TurnsIs
<1>4. snapshot'.source \in Branches /\ snapshot'.source # "none"
  BY <1>0, <1>1 DEF TrueAt, Branches
<1>5. Noted' \subseteq Noted
  BY <1>0, <1>1, <1>2, NotedIs, NotedHas
<1>6. snapshot'.ids \cup Noted' \subseteq Of(snapshot.source)'
  <2>1. x.view \subseteq Of(snapshot'.source)
    BY <1>0, <1>1 DEF TrueAt
  <2>2. Of(snapshot.source)' = onBranch[snapshot'.source] \cup lost \cup crossed'
    BY <1>1 DEF Of
  <2> QED
    BY <1>1, <1>5, <2>1, <2>2 DEF Of
<1>7. ASSUME NEW t \in Sessions \ {s} PROVE TrueAt(ses[t])'
  BY <1>1, <1>3, <1>4, <1>5, OthersStayTrue
<1>8. TrueAt(ses[s])'
  BY <1>0, <1>1, <1>2, <1>3, <1>4 DEF TrueAt, ComparesAlike, Of
<1>9. told' \cup notice' \subseteq lost' \cup crossed'
  BY <1>1 DEF AlarmsInv
<1> QED
  BY <1>0, <1>4, <1>6, <1>7, <1>8, <1>9 DEF AlarmsInv

(* A line is written: its id is of the branch of the snapshot, or has crossed  *)
(* (add_node).                                                              *)
LEMMA CreateTrue ==
    ASSUME AlarmsInv, NEW s \in Sessions, NEW i \in Ids, Create(s, i)
    PROVE  AlarmsInv'
<1> DEFINE x == ses[s]
           y == [Seen(x) EXCEPT !.step = "record", !.new = {i}]
<1>0. TypeOK /\ TypeOK' /\ x \in Checks /\ TrueAt(x) /\ head \in Branches
  BY WritingTypes DEF AlarmsInv, TypeOK
<1>1. /\ UNCHANGED <<head, lost, snapshot, idLog, told, notice>>
      /\ crossed' = (IF Starting \/ snapshot.source # head THEN crossed \cup {i} ELSE crossed)
      /\ x.step = "idle" /\ Turns(s, y)
  BY DEF Create, records, Here
<1>2. \A b \in Branches : onBranch'[b] = IF b = head THEN onBranch[b] \cup {i} ELSE onBranch[b]
  BY <1>0 DEF Create, TypeOK
<1>3. /\ Seen(x) \in Checks
      /\ Seen(x).view = (x.view \cup onBranch[head]) \ (x.gone \cup deleted[head])
      /\ Seen(x).report = x.report /\ Seen(x).start = x.start /\ Seen(x).here = x.here
  BY <1>0, SeenIsCheck
<1>4. /\ y \in Checks /\ y.step = "record" /\ y.view = Seen(x).view /\ y.new = {i}
      /\ y.report = x.report /\ y.start = x.start /\ y.here = x.here
  BY <1>3 DEF Checks, Steps
<1>5. ses'[s] = y /\ \A t \in Sessions \ {s} : ses'[t] = ses[t]
  BY <1>0, <1>1, <1>4, TurnsIs
<1>6. Noted' \subseteq Noted \cup {i}
  <2>1. idLog' \subseteq Noted \cup {i}
    BY <1>1, NotedHas
  <2> QED
    BY <1>0, <1>1, <1>4, <2>1, NotedIs
<1>7. ASSUME NEW t \in Sessions \ {s} PROVE TrueAt(ses[t])'
  <2>1. crossed \subseteq crossed' /\ lost \subseteq lost'
    BY <1>1
  <2>2. \A b \in Branches : onBranch[b] \subseteq onBranch'[b]
    BY <1>2
  <2>3. Starting => /\ \A b \in Branches : onBranch'[b] \subseteq onBranch[b] \cup crossed'
                    /\ Noted' \subseteq Noted \cup crossed'
    BY <1>1, <1>2, <1>6
  <2> QED
    BY <1>1, <1>5, <2>1, <2>2, <2>3, OthersStayTrue
<1>8. TrueAt(ses[s])'
  <2>1. snapshot'.source \in Branches
    BY <1>0, <1>1 DEF TrueAt
  <2>2. x.view \cup onBranch[head] \cup {i} \subseteq Of(head)'
    BY <1>0, <1>1, <1>2 DEF TrueAt, Of
  <2>3. y.report \subseteq lost' \cup crossed'
    BY <1>0, <1>1, <1>4 DEF TrueAt
  <2>4. y.here \in Branches \/ ~ y.start
    BY <1>0, <1>1, <1>4 DEF TrueAt
  <2> QED
    BY <1>3, <1>4, <1>5, <2>1, <2>2, <2>3, <2>4 DEF TrueAt, ComparesAlike
<1>9. snapshot'.source \in Branches => snapshot'.ids \cup Noted' \subseteq Of(snapshot.source)'
  <2> SUFFICES ASSUME snapshot.source \in Branches
               PROVE  snapshot.ids \cup Noted' \subseteq Of(snapshot.source)'
    BY <1>1
  <2>1. snapshot.ids \cup Noted \subseteq Of(snapshot.source)
    BY DEF AlarmsInv
  <2>2. Of(snapshot.source)' = onBranch'[snapshot.source] \cup lost \cup crossed'
    BY <1>1 DEF Of
  <2>3. i \in onBranch'[snapshot.source] \cup crossed'
    BY <1>1, <1>2
  <2> QED
    BY <1>1, <1>2, <1>6, <2>1, <2>2, <2>3 DEF Of
<1>10. told' \cup notice' \subseteq lost' \cup crossed'
  BY <1>1 DEF AlarmsInv
<1>11. snapshot'.source = "none" => snapshot' = NoSnapshot
  BY <1>1 DEF AlarmsInv
<1> QED
  BY <1>0, <1>7, <1>8, <1>9, <1>10, <1>11 DEF AlarmsInv

(* A line vanishes, or the notice is shown.                                  *)
LEMMA LoseTrue ==
    ASSUME AlarmsInv, ShowNotice \/ (\E i \in Ids : Lose(i)) \/ UNCHANGED recordsVars
    PROVE  AlarmsInv'
<1>0. TypeOK /\ TypeOK'
  BY OutsideTypes DEF AlarmsInv
<1>1. /\ UNCHANGED <<head, snapshot, idLog, ses, crossed>>
      /\ lost \subseteq lost' /\ told' \cup notice' \subseteq told \cup notice
  BY DEF ShowNotice, Lose, recordsVars, journal, records, history
<1>2. \A b \in Branches : onBranch'[b] \subseteq onBranch[b] /\ Of(b) \subseteq Of(b)'
  <2>1. CASE \E i \in Ids : Lose(i)
    BY <1>0, <2>1 DEF Lose, TypeOK, Of
  <2>2. CASE ShowNotice \/ UNCHANGED recordsVars
    BY <2>2 DEF ShowNotice, recordsVars, journal, history, Of
  <2> QED
    BY <2>1, <2>2
<1>3. Noted' = Noted
  BY <1>1 DEF Noted, Noting, Here
<1>4. ASSUME NEW s \in Sessions PROVE TrueAt(ses[s])'
  <2> DEFINE x == ses[s]
  <2>0. TrueAt(x) /\ head \in Branches
    BY <1>0 DEF AlarmsInv, TypeOK
  <2>1. x.start => ComparesAlike(ses[s])'
    <3> SUFFICES ASSUME x.start PROVE ComparesAlike(ses[s])'
      OBVIOUS
    <3>1. ComparesAlike(x)
      BY <2>0 DEF TrueAt
    <3>2. x.step = "readlog" => x.here \in Branches
      BY <2>0 DEF TrueAt
    <3>3. x.step = "readlog" => Of(x.here) \subseteq Of(x.here)' /\ onBranch'[x.here] \subseteq onBranch[x.here]
      BY <1>1, <1>2, <3>2 DEF Of
    <3>4. ASSUME x.step = "readlog", x.source = x.here
          PROVE  /\ onBranch'[x.here] \subseteq x.view \cup x.gone \cup crossed'
                 /\ x.known \cup Noted' \subseteq Of(x.here)'
      BY <1>1, <1>3, <3>1, <3>3, <3>4 DEF ComparesAlike
    <3>5. x.step = "read" => onBranch'[head] \subseteq x.view \cup x.gone \cup crossed'
      BY <1>1, <1>2, <2>0, <3>1 DEF ComparesAlike
    <3>6. ses'[s] = x /\ head' = head
      BY <1>1
    <3> QED
      BY <3>4, <3>5, <3>6 DEF ComparesAlike
  <2>2. x.view \cup x.new \subseteq Of(head)'
    BY <1>1, <1>2, <2>0 DEF TrueAt, Of
  <2>3. x.step \in {"readlog", "snapshot"} /\ x.start => x.view \subseteq Of(x.here)'
    <3> SUFFICES ASSUME x.step \in {"readlog", "snapshot"}, x.start
                 PROVE  x.view \subseteq Of(x.here)'
      OBVIOUS
    <3>1. x.here \in Branches /\ x.view \subseteq Of(x.here)
      BY <2>0 DEF TrueAt
    <3> QED
      BY <1>1, <1>2, <3>1 DEF Of
  <2>4. x.report \subseteq lost' \cup crossed'
    BY <1>1, <2>0 DEF TrueAt
  <2>5. /\ x.step = "off" => x = At("off")
        /\ x.step \notin {"off", "read", "snapshot"} => snapshot'.source \in Branches
        /\ x.step \notin {"off", "read"} => x.here \in Branches \/ ~ x.start
        /\ x.step = "readlog" => x.source \in Branches /\ x.here \in Branches
    BY <1>1, <2>0 DEF TrueAt
  <2> QED
    BY <1>1, <2>1, <2>2, <2>3, <2>4, <2>5 DEF TrueAt, Of
<1>5. snapshot'.source \in Branches => snapshot'.ids \cup Noted' \subseteq Of(snapshot.source)'
  BY <1>1, <1>2, <1>3 DEF AlarmsInv, Of
<1>6. /\ told' \cup notice' \subseteq lost' \cup crossed'
      /\ snapshot'.source = "none" => snapshot' = NoSnapshot
  BY <1>1 DEF AlarmsInv
<1> QED
  BY <1>0, <1>4, <1>5, <1>6 DEF AlarmsInv

(* HEAD moves: under a running session, the branch it leaves crosses, and      *)
(* under one that is starting, also the branch it comes to.                  *)
LEMMA SwitchTrue ==
    ASSUME AlarmsInv, NEW b \in Branches, Switch(b)
    PROVE  AlarmsInv'
<1>0. TypeOK /\ TypeOK' /\ head \in Branches
  BY OutsideTypes DEF AlarmsInv, TypeOK
<1>1. /\ UNCHANGED <<onBranch, snapshot, idLog, ses, lost, told, notice>> /\ head' = b
      /\ crossed' = crossed
             \cup (IF \A s \in Sessions : Here(s, "off") THEN {} ELSE onBranch[head])
             \cup (IF Starting THEN onBranch[b] ELSE {})
  BY DEF Switch, records
<1>2. Noted' = Noted
  BY <1>1 DEF Noted, Noting, Here
<1>3. ASSUME NEW s \in Sessions PROVE TrueAt(ses[s])'
  <2> DEFINE x == ses[s]
  <2>0. TrueAt(x)
    BY DEF AlarmsInv
  <2>1. CASE x.step = "off"
    <3>1. x.view = {} /\ x.new = {} /\ x.report = {} /\ x.start = FALSE
      BY <2>0, <2>1 DEF TrueAt, At
    <3> QED
      BY <1>1, <2>0, <2>1, <3>1 DEF TrueAt
  <2>2. CASE x.step # "off"
    <3>1. onBranch[head] \subseteq crossed' /\ crossed \subseteq crossed'
      BY <1>1, <2>2 DEF Here
    <3>2. x.step \in {"read", "readlog"} => onBranch[b] \subseteq crossed'
      BY <1>1 DEF Starting, Here
    <3>3. x.view \cup x.new \subseteq Of(head)'
      BY <1>1, <2>0, <3>1 DEF TrueAt, Of
    <3>4. ComparesAlike(x) => ComparesAlike(ses[s])'
      BY <1>1, <1>2, <3>1, <3>2 DEF ComparesAlike, Of
    <3> QED
      BY <1>1, <2>0, <3>1, <3>3, <3>4 DEF TrueAt, Of
  <2> QED
    BY <2>1, <2>2
<1>4. snapshot'.source \in Branches => snapshot'.ids \cup Noted' \subseteq Of(snapshot.source)'
  BY <1>1, <1>2 DEF AlarmsInv, Of
<1>5. /\ told' \cup notice' \subseteq lost' \cup crossed'
      /\ snapshot'.source = "none" => snapshot' = NoSnapshot
  BY <1>1 DEF AlarmsInv
<1> QED
  BY <1>0, <1>3, <1>4, <1>5 DEF AlarmsInv

(* The invariant holds before the first session.                             *)
LEMMA InitAlarms == RecordsInit => AlarmsInv
<1> SUFFICES ASSUME RecordsInit PROVE AlarmsInv
  OBVIOUS
<1>1. At("off").view = {} /\ At("off").new = {} /\ At("off").report = {}
      /\ At("off").start = FALSE /\ At("off").step = "off"
  BY DEF At
<1>2. TrueAt(At("off"))
  BY <1>1 DEF TrueAt
<1>3. \A s \in Sessions : TrueAt(ses[s])
  BY <1>2 DEF RecordsInit
<1> QED
  BY <1>3, InitTypes DEF AlarmsInv, RecordsInit, NoSnapshot, Branches

(* What is told as lost was lost, but for the ids that have crossed           *)
(* (AlarmsAreTrue): check_between_sessions.                                  *)
THEOREM AlarmsStayTrue == RecordsSpec => []AlarmsAreTrue
<1>1. AlarmsInv /\ [RecordsNext]_recordsVars => AlarmsInv'
  BY PassTrue, LookTrue, ReportTrue, WriteTrue, SnapshotTrue, CreateTrue, LoseTrue, SwitchTrue
     DEF RecordsNext
<1>2. AlarmsInv => AlarmsAreTrue
  BY DEF AlarmsInv, AlarmsAreTrue
<1> QED
  BY <1>1, <1>2, InitAlarms, PTL DEF RecordsSpec

-----------------------------------------------------------------------------
(***************************************************************************)
(* SvnHygiene: what must stay on this machine is never scheduled, and what is*)
(* to be shared is scheduled when the passes are over.                     *)
(***************************************************************************)

Private == {"identity", "artifact"}

(* Nothing private is in the hands of a pass either.                          *)
Harmless(step) == step.at = "add" => (step.dirs \cup step.files) \cap Private = {}

SvnInv ==
    /\ DOMAIN pass = Passes
    /\ \A p \in Passes : Harmless(pass[p])
    /\ scheduled \cap Private = {}

-----------------------------------------------------------------------------
\* Neither the ignored file nor what a conflict leaves is ever left to add,
\* whatever the property says by now (add_new_files).
LEMMA TodoIsHarmless ==
  ASSUME NEW excluded, NEW attempted
  PROVE  Todo(excluded, attempted) \cap Private = {}
BY DEF Todo, Private, Leftover, Globbed

\* A pass that goes on to a step where it holds nothing to add.
LEMMA OtherSteps ==
  ASSUME SvnInv, NEW p \in Passes, NEW step, step.at # "add", Goes(p, step)
  PROVE  DOMAIN pass' = Passes /\ \A q \in Passes : Harmless(pass'[q])
BY DEF SvnInv, Goes, Harmless

\* The steps of a pass that schedule nothing (ensure_svn_hygiene, _run_pass).
LEMMA PreparingKeeps ==
  ASSUME SvnInv, NEW p \in Passes,
         \/ StartPass
         \/ AddFolder(p) \/ ReadProperty(p) \/ SetProperty(p) \/ CheckThenExclude(p) \/ Report(p)
  PROVE  SvnInv'
<1>1. UNCHANGED scheduled
  BY DEF StartPass, AddFolder, ReadProperty, SetProperty, CheckThenExclude, Report, copy
<1>2. \E q \in Passes : \E step : step.at # "add" /\ Goes(q, step)
  <2>1. CASE StartPass
    BY <2>1 DEF StartPass, Passes
  <2>2. CASE AddFolder(p)
    BY <2>2 DEF AddFolder, Idle
  <2>3. CASE ReadProperty(p)
    BY <2>3 DEF ReadProperty
  <2>4. CASE SetProperty(p)
    BY <2>4 DEF SetProperty, Idle
  <2>5. CASE CheckThenExclude(p)
    BY <2>5 DEF CheckThenExclude
  <2>6. CASE Report(p)
    BY <2>6 DEF Report, Idle
  <2> QED
    BY <2>1, <2>2, <2>3, <2>4, <2>5, <2>6
<1> QED
  BY <1>1, <1>2, OtherSteps DEF SvnInv

\* What a round hands on is what is left to add (add_new_files).
LEMMA RoundKeeps ==
  ASSUME SvnInv, NEW p \in Passes, Round(p)
  PROVE  SvnInv'
<1> DEFINE s == pass[p]
           todo == Todo(s.excluded, s.attempted)
           dirs == {i \in todo : Folder(i) /\ ~ OnlyExcludedInside(i, s.excluded)}
           files == {i \in todo : ~ Folder(i)}
           adding == [at |-> "add", excluded |-> s.excluded, attempted |-> s.attempted \cup todo,
                      dirs |-> dirs, files |-> files]
<1>1. UNCHANGED scheduled /\ (Goes(p, adding) \/ Goes(p, [at |-> "report"]))
  BY DEF Round, copy
<1>2. (dirs \cup files) \cap Private = {}
  <2>1. todo \cap Private = {}
    BY TodoIsHarmless
  <2> HIDE DEF todo
  <2> QED
    BY <2>1
<1>3. Harmless(adding)
  <2> HIDE DEF dirs, files
  <2> QED
    BY <1>2 DEF Harmless
<1> HIDE DEF adding
<1>4. CASE Goes(p, adding)
  BY <1>1, <1>3, <1>4 DEF SvnInv, Goes
<1>5. CASE Goes(p, [at |-> "report"])
  BY <1>1, <1>5, OtherSteps DEF SvnInv
<1> QED
  BY <1>1, <1>4, <1>5

\* svn add is given what the pass holds, and nothing else.
LEMMA AddKeeps ==
  ASSUME SvnInv, NEW p \in Passes, Add(p)
  PROVE  SvnInv'
<1>1. PICK done \in SUBSET (pass[p].dirs \cup pass[p].files) : scheduled' = scheduled \cup done
  BY DEF Add
<1>2. DOMAIN pass' = Passes /\ \A q \in Passes : Harmless(pass'[q])
  BY OtherSteps DEF Add
<1>3. (pass[p].dirs \cup pass[p].files) \cap Private = {}
  BY DEF Add, SvnInv, Harmless
<1> QED
  BY <1>1, <1>2, <1>3 DEF SvnInv

\* Files that are written, and what the user does, schedule nothing.
LEMMA OutsideKeeps ==
  ASSUME SvnInv,
         \/ \E i \in Items : WriteShared(i)
         \/ NameLocal \/ WriteTemp \/ RenameTemp \/ Conflict \/ Resolve \/ RevertProperty
  PROVE  SvnInv'
<1>1. UNCHANGED scheduled
  BY DEF WriteShared, NameLocal, WriteTemp, RenameTemp, Conflict, Resolve, RevertProperty, copy
<1>2. UNCHANGED pass \/ Goes("work", [at |-> "look"])
  BY DEF WriteShared, NameLocal, WriteTemp, RenameTemp, Conflict, Resolve, RevertProperty, Asks
<1>3. DOMAIN pass' = Passes /\ \A q \in Passes : Harmless(pass'[q])
  BY <1>2, OtherSteps DEF SvnInv, Passes
<1> QED
  BY <1>1, <1>3 DEF SvnInv

-----------------------------------------------------------------------------
\* Whatever is shared, however many passes run beside each other, calls fail and
\* the user undoes, the identity file and what a conflict leaves behind are never
\* scheduled for a commit (add_new_files).
THEOREM PrivateFilesStay == Spec => []LocalFilesStay
<1>1. Init => SvnInv
  BY DEF Init, SvnInv, Harmless, Idle, Private
<1>2. SvnInv /\ [Next]_vars => SvnInv'
  <2> SUFFICES ASSUME SvnInv, [Next]_vars
               PROVE  SvnInv'
    OBVIOUS
  <2>1. CASE UNCHANGED vars
    BY <2>1 DEF vars, copy, SvnInv, Harmless
  <2>2. CASE StartPass
    BY <2>2, PreparingKeeps DEF Passes
  <2>3. ASSUME NEW p \in Passes,
               \/ AddFolder(p) \/ ReadProperty(p) \/ SetProperty(p) \/ CheckThenExclude(p)
               \/ Report(p)
        PROVE  SvnInv'
    BY <2>3, PreparingKeeps
  <2>4. ASSUME NEW p \in Passes, Round(p) PROVE SvnInv'
    BY <2>4, RoundKeeps
  <2>5. ASSUME NEW p \in Passes, Add(p) PROVE SvnInv'
    BY <2>5, AddKeeps
  <2>6. CASE \/ \E i \in Items : WriteShared(i)
             \/ NameLocal \/ WriteTemp \/ RenameTemp \/ Conflict \/ Resolve \/ RevertProperty
    BY <2>6, OutsideKeeps
  <2> QED
    BY <2>1, <2>2, <2>3, <2>4, <2>5, <2>6 DEF Next
<1>3. SvnInv => LocalFilesStay
  BY DEF SvnInv, LocalFilesStay, Private
<1> QED
  BY <1>1, <1>2, <1>3, PTL DEF Spec

-----------------------------------------------------------------------------
(* What is to be shared.  As long as nothing went wrong and no pass was turned  *)
(* away, all that is written and not scheduled yet was written before the       *)
(* background pass that is under way, which will come to it: the pass has not   *)
(* yet tried the file, nor its folder, without scheduling it.                  *)
Unscheduled == (present \cap Shared) \ scheduled

\* The step has tried nothing of x that it does not also schedule.
TriesAndAdds(step, x) ==
    x \in step.attempted =>
        x \in scheduled \/ (step.at = "add" /\ x \in step.dirs \cup step.files)

\* The background pass will come to file i.
WillCome(i) ==
    /\ pass["work"].at \notin {"idle", "report"}
    /\ pass["work"].at \in {"status", "add"} =>
          TriesAndAdds(pass["work"], i) /\ TriesAndAdds(pass["work"], Within(i))

\* A pass that got past a step found or made what the step is for.
Prepared(step) ==
    /\ step.at \in {"list", "set", "check", "status", "add"} => versioned
    /\ step.at \in {"check", "status", "add"} => "managed" \in prop

SharedInv ==
    /\ DOMAIN pass = Passes
    /\ localOnly \subseteq {"blob"}
    /\ \A p \in Passes :
          /\ pass[p].at = "set" => "managed" \in pass[p].lines
          /\ pass[p].at \in {"status", "add"} => pass[p].excluded \subseteq {"blob"}
    /\ \A i \in present \cap Shared : Within(i) \in present
    /\ ~ troubled => ~ conflict /\ \A p \in Passes : Prepared(pass[p])
    /\ ~ troubled /\ ~ turnedAway => \A i \in Unscheduled : WillCome(i)

\* A pass goes on to a step; the other one stays where it is.
LEMMA OnePassGoes ==
  ASSUME DOMAIN pass = Passes, NEW p \in Passes, NEW step, Goes(p, step)
  PROVE  /\ DOMAIN pass' = Passes /\ pass'[p] = step
         /\ \A q \in Passes \ {p} : pass'[q] = pass[q]
BY DEF Goes

\* What is to be shared lies in one of the two folders, and no local list names it.
LEMMA SharedItems ==
  \A i \in Shared : /\ i \in Items /\ ~ Folder(i) /\ i \notin {"blob", "temp"}
                    /\ ~ Leftover(i) /\ ~ Globbed(i)
                    /\ Within(i) \in Items /\ Folder(Within(i)) /\ Within(Within(i)) = "top"
                    /\ ~ Leftover(Within(i)) /\ ~ Globbed(Within(i))
                    /\ Within(i) \notin Shared /\ i \in Inside(Within(i))
BY SharedAssumption DEF Items, Folder, Within, Leftover, Globbed, Inside

\* A step that changes nothing but one pass keeps the invariant when the step it goes
\* to is prepared, and what was to come still comes.
LEMMA GoingOn ==
  ASSUME SharedInv, NEW p \in Passes, NEW step, Goes(p, step),
         UNCHANGED <<present, localOnly, conflict>>,
         versioned => versioned', scheduled \subseteq scheduled',
         ~ troubled' => ~ troubled /\ ("managed" \in prop => "managed" \in prop'),
         ~ turnedAway' => ~ turnedAway,
         step.at = "set" => "managed" \in step.lines,
         step.at \in {"status", "add"} => step.excluded \subseteq {"blob"},
         ~ troubled' => Prepared(step)',
         p = "work" /\ ~ troubled' /\ ~ turnedAway' =>
           \A i \in Unscheduled' :
              /\ step.at \notin {"idle", "report"}
              /\ step.at \in {"status", "add"} =>
                    TriesAndAdds(step, i)' /\ TriesAndAdds(step, Within(i))'
  PROVE  SharedInv'
<1>1. /\ DOMAIN pass' = Passes /\ pass'[p] = step
      /\ \A q \in Passes \ {p} : pass'[q] = pass[q]
  BY OnePassGoes DEF SharedInv
<1>2. \A q \in Passes :
        /\ pass'[q].at = "set" => "managed" \in pass'[q].lines
        /\ pass'[q].at \in {"status", "add"} => pass'[q].excluded \subseteq {"blob"}
  BY <1>1 DEF SharedInv
<1>3. ASSUME ~ troubled' PROVE ~ conflict' /\ \A q \in Passes : Prepared(pass[q])'
  <2>1. ASSUME NEW q \in Passes \ {p} PROVE Prepared(pass[q])'
    BY <1>1, <1>3, <2>1 DEF SharedInv, Prepared
  <2>2. Prepared(pass[p])'
    BY <1>1, <1>3 DEF Prepared
  <2> QED
    BY <1>3, <2>1, <2>2 DEF SharedInv
<1>4. ASSUME ~ troubled', ~ turnedAway', NEW i \in Unscheduled' PROVE WillCome(i)'
  <2>1. CASE p = "work"
    BY <1>1, <1>4, <2>1 DEF WillCome, TriesAndAdds
  <2>2. CASE p # "work"
    <3>1. i \in Unscheduled /\ WillCome(i)
      BY <1>4 DEF SharedInv, Unscheduled
    <3>2. pass'["work"] = pass["work"]
      BY <1>1, <2>2 DEF Passes
    <3> QED
      BY <3>1, <3>2 DEF WillCome, TriesAndAdds
  <2> QED
    BY <2>1, <2>2
<1>5. localOnly' \subseteq {"blob"} /\ \A i \in present' \cap Shared : Within(i) \in present'
  BY DEF SharedInv
<1> QED
  BY <1>1, <1>2, <1>3, <1>4, <1>5 DEF SharedInv

\* A pass that starts, and its steps before anything is added: each goes on only when
\* the folder, and then the property, is there, as long as no call fails (_run_pass).
LEMMA PreparingShares ==
  ASSUME SharedInv, NEW p \in Passes,
         StartPass \/ AddFolder(p) \/ ReadProperty(p) \/ SetProperty(p)
  PROVE  SharedInv'
<1> USE DEF disk, copy, Works, Fails, Idle
<1>0. /\ DOMAIN pass = Passes
      /\ pass[p].at = "set" => "managed" \in pass[p].lines
      /\ ~ troubled => Prepared(pass[p])
      /\ p = "work" /\ ~ troubled /\ ~ turnedAway =>
           \A i \in Unscheduled : pass[p].at \notin {"idle", "report"}
  BY DEF SharedInv, WillCome
<1>1. CASE StartPass
  <2> DEFINE step == [at |-> "look"]
  <2>1. /\ "hook" \in Passes /\ Goes("hook", step)
        /\ UNCHANGED <<present, localOnly, conflict, versioned, prop, scheduled, troubled,
                       turnedAway>>
    BY <1>1 DEF StartPass, Passes
  <2>2. Prepared(step)'
    BY DEF Prepared
  <2> QED
    BY <2>1, <2>2, GoingOn
<1>2. CASE AddFolder(p)
  <2>1. /\ UNCHANGED <<present, localOnly, conflict, prop, scheduled, turnedAway>>
        /\ pass[p].at = "look"
    BY <1>2 DEF AddFolder
  <2>2. CASE Works /\ versioned' = TRUE /\ Goes(p, [at |-> "list"])
    <3> DEFINE step == [at |-> "list"]
    <3>1. Prepared(step)'
      BY <2>2 DEF Prepared
    <3> QED
      BY <2>1, <2>2, <3>1, GoingOn
  <2>3. CASE Fails /\ UNCHANGED versioned /\ Goes(p, Idle)
    BY <2>1, <2>3, GoingOn
  <2> QED
    BY <1>2, <2>2, <2>3 DEF AddFolder
<1>3. CASE ReadProperty(p)
  <2>1. /\ UNCHANGED <<present, localOnly, conflict, versioned, prop, scheduled, turnedAway>>
        /\ pass[p].at = "list"
    BY <1>3 DEF ReadProperty
  <2>2. PICK found : /\ (Works /\ found = prop) \/ (Fails /\ found = {})
                     /\ Goes(p, IF "managed" \in found THEN [at |-> "check"]
                                ELSE [at |-> "set", lines |-> found \cup {"managed"}])
    <3>1. CASE Works
      BY <1>3, <3>1 DEF ReadProperty
    <3>2. CASE Fails
      BY <1>3, <3>2 DEF ReadProperty
    <3> QED
      BY <1>3, <3>1, <3>2 DEF ReadProperty
  <2>3. ~ troubled' => ~ troubled /\ found = prop
    BY <2>2
  <2>4. CASE "managed" \in found
    <3> DEFINE step == [at |-> "check"]
    <3>1. Goes(p, step)
      BY <2>2, <2>4
    <3>2. ~ troubled' => Prepared(step)'
      BY <1>0, <2>1, <2>3, <2>4 DEF Prepared
    <3> QED
      BY <1>0, <2>1, <2>3, <3>1, <3>2, GoingOn
  <2>5. CASE "managed" \notin found
    <3> DEFINE step == [at |-> "set", lines |-> found \cup {"managed"}]
    <3>1. Goes(p, step)
      BY <2>2, <2>5
    <3>2. ~ troubled' => Prepared(step)'
      BY <1>0, <2>1, <2>3 DEF Prepared
    <3> QED
      BY <1>0, <2>1, <2>3, <3>1, <3>2, GoingOn
  <2> QED
    BY <2>4, <2>5
<1>4. CASE SetProperty(p)
  <2>1. /\ UNCHANGED <<present, localOnly, conflict, versioned, scheduled, turnedAway>>
        /\ pass[p].at = "set"
    BY <1>4 DEF SetProperty
  <2>2. CASE Works /\ prop' = pass[p].lines /\ Goes(p, [at |-> "check"])
    <3> DEFINE step == [at |-> "check"]
    <3>1. ~ troubled' => Prepared(step)'
      BY <1>0, <2>1, <2>2 DEF Prepared
    <3> QED
      BY <1>0, <2>1, <2>2, <3>1, GoingOn
  <2>3. CASE Fails /\ UNCHANGED prop /\ Goes(p, Idle)
    BY <2>1, <2>3, GoingOn
  <2> QED
    BY <1>4, <2>2, <2>3 DEF SetProperty
<1> QED
  BY <1>1, <1>2, <1>3, <1>4

\* A pass that looked whether folder and property are there begins its rounds with
\* nothing tried; one that reports leaves nothing behind (add_new_files, _run_pass).
LEMMA CheckingShares ==
  ASSUME SharedInv, NEW p \in Passes, CheckThenExclude(p) \/ Report(p)
  PROVE  SharedInv'
<1> USE DEF disk, copy, Works, Fails, Idle
<1>0. /\ DOMAIN pass = Passes /\ localOnly \subseteq {"blob"}
      /\ ~ troubled => Prepared(pass[p])
      /\ p = "work" /\ ~ troubled /\ ~ turnedAway =>
           \A i \in Unscheduled : pass[p].at \notin {"idle", "report"}
  BY DEF SharedInv, WillCome
<1>1. CASE CheckThenExclude(p)
  <2>1. /\ UNCHANGED <<present, localOnly, conflict, versioned, prop, scheduled, turnedAway>>
        /\ pass[p].at = "check"
    BY <1>1 DEF CheckThenExclude
  <2>2. CASE Works /\ versioned /\ "managed" \in prop
    <3> DEFINE step == [at |-> "status", excluded |-> localOnly, attempted |-> Nothing]
    <3>1. Goes(p, step) \/ Fails
      BY <1>1, <2>1, <2>2 DEF CheckThenExclude
    <3>2. ~ troubled' => Prepared(step)'
      BY <2>1, <2>2 DEF Prepared
    <3>3. \A x : TriesAndAdds(step, x)'
      BY DEF TriesAndAdds, Nothing
    <3>4. CASE Goes(p, step)
      BY <1>0, <2>1, <2>2, <3>2, <3>3, <3>4, GoingOn
    <3>5. CASE ~ Goes(p, step)
      <4>1. Fails /\ Goes(p, [at |-> "report"])
        BY <1>1, <2>2, <3>5 DEF CheckThenExclude
      <4> QED
        BY <2>1, <4>1, GoingOn
    <3> QED
      BY <3>4, <3>5
  <2>3. CASE Goes(p, [at |-> "report"]) /\ (Fails \/ (Works /\ ~ (versioned /\ "managed" \in prop)))
    <3>1. troubled' /\ (troubled => troubled')
      BY <1>0, <2>1, <2>3 DEF Prepared
    <3> QED
      BY <2>1, <2>3, <3>1, GoingOn
  <2> QED
    BY <1>1, <2>2, <2>3 DEF CheckThenExclude
<1>2. CASE Report(p)
  <2>1. /\ UNCHANGED <<present, localOnly, conflict, versioned, prop, scheduled, troubled,
                       turnedAway>>
        /\ pass[p].at = "report" /\ Goes(p, [at |-> "idle"])
    BY <1>2 DEF Report
  <2>2. Prepared([at |-> "idle"])' /\ Unscheduled' = Unscheduled
    BY <2>1 DEF Prepared, Unscheduled
  <2> QED
    BY <1>0, <2>1, <2>2, GoingOn
<1> QED
  BY <1>1, <1>2

\* A round that has a file to come to tries it, or its folder, and hands on to svn what
\* it tries; a round with nothing to hand on leaves nothing that is to be shared
\* ("status shows an unversioned folder but not what is in it").
LEMMA RoundShares ==
  ASSUME SharedInv, NEW p \in Passes, Round(p)
  PROVE  SharedInv'
<1> DEFINE s == pass[p]
           todo == Todo(s.excluded, s.attempted)
           dirs == {i \in todo : Folder(i) /\ ~ OnlyExcludedInside(i, s.excluded)}
           files == {i \in todo : ~ Folder(i)}
           adding == [at |-> "add", excluded |-> s.excluded, attempted |-> s.attempted \cup todo,
                      dirs |-> dirs, files |-> files]
<1>1. /\ UNCHANGED <<present, localOnly, conflict, versioned, prop, scheduled, turnedAway>>
      /\ s.at = "status" /\ s.excluded \subseteq {"blob"}
      /\ \/ Works /\ IF conflict \/ dirs \cup files = {} THEN Goes(p, [at |-> "report"])
                     ELSE Goes(p, adding)
         \/ Fails /\ Goes(p, [at |-> "report"])
  BY DEF Round, disk, copy, SharedInv
<1>2. ~ troubled => ~ conflict /\ Prepared(s)
  BY DEF SharedInv
\* what is handed on of a file that is not scheduled, and of its folder
<1>3. ASSUME NEW i \in Unscheduled
      PROVE  /\ i \in todo => i \in files
             /\ Within(i) \in todo => Within(i) \in dirs
             /\ Within(i) \in scheduled /\ i \notin s.attempted => i \in todo
             /\ Within(i) \notin scheduled /\ Within(i) \notin s.attempted => Within(i) \in todo
  <2>1. /\ i \in Shared /\ i \in present /\ i \notin scheduled /\ Within(i) \in present
        /\ i \in Items /\ ~ Folder(i) /\ i # "blob" /\ ~ Leftover(i) /\ ~ Globbed(i)
        /\ Folder(Within(i)) /\ Within(Within(i)) = "top" /\ Within(i) # "blob"
        /\ ~ Leftover(Within(i)) /\ ~ Globbed(Within(i)) /\ i \in Inside(Within(i))
    BY SharedItems DEF Unscheduled, SharedInv, Folder
  <2>2. ~ OnlyExcludedInside(Within(i), s.excluded)
    BY <1>1, <2>1 DEF OnlyExcludedInside
  <2>3. Within(i) \in scheduled => i \in Listed
    BY <2>1 DEF Listed
  <2>4. Within(i) \notin scheduled => Within(i) \in Listed
    BY <2>1 DEF Listed
  <2>5. i \notin s.excluded /\ Within(i) \notin s.excluded
    BY <1>1, <2>1
  <2> QED
    BY <2>1, <2>2, <2>3, <2>4, <2>5 DEF Todo
<1> HIDE DEF todo, dirs, files
<1>4. ASSUME p = "work", ~ troubled, ~ turnedAway, NEW i \in Unscheduled
      PROVE  TriesAndAdds(s, i) /\ TriesAndAdds(s, Within(i))
  BY <1>1, <1>4 DEF SharedInv, WillCome
<1>5. CASE Goes(p, adding) /\ Works
  <2>1. PICK step : step = adding
    OBVIOUS
  <2>2. /\ Goes(p, step) /\ step.at = "add" /\ step.excluded = s.excluded
        /\ step.attempted = s.attempted \cup todo /\ step.dirs = dirs /\ step.files = files
    BY <1>5, <2>1
  <2> HIDE DEF adding
  <2>3. ~ troubled' => Prepared(step)'
    BY <1>1, <1>2, <1>5, <2>2 DEF Works, Prepared
  <2>4. ASSUME p = "work", ~ troubled', ~ turnedAway', NEW i \in Unscheduled'
        PROVE  TriesAndAdds(step, i)' /\ TriesAndAdds(step, Within(i))'
    <3>1. i \in Unscheduled /\ ~ troubled /\ ~ turnedAway
      BY <1>1, <1>5, <2>4 DEF Unscheduled, Works
    <3>2. TriesAndAdds(s, i) /\ TriesAndAdds(s, Within(i))
      BY <1>4, <2>4, <3>1
    <3>3. /\ i \in todo => i \in files
          /\ Within(i) \in todo => Within(i) \in dirs
      BY <1>3, <3>1
    <3> QED
      BY <1>1, <2>2, <3>2, <3>3 DEF TriesAndAdds
  <2> QED
    BY <1>1, <1>5, <2>2, <2>3, <2>4, GoingOn DEF Works
<1>6. CASE Goes(p, [at |-> "report"]) /\ Works /\ (conflict \/ dirs \cup files = {})
  <2>1. Prepared([at |-> "report"])'
    BY DEF Prepared
  <2>2. p = "work" /\ ~ troubled' /\ ~ turnedAway' => Unscheduled' = {}
    <3> SUFFICES ASSUME p = "work", ~ troubled', ~ turnedAway', NEW i \in Unscheduled'
                 PROVE  FALSE
      OBVIOUS
    <3>1. i \in Unscheduled /\ ~ troubled /\ ~ turnedAway /\ ~ conflict
      BY <1>1, <1>2, <1>6 DEF Unscheduled, Works
    <3>2. i \notin todo /\ Within(i) \notin todo
      BY <1>3, <1>6, <3>1
    <3>3. i \in s.attempted \/ (Within(i) \in s.attempted /\ Within(i) \notin scheduled)
      BY <1>3, <3>1, <3>2
    <3> QED
      BY <1>1, <1>4, <3>1, <3>3 DEF TriesAndAdds, Unscheduled
  <2> QED
    BY <1>1, <1>6, <2>1, <2>2, GoingOn DEF Works
<1>7. CASE Goes(p, [at |-> "report"]) /\ Fails
  BY <1>1, <1>7, GoingOn DEF Fails
<1> QED
  BY <1>1, <1>5, <1>6, <1>7

\* svn add schedules all the round handed on that is still there (add_new_files).
LEMMA AddShares ==
  ASSUME SharedInv, NEW p \in Passes, Add(p)
  PROVE  SharedInv'
<1> PICK s : s = pass[p]
  OBVIOUS
<1> DEFINE step == [at |-> "status", excluded |-> s.excluded, attempted |-> s.attempted]
<1>1. /\ UNCHANGED <<present, localOnly, conflict, versioned, prop, turnedAway>>
      /\ s.at = "add" /\ s.excluded \subseteq {"blob"} /\ Goes(p, step)
      /\ scheduled \subseteq scheduled'
      /\ (Works /\ scheduled' = scheduled \cup ((s.dirs \cup s.files) \cap present)) \/ Fails
  BY DEF Add, disk, SharedInv
<1>2. ~ troubled => ~ conflict /\ Prepared(s)
  BY DEF SharedInv
<1>3. ~ troubled' => Prepared(step)'
  BY <1>1, <1>2 DEF Prepared, Works, Fails
<1>4. ASSUME p = "work", ~ troubled', ~ turnedAway', NEW i \in Unscheduled'
      PROVE  TriesAndAdds(step, i)' /\ TriesAndAdds(step, Within(i))'
  <2>1. Works /\ ~ troubled /\ ~ turnedAway /\ i \in Unscheduled
    BY <1>1, <1>4 DEF Unscheduled, Works, Fails
  <2>2. TriesAndAdds(s, i) /\ TriesAndAdds(s, Within(i))
    BY <1>1, <1>4, <2>1 DEF SharedInv, WillCome
  <2>3. i \in present /\ Within(i) \in present
    BY <2>1 DEF SharedInv, Unscheduled
  <2>4. scheduled' = scheduled \cup ((s.dirs \cup s.files) \cap present)
    BY <1>1, <1>4, <2>1 DEF Fails
  <2> QED
    BY <2>2, <2>3, <2>4 DEF TriesAndAdds
<1>5. \/ UNCHANGED troubled \/ troubled'
  BY <1>1 DEF Works, Fails
<1> QED
  BY <1>1, <1>3, <1>4, <1>5, GoingOn

\* A file that is written asks for the background pass: it starts, with everything to
\* come, or one is under way and the call is turned away (add_new_files_in_background).
LEMMA AskingShares ==
  ASSUME SharedInv, Asks,
         UNCHANGED <<localOnly, versioned, prop, scheduled, conflict, troubled>>,
         \A i \in present' \cap Shared : Within(i) \in present'
  PROVE  SharedInv'
<1> DEFINE step == [at |-> "look"]
<1>1. CASE Goes("work", step) /\ UNCHANGED turnedAway
  <2>1. /\ DOMAIN pass' = Passes /\ pass'["work"] = step
        /\ \A q \in Passes \ {"work"} : pass'[q] = pass[q]
    BY <1>1, OnePassGoes DEF SharedInv, Passes
  <2>2. \A q \in Passes :
          /\ pass'[q].at = "set" => "managed" \in pass'[q].lines
          /\ pass'[q].at \in {"status", "add"} => pass'[q].excluded \subseteq {"blob"}
          /\ ~ troubled' => Prepared(pass[q])'
    BY <2>1 DEF SharedInv, Prepared
  <2>3. \A i \in Unscheduled' : WillCome(i)'
    BY <2>1 DEF WillCome
  <2> QED
    BY <2>1, <2>2, <2>3 DEF SharedInv
<1>2. CASE UNCHANGED pass /\ turnedAway'
  BY <1>2 DEF SharedInv, Prepared
<1> QED
  BY <1>1, <1>2 DEF Asks

\* Files that are written, and what the user does, leave what is to come to a pass
\* that will come to it.
LEMMA OutsideShares ==
  ASSUME SharedInv,
         \/ \E i \in Items : WriteShared(i)
         \/ NameLocal \/ WriteTemp \/ RenameTemp \/ Conflict \/ Resolve \/ RevertProperty
  PROVE  SharedInv'
<1> USE DEF disk, copy
<1>1. ASSUME NEW i \in Items, WriteShared(i) PROVE SharedInv'
  <2>1. \A j \in present' \cap Shared : j \in present \/ j = i
    BY <1>1, SharedItems DEF WriteShared
  <2>2. \A j \in present' \cap Shared : Within(j) \in present'
    BY <1>1, <2>1 DEF WriteShared, SharedInv
  <2> QED
    BY <1>1, <2>2, AskingShares DEF WriteShared
<1>2. CASE RenameTemp
  <2>1. \A i \in present' \cap Shared : i \in present /\ Within(i) # "temp"
    BY <1>2, SharedItems DEF RenameTemp, Folder
  <2> QED
    BY <1>2, <2>1, AskingShares DEF RenameTemp, SharedInv
<1>3. CASE NameLocal \/ WriteTemp \/ Resolve
  <2>1. /\ present \subseteq present' /\ present' \cap Shared = present \cap Shared
        /\ localOnly' \subseteq {"blob"} /\ (conflict' => conflict)
        /\ UNCHANGED <<versioned, prop, scheduled, pass, troubled, turnedAway>>
    <3>1. "temp" \notin Shared /\ "documents" \notin Shared
      BY SharedItems DEF Folder
    <3>2. localOnly \subseteq {"blob"}
      BY DEF SharedInv
    <3>3. CASE NameLocal
      BY <3>2, <3>3 DEF NameLocal
    <3>4. CASE WriteTemp
      BY <3>1, <3>2, <3>4 DEF WriteTemp
    <3>5. CASE Resolve
      BY <3>2, <3>5 DEF Resolve
    <3> QED
      BY <1>3, <3>3, <3>4, <3>5
  <2>2. Unscheduled' = Unscheduled
    BY <2>1 DEF Unscheduled
  <2>3. \A i \in Unscheduled : WillCome(i)' <=> WillCome(i)
    BY <2>1 DEF WillCome, TriesAndAdds
  <2>4. \A p \in Passes : Prepared(pass[p])' <=> Prepared(pass[p])
    BY <2>1 DEF Prepared
  <2> QED
    BY <2>1, <2>2, <2>3, <2>4 DEF SharedInv
<1>4. CASE Conflict \/ RevertProperty
  <2>1. /\ present \subseteq present' /\ present' \cap Shared = present \cap Shared
        /\ UNCHANGED <<localOnly, pass>> /\ troubled'
    BY <1>4, SharedItems DEF Conflict, RevertProperty, Edits, Leftover
  <2> QED
    BY <2>1 DEF SharedInv
<1> QED
  BY <1>1, <1>2, <1>3, <1>4

\* When all passes are over, everything that is to be shared is scheduled, also what is
\* in a folder that was new, however writes and passes cross, unless a call was turned
\* away, a command failed or the user interfered (add_new_files).
THEOREM SharedGetsScheduled == Spec => []SharedIsScheduled
<1>1. Init => SharedInv
  BY SharedItems DEF Init, SharedInv, Unscheduled, Prepared, Idle, Globbed
<1>2. SharedInv /\ [Next]_vars => SharedInv'
  <2> SUFFICES ASSUME SharedInv, [Next]_vars
               PROVE  SharedInv'
    OBVIOUS
  <2>1. CASE UNCHANGED vars
    BY <2>1 DEF vars, SharedInv, Prepared, Unscheduled, WillCome, TriesAndAdds
  <2>2. CASE StartPass
    BY <2>2, PreparingShares DEF Passes
  <2>3. ASSUME NEW p \in Passes, AddFolder(p) \/ ReadProperty(p) \/ SetProperty(p)
        PROVE  SharedInv'
    BY <2>3, PreparingShares
  <2>4. ASSUME NEW p \in Passes, CheckThenExclude(p) \/ Report(p) PROVE SharedInv'
    BY <2>4, CheckingShares
  <2>5. ASSUME NEW p \in Passes, Round(p) PROVE SharedInv'
    BY <2>5, RoundShares
  <2>6. ASSUME NEW p \in Passes, Add(p) PROVE SharedInv'
    BY <2>6, AddShares
  <2>7. CASE \/ \E i \in Items : WriteShared(i)
             \/ NameLocal \/ WriteTemp \/ RenameTemp \/ Conflict \/ Resolve \/ RevertProperty
    BY <2>7, OutsideShares
  <2> QED
    BY <2>1, <2>2, <2>3, <2>4, <2>5, <2>6, <2>7 DEF Next
<1>3. SharedInv => SharedIsScheduled
  BY DEF SharedInv, SharedIsScheduled, Unscheduled, WillCome, Free, Passes
<1> QED
  BY <1>1, <1>2, <1>3, PTL DEF Spec

-----------------------------------------------------------------------------
(***************************************************************************)
(* Identity: what is signed as confirmed was answered there last, however  *)
(* folders and the files in them are moved and copied.                     *)
(***************************************************************************)

(* The inductive invariant.                                                 *)

Bindings == [name : Persons, bound : {TRUE}, site : Sites, path : Paths, id : Nat]
Answers == [given : Bindings, nr : Nat]
Stamps == [name : Persons \cup {Git}, confirmed : BOOLEAN]
Writing == {"write", "again"}
Gated == [at : Writing, path : Paths, site : Sites, stamp : Stamps, missing : BOOLEAN,
          id : Nat, seen : Nat]
Calls == Gated \cup [at : {"profile"}, path : Paths, site : Sites, name : Persons]
               \cup [at : {"moving"}, path : Paths] \cup {NotCalling}

IdentityTypes ==
    /\ folder \in [Paths -> Nat]
    /\ made \in Nat
    /\ file \in [Paths -> Bindings \cup {Unbound, NoFile}]
    /\ legacy \in [Paths -> {Unbound, NoFile}]
    /\ session \in [Servers -> Calls]
    /\ answers \in SUBSET Answers /\ IsFiniteSet(answers)

(* Folders are numbered as they are made, and no two have one number.        *)
FoldersOK ==
    /\ \A p \in Paths : folder[p] <= made
    /\ \A p, q \in Paths : folder[p] = folder[q] /\ folder[p] # 0 => p = q

(* Answers are numbered too, and given in a folder that had been made.       *)
AnswersOK ==
    \A a \in answers : /\ a.nr <= Cardinality(answers)
                       /\ a.given.id <= made /\ a.given.id # 0

(* What is bound was answered, and nobody answered in that folder later; a    *)
(* folder in which somebody answered has a file.                            *)
NewestIn(f, id) ==
    \E a \in answers : /\ a.given = f
                       /\ \A b \in answers : b.given.id = id => b.nr <= a.nr
FilesOK ==
    \A p \in Paths : folder[p] # 0 =>
        /\ file[p] \in Bindings => NewestIn(file[p], folder[p])
        /\ \A b \in answers : b.given.id = folder[p] => file[p] # NoFile

(* Who is about to sign as confirmed, and who did.                           *)
SignsRightly(x) ==
    x.stamp.confirmed =>
        \E a \in Given(x) : /\ a.given.name = x.stamp.name
                            /\ \A b \in There(x) : b.nr <= a.nr

SigningOK ==
    \A s \in Servers : session[s].at \in Writing =>
        session[s].seen <= Cardinality(answers) /\ SignsRightly(session[s])
RecordsOK ==
    \A r \in signed : r.seen \in Nat /\ r.seen <= Cardinality(answers) /\ SignsRightly(r)

IdentityInv ==
    IdentityTypes /\ FoldersOK /\ AnswersOK /\ FilesOK /\ SigningOK /\ RecordsOK

-----------------------------------------------------------------------------
(* What changes and what does not.                                          *)

\* What is bound is neither missing nor of the kind that was kept before.
LEMMA BoundFiles ==
    /\ NoFile \notin Bindings /\ Unbound \notin Bindings /\ Unbound # NoFile
    /\ \A f \in Bindings \cup {Unbound} : f.bound <=> f \in Bindings
<1>1. Unbound # NoFile
  <2>1. Unbound.name = "somebody" /\ NoFile.name = "none"
    BY DEF NoFile, Unbound, Nobody
  <2> QED
    BY <2>1
<1>2. NoFile \notin Bindings
  <2>1. DOMAIN NoFile = {"name"}
    BY DEF NoFile
  <2>2. \A f \in Bindings : "bound" \in DOMAIN f
    BY DEF Bindings
  <2> QED
    BY <2>1, <2>2
<1>3. ~ Unbound.bound /\ \A f \in Bindings : f.bound
  BY DEF Unbound, Bindings
<1> QED
  BY <1>1, <1>2, <1>3

\* Later answers do not make a signature wrong.
LEMMA LaterAnswers ==
    ASSUME NEW x, SignsRightly(x), answers \subseteq answers',
           \A b \in answers' \ answers : ~ (b.nr <= x.seen)
    PROVE  SignsRightly(x)'
<1>1. Given(x)' = Given(x) /\ There(x)' = There(x)
  BY DEF Given, There
<1> QED
  BY <1>1 DEF SignsRightly

\* A call goes on with the signature it holds.
SignsAlike(x, y) ==
    /\ x.at \in Writing /\ x \in Gated /\ y \in Gated
    /\ y.path = x.path /\ y.site = x.site /\ y.stamp = x.stamp
    /\ y.id = x.id /\ y.seen = x.seen

(* The calls that hold no signature stay right, and so do those that keep     *)
(* theirs.                                                                  *)
LEMMA CallsStay ==
    ASSUME IdentityInv, UNCHANGED answers, session' \in [Servers -> Calls],
           \A s \in Servers :
              \/ session'[s].at \notin Writing
              \/ session'[s] = session[s]
              \/ SignsAlike(session[s], session'[s])
    PROVE  SigningOK'
<1> SUFFICES ASSUME NEW s \in Servers, session'[s].at \in Writing
             PROVE  session'[s].seen <= Cardinality(answers') /\ SignsRightly(session[s])'
  BY DEF SigningOK
<1>1. CASE session'[s] = session[s]
  BY <1>1 DEF IdentityInv, SigningOK, SignsRightly, Given, There
<1>2. CASE SignsAlike(session[s], session'[s])
  <2>1. session[s].seen <= Cardinality(answers) /\ SignsRightly(session[s])
    BY <1>2 DEF SignsAlike, IdentityInv, SigningOK
  <2> QED
    BY <1>2, <2>1 DEF SignsAlike, SignsRightly, Given, There
<1> QED
  BY <1>1, <1>2

\* Records stay right while nobody answers.
LEMMA RecordsStay ==
    ASSUME IdentityInv, UNCHANGED <<answers, signed>>
    PROVE  RecordsOK'
BY DEF IdentityInv, RecordsOK, SignsRightly, Given, There

-----------------------------------------------------------------------------
(* The actions.                                                             *)

\* Somebody answers: the file of that folder is the newest answer.
LEMMA AnswerKeeps ==
    ASSUME IdentityInv, NEW s \in Servers, NEW path \in Paths, NEW site \in Sites,
           NEW p \in Persons, WriteConfirmed(s, path, site, p)
    PROVE  IdentityInv'
<1> DEFINE binding == [name |-> p, bound |-> TRUE, site |-> site, path |-> path,
                       id |-> folder[path]]
           new == [given |-> binding, nr |-> Cardinality(answers) + 1]
<1>1. /\ file' = [file EXCEPT ![path] = binding] /\ answers' = answers \cup {new}
      /\ session' = [session EXCEPT ![s] = [at |-> "profile", path |-> path, site |-> site,
                                            name |-> p]]
      /\ folder[path] # 0 /\ UNCHANGED <<folder, legacy, made, signed>>
  BY DEF WriteConfirmed, Starts
<1>2. Cardinality(answers) \in Nat
  BY FS_CardinalityType DEF IdentityInv, IdentityTypes
<1>3. binding \in Bindings /\ new \in Answers /\ new \notin answers
  BY <1>2 DEF IdentityInv, IdentityTypes, AnswersOK, Bindings, Answers
<1>4. IsFiniteSet(answers') /\ Cardinality(answers') = Cardinality(answers) + 1
  BY <1>1, <1>3, FS_AddElement DEF IdentityInv, IdentityTypes
<1>5. IdentityTypes'
  BY <1>1, <1>3, <1>4 DEF IdentityInv, IdentityTypes, Calls
<1>6. FoldersOK'
  BY <1>1 DEF IdentityInv, FoldersOK
<1>7. AnswersOK'
  BY <1>1, <1>2, <1>4 DEF IdentityInv, IdentityTypes, AnswersOK, FoldersOK, Answers
<1>8. FilesOK'
  <2> SUFFICES ASSUME NEW q \in Paths, folder[q] # 0
               PROVE  /\ file'[q] \in Bindings => NewestIn(file[q], folder[q])'
                      /\ \A b \in answers' : b.given.id = folder[q] => file'[q] # NoFile
    BY <1>1 DEF FilesOK
  <2>1. CASE q = path
    <3>1. file'[q] = binding
      BY <1>1, <2>1 DEF IdentityInv, IdentityTypes
    <3>2. \A b \in answers' : b.nr <= new.nr
      BY <1>1, <1>2 DEF IdentityInv, IdentityTypes, AnswersOK, Answers
    <3> QED
      BY <1>1, <1>3, <2>1, <3>1, <3>2, BoundFiles DEF NewestIn
  <2>2. CASE q # path
    <3>1. file'[q] = file[q] /\ new.given.id # folder[q]
      BY <1>1, <2>2 DEF IdentityInv, IdentityTypes, FoldersOK
    <3> QED
      BY <1>1, <3>1 DEF IdentityInv, FilesOK, NewestIn
  <2> QED
    BY <2>1, <2>2
<1>9. \A b \in answers' \ answers : \A n \in Nat : n <= Cardinality(answers) => ~ (b.nr <= n)
  BY <1>1, <1>2
<1>10. SigningOK'
  <2> SUFFICES ASSUME NEW t \in Servers, session'[t].at \in Writing
               PROVE  session'[t].seen <= Cardinality(answers') /\ SignsRightly(session[t])'
    BY DEF SigningOK
  <2>1. PICK k : k = session[t]
    OBVIOUS
  <2>2. session'[t] = k /\ k \in Gated
    BY <1>1, <2>1 DEF IdentityInv, IdentityTypes, Calls, Gated, NotCalling, Writing
  <2>3. k.seen \in Nat /\ k.seen <= Cardinality(answers) /\ SignsRightly(k)
    BY <2>1, <2>2 DEF IdentityInv, SigningOK, Gated
  <2>4. SignsRightly(k)'
    BY <1>1, <1>9, <2>3, LaterAnswers
  <2> QED
    BY <1>2, <1>4, <2>2, <2>3, <2>4
<1>11. RecordsOK'
  <2> SUFFICES ASSUME NEW r \in signed
               PROVE  /\ r.seen \in Nat /\ r.seen <= Cardinality(answers')
                      /\ SignsRightly(r)'
    BY <1>1 DEF RecordsOK
  <2>1. r.seen \in Nat /\ r.seen <= Cardinality(answers) /\ SignsRightly(r)
    BY DEF IdentityInv, RecordsOK
  <2> QED
    BY <1>1, <1>2, <1>4, <1>9, <2>1, LaterAnswers
<1> QED
  BY <1>5, <1>6, <1>7, <1>8, <1>10, <1>11 DEF IdentityInv

\* The call is let through with the stamp it got, or not yet.
LEMMA GateKeeps ==
    ASSUME IdentityInv, NEW s \in Servers, NEW path \in Paths, NEW site \in Sites,
           NEW removed \in BOOLEAN, Gate(s, path, site, removed)
    PROVE  IdentityInv'
<1> DEFINE stamp == Acting(path, site)
           newest == Cardinality(answers)
           missing == stamp.confirmed /\ profile[stamp.name] = Nobody
<1>0. missing \in BOOLEAN
  OBVIOUS
<1>1. PICK k : /\ session' = [session EXCEPT ![s] = k]
               /\ \E at \in Writing :
                     k = [at |-> at, path |-> path, site |-> site, stamp |-> stamp,
                          missing |-> missing, id |-> folder[path], seen |-> newest]
  BY DEF Gate, Starts, Writing
<1>2. folder[path] # 0 /\ UNCHANGED <<folder, file, legacy, profile, made, answers, signed>>
  BY DEF Gate
<1>3. newest \in Nat /\ folder[path] \in Nat
  BY FS_CardinalityType DEF IdentityInv, IdentityTypes
<1>4. ASSUME Status(path, site) = "ok" PROVE stamp \in Stamps /\ SignsRightly(k)
  <2> DEFINE f == file[path]
  <2>1. /\ ReadFile(path) = f /\ f \in Bindings /\ f.site = site
        /\ f.path = path \/ f.id = folder[path]
    BY <1>4, BoundFiles DEF Status, Belongs, ReadFile, IdentityInv, IdentityTypes
  <2>2. stamp = [name |-> f.name, confirmed |-> TRUE]
    BY <1>4, <2>1 DEF Acting
  <2>3. PICK a \in answers : a.given = f /\ \A b \in answers : b.given.id = folder[path] => b.nr <= a.nr
    BY <1>2, <2>1 DEF IdentityInv, FilesOK, NewestIn
  <2>4. a.nr <= newest
    BY DEF IdentityInv, AnswersOK
  <2>5. SignsRightly(k)
    BY <1>1, <2>1, <2>2, <2>3, <2>4 DEF SignsRightly, Given, There
  <2>6. stamp \in Stamps
    <3>1. f.name \in Persons
      BY <2>1 DEF Bindings
    <3> QED
      BY <2>2, <3>1 DEF Stamps
  <2> QED
    BY <2>5, <2>6
<1>5. ASSUME Status(path, site) # "ok" PROVE stamp \in Stamps /\ SignsRightly(k)
  <2>1. stamp = [name |-> Git, confirmed |-> FALSE]
    BY <1>5 DEF Acting, FromGit
  <2> QED
    BY <1>1, <2>1 DEF SignsRightly, Stamps
<1>6. stamp \in Stamps /\ SignsRightly(k)
  BY <1>4, <1>5
<1>7. k \in Gated
  <2> HIDE DEF missing
  <2> QED
    BY <1>0, <1>1, <1>3, <1>6 DEF Gated
<1>8. IdentityTypes'
  BY <1>1, <1>2, <1>7 DEF IdentityInv, IdentityTypes, Calls
<1>9. FoldersOK' /\ AnswersOK' /\ FilesOK'
  BY <1>2 DEF IdentityInv, FoldersOK, AnswersOK, FilesOK, NewestIn
<1>10. SigningOK'
  <2> SUFFICES ASSUME NEW t \in Servers, session'[t].at \in Writing
               PROVE  session'[t].seen <= Cardinality(answers') /\ SignsRightly(session[t])'
    BY DEF SigningOK
  <2>1. CASE t = s
    <3>1. session'[t] = k /\ k.seen = newest
      BY <1>1, <2>1 DEF IdentityInv, IdentityTypes
    <3>2. SignsRightly(k)'
      BY <1>2, <1>6 DEF SignsRightly, Given, There
    <3> QED
      BY <1>2, <1>3, <3>1, <3>2
  <2>2. CASE t # s
    <3>1. session'[t] = session[t]
      BY <1>1, <2>2 DEF IdentityInv, IdentityTypes
    <3> QED
      BY <1>2, <3>1 DEF IdentityInv, SigningOK, SignsRightly, Given, There
  <2> QED
    BY <2>1, <2>2
<1>11. RecordsOK'
  BY <1>2, RecordsStay
<1> QED
  BY <1>8, <1>9, <1>10, <1>11 DEF IdentityInv

\* What was let through is recorded.
LEMMA RecordKeeps ==
    ASSUME IdentityInv, NEW s \in Servers, Record(s)
    PROVE  IdentityInv'
<1> DEFINE k == session[s]
           r == [stamp |-> k.stamp, path |-> k.path, site |-> k.site, id |-> k.id, seen |-> k.seen]
<1>1. /\ k.at = "write" /\ session' = [session EXCEPT ![s] = NotCalling]
      /\ signed' = signed \cup {r}
      /\ UNCHANGED <<folder, file, legacy, made, answers>>
  BY DEF Record, Ends
<1>2. k \in Gated
  BY <1>1 DEF IdentityInv, IdentityTypes, Calls, NotCalling
<1>3. IdentityTypes'
  BY <1>1 DEF IdentityInv, IdentityTypes, Calls
<1>4. FoldersOK' /\ AnswersOK' /\ FilesOK'
  BY <1>1 DEF IdentityInv, FoldersOK, AnswersOK, FilesOK, NewestIn
<1>5. SigningOK'
  <2>1. \A t \in Servers : session'[t].at \notin Writing \/ session'[t] = session[t]
    BY <1>1 DEF IdentityInv, IdentityTypes, NotCalling, Writing
  <2> QED
    BY <1>1, <1>3, <2>1, CallsStay DEF IdentityTypes
<1>6. RecordsOK'
  <2>1. r.seen \in Nat /\ r.seen <= Cardinality(answers) /\ SignsRightly(r)
    BY <1>1, <1>2 DEF IdentityInv, SigningOK, Gated, SignsRightly, Given, There
  <2> QED
    BY <1>1, <2>1 DEF IdentityInv, RecordsOK, SignsRightly, Given, There
<1> QED
  BY <1>3, <1>4, <1>5, <1>6 DEF IdentityInv

(* What concerns profiles, the second reading of the gate, and the file that  *)
(* was kept before.                                                         *)
LEMMA CallsKeep ==
    ASSUME IdentityInv, NEW s \in Servers,
           \/ \E complete \in BOOLEAN : SetProfile(s, complete)
           \/ Require(s)
           \/ \E path \in Paths : Relocate(s, path)
           \/ MoveFile(s)
    PROVE  IdentityInv'
<1>1. UNCHANGED <<folder, made, answers, signed>>
  BY DEF SetProfile, Require, Relocate, MoveFile
<1>2. /\ session' \in [Servers -> Calls]
      /\ \A t \in Servers :
            \/ session'[t].at \notin Writing
            \/ session'[t] = session[t]
            \/ SignsAlike(session[t], session'[t])
  <2>1. CASE session' = [session EXCEPT ![s] = NotCalling]
    BY <2>1 DEF IdentityInv, IdentityTypes, Calls, NotCalling, Writing
  <2>2. CASE session' = [session EXCEPT ![s].at = "write"] /\ session[s].at = "again"
    <3>1. session[s] \in Gated
      BY <2>2 DEF IdentityInv, IdentityTypes, Calls, NotCalling
    <3>2. [session[s] EXCEPT !.at = "write"] \in Gated
      BY <3>1 DEF Gated, Writing
    <3>3. session'[s] = [session[s] EXCEPT !.at = "write"]
          /\ \A t \in Servers \ {s} : session'[t] = session[t]
      BY <2>2 DEF IdentityInv, IdentityTypes
    <3>4. SignsAlike(session[s], session'[s])
      BY <2>2, <3>1, <3>2, <3>3 DEF SignsAlike, Gated, Writing
    <3>5. session' \in [Servers -> Calls]
      BY <2>2, <3>2 DEF IdentityInv, IdentityTypes, Calls
    <3> QED
      BY <3>3, <3>4, <3>5
  <2>3. CASE UNCHANGED session
    BY <2>3 DEF IdentityInv, IdentityTypes
  <2>4. CASE \E path \in Paths : session' = [session EXCEPT ![s] = [at |-> "moving", path |-> path]]
    BY <2>4 DEF IdentityInv, IdentityTypes, Calls, Writing
  <2> QED
    BY <2>1, <2>2, <2>3, <2>4 DEF SetProfile, Require, Relocate, MoveFile, Starts, Ends
<1>3. /\ legacy' \in [Paths -> {Unbound, NoFile}]
      /\ file' \in [Paths -> Bindings \cup {Unbound, NoFile}]
      /\ \A path \in Paths : file'[path] = file[path] \/ file'[path] = Unbound
  BY DEF SetProfile, Require, Relocate, MoveFile, IdentityInv, IdentityTypes
<1>4. IdentityTypes'
  BY <1>1, <1>2, <1>3 DEF IdentityInv, IdentityTypes
<1>5. FoldersOK' /\ AnswersOK'
  BY <1>1 DEF IdentityInv, FoldersOK, AnswersOK
<1>6. FilesOK'
  BY <1>1, <1>3, BoundFiles DEF IdentityInv, FilesOK, NewestIn
<1>7. SigningOK' /\ RecordsOK'
  BY <1>1, <1>2, CallsStay, RecordsStay
<1> QED
  BY <1>4, <1>5, <1>6, <1>7 DEF IdentityInv

(* A folder is moved or copied, a file comes with an update, or a person is   *)
(* removed.                                                                 *)
LEMMA SurroundingsKeep ==
    ASSUME IdentityInv,
           \/ \E p \in Persons : RemovePerson(p)
           \/ \E from, to \in Paths : Move(from, to) \/ Copy(from, to) \/ Travel(from, to)
    PROVE  IdentityInv'
<1>1. UNCHANGED <<session, answers, signed>>
  BY DEF RemovePerson, Move, Copy, Travel
<1>2. SigningOK' /\ RecordsOK'
  BY <1>1, CallsStay, RecordsStay DEF IdentityInv, IdentityTypes
<1>3. ASSUME NEW p \in Persons, RemovePerson(p)
      PROVE  IdentityTypes' /\ FoldersOK' /\ AnswersOK' /\ FilesOK'
  BY <1>3 DEF RemovePerson, IdentityInv, IdentityTypes, FoldersOK, AnswersOK, FilesOK, NewestIn
<1>4. ASSUME NEW from \in Paths, NEW to \in Paths, Move(from, to)
      PROVE  IdentityTypes' /\ FoldersOK' /\ AnswersOK' /\ FilesOK'
  <2>1. /\ folder[from] # 0 /\ folder[to] = 0 /\ from # to /\ made' = made
        /\ folder' = [folder EXCEPT ![to] = folder[from], ![from] = 0]
        /\ file' = [file EXCEPT ![to] = file[from], ![from] = NoFile]
        /\ legacy' = [legacy EXCEPT ![to] = legacy[from], ![from] = NoFile]
    BY <1>4 DEF Move
  <2>2. IdentityTypes' /\ FoldersOK' /\ AnswersOK'
    BY <1>1, <2>1 DEF IdentityInv, IdentityTypes, FoldersOK, AnswersOK
  <2>3. \A p \in Paths : folder'[p] # 0 =>
           \E q \in Paths : folder[q] = folder'[p] /\ file[q] = file'[p]
    BY <2>1 DEF IdentityInv, IdentityTypes
  <2> QED
    BY <1>1, <2>2, <2>3 DEF IdentityInv, FilesOK, NewestIn
<1>5. ASSUME NEW from \in Paths, NEW to \in Paths, Copy(from, to)
      PROVE  IdentityTypes' /\ FoldersOK' /\ AnswersOK' /\ FilesOK'
  <2>1. /\ folder[from] # 0 /\ folder[to] = 0 /\ from # to /\ made' = made + 1
        /\ folder' = [folder EXCEPT ![to] = made']
        /\ file' = [file EXCEPT ![to] = file[from]]
        /\ legacy' = [legacy EXCEPT ![to] = legacy[from]]
    BY <1>5 DEF Copy
  <2>2. IdentityTypes' /\ FoldersOK'
    BY <1>1, <2>1 DEF IdentityInv, IdentityTypes, FoldersOK
  <2>3. AnswersOK' /\ \A b \in answers : b.given.id # made'
    <3>1. \A b \in answers : b.given.id \in Nat /\ b.given.id <= made
      BY DEF IdentityInv, IdentityTypes, AnswersOK, Answers, Bindings
    <3>2. made \in Nat /\ made' = made + 1
      BY <2>1 DEF IdentityInv, IdentityTypes
    <3> QED
      BY <1>1, <3>1, <3>2 DEF IdentityInv, AnswersOK
  <2>4. FilesOK'
    <3> SUFFICES ASSUME NEW p \in Paths, folder'[p] # 0
                 PROVE  /\ file'[p] \in Bindings => NewestIn(file[p], folder[p])'
                        /\ \A b \in answers : b.given.id = folder'[p] => file'[p] # NoFile
      BY <1>1 DEF FilesOK
    <3>1. CASE p = to
      <4>1. file'[p] = file[from] /\ folder'[p] = made'
        BY <2>1, <3>1 DEF IdentityInv, IdentityTypes
      <4> QED
        BY <1>1, <2>1, <2>3, <4>1 DEF IdentityInv, FilesOK, NewestIn
    <3>2. CASE p # to
      BY <1>1, <2>1, <3>2 DEF IdentityInv, IdentityTypes, FilesOK, NewestIn
    <3> QED
      BY <3>1, <3>2
  <2> QED
    BY <2>2, <2>3, <2>4
<1>6. ASSUME NEW from \in Paths, NEW to \in Paths, Travel(from, to)
      PROVE  IdentityTypes' /\ FoldersOK' /\ AnswersOK' /\ FilesOK'
  <2>1. /\ folder[from] # 0 /\ folder[to] # 0 /\ file[from] # NoFile /\ file[to] = NoFile
        /\ file' = [file EXCEPT ![to] = file[from]]
        /\ UNCHANGED <<folder, legacy, made>>
    BY <1>6 DEF Travel
  <2>2. IdentityTypes' /\ FoldersOK' /\ AnswersOK'
    BY <1>1, <2>1 DEF IdentityInv, IdentityTypes, FoldersOK, AnswersOK
  <2>3. \A b \in answers : b.given.id # folder[to]
    BY <2>1 DEF IdentityInv, FilesOK
  <2>4. FilesOK'
    <3> SUFFICES ASSUME NEW p \in Paths, folder[p] # 0
                 PROVE  /\ file'[p] \in Bindings => NewestIn(file[p], folder[p])'
                        /\ \A b \in answers : b.given.id = folder[p] => file'[p] # NoFile
      BY <1>1, <2>1 DEF FilesOK
    <3>1. CASE p = to
      <4>1. file'[p] = file[from]
        BY <2>1, <3>1 DEF IdentityInv, IdentityTypes
      <4> QED
        BY <1>1, <2>1, <2>3, <3>1, <4>1 DEF IdentityInv, FilesOK, NewestIn
    <3>2. CASE p # to
      BY <1>1, <2>1, <3>2 DEF IdentityInv, IdentityTypes, FilesOK, NewestIn
    <3> QED
      BY <3>1, <3>2
  <2> QED
    BY <2>2, <2>4
<1> QED
  BY <1>2, <1>3, <1>4, <1>5, <1>6 DEF IdentityInv

-----------------------------------------------------------------------------
(* The theorem.                                                             *)

\* At first there is one folder, and nobody answered.
LEMMA InitIdentity == IdentityInit => IdentityInv
<1> SUFFICES ASSUME IdentityInit PROVE IdentityInv
  OBVIOUS
<1>1. IdentityTypes
  BY FS_EmptySet DEF IdentityInit, IdentityTypes, Calls
<1>2. FoldersOK
  <2> DEFINE first == CHOOSE p \in Paths : TRUE
  <2>1. made = 1 /\ \A p \in Paths : folder[p] = IF p = first THEN 1 ELSE 0
    BY DEF IdentityInit
  <2> HIDE DEF first
  <2> QED
    BY <2>1 DEF FoldersOK
<1>3. AnswersOK /\ FilesOK /\ SigningOK /\ RecordsOK
  BY BoundFiles DEF IdentityInit, AnswersOK, FilesOK, SigningOK, RecordsOK, NotCalling, Writing
<1> QED
  BY <1>1, <1>2, <1>3 DEF IdentityInv

\* Every action keeps the invariant of the signing part.
LEMMA NextIdentity == IdentityInv /\ [IdentityNext]_identityVars => IdentityInv'
<1>1. ASSUME IdentityInv, UNCHANGED identityVars PROVE IdentityInv'
  <2>1. UNCHANGED <<folder, file, legacy, session, made, answers, signed>>
    BY <1>1 DEF identityVars
  <2>2. SigningOK' /\ RecordsOK'
    BY <1>1, <2>1, CallsStay, RecordsStay DEF IdentityInv, IdentityTypes
  <2> QED
    BY <1>1, <2>1, <2>2 DEF IdentityInv, IdentityTypes, FoldersOK, AnswersOK, FilesOK, NewestIn
<1> QED
  BY <1>1, AnswerKeeps, GateKeeps, RecordKeeps, CallsKeep, SurroundingsKeep DEF IdentityNext

(* What a session signs as confirmed was answered by that person at this     *)
(* machine and account for this folder, and nobody answered there later,      *)
(* however folders and files move and are copied                            *)
(* (inspect_confirmed_identity, _gated_identity).                            *)
THEOREM LastAnswerSigns == IdentitySpec => []SignedByLastAnswer
<1>1. IdentityInv => SignedByLastAnswer
  BY DEF IdentityInv, RecordsOK, SignsRightly, SignedByLastAnswer
<1> QED
  BY <1>1, InitIdentity, NextIdentity, PTL DEF IdentitySpec

-----------------------------------------------------------------------------
(***************************************************************************)
(* Documents: a document has its files, a private copy is committed by nobody,*)
(* and files go with the last document that needs them.                    *)
(***************************************************************************)

(* The inductive invariant.                                                 *)

StoreSteps ==
    {"text", "policy", "ignore", "blob", "rename", "promote", "promoting", "gate", "update"}
DeleteSteps == {"remove", "cohort", "siblings", "unlist", "unlisting"}
CallNumbers == 1..MaxCalls

Docs == [hash : Hashes \cup {None}, copy : BOOLEAN, local : BOOLEAN, live : BOOLEAN]

Stores ==
    [at : StoreSteps, hash : Hashes, copy : BOOLEAN, local : BOOLEAN, id : CallNumbers,
     node : CallNumbers \cup {None}, lines : SUBSET Hashes]
Deletes ==
    [at : DeleteSteps, hash : Hashes, copy : BOOLEAN, node : CallNumbers, cohort : SUBSET CallNumbers,
     lines : SUBSET Hashes, local : BOOLEAN]

DocsTypes ==
    /\ docs \in [CallNumbers -> Docs]
    /\ text \in SUBSET Hashes /\ blob \in SUBSET Hashes
    /\ ignored \in SUBSET Hashes /\ published \in SUBSET Hashes
    /\ call \in [Callers -> Stores \cup Deletes \cup {NoCall}]
    /\ calls \in Nat
    /\ asked \in SUBSET Hashes
    /\ raced \in BOOLEAN /\ messy \in BOOLEAN

Storing(c) == call[c].at \in StoreSteps
Deleting(c) == call[c].at \in DeleteSteps
Busy(c) == call[c].at # "idle"

(* A document that is there has a hash, and was stored by an earlier call.   *)
DocsOK == \A d \in Live : docs[d].hash \in Hashes /\ d <= calls

(* A call that adds a document has a number of its own, under which there is *)
(* no document yet and which no other call uses.                            *)
Adding(c) == Storing(c) /\ call[c].node = None
NumberOK(c) ==
    Adding(c) =>
        /\ call[c].id <= calls
        /\ ~ docs[call[c].id].live
        /\ \A b \in Callers : /\ Busy(b) => call[b].node # call[c].id
                              /\ Adding(b) /\ call[b].id = call[c].id => b = c

(* A call knows the hash of the document that it changes or deletes.         *)
NodeOK(c) ==
    Busy(c) /\ call[c].node # None =>
        call[c].node <= calls /\ docs[call[c].node].hash = call[c].hash

(* What a store wants, step by step; what is to be committed was asked for.  *)
StoreOK(c) ==
    Storing(c) =>
        /\ call[c].at \in {"text", "gate"} => call[c].node = None
        /\ call[c].at = "update" => call[c].node # None
        /\ call[c].at \notin {"text", "gate"} => call[c].copy
        /\ call[c].at \in {"promote", "promoting"} => ~ call[c].local
        /\ call[c].copy /\ ~ call[c].local => call[c].hash \in asked

CallsOK == \A c \in Callers : NumberOK(c) /\ NodeOK(c) /\ StoreOK(c)

(* A document has its files, and a store that wrote them finds them.         *)
KeepOK ==
    ~ raced =>
        /\ \A d \in Live : /\ docs[d].hash \in text
                           /\ docs[d].copy => docs[d].hash \in blob
        /\ \A c \in Callers :
              /\ Adding(c) /\ call[c].at # "text" => call[c].hash \in text
              /\ call[c].at \in {"promote", "promoting", "gate", "update"} /\ call[c].copy =>
                    call[c].hash \in blob

(* A copy nobody asked to commit is ignored, and is when it is written.      *)
LocalOK ==
    ~ raced =>
        /\ published \subseteq asked
        /\ blob \subseteq asked \cup ignored
        /\ \A c \in Callers : call[c].at \in {"blob", "rename"} /\ call[c].local =>
                                  call[c].hash \in asked \cup ignored

(* The call under way, when there is never more than one, finds what it left. *)
AloneOK ==
    ~ messy =>
        \A c \in Callers : Busy(c) =>
            /\ \A b \in Callers : Busy(b) => b = c
            /\ Storing(c) /\ call[c].node # None => docs[call[c].node].live
            /\ call[c].at \in {"ignore", "promoting", "unlisting"} => call[c].lines = ignored
            /\ call[c].at = "remove" =>
                  docs[call[c].node].live /\ (docs[call[c].node].copy <=> call[c].copy)
            /\ call[c].at = "siblings" => call[c].cohort = With(call[c].hash)

(* Each file on disk is of a document, or in the hands of that call.         *)
Wants(c, h, steps) == call[c].at \in steps /\ call[c].hash = h
LeftOK ==
    ~ messy =>
        /\ \A h \in text :
              \/ \E d \in Live : docs[d].hash = h
              \/ \E c \in Callers : Wants(c, h, (StoreSteps \ {"text"}) \cup {"cohort"})
        /\ \A h \in blob :
              \/ \E d \in Live : docs[d].hash = h /\ docs[d].copy
              \/ \E c \in Callers :
                    /\ Wants(c, h, {"promote", "promoting", "gate", "update", "cohort", "siblings"})
                    /\ call[c].copy
        /\ \A h \in ignored :
              h \in blob \/ \E c \in Callers : Wants(c, h, {"blob", "rename", "unlist", "unlisting"})

DocumentsInv ==
    DocsTypes /\ DocsOK /\ CallsOK /\ KeepOK /\ LocalOK /\ AloneOK /\ LeftOK

-----------------------------------------------------------------------------

\* A call under way stores or deletes.
LEMMA CallKinds ==
    ASSUME DocsTypes, NEW c \in Callers
    PROVE  /\ Storing(c) => call[c] \in Stores
           /\ Deleting(c) => call[c] \in Deletes
           /\ ~ Storing(c) /\ ~ Deleting(c) => call[c] = NoCall
           /\ Busy(c) <=> Storing(c) \/ Deleting(c)
BY DEF DocsTypes, Stores, Deletes, NoCall, Storing, Deleting, Busy, StoreSteps,
   DeleteSteps

\* Somebody commits what is not ignored.
LEMMA CommitKeeps ==
    ASSUME DocumentsInv, Commit
    PROVE  DocumentsInv'
<1>1. DocsTypes'
  BY DEF DocumentsInv, DocsTypes, ghosts, Commit
<1>2. DocsOK'
  BY DEF DocumentsInv, DocsOK, Live, Commit
<1>3. CallsOK'
  BY DEF DocumentsInv, CallsOK, NumberOK, Adding, NodeOK, StoreOK, Storing, Busy, ghosts,
     Commit
<1>4. KeepOK'
  BY DEF DocumentsInv, KeepOK, Adding, Storing, Live, ghosts, Commit
<1>5. LocalOK'
  BY DEF DocumentsInv, LocalOK, ghosts, Commit
<1>6. AloneOK'
  BY DEF DocumentsInv, AloneOK, Busy, Storing, With, ghosts, Commit
<1>7. LeftOK'
  BY DEF DocumentsInv, LeftOK, Wants, Live, ghosts, Commit
<1> QED
  BY <1>1, <1>2, <1>3, <1>4, <1>5, <1>6, <1>7 DEF DocumentsInv

\* A store starts, of a new document or of one that is there.
LEMMA StoreStartsKeeps ==
    ASSUME DocumentsInv, NEW c \in Callers, NEW h \in Hashes, NEW force \in BOOLEAN,
           NEW keep \in BOOLEAN, NEW local \in BOOLEAN, StoreStarts(c, h, force, keep, local)
    PROVE  DocumentsInv'
<1>1. /\ call[c].at = "idle" /\ calls < MaxCalls /\ calls' = calls + 1
      /\ messy' = (messy \/ \E b \in Callers \ {c} : call[b].at # "idle")
      /\ asked' \in SUBSET Hashes /\ asked \subseteq asked'
      /\ UNCHANGED <<docs, text, blob, ignored, published, raced>>
  BY DEF DocumentsInv, DocsTypes, StoreStarts, CallStarts, CallAt, storedFiles
<1>2. PICK k \in Stores :
         /\ call' = [call EXCEPT ![c] = k]
         /\ k.hash = h /\ k.id = calls + 1
         /\ k.copy /\ ~ k.local => h \in asked'
         /\ \/ k.at = "text" /\ k.node = None
            \/ k.at = "policy" /\ k.copy /\ k.node \in With(h)
  <2> DEFINE job == [at |-> "text", hash |-> h, copy |-> keep,
                     local |-> (local \/ h \in Large), id |-> calls + 1,
                     node |-> None, lines |-> {}]
  <2>1. calls + 1 \in CallNumbers
    BY <1>1, DocumentsAssumption DEF DocumentsInv, DocsTypes, CallNumbers
  <2>2. CASE CallStarts(c, job)
    <3>1. job \in Stores
      BY <2>1 DEF Stores, StoreSteps
    <3> QED
      BY <2>2, <3>1 DEF StoreStarts, CallStarts
  <2>3. CASE keep /\ \E d \in With(h) : CallStarts(c, [job EXCEPT !.at = "policy", !.node = d])
    <3>1. PICK d \in With(h) : CallStarts(c, [job EXCEPT !.at = "policy", !.node = d])
      BY <2>3
    <3>2. d \in CallNumbers
      BY DEF With, DocumentsInv, DocsTypes
    <3>3. [job EXCEPT !.at = "policy", !.node = d] \in Stores
      BY <2>1, <3>2 DEF Stores, StoreSteps
    <3> QED
      BY <2>3, <3>1, <3>3 DEF StoreStarts, CallStarts
  <2> QED
    BY <2>2, <2>3 DEF StoreStarts
<1>3. DocsTypes'
  BY <1>1, <1>2 DEF DocumentsInv, DocsTypes
<1>4. DocsOK'
  BY <1>1 DEF DocumentsInv, DocsTypes, DocsOK, Live
<1>5. CallsOK'
  BY <1>1, <1>2 DEF DocumentsInv, DocsTypes, CallsOK, NumberOK, Adding, NodeOK, StoreOK,
     Storing, Busy, Live, DocsOK, CallNumbers, None, Stores, Deletes, StoreSteps, NoCall, With
<1>6. KeepOK'
  <2>1. k.at = "policy" => k.node # None
    BY <1>2 DEF With, DocumentsInv, DocsTypes, CallNumbers, None
  <2> QED
    BY <1>1, <1>2, <2>1 DEF DocumentsInv, KeepOK, Adding, Storing, Live
<1>7. LocalOK'
  BY <1>1, <1>2 DEF DocumentsInv, DocsTypes, LocalOK
<1>8. AloneOK'
  BY <1>1, <1>2 DEF DocumentsInv, DocsTypes, AloneOK, Busy, Storing, With, Live, None, CallNumbers
<1>9. LeftOK'
  BY <1>1, <1>2 DEF DocumentsInv, DocsTypes, LeftOK, Wants, Live, StoreSteps
<1> QED
  BY <1>3, <1>4, <1>5, <1>6, <1>7, <1>8, <1>9 DEF DocumentsInv

\* A deletion starts.
LEMMA DeleteStartsKeeps ==
    ASSUME DocumentsInv, NEW c \in Callers, NEW d \in CallNumbers, DeleteStarts(c, d)
    PROVE  DocumentsInv'
<1>1. DocsTypes'
  <2>1. docs[d] \in Docs /\ docs[d].hash \in Hashes
    BY DEF DocumentsInv, DocsTypes, DocsOK, Live, DeleteStarts, CallNumbers
  <2>2. [at |-> "remove", hash |-> docs[d].hash, copy |-> docs[d].copy, node |-> d,
         cohort |-> {}, lines |-> {}, local |-> FALSE] \in Deletes
    BY <2>1 DEF Docs, Deletes, DeleteSteps
  <2> QED
    BY <2>2 DEF DocumentsInv, DocsTypes, DeleteStarts, CallStarts, storedFiles
<1>2. DocsOK'
  BY DEF DocumentsInv, DocsTypes, DocsOK, Live, CallStarts, DeleteStarts
<1>3. CallsOK'
  BY DEF DocumentsInv, DocsTypes, CallsOK, NumberOK, Adding, NodeOK, StoreOK, Storing,
     Busy, Live, DocsOK, CallNumbers, Stores, Deletes, StoreSteps, DeleteSteps, CallAt,
     CallStarts, DeleteStarts
<1>4. KeepOK'
  BY DEF DocumentsInv, KeepOK, Adding, Storing, Live, StoreSteps, storedFiles, CallStarts,
     DeleteStarts
<1>5. LocalOK'
  BY DEF DocumentsInv, LocalOK, storedFiles, CallStarts, DeleteStarts
<1>6. AloneOK'
  BY DEF DocumentsInv, DocsTypes, AloneOK, Busy, Docs, CallAt, CallStarts, DeleteStarts
<1>7. LeftOK'
  BY DEF DocumentsInv, DocsTypes, LeftOK, Wants, Live, StoreSteps, storedFiles, CallAt,
     CallStarts, DeleteStarts
<1> QED
  BY <1>1, <1>2, <1>3, <1>4, <1>5, <1>6, <1>7 DEF DocumentsInv

\* The text is written.
LEMMA WriteTextKeeps ==
    ASSUME DocumentsInv, NEW c \in Callers, WriteText(c)
    PROVE  DocumentsInv'
<1>1. DocsTypes'
  BY DEF DocumentsInv, DocsTypes, Stores, Deletes, StoreSteps, DeleteSteps, ghosts,
     CallAt, CallGoes, NoCall, WriteText
<1>2. DocsOK'
  BY DEF DocumentsInv, DocsOK, Live, WriteText
<1>3. CallsOK'
  BY DEF DocumentsInv, CallsOK, NumberOK, Adding, NodeOK, StoreOK, Storing, Busy,
     StoreSteps, ghosts, CallAt, CallGoes, WriteText
<1>4. KeepOK'
  BY DEF DocumentsInv, KeepOK, Adding, Storing, Live, ghosts, CallGoes, WriteText
<1>5. LocalOK'
  BY DEF DocumentsInv, LocalOK, ghosts, CallGoes, WriteText
<1>6. AloneOK'
  BY DEF DocumentsInv, AloneOK, Busy, Storing, StoreSteps, ghosts, CallAt, CallGoes,
     WriteText
<1>7. LeftOK'
  <2> SUFFICES ASSUME ~ messy' PROVE LeftOK'
    BY DEF LeftOK
  <2>1. ~ messy /\ Busy(c) /\ \A b \in Callers \ {c} : ~ Busy(b) /\ call'[b] = call[b]
    BY DEF DocumentsInv, AloneOK, Busy, WriteText, CallAt, CallGoes, ghosts
  <2>2. /\ call'[c].hash = call[c].hash \/ call'[c] = NoCall
        /\ call'[c].copy = call[c].copy \/ call'[c] = NoCall
    BY DEF WriteText, CallGoes
  <2>3. \A h \in text' :
           \/ \E d \in Live' : docs'[d].hash = h
           \/ \E b \in Callers : Wants(b, h, (StoreSteps \ {"text"}) \cup {"cohort"})'
    BY <2>1 DEF DocumentsInv, DocsTypes, LeftOK, Wants, Live, StoreSteps, WriteText,
       CallGoes
  <2>4. \A h \in blob' :
              \/ \E d \in Live' : docs'[d].hash = h /\ docs'[d].copy
              \/ \E b \in Callers :
                    /\ Wants(b, h, {"promote", "promoting", "gate", "update", "cohort", "siblings"})'
                    /\ call'[b].copy
    BY <2>1 DEF DocumentsInv, LeftOK, Wants, Live, WriteText, CallAt
  <2>5. \A h \in ignored' :
              h \in blob' \/ \E b \in Callers : Wants(b, h, {"blob", "rename", "unlist", "unlisting"})'
    BY <2>1 DEF DocumentsInv, LeftOK, Wants, WriteText, CallAt
  <2> QED
    BY <2>3, <2>4, <2>5 DEF LeftOK
<1> QED
  BY <1>1, <1>2, <1>3, <1>4, <1>5, <1>6, <1>7 DEF DocumentsInv

\* A copy meant for this machine is to be ignored before it is written.
LEMMA PolicyKeeps ==
    ASSUME DocumentsInv, NEW c \in Callers, Policy(c)
    PROVE  DocumentsInv'
<1>1. DocsTypes'
  <2>1. call[c] \in Stores
    BY CallKinds DEF DocumentsInv, Storing, StoreSteps, Policy, CallAt
  <2>2. call'[c] \in Stores \cup {NoCall}
    BY <2>1 DEF DocumentsInv, DocsTypes, Stores, StoreSteps, Policy, CallGoes, CallEnds,
       AfterPolicy, AfterBlob, With
  <2> QED
    BY <2>1, <2>2 DEF DocumentsInv, DocsTypes, Policy, CallGoes, CallEnds, CallStarts,
       storedFiles, ghosts, Stores, Deletes, Docs
<1>2. DocsOK'
  BY DEF DocumentsInv, DocsOK, Live, Policy
<1>3. CallsOK'
  BY DocumentsAssumption DEF DocumentsInv, DocsTypes, CallsOK, NumberOK, Adding, NodeOK,
     StoreOK, Storing, Deleting, Busy, Live, DocsOK, CallNumbers, None, Docs, Stores, Deletes,
     DeleteSteps, NoCall, ghosts, CallAt, AfterPolicy, Policy
<1>4. KeepOK'
  BY DEF DocumentsInv, DocsTypes, KeepOK, Adding, Storing, Live, StoreSteps, storedFiles,
     ghosts, CallAt, AfterPolicy, Policy
<1>5. LocalOK'
  BY DEF DocumentsInv, DocsTypes, LocalOK, storedFiles, ghosts, AfterPolicy, Policy
<1>6. AloneOK'
  BY DocumentsAssumption DEF DocumentsInv, DocsTypes, AloneOK, Busy, Storing, Deletes,
     StoreSteps, storedFiles, ghosts, CallAt, AfterPolicy, Policy
<1>7. LeftOK'
  BY DEF DocumentsInv, DocsTypes, LeftOK, Wants, Live, StoreSteps, storedFiles, ghosts,
     CallAt, AfterPolicy, Policy
<1> QED
  BY <1>1, <1>2, <1>3, <1>4, <1>5, <1>6, <1>7 DEF DocumentsInv

\* The copy is ignored.
LEMMA AddIgnoreEntryKeeps ==
    ASSUME DocumentsInv, NEW c \in Callers, AddIgnoreEntry(c)
    PROVE  DocumentsInv'
<1>1. DocsTypes'
  BY DEF DocumentsInv, DocsTypes, Stores, Deletes, StoreSteps, DeleteSteps, CallAt,
     CallGoes, NoCall, Rewrite, AddIgnoreEntry
<1>2. DocsOK'
  BY DEF DocumentsInv, DocsOK, Live, AddIgnoreEntry
<1>3. CallsOK'
  BY DEF DocumentsInv, CallsOK, NumberOK, Adding, NodeOK, StoreOK, Storing, Busy,
     StoreSteps, CallAt, CallGoes, AddIgnoreEntry
<1>4. KeepOK'
  BY DEF DocumentsInv, DocsTypes, KeepOK, Adding, Storing, Live, StoreSteps, CallAt,
     CallGoes, Rewrite, AddIgnoreEntry
<1>5. LocalOK'
  BY DEF DocumentsInv, DocsTypes, LocalOK, CallsOK, StoreOK, Storing, Stores, Deletes,
     DeleteSteps, NoCall, CallAt, CallGoes, Rewrite, AddIgnoreEntry
<1>6. AloneOK'
  BY DEF DocumentsInv, DocsTypes, AloneOK, Busy, Storing, StoreSteps, CallAt, CallGoes,
     AddIgnoreEntry
<1>7. LeftOK'
  BY DEF DocumentsInv, DocsTypes, LeftOK, AloneOK, Wants, Busy, Live, StoreSteps, CallAt,
     CallGoes, Rewrite, AddIgnoreEntry
<1> QED
  BY <1>1, <1>2, <1>3, <1>4, <1>5, <1>6, <1>7 DEF DocumentsInv

\* The copy is written under a temporary name, unless it is there.
LEMMA WriteBlobKeeps ==
    ASSUME DocumentsInv, NEW c \in Callers, WriteBlob(c)
    PROVE  DocumentsInv'
<1>1. DocsTypes'
  <2>1. call[c] \in Stores
    BY CallKinds DEF DocumentsInv, Storing, StoreSteps, WriteBlob, CallAt
  <2>2. call'[c] \in Stores \cup {NoCall}
    BY <2>1 DEF DocumentsInv, DocsTypes, Stores, StoreSteps, CallGoes, AfterBlob,
       AfterWrite, WriteBlob
  <2> QED
    BY <2>1, <2>2 DEF DocumentsInv, DocsTypes, WriteBlob, CallGoes, storedFiles, ghosts,
       Stores
<1>2. DocsOK'
  BY DEF DocumentsInv, DocsOK, Live, WriteBlob
<1>3. CallsOK'
  BY DEF DocumentsInv, CallsOK, NumberOK, Adding, NodeOK, StoreOK, Storing, Busy,
     StoreSteps, storedFiles, ghosts, CallAt, CallGoes, AfterBlob, AfterWrite, WriteBlob
<1>4. KeepOK'
  BY DEF DocumentsInv, KeepOK, Adding, Storing, Live, StoreSteps, storedFiles, ghosts,
     CallAt, CallGoes, AfterWrite, WriteBlob
<1>5. LocalOK'
  BY DEF DocumentsInv, LocalOK, CallsOK, StoreOK, Storing, StoreSteps, storedFiles,
     ghosts, CallAt,
     CallGoes, AfterWrite, WriteBlob
<1>6. AloneOK'
  BY DEF DocumentsInv, AloneOK, Busy, Storing, StoreSteps, storedFiles, ghosts, CallAt,
     CallGoes, AfterBlob, AfterWrite, WriteBlob
<1>7. LeftOK'
  BY DEF DocumentsInv, DocsTypes, LeftOK, CallsOK, StoreOK, Wants, Storing, Live,
     StoreSteps, storedFiles, ghosts, CallAt, CallGoes, AfterBlob, AfterWrite, WriteBlob
<1> QED
  BY <1>1, <1>2, <1>3, <1>4, <1>5, <1>6, <1>7 DEF DocumentsInv

\* It gets its name.
LEMMA RenameBlobKeeps ==
    ASSUME DocumentsInv, NEW c \in Callers, RenameBlob(c)
    PROVE  DocumentsInv'
<1>1. DocsTypes'
  <2>1. call[c] \in Stores
    BY CallKinds DEF DocumentsInv, Storing, StoreSteps, RenameBlob, CallAt
  <2>2. call'[c] \in Stores \cup {NoCall}
    BY <2>1 DEF DocumentsInv, DocsTypes, Stores, StoreSteps, CallGoes, AfterBlob,
       AfterWrite, RenameBlob
  <2> QED
    BY <2>1, <2>2 DEF DocumentsInv, DocsTypes, RenameBlob, CallGoes, ghosts, Stores
<1>2. DocsOK'
  BY DEF DocumentsInv, DocsOK, Live, RenameBlob
<1>3. CallsOK'
  BY DEF DocumentsInv, CallsOK, NumberOK, Adding, NodeOK, StoreOK, Storing, Busy,
     StoreSteps, ghosts, CallAt, CallGoes, AfterBlob, AfterWrite, RenameBlob
<1>4. KeepOK'
  BY DEF DocumentsInv, KeepOK, Adding, Storing, Live, StoreSteps, ghosts, CallAt, CallGoes,
     AfterWrite, RenameBlob
<1>5. LocalOK'
  BY DEF DocumentsInv, LocalOK, CallsOK, StoreOK, Storing, StoreSteps, ghosts, CallAt,
     CallGoes, AfterWrite, RenameBlob
<1>6. AloneOK'
  BY DEF DocumentsInv, AloneOK, Busy, Storing, StoreSteps, ghosts, CallAt, CallGoes,
     AfterBlob, AfterWrite, RenameBlob
<1>7. LeftOK'
  BY DEF DocumentsInv, DocsTypes, LeftOK, CallsOK, StoreOK, Wants, Storing, Live,
     StoreSteps, ghosts, CallAt, CallGoes, AfterBlob, AfterWrite, RenameBlob
<1> QED
  BY <1>1, <1>2, <1>3, <1>4, <1>5, <1>6, <1>7 DEF DocumentsInv

\* A copy to be committed may be ignored still.
LEMMA ReadIgnoreKeeps ==
    ASSUME DocumentsInv, NEW c \in Callers, ReadIgnore(c)
    PROVE  DocumentsInv'
<1>1. DocsTypes'
  <2>1. call[c] \in Stores
    BY CallKinds DEF DocumentsInv, Storing, StoreSteps, ReadIgnore, CallAt
  <2>2. call'[c] \in Stores \cup {NoCall}
    BY <2>1 DEF DocumentsInv, DocsTypes, Stores, StoreSteps, ReadIgnore, CallGoes,
       CallEnds, AfterPolicy, AfterBlob, With
  <2> QED
    BY <2>1, <2>2 DEF DocumentsInv, DocsTypes, ReadIgnore, CallGoes, CallEnds, CallStarts,
       storedFiles, ghosts, Stores, Deletes, Docs
<1>2. DocsOK'
  BY DEF DocumentsInv, DocsOK, Live, ReadIgnore
<1>3. CallsOK'
  BY DEF DocumentsInv, DocsTypes, CallsOK, NumberOK, Adding, NodeOK, StoreOK, Storing,
     Busy, StoreSteps, ghosts, CallAt, AfterBlob, ReadIgnore
<1>4. KeepOK'
  BY DEF DocumentsInv, DocsTypes, KeepOK, Adding, Storing, Live, StoreSteps, storedFiles,
     ghosts, CallAt, ReadIgnore
<1>5. LocalOK'
  BY DEF DocumentsInv, DocsTypes, LocalOK, storedFiles, ghosts, AfterBlob, ReadIgnore
<1>6. AloneOK'
  BY DEF DocumentsInv, DocsTypes, AloneOK, Busy, Storing, StoreSteps, storedFiles, ghosts,
     CallAt, AfterBlob, ReadIgnore
<1>7. LeftOK'
  <2> SUFFICES ASSUME ~ messy' PROVE LeftOK'
    BY DEF LeftOK
  <2>1. ~ messy /\ Busy(c) /\ \A b \in Callers \ {c} : ~ Busy(b) /\ call'[b] = call[b]
    BY DEF DocumentsInv, DocsTypes, AloneOK, Busy, ReadIgnore, CallAt, ghosts
  <2>2. /\ call'[c].hash = call[c].hash \/ call'[c] = NoCall
        /\ call'[c].copy = call[c].copy \/ call'[c] = NoCall
    BY DEF DocumentsInv, DocsTypes, ReadIgnore
  <2>3. \A h \in text' :
           \/ \E d \in Live' : docs'[d].hash = h
           \/ \E b \in Callers : Wants(b, h, (StoreSteps \ {"text"}) \cup {"cohort"})'
    BY <2>1 DEF DocumentsInv, DocsTypes, LeftOK, Wants, Live, StoreSteps, ReadIgnore,
       storedFiles, AfterBlob
  <2>4. \A h \in blob' :
              \/ \E d \in Live' : docs'[d].hash = h /\ docs'[d].copy
              \/ \E b \in Callers :
                    /\ Wants(b, h, {"promote", "promoting", "gate", "update", "cohort", "siblings"})'
                    /\ call'[b].copy
    BY <2>1 DEF DocumentsInv, DocsTypes, LeftOK, Wants, Live, ReadIgnore, storedFiles,
       AfterBlob
  <2>5. \A h \in ignored' :
              h \in blob' \/ \E b \in Callers : Wants(b, h, {"blob", "rename", "unlist", "unlisting"})'
    BY <2>1 DEF DocumentsInv, LeftOK, Wants, Busy, ReadIgnore, CallAt, storedFiles
  <2> QED
    BY <2>3, <2>4, <2>5 DEF LeftOK
<1> QED
  BY <1>1, <1>2, <1>3, <1>4, <1>5, <1>6, <1>7 DEF DocumentsInv

\* It is ignored no more.
LEMMA PromoteKeeps ==
    ASSUME DocumentsInv, NEW c \in Callers, Promote(c)
    PROVE  DocumentsInv'
<1>1. DocsTypes'
  BY DEF DocumentsInv, DocsTypes, Stores, Deletes, StoreSteps, DeleteSteps, CallAt,
     CallGoes, NoCall, Rewrite, AfterBlob, Promote
<1>2. DocsOK'
  BY DEF DocumentsInv, DocsOK, Live, Promote
<1>3. CallsOK'
  BY DEF DocumentsInv, CallsOK, NumberOK, Adding, NodeOK, StoreOK, Storing, Busy,
     StoreSteps, CallAt, CallGoes, AfterBlob, Promote
<1>4. KeepOK'
  BY DEF DocumentsInv, DocsTypes, KeepOK, Adding, Storing, Live, StoreSteps, CallAt,
     CallGoes, Rewrite, Promote
<1>5. LocalOK'
  BY DEF DocumentsInv, DocsTypes, LocalOK, CallsOK, StoreOK, Storing, Stores, Deletes,
     DeleteSteps, NoCall, CallAt, CallGoes, Rewrite, Promote
<1>6. AloneOK'
  BY DEF DocumentsInv, DocsTypes, AloneOK, Busy, Storing, StoreSteps, CallAt, CallGoes,
     AfterBlob, Promote
<1>7. LeftOK'
  BY DEF DocumentsInv, LeftOK, AloneOK, Wants, Busy, Live, StoreSteps, CallAt, CallGoes,
     Rewrite, AfterBlob, Promote
<1> QED
  BY <1>1, <1>2, <1>3, <1>4, <1>5, <1>6, <1>7 DEF DocumentsInv

\* The document is there.
LEMMA AddNodeKeeps ==
    ASSUME DocumentsInv, NEW c \in Callers, AddNode(c)
    PROVE  DocumentsInv'
<1>1. DocsTypes'
  BY DEF DocumentsInv, DocsTypes, Stores, Deletes, Docs, DeleteSteps, storedFiles, CallAt,
     CallEnds, NoCall, AddNode
<1>2. DocsOK'
  BY DEF DocumentsInv, DocsTypes, DocsOK, Live, CallsOK, StoreOK, NumberOK, Adding,
     Storing, Stores, Deletes, DeleteSteps, NoCall, CallAt, AddNode
<1>3. CallsOK'
  BY DEF DocumentsInv, DocsTypes, CallsOK, NumberOK, Adding, NodeOK, StoreOK, Storing,
     Busy, StoreSteps, NoCall, CallAt, CallEnds, AddNode
<1>4. KeepOK'
  BY DEF DocumentsInv, KeepOK, CallsOK, StoreOK, Adding, Storing, Live, StoreSteps,
     NoCall, storedFiles, CallAt, CallEnds, AddNode
<1>5. LocalOK'
  BY DEF DocumentsInv, LocalOK, NoCall, storedFiles, CallEnds, AddNode
<1>6. AloneOK'
  BY DEF DocumentsInv, AloneOK, Busy, Storing, NoCall, CallAt, CallEnds, AddNode
<1>7. LeftOK'
  <2> SUFFICES ASSUME ~ messy' PROVE LeftOK'
    BY DEF LeftOK
  <2>1. ~ messy /\ Busy(c) /\ \A b \in Callers \ {c} : ~ Busy(b) /\ call'[b] = call[b]
    BY DEF DocumentsInv, AloneOK, Busy, AddNode, CallAt, CallEnds
  <2>2. /\ call'[c].hash = call[c].hash \/ call'[c] = NoCall
        /\ call'[c].copy = call[c].copy \/ call'[c] = NoCall
    BY DEF AddNode, CallEnds
  <2> DEFINE n == call[c].id
  <2>a. /\ n \in CallNumbers /\ Live' = Live \cup {n}
        /\ docs'[n].hash = call[c].hash /\ docs'[n].copy = call[c].copy
        /\ \A d \in Live : docs'[d].hash = docs[d].hash /\ docs'[d].copy = docs[d].copy
    BY CallKinds DEF DocumentsInv, DocsTypes, AddNode, CallAt, Storing, StoreSteps,
       Stores, Live, CallNumbers, CallsOK, NumberOK, Adding, StoreOK
  <2>3. \A h \in text' :
           \/ \E d \in Live' : docs'[d].hash = h
           \/ \E b \in Callers : Wants(b, h, (StoreSteps \ {"text"}) \cup {"cohort"})'
    BY <2>a DEF DocumentsInv, LeftOK, Wants, AddNode, CallEnds, storedFiles
  <2>4. \A h \in blob' :
              \/ \E d \in Live' : docs'[d].hash = h /\ docs'[d].copy
              \/ \E b \in Callers :
                    /\ Wants(b, h, {"promote", "promoting", "gate", "update", "cohort", "siblings"})'
                    /\ call'[b].copy
    BY <2>a DEF DocumentsInv, LeftOK, Wants, AddNode, CallEnds, storedFiles
  <2>5. \A h \in ignored' :
              h \in blob' \/ \E b \in Callers : Wants(b, h, {"blob", "rename", "unlist", "unlisting"})'
    BY DEF DocumentsInv, LeftOK, Wants, AddNode, CallEnds, CallAt, storedFiles
  <2> QED
    BY <2>3, <2>4, <2>5 DEF LeftOK
<1> QED
  BY <1>1, <1>2, <1>3, <1>4, <1>5, <1>6, <1>7 DEF DocumentsInv

\* Nobody confirmed who stores it.
LEMMA RefuseKeeps ==
    ASSUME DocumentsInv, NEW c \in Callers, Refuse(c)
    PROVE  DocumentsInv'
<1>1. DocsTypes'
  BY DEF DocumentsInv, DocsTypes, storedFiles, CallEnds, Refuse
<1>2. DocsOK'
  BY DEF DocumentsInv, DocsOK, Live, Refuse
<1>3. CallsOK'
  BY DEF DocumentsInv, CallsOK, NumberOK, Adding, NodeOK, StoreOK, Storing, Busy,
     StoreSteps, NoCall, CallEnds, Refuse
<1>4. KeepOK'
  BY DEF DocumentsInv, KeepOK, Adding, Storing, Live, StoreSteps, NoCall, storedFiles,
     CallEnds, Refuse
<1>5. LocalOK'
  BY DEF DocumentsInv, LocalOK, NoCall, storedFiles, CallEnds, Refuse
<1>6. AloneOK'
  BY DEF AloneOK, Refuse
<1>7. LeftOK'
  BY DEF LeftOK, Refuse
<1> QED
  BY <1>1, <1>2, <1>3, <1>4, <1>5, <1>6, <1>7 DEF DocumentsInv

\* A document that was there has a copy now.
LEMMA UpdateNodeKeeps ==
    ASSUME DocumentsInv, NEW c \in Callers, UpdateNode(c)
    PROVE  DocumentsInv'
<1>1. DocsTypes'
  <2>1. call[c] \in Stores
    BY CallKinds DEF DocumentsInv, Storing, StoreSteps, UpdateNode, CallAt
  <2>2. call'[c] \in Stores \cup {NoCall}
    BY DEF DocumentsInv, DocsTypes, UpdateNode, CallEnds
  <2> QED
    BY <2>1, <2>2 DEF DocumentsInv, DocsTypes, UpdateNode, CallGoes, CallEnds, CallStarts,
       storedFiles, ghosts, Stores, Deletes, Docs
<1>2. DocsOK'
  BY DEF DocumentsInv, DocsOK, Live, CallsOK, StoreOK, NodeOK, Storing, Busy, StoreSteps,
     CallAt, UpdateNode
<1>3. CallsOK'
  BY DEF DocumentsInv, CallsOK, NumberOK, Adding, NodeOK, StoreOK, Storing, Busy,
     StoreSteps, NoCall, ghosts, CallAt, CallEnds, UpdateNode
<1>4. KeepOK'
  BY DEF DocumentsInv, KeepOK, CallsOK, NodeOK, StoreOK, Adding, Storing, Busy, Live,
     StoreSteps, NoCall, storedFiles, ghosts, CallAt, CallEnds, UpdateNode
<1>5. LocalOK'
  BY DEF DocumentsInv, LocalOK, NoCall, storedFiles, ghosts, CallEnds, UpdateNode
<1>6. AloneOK'
  BY DEF DocumentsInv, AloneOK, Busy, Storing, NoCall, ghosts, CallAt, CallEnds,
     UpdateNode
<1>7. LeftOK'
  BY DEF DocumentsInv, DocsTypes, LeftOK, AloneOK, CallsOK, NodeOK, StoreOK, Wants,
     Storing, Busy, Live, CallNumbers, Stores, Deletes, DeleteSteps, NoCall, storedFiles, ghosts,
     CallAt, CallEnds, UpdateNode
<1> QED
  BY <1>1, <1>2, <1>3, <1>4, <1>5, <1>6, <1>7 DEF DocumentsInv

\* The document is gone.
LEMMA RemoveNodeKeeps ==
    ASSUME DocumentsInv, NEW c \in Callers, RemoveNode(c)
    PROVE  DocumentsInv'
<1>0. /\ call[c] \in Deletes /\ call[c].node \in CallNumbers
      /\ \A d \in CallNumbers : /\ docs'[d].hash = docs[d].hash /\ docs'[d].copy = docs[d].copy
                        /\ docs'[d].live = (docs[d].live /\ d # call[c].node)
      /\ call' = [call EXCEPT ![c] = IF docs[call[c].node].live
                                     THEN [call[c] EXCEPT !.at = "cohort"] ELSE NoCall]
  <2>1. call[c] \in Deletes /\ call[c].node \in CallNumbers
    BY CallKinds DEF DocumentsInv, RemoveNode, CallAt, Deleting, DeleteSteps, Deletes
  <2> QED
    BY <2>1 DEF DocumentsInv, DocsTypes, Docs, RemoveNode, CallGoes, CallEnds
<1>1. DocsTypes'
  <2>1. call[c] \in Deletes
    BY CallKinds DEF DocumentsInv, Deleting, DeleteSteps, RemoveNode, CallAt
  <2>2. call'[c] \in Deletes \cup {NoCall}
    BY <2>1 DEF DocumentsInv, DocsTypes, Deletes, DeleteSteps, RemoveNode, CallGoes,
       CallEnds
  <2> QED
    BY <2>1, <2>2 DEF DocumentsInv, DocsTypes, RemoveNode, CallGoes, CallEnds, CallStarts,
       storedFiles, ghosts, Stores, Deletes, Docs
<1>2. DocsOK'
  BY DEF DocumentsInv, DocsOK, Live, RemoveNode
<1>3. CallsOK'
  <2> SUFFICES ASSUME NEW b \in Callers PROVE NumberOK(b)' /\ NodeOK(b)' /\ StoreOK(b)'
    BY DEF CallsOK
  <2>1. \A a \in Callers :
           \/ call'[a] = NoCall
           \/ call'[a] = call[a]
           \/ a = c /\ call'[a] = [call[c] EXCEPT !.at = "cohort"] /\ call[c].at = "remove"
    BY <1>0 DEF DocumentsInv, DocsTypes, RemoveNode, CallAt
  <2>2. /\ Storing(b)' => Storing(b) /\ call'[b] = call[b]
        /\ Busy(b)' => Busy(b) /\ call'[b].node = call[b].node /\ call'[b].hash = call[b].hash
        /\ Storing(b) => call[b] \in Stores
        /\ Busy(b) /\ call[b].node # None => call[b].node \in CallNumbers
    BY <2>1, CallKinds DEF DocumentsInv, Storing, Busy, NoCall, StoreSteps, Stores,
       Deletes
  <2>3. NumberOK(b)'
    <3>1. \A a \in Callers : /\ Busy(a)' => Busy(a) /\ call'[a].node = call[a].node
                             /\ Adding(a)' => Adding(a) /\ call'[a].id = call[a].id
      BY <1>0, <2>1 DEF Adding, Storing, Busy, NoCall, StoreSteps, Deletes
    <3> QED
      BY <3>1 DEF DocumentsInv, CallsOK, NumberOK, RemoveNode
  <2>4. NodeOK(b)'
    BY <1>0, <2>2 DEF DocumentsInv, CallsOK, NodeOK, RemoveNode
  <2>5. StoreOK(b)'
    BY <2>2 DEF DocumentsInv, CallsOK, StoreOK, RemoveNode, ghosts
  <2> QED
    BY <2>3, <2>4, <2>5
<1>4. KeepOK'
  BY DEF DocumentsInv, DocsTypes, KeepOK, Adding, Storing, Live, CallNumbers, Stores, Deletes,
     StoreSteps, NoCall, storedFiles, ghosts, CallGoes, CallEnds, RemoveNode
<1>5. LocalOK'
  BY DocumentsAssumption DEF DocumentsInv, DocsTypes, LocalOK, Stores, Deletes, NoCall,
     storedFiles, ghosts, CallGoes, CallEnds, RemoveNode
<1>6. AloneOK'
  BY DEF DocumentsInv, DocsTypes, AloneOK, Busy, Storing, Stores, Deletes, StoreSteps,
     NoCall, ghosts, CallAt, CallGoes, RemoveNode
<1>7. LeftOK'
  <2> SUFFICES ASSUME ~ messy' PROVE LeftOK'
    BY DEF LeftOK
  <2>1. ~ messy /\ Busy(c) /\ \A b \in Callers \ {c} : ~ Busy(b) /\ call'[b] = call[b]
    BY DEF DocumentsInv, DocsTypes, AloneOK, Busy, RemoveNode, CallAt, CallGoes, ghosts
  <2>2. /\ call'[c].hash = call[c].hash \/ call'[c] = NoCall
        /\ call'[c].copy = call[c].copy \/ call'[c] = NoCall
    BY CallKinds DEF DocumentsInv, DocsTypes, RemoveNode, CallGoes, CallEnds, CallAt,
       Deletes, Deleting, DeleteSteps
  <2>3. \A h \in text' :
           \/ \E d \in Live' : docs'[d].hash = h
           \/ \E b \in Callers : Wants(b, h, (StoreSteps \ {"text"}) \cup {"cohort"})'
    BY <1>0, <2>1 DEF DocumentsInv, DocsTypes, NodeOK, LeftOK, Wants, Live, StoreSteps,
       CallsOK, RemoveNode, CallAt, storedFiles, None
  <2>4. \A h \in blob' :
              \/ \E d \in Live' : docs'[d].hash = h /\ docs'[d].copy
              \/ \E b \in Callers :
                    /\ Wants(b, h, {"promote", "promoting", "gate", "update", "cohort", "siblings"})'
                    /\ call'[b].copy
    BY <1>0, <2>1 DEF DocumentsInv, DocsTypes, NodeOK, AloneOK, LeftOK, Wants, Live,
       CallsOK, RemoveNode, CallAt, storedFiles, None
  <2>5. \A h \in ignored' :
              h \in blob' \/ \E b \in Callers : Wants(b, h, {"blob", "rename", "unlist", "unlisting"})'
    BY <2>1 DEF DocumentsInv, LeftOK, Wants, RemoveNode, CallAt, storedFiles
  <2> QED
    BY <2>3, <2>4, <2>5 DEF LeftOK
<1> QED
  BY <1>1, <1>2, <1>3, <1>4, <1>5, <1>6, <1>7 DEF DocumentsInv

\* The text goes unless another document has it.
LEMMA ReclaimTextKeeps ==
    ASSUME DocumentsInv, NEW c \in Callers, ReclaimText(c)
    PROVE  DocumentsInv'
<1>1. DocsTypes'
  <2>1. call[c] \in Deletes
    BY CallKinds DEF DocumentsInv, Deleting, DeleteSteps, ReclaimText, CallAt
  <2>2. call'[c] \in Deletes \cup {NoCall}
    BY <2>1 DEF DocumentsInv, DocsTypes, Deletes, DeleteSteps, ReclaimText, CallGoes,
       CallEnds, AfterPolicy, AfterBlob, With
  <2> QED
    BY <2>2 DEF DocumentsInv, DocsTypes, ReclaimText
<1>2. DocsOK'
  BY DEF DocumentsInv, DocsOK, Live, ReclaimText
<1>3. CallsOK'
  BY DEF DocumentsInv, CallsOK, NumberOK, Adding, NodeOK, StoreOK, Storing, Busy,
     StoreSteps, NoCall, CallAt, ReclaimText
<1>4. KeepOK'
  <2> SUFFICES ASSUME ~ raced' PROVE KeepOK'
    BY DEF KeepOK
  <2>1. ~ raced /\ (With(call[c].hash) = {} => ~ Stored(call[c].hash))
    BY DEF DocumentsInv, DocsTypes, ReclaimText
  <2>2. \A b \in Callers : Storing(b)' => b # c /\ call'[b] = call[b]
    BY DEF Storing, StoreSteps, NoCall, ReclaimText, CallAt
  <2>3. CASE With(call[c].hash) = {}
    <3>1. /\ \A d \in Live : docs[d].hash # call[c].hash
          /\ \A b \in Callers : Storing(b) => call[b].hash # call[c].hash
      BY <2>1, <2>3 DEF DocumentsInv, DocsTypes, Stored, With, Live, CallNumbers, Storing,
         StoreSteps
    <3> QED
      BY <2>1, <2>2, <3>1 DEF DocumentsInv, KeepOK, Adding, Storing, Live, StoreSteps,
         ReclaimText
  <2>4. CASE With(call[c].hash) # {}
    BY <2>1, <2>2, <2>4 DEF DocumentsInv, KeepOK, Adding, Storing, Live, StoreSteps,
       ReclaimText
  <2> QED
    BY <2>3, <2>4
<1>5. LocalOK'
  BY DEF DocumentsInv, DocsTypes, LocalOK, NoCall, ReclaimText
<1>6. AloneOK'
  BY DEF DocumentsInv, AloneOK, Busy, Storing, StoreSteps, NoCall, With, CallAt,
     ReclaimText
<1>7. LeftOK'
  BY DEF DocumentsInv, DocsTypes, LeftOK, CallsOK, Wants, Live, CallNumbers, With, CallAt,
     ReclaimText
<1> QED
  BY <1>1, <1>2, <1>3, <1>4, <1>5, <1>6, <1>7 DEF DocumentsInv

\* The copy goes unless another document has it.
LEMMA ReclaimBlobKeeps ==
    ASSUME DocumentsInv, NEW c \in Callers, ReclaimBlob(c)
    PROVE  DocumentsInv'
<1>1. DocsTypes'
  <2>1. call[c] \in Deletes
    BY CallKinds DEF DocumentsInv, Deleting, DeleteSteps, ReclaimBlob, CallAt
  <2>2. call'[c] \in Deletes \cup {NoCall}
    BY <2>1 DEF DocumentsInv, DocsTypes, Deletes, DeleteSteps, ReclaimBlob, CallGoes,
       CallEnds
  <2> QED
    BY <2>1, <2>2 DEF DocumentsInv, DocsTypes, ReclaimBlob, CallGoes, CallEnds,
       CallStarts, storedFiles, ghosts, Stores, Deletes, Docs
<1>2. DocsOK'
  BY DEF DocumentsInv, DocsOK, Live, ReclaimBlob
<1>3. CallsOK'
  <2>1. \A b \in Callers :
           \/ call'[b] = NoCall
           \/ call'[b] = call[b]
           \/ b = c /\ call'[b] = [call[c] EXCEPT !.at = "unlist"] /\ call[c].at = "siblings"
    BY DEF DocumentsInv, DocsTypes, ReclaimBlob, CallAt, CallGoes, CallEnds
  <2>2. call[c] \in Deletes
    BY CallKinds DEF DocumentsInv, ReclaimBlob, CallAt, Deleting, DeleteSteps
  <2> QED
    BY <2>1 DEF DocumentsInv, DocsTypes, CallsOK, NumberOK, Adding, NodeOK, StoreOK,
       Storing, Busy, Stores, Deletes, StoreSteps, NoCall, ReclaimBlob
<1>4. KeepOK'
  BY DEF DocumentsInv, DocsTypes, KeepOK, Adding, Storing, Live, CallNumbers, Docs, Stores,
     Deletes, StoreSteps, NoCall, CallGoes, CallEnds, With, Stored, ReclaimBlob
<1>5. LocalOK'
  BY DEF DocumentsInv, DocsTypes, LocalOK, Stores, Deletes, NoCall, CallGoes, CallEnds,
     ReclaimBlob
<1>6. AloneOK'
  BY DEF DocumentsInv, DocsTypes, AloneOK, Busy, Storing, Stores, Deletes, StoreSteps,
     NoCall, CallAt, CallGoes, CallEnds, ReclaimBlob
<1>7. LeftOK'
  <2> SUFFICES ASSUME ~ messy' PROVE LeftOK'
    BY DEF LeftOK
  <2>1. ~ messy /\ Busy(c) /\ \A b \in Callers \ {c} : ~ Busy(b) /\ call'[b] = call[b]
    BY DEF DocumentsInv, DocsTypes, AloneOK, Busy, ReclaimBlob, CallAt, CallGoes, CallEnds
  <2>2. /\ call'[c].hash = call[c].hash \/ call'[c] = NoCall
        /\ call'[c].copy = call[c].copy \/ call'[c] = NoCall
    BY CallKinds DEF DocumentsInv, DocsTypes, ReclaimBlob, CallGoes, CallEnds, CallAt,
       Deletes, Deleting, DeleteSteps
  <2>3. \A h \in text' :
           \/ \E d \in Live' : docs'[d].hash = h
           \/ \E b \in Callers : Wants(b, h, (StoreSteps \ {"text"}) \cup {"cohort"})'
    BY DEF DocumentsInv, LeftOK, Wants, Busy, Live, StoreSteps, ReclaimBlob, CallAt,
       AloneOK
  <2>4. \A h \in blob' :
              \/ \E d \in Live' : docs'[d].hash = h /\ docs'[d].copy
              \/ \E b \in Callers :
                    /\ Wants(b, h, {"promote", "promoting", "gate", "update", "cohort", "siblings"})'
                    /\ call'[b].copy
    BY DEF DocumentsInv, DocsTypes, LeftOK, Wants, Busy, Live, ReclaimBlob, CallAt, With,
       CallNumbers, Siblings, AloneOK
  <2>5. \A h \in ignored' :
              h \in blob' \/ \E b \in Callers : Wants(b, h, {"blob", "rename", "unlist", "unlisting"})'
    BY DEF DocumentsInv, DocsTypes, LeftOK, Wants, ReclaimBlob, CallGoes, CallEnds,
       CallAt, Stores, Deletes, NoCall
  <2> QED
    BY <2>3, <2>4, <2>5 DEF LeftOK
<1> QED
  BY <1>1, <1>2, <1>3, <1>4, <1>5, <1>6, <1>7 DEF DocumentsInv

\* The copy may be ignored.
LEMMA ReadEntryKeeps ==
    ASSUME DocumentsInv, NEW c \in Callers, ReadEntry(c)
    PROVE  DocumentsInv'
<1>1. DocsTypes'
  <2>1. call[c] \in Deletes
    BY CallKinds DEF DocumentsInv, Deleting, DeleteSteps, ReadEntry, CallAt
  <2>2. call'[c] \in Deletes \cup {NoCall}
    BY <2>1 DEF DocumentsInv, DocsTypes, Deletes, DeleteSteps, ReadEntry, CallGoes,
       CallEnds, AfterPolicy, AfterBlob, With
  <2> QED
    BY <2>2 DEF DocumentsInv, DocsTypes, ReadEntry, storedFiles, ghosts
<1>2. DocsOK'
  BY DEF DocumentsInv, DocsOK, Live, ReadEntry
<1>3. CallsOK'
  BY DEF DocumentsInv, CallsOK, NumberOK, Adding, NodeOK, StoreOK, Storing, Busy,
     StoreSteps, NoCall, ghosts, CallAt, ReadEntry
<1>4. KeepOK'
  BY DEF DocumentsInv, KeepOK, Adding, Storing, Live, StoreSteps, NoCall, storedFiles,
     ghosts, ReadEntry
<1>5. LocalOK'
  BY DEF DocumentsInv, LocalOK, NoCall, storedFiles, ghosts, ReadEntry
<1>6. AloneOK'
  BY DEF DocumentsInv, AloneOK, Busy, Storing, StoreSteps, NoCall, storedFiles, ghosts,
     CallAt, ReadEntry
<1>7. LeftOK'
  BY DEF DocumentsInv, LeftOK, Wants, Live, StoreSteps, storedFiles, ghosts, CallAt,
     ReadEntry
<1> QED
  BY <1>1, <1>2, <1>3, <1>4, <1>5, <1>6, <1>7 DEF DocumentsInv

\* It is ignored no more.
LEMMA DropEntryKeeps ==
    ASSUME DocumentsInv, NEW c \in Callers, DropEntry(c)
    PROVE  DocumentsInv'
<1>1. DocsTypes'
  BY DEF DocumentsInv, DocsTypes, Stores, Deletes, CallAt, CallEnds, NoCall, DropEntry
<1>2. DocsOK'
  BY DEF DocumentsInv, DocsOK, Live, DropEntry
<1>3. CallsOK'
  BY DEF DocumentsInv, CallsOK, NumberOK, Adding, NodeOK, StoreOK, Storing, Busy,
     StoreSteps, NoCall, CallEnds, DropEntry
<1>4. KeepOK'
  BY DEF DocumentsInv, DocsTypes, KeepOK, Adding, Storing, Live, StoreSteps, NoCall,
     CallEnds, DropEntry
<1>5. LocalOK'
  BY DocumentsAssumption DEF DocumentsInv, DocsTypes, LocalOK, CallsOK, StoreOK, Storing,
     Live, Docs, Stores, Deletes, StoreSteps, DeleteSteps, NoCall, CallAt, CallGoes,
     CallEnds, With, Stored, DropEntry
<1>6. AloneOK'
  BY DEF DocumentsInv, DocsTypes, AloneOK, Busy, NoCall, CallAt, CallEnds, DropEntry
<1>7. LeftOK'
  BY DEF DocumentsInv, LeftOK, AloneOK, Wants, Busy, Live, StoreSteps, CallAt, DropEntry
<1> QED
  BY <1>1, <1>2, <1>3, <1>4, <1>5, <1>6, <1>7 DEF DocumentsInv

\* A call ends in the middle.
LEMMA CutOffKeeps ==
    ASSUME DocumentsInv, NEW c \in Callers, CutOff(c)
    PROVE  DocumentsInv'
<1>1. DocsTypes'
  BY DEF DocumentsInv, DocsTypes, storedFiles, CallEnds, CutOff
<1>2. DocsOK'
  BY DEF DocumentsInv, DocsOK, Live, CutOff
<1>3. CallsOK'
  BY DEF DocumentsInv, CallsOK, NumberOK, Adding, NodeOK, StoreOK, Storing, Busy,
     StoreSteps, NoCall, CallEnds, CutOff
<1>4. KeepOK'
  BY DEF DocumentsInv, KeepOK, Adding, Storing, Live, StoreSteps, NoCall, storedFiles,
     CallEnds, CutOff
<1>5. LocalOK'
  BY DEF DocumentsInv, LocalOK, NoCall, storedFiles, CallEnds, CutOff
<1>6. AloneOK'
  BY DEF AloneOK, CutOff
<1>7. LeftOK'
  BY DEF LeftOK, CutOff
<1> QED
  BY <1>1, <1>2, <1>3, <1>4, <1>5, <1>6, <1>7 DEF DocumentsInv

\* At first there are no documents.
LEMMA InitDocuments == DocumentsInit => DocumentsInv
<1> SUFFICES ASSUME DocumentsInit PROVE DocumentsInv
  OBVIOUS
<1>1. DocsTypes
  BY DEF DocumentsInit, DocsTypes, Docs, CallNumbers, NoDoc, NoCall
<1>2. /\ \A d \in CallNumbers : ~ docs[d].live
      /\ \A c \in Callers : call[c].at = "idle"
  BY DEF DocumentsInit, CallNumbers, NoDoc, NoCall
<1>3. DocsOK /\ CallsOK
  BY <1>2 DEF DocsOK, Live, CallNumbers, CallsOK, NumberOK, NodeOK, StoreOK, Adding, Storing,
     Busy, StoreSteps
<1>4. KeepOK /\ LocalOK /\ AloneOK /\ LeftOK
  BY <1>2 DEF DocumentsInit, KeepOK, LocalOK, AloneOK, LeftOK, Live, CallNumbers, Adding, Storing,
     Busy, StoreSteps
<1> QED
  BY <1>1, <1>3, <1>4 DEF DocumentsInv

\* Every step of a call, a commit and an end in the middle keeps the invariant of the
\* documents.
LEMMA NextDocuments == DocumentsInv /\ [DocumentsNext]_documentsVars => DocumentsInv'
<1> SUFFICES ASSUME DocumentsInv, [DocumentsNext]_documentsVars PROVE DocumentsInv'
  OBVIOUS
<1>1. CASE Commit
  BY <1>1, CommitKeeps
<1>2. ASSUME NEW c \in Callers, NEW h \in Hashes, NEW force \in BOOLEAN, NEW keep \in BOOLEAN,
             NEW local \in BOOLEAN, StoreStarts(c, h, force, keep, local)
      PROVE  DocumentsInv'
  BY <1>2, StoreStartsKeeps
<1>3. ASSUME NEW c \in Callers, NEW d \in 1..MaxCalls, DeleteStarts(c, d)
      PROVE  DocumentsInv'
  BY <1>3, DeleteStartsKeeps DEF CallNumbers
<1>4. ASSUME NEW c \in Callers,
             \/ WriteText(c) \/ Policy(c) \/ AddIgnoreEntry(c) \/ WriteBlob(c) \/ RenameBlob(c)
             \/ ReadIgnore(c)
             \/ Promote(c) \/ AddNode(c) \/ Refuse(c) \/ UpdateNode(c)
      PROVE  DocumentsInv'
  BY <1>4, WriteTextKeeps, PolicyKeeps, AddIgnoreEntryKeeps, WriteBlobKeeps, RenameBlobKeeps,
     ReadIgnoreKeeps,
     PromoteKeeps, AddNodeKeeps, RefuseKeeps, UpdateNodeKeeps
<1>5. ASSUME NEW c \in Callers,
             \/ RemoveNode(c) \/ ReclaimText(c) \/ ReclaimBlob(c) \/ ReadEntry(c) \/ DropEntry(c)
             \/ CutOff(c)
      PROVE  DocumentsInv'
  BY <1>5, RemoveNodeKeeps, ReclaimTextKeeps, ReclaimBlobKeeps, ReadEntryKeeps, DropEntryKeeps,
     CutOffKeeps
<1>6. CASE UNCHANGED documentsVars
  BY <1>6 DEF documentsVars, storedFiles, ghosts, DocumentsInv, DocsTypes, DocsOK,
     CallsOK, KeepOK, LocalOK, AloneOK, LeftOK, NumberOK, NodeOK, StoreOK, Adding,
     Storing, Busy, Wants, Live, With
<1> QED
  BY <1>1, <1>2, <1>3, <1>4, <1>5, <1>6 DEF DocumentsNext

\* So it holds for ever.
LEMMA DocumentsInvariant == DocumentsSpec => []DocumentsInv
BY InitDocuments, NextDocuments, PTL DEF DocumentsSpec

(* A document has its text, and its copy if it has one, whatever stores,     *)
(* deletions of its twins and servers that end in the middle come together,   *)
(* unless a deletion reclaimed the files while a store of the same bytes was  *)
(* under way (_store_document, delete_cognition_node).                       *)
THEOREM DocumentsAlwaysKeepFiles == DocumentsSpec => []DocumentsKeepTheirFiles
<1>1. DocumentsInv => DocumentsKeepTheirFiles
  BY DEF DocumentsInv, KeepOK, DocumentsKeepTheirFiles
<1> QED
  BY <1>1, DocumentsInvariant, PTL

(* A copy that nobody asked to commit is committed by nobody, whenever        *)
(* somebody commits (_materialize_blob), unless two calls rewrote the ignore  *)
(* file at once.                                                            *)
THEOREM LocalAlwaysStays == DocumentsSpec => []LocalCopiesStay
<1>1. DocumentsInv => LocalCopiesStay
  BY DEF DocumentsInv, LocalOK, LocalCopiesStay
<1> QED
  BY <1>1, DocumentsInvariant, PTL

(* Calls that follow one another and complete leave no file behind            *)
(* (documents_with_sha).                                                     *)
THEOREM NothingStays == DocumentsSpec => []NothingIsLeft
<1>1. ASSUME DocumentsInv, ~ messy, \A c \in Callers : CallAt(c, "idle") PROVE NothingIsLeft
  <2>1. \A c \in Callers, h \in Hashes :
           /\ ~ Wants(c, h, (StoreSteps \ {"text"}) \cup {"cohort"})
           /\ ~ Wants(c, h, {"promote", "promoting", "gate", "update", "cohort", "siblings"})
           /\ ~ Wants(c, h, {"blob", "rename", "unlist", "unlisting"})
    BY <1>1 DEF Wants, StoreSteps, CallAt
  <2> QED
    BY <1>1, <2>1 DEF DocumentsInv, DocsTypes, LeftOK, NothingIsLeft
<1>2. DocumentsInv => NothingIsLeft
  BY <1>1 DEF NothingIsLeft
<1> QED
  BY <1>2, DocumentsInvariant, PTL

=============================================================================
