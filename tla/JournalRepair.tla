--------------------------- MODULE JournalRepair ---------------------------
(***************************************************************************)
(* One checkout: its person's own shard, a teammate's shard, the ledger of *)
(* the lines this checkout wrote (cognition/own_ledger.py), the retained   *)
(* notice in the alert flag (loss_notices.py), and the sessions that share *)
(* them (cognition/storage.py: _catch_up, _rebuild, _heal_own_shard,       *)
(* _track_retained, _flag_repair, accept_disk).                            *)
(*                                                                         *)
(* Version control rolls files back, removes them, merges lines in, blocks *)
(* the own shard and moves HEAD.  Sessions start, end or crash at any step *)
(* and interleave: the process lock does not span processes, so everything *)
(* between a scan of the files and the notice that follows may interleave. *)
(*                                                                         *)
(* Left out: what a line says (GraphReplay), the adoption line of a shard, *)
(* which is never in the ledger, and notices of other kinds, which every   *)
(* writer of the flag keeps.                                               *)
(***************************************************************************)
EXTENDS Naturals, FiniteSets, Sequences, SequencesExt

CONSTANTS Proc,         \* sessions of this checkout
          OwnLine,      \* lines this checkout may write
          MateLine,     \* lines the teammate's shard may hold
          MaxUpsets,    \* bound on rollbacks, removals and blockings
          MaxMoves,     \* bound on commits and branch switches
          MaxReloads    \* bound on forced reloads

ASSUME LineAssumption == OwnLine \cap MateLine = {}
ASSUME ProcAssumption == IsFiniteSet(Proc)
ASSUME BoundAssumption == {MaxUpsets, MaxMoves, MaxReloads} \subseteq Nat

Files == {"own", "mate"}
Lines == OwnLine \cup MateLine
Branches == {"main", "topic"}
Unknown == [branch |-> "none", commit |-> 0]

VARIABLES disk,       \* the lines of each file, in order; no file has none
          there,      \* the files that exist
          blocked,    \* own shard mid-merge, conflicted or read-only
          source,     \* where HEAD is: branch and commit
          recorded,   \* the HEAD source_moved stored last
          ledger,     \* own lines the ledger holds
          notice,     \* the RETAINED notice: file -> missing lines
          tracked,    \* sessions that hold state for the own shard (_files)
          seen,       \* what each session has consumed of each file
          held,       \* lines each session's graph reflects
          unread,     \* own lines a session has not read back (own_unread)
          retained,   \* _retained_missing: file -> missing lines
          first,      \* _first_catch_up
          stage,      \* what a session is doing
          upsets, moves, reloads

files == <<disk, there, blocked>>
vcs == <<source, upsets, moves>>
machine == <<recorded, ledger, notice>>
session == <<tracked, seen, held, unread, retained, first, stage>>
vars == <<files, vcs, machine, session, reloads>>

Nothing == [f \in {} |-> {}]
Listings == UNION {[S -> SUBSET Lines] : S \in SUBSET Files}

At(step) == [step |-> step, line |-> {}, lost |-> Nothing, heal |-> {},
             healed |-> FALSE, stuck |-> FALSE, rebuilt |-> FALSE, boot |-> FALSE]

Steps == {"off", "scan", "decide", "heal", "flag", "load", "idle", "record"}
Stages == [step : Steps, line : SUBSET OwnLine, lost : Listings,
           heal : SUBSET OwnLine, healed : BOOLEAN, stuck : BOOLEAN,
           rebuilt : BOOLEAN, boot : BOOLEAN]

Sources == [branch : Branches, commit : 0 .. MaxMoves]

TypeOK ==
  /\ disk \in [Files -> Seq(Lines)]
  /\ there \subseteq Files /\ \A f \in Files \ there : disk[f] = <<>>
  /\ blocked \in BOOLEAN
  /\ source \in Sources
  /\ recorded \in Sources \cup {Unknown}
  /\ ledger \subseteq OwnLine
  /\ notice \in Listings
  /\ tracked \subseteq Proc
  /\ seen \in [Proc -> [Files -> Seq(Lines)]]
  /\ held \in [Proc -> SUBSET Lines]
  /\ unread \in [Proc -> SUBSET OwnLine]
  /\ retained \in [Proc -> Listings]
  /\ first \in [Proc -> BOOLEAN]
  /\ stage \in [Proc -> Stages]
  /\ upsets \in 0 .. MaxUpsets /\ moves \in 0 .. MaxMoves
  /\ reloads \in [Proc -> 0 .. MaxReloads]

Unopened == [f \in Files |-> <<>>]

Init ==
  /\ disk = Unopened
  /\ there = {}
  /\ blocked = FALSE
  /\ source = [branch |-> "main", commit |-> 0]
  /\ recorded = Unknown
  /\ ledger = {}
  /\ notice = Nothing
  /\ tracked = {}
  /\ seen = [p \in Proc |-> Unopened]
  /\ held = [p \in Proc |-> {}]
  /\ unread = [p \in Proc |-> {}]
  /\ retained = [p \in Proc |-> Nothing]
  /\ first = [p \in Proc |-> TRUE]
  /\ stage = [p \in Proc |-> At("off")]
  /\ upsets = 0 /\ moves = 0
  /\ reloads = [p \in Proc |-> 0]

Here(p, step) == stage[p].step = step
Idle(p) == Here(p, "idle")

-----------------------------------------------------------------------------
(* Sessions and writes.                                                     *)

\* __init__: nothing is known yet; the first catch-up follows.
Boot(p) ==
  /\ Here(p, "off")
  /\ stage' = [stage EXCEPT ![p] = [At("scan") EXCEPT !.boot = TRUE]]
  /\ UNCHANGED <<files, vcs, machine, tracked, seen, held, unread, retained, first, reloads>>

\* The session ends, or crashes at any step: its memory is gone.
Quit(p) ==
  /\ ~Here(p, "off")
  /\ tracked' = tracked \ {p}
  /\ seen' = [seen EXCEPT ![p] = Unopened]
  /\ held' = [held EXCEPT ![p] = {}]
  /\ unread' = [unread EXCEPT ![p] = {}]
  /\ retained' = [retained EXCEPT ![p] = Nothing]
  /\ first' = [first EXCEPT ![p] = TRUE]
  /\ stage' = [stage EXCEPT ![p] = At("off")]
  /\ reloads' = [reloads EXCEPT ![p] = 0]
  /\ UNCHANGED <<files, vcs, machine>>

Ever == Range(disk["own"]) \cup ledger \cup UNION {held[p] : p \in Proc}
             \cup UNION {stage[p].line : p \in Proc}

\* _append_journal: the line is on disk before anything else knows of it ...
AppendLine(p) ==
  /\ Idle(p)
  /\ \E l \in OwnLine \ Ever :
       /\ disk' = [disk EXCEPT !["own"] = Append(@, l)]
       /\ stage' = [stage EXCEPT ![p] = [At("record") EXCEPT !.line = {l}]]
  /\ there' = there \cup {"own"}
  /\ tracked' = tracked \cup {p}
  /\ UNCHANGED <<blocked, vcs, machine, seen, held, unread, retained, first, reloads>>

\* ... then it goes to the ledger, is awaited back, and is applied.
RecordLine(p) ==
  /\ Here(p, "record")
  /\ ledger' = ledger \cup stage[p].line
  /\ unread' = [unread EXCEPT ![p] = @ \cup stage[p].line]
  /\ held' = [held EXCEPT ![p] = @ \cup stage[p].line]
  /\ stage' = [stage EXCEPT ![p] = At("idle")]
  /\ UNCHANGED <<files, vcs, recorded, notice, tracked, seen, retained, first, reloads>>

-----------------------------------------------------------------------------
(* Catch-up.                                                                *)

\* _scan_file's verdict "rebuild": something consumed can no longer be there.
StillHolds(was, now) == Len(now) >= Len(was) /\ Range(was) \subseteq Range(now)

NeedsRebuild(was, f) ==
  \/ f \in there /\ ~StillHolds(was, disk[f])
  \/ f \notin there /\ was # <<>>

OnDisk == UNION {Range(disk[f]) : f \in there}

\* The files' lines after a pass over them ("append" and "insert"): a missing file
\* that was never read stays unread.
Consumed(was) == [f \in Files |-> IF f \in there THEN disk[f] ELSE was[f]]

Fresh(was) == \E f \in there : ~(Range(disk[f]) \subseteq Range(was[f]))

LostOwn(p) == ~(unread[p] \subseteq Range(disk["own"]))

\* _files_that_lost_lines: the own shard is left to healing.
LostLines(was) ==
  LET missing == [f \in {"mate"} |-> Range(was[f]) \ Range(disk[f])]
  IN IF missing["mate"] = {} THEN Nothing ELSE missing

\* Mutant: what is outstanding is not looked at.
RepairDueWhenFresh(p) == Fresh(seen[p]) \/ first[p]

\* Repair is looked into only when the pass read something new, something is still
\* outstanding, or this is the session's first pass.
RepairDue(p) == Fresh(seen[p]) \/ retained[p] # Nothing \/ first[p]

\* The pass that only reads, when nothing was lost.
Consume(p) ==
  /\ stage[p].step \in {"idle", "scan"}
  /\ \A f \in Files : ~NeedsRebuild(seen[p][f], f)
  /\ ~LostOwn(p)
  /\ tracked' = IF "own" \in there THEN tracked \cup {p} ELSE tracked
  /\ seen' = [seen EXCEPT ![p] = Consumed(@)]
  /\ held' = [held EXCEPT ![p] = @ \cup OnDisk]
  /\ unread' = [unread EXCEPT ![p] = {}]
  /\ IF RepairDue(p)
       THEN /\ first' = [first EXCEPT ![p] = FALSE]
            /\ stage' = [stage EXCEPT ![p] = [At("decide") EXCEPT !.boot = stage[p].boot]]
       ELSE /\ stage' = [stage EXCEPT ![p] = At("idle")]
            /\ UNCHANGED first
  /\ UNCHANGED <<files, vcs, machine, retained, reloads>>

\* _rebuild: a file lost what was consumed from it, or a line this session wrote
\* is not there.  Every file is read from the top, the graph keeps what it has.
Rebuild(p) ==
  /\ stage[p].step \in {"idle", "scan"}
  /\ \/ \E f \in Files : NeedsRebuild(seen[p][f], f)
     \/ LostOwn(p)
  /\ tracked' = IF "own" \in there THEN tracked \cup {p} ELSE tracked \ {p}
  /\ seen' = [seen EXCEPT ![p] = disk]
  /\ held' = [held EXCEPT ![p] = @ \cup OnDisk]
  /\ unread' = [unread EXCEPT ![p] = {}]
  /\ stage' = [stage EXCEPT ![p] = [At("decide") EXCEPT !.lost = LostLines(seen[p]),
                                                        !.rebuilt = TRUE,
                                                        !.boot = stage[p].boot]]
  /\ UNCHANGED <<files, vcs, machine, retained, first, reloads>>

\* reload(): the per-file state is dropped, then an ordinary pass runs.
Reload(p) ==
  /\ Idle(p)
  /\ reloads[p] < MaxReloads
  /\ reloads' = [reloads EXCEPT ![p] = @ + 1]
  /\ seen' = [seen EXCEPT ![p] = Unopened]
  /\ stage' = [stage EXCEPT ![p] = At("scan")]
  /\ UNCHANGED <<files, vcs, machine, tracked, held, unread, retained, first>>

-----------------------------------------------------------------------------
(* Repair.                                                                  *)

\* Mutant: lines still on disk are repaired too.
MissingAll(p) == ledger

\* The own lines a session finds missing: what the ledger holds beyond what the
\* session has just read of the file.
Missing(p) == ledger \ Range(seen[p]["own"])

Repairable(p) == p \in tracked /\ "own" \in there /\ ledger # {}

\* source_moved: any other HEAD than the one stored last, a new commit included.
SourceMoved == recorded # Unknown /\ recorded # source

\* _heal_own_shard up to its loop: stand down without a file or a ledger; prune the
\* ledger when HEAD moved; report a blocked file; otherwise set out to append.
Decide(p) ==
  /\ Here(p, "decide")
  /\ IF Repairable(p)
       THEN /\ recorded' = source
            /\ ledger' = IF SourceMoved THEN ledger \cap Range(disk["own"]) ELSE ledger
       ELSE UNCHANGED <<recorded, ledger>>
  /\ LET repairs == Repairable(p) /\ Missing(p) # {} /\ ~SourceMoved
     IN stage' = [stage EXCEPT ![p].step = IF repairs /\ ~blocked THEN "heal" ELSE "flag",
                               ![p].heal = IF repairs /\ ~blocked THEN Missing(p) ELSE {},
                               ![p].stuck = repairs /\ blocked]
  /\ UNCHANGED <<files, vcs, notice, tracked, seen, held, unread, retained, first, reloads>>

\* One missing line is appended back.
HealLine(p) ==
  /\ Here(p, "heal")
  /\ \E l \in stage[p].heal :
       /\ disk' = [disk EXCEPT !["own"] = Append(@, l)]
       /\ unread' = [unread EXCEPT ![p] = @ \cup {l}]
       /\ stage' = [stage EXCEPT ![p].heal = @ \ {l},
                                 ![p].healed = TRUE,
                                 ![p].step = IF stage[p].heal = {l} THEN "flag" ELSE "heal"]
  /\ there' = there \cup {"own"}
  /\ UNCHANGED <<blocked, vcs, machine, tracked, seen, held, retained, first, reloads>>

\* The file cannot be written: the rest stays unrepaired and the file is reported.
HealFails(p) ==
  /\ Here(p, "heal")
  /\ blocked
  /\ stage' = [stage EXCEPT ![p].heal = {}, ![p].stuck = TRUE, ![p].step = "flag"]
  /\ UNCHANGED <<files, vcs, machine, tracked, seen, held, unread, retained, first, reloads>>

\* _track_retained: what was listed before, joined with what was just lost, minus
\* what the files hold again; the own shard is listed while it cannot be repaired.
Listed(missing, f) == IF f \in DOMAIN missing THEN missing[f] ELSE {}

\* Mutants: only this pass's losses are listed; a listed file is never dropped.
TrackThisPassOnly(before, lost, stuck, now) ==
  LET unrepairable == IF stuck THEN {"own"} ELSE {}
      remaining == [f \in Files |-> Listed(lost, f) \ Range(now[f])]
  IN [f \in {g \in Files : remaining[g] # {}} \cup unrepairable |-> remaining[f]]

TrackForGood(before, lost, stuck, now) ==
  LET unrepairable == IF stuck THEN {"own"} ELSE {}
      remaining == [f \in Files |-> Listed(before, f) \cup Listed(lost, f)]
  IN [f \in {g \in Files : remaining[g] # {}} \cup unrepairable |-> remaining[f]]

Track(before, lost, stuck, now) ==
  LET unrepairable == IF stuck THEN {"own"} ELSE {}
      remaining == [f \in Files |-> (Listed(before, f) \cup Listed(lost, f)) \ Range(now[f])]
      still == {f \in Files : remaining[f] # {}} \cup unrepairable
  IN [f \in still |-> remaining[f]]

\* The end of a pass: the notice is raised or cleared from this session's own list
\* (_flag_repair); after repairs in an ordinary pass the own shard is read again, and
\* created if it is gone (_own_shard).
FlagRepair(p) ==
  /\ Here(p, "flag")
  /\ LET still == Track(retained[p], stage[p].lost, stage[p].stuck, seen[p])
         again == stage[p].healed /\ ~stage[p].rebuilt
         rereads == again /\ StillHolds(seen[p]["own"], disk["own"])
     IN /\ there' = IF again THEN there \cup {"own"} ELSE there
        /\ retained' = [retained EXCEPT ![p] = still]
        /\ notice' = still
        /\ seen' = IF rereads THEN [seen EXCEPT ![p]["own"] = disk["own"]] ELSE seen
        /\ held' = IF rereads THEN [held EXCEPT ![p] = @ \cup Range(disk["own"])] ELSE held
        /\ unread' = IF rereads THEN [unread EXCEPT ![p] = @ \ Range(disk["own"])] ELSE unread
  /\ stage' = [stage EXCEPT ![p] = IF stage[p].boot THEN At("load") ELSE At("idle")]
  /\ UNCHANGED <<disk, blocked, vcs, recorded, ledger, tracked, first, reloads>>

\* The end of __init__: what the notice lists is taken over.
LoadNotice(p) ==
  /\ Here(p, "load")
  /\ retained' = [retained EXCEPT ![p] =
       [f \in DOMAIN retained[p] \cup DOMAIN notice |->
          Listed(retained[p], f) \cup Listed(notice, f)]]
  /\ stage' = [stage EXCEPT ![p] = At("idle")]
  /\ UNCHANGED <<files, vcs, machine, tracked, seen, held, unread, first, reloads>>

\* accept_disk, in a process of its own that repairs nothing: the ledger is cut to
\* what the file holds and the notice is dropped.
AcceptDisk ==
  /\ ledger' = ledger \cap Range(disk["own"])
  /\ notice' = Nothing
  /\ ledger' # ledger \/ notice # Nothing
  /\ UNCHANGED <<files, vcs, recorded, session, reloads>>

-----------------------------------------------------------------------------
(* Version control.                                                         *)

\* An older copy of a file is put on disk.
Rollback(f) ==
  /\ f \in there
  /\ upsets < MaxUpsets
  /\ upsets' = upsets + 1
  /\ \E n \in 0 .. Len(disk[f]) - 1 : disk' = [disk EXCEPT ![f] = SubSeq(@, 1, n)]
  /\ UNCHANGED <<there, blocked, source, moves, machine, session, reloads>>

RemoveFile(f) ==
  /\ f \in there
  /\ upsets < MaxUpsets
  /\ upsets' = upsets + 1
  /\ disk' = [disk EXCEPT ![f] = <<>>]
  /\ there' = there \ {f}
  /\ UNCHANGED <<blocked, source, moves, machine, session, reloads>>

\* A pull merges a teammate's line in, at any place; also how a lost line returns.
Deliver ==
  /\ \E l \in MateLine \ Range(disk["mate"]), i \in 1 .. Len(disk["mate"]) + 1 :
       disk' = [disk EXCEPT !["mate"] = InsertAt(@, i, l)]
  /\ there' = there \cup {"mate"}
  /\ UNCHANGED <<blocked, vcs, machine, session, reloads>>

Block ==
  /\ ~blocked
  /\ upsets < MaxUpsets
  /\ upsets' = upsets + 1
  /\ blocked' = TRUE
  /\ UNCHANGED <<disk, there, source, moves, machine, session, reloads>>

Unblock ==
  /\ blocked
  /\ blocked' = FALSE
  /\ UNCHANGED <<disk, there, vcs, machine, session, reloads>>

MoveHead(to) ==
  /\ moves < MaxMoves
  /\ moves' = moves + 1
  /\ source' = to
  /\ UNCHANGED <<files, upsets, machine, session, reloads>>

Commit == MoveHead([source EXCEPT !.commit = @ + 1])
SwitchBranch == \E b \in Branches \ {source.branch} : MoveHead([source EXCEPT !.branch = b])

-----------------------------------------------------------------------------
CatchUp(p) ==
  Consume(p) \/ Rebuild(p) \/ Decide(p) \/ HealLine(p) \/ HealFails(p)
    \/ FlagRepair(p) \/ LoadNotice(p)

VersionControl ==
  \/ \E f \in Files : Rollback(f) \/ RemoveFile(f)
  \/ Deliver \/ Block \/ Unblock \/ Commit \/ SwitchBranch

Next ==
  \/ \E p \in Proc : Boot(p) \/ Quit(p) \/ AppendLine(p) \/ RecordLine(p)
                       \/ Reload(p) \/ CatchUp(p)
  \/ AcceptDisk
  \/ VersionControl

\* A running session keeps being used (every operation starts with a catch-up), a
\* started operation goes on, and a conflict is resolved some day.
Fairness ==
  /\ \A p \in Proc : WF_vars(CatchUp(p)) /\ WF_vars(RecordLine(p))
  /\ WF_vars(Unblock)

Spec == Init /\ [][Next]_vars /\ Fairness

-----------------------------------------------------------------------------
(* Properties.                                                              *)

\* What a session shows of the teammate's shard but the file no longer held when it
\* was last read.
ShownButGone(p) == (held[p] \cap MateLine) \ Range(seen[p]["mate"])

\* All of that is on the session's list of retained lines: a loss is never forgotten
\* while the session lives ("Sticky, and self-verifying", _track_retained).  A forced
\* reload does forget it: it starts from what the files hold by then.
LossesAreListedUnlessReloaded ==
  \A p \in Proc :
    Idle(p) /\ reloads[p] = 0 => ShownButGone(p) \subseteq Listed(retained[p], "mate")

\* Sessions that repair the same rollback each append a lost line at most once: "a
\* wrong diagnosis costs a duplicate line" (_heal_own_shard), never a growing file.
Copies(l) == Cardinality({i \in DOMAIN disk["own"] : disk["own"][i] = l})

RepairIsBounded == \A l \in OwnLine : Copies(l) <= Cardinality(Proc)

\* A line of the ledger that a session has read or written, and that the own shard
\* lost, is appended back -- unless the session ends or is reloaded, the file itself
\* is gone, or the line was given up (accept-disk, or HEAD moved).
Knows(p, l) == l \in Range(seen[p]["own"]) \cup unread[p]

LostLinesComeBack ==
  \A p \in Proc, l \in OwnLine :
    (l \in ledger /\ Knows(p, l) /\ l \notin Range(disk["own"]))
      ~> (\/ l \in Range(disk["own"]) \/ l \notin ledger \/ "own" \notin there
          \/ Here(p, "off") \/ reloads[p] # 0)

\* A session stops listing a file once the file holds its lines again.
RestoredFilesAreDropped ==
  \A p \in Proc, l \in MateLine :
    (l \in Listed(retained[p], "mate"))
      ~> (l \notin Listed(retained[p], "mate") \/ l \notin Range(disk["mate"]))

\* The notice about a teammate's file is dropped only when the file holds the lines
\* again, or on accept-disk: "It is sticky until then" (_flag_repair), "so they survive
\* a restart" (_track_retained).
NoticeStands ==
  [][Listed(notice, "mate") \subseteq Listed(notice', "mate") \cup Range(disk["mate"])
       \/ AcceptDisk]_vars

\* A recorded line is given up only when the human accepts the files as they are or
\* the checkout moved to another branch: "A branch switch, an `svn switch`, or an
\* update back to an older revision" (source_moved).
GivenUpOnPurpose ==
  [][ledger \subseteq ledger' \/ AcceptDisk \/ source.branch # recorded.branch]_vars
=============================================================================
