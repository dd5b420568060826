----------------------------- MODULE SvnHygiene -----------------------------
(***************************************************************************)
(* What is scheduled for the next commit of a Subversion working copy         *)
(* (cognition/svn_hygiene.py).                                               *)
(*                                                                         *)
(* A pass puts .cognition/ under version control, then the ignore list on it,  *)
(* and only then schedules new files, in rounds: status shows an unversioned   *)
(* folder but not what is in it.  Passes run when a session starts and, in the *)
(* background, after a server wrote a new file.  The user edits the working    *)
(* copy meanwhile, and every call of the svn client may fail.                 *)
(***************************************************************************)
EXTENDS Naturals, FiniteSets

CONSTANTS Shared,       \* the files to be shared, of "profile" and "note"
          MaxPasses,    \* bound on passes
          MaxFailures,  \* bound on failed calls of the svn client
          MaxEdits      \* bound on what the user does to the working copy

ASSUME SharedAssumption == Shared \subseteq {"profile", "note"}

Items == {"identity", "people", "profile", "documents", "note", "temp", "blob", "artifact"}
Folder(i) == i \in {"people", "documents"}
Within(i) == CASE i = "profile" -> "people"
               [] i \in {"note", "temp", "blob"} -> "documents"
               [] OTHER -> "top"
Inside(f) == {i \in Items : Within(i) = f}
Passes == {"hook", "work"}

VARIABLES
    present,    \* the items on disk
    localOnly,  \* those that documents/.gitignore names
    versioned,  \* is .cognition/ under version control?
    prop,       \* its ignore list: the lines of this program, and the user's own
    scheduled,  \* the items scheduled for addition, or committed
    conflict,   \* is a conflict unresolved?
    pass,       \* [Passes -> the pass under way]
    left,       \* what may still happen: passes, failures, edits of the user
    writing,    \* the step of a document stored for this machine only
    troubled,   \* a call failed, a conflict arose, or the user undid something
    turnedAway  \* a background pass was not begun, as one was under way

vars == <<present, localOnly, versioned, prop, scheduled, conflict, pass, left, writing,
          troubled, turnedAway>>
disk == <<present, localOnly, writing>>
copy == <<versioned, prop, scheduled, conflict>>

Idle == [at |-> "idle"]
Nothing == {}

Init ==
    /\ present = {"identity"} /\ localOnly = {} /\ writing = "no"
    /\ versioned \in BOOLEAN /\ prop \in {{}, IF versioned THEN {"own"} ELSE {}}
    /\ scheduled = {} /\ conflict = FALSE
    /\ pass = [p \in Passes |-> Idle]
    /\ left = [passes |-> MaxPasses, failures |-> MaxFailures, edits |-> MaxEdits]
    /\ troubled = FALSE /\ turnedAway = FALSE

-----------------------------------------------------------------------------
(* What svn and the module tell of an item.                                  *)

\* ignore_globs
Globbed(i) == i = "identity"

\* is_conflict_artifact
Leftover(i) == i = "artifact"

\* svn status: nothing inside a folder that is not versioned itself
Listed ==
    {i \in present \ scheduled : Within(i) \in scheduled \cup {"top"} /\ ~ ("managed" \in prop /\ Globbed(i))}

\* _only_excluded_inside
OnlyExcludedInside(f, excluded) ==
    LET files == present \cap Inside(f) IN files # {} /\ files \subseteq excluded

\* Mutant: status hides what is ignored, so the list is not matched again.
TodoUnmatched(excluded, attempted) ==
    {i \in Listed \ (excluded \cup attempted) : ~ Leftover(i)}

Todo(excluded, attempted) ==
    {i \in Listed \ (excluded \cup attempted) : ~ Leftover(i) /\ ~ Globbed(i)}

-----------------------------------------------------------------------------
(* A pass.                                                                  *)

Free(p) == pass[p].at = "idle"
Goes(p, step) == pass' = [pass EXCEPT ![p] = step]
Fails ==
    /\ left.failures > 0 /\ left' = [left EXCEPT !.failures = @ - 1]
    /\ troubled' = TRUE
Works == UNCHANGED <<left, troubled>>

\* a session starts (ensure_svn_hygiene)
StartPass ==
    /\ Free("hook") /\ left.passes > 0
    /\ left' = [left EXCEPT !.passes = @ - 1]
    /\ Goes("hook", [at |-> "look"])
    /\ UNCHANGED <<disk, copy, troubled, turnedAway>>

(* _run_pass: the folder itself first                                        *)
AddFolder(p) ==
    /\ pass[p].at = "look"
    /\ \/ Works /\ versioned' = TRUE /\ Goes(p, [at |-> "list"])
       \/ Fails /\ UNCHANGED versioned /\ Goes(p, Idle)
    /\ UNCHANGED <<disk, prop, scheduled, conflict, turnedAway>>

(* the ignore list next; one that cannot be read counts as empty (_propget)   *)
ReadProperty(p) ==
    /\ pass[p].at = "list"
    /\ LET Found(lines) ==
               Goes(p, IF "managed" \in lines THEN [at |-> "check"]
                       ELSE [at |-> "set", lines |-> lines \cup {"managed"}])
       IN  \/ Works /\ Found(prop)
           \/ Fails /\ Found({})
    /\ UNCHANGED <<disk, copy, turnedAway>>

(* and it is replaced                                                       *)
SetProperty(p) ==
    /\ pass[p].at = "set"
    /\ \/ Works /\ prop' = pass[p].lines /\ Goes(p, [at |-> "check"])
       \/ Fails /\ UNCHANGED prop /\ Goes(p, Idle)
    /\ UNCHANGED <<disk, versioned, scheduled, conflict, turnedAway>>

(* add_new_files: both are there by now, or nothing is added; what is for     *)
(* this machine only is read once                                           *)
CheckThenExclude(p) ==
    /\ pass[p].at = "check"
    /\ \/ Works /\ IF versioned /\ "managed" \in prop
                   THEN Goes(p, [at |-> "status", excluded |-> localOnly, attempted |-> Nothing])
                   ELSE Goes(p, [at |-> "report"])
       \/ Fails /\ Goes(p, [at |-> "report"])
    /\ UNCHANGED <<disk, copy, turnedAway>>

(* a round: what is left to add, nothing while a conflict is open            *)
Round(p) ==
    /\ pass[p].at = "status"
    /\ LET s == pass[p]
           todo == Todo(s.excluded, s.attempted)
           dirs == {i \in todo : Folder(i) /\ ~ OnlyExcludedInside(i, s.excluded)}
           files == {i \in todo : ~ Folder(i)}
       IN  \/ /\ Works
              /\ IF conflict \/ dirs \cup files = {} THEN Goes(p, [at |-> "report"])
                 ELSE Goes(p, [at |-> "add", excluded |-> s.excluded,
                               attempted |-> s.attempted \cup todo,
                               dirs |-> dirs, files |-> files])
           \/ Fails /\ Goes(p, [at |-> "report"])
    /\ UNCHANGED <<disk, copy, turnedAway>>

\* Mutant: one round.
AddOnce(p) ==
    /\ pass[p].at = "add"
    /\ Works /\ scheduled' = scheduled \cup pass[p].dirs \cup pass[p].files
    /\ Goes(p, [at |-> "report"])
    /\ UNCHANGED <<disk, versioned, prop, conflict, turnedAway>>

(* svn add, for the folders and for the files: it passes over what is gone,   *)
(* and each of the two calls may fail                                        *)
Add(p) ==
    /\ pass[p].at = "add"
    /\ LET s == pass[p]
       IN  /\ \/ Works /\ scheduled' = scheduled \cup ((s.dirs \cup s.files) \cap present)
              \/ Fails /\ \E done \in {s.dirs, s.files} :
                              scheduled' = scheduled \cup (done \cap present)
           /\ Goes(p, [at |-> "status", excluded |-> s.excluded, attempted |-> s.attempted])
    /\ UNCHANGED <<disk, versioned, prop, conflict, turnedAway>>

(* the rest of _run_pass looks at what is pending, and is still the one pass  *)
Report(p) ==
    /\ pass[p].at = "report" /\ Goes(p, Idle)
    /\ UNCHANGED <<disk, copy, left, troubled, turnedAway>>

-----------------------------------------------------------------------------
(* The server writes files and asks for a background pass                     *)
(* (add_new_files_in_background): one at a time.                             *)

Asks ==
    IF Free("work")
    THEN Goes("work", [at |-> "look"]) /\ UNCHANGED turnedAway
    ELSE UNCHANGED pass /\ turnedAway' = TRUE

\* a profile, or a document with a copy to be committed
WriteShared(i) ==
    /\ i \in Shared \ present
    /\ present' = present \cup {i, Within(i)}
    /\ Asks
    /\ UNCHANGED <<localOnly, writing, copy, left, troubled>>

(* a document for this machine only: the list names it, then a temporary file *)
(* is written beside it and renamed                                         *)
NameLocal ==
    /\ writing = "no"
    /\ writing' = "named" /\ localOnly' = {"blob"}
    /\ UNCHANGED <<present, copy, pass, left, troubled, turnedAway>>

WriteTemp ==
    /\ writing = "named"
    /\ writing' = "temp" /\ present' = present \cup {"temp", "documents"}
    /\ UNCHANGED <<localOnly, copy, pass, left, troubled, turnedAway>>

RenameTemp ==
    /\ writing = "temp"
    /\ writing' = "done" /\ present' = (present \ {"temp"}) \cup {"blob"}
    /\ Asks
    /\ UNCHANGED <<localOnly, copy, left, troubled>>

-----------------------------------------------------------------------------
(* The user.                                                                *)

Edits == left.edits > 0 /\ left' = [left EXCEPT !.edits = @ - 1] /\ troubled' = TRUE

\* an update conflicts in a shared file and leaves others beside it
Conflict ==
    /\ Edits /\ Shared \cap scheduled # {} /\ ~ conflict
    /\ conflict' = TRUE /\ present' = present \cup {"artifact"}
    /\ UNCHANGED <<localOnly, writing, versioned, prop, scheduled, pass, turnedAway>>

Resolve ==
    /\ conflict /\ conflict' = FALSE
    /\ UNCHANGED <<disk, versioned, prop, scheduled, pass, left, troubled, turnedAway>>

\* svn revert of the property
RevertProperty ==
    /\ Edits /\ "managed" \in prop /\ prop' = prop \ {"managed"}
    /\ UNCHANGED <<disk, versioned, scheduled, conflict, pass, turnedAway>>

Next ==
    \/ StartPass
    \/ \E p \in Passes :
          AddFolder(p) \/ ReadProperty(p) \/ SetProperty(p) \/ CheckThenExclude(p)
          \/ Round(p) \/ Add(p) \/ Report(p)
    \/ \E i \in Items : WriteShared(i)
    \/ NameLocal \/ WriteTemp \/ RenameTemp
    \/ Conflict \/ Resolve \/ RevertProperty

Spec == Init /\ [][Next]_vars

-----------------------------------------------------------------------------
(* Properties.                                                              *)

(* "adding before the property exists sweeps local/ -- the identity file --   *)
(* into the commit" (add_new_files): neither that file nor what a conflict     *)
(* leaves behind is ever scheduled, whoever undoes what between two steps.     *)
LocalFilesStay == scheduled \cap {"identity", "artifact"} = {}

(* When all passes are over, everything that is to be shared is scheduled,     *)
(* also what is in a folder that was new, unless a call was turned away, a     *)
(* command failed or the user interfered.                                    *)
SharedIsScheduled ==
    (~ troubled /\ ~ turnedAway /\ \A p \in Passes : Free(p))
    => present \cap Shared \subseteq scheduled

(* "One at a time; a run already in flight covers this one"                   *)
(* (add_new_files_in_background).                                            *)
FlightCovers ==
    (~ troubled /\ \A p \in Passes : Free(p))
    => present \cap Shared \subseteq scheduled

(* "paths that must never be added: documents the user stored as local-only"  *)
(* (local_only_paths), under whatever name their content is on disk.           *)
LocalDocumentsStay == scheduled \cap {"temp", "blob"} = {}

(* What the user put on the ignore list stays there.                         *)
OwnLinesStay == [][prop \subseteq prop' \cup {"managed"}]_prop

=============================================================================
