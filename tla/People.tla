------------------------------- MODULE People -------------------------------
(***************************************************************************)
(* Who is on the project: the committed profiles (cognition/profiles.py),   *)
(* the roster they give together with the older person nodes                *)
(* (cognition/roster.py), the migration of these nodes                      *)
(* (cognition/person_migration.py), and the person tools.                   *)
(*                                                                         *)
(* Every clone has a file per person, a sequence of records; clones merge    *)
(* their files line by line.  The newest stamp of a field wins, wherever it  *)
(* stands.  A clone reads all lines before every operation: that its cache   *)
(* shows them is the subject of JsonlDirRegistry.                           *)
(***************************************************************************)
EXTENDS Naturals, Sequences, UnionMerge, SequencesExt, FiniteSetsExt

CONSTANTS Clones, Persons, Roles,
          Driver,      \* [Clones -> the person who uses the clone]
          Legacy,      \* the persons that have a node, in every clone
          OldRole,     \* the role such a node records
          Clocks,      \* the settings of the clones' clocks: how far each is ahead
          MaxActs      \* bound on calls that write

Nobody == "nobody"
Nothing == "nothing"

(* a value that is written says something, and clocks count from 0           *)
ASSUME PeopleAssumption ==
    /\ Nothing \notin Roles \cup Persons \cup {OldRole}
    /\ Clocks \subseteq [Clones -> Nat]

(* the five required fields behave alike but for reports_to                 *)
Required == {"role", "reports_to"}

VARIABLES
    files,     \* [Clones -> [Persons -> the records of the profile file]]
    ahead,     \* the setting of the clocks
    acts,      \* the writing calls so far: the time
    last,      \* the last call: what it wrote and where
    partly     \* the persons whose removal stopped half way

peopleVars == <<files, ahead, acts, last, partly>>

NoCall == [kind |-> "none"]

PeopleInit ==
    /\ files = [c \in Clones |-> [p \in Persons |-> <<>>]]
    /\ ahead \in Clocks
    /\ acts = 0 /\ last = NoCall /\ partly = {}

-----------------------------------------------------------------------------
(* Reading: the fold of a person's records.                                 *)

Stamp(recs, field) ==
    Max({0} \cup {recs[i].at : i \in {j \in DOMAIN recs : recs[j].field = field}})

\* Mutant: the last line wins.
ValueLast(recs, field) ==
    LET of == {i \in DOMAIN recs : recs[i].field = field}
    IN  IF of = {} THEN Nothing ELSE recs[Max(of)].value

(* a tie goes to the later line                                             *)
Value(recs, field) ==
    LET at == Stamp(recs, field)
        of == {i \in DOMAIN recs : recs[i].field = field /\ recs[i].at = at}
    IN  IF of = {} THEN Nothing ELSE recs[Max(of)].value

Tombstone(recs) == Stamp(recs, "removed")

\* Mutant: one newer field brings a person back.
IsRemovedWhole(recs) ==
    /\ Tombstone(recs) # 0
    /\ \A f \in Required : Stamp(recs, f) <= Tombstone(recs)

IsRemoved(recs) ==
    /\ Tombstone(recs) # 0
    /\ \E f \in Required : Stamp(recs, f) <= Tombstone(recs)

HasProfile(recs) == \E f \in Required : Value(recs, f) # Nothing
Missing(recs) == {f \in Required : Value(recs, f) = Nothing}

(* Roster.load: profiles first, then the nodes of those who have none        *)
OnRoster(c, p) == ~ IsRemoved(files[c][p]) /\ (HasProfile(files[c][p]) \/ p \in Legacy)

Row(c, p) ==
    IF ~ OnRoster(c, p) THEN Nothing
    ELSE IF HasProfile(files[c][p])
         THEN [f \in Required |-> Value(files[c][p], f)]
         ELSE [f \in Required |-> IF f = "role" THEN OldRole ELSE Nobody]

Manager(c, p) ==
    IF OnRoster(c, p) /\ Row(c, p)["reports_to"] \in Persons
    THEN {Row(c, p)["reports_to"]} ELSE {}

(* reports_to_cycle: the managers upward lead back to the person            *)
ClosesCycle(c, p, manager) ==
    \/ manager = p
    \/ \E n \in 1..Cardinality(Persons) : \E path \in [1..n -> Persons] :
          /\ path[1] = manager /\ path[n] = p
          /\ \A i \in 1..(n - 1) : path[i + 1] \in Manager(c, path[i])

-----------------------------------------------------------------------------
(* Writing.                                                                 *)

Now(c) == 10 * (acts + 1) + ahead[c]

\* Mutant: the clock alone.
WinningAtNow(recs, field, now) == now

(* _winning_at: past the record to beat, however far ahead that is          *)
WinningAt(recs, field, now) ==
    IF Stamp(recs, field) < now THEN now ELSE Stamp(recs, field) + 1

Record(recs, field, value, now) ==
    [field |-> field, value |-> value, at |-> WinningAt(recs, field, now)]

(* set_fields: a field that has the value already is not written            *)
Differing(recs, values) == {f \in DOMAIN values : Value(recs, f) # values[f]}

SetFields(recs, values, now) ==
    recs \o [i \in 1..Cardinality(Differing(recs, values)) |->
               LET f == SetToSeq(Differing(recs, values))[i]
               IN  Record(recs, f, values[f], now)]

(* the person's fields are unset one after the other                        *)
Unset(recs, fields, now) ==
    recs \o [i \in 1..Cardinality(fields) |->
               Record(recs, SetToSeq(fields)[i], Nothing, now)]

(* mark_removed: past every stamp of the person                             *)
Marked(recs, now) ==
    LET newest == Max({0} \cup {recs[i].at : i \in DOMAIN recs})
    IN  Append(recs, [field |-> "removed", value |-> Nothing,
                      at |-> IF newest < now THEN now ELSE newest + 1])

Call(kind, c, p, recs, values) ==
    /\ acts' = acts + 1
    /\ files' = [files EXCEPT ![c][p] = recs]
    /\ last' = [kind |-> kind, clone |-> c, person |-> p, values |-> values]
    /\ UNCHANGED ahead

Managers(c, p) == {Nobody} \cup {m \in Persons : ~ ClosesCycle(c, p, m)}

(* cognition_register_person; the reporting line may be left out            *)
Register(c, p) ==
    /\ ~ (OnRoster(c, p) /\ Missing(files[c][p]) = {})
    /\ \E role \in Roles, manager \in Managers(c, p) \cup {Nothing} :
          LET values == [f \in Required \ {g \in {"reports_to"} : manager = Nothing} |->
                           IF f = "role" THEN role ELSE manager]
          IN  Call("register", c, p, SetFields(files[c][p], values, Now(c)), values)
    /\ UNCHANGED partly

(* cognition_update_person                                                  *)
Update(c, p) ==
    /\ OnRoster(c, p)
    /\ \E f \in Required : \E v \in IF f = "role" THEN Roles ELSE Managers(c, p) :
          LET values == [g \in {f} |-> v]
          IN  Call("update", c, p, SetFields(files[c][p], values, Now(c)), values)
    /\ UNCHANGED partly

(* cognition_remove_person: unset every field, then the tombstone           *)
RemovePerson(c, p) ==
    /\ OnRoster(c, p) /\ Driver[c] # p
    /\ Call("remove", c, p, Marked(Unset(files[c][p], Required, Now(c)), Now(c) + 1),
            [f \in Required |-> Nothing])
    /\ UNCHANGED partly

(* ... stopped on the way by an error of the file system, or a crash        *)
RemovePartly(c, p) ==
    /\ OnRoster(c, p) /\ Driver[c] # p
    /\ \E fields \in (SUBSET Required) \ {{}} :
          Call("partly", c, p, Unset(files[c][p], fields, Now(c)), <<>>)
    /\ partly' = partly \cup {p}

Unmigrated(c) == {p \in Legacy : ~ HasProfile(files[c][p]) /\ ~ IsRemoved(files[c][p])}

(* migrate_person_nodes, when a session starts                              *)
Migrate(c, p) ==
    /\ p \in Unmigrated(c)
    /\ LET values == [f \in Required |-> IF f = "role" THEN OldRole ELSE Nobody]
       IN  Call("migrate", c, p, SetFields(files[c][p], values, Now(c)), values)
    /\ UNCHANGED partly

Pull(c, d) ==
    /\ \/ files' = [files EXCEPT ![c] = [p \in Persons |-> Merged(@[p], files[d][p])]]
       \/ files' = [files EXCEPT ![c] = [p \in Persons |-> Merged(files[d][p], @[p])]]
    /\ last' = NoCall
    /\ UNCHANGED <<ahead, acts, partly>>

PeopleNext ==
    \/ /\ acts < MaxActs
       /\ \E c \in Clones, p \in Persons :
             \/ Register(c, p) \/ Update(c, p)
             \/ RemovePerson(c, p) \/ RemovePartly(c, p) \/ Migrate(c, p)
    \/ \E c, d \in Clones : c # d /\ Pull(c, d)

PeopleSpec == PeopleInit /\ [][PeopleNext]_peopleVars

-----------------------------------------------------------------------------
(* Properties.                                                              *)

(* "making 'the most recent deliberate write wins' actually true"            *)
(* (profiles.py, _winning_at): whatever clock wrote before, a call that says  *)
(* it wrote a field shows it in the answer.                                 *)
WritesShow ==
    last.kind \in {"register", "update"} =>
        \A f \in DOMAIN last.values :
            Value(files[last.clone][last.person], f) = last.values[f]

Tied(recs) ==
    \E i, j \in DOMAIN recs :
        recs[i].field = recs[j].field /\ recs[i].at = recs[j].at /\ recs[i].value # recs[j].value

(* Clones that hold the same records show the same roster, in whatever order *)
(* merges left them, unless two records of one field carry the same stamp.   *)
SameRecordsSameRoster ==
    \A c, d \in Clones : \A p \in Persons :
        ToSet(files[c][p]) = ToSet(files[d][p]) /\ ~ Tied(files[c][p]) =>
            Row(c, p) = Row(d, p)

(* Somebody who was removed is not on a roster again with half a profile:    *)
(* edits of clones that had not heard of the removal do not bring a person   *)
(* back.  A removal that stopped half way is left out.                      *)
NobodyHalfBack ==
    \A c \in Clones : \A p \in Persons \ partly :
        OnRoster(c, p) /\ Tombstone(files[c][p]) # 0 => Missing(files[c][p]) = {}

(* "Coming back takes a DELIBERATE re-registration" (is_removed): a removed  *)
(* person whose older node was migrated elsewhere stays off the roster.     *)
NodesBringNobodyBack ==
    \A c \in Clones : \A p \in Persons \ partly :
        OnRoster(c, p) /\ Tombstone(files[c][p]) # 0 =>
            Row(c, p) # [f \in Required |-> IF f = "role" THEN OldRole ELSE Nobody]

(* "every required field has to be written after the tombstone": registering *)
(* somebody again, with every field, puts the person on the roster.         *)
RegisteredIsOnRoster ==
    last.kind = "register" /\ DOMAIN last.values = Required =>
        OnRoster(last.clone, last.person)

=============================================================================
