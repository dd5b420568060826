------------------------------ MODULE Identity ------------------------------
(***************************************************************************)
(* Who signs what a checkout records (cognition/identity.py,                  *)
(* cognition/checkout_binding.py, _gated_identity, cognition_set_identity).    *)
(*                                                                         *)
(* A person answers once, and a file in the checkout keeps the answer with    *)
(* the site (machine and account) and the folder it was given in, by path and *)
(* by the folder's own number.  Folders are moved, copied and removed with     *)
(* the files in them, and a file may travel through version control.  A write  *)
(* asks who acts, then whether that person's profile is complete, and records. *)
(***************************************************************************)
EXTENDS Naturals, FiniteSets

CONSTANTS Persons,
          Sites,        \* a machine and an account on it
          Paths,        \* where the checkout may be
          Servers,
          Git,          \* the person that the configuration of git names
          MaxFolders,   \* bound on folders
          MaxAnswers,   \* bound on answers
          MaxWrites     \* bound on records

VARIABLES
    folder,     \* [Paths -> the number of the folder there, 0 if there is none]
    file,       \* [Paths -> .cognition/local/identity.json]
    legacy,     \* [Paths -> .cognition/identity.json, where it was kept before]
    profile,    \* [Persons -> who completed the profile, Nobody while it is not complete]
    session,    \* [Servers -> the call under way]
    made,       \* the folders made so far
    answers,    \* what was answered, the last last
    signed      \* who signed what was recorded

identityVars == <<folder, file, legacy, profile, session, made, answers, signed>>

Nobody == "none"
NotCalling == [at |-> "idle"]
NoFile == [name |-> Nobody]
Unbound == [name |-> "somebody", bound |-> FALSE]   \* written before files were bound

IdentityInit ==
    /\ folder = [p \in Paths |-> IF p = CHOOSE q \in Paths : TRUE THEN 1 ELSE 0]
    /\ made = 1
    /\ file = [p \in Paths |-> NoFile]
    /\ \E old \in {NoFile, Unbound} :
          legacy = [p \in Paths |-> IF folder[p] = 0 THEN NoFile ELSE old]
    /\ profile = [p \in Persons |-> Nobody]
    /\ session = [s \in Servers |-> NotCalling]
    /\ answers = {} /\ signed = {}

-----------------------------------------------------------------------------
(* Reading.                                                                 *)

(* read_path                                                                *)
ReadFile(path) == IF file[path] # NoFile THEN file[path] ELSE legacy[path]

\* Mutant: the site alone.
BelongsToSite(f, path, site) == f # NoFile /\ f.bound /\ f.site = site

(* the machine, the account, and the folder by its path or by its number     *)
Belongs(f, path, site) ==
    /\ f # NoFile /\ f.bound
    /\ f.site = site
    /\ f.path = path \/ f.id = folder[path]

(* inspect_confirmed_identity                                               *)
Status(path, site) ==
    LET f == ReadFile(path)
    IN  CASE f = NoFile -> "absent"
          [] f # NoFile /\ Belongs(f, path, site) -> "ok"
          [] f # NoFile /\ ~ Belongs(f, path, site) -> IF f.bound THEN "foreign" ELSE "unbound"

FromGit == [name |-> Git, confirmed |-> FALSE]

(* resolve_identity: the file where it is trusted, else git                  *)
Acting(path, site) ==
    IF Status(path, site) = "ok" THEN [name |-> ReadFile(path).name, confirmed |-> TRUE]
    ELSE FromGit

-----------------------------------------------------------------------------
(* Answering: cognition_set_identity.                                        *)

Starts(s, call) == session[s].at = "idle" /\ session' = [session EXCEPT ![s] = call]
Ends(s) == session' = [session EXCEPT ![s] = NotCalling]
HasFolder(s) == folder[session[s].path] # 0

(* write_confirmed_identity: the file is replaced at once                    *)
WriteConfirmed(s, path, site, p) ==
    /\ Cardinality(answers) < MaxAnswers /\ folder[path] # 0
    /\ Starts(s, [at |-> "profile", path |-> path, site |-> site, name |-> p])
    /\ LET binding == [name |-> p, bound |-> TRUE, site |-> site,
                       path |-> path, id |-> folder[path]]
       IN  /\ file' = [file EXCEPT ![path] = binding]
           /\ answers' = answers \cup {[given |-> binding, nr |-> Cardinality(answers) + 1]}
    /\ UNCHANGED <<folder, legacy, profile, made, signed>>

(* what the file says by now is whose profile gets the answers; they may not  *)
(* complete it, or the write fails                                          *)
SetProfile(s, complete) ==
    /\ session[s].at = "profile" /\ HasFolder(s)
    /\ LET call == session[s]
           now == Acting(call.path, call.site)
           whose == IF now.confirmed THEN now.name ELSE call.name
       IN  profile' = [profile EXCEPT ![whose] = IF complete THEN call.name ELSE @]
    /\ Ends(s)
    /\ UNCHANGED <<folder, file, legacy, made, answers, signed>>

-----------------------------------------------------------------------------
(* Writing: _gated_identity and the record.                                  *)

(* _acting_identity: the stamp; who is confirmed, complete and on the roster  *)
(* may write.  A tombstone that merged in takes a person off the roster       *)
(* whatever the profile holds                                               *)
Gate(s, path, site, removed) ==
    /\ Cardinality(signed) < MaxWrites /\ folder[path] # 0
    /\ LET stamp == Acting(path, site)
           missing == stamp.confirmed /\ profile[stamp.name] = Nobody
           open == stamp.confirmed /\ ~ missing /\ ~ removed
       IN  Starts(s, [at |-> IF open THEN "write" ELSE "again", path |-> path,
                      site |-> site, stamp |-> stamp, missing |-> missing,
                      id |-> folder[path], seen |-> Cardinality(answers)])
    /\ UNCHANGED <<folder, file, legacy, profile, made, answers, signed>>

(* require_identity reads the file again, takes a profile that was not looked *)
(* at for a complete one, and lets a removed person pass whose profile is      *)
Require(s) ==
    /\ session[s].at = "again" /\ HasFolder(s)
    /\ LET call == session[s]
           open == Acting(call.path, call.site).confirmed /\ ~ call.missing
       IN  IF open THEN session' = [session EXCEPT ![s].at = "write"] ELSE Ends(s)
    /\ UNCHANGED <<folder, file, legacy, profile, made, answers, signed>>

Record(s) ==
    /\ session[s].at = "write"
    /\ LET call == session[s]
       IN  signed' = signed \cup {[stamp |-> call.stamp, path |-> call.path,
                                     site |-> call.site, id |-> call.id, seen |-> call.seen]}
    /\ Ends(s)
    /\ UNCHANGED <<folder, file, legacy, profile, made, answers>>

(* cognition_remove_person, here or in another checkout: the fields are unset *)
RemovePerson(p) ==
    /\ profile[p] # Nobody
    /\ profile' = [profile EXCEPT ![p] = Nobody]
    /\ UNCHANGED <<folder, file, legacy, session, made, answers, signed>>

-----------------------------------------------------------------------------
(* Relocation of the old file, when a server starts (_relocate_local_files).  *)

Relocate(s, path) ==
    /\ legacy[path] # NoFile
    /\ ~ \E t \in Servers : session[t].at = "moving" /\ session[t].path = path   \* the lock
    /\ IF file[path] # NoFile
       THEN legacy' = [legacy EXCEPT ![path] = NoFile] /\ UNCHANGED session
       ELSE Starts(s, [at |-> "moving", path |-> path]) /\ UNCHANGED legacy
    /\ UNCHANGED <<folder, file, profile, made, answers, signed>>

(* the file is moved over whatever is there by now                           *)
MoveFile(s) ==
    /\ session[s].at = "moving"
    /\ LET path == session[s].path
       IN  IF legacy[path] = NoFile THEN UNCHANGED <<file, legacy>>
           ELSE /\ file' = [file EXCEPT ![path] = legacy[path]]
                /\ legacy' = [legacy EXCEPT ![path] = NoFile]
    /\ Ends(s)
    /\ UNCHANGED <<folder, profile, made, answers, signed>>

-----------------------------------------------------------------------------
(* Folders and files move while no call is under way in them.                *)

Quiet(path) == ~ \E s \in Servers : session[s].at # "idle" /\ session[s].path = path

Move(from, to) ==
    /\ folder[from] # 0 /\ folder[to] = 0 /\ Quiet(from)
    /\ folder' = [folder EXCEPT ![to] = folder[from], ![from] = 0]
    /\ file' = [file EXCEPT ![to] = file[from], ![from] = NoFile]
    /\ legacy' = [legacy EXCEPT ![to] = legacy[from], ![from] = NoFile]
    /\ UNCHANGED <<profile, session, made, answers, signed>>

Copy(from, to) ==
    /\ folder[from] # 0 /\ folder[to] = 0 /\ made < MaxFolders
    /\ made' = made + 1
    /\ folder' = [folder EXCEPT ![to] = made']
    /\ file' = [file EXCEPT ![to] = file[from]]
    /\ legacy' = [legacy EXCEPT ![to] = legacy[from]]
    /\ UNCHANGED <<profile, session, answers, signed>>

(* somebody committed the file, and an update brings it                      *)
Travel(from, to) ==
    /\ folder[from] # 0 /\ folder[to] # 0
    /\ file[from] # NoFile /\ file[to] = NoFile /\ Quiet(to)
    /\ file' = [file EXCEPT ![to] = file[from]]
    /\ UNCHANGED <<folder, legacy, profile, session, made, answers, signed>>

IdentityNext ==
    \/ \E s \in Servers :
          \/ \E path \in Paths : Relocate(s, path)
          \/ \E path \in Paths, site \in Sites :
                \/ \E removed \in BOOLEAN : Gate(s, path, site, removed)
                \/ \E p \in Persons : WriteConfirmed(s, path, site, p)
          \/ \E complete \in BOOLEAN : SetProfile(s, complete)
          \/ Require(s) \/ Record(s) \/ MoveFile(s)
    \/ \E p \in Persons : RemovePerson(p)
    \/ \E from, to \in Paths : Move(from, to) \/ Copy(from, to) \/ Travel(from, to)

IdentitySpec == IdentityInit /\ [][IdentityNext]_identityVars

-----------------------------------------------------------------------------
(* Properties.                                                              *)

(* the answers given at the site of a record that may hold for its folder     *)
Given(r) ==
    {a \in answers : /\ a.given.site = r.site /\ a.nr <= r.seen
                     /\ a.given.path = r.path \/ a.given.id = r.id}

(* the last of them given in that very folder, where it was then             *)
There(r) == {a \in Given(r) : a.given.path = r.path /\ a.given.id = r.id}

(* "the file is trusted only where all three still match": what is signed as  *)
(* confirmed was answered by that person at this machine and account and for  *)
(* this folder, and nobody answered there later (inspect_confirmed_identity), *)
(* however folders and files moved.                                         *)
SignedByLastAnswer ==
    \A r \in {x \in signed : x.stamp.confirmed} :
        \E a \in Given(r) :
            /\ a.given.name = r.stamp.name
            /\ \A b \in There(r) : b.nr <= a.nr

(* "Resolved ONCE ... the same resolution serves both the decision and the    *)
(* stamp" (_gated_identity): no record carries an identity nobody confirmed.  *)
StampsAreConfirmed == \A r \in signed : r.stamp.confirmed

(* What somebody answered becomes that person's profile (cognition_set_identity). *)
ProfilesAreTheirOwn == \A p \in Persons : profile[p] \in {Nobody, p}

(* "skip when the destination already holds content so a faster process's     *)
(* newer copy is never clobbered" (_relocate_local_files).                   *)
NewerCopyStays ==
    [][\A path \in Paths :
          folder[path] # 0 /\ folder'[path] # 0 /\ file[path] # NoFile /\ file[path].bound
          => file'[path].bound]_identityVars

=============================================================================
