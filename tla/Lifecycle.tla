----------------------------- MODULE Lifecycle -----------------------------
(***************************************************************************)
(* How a process notices that those who started it are gone, and ends      *)
(* (lifecycle.py): a server watches its parent, its grandparent and its    *)
(* standard input; a sidecar child watches its parent only.                *)
(*                                                                         *)
(* Process ids are used again: a process is told from its id by the time   *)
(* of its birth, a number of `clock'.  A handle belongs to a process, and   *)
(* an id is not used again while a handle to its process is open.  What may *)
(* be done to a process is fixed: all of it, opening it without reading its *)
(* birth, opening it with few rights only, or nothing.                      *)
(***************************************************************************)
EXTENDS Naturals, FiniteSets

CONSTANTS MaxBirths   \* bound on processes born

Pids == {"parent", "grandparent"}
Access == {"all", "timeless", "limited", "none"}
Grandparent == 1   \* the births of the process that starts the parent ...
Parent == 2        \* ... and of the one that starts this process

VARIABLES
    depth,     \* 2: a server; 1: a sidecar child
    table,     \* [Pids -> the birth of the process that has the id now, or 0]
    clock,     \* the births so far
    self,      \* the birth of this process, 0 before
    step,      \* what its main thread does
    watch,     \* the ancestors the watching thread looks at
    access,    \* [births -> Access]
    stdin,     \* "open", "broken", or "console" where it is no pipe
    peer,      \* what resolve_stdin_pipe_peer reported
    ended      \* why the process ended, "no" while it runs

vars == <<depth, table, clock, self, step, watch, access, stdin, peer, ended>>

Init ==
    /\ depth \in {1, 2}
    /\ table = [p \in Pids |-> IF p = "parent" THEN Parent ELSE Grandparent]
    /\ clock = Parent
    /\ self = 0 /\ step = "unborn" /\ watch = {} /\ peer = "unresolved" /\ ended = "no"
    /\ stdin \in {"open", "console"}
    /\ access \in [1 .. MaxBirths -> Access]

At(s) == step = s /\ ended = "no"

End(why) == ended' = why

-----------------------------------------------------------------------------
(* arm_ancestor_watch                                                       *)

Start ==
    /\ At("unborn")
    /\ table["parent"] = Parent
    /\ clock < MaxBirths
    /\ clock' = clock + 1 /\ self' = clock + 1
    /\ step' = "parent"
    /\ UNCHANGED <<depth, table, watch, access, stdin, peer, ended>>

\* Mutant: a younger process is taken for the ancestor.
OpensAnyone(pid, how) ==
    how = IF table[pid] = 0 THEN "gone"
          ELSE IF access[table[pid]] \in {"limited", "none"} THEN "denied"
          ELSE "opened"

(* what opening the process behind an id, and comparing its birth with the   *)
(* own one, give; an older process that took the id passes, and so does one  *)
(* whose birth cannot be read                                               *)
Opens(pid, how) ==
    how = IF table[pid] = 0 THEN "gone"
          ELSE IF access[table[pid]] \in {"limited", "none"} THEN "denied"
          ELSE IF table[pid] > self /\ access[table[pid]] # "timeless" THEN "younger"
          ELSE "opened"

Watched(kind, pid) == [kind |-> kind, pid |-> pid, birth |-> table[pid]]

(* without a handle to the parent nobody asks it who the grandparent is     *)
OpenParent ==
    /\ At("parent")
    /\ \/ /\ Opens("parent", "gone") \/ Opens("parent", "younger")
          /\ End("orphaned")
          /\ UNCHANGED <<step, watch>>
       \/ /\ Opens("parent", "denied")
          /\ watch' = {Watched("poll", "parent")}
          /\ step' = "armed"
          /\ UNCHANGED ended
       \/ /\ Opens("parent", "opened")
          /\ watch' = {Watched("wait", "parent")}
          /\ step' = (IF depth = 2 THEN "grandparent" ELSE "armed")
          /\ UNCHANGED ended
    /\ UNCHANGED <<depth, table, clock, self, access, stdin, peer>>

(* a grandparent that is gone already is no reason to end, nor one that a     *)
(* parent who is gone cannot be asked for                                   *)
OpenGrandparent ==
    /\ At("grandparent")
    /\ step' = "armed"
    /\ \/ /\ \/ Opens("grandparent", "gone") \/ Opens("grandparent", "younger")
             \/ table["parent"] # Parent
          /\ UNCHANGED watch
       \/ /\ Opens("grandparent", "denied")
          /\ watch' = watch \cup {Watched("poll", "grandparent")}
       \/ /\ Opens("grandparent", "opened")
          /\ watch' = watch \cup {Watched("wait", "grandparent")}
    /\ UNCHANGED <<depth, table, clock, self, access, stdin, peer, ended>>

(* _watch: a handle is signalled when its process is dead                   *)
Signalled ==
    /\ At("armed")
    /\ \E w \in watch : w.kind = "wait" /\ table[w.pid] # w.birth
    /\ End("orphaned")
    /\ UNCHANGED <<depth, table, clock, self, step, watch, access, stdin, peer>>

(* a failed wait turns every handle into one that is polled and kept open    *)
WaitFails ==
    /\ At("armed")
    /\ \E w \in watch : w.kind = "wait"
    /\ watch' = {[w EXCEPT !.kind = IF @ = "wait" THEN "kept" ELSE @] : w \in watch}
    /\ UNCHANGED <<depth, table, clock, self, step, access, stdin, peer, ended>>

(* nobody may open the process that has the id                               *)
Refuses(pid) == table[pid] # 0 /\ access[table[pid]] = "none"

\* Mutant: a process that is still held open counts as alive.
PollSeesFree(w) ==
    /\ w.kind = "poll"
    /\ table[w.pid] = 0 \/ Refuses(w.pid)

(* _pid_is_alive opens whoever has the id now, with few rights: dead is who   *)
(* cannot be opened at all, and the dead process that is held open            *)
PollSees(w) ==
    /\ w.kind \in {"poll", "kept"}
    /\ table[w.pid] = 0 \/ Refuses(w.pid)

Polled ==
    /\ At("armed")
    /\ \E w \in watch : PollSees(w)
    /\ End("orphaned")
    /\ UNCHANGED <<depth, table, clock, self, step, watch, access, stdin, peer>>

(* arm_stdin_watch: a broken pipe, then a time of grace                     *)
PipeWatch ==
    /\ At("armed") /\ depth = 2
    /\ stdin = "broken"
    /\ End("pipe")
    /\ UNCHANGED <<depth, table, clock, self, step, watch, access, stdin, peer>>

(* resolve_stdin_pipe_peer: the other end of the pipe is held by the         *)
(* grandparent, or by somebody outside the family; report only              *)
ReportPeer ==
    /\ At("armed") /\ depth = 2 /\ peer = "unresolved"
    /\ peer' \in IF stdin = "console" THEN {"skipped_console"}
                 ELSE IF stdin = "broken" THEN {"api_failed", "peer_gone", "ok",
                                                "peer_younger_than_self"}
                 ELSE {"peer_inside_ancestor_set", "ok", "peer_access_denied"}
    /\ UNCHANGED <<depth, table, clock, self, step, watch, access, stdin, ended>>

-----------------------------------------------------------------------------
(* The machine.                                                             *)

Dies(pid) ==
    /\ table[pid] # 0
    /\ table' = [table EXCEPT ![pid] = 0]
    /\ UNCHANGED <<depth, clock, self, step, watch, access, stdin, peer, ended>>

HeldOpen(pid) == \E w \in watch : w.pid = pid /\ w.kind \in {"wait", "kept"} /\ ended = "no"

Reuse(pid) ==
    /\ table[pid] = 0 /\ ~ HeldOpen(pid)
    /\ clock < MaxBirths
    /\ clock' = clock + 1
    /\ table' = [table EXCEPT ![pid] = clock + 1]
    /\ UNCHANGED <<depth, self, step, watch, access, stdin, peer, ended>>

PipeBreaks ==
    /\ stdin = "open"
    /\ stdin' = "broken"
    /\ UNCHANGED <<depth, table, clock, self, step, watch, access, peer, ended>>

-----------------------------------------------------------------------------
Watching ==
    \/ OpenParent \/ OpenGrandparent \/ Signalled \/ Polled \/ PipeWatch

Next ==
    \/ Start \/ Watching \/ WaitFails \/ ReportPeer \/ PipeBreaks
    \/ \E p \in Pids : Dies(p) \/ Reuse(p)

Spec == Init /\ [][Next]_vars /\ WF_vars(Watching)

-----------------------------------------------------------------------------
(* Properties. *)

(* the watch is on somebody else: the id was polled and is used again, or it   *)
(* was when it was opened by a process whose birth cannot be read            *)
Masked ==
    \E w \in watch : /\ w.pid = "parent"
                     /\ \/ w.kind = "poll" /\ table[w.pid] > Parent
                        \/ w.birth > self /\ access[w.birth] # "all"

(* "orphan servers must die with their parent" (lifecycle.py): whatever ids  *)
(* are used again and whatever handles are refused, a process whose parent   *)
(* died ends - unless it watches somebody else that has the id now - and a    *)
(* server whose pipe broke always does.                                     *)
OrphansEnd ==
    /\ self # 0 /\ table["parent"] # Parent ~> ended # "no" \/ Masked
    /\ self # 0 /\ depth = 2 /\ stdin = "broken" ~> ended # "no"

Stranger(w) == w.birth \notin {Parent, Grandparent}

(* No process ends for nothing: the parent died, the pipe broke, or the      *)
(* grandparent died after it was found.  Left out is a stranger that took    *)
(* an id and is watched for an ancestor: polled, older than this process, or  *)
(* of a birth that cannot be read; and an ancestor that is alive and that     *)
(* nobody may open, for which the first poll ends the process.              *)
EndsForAReason ==
    ended # "no" =>
        \/ table["parent"] # Parent
        \/ stdin = "broken"
        \/ \E w \in watch : w.birth = Grandparent /\ table["grandparent"] # Grandparent
        \/ \E w \in watch :
              Stranger(w) /\ (w.kind = "poll" \/ w.birth < self \/ access[w.birth] = "timeless")
        \/ \E w \in watch : w.kind = "poll" /\ Refuses(w.pid)

=============================================================================
