---------------------------- MODULE VectorStore ----------------------------
(***************************************************************************)
(* The vector index on disk and one process's handle on it                 *)
(* (vector_store.py).                                                      *)
(*                                                                         *)
(* The index is a series of SQLite files, one per generation.  A damaged   *)
(* generation is never repaired: it is marked, and the next one starts     *)
(* empty.  A call never raises: it is answered, or it degrades and, if it  *)
(* was a write, leaves the handle owing a re-sync.                         *)
(*                                                                         *)
(* What a call may do depends on the other users of the file and on the    *)
(* pages it touches, so a call is the SET of its outcomes.  A call is one  *)
(* step: until another process marks the generation nothing in it depends  *)
(* on that process, and marking a generation commutes with the calls that  *)
(* still go to it, whose rows nobody reads any more.                       *)
(***************************************************************************)
EXTENDS Integers, FiniteSets

CONSTANTS
    Nodes,           \* the ids whose vectors are stored
    MaxVer,          \* how many texts a node may have
    MaxGen,          \* how many generations are distinguished
    MaxQuarantines   \* the cap on rebuilds in a day

ASSUME StoreAssumption ==
    /\ MaxVer \in Nat \ {0}
    /\ MaxGen \in Nat \ {0}
    /\ MaxQuarantines \in Nat

Generations == 1..MaxGen

Texts == 0..MaxVer   \* the text a vector was made from; 0 is no vector

(* "busy", "reopen" and "confirm" are timers that still run: the breaker    *)
(* after a busy write, the pause before a failed open is tried again, the   *)
(* pause before damage is judged again.  "repeated" never runs out.         *)
Timers == {"busy", "reopen", "confirm"}

Disks == [top     : Generations,            \* the highest generation with a file
          marked  : SUBSET Generations,     \* those with a .corrupt marker
          damaged : SUBSET Generations,     \* those whose pages are bad
          rows    : [Generations -> [Nodes -> Texts]]]

Handles == [gen     : Generations,
            open    : BOOLEAN,
            pending : BOOLEAN,              \* _resync_pending
            waits   : SUBSET (Timers \cup {"repeated"})]

EmptyDisk == [top     |-> 1,
              marked  |-> {},
              damaged |-> {},
              rows    |-> [g \in Generations |-> [n \in Nodes |-> 0]]]

NewHandle == [gen |-> 1, open |-> FALSE, pending |-> FALSE, waits |-> {}]

Active(d) == IF d.top \in d.marked THEN d.top + 1 ELSE d.top

CanWrite(h) == h.open /\ "busy" \notin h.waits

Owing(h) == [h EXCEPT !.pending = TRUE]

Waiting(h, t) == [h EXCEPT !.waits = @ \cup {t}]

-----------------------------------------------------------------------------

(* _quarantine: mark g once a second look confirms the damage, unless the   *)
(* index has been rebuilt too often.  A file held by somebody else cannot   *)
(* be looked at.                                                            *)
Quarantine(d, h, g, held) ==
    IF h.waits \cap {"confirm", "repeated"} # {}
    THEN {[disk |-> d, handle |-> h]}
    ELSE (IF held THEN {[disk |-> d, handle |-> Waiting(h, "confirm")]} ELSE {})
         \cup
         (IF Cardinality(d.marked) >= MaxQuarantines
          THEN {[disk |-> d, handle |-> Waiting(h, "repeated")]}
          ELSE {[disk |-> [d EXCEPT !.marked = @ \cup {g}], handle |-> h]})

(* one attempt of _open_active on the active generation that meets no damage *)
Connect(d, h, held) ==
    LET g == Active(d)
        at(open) == [disk   |-> [d EXCEPT !.top = g],
                     handle |-> [h EXCEPT !.gen = g,
                                          !.open = open,
                                          !.waits = IF open THEN @ ELSE @ \cup {"reopen"}]]
    IN  {at(TRUE)} \cup (IF held THEN {at(FALSE)} ELSE {})

(* _open_active: damage met while connecting is quarantined, and the next   *)
(* generation, which is new, is tried.                                      *)
Open(d, h, held) ==
    LET g == Active(d)
    IN  Connect(d, h, held)
        \cup
        IF g \notin d.damaged THEN {}
        ELSE UNION {IF g \in q.disk.marked
                    THEN Connect(q.disk, q.handle, held)
                    ELSE {[disk   |-> q.disk,
                           handle |-> [Waiting(q.handle, "reopen") EXCEPT !.gen = g,
                                                                          !.open = FALSE]]} :
                    q \in Quarantine(d, h, g, held)}

\* Mutant: the move to another generation asks for nothing.
CheckGenerationQuietly(d, h, held) ==
    IF h.open /\ h.gen \in d.marked
    THEN {[disk |-> o.disk, handle |-> o.handle, ask |-> FALSE] :
          o \in Open(d, [h EXCEPT !.open = FALSE], held)}
    ELSE {[disk |-> d, handle |-> h, ask |-> FALSE]}

(* _check_generation: leave a generation that somebody has marked.           *)
CheckGeneration(d, h, held) ==
    IF h.open /\ h.gen \in d.marked
    THEN {[disk |-> o.disk, handle |-> o.handle, ask |-> o.handle.gen # h.gen] :
          o \in Open(d, [h EXCEPT !.open = FALSE], held)}
    ELSE {[disk |-> d, handle |-> h, ask |-> FALSE]}

(* _ensure_open *)
EnsureOpen(d, h, held) ==
    IF h.open \/ "reopen" \in h.waits
    THEN CheckGeneration(d, h, held)
    ELSE {LET ask == o.handle.open /\ (o.handle.gen # h.gen \/ h.pending)
          IN  [disk   |-> o.disk,
               handle |-> [o.handle EXCEPT !.pending = @ /\ ~ask],
               ask    |-> ask] :
          o \in Open(d, h, held)}

-----------------------------------------------------------------------------

(* _degraded *)
Degraded(r, write) ==
    [disk |-> r.disk, handle |-> IF write THEN Owing(r.handle) ELSE r.handle,
     ask |-> r.ask, ok |-> FALSE]

(* the operation itself on the open generation: nodes ns get the vector of  *)
(* text v, or lose theirs (v = 0); a read has no nodes.  A success reports  *)
(* a re-sync that was owed.                                                 *)
Done(r, ns, v) ==
    LET h   == r.handle
        ask == h.pending /\ "busy" \notin h.waits
        row == [n \in Nodes |-> IF n \in ns THEN v ELSE r.disk.rows[h.gen][n]]
    IN  [disk   |-> [r.disk EXCEPT !.rows = [@ EXCEPT ![h.gen] = row]],
         handle |-> [h EXCEPT !.pending = @ /\ ~ask],
         ask    |-> r.ask \/ ask,
         ok     |-> TRUE]

Busy(r, write) ==
    Degraded([r EXCEPT !.handle = IF write THEN Waiting(@, "busy") ELSE @], write)

Attempt(r, held, write, ns, v) ==
    {Done(r, ns, v)} \cup (IF held THEN {Busy(r, write)} ELSE {})

(* the operation, and once more on the next generation if it meets damage    *)
(* that is then set aside.  A call need not touch the bad pages.             *)
Attempts(r, held, write, ns, v) ==
    LET g == r.handle.gen
        moved(q) == {[disk |-> o.disk, handle |-> o.handle,
                      ask |-> r.ask \/ o.handle.gen # g] :
                     o \in Open(q.disk, [q.handle EXCEPT !.open = FALSE], held)}
    IN  Attempt(r, held, write, ns, v)
        \cup
        IF g \notin r.disk.damaged THEN {}
        ELSE UNION {IF g \in q.disk.marked
                    THEN UNION {IF m.handle.open
                                THEN Attempt(m, held, write, ns, v)
                                ELSE {Degraded(m, write)} : m \in moved(q)}
                    ELSE {Degraded([disk |-> q.disk, handle |-> q.handle, ask |-> r.ask], write)} :
                    q \in Quarantine(r.disk, r.handle, g, held)}

(* _run *)
Run(d, h, held, write, ns, v) ==
    IF write /\ "busy" \in h.waits
    THEN {Degraded([disk |-> d, handle |-> h, ask |-> FALSE], TRUE)}
    ELSE UNION {IF r.handle.open THEN Attempts(r, held, write, ns, v)
                ELSE {Degraded(r, write)} :
                r \in EnsureOpen(d, h, held)}

Read(d, h, held) == Run(d, h, held, FALSE, {}, 0)

(* ensure_open, which does not wait, and then health_check, which reads      *)
(* every page.                                                              *)
HealthCheck(d, h, held) ==
    LET opened == EnsureOpen(d, [h EXCEPT !.waits = @ \ {"reopen"}], held)
        checked(r) == {[o EXCEPT !.ask = o.ask \/ r.ask] :
                       o \in Read(r.disk, r.handle, held)}
    IN  {o \in UNION {checked(r) : r \in opened} :
         ~ (o.ok /\ o.handle.gen \in o.disk.damaged)}

=============================================================================
