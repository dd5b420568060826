------------------------ MODULE VectorIndex_proofs ------------------------
(***************************************************************************)
(* What VectorIndex promises for any number of sessions, nodes and         *)
(* generations, and any bounds: a live node that search cannot find is     *)
(* still to be embedded by every session whose background thread lives and *)
(* whose own generator did not fail on it, and nothing takes the vector of *)
(* a live node out of the index.                                           *)
(***************************************************************************)
EXTENDS VectorIndex, TLAPS

-----------------------------------------------------------------------------
(* The store.                                                               *)

(* A generation is started when the one before is marked, and marked only   *)
(* when it is damaged; the last one the model has is never damaged.         *)
DiskOK(d) ==
    /\ d \in Disks
    /\ d.marked \subseteq d.damaged
    /\ \A g \in d.damaged : g <= d.top /\ g < MaxGen

(* A handle is on a generation that was in use when it was opened.          *)
HandleOK(d, h) == h \in Handles /\ h.gen <= Active(d)

-----------------------------------------------------------------------------
(* What a call of the store does.                                           *)

(* What a session is told, or still has to tell itself, of how its handle   *)
(* went from h to k: a re-sync that was owed, a handle that was lost, and a *)
(* move to another generation, which may go unsaid only while the handle is *)
(* and stays closed.                                                        *)
Keeps(h, k, ask) ==
    /\ h.pending => k.pending \/ ask
    /\ h.open /\ ~ k.open => ask
    /\ k.gen # h.gen => ask \/ (~ h.open /\ ~ k.open)

(* Disk d became e: no generation is left for an older one.                 *)
Advances(d, e) == DiskOK(e) /\ Active(e) >= Active(d)

(* A generation was looked for: o is its disk, handle and whether a re-sync *)
(* is asked for.                                                            *)
Opened(d, h, o) ==
    /\ Advances(d, o.disk) /\ o.disk.rows = d.rows
    /\ HandleOK(o.disk, o.handle)
    /\ o.ask \in BOOLEAN
    /\ Keeps(h, o.handle, o.ask)

(* The rows of nodes ns may now hold v, no others changed.                  *)
Wrote(d, e, ns, v) ==
    \A g \in Generations, n \in Nodes :
        e.rows[g][n] = d.rows[g][n] \/ (n \in ns /\ e.rows[g][n] = v)

(* A call ended with outcome o: what it wrote if it succeeded is there, and *)
(* a write that failed leaves a re-sync owed.                               *)
Ran(d, h, o, write, ns, v) ==
    /\ Advances(d, o.disk)
    /\ Wrote(d, o.disk, ns, v)
    /\ HandleOK(o.disk, o.handle)
    /\ o.ask \in BOOLEAN /\ o.ok \in BOOLEAN
    /\ Keeps(h, o.handle, o.ask)
    /\ o.ok => /\ o.handle.open
               /\ \A n \in ns \cap Nodes : o.disk.rows[o.handle.gen][n] = v
    /\ write /\ ~ o.ok => o.handle.pending

(* The generation in use exists and is not marked (_open_active).           *)
LEMMA ActiveExists ==
    ASSUME NEW d, DiskOK(d)
    PROVE  /\ Active(d) \in Generations /\ Active(d) \notin d.marked
           /\ d.top \in Nat /\ MaxGen \in Nat
           /\ Active(d) = d.top \/ Active(d) = d.top + 1
           /\ \A g \in d.marked : g \in Generations /\ g < Active(d)
           /\ Active(d) \in d.damaged => Active(d) = d.top
BY StoreAssumption DEF DiskOK, Disks, Active, Generations

(* Marking a damaged generation makes at most the next one the one in use    *)
(* (_quarantine).                                                           *)
LEMMA QuarantineOutcome ==
    ASSUME NEW d, DiskOK(d), NEW h \in Handles, NEW g \in d.damaged, NEW locked,
           NEW q \in Quarantine(d, h, g, locked)
    PROVE  /\ DiskOK(q.disk) /\ q.disk.rows = d.rows /\ q.disk.top = d.top
           /\ q.disk.damaged = d.damaged /\ q.disk.marked \in {d.marked, d.marked \cup {g}}
           /\ Active(q.disk) >= Active(d)
           /\ q.handle \in Handles /\ q.handle.gen = h.gen
           /\ (q.handle.pending <=> h.pending) /\ (q.handle.open <=> h.open)
<1>1. /\ q.handle \in Handles /\ q.handle.gen = h.gen
      /\ (q.handle.pending <=> h.pending) /\ (q.handle.open <=> h.open)
      /\ q.disk = d \/ q.disk = [d EXCEPT !.marked = @ \cup {g}]
  BY DEF Quarantine, Handles, Waiting, Timers
<1>2. /\ q.disk.rows = d.rows /\ q.disk.top = d.top /\ q.disk.damaged = d.damaged
      /\ q.disk.marked \in {d.marked, d.marked \cup {g}}
      /\ q.disk \in Disks
  BY <1>1 DEF DiskOK, Disks
<1>3. DiskOK(q.disk)
  BY <1>2 DEF DiskOK
<1>4. Active(q.disk) >= Active(d)
  BY <1>2, ActiveExists DEF Active
<1> QED
  BY <1>1, <1>2, <1>3, <1>4

(* Connecting opens a handle on the generation in use, or leaves it closed   *)
(* there.                                                                   *)
LEMMA ConnectOutcome ==
    ASSUME NEW d, DiskOK(d), NEW h \in Handles, NEW locked, NEW o \in Connect(d, h, locked)
    PROVE  /\ DiskOK(o.disk) /\ o.disk.rows = d.rows /\ Active(o.disk) = Active(d)
           /\ o.handle \in Handles /\ o.handle.gen = Active(d)
           /\ (o.handle.pending <=> h.pending)
<1> DEFINE g == Active(d)
<1>1. /\ o.disk = [d EXCEPT !.top = g]
      /\ o.handle \in Handles /\ o.handle.gen = g /\ (o.handle.pending <=> h.pending)
  <2>1. PICK open \in BOOLEAN :
           o = [disk   |-> [d EXCEPT !.top = g],
                handle |-> [h EXCEPT !.gen = g, !.open = open,
                                     !.waits = IF open THEN @ ELSE @ \cup {"reopen"}]]
    BY DEF Connect
  <2> QED
    BY <2>1, ActiveExists DEF Handles, Timers
<1>2. /\ o.disk \in Disks /\ o.disk.top = g /\ o.disk.rows = d.rows
      /\ o.disk.marked = d.marked /\ o.disk.damaged = d.damaged
  BY <1>1, ActiveExists DEF DiskOK, Disks
<1>3. DiskOK(o.disk)
  BY <1>2, ActiveExists DEF DiskOK, Disks, Generations
<1>4. Active(o.disk) = g
  BY <1>2, ActiveExists DEF Active
<1> QED
  BY <1>1, <1>2, <1>3, <1>4

(* Opening leaves the handle on the generation then in use (_open_active).   *)
LEMMA OpenOutcome ==
    ASSUME NEW d, DiskOK(d), NEW h \in Handles, NEW locked, NEW o \in Open(d, h, locked)
    PROVE  /\ Advances(d, o.disk) /\ o.disk.rows = d.rows
           /\ o.handle \in Handles /\ o.handle.gen = Active(o.disk)
           /\ (o.handle.pending <=> h.pending)
<1> DEFINE g == Active(d)
<1>0. Active(d) \in Nat
  BY ActiveExists DEF Generations
<1>1. CASE o \in Connect(d, h, locked)
  BY <1>0, <1>1, ConnectOutcome DEF Advances
<1>2. CASE o \notin Connect(d, h, locked)
  <2>1. /\ g \in d.damaged
        /\ \E q \in Quarantine(d, h, g, locked) :
              \/ g \in q.disk.marked /\ o \in Connect(q.disk, q.handle, locked)
              \/ /\ g \notin q.disk.marked
                 /\ o = [disk |-> q.disk,
                         handle |-> [Waiting(q.handle, "reopen") EXCEPT !.gen = g, !.open = FALSE]]
    BY <1>2 DEF Open
  <2>2. PICK q \in Quarantine(d, h, g, locked) :
              \/ g \in q.disk.marked /\ o \in Connect(q.disk, q.handle, locked)
              \/ /\ g \notin q.disk.marked
                 /\ o = [disk |-> q.disk,
                         handle |-> [Waiting(q.handle, "reopen") EXCEPT !.gen = g, !.open = FALSE]]
    BY <2>1
  <2>3. /\ DiskOK(q.disk) /\ q.disk.rows = d.rows /\ q.disk.top = d.top
        /\ Active(q.disk) >= Active(d)
        /\ q.handle \in Handles /\ (q.handle.pending <=> h.pending)
    BY <2>1, QuarantineOutcome
  <2>4. CASE g \in q.disk.marked /\ o \in Connect(q.disk, q.handle, locked)
    BY <2>3, <2>4, ConnectOutcome DEF Advances
  <2>5. CASE /\ g \notin q.disk.marked
             /\ o = [disk |-> q.disk,
                     handle |-> [Waiting(q.handle, "reopen") EXCEPT !.gen = g, !.open = FALSE]]
    <3>1. Active(q.disk) = g
      BY <2>1, <2>3, <2>5, ActiveExists DEF Active
    <3>2. /\ o.handle \in Handles /\ o.handle.gen = g
          /\ (o.handle.pending <=> h.pending)
      BY <2>3, <2>5, ActiveExists DEF Waiting, Handles, Timers
    <3> QED
      BY <2>3, <2>5, <3>1, <3>2 DEF Advances
  <2> QED
    BY <2>2, <2>4, <2>5
<1> QED
  BY <1>1, <1>2

(* A handle that leaves a marked generation asks for a re-sync               *)
(* (_check_generation).                                                     *)
LEMMA CheckOutcome ==
    ASSUME NEW d, DiskOK(d), NEW h, HandleOK(d, h), NEW locked,
           NEW o \in CheckGeneration(d, h, locked)
    PROVE  Opened(d, h, o)
<1>0. Active(d) \in Nat /\ h \in Handles /\ h.gen \in Nat
  BY ActiveExists DEF Generations, HandleOK, Handles
<1>1. CASE h.open /\ h.gen \in d.marked
  <2> DEFINE closed == [h EXCEPT !.open = FALSE]
  <2>1. closed \in Handles /\ (closed.pending <=> h.pending)
    BY <1>0 DEF Handles
  <2> HIDE DEF closed
  <2>2. PICK p \in Open(d, closed, locked) :
           o = [disk |-> p.disk, handle |-> p.handle, ask |-> p.handle.gen # h.gen]
    BY <1>1 DEF CheckGeneration, closed
  <2>3. /\ Advances(d, p.disk) /\ p.disk.rows = d.rows
        /\ p.handle \in Handles /\ p.handle.gen = Active(p.disk)
        /\ (p.handle.pending <=> h.pending)
    BY <2>1, OpenOutcome
  <2>4. Active(p.disk) \in Nat /\ Active(p.disk) > h.gen
    BY <1>0, <1>1, <2>3, ActiveExists DEF Advances, Generations
  <2> DEFINE moved == p.handle.gen # h.gen
  <2>5. o.disk = p.disk /\ o.handle = p.handle /\ o.ask = moved /\ moved \in BOOLEAN
    BY <2>2
  <2>6. moved
    BY <1>0, <2>3, <2>4
  <2>7. o.ask \in BOOLEAN /\ o.ask
    BY <2>5, <2>6
  <2>8. HandleOK(o.disk, o.handle)
    BY <2>3, <2>4, <2>5 DEF HandleOK
  <2>9. Keeps(h, o.handle, o.ask)
    BY <2>3, <2>5, <2>7 DEF Keeps
  <2> QED
    BY <2>3, <2>5, <2>7, <2>8, <2>9 DEF Opened
<1>2. CASE ~ (h.open /\ h.gen \in d.marked)
  <2>1. o = [disk |-> d, handle |-> h, ask |-> FALSE]
    BY <1>2 DEF CheckGeneration
  <2> QED
    BY <1>0, <2>1 DEF Opened, Advances, HandleOK, Keeps
<1> QED
  BY <1>1, <1>2

(* Whatever a call finds open or opens is noticed (_ensure_open).            *)
LEMMA EnsureOutcome ==
    ASSUME NEW d, DiskOK(d), NEW h, HandleOK(d, h), NEW locked,
           NEW o \in EnsureOpen(d, h, locked)
    PROVE  Opened(d, h, o)
<1>1. CASE h.open \/ "reopen" \in h.waits
  BY <1>1, CheckOutcome DEF EnsureOpen
<1>2. CASE ~ (h.open \/ "reopen" \in h.waits)
  <2>0. Active(d) \in Nat /\ h \in Handles
    BY ActiveExists DEF Generations, HandleOK
  <2>1. PICK p \in Open(d, h, locked) :
           LET ask == p.handle.open /\ (p.handle.gen # h.gen \/ h.pending)
           IN  o = [disk |-> p.disk,
                    handle |-> [p.handle EXCEPT !.pending = @ /\ ~ ask], ask |-> ask]
    BY <1>2 DEF EnsureOpen
  <2> DEFINE ask == p.handle.open /\ (p.handle.gen # h.gen \/ h.pending)
  <2>2. /\ Advances(d, p.disk) /\ p.disk.rows = d.rows
        /\ p.handle \in Handles /\ p.handle.gen = Active(p.disk)
        /\ (p.handle.pending <=> h.pending)
    BY <2>0, OpenOutcome
  <2>3. /\ o.disk = p.disk /\ o.ask = ask /\ ask \in BOOLEAN
        /\ o.handle \in Handles /\ o.handle.gen = p.handle.gen
        /\ o.handle.open = p.handle.open /\ o.handle.pending = (h.pending /\ ~ ask)
    BY <2>0, <2>1, <2>2 DEF Handles
  <2>4. HandleOK(o.disk, o.handle)
    BY <2>2, <2>3, ActiveExists DEF HandleOK, Advances, Generations
  <2>5. Keeps(h, o.handle, o.ask)
    BY <1>2, <2>3 DEF Keeps
  <2> QED
    BY <2>2, <2>3, <2>4, <2>5 DEF Opened
<1> QED
  BY <1>1, <1>2

(* What holds of the handle in between holds of the whole call, when the     *)
(* handle was open then.                                                    *)
LEMMA KeepsOnward ==
    ASSUME NEW h, NEW k, NEW l, NEW a \in BOOLEAN, NEW b \in BOOLEAN,
           Keeps(h, k, a), Keeps(k, l, b), k.open, a => b
    PROVE  Keeps(h, l, b)
BY DEF Keeps

(* A call that gives up leaves what was found, and a write owes a re-sync    *)
(* (_degraded).                                                             *)
LEMMA DegradedOutcome ==
    ASSUME NEW d, NEW h, NEW r, Opened(d, h, r), NEW write \in BOOLEAN, NEW ns, NEW v
    PROVE  Ran(d, h, Degraded(r, write), write, ns, v)
<1> DEFINE o == Degraded(r, write)
<1>1. /\ o.disk = r.disk /\ o.ask = r.ask /\ o.ok = FALSE
      /\ o.handle = IF write THEN Owing(r.handle) ELSE r.handle
  BY DEF Degraded
<1>2. /\ o.handle \in Handles /\ o.handle.gen = r.handle.gen
      /\ o.handle.open = r.handle.open
      /\ o.handle.pending = (r.handle.pending \/ write)
  BY <1>1 DEF Opened, HandleOK, Handles, Owing
<1>3. HandleOK(o.disk, o.handle) /\ Keeps(h, o.handle, o.ask)
  BY <1>1, <1>2 DEF Opened, HandleOK, Keeps
<1> HIDE DEF o
<1> QED
  BY <1>1, <1>2, <1>3 DEF Ran, Opened, Wrote, o

(* The operation on an open generation succeeds, or finds the file held by   *)
(* somebody else (_run).                                                    *)
LEMMA AttemptOutcome ==
    ASSUME NEW d, NEW h, NEW r, Opened(d, h, r), r.handle.open, NEW locked,
           NEW write \in BOOLEAN, NEW ns, NEW v \in Texts,
           NEW o \in Attempt(r, locked, write, ns, v)
    PROVE  Ran(d, h, o, write, ns, v)
<1>1. CASE o = Done(r, ns, v)
  <2> DEFINE g == r.handle.gen
             asked == r.handle.pending /\ "busy" \notin r.handle.waits
             row == [n \in Nodes |-> IF n \in ns THEN v ELSE r.disk.rows[g][n]]
             rows == [r.disk.rows EXCEPT ![g] = row]
  <2>1. /\ o.disk = [r.disk EXCEPT !.rows = rows]
        /\ o.handle = [r.handle EXCEPT !.pending = @ /\ ~ asked]
        /\ o.ask = (r.ask \/ asked) /\ o.ok = TRUE
    BY <1>1 DEF Done
  <2>2. /\ g \in Generations /\ r.disk \in Disks /\ r.handle \in Handles
        /\ rows \in [Generations -> [Nodes -> Texts]]
    BY DEF Opened, HandleOK, Handles, Advances, DiskOK, Disks
  <2>3. /\ o.disk.top = r.disk.top /\ o.disk.marked = r.disk.marked
        /\ o.disk.damaged = r.disk.damaged
        /\ o.disk.rows = rows
        /\ o.disk \in Disks
    <3> HIDE DEF rows
    <3> QED
      BY <2>1, <2>2 DEF Disks
  <2>4. /\ o.handle \in Handles /\ o.handle.gen = g /\ o.handle.open = r.handle.open
        /\ o.handle.pending = (r.handle.pending /\ ~ asked)
    BY <2>1, <2>2 DEF Handles
  <2>5. Advances(d, o.disk) /\ HandleOK(o.disk, o.handle)
    BY <2>3, <2>4 DEF Opened, Advances, DiskOK, HandleOK, Active
  <2>6. Wrote(d, o.disk, ns, v) /\ \A n \in ns \cap Nodes : o.disk.rows[g][n] = v
    BY <2>2, <2>3 DEF Wrote, Opened, Disks
  <2>7. o.ask \in BOOLEAN /\ Keeps(h, o.handle, o.ask)
    BY <2>1, <2>4 DEF Opened, Keeps
  <2> QED
    BY <2>1, <2>4, <2>5, <2>6, <2>7 DEF Ran
<1>2. CASE o = Busy(r, write)
  <2> DEFINE b == [r EXCEPT !.handle = IF write THEN Waiting(@, "busy") ELSE @]
  <2>1. /\ b.disk = r.disk /\ b.ask = r.ask
        /\ b.handle = IF write THEN Waiting(r.handle, "busy") ELSE r.handle
    BY DEF Opened
  <2>2. /\ b.handle \in Handles /\ b.handle.gen = r.handle.gen
        /\ b.handle.open = r.handle.open /\ (b.handle.pending <=> r.handle.pending)
    <3>1. r.handle \in Handles /\ b.handle \in {r.handle, Waiting(r.handle, "busy")}
      BY <2>1 DEF Opened, HandleOK
    <3>2. LET w == Waiting(r.handle, "busy")
          IN  w \in Handles /\ w.gen = r.handle.gen /\ w.open = r.handle.open
              /\ (w.pending <=> r.handle.pending)
      BY <3>1 DEF Handles, Waiting, Timers
    <3> QED
      BY <3>1, <3>2
  <2>3. Opened(d, h, b)
    BY <2>1, <2>2 DEF Opened, HandleOK, Keeps
  <2> QED
    BY <1>2, <2>3, DegradedOutcome DEF Busy
<1> QED
  BY <1>1, <1>2 DEF Attempt

(* The operation meets damage on generation g: it gives up, or is tried once *)
(* more on the next generation (_run).                                      *)
LEMMA AttemptsOutcome ==
    ASSUME NEW d, DiskOK(d), NEW h, NEW r, Opened(d, h, r), r.handle.open, NEW locked,
           NEW write \in BOOLEAN, NEW ns, NEW v \in Texts,
           NEW o \in Attempts(r, locked, write, ns, v)
    PROVE  Ran(d, h, o, write, ns, v)
<1> DEFINE g == r.handle.gen
           again(q, m) == /\ g \in q.disk.marked
                          /\ \E p \in Open(q.disk, [q.handle EXCEPT !.open = FALSE], locked) :
                                m = [disk |-> p.disk, handle |-> p.handle,
                                     ask |-> r.ask \/ p.handle.gen # g]
<1>1. CASE o \in Attempt(r, locked, write, ns, v)
  BY <1>1, AttemptOutcome
<1>2. ASSUME g \in r.disk.damaged, NEW q \in Quarantine(r.disk, r.handle, g, locked)
      PROVE  /\ Opened(d, h, [disk |-> q.disk, handle |-> q.handle, ask |-> r.ask])
             /\ \A m : again(q, m) => Opened(d, h, m)
  <2>0. /\ DiskOK(r.disk) /\ r.handle \in Handles /\ g <= Active(r.disk)
        /\ r.ask \in BOOLEAN /\ Keeps(h, r.handle, r.ask)
        /\ g \in Nat /\ Active(d) \in Nat /\ Active(r.disk) >= Active(d)
        /\ Active(r.disk) \in Nat /\ r.disk.rows = d.rows
    BY ActiveExists DEF Opened, Advances, HandleOK, Handles, Generations
  <2>1. /\ DiskOK(q.disk) /\ q.disk.rows = d.rows /\ Active(q.disk) >= Active(r.disk)
        /\ q.handle \in Handles /\ q.handle.gen = g
        /\ (q.handle.pending <=> r.handle.pending) /\ (q.handle.open <=> r.handle.open)
        /\ Active(q.disk) \in Nat
    <3>1. /\ DiskOK(q.disk) /\ q.disk.rows = r.disk.rows /\ Active(q.disk) >= Active(r.disk)
          /\ q.handle \in Handles /\ q.handle.gen = r.handle.gen
          /\ (q.handle.pending <=> r.handle.pending) /\ (q.handle.open <=> r.handle.open)
      BY <1>2, <2>0, QuarantineOutcome
    <3> QED
      BY <2>0, <3>1, ActiveExists DEF Generations
  <2>2. Opened(d, h, [disk |-> q.disk, handle |-> q.handle, ask |-> r.ask])
    <3>1. Advances(d, q.disk) /\ HandleOK(q.disk, q.handle) /\ Keeps(h, q.handle, r.ask)
      BY <2>0, <2>1 DEF Advances, HandleOK, Keeps
    <3> QED
      BY <2>0, <2>1, <3>1 DEF Opened
  <2>3. ASSUME NEW m, again(q, m) PROVE Opened(d, h, m)
    <3> DEFINE closed == [q.handle EXCEPT !.open = FALSE]
    <3>1. closed \in Handles /\ (closed.pending <=> r.handle.pending)
      BY <2>1 DEF Handles
    <3> HIDE DEF closed
    <3>2. PICK p \in Open(q.disk, closed, locked) :
             m = [disk |-> p.disk, handle |-> p.handle, ask |-> r.ask \/ p.handle.gen # g]
      BY <2>3 DEF closed
    <3>3. /\ Advances(q.disk, p.disk) /\ p.disk.rows = d.rows
          /\ p.handle \in Handles /\ p.handle.gen = Active(p.disk)
          /\ (p.handle.pending <=> r.handle.pending)
      BY <2>1, <3>1, OpenOutcome
    <3>4. Active(p.disk) \in Nat /\ Active(p.disk) >= Active(q.disk) /\ g < Active(q.disk)
      BY <2>1, <2>3, <3>3, ActiveExists DEF Advances, Generations
    <3> DEFINE moved == r.ask \/ p.handle.gen # g
    <3>5. m.disk = p.disk /\ m.handle = p.handle /\ m.ask = moved /\ moved \in BOOLEAN
      BY <3>2
    <3>6. moved
      BY <2>0, <2>1, <3>3, <3>4
    <3>7. m.ask \in BOOLEAN /\ m.ask
      BY <3>5, <3>6
    <3>8. HandleOK(m.disk, m.handle) /\ Advances(d, m.disk)
      BY <2>0, <2>1, <3>3, <3>4, <3>5 DEF HandleOK, Advances
    <3>9. Keeps(h, m.handle, m.ask)
      BY <2>0, <3>3, <3>5, <3>7 DEF Keeps
    <3> QED
      BY <3>3, <3>5, <3>7, <3>8, <3>9 DEF Opened
  <2> QED
    BY <2>2, <2>3
<1>3. CASE o \notin Attempt(r, locked, write, ns, v)
  <2> DEFINE moved(q) == {[disk |-> p.disk, handle |-> p.handle, ask |-> r.ask \/ p.handle.gen # g] :
                             p \in Open(q.disk, [q.handle EXCEPT !.open = FALSE], locked)}
             stays(q) == [disk |-> q.disk, handle |-> q.handle, ask |-> r.ask]
             ends(m) == IF m.handle.open THEN Attempt(m, locked, write, ns, v)
                        ELSE {Degraded(m, write)}
  <2>1. /\ g \in r.disk.damaged
        /\ o \in UNION {IF g \in q.disk.marked THEN UNION {ends(m) : m \in moved(q)}
                        ELSE {Degraded(stays(q), write)} :
                        q \in Quarantine(r.disk, r.handle, g, locked)}
    BY <1>3 DEF Attempts
  <2> HIDE DEF ends, stays
  <2>2. PICK q \in Quarantine(r.disk, r.handle, g, locked) :
           o \in IF g \in q.disk.marked THEN UNION {ends(m) : m \in moved(q)}
                 ELSE {Degraded(stays(q), write)}
    BY <2>1
  <2>3. CASE g \in q.disk.marked
    <3>1. PICK m \in moved(q) : o \in ends(m)
      BY <2>2, <2>3
    <3>2. Opened(d, h, m)
      BY <1>2, <2>1, <2>3, <3>1
    <3> QED
      BY <3>1, <3>2, AttemptOutcome, DegradedOutcome DEF ends
  <2>4. CASE g \notin q.disk.marked
    <3>1. o = Degraded(stays(q), write)
      BY <2>2, <2>4
    <3>2. Opened(d, h, stays(q))
      BY <1>2, <2>1 DEF stays
    <3> QED
      BY <3>1, <3>2, DegradedOutcome
  <2> QED
    BY <2>3, <2>4
<1> QED
  BY <1>1, <1>3

(* Every call of the store (_run).                                           *)
LEMMA RunOutcome ==
    ASSUME NEW d, DiskOK(d), NEW h, HandleOK(d, h), NEW locked,
           NEW write \in BOOLEAN, NEW ns, NEW v \in Texts,
           NEW o \in Run(d, h, locked, write, ns, v)
    PROVE  Ran(d, h, o, write, ns, v)
<1>1. CASE write /\ "busy" \in h.waits
  <2> DEFINE r == [disk |-> d, handle |-> h, ask |-> FALSE]
  <2>1. Opened(d, h, r)
    BY ActiveExists DEF Opened, Advances, HandleOK, Keeps, Generations
  <2> QED
    BY <1>1, <2>1, DegradedOutcome DEF Run
<1>2. CASE ~ (write /\ "busy" \in h.waits)
  <2>1. PICK r \in EnsureOpen(d, h, locked) :
           o \in IF r.handle.open THEN Attempts(r, locked, write, ns, v)
                 ELSE {Degraded(r, write)}
    BY <1>2 DEF Run
  <2>2. Opened(d, h, r)
    BY EnsureOutcome
  <2> QED
    BY <2>1, <2>2, AttemptsOutcome, DegradedOutcome
<1> QED
  BY <1>1, <1>2

(* Checking the pages of the store leaves it in order, whatever it finds; it *)
(* is done before the first pass, when everything is owed (health_check).    *)
LEMMA HealthOutcome ==
    ASSUME NEW d, DiskOK(d), NEW h, HandleOK(d, h), NEW locked,
           NEW o \in HealthCheck(d, h, locked)
    PROVE  /\ Advances(d, o.disk) /\ Wrote(d, o.disk, {}, 0)
           /\ HandleOK(o.disk, o.handle) /\ o.ask \in BOOLEAN
<1> DEFINE k == [h EXCEPT !.waits = @ \ {"reopen"}]
<1>1. HandleOK(d, k)
  BY DEF HandleOK, Handles
<1> HIDE DEF k
<1>2. PICK r \in EnsureOpen(d, k, locked) : 
         \E p \in Read(r.disk, r.handle, locked) : o = [p EXCEPT !.ask = p.ask \/ r.ask]
  BY DEF HealthCheck, k
<1>3. Opened(d, k, r)
  BY <1>1, EnsureOutcome
<1>4. PICK p \in Read(r.disk, r.handle, locked) : o = [p EXCEPT !.ask = p.ask \/ r.ask]
  BY <1>2
<1>5. Ran(r.disk, r.handle, p, FALSE, {}, 0)
  <2>1. 0 \in Texts /\ DiskOK(r.disk) /\ HandleOK(r.disk, r.handle)
    BY <1>3, StoreAssumption DEF Opened, Advances, Texts
  <2>2. p \in Run(r.disk, r.handle, locked, FALSE, {}, 0)
    BY <1>4 DEF Read
  <2> QED
    BY <2>1, <2>2, RunOutcome
<1>6. o.disk = p.disk /\ o.handle = p.handle /\ o.ask \in BOOLEAN
  BY <1>3, <1>4, <1>5 DEF Opened, Ran
<1> QED
  BY <1>3, <1>5, <1>6, ActiveExists DEF Opened, Ran, Advances, Wrote, Generations

(* The part of an outcome that concerns the other users of the index and the *)
(* handle, whatever the call was.                                           *)
Left(d, h, o, ns, v) ==
    /\ Advances(d, o.disk)
    /\ Wrote(d, o.disk, ns, v)
    /\ HandleOK(o.disk, o.handle)
    /\ o.ask \in BOOLEAN
    /\ Keeps(h, o.handle, o.ask)

(* Looking for a generation, or a whole call, leaves the index in order.     *)
LEMMA OutcomesLeave ==
    ASSUME NEW d, NEW h, NEW o, NEW write \in BOOLEAN, NEW ns, NEW v
    PROVE  /\ Opened(d, h, o) => Left(d, h, o, ns, v)
           /\ Ran(d, h, o, write, ns, v) => Left(d, h, o, ns, v)
BY DEF Opened, Ran, Left, Wrote

(* So does owing a re-sync as well, or asking for one.                       *)
LEMMA OwingLeaves ==
    ASSUME NEW d, NEW h, NEW o, NEW ns, NEW v, Left(d, h, o, ns, v)
    PROVE  LET p == [o EXCEPT !.handle = Owing(@)]
               q == [o EXCEPT !.ask = TRUE]
           IN  /\ Left(d, h, p, ns, v) /\ p.handle.pending
               /\ p.disk = o.disk /\ p.handle.gen = o.handle.gen
               /\ Left(d, h, q, ns, v) /\ q.ask
               /\ q.disk = o.disk /\ q.handle = o.handle
<1> DEFINE p == [o EXCEPT !.handle = Owing(@)]
           q == [o EXCEPT !.ask = TRUE]
<1>1. p.disk = o.disk /\ p.ask = o.ask /\ p.handle = Owing(o.handle)
  BY DEF Left
<1>2. q.disk = o.disk /\ q.ask = TRUE /\ q.handle = o.handle
  BY DEF Left
<1>3. /\ p.handle \in Handles /\ p.handle.gen = o.handle.gen
      /\ (p.handle.open <=> o.handle.open) /\ p.handle.pending
  BY <1>1 DEF Left, HandleOK, Handles, Owing
<1>4. HandleOK(p.disk, p.handle) /\ Keeps(h, p.handle, p.ask)
  BY <1>1, <1>3 DEF Left, HandleOK, Keeps
<1>5. HandleOK(q.disk, q.handle) /\ Keeps(h, q.handle, q.ask)
  BY <1>2 DEF Left, Keeps
<1> QED
  BY <1>1, <1>2, <1>3, <1>4, <1>5 DEF Left

-----------------------------------------------------------------------------
(* The invariant.                                                           *)

(* A write in progress has a text, the rest of a drain is of replayed nodes, *)
(* and what is being deleted has left the graph.                            *)
CallOK(s) ==
    /\ tool[s].step = "write" => /\ tool[s].text # 0
                                 /\ tool[s].replayed \/ tool[s].rest = {}
    /\ tool[s].step = "drain" => tool[s].replayed /\ tool[s].now = {}
    /\ tool[s].step \in {"purge", "chunks"} => tool[s].now \subseteq removed

(* The node a pass is embedding is one of those it has to embed; when it      *)
(* sweeps there are none left.                                              *)
PassOK(s) ==
    /\ bg[s].step = "embed" => bg[s].now \subseteq Todo(s)
    /\ bg[s].step = "sweep" => Todo(s) = {}

(* A pass is asked for or is to be asked for.                               *)
Due(s) == s \in resync \/ handle[s].pending

Starting(s) == bg[s].step \in {"boot", "load", "sync"}

(* A handle that was lost is not lost silently: it may come back on another  *)
(* generation, and the session would not notice.                            *)
ClosedIsDue(s) == Listening(s) /\ ~ handle[s].open => Due(s) \/ Starting(s)

(* Each session that listens has itself every node that is missing, or has   *)
(* failed on it.                                                            *)
OwesMissing(s) ==
    Listening(s) => \A n \in Live : Indexed(n) \/ Owes(s, n) \/ n \in failed[s]

SessionOK(s) ==
    /\ HandleOK(disk, handle[s])
    /\ CallOK(s)
    /\ PassOK(s)
    /\ ClosedIsDue(s)
    /\ OwesMissing(s)

IndexInv == TypeOK /\ DiskOK(disk) /\ \A s \in Sessions : SessionOK(s)

(* The index may move on to another generation; while it does not, the live  *)
(* nodes keep their vectors.                                                *)
DiskStep ==
    /\ Advances(disk, disk')
    /\ \A n \in Live : Indexed(n) /\ Active(disk') = Active(disk) => Indexed(n)'

(* A step is not about session t.                                           *)
Aside(t) ==
    /\ handle'[t] = handle[t] /\ bg'[t] = bg[t] /\ tool'[t] = tool[t]
    /\ queue'[t] = queue[t] /\ unseen'[t] = unseen[t] /\ failed'[t] = failed[t]
    /\ t \in resync' <=> t \in resync

Shrinks == Live' \subseteq Live /\ removed \subseteq removed'

-----------------------------------------------------------------------------
(* A step of one session.                                                   *)

(* Whatever a session does to the index, the others still have what is then  *)
(* missing: if it moves on, they are all on an older generation.            *)
LEMMA OthersKeep ==
    ASSUME IndexInv, TypeOK', DiskStep, Shrinks, NEW t \in Sessions, Aside(t)
    PROVE  SessionOK(t)'
<1>1. /\ Active(disk) \in Nat /\ Active(disk') \in Nat /\ Active(disk') >= Active(disk)
      /\ handle[t].gen \in Nat /\ handle[t].gen <= Active(disk)
  BY ActiveExists DEF IndexInv, SessionOK, HandleOK, Handles, DiskStep, Advances, Generations
<1>2. HandleOK(disk', handle'[t])
  BY <1>1 DEF IndexInv, SessionOK, HandleOK, Aside
<1>3. CallOK(t)' /\ PassOK(t)' /\ ClosedIsDue(t)'
  BY DEF IndexInv, SessionOK, CallOK, PassOK, Todo, ClosedIsDue, Due, Starting, Listening,
         Aside, Shrinks
<1>4. OwesMissing(t)'
  <2> SUFFICES ASSUME Listening(t)', NEW n \in Live'
               PROVE  Indexed(n)' \/ Owes(t, n)' \/ n \in failed'[t]
    BY DEF OwesMissing
  <2>1. Listening(t) /\ n \in Live
    BY DEF Aside, Listening, Shrinks
  <2>2. CASE Indexed(n)
    BY <1>1, <2>1, <2>2 DEF DiskStep, Owes, Aside, Listening
  <2>3. CASE Owes(t, n)
    BY <1>1, <2>1, <2>3 DEF Owes, Todo, Aside, Listening
  <2>4. CASE n \in failed[t]
    BY <2>4 DEF Aside
  <2> QED
    BY <2>1, <2>2, <2>3, <2>4 DEF IndexInv, SessionOK, OwesMissing
<1> QED
  BY <1>2, <1>3, <1>4 DEF SessionOK

(* The invariant is kept and so are the live vectors.                        *)
Kept == IndexInv' /\ DiskStep

(* A step of one session that leaves its own part in order keeps everything. *)
LEMMA OneSession ==
    ASSUME IndexInv, TypeOK', DiskStep, Shrinks,
           NEW s \in Sessions, \A t \in Sessions \ {s} : Aside(t), SessionOK(s)'
    PROVE  Kept
BY OthersKeep DEF Kept, IndexInv, DiskStep, Advances

(* A session went on from a call of the store that wrote v, which is a text,  *)
(* or took away the vectors of nodes that are not live.                     *)
Serves(s, o, ns, v) ==
    /\ Took(s, o)
    /\ Left(disk, handle[s], o, ns, v)
    /\ v \in Texts
    /\ v = 0 => ns \cap Live = {}

(* Such a call keeps the index in order and forgets nothing: what was owed   *)
(* still is, and a node that was found still is or comes to be owed.        *)
LEMMA ServedStep ==
    ASSUME IndexInv, NEW s \in Sessions, NEW o, NEW ns, NEW v, Serves(s, o, ns, v)
    PROVE  /\ disk' \in Disks /\ Active(disk') \in Generations
           /\ handle' \in [Sessions -> Handles] /\ resync' \subseteq Sessions
           /\ DiskStep
           /\ HandleOK(disk', handle'[s])
           /\ disk' = o.disk /\ handle'[s] = o.handle
           /\ \A t \in Sessions \ {s} :
                 handle'[t] = handle[t] /\ (t \in resync' <=> t \in resync)
           /\ Due(s) => Due(s)'
           /\ o.ask => Due(s)'
           /\ Listening(s) /\ ~ handle'[s].open => Due(s)' \/ Starting(s)
           /\ \A n \in Live :
                 /\ Listening(s)
                 /\ Indexed(n) \/ handle[s].gen # Active(disk)
                 => Indexed(n)' \/ Due(s)' \/ Starting(s) \/ handle'[s].gen # Active(disk')
<1> DEFINE h == handle[s]
<1>1. /\ disk' = o.disk /\ handle' = [handle EXCEPT ![s] = o.handle]
      /\ resync' = IF o.ask THEN resync \cup {s} ELSE resync
      /\ handle \in [Sessions -> Handles] /\ resync \subseteq Sessions
      /\ o.handle \in Handles
  BY DEF Serves, Took, IndexInv, TypeOK, Left, HandleOK
<1>2. /\ handle' \in [Sessions -> Handles] /\ handle'[s] = o.handle
      /\ \A t \in Sessions \ {s} : handle'[t] = handle[t]
      /\ resync' \subseteq Sessions
      /\ \A t \in Sessions \ {s} : t \in resync' <=> t \in resync
      /\ s \in resync' <=> s \in resync \/ o.ask
  BY <1>1
<1>3. /\ Advances(disk, disk') /\ Wrote(disk, disk', ns, v)
      /\ HandleOK(disk', handle'[s]) /\ Keeps(h, handle'[s], o.ask)
      /\ DiskOK(disk) /\ DiskOK(disk')
      /\ h \in Handles /\ h.gen <= Active(disk)
      /\ ClosedIsDue(s)
  BY <1>1, <1>2 DEF Serves, Left, IndexInv, SessionOK, HandleOK, Advances
<1>4. /\ Active(disk) \in Generations /\ Active(disk') \in Generations
      /\ Active(disk) \in Nat /\ Active(disk') \in Nat /\ h.gen \in Nat
      /\ Active(disk') >= Active(disk) /\ disk' \in Disks
  BY <1>3, ActiveExists DEF Generations, Handles, Advances, DiskOK
<1>5. ASSUME NEW n \in Live, Indexed(n), Active(disk') = Active(disk) PROVE Indexed(n)'
  BY <1>3, <1>4, <1>5 DEF Indexed, Wrote, Live, Serves
<1>6. /\ Due(s) => Due(s)'
      /\ o.ask => Due(s)'
      /\ Listening(s) /\ ~ handle'[s].open => Due(s)' \/ Starting(s)
  BY <1>2, <1>3 DEF Due, Keeps, ClosedIsDue
<1>7. ASSUME NEW n \in Live, Listening(s), Indexed(n) \/ h.gen # Active(disk)
      PROVE  Indexed(n)' \/ Due(s)' \/ Starting(s) \/ handle'[s].gen # Active(disk')
  <2>1. CASE handle'[s].gen # h.gen
    BY <1>2, <1>3, <1>6, <1>7, <2>1 DEF Keeps, ClosedIsDue
  <2>2. CASE handle'[s].gen = h.gen
    BY <1>3, <1>4, <1>5, <1>7, <2>2
  <2> QED
    BY <2>1, <2>2
<1> QED
  BY <1>1, <1>2, <1>3, <1>4, <1>5, <1>6, <1>7 DEF DiskStep

(* A step without the store is one that found the index as it was.         *)
NoOutcome(s) == [disk |-> disk, handle |-> handle[s], ask |-> FALSE]

(* Such a step serves like a call.                                           *)
LEMMA NoStoreServes ==
    ASSUME IndexInv, NEW s \in Sessions, NoStoreCall
    PROVE  Serves(s, NoOutcome(s), {}, 0)
<1> DEFINE o == NoOutcome(s)
<1>0. DiskOK(disk) /\ HandleOK(disk, handle[s]) /\ Active(disk) \in Nat
  BY ActiveExists DEF IndexInv, SessionOK, Generations
<1>1. o.disk = disk /\ o.handle = handle[s] /\ o.ask = FALSE
  BY DEF NoOutcome
<1>2. Took(s, o)
  BY <1>1 DEF Took, NoStoreCall, IndexInv, TypeOK
<1>3. Left(disk, handle[s], o, {}, 0)
  <2> HIDE DEF o
  <2>1. Advances(disk, o.disk) /\ Wrote(disk, o.disk, {}, 0)
    BY <1>0, <1>1 DEF Advances, Wrote
  <2>2. o.ask \in BOOLEAN /\ Keeps(handle[s], o.handle, o.ask)
    BY <1>1 DEF Keeps
  <2> QED
    BY <1>0, <1>1, <2>1, <2>2 DEF Left
<1> QED
  BY <1>2, <1>3, StoreAssumption DEF Serves, Texts

(* The threads of a session.                                                *)
LEMMA ThreadIs ==
    ASSUME TypeOK, NEW s \in Sessions, NEW t \in Threads, Thread(s, t)
    PROVE  /\ bg' \in [Sessions -> Threads] /\ bg'[s] = t
           /\ \A r \in Sessions \ {s} : bg'[r] = bg[r]
BY DEF TypeOK, Thread

(* Its tools.                                                               *)
LEMMA CallIs ==
    ASSUME TypeOK, NEW s \in Sessions, NEW c \in Calls, Call(s, c)
    PROVE  /\ tool' \in [Sessions -> Calls] /\ tool'[s] = c
           /\ \A r \in Sessions \ {s} : tool'[r] = tool[r]
BY DEF TypeOK, Call

(* What a session replays it puts into its queue.                            *)
LEMMA CatchUpIs ==
    ASSUME TypeOK, NEW s \in Sessions, NEW back \in SUBSET Nodes, CatchUp(s, back)
    PROVE  /\ queue' \in [Sessions -> SUBSET Nodes] /\ unseen' \in [Sessions -> SUBSET Nodes]
           /\ queue'[s] = queue[s] \cup unseen[s] \cup back /\ unseen'[s] = {}
           /\ \A r \in Sessions \ {s} : queue'[r] = queue[r] /\ unseen'[r] = unseen[r]
BY DEF TypeOK, CatchUp

(* One more event of a kind is counted.                                      *)
LEMMA HappensIs ==
    ASSUME TypeOK, NEW kind \in Events, Happens(kind)
    PROVE  events' \in [Events -> Nat]
BY DEF TypeOK, Happens

(* What its generator failed on changes for the session alone.               *)
Tries(s) == UNCHANGED failed \/ \E ns \in SUBSET Nodes : ComesBack(s, ns) \/ Fails(s, ns)

LEMMA TriesIs ==
    ASSUME TypeOK, NEW s \in Sessions, Tries(s)
    PROVE  /\ failed' \in [Sessions -> SUBSET Nodes]
           /\ \A r \in Sessions \ {s} : failed'[r] = failed[r]
BY DEF TypeOK, Tries, ComesBack, Fails

(* A thread at a step with nothing in hand.                                 *)
LEMMA AtIs ==
    ASSUME NEW step \in {"off", "boot", "load", "sync", "scan", "embed", "sweep", "idle", "gone"}
    PROVE  /\ At(step) \in Threads /\ At(step).step = step
           /\ \A n \in Nodes : At(step).todo[n] = 0
           /\ At(step).todo \in [Nodes -> Texts] /\ At(step).now = {} /\ At(step).ids = {}
BY StoreAssumption DEF At, Threads, Texts

(* A tool between two calls.                                                *)
LEMMA NoCallIs == NoCall \in Calls /\ NoCall.step = "none"
BY StoreAssumption DEF NoCall, Calls, Texts

-----------------------------------------------------------------------------
(* The background thread.                                                   *)

(* A session that starts owes everything, as its thread has yet to make its  *)
(* first pass.                                                              *)
LEMMA StartKeeps == ASSUME IndexInv, NEW s \in Sessions, Start(s) PROVE Kept
<1>1. PICK o \in Open(disk, NewHandle, held) :
         disk' = o.disk /\ handle' = [handle EXCEPT ![s] = o.handle]
  BY DEF Start
<1>2. /\ Advances(disk, o.disk) /\ o.disk.rows = disk.rows
      /\ o.handle \in Handles /\ o.handle.gen = Active(o.disk)
  <2>1. NewHandle \in Handles /\ DiskOK(disk)
    BY StoreAssumption DEF NewHandle, Handles, Generations, IndexInv
  <2> QED
    BY <2>1, OpenOutcome
<1>3. /\ bg' \in [Sessions -> Threads] /\ bg'[s] = At("boot") /\ bg'[s].step = "boot"
      /\ \A t \in Sessions \ {s} : bg'[t] = bg[t]
  BY AtIs, ThreadIs DEF Start, IndexInv
<1>4. /\ handle' \in [Sessions -> Handles] /\ handle'[s] = o.handle
      /\ \A t \in Sessions \ {s} : handle'[t] = handle[t]
      /\ queue' \in [Sessions -> SUBSET Nodes]
      /\ \A t \in Sessions \ {s} : queue'[t] = queue[t]
  BY <1>1, <1>2 DEF Start, IndexInv, TypeOK, Live
<1>5. DiskStep /\ HandleOK(disk', handle'[s]) /\ disk' \in Disks /\ Active(disk') \in Generations
  <2>1. Active(o.disk) \in Generations /\ o.disk \in Disks
    BY <1>2, ActiveExists DEF Advances, DiskOK
  <2> QED
    BY <1>1, <1>2, <1>4, <2>1 DEF DiskStep, HandleOK, Indexed, Generations
<1>6. TypeOK'
  BY <1>3, <1>4, <1>5 DEF Start, IndexInv, TypeOK, graph
<1>7. Shrinks /\ \A t \in Sessions \ {s} : Aside(t)
  BY <1>3, <1>4 DEF Start, Shrinks, Aside, Live, graph
<1>8. SessionOK(s)'
  <2>1. CallOK(s)' /\ PassOK(s)'
    BY <1>3 DEF CallOK, PassOK, Start, graph, IndexInv, SessionOK
  <2>2. ClosedIsDue(s)' /\ OwesMissing(s)'
    BY <1>3 DEF ClosedIsDue, Starting, OwesMissing, Owes
  <2> QED
    BY <1>5, <2>1, <2>2 DEF SessionOK
<1> QED
  BY <1>5, <1>6, <1>7, <1>8, OneSession

(* The health check may find the store unusable; the pass is still to come.  *)
LEMMA CheckStoreKeeps == ASSUME IndexInv, NEW s \in Sessions, CheckStore(s) PROVE Kept
<1>1. PICK o \in HealthCheck(disk, handle[s], held) : Took(s, o)
  BY DEF CheckStore
<1>2. /\ Advances(disk, o.disk) /\ Wrote(disk, o.disk, {}, 0)
      /\ HandleOK(o.disk, o.handle) /\ o.ask \in BOOLEAN
  BY HealthOutcome DEF IndexInv, SessionOK
<1>3. /\ bg' \in [Sessions -> Threads] /\ bg'[s] = At("load") /\ bg'[s].step = "load"
      /\ \A t \in Sessions \ {s} : bg'[t] = bg[t]
  BY AtIs, ThreadIs DEF CheckStore, IndexInv
<1>4. /\ handle' \in [Sessions -> Handles] /\ handle'[s] = o.handle
      /\ \A t \in Sessions \ {s} :
            handle'[t] = handle[t] /\ (t \in resync' <=> t \in resync)
      /\ resync' \subseteq Sessions
  BY <1>1, <1>2 DEF Took, IndexInv, TypeOK, HandleOK
<1>5. DiskStep /\ HandleOK(disk', handle'[s]) /\ disk' \in Disks /\ Active(disk') \in Generations
  <2>1. Active(o.disk) \in Generations /\ o.disk \in Disks /\ Active(disk) \in Generations
    BY <1>2, ActiveExists DEF Advances, DiskOK, IndexInv
  <2> QED
    BY <1>1, <1>2, <1>4, <2>1 DEF Took, DiskStep, Indexed, Wrote, Live
<1>6. TypeOK'
  BY <1>3, <1>4, <1>5 DEF CheckStore, IndexInv, TypeOK, graph, replay
<1>7. Shrinks /\ \A t \in Sessions \ {s} : Aside(t)
  BY <1>3, <1>4 DEF CheckStore, Shrinks, Aside, Live, graph, replay
<1>8. SessionOK(s)'
  <2>1. CallOK(s)' /\ PassOK(s)'
    BY <1>3 DEF CallOK, PassOK, CheckStore, graph, IndexInv, SessionOK
  <2>2. ClosedIsDue(s)' /\ OwesMissing(s)'
    BY <1>3 DEF ClosedIsDue, Starting, OwesMissing, Owes
  <2> QED
    BY <1>5, <2>1, <2>2 DEF SessionOK
<1> QED
  BY <1>5, <1>6, <1>7, <1>8, OneSession

(* Steps of the thread that touch neither the store nor the graph.          *)
LEMMA LoadingKeeps ==
    ASSUME IndexInv, NEW s \in Sessions, Load(s) \/ LoadFails(s) \/ Recover(s) \/ Wake(s)
    PROVE  Kept
<1>1. /\ disk' = disk /\ handle' = handle /\ graph' = graph /\ replay' = replay /\ tool' = tool
      /\ failed' = failed
      /\ resync' \in {resync, resync \ {s}} /\ ready' \in {ready, ready \cup {s}}
      /\ events' \in [Events -> Nat]
      /\ held' = held
      /\ \/ bg' = bg /\ resync' = resync
         \/ Thread(s, At("sync"))
         \/ Thread(s, At("gone")) /\ resync' = resync
  BY DEF Load, LoadFails, Recover, Wake, env, Happens, IndexInv, TypeOK
<1>2. /\ bg' \in [Sessions -> Threads]
      /\ \/ bg' = bg /\ resync' = resync
         \/ bg'[s].step \in {"sync", "gone"}
      /\ \A t \in Sessions \ {s} : bg'[t] = bg[t]
  BY <1>1, AtIs, ThreadIs DEF IndexInv, TypeOK
<1>3. TypeOK'
  BY <1>1, <1>2 DEF IndexInv, TypeOK, graph, replay
<1>4. DiskStep /\ Shrinks /\ \A t \in Sessions \ {s} : Aside(t)
  BY <1>1, <1>2, ActiveExists
  DEF IndexInv, DiskStep, Advances, Shrinks, Aside, Live, graph, replay, Indexed, Generations
<1>5. SessionOK(s)'
  <2>1. HandleOK(disk, handle[s])' /\ CallOK(s)'
    BY <1>1 DEF IndexInv, SessionOK, CallOK, graph
  <2>2. CASE bg' = bg /\ resync' = resync
    BY <1>1, <2>1, <2>2 DEF IndexInv, SessionOK, PassOK, Todo, ClosedIsDue, Due, Starting,
       OwesMissing, Owes, Listening, Live, Indexed, graph, replay
  <2>3. CASE bg'[s].step \in {"sync", "gone"}
    BY <2>1, <2>3 DEF SessionOK, PassOK, ClosedIsDue, Starting, OwesMissing, Owes, Listening
  <2> QED
    BY <1>2, <2>2, <2>3
<1> QED
  BY <1>3, <1>4, <1>5, OneSession

(* The session has node n in hand: to be replayed, in the queue, or in the    *)
(* call it makes.                                                           *)
InHand(s, n) ==
    \/ n \in unseen[s] \cup queue[s]
    \/ tool[s].step \in {"write", "drain"} /\ n \in tool[s].now \cup tool[s].rest

ToEmbed(t) == {n \in Nodes : t.todo[n] # 0}

(* A step of a pass that goes on with t: it must have asked for another pass, *)
(* or hold an open handle and leave no live node that is missing out of what  *)
(* it still has to embed.                                                   *)
LEMMA PassStep ==
    ASSUME IndexInv, NEW s \in Sessions, NEW o, NEW ns, NEW v, Serves(s, o, ns, v),
           NEW t \in Threads, Thread(s, t),
           UNCHANGED replay \/ CatchUp(s, {}),
           UNCHANGED <<held, graph, ready, tool>>,
           events' = events \/ events' \in [Events -> Nat], Tries(s),
           t.step = "embed" => t.now \subseteq ToEmbed(t),
           t.step = "sweep" => ToEmbed(t) = {},
           \/ Due(s)'
           \/ /\ handle'[s].open
              /\ \A n \in Live : \/ Indexed(n)' \/ handle'[s].gen # Active(disk')
                                 \/ n \in ToEmbed(t) \/ InHand(s, n)
                                 \/ n \in failed'[s]
    PROVE  Kept
<1>1. /\ bg' \in [Sessions -> Threads] /\ bg'[s] = t
      /\ \A r \in Sessions \ {s} : bg'[r] = bg[r]
  BY ThreadIs DEF IndexInv
<1>2. /\ queue' \in [Sessions -> SUBSET Nodes] /\ unseen' \in [Sessions -> SUBSET Nodes]
      /\ queue[s] \cup unseen[s] \subseteq queue'[s] \cup unseen'[s]
      /\ \A r \in Sessions \ {s} : queue'[r] = queue[r] /\ unseen'[r] = unseen[r]
  BY CatchUpIs DEF IndexInv, TypeOK, replay
<1>3. TypeOK'
  BY <1>1, <1>2, ServedStep, TriesIs DEF IndexInv, TypeOK, graph
<1>4. DiskStep /\ Shrinks /\ \A r \in Sessions \ {s} : Aside(r)
  BY <1>1, <1>2, ServedStep, TriesIs DEF Shrinks, IndexInv, Aside, Live, graph
<1>5. SessionOK(s)'
  <2>1. HandleOK(disk, handle[s])' /\ CallOK(s)' /\ PassOK(s)'
    BY <1>1, ServedStep DEF IndexInv, SessionOK, CallOK, PassOK, Todo, ToEmbed, graph
  <2>2. ClosedIsDue(s)'
    BY DEF ClosedIsDue
  <2>3. ASSUME Listening(s)', NEW n \in Live' 
         PROVE  Indexed(n)' \/ Owes(s, n)' \/ n \in failed'[s]
    <3>1. n \in Live
      BY DEF Live, graph
    <3>2. CASE Due(s)'
      BY <2>3, <3>2 DEF Owes, Due
    <3>3. CASE Indexed(n)' \/ handle'[s].gen # Active(disk')
      BY <2>3, <3>3 DEF Owes
    <3>4. CASE n \in ToEmbed(t)
      BY <1>1, <2>3, <3>4 DEF Owes, ToEmbed, Todo
    <3>5. CASE InHand(s, n)
      BY <1>2, <3>5 DEF Owes, InHand
    <3> QED
      BY <3>1, <3>2, <3>3, <3>4, <3>5
  <2> QED
    BY <2>1, <2>2, <2>3 DEF SessionOK, OwesMissing
<1> QED
  BY <1>3, <1>4, <1>5, OneSession

(* A pass cut short comes back to everything                                *)
(* (request_resync_on_recovery).                                            *)
LEMMA AbortKeeps ==
    ASSUME IndexInv, NEW s \in Sessions, NEW o, NEW ns, NEW v \in Texts,
           Left(disk, handle[s], o, ns, v), v = 0 => ns \cap Live = {},
           Abort(s, o), UNCHANGED replay \/ CatchUp(s, {}),
           UNCHANGED <<held, events, graph, ready, failed, tool>>
    PROVE  Kept
<1> DEFINE p == [o EXCEPT !.handle = Owing(@)]
<1>1. Left(disk, handle[s], p, ns, v) /\ p.handle.pending
  BY OwingLeaves
<1>2. Serves(s, p, ns, v)
  BY <1>1 DEF Abort, Serves
<1> HIDE DEF p
<1>3. Due(s)'
  BY <1>1, <1>2, ServedStep DEF Due
<1>4. At("idle") \in Threads /\ At("idle").step = "idle" /\ Thread(s, At("idle"))
  BY AtIs DEF Abort
<1> QED
  BY <1>2, <1>3, <1>4, PassStep DEF Tries

(* What was owed before a step of a pass still is, but for what it embeds.   *)
LEMMA StillOwed ==
    ASSUME IndexInv, NEW s \in Sessions, NEW o, NEW ns, NEW v, Serves(s, o, ns, v),
           Listening(s), ~ Starting(s)
    PROVE  \/ Due(s)'
           \/ /\ handle'[s].open
              /\ \A n \in Live : \/ Indexed(n)' \/ handle'[s].gen # Active(disk')
                                 \/ n \in Todo(s) \/ InHand(s, n)
                                 \/ n \in failed[s]
<1>1. \A n \in Live : Indexed(n) \/ Owes(s, n) \/ n \in failed[s]
  BY DEF IndexInv, SessionOK, OwesMissing
<1>2. ASSUME NEW n \in Live, ~ Due(s)'
      PROVE  \/ Indexed(n)' \/ handle'[s].gen # Active(disk')
             \/ n \in Todo(s) \/ InHand(s, n) \/ n \in failed[s]
  <2>1. CASE Indexed(n) \/ handle[s].gen # Active(disk)
    BY <1>2, <2>1, ServedStep
  <2>2. CASE n \in Todo(s) \/ InHand(s, n) \/ n \in failed[s]
    BY <2>2
  <2>3. ~ Due(s)
    BY <1>2, ServedStep
  <2> QED
    BY <1>1, <2>1, <2>2, <2>3 DEF Owes, Due, Starting, InHand
<1> QED
  BY <1>2, ServedStep

(* A read of the session is a call that writes nothing.                      *)
LEMMA ReadsRun ==
    ASSUME IndexInv, NEW s \in Sessions, NEW o \in Reads(s)
    PROVE  /\ Ran(disk, handle[s], o, FALSE, {}, 0)
           /\ Took(s, o) => Serves(s, o, {}, 0)
           /\ Left(disk, handle[s], o, {}, 0)
           /\ 0 \in Texts /\ {} \cap Live = {}
<1>0. 0 \in Texts
  BY StoreAssumption DEF Texts
<1>1. 0 \in Texts /\ o \in Run(disk, handle[s], held, FALSE, {}, 0)
  BY <1>0 DEF Reads, Read
<1>2. Ran(disk, handle[s], o, FALSE, {}, 0)
  BY <1>1, RunOutcome DEF IndexInv, SessionOK
<1>3. Left(disk, handle[s], o, {}, 0)
  BY <1>2, OutcomesLeave
<1> QED
  BY <1>1, <1>2, <1>3 DEF Serves

(* A write is a call that may fail, and then a re-sync is owed.              *)
LEMMA WritesRun ==
    ASSUME IndexInv, NEW s \in Sessions, NEW ns, NEW v \in Texts, NEW o \in Writes(s, ns, v)
    PROVE  /\ Ran(disk, handle[s], o, TRUE, ns, v)
           /\ Left(disk, handle[s], o, ns, v)
           /\ Took(s, o) /\ (v = 0 => ns \cap Live = {}) => Serves(s, o, ns, v)
<1>1. Ran(disk, handle[s], o, TRUE, ns, v)
  BY RunOutcome DEF IndexInv, SessionOK, Writes
<1>2. Left(disk, handle[s], o, ns, v)
  BY <1>1, OutcomesLeave
<1> QED
  BY <1>1, <1>2 DEF Serves

(* So is a look at the generation in use.                                    *)
LEMMA ChecksRun ==
    ASSUME IndexInv, NEW s \in Sessions, NEW o \in CheckGeneration(disk, handle[s], held)
    PROVE  /\ Left(disk, handle[s], o, {}, 0)
           /\ Took(s, o) => Serves(s, o, {}, 0)
           /\ 0 \in Texts /\ {} \cap Live = {}
<1>1. 0 \in Texts
  BY StoreAssumption DEF Texts
<1>2. Left(disk, handle[s], o, {}, 0)
  BY CheckOutcome, OutcomesLeave DEF IndexInv, SessionOK
<1> QED
  BY <1>1, <1>2 DEF Serves

(* A pass over a store that is not usable is owed.                           *)
LEMMA SkipPassKeeps == ASSUME IndexInv, NEW s \in Sessions, SkipPass(s) PROVE Kept
<1>1. PICK o \in CheckGeneration(disk, handle[s], held) : Abort(s, o)
  BY DEF SkipPass
<1> QED
  BY <1>1, ChecksRun, AbortKeeps DEF SkipPass

(* A pass that begins takes up whatever has no vector.                       *)
LEMMA BeginPassKeeps == ASSUME IndexInv, NEW s \in Sessions, BeginPass(s) PROVE Kept
<1>1. UNCHANGED <<held, events, graph, ready, tool>> /\ CatchUp(s, {})
  BY DEF BeginPass
<1>2. CASE Live = {}
  <2>1. PICK o \in CheckGeneration(disk, handle[s], held) :
           o.handle.open /\ Took(s, o) /\ Thread(s, At("idle"))
    BY <1>2 DEF BeginPass
  <2>4. Tries(s)
    BY <1>2 DEF BeginPass, Tries
  <2>2. Serves(s, o, {}, 0) /\ At("idle") \in Threads /\ At("idle").step = "idle"
    BY <2>1, ChecksRun, AtIs
  <2>3. handle'[s].open
    BY <2>1, <2>2, ServedStep
  <2> QED
    BY <1>1, <1>2, <2>1, <2>2, <2>3, <2>4, PassStep
<1>3. CASE Live # {}
  <2>1. PICK o \in Reads(s) :
           IF ~ o.ok THEN Abort(s, o) /\ UNCHANGED failed
           ELSE LET row == o.disk.rows[o.handle.gen]
                IN  /\ Took(s, o)
                    /\ ComesBack(s, Live)
                    /\ Thread(s, [At("scan") EXCEPT !.todo =
                          [n \in Nodes |-> IF n \in Live /\ row[n] = 0 THEN ver[n] ELSE 0]])
    BY <1>3 DEF BeginPass
  <2>2. CASE ~ o.ok
    BY <1>1, <2>1, <2>2, ReadsRun, AbortKeeps
  <2>3. CASE o.ok
    <3> DEFINE todo == [n \in Nodes |-> IF n \in Live /\ o.disk.rows[o.handle.gen][n] = 0
                                        THEN ver[n] ELSE 0]
               t == [At("scan") EXCEPT !.todo = todo]
    <3>1. Took(s, o) /\ Thread(s, t)
      BY <2>1, <2>3
    <3>8. Tries(s)
      BY <2>1, <2>3 DEF Tries, Live
    <3>2. todo \in [Nodes -> Texts]
      BY ReadsRun DEF IndexInv, TypeOK
    <3>3. \A n \in Live : n \in Nodes /\ (todo[n] # 0 \/ o.disk.rows[o.handle.gen][n] # 0)
      BY DEF Live, IndexInv, TypeOK, Texts
    <3> HIDE DEF todo
    <3>4. t \in Threads /\ t.step = "scan" /\ t.todo = todo
      BY <3>2, AtIs DEF Threads
    <3>5. Serves(s, o, {}, 0) /\ o.handle.open
      BY <2>3, <3>1, ReadsRun DEF Ran
    <3>6. disk' = o.disk /\ handle'[s] = o.handle
      BY <3>5, ServedStep
    <3>7. \A n \in Live : \/ Indexed(n)' \/ handle'[s].gen # Active(disk')
                          \/ n \in ToEmbed(t)
      BY <3>3, <3>4, <3>6 DEF ToEmbed, Indexed
    <3> HIDE DEF t
    <3> QED
      BY <1>1, <3>1, <3>4, <3>5, <3>6, <3>7, <3>8, PassStep
  <2> QED
    BY <2>2, <2>3
<1> QED
  BY <1>2, <1>3

(* What a pass no longer embeds has a vector.                                *)
LEMMA DropStep ==
    ASSUME IndexInv, NEW s \in Sessions, NEW o, NEW ns, NEW v, Serves(s, o, ns, v),
           bg[s].step \in {"scan", "embed"}, NEW n \in Nodes,
           o.disk.rows[o.handle.gen][n] # 0, Thread(s, Drop(bg[s], n)),
           UNCHANGED <<held, events, graph, ready, failed, replay, tool>>
    PROVE  Kept
<1> DEFINE t == Drop(bg[s], n)
<1>1. bg[s] \in Threads /\ Listening(s) /\ ~ Starting(s) /\ 0 \in Texts
  BY StoreAssumption DEF IndexInv, TypeOK, Listening, Starting, Texts
<1>2. t \in Threads /\ t.step = "scan" /\ t.todo = [bg[s].todo EXCEPT ![n] = 0]
  BY <1>1 DEF Drop, Threads
<1>3. Todo(s) \ {n} \subseteq ToEmbed(t)
  BY <1>1, <1>2 DEF Todo, ToEmbed, Threads
<1>4. Indexed(n)' \/ handle'[s].gen # Active(disk')
  BY ServedStep DEF Indexed
<1> HIDE DEF t
<1> QED
  BY <1>1, <1>2, <1>3, <1>4, StillOwed, PassStep DEF t, Tries

(* A node is left out only when a vector was found for it.                   *)
LEMMA RecheckKeeps == ASSUME IndexInv, NEW s \in Sessions, Recheck(s) PROVE Kept
<1>1. UNCHANGED <<held, events, graph, ready, failed, replay, tool>> /\ bg[s].step = "scan"
  BY DEF Recheck
<1>2. PICK n \in Todo(s), o \in Reads(s) :
          \/ /\ o.disk.rows[o.handle.gen][n] # 0
             /\ Took(s, o)
             /\ Thread(s, Drop(bg[s], n))
          \/ /\ Took(s, o)
             /\ Thread(s, [bg[s] EXCEPT !.step = "embed", !.now = {n}])
          \/ Abort(s, o)
  BY DEF Recheck
<1>3. n \in Nodes
  BY DEF Todo
<1>4. CASE o.disk.rows[o.handle.gen][n] # 0 /\ Took(s, o) /\ Thread(s, Drop(bg[s], n))
  BY <1>1, <1>3, <1>4, ReadsRun, DropStep
<1>5. CASE Took(s, o) /\ Thread(s, [bg[s] EXCEPT !.step = "embed", !.now = {n}])
  <2> DEFINE t == [bg[s] EXCEPT !.step = "embed", !.now = {n}]
  <2>1. bg[s] \in Threads /\ Listening(s) /\ ~ Starting(s)
    BY <1>1 DEF IndexInv, TypeOK, Listening, Starting
  <2>2. t \in Threads /\ t.step = "embed" /\ t.todo = bg[s].todo /\ t.now = {n}
    BY <1>3, <2>1 DEF Threads
  <2>3. t.now \subseteq ToEmbed(t) /\ Todo(s) = ToEmbed(t)
    BY <2>2 DEF Todo, ToEmbed
  <2> HIDE DEF t
  <2>4. Serves(s, o, {}, 0)
    BY <1>5, ReadsRun
  <2> QED
    BY <1>1, <1>5, <2>1, <2>2, <2>3, <2>4, StillOwed, PassStep DEF t, Tries
<1>6. CASE Abort(s, o)
  BY <1>1, <1>6, ReadsRun, AbortKeeps DEF replay
<1> QED
  BY <1>2, <1>4, <1>5, <1>6

(* A node is embedded, or the pass is cut short.                             *)
LEMMA EmbedKeeps == ASSUME IndexInv, NEW s \in Sessions, Embed(s) PROVE Kept
<1>1. UNCHANGED <<held, events, graph, ready, failed, replay, tool>> /\ bg[s].step = "embed"
  BY DEF Embed
<1>2. PICK n \in bg[s].now : \E o \in Writes(s, {n}, bg[s].todo[n]) :
         IF o.ok THEN Took(s, o) /\ Thread(s, Drop(bg[s], n)) ELSE Abort(s, o)
  BY DEF Embed
<1>3. PICK o \in Writes(s, {n}, bg[s].todo[n]) :
         IF o.ok THEN Took(s, o) /\ Thread(s, Drop(bg[s], n)) ELSE Abort(s, o)
  BY <1>2
<1>4. n \in Nodes /\ bg[s].todo[n] \in Texts /\ bg[s].todo[n] # 0
  BY <1>1 DEF IndexInv, SessionOK, PassOK, Todo, TypeOK, Threads
<1>5. CASE o.ok
  <2>1. Serves(s, o, {n}, bg[s].todo[n]) /\ o.disk.rows[o.handle.gen][n] = bg[s].todo[n]
    BY <1>3, <1>4, <1>5, WritesRun DEF Ran
  <2> QED
    BY <1>1, <1>3, <1>4, <1>5, <2>1, DropStep
<1>6. CASE ~ o.ok
  BY <1>1, <1>3, <1>4, <1>6, WritesRun, AbortKeeps
<1> QED
  BY <1>5, <1>6

(* What the generator fails on is left out and noted.                        *)
LEMMA EmbedFailsKeeps == ASSUME IndexInv, NEW s \in Sessions, EmbedFails(s) PROVE Kept
<1>1. /\ UNCHANGED <<held, graph, ready, replay, tool>> /\ NoStoreCall
      /\ bg[s].step = "embed" /\ Fails(s, bg[s].now)
      /\ events' \in [Events -> Nat]
  BY HappensIs DEF EmbedFails, NoStoreCall, Events, IndexInv
<1>2. PICK n \in bg[s].now : Thread(s, Drop(bg[s], n))
  BY DEF EmbedFails
<1> DEFINE t == Drop(bg[s], n)
<1>3. bg[s] \in Threads /\ Listening(s) /\ ~ Starting(s) /\ 0 \in Texts /\ n \in Nodes
  BY <1>1, StoreAssumption DEF IndexInv, TypeOK, Listening, Starting, Texts, Threads
<1>4. t \in Threads /\ t.step = "scan" /\ t.todo = [bg[s].todo EXCEPT ![n] = 0]
  BY <1>3 DEF Drop, Threads
<1>5. Todo(s) \ {n} \subseteq ToEmbed(t)
  BY <1>3, <1>4 DEF Todo, ToEmbed, Threads
<1>6. Tries(s) /\ failed[s] \cup {n} \subseteq failed'[s]
  BY <1>1, <1>3 DEF Tries, Fails, IndexInv, TypeOK, Threads
<1>7. Serves(s, NoOutcome(s), {}, 0)
  BY <1>1, NoStoreServes
<1> HIDE DEF t
<1>8. \/ Due(s)'
      \/ /\ handle'[s].open
         /\ \A m \in Live : \/ Indexed(m)' \/ handle'[s].gen # Active(disk')
                            \/ m \in ToEmbed(t) \/ InHand(s, m) \/ m \in failed'[s]
  BY <1>3, <1>5, <1>6, <1>7, StillOwed
<1> QED
  BY <1>1, <1>2, <1>4, <1>6, <1>7, <1>8, PassStep DEF t

(* Nothing is left to embed when the stored ids are read.                    *)
LEMMA ReadIdsKeeps == ASSUME IndexInv, NEW s \in Sessions, ReadIds(s) PROVE Kept
<1>1. /\ UNCHANGED <<held, events, graph, ready, failed, replay, tool>>
      /\ bg[s].step = "scan" /\ Todo(s) = {}
  BY DEF ReadIds
<1>2. PICK o \in Reads(s), ids \in SUBSET Nodes :
         /\ Took(s, o)
         /\ Thread(s, IF ids = {} THEN At("idle") ELSE [At("sweep") EXCEPT !.ids = ids])
  BY DEF ReadIds
<1> DEFINE t == IF ids = {} THEN At("idle") ELSE [At("sweep") EXCEPT !.ids = ids]
<1>3. t \in Threads /\ t.step # "embed" /\ ToEmbed(t) = {}
  BY AtIs DEF Threads, ToEmbed
<1>4. Listening(s) /\ ~ Starting(s)
  BY <1>1 DEF Listening, Starting
<1>5. Serves(s, o, {}, 0) /\ Thread(s, t)
  BY <1>2, ReadsRun
<1> HIDE DEF t
<1> QED
  BY <1>1, <1>3, <1>4, <1>5, StillOwed, PassStep DEF Tries

(* A sweep takes away vectors of nodes that are not live only.               *)
LEMMA SweepKeeps == ASSUME IndexInv, NEW s \in Sessions, Sweep(s) PROVE Kept
<1>1. /\ UNCHANGED <<held, events, graph, ready, failed, tool>> /\ CatchUp(s, {})
      /\ bg[s].step = "sweep" /\ Thread(s, At("idle"))
  BY DEF Sweep
<1>2. At("idle") \in Threads /\ At("idle").step = "idle"
  BY AtIs
<1>3. Listening(s) /\ ~ Starting(s)
  BY <1>1 DEF Listening, Starting
<1>4. \E o, ns : Serves(s, o, ns, 0)
  <2>1. CASE NoStoreCall
    BY <2>1, NoStoreServes
  <2>2. CASE \E o \in Writes(s, Orphans(s), 0) : Took(s, o)
    <3>1. 0 \in Texts /\ Orphans(s) \cap Live = {}
      BY StoreAssumption DEF Texts, Orphans
    <3> QED
      BY <2>2, <3>1, WritesRun
  <2> QED
    BY <2>1, <2>2 DEF Sweep
<1>5. Todo(s) = {}
  BY <1>1 DEF IndexInv, SessionOK, PassOK
<1> QED
  BY <1>1, <1>2, <1>3, <1>4, <1>5, StillOwed, PassStep DEF Tries

-----------------------------------------------------------------------------
(* The tools.                                                               *)

(* Node n is found, or will be seen to be missing.                           *)
Settled(s, n) == Indexed(n)' \/ Due(s)' \/ handle'[s].gen # Active(disk')

(* A step of a call that goes on with c: what the session had in hand it     *)
(* still has, or it is settled.                                             *)
LEMMA CallStep ==
    ASSUME IndexInv, NEW s \in Sessions, NEW o, NEW ns, NEW v, Serves(s, o, ns, v),
           NEW c \in Calls, Call(s, c), CallOK(s)',
           queue' \in [Sessions -> SUBSET Nodes], unseen' \in [Sessions -> SUBSET Nodes],
           \A r \in Sessions \ {s} : queue'[r] = queue[r] /\ unseen'[r] = unseen[r],
           ver' \in [Nodes -> Texts], removed' \subseteq Nodes, Shrinks,
           events' \in [Events -> Nat], UNCHANGED <<held, ready, bg>>,
           \A n \in Live : InHand(s, n) => Settled(s, n) \/ InHand(s, n)' \/ n \in failed'[s],
           Tries(s), \A n \in failed[s] \cap Live : Settled(s, n) \/ n \in failed'[s]
    PROVE  Kept
<1>1. /\ tool' \in [Sessions -> Calls] /\ tool'[s] = c
      /\ \A r \in Sessions \ {s} : tool'[r] = tool[r]
  BY CallIs DEF IndexInv
<1>2. TypeOK'
  BY <1>1, ServedStep, TriesIs DEF IndexInv, TypeOK
<1>3. DiskStep /\ \A r \in Sessions \ {s} : Aside(r)
  BY <1>1, ServedStep, TriesIs DEF Aside, IndexInv
<1>4. HandleOK(disk, handle[s])' /\ PassOK(s)' /\ ClosedIsDue(s)'
  BY ServedStep DEF IndexInv, SessionOK, PassOK, Todo, ClosedIsDue, Listening, Starting
<1>5. ASSUME Listening(s)', NEW n \in Live' 
      PROVE  Indexed(n)' \/ Owes(s, n)' \/ n \in failed'[s]
  <2>1. n \in Live /\ Listening(s) /\ (Indexed(n) \/ Owes(s, n) \/ n \in failed[s])
    BY <1>5 DEF Shrinks, Listening, IndexInv, SessionOK, OwesMissing
  <2>2. CASE Settled(s, n)
    BY <1>5, <2>2 DEF Settled, Owes, Due
  <2>3. CASE Starting(s) \/ n \in Todo(s)
    BY <1>5, <2>3 DEF Owes, Starting, Todo
  <2>4. CASE InHand(s, n)'
    BY <2>4 DEF InHand, Owes
  <2>5. CASE Indexed(n) \/ handle[s].gen # Active(disk)
    BY <2>1, <2>2, <2>3, <2>5, ServedStep DEF Settled
  <2>6. CASE Due(s)
    BY <2>2, <2>6, ServedStep DEF Settled
  <2>7. CASE InHand(s, n)
    BY <2>1, <2>2, <2>4, <2>7
  <2>8. CASE n \in failed[s]
    BY <2>1, <2>2, <2>8
  <2> QED
    BY <2>1, <2>3, <2>5, <2>6, <2>7, <2>8 DEF Owes, Due, Starting, InHand
<1> QED
  BY <1>2, <1>3, <1>4, <1>5, OneSession DEF SessionOK, OwesMissing

(* The same, while the generator fails on nothing.                           *)
LEMMA SteadyCall ==
    ASSUME IndexInv, NEW s \in Sessions, NEW o, NEW ns, NEW v, Serves(s, o, ns, v),
           NEW c \in Calls, Call(s, c), CallOK(s)',
           queue' \in [Sessions -> SUBSET Nodes], unseen' \in [Sessions -> SUBSET Nodes],
           \A r \in Sessions \ {s} : queue'[r] = queue[r] /\ unseen'[r] = unseen[r],
           ver' \in [Nodes -> Texts], removed' \subseteq Nodes, Shrinks,
           events' \in [Events -> Nat], UNCHANGED <<held, ready, failed, bg>>,
           \A n \in Live : InHand(s, n) => Settled(s, n) \/ InHand(s, n)'
    PROVE  Kept
<1>1. Tries(s) /\ \A n \in failed[s] \cap Live : Settled(s, n) \/ n \in failed'[s]
  BY DEF Tries
<1> QED
  BY <1>1, CallStep

(* A call that ends or begins without a node in hand.                        *)
LEMMA PlainCall ==
    ASSUME IndexInv, NEW s \in Sessions, NEW o, NEW ns, NEW v, Serves(s, o, ns, v),
           NEW c \in Calls, Call(s, c) \/ (UNCHANGED tool /\ c = tool[s]),
           c.step \in {"none", "query"},
           \A n \in Live : tool[s].step \in {"write", "drain"}
                             /\ n \in tool[s].now \cup tool[s].rest => Settled(s, n),
           UNCHANGED replay \/ CatchUp(s, {}), UNCHANGED <<held, events, graph, ready, failed, bg>>
    PROVE  Kept
<1>1. /\ tool' \in [Sessions -> Calls] /\ tool'[s] = c
      /\ Call(s, c)
  BY CallIs DEF IndexInv, TypeOK, Call
<1>2. CallOK(s)'
  BY <1>1 DEF CallOK
<1>3. /\ queue' \in [Sessions -> SUBSET Nodes] /\ unseen' \in [Sessions -> SUBSET Nodes]
      /\ queue[s] \cup unseen[s] \subseteq queue'[s] \cup unseen'[s]
      /\ \A r \in Sessions \ {s} : queue'[r] = queue[r] /\ unseen'[r] = unseen[r]
  BY CatchUpIs DEF IndexInv, TypeOK, replay
<1>4. /\ ver' \in [Nodes -> Texts] /\ removed' \subseteq Nodes /\ Shrinks
      /\ events' \in [Events -> Nat]
  BY DEF IndexInv, TypeOK, graph, Shrinks, Live
<1>5. \A n \in Live : InHand(s, n) => Settled(s, n) \/ InHand(s, n)'
  BY <1>3 DEF InHand
<1> QED
  BY <1>1, <1>2, <1>3, <1>4, <1>5, SteadyCall

(* A search that does not drain, and get_status, take nothing in hand.       *)
LEMMA SearchStarts ==
    ASSUME IndexInv, NEW s \in Sessions, SearchRefused(s) \/ SearchOnly(s) \/ Status(s)
    PROVE  Kept
<1>1. /\ tool[s].step = "none"
      /\ UNCHANGED replay \/ CatchUp(s, {})
      /\ UNCHANGED <<held, events, graph, ready, failed, bg>>
      /\ \/ UNCHANGED tool
         \/ Call(s, [NoCall EXCEPT !.step = "query"])
  BY DEF SearchRefused, SearchOnly, Status
<1>2. \E o : Serves(s, o, {}, 0)
  BY ChecksRun, ReadsRun DEF SearchRefused, SearchOnly, Status
<1>3. /\ tool[s] \in Calls /\ [NoCall EXCEPT !.step = "query"] \in Calls
      /\ [NoCall EXCEPT !.step = "query"].step = "query"
  BY NoCallIs DEF IndexInv, TypeOK, Calls
<1> QED
  BY <1>1, <1>2, <1>3, PlainCall

(* A search ends when its drain is done.                                     *)
LEMMA QueryKeeps == ASSUME IndexInv, NEW s \in Sessions, Query(s) PROVE Kept
<1>1. /\ CatchUp(s, {}) /\ Call(s, NoCall)
      /\ UNCHANGED <<held, events, graph, ready, failed, bg>>
      /\ tool[s].step = "query" \/ (tool[s].step = "drain" /\ tool[s].rest = {})
  BY DEF Query
<1>2. \E o : Serves(s, o, {}, 0)
  BY ReadsRun DEF Query
<1>3. tool[s].step \in {"write", "drain"} => tool[s].now \cup tool[s].rest = {}
  BY <1>1 DEF IndexInv, SessionOK, CallOK
<1> QED
  BY <1>1, <1>2, <1>3, NoCallIs, PlainCall

(* A new text is for a write, if the model is there.                         *)
LEMMA OwnWriteIs ==
    ASSUME TypeOK, NEW s \in Sessions, NEW n \in Nodes, NEW v \in Texts, v # 0, OwnWrite(s, n, v)
    PROVE  \E c \in Calls :
              /\ Call(s, c)
              /\ c.step \in {"none", "write"} /\ c.text \in {0, v} /\ c.rest = {}
              /\ c.step = "write" => c.text # 0
<1> DEFINE c == IF s \in ready THEN [NoCall EXCEPT !.step = "write", !.now = {n}, !.text = v]
                ELSE NoCall
<1>1. c \in Calls
  BY NoCallIs DEF Calls
<1>2. /\ c.step \in {"none", "write"} /\ c.text \in {0, v} /\ c.rest = {}
      /\ c.step = "write" => c.text # 0
  BY DEF NoCall
<1> QED
  BY <1>1, <1>2 DEF OwnWrite

(* An edit replaces a vector, it removes none.                               *)
LEMMA EditKeeps ==
    ASSUME IndexInv, NEW s \in Sessions, NEW n \in Nodes, Edit(s, n)
    PROVE  Kept
<1>1. /\ tool[s].step = "none" /\ n \in Live /\ ver[n] < MaxVer
      /\ ver' = [ver EXCEPT ![n] = @ + 1] /\ removed' = removed
      /\ CatchUp(s, {}) /\ OwnWrite(s, n, ver[n] + 1) /\ NoStoreCall
      /\ UNCHANGED <<held, ready, failed, bg>> /\ events' \in [Events -> Nat]
  BY HappensIs DEF Edit, Events, IndexInv
<1>2. ver[n] + 1 \in Texts /\ ver[n] + 1 # 0 /\ ver' \in [Nodes -> Texts]
  BY <1>1, StoreAssumption DEF Texts, IndexInv, TypeOK, Live
<1>3. PICK c \in Calls : /\ Call(s, c)
                         /\ c.step \in {"none", "write"} /\ c.rest = {}
                         /\ c.step = "write" => c.text # 0
  BY <1>1, <1>2, OwnWriteIs DEF IndexInv
<1>4. CallOK(s)'
  BY <1>3, CallIs DEF CallOK, IndexInv
<1>5. /\ queue' \in [Sessions -> SUBSET Nodes] /\ unseen' \in [Sessions -> SUBSET Nodes]
      /\ queue'[s] = queue[s] \cup unseen[s]
      /\ \A r \in Sessions \ {s} : queue'[r] = queue[r] /\ unseen'[r] = unseen[r]
  BY <1>1, CatchUpIs DEF IndexInv
<1>6. Shrinks /\ removed' \subseteq Nodes
  BY <1>1 DEF Shrinks, Live, IndexInv, TypeOK
<1>7. \A m \in Live : InHand(s, m) => InHand(s, m)'
  BY <1>1, <1>5 DEF InHand
<1> QED
  BY <1>1, <1>2, <1>3, <1>4, <1>5, <1>6, <1>7, NoStoreServes, SteadyCall

(* A node that is deleted is owed to nobody.                                 *)
LEMMA DeleteKeeps ==
    ASSUME IndexInv, NEW s \in Sessions, NEW n \in Nodes, Delete(s, n)
    PROVE  Kept
<1> DEFINE c == [NoCall EXCEPT !.step = "purge", !.now = {n}]
<1>1. /\ tool[s].step = "none" /\ removed' = removed \cup {n} /\ ver' = ver
      /\ CatchUp(s, {}) /\ Call(s, c) /\ NoStoreCall
      /\ UNCHANGED <<held, ready, failed, bg>> /\ events' = events
  BY DEF Delete
<1>2. c \in Calls /\ c.step = "purge" /\ c.now = {n}
  BY NoCallIs DEF Calls
<1> HIDE DEF c
<1>3. CallOK(s)'
  BY <1>1, <1>2, CallIs DEF CallOK, IndexInv
<1>4. /\ queue' \in [Sessions -> SUBSET Nodes] /\ unseen' \in [Sessions -> SUBSET Nodes]
      /\ queue'[s] = queue[s] \cup unseen[s]
      /\ \A r \in Sessions \ {s} : queue'[r] = queue[r] /\ unseen'[r] = unseen[r]
  BY <1>1, CatchUpIs DEF IndexInv
<1>5. /\ Shrinks /\ removed' \subseteq Nodes /\ ver' \in [Nodes -> Texts]
      /\ events' \in [Events -> Nat]
  BY <1>1 DEF Shrinks, Live, IndexInv, TypeOK
<1>6. \A m \in Live : InHand(s, m) => InHand(s, m)'
  BY <1>1, <1>4 DEF InHand
<1> QED
  BY <1>1, <1>2, <1>3, <1>4, <1>5, <1>6, NoStoreServes, SteadyCall

(* A node that is recorded is new to every session that runs, and in the     *)
(* queue of its own.                                                        *)
LEMMA RecordKeeps ==
    ASSUME IndexInv, NEW s \in Sessions, NEW n \in Nodes, Record(s, n)
    PROVE  Kept
<1>1. /\ tool[s].step = "none"
      /\ ver' = [ver EXCEPT ![n] = 1] /\ removed' = removed
      /\ OwnWrite(s, n, 1) /\ NoStoreCall
      /\ UNCHANGED <<held, ready, failed, bg>> /\ events' \in [Events -> Nat]
  BY HappensIs DEF Record, Events, IndexInv
<1>2. /\ queue' \in [Sessions -> SUBSET Nodes] /\ unseen' \in [Sessions -> SUBSET Nodes]
      /\ queue'[s] = queue[s] \cup unseen[s] \cup {n}
      /\ \A t \in Sessions \ {s} :
            /\ queue'[t] = queue[t]
            /\ Running(t) => unseen'[t] = unseen[t] \cup {n}
  BY DEF Record, IndexInv, TypeOK
<1>3. 1 \in Texts /\ ver' \in [Nodes -> Texts] /\ Live' \subseteq Live \cup {n}
  BY <1>1, StoreAssumption DEF Texts, IndexInv, TypeOK, Live
<1>4. PICK c \in Calls : /\ Call(s, c)
                         /\ c.step \in {"none", "write"} /\ c.rest = {}
                         /\ c.step = "write" => c.text # 0
  BY <1>1, <1>3, OwnWriteIs DEF IndexInv
<1>5. /\ tool' \in [Sessions -> Calls] /\ tool'[s] = c
      /\ \A t \in Sessions \ {s} : tool'[t] = tool[t]
  BY <1>4, CallIs DEF IndexInv
<1>6. /\ disk' = disk /\ handle' = handle /\ resync' = resync /\ bg' = bg
      /\ TypeOK' /\ DiskOK(disk)'
  BY <1>1, <1>2, <1>3, <1>5 DEF NoStoreCall, IndexInv, TypeOK
<1>7. ASSUME NEW t \in Sessions PROVE SessionOK(t)'
  <2>1. /\ HandleOK(disk, handle[t])' /\ PassOK(t)' /\ ClosedIsDue(t)'
    BY <1>6 DEF IndexInv, SessionOK, PassOK, Todo, ClosedIsDue, Due, Starting, Listening
  <2>2. CallOK(t)'
    BY <1>1, <1>4, <1>5 DEF IndexInv, SessionOK, CallOK
  <2>3. ASSUME Listening(t)', NEW m \in Live' 
         PROVE  Indexed(m)' \/ Owes(t, m)' \/ m \in failed'[t]
    <3>1. Listening(t) /\ Running(t)
      BY <1>6, <2>3 DEF Listening, Running
    <3>2. queue[t] \cup unseen[t] \cup {n} \subseteq queue'[t] \cup unseen'[t]
      BY <1>2, <3>1
    <3>3. CASE m = n
      BY <3>2, <3>3 DEF Owes
    <3>4. CASE m # n
      <4>1. m \in Live /\ (Indexed(m) \/ Owes(t, m) \/ m \in failed[t])
        BY <1>3, <3>1, <3>4 DEF IndexInv, SessionOK, OwesMissing
      <4>2. tool[t].step \in {"write", "drain"} => tool'[t] = tool[t]
        BY <1>1, <1>5
      <4> QED
        BY <1>1, <1>6, <3>1, <3>2, <4>1, <4>2 DEF Owes, Indexed, Todo, Listening
    <3> QED
      BY <3>3, <3>4
  <2> QED
    BY <2>1, <2>2, <2>3 DEF SessionOK, OwesMissing
<1> QED
  <2>1. DiskStep
    BY <1>6, ActiveExists DEF DiskStep, Advances, Indexed, Generations
  <2> QED
    BY <1>6, <1>7, <2>1 DEF Kept, IndexInv

(* What is purged has left the graph.                                        *)
LEMMA PurgeKeeps == ASSUME IndexInv, NEW s \in Sessions, Purge(s) PROVE Kept
<1> DEFINE ns == IF tool[s].step = "purge" THEN tool[s].now ELSE {}
           c == IF tool[s].step = "purge" THEN [tool[s] EXCEPT !.step = "chunks"] ELSE NoCall
<1>1. /\ UNCHANGED <<held, events, graph, ready, failed, replay, bg>> /\ Call(s, c)
      /\ tool[s].step \in {"purge", "chunks"}
  BY DEF Purge
<1>2. tool[s] \in Calls /\ tool[s].now \subseteq removed /\ 0 \in Texts /\ ns \cap Live = {}
  BY <1>1, StoreAssumption DEF IndexInv, TypeOK, SessionOK, CallOK, Live, Texts
<1>3. PICK o \in Writes(s, ns, 0) : Took(s, o)
  BY DEF Purge
<1>4. Serves(s, o, ns, 0)
  BY <1>2, <1>3, WritesRun
<1>5. c \in Calls /\ c.step \in {"none", "chunks"} /\ (c.step = "chunks" => c.now = tool[s].now)
  BY <1>2, NoCallIs DEF Calls
<1> HIDE DEF c, ns
<1>6. CallOK(s)'
  BY <1>1, <1>2, <1>5, CallIs DEF CallOK, IndexInv, graph
<1>7. /\ Shrinks /\ removed' \subseteq Nodes /\ ver' \in [Nodes -> Texts]
      /\ events' \in [Events -> Nat] /\ queue' = queue /\ unseen' = unseen
      /\ queue \in [Sessions -> SUBSET Nodes] /\ unseen \in [Sessions -> SUBSET Nodes]
  BY <1>1 DEF Shrinks, Live, IndexInv, TypeOK, graph, replay
<1>8. \A m \in Live : InHand(s, m) => InHand(s, m)'
  BY <1>1, <1>7 DEF InHand
<1> QED
  BY <1>1, <1>4, <1>5, <1>6, <1>7, <1>8, SteadyCall

(* A write that fails is owed; of a drain, what was left goes back.          *)
LEMMA WriteKeeps == ASSUME IndexInv, NEW s \in Sessions, Write(s) PROVE Kept
<1> DEFINE after == [tool[s] EXCEPT !.step = "drain", !.now = {}, !.text = 0]
           query == [NoCall EXCEPT !.step = "query"]
<1>1. /\ UNCHANGED <<held, events, graph, ready, unseen, bg>> /\ tool[s].step = "write"
  BY DEF Write
<1>2. /\ tool[s] \in Calls /\ tool[s].text \in Texts /\ tool[s].text # 0
      /\ tool[s].replayed \/ tool[s].rest = {}
      /\ 0 \in Texts
  BY <1>1, NoCallIs DEF IndexInv, TypeOK, SessionOK, CallOK, Calls, NoCall
<1>3. PICK o \in Writes(s, tool[s].now, tool[s].text) :
         /\ Took(s, o)
         /\ ComesBack(s, IF o.ok THEN tool[s].now ELSE {})
         /\ \/ ~ tool[s].replayed /\ Call(s, NoCall) /\ queue' = queue
            \/ tool[s].replayed /\ o.ok /\ Call(s, after) /\ queue' = queue
            \/ /\ ~ o.ok /\ Call(s, query)
               /\ queue' = [queue EXCEPT ![s] = @ \cup tool[s].now \cup tool[s].rest]
  BY DEF Write
<1>4. /\ Ran(disk, handle[s], o, TRUE, tool[s].now, tool[s].text)
      /\ Serves(s, o, tool[s].now, tool[s].text)
  BY <1>2, <1>3, WritesRun
<1>5. \A n \in tool[s].now \cap Live : Settled(s, n)
  <2>1. disk' = o.disk /\ handle'[s] = o.handle
    BY <1>4, ServedStep
  <2>2. CASE o.ok
    BY <1>2, <1>4, <2>1, <2>2 DEF Ran, Settled, Indexed, Live
  <2>3. CASE ~ o.ok
    BY <1>4, <2>1, <2>3 DEF Ran, Settled, Due
  <2> QED
    BY <2>2, <2>3, <1>4 DEF Ran
<1>6. /\ after \in Calls /\ after.step = "drain" /\ after.now = {}
      /\ after.rest = tool[s].rest /\ (after.replayed <=> tool[s].replayed)
      /\ query \in Calls /\ query.step = "query"
      /\ NoCall \in Calls /\ NoCall.step = "none"
  BY <1>2, NoCallIs DEF Calls
<1> HIDE DEF after, query
<1>7. /\ Shrinks /\ removed' \subseteq Nodes /\ ver' \in [Nodes -> Texts]
      /\ events' \in [Events -> Nat] /\ unseen' = unseen
      /\ queue \in [Sessions -> SUBSET Nodes] /\ unseen \in [Sessions -> SUBSET Nodes]
      /\ queue' \in [Sessions -> SUBSET Nodes]
      /\ \A r \in Sessions \ {s} : queue'[r] = queue[r]
      /\ queue[s] \subseteq queue'[s]
  BY <1>1, <1>2, <1>3 DEF Shrinks, Live, IndexInv, TypeOK, graph, Calls
<1>12. /\ Tries(s)
       /\ \A n \in failed[s] \cap Live : Settled(s, n) \/ n \in failed'[s]
  <2>1. tool[s].now \in SUBSET Nodes
    BY <1>2 DEF Calls
  <2>2. Tries(s)
    BY <1>3, <2>1 DEF Tries
  <2>3. failed[s] \ tool[s].now \subseteq failed'[s]
    BY <1>3 DEF ComesBack, IndexInv, TypeOK
  <2> QED
    BY <1>5, <2>2, <2>3
<1>8. ASSUME NEW c \in Calls, Call(s, c), CallOK(s)',
             \A n \in tool[s].rest \cap Live : InHand(s, n)'
      PROVE  Kept
  <2>1. \A n \in Live : InHand(s, n) => Settled(s, n) \/ InHand(s, n)'
    BY <1>1, <1>5, <1>7, <1>8 DEF InHand
  <2> QED
    BY <1>1, <1>4, <1>7, <1>8, <1>12, <2>1, CallStep
<1>9. CASE ~ tool[s].replayed /\ Call(s, NoCall)
  <2>1. tool'[s] = NoCall
    BY <1>6, <1>9, CallIs DEF IndexInv
  <2> QED
    BY <1>2, <1>6, <1>8, <1>9, <2>1 DEF CallOK
<1>10. CASE tool[s].replayed /\ Call(s, after)
  <2>1. tool'[s] = after
    BY <1>6, <1>10, CallIs DEF IndexInv
  <2> QED
    BY <1>6, <1>8, <1>10, <2>1 DEF CallOK, InHand
<1>11. CASE /\ Call(s, query)
            /\ queue' = [queue EXCEPT ![s] = @ \cup tool[s].now \cup tool[s].rest]
  <2>1. tool'[s] = query /\ tool[s].rest \subseteq queue'[s]
    BY <1>6, <1>7, <1>11, CallIs DEF IndexInv
  <2> QED
    BY <1>6, <1>8, <1>11, <2>1 DEF CallOK, InHand
<1> QED
  BY <1>3, <1>9, <1>10, <1>11

(* A node of a drain is left to nobody else, the session's own may still be  *)
(* in its queue.                                                            *)
LEMMA WriteFailsKeeps == ASSUME IndexInv, NEW s \in Sessions, WriteFails(s) PROVE Kept
<1> DEFINE c == IF tool[s].replayed
                THEN [tool[s] EXCEPT !.step = "drain", !.now = {}, !.text = 0]
                ELSE NoCall
           gone == tool[s].now \ queue[s]
<1>1. /\ UNCHANGED <<held, graph, ready, replay, bg>> /\ NoStoreCall
      /\ tool[s].step = "write" /\ Call(s, c) /\ Fails(s, gone)
      /\ events' \in [Events -> Nat]
  BY HappensIs DEF WriteFails, NoStoreCall, Events, IndexInv
<1>2. /\ tool[s] \in Calls /\ tool[s].now \in SUBSET Nodes /\ 0 \in Texts
      /\ tool[s].replayed \/ tool[s].rest = {}
  BY <1>1, NoCallIs DEF IndexInv, TypeOK, SessionOK, CallOK, Calls, NoCall
<1>3. /\ c \in Calls
      /\ tool[s].replayed => /\ c.step = "drain" /\ c.now = {} /\ c.replayed
                             /\ c.rest = tool[s].rest
      /\ ~ tool[s].replayed => c.step = "none"
  BY <1>2, NoCallIs DEF Calls
<1> HIDE DEF c
<1>4. tool'[s] = c
  BY <1>1, <1>3, CallIs DEF IndexInv
<1>5. CallOK(s)'
  BY <1>3, <1>4 DEF CallOK
<1>6. /\ Shrinks /\ removed' \subseteq Nodes /\ ver' \in [Nodes -> Texts]
      /\ queue' = queue /\ unseen' = unseen
      /\ queue \in [Sessions -> SUBSET Nodes] /\ unseen \in [Sessions -> SUBSET Nodes]
  BY <1>1 DEF Shrinks, Live, IndexInv, TypeOK, graph, replay
<1>7. Tries(s) /\ failed[s] \cup gone \subseteq failed'[s]
  BY <1>1, <1>2 DEF Tries, Fails, IndexInv, TypeOK
<1>8. \A n \in Live : InHand(s, n) => InHand(s, n)' \/ n \in failed'[s]
  BY <1>1, <1>2, <1>3, <1>4, <1>6, <1>7 DEF InHand
<1> QED
  BY <1>1, <1>3, <1>5, <1>6, <1>7, <1>8, NoStoreServes, CallStep

(* A drain takes over what has no vector yet, and asks for a pass when that is *)
(* more than it may embed itself (_reembed_replayed_nodes).                  *)
LEMMA SearchDrainsKeeps ==
    ASSUME IndexInv, NEW s \in Sessions, SearchDrains(s) PROVE Kept
<1> DEFINE query == [NoCall EXCEPT !.step = "query"]
           drain(rest) == [NoCall EXCEPT !.step = "drain", !.rest = rest, !.replayed = TRUE]
<1>1. /\ UNCHANGED <<held, events, graph, ready, failed, unseen, bg>> /\ tool[s].step = "none"
  BY DEF SearchDrains
<1>2. PICK o \in Reads(s) :
        LET missing == {n \in queue[s] : o.disk.rows[o.handle.gen][n] = 0}
        IN  \/ Took(s, o) /\ Call(s, query) /\ queue' = queue
            \/ /\ o.ok /\ Took(s, o)
               /\ Call(s, drain(missing))
               /\ queue' = [queue EXCEPT ![s] = {}]
            \/ /\ Took(s, [o EXCEPT !.ask = TRUE])
               /\ \E now \in SUBSET missing :
                     Call(s, drain(now)) /\ queue' = [queue EXCEPT ![s] = missing \ now]
  BY DEF SearchDrains
<1>3. /\ queue[s] \in SUBSET Nodes
      /\ query \in Calls /\ query.step = "query"
      /\ \A rest \in SUBSET Nodes :
            /\ drain(rest) \in Calls /\ drain(rest).step = "drain" /\ drain(rest).now = {}
            /\ drain(rest).rest = rest /\ drain(rest).replayed
  BY NoCallIs DEF NoCall, Calls, IndexInv, TypeOK
<1> DEFINE missing == {n \in queue[s] : o.disk.rows[o.handle.gen][n] = 0}
<1> HIDE DEF query, drain
<1>4. /\ Shrinks /\ removed' \subseteq Nodes /\ ver' \in [Nodes -> Texts]
      /\ events' \in [Events -> Nat] /\ unseen' = unseen
      /\ unseen \in [Sessions -> SUBSET Nodes]
      /\ UNCHANGED <<held, ready, failed, bg>>
  BY <1>1 DEF Shrinks, Live, IndexInv, TypeOK, graph
<1>5. CASE Took(s, o) /\ Call(s, query) /\ queue' = queue
  <2>1. Serves(s, o, {}, 0)
    BY <1>5, ReadsRun
  <2> QED
    BY <1>1, <1>3, <1>5, <2>1, PlainCall DEF replay
<1>6. CASE /\ o.ok /\ Took(s, o) /\ Call(s, drain(missing))
           /\ queue' = [queue EXCEPT ![s] = {}]
  <2>1. Serves(s, o, {}, 0) /\ disk' = o.disk /\ handle'[s] = o.handle
    BY <1>6, ReadsRun, ServedStep
  <2>2. /\ missing \in SUBSET Nodes /\ drain(missing) \in Calls
        /\ tool'[s] = drain(missing)
        /\ queue' \in [Sessions -> SUBSET Nodes] /\ queue'[s] = {}
        /\ \A r \in Sessions \ {s} : queue'[r] = queue[r]
    BY <1>3, <1>6, CallIs DEF IndexInv, TypeOK
  <2> HIDE DEF missing
  <2>3. CallOK(s)'
    BY <1>3, <2>2 DEF CallOK
  <2>4. \A n \in Live : InHand(s, n) => Settled(s, n) \/ InHand(s, n)'
    <3> SUFFICES ASSUME NEW n \in Live, n \in queue[s]
                 PROVE  Settled(s, n) \/ n \in missing
      BY <1>1, <1>3, <1>4, <2>2 DEF InHand
    <3> QED
      BY <2>1 DEF Settled, Indexed, missing
  <2> QED
    BY <1>4, <1>6, <2>1, <2>2, <2>3, <2>4, SteadyCall
<1>7. CASE /\ Took(s, [o EXCEPT !.ask = TRUE])
           /\ \E now \in SUBSET missing :
                 Call(s, drain(now)) /\ queue' = [queue EXCEPT ![s] = missing \ now]
  <2> DEFINE p == [o EXCEPT !.ask = TRUE]
  <2>1. Left(disk, handle[s], p, {}, 0) /\ p.ask
    BY ReadsRun, OwingLeaves
  <2>2. Serves(s, p, {}, 0)
    BY <1>7, <2>1, ReadsRun DEF Serves
  <2> HIDE DEF p
  <2>3. Due(s)'
    BY <2>1, <2>2, ServedStep
  <2>4. PICK now \in SUBSET missing :
           Call(s, drain(now)) /\ queue' = [queue EXCEPT ![s] = missing \ now]
    BY <1>7
  <2>5. /\ drain(now) \in Calls /\ tool'[s] = drain(now)
        /\ queue' \in [Sessions -> SUBSET Nodes]
        /\ \A r \in Sessions \ {s} : queue'[r] = queue[r]
    BY <1>3, <2>4, CallIs DEF IndexInv, TypeOK
  <2>6. CallOK(s)'
    BY <1>3, <2>4, <2>5 DEF CallOK
  <2> QED
    BY <1>4, <2>2, <2>3, <2>4, <2>5, <2>6, SteadyCall DEF Settled
<1> QED
  BY <1>2, <1>5, <1>6, <1>7

(* A node of a drain that has left the graph is not embedded.                *)
LEMMA DrainNextKeeps == ASSUME IndexInv, NEW s \in Sessions, DrainNext(s) PROVE Kept
<1>1. /\ UNCHANGED <<held, events, graph, ready, failed, bg>> /\ tool[s].step = "drain"
      /\ CatchUp(s, {}) /\ NoStoreCall
  BY DEF DrainNext
<1>2. PICK n \in tool[s].rest :
         Call(s, IF n \in Live
                 THEN [tool[s] EXCEPT !.step = "write", !.now = {n}, !.text = ver[n],
                                      !.rest = @ \ {n}]
                 ELSE [tool[s] EXCEPT !.rest = @ \ {n}])
  BY DEF DrainNext
<1> DEFINE c == IF n \in Live
                THEN [tool[s] EXCEPT !.step = "write", !.now = {n}, !.text = ver[n],
                                     !.rest = @ \ {n}]
                ELSE [tool[s] EXCEPT !.rest = @ \ {n}]
<1>3. /\ tool[s] \in Calls /\ n \in Nodes /\ ver[n] \in Texts
      /\ tool[s].replayed /\ tool[s].now = {}
      /\ n \in Live => ver[n] # 0
  BY <1>1 DEF IndexInv, TypeOK, SessionOK, CallOK, Calls, Live, Texts
<1>4. /\ c \in Calls /\ c.replayed /\ c.rest = tool[s].rest \ {n}
      /\ n \in Live => c.step = "write" /\ c.now = {n} /\ c.text # 0
      /\ n \notin Live => c.step = "drain" /\ c.now = {}
  BY <1>1, <1>3 DEF Calls
<1>5. Call(s, c)
  BY <1>2
<1> HIDE DEF c
<1>6. tool'[s] = c
  BY <1>4, <1>5, CallIs DEF IndexInv
<1>7. CallOK(s)'
  BY <1>4, <1>6 DEF CallOK
<1>8. /\ queue' \in [Sessions -> SUBSET Nodes] /\ unseen' \in [Sessions -> SUBSET Nodes]
      /\ queue'[s] = queue[s] \cup unseen[s]
      /\ \A r \in Sessions \ {s} : queue'[r] = queue[r] /\ unseen'[r] = unseen[r]
  BY <1>1, CatchUpIs DEF IndexInv
<1>9. /\ Shrinks /\ removed' \subseteq Nodes /\ ver' \in [Nodes -> Texts]
      /\ events' \in [Events -> Nat]
  BY <1>1 DEF Shrinks, Live, IndexInv, TypeOK, graph
<1>10. \A m \in Live : InHand(s, m) => InHand(s, m)'
  BY <1>3, <1>4, <1>6, <1>8 DEF InHand
<1> QED
  BY <1>1, <1>4, <1>5, <1>7, <1>8, <1>9, <1>10, NoStoreServes, SteadyCall

-----------------------------------------------------------------------------
(* The surroundings.                                                        *)

(* A session that has ended owes nothing any more.                           *)
LEMMA ExitKeeps == ASSUME IndexInv, NEW s \in Sessions, Exit(s) PROVE Kept
<1>1. /\ bg' \in [Sessions -> Threads] /\ bg'[s].step = "off"
      /\ \A t \in Sessions \ {s} : bg'[t] = bg[t]
  BY AtIs, ThreadIs DEF Exit, IndexInv
<1>2. /\ tool' \in [Sessions -> Calls] /\ tool'[s] = NoCall
      /\ \A t \in Sessions \ {s} : tool'[t] = tool[t]
  BY NoCallIs, CallIs DEF Exit, IndexInv
<1>3. /\ handle' \in [Sessions -> Handles] /\ handle'[s] = NewHandle /\ disk' = disk
      /\ HandleOK(disk', handle'[s])
  BY StoreAssumption, ActiveExists DEF Exit, NewHandle, Handles, HandleOK, Generations, IndexInv, TypeOK
<1>4. TypeOK'
  BY <1>1, <1>2, <1>3, HappensIs DEF Exit, IndexInv, TypeOK, Events, graph
<1>5. Shrinks /\ \A t \in Sessions \ {s} : Aside(t)
  BY <1>1, <1>2 DEF Exit, Shrinks, Aside, Live, graph, IndexInv, TypeOK
<1>6. DiskStep
  BY <1>3, ActiveExists DEF DiskStep, Advances, Indexed, Generations, IndexInv
<1>7. SessionOK(s)'
  BY <1>1, <1>2, <1>3, NoCallIs
  DEF SessionOK, CallOK, PassOK, ClosedIsDue, OwesMissing, Listening
<1> QED
  BY <1>4, <1>5, <1>6, <1>7, OneSession

(* A timer that runs out, another program that takes the file or lets go of   *)
(* it, and damage change neither the rows nor what a session is asked for.   *)
LEMMA SurroundingsKeep ==
    ASSUME IndexInv, Hold \/ Release \/ Damage \/ \E s \in Sessions, x \in Timers : Elapse(s, x)
    PROVE  Kept
<1>1. /\ graph' = graph /\ resync' = resync /\ ready' = ready /\ failed' = failed /\ replay' = replay
      /\ bg' = bg /\ tool' = tool /\ held' \in BOOLEAN
      /\ events' \in [Events -> Nat]
      /\ disk' = disk \/ Damage
      /\ handle' \in [Sessions -> Handles]
      /\ \A t \in Sessions : /\ handle'[t].gen = handle[t].gen
                             /\ (handle'[t].open <=> handle[t].open)
                             /\ (handle'[t].pending <=> handle[t].pending)
  <2>1. CASE Hold \/ Release \/ Damage
    BY <2>1, HappensIs DEF Hold, Release, Damage, graph, replay, IndexInv, TypeOK, Events
  <2>2. CASE \E s \in Sessions, x \in Timers : Elapse(s, x)
    <3>1. PICK s \in Sessions, x \in Timers : Elapse(s, x)
      BY <2>2
    <3>2. /\ handle' \in [Sessions -> Handles]
          /\ \A t \in Sessions : /\ handle'[t].gen = handle[t].gen
                                 /\ (handle'[t].open <=> handle[t].open)
                                 /\ (handle'[t].pending <=> handle[t].pending)
      BY <3>1 DEF Elapse, Handles, IndexInv, TypeOK
    <3>3. /\ graph' = graph /\ resync' = resync /\ ready' = ready /\ failed' = failed /\ replay' = replay
          /\ bg' = bg /\ tool' = tool /\ held' \in BOOLEAN
          /\ events' \in [Events -> Nat] /\ disk' = disk
      BY <3>1 DEF Elapse, env, IndexInv, TypeOK
    <3> QED
      BY <3>2, <3>3
  <2> QED
    BY <2>1, <2>2
<1>2. DiskOK(disk) /\ disk \in Disks
  BY DEF IndexInv, DiskOK
<1>3. /\ DiskOK(disk') /\ disk'.rows = disk.rows /\ Active(disk') = Active(disk)
  <2>1. CASE Damage
    <3>1. /\ disk' = [disk EXCEPT !.damaged = @ \cup {disk.top}] /\ disk.top < MaxGen
      BY <2>1 DEF Damage
    <3>2. /\ disk' \in Disks /\ disk'.rows = disk.rows /\ disk'.top = disk.top
          /\ disk'.marked = disk.marked /\ disk'.damaged = disk.damaged \cup {disk.top}
      BY <1>2, <3>1 DEF Disks
    <3>3. DiskOK(disk')
      BY <1>2, <3>1, <3>2, ActiveExists DEF DiskOK
    <3> QED
      BY <3>2, <3>3 DEF Active
  <2>2. CASE disk' = disk
    BY <1>2, <2>2
  <2> QED
    BY <1>1, <2>1, <2>2
<1>4. TypeOK'
  BY <1>1, <1>3, ActiveExists DEF IndexInv, TypeOK, DiskOK, graph, replay
<1>5. ASSUME NEW t \in Sessions PROVE SessionOK(t)'
  <2>1. HandleOK(disk', handle'[t])
    BY <1>1, <1>3 DEF IndexInv, SessionOK, HandleOK
  <2>2. CallOK(t)' /\ PassOK(t)' /\ ClosedIsDue(t)'
    BY <1>1 DEF IndexInv, SessionOK, CallOK, PassOK, Todo, ClosedIsDue, Due, Starting,
       Listening, graph
  <2>3. OwesMissing(t)'
    BY <1>1, <1>3 DEF IndexInv, SessionOK, OwesMissing, Owes, Live, Indexed, Todo,
       Listening, graph, replay
  <2> QED
    BY <2>1, <2>2, <2>3 DEF SessionOK
<1>6. DiskStep
  BY <1>2, <1>3, ActiveExists DEF DiskStep, Advances, Indexed, Generations
<1> QED
  BY <1>3, <1>4, <1>5, <1>6 DEF Kept, IndexInv

-----------------------------------------------------------------------------
(* The theorems.                                                            *)

(* In the beginning nothing is recorded and no session runs.                 *)
LEMMA InitIndex == Init => IndexInv
<1> SUFFICES ASSUME Init PROVE IndexInv
  OBVIOUS
<1>1. /\ 1 \in Generations /\ 0 \in Texts
      /\ EmptyDisk \in Disks /\ EmptyDisk.top = 1 /\ EmptyDisk.marked = {}
      /\ EmptyDisk.damaged = {}
  BY StoreAssumption DEF EmptyDisk, Disks, Generations, Texts
<1>2. DiskOK(disk) /\ Active(disk) = 1
  BY <1>1 DEF Init, DiskOK, Active
<1>3. NewHandle \in Handles /\ NewHandle.gen = 1
  BY <1>1 DEF NewHandle, Handles
<1>4. TypeOK
  BY <1>1, <1>2, <1>3, AtIs, NoCallIs DEF Init, TypeOK
<1>5. ASSUME NEW s \in Sessions PROVE SessionOK(s)
  BY <1>2, <1>3, AtIs, NoCallIs
  DEF Init, SessionOK, HandleOK, CallOK, PassOK, ClosedIsDue, OwesMissing, Listening
<1> QED
  BY <1>2, <1>4, <1>5 DEF IndexInv

(* Every step keeps the invariant and the vectors of live nodes.             *)
LEMMA NextIndex == IndexInv /\ [Next]_vars => Kept
<1> SUFFICES ASSUME IndexInv, [Next]_vars PROVE Kept
  OBVIOUS
<1>1. ASSUME NEW s \in Sessions, Background(s) PROVE Kept
  BY <1>1, CheckStoreKeeps, LoadingKeeps, SkipPassKeeps, BeginPassKeeps, RecheckKeeps,
     EmbedKeeps, ReadIdsKeeps, SweepKeeps DEF Background
<1>2. ASSUME NEW s \in Sessions, InCall(s) \/ Search(s) \/ Status(s) PROVE Kept
  BY <1>2, PurgeKeeps, WriteKeeps, DrainNextKeeps, QueryKeeps, SearchStarts, SearchDrainsKeeps
  DEF InCall, Search
<1>3. ASSUME NEW s \in Sessions,
             Start(s) \/ LoadFails(s) \/ Recover(s) \/ Exit(s)
      PROVE  Kept
  BY <1>3, StartKeeps, LoadingKeeps, ExitKeeps
<1>6. ASSUME NEW s \in Sessions, EmbedFails(s) \/ WriteFails(s) PROVE Kept
  BY <1>6, EmbedFailsKeeps, WriteFailsKeeps
<1>4. ASSUME NEW s \in Sessions, NEW n \in Nodes, Record(s, n) \/ Edit(s, n) \/ Delete(s, n)
      PROVE  Kept
  BY <1>4, RecordKeeps, EditKeeps, DeleteKeeps
<1>5. CASE UNCHANGED vars
  <2>1. IndexInv'
    BY <1>5 DEF vars, IndexInv, TypeOK, SessionOK, HandleOK, CallOK, PassOK, Todo, ClosedIsDue,
       Due, Starting, OwesMissing, Owes, Listening, Live, Indexed
  <2>2. DiskStep
    BY <1>5, ActiveExists DEF vars, DiskStep, Advances, Indexed, Generations, IndexInv
  <2> QED
    BY <2>1, <2>2 DEF Kept
<1> QED
  BY <1>1, <1>2, <1>3, <1>4, <1>5, <1>6, SurroundingsKeep DEF Next

(* The state of the index, of its handles and of what each session still has *)
(* to do about the nodes that are missing (vector_store.py, server.py).      *)
THEOREM IndexInvariant == Spec => []IndexInv
<1>1. IndexInv /\ [Next]_vars => IndexInv'
  BY NextIndex DEF Kept
<1> QED
  BY <1>1, InitIndex, PTL DEF Spec

(* A live node that search cannot find is forgotten only by a session whose   *)
(* own generator failed on it, whichever of the write, the pass or the file  *)
(* fails (_degraded, _check_generation, _sync_embeddings,                   *)
(* _reembed_replayed_nodes).                                                *)
THEOREM MissingStaysOwed == Spec => []MissingIsOwed
<1>1. IndexInv => MissingIsOwed
  BY DEF IndexInv, SessionOK, OwesMissing, MissingIsOwed
<1> QED
  BY <1>1, IndexInvariant, PTL

(* No step takes the vector of a live node out of the generation in use       *)
(* (_reconcile_orphan_embeddings, delete_cognition_node).                    *)
THEOREM VectorsStay == Spec => LiveVectorsStay
<1>1. IndexInv /\ [Next]_vars =>
         [\A n \in Live : Indexed(n) /\ Active(disk') = Active(disk) => Indexed(n)']_vars
  BY NextIndex DEF Kept, DiskStep
<1> QED
  BY <1>1, IndexInvariant, PTL DEF Spec, LiveVectorsStay

=============================================================================
