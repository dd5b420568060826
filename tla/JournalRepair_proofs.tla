------------------------ MODULE JournalRepair_proofs ------------------------
(***************************************************************************)
(* What JournalRepair promises for any number of sessions, lines and       *)
(* upsets: a lost line of the teammate's shard stays on the list of every  *)
(* session that still shows it, and sessions that repair the same loss     *)
(* never leave more copies of a line than there are sessions.              *)
(***************************************************************************)
EXTENDS JournalRepair, SequenceTheorems, FiniteSetTheorems, TLAPS

USE DEF Files

-----------------------------------------------------------------------------
(* Sequences of lines.                                                      *)

\* Appending adds the appended line to what a file holds (_append_journal).
LEMMA RangeAppend ==
  ASSUME NEW S, NEW s \in Seq(S), NEW l \in S
  PROVE  Append(s, l) \in Seq(S) /\ Range(Append(s, l)) = Range(s) \cup {l}
<1>1. DOMAIN s = 1 .. Len(s) /\ DOMAIN Append(s, l) = 1 .. Len(s) + 1
  BY AppendProperties, LenProperties
<1>2. /\ \A i \in 1 .. Len(s) : Append(s, l)[i] = s[i]
      /\ Append(s, l)[Len(s) + 1] = l
      /\ Append(s, l) \in Seq(S) /\ Len(s) \in Nat
  BY AppendProperties, LenProperties
<1>3. 1 .. Len(s) + 1 = 1 .. Len(s) \cup {Len(s) + 1}
  BY <1>2
<1> QED
  BY <1>1, <1>2, <1>3 DEF Range

\* What was cut off the end of a file leaves nothing new in it (a rollback).
LEMMA RangeCut ==
  ASSUME NEW S, NEW s \in Seq(S), NEW n \in 0 .. Len(s) - 1
  PROVE  SubSeq(s, 1, n) \in Seq(S) /\ Range(SubSeq(s, 1, n)) \subseteq Range(s)
<1>1. Len(s) \in Nat /\ DOMAIN s = 1 .. Len(s)
  BY LenProperties
<1>2. /\ SubSeq(s, 1, n) \in Seq(S) /\ Len(SubSeq(s, 1, n)) = n
      /\ \A i \in 1 .. n : SubSeq(s, 1, n)[i] = s[i]
  BY <1>1, SubSeqProperties
<1>3. DOMAIN SubSeq(s, 1, n) = 1 .. n
  BY <1>2, LenProperties
<1>4. ASSUME NEW i \in 1 .. n
      PROVE  SubSeq(s, 1, n)[i] \in {s[j] : j \in 1 .. Len(s)}
  BY <1>1, <1>2
<1> QED
  BY <1>1, <1>2, <1>3, <1>4 DEF Range

\* A merge puts one line into a file, wherever it lands (a pull).
LEMMA RangeInsert ==
  ASSUME NEW S, NEW s \in Seq(S), NEW i \in 1 .. Len(s) + 1, NEW l \in S
  PROVE  /\ InsertAt(s, i, l) \in Seq(S)
         /\ Range(InsertAt(s, i, l)) \subseteq Range(s) \cup {l}
<1> DEFINE a == SubSeq(s, 1, i - 1)
           b == SubSeq(s, i, Len(s))
<1>1. Len(s) \in Nat /\ DOMAIN s = 1 .. Len(s)
  BY LenProperties
<1>2. /\ a \in Seq(S) /\ Len(a) \in Nat /\ DOMAIN a = 1 .. Len(a)
      /\ \A j \in 1 .. Len(a) : a[j] \in Range(s)
  <2>1. a \in Seq(S) /\ Len(a) = i - 1 /\ \A j \in 1 .. i - 1 : a[j] = s[j]
    BY <1>1, SubSeqProperties
  <2> QED
    BY <2>1, <1>1, LenProperties DEF Range
<1>3. /\ b \in Seq(S) /\ Len(b) \in Nat /\ DOMAIN b = 1 .. Len(b)
      /\ \A j \in 1 .. Len(b) : b[j] \in Range(s)
  <2>1. /\ b \in Seq(S) /\ Len(b) = Len(s) + 1 - i
        /\ \A j \in 1 .. Len(s) + 1 - i : b[j] = s[i + j - 1]
    BY <1>1, SubSeqProperties
  <2> QED
    BY <2>1, <1>1, LenProperties DEF Range
<1>4. /\ a \o <<l>> \in Seq(S) /\ Len(a \o <<l>>) = Len(a) + 1
      /\ \A j \in 1 .. Len(a) + 1 : (a \o <<l>>)[j] \in Range(s) \cup {l}
  <2>1. <<l>> \in Seq(S) /\ Len(<<l>>) = 1 /\ <<l>>[1] = l
    OBVIOUS
  <2>2. ASSUME NEW j \in 1 .. Len(a) + 1
        PROVE  (a \o <<l>>)[j] = IF j <= Len(a) THEN a[j] ELSE l
    BY <2>1, <1>2, ConcatProperties
  <2> QED
    BY <2>1, <2>2, <1>2, ConcatProperties
<1>5. /\ InsertAt(s, i, l) \in Seq(S) /\ Len(InsertAt(s, i, l)) = Len(a) + 1 + Len(b)
      /\ \A j \in 1 .. Len(a) + 1 + Len(b) :
           InsertAt(s, i, l)[j] \in Range(s) \cup {l}
  <2>1. InsertAt(s, i, l) = (a \o <<l>>) \o b
    BY DEF InsertAt
  <2> HIDE DEF a, b
  <2>2. ASSUME NEW j \in 1 .. Len(a) + 1 + Len(b)
        PROVE  InsertAt(s, i, l)[j] = IF j <= Len(a) + 1 THEN (a \o <<l>>)[j]
                                                         ELSE b[j - (Len(a) + 1)]
    BY <2>1, <1>2, <1>3, <1>4, ConcatProperties
  <2> QED
    BY <2>1, <2>2, <1>2, <1>3, <1>4, ConcatProperties
<1>6. DOMAIN InsertAt(s, i, l) = 1 .. Len(InsertAt(s, i, l))
  BY <1>5, LenProperties
<1> QED
  BY <1>5, <1>6 DEF Range

-----------------------------------------------------------------------------
(* Types.                                                                   *)

\* A file's lines are its own person's: the teammate's shard holds no line of this
\* checkout, and the other way round.
Sorted(c) == Range(c["own"]) \subseteq OwnLine /\ Range(c["mate"]) \subseteq MateLine

Contents == {c \in [Files -> Seq(Lines)] : Sorted(c)}

\* The type invariant and the facts it needs.
Types ==
  /\ TypeOK
  /\ source.commit <= moves
  /\ Sorted(disk)
  /\ \A p \in Proc : Sorted(seen[p])

\* A listing is a map from some of the files to lines (_retained_missing).
LEMMA ListingIs ==
  /\ \A S \in SUBSET Files : \A g \in [S -> SUBSET Lines] : g \in Listings
  /\ \A g \in Listings : g \in [DOMAIN g -> SUBSET Lines] /\ DOMAIN g \subseteq Files
  /\ \A g \in Listings, f \in Files : Listed(g, f) \subseteq Lines
  /\ Nothing \in Listings
BY DEF Listings, Listed, Nothing

\* The new list of retained lines is a listing, and it is what was listed or lost and
\* is not back (_track_retained).
LEMMA TrackIs ==
  ASSUME NEW before \in Listings, NEW lost \in Listings, NEW stuck \in BOOLEAN,
         NEW now \in Contents
  PROVE  /\ Track(before, lost, stuck, now) \in Listings
         /\ Listed(Track(before, lost, stuck, now), "mate")
              = (Listed(before, "mate") \cup Listed(lost, "mate")) \ Range(now["mate"])
<1> DEFINE remaining ==
             [f \in Files |-> (Listed(before, f) \cup Listed(lost, f)) \ Range(now[f])]
           still == {f \in Files : remaining[f] # {}} \cup (IF stuck THEN {"own"} ELSE {})
           result == [f \in still |-> remaining[f]]
<1>1. Track(before, lost, stuck, now) = result
  BY DEF Track
<1>2. remaining \in [Files -> SUBSET Lines] /\ still \in SUBSET Files
  BY ListingIs
<1>3. result \in [still -> SUBSET Lines]
  BY <1>2
<1>4. result \in Listings
  BY <1>2, <1>3, ListingIs
<1>5. Listed(result, "mate") = remaining["mate"]
  BY DEF Listed
<1> QED
  BY <1>1, <1>4, <1>5

\* What a rebuild finds lost is a listing of the teammate's lines it no longer reads
\* (_files_that_lost_lines).
LEMMA LostLinesIs ==
  ASSUME Types, NEW p \in Proc
  PROVE  /\ LostLines(seen[p]) \in Listings
         /\ Listed(LostLines(seen[p]), "mate") = Range(seen[p]["mate"]) \ Range(disk["mate"])
<1> DEFINE missing == [f \in {"mate"} |-> Range(seen[p][f]) \ Range(disk[f])]
<1>1. missing \in [{"mate"} -> SUBSET Lines]
  BY DEF Types, Sorted, Lines
<1>2. missing \in Listings
  BY <1>1, ListingIs
<1>3. LostLines(seen[p]) = IF missing["mate"] = {} THEN Nothing ELSE missing
  BY DEF LostLines
<1> QED
  BY <1>2, <1>3, ListingIs DEF Listed, Nothing

\* What an untouched session and its files keep.
LEMMA StageIs ==
  /\ \A step \in Steps : At(step) \in Stages
  /\ \A g \in Stages : g.lost \in Listings
BY ListingIs DEF Stages, At

\* The bounds are numbers, so that counting up to them is.
LEMMA BoundsAreNumbers == MaxUpsets \in Nat /\ MaxMoves \in Nat /\ MaxReloads \in Nat
BY BoundAssumption

\* A session's stage and its files, one by one.
LEMMA SessionIs ==
  ASSUME TypeOK
  PROVE  /\ \A p \in Proc : stage[p] \in Stages
         /\ \A f \in Files : disk[f] \in Seq(Lines)
         /\ OwnLine \subseteq Lines /\ MateLine \subseteq Lines
BY DEF TypeOK, Lines

\* A checkout nobody used has types.
LEMMA InitTypes == Init => Types
<1> SUFFICES ASSUME Init PROVE Types
  OBVIOUS
<1>1. Unopened \in [Files -> Seq(Lines)] /\ Range(Unopened["own"]) = {} /\ Range(Unopened["mate"]) = {}
  BY EmptySeq DEF Unopened, Range
<1>2. At("off") \in Stages /\ <<>> \in Seq(Lines)
  BY StageIs, EmptySeq DEF Steps
<1>3. /\ stage \in [Proc -> Stages]
      /\ seen \in [Proc -> [Files -> Seq(Lines)]] /\ disk \in [Files -> Seq(Lines)]
      /\ \A f \in Files : disk[f] = <<>>
  BY <1>1, <1>2 DEF Init, Unopened
<1>4. /\ retained \in [Proc -> Listings] /\ notice \in Listings
      /\ reloads \in [Proc -> 0 .. MaxReloads] /\ upsets \in 0 .. MaxUpsets
      /\ moves \in 0 .. MaxMoves /\ source \in Sources
  BY ListingIs, BoundsAreNumbers DEF Init, Sources, Branches
<1>5. TypeOK
  BY <1>3, <1>4 DEF Init, TypeOK
<1> QED
  BY <1>1, <1>3, <1>5 DEF Init, Types, Sorted

\* Sessions starting, ending, writing and reloading keep the types.
LEMMA SessionTypes ==
  ASSUME Types, NEW p \in Proc
  PROVE  /\ Boot(p) => Types'
         /\ Quit(p) => Types'
         /\ AppendLine(p) => Types'
         /\ RecordLine(p) => Types'
         /\ Reload(p) => Types'
<1> USE DEF Types, files, vcs, machine
<1>0. Unopened \in [Files -> Seq(Lines)] /\ Sorted(Unopened)
  BY EmptySeq DEF Unopened, Range, Sorted
<1>1. ASSUME Boot(p) PROVE Types'
  <2>1. [At("scan") EXCEPT !.boot = TRUE] \in Stages
    BY StageIs DEF Stages, At, Steps
  <2> QED
    BY <1>1, <2>1 DEF Boot, TypeOK, Sorted
<1>2. ASSUME Quit(p) PROVE Types'
  <2>1. At("off") \in Stages
    BY StageIs DEF Steps
  <2>2. TypeOK'
    BY <1>2, <2>1, <1>0, ListingIs, BoundsAreNumbers DEF Quit, TypeOK
  <2> QED
    BY <1>2, <2>2, <1>0 DEF Quit, Sorted, TypeOK
<1>3. ASSUME AppendLine(p) PROVE Types'
  <2>1. PICK l \in OwnLine :
          /\ disk' = [disk EXCEPT !["own"] = Append(@, l)]
          /\ stage' = [stage EXCEPT ![p] = [At("record") EXCEPT !.line = {l}]]
    BY <1>3 DEF AppendLine
  <2>2. [At("record") EXCEPT !.line = {l}] \in Stages
    BY StageIs DEF Stages, At, Steps
  <2>3. Append(disk["own"], l) \in Seq(Lines)
        /\ Range(Append(disk["own"], l)) = Range(disk["own"]) \cup {l}
    BY RangeAppend, SessionIs
  <2>4. TypeOK'
    BY <1>3, <2>1, <2>2, <2>3 DEF AppendLine, TypeOK
  <2> QED
    BY <1>3, <2>1, <2>3, <2>4 DEF AppendLine, Sorted, TypeOK
<1>4. ASSUME RecordLine(p) PROVE Types'
  <2>1. At("idle") \in Stages /\ stage[p].line \subseteq OwnLine
    BY StageIs DEF Steps, TypeOK, Stages
  <2> QED
    BY <1>4, <2>1 DEF RecordLine, TypeOK, Sorted, Lines
<1>5. ASSUME Reload(p) PROVE Types'
  <2>1. At("scan") \in Stages
    BY StageIs DEF Steps
  <2>2. TypeOK'
    BY <1>5, <2>1, <1>0, BoundsAreNumbers DEF Reload, TypeOK
  <2> QED
    BY <1>5, <2>2, <1>0 DEF Reload, Sorted, TypeOK
<1> QED
  BY <1>1, <1>2, <1>3, <1>4, <1>5

\* A catch-up keeps the types.
LEMMA CatchUpTypes ==
  ASSUME Types, NEW p \in Proc
  PROVE  CatchUp(p) => Types'
<1> USE DEF Types, files, vcs, machine
<1>0. OnDisk \subseteq Lines
  BY DEF OnDisk, Sorted, Lines, TypeOK
<1>1. ASSUME Consume(p) PROVE Types'
  <2>1. [At("decide") EXCEPT !.boot = stage[p].boot] \in Stages /\ At("idle") \in Stages
    BY StageIs DEF Stages, At, Steps, TypeOK
  <2>2. Consumed(seen[p]) \in [Files -> Seq(Lines)] /\ Sorted(Consumed(seen[p]))
    BY DEF Consumed, Sorted, TypeOK
  <2>3. seen' \in [Proc -> [Files -> Seq(Lines)]] /\ \A r \in Proc : Sorted(seen'[r])
    BY <1>1, <2>2 DEF Consume, TypeOK
  <2>4. TypeOK'
    BY <1>1, <2>1, <2>3, <1>0 DEF Consume, TypeOK
  <2> QED
    BY <1>1, <2>3, <2>4 DEF Consume, Sorted
<1>2. ASSUME Rebuild(p) PROVE Types'
  <2>1. [At("decide") EXCEPT !.lost = LostLines(seen[p]), !.rebuilt = TRUE,
                             !.boot = stage[p].boot] \in Stages
    BY StageIs, LostLinesIs DEF Stages, At, Steps, TypeOK
  <2>2. TypeOK'
    BY <1>2, <2>1, <1>0 DEF Rebuild, TypeOK
  <2> QED
    BY <1>2, <2>2 DEF Rebuild, Sorted, TypeOK
<1>3. ASSUME Decide(p) PROVE Types'
  <2> DEFINE repairs == Repairable(p) /\ Missing(p) # {} /\ ~SourceMoved
             next == [stage[p] EXCEPT !.step = IF repairs /\ ~blocked THEN "heal" ELSE "flag",
                                      !.heal = IF repairs /\ ~blocked THEN Missing(p) ELSE {},
                                      !.stuck = repairs /\ blocked]
  <2>1. next \in Stages
    <3>1. Missing(p) \subseteq OwnLine
      BY DEF Missing, TypeOK
    <3>2. repairs \in BOOLEAN /\ (repairs /\ blocked) \in BOOLEAN
      OBVIOUS
    <3> HIDE DEF repairs
    <3> QED
      BY <3>1, <3>2, SessionIs DEF Stages, Steps
  <2>2. stage' = [stage EXCEPT ![p] = next]
    BY <1>3 DEF Decide, TypeOK, Stages
  <2> HIDE DEF next
  <2>3. recorded' \in Sources \cup {Unknown} /\ ledger' \subseteq OwnLine
    BY <1>3 DEF Decide, TypeOK
  <2>4. TypeOK'
    <3>1. stage' \in [Proc -> Stages]
      BY <2>1, <2>2 DEF TypeOK
    <3> QED
      BY <1>3, <2>3, <3>1 DEF Decide, TypeOK
  <2> QED
    BY <1>3, <2>4 DEF Decide, Sorted
<1>4. ASSUME HealLine(p) PROVE Types'
  <2>1. PICK l \in stage[p].heal :
          /\ disk' = [disk EXCEPT !["own"] = Append(@, l)]
          /\ unread' = [unread EXCEPT ![p] = @ \cup {l}]
          /\ stage' = [stage EXCEPT ![p].heal = @ \ {l}, ![p].healed = TRUE,
                                    ![p].step = IF stage[p].heal = {l} THEN "flag" ELSE "heal"]
    BY <1>4 DEF HealLine
  <2>2. l \in OwnLine
    BY DEF TypeOK, Stages
  <2>3. Append(disk["own"], l) \in Seq(Lines)
        /\ Range(Append(disk["own"], l)) = Range(disk["own"]) \cup {l}
    BY <2>2, RangeAppend, SessionIs
  <2> DEFINE next == [stage[p] EXCEPT !.heal = @ \ {l}, !.healed = TRUE,
                        !.step = IF stage[p].heal = {l} THEN "flag" ELSE "heal"]
  <2>4. next \in Stages
    BY SessionIs DEF Stages, Steps
  <2>5. stage' = [stage EXCEPT ![p] = next]
    BY <2>1 DEF TypeOK, Stages
  <2> HIDE DEF next
  <2>7. disk' \in [Files -> Seq(Lines)] /\ unread' \in [Proc -> SUBSET OwnLine]
    BY <2>1, <2>2, <2>3 DEF TypeOK
  <2>9. stage' \in [Proc -> Stages]
    BY <2>4, <2>5 DEF TypeOK
  <2>10. there' \subseteq Files /\ \A f \in Files \ there' : disk'[f] = <<>>
    BY <1>4, <2>1 DEF HealLine, TypeOK
  <2>8. UNCHANGED <<blocked, vcs, machine, tracked, seen, held, retained, first, reloads>>
    BY <1>4 DEF HealLine
  <2>6. TypeOK'
    BY <2>7, <2>8, <2>9, <2>10 DEF TypeOK
  <2> QED
    BY <1>4, <2>1, <2>2, <2>3, <2>6 DEF HealLine, Sorted, TypeOK
<1>5. ASSUME HealFails(p) PROVE Types'
  <2> DEFINE next == [stage[p] EXCEPT !.heal = {}, !.stuck = TRUE, !.step = "flag"]
  <2>1. next \in Stages
    BY SessionIs DEF Stages, Steps
  <2>2. stage' = [stage EXCEPT ![p] = next]
    BY <1>5 DEF HealFails, TypeOK, Stages
  <2> HIDE DEF next
  <2> QED
    BY <1>5, <2>1, <2>2 DEF HealFails, TypeOK, Sorted
<1>6. ASSUME FlagRepair(p) PROVE Types'
  <2>1. Track(retained[p], stage[p].lost, stage[p].stuck, seen[p]) \in Listings
    BY TrackIs DEF TypeOK, Stages, Contents
  <2>2. At("load") \in Stages /\ At("idle") \in Stages
    BY StageIs DEF Steps
  <2>3. seen' \in [Proc -> [Files -> Seq(Lines)]] /\ \A r \in Proc : Sorted(seen'[r])
    BY <1>6 DEF FlagRepair, TypeOK, Sorted
  <2>4. held' \in [Proc -> SUBSET Lines] /\ unread' \in [Proc -> SUBSET OwnLine]
    BY <1>6 DEF FlagRepair, TypeOK, Sorted, Lines
  <2>5. retained' \in [Proc -> Listings] /\ notice' \in Listings
    BY <1>6, <2>1 DEF FlagRepair, TypeOK
  <2>6. there' \subseteq Files /\ (\A f \in Files \ there' : disk'[f] = <<>>)
        /\ stage' \in [Proc -> Stages]
    BY <1>6, <2>2 DEF FlagRepair, TypeOK
  <2>7. TypeOK'
    BY <1>6, <2>3, <2>4, <2>5, <2>6 DEF FlagRepair, TypeOK
  <2> QED
    BY <1>6, <2>3, <2>7 DEF FlagRepair, Sorted
<1>7. ASSUME LoadNotice(p) PROVE Types'
  <2> DEFINE both == [f \in DOMAIN retained[p] \cup DOMAIN notice |->
                       Listed(retained[p], f) \cup Listed(notice, f)]
  <2>1. both \in Listings
    <3>1. DOMAIN retained[p] \cup DOMAIN notice \in SUBSET Files
      BY ListingIs DEF TypeOK
    <3>2. both \in [DOMAIN retained[p] \cup DOMAIN notice -> SUBSET Lines]
      BY <3>1, ListingIs DEF TypeOK
    <3> HIDE DEF both
    <3> QED
      BY <3>1, <3>2, ListingIs
  <2>2. At("idle") \in Stages
    BY StageIs DEF Steps
  <2> QED
    BY <1>7, <2>1, <2>2 DEF LoadNotice, TypeOK, Sorted
<1> QED
  BY <1>1, <1>2, <1>3, <1>4, <1>5, <1>6, <1>7 DEF CatchUp

\* Version control and accept-disk keep the types.
LEMMA UpsetTypes ==
  ASSUME Types
  PROVE  /\ AcceptDisk => Types'
         /\ VersionControl => Types'
<1> USE DEF Types, files, vcs, machine, session
<1>1. ASSUME AcceptDisk PROVE Types'
  BY <1>1, ListingIs DEF AcceptDisk, TypeOK, Sorted
<1>2. ASSUME NEW f \in Files, Rollback(f) PROVE Types'
  <2>1. PICK n \in 0 .. Len(disk[f]) - 1 : disk' = [disk EXCEPT ![f] = SubSeq(@, 1, n)]
    BY <1>2 DEF Rollback
  <2>2. SubSeq(disk[f], 1, n) \in Seq(Lines) /\ Range(SubSeq(disk[f], 1, n)) \subseteq Range(disk[f])
    BY RangeCut DEF TypeOK
  <2>3. TypeOK'
    BY <1>2, <2>1, <2>2, BoundsAreNumbers DEF Rollback, TypeOK
  <2> QED
    BY <1>2, <2>1, <2>2, <2>3 DEF Rollback, Sorted, TypeOK
<1>3. ASSUME NEW f \in Files, RemoveFile(f) PROVE Types'
  <2>1. <<>> \in Seq(Lines) /\ Range(<<>>) = {}
    BY EmptySeq DEF Range
  <2>2. TypeOK'
    BY <1>3, <2>1, BoundsAreNumbers DEF RemoveFile, TypeOK
  <2> QED
    BY <1>3, <2>1, <2>2 DEF RemoveFile, Sorted, TypeOK
<1>4. ASSUME Deliver PROVE Types'
  <2>1. PICK l \in MateLine, i \in 1 .. Len(disk["mate"]) + 1 :
          disk' = [disk EXCEPT !["mate"] = InsertAt(@, i, l)]
    BY <1>4 DEF Deliver
  <2>2. /\ InsertAt(disk["mate"], i, l) \in Seq(Lines)
        /\ Range(InsertAt(disk["mate"], i, l)) \subseteq Range(disk["mate"]) \cup {l}
    BY RangeInsert DEF TypeOK, Lines
  <2>3. TypeOK'
    BY <1>4, <2>1, <2>2 DEF Deliver, TypeOK
  <2> QED
    BY <1>4, <2>1, <2>2, <2>3 DEF Deliver, Sorted, TypeOK
<1>5. ASSUME Block \/ Unblock PROVE Types'
  <2>1. UNCHANGED <<disk, there, source, moves, machine, session, reloads>>
    BY <1>5 DEF Block, Unblock
  <2>2. blocked' \in BOOLEAN
    BY <1>5 DEF Block, Unblock
  <2>3. upsets' \in 0 .. MaxUpsets
    BY <1>5, BoundsAreNumbers DEF Block, Unblock, TypeOK
  <2> QED
    BY <2>1, <2>2, <2>3 DEF TypeOK, Sorted
<1>6. ASSUME Commit \/ SwitchBranch PROVE Types'
  <2>0. /\ source \in Sources /\ source.commit <= moves /\ moves \in Nat
        /\ moves < MaxMoves /\ moves' = moves + 1
    BY <1>6, BoundsAreNumbers DEF Commit, SwitchBranch, MoveHead, TypeOK
  <2>1. source' \in Sources /\ source'.commit <= moves'
    <3>1. CASE Commit
      <4>1. source' = [source EXCEPT !.commit = @ + 1]
        BY <3>1 DEF Commit, MoveHead
      <4> QED
        BY <4>1, <2>0, BoundsAreNumbers DEF Sources
    <3>2. CASE SwitchBranch
      <4>1. PICK b \in Branches : source' = [source EXCEPT !.branch = b]
        BY <3>2 DEF SwitchBranch, MoveHead
      <4> QED
        BY <4>1, <2>0, BoundsAreNumbers DEF Sources
    <3> QED
      BY <1>6, <3>1, <3>2
  <2>2. UNCHANGED <<files, upsets, machine, session, reloads>> /\ moves' \in 0 .. MaxMoves
    BY <1>6, BoundsAreNumbers DEF Commit, SwitchBranch, MoveHead, TypeOK
  <2> QED
    BY <2>1, <2>2 DEF TypeOK, Sorted
<1> QED
  BY <1>1, <1>2, <1>3, <1>4, <1>5, <1>6 DEF VersionControl

\* Every step keeps the types.
LEMMA NextTypes == Types /\ [Next]_vars => Types'
<1> SUFFICES ASSUME Types, [Next]_vars PROVE Types'
  OBVIOUS
<1>1. CASE Next
  BY <1>1, SessionTypes, CatchUpTypes, UpsetTypes DEF Next
<1>2. CASE UNCHANGED vars
  BY <1>2 DEF vars, files, vcs, machine, session, Types, TypeOK, Sorted
<1> QED
  BY <1>1, <1>2

-----------------------------------------------------------------------------
(* Losses stay listed.                                                      *)

\* Between two passes a session holds no loss of the last pass: it is on the list.
Resting == {"off", "scan", "load", "idle", "record"}

\* What the session shows of the teammate's shard and did not read there is on its
\* list, or among the losses the pass under way has yet to list.
Accounted(p) ==
  reloads[p] = 0 =>
    ShownButGone(p) \subseteq Listed(retained[p], "mate") \cup Listed(stage[p].lost, "mate")

\* The inductive invariant behind LossesAreListedUnlessReloaded: the property speaks of
\* a session at rest, and every step of a pass has to account for the same lines.
LossesInv ==
  /\ Types
  /\ \A p \in Proc : stage[p].step \in Resting => stage[p].lost = Nothing
  /\ \A p \in Proc : Accounted(p)

\* A fresh checkout shows nothing and lists nothing.
LEMMA InitLosses == Init => LossesInv
<1> SUFFICES ASSUME Init PROVE LossesInv
  OBVIOUS
<1>1. Types
  BY InitTypes
<1>2. \A p \in Proc : stage[p].lost = Nothing /\ held[p] = {}
  BY DEF Init, At
<1> QED
  BY <1>1, <1>2 DEF LossesInv, Accounted, ShownButGone

\* Nothing outside a session changes what it shows or lists.
LEMMA UpsetLosses ==
  ASSUME LossesInv, Types',
         UNCHANGED <<seen, held, retained, stage, reloads>>
  PROVE  LossesInv'
BY DEF LossesInv, Accounted, ShownButGone

\* A step of one session leaves the others' accounts alone.
LEMMA OtherSessions ==
  ASSUME LossesInv, Types', NEW p \in Proc,
         \A r \in Proc \ {p} : /\ stage'[r] = stage[r] /\ seen'[r] = seen[r]
                               /\ held'[r] = held[r] /\ retained'[r] = retained[r]
                               /\ reloads'[r] = reloads[r],
         stage'[p].step \in Resting => stage'[p].lost = Nothing,
         Accounted(p)'
  PROVE  LossesInv'
<1>1. ASSUME NEW r \in Proc \ {p}
      PROVE  /\ stage'[r].step \in Resting => stage'[r].lost = Nothing
             /\ Accounted(r)'
  BY DEF LossesInv, Accounted, ShownButGone
<1> QED
  BY <1>1 DEF LossesInv

\* Every step accounts for what a session shows and did not read again.
LEMMA NextLosses == LossesInv /\ [Next]_vars => LossesInv'
<1> SUFFICES ASSUME LossesInv, [Next]_vars PROVE LossesInv'
  OBVIOUS
<1>0. Types /\ Types'
  BY NextTypes DEF LossesInv
<1> USE DEF files, vcs, machine, session
<1>1. ASSUME NEW p \in Proc, Boot(p) \/ Quit(p) \/ Reload(p) PROVE LossesInv'
  <2>1. /\ \A r \in Proc \ {p} :
             /\ stage'[r] = stage[r] /\ seen'[r] = seen[r] /\ held'[r] = held[r]
             /\ retained'[r] = retained[r] /\ reloads'[r] = reloads[r]
        /\ stage'[p].lost = Nothing
    BY <1>1, <1>0 DEF Boot, Quit, Reload, Types, TypeOK, At
  <2>2. Accounted(p)'
    <3>1. CASE Boot(p)
      <4>1. stage[p].lost = Nothing
        BY <3>1 DEF LossesInv, Boot, Here, Resting
      <4> QED
        BY <3>1, <4>1, <2>1 DEF Boot, LossesInv, Accounted, ShownButGone
    <3>2. CASE Quit(p)
      BY <3>2, <1>0 DEF Quit, Accounted, ShownButGone, Types, TypeOK
    <3>3. CASE Reload(p)
      <4>1. reloads'[p] # 0
        BY <3>3, <1>0, BoundsAreNumbers DEF Reload, Types, TypeOK
      <4> QED
        BY <4>1 DEF Accounted
    <3> QED
      BY <1>1, <3>1, <3>2, <3>3
  <2> QED
    BY <2>1, <2>2, <1>0, OtherSessions
<1>2. ASSUME NEW p \in Proc, AppendLine(p) \/ RecordLine(p) PROVE LossesInv'
  <2>1. /\ \A r \in Proc \ {p} :
             /\ stage'[r] = stage[r] /\ seen'[r] = seen[r] /\ held'[r] = held[r]
             /\ retained'[r] = retained[r] /\ reloads'[r] = reloads[r]
        /\ stage'[p].lost = Nothing
    BY <1>2, <1>0 DEF AppendLine, RecordLine, Types, TypeOK, At
  <2>2. held'[p] \cap MateLine \subseteq held[p] /\ stage[p].lost = Nothing
    <3>1. stage[p].line \subseteq OwnLine
      BY <1>0 DEF Types, TypeOK, Stages
    <3> QED
      BY <1>2, <1>0, <3>1, LineAssumption
         DEF AppendLine, RecordLine, Types, TypeOK, LossesInv, Here, Idle, Resting
  <2>3. UNCHANGED <<seen, retained, reloads>>
    BY <1>2 DEF AppendLine, RecordLine
  <2>4. Accounted(p)'
    BY <2>1, <2>2, <2>3 DEF LossesInv, Accounted, ShownButGone
  <2> QED
    BY <2>1, <2>4, <1>0, OtherSessions
<1>3. ASSUME NEW p \in Proc, Consume(p) PROVE LossesInv'
  <2>1. /\ \A r \in Proc \ {p} :
             /\ stage'[r] = stage[r] /\ seen'[r] = seen[r] /\ held'[r] = held[r]
             /\ retained'[r] = retained[r] /\ reloads'[r] = reloads[r]
        /\ stage'[p].lost = Nothing /\ UNCHANGED <<retained, reloads>>
        /\ seen'[p] = Consumed(seen[p]) /\ held'[p] = held[p] \cup OnDisk
    BY <1>3, <1>0 DEF Consume, Types, TypeOK, At
  <2>2. stage[p].lost = Nothing
    BY <1>3 DEF Consume, LossesInv, Resting
  <2>3. OnDisk \cap MateLine \subseteq Range(disk["mate"])
    BY <1>0, LineAssumption DEF OnDisk, Types, TypeOK, Sorted
  <2>4. Range(seen[p]["mate"]) \cup (OnDisk \cap MateLine) \subseteq Range(seen'[p]["mate"])
    <3>1. CASE "mate" \in there
      <4>1. Range(seen[p]["mate"]) \subseteq Range(disk["mate"])
        BY <1>3, <3>1 DEF Consume, NeedsRebuild, StillHolds
      <4>2. seen'[p]["mate"] = disk["mate"]
        BY <2>1, <3>1 DEF Consumed
      <4> QED
        BY <4>1, <4>2, <2>3
    <3>2. CASE "mate" \notin there
      <4>1. disk["mate"] = <<>> /\ seen'[p]["mate"] = seen[p]["mate"]
        BY <2>1, <3>2, <1>0 DEF Consumed, Types, TypeOK
      <4>2. Range(disk["mate"]) = {}
        BY <4>1 DEF Range
      <4> QED
        BY <4>1, <4>2, <2>3
    <3> QED
      BY <3>1, <3>2
  <2>5. Accounted(p)'
    BY <2>1, <2>2, <2>4 DEF LossesInv, Accounted, ShownButGone
  <2> QED
    BY <2>1, <2>5, <1>0, OtherSessions
<1>4. ASSUME NEW p \in Proc, Rebuild(p) PROVE LossesInv'
  <2>1. /\ \A r \in Proc \ {p} :
             /\ stage'[r] = stage[r] /\ seen'[r] = seen[r] /\ held'[r] = held[r]
             /\ retained'[r] = retained[r] /\ reloads'[r] = reloads[r]
        /\ stage'[p].lost = LostLines(seen[p]) /\ UNCHANGED <<retained, reloads>>
        /\ stage'[p].step = "decide"
        /\ seen'[p] = disk /\ held'[p] = held[p] \cup OnDisk
    BY <1>4, <1>0 DEF Rebuild, Types, TypeOK, At
  <2>2. stage[p].lost = Nothing
    BY <1>4 DEF Rebuild, LossesInv, Resting
  <2>3. OnDisk \cap MateLine \subseteq Range(disk["mate"])
    BY <1>0, LineAssumption DEF OnDisk, Types, TypeOK, Sorted
  <2>4. Listed(stage'[p].lost, "mate") = Range(seen[p]["mate"]) \ Range(disk["mate"])
    BY <1>0, <2>1, LostLinesIs
  <2>5. Accounted(p)'
    BY <2>1, <2>2, <2>3, <2>4 DEF LossesInv, Accounted, ShownButGone, Listed, Nothing
  <2> QED
    BY <2>1, <2>5, <1>0, OtherSessions DEF Resting
<1>5. ASSUME NEW p \in Proc, Decide(p) \/ HealLine(p) \/ HealFails(p) PROVE LossesInv'
  <2>1. /\ \A r \in Proc \ {p} : stage'[r] = stage[r]
        /\ stage'[p].lost = stage[p].lost
        /\ stage'[p].step \in {"heal", "flag"}
        /\ UNCHANGED <<seen, held, retained, reloads>>
    <3>1. stage \in [Proc -> Stages] /\ stage[p] \in Stages
      BY <1>0 DEF Types, TypeOK
    <3>2. CASE Decide(p)
      BY <3>1, <3>2 DEF Decide, Stages
    <3>3. CASE HealLine(p)
      BY <3>1, <3>3 DEF HealLine, Stages
    <3>4. CASE HealFails(p)
      BY <3>1, <3>4 DEF HealFails, Stages
    <3> QED
      BY <1>5, <3>2, <3>3, <3>4
  <2>2. Accounted(p)'
    BY <2>1 DEF LossesInv, Accounted, ShownButGone
  <2> QED
    BY <2>1, <2>2, <1>0, OtherSessions DEF Resting
<1>6. ASSUME NEW p \in Proc, FlagRepair(p) PROVE LossesInv'
  <2>1. /\ \A r \in Proc \ {p} :
             /\ stage'[r] = stage[r] /\ seen'[r] = seen[r] /\ held'[r] = held[r]
             /\ retained'[r] = retained[r] /\ reloads'[r] = reloads[r]
        /\ stage'[p].lost = Nothing /\ UNCHANGED reloads
    BY <1>6, <1>0 DEF FlagRepair, Types, TypeOK, At
  <2>2. /\ seen'[p]["mate"] = seen[p]["mate"]
        /\ held'[p] \subseteq held[p] \cup Range(disk["own"])
        /\ retained'[p] = Track(retained[p], stage[p].lost, stage[p].stuck, seen[p])
    <3>1. seen \in [Proc -> [Files -> Seq(Lines)]] /\ held \in [Proc -> SUBSET Lines]
          /\ retained \in [Proc -> Listings]
      BY <1>0 DEF Types, TypeOK
    <3>2. seen'[p]["mate"] = seen[p]["mate"]
      BY <1>6, <3>1 DEF FlagRepair
    <3>3. held'[p] \subseteq held[p] \cup Range(disk["own"])
      BY <1>6, <3>1 DEF FlagRepair
    <3>4. retained'[p] = Track(retained[p], stage[p].lost, stage[p].stuck, seen[p])
      BY <1>6, <3>1 DEF FlagRepair
    <3> QED
      BY <3>2, <3>3, <3>4
  <2>3. Listed(retained'[p], "mate")
          = (Listed(retained[p], "mate") \cup Listed(stage[p].lost, "mate"))
              \ Range(seen[p]["mate"])
    <3>1. seen[p] \in Contents /\ retained[p] \in Listings /\ stage[p] \in Stages
      BY <1>0 DEF Types, TypeOK, Contents
    <3>2. stage[p].lost \in Listings /\ stage[p].stuck \in BOOLEAN
      BY <3>1 DEF Stages
    <3> QED
      BY <2>2, <3>1, <3>2, TrackIs
  <2>4. held'[p] \cap MateLine \subseteq held[p]
    BY <2>2, <1>0, LineAssumption DEF Types, Sorted
  <2>5. Accounted(p)'
    BY <2>1, <2>2, <2>3, <2>4 DEF LossesInv, Accounted, ShownButGone
  <2> QED
    BY <2>1, <2>5, <1>0, OtherSessions
<1>7. ASSUME NEW p \in Proc, LoadNotice(p) PROVE LossesInv'
  <2>1. /\ \A r \in Proc \ {p} : stage'[r] = stage[r] /\ retained'[r] = retained[r]
        /\ stage'[p].lost = Nothing
        /\ UNCHANGED <<seen, held, reloads>>
    BY <1>7, <1>0 DEF LoadNotice, Types, TypeOK, At
  <2>2. Listed(retained[p], "mate") \subseteq Listed(retained'[p], "mate")
    BY <1>7, <1>0 DEF LoadNotice, Types, TypeOK, Listed
  <2>3. stage[p].lost = Nothing
    BY <1>7 DEF LoadNotice, Here, LossesInv, Resting
  <2>4. Accounted(p)'
    BY <2>1, <2>2, <2>3 DEF LossesInv, Accounted, ShownButGone
  <2> QED
    BY <2>1, <2>4, <1>0, OtherSessions
<1>8. ASSUME AcceptDisk \/ VersionControl PROVE LossesInv'
  BY <1>8, <1>0, UpsetLosses
     DEF AcceptDisk, VersionControl, Rollback, RemoveFile, Deliver, Block, Unblock,
         Commit, SwitchBranch, MoveHead
<1>9. ASSUME UNCHANGED vars PROVE LossesInv'
  BY <1>9, <1>0, UpsetLosses DEF vars
<1> QED
  BY <1>1, <1>2, <1>3, <1>4, <1>5, <1>6, <1>7, <1>8, <1>9 DEF Next, CatchUp

\* A line of the teammate's shard that a session still shows and the file no longer
\* holds is on the session's list, for as long as the session lives and is not reloaded
\* (_track_retained).
THEOREM LossesStayListed == Spec => []LossesAreListedUnlessReloaded
<1>1. LossesInv => LossesAreListedUnlessReloaded
  <2> SUFFICES ASSUME LossesInv, NEW p \in Proc, Idle(p), reloads[p] = 0
               PROVE  ShownButGone(p) \subseteq Listed(retained[p], "mate")
    BY DEF LossesAreListedUnlessReloaded
  <2>1. Listed(stage[p].lost, "mate") = {}
    BY DEF LossesInv, Idle, Here, Resting, Nothing, Listed
  <2> QED
    BY <2>1 DEF LossesInv, Accounted
<1> QED
  BY <1>1, InitLosses, NextLosses, PTL DEF Spec

-----------------------------------------------------------------------------
(* Repair is bounded.                                                       *)

\* Sessions that are about to append a line back.
Ready(l) ==
  {p \in Proc : \/ Here(p, "decide") /\ l \notin Range(seen[p]["own"])
                \/ Here(p, "heal") /\ l \in stage[p].heal}

\* The inductive invariant behind RepairIsBounded: each copy but the first was paid for
\* by a session that has since read the line or appended it.
BoundedInv ==
  /\ Types
  /\ \A l \in OwnLine : Copies(l) # 0 => Copies(l) <= Cardinality(Proc \ Ready(l))

\* Where a line stands in a file, and how often.
Places(s, l) == {i \in DOMAIN s : s[i] = l}

\* The places of a line are finitely many, and there are some where it stands.
LEMMA PlacesAreFinite ==
  ASSUME NEW S, NEW s \in Seq(S), NEW l
  PROVE  /\ IsFiniteSet(Places(s, l)) /\ Cardinality(Places(s, l)) \in Nat
         /\ Cardinality(Places(s, l)) # 0 <=> l \in Range(s)
<1>1. DOMAIN s = 1 .. Len(s) /\ Len(s) \in Nat
  BY LenProperties
<1>2. IsFiniteSet(Places(s, l))
  <2>1. IsFiniteSet(1 .. Len(s))
    BY <1>1, FS_Interval
  <2> QED
    BY <1>1, <2>1, FS_Subset DEF Places
<1>3. Places(s, l) = {} <=> l \notin Range(s)
  BY DEF Places, Range
<1> QED
  BY <1>2, <1>3, FS_CardinalityType, FS_EmptySet

\* Appending a line adds one place of that line and none of another.
LEMMA PlacesAfterAppend ==
  ASSUME NEW S, NEW s \in Seq(S), NEW k \in S, NEW l
  PROVE  Cardinality(Places(Append(s, k), l))
           = IF l = k THEN Cardinality(Places(s, l)) + 1 ELSE Cardinality(Places(s, l))
<1>1. DOMAIN s = 1 .. Len(s) /\ Len(s) \in Nat
  BY LenProperties
<1>2. /\ DOMAIN Append(s, k) = 1 .. Len(s) + 1
      /\ \A i \in 1 .. Len(s) : Append(s, k)[i] = s[i]
      /\ Append(s, k)[Len(s) + 1] = k
  <2>1. Append(s, k) \in Seq(S) /\ Len(Append(s, k)) = Len(s) + 1
    BY AppendProperties
  <2> QED
    BY <2>1, AppendProperties, LenProperties
<1>3. CASE l = k
  <2>1. Places(Append(s, k), l) = Places(s, l) \cup {Len(s) + 1}
    BY <1>1, <1>2, <1>3 DEF Places
  <2>2. Len(s) + 1 \notin Places(s, l)
    BY <1>1 DEF Places
  <2> QED
    BY <1>3, <2>1, <2>2, PlacesAreFinite, FS_AddElement
<1>4. CASE l # k
  <2>1. Places(Append(s, k), l) = Places(s, l)
    BY <1>1, <1>2, <1>4 DEF Places
  <2> QED
    BY <1>4, <2>1
<1> QED
  BY <1>3, <1>4

\* Cutting a file never adds a place of a line.
LEMMA PlacesAfterCut ==
  ASSUME NEW S, NEW s \in Seq(S), NEW n \in 0 .. Len(s) - 1, NEW l
  PROVE  Cardinality(Places(SubSeq(s, 1, n), l)) <= Cardinality(Places(s, l))
<1>1. DOMAIN s = 1 .. Len(s) /\ Len(s) \in Nat
  BY LenProperties
<1>2. /\ DOMAIN SubSeq(s, 1, n) = 1 .. n
      /\ \A i \in 1 .. n : SubSeq(s, 1, n)[i] = s[i]
  <2>1. SubSeq(s, 1, n) \in Seq(S) /\ Len(SubSeq(s, 1, n)) = n
        /\ \A i \in 1 .. n : SubSeq(s, 1, n)[i] = s[i]
    <3>1. \A i \in 1 .. n : s[i] \in S
      BY <1>1, ElementOfSeq
    <3> QED
      BY <1>1, <3>1, SubSeqProperties
  <2> QED
    BY <2>1, LenProperties
<1>3. Places(SubSeq(s, 1, n), l) \subseteq Places(s, l)
  BY <1>1, <1>2 DEF Places
<1> QED
  BY <1>3, PlacesAreFinite, FS_Subset

\* The copies that RepairIsBounded counts are the places in the own file.
LEMMA CopiesArePlaces ==
  /\ \A l : Copies(l) = Cardinality(Places(disk["own"], l))
  /\ \A l : Copies(l)' = Cardinality(Places(disk'["own"], l))
BY DEF Copies, Places

\* Sessions are finitely many, those that are ready and those that are not.
LEMMA CountsAreNumbers ==
  ASSUME NEW P \in SUBSET Proc
  PROVE  /\ Cardinality(P) \in Nat /\ Cardinality(P) <= Cardinality(Proc)
         /\ IsFiniteSet(P)
         /\ \A p \in P : Cardinality(P) >= 1
         /\ \A Q \in SUBSET P : Cardinality(Q) <= Cardinality(P)
         /\ \A p \in Proc \ P : Cardinality(P \cup {p}) = Cardinality(P) + 1
<1>1. IsFiniteSet(P) /\ Cardinality(P) \in Nat /\ Cardinality(P) <= Cardinality(Proc)
  BY ProcAssumption, FS_Subset, FS_CardinalityType
<1>2. ASSUME NEW p \in P PROVE Cardinality(P) >= 1
  BY <1>1, FS_EmptySet, FS_CardinalityType
<1> QED
  BY <1>1, <1>2, FS_Subset, FS_AddElement

\* A step that adds no copy of a line and makes no session ready keeps its bound.
LEMMA BoundKept ==
  ASSUME BoundedInv, Types', NEW l \in OwnLine,
         Copies(l)' <= Copies(l), Ready(l)' \subseteq Ready(l)
  PROVE  Copies(l)' # 0 => Copies(l)' <= Cardinality(Proc \ Ready(l)')
<1>1. Copies(l) \in Nat /\ Copies(l)' \in Nat
  BY PlacesAreFinite, CopiesArePlaces, SessionIs DEF BoundedInv, Types, TypeOK
<1>2. /\ Proc \ Ready(l) \subseteq Proc \ Ready(l)'
      /\ Proc \ Ready(l)' \in SUBSET Proc /\ Proc \ Ready(l) \in SUBSET Proc
  OBVIOUS
<1>3. /\ Cardinality(Proc \ Ready(l)) <= Cardinality(Proc \ Ready(l)')
      /\ Cardinality(Proc \ Ready(l)) \in Nat /\ Cardinality(Proc \ Ready(l)') \in Nat
  BY <1>2, CountsAreNumbers
<1> QED
  BY <1>1, <1>3 DEF BoundedInv

\* A step that leaves the own shard and readies nobody keeps every bound.
LEMMA AllBoundsKept ==
  ASSUME BoundedInv, Types',
         \A l \in OwnLine : Copies(l)' <= Copies(l) /\ Ready(l)' \subseteq Ready(l)
  PROVE  BoundedInv'
BY BoundKept DEF BoundedInv

\* An own shard that stays as it is has as many copies as before.
LEMMA SameCopies ==
  ASSUME Types, disk'["own"] = disk["own"]
  PROVE  \A l \in OwnLine : Copies(l)' <= Copies(l)
<1>1. \A l \in OwnLine : Copies(l)' = Copies(l) /\ Copies(l) \in Nat
  BY PlacesAreFinite, CopiesArePlaces, SessionIs DEF Types
<1> QED
  BY <1>1

\* Before the first write no line stands in the own file.
LEMMA InitBounded == Init => BoundedInv
<1> SUFFICES ASSUME Init, NEW l \in OwnLine PROVE Copies(l) = 0
  BY InitTypes DEF BoundedInv
<1>1. disk["own"] = <<>>
  BY DEF Init, Unopened
<1>2. Places(disk["own"], l) = {}
  BY <1>1 DEF Places
<1> QED
  BY <1>2, FS_EmptySet, CopiesArePlaces

\* Every step keeps the bound: a copy is added only by a session that was ready for the
\* line and no longer is, or for a line no file, ledger or session knows.
LEMMA NextBounded == BoundedInv /\ [Next]_vars => BoundedInv'
<1> SUFFICES ASSUME BoundedInv, [Next]_vars PROVE BoundedInv'
  OBVIOUS
<1>0. Types /\ Types'
  BY NextTypes DEF BoundedInv
<1>a. /\ stage \in [Proc -> Stages] /\ \A p \in Proc : stage[p] \in Stages
      /\ seen \in [Proc -> [Files -> Seq(Lines)]] /\ disk \in [Files -> Seq(Lines)]
      /\ disk["own"] \in Seq(Lines)
      /\ \A l : Copies(l) \in Nat
  <2>1. disk["own"] \in Seq(Lines)
    BY <1>0 DEF Types, TypeOK
  <2> QED
    BY <1>0, <2>1, PlacesAreFinite, CopiesArePlaces DEF Types, TypeOK
<1> USE DEF files, vcs, machine, session
<1>1. ASSUME NEW p \in Proc, Boot(p) \/ Quit(p) \/ RecordLine(p) \/ Reload(p)
      PROVE  BoundedInv'
  <2>1. /\ UNCHANGED disk
        /\ \A r \in Proc \ {p} : stage'[r] = stage[r] /\ seen'[r] = seen[r]
        /\ stage'[p].step \notin {"decide", "heal"}
    <3>1. CASE Boot(p)
      BY <3>1, <1>a DEF Boot, At
    <3>2. CASE Quit(p)
      BY <3>2, <1>a DEF Quit, At
    <3>3. CASE RecordLine(p)
      BY <3>3, <1>a DEF RecordLine, At
    <3>4. CASE Reload(p)
      BY <3>4, <1>a DEF Reload, At
    <3> QED
      BY <1>1, <3>1, <3>2, <3>3, <3>4
  <2>2. \A l \in OwnLine : Ready(l)' \subseteq Ready(l)
    BY <2>1 DEF Ready, Here
  <2> QED
    BY <2>1, <2>2, <1>0, SameCopies, AllBoundsKept
<1>2. ASSUME NEW p \in Proc, AppendLine(p) PROVE BoundedInv'
  <2>1. PICK k \in OwnLine \ Ever :
          /\ disk' = [disk EXCEPT !["own"] = Append(@, k)]
          /\ stage' = [stage EXCEPT ![p] = [At("record") EXCEPT !.line = {k}]]
    BY <1>2 DEF AppendLine
  <2>2. /\ disk'["own"] = Append(disk["own"], k) /\ k \in Lines /\ UNCHANGED seen
        /\ \A r \in Proc \ {p} : stage'[r] = stage[r]
        /\ stage'[p].step = "record"
    BY <1>2, <2>1, <1>a DEF AppendLine, At, Lines
  <2>3. \A l \in OwnLine : Ready(l)' \subseteq Ready(l)
    BY <2>2 DEF Ready, Here
  <2>4. ASSUME NEW l \in OwnLine
        PROVE  Copies(l)' # 0 => Copies(l)' <= Cardinality(Proc \ Ready(l)')
    <3>1. CASE l = k
      <4>1. k \notin Range(disk["own"])
        BY <2>1 DEF Ever
      <4>2. Copies(l) = 0
        BY <3>1, <4>1, <1>a, PlacesAreFinite, CopiesArePlaces
      <4>3. Copies(l)' = 1
        BY <3>1, <4>2, <2>2, <1>a, PlacesAfterAppend, CopiesArePlaces
      <4>4. p \in Proc \ Ready(l)'
        BY <2>2 DEF Ready, Here
      <4>5. Cardinality(Proc \ Ready(l)') >= 1
        BY <4>4, CountsAreNumbers
      <4> QED
        BY <4>3, <4>5
    <3>2. CASE l # k
      <4>1. Copies(l)' = Copies(l)
        BY <3>2, <2>2, <1>a, PlacesAfterAppend, CopiesArePlaces
      <4> QED
        BY <4>1, <2>3, <1>0, <1>a, BoundKept
    <3> QED
      BY <3>1, <3>2
  <2> QED
    BY <2>4, <1>0 DEF BoundedInv
<1>3. ASSUME NEW p \in Proc, Consume(p) \/ Rebuild(p) PROVE BoundedInv'
  <2>1. /\ UNCHANGED disk
        /\ \A r \in Proc \ {p} : stage'[r] = stage[r] /\ seen'[r] = seen[r]
        /\ stage'[p].step # "heal"
    <3>1. CASE Consume(p)
      <4>1. stage'[p] \in {[At("decide") EXCEPT !.boot = stage[p].boot], At("idle")}
        BY <3>1, <1>a DEF Consume
      <4>2. stage'[p].step # "heal"
        BY <4>1 DEF At
      <4> QED
        BY <3>1, <4>2, <1>a DEF Consume
    <3>2. CASE Rebuild(p)
      BY <3>2, <1>a DEF Rebuild, At
    <3> QED
      BY <1>3, <3>1, <3>2
  <2>2. "own" \in there => seen'[p]["own"] = disk["own"]
    BY <1>3, <1>a DEF Consume, Consumed, Rebuild
  <2>3. "own" \notin there => Range(disk["own"]) = {}
    BY <1>0 DEF Types, TypeOK, Range
  <2>4. ASSUME NEW l \in OwnLine
        PROVE  Copies(l)' # 0 => Copies(l)' <= Cardinality(Proc \ Ready(l)')
    <3> SUFFICES ASSUME Copies(l)' # 0
                 PROVE  Copies(l)' <= Cardinality(Proc \ Ready(l)')
      OBVIOUS
    <3>1. Copies(l)' = Copies(l)
      BY <2>1, CopiesArePlaces
    <3>2. l \in Range(disk["own"])
      BY <3>1, <1>a, PlacesAreFinite, CopiesArePlaces
    <3>3. p \notin Ready(l)'
      BY <2>1, <2>2, <2>3, <3>2 DEF Ready, Here
    <3>4. Ready(l)' \subseteq Ready(l)
      BY <2>1, <3>3 DEF Ready, Here
    <3>5. Copies(l)' <= Copies(l)
      BY <3>1, <1>a
    <3> QED
      BY <3>4, <3>5, <1>0, BoundKept
  <2> QED
    BY <2>4, <1>0 DEF BoundedInv
<1>4. ASSUME NEW p \in Proc, Decide(p) PROVE BoundedInv'
  <2>1. /\ UNCHANGED <<disk, seen>> /\ Here(p, "decide")
        /\ \A r \in Proc \ {p} : stage'[r] = stage[r]
        /\ stage'[p].step \in {"heal", "flag"}
        /\ stage'[p].heal \subseteq Missing(p)
    BY <1>4, <1>a DEF Decide, Stages
  <2>2. \A l \in OwnLine : Ready(l)' \subseteq Ready(l)
    BY <2>1 DEF Ready, Here, Missing
  <2> QED
    BY <2>1, <2>2, <1>0, SameCopies, AllBoundsKept
<1>5. ASSUME NEW p \in Proc, HealLine(p) PROVE BoundedInv'
  <2>1. PICK k \in stage[p].heal :
          /\ disk' = [disk EXCEPT !["own"] = Append(@, k)]
          /\ stage' = [stage EXCEPT ![p].heal = @ \ {k}, ![p].healed = TRUE,
                                    ![p].step = IF stage[p].heal = {k} THEN "flag" ELSE "heal"]
    BY <1>5 DEF HealLine
  <2>2. /\ disk'["own"] = Append(disk["own"], k) /\ k \in Lines
        /\ UNCHANGED seen /\ Here(p, "heal")
    BY <1>5, <2>1, <1>a DEF HealLine, Stages, Lines
  <2>3. /\ \A r \in Proc \ {p} : stage'[r] = stage[r]
        /\ stage'[p].step \in {"heal", "flag"}
        /\ stage'[p].heal = stage[p].heal \ {k}
    BY <2>1, <1>a DEF Stages
  <2>4. \A l \in OwnLine : Ready(l)' = Ready(l) \ (IF l = k THEN {p} ELSE {})
    <3>1. \A l \in OwnLine, r \in Proc \ {p} : r \in Ready(l)' <=> r \in Ready(l)
      BY <2>2, <2>3 DEF Ready, Here
    <3>2. \A l \in OwnLine : p \in Ready(l) <=> l \in stage[p].heal
      BY <2>2 DEF Ready, Here
    <3>3. stage[p].heal \ {k} # {} => stage'[p].step = "heal"
      BY <2>1, <1>a DEF Stages
    <3>4. \A l \in OwnLine : p \in Ready(l)' <=> l \in stage[p].heal \ {k}
      BY <2>3, <3>3 DEF Ready, Here
    <3>5. \A l \in OwnLine : Ready(l) \subseteq Proc /\ Ready(l)' \subseteq Proc
      BY DEF Ready
    <3> QED
      BY <3>1, <3>2, <3>4, <3>5
  <2>5. ASSUME NEW l \in OwnLine
        PROVE  Copies(l)' # 0 => Copies(l)' <= Cardinality(Proc \ Ready(l)')
    <3>1. CASE l = k
      <4>1. Copies(l)' = Copies(l) + 1
        BY <3>1, <2>2, <1>a, PlacesAfterAppend, CopiesArePlaces
      <4>2. p \in Ready(l)
        BY <3>1, <2>1, <2>2 DEF Ready
      <4> DEFINE P == Proc \ Ready(l)
      <4>3. Proc \ Ready(l)' = P \cup {p} /\ p \in Proc \ P
        BY <2>4, <3>1, <4>2
      <4>4. P \in SUBSET Proc
        OBVIOUS
      <4>5. Copies(l) # 0 => Copies(l) <= Cardinality(P)
        BY DEF BoundedInv
      <4> HIDE DEF P
      <4>6. Cardinality(P \cup {p}) = Cardinality(P) + 1 /\ Cardinality(P) \in Nat
        BY <4>3, <4>4, CountsAreNumbers
      <4>7. Copies(l) \in Nat
        BY <1>a
      <4>8. Copies(l)' <= Cardinality(P \cup {p})
        BY <4>1, <4>5, <4>6, <4>7
      <4> QED
        BY <4>3, <4>8
    <3>2. CASE l # k
      <4>1. Copies(l)' = Copies(l)
        BY <3>2, <2>2, <1>a, PlacesAfterAppend, CopiesArePlaces
      <4> QED
        <5>1. Copies(l)' <= Copies(l)
          BY <4>1, <1>a
        <5>2. Ready(l)' \subseteq Ready(l)
          BY <2>4
        <5> QED
          BY <5>1, <5>2, <1>0, BoundKept
    <3> QED
      BY <3>1, <3>2
  <2> QED
    BY <2>5, <1>0 DEF BoundedInv
<1>6. ASSUME NEW p \in Proc, HealFails(p) \/ FlagRepair(p) \/ LoadNotice(p)
      PROVE  BoundedInv'
  <2>1. /\ UNCHANGED disk
        /\ \A r \in Proc \ {p} : stage'[r] = stage[r] /\ seen'[r] = seen[r]
        /\ stage'[p].step \notin {"decide", "heal"}
    <3>1. CASE HealFails(p)
      BY <3>1, <1>a DEF HealFails, Stages
    <3>2. CASE FlagRepair(p)
      BY <3>2, <1>a DEF FlagRepair, At
    <3>3. CASE LoadNotice(p)
      BY <3>3, <1>a DEF LoadNotice, At
    <3> QED
      BY <1>6, <3>1, <3>2, <3>3
  <2>2. \A l \in OwnLine : Ready(l)' \subseteq Ready(l)
    BY <2>1 DEF Ready, Here
  <2> QED
    BY <2>1, <2>2, <1>0, SameCopies, AllBoundsKept
<1>7. ASSUME UNCHANGED <<stage, seen>>, \A l \in OwnLine : Copies(l)' <= Copies(l)
      PROVE  BoundedInv'
  <2>1. \A l \in OwnLine : Ready(l)' \subseteq Ready(l)
    BY <1>7 DEF Ready, Here
  <2> QED
    BY <1>7, <2>1, <1>0, AllBoundsKept
<1>8. ASSUME AcceptDisk \/ VersionControl PROVE BoundedInv'
  <2>1. UNCHANGED <<stage, seen>>
    BY <1>8 DEF AcceptDisk, VersionControl, Rollback, RemoveFile, Deliver, Block, Unblock,
                Commit, SwitchBranch, MoveHead
  <2>2. ASSUME NEW f \in Files, Rollback(f) \/ RemoveFile(f), NEW l \in OwnLine
        PROVE  Copies(l)' <= Copies(l)
    <3>1. CASE f = "own" /\ Rollback(f)
      <4>1. PICK n \in 0 .. Len(disk["own"]) - 1 :
              disk' = [disk EXCEPT !["own"] = SubSeq(@, 1, n)]
        BY <3>1 DEF Rollback
      <4> QED
        BY <4>1, <1>a, PlacesAfterCut, CopiesArePlaces
    <3>2. CASE f = "own" /\ RemoveFile(f)
      <4>1. Places(disk'["own"], l) = {}
        BY <3>2, <1>a DEF RemoveFile, Places
      <4>2. Copies(l)' = 0
        BY <4>1, FS_EmptySet, CopiesArePlaces
      <4> QED
        BY <4>2, <1>a
    <3>3. CASE f = "mate"
      <4>1. disk'["own"] = disk["own"]
        BY <2>2, <3>3, <1>a DEF Rollback, RemoveFile
      <4> QED
        BY <4>1, <1>0, SameCopies
    <3> QED
      BY <2>2, <3>1, <3>2, <3>3
  <2>3. ASSUME AcceptDisk \/ Deliver \/ Block \/ Unblock \/ Commit \/ SwitchBranch
        PROVE  disk'["own"] = disk["own"]
    BY <2>3, <1>a DEF AcceptDisk, Deliver, Block, Unblock, Commit, SwitchBranch, MoveHead
  <2> QED
    BY <1>7, <1>8, <2>1, <2>2, <2>3, <1>0, SameCopies DEF VersionControl
<1>9. ASSUME UNCHANGED vars PROVE BoundedInv'
  BY <1>7, <1>9, <1>0, SameCopies DEF vars
<1> QED
  BY <1>1, <1>2, <1>3, <1>4, <1>5, <1>6, <1>8, <1>9 DEF Next, CatchUp

\* Sessions that repair the same loss append a line at most once each: the own shard
\* never holds more copies of a line than there are sessions (_heal_own_shard).
THEOREM RepairStaysBounded == Spec => []RepairIsBounded
<1>1. BoundedInv => RepairIsBounded
  <2> SUFFICES ASSUME BoundedInv, NEW l \in OwnLine
               PROVE  Copies(l) <= Cardinality(Proc)
    BY DEF RepairIsBounded
  <2>1. Copies(l) \in Nat
    BY PlacesAreFinite, CopiesArePlaces, SessionIs DEF BoundedInv, Types
  <2>2. Proc \ Ready(l) \in SUBSET Proc /\ Proc \in SUBSET Proc
    OBVIOUS
  <2>3. /\ Cardinality(Proc \ Ready(l)) <= Cardinality(Proc)
        /\ Cardinality(Proc \ Ready(l)) \in Nat /\ Cardinality(Proc) \in Nat
    BY <2>2, CountsAreNumbers
  <2> QED
    BY <2>1, <2>3 DEF BoundedInv
<1> QED
  BY <1>1, InitBounded, NextBounded, PTL DEF Spec

\* The types of JournalRepair's state.
THEOREM RepairTypes == Spec => []TypeOK
<1>1. Types => TypeOK
  BY DEF Types
<1> QED
  BY <1>1, InitTypes, NextTypes, PTL DEF Spec
=============================================================================
