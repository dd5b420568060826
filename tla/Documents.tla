----------------------------- MODULE Documents -----------------------------
(***************************************************************************)
(* Stored documents (cognition/documents.py, _store_document,                *)
(* delete_cognition_node): a node in the graph, and in .cognition/documents   *)
(* the text, the copied bytes and the ignore file that keeps a copy on this   *)
(* machine.  Files are named by the hash of the content, so the documents of  *)
(* one hash share them.                                                     *)
(*                                                                         *)
(* The calls of several servers take turns between the operations on the     *)
(* files, and any of them may be cut off.                                   *)
(***************************************************************************)
EXTENDS Naturals, FiniteSets

CONSTANTS Hashes,
          Large,        \* the hashes whose bytes are too many to commit
          Callers,
          MaxCalls      \* bound on calls

ASSUME DocumentsAssumption == MaxCalls \in Nat

VARIABLES
    docs,       \* [number of the call that stored it -> the node]
    text, blob, \* the hashes with a text and with a copy on disk
    ignored,    \* the hashes listed in the ignore file
    published,  \* the hashes whose copy was committed by somebody
    litter,     \* the hashes with a temporary file that nobody writes any more
    leaked,     \* the hashes of which a temporary file was committed
    call,       \* [Callers -> the call under way]
    calls,      \* the calls so far
    asked,      \* the hashes that a call meant to be committed
    refused,    \* the hashes that were refused only, for want of an identity
    raced,      \* the ignore file or the files of a hash changed under a call
    messy       \* two calls overlapped, one was cut off or one was refused

temporary == <<litter, leaked>>
storedFiles == <<text, blob, ignored, published, temporary>>
ghosts == <<asked, refused, raced, messy>>
documentsVars == <<docs, storedFiles, call, calls, ghosts>>

None == 0
NoCall == [at |-> "idle"]
NoDoc == [hash |-> None, copy |-> FALSE, local |-> FALSE, live |-> FALSE]

\* Mutant: a document without a copy does not count.
WithCopy(h) == {d \in DOMAIN docs : docs[d].live /\ docs[d].copy /\ docs[d].hash = h}

(* documents_with_sha                                                       *)
With(h) == {d \in DOMAIN docs : docs[d].live /\ docs[d].hash = h}

DocumentsInit ==
    /\ docs = [i \in 1..MaxCalls |-> NoDoc]
    /\ text = {} /\ blob = {} /\ ignored = {} /\ published = {}
    /\ litter = {} /\ leaked = {}
    /\ call = [c \in Callers |-> NoCall]
    /\ calls = 0
    /\ asked = {} /\ refused = {}
    /\ raced = FALSE /\ messy = FALSE

CallAt(c, at) == call[c].at = at
CallGoes(c, at) == call' = [call EXCEPT ![c].at = at]
CallEnds(c) == call' = [call EXCEPT ![c] = NoCall]

CallStarts(c, record) ==
    /\ CallAt(c, "idle") /\ calls < MaxCalls
    /\ calls' = calls + 1
    /\ call' = [call EXCEPT ![c] = record]
    /\ messy' = (messy \/ \E d \in Callers \ {c} : ~ CallAt(d, "idle"))

-----------------------------------------------------------------------------
(* cognition_store_document                                                 *)

StoreStarts(c, h, force, copy, wantsLocal) ==
    LET local == wantsLocal \/ h \in Large
        job == [at |-> "text", hash |-> h, copy |-> copy, local |-> local,
                id |-> calls + 1, node |-> None, lines |-> {}]
    IN  /\ copy \/ ~ wantsLocal
        /\ IF force \/ With(h) = {} THEN CallStarts(c, job)
           ELSE copy /\ \E d \in With(h) : CallStarts(c, [job EXCEPT !.at = "policy", !.node = d])
        /\ asked' = IF copy /\ ~ local THEN asked \cup {h} ELSE asked
        /\ UNCHANGED <<docs, storedFiles, refused, raced>>

(* write_text_sidecar                                                       *)
WriteText(c) ==
    /\ CallAt(c, "text")
    /\ text' = text \cup {call[c].hash}
    /\ CallGoes(c, IF call[c].copy THEN "policy" ELSE "gate")
    /\ UNCHANGED <<docs, blob, ignored, published, temporary, calls, ghosts>>

\* Mutant: the copy is written first and then ignored.
AfterPolicyBlob(h, local) == "blob"

(* _materialize_blob: a copy that is there without being ignored may be       *)
(* committed already, and ignoring it would change nothing                  *)
AfterPolicy(h, local) ==
    IF local /\ ~ (h \in blob /\ h \notin ignored) /\ h \notin ignored
    THEN "ignore" ELSE "blob"

Policy(c) ==
    /\ CallAt(c, "policy")
    /\ call' = [call EXCEPT ![c].at = AfterPolicy(call[c].hash, call[c].local),
                            ![c].lines = ignored]
    /\ UNCHANGED <<docs, storedFiles, calls, ghosts>>

(* the ignore file is written back from the lines that were read             *)
Rewrite(c, lines) ==
    /\ ignored' = lines
    /\ raced' = (raced \/ ignored # call[c].lines)

AddIgnoreEntry(c) ==
    /\ CallAt(c, "ignore")
    /\ Rewrite(c, call[c].lines \cup {call[c].hash})
    /\ CallGoes(c, "blob")
    /\ UNCHANGED <<docs, text, blob, published, temporary, calls, asked, refused, messy>>

AfterBlob(c) == IF call[c].node = None THEN "gate" ELSE "update"

(* write_blob: a copy that is there is left alone; the bytes are written under *)
(* a temporary name, which no ignore rule covers ...                        *)
AfterWrite(c) == IF call[c].local THEN AfterBlob(c) ELSE "promote"

WriteBlob(c) ==
    /\ CallAt(c, "blob")
    /\ CallGoes(c, IF call[c].hash \in blob THEN AfterWrite(c) ELSE "rename")
    /\ UNCHANGED <<docs, storedFiles, calls, ghosts>>

(* ... and renamed                                                          *)
RenameBlob(c) ==
    /\ CallAt(c, "rename")
    /\ blob' = blob \cup {call[c].hash}
    /\ CallGoes(c, AfterWrite(c))
    /\ UNCHANGED <<docs, text, ignored, published, temporary, calls, ghosts>>

(* remove_gitignore_entry                                                   *)
ReadIgnore(c) ==
    /\ CallAt(c, "promote")
    /\ call' = [call EXCEPT ![c].at = IF call[c].hash \in ignored THEN "promoting"
                                      ELSE AfterBlob(c),
                            ![c].lines = ignored]
    /\ UNCHANGED <<docs, storedFiles, calls, ghosts>>

Promote(c) ==
    /\ CallAt(c, "promoting")
    /\ Rewrite(c, call[c].lines \ {call[c].hash})
    /\ CallGoes(c, AfterBlob(c))
    /\ UNCHANGED <<docs, text, blob, published, temporary, calls, asked, refused, messy>>

(* the confirmed identity is asked for here, and then the node is added      *)
AddNode(c) ==
    /\ CallAt(c, "gate")
    /\ docs' = [docs EXCEPT ![call[c].id] =
                    [hash |-> call[c].hash, copy |-> call[c].copy,
                     local |-> call[c].local, live |-> TRUE]]
    /\ CallEnds(c)
    /\ refused' = refused \ {call[c].hash}
    /\ UNCHANGED <<storedFiles, calls, asked, raced, messy>>

Refuse(c) ==
    /\ CallAt(c, "gate")
    /\ CallEnds(c)
    /\ refused' = IF With(call[c].hash) = {} THEN refused \cup {call[c].hash} ELSE refused
    /\ messy' = TRUE
    /\ UNCHANGED <<docs, storedFiles, calls, asked, raced>>

(* the metadata of a document that was there is replaced                     *)
UpdateNode(c) ==
    /\ CallAt(c, "update")
    /\ docs' = IF docs[call[c].node].live
               THEN [docs EXCEPT ![call[c].node] =
                        [hash |-> call[c].hash, copy |-> TRUE, local |-> call[c].local,
                         live |-> TRUE]]
               ELSE docs
    /\ CallEnds(c)
    /\ UNCHANGED <<storedFiles, calls, ghosts>>

-----------------------------------------------------------------------------
(* delete_cognition_node                                                    *)

DeleteStarts(c, d) ==
    /\ docs[d].live
    /\ CallStarts(c, [at |-> "remove", hash |-> docs[d].hash, copy |-> docs[d].copy,
                  node |-> d, cohort |-> {}, lines |-> {}, local |-> FALSE])
    /\ UNCHANGED <<docs, storedFiles, asked, refused, raced>>

RemoveNode(c) ==
    /\ CallAt(c, "remove")
    /\ docs' = [docs EXCEPT ![call[c].node].live = FALSE]
    /\ IF docs[call[c].node].live THEN CallGoes(c, "cohort") ELSE CallEnds(c)
    /\ UNCHANGED <<storedFiles, calls, ghosts>>

(* a store of these bytes is under way, or was since the deletion looked     *)
Stored(h) ==
    \/ \E d \in With(h) : docs[d].copy
    \/ \E c \in Callers : call[c].at \in {"text", "policy", "ignore", "blob", "rename",
                                          "promote", "promoting", "gate", "update"} /\ call[c].hash = h

ReclaimText(c) ==
    /\ CallAt(c, "cohort")
    /\ LET cohort == With(call[c].hash)
       IN  /\ text' = IF cohort = {} THEN text \ {call[c].hash} ELSE text
           /\ call' = [call EXCEPT ![c] = IF call[c].copy
                                          THEN [@ EXCEPT !.at = "siblings", !.cohort = cohort]
                                          ELSE NoCall]
           /\ raced' = (raced \/ (cohort = {} /\ Stored(call[c].hash)))
    /\ UNCHANGED <<docs, blob, ignored, published, temporary, calls, asked, refused, messy>>

\* Mutant: a document that only refers to the bytes keeps the copy.
SiblingsOfAnyKind(cohort) == {d \in cohort : docs[d].live}

(* the other documents that own the copy                                    *)
Siblings(cohort) == {d \in cohort : docs[d].live /\ docs[d].copy}

ReclaimBlob(c) ==
    /\ CallAt(c, "siblings")
    /\ IF Siblings(call[c].cohort) # {}
       THEN CallEnds(c) /\ UNCHANGED <<blob, raced>>
       ELSE /\ blob' = blob \ {call[c].hash}
            /\ raced' = (raced \/ Stored(call[c].hash))
            /\ CallGoes(c, "unlist")
    /\ UNCHANGED <<docs, text, ignored, published, temporary, calls, asked, refused, messy>>

ReadEntry(c) ==
    /\ CallAt(c, "unlist")
    /\ call' = [call EXCEPT ![c] = IF call[c].hash \in ignored
                                   THEN [@ EXCEPT !.at = "unlisting", !.lines = ignored]
                                   ELSE NoCall]
    /\ UNCHANGED <<docs, storedFiles, calls, ghosts>>

DropEntry(c) ==
    /\ CallAt(c, "unlisting")
    /\ ignored' = call[c].lines \ {call[c].hash}
    /\ raced' = (raced \/ ignored # call[c].lines \/ call[c].hash \in blob
                    \/ Stored(call[c].hash))
    /\ CallEnds(c)
    /\ UNCHANGED <<docs, text, blob, published, temporary, calls, asked, refused, messy>>

-----------------------------------------------------------------------------
(* A call ends in the middle: on an error, after which a temporary file is    *)
(* taken away, or with its server, after which it stays.                    *)
CutOff(c) ==
    /\ ~ CallAt(c, "idle")
    /\ CallEnds(c)
    /\ messy' = TRUE
    /\ litter' \in {litter} \cup (IF CallAt(c, "rename") THEN {litter \cup {call[c].hash}} ELSE {})
    /\ UNCHANGED <<docs, text, blob, ignored, published, leaked, calls, asked, refused, raced>>

(* Somebody adds and commits what is not ignored.                           *)
Temporaries == litter \cup {call[c].hash : c \in {b \in Callers : CallAt(b, "rename")}}

Commit ==
    /\ published' = published \cup (blob \ ignored)
    /\ leaked' = leaked \cup Temporaries
    /\ <<published, leaked>>' # <<published, leaked>>
    /\ UNCHANGED <<docs, text, blob, ignored, litter, call, calls, ghosts>>

DocumentsNext ==
    \/ Commit
    \/ \E c \in Callers :
          \/ \E h \in Hashes, force, copy, local \in BOOLEAN : StoreStarts(c, h, force, copy, local)
          \/ \E d \in 1..MaxCalls : DeleteStarts(c, d)
          \/ WriteText(c) \/ Policy(c) \/ AddIgnoreEntry(c) \/ WriteBlob(c) \/ RenameBlob(c)
          \/ ReadIgnore(c)
          \/ Promote(c) \/ AddNode(c) \/ Refuse(c) \/ UpdateNode(c)
          \/ RemoveNode(c) \/ ReclaimText(c) \/ ReclaimBlob(c) \/ ReadEntry(c) \/ DropEntry(c)
          \/ CutOff(c)

DocumentsSpec == DocumentsInit /\ [][DocumentsNext]_documentsVars

-----------------------------------------------------------------------------
(* Properties.                                                              *)

Live == {d \in 1..MaxCalls : docs[d].live}

(* A document has its text, and its copy if it has one, through stores,       *)
(* deletions of its twins and servers that end in the middle, unless a store  *)
(* of the same bytes was under way while a deletion reclaimed the files.     *)
DocumentsKeepTheirFiles ==
    raced \/ \A d \in Live : /\ docs[d].hash \in text
                             /\ docs[d].copy => docs[d].hash \in blob

(* A copy that is in its place is committed only if somebody asked for it,    *)
(* whenever somebody commits (_materialize_blob), unless two calls rewrote the *)
(* ignore file at once.                                                     *)
LocalCopiesStay == raced \/ published \subseteq asked

(* "a coincident `git add`/commit in that window could have published it"     *)
(* (_materialize_blob, of the order before): the window is there still while  *)
(* the bytes have their temporary name, and stays when the server ends then. *)
LocalBytesStay == raced \/ published \cup leaked \subseteq asked

(* Files go with the last document that needs them (documents_with_sha), as   *)
(* long as calls follow one another and complete.                           *)
NothingIsLeft ==
    messy \/ (\E c \in Callers : ~ CallAt(c, "idle"))
    \/ /\ text \subseteq {docs[d].hash : d \in Live}
       /\ blob \subseteq {docs[d].hash : d \in {x \in Live : docs[x].copy}}
       /\ ignored \subseteq blob

(* "Refused ... Nothing is written" (cognition_store_document).              *)
RefusedWritesNothing == refused \cap (text \cup blob) = {}

=============================================================================
