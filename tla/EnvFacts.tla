------------------------------ MODULE EnvFacts ------------------------------
(***************************************************************************)
(* What a person's machines noted about their environment                   *)
(* (cognition/people_facts.py and the env-fact tools): one file of records  *)
(* in every checkout the person uses, merged line by line, and folded in the *)
(* order of the lines.  Each is used on a machine of its own, but a call may  *)
(* name any machine.                                                         *)
(***************************************************************************)
EXTENDS Naturals, Sequences, UnionMerge, FiniteSetsExt

CONSTANTS Checkouts, Machines, FactKeys, FactValues,
          MachineCap,    \* env_fact_machine_cap
          MaxRecords     \* bound on records written

AllMachines == "all machines"
NoFact == "nothing"

VARIABLES
    lines,     \* [Checkouts -> the records of the person's file]
    written    \* the records written so far

factsVars == <<lines, written>>

FactsInit == lines = [c \in Checkouts |-> <<>>] /\ written = 0

\* Mutant: clearing without a machine clears a machine of no name.
ClearsOne(rec, m, k) == rec.act = "clear" /\ rec.machine = m

Clears(rec, m, k) ==
    \/ rec.act = "clear" /\ rec.machine \in {m, AllMachines}
    \/ rec.act = "delete" /\ rec.machine = m /\ rec.key = k

Touches(rec, m, k) ==
    \/ Clears(rec, m, k)
    \/ rec.act = "set" /\ rec.machine = m /\ rec.key = k

(* _fold_entry: the last line about a fact decides                          *)
Fact(recs, m, k) ==
    LET about == {i \in DOMAIN recs : Touches(recs[i], m, k)}
    IN  IF about = {} \/ Clears(recs[Max(about)], m, k)
        THEN [value |-> NoFact, id |-> 0]
        ELSE [value |-> recs[Max(about)].value, id |-> recs[Max(about)].id]

Has(recs, m, k) == Fact(recs, m, k).value # NoFact
Known(recs) == {m \in Machines : \E k \in FactKeys : Has(recs, m, k)}

(* seen stands for what the file held when the record was written           *)
WriteFact(c, act, m, k, v) ==
    /\ written < MaxRecords
    /\ written' = written + 1
    /\ lines' = [lines EXCEPT ![c] =
          Append(@, [id |-> written + 1, act |-> act, machine |-> m, key |-> k, value |-> v,
                     seen |-> {@[i].id : i \in DOMAIN @}])]

SetFact(c, m, k, v) ==
    /\ Fact(lines[c], m, k).value # v
    /\ m \in Known(lines[c]) \/ Cardinality(Known(lines[c])) < MachineCap
    /\ WriteFact(c, "set", m, k, v)

DeleteFact(c, m, k) ==
    Has(lines[c], m, k) /\ WriteFact(c, "delete", m, k, NoFact)

(* nothing is written when there is nothing to clear                        *)
ClearFacts(c, m) ==
    /\ \E n \in Known(lines[c]) : m \in {n, AllMachines}
    /\ WriteFact(c, "clear", m, NoFact, NoFact)

(* merge=union, from either side                                           *)
PullFacts(c, d) ==
    \E ours, theirs \in {lines[c], lines[d]} :
        /\ ours # theirs
        /\ lines' = [lines EXCEPT ![c] = Merged(ours, theirs)]
        /\ UNCHANGED written

FactsNext ==
    \E c \in Checkouts :
        \/ \E m \in Machines, k \in FactKeys :
              DeleteFact(c, m, k) \/ \E v \in FactValues : SetFact(c, m, k, v)
        \/ \E m \in Machines \cup {AllMachines} : ClearFacts(c, m)
        \/ \E d \in Checkouts : PullFacts(c, d)

FactsSpec == FactsInit /\ [][FactsNext]_factsVars

(* Removal on request (clear_facts, cognition_clear_env_facts): a fact that   *)
(* was cleared or deleted anywhere shows in no clone that has heard of it,   *)
(* in whatever order the lines were merged, until it is set again.          *)
ClearedIsGone ==
    \A c \in Checkouts : \A r \in Range(lines[c]) : \A m \in Machines, k \in FactKeys :
        (\/ r.act = "clear" /\ r.machine \in {m, AllMachines}
         \/ r.act = "delete" /\ r.machine = m /\ r.key = k) =>
            Fact(lines[c], m, k).id \notin r.seen

=============================================================================
