----------------------------- MODULE MC_Machine -----------------------------
(***************************************************************************)
(* The processes of a machine, in two parts that are checked side by side: *)
(* servers with the children that hold the embedding model (Sidecar), and  *)
(* how one process ends when those who started it are gone (Lifecycle).    *)
(***************************************************************************)
EXTENDS Lifecycle, Sidecar, TLC

CONSTANTS s1, s2, k1

VARIABLES part

Budget(spawnfails, loadfails, wedges, crashes, timeouts, syncfails, exits) ==
    ("spawnfail" :> spawnfails) @@ ("loadfail" :> loadfails) @@ ("wedge" :> wedges) @@
    ("crash" :> crashes) @@ ("timeout" :> timeouts) @@ ("syncfail" :> syncfails) @@
    ("exit" :> exits)

(* two failures in a row, a failure while a server ends, a failed first fill *)
(* before a recovery, a wedged load in a server that ends and in one that     *)
(* does not                                                                 *)
Trouble == {Budget(1, 0, 0, 1, 0, 0, 0), Budget(0, 1, 0, 0, 1, 0, 0), Budget(0, 0, 0, 2, 0, 0, 0),
            Budget(0, 0, 0, 0, 1, 0, 1), Budget(0, 0, 0, 1, 0, 0, 1), Budget(0, 0, 0, 1, 0, 1, 0),
            Budget(0, 0, 1, 0, 0, 0, 1), Budget(0, 0, 2, 0, 0, 0, 0)}

(* at most one process that may not be opened or asked for its birth         *)
Accesses ==
    {[b \in 1 .. MaxBirths |-> "all"]} \cup
    {[b \in 1 .. MaxBirths |-> IF b = g THEN how ELSE "all"] :
        g \in 1 .. MaxBirths, how \in Access}

machineVars == <<part, sidecarVars, vars>>

(* where only one process is looked at, every server is gone                *)
NoServers ==
    /\ sup = [s \in Servers |-> [NewSupervisor EXCEPT !.at = "gone", !.stop = TRUE]]
    /\ kid = [c \in Children |-> NewKid]
    /\ mutex = NoChild
    /\ call = [k \in Servers \X Callers |-> NewCall]
    /\ left = Budget(0, 0, 2, 0, 0, 0, 0)

MachineInit ==
    /\ Init
    /\ access \in Accesses
    /\ \/ /\ part = "model" /\ SidecarInit
          /\ depth = 1 /\ stdin = "console" /\ \A b \in 1 .. MaxBirths : access[b] = "all"
       \/ part = "process" /\ NoServers

inModel == part = "model" /\ UNCHANGED <<part, vars>>
inProcess == part = "process" /\ UNCHANGED <<part, sidecarVars>>

MachineNext ==
    \/ inModel /\ SidecarNext
    \/ inProcess /\ Next

(* the fairness of the two modules, each for behaviours of its part          *)
Fairness ==
    /\ \A c \in Children : WF_machineVars(Child(c) /\ inModel)
    /\ \A x \in Servers :
          /\ WF_machineVars(Loader(x) /\ inModel)
          /\ WF_machineVars(Gone(x) /\ inModel)
          /\ \A k \in Callers : WF_machineVars(Caller(x, k) /\ inModel)
    /\ WF_machineVars(Watching /\ inProcess)

MachineSpec == MachineInit /\ [][MachineNext]_machineVars /\ Fairness

=============================================================================
