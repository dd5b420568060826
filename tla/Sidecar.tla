------------------------------ MODULE Sidecar ------------------------------
(***************************************************************************)
(* The embedding model runs in a child process of each server              *)
(* (embeddings/sidecar.py), supervised by embeddings/sidecar_client.py.    *)
(* All servers of a machine load the model one after the other, under the  *)
(* mutex of embeddings/_load_mutex.py.                                     *)
(*                                                                         *)
(* In every server one thread loads the model at the start and becomes the *)
(* recovery thread; each tool call that needs a vector is a thread of its  *)
(* own.  They share the supervisor's current child, its degraded flag and  *)
(* the error text, and reach them under one lock, but not across a wait.   *)
(***************************************************************************)
EXTENDS Naturals, FiniteSets

CONSTANTS Servers,
          Callers,       \* threads of one server that ask for vectors
          MaxChildren,   \* bound on child processes started
          MaxAttempts,   \* sidecar_max_retry_attempts
          Budgets        \* bounds: each says how often every one of Events happens

Events == {"spawnfail", "loadfail", "wedge", "crash", "timeout", "syncfail", "exit"}

NoChild == 0
Children == 1..MaxChildren

VARIABLES
    sup,     \* [Servers -> the supervisor and its loading or recovery thread]
    kid,     \* [Children -> the child process]
    mutex,   \* the child that owns the load mutex; it may have died since
    call,    \* [Servers \X Callers -> the call under way]
    left     \* [Events -> how often each may still happen]

sidecarVars == <<sup, kid, mutex, call, left>>

(* at: where the thread is.  own: the child it is loading.  process,        *)
(* degraded, ready, failed: _process, _degraded, embedding_ready and         *)
(* whether embedding_error is set.  unsynced: the thread that loads and then *)
(* fills the index failed in the latter.                                    *)
NewSupervisor == [at |-> "attempt", own |-> NoChild, tries |-> 0, process |-> NoChild,
                  degraded |-> FALSE, ready |-> FALSE, failed |-> FALSE, stop |-> FALSE, unsynced |-> FALSE]

NewKid == [at |-> "unborn", owner |-> NoChild]
NewCall == [at |-> "idle", proc |-> NoChild]

SidecarInit ==
    /\ sup = [s \in Servers |-> NewSupervisor]
    /\ kid = [c \in Children |-> NewKid]
    /\ mutex = NoChild
    /\ call = [k \in Servers \X Callers |-> NewCall]
    /\ left \in Budgets

Spend(event) == left[event] > 0 /\ left' = [left EXCEPT ![event] = @ - 1]

Alive(c) == c # NoChild /\ kid[c].at \notin {"unborn", "dead"}

Kill(c) == kid' = IF c = NoChild THEN kid ELSE [kid EXCEPT ![c].at = "dead"]

Running(s) == sup[s].at # "gone"

-----------------------------------------------------------------------------
(* The child.                                                               *)

(* the first request is to load: report it, then wait for the mutex          *)
WaitForLock(c) ==
    /\ kid[c].at = "started"
    /\ Running(kid[c].owner)
    /\ kid' = [kid EXCEPT ![c].at = "lockwait"]
    /\ UNCHANGED <<sup, mutex, call, left>>

(* how the wait ended is reported before the load; a child whose report no   *)
(* server reads ends on the broken pipe, and does not release the mutex      *)
StartsLoading(c) ==
    kid' = [kid EXCEPT ![c].at = IF Running(kid[c].owner) THEN "loading" ELSE "dead"]

(* a mutex whose owner died counts as acquired                              *)
Acquire(c) ==
    /\ kid[c].at = "lockwait"
    /\ ~ Alive(mutex)
    /\ mutex' = c
    /\ StartsLoading(c)
    /\ UNCHANGED <<sup, call, left>>

(* the wait has a time limit: then the child loads without the mutex         *)
Expires(c) ==
    /\ kid[c].at = "lockwait"
    /\ Alive(mutex)
    /\ StartsLoading(c)
    /\ UNCHANGED <<sup, mutex, call>>

WaitExpires(c) == Expires(c) /\ Spend("timeout")

\* Mutant: the wait behind another's load has no end.
WaitsForever(c) == FALSE

(* behind a load that never ends it always expires                          *)
WaitsOut(c) == Expires(c) /\ kid[mutex].at = "wedged" /\ UNCHANGED left

Release(c) == mutex' = IF mutex = c THEN NoChild ELSE mutex

Loads(c) ==
    /\ kid[c].at = "loading"
    /\ Release(c)
    /\ \/ kid' = [kid EXCEPT ![c].at = "serving"] /\ UNCHANGED left
       \/ kid' = [kid EXCEPT ![c].at = "refusing"] /\ Spend("loadfail")
    /\ UNCHANGED <<sup, call>>

(* the import hangs inside a native library, the mutex held                 *)
Wedges(c) ==
    /\ kid[c].at = "loading"
    /\ Spend("wedge")
    /\ kid' = [kid EXCEPT ![c].at = "wedged"]
    /\ UNCHANGED <<sup, mutex, call>>

Crash(c) ==
    /\ Alive(c)
    /\ Spend("crash")
    /\ Kill(c)
    /\ UNCHANGED <<sup, mutex, call>>


(* main reads requests from a pipe: it ends when the server's end is closed.  *)
(* The ancestor watch of a child is on the launcher between the two, which   *)
(* outlives a server; a child that waits for the mutex or loads reads nothing *)
FollowsServer(c) ==
    /\ kid[c].at \in {"started", "serving", "refusing"}
    /\ ~ Running(kid[c].owner)
    /\ Kill(c)
    /\ UNCHANGED <<sup, mutex, call, left>>

-----------------------------------------------------------------------------
(* The loading thread: ensure_ready, then _recovery_loop.                   *)

Thread(s, step) == sup[s].at = step

(* _attempt_load: start a child and make it the current one                 *)
Spawn(s) ==
    /\ Thread(s, "attempt")
    /\ \E c \in Children :
          /\ kid[c].at = "unborn" /\ \A b \in 1..(c - 1) : kid[b].at # "unborn"
          /\ kid' = [kid EXCEPT ![c] = [at |-> "started", owner |-> s]]
          /\ sup' = [sup EXCEPT ![s].at = "loading", ![s].own = c, ![s].process = c]
    /\ UNCHANGED <<mutex, call, left>>

SpawnFails(s) ==
    /\ Thread(s, "attempt")
    /\ Spend("spawnfail")
    /\ sup' = [sup EXCEPT ![s].at = "failed"]
    /\ UNCHANGED <<kid, mutex, call>>

(* send_load returns                                                        *)
LoadAnswered(s) ==
    /\ Thread(s, "loading")
    /\ kid[sup[s].own].at = "serving"
    /\ sup' = [sup EXCEPT ![s].at = "loaded"]
    /\ UNCHANGED <<kid, mutex, call, left>>

(* ... or raises: an error answer, the end of the child, or no answer in    *)
(* time; the child is killed                                                *)
LoadRaises(s) ==
    /\ Thread(s, "loading")
    /\ \/ ~ Alive(sup[s].own) /\ UNCHANGED left
       \/ kid[sup[s].own].at \in {"refusing", "wedged"} /\ UNCHANGED left
       \/ kid[sup[s].own].at \notin {"refusing", "wedged"} /\ Spend("timeout")
    /\ Kill(sup[s].own)
    /\ sup' = [sup EXCEPT ![s].at = "drop"]
    /\ UNCHANGED <<mutex, call>>

DropChild(s) ==
    /\ Thread(s, "drop")
    /\ sup' = [sup EXCEPT ![s].at = "failed", ![s].own = NoChild,
                          ![s].process = IF @ = sup[s].own THEN NoChild ELSE @]
    /\ UNCHANGED <<kid, mutex, call, left>>

(* tries counts only before ready; afterwards a failed attempt waits        *)
AttemptFails(s) ==
    /\ Thread(s, "failed")
    /\ LET x == [sup[s] EXCEPT !.tries = IF sup[s].ready THEN @ ELSE @ + 1]
       IN  sup' = [sup EXCEPT ![s] =
              IF x.ready THEN [x EXCEPT !.at = "wait"]
              ELSE IF x.tries < MaxAttempts THEN [x EXCEPT !.at = "attempt"]
              ELSE [x EXCEPT !.at = "wait", !.ready = TRUE, !.degraded = TRUE,
                             !.failed = TRUE]]
    /\ UNCHANGED <<kid, mutex, call, left>>

\* Mutant: the error text of the failure recovered from stays.
PublishOnly(s) ==
    /\ Thread(s, "loaded")
    /\ sup' = [sup EXCEPT ![s].at = "wait", ![s].own = NoChild, ![s].ready = TRUE,
                          ![s].degraded = FALSE]
    /\ UNCHANGED <<kid, mutex, call, left>>

(* the generator and the error text are published together                  *)
Publish(s) ==
    /\ Thread(s, "loaded")
    /\ sup' = [sup EXCEPT ![s].at = "wait", ![s].own = NoChild, ![s].ready = TRUE,
                          ![s].degraded = FALSE, ![s].failed = FALSE]
    /\ UNCHANGED <<kid, mutex, call, left>>

WantsRetry(s) == sup[s].degraded

(* _recovery_loop wakes on its period or on demand, which comes to the same *)
Recover(s) ==
    /\ Thread(s, "wait")
    /\ sup[s].stop \/ WantsRetry(s)
    /\ sup' = [sup EXCEPT ![s].at = IF sup[s].stop THEN "stopped" ELSE "attempt"]
    /\ UNCHANGED <<kid, mutex, call, left>>

(* the rest of _load_embeddings_and_sync raises: the error text stands until *)
(* the next recovery, if there is one                                       *)
SyncFails(s) ==
    /\ Running(s) /\ sup[s].ready
    /\ Spend("syncfail")
    /\ sup' = [sup EXCEPT ![s].failed = TRUE, ![s].unsynced = TRUE]
    /\ UNCHANGED <<kid, mutex, call>>

-----------------------------------------------------------------------------
(* A tool call: generate.                                                   *)

Doing(s, k, step) == call[<<s, k>>].at = step /\ Running(s)

(* degraded and process are read together; a degraded supervisor refuses     *)
Ask(s, k) ==
    /\ Doing(s, k, "idle")
    /\ sup[s].ready
    /\ call' = [call EXCEPT ![<<s, k>>] =
          IF sup[s].degraded \/ sup[s].failed \/ sup[s].process = NoChild
          THEN [at |-> "refused", proc |-> NoChild]
          ELSE [at |-> "sent", proc |-> sup[s].process]]
    /\ UNCHANGED <<sup, kid, mutex, left>>

Refused(s, k) ==
    /\ Doing(s, k, "refused")
    /\ call' = [call EXCEPT ![<<s, k>>] = NewCall]
    /\ UNCHANGED <<sup, kid, mutex, left>>

Answered(s, k) ==
    /\ Doing(s, k, "sent")
    /\ kid[call[<<s, k>>].proc].at = "serving"
    /\ call' = [call EXCEPT ![<<s, k>>] = NewCall]
    /\ UNCHANGED <<sup, kid, mutex, left>>

(* the child ended, refused, or did not answer in time                      *)
Raises(s, k) ==
    /\ Doing(s, k, "sent")
    /\ \/ kid[call[<<s, k>>].proc].at # "serving" /\ UNCHANGED left
       \/ kid[call[<<s, k>>].proc].at = "serving" /\ Spend("timeout")
    /\ call' = [call EXCEPT ![<<s, k>>].at = "kill"]
    /\ UNCHANGED <<sup, kid, mutex>>

KillChild(s, k) ==
    /\ Doing(s, k, "kill")
    /\ Kill(call[<<s, k>>].proc)
    /\ call' = [call EXCEPT ![<<s, k>>].at = "mark"]
    /\ UNCHANGED <<sup, mutex, left>>

\* Mutant: the flag is not set.
DegradedWithout(x, proc) ==
    [x EXCEPT !.process = IF @ = proc THEN NoChild ELSE @, !.failed = TRUE]

(* whichever child failed, the supervisor is degraded now                   *)
Degraded(x, proc) ==
    [x EXCEPT !.process = IF @ = proc THEN NoChild ELSE @,
              !.degraded = TRUE, !.failed = TRUE]

MarkDegraded(s, k) ==
    /\ Doing(s, k, "mark")
    /\ sup' = [sup EXCEPT ![s] = Degraded(@, call[<<s, k>>].proc)]
    /\ call' = [call EXCEPT ![<<s, k>>] = NewCall]
    /\ UNCHANGED <<kid, mutex, left>>

-----------------------------------------------------------------------------
(* The server ends: shutdown kills the current child, and what another       *)
(* thread is starting meanwhile is left to FollowsServer.                   *)

Shutdown(s) ==
    /\ Running(s) /\ ~ sup[s].stop
    /\ Spend("exit")
    /\ Kill(sup[s].process)
    /\ sup' = [sup EXCEPT ![s].stop = TRUE, ![s].process = NoChild]
    /\ UNCHANGED <<mutex, call>>

Leaves(s) ==
    /\ sup' = [sup EXCEPT ![s].at = "gone", ![s].stop = TRUE]
    /\ call' = [k \in DOMAIN call |-> IF k[1] = s THEN NewCall ELSE call[k]]
    /\ UNCHANGED <<kid, mutex>>

Gone(s) == Running(s) /\ sup[s].stop /\ Leaves(s) /\ UNCHANGED left

(* _exit_now (lifecycle): os._exit, without a shutdown                       *)
ExitsNow(s) == Running(s) /\ Spend("exit") /\ Leaves(s)

-----------------------------------------------------------------------------
Child(c) == WaitForLock(c) \/ Acquire(c) \/ WaitsOut(c) \/ Loads(c) \/ FollowsServer(c)

Loader(s) ==
    \/ Spawn(s) \/ LoadAnswered(s) \/ LoadRaises(s) \/ DropChild(s)
    \/ AttemptFails(s) \/ Publish(s) \/ Recover(s)

Caller(s, k) ==
    \/ Refused(s, k) \/ Answered(s, k) \/ Raises(s, k)
    \/ KillChild(s, k) \/ MarkDegraded(s, k)

SidecarNext ==
    \/ \E c \in Children : Child(c) \/ WaitExpires(c) \/ Wedges(c) \/ Crash(c)
    \/ \E s \in Servers :
          \/ Loader(s) \/ SpawnFails(s) \/ SyncFails(s)
          \/ Shutdown(s) \/ Gone(s) \/ ExitsNow(s)
    \/ \E s \in Servers, k \in Callers : Ask(s, k) \/ Caller(s, k)

(* every thread and every child that can take a step takes one some time;    *)
(* nobody need call, and nothing need fail                                   *)
SidecarFairness ==
    /\ \A c \in Children : WF_sidecarVars(Child(c))
    /\ \A s \in Servers : WF_sidecarVars(Loader(s)) /\ WF_sidecarVars(Gone(s))
    /\ \A s \in Servers, k \in Callers : WF_sidecarVars(Caller(s, k))

SidecarSpec == SidecarInit /\ [][SidecarNext]_sidecarVars /\ SidecarFairness

-----------------------------------------------------------------------------
(* Properties. *)

(* What generate relies on: a supervisor that is ready and not degraded has  *)
(* a current child that loaded the model, unless it died unnoticed or the    *)
(* server is stopping.                                                      *)
ReadyMeansLoaded ==
    \A s \in Servers :
        Running(s) /\ sup[s].ready /\ ~ sup[s].degraded /\ ~ sup[s].stop =>
            /\ sup[s].process # NoChild
            /\ kid[sup[s].process].at \in {"serving", "dead"}

(* Calls are refused with an error text exactly while the supervisor is      *)
(* degraded, or the first fill of the index failed: no other failure leaves  *)
(* its text behind after a recovery, and none is hidden.                    *)
ErrorMeansDegraded ==
    \A s \in Servers :
        Running(s) => /\ sup[s].degraded => sup[s].failed
                      /\ sup[s].failed => sup[s].degraded \/ sup[s].unsynced

Serves(s) == sup[s].ready /\ ~ sup[s].degraded

(* "recovery must never be permanent" the other way round: however loads,   *)
(* calls and crashes interleave, and though the mutex is held by a wedged    *)
(* child that nobody kills, a server that does not serve its search yet, or   *)
(* no longer, serves it some time, or stops.                                *)
SearchComesBack ==
    \A s \in Servers :
        ~ Serves(s) ~> Serves(s) \/ sup[s].stop


(* "Kills+discards the process on ANY failure" (_attempt_load): a running    *)
(* server has no child but the current one and those some thread is about    *)
(* to kill or to give up.                                                   *)
NoStrayChild ==
    \A c \in Children :
        Alive(c) /\ Running(kid[c].owner) =>
            LET s == kid[c].owner
            IN  \/ c \in {sup[s].process, sup[s].own}
                \/ \E k \in Callers : call[<<s, k>>].proc = c
                \/ sup[s].stop

=============================================================================
