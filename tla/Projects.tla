------------------------------ MODULE Projects ------------------------------
(***************************************************************************)
(* The projects of one queue service (serviceRMQ, serviceSQS,              *)
(* serviceFileQueue) and the goroutines started for them: Projects.Cycle   *)
(* starts and cancels project runners (cmd/runner/project.go), a runner    *)
(* makes a Queuer, which refreshes its subscriptions in run, looks for     *)
(* queues to serve in producer, and serves each one in a doWork session    *)
(* (cmd/runner/queues.go).                                                 *)
(*                                                                         *)
(* The map of projects holds the cancel function of a running project, nil *)
(* once it was called, and nothing for a project that is not running.      *)
(* Cycle runs under the mutex of the map; the runner, its producer and its *)
(* sessions run on their own and only see the context.                     *)
(***************************************************************************)
EXTENDS Naturals, FiniteSets, Functions

CONSTANTS
    Projs,         \* queue servers, the keys of the projects map
    Queues,        \* queue names within a project
    Runners,       \* invocations of Projects.run
    Absent,        \* no entry in the projects map
    Nil            \* the entry of a project that was cancelled

ASSUME ConstantsAssumption ==
    Absent \notin Runners /\ Nil \notin Runners /\ Absent # Nil

VARIABLES
    server,        \* queues that exist, per project
    openForBiz,    \* Kubernetes wants this runner to take work
    serving,       \* the service loop has not seen its own ctx.Done()
    projects,      \* live.projects; a cancel function is its runner
    step,          \* per runner: where Projects.run is
    proj,          \* per runner: its project
    ctxDone,       \* per runner: its context was cancelled
    producer,      \* per runner: the producer goroutine is running
    subs,          \* per runner: qr.subs
    sessions,      \* per runner: queues with a doWork session, qr.busyQs
    refreshFailed  \* history: some refresh has failed

mapVars    == <<server, openForBiz, serving, projects>>
runnerVars == <<step, proj, ctxDone, producer, subs, sessions>>
vars       == <<mapVars, runnerVars, refreshFailed>>

TypeOK ==
    /\ server \in [Projs -> SUBSET Queues]
    /\ openForBiz \in BOOLEAN /\ serving \in BOOLEAN
    /\ projects \in [Projs -> Runners \cup {Absent, Nil}]
    /\ step \in [Runners -> {"free", "new", "run", "exit"}]
    /\ proj \in [Runners -> Projs]
    /\ ctxDone \in [Runners -> BOOLEAN]
    /\ producer \in [Runners -> BOOLEAN]
    /\ subs \in [Runners -> SUBSET Queues]
    /\ sessions \in [Runners -> SUBSET Queues]
    /\ refreshFailed \in BOOLEAN

Init ==
    /\ server \in [Projs -> SUBSET Queues]
    /\ openForBiz = TRUE /\ serving = TRUE
    /\ projects = [p \in Projs |-> Absent]
    /\ step = [r \in Runners |-> "free"]
    /\ proj \in [Runners -> Projs]
    /\ ctxDone = [r \in Runners |-> FALSE]
    /\ producer = [r \in Runners |-> FALSE]
    /\ subs = [r \in Runners |-> {}]
    /\ sessions = [r \in Runners |-> {}]
    /\ refreshFailed = FALSE

\* The projects GetKnown reports: queue servers with at least one queue.
found == {p \in Projs : server[p] # {}}

\* Goroutines of r exist.
Active(r) == step[r] # "free"
Unused(r) == ~Active(r) /\ ~producer[r] /\ sessions[r] = {}
-----------------------------------------------------------------------------
(* The environment: queues come and go, Kubernetes opens and closes.       *)

ServerChange(p) ==
    /\ \E qs \in SUBSET Queues : qs # server[p] /\ server' = [server EXCEPT ![p] = qs]
    /\ UNCHANGED <<openForBiz, serving, projects, runnerVars, refreshFailed>>

\* startStateWatcher stores every state update.
StateUpdate ==
    /\ openForBiz' = ~openForBiz
    /\ UNCHANGED <<server, serving, projects, runnerVars, refreshFailed>>
-----------------------------------------------------------------------------
(* Projects.Cycle and the service loop.                                    *)

\* Mutation: a project is taken for new when its entry was cleared.
NewProjectsNil == {p \in found : projects[p] \in {Absent, Nil}}

NewProjects == {p \in found : projects[p] = Absent}

GoneProjects == {p \in Projs \ found : projects[p] \in Runners}

\* Mutation: a cancelled project loses its entry instead of keeping a nil.
CycledForgets(start) ==
    [p \in Projs |-> IF p \in NewProjects THEN start[p]
                     ELSE IF p \in GoneProjects THEN Absent
                     ELSE projects[p]]

\* The map after a cycle in which runner start[p] was started for each new
\* project p: the slot is claimed before the runner starts, and the entry of
\* a cancelled project stays, with no cancel function, for its runner to drop.
Cycled(start) ==
    [p \in Projs |-> IF p \in NewProjects THEN start[p]
                     ELSE IF p \in GoneProjects THEN Nil
                     ELSE projects[p]]

\* One tick of the service loop that gets to Cycle: a server without queues
\* is reported and skipped, and so is everything while not open.
Cycle ==
    /\ serving /\ openForBiz
    /\ found # {}
    /\ \E start \in Injection(NewProjects, {r \in Runners : Unused(r)}) :
          LET started == Range(start)
              of(r) == CHOOSE p \in NewProjects : start[p] = r
              quit == {projects[p] : p \in GoneProjects}
          IN  /\ projects' = Cycled(start)
              /\ step' = [r \in Runners |-> IF r \in started THEN "new" ELSE step[r]]
              /\ proj' = [r \in Runners |-> IF r \in started THEN of(r) ELSE proj[r]]
              /\ ctxDone' = [r \in Runners |-> IF r \in started THEN FALSE
                                               ELSE ctxDone[r] \/ r \in quit]
              /\ subs' = [r \in Runners |-> IF r \in started THEN {} ELSE subs[r]]
    /\ UNCHANGED <<server, openForBiz, serving, producer, sessions, refreshFailed>>

\* Mutation: the service loop returns without stopping its projects.
ShutdownQuietly ==
    /\ serving
    /\ serving' = FALSE
    /\ UNCHANGED <<server, openForBiz, projects, runnerVars, refreshFailed>>

\* The service's own context is done: every cancel function is called.
Shutdown ==
    /\ serving
    /\ serving' = FALSE
    /\ ctxDone' = [r \in Runners |-> ctxDone[r] \/ \E p \in Projs : projects[p] = r]
    /\ UNCHANGED <<server, openForBiz, projects, step, proj, producer,
                   subs, sessions, refreshFailed>>
-----------------------------------------------------------------------------
(* Projects.run and Queuer.run.                                            *)

\* NewQueuer succeeds and qr.run starts the producer ...
Start(r) ==
    /\ step[r] = "new"
    /\ step' = [step EXCEPT ![r] = "run"]
    /\ producer' = [producer EXCEPT ![r] = TRUE]
    /\ UNCHANGED <<mapVars, proj, ctxDone, subs, sessions, refreshFailed>>

\* ... or it fails and the runner ends.
StartFails(r) ==
    /\ step[r] = "new"
    /\ step' = [step EXCEPT ![r] = "exit"]
    /\ UNCHANGED <<mapVars, proj, ctxDone, producer, subs, sessions, refreshFailed>>

\* qr.refresh aligns the subscriptions with the queues of the server.
Refresh(r) ==
    /\ step[r] = "run"
    /\ subs' = [subs EXCEPT ![r] = server[proj[r]]]
    /\ UNCHANGED <<mapVars, step, proj, ctxDone, producer, sessions, refreshFailed>>

\* qr.refresh fails and ends qr.run; the context is not cancelled.
RefreshFailure(r) ==
    /\ step[r] = "run"
    /\ step' = [step EXCEPT ![r] = "exit"]
    /\ refreshFailed' = TRUE
    /\ UNCHANGED <<mapVars, proj, ctxDone, producer, subs, sessions>>

\* qr.run sees ctx.Done().
Stop(r) ==
    /\ step[r] = "run" /\ ctxDone[r]
    /\ step' = [step EXCEPT ![r] = "exit"]
    /\ UNCHANGED <<mapVars, proj, ctxDone, producer, subs, sessions, refreshFailed>>

\* The deferred function of Projects.run drops the project.
Exit(r) ==
    /\ step[r] = "exit"
    /\ projects' = [projects EXCEPT ![proj[r]] = Absent]
    /\ step' = [step EXCEPT ![r] = "free"]
    /\ UNCHANGED <<server, openForBiz, serving, proj, ctxDone, producer,
                   subs, sessions, refreshFailed>>
-----------------------------------------------------------------------------
(* Queuer.producer and its sessions.  A backoff, or no capacity, leaves a  *)
(* queue unserved for now: the session is simply not started.              *)

StartSession(r, q) ==
    /\ producer[r]
    /\ q \in subs[r] /\ q \notin sessions[r]
    /\ sessions' = [sessions EXCEPT ![r] = @ \cup {q}]
    /\ UNCHANGED <<mapVars, step, proj, ctxDone, producer, subs, refreshFailed>>

\* watchQueueDelete returns: the context is done or the queue is gone.
EndSession(r, q) ==
    /\ q \in sessions[r]
    /\ ctxDone[r] \/ q \notin server[proj[r]]
    /\ sessions' = [sessions EXCEPT ![r] = @ \ {q}]
    /\ UNCHANGED <<mapVars, step, proj, ctxDone, producer, subs, refreshFailed>>

\* Mutation: the producer only returns when no subscription is left.
StopProducerIdle(r) ==
    /\ producer[r] /\ ctxDone[r] /\ subs[r] = {}
    /\ producer' = [producer EXCEPT ![r] = FALSE]
    /\ UNCHANGED <<mapVars, step, proj, ctxDone, subs, sessions, refreshFailed>>

StopProducer(r) ==
    /\ producer[r] /\ ctxDone[r]
    /\ producer' = [producer EXCEPT ![r] = FALSE]
    /\ UNCHANGED <<mapVars, step, proj, ctxDone, subs, sessions, refreshFailed>>
-----------------------------------------------------------------------------
Next ==
    \/ \E p \in Projs : ServerChange(p)
    \/ StateUpdate \/ Cycle \/ Shutdown
    \/ \E r \in Runners :
          \/ Start(r) \/ StartFails(r) \/ Refresh(r) \/ RefreshFailure(r)
          \/ Stop(r) \/ Exit(r) \/ StopProducer(r)
          \/ \E q \in Queues : StartSession(r, q) \/ EndSession(r, q)

Spec == Init /\ [][Next]_vars

\* The ticker of the service loop keeps firing, select eventually takes a
\* context that is done, and goroutines keep running.  A session of a deleted
\* queue need not end: that takes watchQueueDelete's cool down.
Fairness ==
    /\ WF_vars(Cycle)
    /\ \A r \in Runners :
         /\ WF_vars(Start(r) \/ StartFails(r))
         /\ WF_vars(Stop(r)) /\ WF_vars(Exit(r)) /\ WF_vars(StopProducer(r))
         /\ \A q \in Queues : WF_vars(EndSession(r, q) /\ ctxDone[r])

FairSpec == Spec /\ Fairness
-----------------------------------------------------------------------------
(* Properties.                                                             *)

OneRunnerPerProject ==
    \A r, s \in Runners : Active(r) /\ Active(s) /\ proj[r] = proj[s] => r = s

EntriesMatchRunners ==
    \A p \in Projs :
       \/ projects[p] = Absent /\ \A r \in Runners : Active(r) => proj[r] # p
       \/ projects[p] = Nil /\ \E r \in Runners : Active(r) /\ proj[r] = p /\ ctxDone[r]
       \/ \E r \in Runners : /\ projects[p] = r /\ Active(r) /\ proj[r] = p
                             /\ serving => ~ctxDone[r]

\* "claiming the slot in our live project structure" (project.go Cycle): a
\* project has at most one runner, from the moment Cycle starts it until its
\* deferred function drops the entry, also when the project is cancelled and
\* comes back before its runner is gone.  And the entry of a project is that
\* runner's: a cancel function in the map is that of the live runner of the
\* project, whose context was not cancelled unless the whole service was, and
\* a nil entry waits for a cancelled runner.
SlotsClaimed == OneRunnerPerProject /\ EntriesMatchRunners

\* What a project started can be stopped, as long as no refresh has failed: a
\* producer or a session whose context is not done belongs to a runner whose
\* cancel function is in the map.
GoroutinesCancellable ==
    ~refreshFailed => \A r \in Runners :
       (producer[r] \/ sessions[r] # {}) /\ ~ctxDone[r] => projects[proj[r]] = r

\* filterWork "checks that the subscription is not already being processed
\* concurrently" (queues.go:366), and runners follow each other on the same
\* project: as long as no refresh has failed, a queue is served once.
QueueServedOnce ==
    ~refreshFailed => \A r, s \in Runners : \A q \in sessions[r] \cap sessions[s] :
       proj[r] = proj[s] /\ ~ctxDone[r] /\ ~ctxDone[s] => r = s

\* Nothing goes on for project p.
Quiet(p) ==
    \A r \in Runners : proj[r] = p => step[r] = "free" /\ ~producer[r] /\ sessions[r] = {}

\* "If projects have disappeared from the queue server side then kill them
\* from the running set of projects" (project.go Cycle), as long as the server
\* keeps the queues of another project and no refresh fails.
GoneProjectQuiesces ==
    \A p \in Projs :
       <>[](openForBiz /\ serving /\ p \notin found /\ found # {} /\ ~refreshFailed)
         => <>[]Quiet(p)

\* "When shutting down stop all projects" (rabbit.go, filequeue.go, sqs.go),
\* unless a refresh failed before.
ShutdownQuiesces == \A p \in Projs : ~serving ~> (Quiet(p) \/ refreshFailed)
=============================================================================
