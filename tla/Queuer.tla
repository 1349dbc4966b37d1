------------------------------- MODULE Queuer -------------------------------
(***************************************************************************)
(* How a Queuer serves one queue (cmd/runner/queues.go): the subscription  *)
(* that align keeps for it (cmd/runner/subscriptions.go), the producer and *)
(* the filterWork goroutines it starts, the doWork session with its fetch  *)
(* loop and its deletion watch, the fetchWork workers, and the backoff     *)
(* they share (internal/runner/backoffs.go).                               *)
(*                                                                         *)
(* Queues of a Queuer share nothing but their mutexes, so one queue is     *)
(* enough.  A session ends with its watch; its fetch loop and its workers  *)
(* may still be running when the next session starts.                      *)
(***************************************************************************)
EXTENDS Integers, FiniteSets

CONSTANTS
    Sessions,      \* doWork invocations that may overlap
    Workers,       \* fetchWork goroutines that may overlap
    MaxFilters,    \* bound: filterWork goroutines not yet past their claim
    MaxMissed,     \* bound: consecutive missing observations that are counted
    None           \* no session

ASSUME ConstantsAssumption ==
    /\ MaxFilters \in Nat /\ MaxMissed \in Nat \ {0, 1}
    /\ None \notin Sessions

VARIABLES
    exact,         \* the kind of queue: its Exists finds a queue that is there
    refreshing,    \* Queuer.run has not returned
    onServer,      \* the queue exists
    headroom,      \* what the queue's experiments need fits the machine now
    ctxDone,       \* the context of the project is done
    producing,     \* producer has not returned
    subscribed,    \* qr.subs has the queue
    rscKnown,      \* Subscription.rsc is set
    backoff,       \* backoffs has an unexpired entry for the queue
    busy,          \* qr.busyQs has the queue
    filters,       \* filterWork goroutines before their claim
    state,         \* per session: free, claimed or watch
    cancelled,     \* per session: cCtx is done
    fetching,      \* per session: startFetch has not returned
    terminateAt,   \* per session: the cool down is running
    missed,        \* per session: consecutive answers that the queue is missing
    pc, of         \* per worker: step, session it works for, or None

env     == <<exact, refreshing, onServer, headroom, ctxDone>>
subVars == <<subscribed, rscKnown>>
claims  == <<producing, busy, filters>>
sesVars == <<state, cancelled, fetching, terminateAt, missed>>
wrkVars == <<pc, of>>
vars    == <<env, subVars, claims, backoff, sesVars, wrkVars>>

Init ==
    /\ exact \in BOOLEAN /\ refreshing = TRUE
    /\ onServer = TRUE /\ headroom = TRUE /\ ctxDone = FALSE
    /\ producing = TRUE
    /\ subscribed = FALSE /\ rscKnown = FALSE
    /\ backoff = FALSE /\ busy = FALSE /\ filters = 0
    /\ state = [s \in Sessions |-> "free"]
    /\ cancelled = [s \in Sessions |-> FALSE]
    /\ fetching = [s \in Sessions |-> FALSE]
    /\ terminateAt = [s \in Sessions |-> FALSE]
    /\ missed = [s \in Sessions |-> 0]
    /\ pc = [w \in Workers |-> "free"]
    /\ of = [w \in Workers |-> None]

\* check: no subscription or no known resources means maybe.
check == subscribed /\ rscKnown => headroom

Unused(s) == /\ state[s] = "free" /\ ~fetching[s]
             /\ \A w \in Workers : of[w] # s
-----------------------------------------------------------------------------
(* The environment.                                                        *)

ServerChange ==
    /\ onServer' = ~onServer
    /\ UNCHANGED <<exact, refreshing, headroom, ctxDone, subVars, claims, backoff, sesVars,
                   wrkVars>>

HeadroomChange ==
    /\ headroom' = ~headroom
    /\ UNCHANGED <<exact, refreshing, onServer, ctxDone, subVars, claims, backoff, sesVars,
                   wrkVars>>

\* Projects.Cycle or the shutdown of the service cancels the project, and run
\* returns.
CancelProject ==
    /\ ~ctxDone
    /\ ctxDone' = TRUE /\ refreshing' = FALSE
    /\ UNCHANGED <<exact, onServer, headroom, subVars, claims, backoff, sesVars, wrkVars>>

\* The entry of the TTL cache expires.
BackoffExpires ==
    /\ backoff
    /\ backoff' = FALSE
    /\ UNCHANGED <<env, subVars, claims, sesVars, wrkVars>>
-----------------------------------------------------------------------------
(* Subscriptions and the producer.                                         *)

\* refresh: align adds the queue with a new Subscription, or deletes it.
Refresh ==
    /\ refreshing
    /\ subscribed # onServer
    /\ subscribed' = onServer
    /\ rscKnown' = FALSE
    /\ UNCHANGED <<env, claims, backoff, sesVars, wrkVars>>

\* A refresh that fails ends Queuer.run with its error; nothing refreshes its
\* subscriptions any more, while the producer and the sessions go on.
RefreshFails ==
    /\ refreshing
    /\ refreshing' = FALSE
    /\ UNCHANGED <<exact, onServer, headroom, ctxDone, subVars, claims, backoff, sesVars,
                   wrkVars>>

\* A tick of the producer hands a queue that is not busy to filterWork.
Produce ==
    /\ producing /\ subscribed /\ ~busy /\ check
    /\ filters < MaxFilters
    /\ filters' = filters + 1
    /\ UNCHANGED <<env, subVars, producing, busy, backoff, sesVars, wrkVars>>

StopProducer ==
    /\ producing /\ ctxDone
    /\ producing' = FALSE
    /\ UNCHANGED <<env, subVars, busy, filters, backoff, sesVars, wrkVars>>

\* filterWork gives up: a backoff is in play, or the queue is busy.
FilterDrops ==
    /\ filters > 0
    /\ backoff \/ busy
    /\ filters' = filters - 1
    /\ UNCHANGED <<env, subVars, producing, busy, backoff, sesVars, wrkVars>>

\* Mutation: the queue is claimed without looking whether it is busy.
ClaimAnyway(s) ==
    /\ filters > 0 /\ Unused(s)
    /\ busy' = TRUE
    /\ filters' = filters - 1
    /\ state' = [state EXCEPT ![s] = "claimed"]
    /\ cancelled' = [cancelled EXCEPT ![s] = FALSE]
    /\ missed' = [missed EXCEPT ![s] = 0]
    /\ UNCHANGED <<env, subVars, producing, backoff, fetching, terminateAt, wrkVars>>

\* filterWork claims the queue, under the lock, and enters doWork.  Its check
\* of the backoff came before, so the backoff may have begun meanwhile.
Claim(s) ==
    /\ filters > 0 /\ Unused(s)
    /\ ~busy
    /\ busy' = TRUE
    /\ filters' = filters - 1
    /\ state' = [state EXCEPT ![s] = "claimed"]
    /\ cancelled' = [cancelled EXCEPT ![s] = FALSE]
    /\ missed' = [missed EXCEPT ![s] = 0]
    /\ UNCHANGED <<env, subVars, producing, backoff, fetching, terminateAt, wrkVars>>
-----------------------------------------------------------------------------
(* The doWork session.                                                     *)

\* The deferred delete from busyQs when doWork returns; terminateAt is a local
\* variable that goes with it.
Release(s) ==
    /\ state' = [state EXCEPT ![s] = "free"]
    /\ terminateAt' = [terminateAt EXCEPT ![s] = FALSE]
    /\ busy' = FALSE

\* Mutation: the early return of doWork leaves the queue busy.
BackedOffBusy(s) ==
    /\ state[s] = "claimed" /\ backoff
    /\ state' = [state EXCEPT ![s] = "free"]
    /\ UNCHANGED <<env, subVars, claims, backoff, cancelled, fetching, terminateAt, missed, wrkVars>>

\* doWork finds a backoff and returns at once ...
BackedOff(s) ==
    /\ state[s] = "claimed" /\ backoff
    /\ Release(s)
    /\ UNCHANGED <<env, subVars, producing, filters, backoff, cancelled, fetching,
                   missed, wrkVars>>

\* ... or starts DualWait and the fetch loop, and watches the queue.
DoWork(s) ==
    /\ state[s] = "claimed" /\ ~backoff
    /\ state' = [state EXCEPT ![s] = "watch"]
    /\ fetching' = [fetching EXCEPT ![s] = TRUE]
    /\ UNCHANGED <<env, subVars, claims, backoff, cancelled, terminateAt, missed, wrkVars>>

\* Mutation: only the session's own context is waited for.
DualWaitDeaf(s) ==
    /\ state[s] = "watch" /\ cancelled[s]
    /\ cancelled' = [cancelled EXCEPT ![s] = TRUE]
    /\ UNCHANGED <<env, subVars, claims, backoff, state, fetching, terminateAt, missed, wrkVars>>

\* DualWait passes the end of the project on to the session.
DualWait(s) ==
    /\ state[s] = "watch" /\ ctxDone /\ ~cancelled[s]
    /\ cancelled' = [cancelled EXCEPT ![s] = TRUE]
    /\ UNCHANGED <<env, subVars, claims, backoff, state, fetching, terminateAt, missed, wrkVars>>

CountMissed(s) ==
    missed' = [missed EXCEPT ![s] = IF @ < MaxMissed THEN @ + 1 ELSE @]

\* What Exists answers.  RabbitMQ.Exists asks the broker.  SQS.Exists looks for
\* a whole URL at the end of the subscription, which is "region:name", and
\* LocalQueue.Exists joins the root directory with a path that already starts
\* with it: both answer that a queue which is there is not.
Exists == exact /\ onServer

\* watchQueueDelete: the queue is there, the cool down is off.
WatchFound(s) ==
    /\ state[s] = "watch" /\ Exists
    /\ terminateAt' = [terminateAt EXCEPT ![s] = FALSE]
    /\ missed' = [missed EXCEPT ![s] = 0]
    /\ UNCHANGED <<env, subVars, claims, backoff, state, cancelled, fetching, wrkVars>>

\* Mutation: no cool down, the first missing answer cancels.
WatchMissingAtOnce(s) ==
    /\ state[s] = "watch" /\ ~Exists
    /\ CountMissed(s)
    /\ cancelled' = [cancelled EXCEPT ![s] = TRUE]
    /\ Release(s)
    /\ UNCHANGED <<env, subVars, producing, filters, backoff, fetching, wrkVars>>

\* watchQueueDelete: the queue is missing.  The first answer starts the cool
\* down.  The next tick is one cool down later to within the latency of the
\* two Exists calls: either the cool down is over and the session is
\* cancelled, or it is not quite and terminateAt is reset all the same.
WatchMissing(s) ==
    /\ state[s] = "watch" /\ ~Exists
    /\ CountMissed(s)
    /\ \/ /\ ~terminateAt[s]
          /\ terminateAt' = [terminateAt EXCEPT ![s] = TRUE]
          /\ UNCHANGED <<state, busy, cancelled>>
       \/ /\ terminateAt[s]
          /\ cancelled' = [cancelled EXCEPT ![s] = TRUE]
          /\ Release(s)
       \/ /\ terminateAt[s]
          /\ terminateAt' = [terminateAt EXCEPT ![s] = FALSE]
          /\ UNCHANGED <<state, busy, cancelled>>
    /\ UNCHANGED <<env, subVars, producing, filters, backoff, fetching, wrkVars>>

\* watchQueueDelete sees the end of the session.
WatchDone(s) ==
    /\ state[s] = "watch" /\ cancelled[s]
    /\ Release(s)
    /\ UNCHANGED <<env, subVars, producing, filters, backoff, cancelled, fetching,
                   missed, wrkVars>>

\* A tick of startFetch outside a backoff starts a worker.
Tick(s, w) ==
    /\ fetching[s] /\ ~backoff
    /\ pc[w] = "free"
    /\ pc' = [pc EXCEPT ![w] = "check"]
    /\ of' = [of EXCEPT ![w] = s]
    /\ UNCHANGED <<env, subVars, claims, backoff, sesVars>>

\* startFetch sees the end of the session.
FetchDone(s) ==
    /\ fetching[s] /\ cancelled[s]
    /\ fetching' = [fetching EXCEPT ![s] = FALSE]
    /\ UNCHANGED <<env, subVars, claims, backoff, state, cancelled, terminateAt, missed, wrkVars>>
-----------------------------------------------------------------------------
(* fetchWork.                                                              *)

Goto(w, step) == pc' = [pc EXCEPT ![w] = step]

\* The result of qr.check, capacityMaybe, only words a log message.
Check(w) ==
    /\ pc[w] = "check"
    /\ Goto(w, "hasWork")
    /\ UNCHANGED <<env, subVars, claims, backoff, sesVars, of>>

\* HasWork says there is work, also of a missing queue (SQS always does), or
\* that there is none, or fails.
HasWork(w) ==
    /\ pc[w] = "hasWork"
    /\ Goto(w, "inc") \/ Goto(w, "penalty")
    /\ UNCHANGED <<env, subVars, claims, backoff, sesVars, of>>

\* incWorkers, and Work is called.  inFlight, which it counts, is read nowhere.
IncWorkers(w) ==
    /\ pc[w] = "inc"
    /\ Goto(w, "work")
    /\ UNCHANGED <<env, subVars, claims, backoff, sesVars, of>>

\* tasker.Work returns and decWorkers follows.
DecWorkers(w) ==
    /\ pc[w] = "work"
    /\ Goto(w, "resources")
    /\ UNCHANGED <<env, subVars, claims, backoff, sesVars, of>>

\* setResources, when Work gave a resource block and the queue is subscribed.
SetResources(w) ==
    /\ pc[w] = "resources"
    /\ rscKnown' \in {rscKnown, subscribed}
    /\ Goto(w, "penalty")
    /\ UNCHANGED <<env, subscribed, claims, backoff, sesVars, of>>

\* The penalty is set unless one is in effect: it is in effect afterwards.
Penalty(w) ==
    /\ pc[w] = "penalty"
    /\ backoff' = TRUE
    /\ Goto(w, "free")
    /\ of' = [of EXCEPT ![w] = None]
    /\ UNCHANGED <<env, subVars, claims, sesVars>>

fetchWork(w) ==
    \/ Check(w) \/ HasWork(w) \/ IncWorkers(w) \/ DecWorkers(w)
    \/ SetResources(w) \/ Penalty(w)
-----------------------------------------------------------------------------
Next ==
    \/ ServerChange \/ HeadroomChange \/ CancelProject \/ BackoffExpires
    \/ Refresh \/ RefreshFails \/ Produce \/ StopProducer \/ FilterDrops
    \/ \E s \in Sessions :
          \/ Claim(s) \/ BackedOff(s) \/ DoWork(s) \/ DualWait(s)
          \/ WatchFound(s) \/ WatchMissing(s) \/ WatchDone(s) \/ FetchDone(s)
          \/ \E w \in Workers : Tick(s, w)
    \/ \E w \in Workers : fetchWork(w)

Spec == Init /\ [][Next]_vars

\* Tickers keep firing, a context that is done is seen, goroutines keep
\* running and entries of the TTL cache expire.  A tick of the fetch loop, some
\* seconds after it started, is not outrun by the watch, which ends the session
\* at its second tick at the earliest, two cool downs of minutes later: strong
\* fairness.  Work is taken to return, which Process bounds with its context.
Fairness ==
    /\ WF_vars(BackoffExpires) /\ WF_vars(Refresh) /\ WF_vars(Produce)
    /\ WF_vars(StopProducer)
    /\ WF_vars(FilterDrops \/ \E s \in Sessions : Claim(s))
    /\ \A s \in Sessions :
          /\ WF_vars(BackedOff(s) \/ DoWork(s)) /\ WF_vars(DualWait(s))
          /\ WF_vars(WatchDone(s)) /\ WF_vars(FetchDone(s))
    /\ SF_vars(\E s \in Sessions, w \in Workers : Tick(s, w))
    /\ \A w \in Workers : WF_vars(fetchWork(w))

FairSpec == Spec /\ Fairness
-----------------------------------------------------------------------------
(* Properties.                                                             *)

TypeOK ==
    /\ exact \in BOOLEAN /\ refreshing \in BOOLEAN
    /\ onServer \in BOOLEAN /\ headroom \in BOOLEAN /\ ctxDone \in BOOLEAN
    /\ producing \in BOOLEAN
    /\ subscribed \in BOOLEAN /\ rscKnown \in BOOLEAN
    /\ backoff \in BOOLEAN /\ busy \in BOOLEAN /\ filters \in 0..MaxFilters
    /\ state \in [Sessions -> {"free", "claimed", "watch"}]
    /\ cancelled \in [Sessions -> BOOLEAN] /\ fetching \in [Sessions -> BOOLEAN]
    /\ terminateAt \in [Sessions -> BOOLEAN] /\ missed \in [Sessions -> 0..MaxMissed]
    /\ pc \in [Workers -> {"free", "check", "hasWork", "inc", "work", "resources", "penalty"}]
    /\ of \in [Workers -> Sessions \cup {None}]

\* filterWork "checks that the subscription is not already being processed
\* concurrently": the queue has one session at a time, it is busy exactly while
\* it has one, and a fetch loop that was not cancelled is that session's,
\* although loops of earlier sessions may still be winding down.
OneLiveSession ==
    /\ \A s, t \in Sessions : state[s] # "free" /\ state[t] # "free" => s = t
    /\ busy <=> \E s \in Sessions : state[s] # "free"
    /\ \A s \in Sessions : fetching[s] /\ ~cancelled[s] => state[s] = "watch"

\* A queue that is reported missing once does not have its experiments killed:
\* a session is cancelled only with the project, or after the queue was
\* reported missing twice with no sign of it in between.  Of an SQS or file
\* queue there is never a sign, so that its sessions end at the second report
\* although the queue is there.
CoolDownBeforeCancel ==
    \A s \in Sessions : cancelled[s] /\ ~ctxDone => missed[s] >= 2

\* A queue that stays on the server of a project that goes on, with capacity,
\* is asked for work again and again, whatever backoffs were met on the way
\* and although, for SQS and file queues, each session is cancelled by a watch
\* that does not see the queue.  The subscription must be there, or a refresh
\* to make it: a Queuer whose refresh failed finds no further queue.
QueueKeepsBeingFetched ==
    <>[](onServer /\ ~ctxDone /\ headroom /\ (refreshing \/ subscribed))
       => []<>(\E w \in Workers : pc[w] = "hasWork")

\* The end of the project ends the queue's sessions, loops and workers.
ProjectEndQuiesces ==
    ctxDone ~> [](/\ ~producing /\ filters = 0 /\ ~busy
                  /\ \A s \in Sessions : state[s] = "free" /\ ~fetching[s]
                  /\ \A w \in Workers : pc[w] = "free")
=============================================================================
