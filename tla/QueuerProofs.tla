---------------------------- MODULE QueuerProofs ----------------------------
(***************************************************************************)
(* Proofs about Queuer for any number of sessions and workers.             *)
(*                                                                         *)
(* Of a session only the claim, the context and the watch matter, so one   *)
(* lemma shows that the steps of workers and of the environment leave them *)
(* alone.  OneLiveSession is inductive once a session that is claimed is   *)
(* known not to be cancelled; CoolDownBeforeCancel needs to know that a    *)
(* running cool down has seen one missing answer and that a watch outlives *)
(* its context only when the project ended.                                *)
(***************************************************************************)
EXTENDS Queuer, TLAPS

SessionOK ==
    \A s \in Sessions :
       /\ state[s] = "claimed" => ~cancelled[s] /\ ~fetching[s]
       /\ state[s] = "watch" /\ cancelled[s] => ctxDone
       /\ terminateAt[s] => state[s] = "watch" /\ missed[s] >= 1

Inv == TypeOK /\ SessionOK /\ OneLiveSession /\ CoolDownBeforeCancel

LEMMA InitInv == Init => Inv
<1> SUFFICES ASSUME Init PROVE Inv
  OBVIOUS
<1>1. TypeOK
  <2>1. 0 \in 0..MaxFilters /\ 0 \in 0..MaxMissed
    BY ConstantsAssumption
  <2> QED BY <2>1 DEF Init, TypeOK
<1>2. SessionOK /\ OneLiveSession /\ CoolDownBeforeCancel
  BY DEF Init, SessionOK, OneLiveSession, CoolDownBeforeCancel
<1> QED BY <1>1, <1>2 DEF Inv

\* All types are kept.
LEMMA NextType == TypeOK /\ [Next]_vars => TypeOK'
<1> SUFFICES ASSUME TypeOK, [Next]_vars PROVE TypeOK'
  OBVIOUS
<1> USE ConstantsAssumption DEF TypeOK
<1>1. CASE ServerChange \/ HeadroomChange \/ CancelProject \/ BackoffExpires
  <2>1. CASE ServerChange
    BY <2>1 DEF ServerChange, env, subVars, claims, sesVars, wrkVars
  <2>2. CASE HeadroomChange
    BY <2>2 DEF HeadroomChange, env, subVars, claims, sesVars, wrkVars
  <2>3. CASE CancelProject
    BY <2>3 DEF CancelProject, env, subVars, claims, sesVars, wrkVars
  <2>4. CASE BackoffExpires
    BY <2>4 DEF BackoffExpires, env, subVars, claims, sesVars, wrkVars
  <2> QED BY <1>1, <2>1, <2>2, <2>3, <2>4
<1>2. CASE Refresh \/ RefreshFails \/ Produce \/ StopProducer \/ FilterDrops
  <2>1. CASE Refresh
    BY <2>1 DEF Refresh, env, subVars, claims, sesVars, wrkVars
  <2>2. CASE Produce
    BY <2>2 DEF Produce, env, subVars, claims, sesVars, wrkVars
  <2>3. CASE StopProducer
    BY <2>3 DEF StopProducer, env, subVars, claims, sesVars, wrkVars
  <2>4. CASE FilterDrops
    BY <2>4 DEF FilterDrops, env, subVars, claims, sesVars, wrkVars
  <2>5. CASE RefreshFails
    BY <2>5 DEF RefreshFails, env, subVars, claims, sesVars, wrkVars
  <2> QED BY <1>2, <2>1, <2>2, <2>3, <2>4, <2>5
<1>3. ASSUME NEW s \in Sessions, Claim(s) \/ BackedOff(s) \/ DoWork(s) \/ DualWait(s)
      PROVE  TypeOK'
  <2>1. CASE Claim(s)
    BY <2>1 DEF Claim, Release, env, subVars, claims, sesVars, wrkVars
  <2>2. CASE BackedOff(s)
    BY <2>2 DEF BackedOff, Release, env, subVars, claims, sesVars, wrkVars
  <2>3. CASE DoWork(s)
    BY <2>3 DEF DoWork, Release, env, subVars, claims, sesVars, wrkVars
  <2>4. CASE DualWait(s)
    BY <2>4 DEF DualWait, Release, env, subVars, claims, sesVars, wrkVars
  <2> QED BY <1>3, <2>1, <2>2, <2>3, <2>4
<1>4. ASSUME NEW s \in Sessions, WatchFound(s) \/ WatchDone(s) \/ FetchDone(s)
      PROVE  TypeOK'
  <2>1. CASE WatchFound(s)
    BY <2>1 DEF WatchFound, Release, env, subVars, claims, sesVars, wrkVars
  <2>2. CASE WatchDone(s)
    BY <2>2 DEF WatchDone, Release, env, subVars, claims, sesVars, wrkVars
  <2>3. CASE FetchDone(s)
    BY <2>3 DEF FetchDone, Release, env, subVars, claims, sesVars, wrkVars
  <2> QED BY <1>4, <2>1, <2>2, <2>3
<1>5. ASSUME NEW s \in Sessions, WatchMissing(s) PROVE TypeOK'
  <2>1. missed' \in [Sessions -> 0..MaxMissed]
    BY <1>5 DEF WatchMissing, CountMissed
  <2>2. /\ state' \in [Sessions -> {"free", "claimed", "watch"}]
        /\ busy' \in BOOLEAN
        /\ cancelled' \in [Sessions -> BOOLEAN]
        /\ terminateAt' \in [Sessions -> BOOLEAN]
    <3>1. CASE UNCHANGED <<state, busy, cancelled>>
      BY <1>5, <3>1 DEF WatchMissing, Release
    <3>2. CASE cancelled' = [cancelled EXCEPT ![s] = TRUE] /\ Release(s)
      BY <3>2 DEF Release
    <3> QED BY <1>5, <3>1, <3>2 DEF WatchMissing
  <2>3. UNCHANGED <<env, subVars, producing, filters, backoff, fetching, wrkVars>>
    BY <1>5 DEF WatchMissing
  <2> QED BY <2>1, <2>2, <2>3 DEF env, subVars, wrkVars
<1>6. ASSUME NEW s \in Sessions, NEW w \in Workers, Tick(s, w) PROVE TypeOK'
  BY <1>6 DEF Tick, env, subVars, claims, sesVars
<1>7. ASSUME NEW w \in Workers, fetchWork(w) PROVE TypeOK'
  <2>1. CASE Check(w)
    <3>1. check \in BOOLEAN
      BY DEF check
    <3> QED BY <2>1, <3>1 DEF Check, Goto, env, subVars, claims, sesVars
  <2>2. CASE HasWork(w)
    BY <2>2 DEF HasWork, Goto, env, subVars, claims, sesVars
  <2>3. CASE IncWorkers(w)
    BY <2>3 DEF IncWorkers, Goto, env, subVars, claims, sesVars
  <2>4. CASE DecWorkers(w)
    BY <2>4 DEF DecWorkers, Goto, env, subVars, claims, sesVars
  <2>5. CASE SetResources(w)
    BY <2>5 DEF SetResources, Goto, env, subVars, claims, sesVars
  <2>6. CASE Penalty(w)
    BY <2>6 DEF Penalty, Goto, env, subVars, claims, sesVars
  <2> QED BY <1>7, <2>1, <2>2, <2>3, <2>4, <2>5, <2>6 DEF fetchWork
<1>8. CASE UNCHANGED vars
  BY <1>8 DEF vars, env, subVars, claims, sesVars, wrkVars
<1> QED BY <1>1, <1>2, <1>3, <1>4, <1>5, <1>6, <1>7, <1>8 DEF Next

\* Steps that leave the sessions and the claim alone.
LEMMA SessionsUntouched ==
    ASSUME Inv, TypeOK', UNCHANGED <<sesVars, busy>>, ctxDone => ctxDone'
    PROVE  Inv'
BY DEF Inv, SessionOK, OneLiveSession, CoolDownBeforeCancel, sesVars

LEMMA NextInv == Inv /\ [Next]_vars => Inv'
<1> SUFFICES ASSUME Inv, [Next]_vars PROVE Inv'
  OBVIOUS
<1>1. TypeOK'
  BY NextType DEF Inv
<1> USE ConstantsAssumption
<1>2. CASE ServerChange \/ HeadroomChange \/ CancelProject \/ BackoffExpires
  BY <1>1, <1>2, SessionsUntouched DEF ServerChange, HeadroomChange, CancelProject,
     BackoffExpires, env, claims
<1>3. CASE Refresh \/ RefreshFails \/ Produce \/ StopProducer \/ FilterDrops
  BY <1>1, <1>3, SessionsUntouched DEF Refresh, RefreshFails, Produce, StopProducer, FilterDrops, env, claims
<1>4. ASSUME NEW s \in Sessions, Claim(s) PROVE Inv'
  <2>1. \A t \in Sessions : state[t] = "free"
    BY <1>4 DEF Claim, Inv, OneLiveSession
  <2>2. ~fetching[s] /\ ~terminateAt[s]
    BY <1>4, <2>1 DEF Claim, Unused, Inv, SessionOK
  <2>3. SessionOK'
    BY <1>4, <2>1, <2>2 DEF Claim, Inv, TypeOK, SessionOK, env
  <2>4. OneLiveSession'
    BY <1>4, <2>1, <2>2 DEF Claim, Inv, TypeOK, OneLiveSession
  <2>5. CoolDownBeforeCancel'
    BY <1>4 DEF Claim, Inv, TypeOK, CoolDownBeforeCancel, env
  <2> QED BY <1>1, <2>3, <2>4, <2>5 DEF Inv
<1>5. ASSUME NEW s \in Sessions, BackedOff(s) \/ WatchDone(s) PROVE Inv'
  <2> USE DEF BackedOff, WatchDone, Release, Inv, TypeOK, env
  <2>1. SessionOK'
    BY <1>5 DEF SessionOK
  <2>2. OneLiveSession'
    BY <1>5 DEF OneLiveSession, SessionOK
  <2>3. CoolDownBeforeCancel'
    BY <1>5 DEF CoolDownBeforeCancel
  <2> QED BY <1>1, <2>1, <2>2, <2>3
<1>6. ASSUME NEW s \in Sessions, DoWork(s) PROVE Inv'
  BY <1>1, <1>6 DEF DoWork, Inv, TypeOK, SessionOK, OneLiveSession, CoolDownBeforeCancel, env, claims
<1>7. ASSUME NEW s \in Sessions, DualWait(s) \/ FetchDone(s) PROVE Inv'
  BY <1>1, <1>7 DEF DualWait, FetchDone, Inv, TypeOK, SessionOK, OneLiveSession,
     CoolDownBeforeCancel, env, claims
<1>8. ASSUME NEW s \in Sessions, WatchFound(s) PROVE Inv'
  BY <1>1, <1>8 DEF WatchFound, Inv, TypeOK, SessionOK, OneLiveSession, CoolDownBeforeCancel,
     env, claims
<1>9. ASSUME NEW s \in Sessions, WatchMissing(s) PROVE Inv'
  <2>1. /\ missed[s] >= 1 => missed'[s] >= 2
        /\ missed'[s] >= 1
        /\ \A t \in Sessions : missed'[t] >= missed[t]
    BY <1>9 DEF WatchMissing, CountMissed, Inv, TypeOK
  <2>2. ctxDone' = ctxDone /\ fetching' = fetching /\ state[s] = "watch"
    BY <1>9 DEF WatchMissing, env
  <2>3. CASE UNCHANGED <<state, busy, cancelled>>
    <3>1. \A t \in Sessions : t # s => terminateAt'[t] = terminateAt[t]
      BY <1>9, <2>3 DEF WatchMissing, Release, Inv, TypeOK
    <3>2. SessionOK'
      BY <2>1, <2>2, <2>3, <3>1, <1>1 DEF Inv, TypeOK, SessionOK
    <3>3. OneLiveSession' /\ CoolDownBeforeCancel'
      BY <2>1, <2>2, <2>3, <1>1 DEF Inv, TypeOK, OneLiveSession, CoolDownBeforeCancel
    <3> QED BY <1>1, <3>2, <3>3 DEF Inv
  <2>4. CASE /\ terminateAt[s]
             /\ cancelled' = [cancelled EXCEPT ![s] = TRUE]
             /\ Release(s)
    <3>1. SessionOK'
      BY <2>1, <2>2, <2>4, <1>1 DEF Inv, TypeOK, SessionOK, Release
    <3>2. OneLiveSession'
      BY <2>2, <2>4 DEF Inv, TypeOK, OneLiveSession, Release
    <3>3. missed'[s] >= 2
      BY <2>1, <2>4 DEF Inv, SessionOK
    <3>4. CoolDownBeforeCancel'
      BY <2>1, <2>2, <2>4, <3>3, <1>1 DEF Inv, TypeOK, CoolDownBeforeCancel
    <3> QED BY <1>1, <3>1, <3>2, <3>4 DEF Inv
  <2> QED BY <1>9, <2>3, <2>4 DEF WatchMissing
<1>10. ASSUME NEW s \in Sessions, NEW w \in Workers, Tick(s, w) PROVE Inv'
  BY <1>1, <1>10, SessionsUntouched DEF Tick, env, claims
<1>11. ASSUME NEW w \in Workers, fetchWork(w) PROVE Inv'
  BY <1>1, <1>11, SessionsUntouched DEF fetchWork, Check, HasWork, IncWorkers, DecWorkers,
     SetResources, Penalty, env, claims
<1>12. CASE UNCHANGED vars
  BY <1>1, <1>12, SessionsUntouched DEF vars, env, claims
<1> QED
  BY <1>2, <1>3, <1>4, <1>5, <1>6, <1>7, <1>8, <1>9, <1>10, <1>11, <1>12 DEF Next

\* The queue is served by one session at a time (queues.go filterWork and
\* doWork).
THEOREM SessionsExclusive == Spec => []OneLiveSession
<1>1. Inv => OneLiveSession
  BY DEF Inv
<1> QED BY <1>1, InitInv, NextInv, PTL DEF Spec

\* No experiment is killed for a queue that was reported missing only once
\* (queues.go watchQueueDelete).
THEOREM CancelCoolsDown == Spec => []CoolDownBeforeCancel
<1>1. Inv => CoolDownBeforeCancel
  BY DEF Inv
<1> QED BY <1>1, InitInv, NextInv, PTL DEF Spec
-----------------------------------------------------------------------------
\* The project is cancelled and nothing of the queue is left: no producer, no
\* filterWork, no session, no fetch loop and no worker.
Ended ==
    /\ ctxDone /\ ~producing /\ filters = 0 /\ ~busy
    /\ \A s \in Sessions : state[s] = "free" /\ ~fetching[s]
    /\ \A w \in Workers : pc[w] = "free"

\* A queue whose project has ended stays ended: neither its server, nor a
\* backoff that expires, nor a refresh brings anything back (queues.go producer,
\* filterWork, doWork, startFetch).  This is the half of ProjectEndQuiesces
\* that is no liveness.
THEOREM EndIsFinal == Spec => [][Ended => Ended']_vars
<1>1. ASSUME TypeOK, [Next]_vars, Ended PROVE Ended'
  <2> USE <1>1 DEF Ended
  <2>1. ASSUME UNCHANGED <<ctxDone, producing, filters, busy, state, fetching, pc>>
        PROVE  Ended'
    BY <2>1
  <2>2. CASE ServerChange
    BY <2>1, <2>2 DEF ServerChange, claims, sesVars, wrkVars
  <2>3. CASE HeadroomChange
    BY <2>1, <2>3 DEF HeadroomChange, claims, sesVars, wrkVars
  <2>4. CASE CancelProject
    BY <2>4 DEF CancelProject
  <2>5. CASE BackoffExpires
    BY <2>1, <2>5 DEF BackoffExpires, env, claims, sesVars, wrkVars
  <2>6. CASE UNCHANGED vars
    BY <2>1, <2>6 DEF vars, env, claims, sesVars, wrkVars
  <2>7. CASE Refresh \/ RefreshFails \/ Produce \/ StopProducer \/ FilterDrops
    <3>1. CASE Refresh
      BY <2>1, <3>1 DEF Refresh, env, claims, sesVars, wrkVars
    <3>2. CASE RefreshFails
      BY <2>1, <3>2 DEF RefreshFails, claims, sesVars, wrkVars
    <3>3. CASE Produce \/ StopProducer \/ FilterDrops
      BY <3>3 DEF Produce, StopProducer, FilterDrops, TypeOK
    <3> QED BY <2>7, <3>1, <3>2, <3>3
  <2>8. ASSUME NEW s \in Sessions,
               \/ Claim(s) \/ BackedOff(s) \/ DoWork(s) \/ DualWait(s)
               \/ WatchFound(s) \/ WatchMissing(s) \/ WatchDone(s) \/ FetchDone(s)
               \/ \E w \in Workers : Tick(s, w)
        PROVE  FALSE
    BY <2>8 DEF Claim, BackedOff, DoWork, DualWait, WatchFound, WatchMissing, WatchDone,
       FetchDone, Tick, TypeOK
  <2>9. ASSUME NEW w \in Workers, fetchWork(w) PROVE FALSE
    BY <2>9 DEF fetchWork, Check, HasWork, IncWorkers, DecWorkers, SetResources, Penalty
  <2> QED BY <2>2, <2>3, <2>4, <2>5, <2>6, <2>7, <2>8, <2>9 DEF Next
<1>2. TypeOK /\ [Next]_vars => [Ended => Ended']_vars
  BY <1>1
<1>3. Inv => TypeOK
  BY DEF Inv
<1> QED BY <1>2, <1>3, InitInv, NextInv, PTL DEF Spec
=============================================================================
