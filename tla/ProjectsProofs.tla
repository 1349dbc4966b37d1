---------------------------- MODULE ProjectsProofs ----------------------------
(***************************************************************************)
(* Proofs about Projects for any sets of projects, queues and runners.     *)
(*                                                                         *)
(* The entries of the map and the runners determine each other:            *)
(* EntriesMatchRunners and OneRunnerPerProject are inductive together.     *)
(* Without failures of refresh, goroutines that were not cancelled belong  *)
(* to a runner that is still in Queuer.run, which adds the rest.           *)
(***************************************************************************)
EXTENDS Projects, TLAPS

Inv == TypeOK /\ OneRunnerPerProject /\ EntriesMatchRunners

\* What Injection gives, with the runners it starts.
LEMMA Starts ==
    ASSUME NEW N, NEW U, NEW start \in Injection(N, U)
    PROVE  /\ \A p \in N : start[p] \in U
           /\ \A p, o \in N : start[p] = start[o] => p = o
           /\ \A p \in N : start[p] \in Range(start)
           /\ \A r \in Range(start) : \E p \in N : start[p] = r
BY DEF Injection, IsInjective, Range

\* Initially nothing runs.
LEMMA InitInv == Init => Inv
BY ConstantsAssumption DEF Init, Inv, TypeOK, OneRunnerPerProject, EntriesMatchRunners, Active

\* A cycle claims the slots of the projects it starts.
LEMMA CycleInv == Inv /\ Cycle => Inv'
<1> SUFFICES ASSUME Inv, Cycle PROVE Inv'
  OBVIOUS
<1> USE DEF Inv
<1> DEFINE U == {r \in Runners : Unused(r)}
<1>1. PICK start \in Injection(NewProjects, U) :
        /\ projects' = Cycled(start)
        /\ step' = [r \in Runners |-> IF r \in Range(start) THEN "new" ELSE step[r]]
        /\ proj' = [r \in Runners |-> IF r \in Range(start)
              THEN (CHOOSE p \in NewProjects : start[p] = r) ELSE proj[r]]
        /\ ctxDone' = [r \in Runners |-> IF r \in Range(start) THEN FALSE
              ELSE ctxDone[r] \/ r \in {projects[p] : p \in GoneProjects}]
        /\ subs' = [r \in Runners |-> IF r \in Range(start) THEN {} ELSE subs[r]]
  BY DEF Cycle
<1>2. /\ \A p \in NewProjects : start[p] \in U
      /\ \A p, o \in NewProjects : start[p] = start[o] => p = o
      /\ \A p \in NewProjects : start[p] \in Range(start)
      /\ \A r \in Range(start) : \E p \in NewProjects : start[p] = r
  BY Starts
<1>3. \A p \in NewProjects : (CHOOSE o \in NewProjects : start[o] = start[p]) = p
  BY <1>2
<1>4. \A r \in Range(start) : /\ r \in Runners /\ ~Active(r)
                              /\ \E p \in NewProjects : start[p] = r /\ proj'[r] = p
  BY <1>1, <1>2, <1>3
     DEF Unused, TypeOK
<1>5. TypeOK'
  BY <1>1, <1>2, <1>4 DEF TypeOK, Cycle, Cycled, NewProjects, GoneProjects, found
<1>6. \A r \in Runners : Active(r)' <=> Active(r) \/ r \in Range(start)
  BY <1>1 DEF Active, TypeOK
<1>7. \A r \in Runners : r \notin Range(start) => proj'[r] = proj[r]
  BY <1>1
<1>8. \A r \in Runners : Active(r) => proj[r] \notin NewProjects
  BY ConstantsAssumption DEF EntriesMatchRunners, OneRunnerPerProject, NewProjects, TypeOK
<1>9. OneRunnerPerProject'
  BY <1>2, <1>4, <1>6, <1>7, <1>8 DEF OneRunnerPerProject
<1>10. EntriesMatchRunners'
  <2> SUFFICES ASSUME NEW p \in Projs
               PROVE  (\/ projects[p] = Absent /\ \A r \in Runners : Active(r) => proj[r] # p
                       \/ projects[p] = Nil /\ \E r \in Runners : Active(r) /\ proj[r] = p /\ ctxDone[r]
                       \/ \E r \in Runners : /\ projects[p] = r /\ Active(r) /\ proj[r] = p
                                             /\ serving => ~ctxDone[r])'
    BY DEF EntriesMatchRunners
  <2>1. CASE p \in NewProjects
    <3>1. projects'[p] = start[p] /\ start[p] \in Runners
      BY <1>1, <1>2, <2>1 DEF Cycled
    <3>2. Active(start[p])' /\ proj'[start[p]] = p /\ ~ctxDone'[start[p]]
      BY <1>1, <1>2, <1>3, <1>4, <1>6, <2>1, <3>1
    <3> QED BY <3>1, <3>2
  <2>2. CASE p \in GoneProjects
    <3>1. projects'[p] = Nil
      BY <1>1, <2>2 DEF Cycled, GoneProjects, NewProjects
    <3>2. PICK r \in Runners : projects[p] = r /\ Active(r) /\ proj[r] = p
      BY <2>2, ConstantsAssumption DEF EntriesMatchRunners, GoneProjects
    <3>3. r \notin Range(start)
      BY <1>4, <3>2
    <3>4. Active(r)' /\ proj'[r] = p
      BY <1>6, <1>7, <3>2, <3>3
    <3>5. ctxDone'[r]
      BY <1>1, <2>2, <3>2, <3>3
    <3> QED BY <3>1, <3>4, <3>5
  <2>3. CASE p \notin NewProjects \cup GoneProjects
    <3>1. projects'[p] = projects[p]
      BY <1>1, <2>3 DEF Cycled
    <3>2. \A r \in Range(start) : proj'[r] # p
      BY <1>4, <2>3
    <3>3. CASE projects[p] = Absent /\ \A r \in Runners : Active(r) => proj[r] # p
      BY <1>6, <1>7, <3>1, <3>2, <3>3
    <3>4. CASE projects[p] = Nil /\ \E r \in Runners : Active(r) /\ proj[r] = p /\ ctxDone[r]
      <4>1. PICK r \in Runners : Active(r) /\ proj[r] = p /\ ctxDone[r]
        BY <3>4
      <4>2. r \notin Range(start)
        BY <1>4, <4>1
      <4>3. Active(r)' /\ proj'[r] = p /\ ctxDone'[r]
        BY <1>1, <1>6, <1>7, <4>1, <4>2
      <4> QED BY <3>1, <3>4, <4>3
    <3>5. CASE \E r \in Runners : /\ projects[p] = r /\ Active(r) /\ proj[r] = p
                                  /\ serving => ~ctxDone[r]
      <4>1. PICK r \in Runners : /\ projects[p] = r /\ Active(r) /\ proj[r] = p
                                 /\ serving => ~ctxDone[r]
        BY <3>5
      <4>2. r \notin Range(start)
        BY <1>4, <4>1
      <4>3. \A o \in GoneProjects : projects[o] # r
        BY <2>3, <4>1, ConstantsAssumption DEF EntriesMatchRunners, GoneProjects
      <4>4. Active(r)' /\ proj'[r] = p
        BY <1>6, <1>7, <4>1, <4>2
      <4>5. serving' = serving
        BY DEF Cycle
      <4>6. r \notin {projects[o] : o \in GoneProjects}
        BY <4>3
      <4>7. ctxDone'[r] <=> ctxDone[r]
        BY <1>1, <4>2, <4>6
      <4> QED BY <3>1, <4>1, <4>4, <4>5, <4>7
    <3> QED BY <3>3, <3>4, <3>5 DEF EntriesMatchRunners
  <2> QED BY <2>1, <2>2, <2>3
<1> QED BY <1>5, <1>9, <1>10

\* Every step keeps the map and the runners together.
LEMMA NextInv == Inv /\ [Next]_vars => Inv'
<1> SUFFICES ASSUME Inv, [Next]_vars PROVE Inv'
  OBVIOUS
<1> USE ConstantsAssumption DEF Inv
<1>1. CASE \E p \in Projs : ServerChange(p)
  BY <1>1 DEF ServerChange, TypeOK, OneRunnerPerProject, EntriesMatchRunners, Active, runnerVars
<1>2. CASE StateUpdate
  BY <1>2 DEF StateUpdate, TypeOK, OneRunnerPerProject, EntriesMatchRunners, Active, runnerVars
<1>3. CASE Cycle
  BY <1>3, CycleInv
<1>4. CASE Shutdown
  <2>1. TypeOK'
    BY <1>4 DEF Shutdown, TypeOK
  <2>2. OneRunnerPerProject' /\ serving' = FALSE
    BY <1>4 DEF Shutdown, OneRunnerPerProject, Active
  <2>3. \A r \in Runners : ctxDone[r] => ctxDone'[r]
    BY <1>4 DEF Shutdown
  <2>4. EntriesMatchRunners'
    BY <1>4, <2>2, <2>3 DEF Shutdown, EntriesMatchRunners, Active
  <2> QED BY <2>1, <2>2, <2>4
<1>5. ASSUME NEW r \in Runners, Start(r) \/ StartFails(r) PROVE Inv'
  <2>1. TypeOK'
    BY <1>5 DEF Start, StartFails, TypeOK, mapVars
  <2>2. \A s \in Runners : Active(s)' <=> Active(s)
    BY <1>5 DEF Start, StartFails, TypeOK, Active
  <2>3. UNCHANGED <<projects, serving, proj, ctxDone>>
    BY <1>5 DEF Start, StartFails, mapVars
  <2> QED BY <2>1, <2>2, <2>3 DEF OneRunnerPerProject, EntriesMatchRunners
<1>6. ASSUME NEW r \in Runners, Refresh(r) PROVE Inv'
  BY <1>6 DEF Refresh, TypeOK, OneRunnerPerProject, EntriesMatchRunners, Active, mapVars
<1>7. ASSUME NEW r \in Runners, RefreshFailure(r) \/ Stop(r) PROVE Inv'
  <2>1. TypeOK'
    BY <1>7 DEF RefreshFailure, Stop, TypeOK, mapVars
  <2>2. \A s \in Runners : Active(s)' <=> Active(s)
    BY <1>7 DEF RefreshFailure, Stop, TypeOK, Active
  <2>3. UNCHANGED <<projects, serving, proj, ctxDone>>
    BY <1>7 DEF RefreshFailure, Stop, mapVars
  <2> QED BY <2>1, <2>2, <2>3 DEF OneRunnerPerProject, EntriesMatchRunners
<1>8. ASSUME NEW r \in Runners, Exit(r) PROVE Inv'
  <2>1. TypeOK'
    BY <1>8 DEF Exit, TypeOK
  <2>2. OneRunnerPerProject'
    BY <1>8 DEF Exit, TypeOK, OneRunnerPerProject, Active
  <2>3. EntriesMatchRunners'
    BY <1>8 DEF Exit, TypeOK, OneRunnerPerProject, EntriesMatchRunners, Active
  <2> QED BY <2>1, <2>2, <2>3
<1>9. ASSUME NEW r \in Runners, StopProducer(r) PROVE Inv'
  BY <1>9 DEF StopProducer, TypeOK, OneRunnerPerProject, EntriesMatchRunners, Active, mapVars
<1>10. ASSUME NEW r \in Runners, NEW q \in Queues, StartSession(r, q) \/ EndSession(r, q) PROVE Inv'
  BY <1>10 DEF StartSession, EndSession, TypeOK, OneRunnerPerProject, EntriesMatchRunners,
     Active, mapVars
<1>11. CASE UNCHANGED vars
  BY <1>11 DEF vars, mapVars, runnerVars, TypeOK, OneRunnerPerProject, EntriesMatchRunners, Active
<1> QED
  BY <1>1, <1>2, <1>3, <1>4, <1>5, <1>6, <1>7, <1>8, <1>9, <1>10, <1>11 DEF Next

\* The projects map and the runners match in every reachable state, also when
\* refreshes fail (project.go Cycle and run).
THEOREM RunnersMatchMap == Spec => []SlotsClaimed
<1>1. Inv => SlotsClaimed
  BY DEF Inv, SlotsClaimed
<1> QED BY <1>1, InitInv, NextInv, PTL DEF Spec
-----------------------------------------------------------------------------
\* As long as no refresh has failed, goroutines that were not cancelled belong
\* to a runner inside Queuer.run.
StillRunning ==
    ~refreshFailed =>
    \A r \in Runners : (producer[r] \/ sessions[r] # {}) /\ ~ctxDone[r] => step[r] = "run"

\* Without a failed refresh a runner only leaves Queuer.run when cancelled.
LEMMA StillRunningStep ==
    ASSUME Inv, StillRunning, [Next]_vars
    PROVE  StillRunning'
<1> USE DEF StillRunning
<1>1. CASE \E p \in Projs : ServerChange(p)
  BY <1>1 DEF ServerChange, runnerVars
<1>2. CASE StateUpdate
  BY <1>2 DEF StateUpdate, runnerVars
<1>3. CASE Cycle
  <2>1. PICK start \in Injection(NewProjects, {r \in Runners : Unused(r)}) :
          /\ step' = [r \in Runners |-> IF r \in Range(start) THEN "new" ELSE step[r]]
          /\ ctxDone' = [r \in Runners |-> IF r \in Range(start) THEN FALSE
                ELSE ctxDone[r] \/ r \in {projects[p] : p \in GoneProjects}]
    BY <1>3 DEF Cycle
  <2>2. \A r \in Range(start) : Unused(r)
    BY <2>1, Starts
  <2>3. UNCHANGED <<producer, sessions, refreshFailed>>
    BY <1>3 DEF Cycle
  <2> QED BY <2>1, <2>2, <2>3 DEF Unused
<1>4. CASE Shutdown
  BY <1>4 DEF Shutdown
<1>5. ASSUME NEW r \in Runners, Start(r) \/ StartFails(r) PROVE StillRunning'
  BY <1>5 DEF Start, StartFails, Inv, TypeOK
<1>6. ASSUME NEW r \in Runners, Refresh(r) PROVE StillRunning'
  BY <1>6 DEF Refresh
<1>7. ASSUME NEW r \in Runners, RefreshFailure(r) PROVE StillRunning'
  BY <1>7 DEF RefreshFailure
<1>8. ASSUME NEW r \in Runners, Stop(r) PROVE StillRunning'
  BY <1>8 DEF Stop, Inv, TypeOK
<1>9. ASSUME NEW r \in Runners, Exit(r) PROVE StillRunning'
  BY <1>9 DEF Exit, Inv, TypeOK
<1>10. ASSUME NEW r \in Runners, StopProducer(r) PROVE StillRunning'
  BY <1>10 DEF StopProducer, Inv, TypeOK
<1>11. ASSUME NEW r \in Runners, NEW q \in Queues, StartSession(r, q) \/ EndSession(r, q)
       PROVE StillRunning'
  BY <1>11 DEF StartSession, EndSession, Inv, TypeOK
<1>12. CASE UNCHANGED vars
  BY <1>12 DEF vars, runnerVars
<1> QED
  BY <1>1, <1>2, <1>3, <1>4, <1>5, <1>6, <1>7, <1>8, <1>9, <1>10, <1>11, <1>12 DEF Next

LEMMA StillRunningAlways == Spec => [](Inv /\ StillRunning)
<1>1. Init => StillRunning
  BY DEF Init, StillRunning
<1>2. Inv /\ StillRunning /\ [Next]_vars => StillRunning'
  BY StillRunningStep
<1> QED BY <1>1, <1>2, InitInv, NextInv, PTL DEF Spec

\* As long as no refresh has failed, whatever a project started can be cancelled
\* through the map (project.go Cycle, queues.go run).
THEOREM NothingOrphaned == Spec => []GoroutinesCancellable
<1>1. Inv /\ StillRunning => GoroutinesCancellable
  BY DEF Inv, StillRunning, GoroutinesCancellable, OneRunnerPerProject,
     EntriesMatchRunners, Active, TypeOK
<1> QED BY <1>1, StillRunningAlways, PTL

\* As long as no refresh has failed, no queue is served by the sessions of two
\* runners (project.go Cycle, queues.go run).
THEOREM NothingServedTwice == Spec => []QueueServedOnce
<1>1. Inv /\ StillRunning => QueueServedOnce
  BY DEF Inv, StillRunning, QueueServedOnce, OneRunnerPerProject, Active
<1> QED BY <1>1, StillRunningAlways, PTL
-----------------------------------------------------------------------------
\* Once the service is shut down every runner has been cancelled, also one that
\* was only started, or whose entry is nil; and, unless a refresh has failed,
\* so has whatever a runner left behind.
AllCancelled ==
    ~serving => \A r \in Runners :
       /\ Active(r) => ctxDone[r]
       /\ ~refreshFailed /\ (producer[r] \/ sessions[r] # {}) => ctxDone[r]

\* Shutdown finds every runner in the map, or cancelled; afterwards none starts.
LEMMA RunnersCancelledStep ==
    ASSUME Inv, [Next]_vars, ~serving => \A r \in Runners : Active(r) => ctxDone[r]
    PROVE  ~serving' => \A r \in Runners : Active(r)' => ctxDone'[r]
<1> SUFFICES ASSUME ~serving', NEW r \in Runners, Active(r)' PROVE ctxDone'[r]
  OBVIOUS
<1>1. CASE Shutdown
  <2>1. Active(r) /\ proj[r] \in Projs
    BY <1>1 DEF Shutdown, Active, Inv, TypeOK
  <2>2. projects[proj[r]] = r \/ ctxDone[r]
    BY <2>1, ConstantsAssumption DEF Inv, OneRunnerPerProject, EntriesMatchRunners
  <2> QED BY <1>1, <2>1, <2>2 DEF Shutdown
<1>2. CASE ~Shutdown
  <2>1. ~Cycle
    <3>1. Cycle => serving /\ serving' = serving
      BY DEF Cycle
    <3> QED BY <3>1
  <2>2. ASSUME NEW s \in Runners,
               \/ Start(s) \/ StartFails(s) \/ Refresh(s) \/ RefreshFailure(s)
               \/ Stop(s) \/ Exit(s) \/ StopProducer(s)
        PROVE  Active(r)
    BY <2>2 DEF Start, StartFails, Refresh, RefreshFailure, Stop, Exit, StopProducer,
       Active, Inv, TypeOK
  <2>3. ASSUME \/ UNCHANGED vars \/ StateUpdate \/ \E p \in Projs : ServerChange(p)
               \/ \E s \in Runners, q \in Queues : StartSession(s, q) \/ EndSession(s, q)
        PROVE  Active(r)
    BY <2>3 DEF vars, runnerVars, StateUpdate, ServerChange, StartSession, EndSession, Active
  <2>4. Active(r)
    BY <1>2, <2>1, <2>2, <2>3 DEF Next
  <2>5. UNCHANGED <<serving, ctxDone>>
    BY <1>2, <2>1 DEF Next, vars, mapVars, runnerVars, ServerChange, StateUpdate, Start,
       StartFails, Refresh, RefreshFailure, Stop, Exit, StopProducer, StartSession, EndSession
  <2> QED BY <2>4, <2>5
<1> QED BY <1>1, <1>2

\* "When shutting down stop all projects" (rabbit.go, filequeue.go, sqs.go): the
\* shutdown of a service reaches everything its projects have started, in
\* whatever state it finds them, and what has ended is not started again.
THEOREM ShutdownReachesAll ==
    Spec => /\ []AllCancelled
            /\ [][\A p \in Projs : ~serving /\ Quiet(p) => Quiet(p)']_vars
<1> DEFINE Cancelled == ~serving => \A r \in Runners : Active(r) => ctxDone[r]
<1>1. Init => Cancelled
  BY DEF Init
<1>2. Inv /\ Cancelled /\ [Next]_vars => Cancelled'
  BY RunnersCancelledStep
<1>3. Inv /\ StillRunning /\ Cancelled => AllCancelled
  BY DEF AllCancelled, StillRunning, Active
<1>4. ASSUME Inv, [Next]_vars, NEW p \in Projs, ~serving, Quiet(p) PROVE Quiet(p)'
  <2>1. ~Cycle
    BY <1>4 DEF Cycle
  <2>2. UNCHANGED proj
    BY <1>4, <2>1 DEF Next, vars, runnerVars, ServerChange, StateUpdate, Shutdown, Start,
       StartFails, Refresh, RefreshFailure, Stop, Exit, StopProducer, StartSession, EndSession
  <2> SUFFICES ASSUME NEW r \in Runners, proj[r] = p
               PROVE  step'[r] = "free" /\ ~producer'[r] /\ sessions'[r] = {}
    BY <2>2 DEF Quiet
  <2>3. step[r] = "free" /\ ~producer[r] /\ sessions[r] = {}
    BY <1>4 DEF Quiet
  <2>4. CASE \E q \in Projs : ServerChange(q)
    BY <2>3, <2>4 DEF ServerChange, runnerVars
  <2>5. CASE StateUpdate \/ Shutdown \/ UNCHANGED vars
    BY <2>3, <2>5 DEF StateUpdate, Shutdown, runnerVars, vars
  <2>6. ASSUME NEW s \in Runners,
               \/ Start(s) \/ StartFails(s) \/ Refresh(s) \/ RefreshFailure(s)
               \/ Stop(s) \/ Exit(s) \/ StopProducer(s)
        PROVE  step'[r] = "free" /\ ~producer'[r] /\ sessions'[r] = {}
    BY <1>4, <2>3, <2>6 DEF Start, StartFails, Refresh, RefreshFailure, Stop, Exit,
       StopProducer, Inv, TypeOK
  <2>7. ASSUME NEW s \in Runners, NEW q \in Queues, StartSession(s, q) \/ EndSession(s, q)
        PROVE  step'[r] = "free" /\ ~producer'[r] /\ sessions'[r] = {}
    BY <1>4, <2>3, <2>7 DEF StartSession, EndSession, Inv, TypeOK
  <2> QED BY <1>4, <2>1, <2>4, <2>5, <2>6, <2>7 DEF Next
<1>5. Inv /\ [Next]_vars => [\A p \in Projs : ~serving /\ Quiet(p) => Quiet(p)']_vars
  BY <1>4
<1> HIDE DEF Cancelled
<1> QED BY <1>1, <1>2, <1>3, <1>5, StillRunningAlways, PTL DEF Spec
=============================================================================
