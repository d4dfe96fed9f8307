------------------------ MODULE ReplicaControlProofs ------------------------
(***************************************************************************)
(* Proofs about ReplicaControl, for any nodes, any number of timers alive  *)
(* at a time, both kinds of replica set and any number of crashes.         *)
(***************************************************************************)
EXTENDS ReplicaControl, FiniteSetTheorems, SequenceTheorems, TLAPS

FireProofs == INSTANCE QueuedFiringProofs
                WITH Trigger <- Triggers, Failing <- Triggers

-----------------------------------------------------------------------------
(* The inductive invariant.  A publication lives inside the execution of a  *)
(* trigger, so that the firing mode's mutual exclusion carries over to it;  *)
(* it can only begin in configuration and leaves the machine in monitoring, *)
(* so that a timer that fires late finds its trigger unhandled.             *)
InsideExecution ==
  \A g \in Goroutine :
    /\ phase[g] # "none" => pc[g] = "execute"
    /\ phase[g] = "none" <=> draft[g] = None

PutBeforeRegister ==
  \A g \in Goroutine : phase[g] = "register" => config = draft[g]

NothingRecordedBefore == smState # "monitoring" => lastSpec = None

ControlInv ==
  /\ StateTypeOK
  /\ FireProofs!FiringInv
  /\ InsideExecution
  /\ OnePublicationAtATime
  /\ PutBeforeRegister
  /\ NothingRecordedBefore
  /\ RecordedSpecIsDeployed
  /\ JobHasSpec

-----------------------------------------------------------------------------
(* A deployment has SetSize members or none. *)
LEMMA DeployLengthRange ==
  ASSUME NEW S \in Snapshot
  PROVE  /\ DeployLength(S) \in {0, SetSize}
         /\ Cardinality(S) \in Nat
         /\ DeployLength(S) <= Cardinality(S)
<1>1. IsFiniteSet(S)
  BY ControlAssumption, FS_Subset DEF Snapshot, Report
<1>2. Cardinality(S) \in Nat
  BY <1>1, FS_CardinalityType
<1>3. Cardinality(RsCandidates) = 0
  BY FS_EmptySet DEF RsCandidates
<1>4. QED
  BY <1>2, <1>3, ControlAssumption DEF DeployLength

(* What is generated from a sorted list is a specification. *)
LEMMA GeneratesSpecification ==
  ASSUME NEW S \in Snapshot, NEW q \in Sortings(S)
  PROVE  MembersOf(q, DeployLength(S)) \in Specification
<1>1. q \in [1..Cardinality(S) -> S]
  BY DEF Sortings
<1>2. \A i \in 1..DeployLength(S) : q[i] \in Report
  BY <1>1, DeployLengthRange, ControlAssumption DEF Snapshot
<1>3. \A i \in 1..DeployLength(S) : q[i].node \in Node
  BY <1>2 DEF Report
<1>4. MembersOf(q, DeployLength(S)) \in [1..DeployLength(S) -> Node]
  BY <1>3 DEF MembersOf
<1>5. QED
  BY <1>4, DeployLengthRange DEF Specification

LEMMA NoneIsNoSpecification == None \notin Specification
  BY ControlAssumption DEF Specification

LEMMA TriggersAreTriggers ==
  /\ StartTrigger \in Triggers
  /\ MemberStatus \in Triggers
  /\ \A S \in Snapshot : CandidateReport(S) \in Triggers /\ InitialConfiguration(S) \in Triggers
  BY DEF StartTrigger, MemberStatus, CandidateReport, InitialConfiguration, Triggers, Snapshot

LEMMA FireAssumption == NoTrigger \notin Triggers
  BY ControlAssumption DEF Triggers, Snapshot, Report

-----------------------------------------------------------------------------
(* Every action is, for the firing mode, a step of one goroutine, no step,  *)
(* or a restart of the process.                                             *)
LEMMA MachineStart ==
  ASSUME Fire!Init PROVE FireProofs!FiringInv
<1>1. FireProofs!Init
  BY DEF Fire!Init, FireProofs!Init
<1>2. QED
  BY <1>1, FireProofs!InitFiringInv, FireAssumption

LEMMA MachineStartAgain ==
  ASSUME StartAgain PROVE FireProofs!FiringInv'
<1>1. triggers' = <<>> /\ firing' = FALSE /\ returned' = "nil"
  BY DEF StartAgain
<1>2. pc' = [g \in Goroutine |-> "outside"] /\ current' = [g \in Goroutine |-> NoTrigger]
  BY DEF StartAgain
<1>3. FireProofs!TypeOK'
  <2>1. <<>> \in Seq(Triggers)
    OBVIOUS
  <2>2. QED
    BY <1>1, <1>2, <2>1 DEF FireProofs!TypeOK
<1>4. FireProofs!Executing' = {}
  BY <1>2 DEF FireProofs!Executing
<1>5. FireProofs!OneAtATime'
  BY <1>1, <1>2, <1>4 DEF FireProofs!OneAtATime
<1>6. FireProofs!NoTriggerLeftBehind'
  BY <1>1 DEF FireProofs!NoTriggerLeftBehind
<1>7. QED
  BY <1>3, <1>5, <1>6 DEF FireProofs!FiringInv

LEMMA MachineStep ==
  ASSUME FireProofs!FiringInv, NEW g \in Goroutine,
         \/ \E t \in Triggers : Fire!Enqueue(g, t)
         \/ Fire!FetchNothing(g)
         \/ Fire!FetchTrigger(g)
         \/ Fire!ExecuteOk(g)
         \/ Fire!ExecuteErr(g)
  PROVE  FireProofs!FiringInv'
<1>1. current[g] \in Triggers \/ ~ Fire!ExecuteErr(g)
  BY DEF FireProofs!FiringInv, FireProofs!TypeOK, FireProofs!OneAtATime,
         FireProofs!Executing, Fire!ExecuteErr
<1>2. FireProofs!Step(g)
  BY <1>1 DEF FireProofs!Step, Fire!Enqueue, FireProofs!Enqueue,
     Fire!FetchNothing, FireProofs!FetchNothing, Fire!FetchTrigger, FireProofs!FetchTrigger,
     Fire!ExecuteOk, FireProofs!ExecuteOk, Fire!ExecuteErr, FireProofs!ExecuteErr
<1>3. QED
  BY <1>2, FireProofs!StepFiringInv, FireAssumption

LEMMA MachineStutter ==
  ASSUME FireProofs!FiringInv, UNCHANGED machine
  PROVE  FireProofs!FiringInv'
<1>1. UNCHANGED FireProofs!firingVars
  BY DEF machine, FireProofs!firingVars
<1>2. QED
  BY <1>1, FireProofs!StutterFiringInv, FireAssumption

-----------------------------------------------------------------------------
(* What the firing mode's invariant says here: one goroutine executes, and  *)
(* it executes a trigger.                                                   *)
LEMMA OneExecutes ==
  ASSUME FireProofs!FiringInv
  PROVE  /\ triggers \in Seq(Triggers)
         /\ pc \in [Goroutine -> {"outside", "fetch", "execute"}]
         /\ \A g, h \in Goroutine : pc[g] = "execute" /\ pc[h] = "execute" => g = h
         /\ \A g \in Goroutine : pc[g] = "execute" => current[g] \in Triggers
  BY DEF FireProofs!FiringInv, FireProofs!TypeOK, FireProofs!OneAtATime,
         FireProofs!Executing

LEMMA InitControlInv == Init => ControlInv
<1> SUFFICES ASSUME Init PROVE ControlInv
  OBVIOUS
<1>1. FireProofs!FiringInv
  BY MachineStart DEF Init
<1>2. StateTypeOK
  <2>1. candidatesChan \in Seq(Snapshot)
    BY EmptySeq DEF Init
  <2>2. expired \in [Timer -> {None} \cup Snapshot]
    BY DEF Init
  <2>3. phase \in [Goroutine -> {"none", "put", "register"}]
    BY DEF Init
  <2>4. draft \in [Goroutine -> {None} \cup Specification]
    BY DEF Init
  <2>5. 0 \in 0..MaxChanges /\ 0 \in 0..MaxCrashes
    BY ControlAssumption
  <2>6. reports \in Snapshot
    BY DEF Init
  <2>7. /\ config = None /\ job = None /\ timer = None /\ lastSpec = None
        /\ smState = "init" /\ changes = 0 /\ crashes = 0 /\ panicked = FALSE
    BY DEF Init
  <2>8. QED
    BY <2>1, <2>2, <2>3, <2>4, <2>5, <2>6, <2>7 DEF StateTypeOK
<1>3. InsideExecution /\ OnePublicationAtATime /\ PutBeforeRegister
  BY DEF Init, InsideExecution, OnePublicationAtATime, Publishing, PutBeforeRegister
<1>4. NothingRecordedBefore /\ RecordedSpecIsDeployed /\ JobHasSpec
  BY DEF Init, NothingRecordedBefore, RecordedSpecIsDeployed, JobHasSpec
<1>5. QED
  BY <1>1, <1>2, <1>3, <1>4 DEF ControlInv

(* The reports change, or are listed: nothing of the controller moves. *)
LEMMA WorldKeepsInv ==
  ASSUME ControlInv,
         \/ \E n \in Node, p \in Position : NodeReports(n, p)
         \/ \E n \in Node : NodeIsLost(n)
         \/ WatchCandidateReports
  PROVE  ControlInv'
<1>1. FireProofs!FiringInv'
  BY MachineStutter DEF ControlInv, NodeReports, NodeIsLost, WatchCandidateReports
<1>2. StateTypeOK'
  <2>1. CASE \E n \in Node, p \in Position : NodeReports(n, p)
    BY <2>1, ControlAssumption
    DEF ControlInv, StateTypeOK, NodeReports, Snapshot, Report, publish, external
  <2>2. CASE \E n \in Node : NodeIsLost(n)
    BY <2>2, ControlAssumption
    DEF ControlInv, StateTypeOK, NodeIsLost, Snapshot, Report, publish, external
  <2>3. CASE WatchCandidateReports
    BY <2>3
    DEF ControlInv, StateTypeOK, WatchCandidateReports, publish, external, counters
  <2>4. QED
    BY <2>1, <2>2, <2>3
<1>3. UNCHANGED <<config, job, smState, phase, draft, lastSpec, pc>>
  BY DEF NodeReports, NodeIsLost, WatchCandidateReports, publish, external, machine
<1>4. QED
  BY <1>1, <1>2, <1>3
  DEF ControlInv, InsideExecution, OnePublicationAtATime, Publishing,
      PutBeforeRegister, NothingRecordedBefore, RecordedSpecIsDeployed, JobHasSpec

(* A trigger is queued or fetched, or a timer expires: goroutines move, but *)
(* not the one that publishes, and no publication begins.                   *)
LEMMA QueueKeepsInv ==
  ASSUME ControlInv,
         \/ Boot
         \/ SelectCandidates
         \/ SelectHealth
         \/ \E t \in Timer : TimerExpires(t)
         \/ \E t \in Timer : TimerFires(t)
         \/ \E g \in Goroutine : Fetch(g)
  PROVE  ControlInv'
<1> DEFINE Moves(g) == \/ \E t \in Triggers : Fire!Enqueue(g, t)
                      \/ Fire!FetchNothing(g)
                      \/ Fire!FetchTrigger(g)
<1>1. \/ \E g \in Goroutine : Moves(g)
      \/ UNCHANGED machine
  <2>1. CASE Boot
    BY <2>1, TriggersAreTriggers DEF Boot, Goroutine
  <2>2. CASE SelectCandidates
    <3>1. Head(candidatesChan) \in Snapshot
      BY <2>2 DEF SelectCandidates, ControlInv, StateTypeOK
    <3>2. QED
      BY <2>2, <3>1, TriggersAreTriggers DEF SelectCandidates, Goroutine
  <2>3. CASE SelectHealth
    BY <2>3, TriggersAreTriggers DEF SelectHealth, Goroutine
  <2>4. CASE \E t \in Timer : TimerExpires(t)
    BY <2>4 DEF TimerExpires
  <2>5. CASE \E t \in Timer : TimerFires(t)
    <3>1. PICK t \in Timer : TimerFires(t)
      BY <2>5
    <3>2. expired[t] \in Snapshot
      BY <3>1 DEF TimerFires, ControlInv, StateTypeOK
    <3>3. QED
      BY <3>1, <3>2, TriggersAreTriggers DEF TimerFires, Goroutine
  <2>6. CASE \E g \in Goroutine : Fetch(g)
    BY <2>6 DEF Fetch
  <2>7. QED
    BY <2>1, <2>2, <2>3, <2>4, <2>5, <2>6
<1>2. FireProofs!FiringInv'
  BY <1>1, MachineStep, MachineStutter DEF ControlInv
<1>3. StateTypeOK'
  <2>1. CASE Boot \/ SelectHealth
    BY <2>1
    DEF ControlInv, StateTypeOK, Boot, SelectHealth, external, publish, counters
  <2>0. CASE SelectCandidates
    <3>1. Tail(candidatesChan) \in Seq(Snapshot)
      BY <2>0, HeadTailProperties DEF SelectCandidates, ControlInv, StateTypeOK
    <3>2. QED
      BY <2>0, <3>1
      DEF ControlInv, StateTypeOK, SelectCandidates, external, publish, counters
  <2>2. CASE \E t \in Timer : TimerExpires(t)
    BY <2>2 DEF ControlInv, StateTypeOK, TimerExpires, external, publish, counters
  <2>3. CASE \E t \in Timer : TimerFires(t)
    BY <2>3 DEF ControlInv, StateTypeOK, TimerFires, external, publish, counters
  <2>4. CASE \E g \in Goroutine : Fetch(g)
    BY <2>4 DEF ControlInv, StateTypeOK, Fetch, external, publish, counters
  <2>5. QED
    BY <2>0, <2>1, <2>2, <2>3, <2>4
<1>4. UNCHANGED <<config, job, smState, phase, draft, lastSpec>>
  BY DEF Boot, SelectCandidates, SelectHealth, TimerExpires, TimerFires, Fetch,
         external, publish
<1>5. \A h \in Goroutine : pc[h] = "execute" => pc'[h] = "execute"
  BY <1>1, OneExecutes
  DEF ControlInv, machine, Fire!Enqueue, Fire!FetchNothing, Fire!FetchTrigger
<1>6. QED
  BY <1>2, <1>3, <1>4, <1>5
  DEF ControlInv, InsideExecution, OnePublicationAtATime, Publishing,
      PutBeforeRegister, NothingRecordedBefore, RecordedSpecIsDeployed, JobHasSpec

(* Between executions nobody publishes. *)
LEMMA NobodyElse ==
  ASSUME ControlInv, NEW g \in Goroutine, pc[g] = "execute"
  PROVE  \A h \in Goroutine : h # g => phase[h] = "none" /\ draft[h] = None
  BY OneExecutes DEF ControlInv, InsideExecution

(* An execution that publishes nothing. *)
LEMMA ExecuteKeepsInv ==
  ASSUME ControlInv, NEW g \in Goroutine,
         EnterConfiguration(g) \/ ReenterMonitoring(g) \/ Unhandled(g)
  PROVE  ControlInv'
<1>0. pc[g] = "execute" /\ phase[g] = "none" /\ current[g] \in Triggers
  BY OneExecutes
  DEF ControlInv, EnterConfiguration, ReenterMonitoring, Unhandled, Handles
<1>1. Fire!ExecuteOk(g) \/ Fire!ExecuteErr(g)
  BY DEF EnterConfiguration, ReenterMonitoring, Unhandled
<1>2. FireProofs!FiringInv'
  BY <1>1, MachineStep DEF ControlInv
<1>3. UNCHANGED <<config, job, phase, draft, lastSpec>>
  BY DEF EnterConfiguration, ReenterMonitoring, Unhandled, external, publish
<1>4. smState' = "monitoring" <=> smState = "monitoring"
  BY DEF EnterConfiguration, ReenterMonitoring, Unhandled
<1>5. StateTypeOK'
  <2>1. CASE EnterConfiguration(g)
    <3>1. current[g].arg \in Snapshot
      BY <1>0 DEF Triggers
    <3>2. QED
      BY <2>1, <3>1
      DEF ControlInv, StateTypeOK, EnterConfiguration, external, publish, counters
  <2>2. CASE ReenterMonitoring(g) \/ Unhandled(g)
    BY <2>2
    DEF ControlInv, StateTypeOK, ReenterMonitoring, Unhandled, external, publish, counters
  <2>3. QED
    BY <2>1, <2>2
<1>6. \A h \in Goroutine : phase[h] = "none"
  BY <1>0, NobodyElse
<1>7. InsideExecution' /\ OnePublicationAtATime' /\ PutBeforeRegister'
  BY <1>3, <1>6
  DEF ControlInv, InsideExecution, OnePublicationAtATime, Publishing, PutBeforeRegister
<1>8. NothingRecordedBefore' /\ RecordedSpecIsDeployed' /\ JobHasSpec'
  BY <1>3, <1>4 DEF ControlInv, NothingRecordedBefore, RecordedSpecIsDeployed, JobHasSpec
<1>9. QED
  BY <1>2, <1>5, <1>7, <1>8 DEF ControlInv

(* The publication begins: in configuration, where nothing is recorded. *)
LEMMA EnterMonitoringKeepsInv ==
  ASSUME ControlInv, NEW g \in Goroutine, EnterMonitoring(g)
  PROVE  ControlInv'
<1>0. /\ pc[g] = "execute" /\ phase[g] = "none" /\ current[g].arg \in Snapshot
      /\ smState = "configuration" /\ smState' = "monitoring"
  BY OneExecutes
  DEF ControlInv, EnterMonitoring, Handles, Permitted, Triggers
<1>1. PICK q \in Sortings(current[g].arg) :
        draft' = [draft EXCEPT ![g] = MembersOf(q, DeployLength(current[g].arg))]
  BY DEF EnterMonitoring
<1>2. MembersOf(q, DeployLength(current[g].arg)) \in Specification
  BY <1>0, GeneratesSpecification
<1>3. UNCHANGED <<reports, config, job, candidatesChan, timer, expired, lastSpec,
                  changes, crashes, panicked, pc>>
  BY DEF EnterMonitoring, external, counters, machine
<1>4. phase' = [phase EXCEPT ![g] = "put"]
  BY DEF EnterMonitoring
<1>5. FireProofs!FiringInv'
  BY MachineStutter DEF ControlInv, EnterMonitoring
<1>6. StateTypeOK'
  BY <1>0, <1>1, <1>2, <1>3, <1>4 DEF ControlInv, StateTypeOK
<1>7. draft'[g] # None /\ phase'[g] = "put"
  BY <1>1, <1>2, <1>4, NoneIsNoSpecification DEF ControlInv, StateTypeOK
<1>8. \A h \in Goroutine : h # g => phase'[h] = "none" /\ draft'[h] = None
  BY <1>0, <1>1, <1>4, NobodyElse DEF ControlInv, StateTypeOK
<1>9. InsideExecution'
  BY <1>0, <1>3, <1>7, <1>8 DEF InsideExecution
<1>10. lastSpec = None /\ lastSpec' = None
  BY <1>0, <1>3 DEF ControlInv, NothingRecordedBefore
<1>11. OnePublicationAtATime' /\ PutBeforeRegister'
  BY <1>0, <1>7, <1>8, <1>10 DEF OnePublicationAtATime, Publishing, PutBeforeRegister
<1>12. NothingRecordedBefore' /\ RecordedSpecIsDeployed' /\ JobHasSpec'
  BY <1>3, <1>10 DEF ControlInv, NothingRecordedBefore, RecordedSpecIsDeployed, JobHasSpec
<1>13. QED
  BY <1>5, <1>6, <1>9, <1>11, <1>12 DEF ControlInv

(* The specification is in Consul before Nomad is asked. *)
LEMMA PutSpecKeepsInv ==
  ASSUME ControlInv, NEW g \in Goroutine, PutSpec(g)
  PROVE  ControlInv'
<1>0. /\ phase[g] = "put" /\ pc[g] = "execute"
      /\ draft[g] \in Specification /\ draft[g] # None
      /\ smState = "monitoring" /\ lastSpec = None
  BY DEF ControlInv, StateTypeOK, PutSpec, InsideExecution, OnePublicationAtATime, Publishing
<1>1. /\ config' = draft[g] /\ phase' = [phase EXCEPT ![g] = "register"]
      /\ UNCHANGED <<reports, job, candidatesChan, smState, timer, expired, draft,
                      lastSpec, changes, crashes, panicked, pc>>
  BY DEF PutSpec, machine, counters
<1>2. FireProofs!FiringInv'
  BY MachineStutter DEF ControlInv, PutSpec
<1>3. StateTypeOK'
  BY <1>0, <1>1 DEF ControlInv, StateTypeOK
<1>4. phase'[g] = "register"
  BY <1>1 DEF ControlInv, StateTypeOK
<1>5. \A h \in Goroutine : h # g => phase'[h] = "none" /\ draft'[h] = None
  BY <1>0, <1>1, NobodyElse DEF ControlInv, StateTypeOK
<1>6. InsideExecution' /\ OnePublicationAtATime' /\ PutBeforeRegister'
  BY <1>0, <1>1, <1>4, <1>5
  DEF InsideExecution, OnePublicationAtATime, Publishing, PutBeforeRegister
<1>7. NothingRecordedBefore' /\ RecordedSpecIsDeployed' /\ JobHasSpec'
  BY <1>0, <1>1 DEF NothingRecordedBefore, RecordedSpecIsDeployed, JobHasSpec
<1>8. QED
  BY <1>2, <1>3, <1>6, <1>7 DEF ControlInv

(* The publication ends, with success or at either call with an error. *)
LEMMA PublicationEndsKeepsInv ==
  ASSUME ControlInv, NEW g \in Goroutine,
         PutSpecFails(g) \/ RegisterJob(g) \/ RegisterJobFails(g)
  PROVE  ControlInv'
<1>0. /\ phase[g] # "none" /\ pc[g] = "execute"
      /\ draft[g] \in Specification /\ draft[g] # None
      /\ smState = "monitoring" /\ lastSpec = None
  BY DEF ControlInv, StateTypeOK, PutSpecFails, RegisterJob, RegisterJobFails,
         InsideExecution, OnePublicationAtATime, Publishing
<1>1. /\ phase' = [phase EXCEPT ![g] = "none"] /\ draft' = [draft EXCEPT ![g] = None]
      /\ UNCHANGED <<reports, candidatesChan, smState, timer, expired,
                      changes, crashes, panicked>>
  BY DEF PutSpecFails, RegisterJob, RegisterJobFails, Forget, counters
<1>2. FireProofs!FiringInv'
  BY MachineStep DEF ControlInv, PutSpecFails, RegisterJob, RegisterJobFails
<1>3. /\ config' \in {config, draft[g]}
      /\ job' \in {job, draft[g]}
      /\ lastSpec' \in {None, draft[g]}
      /\ lastSpec' # None => config' = lastSpec' /\ job' = lastSpec'
      /\ job' # None => config' # None
  BY <1>0
  DEF ControlInv, PutBeforeRegister, JobHasSpec, PutSpecFails, RegisterJob, RegisterJobFails
<1>4. StateTypeOK'
  BY <1>0, <1>1, <1>3 DEF ControlInv, StateTypeOK
<1>5. \A h \in Goroutine : phase'[h] = "none" /\ draft'[h] = None
  BY <1>0, <1>1, NobodyElse DEF ControlInv, StateTypeOK
<1>6. InsideExecution' /\ OnePublicationAtATime' /\ PutBeforeRegister'
  BY <1>5 DEF InsideExecution, OnePublicationAtATime, Publishing, PutBeforeRegister
<1>7. NothingRecordedBefore' /\ RecordedSpecIsDeployed' /\ JobHasSpec'
  BY <1>0, <1>1, <1>3 DEF NothingRecordedBefore, RecordedSpecIsDeployed, JobHasSpec
<1>8. QED
  BY <1>2, <1>4, <1>6, <1>7 DEF ControlInv

(* The process ends and another one starts from nothing. *)
LEMMA RestartKeepsInv ==
  ASSUME ControlInv, Crash \/ \E g \in Goroutine : Panic(g)
  PROVE  ControlInv'
<1>0. StartAgain /\ UNCHANGED external
  BY DEF Crash, Panic
<1>1. FireProofs!FiringInv'
  BY <1>0, MachineStartAgain
<1>2. StateTypeOK'
  <2>1. candidatesChan' \in Seq(Snapshot)
    BY <1>0, EmptySeq DEF StartAgain
  <2>2. /\ expired' \in [Timer -> {None} \cup Snapshot]
        /\ phase' \in [Goroutine -> {"none", "put", "register"}]
        /\ draft' \in [Goroutine -> {None} \cup Specification]
    BY <1>0 DEF StartAgain
  <2>3. changes' \in 0..MaxChanges /\ crashes' \in 0..MaxCrashes /\ panicked' \in BOOLEAN
    <3>1. changes \in 0..MaxChanges /\ crashes \in 0..MaxCrashes /\ panicked \in BOOLEAN
      BY DEF ControlInv, StateTypeOK
    <3>2. CASE Crash
      <4>1. changes' = changes /\ panicked' = panicked
        BY <3>2 DEF Crash
      <4>2. crashes' = crashes + 1 /\ crashes < MaxCrashes
        BY <3>2 DEF Crash
      <4>3. crashes' \in 0..MaxCrashes
        BY <3>1, <4>2, ControlAssumption
      <4>4. QED
        BY <3>1, <4>1, <4>3
    <3>3. CASE \E g \in Goroutine : Panic(g)
      <4>1. changes' = changes /\ crashes' = crashes /\ panicked' = TRUE
        BY <3>3 DEF Panic
      <4>2. QED
        BY <3>1, <4>1
    <3>4. QED
      BY <3>2, <3>3
  <2>4. QED
    BY <1>0, <2>1, <2>2, <2>3 DEF StartAgain, ControlInv, StateTypeOK, external
<1>3. InsideExecution' /\ OnePublicationAtATime' /\ PutBeforeRegister'
  BY <1>0 DEF StartAgain, InsideExecution, OnePublicationAtATime, Publishing, PutBeforeRegister
<1>4. NothingRecordedBefore' /\ RecordedSpecIsDeployed' /\ JobHasSpec'
  BY <1>0
  DEF ControlInv, StartAgain, external, NothingRecordedBefore, RecordedSpecIsDeployed, JobHasSpec
<1>5. QED
  BY <1>1, <1>2, <1>3, <1>4 DEF ControlInv

LEMMA StutterKeepsInv ==
  ASSUME ControlInv, UNCHANGED vars
  PROVE  ControlInv'
<1>1. FireProofs!FiringInv'
  BY MachineStutter DEF ControlInv, vars
<1>2. QED
  BY <1>1
  DEF ControlInv, vars, external, machine, publish, counters, StateTypeOK, InsideExecution,
      OnePublicationAtATime, Publishing, PutBeforeRegister, NothingRecordedBefore,
      RecordedSpecIsDeployed, JobHasSpec

LEMMA ControlInvariant == Spec => []ControlInv
<1>1. ControlInv /\ [Next]_vars => ControlInv'
  <2>1. ASSUME ControlInv, Next PROVE ControlInv'
    BY <2>1, WorldKeepsInv, QueueKeepsInv, ExecuteKeepsInv, EnterMonitoringKeepsInv,
       PutSpecKeepsInv, PublicationEndsKeepsInv, RestartKeepsInv
    DEF Next, Execute
  <2>2. QED
    BY <2>1, StutterKeepsInv
<1>2. QED
  BY InitControlInv, <1>1, PTL DEF Spec

-----------------------------------------------------------------------------
(* The types of the controller and of its state machine. *)
THEOREM TypeCorrect == Spec => []TypeOK
<1>1. ControlInv => TypeOK
  BY DEF ControlInv, TypeOK, FireProofs!FiringInv, FireProofs!TypeOK, Fire!TypeOK
<1>2. QED
  BY ControlInvariant, <1>1, PTL

(* A controller that has recorded a specification has it in Consul, and its *)
(* members in Nomad, whatever fired late, failed or died (lines 74-177,     *)
(* 260-299).                                                                *)
THEOREM Deployed == Spec => []RecordedSpecIsDeployed
<1>1. ControlInv => RecordedSpecIsDeployed
  BY DEF ControlInv
<1>2. QED
  BY ControlInvariant, <1>1, PTL

(* Members are never started without a specification to read. *)
THEOREM SpecBeforeJob == Spec => []JobHasSpec
<1>1. ControlInv => JobHasSpec
  BY DEF ControlInv
<1>2. QED
  BY ControlInvariant, <1>1, PTL

(* One publication at a time, and none after a recorded one. *)
THEOREM OnePublication == Spec => []OnePublicationAtATime
<1>1. ControlInv => OnePublicationAtATime
  BY DEF ControlInv
<1>2. QED
  BY ControlInvariant, <1>1, PTL

(* A recorded publication is changed by the next controller process only.   *)
(* Only a publication writes to Consul or Nomad, and there is none while    *)
(* one is recorded.                                                         *)
THEOREM Final == Spec => PublicationIsFinal
<1>1. ASSUME ControlInv, [Next]_vars, lastSpec # None, lastSpec' # None
      PROVE  UNCHANGED <<config, job, lastSpec>>
  <2>1. \A g \in Goroutine : phase[g] = "none"
    BY <1>1 DEF ControlInv, OnePublicationAtATime, Publishing
  <2>2. CASE \E g \in Goroutine : Execute(g)
    BY <1>1, <2>1, <2>2
    DEF Execute, EnterConfiguration, ReenterMonitoring, Unhandled, EnterMonitoring, PutSpec,
        PutSpecFails, RegisterJob, RegisterJobFails, Panic, StartAgain, external, publish
  <2>3. CASE Next /\ ~ \E g \in Goroutine : Execute(g)
    BY <1>1, <2>3
    DEF Next, NodeReports, NodeIsLost, Boot, WatchCandidateReports, SelectCandidates,
        SelectHealth, TimerExpires, TimerFires, Fetch, Crash, StartAgain, external, publish
  <2>4. CASE UNCHANGED vars
    BY <2>4 DEF vars, external, publish
  <2>5. QED
    BY <1>1, <2>2, <2>3, <2>4
<1>2. ControlInv /\ [Next]_vars
        => [lastSpec # None /\ lastSpec' # None => UNCHANGED <<config, job, lastSpec>>]_vars
  BY <1>1
<1>3. QED
  BY ControlInvariant, <1>2, PTL DEF Spec, PublicationIsFinal
=============================================================================
