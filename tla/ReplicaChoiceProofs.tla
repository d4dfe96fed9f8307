------------------------ MODULE ReplicaChoiceProofs ------------------------
(***************************************************************************)
(* Proofs about what ReplicaControl publishes: the best of one snapshot,   *)
(* for any nodes, any positions and any size of a deployment.              *)
(***************************************************************************)
EXTENDS ReplicaControlProofs

-----------------------------------------------------------------------------
(* A list of reports never has two of one node: the key of a report is its  *)
(* node.  That holds of every list on its way from Consul to a publication; *)
(* the first trigger of a process carries none.                             *)
FairSnapshot == {S \in Snapshot : OnePerNode(S)}
FairTrigger  == {t \in Triggers : OnePerNode(t.arg) /\ (t.kind = "start" => t.arg = {})}

SnapshotsInv ==
  /\ reports \in FairSnapshot
  /\ candidatesChan \in Seq(FairSnapshot)
  /\ timer \in {None} \cup FairSnapshot
  /\ expired \in [Timer -> {None} \cup FairSnapshot]
  /\ triggers \in Seq(FairTrigger)
  /\ \A g \in Goroutine : pc[g] = "execute" => current[g] \in FairTrigger

(* The specification d has the best candidates of S in their order. *)
BestOf(d, S) ==
  LET chosen(i) == CHOOSE r \in S : r.node = d[i]
  IN /\ \A i \in DOMAIN d : \E r \in S : r.node = d[i]
     /\ \A i, j \in DOMAIN d : d[i] = d[j] => i = j
     /\ \A i \in DOMAIN d : \A r \in S :
          Ahead(r, chosen(i)) => \E j \in 1..(i - 1) : d[j] = r.node

ChoiceInv ==
  /\ ControlInv
  /\ SnapshotsInv
  /\ PublishesTheBest

-----------------------------------------------------------------------------
(* An arrangement of a finite set has each of its elements once. *)
LEMMA SortingIsOneToOne ==
  ASSUME NEW S \in Snapshot, NEW q \in Sortings(S)
  PROVE  \A i, j \in 1..Cardinality(S) : q[i] = q[j] => i = j
<1>1. IsFiniteSet(S) /\ Cardinality(S) \in Nat
  BY ControlAssumption, FS_Subset, FS_CardinalityType DEF Snapshot, Report
<1>2. IsFiniteSet(1..Cardinality(S)) /\ Cardinality(1..Cardinality(S)) = Cardinality(S)
  BY <1>1, FS_Interval
<1>3. q \in Surjection(1..Cardinality(S), S)
  BY DEF Sortings, Surjection
<1>4. q \in Injection(1..Cardinality(S), S)
  BY <1>1, <1>2, <1>3, FS_SurjSameCardinalityImpliesInj
<1>5. QED
  BY <1>4 DEF Injection, IsInjective

(* The first of a sorted list of reports, one of each node, are the best,   *)
(* each of them once.                                                       *)
LEMMA SortedIsBest ==
  ASSUME NEW S \in FairSnapshot, NEW q \in Sortings(S)
  PROVE  BestOf(MembersOf(q, DeployLength(S)), S)
<1> DEFINE n == DeployLength(S)
           d == MembersOf(q, n)
           chosen(i) == CHOOSE r \in S : r.node = d[i]
<1>1. S \in Snapshot /\ OnePerNode(S)
  BY DEF FairSnapshot
<1>2. n \in Nat /\ Cardinality(S) \in Nat /\ n <= Cardinality(S)
  BY <1>1, DeployLengthRange, ControlAssumption
<1>3. q \in [1..Cardinality(S) -> S]
  BY DEF Sortings
<1>4. DOMAIN d = 1..n /\ \A i \in 1..n : d[i] = q[i].node /\ q[i] \in S
  BY <1>2, <1>3 DEF MembersOf
<1>5. \A i \in 1..n : chosen(i) = q[i]
  BY <1>1, <1>4 DEF OnePerNode
<1>6. \A i, j \in 1..n : d[i] = d[j] => i = j
  <2> SUFFICES ASSUME NEW i \in 1..n, NEW j \in 1..n, d[i] = d[j] PROVE i = j
    OBVIOUS
  <2>1. q[i] = q[j]
    BY <1>1, <1>4 DEF OnePerNode
  <2>2. QED
    BY <1>1, <1>2, <2>1, SortingIsOneToOne
<1>7. ASSUME NEW i \in 1..n, NEW r \in S, Ahead(r, q[i])
      PROVE  \E j \in 1..(i - 1) : d[j] = r.node
  <2>1. PICK k \in 1..Cardinality(S) : q[k] = r
    BY <1>3 DEF Sortings
  <2>2. r.pos \in Nat /\ q[i].pos \in Nat
    BY <1>1, <1>4, ControlAssumption DEF Snapshot, Report
  <2>3. k # i /\ Less(q[k], q[i])
    BY <1>7, <2>1, <2>2 DEF Ahead, Less
  <2>4. i \in 1..Cardinality(S)
    BY <1>2
  <2>5. ~ (i < k)
    BY <1>3, <2>3, <2>4 DEF Sortings
  <2>6. k \in 1..(i - 1) /\ k \in 1..n
    BY <1>2, <2>3, <2>5
  <2>7. QED
    BY <1>4, <2>1, <2>6
<1>8. QED
  BY <1>4, <1>5, <1>6, <1>7 DEF BestOf

(* The triggers that are fired carry a fair list or none at all. *)
LEMMA FairTriggers ==
  /\ StartTrigger \in FairTrigger
  /\ MemberStatus \in FairTrigger
  /\ \A S \in FairSnapshot :
       CandidateReport(S) \in FairTrigger /\ InitialConfiguration(S) \in FairTrigger
  /\ \A t \in FairTrigger : t.arg \in FairSnapshot
BY TriggersAreTriggers
   DEF FairTrigger, FairSnapshot, StartTrigger, MemberStatus, CandidateReport,
       InitialConfiguration, OnePerNode, Triggers, Snapshot

-----------------------------------------------------------------------------
(* Nothing is published at first, and the reports are those of Consul. *)
LEMMA ChoiceInit == Init => ChoiceInv
<1> SUFFICES ASSUME Init PROVE ChoiceInv
  OBVIOUS
<1>1. SnapshotsInv
  BY EmptySeq DEF Init, Fire!Init, SnapshotsInv, FairSnapshot
<1>2. PublishesTheBest
  BY DEF Init, PublishesTheBest, Publishing
<1>3. QED
  BY <1>1, <1>2, InitControlInv DEF ChoiceInv

(* The reports change, or are listed. *)
LEMMA WorldKeepsSnapshots ==
  ASSUME SnapshotsInv,
         \/ \E n \in Node, p \in Position : NodeReports(n, p)
         \/ \E n \in Node : NodeIsLost(n)
         \/ WatchCandidateReports
  PROVE  SnapshotsInv'
<1>1. UNCHANGED <<timer, expired, triggers, pc, current>>
  BY DEF NodeReports, NodeIsLost, WatchCandidateReports, machine
<1>2. reports' \in FairSnapshot
  <2>1. CASE \E n \in Node, p \in Position : NodeReports(n, p)
    BY <2>1 DEF SnapshotsInv, NodeReports, FairSnapshot, Snapshot, Report, OnePerNode
  <2>2. CASE \E n \in Node : NodeIsLost(n)
    BY <2>2 DEF SnapshotsInv, NodeIsLost, FairSnapshot, Snapshot, Report, OnePerNode
  <2>3. CASE WatchCandidateReports
    BY <2>3 DEF SnapshotsInv, WatchCandidateReports, external
  <2>4. QED
    BY <2>1, <2>2, <2>3
<1>3. candidatesChan' \in Seq(FairSnapshot)
  BY AppendProperties DEF SnapshotsInv, NodeReports, NodeIsLost, WatchCandidateReports
<1>4. QED
  BY <1>1, <1>2, <1>3 DEF SnapshotsInv

(* A list goes from the channel into a trigger, from there into a timer,    *)
(* and from the timer into another trigger.                                 *)
LEMMA QueueKeepsSnapshots ==
  ASSUME ControlInv, SnapshotsInv,
         \/ Boot
         \/ SelectCandidates
         \/ SelectHealth
         \/ \E t \in Timer : TimerExpires(t)
         \/ \E t \in Timer : TimerFires(t)
         \/ \E g \in Goroutine : Fetch(g)
  PROVE  SnapshotsInv'
<1> USE DEF SnapshotsInv
<1>1. ASSUME NEW g \in Goroutine, NEW t \in FairTrigger, Fire!Enqueue(g, t)
      PROVE  /\ triggers' \in Seq(FairTrigger)
             /\ \A h \in Goroutine : pc'[h] = "execute" => current'[h] \in FairTrigger
  BY <1>1, OneExecutes, AppendProperties DEF Fire!Enqueue, ControlInv
<1>2. CASE Boot \/ SelectHealth
  BY <1>1, <1>2, FairTriggers DEF Boot, SelectHealth, Goroutine, external
<1>3. CASE SelectCandidates
  <2>1. /\ Head(candidatesChan) \in FairSnapshot
        /\ candidatesChan' \in Seq(FairSnapshot)
    BY <1>3, HeadTailProperties DEF SelectCandidates
  <2>2. QED
    BY <1>1, <1>3, <2>1, FairTriggers DEF SelectCandidates, Goroutine, external
<1>4. CASE \E t \in Timer : TimerExpires(t)
  BY <1>4 DEF TimerExpires, external, machine
<1>5. ASSUME NEW t \in Timer, TimerFires(t) PROVE SnapshotsInv'
  <2>1. expired[t] \in FairSnapshot
    BY <1>5 DEF TimerFires
  <2>2. QED
    BY <1>1, <1>5, <2>1, FairTriggers DEF TimerFires, Goroutine, external
<1>6. ASSUME NEW g \in Goroutine, Fetch(g) PROVE SnapshotsInv'
  <2>1. CASE Fire!FetchNothing(g)
    BY <1>6, <2>1, OneExecutes DEF Fetch, Fire!FetchNothing, ControlInv, external
  <2>2. CASE Fire!FetchTrigger(g)
    <3>1. Head(triggers) \in FairTrigger /\ Tail(triggers) \in Seq(FairTrigger)
      BY <2>2, HeadTailProperties DEF Fire!FetchTrigger
    <3>2. \A h \in Goroutine : current'[h] \in {current[h], Head(triggers)}
                              /\ (pc'[h] = "execute" => pc[h] = "execute" \/ h = g)
      BY <2>2 DEF Fire!FetchTrigger, ControlInv, FireProofs!FiringInv, FireProofs!TypeOK
    <3>3. current'[g] = Head(triggers) /\ triggers' = Tail(triggers)
      BY <2>2 DEF Fire!FetchTrigger, ControlInv, FireProofs!FiringInv, FireProofs!TypeOK
    <3>4. UNCHANGED <<reports, candidatesChan, timer, expired>>
      BY <1>6 DEF Fetch, external
    <3>5. QED
      BY <3>1, <3>2, <3>3, <3>4
  <2>3. QED
    BY <1>6, <2>1, <2>2 DEF Fetch
<1>7. QED
  BY <1>2, <1>3, <1>4, <1>5, <1>6

(* An execution puts the list of its trigger into a timer or nowhere. *)
LEMMA ExecuteKeepsSnapshots ==
  ASSUME ControlInv, SnapshotsInv, NEW g \in Goroutine, Execute(g)
  PROVE  SnapshotsInv'
<1> USE DEF SnapshotsInv
<1>1. \A h \in Goroutine : pc'[h] = "execute" => pc[h] = "execute" /\ current'[h] = current[h]
  BY OneExecutes
  DEF ControlInv, Execute, EnterConfiguration, ReenterMonitoring, Unhandled,
      EnterMonitoring, PutSpec, PutSpecFails, RegisterJob, RegisterJobFails, Panic,
      Fire!ExecuteOk, Fire!ExecuteErr, StartAgain, machine
<1>2. triggers' \in {triggers, <<>>}
  BY DEF Execute, EnterConfiguration, ReenterMonitoring, Unhandled,
      EnterMonitoring, PutSpec, PutSpecFails, RegisterJob, RegisterJobFails, Panic,
      Fire!ExecuteOk, Fire!ExecuteErr, StartAgain, machine
<1>3. CASE EnterConfiguration(g)
  <2>1. current[g].arg \in FairSnapshot
    BY <1>3, FairTriggers DEF EnterConfiguration, Handles
  <2>2. timer' \in {None} \cup FairSnapshot
    BY <1>3, <2>1 DEF EnterConfiguration
  <2>3. UNCHANGED <<reports, candidatesChan, expired>>
    BY <1>3 DEF EnterConfiguration, external
  <2>4. QED
    BY <1>1, <1>2, <2>2, <2>3, EmptySeq
<1>4. CASE Panic(g)
  BY <1>1, <1>2, <1>4, EmptySeq DEF Panic, StartAgain, external
<1>5. CASE \/ ReenterMonitoring(g) \/ Unhandled(g) \/ EnterMonitoring(g) \/ PutSpec(g)
           \/ PutSpecFails(g) \/ RegisterJob(g) \/ RegisterJobFails(g)
  <2>1. UNCHANGED <<reports, candidatesChan, timer, expired>>
    BY <1>5
    DEF ReenterMonitoring, Unhandled, EnterMonitoring, PutSpec, PutSpecFails,
        RegisterJob, RegisterJobFails, external
  <2>2. QED
    BY <1>1, <1>2, <2>1, EmptySeq
<1>6. QED
  BY <1>3, <1>4, <1>5 DEF Execute

(* No step makes a list that is not fair. *)
LEMMA SnapshotsStep ==
  ASSUME ControlInv, SnapshotsInv, [Next]_vars
  PROVE  SnapshotsInv'
<1>1. CASE Crash
  BY <1>1, EmptySeq DEF Crash, StartAgain, SnapshotsInv, external
<1>2. CASE UNCHANGED vars
  BY <1>2 DEF SnapshotsInv, vars, external, machine
<1>3. QED
  BY <1>1, <1>2, WorldKeepsSnapshots, QueueKeepsSnapshots, ExecuteKeepsSnapshots
  DEF Next

-----------------------------------------------------------------------------
(* The publication starts with the best, and while it lasts its goroutine   *)
(* executes the same trigger.                                               *)
LEMMA BestStep ==
  ASSUME ControlInv, SnapshotsInv, PublishesTheBest, [Next]_vars
  PROVE  PublishesTheBest'
<1> SUFFICES ASSUME NEW g \in Goroutine, phase'[g] # "none"
             PROVE  BestOf(draft'[g], current'[g].arg)
  BY DEF PublishesTheBest, Publishing, BestOf
<1>1. CASE EnterMonitoring(g)
  <2>1. current[g].arg \in FairSnapshot /\ current' = current
    BY <1>1, FairTriggers DEF EnterMonitoring, Handles, SnapshotsInv, machine
  <2>2. PICK q \in Sortings(current[g].arg) :
          draft' = [draft EXCEPT ![g] = MembersOf(q, DeployLength(current[g].arg))]
    BY <1>1 DEF EnterMonitoring
  <2>3. draft'[g] = MembersOf(q, DeployLength(current[g].arg))
    BY <2>2 DEF ControlInv, StateTypeOK
  <2>4. QED
    BY <2>1, <2>3, SortedIsBest
<1>2. CASE phase[g] # "none" /\ draft'[g] = draft[g] /\ current'[g] = current[g]
  BY <1>2 DEF PublishesTheBest, Publishing, BestOf
<1>3. ASSUME ~ EnterMonitoring(g)
      PROVE  phase[g] # "none" /\ draft'[g] = draft[g] /\ current'[g] = current[g]
  <2>1. CASE \E h \in Goroutine : Execute(h)
    <3>1. PICK h \in Goroutine : Execute(h)
      BY <2>1
    <3>2. CASE h = g
      BY <1>3, <3>1, <3>2
      DEF Execute, EnterConfiguration, ReenterMonitoring, Unhandled, Handles, PutSpec,
          PutSpecFails, RegisterJob, RegisterJobFails, Panic, StartAgain, Forget,
          publish, machine, ControlInv, StateTypeOK
    <3>3. CASE h # g
      <4>1. pc[h] = "execute"
        BY <3>1
        DEF Execute, EnterConfiguration, ReenterMonitoring, Unhandled, Handles,
            EnterMonitoring, PutSpec, PutSpecFails, RegisterJob, RegisterJobFails, Panic,
            Fire!ExecuteOk, Fire!ExecuteErr, ControlInv, InsideExecution
      <4>2. phase[g] = "none"
        BY <3>3, <4>1, NobodyElse
      <4>3. phase'[g] = "none"
        BY <3>1, <3>3, <4>2
        DEF Execute, EnterConfiguration, ReenterMonitoring, Unhandled, EnterMonitoring,
            PutSpec, PutSpecFails, RegisterJob, RegisterJobFails, Panic, StartAgain,
            Forget, publish, ControlInv, StateTypeOK
      <4>4. QED
        BY <4>3
    <3>4. QED
      BY <3>2, <3>3
  <2>2. CASE Crash
    BY <2>2 DEF Crash, StartAgain
  <2>3. CASE \E h \in Goroutine : Fetch(h)
    <3>1. PICK h \in Goroutine : Fetch(h)
      BY <2>3
    <3>2. UNCHANGED <<phase, draft>>
      BY <3>1 DEF Fetch, publish
    <3>3. pc[g] = "execute"
      BY <3>2 DEF ControlInv, InsideExecution
    <3>4. h # g
      BY <3>1, <3>3 DEF Fetch, Fire!FetchNothing, Fire!FetchTrigger
    <3>5. current'[g] = current[g]
      BY <3>1, <3>4
      DEF Fetch, Fire!FetchNothing, Fire!FetchTrigger, ControlInv,
          FireProofs!FiringInv, FireProofs!TypeOK
    <3>6. QED
      BY <3>2, <3>5
  <2>4. CASE \/ \E n \in Node, p \in Position : NodeReports(n, p)
             \/ \E n \in Node : NodeIsLost(n)
             \/ Boot \/ WatchCandidateReports \/ SelectCandidates \/ SelectHealth
             \/ \E t \in Timer : TimerExpires(t)
             \/ \E t \in Timer : TimerFires(t)
             \/ UNCHANGED vars
    BY <2>4
    DEF NodeReports, NodeIsLost, Boot, WatchCandidateReports, SelectCandidates,
        SelectHealth, TimerExpires, TimerFires, Fire!Enqueue, vars, publish, machine
  <2>5. QED
    BY <2>1, <2>2, <2>3, <2>4 DEF Next
<1>4. QED
  BY <1>1, <1>2, <1>3

(* What is proved inductive. *)
LEMMA ChoiceInvariant == Spec => []ChoiceInv
<1>1. ASSUME ControlInv, [Next]_vars PROVE ControlInv'
  <2>1. CASE Next
    BY <1>1, <2>1, WorldKeepsInv, QueueKeepsInv, ExecuteKeepsInv, EnterMonitoringKeepsInv,
       PutSpecKeepsInv, PublicationEndsKeepsInv, RestartKeepsInv
    DEF Next, Execute
  <2>2. QED
    BY <1>1, <2>1, StutterKeepsInv
<1>2. ChoiceInv /\ [Next]_vars => ChoiceInv'
  BY <1>1, SnapshotsStep, BestStep DEF ChoiceInv
<1>3. QED
  BY ChoiceInit, <1>2, PTL DEF Spec

-----------------------------------------------------------------------------
(* What is being published is drawn from one snapshot, without repetition,  *)
(* and no candidate whose data come before those of a chosen one is left    *)
(* out or put after it (replica.go 109-137, mongo.go 57-92).                *)
THEOREM Best == Spec => []PublishesTheBest
<1>1. ChoiceInv => PublishesTheBest
  BY DEF ChoiceInv
<1>2. QED
  BY ChoiceInvariant, <1>1, PTL

-----------------------------------------------------------------------------
(* The controller implements Deployment.  First, where a list is held. *)
LEMMA Holders ==
  ASSUME NEW L
  PROVE  L \in ListsHeld <=>
           \/ \E i \in DOMAIN candidatesChan : L = candidatesChan[i]
           \/ L # None /\ (L = timer \/ \E t \in Timer : L = expired[t])
           \/ \E i \in DOMAIN triggers : triggers[i].kind \in WithList /\ L = triggers[i].arg
           \/ \E g \in Goroutine :
                pc[g] = "execute" /\ current[g].kind \in WithList /\ L = current[g].arg
BY DEF ListsHeld, Underway, Fire!Executing

LEMMA HoldersNext ==
  ASSUME NEW L
  PROVE  L \in ListsHeld' <=>
           \/ \E i \in DOMAIN candidatesChan' : L = candidatesChan'[i]
           \/ L # None /\ (L = timer' \/ \E t \in Timer : L = expired'[t])
           \/ \E i \in DOMAIN triggers' : triggers'[i].kind \in WithList /\ L = triggers'[i].arg
           \/ \E g \in Goroutine :
                pc'[g] = "execute" /\ current'[g].kind \in WithList /\ L = current'[g].arg
BY DEF ListsHeld, Underway, Fire!Executing

(* What is put into a sequence, and what is taken out. *)
LEMMA AppendHolds ==
  ASSUME NEW T, NEW q \in Seq(T), NEW x \in T, NEW i \in DOMAIN Append(q, x)
  PROVE  \/ i \in DOMAIN q /\ Append(q, x)[i] = q[i]
         \/ Append(q, x)[i] = x
OBVIOUS

LEMMA TailHolds ==
  ASSUME NEW T, NEW q \in Seq(T), q # <<>>
  PROVE  /\ 1 \in DOMAIN q /\ Head(q) = q[1]
         /\ \A i \in DOMAIN Tail(q) : i + 1 \in DOMAIN q /\ Tail(q)[i] = q[i + 1]
OBVIOUS

(* What the controller is publishing. *)
LEMMA ChosenIsDraft ==
  ASSUME ControlInv, NEW g \in Goroutine, phase[g] # "none"
  PROVE  Chosen = draft[g] /\ Chosen # None
<1>1. Publishing = {g}
  BY DEF ControlInv, OnePublicationAtATime, Publishing
<1>2. QED
  BY <1>1 DEF Chosen, ControlInv, InsideExecution

LEMMA NothingChosen ==
  ASSUME \A g \in Goroutine : phase[g] = "none"
  PROVE  Chosen = None
BY DEF Chosen, Publishing

LEMMA NothingChosenNext ==
  ASSUME \A g \in Goroutine : phase'[g] = "none"
  PROVE  Chosen' = None
BY DEF Chosen, Publishing

LEMMA ChosenNext ==
  ASSUME NEW g \in Goroutine, phase' = [phase EXCEPT ![g] = phase'[g]], phase'[g] # "none",
         phase \in [Goroutine -> {"none", "put", "register"}],
         \A h \in Goroutine \ {g} : phase[h] = "none"
  PROVE  Chosen' = draft'[g]
<1>1. Publishing' = {g}
  BY DEF Publishing
<1>2. QED
  BY <1>1 DEF Chosen

-----------------------------------------------------------------------------
(* A list that a step leaves somewhere was held before, or is the one that  *)
(* Consul has.                                                              *)
LEMMA LooksOnly ==
  ASSUME ControlInv, SnapshotsInv,
         \/ Boot \/ WatchCandidateReports \/ SelectCandidates \/ SelectHealth
         \/ \E t \in Timer : TimerExpires(t) \/ TimerFires(t)
         \/ \E g \in Goroutine : \/ Fetch(g) \/ EnterConfiguration(g)
                                 \/ ReenterMonitoring(g) \/ Unhandled(g)
  PROVE  ListsHeld' \subseteq ListsHeld \cup {reports}
<1> SUFFICES ASSUME NEW L \in ListsHeld' PROVE L \in ListsHeld \cup {reports}
  OBVIOUS
<1> USE DEF WithList
<1>0. /\ triggers \in Seq(Triggers) /\ candidatesChan \in Seq(Snapshot)
      /\ pc \in [Goroutine -> {"outside", "fetch", "execute"}]
      /\ current \in [Goroutine -> Triggers \cup {NoTrigger}]
      /\ expired \in [Timer -> {None} \cup Snapshot]
      /\ timer \in {None} \cup Snapshot
      /\ reports \in Snapshot
  BY DEF ControlInv, StateTypeOK, FireProofs!FiringInv, FireProofs!TypeOK
<1>1. ASSUME NEW g \in Goroutine, NEW t \in Triggers, Fire!Enqueue(g, t),
             t.kind \in WithList => t.arg \in ListsHeld,
             UNCHANGED timer,
             \A i \in DOMAIN candidatesChan' :
               \E j \in DOMAIN candidatesChan : candidatesChan'[i] = candidatesChan[j],
             \A s \in Timer : expired'[s] \in {None, expired[s]}
      PROVE  L \in ListsHeld
  <2>1. CASE \E i \in DOMAIN triggers' : triggers'[i].kind \in WithList /\ L = triggers'[i].arg
    BY <1>0, <1>1, <2>1, Holders, AppendHolds DEF Fire!Enqueue
  <2>2. CASE \E h \in Goroutine :
                pc'[h] = "execute" /\ current'[h].kind \in WithList /\ L = current'[h].arg
    BY <1>0, <1>1, <2>2, Holders DEF Fire!Enqueue
  <2>3. QED
    BY <1>1, <2>1, <2>2, Holders, HoldersNext
<1>2. CASE Boot \/ SelectHealth
  <2>1. StartTrigger.kind \notin WithList /\ MemberStatus.kind \notin WithList
    BY DEF StartTrigger, MemberStatus
  <2>2. QED
    BY <1>1, <1>2, <2>1, TriggersAreTriggers DEF Boot, SelectHealth, Goroutine
<1>3. CASE WatchCandidateReports
  <2>1. CASE \E i \in DOMAIN candidatesChan' : L = candidatesChan'[i]
    BY <1>0, <1>3, <2>1, Holders, AppendHolds DEF WatchCandidateReports
  <2>2. QED
    BY <1>3, <2>1, Holders, HoldersNext DEF WatchCandidateReports, machine
<1>4. CASE SelectCandidates
  <2> DEFINE t == CandidateReport(Head(candidatesChan))
  <2>1. t.arg = Head(candidatesChan) /\ Head(candidatesChan) \in ListsHeld /\ t \in Triggers
    BY <1>0, <1>4, TailHolds, Holders, TriggersAreTriggers DEF SelectCandidates, CandidateReport
  <2>2. \A i \in DOMAIN candidatesChan' :
          \E j \in DOMAIN candidatesChan : candidatesChan'[i] = candidatesChan[j]
    BY <1>0, <1>4, TailHolds DEF SelectCandidates
  <2>3. Fire!Enqueue(Loop, t) /\ UNCHANGED <<timer, expired>>
    BY <1>4 DEF SelectCandidates
  <2> HIDE DEF t
  <2>4. QED
    BY <1>1, <2>1, <2>2, <2>3 DEF Goroutine
<1>5. ASSUME NEW t \in Timer, TimerExpires(t) PROVE L \in ListsHeld
  BY <1>0, <1>5, Holders, HoldersNext DEF TimerExpires, machine
<1>6. ASSUME NEW s \in Timer, TimerFires(s) PROVE L \in ListsHeld
  <2> DEFINE t == InitialConfiguration(expired[s])
  <2>1. t.arg = expired[s] /\ expired[s] \in ListsHeld /\ t \in Triggers
    BY <1>0, <1>6, Holders, TriggersAreTriggers DEF TimerFires, InitialConfiguration
  <2>2. Fire!Enqueue(s, t) /\ UNCHANGED <<timer, candidatesChan>>
    BY <1>6 DEF TimerFires
  <2>3. \A u \in Timer : expired'[u] \in {None, expired[u]}
    BY <1>0, <1>6 DEF TimerFires
  <2> HIDE DEF t
  <2>4. QED
    BY <1>1, <2>1, <2>2, <2>3 DEF Goroutine
<1>7. ASSUME NEW g \in Goroutine, Fetch(g) PROVE L \in ListsHeld
  <2>1. UNCHANGED <<candidatesChan, timer, expired>>
    BY <1>7 DEF Fetch
  <2>2. CASE Fire!FetchNothing(g)
    BY <1>0, <2>1, <2>2, Holders, HoldersNext DEF Fire!FetchNothing
  <2>3. CASE Fire!FetchTrigger(g)
    <3>1. CASE \E i \in DOMAIN triggers' :
                 triggers'[i].kind \in WithList /\ L = triggers'[i].arg
      BY <1>0, <2>3, <3>1, Holders, TailHolds DEF Fire!FetchTrigger
    <3>2. CASE \E h \in Goroutine :
                 pc'[h] = "execute" /\ current'[h].kind \in WithList /\ L = current'[h].arg
      <4>1. PICK h \in Goroutine :
               pc'[h] = "execute" /\ current'[h].kind \in WithList /\ L = current'[h].arg
        BY <3>2
      <4>2. CASE h = g
        <5>1. 1 \in DOMAIN triggers /\ current'[g] = triggers[1]
          BY <1>0, <2>3, TailHolds DEF Fire!FetchTrigger
        <5>2. QED
          BY <4>1, <4>2, <5>1, Holders
      <4>3. CASE h # g
        BY <1>0, <2>3, <4>1, <4>3, Holders DEF Fire!FetchTrigger
      <4>4. QED
        BY <4>2, <4>3
    <3>3. QED
      BY <2>1, <3>1, <3>2, Holders, HoldersNext
  <2>4. QED
    BY <1>7, <2>2, <2>3 DEF Fetch
<1>8. ASSUME NEW g \in Goroutine, Fire!ExecuteOk(g) \/ Fire!ExecuteErr(g),
             UNCHANGED <<candidatesChan, expired>>,
             timer' = timer \/ timer' = None \/ timer' \in ListsHeld
      PROVE  L \in ListsHeld
  <2>1. triggers' = triggers /\ \A h \in Goroutine :
          pc'[h] = "execute" => pc[h] = "execute" /\ current'[h] = current[h]
    BY <1>0, <1>8 DEF Fire!ExecuteOk, Fire!ExecuteErr
  <2>2. QED
    BY <1>8, <2>1, Holders, HoldersNext
<1>9. ASSUME NEW g \in Goroutine, EnterConfiguration(g) PROVE L \in ListsHeld
  <2>1. current[g].arg \in ListsHeld \/ current[g].arg = {}
    <3>1. current[g] \in FairTrigger /\ pc[g] = "execute"
      BY <1>9 DEF EnterConfiguration, Handles, SnapshotsInv
    <3>2. current[g].kind = "start" \/ current[g].kind \in WithList
      BY <1>9 DEF EnterConfiguration, Handles
    <3>3. QED
      BY <3>1, <3>2, Holders DEF FairTrigger
  <2>2. QED
    BY <1>8, <1>9, <2>1 DEF EnterConfiguration
<1>10. ASSUME NEW g \in Goroutine, ReenterMonitoring(g) \/ Unhandled(g) PROVE L \in ListsHeld
  BY <1>8, <1>10 DEF ReenterMonitoring, Unhandled
<1>11. QED
  BY <1>2, <1>3, <1>4, <1>5, <1>6, <1>7, <1>9, <1>10

-----------------------------------------------------------------------------
(* Every step is a step of Deployment.  The reports change. *)
LEMMA RefinesReportsChange ==
  ASSUME SnapshotsInv',
         \/ \E n \in Node, p \in Position : NodeReports(n, p)
         \/ \E n \in Node : NodeIsLost(n)
  PROVE  Promise!ReportsChange
<1>1. UNCHANGED <<config, job, candidatesChan, smState, timer, expired, phase, draft, lastSpec,
                  triggers, pc, current>>
  BY DEF NodeReports, NodeIsLost, publish, machine
<1>2. UNCHANGED <<ListsHeld, Decided, Chosen>>
  BY <1>1 DEF ListsHeld, Underway, Fire!Executing, Decided, Chosen, Publishing
<1>3. reports' \in SUBSET Promise!Report
  BY DEF SnapshotsInv, FairSnapshot, Snapshot, Report, Promise!Report
<1>4. QED
  BY <1>1, <1>2, <1>3 DEF Promise!ReportsChange, Promise!deployed

(* Lists are read, passed on and dropped. *)
LEMMA RefinesLook ==
  ASSUME ControlInv, SnapshotsInv,
         \/ Boot \/ WatchCandidateReports \/ SelectCandidates \/ SelectHealth
         \/ \E t \in Timer : TimerExpires(t) \/ TimerFires(t)
         \/ \E g \in Goroutine : \/ Fetch(g) \/ EnterConfiguration(g)
                                 \/ ReenterMonitoring(g) \/ Unhandled(g)
  PROVE  Promise!Look
<1>1. UNCHANGED <<reports, config, job, phase, draft, lastSpec>>
  BY DEF Boot, WatchCandidateReports, SelectCandidates, SelectHealth, TimerExpires,
         TimerFires, Fetch, EnterConfiguration, ReenterMonitoring, Unhandled, external, publish
<1>2. smState' = smState \/ (smState # "monitoring" /\ smState' = "configuration")
  BY DEF Boot, WatchCandidateReports, SelectCandidates, SelectHealth, TimerExpires,
         TimerFires, Fetch, EnterConfiguration, ReenterMonitoring, Unhandled
<1>3. UNCHANGED <<Decided, Chosen>>
  BY <1>1, <1>2 DEF Decided, Chosen, Publishing
<1>4. ListsHeld' \subseteq ListsHeld \cup {reports}
  BY LooksOnly
<1>5. QED
  BY <1>1, <1>3, <1>4 DEF Promise!Look, Promise!deployed

(* The choice of a goroutine is one that Deployment allows. *)
LEMMA DraftIsAChoice ==
  ASSUME NEW S \in FairSnapshot, NEW q \in Sortings(S),
         Kind = "mongo" => DeployLength(S) > 0
  PROVE  MembersOf(q, DeployLength(S)) \in Promise!Choices(S)
<1> DEFINE d == MembersOf(q, DeployLength(S))
           chosen(i) == CHOOSE r \in S : r.node = d[i]
<1>1. BestOf(d, S) /\ S \in Snapshot
  BY SortedIsBest DEF FairSnapshot
<1>2. d \in Specification /\ DOMAIN d = 1..DeployLength(S)
  BY <1>1, GeneratesSpecification DEF MembersOf
<1>3. DeployLength(S) \in {0, SetSize} /\ SetSize \in Nat \ {0}
  BY <1>1, DeployLengthRange, ControlAssumption
<1> HIDE DEF d
<1>4. d \in [1..SetSize -> Node] \cup (IF Kind = "mongo" THEN {} ELSE [1..0 -> Node])
  <2>1. CASE DeployLength(S) = 0
    <3>1. Kind # "mongo" /\ 1 \notin DOMAIN d
      BY <1>2, <2>1
    <3>2. d \notin [1..SetSize -> Node]
      BY <1>3, <3>1
    <3>3. QED
      BY <1>2, <3>1, <3>2 DEF Specification
  <2>2. CASE DeployLength(S) = SetSize
    <3>1. 1 \in DOMAIN d
      BY <1>2, <1>3, <2>2
    <3>2. d \notin [1..0 -> Node]
      BY <3>1
    <3>3. QED
      BY <1>2, <3>2 DEF Specification
  <2>3. QED
    BY <1>3, <2>1, <2>2
<1>5. \A i, j \in DOMAIN d : d[i] = d[j] => i = j
  BY <1>1 DEF BestOf
<1>6. ASSUME NEW i \in DOMAIN d
      PROVE  \E r \in S :
               /\ r.node = d[i]
               /\ \A p \in S : Promise!Ahead(p, r) => \E j \in 1..(i - 1) : d[j] = p.node
  <2>1. chosen(i) \in S /\ chosen(i).node = d[i]
    BY <1>1 DEF BestOf
  <2>2. \A p \in S : Ahead(p, chosen(i)) => \E j \in 1..(i - 1) : d[j] = p.node
    BY <1>1 DEF BestOf
  <2> HIDE DEF chosen
  <2>3. QED
    BY <2>1, <2>2 DEF Ahead, Promise!Ahead
<1>7. QED
  BY <1>4, <1>5, <1>6 DEF Promise!Choices, d

LEMMA RefinesChoose ==
  ASSUME ControlInv, SnapshotsInv, NEW g \in Goroutine, EnterMonitoring(g)
  PROVE  Promise!Choose
<1>1. /\ pc[g] = "execute" /\ current[g].kind = "initialConfiguration"
      /\ smState # "monitoring" /\ smState' = "monitoring"
  BY DEF EnterMonitoring, Handles, Permitted
<1>2. current[g].arg \in ListsHeld /\ current[g].arg \in FairSnapshot
  BY <1>1, Holders, FairTriggers DEF WithList, SnapshotsInv
<1>3. UNCHANGED <<reports, config, job, lastSpec, ListsHeld>>
  BY DEF EnterMonitoring, external, machine, ListsHeld, Underway, Fire!Executing
<1>4. PICK q \in Sortings(current[g].arg) :
        draft' = [draft EXCEPT ![g] = MembersOf(q, DeployLength(current[g].arg))]
  BY DEF EnterMonitoring
<1>5. draft'[g] \in Promise!Choices(current[g].arg)
  <2>1. draft'[g] = MembersOf(q, DeployLength(current[g].arg))
    BY <1>4 DEF ControlInv, StateTypeOK
  <2>2. Kind = "mongo" => DeployLength(current[g].arg) > 0
    BY DEF EnterMonitoring
  <2>3. QED
    BY <1>2, <2>1, <2>2, DraftIsAChoice
<1>6. Chosen' = draft'[g]
  <2>1. \A h \in Goroutine : phase[h] = "none"
    BY <1>1 DEF ControlInv, OnePublicationAtATime, Publishing
  <2>2. phase' = [phase EXCEPT ![g] = "put"] /\ phase'[g] = "put"
    BY DEF EnterMonitoring, ControlInv, StateTypeOK
  <2>3. QED
    BY <2>1, <2>2, ChosenNext DEF ControlInv, StateTypeOK
<1>7. QED
  BY <1>1, <1>2, <1>3, <1>5, <1>6 DEF Promise!Choose, Promise!deployed, Decided

LEMMA RefinesPut ==
  ASSUME ControlInv, NEW g \in Goroutine, PutSpec(g)
  PROVE  Promise!Put
<1>1. Chosen = draft[g] /\ Chosen # None
  BY ChosenIsDraft DEF PutSpec
<1>2. Chosen' = draft'[g]
  <2>1. \A h \in Goroutine \ {g} : phase[h] = "none"
    BY DEF PutSpec, ControlInv, OnePublicationAtATime, Publishing
  <2>2. phase' = [phase EXCEPT ![g] = "register"] /\ phase'[g] = "register"
    BY DEF PutSpec, ControlInv, StateTypeOK
  <2>3. QED
    BY <2>1, <2>2, ChosenNext DEF ControlInv, StateTypeOK
<1>3. /\ config' = draft[g]
      /\ UNCHANGED <<reports, job, lastSpec, draft, ListsHeld, Decided>>
  BY DEF PutSpec, machine, ListsHeld, Underway, Fire!Executing, Decided
<1>4. QED
  BY <1>1, <1>2, <1>3 DEF Promise!Put

(* A publication that ends leaves nothing chosen and only lists that were   *)
(* held.                                                                    *)
LEMMA PublicationEnds ==
  ASSUME ControlInv, NEW g \in Goroutine, phase[g] # "none",
         phase' = [phase EXCEPT ![g] = "none"],
         Fire!ExecuteOk(g) \/ Fire!ExecuteErr(g),
         UNCHANGED <<candidatesChan, timer, expired>>
  PROVE  Chosen' = None /\ ListsHeld' \subseteq ListsHeld
<1>1. \A h \in Goroutine : phase'[h] = "none"
  BY DEF ControlInv, OnePublicationAtATime, Publishing, StateTypeOK
<1>2. triggers' = triggers /\ \A h \in Goroutine :
          pc'[h] = "execute" => pc[h] = "execute" /\ current'[h] = current[h]
  BY DEF Fire!ExecuteOk, Fire!ExecuteErr, ControlInv, FireProofs!FiringInv, FireProofs!TypeOK
<1>3. ListsHeld' \subseteq ListsHeld
  BY <1>2, Holders, HoldersNext
<1>4. QED
  BY <1>1, <1>3, NothingChosenNext

LEMMA RefinesRegister ==
  ASSUME ControlInv, NEW g \in Goroutine, RegisterJob(g)
  PROVE  Promise!Register
<1>1. Chosen = draft[g] /\ Chosen # None /\ config = draft[g]
  BY ChosenIsDraft DEF RegisterJob, ControlInv, PutBeforeRegister
<1>2. Chosen' = None /\ ListsHeld' \subseteq ListsHeld
  BY PublicationEnds DEF RegisterJob, Forget
<1>3. /\ job' = draft[g] /\ lastSpec' = draft[g]
      /\ UNCHANGED <<reports, config, Decided>>
  BY DEF RegisterJob, Decided
<1>4. QED
  BY <1>1, <1>2, <1>3 DEF Promise!Register

LEMMA RefinesGiveUp ==
  ASSUME ControlInv, NEW g \in Goroutine, PutSpecFails(g) \/ RegisterJobFails(g)
  PROVE  Promise!GiveUp
<1>1. Chosen = draft[g] /\ Chosen # None
  BY ChosenIsDraft DEF PutSpecFails, RegisterJobFails
<1>2. Chosen' = None /\ ListsHeld' \subseteq ListsHeld
  BY PublicationEnds DEF PutSpecFails, RegisterJobFails, Forget
<1>3. UNCHANGED <<reports, Decided, lastSpec>>
  BY DEF PutSpecFails, RegisterJobFails, Decided
<1>4. \/ config' \in {config, draft[g]} /\ UNCHANGED job
      \/ config = draft[g] /\ job' \in {job, draft[g]} /\ UNCHANGED config
  BY DEF PutSpecFails, RegisterJobFails, ControlInv, PutBeforeRegister
<1>5. QED
  BY <1>1, <1>2, <1>3, <1>4 DEF Promise!GiveUp

LEMMA RefinesStartAgain ==
  ASSUME StartAgain, UNCHANGED external
  PROVE  Promise!StartAgain
<1>1. ListsHeld' = {}
  <2> SUFFICES ASSUME NEW L \in ListsHeld' PROVE FALSE
    OBVIOUS
  <2>1. /\ candidatesChan' = <<>> /\ triggers' = <<>> /\ timer' = None
        /\ expired' = [t \in Timer |-> None] /\ pc' = [g \in Goroutine |-> "outside"]
    BY DEF StartAgain
  <2>2. QED
    BY <2>1, HoldersNext
<1>2. Chosen' = None
  <2>1. \A g \in Goroutine : phase'[g] = "none"
    BY DEF StartAgain
  <2>2. QED
    BY <2>1, NothingChosenNext
<1>3. Decided' = FALSE /\ lastSpec' = None /\ UNCHANGED <<reports, config, job>>
  BY DEF StartAgain, external, Decided
<1>4. QED
  BY <1>1, <1>2, <1>3 DEF Promise!StartAgain, Promise!deployed

-----------------------------------------------------------------------------
(* The controller keeps the promise of Deployment: over late timers, queued *)
(* triggers, failed calls and restarts, each of its processes chooses once, *)
(* from one list of reports that Consul had while it lived, and what it     *)
(* puts, registers and records is that choice (replica.go 86-145, 261-292). *)
THEOREM KeepsPromise == Spec => ChoosesOnceFromWhatItSaw
<1>1. ASSUME Init PROVE Promise!Init
  <2>1. ListsHeld = {}
    <3> SUFFICES ASSUME NEW L \in ListsHeld PROVE FALSE
      OBVIOUS
    <3>1. /\ candidatesChan = <<>> /\ triggers = <<>> /\ timer = None
          /\ expired = [t \in Timer |-> None] /\ pc = [g \in Goroutine |-> "outside"]
      BY <1>1 DEF Init, Fire!Init
    <3>2. QED
      BY <3>1, Holders
  <2>2. Chosen = None
    BY <1>1, NothingChosen DEF Init
  <2>3. /\ reports \in SUBSET Promise!Report /\ config = None /\ job = None
        /\ Decided = FALSE /\ lastSpec = None
    BY <1>1 DEF Init, Decided, Snapshot, Report, Promise!Report
  <2>4. QED
    BY <2>1, <2>2, <2>3 DEF Promise!Init
<1>2. ASSUME ChoiceInv, ChoiceInv', [Next]_vars PROVE [Promise!Next]_(Promise!vars)
  <2> USE <1>2 DEF ChoiceInv
  <2>1. CASE \/ \E n \in Node, p \in Position : NodeReports(n, p)
             \/ \E n \in Node : NodeIsLost(n)
    BY <2>1, RefinesReportsChange DEF Promise!Next
  <2>2. CASE \/ Boot \/ WatchCandidateReports \/ SelectCandidates \/ SelectHealth
             \/ \E t \in Timer : TimerExpires(t) \/ TimerFires(t)
             \/ \E g \in Goroutine : \/ Fetch(g) \/ EnterConfiguration(g)
                                     \/ ReenterMonitoring(g) \/ Unhandled(g)
    BY <2>2, RefinesLook DEF Promise!Next
  <2>3. ASSUME NEW g \in Goroutine, EnterMonitoring(g) PROVE Promise!Next
    BY <2>3, RefinesChoose DEF Promise!Next
  <2>4. ASSUME NEW g \in Goroutine, PutSpec(g) PROVE Promise!Next
    BY <2>4, RefinesPut DEF Promise!Next
  <2>5. ASSUME NEW g \in Goroutine, RegisterJob(g) PROVE Promise!Next
    BY <2>5, RefinesRegister DEF Promise!Next
  <2>6. ASSUME NEW g \in Goroutine, PutSpecFails(g) \/ RegisterJobFails(g)
        PROVE  Promise!Next
    BY <2>6, RefinesGiveUp DEF Promise!Next
  <2>7. CASE Crash \/ \E g \in Goroutine : Panic(g)
    BY <2>7, RefinesStartAgain DEF Promise!Next, Crash, Panic
  <2>8. CASE UNCHANGED vars
    BY <2>8
    DEF vars, external, publish, machine, Promise!vars, Promise!deployed, ListsHeld, Underway,
        Fire!Executing, Decided, Chosen, Publishing
  <2>9. QED
    BY <2>1, <2>2, <2>3, <2>4, <2>5, <2>6, <2>7, <2>8 DEF Next, Execute
<1>3. QED
  BY <1>1, <1>2, ChoiceInvariant, PTL DEF Spec, ChoosesOnceFromWhatItSaw, Promise!Spec
=============================================================================
