--------------------------- MODULE ReplicaControl ---------------------------
(***************************************************************************)
(* The replica-set controller (internal/replset/replica.go, ControllerTask *)
(* and what it calls).  One controller process reads the candidate reports *)
(* that the nodes left in Consul, waits on a timer for more of them, and   *)
(* then publishes once: it writes the replica-set specification to Consul  *)
(* and registers with Nomad the job that starts the members.               *)
(*                                                                         *)
(* Triggers reach its state machine from two kinds of goroutines: the      *)
(* select loop of ControllerTask, and one goroutine for each time.AfterFunc *)
(* timer that fires.  They meet in the queued firing mode of the library,  *)
(* which QueuedFiring models.  Nomad restarts a controller that dies;      *)
(* reports, specification and job survive it, everything else is lost.     *)
(***************************************************************************)
EXTENDS Naturals, Sequences, FiniteSets

CONSTANTS
  Node,         \* the nodes, numbered in the order of their names
  Position,     \* last oplog positions (mongo), modification times (kafka)
  Kind,         \* "mongo" or "kafka": which replica set is controlled
  SetSize,      \* members of a deployment: 3 in the code (lines 109, 132)
  Loop,         \* the goroutine of ControllerTask
  Timer,        \* bound of the model: timer goroutines alive at a time
  NoTrigger,    \* see QueuedFiring
  None,         \* no snapshot, no specification, no job
  MaxWaiting,   \* bound of the model: see QueuedFiring; never reached
  MaxBacklog,   \* bound of the model: triggers waiting behind a busy goroutine
  MaxChanges,   \* bound of the model: changes of the candidate reports
  MaxCrashes    \* bound of the model: crashes other than the code's own panics

ASSUME ControlAssumption ==
  /\ Node \subseteq Nat
  /\ Position \subseteq Nat
  /\ IsFiniteSet([node : Node, pos : Position])
  /\ Kind \in {"mongo", "kafka"}
  /\ SetSize \in Nat \ {0}
  /\ MaxChanges \in Nat
  /\ MaxCrashes \in Nat
  /\ Loop \notin Timer
  /\ NoTrigger \notin [kind : {"start", "candidateReport", "initialConfiguration", "context"},
                    arg  : SUBSET [node : Node, pos : Position]]
  /\ \A spec \in [1..0 -> Node] \cup [1..SetSize -> Node] : spec # None
  /\ \A S \in SUBSET [node : Node, pos : Position] : S # None

VARIABLES
  \* Consul and Nomad
  reports,    \* the candidate reports under candidateReportPath
  config,     \* the specification at replSetConfigPath
  job,        \* the members the registered job is parameterised with
  \* the controller process
  candidatesChan,  \* snapshots between the watch goroutine and the loop
  smState,    \* state of the state machine
  timer,      \* rs.timer: the snapshot its function will fire with
  expired,    \* snapshots of timer functions started and not yet in Fire
  phase,      \* where a goroutine is inside publishReplSpec
  draft,      \* the specification it publishes
  lastSpec,   \* rs.lastSpec
  triggers, firing, pc, current, returned,   \* see QueuedFiring
  \* counters and history
  changes, crashes,
  panicked    \* a controller has died of a panic of its own

external == <<reports, config, job>>
machine  == <<triggers, firing, pc, current, returned>>
publish  == <<phase, draft, lastSpec>>
counters == <<changes, crashes, panicked>>
vars == <<external, candidatesChan, smState, timer, expired, publish, machine, counters>>

-----------------------------------------------------------------------------
Goroutine == {Loop} \cup Timer
Report    == [node : Node, pos : Position]
Snapshot  == SUBSET Report

(* Members in the order of the sorted candidates: SetSize of them, or none. *)
Specification == [1..0 -> Node] \cup [1..SetSize -> Node]

Triggers == [kind : {"start", "candidateReport", "initialConfiguration", "context"},
             arg  : Snapshot]

StartTrigger == [kind |-> "start", arg |-> {}]
CandidateReport(S) == [kind |-> "candidateReport", arg |-> S]
InitialConfiguration(S) == [kind |-> "initialConfiguration", arg |-> S]

(* Line 174 calls Fire, which takes no context, with a context in front: it *)
(* is the context that is fired as a trigger, with memberStatus and the     *)
(* health reports as its arguments.                                         *)
MemberStatus == [kind |-> "context", arg |-> {}]

Fire == INSTANCE QueuedFiring
          WITH Trigger <- Triggers, Failing <- Triggers

(* A variant in which a late timer is let in again. *)
PermittedTwice ==
  { <<"init", "start">>,
    <<"configuration", "initialConfiguration">>,
    <<"monitoring", "initialConfiguration">>,
    <<"configuration", "candidateReport">>,
    <<"monitoring", "memberStatus">>,
    <<"monitoring", "candidateReport">> }

(* The states in which each trigger is configured. *)
Permitted ==
  { <<"init", "start">>,
    <<"configuration", "initialConfiguration">>,
    <<"configuration", "candidateReport">>,
    <<"monitoring", "memberStatus">>,
    <<"monitoring", "candidateReport">> }

-----------------------------------------------------------------------------
(* Which candidate goes first: the longer oplog and then the greater name   *)
(* for mongo, the older data directory for kafka.                           *)
LessReversed(a, b) ==
  IF Kind = "mongo"
  THEN \/ a.pos < b.pos
       \/ a.pos = b.pos /\ a.node > b.node
  ELSE a.pos > b.pos

Less(a, b) ==
  IF Kind = "mongo"
  THEN \/ a.pos > b.pos
       \/ a.pos = b.pos /\ a.node > b.node
  ELSE a.pos < b.pos

(* What sortCandidates may leave: an arrangement of the candidates without  *)
(* an inversion.  Reports that Less does not tell apart come in any order.  *)
Sortings(S) ==
  { q \in [1..Cardinality(S) -> S] :
      /\ \A r \in S : \E i \in DOMAIN q : q[i] = r
      /\ \A i, j \in DOMAIN q : i < j => ~Less(q[j], q[i]) }

(* rs.candidates is assigned only if the argument is not a list of          *)
(* candidates (lines 95-98), and it always is one.                          *)
RsCandidates == {}

(* A variant that leaves out the last member of a full deployment. *)
DeployLengthOffByOne(S) ==
  IF Cardinality(S) < SetSize THEN Cardinality(RsCandidates) ELSE SetSize - 1

DeployLength(S) ==
  IF Cardinality(S) < SetSize THEN Cardinality(RsCandidates) ELSE SetSize

MembersOf(q, n) == [i \in 1..n |-> q[i].node]

-----------------------------------------------------------------------------
(* The key of a report is its node: there is one report of each at most. *)
OnePerNode(S) == \A r, s \in S : r.node = s.node => r = s

(* The controller's first start finds the reports of the prestart tasks     *)
(* that have run by then, and no specification.                             *)
Init ==
  /\ reports \in {S \in Snapshot : OnePerNode(S)}
  /\ config = None
  /\ job = None
  /\ candidatesChan = <<>>
  /\ smState = "init"
  /\ timer = None
  /\ expired = [t \in Timer |-> None]
  /\ phase = [g \in Goroutine |-> "none"]
  /\ draft = [g \in Goroutine |-> None]
  /\ lastSpec = None
  /\ Fire!Init
  /\ changes = 0
  /\ crashes = 0
  /\ panicked = FALSE

(* ------------------------- the nodes' reports -------------------------- *)

(* A node's prestart task reports, for the first time or again. *)
NodeReports(n, p) ==
  /\ changes < MaxChanges
  /\ changes' = changes + 1
  /\ reports' = {r \in reports : r.node # n} \cup {[node |-> n, pos |-> p]}
  /\ UNCHANGED <<config, job, candidatesChan, smState, timer, expired, publish,
                 machine, crashes, panicked>>

(* Its session ends with its Nomad client check, and Consul deletes the key. *)
NodeIsLost(n) ==
  /\ changes < MaxChanges
  /\ \E r \in reports : r.node = n
  /\ changes' = changes + 1
  /\ reports' = {r \in reports : r.node # n}
  /\ UNCHANGED <<config, job, candidatesChan, smState, timer, expired, publish,
                 machine, crashes, panicked>>

(* ------------------------- the select loop ----------------------------- *)

Boot ==
  /\ smState = "init"
  /\ triggers = <<>>
  /\ Fire!Enqueue(Loop, StartTrigger)
  /\ UNCHANGED <<external, candidatesChan, smState, timer, expired, publish, counters>>

(* A variant that tells the controller only what it was not told last. *)
WatchChanges ==
  /\ smState = "configuration"
  /\ candidatesChan = <<>>
  /\ timer # reports
  /\ \A i \in DOMAIN triggers : triggers[i].arg # reports
  /\ candidatesChan' = <<reports>>
  /\ UNCHANGED <<external, smState, timer, expired, publish, machine, counters>>

(* The watch goroutine's list returns, because the reports changed or       *)
(* because the long poll ended without a change.  One snapshot waits in the *)
(* channel and one in the goroutine that is blocked on sending it.          *)
WatchCandidateReports ==
  /\ smState # "init"
  /\ Len(candidatesChan) < 2
  /\ candidatesChan' = Append(candidatesChan, reports)
  /\ UNCHANGED <<external, smState, timer, expired, publish, machine, counters>>

(* The loop goroutine only queues its trigger while a timer's goroutine     *)
(* executes, and the queue has no limit.  The model's loop pauses at        *)
(* MaxBacklog until that goroutine is done.                                 *)
RoomForMore == Len(triggers) < MaxBacklog \/ Fire!Active = {}

SelectCandidates ==
  /\ smState # "init"
  /\ RoomForMore
  /\ candidatesChan # <<>>
  /\ candidatesChan' = Tail(candidatesChan)
  /\ Fire!Enqueue(Loop, CandidateReport(Head(candidatesChan)))
  /\ UNCHANGED <<external, smState, timer, expired, publish, counters>>

(* Health reports may come at any time; their content is only logged. *)
SelectHealth ==
  /\ smState # "init"
  /\ RoomForMore
  /\ Fire!Enqueue(Loop, MemberStatus)
  /\ UNCHANGED <<external, candidatesChan, smState, timer, expired, publish, counters>>

(* ---------------------------- the timers ------------------------------- *)

(* The timer expires: its function is started on a goroutine of its own,    *)
(* out of reach of Stop.                                                    *)
TimerExpires(t) ==
  /\ timer # None
  /\ expired[t] = None
  /\ pc[t] = "outside"
  /\ expired' = [expired EXCEPT ![t] = timer]
  /\ timer' = None
  /\ UNCHANGED <<external, candidatesChan, smState, publish, machine, counters>>

TimerFires(t) ==
  /\ expired[t] # None
  /\ expired' = [expired EXCEPT ![t] = None]
  /\ Fire!Enqueue(t, InitialConfiguration(expired[t]))
  /\ UNCHANGED <<external, candidatesChan, smState, timer, publish, counters>>

(* ------------------------ the state machine ---------------------------- *)

Fetch(g) ==
  /\ Fire!FetchNothing(g) \/ Fire!FetchTrigger(g)
  /\ UNCHANGED <<external, candidatesChan, smState, timer, expired, publish, counters>>

(* Goroutine g begins to execute a trigger of this kind. *)
Handles(g, kind) ==
  /\ pc[g] = "execute"
  /\ phase[g] = "none"
  /\ current[g].kind = kind
  /\ <<smState, kind>> \in Permitted

(* A variant that collects the candidates of all lists so far. *)
EnterConfigurationMerging(g) ==
  /\ smState # "monitoring"
  /\ Handles(g, "start") \/ Handles(g, "candidateReport")
  /\ smState' = "configuration"
  /\ timer' = IF current[g].arg = {} THEN None
              ELSE current[g].arg \cup (IF timer = None THEN {} ELSE timer)
  /\ Fire!ExecuteOk(g)
  /\ UNCHANGED <<external, candidatesChan, expired, publish, counters>>

(* start, and a candidate report while configuring: both enter              *)
(* configuration, which stops the timer and, given at least one candidate,  *)
(* starts another with that list.  How long it runs depends on their number *)
(* (1, 5 or 15 seconds); here it may expire at any time.                    *)
EnterConfiguration(g) ==
  /\ smState # "monitoring"
  /\ Handles(g, "start") \/ Handles(g, "candidateReport")
  /\ smState' = "configuration"
  /\ timer' = IF current[g].arg = {} THEN None ELSE current[g].arg
  /\ Fire!ExecuteOk(g)
  /\ UNCHANGED <<external, candidatesChan, expired, publish, counters>>

(* While monitoring, a candidate report is logged and nothing else. *)
ReenterMonitoring(g) ==
  /\ Handles(g, "candidateReport")
  /\ smState = "monitoring"
  /\ Fire!ExecuteOk(g)
  /\ UNCHANGED <<external, candidatesChan, smState, timer, expired, publish, counters>>

(* A trigger not configured for the state: Fire returns an error. *)
Unhandled(g) ==
  /\ pc[g] = "execute"
  /\ phase[g] = "none"
  /\ <<smState, current[g].kind>> \notin Permitted
  /\ Fire!ExecuteErr(g)
  /\ UNCHANGED <<external, candidatesChan, smState, timer, expired, publish, counters>>

(* initialConfiguration: the state is set first, then the entry action      *)
(* sorts the candidates and generates the specification it will publish.    *)
EnterMonitoring(g) ==
  /\ Handles(g, "initialConfiguration")
  /\ Kind = "mongo" => DeployLength(current[g].arg) > 0
  /\ smState' = "monitoring"
  /\ \E q \in Sortings(current[g].arg) :
       draft' = [draft EXCEPT ![g] = MembersOf(q, DeployLength(current[g].arg))]
  /\ phase' = [phase EXCEPT ![g] = "put"]
  /\ UNCHANGED <<external, candidatesChan, timer, expired, lastSpec, machine, counters>>

Forget(g) ==
  /\ phase' = [phase EXCEPT ![g] = "none"]
  /\ draft' = [draft EXCEPT ![g] = None]

(* A variant that goes on to Nomad when the write to Consul has failed. *)
PutSpecAnyhow(g) ==
  /\ phase[g] = "put"
  /\ config' \in {config, draft[g]}
  /\ phase' = [phase EXCEPT ![g] = "register"]
  /\ UNCHANGED <<reports, job, candidatesChan, smState, timer, expired, draft,
                 lastSpec, machine, counters>>

(* publishReplSpec, first half: the specification is put to Consul. *)
PutSpec(g) ==
  /\ phase[g] = "put"
  /\ config' = draft[g]
  /\ phase' = [phase EXCEPT ![g] = "register"]
  /\ UNCHANGED <<reports, job, candidatesChan, smState, timer, expired, draft,
                 lastSpec, machine, counters>>

(* The put returns an error, after it took effect or without. *)
PutSpecFails(g) ==
  /\ phase[g] = "put"
  /\ config' \in {config, draft[g]}
  /\ Forget(g)
  /\ Fire!ExecuteErr(g)
  /\ UNCHANGED <<reports, job, candidatesChan, smState, timer, expired, lastSpec, counters>>

(* Second half: the job file is parsed and the job registered; then the     *)
(* entry action records the specification.                                  *)
RegisterJob(g) ==
  /\ phase[g] = "register"
  /\ job' = draft[g]
  /\ lastSpec' = draft[g]
  /\ Forget(g)
  /\ Fire!ExecuteOk(g)
  /\ UNCHANGED <<reports, config, candidatesChan, smState, timer, expired, counters>>

(* Nomad refuses the job, or its answer is lost. *)
RegisterJobFails(g) ==
  /\ phase[g] = "register"
  /\ job' \in {job, draft[g]}
  /\ Forget(g)
  /\ Fire!ExecuteErr(g)
  /\ UNCHANGED <<reports, config, candidatesChan, smState, timer, expired, lastSpec, counters>>

(* ------------------------ the process ends ----------------------------- *)

(* What the next process starts from: all that was in memory is gone. *)
StartAgain ==
  /\ candidatesChan' = <<>>
  /\ smState' = "init"
  /\ timer' = None
  /\ expired' = [t \in Timer |-> None]
  /\ phase' = [g \in Goroutine |-> "none"]
  /\ draft' = [g \in Goroutine |-> None]
  /\ lastSpec' = None
  /\ triggers' = <<>>
  /\ firing' = FALSE
  /\ pc' = [g \in Goroutine |-> "outside"]
  /\ current' = [g \in Goroutine |-> NoTrigger]
  /\ returned' = "nil"

(* generateReplConfig of mongo reads the first of no candidates and panics; *)
(* a panic on any goroutine ends the process, and Nomad starts it again.    *)
Panic(g) ==
  /\ Handles(g, "initialConfiguration")
  /\ Kind = "mongo"
  /\ DeployLength(current[g].arg) = 0
  /\ StartAgain
  /\ panicked' = TRUE
  /\ UNCHANGED <<external, changes, crashes>>

(* The process or its machine dies, and Nomad starts another controller. *)
Crash ==
  /\ crashes < MaxCrashes
  /\ crashes' = crashes + 1
  /\ StartAgain
  /\ UNCHANGED <<external, changes, panicked>>

-----------------------------------------------------------------------------
Execute(g) ==
  \/ EnterConfiguration(g)
  \/ ReenterMonitoring(g)
  \/ Unhandled(g)
  \/ EnterMonitoring(g)
  \/ PutSpec(g)
  \/ PutSpecFails(g)
  \/ RegisterJob(g)
  \/ RegisterJobFails(g)
  \/ Panic(g)

Next ==
  \/ \E n \in Node, p \in Position : NodeReports(n, p)
  \/ \E n \in Node : NodeIsLost(n)
  \/ Boot
  \/ WatchCandidateReports
  \/ SelectCandidates
  \/ SelectHealth
  \/ \E t \in Timer : TimerExpires(t)
  \/ \E t \in Timer : TimerFires(t)
  \/ \E g \in Goroutine : Fetch(g) \/ Execute(g)
  \/ Crash

(* Goroutines that can go on do, Consul answers a list in the end, and the  *)
(* select serves the candidates in the end.  A running timer may be         *)
(* replaced by the next report, but the watch repeats an unchanged list     *)
(* only every few minutes while the longest timer runs 15 seconds: one that *)
(* is started again and again expires in the end (strong fairness).         *)
(* Reports, health events, crashes and failures need not happen.            *)
Fairness ==
  /\ WF_vars(Boot)
  /\ WF_vars(WatchCandidateReports)
  /\ SF_vars(SelectCandidates)
  /\ \A t \in Timer : SF_vars(TimerExpires(t)) /\ WF_vars(TimerFires(t))
  /\ \A g \in Goroutine : WF_vars(Fetch(g) \/ Execute(g))

Spec == Init /\ [][Next]_vars /\ Fairness

-----------------------------------------------------------------------------
Publishing == {g \in Goroutine : phase[g] # "none"}

StateTypeOK ==
  /\ reports \in Snapshot
  /\ config \in {None} \cup Specification
  /\ job \in {None} \cup Specification
  /\ candidatesChan \in Seq(Snapshot)
  /\ smState \in {"init", "configuration", "monitoring"}
  /\ timer \in {None} \cup Snapshot
  /\ expired \in [Timer -> {None} \cup Snapshot]
  /\ phase \in [Goroutine -> {"none", "put", "register"}]
  /\ draft \in [Goroutine -> {None} \cup Specification]
  /\ lastSpec \in {None} \cup Specification
  /\ changes \in 0..MaxChanges
  /\ crashes \in 0..MaxCrashes
  /\ panicked \in BOOLEAN

TypeOK == StateTypeOK /\ Fire!TypeOK

(* Whatever timers fire late, reports arrive, calls fail and controllers    *)
(* die: once a controller has recorded a specification (line 144), that one *)
(* is in Consul and its members are those of the registered job.            *)
RecordedSpecIsDeployed ==
  lastSpec # None => config = lastSpec /\ job = lastSpec

(* Nomad never runs members that would find no specification in Consul: the *)
(* write comes before the registration, over all crashes between the two    *)
(* (lines 263-292).                                                         *)
JobHasSpec == job # None => config # None

(* Two goroutines are never inside publishReplSpec together, and nobody     *)
(* enters it after a publication was recorded (lines 124-145).              *)
OnePublicationAtATime ==
  /\ \A g, h \in Publishing : g = h
  /\ Publishing # {} => smState = "monitoring" /\ lastSpec = None

(* A controller's recorded publication is final: only a new controller      *)
(* process writes another specification or registers another job.           *)
PublicationIsFinal ==
  [][lastSpec # None /\ lastSpec' # None => UNCHANGED <<config, job, lastSpec>>]_vars

(* Whose data come first: a longer oplog, or an older data directory. *)
Ahead(r, s) == IF Kind = "mongo" THEN r.pos > s.pos ELSE r.pos < s.pos

(* What is being published is drawn from one snapshot, without repetition,  *)
(* and no candidate whose data come before those of a chosen one is left    *)
(* out or put after it: for mongo, the first member, the future primary,    *)
(* has the longest oplog that was reported (lines 131-136).                 *)
PublishesTheBest ==
  \A g \in Publishing :
    LET S == current[g].arg
        chosen(i) == CHOOSE r \in S : r.node = draft[g][i]
    IN /\ \A i \in DOMAIN draft[g] : \E r \in S : r.node = draft[g][i]
       /\ \A i, j \in DOMAIN draft[g] : draft[g][i] = draft[g][j] => i = j
       /\ \A i \in DOMAIN draft[g] : \A r \in S :
            Ahead(r, chosen(i)) => \E j \in 1..(i - 1) : draft[g][j] = r.node

(* The lists of reports that the process has, wherever they are on the way  *)
(* from the watch to the specification.                                     *)
WithList == {"candidateReport", "initialConfiguration"}
Underway == {triggers[i] : i \in DOMAIN triggers} \cup {current[g] : g \in Fire!Executing}

ListsHeld ==
  {candidatesChan[i] : i \in DOMAIN candidatesChan}
    \cup (({timer} \cup {expired[t] : t \in Timer}) \ {None})
    \cup {t.arg : t \in {u \in Underway : u.kind \in WithList}}

Decided == smState = "monitoring"

Chosen == IF Publishing = {} THEN None ELSE draft[CHOOSE g \in Publishing : TRUE]

Promise == INSTANCE Deployment
             WITH seen <- ListsHeld, decided <- Decided, choice <- Chosen,
                  recorded <- lastSpec

(* Whatever the goroutines, the timers and the queue do, together they act  *)
(* as a process that reads the reports and then chooses and publishes once: *)
(* no list is mixed from several, invented or left over from the process    *)
(* before, and a specification that reaches Consul or Nomad is the choice   *)
(* made from one of them (lines 86-145, 261-292).                           *)
ChoosesOnceFromWhatItSaw == Promise!Spec

EnoughReports == Cardinality(reports) >= SetSize

(* A put or a registration has failed: the machine stays in monitoring, of  *)
(* which nothing leads back, and nobody publishes until this process ends.  *)
GaveUp == smState = "monitoring" /\ Publishing = {} /\ lastSpec = None

(* Once enough nodes keep a report, no timer that was replaced, no trigger  *)
(* left behind in the queue and no crash keeps the controller configuring   *)
(* for ever: it comes to have published and recorded a specification, or    *)
(* its one attempt failed and it has given up (lines 86-145, 166-176).      *)
PublishesOrGivesUp ==
  <>[]EnoughReports => <>[](lastSpec # None \/ GaveUp)

-----------------------------------------------------------------------------
(* What the comments say of a short list: "This is worst case" (line 116),  *)
(* "we have members to initiate replicaset" (line 209).  The controller     *)
(* should therefore survive it.                                             *)
ShortListSurvived == ~panicked
=============================================================================
