------------------------- MODULE KafkaMemberProofs -------------------------
(***************************************************************************)
(* Proofs about KafkaMember, for any number of failures and any bound on   *)
(* the queue.                                                              *)
(***************************************************************************)
EXTENDS KafkaMember, SequenceTheorems, TLAPS

FireProofs == INSTANCE QueuedFiringProofs
                WITH Trigger <- Triggers, Failing <- Triggers

-----------------------------------------------------------------------------
(* The types of everything but the queue.  What is being sent was measured. *)
LocalTypeOK ==
  /\ health \in Statuses \cup {"none"}
  /\ status \in {"running", "exited", "panicked", "interrupted"}
  /\ told \in {"unread", "yes", "no"}
  /\ smState \in {"init", "formatting", "startup", "shuttingDown", "failed"}
  /\ entry \in [Goroutine -> {"none", "format", "monitor", "return", "exit"}]
  /\ stop \in {"nil", "open", "closed"}
  /\ monitor \in {"none", "dialing", "sending", "connected", "stopped"}
  /\ measured \in Statuses \cup {"none"}
  /\ monitor = "sending" => measured \in Statuses
  /\ healthChan \in {<<>>} \cup {<<s>> : s \in Statuses}
  /\ reporting \in Statuses \cup {"none"}
  /\ kafka \in {"none", "booting", "serving", "exited"}
  /\ cancelled \in BOOLEAN
  /\ waited \in BOOLEAN
  /\ interrupt \in {"none", "raised", "taken"}
  /\ broken \in BOOLEAN
  /\ failures \in 0..MaxFailures

(* Where a goroutine is inside an entry action, the machine is in the state *)
(* that is entered; failed is only seen there, because its entry ends the   *)
(* process.                                                                 *)
EntryInv ==
  /\ \A g \in Goroutine :
       /\ entry[g] # "none" => pc[g] = "execute"
       /\ entry[g] = "format" => smState = "formatting" /\ triggers = <<>>
       /\ entry[g] = "monitor" => smState = "startup"
       /\ entry[g] = "return" => smState \in {"formatting", "startup"}
       /\ entry[g] = "exit" => smState = "failed"
  /\ smState = "failed" => \E g \in Goroutine : entry[g] = "exit"

(* What is known of Kafka and of the monitor's channel in each state.  A    *)
(* channel that is not there although Kafka was started is about to be made *)
(* by the goroutine that executes, so that nobody can close it.             *)
ServerInv ==
  /\ ~Running => smState = "init"
  /\ told = "unread" => smState = "init"
  /\ Running /\ smState \in {"init", "formatting"} => kafka = "none"
  /\ Running /\ kafka = "none" => ~waited /\ interrupt = "none"
  /\ smState = "shuttingDown" => interrupt = "taken"
  /\ stop = "closed" => smState = "failed"
  /\ Running /\ kafka # "none" /\ stop = "nil" =>
       \E g \in Goroutine : entry[g] = "monitor"
  /\ PanicsOnlyUnstarted

(* The triggers that wait, and the one whose execution has not begun. *)
Elems(q) == {q[i] : i \in 1..Len(q)}
Once(q)  == \A i, j \in 1..Len(q) : q[i] = q[j] => i = j

Begins(g) == pc[g] = "execute" /\ entry[g] = "none"

OnceInv ==
  /\ Once(triggers)
  /\ \A g \in Goroutine : Begins(g) => current[g] \notin Elems(triggers)

(* The states in which a trigger may be under way, and what has happened    *)
(* before: every trigger is fired once in the life of a process.            *)
Due(t) ==
  \/ t = "start" /\ smState = "init" /\ told = "yes"
  \/ t = "startServer" /\ smState = "formatting"
  \/ /\ t = "kafkaExit" /\ smState \in {"startup", "shuttingDown", "failed"}
     /\ waited \/ kafka = "none"
  \/ t = "shutdown" /\ smState \in {"startup", "failed"} /\ interrupt = "taken"

DueInv ==
  /\ \A t \in Elems(triggers) : Due(t)
  /\ \A g \in Goroutine : Begins(g) => Due(current[g])

KafkaInv ==
  /\ LocalTypeOK
  /\ FireProofs!FiringInv
  /\ EntryInv
  /\ ServerInv
  /\ OnceInv
  /\ DueInv

-----------------------------------------------------------------------------
(* What Append and Tail do to the triggers that wait. *)
LEMMA AppendElems ==
  ASSUME NEW q \in Seq(Triggers), NEW t \in Triggers
  PROVE  /\ Elems(Append(q, t)) = Elems(q) \cup {t}
         /\ Once(q) /\ t \notin Elems(q) => Once(Append(q, t))
<1> DEFINE r == Append(q, t)
<1>1. Len(q) \in Nat /\ Len(r) = Len(q) + 1 /\ r[Len(q) + 1] = t
  OBVIOUS
<1>2. \A i \in 1..Len(q) : r[i] = q[i]
  OBVIOUS
<1>3. Elems(r) = Elems(q) \cup {t}
  <2> HIDE DEF r
  <2>1. 1..Len(r) = 1..Len(q) \cup {Len(q) + 1}
    BY <1>1
  <2>2. QED
    BY <1>1, <1>2, <2>1 DEF Elems
<1>4. ASSUME Once(q), t \notin Elems(q) PROVE Once(r)
  <2> SUFFICES ASSUME NEW i \in 1..Len(r), NEW j \in 1..Len(r), r[i] = r[j]
               PROVE  i = j
    BY DEF Once
  <2> HIDE DEF r
  <2>1. CASE i \in 1..Len(q) /\ j \in 1..Len(q)
    BY <1>2, <1>4, <2>1 DEF Once
  <2>2. CASE i = Len(q) + 1 /\ j = Len(q) + 1
    BY <2>2
  <2>3. CASE i = Len(q) + 1 /\ j \in 1..Len(q)
    BY <1>1, <1>2, <1>4, <2>3 DEF Elems
  <2>4. CASE i \in 1..Len(q) /\ j = Len(q) + 1
    BY <1>1, <1>2, <1>4, <2>4 DEF Elems
  <2>5. QED
    BY <1>1, <2>1, <2>2, <2>3, <2>4
<1>5. QED
  BY <1>3, <1>4

LEMMA TailElems ==
  ASSUME NEW q \in Seq(Triggers), q # <<>>
  PROVE  /\ Elems(q) = Elems(Tail(q)) \cup {Head(q)}
         /\ Once(q) => Once(Tail(q)) /\ Head(q) \notin Elems(Tail(q))
<1> DEFINE r == Tail(q)
<1>1. Len(q) \in Nat /\ Len(q) >= 1 /\ Len(r) = Len(q) - 1 /\ Head(q) = q[1]
  OBVIOUS
<1>2. \A i \in 1..Len(r) : r[i] = q[i + 1]
  OBVIOUS
<1> HIDE DEF r
<1>3. \A i \in 1..Len(r) : i + 1 \in 1..Len(q)
  BY <1>1
<1>4. \A j \in 1..Len(q) : j = 1 \/ (j - 1 \in 1..Len(r) /\ r[j - 1] = q[j])
  BY <1>1, <1>2
<1>5. Elems(q) = Elems(r) \cup {Head(q)}
  <2>1. ASSUME NEW x \in Elems(q) PROVE x \in Elems(r) \cup {Head(q)}
    BY <1>1, <1>4, <2>1 DEF Elems
  <2>2. ASSUME NEW x \in Elems(r) PROVE x \in Elems(q)
    BY <1>2, <1>3, <2>2 DEF Elems
  <2>3. Head(q) \in Elems(q)
    BY <1>1 DEF Elems
  <2>4. QED
    BY <2>1, <2>2, <2>3
<1>6. ASSUME Once(q) PROVE Once(r)
  <2> SUFFICES ASSUME NEW i \in 1..Len(r), NEW j \in 1..Len(r), r[i] = r[j]
               PROVE  i = j
    BY DEF Once
  <2>1. i + 1 = j + 1
    BY <1>2, <1>3, <1>6 DEF Once
  <2>2. QED
    BY <1>1, <2>1
<1>7. ASSUME Once(q) PROVE Head(q) \notin Elems(r)
  <2> SUFFICES ASSUME NEW i \in 1..Len(r), Head(q) = r[i] PROVE FALSE
    BY DEF Elems
  <2>1. i + 1 = 1
    BY <1>1, <1>2, <1>3, <1>7 DEF Once
  <2>2. QED
    BY <1>1, <2>1
<1>8. QED
  BY <1>5, <1>6, <1>7 DEF r

LEMMA NothingElse ==
  ASSUME NEW q \in Seq(Triggers), Elems(q) = {}
  PROVE  q = <<>>
<1>1. Len(q) \in Nat /\ ~(1 \in 1..Len(q))
  BY DEF Elems
<1>2. Len(q) = 0
  BY <1>1
<1>3. QED
  BY <1>2, EmptySeq

LEMMA NothingWaits == Elems(<<>>) = {} /\ Once(<<>>)
  BY DEF Elems, Once

-----------------------------------------------------------------------------
(* Every action is, for the firing mode, a step of one goroutine, no step,  *)
(* or the end of the process.                                               *)
LEMMA FireAssumption == NoTrigger \notin Triggers
  BY MemberAssumption DEF Triggers

LEMMA MachineStart ==
  ASSUME Fire!Init PROVE FireProofs!FiringInv
<1>1. FireProofs!Init
  BY DEF Fire!Init, FireProofs!Init
<1>2. QED
  BY <1>1, FireProofs!InitFiringInv, FireAssumption

LEMMA MachineEnds ==
  ASSUME NEW how, Ends(how) PROVE FireProofs!FiringInv'
<1>1. /\ triggers' = <<>> /\ firing' = FALSE /\ returned' = "nil"
      /\ pc' = [g \in Goroutine |-> "outside"]
      /\ current' = [g \in Goroutine |-> NoTrigger]
  BY DEF Ends
<1>2. FireProofs!TypeOK'
  <2>1. <<>> \in Seq(Triggers)
    OBVIOUS
  <2>2. QED
    BY <1>1, <2>1 DEF FireProofs!TypeOK
<1>3. FireProofs!Executing' = {}
  BY <1>1 DEF FireProofs!Executing
<1>4. FireProofs!OneAtATime'
  BY <1>1, <1>3 DEF FireProofs!OneAtATime
<1>5. FireProofs!NoTriggerLeftBehind'
  BY <1>1 DEF FireProofs!NoTriggerLeftBehind
<1>6. QED
  BY <1>2, <1>4, <1>5 DEF FireProofs!FiringInv

LEMMA MachineStep ==
  ASSUME FireProofs!FiringInv, NEW g \in Goroutine,
         \/ \E t \in Triggers : Fire!Enqueue(g, t)
         \/ \E t \in Triggers : Fire!EnqueueNested(g, t)
         \/ Fire!FetchNothing(g)
         \/ Fire!FetchTrigger(g)
         \/ Fire!ExecuteOk(g)
         \/ Fire!ExecuteErr(g)
  PROVE  FireProofs!FiringInv'
<1>1. current[g] \in Triggers \/ ~ Fire!ExecuteErr(g)
  BY DEF FireProofs!FiringInv, FireProofs!TypeOK, FireProofs!OneAtATime,
         FireProofs!Executing, Fire!ExecuteErr
<1>2. FireProofs!Step(g)
  BY <1>1 DEF FireProofs!Step, Fire!Enqueue, FireProofs!Enqueue,
     Fire!EnqueueNested, FireProofs!EnqueueNested,
     Fire!FetchNothing, FireProofs!FetchNothing, Fire!FetchTrigger, FireProofs!FetchTrigger,
     Fire!ExecuteOk, FireProofs!ExecuteOk, Fire!ExecuteErr, FireProofs!ExecuteErr
<1>3. QED
  BY <1>2, FireProofs!StepFiringInv, FireAssumption

LEMMA MachineStutter ==
  ASSUME FireProofs!FiringInv, UNCHANGED machine
  PROVE  FireProofs!FiringInv'
<1>1. UNCHANGED FireProofs!firingVars
  BY DEF machine, FireProofs!firingVars
<1>2. QED
  BY <1>1, FireProofs!StutterFiringInv, FireAssumption

(* What the firing mode's invariant says here. *)
LEMMA OneExecutes ==
  ASSUME FireProofs!FiringInv
  PROVE  /\ triggers \in Seq(Triggers)
         /\ pc \in [Goroutine -> {"outside", "fetch", "execute"}]
         /\ current \in [Goroutine -> Triggers \cup {NoTrigger}]
         /\ \A g, h \in Goroutine : pc[g] = "execute" /\ pc[h] = "execute" => g = h
         /\ firing <=> \E g \in Goroutine : pc[g] = "execute"
  BY DEF FireProofs!FiringInv, FireProofs!TypeOK, FireProofs!OneAtATime, FireProofs!Executing

LEMMA MachineInv ==
  ASSUME FireProofs!FiringInv, [Next]_vars
  PROVE  FireProofs!FiringInv'
<1> USE DEF Triggers
<1>1. CASE ReadSpec
  BY <1>1, MachineStep, MachineStutter DEF ReadSpec, Goroutine
<1>2. CASE KafkaExitFires
  BY <1>2, MachineStep DEF KafkaExitFires, Goroutine
<1>3. CASE InterruptFires
  BY <1>3, MachineStep DEF InterruptFires, Goroutine
<1>4. ASSUME NEW g \in Goroutine, Fetch(g) PROVE FireProofs!FiringInv'
  BY <1>4, MachineStep DEF Fetch
<1>5. ASSUME NEW g \in Goroutine, Executes(g) PROVE FireProofs!FiringInv'
  <2>1. CASE FormatStorage(g) \/ StartFails(g)
    BY <2>1, MachineStep DEF FormatStorage, StartFails
  <2>2. CASE FormatFails(g) \/ Return(g) \/ ShutDown(g)
    BY <2>2, MachineStep DEF FormatFails, Return, ShutDown
  <2>3. CASE CreateConfigPanics(g) \/ StopMonitorPanics(g) \/ EnterFailed(g)
    BY <2>3, MachineEnds DEF CreateConfigPanics, StopMonitorPanics, EnterFailed
  <2>4. CASE EnterFormatting(g) \/ StartKafkaProcess(g) \/ StartMonitor(g) \/ StopMonitor(g)
    BY <2>4, MachineStutter DEF EnterFormatting, StartKafkaProcess, StartMonitor, StopMonitor
  <2>5. QED
    BY <1>5, <2>1, <2>2, <2>3, <2>4 DEF Executes
<1>6. CASE Restart \/ Monitors \/ TakeHealth \/ UpdateHealth \/ KafkaServes \/ KafkaExits
             \/ ConnectionBreaks
  <2>1. UNCHANGED machine
    BY <1>6 DEF Restart, Monitors, DialSucceeds, DialFails, Tick, Send, MonitorStops,
                TakeHealth, UpdateHealth, KafkaServes, KafkaExits, ConnectionBreaks
  <2>2. QED
    BY <2>1, MachineStutter
<1>7. CASE Interrupt
  BY <1>7, MachineEnds, MachineStutter DEF Interrupt
<1>8. CASE UNCHANGED vars
  BY <1>8, MachineStutter DEF vars
<1>9. QED
  BY <1>1, <1>2, <1>3, <1>4, <1>5, <1>6, <1>7, <1>8 DEF Next

-----------------------------------------------------------------------------
(* The end of a process leaves nothing that could be wrong, if it is not a  *)
(* panic over a Kafka that runs.                                            *)
LEMMA EndsInv ==
  ASSUME LocalTypeOK, NEW how \in {"exited", "panicked", "interrupted"}, Ends(how),
         failures' \in 0..MaxFailures, how = "panicked" => kafka = "none"
  PROVE  LocalTypeOK' /\ EntryInv' /\ ServerInv' /\ OnceInv' /\ DueInv'
<1>1. /\ status' = how /\ told' = "unread" /\ smState' = "init" /\ triggers' = <<>>
      /\ entry' = [g \in Goroutine |-> "none"] /\ pc' = [g \in Goroutine |-> "outside"]
      /\ stop' = "nil" /\ monitor' = "none" /\ measured' = "none"
      /\ healthChan' = <<>> /\ reporting' = "none" /\ health' = health
      /\ kafka' = kafka /\ cancelled' = cancelled /\ waited' = waited
      /\ interrupt' = interrupt /\ broken' = broken
  BY DEF Ends, server
<1>2. LocalTypeOK'
  BY <1>1 DEF LocalTypeOK
<1>3. EntryInv'
  BY <1>1 DEF EntryInv
<1>4. ServerInv'
  BY <1>1 DEF ServerInv, Running, PanicsOnlyUnstarted
<1>5. OnceInv' /\ DueInv'
  BY <1>1, NothingWaits DEF OnceInv, DueInv, Begins
<1>6. QED
  BY <1>2, <1>3, <1>4, <1>5

(* Which ends are panics: before Kafka was started, or without a channel to *)
(* close, which is then still to be made.                                   *)
LEMMA EndsStep ==
  ASSUME KafkaInv,
         \/ \E g \in Goroutine : \/ CreateConfigPanics(g)
                                 \/ StopMonitorPanics(g)
                                 \/ EnterFailed(g)
         \/ kafka = "none" /\ Interrupt
  PROVE  LocalTypeOK' /\ EntryInv' /\ ServerInv' /\ OnceInv' /\ DueInv'
<1>1. LocalTypeOK /\ failures \in 0..MaxFailures
  BY DEF KafkaInv, LocalTypeOK
<1>2. ASSUME NEW g \in Goroutine, CreateConfigPanics(g)
      PROVE  Ends("panicked") /\ failures' \in 0..MaxFailures /\ kafka = "none"
  <2>1. failures' \in 0..MaxFailures
    BY <1>1, <1>2, MemberAssumption DEF CreateConfigPanics, Fails
  <2>2. kafka = "none"
    BY <1>2 DEF CreateConfigPanics, InEntry, KafkaInv, EntryInv, ServerInv
  <2>3. QED
    BY <1>2, <2>1, <2>2 DEF CreateConfigPanics
<1>3. ASSUME NEW g \in Goroutine, StopMonitorPanics(g)
      PROVE  Ends("panicked") /\ failures' = failures /\ kafka = "none"
  <2>1. Running /\ pc[g] = "execute" /\ entry[g] = "none" /\ stop # "open"
    BY <1>3 DEF StopMonitorPanics
  <2>2. smState # "failed"
    BY <1>3 DEF StopMonitorPanics, Leads, Transitions, Nested
  <2>3. stop = "nil"
    BY <2>1, <2>2, <1>1 DEF KafkaInv, ServerInv, LocalTypeOK
  <2>4. ASSUME NEW h \in Goroutine, entry[h] = "monitor" PROVE FALSE
    BY <2>1, <2>4, OneExecutes DEF KafkaInv, EntryInv
  <2>5. kafka = "none"
    BY <2>1, <2>3, <2>4 DEF KafkaInv, ServerInv
  <2>6. QED
    BY <1>3, <2>5 DEF StopMonitorPanics
<1>4. ASSUME NEW g \in Goroutine, EnterFailed(g)
      PROVE  Ends("exited") /\ failures' = failures
  BY <1>4 DEF EnterFailed
<1>5. ASSUME kafka = "none", Interrupt
      PROVE  Ends("interrupted") /\ failures' = failures
  BY <1>5 DEF Interrupt
<1>6. QED
  BY <1>1, <1>2, <1>3, <1>4, <1>5, EndsInv

-----------------------------------------------------------------------------
(* The types. *)
LEMMA LocalTypeStep ==
  ASSUME KafkaInv, [Next]_vars
  PROVE  LocalTypeOK'
<1> USE DEF LocalTypeOK, Fails
<1>0. LocalTypeOK /\ MaxFailures \in Nat
  BY MemberAssumption DEF KafkaInv
<1>1. CASE Restart
  <2>1. cancelled' \in BOOLEAN /\ waited' \in BOOLEAN /\ broken' \in BOOLEAN
    BY <1>1, Zenon DEF Restart
  <2>2. /\ status' = "running" /\ kafka' = "none" /\ interrupt' = "none"
        /\ UNCHANGED <<health, told, smState, entry, stop, monitor, measured, healthChan,
                       reporting, failures>>
    BY <1>1 DEF Restart, monitors
  <2>3. QED
    BY <1>0, <2>1, <2>2
<1>2. CASE ReadSpec
  BY <1>0, <1>2 DEF ReadSpec, monitors, server
<1>3. ASSUME NEW g \in Goroutine, Fetch(g) PROVE LocalTypeOK'
  BY <1>0, <1>3 DEF Fetch, monitors, server
<1>4. ASSUME NEW g \in Goroutine, Executes(g) PROVE LocalTypeOK'
  <2> USE DEF Takes, InEntry, Goes, monitors, server
  <2>1. CASE EnterFormatting(g)
    BY <1>0, <2>1 DEF EnterFormatting
  <2>2. CASE FormatStorage(g)
    BY <1>0, <2>2 DEF FormatStorage
  <2>3. CASE FormatFails(g)
    BY <1>0, <2>3 DEF FormatFails
  <2>4. CASE StartKafkaProcess(g)
    BY <1>0, <2>4 DEF StartKafkaProcess
  <2>5. CASE StartFails(g)
    BY <1>0, <2>5 DEF StartFails
  <2>6. CASE StartMonitor(g)
    BY <1>0, <2>6 DEF StartMonitor
  <2>7. CASE Return(g)
    BY <1>0, <2>7 DEF Return
  <2>8. CASE ShutDown(g)
    BY <1>0, <2>8 DEF ShutDown
  <2>9. CASE StopMonitor(g)
    BY <1>0, <2>9 DEF StopMonitor
  <2>10. CASE CreateConfigPanics(g) \/ StopMonitorPanics(g) \/ EnterFailed(g)
    BY <2>10, EndsStep
  <2>11. QED
    BY <1>4, <2>1, <2>2, <2>3, <2>4, <2>5, <2>6, <2>7, <2>8, <2>9, <2>10 DEF Executes
<1>5. CASE KafkaExitFires \/ InterruptFires
  BY <1>0, <1>5 DEF KafkaExitFires, InterruptFires, monitors
<1>6. CASE Monitors
  <2> USE DEF server, Measures, Statuses
  <2>1. CASE DialSucceeds
    <3>1. broken' \in BOOLEAN
      BY <2>1, Zenon DEF DialSucceeds
    <3>2. /\ monitor' = "connected"
          /\ UNCHANGED <<health, status, told, smState, entry, stop, measured, healthChan,
                         reporting, kafka, cancelled, waited, interrupt, failures>>
      BY <2>1 DEF DialSucceeds
    <3>3. QED
      BY <1>0, <3>1, <3>2
  <2>2. CASE DialFails
    BY <1>0, <2>2 DEF DialFails
  <2>3. CASE Tick
    BY <1>0, <2>3 DEF Tick
  <2>4. CASE Send
    <3>1. measured \in Statuses
      BY <1>0, <2>4 DEF Send
    <3>2. QED
      BY <1>0, <2>4, <3>1 DEF Send
  <2>5. CASE MonitorStops
    BY <1>0, <2>5 DEF MonitorStops
  <2>6. QED
    BY <1>6, <2>1, <2>2, <2>3, <2>4, <2>5 DEF Monitors
<1>7. CASE TakeHealth
  <2>1. PICK s \in Statuses : healthChan = <<s>>
    BY <1>0, <1>7 DEF TakeHealth
  <2>2. Head(healthChan) = s
    BY <2>1
  <2>3. QED
    BY <1>0, <1>7, <2>2 DEF TakeHealth, server
<1>8. CASE UpdateHealth
  BY <1>0, <1>8 DEF UpdateHealth, server
<1>9. CASE KafkaServes \/ KafkaExits
  BY <1>0, <1>9 DEF KafkaServes, KafkaExits, monitors
<1>10. CASE ConnectionBreaks
  <2>1. broken' \in BOOLEAN
    BY <1>10, Zenon DEF ConnectionBreaks
  <2>2. /\ failures' \in 0..MaxFailures
        /\ UNCHANGED <<health, status, told, smState, entry, stop, monitor, measured,
                       healthChan, reporting, kafka, cancelled, waited, interrupt>>
    BY <1>0, <1>10 DEF ConnectionBreaks, monitors
  <2>3. QED
    BY <1>0, <2>1, <2>2
<1>11. CASE Interrupt
  <2>1. CASE kafka = "none"
    BY <1>11, <2>1, EndsStep
  <2>2. CASE kafka # "none"
    BY <1>0, <1>11, <2>2 DEF Interrupt, monitors
  <2>3. QED
    BY <2>1, <2>2
<1>12. CASE UNCHANGED vars
  BY <1>0, <1>12 DEF vars, monitors, server
<1>13. QED
  BY <1>1, <1>2, <1>3, <1>4, <1>5, <1>6, <1>7, <1>8, <1>9, <1>10, <1>11, <1>12
  DEF Next

-----------------------------------------------------------------------------
(* Steps that neither the machine nor its triggers notice. *)
Quiet == UNCHANGED <<status, told, smState, entry, machine, stop, waited, interrupt>>

LEMMA QuietSteps ==
  ASSUME Monitors \/ TakeHealth \/ UpdateHealth \/ KafkaServes \/ KafkaExits
         \/ ConnectionBreaks \/ UNCHANGED vars
  PROVE  Quiet /\ (kafka' = "none" <=> kafka = "none")
<1> USE DEF Quiet, monitors, server
<1>1. CASE Monitors
  BY <1>1 DEF Monitors, DialSucceeds, DialFails, Tick, Send, MonitorStops
<1>2. CASE TakeHealth \/ UpdateHealth
  BY <1>2 DEF TakeHealth, UpdateHealth
<1>3. CASE KafkaServes \/ KafkaExits \/ ConnectionBreaks
  BY <1>3 DEF KafkaServes, KafkaExits, ConnectionBreaks
<1>4. CASE UNCHANGED vars
  BY <1>4 DEF vars
<1>5. QED
  BY <1>1, <1>2, <1>3, <1>4

LEMMA QuietInv ==
  ASSUME EntryInv, ServerInv, OnceInv, DueInv, Quiet, kafka' = "none" <=> kafka = "none"
  PROVE  EntryInv' /\ ServerInv' /\ OnceInv' /\ DueInv'
<1> USE DEF Quiet, machine
<1>1. EntryInv'
  BY DEF EntryInv
<1>2. ServerInv'
  BY DEF ServerInv, Running, PanicsOnlyUnstarted
<1>3. OnceInv'
  BY DEF OnceInv, Begins
<1>4. DueInv'
  BY DEF DueInv, Due, Begins
<1>5. QED
  BY <1>1, <1>2, <1>3, <1>4

-----------------------------------------------------------------------------
(* The steps that are left when those that are quiet and those that end the *)
(* process are taken away.                                                  *)
Raised == Interrupt /\ kafka # "none"

Inside(g) ==
  \/ EnterFormatting(g)
  \/ FormatStorage(g)
  \/ FormatFails(g)
  \/ StartKafkaProcess(g)
  \/ StartFails(g)
  \/ StartMonitor(g)
  \/ Return(g)
  \/ ShutDown(g)
  \/ StopMonitor(g)

Loud ==
  \/ Restart
  \/ ReadSpec
  \/ KafkaExitFires
  \/ InterruptFires
  \/ Raised
  \/ \E g \in Goroutine : Fetch(g) \/ Inside(g)

(* Where the goroutines are inside entry actions. *)
LEMMA EntryStep ==
  ASSUME KafkaInv, Loud
  PROVE  EntryInv'
<1> USE DEF EntryInv
<1>0. /\ EntryInv
      /\ entry \in [Goroutine -> {"none", "format", "monitor", "return", "exit"}]
      /\ pc \in [Goroutine -> {"outside", "fetch", "execute"}]
      /\ \A g, h \in Goroutine : pc[g] = "execute" /\ pc[h] = "execute" => g = h
      /\ firing <=> \E g \in Goroutine : pc[g] = "execute"
  BY OneExecutes DEF KafkaInv, LocalTypeOK
<1>1. CASE Restart \/ Raised
  BY <1>0, <1>1 DEF Restart, Raised, Interrupt, machine
<1>2. CASE ReadSpec
  <2>1. smState = "init"
    BY <1>2 DEF ReadSpec, KafkaInv, ServerInv
  <2>2. QED
    BY <1>0, <1>2, <2>1 DEF ReadSpec, Fire!Enqueue, machine
<1>3. CASE KafkaExitFires \/ InterruptFires
  <2>1. smState # "formatting"
    BY <1>3 DEF KafkaExitFires, InterruptFires, KafkaInv, ServerInv
  <2>2. QED
    BY <1>0, <1>3, <2>1 DEF KafkaExitFires, InterruptFires, Fire!Enqueue
<1>4. ASSUME NEW g \in Goroutine, Fetch(g) PROVE EntryInv'
  BY <1>0, <1>4 DEF Fetch, Fire!FetchNothing, Fire!FetchTrigger
<1>5. ASSUME NEW g \in Goroutine, Inside(g) PROVE EntryInv'
  <2> USE DEF Takes, InEntry, Goes
  <2>1. CASE EnterFormatting(g)
    <3>1. smState = "init" /\ current[g] = "start"
      BY <2>1 DEF EnterFormatting, Leads, Transitions
    <3>2. \A t \in Elems(triggers) : t = "start"
      BY <3>1 DEF KafkaInv, DueInv, Due
    <3>3. "start" \notin Elems(triggers)
      BY <2>1, <3>1 DEF EnterFormatting, KafkaInv, OnceInv, Begins
    <3>4. triggers = <<>>
      BY <3>2, <3>3, OneExecutes, NothingElse DEF KafkaInv
    <3>5. QED
      BY <1>0, <2>1, <3>1, <3>4 DEF EnterFormatting, machine
  <2>2. CASE FormatStorage(g)
    BY <1>0, <2>2 DEF FormatStorage, Fire!EnqueueNested
  <2>3. CASE FormatFails(g)
    BY <1>0, <2>3 DEF FormatFails, Fire!ExecuteErr
  <2>4. CASE StartKafkaProcess(g)
    BY <1>0, <2>4 DEF StartKafkaProcess, machine
  <2>5. CASE StartFails(g)
    BY <1>0, <2>5 DEF StartFails, Fire!EnqueueNested
  <2>6. CASE StartMonitor(g)
    BY <1>0, <2>6 DEF StartMonitor, machine
  <2>7. CASE Return(g)
    BY <1>0, <2>7 DEF Return, Fire!ExecuteOk
  <2>8. CASE ShutDown(g)
    BY <1>0, <2>8 DEF ShutDown, Fire!ExecuteOk
  <2>9. CASE StopMonitor(g)
    BY <1>0, <2>9 DEF StopMonitor, machine
  <2>10. QED
    BY <1>5, <2>1, <2>2, <2>3, <2>4, <2>5, <2>6, <2>7, <2>8, <2>9 DEF Inside
<1>6. QED
  BY <1>1, <1>2, <1>3, <1>4, <1>5 DEF Loud

(* Kafka and the monitor's channel in each state. *)
LEMMA ServerStep ==
  ASSUME KafkaInv, Loud
  PROVE  ServerInv'
<1> USE DEF ServerInv, Running, PanicsOnlyUnstarted
<1>0. /\ ServerInv /\ EntryInv
      /\ entry \in [Goroutine -> {"none", "format", "monitor", "return", "exit"}]
      /\ \A g, h \in Goroutine : pc[g] = "execute" /\ pc[h] = "execute" => g = h
  BY OneExecutes DEF KafkaInv, LocalTypeOK
<1>1. CASE Restart
  <2>1. ~waited'
    BY <1>1, Zenon DEF Restart
  <2>2. /\ status' = "running" /\ kafka' = "none" /\ interrupt' = "none"
        /\ smState = "init" /\ UNCHANGED <<told, smState, entry, stop>>
    BY <1>0, <1>1 DEF Restart, monitors
  <2>3. QED
    BY <1>0, <2>1, <2>2
<1>2. CASE Raised
  BY <1>0, <1>2 DEF Raised, Interrupt, monitors
<1>3. CASE ReadSpec
  BY <1>0, <1>3 DEF ReadSpec, monitors, server
<1>4. CASE KafkaExitFires
  BY <1>0, <1>4 DEF KafkaExitFires, monitors
<1>5. CASE InterruptFires
  BY <1>0, <1>5 DEF InterruptFires, monitors
<1>6. ASSUME NEW g \in Goroutine, Fetch(g) PROVE ServerInv'
  BY <1>0, <1>6 DEF Fetch, monitors, server
<1>7. ASSUME NEW g \in Goroutine, Inside(g) PROVE ServerInv'
  <2> USE DEF Takes, InEntry, Goes, monitors, server
  <2>1. CASE EnterFormatting(g)
    <3>1. smState = "init" /\ current[g] = "start" /\ Begins(g)
      BY <2>1 DEF EnterFormatting, Leads, Transitions, Begins
    <3>2. told = "yes"
      BY <3>1 DEF KafkaInv, DueInv, Due
    <3>3. QED
      BY <1>0, <2>1, <3>1, <3>2 DEF EnterFormatting
  <2>2. CASE FormatStorage(g)
    BY <1>0, <2>2 DEF FormatStorage, EntryInv
  <2>3. CASE FormatFails(g)
    BY <1>0, <2>3 DEF FormatFails, EntryInv
  <2>4. CASE StartKafkaProcess(g)
    <3>1. smState = "formatting"
      BY <2>4 DEF StartKafkaProcess, Leads, Transitions
    <3>2. QED
      BY <1>0, <2>4, <3>1 DEF StartKafkaProcess
  <2>5. CASE StartFails(g)
    <3>1. smState = "formatting"
      BY <2>5 DEF StartFails, Leads, Transitions
    <3>2. QED
      BY <1>0, <2>5, <3>1 DEF StartFails
  <2>6. CASE StartMonitor(g)
    BY <1>0, <2>6 DEF StartMonitor
  <2>7. CASE Return(g)
    BY <1>0, <2>7 DEF Return
  <2>8. CASE ShutDown(g)
    <3>1. smState \in {"startup", "running"} /\ current[g] = "shutdown" /\ Begins(g)
      BY <2>8 DEF ShutDown, Leads, Transitions, Begins
    <3>2. interrupt = "taken"
      BY <3>1 DEF KafkaInv, DueInv, Due
    <3>3. QED
      BY <1>0, <2>8, <3>1, <3>2 DEF ShutDown
  <2>9. CASE StopMonitor(g)
    <3>1. smState \in {"startup", "shuttingDown"}
      BY <2>9 DEF StopMonitor, Leads, Transitions, Nested, KafkaInv, LocalTypeOK
    <3>2. QED
      BY <1>0, <2>9, <3>1 DEF StopMonitor
  <2>10. QED
    BY <1>7, <2>1, <2>2, <2>3, <2>4, <2>5, <2>6, <2>7, <2>8, <2>9 DEF Inside
<1>8. QED
  BY <1>1, <1>2, <1>3, <1>4, <1>5, <1>6, <1>7 DEF Loud

(* Which triggers are under way, each of them once. *)
LEMMA LineStep ==
  ASSUME KafkaInv, Loud
  PROVE  OnceInv' /\ DueInv'
<1> USE DEF OnceInv, DueInv, Begins
<1>0. /\ OnceInv /\ DueInv /\ EntryInv /\ ServerInv
      /\ entry \in [Goroutine -> {"none", "format", "monitor", "return", "exit"}]
      /\ triggers \in Seq(Triggers)
      /\ pc \in [Goroutine -> {"outside", "fetch", "execute"}]
      /\ current \in [Goroutine -> Triggers \cup {NoTrigger}]
      /\ \A g, h \in Goroutine : pc[g] = "execute" /\ pc[h] = "execute" => g = h
      /\ firing <=> \E g \in Goroutine : pc[g] = "execute"
  BY OneExecutes DEF KafkaInv, LocalTypeOK
<1>1. CASE Restart
  <2>1. smState = "init" /\ UNCHANGED <<told, smState, entry, triggers, pc, current>>
    BY <1>0, <1>1 DEF Restart, machine, ServerInv
  <2>2. \A t : Due(t) => Due(t)'
    BY <2>1 DEF Due
  <2>3. QED
    BY <1>0, <2>1, <2>2
<1>2. CASE Raised
  <2>1. /\ interrupt = "none"
        /\ UNCHANGED <<told, smState, kafka, waited, entry, triggers, pc, current>>
    BY <1>2 DEF Raised, Interrupt, machine
  <2>2. \A t : Due(t) => Due(t)'
    BY <2>1 DEF Due
  <2>3. QED
    BY <1>0, <2>1, <2>2
<1>3. CASE ReadSpec
  <2>1. told = "unread" /\ smState = "init"
    BY <1>0, <1>3 DEF ReadSpec, ServerInv
  <2>2. Elems(triggers) = {} /\ \A g \in Goroutine : ~Begins(g)
    BY <1>0, <2>1 DEF Due
  <2>3. CASE told' = "yes" /\ Fire!Enqueue(Loop, "start")
    <3>1. Elems(triggers') = {"start"} /\ Once(triggers')
      BY <1>0, <2>2, <2>3, AppendElems DEF Fire!Enqueue, Triggers
    <3>2. Due("start")'
      BY <1>3, <2>1, <2>3 DEF ReadSpec, Due
    <3>3. \A g \in Goroutine : ~Begins(g)'
      BY <1>0, <1>3, <2>2, <2>3 DEF ReadSpec, Fire!Enqueue
    <3>4. QED
      BY <3>1, <3>2, <3>3
  <2>4. CASE UNCHANGED machine
    BY <1>0, <1>3, <2>2, <2>4 DEF ReadSpec, machine
  <2>5. QED
    BY <1>3, <2>3, <2>4 DEF ReadSpec
<1>4. CASE KafkaExitFires
  <2>1. /\ smState \in {"startup", "shuttingDown", "failed"} /\ ~waited /\ kafka # "none"
        /\ Fire!Enqueue(Waiter, "kafkaExit")
    BY <1>0, <1>4 DEF KafkaExitFires, ServerInv, KafkaInv, LocalTypeOK
  <2>2. waited' /\ UNCHANGED <<smState, told, entry, kafka, interrupt>>
    BY <1>4 DEF KafkaExitFires
  <2>3. ~Due("kafkaExit") /\ Due("kafkaExit")' /\ \A t : Due(t) => Due(t)'
    BY <2>1, <2>2 DEF Due
  <2>4. Elems(triggers') = Elems(triggers) \cup {"kafkaExit"} /\ Once(triggers')
    BY <1>0, <2>1, <2>3, AppendElems DEF Fire!Enqueue, Triggers
  <2>5. current' = current /\ \A g \in Goroutine : Begins(g)' => Begins(g)
    BY <1>0, <2>1, <2>2 DEF Fire!Enqueue
  <2>6. QED
    BY <1>0, <2>3, <2>4, <2>5
<1>5. CASE InterruptFires
  <2>1. /\ smState \in {"startup", "failed"} /\ interrupt = "raised"
        /\ Fire!Enqueue(Signals, "shutdown")
    BY <1>0, <1>5 DEF InterruptFires, ServerInv, KafkaInv, LocalTypeOK
  <2>2. interrupt' = "taken" /\ UNCHANGED <<smState, told, entry, kafka, waited>>
    BY <1>5 DEF InterruptFires
  <2>3. ~Due("shutdown") /\ Due("shutdown")' /\ \A t : Due(t) => Due(t)'
    BY <2>1, <2>2 DEF Due
  <2>4. Elems(triggers') = Elems(triggers) \cup {"shutdown"} /\ Once(triggers')
    BY <1>0, <2>1, <2>3, AppendElems DEF Fire!Enqueue, Triggers
  <2>5. current' = current /\ \A g \in Goroutine : Begins(g)' => Begins(g)
    BY <1>0, <2>1, <2>2 DEF Fire!Enqueue
  <2>6. QED
    BY <1>0, <2>3, <2>4, <2>5
<1>6. ASSUME NEW g \in Goroutine, Fetch(g) PROVE OnceInv' /\ DueInv'
  <2>1. UNCHANGED <<smState, told, entry, kafka, waited, interrupt>>
    BY <1>6 DEF Fetch, server
  <2>2. \A t : Due(t) => Due(t)'
    BY <2>1 DEF Due
  <2>3. CASE Fire!FetchNothing(g)
    BY <1>0, <2>1, <2>2, <2>3 DEF Fire!FetchNothing
  <2>4. CASE Fire!FetchTrigger(g)
    <3>1. /\ Elems(triggers) = Elems(triggers') \cup {Head(triggers)}
          /\ Once(triggers') /\ Head(triggers) \notin Elems(triggers')
      BY <1>0, <2>4, TailElems DEF Fire!FetchTrigger
    <3>2. current'[g] = Head(triggers) /\ \A h \in Goroutine : Begins(h)' => h = g
      BY <1>0, <2>4 DEF Fire!FetchTrigger
    <3>3. QED
      BY <1>0, <2>2, <3>1, <3>2
  <2>5. QED
    BY <1>6, <2>3, <2>4 DEF Fetch
<1>7. ASSUME NEW g \in Goroutine, Inside(g) PROVE OnceInv' /\ DueInv'
  <2> USE DEF Takes, InEntry, Goes
  <2>0. pc[g] = "execute" /\ \A h \in Goroutine : pc[h] = "execute" => h = g
    BY <1>0, <1>7 DEF Inside, EnterFormatting, FormatStorage, FormatFails, StartKafkaProcess,
       StartFails, StartMonitor, Return, ShutDown, StopMonitor, EntryInv
  <2>1. CASE EnterFormatting(g)
    <3>1. smState = "init" /\ current[g] = "start" /\ Begins(g)
      BY <2>1 DEF EnterFormatting, Leads, Transitions
    <3>2. Elems(triggers) = {}
      BY <1>0, <3>1 DEF Due
    <3>3. triggers' = triggers /\ \A h \in Goroutine : ~Begins(h)'
      BY <1>0, <2>0, <2>1 DEF EnterFormatting, machine
    <3>4. QED
      BY <1>0, <3>2, <3>3
  <2>2. CASE FormatStorage(g)
    <3>1. smState' = "formatting" /\ triggers = <<>>
      BY <1>0, <2>2 DEF FormatStorage, EntryInv
    <3>2. Elems(triggers') = {"startServer"} /\ Once(triggers')
      BY <1>0, <2>2, <3>1, AppendElems, NothingWaits
      DEF FormatStorage, Fire!EnqueueNested, Triggers
    <3>3. \A h \in Goroutine : ~Begins(h)'
      BY <1>0, <2>0, <2>2 DEF FormatStorage, Fire!EnqueueNested
    <3>4. QED
      BY <3>1, <3>2, <3>3 DEF Due
  <2>3. CASE FormatFails(g) \/ Return(g)
    <3>1. UNCHANGED <<smState, told, kafka, waited, interrupt, triggers>>
      BY <2>3 DEF FormatFails, Return, Fire!ExecuteErr, Fire!ExecuteOk, server
    <3>2. \A h \in Goroutine : ~Begins(h)'
      BY <1>0, <2>0, <2>3 DEF FormatFails, Return, Fire!ExecuteErr, Fire!ExecuteOk
    <3>3. QED
      BY <1>0, <3>1, <3>2 DEF Due
  <2>4. CASE StartKafkaProcess(g)
    <3>1. smState = "formatting" /\ current[g] = "startServer" /\ Begins(g)
      BY <2>4 DEF StartKafkaProcess, Leads, Transitions
    <3>2. Elems(triggers) = {}
      BY <1>0, <3>1 DEF Due
    <3>3. triggers' = triggers /\ \A h \in Goroutine : ~Begins(h)'
      BY <1>0, <2>0, <2>4 DEF StartKafkaProcess, machine
    <3>4. QED
      BY <1>0, <3>2, <3>3
  <2>5. CASE StartFails(g)
    <3>1. smState = "formatting" /\ current[g] = "startServer" /\ Begins(g)
      BY <2>5 DEF StartFails, Leads, Transitions
    <3>2. Elems(triggers) = {}
      BY <1>0, <3>1 DEF Due
    <3>3. Elems(triggers') = {"kafkaExit"} /\ Once(triggers')
      BY <1>0, <2>5, <3>2, AppendElems DEF StartFails, Fire!EnqueueNested, Triggers
    <3>4. \A h \in Goroutine : ~Begins(h)'
      BY <1>0, <2>0, <2>5 DEF StartFails, Fire!EnqueueNested
    <3>5. smState' = "startup" /\ kafka' = "none"
      BY <1>0, <2>5, <3>1 DEF StartFails, server, ServerInv
    <3>6. QED
      BY <3>3, <3>4, <3>5 DEF Due
  <2>6. CASE StartMonitor(g)
    <3>1. UNCHANGED <<smState, told, kafka, waited, interrupt, triggers>>
      BY <2>6 DEF StartMonitor, server, machine
    <3>2. \A h \in Goroutine : ~Begins(h)'
      BY <1>0, <2>0, <2>6 DEF StartMonitor, machine
    <3>3. QED
      BY <1>0, <3>1, <3>2 DEF Due
  <2>7. CASE ShutDown(g)
    <3>1. smState = "startup" /\ current[g] = "shutdown" /\ Begins(g)
      BY <2>7 DEF ShutDown, Leads, Transitions, KafkaInv, LocalTypeOK
    <3>2. smState' = "shuttingDown" /\ UNCHANGED <<told, kafka, waited, interrupt, triggers>>
      BY <2>7 DEF ShutDown, Fire!ExecuteOk
    <3>3. \A t : Due(t) /\ t # "shutdown" => Due(t)'
      BY <3>1, <3>2 DEF Due
    <3>4. \A h \in Goroutine : ~Begins(h)'
      BY <1>0, <2>0, <2>7 DEF ShutDown, Fire!ExecuteOk
    <3>5. QED
      BY <1>0, <3>1, <3>2, <3>3, <3>4
  <2>8. CASE StopMonitor(g)
    <3>1. smState \in {"startup", "shuttingDown"}
      BY <2>8 DEF StopMonitor, Leads, Transitions, Nested, KafkaInv, LocalTypeOK
    <3>2. smState' = "failed" /\ UNCHANGED <<told, kafka, waited, interrupt, triggers>>
      BY <2>8 DEF StopMonitor, server, machine
    <3>3. \A t : Due(t) => Due(t)'
      BY <3>1, <3>2 DEF Due
    <3>4. \A h \in Goroutine : ~Begins(h)'
      BY <1>0, <2>0, <2>8 DEF StopMonitor, machine
    <3>5. QED
      BY <1>0, <3>2, <3>3, <3>4
  <2>9. QED
    BY <1>7, <2>1, <2>2, <2>3, <2>4, <2>5, <2>6, <2>7, <2>8 DEF Inside
<1>8. QED
  BY <1>1, <1>2, <1>3, <1>4, <1>5, <1>6, <1>7 DEF Loud

-----------------------------------------------------------------------------
LEMMA InitKafkaInv == Init => KafkaInv
<1> SUFFICES ASSUME Init PROVE KafkaInv
  OBVIOUS
<1>1. FireProofs!FiringInv
  BY MachineStart DEF Init
<1>2. /\ triggers = <<>> /\ pc = [g \in Goroutine |-> "outside"]
      /\ entry = [g \in Goroutine |-> "none"]
  BY DEF Init, Fire!Init
<1>3. LocalTypeOK
  <2>1. cancelled \in BOOLEAN /\ waited \in BOOLEAN /\ broken \in BOOLEAN
    BY Zenon DEF Init
  <2>2. /\ health = "none" /\ status = "running" /\ told = "unread" /\ smState = "init"
        /\ stop = "nil" /\ monitor = "none" /\ measured = "none" /\ healthChan = <<>>
        /\ reporting = "none" /\ kafka = "none" /\ interrupt = "none" /\ failures = 0
    BY DEF Init
  <2>3. 0 \in 0..MaxFailures
    BY MemberAssumption
  <2>4. QED
    BY <1>2, <2>1, <2>2, <2>3 DEF LocalTypeOK
<1>4. EntryInv
  BY <1>2 DEF Init, EntryInv
<1>5. ServerInv
  BY DEF Init, ServerInv, Running, PanicsOnlyUnstarted
<1>6. OnceInv /\ DueInv
  BY <1>2, NothingWaits DEF OnceInv, DueInv, Begins
<1>7. QED
  BY <1>1, <1>3, <1>4, <1>5, <1>6 DEF KafkaInv

LEMMA NextKafkaInv == KafkaInv /\ [Next]_vars => KafkaInv'
<1> SUFFICES ASSUME KafkaInv, [Next]_vars PROVE KafkaInv'
  OBVIOUS
<1>1. LocalTypeOK' /\ FireProofs!FiringInv'
  BY LocalTypeStep, MachineInv DEF KafkaInv
<1>2. CASE Loud
  BY <1>1, <1>2, EntryStep, ServerStep, LineStep DEF KafkaInv
<1>3. CASE Monitors \/ TakeHealth \/ UpdateHealth \/ KafkaServes \/ KafkaExits
             \/ ConnectionBreaks \/ UNCHANGED vars
  BY <1>1, <1>3, QuietSteps, QuietInv DEF KafkaInv
<1>4. ASSUME NEW g \in Goroutine,
             CreateConfigPanics(g) \/ StopMonitorPanics(g) \/ EnterFailed(g)
      PROVE  KafkaInv'
  BY <1>1, <1>4, EndsStep DEF KafkaInv
<1>5. CASE Interrupt /\ kafka = "none"
  BY <1>1, <1>5, EndsStep DEF KafkaInv
<1>6. QED
  BY <1>2, <1>3, <1>4, <1>5 DEF Next, Executes, Inside, Loud, Raised

LEMMA KafkaInvariant == Spec => []KafkaInv
  BY InitKafkaInv, NextKafkaInv, PTL DEF Spec

-----------------------------------------------------------------------------
(* The member, its monitor and its process keep their types. *)
THEOREM TypeCorrect == Spec => []TypeOK
<1>1. KafkaInv => TypeOK
  BY DEF KafkaInv, LocalTypeOK, TypeOK, FireProofs!FiringInv, FireProofs!TypeOK, Fire!TypeOK
<1>2. QED
  BY <1>1, KafkaInvariant, PTL

(* No trigger is lost on a state that does not handle it, in whatever order *)
(* the exit of Kafka, an interrupt and the steps of a start are queued and  *)
(* whichever goroutine executes them (kafka-control.go 64-137).             *)
THEOREM TriggersAreHandled == Spec => []EveryTriggerIsHandled
<1>1. ASSUME KafkaInv PROVE EveryTriggerIsHandled
  <2> SUFFICES ASSUME NEW g \in Goroutine, pc[g] = "execute", entry[g] = "none"
               PROVE  \E to \in Nested \cup {"formatting", "failed"} :
                        Leads(smState, current[g], to)
    BY DEF EveryTriggerIsHandled
  <2>1. Due(current[g])
    BY <1>1 DEF KafkaInv, DueInv, Begins
  <2>2. smState # "failed"
    BY <1>1, OneExecutes DEF KafkaInv, EntryInv
  <2>3. CASE current[g] = "start" /\ smState = "init"
    BY <2>3 DEF Leads, Transitions
  <2>4. CASE current[g] = "startServer" /\ smState = "formatting"
    BY <2>4 DEF Leads, Transitions, Nested
  <2>5. CASE current[g] = "kafkaExit" /\ smState \in {"startup", "shuttingDown"}
    BY <2>5 DEF Leads, Transitions, Nested
  <2>6. CASE current[g] = "shutdown" /\ smState = "startup"
    BY <2>6 DEF Leads, Transitions, Nested
  <2>7. QED
    BY <2>1, <2>2, <2>3, <2>4, <2>5, <2>6 DEF Due
<1>2. QED
  BY <1>1, KafkaInvariant, PTL

(* A task that started its Kafka never dies of closing the monitor's        *)
(* channel before it is there or twice (kafka-control.go 88-98, 139-148).   *)
THEOREM NoPanicOnceStarted == Spec => []PanicsOnlyUnstarted
<1>1. KafkaInv => PanicsOnlyUnstarted
  BY DEF KafkaInv, ServerInv
<1>2. QED
  BY <1>1, KafkaInvariant, PTL

(* At most two triggers wait at a time, so that a MaxWaiting of 3 excludes  *)
(* no behaviour of the code, whose queue has no limit (modes.go 47-60).     *)
THEOREM QueueStaysShort == Spec => [](Len(triggers) <= 2)
<1>1. ASSUME KafkaInv PROVE Len(triggers) <= 2
  <2>1. triggers \in Seq(Triggers) /\ Len(triggers) \in Nat
    BY <1>1, OneExecutes DEF KafkaInv
  <2>2. /\ \A i \in 1..Len(triggers) : Due(triggers[i])
        /\ \A i, j \in 1..Len(triggers) : triggers[i] = triggers[j] => i = j
    BY <1>1 DEF KafkaInv, DueInv, OnceInv, Elems, Once
  <2>3. \/ \A i \in 1..Len(triggers) : triggers[i] \in {"kafkaExit", "shutdown"}
        \/ \A i \in 1..Len(triggers) : triggers[i] = "start"
        \/ \A i \in 1..Len(triggers) : triggers[i] = "startServer"
    BY <2>2 DEF Due
  <2>4. ASSUME Len(triggers) > 2 PROVE FALSE
    <3>1. 1 \in 1..Len(triggers) /\ 2 \in 1..Len(triggers) /\ 3 \in 1..Len(triggers)
      BY <2>1, <2>4
    <3>2. QED
      BY <2>2, <2>3, <3>1
  <2>5. QED
    BY <2>1, <2>4
<1>2. QED
  BY <1>1, KafkaInvariant, PTL
=============================================================================
