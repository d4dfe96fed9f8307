---------------------------- MODULE KafkaMember ----------------------------
(***************************************************************************)
(* The kafka member task of one node (internal/replset/kafka.go,           *)
(* memberTask, and kafka-control.go).  It reads one specification and, if  *)
(* that names the node, drives a hierarchical state machine: format the    *)
(* storage, start Kafka, monitor it, and end the process when Kafka ends.  *)
(*                                                                         *)
(* Three goroutines fire triggers: the member's own, one that waits for    *)
(* Kafka to exit and one that waits for an interrupt.  They meet in the    *)
(* queue of the library (QueuedFiring), so that one may execute what       *)
(* another has fired.  A fourth, the monitor, measures Kafka's health and  *)
(* hands it over a channel of one place to MemberTask, which publishes it. *)
(* Nomad starts the task again whenever it has ended.                      *)
(***************************************************************************)
EXTENDS Naturals, Sequences

CONSTANTS
  Loop, Waiter, Signals,  \* the goroutines that fire
  NoTrigger,    \* see QueuedFiring
  MaxWaiting,   \* bound of the model: see QueuedFiring; never reached
  MaxFailures   \* bound of the model: failures that no state explains

ASSUME MemberAssumption ==
  /\ MaxFailures \in Nat
  /\ Loop # Waiter /\ Loop # Signals /\ Waiter # Signals
  /\ NoTrigger \notin {"start", "startServer", "kafkaExit", "shutdown"}

VARIABLES
  health,       \* the health of this node in Consul
  \* the process
  status,       \* whether it runs, and how it ended
  told,         \* whether the specification that memberTask has read names this node, or "unread"
  smState,      \* state of the state machine
  entry,        \* where each goroutine is inside an entry action
  triggers, firing, pc, current, returned,   \* see QueuedFiring
  stop,         \* the channel k.stop: nil, open or closed
  monitor,      \* where the monitor goroutine is
  measured,     \* the status it sends
  healthChan,   \* k.healthChan
  reporting,    \* what MemberTask is publishing
  \* Kafka and what comes from outside
  kafka, cancelled, waited, interrupt, broken,
  failures

machine  == <<triggers, firing, pc, current, returned>>
monitors == <<stop, monitor, measured, healthChan, reporting>>
server   == <<kafka, cancelled, waited, interrupt, broken>>
vars == <<health, status, told, smState, entry, machine, monitors, server, failures>>

-----------------------------------------------------------------------------
Goroutine == {Loop, Waiter, Signals}

(* The triggers that are fired.  ready and done are configured too, and     *)
(* nothing fires them, so that the state running is never entered.          *)
Triggers == {"start", "startServer", "kafkaExit", "shutdown"}

Fire == INSTANCE QueuedFiring
          WITH Trigger <- Triggers, Failing <- Triggers

Nested == {"startup", "running", "shuttingDown"}   \* SubstateOf(starting)

Transitions ==
  { <<"init", "start", "formatting">>,
    <<"formatting", "startServer", "startup">>,
    <<"starting", "kafkaExit", "failed">>,
    <<"startup", "ready", "running">>,
    <<"startup", "shutdown", "shuttingDown">>,
    <<"running", "shutdown", "shuttingDown">>,
    <<"shuttingDown", "done", "running">> }

(* A variant that does not look in the superstate. *)
LeadsFlat(s, t, to) == <<s, t, to>> \in Transitions

(* FindHandler looks in the state and then in its superstate. *)
Leads(s, t, to) ==
  \/ <<s, t, to>> \in Transitions
  \/ s \in Nested /\ <<"starting", t, to>> \in Transitions

Running == status = "running"

Fails ==
  /\ failures < MaxFailures
  /\ failures' = failures + 1

-----------------------------------------------------------------------------
(* A member's job is registered after the first specification was put. *)
Init ==
  /\ health = "none"
  /\ status = "running"
  /\ told = "unread"
  /\ smState = "init"
  /\ entry = [g \in Goroutine |-> "none"]
  /\ Fire!Init
  /\ stop = "nil" /\ monitor = "none" /\ measured = "none"
  /\ healthChan = <<>> /\ reporting = "none"
  /\ kafka = "none" /\ cancelled = FALSE /\ waited = FALSE
  /\ interrupt = "none" /\ broken = FALSE
  /\ failures = 0

(* The process ends in some way, and with it its goroutines, its state      *)
(* machine and its channels.                                                *)
Ends(how) ==
  /\ status' = how
  /\ told' = "unread"
  /\ smState' = "init"
  /\ entry' = [g \in Goroutine |-> "none"]
  /\ triggers' = <<>> /\ firing' = FALSE /\ returned' = "nil"
  /\ pc' = [g \in Goroutine |-> "outside"]
  /\ current' = [g \in Goroutine |-> NoTrigger]
  /\ stop' = "nil" /\ monitor' = "none" /\ measured' = "none"
  /\ healthChan' = <<>> /\ reporting' = "none"
  /\ UNCHANGED <<health, server>>

(* Nomad ends the Kafka that may be left, and starts the task again. *)
Restart ==
  /\ ~Running
  /\ status' = "running"
  /\ kafka' = "none" /\ cancelled' = FALSE /\ waited' = FALSE
  /\ interrupt' = "none" /\ broken' = FALSE
  /\ UNCHANGED <<health, told, smState, entry, machine, monitors, failures>>

(* ------------------------------ memberTask ----------------------------- *)

(* One specification is received from the watch, whichever the controllers  *)
(* have published by then, and fired if it names the node; after that the   *)
(* goroutine waits on a channel that is nil.                                *)
ReadSpec ==
  /\ Running
  /\ told = "unread"
  /\ \/ told' = "yes" /\ Fire!Enqueue(Loop, "start")
     \/ told' = "no" /\ UNCHANGED machine
  /\ UNCHANGED <<health, status, smState, entry, monitors, server, failures>>

Fetch(g) ==
  /\ Running
  /\ Fire!FetchNothing(g) \/ Fire!FetchTrigger(g)
  /\ UNCHANGED <<health, status, told, smState, entry, monitors, server, failures>>

(* --------------------------- the state machine ------------------------- *)

(* Goroutine g begins to execute trigger t, which leads to state to. *)
Takes(g, t, to) ==
  /\ Running
  /\ pc[g] = "execute"
  /\ entry[g] = "none"
  /\ current[g] = t
  /\ Leads(smState, t, to)
  /\ smState' = to

InEntry(g, where) == Running /\ entry[g] = where

Goes(g, where) == entry' = [entry EXCEPT ![g] = where]

(* The state is set before the entry action runs: files that Kafka marked   *)
(* as deleted are removed, if they can be.                                  *)
EnterFormatting(g) ==
  /\ Takes(g, "start", "formatting")
  /\ Goes(g, "format")
  /\ UNCHANGED <<health, status, told, machine, monitors, server, failures>>

(* server.properties cannot be written. *)
CreateConfigPanics(g) ==
  /\ InEntry(g, "format")
  /\ Fails
  /\ Ends("panicked")

FormatStorage(g) ==
  /\ InEntry(g, "format")
  /\ Goes(g, "return")
  /\ Fire!EnqueueNested(g, "startServer")
  /\ UNCHANGED <<health, status, told, smState, monitors, server, failures>>

(* kafka-storage.bat fails: Fire returns the error, and FireStart's caller  *)
(* drops it.                                                                *)
FormatFails(g) ==
  /\ InEntry(g, "format")
  /\ Fails
  /\ Goes(g, "none")
  /\ Fire!ExecuteErr(g)
  /\ UNCHANGED <<health, status, told, smState, monitors, server>>

(* Entering startup enters starting first, whose action starts Kafka and    *)
(* the goroutines that wait for its exit and for an interrupt.              *)
StartKafkaProcess(g) ==
  /\ Takes(g, "startServer", "startup")
  /\ Goes(g, "monitor")
  /\ kafka' = "booting"
  /\ UNCHANGED <<health, status, told, machine, monitors, cancelled, waited, interrupt,
                 broken, failures>>

(* Kafka cannot be started: no monitor either, and kafkaExit is fired. *)
StartFails(g) ==
  /\ Takes(g, "startServer", "startup")
  /\ Fails
  /\ Goes(g, "return")
  /\ Fire!EnqueueNested(g, "kafkaExit")
  /\ UNCHANGED <<health, status, told, monitors, server>>

StartMonitor(g) ==
  /\ InEntry(g, "monitor")
  /\ Goes(g, "return")
  /\ stop' = "open"
  /\ monitor' = "dialing"
  /\ UNCHANGED <<health, status, told, smState, machine, measured, healthChan, reporting,
                 server, failures>>

Return(g) ==
  /\ InEntry(g, "return")
  /\ Goes(g, "none")
  /\ Fire!ExecuteOk(g)
  /\ UNCHANGED <<health, status, told, smState, monitors, server, failures>>

(* A variant that leaves Kafka running. *)
ShutDownNothing(g) ==
  /\ Takes(g, "shutdown", "shuttingDown")
  /\ Fire!ExecuteOk(g)
  /\ UNCHANGED <<health, status, told, entry, monitors, server, failures>>

(* Between substates of starting its exit action does not run. *)
ShutDown(g) ==
  /\ Takes(g, "shutdown", "shuttingDown")
  /\ cancelled' = TRUE
  /\ Fire!ExecuteOk(g)
  /\ UNCHANGED <<health, status, told, entry, monitors, kafka, waited, interrupt, broken,
                 failures>>

(* kafkaExit leaves starting, which closes the monitor's channel, and the   *)
(* entry of failed ends the process.                                        *)
StopMonitor(g) ==
  /\ Takes(g, "kafkaExit", "failed")
  /\ stop = "open"
  /\ stop' = "closed"
  /\ Goes(g, "exit")
  /\ UNCHANGED <<health, status, told, machine, monitor, measured, healthChan, reporting,
                 server, failures>>

(* Closing a channel that is nil or closed panics. *)
StopMonitorPanics(g) ==
  /\ Running
  /\ pc[g] = "execute" /\ entry[g] = "none" /\ current[g] = "kafkaExit"
  /\ Leads(smState, "kafkaExit", "failed")
  /\ stop # "open"
  /\ Ends("panicked")
  /\ UNCHANGED failures

EnterFailed(g) ==
  /\ InEntry(g, "exit")
  /\ Ends("exited")
  /\ UNCHANGED failures

(* ----------------- the goroutines of startKafkaProcess ----------------- *)

(* A variant that does not report an exit that was asked for. *)
KafkaExitUnasked ==
  /\ Running
  /\ kafka = "exited" /\ ~waited
  /\ waited' = TRUE
  /\ IF cancelled THEN UNCHANGED machine ELSE Fire!Enqueue(Waiter, "kafkaExit")
  /\ UNCHANGED <<health, status, told, smState, entry, monitors, kafka, cancelled,
                 interrupt, broken, failures>>

(* cmd.Wait returns. *)
KafkaExitFires ==
  /\ Running
  /\ kafka = "exited" /\ ~waited
  /\ waited' = TRUE
  /\ Fire!Enqueue(Waiter, "kafkaExit")
  /\ UNCHANGED <<health, status, told, smState, entry, monitors, kafka, cancelled,
                 interrupt, broken, failures>>

(* The first interrupt is taken; a later one stays in the channel. *)
InterruptFires ==
  /\ Running
  /\ interrupt = "raised"
  /\ interrupt' = "taken"
  /\ Fire!Enqueue(Signals, "shutdown")
  /\ UNCHANGED <<health, status, told, smState, entry, monitors, kafka, cancelled, waited,
                 broken, failures>>

(* ------------------------------- monitor ------------------------------- *)

Measures(s) ==
  /\ monitor' = "sending"
  /\ measured' = s

DialSucceeds ==
  /\ Running
  /\ monitor = "dialing"
  /\ kafka = "serving"
  /\ monitor' = "connected"
  /\ broken' = FALSE
  /\ UNCHANGED <<health, status, told, smState, entry, machine, stop, measured, healthChan,
                 reporting, kafka, cancelled, waited, interrupt, failures>>

(* A variant in which the goroutine returns. *)
DialGivesUp ==
  /\ Running
  /\ monitor = "dialing"
  /\ \/ kafka # "serving" /\ UNCHANGED failures
     \/ kafka = "serving" /\ Fails
  /\ monitor' = "stopped"
  /\ UNCHANGED <<health, status, told, smState, entry, machine, stop, measured, healthChan,
                 reporting, server>>

DialFails ==
  /\ Running
  /\ monitor = "dialing"
  /\ \/ kafka # "serving" /\ UNCHANGED failures
     \/ kafka = "serving" /\ Fails
  /\ Measures("Disconnected")
  /\ UNCHANGED <<health, status, told, smState, entry, machine, stop, healthChan, reporting,
                 server>>

(* A tick: brokers and controller are asked over the connection. *)
Tick ==
  /\ Running
  /\ monitor = "connected"
  /\ IF kafka = "serving" /\ ~broken
     THEN Measures("OK")
     ELSE Measures("RequestErr")
  /\ UNCHANGED <<health, status, told, smState, entry, machine, stop, healthChan, reporting,
                 server, failures>>

(* A variant that does not wait for room in the channel. *)
SendAnyhow ==
  /\ Running
  /\ monitor = "sending"
  /\ healthChan' = Append(healthChan, measured)
  /\ measured' = "none"
  /\ monitor' = IF measured = "Disconnected" THEN "dialing" ELSE "connected"
  /\ UNCHANGED <<health, status, told, smState, entry, machine, stop, reporting, server,
                 failures>>

(* The goroutine blocks until the status fits in the channel.  Only after a *)
(* failed dial does it dial again: the break after a failed request leaves  *)
(* the select and not the loop around it.                                   *)
Send ==
  /\ Running
  /\ monitor = "sending"
  /\ healthChan = <<>>
  /\ healthChan' = <<measured>>
  /\ measured' = "none"
  /\ monitor' = IF measured = "Disconnected" THEN "dialing" ELSE "connected"
  /\ UNCHANGED <<health, status, told, smState, entry, machine, stop, reporting, server,
                 failures>>

(* The stop is seen between ticks, if the process still lives. *)
MonitorStops ==
  /\ Running
  /\ monitor = "connected"
  /\ stop = "closed"
  /\ monitor' = "stopped"
  /\ UNCHANGED <<health, status, told, smState, entry, machine, stop, measured, healthChan,
                 reporting, server, failures>>

(* ------------------------------ MemberTask ----------------------------- *)

TakeHealth ==
  /\ Running
  /\ reporting = "none"
  /\ healthChan # <<>>
  /\ reporting' = Head(healthChan)
  /\ healthChan' = <<>>
  /\ UNCHANGED <<health, status, told, smState, entry, machine, stop, monitor, measured,
                 server, failures>>

(* UpdateHealthStatus, whose error is dropped. *)
UpdateHealth ==
  /\ Running
  /\ reporting # "none"
  /\ reporting' = "none"
  /\ \/ health' = reporting /\ UNCHANGED failures
     \/ Fails /\ UNCHANGED health
  /\ UNCHANGED <<status, told, smState, entry, machine, stop, monitor,
                 measured, healthChan, server>>

(* --------------------------- from outside ------------------------------ *)

KafkaServes ==
  /\ Running
  /\ kafka = "booting"
  /\ kafka' = "serving"
  /\ UNCHANGED <<health, status, told, smState, entry, machine, monitors, cancelled, waited,
                 interrupt, broken, failures>>

(* By itself, or killed through the context that was cancelled. *)
KafkaExits ==
  /\ Running
  /\ kafka \in {"booting", "serving"}
  /\ \/ cancelled /\ UNCHANGED failures
     \/ ~cancelled /\ Fails
  /\ kafka' = "exited"
  /\ UNCHANGED <<health, status, told, smState, entry, machine, monitors, cancelled, waited,
                 interrupt, broken>>

ConnectionBreaks ==
  /\ Running
  /\ monitor \in {"connected", "sending"} /\ ~broken
  /\ Fails
  /\ broken' = TRUE
  /\ UNCHANGED <<health, status, told, smState, entry, machine, monitors, kafka, cancelled,
                 waited, interrupt>>

(* Before Kafka is started an interrupt ends the process. *)
Interrupt ==
  /\ Running
  /\ interrupt = "none"
  /\ IF kafka = "none"
     THEN Ends("interrupted")
     ELSE /\ interrupt' = "raised"
          /\ UNCHANGED <<health, status, told, smState, entry, machine, monitors, kafka,
                         cancelled, waited, broken>>
  /\ UNCHANGED failures

-----------------------------------------------------------------------------
(* What a goroutine does about the trigger it executes. *)
Executes(g) ==
  \/ EnterFormatting(g)
  \/ CreateConfigPanics(g)
  \/ FormatStorage(g)
  \/ FormatFails(g)
  \/ StartKafkaProcess(g)
  \/ StartFails(g)
  \/ StartMonitor(g)
  \/ Return(g)
  \/ ShutDown(g)
  \/ StopMonitor(g)
  \/ StopMonitorPanics(g)
  \/ EnterFailed(g)

Monitors == DialSucceeds \/ DialFails \/ Tick \/ Send \/ MonitorStops

Next ==
  \/ Restart
  \/ ReadSpec
  \/ \E g \in Goroutine : Fetch(g) \/ Executes(g)
  \/ KafkaExitFires
  \/ InterruptFires
  \/ Monitors
  \/ TakeHealth
  \/ UpdateHealth
  \/ KafkaServes
  \/ KafkaExits
  \/ ConnectionBreaks
  \/ Interrupt

(* Nomad starts the task again, goroutines run, calls of Consul return, and *)
(* a Kafka that is killed exits.                                            *)
Fairness ==
  /\ WF_vars(Restart)
  /\ WF_vars(ReadSpec)
  /\ \A g \in Goroutine : WF_vars(Fetch(g)) /\ WF_vars(Executes(g))
  /\ WF_vars(KafkaExitFires)
  /\ WF_vars(InterruptFires)
  /\ WF_vars(Monitors)
  /\ WF_vars(TakeHealth)
  /\ WF_vars(UpdateHealth)
  /\ WF_vars(cancelled /\ KafkaExits)

Spec == Init /\ [][Next]_vars /\ Fairness

-----------------------------------------------------------------------------
Statuses == {"Disconnected", "RequestErr", "OK"}

TypeOK ==
  /\ health \in Statuses \cup {"none"}
  /\ status \in {"running", "exited", "panicked", "interrupted"}
  /\ told \in {"unread", "yes", "no"}
  /\ smState \in {"init", "formatting", "startup", "shuttingDown", "failed"}
  /\ entry \in [Goroutine -> {"none", "format", "monitor", "return", "exit"}]
  /\ Fire!TypeOK
  /\ stop \in {"nil", "open", "closed"}
  /\ monitor \in {"none", "dialing", "sending", "connected", "stopped"}
  /\ measured \in Statuses \cup {"none"}
  /\ healthChan \in {<<>>} \cup {<<s>> : s \in Statuses}
  /\ reporting \in Statuses \cup {"none"}
  /\ kafka \in {"none", "booting", "serving", "exited"}
  /\ cancelled \in BOOLEAN
  /\ waited \in BOOLEAN
  /\ interrupt \in {"none", "raised", "taken"}
  /\ broken \in BOOLEAN
  /\ failures \in 0..MaxFailures

(* No trigger is lost on a state that does not handle it, in whatever order *)
(* the exit of Kafka, an interrupt and the steps of starting it come        *)
(* (kafka-control.go 64-137).                                               *)
EveryTriggerIsHandled ==
  \A g \in Goroutine :
    Running /\ pc[g] = "execute" /\ entry[g] = "none"
      => \E to \in Nested \cup {"formatting", "failed"} : Leads(smState, current[g], to)

(* A Kafka that exits before its monitor was started does not make the task *)
(* close a channel that is not there, nor does anything make it close one   *)
(* twice: it panics only where Kafka was never started (kafka-control.go    *)
(* 88-98, 139-148).                                                         *)
PanicsOnlyUnstarted ==
  status = "panicked" => kafka = "none"

(* Whatever the other goroutines are doing when Kafka exits, the task ends, *)
(* so that Nomad can start it again (kafka-control.go 313-319, 131-136).    *)
KafkaExitEndsTask == kafka = "exited" ~> ~Running

(* An interrupt ends the task, also during start and when Kafka exits at    *)
(* the same time (kafka-control.go 303-312, 121-128).                       *)
InterruptEndsTask == interrupt = "raised" ~> ~Running

(* Where Kafka goes on serving and the connection to it holds, the health   *)
(* in Consul becomes and stays OK, over failed dials, failed puts and       *)
(* statuses of earlier processes (kafka-control.go 145-210, replica.go      *)
(* 182-185).                                                                *)
HealthCatchesUp ==
  <>[](Running /\ kafka = "serving" /\ ~broken) => <>[](health = "OK")

(* A member that its specification names comes to start Kafka, or its task  *)
(* ends and is tried again, unless the storage could not be formatted: then *)
(* the machine stays in formatting, which nothing but an interrupt ends     *)
(* (kafka-control.go 68-85, kafka.go 161-163).                              *)
NamedMemberStarts ==
  told = "yes" ~> kafka # "none" \/ ~Running \/ returned = "err"
=============================================================================
