# A verification development of goctl

`goctl` (`src/goctl`) keeps a MongoDB and a Kafka replica set alive on a small
cluster of nodes that run Nomad and Consul. This directory holds TLA+ modules
of its core, the TLC configurations that check them on small instances, and
TLAPS proofs of the properties that matter most for every instance.

Paths of source files are relative to `src/goctl/internal/` unless they start
with another directory of the repository.

## The system

Three tasks are started from one binary (`src/goctl/main.go`), each for mongo
or kafka:

* **prestart**, once for every start of a node's agent (`start-agent.bat`
  156-167): inspects the node's data and stores a *candidate report* in Consul
  under `status/<type>/<node>`.
* **controller**, one service job of Nomad: watches the candidate reports,
  waits on a timer for more of them, chooses three nodes, writes the
  *specification* of the replica set to Consul under `config/<type>`, and
  registers with Nomad the job that starts the member tasks on those nodes.
* **member**, one on each chosen node: watches the specification, runs and
  configures `mongod` or Kafka, and stores its *health* under
  `health/<type>/<node>`.

They never call each other. Everything they share is in Consul (reports,
health, specification, sessions) and Nomad (the job), so that what one sees of
another is always somewhat old.

### Inventory

| Component | State | Operations | What is hard | What makes it correct |
|---|---|---|---|---|
| State-machine library, queued mode (`goctl/vendor/github.com/qmuntal/stateless/modes.go`) | queue of triggers, `firing` | `Fire`, `enqueue`, `fetch`, `execute` | called by several goroutines and from entry actions; errors leave `Fire` early | entry actions never overlap, run in order, and none is lost |
| Replica-set controller (`replset/replica.go`, `mongo.go` 57-141, `kafka.go` 25-148) | state of the machine, timer, last specification | select loop, timer functions, `publishReplSpec` | timers that fire late, failing calls, restarts, stale snapshots | one consistent publication, of the best candidates; it happens, or its failure ends the attempts |
| Store, watches (`store/store.go` 138-166, 188-255) | index, channel of one place | blocking query, unmarshal, send | slow readers, failing queries, coalesced changes | never backwards, catches up |
| Store, reports and health (`store/store.go` 73-136, 168-186, 256-310) | `sessionID`, `renewStarted`; Consul's sessions and keys | `PutCandidateReport`, `UpdateHealthStatus`, `ensureSession`, `StartRenewLoop` | sessions that end between two calls, the lock-delay, lost answers, an unlocked field | no report of a dead node, no stale report, no heap of sessions |
| Collection (`replset/mongo.go` 142-252, `mongo-control.go` 27-49) | an offline `mongod`, its data | `collect`, `getOfflineStatus`, `wipeDB` | errors that leave `mongod` running; a wipe after two failures | one failure loses no data; the report is true; no `mongod` is left behind where nothing failed |
| Mongo member (`replset/mongo.go` 253-389, `mongo-control.go`) | the process, the client, the exit channel | initiate, add, reconfigure, wipe | exits on purpose and by accident, half-done initiation, specifications that come twice | the primary is never wiped; configuration converges |
| `mongod` process (`util/mongo.go`) | process, exit channel | `Start`, `ShutdownWithTimeout` | the command reaches another process than the timer and the signal | a shutdown returns; nobody waits for ever |
| Kafka member (`replset/kafka.go`, `kafka-control.go`) | hierarchical state machine, monitor, process | format, start, monitor, exit | exits, interrupts and the steps of a start that fire at once; a monitor that blocks | an exit or an interrupt ends the task; no trigger is lost; health becomes true |
| Settings, demos, scripts (`main.go`, `cmd/cli`, `replica-conroller.go`, `rtest`, `*.bat`, `*.js`) | none | | | |
| Java predecessor (`src/src/main/java/com/example`) | | an earlier version of the three tasks | | |

## Modules

| Module | Role |
|---|---|
| `RunToCompletion` | what the queued firing mode promises: a serial server of triggers |
| `QueuedFiring` | the queued firing mode, action by action; refines `RunToCompletion` |
| `QueuedFiringProofs` | its proofs |
| `Deployment` | what a controller promises: one choice, from one list it has read, put before it is registered |
| `ReplicaControl` | the controller; runs its state machine on an instance of `QueuedFiring`, refines `Deployment` |
| `ReplicaControlProofs` | its proofs; uses those facts about `QueuedFiring` it needs |
| `ReplicaChoiceProofs` | the proofs that the controller publishes the best candidates, and that it refines `Deployment` |
| `LatestValue` | what a watch promises: a register that is read with delay, never backwards |
| `ConsulWatch` | the three watches, their channel and reader; refines `LatestValue` |
| `ConsulWatchProofs` | its proofs |
| `ConsulStore` | prestart reports and member health, under Consul's sessions |
| `ConsulStoreProofs` | its proofs |
| `MongoMember` | the mongo members of a deployment, each with its `mongod` |
| `MongoMemberProofs` | their proofs |
| `MongoPrestart` | the mongo prestart task of a node, with every `mongod` it starts |
| `MongoPrestartProofs` | its proofs |
| `KafkaMember` | a kafka member; runs its state machine on an instance of `QueuedFiring` |
| `KafkaMemberProofs` | its proofs |
| `MC*` | values of the constants for TLC |

A definition whose comment begins with "A variant" is not part of any
specification. It is what a plausible mistake in the code would make of the
definition that follows it, and serves to see that a property would notice.

### QueuedFiring

Each goroutine is *outside* `Fire`, about to *fetch*, or in *execute*.
`Enqueue` is the call and the append under the mutex; `FetchTrigger` is the
test-and-set of `firing` and the removal of the oldest trigger, which the code
does under the same mutex (69-83) and which is therefore one action;
`ExecuteOk` and `ExecuteErr` clear `firing` and go on or leave. Clearing
`firing` does not hold the mutex, which is why a goroutine may find it set and
leave just before it is cleared: `NoTriggerLeftBehind` is about that window.
`EnqueueNested` is `Fire` called from an entry action. What an execution does
is left open, except that it may fail for the triggers in `Failing`.

### ReplicaControl

The goroutines are the select loop (`Loop`) and the timer functions that have
started (`Timer`). `smState`, `timer` and `lastSpec` are the fields of the
same names; `candidatesChan` is what the watch has sent or is about to send;
`expired` are the timer functions that run and have not called `Fire` yet,
which `Stop` cannot reach. The machine's own state is that of `QueuedFiring`,
taken by `INSTANCE`.

An entry action that only touches memory is one step with the execution it is
part of. `initialConfiguration` is split where the code calls Consul and Nomad
(`EnterMonitoring`, `PutSpec`, `RegisterJob`): anything can happen between
those, and each may fail with or without having had its effect. A panic on any
goroutine ends the process; `StartAgain` is what Nomad starts next: empty
memory, with reports, specification and job as they were left.

The data are reduced to what decides: a report is a node and a position (of
the oplog for mongo, the modification time of the data directory for kafka), a
specification the sequence of its members' nodes. Names are numbers in their
order. The size of a deployment, 3 in the code, is the constant `SetSize`.

`Deployment` has no goroutines, timers or queue. Its process reads the reports,
may forget lists it has read, chooses once from one of those it still has, and
puts, registers and records that choice; it may give up on a failing call, and
another process may follow at any time. In the mapping (`Promise`) the lists it
has are those in the channel, in the timer, in a timer function that has
started, in the queue and with an executing goroutine (`ListsHeld`); it has
decided once the machine is in monitoring (`Decided`), and its choice is the
draft of the goroutine that publishes (`Chosen`). So a late timer may deploy an
old list, as the code does, but never a mixture of lists, nor one that another
process has read, nor a second one.

### ConsulWatch

A version stands for the content the path had after so many writes. `usable`
remembers whether it yields a result: the key watch skips an absent, empty or
malformed value, the list watches send whatever the list holds. Consul's part
is in `AnswersChange` (the index has moved on) and `AnswersAgain` (the wait
ended without a change); `QueryFails` is the error and the retry half a second
later. Up to two answers are under way, one in the channel and one in the
goroutine that is blocked on sending it.

### ConsulStore

`pre` is where a prestart task is in `PutCandidateReport`, with one action per
call to Consul, and an action for each way it can end: the answer arrives,
is lost after the effect, or the call fails. `CheckFails` ends the sessions of
a node and deletes its report, and starts the lock-delay of that key. A report
carries the number of the agent's start it belongs to, which stands for its
content: reports of later starts are newer. `mem` is where a member process is
in `UpdateHealthStatus`, and `renewing` its renew goroutine; both use
`sessionID`, which no lock protects, so that every read and write of it is an
action of its own: `ensureSession` looks at it (`KnowsSession`) and reads it
again to return it (`ReturnsSession`), so that what it returns (`sid`) may be
empty.

### MongoMember

Every node has a `mongod`, with what it holds on disk (`disk`) and what the
running process serves (`mem`), and a goroutine of `memberTask` (`pc`). The two
of `mongod` differ only after a wipe under a process that still runs: the
shutdown before the wipe connects without a user, a `mongod` with `--auth`
refuses it, and `ShutdownWithTimeout` returns at once (`util/mongo.go` 93-95).
The second `mongod` then finds its port and its lock taken and exits, and the
loop panics on that exit.

The specification is one and does not change; it is delivered any number of
times, because the watch sends its value whenever its query ends. `Decides` is
what the handler does, given the status it has read; between the status and
what is done about it, the other members and the `mongod`s may move. A replica
set is a number (earlier ones, then those that were initiated), a
configuration its members and version. Other differences of a configuration,
its hosts' names and ports, are like a difference in members.

A configuration that is changed is read first (`ReplSetGetConfig`) and written
back in a step of its own (`AddMember`, `ReconfigPrimary`, `RecoverStale`);
`cfg` is what was read. In between a heartbeat may replace what the `mongod`
has, and other members may move. A forced configuration is accepted if it is of
the same set and newer than what is there then (`Accepts`).

Nearly every failure in this code is a panic, meant or not: after a failed
status the nil result is read, except that a *failed* recovery of a stale
configuration goes on. `Panics` ends the process with its `mongod`, as Nomad
ends all that a task has started, and `Start` is Nomad's restart. A wipe that stops half way counts as one
that wiped nothing or all: half removed data are started on again, and nothing
that is stated here is about them.

External are `mongod`'s own actions. `Heartbeat` lets a member that is named in
a configuration take it over when it has none or an older one of the same set,
with the data that the initial sync brings, the user `admin` included, without
which no task gets past its ping. `ReplSetReconfig` adds one to the version
(`util/mongo.go` 217), and `mongod` adds a large random number to that of a
configuration that is forced. That number is the constant `Jump`, and earlier
versions are assumed to be no further apart than it. `ConfigsAgree` rests on
this: with the one of the code alone two configurations may get one version
(`ReconfigUnforced`).

### MongoPrestart

`pc` is the step of `getOfflineStatus` the task is at, `try` the attempt, and
`procs` every `mongod` that was started, by the attempts of all runs of the
agent. An attempt that fails returns without ending its `mongod` (`mongo.go`
180-232). The next one starts another, which finds the lock taken and exits
(`DataInUse`), while its client talks to whoever serves the port: so the
commands are not tied to the process of the attempt, but the exit channel and
the kill timer of `ShutdownWithTimeout` are.

A command fails for nothing when no `mongod` serves, and at the price of one
of the bounded `failures` when one does; a ping likewise, where a `mongod` that
opens its data for longer than 15 seconds is a failure too. `createUser` may
have had its effect though it failed. A `mongod` that a single recovery keeps from
two pings is charged twice, so that a wipe after it is one after two failures.

The shutdown has two ways, and `loopback` says which (`util/mongo.go` 83), for
the prestart's `mongod` has no authentication. Over a loopback address it is a
command, which goes to whichever `mongod` serves, and is answered or not:
`mongod` often closes the connection first, and `ShutdownWithTimeout` then
returns at once (93-95). Over another address, which is what the deployment
sets (`start-agent.bat` 83), it is a signal to the attempt's own process
(`ShutdownSignals`), whose error nobody looks at: that process may have exited,
and Windows delivers no interrupt at all, so that it is the kill timer that
ends it. Either way the wait is for the attempt's own process. A wipe empties a free dbpath; where a `mongod` has
files open, Windows, the only system this program builds for, refuses to
remove them, and the first refusal ends the wipe: the data are as they were or
corrupt (`WipeDB`). What that `mongod` serves is then no longer what the files
hold (`mem`). That a `mongod` of a *member* already runs on the data when the
agent starts its prestart is not modelled; deployments end members before.

`MaxFailures` is three: two for the wipe, and one for the attempt after it.

### KafkaMember

The machine's state is `smState`, and the queue of triggers that of
`QueuedFiring`. `Transitions` is the table of `configure`, and `Leads` the
search in a state and its superstate *starting*. Three goroutines fire: `Loop`
(`memberTask`), `Waiter` (`cmd.Wait`) and `Signals` (the interrupt). Which of
them executes a trigger is decided by the queue, so that the entry actions are
steps of any goroutine; `entry` is where it is inside one. An entry action is
cut where another goroutine could matter: before the format (`EnterFormatting`),
between the start of Kafka and that of the monitor (`StartKafkaProcess`,
`StartMonitor`), and before the end of the process (`StopMonitor`,
`EnterFailed`).

`ready` and `done` are in the table and fired by nobody, so that the state
*running* is never entered. The monitor dials, measures at a tick, and blocks
until its status fits in the channel of one place (`Send`); after a failed
request it stays with its connection, because the `break` leaves only the
select (180, 192). Brokers and controller that cannot be asked are one status.
A specification counts only by whether it names the node; one is read.
`Ends` drops what was in the process's memory, and `Restart` is Nomad's.

## Runs

| Run | Question | Instance | Distinct states |
|---|---|---|---|
| `queued_firing` | are entry actions serial, ordered and never lost? | 3 goroutines, 2 triggers, queue of 4 | small |
| `controller_mongo` | does a mongo controller keep the promise of `Deployment`, is what it publishes consistent, single, final and best, and does it come to publish or give up? | 2 nodes, 2 positions, deployment of 2, 1 late timer, 1 change, 1 crash | 838 thousand |
| `controller_kafka` | does a kafka controller publish the best in its order, with ties and spare nodes? | 3 nodes, deployment of 2, no crash | 3.9 million |
| `short_list` | does it survive a short list? (no) | as `controller_mongo`, 1 position | stops at the violation |
| `watch` | does a watch go forward and catch up? | 4 versions, both kinds of watch | 2.5 thousand |
| `store` | are reports live and fresh, sessions few, and does prestart end? | 1 node, 2 agent starts, 1 member, 4 sessions, 2 looks | 197 thousand |
| `report_dropped` | does "Prestart OK" mean stored? (no) | as `store` | stops at the violation |
| `health_key` | does health go with its session? (no) | as `store` | stops at the violation |
| `mongo_member` | is one set founded, kept by its primary, agreed on and completed, and does no member lose the set it was asked to have? | 2 members, 1 departed node, any of 29 earlier states of each disk, 2 failures, a jump of 1 | 173 thousand |
| `wiped_again` | are only other sets wiped? (no) | as `mongo_member` | stops at the violation |
| `kafka_member` | does every exit and interrupt end the task, is no trigger lost, does health become true? | 1 member, specifications that do or do not name it, 2 failures | 97 thousand |
| `mongo_prestart` | is data lost, a report untrue, a `mongod` left behind, or the task stuck? | 1 node, any data, 2 agent starts of 3 attempts, 3 failures, shutdown by command or by signal | 15 thousand |

### Why the bounds are enough

* `MaxWaiting` bounds the queue of triggers; in `ReplicaControl` it is never
  reached (no more than four wait), because `RoomForMore` holds the loop back
  once `MaxBacklog` triggers wait behind a busy goroutine. Three callers and two triggers give
  `queued_firing` every position of a third goroutine against one that
  executes and one that leaves.
* A timer that fires late needs one timer goroutine beside the loop; the
  second one would find the machine in the same states. One change of the
  reports lets the late timer's snapshot differ from the present one; one
  crash falls between any two steps of a publication.
* With two nodes and a deployment of two, lists are empty, short or full; the
  third node of `controller_kafka` makes the choice of members a real one.
* A node's key and sessions are its own, so that `store` looks at one node.
  Two starts are a first report and a report over an existing one, with or
  without its session; four sessions are one more than its tasks normally
  take.
* Two looks at the check stand for five: the first, and the last.
* Four versions are one more than the three places a version can be at
  (channel, goroutine, reader).
* The primary and one other member are the two roles there are. With two
  earlier sets, two versions and three names, the disks of both may agree,
  differ in the set, in the version or in the members, or name a node that has
  left, or not name their own. Two failures allow one in the recovery from
  another. A second founding would already exceed what `OneSet` allows, so
  that `MaxSets` is 2.
* A kafka member's goroutines are the three there are; each fires once in the
  life of a process besides the nested fires, and no more than two triggers ever
  wait (`QueueStaysShort`, a theorem), so that a queue of three places leaves
  nothing out. Two failures let one occur in a process that another has
  made.
* Two starts of the agent let a run meet what an earlier one has left. Three
  failures are one more than lose data.

`CHECK_DEADLOCK FALSE` is set where all bounded activity may be used up
(`queued_firing`, the `store` runs, `mongo_prestart`). The controller, the watch
and the members never stop.

### Fairness

* A goroutine that can run does in the end (`WF` on the steps of `Fire`, of a
  publication, of a send and a receive). Go's scheduler is preemptive and the
  mutex is held for a few instructions only.
* Consul answers a list in the end, and not every query fails (`SF` on
  `Unmarshal`: the watch asks again after each failure).
* The select serves the candidates in the end (`SF`): Go chooses at random
  among the cases that are ready.
* A timer that is restarted again and again expires in the end (`SF` on
  `TimerExpires`). The timer is restarted by each list of candidates. Once the
  reports no longer change, the watch returns the same list again only when
  the blocking query ends, after minutes, while the longest timer takes 15
  seconds. Fairness says this without a clock.
* The calls and waits of a prestart task end (`WF` on its steps). No call has
  to succeed, and nothing that comes from outside (reports, health, crashes,
  checks that pass or fail) has to happen.
* Nomad starts a member again that ended, `mongod` answers its commands, and
  the handler of a specification goes on (`WF`). The select takes an exit of
  `mongod` in the end though specifications may be ready as well (`SF`, Go
  chooses at random). Heartbeats need not come: the properties do not rest on
  them. Nomad gives up after some restarts unless its job says otherwise; the
  job file is the deployment's, and the failures are bounded here.

* The goroutines of a kafka member run, Kafka exits when it was killed, and
  puts to Consul end, well or not. Kafka need not come to serve, and an
  interrupt need not come. `HealthCatchesUp` is about a Kafka that serves on.
* A prestart task goes on, and a `mongod` that was started opens its data or
  exits. One that was asked to end may take for ever, which is why
  `CollectEnds` rests on the kill timer.

## Proofs

The eight proof modules prove safety for every value of the constants under the
named assumptions of the modules (`FiringAssumption`, `ControlAssumption`,
`WatchAssumption`, `StoreAssumption`, `PrestartAssumption` and the
`MemberAssumption` of each member). These only say that bounds are numbers,
that placeholder values are none of the real ones, that there are finitely many
reports and nodes, and that the primary is one of the nodes. `Jump` may be any
number, 0 included, as the earlier versions are bounded by it.

* **QueuedFiring.** `FiringInv` is the type invariant with `OneAtATime` and
  `NoTriggerLeftBehind`, which are inductive together: `firing` is set exactly
  while one goroutine is in execute, so the one that clears it is the one that
  looks again. `Refinement` maps the queue to the line of waiting triggers and
  the executing goroutines to the running one; enqueues are accepts, a fetch is
  a start, the two ways to end are finishes, and the rest stutters.
* **ReplicaControl.** `ControlInv` adds to the properties what links the two
  halves of the state: a goroutine has a draft exactly while it publishes, it
  then executes an `initialConfiguration`, and the machine is in monitoring.
  That state is entered only through the trigger that configuration alone
  permits, so a second publication would need a second entry. While a draft is
  past the put it is what Consul holds. The facts about the queue come from the
  same invariant of `QueuedFiring`, restated for the instance (`MachineStart`,
  `MachineStep`, `MachineStutter`).
* **What is published.** `ChoiceInv` adds to `ControlInv` that every list on its
  way from Consul to a publication (channel, timer, late timer function, queue,
  executing goroutine) has at most one report of a node. Such a list has as many
  places as reports, so that an arrangement of it holds each report once (a
  surjection between finite sets of one size is one-to-one), and sorted it has
  no better report behind a worse one (`SortedIsBest`).
* **The promise of a controller.** `KeepsPromise` shows that `ReplicaControl`
  implements `Deployment`. `FairTrigger` says which triggers carry a list, and
  with it every list held after a step was held before or is what Consul has now
  (`Holders`, `HoldersNext`). A change of reports is one of `Deployment`; the
  watch, the timers and the queue are a `Look`, which reads or forgets
  (`LooksOnly`); the entry into monitoring is the choice, from the list that the
  executing goroutine has; `PutSpec` and `RegisterJob` are `Put`, `Register` or,
  when the call fails, `GiveUp`; a panic, a crash and the next process are
  `StartAgain`. `ControlInv` supplies that only one goroutine publishes, so that
  there is one choice to speak of, and that what is registered was put.
* **ConsulWatch.** `WatchInv` says that the three places of a version are in
  order: reader, channel, goroutine, newest. With it every step is one of
  `LatestValue` or a stutter, which is the refinement `Monotonic`.
* **ConsulStore.** `StoreInv` has three parts. `SessionInv`: sessions have
  numbers of their own, a session tied to a check exists only while that check
  passes, and a report is held by such a session of its node. `ReportInv`:
  what a prestart task remembers agrees with Consul (no report exists while it
  looks for a check; the report it is about to replace is held by its own
  session). `HealthInv`: while the renew goroutine runs its session is the only
  one that was obtained, and a second is obtained only after it gave up.
  From `ReportInv` follows also how far the violation of `report_dropped` goes
  (`DropsAreLockDelays`): a run that ends well and has stored nothing met the
  lock-delay; that another session holds the key never happens.

* **MongoMember.** `MemberInv` is the type invariant with two parts.
  `PrimaryInv`: only the primary configures, and it never wipes, so that its
  `mongod` serves what is on its disk. Once it has founded a set it never sees
  itself without one, which is why there is no second founding (`OneSet`) and
  no loss (`PrimaryKeepsItsSet`). `HeldInv` looks at the disks, at what the
  processes serve, because a process may write back what was wiped below it,
  and at the configurations that were read to be written back: any two configurations of one set and version agree, versions above `Jump` name
  the members of the specification, and sets are numbered as they were founded.
  `MembersKeep` needs two parts more. `FilesInv`: files that differ from what
  their `mongod` serves are gone. `WipeInv`: a member that is about to wipe has
  a set that was not asked for, whatever heartbeats reached it since it looked.
  So a specification drawn from an existing set wipes no member of that set;
  what `wiped_again` shows needs a specification drawn from fresh nodes.
* **MongoPrestart.** `PrestartInv` has six parts besides the types. `ProcsInv`:
  one `mongod` holds the data, and none is asked to end before the shutdown.
  `AloneInv`, on which `NothingLeftRunning` rests: as long as nothing has
  failed no `mongod` lives but the attempt's own, so that command, signal, timer
  and exit are about the same one.
  `MemInv`: what it serves is what the files hold. `ChargeInv`, on which
  `OneFailureKeepsData` rests: over sound data each failed attempt was charged a
  failure of its own, although an attempt may talk to the `mongod` of an earlier
  one, so that the third attempt, which wipes, comes after two. `ReportInv`
  carries what was read to the report, and `StartedInv` counts the processes.
* **KafkaMember.** `KafkaInv` has four parts besides the types and `FiringInv`.
  `EntryInv`: a goroutine that is inside an entry action tells the state of the
  machine. `ServerInv`: what is known of Kafka and of the monitor's channel in
  each state; a channel that is missing though Kafka was started is about to be
  made by the one goroutine that executes, so that nobody closes it
  (`NoPanicOnceStarted`). `OnceInv` and `DueInv`: each trigger is fired once in
  the life of a process, and is under way only in the states that `Due` lists.
  All of these handle it, which is `TriggersAreHandled`, although exit and
  interrupt race the steps of a start. As `start` and `startServer` wait only
  alone, no more than two triggers are ever in the queue.

Every invariant, action property and refinement that a passing run checks is also
proved. Only model-checked are the liveness properties (`QueuedIsExecuted`,
`PublishesOrGivesUp`, `ReaderCatchesUp`, `PrestartEnds`,
`ConfigurationConverges`, `KafkaExitEndsTask`, `InterruptEndsTask`,
`HealthCatchesUp`, `NamedMemberStarts`, `CollectEnds`), which rest on fairness
and are beyond the prover.

## What the violated runs show

* `short_list`: `rs.candidates` is assigned only when the argument is *not* a
  list of candidates (`replica.go` 96), so it is always empty. A list of fewer
  than three candidates is then cut to length 0, and the mongo controller
  panics on the first of no candidates. The 15-second timer, whose comment
  calls it the worst case, can never deploy anything.
* `report_dropped`: the first result of `Acquire` is dropped (`store.go` 130).
  During the lock-delay after a session ended it is false, and the prestart
  ends well without a report. It is proved that this is the only way.
* `health_key`: `Put` does not send the session (`store.go` 184), so that the
  health of a dead member is not deleted, as the comments say it is.
* `wiped_again`: a specification drawn from fresh nodes has no name of a
  replica set, while a secondary that has meanwhile joined has one. It is told
  that the name differs (`mongo-control.go` 60) and wipes its data, when it
  handles the specification late or for the second time. The primary is spared
  by the test of `isPrimary`, so that the data of the set survive as long as
  the primary's disk does. It is proved that no specification drawn from an
  existing set does this (`SpecifiedSetIsKept`).

What the models also show, and no run is needed for:

* `Fire` is called with a context as its first argument, which makes the
  context the trigger (`replica.go` 174). Monitoring never handles a health
  event (`MemberStatus` in `ReplicaControl`).
* A publication that failed is never repeated: the machine has entered
  *monitoring* before it publishes, and nothing leads back (`replica.go`
  137-140, whose comment at 143 has the machine move there after saving). The
  controller runs on without a saved specification until it is restarted.
  `PublishesOrGivesUp` names that as an end (`GaveUp`).
* The shutdown of the prestart task, as it is deployed, reaches only the
  attempt's own `mongod`. After a failed attempt whose `mongod` still serves,
  `collect` ends well and leaves that one running on the data and the port of
  the member's. `NothingLeftRunning` claims it for that way only where nothing
  has failed.
* The session that a member obtains after a failed renewal is renewed by nobody
  (`store.go` 170-173), and it puts on under the ended one. Nothing follows from
  it, as `Put` does not send the session.
* A storage that cannot be formatted leaves a kafka member in *formatting*: the
  error is dropped (`kafka.go` 162), nothing fires again, and Nomad sees a task
  that runs. `NamedMemberStarts` holds with that exception.
* A broken connection to a Kafka that serves is never dialled again
  (`kafka-control.go` 180, 192), so that health stays wrong until the next
  process. `HealthCatchesUp` holds with that exception.
* A Kafka that cannot be started ends its task by a panic: leaving *starting*
  closes a channel that was not made (`kafka-control.go` 90-98, 141).
* One failed read makes a node report no replica set over data that has one
  (`util/mongo.go` 211-214). `ReportIsTrue` holds with that exception.

## Plan

1. `QueuedFiring`, `ReplicaControl`: the controller, the heart of the system.
   Done.
2. `ConsulWatch`, `ConsulStore`: what the three tasks see of each other. Done.
3. `MongoMember`: the loop of a member with its `mongod`, over exits, wipes,
   failing commands and repeated specifications. Done, for one specification.
4. `MongoPrestart`: `collect` with `Start` and `ShutdownWithTimeout`. Done.
5. `KafkaMember`: the hierarchical state machine on `QueuedFiring` with nested
   fires, the monitor and the process. Done, for one node.
6. `MongoCluster`: controller, watches and members composed, with the data the
   oplog positions stand for. Property: the data of the longest oplog survives
   a deployment, also when a restarted controller draws another primary from
   reports that tie.
7. Proofs: every safety property of the passing runs is proved, and so are the
   refinements of `RunToCompletion`, `LatestValue` and `Deployment`, and what holds
   in place of two violated properties (`DropsAreLockDelays`, `MembersKeep`).
   Left are abstract specifications of the members, and what `MongoCluster` will
   need.

Runs are kept to one for each question; bounds of later modules follow the
pattern of these: two nodes, one crash, one change, one late event.

## Not modelled

* Reading settings, logging, formats of reports and specifications, the
  parsing of the job file: no property depends on them.
* The lengths of the controller's timers: a timer may expire at any time.
* The five-minute timer of `replica.go` 163, which nothing reads, and the
  handlers of 188-259, which nothing calls.
* `cmd/cli`, `replica-conroller.go`'s unused main and `rtest`: demonstrations.
* The Java and JavaScript predecessors, which the Go program replaces.
* Mongo members whose specification changes while they run: see the plan.
* The clean-up of deleted files before a format (`kafkautil`), whose failures
  are only logged.
