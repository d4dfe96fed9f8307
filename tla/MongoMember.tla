---------------------------- MODULE MongoMember ----------------------------
(***************************************************************************)
(* The mongo member tasks (internal/replset/mongo.go, memberTask, and      *)
(* mongo-control.go), one on each node of a deployment.  A member starts a *)
(* mongod, takes the specification from its watch, again and again,        *)
(* compares it with the configuration that its mongod has, and then wipes  *)
(* the data, or, on the node that the specification names as primary,      *)
(* initiates the replica set, adds the others or reconfigures it.          *)
(*                                                                         *)
(* Most failures are answered by a panic: the process dies, its mongod     *)
(* with it, and Nomad starts the task again.  mongod is external: what it  *)
(* holds, serves, refuses and takes over from the others is modelled from  *)
(* the commands that util/mongo.go sends to it.                            *)
(***************************************************************************)
EXTENDS Naturals, FiniteSets

CONSTANTS
  Node,         \* the members of the specification
  Primary,      \* the one it names as primary
  Other,        \* nodes that earlier configurations may name
  Off,          \* no mongod runs
  Jump,         \* what mongod adds to the version of a forced configuration
  MaxSets,      \* bound of the model: replica sets initiated
  MaxFailures   \* bound of the model: failures that no state explains

(* Replica sets: none, those of earlier configurations, those initiated.    *)
NoSet == 0
OldSets == {1, 2}
Initiated(k) == 2 + k

ASSUME MemberAssumption ==
  /\ Primary \in Node
  /\ IsFiniteSet(Node)
  /\ Jump \in Nat
  /\ MaxSets \in Nat
  /\ MaxFailures \in Nat

VARIABLES
  specSet,    \* ReplSetId and ReplSetName of the specification
  disk,       \* what each dbpath holds
  mem,        \* what each running mongod serves, Off where none runs
  pc,         \* where each member's goroutine is
  cfg,        \* the configuration its goroutine has read, to write it back
  exited,     \* an OnExit goroutine is sending to exitChan
  created,    \* replica sets initiated so far
  failures

vars == <<specSet, disk, mem, pc, cfg, exited, created, failures>>

-----------------------------------------------------------------------------
SetId == OldSets \cup {Initiated(k) : k \in 1..MaxSets}

(* A configured mongod: its replica set, the version of its configuration,  *)
(* the members that names, and whether the user admin exists.               *)
Configured == [set : SetId, version : Nat, members : (SUBSET (Node \cup Other)) \ {{}},
               user : {TRUE}]

(* One without configuration: fresh with the user that the prestart task    *)
(* creates, or wiped.                                                       *)
Fresh == [set |-> NoSet, version |-> 0, members |-> {}, user |-> TRUE]
Wiped == [Fresh EXCEPT !.user = FALSE]

Data == Configured \cup {Fresh, Wiped}

(* ------------------- what the code finds out --------------------------- *)

(* A variant that also wipes a member with an old configuration of the set. *)
WipeRequiredOld(d) == d.set # NoSet /\ (d.set # specSet \/ d.version = 0)

(* Another replica-set id or name.  The two come and go together: a report  *)
(* without a configuration has neither.                                     *)
WipeRequired(d) == d.set # NoSet /\ d.set # specSet

(* A variant that starts a set also where one is known to exist. *)
StartsAnyhow(d) == d.set = NoSet

HasStaleConfig(d) == d.set = NoSet /\ specSet # NoSet

StartsSet(d) == d.set = NoSet /\ ~HasStaleConfig(d)

(* A variant that only trusts the number of the members that were asked for *)
(* at first.                                                                *)
ReconfNeverNeeded(d) == HasStaleConfig(d)

ReconfNeeded(d) == HasStaleConfig(d) \/ d.members # Node

(* A variant that does not look whose member it is. *)
DecidesAlike(n, d) ==
  CASE WipeRequired(d)   -> "wipe"
    [] StartsSet(d)      -> "initiate"
    [] HasStaleConfig(d) -> "reconfStale"
    [] OTHER             -> "reconf"

(* What the member does about a specification, given its mongod's status. *)
Decides(n, d) ==
  CASE n # Primary /\ WipeRequired(d)                    -> "wipe"
    [] n = Primary /\ StartsSet(d)                       -> "initiate"
    [] n = Primary /\ HasStaleConfig(d)                  -> "reconfStale"
    [] n = Primary /\ d.set # NoSet /\ ReconfNeeded(d)   -> "reconf"
    [] OTHER                                             -> "loop"

-----------------------------------------------------------------------------
(* Members of an earlier set agree on what a version of it says.  Some may  *)
(* be behind, but by less than mongod's jump.                               *)
ConfigsAgreeIn(d) ==
  \A m, n \in Node :
    d[m].set = d[n].set /\ d[m].version = d[n].version => d[m].members = d[n].members

OldData ==
  {Fresh} \cup [set : OldSets, version : 0..Jump, members : (SUBSET (Node \cup Other)) \ {{}},
                user : {TRUE}]

(* The prestart tasks have run.  Where any member reported a replica set,   *)
(* the primary, which has the longest oplog, did; it may have lost it since. *)
Init ==
  /\ disk \in {d \in [Node -> OldData] : ConfigsAgreeIn(d)}
  /\ specSet \in {disk[Primary].set, 1}
  /\ disk[Primary].set \in {NoSet, specSet}
  /\ specSet = NoSet => \A n \in Node : disk[n].set = NoSet
  /\ mem = [n \in Node |-> Off]
  /\ pc = [n \in Node |-> "down"]
  /\ cfg = [n \in Node |-> Off]
  /\ exited = [n \in Node |-> FALSE]
  /\ created = 0
  /\ failures = 0

Goes(n, to) == pc' = [pc EXCEPT ![n] = to]

(* The mongod of n comes to hold d; on disk, unless its files were removed  *)
(* under it.                                                                *)
Serves(n, d) ==
  /\ mem' = [mem EXCEPT ![n] = d]
  /\ disk' = IF disk[n] = mem[n] THEN [disk EXCEPT ![n] = d] ELSE disk

(* The task ends, and Nomad ends what it leaves behind. *)
Panics(n) ==
  /\ Goes(n, "down")
  /\ mem' = [mem EXCEPT ![n] = Off]
  /\ cfg' = [cfg EXCEPT ![n] = Off]
  /\ exited' = [exited EXCEPT ![n] = FALSE]

Fails ==
  /\ failures < MaxFailures
  /\ failures' = failures + 1

(* ------------------------------ mongod --------------------------------- *)

(* mongod dies; a goroutine of Start waits for that and sends it to the     *)
(* loop, once the loop is there to take it.                                 *)
MongodExits(n) ==
  /\ mem[n] # Off
  /\ Fails
  /\ mem' = [mem EXCEPT ![n] = Off]
  /\ exited' = [exited EXCEPT ![n] = TRUE]
  /\ UNCHANGED <<specSet, disk, pc, cfg, created>>

(* A mongod that the configuration of n names, with no or an older          *)
(* configuration of that set, takes over the configuration and the data.    *)
Heartbeat(n, m) ==
  /\ mem[n] # Off /\ mem[m] # Off
  /\ m \in mem[n].members
  /\ \/ mem[m].set = NoSet
     \/ mem[m].set = mem[n].set /\ mem[m].version < mem[n].version
  /\ Serves(m, mem[n])
  /\ UNCHANGED <<specSet, pc, cfg, exited, created, failures>>

(* ------------------------------ memberTask ----------------------------- *)

Start(n) ==
  /\ pc[n] = "down"
  /\ Goes(n, "ping")
  /\ mem' = [mem EXCEPT ![n] = disk[n]]
  /\ UNCHANGED <<specSet, disk, cfg, exited, created, failures>>

(* Is there a mongod, and does it know the user admin? *)
Answers(n) == mem[n] # Off /\ mem[n].user

(* Connect as admin and ping. *)
Ping(n) ==
  /\ pc[n] = "ping"
  /\ Answers(n)
  /\ Goes(n, "loop")
  /\ UNCHANGED <<specSet, disk, mem, cfg, exited, created, failures>>

PingPanics(n) ==
  /\ pc[n] = "ping"
  /\ ~Answers(n)
  /\ Panics(n)
  /\ UNCHANGED <<specSet, disk, created, failures>>

SelectExit(n) ==
  /\ pc[n] = "loop"
  /\ exited[n]
  /\ Panics(n)
  /\ UNCHANGED <<specSet, disk, created, failures>>

(* The watch delivers the specification: at first, and again whenever its   *)
(* query ends without a change.                                             *)
SelectConfig(n) ==
  /\ pc[n] = "loop"
  /\ Goes(n, "status")
  /\ UNCHANGED <<specSet, disk, mem, cfg, exited, created, failures>>

(* replSetGetStatus fails (InvalidReplicaSetConfig) where the configuration *)
(* does not name the node.                                                  *)
IsRemoved(n) == mem[n].set # NoSet /\ n \notin mem[n].members

GetMemberStatus(n) ==
  /\ pc[n] = "status"
  /\ Answers(n) /\ ~IsRemoved(n)
  /\ Goes(n, Decides(n, mem[n]))
  /\ UNCHANGED <<specSet, disk, mem, cfg, exited, created, failures>>

(* The error is logged, and then the status that is nil is read. *)
StatusPanics(n) ==
  /\ pc[n] = "status"
  /\ Answers(n) => IsRemoved(n) /\ n # Primary
  /\ Panics(n)
  /\ UNCHANGED <<specSet, disk, created, failures>>

(* On the primary the configuration that does not name it is replaced. *)
FindsStale(n) ==
  /\ pc[n] = "status"
  /\ n = Primary
  /\ Answers(n) /\ IsRemoved(n)
  /\ Goes(n, "stale")
  /\ UNCHANGED <<specSet, disk, mem, cfg, exited, created, failures>>

(* ------------- reading a configuration and writing it back ------------- *)

WritesNext(at) ==
  CASE at = "stale" -> "recover" [] at = "add" -> "addWrite" [] at = "reconf" -> "reconfWrite"

(* What is read may be outdated when it is written: mongod hears from the   *)
(* others in between.                                                       *)
ReplSetGetConfig(n) ==
  /\ pc[n] \in {"stale", "add", "reconf"}
  /\ Answers(n)
  /\ cfg' = [cfg EXCEPT ![n] = mem[n]]
  /\ Goes(n, WritesNext(pc[n]))
  /\ UNCHANGED <<specSet, disk, mem, exited, created, failures>>

(* A variant without the force. *)
ReconfigUnforced(d) == [d EXCEPT !.members = Node, !.version = @ + 1]

(* ReplSetReconfig: the code adds one to the version, and mongod, as the    *)
(* configuration is forced, its jump.                                       *)
Reconfig(d) == [d EXCEPT !.members = Node, !.version = @ + 1 + Jump]

(* Also a forced configuration must be one of the same set, and newer. *)
Accepts(n) ==
  /\ Answers(n)
  /\ cfg[n].set = mem[n].set
  /\ Reconfig(cfg[n]).version > mem[n].version

Written(n) == cfg' = [cfg EXCEPT ![n] = Off]

(* After the recovery the nil status is read all the same. *)
RecoverStale(n) ==
  /\ pc[n] = "recover"
  /\ Accepts(n)
  /\ disk' = IF disk[n] = mem[n] THEN [disk EXCEPT ![n] = Reconfig(cfg[n])] ELSE disk
  /\ Panics(n)
  /\ UNCHANGED <<specSet, created, failures>>

(* The error of the reading is overwritten, and what was not read used. *)
RecoverPanics(n) ==
  /\ pc[n] = "stale"
  /\ ~Answers(n)
  /\ Panics(n)
  /\ UNCHANGED <<specSet, disk, created, failures>>

(* The reconfiguration fails: the loop goes on. *)
RecoverStaleFails(n) ==
  /\ pc[n] = "recover"
  /\ \/ ~Accepts(n) /\ UNCHANGED failures
     \/ Accepts(n) /\ Fails
  /\ Written(n)
  /\ Goes(n, "loop")
  /\ UNCHANGED <<specSet, disk, mem, exited, created>>

(* ---------------------------- wiping a member -------------------------- *)

(* ShutdownWithTimeout connects without a user, which a mongod that runs    *)
(* with --auth refuses, and returns at once.  Then wipeDB removes what is   *)
(* in the dbpath.                                                           *)
WipeDB(n) ==
  /\ pc[n] = "wipe"
  /\ disk' = [disk EXCEPT ![n] = Wiped]
  /\ Goes(n, "restart")
  /\ UNCHANGED <<specSet, mem, cfg, exited, created, failures>>

(* It stops at a file it cannot remove, with or without those that matter   *)
(* already gone.  What it leaves half removed counts as wiped: the task     *)
(* starts again, and nothing that is said here is about such data.          *)
WipePanics(n) ==
  /\ pc[n] = "wipe"
  /\ disk' \in {disk, [disk EXCEPT ![n] = Wiped]}
  /\ Panics(n)
  /\ UNCHANGED <<specSet, created, failures>>

(* Another mongod is started.  Where one still runs the new one exits.      *)
RestartMongod(n) ==
  /\ pc[n] = "restart"
  /\ Goes(n, "loop")
  /\ IF mem[n] = Off
     THEN mem' = [mem EXCEPT ![n] = disk[n]] /\ UNCHANGED exited
     ELSE exited' = [exited EXCEPT ![n] = TRUE] /\ UNCHANGED mem
  /\ UNCHANGED <<specSet, disk, cfg, created, failures>>

(* ---------------------------- configPrimary ---------------------------- *)

(* A variant that passes an empty list of first members. *)
InitiateEmpty(n) ==
  /\ pc[n] = "initiate"
  /\ Answers(n) /\ mem[n].set = NoSet
  /\ created < MaxSets
  /\ created' = created + 1
  /\ Serves(n, [set |-> Initiated(created'), version |-> 0, members |-> {}, user |-> TRUE])
  /\ Goes(n, IF Node = {n} THEN "loop" ELSE "add")
  /\ UNCHANGED <<specSet, cfg, exited, failures>>

(* ReplSetInitiate with the first member, which is the primary itself. *)
Initiate(n) ==
  /\ pc[n] = "initiate"
  /\ Answers(n) /\ mem[n].set = NoSet
  /\ created < MaxSets
  /\ created' = created + 1
  /\ Serves(n, [set |-> Initiated(created'), version |-> 0, members |-> {n}, user |-> TRUE])
  /\ Goes(n, IF Node = {n} THEN "loop" ELSE "add")
  /\ UNCHANGED <<specSet, cfg, exited, failures>>

(* AddMember, after a while: the others are appended to what was read. *)
AddMember(n) ==
  /\ pc[n] = "addWrite"
  /\ Accepts(n)
  /\ Serves(n, Reconfig(cfg[n]))
  /\ Written(n)
  /\ Goes(n, "loop")
  /\ UNCHANGED <<specSet, exited, created, failures>>

(* Either of them is refused or finds no mongod. *)
InitiatePanics(n) ==
  /\ \/ pc[n] = "initiate" /\ (Answers(n) => mem[n].set # NoSet)
     \/ pc[n] = "add" /\ ~Answers(n)
     \/ pc[n] = "addWrite" /\ ~Accepts(n)
  /\ Panics(n)
  /\ UNCHANGED <<specSet, disk, created, failures>>

ReconfigPrimary(n) ==
  /\ pc[n] = "reconfWrite"
  /\ Accepts(n)
  /\ Serves(n, Reconfig(cfg[n]))
  /\ Written(n)
  /\ Goes(n, "loop")
  /\ UNCHANGED <<specSet, exited, created, failures>>

(* An error is logged, and the next delivery will try again.  A mongod      *)
(* without configuration refuses to be reconfigured, and so does one that   *)
(* has got one since, because the replica-set id is missing in the new one. *)
ReconfigFails(n) ==
  /\ \/ pc[n] = "reconf" /\ ~Answers(n) /\ UNCHANGED failures
     \/ pc[n] = "reconfWrite" /\ ~Accepts(n) /\ UNCHANGED failures
     \/ pc[n] \in {"reconf", "reconfWrite"} /\ Fails
     \/ pc[n] = "reconfStale" /\ UNCHANGED failures
  /\ Written(n)
  /\ Goes(n, "loop")
  /\ UNCHANGED <<specSet, disk, mem, exited, created>>

(* A command fails for no reason that is modelled, or the task is killed,   *)
(* wherever it is.                                                          *)
Crash(n) ==
  /\ pc[n] # "down"
  /\ Fails
  /\ Panics(n)
  /\ UNCHANGED <<specSet, disk, created>>

-----------------------------------------------------------------------------
HandlesConfig(n) ==
  \/ GetMemberStatus(n)
  \/ StatusPanics(n)
  \/ FindsStale(n)
  \/ ReplSetGetConfig(n)
  \/ RecoverStale(n)
  \/ RecoverPanics(n)
  \/ RecoverStaleFails(n)
  \/ WipeDB(n)
  \/ RestartMongod(n)
  \/ Initiate(n)
  \/ AddMember(n)
  \/ InitiatePanics(n)
  \/ ReconfigPrimary(n)
  \/ ReconfigFails(n)

Member(n) ==
  \/ Start(n)
  \/ Ping(n)
  \/ PingPanics(n)
  \/ SelectExit(n)
  \/ SelectConfig(n)
  \/ HandlesConfig(n)
  \/ WipePanics(n)

Next ==
  \/ \E n \in Node : Member(n) \/ MongodExits(n) \/ Crash(n)
  \/ \E m, n \in Node : Heartbeat(n, m)

(* Nomad starts a task that ended; commands are answered in the end; the    *)
(* select takes an exit in the end, however often the watch is ready, too.  *)
Fairness ==
  \A n \in Node :
    /\ WF_vars(Start(n))
    /\ WF_vars(Ping(n) \/ PingPanics(n))
    /\ SF_vars(SelectExit(n))
    /\ WF_vars(SelectConfig(n))
    /\ WF_vars(HandlesConfig(n))

Spec == Init /\ [][Next]_vars /\ Fairness

-----------------------------------------------------------------------------
TypeOK ==
  /\ specSet \in {NoSet} \cup OldSets
  /\ disk \in [Node -> Data]
  /\ mem \in [Node -> Data \cup {Off}]
  /\ pc \in [Node -> {"down", "ping", "loop", "status", "stale", "recover", "wipe",
                      "restart", "initiate", "add", "addWrite", "reconf",
                      "reconfWrite", "reconfStale"}]
  /\ cfg \in [Node -> Configured \cup {Off}]
  /\ exited \in [Node -> BOOLEAN]
  /\ created \in 0..MaxSets
  /\ failures \in 0..MaxFailures

(* Whatever panics, restarts and repeated deliveries come between, the      *)
(* members of a specification found one replica set at most, and none when  *)
(* the specification was drawn from the data of an existing one, even if    *)
(* the primary has lost that (mongo-control.go 110-133).                    *)
OneSet == created <= (IF specSet = NoSet THEN 1 ELSE 0)

(* The node that the specification names as primary, because its data are   *)
(* the newest, never loses its replica set again (mongo.go 352, 377).       *)
PrimaryKeepsItsSet ==
  [][disk[Primary].set # NoSet => disk'[Primary].set = disk[Primary].set]_vars

(* Where the specification was drawn from the data of an existing replica   *)
(* set, no member that has this set loses it again: whatever the member     *)
(* hears from the others between its look at its mongod and the wipe, and   *)
(* also where a mongod still writes below an earlier wipe (mongo.go         *)
(* 352-361, mongo-control.go 51-71).                                        *)
SpecifiedSetIsKept ==
  [][\A n \in Node :
       specSet # NoSet /\ disk[n].set = specSet => disk'[n].set = specSet]_vars

(* Configurations of one replica set never diverge: no two mongods hold the *)
(* same version with different members, although every reconfiguration is   *)
(* forced past the checks of mongod and written after the configuration     *)
(* that it was read from may have been replaced (util/mongo.go 216-225,     *)
(* 235-242, mongo-control.go 160-177).                                      *)
ConfigsAgree == ConfigsAgreeIn(disk)

(* Where a panic between initiating and adding, a failed reconfiguration or *)
(* the recovery of a stale configuration leaves the set incomplete, later   *)
(* deliveries complete it.  A primary that has no longer the data that the  *)
(* specification was drawn from is left waiting for the others.             *)
ConfigurationConverges ==
  \/ <>[](disk[Primary].members = Node)
  \/ <>[](disk[Primary].set = NoSet /\ specSet # NoSet)

-----------------------------------------------------------------------------
(* A wipe is for a member with another replica set ("replset id different", *)
(* "replset name different", mongo-control.go 58-62), once it gets to       *)
(* "fetch new mongoconfig" (mongo.go 320): a member never wipes the set     *)
(* that the primary of its own specification founded.                       *)
WipesOnlyOtherSets ==
  \A n \in Node :
    pc[n] = "wipe" => \A k \in 1..created : disk[n].set # Initiated(k)
=============================================================================
