--------------------------- MODULE MongoPrestart ---------------------------
(***************************************************************************)
(* The mongo prestart task of one node (internal/replset/mongo.go,         *)
(* collect and getOfflineStatus; internal/util/mongo.go, MongodMgm).       *)
(* Before a node takes part, a mongod is started on its data without       *)
(* replication, the admin user is created where it does not exist, and the *)
(* stored configuration and the oplog are read into a report; then the     *)
(* mongod is shut down.  An attempt that fails is repeated once, and after *)
(* that the data is wiped and a last attempt made.                         *)
(*                                                                         *)
(* An attempt that fails leaves its mongod behind, which keeps the data    *)
(* and the port, so that the commands of the next attempt go to it and not *)
(* to the mongod that was started for them.  The agent can be started      *)
(* again later, on whatever the earlier run has left.                      *)
(***************************************************************************)
EXTENDS Naturals

CONSTANTS
  MaxRuns,      \* bound of the model: starts of the agent
  MaxFailures   \* bound of the model: failures that no state explains

ASSUME PrestartAssumption ==
  /\ MaxRuns \in Nat \ {0}
  /\ MaxFailures \in Nat

VARIABLES
  data,       \* what the dbpath holds
  procs,      \* every mongod that was started
  mem,        \* what the mongod that has opened the data knows of it
  pc,         \* where the prestart task is
  try,        \* its attempt
  started,    \* mongods started so far; the last is the one of the attempt
  report,     \* whether the report names a replica set
  waited,     \* ShutdownWithTimeout has waited for the end of its mongod
  runs,
  failures,
  loopback    \* whether the prestart's mongod is bound to a loopback address

vars ==
  <<data, procs, mem, pc, try, started, report, waited, runs, failures, loopback>>

-----------------------------------------------------------------------------
Proc == 1..(3 * MaxRuns)

(* A replica-set configuration with its oplog, and the admin user. *)
Sound   == [files : {"sound"}, set : BOOLEAN, user : BOOLEAN]
Empty   == [files |-> "sound", set |-> FALSE, user |-> FALSE]
Corrupt == [files |-> "corrupt", set |-> FALSE, user |-> FALSE]
Missing == [files |-> "missing", set |-> FALSE, user |-> FALSE]

Data == Sound \cup {Corrupt, Missing}

In(s) == {p \in Proc : procs[p] \in s}

Alive   == In({"launched", "opening", "serving", "ending"})
Holders == In({"opening", "serving", "ending"})   \* of the lock on the data
Serving == In({"serving"})

Fails ==
  /\ failures < MaxFailures
  /\ failures' = failures + 1

(* A command is not carried out or not answered: a failure, if a mongod is  *)
(* there to answer it.                                                      *)
CommandFails ==
  \/ Serving = {} /\ UNCHANGED failures
  \/ Serving # {} /\ Fails

-----------------------------------------------------------------------------
Init ==
  /\ data \in Data
  /\ procs = [p \in Proc |-> "none"]
  /\ mem = Empty
  /\ pc = "start"
  /\ try = 1
  /\ started = 0
  /\ report = FALSE
  /\ waited = FALSE
  /\ runs = 1
  /\ failures = 0
  /\ loopback \in BOOLEAN

(* The agent is started again, after what was asked to end has ended. *)
Again ==
  /\ pc \in {"done", "failed"}
  /\ runs < MaxRuns
  /\ In({"launched", "ending"}) = {}
  /\ runs' = runs + 1
  /\ pc' = "start"
  /\ try' = 1
  /\ report' = FALSE
  /\ waited' = FALSE
  /\ UNCHANGED <<data, procs, mem, started, failures, loopback>>

(* ---------------------- collect: attempts and wipe --------------------- *)

(* A variant that tries again after the last attempt. *)
AttemptFailsAgain ==
  /\ pc' = "sleep"
  /\ UNCHANGED <<data, procs, mem, try, started, report, waited, runs, loopback>>

(* getOfflineStatus returns an error, and its mongod stays. *)
AttemptFails ==
  /\ pc' = IF try = 3 THEN "failed" ELSE "sleep"
  /\ UNCHANGED <<data, procs, mem, try, started, report, waited, runs, loopback>>

(* Two seconds, in which a mongod finds out whether the data is free. *)
Sleep ==
  /\ pc = "sleep"
  /\ In({"launched"}) = {}
  /\ try' = try + 1
  /\ pc' = IF try = 2 THEN "wipe" ELSE "start"
  /\ UNCHANGED <<data, procs, mem, started, report, waited, runs, failures, loopback>>

(* wipeDB, whose error is only logged: a directory that is missing is one,  *)
(* and a file that a mongod has open another, which ends it half done.      *)
WipeDB ==
  /\ pc = "wipe"
  /\ pc' = "start"
  /\ data' \in IF data = Missing THEN {data}
               ELSE IF Holders = {} THEN {Empty}
               ELSE {data, Corrupt}
  /\ UNCHANGED <<procs, mem, try, started, report, waited, runs, failures, loopback>>

(* --------------------------- getOfflineStatus -------------------------- *)

Start ==
  /\ pc = "start"
  /\ started' = started + 1
  /\ procs' = [procs EXCEPT ![started + 1] = "launched"]
  /\ pc' = "ping"
  /\ UNCHANGED <<data, mem, try, report, waited, runs, failures, loopback>>

StartFails ==
  /\ pc = "start"
  /\ Fails
  /\ AttemptFails

(* Whoever serves the port answers. *)
Ping ==
  /\ pc = "ping"
  /\ Serving # {}
  /\ pc' = "user"
  /\ UNCHANGED <<data, procs, mem, try, started, report, waited, runs, failures, loopback>>

(* A variant that gives up when the mongod of this attempt has exited. *)
PingFailsOwn ==
  /\ pc = "ping"
  /\ \/ procs[started] = "exited" /\ UNCHANGED failures
     \/ Alive # {} /\ Fails
  /\ AttemptFails

(* No mongod is chosen within 15 seconds.  Each time is a failure of its    *)
(* own: a recovery of the data that outlasts the pings of two attempts      *)
(* counts twice, and the wipe after them goes under the recovering mongod.  *)
PingFails ==
  /\ pc = "ping"
  /\ \/ Alive = {} /\ UNCHANGED failures
     \/ Alive # {} /\ Fails
  /\ AttemptFails

HasUser ==
  /\ pc = "user"
  /\ Serving # {}
  /\ pc' = IF mem.user THEN "config" ELSE "create"
  /\ UNCHANGED <<data, procs, mem, try, started, report, waited, runs, failures, loopback>>

HasUserFails ==
  /\ pc = "user"
  /\ CommandFails
  /\ AttemptFails

(* createUser: on the files, if they are still what was opened. *)
UserCreated ==
  /\ mem' = [mem EXCEPT !.user = TRUE]
  /\ data' = IF data.files = "sound" THEN mem' ELSE data

CreateUser ==
  /\ pc = "create"
  /\ Serving # {} /\ ~mem.user
  /\ UserCreated
  /\ pc' = "config"
  /\ UNCHANGED <<procs, try, started, report, waited, runs, failures, loopback>>

(* A variant that goes on. *)
CreateUserDropped ==
  /\ pc = "create"
  /\ CommandFails
  /\ pc' = "config"
  /\ UNCHANGED <<data, procs, mem, try, started, report, waited, runs, loopback>>

CreateUserFails ==
  /\ pc = "create"
  /\ CommandFails
  /\ AttemptFails

(* The user was created, and the answer is lost. *)
CreateUserUnanswered ==
  /\ pc = "create"
  /\ Serving # {} /\ ~mem.user
  /\ Fails
  /\ UserCreated
  /\ pc' = IF try = 3 THEN "failed" ELSE "sleep"
  /\ UNCHANGED <<procs, try, started, report, waited, runs, loopback>>

ReplSetGetConfigOffline ==
  /\ pc = "config"
  /\ Serving # {}
  /\ pc' = IF mem.set THEN "oplog" ELSE "shutdown"
  /\ UNCHANGED <<data, procs, mem, try, started, report, waited, runs, failures, loopback>>

(* Any error is taken for a configuration that does not exist. *)
ReplSetGetConfigFails ==
  /\ pc = "config"
  /\ CommandFails
  /\ pc' = "shutdown"
  /\ UNCHANGED <<data, procs, mem, try, started, report, waited, runs, loopback>>

GetOplogWindow ==
  /\ pc = "oplog"
  /\ Serving # {}
  /\ report' = TRUE
  /\ pc' = "shutdown"
  /\ UNCHANGED <<data, procs, mem, try, started, waited, runs, failures, loopback>>

GetOplogWindowFails ==
  /\ pc = "oplog"
  /\ CommandFails
  /\ AttemptFails

(* ------------------------- ShutdownWithTimeout ------------------------- *)

(* Over a loopback address the shutdown is a command, which goes to whoever *)
(* serves the port; over any other, as start-agent.bat sets it, a signal to *)
(* the attempt's own mongod, since the prestart's has no authentication.    *)

EndsServing ==
  procs' = [p \in Proc |-> IF p \in Serving THEN "ending" ELSE procs[p]]

(* A variant that takes the answer for the end. *)
ShutdownIsEnd ==
  /\ pc = "shutdown"
  /\ loopback /\ Serving # {}
  /\ EndsServing
  /\ waited' = TRUE
  /\ pc' = "done"
  /\ UNCHANGED <<data, mem, try, started, report, runs, failures, loopback>>

(* The command is answered before the mongod that serves ends, or it ends   *)
(* first and the answer is an error, at which the function returns.         *)
ShutdownAnswered ==
  /\ pc = "shutdown"
  /\ loopback /\ Serving # {}
  /\ EndsServing
  /\ pc' = "wait"
  /\ UNCHANGED <<data, mem, try, started, report, waited, runs, failures, loopback>>

ShutdownUnanswered ==
  /\ pc = "shutdown"
  /\ loopback /\ Serving # {}
  /\ EndsServing
  /\ pc' = "done"
  /\ UNCHANGED <<data, mem, try, started, report, waited, runs, failures, loopback>>

ShutdownFails ==
  /\ pc = "shutdown"
  /\ loopback
  /\ CommandFails
  /\ pc' = "done"
  /\ UNCHANGED <<data, procs, mem, try, started, report, waited, runs, loopback>>

(* The interrupt reaches the attempt's own mongod, or it is an error that   *)
(* nobody looks at: the mongod has exited, or the system is Windows, whose  *)
(* processes take no interrupt.                                             *)
ShutdownSignals ==
  /\ pc = "shutdown"
  /\ ~loopback
  /\ \/ UNCHANGED procs
     \/ started \in Holders /\ procs' = [procs EXCEPT ![started] = "ending"]
  /\ pc' = "wait"
  /\ UNCHANGED <<data, mem, try, started, report, waited, runs, failures, loopback>>

(* The exit of the attempt's own mongod is received. *)
ReceiveExit ==
  /\ pc = "wait"
  /\ procs[started] = "exited"
  /\ waited' = TRUE
  /\ pc' = "done"
  /\ UNCHANGED <<data, procs, mem, try, started, report, runs, failures, loopback>>

(* A variant that never kills. *)
NoTimer ==
  /\ pc = "wait"
  /\ procs[started] = "exited"
  /\ UNCHANGED vars

(* After three seconds the attempt's own mongod is killed; the goroutine of *)
(* the timer stays blocked on a channel that nobody reads.                  *)
KillTimer ==
  /\ pc = "wait"
  /\ procs[started] # "exited"
  /\ procs' = [procs EXCEPT ![started] = "exited"]
  /\ UNCHANGED <<data, mem, pc, try, started, report, waited, runs, failures, loopback>>

(* -------------------------------- mongod ------------------------------- *)

Becomes(p, to) == procs' = [procs EXCEPT ![p] = to]

TakeLock(p) ==
  /\ procs[p] = "launched"
  /\ Holders = {} /\ data # Missing
  /\ Becomes(p, "opening")
  /\ UNCHANGED <<data, mem, pc, try, started, report, waited, runs, failures, loopback>>

DataInUse(p) ==
  /\ procs[p] = "launched"
  /\ Holders # {} \/ data = Missing
  /\ Becomes(p, "exited")
  /\ UNCHANGED <<data, mem, pc, try, started, report, waited, runs, failures, loopback>>

Open(p) ==
  /\ procs[p] = "opening"
  /\ IF data = Corrupt
     THEN Becomes(p, "exited") /\ UNCHANGED mem
     ELSE Becomes(p, "serving") /\ mem' = data
  /\ UNCHANGED <<data, pc, try, started, report, waited, runs, failures, loopback>>

Ended(p) ==
  /\ procs[p] = "ending"
  /\ Becomes(p, "exited")
  /\ UNCHANGED <<data, mem, pc, try, started, report, waited, runs, failures, loopback>>

MongodCrashes(p) ==
  /\ procs[p] \in {"opening", "serving"}
  /\ Fails
  /\ Becomes(p, "exited")
  /\ UNCHANGED <<data, mem, pc, try, started, report, waited, runs, loopback>>

-----------------------------------------------------------------------------
Collect ==
  \/ Sleep \/ WipeDB
  \/ Start \/ StartFails
  \/ Ping \/ PingFails
  \/ HasUser \/ HasUserFails
  \/ CreateUser \/ CreateUserFails \/ CreateUserUnanswered
  \/ ReplSetGetConfigOffline \/ ReplSetGetConfigFails
  \/ GetOplogWindow \/ GetOplogWindowFails
  \/ ShutdownAnswered \/ ShutdownUnanswered \/ ShutdownFails \/ ShutdownSignals
  \/ ReceiveExit \/ KillTimer

Mongod(p) == TakeLock(p) \/ DataInUse(p) \/ Open(p)

Next ==
  \/ Again
  \/ Collect
  \/ \E p \in Proc : Mongod(p) \/ Ended(p) \/ MongodCrashes(p)

(* The task runs on, and a mongod comes to serve or exits; one that was     *)
(* asked to end may take any time.                                          *)
Fairness ==
  /\ WF_vars(Collect)
  /\ \A p \in Proc : WF_vars(Mongod(p))

Spec == Init /\ [][Next]_vars /\ Fairness

-----------------------------------------------------------------------------
TypeOK ==
  /\ data \in Data
  /\ procs \in [Proc -> {"none", "launched", "opening", "serving", "ending", "exited"}]
  /\ mem \in Sound
  /\ pc \in {"start", "ping", "user", "create", "config", "oplog", "shutdown", "wait",
             "sleep", "wipe", "done", "failed"}
  /\ try \in 1..3
  /\ started \in 0..(3 * MaxRuns)
  /\ report \in BOOLEAN
  /\ waited \in BOOLEAN
  /\ runs \in 1..MaxRuns
  /\ failures \in 0..MaxFailures
  /\ loopback \in BOOLEAN

(* Sound data is never lost to a single failure: what a failed attempt has  *)
(* left, its mongod or its user, does not make the next attempts fail and   *)
(* the data be wiped (mongo.go 142-159, 199-210).  A mongod that answers    *)
(* neither of two attempts in time is not a single failure.                 *)
OneFailureKeepsData ==
  [][data.files = "sound" /\ failures < 2
       => data'.files = "sound" /\ data'.set = data.set]_vars

(* After a run that ended well the data is fit for the member, and the      *)
(* report says of it what is true; a single failure can at most hide the    *)
(* replica set (mongo.go 199-252).                                          *)
ReportIsTrue ==
  pc = "done" /\ failures < 2 =>
    /\ data.files = "sound"
    /\ data.user
    /\ report => data.set
    /\ failures = 0 => report = data.set

(* Where the shutdown waited for its mongod, and nothing had failed, no     *)
(* mongod is left that keeps the data from the member's.  After a failure   *)
(* an earlier attempt's mongod may have served instead of the attempt's     *)
(* own: the command has asked it to end all the same, whichever of them the *)
(* timer has reached, but the signal does not go to it, and it may stay     *)
(* (util/mongo.go 81-113).                                                  *)
NothingLeftRunning ==
  pc = "done" /\ waited =>
    /\ failures = 0 => Alive = {}
    /\ loopback => In({"launched", "opening", "serving"}) = {}

(* The task ends, also when its mongod does not end when it is asked to or  *)
(* the signal has not reached it (util/mongo.go 98-108).                    *)
CollectEnds == pc = "start" ~> pc \in {"done", "failed"}
=============================================================================
