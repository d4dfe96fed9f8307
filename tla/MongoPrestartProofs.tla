------------------------ MODULE MongoPrestartProofs ------------------------
(***************************************************************************)
(* Proofs about MongoPrestart, for any number of starts of the agent and   *)
(* any number of failures.                                                 *)
(***************************************************************************)
EXTENDS MongoPrestart, TLAPS

-----------------------------------------------------------------------------
Commands == {"user", "create", "config", "oplog"}
Ending   == {"shutdown", "wait", "done"}

(* How many mongods were started, by the attempts so far. *)
StartedInv ==
  /\ pc = "wipe" => try = 3
  /\ pc = "sleep" => try < 3
  /\ started <= 3 * (runs - 1)
                  + (IF pc \in {"start", "wipe"} THEN try - 1 ELSE try)

(* One mongod holds the data; only the last that was started may not know   *)
(* yet whether it is free; none was asked to end before the shutdown.       *)
ProcsInv ==
  /\ \A p, q \in Holders : p = q
  /\ \A p \in Proc : procs[p] = "launched" => p = started
  /\ pc \in {"start", "wipe"} => \A p \in Proc : procs[p] # "launched"
  /\ pc \notin {"wait", "done", "failed"} => \A p \in Proc : procs[p] # "ending"
  /\ pc = "wait" /\ loopback =>
       \A p \in Proc \ {started} : procs[p] \notin {"launched", "opening", "serving"}
  /\ pc = "done" /\ waited /\ loopback => In({"launched", "opening", "serving"}) = {}
  /\ data = Missing => Holders = {}

(* As long as nothing has failed, a mongod that runs is the one of the      *)
(* attempt: the attempts before have found the data unfit, at which theirs  *)
(* has exited, and the shutdowns before have left none that serves.         *)
AloneInv ==
  failures = 0 =>
    /\ \A p \in Alive : p = started
    /\ pc \in {"start", "sleep", "wipe", "failed"} => Alive = {}
    /\ pc = "shutdown" => Serving # {}
    /\ pc = "done" => In({"launched", "opening", "serving"}) = {}
    /\ pc = "done" /\ waited => Alive = {}

(* What a mongod serves is what the files hold, as long as they are sound,  *)
(* and they are, unless two failures have led to a wipe under it.           *)
MemInv ==
  Serving # {} =>
    /\ data.files = "sound" => mem = data
    /\ failures < 2 => data.files = "sound"

(* Over sound data every attempt that failed was charged with a failure of  *)
(* its own, and so is the one under way when it can only fail.              *)
ChargeInv ==
  /\ data.files = "sound" /\ try < 3 =>
       /\ failures >= try - 1
       /\ pc = "ping" /\ Alive = {} => failures >= try
       /\ pc \in Commands /\ Serving = {} => failures >= try
       /\ pc = "sleep" => failures >= try
  /\ data.files = "sound" /\ pc = "wipe" => failures >= 2
  /\ pc \in Commands /\ Serving = {} => failures >= 1

(* What the report is made from, and that nothing is reported or waited for *)
(* before its time.                                                         *)
ReportInv ==
  /\ pc \in Ending \cup {"config", "oplog"} /\ failures < 2 =>
       data.files = "sound" /\ data.user
  /\ pc = "oplog" /\ failures < 2 => data.set
  /\ pc \notin Ending => ~report
  /\ report /\ failures < 2 => data.set
  /\ pc \in Ending /\ failures = 0 => report = data.set
  /\ pc # "done" => ~waited

PrestartInv ==
  /\ TypeOK
  /\ StartedInv
  /\ ProcsInv
  /\ AloneInv
  /\ MemInv
  /\ ChargeInv
  /\ ReportInv

-----------------------------------------------------------------------------
(* A run makes at most three attempts, and an attempt starts one mongod.    *)
LEMMA StartedStep == TypeOK /\ StartedInv /\ [Next]_vars => StartedInv'
<1> SUFFICES ASSUME TypeOK, StartedInv, [Next]_vars PROVE StartedInv'
  OBVIOUS
<1> USE PrestartAssumption DEF TypeOK, StartedInv
<1>1. CASE Again
  BY <1>1 DEF Again
<1>2. CASE Sleep
  BY <1>2 DEF Sleep
<1>3. CASE WipeDB
  BY <1>3 DEF WipeDB
<1>4. CASE Start
  BY <1>4 DEF Start
<1>5. CASE StartFails
  BY <1>5 DEF StartFails, Fails, AttemptFails
<1>6. CASE Ping
  BY <1>6 DEF Ping
<1>7. CASE PingFails
  BY <1>7 DEF PingFails, Fails, AttemptFails
<1>8. CASE HasUser
  BY <1>8 DEF HasUser
<1>9. CASE HasUserFails
  BY <1>9 DEF HasUserFails, CommandFails, Fails, AttemptFails
<1>10. CASE CreateUser
  BY <1>10 DEF CreateUser, UserCreated
<1>11. CASE CreateUserFails
  BY <1>11 DEF CreateUserFails, CommandFails, Fails, AttemptFails
<1>12. CASE CreateUserUnanswered
  BY <1>12 DEF CreateUserUnanswered, UserCreated, Fails
<1>13. CASE ReplSetGetConfigOffline
  BY <1>13 DEF ReplSetGetConfigOffline
<1>14. CASE ReplSetGetConfigFails
  BY <1>14 DEF ReplSetGetConfigFails, CommandFails, Fails
<1>15. CASE GetOplogWindow
  BY <1>15 DEF GetOplogWindow
<1>16. CASE GetOplogWindowFails
  BY <1>16 DEF GetOplogWindowFails, CommandFails, Fails, AttemptFails
<1>17. CASE ShutdownAnswered
  BY <1>17 DEF ShutdownAnswered, EndsServing
<1>18. CASE ShutdownUnanswered
  BY <1>18 DEF ShutdownUnanswered, EndsServing
<1>19. CASE ShutdownFails
  BY <1>19 DEF ShutdownFails, CommandFails, Fails
<1>20. CASE ReceiveExit
  BY <1>20 DEF ReceiveExit
<1>21. CASE KillTimer
  BY <1>21 DEF KillTimer
<1>22. CASE ShutdownSignals
  BY <1>22 DEF ShutdownSignals
<1>23. ASSUME NEW p \in Proc, TakeLock(p) PROVE StartedInv'
  BY <1>23 DEF TakeLock, Becomes
<1>24. ASSUME NEW p \in Proc, DataInUse(p) PROVE StartedInv'
  BY <1>24 DEF DataInUse, Becomes
<1>25. ASSUME NEW p \in Proc, Open(p) PROVE StartedInv'
  BY <1>25 DEF Open, Becomes
<1>26. ASSUME NEW p \in Proc, Ended(p) PROVE StartedInv'
  BY <1>26 DEF Ended, Becomes
<1>27. ASSUME NEW p \in Proc, MongodCrashes(p) PROVE StartedInv'
  BY <1>27 DEF MongodCrashes, Becomes, Fails
<1>28. CASE UNCHANGED vars
  BY <1>28 DEF vars
<1>29. QED
  BY <1>1, <1>2, <1>3, <1>4, <1>5, <1>6, <1>7, <1>8, <1>9, <1>10, <1>11,
     <1>12, <1>13, <1>14, <1>15, <1>16, <1>17, <1>18, <1>19, <1>20, <1>21,
     <1>22, <1>23, <1>24, <1>25, <1>26, <1>27, <1>28
  DEF Next, Collect, Mongod

(* The types are kept: an attempt always finds a number for its mongod, and *)
(* what is opened is sound.                                                 *)
LEMMA TypeStep == TypeOK /\ StartedInv /\ ProcsInv /\ [Next]_vars => TypeOK'
<1> SUFFICES ASSUME TypeOK, StartedInv, ProcsInv, [Next]_vars PROVE TypeOK'
  OBVIOUS
<1> USE PrestartAssumption
    DEF TypeOK, StartedInv, ProcsInv, In, Holders, Proc, Data, Sound, Empty,
        Corrupt, Missing
<1>1. CASE Again
  <2>1. runs' \in 1..MaxRuns
    BY <1>1 DEF Again
  <2>2. report' \in BOOLEAN /\ waited' \in BOOLEAN
    BY <1>1, Zenon DEF Again
  <2>3. pc' = "start" /\ try' = 1 /\ UNCHANGED <<data, procs, mem, started, failures, loopback>>
    BY <1>1 DEF Again
  <2>4. QED
    BY <2>1, <2>2, <2>3
<1>2. CASE Sleep
  BY <1>2 DEF Sleep
<1>3. CASE WipeDB
  <2>1. data' \in {data, Empty, Corrupt}
    BY <1>3 DEF WipeDB
  <2>2. Empty \in Data /\ Corrupt \in Data
    OBVIOUS
  <2>3. data' \in Data
    BY <2>1, <2>2
  <2>4. QED
    BY <1>3, <2>3 DEF WipeDB
<1>4. CASE Start
  BY <1>4 DEF Start
<1>5. CASE StartFails
  BY <1>5 DEF StartFails, Fails, AttemptFails
<1>6. CASE Ping
  BY <1>6 DEF Ping
<1>7. CASE PingFails
  BY <1>7 DEF PingFails, Fails, AttemptFails
<1>8. CASE HasUser
  BY <1>8 DEF HasUser
<1>9. CASE HasUserFails
  BY <1>9 DEF HasUserFails, CommandFails, Fails, AttemptFails
<1>10. CASE CreateUser
  BY <1>10 DEF CreateUser, UserCreated
<1>11. CASE CreateUserFails
  BY <1>11 DEF CreateUserFails, CommandFails, Fails, AttemptFails
<1>12. CASE CreateUserUnanswered
  <2>1. mem' \in Sound /\ data' \in Data
    BY <1>12 DEF CreateUserUnanswered, UserCreated
  <2>2. failures' \in 0..MaxFailures
    BY <1>12 DEF CreateUserUnanswered, Fails
  <2>3. QED
    BY <1>12, <2>1, <2>2 DEF CreateUserUnanswered
<1>13. CASE ReplSetGetConfigOffline
  BY <1>13 DEF ReplSetGetConfigOffline
<1>14. CASE ReplSetGetConfigFails
  BY <1>14 DEF ReplSetGetConfigFails, CommandFails, Fails
<1>15. CASE GetOplogWindow
  BY <1>15 DEF GetOplogWindow
<1>16. CASE GetOplogWindowFails
  BY <1>16 DEF GetOplogWindowFails, CommandFails, Fails, AttemptFails
<1>17. CASE ShutdownAnswered
  BY <1>17 DEF ShutdownAnswered, EndsServing
<1>18. CASE ShutdownUnanswered
  BY <1>18 DEF ShutdownUnanswered, EndsServing
<1>19. CASE ShutdownFails
  BY <1>19 DEF ShutdownFails, CommandFails, Fails
<1>20. CASE ReceiveExit
  BY <1>20 DEF ReceiveExit
<1>21. CASE KillTimer
  BY <1>21 DEF KillTimer
<1>22. CASE ShutdownSignals
  BY <1>22 DEF ShutdownSignals
<1>23. ASSUME NEW p \in Proc, TakeLock(p) PROVE TypeOK'
  BY <1>23 DEF TakeLock, Becomes
<1>24. ASSUME NEW p \in Proc, DataInUse(p) PROVE TypeOK'
  BY <1>24 DEF DataInUse, Becomes
<1>25. ASSUME NEW p \in Proc, Open(p) PROVE TypeOK'
  BY <1>25 DEF Open, Becomes
<1>26. ASSUME NEW p \in Proc, Ended(p) PROVE TypeOK'
  BY <1>26 DEF Ended, Becomes
<1>27. ASSUME NEW p \in Proc, MongodCrashes(p) PROVE TypeOK'
  BY <1>27 DEF MongodCrashes, Becomes, Fails
<1>28. CASE UNCHANGED vars
  BY <1>28 DEF vars
<1>29. QED
  BY <1>1, <1>2, <1>3, <1>4, <1>5, <1>6, <1>7, <1>8, <1>9, <1>10, <1>11,
     <1>12, <1>13, <1>14, <1>15, <1>16, <1>17, <1>18, <1>19, <1>20, <1>21,
     <1>22, <1>23, <1>24, <1>25, <1>26, <1>27, <1>28
  DEF Next, Collect, Mongod

(* A mongod gets the lock only when nobody holds it, and its attempt goes   *)
(* on only when it knows; a shutdown ends the one that serves or kills its  *)
(* own.                                                                     *)
LEMMA ProcsStep == TypeOK /\ ProcsInv /\ ReportInv /\ [Next]_vars => ProcsInv'
<1> SUFFICES ASSUME TypeOK, ProcsInv, ReportInv, [Next]_vars PROVE ProcsInv'
  OBVIOUS
<1> USE PrestartAssumption
    DEF TypeOK, ProcsInv, ReportInv, In, Holders,
        Serving, Proc, Data, Sound, Empty, Corrupt, Missing
<1>1. CASE Again
  BY <1>1 DEF Again
<1>2. CASE Sleep
  BY <1>2 DEF Sleep
<1>3. CASE WipeDB
  BY <1>3 DEF WipeDB
<1>4. CASE Start
  BY <1>4 DEF Start
<1>5. CASE StartFails
  BY <1>5 DEF StartFails, Fails, AttemptFails
<1>6. CASE Ping
  BY <1>6 DEF Ping
<1>7. CASE PingFails
  BY <1>7 DEF PingFails, Fails, AttemptFails
<1>8. CASE HasUser
  BY <1>8 DEF HasUser
<1>9. CASE HasUserFails
  BY <1>9 DEF HasUserFails, CommandFails, Fails, AttemptFails
<1>10. CASE CreateUser
  BY <1>10 DEF CreateUser, UserCreated
<1>11. CASE CreateUserFails
  BY <1>11 DEF CreateUserFails, CommandFails, Fails, AttemptFails
<1>12. CASE CreateUserUnanswered
  BY <1>12 DEF CreateUserUnanswered, UserCreated, Fails
<1>13. CASE ReplSetGetConfigOffline
  BY <1>13 DEF ReplSetGetConfigOffline
<1>14. CASE ReplSetGetConfigFails
  BY <1>14 DEF ReplSetGetConfigFails, CommandFails, Fails
<1>15. CASE GetOplogWindow
  BY <1>15 DEF GetOplogWindow
<1>16. CASE GetOplogWindowFails
  BY <1>16 DEF GetOplogWindowFails, CommandFails, Fails, AttemptFails
<1>17. CASE ShutdownAnswered
  BY <1>17 DEF ShutdownAnswered, EndsServing
<1>18. CASE ShutdownUnanswered
  BY <1>18 DEF ShutdownUnanswered, EndsServing
<1>19. CASE ShutdownFails
  BY <1>19 DEF ShutdownFails, CommandFails, Fails
<1>20. CASE ReceiveExit
  BY <1>20 DEF ReceiveExit
<1>21. CASE KillTimer
  BY <1>21 DEF KillTimer
<1>22. CASE ShutdownSignals
  BY <1>22 DEF ShutdownSignals
<1>23. ASSUME NEW p \in Proc, TakeLock(p) PROVE ProcsInv'
  BY <1>23 DEF TakeLock, Becomes
<1>24. ASSUME NEW p \in Proc, DataInUse(p) PROVE ProcsInv'
  BY <1>24 DEF DataInUse, Becomes
<1>25. ASSUME NEW p \in Proc, Open(p) PROVE ProcsInv'
  BY <1>25 DEF Open, Becomes
<1>26. ASSUME NEW p \in Proc, Ended(p) PROVE ProcsInv'
  BY <1>26 DEF Ended, Becomes
<1>27. ASSUME NEW p \in Proc, MongodCrashes(p) PROVE ProcsInv'
  BY <1>27 DEF MongodCrashes, Becomes, Fails
<1>28. CASE UNCHANGED vars
  BY <1>28 DEF vars
<1>29. QED
  BY <1>1, <1>2, <1>3, <1>4, <1>5, <1>6, <1>7, <1>8, <1>9, <1>10, <1>11,
     <1>12, <1>13, <1>14, <1>15, <1>16, <1>17, <1>18, <1>19, <1>20, <1>21,
     <1>22, <1>23, <1>24, <1>25, <1>26, <1>27, <1>28
  DEF Next, Collect, Mongod

(* An attempt fails without a failure only when no mongod runs, and the     *)
(* shutdown then ends, or waits for, the only one there is.                 *)
LEMMA AloneStep ==
  TypeOK /\ ProcsInv /\ AloneInv /\ ChargeInv /\ ReportInv /\ [Next]_vars
    => AloneInv'
<1> SUFFICES ASSUME TypeOK, ProcsInv, AloneInv, ChargeInv, ReportInv, [Next]_vars
             PROVE  AloneInv'
  OBVIOUS
<1> USE PrestartAssumption
    DEF TypeOK, ProcsInv, AloneInv, ChargeInv, ReportInv, Commands, In, Alive,
        Holders, Serving, Proc
<1>1. CASE Again
  BY <1>1 DEF Again
<1>2. CASE Sleep
  BY <1>2 DEF Sleep
<1>3. CASE WipeDB
  BY <1>3 DEF WipeDB
<1>4. CASE Start
  BY <1>4 DEF Start
<1>5. CASE StartFails
  BY <1>5 DEF StartFails, Fails, AttemptFails
<1>6. CASE Ping
  BY <1>6 DEF Ping
<1>7. CASE PingFails
  BY <1>7 DEF PingFails, Fails, AttemptFails
<1>8. CASE HasUser
  BY <1>8 DEF HasUser
<1>9. CASE HasUserFails
  BY <1>9 DEF HasUserFails, CommandFails, Fails, AttemptFails
<1>10. CASE CreateUser
  BY <1>10 DEF CreateUser, UserCreated
<1>11. CASE CreateUserFails
  BY <1>11 DEF CreateUserFails, CommandFails, Fails, AttemptFails
<1>12. CASE CreateUserUnanswered
  BY <1>12 DEF CreateUserUnanswered, UserCreated, Fails
<1>13. CASE ReplSetGetConfigOffline
  BY <1>13 DEF ReplSetGetConfigOffline
<1>14. CASE ReplSetGetConfigFails
  BY <1>14 DEF ReplSetGetConfigFails, CommandFails, Fails
<1>15. CASE GetOplogWindow
  BY <1>15 DEF GetOplogWindow
<1>16. CASE GetOplogWindowFails
  BY <1>16 DEF GetOplogWindowFails, CommandFails, Fails, AttemptFails
<1>17. CASE ShutdownAnswered
  BY <1>17 DEF ShutdownAnswered, EndsServing
<1>18. CASE ShutdownUnanswered
  BY <1>18 DEF ShutdownUnanswered, EndsServing
<1>19. CASE ShutdownFails
  BY <1>19 DEF ShutdownFails, CommandFails, Fails
<1>20. CASE ReceiveExit
  BY <1>20 DEF ReceiveExit
<1>21. CASE KillTimer
  BY <1>21 DEF KillTimer
<1>22. CASE ShutdownSignals
  BY <1>22 DEF ShutdownSignals
<1>23. ASSUME NEW p \in Proc, TakeLock(p) PROVE AloneInv'
  BY <1>23 DEF TakeLock, Becomes
<1>24. ASSUME NEW p \in Proc, DataInUse(p) PROVE AloneInv'
  BY <1>24 DEF DataInUse, Becomes
<1>25. ASSUME NEW p \in Proc, Open(p) PROVE AloneInv'
  BY <1>25 DEF Open, Becomes
<1>26. ASSUME NEW p \in Proc, Ended(p) PROVE AloneInv'
  BY <1>26 DEF Ended, Becomes
<1>27. ASSUME NEW p \in Proc, MongodCrashes(p) PROVE AloneInv'
  BY <1>27 DEF MongodCrashes, Becomes, Fails
<1>28. CASE UNCHANGED vars
  BY <1>28 DEF vars
<1>29. QED
  BY <1>1, <1>2, <1>3, <1>4, <1>5, <1>6, <1>7, <1>8, <1>9, <1>10, <1>11,
     <1>12, <1>13, <1>14, <1>15, <1>16, <1>17, <1>18, <1>19, <1>20, <1>21,
     <1>22, <1>23, <1>24, <1>25, <1>26, <1>27, <1>28
  DEF Next, Collect, Mongod

(* What is written through a mongod goes to the files it has opened, and    *)
(* those go only with the wipe after two failures.                          *)
LEMMA MemStep ==
  TypeOK /\ ProcsInv /\ MemInv /\ ChargeInv /\ [Next]_vars
    => MemInv'
<1> SUFFICES ASSUME TypeOK, ProcsInv, MemInv, ChargeInv, [Next]_vars
             PROVE  MemInv'
  OBVIOUS
<1> USE PrestartAssumption
    DEF TypeOK, ProcsInv, MemInv, ChargeInv, Alive, In, Holders, Serving,
        Proc, Data, Sound, Empty, Corrupt, Missing, Commands
<1>1. CASE Again
  BY <1>1 DEF Again
<1>2. CASE Sleep
  BY <1>2 DEF Sleep
<1>3. CASE WipeDB
  BY <1>3 DEF WipeDB
<1>4. CASE Start
  BY <1>4 DEF Start
<1>5. CASE StartFails
  BY <1>5 DEF StartFails, Fails, AttemptFails
<1>6. CASE Ping
  BY <1>6 DEF Ping
<1>7. CASE PingFails
  BY <1>7 DEF PingFails, Fails, AttemptFails
<1>8. CASE HasUser
  BY <1>8 DEF HasUser
<1>9. CASE HasUserFails
  BY <1>9 DEF HasUserFails, CommandFails, Fails, AttemptFails
<1>10. CASE CreateUser
  BY <1>10 DEF CreateUser, UserCreated
<1>11. CASE CreateUserFails
  BY <1>11 DEF CreateUserFails, CommandFails, Fails, AttemptFails
<1>12. CASE CreateUserUnanswered
  BY <1>12 DEF CreateUserUnanswered, UserCreated, Fails
<1>13. CASE ReplSetGetConfigOffline
  BY <1>13 DEF ReplSetGetConfigOffline
<1>14. CASE ReplSetGetConfigFails
  BY <1>14 DEF ReplSetGetConfigFails, CommandFails, Fails
<1>15. CASE GetOplogWindow
  BY <1>15 DEF GetOplogWindow
<1>16. CASE GetOplogWindowFails
  BY <1>16 DEF GetOplogWindowFails, CommandFails, Fails, AttemptFails
<1>17. CASE ShutdownAnswered
  BY <1>17 DEF ShutdownAnswered, EndsServing
<1>18. CASE ShutdownUnanswered
  BY <1>18 DEF ShutdownUnanswered, EndsServing
<1>19. CASE ShutdownFails
  BY <1>19 DEF ShutdownFails, CommandFails, Fails
<1>20. CASE ReceiveExit
  BY <1>20 DEF ReceiveExit
<1>21. CASE KillTimer
  BY <1>21 DEF KillTimer
<1>22. CASE ShutdownSignals
  BY <1>22 DEF ShutdownSignals
<1>23. ASSUME NEW p \in Proc, TakeLock(p) PROVE MemInv'
  BY <1>23 DEF TakeLock, Becomes
<1>24. ASSUME NEW p \in Proc, DataInUse(p) PROVE MemInv'
  BY <1>24 DEF DataInUse, Becomes
<1>25. ASSUME NEW p \in Proc, Open(p) PROVE MemInv'
  BY <1>25 DEF Open, Becomes
<1>26. ASSUME NEW p \in Proc, Ended(p) PROVE MemInv'
  BY <1>26 DEF Ended, Becomes
<1>27. ASSUME NEW p \in Proc, MongodCrashes(p) PROVE MemInv'
  BY <1>27 DEF MongodCrashes, Becomes, Fails
<1>28. CASE UNCHANGED vars
  BY <1>28 DEF vars
<1>29. QED
  BY <1>1, <1>2, <1>3, <1>4, <1>5, <1>6, <1>7, <1>8, <1>9, <1>10, <1>11,
     <1>12, <1>13, <1>14, <1>15, <1>16, <1>17, <1>18, <1>19, <1>20, <1>21,
     <1>22, <1>23, <1>24, <1>25, <1>26, <1>27, <1>28
  DEF Next, Collect, Mongod

(* Over sound data an attempt fails by a failure that it or its mongod      *)
(* suffers: what the attempt before left behind serves in its place.        *)
LEMMA ChargeStep ==
  TypeOK /\ StartedInv /\ ProcsInv /\ MemInv /\ ChargeInv /\ [Next]_vars
    => ChargeInv'
<1> SUFFICES ASSUME TypeOK, StartedInv, ProcsInv, MemInv, ChargeInv, [Next]_vars
             PROVE  ChargeInv'
  OBVIOUS
<1> USE PrestartAssumption
    DEF TypeOK, StartedInv, ProcsInv, MemInv, ChargeInv, In, Alive, Holders,
        Serving, Proc, Data, Sound, Empty, Corrupt, Missing, Commands
<1>1. CASE Again
  BY <1>1 DEF Again
<1>2. CASE Sleep
  BY <1>2 DEF Sleep
<1>3. CASE WipeDB
  BY <1>3 DEF WipeDB
<1>4. CASE Start
  BY <1>4 DEF Start
<1>5. CASE StartFails
  BY <1>5 DEF StartFails, Fails, AttemptFails
<1>6. CASE Ping
  BY <1>6 DEF Ping
<1>7. CASE PingFails
  BY <1>7 DEF PingFails, Fails, AttemptFails
<1>8. CASE HasUser
  BY <1>8 DEF HasUser
<1>9. CASE HasUserFails
  BY <1>9 DEF HasUserFails, CommandFails, Fails, AttemptFails
<1>10. CASE CreateUser
  BY <1>10 DEF CreateUser, UserCreated
<1>11. CASE CreateUserFails
  BY <1>11 DEF CreateUserFails, CommandFails, Fails, AttemptFails
<1>12. CASE CreateUserUnanswered
  BY <1>12 DEF CreateUserUnanswered, UserCreated, Fails
<1>13. CASE ReplSetGetConfigOffline
  BY <1>13 DEF ReplSetGetConfigOffline
<1>14. CASE ReplSetGetConfigFails
  BY <1>14 DEF ReplSetGetConfigFails, CommandFails, Fails
<1>15. CASE GetOplogWindow
  BY <1>15 DEF GetOplogWindow
<1>16. CASE GetOplogWindowFails
  BY <1>16 DEF GetOplogWindowFails, CommandFails, Fails, AttemptFails
<1>17. CASE ShutdownAnswered
  BY <1>17 DEF ShutdownAnswered, EndsServing
<1>18. CASE ShutdownUnanswered
  BY <1>18 DEF ShutdownUnanswered, EndsServing
<1>19. CASE ShutdownFails
  BY <1>19 DEF ShutdownFails, CommandFails, Fails
<1>20. CASE ReceiveExit
  BY <1>20 DEF ReceiveExit
<1>21. CASE KillTimer
  BY <1>21 DEF KillTimer
<1>22. CASE ShutdownSignals
  BY <1>22 DEF ShutdownSignals
<1>23. ASSUME NEW p \in Proc, TakeLock(p) PROVE ChargeInv'
  BY <1>23 DEF TakeLock, Becomes
<1>24. ASSUME NEW p \in Proc, DataInUse(p) PROVE ChargeInv'
  BY <1>24 DEF DataInUse, Becomes
<1>25. ASSUME NEW p \in Proc, Open(p) PROVE ChargeInv'
  BY <1>25 DEF Open, Becomes
<1>26. ASSUME NEW p \in Proc, Ended(p) PROVE ChargeInv'
  BY <1>26 DEF Ended, Becomes
<1>27. ASSUME NEW p \in Proc, MongodCrashes(p) PROVE ChargeInv'
  BY <1>27 DEF MongodCrashes, Becomes, Fails
<1>28. CASE UNCHANGED vars
  BY <1>28 DEF vars
<1>29. QED
  BY <1>1, <1>2, <1>3, <1>4, <1>5, <1>6, <1>7, <1>8, <1>9, <1>10, <1>11,
     <1>12, <1>13, <1>14, <1>15, <1>16, <1>17, <1>18, <1>19, <1>20, <1>21,
     <1>22, <1>23, <1>24, <1>25, <1>26, <1>27, <1>28
  DEF Next, Collect, Mongod

(* A report is made from what the mongod serves, and nothing changes that   *)
(* any more before the end.                                                 *)
LEMMA ReportStep ==
  TypeOK /\ MemInv /\ ChargeInv /\ ReportInv /\ [Next]_vars
    => ReportInv'
<1> SUFFICES ASSUME TypeOK, MemInv, ChargeInv, ReportInv, [Next]_vars
             PROVE  ReportInv'
  OBVIOUS
<1> USE PrestartAssumption
    DEF TypeOK, MemInv, ChargeInv, ReportInv, In, Serving, Data, Sound,
        Empty, Corrupt, Missing, Commands, Ending
<1>1. CASE Again
  BY <1>1 DEF Again
<1>2. CASE Sleep
  BY <1>2 DEF Sleep
<1>3. CASE WipeDB
  BY <1>3 DEF WipeDB
<1>4. CASE Start
  BY <1>4 DEF Start
<1>5. CASE StartFails
  BY <1>5 DEF StartFails, Fails, AttemptFails
<1>6. CASE Ping
  BY <1>6 DEF Ping
<1>7. CASE PingFails
  BY <1>7 DEF PingFails, Fails, AttemptFails
<1>8. CASE HasUser
  BY <1>8 DEF HasUser
<1>9. CASE HasUserFails
  BY <1>9 DEF HasUserFails, CommandFails, Fails, AttemptFails
<1>10. CASE CreateUser
  BY <1>10 DEF CreateUser, UserCreated
<1>11. CASE CreateUserFails
  BY <1>11 DEF CreateUserFails, CommandFails, Fails, AttemptFails
<1>12. CASE CreateUserUnanswered
  BY <1>12 DEF CreateUserUnanswered, UserCreated, Fails
<1>13. CASE ReplSetGetConfigOffline
  BY <1>13 DEF ReplSetGetConfigOffline
<1>14. CASE ReplSetGetConfigFails
  BY <1>14 DEF ReplSetGetConfigFails, CommandFails, Fails
<1>15. CASE GetOplogWindow
  <2>1. failures < 2 => data.set = TRUE
    BY <1>15 DEF GetOplogWindow
  <2>2. report' = TRUE /\ pc' = "shutdown" /\ UNCHANGED <<data, mem, waited, failures>>
    BY <1>15 DEF GetOplogWindow
  <2>3. pc = "oplog"
    BY <1>15 DEF GetOplogWindow
  <2>4. failures = 0 => data.set = TRUE
    BY <2>1
  <2>5. failures = 0 => report' = data.set
    BY <2>2, <2>4, Zenon
  <2>6. QED
    BY <2>1, <2>2, <2>3, <2>5
<1>16. CASE GetOplogWindowFails
  BY <1>16 DEF GetOplogWindowFails, CommandFails, Fails, AttemptFails
<1>17. CASE ShutdownAnswered
  BY <1>17 DEF ShutdownAnswered, EndsServing
<1>18. CASE ShutdownUnanswered
  BY <1>18 DEF ShutdownUnanswered, EndsServing
<1>19. CASE ShutdownFails
  BY <1>19 DEF ShutdownFails, CommandFails, Fails
<1>20. CASE ReceiveExit
  BY <1>20 DEF ReceiveExit
<1>21. CASE KillTimer
  BY <1>21 DEF KillTimer
<1>22. CASE ShutdownSignals
  BY <1>22 DEF ShutdownSignals
<1>23. ASSUME NEW p \in Proc, TakeLock(p) PROVE ReportInv'
  BY <1>23 DEF TakeLock, Becomes
<1>24. ASSUME NEW p \in Proc, DataInUse(p) PROVE ReportInv'
  BY <1>24 DEF DataInUse, Becomes
<1>25. ASSUME NEW p \in Proc, Open(p) PROVE ReportInv'
  BY <1>25 DEF Open, Becomes
<1>26. ASSUME NEW p \in Proc, Ended(p) PROVE ReportInv'
  BY <1>26 DEF Ended, Becomes
<1>27. ASSUME NEW p \in Proc, MongodCrashes(p) PROVE ReportInv'
  BY <1>27 DEF MongodCrashes, Becomes, Fails
<1>28. CASE UNCHANGED vars
  BY <1>28 DEF vars
<1>29. QED
  BY <1>1, <1>2, <1>3, <1>4, <1>5, <1>6, <1>7, <1>8, <1>9, <1>10, <1>11,
     <1>12, <1>13, <1>14, <1>15, <1>16, <1>17, <1>18, <1>19, <1>20, <1>21,
     <1>22, <1>23, <1>24, <1>25, <1>26, <1>27, <1>28
  DEF Next, Collect, Mongod

(* The task starts with any data and no mongod.                             *)
LEMMA PrestartInit == Init => PrestartInv
<1> SUFFICES ASSUME Init PROVE PrestartInv
  OBVIOUS
<1> USE PrestartAssumption DEF Init
<1>1. TypeOK
  <2>1. mem \in Sound /\ data \in Data
    BY DEF Sound, Empty
  <2>2. report \in BOOLEAN /\ waited \in BOOLEAN
    BY Zenon
  <2>3. /\ started \in 0..(3 * MaxRuns) /\ runs \in 1..MaxRuns
        /\ failures \in 0..MaxFailures /\ try \in 1..3
    OBVIOUS
  <2>4. QED
    BY <2>1, <2>2, <2>3 DEF TypeOK
<1>2. StartedInv
  BY DEF StartedInv
<1>3. \A s : "none" \notin s => In(s) = {}
  BY DEF In
<1>4. Holders = {} /\ Serving = {} /\ Alive = {}
  BY <1>3 DEF Holders, Serving, Alive
<1>5. ProcsInv
  BY <1>4 DEF ProcsInv
<1>6. AloneInv /\ MemInv /\ ChargeInv /\ ReportInv
  BY <1>4 DEF AloneInv, MemInv, ChargeInv, ReportInv, Commands, Ending
<1>7. QED
  BY <1>1, <1>2, <1>5, <1>6 DEF PrestartInv

(* What is proved inductive. *)
LEMMA PrestartInvariant == Spec => []PrestartInv
<1>1. PrestartInv /\ [Next]_vars => PrestartInv'
  BY StartedStep, TypeStep, ProcsStep, AloneStep, MemStep, ChargeStep, ReportStep
  DEF PrestartInv
<1>2. QED
  BY PrestartInit, <1>1, PTL DEF Spec

-----------------------------------------------------------------------------
(* Every variable has its type; in particular at most three mongods are     *)
(* started in a run.                                                        *)
THEOREM TypeCorrect == Spec => []TypeOK
<1>1. PrestartInv => TypeOK
  BY DEF PrestartInv
<1>2. QED
  BY PrestartInvariant, <1>1, PTL

(* Where the shutdown waited for its mongod, none is left if nothing has    *)
(* failed, and over a loopback address none that was not asked to end,      *)
(* whatever has failed.                                                     *)
THEOREM ShutdownIsClean == Spec => []NothingLeftRunning
<1>1. PrestartInv => NothingLeftRunning
  BY DEF PrestartInv, TypeOK, ProcsInv, AloneInv, NothingLeftRunning
<1>2. QED
  BY PrestartInvariant, <1>1, PTL

(* After a run that ended well, with at most one failure, the data is fit   *)
(* for the member and the report says of it nothing that is false.          *)
THEOREM ReportsAreTrue == Spec => []ReportIsTrue
<1>1. PrestartInv => ReportIsTrue
  BY DEF PrestartInv, ReportInv, ReportIsTrue, Ending
<1>2. QED
  BY PrestartInvariant, <1>1, PTL

(* Sound data survives any single failure. *)
THEOREM DataSurvives == Spec => OneFailureKeepsData
<1> DEFINE Kept == data.files = "sound" /\ failures < 2
                     => data'.files = "sound" /\ data'.set = data.set
<1>1. ASSUME PrestartInv, [Next]_vars PROVE Kept
  <2> USE <1>1 DEF PrestartInv
  <2>1. CASE WipeDB
    BY <2>1 DEF WipeDB, ChargeInv, TypeOK
  <2>2. CASE CreateUser \/ CreateUserUnanswered
    <3>1. Serving # {} /\ UserCreated
      BY <2>2 DEF CreateUser, CreateUserUnanswered
    <3>2. data.files = "sound" => data' = [data EXCEPT !.user = TRUE]
      BY <3>1 DEF UserCreated, MemInv
    <3>3. QED
      BY <3>2 DEF TypeOK, Data, Sound, Corrupt, Missing
  <2>3. CASE UNCHANGED data
    BY <2>3
  <2>4. QED
    BY <1>1, <2>1, <2>2, <2>3
    DEF Next, Collect, Mongod, vars, AttemptFails, Again, Sleep, Start, StartFails,
        Ping, PingFails, HasUser, HasUserFails, CreateUserFails,
        ReplSetGetConfigOffline, ReplSetGetConfigFails, GetOplogWindow,
        GetOplogWindowFails, ShutdownAnswered, ShutdownUnanswered, ShutdownFails,
        ShutdownSignals, ReceiveExit, KillTimer, TakeLock, DataInUse, Open, Ended, MongodCrashes
<1>2. QED
  BY PrestartInvariant, <1>1, PTL DEF Spec, OneFailureKeepsData
=============================================================================
