---------------------------- MODULE ConsulStore ----------------------------
(***************************************************************************)
(* What the nodes write to Consul (internal/store/store.go), and under     *)
(* which sessions.  When a node's agent starts, a prestart task puts the   *)
(* node's candidate report under a session tied to Nomad's client check    *)
(* (PutCandidateReport).  A member task puts its health every few seconds  *)
(* and keeps a session with a time to live for that (UpdateHealthStatus,   *)
(* ensureSession, StartRenewLoop): the loop of the task and a goroutine    *)
(* that renews the session share the field sessionID without a lock.       *)
(*                                                                         *)
(* Consul itself is external: sessions end when their check fails or their *)
(* time to live runs out, which deletes the keys acquired with them and    *)
(* keeps those keys from being acquired for a while (the lock-delay).      *)
(***************************************************************************)
EXTENDS Naturals, FiniteSets

CONSTANTS
  Node,
  Absent,       \* no such key
  Tries,        \* looks at the checks before giving up: 5 in the code (line 93)
  MaxStarts,    \* bound of the model: starts of each node's agent
  MaxMembers,   \* bound of the model: member processes of each node
  MaxSessions   \* bound of the model: sessions created

ASSUME StoreAssumption ==
  /\ Tries \in Nat \ {0}
  /\ MaxStarts \in Nat
  /\ MaxMembers \in Nat
  /\ MaxSessions \in Nat
  /\ Absent \notin Nat
  /\ Absent \notin [report : 1..MaxStarts, session : 1..MaxSessions]

VARIABLES
  \* Consul
  check,       \* each node's "Nomad Client HTTP Check"
  sessions,    \* the sessions that have not ended
  created,     \* the number of sessions created so far
  lockDelay,   \* nodes whose report key cannot be acquired yet
  report,      \* the keys under candidateReportPath
  health,      \* the keys under healthStatusPath: the Session field of the Put
  \* the prestart task of each node
  pre,         \* where it is in PutCandidateReport
  starts,      \* the start it belongs to: newer ones report newer data
  sessionId,   \* the local sessionId
  looks,       \* the local i: looks at the checks so far
  stored,      \* Acquire has answered true
  \* the member process of each node
  mem,         \* where it is in UpdateHealthStatus
  members,     \* the processes started so far
  sessionID,   \* the field; NoSession is ""
  sid,         \* the local sid: the session that the next put names
  renewStarted,
  renewing,    \* the renew goroutine runs
  obtained     \* the sessions that its ensureSession has obtained

reportVars == <<check, lockDelay, report, pre, starts, sessionId, looks, stored>>
healthVars == <<health, mem, members, sessionID, sid, renewStarted, renewing, obtained>>
vars == <<reportVars, healthVars, sessions, created>>

-----------------------------------------------------------------------------
NoSession == 0
SessionIds == 1..MaxSessions
Session == [id : SessionIds, node : Node, kind : {"check", "ttl"}]
Live(id) == \E s \in sessions : s.id = id

(* The session that a node's report was acquired with. *)
Holder(n) == IF report[n] = Absent THEN NoSession ELSE report[n].session

Init ==
  /\ check = [n \in Node |-> "critical"]
  /\ sessions = {}
  /\ created = 0
  /\ lockDelay = {}
  /\ report = [n \in Node |-> Absent]
  /\ health = [n \in Node |-> Absent]
  /\ pre = [n \in Node |-> "none"]
  /\ starts = [n \in Node |-> 0]
  /\ sessionId = [n \in Node |-> NoSession]
  /\ looks = [n \in Node |-> 0]
  /\ stored = [n \in Node |-> FALSE]
  /\ mem = [n \in Node |-> "none"]
  /\ members = [n \in Node |-> 0]
  /\ sessionID = [n \in Node |-> NoSession]
  /\ sid = [n \in Node |-> NoSession]
  /\ renewStarted = [n \in Node |-> FALSE]
  /\ renewing = [n \in Node |-> FALSE]
  /\ obtained = [n \in Node |-> 0]

(* ------------------------------- Consul -------------------------------- *)

(* Session create: a session with a number of its own. *)
Create(n, kind) ==
  /\ created < MaxSessions
  /\ created' = created + 1
  /\ sessions' = sessions \cup {[id |-> created', node |-> n, kind |-> kind]}

CheckPasses(n) ==
  /\ check[n] = "critical"
  /\ check' = [check EXCEPT ![n] = "passing"]
  /\ UNCHANGED <<lockDelay, report, pre, starts, sessionId, looks, stored,
                 healthVars, sessions, created>>

(* The check fails, or Consul loses sight of the node, whose check stays as *)
(* it was: the sessions tied to it end, and the report acquired with one of *)
(* them goes with it.                                                       *)
CheckFails(n) ==
  LET ended == {s \in sessions : s.node = n /\ s.kind = "check"}
      goes  == \E s \in ended : s.id = Holder(n)
  IN /\ check[n] = "passing"
     /\ check' \in {check, [check EXCEPT ![n] = "critical"]}
     /\ sessions' = sessions \ ended
     /\ report' = IF goes THEN [report EXCEPT ![n] = Absent] ELSE report
     /\ lockDelay' = IF goes THEN lockDelay \cup {n} ELSE lockDelay
     /\ UNCHANGED <<pre, starts, sessionId, looks, stored, healthVars, created>>

LockDelayEnds(n) ==
  /\ n \in lockDelay
  /\ lockDelay' = lockDelay \ {n}
  /\ UNCHANGED <<check, report, pre, starts, sessionId, looks, stored, healthVars,
                 sessions, created>>

(* A session with a time to live ends when it was not renewed in time; no   *)
(* key was acquired with it.                                                *)
TtlExpires(s) ==
  /\ s.kind = "ttl"
  /\ sessions' = sessions \ {s}
  /\ UNCHANGED <<reportVars, healthVars, created>>

(* ------------------------ PutCandidateReport --------------------------- *)

prestartOnly == <<check, lockDelay, report, starts, stored, healthVars, sessions, created>>

Goes(n, to) == pre' = [pre EXCEPT ![n] = to]

(* The agent of the node starts, for the first time or again: whatever the  *)
(* prestart task of an earlier start was at is over.                        *)
AgentStarts(n) ==
  /\ starts[n] < MaxStarts
  /\ starts' = [starts EXCEPT ![n] = @ + 1]
  /\ Goes(n, "get")
  /\ sessionId' = [sessionId EXCEPT ![n] = NoSession]
  /\ looks' = [looks EXCEPT ![n] = 0]
  /\ stored' = [stored EXCEPT ![n] = FALSE]
  /\ UNCHANGED <<check, lockDelay, report, healthVars, sessions, created>>

(* A variant that makes a new session each time. *)
GetNothing(n) ==
  /\ pre[n] = "get"
  /\ Goes(n, "checks")
  /\ UNCHANGED <<sessionId, looks, prestartOnly>>

(* An earlier report has a session that can be used again. *)
GetKey(n) ==
  /\ pre[n] = "get"
  /\ sessionId' = [sessionId EXCEPT ![n] = Holder(n)]
  /\ Goes(n, IF Holder(n) = NoSession THEN "checks" ELSE "acquire")
  /\ UNCHANGED <<looks, prestartOnly>>

FindCheck(n) ==
  /\ pre[n] = "checks"
  /\ check[n] = "passing"
  /\ Goes(n, "create")
  /\ UNCHANGED <<sessionId, looks, prestartOnly>>

(* A variant whose loop does not count. *)
LookForEver(n) ==
  /\ pre[n] = "checks"
  /\ check[n] # "passing"
  /\ UNCHANGED <<pre, sessionId, looks, prestartOnly>>

(* A variant that looks once more than the loop does. *)
LookOnceMore(n) ==
  /\ pre[n] = "checks"
  /\ check[n] # "passing"
  /\ looks' = [looks EXCEPT ![n] = @ + 1]
  /\ Goes(n, IF looks'[n] > Tries THEN "error" ELSE "checks")
  /\ UNCHANGED <<sessionId, prestartOnly>>

(* The check does not pass now; two seconds later, another look. *)
LookAgain(n) ==
  /\ pre[n] = "checks"
  /\ check[n] # "passing"
  /\ looks' = [looks EXCEPT ![n] = @ + 1]
  /\ Goes(n, IF looks'[n] = Tries THEN "error" ELSE "checks")
  /\ UNCHANGED <<sessionId, prestartOnly>>

(* A variant that names no check for the session to depend on. *)
CreateWithoutCheck(n) ==
  /\ pre[n] = "create"
  /\ Create(n, "ttl")
  /\ sessionId' = [sessionId EXCEPT ![n] = created']
  /\ Goes(n, "acquire")
  /\ UNCHANGED <<check, lockDelay, report, starts, looks, stored, healthVars>>

(* sess.Create, on a check that passes. *)
CreateSession(n) ==
  /\ pre[n] = "create"
  /\ check[n] = "passing"
  /\ Create(n, "check")
  /\ sessionId' = [sessionId EXCEPT ![n] = created']
  /\ Goes(n, "acquire")
  /\ UNCHANGED <<check, lockDelay, report, starts, looks, stored, healthVars>>

(* The session is created, and the answer is lost. *)
CreateSessionLost(n) ==
  /\ pre[n] = "create"
  /\ check[n] = "passing"
  /\ Create(n, "check")
  /\ Goes(n, "error")
  /\ UNCHANGED <<check, lockDelay, report, starts, sessionId, looks, stored, healthVars>>

(* Consul refuses a session on a check that fails by now, and the model one *)
(* beyond its bound: the task panics, and the agent goes on without report. *)
CreateRefused(n) ==
  /\ pre[n] = "create"
  /\ check[n] = "critical" \/ created = MaxSessions
  /\ Goes(n, "error")
  /\ UNCHANGED <<sessionId, looks, prestartOnly>>

(* Whether Consul lets session id have the key now. *)
CanAcquire(n, id) ==
  /\ n \notin lockDelay
  /\ Holder(n) \in {NoSession, id}

(* kv.Acquire: the task does not look at the answer, true or false. *)
AcquireKey(n) ==
  /\ pre[n] = "acquire"
  /\ Live(sessionId[n])
  /\ IF CanAcquire(n, sessionId[n])
     THEN /\ report' = [report EXCEPT ![n] = [report |-> starts[n], session |-> sessionId[n]]]
          /\ stored' = [stored EXCEPT ![n] = TRUE]
     ELSE UNCHANGED <<report, stored>>
  /\ Goes(n, "ok")
  /\ UNCHANGED <<check, lockDelay, starts, sessionId, looks, healthVars, sessions, created>>

(* The report is stored, and the answer is lost. *)
AcquireKeyLost(n) ==
  /\ pre[n] = "acquire"
  /\ Live(sessionId[n])
  /\ CanAcquire(n, sessionId[n])
  /\ report' = [report EXCEPT ![n] = [report |-> starts[n], session |-> sessionId[n]]]
  /\ Goes(n, "error")
  /\ UNCHANGED <<check, lockDelay, starts, stored, sessionId, looks, healthVars,
                 sessions, created>>

(* The session has ended since it was found or created: an error. *)
AcquireRefused(n) ==
  /\ pre[n] = "acquire"
  /\ ~Live(sessionId[n])
  /\ Goes(n, "error")
  /\ UNCHANGED <<sessionId, looks, prestartOnly>>

(* Any call may also fail without effect. *)
CallFails(n) ==
  /\ pre[n] \in {"get", "checks", "create", "acquire"}
  /\ Goes(n, "error")
  /\ UNCHANGED <<sessionId, looks, prestartOnly>>

(* ------------------------ UpdateHealthStatus --------------------------- *)

healthElse == <<reportVars, health, members, renewStarted>>

MemberGoes(n, to) == mem' = [mem EXCEPT ![n] = to]

(* The member process starts, again after an earlier one died. *)
MemberStarts(n) ==
  /\ members[n] < MaxMembers
  /\ members' = [members EXCEPT ![n] = @ + 1]
  /\ MemberGoes(n, "idle")
  /\ sessionID' = [sessionID EXCEPT ![n] = NoSession]
  /\ sid' = [sid EXCEPT ![n] = NoSession]
  /\ renewStarted' = [renewStarted EXCEPT ![n] = FALSE]
  /\ renewing' = [renewing EXCEPT ![n] = FALSE]
  /\ obtained' = [obtained EXCEPT ![n] = 0]
  /\ UNCHANGED <<reportVars, health, sessions, created>>

(* ensureSession where there is none: Consul creates one ... *)
Obtain(n) ==
  /\ Create(n, "ttl")
  /\ sessionID' = [sessionID EXCEPT ![n] = created']
  /\ obtained' = [obtained EXCEPT ![n] = @ + 1]

(* ... or does not, or its answer is lost. *)
ObtainFails(n) ==
  /\ Create(n, "ttl") \/ UNCHANGED <<sessions, created>>
  /\ UNCHANGED <<sessionID, obtained>>

(* The first health status: StartRenewLoop, whose error is not looked at;   *)
(* 6 seconds are less than the shortest time to live that Consul accepts    *)
(* unless it is configured otherwise.                                       *)
FirstHealth(n) ==
  /\ mem[n] = "idle"
  /\ ~renewStarted[n]
  /\ renewStarted' = [renewStarted EXCEPT ![n] = TRUE]
  /\ \/ Obtain(n) /\ renewing' = [renewing EXCEPT ![n] = TRUE]
     \/ ObtainFails(n) /\ UNCHANGED renewing
  /\ MemberGoes(n, "session")
  /\ UNCHANGED <<reportVars, health, members, sid>>

NextHealth(n) ==
  /\ mem[n] = "idle"
  /\ renewStarted[n]
  /\ MemberGoes(n, "session")
  /\ UNCHANGED <<healthElse, sessionID, sid, renewing, obtained, sessions, created>>

(* ensureSession where there is one ... *)
KnowsSession(n) ==
  /\ mem[n] = "session"
  /\ sessionID[n] # NoSession
  /\ MemberGoes(n, "return")
  /\ UNCHANGED <<healthElse, sessionID, sid, renewing, obtained, sessions, created>>

(* ... reads the field again to return it: "" if the renew goroutine has    *)
(* cleared it between the two unlocked reads.                               *)
ReturnsSession(n) ==
  /\ mem[n] = "return"
  /\ sid' = [sid EXCEPT ![n] = sessionID[n]]
  /\ MemberGoes(n, "put")
  /\ UNCHANGED <<healthElse, sessionID, renewing, obtained, sessions, created>>

(* A variant of ObtainsSession that does not look whether there is one. *)
ObtainsAnyhow(n) ==
  /\ mem[n] = "session"
  /\ \/ Obtain(n) /\ sid' = [sid EXCEPT ![n] = created'] /\ MemberGoes(n, "put")
     \/ ObtainFails(n) /\ MemberGoes(n, "idle") /\ UNCHANGED sid
  /\ UNCHANGED <<healthElse, renewing>>

(* ensureSession with a longer time to live; nobody renews this session     *)
(* unless the renew goroutine still runs.                                   *)
ObtainsSession(n) ==
  /\ mem[n] = "session"
  /\ sessionID[n] = NoSession
  /\ \/ Obtain(n) /\ sid' = [sid EXCEPT ![n] = created'] /\ MemberGoes(n, "put")
     \/ ObtainFails(n) /\ MemberGoes(n, "idle") /\ UNCHANGED sid
  /\ UNCHANGED <<healthElse, renewing>>

Forgets(n) == sid' = [sid EXCEPT ![n] = NoSession]

(* kv.Put with the Session field set to what ensureSession has returned.    *)
(* Put does not send that field.                                            *)
PutHealth(n) ==
  /\ mem[n] = "put"
  /\ health' = [health EXCEPT ![n] = sid[n]]
  /\ Forgets(n)
  /\ MemberGoes(n, "idle")
  /\ UNCHANGED <<reportVars, members, sessionID, renewStarted, renewing, obtained,
                 sessions, created>>

PutHealthFails(n) ==
  /\ mem[n] = "put"
  /\ Forgets(n)
  /\ MemberGoes(n, "idle")
  /\ UNCHANGED <<healthElse, sessionID, renewing, obtained, sessions, created>>

(* Every 3 seconds the goroutine renews the session, and goes on, also when *)
(* Consul answers that there is no such session (Renew returns no error     *)
(* then).  On an error it gives the session up and ends.                    *)
RenewFails(n) ==
  /\ renewing[n]
  /\ sessionID' = [sessionID EXCEPT ![n] = NoSession]
  /\ renewing' = [renewing EXCEPT ![n] = FALSE]
  /\ UNCHANGED <<reportVars, health, mem, members, sid, renewStarted, obtained,
                 sessions, created>>

-----------------------------------------------------------------------------
Proceeds(n) ==
  \/ GetKey(n)
  \/ FindCheck(n)
  \/ LookAgain(n)
  \/ CreateSession(n)
  \/ CreateRefused(n)
  \/ AcquireKey(n)
  \/ AcquireRefused(n)

Prestart(n) ==
  \/ Proceeds(n)
  \/ CreateSessionLost(n)
  \/ AcquireKeyLost(n)
  \/ CallFails(n)

Health(n) ==
  \/ FirstHealth(n)
  \/ NextHealth(n)
  \/ KnowsSession(n)
  \/ ReturnsSession(n)
  \/ ObtainsSession(n)
  \/ PutHealth(n)
  \/ PutHealthFails(n)
  \/ RenewFails(n)

Next ==
  \/ \E n \in Node :
       CheckPasses(n) \/ CheckFails(n) \/ LockDelayEnds(n) \/ AgentStarts(n) \/ MemberStarts(n)
  \/ \E s \in sessions : TtlExpires(s)
  \/ \E n \in Node : Prestart(n) \/ Health(n)

(* A prestart task runs on: Consul answers, and its sleeps end.  No call    *)
(* has to fail.                                                             *)
Fairness == \A n \in Node : WF_vars(Proceeds(n))

Spec == Init /\ [][Next]_vars /\ Fairness

-----------------------------------------------------------------------------
TypeOK ==
  /\ check \in [Node -> {"passing", "critical"}]
  /\ sessions \subseteq Session
  /\ created \in 0..MaxSessions
  /\ lockDelay \subseteq Node
  /\ report \in [Node -> {Absent} \cup [report : 1..MaxStarts, session : SessionIds]]
  /\ health \in [Node -> {Absent, NoSession} \cup SessionIds]
  /\ pre \in [Node -> {"none", "get", "checks", "create", "acquire", "ok", "error"}]
  /\ starts \in [Node -> 0..MaxStarts]
  /\ sessionId \in [Node -> {NoSession} \cup SessionIds]
  /\ looks \in [Node -> 0..Tries]
  /\ stored \in [Node -> BOOLEAN]
  /\ mem \in [Node -> {"none", "idle", "session", "return", "put"}]
  /\ members \in [Node -> 0..MaxMembers]
  /\ sessionID \in [Node -> {NoSession} \cup SessionIds]
  /\ sid \in [Node -> {NoSession} \cup SessionIds]
  /\ renewStarted \in [Node -> BOOLEAN]
  /\ renewing \in [Node -> BOOLEAN]
  /\ obtained \in [Node -> Nat]

(* The controller never counts a lost node as a candidate: while a node's   *)
(* client check fails there is no report of it, however the failure falls   *)
(* between the steps of its prestart task (lines 80-135).                   *)
OnlyLiveNodesReport ==
  \A n \in Node : report[n] # Absent => check[n] = "passing"

(* A report that is there was stored by the last start of the node, or that *)
(* start has not got so far or has failed: a start that ended well never    *)
(* leaves the report of an earlier one behind (lines 80-86, 130-135).       *)
NoStaleReport ==
  \A n \in Node :
    pre[n] = "ok" /\ report[n] # Absent => report[n].report = starts[n]

(* A prestart run that ends well has stored its report, unless it came in   *)
(* the lock-delay of an earlier one: no other session stands in its way,    *)
(* also when an earlier report goes while the run uses its session or makes *)
(* another (lines 80-135).                                                  *)
DroppedOnlyInLockDelay ==
  [][\A n \in Node : pre[n] # "ok" /\ pre'[n] = "ok" => stored'[n] \/ n \in lockDelay]_vars

(* However often sessions expire and renewals fail, a member process        *)
(* obtains two sessions at most: it does not leave a trail of them behind   *)
(* in Consul (lines 168-186, 256-310).                                      *)
TwoSessionsAtMost ==
  \A n \in Node : obtained[n] <= 2

(* A prestart task always comes to an end, also on a node whose Nomad never *)
(* becomes healthy (lines 92-111): start-agent.bat waits for it.             *)
PrestartEnds ==
  \A n \in Node : pre[n] = "get" ~> pre[n] \in {"ok", "error"}

-----------------------------------------------------------------------------
(* start-agent.bat prints "Prestart OK" after a run without error, and      *)
(* Acquire "Returns true on success or false on failures" (kv.go): the run  *)
(* should have stored its report.                                           *)
OkMeansStored ==
  \A n \in Node : pre[n] = "ok" => stored[n]

(* The comments on the health session say "auto-delete keys tied to this    *)
(* session" (line 264) and "let it expire => keys auto-delete" (line 297):  *)
(* the health of a member should go when the session it was put with ends.  *)
HealthGoesWithSession ==
  \A n \in Node : health[n] \in SessionIds => Live(health[n])
=============================================================================
