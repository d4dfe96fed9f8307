-------------------------- MODULE ConsulStoreProofs --------------------------
(***************************************************************************)
(* Proofs about ConsulStore, for any nodes and any number of starts,       *)
(* member processes and sessions.                                          *)
(***************************************************************************)
EXTENDS ConsulStore, TLAPS

-----------------------------------------------------------------------------
(* The inductive invariant, in three parts.  First, which sessions there    *)
(* are and what they say of the checks: a report rests on a session of its  *)
(* own node, that session on a check that passes.                           *)
SessionInv ==
  /\ \A s \in sessions : s.id <= created
  /\ \A s, t \in sessions : s.id = t.id => s = t
  /\ \A s \in sessions : s.kind = "check" => check[s.node] = "passing"
  /\ \A n \in Node : report[n] # Absent =>
       \E s \in sessions : s.id = report[n].session /\ s.kind = "check" /\ s.node = n
  /\ \A n \in Node : sessionId[n] <= created
  /\ \A n \in Node, s \in sessions :
       pre[n] = "acquire" /\ s.id = sessionId[n] => s.kind = "check" /\ s.node = n

(* Second, a prestart task that holds no session has seen that there is no  *)
(* report, and one that holds a session has it from the report, if there    *)
(* still is one; it looks at the checks as long as it has looks left.       *)
ReportInv ==
  \A n \in Node :
    /\ n \in lockDelay => report[n] = Absent
    /\ pre[n] # "none" => starts[n] # 0
    /\ pre[n] \in {"checks", "create"} => report[n] = Absent
    /\ pre[n] \in {"get", "checks"} => looks[n] < Tries
    /\ pre[n] = "acquire" => report[n] = Absent \/ report[n].session = sessionId[n]
    /\ pre[n] = "ok" /\ report[n] # Absent => report[n].report = starts[n]

(* Third, while the renew goroutine runs its session is the only one that   *)
(* was obtained, and a session is obtained only where there is none.        *)
HealthInv ==
  \A n \in Node :
    /\ obtained[n] <= 2
    /\ ~renewStarted[n] => obtained[n] = 0 /\ mem[n] \in {"none", "idle"} /\ ~renewing[n]
    /\ renewing[n] => obtained[n] = 1 /\ sessionID[n] # NoSession
    /\ sessionID[n] = NoSession => obtained[n] <= 1

StoreInv == TypeOK /\ SessionInv /\ ReportInv /\ HealthInv

-----------------------------------------------------------------------------
LEMMA InitStoreInv == Init => StoreInv
  BY StoreAssumption
  DEF Init, StoreInv, TypeOK, SessionInv, ReportInv, HealthInv, NoSession, SessionIds, Session

(* A new session has a number that no session and no task knows. *)
LEMMA CreateIsNew ==
  ASSUME TypeOK, SessionInv, NEW n \in Node, NEW kind \in {"check", "ttl"}, Create(n, kind)
  PROVE  /\ created \in Nat
         /\ created' = created + 1
         /\ created' \in SessionIds
         /\ created' \in 0..MaxSessions
         /\ sessions' = sessions \cup {[id |-> created', node |-> n, kind |-> kind]}
         /\ sessions' \subseteq Session
         /\ \A s \in sessions : s.id < created'
<1>1. /\ created \in Nat /\ created' = created + 1
      /\ created' \in SessionIds /\ created' \in 0..MaxSessions
  BY StoreAssumption DEF TypeOK, Create, SessionIds
<1>2. sessions' = sessions \cup {[id |-> created', node |-> n, kind |-> kind]}
  BY DEF Create
<1>3. sessions' \subseteq Session
  BY <1>1, <1>2 DEF TypeOK, Session
<1>4. \A s \in sessions : s.id \in Nat
  BY StoreAssumption DEF TypeOK, Session, SessionIds
<1>5. \A s \in sessions : s.id < created'
  BY <1>1, <1>4 DEF SessionInv
<1>6. QED
  BY <1>1, <1>2, <1>3, <1>5

(* Nothing in SessionInv depends on a session of the other kind. *)
LEMMA CreateTtlKeepsSessions ==
  ASSUME TypeOK, SessionInv, NEW n \in Node, Create(n, "ttl"),
         UNCHANGED <<check, report, pre, sessionId>>
  PROVE  SessionInv'
<1> DEFINE new == [id |-> created', node |-> n, kind |-> "ttl"]
<1>1. /\ created \in Nat /\ created' = created + 1 /\ sessions' = sessions \cup {new}
      /\ \A s \in sessions : s.id < created'
      /\ new.id = created' /\ new.kind = "ttl"
  BY CreateIsNew
<1>2. \A m \in Node : sessionId[m] \in Nat /\ sessionId[m] <= created
  BY StoreAssumption DEF TypeOK, SessionInv, SessionIds, NoSession
<1>3. \A s \in sessions : s.id \in Nat
  BY StoreAssumption DEF TypeOK, Session, SessionIds
<1>4. \A s \in sessions' : s.id <= created'
  BY <1>1, <1>3
<1>5. \A s, t \in sessions' : s.id = t.id => s = t
  BY <1>1, <1>3 DEF SessionInv
<1>6. \A s \in sessions' : s.kind = "check" => check'[s.node] = "passing"
  BY <1>1 DEF SessionInv
<1>7. \A m \in Node : report'[m] # Absent =>
        \E s \in sessions' : s.id = report'[m].session /\ s.kind = "check" /\ s.node = m
  BY <1>1 DEF SessionInv
<1>8. \A m \in Node : sessionId'[m] <= created' /\ sessionId'[m] # created'
  BY <1>1, <1>2
<1>9. \A m \in Node, s \in sessions' :
        pre'[m] = "acquire" /\ s.id = sessionId'[m] => s.kind = "check" /\ s.node = m
  BY <1>1, <1>8 DEF SessionInv
<1>10. QED
  BY <1>4, <1>5, <1>6, <1>7, <1>8, <1>9 DEF SessionInv

-----------------------------------------------------------------------------
(* The member process: it touches neither checks nor reports, and every     *)
(* session it creates has a time to live.                                   *)
LEMMA HealthKeepsSessions ==
  ASSUME StoreInv, NEW n \in Node, Health(n) \/ MemberStarts(n)
  PROVE  SessionInv' /\ ReportInv'
<1>1. UNCHANGED reportVars
  BY DEF Health, MemberStarts, FirstHealth, NextHealth, KnowsSession,
         ReturnsSession, ObtainsSession,
         PutHealth, PutHealthFails, RenewFails, healthElse
<1>2. Create(n, "ttl") \/ UNCHANGED <<sessions, created>>
  BY DEF Health, MemberStarts, FirstHealth, NextHealth, KnowsSession,
         ReturnsSession, ObtainsSession,
         PutHealth, PutHealthFails, RenewFails, Obtain, ObtainFails
<1>3. ReportInv'
  BY <1>1 DEF StoreInv, ReportInv, reportVars
<1>4. CASE Create(n, "ttl")
  BY <1>1, <1>3, <1>4, CreateTtlKeepsSessions DEF StoreInv, reportVars
<1>5. CASE UNCHANGED <<sessions, created>>
  BY <1>1, <1>3, <1>5 DEF StoreInv, SessionInv, reportVars
<1>6. QED
  BY <1>2, <1>4, <1>5

LEMMA HealthKeepsTypes ==
  ASSUME StoreInv, NEW n \in Node, Health(n) \/ MemberStarts(n)
  PROVE  TypeOK'
<1>1. UNCHANGED reportVars
  BY DEF Health, MemberStarts, FirstHealth, NextHealth, KnowsSession,
         ReturnsSession, ObtainsSession,
         PutHealth, PutHealthFails, RenewFails, healthElse
<1>2. Create(n, "ttl") \/ UNCHANGED <<sessions, created>>
  BY DEF Health, MemberStarts, FirstHealth, NextHealth, KnowsSession,
         ReturnsSession, ObtainsSession,
         PutHealth, PutHealthFails, RenewFails, Obtain, ObtainFails
<1>3. sessions' \subseteq Session /\ created' \in 0..MaxSessions
  BY <1>2, CreateIsNew DEF StoreInv, TypeOK
<1>4. /\ health' \in [Node -> {Absent, NoSession} \cup SessionIds]
      /\ members' \in [Node -> 0..MaxMembers]
  BY StoreAssumption
  DEF StoreInv, TypeOK, Health, MemberStarts, FirstHealth, NextHealth, KnowsSession,
      ReturnsSession, ObtainsSession, PutHealth, PutHealthFails, RenewFails, healthElse
<1>5. mem' \in [Node -> {"none", "idle", "session", "return", "put"}]
  BY DEF StoreInv, TypeOK, Health, MemberStarts, FirstHealth, NextHealth, KnowsSession,
         ReturnsSession, ObtainsSession, PutHealth, PutHealthFails, RenewFails, MemberGoes
<1>6. renewStarted' \in [Node -> BOOLEAN] /\ renewing' \in [Node -> BOOLEAN]
  BY DEF StoreInv, TypeOK, Health, MemberStarts, FirstHealth, NextHealth, KnowsSession,
         ReturnsSession, ObtainsSession, PutHealth, PutHealthFails, RenewFails, healthElse
<1>7. /\ sessionID' \in [Node -> {NoSession} \cup SessionIds]
      /\ obtained' \in [Node -> Nat]
  <2>1. CASE Obtain(n)
    BY <2>1, CreateIsNew DEF StoreInv, TypeOK, Obtain
  <2>2. CASE ~Obtain(n)
    BY <2>2
    DEF StoreInv, TypeOK, Health, MemberStarts, FirstHealth, NextHealth, KnowsSession,
        ReturnsSession, ObtainsSession, ObtainFails, PutHealth, PutHealthFails, RenewFails,
        healthElse
  <2>3. QED
    BY <2>1, <2>2
<1>8. sid' \in [Node -> {NoSession} \cup SessionIds]
  <2>1. CASE Obtain(n)
    BY <2>1, CreateIsNew
    DEF StoreInv, TypeOK, Health, MemberStarts, FirstHealth, NextHealth, KnowsSession,
        ReturnsSession, ObtainsSession, PutHealth, PutHealthFails, Forgets, RenewFails,
        Obtain
  <2>2. CASE ~Obtain(n)
    BY <2>2
    DEF StoreInv, TypeOK, Health, MemberStarts, FirstHealth, NextHealth, KnowsSession,
        ReturnsSession, ObtainsSession, PutHealth, PutHealthFails, Forgets, RenewFails
  <2>3. QED
    BY <2>1, <2>2
<1>9. QED
  BY <1>1, <1>3, <1>4, <1>5, <1>6, <1>7, <1>8 DEF StoreInv, TypeOK, reportVars

LEMMA HealthKeepsHealth ==
  ASSUME StoreInv, NEW n \in Node, Health(n) \/ MemberStarts(n)
  PROVE  HealthInv'
<1>1. \A m \in Node : m # n =>
        /\ obtained'[m] = obtained[m] /\ renewStarted'[m] = renewStarted[m]
        /\ renewing'[m] = renewing[m] /\ sessionID'[m] = sessionID[m] /\ mem'[m] = mem[m]
  BY DEF StoreInv, TypeOK, Health, MemberStarts, FirstHealth, NextHealth, KnowsSession,
         ReturnsSession, ObtainsSession, Obtain, ObtainFails, PutHealth, PutHealthFails,
         RenewFails,
         healthElse, MemberGoes
<1>2. /\ obtained'[n] <= 2
      /\ ~renewStarted'[n] => obtained'[n] = 0 /\ mem'[n] \in {"none", "idle"} /\ ~renewing'[n]
      /\ renewing'[n] => obtained'[n] = 1 /\ sessionID'[n] # NoSession
      /\ sessionID'[n] = NoSession => obtained'[n] <= 1
  <2>0. obtained[n] \in Nat
    BY DEF StoreInv, TypeOK
  <2>1. CASE MemberStarts(n)
    BY <2>1 DEF StoreInv, TypeOK, HealthInv, MemberStarts, MemberGoes, NoSession
  <2>2. CASE FirstHealth(n) /\ Obtain(n)
    <3>1. created' # NoSession
      BY <2>2, CreateIsNew DEF StoreInv, Obtain, NoSession
    <3>2. /\ renewStarted'[n] /\ obtained'[n] = obtained[n] + 1
          /\ sessionID'[n] = created'
      BY <2>2 DEF StoreInv, TypeOK, FirstHealth, Obtain
    <3>3. obtained[n] = 0
      BY <2>2 DEF StoreInv, HealthInv, FirstHealth
    <3>4. QED
      BY <3>1, <3>2, <3>3
  <2>3. CASE FirstHealth(n) /\ ObtainFails(n) /\ UNCHANGED renewing
    BY <2>0, <2>3
    DEF StoreInv, TypeOK, HealthInv, FirstHealth, ObtainFails, MemberGoes
  <2>4. CASE ObtainsSession(n) /\ Obtain(n)
    <3>1. created' # NoSession
      BY <2>4, CreateIsNew DEF StoreInv, Obtain, NoSession
    <3>2. /\ obtained'[n] = obtained[n] + 1 /\ sessionID'[n] = created'
          /\ renewing'[n] = renewing[n] /\ renewStarted'[n] = renewStarted[n]
      BY <2>4 DEF StoreInv, TypeOK, ObtainsSession, Obtain, healthElse
    <3>3. obtained[n] <= 1 /\ ~renewing[n] /\ renewStarted[n]
      BY <2>4 DEF StoreInv, HealthInv, ObtainsSession
    <3>4. QED
      BY <2>0, <3>1, <3>2, <3>3
  <2>5. CASE ObtainsSession(n) /\ ObtainFails(n)
    BY <2>0, <2>5
    DEF StoreInv, TypeOK, HealthInv, ObtainsSession, ObtainFails, healthElse, MemberGoes
  <2>6. CASE NextHealth(n) \/ KnowsSession(n) \/ ReturnsSession(n) \/ PutHealth(n)
                          \/ PutHealthFails(n)
    BY <2>6
    DEF StoreInv, TypeOK, HealthInv, NextHealth, KnowsSession, ReturnsSession, PutHealth,
        PutHealthFails, healthElse, MemberGoes
  <2>7. CASE RenewFails(n)
    BY <2>0, <2>7 DEF StoreInv, TypeOK, HealthInv, RenewFails
  <2>8. QED
    BY <2>1, <2>2, <2>3, <2>4, <2>5, <2>6, <2>7 DEF Health, FirstHealth, ObtainsSession
<1>3. QED
  BY <1>1, <1>2 DEF StoreInv, HealthInv

-----------------------------------------------------------------------------
(* What the prestart tasks and Consul's own steps leave alone. *)
LEMMA ReportStepsKeepHealth ==
  ASSUME StoreInv, UNCHANGED healthVars
  PROVE  HealthInv'
  BY DEF StoreInv, HealthInv, healthVars

LEMMA TypeFromReport ==
  ASSUME StoreInv, UNCHANGED healthVars,
         check' \in [Node -> {"passing", "critical"}],
         sessions' \subseteq Session,
         created' \in 0..MaxSessions,
         lockDelay' \subseteq Node,
         report' \in [Node -> {Absent} \cup [report : 1..MaxStarts, session : SessionIds]],
         pre' \in [Node -> {"none", "get", "checks", "create", "acquire", "ok", "error"}],
         starts' \in [Node -> 0..MaxStarts],
         sessionId' \in [Node -> {NoSession} \cup SessionIds],
         looks' \in [Node -> 0..Tries],
         stored' \in [Node -> BOOLEAN]
  PROVE  TypeOK'
  BY DEF StoreInv, TypeOK, healthVars

(* The session that holds a report is a session number of Consul's. *)
LEMMA HolderIsSession ==
  ASSUME StoreInv, NEW n \in Node
  PROVE  /\ Holder(n) \in {NoSession} \cup SessionIds
         /\ Holder(n) = NoSession <=> report[n] = Absent
         /\ report[n] # Absent => Holder(n) = report[n].session
         /\ Holder(n) <= created
<1>1. CASE report[n] = Absent
  BY <1>1, StoreAssumption DEF Holder, NoSession, SessionIds, StoreInv, TypeOK
<1>2. CASE report[n] # Absent
  <2>1. report[n].session \in SessionIds
    BY <1>2 DEF StoreInv, TypeOK
  <2>2. report[n].session <= created
    BY <1>2 DEF StoreInv, SessionInv
  <2>3. QED
    BY <1>2, <2>1, <2>2, StoreAssumption DEF Holder, NoSession, SessionIds
<1>3. QED
  BY <1>1, <1>2

(* Sessions end: the report of the node goes with the one it rests on.      *)
LEMMA CheckKeepsInv ==
  ASSUME StoreInv, NEW n \in Node,
         CheckPasses(n) \/ CheckFails(n) \/ LockDelayEnds(n)
  PROVE  StoreInv'
<1>0. /\ UNCHANGED healthVars
      /\ UNCHANGED <<pre, starts, sessionId, looks, stored, created>>
  BY DEF CheckPasses, CheckFails, LockDelayEnds
<1>1. HealthInv'
  BY <1>0, ReportStepsKeepHealth
<1>2. CASE CheckPasses(n)
  <2>1. /\ check' = [check EXCEPT ![n] = "passing"]
        /\ UNCHANGED <<lockDelay, report, sessions>>
    BY <1>2 DEF CheckPasses
  <2>2. TypeOK'
    BY <1>0, <2>1, TypeFromReport DEF StoreInv, TypeOK
  <2>3. \A m \in Node : check[m] = "passing" => check'[m] = "passing"
    BY <2>1 DEF StoreInv, TypeOK
  <2>4. \A s \in sessions : s.node \in Node
    BY DEF StoreInv, TypeOK, Session
  <2>5. SessionInv'
    BY <1>0, <2>1, <2>3, <2>4 DEF StoreInv, SessionInv
  <2>6. ReportInv'
    BY <1>0, <2>1 DEF StoreInv, ReportInv
  <2>7. QED
    BY <1>1, <2>2, <2>5, <2>6 DEF StoreInv
<1>3. CASE CheckFails(n)
  <2> DEFINE ended == {s \in sessions : s.node = n /\ s.kind = "check"}
             goes  == \E s \in ended : s.id = Holder(n)
  <2>1. /\ sessions' = sessions \ ended
        /\ check' \in {check, [check EXCEPT ![n] = "critical"]}
        /\ report' = IF goes THEN [report EXCEPT ![n] = Absent] ELSE report
        /\ lockDelay' = IF goes THEN lockDelay \cup {n} ELSE lockDelay
    BY <1>3 DEF CheckFails
  <2>2. TypeOK'
    <3>1. report' \in [Node -> {Absent} \cup [report : 1..MaxStarts, session : SessionIds]]
      BY <2>1 DEF StoreInv, TypeOK
    <3>2. check' \in [Node -> {"passing", "critical"}]
      BY <2>1 DEF StoreInv, TypeOK
    <3>3. sessions' \subseteq Session /\ lockDelay' \subseteq Node
      BY <2>1 DEF StoreInv, TypeOK
    <3>4. QED
      BY <1>0, <3>1, <3>2, <3>3, TypeFromReport DEF StoreInv, TypeOK
  <2>3. report'[n] = Absent
    <3>1. CASE report[n] = Absent
      BY <2>1, <3>1 DEF StoreInv, TypeOK
    <3>2. CASE report[n] # Absent
      <4>1. goes
        BY <3>2, HolderIsSession DEF StoreInv, SessionInv
      <4>2. QED
        BY <2>1, <4>1 DEF StoreInv, TypeOK
    <3>3. QED
      BY <3>1, <3>2
  <2>4. \A m \in Node : m # n => report'[m] = report[m] /\ check'[m] = check[m]
    BY <2>1 DEF StoreInv, TypeOK
  <2>5. SessionInv'
    <3>1. \A s \in sessions' : s \in sessions /\ s.node \in Node
      BY <2>1 DEF StoreInv, TypeOK, Session
    <3>2. \A s \in sessions' : s.kind = "check" => s.node # n /\ check'[s.node] = "passing"
      BY <2>1, <2>4, <3>1 DEF StoreInv, SessionInv
    <3>3. \A m \in Node : report'[m] # Absent =>
            \E s \in sessions' : s.id = report'[m].session /\ s.kind = "check" /\ s.node = m
      <4>1. SUFFICES ASSUME NEW m \in Node, report'[m] # Absent
                     PROVE  \E s \in sessions' :
                              s.id = report'[m].session /\ s.kind = "check" /\ s.node = m
        OBVIOUS
      <4>2. m # n /\ report'[m] = report[m]
        BY <2>3, <2>4, <4>1
      <4>3. QED
        BY <2>1, <4>1, <4>2 DEF StoreInv, SessionInv
    <3>4. QED
      BY <1>0, <3>1, <3>2, <3>3 DEF StoreInv, SessionInv
  <2>6. ReportInv'
    <3>1. \A m \in lockDelay' : m = n \/ m \in lockDelay
      BY <2>1
    <3>2. QED
      BY <1>0, <2>3, <2>4, <3>1 DEF StoreInv, ReportInv
  <2>7. QED
    BY <1>1, <2>2, <2>5, <2>6 DEF StoreInv
<1>4. CASE LockDelayEnds(n)
  <2>1. lockDelay' = lockDelay \ {n} /\ UNCHANGED <<check, report, sessions>>
    BY <1>4 DEF LockDelayEnds
  <2>2. TypeOK'
    BY <1>0, <2>1, TypeFromReport DEF StoreInv, TypeOK
  <2>3. SessionInv' /\ ReportInv'
    BY <1>0, <2>1 DEF StoreInv, SessionInv, ReportInv
  <2>4. QED
    BY <1>1, <2>2, <2>3 DEF StoreInv
<1>5. QED
  BY <1>2, <1>3, <1>4

LEMMA TtlKeepsInv ==
  ASSUME StoreInv, NEW s \in sessions, TtlExpires(s)
  PROVE  StoreInv'
<1>1. /\ s.kind = "ttl" /\ sessions' = sessions \ {s}
      /\ UNCHANGED <<reportVars, healthVars, created>>
  BY DEF TtlExpires
<1>2. HealthInv'
  BY <1>1, ReportStepsKeepHealth
<1>3. TypeOK'
  BY <1>1, TypeFromReport DEF StoreInv, TypeOK, reportVars
<1>4. SessionInv' /\ ReportInv'
  BY <1>1 DEF StoreInv, SessionInv, ReportInv, reportVars
<1>5. QED
  BY <1>2, <1>3, <1>4 DEF StoreInv

(* The agent starts, or the task goes on without changing Consul. *)
LEMMA LocalKeepsInv ==
  ASSUME StoreInv, NEW n \in Node,
         \/ AgentStarts(n)
         \/ GetKey(n)
         \/ FindCheck(n)
         \/ LookAgain(n)
         \/ CreateRefused(n)
         \/ AcquireRefused(n)
         \/ CallFails(n)
  PROVE  StoreInv'
<1>1. UNCHANGED <<check, lockDelay, report, healthVars, sessions, created>>
  BY DEF AgentStarts, GetKey, FindCheck, LookAgain, CreateRefused, AcquireRefused, CallFails,
         prestartOnly
<1>2. HealthInv'
  BY <1>1, ReportStepsKeepHealth
<1>3. /\ pre' \in [Node -> {"none", "get", "checks", "create", "acquire", "ok", "error"}]
      /\ \A m \in Node : m # n => pre'[m] = pre[m]
  BY DEF StoreInv, TypeOK, AgentStarts, GetKey, FindCheck, LookAgain, CreateRefused,
         AcquireRefused, CallFails, Goes
<1>4. /\ sessionId' \in [Node -> {NoSession} \cup SessionIds]
      /\ \A m \in Node : m # n => sessionId'[m] = sessionId[m]
      /\ sessionId'[n] <= created
  <2>0. NoSession <= created
    BY DEF StoreInv, TypeOK, NoSession
  <2>1. CASE GetKey(n)
    BY <2>1, HolderIsSession DEF StoreInv, TypeOK, GetKey
  <2>2. CASE ~GetKey(n)
    BY <2>0, <2>2
    DEF StoreInv, TypeOK, SessionInv, AgentStarts, FindCheck, LookAgain, CreateRefused,
        AcquireRefused, CallFails
  <2>3. QED
    BY <2>1, <2>2
<1>5. /\ looks' \in [Node -> 0..Tries]
      /\ \A m \in Node : m # n => looks'[m] = looks[m]
      /\ pre'[n] \in {"get", "checks"} => looks'[n] < Tries
  <2>1. CASE LookAgain(n)
    <3>1. looks[n] \in 0..Tries /\ looks[n] < Tries
      BY <2>1 DEF StoreInv, TypeOK, ReportInv, LookAgain
    <3>2. looks[n] + 1 \in 0..Tries
      BY <3>1, StoreAssumption
    <3>3. looks' = [looks EXCEPT ![n] = looks[n] + 1] /\ looks'[n] = looks[n] + 1
      BY <2>1 DEF StoreInv, TypeOK, LookAgain
    <3>4. pre'[n] = "checks" => looks'[n] # Tries
      BY <2>1 DEF StoreInv, TypeOK, LookAgain, Goes
    <3>5. pre'[n] # "get"
      BY <2>1 DEF StoreInv, TypeOK, LookAgain, Goes
    <3>6. QED
      BY <3>2, <3>3, <3>4, <3>5, StoreAssumption DEF StoreInv, TypeOK
  <2>2. CASE AgentStarts(n)
    BY <2>2, StoreAssumption DEF StoreInv, TypeOK, AgentStarts
  <2>3. CASE GetKey(n) \/ FindCheck(n) \/ CreateRefused(n) \/ AcquireRefused(n) \/ CallFails(n)
    BY <2>3
    DEF StoreInv, TypeOK, ReportInv, GetKey, FindCheck, CreateRefused, AcquireRefused,
        CallFails, Goes
  <2>4. QED
    BY <2>1, <2>2, <2>3
<1>6. /\ starts' \in [Node -> 0..MaxStarts] /\ stored' \in [Node -> BOOLEAN]
      /\ \A m \in Node : m # n => starts'[m] = starts[m]
  <2>1. CASE AgentStarts(n)
    BY <2>1, StoreAssumption DEF StoreInv, TypeOK, AgentStarts
  <2>2. CASE ~AgentStarts(n)
    BY <2>2
    DEF StoreInv, TypeOK, GetKey, FindCheck, LookAgain, CreateRefused, AcquireRefused,
        CallFails, prestartOnly
  <2>3. QED
    BY <2>1, <2>2
<1>7. TypeOK'
  BY <1>1, <1>3, <1>4, <1>5, <1>6, TypeFromReport DEF StoreInv, TypeOK
<1>8. /\ pre'[n] = "acquire" => GetKey(n) /\ sessionId'[n] = Holder(n) /\ Holder(n) # NoSession
      /\ pre'[n] \in {"checks", "create"} => report[n] = Absent
      /\ pre'[n] # "ok"
  <2>1. CASE GetKey(n)
    BY <2>1, HolderIsSession DEF StoreInv, TypeOK, GetKey, Goes
  <2>2. CASE ~GetKey(n)
    BY <2>2
    DEF StoreInv, TypeOK, ReportInv, AgentStarts, FindCheck, LookAgain, CreateRefused,
        AcquireRefused, CallFails, Goes
  <2>3. QED
    BY <2>1, <2>2
<1>9. SessionInv'
  <2>1. \A s \in sessions : pre'[n] = "acquire" /\ s.id = sessionId'[n]
          => s.kind = "check" /\ s.node = n
    BY <1>8, HolderIsSession DEF StoreInv, SessionInv
  <2>2. \A m \in Node : sessionId'[m] <= created
    BY <1>4 DEF StoreInv, SessionInv
  <2>3. QED
    BY <1>1, <1>3, <1>4, <2>1, <2>2 DEF StoreInv, SessionInv
<1>a. pre'[n] # "none" => starts'[n] # 0
  <2>1. CASE AgentStarts(n)
    BY <2>1, StoreAssumption DEF StoreInv, TypeOK, AgentStarts
  <2>2. CASE ~AgentStarts(n)
    BY <2>2
    DEF StoreInv, ReportInv, GetKey, FindCheck, LookAgain, CreateRefused, AcquireRefused,
        CallFails, prestartOnly
  <2>3. QED
    BY <2>1, <2>2
<1>10. ReportInv'
  BY <1>1, <1>3, <1>4, <1>5, <1>6, <1>8, <1>a, HolderIsSession DEF StoreInv, ReportInv
<1>11. QED
  BY <1>2, <1>7, <1>9, <1>10 DEF StoreInv

(* A session is created: on a check that passes, with a new number. *)
LEMMA CreateKeepsInv ==
  ASSUME StoreInv, NEW n \in Node, CreateSession(n) \/ CreateSessionLost(n)
  PROVE  StoreInv'
<1> DEFINE new == [id |-> created', node |-> n, kind |-> "check"]
<1>1. /\ created \in Nat /\ created' = created + 1 /\ created' \in 0..MaxSessions
      /\ created' \in SessionIds
      /\ sessions' = sessions \cup {new} /\ sessions' \subseteq Session
      /\ \A s \in sessions : s.id < created'
      /\ new.id = created' /\ new.kind = "check" /\ new.node = n
  BY CreateIsNew DEF StoreInv, CreateSession, CreateSessionLost
<1>2. /\ check[n] = "passing" /\ report[n] = Absent /\ pre[n] = "create"
      /\ UNCHANGED <<check, lockDelay, report, starts, looks, stored, healthVars>>
  BY DEF StoreInv, ReportInv, CreateSession, CreateSessionLost
<1>3. HealthInv'
  BY <1>2, ReportStepsKeepHealth
<1>4. /\ pre' \in [Node -> {"none", "get", "checks", "create", "acquire", "ok", "error"}]
      /\ sessionId' \in [Node -> {NoSession} \cup SessionIds]
      /\ \A m \in Node : m # n => pre'[m] = pre[m] /\ sessionId'[m] = sessionId[m]
      /\ pre'[n] \in {"acquire", "error"}
      /\ pre'[n] = "acquire" => sessionId'[n] = created'
      /\ sessionId'[n] \in {sessionId[n], created'}
  BY <1>1 DEF StoreInv, TypeOK, CreateSession, CreateSessionLost, Goes
<1>5. TypeOK'
  BY <1>1, <1>2, <1>4, TypeFromReport DEF StoreInv, TypeOK
<1>6. \A m \in Node : sessionId[m] \in Nat /\ sessionId[m] <= created
  BY StoreAssumption DEF StoreInv, TypeOK, SessionInv, SessionIds, NoSession
<1>7. \A s \in sessions : s.id \in Nat
  BY StoreAssumption DEF StoreInv, TypeOK, Session, SessionIds
<1>8. SessionInv'
  <2>1. \A s \in sessions' : s.id <= created'
    BY <1>1, <1>7
  <2>2. \A s, t \in sessions' : s.id = t.id => s = t
    BY <1>1, <1>7 DEF StoreInv, SessionInv
  <2>3. \A s \in sessions' : s.kind = "check" => check'[s.node] = "passing"
    BY <1>1, <1>2 DEF StoreInv, SessionInv
  <2>4. \A m \in Node : report'[m] # Absent =>
          \E s \in sessions' : s.id = report'[m].session /\ s.kind = "check" /\ s.node = m
    BY <1>1, <1>2 DEF StoreInv, SessionInv
  <2>5. \A m \in Node : sessionId'[m] <= created'
    BY <1>1, <1>4, <1>6
  <2>6. \A m \in Node, s \in sessions' :
          pre'[m] = "acquire" /\ s.id = sessionId'[m] => s.kind = "check" /\ s.node = m
    BY <1>1, <1>4, <1>6, <1>7 DEF StoreInv, SessionInv
  <2>7. QED
    BY <2>1, <2>2, <2>3, <2>4, <2>5, <2>6 DEF SessionInv
<1>9. ReportInv'
  BY <1>2, <1>4 DEF StoreInv, ReportInv
<1>10. QED
  BY <1>3, <1>5, <1>8, <1>9 DEF StoreInv

(* The report is stored under the session that was found or created, or the *)
(* key cannot be acquired now: then, as the session would do, it is because *)
(* there is a lock-delay and no report.                                     *)
LEMMA AcquireKeepsInv ==
  ASSUME StoreInv, NEW n \in Node, AcquireKey(n) \/ AcquireKeyLost(n)
  PROVE  StoreInv'
<1> DEFINE own == [report |-> starts[n], session |-> sessionId[n]]
<1>1. /\ pre[n] = "acquire" /\ Live(sessionId[n])
      /\ UNCHANGED <<check, lockDelay, starts, sessionId, looks, healthVars, sessions, created>>
  BY DEF AcquireKey, AcquireKeyLost
<1>2. HealthInv'
  BY <1>1, ReportStepsKeepHealth
<1>3. PICK s \in sessions : s.id = sessionId[n]
  BY <1>1 DEF Live
<1>4. s.kind = "check" /\ s.node = n /\ s.id \in SessionIds
  BY <1>1, <1>3 DEF StoreInv, SessionInv, TypeOK, Session
<1>5. /\ pre' \in [Node -> {"none", "get", "checks", "create", "acquire", "ok", "error"}]
      /\ \A m \in Node : m # n => pre'[m] = pre[m]
      /\ pre'[n] \in {"ok", "error"}
      /\ stored' \in [Node -> BOOLEAN]
  BY DEF StoreInv, TypeOK, AcquireKey, AcquireKeyLost, Goes
<1>6. \/ CanAcquire(n, sessionId[n]) /\ report' = [report EXCEPT ![n] = own]
      \/ ~CanAcquire(n, sessionId[n]) /\ report' = report
  BY DEF AcquireKey, AcquireKeyLost
<1>7. report[n] = Absent \/ Holder(n) = sessionId[n]
  BY <1>1, HolderIsSession DEF StoreInv, ReportInv
<1>8. CASE CanAcquire(n, sessionId[n]) /\ report' = [report EXCEPT ![n] = own]
  <2>1. /\ n \notin lockDelay
        /\ report'[n] = own /\ \A m \in Node : m # n => report'[m] = report[m]
    BY <1>8 DEF CanAcquire, StoreInv, TypeOK
  <2>2. starts[n] \in 1..MaxStarts
    <3>1. starts[n] \in 0..MaxStarts /\ starts[n] # 0
      BY <1>1 DEF StoreInv, TypeOK, ReportInv
    <3>2. QED
      BY <3>1, StoreAssumption
  <2>3. report' \in [Node -> {Absent} \cup [report : 1..MaxStarts, session : SessionIds]]
    BY <1>3, <1>4, <1>8, <2>2 DEF StoreInv, TypeOK
  <2>4. TypeOK'
    BY <1>1, <1>5, <2>3, TypeFromReport DEF StoreInv, TypeOK
  <2>5. SessionInv'
    BY <1>1, <1>3, <1>4, <1>5, <2>1 DEF StoreInv, SessionInv
  <2>6. ReportInv'
    BY <1>1, <1>5, <2>1 DEF StoreInv, ReportInv
  <2>7. QED
    BY <1>2, <2>4, <2>5, <2>6 DEF StoreInv
<1>9. CASE ~CanAcquire(n, sessionId[n]) /\ report' = report
  <2>1. report[n] = Absent
    BY <1>7, <1>9, HolderIsSession DEF CanAcquire, StoreInv, ReportInv
  <2>2. TypeOK'
    BY <1>1, <1>5, <1>9, TypeFromReport DEF StoreInv, TypeOK
  <2>3. SessionInv'
    BY <1>1, <1>5, <1>9 DEF StoreInv, SessionInv
  <2>4. ReportInv'
    BY <1>1, <1>5, <1>9, <2>1 DEF StoreInv, ReportInv
  <2>5. QED
    BY <1>2, <2>2, <2>3, <2>4 DEF StoreInv
<1>10. QED
  BY <1>6, <1>8, <1>9

LEMMA StoreInvariant == Spec => []StoreInv
<1>1. ASSUME StoreInv, Next PROVE StoreInv'
  <2>1. CASE \E n \in Node : Health(n) \/ MemberStarts(n)
    BY <1>1, <2>1, HealthKeepsSessions, HealthKeepsTypes, HealthKeepsHealth DEF StoreInv
  <2>2. CASE \E s \in sessions : TtlExpires(s)
    BY <1>1, <2>2, TtlKeepsInv
  <2>3. CASE \E n \in Node : CheckPasses(n) \/ CheckFails(n) \/ LockDelayEnds(n)
    BY <1>1, <2>3, CheckKeepsInv
  <2>4. CASE \E n \in Node : Prestart(n) \/ AgentStarts(n)
    BY <1>1, <2>4, LocalKeepsInv, CreateKeepsInv, AcquireKeepsInv DEF Prestart, Proceeds
  <2>5. QED
    BY <1>1, <2>1, <2>2, <2>3, <2>4 DEF Next
<1>2. StoreInv /\ UNCHANGED vars => StoreInv'
  BY DEF StoreInv, vars, reportVars, healthVars, TypeOK, SessionInv, ReportInv, HealthInv
<1>3. StoreInv /\ [Next]_vars => StoreInv'
  BY <1>1, <1>2
<1>4. QED
  BY InitStoreInv, <1>3, PTL DEF Spec

-----------------------------------------------------------------------------
(* Every variable has its type; in particular no task makes more sessions   *)
(* than there are numbers for.                                              *)
THEOREM TypeCorrect == Spec => []TypeOK
<1>1. StoreInv => TypeOK
  BY DEF StoreInv
<1>2. QED
  BY StoreInvariant, <1>1, PTL

(* A node whose client check fails has no candidate report: it rests on a   *)
(* session that ended with the check (lines 80-135).                        *)
THEOREM LostNodesAreForgotten == Spec => []OnlyLiveNodesReport
<1>1. StoreInv => OnlyLiveNodesReport
  BY DEF StoreInv, SessionInv, OnlyLiveNodesReport
<1>2. QED
  BY StoreInvariant, <1>1, PTL

(* A start of the agent that ended well leaves no report of an earlier      *)
(* start behind, although the answer of Acquire is not looked at (lines     *)
(* 80-86, 130-135).                                                         *)
THEOREM ReportsAreFresh == Spec => []NoStaleReport
<1>1. StoreInv => NoStaleReport
  BY DEF StoreInv, ReportInv, NoStaleReport
<1>2. QED
  BY StoreInvariant, <1>1, PTL

(* A member process obtains two sessions at most (lines 168-186, 256-310).  *)
THEOREM SessionsAreBounded == Spec => []TwoSessionsAtMost
<1>1. StoreInv => TwoSessionsAtMost
  BY DEF StoreInv, HealthInv, TwoSessionsAtMost
<1>2. QED
  BY StoreInvariant, <1>1, PTL
(* A run that ends well without having stored its report met the lock-delay *)
(* of that key: the report that could be in its way is held by its own      *)
(* session, which is what ReportInv says of a run that acquires.            *)
THEOREM DropsAreLockDelays == Spec => DroppedOnlyInLockDelay
<1> DEFINE Dropped(n) == pre[n] # "ok" /\ pre'[n] = "ok" /\ ~stored'[n]
<1>1. ASSUME StoreInv, NEW n \in Node, Dropped(n), [Next]_vars PROVE n \in lockDelay
  <2>1. ASSUME NEW k \in Node, AcquireKey(k) PROVE n \in lockDelay
    <3>1. k = n
      BY <1>1, <2>1 DEF AcquireKey, Goes, StoreInv, TypeOK
    <3>2. ~CanAcquire(n, sessionId[n])
      BY <1>1, <2>1, <3>1 DEF AcquireKey, StoreInv, TypeOK
    <3>3. pre[n] = "acquire"
      BY <2>1, <3>1 DEF AcquireKey
    <3>4. Holder(n) \in {NoSession, sessionId[n]}
      BY <1>1, <3>3 DEF StoreInv, ReportInv, Holder
    <3>5. QED
      BY <3>2, <3>4 DEF CanAcquire
  <2>2. CASE UNCHANGED pre
    BY <1>1, <2>2
  <2>3. ASSUME NEW k \in Node, Prestart(k) \/ AgentStarts(k), ~AcquireKey(k) PROVE FALSE
    <3>1. \E to \in {"get", "checks", "create", "acquire", "error"} : Goes(k, to)
      BY <2>3
      DEF Prestart, Proceeds, GetKey, FindCheck, LookAgain, CreateSession, CreateRefused,
          AcquireRefused, CreateSessionLost, AcquireKeyLost, CallFails, AgentStarts
    <3>2. QED
      BY <1>1, <3>1 DEF Goes, StoreInv, TypeOK
  <2>4. ASSUME NEW k \in Node, CheckPasses(k) \/ CheckFails(k) \/ LockDelayEnds(k)
                               \/ MemberStarts(k) \/ Health(k)
        PROVE  UNCHANGED pre
    BY <2>4
    DEF CheckPasses, CheckFails, LockDelayEnds, MemberStarts, Health, FirstHealth, NextHealth,
        KnowsSession, ReturnsSession, ObtainsSession, PutHealth, PutHealthFails, RenewFails,
        healthElse,
        reportVars
  <2>5. ASSUME NEW s \in sessions, TtlExpires(s) PROVE UNCHANGED pre
    BY <2>5 DEF TtlExpires, reportVars
  <2>6. QED
    BY <1>1, <2>1, <2>2, <2>3, <2>4, <2>5 DEF Next, vars, reportVars
<1>2. StoreInv /\ [Next]_vars =>
        \A n \in Node : pre[n] # "ok" /\ pre'[n] = "ok" => stored'[n] \/ n \in lockDelay
  BY <1>1
<1>3. QED
  BY <1>2, StoreInvariant, PTL DEF Spec, DroppedOnlyInLockDelay
=============================================================================
