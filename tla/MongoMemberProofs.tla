------------------------- MODULE MongoMemberProofs -------------------------
(***************************************************************************)
(* Proofs about MongoMember, for any members and former members, any       *)
(* number of sets that might be initiated and of failures.                 *)
(***************************************************************************)
EXTENDS MongoMember, TLAPS

-----------------------------------------------------------------------------
(* The inductive invariant.  Only the primary configures and it never       *)
(* wipes, so that its mongod always serves what is on its disk: once it has *)
(* founded a set or was found in one, it never sees itself without one.     *)
PrimaryInv ==
  /\ pc[Primary] \notin {"wipe", "restart"}
  /\ \A n \in Node :
       pc[n] \in {"stale", "recover", "initiate", "add", "addWrite", "reconf",
                 "reconfWrite", "reconfStale"} => n = Primary
  /\ mem[Primary] \in {Off, disk[Primary]}
  /\ pc[Primary] \in {"stale", "add", "reconf"} => disk[Primary].set # NoSet
  /\ pc[Primary] \in {"recover", "addWrite", "reconfWrite"} => cfg[Primary] # Off
  /\ created > 0 => disk[Primary].set # NoSet
  /\ pc[Primary] = "initiate" => specSet = NoSet
  /\ specSet # NoSet => created = 0

(* All configurations, on disks, in mongods and read to be written back. *)
Held == {disk[n] : n \in Node} \cup {mem[n] : n \in {m \in Node : mem[m] # Off}}
                               \cup {cfg[n] : n \in {m \in Node : cfg[m] # Off}}

(* A version that the code has made names the members of the specification, *)
(* and the versions below are those that were there before, or the first of *)
(* a set that nobody had.                                                   *)
AgreesWith(c, d) ==
  c.set = d.set /\ c.version = d.version => c.members = d.members

Plausible(c) ==
  /\ c.version > Jump => c.members = Node
  /\ c.set <= Initiated(created)

HeldInv ==
  /\ \A c, d \in Held : AgreesWith(c, d)
  /\ \A c \in Held : Plausible(c)

MemberInv ==
  /\ TypeOK
  /\ PrimaryInv
  /\ HeldInv

-----------------------------------------------------------------------------
(* Where there is a replica set there is a configuration. *)
LEMMA DataKinds ==
  ASSUME NEW d \in Data
  PROVE  /\ d.set # NoSet => d \in Configured
         /\ d.set = NoSet => d.members = {}
         /\ d.set \in Nat /\ d.version \in Nat
<1>1. CASE d \in Configured
  <2>1. d.set \in SetId /\ d.version \in Nat
    BY <1>1 DEF Configured
  <2>2. d.set \in Nat /\ d.set # NoSet
    BY <2>1, MemberAssumption DEF SetId, OldSets, Initiated, NoSet
  <2>3. QED
    BY <1>1, <2>1, <2>2
<1>2. CASE d \in {Fresh, Wiped}
  <2>1. d.set = NoSet /\ d.version = 0 /\ d.members = {}
    BY <1>2 DEF Fresh, Wiped
  <2>2. QED
    BY <2>1 DEF NoSet
<1>3. QED
  BY <1>1, <1>2 DEF Data

(* A reconfiguration names the members of the specification. *)
LEMMA ReconfigKinds ==
  ASSUME NEW d \in Configured
  PROVE  /\ Reconfig(d) \in Configured
         /\ Reconfig(d).set = d.set /\ d.set # NoSet
         /\ Reconfig(d).version = d.version + 1 + Jump /\ d.version \in Nat
         /\ Reconfig(d).members = Node
<1>1. d.version \in Nat /\ d.set \in SetId /\ d.user \in {TRUE}
  BY DEF Configured
<1>2. d.set # NoSet
  BY <1>1, MemberAssumption DEF SetId, OldSets, Initiated, NoSet
<1>3. Node \in (SUBSET (Node \cup Other)) \ {{}} /\ d.version + 1 + Jump \in Nat
  BY <1>1, MemberAssumption
<1>4. Reconfig(d) \in Configured
  BY <1>3, Zenon DEF Reconfig, Configured
<1>5. Reconfig(d).set = d.set /\ Reconfig(d).members = Node
  BY DEF Reconfig, Configured
<1>6. Reconfig(d).version = d.version + 1 + Jump
  BY DEF Reconfig, Configured
<1>7. QED
  BY <1>1, <1>2, <1>4, <1>5, <1>6

(* Initiate makes a configuration of a set that nobody has. *)
LEMMA InitiateKinds ==
  ASSUME NEW k \in 1..MaxSets
  PROVE  LET d == [set |-> Initiated(k), version |-> 0, members |-> {Primary},
                   user |-> TRUE]
         IN  d \in Configured /\ d.set # NoSet
BY MemberAssumption
   DEF Configured, SetId, OldSets, Initiated, NoSet

(* What is written back is a configuration that was read.                   *)
LEMMA WrittenKinds ==
  ASSUME TypeOK, PrimaryInv, NEW n \in Node, pc[n] \in {"recover", "addWrite", "reconfWrite"}
  PROVE  /\ n = Primary /\ cfg[n] \in Configured /\ cfg[n] # Off
         /\ cfg[n].set # NoSet /\ Reconfig(cfg[n]) \in Data
<1>1. n = Primary /\ cfg[n] \in Configured /\ cfg[n] # Off
  BY DEF TypeOK, PrimaryInv
<1>2. QED
  BY <1>1, ReconfigKinds DEF Data

(* The types are kept: what is reconfigured is a configuration.             *)
LEMMA TypeStep == TypeOK /\ PrimaryInv /\ [Next]_vars => TypeOK'
<1> SUFFICES ASSUME TypeOK, PrimaryInv, [Next]_vars PROVE TypeOK'
  OBVIOUS
<1> USE MemberAssumption DEF TypeOK
<1>1. ASSUME NEW n \in Node, MongodExits(n) PROVE TypeOK'
  BY <1>1 DEF MongodExits, Fails
<1>2. ASSUME NEW n \in Node, Start(n) PROVE TypeOK'
  BY <1>2 DEF Start, Goes
<1>3. ASSUME NEW n \in Node, Ping(n) PROVE TypeOK'
  BY <1>3 DEF Ping, Goes
<1>4. ASSUME NEW n \in Node, PingPanics(n) PROVE TypeOK'
  BY <1>4 DEF PingPanics, Panics, Goes
<1>5. ASSUME NEW n \in Node, SelectExit(n) PROVE TypeOK'
  BY <1>5 DEF SelectExit, Panics, Goes
<1>6. ASSUME NEW n \in Node, SelectConfig(n) PROVE TypeOK'
  BY <1>6 DEF SelectConfig, Goes
<1>7. ASSUME NEW n \in Node, GetMemberStatus(n) PROVE TypeOK'
  BY <1>7
  DEF GetMemberStatus, Goes, Decides, WipeRequired, StartsSet, HasStaleConfig,
      ReconfNeeded
<1>8. ASSUME NEW n \in Node, StatusPanics(n) PROVE TypeOK'
  BY <1>8 DEF StatusPanics, Panics, Goes
<1>9. ASSUME NEW n \in Node, RecoverStale(n) PROVE TypeOK'
  BY <1>9, WrittenKinds DEF RecoverStale, Panics, Goes
<1>10. ASSUME NEW n \in Node, RecoverStaleFails(n) PROVE TypeOK'
  BY <1>10 DEF RecoverStaleFails, Fails, Written, Goes
<1>11. ASSUME NEW n \in Node, WipeDB(n) PROVE TypeOK'
  <2>1. Wiped \in Data
    BY DEF Data
  <2>2. QED
    BY <1>11, <2>1 DEF WipeDB, Goes
<1>12. ASSUME NEW n \in Node, WipePanics(n) PROVE TypeOK'
  <2>1. Wiped \in Data
    BY DEF Data
  <2>2. QED
    BY <1>12, <2>1 DEF WipePanics, Panics, Goes
<1>13. ASSUME NEW n \in Node, RestartMongod(n) PROVE TypeOK'
  BY <1>13 DEF RestartMongod, Goes
<1>14. ASSUME NEW n \in Node, Initiate(n) PROVE TypeOK'
  <2>1. n = Primary /\ created' \in 1..MaxSets
    BY <1>14 DEF Initiate, PrimaryInv
  <2>2. [set |-> Initiated(created'), version |-> 0, members |-> {n},
         user |-> TRUE] \in Data
    BY <2>1, InitiateKinds DEF Data
  <2>3. QED
    BY <1>14, <2>1, <2>2 DEF Initiate, Serves, Goes
<1>15. ASSUME NEW n \in Node, AddMember(n) PROVE TypeOK'
  BY <1>15, WrittenKinds DEF AddMember, Serves, Written, Goes
<1>16. ASSUME NEW n \in Node, InitiatePanics(n) PROVE TypeOK'
  BY <1>16 DEF InitiatePanics, Panics, Goes
<1>17. ASSUME NEW n \in Node, ReconfigPrimary(n) PROVE TypeOK'
  BY <1>17, WrittenKinds DEF ReconfigPrimary, Serves, Written, Goes
<1>18. ASSUME NEW n \in Node, ReconfigFails(n) PROVE TypeOK'
  BY <1>18 DEF ReconfigFails, Written, Goes, Fails
<1>19. ASSUME NEW n \in Node, Crash(n) PROVE TypeOK'
  BY <1>19 DEF Crash, Fails, Panics, Goes
<1>20. ASSUME NEW m \in Node, NEW n \in Node, Heartbeat(n, m) PROVE TypeOK'
  BY <1>20 DEF Heartbeat, Serves
<1>21. ASSUME NEW n \in Node, FindsStale(n) PROVE TypeOK'
  BY <1>21 DEF FindsStale, Goes
<1>22. ASSUME NEW n \in Node, ReplSetGetConfig(n) PROVE TypeOK'
  <2>1. mem[n] \in Configured
    BY <1>22, DataKinds DEF ReplSetGetConfig, Answers, PrimaryInv
  <2>2. WritesNext(pc[n]) \in {"recover", "addWrite", "reconfWrite"}
    BY <1>22 DEF ReplSetGetConfig, WritesNext
  <2>3. QED
    BY <1>22, <2>1, <2>2 DEF ReplSetGetConfig, Goes
<1>23. ASSUME NEW n \in Node, RecoverPanics(n) PROVE TypeOK'
  BY <1>23 DEF RecoverPanics, Panics, Goes
<1>24. CASE UNCHANGED vars
  BY <1>24 DEF vars
<1>25. QED
  BY <1>1, <1>2, <1>3, <1>4, <1>5, <1>6, <1>7, <1>8, <1>9, <1>10, <1>11,
     <1>12, <1>13, <1>14, <1>15, <1>16, <1>17, <1>18, <1>19, <1>20, <1>21,
     <1>22, <1>23, <1>24
  DEF Next, Member, HandlesConfig

(* Only the primary configures, it never wipes, and it starts a set only    *)
(* where its mongod has none.                                               *)
LEMMA PrimaryStep == TypeOK /\ PrimaryInv /\ [Next]_vars => PrimaryInv'
<1> SUFFICES ASSUME TypeOK, PrimaryInv, [Next]_vars PROVE PrimaryInv'
  OBVIOUS
<1> USE MemberAssumption, DataKinds, ReconfigKinds, InitiateKinds
    DEF TypeOK, PrimaryInv
<1>1. ASSUME NEW n \in Node, MongodExits(n) PROVE PrimaryInv'
  BY <1>1 DEF MongodExits, Fails
<1>2. ASSUME NEW n \in Node, Start(n) PROVE PrimaryInv'
  BY <1>2 DEF Start, Goes
<1>3. ASSUME NEW n \in Node, Ping(n) PROVE PrimaryInv'
  BY <1>3 DEF Ping, Goes
<1>4. ASSUME NEW n \in Node, PingPanics(n) PROVE PrimaryInv'
  BY <1>4 DEF PingPanics, Panics, Goes
<1>5. ASSUME NEW n \in Node, SelectExit(n) PROVE PrimaryInv'
  BY <1>5 DEF SelectExit, Panics, Goes
<1>6. ASSUME NEW n \in Node, SelectConfig(n) PROVE PrimaryInv'
  BY <1>6 DEF SelectConfig, Goes
<1>7. ASSUME NEW n \in Node, GetMemberStatus(n) PROVE PrimaryInv'
  <2>1. CASE n = Primary
    <3>1. mem[n] = disk[n] /\ disk[n] \in Data
      BY <1>7, <2>1 DEF GetMemberStatus, Answers
    <3>2. pc' = [pc EXCEPT ![Primary] = Decides(Primary, disk[Primary])]
          /\ UNCHANGED <<specSet, disk, mem, created>>
      BY <1>7, <2>1, <3>1 DEF GetMemberStatus, Goes
    <3>3. Decides(Primary, disk[Primary]) \in {"initiate", "reconfStale", "reconf", "loop"}
      BY DEF Decides
    <3>4. Decides(Primary, disk[Primary]) = "initiate" => specSet = NoSet
      BY DEF Decides, StartsSet, HasStaleConfig, WipeRequired
    <3>5. Decides(Primary, disk[Primary]) = "reconf" => disk[Primary].set # NoSet
      BY DEF Decides, StartsSet, HasStaleConfig, WipeRequired
    <3>6. QED
      BY <3>2, <3>3, <3>4, <3>5
  <2>2. CASE n # Primary
    <3>1. Decides(n, mem[n]) \in {"wipe", "loop"}
      BY <2>2 DEF Decides
    <3>2. QED
      BY <1>7, <2>2, <3>1 DEF GetMemberStatus, Goes
  <2>3. QED
    BY <2>1, <2>2
<1>8. ASSUME NEW n \in Node, StatusPanics(n) PROVE PrimaryInv'
  BY <1>8 DEF StatusPanics, Panics, Goes
<1>9. ASSUME NEW n \in Node, RecoverStale(n) PROVE PrimaryInv'
  <2>1. Reconfig(cfg[n]).set # NoSet /\ n = Primary
    BY <1>9, WrittenKinds, ReconfigKinds DEF RecoverStale
  <2>2. QED
    BY <1>9, <2>1 DEF RecoverStale, Accepts, Answers, Panics, Goes
<1>10. ASSUME NEW n \in Node, RecoverStaleFails(n) PROVE PrimaryInv'
  BY <1>10 DEF RecoverStaleFails, Fails, Written, Goes
<1>11. ASSUME NEW n \in Node, WipeDB(n) PROVE PrimaryInv'
  BY <1>11 DEF WipeDB, Goes
<1>12. ASSUME NEW n \in Node, WipePanics(n) PROVE PrimaryInv'
  BY <1>12 DEF WipePanics, Panics, Goes
<1>13. ASSUME NEW n \in Node, RestartMongod(n) PROVE PrimaryInv'
  BY <1>13 DEF RestartMongod, Goes
<1>14. ASSUME NEW n \in Node, Initiate(n) PROVE PrimaryInv'
  BY <1>14 DEF Initiate, Answers, Serves, Goes
<1>15. ASSUME NEW n \in Node, AddMember(n) PROVE PrimaryInv'
  <2>1. Reconfig(cfg[n]).set # NoSet /\ n = Primary
    BY <1>15, WrittenKinds, ReconfigKinds DEF AddMember
  <2>2. QED
    BY <1>15, <2>1 DEF AddMember, Accepts, Answers, Serves, Written, Goes
<1>16. ASSUME NEW n \in Node, InitiatePanics(n) PROVE PrimaryInv'
  BY <1>16 DEF InitiatePanics, Panics, Goes
<1>17. ASSUME NEW n \in Node, ReconfigPrimary(n) PROVE PrimaryInv'
  <2>1. Reconfig(cfg[n]).set # NoSet /\ n = Primary
    BY <1>17, WrittenKinds, ReconfigKinds DEF ReconfigPrimary
  <2>2. QED
    BY <1>17, <2>1 DEF ReconfigPrimary, Accepts, Answers, Serves, Written, Goes
<1>18. ASSUME NEW n \in Node, ReconfigFails(n) PROVE PrimaryInv'
  BY <1>18 DEF ReconfigFails, Written, Goes, Fails
<1>19. ASSUME NEW n \in Node, Crash(n) PROVE PrimaryInv'
  BY <1>19 DEF Crash, Fails, Panics, Goes
<1>20. ASSUME NEW m \in Node, NEW n \in Node, Heartbeat(n, m) PROVE PrimaryInv'
  BY <1>20 DEF Heartbeat, Serves
<1>21. ASSUME NEW n \in Node, FindsStale(n) PROVE PrimaryInv'
  BY <1>21 DEF FindsStale, IsRemoved, Answers, Goes
<1>22. ASSUME NEW n \in Node, ReplSetGetConfig(n) PROVE PrimaryInv'
  <2>1. WritesNext(pc[n]) \in {"recover", "addWrite", "reconfWrite"} /\ n = Primary
    BY <1>22 DEF ReplSetGetConfig, WritesNext
  <2>2. QED
    BY <1>22, <2>1 DEF ReplSetGetConfig, Answers, Goes
<1>23. ASSUME NEW n \in Node, RecoverPanics(n) PROVE PrimaryInv'
  BY <1>23 DEF RecoverPanics, Panics, Goes
<1>24. CASE UNCHANGED vars
  BY <1>24 DEF vars
<1>25. QED
  BY <1>1, <1>2, <1>3, <1>4, <1>5, <1>6, <1>7, <1>8, <1>9, <1>10, <1>11,
     <1>12, <1>13, <1>14, <1>15, <1>16, <1>17, <1>18, <1>19, <1>20, <1>21,
     <1>22, <1>23, <1>24
  DEF Next, Member, HandlesConfig

(* A step that lets one node hold d adds at most d. *)
LEMMA HeldGrows ==
  ASSUME NEW n \in Node, NEW d, TypeOK,
         mem' \in {mem, [mem EXCEPT ![n] = d], [mem EXCEPT ![n] = Off]},
         disk' \in {disk, [disk EXCEPT ![n] = d]},
         cfg' \in {cfg, [cfg EXCEPT ![n] = d], [cfg EXCEPT ![n] = Off]}
  PROVE  Held' \subseteq Held \cup {d}
<1>1. \A k \in Node : /\ disk'[k] \in {disk[k], d}
                     /\ mem'[k] \in {mem[k], d, Off}
                     /\ cfg'[k] \in {cfg[k], d, Off}
  BY DEF TypeOK
<1>2. QED
  BY <1>1 DEF Held

(* What is added must agree with what was there.                            *)
LEMMA HeldInvGrows ==
  ASSUME NEW d \in Data, TypeOK, HeldInv, created' \in Nat, created' >= created,
         Held' \subseteq Held \cup {d},
         d.version > Jump => d.members = Node,
         d.set <= Initiated(created'),
         \A c \in Held : AgreesWith(c, d)
  PROVE  HeldInv'
<1>1. \A c \in Held : c \in Data /\ c.set \in Nat
  BY DataKinds DEF Held, TypeOK, Data
<1>2. \A c \in Held \cup {d} : c.set <= Initiated(created')
  BY <1>1 DEF HeldInv, Plausible, Initiated, TypeOK
<1>3. \A c, e \in Held \cup {d} : AgreesWith(c, e)
  BY DEF HeldInv, AgreesWith
<1>4. \A c \in Held \cup {d} : c.version > Jump => c.members = Node
  BY DEF HeldInv, Plausible
<1>5. QED
  BY <1>2, <1>3, <1>4 DEF HeldInv, Plausible

(* What was held already, fresh data and a forced reconfiguration all fit. *)
LEMMA HeldFits ==
  ASSUME NEW d \in Data, TypeOK, HeldInv, UNCHANGED created,
         Held' \subseteq Held \cup {d},
         d \in Held \/ d = Wiped
           \/ \E c \in Held : c.set # NoSet /\ d = Reconfig(c)
  PROVE  HeldInv'
<1>1. CASE d \in Held
  <2>1. Held' \subseteq Held
    BY <1>1
  <2>2. QED
    BY <2>1 DEF HeldInv, Plausible
<1>2. CASE d = Wiped
  <2>1. d.set = NoSet /\ d.version = 0 /\ d.members = {}
    BY <1>2 DEF Wiped, Fresh
  <2>2. \A c \in Held : AgreesWith(c, d)
    BY <2>1, DataKinds DEF AgreesWith, Held, TypeOK, Data
  <2>3. d.set <= Initiated(created') /\ created' \in Nat /\ created' >= created
    BY <2>1, MemberAssumption DEF Initiated, NoSet, TypeOK
  <2>4. ~(d.version > Jump)
    BY <2>1, MemberAssumption
  <2>5. QED
    BY <2>2, <2>3, <2>4, HeldInvGrows
<1>3. ASSUME NEW c \in Held, c.set # NoSet, d = Reconfig(c) PROVE HeldInv'
  <2>1. c \in Data
    BY DEF Held, TypeOK, Data
  <2>2. c \in Configured
    BY <1>3, <2>1, DataKinds
  <2>3. /\ d.set = c.set /\ d.members = Node
        /\ d.version = c.version + 1 + Jump /\ c.version \in Nat
    BY <1>3, <2>2, ReconfigKinds
  <2>4. d.version > Jump
    BY <2>3, MemberAssumption
  <2>5. \A e \in Held : AgreesWith(e, d)
    BY <2>3, <2>4 DEF HeldInv, Plausible, AgreesWith
  <2>6. d.set <= Initiated(created') /\ created' \in Nat /\ created' >= created
    BY <2>3, MemberAssumption DEF HeldInv, Plausible, TypeOK
  <2>7. QED
    BY <2>3, <2>5, <2>6, HeldInvGrows
<1>4. QED
  BY <1>1, <1>2, <1>3

(* Each step lets a mongod or a disk hold what one held before, nothing, a  *)
(* reconfiguration, or the first version of a new set.                      *)
LEMMA HeldStep == TypeOK /\ PrimaryInv /\ HeldInv /\ [Next]_vars => HeldInv'
<1> SUFFICES ASSUME TypeOK, PrimaryInv, HeldInv, [Next]_vars PROVE HeldInv'
  OBVIOUS
<1>1. ASSUME NEW n \in Node, MongodExits(n) PROVE HeldInv'
  <2>1. disk[n] \in Held /\ disk[n] \in Data
    BY <1>1 DEF Held, MongodExits, TypeOK
  <2>2. Held' \subseteq Held \cup {disk[n]}
    BY <1>1, HeldGrows DEF MongodExits, Fails
  <2>3. QED
    BY <1>1, <2>1, <2>2, HeldFits DEF MongodExits
<1>2. ASSUME NEW n \in Node, Start(n) PROVE HeldInv'
  <2>1. disk[n] \in Held /\ disk[n] \in Data
    BY <1>2 DEF Held, Start, TypeOK
  <2>2. Held' \subseteq Held \cup {disk[n]}
    BY <1>2, HeldGrows DEF Start, Goes
  <2>3. QED
    BY <1>2, <2>1, <2>2, HeldFits DEF Start
<1>3. ASSUME NEW n \in Node, Ping(n) PROVE HeldInv'
  BY <1>3 DEF Ping, HeldInv, Held, Plausible
<1>4. ASSUME NEW n \in Node, PingPanics(n) PROVE HeldInv'
  <2>1. disk[n] \in Held /\ disk[n] \in Data
    BY <1>4 DEF Held, PingPanics, TypeOK
  <2>2. Held' \subseteq Held \cup {disk[n]}
    BY <1>4, HeldGrows DEF PingPanics, Panics, Goes
  <2>3. QED
    BY <1>4, <2>1, <2>2, HeldFits DEF PingPanics
<1>5. ASSUME NEW n \in Node, SelectExit(n) PROVE HeldInv'
  <2>1. disk[n] \in Held /\ disk[n] \in Data
    BY <1>5 DEF Held, SelectExit, TypeOK
  <2>2. Held' \subseteq Held \cup {disk[n]}
    BY <1>5, HeldGrows DEF SelectExit, Panics, Goes
  <2>3. QED
    BY <1>5, <2>1, <2>2, HeldFits DEF SelectExit
<1>6. ASSUME NEW n \in Node, SelectConfig(n) PROVE HeldInv'
  BY <1>6 DEF SelectConfig, HeldInv, Held, Plausible
<1>7. ASSUME NEW n \in Node, GetMemberStatus(n) PROVE HeldInv'
  BY <1>7 DEF GetMemberStatus, HeldInv, Held, Plausible
<1>8. ASSUME NEW n \in Node, StatusPanics(n) PROVE HeldInv'
  <2>1. disk[n] \in Held /\ disk[n] \in Data
    BY <1>8 DEF Held, StatusPanics, TypeOK
  <2>2. Held' \subseteq Held \cup {disk[n]}
    BY <1>8, HeldGrows DEF StatusPanics, Panics, Goes
  <2>3. QED
    BY <1>8, <2>1, <2>2, HeldFits DEF StatusPanics
<1>9. ASSUME NEW n \in Node, RecoverStale(n) PROVE HeldInv'
  <2>1. cfg[n] \in Held /\ cfg[n].set # NoSet /\ Reconfig(cfg[n]) \in Data
    BY <1>9, WrittenKinds DEF RecoverStale, Held
  <2>2. Held' \subseteq Held \cup {Reconfig(cfg[n])}
    BY <1>9, HeldGrows DEF RecoverStale, Panics, Goes
  <2>3. QED
    BY <1>9, <2>1, <2>2, HeldFits DEF RecoverStale
<1>10. ASSUME NEW n \in Node, RecoverStaleFails(n) PROVE HeldInv'
  <2>1. disk[n] \in Held /\ disk[n] \in Data
    BY <1>10 DEF Held, RecoverStaleFails, TypeOK
  <2>2. Held' \subseteq Held \cup {disk[n]}
    BY <1>10, HeldGrows DEF RecoverStaleFails, Written, Goes
  <2>3. QED
    BY <1>10, <2>1, <2>2, HeldFits DEF RecoverStaleFails
<1>11. ASSUME NEW n \in Node, WipeDB(n) PROVE HeldInv'
  <2>1. Wiped \in Data
    BY DEF Data
  <2>2. Held' \subseteq Held \cup {Wiped}
    BY <1>11, HeldGrows DEF WipeDB, Goes
  <2>3. QED
    BY <1>11, <2>1, <2>2, HeldFits DEF WipeDB
<1>12. ASSUME NEW n \in Node, WipePanics(n) PROVE HeldInv'
  <2>1. Wiped \in Data
    BY DEF Data
  <2>2. Held' \subseteq Held \cup {Wiped}
    BY <1>12, HeldGrows DEF WipePanics, Panics, Goes
  <2>3. QED
    BY <1>12, <2>1, <2>2, HeldFits DEF WipePanics
<1>13. ASSUME NEW n \in Node, RestartMongod(n) PROVE HeldInv'
  <2>1. disk[n] \in Held /\ disk[n] \in Data
    BY <1>13 DEF Held, RestartMongod, TypeOK
  <2>2. Held' \subseteq Held \cup {disk[n]}
    BY <1>13, HeldGrows DEF RestartMongod, Goes
  <2>3. QED
    BY <1>13, <2>1, <2>2, HeldFits DEF RestartMongod
<1>14. ASSUME NEW n \in Node, Initiate(n) PROVE HeldInv'
  <2> DEFINE d == [set |-> Initiated(created'), version |-> 0, members |-> {n},
                   user |-> TRUE]
  <2>1. n = Primary /\ created' \in 1..MaxSets /\ created' = created + 1
    BY <1>14, MemberAssumption DEF Initiate, PrimaryInv, TypeOK
  <2>2. d \in Data
    BY <2>1, InitiateKinds DEF Data
  <2>3. Held' \subseteq Held \cup {d}
    BY <1>14, HeldGrows DEF Initiate, Serves, Goes
  <2>4. \A c \in Held : c.set \in Nat /\ c.set < Initiated(created')
    BY <2>1, MemberAssumption, DataKinds
    DEF Held, HeldInv, Plausible, TypeOK, Data, Initiated
  <2>5. d.set = Initiated(created') /\ d.version = 0
    OBVIOUS
  <2>6. \A c \in Held : AgreesWith(c, d)
    BY <2>4, <2>5 DEF AgreesWith
  <2>7. /\ created' \in Nat /\ created' >= created
        /\ Initiated(created') <= Initiated(created') /\ ~(0 > Jump)
    BY <2>1, MemberAssumption DEF Initiated, TypeOK
  <2>8. QED
    BY <2>2, <2>3, <2>5, <2>6, <2>7, HeldInvGrows
<1>15. ASSUME NEW n \in Node, AddMember(n) PROVE HeldInv'
  <2>1. cfg[n] \in Held /\ cfg[n].set # NoSet /\ Reconfig(cfg[n]) \in Data
    BY <1>15, WrittenKinds DEF AddMember, Held
  <2>2. Held' \subseteq Held \cup {Reconfig(cfg[n])}
    BY <1>15, HeldGrows DEF AddMember, Serves, Written, Goes
  <2>3. QED
    BY <1>15, <2>1, <2>2, HeldFits DEF AddMember
<1>16. ASSUME NEW n \in Node, InitiatePanics(n) PROVE HeldInv'
  <2>1. disk[n] \in Held /\ disk[n] \in Data
    BY <1>16 DEF Held, InitiatePanics, TypeOK
  <2>2. Held' \subseteq Held \cup {disk[n]}
    BY <1>16, HeldGrows DEF InitiatePanics, Panics, Goes
  <2>3. QED
    BY <1>16, <2>1, <2>2, HeldFits DEF InitiatePanics
<1>17. ASSUME NEW n \in Node, ReconfigPrimary(n) PROVE HeldInv'
  <2>1. cfg[n] \in Held /\ cfg[n].set # NoSet /\ Reconfig(cfg[n]) \in Data
    BY <1>17, WrittenKinds DEF ReconfigPrimary, Held
  <2>2. Held' \subseteq Held \cup {Reconfig(cfg[n])}
    BY <1>17, HeldGrows DEF ReconfigPrimary, Serves, Written, Goes
  <2>3. QED
    BY <1>17, <2>1, <2>2, HeldFits DEF ReconfigPrimary
<1>18. ASSUME NEW n \in Node, ReconfigFails(n) PROVE HeldInv'
  <2>1. disk[n] \in Held /\ disk[n] \in Data
    BY <1>18 DEF Held, ReconfigFails, TypeOK
  <2>2. Held' \subseteq Held \cup {disk[n]}
    BY <1>18, HeldGrows DEF ReconfigFails, Written, Goes
  <2>3. QED
    BY <1>18, <2>1, <2>2, HeldFits DEF ReconfigFails
<1>19. ASSUME NEW n \in Node, Crash(n) PROVE HeldInv'
  <2>1. disk[n] \in Held /\ disk[n] \in Data
    BY <1>19 DEF Held, Crash, TypeOK
  <2>2. Held' \subseteq Held \cup {disk[n]}
    BY <1>19, HeldGrows DEF Crash, Panics, Fails, Goes
  <2>3. QED
    BY <1>19, <2>1, <2>2, HeldFits DEF Crash
<1>20. ASSUME NEW m \in Node, NEW n \in Node, Heartbeat(n, m) PROVE HeldInv'
  <2>1. mem[n] \in Held /\ mem[n] \in Data
    BY <1>20 DEF Held, Heartbeat, TypeOK
  <2>2. Held' \subseteq Held \cup {mem[n]}
    BY <1>20, HeldGrows DEF Heartbeat, Serves
  <2>3. QED
    BY <1>20, <2>1, <2>2, HeldFits DEF Heartbeat
<1>21. ASSUME NEW n \in Node, FindsStale(n) PROVE HeldInv'
  BY <1>21 DEF FindsStale, HeldInv, Held, Plausible
<1>22. ASSUME NEW n \in Node, ReplSetGetConfig(n) PROVE HeldInv'
  <2>1. mem[n] \in Held /\ mem[n] \in Data
    BY <1>22 DEF Held, ReplSetGetConfig, Answers, TypeOK
  <2>2. Held' \subseteq Held \cup {mem[n]}
    BY <1>22, HeldGrows DEF ReplSetGetConfig, Goes
  <2>3. QED
    BY <1>22, <2>1, <2>2, HeldFits DEF ReplSetGetConfig
<1>23. ASSUME NEW n \in Node, RecoverPanics(n) PROVE HeldInv'
  <2>1. disk[n] \in Held /\ disk[n] \in Data
    BY <1>23 DEF Held, RecoverPanics, TypeOK
  <2>2. Held' \subseteq Held \cup {disk[n]}
    BY <1>23, HeldGrows DEF RecoverPanics, Panics, Goes
  <2>3. QED
    BY <1>23, <2>1, <2>2, HeldFits DEF RecoverPanics
<1>24. CASE UNCHANGED vars
  BY <1>24 DEF vars, HeldInv, Held, Plausible
<1>25. QED
  BY <1>1, <1>2, <1>3, <1>4, <1>5, <1>6, <1>7, <1>8, <1>9, <1>10, <1>11,
     <1>12, <1>13, <1>14, <1>15, <1>16, <1>17, <1>18, <1>19, <1>20, <1>21,
     <1>22, <1>23, <1>24
  DEF Next, Member, HandlesConfig

(* The tasks start on data that agree.                                      *)
LEMMA MemberInit == Init => MemberInv
<1> SUFFICES ASSUME Init PROVE MemberInv
  OBVIOUS
<1> DEFINE Old == [set : OldSets, version : 0..Jump,
                   members : (SUBSET (Node \cup Other)) \ {{}}, user : {TRUE}]
<1>1. OldData \subseteq Data
  <2>1. OldSets \subseteq SetId /\ 0..Jump \subseteq Nat
    BY MemberAssumption DEF SetId
  <2>2. Old \subseteq Configured
    BY <2>1, Zenon DEF Configured
  <2>3. QED
    BY <2>2 DEF OldData, Data
<1>2. TypeOK
  <2>1. disk \in [Node -> Data]
    BY <1>1 DEF Init
  <2>2. specSet \in {NoSet} \cup OldSets
    <3>1. disk[Primary].set \in {NoSet, specSet} /\ specSet \in {disk[Primary].set, 1}
      BY DEF Init
    <3>2. disk[Primary] \in OldData
      BY MemberAssumption DEF Init
    <3>3. (\A d \in Old : d.set \in OldSets) /\ Fresh.set = NoSet
      BY DEF Fresh
    <3>4. disk[Primary].set \in {NoSet} \cup OldSets
      BY <3>2, <3>3 DEF OldData
    <3>5. QED
      BY <3>1, <3>4 DEF OldSets
  <2>3. /\ mem \in [Node -> Data \cup {Off}] /\ exited \in [Node -> BOOLEAN]
        /\ cfg \in [Node -> Configured \cup {Off}]
    BY DEF Init
  <2>4. created \in 0..MaxSets /\ failures \in 0..MaxFailures
    BY MemberAssumption DEF Init
  <2>5. QED
    BY <2>1, <2>2, <2>3, <2>4 DEF Init, TypeOK
<1>3. PrimaryInv
  BY MemberAssumption DEF Init, PrimaryInv
<1>4. Held = {disk[n] : n \in Node}
  BY DEF Held, Init
<1>5. \A c \in Held : Plausible(c)
  <2>1. \A d \in OldData : d.set \in {0, 1, 2} /\ d.version \in 0..Jump
    <3>1. \A d \in Old : d.set \in {1, 2} /\ d.version \in 0..Jump
      BY DEF OldSets
    <3>2. Fresh.set = 0 /\ Fresh.version = 0 /\ 0 \in 0..Jump
      BY MemberAssumption DEF Fresh, NoSet
    <3>3. QED
      BY <3>1, <3>2 DEF OldData
  <2>2. \A c \in Held : c \in OldData
    BY <1>4 DEF Init
  <2>3. QED
    BY <2>1, <2>2, MemberAssumption DEF Plausible, Initiated, Init
<1>6. \A c, d \in Held : AgreesWith(c, d)
  BY <1>4 DEF Init, ConfigsAgreeIn, AgreesWith
<1>7. QED
  BY <1>2, <1>3, <1>5, <1>6 DEF MemberInv, HeldInv

(* What is proved inductive.                                                *)
LEMMA MemberStep == MemberInv /\ [Next]_vars => MemberInv'
BY TypeStep, PrimaryStep, HeldStep DEF MemberInv

LEMMA MemberInvariant == Spec => []MemberInv
BY MemberInit, MemberStep, PTL DEF Spec

-----------------------------------------------------------------------------
(* Every variable has its type; what a mongod holds is a configuration of a *)
(* set or nothing at all.                                                   *)
THEOREM TypeCorrect == Spec => []TypeOK
<1>1. MemberInv => TypeOK
  BY DEF MemberInv
<1>2. QED
  BY MemberInvariant, <1>1, PTL

(* A specification founds one replica set at most, and none where it was    *)
(* drawn from an existing one, over any panics, restarts and repeated       *)
(* deliveries.                                                              *)
THEOREM AtMostOneSet == Spec => []OneSet
<1>1. Init => OneSet
  BY DEF Init, OneSet
<1>2. MemberInv /\ OneSet /\ [Next]_vars => OneSet'
  <2> SUFFICES ASSUME MemberInv, OneSet, [Next]_vars PROVE OneSet'
    OBVIOUS
  <2>1. ASSUME NEW n \in Node, Initiate(n) PROVE OneSet'
    <3>1. n = Primary /\ specSet = NoSet
      BY <2>1 DEF Initiate, MemberInv, PrimaryInv
    <3>2. mem[Primary] = disk[Primary] /\ mem[Primary].set = NoSet
      BY <2>1, <3>1 DEF Initiate, Answers, MemberInv, PrimaryInv
    <3>3. created = 0
      BY <3>2 DEF MemberInv, PrimaryInv, TypeOK
    <3>4. QED
      BY <2>1, <3>1, <3>3 DEF Initiate, OneSet
  <2>2. CASE UNCHANGED <<created, specSet>>
    BY <2>2 DEF OneSet
  <2>3. QED
    BY <2>1, <2>2
    DEF Next, Member, HandlesConfig, vars, MongodExits, Start, Ping, PingPanics,
        SelectExit, SelectConfig, GetMemberStatus, StatusPanics, FindsStale,
        ReplSetGetConfig, RecoverStale, RecoverPanics, RecoverStaleFails, WipeDB,
        WipePanics, RestartMongod, AddMember,
        InitiatePanics, ReconfigPrimary, ReconfigFails, Crash, Heartbeat
<1>3. QED
  BY MemberInvariant, <1>1, <1>2, PTL DEF Spec

(* No two disks hold the same version of one set with different members,    *)
(* although every reconfiguration is forced.                                *)
THEOREM ConfigurationsAgree == Spec => []ConfigsAgree
<1>1. MemberInv => ConfigsAgree
  BY DEF MemberInv, HeldInv, Held, AgreesWith, ConfigsAgree, ConfigsAgreeIn
<1>2. QED
  BY MemberInvariant, <1>1, PTL

(* The primary never loses the replica set its disk is in. *)
THEOREM PrimaryKeeps == Spec => PrimaryKeepsItsSet
<1> DEFINE Keeps == disk[Primary].set # NoSet => disk'[Primary].set = disk[Primary].set
<1>1. ASSUME MemberInv, [Next]_vars PROVE Keeps
  <2> USE <1>1, MemberAssumption DEF MemberInv, TypeOK
  <2>1. CASE UNCHANGED disk
    BY <2>1
  <2>2. ASSUME NEW n \in Node, WipeDB(n) \/ WipePanics(n) PROVE Keeps
    BY <2>2 DEF WipeDB, WipePanics, PrimaryInv
  <2>3. ASSUME NEW n \in Node, RecoverStale(n) \/ AddMember(n) \/ ReconfigPrimary(n)
        PROVE  Keeps
    <3>1. n = Primary /\ mem[n] = disk[n] /\ cfg[n].set = disk[n].set
      BY <2>3, WrittenKinds
      DEF RecoverStale, AddMember, ReconfigPrimary, Accepts, Answers, PrimaryInv
    <3>2. Reconfig(cfg[n]).set = cfg[n].set
      BY <2>3, WrittenKinds, ReconfigKinds DEF RecoverStale, AddMember, ReconfigPrimary
    <3>3. disk' = [disk EXCEPT ![n] = Reconfig(cfg[n])]
      BY <2>3, <3>1 DEF RecoverStale, AddMember, ReconfigPrimary, Serves
    <3>4. QED
      BY <3>1, <3>2, <3>3
  <2>4. ASSUME NEW n \in Node, Initiate(n) PROVE Keeps
    BY <2>4 DEF Initiate, Answers, Serves, PrimaryInv
  <2>5. ASSUME NEW m \in Node, NEW n \in Node, Heartbeat(n, m) PROVE Keeps
    BY <2>5 DEF Heartbeat, Serves, PrimaryInv
  <2>6. QED
    BY <1>1, <2>1, <2>2, <2>3, <2>4, <2>5
    DEF Next, Member, HandlesConfig, vars, MongodExits, Start, Ping, PingPanics,
        SelectExit, SelectConfig, GetMemberStatus, StatusPanics, FindsStale,
        ReplSetGetConfig, RecoverPanics, RecoverStaleFails, RestartMongod,
        InitiatePanics, ReconfigFails, Crash
<1>2. QED
  BY MemberInvariant, <1>1, PTL DEF Spec, PrimaryKeepsItsSet
-----------------------------------------------------------------------------
(* A mongod whose files differ from what it serves had them removed, and a  *)
(* member that is about to wipe has a set that was not asked for, also if   *)
(* it has heard of newer configurations since it looked.                    *)
FilesInv ==
  \A n \in Node : mem[n] # Off => disk[n] = mem[n] \/ disk[n].set = NoSet

WipeInv ==
  \A n \in Node : pc[n] = "wipe" =>
    /\ mem[n] # Off => mem[n].set \notin {NoSet, specSet}
    /\ disk[n].set = NoSet \/ disk[n].set # specSet

KeepInv == MemberInv /\ FilesInv /\ WipeInv

SetKept == \A n \in Node :
  specSet # NoSet /\ disk[n].set = specSet => disk'[n].set = specSet

(* What a mongod comes to serve reaches its files, or they are gone. *)
LEMMA ServesFiles ==
  ASSUME TypeOK, FilesInv, NEW m \in Node, mem[m] # Off, NEW d, Serves(m, d)
  PROVE  /\ \A n \in Node : n # m => mem'[n] = mem[n] /\ disk'[n] = disk[n]
         /\ mem'[m] = d
         /\ \/ disk[m] = mem[m] /\ disk'[m] = d
            \/ disk[m].set = NoSet /\ disk'[m] = disk[m]
BY DEF TypeOK, FilesInv, Serves

(* A mongod that gets a new configuration of its set, or its first, keeps   *)
(* the files in step; nobody about to wipe gets a first one.                *)
LEMMA ServesKeeps ==
  ASSUME TypeOK, FilesInv, WipeInv, NEW m \in Node, mem[m] # Off, NEW d, Serves(m, d),
         mem[m].set = NoSet => pc'[m] # "wipe",
         d.set = mem[m].set \/ mem[m].set = NoSet,
         \A n \in Node : pc'[n] = "wipe" => pc[n] = "wipe",
         specSet' = specSet
  PROVE  FilesInv' /\ WipeInv' /\ SetKept
<1>1. FilesInv'
  BY ServesFiles DEF FilesInv
<1>2. WipeInv'
  BY ServesFiles DEF WipeInv
<1>3. SetKept
  BY ServesFiles DEF SetKept
<1>4. QED
  BY <1>1, <1>2, <1>3

(* Steps that write no files and start no wipe. *)
LEMMA FilesKeep ==
  ASSUME TypeOK, FilesInv, WipeInv, UNCHANGED <<disk, specSet>>,
         \A n \in Node : pc'[n] = "wipe" => pc[n] = "wipe" /\ mem'[n] \in {mem[n], Off},
         \A n \in Node : mem'[n] \in {mem[n], Off, disk[n]}
  PROVE  FilesInv' /\ WipeInv' /\ SetKept
BY DEF FilesInv, WipeInv, SetKept

LEMMA KeepStep == KeepInv /\ [Next]_vars => KeepInv' /\ SetKept
<1> SUFFICES ASSUME MemberInv, FilesInv, WipeInv, [Next]_vars
             PROVE  FilesInv' /\ WipeInv' /\ SetKept
  BY MemberStep DEF KeepInv
<1>0. TypeOK /\ PrimaryInv
  BY DEF MemberInv
<1>1. ASSUME NEW n \in Node, MongodExits(n) \/ Start(n) \/ Ping(n) \/ SelectConfig(n)
                             \/ FindsStale(n) \/ RecoverStaleFails(n)
                             \/ RestartMongod(n) \/ ReconfigFails(n)
      PROVE  FilesInv' /\ WipeInv' /\ SetKept
  BY <1>0, <1>1, FilesKeep
  DEF TypeOK, MongodExits, Start, Ping, SelectConfig, FindsStale, RecoverStaleFails,
      RestartMongod, ReconfigFails, Goes
<1>2. ASSUME NEW n \in Node, PingPanics(n) \/ SelectExit(n) \/ StatusPanics(n)
                             \/ RecoverPanics(n) \/ InitiatePanics(n) \/ Crash(n)
      PROVE  FilesInv' /\ WipeInv' /\ SetKept
  BY <1>0, <1>2, FilesKeep
  DEF TypeOK, PingPanics, SelectExit, StatusPanics, RecoverPanics, InitiatePanics, Crash,
      Panics, Goes
<1>3. ASSUME NEW n \in Node, GetMemberStatus(n)
      PROVE  FilesInv' /\ WipeInv' /\ SetKept
  <2>1. mem[n] # Off /\ UNCHANGED <<disk, mem, specSet>>
    BY <1>3 DEF GetMemberStatus, Answers
  <2>2. \A k \in Node : pc'[k] = IF k = n THEN Decides(n, mem[n]) ELSE pc[k]
    BY <1>0, <1>3 DEF GetMemberStatus, Goes, TypeOK
  <2>3. Decides(n, mem[n]) = "wipe" => mem[n].set \notin {NoSet, specSet}
    BY DEF Decides, WipeRequired
  <2>4. WipeInv'
    BY <2>1, <2>2, <2>3 DEF WipeInv, FilesInv
  <2>5. QED
    BY <2>1, <2>4 DEF FilesInv, SetKept
<1>4. ASSUME NEW n \in Node, WipeDB(n) \/ WipePanics(n)
      PROVE  FilesInv' /\ WipeInv' /\ SetKept
  <2>1. /\ pc[n] = "wipe" /\ specSet' = specSet
        /\ disk' \in {disk, [disk EXCEPT ![n] = Wiped]}
        /\ \A k \in Node : pc'[k] = "wipe" => k # n /\ pc[k] = "wipe"
        /\ \A k \in Node : mem'[k] \in {mem[k], Off}
    BY <1>0, <1>4 DEF WipeDB, WipePanics, Panics, Goes, TypeOK
  <2>2. Wiped.set = NoSet
    BY DEF Wiped, Fresh
  <2>3. \A k \in Node : disk'[k] = disk[k] \/ (k = n /\ disk'[k].set = NoSet)
    BY <1>0, <2>1, <2>2 DEF TypeOK
  <2>4. FilesInv' /\ WipeInv'
    BY <2>1, <2>3 DEF FilesInv, WipeInv
  <2>5. SetKept
    BY <2>1, <2>3 DEF WipeInv, SetKept
  <2>6. QED
    BY <2>4, <2>5
<1>5. ASSUME NEW n \in Node, RecoverStale(n)
      PROVE  FilesInv' /\ WipeInv' /\ SetKept
  <2>1. /\ mem[n] # Off /\ specSet' = specSet /\ cfg[n].set = mem[n].set
        /\ disk' = IF disk[n] = mem[n] THEN [disk EXCEPT ![n] = Reconfig(cfg[n])] ELSE disk
        /\ \A k \in Node : pc'[k] = "wipe" => k # n /\ pc[k] = "wipe"
        /\ \A k \in Node : mem'[k] = IF k = n THEN Off ELSE mem[k]
    BY <1>0, <1>5 DEF RecoverStale, Accepts, Answers, Panics, Goes, TypeOK
  <2>2. Reconfig(cfg[n]).set = cfg[n].set
    BY <1>0, <1>5, WrittenKinds, ReconfigKinds DEF RecoverStale
  <2>3. \A k \in Node : disk'[k] = disk[k] \/ (k = n /\ disk'[k].set = disk[k].set)
    BY <1>0, <2>1, <2>2 DEF TypeOK
  <2>4. QED
    BY <2>1, <2>3 DEF FilesInv, WipeInv, SetKept
<1>6. ASSUME NEW n \in Node, Initiate(n)
      PROVE  FilesInv' /\ WipeInv' /\ SetKept
  BY <1>0, <1>6, ServesKeeps DEF Initiate, Answers, Goes, TypeOK
<1>7. ASSUME NEW n \in Node, AddMember(n) \/ ReconfigPrimary(n)
      PROVE  FilesInv' /\ WipeInv' /\ SetKept
  <2>1. /\ mem[n] # Off /\ Serves(n, Reconfig(cfg[n])) /\ specSet' = specSet
        /\ cfg[n].set = mem[n].set
    BY <1>7 DEF AddMember, ReconfigPrimary, Accepts, Answers
  <2>2. \A k \in Node : pc'[k] = "wipe" => k # n /\ pc[k] = "wipe"
    BY <1>0, <1>7 DEF AddMember, ReconfigPrimary, Goes, TypeOK
  <2>3. Reconfig(cfg[n]).set = mem[n].set
    BY <1>0, <1>7, <2>1, WrittenKinds, ReconfigKinds DEF AddMember, ReconfigPrimary
  <2>4. QED
    BY <1>0, <2>1, <2>2, <2>3, ServesKeeps
<1>8. ASSUME NEW m \in Node, NEW n \in Node, Heartbeat(n, m)
      PROVE  FilesInv' /\ WipeInv' /\ SetKept
  <2>1. /\ mem[m] # Off /\ Serves(m, mem[n]) /\ UNCHANGED <<specSet, pc>>
        /\ mem[n].set = mem[m].set \/ mem[m].set = NoSet
    BY <1>8 DEF Heartbeat
  <2>2. mem[m].set = NoSet => pc'[m] # "wipe"
    BY <2>1 DEF WipeInv
  <2>3. QED
    BY <1>0, <2>1, <2>2, ServesKeeps
<1>9. ASSUME NEW n \in Node, ReplSetGetConfig(n)
      PROVE  FilesInv' /\ WipeInv' /\ SetKept
  <2>1. WritesNext(pc[n]) # "wipe"
    BY <1>9 DEF ReplSetGetConfig, WritesNext
  <2>2. QED
    BY <1>0, <1>9, <2>1, FilesKeep DEF ReplSetGetConfig, Goes, TypeOK
<1>10. CASE UNCHANGED vars
  BY <1>0, <1>10 DEF vars, FilesInv, WipeInv, SetKept
<1>11. QED
  BY <1>1, <1>2, <1>3, <1>4, <1>5, <1>6, <1>7, <1>8, <1>9, <1>10
  DEF Next, Member, HandlesConfig

(* Where the specification was drawn from an existing replica set, no       *)
(* member that is in it loses it, over any panics, repeated specifications, *)
(* heartbeats and half-done wipes.                                          *)
THEOREM MembersKeep == Spec => SpecifiedSetIsKept
<1>1. Init => KeepInv
  <2>1. Init => FilesInv /\ WipeInv
    BY DEF Init, FilesInv, WipeInv
  <2>2. QED
    BY <2>1, MemberInit DEF KeepInv
<1>2. KeepInv /\ [Next]_vars => SetKept
  BY KeepStep
<1>3. QED
  BY <1>1, <1>2, KeepStep, PTL DEF Spec, SpecifiedSetIsKept, SetKept
=============================================================================
