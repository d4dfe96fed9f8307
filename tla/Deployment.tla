----------------------------- MODULE Deployment -----------------------------
(***************************************************************************)
(* What a controller of a replica set promises, without its goroutines,    *)
(* timers and queue: each of its processes chooses at most once, among the *)
(* best candidates of a list of reports that Consul had while the process  *)
(* lived, puts what it has chosen before it registers it, and records      *)
(* nothing else.  The process may give up or end at any time.              *)
(***************************************************************************)
EXTENDS Naturals

CONSTANTS
  Node, Position, Kind, SetSize,   \* see ReplicaControl
  None                             \* no specification

VARIABLES
  reports,    \* the candidate reports in Consul
  config,     \* the specification in Consul
  job,        \* the specification that Nomad runs
  seen,       \* the lists of reports that the process still has
  decided,    \* whether it has chosen
  choice,     \* what it has chosen and is publishing
  recorded    \* what it has published

deployed == <<config, job>>
vars == <<reports, deployed, seen, decided, choice, recorded>>

-----------------------------------------------------------------------------
Report == [node : Node, pos : Position]

(* Whose data come first: a longer oplog, or an older data directory. *)
Ahead(r, s) == IF Kind = "mongo" THEN r.pos > s.pos ELSE r.pos < s.pos

(* The best candidates of a list, each once: nobody is left out whose data  *)
(* come before those of a chosen one.  A kafka set may be left without      *)
(* members, when the list is short.                                         *)
Choices(S) ==
  { s \in [1..SetSize -> Node] \cup (IF Kind = "mongo" THEN {} ELSE [1..0 -> Node]) :
      /\ \A i, j \in DOMAIN s : s[i] = s[j] => i = j
      /\ \A i \in DOMAIN s : \E r \in S :
           /\ r.node = s[i]
           /\ \A q \in S : Ahead(q, r) => \E j \in 1..(i - 1) : s[j] = q.node }

Init ==
  /\ reports \in SUBSET Report
  /\ config = None /\ job = None
  /\ seen = {}
  /\ decided = FALSE
  /\ choice = None
  /\ recorded = None

(* Nodes report and are lost. *)
ReportsChange ==
  /\ reports' \in SUBSET Report
  /\ UNCHANGED <<deployed, seen, decided, choice, recorded>>

(* The process reads the reports, or forgets lists it has read. *)
Look ==
  /\ UNCHANGED <<reports, deployed, decided, choice, recorded>>
  /\ seen' \subseteq seen \cup {reports}

Choose ==
  /\ ~decided
  /\ decided' = TRUE
  /\ \E S \in seen : choice' \in Choices(S)
  /\ UNCHANGED <<reports, deployed, seen, recorded>>

Put ==
  /\ choice # None
  /\ config' = choice
  /\ UNCHANGED <<reports, job, seen, decided, choice, recorded>>

Register ==
  /\ choice # None
  /\ config = choice
  /\ job' = choice
  /\ recorded' = choice
  /\ choice' = None
  /\ seen' \subseteq seen
  /\ UNCHANGED <<reports, config, decided>>

(* The put or the registration fails, with or without an effect. *)
GiveUp ==
  /\ choice # None
  /\ \/ config' \in {config, choice} /\ UNCHANGED job
     \/ config = choice /\ job' \in {job, choice} /\ UNCHANGED config
  /\ choice' = None
  /\ seen' \subseteq seen
  /\ UNCHANGED <<reports, decided, recorded>>

(* Another process follows, which knows nothing of the last. *)
StartAgain ==
  /\ seen' = {}
  /\ decided' = FALSE
  /\ choice' = None
  /\ recorded' = None
  /\ UNCHANGED <<reports, deployed>>

Next ==
  \/ Look
  \/ ReportsChange
  \/ Choose
  \/ Put
  \/ Register
  \/ GiveUp
  \/ StartAgain

Spec == Init /\ [][Next]_vars
=============================================================================
