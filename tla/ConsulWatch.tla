---------------------------- MODULE ConsulWatch ----------------------------
(***************************************************************************)
(* The three watches of the Consul store (internal/store/store.go):        *)
(* WatchCandidateReports and WatchHealthStatus list the keys under a path, *)
(* WatchReplSetConfig gets one key.  Each starts a goroutine that repeats  *)
(* a blocking query and sends what it returns through a channel of one     *)
(* place; the reader, the loop of the controller or of a member, takes it  *)
(* from there whenever it comes round to it.                               *)
(*                                                                         *)
(* Content is a number of the version: what was written is told apart by   *)
(* when it was written, and by whether the watch of a key can use it.      *)
(***************************************************************************)
EXTENDS Naturals, Sequences

CONSTANT
  MaxVersion    \* bound of the model: how often the path is written

ASSUME WatchAssumption == MaxVersion \in Nat

VARIABLES
  kind,       \* which watch this is: of a "list" of keys or of one "key"
  usable,     \* for each version: can its value be unmarshalled into a result
  lastIdx,    \* WaitIndex: the index of the last answer, 0 at first
  pc,         \* the goroutine: asking, holding an answer, sending
  answer,     \* the version it holds
  out,        \* the channel
  received    \* the version the reader took last

vars == <<kind, usable, lastIdx, pc, answer, out, received>>

-----------------------------------------------------------------------------
Version == 1..MaxVersion
Newest  == Len(usable)

(* Nothing is written at first: version 0 is a path without keys. *)
Init ==
  /\ kind \in {"list", "key"}
  /\ usable = <<>>
  /\ lastIdx = 0
  /\ pc = "asking"
  /\ answer = 0
  /\ out = <<>>
  /\ received = 0

(* A key under the path is put or deleted.  A list has a result whatever    *)
(* is in it; the value of a single key may be absent, empty or malformed.   *)
Write ==
  /\ Newest < MaxVersion
  /\ \E ok \in BOOLEAN :
       /\ kind = "list" => ok
       /\ usable' = Append(usable, ok)
  /\ UNCHANGED <<kind, lastIdx, pc, answer, out, received>>

(* A list of an empty path is sent as well; a key that is absent is not. *)
Usable(v) == IF v = 0 THEN kind = "list" ELSE usable[v]

(* Consul's index of a version; it is never 0. *)
Index(v) == v + 1

(* Consul answers at once when the path has changed since lastIdx, with     *)
(* what it holds then.                                                      *)
AnswersChange ==
  /\ pc = "asking"
  /\ lastIdx < Index(Newest)
  /\ answer' = Newest
  /\ pc' = "answered"
  /\ UNCHANGED <<kind, usable, lastIdx, out, received>>

(* It has waited for a change as long as it waits, and repeats itself. *)
AnswersAgain ==
  /\ pc = "asking"
  /\ lastIdx = Index(Newest)
  /\ answer' = Newest
  /\ pc' = "answered"
  /\ UNCHANGED <<kind, usable, lastIdx, out, received>>

(* A variant that hands on the zero value of what it could not unmarshal. *)
UnmarshalAnyhow ==
  /\ pc = "answered"
  /\ lastIdx' = Index(answer)
  /\ pc' = IF answer = 0 THEN "asking" ELSE "sending"
  /\ UNCHANGED <<kind, usable, answer, out, received>>

(* The answer is unmarshalled; one without a result is passed over. *)
Unmarshal ==
  /\ pc = "answered"
  /\ lastIdx' = Index(answer)
  /\ pc' = IF Usable(answer) THEN "sending" ELSE "asking"
  /\ UNCHANGED <<kind, usable, answer, out, received>>

(* The query fails, or its answer is lost: half a second later it is asked  *)
(* again, from the same index.                                              *)
QueryFails ==
  /\ pc = "answered"
  /\ pc' = "asking"
  /\ UNCHANGED <<kind, usable, lastIdx, answer, out, received>>

(* A variant that drops what does not fit into the channel. *)
SendOrDrop ==
  /\ pc = "sending"
  /\ pc' = "asking"
  /\ out' = IF out = <<>> THEN <<answer>> ELSE out
  /\ UNCHANGED <<kind, usable, lastIdx, answer, received>>

(* A variant that sends from a goroutine of its own: the answer may reach   *)
(* the reader before what waits in the channel.                             *)
SendConcurrently ==
  /\ pc = "sending"
  /\ Len(out) < 2
  /\ pc' = "asking"
  /\ out' \in {Append(out, answer), <<answer>> \o out}
  /\ UNCHANGED <<kind, usable, lastIdx, answer, received>>

(* The goroutine blocks until the channel has room. *)
Send ==
  /\ pc = "sending"
  /\ out = <<>>
  /\ out' = <<answer>>
  /\ pc' = "asking"
  /\ UNCHANGED <<kind, usable, lastIdx, answer, received>>

(* The reader takes what is in the channel. *)
Receive ==
  /\ out # <<>>
  /\ received' = Head(out)
  /\ out' = Tail(out)
  /\ UNCHANGED <<kind, usable, lastIdx, pc, answer>>

Next ==
  \/ Write
  \/ AnswersChange
  \/ AnswersAgain
  \/ Unmarshal
  \/ QueryFails
  \/ Send
  \/ Receive

(* Consul reports a change in the end, not every query fails (strong        *)
(* fairness: a failed one is asked again and again), and the reader comes   *)
(* round.  Nothing rests on Consul repeating what has not changed.          *)
Fairness ==
  /\ WF_vars(AnswersChange)
  /\ SF_vars(Unmarshal)
  /\ WF_vars(Send)
  /\ WF_vars(Receive)

Spec == Init /\ [][Next]_vars /\ Fairness

-----------------------------------------------------------------------------
TypeOK ==
  /\ kind \in {"list", "key"}
  /\ usable \in Seq(BOOLEAN)
  /\ Newest <= MaxVersion
  /\ lastIdx \in 0..Index(MaxVersion)
  /\ pc \in {"asking", "answered", "sending"}
  /\ answer \in 0..MaxVersion
  /\ out \in {<<>>} \cup {<<v>> : v \in 0..MaxVersion}
  /\ received \in 0..MaxVersion

(* The reader is never shown an older content after a newer one, although   *)
(* up to two answers are under way to it and may be out of date when it     *)
(* takes them (lines 138-166, 188-215, 226-255).                            *)
Latest == INSTANCE LatestValue WITH newest <- Newest, shown <- received

NeverBackwards == Latest!Spec

(* The watch of a key hands out nothing it could not unmarshal, and never   *)
(* the absence of the key (lines 242-250).                                  *)
OnlyUsable == received # 0 => usable[received]

(* When the path is written no more, the reader has in the end what it      *)
(* holds, unless that has no result: no write is lost between a slow reader *)
(* and the full channel.                                                    *)
ReaderCatchesUp ==
  \A v \in Version : <>[](Newest = v /\ Usable(v)) => <>[](received = v)
=============================================================================
