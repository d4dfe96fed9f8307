-------------------------- MODULE ConsulWatchProofs --------------------------
(***************************************************************************)
(* Proofs about ConsulWatch, for any number of writes.                     *)
(***************************************************************************)
EXTENDS ConsulWatch, SequenceTheorems, TLAPS

-----------------------------------------------------------------------------
(* The inductive invariant: what is on its way to the reader is in order,   *)
(* each version at most as old as the one before it.                        *)
InOrder ==
  /\ out # <<>> => received <= Head(out)
  /\ pc # "asking" => received <= answer /\ answer <= Newest
  /\ pc # "asking" /\ out # <<>> => Head(out) <= answer
  /\ out # <<>> => Head(out) <= Newest
  /\ received <= Newest

(* What was found to have a result is not looked at again: it has to keep   *)
(* it while it waits.                                                       *)
HasResult(v) == v # 0 => v \in 1..Newest /\ usable[v]

ResultsUnderWay ==
  /\ pc = "sending" => HasResult(answer)
  /\ out # <<>> => HasResult(Head(out))
  /\ HasResult(received)

WatchInv == TypeOK /\ InOrder /\ ResultsUnderWay

-----------------------------------------------------------------------------
LEMMA InitWatchInv == Init => WatchInv
  BY WatchAssumption, EmptySeq
  DEF Init, WatchInv, TypeOK, InOrder, ResultsUnderWay, HasResult, Newest, Index

(* A new version is newer than all that is under way. *)
LEMMA WriteKeepsInv == WatchInv /\ Write => WatchInv'
<1> SUFFICES ASSUME WatchInv, Write PROVE WatchInv'
  OBVIOUS
<1>1. PICK ok \in BOOLEAN : usable' = Append(usable, ok)
  BY DEF Write
<1>2. /\ usable' \in Seq(BOOLEAN)
      /\ Newest \in Nat
      /\ Newest' = Newest + 1
      /\ \A v \in 1..Newest : usable'[v] = usable[v]
  BY <1>1, AppendProperties, LenProperties DEF WatchInv, TypeOK, Newest
<1>3. TypeOK'
  BY <1>2, WatchAssumption DEF WatchInv, TypeOK, Write
<1>4. InOrder'
  BY <1>2, WatchAssumption DEF WatchInv, TypeOK, InOrder, Write
<1>5. ResultsUnderWay'
  <2>1. \A v \in 1..Newest : v \in 1..Newest' /\ usable'[v] = usable[v]
    BY <1>2
  <2>2. UNCHANGED <<pc, answer, out, received>>
    BY DEF Write
  <2>3. \A v : HasResult(v) => (v # 0 => v \in 1..Newest' /\ usable'[v])
    BY <2>1 DEF HasResult
  <2>4. QED
    BY <2>2, <2>3 DEF WatchInv, ResultsUnderWay, HasResult
<1>6. QED
  BY <1>3, <1>4, <1>5 DEF WatchInv

(* An answer is taken from the path as it is, hence is the newest so far. *)
LEMMA AnswerKeepsInv == WatchInv /\ (AnswersChange \/ AnswersAgain) => WatchInv'
<1> SUFFICES ASSUME WatchInv, AnswersChange \/ AnswersAgain PROVE WatchInv'
  OBVIOUS
<1>1. /\ pc = "asking" /\ pc' = "answered" /\ answer' = Newest
      /\ UNCHANGED <<kind, usable, lastIdx, out, received>>
  BY DEF AnswersChange, AnswersAgain
<1>2. Newest \in 0..MaxVersion
  BY LenProperties, WatchAssumption DEF WatchInv, TypeOK, Newest
<1>3. TypeOK'
  BY <1>1, <1>2 DEF WatchInv, TypeOK, Newest
<1>4. InOrder'
  BY <1>1, <1>2 DEF WatchInv, InOrder, Newest
<1>5. ResultsUnderWay'
  BY <1>1 DEF WatchInv, ResultsUnderWay, HasResult, Newest
<1>6. QED
  BY <1>3, <1>4, <1>5 DEF WatchInv

LEMMA QueryKeepsInv == WatchInv /\ (Unmarshal \/ QueryFails) => WatchInv'
<1> SUFFICES ASSUME WatchInv, Unmarshal \/ QueryFails PROVE WatchInv'
  OBVIOUS
<1>1. pc = "answered" /\ UNCHANGED <<kind, usable, answer, out, received>>
  BY DEF Unmarshal, QueryFails
<1>2. answer \in 0..Newest
  BY <1>1, LenProperties, WatchAssumption DEF WatchInv, TypeOK, InOrder, Newest
<1>3. TypeOK'
  <2>1. Index(answer) \in 0..Index(MaxVersion)
    BY WatchAssumption DEF WatchInv, TypeOK, Index
  <2>2. QED
    BY <1>1, <2>1 DEF WatchInv, TypeOK, Unmarshal, QueryFails, Newest
<1>4. InOrder'
  BY <1>1, <1>2 DEF WatchInv, InOrder, Newest
<1>5. ResultsUnderWay'
  <2>1. pc' = "sending" => Usable(answer)
    BY DEF Unmarshal, QueryFails
  <2>2. QED
    BY <1>1, <1>2, <2>1 DEF WatchInv, TypeOK, ResultsUnderWay, HasResult, Usable, Newest
<1>6. QED
  BY <1>3, <1>4, <1>5 DEF WatchInv

LEMMA ChannelKeepsInv == WatchInv /\ (Send \/ Receive) => WatchInv'
<1> SUFFICES ASSUME WatchInv, Send \/ Receive PROVE WatchInv'
  OBVIOUS
<1>1. CASE Send
  <2>1. /\ pc = "sending" /\ pc' = "asking" /\ out = <<>>
        /\ out' # <<>> /\ Head(out') = answer /\ out' = <<answer>>
        /\ UNCHANGED <<kind, usable, lastIdx, answer, received>>
    BY <1>1 DEF Send
  <2>2. QED
    BY <2>1 DEF WatchInv, TypeOK, InOrder, ResultsUnderWay, HasResult, Newest
<1>2. CASE Receive
  <2>1. /\ out # <<>> /\ received' = Head(out) /\ out' = Tail(out)
        /\ UNCHANGED <<kind, usable, lastIdx, pc, answer>>
    BY <1>2 DEF Receive
  <2>2. PICK v \in 0..MaxVersion : out = <<v>>
    BY <2>1 DEF WatchInv, TypeOK
  <2>3. received' = v /\ out' = <<>> /\ Head(out) = v
    BY <2>1, <2>2
  <2>4. QED
    BY <2>1, <2>3 DEF WatchInv, TypeOK, InOrder, ResultsUnderWay, HasResult, Newest
<1>3. QED
  BY <1>1, <1>2

LEMMA WatchInvariant == Spec => []WatchInv
<1>1. WatchInv /\ UNCHANGED vars => WatchInv'
  BY DEF WatchInv, vars, TypeOK, InOrder, ResultsUnderWay, HasResult, Newest
<1>2. WatchInv /\ [Next]_vars => WatchInv'
  BY <1>1, WriteKeepsInv, AnswerKeepsInv, QueryKeepsInv, ChannelKeepsInv DEF Next
<1>3. QED
  BY InitWatchInv, <1>2, PTL DEF Spec

-----------------------------------------------------------------------------
(* Every variable has its type; in particular what waits between Consul and *)
(* the reader is one answer in the channel and one in the goroutine.        *)
THEOREM TypeCorrect == Spec => []TypeOK
<1>1. WatchInv => TypeOK
  BY DEF WatchInv
<1>2. QED
  BY WatchInvariant, <1>1, PTL

(* No watch hands out a value it could not unmarshal (lines 242-250). *)
THEOREM ResultsOnly == Spec => []OnlyUsable
<1>1. WatchInv => OnlyUsable
  BY DEF WatchInv, ResultsUnderWay, HasResult, OnlyUsable
<1>2. QED
  BY WatchInvariant, <1>1, PTL

(* The reader of a watch never goes back in time, however slow it and the   *)
(* network are: the blocking query, the channel of one place and the reader *)
(* together implement LatestValue (lines 138-166, 188-215, 226-255).        *)
THEOREM Monotonic == Spec => NeverBackwards
<1>1. Init => Latest!Init
  BY EmptySeq DEF Init, Latest!Init, Newest
<1>2. ASSUME WatchInv, [Next]_vars
      PROVE  [Latest!Next]_(Latest!latestVars)
  <2>1. CASE Write
    <3>1. PICK ok \in BOOLEAN : usable' = Append(usable, ok) /\ received' = received
      BY <2>1 DEF Write
    <3>2. Newest' = Newest + 1
      BY <1>2, <3>1, AppendProperties DEF WatchInv, TypeOK, Newest
    <3>3. QED
      BY <3>1, <3>2 DEF Latest!Next, Latest!Write
  <2>2. CASE Receive
    <3>1. usable' = usable /\ received' = Head(out) /\ out # <<>>
      BY <2>2 DEF Receive
    <3>2. PICK v \in 0..MaxVersion : out = <<v>>
      BY <1>2, <3>1 DEF WatchInv, TypeOK
    <3>3. Newest \in Nat
      BY <1>2, LenProperties DEF WatchInv, TypeOK, Newest
    <3>4. received' \in received..Newest
      BY <1>2, <3>1, <3>2, <3>3 DEF WatchInv, TypeOK, InOrder
    <3>5. QED
      BY <3>1, <3>4 DEF Latest!Next, Latest!Show, Newest
  <2>3. CASE \/ AnswersChange \/ AnswersAgain \/ Unmarshal \/ QueryFails \/ Send
             \/ UNCHANGED vars
    BY <2>3
    DEF AnswersChange, AnswersAgain, Unmarshal, QueryFails, Send, vars,
        Latest!latestVars, Newest
  <2>4. QED
    BY <1>2, <2>1, <2>2, <2>3 DEF Next
<1>3. QED
  BY <1>1, <1>2, WatchInvariant, PTL DEF Spec, NeverBackwards, Latest!Spec
=============================================================================
