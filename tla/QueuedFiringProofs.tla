------------------------- MODULE QueuedFiringProofs -------------------------
(***************************************************************************)
(* Proofs about QueuedFiring, for any number of goroutines, any triggers   *)
(* and any bound on the queue.                                             *)
(***************************************************************************)
EXTENDS QueuedFiring, SequenceTheorems, TLAPS

(* The inductive invariant.  OneAtATime and NoTriggerLeftBehind need each   *)
(* other: a goroutine that finds firing set may leave because somebody is   *)
(* executing, who is therefore Active and will look at the queue again.     *)
FiringInv ==
  /\ TypeOK
  /\ OneAtATime
  /\ NoTriggerLeftBehind

LEMMA InitFiringInv == Init => FiringInv
<1> SUFFICES ASSUME Init PROVE FiringInv
  OBVIOUS
<1>1. TypeOK
  <2>1. triggers \in Seq(Trigger)
    BY EmptySeq DEF Init
  <2>2. QED
    BY <2>1 DEF Init, TypeOK
<1>2. Executing = {}
  BY DEF Init, Executing
<1>3. OneAtATime
  BY <1>2 DEF Init, OneAtATime
<1>4. NoTriggerLeftBehind
  BY DEF Init, NoTriggerLeftBehind
<1>5. QED
  BY <1>1, <1>3, <1>4 DEF FiringInv

(* Every step of a goroutine keeps the types. *)
LEMMA StepTypeOK ==
  ASSUME TypeOK, NEW g \in Goroutine, Step(g)
  PROVE  TypeOK'
<1> USE DEF TypeOK
<1>1. CASE \E t \in Trigger : Enqueue(g, t)
  BY <1>1 DEF Enqueue
<1>2. CASE \E t \in Trigger : EnqueueNested(g, t)
  BY <1>2 DEF EnqueueNested
<1>3. CASE FetchNothing(g)
  BY <1>3 DEF FetchNothing
<1>4. CASE FetchTrigger(g)
  <2>1. Head(triggers) \in Trigger /\ Tail(triggers) \in Seq(Trigger)
    BY <1>4, HeadTailProperties DEF FetchTrigger
  <2>2. QED
    BY <1>4, <2>1 DEF FetchTrigger
<1>5. CASE ExecuteOk(g)
  BY <1>5 DEF ExecuteOk
<1>6. CASE ExecuteErr(g)
  BY <1>6 DEF ExecuteErr
<1>7. QED
  BY <1>1, <1>2, <1>3, <1>4, <1>5, <1>6 DEF Step

(* At most one goroutine executes, and firing says whether one does. *)
LEMMA StepOneAtATime ==
  ASSUME TypeOK, OneAtATime, NEW g \in Goroutine, Step(g)
  PROVE  OneAtATime'
<1> USE FiringAssumption DEF TypeOK, OneAtATime, Executing
<1>1. CASE \E t \in Trigger : Enqueue(g, t)
  BY <1>1 DEF Enqueue
<1>2. CASE \E t \in Trigger : EnqueueNested(g, t)
  BY <1>2 DEF EnqueueNested
<1>3. CASE FetchNothing(g)
  BY <1>3 DEF FetchNothing
<1>4. CASE FetchTrigger(g)
  <2>1. Head(triggers) \in Trigger
    BY <1>4, HeadTailProperties DEF FetchTrigger
  <2>2. Executing = {}
    BY <1>4 DEF FetchTrigger
  <2>3. Executing' = {g}
    BY <1>4, <2>2 DEF FetchTrigger
  <2>4. QED
    BY <1>4, <2>1, <2>2, <2>3 DEF FetchTrigger
<1>5. CASE ExecuteOk(g)
  BY <1>5 DEF ExecuteOk
<1>6. CASE ExecuteErr(g)
  BY <1>6 DEF ExecuteErr
<1>7. QED
  BY <1>1, <1>2, <1>3, <1>4, <1>5, <1>6 DEF Step

(* The goroutine that leaves Fire without an error leaves nothing behind,   *)
(* or leaves somebody who executes.                                         *)
LEMMA StepNoTriggerLeftBehind ==
  ASSUME TypeOK, OneAtATime, NoTriggerLeftBehind, NEW g \in Goroutine, Step(g)
  PROVE  NoTriggerLeftBehind'
<1> USE DEF TypeOK, NoTriggerLeftBehind, Active
<1>1. CASE \E t \in Trigger : Enqueue(g, t)
  BY <1>1 DEF Enqueue
<1>2. CASE \E t \in Trigger : EnqueueNested(g, t)
  BY <1>2 DEF EnqueueNested
<1>3. CASE FetchNothing(g)
  <2>1. CASE triggers = <<>>
    BY <1>3, <2>1 DEF FetchNothing
  <2>2. CASE firing
    <3>1. PICK h \in Goroutine : pc[h] = "execute"
      BY <2>2 DEF OneAtATime, Executing
    <3>2. h # g /\ pc'[h] = "execute"
      BY <1>3, <3>1 DEF FetchNothing
    <3>3. QED
      BY <3>2
  <2>3. QED
    BY <1>3, <2>1, <2>2 DEF FetchNothing
<1>4. CASE FetchTrigger(g)
  BY <1>4 DEF FetchTrigger
<1>5. CASE ExecuteOk(g)
  BY <1>5 DEF ExecuteOk
<1>6. CASE ExecuteErr(g)
  BY <1>6 DEF ExecuteErr
<1>7. QED
  BY <1>1, <1>2, <1>3, <1>4, <1>5, <1>6 DEF Step

LEMMA StepFiringInv ==
  ASSUME FiringInv, NEW g \in Goroutine, Step(g)
  PROVE  FiringInv'
  BY StepTypeOK, StepOneAtATime, StepNoTriggerLeftBehind DEF FiringInv

LEMMA StutterFiringInv ==
  ASSUME FiringInv, UNCHANGED firingVars
  PROVE  FiringInv'
  BY DEF FiringInv, firingVars, TypeOK, OneAtATime, NoTriggerLeftBehind, Executing, Active

LEMMA FiringInvariant == Spec => []FiringInv
<1>1. Init => FiringInv
  BY InitFiringInv
<1>2. FiringInv /\ [Next]_firingVars => FiringInv'
  BY StepFiringInv, StutterFiringInv DEF Next
<1>3. QED
  BY <1>1, <1>2, PTL DEF Spec

-----------------------------------------------------------------------------
(* The types, for any number of callers. *)
THEOREM TypeCorrect == Spec => []TypeOK
<1>1. FiringInv => TypeOK
  BY DEF FiringInv
<1>2. QED
  BY FiringInvariant, <1>1, PTL

(* Entry actions of one machine never overlap (modes.go 69-88). *)
THEOREM MutualExclusion == Spec => []OneAtATime
<1>1. FiringInv => OneAtATime
  BY DEF FiringInv
<1>2. QED
  BY FiringInvariant, <1>1, PTL

(* No wake-up is lost between a fetch that finds firing set and the end of  *)
(* the execution that set it (modes.go 47-88).                              *)
THEOREM NoLostWakeup == Spec => []NoTriggerLeftBehind
<1>1. FiringInv => NoTriggerLeftBehind
  BY DEF FiringInv
<1>2. QED
  BY FiringInvariant, <1>1, PTL

-----------------------------------------------------------------------------
(* What the serial server sees of the goroutines when none executes, and    *)
(* when g does.                                                             *)
SerialRunning == {current[g] : g \in Executing}

LEMMA SerialIdle ==
  ASSUME OneAtATime, ~firing
  PROVE  SerialRunning = {}
  BY DEF OneAtATime, SerialRunning

LEMMA SerialBusy ==
  ASSUME OneAtATime, NEW g \in Goroutine, pc[g] = "execute"
  PROVE  SerialRunning = {current[g]}
<1>1. Executing = {g}
  BY DEF OneAtATime, Executing
<1>2. QED
  BY <1>1 DEF SerialRunning

(* Each step of a goroutine is a step of the serial server or none. *)
LEMMA StepSerial ==
  ASSUME FiringInv, FiringInv', NEW g \in Goroutine, Step(g)
  PROVE  [Serial!Next]_(Serial!rtcVars)
<1>inv. TypeOK /\ OneAtATime /\ TypeOK' /\ OneAtATime'
  BY DEF FiringInv
<1> USE DEF Serial!Next, Serial!rtcVars, TypeOK
<1>1. CASE \E t \in Trigger : Enqueue(g, t)
  <2>1. PICK t \in Trigger : Enqueue(g, t)
    BY <1>1
  <2>2. Executing' = Executing /\ current' = current
    BY <2>1, <1>inv DEF Enqueue, Executing
  <2>3. Serial!Accept(t)
    BY <2>1, <2>2 DEF Enqueue, Serial!Accept
  <2>4. QED
    BY <2>3
<1>2. CASE \E t \in Trigger : EnqueueNested(g, t)
  <2>1. PICK t \in Trigger : EnqueueNested(g, t)
    BY <1>2
  <2>2. Executing' = Executing /\ current' = current
    BY <2>1 DEF EnqueueNested, Executing
  <2>3. Serial!Accept(t)
    BY <2>1, <2>2 DEF EnqueueNested, Serial!Accept
  <2>4. QED
    BY <2>3
<1>3. CASE FetchNothing(g)
  <2>1. Executing' = Executing /\ UNCHANGED <<current, triggers>>
    BY <1>3, <1>inv DEF FetchNothing, Executing
  <2>2. QED
    BY <2>1
<1>4. CASE FetchTrigger(g)
  <2>1. SerialRunning = {}
    BY <1>4, <1>inv, SerialIdle DEF FetchTrigger
  <2>2. Executing' = {g}
    BY <1>4, <1>inv DEF FetchTrigger, OneAtATime, Executing
  <2>3. SerialRunning' = {Head(triggers)}
    BY <1>4, <1>inv, <2>2 DEF FetchTrigger, SerialRunning
  <2>4. Serial!Start
    BY <1>4, <2>1, <2>3 DEF FetchTrigger, Serial!Start, SerialRunning
  <2>5. QED
    BY <2>4
<1>5. CASE ExecuteOk(g) \/ ExecuteErr(g)
  <2>1. SerialRunning # {}
    BY <1>5, <1>inv, SerialBusy DEF ExecuteOk, ExecuteErr
  <2>2. Executing' = {}
    BY <1>5, <1>inv DEF ExecuteOk, ExecuteErr, OneAtATime, Executing
  <2>3. SerialRunning' = {} /\ triggers' = triggers
    BY <1>5, <2>2 DEF ExecuteOk, ExecuteErr, SerialRunning
  <2>4. Serial!Finish
    BY <2>1, <2>3 DEF Serial!Finish, SerialRunning
  <2>5. QED
    BY <2>4
<1>6. QED
  BY <1>1, <1>2, <1>3, <1>4, <1>5 DEF Step

(* The goroutines implement the serial server: every trigger runs to        *)
(* completion, in the order of arrival, however the calls of Fire           *)
(* interleave.                                                              *)
THEOREM Refinement == Spec => RunsToCompletion
<1>1. Init => Serial!Init
  BY DEF Init, Serial!Init, Executing
<1>2. FiringInv /\ FiringInv' /\ [Next]_firingVars => [Serial!Next]_(Serial!rtcVars)
  <2>1. ASSUME FiringInv, FiringInv', Next
        PROVE  [Serial!Next]_(Serial!rtcVars)
    BY <2>1, StepSerial DEF Next
  <2>2. ASSUME UNCHANGED firingVars
        PROVE  UNCHANGED Serial!rtcVars
    BY <2>2 DEF firingVars, Serial!rtcVars, Executing
  <2>3. QED
    BY <2>1, <2>2
<1>3. QED
  BY <1>1, <1>2, FiringInvariant, PTL DEF Spec, RunsToCompletion, Serial!Spec
=============================================================================
