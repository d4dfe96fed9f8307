---------------------------- MODULE QueuedFiring ----------------------------
(***************************************************************************)
(* The queued firing mode of the state-machine library (stateless,         *)
(* modes.go), through which the replica-set controller and the Kafka       *)
(* member fire every trigger.  Any number of goroutines call Fire on one   *)
(* machine.  Fire appends the trigger under a mutex and then loops: take   *)
(* the oldest trigger if nobody else is firing, execute it, look again.    *)
(* The goroutine that fired a trigger is therefore not always the one that *)
(* executes it, and a goroutine whose execution returns an error leaves    *)
(* Fire at once, whatever still waits.                                     *)
(*                                                                         *)
(* What executing a trigger does is the business of the modules that       *)
(* instantiate this one; here it succeeds or, for a trigger of Failing,    *)
(* may return an error.                                                    *)
(***************************************************************************)
EXTENDS Naturals, Sequences

CONSTANTS
  Goroutine,    \* the callers of Fire
  Trigger,      \* the triggers, with their arguments
  Failing,      \* the triggers whose execution may return an error
  NoTrigger,    \* what a goroutine that executes nothing is executing
  MaxWaiting    \* bound of the model: the length of the queue

ASSUME FiringAssumption ==
  /\ Failing \subseteq Trigger
  /\ NoTrigger \notin Trigger

VARIABLES
  triggers,   \* fireModeQueued.triggers, oldest first
  firing,     \* fireModeQueued.firing
  pc,         \* where each goroutine is: outside Fire, at fetch, in execute
  current,    \* the trigger each goroutine is executing
  returned    \* what the call of Fire that returned last returned

firingVars == <<triggers, firing, pc, current, returned>>

-----------------------------------------------------------------------------
TypeOK ==
  /\ triggers \in Seq(Trigger)
  /\ firing \in BOOLEAN
  /\ pc \in [Goroutine -> {"outside", "fetch", "execute"}]
  /\ current \in [Goroutine -> Trigger \cup {NoTrigger}]
  /\ returned \in {"nil", "err"}

Init ==
  /\ triggers = <<>>
  /\ firing = FALSE
  /\ pc = [g \in Goroutine |-> "outside"]
  /\ current = [g \in Goroutine |-> NoTrigger]
  /\ returned = "nil"

(* A variant of Enqueue that grows the queue by a zero value first. *)
EnqueueAfterZero(g, t) ==
  /\ pc[g] = "outside"
  /\ Len(triggers) < MaxWaiting
  /\ triggers' = triggers \o <<NoTrigger, t>>
  /\ pc' = [pc EXCEPT ![g] = "fetch"]
  /\ UNCHANGED <<firing, current, returned>>

(* Fire(t): the trigger is queued, and the loop begins. *)
Enqueue(g, t) ==
  /\ pc[g] = "outside"
  /\ Len(triggers) < MaxWaiting
  /\ triggers' = Append(triggers, t)
  /\ pc' = [pc EXCEPT ![g] = "fetch"]
  /\ UNCHANGED <<firing, current, returned>>

(* Fire called by an entry action, while its own goroutine executes: the    *)
(* trigger is queued, and the fetch that follows finds firing set.          *)
EnqueueNested(g, t) ==
  /\ pc[g] = "execute"
  /\ Len(triggers) < MaxWaiting
  /\ triggers' = Append(triggers, t)
  /\ UNCHANGED <<firing, pc, current, returned>>

(* fetch: nothing to take, or somebody else is firing.  Fire returns nil.   *)
FetchNothing(g) ==
  /\ pc[g] = "fetch"
  /\ triggers = <<>> \/ firing
  /\ pc' = [pc EXCEPT ![g] = "outside"]
  /\ returned' = "nil"
  /\ UNCHANGED <<triggers, firing, current>>

(* A variant of FetchTrigger that forgets to test firing. *)
FetchWithoutSwap(g) ==
  /\ pc[g] = "fetch"
  /\ triggers # <<>>
  /\ firing' = TRUE
  /\ current' = [current EXCEPT ![g] = Head(triggers)]
  /\ triggers' = Tail(triggers)
  /\ pc' = [pc EXCEPT ![g] = "execute"]
  /\ UNCHANGED returned

(* fetch: under the mutex, test and set firing and take the oldest trigger. *)
FetchTrigger(g) ==
  /\ pc[g] = "fetch"
  /\ triggers # <<>>
  /\ ~firing
  /\ firing' = TRUE
  /\ current' = [current EXCEPT ![g] = Head(triggers)]
  /\ triggers' = Tail(triggers)
  /\ pc' = [pc EXCEPT ![g] = "execute"]
  /\ UNCHANGED returned

(* A variant of ExecuteOk for a Fire that executes one trigger per call. *)
ExecuteOnce(g) ==
  /\ pc[g] = "execute"
  /\ firing' = FALSE
  /\ current' = [current EXCEPT ![g] = NoTrigger]
  /\ pc' = [pc EXCEPT ![g] = "outside"]
  /\ returned' = "nil"
  /\ UNCHANGED triggers

(* The execution returns nil: firing is cleared, and the loop looks again.  *)
ExecuteOk(g) ==
  /\ pc[g] = "execute"
  /\ firing' = FALSE
  /\ current' = [current EXCEPT ![g] = NoTrigger]
  /\ pc' = [pc EXCEPT ![g] = "fetch"]
  /\ UNCHANGED <<triggers, returned>>

(* The execution returns an error: firing is cleared, and Fire returns it.  *)
ExecuteErr(g) ==
  /\ pc[g] = "execute"
  /\ firing' = FALSE
  /\ current' = [current EXCEPT ![g] = NoTrigger]
  /\ pc' = [pc EXCEPT ![g] = "outside"]
  /\ returned' = "err"
  /\ UNCHANGED triggers

Step(g) ==
  \/ \E t \in Trigger : Enqueue(g, t)
  \/ \E t \in Trigger : EnqueueNested(g, t)
  \/ FetchNothing(g)
  \/ FetchTrigger(g)
  \/ ExecuteOk(g)
  \/ current[g] \in Failing /\ ExecuteErr(g)

Next == \E g \in Goroutine : Step(g)

(* A goroutine inside Fire is runnable: the scheduler lets it go on, and    *)
(* what it executes ends.  Nobody has to call Fire.                         *)
Fairness ==
  \A g \in Goroutine :
    WF_firingVars(FetchNothing(g) \/ FetchTrigger(g) \/ ExecuteOk(g))

Spec == Init /\ [][Next]_firingVars /\ Fairness

-----------------------------------------------------------------------------
Executing == {g \in Goroutine : pc[g] = "execute"}
Active    == {g \in Goroutine : pc[g] # "outside"}

(* Entry actions never overlap, whichever goroutines run them: firing is    *)
(* set exactly while one goroutine is inside execute (modes.go 69-88).      *)
OneAtATime ==
  /\ firing <=> Executing # {}
  /\ \A g, h \in Executing : g = h
  /\ \A g \in Goroutine : g \in Executing <=> current[g] # NoTrigger

(* No lost wake-up: a trigger queued while another goroutine was firing is  *)
(* not left behind.  When triggers wait, some goroutine is still in Fire to *)
(* take them, unless the last one to leave did so with an error             *)
(* (modes.go 47-60).                                                        *)
NoTriggerLeftBehind ==
  triggers # <<>> /\ returned = "nil" => Active # {}

(* A queued trigger is executed in the end, unless some call of Fire        *)
(* returns an error first, although its own caller may long have returned.  *)
QueuedIsExecuted ==
  \A t \in Trigger :
    (\E i \in DOMAIN triggers : triggers[i] = t)
      ~> (\E g \in Goroutine : current[g] = t) \/ returned = "err"

(* The goroutines together behave as one server that runs each trigger to   *)
(* completion, in the order of arrival.                                     *)
Serial == INSTANCE RunToCompletion
            WITH waiting <- triggers,
                 running <- {current[g] : g \in Executing}

RunsToCompletion == Serial!Spec
=============================================================================
