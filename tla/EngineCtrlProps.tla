--------------------------- MODULE EngineCtrlProps ---------------------------
(***************************************************************************)
(* What the engine controller must guarantee, stated over EngineCtrl.      *)
(***************************************************************************)
EXTENDS EngineCtrl

\* A step is sure to come: the sequence timer runs or its callback waits.
StepPending == seqTimer # Disarmed \/ timerTask = "sequence"

\* While the controller is starting there is a next step and it will be taken:
\* neither a second request, nor a stale callback that runs a step early, nor
\* an expired wait for the mutex strands the start sequence half-way.
StartNeverStranded ==
  Ready /\ state = "STARTING" => startSeq \in StartSteps /\ StepPending

\* The starter relay is closed only inside the two steps that crank, with the
\* step that opens it still to come.  Every stop opens it at once, and nothing
\* the RPM handler writes without the lock can leave it closed behind.
StarterGuarded ==
  relay => /\ state = "STARTING"
           /\ startSeq \in {"CRANKING", "WAIT_RPM"}
           /\ StepPending

\* One engagement of the starter lasts at most the wake pulse plus the crank
\* time (ENGINE_START_WAKE_PULSE_MS + ENGINE_START_CRANK_MS) and the lag of the
\* esp_timer task before either step, whatever other tasks request meanwhile.
CrankLimit == StartDelay["CRANKING"] + StartDelay["WAIT_RPM"] + 2 * TimerLag

StarterBounded == relay => crankTime <= CrankLimit

\* One accepted start request cranks at most ENGINE_MAX_START_ATTEMPTS times.
PulsesBounded == pulses <= MaxAttempts

\* The last two at once, as a specification of their own: seen through the relay
\* alone, the controller behaves like the starter interlock.
Starter == INSTANCE StarterInterlock WITH
             Limit <- CrankLimit, MaxEngagements <- MaxAttempts,
             engaged <- relay, held <- crankTime, engagements <- pulses

StarterImplemented == Starter!StarterSpec

\* During the two seconds of an emergency stop the relay stays open, the fuel shut and
\* no step is to come: the mutex keeps every other writer out.  While the controller is
\* in service the ignition stays grounded as well; engine_controller_deinit, which takes
\* no lock, may release it half-way.
EmergencyHolds ==
  \A c \in Callers : pc[c] = "kill" =>
     /\ ~relay /\ ~fuel /\ seqTimer = Disarmed
     /\ Ready => kill /\ owner = c

\* Once the runtime timer exists no run begins untimed, on any path, and no run loses
\* its timer to a stop that races with a pull start.  Only a run that began while
\* engine_controller_init had not yet created the timer goes on without it.
RunIsTimed ==
  [][stage' \in {"timers", "open"} /\ state' = "RUNNING" /\ ~runTimer'
       => state = "RUNNING" /\ ~runTimer]_vars

\* The fuel valve is opened only with the starter released and the ignition
\* not grounded, by the step that follows a successful RPM test.
FuelOpensAfterStart ==
  [][~fuel /\ fuel' => ~relay /\ ~kill /\ state = "STARTING"]_vars

\* The engine is never cranked with its ignition grounded.
NoCrankWhileKilled == ~(relay /\ kill)

\* The ignition is grounded only while a stop step will release it, or for the
\* duration of an emergency stop.
KillIsTransient ==
  kill => \/ state = "STOPPING" /\ stopSeq \in StopSteps /\ StepPending
          \/ \E c \in Callers : pc[c] = "kill"

\* The most that is left of a start: the time to its next step, with the lag of the
\* esp_timer task and the wait for the mutex, and as much for each step after that one.
Cost(step) == StartDelay[step] + TimerLag + CallbackWait

Cranking == Cost("CHOKE_CLOSE") + Cost("WAKE_PULSE") + Cost("CRANKING") + Cost("WAIT_RPM")
Attempt  == Cost("RETRY_WAIT") + Cost("CHOKE_RESET") + Cranking
Ending   == IF Cost("CHOKE_OPEN") + Cost("SUCCESS") > Cost("FAILED")
            THEN Cost("CHOKE_OPEN") + Cost("SUCCESS") ELSE Cost("FAILED")

After(step) ==
  CASE step = "RETRY_WAIT"  -> Cost("CHOKE_RESET") + Cranking + Ending
    [] step = "CHOKE_RESET" -> Cranking + Ending
    [] step = "CHOKE_CLOSE" -> Cost("WAKE_PULSE") + Cost("CRANKING") + Cost("WAIT_RPM") + Ending
    [] step = "WAKE_PULSE"  -> Cost("CRANKING") + Cost("WAIT_RPM") + Ending
    [] step = "CRANKING"    -> Cost("WAIT_RPM") + Ending
    [] step = "WAIT_RPM"    -> Ending
    [] step = "CHOKE_OPEN"  -> Cost("SUCCESS")
    [] OTHER                -> 0

Rest(step, n) ==
  After(step) + (IF step \in {"CHOKE_OPEN", "SUCCESS", "FAILED"} THEN 0
                 ELSE (MaxAttempts - 1 - n) * Attempt)

NextStepWithin ==
  IF seqTimer = Disarmed THEN cbWait
  ELSE seqTimer + CallbackWait
         + (IF seqTimer > 0 THEN TimerLag ELSE IF timerTask = "busy" THEN cbWait ELSE 0)

TimeLeft == NextStepWithin + Rest(startSeq, attempts)

StartLimit == Cost("CHOKE_RESET") + Rest("CHOKE_RESET", 0)

\* A start request is over within StartLimit, in a running engine or otherwise: the time
\* left goes down with every unit of time, and no step, request of another task, stale
\* callback or failed attempt puts it up again.
StartInTime ==
  [][Ready' /\ state' = "STARTING" =>
       TimeLeft' \in 0..(IF state # "STARTING" THEN StartLimit
                         ELSE IF Tick THEN TimeLeft - 1 ELSE TimeLeft)]_vars

\* The same for a stop.
StopCost(step) == StopDelay[step] + TimerLag + CallbackWait

StopRest(step) ==
  CASE step = "CHOKE_RESET"   -> StopCost("KILL_IGNITION") + StopCost("FUEL_OFF") + StopCost("SUCCESS")
    [] step = "KILL_IGNITION" -> StopCost("FUEL_OFF") + StopCost("SUCCESS")
    [] step = "FUEL_OFF"      -> StopCost("SUCCESS")
    [] OTHER                  -> 0

StopTimeLeft == NextStepWithin + StopRest(stopSeq)

StopLimit == StopCost("CHOKE_RESET") + StopRest("CHOKE_RESET")

\* A stop is over within StopLimit of the last request for it:
\* whatever delay of a start or an earlier stop the timer was armed with is given up, and
\* nothing but another request to stop puts the time left up again.
StopInTime ==
  [][Ready' /\ state' = "STOPPING" =>
       StopTimeLeft' \in 0..(IF \E c \in Callers : StopCommit(c) THEN StopLimit
                             ELSE IF Tick THEN StopTimeLeft - 1 ELSE StopTimeLeft)]_vars

\* A start request ends: in a running engine, a failure, a stop or the shutdown of
\* the controller.
StartSettles == state = "STARTING" ~> state # "STARTING" \/ ~Ready

\* A stop sequence ends: nothing leaves the controller in STOPPING for ever with
\* the mutex free and no step to come.
StopSettles == state = "STOPPING" ~> state # "STOPPING" \/ ~Ready
-----------------------------------------------------------------------------
(* The inductive invariant behind the safety properties above.             *)

\* Before the controller is in service nothing is under way but what the RPM handler
\* writes.
UnreadyIsQuiet ==
  stage \in {"none", "setup", "timers"} =>
    /\ seqTimer = Disarmed /\ timerTask \notin {"sequence", "post"}
    /\ owner = NoOne /\ ~relay /\ state \in {"STOPPED", "RUNNING"}
    /\ \A c \in Callers : pc[c] = "idle"

\* After shutdown nothing cranks, and a callback that still waits finds no step of a
\* start but the first.
ShutIsSafe ==
  /\ stage \in {"closing", "closed"} => seqTimer = Disarmed /\ ~relay
  /\ stage = "closing" /\ timerTask = "sequence" /\ state = "STARTING" =>
       startSeq = "CHOKE_RESET" \/ \E c \in Callers : pc[c] = "commit"

\* The owner of the mutex is the caller, or the callback, that is inside a
\* critical section, until the mutex is deleted.
LockHeld ==
  stage # "closed" =>
    /\ \A c \in Callers : pc[c] \in {"commit", "kill", "post"} <=> owner = c
    /\ timerTask = "post" <=> owner = TimerTask

\* What the owner of the mutex can rely on: nobody else starts the engine.  A
\* start it has itself committed is still at its first step, and the timer does
\* not run out while the owner waits for the event queue.
OwnerKnows ==
  /\ timerTask = "post" => state # "STARTING"
  /\ \A c \in Callers :
       /\ pc[c] = "commit" /\ op[c] = "start" => state # "STARTING"
       /\ pc[c] = "kill" => state # "STARTING"
       /\ Ready /\ pc[c] = "post" /\ state = "STARTING" =>
            /\ startSeq = "CHOKE_RESET"
            /\ wait[c] <= (IF seqTimer = Disarmed THEN 0 ELSE seqTimer)

\* While starting, the only callback under way still has time to wait.
CallbackHasTime ==
  Ready /\ state = "STARTING" /\ timerTask = "sequence" /\ seqTimer = Disarmed => cbWait > 0

\* The RPM handler is never between its test and its write while cranking.
HandlerSeesRest == timerTask \in {"pull", "halt"} => ~relay

\* A callback in flight beside an armed timer can only be one that a new start
\* has overtaken.
OneStepAhead ==
  timerTask = "sequence" /\ seqTimer # Disarmed /\ state = "STARTING"
    => startSeq = "CHOKE_RESET"

\* The lag that is left of a callback is never longer than a whole one.
LagBounded == timerTask = "busy" => cbWait <= TimerLag

\* The crank time gone plus the time left on the timer stays within the limit of
\* the step that is to come; once the timer has expired, the lag comes on top.
CrankClock ==
  relay =>
    LET first == StartDelay["CRANKING"]
        limit == IF startSeq = "CRANKING" THEN first
                 ELSE first + TimerLag + StartDelay["WAIT_RPM"]
    IN  IF seqTimer > 0 THEN crankTime + seqTimer <= limit
        ELSE crankTime + (IF timerTask = "busy" THEN cbWait ELSE 0) <= limit + TimerLag

\* Every attempt that is over has cranked once; the current one has if it is past
\* the wake pulse.
PulsesCounted ==
  /\ pulses <= MaxAttempts
  /\ Ready /\ state = "STARTING" =>
       /\ startSeq # "FAILED" => attempts < MaxAttempts
       /\ attempts <= MaxAttempts
       /\ pulses = attempts + (IF startSeq \in {"CRANKING", "WAIT_RPM", "CHOKE_OPEN", "SUCCESS"}
                               THEN 1 ELSE 0)

IndInv ==
  /\ TypeOK
  /\ UnreadyIsQuiet /\ ShutIsSafe /\ LockHeld /\ OwnerKnows /\ CallbackHasTime /\ HandlerSeesRest
  /\ OneStepAhead /\ LagBounded
  /\ StartNeverStranded /\ StarterGuarded /\ CrankClock /\ PulsesCounted
  /\ EmergencyHolds

-----------------------------------------------------------------------------
(* The inductive invariant behind the properties of the ignition.          *)

\* One task calls the interface, never to start an engine that is stopping; and the
\* stop, too, has posted its event when its timer fires (both are 100 ms).
Polite ==
  /\ PoliteCallers /\ \A c, d \in Callers : c = d
  /\ PostWait <= StopDelay["CHOKE_RESET"]

\* No start is on its way to a stopping engine.
StopsUndisturbed ==
  \A c \in Callers :
    /\ pc[c] \in {"lock", "commit"} /\ op[c] = "start" => state # "STOPPING"
    /\ pc[c] = "kill" => state # "STOPPING"
    /\ Ready /\ pc[c] = "post" /\ state = "STOPPING" =>
         /\ stopSeq = "CHOKE_RESET"
         /\ wait[c] <= (IF seqTimer = Disarmed THEN 0 ELSE seqTimer)

\* A stop has a next step, and the callback that takes it does not give up.  After
\* shutdown a callback that still waits finds no step but the first.
StopGoesOn ==
  /\ Ready /\ state = "STOPPING" => stopSeq \in StopSteps /\ StepPending
  /\ Ready /\ state = "STOPPING" /\ timerTask = "sequence" /\ seqTimer = Disarmed => cbWait > 0
  /\ Ready /\ timerTask = "post" => state # "STOPPING"
  /\ stage = "closing" /\ timerTask = "sequence" /\ state = "STOPPING" =>
       stopSeq = "CHOKE_RESET" \/ \E c \in Callers : pc[c] = "commit"

\* The last step finds the ignition released, and the RPM handler, between its test and its
\* write, finds it grounded by an emergency stop at most.
KillAccounted ==
  /\ kill => Ready \/ \E c \in Callers : pc[c] = "kill"
  /\ stopSeq = "SUCCESS" => ~kill
  /\ kill /\ timerTask \in {"pull", "halt"} => \E c \in Callers : pc[c] = "kill"

KillInv == StopsUndisturbed /\ StopGoesOn /\ KillAccounted /\ KillIsTransient

-----------------------------------------------------------------------------
(* What engine_ctrl.h says and the code does not keep.                     *)

\* engine_ctrl.h gives the grounding of the ignition a duration; grounded, it is
\* released again.
KillReleased == kill ~> ~kill \/ ~Ready
=============================================================================
