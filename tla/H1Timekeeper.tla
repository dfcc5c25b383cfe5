---------------------------- MODULE H1Timekeeper ----------------------------
(***************************************************************************)
(* The clock of the H1 scanner: a Cloudflare durable object with one alarm *)
(* at the next full hour, and cron triggers that call it besides, every    *)
(* minute as a watchdog and three times an hour to run the scanner.        *)
(*                                                                         *)
(* The object runs its handlers one at a time, except while one of them    *)
(* waits for the scanner: others then begin and end, and the hour may      *)
(* turn.  The runtime clears an alarm when it fires and calls the handler  *)
(* again when it throws, a limited number of times; it may also evict the  *)
(* object.  What the scanner does is SignalTable's; here it answers.       *)
(***************************************************************************)
EXTENDS Naturals, FiniteSets

CONSTANTS
    Handlers,       \* calls of the object, numbered as they begin
    LastHour,       \* the run ends here
    MaxMisses,      \* failing answers and evictions
    NoHour

VARIABLES
    hour,       \* currentBoundary(Date.now()), in hours
    alarm,      \* the object's alarm
    success,    \* lastSuccessBoundary
    handler,    \* position of each call
    again,      \* external: the runtime will call the alarm handler again
    begun,      \* ghost: hours in which a request to the scanner was sent
    looked,     \* ghost: hours in which a watchdog looked at lastSuccessBoundary
    spanned,    \* ghost: hours a request that was sent before them was answered in
    ended,      \* ghost: how the handler that ended last ended
    misses

storage == <<alarm, success>>
ghosts == <<begun, looked, spanned>>
vars == <<hour, storage, handler, again, ghosts, ended, misses>>

Hours == 0 .. LastHour
Idle == [pc |-> "idle", kind |-> "arm", at |-> 0]
Over == [Idle EXCEPT !.pc = "over"]

TypeOK ==
    /\ hour \in Hours /\ alarm \in 1 .. LastHour + 1 \cup {NoHour} /\ success \in Hours
    /\ handler \in [Handlers -> [pc : {"idle", "waiting", "arming", "over"}, at : Hours,
                                 kind : {"alarm", "watchdog", "run", "arm"}]]
    /\ again \in BOOLEAN /\ begun \cup looked \cup spanned \subseteq Hours
    /\ ended \in {"none", "well", "badly"} /\ misses \in 0 .. MaxMisses

Init ==
    /\ hour = 0 /\ alarm = NoHour /\ success = 0
    /\ handler = [t \in Handlers |-> Idle] /\ again = FALSE
    /\ begun = {0} /\ looked = {} /\ spanned = {} /\ ended = "none" /\ misses = 0

Is(t, pc) == handler[t].pc = pc
Become(t, j) == handler' = [handler EXCEPT ![t] = j]
Begin(t, kind, pc) ==
    /\ Is(t, "idle") /\ \A u \in Handlers : u < t => ~Is(u, "idle")
    /\ Become(t, [pc |-> pc, kind |-> kind, at |-> hour])
Send == begun' = begun \cup {hour}

HourTurns ==
    /\ hour < LastHour /\ hour' = hour + 1
    /\ UNCHANGED <<storage, handler, again, ghosts, ended, misses>>

\* The alarm is due, or its handler is called again.
Alarm(t) ==
    /\ \/ alarm # NoHour /\ alarm <= hour /\ alarm' = NoHour /\ UNCHANGED again
       \/ again /\ again' = FALSE /\ UNCHANGED alarm
    /\ Begin(t, "alarm", "waiting") /\ Send
    /\ UNCHANGED <<hour, success, looked, spanned, ended, misses>>

Watchdog(t) ==
    /\ looked' = looked \cup {hour}
    /\ \/ success < hour /\ Begin(t, "watchdog", "waiting") /\ Send
       \/ success >= hour /\ Begin(t, "watchdog", "arming") /\ UNCHANGED begun
    /\ UNCHANGED <<hour, storage, again, spanned, ended, misses>>

Run(t) ==       \* the follow-up triggers, and the operator
    /\ Begin(t, "run", "waiting") /\ Send
    /\ UNCHANGED <<hour, storage, again, looked, spanned, ended, misses>>

Arm(t) ==
    /\ Begin(t, "arm", "arming")
    /\ UNCHANGED <<hour, storage, again, ghosts, ended, misses>>

\* Mutant: the hour of the next run is recorded.
SucceedAhead(t) ==
    /\ Is(t, "waiting") /\ success' = hour + 1
    /\ spanned' = IF handler[t].at < hour THEN spanned \cup {hour} ELSE spanned
    /\ Become(t, [handler[t] EXCEPT !.pc = "arming"])
    /\ UNCHANGED <<hour, alarm, again, begun, looked, ended, misses>>

\* runScanner: the hour it records is the one in which the answer comes.
Succeed(t) ==
    /\ Is(t, "waiting") /\ success' = hour
    /\ spanned' = IF handler[t].at < hour THEN spanned \cup {hour} ELSE spanned
    /\ Become(t, [handler[t] EXCEPT !.pc = "arming"])
    /\ UNCHANGED <<hour, alarm, again, begun, looked, ended, misses>>

\* A failing call, or an answer that asks for another one (RETRYABLE_SKIPS): the
\* handler throws before it arms the alarm.
Throw(t) ==
    /\ Is(t, "waiting") /\ misses < MaxMisses /\ misses' = misses + 1
    /\ again' \in {again, again \/ handler[t].kind = "alarm"}
    /\ Become(t, Over) /\ ended' = "badly"
    /\ UNCHANGED <<hour, storage, ghosts>>

\* armNext: a watchdog counts from the time at which it began.
nextBoundary(t) == (IF handler[t].kind = "watchdog" THEN handler[t].at ELSE hour) + 1

ArmNext(t) ==
    /\ Is(t, "arming") /\ alarm' = nextBoundary(t)
    /\ Become(t, Over) /\ ended' = "well"
    /\ UNCHANGED <<hour, success, again, ghosts, misses>>

\* The runtime evicts the object and with it every call of it.
Evict ==
    /\ misses < MaxMisses /\ misses' = misses + 1
    /\ \E t \in Handlers : handler[t].pc \in {"waiting", "arming"}
    /\ handler' = [t \in Handlers |->
                     IF handler[t].pc \in {"waiting", "arming"} THEN Over ELSE handler[t]]
    /\ again' = (again \/ \E t \in Handlers : handler[t].kind = "alarm")
    /\ ended' = "badly"
    /\ UNCHANGED <<hour, storage, ghosts>>

Next ==
    \/ HourTurns \/ Evict
    \/ \E t \in Handlers : \/ Alarm(t) \/ Watchdog(t) \/ Run(t) \/ Arm(t)
                           \/ Succeed(t) \/ Throw(t) \/ ArmNext(t)

Spec == Init /\ [][Next]_vars

-----------------------------------------------------------------------------
(* Properties                                                              *)

\* An hour the watchdog has looked at is never skipped: a request to the scanner
\* was sent in it, or one sent in the hour before was answered in it.  And the
\* object is left without an alarm only while its handler runs, the runtime will
\* call it again, or the call that ended last ended by throwing.
HourIsNotSkipped ==
    /\ looked \subseteq begun \cup spanned
    /\ alarm = NoHour => \/ again \/ ended # "well"
                         \/ \E t \in Handlers : handler[t].kind = "alarm" /\ ~Is(t, "over")
=============================================================================
