-------------------------- MODULE TelegramOwnership --------------------------
(***************************************************************************)
(* Who receives the bot's Telegram updates, and what becomes of each.      *)
(*                                                                         *)
(* Telegram keeps the pending updates and one webhook address.  While the  *)
(* address is set it delivers to the cloud route                           *)
(* dashboard/src/app/api/telegram/webhook/route.ts and refuses getUpdates; *)
(* while it is empty the PC controller polls.  The controller moves        *)
(* ownership by its mode (STANDBY -> ARMING -> LOCAL_ACTIVE -> RECOVERING  *)
(* -> STANDBY, or BLOCKED_UNCERTAIN), one remote call at a time: each may  *)
(* fail, a failed setWebhook or deleteWebhook may have taken effect, the   *)
(* process may stop between any two, and the dashboard's setup route       *)
(* installs the webhook whenever somebody calls it.                        *)
(*                                                                         *)
(* What a line does to intents is module LocalExecution, except that an    *)
(* intent may wait for its approval.  Every change of the state file is    *)
(* saved before the next await, so the variables of `file' are durable.    *)
(***************************************************************************)
EXTENDS Naturals, Sequences

CONSTANTS
    ControlModes,   \* the values of controlMode a config may have
    TakeOwnership,  \* takeTelegramOwnership: may local-primary delete a webhook?
    LinesOf,        \* command lines of update 1, 2, ...; 0: another chat's message
    Mutations,      \* lines that create an intent awaiting approval
    Threshold,      \* writeFailureThreshold
    MaxFaults,      \* bound on the remote calls that fail
    MaxCrashes,     \* bound on the stops of the controller
    MaxLosses,      \* bound on the state files found corrupt, by control mode
    MaxSetups       \* bound on the webhooks set by somebody else, likewise

Updates == DOMAIN LinesOf
Lines   == UNION {{<<u, k>> : k \in 1..LinesOf[u]} : u \in Updates}

ASSUME OwnershipAssumption ==
    /\ ControlModes \subseteq {"failover", "local-primary"}
    /\ TakeOwnership \in BOOLEAN
    /\ LinesOf \in Seq(Nat)
    /\ Mutations \subseteq Lines
    /\ Threshold \in Nat \ {0}
    /\ {MaxFaults, MaxCrashes} \subseteq Nat
    /\ {MaxLosses, MaxSetups} \subseteq [ControlModes -> Nat]

VARIABLES
    control,   \* controlMode of the config, read when the process starts
    mode,      \* the controller's mode
    streak,    \* writeProbeFailureStreak
    offset,    \* lastUpdateId
    handled,   \* handledUpdateIds
    commands,  \* command record of each line
    replies,   \* pendingReplies
    waiting,   \* lines whose local intent awaits approval
    fresh,     \* was the webhook seen empty within webhookCheckIntervalMs?
    pc,        \* the controller's step
    booting,   \* is it still in reconcileStartup?
    inbox,     \* the updates of the last poll yet to be processed
    line,      \* the line of the first of them to be processed next
    hook,      \* Telegram: whose webhook address is set
    queue,     \* Telegram: pending updates
    sent,      \* the last update an operator sent
    key,       \* Redis: oak:telegram:cloud:update:<id>
    cloud,     \* the webhook route's handler of each update
    runs,      \* how often the controller handled each line (never read)
    answered,  \* updates whose reply was delivered (never read)
    lost,      \* state files lost so far
    faults, crashes, setups

file     == <<mode, streak, offset, handled, commands, replies, waiting, fresh>>
process  == <<pc, booting, inbox, line>>
telegram == <<hook, queue, sent>>
redis    == <<key, cloud>>
ghost    == <<runs, answered>>
bounds   == <<lost, faults, crashes, setups>>
vars     == <<control, file, process, telegram, redis, ghost, bounds>>

-----------------------------------------------------------------------------
Modes == {"STANDBY", "ARMING", "LOCAL_ACTIVE", "RECOVERING", "BLOCKED_UNCERTAIN"}
Hooks == {"none", "cloud", "other"}
Steps == {"down", "boot", "top", "own", "ownDelete", "ownVerify",
          "armCheck", "armDelete", "armVerify", "recVerify", "fence", "setHook", "checkHook",
          "verify", "flush", "poll", "line", "run", "ran", "reply"}
Records == {"none", "processing", "done"}

First(S) == CHOOSE u \in S : \A v \in S : u <= v
Upto(u, k) == IF u > k THEN u ELSE k

LocalPrimary == control = "local-primary"

TypeOK ==
    /\ control \in ControlModes
    /\ mode \in Modes /\ streak \in 0..Threshold
    /\ offset \in {0} \cup Updates /\ sent \in {0} \cup Updates
    /\ handled \subseteq Updates /\ replies \subseteq Updates /\ answered \subseteq Updates
    /\ commands \in [Lines -> Records]
    /\ waiting \subseteq Mutations
    /\ fresh \in BOOLEAN /\ booting \in BOOLEAN
    /\ pc \in Steps
    /\ inbox \subseteq Updates /\ queue \subseteq Updates
    /\ line \in Nat \ {0}
    /\ hook \in Hooks
    /\ key \in [Updates -> Records]
    /\ cloud \in [Updates -> {"idle", "running"}]
    /\ runs \in [Lines -> Nat]
    /\ lost \in 0..MaxLosses[control] /\ faults \in 0..MaxFaults
    /\ crashes \in 0..MaxCrashes /\ setups \in 0..MaxSetups[control]
    /\ pc \in {"line", "run", "ran"} => inbox # {}

Init ==
    /\ control \in ControlModes
    /\ mode = "STANDBY" /\ streak = 0 /\ offset = 0 /\ fresh = FALSE
    /\ handled = {} /\ replies = {} /\ waiting = {}
    /\ commands = [l \in Lines |-> "none"]
    /\ pc = "down" /\ booting = FALSE /\ inbox = {} /\ line = 1
    /\ hook = "cloud" /\ queue = {} /\ sent = 0
    /\ key = [u \in Updates |-> "none"]
    /\ cloud = [u \in Updates |-> "idle"]
    /\ runs = [l \in Lines |-> 0] /\ answered = {}
    /\ lost = 0 /\ faults = 0 /\ crashes = 0 /\ setups = 0

-----------------------------------------------------------------------------
(* Steps of the controller *)

At(step)   == pc = step
GoTo(step) == pc' = step /\ UNCHANGED <<booting, inbox, line>>

Answers == UNCHANGED faults
Fails   == faults < MaxFaults /\ faults' = faults + 1

\* transition
Enter(m) == mode' = m

\* An exception ends the iteration, or the process when it is still starting.
Abort == GoTo(IF booting THEN "down" ELSE "top")

\* observeWebhook: what is read is remembered.  (An address that is found set is
\* never followed by a cached check: the mode leaves LOCAL_ACTIVE.)
Remember == fresh' = (fresh \/ hook = "none")

Elsewhere == <<control, redis, ghost, lost, crashes, setups>>
Quiet     == <<telegram, Elsewhere>>

\* main: the task scheduler starts the process, loadState reads the file.
Start ==
    /\ At("down")
    /\ pc' = IF LocalPrimary THEN "own" ELSE "boot"
    /\ booting' = TRUE /\ inbox' = {} /\ line' = 1
    /\ UNCHANGED <<file, Quiet, faults>>

\* reconcileStartup in failover mode: what the webhook says about a mode that a
\* crash may have left behind.
StartupMode ==
    CASE mode = "ARMING" /\ hook = "none"      -> "LOCAL_ACTIVE"
      [] mode = "ARMING" /\ hook = "cloud"     -> "STANDBY"
      [] mode = "RECOVERING" /\ hook = "none"  -> "RECOVERING"
      [] mode = "RECOVERING" /\ hook = "cloud" -> "STANDBY"
      [] mode = "LOCAL_ACTIVE" /\ hook = "none" -> "LOCAL_ACTIVE"
      [] mode = "STANDBY" /\ hook = "cloud"    -> "STANDBY"
      [] OTHER                                 -> "BLOCKED_UNCERTAIN"

ReconcileStartup ==
    /\ At("boot")
    /\ \/ Fails /\ Abort /\ UNCHANGED file
       \/ /\ Answers
          /\ Remember
          /\ Enter(StartupMode)
          /\ handled' = IF mode = "RECOVERING" /\ hook = "cloud" THEN {} ELSE handled
          /\ pc' = "top" /\ booting' = FALSE /\ UNCHANGED <<inbox, line>>
          /\ UNCHANGED <<streak, offset, commands, replies, waiting>>
    /\ UNCHANGED Quiet

\* runOneIteration in failover mode.  The EAs' health rows and the write probe
\* decide; both are the environment's.  A streak at the threshold stays there.
StayInStandby ==
    /\ At("top") /\ ~ LocalPrimary /\ mode = "STANDBY"
    /\ streak' = 0
    /\ UNCHANGED <<mode, offset, handled, commands, replies, waiting, fresh, process, Quiet, faults>>

WriteProbeFails ==
    LET n == IF streak < Threshold THEN streak + 1 ELSE streak IN
    /\ At("top") /\ ~ LocalPrimary /\ mode = "STANDBY"
    /\ streak' = n
    /\ IF n = Threshold THEN Enter("ARMING") /\ GoTo("armCheck")
                        ELSE UNCHANGED <<mode, process>>
    /\ UNCHANGED <<offset, handled, commands, replies, waiting, fresh, Quiet, faults>>

\* No handler that the cloud started before a takeover is still running when the
\* EAs have reported the cloud healthy for cloudRecoveryThreshold heartbeats.
CloudRecovered ==
    /\ At("top") /\ ~ LocalPrimary /\ mode = "LOCAL_ACTIVE"
    /\ \A u \in Updates : cloud[u] = "idle"
    /\ GoTo("recVerify")
    /\ UNCHANGED <<file, Quiet, faults>>

ContinueIteration ==
    /\ At("top")
    /\ \/ mode = "LOCAL_ACTIVE" /\ GoTo("verify")
       \/ mode = "RECOVERING" /\ ~ LocalPrimary /\ GoTo("fence")
       \/ mode # "LOCAL_ACTIVE" /\ LocalPrimary /\ GoTo("own")
    /\ UNCHANGED <<file, Quiet, faults>>

-----------------------------------------------------------------------------
(* ensureLocalPrimaryOwnership *)

Own == /\ Enter("LOCAL_ACTIVE") /\ streak' = 0 /\ fresh' = TRUE
       /\ pc' = (IF booting THEN "top" ELSE "verify") /\ booting' = FALSE
       /\ UNCHANGED <<offset, handled, commands, replies, waiting, inbox, line>>

Block == /\ Enter("BLOCKED_UNCERTAIN")
         /\ pc' = "top" /\ booting' = FALSE
         /\ UNCHANGED <<streak, offset, handled, commands, replies, waiting, fresh, inbox, line>>

ObserveForOwnership ==
    /\ At("own")
    /\ \/ Fails /\ Abort /\ UNCHANGED file
       \/ Answers /\ hook = "none" /\ Own
       \/ Answers /\ hook # "none" /\ ~ TakeOwnership /\ Block
       \/ Answers /\ hook # "none" /\ TakeOwnership /\ GoTo("ownDelete") /\ UNCHANGED file
    /\ UNCHANGED Quiet

\* deleteWebhook, of a takeover and of an activation: pending updates are kept.
DeleteWebhook(step, next) ==
    /\ At(step)
    /\ \/ Answers /\ hook' = "none" /\ GoTo(next)
       \/ Fails /\ hook' \in {hook, "none"} /\ Abort
    /\ UNCHANGED <<file, queue, sent, Elsewhere>>

DeleteForOwnership == DeleteWebhook("ownDelete", "ownVerify")

VerifyOwnershipTaken ==
    /\ At("ownVerify")
    /\ \/ Fails /\ Abort /\ UNCHANGED file
       \/ Answers /\ hook = "none" /\ Own
       \/ Answers /\ hook # "none" /\ Block
    /\ UNCHANGED Quiet

-----------------------------------------------------------------------------
(* activateLocal: only a verified empty webhook makes the PC the owner.  An
   exception leaves the mode ARMING, which only a restart resolves. *)

CheckBeforeActivation ==
    /\ At("armCheck")
    /\ \/ Fails /\ Abort /\ UNCHANGED file
       \/ Answers /\ hook # "cloud" /\ Block
       \/ Answers /\ hook = "cloud" /\ GoTo("armDelete") /\ UNCHANGED file
    /\ UNCHANGED Quiet

DeleteForActivation == DeleteWebhook("armDelete", "armVerify")

ActivateLocal ==
    /\ At("armVerify")
    /\ \/ Fails /\ Abort /\ UNCHANGED file
       \/ Answers /\ hook # "none" /\ Block
       \/ /\ Answers /\ hook = "none"
          /\ Enter("LOCAL_ACTIVE") /\ fresh' = TRUE /\ GoTo("verify")
          /\ UNCHANGED <<streak, offset, handled, commands, replies, waiting>>
    /\ UNCHANGED Quiet

-----------------------------------------------------------------------------
(* maybeRecover and continueRecovery: fence, then restore, then verify. *)

\* The forced check.  When it cannot be made the iteration goes on without it.
VerifyBeforeRecovery ==
    /\ At("recVerify")
    /\ \/ Fails /\ GoTo("verify") /\ UNCHANGED file
       \/ Answers /\ hook # "none" /\ Block
       \/ /\ Answers /\ hook = "none"
          /\ Enter("RECOVERING") /\ fresh' = TRUE /\ GoTo("fence")
          /\ UNCHANGED <<streak, offset, handled, commands, replies, waiting>>
    /\ UNCHANGED Quiet

RecoverUnfenced ==
    /\ At("fence")
    /\ Answers /\ GoTo("setHook") /\ UNCHANGED <<file, Quiet>>

\* fenceHandledUpdates: one script marks the handled updates as done.  When it
\* fails the PC keeps Telegram (or believes it does).
FenceHandledUpdates ==
    /\ At("fence")
    /\ \/ /\ Answers
          /\ key' = [u \in Updates |-> IF u \in handled THEN "done" ELSE key[u]]
          /\ GoTo("setHook")
          /\ UNCHANGED file
       \/ /\ Fails
          /\ key' \in {key, [u \in Updates |-> IF u \in handled THEN "done" ELSE key[u]]}
          /\ Enter("LOCAL_ACTIVE") /\ GoTo("verify")
          /\ UNCHANGED <<streak, offset, handled, commands, replies, waiting, fresh>>
    /\ UNCHANGED <<control, telegram, cloud, ghost, lost, crashes, setups>>

SetWebhook ==
    /\ At("setHook")
    /\ \/ Answers /\ hook' = "cloud" /\ GoTo("checkHook")
       \/ Fails /\ hook' \in {hook, "cloud"} /\ Abort
    /\ UNCHANGED <<file, queue, sent, Elsewhere>>

\* Only now are the unapproved local intents expired.
FinishRecovery ==
    /\ At("checkHook")
    /\ \/ Fails /\ Abort /\ UNCHANGED file
       \/ Answers /\ hook # "cloud" /\ Block
       \/ /\ Answers /\ hook = "cloud"
          /\ Enter("STANDBY") /\ handled' = {} /\ waiting' = {} /\ fresh' = FALSE
          /\ GoTo("top")
          /\ UNCHANGED <<streak, offset, commands, replies>>
    /\ UNCHANGED Quiet

-----------------------------------------------------------------------------
(* LOCAL_ACTIVE: verify, deliver old replies, poll, process line by line. *)

VerifyLocalOwnership ==
    /\ At("verify")
    /\ \/ fresh /\ Answers /\ GoTo("flush") /\ UNCHANGED file
       \/ ~ fresh /\ Fails /\ GoTo("top") /\ UNCHANGED file
       \/ ~ fresh /\ Answers /\ hook # "none" /\ Block
       \/ /\ ~ fresh /\ Answers /\ hook = "none"
          /\ fresh' = TRUE /\ GoTo("flush")
          /\ UNCHANGED <<mode, streak, offset, handled, commands, replies, waiting>>
    /\ UNCHANGED Quiet

\* flushPendingReplies: in order, up to the first that fails; a delivered reply
\* is removed, the others stay for the next time.
FlushPendingReplies(step, next) ==
    /\ At(step)
    /\ \/ Answers /\ replies' = {}
       \/ Fails /\ \E u \in replies : replies' = {v \in replies : v >= u}
    /\ answered' = answered \cup (replies \ replies')
    /\ GoTo(next)
    /\ UNCHANGED <<mode, streak, offset, handled, commands, waiting, fresh>>
    /\ UNCHANGED <<control, telegram, redis, runs, lost, crashes, setups>>

FlushBeforePoll == FlushPendingReplies("flush", "poll")
FlushAfterUpdate == FlushPendingReplies("reply", IF inbox = {} THEN "top" ELSE "line")

PollAdvancesOffset ==
    /\ At("poll") /\ hook = "none" /\ Answers
    /\ queue' = {u \in queue : u > offset}
    /\ inbox' = queue'
    /\ offset' = IF queue' = {} THEN offset ELSE sent
    /\ line' = 1 /\ pc' = (IF queue' = {} THEN "top" ELSE "line") /\ UNCHANGED booting
    /\ UNCHANGED <<mode, streak, handled, commands, replies, waiting, fresh, hook, sent, Elsewhere>>

\* getUpdates: refused while a webhook is set; confirms everything up to offset.
Poll ==
    /\ At("poll")
    /\ \/ /\ Fails \/ (hook # "none" /\ Answers)
          /\ GoTo("top")
          /\ UNCHANGED queue
       \/ /\ hook = "none" /\ Answers
          /\ queue' = {u \in queue : u > offset}
          /\ inbox' = queue'
          /\ line' = 1
          /\ pc' = IF queue' = {} THEN "top" ELSE "line"
          /\ UNCHANGED booting
    /\ UNCHANGED <<file, hook, sent, Elsewhere>>

(* processTelegramUpdate *)

Current == <<First(inbox), line>>
More    == line <= LinesOf[First(inbox)]

\* The durable marker is written before anything is done for a line.
MarkLine ==
    /\ At("line") /\ More /\ commands[Current] = "none"
    /\ commands' = [commands EXCEPT ![Current] = "processing"]
    /\ GoTo("run")
    /\ UNCHANGED <<mode, streak, offset, handled, replies, waiting, fresh, Quiet, faults>>

ReplayMarkedLine ==
    /\ At("line") /\ More /\ commands[Current] = "processing"
    /\ GoTo("run")
    /\ UNCHANGED <<file, Quiet, faults>>

\* A line whose marker is already there was interrupted: its outcome says so.
InterruptedLine ==
    /\ At("line") /\ More /\ commands[Current] = "processing"
    /\ commands' = [commands EXCEPT ![Current] = "done"]
    /\ line' = line + 1
    /\ UNCHANGED <<pc, booting, inbox>>
    /\ UNCHANGED <<mode, streak, offset, handled, replies, waiting, fresh, Quiet, faults>>

SkipDoneLine ==
    /\ At("line") /\ More /\ commands[Current] = "done"
    /\ line' = line + 1
    /\ UNCHANGED <<pc, booting, inbox, file, Quiet, faults>>

\* handleCommand: a mutation creates an intent, another command may settle those
\* that wait.
RunLine ==
    /\ At("run")
    /\ runs' = [runs EXCEPT ![Current] = @ + 1]
    /\ IF Current \in Mutations THEN waiting' = waiting \cup {Current}
                                ELSE waiting' \in {waiting, {}}
    /\ GoTo("ran")
    /\ UNCHANGED <<mode, streak, offset, handled, commands, replies, fresh>>
    /\ UNCHANGED <<control, telegram, redis, answered, bounds>>

LineDone ==
    /\ At("ran")
    /\ commands' = [commands EXCEPT ![Current] = "done"]
    /\ pc' = "line" /\ line' = line + 1 /\ UNCHANGED <<booting, inbox>>
    /\ UNCHANGED <<mode, streak, offset, handled, replies, waiting, fresh, Quiet, faults>>

FinishOffsetOnly ==
    LET u == First(inbox) IN
    /\ At("line") /\ ~ More
    /\ offset' = Upto(offset, u)
    /\ handled' = handled \cup {u}
    /\ inbox' = inbox \ {u} /\ line' = 1 /\ pc' = "reply" /\ UNCHANGED booting
    /\ UNCHANGED <<mode, streak, commands, replies, waiting, fresh, Quiet, faults>>

\* Reply, offset and handled id are one save.  Another chat's message has no reply.
FinishUpdate ==
    LET u == First(inbox) IN
    /\ At("line") /\ ~ More
    /\ replies' = IF LinesOf[u] = 0 THEN replies ELSE replies \cup {u}
    /\ offset' = Upto(offset, u)
    /\ handled' = handled \cup {u}
    /\ inbox' = inbox \ {u} /\ line' = 1 /\ pc' = "reply" /\ UNCHANGED booting
    /\ UNCHANGED <<mode, streak, commands, waiting, fresh, Quiet, faults>>

-----------------------------------------------------------------------------
(* Telegram and the cloud's webhook route *)

Send ==
    /\ sent + 1 \in Updates
    /\ sent' = sent + 1
    /\ queue' = queue \cup {sent'}
    /\ UNCHANGED <<control, file, process, hook, redis, ghost, bounds>>

\* acquireTelegramUpdate: an update that is done is answered with success, one
\* that is being processed with an error, so that Telegram asks again.
Deliver(u) ==
    /\ hook = "cloud" /\ u \in queue
    /\ \/ /\ key[u] = "none" /\ cloud[u] = "idle"
          /\ key' = [key EXCEPT ![u] = "processing"]
          /\ cloud' = [cloud EXCEPT ![u] = "running"]
          /\ UNCHANGED queue
       \/ /\ key[u] = "done"
          /\ queue' = queue \ {u}
          /\ UNCHANGED redis
    /\ UNCHANGED <<control, file, process, hook, sent, ghost, bounds>>

\* Telegram may or may not count the answer to a webhook deleted meanwhile.
Complete(u) ==
    /\ cloud[u] = "running"
    /\ cloud' = [cloud EXCEPT ![u] = "idle"]
    /\ key' = [key EXCEPT ![u] = "done"]
    /\ queue' \in {queue \ {u}} \cup (IF hook = "cloud" THEN {} ELSE {queue})
    /\ UNCHANGED <<control, file, process, hook, sent, ghost, bounds>>

\* The handler throws and releases the update, or is killed and does not.
HandlerFails(u) ==
    /\ cloud[u] = "running"
    /\ Fails
    /\ cloud' = [cloud EXCEPT ![u] = "idle"]
    /\ key' \in {[key EXCEPT ![u] = "none"], key}
    /\ UNCHANGED <<control, file, process, telegram, ghost, lost, crashes, setups>>

\* "processing" is kept for 90 seconds, longer than a handler may run.
KeyExpires(u) ==
    /\ key[u] = "processing" /\ cloud[u] = "idle"
    /\ key' = [key EXCEPT ![u] = "none"]
    /\ UNCHANGED <<control, file, process, telegram, cloud, ghost, bounds>>

\* The dashboard's setup route, or anybody who holds the token.
SetupWebhook ==
    /\ setups < MaxSetups[control]
    /\ setups' = setups + 1
    /\ hook' \in {"cloud", "other"}
    /\ UNCHANGED <<control, file, process, queue, sent, redis, ghost, lost, faults, crashes>>

-----------------------------------------------------------------------------
(* Time and faults of the controller *)

Age ==
    /\ fresh
    /\ fresh' = FALSE
    /\ UNCHANGED <<mode, streak, offset, handled, commands, replies, waiting>>
    /\ UNCHANGED <<control, process, telegram, redis, ghost, bounds>>

Crash ==
    /\ ~ At("down")
    /\ crashes < MaxCrashes
    /\ crashes' = crashes + 1
    /\ pc' = "down" /\ booting' = FALSE /\ inbox' = {} /\ line' = 1
    /\ UNCHANGED <<control, file, telegram, redis, ghost, lost, faults, setups>>

\* loadState finds a file it cannot parse, left by an earlier run: the defaults,
\* and blocked.
LoseState ==
    /\ At("down") /\ faults + crashes > 0
    /\ lost < MaxLosses[control]
    /\ lost' = lost + 1
    /\ Enter("BLOCKED_UNCERTAIN") /\ streak' = 0 /\ offset' = 0 /\ fresh' = FALSE
    /\ handled' = {} /\ replies' = {} /\ waiting' = {}
    /\ commands' = [l \in Lines |-> "none"]
    /\ UNCHANGED <<control, process, telegram, redis, ghost, faults, crashes, setups>>

-----------------------------------------------------------------------------
Controller ==
    \/ Start \/ ReconcileStartup
    \/ StayInStandby \/ WriteProbeFails \/ CloudRecovered \/ ContinueIteration
    \/ ObserveForOwnership \/ DeleteForOwnership \/ VerifyOwnershipTaken
    \/ CheckBeforeActivation \/ DeleteForActivation \/ ActivateLocal
    \/ VerifyBeforeRecovery \/ FenceHandledUpdates \/ SetWebhook \/ FinishRecovery
    \/ VerifyLocalOwnership \/ FlushBeforePoll \/ Poll
    \/ MarkLine \/ InterruptedLine \/ SkipDoneLine \/ RunLine \/ LineDone
    \/ FinishUpdate \/ FlushAfterUpdate

Cloud(u) == Deliver(u) \/ Complete(u) \/ KeyExpires(u)

Next ==
    \/ Controller
    \/ Send \/ SetupWebhook
    \/ \E u \in Updates : Cloud(u) \/ HandlerFails(u)
    \/ Age \/ Crash \/ LoseState

Spec == Init /\ [][Next]_vars

\* The task scheduler restarts the process and its loop goes on; Telegram
\* delivers, the cloud's handlers end, keys expire and the clock advances.
FairSpec ==
    /\ Spec
    /\ WF_vars(Controller) /\ WF_vars(Age)
    /\ \A u \in Updates : WF_vars(Cloud(u))

-----------------------------------------------------------------------------
(* Properties *)

\* The controller handles a line at most once: the durable marker survives
\* crashes, repeated polls and handbacks (behavior case 13), and in failover
\* mode a lost state file stops it for good.
LineRunsOnceLocally ==
    lost = 0 \/ ~ LocalPrimary => \A l \in Lines : runs[l] <= 1

\* Telegram forgets an update only when the controller has an outcome for every
\* line of it (until its state file is lost), or the cloud has completed it.
ConfirmedIsHandled ==
    \A u \in Updates :
        u <= sent /\ u \notin queue =>
            \/ key[u] = "done"
            \/ lost > 0
            \/ u <= offset /\ \A k \in 1..LinesOf[u] : commands[<<u, k>>] = "done"

\* What the controller has finished the cloud never starts again, in failover
\* mode and while nobody else sets the webhook: the handled ids are fenced before
\* it is restored (continueRecovery), and they survive every crash, failed call
\* and repeated recovery until then.
HandledIsNotRunByCloud ==
    [][\A u \in Updates :
          cloud[u] = "idle" /\ cloud'[u] = "running"
              => u > offset \/ LocalPrimary \/ setups > 0]_vars

\* STANDBY means that the cloud does receive the updates, in failover mode and
\* while nobody else sets the webhook: no crash or failed call between
\* deleteWebhook and setWebhook leaves Telegram with no reader and a controller
\* that believes the cloud is one (behavior case 7).
StandbyMeansCloud ==
    mode = "STANDBY" => hook = "cloud" \/ LocalPrimary \/ setups > 0

\* In local-primary mode every update is answered by the PC, or was completed
\* by the cloud, whatever crashes, fails or sets the webhook a bounded number of
\* times.  (Another chat's message has no answer: it is dropped.)
UpdateIsServed ==
    \A u \in Updates :
        LinesOf[u] > 0 /\ u <= sent /\ LocalPrimary ~> u \in answered \/ key[u] = "done"

=============================================================================
