--------------------------- MODULE GatewayProcess ---------------------------
(***************************************************************************)
(* The life of the gateway as operating-system processes: `taishi service` *)
(* (service/macos-launch-agent.ts) tells launchd to start and to stop a    *)
(* supervisor (supervisor.ts), which runs one worker after another         *)
(* (gateway-worker.ts), each with the runtime of runtime.ts inside.        *)
(*                                                                         *)
(* A worker ends with code 75 to be replaced, with 0 after a stop, with    *)
(* another code or by a signal when something went wrong.  Before it ends  *)
(* by itself it closes admission and waits for the work it had accepted,   *)
(* which four components count: the gateway's turns, the Slack handlers,   *)
(* the MCP service's executions and the MCP server's HTTP requests.        *)
(***************************************************************************)
EXTENDS Naturals, FiniteSets

CONSTANTS
    Tasks,          \* pieces of work a worker may be given
    MaxWorkers,     \* bound on the workers spawned
    MaxCrashes,     \* bound on processes killed from outside
    MaxClicks,      \* bound on Slack clicks handled while admission is closed
    MaxTurns        \* bound on the gateway turns of one piece of work

ASSUME GatewayBoundsAssumption ==
    /\ MaxWorkers \in Nat \ {0} /\ MaxCrashes \in Nat
    /\ MaxClicks \in Nat /\ MaxTurns \in Nat

Workers == 1..MaxWorkers
NoWorker == 0

Clean == 0
Failed == 1
Signalled == 9
GATEWAY_RESTART_EXIT_CODE == 75

Components == {"gateway", "slack", "service", "http"}

VARIABLES
    supervisor,     \* none, watch (awaits its child), held (holdFailedStop)
    stopping,       \* the supervisor's `stopping`
    lastExit,       \* the exit code launchd remembers
    spawned,        \* workers spawned so far; the last one is the child
    worker,         \* worker -> phase, exit code and the requests it has seen
    lockOwner,      \* worker named by the state lock file
    busy,           \* task -> components that count it, in the serving worker
    turns,          \* task -> gateway turns started for it
    waiting,        \* components whose idle promise is pending in this round
    clicks,         \* clicks accepted while admission was closed
    command,        \* `taishi service stop`: idle, polling, confirmed, refused
    stopAsked,      \* history: a stop reached the supervisor; no start since
    crashes         \* processes killed so far

gatewayVars == <<supervisor, stopping, lastExit, spawned, worker, lockOwner, busy,
                 turns, waiting, clicks, command, stopAsked, crashes>>
supervisorVars == <<supervisor, stopping, lastExit, spawned>>
workVars == <<busy, turns, waiting, clicks>>
outsideVars == <<command, stopAsked, crashes>>

Phases == {"unborn", "boot", "create", "start", "serve", "drain", "stop", "exit", "gone"}

(* Type invariant of the processes, their exit codes and the work.         *)
GatewayTypeOK ==
    /\ supervisor \in {"none", "watch", "held"}
    /\ stopping \in BOOLEAN /\ stopAsked \in BOOLEAN
    /\ lastExit \in {Clean, Failed, Signalled}
    /\ spawned \in 0..MaxWorkers
    /\ worker \in [Workers -> [phase : Phases,
                               code : {Clean, Failed, Signalled, GATEWAY_RESTART_EXIT_CODE},
                               stop : BOOLEAN, restart : BOOLEAN, closed : BOOLEAN]]
    /\ lockOwner \in 0..MaxWorkers
    /\ busy \in [Tasks -> SUBSET Components]
    /\ turns \in [Tasks -> 0..MaxTurns]
    /\ waiting \subseteq Components
    /\ clicks \in 0..MaxClicks
    /\ command \in {"idle", "polling", "confirmed", "refused"}
    /\ crashes \in 0..MaxCrashes

NewWorker(phase) == [phase |-> phase, code |-> GATEWAY_RESTART_EXIT_CODE,
                     stop |-> FALSE, restart |-> FALSE, closed |-> FALSE]

(* An installed service that was stopped cleanly.                          *)
GatewayInit ==
    /\ supervisor = "none" /\ stopping = FALSE /\ lastExit = Clean
    /\ spawned = 0 /\ worker = [w \in Workers |-> NewWorker("unborn")]
    /\ lockOwner = NoWorker
    /\ busy = [t \in Tasks |-> {}] /\ turns = [t \in Tasks |-> 0] /\ waiting = {} /\ clicks = 0
    /\ command = "idle" /\ stopAsked = FALSE /\ crashes = 0

-----------------------------------------------------------------------------

Alive(w) == worker[w].phase \notin {"unborn", "gone"}
Running == {w \in Workers : worker[w].phase \in {"serve", "drain", "stop"}}
IdleComponents == {c \in Components : \A t \in Tasks : c \notin busy[t]}
AllIdle == IdleComponents = Components

Becomes(w, phase) == worker' = [worker EXCEPT ![w].phase = phase]
Ends(w, code) == worker' = [worker EXCEPT ![w].phase = "gone", ![w].code = code]

(* What a process had in memory ends with it.                              *)
DropWork ==
    /\ busy' = [t \in Tasks |-> {}] /\ turns' = [t \in Tasks |-> 0]
    /\ waiting' = {} /\ clicks' = 0

Spawn ==
    /\ spawned < MaxWorkers
    /\ spawned' = spawned + 1
    /\ worker' = [worker EXCEPT ![spawned + 1] = NewWorker("boot")]

(* The supervisor starts and spawns its first worker in the same turn of   *)
(* the event loop.                                                         *)
SuperviseGatewayWorker ==
    /\ supervisor = "none"
    /\ Spawn
    /\ supervisor' = "watch" /\ stopping' = FALSE
    /\ UNCHANGED <<lastExit, lockOwner>> /\ UNCHANGED workVars

(* `taishi service start`: only a cleanly stopped job is kick-started.     *)
ServiceStart ==
    /\ lastExit = Clean
    /\ SuperviseGatewayWorker
    /\ command' = "idle" /\ stopAsked' = FALSE /\ UNCHANGED crashes

(* launchd, KeepAlive with SuccessfulExit false.                           *)
Respawn ==
    /\ lastExit # Clean
    /\ SuperviseGatewayWorker
    /\ UNCHANGED outsideVars

(* A SIGTERM ends a worker whose handlers are not (or no longer) there;    *)
(* otherwise it closes admission and is remembered.                        *)
Terminated(w) ==
    IF worker[w].phase \in {"boot", "create", "exit"}
      THEN [worker[w] EXCEPT !.phase = "gone", !.code = Signalled]
      ELSE [worker[w] EXCEPT !.stop = TRUE, !.closed = TRUE]

(* `taishi service stop` on a running job: SIGTERM to the supervisor,      *)
(* whose first signal is passed on to its child.                           *)
ServiceStop ==
    /\ command # "polling" /\ supervisor # "none"
    /\ command' = "polling" /\ stopAsked' = TRUE
    /\ stopping' = TRUE
    /\ worker' = IF stopping \/ ~Alive(spawned) THEN worker
                 ELSE [worker EXCEPT ![spawned] = Terminated(spawned)]
    /\ UNCHANGED <<supervisor, lastExit, spawned, lockOwner, crashes>>
    /\ UNCHANGED workVars

(* Every poll reads launchd's status: confirmed, unclean, or out of polls. *)
PollStop ==
    /\ command = "polling"
    /\ \/ supervisor = "none" /\ lastExit = Clean /\ command' = "confirmed"
       \/ supervisor = "none" /\ lastExit # Clean /\ command' = "refused"
       \/ supervisor # "none" /\ command' = "refused"
    /\ UNCHANGED <<worker, lockOwner, stopAsked, crashes>>
    /\ UNCHANGED supervisorVars /\ UNCHANGED workVars

ChildGone == supervisor = "watch" /\ worker[spawned].phase = "gone"

(* A stop is confirmed by a clean exit of the worker (a replacement that   *)
(* was under way counts as one); anything else is held, never replaced.    *)
StoppingChildExit ==
    /\ ChildGone /\ stopping
    /\ IF worker[spawned].code \in {Clean, GATEWAY_RESTART_EXIT_CODE}
         THEN supervisor' = "none" /\ lastExit' = Clean
         ELSE supervisor' = "held" /\ UNCHANGED lastExit
    /\ UNCHANGED <<stopping, spawned, worker, lockOwner>>
    /\ UNCHANGED workVars /\ UNCHANGED outsideVars

ReplaceChild ==
    /\ ChildGone /\ ~stopping
    /\ worker[spawned].code = GATEWAY_RESTART_EXIT_CODE
    /\ Spawn
    /\ UNCHANGED <<supervisor, stopping, lastExit, lockOwner>>
    /\ UNCHANGED workVars /\ UNCHANGED outsideVars

SupervisorEnds ==
    /\ ChildGone /\ ~stopping
    /\ worker[spawned].code # GATEWAY_RESTART_EXIT_CODE
    /\ supervisor' = "none"
    /\ lastExit' = IF worker[spawned].code = Clean THEN Clean ELSE Failed
    /\ UNCHANGED <<stopping, spawned, worker, lockOwner>>
    /\ UNCHANGED workVars /\ UNCHANGED outsideVars

-----------------------------------------------------------------------------

(* acquireLock: a lock of a live process refuses the worker.               *)
TakeLock(w) ==
    /\ worker[w].phase = "boot"
    /\ IF lockOwner = NoWorker \/ ~Alive(lockOwner)
         THEN lockOwner' = w /\ Becomes(w, "create")
         ELSE UNCHANGED lockOwner /\ Ends(w, Failed)
    /\ UNCHANGED supervisorVars /\ UNCHANGED workVars /\ UNCHANGED outsideVars

(* createRuntime, then the signal handlers; its own failure releases the   *)
(* lock.                                                                   *)
CreateRuntime(w) ==
    /\ worker[w].phase = "create"
    /\ \/ Becomes(w, "start") /\ UNCHANGED lockOwner
       \/ Ends(w, Failed) /\ lockOwner' = NoWorker
    /\ UNCHANGED supervisorVars /\ UNCHANGED workVars /\ UNCHANGED outsideVars

(* runtime.start; when it fails the cleanup still stops the runtime.       *)
StartRuntime(w) ==
    /\ worker[w].phase = "start"
    /\ \/ Becomes(w, "serve")
       \/ worker' = [worker EXCEPT ![w].phase = "stop", ![w].code = Failed]
    /\ UNCHANGED <<lockOwner>> /\ UNCHANGED supervisorVars
    /\ UNCHANGED workVars /\ UNCHANGED outsideVars

(* An owner's click, an approved MCP request or the admin page.            *)
RequestRestart(w) ==
    /\ worker[w].phase \in {"start", "serve"} /\ ~worker[w].restart
    /\ worker' = [worker EXCEPT ![w].restart = TRUE]
    /\ UNCHANGED <<lockOwner>> /\ UNCHANGED supervisorVars
    /\ UNCHANGED workVars /\ UNCHANGED outsideVars

(* Mutant of BeginDrain (no code): only a restart is waited for.           *)
DrainForRestart(w) ==
    /\ worker[w].phase = "serve" /\ worker[w].restart
    /\ worker' = [worker EXCEPT ![w].phase = "drain", ![w].closed = TRUE]
    /\ waiting' = Components \ IdleComponents
    /\ UNCHANGED <<lockOwner, busy, turns, clicks>>
    /\ UNCHANGED supervisorVars /\ UNCHANGED outsideVars

(* runGatewayWorkerLifecycle goes on with whichever came first; waitForIdle*)
(* asks every component for a promise.                                     *)
BeginDrain(w) ==
    /\ worker[w].phase = "serve"
    /\ worker[w].stop \/ worker[w].restart
    /\ worker' = [worker EXCEPT ![w].phase = "drain", ![w].closed = TRUE]
    /\ waiting' = Components \ IdleComponents
    /\ UNCHANGED <<lockOwner, busy, turns, clicks>>
    /\ UNCHANGED supervisorVars /\ UNCHANGED outsideVars

(* Mutant of IdleRound (no code): the second look at isIdle is missing.    *)
IdleRoundOnce(w) ==
    /\ worker[w].phase = "drain" /\ waiting = {}
    /\ Becomes(w, "stop") /\ UNCHANGED waiting
    /\ UNCHANGED <<lockOwner, busy, turns, clicks>>
    /\ UNCHANGED supervisorVars /\ UNCHANGED outsideVars

(* All four promises have resolved, at different moments: another round    *)
(* unless every component is idle now.                                     *)
IdleRound(w) ==
    /\ worker[w].phase = "drain" /\ waiting = {}
    /\ IF AllIdle THEN Becomes(w, "stop") /\ UNCHANGED waiting
                  ELSE waiting' = Components \ IdleComponents /\ UNCHANGED worker
    /\ UNCHANGED <<lockOwner, busy, turns, clicks>>
    /\ UNCHANGED supervisorVars /\ UNCHANGED outsideVars

(* Every five minutes: stop if nothing is left, whatever the promises say. *)
DrainCheckpoint(w) ==
    /\ worker[w].phase = "drain" /\ AllIdle
    /\ Becomes(w, "stop") /\ waiting' = {}
    /\ UNCHANGED <<lockOwner, busy, turns, clicks>>
    /\ UNCHANGED supervisorVars /\ UNCHANGED outsideVars

(* shutdownRuntime: its steps are all tried and their errors collected;    *)
(* flush and releaseLock come last.  What is unfinished now is cut off.    *)
(* The handlers go, and the exit code is settled.                          *)
ShutdownRuntime(w) ==
    /\ worker[w].phase = "stop"
    /\ lockOwner' = NoWorker
    /\ DropWork
    /\ \E clean \in BOOLEAN :
          worker' = [worker EXCEPT ![w].phase = "exit",
                     ![w].code = IF ~clean \/ @ = Failed THEN Failed
                                 ELSE IF worker[w].stop THEN Clean ELSE @]
    /\ UNCHANGED supervisorVars /\ UNCHANGED outsideVars

(* The output streams are flushed before process.exit.                     *)
ExitWorker(w) ==
    /\ worker[w].phase = "exit"
    /\ Becomes(w, "gone")
    /\ UNCHANGED <<lockOwner>> /\ UNCHANGED supervisorVars
    /\ UNCHANGED workVars /\ UNCHANGED outsideVars

-----------------------------------------------------------------------------

Admitting == \E w \in Running : worker[w].phase = "serve" /\ ~worker[w].closed

Count(t, components) ==
    /\ busy' = [busy EXCEPT ![t] = components]
    /\ waiting' = waiting \ {c \in Components :
                     \A u \in Tasks : c \notin (IF u = t THEN components ELSE busy[u])}
    /\ UNCHANGED <<worker, lockOwner>> /\ UNCHANGED supervisorVars
    /\ UNCHANGED outsideVars

(* A Slack message; refused once a restart is pending.                     *)
AcceptMessage(t) ==
    /\ Admitting /\ busy[t] = {}
    /\ Count(t, {"slack"}) /\ UNCHANGED <<turns, clicks>>

(* A click on a card is handled even then.                                 *)
AcceptClick(t) ==
    /\ Running # {} /\ ~Admitting /\ clicks < MaxClicks /\ busy[t] = {}
    /\ Count(t, {"slack"}) /\ clicks' = clicks + 1 /\ UNCHANGED turns

(* The handler of a message hands it to the gateway, and answers when the  *)
(* turn has ended; an MCP execution may start a turn of another Koe.       *)
StartTurn(t) ==
    /\ "gateway" \notin busy[t] /\ busy[t] \cap {"slack", "service"} # {}
    /\ turns[t] < MaxTurns /\ turns' = [turns EXCEPT ![t] = @ + 1]
    /\ Count(t, busy[t] \cup {"gateway"}) /\ UNCHANGED clicks

(* A turn calls a tool: an HTTP request, answered by the MCP service.      *)
CallTool(t) ==
    /\ Admitting /\ "gateway" \in busy[t] /\ "http" \notin busy[t]
    /\ Count(t, busy[t] \cup {"http", "service"}) /\ UNCHANGED <<turns, clicks>>

(* One component is done with the task, in the order the calls nest; a     *)
(* delegation goes on after its HTTP request was answered.                 *)
FinishPart(t) ==
    /\ Running # {}
    /\ \E c \in busy[t] :
          /\ c = "service" => "http" \notin busy[t] \/ "gateway" \notin busy[t]
          /\ c = "slack" => "gateway" \notin busy[t]
          /\ Count(t, busy[t] \ {c})
          /\ turns' = IF busy[t] = {c} THEN [turns EXCEPT ![t] = 0] ELSE turns
    /\ UNCHANGED clicks

-----------------------------------------------------------------------------

(* A worker or the supervisor is killed by force, or crashes.              *)
KillWorker(w) ==
    /\ Alive(w) /\ crashes < MaxCrashes
    /\ crashes' = crashes + 1
    /\ Ends(w, Signalled)
    /\ IF w \in Running THEN DropWork ELSE UNCHANGED workVars
    /\ UNCHANGED <<lockOwner, command, stopAsked>> /\ UNCHANGED supervisorVars

(* launchd ends what is left of the process group of a job that has died.  *)
KillSupervisor ==
    /\ supervisor # "none" /\ crashes < MaxCrashes
    /\ crashes' = crashes + 1
    /\ supervisor' = "none" /\ stopping' = FALSE /\ lastExit' = Signalled
    /\ stopAsked' = FALSE
    /\ IF Alive(spawned) THEN Ends(spawned, Signalled) ELSE UNCHANGED worker
    /\ DropWork
    /\ UNCHANGED <<spawned, lockOwner, command>>

Supervise == StoppingChildExit \/ ReplaceChild \/ SupervisorEnds

RunWorker(w) ==
    \/ TakeLock(w) \/ CreateRuntime(w) \/ StartRuntime(w)
    \/ BeginDrain(w) \/ IdleRound(w) \/ DrainCheckpoint(w)
    \/ ShutdownRuntime(w) \/ ExitWorker(w)

GatewayNext ==
    \/ ServiceStart \/ ServiceStop \/ PollStop \/ Respawn \/ Supervise
    \/ \E w \in Workers : RunWorker(w) \/ RequestRestart(w) \/ KillWorker(w)
    \/ KillSupervisor
    \/ \E t \in Tasks : \/ AcceptMessage(t) \/ AcceptClick(t) \/ StartTurn(t)
                        \/ CallTool(t) \/ FinishPart(t)

(* Processes run, and accepted work ends; nobody is bound to send more.    *)
GatewayFairness ==
    /\ WF_gatewayVars(Supervise)
    /\ WF_gatewayVars(Respawn)
    /\ \A w \in Workers : WF_gatewayVars(RunWorker(w))
    /\ \A t \in Tasks : SF_gatewayVars(FinishPart(t))

GatewaySpec == GatewayInit /\ [][GatewayNext]_gatewayVars /\ GatewayFairness

-----------------------------------------------------------------------------

(* Work accepted by any of the four components is not cut off: a worker    *)
(* leaves its drain only at a moment when all four are idle, although each *)
(* promise resolved at a moment of its own and work moves between them.    *)
DrainedBeforeStop ==
    [][\A w \in Workers :
          worker[w].phase = "drain" /\ worker'[w].phase = "stop" => AllIdle]_gatewayVars

(* A stop comes to an end: a clean exit that `service stop` can confirm, or*)
(* a supervisor that holds and says so.                                    *)
StopSettles == stopAsked ~> (~stopAsked \/ supervisor \in {"none", "held"})
=============================================================================
