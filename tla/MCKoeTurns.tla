----------------------------- MODULE MCKoeTurns -----------------------------
(***************************************************************************)
(* What a turn of one Koe goes through, for TLC: its session, its turn on  *)
(* the Codex thread or with Claude Code, the client of its app-server, an  *)
(* approval it asks for, and the monitor that watches it.                  *)
(* `part` says which of them a behaviour runs; the others keep their       *)
(* initial state, in which no fair action of theirs is enabled.            *)
(***************************************************************************)
EXTENDS GatewaySessions, CodexTurns, ClaudeTurns, PermissionApprovals,
        WorkStoppage, AppServerClient

CONSTANTS R1, Key, A1, A2

OneKey == [r \in Requests |-> Key]

VARIABLE part

koeVars == <<sessionVars, codexVars, claudeVars, vars, monitorVars, appServerVars, part>>

KoeTurnsInit ==
    /\ part \in {"sessions", "codex", "claude", "approvals", "monitor", "client"}
    /\ SessionInit /\ (part = "sessions" \/ (~declared /\ configScope = "thread"))
    /\ CodexInit /\ ClaudeInit /\ Init /\ MonitorInit /\ AppServerInit

(* A change of an incident is saved before the next one.                   *)
MonitorStep == MonitorNext /\ (incident' # incident => savedIncident = incident)

(* The two requests of the adapter are alike.                              *)
ClientStep == AppServerNext /\ (rpc[A1] = "idle" => rpc'[A2] = "idle")

KoeTurnsNext ==
    /\ UNCHANGED part
    /\ \/ part = "sessions" /\ SessionNext
          /\ UNCHANGED <<codexVars, claudeVars, vars, monitorVars, appServerVars>>
       \/ part = "codex" /\ CodexNext
          /\ UNCHANGED <<sessionVars, claudeVars, vars, monitorVars, appServerVars>>
       \/ part = "claude" /\ ClaudeNext
          /\ UNCHANGED <<sessionVars, codexVars, vars, monitorVars, appServerVars>>
       \/ part = "approvals" /\ Next
          /\ UNCHANGED <<sessionVars, codexVars, claudeVars, monitorVars, appServerVars>>
       \/ part = "monitor" /\ MonitorStep
          /\ UNCHANGED <<sessionVars, codexVars, claudeVars, vars, appServerVars>>
       \/ part = "client" /\ ClientStep
          /\ UNCHANGED <<sessionVars, codexVars, claudeVars, vars, monitorVars>>

KoeTurnsSpec ==
    /\ KoeTurnsInit /\ [][KoeTurnsNext]_koeVars
    /\ CodexFairness /\ ClaudeFairness /\ AppServerFairness /\ RequestFairness
    /\ WF_vars(part = "approvals" /\ RecoveryStep)
=============================================================================
