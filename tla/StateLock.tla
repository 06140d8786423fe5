----------------------------- MODULE StateLock -----------------------------
(***************************************************************************)
(* The lock file next to state.json (state/file-state-store.ts), as taken  *)
(* by a gateway worker (createRuntime) and by `taishi bind`, and its       *)
(* recovery when the process that wrote it has ended without removing it.  *)
(*                                                                         *)
(* A process installs a complete lock record with link(), which fails when *)
(* the lock file exists.  It then opens <lock>.recovery exclusively, reads *)
(* the record, and removes the lock file if the recorded pid is dead.      *)
(* Every file operation is awaited, so the steps of several processes      *)
(* interleave at each of them, and a process may be killed at any of them. *)
(***************************************************************************)
EXTENDS Naturals, FiniteSets

CONSTANTS
    Procs,              \* processes; each is one process lifetime, so its
                        \* nonce and its pid are the process itself
    NoProc,             \* "no such file"
    MaxKills,           \* bound on processes that end without their finally
    KilledInRecovery    \* may a process be killed between opening and
                        \* removing the .recovery file?

ASSUME NoProcAssumption == NoProc \notin Procs

VARIABLES
    lockFile,       \* whose record is in the lock file
    recoveryFile,   \* who opened the .recovery file
    at,             \* where each process is
    attempt,        \* attempts at link() it has used up
    read,           \* the record it has read last
    stale,          \* the result #removeStaleLock is about to return
    killed,         \* the processes that ended without their finally
    overtaken       \* history: a recovery removed another record than it read

lockVars == <<lockFile, recoveryFile, at, attempt, read, stale, killed, overtaken>>

ProcStates == {"new", "linking", "exists", "reading", "judging", "unlinking",
               "closing", "holding", "releasing", "unlocking", "refused", "ended"}

(* Type invariant of the lock files and of the processes that use them.    *)
LockTypeOK ==
    /\ lockFile \in Procs \cup {NoProc}
    /\ recoveryFile \in Procs \cup {NoProc}
    /\ at \in [Procs -> ProcStates]
    /\ attempt \in [Procs -> 0..2]
    /\ read \in [Procs -> Procs \cup {NoProc}]
    /\ stale \in [Procs -> BOOLEAN]
    /\ killed \subseteq Procs
    /\ overtaken \in BOOLEAN

LockInit ==
    /\ lockFile = NoProc /\ recoveryFile = NoProc
    /\ at = [p \in Procs |-> "new"]
    /\ attempt = [p \in Procs |-> 0]
    /\ read = [p \in Procs |-> NoProc]
    /\ stale = [p \in Procs |-> FALSE]
    /\ killed = {} /\ overtaken = FALSE

-----------------------------------------------------------------------------

(* processIsAlive: a process that was refused still runs for a moment.     *)
IsAlive(p) == at[p] \notin {"new", "ended"}

Go(p, from, to) == at[p] = from /\ at' = [at EXCEPT ![p] = to]

(* acquireLock has written and synced its temporary record.                *)
StartAcquire(p) ==
    /\ Go(p, "new", "linking")
    /\ UNCHANGED <<lockFile, recoveryFile, attempt, read, stale, killed, overtaken>>

LinkLock(p) ==
    /\ lockFile = NoProc
    /\ Go(p, "linking", "holding")
    /\ lockFile' = p
    /\ UNCHANGED <<recoveryFile, attempt, read, stale, killed, overtaken>>

LinkFails(p) ==
    /\ lockFile # NoProc
    /\ Go(p, "linking", "exists")
    /\ UNCHANGED <<lockFile, recoveryFile, attempt, read, stale, killed, overtaken>>

OpenRecovery(p) ==
    /\ recoveryFile = NoProc
    /\ Go(p, "exists", "reading")
    /\ recoveryFile' = p
    /\ UNCHANGED <<lockFile, attempt, read, stale, killed, overtaken>>

(* "lock recovery is already in progress": acquireLock throws.             *)
RecoveryBusy(p) ==
    /\ recoveryFile # NoProc
    /\ Go(p, "exists", "refused")
    /\ UNCHANGED <<lockFile, recoveryFile, attempt, read, stale, killed, overtaken>>

(* readLock; no file means that the lock has been released meanwhile.      *)
ReadLock(p) ==
    /\ Go(p, "reading", IF lockFile = NoProc THEN "closing" ELSE "judging")
    /\ read' = [read EXCEPT ![p] = lockFile]
    /\ stale' = [stale EXCEPT ![p] = TRUE]
    /\ UNCHANGED <<lockFile, recoveryFile, attempt, killed, overtaken>>

(* Mutant of Judge (no code): the lock is taken without asking.            *)
JudgeNever(p) ==
    /\ Go(p, "judging", "unlinking")
    /\ stale' = [stale EXCEPT ![p] = TRUE]
    /\ UNCHANGED <<lockFile, recoveryFile, attempt, read, killed, overtaken>>

(* The liveness of the recorded pid is asked once the read has returned.   *)
Judge(p) ==
    /\ Go(p, "judging", IF IsAlive(read[p]) THEN "closing" ELSE "unlinking")
    /\ stale' = [stale EXCEPT ![p] = ~IsAlive(read[p])]
    /\ UNCHANGED <<lockFile, recoveryFile, attempt, read, killed, overtaken>>

(* unlink(lockPath) removes the file of that name, whoever wrote it.       *)
UnlinkStale(p) ==
    /\ Go(p, "unlinking", "closing")
    /\ overtaken' = (overtaken \/ lockFile \notin {read[p], NoProc})
    /\ lockFile' = NoProc
    /\ UNCHANGED <<recoveryFile, attempt, read, stale, killed>>

AfterRecovery(p) ==
    IF stale[p] /\ attempt[p] = 0 THEN "linking" ELSE "refused"

(* Mutant of CloseRecovery (no code): the .recovery file stays behind when *)
(* the lock turned out to be in use.                                       *)
CloseIfStale(p) ==
    /\ Go(p, "closing", AfterRecovery(p))
    /\ recoveryFile' = IF stale[p] THEN NoProc ELSE recoveryFile
    /\ attempt' = [attempt EXCEPT ![p] = @ + 1]
    /\ UNCHANGED <<lockFile, read, stale, killed, overtaken>>

(* finally: the .recovery file is removed; then another attempt, or an     *)
(* error: somebody else uses the state file, or both attempts are used up. *)
CloseRecovery(p) ==
    /\ Go(p, "closing", AfterRecovery(p))
    /\ recoveryFile' = NoProc
    /\ attempt' = [attempt EXCEPT ![p] = @ + 1]
    /\ UNCHANGED <<lockFile, read, stale, killed, overtaken>>

(* releaseLock, and the cleanup of createRuntime and `taishi bind`: the    *)
(* record is read and removed only if it has this process's nonce.         *)
StartRelease(p) ==
    /\ Go(p, "holding", "releasing")
    /\ UNCHANGED <<lockFile, recoveryFile, attempt, read, stale, killed, overtaken>>

ReadOwnLock(p) ==
    /\ Go(p, "releasing", IF lockFile = p THEN "unlocking" ELSE "ended")
    /\ read' = [read EXCEPT ![p] = lockFile]
    /\ UNCHANGED <<lockFile, recoveryFile, attempt, stale, killed, overtaken>>

UnlinkOwn(p) ==
    /\ Go(p, "unlocking", "ended")
    /\ lockFile' = NoProc
    /\ UNCHANGED <<recoveryFile, attempt, read, stale, killed, overtaken>>

(* A refused command ends with its error message.                          *)
EndRefused(p) ==
    /\ Go(p, "refused", "ended")
    /\ UNCHANGED <<lockFile, recoveryFile, attempt, read, stale, killed, overtaken>>

Kill(p) ==
    /\ Cardinality(killed) < MaxKills
    /\ IsAlive(p)
    /\ recoveryFile = p => KilledInRecovery
    /\ at' = [at EXCEPT ![p] = "ended"]
    /\ killed' = killed \cup {p}
    /\ UNCHANGED <<lockFile, recoveryFile, attempt, read, stale, overtaken>>

Acquire(p) ==
    \/ LinkLock(p) \/ LinkFails(p) \/ OpenRecovery(p) \/ RecoveryBusy(p)
    \/ ReadLock(p) \/ Judge(p) \/ UnlinkStale(p) \/ CloseRecovery(p)

LockNext ==
    \E p \in Procs :
        \/ StartAcquire(p) \/ Acquire(p)
        \/ StartRelease(p) \/ ReadOwnLock(p) \/ UnlinkOwn(p)
        \/ EndRefused(p) \/ Kill(p)

(* File operations return; who holds the lock is under no duty to let go.  *)
LockFairness == \A p \in Procs : WF_lockVars(Acquire(p))

LockSpec == LockInit /\ [][LockNext]_lockVars /\ LockFairness

-----------------------------------------------------------------------------

(* src/docs/security.md 426-428: a process holds an exclusive lock and a   *)
(* second live process is rejected.  (Violated: a recovery may judge a     *)
(* record that its owner released, and remove the next owner's lock.)      *)
LockIsExclusive ==
    \A p, q \in Procs : at[p] = "holding" /\ at[q] = "holding" => p = q

(* As long as no recovery has removed a record it had not read, the lock   *)
(* file names exactly the process that believes it holds it: the window    *)
(* above is the only way to two owners, or to an owner without a record.   *)
(* A second attempt, a release that lost its record and a kill at any step *)
(* are covered.                                                            *)
HolderIsOnFile ==
    ~overtaken =>
        \A p \in Procs :
            at[p] \in {"holding", "releasing", "unlocking"} => lockFile = p

(* src/docs/security.md 428: the lock of a dead process can be recovered.  *)
(* A process that asks for it, with nobody else alive, gets it.            *)
DeadLockIsRecovered ==
    \A p \in Procs :
        (/\ at[p] = "linking" /\ attempt[p] = 0
         /\ \A q \in Procs \ {p} : at[q] = "ended")
        ~> (at[p] = "holding" \/ p \in killed)
=============================================================================
