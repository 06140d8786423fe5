----------------------------- MODULE KoeTurnProofs ------------------------------
(***************************************************************************)
(* A Koe at work, for any values of the constants: its sessions, the turns *)
(* of its two adapters, the client of the Codex app-server, and the        *)
(* monitor of stopped work.                                                *)
(***************************************************************************)
EXTENDS GatewaySessions, CodexTurns, AppServerClient, ClaudeTurns, WorkStoppage, FiniteSetTheorems, TLAPS

(***************************************************************************)
(* GatewaySessions. A turn knows the session it is for, and the tables, as *)
(* they are and as they are saved, have for each scope what a process of   *)
(* any scope can load.                                                     *)
(***************************************************************************)

(* A turn knows one session: a result the one it asked for, unless that    *)
(* was declared and is gone; with thread scope the one its root has, and a *)
(* visit without a job's session one that nobody else has used.            *)
TurnSteps == {"off", "wait", "create", "resume", "replace", "begin", "started", "stream"}
Turns == [step : TurnSteps, kind : Kinds, root : Roots \cup {NoRoot},
          expect : 0..MaxSessions, session : 0..MaxSessions]
Tables(m) == [scope : Scopes, sessions : SUBSET (1..m), primary : 0..m, binding : [Roots -> 0..m]]

SessionTypes ==
    /\ declared \in BOOLEAN /\ configScope \in Scopes /\ koeUp \in BOOLEAN
    /\ made \in 0..MaxSessions
    /\ declared => configScope = "channel" /\ made # 0
    /\ tables \in Tables(made) /\ savedTables \in Tables(made)
    /\ slot \in [Slots -> Turns]
    /\ ran \subseteq Roots \X (1..made)

LeaseIsHeld == \A k \in Slots : slot[k].step \in {"off", "wait"} \/ lease = k

(* What the tables say of a session that a visit has made for itself.      *)
Unused(s) ==
    \A r \in Roots : tables.binding[r] # s /\ savedTables.binding[r] # s /\ <<r, s>> \notin ran

(* The result of a delegation is for the session that asked.               *)
IsFenced(k) ==
    slot[k].kind = "result" =>
        /\ slot[k].expect # NoSession /\ slot[k].step # "create"
        /\ slot[k].step = "resume" => slot[k].session = slot[k].expect
        /\ slot[k].step = "begin" => slot[k].session = slot[k].expect \/ (declared /\ slot[k].expect = Declared)
        /\ slot[k].step = "replace" => slot[k].expect = Declared

KnowsItsSession(k) ==
    /\ slot[k].step = "off" \/ (slot[k].kind = "visit" <=> slot[k].root = NoRoot)
    /\ slot[k].step \in {"resume", "begin", "started", "stream"} => slot[k].session \in 1..made
    /\ slot[k].step = "replace" => declared /\ slot[k].kind # "visit"
    /\ slot[k].step = "started" =>
          slot[k].kind = "visit" /\ slot[k].expect = NoSession /\ tables.scope = "thread"
    /\ ~declared =>
          /\ tables.scope = "channel" /\ slot[k].step = "create" => tables.primary = NoSession
          /\ tables.scope = "thread" =>
                /\ slot[k].root # NoRoot /\ slot[k].step \in {"resume", "begin", "stream"} =>
                      tables.binding[slot[k].root] = slot[k].session
                /\ slot[k].kind = "visit" /\ slot[k].expect = NoSession
                      /\ slot[k].step \in {"resume", "begin", "started"} => Unused(slot[k].session)

TurnsKnowTheirSession == \A k \in Slots : IsFenced(k) /\ KnowsItsSession(k)

(* Without a declared session: one canonical session, or one for each root *)
(* and each root alone in its own.                                         *)
OneSession(t) == t.sessions \subseteq {t.primary} /\ \A r \in Roots : t.binding[r] \in {NoSession, t.primary}
OneRootEach(t) ==
    \A q, r \in Roots : t.binding[q] = t.binding[r] /\ t.binding[q] # NoSession => q = r
OwnRoot(t) == \A q, r \in Roots : <<q, t.binding[r]>> \in ran => q = r

Scoped(t) ==
    /\ t.scope = "channel" => OneSession(t)
    /\ t.scope = "thread" => OneRootEach(t) /\ OwnRoot(t)
    /\ configScope = "channel" => t.scope = "channel"

TablesAreScoped ==
    ~declared => Scoped(tables) /\ Scoped(savedTables) /\ tables.scope = configScope

SessionIInv ==
    /\ SessionTypes /\ LeaseIsHeld /\ TurnsKnowTheirSession /\ TablesAreScoped
    /\ ResultReachesUnlessReplaced /\ StateLoadsUnlessFellBack

LEMMA SessionNames ==
    /\ MaxSessions \in Nat \ {0} /\ NoHolder \notin Slots /\ NoRoot \notin Roots
    /\ NoSession = 0 /\ Declared = 1 /\ Sessions = 1..MaxSessions
  BY SessionBoundsAssumption, SessionNamesAssumption DEF NoSession, Declared, Sessions

(* The tables a step leaves as they are, but for a save.                   *)
TablesStay ==
    /\ UNCHANGED <<tables, made, ran>> /\ UNCHANGED configVars
    /\ savedTables' \in {savedTables, tables}

TablesTyped == tables \in Tables(made) /\ savedTables \in Tables(made)

LEMMA TablesStayKnown ==
    ASSUME SessionIInv, TablesStay
    PROVE  /\ TablesTyped' /\ TablesAreScoped'
           /\ \A s : Unused(s) => \A r \in Roots : savedTables'.binding[r] # s
<1> USE DEF SessionIInv, SessionTypes, TablesStay, configVars
<1>1. TablesTyped'
  BY DEF TablesTyped
<1>2. TablesAreScoped'
  BY DEF TablesAreScoped, Scoped, OneSession, OneRootEach, OwnRoot
<1>3. \A s : Unused(s) => \A r \in Roots : savedTables'.binding[r] # s
  BY DEF Unused
<1> QED
  BY <1>1, <1>2, <1>3

(* One turn moves; the others are off or wait for the lease.               *)
LEMMA OneTurnMoves ==
    ASSUME SessionIInv, NEW k \in Slots, lease \in {k, NoHolder},
           slot' = [slot EXCEPT ![k] = slot'[k]], slot'[k] \in Turns,
           lease' = k \/ slot'[k].step \in {"off", "wait"},
           koeUp, UNCHANGED configVars,
           made' \in 0..MaxSessions, made <= made', ran' \subseteq Roots \X (1..made'),
           TablesTyped', TablesAreScoped', IsFenced(k)', KnowsItsSession(k)',
           ResultReachesUnlessReplaced'
    PROVE  SessionIInv'
<1> USE SessionNames DEF SessionIInv
<1>1. SessionTypes'
  <2>1. slot' \in [Slots -> Turns]
    BY DEF SessionTypes
  <2> QED
    BY <2>1 DEF SessionTypes, TablesTyped, configVars
<1>2. ASSUME NEW j \in Slots, j # k
      PROVE  slot[j].step \in {"off", "wait"} /\ slot'[j] = slot[j]
  BY <1>2 DEF SessionTypes, LeaseIsHeld
<1>3. LeaseIsHeld'
  BY <1>2 DEF LeaseIsHeld
<1>4. ASSUME NEW j \in Slots, j # k PROVE IsFenced(j)' /\ KnowsItsSession(j)'
  BY <1>2, <1>4 DEF TurnsKnowTheirSession, IsFenced, KnowsItsSession
<1>5. TurnsKnowTheirSession'
  BY <1>4 DEF TurnsKnowTheirSession
<1>6. StateLoadsUnlessFellBack'
  BY DEF StateLoadsUnlessFellBack, configVars
<1> QED
  BY <1>1, <1>3, <1>5, <1>6

LEMMA IdleKnows ==
    ASSUME NEW k \in Slots, slot'[k] = Idle
    PROVE  slot'[k] \in Turns /\ slot'[k].step = "off" /\ IsFenced(k)' /\ KnowsItsSession(k)'
<1>1. /\ Idle \in Turns /\ Idle.step = "off" /\ Idle.kind = "human"
  BY SessionNames DEF Idle, Turns, TurnSteps, Kinds
<1> QED
  BY <1>1 DEF IsFenced, KnowsItsSession

(* A turn is given up, and perhaps the tables have changed before.         *)
LEMMA TurnGivenUp ==
    ASSUME SessionIInv, NEW k \in Slots, lease \in {k, NoHolder}, GiveUp(k), koeUp,
           UNCHANGED configVars, UNCHANGED carried,
           made' \in 0..MaxSessions, made <= made', ran' \subseteq Roots \X (1..made'),
           TablesTyped', TablesAreScoped'
    PROVE  SessionIInv'
<1>1. slot' = [slot EXCEPT ![k] = slot'[k]] /\ slot'[k] = Idle
  BY DEF GiveUp, SessionIInv, SessionTypes
<1>2. slot'[k] \in Turns /\ slot'[k].step = "off" /\ IsFenced(k)' /\ KnowsItsSession(k)'
  BY <1>1, IdleKnows
<1>3. ResultReachesUnlessReplaced'
  BY DEF SessionIInv, ResultReachesUnlessReplaced, configVars
<1> QED
  BY <1>1, <1>2, <1>3, OneTurnMoves

LEMMA TurnStopped ==
    ASSUME SessionIInv, NEW k \in Slots, lease \in {k, NoHolder}, GiveUp(k), koeUp,
           TablesStay, UNCHANGED carried
    PROVE  SessionIInv'
<1>1. TablesTyped' /\ TablesAreScoped'
  BY TablesStayKnown
<1>2. /\ UNCHANGED configVars /\ made' \in 0..MaxSessions /\ made <= made'
      /\ ran' \subseteq Roots \X (1..made')
  BY SessionNames DEF TablesStay, SessionIInv, SessionTypes
<1> QED
  BY <1>1, <1>2, TurnGivenUp

(* A turn goes on to a session, while the tables stay.                     *)
LEMMA TurnGoes ==
    ASSUME SessionIInv, NEW k \in Slots, lease \in {k, NoHolder}, lease' = k, koeUp,
           NEW step \in TurnSteps, NEW s \in 0..MaxSessions, GoTo(k, step, s),
           made' \in 0..MaxSessions, made <= made', ran' \subseteq Roots \X (1..made'),
           UNCHANGED configVars, TablesTyped', TablesAreScoped', UNCHANGED carried,
           IsFenced(k)', KnowsItsSession(k)'
    PROVE  SessionIInv'
<1>1. slot \in [Slots -> Turns]
  BY DEF SessionIInv, SessionTypes
<1>2. slot'[k] = [slot[k] EXCEPT !.step = step, !.session = s]
  BY <1>1 DEF GoTo
<1>3. slot' = [slot EXCEPT ![k] = slot'[k]]
  BY <1>1, <1>2 DEF GoTo
<1>4. slot'[k] \in Turns
  BY <1>1, <1>2 DEF Turns
<1>5. ResultReachesUnlessReplaced'
  BY DEF SessionIInv, ResultReachesUnlessReplaced, configVars
<1> QED
  BY <1>3, <1>4, <1>5, OneTurnMoves

(* What GoTo leaves of a turn.                                             *)
LEMMA GoToSets ==
    ASSUME slot \in [Slots -> Turns], NEW k \in Slots, NEW step, NEW s, GoTo(k, step, s)
    PROVE  /\ slot'[k].step = step /\ slot'[k].session = s
           /\ slot'[k].kind = slot[k].kind /\ slot'[k].root = slot[k].root
           /\ slot'[k].expect = slot[k].expect
<1>1. slot'[k] = [slot[k] EXCEPT !.step = step, !.session = s]
  BY DEF GoTo
<1> QED
  BY <1>1 DEF Turns

(* Nothing moves but a save.                                               *)
LEMMA NoTurnMoves ==
    ASSUME SessionIInv, koeUp, TablesStay, UNCHANGED <<slot, lease, carried>>
    PROVE  SessionIInv'
<1> USE DEF SessionIInv
<1>1. TablesTyped' /\ TablesAreScoped' /\ \A s : Unused(s) => \A r \in Roots : savedTables'.binding[r] # s
  BY TablesStayKnown
<1>2. SessionTypes'
  BY <1>1 DEF SessionTypes, TablesTyped, TablesStay, configVars
<1>3. LeaseIsHeld'
  BY DEF LeaseIsHeld
<1>4. \A k \in Slots : IsFenced(k) => IsFenced(k)'
  BY DEF IsFenced, TablesStay, configVars
<1>5. ASSUME NEW k \in Slots, KnowsItsSession(k) PROVE KnowsItsSession(k)'
  <2>1. Unused(slot[k].session) => Unused(slot[k].session)'
    BY <1>1 DEF Unused, TablesStay
  <2> QED
    BY <1>5, <2>1 DEF KnowsItsSession, TablesStay, configVars
<1>6. TurnsKnowTheirSession'
  BY <1>4, <1>5 DEF TurnsKnowTheirSession
<1>7. ResultReachesUnlessReplaced' 
  BY DEF ResultReachesUnlessReplaced, TablesStay, configVars
<1>8. StateLoadsUnlessFellBack'
  BY DEF StateLoadsUnlessFellBack, TablesStay, configVars
<1> QED
  BY <1>1, <1>2, <1>3, <1>6, <1>7, <1>8

LEMMA RequestTurnKept ==
    ASSUME SessionIInv, NEW k \in Slots, NEW kind \in Kinds, NEW r \in Roots \cup {NoRoot},
           NEW s \in Sessions \cup {NoSession}, RequestTurn(k, kind, r, s)
    PROVE  SessionIInv'
<1> USE SessionNames DEF SessionIInv
<1> DEFINE u == [step |-> "wait", kind |-> kind, root |-> r, expect |-> s, session |-> NoSession]
<1>1. /\ slot' = [slot EXCEPT ![k] = u] /\ slot[k].step = "off"
      /\ UNCHANGED <<tables, savedTables, made, ran, carried, lease>> /\ UNCHANGED configVars
  BY DEF RequestTurn
<1>2. u \in Turns
  BY DEF Turns, TurnSteps
<1>3. (kind = "visit" <=> r = NoRoot) /\ (kind = "result" => s # NoSession)
  <2>1. CASE kind = "human"
    BY <2>1 DEF RequestTurn
  <2>2. CASE kind = "visit"
    BY <2>2 DEF RequestTurn
  <2>3. CASE kind = "result"
    <3>1. <<r, s>> \in ran
      BY <2>3 DEF RequestTurn
    <3>2. r \in Roots /\ s \in 1..made /\ made \in Nat
      BY <3>1 DEF SessionTypes
    <3> QED
      BY <2>3, <3>2
  <2> QED
    BY <2>1, <2>2, <2>3 DEF Kinds
<1>4. slot' \in [Slots -> Turns] /\ slot'[k] = u
  BY <1>1, <1>2 DEF SessionTypes
<1>5. SessionTypes' /\ TablesAreScoped'
  BY <1>1, <1>4 DEF SessionTypes, TablesAreScoped, Scoped, OneSession, OneRootEach, OwnRoot, configVars
<1>6. \A j \in Slots : j # k => slot'[j] = slot[j]
  BY <1>1 DEF SessionTypes
<1>7. u.step = "wait" /\ u.kind = kind /\ u.root = r /\ u.expect = s
  OBVIOUS
<1> HIDE DEF u
<1>8. LeaseIsHeld'
  BY <1>1, <1>4, <1>6, <1>7 DEF LeaseIsHeld
<1>9. IsFenced(k)' /\ KnowsItsSession(k)'
  BY <1>3, <1>4, <1>7 DEF IsFenced, KnowsItsSession
<1>10. ASSUME NEW j \in Slots, j # k PROVE IsFenced(j)' /\ KnowsItsSession(j)'
  <2>1. Unused(slot[j].session) => Unused(slot[j].session)'
    BY <1>1, <1>6, <1>10 DEF Unused
  <2> QED
    BY <1>1, <1>6, <1>10, <2>1 DEF TurnsKnowTheirSession, IsFenced, KnowsItsSession, configVars
<1>11. TurnsKnowTheirSession'
  BY <1>9, <1>10 DEF TurnsKnowTheirSession
<1>12. ResultReachesUnlessReplaced' /\ StateLoadsUnlessFellBack'
  BY <1>1 DEF ResultReachesUnlessReplaced, StateLoadsUnlessFellBack, configVars
<1> QED
  BY <1>5, <1>8, <1>11, <1>12

(* The lease is taken by a turn that waits, for the session of its root.   *)
LEMMA LeasedTurn ==
    ASSUME SessionIInv, NEW k \in Slots, Leased(k)
    PROVE  /\ koeUp /\ lease = NoHolder /\ slot[k] \in Turns /\ slot[k].step = "wait"
           /\ slot[k].kind = "visit" <=> slot[k].root = NoRoot
           /\ slot[k].kind = "result" => slot[k].expect # NoSession
  BY SessionNames DEF SessionIInv, SessionTypes, TurnsKnowTheirSession, IsFenced, KnowsItsSession,
     Leased, At

LEMMA RefuseTurnKept ==
    ASSUME SessionIInv, NEW k \in Slots, RefuseTurn(k)
    PROVE  SessionIInv'
<1>1. koeUp /\ lease = NoHolder
  BY LeasedTurn DEF RefuseTurn
<1>2. GiveUp(k) /\ TablesStay /\ UNCHANGED carried
  BY DEF RefuseTurn, TablesStay
<1> QED
  BY <1>1, <1>2, TurnStopped

LEMMA Uses ==
    ASSUME NEW k \in Slots, NEW s, Use(k, s)
    PROVE  \E step \in {"begin", "resume"} : GoTo(k, step, s)
  BY DEF Use

LEMMA StepNames == {"create", "resume", "replace", "begin", "started", "stream"} \subseteq TurnSteps
  BY DEF TurnSteps

LEMMA EnsureThreadKept ==
    ASSUME SessionIInv, NEW k \in Slots, EnsureThread(k)
    PROVE  SessionIInv'
<1> USE SessionNames
<1> DEFINE r == slot[k].root
           s == tables.binding[slot[k].root]
<1>1. /\ koeUp /\ lease = NoHolder /\ slot[k] \in Turns /\ slot[k].kind # "visit" /\ r \in Roots
      /\ slot[k].kind = "result" => slot[k].expect # NoSession
  <2>1. Leased(k) /\ slot[k].kind # "visit"
    BY DEF EnsureThread
  <2>2. slot[k] \in Turns /\ r # NoRoot
    BY <2>1, LeasedTurn
  <2>3. r \in Roots
    BY <2>2 DEF Turns
  <2> QED
    BY <2>1, <2>3, LeasedTurn
<1>2. s \in 0..made /\ made \in 0..MaxSessions /\ slot \in [Slots -> Turns]
  BY <1>1 DEF SessionIInv, SessionTypes, Tables
<1>3. slot[k].kind = "result" => s = slot[k].expect
  BY DEF EnsureThread, FencePasses, SessionForRoot
<1>4. PICK step \in {"create", "begin", "resume"} :
         GoTo(k, step, s) /\ (step = "create" <=> s = NoSession)
  <2>1. CASE s = NoSession
    BY <2>1 DEF EnsureThread
  <2>2. CASE s # NoSession
    BY <2>2, Uses DEF EnsureThread
  <2> QED
    BY <2>1, <2>2
<1>5. /\ TablesStay /\ lease' = k /\ UNCHANGED carried /\ tables.scope = "thread"
      /\ UNCHANGED <<tables, savedTables, made, ran>> /\ UNCHANGED configVars
  BY DEF EnsureThread, TablesStay, TurnChoosesSession
<1>6. /\ slot'[k].step = step /\ slot'[k].session = s /\ slot'[k].kind = slot[k].kind
      /\ slot'[k].root = r /\ slot'[k].expect = slot[k].expect
  BY <1>2, <1>4, GoToSets
<1>7. TablesTyped' /\ TablesAreScoped'
  BY <1>5, TablesStayKnown
<1>8. UNCHANGED configVars /\ made' \in 0..MaxSessions /\ made <= made' /\ ran' \subseteq Roots \X (1..made')
  BY <1>2, <1>5 DEF SessionIInv, SessionTypes
<1>9. s \in 0..MaxSessions /\ step \in TurnSteps
  BY <1>2, StepNames
<1>10. r' = r /\ r # NoRoot
  BY <1>1, <1>6
<1> HIDE DEF s, r
<1>11. IsFenced(k)'
  BY <1>1, <1>3, <1>4, <1>6 DEF IsFenced
<1>12. KnowsItsSession(k)'
  <2>1. tables'.scope = "thread" /\ tables'.binding[slot'[k].root] = s /\ made' = made
    BY <1>5, <1>6 DEF s, r
  <2> QED
    BY <1>1, <1>2, <1>4, <1>6, <1>10, <2>1 DEF KnowsItsSession
<1> QED
  BY <1>1, <1>4, <1>5, <1>7, <1>8, <1>9, <1>11, <1>12, TurnGoes

(* A root is pointed at a session.                                         *)
LEMMA ReplacedTables ==
    ASSUME NEW m \in Nat, NEW t \in Tables(m), NEW r \in Roots, NEW s \in 0..m
    PROVE  LET u == replaceConversation(t, r, s)
           IN /\ u \in Tables(m) /\ u.scope = t.scope /\ u.sessions = t.sessions /\ u.primary = t.primary
              /\ u.binding = [t.binding EXCEPT ![r] = s]
<1>1. t.binding \in [Roots -> 0..m]
  BY DEF Tables
<1> DEFINE b == [t.binding EXCEPT ![r] = s]
<1>2. b \in [Roots -> 0..m]
  BY <1>1
<1>3. replaceConversation(t, r, s) = [t EXCEPT !.binding = b]
  BY DEF replaceConversation
<1> HIDE DEF b
<1>4. [t EXCEPT !.binding = b] \in Tables(m)
  BY <1>2 DEF Tables
<1>5. /\ [t EXCEPT !.binding = b].scope = t.scope /\ [t EXCEPT !.binding = b].sessions = t.sessions
      /\ [t EXCEPT !.binding = b].primary = t.primary /\ [t EXCEPT !.binding = b].binding = b
  BY DEF Tables
<1> QED
  BY <1>3, <1>4, <1>5 DEF b

LEMMA TablesGrow ==
    ASSUME NEW m \in Nat, NEW t \in Tables(m)
    PROVE  /\ t \in Tables(m + 1)
           /\ \A p \in 0..(m + 1) : [t EXCEPT !.primary = p] \in Tables(m + 1)
           /\ \A x \in Scopes, s \in 1..(m + 1) :
                 [t EXCEPT !.sessions = t.sessions \cup {s}, !.scope = x] \in Tables(m + 1)
<1>1. 0..m \subseteq 0..(m + 1) /\ 1..m \subseteq 1..(m + 1)
  OBVIOUS
<1>2. /\ t.scope \in Scopes /\ t.sessions \in SUBSET (1..(m + 1)) /\ t.primary \in 0..(m + 1)
      /\ t.binding \in [Roots -> 0..(m + 1)]
  BY <1>1 DEF Tables
<1>3. t = [scope |-> t.scope, sessions |-> t.sessions, primary |-> t.primary, binding |-> t.binding]
  BY DEF Tables
<1>4. t \in Tables(m + 1)
  BY <1>2, <1>3 DEF Tables
<1>5. \A p \in 0..(m + 1) : [t EXCEPT !.primary = p] \in Tables(m + 1)
  BY <1>4 DEF Tables
<1>6. ASSUME NEW x \in Scopes, NEW s \in 1..(m + 1)
      PROVE  [t EXCEPT !.sessions = t.sessions \cup {s}, !.scope = x] \in Tables(m + 1)
  <2>1. t.sessions \cup {s} \in SUBSET (1..(m + 1))
    BY <1>2
  <2> DEFINE all == t.sessions \cup {s}
  <2> HIDE DEF all
  <2>2. [t EXCEPT !.sessions = all, !.scope = x] \in Tables(m + 1)
    BY <1>4, <2>1 DEF Tables, all
  <2> QED
    BY <2>2 DEF all
<1> QED
  BY <1>4, <1>5, <1>6

LEMMA EnsureChannelKept ==
    ASSUME SessionIInv, NEW k \in Slots, EnsureChannel(k)
    PROVE  SessionIInv'
<1> USE SessionNames
<1> DEFINE r == slot[k].root
           s == IF tables.primary # NoSession THEN tables.primary ELSE tables.binding[r]
<1>1. /\ koeUp /\ lease = NoHolder /\ slot[k] \in Turns /\ slot[k].kind # "visit" /\ r \in Roots
      /\ slot[k].kind = "result" => slot[k].expect # NoSession
  <2>1. Leased(k) /\ slot[k].kind # "visit"
    BY DEF EnsureChannel
  <2>2. slot[k] \in Turns /\ r # NoRoot
    BY <2>1, LeasedTurn
  <2>3. r \in Roots
    BY <2>2 DEF Turns
  <2> QED
    BY <2>1, <2>3, LeasedTurn
<1>2. /\ made \in 0..MaxSessions /\ slot \in [Slots -> Turns] /\ tables \in Tables(made)
      /\ savedTables \in Tables(made) /\ ran \subseteq Roots \X (1..made)
  BY DEF SessionIInv, SessionTypes
<1>3. tables.primary \in 0..made /\ tables.binding \in [Roots -> 0..made]
  BY <1>2 DEF Tables
<1>4. s \in 0..made
  BY <1>1, <1>3
<1>5. slot[k].kind = "result" => tables.primary = slot[k].expect
  BY DEF EnsureChannel, FencePasses, SessionForRoot
<1>6. /\ tables.scope = "channel" /\ UNCHANGED <<made, ran, carried>> /\ UNCHANGED configVars
  BY DEF EnsureChannel, TurnChoosesSession
<1>7. ~declared => OneSession(tables)
  BY <1>6 DEF SessionIInv, TablesAreScoped, Scoped
<1>8. made' \in 0..MaxSessions /\ made <= made' /\ ran' \subseteq Roots \X (1..made')
  BY <1>2, <1>6
<1>9. CASE s = NoSession
  <2>1. GoTo(k, "create", s) /\ lease' = k /\ UNCHANGED <<tables, savedTables>>
    BY <1>9 DEF EnsureChannel
  <2>2. TablesTyped' /\ TablesAreScoped'
    BY <1>6, <2>1, TablesStayKnown DEF TablesStay
  <2>3. tables.primary = NoSession
    BY <1>9
  <2>4. s \in 0..MaxSessions /\ "create" \in TurnSteps
    BY <1>9, StepNames
  <2> HIDE DEF s
  <2>5. /\ slot'[k].step = "create" /\ slot'[k].session = s /\ slot'[k].kind = slot[k].kind
        /\ slot'[k].root = r /\ slot'[k].expect = slot[k].expect
    BY <1>2, <2>1, GoToSets
  <2>6. IsFenced(k)'
    BY <1>1, <1>5, <2>3, <2>5 DEF IsFenced
  <2>7. KnowsItsSession(k)'
    BY <1>1, <1>6, <2>1, <2>3, <2>5 DEF KnowsItsSession
  <2> QED
    BY <1>1, <1>6, <1>8, <2>1, <2>2, <2>4, <2>6, <2>7, TurnGoes
<1>10. CASE s # NoSession
  <2> DEFINE t == [tables EXCEPT !.primary = s]
  <2>1. tables' = replaceConversation(t, r, s)
    BY <1>10 DEF EnsureChannel
  <2>2. PICK ok \in BOOLEAN : Save(ok) /\ IF ok THEN Use(k, s) /\ lease' = k ELSE GiveUp(k)
    BY <1>10 DEF EnsureChannel
  <2> HIDE DEF s
  <2>3. /\ t \in Tables(made) /\ t.scope = "channel" /\ t.sessions = tables.sessions /\ t.primary = s
        /\ t.binding = tables.binding
    BY <1>2, <1>4, <1>6 DEF Tables
  <2> HIDE DEF t
  <2>4. /\ tables' \in Tables(made) /\ tables'.scope = "channel" /\ tables'.sessions = tables.sessions
        /\ tables'.primary = s /\ tables'.binding = [tables.binding EXCEPT ![r] = s]
    BY <1>1, <1>2, <1>4, <2>1, <2>3, ReplacedTables
  <2>5. savedTables' \in {savedTables, tables'}
    BY <2>2 DEF Save
  <2>6. TablesTyped'
    BY <1>2, <1>6, <2>4, <2>5 DEF TablesTyped
  <2>7. ASSUME ~declared PROVE Scoped(tables)' /\ Scoped(savedTables)'
    <3>1. s = tables.primary
      BY <1>1, <1>7, <1>10, <2>7 DEF OneSession, s
    <3>2. \A q \in Roots : tables'.binding[q] \in {NoSession, s}
      BY <1>1, <1>3, <1>7, <2>4, <2>7, <3>1 DEF OneSession
    <3>3. OneSession(tables)'
      BY <1>7, <2>4, <2>7, <3>1, <3>2 DEF OneSession
    <3>4. Scoped(tables)'
      BY <2>4, <3>3 DEF Scoped
    <3>5. CASE savedTables' = tables'
      BY <3>4, <3>5 DEF Scoped, OneSession, OneRootEach, OwnRoot
    <3>6. CASE savedTables' = savedTables
      <4>1. Scoped(savedTables)
        BY <2>7 DEF SessionIInv, TablesAreScoped
      <4>2. UNCHANGED <<configScope, ran>>
        BY <1>6 DEF configVars
      <4> QED
        BY <3>4, <3>6, <4>1, <4>2 DEF Scoped, OneSession, OneRootEach, OwnRoot
    <3> QED
      BY <2>5, <3>4, <3>5, <3>6
  <2>8. TablesAreScoped'
    BY <1>6, <2>4, <2>7 DEF SessionIInv, TablesAreScoped, configVars
  <2>9. CASE ok = FALSE
    BY <1>1, <1>6, <1>8, <2>2, <2>6, <2>8, <2>9, TurnGivenUp
  <2>10. CASE ok = TRUE
    <3>1. PICK step \in {"begin", "resume"} : GoTo(k, step, s)
      BY <2>2, <2>10, Uses
    <3>2. /\ slot'[k].step = step /\ slot'[k].session = s /\ slot'[k].kind = slot[k].kind
          /\ slot'[k].root = r /\ slot'[k].expect = slot[k].expect
      BY <1>2, <3>1, GoToSets
    <3>3. slot[k].kind = "result" => s = slot[k].expect
      BY <1>1, <1>5 DEF s
    <3>4. IsFenced(k)'
      BY <1>1, <3>2, <3>3 DEF IsFenced
    <3>5. s \in 1..made' /\ s \in 0..MaxSessions
      BY <1>2, <1>4, <1>6, <1>10
    <3>6. KnowsItsSession(k)'
      BY <1>1, <2>4, <3>2, <3>5 DEF KnowsItsSession
    <3>7. step \in TurnSteps
      BY StepNames
    <3> QED
      BY <1>1, <1>6, <1>8, <2>2, <2>6, <2>8, <2>10, <3>1, <3>4, <3>5, <3>6, <3>7, TurnGoes
  <2> QED
    BY <2>9, <2>10
<1> QED
  BY <1>9, <1>10

LEMMA EnsureVisitKept ==
    ASSUME SessionIInv, NEW k \in Slots, EnsureVisit(k)
    PROVE  SessionIInv'
<1> USE SessionNames
<1> DEFINE s == IF slot[k].expect # NoSession THEN slot[k].expect
                ELSE IF tables.scope = "channel" THEN tables.primary ELSE NoSession
<1>1. koeUp /\ lease = NoHolder /\ slot[k] \in Turns /\ slot[k].kind = "visit" /\ slot[k].root = NoRoot
  BY LeasedTurn DEF EnsureVisit
<1>2. /\ made \in 0..MaxSessions /\ slot \in [Slots -> Turns] /\ tables.sessions \subseteq 1..made
      /\ ran \subseteq Roots \X (1..made)
  BY DEF SessionIInv, SessionTypes, Tables
<1>3. /\ TablesStay /\ UNCHANGED <<tables, savedTables, made, ran, carried>> /\ UNCHANGED configVars
  BY DEF EnsureVisit, TablesStay, TurnChoosesSession
<1>4. TablesTyped' /\ TablesAreScoped' /\ made' \in 0..MaxSessions /\ made <= made'
        /\ ran' \subseteq Roots \X (1..made')
  BY <1>2, <1>3, TablesStayKnown
<1>5. CASE s = NoSession
  <2>1. GoTo(k, "create", s) /\ lease' = k
    BY <1>5 DEF EnsureVisit
  <2>2. tables.scope = "channel" => tables.primary = NoSession
    BY <1>5
  <2>3. s \in 0..MaxSessions /\ "create" \in TurnSteps
    BY <1>5, StepNames
  <2> HIDE DEF s
  <2>4. /\ slot'[k].step = "create" /\ slot'[k].session = s /\ slot'[k].kind = slot[k].kind
        /\ slot'[k].root = slot[k].root /\ slot'[k].expect = slot[k].expect
    BY <1>2, <2>1, GoToSets
  <2>5. IsFenced(k)' /\ KnowsItsSession(k)'
    BY <1>1, <1>3, <2>2, <2>4 DEF IsFenced, KnowsItsSession
  <2> QED
    BY <1>1, <1>3, <1>4, <2>1, <2>3, <2>5, TurnGoes
<1>6. CASE s # NoSession /\ s \in tables.sessions
  <2>1. Use(k, s) /\ lease' = k
    BY <1>6 DEF EnsureVisit
  <2>2. s \in 1..made /\ s \in 0..MaxSessions
    BY <1>2, <1>6
  <2>3. tables.scope = "thread" => slot[k].expect # NoSession
    BY <1>6
  <2> HIDE DEF s
  <2>4. PICK step \in {"begin", "resume"} : GoTo(k, step, s)
    BY <2>1, Uses
  <2>5. /\ slot'[k].step = step /\ slot'[k].session = s /\ slot'[k].kind = slot[k].kind
        /\ slot'[k].root = slot[k].root /\ slot'[k].expect = slot[k].expect
    BY <1>2, <2>4, GoToSets
  <2>6. IsFenced(k)' /\ KnowsItsSession(k)'
    BY <1>1, <1>3, <2>2, <2>3, <2>5 DEF IsFenced, KnowsItsSession
  <2>7. step \in TurnSteps
    BY StepNames
  <2> QED
    BY <1>1, <1>3, <1>4, <2>1, <2>2, <2>4, <2>6, <2>7, TurnGoes
<1>7. CASE s # NoSession /\ s \notin tables.sessions
  <2>1. GiveUp(k)
    BY <1>7 DEF EnsureVisit
  <2> QED
    BY <1>1, <1>3, <2>1, TurnStopped
<1> QED
  BY <1>5, <1>6, <1>7

(* A turn that is past the lease holds it.                                 *)
LEMMA HeldTurn ==
    ASSUME SessionIInv, NEW k \in Slots, NEW step \in TurnSteps \ {"off", "wait"}, At(k, step)
    PROVE  /\ koeUp /\ lease = k /\ slot[k] \in Turns /\ slot[k].step = step
           /\ slot[k].kind = "visit" <=> slot[k].root = NoRoot
           /\ slot[k].kind # "visit" => slot[k].root \in Roots
           /\ IsFenced(k) /\ KnowsItsSession(k)
           /\ made \in 0..MaxSessions /\ slot \in [Slots -> Turns] /\ ran \subseteq Roots \X (1..made)
           /\ tables \in Tables(made) /\ savedTables \in Tables(made)
<1>1. koeUp /\ slot[k].step = step
  BY DEF At
<1>2. slot[k] \in Turns /\ lease = k
  BY <1>1 DEF SessionIInv, SessionTypes, LeaseIsHeld
<1>3. IsFenced(k) /\ KnowsItsSession(k)
  BY DEF SessionIInv, TurnsKnowTheirSession
<1>4. slot[k].kind = "visit" <=> slot[k].root = NoRoot
  BY <1>1, <1>3 DEF KnowsItsSession
<1> QED
  BY <1>1, <1>2, <1>3, <1>4 DEF SessionIInv, SessionTypes, Turns

LEMMA SessionResumedKept ==
    ASSUME SessionIInv, NEW k \in Slots, NEW ok \in BOOLEAN, SessionResumed(k, ok)
    PROVE  SessionIInv'
<1> USE SessionNames
<1> DEFINE s == slot[k].session
<1>1. At(k, "resume") /\ "resume" \in TurnSteps \ {"off", "wait"}
  BY StepNames DEF SessionResumed
<1>2. /\ koeUp /\ lease = k /\ slot[k] \in Turns /\ slot[k].step = "resume" /\ IsFenced(k) /\ KnowsItsSession(k)
      /\ slot[k].kind = "visit" <=> slot[k].root = NoRoot
      /\ made \in 0..MaxSessions /\ slot \in [Slots -> Turns] /\ ran \subseteq Roots \X (1..made)
  BY <1>1, HeldTurn
<1>3. TablesStay /\ UNCHANGED <<tables, made, ran, carried>> /\ UNCHANGED configVars
  BY DEF SessionResumed, TablesStay, Save
<1>4. /\ TablesTyped' /\ TablesAreScoped' /\ made' \in 0..MaxSessions /\ made <= made'
      /\ ran' \subseteq Roots \X (1..made')
      /\ \A x : Unused(x) => \A r \in Roots : savedTables'.binding[r] # x
  BY <1>2, <1>3, TablesStayKnown
<1>5. CASE ok = FALSE
  <2>1. GiveUp(k)
    BY <1>5 DEF SessionResumed
  <2> QED
    BY <1>2, <1>3, <2>1, TurnStopped
<1>6. CASE ok = TRUE
  <2>1. GoTo(k, "begin", s) /\ lease' = k
    BY <1>2, <1>6 DEF SessionResumed
  <2>2. s \in 0..MaxSessions /\ "begin" \in TurnSteps
    BY <1>2, StepNames DEF Turns
  <2>3. /\ slot'[k].step = "begin" /\ slot'[k].session = s /\ slot'[k].kind = slot[k].kind
        /\ slot'[k].root = slot[k].root /\ slot'[k].expect = slot[k].expect
    BY <1>2, <2>1, GoToSets
  <2>4. IsFenced(k)'
    BY <1>2, <2>3 DEF IsFenced
  <2>5. Unused(s) => Unused(s)'
    BY <1>3, <1>4, <2>3 DEF Unused
  <2>6. KnowsItsSession(k)'
    BY <1>2, <1>3, <2>3, <2>5 DEF KnowsItsSession, Unused, configVars
  <2> QED
    BY <1>2, <1>3, <1>4, <2>1, <2>2, <2>4, <2>6, TurnGoes
<1> QED
  BY <1>5, <1>6

LEMMA SessionUnavailableKept ==
    ASSUME SessionIInv, NEW k \in Slots, SessionUnavailable(k)
    PROVE  SessionIInv'
<1> USE SessionNames
<1> DEFINE s == slot[k].session
<1>1. At(k, "resume") /\ "resume" \in TurnSteps \ {"off", "wait"}
  BY StepNames DEF SessionUnavailable
<1>2. /\ koeUp /\ lease = k /\ slot[k] \in Turns /\ slot[k].step = "resume" /\ IsFenced(k) /\ KnowsItsSession(k)
      /\ slot[k].kind = "visit" <=> slot[k].root = NoRoot
      /\ made \in 0..MaxSessions /\ slot \in [Slots -> Turns] /\ ran \subseteq Roots \X (1..made)
  BY <1>1, HeldTurn
<1>3. TablesStay /\ UNCHANGED <<tables, savedTables, made, ran, carried>> /\ UNCHANGED configVars
  BY DEF SessionUnavailable, TablesStay, TurnChoosesSession
<1>4. /\ TablesTyped' /\ TablesAreScoped' /\ made' \in 0..MaxSessions /\ made <= made'
      /\ ran' \subseteq Roots \X (1..made')
  BY <1>2, <1>3, TablesStayKnown
<1>5. CASE ~(declared /\ s = Declared /\ slot[k].kind # "visit")
  <2>1. GiveUp(k)
    BY <1>5 DEF SessionUnavailable
  <2> QED
    BY <1>2, <1>3, <2>1, TurnStopped
<1>6. CASE declared /\ s = Declared /\ slot[k].kind # "visit"
  <2>1. GoTo(k, "replace", s) /\ lease' = k
    BY <1>2, <1>6 DEF SessionUnavailable
  <2>2. s \in 0..MaxSessions /\ "replace" \in TurnSteps
    BY <1>2, StepNames DEF Turns
  <2>3. /\ slot'[k].step = "replace" /\ slot'[k].session = s /\ slot'[k].kind = slot[k].kind
        /\ slot'[k].root = slot[k].root /\ slot'[k].expect = slot[k].expect
    BY <1>2, <2>1, GoToSets
  <2>4. IsFenced(k)'
    BY <1>2, <1>6, <2>3 DEF IsFenced
  <2>5. declared'
    BY <1>3, <1>6 DEF configVars
  <2>6. KnowsItsSession(k)'
    BY <1>2, <1>6, <2>3, <2>5 DEF KnowsItsSession
  <2> QED
    BY <1>2, <1>3, <1>4, <2>1, <2>2, <2>4, <2>6, TurnGoes
<1> QED
  BY <1>5, <1>6

LEMMA SessionNotCreatedKept ==
    ASSUME SessionIInv, NEW k \in Slots, SessionNotCreated(k)
    PROVE  SessionIInv'
<1>1. PICK step \in {"create", "replace"} : At(k, step)
  BY DEF SessionNotCreated
<1>2. step \in TurnSteps \ {"off", "wait"}
  BY StepNames
<1>3. koeUp /\ lease = k
  BY <1>1, <1>2, HeldTurn
<1>4. GiveUp(k) /\ TablesStay /\ UNCHANGED carried
  BY DEF SessionNotCreated, TablesStay, TurnChoosesSession
<1> QED
  BY <1>3, <1>4, TurnStopped

LEMMA EndTurnKept ==
    ASSUME SessionIInv, NEW k \in Slots, EndTurn(k)
    PROVE  SessionIInv'
<1>1. PICK step \in {"started", "stream"} : At(k, step)
  BY DEF EndTurn
<1>2. step \in TurnSteps \ {"off", "wait"}
  BY StepNames
<1>3. koeUp /\ lease = k
  BY <1>1, <1>2, HeldTurn
<1>4. GiveUp(k) /\ TablesStay /\ UNCHANGED carried
  BY DEF EndTurn, TablesStay
<1> QED
  BY <1>3, <1>4, TurnStopped

LEMMA SavesKept ==
    ASSUME SessionIInv,
           (\E k \in Slots : StatusEnds(k)) \/ (\E r \in Roots : ProbeRoot(r)) \/ OtherSaves
    PROVE  SessionIInv'
<1>1. koeUp /\ TablesStay /\ UNCHANGED <<slot, lease, carried>>
  BY DEF StatusEnds, ProbeRoot, OtherSaves, TablesStay, At, requireActiveConversation
<1> QED
  BY <1>1, NoTurnMoves

(* The new session has a number nobody knows.                              *)
LEMMA SessionCreatedKept ==
    ASSUME SessionIInv, NEW k \in Slots, NEW ok \in BOOLEAN, SessionCreated(k, ok)
    PROVE  SessionIInv'
<1> USE SessionNames
<1> DEFINE n == made + 1
           r == slot[k].root
<1>1. At(k, "create") /\ "create" \in TurnSteps \ {"off", "wait"}
  BY StepNames DEF SessionCreated
<1>2. /\ koeUp /\ lease = k /\ slot[k] \in Turns /\ slot[k].step = "create" /\ IsFenced(k) /\ KnowsItsSession(k)
      /\ slot[k].kind = "visit" <=> r = NoRoot
      /\ made \in 0..MaxSessions /\ slot \in [Slots -> Turns] /\ ran \subseteq Roots \X (1..made)
      /\ tables \in Tables(made) /\ savedTables \in Tables(made)
  BY <1>1, HeldTurn
<1>3. /\ made' = n /\ n \in 1..MaxSessions /\ UNCHANGED <<ran, carried>> /\ UNCHANGED configVars
  BY <1>2 DEF SessionCreated
<1> DEFINE all == tables.sessions \cup {n}
           b == [q \in Roots |-> IF q = r THEN n ELSE tables.binding[q]]
           p == IF tables.scope = "channel" THEN n ELSE tables.primary
<1>4. tables' = [tables EXCEPT !.sessions = all, !.primary = p, !.binding = b]
  BY DEF SessionCreated
<1>5. /\ tables.sessions \subseteq 1..made /\ tables.primary \in 0..made
      /\ tables.binding \in [Roots -> 0..made] /\ savedTables.binding \in [Roots -> 0..made]
  BY <1>2 DEF Tables
<1>6. all \in SUBSET (1..n) /\ p \in 0..n /\ b \in [Roots -> 0..n]
  BY <1>2, <1>5
<1>7. tables \in Tables(n) /\ savedTables \in Tables(n)
  <2>1. made \in Nat
    BY <1>2
  <2> QED
    BY <1>2, <2>1, TablesGrow
<1> HIDE DEF all, b, p
<1>8. /\ tables' \in Tables(n) /\ tables'.scope = tables.scope /\ tables'.sessions = all
      /\ tables'.primary = p /\ tables'.binding = b
  BY <1>4, <1>6, <1>7 DEF Tables
<1>9. savedTables' \in {savedTables, tables'}
  BY DEF SessionCreated, Save
<1>10. TablesTyped'
  BY <1>3, <1>7, <1>8, <1>9 DEF TablesTyped
<1>11. \A q \in Roots : /\ b[q] \in {n, tables.binding[q]} /\ tables.binding[q] # n /\ savedTables.binding[q] # n
                        /\ <<q, n>> \notin ran /\ (b[q] = n <=> q = r)
  <2>1. n \notin 0..made
    BY <1>2
  <2>2. \A q \in Roots : tables.binding[q] \in 0..made /\ savedTables.binding[q] \in 0..made
    BY <1>5
  <2>3. \A q \in Roots : <<q, n>> \notin ran
    BY <1>2, <2>1
  <2> HIDE DEF n
  <2> QED
    BY <2>1, <2>2, <2>3 DEF b
<1>12. ASSUME ~declared PROVE Scoped(tables)' /\ Scoped(savedTables)'
  <2>1. Scoped(tables) /\ Scoped(savedTables)
    BY <1>12 DEF SessionIInv, TablesAreScoped
  <2>2. ASSUME tables.scope = "channel" PROVE OneSession(tables)'
    <3>1. tables.primary = NoSession /\ OneSession(tables)
      BY <1>2, <1>12, <2>1, <2>2 DEF KnowsItsSession, Scoped
    <3>2. tables.sessions = {} /\ \A q \in Roots : tables.binding[q] = NoSession
      BY <1>5, <3>1 DEF OneSession
    <3>3. p = n /\ all = {n} /\ \A q \in Roots : b[q] \in {NoSession, n}
      BY <1>11, <2>2, <3>2 DEF p, all
    <3> QED
      BY <1>8, <3>3 DEF OneSession
  <2>3. ASSUME tables.scope = "thread" PROVE OneRootEach(tables)' /\ OwnRoot(tables)'
    <3>1. OneRootEach(tables) /\ OwnRoot(tables)
      BY <2>1, <2>3 DEF Scoped
    <3> HIDE DEF n
    <3>2. OneRootEach(tables)'
      BY <1>8, <1>11, <3>1 DEF OneRootEach
    <3>3. OwnRoot(tables)'
      BY <1>3, <1>8, <1>11, <3>1 DEF OwnRoot
    <3> QED
      BY <3>2, <3>3
  <2>4. configScope' = "channel" => tables'.scope = "channel"
    BY <1>3, <1>8, <2>1 DEF Scoped, configVars
  <2>5. Scoped(tables)'
    BY <1>8, <2>2, <2>3, <2>4 DEF Scoped
  <2>6. CASE savedTables' = tables'
    BY <2>5, <2>6 DEF Scoped, OneSession, OneRootEach, OwnRoot
  <2>7. CASE savedTables' = savedTables
    <3>1. UNCHANGED <<configScope, ran>>
      BY <1>3 DEF configVars
    <3> QED
      BY <2>1, <2>5, <2>7, <3>1 DEF Scoped, OneSession, OneRootEach, OwnRoot
  <2> QED
    BY <1>9, <2>5, <2>6, <2>7
<1>13. TablesAreScoped'
  BY <1>3, <1>8, <1>12 DEF SessionIInv, TablesAreScoped, configVars
<1>14. made' \in 0..MaxSessions /\ made <= made' /\ ran' \subseteq Roots \X (1..made')
  BY <1>2, <1>3
<1>15. CASE ok = FALSE
  <2>1. GiveUp(k)
    BY <1>15 DEF SessionCreated
  <2> QED
    BY <1>2, <1>3, <1>10, <1>13, <1>14, <2>1, TurnGivenUp
<1>16. CASE ok = TRUE
  <2>1. GoTo(k, "begin", n) /\ lease' = k /\ savedTables' = tables'
    BY <1>2, <1>16 DEF SessionCreated, Save
  <2>2. n \in 0..MaxSessions /\ "begin" \in TurnSteps
    BY <1>3, StepNames
  <2>3. /\ slot'[k].step = "begin" /\ slot'[k].session = n /\ slot'[k].kind = slot[k].kind
        /\ slot'[k].root = r /\ slot'[k].expect = slot[k].expect
    BY <1>2, <2>1, GoToSets
  <2>4. slot[k].kind # "result"
    BY <1>2 DEF IsFenced
  <2>5. IsFenced(k)'
    BY <2>3, <2>4 DEF IsFenced
  <2>6. n \in 1..made'
    BY <1>3
  <2>7. r # NoRoot => r \in Roots
    BY <1>2 DEF Turns
  <2> HIDE DEF n
  <2>8. r # NoRoot => tables'.binding[r] = n
    BY <1>8, <1>11, <2>7
  <2>9. r = NoRoot =>
           \A q \in Roots : tables'.binding[q] # n /\ savedTables'.binding[q] # n /\ <<q, n>> \notin ran'
    BY <1>3, <1>8, <1>11, <2>1
  <2>10. KnowsItsSession(k)'
    BY <1>2, <2>3, <2>6, <2>8, <2>9 DEF KnowsItsSession, Unused
  <2> QED
    BY <1>2, <1>3, <1>10, <1>13, <1>14, <2>1, <2>2, <2>5, <2>10, TurnGoes
<1> QED
  BY <1>15, <1>16

LEMMA ReplaceMissingThreadKept ==
    ASSUME SessionIInv, NEW k \in Slots, NEW ok \in BOOLEAN, ReplaceMissingThread(k, ok)
    PROVE  SessionIInv'
<1> USE SessionNames
<1> DEFINE n == made + 1
           r == slot[k].root
           t == [tables EXCEPT !.sessions = tables.sessions \cup {n}, !.scope = "thread"]
<1>1. At(k, "replace") /\ "replace" \in TurnSteps \ {"off", "wait"}
  BY StepNames DEF ReplaceMissingThread
<1>2. /\ koeUp /\ lease = k /\ slot[k] \in Turns /\ slot[k].step = "replace" /\ IsFenced(k) /\ KnowsItsSession(k)
      /\ slot[k].kind = "visit" <=> r = NoRoot
      /\ slot[k].kind # "visit" => r \in Roots
      /\ made \in 0..MaxSessions /\ slot \in [Slots -> Turns] /\ ran \subseteq Roots \X (1..made)
      /\ tables \in Tables(made) /\ savedTables \in Tables(made)
  BY <1>1, HeldTurn
<1>3. declared /\ r \in Roots /\ r # NoRoot /\ slot[k].kind # "visit"
  BY <1>2 DEF KnowsItsSession
<1>4. /\ made' = n /\ n \in 1..MaxSessions /\ UNCHANGED <<ran, carried>> /\ UNCHANGED configVars
  BY <1>2 DEF ReplaceMissingThread
<1>5. tables' = replaceConversation(t, r, n)
  BY DEF ReplaceMissingThread
<1>6. t \in Tables(n) /\ savedTables \in Tables(n) /\ n \in 0..n /\ n \in Nat
  <2>1. made \in Nat /\ n \in 1..n /\ n \in 0..n /\ n \in Nat /\ "thread" \in Scopes
    BY <1>2 DEF Scopes
  <2>2. savedTables \in Tables(n) /\ t \in Tables(n)
    BY <1>2, <2>1, TablesGrow
  <2> QED
    BY <2>1, <2>2
<1> HIDE DEF t
<1>7. tables' \in Tables(n)
  BY <1>3, <1>5, <1>6, ReplacedTables
<1>8. savedTables' \in {savedTables, tables'}
  BY DEF ReplaceMissingThread, Save
<1>9. TablesTyped' /\ TablesAreScoped'
  BY <1>3, <1>4, <1>6, <1>7, <1>8 DEF TablesTyped, TablesAreScoped, configVars
<1>10. made' \in 0..MaxSessions /\ made <= made' /\ ran' \subseteq Roots \X (1..made')
  BY <1>2, <1>4
<1>11. CASE ok = FALSE
  <2>1. GiveUp(k)
    BY <1>11 DEF ReplaceMissingThread
  <2> QED
    BY <1>2, <1>4, <1>9, <1>10, <2>1, TurnGivenUp
<1>12. CASE ok = TRUE
  <2>1. GoTo(k, "begin", n) /\ lease' = k
    BY <1>2, <1>12 DEF ReplaceMissingThread
  <2>2. n \in 0..MaxSessions /\ "begin" \in TurnSteps
    BY <1>4, StepNames
  <2>3. /\ slot'[k].step = "begin" /\ slot'[k].session = n /\ slot'[k].kind = slot[k].kind
        /\ slot'[k].root = r /\ slot'[k].expect = slot[k].expect
    BY <1>2, <2>1, GoToSets
  <2>4. declared'
    BY <1>3, <1>4 DEF configVars
  <2>5. IsFenced(k)'
    BY <1>2, <2>3, <2>4 DEF IsFenced
  <2>6. n \in 1..made'
    BY <1>4
  <2>7. KnowsItsSession(k)'
    BY <1>2, <2>3, <2>4, <2>6 DEF KnowsItsSession
  <2> QED
    BY <1>2, <1>4, <1>9, <1>10, <2>1, <2>2, <2>5, <2>7, TurnGoes
<1> QED
  BY <1>11, <1>12

LEMMA BeginTurnKept ==
    ASSUME SessionIInv, NEW k \in Slots, NEW ok \in BOOLEAN, BeginTurn(k, ok)
    PROVE  SessionIInv'
<1> USE SessionNames
<1> DEFINE s == slot[k].session
           r == slot[k].root
<1>1. At(k, "begin") /\ "begin" \in TurnSteps \ {"off", "wait"}
  BY StepNames DEF BeginTurn
<1>2. /\ koeUp /\ lease = k /\ slot[k] \in Turns /\ slot[k].step = "begin" /\ IsFenced(k) /\ KnowsItsSession(k)
      /\ slot[k].kind = "visit" <=> r = NoRoot
      /\ slot[k].kind # "visit" => r \in Roots
      /\ made \in 0..MaxSessions /\ slot \in [Slots -> Turns] /\ ran \subseteq Roots \X (1..made)
      /\ tables \in Tables(made) /\ savedTables \in Tables(made)
  BY <1>1, HeldTurn
<1>3. UNCHANGED <<tables, made>> /\ UNCHANGED configVars /\ savedTables' \in {savedTables, tables}
  BY DEF BeginTurn
<1>4. CASE ok = FALSE
  <2>1. GiveUp(k) /\ TablesStay /\ UNCHANGED carried
    BY <1>3, <1>4 DEF BeginTurn, TablesStay
  <2> QED
    BY <1>2, <2>1, TurnStopped
<1>5. CASE ok = TRUE
  <2> DEFINE step == IF slot[k].kind = "visit" /\ tables.scope = "thread" /\ slot[k].expect = NoSession
                       THEN "started" ELSE "stream"
  <2>1. /\ slot' = [slot EXCEPT ![k].step = step] /\ lease' = k /\ savedTables' = tables
        /\ ran' = IF r = NoRoot THEN ran ELSE ran \cup {<<r, s>>}
        /\ carried' = IF slot[k].kind = "result" THEN carried \cup {<<slot[k].expect, s>>} ELSE carried
    BY <1>2, <1>5 DEF BeginTurn
  <2>2. step \in {"started", "stream"} /\ step \in TurnSteps
    BY StepNames
  <2>3. step = "started" <=> slot[k].kind = "visit" /\ tables.scope = "thread" /\ slot[k].expect = NoSession
    OBVIOUS
  <2> HIDE DEF step
  <2>4. slot'[k] = [slot[k] EXCEPT !.step = step] /\ slot' = [slot EXCEPT ![k] = slot'[k]]
    BY <1>2, <2>1
  <2>5. /\ slot'[k].step = step /\ slot'[k].session = s /\ slot'[k].kind = slot[k].kind
        /\ slot'[k].root = r /\ slot'[k].expect = slot[k].expect /\ slot'[k] \in Turns
    BY <1>2, <2>2, <2>4 DEF Turns
  <2>6. s \in 1..made
    BY <1>2 DEF KnowsItsSession
  <2>7. ran' \subseteq Roots \X (1..made')
    BY <1>2, <1>3, <2>1, <2>6
  <2>8. TablesTyped'
    BY <1>2, <1>3, <2>1 DEF TablesTyped
  <2>9. ASSUME ~declared PROVE Scoped(tables)'
    <3>1. Scoped(tables)
      BY <2>9 DEF SessionIInv, TablesAreScoped
    <3>2. ASSUME tables.scope = "thread" PROVE OwnRoot(tables)'
      <4>1. OneRootEach(tables) /\ OwnRoot(tables)
        BY <3>1, <3>2 DEF Scoped
      <4>2. CASE r = NoRoot
        BY <1>3, <2>1, <4>1, <4>2 DEF OwnRoot
      <4>3. CASE r # NoRoot
        <5>1. tables.binding[r] = s /\ s # NoSession /\ r \in Roots
          BY <1>2, <2>6, <2>9, <3>2, <4>3 DEF KnowsItsSession
        <5>2. ASSUME NEW q \in Roots, NEW x \in Roots, <<q, tables.binding[x]>> \in ran' PROVE q = x
          <6>1. CASE <<q, tables.binding[x]>> \in ran
            BY <4>1, <6>1 DEF OwnRoot
          <6>2. CASE q = r /\ tables.binding[x] = s
            BY <4>1, <5>1, <6>2 DEF OneRootEach
          <6> QED
            BY <2>1, <4>3, <5>2, <6>1, <6>2
        <5> QED
          BY <1>3, <5>2 DEF OwnRoot
      <4> QED
        BY <4>2, <4>3
    <3>3. OneSession(tables) => OneSession(tables)'
      BY <1>3 DEF OneSession
    <3>4. OneRootEach(tables) => OneRootEach(tables)'
      BY <1>3 DEF OneRootEach
    <3> QED
      BY <1>3, <3>1, <3>2, <3>3, <3>4 DEF Scoped, configVars
  <2>10. TablesAreScoped'
    <3>1. ASSUME ~declared PROVE Scoped(savedTables)'
      BY <1>3, <2>1, <2>9, <3>1 DEF Scoped, OneSession, OneRootEach, OwnRoot
    <3> QED
      BY <1>3, <2>9, <3>1 DEF SessionIInv, TablesAreScoped, configVars
  <2>11. IsFenced(k)'
    BY <1>2, <2>2, <2>5 DEF IsFenced
  <2>12. KnowsItsSession(k)'
    <3>1. step = "started" => slot[k].kind = "visit" /\ slot[k].expect = NoSession /\ tables'.scope = "thread"
      BY <1>3, <2>3
    <3>2. ~declared /\ tables'.scope = "thread" /\ r # NoRoot => tables'.binding[r] = s
      BY <1>2, <1>3 DEF KnowsItsSession
    <3>3. ~declared /\ step = "started" => Unused(s)'
      <4> SUFFICES ASSUME ~declared, step = "started"
                  
      PROVE  \A q \in Roots : tables'.binding[q] # s /\ savedTables'.binding[q] # s /\ <<q, s>> \notin ran'
        BY <2>5 DEF Unused
      <4>1. Unused(s) /\ r = NoRoot
        BY <1>2, <2>3 DEF KnowsItsSession
      <4> QED
        BY <1>3, <2>1, <4>1 DEF Unused
    <3> QED
      BY <1>2, <1>3, <2>2, <2>5, <2>6, <3>1, <3>2, <3>3 DEF KnowsItsSession, Unused, configVars
  <2>13. ResultReachesUnlessReplaced'
    <3>1. slot[k].kind = "result" => s = slot[k].expect \/ (declared /\ slot[k].expect = Declared)
      BY <1>2 DEF IsFenced
    <3> QED
      BY <1>3, <2>1, <3>1 DEF SessionIInv, ResultReachesUnlessReplaced, configVars
  <2>14. made' \in 0..MaxSessions /\ made <= made'
    BY <1>2, <1>3
  <2> QED
    BY <1>2, <1>3, <2>1, <2>4, <2>5, <2>7, <2>8, <2>10, <2>11, <2>12, <2>13, <2>14, OneTurnMoves
<1> QED
  BY <1>4, <1>5

LEMMA BindVisitKept ==
    ASSUME SessionIInv, NEW k \in Slots, NEW r \in Roots, NEW ok \in BOOLEAN, BindVisit(k, r, ok)
    PROVE  SessionIInv'
<1> USE SessionNames
<1> DEFINE s == slot[k].session
<1>1. At(k, "started") /\ "started" \in TurnSteps \ {"off", "wait"}
  BY StepNames DEF BindVisit
<1>2. /\ koeUp /\ lease = k /\ slot[k] \in Turns /\ slot[k].step = "started" /\ IsFenced(k) /\ KnowsItsSession(k)
      /\ slot[k].kind = "visit" <=> slot[k].root = NoRoot
      /\ made \in 0..MaxSessions /\ slot \in [Slots -> Turns] /\ ran \subseteq Roots \X (1..made)
      /\ tables \in Tables(made) /\ savedTables \in Tables(made)
  BY <1>1, HeldTurn
<1>3. /\ slot[k].kind = "visit" /\ slot[k].root = NoRoot /\ slot[k].expect = NoSession
      /\ tables.scope = "thread" /\ s \in 1..made
  BY <1>2 DEF KnowsItsSession
<1>4. /\ UNCHANGED <<made, carried>> /\ UNCHANGED configVars /\ savedTables' \in {savedTables, tables'}
      /\ ran' = ran \cup {<<r, s>>} /\ tables' = replaceConversation(tables, r, s)
  BY DEF BindVisit, Save, replaceConversation
<1>5. /\ tables' \in Tables(made) /\ tables'.scope = "thread"
      /\ tables'.binding = [tables.binding EXCEPT ![r] = s]
  BY <1>2, <1>3, <1>4, ReplacedTables
<1>6. tables.binding \in [Roots -> 0..made]
  BY <1>2 DEF Tables
<1>7. \A q \in Roots : tables'.binding[q] = IF q = r THEN s ELSE tables.binding[q]
  BY <1>5, <1>6
<1>8. TablesTyped' /\ ran' \subseteq Roots \X (1..made') /\ made' \in 0..MaxSessions /\ made <= made'
  BY <1>2, <1>3, <1>4, <1>5 DEF TablesTyped
<1>9. ASSUME ~declared PROVE Scoped(tables)' /\ Scoped(savedTables)'
  <2>1. Scoped(tables) /\ Scoped(savedTables)
    BY <1>9 DEF SessionIInv, TablesAreScoped
  <2>2. OneRootEach(tables) /\ OwnRoot(tables)
    BY <1>3, <2>1 DEF Scoped
  <2>3. Unused(s)
    BY <1>2, <1>3, <1>9 DEF KnowsItsSession
  <2> HIDE DEF s
  <2>4. OneRootEach(tables)'
    BY <1>7, <2>2, <2>3 DEF OneRootEach, Unused
  <2>5. ASSUME NEW q \in Roots, NEW x \in Roots, <<q, tables'.binding[x]>> \in ran' PROVE q = x
    <3>1. CASE x = r
      BY <1>4, <1>7, <2>3, <2>5, <3>1 DEF Unused
    <3>2. CASE x # r
      <4>1. tables'.binding[x] = tables.binding[x] /\ tables.binding[x] # s
        BY <1>7, <2>3, <3>2 DEF Unused
      <4>2. <<q, tables.binding[x]>> \in ran
        BY <1>4, <2>5, <4>1
      <4> QED
        BY <2>2, <4>2 DEF OwnRoot
    <3> QED
      BY <3>1, <3>2
  <2>6. UNCHANGED configScope
    BY <1>4 DEF configVars
  <2>7. configScope' = "channel" => tables'.scope = "channel"
    BY <1>3, <2>1, <2>6 DEF Scoped
  <2>8. Scoped(tables)'
    BY <1>5, <2>4, <2>5, <2>7 DEF Scoped, OwnRoot
  <2>9. CASE savedTables' = tables'
    BY <2>8, <2>9 DEF Scoped, OneSession, OneRootEach, OwnRoot
  <2>10. CASE savedTables' = savedTables
    <3>1. OwnRoot(savedTables) => OwnRoot(savedTables)'
      BY <1>4, <2>3, <2>10 DEF OwnRoot, Unused
    <3>2. OneSession(savedTables) => OneSession(savedTables)'
      BY <2>10 DEF OneSession
    <3>3. OneRootEach(savedTables) => OneRootEach(savedTables)'
      BY <2>10 DEF OneRootEach
    <3> QED
      BY <2>1, <2>6, <2>8, <2>10, <3>1, <3>2, <3>3 DEF Scoped
  <2> QED
    BY <1>4, <2>8, <2>9, <2>10
<1>10. TablesAreScoped'
  BY <1>3, <1>4, <1>5, <1>9 DEF SessionIInv, TablesAreScoped, configVars
<1>11. CASE ok = FALSE
  <2>1. GiveUp(k)
    BY <1>11 DEF BindVisit
  <2> QED
    BY <1>2, <1>4, <1>8, <1>10, <2>1, TurnGivenUp
<1>12. CASE ok = TRUE
  <2>1. slot' = [slot EXCEPT ![k].step = "stream"] /\ lease' = k
    BY <1>2, <1>12 DEF BindVisit
  <2>2. slot'[k] = [slot[k] EXCEPT !.step = "stream"] /\ slot' = [slot EXCEPT ![k] = slot'[k]]
    BY <1>2, <2>1
  <2>3. /\ slot'[k].step = "stream" /\ slot'[k].session = s /\ slot'[k].kind = "visit"
        /\ slot'[k].root = NoRoot /\ slot'[k] \in Turns
    BY <1>2, <1>3, <2>2, StepNames DEF Turns
  <2>4. IsFenced(k)' /\ KnowsItsSession(k)'
    BY <1>3, <1>4, <2>3 DEF IsFenced, KnowsItsSession
  <2>5. ResultReachesUnlessReplaced'
    BY <1>4 DEF SessionIInv, ResultReachesUnlessReplaced, configVars
  <2> QED
    BY <1>2, <1>4, <1>8, <1>10, <2>1, <2>2, <2>3, <2>4, <2>5, OneTurnMoves
<1> QED
  BY <1>11, <1>12

(* What selectCanonicalSessionIds may choose from is one session at most.  *)
LEMMA OneCandidate ==
    ASSUME NEW m \in Nat, NEW d \in Tables(m), OneSession(d)
    PROVE  /\ Candidates(d) \subseteq {d.primary} /\ Cardinality(Candidates(d)) <= 1
           /\ Candidates(d) = {} => d.sessions = {}
<1> USE SessionNames
<1>1. d.sessions \subseteq 1..m /\ d.binding \in [Roots -> 0..m]
  BY DEF Tables
<1>2. Candidates(d) \subseteq {d.primary}
  BY DEF OneSession, Candidates, Referenced, Bound
<1>3. Candidates(d) = {} => d.sessions = {}
  BY DEF Candidates
<1>4. Candidates(d) = {} \/ Candidates(d) = {d.primary}
  BY <1>2
<1>5. Cardinality(Candidates(d)) <= 1
  <2>1. CASE Candidates(d) = {}
    BY <2>1, FS_EmptySet
  <2>2. CASE Candidates(d) = {d.primary}
    <3>1. Cardinality({d.primary}) = 1
      BY FS_Singleton
    <3> QED
      BY <2>2, <3>1
  <2> QED
    BY <1>4, <2>1, <2>2
<1> QED
  BY <1>2, <1>3, <1>5

(* What is on file can be loaded, unless the Koe fell back from a declared *)
(* session.                                                                *)
LEMMA FileLoads ==
    ASSUME SessionIInv, NEW scope \in Scopes, scope = configScope \/ (scope = "thread" /\ ~declared)
    PROVE  Loads(savedTables, scope) \/ (declared /\ savedTables.scope = "thread")
<1> USE DEF SessionIInv, SessionTypes
<1> DEFINE after == ScopeAfterStart(savedTables, scope)
<1>1. CASE declared
  <2>1. scope = "channel"
    BY <1>1
  <2>2. CASE savedTables.scope = "thread"
    BY <1>1, <2>2
  <2>3. CASE savedTables.scope # "thread"
    <3>1. after = "channel"
      BY <2>1, <2>3 DEF ScopeAfterStart
    <3> QED
      BY <1>1, <3>1 DEF Loads
  <2> QED
    BY <2>2, <2>3
<1>2. CASE ~declared
  <2>1. after = scope /\ Scoped(savedTables)
    BY <1>2 DEF ScopeAfterStart, TablesAreScoped
  <2>2. CASE scope = "thread"
    <3>1. CASE savedTables.scope = "channel"
      <4>1. \A q \in Roots : KeptBinding(savedTables, scope)[q] = NoSession
        BY <2>1, <2>2, <3>1 DEF KeptBinding
      <4> QED
        BY <2>1, <2>2, <4>1 DEF Loads
    <3>2. CASE savedTables.scope = "thread"
      <4>1. KeptBinding(savedTables, scope) = savedTables.binding
        BY <3>2 DEF KeptBinding
      <4>2. OneRootEach(savedTables)
        BY <2>1, <3>2 DEF Scoped
      <4> QED
        BY <2>1, <2>2, <4>1, <4>2 DEF Loads, OneRootEach
    <3> QED
      BY <3>1, <3>2 DEF Tables, Scopes
  <2>3. CASE scope = "channel"
    <3>1. OneSession(savedTables)
      BY <2>1, <2>3 DEF Scoped
    <3>2. made \in Nat
      BY SessionNames
    <3>3. Cardinality(Candidates(savedTables)) <= 1
      BY <3>1, <3>2, OneCandidate
    <3> QED
      BY <2>1, <2>3, <3>3 DEF Loads
  <2> QED
    BY <2>2, <2>3 DEF Scopes
<1> QED
  BY <1>1, <1>2

LEMMA RestoredKept ==
    ASSUME SessionIInv, NEW scope \in Scopes, scope = configScope \/ (scope = "thread" /\ ~declared)
    PROVE  LET t == Restored(savedTables, scope)
           IN /\ t \in Tables(made)
              /\ ~declared /\ scope = "channel" => t.scope = "channel" /\ OneSession(t)
              /\ ~declared /\ scope = "thread" => t.scope = "thread" /\ OneRootEach(t) /\ OwnRoot(t)
<1> USE SessionNames DEF SessionIInv, SessionTypes
<1> DEFINE t == Restored(savedTables, scope)
           d == savedTables
           c == Canonical(savedTables)
           onFile == KeptBinding(savedTables, scope)
           none == [r \in Roots |-> NoSession]
<1>1. /\ d.sessions \in SUBSET (1..made) /\ d.binding \in [Roots -> 0..made]
      /\ d.primary \in 0..made /\ made \in Nat /\ d.scope \in Scopes /\ d \in Tables(made)
  BY DEF Tables
<1>2. onFile \in {none, d.binding}
  BY DEF KeptBinding
<1>3. onFile \in [Roots -> 0..made]
  BY <1>1, <1>2
<1>4. c \in 0..made
  <2>1. CASE declared
    BY <2>1 DEF Canonical
  <2>2. CASE ~declared /\ Candidates(d) = {}
    BY <1>1, <2>2 DEF Canonical
  <2>3. CASE ~declared /\ Candidates(d) # {}
    <3>1. c \in Candidates(d)
      BY <2>3 DEF Canonical
    <3>2. Candidates(d) \subseteq 0..made
      <4>1. Bound(d) \subseteq 0..made
        BY <1>1 DEF Bound
      <4>2. d.sessions \subseteq 0..made /\ Referenced(d) \subseteq 0..made
        BY <1>1, <4>1 DEF Referenced
      <4> QED
        BY <4>2 DEF Candidates
    <3> QED
      BY <3>1, <3>2
  <2> QED
    BY <2>1, <2>2, <2>3
<1>5. CASE ScopeAfterStart(d, scope) = "thread"
  <2>1. t = [d EXCEPT !.scope = "thread", !.primary = NoSession, !.binding = onFile]
    BY <1>5 DEF Restored
  <2> HIDE DEF t, onFile
  <2>2. t \in Tables(made) /\ t.scope = "thread" /\ t.binding = onFile
    <3>1. onFile \in [Roots -> 0..made] /\ NoSession \in 0..made /\ "thread" \in Scopes
      BY <1>1, <1>3 DEF onFile, Scopes
    <3> QED
      BY <1>1, <2>1, <3>1 DEF Tables
  <2>3. ASSUME ~declared PROVE scope = "thread" /\ OneRootEach(t) /\ OwnRoot(t)
    <3>1. scope = "thread" /\ Scoped(d)
      BY <1>5, <2>3 DEF ScopeAfterStart, TablesAreScoped
    <3>2. CASE d.scope = "channel"
      <4>1. onFile = none
        BY <1>5, <3>2 DEF onFile, KeptBinding
      <4>2. \A q \in Roots : t.binding[q] = NoSession
        BY <2>2, <4>1
      <4>3. \A q \in Roots : <<q, NoSession>> \notin ran
        BY <1>1
      <4> QED
        BY <3>1, <4>2, <4>3 DEF OneRootEach, OwnRoot
    <3>3. CASE d.scope = "thread"
      <4>1. t.binding = d.binding
        BY <2>2, <3>3 DEF onFile, KeptBinding
      <4> QED
        BY <3>1, <3>3, <4>1 DEF Scoped, OneRootEach, OwnRoot
    <3> QED
      BY <1>1, <3>2, <3>3 DEF Scopes
  <2> QED
    BY <2>2, <2>3 DEF t
<1>6. CASE ScopeAfterStart(d, scope) # "thread"
  <2> DEFINE all == IF declared THEN d.sessions \cup {Declared} ELSE d.sessions
             b == [r \in Roots |-> IF d.binding[r] = NoSession THEN NoSession ELSE c]
  <2>1. t = [d EXCEPT !.scope = scope, !.primary = c, !.sessions = all, !.binding = b]
    BY <1>6 DEF Restored
  <2>2. all \in SUBSET (1..made) /\ b \in [Roots -> 0..made]
    BY <1>1, <1>4
  <2>3. \A r \in Roots : b[r] \in {NoSession, c}
    OBVIOUS
  <2> HIDE DEF t, c, b, all
  <2>4. /\ t \in Tables(made) /\ t.scope = scope /\ t.sessions = all /\ t.primary = c /\ t.binding = b
    BY <1>1, <1>4, <2>1, <2>2 DEF Tables
  <2>5. ASSUME ~declared PROVE scope = "channel" /\ OneSession(t)
    <3>1. scope = "channel" /\ Scoped(d) /\ d.scope = "channel" /\ all = d.sessions
      BY <1>6, <2>5 DEF ScopeAfterStart, TablesAreScoped, Scoped, Scopes, all
    <3>2. OneSession(d)
      BY <3>1 DEF Scoped
    <3>3. Candidates(d) \subseteq {d.primary} /\ (Candidates(d) = {} => d.sessions = {})
      BY <1>1, <3>2, OneCandidate
    <3>4. Candidates(d) # {} => c = d.primary
      BY <2>5, <3>3 DEF c, Canonical
    <3>5. all \subseteq {c}
      BY <3>1, <3>2, <3>3, <3>4 DEF OneSession
    <3> QED
      BY <2>3, <2>4, <3>1, <3>5 DEF OneSession
  <2> QED
    BY <2>4, <2>5 DEF t
<1> QED
  BY <1>5, <1>6

LEMMA StartProcessKept ==
    ASSUME SessionIInv, NEW scope \in Scopes, StartProcess(scope)
    PROVE  SessionIInv'
<1> USE SessionNames
<1>1. /\ koeUp /\ (scope = configScope \/ (scope = "thread" /\ ~declared)) /\ configScope' = scope
      /\ koeUp' = Loads(savedTables, scope)
      /\ tables' = (IF koeUp' THEN Restored(savedTables, scope) ELSE savedTables)
      /\ slot' = [k \in Slots |-> Idle]
      /\ UNCHANGED <<declared, savedTables, made, ran, carried>>
  BY DEF StartProcess
<1>2. koeUp' \/ (declared /\ savedTables.scope = "thread")
  BY <1>1, FileLoads
<1>3. koeUp' \in BOOLEAN
  BY <1>1 DEF Loads
<1> DEFINE t == Restored(savedTables, scope)
<1>4. /\ t \in Tables(made)
      /\ ~declared /\ scope = "channel" => t.scope = "channel" /\ OneSession(t)
      /\ ~declared /\ scope = "thread" => t.scope = "thread" /\ OneRootEach(t) /\ OwnRoot(t)
  BY <1>1, RestoredKept
<1>5. tables' \in Tables(made) /\ (koeUp' => tables' = t)
  BY <1>1, <1>4 DEF SessionIInv, SessionTypes
<1> HIDE DEF t
<1>6. \A k \in Slots : slot'[k] = Idle
  BY <1>1
<1>7. Idle \in Turns /\ Idle.step = "off" /\ Idle.kind = "human"
  BY DEF Idle, Turns, TurnSteps, Kinds
<1>8. slot' \in [Slots -> Turns]
  BY <1>1, <1>7
<1>9. SessionTypes'
  BY <1>1, <1>3, <1>5, <1>8 DEF SessionIInv, SessionTypes
<1>10. LeaseIsHeld'
  BY <1>6, <1>7 DEF LeaseIsHeld
<1>11. TurnsKnowTheirSession'
  BY <1>6, IdleKnows DEF TurnsKnowTheirSession
<1>12. ASSUME ~declared PROVE Scoped(tables)' /\ Scoped(savedTables)' /\ tables'.scope = scope
  <2>1. koeUp' /\ Scoped(savedTables)
    BY <1>2, <1>12 DEF SessionIInv, TablesAreScoped
  <2>2. tables' = t
    BY <1>5, <2>1
  <2>3. t.scope = scope /\ (scope = "channel" => OneSession(t))
        /\ (scope = "thread" => OneRootEach(t) /\ OwnRoot(t))
    BY <1>4, <1>12 DEF Scopes
  <2>4. OwnRoot(t) => OwnRoot(tables)'
    BY <1>1, <2>2 DEF OwnRoot
  <2>5. Scoped(tables)'
    BY <1>1, <2>2, <2>3, <2>4 DEF Scoped
  <2>6. OwnRoot(savedTables) => OwnRoot(savedTables)'
    BY <1>1 DEF OwnRoot
  <2>7. Scoped(savedTables)'
    BY <1>1, <2>1, <2>6 DEF Scoped, OneSession, OneRootEach
  <2> QED
    BY <2>2, <2>3, <2>5, <2>7
<1>13. TablesAreScoped'
  BY <1>1, <1>12 DEF TablesAreScoped
<1>14. ResultReachesUnlessReplaced' /\ StateLoadsUnlessFellBack'
  BY <1>1, <1>2 DEF SessionIInv, ResultReachesUnlessReplaced, StateLoadsUnlessFellBack
<1> QED
  BY <1>9, <1>10, <1>11, <1>13, <1>14 DEF SessionIInv

LEMMA SessionHoldsAtFirst == SessionInit => SessionIInv
<1> USE SessionNames
<1> SUFFICES ASSUME SessionInit PROVE SessionIInv
  OBVIOUS
<1>1. PICK old \in SUBSET Roots :
         /\ old # {} => declared
         /\ tables = [scope |-> configScope,
                      sessions |-> IF declared THEN {Declared} ELSE {},
                      primary |-> IF declared THEN Declared ELSE NoSession,
                      binding |-> [r \in Roots |-> IF r \in old THEN Declared ELSE NoSession]]
  BY DEF SessionInit
<1> DEFINE s == IF declared THEN {Declared} ELSE {}
           p == IF declared THEN Declared ELSE NoSession
           b == [r \in Roots |-> IF r \in old THEN Declared ELSE NoSession]
<1>2. made = (IF declared THEN 1 ELSE 0) /\ configScope \in Scopes /\ (declared => configScope = "channel")
      /\ declared \in BOOLEAN /\ koeUp = TRUE /\ ran = {} /\ carried = {} /\ savedTables = tables
      /\ slot = [k \in Slots |-> Idle]
  BY DEF SessionInit
<1>3. s \in SUBSET (1..made) /\ p \in 0..made
  BY <1>2
<1>4. b \in [Roots -> 0..made]
  BY <1>1, <1>2
<1>5. ~declared => s = {} /\ \A r \in Roots : b[r] = NoSession
  BY <1>1
<1> HIDE DEF s, p, b
<1>6. /\ tables.scope = configScope /\ tables.sessions = s /\ tables.primary = p /\ tables.binding = b
      /\ tables \in Tables(made)
  BY <1>1, <1>2, <1>3, <1>4 DEF Tables, s, p, b
<1>7. Idle \in Turns /\ Idle.step = "off" /\ Idle.kind = "human"
  BY DEF Idle, Turns, TurnSteps, Kinds
<1>8. slot \in [Slots -> Turns] /\ \A k \in Slots : slot[k] = Idle
  BY <1>2, <1>7
<1>9. SessionTypes
  BY <1>2, <1>6, <1>8 DEF SessionTypes
<1>10. LeaseIsHeld /\ TurnsKnowTheirSession
  BY <1>7, <1>8 DEF LeaseIsHeld, TurnsKnowTheirSession, IsFenced, KnowsItsSession
<1>11. TablesAreScoped
  BY <1>2, <1>5, <1>6 DEF TablesAreScoped, Scoped, OneSession, OneRootEach, OwnRoot
<1> QED
  BY <1>2, <1>9, <1>10, <1>11 DEF SessionIInv, ResultReachesUnlessReplaced, StateLoadsUnlessFellBack

LEMMA SessionIsKept == SessionIInv /\ [SessionNext]_sessionVars => SessionIInv'
<1> SUFFICES ASSUME SessionIInv, [SessionNext]_sessionVars PROVE SessionIInv'
  OBVIOUS
<1>1. CASE UNCHANGED sessionVars
  <2> USE <1>1 DEF SessionIInv, sessionVars
  <2>1. SessionTypes' /\ LeaseIsHeld'
    BY DEF SessionTypes, LeaseIsHeld
  <2>2. TurnsKnowTheirSession'
    BY DEF TurnsKnowTheirSession, IsFenced, KnowsItsSession, Unused
  <2>3. TablesAreScoped'
    BY DEF TablesAreScoped, Scoped, OwnRoot
  <2>4. ResultReachesUnlessReplaced' /\ StateLoadsUnlessFellBack'
    BY DEF ResultReachesUnlessReplaced, StateLoadsUnlessFellBack
  <2> QED
    BY <2>1, <2>2, <2>3, <2>4
<1>2. CASE SessionNext
  BY <1>2, RequestTurnKept, RefuseTurnKept, EnsureThreadKept, EnsureChannelKept, EnsureVisitKept,
     SessionUnavailableKept, SessionNotCreatedKept, EndTurnKept, SavesKept, SessionCreatedKept,
     SessionResumedKept, ReplaceMissingThreadKept, BeginTurnKept, BindVisitKept, StartProcessKept
     DEF SessionNext
<1> QED
  BY <1>1, <1>2

LEMMA SessionsAgree == SessionSpec => []SessionIInv
  BY SessionHoldsAtFirst, SessionIsKept, PTL DEF SessionSpec

(* For any roots, turns and numbers of sessions and starts: the result of  *)
(* a delegation is given to the session that asked, unless that was        *)
(* declared and its thread is gone (the fence of #handleSlackBoundTurn).   *)
THEOREM ResultsReachTheirSession == SessionSpec => []ResultReachesUnlessReplaced
  BY SessionsAgree, PTL DEF SessionIInv

(* ... what the process saves can be loaded again with any scope the       *)
(* configuration may change to, unless the Koe fell back from a declared   *)
(* session (createRegistry, SessionRegistry.hydrate).                      *)
THEOREM WhatIsSavedCanStart == SessionSpec => []StateLoadsUnlessFellBack
  BY SessionsAgree, PTL DEF SessionIInv

(* ... and with thread scope two roots never share a session, not even one *)
(* a visit made or one from before the change of scope.                    *)
THEOREM ThreadsAreIsolated == SessionSpec => []ThreadTurnsAreIsolated
<1>1. SessionIInv => ThreadTurnsAreIsolated
  <2> SUFFICES ASSUME SessionIInv, configScope = "thread", NEW k \in Slots, slot[k].step = "stream",
                      slot[k].root # NoRoot, NEW q \in Roots, <<q, slot[k].session>> \in ran
               PROVE  q = slot[k].root
    BY DEF ThreadTurnsAreIsolated
  <2>1. ~declared
    BY DEF SessionIInv, SessionTypes
  <2>2. tables.scope = "thread" /\ OwnRoot(tables)
    BY <2>1 DEF SessionIInv, TablesAreScoped, Scoped
  <2>3. slot[k].root \in Roots
    BY DEF SessionIInv, SessionTypes, Turns
  <2>4. tables.binding[slot[k].root] = slot[k].session
    BY <2>1, <2>2 DEF SessionIInv, TurnsKnowTheirSession, KnowsItsSession
  <2> QED
    BY <2>2, <2>3, <2>4 DEF OwnRoot
<1> QED
  BY <1>1, SessionsAgree, PTL

(***************************************************************************)
(* CodexTurns. What sendMessage knows of its turn is right, so a turn that *)
(* may still run at the app-server is watched.                             *)
(***************************************************************************)

OwnTurns == TurnIds \ {Foreign}
SendSteps == {"idle", "prepare", "start", "stream", "fail", "leave", "finish"}
Resolved == {"none", "over"}

CodexTypes ==
    /\ sendStep \in SendSteps /\ sendNo \in 0..MaxSends
    /\ ownedTurn \in {NoTurn, sendNo} /\ completing \in {NoTurn, sendNo}
    /\ activeTurn \in OwnTurns \cup {NoTurn}
    /\ kept \subseteq TurnIds \X {"item", "completed"}
    /\ serverTurn \in [TurnIds -> {"none", "asked", "active", "over"}]

(* sendMessage knows its own turn only, while it is under way; unless it   *)
(* was claimed late no other is active.                                    *)
KnownTurns ==
    /\ sendStep # "idle" => sendNo > 0
    /\ sendStep \in {"idle", "prepare"} => ownedTurn = NoTurn /\ completing = NoTurn
    /\ sendStep = "stream" => ownedTurn = sendNo
    /\ completing # NoTurn => ownedTurn = sendNo
    /\ ~lateClaim => activeTurn \in {NoTurn, ownedTurn}
    /\ ~lateClaim /\ sendStep = "finish" => activeTurn = NoTurn
    /\ activeTurn # NoTurn => activeTurn <= sendNo
    /\ turnStart # "none" => sendStep = "start"

(* What is over at the app-server when it is taken to be.                  *)
EndsAreSeen ==
    /\ completing # NoTurn => serverTurn[sendNo] = "over"
    /\ \A n \in kept : n[2] = "completed" => serverTurn[n[1]] = "over"
    /\ turnStart = "ok" \/ sendStep \in {"stream", "leave"} => serverTurn[sendNo] \in {"active", "over"}
    /\ sendStep \in {"start", "stream"} /\ ended = "terminal" => serverTurn[sendNo] = "over"
    /\ sendStep = "stream" /\ ended = "terminal" /\ ~lateClaim => activeTurn = NoTurn
    /\ sendStep = "start" /\ ended = "terminal" => ownedTurn = sendNo
    /\ sendStep \in {"start", "stream"} => ended # "failed"
    /\ transportFailed => \A t \in OwnTurns : serverTurn[t] \in Resolved

(* A turn that runs is the one of the message under way.                   *)
RunningIsWatched ==
    /\ \A t \in OwnTurns : t > sendNo => serverTurn[t] = "none"
    /\ sendStep = "prepare" => serverTurn[sendNo] = "none"
    /\ ~lateClaim => \A t \in OwnTurns : t < sendNo \/ sendStep \in {"idle", "finish"} => serverTurn[t] \in Resolved

CodexIInv ==
    /\ CodexTypes /\ KnownTurns /\ EndsAreSeen /\ RunningIsWatched
    /\ Foreign \notin touched

LEMMA NoTurnIsNone == MaxSends \in Nat /\ NoTurn \notin TurnIds /\ NoTurn # Foreign /\ Foreign = 0
  BY SendBoundsAssumption DEF NoTurn, TurnIds, Foreign

LEMMA SendMessageKept ==
    ASSUME CodexIInv, SendMessage
    PROVE  CodexIInv'
<1> USE NoTurnIsNone DEF CodexIInv
<1>1. CodexTypes'
  BY DEF SendMessage, CodexTypes, KnownTurns, SendSteps
<1>2. KnownTurns'
  BY DEF SendMessage, CodexTypes, KnownTurns, TurnIds, OwnTurns
<1>3. EndsAreSeen'
  BY DEF SendMessage, KnownTurns, EndsAreSeen
<1>4. RunningIsWatched'
  BY DEF SendMessage, CodexTypes, RunningIsWatched, TurnIds, OwnTurns
<1>5. (Foreign \notin touched)'
  BY DEF SendMessage
<1> QED
  BY <1>1, <1>2, <1>3, <1>4, <1>5

LEMMA StartCodexTurnKept ==
    ASSUME CodexIInv, StartCodexTurn
    PROVE  CodexIInv'
<1> USE NoTurnIsNone DEF CodexIInv
<1>1. CodexTypes'
  BY DEF StartCodexTurn, CodexTypes, SendSteps
<1>2. KnownTurns'
  BY DEF StartCodexTurn, KnownTurns
<1>3. EndsAreSeen'
  BY DEF StartCodexTurn, EndsAreSeen
<1>4. RunningIsWatched'
  BY DEF StartCodexTurn, CodexTypes, RunningIsWatched
<1>5. (Foreign \notin touched)'
  BY DEF StartCodexTurn
<1> QED
  BY <1>1, <1>2, <1>3, <1>4, <1>5

LEMMA PrepareFailsKept ==
    ASSUME CodexIInv, PrepareFails
    PROVE  CodexIInv'
<1> USE NoTurnIsNone DEF CodexIInv
<1>1. CodexTypes'
  BY DEF PrepareFails, CodexTypes, SendSteps
<1>2. KnownTurns'
  BY DEF PrepareFails, KnownTurns
<1>3. EndsAreSeen'
  BY DEF PrepareFails, EndsAreSeen
<1>4. RunningIsWatched'
  BY DEF PrepareFails, CodexTypes, RunningIsWatched, TurnIds, OwnTurns, Resolved
<1>5. (Foreign \notin touched)'
  BY DEF PrepareFails
<1> QED
  BY <1>1, <1>2, <1>3, <1>4, <1>5

LEMMA StreamEndsKept ==
    ASSUME CodexIInv, StreamEnds
    PROVE  CodexIInv'
<1> USE NoTurnIsNone DEF CodexIInv
<1>1. CodexTypes'
  BY DEF StreamEnds, CodexTypes, SendSteps
<1>2. KnownTurns'
  BY DEF StreamEnds, KnownTurns, EndsAreSeen
<1>3. EndsAreSeen'
  BY DEF StreamEnds, EndsAreSeen
<1>4. RunningIsWatched'
  BY DEF StreamEnds, CodexTypes, EndsAreSeen, RunningIsWatched, TurnIds, OwnTurns, Resolved
<1>5. (Foreign \notin touched)'
  BY DEF StreamEnds
<1> QED
  BY <1>1, <1>2, <1>3, <1>4, <1>5

LEMMA QueueFailsKept ==
    ASSUME CodexIInv, QueueFails
    PROVE  CodexIInv'
<1> USE NoTurnIsNone DEF CodexIInv
<1>1. CodexTypes'
  BY DEF QueueFails, CodexTypes
<1>2. KnownTurns'
  BY DEF QueueFails, KnownTurns
<1>3. EndsAreSeen'
  BY DEF QueueFails, EndsAreSeen
<1>4. RunningIsWatched'
  BY DEF QueueFails, RunningIsWatched
<1>5. (Foreign \notin touched)'
  BY DEF QueueFails
<1> QED
  BY <1>1, <1>2, <1>3, <1>4, <1>5

LEMMA TurnStartFailedKept ==
    ASSUME CodexIInv, TurnStartFailed
    PROVE  CodexIInv'
<1> USE NoTurnIsNone DEF CodexIInv
<1>1. CodexTypes'
  BY DEF TurnStartFailed, CodexTypes, SendSteps
<1>2. KnownTurns'
  BY DEF TurnStartFailed, KnownTurns
<1>3. EndsAreSeen'
  BY DEF TurnStartFailed, EndsAreSeen
<1>4. RunningIsWatched'
  BY DEF TurnStartFailed, RunningIsWatched
<1>5. (Foreign \notin touched)'
  BY DEF TurnStartFailed
<1> QED
  BY <1>1, <1>2, <1>3, <1>4, <1>5

LEMMA CompleteTurnKept ==
    ASSUME CodexIInv, CompleteTurn
    PROVE  CodexIInv'
<1> USE NoTurnIsNone DEF CodexIInv
<1>1. CodexTypes'
  BY DEF CompleteTurn, CodexTypes
<1>2. KnownTurns'
  BY DEF CompleteTurn, KnownTurns
<1>3. EndsAreSeen'
  BY DEF CompleteTurn, KnownTurns, EndsAreSeen
<1>4. RunningIsWatched'
  BY DEF CompleteTurn, RunningIsWatched
<1>5. (Foreign \notin touched)'
  BY DEF CompleteTurn
<1> QED
  BY <1>1, <1>2, <1>3, <1>4, <1>5

LEMMA InterruptKnownKept ==
    ASSUME CodexIInv, InterruptKnown
    PROVE  CodexIInv'
<1> USE NoTurnIsNone DEF CodexIInv
<1>1. CodexTypes'
  BY DEF InterruptKnown, Stopped, CodexTypes, SendSteps
<1>2. KnownTurns'
  BY DEF InterruptKnown, Stopped, KnownTurns
<1>3. EndsAreSeen'
  BY DEF InterruptKnown, Stopped, EndsAreSeen
<1>4. RunningIsWatched'
  BY DEF InterruptKnown, Stopped, CodexTypes, KnownTurns, RunningIsWatched, TurnIds, OwnTurns, Resolved
<1>5. (Foreign \notin touched)'
  BY DEF InterruptKnown, Stopped, CodexTypes, OwnTurns
<1> QED
  BY <1>1, <1>2, <1>3, <1>4, <1>5

LEMMA ThreadIsIdleKept ==
    ASSUME CodexIInv, ThreadIsIdle
    PROVE  CodexIInv'
<1> USE NoTurnIsNone DEF CodexIInv
<1>1. CodexTypes'
  BY DEF ThreadIsIdle, Stopped, CodexTypes, SendSteps
<1>2. KnownTurns'
  BY DEF ThreadIsIdle, Stopped, KnownTurns
<1>3. EndsAreSeen'
  BY DEF ThreadIsIdle, Stopped, EndsAreSeen
<1>4. RunningIsWatched'
  BY DEF ThreadIsIdle, Stopped, CodexTypes, EndsAreSeen, RunningIsWatched, TurnIds, OwnTurns, Resolved,
     ThreadActive
<1>5. (Foreign \notin touched)'
  BY DEF ThreadIsIdle, Stopped
<1> QED
  BY <1>1, <1>2, <1>3, <1>4, <1>5

LEMMA StopAttemptFailsKept ==
    ASSUME CodexIInv, StopAttemptFails
    PROVE  CodexIInv'
<1> USE NoTurnIsNone DEF CodexIInv
<1>1. CodexTypes'
  BY DEF StopAttemptFails, FailActiveStreams, CodexTypes, SendSteps
<1>2. KnownTurns'
  BY DEF StopAttemptFails, FailActiveStreams, KnownTurns
<1>3. EndsAreSeen'
  BY DEF StopAttemptFails, FailActiveStreams, CodexTypes, EndsAreSeen, TurnIds, OwnTurns, Resolved
<1>4. RunningIsWatched'
  BY DEF StopAttemptFails, FailActiveStreams, RunningIsWatched, OwnTurns, Resolved
<1>5. (Foreign \notin touched)'
  BY DEF StopAttemptFails, FailActiveStreams
<1> QED
  BY <1>1, <1>2, <1>3, <1>4, <1>5

LEMMA FinishSendKept ==
    ASSUME CodexIInv, FinishSend
    PROVE  CodexIInv'
<1> USE NoTurnIsNone DEF CodexIInv
<1>1. CodexTypes'
  BY DEF FinishSend, CodexTypes, SendSteps
<1>2. KnownTurns'
  BY DEF FinishSend, KnownTurns
<1>3. EndsAreSeen'
  BY DEF FinishSend, EndsAreSeen
<1>4. RunningIsWatched'
  BY DEF FinishSend, RunningIsWatched
<1>5. (Foreign \notin touched)'
  BY DEF FinishSend
<1> QED
  BY <1>1, <1>2, <1>3, <1>4, <1>5

LEMMA WatchTurnKept ==
    ASSUME CodexIInv, WatchTurn
    PROVE  CodexIInv'
<1> USE NoTurnIsNone DEF CodexIInv
<1>1. CodexTypes'
  BY DEF WatchTurn, Watching, CodexTypes
<1>2. KnownTurns'
  BY DEF WatchTurn, Watching, KnownTurns
<1>3. EndsAreSeen'
  BY DEF WatchTurn, Watching, CodexTypes, EndsAreSeen
<1>4. RunningIsWatched'
  BY DEF WatchTurn, Watching, RunningIsWatched
<1>5. (Foreign \notin touched)'
  BY DEF WatchTurn, Watching
<1> QED
  BY <1>1, <1>2, <1>3, <1>4, <1>5

LEMMA WatchFailsKept ==
    ASSUME CodexIInv, WatchFails
    PROVE  CodexIInv'
<1> USE NoTurnIsNone DEF CodexIInv
<1>1. CodexTypes'
  BY DEF WatchFails, Watching, CodexTypes
<1>2. KnownTurns'
  BY DEF WatchFails, Watching, KnownTurns
<1>3. EndsAreSeen'
  BY DEF WatchFails, Watching, EndsAreSeen
<1>4. RunningIsWatched'
  BY DEF WatchFails, Watching, RunningIsWatched
<1>5. (Foreign \notin touched)'
  BY DEF WatchFails, Watching
<1> QED
  BY <1>1, <1>2, <1>3, <1>4, <1>5

LEMMA WatchGivesUpKept ==
    ASSUME CodexIInv, WatchGivesUp
    PROVE  CodexIInv'
<1> USE NoTurnIsNone DEF CodexIInv
<1>1. CodexTypes'
  BY DEF WatchGivesUp, Watching, FailActiveStreams, CodexTypes
<1>2. KnownTurns'
  BY DEF WatchGivesUp, Watching, FailActiveStreams, KnownTurns
<1>3. EndsAreSeen'
  BY DEF WatchGivesUp, Watching, FailActiveStreams, CodexTypes, KnownTurns, EndsAreSeen, TurnIds,
     OwnTurns, Resolved
<1>4. RunningIsWatched'
  BY DEF WatchGivesUp, Watching, FailActiveStreams, CodexTypes, RunningIsWatched, OwnTurns, Resolved
<1>5. (Foreign \notin touched)'
  BY DEF WatchGivesUp, Watching, FailActiveStreams, KnownTurns
<1> QED
  BY <1>1, <1>2, <1>3, <1>4, <1>5

LEMMA TransportClosesKept ==
    ASSUME CodexIInv, TransportCloses
    PROVE  CodexIInv'
<1> USE NoTurnIsNone DEF CodexIInv
<1>1. CodexTypes'
  BY DEF TransportCloses, FailActiveStreams, CodexTypes
<1>2. KnownTurns'
  BY DEF TransportCloses, FailActiveStreams, KnownTurns
<1>3. EndsAreSeen'
  BY DEF TransportCloses, FailActiveStreams, CodexTypes, EndsAreSeen, TurnIds, OwnTurns, Resolved
<1>4. RunningIsWatched'
  BY DEF TransportCloses, FailActiveStreams, CodexTypes, RunningIsWatched, TurnIds, OwnTurns, Resolved
<1>5. (Foreign \notin touched)'
  BY DEF TransportCloses, FailActiveStreams
<1> QED
  BY <1>1, <1>2, <1>3, <1>4, <1>5

LEMMA InterruptKept ==
    ASSUME CodexIInv, Interrupt
    PROVE  CodexIInv'
<1> USE NoTurnIsNone DEF CodexIInv
<1>1. CodexTypes'
  BY DEF Interrupt, CodexTypes, adapterVars
<1>2. KnownTurns'
  BY DEF Interrupt, KnownTurns, adapterVars
<1>3. EndsAreSeen'
  BY DEF Interrupt, EndsAreSeen, adapterVars
<1>4. RunningIsWatched'
  BY DEF Interrupt, CodexTypes, KnownTurns, RunningIsWatched, adapterVars
<1>5. (Foreign \notin touched)'
  BY DEF Interrupt, CodexTypes, OwnTurns
<1> QED
  BY <1>1, <1>2, <1>3, <1>4, <1>5

LEMMA ServerStartsTurnKept ==
    ASSUME CodexIInv, ServerStartsTurn
    PROVE  CodexIInv'
<1> USE NoTurnIsNone DEF CodexIInv
<1>1. CodexTypes'
  BY DEF ServerStartsTurn, CodexTypes, adapterVars
<1>2. KnownTurns'
  BY DEF ServerStartsTurn, KnownTurns, adapterVars
<1>3. EndsAreSeen'
  BY DEF ServerStartsTurn, EndsAreSeen, Resolved, adapterVars
<1>4. RunningIsWatched'
  BY DEF ServerStartsTurn, RunningIsWatched, Resolved, adapterVars
<1>5. (Foreign \notin touched)'
  BY DEF ServerStartsTurn
<1> QED
  BY <1>1, <1>2, <1>3, <1>4, <1>5

LEMMA ServerAnswersStartKept ==
    ASSUME CodexIInv, ServerAnswersStart
    PROVE  CodexIInv'
<1> USE NoTurnIsNone DEF CodexIInv
<1>1. CodexTypes'
  BY DEF ServerAnswersStart, CodexTypes
<1>2. KnownTurns'
  BY DEF ServerAnswersStart, KnownTurns
<1>3. EndsAreSeen'
  BY DEF ServerAnswersStart, CodexTypes, EndsAreSeen, OwnTurns, Resolved
<1>4. RunningIsWatched'
  BY DEF ServerAnswersStart, CodexTypes, KnownTurns, RunningIsWatched, OwnTurns
<1>5. (Foreign \notin touched)'
  BY DEF ServerAnswersStart
<1> QED
  BY <1>1, <1>2, <1>3, <1>4, <1>5

LEMMA CodexAppStartsTurnKept ==
    ASSUME CodexIInv, CodexAppStartsTurn
    PROVE  CodexIInv'
<1> USE NoTurnIsNone DEF CodexIInv
<1>1. CodexTypes'
  BY DEF CodexAppStartsTurn, CodexTypes, adapterVars
<1>2. KnownTurns'
  BY DEF CodexAppStartsTurn, KnownTurns, adapterVars
<1>3. EndsAreSeen'
  BY DEF CodexAppStartsTurn, EndsAreSeen, adapterVars
<1>4. RunningIsWatched'
  BY DEF CodexAppStartsTurn, KnownTurns, RunningIsWatched, OwnTurns, adapterVars
<1>5. (Foreign \notin touched)'
  BY DEF CodexAppStartsTurn
<1> QED
  BY <1>1, <1>2, <1>3, <1>4, <1>5

LEMMA ServerEndsTurnKept ==
    ASSUME CodexIInv, NEW t \in TurnIds, ServerEndsTurn(t)
    PROVE  CodexIInv'
<1> USE NoTurnIsNone DEF CodexIInv
<1>1. CodexTypes'
  BY DEF ServerEndsTurn, CodexTypes, adapterVars
<1>2. KnownTurns'
  BY DEF ServerEndsTurn, KnownTurns, adapterVars
<1>3. EndsAreSeen'
  BY DEF ServerEndsTurn, EndsAreSeen, Resolved, adapterVars
<1>4. RunningIsWatched'
  BY DEF ServerEndsTurn, RunningIsWatched, Resolved, adapterVars
<1>5. (Foreign \notin touched)'
  BY DEF ServerEndsTurn
<1> QED
  BY <1>1, <1>2, <1>3, <1>4, <1>5

LEMMA HandleServerRequestKept ==
    ASSUME CodexIInv, NEW c \in Calls, HandleServerRequest(c)
    PROVE  CodexIInv'
<1> USE NoTurnIsNone DEF CodexIInv
<1>1. CodexTypes'
  BY DEF HandleServerRequest, CodexTypes, adapterVars
<1>2. KnownTurns'
  BY DEF HandleServerRequest, KnownTurns, adapterVars
<1>3. EndsAreSeen'
  BY DEF HandleServerRequest, EndsAreSeen, adapterVars
<1>4. RunningIsWatched'
  BY DEF HandleServerRequest, RunningIsWatched, adapterVars
<1>5. (Foreign \notin touched)'
  BY DEF HandleServerRequest
<1> QED
  BY <1>1, <1>2, <1>3, <1>4, <1>5

LEMMA SettleCallKept ==
    ASSUME CodexIInv, NEW c \in Calls, SettleCall(c)
    PROVE  CodexIInv'
<1> USE NoTurnIsNone DEF CodexIInv
<1>1. CodexTypes'
  BY DEF SettleCall, CodexTypes, adapterVars
<1>2. KnownTurns'
  BY DEF SettleCall, KnownTurns, adapterVars
<1>3. EndsAreSeen'
  BY DEF SettleCall, EndsAreSeen, adapterVars
<1>4. RunningIsWatched'
  BY DEF SettleCall, RunningIsWatched, adapterVars
<1>5. (Foreign \notin touched)'
  BY DEF SettleCall
<1> QED
  BY <1>1, <1>2, <1>3, <1>4, <1>5

(* What Handle may change.                                                 *)
LEMMA HandleChanges ==
    ASSUME NEW notes, NEW t, Handle(notes, t)
    PROVE  /\ touched' \subseteq touched \cup {t}
           /\ completing' = completing \/ (completing' = t /\ <<t, "completed">> \in notes /\ ended = "no")
  BY DEF Handle

LEMMA TurnStartedKept ==
    ASSUME CodexIInv, TurnStarted
    PROVE  CodexIInv'
<1> USE NoTurnIsNone DEF CodexIInv
<1>1. /\ touched' \subseteq touched \cup {sendNo}
      /\ completing' = completing \/ (completing' = sendNo /\ <<sendNo, "completed">> \in kept /\ ended = "no")
      /\ kept' \subseteq kept
  BY HandleChanges DEF TurnStarted
<1>2. sendStep = "start" /\ turnStart = "ok" /\ sendStep' = "stream" /\ turnStart' = "none"
        /\ ownedTurn' = sendNo /\ activeTurn' = sendNo /\ lateClaim' = (lateClaim \/ ended = "terminal")
        /\ UNCHANGED <<sendNo, ended, runningSession, eventQueue, transportFailed, serverTurn>>
  BY DEF TurnStarted
<1>3. serverTurn[sendNo] \in {"active", "over"} /\ (completing' # NoTurn => serverTurn[sendNo] = "over")
  <2>1. ASSUME <<sendNo, "completed">> \in kept PROVE serverTurn[sendNo] = "over"
    BY <2>1 DEF EndsAreSeen
  <2> QED
    BY <1>1, <1>2, <2>1 DEF EndsAreSeen
<1>4. CodexTypes'
  BY <1>1, <1>2 DEF CodexTypes, KnownTurns, SendSteps, OwnTurns, TurnIds
<1>5. KnownTurns'
  BY <1>1, <1>2 DEF CodexTypes, KnownTurns
<1>6. EndsAreSeen'
  BY <1>1, <1>2, <1>3 DEF CodexTypes, EndsAreSeen
<1>7. RunningIsWatched'
  BY <1>1, <1>2 DEF RunningIsWatched
<1>8. Foreign \notin touched'
  BY <1>1, <1>2 DEF KnownTurns, CodexTypes
<1> QED
  BY <1>4, <1>5, <1>6, <1>7, <1>8

LEMMA ProcessNotificationKept ==
    ASSUME CodexIInv, NEW t \in TurnIds, NEW what \in {"item", "completed"}, NEW mine \in BOOLEAN,
           ProcessNotification(t, what, mine)
    PROVE  CodexIInv'
<1> USE NoTurnIsNone DEF CodexIInv
<1> DEFINE n == <<t, what>>
<1>1. /\ what = "completed" => serverTurn[t] = "over"
      /\ mine => t = sendNo
      /\ sendStep \in {"start", "stream", "fail", "leave"} /\ ~transportFailed
      /\ UNCHANGED <<sendStep, sendNo, turnStart, ended, transportFailed, serverTurn, lateClaim>>
  BY DEF ProcessNotification
<1>2. \/ /\ ownedTurn = NoTurn /\ ownedTurn' = sendNo /\ activeTurn' = sendNo /\ kept' = {}
         /\ t = sendNo /\ Handle(kept \cup {n}, sendNo)
      \/ /\ kept' = kept \cup {n} /\ UNCHANGED <<ownedTurn, activeTurn, completing, touched>>
      \/ /\ ownedTurn # NoTurn /\ UNCHANGED <<ownedTurn, activeTurn, kept>>
         /\ t = ownedTurn /\ Handle({n}, t)
      \/ UNCHANGED <<ownedTurn, activeTurn, kept, completing, touched>>
  BY <1>1, Zenon DEF ProcessNotification
<1>3. n \in TurnIds \X {"item", "completed"} /\ n[1] = t /\ n[2] = what
  OBVIOUS
<1>4. sendNo > 0 /\ sendNo \in OwnTurns
  BY <1>1 DEF KnownTurns, CodexTypes, OwnTurns, TurnIds, Foreign
<1>5. CASE /\ ownedTurn = NoTurn /\ ownedTurn' = sendNo /\ activeTurn' = sendNo /\ kept' = {}
           /\ t = sendNo /\ Handle(kept \cup {n}, sendNo)
  <2>1. /\ touched' \subseteq touched \cup {sendNo}
        /\ completing' = completing \/ (completing' = sendNo /\ <<sendNo, "completed">> \in kept \cup {n})
    BY <1>5, HandleChanges
  <2>2. completing' # NoTurn => serverTurn[sendNo] = "over"
    <3>1. ASSUME <<sendNo, "completed">> \in kept PROVE serverTurn[sendNo] = "over"
      BY <3>1 DEF EndsAreSeen
    <3>2. ASSUME <<sendNo, "completed">> = n PROVE serverTurn[sendNo] = "over"
      BY <3>2, <1>1, <1>3
    <3> QED
      BY <2>1, <3>1, <3>2 DEF EndsAreSeen
  <2>3. ~lateClaim => sendStep # "finish" /\ ~(sendStep = "stream" /\ ended = "terminal")
    BY <1>1, <1>5 DEF KnownTurns, CodexTypes
  <2>4. CodexTypes' /\ KnownTurns'
    BY <1>1, <1>4, <1>5, <2>1, <2>3 DEF CodexTypes, KnownTurns
  <2>5. EndsAreSeen'
    BY <1>1, <1>5, <2>2, <2>3 DEF EndsAreSeen, CodexTypes
  <2>6. RunningIsWatched' /\ Foreign \notin touched'
    BY <1>1, <1>4, <2>1 DEF RunningIsWatched, OwnTurns
  <2> QED
    BY <2>4, <2>5, <2>6
<1>6. CASE kept' = kept \cup {n} /\ UNCHANGED <<ownedTurn, activeTurn, completing, touched>>
  <2> HIDE DEF n
  <2>1. CodexTypes' /\ KnownTurns' /\ RunningIsWatched'
    BY <1>1, <1>3, <1>6 DEF CodexTypes, KnownTurns, RunningIsWatched
  <2>2. EndsAreSeen'
    BY <1>1, <1>3, <1>6 DEF EndsAreSeen
  <2> QED
    BY <1>6, <2>1, <2>2
<1>7. CASE ownedTurn # NoTurn /\ UNCHANGED <<ownedTurn, activeTurn, kept>> /\ t = ownedTurn /\ Handle({n}, t)
  <2>1. t = sendNo
    BY <1>7 DEF CodexTypes
  <2>2. touched' \subseteq touched \cup {sendNo} /\ completing' \in {completing, sendNo}
           /\ (completing' # NoTurn => serverTurn[sendNo] = "over")
    <3>1. touched' \subseteq touched \cup {t}
             /\ (completing' = completing \/ (completing' = t /\ <<t, "completed">> \in {n}))
      BY <1>7, HandleChanges
    <3>2. <<t, "completed">> \in {n} => what = "completed"
      BY <1>3
    <3> QED
      BY <1>1, <2>1, <3>1, <3>2 DEF EndsAreSeen
  <2>3. CodexTypes' /\ KnownTurns'
    BY <1>1, <1>4, <1>7, <2>1, <2>2 DEF CodexTypes, KnownTurns
  <2>4. EndsAreSeen'
    BY <1>1, <1>7, <2>2 DEF EndsAreSeen
  <2>5. RunningIsWatched' /\ Foreign \notin touched'
    BY <1>1, <1>4, <2>2 DEF RunningIsWatched, OwnTurns
  <2> QED
    BY <2>3, <2>4, <2>5
<1>8. CASE UNCHANGED <<ownedTurn, activeTurn, kept, completing, touched>>
  BY <1>1, <1>8 DEF CodexTypes, KnownTurns, EndsAreSeen, RunningIsWatched
<1> QED
  BY <1>2, <1>5, <1>6, <1>7, <1>8

LEMMA CodexHoldsAtFirst == CodexInit => CodexIInv
<1> SUFFICES ASSUME CodexInit PROVE CodexIInv
  OBVIOUS
<1> USE NoTurnIsNone DEF CodexInit
<1>1. CodexTypes
  BY DEF CodexTypes, OwnTurns, TurnIds, SendSteps
<1>2. KnownTurns
  BY DEF KnownTurns
<1>3. EndsAreSeen
  BY DEF EndsAreSeen
<1>4. RunningIsWatched
  BY DEF RunningIsWatched, OwnTurns, TurnIds, Resolved
<1> QED
  BY <1>1, <1>2, <1>3, <1>4 DEF CodexIInv

LEMMA CodexIsKept == CodexIInv /\ [CodexNext]_codexVars => CodexIInv'
<1> SUFFICES ASSUME CodexIInv, [CodexNext]_codexVars PROVE CodexIInv'
  OBVIOUS
<1>1. CASE UNCHANGED codexVars
  BY <1>1 DEF codexVars, CodexIInv, CodexTypes, KnownTurns, EndsAreSeen, RunningIsWatched
<1>2. CASE Server
  BY <1>2, ServerStartsTurnKept, ServerAnswersStartKept, CodexAppStartsTurnKept, ServerEndsTurnKept DEF
     Server
<1>3. CASE Continue
  BY <1>3, TurnStartedKept, TurnStartFailedKept, CompleteTurnKept, InterruptKnownKept, ThreadIsIdleKept,
     StopAttemptFailsKept, FinishSendKept DEF Continue, StopTurn
<1>4. ASSUME NEW t \in TurnIds, NEW what \in {"item", "completed"}, NEW mine \in BOOLEAN,
             ProcessNotification(t, what, mine)
      PROVE  CodexIInv'
  BY <1>4, ProcessNotificationKept
<1>5. ASSUME NEW c \in Calls, HandleServerRequest(c) \/ SettleCall(c)
      PROVE  CodexIInv'
  BY <1>5, HandleServerRequestKept, SettleCallKept
<1>6. CASE SendMessage \/ StartCodexTurn \/ PrepareFails \/ StreamEnds \/ QueueFails
  BY <1>6, SendMessageKept, StartCodexTurnKept, PrepareFailsKept, StreamEndsKept, QueueFailsKept
<1>7. CASE WatchTurn \/ WatchFails \/ WatchGivesUp \/ TransportCloses \/ Interrupt
  BY <1>7, WatchTurnKept, WatchFailsKept, WatchGivesUpKept, TransportClosesKept, InterruptKept
<1> QED
  BY <1>1, <1>2, <1>3, <1>4, <1>5, <1>6, <1>7 DEF CodexNext

LEMMA TurnsAreWatched == CodexSpec => []CodexIInv
  BY CodexHoldsAtFirst, CodexIsKept, PTL DEF CodexSpec

(* For any number of messages, requests and retries: when sendMessage is   *)
(* over its turn does not run on at the app-server, unless a turn was      *)
(* claimed after it had ended (reconcileAndInterruptAmbiguousTurn, the     *)
(* watchdog, failActiveStreams).                                           *)
THEOREM NoTurnRunsUnwatched == CodexSpec => []NothingLeftRunning
<1>1. CodexIInv => NothingLeftRunning
  BY DEF CodexIInv, RunningIsWatched, NothingLeftRunning, OwnTurns, Resolved
<1> QED
  BY <1>1, TurnsAreWatched, PTL

(* ... and the turns of the Codex app on the same thread are never shown   *)
(* and never interrupted (ownedTurnId, clientUserMessageId).               *)
THEOREM ForeignStaysUntouched == CodexSpec => []ForeignTurnUntouched
<1>1. CodexIInv => ForeignTurnUntouched
  BY DEF CodexIInv, ForeignTurnUntouched
<1> QED
  BY <1>1, TurnsAreWatched, PTL

(***************************************************************************)
(* AppServerClient.                                                        *)
(***************************************************************************)

(* The end of a connection: it begins only for a process that was spawned, *)
(* so nothing starts the process again, and it is done only without one.   *)
EndIsOfSpawned ==
    /\ connection = "none" => ending = "none"
    /\ ending = "done" => child = "gone"
    /\ returned # {} => ending = "done"

LEMMA EndHoldsAtFirst == AppServerInit => EndIsOfSpawned
BY DEF AppServerInit, EndIsOfSpawned

LEMMA EndIsKept == EndIsOfSpawned /\ [AppServerNext]_appServerVars => EndIsOfSpawned'
<1> SUFFICES ASSUME EndIsOfSpawned, [AppServerNext]_appServerVars PROVE EndIsOfSpawned'
    OBVIOUS
<1> USE DEF EndIsOfSpawned
<1>1. CASE UNCHANGED appServerVars
    BY <1>1 DEF appServerVars
<1>2. CASE Spawn
    BY <1>2 DEF Spawn
<1>3. ASSUME NEW r \in Rpcs, MakeRequest(r) \/ RequestTimesOut(r) \/ ServerAnswers(r)
      PROVE EndIsOfSpawned'
    BY <1>3 DEF MakeRequest, RequestTimesOut, ServerAnswers, clientState, childPipes
<1>4. CASE TombstoneExpires \/ HandleLine \/ RespondAndDrain
    BY <1>4 DEF TombstoneExpires, HandleLine, RespondAndDrain, clientState, childPipes
<1>5. CASE ServerAsks \/ ServerExits
    BY <1>5 DEF ServerAsks, ServerExits, clientState
<1>6. CASE HandleTransportEnd
    BY <1>6 DEF HandleTransportEnd, BeginTransportClose
<1>7. CASE Connected
    BY <1>7 DEF Connected, childPipes
<1>8. CASE SpawnFails \/ Shutdown
    BY <1>8 DEF SpawnFails, Shutdown, CloseClient, BeginTransportClose, childPipes
<1>9. CASE TransportStep
    BY <1>9 DEF TransportStep
<1>10. ASSUME NEW c \in {"spawn", "runtime"}, CloseReturns(c) PROVE EndIsOfSpawned'
    BY <1>10 DEF CloseReturns, childPipes
<1>. QED
    BY <1>1, <1>2, <1>3, <1>4, <1>5, <1>6, <1>7, <1>8, <1>9, <1>10 DEF AppServerNext, Rpcs

(* When a close() has returned, to spawn() or to the runtime, the server's *)
(* process is gone and stays gone, whatever requests, timeouts, answers    *)
(* and ends of pipes came before, during and after it.                     *)
THEOREM ServerIsGone == AppServerSpec => []ClosedMeansGone
<1>1. EndIsOfSpawned => ClosedMeansGone
    BY DEF EndIsOfSpawned, ClosedMeansGone
<1>. QED BY <1>1, EndHoldsAtFirst, EndIsKept, PTL DEF AppServerSpec

-----------------------------------------------------------------------------
(***************************************************************************)
(* ClaudeTurns.                                                            *)
(***************************************************************************)

(* A request is asked once, and one that was stopped is not pending again: *)
(* interrupt, shutdown and finally cancel whatever is pending, of whatever *)
(* turn, at the very step that stops it.                                   *)
StoppedIsNotPending ==
    /\ pendingAsks \subseteq asked /\ stoppedAsks \subseteq asked /\ asked \subseteq Asks
    /\ pendingAsks \cap stoppedAsks = {}

LEMMA StoppedHoldsAtFirst == ClaudeInit => StoppedIsNotPending
BY DEF ClaudeInit, StoppedIsNotPending

LEMMA StoppedIsKept == StoppedIsNotPending /\ [ClaudeNext]_claudeVars => StoppedIsNotPending'
<1> SUFFICES ASSUME StoppedIsNotPending, [ClaudeNext]_claudeVars PROVE StoppedIsNotPending'
    OBVIOUS
<1> USE DEF StoppedIsNotPending, askVars
<1>1. CASE UNCHANGED claudeVars
    BY <1>1 DEF claudeVars
<1>2. CASE CreateSession \/ ResumeSession \/ ClaudeSend \/ StartQuery \/ BuildFails
    BY <1>2 DEF CreateSession, ResumeSession, ClaudeSend, StartQuery, BuildFails
<1>3. CASE SystemInit \/ QueryResult \/ QueryEnds
    BY <1>3 DEF SystemInit, QueryResult, QueryEnds
<1>4. CASE ClaudeInterrupt
    BY <1>4 DEF ClaudeInterrupt, CancelPending
<1>5. CASE ClaudeShutdown
    BY <1>5 DEF ClaudeShutdown, CancelPending
<1>6. CASE EventsEnd \/ StopReading
    BY <1>6 DEF EventsEnd, StopReading, TurnFinally, CancelPending
<1>7. ASSUME NEW a \in Asks, CanUseTool(a) PROVE StoppedIsNotPending'
    BY <1>7 DEF CanUseTool
<1>8. ASSUME NEW a \in Asks, Approve(a) \/ ExpireAsk(a) PROVE StoppedIsNotPending'
    BY <1>8 DEF Approve, ExpireAsk, Settle
<1>. QED BY <1>1, <1>2, <1>3, <1>4, <1>5, <1>6, <1>7, <1>8 DEF ClaudeNext

(* A grant goes to a request that is pending.                              *)
LEMMA GrantIsOfPending ==
    StoppedIsNotPending /\ [ClaudeNext]_claudeVars
        => [granted' \ granted \subseteq Asks \ stoppedAsks]_claudeVars
<1> SUFFICES ASSUME StoppedIsNotPending, ClaudeNext
             PROVE granted' \ granted \subseteq Asks \ stoppedAsks
    OBVIOUS
<1> USE DEF askVars
<1>1. ASSUME NEW a \in Asks, Approve(a) PROVE granted' \ granted \subseteq Asks \ stoppedAsks
    BY <1>1 DEF Approve, StoppedIsNotPending
<1>2. ASSUME NEW a \in Asks, CanUseTool(a) \/ ExpireAsk(a) PROVE granted' = granted
    BY <1>2 DEF CanUseTool, ExpireAsk
<1>3. CASE CreateSession \/ ResumeSession \/ ClaudeSend \/ StartQuery \/ BuildFails
    BY <1>3 DEF CreateSession, ResumeSession, ClaudeSend, StartQuery, BuildFails
<1>4. CASE SystemInit \/ QueryResult \/ QueryEnds
    BY <1>4 DEF SystemInit, QueryResult, QueryEnds
<1>5. CASE ClaudeInterrupt \/ ClaudeShutdown
    BY <1>5 DEF ClaudeInterrupt, ClaudeShutdown, CancelPending
<1>6. CASE EventsEnd \/ StopReading
    BY <1>6 DEF EventsEnd, StopReading, TurnFinally, CancelPending
<1>. QED BY <1>1, <1>2, <1>3, <1>4, <1>5, <1>6 DEF ClaudeNext

(* A click that comes after the interrupt, the shutdown or the end of the  *)
(* turn that asked never allows the tool, in whatever turn it comes.       *)
THEOREM StoppedIsNeverGranted == ClaudeSpec => StoppedAskIsNotGranted
BY StoppedHoldsAtFirst, StoppedIsKept, GrantIsOfPending, PTL
   DEF ClaudeSpec, StoppedAskIsNotGranted

(***************************************************************************)
(* WorkStoppage. While nothing has misled the monitor it knows which       *)
(* requests of the turn are open and which of them can be seen.            *)
(***************************************************************************)

Views ==
    [state : KoeStates, tools : BOOLEAN, pending : SUBSET WaitIds, visible : SUBSET WaitIds, late : SUBSET WaitIds,
     stateLate : BOOLEAN, stalled : BOOLEAN, connection : {"up", "lost", "lost long"}]

MonitorTypes ==
    /\ view \in Views /\ view.visible \subseteq view.pending /\ view.late \subseteq view.pending
    /\ request \in [WaitIds -> {"none", "asked", "shown", "settled", "over"}]
    /\ incident \in [Reasons -> Nat] /\ announced \in [Reasons -> Nat] /\ savedIncident \in [Reasons -> Nat]
    /\ lastStatus \in {"idle", "running", "waiting_for_input", "failed"}

(* A request that is open is of the turn that runs, and one that has       *)
(* waited too long is open; while nothing misled the monitor it knows all  *)
(* of them, and shows only cards of this turn or of one that has failed.   *)
WaitsAreKnown ==
    /\ \A w \in WaitIds : request[w] \in {"asked", "shown"} => InTurn
    /\ overdue \subseteq {w \in WaitIds : request[w] = "asked"}
    /\ ~misled =>
          /\ \A w \in WaitIds : request[w] \in {"asked", "shown"} => w \in view.pending
          /\ overdue \subseteq view.late
          /\ InTurn => view.visible \subseteq {w \in WaitIds : request[w] = "shown"}
          /\ ~watched => view.visible = {}

(* The incident of a hidden wait is open when it should be.                *)
HiddenIsOpen ==
    view.visible = {} /\ view.late # {} => incident["hidden_approval_wait"] % 2 = 1

MonitorIInv ==
    /\ MonitorTypes /\ WaitsAreKnown /\ HiddenIsOpen
    /\ ~unsavedEnd => announced = incident

(* What the monitor's helpers leave of the requests it knows.              *)
Sound(v) == v \in Views /\ v.visible \subseteq v.pending /\ v.late \subseteq v.pending
SameWaits(u, v) == u.pending = v.pending /\ u.visible = v.visible /\ u.late = v.late

LEMMA SetStateKeeps ==
    ASSUME NEW v, Sound(v), NEW next \in KoeStates, NEW progress \in BOOLEAN
    PROVE  Sound(SetState(v, next, progress)) /\ SameWaits(SetState(v, next, progress), v)
<1> DEFINE late == IF next = v.state THEN v.stateLate ELSE FALSE
           stalled == IF progress THEN FALSE ELSE v.stalled
<1>1. late \in BOOLEAN /\ stalled \in BOOLEAN
  BY DEF Sound, Views
<1>2. SetState(v, next, progress) = [v EXCEPT !.state = next, !.stateLate = late, !.stalled = stalled]
  BY DEF SetState
<1> HIDE DEF late, stalled
<1> QED
  BY <1>1, <1>2 DEF Sound, Views, SameWaits

LEMMA AtWorkKeeps ==
    ASSUME NEW v, Sound(v) PROVE Sound(AtWork(v)) /\ SameWaits(AtWork(v), v)
<1>1. (IF v.tools THEN "tool_running" ELSE "running") \in KoeStates
  BY DEF KoeStates
<1> QED
  BY <1>1, SetStateKeeps DEF AtWork

LEMMA WithPendingKeeps ==
    ASSUME NEW v, Sound(v), NEW p \in SUBSET WaitIds
    PROVE  /\ Sound(WithPending(v, p)) /\ WithPending(v, p).pending = p
           /\ WithPending(v, p).visible = v.visible \cap p /\ WithPending(v, p).late = v.late \cap p
  BY DEF Sound, Views, WithPending

LEMMA RecordPendingKeeps ==
    ASSUME NEW v, Sound(v), NEW w \in WaitIds
    PROVE  /\ Sound(RecordPending(v, w)) /\ RecordPending(v, w).pending = v.pending \cup {w}
           /\ RecordPending(v, w).visible = v.visible /\ RecordPending(v, w).late = v.late
<1> DEFINE u == WithPending(v, v.pending \cup {w})
<1>1. v.pending \cup {w} \in SUBSET WaitIds
  BY DEF Sound, Views
<1>2. Sound(u) /\ u.pending = v.pending \cup {w} /\ u.visible = v.visible /\ u.late = v.late
  <2>1. v.visible \cap (v.pending \cup {w}) = v.visible /\ v.late \cap (v.pending \cup {w}) = v.late
    BY DEF Sound
  <2> DEFINE p == v.pending \cup {w}
  <2>2. p \in SUBSET WaitIds
    BY <1>1
  <2>3. u = WithPending(v, p)
    OBVIOUS
  <2> HIDE DEF p, u
  <2>4. Sound(u) /\ u.pending = p /\ u.visible = v.visible \cap p /\ u.late = v.late \cap p
    BY <2>2, <2>3, WithPendingKeeps
  <2> QED
    BY <2>1, <2>4 DEF p
<1> HIDE DEF u
<1>3. Sound(SetState(u, "waiting_for_input", TRUE)) /\ SameWaits(SetState(u, "waiting_for_input", TRUE), u)
  BY <1>2, SetStateKeeps DEF KoeStates
<1> QED
  BY <1>2, <1>3 DEF RecordPending, SameWaits, u

LEMMA MarkVisibleKeeps ==
    ASSUME NEW v, Sound(v), NEW w \in WaitIds
    PROVE  /\ Sound(MarkVisible(v, w)) /\ MarkVisible(v, w).pending = v.pending \cup {w}
           /\ MarkVisible(v, w).visible = v.visible \cup {w} /\ MarkVisible(v, w).late = v.late
<1> DEFINE u == RecordPending(v, w)
<1>1. Sound(u) /\ u.pending = v.pending \cup {w} /\ u.visible = v.visible /\ u.late = v.late
  BY RecordPendingKeeps
<1>2. MarkVisible(v, w) = [u EXCEPT !.visible = u.visible \cup {w}]
  BY DEF MarkVisible
<1> HIDE DEF u
<1> QED
  BY <1>1, <1>2 DEF Sound, Views

LEMMA ClearPendingKeeps ==
    ASSUME NEW v, Sound(v), NEW w \in WaitIds
    PROVE  /\ Sound(ClearPending(v, w)) /\ ClearPending(v, w).pending = v.pending \ {w}
           /\ ClearPending(v, w).visible = v.visible \ {w} /\ ClearPending(v, w).late = v.late \ {w}
<1> DEFINE u == WithPending(v, v.pending \ {w})
<1>1. v.pending \ {w} \in SUBSET WaitIds
  BY DEF Sound, Views
<1>2. Sound(u) /\ u.pending = v.pending \ {w} /\ u.visible = v.visible \ {w} /\ u.late = v.late \ {w}
  BY <1>1, WithPendingKeeps DEF Sound
<1>3. ClearPending(v, w) = u \/ ClearPending(v, w) = AtWork(u)
  BY DEF ClearPending
<1> HIDE DEF u
<1>4. Sound(AtWork(u)) /\ SameWaits(AtWork(u), u)
  BY <1>2, AtWorkKeeps
<1> QED
  BY <1>2, <1>3, <1>4 DEF SameWaits

(* Whatever ends or forgets all waits.                                     *)
NoWaits(v) == Sound(v) /\ v.pending = {} /\ v.visible = {} /\ v.late = {}

LEMMA ForgetWaits ==
    ASSUME NEW v, Sound(v)
    PROVE  /\ NoWaits(WithPending(v, {})) /\ NoWaits([WithPending(v, {}) EXCEPT !.tools = FALSE])
<1> DEFINE u == WithPending(v, {})
<1>1. NoWaits(u)
  BY WithPendingKeeps DEF NoWaits
<1> HIDE DEF u
<1>2. NoWaits([u EXCEPT !.tools = FALSE])
  BY <1>1 DEF NoWaits, Sound, Views
<1> QED
  BY <1>1, <1>2 DEF u

LEMMA ObserveStatusKeeps ==
    ASSUME NEW v, Sound(v)
    PROVE  /\ NoWaits(ObserveStatus(v, "running")) /\ NoWaits(ObserveStatus(v, "idle"))
           /\ Sound(ObserveStatus(v, "waiting_for_input")) /\ SameWaits(ObserveStatus(v, "waiting_for_input"), v)
           /\ Sound(ObserveStatus(v, "failed")) /\ SameWaits(ObserveStatus(v, "failed"), v)
           /\ \A failed \in BOOLEAN : NoWaits(ObserveTerminal(v, failed))
<1>1. NoWaits(WithPending(v, {})) /\ NoWaits([WithPending(v, {}) EXCEPT !.tools = FALSE])
  BY ForgetWaits
<1>2. \A u : NoWaits(u) => NoWaits(AtWork(u))
  BY AtWorkKeeps DEF NoWaits, SameWaits
<1>3. \A next \in KoeStates : \A u : NoWaits(u) => NoWaits(SetState(u, next, TRUE))
  BY SetStateKeeps DEF NoWaits, SameWaits
<1>4. {"waiting_for_input", "failed", "terminal"} \subseteq KoeStates
  BY DEF KoeStates
<1>5. NoWaits(ObserveStatus(v, "running")) /\ NoWaits(ObserveStatus(v, "idle"))
  <2>1. ObserveStatus(v, "running") = AtWork(WithPending(v, {}))
    BY DEF ObserveStatus
  <2>2. ObserveStatus(v, "idle") = SetState([WithPending(v, {}) EXCEPT !.tools = FALSE], "terminal", TRUE)
    BY DEF ObserveStatus
  <2>3. "terminal" \in KoeStates
    BY <1>4
  <2>4. NoWaits(AtWork(WithPending(v, {})))
    BY <1>1, <1>2
  <2>5. NoWaits(SetState([WithPending(v, {}) EXCEPT !.tools = FALSE], "terminal", TRUE))
    <3> DEFINE u == [WithPending(v, {}) EXCEPT !.tools = FALSE]
    <3>1. NoWaits(u)
      BY <1>1
    <3> HIDE DEF u
    <3>2. NoWaits(SetState(u, "terminal", TRUE))
      BY <1>3, <2>3, <3>1
    <3> QED
      BY <3>2 DEF u
  <2> QED
    BY <2>1, <2>2, <2>4, <2>5
<1>6. \A next \in {"waiting_for_input", "failed"} :
         /\ ObserveStatus(v, next) = SetState(v, next, TRUE)
         /\ Sound(SetState(v, next, TRUE)) /\ SameWaits(SetState(v, next, TRUE), v)
  BY <1>4, SetStateKeeps DEF ObserveStatus
<1>7. ASSUME NEW failed \in BOOLEAN PROVE NoWaits(ObserveTerminal(v, failed))
  <2> DEFINE endState == IF failed THEN "failed" ELSE "terminal"
  <2>1. endState \in KoeStates
    BY <1>4
  <2>2. ObserveTerminal(v, failed) = SetState([WithPending(v, {}) EXCEPT !.tools = FALSE], endState, TRUE)
    BY DEF ObserveTerminal
  <2> DEFINE u == [WithPending(v, {}) EXCEPT !.tools = FALSE]
  <2>3. NoWaits(u)
    BY <1>1
  <2>4. ObserveTerminal(v, failed) = SetState(u, endState, TRUE)
    BY <2>2
  <2> HIDE DEF endState, u
  <2> QED
    BY <1>3, <2>1, <2>3, <2>4
<1> QED
  BY <1>5, <1>6, <1>7

LEMMA ObservedKeeps ==
    ASSUME NEW v, Sound(v), lastStatus \in {"idle", "running", "waiting_for_input", "failed"}
    PROVE  Sound(Observed(v)) /\ SameWaits(Observed(v), v)
<1>1. Observation \in KoeStates
  BY DEF Observation, KoeStates
<1>2. Observed(v) = v \/ Observed(v) = SetState(v, Observation, FALSE)
  BY DEF Observed
<1> QED
  BY <1>1, <1>2, SetStateKeeps DEF SameWaits

(* Each change is announced, under the next number; the incident of a      *)
(* hidden wait is what the monitor knows.                                  *)
LEMMA ReconcileAnnounces ==
    ASSUME MonitorTypes, NEW v, Sound(v), Reconcile(v)
    PROVE  /\ view' = v /\ incident' \in [Reasons -> Nat] /\ announced' \in [Reasons -> Nat]
           /\ \A r \in Reasons : announced'[r] # announced[r] => announced'[r] = incident[r] + 1
           /\ announced = incident => announced' = incident'
           /\ HiddenIsOpen'
<1> DEFINE open == ShouldBeActive(v)
           changed == {r \in Reasons : open[r] # (incident[r] % 2 = 1)}
<1>1. /\ view' = v
      /\ incident' = [r \in Reasons |-> IF r \in changed THEN incident[r] + 1 ELSE incident[r]]
      /\ announced' = [r \in Reasons |-> IF r \in changed THEN incident[r] + 1 ELSE announced[r]]
  BY DEF Reconcile
<1>2. \A r \in Reasons : incident[r] \in Nat /\ announced[r] \in Nat
  BY DEF MonitorTypes
<1>3. "hidden_approval_wait" \in Reasons
  BY DEF Reasons
<1>4. open["hidden_approval_wait"] = (Hidden(v) /\ v.visible = {})
  BY <1>3 DEF ShouldBeActive
<1>5. v.visible = {} /\ v.late # {} => Hidden(v)
  BY DEF Sound, Hidden
<1>6. HiddenIsOpen'
  <2> SUFFICES ASSUME v.visible = {}, v.late # {} PROVE incident'["hidden_approval_wait"] % 2 = 1
    BY <1>1 DEF HiddenIsOpen
  <2>1. open["hidden_approval_wait"] = TRUE
    BY <1>4, <1>5
  <2> HIDE DEF open
  <2>2. CASE incident["hidden_approval_wait"] % 2 = 1
    BY <1>1, <1>3, <2>1, <2>2
  <2>3. CASE incident["hidden_approval_wait"] % 2 # 1
    <3>1. "hidden_approval_wait" \in changed
      BY <1>3, <2>1, <2>3
    <3>2. incident'["hidden_approval_wait"] = incident["hidden_approval_wait"] + 1
      BY <1>1, <1>3, <3>1
    <3> QED
      BY <1>2, <1>3, <2>3, <3>2
  <2> QED
    BY <2>2, <2>3
<1> HIDE DEF changed
<1> QED
  BY <1>1, <1>2, <1>6

LEMMA Reconciled ==
    ASSUME MonitorIInv, NEW v, Sound(v), Reconcile(v), UNCHANGED <<savedIncident, unsavedEnd>>,
           request' \in [WaitIds -> {"none", "asked", "shown", "settled", "over"}],
           lastStatus' \in {"idle", "running", "waiting_for_input", "failed"},
           WaitsAreKnown'
    PROVE  MonitorIInv'
  BY ReconcileAnnounces DEF MonitorIInv, MonitorTypes, Sound

(* The numbers of the announcements, whatever the monitor knows.           *)
LEMMA ReconcileNumbers ==
    ASSUME NEW v, Reconcile(v), NEW r \in Reasons
    PROVE  announced'[r] = announced[r] \/ announced'[r] = incident[r] + 1
  BY DEF Reconcile

(* With its turn, or its process, every request ends.                      *)
LEMMA RequestsEnd ==
    ASSUME MonitorIInv, NEW end \in {"settled", "over"},
           KoeRequests([w \in WaitIds |-> IF request[w] = "none" THEN "none" ELSE end])
    PROVE  /\ request' \in [WaitIds -> {"none", "asked", "shown", "settled", "over"}]
           /\ \A w \in WaitIds : request'[w] \notin {"asked", "shown"}
           /\ overdue' = {}
<1>1. request' = [w \in WaitIds |-> IF request[w] = "none" THEN "none" ELSE end]
  BY DEF KoeRequests
<1>2. \A w \in WaitIds : request'[w] \in {"none", "settled", "over"}
  BY <1>1
<1>3. overdue \subseteq WaitIds
  BY DEF MonitorIInv, WaitsAreKnown
<1>4. overdue' = {w \in overdue : request'[w] = "asked"}
  BY <1>1 DEF KoeRequests
<1> QED
  BY <1>1, <1>2, <1>3, <1>4

LEMMA StartWatchedTurnKept ==
    ASSUME MonitorIInv, StartWatchedTurn
    PROVE  MonitorIInv'
<1> USE DEF MonitorIInv, MonitorTypes
<1>0. Sound(view)
  BY DEF Sound
<1> DEFINE v == SetState(view, "running", TRUE)
<1>1. Sound(v) /\ SameWaits(v, view)
  BY <1>0, SetStateKeeps DEF KoeStates
<1>2. Reconcile(v)
  BY DEF StartWatchedTurn
<1> HIDE DEF v
<1>3. view' = v
  BY <1>1, <1>2, ReconcileAnnounces
<1>4. WaitsAreKnown'
  BY <1>1, <1>3 DEF StartWatchedTurn, WaitsAreKnown, InTurn, SameWaits
<1>5. /\ request' \in [WaitIds -> {"none", "asked", "shown", "settled", "over"}]
      /\ lastStatus' \in {"idle", "running", "waiting_for_input", "failed"}
      /\ UNCHANGED <<savedIncident, unsavedEnd>>
  BY DEF StartWatchedTurn
<1> QED
  BY <1>1, <1>2, <1>4, <1>5, Reconciled

LEMMA AskInTurnKept ==
    ASSUME MonitorIInv, NEW w \in WaitIds, AskInTurn(w)
    PROVE  MonitorIInv'
<1> USE DEF MonitorIInv, MonitorTypes
<1>0. Sound(view)
  BY DEF Sound
<1> DEFINE u == ObserveStatus(view, "waiting_for_input")
           v == RecordPending(u, w)
<1>1. Sound(u) /\ SameWaits(u, view)
  BY <1>0, ObserveStatusKeeps
<1>2. Reconcile(v)
  BY DEF AskInTurn
<1> HIDE DEF u
<1>3. Sound(v) /\ v.pending = view.pending \cup {w} /\ v.visible = view.visible /\ v.late = view.late
  BY <1>1, RecordPendingKeeps DEF SameWaits
<1> HIDE DEF v
<1>4. view' = v
  BY <1>2, <1>3, ReconcileAnnounces
<1>5. WaitsAreKnown'
  BY <1>3, <1>4 DEF AskInTurn, WaitsAreKnown, InTurn, KoeRequests
<1>6. /\ request' \in [WaitIds -> {"none", "asked", "shown", "settled", "over"}]
      /\ lastStatus' \in {"idle", "running", "waiting_for_input", "failed"}
      /\ UNCHANGED <<savedIncident, unsavedEnd>>
  BY DEF AskInTurn, KoeRequests, Elsewhere
<1> QED
  BY <1>2, <1>3, <1>5, <1>6, Reconciled

LEMMA AttachControlsKept ==
    ASSUME MonitorIInv, NEW w \in WaitIds, AttachControls(w)
    PROVE  MonitorIInv'
<1> USE DEF MonitorIInv, MonitorTypes
<1>0. Sound(view)
  BY DEF Sound
<1> DEFINE v == MarkVisible(view, w)
<1>1. Sound(v) /\ v.pending = view.pending \cup {w} /\ v.visible = view.visible \cup {w} /\ v.late = view.late
  BY <1>0, MarkVisibleKeeps
<1>2. Reconcile(v)
  BY DEF AttachControls
<1> HIDE DEF v
<1>3. view' = v
  BY <1>1, <1>2, ReconcileAnnounces
<1>4. WaitsAreKnown'
  BY <1>1, <1>3 DEF AttachControls, WaitsAreKnown, InTurn, KoeRequests
<1>5. /\ request' \in [WaitIds -> {"none", "asked", "shown", "settled", "over"}]
      /\ lastStatus' \in {"idle", "running", "waiting_for_input", "failed"}
      /\ UNCHANGED <<savedIncident, unsavedEnd>>
  BY DEF AttachControls, KoeRequests, Elsewhere
<1> QED
  BY <1>1, <1>2, <1>4, <1>5, Reconciled

LEMMA SettleInTurnKept ==
    ASSUME MonitorIInv, NEW w \in WaitIds, SettleInTurn(w)
    PROVE  MonitorIInv'
<1> USE DEF MonitorIInv, MonitorTypes
<1>0. Sound(view)
  BY DEF Sound
<1>1. /\ request' \in [WaitIds -> {"none", "asked", "shown", "settled", "over"}]
      /\ lastStatus' \in {"idle", "running", "waiting_for_input", "failed"}
      /\ UNCHANGED <<savedIncident, unsavedEnd>>
  BY DEF SettleInTurn, KoeRequests, Elsewhere
<1>2. CASE Reconcile(ClearPending(view, w)) /\ UNCHANGED <<lastStatus, misled>>
  <2> DEFINE v == ClearPending(view, w)
  <2>1. Sound(v) /\ v.pending = view.pending \ {w} /\ v.visible = view.visible \ {w} /\ v.late = view.late \ {w}
    BY <1>0, ClearPendingKeeps
  <2>2. Reconcile(v)
    BY <1>2
  <2> HIDE DEF v
  <2>3. view' = v
    BY <2>1, <2>2, ReconcileAnnounces
  <2>4. WaitsAreKnown'
    BY <1>2, <2>1, <2>3 DEF SettleInTurn, WaitsAreKnown, InTurn, KoeRequests
  <2> QED
    BY <1>1, <2>1, <2>2, <2>4, Reconciled
<1>3. CASE /\ Reconcile(ObserveStatus(view, "running")) /\ lastStatus' = "running"
           /\ misled' = (misled \/ \E other \in WaitIds \ {w} : request[other] \in {"asked", "shown"})
  <2> DEFINE v == ObserveStatus(view, "running")
  <2>1. NoWaits(v)
    BY <1>0, ObserveStatusKeeps
  <2>2. Reconcile(v)
    BY <1>3
  <2> HIDE DEF v
  <2>3. view' = v
    BY <2>1, <2>2, ReconcileAnnounces DEF NoWaits
  <2>4. WaitsAreKnown'
    BY <1>3, <2>1, <2>3 DEF SettleInTurn, WaitsAreKnown, InTurn, KoeRequests, NoWaits
  <2> QED
    BY <1>1, <2>1, <2>2, <2>4, Reconciled DEF NoWaits
<1> QED
  BY <1>2, <1>3 DEF SettleInTurn

LEMMA TerminalizeCardKept ==
    ASSUME MonitorIInv, NEW w \in WaitIds, TerminalizeCard(w)
    PROVE  MonitorIInv'
<1> USE DEF MonitorIInv, MonitorTypes
<1>0. Sound(view)
  BY DEF Sound
<1> DEFINE v == ClearPending(view, w)
<1>1. Sound(v) /\ v.pending = view.pending \ {w} /\ v.visible = view.visible \ {w} /\ v.late = view.late \ {w}
  BY <1>0, ClearPendingKeeps
<1>2. Reconcile(v)
  BY DEF TerminalizeCard
<1> HIDE DEF v
<1>3. view' = v
  BY <1>1, <1>2, ReconcileAnnounces
<1>4. WaitsAreKnown'
  BY <1>1, <1>3 DEF TerminalizeCard, WaitsAreKnown, InTurn
<1>5. /\ request' \in [WaitIds -> {"none", "asked", "shown", "settled", "over"}]
      /\ lastStatus' \in {"idle", "running", "waiting_for_input", "failed"}
      /\ UNCHANGED <<savedIncident, unsavedEnd>>
  BY DEF TerminalizeCard, Elsewhere
<1> QED
  BY <1>1, <1>2, <1>4, <1>5, Reconciled

LEMMA ObserveEventKept ==
    ASSUME MonitorIInv, ObserveEvent
    PROVE  MonitorIInv'
<1> USE DEF MonitorIInv, MonitorTypes
<1>0. Sound(view)
  BY DEF Sound
<1>1. /\ request' \in [WaitIds -> {"none", "asked", "shown", "settled", "over"}]
      /\ lastStatus' \in {"idle", "running", "waiting_for_input", "failed"}
      /\ UNCHANGED <<savedIncident, unsavedEnd>>
      /\ UNCHANGED <<watched, request, lastStatus, overdue, misled>>
  BY DEF ObserveEvent, Elsewhere
<1>2. ASSUME NEW v, Sound(v), SameWaits(v, view), Reconcile(v) PROVE MonitorIInv'
  <2>1. view' = v
    BY <1>2, ReconcileAnnounces
  <2>2. WaitsAreKnown'
    BY <1>1, <1>2, <2>1 DEF WaitsAreKnown, InTurn, SameWaits
  <2> QED
    BY <1>1, <1>2, <2>2, Reconciled
<1>3. \A tools \in BOOLEAN : Sound([view EXCEPT !.tools = tools]) /\ SameWaits([view EXCEPT !.tools = tools], view)
  BY <1>0 DEF Sound, Views, SameWaits
<1>4. \A tools \in BOOLEAN : Sound(Progress([view EXCEPT !.tools = tools]))
                             /\ SameWaits(Progress([view EXCEPT !.tools = tools]), view)
  BY <1>3, AtWorkKeeps DEF Progress, SameWaits
<1>5. Sound(SetState(view, "failed", TRUE)) /\ SameWaits(SetState(view, "failed", TRUE), view)
  BY <1>0, SetStateKeeps DEF KoeStates
<1> QED
  BY <1>2, <1>4, <1>5 DEF ObserveEvent

LEMMA FinalStatusKept ==
    ASSUME MonitorIInv, FinalStatus
    PROVE  MonitorIInv'
<1> USE DEF MonitorIInv, MonitorTypes
<1>0. Sound(view)
  BY DEF Sound
<1>1. /\ request' \in [WaitIds -> {"none", "asked", "shown", "settled", "over"}]
      /\ lastStatus' \in {"idle", "running", "waiting_for_input", "failed"}
      /\ UNCHANGED <<savedIncident, unsavedEnd>>
      /\ watched /\ UNCHANGED <<watched, misled>> /\ lastStatus' \in {"idle", "failed"}
      /\ \A w \in WaitIds : request'[w] \notin {"asked", "shown"}
      /\ overdue' = {}
  <2>1. KoeRequests([w \in WaitIds |-> IF request[w] = "none" THEN "none" ELSE "settled"])
    BY DEF FinalStatus
  <2>2. /\ request' \in [WaitIds -> {"none", "asked", "shown", "settled", "over"}]
        /\ \A w \in WaitIds : request'[w] \notin {"asked", "shown"}
        /\ overdue' = {}
    BY <2>1, RequestsEnd
  <2> QED
    BY <2>2 DEF FinalStatus, Elsewhere, InTurn
<1> DEFINE v == ObserveStatus(view, lastStatus')
<1>2. Sound(v)
  BY <1>0, <1>1, ObserveStatusKeeps DEF NoWaits
<1>3. Reconcile(v)
  BY DEF FinalStatus
<1> HIDE DEF v
<1>4. view' = v
  BY <1>2, <1>3, ReconcileAnnounces
<1>5. WaitsAreKnown'
  BY <1>1, <1>2, <1>4 DEF WaitsAreKnown, InTurn
<1> QED
  BY <1>1, <1>2, <1>3, <1>5, Reconciled

LEMMA EndWatchedTurnKept ==
    ASSUME MonitorIInv, EndWatchedTurn
    PROVE  MonitorIInv'
<1> USE DEF MonitorIInv, MonitorTypes
<1>0. Sound(view)
  BY DEF Sound
<1>1. /\ request' \in [WaitIds -> {"none", "asked", "shown", "settled", "over"}]
      /\ lastStatus' \in {"idle", "running", "waiting_for_input", "failed"}
      /\ UNCHANGED <<savedIncident, unsavedEnd>>
      /\ watched' = FALSE /\ UNCHANGED misled
      /\ \A w \in WaitIds : request'[w] \notin {"asked", "shown"}
      /\ overdue' = {}
  <2>1. KoeRequests([w \in WaitIds |-> IF request[w] = "none" THEN "none" ELSE "settled"])
    BY DEF EndWatchedTurn
  <2>2. /\ request' \in [WaitIds -> {"none", "asked", "shown", "settled", "over"}]
        /\ \A w \in WaitIds : request'[w] \notin {"asked", "shown"}
        /\ overdue' = {}
    BY <2>1, RequestsEnd
  <2> QED
    BY <2>2 DEF EndWatchedTurn, Elsewhere
<1>2. PICK threw \in BOOLEAN : Reconcile(ObserveTerminal(view, erred \/ threw))
  BY DEF EndWatchedTurn
<1>3. ObserveTerminal(view, erred \/ threw) = ObserveTerminal(view, TRUE)
        \/ ObserveTerminal(view, erred \/ threw) = ObserveTerminal(view, FALSE)
  BY DEF ObserveTerminal
<1> DEFINE v == ObserveTerminal(view, erred \/ threw)
<1>4. NoWaits(v)
  BY <1>0, <1>3, ObserveStatusKeeps
<1>5. Reconcile(v)
  BY <1>2
<1> HIDE DEF v
<1>6. view' = v
  BY <1>4, <1>5, ReconcileAnnounces DEF NoWaits
<1>7. WaitsAreKnown'
  BY <1>1, <1>4, <1>6 DEF WaitsAreKnown, InTurn, NoWaits
<1> QED
  BY <1>1, <1>4, <1>5, <1>7, Reconciled DEF NoWaits

LEMMA LoseConnectionKept ==
    ASSUME MonitorIInv, LoseConnection
    PROVE  MonitorIInv'
<1> USE DEF MonitorIInv, MonitorTypes
<1>0. Sound(view)
  BY DEF Sound
<1> DEFINE u == [view EXCEPT !.connection = "lost"]
<1>1. Sound(u) /\ SameWaits(u, view)
  BY <1>0 DEF Sound, Views, SameWaits
<1>2. view' = SetState(u, "unknown", FALSE)
  BY DEF LoseConnection
<1> HIDE DEF u
<1>3. Sound(view') /\ SameWaits(view', view)
  BY <1>1, <1>2, SetStateKeeps DEF KoeStates, SameWaits
<1>4. UNCHANGED <<watched, request, lastStatus, overdue, misled, incident, announced, savedIncident, unsavedEnd>>
  BY DEF LoseConnection, Elsewhere
<1> QED
  BY <1>3, <1>4 DEF Sound, SameWaits, WaitsAreKnown, InTurn, HiddenIsOpen

LEMMA QueueDelegationKept ==
    ASSUME MonitorIInv, QueueDelegation
    PROVE  MonitorIInv'
<1> USE DEF MonitorIInv, MonitorTypes
<1>0. Sound(view)
  BY DEF Sound
<1> QED
  BY DEF QueueDelegation, WaitsAreKnown, InTurn, HiddenIsOpen

LEMMA SaveSnapshotKept ==
    ASSUME MonitorIInv, SaveSnapshot
    PROVE  MonitorIInv'
<1> USE DEF MonitorIInv, MonitorTypes
<1>0. Sound(view)
  BY DEF Sound
<1> QED
  BY DEF SaveSnapshot, WaitsAreKnown, InTurn, HiddenIsOpen

LEMMA PeriodPassesKept ==
    ASSUME MonitorIInv, PeriodPasses
    PROVE  MonitorIInv'
<1> USE DEF MonitorIInv, MonitorTypes
<1>0. Sound(view)
  BY DEF Sound
<1> DEFINE aged(long) == [view EXCEPT !.late = view.pending, !.stateLate = TRUE, !.stalled = long,
                                        !.connection = IF view.connection = "lost" THEN "lost long"
                                                                                   ELSE view.connection]
<1>1. PICK long \in BOOLEAN : Reconcile(Observed(aged(long)))
  BY DEF PeriodPasses
<1>2. Sound(aged(long)) /\ aged(long).pending = view.pending /\ aged(long).visible = view.visible
        /\ aged(long).late = view.pending
  <2> DEFINE link == IF view.connection = "lost" THEN "lost long" ELSE view.connection
  <2>1. link \in {"up", "lost", "lost long"}
    BY DEF Views
  <2>2. aged(long) = [view EXCEPT !.late = view.pending, !.stateLate = TRUE, !.stalled = long,
                                  !.connection = link]
    OBVIOUS
  <2> HIDE DEF link, aged
  <2> QED
    BY <1>0, <2>1, <2>2 DEF Sound, Views
<1> HIDE DEF aged
<1> DEFINE v == Observed(aged(long))
<1>3. Sound(v) /\ v.pending = view.pending /\ v.visible = view.visible /\ v.late = view.pending
  BY <1>2, ObservedKeeps DEF SameWaits
<1>4. Reconcile(v)
  BY <1>1
<1> HIDE DEF v
<1>5. view' = v
  BY <1>3, <1>4, ReconcileAnnounces
<1>6. /\ request' \in [WaitIds -> {"none", "asked", "shown", "settled", "over"}]
      /\ lastStatus' \in {"idle", "running", "waiting_for_input", "failed"}
      /\ UNCHANGED <<savedIncident, unsavedEnd>>
      /\ UNCHANGED <<watched, request, lastStatus, misled>>
      /\ overdue' = {w \in WaitIds : request[w] = "asked"}
  BY DEF PeriodPasses, Elsewhere
<1>7. WaitsAreKnown'
  BY <1>3, <1>5, <1>6 DEF WaitsAreKnown, InTurn
<1> QED
  BY <1>3, <1>4, <1>6, <1>7, Reconciled

LEMMA ReplaceWorkerKept ==
    ASSUME MonitorIInv, ReplaceWorker
    PROVE  MonitorIInv'
<1> USE DEF MonitorIInv, MonitorTypes
<1>0. Sound(view)
  BY DEF Sound
<1>1. /\ request' \in [WaitIds -> {"none", "asked", "shown", "settled", "over"}]
      /\ lastStatus' \in {"idle", "running", "waiting_for_input", "failed"}
      /\ watched' = FALSE /\ view' = KnowsNothing /\ UNCHANGED savedIncident
      /\ \A w \in WaitIds : request'[w] \notin {"asked", "shown"}
      /\ overdue' = {}
  <2>1. KoeRequests([w \in WaitIds |-> IF request[w] = "none" THEN "none" ELSE "over"])
    BY DEF ReplaceWorker
  <2>2. /\ request' \in [WaitIds -> {"none", "asked", "shown", "settled", "over"}]
        /\ \A w \in WaitIds : request'[w] \notin {"asked", "shown"}
        /\ overdue' = {}
    BY <2>1, RequestsEnd
  <2> QED
    BY <2>2 DEF ReplaceWorker
<1>2. Sound(KnowsNothing) /\ KnowsNothing.visible = {} /\ KnowsNothing.late = {}
  BY DEF KnowsNothing, Sound, Views, KoeStates
<1>3. WaitsAreKnown' /\ HiddenIsOpen'
  BY <1>1, <1>2 DEF WaitsAreKnown, HiddenIsOpen, InTurn
<1>4. incident' = [r \in Reasons |-> IF r = "connection_lost" /\ savedIncident[r] % 2 = 1
                                       THEN savedIncident[r] + 1 ELSE savedIncident[r]]
      /\ announced' = [announced EXCEPT !["connection_lost"] = incident'["connection_lost"]]
  BY DEF ReplaceWorker, LoadSnapshot
<1>5. incident' \in [Reasons -> Nat] /\ announced' \in [Reasons -> Nat]
  <2>1. incident' \in [Reasons -> Nat] /\ "connection_lost" \in Reasons
    BY <1>4 DEF Reasons
  <2>2. incident'["connection_lost"] \in Nat
    BY <2>1
  <2> QED
    BY <1>4, <2>1, <2>2
<1>6. ASSUME ~unsavedEnd' PROVE announced' = incident'
  <2>1. savedIncident = incident /\ announced = incident
    BY <1>6 DEF ReplaceWorker
  <2>2. \A r \in Reasons : announced'[r] = incident'[r]
    BY <1>4, <2>1
  <2> QED
    BY <1>4, <1>5, <2>2
<1> QED
  BY <1>1, <1>2, <1>3, <1>5, <1>6 DEF Sound

LEMMA MonitorHoldsAtFirst == MonitorInit => MonitorIInv
<1> SUFFICES ASSUME MonitorInit PROVE MonitorIInv
  OBVIOUS
<1>1. view = KnowsNothing /\ request = [w \in WaitIds |-> "none"] /\ overdue = {}
  BY DEF MonitorInit
<1>2. KnowsNothing \in Views /\ KnowsNothing.visible = {} /\ KnowsNothing.late = {} /\ KnowsNothing.pending = {}
  BY DEF KnowsNothing, Views, KoeStates
<1>3. MonitorTypes
  BY <1>1, <1>2 DEF MonitorInit, MonitorTypes
<1>4. WaitsAreKnown /\ HiddenIsOpen
  BY <1>1, <1>2 DEF WaitsAreKnown, HiddenIsOpen
<1> QED
  BY <1>3, <1>4 DEF MonitorIInv, MonitorInit

LEMMA MonitorIsKept == MonitorIInv /\ [MonitorNext]_monitorVars => MonitorIInv'
<1> SUFFICES ASSUME MonitorIInv, [MonitorNext]_monitorVars PROVE MonitorIInv'
  OBVIOUS
<1>1. CASE UNCHANGED monitorVars
  BY <1>1 DEF monitorVars, MonitorIInv, MonitorTypes, WaitsAreKnown, InTurn, HiddenIsOpen
<1> QED
  BY <1>1, StartWatchedTurnKept, ObserveEventKept, FinalStatusKept, EndWatchedTurnKept,
     LoseConnectionKept, QueueDelegationKept, PeriodPassesKept, SaveSnapshotKept, ReplaceWorkerKept,
     AskInTurnKept, AttachControlsKept, SettleInTurnKept, TerminalizeCardKept
     DEF MonitorNext

LEMMA MonitorAgrees == MonitorSpec => []MonitorIInv
  BY MonitorHoldsAtFirst, MonitorIsKept, PTL DEF MonitorSpec

(* For any requests and any numbers of turns, signals and processes: a     *)
(* request that has had no card for half a minute has an open incident     *)
(* while its turn shows no other card, unless the monitor was misled       *)
(* (reconcile, #observeAgentStatus).                                       *)
THEOREM HiddenWaitsAreFound == MonitorSpec => []HiddenWaitIsReported
<1>1. MonitorIInv => HiddenWaitIsReported
  <2> SUFFICES ASSUME MonitorIInv, ~misled, NEW w \in overdue, \A x \in WaitIds : request[x] # "shown"
               PROVE  incident["hidden_approval_wait"] % 2 = 1
    BY DEF HiddenWaitIsReported
  <2>1. w \in WaitIds /\ request[w] = "asked" /\ w \in view.late
    BY DEF MonitorIInv, WaitsAreKnown
  <2>2. view.visible = {}
    BY <2>1 DEF MonitorIInv, WaitsAreKnown
  <2> QED
    BY <2>1, <2>2 DEF MonitorIInv, HiddenIsOpen
<1> QED
  BY <1>1, MonitorAgrees, PTL

(* ... and each change of an incident is announced under the next number,  *)
(* across processes that saved their last change (#emit, loadSnapshot).    *)
THEOREM ChangesAreNumbered == MonitorSpec => EachChangeAnnouncedOnce
<1>1. ASSUME MonitorIInv, [MonitorNext]_monitorVars
      PROVE  [~unsavedEnd' => \A r \in Reasons :
                announced'[r] # announced[r] => announced'[r] = announced[r] + 1]_monitorVars
  <2> SUFFICES ASSUME MonitorNext, ~unsavedEnd', NEW r \in Reasons, announced'[r] # announced[r]
               PROVE  announced'[r] = announced[r] + 1
    BY <1>1
  <2> USE <1>1 DEF MonitorIInv, MonitorTypes
  <2>0. Sound(view)
    BY DEF Sound
  <2>1. CASE ReplaceWorker
    <3>1. savedIncident = incident /\ announced = incident
      BY <2>1 DEF ReplaceWorker
    <3>2. announced' = [announced EXCEPT !["connection_lost"] = incident'["connection_lost"]]
      BY <2>1 DEF ReplaceWorker
    <3>3. "connection_lost" \in Reasons /\ r = "connection_lost"
      BY <3>2 DEF Reasons
    <3>4. incident'["connection_lost"] \in {savedIncident["connection_lost"], savedIncident["connection_lost"] + 1}
      BY <2>1, <3>3 DEF ReplaceWorker, LoadSnapshot
    <3> QED
      BY <3>1, <3>2, <3>3, <3>4
  <2>2. CASE LoseConnection \/ QueueDelegation \/ SaveSnapshot
    BY <2>2 DEF LoseConnection, QueueDelegation, SaveSnapshot
  <2>3. ASSUME NEW v, Reconcile(v), UNCHANGED unsavedEnd PROVE announced'[r] = announced[r] + 1
    BY <2>3, ReconcileNumbers
  <2>4. CASE StartWatchedTurn
    BY <2>3, <2>4 DEF StartWatchedTurn
  <2>5. CASE ObserveEvent
    BY <2>3, <2>5 DEF ObserveEvent, Elsewhere
  <2>6. CASE FinalStatus
    BY <2>3, <2>6 DEF FinalStatus, Elsewhere
  <2>7. CASE EndWatchedTurn
    BY <2>3, <2>7 DEF EndWatchedTurn, Elsewhere
  <2>8. CASE PeriodPasses
    BY <2>3, <2>8 DEF PeriodPasses, Elsewhere
  <2>9. ASSUME NEW w \in WaitIds, AskInTurn(w) \/ AttachControls(w) \/ SettleInTurn(w) \/ TerminalizeCard(w)
        PROVE  announced'[r] = announced[r] + 1
    BY <2>3, <2>9 DEF AskInTurn, AttachControls, SettleInTurn, TerminalizeCard, Elsewhere
  <2> QED
    BY <2>1, <2>2, <2>4, <2>5, <2>6, <2>7, <2>8, <2>9 DEF MonitorNext
<1> QED
  BY <1>1, MonitorAgrees, PTL DEF MonitorSpec, EachChangeAnnouncedOnce

=============================================================================
