------------------------- MODULE InteractionProofs -------------------------
(***************************************************************************)
(* People and the gateway: the messages that start turns, the questions of *)
(* the app-server, the approval of an exact Git plan, the settings saved   *)
(* in the admin UI, and what a thread is told of a turn, each for any      *)
(* values of its constants.                                                *)
(***************************************************************************)
EXTENDS ChoiceRequests, GitApprovals, SlackEvents, AdminConfig, SlackProjection, FiniteSetTheorems,
        SequenceTheorems, TLAPS

(***************************************************************************)
(* SlackEvents. While no save of the ledger has failed, each turn of a     *)
(* message was cut by a crash, or is on file, or has its handler before    *)
(* it.                                                                     *)
(***************************************************************************)

ActiveOf(m) == {d \in Active : d[1] = m}

EventTypes ==
    /\ sent \in [Messages -> Nat] /\ turns \in [Messages -> Nat] /\ cut \in [Messages -> Nat]
    /\ listener \in [Deliveries -> {"none", "telling", "turn", "recording", "over"}]
    /\ saveFaults \in Nat

(* A handler is of an event that has been delivered, and that the process  *)
(* remembers; the process knows what the file does.                        *)
HandlersAgree ==
    /\ saved \subseteq ledger
    /\ \A d \in Deliveries : listener[d] # "none" => d[2] <= sent[d[1]]
    /\ \A d \in Active : d[1] \in seen
    /\ \A d \in At("recording") : d[1] \in ledger
    /\ drain # "no" => restartPending
    /\ drain = "idle" => At("turn") = {}

(* As long as no save has failed: a turn that was not cut is on file, or   *)
(* its handler goes on and the restart waits for it.                       *)
TurnIsAccounted(m) ==
    /\ turns[m] <= cut[m] + 1
    /\ turns[m] = cut[m] + 1 => m \in saved \/ (ActiveOf(m) # {} /\ drain # "idle")

EventIInv ==
    /\ EventTypes /\ HandlersAgree
    /\ saveFaults = 0 => \A m \in Messages : TurnIsAccounted(m)

LEMMA EventsHoldAtFirst == EventInit => EventIInv
<1> SUFFICES ASSUME EventInit PROVE EventIInv
    OBVIOUS
<1> USE DEF EventInit
<1>1. EventTypes
    BY DEF EventTypes
<1>2. \A d \in Deliveries : listener[d] = "none"
    OBVIOUS
<1>3. HandlersAgree
    BY <1>2 DEF HandlersAgree, Active, At
<1>4. \A m \in Messages : TurnIsAccounted(m)
    BY DEF TurnIsAccounted
<1>. QED BY <1>1, <1>3, <1>4 DEF EventIInv

LEMMA ActiveIsCounted ==
    ASSUME NEW m \in Messages
    PROVE  Cardinality(ActiveOf(m)) \in Nat /\ (ActiveOf(m) # {} => Cardinality(ActiveOf(m)) > 0)
<1> DEFINE places == {d[2] : d \in ActiveOf(m)}
           back == [n \in places |-> <<m, n>>]
<1>1. ActiveOf(m) \subseteq Deliveries /\ \A d \in ActiveOf(m) : d = <<m, d[2]>>
    BY DEF ActiveOf, Active, At, Deliveries
<1>2. places \subseteq 1..MaxDeliveries
    BY <1>1 DEF Deliveries
<1>3. IsFiniteSet(places)
    <2>1. MaxDeliveries \in Nat
        BY EventAssumption
    <2>2. IsFiniteSet(1..MaxDeliveries)
        BY <2>1, FS_Interval
    <2>. HIDE DEF places
    <2>. QED BY <1>2, <2>2, FS_Subset
<1>4. ActiveOf(m) = {<<m, n>> : n \in places}
    BY <1>1
<1>. HIDE DEF places
<1>5. IsFiniteSet({<<m, n>> : n \in places})
    <2>1. back \in Surjection(places, {<<m, n>> : n \in places})
        BY DEF Surjection
    <2>. QED BY <1>3, <2>1, FS_Surjection
<1>6. IsFiniteSet(ActiveOf(m))
    BY <1>4, <1>5
<1>7. PICK S : S = ActiveOf(m)
    OBVIOUS
<1>8. Cardinality(S) \in Nat /\ (Cardinality(S) = 0 <=> S = {})
    BY <1>6, <1>7, FS_CardinalityType, FS_EmptySet
<1>. QED BY <1>7, <1>8

LEMMA EventsAreKept == EventIInv /\ [EventNext]_eventVars => EventIInv'
<1> SUFFICES ASSUME EventIInv, [EventNext]_eventVars PROVE EventIInv'
    OBVIOUS
<1> USE DEF EventIInv, EventTypes, HandlersAgree
<1>1. CASE UNCHANGED eventVars
    BY <1>1 DEF eventVars, TurnIsAccounted, ActiveOf, Active, At
<1>2. ASSUME NEW m \in Messages, Deliver(m) PROVE EventIInv'
  <2> DEFINE d == <<m, sent[m] + 1>>
  <2>1. d \in Deliveries /\ listener[d] = "none" /\ d[1] = m /\ d[2] = sent[m] + 1
    BY <1>2, EventAssumption DEF Deliver, Deliveries
  <2>. HIDE DEF d
  <2>2. /\ sent' = [sent EXCEPT ![m] = sent[m] + 1]
        /\ UNCHANGED <<ledger, saved, restartPending, drain, saveFaults, cut>>
        /\ \/ Remembered(m) /\ listener' = [listener EXCEPT ![d] = "over"] /\ UNCHANGED <<seen, turns>>
           \/ /\ ~Remembered(m) /\ restartPending
              /\ listener' = [listener EXCEPT ![d] = "telling"] /\ seen' = seen \cup {m} /\ UNCHANGED turns
           \/ /\ ~Remembered(m) /\ ~restartPending
              /\ listener' = [listener EXCEPT ![d] = "turn"] /\ seen' = seen \cup {m}
              /\ turns' = [turns EXCEPT ![m] = turns[m] + 1]
    BY <1>2 DEF Deliver, d
  <2>3. EventTypes'
    BY <2>1, <2>2
  <2>4. /\ \A e \in Deliveries : e # d => listener'[e] = listener[e]
        /\ listener'[d] \in {"over", "telling", "turn"}
        /\ listener'[d] # "over" => m \in seen' /\ ~Remembered(m)
        /\ listener'[d] = "turn" => ~restartPending
        /\ listener'[d] # "turn" => UNCHANGED turns
    BY <2>1, <2>2
  <2>5. HandlersAgree'
    <3>1. \A e \in Deliveries : listener'[e] # "none" => e[2] <= sent'[e[1]]
      <4>1. \A e \in Deliveries : e[1] \in Messages /\ e[2] \in Nat
        BY EventAssumption DEF Deliveries
      <4>. QED BY <2>1, <2>2, <2>4, <4>1
    <3>2. \A e \in Active' : e[1] \in seen'
      BY <2>1, <2>2, <2>4 DEF Active, At
    <3>3. \A e \in At("recording")' : e[1] \in ledger'
      BY <2>1, <2>2, <2>4 DEF At
    <3>4. drain' = "idle" => At("turn")' = {}
      BY <2>1, <2>2, <2>4 DEF At
    <3>. QED BY <2>2, <3>1, <3>2, <3>3, <3>4
  <2>6. ASSUME saveFaults = 0, NEW n \in Messages PROVE TurnIsAccounted(n)'
    <3>1. TurnIsAccounted(n)
      BY <2>6
    <3>2. ActiveOf(n) \subseteq ActiveOf(n)'
      BY <2>1, <2>4 DEF ActiveOf, Active, At
    <3>3. CASE n # m \/ UNCHANGED turns
      <4>1. turns'[n] = turns[n] /\ cut'[n] = cut[n] /\ drain' = drain /\ saved' = saved
        BY <2>2, <3>3
      <4>. QED BY <3>1, <3>2, <4>1 DEF TurnIsAccounted
    <3>4. CASE n = m /\ ~Remembered(m) /\ ~restartPending /\ listener'[d] = "turn"
               /\ turns' = [turns EXCEPT ![m] = turns[m] + 1]
      <4>1. ActiveOf(m) = {} /\ m \notin saved
        BY <3>4 DEF Remembered, ActiveOf
      <4>2. turns[m] <= cut[m] /\ turns[m] \in Nat /\ cut[m] \in Nat
        BY <3>1, <3>4, <4>1 DEF TurnIsAccounted
      <4>3. d \in ActiveOf(m)'
        BY <2>1, <3>4 DEF ActiveOf, Active, At
      <4>4. turns'[m] = turns[m] + 1 /\ cut'[m] = cut[m] /\ drain' # "idle"
        BY <2>2, <3>4
      <4>. QED BY <3>4, <4>2, <4>3, <4>4 DEF TurnIsAccounted
    <3>. QED BY <2>1, <2>2, <3>3, <3>4
  <2>. QED BY <2>2, <2>3, <2>5, <2>6
<1>3. ASSUME NEW d \in Deliveries, BeginRecord(d) PROVE EventIInv'
  <2>1. /\ listener[d] \in {"telling", "turn"}
        /\ listener' = [listener EXCEPT ![d] = "recording"] /\ ledger' = ledger \cup {d[1]}
        /\ UNCHANGED <<sent, seen, saved, restartPending, drain, saveFaults, turns, cut>>
    BY <1>3 DEF BeginRecord
  <2>2. Active' = Active /\ At("turn")' \subseteq At("turn")
    BY <2>1 DEF Active, At
  <2>3. EventTypes' /\ HandlersAgree'
    BY <2>1, <2>2 DEF At
  <2>4. \A m \in Messages : TurnIsAccounted(m) => TurnIsAccounted(m)'
    BY <2>1, <2>2 DEF TurnIsAccounted, ActiveOf
  <2>. QED BY <2>1, <2>3, <2>4
<1>4. ASSUME NEW d \in Deliveries, Recorded(d) PROVE EventIInv'
  <2>1. /\ listener[d] = "recording" /\ listener' = [listener EXCEPT ![d] = "over"]
        /\ drain' = IF Active = {d} /\ drain = "waiting" THEN "idle" ELSE drain
        /\ \/ saved' = ledger /\ saveFaults' = saveFaults
           \/ saveFaults' = saveFaults + 1 /\ saved' = saved
        /\ UNCHANGED <<sent, seen, ledger, restartPending, turns, cut>>
    BY <1>4 DEF Recorded, HandlerEnds
  <2>2. Active' = Active \ {d} /\ At("turn")' = At("turn") /\ At("turn") \subseteq Active
    BY <2>1 DEF Active, At
  <2>3. EventTypes' /\ HandlersAgree'
    <3>1. drain' = "idle" => At("turn")' = {}
      BY <2>1, <2>2 DEF At
    <3>2. At("recording")' \subseteq At("recording")
      BY <2>1 DEF At
    <3>. QED BY <2>1, <2>2, <3>1, <3>2
  <2>4. ASSUME saveFaults' = 0, NEW m \in Messages PROVE TurnIsAccounted(m)'
    <3>1. saveFaults = 0 /\ saved' = ledger /\ TurnIsAccounted(m)
      BY <2>1, <2>4
    <3>2. d[1] \in ledger /\ d \in Active
      BY <2>1 DEF At, Active
    <3>3. CASE d[1] = m
      BY <2>1, <3>1, <3>2, <3>3 DEF TurnIsAccounted
    <3>4. CASE d[1] # m
      <4>1. ActiveOf(m)' = ActiveOf(m) /\ d \notin ActiveOf(m) /\ ActiveOf(m) \subseteq Active
        BY <2>2, <3>4 DEF ActiveOf
      <4>2. ActiveOf(m) # {} /\ drain # "idle" => drain' # "idle"
        BY <2>1, <4>1
      <4>. QED BY <2>1, <3>1, <4>1, <4>2 DEF TurnIsAccounted
    <3>. QED BY <3>3, <3>4
  <2>. QED BY <2>3, <2>4
<1>5. CASE SavedByOther
  <2>1. Active' = Active
    BY <1>5 DEF SavedByOther, Active, At
  <2>2. \A m \in Messages : TurnIsAccounted(m) => TurnIsAccounted(m)'
    BY <1>5, <2>1 DEF SavedByOther, TurnIsAccounted, ActiveOf
  <2>. QED BY <1>5, <2>1, <2>2 DEF SavedByOther, At
<1>6. CASE BeginRestart
  <2>1. /\ UNCHANGED <<listener, saved, turns, cut, saveFaults>>
        /\ drain' = IF Active = {} THEN "idle" ELSE "waiting"
    BY <1>6 DEF BeginRestart
  <2>2. Active' = Active /\ At("turn") \subseteq Active /\ At("turn")' = At("turn")
    BY <2>1 DEF Active, At
  <2>3. \A m \in Messages : TurnIsAccounted(m) => TurnIsAccounted(m)'
    BY <2>1, <2>2 DEF TurnIsAccounted, ActiveOf
  <2>4. EventTypes' /\ HandlersAgree'
    BY <1>6, <2>1, <2>2 DEF BeginRestart, At
  <2>. QED BY <2>1, <2>3, <2>4
<1>7. ASSUME NextProcess, Restart \/ Crash PROVE EventIInv'
  <2>1. /\ listener' = [e \in Deliveries |-> IF sent[e[1]] >= e[2] THEN "over" ELSE "none"]
        /\ seen' = {} /\ ledger' = saved /\ restartPending' = FALSE /\ drain' = "no"
        /\ UNCHANGED <<sent, saved, saveFaults, turns>>
    BY <1>7 DEF NextProcess
  <2>2. Active' = {} /\ At("recording")' = {}
    BY <2>1 DEF Active, At
  <2>3. \A e \in Deliveries : listener'[e] # "none" => e[2] <= sent'[e[1]]
    <3>1. \A e \in Deliveries : e[1] \in Messages /\ e[2] \in Nat
      BY EventAssumption DEF Deliveries
    <3>. QED BY <2>1, <3>1
  <2>4. HandlersAgree'
    BY <2>1, <2>2, <2>3
  <2>5. CASE Restart
    <3>1. drain = "idle" /\ cut' = cut
      BY <2>5 DEF Restart
    <3>2. \A m \in Messages : TurnIsAccounted(m) => TurnIsAccounted(m)'
      BY <2>1, <3>1 DEF TurnIsAccounted
    <3>. QED BY <2>1, <2>4, <3>1, <3>2
  <2>6. CASE Crash
    <3>1. \A m \in Messages : cut'[m] = cut[m] + Cardinality(ActiveOf(m))
      BY <2>6 DEF Crash, ActiveOf
    <3>2. cut' \in [Messages -> Nat]
      <4>1. cut' = [m \in Messages |-> cut[m] + Cardinality(ActiveOf(m))]
        BY <2>6 DEF Crash, ActiveOf
      <4>. QED BY <4>1, ActiveIsCounted
    <3>3. ASSUME saveFaults = 0, NEW m \in Messages PROVE TurnIsAccounted(m)'
      <4>1. turns'[m] = turns[m] /\ turns[m] \in Nat /\ cut[m] \in Nat /\ TurnIsAccounted(m)
        BY <2>1, <3>3
      <4>2. PICK n \in Nat : n = Cardinality(ActiveOf(m)) /\ (ActiveOf(m) # {} => n > 0)
        BY ActiveIsCounted
      <4>3. cut'[m] = cut[m] + n
        BY <3>1, <4>2
      <4>. QED BY <2>1, <4>1, <4>2, <4>3 DEF TurnIsAccounted
    <3>. QED BY <2>1, <2>4, <3>2, <3>3
  <2>. QED BY <1>7, <2>5, <2>6
<1>. QED
    BY <1>1, <1>2, <1>3, <1>4, <1>5, <1>6, <1>7 DEF EventNext, Restart, Crash

(* As long as no save of the event ledger has failed, a message starts one *)
(* turn and one more for each time its turn was cut by a crash, however    *)
(* often Slack delivers it and to whichever process (EventLedger, the      *)
(* frontend's handleMessage).                                              *)
THEOREM TurnsAreOfMessages == EventSpec => []MessageStartsOneTurn
<1>1. EventIInv => MessageStartsOneTurn
    BY DEF EventIInv, EventTypes, TurnIsAccounted, MessageStartsOneTurn
<1>. QED BY <1>1, EventsHoldAtFirst, EventsAreKept, PTL DEF EventSpec

(***************************************************************************)
(* AdminConfig. What the files, a page and a save in progress agree on.    *)
(***************************************************************************)

Removable == Optional \cup {Retired}
Complete(settings) == \A f \in Fields : settings[f] = Absent => f \in Removable

(* An override changes its setting, and removes none that must be there.   *)
Changes(over) ==
    \A f \in Fields : over[f] # NoOverride =>
        /\ over[f].value # over[f].expected
        /\ over[f].value = Absent => f \in Removable
Expects(over, base) == \A f \in Fields : over[f] # NoOverride => over[f].expected = base[f]
Suits(over, base) == Expects(over, base) /\ Valid(Effective(base, over))

SaveInProgress == [of : Tabs, base : Settings, over : Overrides, next : Overrides]
Planning == {"built", "lock", "write"}

FilesAgree ==
    /\ canonical \in Settings /\ Complete(canonical)
    /\ overrides \in Overrides /\ Changes(overrides)
    /\ ~clashed => Suits(overrides, canonical)

(* A page shows what both files had together, a form is complete.          *)
TabAgrees(t) ==
    /\ \E base \in Settings, over \in Overrides :
          /\ Complete(base) /\ Changes(over) /\ Valid(Effective(base, over))
          /\ page[t] = Snapshot(base, over)
    /\ form[t] \in Settings /\ Complete(form[t])

(* The save in progress is of one tab, whose page is what it has read; the *)
(* new sidecar suits config.yaml from the second comparison on.            *)
SaveAgrees(t) ==
    /\ put[t] \in Planning \cup {"load", "reread"} =>
          save \in SaveInProgress /\ save.of = t
    /\ put[t] \in Planning =>
          /\ page[t].revision = <<save.base, save.over>>
          /\ Applies(save.base, save.over)
          /\ save.next = BuildOverrides(save.base, CollectAgent(form[t]))
    /\ put[t] \in {"lock", "write"} /\ ~clashed => Suits(save.next, canonical)

AdminIInv ==
    /\ page \in [Tabs -> {Snapshot(base, over) : base \in Settings, over \in Overrides}]
    /\ form \in [Tabs -> Settings] /\ put \in [Tabs -> PutStates] /\ clashed \in BOOLEAN
    /\ save \in {NoSave} \cup SaveInProgress
    /\ FilesAgree
    /\ \A t \in Tabs : TabAgrees(t) /\ SaveAgrees(t)

LEMMA OverridesAreNotNone ==
    /\ \A o \in Override : o # NoOverride
    /\ \A s \in SaveInProgress : s # NoSave
<1>1. \A o \in Override : "expected" \in DOMAIN o
    BY DEF Override
<1>2. "expected" \notin DOMAIN NoOverride
    BY DEF NoOverride
<1>3. \A s \in SaveInProgress : "base" \in DOMAIN s
    BY DEF SaveInProgress
<1>4. "base" \notin DOMAIN NoSave
    BY DEF NoSave
<1>. QED BY <1>1, <1>2, <1>3, <1>4

(* What a page shows and what is planned.                                  *)
LEMMA EffectiveIsComplete ==
    ASSUME NEW base \in Settings, NEW over \in Overrides, Complete(base), Changes(over)
    PROVE  Effective(base, over) \in Settings /\ Complete(Effective(base, over))
<1>1. \A f \in Fields : base[f] \in Data
    BY DEF Settings
<1>2. \A f \in Fields : over[f] # NoOverride => over[f].value \in Data
    BY DEF Overrides, Override
<1>. QED BY <1>1, <1>2 DEF Settings, Effective, Complete, Changes

LEMMA PlanIsSound ==
    ASSUME NEW base \in Settings, NEW target \in Settings, Complete(target)
    PROVE  LET plan == BuildOverrides(base, target)
           IN  /\ plan \in Overrides /\ Changes(plan) /\ Expects(plan, base)
               /\ Effective(base, plan) = target
<1> DEFINE plan == BuildOverrides(base, target)
<1>1. \A f \in Fields :
         IF base[f] = target[f] THEN plan[f] = NoOverride
           ELSE plan[f] = [expected |-> base[f], value |-> target[f]] /\ plan[f] \in Override
    BY DEF BuildOverrides, Settings, Override
<1>2. plan \in Overrides
    BY <1>1 DEF BuildOverrides, Overrides
<1>. HIDE DEF plan
<1>3. \A f \in Fields : plan[f] # NoOverride =>
         target[f] # base[f] /\ plan[f].value = target[f] /\ plan[f].expected = base[f]
    <2>1. SUFFICES ASSUME NEW f \in Fields, plan[f] # NoOverride
                   PROVE  target[f] # base[f] /\ plan[f].value = target[f] /\ plan[f].expected = base[f]
        OBVIOUS
    <2>2. base[f] # target[f] /\ plan[f] = [expected |-> base[f], value |-> target[f]]
        BY <1>1, <2>1
    <2>. QED BY <2>2
<1>4. Changes(plan) /\ Expects(plan, base)
    BY <1>3 DEF Changes, Expects, Complete
<1>5. \A f \in Fields : Effective(base, plan)[f] = target[f]
    <2>1. SUFFICES ASSUME NEW f \in Fields PROVE Effective(base, plan)[f] = target[f]
        OBVIOUS
    <2>2. CASE base[f] = target[f]
        BY <1>1, <2>2 DEF Effective
    <2>3. CASE base[f] # target[f]
        <3>1. plan[f] = [expected |-> base[f], value |-> target[f]] /\ plan[f] \in Override
            BY <1>1, <2>3
        <3>2. plan[f] # NoOverride
            BY <3>1, OverridesAreNotNone
        <3>. QED BY <3>1, <3>2 DEF Effective
    <2>. QED BY <2>2, <2>3
<1>6. Effective(base, plan) = target
    BY <1>5 DEF Effective, Settings
<1>. QED BY <1>2, <1>4, <1>6 DEF plan

LEMMA ChoicesAreSound ==
    ASSUME NEW f \in Fields
    PROVE  Choices(f) \subseteq Data /\ (Absent \in Choices(f) => f \in Removable)
BY AdminAssumption DEF Choices, Data, Removable, Fields, Session, Scope, ChoiceMode, Retired

(* What is sent for a form can be the settings of a Koe.                   *)
LEMMA SentIsSound ==
    ASSUME NEW filled \in Settings, Complete(filled)
    PROVE  /\ CollectAgent(filled) \in Settings
           /\ Complete(CollectAgent(filled)) /\ Valid(CollectAgent(filled))
<1>1. \A f \in Fields :
         /\ CollectAgent(filled)[f] \in Data
         /\ CollectAgent(filled)[f] = Absent => f \in Removable
    BY AdminAssumption DEF CollectAgent, Settings, Data, Complete, Removable, ModeValues,
       Session, ChoiceMode
<1>2. Session \in Fields /\ Scope \in Fields
    BY AdminAssumption DEF Fields
<1>3. filled[Scope] # "channel" => CollectAgent(filled)[Session] = Absent
    BY <1>2 DEF CollectAgent, Session, ChoiceMode, Retired
<1>4. filled[Scope] = "channel" => CollectAgent(filled)[Scope] = "channel"
    BY <1>2, AdminAssumption DEF CollectAgent, ScopeValues, Scope, Session, ChoiceMode, Retired
<1>. QED BY <1>1, <1>3, <1>4 DEF CollectAgent, Settings, Complete, Valid

LEMMA AdminHoldsAtFirst == AdminInit => AdminIInv
<1> SUFFICES ASSUME AdminInit PROVE AdminIInv
    OBVIOUS
<1> USE AdminAssumption DEF AdminInit
<1>1. canonical \in Settings /\ Complete(canonical)
    BY ChoicesAreSound DEF Complete
<1>2. overrides \in Overrides /\ Changes(overrides) /\ Suits(overrides, canonical)
    <2>1. Effective(canonical, overrides) = canonical
        BY DEF Effective, Settings
    <2>. QED BY <2>1 DEF Overrides, Changes, Expects, Suits
<1>3. \A t \in Tabs : TabAgrees(t) /\ SaveAgrees(t)
    BY <1>1, <1>2 DEF TabAgrees, SaveAgrees, Planning, Suits
<1>4. /\ page \in [Tabs -> {Snapshot(base, over) : base \in Settings, over \in Overrides}]
      /\ form \in [Tabs -> Settings] /\ put \in [Tabs -> PutStates]
    BY <1>1, <1>2 DEF PutStates
<1>5. clashed \in BOOLEAN /\ save \in {NoSave} \cup SaveInProgress
    BY Zenon
<1>. HIDE DEF AdminInit
<1>. QED BY <1>1, <1>2, <1>3, <1>4, <1>5 DEF AdminIInv, FilesAgree

LEMMA AdminIsKept == AdminIInv /\ [AdminNext]_adminVars => AdminIInv'
<1> SUFFICES ASSUME AdminIInv, [AdminNext]_adminVars PROVE AdminIInv'
    OBVIOUS
<1> USE DEF files, saving, operator, PutStates, Planning
<1>0. /\ page \in [Tabs -> {Snapshot(base, over) : base \in Settings, over \in Overrides}]
      /\ form \in [Tabs -> Settings] /\ put \in [Tabs -> PutStates] /\ clashed \in BOOLEAN
      /\ save \in {NoSave} \cup SaveInProgress
      /\ FilesAgree
      /\ \A t \in Tabs : TabAgrees(t) /\ SaveAgrees(t)
    BY DEF AdminIInv
<1>1. CASE UNCHANGED adminVars
    <2>1. UNCHANGED <<canonical, overrides, page, form, put, save, clashed>>
        BY <1>1 DEF adminVars
    <2>. QED BY <1>0, <2>1 DEF AdminIInv, FilesAgree, TabAgrees, SaveAgrees
<1>2. ASSUME NEW t \in Tabs, GetConfig(t) PROVE AdminIInv'
    <2>1. /\ put[t] = "none" /\ put' = [put EXCEPT ![t] = "page"]
          /\ page' = [page EXCEPT ![t] = Snapshot(canonical, overrides)]
          /\ Valid(Effective(canonical, overrides))
          /\ UNCHANGED <<canonical, overrides, form, save, clashed>>
        BY <1>2 DEF GetConfig, Loads
    <2>2. \A u \in Tabs : TabAgrees(u)'
        BY <1>0, <2>1 DEF FilesAgree, TabAgrees
    <2>3. \A u \in Tabs : SaveAgrees(u)'
        BY <1>0, <2>1 DEF SaveAgrees
    <2>4. page' \in [Tabs -> {Snapshot(base, over) : base \in Settings, over \in Overrides}]
        BY <1>0, <2>1 DEF FilesAgree
    <2>. QED BY <1>0, <2>1, <2>2, <2>3, <2>4 DEF AdminIInv, FilesAgree
<1>3. ASSUME NEW t \in Tabs, NEW f \in Fields, NEW v \in Choices(f),
             NEW session \in Choices(Session), PutConfig(t, f, v, session)
      PROVE  AdminIInv'
    <2> DEFINE next == [page[t].settings EXCEPT ![f] = v, ![Session] = session]
    <2>1. /\ put[t] = "page" /\ put' = [put EXCEPT ![t] = "queued"]
          /\ form' = [form EXCEPT ![t] = next]
          /\ UNCHANGED <<canonical, overrides, page, save, clashed>>
        BY <1>3 DEF PutConfig
    <2>2. page[t].settings \in Settings /\ Complete(page[t].settings)
        BY <1>0, EffectiveIsComplete DEF TabAgrees, Snapshot
    <2>3. next \in Settings /\ Complete(next)
        <3>1. Session \in Fields
            BY AdminAssumption DEF Fields
        <3>2. /\ v \in Data /\ (v = Absent => f \in Removable)
              /\ session \in Data /\ (session = Absent => Session \in Removable)
            BY <3>1, ChoicesAreSound
        <3>. QED BY <2>2, <3>2 DEF Settings, Complete
    <2>. HIDE DEF next
    <2>4. \A u \in Tabs : TabAgrees(u)'
        BY <1>0, <2>1, <2>3 DEF TabAgrees
    <2>5. \A u \in Tabs : SaveAgrees(u)'
        BY <1>0, <2>1 DEF SaveAgrees
    <2>. QED BY <1>0, <2>1, <2>3, <2>4, <2>5 DEF AdminIInv, FilesAgree
<1>4. ASSUME NEW t \in Tabs, PutRefused(t) \/ ApplySaved(t) PROVE AdminIInv'
    <2>1. /\ put' \in {[put EXCEPT ![t] = s] : s \in {"refused", "saved", "failed"}}
          /\ UNCHANGED <<canonical, overrides, page, form, save, clashed>>
        BY <1>4 DEF PutRefused, ApplySaved, PutGoes
    <2>2. \A u \in Tabs : TabAgrees(u)' /\ SaveAgrees(u)'
        BY <1>0, <2>1 DEF TabAgrees, SaveAgrees
    <2>. QED BY <1>0, <2>1, <2>2 DEF AdminIInv, FilesAgree
<1>5. ASSUME NEW t \in Tabs, StartSave(t) PROVE AdminIInv'
    <2>1. /\ save = NoSave /\ put' = [put EXCEPT ![t] = "load"]
          /\ save' = [of |-> t, base |-> canonical, over |-> overrides, next |-> overrides]
          /\ UNCHANGED <<canonical, overrides, page, form, clashed>>
        BY <1>5 DEF StartSave, PutGoes
    <2>2. save' \in SaveInProgress /\ save'.of = t
        BY <1>0, <2>1 DEF FilesAgree, SaveInProgress
    <2>3. \A u \in Tabs : put[u] \notin {"load", "built", "lock", "write", "reread"}
        BY <1>0, <2>1, OverridesAreNotNone DEF SaveAgrees
    <2>4. \A u \in Tabs : TabAgrees(u)' /\ SaveAgrees(u)'
        BY <1>0, <2>1, <2>2, <2>3 DEF TabAgrees, SaveAgrees
    <2>. QED BY <1>0, <2>1, <2>2, <2>4 DEF AdminIInv, FilesAgree
<1>6. ASSUME NEW t \in Tabs, put[t] \in {"load", "built", "lock", "write", "reread"},
             save' = NoSave, UNCHANGED <<canonical, form, clashed>>,
             NEW s \in PutStates \ {"load", "built", "lock", "write", "reread"},
             put' = [put EXCEPT ![t] = s],
             overrides' = overrides \/ (put[t] = "write" /\ overrides' = save.next),
             \/ page' = page
             \/ /\ page' = [page EXCEPT ![t] = Snapshot(canonical, overrides)]
                /\ overrides' = overrides /\ Valid(Effective(canonical, overrides))
      PROVE  AdminIInv'
    <2>1. save.of = t /\ save \in SaveInProgress
        BY <1>0, <1>6 DEF SaveAgrees
    <2>2. \A u \in Tabs : put'[u] \notin {"load", "built", "lock", "write", "reread"}
        BY <1>0, <1>6, <2>1 DEF SaveAgrees
    <2>3. \A u \in Tabs : SaveAgrees(u)'
        BY <2>2 DEF SaveAgrees
    <2>4. \A u \in Tabs : TabAgrees(u)'
        BY <1>0, <1>6 DEF FilesAgree, TabAgrees
    <2>5. FilesAgree'
        <3>1. CASE overrides' = overrides
            BY <1>0, <1>6, <3>1 DEF FilesAgree
        <3>2. CASE put[t] = "write" /\ overrides' = save.next
            <4>1. /\ save.next = BuildOverrides(save.base, CollectAgent(form[t]))
                  /\ ~clashed => Suits(save.next, canonical)
                BY <1>0, <3>2 DEF SaveAgrees
            <4>2. /\ save.base \in Settings /\ CollectAgent(form[t]) \in Settings
                  /\ Complete(CollectAgent(form[t]))
                BY <1>0, <2>1, SentIsSound DEF SaveInProgress, TabAgrees
            <4>3. save.next \in Overrides /\ Changes(save.next)
                BY <4>1, <4>2, PlanIsSound
            <4>. QED BY <1>0, <1>6, <3>2, <4>1, <4>3 DEF FilesAgree
        <3>. QED BY <1>6, <3>1, <3>2
    <2>6. page' \in [Tabs -> {Snapshot(base, over) : base \in Settings, over \in Overrides}]
        BY <1>0, <1>6 DEF FilesAgree
    <2>7. /\ form' \in [Tabs -> Settings] /\ put' \in [Tabs -> PutStates]
          /\ save' \in {NoSave} \cup SaveInProgress
        BY <1>0, <1>6
    <2>8. clashed' \in BOOLEAN
        <3>1. clashed' = clashed
            BY <1>6
        <3>2. clashed \in BOOLEAN
            BY <1>0
        <3>. QED BY <3>1, <3>2, Zenon
    <2>. QED BY <2>3, <2>4, <2>5, <2>6, <2>7, <2>8 DEF AdminIInv
<1>7. ASSUME NEW t \in Tabs, LoadAndCompare(t) PROVE AdminIInv'
    <2>1. put[t] = "load" /\ UNCHANGED <<canonical, overrides, page, form, clashed>>
        BY <1>7 DEF LoadAndCompare, Saving
    <2>2. CASE save' = NoSave /\ (PutGoes(t, "conflict") \/ PutGoes(t, "refused"))
        BY <1>6, <2>1, <2>2 DEF PutGoes
    <2>3. CASE /\ Loads(save.base, overrides) /\ page[t].revision = <<save.base, overrides>>
               /\ save' = Planned(t) /\ PutGoes(t, "built")
        <3>1. save \in SaveInProgress /\ save.of = t
            BY <1>0, <2>1 DEF SaveAgrees
        <3>2. BuildOverrides(save.base, CollectAgent(form[t])) \in Overrides
            BY <1>0, <3>1, PlanIsSound, SentIsSound DEF TabAgrees, SaveInProgress
        <3>3. /\ save' \in SaveInProgress /\ save'.of = t /\ save'.base = save.base
              /\ save'.over = overrides /\ save'.next = BuildOverrides(save.base, CollectAgent(form[t]))
            <4>1. save' = [save EXCEPT !.over = overrides,
                                       !.next = BuildOverrides(save.base, CollectAgent(form[t]))]
                BY <2>3 DEF Planned
            <4>2. overrides \in Overrides
                BY <1>0 DEF FilesAgree
            <4>. QED BY <3>1, <3>2, <4>1, <4>2 DEF SaveInProgress
        <3>4. /\ \A u \in Tabs \ {t} : put'[u] = put[u] /\ put[u] \notin Planning \cup {"load", "reread"}
              /\ put'[t] = "built"
            BY <1>0, <2>1, <2>3, <3>1 DEF SaveAgrees, PutGoes
        <3>5. \A u \in Tabs : TabAgrees(u)'
            BY <1>0, <2>1 DEF TabAgrees
        <3>6. \A u \in Tabs : SaveAgrees(u)'
            BY <2>1, <2>3, <3>3, <3>4 DEF SaveAgrees, Loads
        <3>. QED BY <1>0, <2>1, <2>3, <3>3, <3>5, <3>6 DEF AdminIInv, FilesAgree, PutGoes
    <2>. QED BY <1>7, <2>2, <2>3 DEF LoadAndCompare
<1>8. ASSUME NEW t \in Tabs, NEW s \in {"lock", "write", "reread"},
             put[t] \in Planning, put' = [put EXCEPT ![t] = s],
             put[t] = "built" => canonical = save.base, s = "reread" => put[t] = "write",
             UNCHANGED <<canonical, page, form, save, clashed>>,
             IF s = "reread" THEN overrides' = save.next ELSE overrides' = overrides
      PROVE  AdminIInv'
    <2>1. /\ save \in SaveInProgress /\ save.of = t /\ save.base \in Settings
          /\ save.next = BuildOverrides(save.base, CollectAgent(form[t]))
          /\ CollectAgent(form[t]) \in Settings
          /\ Complete(CollectAgent(form[t])) /\ Valid(CollectAgent(form[t]))
        BY <1>0, <1>8, SentIsSound DEF SaveAgrees, SaveInProgress, TabAgrees
    <2>2. save.next \in Overrides /\ Changes(save.next) /\ Suits(save.next, save.base)
        BY <2>1, PlanIsSound DEF Suits
    <2>3. ~clashed => Suits(save.next, canonical)
        BY <1>0, <1>8, <2>2 DEF SaveAgrees
    <2>4. FilesAgree'
        BY <1>0, <1>8, <2>2, <2>3 DEF FilesAgree
    <2>5. \A u \in Tabs : TabAgrees(u)'
        BY <1>0, <1>8 DEF TabAgrees
    <2>6. SaveAgrees(t)'
        BY <1>0, <1>8, <2>1, <2>3 DEF SaveAgrees
    <2>7. \A u \in Tabs \ {t} : SaveAgrees(u)'
        BY <1>0, <1>8, <2>1 DEF SaveAgrees
    <2>. QED BY <1>0, <1>8, <2>4, <2>5, <2>6, <2>7 DEF AdminIInv
<1>9. ASSUME NEW t \in Tabs, CompareCanonical(t) PROVE AdminIInv'
    <2>1. put[t] = "built" /\ UNCHANGED <<canonical, overrides, page, form, clashed>>
        BY <1>9 DEF CompareCanonical, Saving
    <2>2. CASE canonical = save.base /\ UNCHANGED save /\ PutGoes(t, "lock")
        BY <1>8, <2>1, <2>2 DEF PutGoes
    <2>3. CASE save' = NoSave /\ PutGoes(t, "conflict")
        BY <1>6, <2>1, <2>3 DEF PutGoes
    <2>. QED BY <1>9, <2>2, <2>3 DEF CompareCanonical
<1>10. ASSUME NEW t \in Tabs, AcquireSaveLock(t) PROVE AdminIInv'
    <2>1. put[t] = "lock" /\ UNCHANGED <<canonical, overrides, page, form, clashed>>
        BY <1>10 DEF AcquireSaveLock, Saving
    <2>2. CASE PutGoes(t, "write") /\ UNCHANGED save
        BY <1>8, <2>1, <2>2 DEF PutGoes
    <2>3. CASE save' = NoSave /\ PutGoes(t, "conflict")
        BY <1>6, <2>1, <2>3 DEF PutGoes
    <2>. QED BY <1>10, <2>2, <2>3 DEF AcquireSaveLock
<1>11. ASSUME NEW t \in Tabs, WriteAdminOverrides(t) PROVE AdminIInv'
    <2>1. put[t] = "write" /\ UNCHANGED <<canonical, page, form, clashed>>
        BY <1>11 DEF WriteAdminOverrides, Saving
    <2>2. CASE overrides' = save.next /\ UNCHANGED save /\ PutGoes(t, "reread")
        BY <1>8, <2>1, <2>2 DEF PutGoes
    <2>3. CASE /\ save' = NoSave
               /\ PutGoes(t, "conflict") \/ PutGoes(t, "failed")
               /\ overrides' \in {overrides, save.next}
        BY <1>6, <2>1, <2>3 DEF PutGoes
    <2>. QED BY <1>11, <2>2, <2>3 DEF WriteAdminOverrides
<1>12. ASSUME NEW t \in Tabs, ReadSaved(t) PROVE AdminIInv'
    <2>1. put[t] = "reread" /\ save' = NoSave /\ UNCHANGED <<canonical, overrides, form, clashed>>
        BY <1>12 DEF ReadSaved, Saving
    <2>2. CASE PutGoes(t, "conflict") /\ UNCHANGED page
        BY <1>6, <2>1, <2>2 DEF PutGoes
    <2>3. CASE /\ PutGoes(t, "apply") /\ page' = [page EXCEPT ![t] = Snapshot(canonical, overrides)]
               /\ Valid(Effective(canonical, overrides))
        BY <1>6, <2>1, <2>3 DEF PutGoes
    <2>. QED BY <1>12, <2>2, <2>3 DEF ReadSaved, Loads
<1>13. ASSUME NEW f \in Fields, NEW v \in Choices(f), OperatorEdits(f, v) PROVE AdminIInv'
    <2> DEFINE tied == IF f \in {Scope, Session} THEN {Scope, Session} ELSE {f}
               inWriting == save # NoSave /\ put[save.of] \in {"lock", "write"}
               listed == {g \in Fields : \/ overrides[g] # NoOverride
                                        \/ (inWriting /\ save.next[g] # NoOverride)}
    <2>1. /\ canonical' = [canonical EXCEPT ![f] = v] /\ Valid(canonical')
          /\ clashed' = (clashed \/ tied \cap listed # {})
          /\ UNCHANGED <<overrides, page, form, put, save>>
        BY <1>13 DEF OperatorEdits
    <2>2. canonical' \in Settings /\ Complete(canonical')
        <3>1. v \in Data /\ (v = Absent => f \in Removable)
            BY ChoicesAreSound
        <3>. QED BY <1>0, <2>1, <3>1 DEF FilesAgree, Settings, Complete
    <2>3. Scope \in Fields /\ Session \in Fields /\ f \in tied
        BY AdminAssumption DEF Fields
    <2>4. ~clashed' =>
             /\ ~clashed /\ \A g \in tied \cap Fields : overrides[g] = NoOverride
             /\ inWriting => \A g \in tied \cap Fields : save.next[g] = NoOverride
        BY <2>1
    <2>5. ASSUME NEW over, Suits(over, canonical), \A g \in tied \cap Fields : over[g] = NoOverride
          PROVE  Suits(over, canonical')
        <3>1. \A g \in Fields \ {f} : canonical'[g] = canonical[g]
            BY <1>0, <2>1 DEF FilesAgree, Settings
        <3>2. Expects(over, canonical')
            BY <2>3, <2>5, <3>1 DEF Suits, Expects
        <3>3. CASE f \in {Scope, Session}
            <4>1. over[Scope] = NoOverride /\ over[Session] = NoOverride
                BY <2>3, <2>5, <3>3
            <4>2. /\ Effective(canonical', over)[Scope] = canonical'[Scope]
                  /\ Effective(canonical', over)[Session] = canonical'[Session]
                BY <2>3, <4>1 DEF Effective
            <4>. QED BY <2>1, <3>2, <4>2 DEF Valid, Suits
        <3>4. CASE f \notin {Scope, Session}
            <4>1. canonical'[Scope] = canonical[Scope] /\ canonical'[Session] = canonical[Session]
                BY <2>3, <3>1, <3>4
            <4>2. /\ Effective(canonical', over)[Scope] = Effective(canonical, over)[Scope]
                  /\ Effective(canonical', over)[Session] = Effective(canonical, over)[Session]
                BY <2>3, <4>1 DEF Effective
            <4>. QED BY <2>5, <3>2, <4>2 DEF Valid, Suits
        <3>. QED BY <3>3, <3>4
    <2>. HIDE DEF tied, listed
    <2>6. FilesAgree'
        <3>1. ASSUME ~clashed' PROVE Suits(overrides, canonical')
            BY <1>0, <2>4, <2>5, <3>1 DEF FilesAgree
        <3>. QED BY <1>0, <2>1, <2>2, <3>1 DEF FilesAgree
    <2>7. ASSUME NEW t \in Tabs PROVE SaveAgrees(t)'
        <3>1. ASSUME put[t] \in {"lock", "write"}, ~clashed' PROVE Suits(save.next, canonical')
            <4>1. save.of = t /\ save # NoSave /\ Suits(save.next, canonical)
                BY <1>0, <2>4, <3>1, OverridesAreNotNone DEF SaveAgrees
            <4>2. \A g \in tied \cap Fields : save.next[g] = NoOverride
                BY <2>4, <3>1, <4>1
            <4>. QED BY <2>5, <4>1, <4>2
        <3>. QED BY <1>0, <2>1, <3>1 DEF SaveAgrees
    <2>8. \A t \in Tabs : TabAgrees(t)'
        BY <1>0, <2>1 DEF TabAgrees
    <2>9. clashed' \in BOOLEAN
        BY <2>1, Zenon
    <2>. QED BY <1>0, <2>1, <2>6, <2>7, <2>8, <2>9 DEF AdminIInv
<1>14. CASE GatewayEnds
    <2>1. /\ save' = NoSave /\ UNCHANGED <<canonical, overrides, page, form, clashed>>
          /\ put' = [t \in Tabs |-> IF put[t] \in {"none", "page", "saved", "conflict", "refused"}
                                     THEN put[t] ELSE "failed"]
        BY <1>14 DEF GatewayEnds
    <2>2. \A t \in Tabs : TabAgrees(t)' /\ SaveAgrees(t)'
        BY <1>0, <2>1 DEF TabAgrees, SaveAgrees
    <2>. QED BY <1>0, <2>1, <2>2 DEF AdminIInv, FilesAgree
<1>15. CASE GatewayLoads
    <2>1. UNCHANGED <<canonical, overrides, page, form, put, save, clashed>>
        BY <1>15 DEF GatewayLoads
    <2>. QED BY <1>0, <2>1 DEF AdminIInv, FilesAgree, TabAgrees, SaveAgrees
<1>. QED
    BY <1>1, <1>2, <1>3, <1>4, <1>5, <1>7, <1>9, <1>10, <1>11, <1>12, <1>13, <1>14, <1>15
    DEF AdminNext

LEMMA SettingsAgree == AdminSpec => []AdminIInv
BY AdminHoldsAtFirst, AdminIsKept, PTL DEF AdminSpec

(* What the admin UI has saved loads together with config.yaml, for any    *)
(* pages, saves, crashes and edits of config.yaml, but for the exceptions  *)
(* SavedSettingsLoad names: a clashing edit, the retired setting           *)
(* (buildAdminOverrides, applyAdminOverrides).                             *)
THEOREM WhatIsSavedLoads == AdminSpec => []SavedSettingsLoad
<1>1. AdminIInv => SavedSettingsLoad
    BY DEF AdminIInv, FilesAgree, Changes, Expects, Suits, Removable, Applies, Loads,
           SavedSettingsLoad, Fields
<1>. QED BY <1>1, SettingsAgree, PTL

(* What is sent differs from the page where the author or the form did it. *)
LEMMA SentIsTouchedOrForced ==
    ASSUME NEW t \in Tabs, NEW f \in Fields, Valid(page[t].settings),
           CollectAgent(form[t])[f] # page[t].settings[f]
    PROVE  f \in Touched(t) \cup Forced(t)
<1>1. SUFFICES ASSUME form[t][f] = page[t].settings[f], f \notin {ChoiceMode, Retired},
                      page[t].settings[f] # Padded
               PROVE  f \in Forced(t)
    BY DEF Touched, Forced
<1>2. f = Session /\ form[t][Scope] # "channel" /\ page[t].settings[f] # Absent
    BY <1>1 DEF CollectAgent
<1>3. Scope \in Touched(t)
    BY <1>2, AdminAssumption DEF Valid, Touched, Fields
<1>. QED BY <1>2, <1>3 DEF Forced

LEMMA UntouchedIsKept ==
    AdminIInv /\ [AdminNext]_adminVars =>
        [overrides' # overrides =>
          \E t \in Tabs :
             LET outgoing == CollectAgent(form[t])
                 was == Effective(canonical, overrides)
                 is == Effective(canonical, overrides')
             IN  /\ put[t] = "write" /\ put'[t] # "write"
                 /\ \A f \in Fields :
                       IF outgoing[f] = page[t].settings[f]
                       THEN is[f] = was[f]
                       ELSE f \in Touched(t) \cup Forced(t) /\ (is[f] = outgoing[f] \/ clashed)
        ]_adminVars
<1> SUFFICES ASSUME AdminIInv, AdminNext, overrides' # overrides
             PROVE  \E t \in Tabs :
                       LET outgoing == CollectAgent(form[t])
                           was == Effective(canonical, overrides)
                           is == Effective(canonical, overrides')
                       IN  /\ put[t] = "write" /\ put'[t] # "write"
                           /\ \A f \in Fields :
                                 IF outgoing[f] = page[t].settings[f]
                                 THEN is[f] = was[f]
                                 ELSE f \in Touched(t) \cup Forced(t) /\ (is[f] = outgoing[f] \/ clashed)
    OBVIOUS
<1>1. PICK t \in Tabs : WriteAdminOverrides(t)
    <2>1. \A u \in Tabs, f \in Fields : \A v, session : ~PutConfig(u, f, v, session)
        BY DEF PutConfig, files
    <2>2. \A f \in Fields : \A v : ~OperatorEdits(f, v)
        BY DEF OperatorEdits
    <2>3. \A u \in Tabs : ~(\/ GetConfig(u) \/ PutRefused(u) \/ StartSave(u) \/ LoadAndCompare(u)
                            \/ CompareCanonical(u) \/ AcquireSaveLock(u) \/ ReadSaved(u)
                            \/ ApplySaved(u))
        BY DEF files, GetConfig, PutRefused, StartSave, LoadAndCompare, CompareCanonical,
               AcquireSaveLock, ReadSaved, ApplySaved
    <2>4. ~GatewayEnds /\ ~GatewayLoads
        BY DEF files, GatewayEnds, GatewayLoads
    <2>. QED BY <2>1, <2>2, <2>3, <2>4 DEF AdminNext
<1> DEFINE outgoing == CollectAgent(form[t])
           was == Effective(canonical, overrides)
           is == Effective(canonical, overrides')
<1>2. /\ put[t] = "write" /\ overrides = save.over /\ overrides' = save.next
      /\ put' \in {[put EXCEPT ![t] = s] : s \in {"reread", "failed"}}
    BY <1>1 DEF WriteAdminOverrides, Saving, PutGoes
<1>3. put'[t] # "write"
    BY <1>2 DEF AdminIInv
<1>4. PICK base \in Settings, over \in Overrides :
         page[t] = Snapshot(base, over) /\ Changes(over) /\ Valid(Effective(base, over))
    BY DEF AdminIInv, TabAgrees
<1>5. /\ page[t].revision = <<save.base, save.over>> /\ Applies(save.base, save.over)
      /\ save.next = BuildOverrides(save.base, outgoing)
    BY <1>2 DEF AdminIInv, SaveAgrees, Planning
<1>6. base = save.base /\ over = overrides /\ page[t].settings = Effective(base, over)
    BY <1>2, <1>4, <1>5 DEF Snapshot
<1>. HIDE DEF outgoing
<1>7. ASSUME NEW f \in Fields
      PROVE  /\ over[f] # NoOverride => over[f].expected = base[f] /\ over[f].value # base[f]
             /\ page[t].settings[f] = IF over[f] = NoOverride THEN base[f] ELSE over[f].value
             /\ was[f] = IF over[f] = NoOverride THEN canonical[f] ELSE over[f].value
             /\ is[f] = IF base[f] = outgoing[f] THEN canonical[f] ELSE outgoing[f]
             /\ ~clashed /\ over[f] # NoOverride => canonical[f] = base[f]
    <2>1. over[f] # NoOverride => over[f].expected = base[f] /\ over[f].value # base[f]
        BY <1>2, <1>4, <1>5, <1>6 DEF Applies, Changes
    <2>2. page[t].settings[f] = IF over[f] = NoOverride THEN base[f] ELSE over[f].value
        BY <1>6 DEF Effective
    <2>3. was[f] = IF over[f] = NoOverride THEN canonical[f] ELSE over[f].value
        BY <1>6 DEF Effective
    <2>4. overrides'[f] = IF base[f] = outgoing[f] THEN NoOverride
                          ELSE [expected |-> base[f], value |-> outgoing[f]]
        BY <1>2, <1>5, <1>6 DEF BuildOverrides
    <2>5. is[f] = IF base[f] = outgoing[f] THEN canonical[f] ELSE outgoing[f]
        <3>1. CASE base[f] = outgoing[f]
            BY <2>4, <3>1 DEF Effective
        <3>2. CASE base[f] # outgoing[f]
            <4>1. overrides'[f] = [expected |-> base[f], value |-> outgoing[f]]
                BY <2>4, <3>2
            <4>2. overrides'[f] # NoOverride
                BY <4>1 DEF NoOverride
            <4>. QED BY <3>2, <4>1, <4>2 DEF Effective
        <3>. QED BY <3>1, <3>2
    <2>6. ~clashed /\ over[f] # NoOverride => canonical[f] = base[f]
        BY <1>6, <2>1 DEF AdminIInv, FilesAgree, Suits, Expects
    <2>. QED BY <2>1, <2>2, <2>3, <2>5, <2>6
<1>. HIDE DEF was, is
<1>8. ASSUME NEW f \in Fields
      PROVE  IF outgoing[f] = page[t].settings[f]
             THEN is[f] = was[f]
             ELSE f \in Touched(t) \cup Forced(t) /\ (is[f] = outgoing[f] \/ clashed)
    <2>1. CASE outgoing[f] = page[t].settings[f]
        BY <1>7, <2>1
    <2>2. CASE outgoing[f] # page[t].settings[f]
        <3>1. f \in Touched(t) \cup Forced(t)
            BY <1>4, <1>6, <2>2, SentIsTouchedOrForced DEF outgoing
        <3>2. is[f] = outgoing[f] \/ clashed
            BY <1>7, <2>2
        <3>. QED BY <2>2, <3>1, <3>2
    <2>. QED BY <2>1, <2>2
<1>. QED BY <1>2, <1>3, <1>8 DEF outgoing, was, is

(* A save of the admin UI sets what its author changed on the page, and of *)
(* the rest changes only what the form forces by itself (the choice mode,  *)
(* the retired setting, padded texts, the session with the scope), for any *)
(* tabs, saves, crashes and edits of config.yaml (collectAgentFromForm,    *)
(* #saveExclusive).                                                        *)
THEOREM UntouchedStays == AdminSpec => UntouchedSettingsKept
BY SettingsAgree, UntouchedIsKept, PTL DEF AdminSpec, UntouchedSettingsKept

(***************************************************************************)
(* GitApprovals. Nothing speaks of a question before it is bound to its    *)
(* plan, and the plan stays; a question that is answered is gone; what is  *)
(* approved is in the private store under the question that approved it.   *)
(***************************************************************************)

LifecycleRecords ==
    [captured : SUBSET Plans, invalid : BOOLEAN, watch : Plans \cup {NoPlan},
     outcome : {"none", "started", "completed", "failed", "failedForGood"},
     status : BOOLEAN, continued : BOOLEAN, completed : SUBSET (Plans \cup {NoPlan})]

InputRecords == [at : {"none", "waiting", "pending", "gone"}, plan : Plans \cup {NoPlan}]

DecisionRecords == [decision : {"none", "approve", "reject"}, ask : Asks \cup {NoAsk}]

EventRecords == [type : {"requested", "expired", "resolvedExternally"}, ask : Asks]

ProjectingRecords ==
    [at : {"idle", "post", "posted", "reject", "queued"},
     type : {"requested", "expired", "resolvedExternally"}, ask : Asks \cup {NoAsk}]

ClickRecords ==
    [at : {"idle", "queued", "recording", "lost", "recorded", "closing", "draining", "answered", "failed", "done"},
     ask : Asks \cup {NoAsk}, decision : {"approve", "reject"}, closes : BOOLEAN]

GitCards == {"absent", "buttons", "answered", "expired", "unavailable", "failed"}

LifecycleTypes == lifecycle \in LifecycleRecords /\ continuations \in [Plans -> Nat]

QuestionTypes ==
    /\ input \in [Asks -> InputRecords]
    /\ gitTold \in [Asks -> {"nothing", "approve", "reject", "error", "unsure"}]
    /\ private \in [Plans -> DecisionRecords]

ScreenTypes ==
    /\ gitEvents \in Seq(EventRecords) /\ gitProjecting \in ProjectingRecords
    /\ gitCard \in [Asks -> GitCards]
    /\ click \in [Clicks -> ClickRecords]

GitTypes == LifecycleTypes /\ QuestionTypes /\ ScreenTypes

(* A question that was bound to a plan, for good.                          *)
Bound(a) == a \in Asks /\ input[a].at \in {"pending", "gone"} /\ input[a].plan \in Plans

(* Whatever speaks of a question comes after its binding.                  *)
EventsBound ==
    /\ gitEvents \in Seq(EventRecords)
    /\ \A i \in 1 .. Len(gitEvents) : Bound(gitEvents[i].ask)
ProjectingBound ==
    gitProjecting \in ProjectingRecords /\ (gitProjecting.at # "idle" => Bound(gitProjecting.ask))
CardsBound ==
    gitCard \in [Asks -> GitCards] /\ \A a \in Asks : gitCard[a] = "buttons" => Bound(a)
ClicksBound ==
    click \in [Clicks -> ClickRecords] /\ \A h \in Clicks : click[h].at # "idle" => Bound(click[h].ask)

OnlyBoundAreShown ==
    /\ \A a \in Asks : input[a].at = "pending" => input[a].plan \in Plans
    /\ \A i \in 1 .. Len(gitEvents) : Bound(gitEvents[i].ask)
    /\ gitProjecting.at # "idle" => Bound(gitProjecting.ask)
    /\ \A a \in Asks : gitCard[a] = "buttons" => Bound(a)
    /\ \A h \in Clicks : click[h].at # "idle" => Bound(click[h].ask)

(* A question that has been answered, or that the app-server has called    *)
(* resolved, is not asked any more.                                        *)
AnsweredIsGone ==
    /\ \A a \in Asks : gitTold[a] # "nothing" \/ a \in elsewhere => input[a].at = "gone"
    /\ \A h \in Clicks : click[h].at = "draining" => input[click[h].ask].at = "gone"

(* The approval of a plan names the question that approved it.             *)
ApprovedBy(p, a) == private[p] = [decision |-> "approve", ask |-> a]
Executed(p) == \E a \in Asks : ApprovedBy(p, a) /\ input[a].at = "gone"

(* What has been recorded is in the store; an execution and a continuation *)
(* are of a plan approved by a question that is gone, so no question can   *)
(* begin it again.                                                         *)
ApprovalsArePrivate ==
    /\ \A h \in Clicks : click[h].at = "recorded" /\ ~click[h].closes =>
          private[input[click[h].ask].plan] = Written(h)
    /\ \A a \in Asks : gitTold[a] = "approve" => input[a].plan \in Plans /\ ApprovedBy(input[a].plan, a)
    /\ lifecycle.watch # NoPlan => Executed(lifecycle.watch)
    /\ \A p \in Plans : continuations[p] > 0 => continuations[p] = 1 /\ Executed(p)
    /\ lifecycle.watch # NoPlan /\ ~lifecycle.continued => continuations[lifecycle.watch] = 0

GitIInv == GitTypes /\ OnlyBoundAreShown /\ AnsweredIsGone /\ ApprovalsArePrivate

(* A question moves one way: it waits or not, is asked for one plan, is    *)
(* gone.                                                                   *)
InputMoves == \A a \in Asks :
    \/ input'[a].at = input[a].at /\ input'[a].plan = input[a].plan
    \/ input[a].at = "none" /\ input'[a].at = "waiting"
    \/ input[a].at \in {"none", "waiting"} /\ input'[a].at = "pending" /\ input'[a].plan \in Plans
    \/ input[a].at # "gone" /\ input'[a].at = "gone" /\ input'[a].plan = input[a].plan

(* An answer takes its question away, and approves what the private store  *)
(* has; only an answer that has been given becomes unsure.                 *)
AnswerMoves == \A a \in Asks :
    \/ gitTold'[a] = gitTold[a]
    \/ input[a].at # "gone" /\ input'[a].at = "gone"
       /\ (gitTold'[a] = "approve" => input[a].at = "pending" /\ ApprovedBy(input[a].plan, a))
    \/ gitTold'[a] = "unsure" /\ input[a].at = "gone"

(* The decision on a plan is written once.                                 *)
PrivateMoves == \A p \in Plans : private'[p] = private[p] \/ private[p].decision = "none"

(* An execution is begun by the question that approved it, and continued   *)
(* once.                                                                   *)
WatchMoves ==
    \/ lifecycle'.watch = NoPlan /\ continuations' = continuations
    \/ /\ lifecycle'.watch = lifecycle.watch /\ lifecycle'.continued = lifecycle.continued
       /\ continuations' = continuations
    \/ /\ lifecycle.watch # NoPlan /\ ~lifecycle.continued
       /\ lifecycle'.watch = lifecycle.watch /\ lifecycle'.continued
       /\ continuations' = [continuations EXCEPT ![lifecycle.watch] = @ + 1]
    \/ /\ continuations' = continuations
       /\ \E a \in Asks : /\ input[a].at = "pending" /\ input'[a].at = "gone"
                          /\ ApprovedBy(input[a].plan, a) /\ lifecycle'.watch = input[a].plan

-----------------------------------------------------------------------------

(* The operations keep the shapes of the records.                          *)
LEMMA LifecycleUpdates ==
    ASSUME NEW r \in LifecycleRecords
    PROVE  /\ \A c \in SUBSET Plans : [r EXCEPT !.captured = c] \in LifecycleRecords
           /\ \A b \in BOOLEAN : [r EXCEPT !.invalid = b] \in LifecycleRecords
           /\ \A b \in BOOLEAN : [r EXCEPT !.continued = b] \in LifecycleRecords
           /\ [r EXCEPT !.status = TRUE] \in LifecycleRecords
           /\ \A o \in {"none", "started", "completed", "failed", "failedForGood"} :
                 [r EXCEPT !.outcome = o] \in LifecycleRecords
           /\ r.captured \in SUBSET Plans /\ r.watch \in Plans \cup {NoPlan}
           /\ r.completed \in SUBSET (Plans \cup {NoPlan})
           /\ r.invalid \in BOOLEAN /\ r.continued \in BOOLEAN /\ r.status \in BOOLEAN
<1>1. r.captured \in SUBSET Plans /\ r.watch \in Plans \cup {NoPlan} /\ r.completed \in SUBSET (Plans \cup {NoPlan})
  BY DEF LifecycleRecords
<1>2. r.invalid \in BOOLEAN /\ r.continued \in BOOLEAN /\ r.status \in BOOLEAN
  BY Zenon DEF LifecycleRecords
<1>3. \A c \in SUBSET Plans : [r EXCEPT !.captured = c] \in LifecycleRecords
  BY Zenon DEF LifecycleRecords
<1>4. \A b \in BOOLEAN : [r EXCEPT !.invalid = b] \in LifecycleRecords
  BY Zenon DEF LifecycleRecords
<1>5. \A b \in BOOLEAN : [r EXCEPT !.continued = b] \in LifecycleRecords
  BY Zenon DEF LifecycleRecords
<1>6. [r EXCEPT !.status = TRUE] \in LifecycleRecords
  BY Zenon DEF LifecycleRecords
<1>7. \A o \in {"none", "started", "completed", "failed", "failedForGood"} : [r EXCEPT !.outcome = o] \in LifecycleRecords
  BY Zenon DEF LifecycleRecords
<1> QED
  BY <1>1, <1>2, <1>3, <1>4, <1>5, <1>6, <1>7, Zenon

LEMMA InputUpdates ==
    ASSUME NEW r \in InputRecords
    PROVE  /\ \A v \in {"none", "waiting", "pending", "gone"} : [r EXCEPT !.at = v] \in InputRecords
           /\ \A p \in Plans : [at |-> "pending", plan |-> p] \in InputRecords
           /\ r.at \in {"none", "waiting", "pending", "gone"} /\ r.plan \in Plans \cup {NoPlan}
BY DEF InputRecords

LEMMA ClickUpdates ==
    ASSUME NEW r \in ClickRecords
    PROVE  /\ \A v \in {"queued", "recording", "lost", "recorded", "draining", "answered", "done"} :
                 [r EXCEPT !.at = v] \in ClickRecords
           /\ [r EXCEPT !.at = "recorded", !.closes = TRUE] \in ClickRecords
           /\ \A a \in Asks, d \in {"approve", "reject"} :
                 [r EXCEPT !.at = "queued", !.ask = a, !.decision = d] \in ClickRecords
           /\ r.decision \in {"approve", "reject"} /\ r.ask \in Asks \cup {NoAsk}
<1>1. r.decision \in {"approve", "reject"} /\ r.ask \in Asks \cup {NoAsk}
  BY Zenon DEF ClickRecords
<1>2. \A v \in {"queued", "recording", "lost", "recorded", "draining", "answered", "done"} :
          [r EXCEPT !.at = v] \in ClickRecords
  BY Zenon DEF ClickRecords
<1>3. [r EXCEPT !.at = "recorded", !.closes = TRUE] \in ClickRecords
  BY Zenon DEF ClickRecords
<1>4. \A a \in Asks, d \in {"approve", "reject"} : [r EXCEPT !.at = "queued", !.ask = a, !.decision = d] \in ClickRecords
  BY Zenon DEF ClickRecords
<1> QED
  BY <1>1, <1>2, <1>3, <1>4, Zenon

LEMMA ProjectingUpdates ==
    ASSUME NEW r \in ProjectingRecords
    PROVE  \A v \in {"post", "posted", "reject", "queued"} : [r EXCEPT !.at = v] \in ProjectingRecords
BY Zenon DEF ProjectingRecords

BindingOutcome(a) ==
    /\ lifecycle' \in LifecycleRecords /\ QuestionTypes'
    /\ lifecycle'.watch = lifecycle.watch /\ lifecycle'.continued = lifecycle.continued
    /\ \A b \in Asks \ {a} : input'[b] = input[b] /\ gitTold'[b] = gitTold[b]
    /\ \/ /\ input'[a].at = "gone" /\ input'[a].plan = input[a].plan
          /\ gitTold'[a] = "error" /\ gitEvents' = gitEvents
       \/ /\ input'[a].at = "pending" /\ input'[a].plan \in Plans
          /\ gitTold' = gitTold /\ Emit("requested", a)

LEMMA BoundOrRefused ==
    ASSUME GitTypes, NEW a \in Asks, BindQuestion(a), UNCHANGED private
    PROVE  BindingOutcome(a)
<1> DEFINE discarded == [lifecycle EXCEPT !.captured = {}]
           spoilt == [discarded EXCEPT !.invalid = TRUE]
<1> USE DEF GitTypes, LifecycleTypes
<1>1. discarded \in LifecycleRecords
  BY LifecycleUpdates, {} \in SUBSET Plans, Zenon
<1>2. spoilt \in LifecycleRecords
  BY <1>1, LifecycleUpdates, TRUE \in BOOLEAN, Zenon
<1>3. /\ discarded.watch = lifecycle.watch /\ discarded.continued = lifecycle.continued
      /\ spoilt.watch = lifecycle.watch /\ spoilt.continued = lifecycle.continued
  BY DEF LifecycleRecords
<1> HIDE DEF discarded, spoilt
<1>4. ASSUME NEW r \in {discarded, spoilt}, Refuse(a, r), UNCHANGED private PROVE BindingOutcome(a)
  <2>1. lifecycle' = r /\ input' = [input EXCEPT ![a] = [@ EXCEPT !.at = "gone"]]
        /\ gitTold' = [gitTold EXCEPT ![a] = "error"] /\ gitEvents' = gitEvents
    BY <1>4 DEF Refuse
  <2>2. QuestionTypes'
    BY <1>4, <2>1, InputUpdates DEF QuestionTypes
  <2>3. input'[a].at = "gone" /\ input'[a].plan = input[a].plan /\ gitTold'[a] = "error"
    BY <2>1 DEF QuestionTypes, InputRecords
  <2>4. \A b \in Asks \ {a} : input'[b] = input[b] /\ gitTold'[b] = gitTold[b]
    BY <2>1 DEF QuestionTypes
  <2> QED
    BY <1>1, <1>2, <1>3, <2>1, <2>2, <2>3, <2>4 DEF BindingOutcome
<1>5. ASSUME NEW p \in Plans, lifecycle' = discarded, input' = [input EXCEPT ![a] = [at |-> "pending", plan |-> p]],
             Emit("requested", a), UNCHANGED <<gitTold, private>>
      PROVE  BindingOutcome(a)
  <2>1. QuestionTypes'
    BY <1>5, InputUpdates DEF QuestionTypes
  <2>2. input'[a].at = "pending" /\ input'[a].plan \in Plans
    BY <1>5 DEF QuestionTypes
  <2>3. \A b \in Asks \ {a} : input'[b] = input[b] /\ gitTold'[b] = gitTold[b]
    BY <1>5 DEF QuestionTypes
  <2> QED
    BY <1>1, <1>3, <1>5, <2>1, <2>2, <2>3 DEF BindingOutcome
<1>6. lifecycle.captured \subseteq Plans
  BY LifecycleUpdates, Zenon
<1>7. CASE Refuse(a, discarded) \/ Refuse(a, spoilt)
  BY <1>4, <1>7
<1>8. CASE \E p \in lifecycle.captured :
              /\ lifecycle' = discarded /\ input' = [input EXCEPT ![a] = [at |-> "pending", plan |-> p]]
              /\ Emit("requested", a) /\ UNCHANGED gitTold
  BY <1>5, <1>6, <1>8
<1> QED
  BY <1>7, <1>8, Zenon DEF BindQuestion, discarded, spoilt

LEMMA EmitAppends ==
    ASSUME ScreenTypes, NEW a \in Asks, NEW type \in {"requested", "expired", "resolvedExternally"}, Emit(type, a)
    PROVE  /\ gitEvents' \in Seq(EventRecords)
           /\ \A i \in 1 .. Len(gitEvents') :
                 gitEvents'[i].ask = a \/ (i \in 1 .. Len(gitEvents) /\ gitEvents'[i] = gitEvents[i])
<1>1. [type |-> type, ask |-> a] \in EventRecords
  BY DEF EventRecords
<1> DEFINE e == [type |-> type, ask |-> a]
<1>2. e.ask = a
  OBVIOUS
<1> HIDE DEF e
<1> QED
  BY <1>1, <1>2 DEF ScreenTypes, Emit, e

LEMMA LifecycleResets ==
    ASSUME lifecycle \in LifecycleRecords
    PROVE  /\ NoLifecycle \in LifecycleRecords /\ NoLifecycle.watch = NoPlan
           /\ clearTurnArtifacts \in LifecycleRecords /\ clearTurnArtifacts.watch = lifecycle.watch
<1>1. NoLifecycle \in LifecycleRecords /\ NoLifecycle.watch = NoPlan
  BY DEF NoLifecycle, LifecycleRecords
<1>2. clearTurnArtifacts \in LifecycleRecords
  BY {} \in SUBSET Plans, FALSE \in BOOLEAN, Zenon DEF clearTurnArtifacts, LifecycleRecords
<1>3. clearTurnArtifacts.watch = lifecycle.watch
  BY DEF clearTurnArtifacts, LifecycleRecords
<1> QED
  BY <1>1, <1>2, <1>3, Zenon

LEMMA LifecycleOperations ==
    ASSUME lifecycle \in LifecycleRecords, NEW p \in Plans
    PROVE  /\ BegunExecution(p) \in LifecycleRecords /\ BegunExecution(p).watch = p
           /\ ClearedExecution(p) \in LifecycleRecords
           /\ ClearedExecution(p).watch # NoPlan => ClearedExecution(p) = lifecycle
<1> DEFINE done == IF executionSettled THEN lifecycle.completed \cup {lifecycle.watch} ELSE lifecycle.completed
           begun == [lifecycle EXCEPT !.watch = p, !.outcome = "none", !.status = FALSE, !.continued = FALSE,
                                      !.completed = done]
<1>4. done \in SUBSET (Plans \cup {NoPlan})
  BY LifecycleUpdates
<1>5. BegunExecution(p) = begun
  BY Zenon DEF BegunExecution
<1> HIDE DEF done
<1>6. begun \in LifecycleRecords
  BY <1>4, Zenon DEF LifecycleRecords
<1>7. begun.watch = p
  BY DEF LifecycleRecords
<1> HIDE DEF begun
<1>8. ClearedExecution(p) \in LifecycleRecords
  BY NoPlan \in Plans \cup {NoPlan}, Zenon DEF ClearedExecution, LifecycleRecords
<1>9. ClearedExecution(p).watch # NoPlan => ClearedExecution(p) = lifecycle
  BY DEF ClearedExecution, LifecycleRecords
<1> QED
  BY <1>5, <1>6, <1>7, <1>8, <1>9, Zenon

Answered(a, told) ==
    /\ QuestionTypes'
    /\ \A b \in Asks \ {a} : input'[b] = input[b] /\ gitTold'[b] = gitTold[b]
    /\ input'[a].at = "gone" /\ input'[a].plan = input[a].plan /\ gitTold'[a] = told

LEMMA AnsweredAndForgotten ==
    ASSUME QuestionTypes, NEW a \in Asks, NEW told \in {"approve", "reject", "error"}, UNCHANGED private,
           input' = [input EXCEPT ![a].at = "gone"], gitTold' = [gitTold EXCEPT ![a] = told]
    PROVE  Answered(a, told)
<1>1. QuestionTypes'
  BY InputUpdates DEF QuestionTypes
<1>2. input'[a].at = "gone" /\ input'[a].plan = input[a].plan /\ gitTold'[a] = told
  BY DEF QuestionTypes, InputRecords
<1> QED
  BY <1>1, <1>2 DEF QuestionTypes, Answered

(* What an aborted turn leaves of its questions. *)
AbortOutcome ==
    /\ lifecycle' = NoLifecycle /\ input' \in [Asks -> InputRecords]
    /\ \A a \in Asks :
          IF input[a].at \in {"waiting", "pending"}
            THEN input'[a].at = "gone" /\ input'[a].plan = input[a].plan
            ELSE input'[a] = input[a]

LEMMA AbortsAll ==
    ASSUME QuestionTypes, Aborted PROVE AbortOutcome
<1>1. \A a \in Asks : [input[a] EXCEPT !.at = "gone"] \in InputRecords /\ input[a] \in InputRecords
  BY InputUpdates DEF QuestionTypes
<1>2. \A a \in Asks : [input[a] EXCEPT !.at = "gone"].at = "gone" /\ [input[a] EXCEPT !.at = "gone"].plan = input[a].plan
  BY DEF QuestionTypes, InputRecords
<1> QED
  BY <1>1, <1>2 DEF Aborted, AbortOutcome

(* What comes of a click whose answer goes to the app-server. *)
ResumeOutcome(h) ==
    LET a == click[h].ask IN
    \/ UNCHANGED <<gitAdapter, gitEvents>>
    \/ /\ input[a].at = "pending" /\ Answered(a, "reject") /\ Emit("expired", a)
       /\ UNCHANGED <<lifecycle, continuations>>
    \/ /\ input[a].at = "pending"
       /\ Answered(a, "error") \/ Answered(a, "reject")
       /\ UNCHANGED <<lifecycle, continuations, gitEvents>>
    \/ /\ input[a].at = "pending" /\ Answered(a, "approve")
       /\ click[h].decision = "approve" /\ ~click[h].closes
       /\ lifecycle' = BegunExecution(input[a].plan)
       /\ UNCHANGED <<continuations, gitEvents>>

LEMMA ResumeAnswersOnce ==
    ASSUME GitTypes, OnlyBoundAreShown, NEW h \in Clicks, ResumeAppServer(h)
    PROVE  ResumeOutcome(h)
<1> DEFINE a == click[h].ask
<1> USE DEF GitTypes
<1>1. a \in Asks /\ UNCHANGED private
  BY DEF ResumeAppServer, OnlyBoundAreShown, Bound
<1>2. click[h].decision \in {"approve", "reject"}
  BY ClickUpdates DEF ScreenTypes
<1>3. CASE input[a].at # "pending"
  BY <1>3 DEF ResumeAppServer, ResumeOutcome, GitInputExpired
<1>4. CASE input[a].at = "pending" /\ GitInputExpired(a)
  <2>1. Answered(a, "reject")
    BY <1>1, <1>4, AnsweredAndForgotten DEF GitInputExpired
  <2> QED
    BY <1>4, <2>1 DEF GitInputExpired, ResumeOutcome
<1>5. ASSUME input[a].at = "pending", ~GitInputExpired(a) PROVE ResumeOutcome(h)
  <2>1. /\ input' = [input EXCEPT ![a].at = "gone"]
        /\ UNCHANGED <<continuations, gitEvents>>
    BY <1>5, Zenon DEF ResumeAppServer
  <2>2. CASE gitTold' = [gitTold EXCEPT ![a] = "error"] /\ UNCHANGED lifecycle
    <3>1. Answered(a, "error")
      BY <1>1, <2>1, <2>2, AnsweredAndForgotten
    <3> QED
      BY <1>5, <2>1, <2>2, <3>1 DEF ResumeOutcome
  <2>3. CASE gitTold' = [gitTold EXCEPT ![a] = "reject"] /\ UNCHANGED lifecycle
    <3>1. Answered(a, "reject")
      BY <1>1, <2>1, <2>3, AnsweredAndForgotten
    <3> QED
      BY <1>5, <2>1, <2>3, <3>1 DEF ResumeOutcome
  <2>4. CASE /\ GitAnswer(h) = "approve" /\ gitTold' = [gitTold EXCEPT ![a] = "approve"]
             /\ lifecycle' = BegunExecution(input[a].plan)
    <3>1. Answered(a, "approve")
      BY <1>1, <2>1, <2>4, AnsweredAndForgotten
    <3>2. click[h].decision = "approve" /\ ~click[h].closes
      BY <1>2, <2>4 DEF GitAnswer
    <3> QED
      BY <1>5, <2>1, <2>4, <3>1, <3>2 DEF ResumeOutcome
  <2>5. GitAnswer(h) \in {"approve", "reject"}
    BY <1>2 DEF GitAnswer
  <2>6. \/ gitTold' = [gitTold EXCEPT ![a] = "error"] /\ UNCHANGED lifecycle
        \/ /\ gitTold' = [gitTold EXCEPT ![a] = GitAnswer(h)]
           /\ lifecycle' = IF GitAnswer(h) = "approve" THEN BegunExecution(input[a].plan) ELSE lifecycle
    BY <1>5, Zenon DEF ResumeAppServer
  <2> QED
    BY <2>2, <2>3, <2>4, <2>5, <2>6
<1> QED
  BY <1>3, <1>4, <1>5

(* What ends with a turn is refused or unsure, never approved. *)
TurnAborts ==
    /\ AbortOutcome /\ QuestionTypes' /\ gitEvents' = <<>> /\ continuations' = continuations
    /\ \A a \in Asks :
          \/ gitTold'[a] = gitTold[a]
          \/ input[a].at \in {"waiting", "pending"} /\ gitTold'[a] # "approve"

LEMMA AbortedTurn ==
    ASSUME GitTypes, AbortTurn PROVE TurnAborts
<1> USE DEF GitTypes
<1>1. AbortOutcome /\ gitEvents' = <<>> /\ UNCHANGED <<continuations, private>>
  BY AbortsAll DEF AbortTurn, Aborted
<1>2. /\ gitTold' \in [Asks -> {"nothing", "approve", "reject", "error", "unsure"}]
      /\ \A a \in Asks :
            \/ gitTold'[a] = gitTold[a]
            \/ input[a].at \in {"waiting", "pending"} /\ gitTold'[a] # "approve"
  BY DEF AbortTurn, WaitingAsks, QuestionTypes
<1> QED
  BY <1>1, <1>2 DEF TurnAborts, AbortOutcome, QuestionTypes

LEMMA RejectedUnprojected ==
    ASSUME GitTypes, OnlyBoundAreShown, RejectUnprojected
    PROVE  LET a == gitProjecting.ask IN
           \/ UNCHANGED <<lifecycle, continuations, gitEvents, input, gitTold, private>>
           \/ /\ input[a].at = "pending" /\ Answered(a, "reject")
              /\ UNCHANGED <<lifecycle, continuations, gitEvents>>
           \/ TurnAborts
<1> DEFINE a == gitProjecting.ask
<1> USE DEF GitTypes
<1>1. a \in Asks /\ UNCHANGED <<continuations, private>>
  BY DEF RejectUnprojected, OnlyBoundAreShown, Bound
<1>2. CASE /\ input[a].at = "pending" /\ input' = [input EXCEPT ![a].at = "gone"]
           /\ gitTold' = [gitTold EXCEPT ![a] = "reject"]
           /\ UNCHANGED <<gitTurn, lifecycle, unbound, gitEvents>>
  <2>1. Answered(a, "reject")
    BY <1>1, <1>2, AnsweredAndForgotten
  <2> QED
    BY <1>1, <1>2, <2>1
<1>3. CASE UNCHANGED <<gitTurn, lifecycle, unbound, gitEvents, input, gitTold>>
  BY <1>1, <1>3
<1>4. CASE /\ input[a].at = "pending" /\ Aborted
           /\ gitTold' = [b \in Asks |-> IF b = a THEN IF a \in gitLate THEN "reject" ELSE "unsure"
                                         ELSE IF b \in WaitingAsks THEN "error" ELSE gitTold[b]]
  <2>1. AbortOutcome /\ gitEvents' = <<>>
    BY <1>4, AbortsAll DEF Aborted
  <2>2. /\ gitTold' \in [Asks -> {"nothing", "approve", "reject", "error", "unsure"}]
        /\ \A b \in Asks :
              \/ gitTold'[b] = gitTold[b]
              \/ input[b].at \in {"waiting", "pending"} /\ gitTold'[b] # "approve"
    BY <1>1, <1>4 DEF WaitingAsks, QuestionTypes
  <2> QED
    BY <1>1, <2>1, <2>2 DEF TurnAborts, AbortOutcome, QuestionTypes
<1>5. CASE Aborted /\ gitTold' = [b \in Asks |-> IF b \in WaitingAsks THEN "error" ELSE gitTold[b]]
  <2>1. AbortOutcome /\ gitEvents' = <<>>
    BY <1>5, AbortsAll DEF Aborted
  <2>2. /\ gitTold' \in [Asks -> {"nothing", "approve", "reject", "error", "unsure"}]
        /\ \A b \in Asks :
              \/ gitTold'[b] = gitTold[b]
              \/ input[b].at \in {"waiting", "pending"} /\ gitTold'[b] # "approve"
    BY <1>1, <1>5 DEF WaitingAsks, QuestionTypes
  <2> QED
    BY <1>1, <2>1, <2>2 DEF TurnAborts, AbortOutcome, QuestionTypes
<1> QED
  BY <1>2, <1>3, <1>4, <1>5, Zenon DEF RejectUnprojected

LEMMA ClickAdvances ==
    ASSUME ScreenTypes, NEW h \in Clicks,
           NEW at \in {"queued", "recording", "lost", "recorded", "draining", "answered", "done"},
           click' = [click EXCEPT ![h].at = at]
    PROVE  /\ click' \in [Clicks -> ClickRecords]
           /\ click'[h].at = at /\ click'[h].ask = click[h].ask
           /\ click'[h].decision = click[h].decision /\ click'[h].closes = click[h].closes
           /\ \A g \in Clicks \ {h} : click'[g] = click[g]
<1>1. click' \in [Clicks -> ClickRecords]
  BY ClickUpdates DEF ScreenTypes
<1>2. /\ click'[h].at = at /\ click'[h].ask = click[h].ask
      /\ click'[h].decision = click[h].decision /\ click'[h].closes = click[h].closes
  BY DEF ScreenTypes, ClickRecords
<1> QED
  BY <1>1, <1>2 DEF ScreenTypes

(* One lemma for each part of the invariant or of a step: the actions that *)
(* touch it, and all the others at once.                                   *)
LEMMA LifecycleIsTyped ==
    ASSUME GitIInv, [GitNext]_gitVars PROVE LifecycleTypes'
<1> USE DEF GitIInv, GitTypes
<1>1. CASE UNCHANGED <<lifecycle, continuations>>
  BY <1>1 DEF LifecycleTypes
<1>2. ASSUME NEW p \in Plans, CapturePlan(p) PROVE LifecycleTypes'
  BY <1>2, LifecycleUpdates DEF LifecycleTypes, CapturePlan
<1>3. ASSUME ObserveApprovedExecution PROVE LifecycleTypes'
  <2>1. lifecycle' \in LifecycleRecords
    BY <1>3, LifecycleUpdates, Zenon DEF ObserveApprovedExecution, LifecycleTypes
  <2> QED
    BY <1>3, <2>1 DEF ObserveApprovedExecution, LifecycleTypes
<1>4. ASSUME NEW a \in Asks, HandleUserInputRequest(a) PROVE LifecycleTypes'
  <2>1. CASE BindQuestion(a) /\ UNCHANGED <<continuations, private>>
    BY <2>1, BoundOrRefused DEF BindingOutcome, LifecycleTypes
  <2> QED
    BY <1>4, <2>1 DEF HandleUserInputRequest, LifecycleTypes
<1>5. ASSUME NEW a \in Asks, BindingGraceEnds(a) PROVE LifecycleTypes'
  <2>1. CASE BindQuestion(a) /\ UNCHANGED <<continuations, private>>
    BY <2>1, BoundOrRefused DEF BindingOutcome, LifecycleTypes
  <2>2. CASE lifecycle' = [lifecycle EXCEPT !.captured = {}] /\ UNCHANGED continuations
    BY <2>2, LifecycleUpdates, {} \in SUBSET Plans, Zenon DEF LifecycleTypes
  <2> QED
    BY <1>5, <2>1, <2>2, Zenon DEF BindingGraceEnds, Refuse
<1>6. ASSUME NEW a \in Asks, ServerRequestEnds(a) PROVE LifecycleTypes'
  <2>1. lifecycle' \in {lifecycle, [lifecycle EXCEPT !.captured = {}]} /\ UNCHANGED continuations
    BY <1>6 DEF ServerRequestEnds
  <2> QED
    BY <2>1, LifecycleUpdates, {} \in SUBSET Plans, Zenon DEF LifecycleTypes
<1>7. ASSUME CompleteTurn PROVE LifecycleTypes'
  <2>1. lifecycle' \in {lifecycle, [lifecycle EXCEPT !.captured = {}]} /\ UNCHANGED continuations
    BY <1>7 DEF CompleteTurn
  <2> QED
    BY <2>1, LifecycleUpdates, {} \in SUBSET Plans, Zenon DEF LifecycleTypes
<1>8. ASSUME ContinueApprovedTurn PROVE LifecycleTypes'
  <2>1. clearTurnArtifacts \in LifecycleRecords
    BY LifecycleResets DEF LifecycleTypes
  <2>2. [clearTurnArtifacts EXCEPT !.continued = TRUE] \in LifecycleRecords
    BY <2>1, LifecycleUpdates, TRUE \in BOOLEAN, Zenon
  <2> HIDE DEF clearTurnArtifacts
  <2>3. lifecycle' \in LifecycleRecords
    BY <1>8, <2>2, Zenon DEF ContinueApprovedTurn
  <2>4. lifecycle.watch \in Plans
    BY <1>8, LifecycleUpdates DEF ContinueApprovedTurn, LifecycleTypes
  <2>5. continuations' \in [Plans -> Nat]
    BY <1>8, <2>4 DEF ContinueApprovedTurn, LifecycleTypes
  <2> QED
    BY <2>3, <2>5 DEF LifecycleTypes
<1>9. ASSUME TurnOver PROVE LifecycleTypes'
  BY <1>9, LifecycleResets DEF TurnOver, LifecycleTypes
<1>10. ASSUME AbortTurn PROVE LifecycleTypes'
  BY <1>10, AbortedTurn, LifecycleResets DEF TurnAborts, AbortOutcome, LifecycleTypes
<1>11. ASSUME RejectUnprojected PROVE LifecycleTypes'
  BY <1>11, RejectedUnprojected, LifecycleResets DEF TurnAborts, AbortOutcome, LifecycleTypes
<1>12. ASSUME NEW h \in Clicks, ResumeAppServer(h) PROVE LifecycleTypes'
  <2>1. input[click[h].ask].at = "pending" => input[click[h].ask].plan \in Plans
    BY <1>12 DEF ResumeAppServer, OnlyBoundAreShown, Bound
  <2>2. ResumeOutcome(h)
    BY <1>12, ResumeAnswersOnce
  <2> QED
    BY <2>1, <2>2, LifecycleOperations DEF ResumeOutcome, gitAdapter, LifecycleTypes
<1>13. ASSUME NEW h \in Clicks, AnswerDrains(h) PROVE LifecycleTypes'
  <2>1. input[click[h].ask].plan \in Plans
    BY <1>13 DEF AnswerDrains, OnlyBoundAreShown, Bound
  <2> QED
    BY <1>13, <2>1, LifecycleOperations DEF AnswerDrains, LifecycleTypes
<1>14. ASSUME
             \/ UNCHANGED gitVars
             \/ \E a \in Asks : DeadlinePassed(a)
             \/ \E a \in Asks : ExpireGitUserInput(a)
             \/ ContinuationStarts
             \/ ProjectGitEvent
             \/ PostGitCard
             \/ RememberGitCard
             \/ TerminalizeGitCard
             \/ \E h \in Clicks, a \in Asks, d \in {"approve", "reject"} : ClickGit(h, a, d)
             \/ \E h \in Clicks : ServeClick(h)
             \/ \E h \in Clicks : RecordGitDecision(h)
             \/ \E h \in Clicks : DecisionWrittenLate(h)
             \/ \E h \in Clicks : ShowDecision(h)
      PROVE  UNCHANGED <<lifecycle, continuations>>
  BY <1>14 DEF gitVars, gitAdapter, gitSlack, DeadlinePassed, ExpireGitUserInput, ContinuationStarts,
     ProjectGitEvent, PostGitCard, RememberGitCard, TerminalizeGitCard, ClickGit, ServeClick,
     RecordGitDecision, DecisionWrittenLate, ShowDecision, GitInputExpired
<1> QED
  BY <1>1, <1>2, <1>3, <1>4, <1>5, <1>6, <1>7, <1>8, <1>9, <1>10, <1>11, <1>12, <1>13, <1>14 DEF GitNext

LEMMA QuestionsAreTyped ==
    ASSUME GitIInv, [GitNext]_gitVars PROVE QuestionTypes'
<1> USE DEF GitIInv, GitTypes
<1>1. CASE UNCHANGED <<input, gitTold, private>>
  BY <1>1 DEF QuestionTypes
<1>2. ASSUME NEW a \in Asks, HandleUserInputRequest(a) PROVE QuestionTypes'
  <2>1. CASE BindQuestion(a) /\ UNCHANGED private
    BY <2>1, BoundOrRefused DEF BindingOutcome
  <2>2. CASE input' = [input EXCEPT ![a].at = "waiting"] /\ UNCHANGED <<gitTold, private>>
    BY <2>2, InputUpdates DEF QuestionTypes
  <2> QED
    BY <1>2, <2>1, <2>2, Zenon DEF HandleUserInputRequest
<1>3. ASSUME NEW a \in Asks, BindingGraceEnds(a) PROVE QuestionTypes'
  <2>1. CASE BindQuestion(a) /\ UNCHANGED private
    BY <2>1, BoundOrRefused DEF BindingOutcome
  <2>2. CASE /\ input' = [input EXCEPT ![a].at = "gone"] /\ gitTold' = [gitTold EXCEPT ![a] = "error"]
             /\ UNCHANGED private
    BY <2>2, InputUpdates DEF QuestionTypes
  <2> QED
    BY <1>3, <2>1, <2>2, Zenon DEF BindingGraceEnds, Refuse
<1>4. ASSUME NEW a \in Asks, ExpireGitUserInput(a) PROVE QuestionTypes'
  BY <1>4, AnsweredAndForgotten DEF ExpireGitUserInput, GitInputExpired, Answered
<1>5. ASSUME NEW a \in Asks, ServerRequestEnds(a) PROVE QuestionTypes'
  BY <1>5, InputUpdates DEF ServerRequestEnds, QuestionTypes
<1>6. ASSUME CompleteTurn PROVE QuestionTypes'
  BY <1>6, InputUpdates DEF CompleteTurn, BindingsRejected, WaitingAsks, QuestionTypes
<1>7. ASSUME ContinueApprovedTurn PROVE QuestionTypes'
  BY <1>7, InputUpdates DEF ContinueApprovedTurn, InputsRemoved, QuestionTypes
<1>8. ASSUME TurnOver PROVE QuestionTypes'
  BY <1>8, InputUpdates DEF TurnOver, InputsRemoved, QuestionTypes
<1>9. ASSUME AbortTurn PROVE QuestionTypes'
  BY <1>9, AbortedTurn DEF TurnAborts
<1>10. ASSUME RejectUnprojected PROVE QuestionTypes'
  BY <1>10, RejectedUnprojected DEF TurnAborts, Answered, QuestionTypes
<1>11. ASSUME NEW h \in Clicks, RecordGitDecision(h) PROVE QuestionTypes'
  <2>1. input[click[h].ask].plan \in Plans
    BY <1>11 DEF RecordGitDecision, OnlyBoundAreShown, Bound
  <2>2. Written(h) \in DecisionRecords
    BY <1>11, ClickUpdates DEF RecordGitDecision, Written, DecisionRecords, ScreenTypes
  <2>3. \/ private' = [private EXCEPT ![input[click[h].ask].plan] = Written(h)]
        \/ UNCHANGED private
    BY <1>11 DEF RecordGitDecision
  <2> QED
    BY <1>11, <2>1, <2>2, <2>3 DEF RecordGitDecision, gitAdapter, QuestionTypes
<1>12. ASSUME NEW h \in Clicks, DecisionWrittenLate(h) PROVE QuestionTypes'
  <2>1. input[click[h].ask].plan \in Plans
    BY <1>12 DEF DecisionWrittenLate, OnlyBoundAreShown, Bound
  <2>2. Written(h) \in DecisionRecords
    BY <1>12, ClickUpdates DEF DecisionWrittenLate, Written, DecisionRecords, ScreenTypes
  <2> QED
    BY <1>12, <2>1, <2>2 DEF DecisionWrittenLate, gitAdapter, QuestionTypes
<1>13. ASSUME NEW h \in Clicks, ResumeAppServer(h) PROVE QuestionTypes'
  <2>1. ResumeOutcome(h) /\ UNCHANGED private
    BY <1>13, ResumeAnswersOnce DEF ResumeAppServer
  <2> QED
    BY <2>1 DEF ResumeOutcome, gitAdapter, Answered, QuestionTypes
<1>14. ASSUME NEW h \in Clicks, AnswerDrains(h) PROVE QuestionTypes'
  BY <1>14 DEF AnswerDrains, QuestionTypes
<1>15. ASSUME
             \/ UNCHANGED gitVars
             \/ \E p \in Plans : CapturePlan(p)
             \/ ObserveApprovedExecution
             \/ \E a \in Asks : DeadlinePassed(a)
             \/ ContinuationStarts
             \/ ProjectGitEvent
             \/ PostGitCard
             \/ RememberGitCard
             \/ TerminalizeGitCard
             \/ \E h \in Clicks, a \in Asks, d \in {"approve", "reject"} : ClickGit(h, a, d)
             \/ \E h \in Clicks : ServeClick(h)
             \/ \E h \in Clicks : ShowDecision(h)
      PROVE  UNCHANGED <<input, gitTold, private>>
  BY <1>15 DEF gitVars, gitAdapter, gitSlack, CapturePlan, ObserveApprovedExecution, DeadlinePassed,
     ContinuationStarts, ProjectGitEvent, PostGitCard, RememberGitCard, TerminalizeGitCard, ClickGit,
     ServeClick, ShowDecision
<1> QED
  BY <1>1, <1>2, <1>3, <1>4, <1>5, <1>6, <1>7, <1>8, <1>9, <1>10, <1>11, <1>12, <1>13, <1>14, <1>15 DEF
     GitNext

LEMMA InputsMoveOn ==
    ASSUME GitIInv, [GitNext]_gitVars PROVE InputMoves
<1> USE DEF GitIInv, GitTypes
<1>1. CASE UNCHANGED input
  BY <1>1 DEF InputMoves
<1>2. ASSUME NEW a \in Asks, HandleUserInputRequest(a) PROVE InputMoves
  <2>1. CASE BindQuestion(a) /\ UNCHANGED private
    BY <1>2, <2>1, BoundOrRefused DEF HandleUserInputRequest, BindingOutcome, InputMoves
  <2>2. CASE input' = [input EXCEPT ![a].at = "waiting"]
    BY <1>2, <2>2 DEF HandleUserInputRequest, QuestionTypes, InputRecords, InputMoves
  <2> QED
    BY <1>2, <2>1, <2>2, Zenon DEF HandleUserInputRequest
<1>3. ASSUME NEW a \in Asks, BindingGraceEnds(a) PROVE InputMoves
  <2>1. CASE BindQuestion(a) /\ UNCHANGED private
    BY <1>3, <2>1, BoundOrRefused DEF BindingGraceEnds, BindingOutcome, InputMoves
  <2>2. CASE input' = [input EXCEPT ![a].at = "gone"]
    BY <1>3, <2>2 DEF BindingGraceEnds, QuestionTypes, InputRecords, InputMoves
  <2> QED
    BY <1>3, <2>1, <2>2, Zenon DEF BindingGraceEnds, Refuse
<1>4. ASSUME NEW a \in Asks, ExpireGitUserInput(a) PROVE InputMoves
  BY <1>4 DEF ExpireGitUserInput, GitInputExpired, QuestionTypes, InputRecords, InputMoves
<1>5. ASSUME NEW a \in Asks, ServerRequestEnds(a) PROVE InputMoves
  BY <1>5 DEF ServerRequestEnds, QuestionTypes, InputRecords, InputMoves
<1>6. ASSUME CompleteTurn PROVE InputMoves
  BY <1>6 DEF CompleteTurn, BindingsRejected, WaitingAsks, QuestionTypes, InputRecords, InputMoves
<1>7. ASSUME ContinueApprovedTurn PROVE InputMoves
  BY <1>7 DEF ContinueApprovedTurn, InputsRemoved, QuestionTypes, InputRecords, InputMoves
<1>8. ASSUME TurnOver PROVE InputMoves
  BY <1>8 DEF TurnOver, InputsRemoved, QuestionTypes, InputRecords, InputMoves
<1>9. ASSUME AbortTurn PROVE InputMoves
  BY <1>9, AbortedTurn DEF TurnAborts, AbortOutcome, InputMoves
<1>10. ASSUME RejectUnprojected PROVE InputMoves
  <2>1. gitProjecting.ask \in Asks
    BY <1>10 DEF RejectUnprojected, OnlyBoundAreShown, Bound
  <2> QED
    BY <1>10, <2>1, RejectedUnprojected DEF TurnAborts, AbortOutcome, Answered, InputMoves
<1>11. ASSUME NEW h \in Clicks, ResumeAppServer(h) PROVE InputMoves
  <2>1. click[h].ask \in Asks
    BY <1>11 DEF ResumeAppServer, OnlyBoundAreShown, Bound
  <2> QED
    BY <1>11, <2>1, ResumeAnswersOnce DEF ResumeOutcome, Answered, gitAdapter, InputMoves
<1>12. ASSUME
             \/ UNCHANGED gitVars
             \/ \E p \in Plans : CapturePlan(p)
             \/ ObserveApprovedExecution
             \/ \E a \in Asks : DeadlinePassed(a)
             \/ ContinuationStarts
             \/ ProjectGitEvent
             \/ PostGitCard
             \/ RememberGitCard
             \/ TerminalizeGitCard
             \/ \E h \in Clicks, a \in Asks, d \in {"approve", "reject"} : ClickGit(h, a, d)
             \/ \E h \in Clicks : ServeClick(h)
             \/ \E h \in Clicks : RecordGitDecision(h)
             \/ \E h \in Clicks : DecisionWrittenLate(h)
             \/ \E h \in Clicks : AnswerDrains(h)
             \/ \E h \in Clicks : ShowDecision(h)
      PROVE  UNCHANGED input
  BY <1>12 DEF gitVars, gitAdapter, gitSlack, CapturePlan, ObserveApprovedExecution, DeadlinePassed,
     ContinuationStarts, ProjectGitEvent, PostGitCard, RememberGitCard, TerminalizeGitCard, ClickGit,
     ServeClick, RecordGitDecision, DecisionWrittenLate, AnswerDrains, ShowDecision
<1> QED
  BY <1>1, <1>2, <1>3, <1>4, <1>5, <1>6, <1>7, <1>8, <1>9, <1>10, <1>11, <1>12 DEF GitNext

LEMMA AnswersGoWithQuestions ==
    ASSUME GitIInv, [GitNext]_gitVars PROVE AnswerMoves
<1> USE DEF GitIInv, GitTypes
<1>1. CASE UNCHANGED gitTold
  BY <1>1 DEF AnswerMoves
<1>2. ASSUME NEW a \in Asks, HandleUserInputRequest(a) PROVE AnswerMoves
  <2>1. CASE BindQuestion(a) /\ UNCHANGED private
    BY <1>2, <2>1, BoundOrRefused DEF HandleUserInputRequest, BindingOutcome, AnswerMoves
  <2> QED
    BY <1>2, <2>1, Zenon DEF HandleUserInputRequest, AnswerMoves
<1>3. ASSUME NEW a \in Asks, BindingGraceEnds(a) PROVE AnswerMoves
  <2>1. CASE BindQuestion(a) /\ UNCHANGED private
    BY <1>3, <2>1, BoundOrRefused DEF BindingGraceEnds, BindingOutcome, AnswerMoves
  <2>2. CASE input' = [input EXCEPT ![a].at = "gone"] /\ gitTold' = [gitTold EXCEPT ![a] = "error"]
    BY <1>3, <2>2 DEF BindingGraceEnds, QuestionTypes, InputRecords, AnswerMoves
  <2> QED
    BY <1>3, <2>1, <2>2, Zenon DEF BindingGraceEnds, Refuse
<1>4. ASSUME NEW a \in Asks, ExpireGitUserInput(a) PROVE AnswerMoves
  <2>1. Answered(a, "reject") /\ input[a].at = "pending"
    BY <1>4, AnsweredAndForgotten DEF ExpireGitUserInput, GitInputExpired
  <2> QED
    BY <2>1 DEF Answered, AnswerMoves
<1>5. ASSUME CompleteTurn PROVE AnswerMoves
  <2>1. \A a \in Asks : \/ gitTold'[a] = gitTold[a]
                        \/ input[a].at = "waiting" /\ input'[a].at = "gone" /\ gitTold'[a] = "error"
    BY <1>5 DEF CompleteTurn, BindingsRejected, WaitingAsks, QuestionTypes, InputRecords
  <2> QED
    BY <2>1 DEF AnswerMoves
<1>6. ASSUME AbortTurn PROVE AnswerMoves
  BY <1>6, AbortedTurn DEF TurnAborts, AbortOutcome, AnswerMoves
<1>7. ASSUME RejectUnprojected PROVE AnswerMoves
  <2>1. gitProjecting.ask \in Asks
    BY <1>7 DEF RejectUnprojected, OnlyBoundAreShown, Bound
  <2> QED
    BY <1>7, <2>1, RejectedUnprojected DEF TurnAborts, AbortOutcome, Answered, AnswerMoves
<1>8. ASSUME NEW h \in Clicks, ResumeAppServer(h) PROVE AnswerMoves
  <2>1. click[h].ask \in Asks
    BY <1>8 DEF ResumeAppServer, OnlyBoundAreShown, Bound
  <2>2. ~click[h].closes => private[input[click[h].ask].plan] = Written(h)
    BY <1>8 DEF ResumeAppServer, ApprovalsArePrivate
  <2> QED
    BY <1>8, <2>1, <2>2, ResumeAnswersOnce
       DEF ResumeOutcome, Answered, gitAdapter, Written, ApprovedBy, AnswerMoves
<1>9. ASSUME NEW h \in Clicks, AnswerDrains(h) PROVE AnswerMoves
  BY <1>9 DEF AnswerDrains, AnsweredIsGone, QuestionTypes, AnswerMoves
<1>10. ASSUME
             \/ UNCHANGED gitVars
             \/ \E p \in Plans : CapturePlan(p)
             \/ ObserveApprovedExecution
             \/ \E a \in Asks : DeadlinePassed(a)
             \/ \E a \in Asks : ServerRequestEnds(a)
             \/ ContinueApprovedTurn
             \/ ContinuationStarts
             \/ TurnOver
             \/ ProjectGitEvent
             \/ PostGitCard
             \/ RememberGitCard
             \/ TerminalizeGitCard
             \/ \E h \in Clicks, a \in Asks, d \in {"approve", "reject"} : ClickGit(h, a, d)
             \/ \E h \in Clicks : ServeClick(h)
             \/ \E h \in Clicks : RecordGitDecision(h)
             \/ \E h \in Clicks : DecisionWrittenLate(h)
             \/ \E h \in Clicks : ShowDecision(h)
      PROVE  UNCHANGED gitTold
  BY <1>10 DEF gitVars, gitAdapter, gitSlack, CapturePlan, ObserveApprovedExecution, DeadlinePassed,
     ServerRequestEnds, ContinueApprovedTurn, ContinuationStarts, TurnOver, ProjectGitEvent,
     PostGitCard, RememberGitCard, TerminalizeGitCard, ClickGit, ServeClick, RecordGitDecision,
     DecisionWrittenLate, ShowDecision
<1> QED
  BY <1>1, <1>2, <1>3, <1>4, <1>5, <1>6, <1>7, <1>8, <1>9, <1>10 DEF GitNext

LEMMA PrivateIsWrittenOnce ==
    ASSUME GitIInv, [GitNext]_gitVars PROVE PrivateMoves
<1> USE DEF GitIInv, GitTypes
<1>1. CASE UNCHANGED private
  BY <1>1 DEF PrivateMoves
<1>2. ASSUME NEW h \in Clicks, RecordGitDecision(h) PROVE PrivateMoves
  BY <1>2 DEF RecordGitDecision, Unwritten, QuestionTypes, PrivateMoves
<1>3. ASSUME NEW h \in Clicks, DecisionWrittenLate(h) PROVE PrivateMoves
  BY <1>3 DEF DecisionWrittenLate, Unwritten, QuestionTypes, PrivateMoves
<1>4. ASSUME
             \/ UNCHANGED gitVars
             \/ \E p \in Plans : CapturePlan(p)
             \/ ObserveApprovedExecution
             \/ \E a \in Asks : HandleUserInputRequest(a)
             \/ \E a \in Asks : BindingGraceEnds(a)
             \/ \E a \in Asks : DeadlinePassed(a)
             \/ \E a \in Asks : ExpireGitUserInput(a)
             \/ \E a \in Asks : ServerRequestEnds(a)
             \/ CompleteTurn
             \/ ContinueApprovedTurn
             \/ ContinuationStarts
             \/ TurnOver
             \/ AbortTurn
             \/ ProjectGitEvent
             \/ PostGitCard
             \/ RememberGitCard
             \/ RejectUnprojected
             \/ TerminalizeGitCard
             \/ \E h \in Clicks, a \in Asks, d \in {"approve", "reject"} : ClickGit(h, a, d)
             \/ \E h \in Clicks : ServeClick(h)
             \/ \E h \in Clicks : ResumeAppServer(h)
             \/ \E h \in Clicks : AnswerDrains(h)
             \/ \E h \in Clicks : ShowDecision(h)
      PROVE  UNCHANGED private
  BY <1>4 DEF gitVars, gitAdapter, gitSlack, CapturePlan, ObserveApprovedExecution,
     HandleUserInputRequest, BindingGraceEnds, DeadlinePassed, ExpireGitUserInput, ServerRequestEnds,
     CompleteTurn, ContinueApprovedTurn, ContinuationStarts, TurnOver, AbortTurn, ProjectGitEvent,
     PostGitCard, RememberGitCard, RejectUnprojected, TerminalizeGitCard, ClickGit, ServeClick,
     ResumeAppServer, AnswerDrains, ShowDecision
<1> QED
  BY <1>1, <1>2, <1>3, <1>4 DEF GitNext

LEMMA ExecutionsBegin ==
    ASSUME GitIInv, [GitNext]_gitVars PROVE WatchMoves
<1> USE DEF GitIInv, GitTypes
<1>1. CASE UNCHANGED <<lifecycle, continuations>>
  BY <1>1 DEF WatchMoves
<1>2. ASSUME NEW p \in Plans, CapturePlan(p) PROVE WatchMoves
  BY <1>2 DEF CapturePlan, LifecycleTypes, LifecycleRecords, WatchMoves
<1>3. ASSUME ObserveApprovedExecution PROVE WatchMoves
  BY <1>3 DEF ObserveApprovedExecution, LifecycleTypes, LifecycleRecords, WatchMoves
<1>4. ASSUME NEW a \in Asks, HandleUserInputRequest(a) PROVE WatchMoves
  <2>1. CASE BindQuestion(a) /\ UNCHANGED <<continuations, private>>
    BY <2>1, BoundOrRefused DEF BindingOutcome, WatchMoves
  <2> QED
    BY <1>4, <2>1 DEF HandleUserInputRequest, WatchMoves
<1>5. ASSUME NEW a \in Asks, BindingGraceEnds(a) PROVE WatchMoves
  <2>1. CASE BindQuestion(a) /\ UNCHANGED <<continuations, private>>
    BY <2>1, BoundOrRefused DEF BindingOutcome, WatchMoves
  <2>2. CASE lifecycle' = [lifecycle EXCEPT !.captured = {}] /\ UNCHANGED continuations
    BY <2>2 DEF LifecycleTypes, LifecycleRecords, WatchMoves
  <2> QED
    BY <1>5, <2>1, <2>2, Zenon DEF BindingGraceEnds, Refuse
<1>6. ASSUME NEW a \in Asks, ServerRequestEnds(a) PROVE WatchMoves
  BY <1>6 DEF ServerRequestEnds, LifecycleTypes, LifecycleRecords, WatchMoves
<1>7. ASSUME CompleteTurn PROVE WatchMoves
  BY <1>7 DEF CompleteTurn, LifecycleTypes, LifecycleRecords, WatchMoves
<1>8. ASSUME ContinueApprovedTurn PROVE WatchMoves
  BY <1>8 DEF ContinueApprovedTurn, clearTurnArtifacts, LifecycleTypes, LifecycleRecords, WatchMoves
<1>9. ASSUME TurnOver PROVE WatchMoves
  BY <1>9 DEF TurnOver, NoLifecycle, WatchMoves
<1>10. ASSUME AbortTurn PROVE WatchMoves
  BY <1>10, AbortedTurn DEF TurnAborts, AbortOutcome, NoLifecycle, WatchMoves
<1>11. ASSUME RejectUnprojected PROVE WatchMoves
  BY <1>11, RejectedUnprojected DEF TurnAborts, AbortOutcome, NoLifecycle, WatchMoves
<1>12. ASSUME NEW h \in Clicks, ResumeAppServer(h) PROVE WatchMoves
  <2>1. click[h].ask \in Asks
    BY <1>12 DEF ResumeAppServer, OnlyBoundAreShown, Bound
  <2>2. ~click[h].closes => private[input[click[h].ask].plan] = Written(h)
    BY <1>12 DEF ResumeAppServer, ApprovalsArePrivate
  <2>3. input[click[h].ask].at = "pending" => BegunExecution(input[click[h].ask].plan).watch = input[click[h].ask].plan
    BY <2>1, LifecycleOperations DEF OnlyBoundAreShown, LifecycleTypes
  <2>4. CASE /\ input[click[h].ask].at = "pending" /\ Answered(click[h].ask, "approve")
             /\ click[h].decision = "approve" /\ ~click[h].closes
             /\ lifecycle' = BegunExecution(input[click[h].ask].plan)
             /\ UNCHANGED continuations
    BY <2>1, <2>2, <2>3, <2>4 DEF Answered, Written, ApprovedBy, WatchMoves
  <2> QED
    BY <1>12, <2>4, ResumeAnswersOnce DEF ResumeOutcome, gitAdapter, WatchMoves
<1>13. ASSUME NEW h \in Clicks, AnswerDrains(h) PROVE WatchMoves
  <2>1. input[click[h].ask].plan \in Plans
    BY <1>13 DEF AnswerDrains, OnlyBoundAreShown, Bound
  <2>2. ClearedExecution(input[click[h].ask].plan).watch # NoPlan
          => ClearedExecution(input[click[h].ask].plan) = lifecycle
    BY <2>1, LifecycleOperations DEF LifecycleTypes
  <2> QED
    BY <1>13, <2>2 DEF AnswerDrains, WatchMoves
<1>14. ASSUME
             \/ UNCHANGED gitVars
             \/ \E a \in Asks : DeadlinePassed(a)
             \/ \E a \in Asks : ExpireGitUserInput(a)
             \/ ContinuationStarts
             \/ ProjectGitEvent
             \/ PostGitCard
             \/ RememberGitCard
             \/ TerminalizeGitCard
             \/ \E h \in Clicks, a \in Asks, d \in {"approve", "reject"} : ClickGit(h, a, d)
             \/ \E h \in Clicks : ServeClick(h)
             \/ \E h \in Clicks : RecordGitDecision(h)
             \/ \E h \in Clicks : DecisionWrittenLate(h)
             \/ \E h \in Clicks : ShowDecision(h)
      PROVE  UNCHANGED <<lifecycle, continuations>>
  BY <1>14 DEF gitVars, gitAdapter, gitSlack, DeadlinePassed, ExpireGitUserInput, ContinuationStarts,
     ProjectGitEvent, PostGitCard, RememberGitCard, TerminalizeGitCard, ClickGit, ServeClick,
     RecordGitDecision, DecisionWrittenLate, ShowDecision, GitInputExpired
<1> QED
  BY <1>1, <1>2, <1>3, <1>4, <1>5, <1>6, <1>7, <1>8, <1>9, <1>10, <1>11, <1>12, <1>13, <1>14 DEF GitNext

(* A question that is bound stays bound, to the same plan. *)
LEMMA BoundForGood ==
    ASSUME InputMoves, NEW a, Bound(a)
    PROVE  Bound(a)' /\ input'[a].plan = input[a].plan
BY DEF InputMoves, Bound

LEMMA EventsStayBound ==
    ASSUME GitIInv, [GitNext]_gitVars PROVE EventsBound'
<1> USE DEF GitIInv, GitTypes
<1>1. CASE UNCHANGED gitEvents
  BY <1>1, InputsMoveOn, BoundForGood DEF EventsBound, OnlyBoundAreShown, ScreenTypes
<1>2. ASSUME NEW a \in Asks, HandleUserInputRequest(a) PROVE EventsBound'
  <2>1. CASE BindQuestion(a) /\ UNCHANGED private
    <3>1. CASE gitEvents' = gitEvents
      BY <3>1, InputsMoveOn, BoundForGood DEF EventsBound, OnlyBoundAreShown, ScreenTypes
    <3>2. CASE Emit("requested", a) /\ input'[a].at = "pending" /\ input'[a].plan \in Plans
      BY <3>2, EmitAppends, InputsMoveOn, BoundForGood DEF EventsBound, OnlyBoundAreShown, Bound
    <3> QED
      BY <2>1, <3>1, <3>2, BoundOrRefused DEF BindingOutcome
  <2>2. CASE gitEvents' = gitEvents
    BY <2>2, InputsMoveOn, BoundForGood DEF EventsBound, OnlyBoundAreShown, ScreenTypes
  <2> QED
    BY <1>2, <2>1, <2>2, Zenon DEF HandleUserInputRequest
<1>3. ASSUME NEW a \in Asks, BindingGraceEnds(a) PROVE EventsBound'
  <2>1. CASE BindQuestion(a) /\ UNCHANGED private
    <3>1. CASE gitEvents' = gitEvents
      BY <3>1, InputsMoveOn, BoundForGood DEF EventsBound, OnlyBoundAreShown, ScreenTypes
    <3>2. CASE Emit("requested", a) /\ input'[a].at = "pending" /\ input'[a].plan \in Plans
      BY <3>2, EmitAppends, InputsMoveOn, BoundForGood DEF EventsBound, OnlyBoundAreShown, Bound
    <3> QED
      BY <2>1, <3>1, <3>2, BoundOrRefused DEF BindingOutcome
  <2>2. CASE gitEvents' = gitEvents
    BY <2>2, InputsMoveOn, BoundForGood DEF EventsBound, OnlyBoundAreShown, ScreenTypes
  <2> QED
    BY <1>3, <2>1, <2>2, Zenon DEF BindingGraceEnds, Refuse
<1>4. ASSUME NEW a \in Asks, ExpireGitUserInput(a) PROVE EventsBound'
  <2>1. Emit("expired", a) /\ Bound(a)
    BY <1>4 DEF ExpireGitUserInput, GitInputExpired, OnlyBoundAreShown, Bound
  <2> QED
    BY <2>1, EmitAppends, InputsMoveOn, BoundForGood DEF EventsBound, OnlyBoundAreShown
<1>5. ASSUME NEW a \in Asks, ServerRequestEnds(a) PROVE EventsBound'
  <2>1. CASE gitEvents' = gitEvents
    BY <2>1, InputsMoveOn, BoundForGood DEF EventsBound, OnlyBoundAreShown, ScreenTypes
  <2>2. CASE Bound(a) /\ (Emit("resolvedExternally", a) \/ Emit("expired", a))
    BY <2>2, EmitAppends, InputsMoveOn, BoundForGood DEF EventsBound, OnlyBoundAreShown
  <2> QED
    BY <1>5, <2>1, <2>2 DEF ServerRequestEnds, OnlyBoundAreShown, Bound
<1>6. ASSUME AbortTurn PROVE EventsBound'
  BY <1>6, AbortedTurn DEF TurnAborts, EventsBound
<1>7. ASSUME ProjectGitEvent PROVE EventsBound'
  <2>1. gitEvents' = Tail(gitEvents) /\ gitEvents # <<>>
    BY <1>7 DEF ProjectGitEvent
  <2>2. /\ gitEvents' \in Seq(EventRecords)
        /\ \A i \in 1 .. Len(gitEvents') : i + 1 \in 1 .. Len(gitEvents) /\ gitEvents'[i] = gitEvents[i + 1]
    BY <2>1, HeadTailProperties DEF ScreenTypes
  <2> QED
    BY <2>2, InputsMoveOn, BoundForGood DEF EventsBound, OnlyBoundAreShown
<1>8. ASSUME RejectUnprojected PROVE EventsBound'
  <2>1. CASE gitEvents' = gitEvents
    BY <2>1, InputsMoveOn, BoundForGood DEF EventsBound, OnlyBoundAreShown, ScreenTypes
  <2>2. CASE TurnAborts
    BY <2>2 DEF TurnAborts, EventsBound
  <2> QED
    BY <1>8, <2>1, <2>2, RejectedUnprojected
<1>9. ASSUME NEW h \in Clicks, ResumeAppServer(h) PROVE EventsBound'
  <2>1. CASE gitEvents' = gitEvents
    BY <2>1, InputsMoveOn, BoundForGood DEF EventsBound, OnlyBoundAreShown, ScreenTypes
  <2>2. CASE Emit("expired", click[h].ask)
    <3>1. Bound(click[h].ask) /\ click[h].ask \in Asks
      BY <1>9 DEF ResumeAppServer, OnlyBoundAreShown, Bound
    <3> QED
      BY <2>2, <3>1, EmitAppends, InputsMoveOn, BoundForGood DEF EventsBound, OnlyBoundAreShown
  <2> QED
    BY <1>9, <2>1, <2>2, ResumeAnswersOnce DEF ResumeOutcome
<1>10. ASSUME
             \/ UNCHANGED gitVars
             \/ \E p \in Plans : CapturePlan(p)
             \/ ObserveApprovedExecution
             \/ \E a \in Asks : DeadlinePassed(a)
             \/ CompleteTurn
             \/ ContinueApprovedTurn
             \/ ContinuationStarts
             \/ TurnOver
             \/ PostGitCard
             \/ RememberGitCard
             \/ TerminalizeGitCard
             \/ \E h \in Clicks, a \in Asks, d \in {"approve", "reject"} : ClickGit(h, a, d)
             \/ \E h \in Clicks : ServeClick(h)
             \/ \E h \in Clicks : RecordGitDecision(h)
             \/ \E h \in Clicks : DecisionWrittenLate(h)
             \/ \E h \in Clicks : AnswerDrains(h)
             \/ \E h \in Clicks : ShowDecision(h)
      PROVE  UNCHANGED gitEvents
  BY <1>10 DEF gitVars, gitAdapter, gitSlack, CapturePlan, ObserveApprovedExecution, DeadlinePassed,
     CompleteTurn, ContinueApprovedTurn, ContinuationStarts, TurnOver, PostGitCard, RememberGitCard,
     TerminalizeGitCard, ClickGit, ServeClick, RecordGitDecision, DecisionWrittenLate, AnswerDrains,
     ShowDecision
<1> QED
  BY <1>1, <1>2, <1>3, <1>4, <1>5, <1>6, <1>7, <1>8, <1>9, <1>10 DEF GitNext

LEMMA ProjectedStaysBound ==
    ASSUME GitIInv, [GitNext]_gitVars PROVE ProjectingBound'
<1> USE DEF GitIInv, GitTypes
<1>1. CASE UNCHANGED gitProjecting
  BY <1>1, InputsMoveOn, BoundForGood DEF ProjectingBound, OnlyBoundAreShown, ScreenTypes
<1>2. ASSUME ProjectGitEvent PROVE ProjectingBound'
  <2>1. PICK e : e = Head(gitEvents)
    OBVIOUS
  <2>2. e \in EventRecords /\ Bound(e.ask)
    BY <1>2, <2>1 DEF ProjectGitEvent, ScreenTypes, OnlyBoundAreShown
  <2>3. \/ gitProjecting' = gitProjecting
        \/ \E at \in {"post", "queued"} : gitProjecting' = [at |-> at, type |-> e.type, ask |-> e.ask]
    BY <1>2, <2>1 DEF ProjectGitEvent
  <2>4. CASE gitProjecting' = gitProjecting
    BY <2>4, InputsMoveOn, BoundForGood DEF ProjectingBound, OnlyBoundAreShown, ScreenTypes
  <2>5. ASSUME NEW at \in {"post", "queued"}, gitProjecting' = [at |-> at, type |-> e.type, ask |-> e.ask]
        PROVE  ProjectingBound'
    <3>1. gitProjecting' \in ProjectingRecords /\ gitProjecting'.ask = e.ask
      BY <2>2, <2>5 DEF EventRecords, ProjectingRecords
    <3>2. Bound(e.ask)'
      BY <2>2, InputsMoveOn, BoundForGood
    <3> QED
      BY <3>1, <3>2 DEF ProjectingBound
  <2> QED
    BY <2>3, <2>4, <2>5
<1>3. ASSUME PostGitCard PROVE ProjectingBound'
  <2>1. \/ gitProjecting' = GitResting
        \/ \E at \in {"posted", "reject"} : gitProjecting' = [gitProjecting EXCEPT !.at = at]
    BY <1>3 DEF PostGitCard, GitResting
  <2>2. CASE gitProjecting' = GitResting
    BY <2>2 DEF GitResting, ProjectingBound, ProjectingRecords
  <2>3. ASSUME NEW at \in {"posted", "reject"}, gitProjecting' = [gitProjecting EXCEPT !.at = at]
        PROVE  ProjectingBound'
    <3>1. gitProjecting.at # "idle"
      BY <1>3 DEF PostGitCard, GitResting
    <3>2. gitProjecting' \in ProjectingRecords /\ gitProjecting'.ask = gitProjecting.ask
      BY <2>3 DEF ScreenTypes, ProjectingRecords
    <3> QED
      BY <3>1, <3>2, InputsMoveOn, BoundForGood DEF ProjectingBound, OnlyBoundAreShown
  <2> QED
    BY <2>1, <2>2, <2>3
<1>4. ASSUME RememberGitCard PROVE ProjectingBound'
  <2>1. \/ gitProjecting' = GitResting
        \/ \E at \in {"posted", "reject"} : gitProjecting' = [gitProjecting EXCEPT !.at = at]
    BY <1>4 DEF RememberGitCard, GitResting
  <2>2. CASE gitProjecting' = GitResting
    BY <2>2 DEF GitResting, ProjectingBound, ProjectingRecords
  <2>3. ASSUME NEW at \in {"posted", "reject"}, gitProjecting' = [gitProjecting EXCEPT !.at = at]
        PROVE  ProjectingBound'
    <3>1. gitProjecting.at # "idle"
      BY <1>4 DEF RememberGitCard, GitResting
    <3>2. gitProjecting' \in ProjectingRecords /\ gitProjecting'.ask = gitProjecting.ask
      BY <2>3 DEF ScreenTypes, ProjectingRecords
    <3> QED
      BY <3>1, <3>2, InputsMoveOn, BoundForGood DEF ProjectingBound, OnlyBoundAreShown
  <2> QED
    BY <2>1, <2>2, <2>3
<1>5. ASSUME RejectUnprojected PROVE ProjectingBound'
  <2>1. \/ gitProjecting' = GitResting
        \/ \E at \in {"posted", "reject"} : gitProjecting' = [gitProjecting EXCEPT !.at = at]
    BY <1>5 DEF RejectUnprojected, GitResting
  <2>2. CASE gitProjecting' = GitResting
    BY <2>2 DEF GitResting, ProjectingBound, ProjectingRecords
  <2>3. ASSUME NEW at \in {"posted", "reject"}, gitProjecting' = [gitProjecting EXCEPT !.at = at]
        PROVE  ProjectingBound'
    <3>1. gitProjecting.at # "idle"
      BY <1>5 DEF RejectUnprojected, GitResting
    <3>2. gitProjecting' \in ProjectingRecords /\ gitProjecting'.ask = gitProjecting.ask
      BY <2>3 DEF ScreenTypes, ProjectingRecords
    <3> QED
      BY <3>1, <3>2, InputsMoveOn, BoundForGood DEF ProjectingBound, OnlyBoundAreShown
  <2> QED
    BY <2>1, <2>2, <2>3
<1>6. ASSUME TerminalizeGitCard PROVE ProjectingBound'
  <2>1. \/ gitProjecting' = GitResting
        \/ \E at \in {"posted", "reject"} : gitProjecting' = [gitProjecting EXCEPT !.at = at]
    BY <1>6 DEF TerminalizeGitCard, GitResting
  <2>2. CASE gitProjecting' = GitResting
    BY <2>2 DEF GitResting, ProjectingBound, ProjectingRecords
  <2>3. ASSUME NEW at \in {"posted", "reject"}, gitProjecting' = [gitProjecting EXCEPT !.at = at]
        PROVE  ProjectingBound'
    <3>1. gitProjecting.at # "idle"
      BY <1>6 DEF TerminalizeGitCard, GitResting
    <3>2. gitProjecting' \in ProjectingRecords /\ gitProjecting'.ask = gitProjecting.ask
      BY <2>3 DEF ScreenTypes, ProjectingRecords
    <3> QED
      BY <3>1, <3>2, InputsMoveOn, BoundForGood DEF ProjectingBound, OnlyBoundAreShown
  <2> QED
    BY <2>1, <2>2, <2>3
<1>7. ASSUME
             \/ UNCHANGED gitVars
             \/ \E p \in Plans : CapturePlan(p)
             \/ ObserveApprovedExecution
             \/ \E a \in Asks : HandleUserInputRequest(a)
             \/ \E a \in Asks : BindingGraceEnds(a)
             \/ \E a \in Asks : DeadlinePassed(a)
             \/ \E a \in Asks : ExpireGitUserInput(a)
             \/ \E a \in Asks : ServerRequestEnds(a)
             \/ CompleteTurn
             \/ ContinueApprovedTurn
             \/ ContinuationStarts
             \/ TurnOver
             \/ AbortTurn
             \/ \E h \in Clicks, a \in Asks, d \in {"approve", "reject"} : ClickGit(h, a, d)
             \/ \E h \in Clicks : ServeClick(h)
             \/ \E h \in Clicks : RecordGitDecision(h)
             \/ \E h \in Clicks : DecisionWrittenLate(h)
             \/ \E h \in Clicks : ResumeAppServer(h)
             \/ \E h \in Clicks : AnswerDrains(h)
             \/ \E h \in Clicks : ShowDecision(h)
      PROVE  UNCHANGED gitProjecting
  BY <1>7 DEF gitVars, gitAdapter, gitSlack, CapturePlan, ObserveApprovedExecution,
     HandleUserInputRequest, BindingGraceEnds, DeadlinePassed, ExpireGitUserInput, ServerRequestEnds,
     CompleteTurn, ContinueApprovedTurn, ContinuationStarts, TurnOver, AbortTurn, ClickGit, ServeClick,
     RecordGitDecision, DecisionWrittenLate, ResumeAppServer, AnswerDrains, ShowDecision
<1> QED
  BY <1>1, <1>2, <1>3, <1>4, <1>5, <1>6, <1>7 DEF GitNext

LEMMA CardsStayBound ==
    ASSUME GitIInv, [GitNext]_gitVars PROVE CardsBound'
<1> USE DEF GitIInv, GitTypes
<1>1. CASE UNCHANGED gitCard
  BY <1>1, InputsMoveOn, BoundForGood DEF CardsBound, OnlyBoundAreShown, ScreenTypes, GitCards
<1>2. ASSUME PostGitCard PROVE CardsBound'
  <2>1. /\ gitCard' \in [Asks -> GitCards] /\ Bound(gitProjecting.ask)
        /\ \A b \in Asks : gitCard'[b] = "buttons" => gitCard[b] = "buttons" \/ b = gitProjecting.ask
    BY <1>2 DEF PostGitCard, OnlyBoundAreShown, ScreenTypes, GitCards
  <2> QED
    BY <2>1, InputsMoveOn, BoundForGood DEF CardsBound, OnlyBoundAreShown
<1>3. ASSUME RejectUnprojected PROVE CardsBound'
  <2>1. gitCard' \in [Asks -> GitCards] /\ \A b \in Asks : gitCard'[b] = "buttons" => gitCard[b] = "buttons"
    BY <1>3 DEF RejectUnprojected, CardWithdrawn, ScreenTypes, GitCards
  <2> QED
    BY <2>1, InputsMoveOn, BoundForGood DEF CardsBound, OnlyBoundAreShown
<1>4. ASSUME TerminalizeGitCard PROVE CardsBound'
  <2>1. gitCard' \in [Asks -> GitCards] /\ \A b \in Asks : gitCard'[b] = "buttons" => gitCard[b] = "buttons"
    BY <1>4 DEF TerminalizeGitCard, ScreenTypes, GitCards
  <2> QED
    BY <2>1, InputsMoveOn, BoundForGood DEF CardsBound, OnlyBoundAreShown
<1>5. ASSUME NEW h \in Clicks, ServeClick(h) PROVE CardsBound'
  <2>1. gitCard' \in [Asks -> GitCards] /\ \A b \in Asks : gitCard'[b] = "buttons" => gitCard[b] = "buttons"
    BY <1>5 DEF ServeClick, ScreenTypes, GitCards
  <2> QED
    BY <2>1, InputsMoveOn, BoundForGood DEF CardsBound, OnlyBoundAreShown
<1>6. ASSUME NEW h \in Clicks, ShowDecision(h) PROVE CardsBound'
  <2>1. gitCard' \in [Asks -> GitCards] /\ \A b \in Asks : gitCard'[b] = "buttons" => gitCard[b] = "buttons"
    BY <1>6 DEF ShowDecision, ScreenTypes, GitCards
  <2> QED
    BY <2>1, InputsMoveOn, BoundForGood DEF CardsBound, OnlyBoundAreShown
<1>7. ASSUME
             \/ UNCHANGED gitVars
             \/ \E p \in Plans : CapturePlan(p)
             \/ ObserveApprovedExecution
             \/ \E a \in Asks : HandleUserInputRequest(a)
             \/ \E a \in Asks : BindingGraceEnds(a)
             \/ \E a \in Asks : DeadlinePassed(a)
             \/ \E a \in Asks : ExpireGitUserInput(a)
             \/ \E a \in Asks : ServerRequestEnds(a)
             \/ CompleteTurn
             \/ ContinueApprovedTurn
             \/ ContinuationStarts
             \/ TurnOver
             \/ AbortTurn
             \/ ProjectGitEvent
             \/ RememberGitCard
             \/ \E h \in Clicks, a \in Asks, d \in {"approve", "reject"} : ClickGit(h, a, d)
             \/ \E h \in Clicks : RecordGitDecision(h)
             \/ \E h \in Clicks : DecisionWrittenLate(h)
             \/ \E h \in Clicks : ResumeAppServer(h)
             \/ \E h \in Clicks : AnswerDrains(h)
      PROVE  UNCHANGED gitCard
  BY <1>7 DEF gitVars, gitAdapter, gitSlack, CapturePlan, ObserveApprovedExecution,
     HandleUserInputRequest, BindingGraceEnds, DeadlinePassed, ExpireGitUserInput, ServerRequestEnds,
     CompleteTurn, ContinueApprovedTurn, ContinuationStarts, TurnOver, AbortTurn, ProjectGitEvent,
     RememberGitCard, ClickGit, RecordGitDecision, DecisionWrittenLate, ResumeAppServer, AnswerDrains
<1> QED
  BY <1>1, <1>2, <1>3, <1>4, <1>5, <1>6, <1>7 DEF GitNext

LEMMA ClicksStayBound ==
    ASSUME GitIInv, [GitNext]_gitVars PROVE ClicksBound'
<1> USE DEF GitIInv, GitTypes
<1>1. CASE UNCHANGED click
  BY <1>1, InputsMoveOn, BoundForGood DEF ClicksBound, OnlyBoundAreShown, ScreenTypes
<1>2. ASSUME NEW h \in Clicks, NEW a \in Asks, NEW d \in {"approve", "reject"}, ClickGit(h, a, d)
      PROVE  ClicksBound'
  <2>1. click' \in [Clicks -> ClickRecords]
    BY <1>2, ClickUpdates DEF ClickGit, ScreenTypes
  <2>2. click'[h].ask = a /\ Bound(a) /\ \A g \in Clicks \ {h} : click'[g] = click[g]
    BY <1>2 DEF ClickGit, OnlyBoundAreShown, ScreenTypes, ClickRecords
  <2> QED
    BY <2>1, <2>2, InputsMoveOn, BoundForGood DEF ClicksBound, OnlyBoundAreShown
<1>3. ASSUME NEW h \in Clicks, ServeClick(h) PROVE ClicksBound'
  <2>1. \E at \in {"recording", "done"} : click' = [click EXCEPT ![h].at = at]
    BY <1>3 DEF ServeClick, ClickMoves, ClickLeaves
  <2>2. click[h].at # "idle"
    BY <1>3 DEF ServeClick, ClickMoves, ClickLeaves
  <2> QED
    BY <2>1, <2>2, ClickAdvances, InputsMoveOn, BoundForGood DEF ClicksBound, OnlyBoundAreShown
<1>4. ASSUME NEW h \in Clicks, RecordGitDecision(h) PROVE ClicksBound'
  <2>1. click[h].at # "idle"
    BY <1>4 DEF RecordGitDecision
  <2>2. CASE \/ click' = [click EXCEPT ![h].at = "recorded"]
             \/ click' = [click EXCEPT ![h].at = "lost"]
             \/ click' = [click EXCEPT ![h].at = "done"]
    BY <2>1, <2>2, ClickAdvances, InputsMoveOn, BoundForGood DEF ClicksBound, OnlyBoundAreShown
  <2>3. CASE click' = [click EXCEPT ![h] = [click[h] EXCEPT !.at = "recorded", !.closes = TRUE]]
    <3> DEFINE v == [click[h] EXCEPT !.at = "recorded", !.closes = TRUE]
    <3>1. v \in ClickRecords
      BY ClickUpdates, Zenon DEF ScreenTypes
    <3>2. v.ask = click[h].ask
      BY DEF ScreenTypes, ClickRecords
    <3>3. click' = [click EXCEPT ![h] = v]
      BY <2>3
    <3> HIDE DEF v
    <3>4. click' \in [Clicks -> ClickRecords] /\ click'[h].ask = click[h].ask
      BY <3>1, <3>2, <3>3 DEF ScreenTypes
    <3>5. \A g \in Clicks \ {h} : click'[g] = click[g]
      BY <3>3 DEF ScreenTypes
    <3> QED
      BY <2>1, <3>4, <3>5, InputsMoveOn, BoundForGood DEF ClicksBound, OnlyBoundAreShown
  <2> QED
    BY <1>4, <2>2, <2>3, Zenon DEF RecordGitDecision, ClickMoves, ClickLeaves
<1>5. ASSUME NEW h \in Clicks, DecisionWrittenLate(h) PROVE ClicksBound'
  <2>1. \E at \in {"done"} : click' = [click EXCEPT ![h].at = at]
    BY <1>5 DEF DecisionWrittenLate, ClickMoves
  <2>2. click[h].at # "idle"
    BY <1>5 DEF DecisionWrittenLate, ClickMoves
  <2> QED
    BY <2>1, <2>2, ClickAdvances, InputsMoveOn, BoundForGood DEF ClicksBound, OnlyBoundAreShown
<1>6. ASSUME NEW h \in Clicks, ResumeAppServer(h) PROVE ClicksBound'
  <2>1. \E at \in {"answered", "done", "draining"} : click' = [click EXCEPT ![h].at = at]
    BY <1>6 DEF ResumeAppServer, ClickMoves, ClickLeaves
  <2>2. click[h].at # "idle"
    BY <1>6 DEF ResumeAppServer, ClickMoves, ClickLeaves
  <2> QED
    BY <2>1, <2>2, ClickAdvances, InputsMoveOn, BoundForGood DEF ClicksBound, OnlyBoundAreShown
<1>7. ASSUME NEW h \in Clicks, AnswerDrains(h) PROVE ClicksBound'
  <2>1. \E at \in {"answered", "done"} : click' = [click EXCEPT ![h].at = at]
    BY <1>7 DEF AnswerDrains, ClickMoves, ClickLeaves
  <2>2. click[h].at # "idle"
    BY <1>7 DEF AnswerDrains, ClickMoves, ClickLeaves
  <2> QED
    BY <2>1, <2>2, ClickAdvances, InputsMoveOn, BoundForGood DEF ClicksBound, OnlyBoundAreShown
<1>8. ASSUME NEW h \in Clicks, ShowDecision(h) PROVE ClicksBound'
  <2>1. \E at \in {"done"} : click' = [click EXCEPT ![h].at = at]
    BY <1>8 DEF ShowDecision, ClickLeaves
  <2>2. click[h].at # "idle"
    BY <1>8 DEF ShowDecision, ClickLeaves
  <2> QED
    BY <2>1, <2>2, ClickAdvances, InputsMoveOn, BoundForGood DEF ClicksBound, OnlyBoundAreShown
<1>9. ASSUME
             \/ UNCHANGED gitVars
             \/ \E p \in Plans : CapturePlan(p)
             \/ ObserveApprovedExecution
             \/ \E a \in Asks : HandleUserInputRequest(a)
             \/ \E a \in Asks : BindingGraceEnds(a)
             \/ \E a \in Asks : DeadlinePassed(a)
             \/ \E a \in Asks : ExpireGitUserInput(a)
             \/ \E a \in Asks : ServerRequestEnds(a)
             \/ CompleteTurn
             \/ ContinueApprovedTurn
             \/ ContinuationStarts
             \/ TurnOver
             \/ AbortTurn
             \/ ProjectGitEvent
             \/ PostGitCard
             \/ RememberGitCard
             \/ RejectUnprojected
             \/ TerminalizeGitCard
      PROVE  UNCHANGED click
  BY <1>9 DEF gitVars, gitAdapter, gitSlack, CapturePlan, ObserveApprovedExecution,
     HandleUserInputRequest, BindingGraceEnds, DeadlinePassed, ExpireGitUserInput, ServerRequestEnds,
     CompleteTurn, ContinueApprovedTurn, ContinuationStarts, TurnOver, AbortTurn, ProjectGitEvent,
     PostGitCard, RememberGitCard, RejectUnprojected, TerminalizeGitCard
<1> QED
  BY <1>1, <1>2, <1>3, <1>4, <1>5, <1>6, <1>7, <1>8, <1>9 DEF GitNext

(* A click that is recorded has what it says in the private store; one that  *)
(* drains has taken its question away.                                        *)
ClickStep(h) ==
    \/ click'[h] = click[h]
    \/ click'[h].at \notin {"recorded", "draining"}
    \/ click'[h].at = "recorded" /\ click'[h].closes
    \/ /\ click'[h].at = "recorded" /\ click'[h].ask \in Asks /\ input[click'[h].ask].plan \in Plans
       /\ input'[click'[h].ask].at = input[click'[h].ask].at
       /\ private'[input[click'[h].ask].plan] = Written(h)'
    \/ click'[h].at = "draining" /\ input'[click'[h].ask].at = "gone"
ClickSteps == \A h \in Clicks : ClickStep(h)

LEMMA ClicksAdvance ==
    ASSUME GitIInv, [GitNext]_gitVars PROVE ClickSteps
<1> USE DEF GitIInv, GitTypes
<1>1. CASE UNCHANGED click
  BY <1>1 DEF ClickStep, ClickSteps
<1>2. ASSUME NEW h \in Clicks, NEW a \in Asks, NEW d \in {"approve", "reject"}, ClickGit(h, a, d)
      PROVE  ClickSteps
  BY <1>2 DEF ClickGit, ScreenTypes, ClickRecords, ClickStep, ClickSteps
<1>3. ASSUME NEW h \in Clicks, ServeClick(h) PROVE ClickSteps
  <2>1. \/ click' = [click EXCEPT ![h].at = "recording"]
        \/ click' = [click EXCEPT ![h].at = "done"]
    BY <1>3 DEF ServeClick, ClickMoves, ClickLeaves
  <2> QED
    BY <2>1, ClickAdvances DEF ClickStep, ClickSteps
<1>4. ASSUME NEW h \in Clicks, RecordGitDecision(h) PROVE ClickSteps
  <2>1. CASE click' = [click EXCEPT ![h] = [click[h] EXCEPT !.at = "recorded", !.closes = TRUE]]
    <3>1. click'[h].at = "recorded" /\ click'[h].closes
      BY <2>1 DEF ScreenTypes, ClickRecords
    <3>2. \A g \in Clicks : g = h \/ click'[g] = click[g]
      BY <2>1 DEF ScreenTypes
    <3>3. ASSUME NEW g \in Clicks
          PROVE  ClickStep(g)
      <4>1. CASE g = h
        BY <3>1, <4>1, Zenon DEF ClickStep
      <4>2. CASE g # h
        BY <3>2, <4>2, Zenon DEF ClickStep
      <4> QED
        BY <4>1, <4>2, Zenon
    <3> QED
      BY <3>3 DEF ClickSteps
  <2>2. CASE \/ click' = [click EXCEPT ![h].at = "lost"]
             \/ click' = [click EXCEPT ![h].at = "done"]
    BY <2>2, ClickAdvances DEF ClickStep, ClickSteps
  <2>3. CASE click' = [click EXCEPT ![h].at = "recorded"] /\ private' = [private EXCEPT ![input[click[h].ask].plan] = Written(h)]
    <3>1. click[h].ask \in Asks /\ input[click[h].ask].plan \in Plans
      BY <1>4 DEF RecordGitDecision, OnlyBoundAreShown, Bound
    <3>2. /\ click'[h].at = "recorded" /\ click'[h].ask = click[h].ask /\ click'[h].decision = click[h].decision
          /\ \A g \in Clicks \ {h} : click'[g] = click[g]
      BY <2>3, ClickAdvances
    <3>3. private'[input[click[h].ask].plan] = Written(h) /\ Written(h) = Written(h)'
      BY <2>3, <3>1, <3>2 DEF QuestionTypes, Written
    <3>4. input' = input
      BY <1>4 DEF RecordGitDecision, gitAdapter
    <3> QED
      BY <3>1, <3>2, <3>3, <3>4 DEF ClickStep, ClickSteps
  <2> QED
    BY <1>4, <2>1, <2>2, <2>3, Zenon DEF RecordGitDecision, ClickMoves, ClickLeaves
<1>5. ASSUME NEW h \in Clicks, DecisionWrittenLate(h) PROVE ClickSteps
  <2>1. click' = [click EXCEPT ![h].at = "done"]
    BY <1>5 DEF DecisionWrittenLate, ClickMoves
  <2> QED
    BY <2>1, ClickAdvances DEF ClickStep, ClickSteps
<1>6. ASSUME NEW h \in Clicks, ResumeAppServer(h) PROVE ClickSteps
  <2>1. click[h].ask \in Asks
    BY <1>6 DEF ResumeAppServer, OnlyBoundAreShown, Bound
  <2>2. CASE click' = [click EXCEPT ![h].at = "draining"] /\ input' = [input EXCEPT ![click[h].ask].at = "gone"]
    <3>1. /\ click'[h].at = "draining" /\ click'[h].ask = click[h].ask
          /\ \A g \in Clicks \ {h} : click'[g] = click[g]
      BY <2>2, ClickAdvances
    <3>2. input'[click[h].ask].at = "gone"
      BY <2>1, <2>2 DEF QuestionTypes, InputRecords
    <3> QED
      BY <3>1, <3>2 DEF ClickStep, ClickSteps
  <2>3. CASE \/ click' = [click EXCEPT ![h].at = "answered"]
             \/ click' = [click EXCEPT ![h].at = "done"]
    BY <2>3, ClickAdvances DEF ClickStep, ClickSteps
  <2> QED
    BY <1>6, <2>2, <2>3, Zenon DEF ResumeAppServer, ClickMoves, ClickLeaves
<1>7. ASSUME NEW h \in Clicks, AnswerDrains(h) PROVE ClickSteps
  <2>1. \/ click' = [click EXCEPT ![h].at = "answered"]
        \/ click' = [click EXCEPT ![h].at = "done"]
    BY <1>7 DEF AnswerDrains, ClickMoves, ClickLeaves
  <2> QED
    BY <2>1, ClickAdvances DEF ClickStep, ClickSteps
<1>8. ASSUME NEW h \in Clicks, ShowDecision(h) PROVE ClickSteps
  <2>1. click' = [click EXCEPT ![h].at = "done"]
    BY <1>8 DEF ShowDecision, ClickLeaves
  <2> QED
    BY <2>1, ClickAdvances DEF ClickStep, ClickSteps
<1>9. ASSUME
             \/ UNCHANGED gitVars
             \/ \E p \in Plans : CapturePlan(p)
             \/ ObserveApprovedExecution
             \/ \E a \in Asks : HandleUserInputRequest(a)
             \/ \E a \in Asks : BindingGraceEnds(a)
             \/ \E a \in Asks : DeadlinePassed(a)
             \/ \E a \in Asks : ExpireGitUserInput(a)
             \/ \E a \in Asks : ServerRequestEnds(a)
             \/ CompleteTurn
             \/ ContinueApprovedTurn
             \/ ContinuationStarts
             \/ TurnOver
             \/ AbortTurn
             \/ ProjectGitEvent
             \/ PostGitCard
             \/ RememberGitCard
             \/ RejectUnprojected
             \/ TerminalizeGitCard
      PROVE  UNCHANGED click
  BY <1>9 DEF gitVars, gitAdapter, gitSlack, CapturePlan, ObserveApprovedExecution,
     HandleUserInputRequest, BindingGraceEnds, DeadlinePassed, ExpireGitUserInput, ServerRequestEnds,
     CompleteTurn, ContinueApprovedTurn, ContinuationStarts, TurnOver, AbortTurn, ProjectGitEvent,
     PostGitCard, RememberGitCard, RejectUnprojected, TerminalizeGitCard
<1> QED
  BY <1>1, <1>2, <1>3, <1>4, <1>5, <1>6, <1>7, <1>8, <1>9 DEF GitNext

LEMMA ScreenStaysBound ==
    ASSUME GitIInv, [GitNext]_gitVars PROVE ScreenTypes' /\ OnlyBoundAreShown'
<1>1. EventsBound' /\ ProjectingBound' /\ CardsBound' /\ ClicksBound'
  BY EventsStayBound, ProjectedStaysBound, CardsStayBound, ClicksStayBound
<1>2. \A a \in Asks : input'[a].at = "pending" => input'[a].plan \in Plans
  BY InputsMoveOn DEF InputMoves, GitIInv, OnlyBoundAreShown
<1> QED
  BY <1>1, <1>2 DEF EventsBound, ProjectingBound, CardsBound, ClicksBound, ScreenTypes,
     OnlyBoundAreShown

LEMMA AnsweredStaysGone ==
    ASSUME GitIInv, [GitNext]_gitVars PROVE AnsweredIsGone'
<1> USE DEF GitIInv, GitTypes
<1>1. InputMoves /\ AnswerMoves
  BY InputsMoveOn, AnswersGoWithQuestions
<1>2. \A a \in elsewhere' : a \in Asks => a \in elsewhere \/ input'[a].at = "gone"
  <2>1. CASE elsewhere' = elsewhere
    BY <2>1
  <2>2. ASSUME NEW a \in Asks, ServerRequestEnds(a)
        PROVE  elsewhere' = elsewhere \cup {a} /\ input'[a].at = "gone"
    BY <2>2 DEF ServerRequestEnds, QuestionTypes, InputRecords
  <2>3. (\E a \in Asks : ServerRequestEnds(a)) \/ elsewhere' = elsewhere
    BY DEF GitNext, gitVars, gitAdapter, gitSlack, CapturePlan, ObserveApprovedExecution,
       HandleUserInputRequest,
           BindingGraceEnds, DeadlinePassed, ExpireGitUserInput, GitInputExpired, CompleteTurn,
           ContinueApprovedTurn, ContinuationStarts, TurnOver, AbortTurn, ProjectGitEvent, PostGitCard,
           RememberGitCard, RejectUnprojected, TerminalizeGitCard, ClickGit, ServeClick, RecordGitDecision,
           DecisionWrittenLate, ResumeAppServer, AnswerDrains, ShowDecision
  <2> QED
    BY <2>1, <2>2, <2>3
<1>3. \A a \in Asks : gitTold'[a] # "nothing" \/ a \in elsewhere' => input'[a].at = "gone"
  BY <1>1, <1>2 DEF InputMoves, AnswerMoves, AnsweredIsGone
<1>4. \A h \in Clicks : click'[h].at = "draining" => input'[click'[h].ask].at = "gone"
  <2>1. ClickSteps
    BY ClicksAdvance
  <2>2. \A g \in Clicks : click[g].at = "draining" => click[g].ask \in Asks
    BY DEF OnlyBoundAreShown, Bound
  <2> QED
    BY <1>1, <2>1, <2>2 DEF ClickStep, ClickSteps, AnsweredIsGone, InputMoves
<1> QED
  BY <1>3, <1>4 DEF AnsweredIsGone

LEMMA ApprovalsStayPrivate ==
    ASSUME GitIInv, [GitNext]_gitVars PROVE ApprovalsArePrivate'
<1> USE DEF GitIInv, GitTypes
<1>1. InputMoves /\ AnswerMoves /\ PrivateMoves /\ WatchMoves /\ ClickSteps
  BY InputsMoveOn, AnswersGoWithQuestions, PrivateIsWrittenOnce, ExecutionsBegin, ClicksAdvance
<1>2. ASSUME NEW p \in Plans, NEW a \in Asks, ApprovedBy(p, a) PROVE ApprovedBy(p, a)'
  BY <1>1, <1>2 DEF PrivateMoves, ApprovedBy
<1>3. ASSUME NEW p \in Plans, Executed(p) PROVE Executed(p)'
  BY <1>1, <1>2, <1>3 DEF Executed, InputMoves
<1>4. \A h \in Clicks : click'[h].at = "recorded" /\ ~click'[h].closes =>
          private'[input'[click'[h].ask].plan] = Written(h)'
  <2> SUFFICES ASSUME NEW h \in Clicks, click'[h].at = "recorded", ~click'[h].closes
               PROVE  private'[input'[click'[h].ask].plan] = Written(h)'
    OBVIOUS
  <2>1. CASE click'[h] = click[h]
    <3>1. Bound(click[h].ask) /\ private[input[click[h].ask].plan] = Written(h) /\ Written(h)' = Written(h)
      BY <2>1 DEF OnlyBoundAreShown, ApprovalsArePrivate, Written
    <3>2. input'[click[h].ask].plan = input[click[h].ask].plan /\ input[click[h].ask].plan \in Plans
      BY <1>1, <3>1, BoundForGood DEF Bound
    <3>3. Written(h).decision \in {"approve", "reject"}
      BY ClickUpdates DEF Written, ScreenTypes
    <3> QED
      BY <1>1, <2>1, <3>1, <3>2, <3>3 DEF PrivateMoves
  <2>2. CASE /\ click'[h].ask \in Asks /\ input[click'[h].ask].plan \in Plans
             /\ input'[click'[h].ask].at = input[click'[h].ask].at
             /\ private'[input[click'[h].ask].plan] = Written(h)'
    BY <1>1, <2>2 DEF InputMoves
  <2> QED
    BY <1>1, <2>1, <2>2 DEF ClickStep, ClickSteps
<1>5. \A a \in Asks : gitTold'[a] = "approve" =>
          input'[a].plan \in Plans /\ private'[input'[a].plan] = [decision |-> "approve", ask |-> a]
  <2> SUFFICES ASSUME NEW a \in Asks, gitTold'[a] = "approve"
              
      PROVE  input'[a].plan \in Plans /\ private'[input'[a].plan] = [decision |-> "approve", ask |-> a]
    OBVIOUS
  <2>1. input[a].plan \in Plans /\ ApprovedBy(input[a].plan, a) /\ input'[a].plan = input[a].plan
    BY <1>1 DEF AnswerMoves, InputMoves, ApprovalsArePrivate, AnsweredIsGone, OnlyBoundAreShown
  <2> QED
    BY <1>2, <2>1 DEF ApprovedBy
<1>6. lifecycle'.watch \in Plans \cup {NoPlan} /\ lifecycle.watch \in Plans \cup {NoPlan}
  BY LifecycleIsTyped, LifecycleUpdates DEF LifecycleTypes
<1>7. \A p \in Plans : lifecycle'.watch = p /\ p # NoPlan => Executed(p)'
  <2> SUFFICES ASSUME NEW p \in Plans, lifecycle'.watch = p, p # NoPlan PROVE Executed(p)'
    OBVIOUS
  <2>1. CASE lifecycle'.watch = lifecycle.watch
    BY <1>3, <2>1 DEF ApprovalsArePrivate
  <2>2. ASSUME NEW a \in Asks, input[a].at = "pending", input'[a].at = "gone", ApprovedBy(input[a].plan, a),
               lifecycle'.watch = input[a].plan
        PROVE  Executed(p)'
    BY <1>2, <2>2 DEF Executed
  <2> QED
    BY <1>1, <2>1, <2>2 DEF WatchMoves
<1>8. \A p \in Plans : continuations'[p] > 0 => continuations'[p] = 1 /\ Executed(p)'
  <2> SUFFICES ASSUME NEW p \in Plans, continuations'[p] > 0 PROVE continuations'[p] = 1 /\ Executed(p)'
    OBVIOUS
  <2>1. CASE continuations' = continuations
    BY <1>3, <2>1 DEF ApprovalsArePrivate
  <2>2. CASE /\ lifecycle.watch # NoPlan /\ ~lifecycle.continued
             /\ continuations' = [continuations EXCEPT ![lifecycle.watch] = @ + 1]
    <3>1. CASE p = lifecycle.watch
      <4>1. continuations[p] = 0 /\ Executed(p)
        BY <2>2, <3>1 DEF ApprovalsArePrivate
      <4> QED
        BY <1>3, <2>2, <3>1, <4>1 DEF LifecycleTypes
    <3>2. CASE p # lifecycle.watch
      <4>1. continuations'[p] = continuations[p]
        BY <2>2, <3>2 DEF LifecycleTypes
      <4> QED
        BY <1>3, <4>1 DEF ApprovalsArePrivate
    <3> QED
      BY <3>1, <3>2
  <2> QED
    BY <1>1, <2>1, <2>2 DEF WatchMoves
<1>9. \A p \in Plans : lifecycle'.watch = p /\ p # NoPlan /\ ~lifecycle'.continued => continuations'[p] = 0
  <2> SUFFICES ASSUME NEW p \in Plans, lifecycle'.watch = p, p # NoPlan, ~lifecycle'.continued
               PROVE  continuations'[p] = 0
    OBVIOUS
  <2>1. CASE lifecycle'.watch = lifecycle.watch /\ lifecycle'.continued = lifecycle.continued /\ continuations' = continuations
    BY <2>1 DEF ApprovalsArePrivate
  <2>2. ASSUME NEW a \in Asks, input[a].at = "pending", ApprovedBy(p, a), continuations' = continuations
        PROVE  continuations'[p] = 0
    <3>1. ~Executed(p)
      <4> SUFFICES ASSUME NEW b \in Asks, ApprovedBy(p, b), input[b].at = "gone" PROVE FALSE
        BY DEF Executed
      <4>1. private[p].ask = a /\ private[p].ask = b
        BY <2>2 DEF ApprovedBy
      <4> QED
        BY <2>2, <4>1
    <3>2. continuations[p] \in Nat
      BY DEF LifecycleTypes
    <3> QED
      BY <2>2, <3>1, <3>2 DEF ApprovalsArePrivate
  <2> QED
    BY <1>1, <2>1, <2>2 DEF WatchMoves
<1> QED
  BY <1>4, <1>5, <1>6, <1>7, <1>8, <1>9 DEF ApprovalsArePrivate, ApprovedBy

LEMMA GitHoldsAtFirst ==
    ASSUME GitInit PROVE GitIInv
<1>1. LifecycleTypes
  BY Zenon DEF GitInit, LifecycleTypes, NoLifecycle, LifecycleRecords
<1>2. QuestionTypes
  BY DEF GitInit, QuestionTypes, InputRecords, DecisionRecords
<1>3. ScreenTypes
  <2>1. GitResting \in ProjectingRecords
    BY DEF GitResting, ProjectingRecords
  <2>2. [at |-> "idle", ask |-> NoAsk, decision |-> "reject", closes |-> FALSE] \in ClickRecords
    BY Zenon DEF ClickRecords
  <2> QED
    BY <2>1, <2>2 DEF GitInit, ScreenTypes, GitCards
<1>4. OnlyBoundAreShown /\ AnsweredIsGone /\ ApprovalsArePrivate
  BY DEF GitInit, OnlyBoundAreShown, AnsweredIsGone, ApprovalsArePrivate, GitResting, NoLifecycle
<1> QED
  BY <1>1, <1>2, <1>3, <1>4 DEF GitIInv, GitTypes

LEMMA GitIsKept ==
    ASSUME GitIInv, [GitNext]_gitVars PROVE GitIInv'
BY LifecycleIsTyped, QuestionsAreTyped, ScreenStaysBound, AnsweredStaysGone, ApprovalsStayPrivate
   DEF GitIInv, GitTypes

(* For any plans, questions and clicks: the app-server hears "approve"     *)
(* only when the private store has the approval of exactly this plan by    *)
(* this question, and an approved plan gets one continuation turn at most  *)
(* (recordGitDecisionBeforeAppServerResume, assessTurnCompletion).         *)
THEOREM ApprovalsAreWrittenFirst == GitSpec => []ApprovalIsPrivateFirst
<1>1. ASSUME GitIInv PROVE ApprovalIsPrivateFirst
  <2>1. \A p \in Plans : Executed(p) => private[p].decision = "approve"
    BY DEF Executed, ApprovedBy
  <2> QED
    BY <1>1, <2>1 DEF GitIInv, ApprovalsArePrivate, ApprovalIsPrivateFirst, ApprovedBy
<1> QED
  BY <1>1, GitHoldsAtFirst, GitIsKept, PTL DEF GitSpec

(* A question is answered once, and not after the app-server has called it *)
(* resolved, whatever races for it: the grace timer, the deadline, the end *)
(* of the turn or any number of clicks (#pendingUserInputs).               *)
THEOREM AnsweredOnce == GitSpec => QuestionAnsweredOnce
<1>1. ASSUME GitIInv, [GitNext]_gitVars
      PROVE  [\A a \in Asks : gitTold'[a] \notin {gitTold[a], "unsure"} =>
                gitTold[a] = "nothing" /\ a \notin elsewhere]_gitVars
  BY <1>1, AnswersGoWithQuestions DEF AnswerMoves, AnsweredIsGone, GitIInv
<1> QED
  BY <1>1, GitHoldsAtFirst, GitIsKept, PTL DEF GitSpec, QuestionAnsweredOnce

(***************************************************************************)
(* ChoiceRequests. A request ends once: what says or uses that it ended    *)
(* without an answer is right, and its continuation is offered once and    *)
(* taken once.                                                             *)
(***************************************************************************)

ChoiceEvents ==
    [type : {"requested", "expired", "resolvedExternally", "dispatched", "deliveryFailed", "serverResolved"},
     question : Nat]

ChoiceHandlers ==
    [at : {"idle", "done", "arrived", "resolving", "draining", "answered", "receipt", "failing", "continuing",
           "admitted", "running"},
     via : Vias, question : Nat]

ChoiceProjections ==
    [at : {"idle", "post", "attach", "remember", "cancel", "update"}, question : Nat, shows : CardStates]

Continuations == [state : {"none", "pending", "in_progress", "consumed"}, question : Nat]

ChoiceTypes ==
    /\ kind \in {"native", "ordinary", "external"} /\ choicePending \in Nat
    /\ events \in Seq(ChoiceEvents) /\ newTurns \in Nat
    /\ handler \in [Handlers -> ChoiceHandlers]

CardTypes ==
    /\ projecting \in ChoiceProjections /\ choiceCard \in [Questions -> CardStates]
    /\ displayed \in Nat /\ dispatched \in Nat /\ continuation \in Continuations

(* The request is over and was not answered: it never will be.             *)
NeverAnswered == appServer \notin {"idle", "answered"} /\ choicePending = Nobody

Ends == {"continuation", "sentAsTurn", "closed", "expired"}
InNewTurn == {"continuing", "admitted", "running"}

(* Whatever says or uses that the request ended without an answer is right. *)
EndsAreTrue ==
    /\ choicePending # Nobody => appServer = "waiting"
    /\ receipt \/ (\E h \in Handlers : handler[h].at = "draining") => choicePending = Nobody /\ appServer # "idle"
    /\ \A i \in 1 .. Len(events) : events[i].type \in {"expired", "resolvedExternally"} => NeverAnswered /\ IsChoice
    /\ projecting.shows \in Ends => NeverAnswered
    /\ \A q \in Questions : choiceCard[q] \in Ends => NeverAnswered
    /\ continuation.state # "none" => NeverAnswered /\ kind = "ordinary"
    /\ \A h \in Handlers : handler[h].at \in InNewTurn => NeverAnswered /\ kind = "ordinary"
    /\ newTurns > 0 => NeverAnswered /\ kind = "ordinary"

(* The continuation is offered once, by an event that comes once, and one  *)
(* handler takes it.                                                       *)
Offers(i) == i \in 1 .. Len(events) /\ events[i].type = "resolvedExternally"
Continues(h) == h \in Handlers /\ handler[h].at = "continuing"

OfferedOnce ==
    /\ \A i, j \in 1 .. Len(events) : Offers(i) /\ Offers(j) => i = j
    /\ (\E i \in 1 .. Len(events) : Offers(i)) => ended /\ continuation.state = "none"
    /\ continuation.state # "none" => ended
    /\ (\E i \in 1 .. Len(events) : Offers(i)) \/ continuation.state = "pending" =>
          newTurns = 0 /\ \A h \in Handlers : ~Continues(h)
    /\ \A g, h \in Handlers : Continues(g) /\ Continues(h) => g = h
    /\ (\E h \in Handlers : Continues(h)) => ended /\ newTurns = 0
    /\ newTurns > 0 => newTurns = 1 /\ ended

ChoiceIInv == ChoiceTypes /\ CardTypes /\ EndsAreTrue /\ OfferedOnce

-----------------------------------------------------------------------------

LEMMA HandlerGoes ==
    ASSUME ChoiceTypes, NEW h \in Handlers,
           NEW at \in {"done", "resolving", "draining", "answered", "receipt", "failing", "continuing", "admitted", "running"},
           Goes(h, at)
    PROVE  /\ handler' \in [Handlers -> ChoiceHandlers] /\ handler'[h].at = at
           /\ \A g \in Handlers : g = h \/ handler'[g] = handler[g]
<1>1. [handler[h] EXCEPT !.at = at] \in ChoiceHandlers /\ [handler[h] EXCEPT !.at = at].at = at
  BY DEF ChoiceTypes, ChoiceHandlers
<1> QED
  BY <1>1 DEF ChoiceTypes, Goes

LEMMA HandlerArrives ==
    ASSUME ChoiceTypes, NEW h \in Handlers, NEW via \in Vias, NEW at \in {"arrived", "resolving"}, NEW q \in Nat,
           handler' = [handler EXCEPT ![h] = [at |-> at, via |-> via, question |-> q]]
    PROVE  /\ handler' \in [Handlers -> ChoiceHandlers] /\ handler'[h].at = at
           /\ \A g \in Handlers : g = h \/ handler'[g] = handler[g]
<1>1. [at |-> at, via |-> via, question |-> q] \in ChoiceHandlers
  BY DEF ChoiceHandlers
<1> QED
  BY <1>1 DEF ChoiceTypes

ChoiceEventTypes == {"requested", "expired", "resolvedExternally", "dispatched", "deliveryFailed", "serverResolved"}

LEMMA PushedIsTyped ==
    ASSUME ChoiceTypes, NEW q \in Nat, NEW type \in ChoiceEventTypes
    PROVE  /\ Pushed(type, q) \in Seq(ChoiceEvents)
           /\ \/ Pushed(type, q) = events
              \/ \E e \in ChoiceEvents : Pushed(type, q) = Append(events, e) /\ e.type = type
<1> DEFINE e == [type |-> type, question |-> q]
<1>1. e \in ChoiceEvents /\ e.type = type
  BY DEF ChoiceEvents, ChoiceEventTypes
<1>2. Pushed(type, q) = events \/ Pushed(type, q) = Append(events, e)
  BY DEF Pushed
<1> HIDE DEF e
<1> QED
  BY <1>1, <1>2 DEF ChoiceTypes

(* An event is added or taken.  One that tells of an end is added at it,   *)
(* and the one that offers the continuation only at the first.             *)
EventMoves ==
    \/ events' = events \/ events' = <<>>
    \/ events # <<>> /\ events' = Tail(events)
    \/ \E e \in ChoiceEvents :
          /\ events' = Append(events, e)
          /\ e.type \in {"expired", "resolvedExternally"} => NeverAnswered' /\ IsChoice
          /\ e.type = "resolvedExternally" => ~ended /\ ended'

LEMMA PushMoves ==
    ASSUME ChoiceTypes, NEW q \in Nat, NEW type \in ChoiceEventTypes, events' = Pushed(type, q),
           type \in {"expired", "resolvedExternally"} => NeverAnswered' /\ IsChoice,
           type = "resolvedExternally" => ~ended /\ ended'
    PROVE  events' \in Seq(ChoiceEvents) /\ EventMoves
<1>1. events' \in Seq(ChoiceEvents)
  BY PushedIsTyped
<1>2. CASE events' = events
  BY <1>1, <1>2 DEF EventMoves
<1>3. ASSUME NEW e \in ChoiceEvents, events' = Append(events, e), e.type = type
      PROVE  EventMoves
  BY <1>3 DEF EventMoves
<1> QED
  BY <1>1, <1>2, <1>3, PushedIsTyped

LEMMA EventsMove ==
    ASSUME ChoiceIInv, [ChoiceNext]_choiceVars PROVE events' \in Seq(ChoiceEvents) /\ EventMoves
<1> USE DEF ChoiceIInv
<1>1. CASE UNCHANGED events
  BY <1>1 DEF ChoiceTypes, EventMoves
<1>2. ASSUME HandleChoiceRequest PROVE events' \in Seq(ChoiceEvents) /\ EventMoves
  <2>1. CASE events' = Pushed("requested", 1)
    <3>1. "requested" \in ChoiceEventTypes /\ 1 \in Nat
      BY <1>2, <2>1 DEF HandleChoiceRequest, ChoiceEventTypes, ChoiceTypes, EndsAreTrue, NeverAnswered,
         Nobody
    <3> QED
      BY <2>1, <3>1, PushMoves
  <2> QED
    BY <1>2, <2>1 DEF HandleChoiceRequest
<1>3. ASSUME ExpireRequest PROVE events' \in Seq(ChoiceEvents) /\ EventMoves
  <2>1. CASE events' = events
    BY <2>1 DEF ChoiceTypes, EventMoves
  <2>2. CASE events' = Pushed("expired", choicePending) /\ IsChoice
    <3>1. "expired" \in ChoiceEventTypes /\ choicePending \in Nat /\ NeverAnswered'
      BY <1>3 DEF ExpireRequest, Expired, ChoiceEventTypes, ChoiceTypes, NeverAnswered
    <3> QED
      BY <2>2, <3>1, PushMoves
  <2> QED
    BY <1>3, <2>1, <2>2, Zenon DEF ExpireRequest, Expired
<1>4. ASSUME ServerRequestResolved PROVE events' \in Seq(ChoiceEvents) /\ EventMoves
  <2>1. CASE events' = events
    BY <2>1 DEF ChoiceTypes, EventMoves
  <2>2. CASE events' = Pushed("serverResolved", 1)
    BY <2>2, PushMoves DEF ChoiceEventTypes
  <2>3. CASE events' = Pushed("resolvedExternally", choicePending) /\ choicePending # Nobody /\ IsChoice
    <3>1. "resolvedExternally" \in ChoiceEventTypes /\ choicePending \in Nat /\ NeverAnswered'
      BY <1>4, <2>3 DEF ServerRequestResolved, ChoiceEventTypes, ChoiceTypes, EndsAreTrue, NeverAnswered
    <3>2. ~ended /\ ended'
      BY <1>4, Zenon DEF ServerRequestResolved
    <3> QED
      BY <2>3, <3>1, <3>2, PushMoves
  <2> QED
    BY <1>4, <2>1, <2>2, <2>3, Zenon DEF ServerRequestResolved
<1>5. ASSUME ObserveDeliveryStderr PROVE events' \in Seq(ChoiceEvents) /\ EventMoves
  <2>1. CASE events' = Pushed("deliveryFailed", 1)
    <3>1. "deliveryFailed" \in ChoiceEventTypes /\ 1 \in Nat
      BY <1>5, <2>1 DEF ObserveDeliveryStderr, ChoiceEventTypes, ChoiceTypes, EndsAreTrue,
         NeverAnswered, Nobody
    <3> QED
      BY <2>1, <3>1, PushMoves
  <2> QED
    BY <1>5, <2>1 DEF ObserveDeliveryStderr
<1>6. ASSUME ProjectEvent PROVE events' \in Seq(ChoiceEvents) /\ EventMoves
  BY <1>6 DEF ProjectEvent, ChoiceTypes, EventMoves
<1>7. ASSUME CancelUnprojected PROVE events' \in Seq(ChoiceEvents) /\ EventMoves
  <2>1. events' \in {events, <<>>}
    BY <1>7 DEF CancelUnprojected
  <2>2. events' = events \/ events' = <<>>
    BY <2>1
  <2>3. events' \in Seq(ChoiceEvents)
    <3>1. <<>> \in Seq(ChoiceEvents) /\ events \in Seq(ChoiceEvents)
      BY DEF ChoiceTypes
    <3> QED
      BY <2>2, <3>1, Zenon
  <2> QED
    BY <2>2, <2>3, Zenon DEF EventMoves
<1>8. ASSUME NEW h \in Handlers, AcceptAnswer(h) PROVE events' \in Seq(ChoiceEvents) /\ EventMoves
  <2>1. CASE events' = events
    BY <2>1 DEF ChoiceTypes, EventMoves
  <2>2. CASE events' = Pushed("requested", choicePending + 1)
    <3>1. "requested" \in ChoiceEventTypes /\ choicePending + 1 \in Nat
      BY <1>8, <2>2 DEF AcceptAnswer, ChoiceEventTypes, ChoiceTypes, EndsAreTrue, NeverAnswered, Nobody
    <3> QED
      BY <2>2, <3>1, PushMoves
  <2> QED
    BY <1>8, <2>1, <2>2 DEF AcceptAnswer
<1>9. ASSUME NEW h \in Handlers, AnswerTooLate(h) PROVE events' \in Seq(ChoiceEvents) /\ EventMoves
  <2>1. CASE events' = events
    BY <2>1 DEF ChoiceTypes, EventMoves
  <2>2. CASE events' = Pushed("expired", choicePending) /\ IsChoice
    <3>1. "expired" \in ChoiceEventTypes /\ choicePending \in Nat /\ NeverAnswered'
      BY <1>9 DEF AnswerTooLate, Expired, ChoiceEventTypes, ChoiceTypes, NeverAnswered
    <3> QED
      BY <2>2, <3>1, PushMoves
  <2> QED
    BY <1>9, <2>1, <2>2, Zenon DEF AnswerTooLate, Expired
<1>10. ASSUME NEW h \in Handlers, AnswerDrained(h) PROVE events' \in Seq(ChoiceEvents) /\ EventMoves
  <2>1. CASE events' = events
    BY <2>1 DEF ChoiceTypes, EventMoves
  <2>2. CASE events' = Pushed("dispatched", 1)
    BY <2>2, PushMoves DEF ChoiceEventTypes
  <2> QED
    BY <1>10, <2>1, <2>2, Zenon DEF AnswerDrained
<1>11. ASSUME NEW h \in Handlers, DrainFails(h) PROVE events' \in Seq(ChoiceEvents) /\ EventMoves
  <2>1. CASE events' = Pushed("deliveryFailed", 1)
    <3>1. "deliveryFailed" \in ChoiceEventTypes /\ 1 \in Nat
      BY <1>11, <2>1 DEF DrainFails, ChoiceEventTypes, ChoiceTypes, EndsAreTrue, NeverAnswered, Nobody
    <3> QED
      BY <2>1, <3>1, PushMoves
  <2> QED
    BY <1>11, <2>1 DEF DrainFails
<1>12. ASSUME
             \/ UNCHANGED choiceVars
             \/ RefuseChoiceRequest
             \/ DeadlinePasses
             \/ TurnCompletes
             \/ PostChoice
             \/ AttachControls
             \/ RememberDisplayed
             \/ RememberApproval
             \/ CardUpdated
             \/ CompleteProjection
             \/ PruneExpired
             \/ \E h \in Handlers : TextReply(h)
             \/ \E h \in Handlers : HandleOriginalClick(h)
             \/ \E h \in Handlers : BeginContinuation(h)
             \/ \E h \in Handlers : ContinuationGone(h)
             \/ \E h \in Handlers : ContinueChoice(h)
             \/ \E h \in Handlers : ContinuationAdmitted(h)
             \/ \E h \in Handlers : ConsumeContinuation(h)
             \/ \E h \in Handlers : ApproveNative(h)
             \/ \E h \in Handlers : UnknownRequest(h)
             \/ \E h \in Handlers : RecordDecision(h)
             \/ \E h \in Handlers : RecordReceipt(h)
             \/ \E h \in Handlers : ShowReceipt(h)
             \/ \E h \in Handlers : ShowFailure(h)
             \/ \E h \in Handlers, q \in Questions : ClickContinuation(h, q)
             \/ \E h \in Handlers, q \in Questions, via \in Vias : Click(h, q, via)
      PROVE  UNCHANGED events
  BY <1>12 DEF choiceVars, adapterSide, slackSide, Goes, RefuseChoiceRequest, DeadlinePasses,
     TurnCompletes, PostChoice, AttachControls, RememberDisplayed, RememberApprovalText,
     RememberApproval, RememberApprovalText, CardUpdated, CompleteProjection, ForgetApprovalText,
     PruneExpired, TextReply, HandleOriginalClick, BeginContinuation, AdmitOne, ContinuationGone,
     ContinueChoice, Consumed, ContinuationAdmitted, ConsumeContinuation, Consumed, ApproveNative,
     UnknownRequest, RecordDecision, ForgetApprovalText, RecordReceipt, ShowReceipt, ShowFailure,
     ClickContinuation, Click
<1> QED
  BY <1>1, <1>2, <1>3, <1>4, <1>5, <1>6, <1>7, <1>8, <1>9, <1>10, <1>11, <1>12 DEF ChoiceNext

LEMMA AnswerStaysGiven ==
    ASSUME ChoiceIInv, [ChoiceNext]_choiceVars
      PROVE  choicePending' \in Nat /\ (choicePending' # Nobody => appServer' = "waiting") /\ (NeverAnswered => NeverAnswered')
<1> USE DEF ChoiceIInv
<1>1. CASE UNCHANGED <<choicePending, appServer>>
  BY <1>1 DEF ChoiceTypes, EndsAreTrue, NeverAnswered
<1>2. ASSUME HandleChoiceRequest
      PROVE  choicePending' \in Nat /\ (choicePending' # Nobody => appServer' = "waiting") /\ (NeverAnswered => NeverAnswered')
  BY <1>2 DEF HandleChoiceRequest, ChoiceTypes, EndsAreTrue, NeverAnswered, Nobody
<1>3. ASSUME RefuseChoiceRequest
      PROVE  choicePending' \in Nat /\ (choicePending' # Nobody => appServer' = "waiting") /\ (NeverAnswered => NeverAnswered')
  BY <1>3 DEF RefuseChoiceRequest, ChoiceTypes, EndsAreTrue, NeverAnswered, Nobody
<1>4. ASSUME ExpireRequest
      PROVE  choicePending' \in Nat /\ (choicePending' # Nobody => appServer' = "waiting") /\ (NeverAnswered => NeverAnswered')
  BY <1>4 DEF ExpireRequest, Expired, ChoiceTypes, EndsAreTrue, NeverAnswered, Nobody
<1>5. ASSUME ServerRequestResolved
      PROVE  choicePending' \in Nat /\ (choicePending' # Nobody => appServer' = "waiting") /\ (NeverAnswered => NeverAnswered')
  BY <1>5 DEF ServerRequestResolved, ChoiceTypes, EndsAreTrue, NeverAnswered, Nobody
<1>6. ASSUME ObserveDeliveryStderr
      PROVE  choicePending' \in Nat /\ (choicePending' # Nobody => appServer' = "waiting") /\ (NeverAnswered => NeverAnswered')
  BY <1>6 DEF ObserveDeliveryStderr, ChoiceTypes, EndsAreTrue, NeverAnswered, Nobody
<1>7. ASSUME TurnCompletes
      PROVE  choicePending' \in Nat /\ (choicePending' # Nobody => appServer' = "waiting") /\ (NeverAnswered => NeverAnswered')
  BY <1>7 DEF TurnCompletes, ChoiceTypes, EndsAreTrue, NeverAnswered, Nobody
<1>8. ASSUME CancelUnprojected
      PROVE  choicePending' \in Nat /\ (choicePending' # Nobody => appServer' = "waiting") /\ (NeverAnswered => NeverAnswered')
  BY <1>8 DEF CancelUnprojected, Cancelled, ChoiceTypes, EndsAreTrue, NeverAnswered, Nobody
<1>9. ASSUME NEW h \in Handlers, AcceptAnswer(h)
      PROVE  choicePending' \in Nat /\ (choicePending' # Nobody => appServer' = "waiting") /\ (NeverAnswered => NeverAnswered')
  BY <1>9 DEF AcceptAnswer, ChoiceTypes, EndsAreTrue, NeverAnswered, Nobody
<1>10. ASSUME NEW h \in Handlers, ApproveNative(h)
      PROVE  choicePending' \in Nat /\ (choicePending' # Nobody => appServer' = "waiting") /\ (NeverAnswered => NeverAnswered')
  BY <1>10 DEF ApproveNative, ChoiceTypes, EndsAreTrue, NeverAnswered, Nobody
<1>11. ASSUME NEW h \in Handlers, AnswerTooLate(h)
      PROVE  choicePending' \in Nat /\ (choicePending' # Nobody => appServer' = "waiting") /\ (NeverAnswered => NeverAnswered')
  BY <1>11 DEF AnswerTooLate, Expired, ChoiceTypes, EndsAreTrue, NeverAnswered, Nobody
<1>12. ASSUME NEW h \in Handlers, DrainFails(h)
      PROVE  choicePending' \in Nat /\ (choicePending' # Nobody => appServer' = "waiting") /\ (NeverAnswered => NeverAnswered')
  <2>1. choicePending = Nobody /\ appServer # "idle"
    BY <1>12 DEF DrainFails, HandlerAt, EndsAreTrue
  <2> QED
    BY <1>12, <2>1 DEF DrainFails, ChoiceTypes, EndsAreTrue, NeverAnswered
<1>13. ASSUME
             \/ UNCHANGED choiceVars
             \/ DeadlinePasses
             \/ ProjectEvent
             \/ PostChoice
             \/ AttachControls
             \/ RememberDisplayed
             \/ RememberApproval
             \/ CardUpdated
             \/ CompleteProjection
             \/ PruneExpired
             \/ \E h \in Handlers : TextReply(h)
             \/ \E h \in Handlers : HandleOriginalClick(h)
             \/ \E h \in Handlers : BeginContinuation(h)
             \/ \E h \in Handlers : ContinuationGone(h)
             \/ \E h \in Handlers : ContinueChoice(h)
             \/ \E h \in Handlers : ContinuationAdmitted(h)
             \/ \E h \in Handlers : ConsumeContinuation(h)
             \/ \E h \in Handlers : UnknownRequest(h)
             \/ \E h \in Handlers : AnswerDrained(h)
             \/ \E h \in Handlers : RecordDecision(h)
             \/ \E h \in Handlers : RecordReceipt(h)
             \/ \E h \in Handlers : ShowReceipt(h)
             \/ \E h \in Handlers : ShowFailure(h)
             \/ \E h \in Handlers, q \in Questions : ClickContinuation(h, q)
             \/ \E h \in Handlers, q \in Questions, via \in Vias : Click(h, q, via)
      PROVE  UNCHANGED <<choicePending, appServer>>
  BY <1>13 DEF choiceVars, adapterSide, slackSide, Goes, DeadlinePasses, ProjectEvent, ProjectRequested,
     ExpireChoice, ResolveChoiceExternally, MarkChoiceAnswerDispatched, MarkDispatched,
     FailChoiceDelivery, AuditServerRequestResolved, ForgetApprovalText, OfferContinuation, Showing,
     PostChoice, AttachControls, RememberDisplayed, RememberApprovalText, RememberApproval,
     RememberApprovalText, CardUpdated, CompleteProjection, ForgetApprovalText, PruneExpired, TextReply,
     HandleOriginalClick, BeginContinuation, AdmitOne, ContinuationGone, ContinueChoice, Consumed,
     ContinuationAdmitted, ConsumeContinuation, Consumed, UnknownRequest, AnswerDrained, RecordDecision,
     ForgetApprovalText, RecordReceipt, ShowReceipt, ShowFailure, ClickContinuation, Click
<1> QED
  BY <1>1, <1>2, <1>3, <1>4, <1>5, <1>6, <1>7, <1>8, <1>9, <1>10, <1>11, <1>12, <1>13 DEF ChoiceNext

LEMMA HandlersAreTyped ==
    ASSUME ChoiceIInv, [ChoiceNext]_choiceVars PROVE handler' \in [Handlers -> ChoiceHandlers]
<1> USE DEF ChoiceIInv
<1>1. CASE UNCHANGED handler
  BY <1>1 DEF ChoiceTypes
<1>2. ASSUME NEW h \in Handlers, TextReply(h) PROVE handler' \in [Handlers -> ChoiceHandlers]
  BY <1>2, HandlerArrives DEF TextReply, Vias
<1>3. ASSUME NEW h \in Handlers, HandleOriginalClick(h) PROVE handler' \in [Handlers -> ChoiceHandlers]
  BY <1>3, HandlerGoes DEF HandleOriginalClick
<1>4. ASSUME NEW h \in Handlers, BeginContinuation(h) PROVE handler' \in [Handlers -> ChoiceHandlers]
  BY <1>4, HandlerGoes DEF BeginContinuation, AdmitOne
<1>5. ASSUME NEW h \in Handlers, ContinuationGone(h) PROVE handler' \in [Handlers -> ChoiceHandlers]
  BY <1>5, HandlerGoes DEF ContinuationGone
<1>6. ASSUME NEW h \in Handlers, ContinueChoice(h) PROVE handler' \in [Handlers -> ChoiceHandlers]
  BY <1>6, HandlerGoes DEF ContinueChoice, Consumed
<1>7. ASSUME NEW h \in Handlers, ContinuationAdmitted(h) PROVE handler' \in [Handlers -> ChoiceHandlers]
  BY <1>7, HandlerGoes DEF ContinuationAdmitted
<1>8. ASSUME NEW h \in Handlers, ConsumeContinuation(h) PROVE handler' \in [Handlers -> ChoiceHandlers]
  BY <1>8, HandlerGoes DEF ConsumeContinuation, Consumed
<1>9. ASSUME NEW h \in Handlers, AcceptAnswer(h) PROVE handler' \in [Handlers -> ChoiceHandlers]
  BY <1>9, HandlerGoes DEF AcceptAnswer
<1>10. ASSUME NEW h \in Handlers, ApproveNative(h) PROVE handler' \in [Handlers -> ChoiceHandlers]
  BY <1>10, HandlerGoes DEF ApproveNative
<1>11. ASSUME NEW h \in Handlers, UnknownRequest(h) PROVE handler' \in [Handlers -> ChoiceHandlers]
  BY <1>11, HandlerGoes DEF UnknownRequest
<1>12. ASSUME NEW h \in Handlers, AnswerTooLate(h) PROVE handler' \in [Handlers -> ChoiceHandlers]
  BY <1>12, HandlerGoes DEF AnswerTooLate, Expired
<1>13. ASSUME NEW h \in Handlers, AnswerDrained(h) PROVE handler' \in [Handlers -> ChoiceHandlers]
  BY <1>13, HandlerGoes DEF AnswerDrained
<1>14. ASSUME NEW h \in Handlers, DrainFails(h) PROVE handler' \in [Handlers -> ChoiceHandlers]
  BY <1>14, HandlerGoes DEF DrainFails
<1>15. ASSUME NEW h \in Handlers, RecordDecision(h) PROVE handler' \in [Handlers -> ChoiceHandlers]
  BY <1>15, HandlerGoes DEF RecordDecision, ForgetApprovalText
<1>16. ASSUME NEW h \in Handlers, RecordReceipt(h) PROVE handler' \in [Handlers -> ChoiceHandlers]
  BY <1>16, HandlerGoes DEF RecordReceipt
<1>17. ASSUME NEW h \in Handlers, ShowReceipt(h) PROVE handler' \in [Handlers -> ChoiceHandlers]
  BY <1>17, HandlerGoes DEF ShowReceipt
<1>18. ASSUME NEW h \in Handlers, ShowFailure(h) PROVE handler' \in [Handlers -> ChoiceHandlers]
  BY <1>18, HandlerGoes DEF ShowFailure
<1>19. ASSUME NEW h \in Handlers, NEW q \in Questions, ClickContinuation(h, q)
      PROVE  handler' \in [Handlers -> ChoiceHandlers]
  <2>1. q \in Nat /\ "continuation" \in Vias
    BY DEF Questions, Vias
  <2> QED
    BY <1>19, <2>1, HandlerArrives DEF ClickContinuation
<1>20. ASSUME NEW h \in Handlers, NEW q \in Questions, NEW via \in Vias, Click(h, q, via)
      PROVE  handler' \in [Handlers -> ChoiceHandlers]
  <2>1. q \in Nat
    BY DEF Questions
  <2> QED
    BY <1>20, <2>1, HandlerArrives DEF Click
<1>21. ASSUME
             \/ UNCHANGED choiceVars
             \/ HandleChoiceRequest
             \/ RefuseChoiceRequest
             \/ DeadlinePasses
             \/ ExpireRequest
             \/ ServerRequestResolved
             \/ ObserveDeliveryStderr
             \/ TurnCompletes
             \/ ProjectEvent
             \/ PostChoice
             \/ AttachControls
             \/ RememberDisplayed
             \/ RememberApproval
             \/ CancelUnprojected
             \/ CardUpdated
             \/ CompleteProjection
             \/ PruneExpired
      PROVE  UNCHANGED handler
  BY <1>21 DEF choiceVars, adapterSide, slackSide, Goes, HandleChoiceRequest, RefuseChoiceRequest,
     DeadlinePasses, ExpireRequest, Expired, ServerRequestResolved, ObserveDeliveryStderr,
     TurnCompletes, ProjectEvent, ProjectRequested, ExpireChoice, ResolveChoiceExternally,
     MarkChoiceAnswerDispatched, MarkDispatched, FailChoiceDelivery, AuditServerRequestResolved,
     ForgetApprovalText, OfferContinuation, Showing, PostChoice, AttachControls, RememberDisplayed,
     RememberApprovalText, RememberApproval, RememberApprovalText, CancelUnprojected, Cancelled,
     CardUpdated, CompleteProjection, ForgetApprovalText, PruneExpired
<1> QED
  BY <1>1, <1>2, <1>3, <1>4, <1>5, <1>6, <1>7, <1>8, <1>9, <1>10, <1>11, <1>12, <1>13, <1>14, <1>15,
     <1>16, <1>17, <1>18, <1>19, <1>20, <1>21 DEF ChoiceNext

LEMMA TurnsAreTyped ==
    ASSUME ChoiceIInv, [ChoiceNext]_choiceVars
      PROVE  newTurns' \in Nat /\ kind' = kind /\ (ended => ended')
<1> USE DEF ChoiceIInv
<1>1. CASE UNCHANGED <<newTurns, kind, ended>>
  BY <1>1 DEF ChoiceTypes
<1>2. ASSUME ServerRequestResolved PROVE newTurns' \in Nat /\ kind' = kind /\ (ended => ended')
  BY <1>2 DEF ServerRequestResolved, ChoiceTypes
<1>3. ASSUME NEW h \in Handlers, ContinueChoice(h)
      PROVE  newTurns' \in Nat /\ kind' = kind /\ (ended => ended')
  BY <1>3 DEF ContinueChoice, ChoiceTypes, adapterSide
<1>4. ASSUME
             \/ UNCHANGED choiceVars
             \/ HandleChoiceRequest
             \/ RefuseChoiceRequest
             \/ DeadlinePasses
             \/ ExpireRequest
             \/ ObserveDeliveryStderr
             \/ TurnCompletes
             \/ ProjectEvent
             \/ PostChoice
             \/ AttachControls
             \/ RememberDisplayed
             \/ RememberApproval
             \/ CancelUnprojected
             \/ CardUpdated
             \/ CompleteProjection
             \/ PruneExpired
             \/ \E h \in Handlers : TextReply(h)
             \/ \E h \in Handlers : HandleOriginalClick(h)
             \/ \E h \in Handlers : BeginContinuation(h)
             \/ \E h \in Handlers : ContinuationGone(h)
             \/ \E h \in Handlers : ContinuationAdmitted(h)
             \/ \E h \in Handlers : ConsumeContinuation(h)
             \/ \E h \in Handlers : AcceptAnswer(h)
             \/ \E h \in Handlers : ApproveNative(h)
             \/ \E h \in Handlers : UnknownRequest(h)
             \/ \E h \in Handlers : AnswerTooLate(h)
             \/ \E h \in Handlers : AnswerDrained(h)
             \/ \E h \in Handlers : DrainFails(h)
             \/ \E h \in Handlers : RecordDecision(h)
             \/ \E h \in Handlers : RecordReceipt(h)
             \/ \E h \in Handlers : ShowReceipt(h)
             \/ \E h \in Handlers : ShowFailure(h)
             \/ \E h \in Handlers, q \in Questions : ClickContinuation(h, q)
             \/ \E h \in Handlers, q \in Questions, via \in Vias : Click(h, q, via)
      PROVE  UNCHANGED <<newTurns, kind, ended>>
  BY <1>4 DEF choiceVars, adapterSide, slackSide, Goes, HandleChoiceRequest, RefuseChoiceRequest,
     DeadlinePasses, ExpireRequest, Expired, ObserveDeliveryStderr, TurnCompletes, ProjectEvent,
     ProjectRequested, ExpireChoice, ResolveChoiceExternally, MarkChoiceAnswerDispatched,
     MarkDispatched, FailChoiceDelivery, AuditServerRequestResolved, ForgetApprovalText,
     OfferContinuation, Showing, PostChoice, AttachControls, RememberDisplayed, RememberApprovalText,
     RememberApproval, RememberApprovalText, CancelUnprojected, Cancelled, CardUpdated,
     CompleteProjection, ForgetApprovalText, PruneExpired, TextReply, HandleOriginalClick,
     BeginContinuation, AdmitOne, ContinuationGone, ContinuationAdmitted, ConsumeContinuation, Consumed,
     AcceptAnswer, ApproveNative, UnknownRequest, AnswerTooLate, Expired, AnswerDrained, DrainFails,
     RecordDecision, ForgetApprovalText, RecordReceipt, ShowReceipt, ShowFailure, ClickContinuation,
     Click
<1> QED
  BY <1>1, <1>2, <1>3, <1>4 DEF ChoiceNext

LEMMA CardsAreTyped ==
    ASSUME ChoiceIInv, [ChoiceNext]_choiceVars PROVE CardTypes'
<1> USE DEF ChoiceIInv
<1>1. CASE UNCHANGED slackSide
  BY <1>1 DEF slackSide, CardTypes
<1>2. ASSUME ProjectEvent PROVE CardTypes'
  <2>1. ASSUME NEW e, ProjectRequested(e), e.question \in Nat, UNCHANGED choiceCard PROVE CardTypes'
    BY <2>1 DEF ProjectRequested, CardTypes, ChoiceProjections, CardStates, Resting, Continuations
  <2>2. ASSUME ExpireChoice, UNCHANGED choiceCard PROVE CardTypes'
    BY <2>2 DEF ExpireChoice, Showing, CardTypes, ChoiceProjections, CardStates, Resting, Continuations,
       Nobody
  <2>3. ASSUME ResolveChoiceExternally, UNCHANGED choiceCard PROVE CardTypes'
    <3>1. displayed' \in Nat /\ dispatched' \in Nat
      BY <2>3 DEF ResolveChoiceExternally, CardTypes, Nobody
    <3>2. projecting' \in ChoiceProjections
      BY <2>3 DEF ResolveChoiceExternally, Showing, CardTypes, ChoiceProjections, CardStates, Resting,
         Nobody
    <3>3. continuation' \in Continuations
      BY <2>3 DEF ResolveChoiceExternally, OfferContinuation, CardTypes, Continuations
    <3> QED
      BY <2>3, <3>1, <3>2, <3>3 DEF CardTypes
  <2>4. ASSUME MarkDispatched, UNCHANGED <<choiceCard, continuation>> PROVE CardTypes'
    BY <2>4 DEF MarkDispatched, Live, Showing, CardTypes, ChoiceProjections, CardStates, Resting, Nobody
  <2>5. ASSUME FailChoiceDelivery, UNCHANGED choiceCard PROVE CardTypes'
    BY <2>5 DEF FailChoiceDelivery, Live, Showing, CardTypes, ChoiceProjections, CardStates, Resting,
       Nobody
  <2>6. ASSUME AuditServerRequestResolved, UNCHANGED choiceCard PROVE CardTypes'
    BY <2>6 DEF AuditServerRequestResolved, CardTypes, ChoiceProjections, CardStates, Resting, Nobody
  <2>7. events # <<>> => Head(events).question \in Nat
    <3>1. events # <<>> => Head(events) \in ChoiceEvents
      BY DEF ChoiceTypes
    <3> QED
      BY <3>1 DEF ChoiceEvents
  <2> QED
    BY <1>2, <2>1, <2>2, <2>3, <2>4, <2>5, <2>6, <2>7 DEF ProjectEvent, MarkChoiceAnswerDispatched
<1>3. ASSUME PostChoice PROVE CardTypes'
  BY <1>3 DEF PostChoice, CardTypes, ChoiceProjections, CardStates, Resting, Nobody, Live, ChoiceTypes,
     ChoiceEvents, Continuations, Questions
<1>4. ASSUME AttachControls PROVE CardTypes'
  <2>1. \E at \in {"remember", "cancel"} : projecting' = [projecting EXCEPT !.at = at]
    BY <1>4 DEF AttachControls
  <2>2. projecting' \in ChoiceProjections
    BY <2>1 DEF CardTypes, ChoiceProjections
  <2>3. choiceCard' \in [Questions -> CardStates]
    BY <1>4 DEF AttachControls, CardTypes, CardStates
  <2> QED
    BY <1>4, <2>2, <2>3 DEF AttachControls, CardTypes
<1>5. ASSUME RememberDisplayed PROVE CardTypes'
  BY <1>5 DEF RememberDisplayed, RememberApprovalText, CardTypes, ChoiceProjections, CardStates,
     Resting, Nobody, Live, ChoiceTypes, ChoiceEvents, Continuations, Questions
<1>6. ASSUME RememberApproval PROVE CardTypes'
  BY <1>6 DEF RememberApproval, RememberApprovalText, CardTypes, ChoiceProjections, CardStates, Resting,
     Nobody, Live, ChoiceTypes, ChoiceEvents, Continuations, Questions
<1>7. ASSUME CancelUnprojected PROVE CardTypes'
  BY <1>7 DEF CancelUnprojected, Cancelled, CardTypes, ChoiceProjections, CardStates, Resting, Nobody,
     Live, ChoiceTypes, ChoiceEvents, Continuations, Questions
<1>8. ASSUME CardUpdated PROVE CardTypes'
  BY <1>8 DEF CardUpdated, CardTypes, ChoiceProjections, CardStates, Resting, Nobody, Live, ChoiceTypes,
     ChoiceEvents, Continuations, Questions
<1>9. ASSUME CompleteProjection PROVE CardTypes'
  BY <1>9 DEF CompleteProjection, ForgetApprovalText, CardTypes, ChoiceProjections, CardStates, Resting,
     Nobody, Live, ChoiceTypes, ChoiceEvents, Continuations, Questions
<1>10. ASSUME PruneExpired PROVE CardTypes'
  BY <1>10 DEF PruneExpired, CardTypes, ChoiceProjections, CardStates, Resting, Nobody, Live,
     ChoiceTypes, ChoiceEvents, Continuations, Questions
<1>11. ASSUME NEW h \in Handlers, BeginContinuation(h) PROVE CardTypes'
  BY <1>11 DEF BeginContinuation, AdmitOne, CardTypes, ChoiceProjections, CardStates, Resting, Nobody,
     Live, ChoiceTypes, ChoiceEvents, Continuations, Questions
<1>12. ASSUME NEW h \in Handlers, ContinueChoice(h) PROVE CardTypes'
  BY <1>12 DEF ContinueChoice, Consumed, CardTypes, ChoiceProjections, CardStates, Resting, Nobody,
     Live, ChoiceTypes, ChoiceEvents, Continuations, Questions
<1>13. ASSUME NEW h \in Handlers, ContinuationAdmitted(h) PROVE CardTypes'
  BY <1>13 DEF ContinuationAdmitted, CardTypes, ChoiceProjections, CardStates, Resting, Nobody, Live,
     ChoiceTypes, ChoiceEvents, Continuations, Questions
<1>14. ASSUME NEW h \in Handlers, ConsumeContinuation(h) PROVE CardTypes'
  BY <1>14 DEF ConsumeContinuation, Consumed, CardTypes, ChoiceProjections, CardStates, Resting, Nobody,
     Live, ChoiceTypes, ChoiceEvents, Continuations, Questions
<1>15. ASSUME NEW h \in Handlers, RecordDecision(h) PROVE CardTypes'
  BY <1>15 DEF RecordDecision, ForgetApprovalText, CardTypes, ChoiceProjections, CardStates, Resting,
     Nobody, Live, ChoiceTypes, ChoiceEvents, Continuations, Questions
<1>16. ASSUME NEW h \in Handlers, RecordReceipt(h) PROVE CardTypes'
  BY <1>16 DEF RecordReceipt, CardTypes, ChoiceProjections, CardStates, Resting, Nobody, Live,
     ChoiceTypes, ChoiceEvents, Continuations, Questions
<1>17. ASSUME NEW h \in Handlers, ShowReceipt(h) PROVE CardTypes'
  BY <1>17 DEF ShowReceipt, CardTypes, ChoiceProjections, CardStates, Resting, Nobody, Live,
     ChoiceTypes, ChoiceEvents, Continuations, Questions
<1>18. ASSUME NEW h \in Handlers, ShowFailure(h) PROVE CardTypes'
  BY <1>18 DEF ShowFailure, CardTypes, ChoiceProjections, CardStates, Resting, Nobody, Live,
     ChoiceTypes, ChoiceEvents, Continuations, Questions
<1>19. ASSUME
             \/ UNCHANGED choiceVars
             \/ HandleChoiceRequest
             \/ RefuseChoiceRequest
             \/ DeadlinePasses
             \/ ExpireRequest
             \/ ServerRequestResolved
             \/ ObserveDeliveryStderr
             \/ TurnCompletes
             \/ \E h \in Handlers : TextReply(h)
             \/ \E h \in Handlers : HandleOriginalClick(h)
             \/ \E h \in Handlers : ContinuationGone(h)
             \/ \E h \in Handlers : AcceptAnswer(h)
             \/ \E h \in Handlers : ApproveNative(h)
             \/ \E h \in Handlers : UnknownRequest(h)
             \/ \E h \in Handlers : AnswerTooLate(h)
             \/ \E h \in Handlers : AnswerDrained(h)
             \/ \E h \in Handlers : DrainFails(h)
             \/ \E h \in Handlers, q \in Questions : ClickContinuation(h, q)
             \/ \E h \in Handlers, q \in Questions, via \in Vias : Click(h, q, via)
      PROVE  UNCHANGED slackSide
  BY <1>19 DEF choiceVars, adapterSide, slackSide, Goes, HandleChoiceRequest, RefuseChoiceRequest,
     DeadlinePasses, ExpireRequest, Expired, ServerRequestResolved, ObserveDeliveryStderr,
     TurnCompletes, TextReply, HandleOriginalClick, ContinuationGone, AcceptAnswer, ApproveNative,
     UnknownRequest, AnswerTooLate, Expired, AnswerDrained, DrainFails, ClickContinuation, Click
<1> QED
  BY <1>1, <1>2, <1>3, <1>4, <1>5, <1>6, <1>7, <1>8, <1>9, <1>10, <1>11, <1>12, <1>13, <1>14, <1>15,
     <1>16, <1>17, <1>18, <1>19 DEF ChoiceNext

LEMMA WrittenStays ==
    ASSUME ChoiceIInv, [ChoiceNext]_choiceVars
      PROVE  choicePending = Nobody /\ appServer # "idle" => choicePending' = Nobody /\ appServer' # "idle"
<1> USE DEF ChoiceIInv
<1>1. CASE UNCHANGED <<choicePending, appServer>>
  BY <1>1
<1>2. ASSUME HandleChoiceRequest
      PROVE  choicePending = Nobody /\ appServer # "idle" => choicePending' = Nobody /\ appServer' # "idle"
  BY <1>2 DEF HandleChoiceRequest, Nobody
<1>3. ASSUME RefuseChoiceRequest
      PROVE  choicePending = Nobody /\ appServer # "idle" => choicePending' = Nobody /\ appServer' # "idle"
  BY <1>3 DEF RefuseChoiceRequest, Nobody
<1>4. ASSUME ExpireRequest
      PROVE  choicePending = Nobody /\ appServer # "idle" => choicePending' = Nobody /\ appServer' # "idle"
  BY <1>4 DEF ExpireRequest, Expired, Nobody
<1>5. ASSUME ServerRequestResolved
      PROVE  choicePending = Nobody /\ appServer # "idle" => choicePending' = Nobody /\ appServer' # "idle"
  BY <1>5 DEF ServerRequestResolved, Nobody
<1>6. ASSUME ObserveDeliveryStderr
      PROVE  choicePending = Nobody /\ appServer # "idle" => choicePending' = Nobody /\ appServer' # "idle"
  BY <1>6 DEF ObserveDeliveryStderr, Nobody
<1>7. ASSUME TurnCompletes
      PROVE  choicePending = Nobody /\ appServer # "idle" => choicePending' = Nobody /\ appServer' # "idle"
  BY <1>7 DEF TurnCompletes, Nobody
<1>8. ASSUME CancelUnprojected
      PROVE  choicePending = Nobody /\ appServer # "idle" => choicePending' = Nobody /\ appServer' # "idle"
  BY <1>8 DEF CancelUnprojected, Cancelled, Nobody
<1>9. ASSUME NEW h \in Handlers, AcceptAnswer(h)
      PROVE  choicePending = Nobody /\ appServer # "idle" => choicePending' = Nobody /\ appServer' # "idle"
  BY <1>9 DEF AcceptAnswer, Nobody
<1>10. ASSUME NEW h \in Handlers, ApproveNative(h)
      PROVE  choicePending = Nobody /\ appServer # "idle" => choicePending' = Nobody /\ appServer' # "idle"
  BY <1>10 DEF ApproveNative, Nobody
<1>11. ASSUME NEW h \in Handlers, AnswerTooLate(h)
      PROVE  choicePending = Nobody /\ appServer # "idle" => choicePending' = Nobody /\ appServer' # "idle"
  BY <1>11 DEF AnswerTooLate, Expired, Nobody
<1>12. ASSUME NEW h \in Handlers, DrainFails(h)
      PROVE  choicePending = Nobody /\ appServer # "idle" => choicePending' = Nobody /\ appServer' # "idle"
  BY <1>12 DEF DrainFails, Nobody
<1>13. ASSUME
             \/ UNCHANGED choiceVars
             \/ DeadlinePasses
             \/ ProjectEvent
             \/ PostChoice
             \/ AttachControls
             \/ RememberDisplayed
             \/ RememberApproval
             \/ CardUpdated
             \/ CompleteProjection
             \/ PruneExpired
             \/ \E h \in Handlers : TextReply(h)
             \/ \E h \in Handlers : HandleOriginalClick(h)
             \/ \E h \in Handlers : BeginContinuation(h)
             \/ \E h \in Handlers : ContinuationGone(h)
             \/ \E h \in Handlers : ContinueChoice(h)
             \/ \E h \in Handlers : ContinuationAdmitted(h)
             \/ \E h \in Handlers : ConsumeContinuation(h)
             \/ \E h \in Handlers : UnknownRequest(h)
             \/ \E h \in Handlers : AnswerDrained(h)
             \/ \E h \in Handlers : RecordDecision(h)
             \/ \E h \in Handlers : RecordReceipt(h)
             \/ \E h \in Handlers : ShowReceipt(h)
             \/ \E h \in Handlers : ShowFailure(h)
             \/ \E h \in Handlers, q \in Questions : ClickContinuation(h, q)
             \/ \E h \in Handlers, q \in Questions, via \in Vias : Click(h, q, via)
      PROVE  UNCHANGED <<choicePending, appServer>>
  BY <1>13 DEF choiceVars, adapterSide, slackSide, Goes, DeadlinePasses, ProjectEvent, ProjectRequested,
     ExpireChoice, ResolveChoiceExternally, MarkChoiceAnswerDispatched, MarkDispatched,
     FailChoiceDelivery, AuditServerRequestResolved, ForgetApprovalText, OfferContinuation, Showing,
     PostChoice, AttachControls, RememberDisplayed, RememberApprovalText, RememberApproval,
     RememberApprovalText, CardUpdated, CompleteProjection, ForgetApprovalText, PruneExpired, TextReply,
     HandleOriginalClick, BeginContinuation, AdmitOne, ContinuationGone, ContinueChoice, Consumed,
     ContinuationAdmitted, ConsumeContinuation, Consumed, UnknownRequest, AnswerDrained, RecordDecision,
     ForgetApprovalText, RecordReceipt, ShowReceipt, ShowFailure, ClickContinuation, Click
<1> QED
  BY <1>1, <1>2, <1>3, <1>4, <1>5, <1>6, <1>7, <1>8, <1>9, <1>10, <1>11, <1>12, <1>13 DEF ChoiceNext

(* What is written stays written, or its writing begins here.              *)
WritingIsOld ==
    \/ ~receipt' /\ \A g \in Handlers : handler'[g].at # "draining"
    \/ receipt \/ \E g \in Handlers : handler[g].at = "draining"
    \/ choicePending' = Nobody /\ appServer' = "answered"

LEMMA WritingBegins ==
    ASSUME ChoiceIInv, [ChoiceNext]_choiceVars PROVE WritingIsOld
<1> USE DEF ChoiceIInv
<1>1. CASE UNCHANGED <<receipt, handler>>
  BY <1>1 DEF WritingIsOld
<1>2. ASSUME ObserveDeliveryStderr PROVE WritingIsOld
  BY <1>2, HandlerGoes DEF ObserveDeliveryStderr, adapterSide, Expired, WritingIsOld
<1>3. ASSUME TurnCompletes PROVE WritingIsOld
  BY <1>3, HandlerGoes DEF TurnCompletes, adapterSide, Expired, WritingIsOld
<1>4. ASSUME CancelUnprojected PROVE WritingIsOld
  BY <1>4, HandlerGoes DEF CancelUnprojected, Cancelled, adapterSide, Expired, WritingIsOld
<1>5. ASSUME NEW h \in Handlers, TextReply(h) PROVE WritingIsOld
  BY <1>5, HandlerArrives DEF TextReply, adapterSide, Vias, WritingIsOld
<1>6. ASSUME NEW h \in Handlers, HandleOriginalClick(h) PROVE WritingIsOld
  BY <1>6, HandlerGoes DEF HandleOriginalClick, adapterSide, Expired, WritingIsOld
<1>7. ASSUME NEW h \in Handlers, BeginContinuation(h) PROVE WritingIsOld
  BY <1>7, HandlerGoes DEF BeginContinuation, AdmitOne, adapterSide, Expired, WritingIsOld
<1>8. ASSUME NEW h \in Handlers, ContinuationGone(h) PROVE WritingIsOld
  BY <1>8, HandlerGoes DEF ContinuationGone, adapterSide, Expired, WritingIsOld
<1>9. ASSUME NEW h \in Handlers, ContinueChoice(h) PROVE WritingIsOld
  BY <1>9, HandlerGoes DEF ContinueChoice, Consumed, adapterSide, Expired, WritingIsOld
<1>10. ASSUME NEW h \in Handlers, ContinuationAdmitted(h) PROVE WritingIsOld
  BY <1>10, HandlerGoes DEF ContinuationAdmitted, adapterSide, Expired, WritingIsOld
<1>11. ASSUME NEW h \in Handlers, ConsumeContinuation(h) PROVE WritingIsOld
  BY <1>11, HandlerGoes DEF ConsumeContinuation, Consumed, adapterSide, Expired, WritingIsOld
<1>12. ASSUME NEW h \in Handlers, AcceptAnswer(h) PROVE WritingIsOld
  <2>1. CASE choicePending' = Nobody /\ appServer' = "answered"
    BY <2>1 DEF WritingIsOld
  <2>2. CASE Goes(h, "answered") /\ UNCHANGED receipt
    BY <2>2, HandlerGoes DEF WritingIsOld
  <2> QED
    BY <1>12, <2>1, <2>2 DEF AcceptAnswer
<1>13. ASSUME NEW h \in Handlers, ApproveNative(h) PROVE WritingIsOld
  BY <1>13, HandlerGoes DEF ApproveNative, adapterSide, Expired, WritingIsOld
<1>14. ASSUME NEW h \in Handlers, UnknownRequest(h) PROVE WritingIsOld
  BY <1>14, HandlerGoes DEF UnknownRequest, adapterSide, Expired, WritingIsOld
<1>15. ASSUME NEW h \in Handlers, AnswerTooLate(h) PROVE WritingIsOld
  BY <1>15, HandlerGoes DEF AnswerTooLate, Expired, adapterSide, Expired, WritingIsOld
<1>16. ASSUME NEW h \in Handlers, AnswerDrained(h) PROVE WritingIsOld
  BY <1>16, HandlerGoes DEF AnswerDrained, adapterSide, Expired, WritingIsOld
<1>17. ASSUME NEW h \in Handlers, DrainFails(h) PROVE WritingIsOld
  BY <1>17, HandlerGoes DEF DrainFails, adapterSide, Expired, WritingIsOld
<1>18. ASSUME NEW h \in Handlers, RecordDecision(h) PROVE WritingIsOld
  BY <1>18, HandlerGoes DEF RecordDecision, ForgetApprovalText, adapterSide, Expired, WritingIsOld
<1>19. ASSUME NEW h \in Handlers, RecordReceipt(h) PROVE WritingIsOld
  BY <1>19, HandlerGoes DEF RecordReceipt, adapterSide, Expired, WritingIsOld
<1>20. ASSUME NEW h \in Handlers, ShowReceipt(h) PROVE WritingIsOld
  BY <1>20, HandlerGoes DEF ShowReceipt, adapterSide, Expired, WritingIsOld
<1>21. ASSUME NEW h \in Handlers, ShowFailure(h) PROVE WritingIsOld
  BY <1>21, HandlerGoes DEF ShowFailure, adapterSide, Expired, WritingIsOld
<1>22. ASSUME NEW h \in Handlers, NEW q \in Questions, ClickContinuation(h, q) PROVE WritingIsOld
  <2>1. q \in Nat /\ "continuation" \in Vias
    BY DEF Questions, Vias
  <2> QED
    BY <1>22, <2>1, HandlerArrives DEF ClickContinuation, adapterSide, WritingIsOld
<1>23. ASSUME NEW h \in Handlers, NEW q \in Questions, NEW via \in Vias, Click(h, q, via)
      PROVE  WritingIsOld
  <2>1. q \in Nat
    BY DEF Questions
  <2> QED
    BY <1>23, <2>1, HandlerArrives DEF Click, adapterSide, WritingIsOld
<1>24. ASSUME
             \/ UNCHANGED choiceVars
             \/ HandleChoiceRequest
             \/ RefuseChoiceRequest
             \/ DeadlinePasses
             \/ ExpireRequest
             \/ ServerRequestResolved
             \/ ProjectEvent
             \/ PostChoice
             \/ AttachControls
             \/ RememberDisplayed
             \/ RememberApproval
             \/ CardUpdated
             \/ CompleteProjection
             \/ PruneExpired
      PROVE  UNCHANGED <<receipt, handler>>
  BY <1>24 DEF choiceVars, adapterSide, slackSide, Goes, HandleChoiceRequest, RefuseChoiceRequest,
     DeadlinePasses, ExpireRequest, Expired, ServerRequestResolved, ProjectEvent, ProjectRequested,
     ExpireChoice, ResolveChoiceExternally, MarkChoiceAnswerDispatched, MarkDispatched,
     FailChoiceDelivery, AuditServerRequestResolved, ForgetApprovalText, OfferContinuation, Showing,
     PostChoice, AttachControls, RememberDisplayed, RememberApprovalText, RememberApproval,
     RememberApprovalText, CardUpdated, CompleteProjection, ForgetApprovalText, PruneExpired
<1> QED
  BY <1>1, <1>2, <1>3, <1>4, <1>5, <1>6, <1>7, <1>8, <1>9, <1>10, <1>11, <1>12, <1>13, <1>14, <1>15,
     <1>16, <1>17, <1>18, <1>19, <1>20, <1>21, <1>22, <1>23, <1>24 DEF ChoiceNext

LEMMA NewTurnsBegin ==
    ASSUME ChoiceIInv, [ChoiceNext]_choiceVars PROVE \A g \in Handlers : handler'[g].at \in InNewTurn =>
              handler[g].at \in InNewTurn \/ continuation.state = "pending"
<1> USE DEF ChoiceIInv
<1>1. CASE UNCHANGED handler
  BY <1>1
<1>2. ASSUME NEW h \in Handlers, TextReply(h) PROVE \A g \in Handlers : handler'[g].at \in InNewTurn =>
              handler[g].at \in InNewTurn \/ continuation.state = "pending"
  BY <1>2, HandlerArrives DEF TextReply, Vias, InNewTurn
<1>3. ASSUME NEW h \in Handlers, HandleOriginalClick(h)
      PROVE  \A g \in Handlers : handler'[g].at \in InNewTurn =>
              handler[g].at \in InNewTurn \/ continuation.state = "pending"
  BY <1>3, HandlerGoes DEF HandleOriginalClick, InNewTurn, HandlerAt
<1>4. ASSUME NEW h \in Handlers, BeginContinuation(h)
      PROVE  \A g \in Handlers : handler'[g].at \in InNewTurn =>
              handler[g].at \in InNewTurn \/ continuation.state = "pending"
  BY <1>4, HandlerGoes DEF BeginContinuation, AdmitOne, InNewTurn, HandlerAt
<1>5. ASSUME NEW h \in Handlers, ContinuationGone(h)
      PROVE  \A g \in Handlers : handler'[g].at \in InNewTurn =>
              handler[g].at \in InNewTurn \/ continuation.state = "pending"
  BY <1>5, HandlerGoes DEF ContinuationGone, InNewTurn, HandlerAt
<1>6. ASSUME NEW h \in Handlers, ContinueChoice(h)
      PROVE  \A g \in Handlers : handler'[g].at \in InNewTurn =>
              handler[g].at \in InNewTurn \/ continuation.state = "pending"
  BY <1>6, HandlerGoes DEF ContinueChoice, Consumed, InNewTurn, HandlerAt
<1>7. ASSUME NEW h \in Handlers, ContinuationAdmitted(h)
      PROVE  \A g \in Handlers : handler'[g].at \in InNewTurn =>
              handler[g].at \in InNewTurn \/ continuation.state = "pending"
  BY <1>7, HandlerGoes DEF ContinuationAdmitted, InNewTurn, HandlerAt
<1>8. ASSUME NEW h \in Handlers, ConsumeContinuation(h)
      PROVE  \A g \in Handlers : handler'[g].at \in InNewTurn =>
              handler[g].at \in InNewTurn \/ continuation.state = "pending"
  BY <1>8, HandlerGoes DEF ConsumeContinuation, Consumed, InNewTurn, HandlerAt
<1>9. ASSUME NEW h \in Handlers, AcceptAnswer(h)
      PROVE  \A g \in Handlers : handler'[g].at \in InNewTurn =>
              handler[g].at \in InNewTurn \/ continuation.state = "pending"
  BY <1>9, HandlerGoes DEF AcceptAnswer, InNewTurn, HandlerAt
<1>10. ASSUME NEW h \in Handlers, ApproveNative(h)
      PROVE  \A g \in Handlers : handler'[g].at \in InNewTurn =>
              handler[g].at \in InNewTurn \/ continuation.state = "pending"
  BY <1>10, HandlerGoes DEF ApproveNative, InNewTurn, HandlerAt
<1>11. ASSUME NEW h \in Handlers, UnknownRequest(h)
      PROVE  \A g \in Handlers : handler'[g].at \in InNewTurn =>
              handler[g].at \in InNewTurn \/ continuation.state = "pending"
  BY <1>11, HandlerGoes DEF UnknownRequest, InNewTurn, HandlerAt
<1>12. ASSUME NEW h \in Handlers, AnswerTooLate(h)
      PROVE  \A g \in Handlers : handler'[g].at \in InNewTurn =>
              handler[g].at \in InNewTurn \/ continuation.state = "pending"
  BY <1>12, HandlerGoes DEF AnswerTooLate, Expired, InNewTurn, HandlerAt
<1>13. ASSUME NEW h \in Handlers, AnswerDrained(h)
      PROVE  \A g \in Handlers : handler'[g].at \in InNewTurn =>
              handler[g].at \in InNewTurn \/ continuation.state = "pending"
  BY <1>13, HandlerGoes DEF AnswerDrained, InNewTurn, HandlerAt
<1>14. ASSUME NEW h \in Handlers, DrainFails(h)
      PROVE  \A g \in Handlers : handler'[g].at \in InNewTurn =>
              handler[g].at \in InNewTurn \/ continuation.state = "pending"
  BY <1>14, HandlerGoes DEF DrainFails, InNewTurn, HandlerAt
<1>15. ASSUME NEW h \in Handlers, RecordDecision(h)
      PROVE  \A g \in Handlers : handler'[g].at \in InNewTurn =>
              handler[g].at \in InNewTurn \/ continuation.state = "pending"
  BY <1>15, HandlerGoes DEF RecordDecision, ForgetApprovalText, InNewTurn, HandlerAt
<1>16. ASSUME NEW h \in Handlers, RecordReceipt(h)
      PROVE  \A g \in Handlers : handler'[g].at \in InNewTurn =>
              handler[g].at \in InNewTurn \/ continuation.state = "pending"
  BY <1>16, HandlerGoes DEF RecordReceipt, InNewTurn, HandlerAt
<1>17. ASSUME NEW h \in Handlers, ShowReceipt(h)
      PROVE  \A g \in Handlers : handler'[g].at \in InNewTurn =>
              handler[g].at \in InNewTurn \/ continuation.state = "pending"
  BY <1>17, HandlerGoes DEF ShowReceipt, InNewTurn, HandlerAt
<1>18. ASSUME NEW h \in Handlers, ShowFailure(h)
      PROVE  \A g \in Handlers : handler'[g].at \in InNewTurn =>
              handler[g].at \in InNewTurn \/ continuation.state = "pending"
  BY <1>18, HandlerGoes DEF ShowFailure, InNewTurn, HandlerAt
<1>19. ASSUME NEW h \in Handlers, NEW q \in Questions, ClickContinuation(h, q)
      PROVE  \A g \in Handlers : handler'[g].at \in InNewTurn =>
              handler[g].at \in InNewTurn \/ continuation.state = "pending"
  <2>1. q \in Nat /\ "continuation" \in Vias
    BY DEF Questions, Vias
  <2> QED
    BY <1>19, <2>1, HandlerArrives DEF ClickContinuation, InNewTurn
<1>20. ASSUME NEW h \in Handlers, NEW q \in Questions, NEW via \in Vias, Click(h, q, via)
      PROVE  \A g \in Handlers : handler'[g].at \in InNewTurn =>
              handler[g].at \in InNewTurn \/ continuation.state = "pending"
  <2>1. q \in Nat
    BY DEF Questions
  <2> QED
    BY <1>20, <2>1, HandlerArrives DEF Click, InNewTurn
<1>21. ASSUME
             \/ UNCHANGED choiceVars
             \/ HandleChoiceRequest
             \/ RefuseChoiceRequest
             \/ DeadlinePasses
             \/ ExpireRequest
             \/ ServerRequestResolved
             \/ ObserveDeliveryStderr
             \/ TurnCompletes
             \/ ProjectEvent
             \/ PostChoice
             \/ AttachControls
             \/ RememberDisplayed
             \/ RememberApproval
             \/ CancelUnprojected
             \/ CardUpdated
             \/ CompleteProjection
             \/ PruneExpired
      PROVE  UNCHANGED handler
  BY <1>21 DEF choiceVars, adapterSide, slackSide, Goes, HandleChoiceRequest, RefuseChoiceRequest,
     DeadlinePasses, ExpireRequest, Expired, ServerRequestResolved, ObserveDeliveryStderr,
     TurnCompletes, ProjectEvent, ProjectRequested, ExpireChoice, ResolveChoiceExternally,
     MarkChoiceAnswerDispatched, MarkDispatched, FailChoiceDelivery, AuditServerRequestResolved,
     ForgetApprovalText, OfferContinuation, Showing, PostChoice, AttachControls, RememberDisplayed,
     RememberApprovalText, RememberApproval, RememberApprovalText, CancelUnprojected, Cancelled,
     CardUpdated, CompleteProjection, ForgetApprovalText, PruneExpired
<1> QED
  BY <1>1, <1>2, <1>3, <1>4, <1>5, <1>6, <1>7, <1>8, <1>9, <1>10, <1>11, <1>12, <1>13, <1>14, <1>15,
     <1>16, <1>17, <1>18, <1>19, <1>20, <1>21 DEF ChoiceNext

LEMMA TurnsOfHandlers ==
    ASSUME ChoiceIInv, [ChoiceNext]_choiceVars
      PROVE  newTurns' # newTurns => \E g \in Handlers : handler[g].at \in InNewTurn
<1> USE DEF ChoiceIInv
<1>1. CASE UNCHANGED newTurns
  BY <1>1
<1>2. ASSUME NEW h \in Handlers, ContinueChoice(h)
      PROVE  newTurns' # newTurns => \E g \in Handlers : handler[g].at \in InNewTurn
  BY <1>2 DEF ContinueChoice, HandlerAt, InNewTurn
<1>3. ASSUME
             \/ UNCHANGED choiceVars
             \/ HandleChoiceRequest
             \/ RefuseChoiceRequest
             \/ DeadlinePasses
             \/ ExpireRequest
             \/ ServerRequestResolved
             \/ ObserveDeliveryStderr
             \/ TurnCompletes
             \/ ProjectEvent
             \/ PostChoice
             \/ AttachControls
             \/ RememberDisplayed
             \/ RememberApproval
             \/ CancelUnprojected
             \/ CardUpdated
             \/ CompleteProjection
             \/ PruneExpired
             \/ \E h \in Handlers : TextReply(h)
             \/ \E h \in Handlers : HandleOriginalClick(h)
             \/ \E h \in Handlers : BeginContinuation(h)
             \/ \E h \in Handlers : ContinuationGone(h)
             \/ \E h \in Handlers : ContinuationAdmitted(h)
             \/ \E h \in Handlers : ConsumeContinuation(h)
             \/ \E h \in Handlers : AcceptAnswer(h)
             \/ \E h \in Handlers : ApproveNative(h)
             \/ \E h \in Handlers : UnknownRequest(h)
             \/ \E h \in Handlers : AnswerTooLate(h)
             \/ \E h \in Handlers : AnswerDrained(h)
             \/ \E h \in Handlers : DrainFails(h)
             \/ \E h \in Handlers : RecordDecision(h)
             \/ \E h \in Handlers : RecordReceipt(h)
             \/ \E h \in Handlers : ShowReceipt(h)
             \/ \E h \in Handlers : ShowFailure(h)
             \/ \E h \in Handlers, q \in Questions : ClickContinuation(h, q)
             \/ \E h \in Handlers, q \in Questions, via \in Vias : Click(h, q, via)
      PROVE  UNCHANGED newTurns
  BY <1>3 DEF choiceVars, adapterSide, slackSide, Goes, HandleChoiceRequest, RefuseChoiceRequest,
     DeadlinePasses, ExpireRequest, Expired, ServerRequestResolved, ObserveDeliveryStderr,
     TurnCompletes, ProjectEvent, ProjectRequested, ExpireChoice, ResolveChoiceExternally,
     MarkChoiceAnswerDispatched, MarkDispatched, FailChoiceDelivery, AuditServerRequestResolved,
     ForgetApprovalText, OfferContinuation, Showing, PostChoice, AttachControls, RememberDisplayed,
     RememberApprovalText, RememberApproval, RememberApprovalText, CancelUnprojected, Cancelled,
     CardUpdated, CompleteProjection, ForgetApprovalText, PruneExpired, TextReply, HandleOriginalClick,
     BeginContinuation, AdmitOne, ContinuationGone, ContinuationAdmitted, ConsumeContinuation, Consumed,
     AcceptAnswer, ApproveNative, UnknownRequest, AnswerTooLate, Expired, AnswerDrained, DrainFails,
     RecordDecision, ForgetApprovalText, RecordReceipt, ShowReceipt, ShowFailure, ClickContinuation,
     Click
<1> QED
  BY <1>1, <1>2, <1>3 DEF ChoiceNext

LEMMA ContinuationsAreOffered ==
    ASSUME ChoiceIInv, [ChoiceNext]_choiceVars PROVE continuation'.state # "none" =>
           \/ continuation.state # "none"
           \/ events # <<>> /\ Head(events).type = "resolvedExternally" /\ kind # "external"
<1> USE DEF ChoiceIInv
<1>1. CASE UNCHANGED continuation
  BY <1>1
<1>2. ASSUME ProjectEvent PROVE continuation'.state # "none" =>
           \/ continuation.state # "none"
           \/ events # <<>> /\ Head(events).type = "resolvedExternally" /\ kind # "external"
  BY <1>2 DEF ProjectEvent, ProjectRequested, ExpireChoice, ResolveChoiceExternally,
              MarkChoiceAnswerDispatched, FailChoiceDelivery, AuditServerRequestResolved, OfferContinuation
<1>3. ASSUME PruneExpired PROVE continuation'.state # "none" =>
           \/ continuation.state # "none"
           \/ events # <<>> /\ Head(events).type = "resolvedExternally" /\ kind # "external"
  BY <1>3 DEF PruneExpired, CardTypes, Continuations
<1>4. ASSUME NEW h \in Handlers, BeginContinuation(h) PROVE continuation'.state # "none" =>
           \/ continuation.state # "none"
           \/ events # <<>> /\ Head(events).type = "resolvedExternally" /\ kind # "external"
  BY <1>4 DEF BeginContinuation, AdmitOne, CardTypes, Continuations
<1>5. ASSUME NEW h \in Handlers, ContinueChoice(h) PROVE continuation'.state # "none" =>
           \/ continuation.state # "none"
           \/ events # <<>> /\ Head(events).type = "resolvedExternally" /\ kind # "external"
  BY <1>5 DEF ContinueChoice, Consumed, CardTypes, Continuations
<1>6. ASSUME NEW h \in Handlers, ConsumeContinuation(h) PROVE continuation'.state # "none" =>
           \/ continuation.state # "none"
           \/ events # <<>> /\ Head(events).type = "resolvedExternally" /\ kind # "external"
  BY <1>6 DEF ConsumeContinuation, Consumed, CardTypes, Continuations
<1>7. ASSUME
             \/ UNCHANGED choiceVars
             \/ HandleChoiceRequest
             \/ RefuseChoiceRequest
             \/ DeadlinePasses
             \/ ExpireRequest
             \/ ServerRequestResolved
             \/ ObserveDeliveryStderr
             \/ TurnCompletes
             \/ PostChoice
             \/ AttachControls
             \/ RememberDisplayed
             \/ RememberApproval
             \/ CancelUnprojected
             \/ CardUpdated
             \/ CompleteProjection
             \/ \E h \in Handlers : TextReply(h)
             \/ \E h \in Handlers : HandleOriginalClick(h)
             \/ \E h \in Handlers : ContinuationGone(h)
             \/ \E h \in Handlers : ContinuationAdmitted(h)
             \/ \E h \in Handlers : AcceptAnswer(h)
             \/ \E h \in Handlers : ApproveNative(h)
             \/ \E h \in Handlers : UnknownRequest(h)
             \/ \E h \in Handlers : AnswerTooLate(h)
             \/ \E h \in Handlers : AnswerDrained(h)
             \/ \E h \in Handlers : DrainFails(h)
             \/ \E h \in Handlers : RecordDecision(h)
             \/ \E h \in Handlers : RecordReceipt(h)
             \/ \E h \in Handlers : ShowReceipt(h)
             \/ \E h \in Handlers : ShowFailure(h)
             \/ \E h \in Handlers, q \in Questions : ClickContinuation(h, q)
             \/ \E h \in Handlers, q \in Questions, via \in Vias : Click(h, q, via)
      PROVE  UNCHANGED continuation
  BY <1>7 DEF choiceVars, adapterSide, slackSide, Goes, HandleChoiceRequest, RefuseChoiceRequest,
     DeadlinePasses, ExpireRequest, Expired, ServerRequestResolved, ObserveDeliveryStderr,
     TurnCompletes, PostChoice, AttachControls, RememberDisplayed, RememberApprovalText,
     RememberApproval, RememberApprovalText, CancelUnprojected, Cancelled, CardUpdated,
     CompleteProjection, ForgetApprovalText, TextReply, HandleOriginalClick, ContinuationGone,
     ContinuationAdmitted, AcceptAnswer, ApproveNative, UnknownRequest, AnswerTooLate, Expired,
     AnswerDrained, DrainFails, RecordDecision, ForgetApprovalText, RecordReceipt, ShowReceipt,
     ShowFailure, ClickContinuation, Click
<1> QED
  BY <1>1, <1>2, <1>3, <1>4, <1>5, <1>6, <1>7 DEF ChoiceNext

LEMMA ProjectionsOfEnds ==
    ASSUME ChoiceIInv, [ChoiceNext]_choiceVars
      PROVE  projecting'.shows \in Ends => projecting.shows \in Ends \/ (events # <<>> /\ Head(events).type \in {"expired", "resolvedExternally"})
<1> USE DEF ChoiceIInv
<1>1. CASE UNCHANGED projecting
  BY <1>1
<1>2. ASSUME ProjectEvent
      PROVE  projecting'.shows \in Ends => projecting.shows \in Ends \/ (events # <<>> /\ Head(events).type \in {"expired", "resolvedExternally"})
  <2>1. ASSUME NEW e, ProjectRequested(e) PROVE projecting'.shows \notin Ends
    BY <2>1 DEF ProjectRequested, Resting, Ends
  <2>2. ASSUME MarkDispatched PROVE projecting'.shows \notin Ends
    BY <2>2 DEF MarkDispatched, Showing, Resting, Ends
  <2>3. ASSUME FailChoiceDelivery PROVE projecting'.shows \notin Ends
    BY <2>3 DEF FailChoiceDelivery, Showing, Resting, Ends
  <2>4. ASSUME AuditServerRequestResolved PROVE projecting'.shows \notin Ends
    BY <2>4 DEF AuditServerRequestResolved, Resting, Ends
  <2> QED
    BY <1>2, <2>1, <2>2, <2>3, <2>4 DEF ProjectEvent, MarkChoiceAnswerDispatched
<1>3. ASSUME PostChoice
      PROVE  projecting'.shows \in Ends => projecting.shows \in Ends \/ (events # <<>> /\ Head(events).type \in {"expired", "resolvedExternally"})
  BY <1>3 DEF PostChoice, CardTypes, ChoiceProjections, Resting, Ends
<1>4. ASSUME AttachControls
      PROVE  projecting'.shows \in Ends => projecting.shows \in Ends \/ (events # <<>> /\ Head(events).type \in {"expired", "resolvedExternally"})
  <2>1. \E at \in {"remember", "cancel"} : projecting' = [projecting EXCEPT !.at = at]
    BY <1>4 DEF AttachControls
  <2> QED
    BY <2>1 DEF CardTypes, ChoiceProjections
<1>5. ASSUME RememberDisplayed
      PROVE  projecting'.shows \in Ends => projecting.shows \in Ends \/ (events # <<>> /\ Head(events).type \in {"expired", "resolvedExternally"})
  BY <1>5 DEF RememberDisplayed, RememberApprovalText, CardTypes, ChoiceProjections, Resting, Ends
<1>6. ASSUME RememberApproval
      PROVE  projecting'.shows \in Ends => projecting.shows \in Ends \/ (events # <<>> /\ Head(events).type \in {"expired", "resolvedExternally"})
  BY <1>6 DEF RememberApproval, RememberApprovalText, CardTypes, ChoiceProjections, Resting, Ends
<1>7. ASSUME CancelUnprojected
      PROVE  projecting'.shows \in Ends => projecting.shows \in Ends \/ (events # <<>> /\ Head(events).type \in {"expired", "resolvedExternally"})
  BY <1>7 DEF CancelUnprojected, Cancelled, CardTypes, ChoiceProjections, Resting, Ends
<1>8. ASSUME CardUpdated
      PROVE  projecting'.shows \in Ends => projecting.shows \in Ends \/ (events # <<>> /\ Head(events).type \in {"expired", "resolvedExternally"})
  BY <1>8 DEF CardUpdated, CardTypes, ChoiceProjections, Resting, Ends
<1>9. ASSUME
             \/ UNCHANGED choiceVars
             \/ HandleChoiceRequest
             \/ RefuseChoiceRequest
             \/ DeadlinePasses
             \/ ExpireRequest
             \/ ServerRequestResolved
             \/ ObserveDeliveryStderr
             \/ TurnCompletes
             \/ CompleteProjection
             \/ PruneExpired
             \/ \E h \in Handlers : TextReply(h)
             \/ \E h \in Handlers : HandleOriginalClick(h)
             \/ \E h \in Handlers : BeginContinuation(h)
             \/ \E h \in Handlers : ContinuationGone(h)
             \/ \E h \in Handlers : ContinueChoice(h)
             \/ \E h \in Handlers : ContinuationAdmitted(h)
             \/ \E h \in Handlers : ConsumeContinuation(h)
             \/ \E h \in Handlers : AcceptAnswer(h)
             \/ \E h \in Handlers : ApproveNative(h)
             \/ \E h \in Handlers : UnknownRequest(h)
             \/ \E h \in Handlers : AnswerTooLate(h)
             \/ \E h \in Handlers : AnswerDrained(h)
             \/ \E h \in Handlers : DrainFails(h)
             \/ \E h \in Handlers : RecordDecision(h)
             \/ \E h \in Handlers : RecordReceipt(h)
             \/ \E h \in Handlers : ShowReceipt(h)
             \/ \E h \in Handlers : ShowFailure(h)
             \/ \E h \in Handlers, q \in Questions : ClickContinuation(h, q)
             \/ \E h \in Handlers, q \in Questions, via \in Vias : Click(h, q, via)
      PROVE  UNCHANGED projecting
  BY <1>9 DEF choiceVars, adapterSide, slackSide, Goes, HandleChoiceRequest, RefuseChoiceRequest,
     DeadlinePasses, ExpireRequest, Expired, ServerRequestResolved, ObserveDeliveryStderr,
     TurnCompletes, CompleteProjection, ForgetApprovalText, PruneExpired, TextReply,
     HandleOriginalClick, BeginContinuation, AdmitOne, ContinuationGone, ContinueChoice, Consumed,
     ContinuationAdmitted, ConsumeContinuation, Consumed, AcceptAnswer, ApproveNative, UnknownRequest,
     AnswerTooLate, Expired, AnswerDrained, DrainFails, RecordDecision, ForgetApprovalText,
     RecordReceipt, ShowReceipt, ShowFailure, ClickContinuation, Click
<1> QED
  BY <1>1, <1>2, <1>3, <1>4, <1>5, <1>6, <1>7, <1>8, <1>9 DEF ChoiceNext

LEMMA CardsOfEnds ==
    ASSUME ChoiceIInv, [ChoiceNext]_choiceVars PROVE \A q \in Questions : choiceCard'[q] \in Ends =>
           \/ choiceCard[q] \in Ends \/ projecting.shows \in Ends
           \/ \E g \in Handlers : handler[g].at \in InNewTurn
<1> USE DEF ChoiceIInv
<1>1. CASE UNCHANGED choiceCard
  BY <1>1
<1>2. ASSUME PostChoice PROVE \A q \in Questions : choiceCard'[q] \in Ends =>
           \/ choiceCard[q] \in Ends \/ projecting.shows \in Ends
           \/ \E g \in Handlers : handler[g].at \in InNewTurn
  BY <1>2 DEF PostChoice, CardTypes, Ends, InNewTurn, HandlerAt
<1>3. ASSUME AttachControls PROVE \A q \in Questions : choiceCard'[q] \in Ends =>
           \/ choiceCard[q] \in Ends \/ projecting.shows \in Ends
           \/ \E g \in Handlers : handler[g].at \in InNewTurn
  BY <1>3 DEF AttachControls, CardTypes, Ends, InNewTurn, HandlerAt
<1>4. ASSUME CardUpdated PROVE \A q \in Questions : choiceCard'[q] \in Ends =>
           \/ choiceCard[q] \in Ends \/ projecting.shows \in Ends
           \/ \E g \in Handlers : handler[g].at \in InNewTurn
  BY <1>4 DEF CardUpdated, CardTypes, Ends, InNewTurn, HandlerAt
<1>5. ASSUME NEW h \in Handlers, ContinueChoice(h) PROVE \A q \in Questions : choiceCard'[q] \in Ends =>
           \/ choiceCard[q] \in Ends \/ projecting.shows \in Ends
           \/ \E g \in Handlers : handler[g].at \in InNewTurn
  BY <1>5 DEF ContinueChoice, Consumed, CardTypes, Ends, InNewTurn, HandlerAt
<1>6. ASSUME NEW h \in Handlers, ContinuationAdmitted(h) PROVE \A q \in Questions : choiceCard'[q] \in Ends =>
           \/ choiceCard[q] \in Ends \/ projecting.shows \in Ends
           \/ \E g \in Handlers : handler[g].at \in InNewTurn
  BY <1>6 DEF ContinuationAdmitted, CardTypes, Ends, InNewTurn, HandlerAt
<1>7. ASSUME NEW h \in Handlers, ShowReceipt(h) PROVE \A q \in Questions : choiceCard'[q] \in Ends =>
           \/ choiceCard[q] \in Ends \/ projecting.shows \in Ends
           \/ \E g \in Handlers : handler[g].at \in InNewTurn
  BY <1>7 DEF ShowReceipt, CardTypes, Ends, InNewTurn, HandlerAt
<1>8. ASSUME NEW h \in Handlers, ShowFailure(h) PROVE \A q \in Questions : choiceCard'[q] \in Ends =>
           \/ choiceCard[q] \in Ends \/ projecting.shows \in Ends
           \/ \E g \in Handlers : handler[g].at \in InNewTurn
  BY <1>8 DEF ShowFailure, CardTypes, Ends, InNewTurn, HandlerAt
<1>9. ASSUME
             \/ UNCHANGED choiceVars
             \/ HandleChoiceRequest
             \/ RefuseChoiceRequest
             \/ DeadlinePasses
             \/ ExpireRequest
             \/ ServerRequestResolved
             \/ ObserveDeliveryStderr
             \/ TurnCompletes
             \/ ProjectEvent
             \/ RememberDisplayed
             \/ RememberApproval
             \/ CancelUnprojected
             \/ CompleteProjection
             \/ PruneExpired
             \/ \E h \in Handlers : TextReply(h)
             \/ \E h \in Handlers : HandleOriginalClick(h)
             \/ \E h \in Handlers : BeginContinuation(h)
             \/ \E h \in Handlers : ContinuationGone(h)
             \/ \E h \in Handlers : ConsumeContinuation(h)
             \/ \E h \in Handlers : AcceptAnswer(h)
             \/ \E h \in Handlers : ApproveNative(h)
             \/ \E h \in Handlers : UnknownRequest(h)
             \/ \E h \in Handlers : AnswerTooLate(h)
             \/ \E h \in Handlers : AnswerDrained(h)
             \/ \E h \in Handlers : DrainFails(h)
             \/ \E h \in Handlers : RecordDecision(h)
             \/ \E h \in Handlers : RecordReceipt(h)
             \/ \E h \in Handlers, q \in Questions : ClickContinuation(h, q)
             \/ \E h \in Handlers, q \in Questions, via \in Vias : Click(h, q, via)
      PROVE  UNCHANGED choiceCard
  BY <1>9 DEF choiceVars, adapterSide, slackSide, Goes, HandleChoiceRequest, RefuseChoiceRequest,
     DeadlinePasses, ExpireRequest, Expired, ServerRequestResolved, ObserveDeliveryStderr,
     TurnCompletes, ProjectEvent, ProjectRequested, ExpireChoice, ResolveChoiceExternally,
     MarkChoiceAnswerDispatched, MarkDispatched, FailChoiceDelivery, AuditServerRequestResolved,
     ForgetApprovalText, OfferContinuation, Showing, RememberDisplayed, RememberApprovalText,
     RememberApproval, RememberApprovalText, CancelUnprojected, Cancelled, CompleteProjection,
     ForgetApprovalText, PruneExpired, TextReply, HandleOriginalClick, BeginContinuation, AdmitOne,
     ContinuationGone, ConsumeContinuation, Consumed, AcceptAnswer, ApproveNative, UnknownRequest,
     AnswerTooLate, Expired, AnswerDrained, DrainFails, RecordDecision, ForgetApprovalText,
     RecordReceipt, ClickContinuation, Click
<1> QED
  BY <1>1, <1>2, <1>3, <1>4, <1>5, <1>6, <1>7, <1>8, <1>9 DEF ChoiceNext

LEMMA EventsOfEnds ==
    ASSUME ChoiceIInv, [ChoiceNext]_choiceVars, NEW i \in 1 .. Len(events'),
           events'[i].type \in {"expired", "resolvedExternally"}
    PROVE  NeverAnswered' /\ IsChoice'
<1> USE DEF ChoiceIInv
<1>1. events' \in Seq(ChoiceEvents) /\ EventMoves
  BY EventsMove
<1>2. (NeverAnswered => NeverAnswered') /\ (IsChoice => IsChoice')
  <2>1. NeverAnswered => NeverAnswered'
    BY AnswerStaysGiven
  <2>2. kind' = kind
    BY TurnsAreTyped
  <2> QED
    BY <2>1, <2>2 DEF IsChoice
<1>3. events \in Seq(ChoiceEvents)
  BY DEF ChoiceTypes
<1>4. CASE events' = events \/ events' = <<>>
  BY <1>2, <1>4 DEF EndsAreTrue
<1>5. CASE events # <<>> /\ events' = Tail(events)
  <2>1. i + 1 \in 1 .. Len(events) /\ events'[i] = events[i + 1]
    BY <1>3, <1>5
  <2> QED
    BY <1>2, <2>1 DEF EndsAreTrue
<1>6. ASSUME NEW e \in ChoiceEvents, events' = Append(events, e),
             e.type \in {"expired", "resolvedExternally"} => NeverAnswered' /\ IsChoice
      PROVE  NeverAnswered' /\ IsChoice'
  <2>1. (i \in 1 .. Len(events) /\ events'[i] = events[i]) \/ events'[i] = e
    BY <1>3, <1>6
  <2> QED
    BY <1>2, <1>6, <2>1 DEF EndsAreTrue
<1> QED
  BY <1>1, <1>4, <1>5, <1>6 DEF EventMoves

(* Every end that is told or used stays true.                              *)
LEMMA EndsStayTrue ==
    ASSUME ChoiceIInv, [ChoiceNext]_choiceVars
    PROVE  EndsAreTrue'
<1> USE DEF ChoiceIInv
<1>1. (choicePending' # Nobody => appServer' = "waiting") /\ (NeverAnswered => NeverAnswered') /\ kind' = kind
  <2>1. kind' = kind
    BY TurnsAreTyped
  <2> QED
    BY <2>1, AnswerStaysGiven
<1>2. receipt' \/ (\E h \in Handlers : handler'[h].at = "draining") => choicePending' = Nobody /\ appServer' # "idle"
  BY WritingBegins, WrittenStays DEF EndsAreTrue, WritingIsOld
<1>3. \A i \in 1 .. Len(events') : events'[i].type \in {"expired", "resolvedExternally"} => NeverAnswered' /\ IsChoice'
  BY EventsOfEnds
<1>4. events # <<>> => 1 \in 1 .. Len(events) /\ Head(events) = events[1]
  BY DEF ChoiceTypes
<1>5. projecting'.shows \in Ends => NeverAnswered'
  BY <1>1, <1>4, ProjectionsOfEnds DEF EndsAreTrue
<1>6. \A q \in Questions : choiceCard'[q] \in Ends => NeverAnswered'
  BY <1>1, CardsOfEnds DEF EndsAreTrue
<1>7. continuation'.state # "none" => NeverAnswered' /\ kind' = "ordinary"
  BY <1>1, <1>4, ContinuationsAreOffered DEF EndsAreTrue, IsChoice, ChoiceTypes
<1>8. \A h \in Handlers : handler'[h].at \in InNewTurn => NeverAnswered' /\ kind' = "ordinary"
  BY <1>1, NewTurnsBegin DEF EndsAreTrue
<1>9. newTurns' > 0 => NeverAnswered' /\ kind' = "ordinary"
  BY <1>1, TurnsOfHandlers DEF EndsAreTrue
<1> QED
  BY <1>1, <1>2, <1>3, <1>5, <1>6, <1>7, <1>8, <1>9 DEF EndsAreTrue

-----------------------------------------------------------------------------
(* The offer of a continuation: nothing new, the projector makes it, one   *)
(* handler takes it, or its turn begins.                                   *)

NothingOffered ==
    /\ continuation'.state # "none" => continuation.state # "none"
    /\ continuation'.state = "pending" => continuation.state = "pending"
    /\ \A g \in Handlers : handler'[g].at = "continuing" => handler[g].at = "continuing"
    /\ newTurns' = newTurns

OfferMade ==
    /\ events # <<>> /\ Head(events).type = "resolvedExternally" /\ events' = Tail(events)
    /\ handler' = handler /\ newTurns' = newTurns

OfferTaken ==
    /\ continuation.state = "pending" /\ continuation'.state = "in_progress"
    /\ \E h \in Handlers : \A g \in Handlers : g = h \/ handler'[g] = handler[g]
    /\ newTurns' = newTurns /\ events' = events

TurnBegun ==
    /\ \E h \in Handlers : /\ handler[h].at = "continuing" /\ handler'[h].at # "continuing"
                           /\ \A g \in Handlers : g = h \/ handler'[g] = handler[g]
    /\ newTurns' = newTurns + 1 /\ continuation' = continuation /\ events' = events

LEMMA OfferMoves ==
    ASSUME ChoiceIInv, [ChoiceNext]_choiceVars
      PROVE  NothingOffered \/ OfferMade \/ OfferTaken \/ TurnBegun
<1> USE DEF ChoiceIInv
<1>1. CASE UNCHANGED <<continuation, handler, newTurns>>
  BY <1>1 DEF NothingOffered
<1>2. ASSUME ProjectEvent PROVE NothingOffered \/ OfferMade \/ OfferTaken \/ TurnBegun
  <2>1. CASE Head(events).type = "resolvedExternally"
    BY <1>2, <2>1 DEF ProjectEvent, OfferMade
  <2>2. CASE Head(events).type # "resolvedExternally"
    <3>1. UNCHANGED continuation
      BY <1>2, <2>2 DEF ProjectEvent, ProjectRequested, ExpireChoice, MarkChoiceAnswerDispatched,
                         FailChoiceDelivery, AuditServerRequestResolved
    <3> QED
      BY <1>2, <3>1 DEF ProjectEvent, NothingOffered
  <2> QED
    BY <2>1, <2>2
<1>3. ASSUME PruneExpired PROVE NothingOffered \/ OfferMade \/ OfferTaken \/ TurnBegun
  BY <1>3 DEF PruneExpired, NothingOffered
<1>4. ASSUME NEW h \in Handlers, TextReply(h)
      PROVE  NothingOffered \/ OfferMade \/ OfferTaken \/ TurnBegun
  BY <1>4, HandlerArrives DEF TextReply, Vias, NothingOffered, slackSide
<1>5. ASSUME NEW h \in Handlers, HandleOriginalClick(h)
      PROVE  NothingOffered \/ OfferMade \/ OfferTaken \/ TurnBegun
  BY <1>5, HandlerGoes DEF HandleOriginalClick, NothingOffered, slackSide, HandlerAt, CardTypes,
     Continuations
<1>6. ASSUME NEW h \in Handlers, BeginContinuation(h)
      PROVE  NothingOffered \/ OfferMade \/ OfferTaken \/ TurnBegun
  <2>1. continuation.state = "pending" => continuation'.state = "in_progress" \/ continuation' = continuation
    BY <1>6 DEF BeginContinuation, AdmitOne, CardTypes, Continuations
  <2>2. CASE AdmitOne /\ Goes(h, "continuing")
    <3>1. \A g \in Handlers : g = h \/ handler'[g] = handler[g]
      BY <2>2, HandlerGoes
    <3>2. continuation.state = "pending" /\ continuation'.state = "in_progress"
      BY <2>2 DEF AdmitOne, CardTypes, Continuations
    <3> QED
      BY <1>6, <3>1, <3>2 DEF BeginContinuation, OfferTaken, adapterSide
  <2>3. CASE UNCHANGED continuation /\ Goes(h, IF handler[h].via = "continuation" THEN "done" ELSE "failing")
    <3>1. \A g \in Handlers : handler'[g].at = "continuing" => handler[g].at = "continuing"
      BY <2>3, HandlerGoes
    <3> QED
      BY <1>6, <2>3, <3>1 DEF BeginContinuation, NothingOffered
  <2> QED
    BY <1>6, <2>2, <2>3 DEF BeginContinuation
<1>7. ASSUME NEW h \in Handlers, ContinuationGone(h)
      PROVE  NothingOffered \/ OfferMade \/ OfferTaken \/ TurnBegun
  BY <1>7, HandlerGoes DEF ContinuationGone, NothingOffered, slackSide, HandlerAt, CardTypes,
     Continuations
<1>8. ASSUME NEW h \in Handlers, ContinueChoice(h)
      PROVE  NothingOffered \/ OfferMade \/ OfferTaken \/ TurnBegun
  <2>1. CASE newTurns' = newTurns + 1 /\ Goes(h, "admitted") /\ UNCHANGED continuation
    <3>1. handler[h].at = "continuing" /\ handler'[h].at # "continuing"
             /\ \A g \in Handlers : g = h \/ handler'[g] = handler[g]
      BY <1>8, <2>1, HandlerGoes DEF ContinueChoice, HandlerAt
    <3> QED
      BY <1>8, <2>1, <3>1 DEF ContinueChoice, TurnBegun, adapterSide
  <2>2. CASE Goes(h, IF handler[h].via = "continuation" THEN "done" ELSE "failing") /\ Consumed /\ UNCHANGED newTurns
    <3>1. \A g \in Handlers : handler'[g].at = "continuing" => handler[g].at = "continuing"
      BY <2>2, HandlerGoes
    <3> QED
      BY <2>2, <3>1 DEF Consumed, NothingOffered, CardTypes, Continuations
  <2> QED
    BY <1>8, <2>1, <2>2 DEF ContinueChoice
<1>9. ASSUME NEW h \in Handlers, ContinuationAdmitted(h)
      PROVE  NothingOffered \/ OfferMade \/ OfferTaken \/ TurnBegun
  BY <1>9, HandlerGoes DEF ContinuationAdmitted, NothingOffered, slackSide, HandlerAt, CardTypes,
     Continuations
<1>10. ASSUME NEW h \in Handlers, ConsumeContinuation(h)
      PROVE  NothingOffered \/ OfferMade \/ OfferTaken \/ TurnBegun
  BY <1>10, HandlerGoes DEF ConsumeContinuation, Consumed, NothingOffered, slackSide, HandlerAt,
     CardTypes, Continuations
<1>11. ASSUME NEW h \in Handlers, AcceptAnswer(h)
      PROVE  NothingOffered \/ OfferMade \/ OfferTaken \/ TurnBegun
  BY <1>11, HandlerGoes DEF AcceptAnswer, NothingOffered, slackSide, HandlerAt, CardTypes, Continuations
<1>12. ASSUME NEW h \in Handlers, ApproveNative(h)
      PROVE  NothingOffered \/ OfferMade \/ OfferTaken \/ TurnBegun
  BY <1>12, HandlerGoes DEF ApproveNative, NothingOffered, slackSide, HandlerAt, CardTypes,
     Continuations
<1>13. ASSUME NEW h \in Handlers, UnknownRequest(h)
      PROVE  NothingOffered \/ OfferMade \/ OfferTaken \/ TurnBegun
  BY <1>13, HandlerGoes DEF UnknownRequest, NothingOffered, slackSide, HandlerAt, CardTypes,
     Continuations
<1>14. ASSUME NEW h \in Handlers, AnswerTooLate(h)
      PROVE  NothingOffered \/ OfferMade \/ OfferTaken \/ TurnBegun
  BY <1>14, HandlerGoes DEF AnswerTooLate, Expired, NothingOffered, slackSide, HandlerAt, CardTypes,
     Continuations
<1>15. ASSUME NEW h \in Handlers, AnswerDrained(h)
      PROVE  NothingOffered \/ OfferMade \/ OfferTaken \/ TurnBegun
  BY <1>15, HandlerGoes DEF AnswerDrained, NothingOffered, slackSide, HandlerAt, CardTypes,
     Continuations
<1>16. ASSUME NEW h \in Handlers, DrainFails(h)
      PROVE  NothingOffered \/ OfferMade \/ OfferTaken \/ TurnBegun
  BY <1>16, HandlerGoes DEF DrainFails, NothingOffered, slackSide, HandlerAt, CardTypes, Continuations
<1>17. ASSUME NEW h \in Handlers, RecordDecision(h)
      PROVE  NothingOffered \/ OfferMade \/ OfferTaken \/ TurnBegun
  BY <1>17, HandlerGoes DEF RecordDecision, ForgetApprovalText, NothingOffered, slackSide, HandlerAt,
     CardTypes, Continuations
<1>18. ASSUME NEW h \in Handlers, RecordReceipt(h)
      PROVE  NothingOffered \/ OfferMade \/ OfferTaken \/ TurnBegun
  BY <1>18, HandlerGoes DEF RecordReceipt, NothingOffered, slackSide, HandlerAt, CardTypes,
     Continuations
<1>19. ASSUME NEW h \in Handlers, ShowReceipt(h)
      PROVE  NothingOffered \/ OfferMade \/ OfferTaken \/ TurnBegun
  BY <1>19, HandlerGoes DEF ShowReceipt, NothingOffered, slackSide, HandlerAt, CardTypes, Continuations
<1>20. ASSUME NEW h \in Handlers, ShowFailure(h)
      PROVE  NothingOffered \/ OfferMade \/ OfferTaken \/ TurnBegun
  BY <1>20, HandlerGoes DEF ShowFailure, NothingOffered, slackSide, HandlerAt, CardTypes, Continuations
<1>21. ASSUME NEW h \in Handlers, NEW q \in Questions, ClickContinuation(h, q)
      PROVE  NothingOffered \/ OfferMade \/ OfferTaken \/ TurnBegun
  <2>1. q \in Nat /\ "continuation" \in Vias
    BY DEF Questions, Vias
  <2> QED
    BY <1>21, <2>1, HandlerArrives DEF ClickContinuation, NothingOffered, slackSide
<1>22. ASSUME NEW h \in Handlers, NEW q \in Questions, NEW via \in Vias, Click(h, q, via)
      PROVE  NothingOffered \/ OfferMade \/ OfferTaken \/ TurnBegun
  <2>1. q \in Nat
    BY DEF Questions
  <2> QED
    BY <1>22, <2>1, HandlerArrives DEF Click, NothingOffered, slackSide
<1>23. ASSUME
             \/ UNCHANGED choiceVars
             \/ HandleChoiceRequest
             \/ RefuseChoiceRequest
             \/ DeadlinePasses
             \/ ExpireRequest
             \/ ServerRequestResolved
             \/ ObserveDeliveryStderr
             \/ TurnCompletes
             \/ PostChoice
             \/ AttachControls
             \/ RememberDisplayed
             \/ RememberApproval
             \/ CancelUnprojected
             \/ CardUpdated
             \/ CompleteProjection
      PROVE  UNCHANGED <<continuation, handler, newTurns>>
  BY <1>23 DEF choiceVars, adapterSide, slackSide, Goes, HandleChoiceRequest, RefuseChoiceRequest,
     DeadlinePasses, ExpireRequest, Expired, ServerRequestResolved, ObserveDeliveryStderr,
     TurnCompletes, PostChoice, AttachControls, RememberDisplayed, RememberApprovalText,
     RememberApproval, RememberApprovalText, CancelUnprojected, Cancelled, CardUpdated,
     CompleteProjection, ForgetApprovalText
<1> QED
  BY <1>1, <1>2, <1>3, <1>4, <1>5, <1>6, <1>7, <1>8, <1>9, <1>10, <1>11, <1>12, <1>13, <1>14, <1>15,
     <1>16, <1>17, <1>18, <1>19, <1>20, <1>21, <1>22, <1>23 DEF ChoiceNext

(* There is one offer, and one handler that takes it.                      *)
LEMMA OfferedStaysOnce ==
    ASSUME ChoiceIInv, [ChoiceNext]_choiceVars
    PROVE  OfferedOnce'
<1> USE DEF ChoiceIInv
<1> DEFINE Offered == \E i \in 1 .. Len(events) : Offers(i)
<1> DEFINE Taken == \E h \in Handlers : Continues(h)
<1>1. events' \in Seq(ChoiceEvents) /\ EventMoves /\ (ended => ended') /\ events \in Seq(ChoiceEvents)
  BY EventsMove, TurnsAreTyped DEF ChoiceTypes
<1>2. newTurns \in Nat /\ newTurns' \in Nat
  BY TurnsAreTyped DEF ChoiceTypes
<1> DEFINE OffersOnce ==
               /\ \A i, j \in 1 .. Len(events') : Offers(i)' /\ Offers(j)' => i = j
               /\ Offered' => Offered \/ (~ended /\ ended')
               /\ Offered /\ Head(events).type = "resolvedExternally" /\ events' = Tail(events) => ~Offered'
<1>3. OffersOnce
  <2>0. CASE events' = <<>>
    BY <2>0
  <2>1. CASE events' = events
    <3>1. events' = Tail(events) => events = <<>>
      BY <1>1, <2>1
    <3>2. Offered => events # <<>>
      OBVIOUS
    <3> QED
      BY <2>1, <3>1, <3>2 DEF OfferedOnce, Offers
  <2>2. CASE events # <<>> /\ events' = Tail(events)
    <3>1. \A i \in 1 .. Len(events') : i + 1 \in 1 .. Len(events) /\ events'[i] = events[i + 1]
      BY <1>1, <2>2
    <3>2. \A i \in 1 .. Len(events') : i + 1 \in 1 .. Len(events) /\ (Offers(i)' => Offers(i + 1))
      BY <3>1 DEF Offers
    <3>3. \A i, j \in 1 .. Len(events') : Offers(i)' /\ Offers(j)' => i = j
      <4> TAKE i, j \in 1 .. Len(events')
      <4>1. Offers(i)' /\ Offers(j)' => i + 1 = j + 1
        BY <3>2 DEF OfferedOnce
      <4> QED
        BY <4>1
    <3>4. Head(events).type = "resolvedExternally" => Offers(1) /\ 1 \in 1 .. Len(events)
      BY <1>1, <2>2 DEF Offers
    <3>5. Head(events).type = "resolvedExternally" => ~Offered'
      <4> SUFFICES ASSUME Head(events).type = "resolvedExternally", NEW i \in 1 .. Len(events'), Offers(i)'
                   PROVE  FALSE
        OBVIOUS
      <4>1. i + 1 = 1
        BY <3>2, <3>4 DEF OfferedOnce
      <4> QED
        BY <4>1
    <3> QED
      BY <3>2, <3>3, <3>5
  <2>3. ASSUME NEW e \in ChoiceEvents, events' = Append(events, e),
               e.type = "resolvedExternally" => ~ended /\ ended'
        PROVE  OffersOnce
    <3>1. Len(events') = Len(events) + 1 /\ Len(events) \in Nat /\ events'[Len(events')] = e
      BY <1>1, <2>3
    <3>2. \A i \in 1 .. Len(events') : (i \in 1 .. Len(events) /\ events'[i] = events[i]) \/ i = Len(events')
      BY <1>1, <2>3
    <3>3. CASE e.type = "resolvedExternally"
      <4>1. ~Offered
        BY <2>3, <3>3 DEF OfferedOnce
      <4>2. \A i \in 1 .. Len(events') : Offers(i)' => i = Len(events')
        BY <3>2, <4>1 DEF Offers
      <4> QED
        BY <2>3, <3>3, <4>1, <4>2
    <3>4. CASE e.type # "resolvedExternally"
      <4>1. \A i \in 1 .. Len(events') : Offers(i)' => i \in 1 .. Len(events) /\ Offers(i)
        BY <3>1, <3>2, <3>4 DEF Offers
      <4>2. events' # Tail(events) \/ events = <<>>
        BY <1>1, <2>3
      <4> QED
        BY <4>1, <4>2 DEF OfferedOnce
    <3> QED
      BY <3>3, <3>4
  <2> QED
    BY <1>1, <2>0, <2>1, <2>2, <2>3 DEF EventMoves
<1> DEFINE Before ==
                      /\ Offered => ended /\ continuation.state = "none"
                      /\ continuation.state # "none" => ended
                      /\ Offered \/ continuation.state = "pending" => newTurns = 0 /\ ~Taken
                      /\ Taken => ended /\ newTurns = 0
                      /\ newTurns > 0 => newTurns = 1 /\ ended
<1> DEFINE OneTakes == \A g, h \in Handlers : Continues(g) /\ Continues(h) => g = h
<1>4. Before /\ OneTakes
  BY DEF OfferedOnce, Continues
<1>5. OffersOnce /\ Before' /\ OneTakes' => OfferedOnce'
  BY DEF OfferedOnce, Continues
<1>6. Offered' => Offered \/ (~ended /\ ended')
  BY <1>3
<1>7. CASE NothingOffered
  <2>1. (Taken' => Taken) /\ OneTakes'
    BY <1>4, <1>7 DEF NothingOffered, Continues
  <2>2. /\ continuation'.state # "none" => continuation.state # "none"
        /\ continuation'.state = "pending" => continuation.state = "pending"
        /\ newTurns' = newTurns
    BY <1>7 DEF NothingOffered
  <2> HIDE DEF Offered, Taken, OffersOnce, OneTakes
  <2>3. Before'
    BY <1>1, <1>2, <1>4, <1>6, <2>1, <2>2
  <2> QED
    BY <1>3, <1>5, <2>1, <2>3
<1>8. CASE OfferMade
  <2>1. Offered
    BY <1>1, <1>8 DEF OfferMade, Offers
  <2>2. ~Offered' /\ newTurns' = newTurns /\ (Taken' => Taken) /\ OneTakes'
    BY <1>3, <1>4, <1>8, <2>1 DEF OfferMade, Continues
  <2> HIDE DEF Offered, Taken, OffersOnce, OneTakes
  <2>3. Before'
    BY <1>1, <1>2, <1>4, <2>1, <2>2
  <2> QED
    BY <1>3, <1>5, <2>2, <2>3
<1>9. CASE OfferTaken
  <2>1. continuation.state = "pending" /\ continuation'.state = "in_progress" /\ newTurns' = newTurns
    BY <1>9 DEF OfferTaken
  <2>2. ~Taken
    BY <1>4, <2>1
  <2>3. OneTakes'
    BY <1>9, <2>2 DEF OfferTaken, Continues
  <2> HIDE DEF Offered, Taken, OffersOnce, OneTakes
  <2>4. Before'
    BY <1>1, <1>2, <1>4, <1>6, <2>1, <2>2
  <2> QED
    BY <1>3, <1>5, <2>3, <2>4
<1>10. CASE TurnBegun
  <2>1. Taken /\ ~Taken'
    BY <1>4, <1>10 DEF TurnBegun, Continues
  <2>2. newTurns' = newTurns + 1 /\ continuation' = continuation
    BY <1>10 DEF TurnBegun
  <2>3. OneTakes'
    BY <2>1
  <2> HIDE DEF Offered, Taken, OffersOnce, OneTakes
  <2>4. Before'
    BY <1>1, <1>2, <1>4, <1>6, <2>1, <2>2
  <2> QED
    BY <1>3, <1>5, <2>3, <2>4
<1> QED
  BY <1>7, <1>8, <1>9, <1>10, OfferMoves

LEMMA ChoiceHoldsAtFirst == ChoiceInit => ChoiceIInv
<1> SUFFICES ASSUME ChoiceInit PROVE ChoiceIInv
  OBVIOUS
<1>1. handler = [h \in Handlers |-> Free] /\ events = <<>>
  BY Zenon DEF ChoiceInit
<1>2. \A h \in Handlers : handler[h].at = "idle"
  BY <1>1 DEF Free
<1>3. ChoiceTypes
  BY <1>1 DEF ChoiceInit, ChoiceTypes, ChoiceHandlers, Free, Vias, Nobody
<1>4. CardTypes
  BY DEF ChoiceInit, CardTypes, ChoiceProjections, Continuations, CardStates, Resting, Nobody
<1>5. EndsAreTrue
  BY <1>1, <1>2 DEF ChoiceInit, EndsAreTrue, Resting, Ends, InNewTurn
<1>6. OfferedOnce
  BY <1>1, <1>2 DEF ChoiceInit, OfferedOnce, Offers, Continues
<1> QED
  BY <1>3, <1>4, <1>5, <1>6 DEF ChoiceIInv

LEMMA ChoiceIsKept == ChoiceIInv /\ [ChoiceNext]_choiceVars => ChoiceIInv'
<1> SUFFICES ASSUME ChoiceIInv, [ChoiceNext]_choiceVars PROVE ChoiceIInv'
  OBVIOUS
<1>1. ChoiceTypes'
  BY EventsMove, AnswerStaysGiven, HandlersAreTyped, TurnsAreTyped DEF ChoiceIInv, ChoiceTypes
<1> QED
  BY <1>1, CardsAreTyped, EndsStayTrue, OfferedStaysOnce DEF ChoiceIInv

(* For any handlers and any number of questions: a request is answered or  *)
(* continued as one new turn, never both, and no card says of an answered  *)
(* request that it ended without an answer (respondToUserInput,            *)
(* resolveExternally, begin).                                              *)
THEOREM RequestsEndOnce == ChoiceSpec => []AnsweredOrContinued
<1>1. ChoiceIInv => AnsweredOrContinued
  BY DEF ChoiceIInv, EndsAreTrue, OfferedOnce, NeverAnswered, Ends, AnsweredOrContinued
<1> QED
  BY <1>1, ChoiceHoldsAtFirst, ChoiceIsKept, PTL DEF ChoiceSpec

(***************************************************************************)
(* SlackProjection. At each stage of a turn the thread has been told what  *)
(* was due by then, and no message that was queued before the answer comes *)
(* after it.                                                               *)
(***************************************************************************)

ProjectionTypes ==
    /\ client \in Clients /\ turnEnd \in {"no", "normally", "with an error", "handled already"}
    /\ task \in WriteTasks \cup PostTasks \cup {"none"} /\ result \in {"none", "pending", "ok", "failed"}
    /\ task = "none" <=> result = "none"
    /\ left \in Nat /\ sending \in Texts

(* Where the handler is: its tasks at each stage, what it knows by then.   *)
TasksAt(s) ==
    CASE s = "accepting" -> {"none", "accept"}
      [] s = "streaming" -> {"none", "event", "error", "error told", "attachment"}
      [] s = "failing" -> {"none", "failure", "failure told", "raw"}
      [] s = "completing" -> {"none", "collapse", "primary", "abandon", "chunk", "recovery", "raw", "notice"}
      [] OTHER -> {"none"}

HandlerIsAt ==
    /\ stage \in {"accepting", "preparing", "streaming", "failing", "closing", "completing", "over"}
    /\ task \in TasksAt(stage)
    /\ stage \in {"accepting", "preparing", "failing"} => client = "message"
    /\ stage \in {"accepting", "preparing", "streaming"} => turnEnd = "no"
    /\ stage = "failing" => turnEnd = "with an error" \/ (task = "none" /\ turnEnd = "no")
    /\ stage \in {"closing", "completing", "over"} => turnEnd # "no"
    /\ stage \notin {"completing", "over"} => ~finalized /\ left = 0 /\ ~published
    /\ stage = "completing" => finalized
    /\ published => finalized
    /\ task = "chunk" => left > 0
    /\ client # "message" \/ turnEnd = "normally" \/ stage \in {"preparing", "streaming", "completing"} => attempted
    /\ turnEnd = "handled already" => client = "continuation"
    /\ stage = "closing" /\ client = "continuation" => turnEnd = "normally"

(* A write of the handler is behind those of heartbeats, which end with    *)
(* the progress.                                                           *)
Writing == task \in WriteTasks /\ result = "pending"
InLine(w, t) ==
    /\ \A i \in 1..Len(w) : w[i] # "beat" => t # "none" /\ w[i] = t
    /\ \A i, j \in 1..Len(w) : w[i] # "beat" /\ w[j] # "beat" => i = j
    /\ t # "none" => \E i \in 1..Len(w) : w[i] # "beat"

WritesInOrder ==
    /\ writes \in Seq({"beat"} \cup WriteTasks)
    /\ InLine(writes, IF Writing THEN task ELSE "none")
    /\ finalized /\ Writing => writes[Len(writes)] = task
    /\ finalized /\ ~Writing /\ (mention \/ ~disabled) => writes = <<>>
    /\ task = "primary" /\ ~Writing => writes = <<>>
    /\ sending # "none" => writes # <<>>
    /\ sending # "none" /\ Head(writes) = "primary" /\ agentText => sending = "final"

(* A call that ended well has told what it was for.                        *)
CallsAreTold ==
    /\ result = "ok" /\ task \in PostTasks => task \in shown
    /\ result = "failed" /\ task \in PostTasks \cup {"primary"} => lost
    /\ task = "primary" /\ result = "ok" /\ agentText => activity = "final"

Told == shown \cap {"failure told", "raw", "notice"} # {}

(* What has been told of the turn when it is being completed: its answer,  *)
(* or its error.                                                           *)
Undisturbed == ~lost /\ (mention \/ ~disabled)
AnswerShown == published /\ (activity = "final" \/ "chunk" \in shown)

AnswerIsTold ==
    Undisturbed =>
        /\ stage = "completing" /\ task \in {"collapse", "primary", "abandon"} => left = 0 /\ ~published
        /\ stage = "completing" /\ turnEnd = "normally" => task \notin {"abandon", "raw"}
        /\ stage = "completing" /\ task \in {"recovery", "notice"} => left = 0
        /\ turnEnd = "normally" /\ agentText /\ stage = "completing" /\ left = 0 =>
              task \in {"collapse", "primary"} \/ AnswerShown
        /\ turnEnd = "normally" /\ agentText /\ stage = "over" => AnswerShown

ErrorIsTold ==
    Undisturbed /\ turnEnd = "with an error" =>
        /\ client = "message" /\ stage \in {"closing", "completing", "over"} => Told
        /\ client = "continuation" /\ stage = "completing" => task \in {"abandon", "raw"} /\ ~published
        /\ stage = "over" => Told

ProjectionIInv ==
    /\ ProjectionTypes /\ HandlerIsAt /\ WritesInOrder /\ CallsAreTold /\ AnswerIsTold /\ ErrorIsTold


LEMMA CallAppended ==
    ASSUME NEW w \in Seq({"beat"} \cup WriteTasks), InLine(w, "none"), NEW t \in WriteTasks
    PROVE  /\ Append(w, t) \in Seq({"beat"} \cup WriteTasks) /\ InLine(Append(w, t), t)
           /\ Append(w, t)[Len(Append(w, t))] = t /\ Append(w, t) # <<>>
           /\ w # <<>> => Head(Append(w, t)) = Head(w) /\ Head(w) = "beat"
<1>1. t # "beat" /\ t # "none"
  BY DEF WriteTasks
<1>2. Len(w) \in Nat /\ Len(Append(w, t)) = Len(w) + 1
  OBVIOUS
<1>3. \A i \in 1..Len(w) : Append(w, t)[i] = w[i] /\ w[i] = "beat"
  BY DEF InLine
<1>4. Append(w, t)[Len(w) + 1] = t
  OBVIOUS
<1>5. InLine(Append(w, t), t)
  <2>1. \A i \in 1..(Len(w) + 1) : Append(w, t)[i] # "beat" => i = Len(w) + 1
    BY <1>2, <1>3
  <2>2. Len(w) + 1 \in 1..(Len(w) + 1)
    BY <1>2
  <2> QED
    BY <1>1, <1>2, <1>4, <2>1, <2>2 DEF InLine
<1>6. w # <<>> => Head(Append(w, t)) = Head(w) /\ Head(w) = "beat"
  BY <1>2, <1>3
<1>7. Append(w, t) \in Seq({"beat"} \cup WriteTasks) /\ Append(w, t) # <<>>
  BY <1>2
<1> QED
  BY <1>2, <1>4, <1>5, <1>6, <1>7

LEMMA BeatAppended ==
    ASSUME NEW w \in Seq({"beat"} \cup WriteTasks), NEW t, InLine(w, t)
    PROVE  /\ Append(w, "beat") \in Seq({"beat"} \cup WriteTasks) /\ InLine(Append(w, "beat"), t)
           /\ w # <<>> => Head(Append(w, "beat")) = Head(w)
<1>1. Len(w) \in Nat /\ Len(Append(w, "beat")) = Len(w) + 1
  OBVIOUS
<1>2. \A i \in 1..Len(w) : Append(w, "beat")[i] = w[i]
  OBVIOUS
<1>3. Append(w, "beat")[Len(w) + 1] = "beat"
  OBVIOUS
<1>4. \A i \in 1..(Len(w) + 1) : Append(w, "beat")[i] # "beat" => i \in 1..Len(w) /\ w[i] # "beat"
  BY <1>1, <1>2, <1>3
<1>5. InLine(Append(w, "beat"), t)
  BY <1>1, <1>2, <1>4 DEF InLine
<1>6. w # <<>> => Head(Append(w, "beat")) = Head(w)
  BY <1>1, <1>2
<1> QED
  BY <1>5, <1>6

LEMMA HeadGone ==
    ASSUME NEW w \in Seq({"beat"} \cup WriteTasks), w # <<>>, NEW t, InLine(w, t)
    PROVE  /\ Tail(w) \in Seq({"beat"} \cup WriteTasks)
           /\ Head(w) = "beat" => InLine(Tail(w), t)
           /\ Head(w) = "beat" /\ t \notin {"none", "beat"} /\ w[Len(w)] = t => Tail(w)[Len(Tail(w))] = t
           /\ Head(w) # "beat" => t # "none" /\ Head(w) = t /\ InLine(Tail(w), "none")
           /\ Head(w) # "beat" /\ w[Len(w)] = t => Tail(w) = <<>>
<1>1. /\ Len(w) \in Nat \ {0} /\ Len(Tail(w)) = Len(w) - 1 /\ Head(w) = w[1]
      /\ Tail(w) \in Seq({"beat"} \cup WriteTasks)
  OBVIOUS
<1>2. \A i \in 1..(Len(w) - 1) : Tail(w)[i] = w[i + 1] /\ i + 1 \in 1..Len(w) /\ i + 1 # 1
  BY <1>1
<1>3. 1 \in 1..Len(w) /\ Len(w) \in 1..Len(w)
  BY <1>1
<1>4. ASSUME Head(w) = "beat" PROVE InLine(Tail(w), t)
  <2>1. ASSUME t # "none" PROVE \E i \in 1..Len(Tail(w)) : Tail(w)[i] # "beat"
    <3>1. PICK i \in 1..Len(w) : w[i] # "beat"
      BY <2>1 DEF InLine
    <3>2. i # 1 /\ i - 1 \in 1..(Len(w) - 1) /\ (i - 1) + 1 = i
      BY <1>1, <1>4, <3>1
    <3>3. Tail(w)[i - 1] = w[i]
      BY <1>2, <3>2
    <3> QED
      BY <1>1, <3>1, <3>2, <3>3
  <2>2. \A i \in 1..Len(Tail(w)) : Tail(w)[i] # "beat" => t # "none" /\ Tail(w)[i] = t
    BY <1>1, <1>2 DEF InLine
  <2>3. ASSUME NEW i \in 1..Len(Tail(w)), NEW j \in 1..Len(Tail(w)), Tail(w)[i] # "beat", Tail(w)[j] # "beat"
        PROVE  i = j
    <3>1. i + 1 = j + 1
      BY <1>1, <1>2, <2>3 DEF InLine
    <3> QED
      BY <1>1, <3>1
  <2> QED
    BY <2>1, <2>2, <2>3 DEF InLine
<1>5. ASSUME Head(w) # "beat" PROVE t # "none" /\ Head(w) = t /\ \A i \in 1..Len(Tail(w)) : Tail(w)[i] = "beat"
  BY <1>1, <1>2, <1>3, <1>5 DEF InLine
<1>6. ASSUME Head(w) = "beat", t \notin {"none", "beat"}, w[Len(w)] = t PROVE Tail(w)[Len(Tail(w))] = t
  <2>1. Len(w) # 1
    BY <1>1, <1>6
  <2>2. Len(w) - 1 \in 1..(Len(w) - 1) /\ (Len(w) - 1) + 1 = Len(w)
    BY <1>1, <2>1
  <2> QED
    BY <1>1, <1>2, <1>6, <2>2
<1>7. ASSUME Head(w) # "beat", w[Len(w)] = t PROVE Tail(w) = <<>>
  <2>1. w[Len(w)] # "beat"
    BY <1>5, <1>7
  <2>2. Len(w) = 1
    BY <1>1, <1>3, <1>7, <2>1 DEF InLine
  <2>3. Len(Tail(w)) = 0 /\ Tail(w) \in Seq({"beat"} \cup WriteTasks)
    BY <1>1, <2>2
  <2> QED
    BY <2>3, EmptySeq
<1> QED
  BY <1>1, <1>4, <1>5, <1>6, <1>7 DEF InLine

(* The handler's steps leave the writes or append its own.                 *)
LEMMA QueueKept ==
    ASSUME WritesInOrder, ~Writing, UNCHANGED <<sending, disabled, mention>>,
           \/ \E t \in WriteTasks : writes' = Append(writes, t) /\ task' = t /\ result' = "pending"
           \/ /\ writes' = writes /\ ~Writing' /\ task' # "primary"
              /\ finalized' => finalized \/ (disabled /\ ~mention)
    PROVE  WritesInOrder'
<1>1. writes \in Seq({"beat"} \cup WriteTasks) /\ InLine(writes, "none")
  BY DEF WritesInOrder
<1>2. sending # "none" => Head(writes) = "beat"
  BY <1>1 DEF WritesInOrder, InLine
<1>3. CASE \E t \in WriteTasks : writes' = Append(writes, t) /\ task' = t /\ result' = "pending"
  <2>1. PICK t \in WriteTasks : writes' = Append(writes, t) /\ task' = t /\ result' = "pending"
    BY <1>3
  <2>2. /\ writes' \in Seq({"beat"} \cup WriteTasks) /\ InLine(writes', t)
        /\ writes'[Len(writes')] = t /\ writes' # <<>>
        /\ writes # <<>> => Head(writes') = Head(writes) /\ Head(writes) = "beat"
    BY <1>1, <2>1, CallAppended
  <2>3. Writing'
    BY <2>1 DEF Writing
  <2> QED
    BY <1>2, <2>1, <2>2, <2>3 DEF WritesInOrder
<1>4. CASE /\ writes' = writes /\ ~Writing' /\ task' # "primary"
           /\ finalized' => finalized \/ (disabled /\ ~mention)
  BY <1>1, <1>2, <1>4 DEF WritesInOrder
<1> QED
  BY <1>3, <1>4

LEMMA PostEndsKept ==
    ASSUME ProjectionIInv, PostEnds
    PROVE  ProjectionIInv'
<1> USE ChunksAssumption DEF ProjectionIInv
<1>1. ProjectionTypes'
  BY DEF PostEnds, ProjectionTypes, finalVars, activityVars
<1>2. HandlerIsAt'
  BY DEF PostEnds, HandlerIsAt, finalVars
<1>3. CallsAreTold'
  BY DEF PostEnds, CallsAreTold, PostTasks
<1>4. AnswerIsTold'
  <2>1. /\ shown \subseteq shown' /\ (lost => lost')
        /\ UNCHANGED <<mention, disabled, stage, task, left, published, turnEnd, agentText, activity>>
    BY DEF PostEnds, Fault, turnVars, finalVars, activityVars
  <2> QED
    BY <2>1 DEF AnswerIsTold, AnswerShown, Undisturbed
<1>5. ErrorIsTold'
  <2>1. /\ shown \subseteq shown' /\ (lost => lost')
        /\ UNCHANGED <<client, mention, disabled, stage, task, published, turnEnd>>
    BY DEF PostEnds, Fault, turnVars, finalVars, activityVars
  <2>2. Told => Told'
    BY <2>1 DEF Told
  <2> QED
    BY <2>1, <2>2 DEF ErrorIsTold, Undisturbed
<1>6. WritesInOrder'
  BY QueueKept DEF PostEnds, Writing, WriteTasks, PostTasks, finalVars, activityVars
<1> QED
  BY <1>1, <1>2, <1>3, <1>4, <1>5, <1>6

LEMMA AcceptMessageKept ==
    ASSUME ProjectionIInv, AcceptMessage
    PROVE  ProjectionIInv'
<1> USE ChunksAssumption DEF ProjectionIInv
<1>1. ProjectionTypes'
  BY DEF AcceptMessage, ProjectionTypes, WriteTasks, Call, finalVars
<1>2. HandlerIsAt'
  BY DEF AcceptMessage, HandlerIsAt, TasksAt, Call, finalVars
<1>3. CallsAreTold'
  BY DEF AcceptMessage, CallsAreTold, Call
<1>4. AnswerIsTold'
  BY DEF AcceptMessage, AnswerIsTold
<1>5. ErrorIsTold'
  BY DEF AcceptMessage, ErrorIsTold
<1>6. WritesInOrder'
  BY QueueKept DEF AcceptMessage, Writing, WriteTasks, HandlerFree, Call
<1> QED
  BY <1>1, <1>2, <1>3, <1>4, <1>5, <1>6

LEMMA MessageAcceptedKept ==
    ASSUME ProjectionIInv, MessageAccepted
    PROVE  ProjectionIInv'
<1> USE ChunksAssumption DEF ProjectionIInv
<1>1. ProjectionTypes'
  BY DEF MessageAccepted, ProjectionTypes, Done, Projected, finalVars
<1>2. HandlerIsAt'
  BY DEF MessageAccepted, HandlerIsAt, TasksAt, Done, Projected, finalVars
<1>3. CallsAreTold'
  BY DEF MessageAccepted, CallsAreTold, Done, Projected
<1>4. AnswerIsTold'
  BY DEF MessageAccepted, AnswerIsTold
<1>5. ErrorIsTold'
  BY DEF MessageAccepted, ErrorIsTold
<1>6. WritesInOrder'
  BY QueueKept DEF MessageAccepted, Writing, Done, Projected, finalVars
<1> QED
  BY <1>1, <1>2, <1>3, <1>4, <1>5, <1>6

LEMMA PrepareTurnKept ==
    ASSUME ProjectionIInv, PrepareTurn
    PROVE  ProjectionIInv'
<1> USE ChunksAssumption DEF ProjectionIInv
<1>1. ProjectionTypes'
  BY DEF PrepareTurn, ProjectionTypes, finalVars, activityVars
<1>2. HandlerIsAt'
  BY DEF PrepareTurn, HandlerIsAt, TasksAt, finalVars
<1>3. CallsAreTold'
  BY DEF PrepareTurn, CallsAreTold, HandlerFree, toldVars
<1>4. AnswerIsTold'
  BY DEF PrepareTurn, AnswerIsTold
<1>5. ErrorIsTold'
  BY DEF PrepareTurn, ErrorIsTold
<1>6. WritesInOrder'
  BY QueueKept DEF PrepareTurn, Writing, WriteTasks, HandlerFree, finalVars, activityVars
<1> QED
  BY <1>1, <1>2, <1>3, <1>4, <1>5, <1>6

LEMMA ProjectProgressKept ==
    ASSUME ProjectionIInv, ProjectProgress
    PROVE  ProjectionIInv'
<1> USE ChunksAssumption DEF ProjectionIInv
<1>1. ProjectionTypes'
  BY DEF ProjectProgress, ProjectionTypes, WriteTasks, Call, finalVars
<1>2. HandlerIsAt'
  BY DEF ProjectProgress, HandlerIsAt, TasksAt, Call, Event, finalVars
<1>3. CallsAreTold'
  BY DEF ProjectProgress, CallsAreTold, HandlerFree, Call, Event, toldVars
<1>4. AnswerIsTold'
  BY DEF ProjectProgress, AnswerIsTold, Event
<1>5. ErrorIsTold'
  BY DEF ProjectProgress, ErrorIsTold, Event
<1>6. WritesInOrder'
  BY QueueKept DEF ProjectProgress, Writing, WriteTasks, HandlerFree, Call, Event, finalVars
<1> QED
  BY <1>1, <1>2, <1>3, <1>4, <1>5, <1>6

LEMMA ProjectErrorKept ==
    ASSUME ProjectionIInv, ProjectError
    PROVE  ProjectionIInv'
<1> USE ChunksAssumption DEF ProjectionIInv
<1>1. ProjectionTypes'
  BY DEF ProjectError, ProjectionTypes, WriteTasks, Call, finalVars
<1>2. HandlerIsAt'
  BY DEF ProjectError, HandlerIsAt, TasksAt, Call, Event, finalVars
<1>3. CallsAreTold'
  BY DEF ProjectError, CallsAreTold, Call
<1>4. AnswerIsTold'
  BY DEF ProjectError, AnswerIsTold, Event
<1>5. ErrorIsTold'
  BY DEF ProjectError, ErrorIsTold, Event
<1>6. WritesInOrder'
  BY QueueKept DEF ProjectError, Writing, WriteTasks, HandlerFree, Call, Event
<1> QED
  BY <1>1, <1>2, <1>3, <1>4, <1>5, <1>6

LEMMA TellErrorKept ==
    ASSUME ProjectionIInv, TellError
    PROVE  ProjectionIInv'
<1> USE ChunksAssumption DEF ProjectionIInv
<1>1. ProjectionTypes'
  BY DEF TellError, ProjectionTypes, PostTasks, Done, Call, finalVars
<1>2. HandlerIsAt'
  BY DEF TellError, HandlerIsAt, TasksAt, Done, Call, finalVars
<1>3. CallsAreTold'
  BY DEF TellError, CallsAreTold, Done, Call
<1>4. AnswerIsTold'
  BY DEF TellError, AnswerIsTold, AnswerShown, Undisturbed, Done, Call, turnVars, finalVars, toldVars
<1>5. ErrorIsTold'
  BY DEF TellError, ErrorIsTold, Undisturbed, Told, toldVars
<1>6. WritesInOrder'
  BY QueueKept DEF TellError, Writing, Done, Call, finalVars
<1> QED
  BY <1>1, <1>2, <1>3, <1>4, <1>5, <1>6

LEMMA ProjectAttachmentKept ==
    ASSUME ProjectionIInv, ProjectAttachment
    PROVE  ProjectionIInv'
<1> USE ChunksAssumption DEF ProjectionIInv
<1>1. ProjectionTypes'
  BY DEF ProjectAttachment, ProjectionTypes, PostTasks, Call, finalVars
<1>2. HandlerIsAt'
  BY DEF ProjectAttachment, HandlerIsAt, TasksAt, Call, Event, finalVars
<1>3. CallsAreTold'
  BY DEF ProjectAttachment, CallsAreTold, Call
<1>4. AnswerIsTold'
  BY DEF ProjectAttachment, AnswerIsTold, Event
<1>5. ErrorIsTold'
  BY DEF ProjectAttachment, ErrorIsTold, Event
<1>6. WritesInOrder'
  BY QueueKept DEF ProjectAttachment, Writing, WriteTasks, HandlerFree, Call, Event, finalVars
<1> QED
  BY <1>1, <1>2, <1>3, <1>4, <1>5, <1>6

LEMMA EventProjectedKept ==
    ASSUME ProjectionIInv, EventProjected
    PROVE  ProjectionIInv'
<1> USE ChunksAssumption DEF ProjectionIInv
<1>1. ProjectionTypes'
  BY DEF EventProjected, ProjectionTypes, Done, Projected, finalVars
<1>2. HandlerIsAt'
  BY DEF EventProjected, HandlerIsAt, TasksAt, Done, Projected, finalVars
<1>3. CallsAreTold'
  BY DEF EventProjected, CallsAreTold, Done, Projected
<1>4. AnswerIsTold'
  BY DEF EventProjected, AnswerIsTold, AnswerShown, Undisturbed, Done, Projected, turnVars, finalVars,
     toldVars
<1>5. ErrorIsTold'
  BY DEF EventProjected, ErrorIsTold, Undisturbed, Told, Projected, toldVars
<1>6. WritesInOrder'
  BY QueueKept DEF EventProjected, Writing, Done, Projected, finalVars
<1> QED
  BY <1>1, <1>2, <1>3, <1>4, <1>5, <1>6

LEMMA TurnEndsKept ==
    ASSUME ProjectionIInv, TurnEnds
    PROVE  ProjectionIInv'
<1> USE ChunksAssumption DEF ProjectionIInv
<1>1. ProjectionTypes'
  BY DEF TurnEnds, ProjectionTypes, finalVars, activityVars
<1>2. HandlerIsAt'
  BY DEF TurnEnds, HandlerIsAt, TasksAt, HandlerFree, finalVars
<1>3. CallsAreTold'
  BY DEF TurnEnds, CallsAreTold, turnVars, activityVars, toldVars
<1>4. AnswerIsTold'
  BY DEF TurnEnds, AnswerIsTold
<1>5. ErrorIsTold'
  BY DEF TurnEnds, ErrorIsTold
<1>6. WritesInOrder'
  BY QueueKept DEF TurnEnds, Writing, WriteTasks, HandlerFree, finalVars, activityVars
<1> QED
  BY <1>1, <1>2, <1>3, <1>4, <1>5, <1>6

LEMMA TurnThrowsKept ==
    ASSUME ProjectionIInv, TurnThrows
    PROVE  ProjectionIInv'
<1> USE ChunksAssumption DEF ProjectionIInv
<1>1. ProjectionTypes'
  BY DEF TurnThrows, ProjectionTypes, WriteTasks, Call
<1>2. HandlerIsAt'
  BY DEF TurnThrows, ProjectionTypes, HandlerIsAt, TasksAt, Clients, HandlerFree, Call
<1>3. CallsAreTold'
  BY DEF TurnThrows, CallsAreTold, Call, turnVars, toldVars
<1>4. AnswerIsTold'
  BY DEF TurnThrows, HandlerIsAt, AnswerIsTold
<1>5. ErrorIsTold'
  BY DEF TurnThrows, HandlerIsAt, ErrorIsTold, Call
<1>6. WritesInOrder'
  BY QueueKept DEF TurnThrows, Writing, WriteTasks, HandlerFree, Call
<1> QED
  BY <1>1, <1>2, <1>3, <1>4, <1>5, <1>6

LEMMA ProjectFailureKept ==
    ASSUME ProjectionIInv, ProjectFailure
    PROVE  ProjectionIInv'
<1> USE ChunksAssumption DEF ProjectionIInv
<1>1. ProjectionTypes'
  BY DEF ProjectFailure, ProjectionTypes, WriteTasks, Call, finalVars
<1>2. HandlerIsAt'
  BY DEF ProjectFailure, HandlerIsAt, TasksAt, Call, finalVars
<1>3. CallsAreTold'
  BY DEF ProjectFailure, CallsAreTold, Call
<1>4. AnswerIsTold'
  BY DEF ProjectFailure, AnswerIsTold
<1>5. ErrorIsTold'
  BY DEF ProjectFailure, ErrorIsTold
<1>6. WritesInOrder'
  BY QueueKept DEF ProjectFailure, Writing, WriteTasks, HandlerFree, Call
<1> QED
  BY <1>1, <1>2, <1>3, <1>4, <1>5, <1>6

LEMMA TellFailureKept ==
    ASSUME ProjectionIInv, TellFailure
    PROVE  ProjectionIInv'
<1> USE ChunksAssumption DEF ProjectionIInv
<1>1. ProjectionTypes'
  BY DEF TellFailure, ProjectionTypes, PostTasks, Call, finalVars
<1>2. HandlerIsAt'
  BY DEF TellFailure, HandlerIsAt, TasksAt, Returned, Call, finalVars
<1>3. CallsAreTold'
  BY DEF TellFailure, CallsAreTold, Call
<1>4. AnswerIsTold'
  BY DEF TellFailure, HandlerIsAt, TasksAt, AnswerIsTold, Returned
<1>5. ErrorIsTold'
  BY DEF TellFailure, ErrorIsTold, Undisturbed, Told, Returned, toldVars
<1>6. WritesInOrder'
  BY QueueKept DEF TellFailure, Writing, Returned, Call, finalVars
<1> QED
  BY <1>1, <1>2, <1>3, <1>4, <1>5, <1>6

LEMMA FailureToldKept ==
    ASSUME ProjectionIInv, FailureTold
    PROVE  ProjectionIInv'
<1> USE ChunksAssumption DEF ProjectionIInv
<1>1. ProjectionTypes'
  BY DEF FailureTold, ProjectionTypes, Done, finalVars
<1>2. HandlerIsAt'
  BY DEF FailureTold, HandlerIsAt, TasksAt, Done, Returned, finalVars
<1>3. CallsAreTold'
  BY DEF FailureTold, CallsAreTold, Done
<1>4. AnswerIsTold'
  BY DEF FailureTold, HandlerIsAt, TasksAt, AnswerIsTold, Undisturbed, Returned, toldVars
<1>5. ErrorIsTold'
  BY DEF FailureTold, CallsAreTold, ErrorIsTold, Undisturbed, Told, PostTasks, Returned, toldVars
<1>6. WritesInOrder'
  BY QueueKept DEF FailureTold, Writing, Done, Returned, finalVars
<1> QED
  BY <1>1, <1>2, <1>3, <1>4, <1>5, <1>6

LEMMA BeginCompletionKept ==
    ASSUME ProjectionIInv, BeginCompletion
    PROVE  ProjectionIInv'
<1> USE ChunksAssumption DEF ProjectionIInv
<1>1. ProjectionTypes'
  BY DEF BeginCompletion, ProjectionTypes, WriteTasks, Call
<1>2. HandlerIsAt'
  BY DEF BeginCompletion, HandlerIsAt, TasksAt, Call
<1>3. CallsAreTold'
  BY DEF BeginCompletion, CallsAreTold, Call, turnVars, toldVars
<1>4. AnswerIsTold'
  BY DEF BeginCompletion, HandlerIsAt, AnswerIsTold, Undisturbed, Call
<1>5. ErrorIsTold'
  BY DEF BeginCompletion, HandlerIsAt, ErrorIsTold, Undisturbed, Told, toldVars
<1>6. WritesInOrder'
  BY QueueKept DEF BeginCompletion, Writing, WriteTasks, HandlerFree, Call
<1> QED
  BY <1>1, <1>2, <1>3, <1>4, <1>5, <1>6

LEMMA ActivityCompletedKept ==
    ASSUME ProjectionIInv, ActivityCompleted
    PROVE  ProjectionIInv'
<1> USE ChunksAssumption DEF ProjectionIInv
<1>1. ProjectionTypes'
  <2>1. left' \in Nat
    <3>1. \A c \in Chunks : c \in Nat /\ c - 1 \in Nat
      BY DEF Chunks
    <3> QED
      BY <3>1 DEF ActivityCompleted
  <2>2. /\ task' = "none" /\ result' = "none"
        /\ UNCHANGED <<client, turnEnd, sending>>
    BY DEF ActivityCompleted, Done, activityVars
  <2> QED
    BY <2>1, <2>2 DEF ProjectionTypes
<1>2. HandlerIsAt'
  BY DEF ActivityCompleted, HandlerIsAt, TasksAt, Done, Returned
<1>3. CallsAreTold'
  BY DEF ActivityCompleted, CallsAreTold, Done
<1>4. AnswerIsTold'
  <2>1. /\ task' = "none" /\ (published' <=> left' = 0)
        /\ UNCHANGED <<mention, disabled, stage, turnEnd, agentText, activity, shown, lost>>
    BY DEF ActivityCompleted, Done, turnVars, activityVars, toldVars
  <2>2. stage = "completing"
    BY DEF ActivityCompleted, Returned, HandlerIsAt, TasksAt
  <2>3. ASSUME agentText, left' = 0 PROVE activity = "final"
    <3>1. \A c \in Chunks : c \in Nat /\ c # 0
      BY DEF Chunks
    <3>2. Returned("primary", "ok")
      BY <2>3, <3>1 DEF ActivityCompleted
    <3> QED
      BY <2>3, <3>2 DEF Returned, CallsAreTold
  <2> QED
    BY <2>1, <2>2, <2>3 DEF AnswerIsTold, AnswerShown
<1>5. ErrorIsTold'
  BY DEF ActivityCompleted, ErrorIsTold, Undisturbed, Told, Returned, activityVars, toldVars
<1>6. WritesInOrder'
  BY QueueKept DEF ActivityCompleted, Writing, Done, Returned, activityVars
<1> QED
  BY <1>1, <1>2, <1>3, <1>4, <1>5, <1>6

LEMMA PublishNextKept ==
    ASSUME ProjectionIInv, PublishNext
    PROVE  ProjectionIInv'
<1> USE ChunksAssumption DEF ProjectionIInv
<1>1. ProjectionTypes'
  BY DEF PublishNext, ProjectionTypes, PostTasks, Call, finalVars
<1>2. HandlerIsAt'
  BY DEF PublishNext, HandlerIsAt, TasksAt, HandlerFree, Call, finalVars
<1>3. CallsAreTold'
  BY DEF PublishNext, CallsAreTold, Call, turnVars, toldVars
<1>4. AnswerIsTold'
  <2>1. UNCHANGED <<mention, disabled, left, published, turnEnd, agentText, activity, shown, lost>>
    BY DEF PublishNext, turnVars, finalVars, toldVars
  <2>2. stage = "completing" /\ task = "none" /\ left \in Nat
    BY DEF PublishNext, HandlerFree, ProjectionTypes
  <2>3. CASE left > 0
    <3>1. task' = "chunk" /\ stage' = stage
      BY <2>3 DEF PublishNext, Call
    <3> QED
      BY <2>1, <2>2, <2>3, <3>1 DEF AnswerIsTold, AnswerShown, Undisturbed
  <2>4. CASE left = 0
    <3>1. \/ task' \in {"recovery", "notice"} /\ stage' = stage
          \/ task' = "none" /\ stage' = "over"
      BY <2>2, <2>4 DEF PublishNext, Call
    <3> QED
      BY <2>1, <2>2, <2>4, <3>1 DEF AnswerIsTold, AnswerShown, Undisturbed
  <2> QED
    BY <2>2, <2>3, <2>4
<1>5. ErrorIsTold'
  BY DEF PublishNext, ProjectionTypes, ErrorIsTold, Undisturbed, Told, Clients, HandlerFree, toldVars
<1>6. WritesInOrder'
  BY QueueKept DEF PublishNext, Writing, WriteTasks, HandlerFree, Call, finalVars
<1> QED
  BY <1>1, <1>2, <1>3, <1>4, <1>5, <1>6

LEMMA MessagePublishedKept ==
    ASSUME ProjectionIInv, MessagePublished
    PROVE  ProjectionIInv'
<1> USE ChunksAssumption DEF ProjectionIInv
<1>1. ProjectionTypes'
  <2>1. left' \in Nat
    <3>1. left \in Nat /\ (task = "chunk" => left > 0)
      BY DEF ProjectionTypes, HandlerIsAt
    <3>2. left' = IF task = "chunk" THEN left - 1 ELSE left
      BY DEF MessagePublished
    <3> QED
      BY <3>1, <3>2
  <2>2. /\ task' = "none" /\ result' = "none"
        /\ UNCHANGED <<client, turnEnd, sending>>
    BY DEF MessagePublished, Done, activityVars
  <2> QED
    BY <2>1, <2>2 DEF ProjectionTypes
<1>2. HandlerIsAt'
  BY DEF MessagePublished, HandlerIsAt, TasksAt, Done
<1>3. CallsAreTold'
  BY DEF MessagePublished, CallsAreTold, Done
<1>4. AnswerIsTold'
  BY DEF MessagePublished, HandlerIsAt, TasksAt, CallsAreTold, AnswerIsTold, AnswerShown, Undisturbed,
     PostTasks, Done, activityVars, toldVars
<1>5. ErrorIsTold'
  BY DEF MessagePublished, ErrorIsTold, Undisturbed, Told, activityVars, toldVars
<1>6. WritesInOrder'
  BY QueueKept DEF MessagePublished, Writing, Done, activityVars
<1> QED
  BY <1>1, <1>2, <1>3, <1>4, <1>5, <1>6

LEMMA CompletionFailsKept ==
    ASSUME ProjectionIInv, CompletionFails
    PROVE  ProjectionIInv'
<1> USE ChunksAssumption DEF ProjectionIInv
<1>1. ProjectionTypes'
  BY DEF CompletionFails, ProjectionTypes, PostTasks, Done, Call, finalVars
<1>2. HandlerIsAt'
  BY DEF CompletionFails, HandlerIsAt, TasksAt, Done, Call, finalVars
<1>3. CallsAreTold'
  BY DEF CompletionFails, CallsAreTold, Done, Call
<1>4. AnswerIsTold'
  BY DEF CompletionFails, HandlerIsAt, TasksAt, CallsAreTold, AnswerIsTold, Undisturbed, PostTasks,
     finalVars, toldVars
<1>5. ErrorIsTold'
  BY DEF CompletionFails, ProjectionTypes, HandlerIsAt, TasksAt, ErrorIsTold, Undisturbed, Told,
     Clients, Call, finalVars, toldVars
<1>6. WritesInOrder'
  BY QueueKept DEF CompletionFails, Writing, Done, Call, finalVars
<1> QED
  BY <1>1, <1>2, <1>3, <1>4, <1>5, <1>6

LEMMA VisitNoticedKept ==
    ASSUME ProjectionIInv, VisitNoticed
    PROVE  ProjectionIInv'
<1> USE ChunksAssumption DEF ProjectionIInv
<1>1. ProjectionTypes'
  BY DEF VisitNoticed, ProjectionTypes, Done, finalVars, activityVars
<1>2. HandlerIsAt'
  BY DEF VisitNoticed, HandlerIsAt, TasksAt, Done, finalVars
<1>3. CallsAreTold'
  BY DEF VisitNoticed, CallsAreTold, Done
<1>4. AnswerIsTold'
  BY DEF VisitNoticed, HandlerIsAt, TasksAt, AnswerIsTold, AnswerShown, Undisturbed, turnVars,
     finalVars, activityVars, toldVars
<1>5. ErrorIsTold'
  BY DEF VisitNoticed, CallsAreTold, ErrorIsTold, Undisturbed, Told, PostTasks, toldVars
<1>6. WritesInOrder'
  BY QueueKept DEF VisitNoticed, Writing, Done, finalVars, activityVars
<1> QED
  BY <1>1, <1>2, <1>3, <1>4, <1>5, <1>6

(* The end of a write: of a heartbeat's, or of the handler's own.          *)
LEMMA WriteEndsKeeps ==
    ASSUME WritesInOrder, HandlerIsAt, NEW outcome \in {"ok", "failed"}, writes # <<>>, WriteEnds(outcome),
           UNCHANGED <<task, finalized, mention>>, disabled => disabled'
    PROVE  /\ WritesInOrder'
           /\ result' \in {result, outcome}
           /\ result' # result => Head(writes) = task /\ task \in WriteTasks /\ result = "pending"
           /\ Head(writes) # "beat" => Head(writes) = task /\ task \in WriteTasks /\ result = "pending" /\ result' = outcome
           /\ Head(writes) = "beat" => result' = result
<1> DEFINE t == IF Writing THEN task ELSE "none"
<1>1. writes \in Seq({"beat"} \cup WriteTasks) /\ InLine(writes, t)
  BY DEF WritesInOrder
<1>2. writes' = Tail(writes) /\ sending' = "none"
  BY DEF WriteEnds
<1>3. /\ Tail(writes) \in Seq({"beat"} \cup WriteTasks)
      /\ Head(writes) = "beat" => InLine(Tail(writes), t)
      /\ Head(writes) = "beat" /\ t \notin {"none", "beat"} /\ writes[Len(writes)] = t =>
            Tail(writes)[Len(Tail(writes))] = t
      /\ Head(writes) # "beat" => t # "none" /\ Head(writes) = t /\ InLine(Tail(writes), "none")
      /\ Head(writes) # "beat" /\ writes[Len(writes)] = t => Tail(writes) = <<>>
  <2> HIDE DEF t
  <2> QED
    BY <1>1, HeadGone
<1>4. "beat" \notin WriteTasks /\ "none" \notin WriteTasks
  BY DEF WriteTasks
<1>5. CASE Head(writes) = "beat"
  <2>1. result' = result /\ (Writing' <=> Writing)
    BY <1>5 DEF WriteEnds, Writing
  <2>2. InLine(writes', IF Writing' THEN task' ELSE "none")
    BY <1>2, <1>3, <1>5, <2>1
  <2>3. finalized' /\ Writing' => writes'[Len(writes')] = task'
    BY <1>2, <1>3, <1>4, <1>5, <2>1 DEF WritesInOrder, Writing
  <2>4. finalized' /\ ~Writing' /\ (mention' \/ ~disabled') => writes' = <<>>
    BY <2>1 DEF WritesInOrder
  <2> QED
    BY <1>2, <1>3, <1>5, <2>1, <2>2, <2>3, <2>4 DEF WritesInOrder
<1>6. CASE Head(writes) # "beat"
  <2>1. Writing /\ Head(writes) = task /\ InLine(writes', "none")
    BY <1>2, <1>3, <1>6
  <2>2. result' = outcome /\ ~Writing'
    BY <1>6 DEF WriteEnds, Writing
  <2>3. finalized' => writes' = <<>>
    BY <1>2, <1>3, <1>6, <2>1 DEF WritesInOrder
  <2>4. task' = "primary" => finalized'
    BY DEF HandlerIsAt, TasksAt
  <2> QED
    BY <1>2, <1>3, <1>6, <2>1, <2>2, <2>3, <2>4 DEF WritesInOrder, Writing
<1> QED
  BY <1>5, <1>6

(* Which write is sent.                                                    *)
LEMMA PrimaryIsFinal ==
    ASSUME writes # <<>>, Head(writes) = "primary"
    PROVE  WriteText = IF HasAnswer THEN "final" ELSE "none"
  BY DEF WriteText

LEMMA WriteTextTyped == WriteText \in Texts
<1>1. Rendered \in Texts
  BY DEF Rendered, Texts
<1>2. WriteText \in {"none", "collapsed", "final", Rendered}
  <2>1. CASE disabled /\ Head(writes) # "primary"
    BY <2>1 DEF WriteText
  <2>2. CASE Head(writes) \in {"collapse", "primary", "abandon"}
    BY <2>2 DEF WriteText
  <2>3. CASE ~(disabled /\ Head(writes) # "primary") /\ Head(writes) \notin {"collapse", "primary", "abandon"}
    BY <2>3 DEF WriteText
  <2> QED
    BY <2>1, <2>2, <2>3
<1> QED
  BY <1>1, <1>2 DEF Texts

(* An activity message that says the answer keeps saying it: the writes    *)
(* before it have ended, and none comes after it.                          *)
LEMMA NoWriteAfterTheAnswer ==
    ASSUME ProjectionIInv, writes # <<>>, Undisturbed, turnEnd = "normally",
           stage \in {"completing", "over"}, published
    PROVE  FALSE
<1>1. finalized /\ Writing
  BY DEF ProjectionIInv, HandlerIsAt, WritesInOrder, Undisturbed
<1>2. stage = "completing" /\ task \in {"collapse", "primary", "abandon"}
  BY <1>1 DEF ProjectionIInv, HandlerIsAt, TasksAt, Writing, WriteTasks
<1> QED
  BY <1>2 DEF ProjectionIInv, AnswerIsTold

(* What the writes of the activity message leave as it is.                 *)
LEMMA WriteStepKeeps ==
    ASSUME ProjectionIInv, writes # <<>>, lost => lost', disabled => disabled',
           UNCHANGED <<client, mention, stage, task, attempted, turnEnd, turnVars, finalVars, shown>>
    PROVE  HandlerIsAt' /\ AnswerIsTold' /\ ErrorIsTold'
<1>1. HandlerIsAt'
  BY DEF ProjectionIInv, HandlerIsAt, TasksAt, finalVars
<1>2. Undisturbed' => Undisturbed
  BY DEF Undisturbed
<1>3. ErrorIsTold'
  BY <1>2 DEF ProjectionIInv, ErrorIsTold, Told, finalVars
<1>4. AnswerIsTold'
  BY <1>2, NoWriteAfterTheAnswer DEF ProjectionIInv, AnswerIsTold, AnswerShown, turnVars, finalVars
<1> QED
  BY <1>1, <1>3, <1>4

LEMMA WriteBeginsKept ==
    ASSUME ProjectionIInv, WriteBegins
    PROVE  ProjectionIInv'
<1>1. /\ UNCHANGED <<client, mention, stage, task, attempted, turnEnd, turnVars, finalVars, disabled>>
      /\ UNCHANGED <<shown, lost>> /\ writes # <<>> /\ sending = "none"
  BY DEF WriteBegins, toldVars
<1>2. HandlerIsAt' /\ AnswerIsTold' /\ ErrorIsTold'
  BY <1>1, WriteStepKeeps
<1>3. CASE WriteText # "none" /\ sending' = WriteText /\ UNCHANGED <<writes, result, activity>>
  <2>1. ProjectionTypes'
    BY <1>1, <1>3, WriteTextTyped DEF ProjectionIInv, ProjectionTypes, finalVars
  <2>2. Writing' <=> Writing
    BY <1>1, <1>3 DEF Writing
  <2>3. sending' # "none" /\ Head(writes') = "primary" /\ agentText' => sending' = "final"
    BY <1>1, <1>3, PrimaryIsFinal DEF HasAnswer, turnVars
  <2>4. WritesInOrder'
    BY <1>1, <1>3, <2>2, <2>3 DEF ProjectionIInv, WritesInOrder, finalVars
  <2>5. CallsAreTold'
    BY <1>1, <1>3 DEF ProjectionIInv, CallsAreTold, turnVars
  <2> QED
    BY <1>2, <2>1, <2>4, <2>5 DEF ProjectionIInv
<1>4. CASE /\ WriteText = "none" \/ WriteText = posted \/ (WriteText = "final" /\ posted = "text")
           /\ activity' = IF WriteText = "final" THEN WriteText ELSE activity
           /\ WriteEnds("ok")
  <2>1. /\ WritesInOrder' /\ result' \in {result, "ok"}
        /\ result' # result => Head(writes) = task /\ task \in WriteTasks
    BY <1>1, <1>4, WriteEndsKeeps DEF ProjectionIInv, finalVars
  <2>2. task \in WriteTasks => task # "none" /\ task \notin PostTasks
    BY DEF WriteTasks, PostTasks
  <2>3. sending' = "none"
    BY <1>4 DEF WriteEnds
  <2>4. ProjectionTypes'
    BY <1>1, <2>1, <2>2, <2>3 DEF ProjectionIInv, ProjectionTypes, finalVars, Texts
  <2>5. ASSUME task = "primary", result' = "ok", agentText PROVE activity' = "final"
    <3>1. CASE result' = result
      BY <1>4, <2>5, <3>1 DEF ProjectionIInv, CallsAreTold
    <3>2. CASE result' # result
      BY <1>1, <1>4, <2>1, <2>5, <3>2, PrimaryIsFinal DEF HasAnswer
    <3> QED
      BY <3>1, <3>2
  <2>6. CallsAreTold'
    BY <1>1, <2>1, <2>2, <2>5 DEF ProjectionIInv, CallsAreTold, turnVars
  <2> QED
    BY <1>2, <2>1, <2>4, <2>6 DEF ProjectionIInv
<1> QED
  BY <1>3, <1>4 DEF WriteBegins

LEMMA WriteTakenKept ==
    ASSUME ProjectionIInv, WriteTaken
    PROVE  ProjectionIInv'
<1>1. /\ UNCHANGED <<client, mention, stage, task, attempted, turnEnd, turnVars, finalVars, disabled>>
      /\ UNCHANGED <<shown, lost>> /\ writes # <<>> /\ sending # "none" /\ activity' = sending /\ WriteEnds("ok")
  BY DEF WriteTaken, toldVars, ProjectionIInv, WritesInOrder
<1>2. HandlerIsAt' /\ AnswerIsTold' /\ ErrorIsTold'
  BY <1>1, WriteStepKeeps
<1>3. /\ WritesInOrder' /\ result' \in {result, "ok"}
      /\ result' # result => Head(writes) = task /\ task \in WriteTasks
      /\ Head(writes) = "beat" => result' = result
      /\ Head(writes) # "beat" => Head(writes) = task
  BY <1>1, WriteEndsKeeps DEF ProjectionIInv, finalVars
<1>4. task \in WriteTasks => task # "none" /\ task \notin PostTasks
  BY DEF WriteTasks, PostTasks
<1>5. sending' = "none"
  BY <1>1 DEF WriteEnds
<1>6. ProjectionTypes'
  BY <1>1, <1>3, <1>4, <1>5 DEF ProjectionIInv, ProjectionTypes, finalVars, Texts
<1>7. ASSUME task = "primary", agentText, result' = "ok" PROVE activity' = "final"
  <2>1. CASE Head(writes) = "beat"
    <3>1. ~Writing
      BY <1>3, <1>7, <2>1 DEF Writing
    <3> QED
      BY <1>1, <1>7, <3>1 DEF ProjectionIInv, WritesInOrder
  <2>2. CASE Head(writes) # "beat"
    BY <1>1, <1>3, <1>7, <2>2 DEF ProjectionIInv, WritesInOrder
  <2> QED
    BY <2>1, <2>2
<1>8. CallsAreTold'
  BY <1>1, <1>3, <1>4, <1>7 DEF ProjectionIInv, CallsAreTold, turnVars
<1> QED
  BY <1>2, <1>3, <1>6, <1>8 DEF ProjectionIInv

LEMMA WriteFailsKept ==
    ASSUME ProjectionIInv, WriteFails
    PROVE  ProjectionIInv'
<1>1. /\ UNCHANGED <<client, mention, stage, task, attempted, turnEnd, turnVars, finalVars, shown>>
      /\ writes # <<>> /\ (disabled => disabled') /\ WriteEnds("failed")
      /\ lost' = (lost \/ Head(writes) = "primary")
  BY DEF WriteFails, ProjectionIInv, WritesInOrder
<1>2. HandlerIsAt' /\ AnswerIsTold' /\ ErrorIsTold'
  BY <1>1, WriteStepKeeps
<1>3. /\ WritesInOrder' /\ result' \in {result, "failed"}
      /\ result' # result => Head(writes) = task /\ task \in WriteTasks
      /\ Head(writes) = "beat" => result' = result
      /\ Head(writes) # "beat" => Head(writes) = task /\ result' = "failed"
  BY <1>1, WriteEndsKeeps DEF ProjectionIInv, finalVars
<1>4. task \in WriteTasks => task # "none" /\ task \notin PostTasks
  BY DEF WriteTasks, PostTasks
<1>5. sending' = "none"
  BY <1>1 DEF WriteEnds
<1>6. ProjectionTypes'
  BY <1>1, <1>3, <1>4, <1>5 DEF ProjectionIInv, ProjectionTypes, finalVars, Texts
<1>7. ASSUME task = "primary", result' = "ok" PROVE FALSE
  <2>1. result = "ok" /\ ~Writing
    BY <1>3, <1>7 DEF Writing
  <2> QED
    BY <1>1, <1>7, <2>1 DEF ProjectionIInv, WritesInOrder
<1>8. CallsAreTold'
  BY <1>1, <1>3, <1>4, <1>7 DEF ProjectionIInv, CallsAreTold
<1> QED
  BY <1>2, <1>3, <1>6, <1>8 DEF ProjectionIInv

LEMMA UnchangedKept ==
    ASSUME ProjectionIInv, UNCHANGED <<handlerVars, turnVars, finalVars, disabled, sending, activity, toldVars>>
    PROVE  ProjectionTypes' /\ HandlerIsAt' /\ CallsAreTold' /\ AnswerIsTold' /\ ErrorIsTold'
<1> USE DEF handlerVars, turnVars, finalVars, toldVars, ProjectionIInv
<1>1. ProjectionTypes'
  BY DEF ProjectionTypes
<1>2. HandlerIsAt'
  BY DEF HandlerIsAt, TasksAt
<1>3. CallsAreTold'
  BY DEF CallsAreTold
<1>4. AnswerIsTold'
  BY DEF AnswerIsTold, Undisturbed, AnswerShown
<1>5. ErrorIsTold'
  BY DEF ErrorIsTold, Undisturbed, Told
<1> QED
  BY <1>1, <1>2, <1>3, <1>4, <1>5

LEMMA HeartbeatFiresKept ==
    ASSUME ProjectionIInv, HeartbeatFires
    PROVE  ProjectionIInv'
<1>1. UNCHANGED <<handlerVars, turnVars, finalVars, disabled, sending, activity, toldVars>>
  BY DEF HeartbeatFires
<1>2. ProjectionTypes' /\ HandlerIsAt' /\ CallsAreTold' /\ AnswerIsTold' /\ ErrorIsTold'
  BY <1>1, UnchangedKept DEF ProjectionIInv
<1>3. Writing' <=> Writing
  BY <1>1 DEF Writing, handlerVars
<1>4. CASE writes' = writes
  BY <1>1, <1>3, <1>4, <1>2 DEF ProjectionIInv, WritesInOrder, handlerVars, turnVars, finalVars
<1>5. CASE ~finalized /\ writes' = Append(writes, "beat")
  <2> DEFINE t == IF Writing THEN task ELSE "none"
  <2>1. writes \in Seq({"beat"} \cup WriteTasks) /\ InLine(writes, t)
    BY DEF ProjectionIInv, WritesInOrder
  <2>2. /\ writes' \in Seq({"beat"} \cup WriteTasks) /\ InLine(writes', t)
        /\ writes # <<>> => Head(writes') = Head(writes)
        /\ writes' # <<>>
    <3> HIDE DEF t
    <3> QED
      BY <1>5, <2>1, BeatAppended
  <2>3. task # "primary"
    BY <1>5 DEF ProjectionIInv, HandlerIsAt, TasksAt
  <2> QED
    BY <1>1, <1>2, <1>3, <1>5, <2>2, <2>3
       DEF ProjectionIInv, WritesInOrder, handlerVars, turnVars, finalVars
<1> QED
  BY <1>4, <1>5 DEF HeartbeatFires

LEMMA ProjectionHoldsAtFirst == ProjectionInit => ProjectionIInv
<1> SUFFICES ASSUME ProjectionInit PROVE ProjectionIInv
  OBVIOUS
<1>1. /\ client \in Clients /\ task = "none" /\ result = "none" /\ turnEnd = "no" /\ writes = <<>>
      /\ stage = (IF client = "message" THEN "accepting" ELSE "streaming")
      /\ attempted = (client # "message") /\ left = 0 /\ sending = "none"
      /\ ~finalized /\ ~published
  BY DEF ProjectionInit
<1>2. ProjectionTypes /\ HandlerIsAt /\ CallsAreTold /\ AnswerIsTold /\ ErrorIsTold
  BY <1>1 DEF ProjectionTypes, HandlerIsAt, TasksAt, CallsAreTold, AnswerIsTold, ErrorIsTold, Texts, 
              Clients
<1>3. <<>> \in Seq({"beat"} \cup WriteTasks) /\ Len(<<>>) = 0
  OBVIOUS
<1>4. WritesInOrder
  BY <1>1, <1>3 DEF WritesInOrder, InLine, Writing
<1> QED
  BY <1>2, <1>4 DEF ProjectionIInv

LEMMA ProjectionIsKept ==
    ASSUME ProjectionIInv, [ProjectionNext]_projectionVars
    PROVE  ProjectionIInv'
<1>1. CASE UNCHANGED projectionVars
  <2>1. UNCHANGED <<handlerVars, turnVars, finalVars, disabled, writes, sending, activity, toldVars>>
    BY <1>1 DEF projectionVars, activityVars
  <2>2. WritesInOrder'
    BY <2>1 DEF ProjectionIInv, WritesInOrder, Writing, handlerVars, turnVars, finalVars
  <2> QED
    BY <2>1, <2>2, UnchangedKept DEF ProjectionIInv
<1> QED
  BY <1>1, WriteBeginsKept, WriteTakenKept, WriteFailsKept, HeartbeatFiresKept, PostEndsKept,
     AcceptMessageKept, MessageAcceptedKept, PrepareTurnKept, ProjectProgressKept, ProjectErrorKept,
     TellErrorKept, ProjectAttachmentKept, EventProjectedKept, TurnEndsKept, TurnThrowsKept,
     ProjectFailureKept, TellFailureKept, FailureToldKept, BeginCompletionKept, ActivityCompletedKept,
     PublishNextKept, MessagePublishedKept, CompletionFailsKept, VisitNoticedKept DEF ProjectionNext

(* A turn that is over has been told in its thread: of a turn that ended   *)
(* normally with an answer, all of it unless a call that carried a part    *)
(* of it failed, and of a turn that threw, that it threw (complete and     *)
(* projectError of slack/projector.ts, and the three handlers).            *)
THEOREM TurnsAreTold == ProjectionSpec => []TurnIsTold
<1>1. ProjectionIInv => TurnIsTold
  BY DEF ProjectionIInv, AnswerIsTold, ErrorIsTold, AnswerShown, Told, Undisturbed, TurnIsTold
<1> QED
  BY <1>1, ProjectionHoldsAtFirst, ProjectionIsKept, PTL DEF ProjectionSpec

============================================================================
