--------------------------- MODULE MCInteractions ---------------------------
(***************************************************************************)
(* People and the gateway, for TLC: the messages that start turns, a       *)
(* question, the approval of an exact Git plan, the progress and the       *)
(* answer of a turn, and the settings saved in the admin UI.  `part` says  *)
(* which of these a behaviour runs; the others keep their initial state.   *)
(***************************************************************************)
EXTENDS ChoiceRequests, GitApprovals, SlackProjection, SlackEvents,
        AdminConfig, TLC

CONSTANTS
    H1, H2, T1, T2, V,
    MaxInputs,      \* bound on the questions and clicks of a Git turn together
    MaxLate         \* bound on its questions whose deadline passes

VARIABLE part

interactionVars == <<choiceVars, gitVars, projectionVars, eventVars, adminVars, part>>

Plain == [f \in Fields |-> CASE f = Scope -> "channel" [] f = ChoiceMode -> "off"
                               [] f = Retired -> Absent [] OTHER -> V]

(* Each setting the form changes by itself is there in one of them: a      *)
(* session, the choice mode with a padded text, the retired setting.       *)
Chosen ==
    {[Plain EXCEPT ![Retired] = V],
     [Plain EXCEPT ![ChoiceMode] = "ordinary_top_choice", !["persona"] = Padded],
     [Plain EXCEPT ![Session] = Absent, ![Scope] = "slack_thread"]}

InteractionsInit ==
    /\ part \in {"choice", "git", "slack", "event", "admin"}
    /\ ChoiceInit /\ (part = "choice" \/ (kind = "native" /\ asked = 1))
    /\ GitInit
    /\ ProjectionInit /\ (part = "slack" \/ client = "delegation")
    /\ EventInit
    /\ canonical \in (IF part = "admin" THEN Chosen ELSE {Plain}) /\ AdminInit

(* No definition tells two handlers apart: the first is used first.        *)
ChoiceStep == ChoiceNext /\ (handler'[H2].at # "idle" => handler'[H1].at # "idle")

GitStep ==
    /\ GitNext /\ Cardinality(gitLate') <= MaxLate
    /\ Cardinality({a \in Asks : input'[a].at # "none"})
         + Cardinality({h \in Clicks : click'[h].at # "idle"}) <= MaxInputs

(* The two tabs are alike; an author changes one setting, or the scope and *)
(* the session.                                                            *)
AdminStep ==
    /\ AdminNext /\ (put[T1] = "none" => put'[T2] = "none")
    /\ \A t \in Tabs : Touched(t)' \subseteq {Scope, Session} \/ Cardinality(Touched(t)') <= 1

InteractionsNext ==
    /\ UNCHANGED part
    /\ \/ part = "choice" /\ ChoiceStep
          /\ UNCHANGED <<gitVars, projectionVars, eventVars, adminVars>>
       \/ part = "git" /\ GitStep
          /\ UNCHANGED <<choiceVars, projectionVars, eventVars, adminVars>>
       \/ part = "slack" /\ ProjectionNext
          /\ UNCHANGED <<choiceVars, gitVars, eventVars, adminVars>>
       \/ part = "event" /\ EventNext
          /\ UNCHANGED <<choiceVars, gitVars, projectionVars, adminVars>>
       \/ part = "admin" /\ AdminStep
          /\ UNCHANGED <<choiceVars, gitVars, projectionVars, eventVars>>

InteractionsSpec == InteractionsInit /\ [][InteractionsNext]_interactionVars

(* No definition tells two of them apart.                                  *)
Alike == Permutations(Asks) \cup Permutations(Plans) \cup Permutations(Clicks)
=============================================================================
