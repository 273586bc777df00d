------------------------------ MODULE RunInputs ------------------------------
(***************************************************************************)
(* What starts a run and what it is given: the schedule's children         *)
(* (Recurrence), the curated document they join (AcyclicCheck), and the    *)
(* context a run is compiled from (Context).  `topic` picks, once, which   *)
(* of them a behaviour is about; they share no state, so a server that     *)
(* does all three behaves as one with each.  Of the context it picks the   *)
(* files, which change while the read loop handles a few messages, or the  *)
(* talk, of all the listener's tasks at once, while they do not.           *)
(***************************************************************************)
EXTENDS AcyclicCheck, Recurrence, Context

CONSTANT MaxHeard  \* bound: messages said while files change

ASSUME RunInputsAssumption == MaxHeard \in Nat

VARIABLE topic

inputVars == <<checkVars, recurrenceVars, contextVars, topic>>

Init == CheckInit /\ RecurrenceInit /\ ContextInit /\ topic \in {"schedule", "curation", "files", "talk"}

Files == Edit \/ (\E e \in Errands : Errand(e)) \/ (\E x \in Sessions : Talk(x))
         \/ (Listen(ReadLoop) /\ said' <= MaxHeard)

Speech == (\E h \in Handlers : Listen(h)) \/ (\E x \in Sessions : Talk(x))

Next ==
  /\ UNCHANGED topic
  /\ \/ topic = "curation" /\ CheckNext /\ UNCHANGED <<recurrenceVars, contextVars>>
     \/ topic = "schedule" /\ RecurrenceNext /\ UNCHANGED <<checkVars, contextVars>>
     \/ topic = "files" /\ Files /\ UNCHANGED <<checkVars, recurrenceVars>>
     \/ topic = "talk" /\ Speech /\ UNCHANGED <<checkVars, recurrenceVars>>

Spec == Init /\ [][Next]_inputVars
=============================================================================
