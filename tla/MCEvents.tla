------------------------------- MODULE MCEvents -------------------------------
(***************************************************************************)
(* The instances of two parts of the life of an event: what becomes of the *)
(* purchases of a cancelled one (EventResolution), and its dates, edits    *)
(* and rescheduling (EventDates).  Each keeps its own abstraction of the   *)
(* event, so a behaviour of the run is a behaviour of one of them (part,   *)
(* chosen at the start): the other one rests, and its fairness asks        *)
(* nothing while it does.                                                  *)
(***************************************************************************)
EXTENDS EventResolution, EventDates

VARIABLE part

eventsVars == <<resolutionVars, eventDatesVars, part>>

Parts == {"resolution", "dates"}

(* One ticket for the only purchase of the cancelled event.                *)
MCQuantity == [p \in Purchases |-> 1]

EventsInit == part \in Parts /\ ResolutionInit /\ EventDatesInit

EventsNext ==
  \/ part = "resolution" /\ UNCHANGED <<eventDatesVars, part>> /\ ResolutionNext
  \/ part = "dates"      /\ UNCHANGED <<resolutionVars, part>> /\ EventDatesNext

EventsFairness == WF_resolutionVars(part = "resolution" /\ ReleaseClosed)

EventsSpec == EventsInit /\ [][EventsNext]_eventsVars /\ EventsFairness
===============================================================================
