--------------------------- MODULE StarterInterlock ---------------------------
(***************************************************************************)
(* What the engine controller promises about the starter motor, without    *)
(* its sequences, timers, tasks and locks: an engagement is never longer   *)
(* than Limit, and a request engages it at most MaxEngagements times.      *)
(* EngineCtrl implements this specification.                               *)
(***************************************************************************)
EXTENDS Naturals

CONSTANTS Limit,          \* the longest engagement
          MaxEngagements  \* engagements per request

VARIABLES engaged,     \* the starter relay is closed
          held,        \* for how long it has been
          engagements  \* how often since the last request

starterVars == <<engaged, held, engagements>>

StarterInit == engaged = FALSE /\ held = 0 /\ engagements = 0

\* A request for a start is accepted, with the starter at rest.
Request == ~engaged /\ engagements' = 0 /\ UNCHANGED <<engaged, held>>

Engage ==
  /\ ~engaged /\ engagements < MaxEngagements
  /\ engaged' = TRUE /\ held' = 0 /\ engagements' = engagements + 1

Crank == engaged /\ held < Limit /\ held' = held + 1 /\ UNCHANGED <<engaged, engagements>>

Release == engaged' = FALSE /\ held' = 0 /\ UNCHANGED engagements

StarterNext == Request \/ Engage \/ Crank \/ Release

StarterSpec == StarterInit /\ [][StarterNext]_starterVars
=============================================================================
