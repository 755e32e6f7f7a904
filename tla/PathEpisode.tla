---------------------------- MODULE PathEpisode ----------------------------
(***************************************************************************)
(* What every consumer of /planning/global_waypoints promises, however it  *)
(* keeps its books: a false or lapsed /planning/global_path_valid ends the *)
(* episode, and then a true heartbeat alone never brings a path back; only *)
(* a snapshot received after the end of the episode does.                  *)
(***************************************************************************)
EXTENDS Naturals

CONSTANT Paths   \* the published paths, numbered; 0 is none

VARIABLES
  held,  \* the last path received since the last episode ended, or 0
  live   \* in an episode: the last heartbeat was true and has not lapsed

episodeVars == <<held, live>>

EpisodeInit == held = 0 /\ live = FALSE

\* A path is received; a lapse may be noticed on the occasion.
Receive == held' \in Paths /\ live' \in {live, FALSE}

\* A true heartbeat; a lapse before it may be noticed on the occasion.
Beat == held' \in {held, 0} /\ live' = TRUE

\* A false heartbeat, or a lapse.
End == held' = 0 /\ live' = FALSE

EpisodeNext == Receive \/ Beat \/ End

EpisodeSpec == EpisodeInit /\ [][EpisodeNext]_episodeVars

=============================================================================
