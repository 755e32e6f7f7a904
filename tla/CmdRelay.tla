------------------------------ MODULE CmdRelay ------------------------------
(***************************************************************************)
(* What hyu_cmd_selector promises the vehicle about /vehicle/cmd: a relay  *)
(* of one selected command source, not a resampler.  While a source stays  *)
(* selected, each of its messages is forwarded once, as it arrives; when   *)
(* it becomes selected, its latest message is forwarded once more.  Which  *)
(* source is selected, and when, is left open.                             *)
(***************************************************************************)
EXTENDS Integers

CONSTANT Sources   \* the controllers whose commands are forwarded

VARIABLES
  selected,  \* the source selected, "BRAKE" or, at first, "none"
  waiting,   \* waiting[s]: the latest message of s has not been forwarded
  beat       \* alternates with each message forwarded

relayVars == <<selected, waiting, beat>>

RelayInit ==
  /\ selected = "none"
  /\ waiting = [s \in Sources |-> FALSE]
  /\ beat = 0

\* Source t is selected while w is waiting.
Select(w, t) ==
  /\ selected' = t
  /\ waiting' = [w EXCEPT ![t] = FALSE]
  /\ beat' = IF t # selected \/ w[t] THEN 1 - beat ELSE beat

\* The selector's own brake is no source's message.
Brake(w) ==
  /\ selected' = "BRAKE"
  /\ waiting' = w
  /\ UNCHANGED beat

Relay(w) == Brake(w) \/ \E t \in Sources : Select(w, t)

Arrive(s) == Relay([waiting EXCEPT ![s] = TRUE])

RelayNext == Relay(waiting) \/ \E s \in Sources : Arrive(s)

RelaySpec == RelayInit /\ [][RelayNext]_relayVars

=============================================================================
