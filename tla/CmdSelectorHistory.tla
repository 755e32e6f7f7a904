------------------------- MODULE CmdSelectorHistory -------------------------
(***************************************************************************)
(* CmdSelector with a history of how long TMPC has been fit to drive,      *)
(* computed from the inputs of each evaluation and never from the policy's *)
(* own dwell, episode and fault bookkeeping.                               *)
(***************************************************************************)
EXTENDS CmdSelector

\* The planning state machine is the only publisher of /planning/state.
ASSUME PlanningStatesAssumption == PlanningStates \subseteq {"LOCAL", "GLOBAL", "STOP"}

VARIABLE earned  \* ticks every evaluation has found TMPC fit to take over, or -1

historyVars == <<vars, earned>>

HistoryInit == Init /\ earned = -1

FitToTakeOver(p, t) ==
  /\ SafetyInputsFresh /\ ~StopRequested /\ planning.value = "GLOBAL"
  /\ TmpcReady(t) /\ ~Disagrees(p, t)

Earns(p, t) == earned' = IF ~FitToTakeOver(p, t) THEN -1 ELSE IF earned < 0 THEN 0 ELSE earned

HistoryNext ==
  \/ /\ \/ \E v \in PlanningStates : OnPlanningState(v)
        \/ \E v \in BOOLEAN : OnStopRequest(v) \/ OnTmpcValid(v)
     /\ UNCHANGED earned
  \/ \E c \in LocalCommands : OnLocalCommand(c) /\ Earns(Received(c), tmpc)
  \/ \E c \in TmpcCommands : OnTmpcCommand(c) /\ Earns(pp, Received(c))
  \/ OnTimer /\ Earns(pp, tmpc)
  \/ Tick /\ earned' = IF earned < 0 THEN -1 ELSE Older(earned, ReadyDwell)

HistorySpec == HistoryInit /\ [][HistoryNext]_historyVars

HistoryTypeOK == TypeOK /\ earned \in -1..ReadyDwell

\* TMPC takes /vehicle/cmd over, or takes it back after a fault, a stop, a lost input or
\* a return to LOCAL, only when every evaluation of a whole dwell found it ready, in
\* agreement with Pure Pursuit and wanted (suspendTmpc, resetGlobalEpisode, the dwell).
TakeoverEarned ==
  [][~policy.active /\ policy'.active => earned' >= ReadyDwell]_historyVars

-----------------------------------------------------------------------------
(* Values a run gives the constants.                                         *)

AnyPpCommand == [finite : BOOLEAN, steer : {0}]
AnyTmpcCommand == [finite : {TRUE}, steer : {0, 2}] \cup [finite : {FALSE}, steer : {0}]

=============================================================================
