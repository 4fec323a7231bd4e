--------------------------- MODULE TennisCommands ---------------------------
(***************************************************************************)
(* The commands of tennis/cmd that work on files, each of which has a      *)
(* session of its own: the fetchers over the caches they share, the join   *)
(* of the odds, the searches for the best tuning, and the adjustment of a  *)
(* player that all of them and the projections rest on.                    *)
(***************************************************************************)
EXTENDS PlayerFetch, OddsJoin, FormCalibration

fetchVars == vars
commandVars == <<fetchVars, joinVars, formVars, calibrationVars>>

FetchIdle == pc = "idle" /\ tool = "none" /\ \A k \in Keys : cache[k] = "empty"

CommandsInit ==
  /\ Init
  /\ \/ JoinIdle /\ calibrationIdle /\ adjustIdle
     \/ FetchIdle /\ JoinInit /\ calibrationIdle /\ adjustIdle
     \/ FetchIdle /\ JoinIdle /\ calibrationInit /\ adjustIdle
     \/ FetchIdle /\ JoinIdle /\ calibrationIdle /\ adjustInit

Fetching == joinExit = NotJoined /\ search = "none" /\ profile.kind = "none"

FetchSession == Fetching /\ Next /\ UNCHANGED <<joinVars, formVars, calibrationVars>>
JoinSession == JoinNext /\ UNCHANGED <<fetchVars, formVars, calibrationVars>>
SearchSession == calibrationNext /\ UNCHANGED <<fetchVars, joinVars, formVars>>
AdjustSession == AdjustNext /\ UNCHANGED <<fetchVars, joinVars, calibrationVars>>

CommandsNext == FetchSession \/ JoinSession \/ SearchSession \/ AdjustSession

\* The steps of a command that runs; what it waits for answers or times out,
\* the simulations of a point come to an end, and some goroutine of the search
\* that can go on does.  Nothing makes a user start a command, or kill it.
CommandStep ==
  \/ Fetching /\ Step /\ UNCHANGED <<joinVars, formVars, calibrationVars>>
  \/ JoinSession
  \/ SearchSession

CommandsSpec ==
  CommandsInit /\ [][CommandsNext]_commandVars /\ WF_commandVars(CommandStep)

\* Every command that was started ends: each run of a fetcher, the join, and
\* the search, whichever of its goroutines failed while the others waited.
CommandRuns == pc # "idle" \/ joinExit = Joining \/ searchExit = Searching
CommandsEnd == CommandRuns ~> ~CommandRuns
=============================================================================
