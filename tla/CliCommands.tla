---------------------------- MODULE CliCommands ----------------------------
(***************************************************************************)
(* The commands of cli.py that this directory does not model in            *)
(* LoopCommands: status and run.  One works on the state directory, the    *)
(* other on the vault; so a behaviour has either the one or the other.     *)
(***************************************************************************)
EXTENDS LoopReports, TaskEngine

cliVars == <<vars, engineVars>>

CliInit == Init /\ EngineInit

CliNext ==
    \/ Started = {} /\ Next /\ UNCHANGED engineVars
    \/ stored = [t \in Tasks |-> "none"] /\ report = NoReport /\ ~running
       /\ EngineNext /\ UNCHANGED vars

CliSpec == CliInit /\ [][CliNext]_cliVars
=============================================================================
