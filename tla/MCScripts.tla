----------------------------- MODULE MCScripts ------------------------------
(***************************************************************************)
(* The project's Python tools in one run: a behaviour is one invocation of *)
(* a tool that judges a build (MCTools) or of a script that drives another *)
(* machine (MCBoard).                                                      *)
(***************************************************************************)
EXTENDS MCTools, MCBoard

scriptVars == <<toolsVars, boardVars>>

NoTool == NoArch /\ NoHosted /\ NoNative /\ NoUki
NoScript == NoDeploy /\ NoNetboot /\ NoVideo /\ NoSelfHost /\ NoPush /\ NoCore

ScriptsInit == ToolsInit /\ BoardInit
ScriptsNext == (NoScript /\ ToolsNext) \/ (NoTool /\ BoardNext)

\* Every command the hosted ladder runs has a timeout, and so has every wait of
\* the scripts for the machine they drive.
ScriptsSpec ==
  /\ ScriptsInit
  /\ [][ScriptsNext]_scriptVars
  /\ WF_hostVars(NoScript /\ HostedRuns)
  /\ WF_boardVars(NoTool /\ ScriptSteps)

-----------------------------------------------------------------------------
Running ==
  \/ hostPc = "control" \/ dpPc = "wait" \/ nbPc = "run" \/ bvPc \notin {"idle", "done"}
  \/ shPc = "repl" \/ puPc = "nudge" \/ csPc \notin {"idle", "done"}

\* A netboot script that a session waits for ends with the session.
HasEnded ==
  \/ hostPc = "done" \/ dpPc = "done" \/ (bvPc = "idle" /\ nbPc = "done") \/ bvPc = "done"
  \/ shPc \in {"done", "raised"} \/ puPc = "done" \/ csPc = "done"

\* Every invocation comes to an exit status, whatever the processes it grades
\* and the machine it drives do: each wait has a limit, each loop its tries, and
\* a pool of workers is never of width zero.
ScriptsEnd == Running ~> HasEnded
=============================================================================
