------------------------------ MODULE MCBoard -------------------------------
(***************************************************************************)
(* The scripts that drive another machine over a line.  A behaviour is one *)
(* invocation: of deploy-kernel.py, of a netboot script                    *)
(* by itself, of board-video.py (which invokes the netboot script), of     *)
(* self-host-gen1.py, of push-serial.py, of qsave.py or of qcore.py.       *)
(***************************************************************************)
EXTENDS Deploy, BoardVideo, SelfHost, SerialPush, CoreSave

\* An empty image, one byte, a byte whose loss or doubling keeps small sums,
\* and one longer than a chunk.
MCImages == {<<>>, <<255>>, <<1, 1>>, <<7, 0, 250>>}
MCByte == {0, 7, 255}
\* What the board's old program may print between the port's opening and the
\* reset: nothing, or the ready line of an earlier reset.
MCStale == {<<>>, <<"RDY">>, <<"BOOT", "RDY", "NL">>}
MCClips == <<"bars", "testsrc">>

\* A plain form; one whose string holds a parenthesis, an escaped quote and a
\* semicolon, after a comment that holds the like; and one with a comment and a
\* line break inside and a comment after it.
Of(kind, text) == [kind |-> kind, text |-> text]
Open == Of("open", <<"(">>)
Close == Of("close", <<")">>)
Atom == Of("atom", <<"a">>)
Space == Of("white", <<"S">>)
NewLine == Of("white", <<"N">>)
MCPieces ==
  {[before |-> <<>>, form |-> <<Open, Atom, Close>>, after |-> <<>>],
   [before |-> <<Of("comment", <<"C", "(", "Q", "N">>)>>,
    form |-> <<Open, Of("string", <<"Q", ")", "B", "Q", "C", "Q">>), Close>>,
    after |-> <<NewLine>>],
   [before |-> <<Space>>,
    form |-> <<Open, Atom, Of("comment", <<"C", ")", "N">>), Space, Open, Atom, Close, Close>>,
    after |-> <<Of("comment", <<"C", "(", "N">>)>>]}
MCSources == {<<>>} \cup {<<p>> : p \in MCPieces} \cup (MCPieces \X MCPieces)
             \cup {<<p, p, p>> : p \in MCPieces}

BoardInit == DeployInit /\ NetbootInit /\ VideoInit /\ SelfHostInit /\ PushInit /\ CoreInit

NoDeploy == dpPc = "idle" /\ UNCHANGED dpVars
NoNetboot == nbPc = "idle" /\ UNCHANGED nbVars
NoVideo == bvPc = "idle" /\ UNCHANGED bvVars
NoSelfHost == shPc = "idle" /\ UNCHANGED shVars
NoPush == puPc = "idle" /\ UNCHANGED puVars
NoCore == csPc = "idle" /\ UNCHANGED csVars

DeployRuns(step) == step /\ NoNetboot /\ NoVideo /\ NoSelfHost /\ NoPush /\ NoCore
\* A netboot script by itself, or on behalf of the session that waits for it.
NetbootRuns(step) == /\ bvPc \in {"idle", "netboot"}
                     /\ step /\ UNCHANGED bvVars /\ NoDeploy /\ NoSelfHost /\ NoPush /\ NoCore
VideoRuns(step) == step /\ NoDeploy /\ NoSelfHost /\ NoPush /\ NoCore
SelfHostRuns(step) == step /\ NoDeploy /\ NoNetboot /\ NoVideo /\ NoPush /\ NoCore
PushRuns(step) == step /\ NoDeploy /\ NoNetboot /\ NoVideo /\ NoSelfHost /\ NoCore
CoreRuns(step) == step /\ NoDeploy /\ NoNetboot /\ NoVideo /\ NoSelfHost /\ NoPush

BoardNext ==
  \/ DeployRuns(DeployNext) \/ NetbootRuns(NetbootNext) \/ VideoRuns(VideoNext)
  \/ SelfHostRuns(SelfHostNext) \/ PushRuns(PushNext) \/ CoreRuns(CoreNext)

boardVars == <<dpVars, nbVars, bvVars, shVars, puVars, csVars>>

\* The scripts' own steps: each of their waits ends at a time limit.
ScriptSteps ==
  \/ DeployRuns(DeployHost) \/ NetbootRuns(NetbootScript) \/ VideoRuns(VideoHost)
  \/ SelfHostRuns(SelfHostScript) \/ PushRuns(PushScript) \/ CoreRuns(CoreScript)

\* Each script's state, and the machine's it drives, keeps its shape, and no loop
\* goes beyond its tries.
BoardTypeOK ==
  /\ DeployTypeOK /\ NetbootTypeOK /\ VideoTypeOK
  /\ SelfHostTypeOK /\ PushTypeOK /\ CoreTypeOK
=============================================================================
