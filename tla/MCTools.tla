------------------------------ MODULE MCTools -------------------------------
(***************************************************************************)
(* The tools that judge or finish a build: the two answer ladders,         *)
(* fndiff.py and reloproof.py, and make-uki.py.  A behaviour is one        *)
(* invocation of one of them.                                              *)
(***************************************************************************)
EXTENDS ArchLadder, HostedLadder, NativeDiff, Uki

\* With bytes of four values: zero (an answer that is also the cleared
\* memory), one whose high bytes are zero, one with two non-zero bytes, a
\* negative one, and one wider than the word the harness reads.
MCAnswers == {0, 2, 6, -1, 258}
MCExpects == {0, 2, -1}
MCExpected == <<0, 42>>
MCHostedAnswers == {0, 1, 42, -1}
MCJobs == {0, 2}

Op(byte) == [how |-> "", bytes |-> <<byte>>, to |-> ""]
Call(name) == [how |-> "call", bytes |-> <<>>, to |-> name]
Ref(name) == [how |-> "ref", bytes |-> <<>>, to |-> name]
Long == [how |-> "", bytes |-> [h \in 1..17 |-> h], to |-> ""]
Instr(byte) == [how |-> "", bytes |-> <<byte, 1, 2, 3>>, to |-> ""]
Fn(name, ops) == [name |-> name, req |-> NoReq, ops |-> ops]

\* Bodies that differ in one byte, in a callee, in how they refer to it, in
\* length (so that what follows moves), with two calls, with a call of the
\* function itself, and one whose &rest list may be packed.
MCFns == {Fn("F", <<Op(195)>>), Fn("F", <<Op(1)>>), Fn("F", <<Ref("F"), Ref("G"), Call("F")>>),
          [Fn("F", <<Op(195)>>) EXCEPT !.req = 1],
          Fn("G", <<Ref("F")>>), Fn("G", <<Ref("G")>>), Fn("G", <<Call("F"), Ref("F"), Op(195)>>),
          Fn("SYM-NAME", <<Ref("F"), Op(1)>>), Fn("SYM-NAME", <<Ref("F"), Long>>),
          Fn("SYM-NAME-AUTO", <<Op(1)>>), Fn("SYM-NAME-AUTO", <<Long>>)}
MCFixed == {Fn("F", <<Instr(1)>>), Fn("F", <<Instr(1), Instr(7), Instr(7), Instr(7), Instr(7)>>),
            Fn("G", <<Instr(1)>>), [Fn("G", <<Instr(1)>>) EXCEPT !.req = 1]}
\* For builds of three: a referred function that moves against its user,
\* three definitions of a name.
MCFew == {Fn("F", <<Op(195)>>), Fn("G", <<Ref("F"), Ref("F")>>), Fn("G", <<Call("F")>>),
          Fn("SYM-NAME-AUTO", <<Op(1)>>), Fn("SYM-NAME-AUTO", <<Long>>)}

MCSequences(F, few) == {<<f>> : f \in F} \cup (F \X F) \cup (few \X few \X few)
Callable(fns) == \A i \in DOMAIN fns : \A h \in DOMAIN fns[i].ops :
                   fns[i].ops[h].how # "" => \E j \in DOMAIN fns : fns[j].name = fns[i].ops[h].to
MCBuilds == {[arch |-> "x64", fns |-> fns] : fns \in {s \in MCSequences(MCFns, MCFew) : Callable(s)}}
            \cup {[arch |-> "aa64", fns |-> fns] : fns \in MCSequences(MCFixed, {})}

\* Images whose table ends before, at and behind where two more rows would
\* reach, of one, two and three sections, with sections out of order in memory
\* and with one that has no data in the file.
Row(va, vsize, raw, rawsize) == [va |-> va, vsize |-> vsize, raw |-> raw, rawsize |-> rawsize]
Image(len, table, rows) == [len |-> len, table |-> table, rows |-> rows]
MCImagesPE ==
  {Image(len, table, rows) :
     len \in {16, 17, 19, 20}, table \in 2..6,
     rows \in {<<Row(8, 5, 8, 8)>>, <<Row(8, 8, 8, 4), Row(16, 1, 12, 4)>>,
              <<Row(16, 3, 8, 4), Row(8, 8, 12, 4)>>,
              <<Row(8, 8, 8, 4), Row(24, 7, 0, 0), Row(16, 4, 12, 4)>>}}
MCPayloads == {<<a, b>> : a \in {0, 1, 4, 9}, b \in {0, 1, 8}}

ToolsInit == ArchInit /\ HostedInit /\ NativeInit /\ UkiInit

NoArch == archPc = "idle" /\ UNCHANGED archVars
NoHosted == hostPc = "idle" /\ UNCHANGED hostVars
NoNative == ndBase = NoBuild /\ UNCHANGED ndVars
NoUki == ukPc = "idle" /\ UNCHANGED ukVars

ArchRuns == NoHosted /\ NoNative /\ NoUki /\ ArchNext
HostedRuns == NoArch /\ NoNative /\ NoUki /\ HostedNext
NativeRuns == NoArch /\ NoHosted /\ NoUki /\ NativeNext
UkiRuns == NoArch /\ NoHosted /\ NoNative /\ UkiNext
ToolsNext == ArchRuns \/ HostedRuns \/ NativeRuns \/ UkiRuns

toolsVars == <<archVars, hostVars, ndVars, ukVars>>

\* Each tool's state keeps its shape: dumps are bytes, at most one failure is
\* counted for each cell, the counts of functions add up, the file holds every
\* section.
ToolsTypeOK == ArchTypeOK /\ HostedTypeOK /\ NativeTypeOK /\ UkiTypeOK
=============================================================================
