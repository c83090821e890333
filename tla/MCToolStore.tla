---------------------------- MODULE MCToolStore ----------------------------
(***************************************************************************)
(* One in-process tool and one harness tool to seed, one caller.           *)
(***************************************************************************)
EXTENDS ToolStore

Read  == <<"claude_code", "Read">>
Bash  == <<"claude_code", "Bash">>
Shell == <<"shell_commands">>

MCHarnesses        == {<<"claude_code">>}
MCHarnessToolNames == {<<"Read">>, <<"Bash">>}
MCNames            == {Read, Bash, Shell}
NoInstances        == {}

Tool(name, kind, enabled) ==
  [name |-> name, kind |-> kind, enabled |-> enabled, unreviewed |-> FALSE,
   harness |-> IF kind = "harness" THEN <<"claude_code">> ELSE Empty,
   harnessToolName |-> IF kind = "harness" THEN Tail(name) ELSE Empty]

MCSeeds    == <<Tool(Shell, "local", FALSE), Tool(Read, "harness", TRUE)>>

(* A tool of another kind under the name of the local one, and under that  *)
(* of the harness one.                                                     *)
MCPayloads == {Tool(Shell, "cli", TRUE), Tool(Read, "cli", TRUE)}
MCReports  == {[harness |-> <<"claude_code">>, toolNames |-> {<<"Read">>, <<"Bash">>}]}
=============================================================================
