---------------------------- MODULE MCRegistry ----------------------------
(***************************************************************************)
(* Two callers and two tools.  A name is held by its harness tool, by      *)
(* another kind or by no row, and a harness tool is sent under a name that *)
(* is not its own.                                                         *)
(***************************************************************************)
EXTENDS Registry, TLC

Read == <<"claude_code", "Read">>
Bash == <<"claude_code", "Bash">>

MCHarnesses        == {<<"claude_code">>}
MCHarnessToolNames == {<<"Read">>, <<"Bash">>}
MCNames            == {Read, Bash}

ACliTool(name, enabled) ==
  [name |-> name, kind |-> "cli", harness |-> Empty, harnessToolName |-> Empty,
   enabled |-> enabled, unreviewed |-> FALSE]

AHarnessTool(name, tool, enabled) ==
  [name |-> name, kind |-> "harness", harness |-> <<"claude_code">>,
   harnessToolName |-> tool, enabled |-> enabled, unreviewed |-> FALSE]

AReport(toolNames) == [harness |-> <<"claude_code">>, toolNames |-> toolNames]

MCPayloads   == {ACliTool(Bash, TRUE), AHarnessTool(Bash, <<"Read">>, TRUE)}
MCReports    == {AReport({<<"Read">>}), AReport({<<"Read">>, <<"Bash">>})}
ClientsAlike == Permutations(Clients)
=============================================================================
