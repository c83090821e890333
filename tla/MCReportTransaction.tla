------------------------ MODULE MCReportTransaction ------------------------
(***************************************************************************)
(* Two sessions reporting overlapping tools, among callers who register    *)
(* one of the names as another kind.                                       *)
(***************************************************************************)
EXTENDS ReportTransaction

Read == <<"claude_code", "Read">>
Bash == <<"claude_code", "Bash">>

MCHarnesses        == {<<"claude_code">>}
MCHarnessToolNames == {<<"Read">>, <<"Bash">>}
MCNames            == {Read, Bash}
MCInstances        == {}

MCPayloads == {[name |-> Bash, kind |-> "cli", harness |-> Empty,
                harnessToolName |-> Empty, enabled |-> TRUE, unreviewed |-> FALSE]}

MCReports == {[harness |-> <<"claude_code">>, toolNames |-> {<<"Read">>, <<"Bash">>}],
              [harness |-> <<"claude_code">>, toolNames |-> {<<"Read">>}]}
=============================================================================
