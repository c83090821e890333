---------------------------- MODULE MCProvision ----------------------------
(***************************************************************************)
(* One consumer (they only read, so they do not meet) and one caller who   *)
(* registers, switches and deletes two MCP tools, one of which can also    *)
(* be registered as a CLI tool.                                            *)
(***************************************************************************)
EXTENDS Provision

Fetch  == <<"fetch">>
Search == <<"search">>

MCNames == {Fetch, Search}
Nothing == {}

ATool(name, kind) ==
  [name |-> name, kind |-> kind, harness |-> Empty, harnessToolName |-> Empty,
   enabled |-> TRUE, unreviewed |-> FALSE]

MCPayloads == {ATool(Fetch, "mcp"), ATool(Search, "mcp"), ATool(Fetch, "cli")}

AWant(way, names, ids, instance) ==
  [way |-> way, names |-> names, ids |-> ids, instance |-> instance]

MCWants == {AWant("provision", <<Fetch, Search>>, << >>, NoInstance),
            AWant("provision", << >>, <<1, 2>>, NoInstance),
            AWant("provision", << >>, << >>, "i1"),
            AWant("provision", <<Fetch>>, << >>, "i1"),
            AWant("invoke", <<Fetch>>, << >>, NoInstance)}

MCEnvKeys == [n \in MCNames |-> IF n = Fetch THEN <<"github", "github">> ELSE << >>]
=============================================================================
