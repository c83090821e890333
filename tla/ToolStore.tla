----------------------------- MODULE ToolStore -----------------------------
(***************************************************************************)
(* The service around the registry: a start seeds the tables before the    *)
(* HTTP server listens, and the process can be killed between any two      *)
(* statements, of the seeder or of a request.  The tables survive, what a  *)
(* handler held does not.                                                  *)
(*                                                                         *)
(* Nothing else writes while the seeder runs, and of its statements for    *)
(* one tool (SELECT, UPDATE, INSERT) exactly one writes, so a seed is one  *)
(* step.                                                                   *)
(***************************************************************************)
EXTENDS Registry

CONSTANTS
  Seeds,         (* what a start seeds, in order: local, MCP, harness       *)
  MaxStops       (* bound on how often the process is killed or stopped     *)

(* No name is seeded as two kinds, and a tool of the binary's own has no    *)
(* dot in its name.                                                        *)
ASSUME SeedsAssumption ==
  /\ Seeds \in Seq(Tools)
  /\ \A i, j \in 1 .. Len(Seeds) :
       Seeds[i].name = Seeds[j].name => Seeds[i].kind = Seeds[j].kind
  /\ \A i \in 1 .. Len(Seeds) :
       /\ Valid(Seeds[i])
       /\ Seeds[i].enabled <=> Seeds[i].kind = "harness"
       /\ ~Seeds[i].unreviewed
       /\ Seeds[i].kind # "harness" => Len(Seeds[i].name) = 1
  /\ MaxStops \in Nat

VARIABLES
  phase,         (* down, booting, serving, or refused: log.Fatal in main   *)
  seeded,        (* how many of Seeds this start has been through           *)
  stops          (* how often the process has stopped                       *)

storeVars == <<vars, phase, seeded, stops>>

StoreInit ==
  /\ Init
  /\ phase = "down"
  /\ seeded = 0
  /\ stops = 0

StartUp ==
  /\ phase \in {"down", "refused"}
  /\ phase' = "booting"
  /\ seeded' = 0
  /\ UNCHANGED <<vars, stops>>

(* The switch a row keeps through seedLocalTools and seedMCPTools.         *)
SeedersOwnSwitch(t) == t.enabled
KeptSwitch(t) == IF t.name \in Live(tools) THEN tools[t.name].enabled ELSE FALSE

InsertSeed(t) ==
  /\ tools' = [tools EXCEPT ![t.name] = NewRow(NextId(tools, seq), t)]
  /\ seq' = NextId(tools, seq)

(* seedLocalTools and seedMCPTools: upsert, whatever the row was, with the *)
(* switch as it stands.                                                    *)
SeedOwnTool(t) ==
  LET kept == [t EXCEPT !.enabled = KeptSwitch(t)] IN
  IF t.name \in Live(tools)
    THEN /\ tools' = [tools EXCEPT ![t.name] = Overwrite(@, kept)]
         /\ UNCHANGED seq
    ELSE InsertSeed(kept)

Seed ==
  /\ phase = "booting"
  /\ seeded < Len(Seeds)
  /\ Seeds[seeded + 1].kind # "harness"
  /\ SeedOwnTool(Seeds[seeded + 1])
  /\ seeded' = seeded + 1
  /\ UNCHANGED <<optIns, clock, request, phase, stops>>

SeedOverAnything ==
  /\ phase = "booting"
  /\ seeded < Len(Seeds)
  /\ Seeds[seeded + 1].kind = "harness"
  /\ SeedOwnTool(Seeds[seeded + 1])
  /\ seeded' = seeded + 1
  /\ UNCHANGED <<optIns, clock, request, phase, stops>>

(* seedHarnessTools: only a missing row is made; a row that is there is    *)
(* left alone; a row of another kind under the name ends the start.        *)
KeepsAnyRow(row) == TRUE
KeepsNoRow(row) == FALSE
KeepsRow(row) == row.kind = "harness"

SeedHarness ==
  /\ phase = "booting"
  /\ seeded < Len(Seeds)
  /\ LET t == Seeds[seeded + 1] IN
       /\ t.kind = "harness"
       /\ IF t.name \notin Live(tools)
            THEN /\ InsertSeed(t)
                 /\ seeded' = seeded + 1
                 /\ UNCHANGED phase
            ELSE /\ IF KeepsRow(tools[t.name])
                      THEN seeded' = seeded + 1 /\ UNCHANGED phase
                      ELSE phase' = "refused" /\ UNCHANGED seeded
                 /\ UNCHANGED <<tools, seq>>
  /\ UNCHANGED <<optIns, clock, request, stops>>

Serve ==
  /\ phase = "booting"
  /\ seeded = Len(Seeds)
  /\ phase' = "serving"
  /\ UNCHANGED <<vars, seeded, stops>>

(* The process ends, by a signal, a crash or a deploy: after the five      *)
(* seconds of Shutdown, handlers still running end with it.                *)
Stop ==
  /\ phase \in {"booting", "serving"}
  /\ stops < MaxStops
  /\ phase' = "down"
  /\ stops' = stops + 1
  /\ request' = [c \in Clients |-> Idle]
  /\ UNCHANGED <<tools, optIns, seq, clock, seeded>>

Answer ==
  /\ phase = "serving"
  /\ Next
  /\ UNCHANGED <<phase, seeded, stops>>

BootStep == StartUp \/ Seed \/ SeedHarness \/ Serve

StoreNext == BootStep \/ Stop \/ Answer

StoreSpec == StoreInit /\ [][StoreNext]_storeVars

(* The unit restarts the service when it fails (Restart=on-failure), the    *)
(* deploy and the operator when they stopped it, and a start runs on;      *)
(* nobody is bound to call it.                                             *)
FairStoreSpec == StoreSpec /\ WF_storeVars(BootStep)

-----------------------------------------------------------------------------
(* Properties.                                                             *)

(* A deliberate enable or disable survives restarts: no step of a start,   *)
(* nor a kill in the middle of one, moves the switch of a row that is      *)
(* there.  It holds for rows made by people, by seeds and by reports.      *)
RestartsKeepEverySwitch ==
  [][phase # "serving" =>
       \A n \in Live(tools) : Survives(n) /\ tools'[n].enabled = tools[n].enabled]_storeVars

(* The database owns harness rows: a start never changes one that exists,  *)
(* reported, registered or seeded earlier.                                 *)
RestartsLeaveHarnessRowsAlone ==
  [][phase # "serving" =>
       \A n \in Live(tools) : tools[n].kind = "harness" => tools'[n] = tools[n]]_storeVars

(* When the service begins to answer, every tool of the binary has its row *)
(* and the row is of the seed's kind, however earlier starts were cut off  *)
(* and whatever callers registered or deleted.                             *)
ServingMeansSeeded ==
  [][phase' = "serving" /\ phase # "serving" =>
       \A i \in 1 .. Len(Seeds) :
         /\ Seeds[i].name \in Live(tools)
         /\ tools[Seeds[i].name].kind = Seeds[i].kind]_storeVars

NameTaken ==
  \E i \in 1 .. Len(Seeds) :
    /\ Seeds[i].kind = "harness"
    /\ Seeds[i].name \in Live(tools)
    /\ tools[Seeds[i].name].kind # "harness"

(* Once it is no longer killed, the service comes up to stay, unless a     *)
(* caller gave the name of a seeded harness tool to another kind: then no  *)
(* start gets past seeding and no request can take the name back.          *)
OnlyATakenNameKeepsItDown ==
  <>[](phase = "serving") \/ <>[](NameTaken /\ phase # "serving")
=============================================================================
