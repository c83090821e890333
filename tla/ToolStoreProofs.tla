-------------------------- MODULE ToolStoreProofs --------------------------
(***************************************************************************)
(* Theorems about starts, for any seeds, names and requests, and for any   *)
(* number of kills and restarts.                                           *)
(***************************************************************************)
EXTENDS ToolStore, RegistryProofs

-----------------------------------------------------------------------------
(* What a seed writes.                                                     *)

SeedsRow(t) ==
  \/ /\ t.name \in Live(tools)
     /\ tools' = [tools EXCEPT ![t.name] = Overwrite(@, t)]
     /\ UNCHANGED seq
  \/ t.name \notin Live(tools) /\ InsertSeed(t)

LEMMA SeedFacts ==
  ASSUME NEW i \in 1 .. Len(Seeds)
  PROVE  /\ Seeds[i] \in Tools
         /\ Valid(Seeds[i])
         /\ Seeds[i].name \in Names
<1>1. Seeds[i] \in Tools
  BY SeedsAssumption
<1>2. Valid(Seeds[i])
  BY SeedsAssumption, Zenon
<1>. QED
  BY <1>1, <1>2 DEF Tools

(* A tool of the binary keeps what a row had of its switch, and nothing    *)
(* that validation or the CHECKs read.                                     *)
LEMMA KeptSeed ==
  ASSUME TypeOK, NEW i \in 1 .. Len(Seeds)
  PROVE  LET kept == [Seeds[i] EXCEPT !.enabled = KeptSwitch(Seeds[i])] IN
           /\ kept \in Tools
           /\ Valid(kept)
           /\ kept.name = Seeds[i].name
           /\ kept.kind = Seeds[i].kind
           /\ kept.enabled = KeptSwitch(Seeds[i])
<1>1. KeptSwitch(Seeds[i]) \in BOOLEAN
  BY LiveRows DEF KeptSwitch, Rows
<1>2. Seeds[i] \in Tools /\ Valid(Seeds[i])
  BY SeedFacts
<1>. QED
  BY <1>1, <1>2 DEF Tools, Valid

LEMMA SeededRow ==
  ASSUME TypeOK, NEW t \in Tools, SeedsRow(t)
  PROVE  /\ tools'[t.name] \in Rows
         /\ tools'[t.name].kind = t.kind
         /\ Live(tools)' = Live(tools) \cup {t.name}
         /\ \A n \in Names \ {t.name} : tools'[n] = tools[n]
         /\ t.name \in Live(tools) =>
              tools'[t.name].id = tools[t.name].id /\ tools'[t.name].enabled = t.enabled
         /\ tools' \in [Names -> Rows \cup {NoTool}]
         /\ seq' \in Nat
<1>1. t.name \in Names
  BY DEF Tools
<1>2. CASE t.name \in Live(tools)
  <2>1. tools' = [tools EXCEPT ![t.name] = Overwrite(tools[t.name], t)] /\ seq' = seq
    BY <1>2 DEF SeedsRow
  <2>2. Overwrite(tools[t.name], t) \in Rows
    BY <1>2, LiveRows, OverwrittenRow
  <2>3. tools'[t.name] = Overwrite(tools[t.name], t)
    BY <1>1, <2>1 DEF TypeOK
  <2>4. /\ Overwrite(tools[t.name], t).id = tools[t.name].id
        /\ Overwrite(tools[t.name], t).kind = t.kind
        /\ Overwrite(tools[t.name], t).enabled = t.enabled
    BY <1>2, LiveRows DEF Overwrite, Rows
  <2>. QED
    BY <1>1, <1>2, <2>1, <2>2, <2>3, <2>4, NamesAssumption DEF TypeOK, Live
<1>3. CASE t.name \notin Live(tools)
  <2>1. tools' = [tools EXCEPT ![t.name] = NewRow(NextId(tools, seq), t)]
        /\ seq' = NextId(tools, seq)
    BY <1>3 DEF SeedsRow, InsertSeed
  <2>2. NewRow(NextId(tools, seq), t) \in Rows /\ seq' \in Nat
    BY <2>1 DEF NewRow, NextId, Rows, Tools, TypeOK
  <2>3. tools'[t.name] = NewRow(NextId(tools, seq), t)
    BY <1>1, <2>1 DEF TypeOK
  <2>4. NewRow(NextId(tools, seq), t).kind = t.kind
    BY DEF NewRow
  <2>. QED
    BY <1>1, <1>3, <2>1, <2>2, <2>3, <2>4, NamesAssumption DEF TypeOK, Live
<1>. QED
  BY <1>2, <1>3

(* A seed keeps the registry's invariant: it is one more way to upsert.    *)
LEMMA SeedKeepsIInv ==
  ASSUME IInv, NEW t \in Tools, Valid(t), SeedsRow(t),
         \A c \in Clients : request[c] = Idle,
         UNCHANGED <<optIns, clock, request>>
  PROVE  IInv'
<1>1. TypeOK'
  BY SeededRow DEF IInv, TypeOK
<1>2. IdsIdentifyTools'
  <2>1. t.name \in Names
    BY DEF Tools
  <2>2. CASE t.name \in Live(tools)
    <3>1. seq' = seq
      BY <2>2 DEF SeedsRow
    <3>2. AddsNoRow
      BY <2>2, <3>1, SeededRow DEF AddsNoRow, IInv, Live
    <3>. QED
      BY <1>1, <3>2, NoNewRow, IdsGoOnIdentifying DEF IInv
  <2>3. CASE t.name \notin Live(tools)
    <3>1. seq' = NextId(tools, seq) /\ tools'[t.name].id = NextId(tools, seq)
      BY <2>1, <2>3 DEF SeedsRow, InsertSeed, NewRow, IInv, TypeOK
    <3>2. AddsRow(t.name, NextId(tools, seq))
      BY <2>3, <3>1, SeededRow DEF AddsRow, IInv, Live
    <3>. QED
      BY <1>1, <2>1, <3>2, OneNewRow, IdsGoOnIdentifying DEF IInv
  <2>. QED
    BY <2>2, <2>3
<1>3. OptInsHoldLiveTools'
  <2>1. ASSUME NEW o \in optIns'
        PROVE  \E n \in Live(tools)' : tools'[n].id = o.tool
    <3>1. PICK n \in Live(tools) : tools[n].id = o.tool
      BY DEF IInv, OptInsHoldLiveTools, Ids
    <3>2. n \in Live(tools)' /\ tools'[n].id = tools[n].id
      BY SeededRow DEF IInv, Live
    <3>. QED
      BY <3>1, <3>2
  <2>. QED
    BY <2>1 DEF OptInsHoldLiveTools, Ids
<1>4. RowsPassTheSchemaChecks'
  <2>1. PassesChecks(t.name, tools'[t.name])
    <3>1. t.name \in Names
      BY DEF Tools
    <3>2. CASE t.name \in Live(tools)
      <4>1. tools'[t.name] = Overwrite(tools[t.name], t)
        BY <3>1, <3>2 DEF SeedsRow, IInv, TypeOK
      <4>. QED
        BY <3>2, <4>1, LiveRows, OverwrittenRowsPassTheChecks DEF IInv
    <3>3. CASE t.name \notin Live(tools)
      <4>1. tools'[t.name] = NewRow(NextId(tools, seq), t)
        BY <3>1, <3>3 DEF SeedsRow, InsertSeed, IInv, TypeOK
      <4>. QED
        BY <4>1, ValidToolsPassTheChecks
    <3>. QED
      BY <3>2, <3>3
  <2>2. \A n \in Live(tools)' \ {t.name} : n \in Live(tools) /\ tools'[n] = tools[n]
    BY SeededRow DEF IInv, Live
  <2>. QED
    BY <2>1, <2>2 DEF RowsPassTheSchemaChecks, IInv
<1>5. HeldIdsStayTrue'
  BY DEF HeldIdsStayTrue, Idle
<1>6. \A c \in Clients : request'[c].at = "upsertInsert" => Valid(request'[c].tool)
  BY DEF Idle
<1>. QED
  BY <1>1, <1>2, <1>3, <1>4, <1>5, <1>6 DEF IInv

-----------------------------------------------------------------------------
(* The invariant of starts: what has been seeded is in place, and no       *)
(* handler lives beside a start.                                           *)

InPlace(i) ==
  /\ Seeds[i].name \in Live(tools)
  /\ tools[Seeds[i].name].kind = Seeds[i].kind

StoreIInv ==
  /\ IInv
  /\ phase \in {"down", "booting", "serving", "refused"}
  /\ seeded \in 0 .. Len(Seeds)
  /\ phase # "serving" => \A c \in Clients : request[c] = Idle
  /\ phase = "booting" => \A i \in 1 .. seeded : InPlace(i)

LEMMA NextSeed ==
  ASSUME StoreIInv, seeded < Len(Seeds)
  PROVE  seeded + 1 \in 1 .. Len(Seeds)
BY SeedsAssumption DEF StoreIInv

(* Seed and SeedHarness write the next seed, keep a row that is there and  *)
(* of the right kind, or give up.                                          *)
LEMMA SeedWrites ==
  ASSUME StoreIInv, Seed
  PROVE  LET t == Seeds[seeded + 1]
             kept == [t EXCEPT !.enabled = KeptSwitch(t)]
         IN  /\ kept \in Tools
             /\ Valid(kept)
             /\ kept.name = t.name
             /\ kept.kind = t.kind
             /\ kept.enabled = KeptSwitch(t)
             /\ SeedsRow(kept)
<1>1. seeded + 1 \in 1 .. Len(Seeds)
  BY NextSeed DEF Seed
<1>2. TypeOK
  BY DEF StoreIInv, IInv
<1>. DEFINE t == Seeds[seeded + 1]
            kept == [t EXCEPT !.enabled = KeptSwitch(t)]
<1>3. /\ kept \in Tools
      /\ Valid(kept)
      /\ kept.name = t.name
      /\ kept.kind = t.kind
      /\ kept.enabled = KeptSwitch(t)
  BY <1>1, <1>2, KeptSeed
<1>4. SeedOwnTool(t)
  BY DEF Seed
<1>5. SeedsRow(kept)
  <2>. HIDE DEF t
  <2>. QED
    BY <1>3, <1>4 DEF SeedOwnTool, SeedsRow
<1>. QED
  BY <1>3, <1>5

LEMMA SeedingKeepsPlaces ==
  ASSUME StoreIInv, phase = "booting", seeded < Len(Seeds), seeded' = seeded + 1,
         NEW t \in Tools, t.name = Seeds[seeded + 1].name, t.kind = Seeds[seeded + 1].kind,
         SeedsRow(t) \/ (UNCHANGED tools /\ InPlace(seeded + 1))
  PROVE  \A i \in 1 .. seeded' : InPlace(i)'
<1>. SUFFICES ASSUME NEW i \in 1 .. seeded'
              PROVE  InPlace(i)'
  OBVIOUS
<1>0. TypeOK /\ seeded \in Nat /\ seeded + 1 \in 1 .. Len(Seeds) /\ Len(Seeds) \in Nat
  BY NextSeed, SeedsAssumption DEF StoreIInv, IInv
<1>1. i \in 1 .. Len(Seeds) /\ (i \in 1 .. seeded \/ i = seeded + 1)
  BY <1>0
<1>2. i \in 1 .. seeded => InPlace(i)
  BY DEF StoreIInv
<1>3. CASE UNCHANGED tools /\ InPlace(seeded + 1)
  BY <1>1, <1>2, <1>3 DEF InPlace, Live
<1>4. CASE SeedsRow(t)
  <2>1. /\ tools'[t.name].kind = t.kind
        /\ Live(tools)' = Live(tools) \cup {t.name}
        /\ \A n \in Names \ {t.name} : tools'[n] = tools[n]
    BY <1>0, <1>4, SeededRow
  <2>2. CASE Seeds[i].name = t.name
    <3>1. Seeds[i].kind = t.kind
      BY <1>0, <1>1, <2>2, SeedsAssumption
    <3>. QED
      BY <2>1, <2>2, <3>1 DEF InPlace
  <2>3. CASE Seeds[i].name # t.name
    <3>1. i \in 1 .. seeded
      BY <1>1, <2>3
    <3>2. InPlace(i)
      BY <1>2, <3>1
    <3>3. Seeds[i].name \in Live(tools)
      BY <3>2 DEF InPlace
    <3>4. tools'[Seeds[i].name] = tools[Seeds[i].name]
      BY <2>1, <2>3, <3>3 DEF Live
    <3>. QED
      BY <2>1, <3>2, <3>3, <3>4 DEF InPlace
  <2>. QED
    BY <2>2, <2>3
<1>. QED
  BY <1>3, <1>4

(* SeedHarness makes the row, leaves it, or ends the start.                *)
LEMMA SeedHarnessWrites ==
  ASSUME StoreIInv, SeedHarness
  PROVE  LET t == Seeds[seeded + 1] IN
           /\ t \in Tools
           /\ Valid(t)
           /\ t.kind = "harness"
           /\ \/ /\ t.name \notin Live(tools)
                 /\ SeedsRow(t)
                 /\ seeded' = seeded + 1 /\ UNCHANGED phase
              \/ /\ InPlace(seeded + 1)
                 /\ seeded' = seeded + 1 /\ UNCHANGED <<tools, seq, phase>>
              \/ /\ phase' = "refused"
                 /\ UNCHANGED <<tools, seq, seeded>>
<1>1. seeded + 1 \in 1 .. Len(Seeds)
  BY NextSeed DEF SeedHarness
<1>2. Seeds[seeded + 1] \in Tools /\ Valid(Seeds[seeded + 1])
  BY <1>1, SeedFacts
<1>. QED
  BY <1>2 DEF SeedHarness, SeedsRow, InPlace, KeepsRow

LEMMA InitStoreIInv == StoreInit => StoreIInv
<1>1. 0 \in 0 .. Len(Seeds)
  BY SeedsAssumption
<1>. QED
  BY <1>1, InitIInv DEF StoreInit, StoreIInv, Init

LEMMA StepStoreIInv == StoreIInv /\ [StoreNext]_storeVars => StoreIInv'
<1>. SUFFICES ASSUME StoreIInv, [StoreNext]_storeVars
              PROVE  StoreIInv'
  OBVIOUS
<1>0. IInv /\ TypeOK /\ Len(Seeds) \in Nat
  BY SeedsAssumption DEF StoreIInv, IInv
<1>1. UNCHANGED vars => IInv'
  BY <1>0, StepIInv
<1>2. CASE StartUp
  BY <1>0, <1>1, <1>2 DEF StartUp, StoreIInv, vars
<1>3. CASE Seed
  <2>. DEFINE t == Seeds[seeded + 1]
              kept == [t EXCEPT !.enabled = KeptSwitch(t)]
  <2>1. /\ kept \in Tools
        /\ Valid(kept)
        /\ kept.name = t.name
        /\ kept.kind = t.kind
        /\ SeedsRow(kept)
    BY <1>3, SeedWrites
  <2>2. /\ phase = "booting" /\ phase' = "booting"
        /\ seeded < Len(Seeds) /\ seeded' = seeded + 1
        /\ UNCHANGED <<optIns, clock, request>>
        /\ \A c \in Clients : request[c] = Idle
    BY <1>3 DEF Seed, StoreIInv
  <2>. HIDE DEF kept
  <2>3. IInv'
    BY <1>0, <2>1, <2>2, SeedKeepsIInv
  <2>4. \A i \in 1 .. seeded' : InPlace(i)'
    BY <2>1, <2>2, SeedingKeepsPlaces
  <2>5. seeded' \in 0 .. Len(Seeds)
    BY <1>0, <2>2 DEF StoreIInv
  <2>. QED
    BY <2>2, <2>3, <2>4, <2>5 DEF StoreIInv
<1>4. CASE SeedHarness
  <2>. DEFINE t == Seeds[seeded + 1]
  <2>1. /\ t \in Tools
        /\ Valid(t)
        /\ \/ /\ SeedsRow(t)
              /\ seeded' = seeded + 1 /\ UNCHANGED phase
           \/ /\ InPlace(seeded + 1)
              /\ seeded' = seeded + 1 /\ UNCHANGED <<tools, seq, phase>>
           \/ /\ phase' = "refused"
              /\ UNCHANGED <<tools, seq, seeded>>
    BY <1>4, SeedHarnessWrites
  <2>2. /\ phase = "booting"
        /\ seeded < Len(Seeds)
        /\ UNCHANGED <<optIns, clock, request>>
        /\ \A c \in Clients : request[c] = Idle
    BY <1>4 DEF SeedHarness, StoreIInv
  <2>3. CASE SeedsRow(t) /\ seeded' = seeded + 1 /\ UNCHANGED phase
    <3>1. IInv'
      BY <1>0, <2>1, <2>2, <2>3, SeedKeepsIInv
    <3>2. \A i \in 1 .. seeded' : InPlace(i)'
      BY <2>1, <2>2, <2>3, SeedingKeepsPlaces
    <3>. QED
      BY <1>0, <2>2, <2>3, <3>1, <3>2 DEF StoreIInv
  <2>4. CASE /\ InPlace(seeded + 1)
             /\ seeded' = seeded + 1 /\ UNCHANGED <<tools, seq, phase>>
    <3>1. IInv'
      BY <1>1, <2>2, <2>4 DEF vars
    <3>2. \A i \in 1 .. seeded' : InPlace(i)'
      BY <2>1, <2>2, <2>4, SeedingKeepsPlaces
    <3>. QED
      BY <1>0, <2>2, <2>4, <3>1, <3>2 DEF StoreIInv
  <2>5. CASE phase' = "refused" /\ UNCHANGED <<tools, seq, seeded>>
    BY <1>1, <2>2, <2>5 DEF StoreIInv, vars
  <2>. QED
    BY <2>1, <2>3, <2>4, <2>5
<1>5. CASE Serve
  BY <1>1, <1>5 DEF Serve, StoreIInv
<1>6. CASE Stop
  <2>1. TypeOK'
    BY <1>0, <1>6 DEF Stop, TypeOK
  <2>2. /\ IdsIdentifyTools' /\ OptInsHoldLiveTools' /\ RowsPassTheSchemaChecks'
    BY <1>0, <1>6 DEF Stop, IInv, IdsIdentifyTools, OptInsHoldLiveTools,
                     RowsPassTheSchemaChecks, Live, Ids
  <2>3. \A c \in Clients : request'[c] = Idle
    BY <1>6 DEF Stop
  <2>4. IInv'
    BY <2>1, <2>2, <2>3 DEF IInv, HeldIdsStayTrue, Idle
  <2>. QED
    BY <1>6, <2>3, <2>4 DEF Stop, StoreIInv
<1>7. CASE Answer
  <2>1. IInv'
    BY <1>0, <1>7, StepIInv DEF Answer
  <2>. QED
    BY <1>7, <2>1 DEF Answer, StoreIInv
<1>8. CASE UNCHANGED storeVars
  BY <1>0, <1>1, <1>8 DEF storeVars, vars, StoreIInv, InPlace, Live
<1>. QED
  BY <1>2, <1>3, <1>4, <1>5, <1>6, <1>7, <1>8 DEF StoreNext, BootStep

LEMMA StoreInvariant == StoreSpec => []StoreIInv
BY InitStoreIInv, StepStoreIInv, PTL DEF StoreSpec

-----------------------------------------------------------------------------
(* What steps other than requests do to a row that is there: nothing, or   *)
(* they refresh it with the switch it has.                                 *)
Kept(n) ==
  \/ n \in Live(tools)' /\ tools'[n] = tools[n]
  \/ /\ tools[n].kind # "harness"
     /\ Survives(n) /\ tools'[n].enabled = tools[n].enabled

(* A row of one of the binary's own names is no harness's: those have a    *)
(* dot.                                                                    *)
LEMMA OwnNamesAreNoHarnessRows ==
  ASSUME RowsPassTheSchemaChecks, TypeOK, NEW n \in Live(tools), Len(n) = 1
  PROVE  tools[n].kind # "harness"
<1>. SUFFICES ASSUME tools[n].kind = "harness"
              PROVE  FALSE
  OBVIOUS
<1>1. /\ n = tools[n].harness \o tools[n].harnessToolName
      /\ tools[n].harness # Empty /\ tools[n].harnessToolName # Empty
  BY DEF RowsPassTheSchemaChecks, PassesChecks, HarnessToolRowName
<1>2. tools[n].harness \in Harnesses /\ tools[n].harnessToolName \in HarnessToolNames
  BY <1>1, LiveRows DEF Rows
<1>3. /\ tools[n].harness \in Seq(STRING) /\ tools[n].harness # << >>
      /\ tools[n].harnessToolName \in Seq(STRING) /\ tools[n].harnessToolName # << >>
  BY <1>1, <1>2, NamesAssumption DEF Empty
<1>4. Len(tools[n].harness) > 0 /\ Len(tools[n].harnessToolName) > 0
  BY <1>3
<1>5. Len(tools[n].harness \o tools[n].harnessToolName)
        = Len(tools[n].harness) + Len(tools[n].harnessToolName)
  BY <1>3
<1>6. Len(tools[n].harness) \in Nat /\ Len(tools[n].harnessToolName) \in Nat
  BY <1>3
<1>. DEFINE first == Len(tools[n].harness)
            rest == Len(tools[n].harnessToolName)
<1>7. first + rest = 1
  BY <1>1, <1>5
<1>8. first > 0 /\ rest > 0 /\ first \in Nat /\ rest \in Nat
  BY <1>4, <1>6
<1>. HIDE DEF first, rest
<1>. QED
  BY <1>7, <1>8

LEMMA StartsKeepRows ==
  ASSUME StoreIInv, [StoreNext]_storeVars, phase # "serving", NEW n \in Live(tools)
  PROVE  Kept(n)
<1>1. CASE Seed
  <2>. DEFINE t == Seeds[seeded + 1]
              kept == [t EXCEPT !.enabled = KeptSwitch(t)]
  <2>1. /\ kept \in Tools
        /\ kept.name = t.name
        /\ kept.enabled = KeptSwitch(t)
        /\ SeedsRow(kept)
    BY <1>1, SeedWrites
  <2>2. seeded + 1 \in 1 .. Len(Seeds) /\ t.kind # "harness"
    BY <1>1, NextSeed DEF Seed
  <2>3. Len(t.name) = 1
    BY <2>2, SeedsAssumption
  <2>. HIDE DEF kept
  <2>4. /\ Live(tools)' = Live(tools) \cup {t.name}
        /\ \A m \in Names \ {t.name} : tools'[m] = tools[m]
        /\ t.name \in Live(tools) =>
             tools'[t.name].id = tools[t.name].id /\ tools'[t.name].enabled = KeptSwitch(t)
    BY <2>1, SeededRow DEF StoreIInv, IInv
  <2>5. CASE n = t.name
    <3>1. tools[n].kind # "harness"
      BY <2>3, <2>5, OwnNamesAreNoHarnessRows DEF StoreIInv, IInv
    <3>2. KeptSwitch(t) = tools[n].enabled
      BY <2>5 DEF KeptSwitch
    <3>. QED
      BY <2>4, <2>5, <3>1, <3>2 DEF Kept, Survives
  <2>6. CASE n # t.name
    BY <2>4, <2>6 DEF Kept, Live
  <2>. QED
    BY <2>5, <2>6
<1>2. CASE SeedHarness
  <2>. DEFINE t == Seeds[seeded + 1]
  <2>1. t \in Tools /\ ((t.name \notin Live(tools) /\ SeedsRow(t)) \/ UNCHANGED tools)
    BY <1>2, SeedHarnessWrites
  <2>2. CASE UNCHANGED tools
    BY <2>2 DEF Kept, Live
  <2>3. CASE t.name \notin Live(tools) /\ SeedsRow(t)
    <3>1. /\ Live(tools)' = Live(tools) \cup {t.name}
          /\ \A m \in Names \ {t.name} : tools'[m] = tools[m]
      BY <2>1, <2>3, SeededRow DEF StoreIInv, IInv
    <3>2. n # t.name
      BY <2>3
    <3>. QED
      BY <3>1, <3>2 DEF Kept, Live
  <2>. QED
    BY <2>1, <2>2, <2>3
<1>3. CASE UNCHANGED tools
  BY <1>3 DEF Kept, Live
<1>4. Seed \/ SeedHarness \/ UNCHANGED tools
  BY DEF StoreNext, BootStep, StartUp, Serve, Stop, Answer, storeVars, vars
<1>. QED
  BY <1>1, <1>2, <1>3, <1>4

(* A deliberate enable or disable survives restarts, however many starts   *)
(* are killed and wherever: no step of a start moves a switch or takes a   *)
(* tool away.                                                              *)
THEOREM StartsKeepEverySwitch == StoreSpec => RestartsKeepEverySwitch
<1>1. StoreIInv /\ [StoreNext]_storeVars =>
        [phase # "serving" =>
           \A n \in Live(tools) : Survives(n) /\ tools'[n].enabled = tools[n].enabled]_storeVars
  BY StartsKeepRows DEF Kept, Survives
<1>. QED
  BY <1>1, StoreInvariant, PTL DEF StoreSpec, RestartsKeepEverySwitch

(* No start changes a harness row that exists, whoever made it.            *)
THEOREM StartsLeaveHarnessRowsAlone == StoreSpec => RestartsLeaveHarnessRowsAlone
<1>1. StoreIInv /\ [StoreNext]_storeVars =>
        [phase # "serving" =>
           \A n \in Live(tools) : tools[n].kind = "harness" => tools'[n] = tools[n]]_storeVars
  BY StartsKeepRows DEF Kept
<1>. QED
  BY <1>1, StoreInvariant, PTL DEF StoreSpec, RestartsLeaveHarnessRowsAlone

(* When the service begins to answer, every seed has its row and the row   *)
(* is of its kind.                                                         *)
THEOREM SeededWhenServing == StoreSpec => ServingMeansSeeded
<1>1. StoreIInv /\ [StoreNext]_storeVars =>
        [phase' = "serving" /\ phase # "serving" =>
           \A i \in 1 .. Len(Seeds) :
             /\ Seeds[i].name \in Live(tools)
             /\ tools[Seeds[i].name].kind = Seeds[i].kind]_storeVars
  <2>. SUFFICES ASSUME StoreIInv, StoreNext, phase' = "serving", phase # "serving"
                PROVE  \A i \in 1 .. Len(Seeds) : InPlace(i)
    BY DEF InPlace
  <2>1. CASE Serve
    BY <2>1 DEF Serve, StoreIInv
  <2>2. CASE SeedHarness
    BY <2>2, SeedHarnessWrites DEF SeedHarness
  <2>. QED
    BY <2>1, <2>2 DEF StoreNext, BootStep, StartUp, Seed, Stop, Answer
<1>. QED
  BY <1>1, StoreInvariant, PTL DEF StoreSpec, ServingMeansSeeded

-----------------------------------------------------------------------------
(* What handlers promise, of a service that is killed and started again.   *)

LEMMA StartsWriteNoOptIns ==
  ASSUME [StoreNext]_storeVars
  PROVE  [Next]_vars \/ UNCHANGED optIns
BY DEF StoreNext, BootStep, StartUp, Seed, SeedHarness, Serve, Stop, Answer, storeVars, vars

LEMMA SeedsLeaveLastSeen ==
  ASSUME StoreIInv, [StoreNext]_storeVars
  PROVE  \/ [Next]_vars
         \/ \A n \in Names : Survives(n) => tools'[n].lastSeenAt = tools[n].lastSeenAt
<1>0. TypeOK
  BY DEF StoreIInv, IInv
<1>1. ASSUME NEW t \in Tools, SeedsRow(t), NEW n \in Names, Survives(n)
      PROVE  tools'[n].lastSeenAt = tools[n].lastSeenAt
  <2>1. n \in Live(tools)
    BY <1>1 DEF Survives
  <2>2. CASE n = t.name
    <3>1. tools'[n] = Overwrite(tools[n], t)
      BY <1>0, <1>1, <2>1, <2>2 DEF SeedsRow, TypeOK
    <3>2. tools[n] \in Rows
      BY <1>0, <2>1, LiveRows
    <3>. QED
      BY <3>1, <3>2 DEF Overwrite, Rows
  <2>3. CASE n # t.name
    BY <1>0, <1>1, <2>3, SeededRow
  <2>. QED
    BY <2>2, <2>3
<1>2. CASE Seed
  <2>1. \E t \in Tools : SeedsRow(t)
    BY <1>2, SeedWrites
  <2>. QED
    BY <1>1, <2>1
<1>3. CASE SeedHarness
  <2>1. (\E t \in Tools : SeedsRow(t)) \/ UNCHANGED tools
    BY <1>3, SeedHarnessWrites
  <2>. QED
    BY <1>1, <2>1
<1>4. Seed \/ SeedHarness \/ UNCHANGED tools \/ [Next]_vars
  BY DEF StoreNext, BootStep, StartUp, Serve, Stop, Answer, storeVars, vars
<1>. QED
  BY <1>2, <1>3, <1>4

(* Ids, opt-ins and rows stay sound through starts that seed and are       *)
(* killed between any two writes, and through stops that cut requests off  *)
(* between any two statements (main, Shutdown).                            *)
THEOREM RestartsKeepTheRegistrySound ==
  StoreSpec => [](/\ IdsIdentifyTools /\ OptInsHoldLiveTools
                  /\ RowsPassTheSchemaChecks /\ HeldIdsStayTrue)
<1>1. StoreIInv => /\ IdsIdentifyTools /\ OptInsHoldLiveTools
                   /\ RowsPassTheSchemaChecks /\ HeldIdsStayTrue
  BY DEF StoreIInv, IInv
<1>. QED
  BY <1>1, StoreInvariant, PTL

(* No start, kill or half-done request takes an opt-in away or makes one   *)
(* for another tool than was named.                                        *)
THEOREM RestartsKeepOptIns ==
  StoreSpec => OptInIsForTheNamedTool /\ OptInsOnlyLeaveWhenAskedTo
<1>. DEFINE Named == \A c \in Clients, o \in optIns' \ optIns :
                       Finishes(c, "optInInsert") =>
                         /\ request[c].name \in Live(tools)
                         /\ tools[request[c].name].id = o.tool
                         /\ o.instance = request[c].instance
            Asked == \A o \in optIns \ optIns' :
                       \/ o.tool \notin Ids(tools)'
                       \/ \E c \in Clients : /\ Finishes(c, "optOutDelete")
                                             /\ request[c].instance = o.instance
                                             /\ request[c].id = o.tool
<1>1. StoreIInv /\ [StoreNext]_storeVars => Named /\ Asked
  <2>. SUFFICES ASSUME StoreIInv, [StoreNext]_storeVars PROVE Named /\ Asked
    OBVIOUS
  <2>1. CASE [Next]_vars
    BY <2>1, InsertedForTheNamedTool, GoneBecauseAsked DEF StoreIInv
  <2>2. CASE UNCHANGED optIns
    BY <2>2
  <2>. QED
    BY <2>1, <2>2, StartsWriteNoOptIns
<1>. QED
  BY <1>1, StoreInvariant, PTL DEF StoreSpec, OptInIsForTheNamedTool, OptInsOnlyLeaveWhenAskedTo

(* A start that seeds a tool again does not make it look used:             *)
(* last_seen_at moves by reports alone (UpsertTool "never writes" it).     *)
THEOREM RestartsKeepLastSeen == StoreSpec => LastSeenOnlyByReports
<1>. DEFINE ByReports ==
       \A n \in Names :
         Survives(n) /\ tools'[n].lastSeenAt # tools[n].lastSeenAt =>
           \E c \in Clients : /\ Finishes(c, "reportCommit")
                              /\ n \in ReportedNames(request[c].report)
                              /\ tools'[n].lastSeenAt = request[c].reportedAt
<1>1. StoreIInv /\ [StoreNext]_storeVars => ByReports
  <2>. SUFFICES ASSUME StoreIInv, [StoreNext]_storeVars PROVE ByReports
    OBVIOUS
  <2>1. CASE [Next]_vars
    BY <2>1, SeenBecauseReported DEF StoreIInv, IInv
  <2>2. CASE \A n \in Names : Survives(n) => tools'[n].lastSeenAt = tools[n].lastSeenAt
    BY <2>2
  <2>. QED
    BY <2>1, <2>2, SeedsLeaveLastSeen
<1>. QED
  BY <1>1, StoreInvariant, PTL DEF StoreSpec, LastSeenOnlyByReports
=============================================================================
