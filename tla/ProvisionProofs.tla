-------------------------- MODULE ProvisionProofs --------------------------
(***************************************************************************)
(* Theorems about what is handed out, for any names, consumers, requests   *)
(* and credentials, while the registry goes on.                            *)
(***************************************************************************)
EXTENDS Provision, RegistryProofs

-----------------------------------------------------------------------------
(* Requests, rows and offers.                                              *)

LEMMA WantFacts ==
  ASSUME NEW w \in Wants
  PROVE  /\ w \in WantRecords
         /\ Len(w.names) \in Nat /\ Len(w.ids) \in Nat
         /\ w.way = "invoke" => Len(w.names) = 1
         /\ w.names # << >> <=> Len(w.names) > 0
         /\ w.ids # << >> <=> Len(w.ids) > 0
<1>1. w \in WantRecords /\ (w.way = "invoke" => Len(w.names) = 1)
  BY ProvisionAssumption
<1>2. w.names \in Seq(Names) /\ w.ids \in Seq(Nat \ {0})
  BY <1>1 DEF WantRecords
<1>. QED
  BY <1>1, <1>2

OfferOf(row) == [name |-> row.name, id |-> row.id]

LEMMA ReadRowFacts ==
  ASSUME TypeOK, NEW n \in Live(tools)
  PROVE  /\ AsRead(n) \in ReadRow
         /\ AsRead(n).name = n
         /\ AsRead(n).id = tools[n].id
         /\ AsRead(n).kind = tools[n].kind
         /\ AsRead(n).enabled = tools[n].enabled
         /\ OfferOf(AsRead(n)) = [name |-> n, id |-> tools[n].id]
BY LiveRows DEF AsRead, ReadRow, Rows, OfferOf

LEMMA OffersAreOffers ==
  ASSUME NEW table \in [Names -> Rows \cup {NoTool}], NEW optedIn, NEW w
  PROVE  OnOffer(w, table, optedIn) \in SUBSET Offer
<1>1. ASSUME NEW n \in Live(table)
      PROVE  [name |-> n, id |-> table[n].id] \in Offer
  BY NamesAssumption DEF Offer, Rows, Live
<1>. QED
  BY <1>1 DEF OnOffer

(* A row that may be handed out when it is read is on offer then.          *)
LEMMA ProvisionableIsOnOffer ==
  ASSUME TypeOK, NEW w \in Wants, w.way # "invoke", NEW n \in Live(tools),
         Provisionable(AsRead(n)),
         w.instance # NoInstance =>
           [instance |-> w.instance, tool |-> tools[n].id] \in optIns
  PROVE  OfferOf(AsRead(n)) \in OnOffer(w, tools, optIns)
BY ReadRowFacts DEF Provisionable, OnOffer

LEMMA InvocableIsOnOffer ==
  ASSUME TypeOK, NEW w \in Wants, w.way = "invoke", w.instance = NoInstance,
         NEW n \in Live(tools), MayBeInvoked(AsRead(n))
  PROVE  OfferOf(AsRead(n)) \in OnOffer(w, tools, optIns)
BY ReadRowFacts DEF MayBeInvoked, OnOffer

(* What is watched while a request is busy.                                *)
LEMMA WatchGrows ==
  ASSUME Watch, NEW k \in Consumers, consumer'[k].at # "idle"
  PROVE  seen'[k] = seen[k] \cup {OnOffer(consumer'[k].want, tools', optIns')}
BY DEF Watch

-----------------------------------------------------------------------------
(* The invariant of one request.                                           *)

KnowsItsSource(h) ==
  /\ NamesOneSource(h.want)
  /\ h.want.way = "invoke" => h.at \in {"lookup", "run"}
  /\ h.at = "run" => h.want.way = "invoke" /\ h.found # << >>
  /\ h.at = "resolve" => h.found # << >> /\ Provisionable(Head(h.found))
  /\ h.at \in {"lookup", "run"} => h.servers = {}

(* What it holds, as far as it may hand it out, was on offer.              *)
HoldsWhatWasOnOffer(h, offers) ==
  /\ h.at # "run" => \A j \in DOMAIN h.found :
       Provisionable(h.found[j]) => OfferOf(h.found[j]) \in offers
  /\ h.at = "run" => OfferOf(h.found[1]) \in offers
  /\ \A s \in h.servers : OfferOf(s) \in offers

HandlerIInv(k) ==
  Busy(k) => /\ KnowsItsSource(consumer[k])
             /\ HoldsWhatWasOnOffer(consumer[k], UNION seen[k])

ProvisionIInv ==
  /\ ProvisionTypeOK
  /\ \A k \in Consumers : HandlerIInv(k)

LEMMA BusyHandlers ==
  ASSUME ProvisionTypeOK, NEW k \in Consumers, Busy(k)
  PROVE  consumer[k] \in Handlers
BY DEF ProvisionTypeOK, Busy, Resting

LEMMA RowsAskedMeanNoInstance ==
  ASSUME NEW w \in Wants, NamesOneSource(w), NEW j \in Nat, j < Asked(w)
  PROVE  w.instance = NoInstance
<1>1. CASE w.names = << >> /\ w.ids = << >>
  <2>1. Asked(w) = 0
    BY <1>1 DEF Asked
  <2>. QED
    BY <2>1
<1>2. CASE w.names # << >> \/ w.ids # << >>
  BY <1>2 DEF NamesOneSource
<1>. QED
  BY <1>1, <1>2

LEMMA NothingAskedByName ==
  ASSUME NEW w \in Wants, Asked(w) = 0
  PROVE  w.names = << >> /\ w.ids = << >> /\ w.way # "invoke"
<1>. DEFINE names == Len(w.names)
            ids == Len(w.ids)
<1>1. names \in Nat /\ ids \in Nat /\ names + ids = 0
  BY WantFacts DEF Asked
<1>. HIDE DEF names, ids
<1>2. names = 0 /\ ids = 0
  BY <1>1
<1>. QED
  BY <1>2, WantFacts DEF names, ids

(* The fields of a handler, and of one that was moved on.                  *)
LEMMA HandlerFields ==
  ASSUME NEW h \in Handlers
  PROVE  /\ h.at \in {"lookup", "configure", "resolve", "run"}
         /\ h.want \in Wants
         /\ h.looked \in Nat
         /\ h.found \in Seq(ReadRow)
         /\ h.tried \in Nat
         /\ h.keys \in Nat
         /\ h.servers \in SUBSET Server
         /\ h = [at |-> h.at, want |-> h.want, looked |-> h.looked, found |-> h.found,
                 tried |-> h.tried, keys |-> h.keys, servers |-> h.servers]
BY DEF Handlers

Moved(h, at, looked, found) ==
  [h EXCEPT !.at = at, !.looked = looked, !.found = found]

LEMMA MovedOn ==
  ASSUME NEW h \in Handlers, NEW at, NEW looked, NEW found
  PROVE  /\ Moved(h, at, looked, found).at = at
         /\ Moved(h, at, looked, found).want = h.want
         /\ Moved(h, at, looked, found).found = found
         /\ Moved(h, at, looked, found).servers = h.servers
         /\ Moved(h, at, looked, found).looked = looked
         /\ Moved(h, at, looked, found).tried = h.tried
         /\ Moved(h, at, looked, found).keys = h.keys
         /\ (/\ at \in {"lookup", "configure", "resolve", "run"}
             /\ looked \in Nat
             /\ found \in Seq(ReadRow)) => Moved(h, at, looked, found) \in Handlers
BY HandlerFields DEF Handlers, Moved

Listed(h, found) == [h EXCEPT !.at = "configure", !.found = found]

LEMMA ListedOne ==
  ASSUME NEW h \in Handlers, NEW found
  PROVE  /\ Listed(h, found).at = "configure"
         /\ Listed(h, found).want = h.want
         /\ Listed(h, found).found = found
         /\ Listed(h, found).servers = h.servers
         /\ Listed(h, found).looked = h.looked
         /\ Listed(h, found).tried = h.tried
         /\ Listed(h, found).keys = h.keys
         /\ found \in Seq(ReadRow) => Listed(h, found) \in Handlers
BY HandlerFields DEF Handlers, Listed

LEMMA ResolvingOne ==
  ASSUME NEW h \in Handlers
  PROVE  LET g == [h EXCEPT !.at = "resolve"] IN
           /\ g \in Handlers
           /\ g.at = "resolve"
           /\ g.want = h.want
           /\ g.found = h.found
           /\ g.servers = h.servers
           /\ g.looked = h.looked
           /\ g.tried = h.tried
           /\ g.keys = h.keys
BY HandlerFields DEF Handlers

Keyed(h, tried, keys) == [h EXCEPT !.tried = tried, !.keys = keys]

LEMMA KeyedOne ==
  ASSUME NEW h \in Handlers, NEW tried, NEW keys
  PROVE  /\ Keyed(h, tried, keys).at = h.at
         /\ Keyed(h, tried, keys).want = h.want
         /\ Keyed(h, tried, keys).found = h.found
         /\ Keyed(h, tried, keys).servers = h.servers
         /\ Keyed(h, tried, keys).looked = h.looked
         /\ Keyed(h, tried, keys).tried = tried
         /\ Keyed(h, tried, keys).keys = keys
         /\ (tried \in Nat /\ keys \in Nat) => Keyed(h, tried, keys) \in Handlers
BY HandlerFields DEF Handlers, Keyed

Served(h, found, servers) ==
  [h EXCEPT !.at = "configure", !.found = found, !.tried = 0, !.keys = 0, !.servers = servers]

LEMMA ServedOne ==
  ASSUME NEW h \in Handlers, NEW found, NEW servers
  PROVE  /\ Served(h, found, servers).at = "configure"
         /\ Served(h, found, servers).want = h.want
         /\ Served(h, found, servers).found = found
         /\ Served(h, found, servers).servers = servers
         /\ Served(h, found, servers).looked = h.looked
         /\ Served(h, found, servers).tried = 0
         /\ Served(h, found, servers).keys = 0
         /\ (found \in Seq(ReadRow) /\ servers \in SUBSET Server)
              => Served(h, found, servers) \in Handlers
BY HandlerFields DEF Handlers, Served

(* A step of one consumer leaves handler g, and what that may hold.        *)
Leaves(k, g) ==
  /\ g \in Handlers \cup {Resting}
  /\ consumer' = [consumer EXCEPT ![k] = g]
  /\ g # Resting =>
       /\ KnowsItsSource(g)
       /\ HoldsWhatWasOnOffer(g, (UNION seen[k]) \cup OnOffer(g.want, tools, optIns))

LEMMA ConsumerStepFacts ==
  ASSUME ProvisionIInv, NEW k \in Consumers, ConsumerStep(k), UNCHANGED vars, Watch
  PROVE  \E g : Leaves(k, g)
<1>. DEFINE h == consumer[k]
<1>0. TypeOK
  BY DEF ProvisionIInv, ProvisionTypeOK
<1>1. ASSUME h.at # "idle"
      PROVE  /\ h \in Handlers
             /\ KnowsItsSource(h)
             /\ HoldsWhatWasOnOffer(h, UNION seen[k])
  BY <1>1, BusyHandlers DEF ProvisionIInv, HandlerIInv, Busy
<1>2. ASSUME consumer' = [consumer EXCEPT ![k] = Resting]
      PROVE  \E g : Leaves(k, g)
  BY <1>2 DEF Leaves
<1>3. ASSUME NEW w \in Wants, Ask(k, w)
      PROVE  \E g : Leaves(k, g)
  <2>. DEFINE g == [at |-> "lookup", want |-> w, looked |-> 0,
              found |-> << >>, tried |-> 0, keys |-> 0, servers |-> {}]
  <2>1. g \in Handlers
    BY DEF Handlers
  <2>2. KnowsItsSource(g)
    BY <1>3 DEF Ask, KnowsItsSource
  <2>3. HoldsWhatWasOnOffer(g, (UNION seen[k]) \cup OnOffer(w, tools, optIns))
    BY DEF HoldsWhatWasOnOffer
  <2>4. g.want = w /\ consumer' = [consumer EXCEPT ![k] = g]
    BY <1>3 DEF Ask, Hold
  <2>. HIDE DEF g
  <2>5. Leaves(k, g)
    BY <2>1, <2>2, <2>3, <2>4 DEF Leaves
  <2>. QED
    BY <2>5
<1>4. ASSUME LookUp(k)
      PROVE  \E g : Leaves(k, g)
  <2>1. h.at = "lookup" /\ h \in Handlers /\ KnowsItsSource(h)
        /\ HoldsWhatWasOnOffer(h, UNION seen[k])
    BY <1>1, <1>4 DEF LookUp
  <2>2. h.want \in Wants /\ h.found \in Seq(ReadRow) /\ h.servers = {}
        /\ h.looked \in Nat /\ h.looked < Asked(h.want)
    BY <1>4, <2>1 DEF Handlers, KnowsItsSource, LookUp
  <2>3. h.want.instance = NoInstance
    BY <2>1, <2>2, RowsAskedMeanNoInstance DEF KnowsItsSource
  <2>4. ASSUME NEW n \in RowsAsked(h.want, h.looked + 1),
               h.want.way = "invoke", MayBeInvoked(AsRead(n)),
               Hold(k, [h EXCEPT !.at = "run", !.looked = @ + 1, !.found = <<AsRead(n)>>])
        PROVE  \E g : Leaves(k, g)
    <3>. DEFINE looked == h.looked + 1
                found == <<AsRead(n)>>
                g == Moved(h, "run", looked, found)
    <3>1. n \in Live(tools) /\ AsRead(n) \in ReadRow
      BY <1>0, <2>4, ReadRowFacts DEF RowsAsked
    <3>2. g \in Handlers /\ g.at = "run" /\ g.want = h.want /\ g.found = found
          /\ g.servers = {}
      <4>1. found \in Seq(ReadRow) /\ looked \in Nat
        BY <2>2, <3>1
      <4>. HIDE DEF found, looked
      <4>. QED
        BY <2>1, <2>2, <4>1, MovedOn
    <3>3. KnowsItsSource(g)
      BY <2>1, <2>4, <3>2 DEF KnowsItsSource
    <3>4. OfferOf(AsRead(n)) \in OnOffer(h.want, tools, optIns)
      BY <1>0, <2>2, <2>3, <2>4, <3>1, InvocableIsOnOffer
    <3>0. consumer' = [consumer EXCEPT ![k] = g]
      BY <2>4 DEF Hold, Moved
    <3>. HIDE DEF g
    <3>5. HoldsWhatWasOnOffer(g, (UNION seen[k]) \cup OnOffer(g.want, tools, optIns))
      BY <3>2, <3>4 DEF HoldsWhatWasOnOffer
    <3>6. Leaves(k, g)
      BY <3>0, <3>2, <3>3, <3>5 DEF Leaves
    <3>. QED
      BY <3>6
  <2>5. ASSUME NEW n \in RowsAsked(h.want, h.looked + 1),
               h.want.way # "invoke",
               Hold(k, [h EXCEPT
                       !.at = IF h.looked + 1 = Asked(h.want) THEN "configure" ELSE @,
                       !.looked = @ + 1,
                       !.found = Append(@, AsRead(n))])
        PROVE  \E g : Leaves(k, g)
    <3>. DEFINE at == IF h.looked + 1 = Asked(h.want) THEN "configure" ELSE h.at
                looked == h.looked + 1
                found == Append(h.found, AsRead(n))
                g == Moved(h, at, looked, found)
    <3>1. n \in Live(tools) /\ AsRead(n) \in ReadRow
      BY <1>0, <2>5, ReadRowFacts DEF RowsAsked
    <3>2. g \in Handlers /\ g.at \in {"lookup", "configure"} /\ g.want = h.want
          /\ g.found = found /\ g.servers = {}
      <4>1. found \in Seq(ReadRow) /\ looked \in Nat
        BY <2>2, <3>1
      <4>2. at \in {"lookup", "configure"}
        BY <2>1
      <4>3. at \in {"lookup", "configure", "resolve", "run"}
        BY <4>2
      <4>. HIDE DEF at, found, looked
      <4>. QED
        BY <2>1, <2>2, <4>1, <4>2, <4>3, MovedOn
    <3>3. KnowsItsSource(g)
      BY <2>1, <2>5, <3>2 DEF KnowsItsSource
    <3>4. Provisionable(AsRead(n)) => OfferOf(AsRead(n)) \in OnOffer(h.want, tools, optIns)
      BY <1>0, <2>2, <2>3, <2>5, <3>1, ProvisionableIsOnOffer
    <3>0. consumer' = [consumer EXCEPT ![k] = g]
      BY <2>5 DEF Hold, Moved
    <3>. HIDE DEF g
    <3>5. HoldsWhatWasOnOffer(g, (UNION seen[k]) \cup OnOffer(g.want, tools, optIns))
      <4>1. ASSUME NEW j \in DOMAIN g.found, Provisionable(g.found[j])
            PROVE  OfferOf(g.found[j]) \in (UNION seen[k]) \cup OnOffer(g.want, tools, optIns)
        <5>1. (j \in DOMAIN h.found /\ g.found[j] = h.found[j]) \/ g.found[j] = AsRead(n)
          BY <2>2, <3>1, <3>2
        <5>. QED
          BY <2>1, <3>2, <3>4, <4>1, <5>1 DEF HoldsWhatWasOnOffer
      <4>. QED
        BY <3>2, <4>1 DEF HoldsWhatWasOnOffer
    <3>6. Leaves(k, g)
      BY <3>0, <3>2, <3>3, <3>5 DEF Leaves
    <3>. QED
      BY <3>6
  <2>6. CASE Refuse(k)
    BY <1>2, <2>6 DEF Refuse, Hold
  <2>7. CASE \E n \in RowsAsked(h.want, h.looked + 1) :
               IF h.want.way = "invoke"
                 THEN IF MayBeInvoked(AsRead(n))
                        THEN Hold(k, [h EXCEPT !.at = "run", !.looked = @ + 1,
                                               !.found = <<AsRead(n)>>])
                        ELSE Refuse(k)
                 ELSE Hold(k, [h EXCEPT
                        !.at = IF h.looked + 1 = Asked(h.want) THEN "configure" ELSE @,
                        !.looked = @ + 1,
                        !.found = Append(@, AsRead(n))])
    BY <2>4, <2>5, <2>6, <2>7, Zenon
  <2>. QED
    BY <1>4, <2>6, <2>7, Zenon DEF LookUp
<1>5. ASSUME ListInstance(k)
      PROVE  \E g : Leaves(k, g)
  <2>. DEFINE listed == OptedInMCPTools(h.want.instance)
  <2>1. h.at = "lookup" /\ h \in Handlers /\ KnowsItsSource(h) /\ Asked(h.want) = 0
        /\ h.want \in Wants /\ h.servers = {}
    BY <1>1, <1>5 DEF ListInstance, Handlers, KnowsItsSource
  <2>2. h.want.way # "invoke" /\ h.want.instance # NoInstance
    <3>1. h.want.names = << >> /\ h.want.ids = << >> /\ h.want.way # "invoke"
      BY <2>1, NothingAskedByName
    <3>. QED
      BY <2>1, <3>1 DEF KnowsItsSource, NamesOneSource
  <2>3. Cardinality(listed) \in Nat
    <3>1. listed \subseteq Names
      BY LiveRows DEF OptedInMCPTools, Live
    <3>. QED
      BY <3>1, ProvisionAssumption, FS_Subset, FS_CardinalityType
  <2>4. PICK order \in [1 .. Cardinality(listed) -> listed] :
          Hold(k, [h EXCEPT !.at = "configure",
                            !.found = [j \in DOMAIN order |-> AsRead(order[j])]])
    BY <1>5 DEF ListInstance
  <2>. DEFINE found == [j \in DOMAIN order |-> AsRead(order[j])]
              g == Listed(h, found)
  <2>5. ASSUME NEW j \in 1 .. Cardinality(listed)
        PROVE  /\ AsRead(order[j]) \in ReadRow
               /\ OfferOf(AsRead(order[j])) \in OnOffer(h.want, tools, optIns)
    <3>1. /\ order[j] \in Live(tools)
          /\ [instance |-> h.want.instance, tool |-> tools[order[j]].id] \in optIns
          /\ tools[order[j]].enabled
          /\ tools[order[j]].kind = "mcp"
      BY <2>4, <2>5 DEF OptedInMCPTools
    <3>2. AsRead(order[j]) \in ReadRow /\ Provisionable(AsRead(order[j]))
      BY <1>0, <3>1, ReadRowFacts DEF Provisionable
    <3>. QED
      BY <1>0, <2>1, <2>2, <3>1, <3>2, ProvisionableIsOnOffer
  <2>6. DOMAIN found = 1 .. Cardinality(listed)
        /\ (\A j \in 1 .. Cardinality(listed) : found[j] = AsRead(order[j]))
    BY <2>4
  <2>7. found \in Seq(ReadRow)
    BY <2>3, <2>4, <2>5
  <2>8. consumer' = [consumer EXCEPT ![k] = g]
    BY <2>4 DEF Hold, Listed
  <2>. HIDE DEF found
  <2>9. g \in Handlers /\ g.at = "configure" /\ g.want = h.want /\ g.found = found
        /\ g.servers = {}
    BY <2>1, <2>7, ListedOne
  <2>. HIDE DEF g
  <2>10. KnowsItsSource(g)
    BY <2>1, <2>2, <2>9 DEF KnowsItsSource
  <2>11. HoldsWhatWasOnOffer(g, (UNION seen[k]) \cup OnOffer(g.want, tools, optIns))
    BY <2>5, <2>6, <2>9 DEF HoldsWhatWasOnOffer
  <2>12. Leaves(k, g)
    BY <2>8, <2>9, <2>10, <2>11 DEF Leaves
  <2>. QED
    BY <2>12
<1>6. ASSUME Configure(k)
      PROVE  \E g : Leaves(k, g)
  <2>. DEFINE g == [h EXCEPT !.at = "resolve"]
  <2>1. h.at = "configure" /\ h \in Handlers /\ KnowsItsSource(h) /\ h.found # << >>
        /\ HoldsWhatWasOnOffer(h, UNION seen[k])
    BY <1>1, <1>6 DEF Configure
  <2>2. CASE Refuse(k)
    BY <1>2, <2>2 DEF Refuse, Hold
  <2>3. CASE Provisionable(Head(h.found)) /\ Hold(k, g)
    <3>1. g \in Handlers /\ g.at = "resolve" /\ g.want = h.want /\ g.found = h.found
          /\ g.servers = h.servers
      BY <2>1, ResolvingOne
    <3>2. consumer' = [consumer EXCEPT ![k] = g]
      BY <2>3 DEF Hold
    <3>. HIDE DEF g
    <3>3. KnowsItsSource(g)
      BY <2>1, <2>3, <3>1 DEF KnowsItsSource
    <3>4. HoldsWhatWasOnOffer(g, (UNION seen[k]) \cup OnOffer(g.want, tools, optIns))
      BY <2>1, <3>1 DEF HoldsWhatWasOnOffer
    <3>5. Leaves(k, g)
      BY <3>1, <3>2, <3>3, <3>4 DEF Leaves
    <3>. QED
      BY <3>5
  <2>. QED
    BY <1>6, <2>2, <2>3, Zenon DEF Configure
<1>7. ASSUME ResolveKey(k)
      PROVE  \E g : Leaves(k, g)
  <2>. DEFINE tried == h.tried + 1
              keys == h.keys + 1
              g == Keyed(h, tried, keys)
  <2>1. h.at = "resolve" /\ h \in Handlers /\ KnowsItsSource(h)
        /\ HoldsWhatWasOnOffer(h, UNION seen[k])
    BY <1>1, <1>7 DEF ResolveKey
  <2>2. CASE Refuse(k)
    BY <1>2, <2>2 DEF Refuse, Hold
  <2>3. CASE Hold(k, g)
    <3>1. g \in Handlers /\ g.at = h.at /\ g.want = h.want /\ g.found = h.found
          /\ g.servers = h.servers
      <4>1. tried \in Nat /\ keys \in Nat
        BY <2>1, HandlerFields
      <4>. HIDE DEF tried, keys
      <4>. QED
        BY <2>1, <4>1, KeyedOne
    <3>2. consumer' = [consumer EXCEPT ![k] = g]
      BY <2>3 DEF Hold
    <3>. HIDE DEF g
    <3>3. KnowsItsSource(g)
      BY <2>1, <3>1 DEF KnowsItsSource
    <3>4. HoldsWhatWasOnOffer(g, (UNION seen[k]) \cup OnOffer(g.want, tools, optIns))
      BY <2>1, <3>1 DEF HoldsWhatWasOnOffer
    <3>5. Leaves(k, g)
      BY <3>1, <3>2, <3>3, <3>4 DEF Leaves
    <3>. QED
      BY <3>5
  <2>. QED
    BY <1>7, <2>2, <2>3, Zenon DEF ResolveKey, FailedCall, Keyed
<1>8. ASSUME AddServer(k)
      PROVE  \E g : Leaves(k, g)
  <2>1. h.at = "resolve" /\ h \in Handlers /\ KnowsItsSource(h)
        /\ HoldsWhatWasOnOffer(h, UNION seen[k])
    BY <1>1, <1>8 DEF AddServer
  <2>2. /\ h.found \in Seq(ReadRow) /\ h.found # << >>
        /\ Provisionable(Head(h.found))
        /\ h.servers \in SUBSET Server
        /\ h.keys \in Nat
    BY <2>1, HandlerFields DEF KnowsItsSource
  <2>. DEFINE row == Head(h.found)
              server == [name |-> row.name, id |-> row.id, keys |-> h.keys]
              servers == {s \in h.servers : s.name # row.name} \cup {server}
              found == Tail(h.found)
              g == Served(h, found, servers)
  <2>3. 1 \in DOMAIN h.found /\ row = h.found[1] /\ row \in ReadRow /\ found \in Seq(ReadRow)
        /\ (\A j \in DOMAIN found : j + 1 \in DOMAIN h.found /\ found[j] = h.found[j + 1])
    BY <2>2
  <2>4. OfferOf(row) \in UNION seen[k]
    BY <2>1, <2>2, <2>3 DEF HoldsWhatWasOnOffer
  <2>. HIDE DEF row, found
  <2>5. server \in Server /\ OfferOf(server) = OfferOf(row)
    BY <2>2, <2>3 DEF Server, ReadRow, OfferOf
  <2>6. consumer' = [consumer EXCEPT ![k] = g]
    BY <1>8 DEF AddServer, Hold, Served, row, found
  <2>. HIDE DEF server
  <2>7. servers \in SUBSET Server /\ (\A s \in servers : OfferOf(s) \in UNION seen[k])
    BY <2>1, <2>2, <2>4, <2>5 DEF HoldsWhatWasOnOffer
  <2>. HIDE DEF servers
  <2>8. g \in Handlers /\ g.at = "configure" /\ g.want = h.want /\ g.found = found
        /\ g.servers = servers
    BY <2>1, <2>3, <2>7, ServedOne
  <2>. HIDE DEF g
  <2>9. KnowsItsSource(g)
    BY <2>1, <2>8 DEF KnowsItsSource
  <2>10. HoldsWhatWasOnOffer(g, (UNION seen[k]) \cup OnOffer(g.want, tools, optIns))
    BY <2>1, <2>3, <2>7, <2>8 DEF HoldsWhatWasOnOffer
  <2>11. Leaves(k, g)
    BY <2>6, <2>8, <2>9, <2>10 DEF Leaves
  <2>. QED
    BY <2>11
<1>9. CASE Answer(k)
  BY <1>2, <1>9 DEF Answer, Hold
<1>. QED
  BY <1>3, <1>4, <1>5, <1>6, <1>7, <1>8, <1>9 DEF ConsumerStep

-----------------------------------------------------------------------------
(* The invariant.                                                          *)

LEMMA InitProvisionIInv == ProvisionInit => ProvisionIInv
<1>. SUFFICES ASSUME ProvisionInit PROVE ProvisionIInv
  OBVIOUS
<1>1. TypeOK
  BY InitIInv DEF ProvisionInit, IInv
<1>2. \A k \in Consumers : ~Busy(k)
  BY DEF ProvisionInit, Busy, Resting
<1>3. /\ held \subseteq Providers
      /\ consumer \in [Consumers -> Handlers \cup {Resting}]
      /\ seen \in [Consumers -> SUBSET SUBSET Offer]
  BY DEF ProvisionInit
<1>. QED
  BY <1>1, <1>2, <1>3 DEF ProvisionIInv, ProvisionTypeOK, HandlerIInv

(* What was seen is remembered while the request goes on.                  *)
LEMMA SeenGrows ==
  ASSUME ProvisionIInv, Watch, TypeOK', consumer' \in [Consumers -> Handlers \cup {Resting}]
  PROVE  /\ seen' \in [Consumers -> SUBSET SUBSET Offer]
         /\ \A k \in Consumers : Busy(k)' =>
              UNION seen'[k] = (UNION seen[k]) \cup OnOffer(consumer'[k].want, tools', optIns')
<1>1. ASSUME NEW k \in Consumers
      PROVE  OnOffer(consumer'[k].want, tools', optIns') \in SUBSET Offer
  BY OffersAreOffers DEF TypeOK
<1>2. seen \in [Consumers -> SUBSET SUBSET Offer]
  BY DEF ProvisionIInv, ProvisionTypeOK
<1>3. seen' \in [Consumers -> SUBSET SUBSET Offer]
  BY <1>1, <1>2 DEF Watch
<1>4. ASSUME NEW k \in Consumers, Busy(k)'
      PROVE  UNION seen'[k] = (UNION seen[k]) \cup OnOffer(consumer'[k].want, tools', optIns')
  <2>1. seen'[k] = seen[k] \cup {OnOffer(consumer'[k].want, tools', optIns')}
    BY <1>4, WatchGrows DEF Busy
  <2>. QED
    BY <2>1
<1>. QED
  BY <1>3, <1>4

(* Of a request that stays where it is nothing is forgotten.               *)
LEMMA OffersAreKept ==
  ASSUME NEW h, NEW offers, NEW more, offers \subseteq more, HoldsWhatWasOnOffer(h, offers)
  PROVE  HoldsWhatWasOnOffer(h, more)
BY DEF HoldsWhatWasOnOffer

LEMMA StepProvisionIInv ==
  ASSUME ProvisionIInv, [ProvisionNext]_provisionVars
  PROVE  ProvisionIInv'
<1>. USE DEF provisionVars
<1>0. TypeOK
  BY DEF ProvisionIInv, ProvisionTypeOK
<1>1. CASE UNCHANGED provisionVars
  BY <1>1 DEF ProvisionIInv, ProvisionTypeOK, HandlerIInv, Busy, vars, TypeOK, Live
<1>2. ASSUME Watch, TypeOK', held' \subseteq Providers, consumer' = consumer
      PROVE  ProvisionIInv'
  <2>1. consumer' \in [Consumers -> Handlers \cup {Resting}]
    BY <1>2 DEF ProvisionIInv, ProvisionTypeOK
  <2>2. ProvisionTypeOK'
    BY <1>2, <2>1, SeenGrows DEF ProvisionTypeOK
  <2>3. ASSUME NEW k \in Consumers, Busy(k)'
        PROVE  KnowsItsSource(consumer[k]) /\ HoldsWhatWasOnOffer(consumer[k], UNION seen'[k])
    <3>1. KnowsItsSource(consumer[k]) /\ HoldsWhatWasOnOffer(consumer[k], UNION seen[k])
      BY <1>2, <2>3 DEF ProvisionIInv, HandlerIInv, Busy
    <3>2. UNION seen[k] \subseteq UNION seen'[k]
      BY <1>2, <2>1, <2>3, SeenGrows
    <3>. QED
      BY <3>1, <3>2, OffersAreKept
  <2>. QED
    BY <1>2, <2>2, <2>3 DEF ProvisionIInv, HandlerIInv
<1>3. CASE Next /\ UNCHANGED <<held, consumer>> /\ Watch
  <2>1. TypeOK'
    BY <1>0, <1>3, StepTypes
  <2>. QED
    BY <1>2, <1>3, <2>1 DEF ProvisionIInv, ProvisionTypeOK
<1>4. ASSUME NEW p \in Providers, AuthStoreChanges(p), UNCHANGED <<vars, consumer>>, Watch
      PROVE  ProvisionIInv'
  <2>1. TypeOK'
    BY <1>0, <1>4 DEF TypeOK, vars, Live
  <2>2. held' \subseteq Providers
    BY <1>4 DEF AuthStoreChanges, ProvisionIInv, ProvisionTypeOK
  <2>. QED
    BY <1>2, <1>4, <2>1, <2>2
<1>5. ASSUME NEW k \in Consumers, ConsumerStep(k), UNCHANGED <<vars, held>>, Watch
      PROVE  ProvisionIInv'
  <2>1. TypeOK'
    BY <1>0, <1>5 DEF TypeOK, vars, Live
  <2>2. PICK g : Leaves(k, g)
    BY <1>5, ConsumerStepFacts
  <2>3. consumer \in [Consumers -> Handlers \cup {Resting}] /\ held' \subseteq Providers
    BY <1>5 DEF ProvisionIInv, ProvisionTypeOK
  <2>4. /\ consumer' \in [Consumers -> Handlers \cup {Resting}]
        /\ consumer'[k] = g
        /\ \A k2 \in Consumers \ {k} : consumer'[k2] = consumer[k2]
    BY <2>2, <2>3 DEF Leaves
  <2>5. ProvisionTypeOK'
    BY <2>1, <2>3, <2>4, <1>5, SeenGrows DEF ProvisionTypeOK
  <2>6. ASSUME NEW k2 \in Consumers, Busy(k2)'
        PROVE  KnowsItsSource(consumer'[k2]) /\ HoldsWhatWasOnOffer(consumer'[k2], UNION seen'[k2])
    <3>1. UNION seen'[k2]
            = (UNION seen[k2]) \cup OnOffer(consumer'[k2].want, tools, optIns)
      BY <1>5, <2>1, <2>4, <2>6, SeenGrows DEF vars
    <3>2. CASE k2 = k
      <4>1. g # Resting
        BY <2>4, <2>6, <3>2 DEF Busy, Resting
      <4>. QED
        BY <2>2, <2>4, <3>1, <3>2, <4>1 DEF Leaves
    <3>3. CASE k2 # k
      <4>1. consumer'[k2] = consumer[k2] /\ Busy(k2)
        BY <2>4, <2>6, <3>3 DEF Busy
      <4>2. KnowsItsSource(consumer[k2]) /\ HoldsWhatWasOnOffer(consumer[k2], UNION seen[k2])
        BY <4>1 DEF ProvisionIInv, HandlerIInv
      <4>3. UNION seen[k2] \subseteq UNION seen'[k2]
        BY <3>1
      <4>. QED
        BY <4>1, <4>2, <4>3, OffersAreKept
    <3>. QED
      BY <3>2, <3>3
  <2>. QED
    BY <2>5, <2>6 DEF ProvisionIInv, HandlerIInv
<1>. QED
  BY <1>1, <1>3, <1>4, <1>5 DEF ProvisionNext

(* Every reachable state is well typed: the registry, what is held in      *)
(* auth-store, and what each handler of /provision and /invoke holds       *)
(* between two of its statements or calls.                                 *)
THEOREM ProvisionTypeCorrect == ProvisionSpec => []ProvisionTypeOK
<1>1. ProvisionIInv => ProvisionTypeOK
  BY DEF ProvisionIInv
<1>. QED
  BY <1>1, InitProvisionIInv, StepProvisionIInv, PTL DEF ProvisionSpec

(* The answer of /provision holds, and an invocation runs, only a tool     *)
(* that was on, of the right kind and opted in where that is asked, all at *)
(* one moment of the request, however slow auth-store and the caller are.  *)
THEOREM OnlyOffersAreHandedOut == ProvisionSpec => []HandsOutOnlyWhatWasOnOffer
<1>1. ASSUME ProvisionIInv PROVE HandsOutOnlyWhatWasOnOffer
  <2>1. ASSUME NEW k \in Consumers, Done(k)
        PROVE  {OfferOf(s) : s \in consumer[k].servers} \subseteq UNION seen[k]
    <3>1. HoldsWhatWasOnOffer(consumer[k], UNION seen[k])
      BY <1>1, <2>1 DEF ProvisionIInv, HandlerIInv, Busy, Done
    <3>. QED
      BY <3>1 DEF HoldsWhatWasOnOffer
  <2>2. ASSUME NEW k \in Consumers, consumer[k].at = "run"
        PROVE  OfferOf(consumer[k].found[1]) \in UNION seen[k]
    <3>1. HoldsWhatWasOnOffer(consumer[k], UNION seen[k])
      BY <1>1, <2>2 DEF ProvisionIInv, HandlerIInv, Busy
    <3>. QED
      BY <2>2, <3>1 DEF HoldsWhatWasOnOffer
  <2>3. ASSUME NEW k \in Consumers
        PROVE  HandedOut(k) \subseteq UNION seen[k]
    <3>1. CASE Done(k)
      <4>1. consumer[k].at # "run"
        BY <3>1 DEF Done
      <4>2. HandedOut(k) = {OfferOf(s) : s \in consumer[k].servers}
        BY <3>1, <4>1 DEF HandedOut, OfferOf
      <4>. QED
        BY <2>1, <3>1, <4>2
    <3>2. CASE consumer[k].at = "run"
      <4>1. ~Done(k)
        BY <3>2 DEF Done
      <4>. QED
        BY <2>2, <3>2, <4>1 DEF HandedOut, OfferOf
    <3>3. CASE ~Done(k) /\ consumer[k].at # "run"
      BY <3>3 DEF HandedOut
    <3>. QED
      BY <3>1, <3>2, <3>3
  <2>. QED
    BY <2>3 DEF HandsOutOnlyWhatWasOnOffer
<1>. QED
  BY <1>1, InitProvisionIInv, StepProvisionIInv, PTL DEF ProvisionSpec

-----------------------------------------------------------------------------
(* Whole answers.                                                          *)

InHand(h) == {OfferOf(h.found[j]) : j \in DOMAIN h.found} \cup {OfferOf(s) : s \in h.servers}

KeysAreComplete(h) ==
  /\ h.keys = h.tried
  /\ \A s \in h.servers : s.keys = Len(EnvKeys[s.name])

OneServerOfAName(h) == \A s, t \in h.servers : s.name = t.name => s = t

(* Every name looked up so far is in hand, and no other; and all have been *)
(* looked up when the loop begins.                                         *)
NamesAreInHand(h) ==
  /\ h.looked <= Asked(h.want)
  /\ h.at \in {"configure", "resolve"} => h.looked = Asked(h.want)
  /\ h.want.names # << >> =>
       /\ \A j \in 1 .. h.looked : \E offer \in InHand(h) : offer.name = h.want.names[j]
       /\ \A offer \in InHand(h) : \E j \in DOMAIN h.want.names : offer.name = h.want.names[j]

(* Every id looked up so far is that of a row to come, or was seen with    *)
(* the name of a server.                                                   *)
IdsAreInHand(h, offers) ==
  h.want.ids # << >> =>
    \A j \in 1 .. h.looked :
      \/ \E i \in DOMAIN h.found : h.found[i].id = h.want.ids[j]
      \/ \E s \in h.servers : [name |-> s.name, id |-> h.want.ids[j]] \in offers

OnlyIdsAsked(h) ==
  h.want.ids # << >> =>
    \A offer \in InHand(h) : \E j \in DOMAIN h.want.ids : offer.id = h.want.ids[j]

(* Servers and rows to come together are one list, no name of it twice.    *)
ListIsOfOneMoment(h, moments) ==
  (h.want.instance # NoInstance /\ h.at \in {"configure", "resolve"}) =>
    /\ InHand(h) \in moments
    /\ \A i, j \in DOMAIN h.found : h.found[i].name = h.found[j].name => i = j
    /\ \A j \in DOMAIN h.found, s \in h.servers : s.name # h.found[j].name

WholeSoFar(h, moments) ==
  /\ KeysAreComplete(h)
  /\ OneServerOfAName(h)
  /\ NamesAreInHand(h)
  /\ IdsAreInHand(h, UNION moments)
  /\ OnlyIdsAsked(h)
  /\ ListIsOfOneMoment(h, moments)

WholeIInv == \A k \in Consumers : Busy(k) => WholeSoFar(consumer[k], seen[k])

LEMMA InHandFacts ==
  ASSUME NEW h
  PROVE  /\ \A j \in DOMAIN h.found : OfferOf(h.found[j]) \in InHand(h)
         /\ \A s \in h.servers : OfferOf(s) \in InHand(h)
BY DEF InHand

LEMMA AskedIsANumber ==
  ASSUME NEW w \in Wants
  PROVE  Asked(w) \in Nat
<1>. DEFINE names == Len(w.names)
            ids == Len(w.ids)
<1>1. names \in Nat /\ ids \in Nat /\ Asked(w) = names + ids
  BY WantFacts DEF Asked
<1>. HIDE DEF names, ids
<1>. QED
  BY <1>1

(* Of a request that stays where it is the moments are only added to.      *)
LEMMA MomentsAreKept ==
  ASSUME NEW h, NEW moments, NEW more, moments \subseteq more, WholeSoFar(h, moments)
  PROVE  WholeSoFar(h, more)
<1>1. UNION moments \subseteq UNION more
  OBVIOUS
<1>2. IdsAreInHand(h, UNION more)
  BY <1>1 DEF WholeSoFar, IdsAreInHand
<1>. QED
  BY <1>2 DEF WholeSoFar, ListIsOfOneMoment

(* A step that leaves rows, servers and progress alone.                    *)
LEMMA WholeAsBefore ==
  ASSUME NEW h, NEW g, NEW moments, NEW more, moments \subseteq more,
         WholeSoFar(h, moments),
         g.want = h.want, g.found = h.found, g.servers = h.servers, g.looked = h.looked,
         g.keys = g.tried,
         h.at \in {"configure", "resolve"}
  PROVE  WholeSoFar(g, more)
<1>1. InHand(g) = InHand(h)
  BY DEF InHand
<1>2. WholeSoFar(h, more)
  BY MomentsAreKept
<1>3. IdsAreInHand(g, UNION more)
  BY <1>2 DEF WholeSoFar, IdsAreInHand
<1>. QED
  BY <1>1, <1>2, <1>3 DEF WholeSoFar, KeysAreComplete, OneServerOfAName, NamesAreInHand,
     OnlyIdsAsked, ListIsOfOneMoment

LEMMA WholeWithOneMoreRow ==
  ASSUME NEW h \in Handlers, NEW row \in ReadRow, NEW g \in Handlers, NEW moments,
         g.want = h.want, g.servers = h.servers, g.looked = h.looked + 1,
         g.found = Append(h.found, row), g.keys = h.keys, g.tried = h.tried,
         h.looked < Asked(h.want), NamesOneSource(h.want),
         g.at \in {"configure", "resolve"} => g.looked = Asked(h.want),
         h.want.names # << >> => h.looked + 1 \in DOMAIN h.want.names
                                 /\ row.name = h.want.names[h.looked + 1],
         h.want.ids # << >> => h.looked + 1 \in DOMAIN h.want.ids
                               /\ row.id = h.want.ids[h.looked + 1],
         WholeSoFar(h, moments)
  PROVE  WholeSoFar(g, moments)
<1>1. /\ h.found \in Seq(ReadRow) /\ h.looked \in Nat /\ h.want \in Wants
  BY HandlerFields
<1>0. DOMAIN g.found = DOMAIN h.found \cup {Len(h.found) + 1}
      /\ (\A j \in DOMAIN h.found : g.found[j] = h.found[j])
      /\ g.found[Len(h.found) + 1] = row
  BY <1>1
<1>2. InHand(g) = InHand(h) \cup {OfferOf(row)}
  BY <1>0 DEF InHand
<1>3. OfferOf(row).name = row.name /\ OfferOf(row).id = row.id
  BY DEF OfferOf
<1>4. KeysAreComplete(g) /\ OneServerOfAName(g)
  BY DEF WholeSoFar, KeysAreComplete, OneServerOfAName
<1>5. NamesAreInHand(g)
  <2>1. ASSUME h.want.names # << >>, NEW j \in 1 .. g.looked
        PROVE  \E offer \in InHand(g) : offer.name = h.want.names[j]
    <3>1. CASE j = h.looked + 1
      BY <1>2, <1>3, <2>1, <3>1
    <3>2. CASE j # h.looked + 1
      <4>1. j \in 1 .. h.looked
        BY <1>1, <2>1, <3>2
      <4>. QED
        BY <1>2, <2>1, <4>1 DEF WholeSoFar, NamesAreInHand
    <3>. QED
      BY <3>1, <3>2
  <2>2. ASSUME h.want.names # << >>, NEW offer \in InHand(g)
        PROVE  \E j \in DOMAIN h.want.names : offer.name = h.want.names[j]
    <3>1. CASE offer = OfferOf(row)
      BY <1>3, <2>2, <3>1
    <3>2. CASE offer \in InHand(h)
      BY <2>2, <3>2 DEF WholeSoFar, NamesAreInHand
    <3>. QED
      BY <1>2, <3>1, <3>2
  <2>. QED
    BY <1>1, <2>1, <2>2, AskedIsANumber DEF NamesAreInHand
<1>6. OnlyIdsAsked(g)
  <2>1. ASSUME h.want.ids # << >>, NEW offer \in InHand(g)
        PROVE  \E j \in DOMAIN h.want.ids : offer.id = h.want.ids[j]
    <3>1. CASE offer = OfferOf(row)
      BY <1>3, <2>1, <3>1
    <3>2. CASE offer \in InHand(h)
      BY <2>1, <3>2 DEF WholeSoFar, OnlyIdsAsked
    <3>. QED
      BY <1>2, <3>1, <3>2
  <2>. QED
    BY <2>1 DEF OnlyIdsAsked
<1>7. ListIsOfOneMoment(g, moments)
  BY <1>1, RowsAskedMeanNoInstance DEF ListIsOfOneMoment
<1>8. IdsAreInHand(g, UNION moments)
  <2>. SUFFICES ASSUME h.want.ids # << >>, NEW j \in 1 .. h.looked + 1
                PROVE  \/ \E i \in DOMAIN g.found : g.found[i].id = h.want.ids[j]
                       \/ \E s \in h.servers :
                            [name |-> s.name, id |-> h.want.ids[j]] \in UNION moments
    BY DEF IdsAreInHand
  <2>1. CASE j = h.looked + 1
    BY <1>0, <2>1
  <2>2. CASE j # h.looked + 1
    <3>1. j \in 1 .. h.looked
      BY <1>1, <2>2
    <3>2. \/ \E i \in DOMAIN h.found : h.found[i].id = h.want.ids[j]
          \/ \E s \in h.servers : [name |-> s.name, id |-> h.want.ids[j]] \in UNION moments
      BY <3>1 DEF WholeSoFar, IdsAreInHand
    <3>. QED
      BY <1>0, <3>2
  <2>. QED
    BY <2>1, <2>2
<1>. QED
  BY <1>4, <1>5, <1>6, <1>7, <1>8 DEF WholeSoFar

(* order is some order of the tools that are listed.                       *)
Orders(order, listed) ==
  /\ order \in [1 .. Cardinality(listed) -> listed]
  /\ \A n \in listed : \E j \in DOMAIN order : order[j] = n

RowsRead(order) == [j \in DOMAIN order |-> AsRead(order[j])]

LEMMA WholeAsListed ==
  ASSUME TypeOK, NEW h \in Handlers, NEW g, NEW moments, NEW order,
         Orders(order, OptedInMCPTools(h.want.instance)),
         h.want.way # "invoke", h.want.names = << >>, h.want.ids = << >>,
         h.want.instance # NoInstance, h.looked = 0, h.keys = h.tried,
         g.want = h.want, g.servers = {}, g.looked = h.looked,
         g.found = RowsRead(order),
         g.keys = h.keys, g.tried = h.tried,
         OnOffer(h.want, tools, optIns) \in moments
  PROVE  WholeSoFar(g, moments)
<1>. DEFINE listed == OptedInMCPTools(h.want.instance)
            size == Cardinality(listed)
<1>0. /\ order \in [1 .. size -> listed]
      /\ \A n \in listed : \E j \in DOMAIN order : order[j] = n
      /\ g.found = [j \in 1 .. size |-> AsRead(order[j])]
  BY DEF Orders, RowsRead
<1>1. listed \subseteq Live(tools) /\ IsFiniteSet(listed) /\ size \in Nat
  <2>1. listed \subseteq Live(tools) /\ listed \subseteq Names
    BY DEF OptedInMCPTools, Live
  <2>. QED
    BY <2>1, ProvisionAssumption, FS_Subset, FS_CardinalityType
<1>2. DOMAIN order = 1 .. size /\ DOMAIN g.found = 1 .. size
      /\ (\A j \in 1 .. size : order[j] \in listed /\ g.found[j] = AsRead(order[j]))
  BY <1>0
<1>3. \A i, j \in 1 .. size : order[i] = order[j] => i = j
  <2>1. IsFiniteSet(1 .. size) /\ Cardinality(1 .. size) = Cardinality(listed)
    BY <1>1, FS_Interval
  <2>2. order \in Surjection(1 .. size, listed)
    BY <1>0, <1>2 DEF Surjection, Range
  <2>3. order \in Injection(1 .. size, listed)
    BY <2>1, <2>2, FS_SurjSameCardinalityImpliesInj
  <2>. QED
    BY <2>3 DEF Injection, IsInjective
<1>. HIDE DEF size
<1>4. \A j \in 1 .. size :
        /\ g.found[j].name = order[j]
        /\ OfferOf(g.found[j]) = [name |-> order[j], id |-> tools[order[j]].id]
  BY <1>1, <1>2, ReadRowFacts
<1>5. InHand(g) = {[name |-> n, id |-> tools[n].id] : n \in listed}
  <2>1. InHand(g) = {OfferOf(g.found[j]) : j \in 1 .. size}
    BY <1>2 DEF InHand
  <2>. DEFINE AsOffered(n) == [name |-> n, id |-> tools[n].id]
  <2>2. \A j \in 1 .. size : OfferOf(g.found[j]) = AsOffered(order[j])
    BY <1>4
  <2>. HIDE DEF AsOffered
  <2>3. ASSUME NEW j \in 1 .. size
        PROVE  OfferOf(g.found[j]) \in {AsOffered(n) : n \in listed}
    BY <1>2, <2>2
  <2>4. ASSUME NEW n \in listed
        PROVE  AsOffered(n) \in InHand(g)
    <3>1. PICK j \in 1 .. size : order[j] = n
      BY <1>0, <1>2
    <3>. QED
      BY <2>1, <2>2, <3>1
  <2>5. InHand(g) = {AsOffered(n) : n \in listed}
    BY <2>1, <2>3, <2>4
  <2>. QED
    BY <2>5 DEF AsOffered
<1>6. InHand(g) = OnOffer(h.want, tools, optIns)
  <2>1. listed = {m \in Live(tools) :
              /\ tools[m].enabled
              /\ IF h.want.way = "invoke" THEN tools[m].kind # "harness"
                                          ELSE tools[m].kind = "mcp"
              /\ h.want.instance # NoInstance =>
                   [instance |-> h.want.instance, tool |-> tools[m].id] \in optIns}
    BY DEF OptedInMCPTools
  <2>. QED
    BY <1>5, <2>1 DEF OnOffer
<1>7. ListIsOfOneMoment(g, moments)
  <2>1. InHand(g) \in moments
    BY <1>6
  <2>2. \A i, j \in DOMAIN g.found : g.found[i].name = g.found[j].name => i = j
    <3>1. ASSUME NEW i \in 1 .. size, NEW j \in 1 .. size, g.found[i].name = g.found[j].name
          PROVE  i = j
      <4>1. order[i] = order[j]
        BY <1>4, <3>1
      <4>. QED
        BY <1>3, <4>1
    <3>. QED
      BY <1>2, <3>1, Zenon
  <2>. QED
    BY <2>1, <2>2 DEF ListIsOfOneMoment
<1>8. KeysAreComplete(g) /\ OneServerOfAName(g) /\ NamesAreInHand(g)
      /\ IdsAreInHand(g, UNION moments) /\ OnlyIdsAsked(g)
  <2>1. Asked(h.want) = 0 /\ h.looked <= 0
    BY DEF Asked
  <2>. QED
    BY <2>1 DEF KeysAreComplete, OneServerOfAName, NamesAreInHand, IdsAreInHand, OnlyIdsAsked
<1>. QED
  BY <1>7, <1>8 DEF WholeSoFar

ServerOf(row, keys) == [name |-> row.name, id |-> row.id, keys |-> keys]

WithServer(servers, server) == {s \in servers : s.name # server.name} \cup {server}

(* The first row becomes a server: what is in hand stays, but for a server *)
(* of its name that it replaces.                                           *)
LEMMA WholeWithOneMoreServer ==
  ASSUME NEW h \in Handlers, NEW g, NEW moments, NEW more, moments \subseteq more,
         WholeSoFar(h, moments), h.at = "resolve", h.found # << >>,
         h.tried = Len(EnvKeys[Head(h.found).name]),
         g.want = h.want, g.looked = h.looked, g.keys = 0, g.tried = 0,
         g.found = Tail(h.found),
         g.servers = WithServer(h.servers, ServerOf(Head(h.found), h.keys)),
         OfferOf(Head(h.found)) \in UNION moments
  PROVE  WholeSoFar(g, more)
<1>. DEFINE row == Head(h.found)
            server == ServerOf(row, h.keys)
<1>0. h.tried = Len(EnvKeys[row.name]) /\ g.servers = WithServer(h.servers, server)
      /\ [name |-> row.name, id |-> row.id] \in UNION more
  BY DEF OfferOf
<1>1. h.found \in Seq(ReadRow)
  BY HandlerFields
<1>2. /\ 1 \in DOMAIN h.found /\ row = h.found[1]
      /\ \A j \in DOMAIN g.found : j + 1 \in DOMAIN h.found /\ g.found[j] = h.found[j + 1]
      /\ \A j \in DOMAIN h.found : j # 1 => j - 1 \in DOMAIN g.found /\ h.found[j] = g.found[j - 1]
  BY <1>1
<1>3. /\ server.name = row.name /\ server.keys = h.keys
      /\ OfferOf(server) = OfferOf(row) /\ OfferOf(row).name = row.name
      /\ server \in g.servers
      /\ \A s \in h.servers : s.name # row.name => s \in g.servers
      /\ \A s \in g.servers : s = server \/ (s \in h.servers /\ s.name # row.name)
  BY <1>0 DEF OfferOf, ServerOf, WithServer
<1>. HIDE DEF row, server
<1>4. KeysAreComplete(g) /\ OneServerOfAName(g)
  BY <1>0, <1>3 DEF WholeSoFar, KeysAreComplete, OneServerOfAName
<1>5. InHand(g) \subseteq InHand(h)
  BY <1>2, <1>3 DEF InHand
<1>6. \A offer \in InHand(h) : offer \in InHand(g) \/ offer.name = row.name
  <2>1. ASSUME NEW j \in DOMAIN h.found
        PROVE  OfferOf(h.found[j]) \in InHand(g)
    <3>1. CASE j = 1
      BY <1>2, <1>3, <3>1, InHandFacts
    <3>2. CASE j # 1
      <4>1. j - 1 \in DOMAIN g.found /\ h.found[j] = g.found[j - 1]
        BY <1>2, <2>1, <3>2
      <4>. QED
        BY <4>1, InHandFacts
    <3>. QED
      BY <3>1, <3>2
  <2>2. ASSUME NEW s \in h.servers, s.name # row.name
        PROVE  OfferOf(s) \in InHand(g)
    BY <1>3, <2>2 DEF InHand
  <2>3. \A s \in h.servers : OfferOf(s).name = s.name
    BY DEF OfferOf
  <2>. QED
    BY <2>1, <2>2, <2>3 DEF InHand
<1>7. OfferOf(row) \in InHand(g)
  BY <1>3 DEF InHand
<1>8. NamesAreInHand(g)
  <2>1. ASSUME h.want.names # << >>, NEW j \in 1 .. h.looked
        PROVE  \E offer \in InHand(g) : offer.name = h.want.names[j]
    <3>1. PICK offer \in InHand(h) : offer.name = h.want.names[j]
      BY <2>1 DEF WholeSoFar, NamesAreInHand
    <3>. QED
      BY <1>3, <1>6, <1>7, <3>1
  <2>2. h.want.names # << >> => \A offer \in InHand(g) :
          \E j \in DOMAIN h.want.names : offer.name = h.want.names[j]
    BY <1>5 DEF WholeSoFar, NamesAreInHand
  <2>. QED
    BY <2>1, <2>2 DEF WholeSoFar, NamesAreInHand
<1>9. OnlyIdsAsked(g)
  BY <1>5 DEF WholeSoFar, OnlyIdsAsked
<1>10. ListIsOfOneMoment(g, more)
  <2>. SUFFICES ASSUME h.want.instance # NoInstance
                PROVE  /\ InHand(g) \in more
                       /\ \A i, j \in DOMAIN g.found : g.found[i].name = g.found[j].name => i = j
                       /\ \A j \in DOMAIN g.found, s \in g.servers : s.name # g.found[j].name
    BY DEF ListIsOfOneMoment
  <2>1. /\ InHand(h) \in moments
        /\ \A i, j \in DOMAIN h.found : h.found[i].name = h.found[j].name => i = j
        /\ \A j \in DOMAIN h.found, s \in h.servers : s.name # h.found[j].name
    BY DEF WholeSoFar, ListIsOfOneMoment
  <2>2. \A s \in h.servers : s.name # row.name
    BY <1>2, <2>1
  <2>3. InHand(h) \subseteq InHand(g)
    <3>1. ASSUME NEW j \in DOMAIN h.found
          PROVE  OfferOf(h.found[j]) \in InHand(g)
      <4>1. CASE j = 1
        BY <1>2, <1>3, <4>1, InHandFacts
      <4>2. CASE j # 1
        <5>1. j - 1 \in DOMAIN g.found /\ h.found[j] = g.found[j - 1]
          BY <1>2, <3>1, <4>2
        <5>. QED
          BY <5>1, InHandFacts
      <4>. QED
        BY <4>1, <4>2
    <3>2. ASSUME NEW s \in h.servers
          PROVE  OfferOf(s) \in InHand(g)
      BY <1>3, <2>2, <3>2 DEF InHand
    <3>. QED
      BY <3>1, <3>2 DEF InHand
  <2>4. InHand(g) \in more
    <3>1. InHand(g) = InHand(h)
      BY <1>5, <2>3
    <3>. QED
      BY <2>1, <3>1
  <2>5. DOMAIN g.found \subseteq Nat /\ DOMAIN h.found \subseteq Nat
    BY <1>1
  <2>6. \A i, j \in DOMAIN g.found : g.found[i].name = g.found[j].name => i = j
    <3>1. ASSUME NEW i \in DOMAIN g.found, NEW j \in DOMAIN g.found,
                 g.found[i].name = g.found[j].name
          PROVE  i = j
      <4>1. i + 1 = j + 1
        BY <1>2, <2>1, <3>1
      <4>. QED
        BY <2>5, <4>1
    <3>. QED
      BY <3>1
  <2>7. \A j \in DOMAIN g.found, s \in g.servers : s.name # g.found[j].name
    <3>1. ASSUME NEW j \in DOMAIN g.found
          PROVE  row.name # g.found[j].name
      BY <1>2, <2>1, <2>5, <3>1
    <3>. QED
      BY <1>2, <1>3, <2>1, <3>1
  <2>. QED
    BY <2>4, <2>6, <2>7
<1>11. IdsAreInHand(g, UNION more)
  <2>. SUFFICES ASSUME h.want.ids # << >>, NEW j \in 1 .. h.looked
                PROVE  \/ \E i \in DOMAIN g.found : g.found[i].id = h.want.ids[j]
                       \/ \E s \in g.servers :
                            [name |-> s.name, id |-> h.want.ids[j]] \in UNION more
    BY DEF IdsAreInHand
  <2>1. \/ \E i \in DOMAIN h.found : h.found[i].id = h.want.ids[j]
        \/ \E s \in h.servers : [name |-> s.name, id |-> h.want.ids[j]] \in UNION more
    <3>1. WholeSoFar(h, more)
      BY MomentsAreKept
    <3>. QED
      BY <3>1 DEF WholeSoFar, IdsAreInHand
  <2>2. ASSUME NEW i \in DOMAIN h.found, h.found[i].id = h.want.ids[j], i # 1
        PROVE  \E m \in DOMAIN g.found : g.found[m].id = h.want.ids[j]
    BY <1>2, <2>2
  <2>3. ASSUME row.id = h.want.ids[j]
        PROVE  \E s \in g.servers : [name |-> s.name, id |-> h.want.ids[j]] \in UNION more
    <3>1. [name |-> server.name, id |-> h.want.ids[j]] \in UNION more
      BY <1>0, <1>3, <2>3
    <3>. QED
      BY <1>3, <3>1
  <2>4. ASSUME NEW s \in h.servers, [name |-> s.name, id |-> h.want.ids[j]] \in UNION more
        PROVE  \E t \in g.servers : [name |-> t.name, id |-> h.want.ids[j]] \in UNION more
    <3>1. CASE s.name = row.name
      <4>1. server.name = s.name
        BY <1>3, <3>1
      <4>. QED
        BY <1>3, <2>4, <4>1
    <3>2. CASE s.name # row.name
      BY <1>3, <2>4, <3>2
    <3>. QED
      BY <3>1, <3>2
  <2>. QED
    BY <1>2, <2>1, <2>2, <2>3, <2>4
<1>. QED
  BY <1>4, <1>8, <1>9, <1>10, <1>11 DEF WholeSoFar

LEMMA StaysWhole ==
  ASSUME ProvisionIInv, WholeIInv, NEW k \in Consumers, ConsumerStep(k), UNCHANGED vars,
         NEW moments, seen[k] \subseteq moments,
         OnOffer(consumer'[k].want, tools, optIns) \in moments,
         Busy(k)'
  PROVE  WholeSoFar(consumer'[k], moments)
<1>. DEFINE h == consumer[k]
<1>1. TypeOK /\ consumer \in [Consumers -> Handlers \cup {Resting}]
  BY DEF ProvisionIInv, ProvisionTypeOK
<1>2. ASSUME NEW g, Hold(k, g)
      PROVE  consumer'[k] = g /\ g # Resting
  BY <1>1, <1>2 DEF Hold, Busy, Resting
<1>3. ASSUME h.at # "idle"
      PROVE  /\ h \in Handlers /\ KnowsItsSource(h) /\ WholeSoFar(h, seen[k])
             /\ HoldsWhatWasOnOffer(h, UNION seen[k])
  BY <1>3, BusyHandlers DEF ProvisionIInv, HandlerIInv, WholeIInv, Busy
<1>4. ASSUME Refuse(k) PROVE FALSE
  BY <1>2, <1>4 DEF Refuse
<1>5. ASSUME NEW w \in Wants, Ask(k, w)
      PROVE  WholeSoFar(consumer'[k], moments)
  <2>. DEFINE g == [at |-> "lookup", want |-> w, looked |-> 0,
              found |-> << >>, tried |-> 0, keys |-> 0, servers |-> {}]
  <2>1. consumer'[k] = g
    BY <1>2, <1>5 DEF Ask
  <2>2. /\ g.want = w /\ g.at = "lookup" /\ g.looked = 0 /\ g.keys = g.tried
        /\ g.found = << >> /\ g.servers = {}
    OBVIOUS
  <2>. HIDE DEF g
  <2>3. InHand(g) = {}
    BY <2>2 DEF InHand
  <2>4. WholeSoFar(g, moments)
    BY <2>2, <2>3, AskedIsANumber
       DEF WholeSoFar, KeysAreComplete, OneServerOfAName, NamesAreInHand, IdsAreInHand,
           OnlyIdsAsked, ListIsOfOneMoment
  <2>. QED
    BY <2>1, <2>4
<1>6. ASSUME LookUp(k)
      PROVE  WholeSoFar(consumer'[k], moments)
  <2>1. /\ h.at = "lookup" /\ h \in Handlers /\ KnowsItsSource(h) /\ WholeSoFar(h, seen[k])
        /\ h.looked < Asked(h.want)
    BY <1>3, <1>6 DEF LookUp
  <2>2. /\ h.want \in Wants /\ h.found \in Seq(ReadRow) /\ h.looked \in Nat /\ h.servers = {}
        /\ NamesOneSource(h.want)
        /\ WholeSoFar(h, moments)
    BY <2>1, HandlerFields, MomentsAreKept DEF KnowsItsSource
  <2>. DEFINE looked == h.looked + 1
  <2>3. ASSUME NEW n \in RowsAsked(h.want, looked)
        PROVE  /\ n \in Live(tools) /\ AsRead(n) \in ReadRow
               /\ h.want.names # << >> => looked \in DOMAIN h.want.names
                                          /\ AsRead(n).name = h.want.names[looked]
               /\ h.want.ids # << >> => looked \in DOMAIN h.want.ids
                                        /\ AsRead(n).id = h.want.ids[looked]
    <3>1. n \in Live(tools) /\ AsRead(n) \in ReadRow
          /\ AsRead(n).name = n /\ AsRead(n).id = tools[n].id
      BY <1>1, ReadRowFacts DEF RowsAsked
    <3>2. CASE h.want.names # << >>
      <4>1. n = h.want.names[looked] /\ h.want.ids = << >>
        BY <2>2, <3>2 DEF NamesOneSource, RowsAsked
      <4>2. h.want.names \in Seq(Names) /\ Asked(h.want) = Len(h.want.names)
        BY <2>2, <4>1, WantFacts DEF WantRecords, Asked
      <4>3. looked \in DOMAIN h.want.names
        BY <2>1, <2>2, <4>2
      <4>. QED
        BY <3>1, <4>1, <4>3
    <3>3. CASE h.want.names = << >>
      <4>1. tools[n].id = h.want.ids[looked]
        BY <3>3 DEF RowsAsked
      <4>2. h.want.ids \in Seq(Nat \ {0}) /\ Asked(h.want) = Len(h.want.ids)
        BY <2>2, <3>3, WantFacts DEF WantRecords, Asked
      <4>3. looked \in DOMAIN h.want.ids
        BY <2>1, <2>2, <4>2
      <4>. QED
        BY <3>1, <3>3, <4>1, <4>3
    <3>. QED
      BY <3>2, <3>3
  <2>4. ASSUME NEW n \in RowsAsked(h.want, looked), h.want.way = "invoke",
               Hold(k, [h EXCEPT !.at = "run", !.looked = @ + 1, !.found = <<AsRead(n)>>])
        PROVE  WholeSoFar(consumer'[k], moments)
    <3>. DEFINE g == Moved(h, "run", looked, <<AsRead(n)>>)
    <3>1. consumer'[k] = g
      BY <1>2, <2>4 DEF Moved
    <3>2. h.want.names # << >> /\ h.want.ids = << >> /\ h.looked = 0 /\ Asked(h.want) = 1
      <4>1. Len(h.want.names) = 1 /\ h.want.names # << >>
        <5>1. Len(h.want.names) = 1
          BY <2>2, <2>4, WantFacts, Zenon
        <5>2. h.want.names # << >> <=> Len(h.want.names) > 0
          BY <2>2, WantFacts, Zenon
        <5>. QED
          BY <5>1, <5>2
      <4>2. h.want.ids = << >>
        BY <2>2, <4>1 DEF NamesOneSource
      <4>3. Asked(h.want) = 1
        BY <4>1, <4>2 DEF Asked
      <4>. QED
        BY <2>1, <2>2, <4>1, <4>2, <4>3
    <3>3. g.at = "run" /\ g.want = h.want /\ g.found = <<AsRead(n)>> /\ g.servers = {}
          /\ g.looked = 1 /\ g.tried = h.tried /\ g.keys = h.keys
      BY <2>1, <2>2, <3>2, MovedOn
    <3>. HIDE DEF g
    <3>4. InHand(g) = {OfferOf(AsRead(n))} /\ OfferOf(AsRead(n)).name = h.want.names[1]
      BY <2>3, <3>2, <3>3 DEF InHand, OfferOf
    <3>5. WholeSoFar(g, moments)
      <4>1. KeysAreComplete(g) /\ OneServerOfAName(g)
        BY <2>2, <3>3 DEF WholeSoFar, KeysAreComplete, OneServerOfAName
      <4>2. 1 \in DOMAIN h.want.names
        BY <2>3, <2>4, <3>2
      <4>3. NamesAreInHand(g)
        BY <3>2, <3>3, <3>4, <4>2 DEF NamesAreInHand
      <4>4. IdsAreInHand(g, UNION moments) /\ OnlyIdsAsked(g) /\ ListIsOfOneMoment(g, moments)
        BY <3>2, <3>3 DEF IdsAreInHand, OnlyIdsAsked, ListIsOfOneMoment
      <4>. QED
        BY <4>1, <4>3, <4>4 DEF WholeSoFar
    <3>. QED
      BY <3>1, <3>5
  <2>5. ASSUME NEW n \in RowsAsked(h.want, looked), h.want.way # "invoke",
               Hold(k, [h EXCEPT
                       !.at = IF h.looked + 1 = Asked(h.want) THEN "configure" ELSE @,
                       !.looked = @ + 1,
                       !.found = Append(@, AsRead(n))])
        PROVE  WholeSoFar(consumer'[k], moments)
    <3>. DEFINE at == IF looked = Asked(h.want) THEN "configure" ELSE h.at
                found == Append(h.found, AsRead(n))
                g == Moved(h, at, looked, found)
    <3>1. consumer'[k] = g
      BY <1>2, <2>5 DEF Moved
    <3>2. found \in Seq(ReadRow) /\ looked \in Nat
      BY <2>2, <2>3
    <3>3. at \in {"lookup", "configure"} /\ (at = "configure" => looked = Asked(h.want))
      BY <2>1
    <3>4. at \in {"lookup", "configure", "resolve", "run"}
      BY <3>3
    <3>. HIDE DEF at, found
    <3>5. g \in Handlers /\ g.at = at /\ g.want = h.want /\ g.found = found
          /\ g.servers = h.servers /\ g.looked = looked /\ g.tried = h.tried /\ g.keys = h.keys
      BY <2>1, <3>2, <3>4, MovedOn
    <3>. HIDE DEF g
    <3>6. g.at \in {"configure", "resolve"} => g.looked = Asked(h.want)
      BY <3>3, <3>5
    <3>7. WholeSoFar(g, moments)
      BY <2>1, <2>2, <2>3, <2>5, <3>5, <3>6, WholeWithOneMoreRow DEF found
    <3>. QED
      BY <3>1, <3>7
  <2>6. CASE \E n \in RowsAsked(h.want, h.looked + 1) :
               IF h.want.way = "invoke"
                 THEN IF MayBeInvoked(AsRead(n))
                        THEN Hold(k, [h EXCEPT !.at = "run", !.looked = @ + 1,
                                               !.found = <<AsRead(n)>>])
                        ELSE Refuse(k)
                 ELSE Hold(k, [h EXCEPT
                        !.at = IF h.looked + 1 = Asked(h.want) THEN "configure" ELSE @,
                        !.looked = @ + 1,
                        !.found = Append(@, AsRead(n))])
    BY <1>4, <2>4, <2>5, <2>6, Zenon
  <2>. QED
    BY <1>4, <1>6, <2>6, Zenon DEF LookUp
<1>7. ASSUME ListInstance(k)
      PROVE  WholeSoFar(consumer'[k], moments)
  <2>. DEFINE listed == OptedInMCPTools(h.want.instance)
  <2>1. /\ h.at = "lookup" /\ h \in Handlers /\ KnowsItsSource(h) /\ Asked(h.want) = 0
        /\ h.want \in Wants /\ h.servers = {} /\ h.keys = h.tried
    BY <1>3, <1>7 DEF ListInstance, Handlers, KnowsItsSource, WholeSoFar, KeysAreComplete
  <2>2. h.want.names = << >> /\ h.want.ids = << >> /\ h.want.way # "invoke"
    BY <2>1, NothingAskedByName
  <2>3. h.want.instance # NoInstance
    BY <2>1, <2>2 DEF KnowsItsSource, NamesOneSource
  <2>4. h.looked = 0
    BY <1>3, <2>1, HandlerFields DEF WholeSoFar, NamesAreInHand
  <2>5. PICK order \in [1 .. Cardinality(listed) -> listed] :
          /\ \A n \in listed : \E j \in DOMAIN order : order[j] = n
          /\ Hold(k, [h EXCEPT !.at = "configure",
                               !.found = [j \in DOMAIN order |-> AsRead(order[j])]])
    BY <1>7 DEF ListInstance
  <2>. DEFINE g == Listed(h, RowsRead(order))
  <2>6. consumer'[k] = g
    BY <1>2, <2>5 DEF Listed, RowsRead
  <2>7. g.want = h.want /\ g.found = RowsRead(order) /\ g.servers = {} /\ g.looked = h.looked
        /\ g.tried = h.tried /\ g.keys = h.keys
    BY <2>1, ListedOne
  <2>. HIDE DEF g
  <2>8. OnOffer(h.want, tools, optIns) \in moments
    BY <2>6, <2>7
  <2>9. Orders(order, OptedInMCPTools(h.want.instance))
    BY <2>5 DEF Orders
  <2>10. WholeSoFar(g, moments)
    BY <1>1, <2>1, <2>2, <2>3, <2>4, <2>7, <2>8, <2>9, WholeAsListed
  <2>. QED
    BY <2>6, <2>10
<1>8. ASSUME Configure(k)
      PROVE  WholeSoFar(consumer'[k], moments)
  <2>1. h.at = "configure" /\ h \in Handlers /\ WholeSoFar(h, seen[k])
    BY <1>3, <1>8 DEF Configure
  <2>. DEFINE g == [h EXCEPT !.at = "resolve"]
  <2>2. consumer'[k] = g
    BY <1>2, <1>4, <1>8, Zenon DEF Configure
  <2>3. g.want = h.want /\ g.found = h.found /\ g.servers = h.servers /\ g.looked = h.looked
        /\ g.tried = h.tried /\ g.keys = h.keys
    BY <2>1, ResolvingOne
  <2>. HIDE DEF g
  <2>4. g.keys = g.tried
    BY <2>1, <2>3 DEF WholeSoFar, KeysAreComplete
  <2>. QED
    BY <2>1, <2>2, <2>3, <2>4, WholeAsBefore
<1>9. ASSUME ResolveKey(k)
      PROVE  WholeSoFar(consumer'[k], moments)
  <2>1. h.at = "resolve" /\ h \in Handlers /\ WholeSoFar(h, seen[k])
    BY <1>3, <1>9 DEF ResolveKey
  <2>. DEFINE g == Keyed(h, h.tried + 1, h.keys + 1)
  <2>2. consumer'[k] = g
    BY <1>2, <1>4, <1>9, Zenon DEF ResolveKey, FailedCall, Keyed
  <2>3. g.want = h.want /\ g.found = h.found /\ g.servers = h.servers /\ g.looked = h.looked
        /\ g.tried = h.tried + 1 /\ g.keys = h.keys + 1
    BY <2>1, KeyedOne
  <2>. HIDE DEF g
  <2>4. g.keys = g.tried
    BY <2>1, <2>3 DEF WholeSoFar, KeysAreComplete
  <2>. QED
    BY <2>1, <2>2, <2>3, <2>4, WholeAsBefore
<1>10. ASSUME AddServer(k)
       PROVE  WholeSoFar(consumer'[k], moments)
  <2>1. /\ h.at = "resolve" /\ h \in Handlers /\ KnowsItsSource(h) /\ WholeSoFar(h, seen[k])
        /\ h.found # << >> /\ Provisionable(Head(h.found))
        /\ HoldsWhatWasOnOffer(h, UNION seen[k])
    BY <1>3, <1>10 DEF AddServer, KnowsItsSource
  <2>0. OfferOf(Head(h.found)) \in UNION seen[k]
    <3>1. h.found \in Seq(ReadRow)
      BY <2>1, HandlerFields
    <3>2. 1 \in DOMAIN h.found /\ Head(h.found) = h.found[1]
      BY <2>1, <3>1
    <3>. QED
      BY <2>1, <3>2 DEF HoldsWhatWasOnOffer
  <2>. DEFINE found == Tail(h.found)
              servers == WithServer(h.servers, ServerOf(Head(h.found), h.keys))
              g == Served(h, found, servers)
  <2>2. consumer'[k] = g /\ h.tried = Len(EnvKeys[Head(h.found).name])
    BY <1>2, <1>10 DEF AddServer, Served, ServerOf, WithServer
  <2>. HIDE DEF servers, found
  <2>3. g.want = h.want /\ g.found = found /\ g.servers = servers /\ g.looked = h.looked
        /\ g.tried = 0 /\ g.keys = 0
    BY <2>1, ServedOne
  <2>. HIDE DEF g
  <2>4. WholeSoFar(g, moments)
    BY <2>0, <2>1, <2>2, <2>3, WholeWithOneMoreServer DEF servers, found
  <2>. QED
    BY <2>2, <2>4
<1>11. CASE Answer(k)
  BY <1>2, <1>11 DEF Answer
<1>. QED
  BY <1>4, <1>5, <1>6, <1>7, <1>8, <1>9, <1>10, <1>11 DEF ConsumerStep

LEMMA StepWholeIInv ==
  ASSUME ProvisionIInv, WholeIInv, [ProvisionNext]_provisionVars
  PROVE  WholeIInv'
<1>1. CASE UNCHANGED provisionVars
  BY <1>1 DEF provisionVars, vars, WholeIInv, Busy
<1>2. ASSUME Watch, NEW k \in Consumers, Busy(k)', consumer'[k] = consumer[k]
      PROVE  WholeSoFar(consumer'[k], seen'[k])
  <2>1. Busy(k) /\ seen[k] \subseteq seen'[k]
    BY <1>2, WatchGrows DEF Busy
  <2>2. WholeSoFar(consumer[k], seen[k])
    BY <2>1 DEF WholeIInv
  <2>. QED
    BY <1>2, <2>1, <2>2, MomentsAreKept
<1>3. ASSUME Watch, consumer' = consumer
      PROVE  WholeIInv'
  BY <1>2, <1>3 DEF WholeIInv
<1>4. ASSUME NEW k \in Consumers, ConsumerStep(k), UNCHANGED <<vars, held>>, Watch
      PROVE  WholeIInv'
  <2>1. PICK g : Leaves(k, g)
    BY <1>4, ConsumerStepFacts
  <2>2. \A j \in Consumers \ {k} : consumer'[j] = consumer[j]
    BY <2>1 DEF Leaves, ProvisionIInv, ProvisionTypeOK
  <2>3. ASSUME Busy(k)'
        PROVE  WholeSoFar(consumer'[k], seen'[k])
    <3>1. seen'[k] = seen[k] \cup {OnOffer(consumer'[k].want, tools, optIns)}
      BY <1>4, <2>3, WatchGrows DEF Busy, vars
    <3>. QED
      BY <1>4, <2>3, <3>1, StaysWhole
  <2>4. ASSUME NEW j \in Consumers, Busy(j)'
        PROVE  WholeSoFar(consumer'[j], seen'[j])
    BY <1>2, <1>4, <2>2, <2>3, <2>4
  <2>. QED
    BY <2>4 DEF WholeIInv
<1>. QED
  BY <1>1, <1>3, <1>4 DEF ProvisionNext

(* An answer of /provision has one server of a name, with every            *)
(* environment key it needs: for names exactly the names asked; for ids    *)
(* only tools of ids asked, and of each id its tool, or the tool of        *)
(* another of the ids that had taken its name by then; and of an instance  *)
(* exactly the opt-in list of one moment of the request.                   *)
THEOREM AnswersAreAlwaysWhole == ProvisionSpec => []AnswersAreWhole
<1>1. ProvisionInit => WholeIInv
  BY DEF ProvisionInit, WholeIInv, Busy, Resting
<1>2. ASSUME ProvisionIInv, WholeIInv PROVE AnswersAreWhole
  <2>. SUFFICES ASSUME NEW k \in Consumers, Done(k)
                PROVE  LET h == consumer[k] IN
                  /\ \A s \in h.servers : s.keys = Len(EnvKeys[s.name])
                  /\ \A s, t \in h.servers : s.name = t.name => s = t
                  /\ h.want.names # << >> =>
                       {s.name : s \in h.servers}
                         = {h.want.names[j] : j \in DOMAIN h.want.names}
                  /\ h.want.ids # << >> =>
                       /\ {s.id : s \in h.servers}
                            \subseteq {h.want.ids[j] : j \in DOMAIN h.want.ids}
                       /\ \A j \in DOMAIN h.want.ids : \E s \in h.servers :
                            [name |-> s.name, id |-> h.want.ids[j]] \in UNION seen[k]
                  /\ h.want.instance # NoInstance => HandedOut(k) \in seen[k]
    BY DEF AnswersAreWhole
  <2>. DEFINE h == consumer[k]
  <2>1. h.at = "configure" /\ h.found = << >> /\ Busy(k)
    BY DEF Done, Busy
  <2>2. h \in Handlers /\ KnowsItsSource(h) /\ WholeSoFar(h, seen[k])
    BY <1>2, <2>1, BusyHandlers DEF ProvisionIInv, HandlerIInv, WholeIInv
  <2>3. h.want \in Wants /\ h.want.names \in Seq(Names) /\ h.want.ids \in Seq(Nat \ {0})
    BY <2>2, HandlerFields, WantFacts DEF WantRecords
  <2>4. InHand(h) = {OfferOf(s) : s \in h.servers}
    BY <2>1 DEF InHand
  <2>5. \A s \in h.servers :
          OfferOf(s) \in InHand(h) /\ OfferOf(s).id = s.id /\ OfferOf(s).name = s.name
    BY <2>4 DEF OfferOf
  <2>6. \A offer \in InHand(h) : \E s \in h.servers : offer.name = s.name
    BY <2>4 DEF OfferOf
  <2>7. /\ \A s \in h.servers : s.keys = Len(EnvKeys[s.name])
        /\ \A s, t \in h.servers : s.name = t.name => s = t
    BY <2>2 DEF WholeSoFar, KeysAreComplete, OneServerOfAName
  <2>8. ASSUME NEW j \in DOMAIN h.want.names
        PROVE  h.want.names[j] \in {s.name : s \in h.servers}
    <3>1. h.want.names # << >>
      BY <2>3, <2>8
    <3>2. h.want.ids = << >>
      BY <2>2, <3>1 DEF KnowsItsSource, NamesOneSource
    <3>3. h.looked = Len(h.want.names)
      BY <2>1, <2>2, <2>3, <3>2 DEF WholeSoFar, NamesAreInHand, Asked
    <3>4. j \in 1 .. h.looked
      BY <2>3, <2>8, <3>3
    <3>5. PICK offer \in InHand(h) : offer.name = h.want.names[j]
      BY <2>2, <3>1, <3>4 DEF WholeSoFar, NamesAreInHand
    <3>. QED
      BY <2>6, <3>5
  <2>9. ASSUME h.want.names # << >>, NEW s \in h.servers
        PROVE  s.name \in {h.want.names[j] : j \in DOMAIN h.want.names}
    BY <2>2, <2>5, <2>9 DEF WholeSoFar, NamesAreInHand
  <2>10. ASSUME h.want.ids # << >>, NEW s \in h.servers
         PROVE  s.id \in {h.want.ids[j] : j \in DOMAIN h.want.ids}
    BY <2>2, <2>5, <2>10 DEF WholeSoFar, OnlyIdsAsked
  <2>11. ASSUME h.want.ids # << >>, NEW j \in DOMAIN h.want.ids
         PROVE  \E s \in h.servers : [name |-> s.name, id |-> h.want.ids[j]] \in UNION seen[k]
    <3>1. h.want.names = << >>
      BY <2>2, <2>11 DEF KnowsItsSource, NamesOneSource
    <3>2. h.looked = Len(h.want.ids)
      BY <2>1, <2>2, <2>3, <3>1 DEF WholeSoFar, NamesAreInHand, Asked
    <3>3. j \in 1 .. h.looked
      BY <2>3, <2>11, <3>2
    <3>4. DOMAIN h.found = {}
      BY <2>1
    <3>. QED
      BY <2>2, <2>11, <3>3, <3>4 DEF WholeSoFar, IdsAreInHand
  <2>12. ASSUME h.want.instance # NoInstance
         PROVE  HandedOut(k) \in seen[k]
    <3>1. HandedOut(k) = InHand(h)
      <4>1. consumer[k].at # "run"
        BY <2>1
      <4>2. HandedOut(k) = {OfferOf(s) : s \in consumer[k].servers}
        BY <4>1 DEF HandedOut, OfferOf
      <4>. QED
        BY <2>4, <4>2
    <3>2. InHand(h) \in seen[k]
      BY <2>1, <2>2, <2>12 DEF WholeSoFar, ListIsOfOneMoment
    <3>. QED
      BY <3>1, <3>2
  <2>13. h.want.names # << >> =>
           {s.name : s \in h.servers} = {h.want.names[j] : j \in DOMAIN h.want.names}
    BY <2>8, <2>9
  <2>14. h.want.ids # << >> =>
           {s.id : s \in h.servers} \subseteq {h.want.ids[j] : j \in DOMAIN h.want.ids}
    BY <2>10
  <2>. QED
    BY <2>7, <2>11, <2>12, <2>13, <2>14
<1>. QED
  BY <1>1, <1>2, InitProvisionIInv, StepProvisionIInv, StepWholeIInv, PTL DEF ProvisionSpec
=============================================================================
