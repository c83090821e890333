----------------------------- MODULE Provision -----------------------------
(***************************************************************************)
(* The two requests that hand tools out: POST /provision, which answers    *)
(* with the launchers and credentials of MCP tools, and POST               *)
(* /tools/{name}/invoke, which runs a local or a CLI tool.  Both decide on *)
(* rows they read and then take their time: the credentials are fetched    *)
(* from auth-store one by one over HTTP, the body of an invocation is read *)
(* from a caller who may be slow.  The registry goes on meanwhile.         *)
(*                                                                         *)
(* A launcher is opaque; of a row that was read the model keeps the name,  *)
(* the id, the kind and the switch.  Which environment keys a tool needs,  *)
(* and the provider each is mapped to, is fixed for each name.             *)
(***************************************************************************)
EXTENDS Registry

CONSTANTS
  Consumers,      (* concurrent callers of /provision and /invoke           *)
  Wants,          (* the requests they send                                 *)
  Providers,      (* auth-store's providers                                 *)
  Unmapped,       (* an environment key that `credentials` does not mention *)
  EnvKeys         (* name -> the provider of each of its environment keys   *)

NoInstance == "no instance"

(* ProvisionRequest, and an invocation by name.                            *)
WantRecords == [way      : {"provision", "invoke"},
                names    : Seq(Names),
                ids      : Seq(Nat \ {0}),
                instance : Instances \cup {NoInstance}]

ASSUME ProvisionAssumption ==
  /\ IsFiniteSet(Names)
  /\ Wants \subseteq WantRecords
  /\ \A w \in Wants : w.way = "invoke" => Len(w.names) = 1
  /\ NoInstance \notin Instances
  /\ Unmapped \notin Providers
  /\ EnvKeys \in [Names -> Seq(Providers \cup {Unmapped})]

VARIABLES
  held,        (* the providers auth-store has a credential for             *)
  consumer,    (* what the handler of each consumer holds                   *)
  seen         (* history: what was to be had at each moment of its request *)

provisionVars == <<vars, held, consumer, seen>>

Server == [name : Names, id : Nat \ {0}, keys : Nat]
ReadRow == [name : Names, id : Nat \ {0}, kind : Kinds, enabled : BOOLEAN]
Offer == [name : Names, id : Nat \ {0}]

Resting == [at |-> "idle"]

(* looked: names or ids looked up; found: rows read and not yet            *)
(* configured; tried: the environment keys of the first of them tried so   *)
(* far; keys: those in its env; servers: out.MCPServers.                   *)
Handlers == [at      : {"lookup", "configure", "resolve", "run"},
             want    : Wants,
             looked  : Nat,
             found   : Seq(ReadRow),
             tried   : Nat,
             keys    : Nat,
             servers : SUBSET Server]

ProvisionTypeOK ==
  /\ TypeOK
  /\ held \subseteq Providers
  /\ consumer \in [Consumers -> Handlers \cup {Resting}]
  /\ seen \in [Consumers -> SUBSET SUBSET Offer]

Busy(k) == consumer[k].at # "idle"

AsRead(n) == [name |-> n, id |-> tools[n].id, kind |-> tools[n].kind,
              enabled |-> tools[n].enabled]

ProvisionInit ==
  /\ Init
  /\ held = Providers
  /\ consumer = [k \in Consumers |-> Resting]
  /\ seen = [k \in Consumers |-> {}]

Hold(k, handler) == consumer' = [consumer EXCEPT ![k] = handler]

(* An error ends the request: a 4xx or 5xx, and nothing handed out.        *)
Refuse(k) == Hold(k, Resting)

-----------------------------------------------------------------------------
(* resolveRequestedTools.                                                  *)

(* Exactly one of tools, tool_ids and instance_id.                         *)
NamesOneSource(w) ==
  \/ w.names # << >> /\ w.ids = << >> /\ w.instance = NoInstance
  \/ w.names = << >> /\ w.ids # << >> /\ w.instance = NoInstance
  \/ w.names = << >> /\ w.ids = << >> /\ w.instance # NoInstance

Ask(k, w) ==
  /\ ~Busy(k)
  /\ NamesOneSource(w)
  /\ Hold(k, [at |-> "lookup", want |-> w, looked |-> 0,
              found |-> << >>, tried |-> 0, keys |-> 0, servers |-> {}])

(* One query for each name or id; a missing row ends the request.  The     *)
(* last one read, Provision goes through them; an invocation has but one,  *)
(* checks it, and then reads the body of the request.                      *)
RowsAsked(w, j) ==
  {n \in Live(tools) : IF w.names # << >> THEN n = w.names[j] ELSE tools[n].id = w.ids[j]}

Asked(w) == Len(w.names) + Len(w.ids)

MayBeInvoked(row) == row.kind # "harness" /\ row.enabled

LookUp(k) ==
  /\ consumer[k].at = "lookup" /\ consumer[k].looked < Asked(consumer[k].want)
  /\ LET h == consumer[k]
         rows == {AsRead(n) : n \in RowsAsked(h.want, h.looked + 1)}
     IN  \/ rows = {} /\ Refuse(k)
         \/ \E row \in rows :
              IF h.want.way = "invoke"
                THEN IF MayBeInvoked(row)
                       THEN Hold(k, [h EXCEPT !.at = "run", !.looked = @ + 1,
                                              !.found = <<row>>])
                       ELSE Refuse(k)
                ELSE Hold(k, [h EXCEPT
                       !.at = IF h.looked + 1 = Asked(h.want) THEN "configure" ELSE @,
                       !.looked = @ + 1,
                       !.found = Append(@, row)])

(* ListInstanceTools, one query: the instance's opt-ins that are on, of    *)
(* which the MCP ones are taken.                                           *)
AllMCPTools(i) == {n \in Live(tools) : tools[n].enabled /\ tools[n].kind = "mcp"}

OptedInMCPTools(i) ==
  {n \in Live(tools) : /\ [instance |-> i, tool |-> tools[n].id] \in optIns
                       /\ tools[n].enabled
                       /\ tools[n].kind = "mcp"}

ListInstance(k) ==
  /\ consumer[k].at = "lookup" /\ Asked(consumer[k].want) = 0
  /\ LET h == consumer[k]
         listed == OptedInMCPTools(h.want.instance)
     IN  \E order \in [1 .. Cardinality(listed) -> listed] :
           /\ \A n \in listed : \E j \in DOMAIN order : order[j] = n
           /\ Hold(k, [h EXCEPT !.at = "configure",
                                !.found = [j \in DOMAIN order |-> AsRead(order[j])]])

-----------------------------------------------------------------------------
(* The loop of Provision, and resolveEnv inside it.                        *)

ProvisionableUnchecked(row) == row.kind = "mcp"
Provisionable(row) == row.enabled /\ row.kind = "mcp"

Configure(k) ==
  /\ consumer[k].at = "configure" /\ consumer[k].found # << >>
  /\ LET h == consumer[k] IN
       IF Provisionable(Head(h.found))
         THEN Hold(k, [h EXCEPT !.at = "resolve"])
         ELSE Refuse(k)

(* One call of auth-store.  It fails for a key without a mapping, for a    *)
(* provider without a credential, and whenever the network does.           *)
SkipTheKey(k) == Hold(k, [consumer[k] EXCEPT !.tried = @ + 1])
FailedCall(k) == Refuse(k)

ResolveKey(k) ==
  /\ consumer[k].at = "resolve"
  /\ LET h == consumer[k]
         keys == EnvKeys[Head(h.found).name]
     IN  /\ h.tried < Len(keys)
         /\ \/ /\ keys[h.tried + 1] \in held
               /\ Hold(k, [h EXCEPT !.tried = @ + 1, !.keys = @ + 1])
            \/ FailedCall(k)

(* out.MCPServers[name] = cfg.                                             *)
AddServer(k) ==
  /\ consumer[k].at = "resolve"
  /\ LET h == consumer[k]
         row == Head(h.found)
     IN  /\ h.tried = Len(EnvKeys[row.name])
         /\ Hold(k, [h EXCEPT
              !.at = "configure",
              !.found = Tail(@),
              !.tried = 0,
              !.keys = 0,
              !.servers = {s \in @ : s.name # row.name}
                            \cup {[name |-> row.name, id |-> row.id, keys |-> h.keys]}])

(* The answer is written, or the tool runs: an MCP tool is not run (400).  *)
Done(k) == consumer[k].at = "configure" /\ consumer[k].found = << >>

Answer(k) ==
  /\ Done(k) \/ consumer[k].at = "run"
  /\ Hold(k, Resting)

-----------------------------------------------------------------------------
ConsumerStep(k) ==
  \/ \E w \in Wants : Ask(k, w)
  \/ LookUp(k) \/ ListInstance(k)
  \/ Configure(k) \/ ResolveKey(k) \/ AddServer(k)
  \/ Answer(k)

(* Credentials are added to auth-store, withdrawn and expire.              *)
AuthStoreChanges(p) ==
  held' = IF p \in held THEN held \ {p} ELSE held \cup {p}

(* What a request may be given now: for an instance its opted-in MCP tools *)
(* that are on, for names and ids the MCP tools that are on, for an        *)
(* invocation the tools that are on and no harness's.                      *)
OnOffer(w, table, optedIn) ==
  {[name |-> n, id |-> table[n].id] :
     n \in {m \in Live(table) :
              /\ table[m].enabled
              /\ IF w.way = "invoke" THEN table[m].kind # "harness"
                                     ELSE table[m].kind = "mcp"
              /\ w.instance # NoInstance =>
                   [instance |-> w.instance, tool |-> table[m].id] \in optedIn}}

Watch ==
  seen' = [k \in Consumers |->
             IF consumer'[k].at = "idle" THEN {}
             ELSE seen[k] \cup {OnOffer(consumer'[k].want, tools', optIns')}]

ProvisionNext ==
  /\ \/ Next /\ UNCHANGED <<held, consumer>>
     \/ (\E k \in Consumers : ConsumerStep(k)) /\ UNCHANGED <<vars, held>>
     \/ (\E p \in Providers : AuthStoreChanges(p)) /\ UNCHANGED <<vars, consumer>>
  /\ Watch

ProvisionSpec == ProvisionInit /\ [][ProvisionNext]_provisionVars

-----------------------------------------------------------------------------
(* Properties.                                                             *)

HandedOut(k) ==
  CASE Done(k) ->
         {[name |-> s.name, id |-> s.id] : s \in consumer[k].servers}
    [] consumer[k].at = "run" ->
         {[name |-> consumer[k].found[1].name, id |-> consumer[k].found[1].id]}
    [] OTHER -> {}

(* Provision.go: "Errors out (no fallback) if any tool is missing,         *)
(* disabled".  The rows are read before the slow calls, so a tool may be   *)
(* off by the time of the answer; but a tool is handed out, or run, only   *)
(* if at some moment of this very request it was on, of the right kind     *)
(* and, for an instance, opted in, all three at once.                      *)
HandsOutOnlyWhatWasOnOffer ==
  \A k \in Consumers : HandedOut(k) \subseteq UNION seen[k]

(* An answer is whole.  It has one server of a name, with every           *)
(* environment key it needs.  For names these are the names asked; for ids *)
(* only tools of ids asked, and each of the ids has its tool there or,     *)
(* where that had lost its name, the tool of another of the ids that took  *)
(* the name; for an instance the whole opt-in list of one moment, never a  *)
(* mixture of two.                                                         *)
AnswersAreWhole ==
  \A k \in Consumers : Done(k) =>
    LET h == consumer[k] IN
      /\ \A s \in h.servers : s.keys = Len(EnvKeys[s.name])
      /\ \A s, t \in h.servers : s.name = t.name => s = t
      /\ h.want.names # << >> =>
           {s.name : s \in h.servers} = {h.want.names[j] : j \in DOMAIN h.want.names}
      /\ h.want.ids # << >> =>
           /\ {s.id : s \in h.servers} \subseteq {h.want.ids[j] : j \in DOMAIN h.want.ids}
           /\ \A j \in DOMAIN h.want.ids : \E s \in h.servers :
                [name |-> s.name, id |-> h.want.ids[j]] \in UNION seen[k]
      /\ h.want.instance # NoInstance => HandedOut(k) \in seen[k]

(* Provision.go: "Errors out (no fallback) if any tool is missing": every  *)
(* id asked is in the answer, or there is none.  The code does not keep    *)
(* it: the servers are a map by name, and of two ids that were looked up   *)
(* under one name, before and after it was registered anew, one is lost.   *)
EveryIdIsAnswered ==
  \A k \in Consumers : Done(k) =>
    \A j \in DOMAIN consumer[k].want.ids :
      \E s \in consumer[k].servers : s.id = consumer[k].want.ids[j]
=============================================================================
