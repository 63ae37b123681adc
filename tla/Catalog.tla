------------------------------- MODULE Catalog -------------------------------
(***************************************************************************)
(* The catalog: the tables nas and clients (internal/store: nas.go,        *)
(* clients.go, catalog.go), the autofill that learns them from decoded     *)
(* packets (internal/catalog), and the handlers that edit and import them. *)
(*                                                                         *)
(* Observe runs in the goroutines of the orchestrator, of a replay, of a   *)
(* synth run and of the forwarder's readers, with no lock of its own: it   *)
(* reads, merges and writes in statements of the store (which has one      *)
(* connection), and others run between them.  A handler's edit is one      *)
(* statement, an import one transaction.                                   *)
(*                                                                         *)
(* A table is the sequence of its rows in the order they were inserted,    *)
(* the order in which SQLite scans it.  Of the columns, identifier stands  *)
(* for vendor too; notes and ports are left out.                           *)
(***************************************************************************)
EXTENDS NASNames, Integers, FiniteSets, SequencesExt

CONSTANTS Addr,           \* addresses
          MAC, Normal,    \* notations of station addresses; MAC -> its normal one
          User, Secret,
          Worker,         \* goroutines that call Observe
          Message,        \* what the decoded packets say
          NASItem, ClientItem,   \* what users enter
          ImportRequest,  \* [mode, nas, clients] of the imports
          MaxRows,        \* bound: rows inserted
          MaxEdits        \* bound: edits by users, imports too

Maybe(S) == S \cup {None}
NASFields == [ip : Maybe(Addr), name : Maybe(Name), identifier : Maybe(Name),
              secret : Maybe(Secret)]
ClientFields == [mac : Maybe(MAC), username : Maybe(User)]
Decoded == [request : BOOLEAN, proxy : BOOLEAN, src : Maybe(Addr), nas : Maybe(Addr),
            domain : Maybe(Domain), identifier : Maybe(Name), mac : Maybe(MAC),
            user : Maybe(User)]
Request == [mode : {"merge", "replace"}, nas : Seq(NASFields), clients : Seq(ClientFields)]

ASSUME CatalogAssumption ==
    /\ None \notin MAC \cup User \cup Secret \cup Name
    /\ Addr \subseteq Name
    /\ Normal \in [MAC -> MAC] /\ \A m \in MAC : Normal[Normal[m]] = Normal[m]
    /\ NASItem \subseteq NASFields /\ ClientItem \subseteq ClientFields
    /\ Message \subseteq Decoded
    /\ \A m \in Message : m.mac # None => Normal[m.mac] = m.mac
    /\ ImportRequest \subseteq Request
    /\ MaxRows \in Nat /\ MaxEdits \in Nat

VARIABLES nas,        \* rows: the fields and an id
          clients,
          nextID,     \* the next id
          worker,     \* Worker -> where its Observe is
          edits,      \* number of edits
          seen,       \* history: id -> what was observed; None for a user's row
          disturbed   \* history: an Observe met another of its NAS or station, or an edit,
                    \* or could not read

vars == <<nas, clients, nextID, worker, edits, seen, disturbed>>

Idle == [pc |-> "idle"]
Busy(w) == worker[w].pc # "idle"

Init ==
    /\ nas = <<>> /\ clients = <<>>
    /\ nextID = 1
    /\ worker = [w \in Worker |-> Idle]
    /\ edits = 0
    /\ seen = [i \in 1 .. MaxRows |-> None]
    /\ disturbed = FALSE
----------------------------------------------------------------------------
(* The store's statements. *)
Has(table, field, v) == \E i \in DOMAIN table : table[i][field] = v
First(table, field, v) ==
    table[CHOOSE i \in DOMAIN table :
            table[i][field] = v /\ \A j \in 1 .. i - 1 : table[j][field] # v]
Row(fields, id) ==
    [f \in DOMAIN fields \cup {"id"} |-> IF f = "id" THEN id ELSE fields[f]]
Insert(table, id, fields) == Append(table, Row(fields, id))
Change(table, id, Op(_)) ==
    [i \in DOMAIN table |-> IF table[i].id = id THEN Op(table[i]) ELSE table[i]]
Put(table, row) ==
    [i \in DOMAIN table |-> IF table[i].id = row.id THEN row ELSE table[i]]
Delete(table, id) == RemoveAt(table, CHOOSE i \in DOMAIN table : table[i].id = id)
Fields(row) == [f \in DOMAIN row \ {"id"} |-> row[f]]
Or(v, w) == IF v # None THEN v ELSE w

----------------------------------------------------------------------------
(* Observe. *)

(* The NAS of a request: the sender, if a proxy passed it on. *)
NasIP(m) == IF m.proxy THEN Or(m.src, m.nas) ELSE m.nas
Incoming(m) == CatalogNASName(m.proxy, m.domain, m.identifier)

(* History of a row: the names with the prefix that were observed, and the *)
(* first other one that is not the address.                                *)
NothingSeen == [names |-> {}, label |-> None]
Saw(s, m, ip) ==
    LET new == Incoming(m) IN
    [names |-> s.names \cup ({new} \cap ProxyNames),
     label |-> IF s.label = None /\ new \notin ProxyNames \cup {ip} THEN new ELSE s.label]

Go(w, m, pc) == worker' = [worker EXCEPT ![w] = [pc |-> pc, msg |-> m]]
Done(w) == worker' = [worker EXCEPT ![w] = Idle]
(* The NAS is done: the station comes next, if the packet names one. *)
GoClient(w, m) == IF m.mac = None THEN Done(w) ELSE Go(w, m, "client")
Overlap(w, m) ==
    \E v \in Worker \ {w} :
        /\ Busy(v)
        /\ \/ NasIP(worker[v].msg) = NasIP(m)
           \/ m.mac # None /\ worker[v].msg.mac = m.mac

(* GetNASByIP, and the name for the row.  Answers teach no NAS.  If the    *)
(* read fails, the name is taken as if there were no row.                  *)
NewName(m) == Or(Incoming(m), NasIP(m))
NameFor(m) ==
    IF Has(nas, "ip", NasIP(m))
    THEN MergeAutofillName(First(nas, "ip", NasIP(m)).name, Incoming(m), NasIP(m))
    ELSE NewName(m)

Observe(w, m) ==
    /\ ~Busy(w)
    /\ m.request /\ NasIP(m) # None
    /\ \/ /\ worker' = [worker EXCEPT ![w] = [pc |-> "ensure", msg |-> m, name |-> NameFor(m)]]
          /\ disturbed' = (disturbed \/ Overlap(w, m))
       \/ /\ worker' = [worker EXCEPT ![w] = [pc |-> "ensure", msg |-> m, name |-> NewName(m)]]
          /\ disturbed' = TRUE
    /\ UNCHANGED <<nas, clients, nextID, edits, seen>>

ObserveClient(w, m) ==
    /\ ~Busy(w)
    /\ ~m.request \/ NasIP(m) = None
    /\ m.mac # None
    /\ Go(w, m, "client")
    /\ disturbed' = (disturbed \/ Overlap(w, m))
    /\ UNCHANGED <<nas, clients, nextID, edits, seen>>

\* Mutant: the row is not looked for.
EnsureInserts(w) ==
    /\ worker[w].pc = "ensure"
    /\ worker' = [worker EXCEPT ![w] =
         [pc |-> "insert", msg |-> @.msg, name |-> @.name, id |-> None]]
    /\ UNCHANGED <<nas, clients, nextID, edits, seen, disturbed>>

(* EnsureNAS: the row is looked for, then updated or inserted. *)
EnsureNAS(w) ==
    /\ worker[w].pc = "ensure"
    /\ LET ip == NasIP(worker[w].msg) IN
         worker' = [worker EXCEPT ![w] =
           [pc |-> IF Has(nas, "ip", ip) THEN "update" ELSE "insert", msg |-> @.msg,
            name |-> @.name, id |-> IF Has(nas, "ip", ip) THEN First(nas, "ip", ip).id ELSE None]]
    /\ UNCHANGED <<nas, clients, nextID, edits, seen, disturbed>>

\* Mutant: the identifier is replaced, too.
LearnReplaces(row, name, m) == [row EXCEPT !.name = name, !.identifier = m.identifier]

Learn(row, name, m) == [row EXCEPT !.name = name, !.identifier = Or(@, m.identifier)]

UpdateLearned(w) ==
    LET m == worker[w].msg  id == worker[w].id IN
    /\ worker[w].pc = "update"
    /\ nas' = Change(nas, id, LAMBDA row : Learn(row, worker[w].name, m))
    /\ seen' = [seen EXCEPT ![id] = IF @ = None THEN None ELSE Saw(@, m, NasIP(m))]
    /\ GoClient(w, m)
    /\ UNCHANGED <<clients, nextID, edits, disturbed>>

InsertLearned(w) ==
    LET m == worker[w].msg IN
    /\ worker[w].pc = "insert" /\ nextID <= MaxRows
    /\ nas' = Insert(nas, nextID, [ip |-> NasIP(m), name |-> worker[w].name,
                                   identifier |-> m.identifier, secret |-> None])
    /\ seen' = [seen EXCEPT ![nextID] = Saw(NothingSeen, m, NasIP(m))]
    /\ nextID' = nextID + 1
    /\ GoClient(w, m)
    /\ UNCHANGED <<clients, edits, disturbed>>

(* A statement of EnsureNAS fails. *)
EnsureFails(w) ==
    /\ worker[w].pc \in {"ensure", "update", "insert"}
    /\ GoClient(w, worker[w].msg)
    /\ UNCHANGED <<nas, clients, nextID, edits, seen, disturbed>>

(* EnsureClient: a station is inserted, or gets a user name if it has none. *)
EnsureClient(w) ==
    LET m == worker[w].msg IN
    /\ worker[w].pc = "client"
    /\ IF ~Has(clients, "mac", m.mac) THEN Go(w, m, "new")
       ELSE LET row == First(clients, "mac", m.mac) IN
            IF m.user # None /\ row.username = None
            THEN worker' = [worker EXCEPT ![w] = [pc |-> "user", msg |-> m, id |-> row.id]]
            ELSE Done(w)
    /\ UNCHANGED <<nas, clients, nextID, edits, seen, disturbed>>

NameStation(w) ==
    /\ worker[w].pc = "user"
    /\ clients' = Change(clients, worker[w].id,
                         LAMBDA row : [row EXCEPT !.username = worker[w].msg.user])
    /\ Done(w)
    /\ UNCHANGED <<nas, nextID, edits, seen, disturbed>>

(* mac is UNIQUE: the insert fails if somebody was faster. *)
InsertStation(w) ==
    LET m == worker[w].msg IN
    /\ worker[w].pc = "new" /\ nextID <= MaxRows
    /\ IF Has(clients, "mac", m.mac)
       THEN UNCHANGED <<clients, nextID, seen>>
       ELSE /\ clients' = Insert(clients, nextID, [mac |-> m.mac, username |-> m.user])
            /\ seen' = [seen EXCEPT ![nextID] = NothingSeen]
            /\ nextID' = nextID + 1
    /\ Done(w)
    /\ UNCHANGED <<nas, edits, disturbed>>

(* A statement of EnsureClient fails. *)
ClientFails(w) ==
    /\ worker[w].pc \in {"client", "user", "new"}
    /\ Done(w)
    /\ UNCHANGED <<nas, clients, nextID, edits, seen, disturbed>>
----------------------------------------------------------------------------
(* The handlers.  Whoever edits a row by hand is responsible for it. *)

Edit(ids) ==
    /\ edits < MaxEdits /\ edits' = edits + 1
    /\ disturbed' = (disturbed \/ \E w \in Worker : Busy(w))
    /\ seen' = [i \in DOMAIN seen |-> IF i \in ids THEN None ELSE seen[i]]
    /\ UNCHANGED worker

(* POST and PUT check nothing: neither that there is an address, nor that *)
(* it is new.  What PUT leaves empty becomes empty.                       *)
CreateNAS(item) ==
    /\ nextID <= MaxRows
    /\ nas' = Insert(nas, nextID, item)
    /\ nextID' = nextID + 1
    /\ Edit({nextID})
    /\ UNCHANGED clients

UpdateNAS(id, item) ==
    /\ Has(nas, "id", id)
    /\ nas' = Put(nas, Row(item, id))
    /\ Edit({id})
    /\ UNCHANGED <<clients, nextID>>

DeleteNAS(id) ==
    /\ Has(nas, "id", id)
    /\ nas' = Delete(nas, id)
    /\ Edit({id})
    /\ UNCHANGED <<clients, nextID>>

(* The address is stored as it was written; the same twice is an error. *)
CreateClient(item) ==
    /\ nextID <= MaxRows /\ ~Has(clients, "mac", item.mac)
    /\ clients' = Insert(clients, nextID, item)
    /\ nextID' = nextID + 1
    /\ Edit({nextID})
    /\ UNCHANGED nas

UpdateClient(id, item) ==
    /\ Has(clients, "id", id)
    /\ \A i \in DOMAIN clients : clients[i].mac = item.mac => clients[i].id = id
    /\ clients' = Put(clients, Row(item, id))
    /\ Edit({id})
    /\ UNCHANGED <<nas, nextID>>

DeleteClient(id) ==
    /\ Has(clients, "id", id)
    /\ clients' = Delete(clients, id)
    /\ Edit({id})
    /\ UNCHANGED <<nas, nextID>>
----------------------------------------------------------------------------
(* Import and export.  An import works on cat, a catalog [nas, clients,     *)
(* next]; its rows take ids from next on.                                  *)

Catalog == [nas |-> nas, clients |-> clients, next |-> nextID]

(* One item of the table: the row of the same key is updated, or one made.  *)
(* Merge keeps, of the fields that can be kept, what the item leaves empty. *)
ImportItem(cat, table, key, item, keep, mode) ==
    IF Has(cat[table], key, item[key])
    THEN LET old == First(cat[table], key, item[key])
             new == IF mode = "replace" THEN item
                    ELSE [f \in DOMAIN item |-> IF f \in keep THEN Or(item[f], old[f])
                                                ELSE item[f]]
         IN [cat EXCEPT ![table] = Put(@, Row(new, old.id))]
    ELSE [cat EXCEPT ![table] = Insert(@, cat.next, item), !.next = @ + 1]

\* Mutant: an empty identifier of the item is taken over.
ImportNASForgets(cat, item, mode) ==
    ImportItem(cat, "nas", "ip", [item EXCEPT !.name = Or(@, item.ip)],
               {"secret"}, mode)

ImportNAS(cat, item, mode) ==
    ImportItem(cat, "nas", "ip", [item EXCEPT !.name = Or(@, item.ip)],
               {"secret", "identifier"}, mode)

\* Mutant: the address is taken as it is written.
ImportClientAsIs(cat, item, mode) ==
    ImportItem(cat, "clients", "mac", item, {"username"}, mode)

ImportClient(cat, item, mode) ==
    ImportItem(cat, "clients", "mac", [item EXCEPT !.mac = Normal[@]], {"username"}, mode)

(* Replace empties the tables first. *)
ImportBase(mode) ==
    IF mode = "replace" THEN [Catalog EXCEPT !.nas = <<>>, !.clients = <<>>] ELSE Catalog

Acceptable(req) ==
    /\ \A i \in DOMAIN req.nas : req.nas[i].ip # None
    /\ \A i \in DOMAIN req.clients : req.clients[i].mac # None

ImportedNAS(base, items, mode) ==
    FoldLeft(LAMBDA cat, item : ImportNAS(cat, item, mode), base, items)
ImportedClients(base, items, mode) ==
    FoldLeft(LAMBDA cat, item : ImportClient(cat, item, mode), base, items)
Imported(req) ==
    ImportedClients(ImportedNAS(ImportBase(req.mode), req.nas, req.mode),
                    req.clients, req.mode)

(* One transaction: an item without its key undoes it all. *)
ImportCatalog(req) ==
    LET cat == Imported(req) IN
    /\ edits < MaxEdits /\ edits' = edits + 1
    /\ Acceptable(req)
    /\ cat.next <= MaxRows + 1
    /\ nas' = cat.nas /\ clients' = cat.clients /\ nextID' = cat.next
    /\ disturbed' = (disturbed \/ \E w \in Worker : Busy(w))
    /\ seen' = [i \in DOMAIN seen |->
                  IF Has(cat.clients, "id", i)
                  THEN IF i < nextID THEN seen[i] ELSE NothingSeen
                  ELSE IF Has(cat.nas, "id", i) /\ i < nextID
                          /\ First(cat.nas, "id", i) = First(nas, "id", i)
                       THEN seen[i] ELSE None]
    /\ UNCHANGED worker

\* Mutant: secrets are not shown.
ExportHidesSecrets(mode) ==
    [mode |-> mode,
     nas |-> [i \in DOMAIN nas |-> [ip |-> nas[i].ip, name |-> nas[i].name,
                                   identifier |-> nas[i].identifier, secret |-> None]],
     clients |-> [i \in DOMAIN clients |-> [mac |-> clients[i].mac,
                                            username |-> clients[i].username]]]

(* The export lists rows by name and by address, an order that makes no    *)
(* difference to an import unless two have one address.  ListNAS and       *)
(* ListClients are two statements: this is what they list together when    *)
(* nothing is written between them.                                        *)
ExportCatalog(mode) ==
    [mode |-> mode, nas |-> [i \in DOMAIN nas |-> Fields(nas[i])],
     clients |-> [i \in DOMAIN clients |-> Fields(clients[i])]]
----------------------------------------------------------------------------
WorkerNext(w) ==
    \/ \E m \in Message : Observe(w, m) \/ ObserveClient(w, m)
    \/ EnsureNAS(w) \/ UpdateLearned(w) \/ InsertLearned(w) \/ EnsureFails(w)
    \/ EnsureClient(w) \/ NameStation(w) \/ InsertStation(w) \/ ClientFails(w)

HandlerNext ==
    \/ \E item \in NASItem : CreateNAS(item)
    \/ \E id \in 1 .. MaxRows, item \in NASItem : UpdateNAS(id, item)
    \/ \E id \in 1 .. MaxRows : DeleteNAS(id)
    \/ \E item \in ClientItem : CreateClient(item)
    \/ \E id \in 1 .. MaxRows, item \in ClientItem : UpdateClient(id, item)
    \/ \E id \in 1 .. MaxRows : DeleteClient(id)
    \/ \E req \in ImportRequest : ImportCatalog(req)

Next == HandlerNext \/ \E w \in Worker : WorkerNext(w)

Spec == Init /\ [][Next]_vars
----------------------------------------------------------------------------
NASRow == [ip : Maybe(Addr), name : Maybe(Name), identifier : Maybe(Name),
           secret : Maybe(Secret), id : Nat \ {0}]
ClientRow == [mac : Maybe(MAC), username : Maybe(User), id : Nat \ {0}]
Tables == [nas : Seq(NASRow), clients : Seq(ClientRow), next : Nat \ {0}]

Learning == {m \in Message : m.request /\ NasIP(m) # None}
Naming == {m \in Message : m.mac # None}
Observing ==
    [pc : {"idle"}]
    \cup [pc : {"ensure"}, msg : Learning, name : Name]
    \cup [pc : {"update"}, msg : Learning, name : Name, id : Nat \ {0}]
    \cup [pc : {"insert"}, msg : Learning, name : Name, id : {None}]
    \cup [pc : {"client", "new"}, msg : Naming]
    \cup [pc : {"user"}, msg : Naming, id : Nat \ {0}]
History == [names : {P \in SUBSET ProxyNames : IsFiniteSet(P)},
            label : Maybe(Name \ ProxyNames)]

TypeOK ==
    /\ Catalog \in Tables
    /\ nextID <= MaxRows + 1 /\ edits \in Nat
    /\ worker \in [Worker -> Observing]
    /\ seen \in [1 .. MaxRows -> History \cup {None}]
    /\ disturbed \in BOOLEAN

(* The name for all that was observed, whatever the order: PROXY-VX if     *)
(* several names with the prefix came, or it came itself, else the one     *)
(* that came, else the first identifier, else the address.                 *)
ObservedName(s, ip) ==
    IF ProxyMultiName \in s.names \/ Cardinality(s.names) > 1 THEN ProxyMultiName
    ELSE IF s.names # {} THEN CHOOSE n \in s.names : TRUE
    ELSE Or(s.label, ip)

(* A NAS that users left alone is named for all that was seen of it: once  *)
(* several RF-Domains, PROXY-VX for good (name.go:37, docs/harness.md:54). *)
(* An identifier that begins with PROXY- counts as an RF-Domain does.      *)
(* This needs that Observe meets no other of the same NAS and no edit      *)
(* between its read and its write, and that the address itself, which a    *)
(* malformed NAS-IP-Address can make any text, does not begin so.          *)
NamesAreObserved ==
    ~disturbed =>
        \A i \in DOMAIN nas :
            seen[nas[i].id] # None /\ nas[i].ip \notin ProxyNames =>
                nas[i].name = ObservedName(seen[nas[i].id], nas[i].ip)

(* One row per learned address (autofill_test.go:44), though nothing but   *)
(* the order of select and insert sees to it.                              *)
LearnedOnce ==
    ~disturbed =>
        \A i, j \in DOMAIN nas :
            /\ i # j
            /\ seen[nas[i].id] # None /\ seen[nas[j].id] # None
            => nas[i].ip # nas[j].ip

(* Autofill adds to the catalog (docs/harness.md:48), whatever it meets:   *)
(* no row goes, no address or secret changes, no identifier is replaced,   *)
(* and, unless it meets another for the station, no user name.             *)
AutofillOnlyAdds ==
    [][edits' = edits =>
         /\ \A i \in DOMAIN nas :
              /\ nas'[i].id = nas[i].id /\ nas'[i].ip = nas[i].ip
              /\ nas'[i].secret = nas[i].secret
              /\ nas'[i].identifier = Or(nas[i].identifier, nas'[i].identifier)
         /\ \A i \in DOMAIN clients :
              /\ clients'[i].id = clients[i].id /\ clients'[i].mac = clients[i].mac
              /\ disturbed \/ clients[i].username \in {None, clients'[i].username}]_vars

(* A station is in the catalog once, in the normal notation, however it    *)
(* was written in imports; only a row written by hand can repeat it.       *)
StationsOnce ==
    \A i, j \in DOMAIN clients :
        /\ seen[clients[i].id] # None /\ seen[clients[j].id] # None
        => /\ clients[i].mac = Normal[clients[i].mac]
           /\ i # j => clients[i].mac # clients[j].mac

(* An import in mode merge loses no row, and no secret, identifier or user *)
(* name but for another.                                                   *)
MergeForgetsNothing ==
    [][\A req \in ImportRequest :
         ImportCatalog(req) /\ req.mode = "merge" =>
           /\ \A i \in DOMAIN nas :
                /\ nas'[i].id = nas[i].id
                /\ nas[i].secret # None => nas'[i].secret # None
                /\ nas[i].identifier # None => nas'[i].identifier # None
           /\ \A i \in DOMAIN clients :
                /\ clients'[i].id = clients[i].id
                /\ clients[i].username # None => clients'[i].username # None]_vars

(* What an import can hold: addresses, each once, names, normal notation. *)
Tidy ==
    /\ \A i \in DOMAIN nas :
          /\ nas[i].ip # None /\ nas[i].name # None
          /\ \A j \in DOMAIN nas : nas[i].ip = nas[j].ip => i = j
    /\ \A i \in DOMAIN clients :
          clients[i].mac # None /\ clients[i].mac = Normal[clients[i].mac]

(* The export of a tidy catalog can be imported as it is (docs/api.md:74), *)
(* in either mode, and gives the same catalog.                             *)
RoundTrip ==
    Tidy => \A mode \in {"merge", "replace"} :
        LET req == ExportCatalog(mode)  cat == Imported(req)
        IN /\ Acceptable(req)
           /\ [i \in DOMAIN cat.nas |-> Fields(cat.nas[i])] = req.nas
           /\ [i \in DOMAIN cat.clients |-> Fields(cat.clients[i])] = req.clients
----------------------------------------------------------------------------
(* What makes these properties inductive.  The rows of both tables are told *)
(* apart by their ids, and stations by their addresses (UNIQUE).            *)
Once(table, field) ==
    \A i, j \in DOMAIN table : table[i][field] = table[j][field] => i = j
Keyed(cat) ==
    /\ Once(cat.nas, "id") /\ Once(cat.clients, "id") /\ Once(cat.clients, "mac")
    /\ \A i \in DOMAIN cat.nas : cat.nas[i].id < cat.next
    /\ \A i \in DOMAIN cat.clients : cat.clients[i].id < cat.next
    /\ \A i \in DOMAIN cat.nas, j \in DOMAIN cat.clients :
          cat.nas[i].id # cat.clients[j].id

(* While undisturbed, two calls are about different NAS and stations, and  *)
(* what a call has read of its rows is still so when it writes.            *)
CallsApart ==
    \A v, w \in Worker :
        v # w /\ Busy(v) /\ Busy(w) =>
            /\ NasIP(worker[v].msg) # NasIP(worker[w].msg)
            /\ worker[v].msg.mac # None => worker[v].msg.mac # worker[w].msg.mac
ReadHolds(me) ==
    LET ip == NasIP(me.msg) IN
    /\ me.pc \in {"ensure", "update", "insert"} => me.name = NameFor(me.msg)
    /\ me.pc = "update" => Has(nas, "ip", ip) /\ me.id = First(nas, "ip", ip).id
    /\ me.pc = "insert" => ~Has(nas, "ip", ip)
    /\ me.pc = "user" =>
         \E i \in DOMAIN clients :
             /\ clients[i].id = me.id /\ clients[i].mac = me.msg.mac
             /\ clients[i].username = None
ReadsHold == \A w \in Worker : ReadHolds(worker[w])

(* A learned row has an address, which is not what it is named for. *)
LabelsDiffer ==
    \A i \in DOMAIN nas :
        seen[nas[i].id] # None => nas[i].ip # None /\ seen[nas[i].id].label # nas[i].ip

CatalogInv ==
    /\ TypeOK /\ Keyed(Catalog) /\ StationsOnce
    /\ LearnedOnce /\ NamesAreObserved
    /\ ~disturbed => CallsApart /\ ReadsHold /\ LabelsDiffer
=============================================================================
