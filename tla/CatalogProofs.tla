--------------------------- MODULE CatalogProofs ---------------------------
(***************************************************************************)
(* The inductive invariant of Catalog and what follows from it, for any    *)
(* number of goroutines, rows and edits and whatever packets and imports   *)
(* say.                                                                    *)
(***************************************************************************)
EXTENDS Catalog, DataLemmas, SequenceTheorems, FiniteSetTheorems

(* The names that autofill merges are those for what was seen. *)

LEMMA IncomingIsName ==
  ASSUME NEW m \in Learning
  PROVE  /\ NasIP(m) \in Addr /\ NasIP(m) \in Name
         /\ Incoming(m) \in Maybe(Name) /\ NewName(m) \in Name
<1>1. m \in Decoded /\ NasIP(m) # None
  BY CatalogAssumption DEF Learning
<1>2. NasIP(m) \in Addr
  BY <1>1 DEF NasIP, Or, Decoded, Maybe
<1>3. NasIP(m) \in Name
  BY <1>2, CatalogAssumption
<1>4. Incoming(m) \in Maybe(Name)
  <2>1. \A d \in Domain : PROXY[d] \in Name
    BY NamesAssumption
  <2>2. m.domain \in Maybe(Domain) /\ m.identifier \in Maybe(Name) /\ m.proxy \in BOOLEAN
    BY <1>1 DEF Decoded
  <2>3. m.proxy => Incoming(m) = IF m.domain = None THEN None ELSE PROXY[m.domain]
    BY DEF Incoming, CatalogNASName
  <2>4. ~m.proxy => Incoming(m) = m.identifier
    BY DEF Incoming, CatalogNASName
  <2> QED BY <2>1, <2>2, <2>3, <2>4 DEF Maybe
<1> QED BY <1>2, <1>3, <1>4, CatalogAssumption DEF NewName, Or, Maybe

LEMMA NamesApart ==
  /\ None \notin Name /\ ProxyNames \subseteq Name
  /\ ProxyMultiName \in ProxyNames /\ ProxyMultiName # None
<1>1. None \notin Name /\ ProxyNames \subseteq Name
  BY CatalogAssumption, NamesAssumption
<1>2. ProxyMultiName \in ProxyNames
  BY NamesAssumption DEF ProxyMultiName
<1> QED BY <1>1, <1>2

LEMMA MergeIsName ==
  ASSUME NEW old \in Maybe(Name), NEW new \in Maybe(Name), NEW ip \in Name
  PROVE  MergeAutofillName(old, new, ip) \in Name
BY NamesApart DEF MergeAutofillName, Maybe

(* What is seen stays finite, and no label is the address. *)
LEMMA SawIsHistory ==
  ASSUME NEW m \in Learning, NEW s \in History, NEW ip, ip # None
  PROVE  Saw(s, m, ip) \in History /\ (s.label # ip => Saw(s, m, ip).label # ip)
<1> DEFINE new == Incoming(m)  more == {new} \cap ProxyNames
<1>1. new \in Maybe(Name)
  BY IncomingIsName
<1>2. more \in SUBSET ProxyNames /\ IsFiniteSet(more)
  BY FS_Singleton, FS_Subset
<1>3. /\ s.names \in SUBSET ProxyNames /\ IsFiniteSet(s.names)
      /\ s.label \in Maybe(Name \ ProxyNames)
  BY DEF History
<1>4. IsFiniteSet(s.names \cup more)
  BY <1>2, <1>3, FS_Union
<1>5. Saw(s, m, ip) = [names |-> s.names \cup more,
                      label |-> IF s.label = None /\ new \notin ProxyNames \cup {ip}
                                THEN new ELSE s.label]
  BY DEF Saw
<1> HIDE DEF new, more
<1> QED BY <1>1, <1>2, <1>3, <1>4, <1>5 DEF History, Maybe

LEMMA NothingIsHistory ==
  /\ NothingSeen \in History
  /\ NothingSeen.label = None /\ NothingSeen.names = {}
BY FS_EmptySet DEF NothingSeen, History, Maybe

(* The name that goes with what was seen: how many there are decides. *)
LEMMA SeenNames ==
  ASSUME NEW s \in History, NEW ip
  PROVE  /\ s.names = {} => ObservedName(s, ip) = Or(s.label, ip)
         /\ \A n : s.names = {n} => ObservedName(s, ip) = n
         /\ \A n, p \in s.names : n # p => ObservedName(s, ip) = ProxyMultiName
         /\ ProxyMultiName \in s.names => ObservedName(s, ip) = ProxyMultiName
<1>1. IsFiniteSet(s.names)
  BY DEF History
<1>2. ASSUME s.names = {} PROVE ObservedName(s, ip) = Or(s.label, ip)
  <2>1. Cardinality(s.names) = 0
    BY <1>2, FS_EmptySet
  <2> QED BY <1>2, <2>1 DEF ObservedName
<1>3. ASSUME NEW n, s.names = {n} PROVE ObservedName(s, ip) = n
  <2>1. Cardinality(s.names) = 1
    BY <1>3, FS_Singleton
  <2>2. (CHOOSE p \in s.names : TRUE) = n
    BY <1>3
  <2> QED BY <1>3, <2>1, <2>2 DEF ObservedName
<1>4. ASSUME NEW n \in s.names, NEW p \in s.names, n # p
      PROVE  ObservedName(s, ip) = ProxyMultiName
  <2>1. {n, p} \subseteq s.names
    OBVIOUS
  <2>2. Cardinality({n, p}) <= Cardinality(s.names) /\ IsFiniteSet({n, p})
    BY <1>1, <2>1, FS_Subset
  <2>3. Cardinality({n, p}) = 2
    <3>1. Cardinality({n} \cup {p}) = Cardinality({n}) + 1
      BY <1>4, FS_Singleton, FS_AddElement
    <3>2. Cardinality({n}) = 1
      BY FS_Singleton
    <3>3. {n} \cup {p} = {n, p}
      OBVIOUS
    <3> QED BY <3>1, <3>2, <3>3
  <2>4. Cardinality(s.names) \in Nat
    BY <1>1, FS_CardinalityType
  <2> QED BY <2>2, <2>3, <2>4 DEF ObservedName
<1>5. ProxyMultiName \in s.names => ObservedName(s, ip) = ProxyMultiName
  BY DEF ObservedName
<1> QED BY <1>2, <1>3, <1>4, <1>5

(* However many there are: none, one, or PROXY-VX or two. *)
LEMMA SeenCases ==
  ASSUME NEW s \in History
  PROVE  \/ s.names = {}
         \/ \E n \in ProxyNames : n # ProxyMultiName /\ s.names = {n}
         \/ ProxyMultiName \in s.names \/ \E n, p \in s.names : n # p
<1>1. s.names \subseteq ProxyNames
  BY DEF History
<1>2. ASSUME s.names # {}, ProxyMultiName \notin s.names, ~\E n, p \in s.names : n # p
      PROVE  \E n \in ProxyNames : n # ProxyMultiName /\ s.names = {n}
  <2>1. PICK n : n \in s.names
    BY <1>2
  <2>2. s.names = {n}
    BY <1>2, <2>1
  <2> QED BY <1>1, <1>2, <2>1, <2>2
<1> QED BY <1>2

(* To merge what comes with the name for what was seen gives the name for  *)
(* both.                                                                   *)
LEMMA MergeIsObserved ==
  ASSUME NEW m \in Learning, NEW s \in History, NEW ip, ip = NasIP(m),
         ip \notin ProxyNames, s.label # ip
  PROVE  MergeAutofillName(ObservedName(s, ip), Incoming(m), ip) = ObservedName(Saw(s, m, ip), ip)
<1> DEFINE t == Saw(s, m, ip)  old == ObservedName(s, ip)  new == Incoming(m)
<1>1. ip \in Name /\ ip # None /\ new \in Maybe(Name)
  BY IncomingIsName, NamesApart
<1>2. t \in History
  BY <1>1, SawIsHistory
<1>3. /\ t.names = s.names \cup ({new} \cap ProxyNames)
      /\ t.label = IF s.label = None /\ new \notin ProxyNames \cup {ip} THEN new ELSE s.label
  BY DEF Saw
<1>4. old = ObservedName(s, ip) /\ s.label \in Maybe(Name \ ProxyNames)
  BY DEF History
<1> SUFFICES MergeAutofillName(old, new, ip) = ObservedName(t, ip)
  OBVIOUS
<1> HIDE DEF t, new, old
<1>5. CASE s.names = {}
  <2>1. old = Or(s.label, ip)
    BY <1>4, <1>5, SeenNames
  <2>2. old # None /\ old \notin ProxyNames /\ old # ProxyMultiName
    BY <1>1, <1>4, <2>1, NamesApart DEF Or, Maybe
  <2>3. CASE new \in ProxyNames
    <3>1. t.names = {new} /\ new # None
      BY <1>3, <1>5, <2>3, NamesApart
    <3>2. ObservedName(t, ip) = new
      BY <1>2, <3>1, SeenNames
    <3> QED BY <2>2, <2>3, <3>1, <3>2 DEF MergeAutofillName
  <2>4. CASE new \notin ProxyNames
    <3>1. t.names = {} /\ new # ProxyMultiName
      BY <1>3, <1>5, <2>4, NamesApart
    <3>2. ObservedName(t, ip) = Or(t.label, ip)
      BY <1>2, <3>1, SeenNames
    <3>3. MergeAutofillName(old, new, ip) = IF new = None THEN old ELSE IF old = ip THEN new ELSE old
      BY <2>2, <2>4, <3>1 DEF MergeAutofillName
    <3>4. old = ip <=> s.label = None
      BY <1>1, <2>1 DEF Or
    <3> QED BY <1>1, <1>3, <2>1, <2>4, <3>2, <3>3, <3>4 DEF Or
  <2> QED BY <2>3, <2>4
<1>6. CASE \E n \in ProxyNames : n # ProxyMultiName /\ s.names = {n}
  <2>1. PICK n \in ProxyNames : n # ProxyMultiName /\ s.names = {n}
    BY <1>6
  <2>2. old = n /\ old # None /\ old # ip
    BY <1>4, <2>1, SeenNames, NamesApart
  <2>3. CASE new \in ProxyNames /\ new # n
    <3>1. t.names = {n, new} /\ new # None
      BY <1>3, <2>1, <2>3, NamesApart
    <3>2. ObservedName(t, ip) = ProxyMultiName
      BY <1>2, <2>3, <3>1, SeenNames
    <3> QED BY <2>1, <2>2, <2>3, <3>1, <3>2 DEF MergeAutofillName
  <2>4. CASE ~(new \in ProxyNames /\ new # n)
    <3>1. t.names = {n}
      BY <1>3, <2>1, <2>4
    <3>2. ObservedName(t, ip) = n
      BY <1>2, <3>1, SeenNames
    <3>3. new # ProxyMultiName
      BY <2>1, <2>4, NamesApart
    <3> QED BY <2>1, <2>2, <2>4, <3>2, <3>3 DEF MergeAutofillName
  <2> QED BY <2>3, <2>4
<1>7. CASE ProxyMultiName \in s.names \/ \E n, p \in s.names : n # p
  <2>1. old = ProxyMultiName
    BY <1>4, <1>7, SeenNames
  <2>2. ObservedName(t, ip) = ProxyMultiName
    BY <1>2, <1>3, <1>7, SeenNames
  <2> QED BY <2>1, <2>2 DEF MergeAutofillName
<1> QED BY <1>5, <1>6, <1>7, SeenCases

LEMMA NewIsObserved ==
  ASSUME NEW m \in Learning, NEW ip, ip = NasIP(m), ip \notin ProxyNames
  PROVE  NewName(m) = ObservedName(Saw(NothingSeen, m, ip), ip)
<1>1. ip # None
  BY DEF Learning
<1>2. ObservedName(NothingSeen, ip) = ip
  BY NothingIsHistory, SeenNames DEF Or
<1>3. MergeAutofillName(ip, Incoming(m), ip) = ObservedName(Saw(NothingSeen, m, ip), ip)
  BY <1>1, <1>2, NothingIsHistory, MergeIsObserved
<1>4. MergeAutofillName(ip, Incoming(m), ip) = Or(Incoming(m), ip)
  BY <1>1, NamesApart DEF MergeAutofillName, Or
<1> QED BY <1>3, <1>4 DEF NewName
----------------------------------------------------------------------------
(* Rows and the statements of the store. *)

LEMMA RowOfNAS ==
  ASSUME NEW item \in NASFields, NEW id \in Nat \ {0}
  PROVE  /\ Row(item, id) \in NASRow /\ Row(item, id).id = id
         /\ Row(item, id).ip = item.ip /\ Row(item, id).name = item.name
         /\ Row(item, id).identifier = item.identifier /\ Row(item, id).secret = item.secret
         /\ Fields(Row(item, id)) = item
BY DEF Row, NASRow, NASFields, Fields

LEMMA RowOfClient ==
  ASSUME NEW item \in ClientFields, NEW id \in Nat \ {0}
  PROVE  /\ Row(item, id) \in ClientRow /\ Row(item, id).id = id
         /\ Row(item, id).mac = item.mac /\ Row(item, id).username = item.username
         /\ Fields(Row(item, id)) = item
BY DEF Row, ClientRow, ClientFields, Fields

LEMMA FieldsOfNAS ==
  ASSUME NEW row \in NASRow
  PROVE  /\ Fields(row) \in NASFields /\ Row(Fields(row), row.id) = row
         /\ Fields(row).ip = row.ip /\ Fields(row).name = row.name
         /\ Fields(row).identifier = row.identifier /\ Fields(row).secret = row.secret
BY DEF Row, NASRow, NASFields, Fields

LEMMA FieldsOfClient ==
  ASSUME NEW row \in ClientRow
  PROVE  /\ Fields(row) \in ClientFields /\ Row(Fields(row), row.id) = row
         /\ Fields(row).mac = row.mac /\ Fields(row).username = row.username
BY DEF Row, ClientRow, ClientFields, Fields

(* A row that is there is found, and nothing like it comes before. *)
LEMMA FirstIs ==
  ASSUME NEW S, NEW table \in Seq(S), NEW field, NEW v, Has(table, field, v)
  PROVE  \E k \in DOMAIN table :
            /\ First(table, field, v) = table[k] /\ table[k][field] = v
            /\ \A j \in 1 .. k - 1 : table[j][field] # v
<1> DEFINE Hits == {i \in DOMAIN table : table[i][field] = v}
           k == CHOOSE i \in DOMAIN table :
                  table[i][field] = v /\ \A j \in 1 .. i - 1 : table[j][field] # v
<1>1. Hits \in SUBSET Nat /\ Hits # {}
  BY DEF Has
<1>2. PICK m \in Hits : \A i \in Hits : m <= i
  <2> HIDE DEF Hits
  <2> QED BY <1>1, MinNat
<1>3. m \in DOMAIN table /\ table[m][field] = v
  OBVIOUS
<1>4. \A j \in 1 .. m - 1 : table[j][field] # v
  <2> SUFFICES ASSUME NEW j \in 1 .. m - 1, table[j][field] = v PROVE FALSE
    OBVIOUS
  <2>1. j \in Hits
    BY <1>3
  <2> QED BY <1>2, <1>3, <2>1
<1>5. k \in DOMAIN table /\ table[k][field] = v /\ \A j \in 1 .. k - 1 : table[j][field] # v
  BY <1>3, <1>4
<1>6. First(table, field, v) = table[k]
  BY DEF First
<1> HIDE DEF k
<1> QED BY <1>5, <1>6

LEMMA FirstOnly ==
  ASSUME NEW S, NEW table \in Seq(S), NEW field, Once(table, field), NEW i \in DOMAIN table
  PROVE  Has(table, field, table[i][field]) /\ First(table, field, table[i][field]) = table[i]
<1>1. Has(table, field, table[i][field])
  BY DEF Has
<1> QED BY <1>1, FirstIs DEF Once

(* What is deleted goes, the rest stays in its order. *)
LEMMA DeleteIs ==
  ASSUME NEW S, NEW table \in Seq(S), NEW id, Has(table, "id", id)
  PROVE  /\ Delete(table, id) \in Seq(S)
         /\ \E k \in DOMAIN table :
              /\ table[k]["id"] = id /\ DOMAIN Delete(table, id) = 1 .. Len(table) - 1
              /\ \A i \in 1 .. Len(table) - 1 :
                    Delete(table, id)[i] = IF i < k THEN table[i] ELSE table[i + 1]
<1> DEFINE k == CHOOSE i \in DOMAIN table : table[i].id = id
<1>1. PICK n \in DOMAIN table : table[n]["id"] = id
  BY DEF Has
<1>2. k \in DOMAIN table /\ table[k].id = id
  BY <1>1
<1>3. Delete(table, id) = RemoveAt(table, k)
  BY DEF Delete
<1> HIDE DEF k
<1>4. k \in 1 .. Len(table) /\ Len(table) \in Nat
  BY <1>2
<1> DEFINE a == SubSeq(table, 1, k - 1)  b == SubSeq(table, k + 1, Len(table))
<1>5. /\ a \in Seq(S) /\ Len(a) = k - 1
      /\ \A i \in 1 .. k - 1 : a[i] = table[i]
  BY <1>4, SubSeqProperties
<1>6. /\ b \in Seq(S) /\ Len(b) = Len(table) - k
      /\ \A i \in 1 .. Len(table) - k : b[i] = table[k + i]
  BY <1>4, SubSeqProperties
<1>7. RemoveAt(table, k) = a \o b
  BY DEF RemoveAt
<1> HIDE DEF a, b
<1>8. /\ a \o b \in Seq(S) /\ Len(a \o b) = Len(table) - 1
      /\ \A i \in 1 .. Len(table) - 1 : (a \o b)[i] = IF i <= Len(a) THEN a[i] ELSE b[i - Len(a)]
  <2>1. a \o b \in Seq(S) /\ Len(a \o b) = Len(a) + Len(b)
    BY <1>5, <1>6
  <2>2. Len(a) + Len(b) = Len(table) - 1
    BY <1>4, <1>5, <1>6
  <2>3. \A i \in 1 .. Len(a) + Len(b) : (a \o b)[i] = IF i <= Len(a) THEN a[i] ELSE b[i - Len(a)]
    BY <1>5, <1>6, ConcatProperties
  <2> QED BY <2>1, <2>2, <2>3
<1>9. \A i \in 1 .. Len(table) - 1 : (a \o b)[i] = IF i < k THEN table[i] ELSE table[i + 1]
  <2> SUFFICES ASSUME NEW i \in 1 .. Len(table) - 1
               PROVE  (a \o b)[i] = IF i < k THEN table[i] ELSE table[i + 1]
    OBVIOUS
  <2>1. CASE i < k
    BY <1>4, <1>5, <1>8, <2>1
  <2>2. CASE i >= k
    <3>1. i - Len(a) \in 1 .. Len(table) - k /\ ~(i <= Len(a)) /\ k + (i - Len(a)) = i + 1
      BY <1>4, <1>5, <2>2
    <3>2. (a \o b)[i] = b[i - Len(a)] /\ b[i - Len(a)] = table[k + (i - Len(a))]
      BY <1>6, <1>8, <3>1
    <3>3. ~(i < k)
      BY <1>4, <2>2
    <3> QED BY <3>1, <3>2, <3>3
  <2>3. i \in Int /\ k \in Int
    BY <1>4
  <2>4. i < k \/ i >= k
    BY ONLY <2>3
  <2> QED BY <2>1, <2>2, <2>4
<1>10. DOMAIN (a \o b) = 1 .. Len(table) - 1
  BY <1>8
<1> QED BY <1>2, <1>3, <1>7, <1>8, <1>9, <1>10
----------------------------------------------------------------------------
(* An import is a fold, which the community modules define through a       *)
(* recursive function over the sets of places.                             *)
ImportInto(table, cat, item, mode) ==
    IF table = "nas" THEN ImportNAS(cat, item, mode) ELSE ImportClient(cat, item, mode)
Imports(f, table, base, items, mode, n) ==
    f = [s \in SUBSET (1 .. n) |->
           IF s = {} THEN base ELSE ImportInto(table, f[s \ {Max(s)}], items[Max(s)], mode)]

LEMMA ImportsExist ==
  ASSUME NEW table, NEW base, NEW items, NEW mode, NEW n \in Nat
  PROVE  \E f : Imports(f, table, base, items, mode, n)
<1> DEFINE Bad == {k \in Nat : ~ \E f : Imports(f, table, base, items, mode, k)}
<1> SUFFICES ASSUME Bad # {} PROVE FALSE
  OBVIOUS
<1>1. PICK m \in Bad : \A k \in Bad : m <= k
  <2>1. Bad \in SUBSET Nat
    OBVIOUS
  <2> HIDE DEF Bad
  <2> QED BY <2>1, MinNat
<1>2. m \in Nat /\ ~ \E f : Imports(f, table, base, items, mode, m)
  OBVIOUS
<1>3. CASE m = 0
  <2> DEFINE g == [s \in SUBSET (1 .. 0) |-> base]
  <2>1. \A s \in SUBSET (1 .. 0) : s = {}
    OBVIOUS
  <2>2. Imports(g, table, base, items, mode, 0)
    BY <2>1 DEF Imports
  <2> QED BY <1>2, <1>3, <2>2
<1>4. CASE m # 0
  <2>1. m - 1 \in Nat /\ m - 1 \notin Bad
    BY <1>1, <1>2, <1>4
  <2>2. PICK f : Imports(f, table, base, items, mode, m - 1)
    BY <2>1
  <2> HIDE DEF Bad
  <2> DEFINE g == [s \in SUBSET (1 .. m) |->
                     IF m \in s THEN ImportInto(table, f[s \ {m}], items[m], mode) ELSE f[s]]
  <2>3. \A s \in SUBSET (1 .. m - 1) :
           f[s] = IF s = {} THEN base ELSE ImportInto(table, f[s \ {Max(s)}], items[Max(s)], mode)
    BY <2>2 DEF Imports
  <2>4. \A s \in SUBSET (1 .. m) : m \notin s => s \in SUBSET (1 .. m - 1)
    BY <1>2
  <2>5. \A s \in SUBSET (1 .. m) : m \in s => Max(s) = m /\ s \ {m} \in SUBSET (1 .. m)
    <3> SUFFICES ASSUME NEW s \in SUBSET (1 .. m), m \in s
                 PROVE  Max(s) = m /\ s \ {m} \in SUBSET (1 .. m)
      OBVIOUS
    <3>1. \A y \in s : m >= y
      BY <1>2
    <3>2. \A x \in s : (\A y \in s : x >= y) => x = m
      BY <1>2, <3>1
    <3>3. Max(s) = m
      BY <3>1, <3>2 DEF Max
    <3> QED BY <3>3
  <2>6. \A s \in SUBSET (1 .. m) :
           g[s] = IF s = {} THEN base ELSE ImportInto(table, g[s \ {Max(s)}], items[Max(s)], mode)
    <3> SUFFICES ASSUME NEW s \in SUBSET (1 .. m)
                 PROVE  g[s] = IF s = {} THEN base
                               ELSE ImportInto(table, g[s \ {Max(s)}], items[Max(s)], mode)
      OBVIOUS
    <3>1. s \ {Max(s)} \in SUBSET (1 .. m)
      OBVIOUS
    <3>2. CASE m \in s
      <4>1. g[s \ {m}] = f[s \ {m}]
        BY <2>5, <3>2
      <4>2. g[s] = ImportInto(table, f[s \ {m}], items[m], mode)
        BY <3>2
      <4> HIDE DEF g
      <4> QED BY <2>5, <3>2, <4>1, <4>2
    <3>3. CASE m \notin s
      <4>1. g[s] = f[s] /\ g[s \ {Max(s)}] = f[s \ {Max(s)}]
        BY <3>1, <3>3
      <4> HIDE DEF g
      <4> QED BY <2>3, <2>4, <3>3, <4>1
    <3> QED BY <3>2, <3>3
  <2>7. Imports(g, table, base, items, mode, m)
    <3>1. g = [s \in SUBSET (1 .. m) |-> g[s]]
      OBVIOUS
    <3> HIDE DEF g
    <3>2. [s \in SUBSET (1 .. m) |-> g[s]] =
          [s \in SUBSET (1 .. m) |->
             IF s = {} THEN base ELSE ImportInto(table, g[s \ {Max(s)}], items[Max(s)], mode)]
      BY <2>6
    <3> QED BY <3>1, <3>2 DEF Imports
  <2> QED BY <1>2, <2>7
<1> QED BY <1>3, <1>4

(* Q[k] is a set that the catalog is in after k items. *)
LEMMA ImportsStay ==
  ASSUME NEW table, NEW base, NEW items, NEW mode, NEW n \in Nat, NEW f,
         Imports(f, table, base, items, mode, n),
         NEW Q, base \in Q[0],
         \A k \in 1 .. n : \A cat \in Q[k - 1] : ImportInto(table, cat, items[k], mode) \in Q[k]
  PROVE  f[1 .. n] \in Q[n]
<1>1. \A s \in SUBSET (1 .. n) :
         f[s] = IF s = {} THEN base ELSE ImportInto(table, f[s \ {Max(s)}], items[Max(s)], mode)
  BY DEF Imports
<1> DEFINE Bad == {k \in 0 .. n : f[1 .. k] \notin Q[k]}
<1>2. Bad = {}
  <2> SUFFICES ASSUME Bad # {} PROVE FALSE
    OBVIOUS
  <2>1. PICK m \in Bad : \A k \in Bad : m <= k
    <3>1. Bad \in SUBSET Nat
      OBVIOUS
    <3> HIDE DEF Bad
    <3> QED BY <3>1, MinNat
  <2>2. f[1 .. 0] = base
    <3>1. 1 .. 0 = {} /\ {} \in SUBSET (1 .. n)
      OBVIOUS
    <3> QED BY <1>1, <3>1
  <2>3. m # 0
    BY <2>1, <2>2
  <2>4. m - 1 \in 0 .. n /\ m - 1 \notin Bad /\ m \in 1 .. n
    BY <2>1, <2>3
  <2>5. f[1 .. m - 1] \in Q[m - 1]
    BY <2>4
  <2>6. 1 .. m \in SUBSET (1 .. n) /\ 1 .. m # {} /\ Max(1 .. m) = m
        /\ (1 .. m) \ {m} = 1 .. m - 1
    <3>1. m \in 1 .. m /\ \A y \in 1 .. m : m >= y
      BY <2>4
    <3>2. \A x \in 1 .. m : (\A y \in 1 .. m : x >= y) => x = m
      BY <2>4
    <3>3. Max(1 .. m) = m
      BY <3>1, <3>2 DEF Max
    <3> QED BY <2>4, <3>1, <3>3
  <2>7. f[1 .. m] = ImportInto(table, f[1 .. m - 1], items[m], mode)
    BY <1>1, <2>6
  <2>8. f[1 .. m] \in Q[m]
    BY <2>4, <2>5, <2>7
  <2> QED BY <2>1, <2>8
<1> QED BY <1>2

LEMMA NASImported ==
  ASSUME NEW base, NEW S, NEW items \in Seq(S), NEW mode, NEW Q, base \in Q[0],
         \A k \in 1 .. Len(items) : \A cat \in Q[k - 1] : ImportNAS(cat, items[k], mode) \in Q[k]
  PROVE  ImportedNAS(base, items, mode) \in Q[Len(items)]
<1> DEFINE n == Len(items)
           G(f) == f = [s \in SUBSET (1 .. n) |->
                          IF s = {} THEN base ELSE ImportNAS(f[s \ {Max(s)}], items[Max(s)], mode)]
           g == CHOOSE f : G(f)
<1>1. n \in Nat /\ DOMAIN items = 1 .. n
  OBVIOUS
<1>2. ImportedNAS(base, items, mode) = g[1 .. n]
  BY <1>1 DEF ImportedNAS, FoldLeft, MapThenFoldSet
<1>3. \A f : Imports(f, "nas", base, items, mode, n) <=> G(f)
  BY DEF Imports, ImportInto
<1>4. G(g)
  BY <1>1, <1>3, ImportsExist
<1>5. Imports(g, "nas", base, items, mode, n)
  BY <1>3, <1>4
<1> HIDE DEF g, n
<1>6. \A k \in 1 .. n : \A cat \in Q[k - 1] : ImportInto("nas", cat, items[k], mode) \in Q[k]
  BY DEF ImportInto, n
<1>7. g[1 .. n] \in Q[n]
  BY <1>1, <1>5, <1>6, ImportsStay
<1> QED BY <1>2, <1>7 DEF n

LEMMA ClientsImported ==
  ASSUME NEW base, NEW S, NEW items \in Seq(S), NEW mode, NEW Q, base \in Q[0],
         \A k \in 1 .. Len(items) :
            \A cat \in Q[k - 1] : ImportClient(cat, items[k], mode) \in Q[k]
  PROVE  ImportedClients(base, items, mode) \in Q[Len(items)]
<1> DEFINE n == Len(items)
           G(f) == f = [s \in SUBSET (1 .. n) |->
                          IF s = {} THEN base
                          ELSE ImportClient(f[s \ {Max(s)}], items[Max(s)], mode)]
           g == CHOOSE f : G(f)
<1>1. n \in Nat /\ DOMAIN items = 1 .. n
  OBVIOUS
<1>2. ImportedClients(base, items, mode) = g[1 .. n]
  BY <1>1 DEF ImportedClients, FoldLeft, MapThenFoldSet
<1>3. \A f : Imports(f, "clients", base, items, mode, n) <=> G(f)
  BY DEF Imports, ImportInto
<1>4. G(g)
  BY <1>1, <1>3, ImportsExist
<1>5. Imports(g, "clients", base, items, mode, n)
  BY <1>3, <1>4
<1> HIDE DEF g, n
<1>6. \A k \in 1 .. n : \A cat \in Q[k - 1] : ImportInto("clients", cat, items[k], mode) \in Q[k]
  BY DEF ImportInto, n
<1>7. g[1 .. n] \in Q[n]
  BY <1>1, <1>5, <1>6, ImportsStay
<1> QED BY <1>2, <1>7 DEF n
----------------------------------------------------------------------------
(* Tables whose rows are told apart stay so when a row is put in the place *)
(* of one with its id, when one with the next id is added, and when one    *)
(* goes.                                                                   *)

LEMMA KeyedIds ==
  ASSUME NEW n \in Seq(NASRow), NEW c \in Seq(ClientRow), NEW x \in Nat \ {0},
         Keyed([nas |-> n, clients |-> c, next |-> x])
  PROVE  /\ \A i \in DOMAIN n : n[i] \in NASRow /\ n[i].id \in Nat /\ n[i].id < x
         /\ \A i \in DOMAIN c : c[i] \in ClientRow /\ c[i].id \in Nat /\ c[i].id < x
<1>1. \A i \in DOMAIN n : n[i] \in NASRow
  BY ElementOfSeq
<1>2. \A i \in DOMAIN c : c[i] \in ClientRow
  BY ElementOfSeq
<1>3. \A r \in NASRow : r.id \in Nat
  BY DEF NASRow
<1>4. \A r \in ClientRow : r.id \in Nat
  BY DEF ClientRow
<1>5. (\A i \in DOMAIN n : n[i].id < x) /\ (\A i \in DOMAIN c : c[i].id < x)
  BY DEF Keyed
<1> QED BY <1>1, <1>2, <1>3, <1>4, <1>5

LEMMA KeyedPutNAS ==
  ASSUME NEW n \in Seq(NASRow), NEW c \in Seq(ClientRow), NEW x \in Nat \ {0},
         Keyed([nas |-> n, clients |-> c, next |-> x]),
         NEW k \in DOMAIN n, NEW r \in NASRow, r.id = n[k].id
  PROVE  /\ [n EXCEPT ![k] = r] \in Seq(NASRow)
         /\ Keyed([nas |-> [n EXCEPT ![k] = r], clients |-> c, next |-> x])
<1> DEFINE m == [n EXCEPT ![k] = r]
<1>1. m \in Seq(NASRow)
  BY ExceptSeq
<1>2. DOMAIN m = DOMAIN n /\ \A i \in DOMAIN n : m[i].id = n[i].id
  OBVIOUS
<1> HIDE DEF m
<1>3. Keyed([nas |-> m, clients |-> c, next |-> x])
  BY <1>2 DEF Keyed, Once
<1> QED BY <1>1, <1>3 DEF m

LEMMA KeyedPutClient ==
  ASSUME NEW n \in Seq(NASRow), NEW c \in Seq(ClientRow), NEW x \in Nat \ {0},
         Keyed([nas |-> n, clients |-> c, next |-> x]),
         NEW k \in DOMAIN c, NEW r \in ClientRow, r.id = c[k].id,
         \A i \in DOMAIN c : c[i].mac = r.mac => i = k
  PROVE  /\ [c EXCEPT ![k] = r] \in Seq(ClientRow)
         /\ Keyed([nas |-> n, clients |-> [c EXCEPT ![k] = r], next |-> x])
<1> DEFINE m == [c EXCEPT ![k] = r]
<1>1. m \in Seq(ClientRow)
  BY ExceptSeq
<1>2. /\ DOMAIN m = DOMAIN c
      /\ \A i \in DOMAIN c : m[i].id = c[i].id /\ m[i].mac = IF i = k THEN r.mac ELSE c[i].mac
  OBVIOUS
<1> HIDE DEF m
<1>3. Keyed([nas |-> n, clients |-> m, next |-> x])
  BY <1>2 DEF Keyed, Once
<1> QED BY <1>1, <1>3 DEF m

LEMMA KeyedAddNAS ==
  ASSUME NEW n \in Seq(NASRow), NEW c \in Seq(ClientRow), NEW x \in Nat \ {0},
         Keyed([nas |-> n, clients |-> c, next |-> x]), NEW r \in NASRow, r.id = x
  PROVE  /\ Append(n, r) \in Seq(NASRow)
         /\ Keyed([nas |-> Append(n, r), clients |-> c, next |-> x + 1])
<1> DEFINE m == Append(n, r)
<1>1. m \in Seq(NASRow)
  OBVIOUS
<1>2. /\ DOMAIN m = DOMAIN n \cup {Len(n) + 1} /\ Len(n) + 1 \notin DOMAIN n
      /\ m[Len(n) + 1] = r /\ \A i \in DOMAIN n : m[i] = n[i]
  BY AppendProperties
<1>3. x + 1 > x /\ \A i \in DOMAIN n : n[i].id < x /\ n[i].id \in Nat
  BY KeyedIds
<1>4. \A i \in DOMAIN c : c[i].id < x /\ c[i].id \in Nat
  BY KeyedIds
<1> HIDE DEF m
<1>5. Once(m, "id")
  BY <1>2, <1>3 DEF Keyed, Once
<1>6. \A i \in DOMAIN m : m[i].id < x + 1
  BY <1>2, <1>3
<1>7. \A i \in DOMAIN c : c[i].id < x + 1
  BY <1>4
<1>8. \A i \in DOMAIN m, j \in DOMAIN c : m[i].id # c[j].id
  BY <1>2, <1>4 DEF Keyed
<1>9. Keyed([nas |-> m, clients |-> c, next |-> x + 1])
  BY <1>5, <1>6, <1>7, <1>8 DEF Keyed
<1> QED BY <1>1, <1>9 DEF m

LEMMA KeyedAddClient ==
  ASSUME NEW n \in Seq(NASRow), NEW c \in Seq(ClientRow), NEW x \in Nat \ {0},
         Keyed([nas |-> n, clients |-> c, next |-> x]), NEW r \in ClientRow, r.id = x,
         \A i \in DOMAIN c : c[i].mac # r.mac
  PROVE  /\ Append(c, r) \in Seq(ClientRow)
         /\ Keyed([nas |-> n, clients |-> Append(c, r), next |-> x + 1])
<1> DEFINE m == Append(c, r)
<1>1. m \in Seq(ClientRow)
  OBVIOUS
<1>2. /\ DOMAIN m = DOMAIN c \cup {Len(c) + 1} /\ Len(c) + 1 \notin DOMAIN c
      /\ m[Len(c) + 1] = r /\ \A i \in DOMAIN c : m[i] = c[i]
  <2>1. Len(m) = Len(c) + 1 /\ m[Len(c) + 1] = r /\ \A i \in 1 .. Len(c) : m[i] = c[i]
    BY AppendProperties
  <2> HIDE DEF m
  <2> QED BY <1>1, <2>1
<1>3. x + 1 > x /\ \A i \in DOMAIN n : n[i].id < x /\ n[i].id \in Nat
  BY KeyedIds
<1>4. \A i \in DOMAIN c : c[i].id < x /\ c[i].id \in Nat
  BY KeyedIds
<1> HIDE DEF m
<1>5. Once(m, "id")
  BY <1>2, <1>4 DEF Keyed, Once
<1>6. Once(m, "mac")
  BY <1>2 DEF Keyed, Once
<1>7. \A i \in DOMAIN m : m[i].id < x + 1
  BY <1>2, <1>4
<1>8. \A i \in DOMAIN n : n[i].id < x + 1
  BY <1>3
<1>9. \A i \in DOMAIN n, j \in DOMAIN m : n[i].id # m[j].id
  BY <1>2, <1>3 DEF Keyed
<1>10. Keyed([nas |-> n, clients |-> m, next |-> x + 1])
  BY <1>5, <1>6, <1>7, <1>8, <1>9 DEF Keyed
<1> QED BY <1>1, <1>10 DEF m

(* A part of a table, in whatever places its rows are now. *)
RowsWithout(t, u, id) ==
    \A i \in DOMAIN u : \E j \in DOMAIN t : u[i] = t[j] /\ t[j].id # id

Picks(t, u, id) ==
    \E h : /\ \A i \in DOMAIN u : /\ h[i] \in DOMAIN t /\ u[i] = t[h[i]]
                                  /\ t[h[i]].id # id
           /\ \A i, j \in DOMAIN u : h[i] = h[j] => i = j

LEMMA KeyedFewer ==
  ASSUME NEW n \in Seq(NASRow), NEW c \in Seq(ClientRow), NEW x \in Nat \ {0},
         Keyed([nas |-> n, clients |-> c, next |-> x]), NEW id
  PROVE  /\ Has(n, "id", id) =>
              /\ Delete(n, id) \in Seq(NASRow)
              /\ Keyed([nas |-> Delete(n, id), clients |-> c, next |-> x])
              /\ RowsWithout(n, Delete(n, id), id)
         /\ Has(c, "id", id) =>
              /\ Delete(c, id) \in Seq(ClientRow)
              /\ Keyed([nas |-> n, clients |-> Delete(c, id), next |-> x])
              /\ RowsWithout(c, Delete(c, id), id)
<1>1. ASSUME NEW S, NEW t \in Seq(S), Has(t, "id", id), Once(t, "id")
      PROVE  Delete(t, id) \in Seq(S) /\ Picks(t, Delete(t, id), id)
  <2>1. PICK k \in DOMAIN t :
              /\ t[k]["id"] = id /\ DOMAIN Delete(t, id) = 1 .. Len(t) - 1
              /\ \A i \in 1 .. Len(t) - 1 : Delete(t, id)[i] = IF i < k THEN t[i] ELSE t[i + 1]
    BY <1>1, DeleteIs
  <2> DEFINE h == [i \in 1 .. Len(t) - 1 |-> IF i < k THEN i ELSE i + 1]
  <2>2. \A i \in 1 .. Len(t) - 1 : h[i] \in DOMAIN t /\ h[i] # k
    OBVIOUS
  <2>3. \A i, j \in 1 .. Len(t) - 1 : h[i] = h[j] => i = j
    OBVIOUS
  <2>4. \A i \in 1 .. Len(t) - 1 : Delete(t, id)[i] = t[h[i]]
    BY <2>1
  <2> HIDE DEF h
  <2>5. \A i \in 1 .. Len(t) - 1 : t[h[i]].id # id
    BY <1>1, <2>1, <2>2 DEF Once
  <2>6. /\ \A i \in DOMAIN Delete(t, id) : /\ h[i] \in DOMAIN t
                                            /\ Delete(t, id)[i] = t[h[i]]
                                            /\ t[h[i]].id # id
        /\ \A i, j \in DOMAIN Delete(t, id) : h[i] = h[j] => i = j
    BY <2>1, <2>2, <2>3, <2>4, <2>5
  <2>7. Delete(t, id) \in Seq(S)
    BY <1>1, DeleteIs
  <2> QED BY <2>6, <2>7 DEF Picks
<1>2. ASSUME Has(n, "id", id)
      PROVE  /\ Delete(n, id) \in Seq(NASRow)
             /\ Keyed([nas |-> Delete(n, id), clients |-> c, next |-> x])
             /\ RowsWithout(n, Delete(n, id), id)
  <2>1. Once(n, "id")
    BY DEF Keyed
  <2>2. Delete(n, id) \in Seq(NASRow) /\ Picks(n, Delete(n, id), id)
    BY <1>1, <1>2, <2>1
  <2>3. PICK h : /\ \A i \in DOMAIN Delete(n, id) : /\ h[i] \in DOMAIN n
                                                    /\ Delete(n, id)[i] = n[h[i]]
                                                    /\ n[h[i]].id # id
                 /\ \A i, j \in DOMAIN Delete(n, id) : h[i] = h[j] => i = j
    BY <2>2 DEF Picks
  <2>4. Once(Delete(n, id), "id")
    BY <2>1, <2>3 DEF Once
  <2>5. Keyed([nas |-> Delete(n, id), clients |-> c, next |-> x])
    BY <2>3, <2>4 DEF Keyed
  <2> QED BY <2>2, <2>3, <2>5 DEF RowsWithout
<1>3. ASSUME Has(c, "id", id)
      PROVE  /\ Delete(c, id) \in Seq(ClientRow)
             /\ Keyed([nas |-> n, clients |-> Delete(c, id), next |-> x])
             /\ RowsWithout(c, Delete(c, id), id)
  <2>1. Once(c, "id") /\ Once(c, "mac")
    BY DEF Keyed
  <2>2. Delete(c, id) \in Seq(ClientRow) /\ Picks(c, Delete(c, id), id)
    BY <1>1, <1>3, <2>1
  <2>3. PICK h : /\ \A i \in DOMAIN Delete(c, id) : /\ h[i] \in DOMAIN c
                                                    /\ Delete(c, id)[i] = c[h[i]]
                                                    /\ c[h[i]].id # id
                 /\ \A i, j \in DOMAIN Delete(c, id) : h[i] = h[j] => i = j
    BY <2>2 DEF Picks
  <2>4. Once(Delete(c, id), "id") /\ Once(Delete(c, id), "mac")
    BY <2>1, <2>3 DEF Once
  <2>5. Keyed([nas |-> n, clients |-> Delete(c, id), next |-> x])
    BY <2>3, <2>4 DEF Keyed
  <2> QED BY <2>2, <2>3, <2>5 DEF RowsWithout
<1> QED BY <1>2, <1>3

LEMMA AppendedIs ==
  ASSUME NEW S, NEW t \in Seq(S), NEW r \in S
  PROVE  \A i \in DOMAIN Append(t, r) :
            Append(t, r)[i] = r \/ (i \in DOMAIN t /\ Append(t, r)[i] = t[i])
<1>1. /\ Append(t, r) \in Seq(S) /\ Len(Append(t, r)) = Len(t) + 1
      /\ Append(t, r)[Len(t) + 1] = r /\ \A i \in 1 .. Len(t) : Append(t, r)[i] = t[i]
  BY AppendProperties
<1>2. \A i \in 1 .. Len(t) + 1 : i = Len(t) + 1 \/ i \in 1 .. Len(t)
  OBVIOUS
<1> QED BY <1>1, <1>2

LEMMA PutOne ==
  ASSUME NEW S, NEW t \in Seq(S), Once(t, "id"), NEW k \in DOMAIN t, NEW r, r.id = t[k].id
  PROVE  Put(t, r) = [t EXCEPT ![k] = r]
BY DEF Once, Put
----------------------------------------------------------------------------
(* What becomes of one item of an import. *)

NamedItem(item) == [item EXCEPT !.name = Or(@, item.ip)]
MergedNAS(item, old, mode) ==
    [ip |-> item.ip, name |-> Or(item.name, item.ip),
     identifier |-> IF mode = "replace" THEN item.identifier
                    ELSE Or(item.identifier, old.identifier),
     secret |-> IF mode = "replace" THEN item.secret ELSE Or(item.secret, old.secret)]
MergedClient(item, old, mode) ==
    [mac |-> Normal[item.mac],
     username |-> IF mode = "replace" THEN item.username ELSE Or(item.username, old.username)]
NASMergedAt(n, k, item, mode) ==
    [n EXCEPT ![k] = Row(MergedNAS(item, n[k], mode), n[k].id)]
NormalItem(item) == [item EXCEPT !.mac = Normal[@]]
ClientMergedAt(c, k, item, mode) ==
    [c EXCEPT ![k] = Row(MergedClient(item, c[k], mode), c[k].id)]
NASMerges(n, c, x, item, mode) ==
    \E k \in DOMAIN n :
        /\ n[k].ip = item.ip /\ \A j \in 1 .. k - 1 : n[j].ip # item.ip
        /\ MergedNAS(item, n[k], mode) \in NASFields
        /\ ImportNAS([nas |-> n, clients |-> c, next |-> x], item, mode) =
             [nas |-> NASMergedAt(n, k, item, mode), clients |-> c, next |-> x]
ClientMerges(n, c, x, item, mode) ==
    \E k \in DOMAIN c :
        /\ c[k].mac = Normal[item.mac]
        /\ MergedClient(item, c[k], mode) \in ClientFields
        /\ ImportClient([nas |-> n, clients |-> c, next |-> x], item, mode) =
             [nas |-> n, next |-> x, clients |-> ClientMergedAt(c, k, item, mode)]

NASAdds(n, c, x, item, mode, r) ==
    ImportNAS([nas |-> n, clients |-> c, next |-> x], item, mode) =
        [nas |-> Append(n, r), clients |-> c, next |-> x + 1]
ClientAdds(n, c, x, item, mode, r) ==
    ImportClient([nas |-> n, clients |-> c, next |-> x], item, mode) =
        [nas |-> n, next |-> x + 1, clients |-> Append(c, r)]

LEMMA NASItemImported ==
  ASSUME NEW n \in Seq(NASRow), NEW c \in Seq(ClientRow), NEW x \in Nat \ {0},
         Once(n, "id"), NEW item \in NASFields, item.ip # None, NEW mode
  PROVE  /\ NamedItem(item) \in NASFields
         /\ Has(n, "ip", item.ip) => NASMerges(n, c, x, item, mode)
         /\ ~Has(n, "ip", item.ip) => NASAdds(n, c, x, item, mode, Row(NamedItem(item), x))
<1> DEFINE it == NamedItem(item)
<1> DEFINE cat == [nas |-> n, clients |-> c, next |-> x]
<1>1. /\ item \in [ip : Maybe(Addr), name : Maybe(Name), identifier : Maybe(Name),
                  secret : Maybe(Secret)]
      /\ item.ip \in Addr
  BY DEF NASFields, Maybe
<1>2. item.ip \in Name
  BY <1>1, CatalogAssumption
<1>3. /\ it = [ip |-> item.ip, name |-> Or(item.name, item.ip),
               identifier |-> item.identifier, secret |-> item.secret]
      /\ it \in NASFields
  BY <1>1, <1>2 DEF NamedItem, Or, NASFields, Maybe
<1>4. ImportNAS(cat, item, mode) = ImportItem(cat, "nas", "ip", it, {"secret", "identifier"}, mode)
  BY DEF ImportNAS, NamedItem
<1> HIDE DEF it
<1>5. it.ip = item.ip /\ DOMAIN it = {"ip", "name", "identifier", "secret"}
  BY <1>3
<1>6. ASSUME Has(n, "ip", item.ip)
      PROVE  NASMerges(n, c, x, item, mode)
  <2>1. PICK k \in DOMAIN n : /\ First(n, "ip", item.ip) = n[k] /\ n[k]["ip"] = item.ip
                              /\ \A j \in 1 .. k - 1 : n[j]["ip"] # item.ip
    BY <1>6, FirstIs
  <2> DEFINE old == n[k]
             new == IF mode = "replace" THEN it
                    ELSE [f \in DOMAIN it |-> IF f \in {"secret", "identifier"}
                                              THEN Or(it[f], old[f]) ELSE it[f]]
  <2>2. old \in NASRow
    BY <2>1, ElementOfSeq
  <2>3. new = MergedNAS(item, old, mode)
    <3>1. CASE mode = "replace"
      BY <1>3, <3>1 DEF MergedNAS
    <3>2. CASE mode # "replace"
      BY <1>3, <1>5, <3>2 DEF MergedNAS
    <3> QED BY <3>1, <3>2
  <2>4. MergedNAS(item, old, mode) \in NASFields
    <3>1. Or(item.identifier, old.identifier) \in Maybe(Name)
          /\ Or(item.secret, old.secret) \in Maybe(Secret)
      BY <1>1, <2>2 DEF Or, NASRow
    <3>2. Or(item.name, item.ip) \in Maybe(Name)
      BY <1>1, <1>2 DEF Or, Maybe
    <3> QED BY <1>1, <3>1, <3>2 DEF MergedNAS, NASFields
  <2>5. ImportItem(cat, "nas", "ip", it, {"secret", "identifier"}, mode) =
          [cat EXCEPT !["nas"] = Put(n, Row(new, old.id))]
    BY <1>5, <1>6, <2>1 DEF ImportItem
  <2>6. Put(n, Row(new, old.id)) = [n EXCEPT ![k] = Row(new, old.id)]
    <3>1. Row(new, old.id).id = old.id
      BY DEF Row
    <3> HIDE DEF new
    <3> QED BY <3>1, PutOne
  <2> HIDE DEF new
  <2>7. ImportNAS(cat, item, mode) = [nas |-> [n EXCEPT ![k] = Row(new, old.id)],
                                      clients |-> c, next |-> x]
    BY <1>4, <2>5, <2>6
  <2> QED BY <2>1, <2>3, <2>4, <2>7 DEF NASMergedAt, NASMerges
<1>7. ASSUME ~Has(n, "ip", item.ip)
      PROVE  NASAdds(n, c, x, item, mode, Row(it, x))
  <2>1. ImportItem(cat, "nas", "ip", it, {"secret", "identifier"}, mode) =
          [cat EXCEPT !["nas"] = Append(n, Row(it, x)), !.next = x + 1]
    BY <1>5, <1>7 DEF ImportItem, Insert
  <2> QED BY <1>4, <2>1 DEF NASAdds
<1> QED BY <1>3, <1>6, <1>7 DEF it

LEMMA ClientItemImported ==
  ASSUME NEW n \in Seq(NASRow), NEW c \in Seq(ClientRow), NEW x \in Nat \ {0},
         Once(c, "id"), NEW item \in ClientFields, item.mac # None, NEW mode
  PROVE  /\ NormalItem(item) \in ClientFields
         /\ Normal[item.mac] \in MAC /\ Normal[Normal[item.mac]] = Normal[item.mac]
         /\ Has(c, "mac", Normal[item.mac]) => ClientMerges(n, c, x, item, mode)
         /\ ~Has(c, "mac", Normal[item.mac]) =>
              ClientAdds(n, c, x, item, mode, Row(NormalItem(item), x))
<1> DEFINE it == NormalItem(item)
<1> DEFINE cat == [nas |-> n, clients |-> c, next |-> x]
<1>1. item \in [mac : Maybe(MAC), username : Maybe(User)] /\ item.mac \in MAC
  BY DEF ClientFields, Maybe
<1>2. Normal[item.mac] \in MAC /\ Normal[Normal[item.mac]] = Normal[item.mac]
  BY <1>1, CatalogAssumption
<1>3. it = [mac |-> Normal[item.mac], username |-> item.username] /\ it \in ClientFields
  BY <1>1, <1>2 DEF ClientFields, Maybe, NormalItem
<1>4. ImportClient(cat, item, mode) = ImportItem(cat, "clients", "mac", it, {"username"}, mode)
  BY DEF ImportClient, NormalItem
<1> HIDE DEF it
<1>5. it.mac = Normal[item.mac] /\ DOMAIN it = {"mac", "username"}
  BY <1>3
<1>6. ASSUME Has(c, "mac", Normal[item.mac])
      PROVE  ClientMerges(n, c, x, item, mode)
  <2>1. PICK k \in DOMAIN c : /\ First(c, "mac", Normal[item.mac]) = c[k]
                              /\ c[k]["mac"] = Normal[item.mac]
    BY <1>6, FirstIs
  <2> DEFINE old == c[k]
             new == IF mode = "replace" THEN it
                    ELSE [f \in DOMAIN it |-> IF f \in {"username"}
                                              THEN Or(it[f], old[f]) ELSE it[f]]
  <2>2. old \in ClientRow
    BY <2>1, ElementOfSeq
  <2>3. new = MergedClient(item, old, mode)
    <3>1. CASE mode = "replace"
      BY <1>3, <3>1 DEF MergedClient
    <3>2. CASE mode # "replace"
      BY <1>3, <1>5, <3>2 DEF MergedClient
    <3> QED BY <3>1, <3>2
  <2>4. MergedClient(item, old, mode) \in ClientFields
    BY <1>1, <1>2, <2>2 DEF MergedClient, ClientFields, ClientRow, Or, Maybe
  <2>5. ImportItem(cat, "clients", "mac", it, {"username"}, mode) =
          [cat EXCEPT !["clients"] = Put(c, Row(new, old.id))]
    BY <1>5, <1>6, <2>1 DEF ImportItem
  <2>6. Put(c, Row(new, old.id)) = [c EXCEPT ![k] = Row(new, old.id)]
    <3>1. Row(new, old.id).id = old.id
      BY DEF Row
    <3> HIDE DEF new
    <3> QED BY <3>1, PutOne
  <2> HIDE DEF new
  <2>7. ImportClient(cat, item, mode) = [clients |-> [c EXCEPT ![k] = Row(new, old.id)],
                                         nas |-> n, next |-> x]
    BY <1>4, <2>5, <2>6
  <2> QED BY <2>1, <2>3, <2>4, <2>7 DEF ClientMergedAt, ClientMerges
<1>7. ASSUME ~Has(c, "mac", Normal[item.mac])
      PROVE  ClientAdds(n, c, x, item, mode, Row(it, x))
  <2>1. ImportItem(cat, "clients", "mac", it, {"username"}, mode) =
          [cat EXCEPT !["clients"] = Append(c, Row(it, x)), !.next = x + 1]
    BY <1>5, <1>7 DEF ImportItem, Insert
  <2> QED BY <1>4, <2>1 DEF ClientAdds
<1> QED BY <1>2, <1>3, <1>6, <1>7 DEF it
LEMMA NASItemAdded ==
  ASSUME NEW n \in Seq(NASRow), NEW c \in Seq(ClientRow), NEW x \in Nat \ {0},
         Once(n, "id"), NEW item \in NASFields, item.ip # None, NEW mode,
         ~Has(n, "ip", item.ip), NEW r, r = Row(NamedItem(item), x)
  PROVE  r \in NASRow /\ r.id = x /\ NASAdds(n, c, x, item, mode, r)
<1>1. NamedItem(item) \in NASFields /\ NASAdds(n, c, x, item, mode, Row(NamedItem(item), x))
  BY NASItemImported
<1>2. r \in NASRow /\ r.id = x
  BY <1>1, RowOfNAS
<1> QED BY <1>1, <1>2

LEMMA ClientItemAdded ==
  ASSUME NEW n \in Seq(NASRow), NEW c \in Seq(ClientRow), NEW x \in Nat \ {0},
         Once(c, "id"), NEW item \in ClientFields, item.mac # None, NEW mode,
         ~Has(c, "mac", Normal[item.mac]), NEW r, r = Row(NormalItem(item), x)
  PROVE  /\ r \in ClientRow /\ r.id = x
         /\ r.mac = Normal[item.mac] /\ Normal[r.mac] = r.mac
         /\ ClientAdds(n, c, x, item, mode, r)
<1>1. /\ NormalItem(item) \in ClientFields /\ Normal[Normal[item.mac]] = Normal[item.mac]
      /\ ClientAdds(n, c, x, item, mode, Row(NormalItem(item), x))
  BY ClientItemImported
<1>2. NormalItem(item).mac = Normal[item.mac]
  BY DEF ClientFields, NormalItem
<1>3. r \in ClientRow /\ r.id = x /\ r.mac = Normal[item.mac]
  BY <1>1, <1>2, RowOfClient
<1> QED BY <1>1, <1>3
----------------------------------------------------------------------------
(* What an import leaves: rows that were there, or new ones in the normal  *)
(* notation.                                                               *)
KeptNAS(id) == nextID <= id \/ \E j \in DOMAIN nas : nas[j].id = id
KeptClient(id, mac) ==
    \/ nextID <= id /\ mac = Normal[mac]
    \/ \E j \in DOMAIN clients : clients[j].id = id /\ clients[j].mac = mac
Kept(cat) ==
    /\ cat \in Tables /\ Keyed(cat) /\ nextID <= cat.next
    /\ \A i \in DOMAIN cat.nas : KeptNAS(cat.nas[i].id)
    /\ \A i \in DOMAIN cat.clients : KeptClient(cat.clients[i].id, cat.clients[i].mac)

LEMMA TablesMade ==
  ASSUME NEW n \in Seq(NASRow), NEW c \in Seq(ClientRow), NEW x \in Nat \ {0}
  PROVE  /\ [nas |-> n, clients |-> c, next |-> x] \in Tables
         /\ [nas |-> n, clients |-> c, next |-> x + 1] \in Tables
BY DEF Tables

LEMMA TablesAre ==
  ASSUME NEW cat \in Tables
  PROVE  /\ cat.nas \in Seq(NASRow) /\ cat.clients \in Seq(ClientRow) /\ cat.next \in Nat \ {0}
         /\ cat = [nas |-> cat.nas, clients |-> cat.clients, next |-> cat.next]
BY DEF Tables

LEMMA BaseKept ==
  ASSUME Catalog \in Tables, Keyed(Catalog), NEW mode
  PROVE  Kept(ImportBase(mode))
<1>1. nas \in Seq(NASRow) /\ clients \in Seq(ClientRow) /\ nextID \in Nat \ {0}
  BY DEF Tables, Catalog
<1>2. CASE mode = "replace"
  <2>1. ImportBase(mode) = [nas |-> <<>>, clients |-> <<>>, next |-> nextID]
    BY <1>2 DEF ImportBase, Catalog
  <2>2. ImportBase(mode) \in Tables
    BY <1>1, <2>1 DEF Tables
  <2> QED BY <1>1, <2>1, <2>2 DEF Kept, Keyed, Once, KeptNAS, KeptClient
<1>3. CASE mode # "replace"
  <2>1. ImportBase(mode) = Catalog /\ Catalog.nas = nas /\ Catalog.clients = clients
        /\ Catalog.next = nextID
    BY <1>3 DEF ImportBase, Catalog
  <2> QED BY <1>1, <2>1 DEF Kept, KeptNAS, KeptClient
<1> QED BY <1>2, <1>3

LEMMA NASItemKept ==
  ASSUME nextID \in Nat, NEW cat, Kept(cat), NEW item \in NASFields, item.ip # None, NEW mode
  PROVE  Kept(ImportNAS(cat, item, mode))
<1>1. PICK n \in Seq(NASRow), c \in Seq(ClientRow), x \in Nat \ {0} :
         cat = [nas |-> n, clients |-> c, next |-> x]
  BY TablesAre DEF Kept
<1>2. /\ Keyed([nas |-> n, clients |-> c, next |-> x]) /\ Once(n, "id") /\ nextID <= x
      /\ \A i \in DOMAIN n : KeptNAS(n[i].id)
      /\ \A i \in DOMAIN c : KeptClient(c[i].id, c[i].mac)
  BY <1>1 DEF Kept, Keyed
<1>3. CASE Has(n, "ip", item.ip)
  <2>1. PICK k \in DOMAIN n :
           /\ MergedNAS(item, n[k], mode) \in NASFields
           /\ ImportNAS(cat, item, mode) =
                [nas |-> NASMergedAt(n, k, item, mode), clients |-> c, next |-> x]
    <3>1. NASMerges(n, c, x, item, mode)
      BY <1>2, <1>3, NASItemImported
    <3> QED BY <1>1, <3>1 DEF NASMerges
  <2>2. PICK r : r = Row(MergedNAS(item, n[k], mode), n[k].id)
    OBVIOUS
  <2>3. r \in NASRow /\ r.id = n[k].id
    <3>1. n[k].id \in Nat \ {0}
      BY <1>2, KeyedIds DEF NASRow
    <3> QED BY <2>1, <2>2, <3>1, RowOfNAS
  <2>4. PICK m : m = [n EXCEPT ![k] = r]
    OBVIOUS
  <2>5. /\ m \in Seq(NASRow) /\ Keyed([nas |-> m, clients |-> c, next |-> x])
        /\ DOMAIN m = DOMAIN n /\ \A i \in DOMAIN n : m[i].id = n[i].id
    BY <1>2, <2>3, <2>4, KeyedPutNAS
  <2>6. ImportNAS(cat, item, mode) = [nas |-> m, clients |-> c, next |-> x]
    BY <2>1, <2>2, <2>4 DEF NASMergedAt
  <2>7. [nas |-> m, clients |-> c, next |-> x] \in Tables
    BY <2>5, TablesMade
  <2>8. \A i \in DOMAIN m : KeptNAS(m[i].id)
    BY <1>2, <2>5
  <2> QED BY <1>2, <2>5, <2>6, <2>7, <2>8 DEF Kept
<1>4. CASE ~Has(n, "ip", item.ip)
  <2>1. PICK r : r = Row(NamedItem(item), x)
    OBVIOUS
  <2>2. /\ r \in NASRow /\ r.id = x
        /\ NASAdds(n, c, x, item, mode, r)
    BY <1>2, <1>4, <2>1, NASItemAdded
  <2>3. PICK m : m = Append(n, r)
    OBVIOUS
  <2>4. m \in Seq(NASRow) /\ Keyed([nas |-> m, clients |-> c, next |-> x + 1])
    BY <1>2, <2>2, <2>3, KeyedAddNAS
  <2>5. \A i \in DOMAIN m : m[i] = r \/ (i \in DOMAIN n /\ m[i] = n[i])
    BY <2>2, <2>3, AppendedIs
  <2>6. ImportNAS(cat, item, mode) = [nas |-> m, clients |-> c, next |-> x + 1]
    BY <1>1, <2>2, <2>3 DEF NASAdds
  <2>7. [nas |-> m, clients |-> c, next |-> x + 1] \in Tables
    BY <2>4, TablesMade
  <2>8. nextID <= x + 1
    BY <1>2
  <2>9. KeptNAS(x)
    BY <1>2 DEF KeptNAS
  <2>10. \A i \in DOMAIN m : KeptNAS(m[i].id)
    BY <1>2, <2>2, <2>5, <2>9
  <2> QED BY <1>2, <2>4, <2>6, <2>7, <2>8, <2>10 DEF Kept
<1> QED BY <1>3, <1>4

LEMMA ClientItemKept ==
  ASSUME nextID \in Nat, NEW cat, Kept(cat), NEW item \in ClientFields, item.mac # None, NEW mode
  PROVE  Kept(ImportClient(cat, item, mode))
<1>1. PICK n \in Seq(NASRow), c \in Seq(ClientRow), x \in Nat \ {0} :
         cat = [nas |-> n, clients |-> c, next |-> x]
  BY TablesAre DEF Kept
<1>2. /\ Keyed([nas |-> n, clients |-> c, next |-> x]) /\ Once(c, "id") /\ nextID <= x
      /\ Once(c, "mac")
      /\ \A i \in DOMAIN n : KeptNAS(n[i].id)
      /\ \A i \in DOMAIN c : KeptClient(c[i].id, c[i].mac)
  BY <1>1 DEF Kept, Keyed
<1>3. CASE Has(c, "mac", Normal[item.mac])
  <2>1. PICK k \in DOMAIN c :
           /\ c[k].mac = Normal[item.mac]
           /\ MergedClient(item, c[k], mode) \in ClientFields
           /\ ImportClient(cat, item, mode) =
                [nas |-> n, next |-> x,
                 clients |-> ClientMergedAt(c, k, item, mode)]
    <3>1. ClientMerges(n, c, x, item, mode)
      BY <1>2, <1>3, ClientItemImported
    <3> QED BY <1>1, <3>1 DEF ClientMerges
  <2>2. PICK r : r = Row(MergedClient(item, c[k], mode), c[k].id)
    OBVIOUS
  <2>3. r \in ClientRow /\ r.id = c[k].id /\ r.mac = c[k].mac
    <3>1. c[k].id \in Nat \ {0}
      BY <1>2, KeyedIds DEF ClientRow
    <3>2. MergedClient(item, c[k], mode).mac = c[k].mac
      BY <2>1 DEF MergedClient
    <3> QED BY <2>1, <2>2, <3>1, <3>2, RowOfClient
  <2>4. PICK m : m = [c EXCEPT ![k] = r]
    OBVIOUS
  <2>5. /\ m \in Seq(ClientRow) /\ Keyed([nas |-> n, clients |-> m, next |-> x])
        /\ DOMAIN m = DOMAIN c /\ \A i \in DOMAIN c : m[i].id = c[i].id /\ m[i].mac = c[i].mac
    <3>1. \A i \in DOMAIN c : c[i].mac = r.mac => i = k
      BY <1>2, <2>3 DEF Once
    <3> QED BY <1>2, <2>3, <2>4, <3>1, KeyedPutClient
  <2>6. ImportClient(cat, item, mode) = [nas |-> n, clients |-> m, next |-> x]
    BY <2>1, <2>2, <2>4 DEF ClientMergedAt
  <2>7. [nas |-> n, clients |-> m, next |-> x] \in Tables
    BY <2>5, TablesMade
  <2>8. \A i \in DOMAIN m : KeptClient(m[i].id, m[i].mac)
    BY <1>2, <2>5
  <2> QED BY <1>2, <2>5, <2>6, <2>7, <2>8 DEF Kept
<1>4. CASE ~Has(c, "mac", Normal[item.mac])
  <2>1. PICK r : r = Row(NormalItem(item), x)
    OBVIOUS
  <2>2. /\ r \in ClientRow /\ r.id = x /\ r.mac = Normal[item.mac] /\ Normal[r.mac] = r.mac
        /\ ClientAdds(n, c, x, item, mode, r)
    <3>1. Once(c, "id") /\ r = Row(NormalItem(item), x)
      BY <1>2, <2>1
    <3>2. /\ n \in Seq(NASRow) /\ c \in Seq(ClientRow) /\ x \in Nat \ {0}
          /\ item \in ClientFields /\ item.mac # None
      OBVIOUS
    <3> QED BY ONLY <1>4, <3>1, <3>2, ClientItemAdded
  <2>3. PICK m : m = Append(c, r)
    OBVIOUS
  <2>4. m \in Seq(ClientRow) /\ Keyed([nas |-> n, clients |-> m, next |-> x + 1])
    <3>1. \A i \in DOMAIN c : c[i].mac # r.mac
      BY <1>4, <2>2 DEF Has
    <3> QED BY <1>2, <2>2, <2>3, <3>1, KeyedAddClient
  <2>5. \A i \in DOMAIN m : m[i] = r \/ (i \in DOMAIN c /\ m[i] = c[i])
    BY <2>2, <2>3, AppendedIs
  <2>6. ImportClient(cat, item, mode) = [nas |-> n, clients |-> m, next |-> x + 1]
    BY <1>1, <2>2, <2>3 DEF ClientAdds
  <2>7. [nas |-> n, clients |-> m, next |-> x + 1] \in Tables
    BY <2>4, TablesMade
  <2>8. nextID <= x + 1
    BY <1>2
  <2>9. KeptClient(x, r.mac)
    BY <1>2, <2>2 DEF KeptClient
  <2>10. \A i \in DOMAIN m : KeptClient(m[i].id, m[i].mac)
    BY <1>2, <2>2, <2>5, <2>9
  <2> QED BY <1>2, <2>4, <2>6, <2>7, <2>8, <2>10 DEF Kept
<1> QED BY <1>3, <1>4

LEMMA ImportedIn ==
  ASSUME NEW req \in Request, NEW S, ImportBase(req.mode) \in S,
         \A k \in 1 .. Len(req.nas) : \A cat \in S : ImportNAS(cat, req.nas[k], req.mode) \in S,
         \A k \in 1 .. Len(req.clients) :
            \A cat \in S : ImportClient(cat, req.clients[k], req.mode) \in S
  PROVE  Imported(req) \in S
<1>1. /\ req.nas \in Seq(NASFields) /\ req.clients \in Seq(ClientFields)
      /\ Len(req.nas) \in Nat /\ Len(req.clients) \in Nat
  BY DEF Request
<1> DEFINE Q == [k \in Nat |-> S]
           base == ImportBase(req.mode)
           mid == ImportedNAS(base, req.nas, req.mode)
<1>2. \A k \in Nat : Q[k] = S
  OBVIOUS
<1>3. mid \in S
  <2>1. base \in Q[0]
    BY <1>2
  <2>2. \A k \in 1 .. Len(req.nas) :
           \A cat \in Q[k - 1] : ImportNAS(cat, req.nas[k], req.mode) \in Q[k]
    BY <1>1, <1>2
  <2> HIDE DEF Q, base
  <2>3. ImportedNAS(base, req.nas, req.mode) \in Q[Len(req.nas)]
    BY <1>1, <2>1, <2>2, NASImported
  <2> QED BY <1>1, <1>2, <2>3
<1>4. ImportedClients(mid, req.clients, req.mode) \in S
  <2> HIDE DEF mid
  <2>1. mid \in Q[0]
    BY <1>2, <1>3
  <2>2. \A k \in 1 .. Len(req.clients) :
           \A cat \in Q[k - 1] : ImportClient(cat, req.clients[k], req.mode) \in Q[k]
    BY <1>1, <1>2
  <2> HIDE DEF Q
  <2>3. ImportedClients(mid, req.clients, req.mode) \in Q[Len(req.clients)]
    BY <1>1, <2>1, <2>2, ClientsImported
  <2> QED BY <1>1, <1>2, <2>3
<1> QED BY <1>4 DEF Imported

LEMMA ImportKeeps ==
  ASSUME Catalog \in Tables, Keyed(Catalog), NEW req \in Request, Acceptable(req)
  PROVE  Kept(Imported(req))
<1>1. /\ req.nas \in Seq(NASFields) /\ req.clients \in Seq(ClientFields)
      /\ nextID \in Nat
  BY DEF Request, Tables, Catalog
<1> DEFINE S == {cat \in Tables : Kept(cat)}
           base == ImportBase(req.mode)
<1>2. \A cat : Kept(cat) <=> cat \in S
  BY DEF Kept
<1>3. base \in S
  BY <1>2, BaseKept
<1>4. \A k \in 1 .. Len(req.nas) : \A cat \in S : ImportNAS(cat, req.nas[k], req.mode) \in S
  <2> SUFFICES ASSUME NEW k \in 1 .. Len(req.nas), NEW cat \in S
               PROVE  ImportNAS(cat, req.nas[k], req.mode) \in S
    OBVIOUS
  <2>1. req.nas[k] \in NASFields /\ req.nas[k].ip # None
    BY <1>1, ElementOfSeq DEF Acceptable
  <2> QED BY <1>1, <1>2, <2>1, NASItemKept
<1>5. \A k \in 1 .. Len(req.clients) :
         \A cat \in S : ImportClient(cat, req.clients[k], req.mode) \in S
  <2> SUFFICES ASSUME NEW k \in 1 .. Len(req.clients), NEW cat \in S
               PROVE  ImportClient(cat, req.clients[k], req.mode) \in S
    OBVIOUS
  <2>1. req.clients[k] \in ClientFields /\ req.clients[k].mac # None
    BY <1>1, ElementOfSeq DEF Acceptable
  <2> QED BY <1>1, <1>2, <2>1, ClientItemKept
<1> HIDE DEF S
<1>6. Imported(req) \in S
  BY <1>3, <1>4, <1>5, ImportedIn
<1> QED BY <1>2, <1>6
----------------------------------------------------------------------------
(* In mode merge every row stays in its place, and keeps what it has.      *)
Extended(cat) ==
    /\ Kept(cat)
    /\ \A i \in DOMAIN nas :
          /\ i \in DOMAIN cat.nas /\ cat.nas[i].id = nas[i].id
          /\ nas[i].secret # None => cat.nas[i].secret # None
          /\ nas[i].identifier # None => cat.nas[i].identifier # None
    /\ \A i \in DOMAIN clients :
          /\ i \in DOMAIN cat.clients /\ cat.clients[i].id = clients[i].id
          /\ clients[i].username # None => cat.clients[i].username # None

LEMMA NASItemExtends ==
  ASSUME nextID \in Nat, NEW cat, Extended(cat), NEW item \in NASFields, item.ip # None
  PROVE  Extended(ImportNAS(cat, item, "merge"))
<1>0. Kept(ImportNAS(cat, item, "merge"))
  BY NASItemKept DEF Extended
<1>1. PICK n \in Seq(NASRow), c \in Seq(ClientRow), x \in Nat \ {0} :
         cat = [nas |-> n, clients |-> c, next |-> x]
  BY TablesAre DEF Kept, Extended
<1>2. /\ Keyed([nas |-> n, clients |-> c, next |-> x]) /\ Once(n, "id")
      /\ \A i \in DOMAIN nas :
            /\ i \in DOMAIN n /\ n[i].id = nas[i].id
            /\ nas[i].secret # None => n[i].secret # None
            /\ nas[i].identifier # None => n[i].identifier # None
  BY <1>1 DEF Kept, Keyed, Extended
<1>3. CASE Has(n, "ip", item.ip)
  <2>1. NASMerges(n, c, x, item, "merge")
    BY <1>2, <1>3, NASItemImported
  <2>2. PICK k \in DOMAIN n :
           /\ MergedNAS(item, n[k], "merge") \in NASFields
           /\ ImportNAS(cat, item, "merge") =
                [nas |-> NASMergedAt(n, k, item, "merge"), clients |-> c, next |-> x]
    BY <1>1, <2>1 DEF NASMerges
  <2>3. PICK r : r = Row(MergedNAS(item, n[k], "merge"), n[k].id)
    OBVIOUS
  <2>4. n[k].id \in Nat \ {0}
    BY <1>2, KeyedIds DEF NASRow
  <2>5. /\ r.id = n[k].id
        /\ r.secret = MergedNAS(item, n[k], "merge").secret
        /\ r.identifier = MergedNAS(item, n[k], "merge").identifier
    BY <2>2, <2>3, <2>4, RowOfNAS
  <2>6. /\ n[k].secret # None => r.secret # None
        /\ n[k].identifier # None => r.identifier # None
    BY <2>5 DEF MergedNAS, Or
  <2>7. PICK m : m = NASMergedAt(n, k, item, "merge")
    OBVIOUS
  <2>8. m = [n EXCEPT ![k] = r]
    BY <2>3, <2>7 DEF NASMergedAt
  <2>9. /\ ImportNAS(cat, item, "merge").nas = m
        /\ ImportNAS(cat, item, "merge").clients = cat.clients
    BY <1>1, <2>2, <2>7
  <2>10. \A i \in DOMAIN nas :
           /\ i \in DOMAIN m /\ m[i].id = nas[i].id
           /\ nas[i].secret # None => m[i].secret # None
           /\ nas[i].identifier # None => m[i].identifier # None
    BY <1>2, <2>5, <2>6, <2>8
  <2> QED BY <1>0, <2>9, <2>10 DEF Extended
<1>4. CASE ~Has(n, "ip", item.ip)
  <2>1. PICK r : r = Row(NamedItem(item), x)
    OBVIOUS
  <2>2. r \in NASRow /\ NASAdds(n, c, x, item, "merge", r)
    BY <1>2, <1>4, <2>1, NASItemAdded
  <2>3. \A i \in DOMAIN nas : i \in DOMAIN n
    BY <1>2
  <2>4. PICK m : m = Append(n, r)
    OBVIOUS
  <2>5. \A i \in DOMAIN nas : i \in DOMAIN m /\ m[i] = n[i]
    BY <2>2, <2>3, <2>4, AppendProperties
  <2>6. /\ ImportNAS(cat, item, "merge").nas = m
        /\ ImportNAS(cat, item, "merge").clients = cat.clients
    BY <1>1, <2>2, <2>4 DEF NASAdds
  <2> QED BY <1>0, <1>2, <2>5, <2>6 DEF Extended
<1> QED BY <1>3, <1>4

LEMMA ClientItemExtends ==
  ASSUME nextID \in Nat, NEW cat, Extended(cat), NEW item \in ClientFields, item.mac # None
  PROVE  Extended(ImportClient(cat, item, "merge"))
<1>0. Kept(ImportClient(cat, item, "merge"))
  BY ClientItemKept DEF Extended
<1>1. PICK n \in Seq(NASRow), c \in Seq(ClientRow), x \in Nat \ {0} :
         cat = [nas |-> n, clients |-> c, next |-> x]
  BY TablesAre DEF Kept, Extended
<1>2. /\ Keyed([nas |-> n, clients |-> c, next |-> x]) /\ Once(c, "id")
      /\ \A i \in DOMAIN clients :
            /\ i \in DOMAIN c /\ c[i].id = clients[i].id
            /\ clients[i].username # None => c[i].username # None
  BY <1>1 DEF Kept, Keyed, Extended
<1>3. CASE Has(c, "mac", Normal[item.mac])
  <2>1. ClientMerges(n, c, x, item, "merge")
    BY <1>2, <1>3, ClientItemImported
  <2>2. PICK k \in DOMAIN c :
           /\ MergedClient(item, c[k], "merge") \in ClientFields
           /\ ImportClient(cat, item, "merge") =
                [nas |-> n, next |-> x, clients |-> ClientMergedAt(c, k, item, "merge")]
    BY <1>1, <2>1 DEF ClientMerges
  <2>3. PICK r : r = Row(MergedClient(item, c[k], "merge"), c[k].id)
    OBVIOUS
  <2>4. c[k].id \in Nat \ {0}
    BY <1>2, KeyedIds DEF ClientRow
  <2>5. r.id = c[k].id /\ r.username = MergedClient(item, c[k], "merge").username
    BY <2>2, <2>3, <2>4, RowOfClient
  <2>6. c[k].username # None => r.username # None
    BY <2>5 DEF MergedClient, Or
  <2>7. PICK m : m = ClientMergedAt(c, k, item, "merge")
    OBVIOUS
  <2>8. m = [c EXCEPT ![k] = r]
    BY <2>3, <2>7 DEF ClientMergedAt
  <2>9. /\ ImportClient(cat, item, "merge").clients = m
        /\ ImportClient(cat, item, "merge").nas = cat.nas
    BY <1>1, <2>2, <2>7
  <2>10. \A i \in DOMAIN clients :
           /\ i \in DOMAIN m /\ m[i].id = clients[i].id
           /\ clients[i].username # None => m[i].username # None
    BY <1>2, <2>5, <2>6, <2>8
  <2> QED BY <1>0, <2>9, <2>10 DEF Extended
<1>4. CASE ~Has(c, "mac", Normal[item.mac])
  <2>1. PICK r : r = Row(NormalItem(item), x)
    OBVIOUS
  <2>2. r \in ClientRow /\ ClientAdds(n, c, x, item, "merge", r)
    BY <1>2, <1>4, <2>1, ClientItemAdded
  <2>3. \A i \in DOMAIN clients : i \in DOMAIN c
    BY <1>2
  <2>4. PICK m : m = Append(c, r)
    OBVIOUS
  <2>5. \A i \in DOMAIN clients : i \in DOMAIN m /\ m[i] = c[i]
    BY <2>2, <2>3, <2>4, AppendProperties
  <2>6. /\ ImportClient(cat, item, "merge").clients = m
        /\ ImportClient(cat, item, "merge").nas = cat.nas
    BY <1>1, <2>2, <2>4 DEF ClientAdds
  <2> QED BY <1>0, <1>2, <2>5, <2>6 DEF Extended
<1> QED BY <1>3, <1>4

LEMMA MergeExtends ==
  ASSUME Catalog \in Tables, Keyed(Catalog), NEW req \in Request, Acceptable(req),
         req.mode = "merge"
  PROVE  Extended(Imported(req))
<1>1. /\ req.nas \in Seq(NASFields) /\ req.clients \in Seq(ClientFields)
      /\ nextID \in Nat
  BY DEF Request, Tables, Catalog
<1> DEFINE S == {cat \in Tables : Extended(cat)}
           base == ImportBase(req.mode)
<1>2. \A cat : Extended(cat) <=> cat \in S
  BY DEF Extended, Kept
<1>3. base \in S
  <2>1. base = Catalog /\ Catalog.nas = nas /\ Catalog.clients = clients
    BY DEF ImportBase, Catalog
  <2>2. Kept(base)
    BY BaseKept
  <2>3. Extended(base)
    BY <2>1, <2>2 DEF Extended
  <2> QED BY <1>2, <2>3
<1>4. \A k \in 1 .. Len(req.nas) : \A cat \in S : ImportNAS(cat, req.nas[k], req.mode) \in S
  <2> SUFFICES ASSUME NEW k \in 1 .. Len(req.nas), NEW cat \in S
               PROVE  ImportNAS(cat, req.nas[k], req.mode) \in S
    OBVIOUS
  <2>1. req.nas[k] \in NASFields /\ req.nas[k].ip # None
    BY <1>1, ElementOfSeq DEF Acceptable
  <2> QED BY <1>1, <1>2, <2>1, NASItemExtends
<1>5. \A k \in 1 .. Len(req.clients) :
         \A cat \in S : ImportClient(cat, req.clients[k], req.mode) \in S
  <2> SUFFICES ASSUME NEW k \in 1 .. Len(req.clients), NEW cat \in S
               PROVE  ImportClient(cat, req.clients[k], req.mode) \in S
    OBVIOUS
  <2>1. req.clients[k] \in ClientFields /\ req.clients[k].mac # None
    BY <1>1, ElementOfSeq DEF Acceptable
  <2> QED BY <1>1, <1>2, <2>1, ClientItemExtends
<1> HIDE DEF S
<1>6. Imported(req) \in S
  BY <1>3, <1>4, <1>5, ImportedIn
<1> QED BY <1>2, <1>6
----------------------------------------------------------------------------
(* To merge what is there already changes nothing. *)
LEMMA MergedAgain ==
  ASSUME Catalog \in Tables, Keyed(Catalog), Tidy
  PROVE  /\ \A k \in DOMAIN nas : ImportNAS(Catalog, Fields(nas[k]), "merge") = Catalog
         /\ \A k \in DOMAIN clients : ImportClient(Catalog, Fields(clients[k]), "merge") = Catalog
<1>1. /\ nas \in Seq(NASRow) /\ clients \in Seq(ClientRow) /\ nextID \in Nat \ {0}
      /\ Keyed([nas |-> nas, clients |-> clients, next |-> nextID])
      /\ Once(nas, "id") /\ Once(clients, "id") /\ Once(clients, "mac")
  BY DEF Tables, Catalog, Keyed
<1>2. ASSUME NEW k \in DOMAIN nas
      PROVE  ImportNAS(Catalog, Fields(nas[k]), "merge") = Catalog
  <2>1. PICK item : item = Fields(nas[k])
    OBVIOUS
  <2>2. /\ nas[k] \in NASRow /\ item \in NASFields /\ Row(item, nas[k].id) = nas[k]
        /\ item.ip = nas[k].ip /\ item.name = nas[k].name
        /\ item.identifier = nas[k].identifier /\ item.secret = nas[k].secret
    BY <1>1, <2>1, KeyedIds, FieldsOfNAS
  <2>3. item.ip # None /\ item.name # None /\ Has(nas, "ip", item.ip)
    BY <2>2 DEF Tidy, Has
  <2>4. NASMerges(nas, clients, nextID, item, "merge")
    BY <1>1, <2>2, <2>3, NASItemImported
  <2>5. PICK j \in DOMAIN nas :
           /\ nas[j].ip = item.ip
           /\ ImportNAS([nas |-> nas, clients |-> clients, next |-> nextID], item, "merge") =
                [nas |-> NASMergedAt(nas, j, item, "merge"), clients |-> clients, next |-> nextID]
    BY <2>4 DEF NASMerges
  <2>6. j = k
    BY <2>2, <2>5 DEF Tidy
  <2>7. MergedNAS(item, nas[k], "merge") = item
    BY <2>2, <2>3 DEF MergedNAS, Or, NASFields
  <2>8. NASMergedAt(nas, k, item, "merge") = nas
    BY <1>1, <2>2, <2>7 DEF NASMergedAt
  <2> QED BY <2>1, <2>5, <2>6, <2>8 DEF Catalog
<1>3. ASSUME NEW k \in DOMAIN clients
      PROVE  ImportClient(Catalog, Fields(clients[k]), "merge") = Catalog
  <2>1. PICK item : item = Fields(clients[k])
    OBVIOUS
  <2>2. /\ clients[k] \in ClientRow /\ item \in ClientFields /\ Row(item, clients[k].id) = clients[k]
        /\ item.mac = clients[k].mac /\ item.username = clients[k].username
    BY <1>1, <2>1, KeyedIds, FieldsOfClient
  <2>3. item.mac # None /\ Normal[item.mac] = item.mac /\ Has(clients, "mac", Normal[item.mac])
    BY <2>2 DEF Tidy, Has
  <2>4. ClientMerges(nas, clients, nextID, item, "merge")
    BY <1>1, <2>2, <2>3, ClientItemImported
  <2>5. PICK j \in DOMAIN clients :
           /\ clients[j].mac = Normal[item.mac]
           /\ ImportClient([nas |-> nas, clients |-> clients, next |-> nextID], item, "merge") =
                [nas |-> nas, next |-> nextID,
                 clients |-> ClientMergedAt(clients, j, item, "merge")]
    BY <2>4 DEF ClientMerges
  <2>6. j = k
    BY <1>1, <2>2, <2>3, <2>5 DEF Once
  <2>7. MergedClient(item, clients[k], "merge") = item
    BY <2>2, <2>3 DEF MergedClient, Or, ClientFields
  <2>8. ClientMergedAt(clients, k, item, "merge") = clients
    BY <1>1, <2>2, <2>7 DEF ClientMergedAt
  <2> QED BY <2>1, <2>5, <2>6, <2>8 DEF Catalog
<1> QED BY <1>2, <1>3

(* An import in mode replace makes the rows one after the other. *)
Remade(cat, i, j) ==
    /\ Kept(cat) /\ DOMAIN cat.nas = 1 .. i /\ DOMAIN cat.clients = 1 .. j
    /\ \A k \in 1 .. i : k \in DOMAIN nas => Fields(cat.nas[k]) = Fields(nas[k])
    /\ \A k \in 1 .. j : k \in DOMAIN clients => Fields(cat.clients[k]) = Fields(clients[k])

LEMMA NASRemade ==
  ASSUME Catalog \in Tables, Keyed(Catalog), Tidy, NEW k \in DOMAIN nas,
         NEW cat, Remade(cat, k - 1, 0)
  PROVE  Remade(ImportNAS(cat, Fields(nas[k]), "replace"), k, 0)
<1>1. /\ nas \in Seq(NASRow) /\ nextID \in Nat \ {0} /\ k \in 1 .. Len(nas) /\ k \in Nat
      /\ Keyed([nas |-> nas, clients |-> clients, next |-> nextID])
  BY DEF Tables, Catalog
<1>2. PICK n \in Seq(NASRow), c \in Seq(ClientRow), x \in Nat \ {0} :
         cat = [nas |-> n, clients |-> c, next |-> x]
  BY TablesAre DEF Kept, Remade
<1>3. /\ Keyed([nas |-> n, clients |-> c, next |-> x]) /\ Once(n, "id")
      /\ DOMAIN n = 1 .. k - 1 /\ Len(n) = k - 1 /\ DOMAIN c = 1 .. 0
      /\ \A i \in 1 .. k - 1 : Fields(n[i]) = Fields(nas[i])
  <2>1. DOMAIN n = 1 .. k - 1 /\ DOMAIN c = 1 .. 0
    BY <1>2 DEF Remade
  <2>2. Len(n) = k - 1
    BY <1>1, <2>1
  <2>3. Keyed([nas |-> n, clients |-> c, next |-> x]) /\ Once(n, "id")
    BY <1>2 DEF Kept, Keyed, Remade
  <2>4. \A i \in 1 .. k - 1 : i \in DOMAIN nas
    BY <1>1
  <2>5. \A i \in 1 .. k - 1 : Fields(n[i]) = Fields(nas[i])
    BY <1>2, <2>4 DEF Remade
  <2> QED BY <2>1, <2>2, <2>3, <2>5
<1>4. PICK item : item = Fields(nas[k])
  OBVIOUS
<1>5. item \in NASFields /\ item.ip = nas[k].ip /\ item.name = nas[k].name
  BY <1>1, <1>4, ElementOfSeq, FieldsOfNAS
<1>6. item.ip # None /\ item.name # None
  BY <1>5 DEF Tidy
<1>7. ~Has(n, "ip", item.ip)
  <2> SUFFICES ASSUME NEW i \in DOMAIN n, n[i]["ip"] = item.ip PROVE FALSE
    BY DEF Has
  <2>1. i \in DOMAIN nas /\ i # k
    BY <1>1, <1>3
  <2>2. n[i] \in NASRow /\ nas[i] \in NASRow
    BY <1>1, <2>1, ElementOfSeq
  <2>3. nas[i].ip = n[i].ip
    BY <1>3, <2>2, FieldsOfNAS
  <2> QED BY <1>5, <2>1, <2>3 DEF Tidy
<1>8. NamedItem(item) = item
  BY <1>5, <1>6 DEF NamedItem, Or, NASFields
<1>9. PICK r : r = Row(item, x)
  OBVIOUS
<1>10. ImportNAS(cat, item, "replace") = [nas |-> Append(n, r), clients |-> c, next |-> x + 1]
  <2>1. Once(n, "id") /\ r = Row(NamedItem(item), x)
    BY <1>3, <1>8, <1>9
  <2>2. NASAdds(n, c, x, item, "replace", r)
    BY <1>5, <1>6, <1>7, <2>1, NASItemAdded
  <2> QED BY <1>2, <2>2 DEF NASAdds
<1>11. r \in NASRow /\ Fields(r) = item
  BY <1>5, <1>9, RowOfNAS
<1>12. /\ Append(n, r) \in Seq(NASRow) /\ Len(Append(n, r)) = k
       /\ Append(n, r)[k] = r /\ \A i \in 1 .. k - 1 : Append(n, r)[i] = n[i]
  <2>1. /\ Append(n, r) \in Seq(NASRow) /\ Len(Append(n, r)) = Len(n) + 1
        /\ Append(n, r)[Len(n) + 1] = r /\ \A i \in 1 .. Len(n) : Append(n, r)[i] = n[i]
    BY <1>11, AppendProperties
  <2>2. Len(n) + 1 = k
    BY <1>1, <1>3
  <2> QED BY <1>3, <2>1, <2>2
<1>13. DOMAIN Append(n, r) = 1 .. k
  BY <1>12
<1>14. Kept(ImportNAS(cat, item, "replace"))
  BY <1>1, <1>5, <1>6, NASItemKept DEF Remade
<1>15. \A i \in 1 .. k : i \in DOMAIN nas => Fields(Append(n, r)[i]) = Fields(nas[i])
  <2> SUFFICES ASSUME NEW i \in 1 .. k PROVE Fields(Append(n, r)[i]) = Fields(nas[i])
    OBVIOUS
  <2>1. i = k \/ i \in 1 .. k - 1
    BY <1>1
  <2> QED BY <1>3, <1>4, <1>11, <1>12, <2>1
<1>16. /\ ImportNAS(cat, item, "replace").nas = Append(n, r)
       /\ ImportNAS(cat, item, "replace").clients = c
  BY <1>10
<1>17. \A i \in 1 .. 0 : i \in DOMAIN clients => Fields(c[i]) = Fields(clients[i])
  OBVIOUS
<1> QED BY <1>3, <1>4, <1>13, <1>14, <1>15, <1>16, <1>17 DEF Remade

LEMMA ClientRemade ==
  ASSUME Catalog \in Tables, Keyed(Catalog), Tidy, NEW k \in DOMAIN clients,
         NEW cat, Remade(cat, Len(nas), k - 1)
  PROVE  Remade(ImportClient(cat, Fields(clients[k]), "replace"), Len(nas), k)
<1>1. /\ clients \in Seq(ClientRow) /\ nextID \in Nat \ {0} /\ k \in 1 .. Len(clients) /\ k \in Nat
      /\ Once(clients, "mac")
  BY DEF Tables, Catalog, Keyed
<1>2. PICK n \in Seq(NASRow), c \in Seq(ClientRow), x \in Nat \ {0} :
         cat = [nas |-> n, clients |-> c, next |-> x]
  BY TablesAre DEF Kept, Remade
<1>3. /\ Keyed([nas |-> n, clients |-> c, next |-> x]) /\ Once(c, "id")
      /\ DOMAIN n = 1 .. Len(nas) /\ DOMAIN c = 1 .. k - 1 /\ Len(c) = k - 1
      /\ \A i \in 1 .. k - 1 : Fields(c[i]) = Fields(clients[i])
      /\ \A i \in 1 .. Len(nas) : i \in DOMAIN nas => Fields(n[i]) = Fields(nas[i])
  <2>1. DOMAIN n = 1 .. Len(nas) /\ DOMAIN c = 1 .. k - 1
    BY <1>2 DEF Remade
  <2>2. Len(c) = k - 1
    BY <1>1, <2>1
  <2>3. Keyed([nas |-> n, clients |-> c, next |-> x]) /\ Once(c, "id")
    BY <1>2 DEF Kept, Keyed, Remade
  <2>4. \A i \in 1 .. k - 1 : i \in DOMAIN clients
    BY <1>1
  <2>5. \A i \in 1 .. k - 1 : Fields(c[i]) = Fields(clients[i])
    BY <1>2, <2>4 DEF Remade
  <2>6. \A i \in 1 .. Len(nas) : i \in DOMAIN nas => Fields(n[i]) = Fields(nas[i])
    BY <1>2 DEF Remade
  <2> QED BY <2>1, <2>2, <2>3, <2>5, <2>6
<1>4. PICK item : item = Fields(clients[k])
  OBVIOUS
<1>5. item \in ClientFields /\ item.mac = clients[k].mac
  BY <1>1, <1>4, ElementOfSeq, FieldsOfClient
<1>6. item.mac # None /\ Normal[item.mac] = item.mac
  BY <1>5 DEF Tidy
<1>7. ~Has(c, "mac", Normal[item.mac])
  <2> SUFFICES ASSUME NEW i \in DOMAIN c, c[i]["mac"] = item.mac PROVE FALSE
    BY <1>6 DEF Has
  <2>1. i \in DOMAIN clients /\ i # k
    BY <1>1, <1>3
  <2>2. c[i] \in ClientRow /\ clients[i] \in ClientRow
    BY <1>1, <2>1, ElementOfSeq
  <2>3. clients[i].mac = c[i].mac
    BY <1>3, <2>2, FieldsOfClient
  <2> QED BY <1>1, <1>5, <2>1, <2>3 DEF Once
<1>8. NormalItem(item) = item
  BY <1>5, <1>6 DEF NormalItem, ClientFields
<1>9. PICK r : r = Row(item, x)
  OBVIOUS
<1>10. ImportClient(cat, item, "replace") = [nas |-> n, next |-> x + 1, clients |-> Append(c, r)]
  <2>1. Once(c, "id") /\ r = Row(NormalItem(item), x)
    BY <1>3, <1>8, <1>9
  <2>2. ClientAdds(n, c, x, item, "replace", r)
    BY <1>5, <1>6, <1>7, <2>1, ClientItemAdded
  <2> QED BY <1>2, <2>2 DEF ClientAdds
<1>11. r \in ClientRow /\ Fields(r) = item
  BY <1>5, <1>9, RowOfClient
<1>12. /\ Append(c, r) \in Seq(ClientRow) /\ Len(Append(c, r)) = k
       /\ Append(c, r)[k] = r /\ \A i \in 1 .. k - 1 : Append(c, r)[i] = c[i]
  <2>1. /\ Append(c, r) \in Seq(ClientRow) /\ Len(Append(c, r)) = Len(c) + 1
        /\ Append(c, r)[Len(c) + 1] = r /\ \A i \in 1 .. Len(c) : Append(c, r)[i] = c[i]
    BY <1>11, AppendProperties
  <2>2. Len(c) + 1 = k
    BY <1>1, <1>3
  <2> QED BY <1>3, <2>1, <2>2
<1>13. DOMAIN Append(c, r) = 1 .. k
  BY <1>12
<1>14. Kept(ImportClient(cat, item, "replace"))
  BY <1>1, <1>5, <1>6, ClientItemKept DEF Remade
<1>15. \A i \in 1 .. k : i \in DOMAIN clients => Fields(Append(c, r)[i]) = Fields(clients[i])
  <2> SUFFICES ASSUME NEW i \in 1 .. k PROVE Fields(Append(c, r)[i]) = Fields(clients[i])
    OBVIOUS
  <2>1. i = k \/ i \in 1 .. k - 1
    BY <1>1
  <2> QED BY <1>3, <1>4, <1>11, <1>12, <2>1
<1>16. /\ ImportClient(cat, item, "replace").nas = n
       /\ ImportClient(cat, item, "replace").clients = Append(c, r)
  BY <1>10
<1> QED BY <1>3, <1>4, <1>13, <1>14, <1>15, <1>16 DEF Remade
----------------------------------------------------------------------------
LEMMA Exported ==
  ASSUME Catalog \in Tables, NEW mode \in {"merge", "replace"}
  PROVE  /\ ExportCatalog(mode) \in Request /\ ExportCatalog(mode).mode = mode
         /\ ExportCatalog(mode).nas \in Seq(NASFields)
         /\ ExportCatalog(mode).clients \in Seq(ClientFields)
         /\ Len(ExportCatalog(mode).nas) = Len(nas)
         /\ Len(ExportCatalog(mode).clients) = Len(clients)
         /\ \A k \in DOMAIN nas : ExportCatalog(mode).nas[k] = Fields(nas[k])
         /\ \A k \in DOMAIN clients : ExportCatalog(mode).clients[k] = Fields(clients[k])
<1>1. nas \in Seq(NASRow) /\ clients \in Seq(ClientRow)
  BY DEF Tables, Catalog
<1>2. \A k \in 1 .. Len(nas) : Fields(nas[k]) \in NASFields
  BY <1>1, ElementOfSeq, FieldsOfNAS
<1>3. \A k \in 1 .. Len(clients) : Fields(clients[k]) \in ClientFields
  BY <1>1, ElementOfSeq, FieldsOfClient
<1> DEFINE n == [i \in DOMAIN nas |-> Fields(nas[i])]
           c == [i \in DOMAIN clients |-> Fields(clients[i])]
<1>4. n \in [1 .. Len(nas) -> NASFields] /\ n \in Seq(NASFields) /\ Len(n) = Len(nas)
  BY <1>1, <1>2
<1>5. /\ c \in [1 .. Len(clients) -> ClientFields] /\ c \in Seq(ClientFields)
      /\ Len(c) = Len(clients)
  BY <1>1, <1>3
<1>6. ExportCatalog(mode) = [mode |-> mode, nas |-> n, clients |-> c]
  BY DEF ExportCatalog
<1>7. /\ \A k \in DOMAIN nas : n[k] = Fields(nas[k])
      /\ \A k \in DOMAIN clients : c[k] = Fields(clients[k])
  OBVIOUS
<1> HIDE DEF n, c
<1> QED BY <1>4, <1>5, <1>6, <1>7 DEF Request

GoesRound(req, cat) ==
    /\ Acceptable(req)
    /\ [i \in DOMAIN cat.nas |-> Fields(cat.nas[i])] = req.nas
    /\ [i \in DOMAIN cat.clients |-> Fields(cat.clients[i])] = req.clients

LEMMA ExportAcceptable ==
  ASSUME Catalog \in Tables, Tidy, NEW mode \in {"merge", "replace"}
  PROVE  Acceptable(ExportCatalog(mode))
<1>1. nas \in Seq(NASRow) /\ clients \in Seq(ClientRow)
  BY DEF Tables, Catalog
<1>2. \A k \in DOMAIN nas : Fields(nas[k]).ip # None
  BY <1>1, ElementOfSeq, FieldsOfNAS DEF Tidy
<1>3. \A k \in DOMAIN clients : Fields(clients[k]).mac # None
  BY <1>1, ElementOfSeq, FieldsOfClient DEF Tidy
<1>4. /\ DOMAIN ExportCatalog(mode).nas = DOMAIN nas
      /\ DOMAIN ExportCatalog(mode).clients = DOMAIN clients
  BY DEF ExportCatalog
<1> QED BY <1>2, <1>3, <1>4, Exported DEF Acceptable

LEMMA MergeGoesRound ==
  ASSUME Catalog \in Tables, Keyed(Catalog), Tidy
  PROVE  GoesRound(ExportCatalog("merge"), Imported(ExportCatalog("merge")))
<1> DEFINE S == {Catalog}
<1>1. PICK req : req = ExportCatalog("merge")
  OBVIOUS
<1>2. /\ req \in Request /\ req.mode = "merge"
      /\ Len(req.nas) = Len(nas) /\ Len(req.clients) = Len(clients)
      /\ \A k \in DOMAIN nas : req.nas[k] = Fields(nas[k])
      /\ \A k \in DOMAIN clients : req.clients[k] = Fields(clients[k])
  BY <1>1, Exported
<1>3. nas \in Seq(NASRow) /\ clients \in Seq(ClientRow)
  BY DEF Tables, Catalog
<1>4. ImportBase(req.mode) \in S
  BY <1>2 DEF ImportBase
<1>5. \A k \in 1 .. Len(req.nas) : \A cat \in S : ImportNAS(cat, req.nas[k], req.mode) \in S
  <2> SUFFICES ASSUME NEW k \in 1 .. Len(req.nas)
               PROVE  ImportNAS(Catalog, req.nas[k], req.mode) = Catalog
    OBVIOUS
  <2>1. k \in DOMAIN nas /\ req.nas[k] = Fields(nas[k])
    BY <1>2, <1>3
  <2> QED BY <1>2, <2>1, MergedAgain
<1>6. \A k \in 1 .. Len(req.clients) :
         \A cat \in S : ImportClient(cat, req.clients[k], req.mode) \in S
  <2> SUFFICES ASSUME NEW k \in 1 .. Len(req.clients)
               PROVE  ImportClient(Catalog, req.clients[k], req.mode) = Catalog
    OBVIOUS
  <2>1. k \in DOMAIN clients /\ req.clients[k] = Fields(clients[k])
    BY <1>2, <1>3
  <2> QED BY <1>2, <2>1, MergedAgain
<1>7. Imported(req) \in S
  <2> HIDE DEF S
  <2> QED BY <1>2, <1>4, <1>5, <1>6, ImportedIn
<1>8. Imported(req) = Catalog
  BY <1>7
<1>9. Acceptable(req)
  BY <1>1, ExportAcceptable
<1>10. /\ [i \in DOMAIN nas |-> Fields(nas[i])] = req.nas
       /\ [i \in DOMAIN clients |-> Fields(clients[i])] = req.clients
  BY <1>1 DEF ExportCatalog
<1> QED BY <1>1, <1>8, <1>9, <1>10 DEF GoesRound, Catalog

LEMMA ReplaceGoesRound ==
  ASSUME Catalog \in Tables, Keyed(Catalog), Tidy
  PROVE  GoesRound(ExportCatalog("replace"), Imported(ExportCatalog("replace")))
<1>1. PICK req : req = ExportCatalog("replace")
  OBVIOUS
<1>2. /\ req \in Request /\ req.mode = "replace"
      /\ req.nas \in Seq(NASFields) /\ req.clients \in Seq(ClientFields)
      /\ Len(req.nas) = Len(nas) /\ Len(req.clients) = Len(clients)
      /\ \A k \in DOMAIN nas : req.nas[k] = Fields(nas[k])
      /\ \A k \in DOMAIN clients : req.clients[k] = Fields(clients[k])
  BY <1>1, Exported
<1>3. /\ nas \in Seq(NASRow) /\ clients \in Seq(ClientRow)
      /\ Len(nas) \in Nat /\ Len(clients) \in Nat
  BY DEF Tables, Catalog
<1>4. PICK base : base = ImportBase(req.mode)
  OBVIOUS
<1>5. Remade(base, 0, 0)
  <2>1. base = [nas |-> <<>>, clients |-> <<>>, next |-> nextID]
    BY <1>2, <1>4 DEF ImportBase, Catalog
  <2>2. Kept(base)
    BY <1>4, BaseKept
  <2>3. DOMAIN base.nas = 1 .. 0 /\ DOMAIN base.clients = 1 .. 0
    BY <2>1
  <2>4. /\ \A k \in 1 .. 0 : k \in DOMAIN nas => Fields(base.nas[k]) = Fields(nas[k])
        /\ \A k \in 1 .. 0 : k \in DOMAIN clients => Fields(base.clients[k]) = Fields(clients[k])
    OBVIOUS
  <2> QED BY <2>2, <2>3, <2>4 DEF Remade
<1>6. PICK mid : mid = ImportedNAS(base, req.nas, req.mode)
  OBVIOUS
<1>7. Remade(mid, Len(nas), 0)
  <2> DEFINE Q == [k \in 0 .. Len(nas) |-> {cat \in Tables : Remade(cat, k, 0)}]
  <2>1. \A k \in 0 .. Len(nas) : \A cat : cat \in Q[k] <=> Remade(cat, k, 0)
    BY DEF Remade, Kept
  <2> HIDE DEF Q
  <2>2. base \in Q[0]
    BY <1>3, <1>5, <2>1
  <2>3. \A k \in 1 .. Len(req.nas) : \A cat \in Q[k - 1] : ImportNAS(cat, req.nas[k], req.mode) \in Q[k]
    <3> SUFFICES ASSUME NEW k \in 1 .. Len(req.nas), NEW cat \in Q[k - 1]
                 PROVE  ImportNAS(cat, req.nas[k], req.mode) \in Q[k]
      OBVIOUS
    <3>1. k \in DOMAIN nas /\ k - 1 \in 0 .. Len(nas) /\ k \in 0 .. Len(nas)
      BY <1>2, <1>3
    <3>2. Remade(cat, k - 1, 0)
      BY <2>1, <3>1
    <3>3. Remade(ImportNAS(cat, Fields(nas[k]), "replace"), k, 0)
      BY <3>1, <3>2, NASRemade
    <3> QED BY <1>2, <2>1, <3>1, <3>3
  <2>4. ImportedNAS(base, req.nas, req.mode) \in Q[Len(req.nas)]
    BY <1>2, <2>2, <2>3, NASImported
  <2> QED BY <1>2, <1>3, <1>6, <2>1, <2>4
<1>8. PICK cat : cat = ImportedClients(mid, req.clients, req.mode)
  OBVIOUS
<1>9. Remade(cat, Len(nas), Len(clients))
  <2> DEFINE Q == [k \in 0 .. Len(clients) |-> {d \in Tables : Remade(d, Len(nas), k)}]
  <2>1. \A k \in 0 .. Len(clients) : \A d : d \in Q[k] <=> Remade(d, Len(nas), k)
    BY DEF Remade, Kept
  <2> HIDE DEF Q
  <2>2. mid \in Q[0]
    BY <1>3, <1>7, <2>1
  <2>3. \A k \in 1 .. Len(req.clients) :
           \A d \in Q[k - 1] : ImportClient(d, req.clients[k], req.mode) \in Q[k]
    <3> SUFFICES ASSUME NEW k \in 1 .. Len(req.clients), NEW d \in Q[k - 1]
                 PROVE  ImportClient(d, req.clients[k], req.mode) \in Q[k]
      OBVIOUS
    <3>1. k \in DOMAIN clients /\ k - 1 \in 0 .. Len(clients) /\ k \in 0 .. Len(clients)
      BY <1>2, <1>3
    <3>2. Remade(d, Len(nas), k - 1)
      BY <2>1, <3>1
    <3>3. Remade(ImportClient(d, Fields(clients[k]), "replace"), Len(nas), k)
      BY <3>1, <3>2, ClientRemade
    <3> QED BY <1>2, <2>1, <3>1, <3>3
  <2>4. ImportedClients(mid, req.clients, req.mode) \in Q[Len(req.clients)]
    BY <1>2, <2>2, <2>3, ClientsImported
  <2> QED BY <1>2, <1>3, <1>8, <2>1, <2>4
<1>10. Imported(req) = cat
  BY <1>4, <1>6, <1>8 DEF Imported
<1>11. /\ DOMAIN cat.nas = DOMAIN nas /\ DOMAIN cat.clients = DOMAIN clients
       /\ \A k \in DOMAIN nas : Fields(cat.nas[k]) = Fields(nas[k])
       /\ \A k \in DOMAIN clients : Fields(cat.clients[k]) = Fields(clients[k])
  BY <1>3, <1>9 DEF Remade
<1>12. /\ [i \in DOMAIN nas |-> Fields(nas[i])] = req.nas
       /\ [i \in DOMAIN clients |-> Fields(clients[i])] = req.clients
  BY <1>1 DEF ExportCatalog
<1>13. /\ [i \in DOMAIN cat.nas |-> Fields(cat.nas[i])] = [i \in DOMAIN nas |-> Fields(nas[i])]
       /\ [i \in DOMAIN cat.clients |-> Fields(cat.clients[i])] =
            [i \in DOMAIN clients |-> Fields(clients[i])]
  BY <1>11
<1>14. Acceptable(req)
  BY <1>1, ExportAcceptable
<1> QED BY <1>1, <1>10, <1>12, <1>13, <1>14 DEF GoesRound

LEMMA ExportsGoRound ==
  ASSUME Catalog \in Tables, Keyed(Catalog)
  PROVE  RoundTrip
<1>1. Tidy => \A mode \in {"merge", "replace"} :
                 GoesRound(ExportCatalog(mode), Imported(ExportCatalog(mode)))
  BY MergeGoesRound, ReplaceGoesRound
<1> QED BY <1>1 DEF RoundTrip, GoesRound
----------------------------------------------------------------------------
(* The steps of the calls. *)

LEMMA ObservingIs ==
  ASSUME NEW o \in Observing
  PROVE  /\ o.pc \in {"idle", "ensure", "update", "insert", "client", "new", "user"}
         /\ o.pc \in {"ensure", "update", "insert"} => o.msg \in Learning /\ o.name \in Name
         /\ o.pc = "update" => o.id \in Nat \ {0}
         /\ o.pc \in {"client", "new", "user"} => o.msg \in Naming
         /\ o.pc = "user" => o.id \in Nat \ {0}
BY DEF Observing

LEMMA ObservingMade ==
  /\ Idle \in Observing /\ Idle.pc = "idle"
  /\ \A m \in Learning, name \in Name :
        /\ [pc |-> "ensure", msg |-> m, name |-> name] \in Observing
        /\ \A id \in Nat \ {0} : [pc |-> "update", msg |-> m, name |-> name, id |-> id] \in Observing
        /\ [pc |-> "insert", msg |-> m, name |-> name, id |-> None] \in Observing
  /\ \A m \in Naming :
        /\ [pc |-> "client", msg |-> m] \in Observing
        /\ [pc |-> "new", msg |-> m] \in Observing
        /\ \A id \in Nat \ {0} : [pc |-> "user", msg |-> m, id |-> id] \in Observing
BY DEF Observing, Idle

(* A call that goes on is about what it was about; one that begins may    *)
(* meet no other.                                                          *)
Apart(w, o) ==
    o.pc # "idle" => \/ Busy(w) /\ o.msg = worker[w].msg
                     \/ ~Overlap(w, o.msg)

LEMMA ApartStays ==
  ASSUME worker \in [Worker -> Observing], CallsApart, NEW w \in Worker, NEW o, Apart(w, o),
         worker' = [worker EXCEPT ![w] = o]
  PROVE  CallsApart'
<1> SUFFICES ASSUME NEW u \in Worker, NEW v \in Worker, u # v, Busy(u)', Busy(v)'
             PROVE  /\ NasIP(worker'[u].msg) # NasIP(worker'[v].msg)
                    /\ worker'[u].msg.mac # None => worker'[u].msg.mac # worker'[v].msg.mac
  BY DEF CallsApart
<1>1. \A x \in Worker : worker'[x] = IF x = w THEN o ELSE worker[x]
  OBVIOUS
<1>2. ASSUME NEW x \in Worker, x # w, Busy(x), o.pc # "idle"
      PROVE  /\ NasIP(worker[x].msg) # NasIP(o.msg)
             /\ worker[x].msg.mac # None \/ o.msg.mac # None => worker[x].msg.mac # o.msg.mac
  <2>1. CASE Busy(w) /\ o.msg = worker[w].msg
    BY <1>2, <2>1 DEF CallsApart
  <2>2. CASE ~Overlap(w, o.msg)
    BY <1>2, <2>2 DEF Overlap
  <2> QED BY <1>2, <2>1, <2>2 DEF Apart
<1>3. CASE u # w /\ v # w
  BY <1>1, <1>3 DEF CallsApart, Busy
<1>4. CASE u = w
  <2>1. Busy(v) /\ o.pc # "idle"
    BY <1>1, <1>4 DEF Busy
  <2> QED BY <1>1, <1>2, <1>4, <2>1
<1>5. CASE v = w
  <2>1. Busy(u) /\ o.pc # "idle"
    BY <1>1, <1>5 DEF Busy
  <2> QED BY <1>1, <1>2, <1>5, <2>1
<1> QED BY <1>3, <1>4, <1>5

(* A step that only moves a call on. *)
LEMMA CallStep ==
  ASSUME CatalogInv, NEW w \in Worker, NEW o \in Observing,
         worker' = [worker EXCEPT ![w] = o],
         UNCHANGED <<nas, clients, nextID, edits, seen>>,
         disturbed' \in BOOLEAN, disturbed => disturbed',
         ~disturbed' => Apart(w, o) /\ ReadHolds(o)
  PROVE  CatalogInv'
<1>1. TypeOK'
  BY DEF CatalogInv, TypeOK, Catalog
<1>2. Keyed(Catalog)' /\ StationsOnce'
  BY DEF CatalogInv, Catalog, StationsOnce
<1>3. LearnedOnce' /\ NamesAreObserved'
  BY DEF CatalogInv, LearnedOnce, NamesAreObserved
<1>4. ASSUME ~disturbed' PROVE CallsApart' /\ ReadsHold' /\ LabelsDiffer'
  <2>1. CallsApart /\ ReadsHold /\ LabelsDiffer /\ Apart(w, o) /\ ReadHolds(o)
    BY <1>4 DEF CatalogInv
  <2>2. worker \in [Worker -> Observing]
    BY DEF CatalogInv, TypeOK
  <2>3. \A x : ReadHolds(x) => ReadHolds(x)'
    BY DEF ReadHolds, NameFor
  <2>4. \A v \in Worker : ReadHolds(worker'[v])
    BY <2>1, <2>2 DEF ReadsHold
  <2>5. ReadsHold'
    BY <2>3, <2>4 DEF ReadsHold
  <2> QED BY <2>1, <2>2, <2>5, ApartStays DEF LabelsDiffer
<1> QED BY <1>1, <1>2, <1>3, <1>4 DEF CatalogInv
----------------------------------------------------------------------------
LEMMA NameForIsName ==
  ASSUME TypeOK, NEW m \in Learning
  PROVE  /\ NameFor(m) \in Name /\ NewName(m) \in Name
         /\ Has(nas, "ip", NasIP(m)) =>
              \E k \in DOMAIN nas : /\ nas[k] = First(nas, "ip", NasIP(m)) /\ nas[k].ip = NasIP(m)
                                    /\ nas[k].id \in Nat \ {0}
<1>1. nas \in Seq(NASRow)
  BY DEF TypeOK, Tables, Catalog
<1>2. ASSUME Has(nas, "ip", NasIP(m))
      PROVE  \E k \in DOMAIN nas : /\ nas[k] = First(nas, "ip", NasIP(m)) /\ nas[k].ip = NasIP(m)
                                   /\ nas[k] \in NASRow
  <2>1. PICK k \in DOMAIN nas : First(nas, "ip", NasIP(m)) = nas[k] /\ nas[k]["ip"] = NasIP(m)
    BY <1>1, <1>2, FirstIs
  <2> QED BY <1>1, <2>1, ElementOfSeq
<1>3. \A r \in NASRow : r.name \in Maybe(Name) /\ r.id \in Nat \ {0}
  BY DEF NASRow
<1>4. NewName(m) \in Name /\ Incoming(m) \in Maybe(Name) /\ NasIP(m) \in Name
  BY IncomingIsName
<1>5. NameFor(m) \in Name
  <2>1. CASE Has(nas, "ip", NasIP(m))
    <3>1. First(nas, "ip", NasIP(m)).name \in Maybe(Name)
      BY <1>2, <1>3, <2>1
    <3> QED BY <1>4, <2>1, <3>1, MergeIsName DEF NameFor
  <2>2. CASE ~Has(nas, "ip", NasIP(m))
    BY <1>4, <2>2 DEF NameFor
  <2> QED BY <2>1, <2>2
<1> QED BY <1>2, <1>3, <1>4, <1>5

LEMMA ObserveStep ==
  ASSUME CatalogInv, NEW w \in Worker, NEW m \in Message, Observe(w, m)
  PROVE  CatalogInv'
<1>1. m \in Learning /\ TypeOK /\ ~Busy(w) /\ disturbed \in BOOLEAN
  BY DEF Observe, Learning, CatalogInv, TypeOK
<1>2. NameFor(m) \in Name /\ NewName(m) \in Name
  BY <1>1, NameForIsName
<1>3. CASE /\ worker' = [worker EXCEPT ![w] = [pc |-> "ensure", msg |-> m, name |-> NameFor(m)]]
           /\ disturbed' = (disturbed \/ Overlap(w, m))
  <2>1. PICK o : o = [pc |-> "ensure", msg |-> m, name |-> NameFor(m)]
    OBVIOUS
  <2>2. o \in Observing
    BY <1>1, <1>2, <2>1, ObservingMade
  <2>3. ~disturbed' => Apart(w, o) /\ ReadHolds(o)
    BY <1>3, <2>1 DEF Apart, ReadHolds
  <2>4. disturbed' \in BOOLEAN /\ (disturbed => disturbed')
    BY <1>3 DEF Overlap
  <2>5. worker' = [worker EXCEPT ![w] = o] /\ UNCHANGED <<nas, clients, nextID, edits, seen>>
    BY <1>3, <2>1 DEF Observe
  <2> QED BY <2>2, <2>3, <2>4, <2>5, CallStep
<1>4. CASE /\ worker' = [worker EXCEPT ![w] = [pc |-> "ensure", msg |-> m, name |-> NewName(m)]]
           /\ disturbed' = TRUE
  <2>1. PICK o : o = [pc |-> "ensure", msg |-> m, name |-> NewName(m)]
    OBVIOUS
  <2>2. o \in Observing
    BY <1>1, <1>2, <2>1, ObservingMade
  <2>3. worker' = [worker EXCEPT ![w] = o] /\ UNCHANGED <<nas, clients, nextID, edits, seen>>
    BY <1>4, <2>1 DEF Observe
  <2> QED BY <1>4, <2>2, <2>3, CallStep
<1> QED BY <1>3, <1>4 DEF Observe

LEMMA ObserveClientStep ==
  ASSUME CatalogInv, NEW w \in Worker, NEW m \in Message, ObserveClient(w, m)
  PROVE  CatalogInv'
<1>1. m \in Naming /\ disturbed \in BOOLEAN
  BY DEF ObserveClient, Naming, CatalogInv, TypeOK
<1>2. PICK o : o = [pc |-> "client", msg |-> m]
  OBVIOUS
<1>3. o \in Observing
  BY <1>1, <1>2, ObservingMade
<1>4. ~disturbed' => Apart(w, o) /\ ReadHolds(o)
  BY <1>2 DEF Apart, ReadHolds, ObserveClient
<1>5. disturbed' \in BOOLEAN /\ (disturbed => disturbed')
  BY DEF Overlap, ObserveClient
<1>6. worker' = [worker EXCEPT ![w] = o] /\ UNCHANGED <<nas, clients, nextID, edits, seen>>
  BY <1>2 DEF ObserveClient, Go
<1> QED BY <1>3, <1>4, <1>5, <1>6, CallStep

LEMMA CallIs ==
  ASSUME CatalogInv, NEW w \in Worker
  PROVE  worker[w] \in Observing /\ worker \in [Worker -> Observing] /\ disturbed \in BOOLEAN
BY DEF CatalogInv, TypeOK

LEMMA EnsureNASStep ==
  ASSUME CatalogInv, NEW w \in Worker, EnsureNAS(w)
  PROVE  CatalogInv'
<1>1. /\ worker[w] \in Observing /\ worker[w].pc = "ensure" /\ Busy(w) /\ disturbed \in BOOLEAN
      /\ TypeOK
  BY CallIs DEF EnsureNAS, Busy, CatalogInv
<1>2. PICK m, name : m = worker[w].msg /\ name = worker[w].name
  OBVIOUS
<1>3. m \in Learning /\ name \in Name
  BY <1>1, <1>2, ObservingIs
<1>4. PICK o : o = [pc |-> IF Has(nas, "ip", NasIP(m)) THEN "update" ELSE "insert", msg |-> m,
                    name |-> name,
                    id |-> IF Has(nas, "ip", NasIP(m)) THEN First(nas, "ip", NasIP(m)).id ELSE None]
  OBVIOUS
<1>5. worker' = [worker EXCEPT ![w] = o] /\ UNCHANGED <<nas, clients, nextID, edits, seen, disturbed>>
  BY <1>2, <1>4, CallIs DEF EnsureNAS
<1>6. ~disturbed => name = NameFor(m)
  BY <1>1, <1>2 DEF CatalogInv, ReadsHold, ReadHolds
<1>7. o.msg = m /\ o.name = name
  BY <1>4
<1>8. CASE Has(nas, "ip", NasIP(m))
  <2>1. PICK k \in DOMAIN nas : nas[k] = First(nas, "ip", NasIP(m)) /\ nas[k].id \in Nat \ {0}
    BY <1>1, <1>3, <1>8, NameForIsName
  <2>2. o = [pc |-> "update", msg |-> m, name |-> name, id |-> nas[k].id]
    BY <1>4, <1>8, <2>1
  <2>3. o \in Observing
    BY <1>3, <2>1, <2>2, ObservingMade
  <2>4. ~disturbed => Apart(w, o) /\ ReadHolds(o)
    BY <1>1, <1>2, <1>6, <1>8, <2>1, <2>2 DEF Apart, ReadHolds
  <2> QED BY <1>1, <1>5, <2>3, <2>4, CallStep
<1>9. CASE ~Has(nas, "ip", NasIP(m))
  <2>1. o = [pc |-> "insert", msg |-> m, name |-> name, id |-> None]
    BY <1>4, <1>9
  <2>2. o \in Observing
    BY <1>3, <2>1, ObservingMade
  <2>3. ~disturbed => Apart(w, o) /\ ReadHolds(o)
    BY <1>1, <1>2, <1>6, <1>9, <2>1 DEF Apart, ReadHolds
  <2> QED BY <1>1, <1>5, <2>2, <2>3, CallStep
<1> QED BY <1>8, <1>9

(* What follows the NAS, and what follows the station. *)
LEMMA GoesOn ==
  ASSUME NEW w \in Worker, Busy(w), NEW m \in Message, m = worker[w].msg
  PROVE  /\ GoClient(w, m) =>
              \E o \in Observing : /\ worker' = [worker EXCEPT ![w] = o] /\ Apart(w, o)
                                   /\ o.pc \in {"idle", "client"}
         /\ Done(w) =>
              \E o \in Observing : /\ worker' = [worker EXCEPT ![w] = o] /\ Apart(w, o)
                                   /\ o.pc \in {"idle", "client"}
<1>1. ASSUME Done(w)
      PROVE  \E o \in Observing : /\ worker' = [worker EXCEPT ![w] = o] /\ Apart(w, o)
                                  /\ o.pc \in {"idle", "client"}
  <2>1. Idle \in Observing /\ worker' = [worker EXCEPT ![w] = Idle] /\ Idle.pc = "idle"
    BY <1>1, ObservingMade DEF Done
  <2> HIDE DEF Idle
  <2> QED BY <2>1 DEF Apart
<1>2. ASSUME Go(w, m, "client"), m.mac # None
      PROVE  \E o \in Observing : /\ worker' = [worker EXCEPT ![w] = o] /\ Apart(w, o)
                                  /\ o.pc \in {"idle", "client"}
  <2>1. PICK o : o = [pc |-> "client", msg |-> m]
    OBVIOUS
  <2>2. o \in Observing
    BY <1>2, <2>1, ObservingMade DEF Naming
  <2> QED BY <1>2, <2>1, <2>2 DEF Apart, Go
<1> QED BY <1>1, <1>2 DEF GoClient

LEMMA FailStep ==
  ASSUME CatalogInv, NEW w \in Worker, EnsureFails(w) \/ ClientFails(w)
  PROVE  CatalogInv'
<1>1. worker[w] \in Observing /\ Busy(w) /\ disturbed \in BOOLEAN
  BY CallIs DEF EnsureFails, ClientFails, Busy
<1>2. worker[w].msg \in Message
  BY <1>1, ObservingIs DEF Busy, Learning, Naming
<1>3. PICK o \in Observing : /\ worker' = [worker EXCEPT ![w] = o] /\ Apart(w, o)
                             /\ o.pc \in {"idle", "client"}
  BY <1>1, <1>2, GoesOn DEF EnsureFails, ClientFails
<1>4. ReadHolds(o)
  BY <1>3 DEF ReadHolds
<1> QED BY <1>1, <1>3, <1>4, CallStep DEF EnsureFails, ClientFails

LEMMA EnsureClientStep ==
  ASSUME CatalogInv, NEW w \in Worker, EnsureClient(w)
  PROVE  CatalogInv'
<1>1. worker[w] \in Observing /\ worker[w].pc = "client" /\ Busy(w) /\ disturbed \in BOOLEAN
  BY CallIs DEF EnsureClient, Busy
<1>2. PICK m : m = worker[w].msg
  OBVIOUS
<1>3. m \in Naming /\ m \in Message
  BY <1>1, <1>2, ObservingIs DEF Naming
<1>4. UNCHANGED <<nas, clients, nextID, edits, seen, disturbed>>
  BY DEF EnsureClient
<1>5. clients \in Seq(ClientRow)
  BY DEF CatalogInv, TypeOK, Tables, Catalog
<1>6. CASE ~Has(clients, "mac", m.mac)
  <2>1. PICK o : o = [pc |-> "new", msg |-> m]
    OBVIOUS
  <2>2. o \in Observing /\ worker' = [worker EXCEPT ![w] = o]
    BY <1>2, <1>3, <1>6, <2>1, ObservingMade DEF EnsureClient, Go
  <2>3. Apart(w, o) /\ ReadHolds(o)
    BY <1>1, <1>2, <2>1 DEF Apart, ReadHolds
  <2> QED BY <1>1, <1>4, <2>2, <2>3, CallStep
<1>7. CASE Has(clients, "mac", m.mac) /\ Done(w)
  <2>1. PICK o \in Observing : /\ worker' = [worker EXCEPT ![w] = o] /\ Apart(w, o)
                               /\ o.pc \in {"idle", "client"}
    BY <1>1, <1>2, <1>3, <1>7, GoesOn
  <2>2. ReadHolds(o)
    BY <2>1 DEF ReadHolds
  <2> QED BY <1>1, <1>4, <2>1, <2>2, CallStep
<1>8. CASE Has(clients, "mac", m.mac) /\ ~Done(w)
  <2>1. PICK k \in DOMAIN clients : /\ First(clients, "mac", m.mac) = clients[k]
                                    /\ clients[k]["mac"] = m.mac
    BY <1>5, <1>8, FirstIs
  <2>2. clients[k].id \in Nat \ {0}
    <3>1. clients[k] \in ClientRow
      BY <1>5, <2>1, ElementOfSeq
    <3> QED BY <3>1 DEF ClientRow
  <2>3. PICK o : o = [pc |-> "user", msg |-> m, id |-> clients[k].id]
    OBVIOUS
  <2>4. worker' = [worker EXCEPT ![w] = o] /\ clients[k].username = None
    BY <1>2, <1>8, <2>1, <2>3 DEF EnsureClient
  <2>5. o \in Observing
    BY <1>3, <2>2, <2>3, ObservingMade
  <2>6. Apart(w, o) /\ ReadHolds(o)
    BY <1>1, <1>2, <2>1, <2>3, <2>4 DEF Apart, ReadHolds
  <2> QED BY <1>1, <1>4, <2>4, <2>5, <2>6, CallStep
<1> QED BY <1>6, <1>7, <1>8
----------------------------------------------------------------------------
(* A row learned or added at another address does not change what a call   *)
(* has read at its own.                                                    *)
SameAt(t, u, ip) ==
    /\ Has(u, "ip", ip) <=> Has(t, "ip", ip)
    /\ Has(t, "ip", ip) => First(u, "ip", ip) = First(t, "ip", ip)

LEMMA OthersRead ==
  ASSUME NEW t \in Seq(NASRow), NEW u \in Seq(NASRow), NEW ip, DOMAIN t \subseteq DOMAIN u,
         \A i \in DOMAIN t : u[i] = t[i] \/ (t[i].ip # ip /\ u[i].ip # ip),
         \A i \in DOMAIN u \ DOMAIN t : u[i].ip # ip
  PROVE  SameAt(t, u, ip)
<1>1. \A i \in DOMAIN u : u[i].ip = ip => i \in DOMAIN t /\ t[i].ip = ip /\ u[i] = t[i]
  OBVIOUS
<1>2. \A i \in DOMAIN t : t[i].ip = ip => i \in DOMAIN u /\ u[i].ip = ip /\ u[i] = t[i]
  OBVIOUS
<1>3. Has(u, "ip", ip) <=> Has(t, "ip", ip)
  BY <1>1, <1>2 DEF Has
<1>4. ASSUME Has(t, "ip", ip) PROVE First(u, "ip", ip) = First(t, "ip", ip)
  <2>1. PICK i \in DOMAIN t : /\ First(t, "ip", ip) = t[i] /\ t[i]["ip"] = ip
                              /\ \A j \in 1 .. i - 1 : t[j]["ip"] # ip
    BY <1>4, FirstIs, SMTT(30)
  <2>2. PICK j \in DOMAIN u : /\ First(u, "ip", ip) = u[j] /\ u[j]["ip"] = ip
                              /\ \A k \in 1 .. j - 1 : u[k]["ip"] # ip
    BY <1>3, <1>4, FirstIs, SMTT(30)
  <2>3. i \in Nat /\ j \in Nat /\ i >= 1 /\ j >= 1
    OBVIOUS
  <2>4. ~(i < j)
    <3>1. i < j => i \in 1 .. j - 1
      BY <2>3
    <3> QED BY <1>2, <2>1, <2>2, <3>1
  <2>5. ~(j < i)
    <3>1. j < i => j \in 1 .. i - 1
      BY <2>3
    <3> QED BY <1>1, <2>1, <2>2, <3>1
  <2>6. i = j
    BY <2>3, <2>4, <2>5
  <2> QED BY <1>2, <2>1, <2>2, <2>6
<1> QED BY <1>3, <1>4 DEF SameAt

(* What another call has read holds if what it reads stays. *)
LEMMA ReadStays ==
  ASSUME NEW me, ReadHolds(me),
         SameAt(nas, nas', NasIP(me.msg)),
         me.pc = "user" =>
             \A i \in DOMAIN clients :
                clients[i].mac = me.msg.mac => i \in DOMAIN clients' /\ clients'[i] = clients[i]
  PROVE  ReadHolds(me)'
<1>1. NameFor(me.msg)' = NameFor(me.msg)
  BY DEF NameFor, SameAt
<1>2. ReadHolds(me)' <=>
        /\ me.pc \in {"ensure", "update", "insert"} => me.name = NameFor(me.msg)'
        /\ me.pc = "update" => /\ Has(nas', "ip", NasIP(me.msg))
                               /\ me.id = First(nas', "ip", NasIP(me.msg)).id
        /\ me.pc = "insert" => ~Has(nas', "ip", NasIP(me.msg))
        /\ me.pc = "user" =>
             \E i \in DOMAIN clients' :
                 /\ clients'[i].id = me.id /\ clients'[i].mac = me.msg.mac
                 /\ clients'[i].username = None
  BY DEF ReadHolds
<1> QED BY <1>1, <1>2 DEF ReadHolds, SameAt

(* A step that writes for a call, which is done with what it wrote. *)
LEMMA WriteStep ==
  ASSUME CatalogInv, NEW w \in Worker, NEW o \in Observing, Apart(w, o),
         o.pc \in {"idle", "client"}, worker' = [worker EXCEPT ![w] = o],
         edits' = edits, disturbed' = disturbed,
         TypeOK', Keyed(Catalog)', StationsOnce',
         ~disturbed => /\ LearnedOnce' /\ NamesAreObserved' /\ LabelsDiffer'
                       /\ \A v \in Worker \ {w} : ReadHolds(worker[v])'
  PROVE  CatalogInv'
<1>1. worker \in [Worker -> Observing]
  BY DEF CatalogInv, TypeOK
<1>2. LearnedOnce' /\ NamesAreObserved'
  <2>1. CASE disturbed
    BY <2>1 DEF LearnedOnce, NamesAreObserved
  <2> QED BY <2>1
<1>3. ASSUME ~disturbed PROVE CallsApart' /\ ReadsHold' /\ LabelsDiffer'
  <2>1. CallsApart'
    BY <1>1, <1>3, ApartStays DEF CatalogInv
  <2>2. ASSUME NEW v \in Worker PROVE ReadHolds(worker[v])'
    <3>1. CASE v = w
      <4>1. worker'[v] = o
        BY <1>1, <3>1
      <4> QED BY <4>1 DEF ReadHolds
    <3>2. CASE v # w
      <4>1. worker'[v] = worker[v]
        BY <1>1, <3>2
      <4> QED BY <1>3, <3>2, <4>1
    <3> QED BY <3>1, <3>2
  <2> QED BY <1>3, <2>1, <2>2 DEF ReadsHold
<1> QED BY <1>2, <1>3 DEF CatalogInv
----------------------------------------------------------------------------
LEMMA TypesAre ==
  ASSUME TypeOK, Keyed(Catalog)
  PROVE  /\ nas \in Seq(NASRow) /\ clients \in Seq(ClientRow)
         /\ nextID \in Nat \ {0} /\ nextID <= MaxRows + 1 /\ MaxRows \in Nat
         /\ Keyed([nas |-> nas, clients |-> clients, next |-> nextID])
         /\ Once(nas, "id") /\ Once(clients, "id") /\ Once(clients, "mac")
         /\ \A i \in DOMAIN nas : nas[i] \in NASRow /\ nas[i].id \in 1 .. MaxRows /\ nas[i].id # nextID
         /\ \A i \in DOMAIN clients : /\ clients[i] \in ClientRow /\ clients[i].id \in 1 .. MaxRows
                                      /\ clients[i].id # nextID
         /\ \A i \in DOMAIN nas, j \in DOMAIN clients : nas[i].id # clients[j].id
         /\ seen \in [1 .. MaxRows -> History \cup {None}]
<1>1. /\ nas \in Seq(NASRow) /\ clients \in Seq(ClientRow)
      /\ nextID \in Nat \ {0} /\ nextID <= MaxRows + 1 /\ MaxRows \in Nat
      /\ Keyed([nas |-> nas, clients |-> clients, next |-> nextID])
      /\ seen \in [1 .. MaxRows -> History \cup {None}]
  BY CatalogAssumption DEF TypeOK, Tables, Catalog
<1>2. /\ \A i \in DOMAIN nas : nas[i] \in NASRow /\ nas[i].id \in Nat /\ nas[i].id < nextID
      /\ \A i \in DOMAIN clients : /\ clients[i] \in ClientRow /\ clients[i].id \in Nat
                                   /\ clients[i].id < nextID
  BY <1>1, KeyedIds
<1>3. /\ \A r \in NASRow : r.id \in Nat \ {0}
      /\ \A r \in ClientRow : r.id \in Nat \ {0}
  BY DEF NASRow, ClientRow
<1>4. \A i \in Nat \ {0} : i < nextID => i \in 1 .. MaxRows /\ i # nextID
  BY <1>1
<1> QED BY <1>1, <1>2, <1>3, <1>4 DEF Keyed

LEMMA KeyedAlike ==
  ASSUME NEW n, NEW c, NEW u, NEW d, NEW x, Keyed([nas |-> n, clients |-> c, next |-> x]),
         DOMAIN u = DOMAIN n, \A i \in DOMAIN n : u[i].id = n[i].id,
         DOMAIN d = DOMAIN c, \A i \in DOMAIN c : d[i].id = c[i].id /\ d[i].mac = c[i].mac
  PROVE  Keyed([nas |-> u, clients |-> d, next |-> x])
BY DEF Keyed, Once

LEMMA LearnedRow ==
  ASSUME NEW row \in NASRow, NEW name \in Name, NEW m \in Learning
  PROVE  /\ Learn(row, name, m) \in NASRow /\ Learn(row, name, m).id = row.id
         /\ Learn(row, name, m).ip = row.ip /\ Learn(row, name, m).name = name
         /\ Learn(row, name, m).secret = row.secret
         /\ Learn(row, name, m).identifier = Or(row.identifier, m.identifier)
<1>1. m.identifier \in Maybe(Name)
  BY CatalogAssumption DEF Learning, Decoded
<1>2. Or(row.identifier, m.identifier) \in Maybe(Name)
  BY <1>1 DEF Or, NASRow
<1>3. name \in Maybe(Name)
  BY DEF Maybe
<1> QED BY <1>2, <1>3 DEF Learn, NASRow

LEMMA UpdateIs ==
  ASSUME TypeOK, Keyed(Catalog), NEW w \in Worker, UpdateLearned(w),
         NEW m \in Learning, NEW name \in Name, NEW id,
         m = worker[w].msg, name = worker[w].name, id = worker[w].id
  PROVE  /\ nas' \in Seq(NASRow) /\ DOMAIN nas' = DOMAIN nas
         /\ \A i \in DOMAIN nas :
               /\ nas'[i].id = nas[i].id /\ nas'[i].ip = nas[i].ip
               /\ nas'[i].secret = nas[i].secret
               /\ nas'[i].identifier = Or(nas[i].identifier, nas'[i].identifier)
               /\ nas[i].id = id => nas'[i].name = name
               /\ nas[i].id # id => nas'[i] = nas[i]
         /\ seen' \in [1 .. MaxRows -> History \cup {None}]
         /\ \A i \in 1 .. MaxRows :
               seen'[i] = IF i = id /\ seen[i] # None THEN Saw(seen[i], m, NasIP(m)) ELSE seen[i]
<1>1. nas' = [i \in DOMAIN nas |-> IF nas[i].id = id THEN Learn(nas[i], name, m) ELSE nas[i]]
  BY DEF UpdateLearned, Change
<1>2. /\ nas \in Seq(NASRow) /\ \A i \in DOMAIN nas : nas[i] \in NASRow
      /\ seen \in [1 .. MaxRows -> History \cup {None}]
  BY TypesAre
<1>3. \A i \in DOMAIN nas : nas'[i] = IF nas[i].id = id THEN Learn(nas[i], name, m) ELSE nas[i]
  BY <1>1
<1>4. \A i \in DOMAIN nas : nas'[i] \in NASRow
  BY <1>2, <1>3, LearnedRow
<1>5. nas' \in Seq(NASRow) /\ DOMAIN nas' = DOMAIN nas
  <2>1. DOMAIN nas = 1 .. Len(nas) /\ Len(nas) \in Nat
    BY <1>2
  <2>2. nas' \in [1 .. Len(nas) -> NASRow]
    BY <1>1, <1>4, <2>1
  <2> QED BY <2>1, <2>2
<1>6. ASSUME NEW i \in DOMAIN nas
      PROVE  /\ nas'[i].id = nas[i].id /\ nas'[i].ip = nas[i].ip
             /\ nas'[i].secret = nas[i].secret
             /\ nas'[i].identifier = Or(nas[i].identifier, nas'[i].identifier)
             /\ nas[i].id = id => nas'[i].name = name
             /\ nas[i].id # id => nas'[i] = nas[i]
  <2>1. CASE nas[i].id = id
    <3>1. nas'[i] = Learn(nas[i], name, m) /\ nas[i] \in NASRow
      BY <1>2, <1>3, <2>1
    <3> QED BY <2>1, <3>1, LearnedRow DEF Or
  <2>2. CASE nas[i].id # id
    BY <1>3, <2>2 DEF Or
  <2> QED BY <2>1, <2>2
<1>7. NasIP(m) # None
  BY DEF Learning
<1>8. \A i \in 1 .. MaxRows : seen[i] # None => Saw(seen[i], m, NasIP(m)) \in History
  BY <1>2, <1>7, SawIsHistory
<1>9. seen' = [seen EXCEPT ![id] = IF seen[id] = None THEN None ELSE Saw(seen[id], m, NasIP(m))]
  BY DEF UpdateLearned, Change
<1>10. \A i \in 1 .. MaxRows :
         seen'[i] = IF i = id /\ seen[i] # None THEN Saw(seen[i], m, NasIP(m)) ELSE seen[i]
  BY <1>2, <1>9
<1>11. seen' \in [1 .. MaxRows -> History \cup {None}]
  BY <1>2, <1>8, <1>9, <1>10
<1> QED BY <1>5, <1>6, <1>10, <1>11

LEMMA UpdateLearnedStep ==
  ASSUME CatalogInv, NEW w \in Worker, UpdateLearned(w)
  PROVE  CatalogInv'
<1>1. /\ worker[w] \in Observing /\ worker[w].pc = "update" /\ Busy(w)
      /\ TypeOK /\ Keyed(Catalog) /\ worker \in [Worker -> Observing]
  BY CallIs DEF UpdateLearned, Change, Busy, CatalogInv
<1>2. PICK m, name, id, ip : /\ m = worker[w].msg /\ name = worker[w].name /\ id = worker[w].id
                             /\ ip = NasIP(m)
  OBVIOUS
<1>3. m \in Learning /\ name \in Name /\ m \in Message
  BY <1>1, <1>2, ObservingIs DEF Learning
<1>4. /\ nas' \in Seq(NASRow) /\ DOMAIN nas' = DOMAIN nas
      /\ \A i \in DOMAIN nas :
            /\ nas'[i].id = nas[i].id /\ nas'[i].ip = nas[i].ip
            /\ nas[i].id = id => nas'[i].name = name
            /\ nas[i].id # id => nas'[i] = nas[i]
      /\ seen' \in [1 .. MaxRows -> History \cup {None}]
      /\ \A i \in 1 .. MaxRows :
            seen'[i] = IF i = id /\ seen[i] # None THEN Saw(seen[i], m, ip) ELSE seen[i]
  BY <1>1, <1>2, <1>3, UpdateIs
<1>5. UNCHANGED <<clients, nextID, edits, disturbed>>
  BY DEF UpdateLearned, Change
<1>6. PICK o \in Observing : /\ worker' = [worker EXCEPT ![w] = o] /\ Apart(w, o)
                             /\ o.pc \in {"idle", "client"}
  BY <1>1, <1>2, <1>3, GoesOn DEF UpdateLearned, Change
<1>7. TypeOK'
  <2>1. Catalog' \in Tables
    BY <1>1, <1>4, <1>5 DEF TypeOK, Tables, Catalog
  <2> QED BY <1>1, <1>4, <1>5, <1>6, <2>1 DEF TypeOK
<1>8. Keyed(Catalog)'
  BY <1>1, <1>4, <1>5, KeyedAlike DEF Catalog
<1>9. /\ \A i \in DOMAIN nas : nas[i].id \in 1 .. MaxRows
      /\ \A i \in DOMAIN clients : clients[i].id \in 1 .. MaxRows
      /\ nas \in Seq(NASRow) /\ Once(nas, "id")
  BY <1>1, TypesAre
<1>10. \A i \in 1 .. MaxRows : seen'[i] # None => seen[i] # None
  BY <1>4
<1>11. StationsOnce'
  BY <1>5, <1>9, <1>10 DEF CatalogInv, StationsOnce
<1>12. ASSUME ~disturbed
       PROVE  /\ LearnedOnce' /\ NamesAreObserved' /\ LabelsDiffer'
              /\ \A v \in Worker \ {w} : ReadHolds(worker[v])'
  <2>1. LearnedOnce /\ NamesAreObserved /\ LabelsDiffer /\ CallsApart /\ ReadsHold
    BY <1>12 DEF CatalogInv
  <2>2. /\ Has(nas, "ip", ip) /\ id = First(nas, "ip", ip).id /\ name = NameFor(m)
    BY <1>1, <1>2, <2>1 DEF ReadsHold, ReadHolds
  <2>3. PICK k \in DOMAIN nas : First(nas, "ip", ip) = nas[k] /\ nas[k]["ip"] = ip
    BY <1>9, <2>2, FirstIs
  <2>4. \A i \in DOMAIN nas : nas[i].id = id => i = k
    BY <1>9, <2>2, <2>3 DEF Once
  <2>5. nas[k].id = id /\ nas[k].ip = ip /\ ip # None
    BY <1>2, <1>3, <2>2, <2>3 DEF Learning
  <2>6. ~disturbed'
    BY <1>5, <1>12
  <2>7. LearnedOnce'
    BY <1>4, <1>9, <1>10, <1>12, <2>1 DEF LearnedOnce
  <2>8. ASSUME NEW i \in DOMAIN nas, seen'[nas[i].id] # None
        PROVE  /\ nas[i].ip \notin ProxyNames =>
                    nas'[i].name = ObservedName(seen'[nas[i].id], nas[i].ip)
               /\ nas[i].ip # None /\ seen'[nas[i].id].label # nas[i].ip
    <3>1. seen[nas[i].id] # None /\ seen[nas[i].id] \in History /\ nas[i].id \in 1 .. MaxRows
      BY <1>1, <1>9, <1>10, <2>8, TypesAre
    <3>2. /\ nas[i].ip \notin ProxyNames => nas[i].name = ObservedName(seen[nas[i].id], nas[i].ip)
          /\ nas[i].ip # None /\ seen[nas[i].id].label # nas[i].ip
      BY <1>12, <2>1, <3>1 DEF NamesAreObserved, LabelsDiffer
    <3>3. CASE i = k
      <4>1. seen'[id] = Saw(seen[id], m, ip)
        BY <1>4, <2>5, <3>1, <3>3
      <4>2. nas'[k].name = MergeAutofillName(nas[k].name, Incoming(m), ip)
        BY <1>2, <1>4, <2>2, <2>3, <2>5 DEF NameFor
      <4>3. /\ ip \notin ProxyNames =>
                 MergeAutofillName(ObservedName(seen[id], ip), Incoming(m), ip)
                   = ObservedName(Saw(seen[id], m, ip), ip)
            /\ Saw(seen[id], m, ip).label # ip
        BY <1>2, <1>3, <2>5, <3>1, <3>2, <3>3, MergeIsObserved, SawIsHistory
      <4> QED BY <2>5, <3>2, <3>3, <4>1, <4>2, <4>3
    <3>4. CASE i # k
      <4>1. nas[i].id # id
        BY <2>4, <3>4
      <4> QED BY <1>4, <3>1, <3>2, <4>1
    <3> QED BY <3>3, <3>4
  <2>9. NamesAreObserved' /\ LabelsDiffer'
    BY <1>4, <2>8 DEF NamesAreObserved, LabelsDiffer
  <2>10. ASSUME NEW v \in Worker \ {w} PROVE ReadHolds(worker[v])'
    <3>1. PICK me : me = worker[v]
      OBVIOUS
    <3>2. worker'[v] = me /\ ReadHolds(me)
      BY <1>1, <1>6, <2>1, <3>1 DEF ReadsHold
    <3>3. CASE me.pc = "idle"
      BY <3>2, <3>3 DEF ReadHolds
    <3>4. CASE me.pc # "idle"
      <4>1. NasIP(me.msg) # ip
        BY <1>1, <1>2, <2>1, <3>1, <3>4 DEF CallsApart, Busy
      <4>2. \A i \in DOMAIN nas : \/ nas'[i] = nas[i]
                                  \/ nas[i].ip # NasIP(me.msg) /\ nas'[i].ip # NasIP(me.msg)
        BY <1>4, <2>4, <2>5, <4>1
      <4>3. SameAt(nas, nas', NasIP(me.msg))
        BY <1>4, <1>9, <4>2, OthersRead
      <4>4. ReadHolds(me)'
        BY <1>5, <3>2, <4>3, ReadStays
      <4> QED BY <3>2, <4>4
    <3> QED BY <3>3, <3>4
  <2> QED BY <2>7, <2>9, <2>10
<1> QED BY <1>5, <1>6, <1>7, <1>8, <1>11, <1>12, WriteStep
----------------------------------------------------------------------------
(* A row is appended under the next id, and something noted about it. *)
LEMMA AddedNAS ==
  ASSUME TypeOK, Keyed(Catalog), NEW item \in NASFields, NEW h \in History \cup {None},
         nextID <= MaxRows, nas' = Insert(nas, nextID, item), clients' = clients,
         nextID' = nextID + 1, seen' = [seen EXCEPT ![nextID] = h],
         NEW k, k = Len(nas) + 1
  PROVE  /\ Catalog' \in Tables /\ Keyed(Catalog)' /\ nextID' <= MaxRows + 1
         /\ DOMAIN nas' = DOMAIN nas \cup {k} /\ k \notin DOMAIN nas
         /\ \A i \in DOMAIN nas : nas'[i] = nas[i]
         /\ nas'[k].id = nextID /\ nas'[k].ip = item.ip /\ nas'[k].name = item.name
         /\ nextID \in 1 .. MaxRows
         /\ seen' \in [1 .. MaxRows -> History \cup {None}]
         /\ \A i \in DOMAIN nas : seen'[nas[i].id] = seen[nas[i].id]
         /\ \A i \in DOMAIN clients : seen'[clients[i].id] = seen[clients[i].id]
         /\ seen'[nextID] = h
<1>1. /\ nas \in Seq(NASRow) /\ clients \in Seq(ClientRow) /\ nextID \in Nat \ {0}
      /\ Keyed([nas |-> nas, clients |-> clients, next |-> nextID]) /\ MaxRows \in Nat
      /\ \A i \in DOMAIN nas : nas[i].id \in 1 .. MaxRows /\ nas[i].id # nextID
      /\ \A i \in DOMAIN clients : clients[i].id \in 1 .. MaxRows /\ clients[i].id # nextID
      /\ seen \in [1 .. MaxRows -> History \cup {None}]
  BY TypesAre
<1>2. PICK r : r = Row(item, nextID)
  OBVIOUS
<1>3. r \in NASRow /\ r.id = nextID /\ r.ip = item.ip /\ r.name = item.name
  BY <1>1, <1>2, RowOfNAS
<1>4. nas' = Append(nas, r)
  BY <1>2 DEF Insert
<1>5. nas' \in Seq(NASRow) /\ Keyed([nas |-> nas', clients |-> clients, next |-> nextID + 1])
  BY <1>1, <1>3, <1>4, KeyedAddNAS
<1>6. /\ Len(nas') = Len(nas) + 1 /\ nas'[Len(nas) + 1] = r
      /\ \A i \in 1 .. Len(nas) : nas'[i] = nas[i]
  BY <1>1, <1>3, <1>4, AppendProperties
<1>7. /\ DOMAIN nas' = DOMAIN nas \cup {k} /\ k \notin DOMAIN nas /\ nas'[k] = r
      /\ \A i \in DOMAIN nas : nas'[i] = nas[i]
  <2>1. DOMAIN nas = 1 .. Len(nas) /\ Len(nas) \in Nat /\ DOMAIN nas' = 1 .. Len(nas) + 1
    BY <1>1, <1>5, <1>6
  <2> QED BY <1>6, <2>1
<1>8. nextID \in 1 .. MaxRows /\ nextID' <= MaxRows + 1 /\ nextID' \in Nat \ {0}
  BY <1>1
<1>9. Catalog' \in Tables /\ Keyed(Catalog)'
  BY <1>1, <1>5, <1>8 DEF Tables, Catalog
<1>10. /\ seen' \in [1 .. MaxRows -> History \cup {None}]
       /\ \A i \in DOMAIN nas : seen'[nas[i].id] = seen[nas[i].id]
       /\ \A i \in DOMAIN clients : seen'[clients[i].id] = seen[clients[i].id]
       /\ seen'[nextID] = h
  BY <1>1, <1>8
<1> QED BY <1>3, <1>7, <1>8, <1>9, <1>10

LEMMA AddedClient ==
  ASSUME TypeOK, Keyed(Catalog), NEW item \in ClientFields, NEW h \in History \cup {None},
         ~Has(clients, "mac", item.mac),
         nextID <= MaxRows, clients' = Insert(clients, nextID, item), nas' = nas,
         nextID' = nextID + 1, seen' = [seen EXCEPT ![nextID] = h],
         NEW k, k = Len(clients) + 1
  PROVE  /\ Catalog' \in Tables /\ Keyed(Catalog)' /\ nextID' <= MaxRows + 1
         /\ DOMAIN clients' = DOMAIN clients \cup {k} /\ k \notin DOMAIN clients
         /\ \A i \in DOMAIN clients : clients'[i] = clients[i]
         /\ clients'[k].id = nextID /\ clients'[k].mac = item.mac
         /\ nextID \in 1 .. MaxRows
         /\ seen' \in [1 .. MaxRows -> History \cup {None}]
         /\ \A i \in DOMAIN nas : seen'[nas[i].id] = seen[nas[i].id]
         /\ \A i \in DOMAIN clients : seen'[clients[i].id] = seen[clients[i].id]
         /\ seen'[nextID] = h
<1>1. /\ nas \in Seq(NASRow) /\ clients \in Seq(ClientRow) /\ nextID \in Nat \ {0}
      /\ Keyed([nas |-> nas, clients |-> clients, next |-> nextID]) /\ MaxRows \in Nat
      /\ \A i \in DOMAIN nas : nas[i].id \in 1 .. MaxRows /\ nas[i].id # nextID
      /\ \A i \in DOMAIN clients : clients[i].id \in 1 .. MaxRows /\ clients[i].id # nextID
      /\ seen \in [1 .. MaxRows -> History \cup {None}]
  BY TypesAre
<1>2. PICK r : r = Row(item, nextID)
  OBVIOUS
<1>3. r \in ClientRow /\ r.id = nextID /\ r.mac = item.mac
  BY <1>1, <1>2, RowOfClient
<1>4. clients' = Append(clients, r) /\ \A i \in DOMAIN clients : clients[i].mac # r.mac
  BY <1>2, <1>3 DEF Insert, Has
<1>5. clients' \in Seq(ClientRow) /\ Keyed([nas |-> nas, clients |-> clients', next |-> nextID + 1])
  BY <1>1, <1>3, <1>4, KeyedAddClient
<1>6. /\ Len(clients') = Len(clients) + 1 /\ clients'[Len(clients) + 1] = r
      /\ \A i \in 1 .. Len(clients) : clients'[i] = clients[i]
  BY <1>1, <1>3, <1>4, AppendProperties
<1>7. /\ DOMAIN clients' = DOMAIN clients \cup {k} /\ k \notin DOMAIN clients /\ clients'[k] = r
      /\ \A i \in DOMAIN clients : clients'[i] = clients[i]
  <2>1. /\ DOMAIN clients = 1 .. Len(clients) /\ Len(clients) \in Nat
        /\ DOMAIN clients' = 1 .. Len(clients) + 1
    BY <1>1, <1>5, <1>6
  <2> QED BY <1>6, <2>1
<1>8. nextID \in 1 .. MaxRows /\ nextID' <= MaxRows + 1 /\ nextID' \in Nat \ {0}
  BY <1>1
<1>9. Catalog' \in Tables /\ Keyed(Catalog)'
  BY <1>1, <1>5, <1>8 DEF Tables, Catalog
<1>10. /\ seen' \in [1 .. MaxRows -> History \cup {None}]
       /\ \A i \in DOMAIN nas : seen'[nas[i].id] = seen[nas[i].id]
       /\ \A i \in DOMAIN clients : seen'[clients[i].id] = seen[clients[i].id]
       /\ seen'[nextID] = h
  BY <1>1, <1>8
<1> QED BY <1>3, <1>7, <1>8, <1>9, <1>10

LEMMA InsertLearnedStep ==
  ASSUME CatalogInv, NEW w \in Worker, InsertLearned(w)
  PROVE  CatalogInv'
<1>1. /\ worker[w] \in Observing /\ worker[w].pc = "insert" /\ Busy(w)
      /\ TypeOK /\ Keyed(Catalog) /\ worker \in [Worker -> Observing]
      /\ nas \in Seq(NASRow)
  BY CallIs, TypesAre DEF InsertLearned, Busy, CatalogInv
<1>2. PICK m, name, ip : m = worker[w].msg /\ name = worker[w].name /\ ip = NasIP(m)
  OBVIOUS
<1>3. m \in Learning /\ name \in Name /\ m \in Message /\ ip # None
  BY <1>1, <1>2, ObservingIs DEF Learning
<1>4. PICK item : item = [ip |-> ip, name |-> name, identifier |-> m.identifier, secret |-> None]
  OBVIOUS
<1>5. item \in NASFields /\ item.ip = ip /\ item.name = name
  <2>1. m.identifier \in Maybe(Name)
    BY <1>3, CatalogAssumption DEF Decoded
  <2>2. ip \in Maybe(Addr) /\ name \in Maybe(Name) /\ None \in Maybe(Secret)
    BY <1>2, <1>3, IncomingIsName DEF Maybe
  <2> QED BY <1>4, <2>1, <2>2 DEF NASFields
<1>6. PICK h : h = Saw(NothingSeen, m, ip)
  OBVIOUS
<1>7. h \in History /\ h.label # ip
  BY <1>2, <1>3, <1>6, NothingIsHistory, SawIsHistory
<1>8. PICK k : k = Len(nas) + 1
  OBVIOUS
<1>9. /\ nas' = Insert(nas, nextID, item) /\ nextID <= MaxRows /\ nextID' = nextID + 1
      /\ seen' = [seen EXCEPT ![nextID] = h]
      /\ UNCHANGED <<clients, edits, disturbed>>
  BY <1>2, <1>4, <1>6 DEF InsertLearned
<1>10. /\ Catalog' \in Tables /\ Keyed(Catalog)' /\ nextID' <= MaxRows + 1
       /\ DOMAIN nas' = DOMAIN nas \cup {k} /\ k \notin DOMAIN nas
       /\ \A i \in DOMAIN nas : nas'[i] = nas[i] /\ seen'[nas[i].id] = seen[nas[i].id]
       /\ nas'[k].id = nextID /\ nas'[k].ip = ip /\ nas'[k].name = name
       /\ seen' \in [1 .. MaxRows -> History \cup {None}]
       /\ \A i \in DOMAIN clients : seen'[clients[i].id] = seen[clients[i].id]
       /\ seen'[nextID] = h
  <2>1. h \in History \cup {None} /\ clients' = clients
    BY <1>7, <1>9
  <2> QED BY <1>1, <1>5, <1>8, <1>9, <2>1, AddedNAS, ZenonT(40)
<1>11. PICK o \in Observing : /\ worker' = [worker EXCEPT ![w] = o] /\ Apart(w, o)
                              /\ o.pc \in {"idle", "client"}
  BY <1>1, <1>2, <1>3, GoesOn DEF InsertLearned
<1>12. TypeOK'
  BY <1>1, <1>9, <1>10, <1>11 DEF TypeOK
<1>13. StationsOnce'
  BY <1>9, <1>10 DEF CatalogInv, StationsOnce
<1>14. ASSUME ~disturbed
       PROVE  /\ LearnedOnce' /\ NamesAreObserved' /\ LabelsDiffer'
              /\ \A v \in Worker \ {w} : ReadHolds(worker[v])'
  <2>1. LearnedOnce /\ NamesAreObserved /\ LabelsDiffer /\ CallsApart /\ ReadsHold
    BY <1>14 DEF CatalogInv
  <2>2. ~Has(nas, "ip", ip) /\ name = NewName(m)
    BY <1>1, <1>2, <2>1 DEF ReadsHold, ReadHolds, NameFor
  <2>3. \A i \in DOMAIN nas : nas[i].ip # ip
    BY <2>2 DEF Has
  <2>4. LearnedOnce'
    <3> SUFFICES ASSUME NEW i \in DOMAIN nas', NEW j \in DOMAIN nas', i # j,
                        seen'[nas'[i].id] # None, seen'[nas'[j].id] # None
                 PROVE  nas'[i].ip # nas'[j].ip
      BY DEF LearnedOnce
    <3>1. CASE i \in DOMAIN nas /\ j \in DOMAIN nas
      BY <1>10, <1>14, <2>1, <3>1 DEF LearnedOnce
    <3>2. CASE i = k \/ j = k
      BY <1>10, <2>3, <3>2
    <3> QED BY <1>10, <3>1, <3>2
  <2>5. ip \notin ProxyNames => name = ObservedName(h, ip)
    BY <1>2, <1>3, <1>6, <2>2, NewIsObserved
  <2>6. NamesAreObserved'
    BY <1>10, <1>14, <2>1, <2>5 DEF NamesAreObserved
  <2>7. LabelsDiffer'
    BY <1>3, <1>7, <1>10, <2>1 DEF LabelsDiffer
  <2>8. ASSUME NEW v \in Worker \ {w} PROVE ReadHolds(worker[v])'
    <3>1. PICK me : me = worker[v]
      OBVIOUS
    <3>2. worker'[v] = me /\ ReadHolds(me)
      BY <1>1, <1>11, <2>1, <3>1 DEF ReadsHold
    <3>3. CASE me.pc = "idle"
      BY <3>2, <3>3 DEF ReadHolds
    <3>4. CASE me.pc # "idle"
      <4>1. NasIP(me.msg) # ip
        BY <1>1, <1>2, <2>1, <3>1, <3>4 DEF CallsApart, Busy
      <4>2. nas' \in Seq(NASRow)
        BY <1>10 DEF Catalog, Tables
      <4>3. SameAt(nas, nas', NasIP(me.msg))
        <5>1. /\ DOMAIN nas \subseteq DOMAIN nas' /\ \A i \in DOMAIN nas : nas'[i] = nas[i]
              /\ \A i \in DOMAIN nas' \ DOMAIN nas : nas'[i].ip # NasIP(me.msg)
          BY <1>10, <4>1
        <5> QED BY <1>1, <4>2, <5>1, OthersRead
      <4>4. ReadHolds(me)'
        BY <1>9, <3>2, <4>3, ReadStays
      <4> QED BY <3>2, <4>4
    <3> QED BY <3>3, <3>4
  <2> QED BY <2>4, <2>6, <2>7, <2>8
<1> QED BY <1>9, <1>10, <1>11, <1>12, <1>13, <1>14, WriteStep
----------------------------------------------------------------------------
(* Stations. *)
LEMMA NamedIs ==
  ASSUME TypeOK, Keyed(Catalog), NEW w \in Worker, NameStation(w),
         NEW m \in Naming, NEW id, m = worker[w].msg, id = worker[w].id
  PROVE  /\ clients' \in Seq(ClientRow) /\ DOMAIN clients' = DOMAIN clients
         /\ \A i \in DOMAIN clients :
               /\ clients'[i].id = clients[i].id /\ clients'[i].mac = clients[i].mac
               /\ clients[i].id # id => clients'[i] = clients[i]
<1> DEFINE N(row) == [row EXCEPT !.username = m.user]
<1>1. clients' = [i \in DOMAIN clients |-> IF clients[i].id = id THEN N(clients[i]) ELSE clients[i]]
  BY DEF NameStation, Change
<1>2. clients \in Seq(ClientRow) /\ \A i \in DOMAIN clients : clients[i] \in ClientRow
  BY TypesAre
<1>3. m.user \in Maybe(User)
  BY CatalogAssumption DEF Naming, Decoded
<1>4. \A row \in ClientRow : N(row) \in ClientRow /\ N(row).id = row.id /\ N(row).mac = row.mac
  BY <1>3 DEF ClientRow
<1> HIDE DEF N
<1>5. \A i \in DOMAIN clients :
         clients'[i] = IF clients[i].id = id THEN N(clients[i]) ELSE clients[i]
  BY <1>1
<1>6. clients' \in Seq(ClientRow) /\ DOMAIN clients' = DOMAIN clients
  <2>1. DOMAIN clients = 1 .. Len(clients) /\ Len(clients) \in Nat
    BY <1>2
  <2>2. \A i \in DOMAIN clients : clients'[i] \in ClientRow
    BY <1>2, <1>4, <1>5
  <2>3. clients' \in [1 .. Len(clients) -> ClientRow]
    BY <1>1, <2>1, <2>2
  <2> QED BY <2>1, <2>3
<1> QED BY <1>2, <1>4, <1>5, <1>6

LEMMA NameStationStep ==
  ASSUME CatalogInv, NEW w \in Worker, NameStation(w)
  PROVE  CatalogInv'
<1>1. /\ worker[w] \in Observing /\ worker[w].pc = "user" /\ Busy(w)
      /\ TypeOK /\ Keyed(Catalog) /\ worker \in [Worker -> Observing]
  BY CallIs DEF NameStation, Change, Busy, CatalogInv
<1>2. PICK m, id : m = worker[w].msg /\ id = worker[w].id
  OBVIOUS
<1>3. m \in Naming /\ m \in Message
  BY <1>1, <1>2, ObservingIs DEF Naming
<1>4. /\ clients' \in Seq(ClientRow) /\ DOMAIN clients' = DOMAIN clients
      /\ \A i \in DOMAIN clients :
            /\ clients'[i].id = clients[i].id /\ clients'[i].mac = clients[i].mac
            /\ clients[i].id # id => clients'[i] = clients[i]
  BY <1>1, <1>2, <1>3, NamedIs
<1>5. UNCHANGED <<nas, nextID, edits, seen, disturbed>>
  BY DEF NameStation, Change
<1>6. PICK o \in Observing : /\ worker' = [worker EXCEPT ![w] = o] /\ Apart(w, o)
                             /\ o.pc \in {"idle", "client"}
  BY <1>1, <1>2, <1>3, GoesOn DEF NameStation, Change
<1>7. TypeOK'
  <2>1. Catalog' \in Tables
    BY <1>1, <1>4, <1>5 DEF TypeOK, Tables, Catalog
  <2> QED BY <1>1, <1>5, <1>6, <2>1 DEF TypeOK
<1>8. Keyed(Catalog)'
  BY <1>1, <1>4, <1>5, KeyedAlike DEF Catalog
<1>9. StationsOnce'
  BY <1>4, <1>5 DEF CatalogInv, StationsOnce
<1>10. ASSUME ~disturbed
       PROVE  /\ LearnedOnce' /\ NamesAreObserved' /\ LabelsDiffer'
              /\ \A v \in Worker \ {w} : ReadHolds(worker[v])'
  <2>1. LearnedOnce /\ NamesAreObserved /\ LabelsDiffer /\ CallsApart /\ ReadsHold
    BY <1>10 DEF CatalogInv
  <2>2. LearnedOnce' /\ NamesAreObserved' /\ LabelsDiffer'
    BY <1>5, <2>1 DEF LearnedOnce, NamesAreObserved, LabelsDiffer
  <2>3. PICK k \in DOMAIN clients : clients[k].id = id /\ clients[k].mac = m.mac
    BY <1>1, <1>2, <2>1 DEF ReadsHold, ReadHolds
  <2>4. \A i \in DOMAIN clients : clients[i].id = id => i = k
    BY <1>1, <2>3, TypesAre DEF Once
  <2>5. ASSUME NEW v \in Worker \ {w} PROVE ReadHolds(worker[v])'
    <3>1. PICK me : me = worker[v]
      OBVIOUS
    <3>2. worker'[v] = me /\ ReadHolds(me)
      BY <1>1, <1>6, <2>1, <3>1 DEF ReadsHold
    <3>3. CASE me.pc = "idle"
      BY <3>2, <3>3 DEF ReadHolds
    <3>4. CASE me.pc # "idle"
      <4>1. me.msg.mac # m.mac
        BY <1>1, <1>2, <1>3, <2>1, <3>1, <3>4 DEF CallsApart, Busy, Naming
      <4>2. \A i \in DOMAIN clients :
               clients[i].mac = me.msg.mac => i \in DOMAIN clients' /\ clients'[i] = clients[i]
        BY <1>4, <2>3, <2>4, <4>1
      <4>3. ReadHolds(me)'
        BY <1>5, <3>2, <4>2, ReadStays DEF SameAt
      <4> QED BY <3>2, <4>3
    <3> QED BY <3>3, <3>4
  <2> QED BY <2>2, <2>5
<1> QED BY <1>5, <1>6, <1>7, <1>8, <1>9, <1>10, WriteStep

LEMMA InsertStationStep ==
  ASSUME CatalogInv, NEW w \in Worker, InsertStation(w)
  PROVE  CatalogInv'
<1>1. /\ worker[w] \in Observing /\ worker[w].pc = "new" /\ Busy(w) /\ disturbed \in BOOLEAN
      /\ TypeOK /\ Keyed(Catalog) /\ worker \in [Worker -> Observing]
  BY CallIs DEF InsertStation, Busy, CatalogInv
<1>2. PICK m : m = worker[w].msg
  OBVIOUS
<1>3. m \in Naming /\ m \in Message /\ m.mac # None /\ Normal[m.mac] = m.mac
  BY <1>1, <1>2, ObservingIs, CatalogAssumption DEF Naming
<1>4. PICK o \in Observing : /\ worker' = [worker EXCEPT ![w] = o] /\ Apart(w, o)
                             /\ o.pc \in {"idle", "client"}
  BY <1>1, <1>2, <1>3, GoesOn DEF InsertStation
<1>5. UNCHANGED <<nas, edits, disturbed>>
  BY DEF InsertStation
<1>6. CASE Has(clients, "mac", m.mac)
  <2>1. UNCHANGED <<clients, nextID, seen>>
    BY <1>2, <1>6 DEF InsertStation
  <2>2. ReadHolds(o)
    BY <1>4 DEF ReadHolds
  <2> QED BY <1>1, <1>4, <1>5, <2>1, <2>2, CallStep
<1>7. CASE ~Has(clients, "mac", m.mac)
  <2>1. PICK item : item = [mac |-> m.mac, username |-> m.user]
    OBVIOUS
  <2>2. item \in ClientFields /\ item.mac = m.mac
    <3>1. m.mac \in Maybe(MAC) /\ m.user \in Maybe(User)
      BY <1>3, CatalogAssumption DEF Decoded
    <3> QED BY <2>1, <3>1 DEF ClientFields
  <2>3. PICK h : h = NothingSeen
    OBVIOUS
  <2>4. h \in History \cup {None}
    BY <2>3, NothingIsHistory
  <2>5. PICK k : k = Len(clients) + 1
    OBVIOUS
  <2>6. /\ clients' = Insert(clients, nextID, item) /\ nextID <= MaxRows /\ nextID' = nextID + 1
        /\ seen' = [seen EXCEPT ![nextID] = h]
    BY <1>2, <1>7, <2>1, <2>3 DEF InsertStation
  <2>7. ~Has(clients, "mac", item.mac) /\ nas' = nas
    BY <1>5, <1>7, <2>2
  <2>8. /\ Catalog' \in Tables /\ Keyed(Catalog)' /\ nextID' <= MaxRows + 1
        /\ DOMAIN clients' = DOMAIN clients \cup {k} /\ k \notin DOMAIN clients
        /\ \A i \in DOMAIN clients : clients'[i] = clients[i]
        /\ clients'[k].id = nextID /\ clients'[k].mac = m.mac
        /\ seen' \in [1 .. MaxRows -> History \cup {None}]
        /\ \A i \in DOMAIN nas : seen'[nas[i].id] = seen[nas[i].id]
        /\ \A i \in DOMAIN clients : seen'[clients[i].id] = seen[clients[i].id]
    BY <1>1, <2>2, <2>4, <2>5, <2>6, <2>7, AddedClient, ZenonT(40)
  <2>9. TypeOK'
    BY <1>1, <1>4, <1>5, <2>8 DEF TypeOK
  <2>10. StationsOnce'
    <3>1. Once(clients', "mac")
      BY <2>8 DEF Keyed, Catalog
    <3>2. \A i \in DOMAIN clients' :
             seen'[clients'[i].id] # None => clients'[i].mac = Normal[clients'[i].mac]
      BY <1>3, <2>8 DEF CatalogInv, StationsOnce
    <3> QED BY <3>1, <3>2 DEF Once, StationsOnce
  <2>11. ASSUME ~disturbed
         PROVE  /\ LearnedOnce' /\ NamesAreObserved' /\ LabelsDiffer'
                /\ \A v \in Worker \ {w} : ReadHolds(worker[v])'
    <3>1. LearnedOnce /\ NamesAreObserved /\ LabelsDiffer /\ ReadsHold
      BY <2>11 DEF CatalogInv
    <3>2. LearnedOnce' /\ NamesAreObserved' /\ LabelsDiffer'
      BY <1>5, <2>8, <3>1 DEF LearnedOnce, NamesAreObserved, LabelsDiffer
    <3>3. ASSUME NEW v \in Worker \ {w} PROVE ReadHolds(worker[v])'
      <4>1. PICK me : me = worker[v]
        OBVIOUS
      <4>2. worker'[v] = me /\ ReadHolds(me)
        BY <1>1, <1>4, <3>1, <4>1 DEF ReadsHold
      <4>3. ReadHolds(me)'
        BY <1>5, <2>8, <4>2, ReadStays DEF SameAt
      <4> QED BY <4>2, <4>3
    <3> QED BY <3>2, <3>3
  <2> QED BY <1>4, <1>5, <2>8, <2>9, <2>10, <2>11, WriteStep
<1> QED BY <1>6, <1>7
----------------------------------------------------------------------------
(* What users do.  Of the rows of nas that somebody else has made, each    *)
(* was there before; calls are disturbed unless there are none.            *)
LEMMA EditStep ==
  ASSUME CatalogInv, worker' = worker, edits' = edits + 1,
         disturbed' = (disturbed \/ \E w \in Worker : Busy(w)),
         Catalog' \in Tables, Keyed(Catalog)', nextID' <= MaxRows + 1,
         seen' \in [1 .. MaxRows -> History \cup {None}],
         \A i \in DOMAIN nas' : seen'[nas'[i].id] # None =>
             \E j \in DOMAIN nas : nas[j] = nas'[i] /\ seen'[nas[j].id] = seen[nas[j].id],
         \A i \in DOMAIN clients' :
             seen'[clients'[i].id] # None => clients'[i].mac = Normal[clients'[i].mac]
  PROVE  CatalogInv'
<1>1. TypeOK'
  BY DEF CatalogInv, TypeOK
<1>2. StationsOnce'
  BY DEF StationsOnce, Keyed, Once, Catalog
<1>3. Once(nas', "id")
  BY DEF Keyed, Catalog
<1>4. ASSUME ~disturbed'
      PROVE  LearnedOnce' /\ NamesAreObserved' /\ CallsApart' /\ ReadsHold' /\ LabelsDiffer'
  <2>1. ~disturbed /\ \A w \in Worker : ~Busy(w)
    BY <1>4
  <2>2. LearnedOnce /\ NamesAreObserved /\ LabelsDiffer
    BY <2>1 DEF CatalogInv
  <2>3. CallsApart' /\ ReadsHold'
    BY <2>1 DEF CallsApart, ReadsHold, ReadHolds, Busy
  <2>4. NamesAreObserved' /\ LabelsDiffer'
    BY <2>1, <2>2 DEF NamesAreObserved, LabelsDiffer
  <2>5. LearnedOnce'
    <3> SUFFICES ASSUME NEW i \in DOMAIN nas', NEW j \in DOMAIN nas', i # j,
                        seen'[nas'[i].id] # None, seen'[nas'[j].id] # None
                 PROVE  nas'[i].ip # nas'[j].ip
      BY DEF LearnedOnce
    <3>1. PICK k \in DOMAIN nas : nas[k] = nas'[i] /\ seen'[nas[k].id] = seen[nas[k].id]
      OBVIOUS
    <3>2. PICK l \in DOMAIN nas : nas[l] = nas'[j] /\ seen'[nas[l].id] = seen[nas[l].id]
      OBVIOUS
    <3>3. nas'[i].id # nas'[j].id
      BY <1>3 DEF Once
    <3> QED BY <2>1, <2>2, <3>1, <3>2, <3>3 DEF LearnedOnce
  <2> QED BY <2>3, <2>4, <2>5
<1>5. LearnedOnce' /\ NamesAreObserved'
  <2>1. CASE disturbed'
    BY <2>1 DEF LearnedOnce, NamesAreObserved
  <2> QED BY <1>4, <2>1
<1> QED BY <1>1, <1>2, <1>4, <1>5 DEF CatalogInv
----------------------------------------------------------------------------
LEMMA EditIs ==
  ASSUME CatalogInv, NEW ids, Edit(ids)
  PROVE  /\ worker' = worker /\ edits' = edits + 1
         /\ disturbed' = (disturbed \/ \E w \in Worker : Busy(w))
         /\ seen' \in [1 .. MaxRows -> History \cup {None}]
         /\ \A i \in 1 .. MaxRows : seen'[i] = IF i \in ids THEN None ELSE seen[i]
<1>1. seen \in [1 .. MaxRows -> History \cup {None}]
  BY DEF CatalogInv, TypeOK
<1>2. seen' = [i \in 1 .. MaxRows |-> IF i \in ids THEN None ELSE seen[i]]
  BY <1>1 DEF Edit
<1> QED BY <1>1, <1>2 DEF Edit

LEMMA CreateStep ==
  ASSUME CatalogInv,
         \/ \E item \in NASItem : CreateNAS(item)
         \/ \E item \in ClientItem : CreateClient(item)
  PROVE  CatalogInv'
<1>1. TypeOK /\ Keyed(Catalog) /\ StationsOnce
  BY DEF CatalogInv
<1>2. PICK ids : ids = {nextID}
  OBVIOUS
<1>3. /\ Edit(ids) /\ nextID' = nextID + 1 /\ nextID <= MaxRows
  BY <1>2 DEF CreateNAS, CreateClient
<1>4. /\ worker' = worker /\ edits' = edits + 1
      /\ disturbed' = (disturbed \/ \E w \in Worker : Busy(w))
      /\ seen' \in [1 .. MaxRows -> History \cup {None}]
      /\ \A i \in 1 .. MaxRows : seen'[i] = IF i \in ids THEN None ELSE seen[i]
  BY <1>3, EditIs
<1>5. seen' = [seen EXCEPT ![nextID] = None]
  <2>1. seen \in [1 .. MaxRows -> History \cup {None}]
    BY <1>1, TypesAre
  <2> QED BY <1>2, <1>4, <2>1
<1>6. None \in History \cup {None}
  OBVIOUS
<1>7. ASSUME NEW item \in NASItem, CreateNAS(item) PROVE CatalogInv'
  <2>1. item \in NASFields /\ nas' = Insert(nas, nextID, item) /\ clients' = clients
    BY <1>7, CatalogAssumption DEF CreateNAS
  <2>2. PICK k : k = Len(nas) + 1
    OBVIOUS
  <2>3. /\ Catalog' \in Tables /\ Keyed(Catalog)' /\ nextID' <= MaxRows + 1
        /\ DOMAIN nas' = DOMAIN nas \cup {k} /\ nas'[k].id = nextID
        /\ \A i \in DOMAIN nas : nas'[i] = nas[i] /\ seen'[nas[i].id] = seen[nas[i].id]
        /\ \A i \in DOMAIN clients : seen'[clients[i].id] = seen[clients[i].id]
        /\ seen'[nextID] = None
    BY <1>1, <1>3, <1>5, <1>6, <2>1, <2>2, AddedNAS
  <2>4. \A i \in DOMAIN nas' : seen'[nas'[i].id] # None =>
           \E j \in DOMAIN nas : nas[j] = nas'[i] /\ seen'[nas[j].id] = seen[nas[j].id]
    BY <2>3
  <2>5. \A i \in DOMAIN clients' :
           seen'[clients'[i].id] # None => clients'[i].mac = Normal[clients'[i].mac]
    BY <1>1, <2>1, <2>3 DEF StationsOnce
  <2> QED BY <1>4, <2>3, <2>4, <2>5, EditStep
<1>8. ASSUME NEW item \in ClientItem, CreateClient(item) PROVE CatalogInv'
  <2>1. /\ item \in ClientFields /\ clients' = Insert(clients, nextID, item) /\ nas' = nas
        /\ ~Has(clients, "mac", item.mac)
    BY <1>8, CatalogAssumption DEF CreateClient
  <2>2. PICK k : k = Len(clients) + 1
    OBVIOUS
  <2>3. /\ Catalog' \in Tables /\ Keyed(Catalog)' /\ nextID' <= MaxRows + 1
        /\ DOMAIN clients' = DOMAIN clients \cup {k} /\ clients'[k].id = nextID
        /\ \A i \in DOMAIN clients : clients'[i] = clients[i]
        /\ \A i \in DOMAIN clients : seen'[clients[i].id] = seen[clients[i].id]
        /\ \A i \in DOMAIN nas : seen'[nas[i].id] = seen[nas[i].id]
        /\ seen'[nextID] = None
    BY <1>1, <1>3, <1>5, <1>6, <2>1, <2>2, AddedClient
  <2>4. \A i \in DOMAIN nas' : seen'[nas'[i].id] # None =>
           \E j \in DOMAIN nas : nas[j] = nas'[i] /\ seen'[nas[j].id] = seen[nas[j].id]
    BY <2>1, <2>3
  <2>5. \A i \in DOMAIN clients' :
           seen'[clients'[i].id] # None => clients'[i].mac = Normal[clients'[i].mac]
    BY <1>1, <2>3 DEF StationsOnce
  <2> QED BY <1>4, <2>3, <2>4, <2>5, EditStep
<1> QED BY <1>7, <1>8

LEMMA UpdateStep ==
  ASSUME CatalogInv, NEW id,
         \/ \E item \in NASItem : UpdateNAS(id, item)
         \/ \E item \in ClientItem : UpdateClient(id, item)
  PROVE  CatalogInv'
<1>1. TypeOK /\ Keyed(Catalog) /\ StationsOnce
  BY DEF CatalogInv
<1>2. PICK ids : ids = {id}
  OBVIOUS
<1>3. Edit(ids) /\ nextID' = nextID
  BY <1>2 DEF UpdateNAS, UpdateClient
<1>4. /\ worker' = worker /\ edits' = edits + 1
      /\ disturbed' = (disturbed \/ \E w \in Worker : Busy(w))
      /\ seen' \in [1 .. MaxRows -> History \cup {None}]
      /\ \A i \in 1 .. MaxRows : seen'[i] = IF i = id THEN None ELSE seen[i]
  BY <1>2, <1>3, EditIs
<1>5. /\ nas \in Seq(NASRow) /\ clients \in Seq(ClientRow) /\ nextID \in Nat \ {0}
      /\ nextID <= MaxRows + 1
      /\ Keyed([nas |-> nas, clients |-> clients, next |-> nextID])
      /\ Once(nas, "id") /\ Once(clients, "id")
      /\ \A i \in DOMAIN nas : nas[i].id \in 1 .. MaxRows
      /\ \A i \in DOMAIN clients : clients[i].id \in 1 .. MaxRows
  BY <1>1, TypesAre
<1>6. ASSUME NEW item \in NASItem, UpdateNAS(id, item) PROVE CatalogInv'
  <2>1. /\ item \in NASFields /\ clients' = clients /\ Has(nas, "id", id)
        /\ nas' = Put(nas, Row(item, id))
    BY <1>6, CatalogAssumption DEF UpdateNAS
  <2>2. PICK k \in DOMAIN nas : nas[k]["id"] = id
    BY <2>1 DEF Has
  <2>3. id \in Nat \ {0}
    BY <1>5, <2>2
  <2>4. PICK r : r = Row(item, id)
    OBVIOUS
  <2>5. r \in NASRow /\ r.id = nas[k].id
    BY <2>1, <2>2, <2>3, <2>4, RowOfNAS
  <2>6. nas' = [nas EXCEPT ![k] = r]
    BY <1>5, <2>1, <2>4, <2>5, PutOne
  <2>7. nas' \in Seq(NASRow) /\ Keyed([nas |-> nas', clients |-> clients, next |-> nextID])
    BY <1>5, <2>5, <2>6, KeyedPutNAS
  <2>8. Catalog' \in Tables /\ Keyed(Catalog)'
    BY <1>3, <1>5, <2>1, <2>7 DEF Catalog, Tables
  <2>9. \A i \in DOMAIN nas' : seen'[nas'[i].id] # None =>
           \E j \in DOMAIN nas : nas[j] = nas'[i] /\ seen'[nas[j].id] = seen[nas[j].id]
    <3>1. /\ DOMAIN nas' = DOMAIN nas /\ nas'[k].id = id
          /\ \A i \in DOMAIN nas : i # k => nas'[i] = nas[i]
      BY <2>2, <2>5, <2>6
    <3>2. seen'[nas'[k].id] = None
      BY <1>4, <1>5, <2>2, <3>1
    <3> QED BY <1>4, <1>5, <3>1, <3>2
  <2>10. \A i \in DOMAIN clients' :
            seen'[clients'[i].id] # None => clients'[i].mac = Normal[clients'[i].mac]
    BY <1>1, <1>4, <1>5, <2>1 DEF StationsOnce
  <2> QED BY <1>3, <1>4, <1>5, <2>8, <2>9, <2>10, EditStep
<1>7. ASSUME NEW item \in ClientItem, UpdateClient(id, item) PROVE CatalogInv'
  <2>1. /\ item \in ClientFields /\ nas' = nas /\ Has(clients, "id", id)
        /\ clients' = Put(clients, Row(item, id))
        /\ \A i \in DOMAIN clients : clients[i].mac = item.mac => clients[i].id = id
    BY <1>7, CatalogAssumption DEF UpdateClient
  <2>2. PICK k \in DOMAIN clients : clients[k]["id"] = id
    BY <2>1 DEF Has
  <2>3. id \in Nat \ {0}
    BY <1>5, <2>2
  <2>4. PICK r : r = Row(item, id)
    OBVIOUS
  <2>5. r \in ClientRow /\ r.id = clients[k].id /\ r.mac = item.mac
    BY <2>1, <2>2, <2>3, <2>4, RowOfClient
  <2>6. clients' = [clients EXCEPT ![k] = r]
    BY <1>5, <2>1, <2>4, <2>5, PutOne
  <2>7. \A i \in DOMAIN clients : clients[i].mac = r.mac => i = k
    BY <1>5, <2>1, <2>2, <2>5 DEF Once
  <2>8. clients' \in Seq(ClientRow) /\ Keyed([nas |-> nas, clients |-> clients', next |-> nextID])
    BY <1>5, <2>5, <2>6, <2>7, KeyedPutClient
  <2>9. Catalog' \in Tables /\ Keyed(Catalog)'
    BY <1>3, <1>5, <2>1, <2>8 DEF Catalog, Tables
  <2>10. \A i \in DOMAIN nas' : seen'[nas'[i].id] # None =>
            \E j \in DOMAIN nas : nas[j] = nas'[i] /\ seen'[nas[j].id] = seen[nas[j].id]
    BY <1>4, <1>5, <2>1
  <2>11. \A i \in DOMAIN clients' :
            seen'[clients'[i].id] # None => clients'[i].mac = Normal[clients'[i].mac]
    <3>1. /\ DOMAIN clients' = DOMAIN clients /\ clients'[k].id = id
          /\ \A i \in DOMAIN clients : i # k => clients'[i] = clients[i]
      BY <2>2, <2>5, <2>6
    <3>2. seen'[clients'[k].id] = None
      BY <1>4, <1>5, <2>2, <3>1
    <3> SUFFICES ASSUME NEW i \in DOMAIN clients', seen'[clients'[i].id] # None
                 PROVE  clients'[i].mac = Normal[clients'[i].mac]
      OBVIOUS
    <3>3. i # k /\ i \in DOMAIN clients /\ clients'[i] = clients[i]
      BY <3>1, <3>2
    <3>4. seen[clients[i].id] # None
      BY <1>4, <1>5, <3>3
    <3> QED BY <1>1, <3>3, <3>4 DEF StationsOnce
  <2> QED BY <1>3, <1>4, <1>5, <2>9, <2>10, <2>11, EditStep
<1> QED BY <1>6, <1>7

LEMMA DeleteStep ==
  ASSUME CatalogInv, NEW id, DeleteNAS(id) \/ DeleteClient(id)
  PROVE  CatalogInv'
<1>1. TypeOK /\ Keyed(Catalog) /\ StationsOnce
  BY DEF CatalogInv
<1>2. PICK ids : ids = {id}
  OBVIOUS
<1>3. Edit(ids) /\ nextID' = nextID
  BY <1>2 DEF DeleteNAS, DeleteClient
<1>4. /\ worker' = worker /\ edits' = edits + 1
      /\ disturbed' = (disturbed \/ \E w \in Worker : Busy(w))
      /\ seen' \in [1 .. MaxRows -> History \cup {None}]
      /\ \A i \in 1 .. MaxRows : seen'[i] = IF i = id THEN None ELSE seen[i]
  BY <1>2, <1>3, EditIs
<1>5. /\ nas \in Seq(NASRow) /\ clients \in Seq(ClientRow) /\ nextID \in Nat \ {0}
      /\ nextID <= MaxRows + 1
      /\ Keyed([nas |-> nas, clients |-> clients, next |-> nextID])
      /\ \A i \in DOMAIN nas : nas[i].id \in 1 .. MaxRows
      /\ \A i \in DOMAIN clients : clients[i].id \in 1 .. MaxRows
  BY <1>1, TypesAre
<1>6. CASE DeleteNAS(id)
  <2>1. clients' = clients /\ Has(nas, "id", id) /\ nas' = Delete(nas, id)
    BY <1>6 DEF DeleteNAS
  <2>2. /\ nas' \in Seq(NASRow) /\ Keyed([nas |-> nas', clients |-> clients, next |-> nextID])
        /\ \A i \in DOMAIN nas' : \E j \in DOMAIN nas : nas'[i] = nas[j] /\ nas[j].id # id
    <3>1. /\ Delete(nas, id) \in Seq(NASRow)
          /\ Keyed([nas |-> Delete(nas, id), clients |-> clients, next |-> nextID])
          /\ RowsWithout(nas, Delete(nas, id), id)
      BY <1>5, <2>1, KeyedFewer
    <3> QED BY <2>1, <3>1 DEF RowsWithout
  <2>3. Catalog' \in Tables /\ Keyed(Catalog)'
    BY <1>3, <1>5, <2>1, <2>2 DEF Catalog, Tables
  <2>4. \A i \in DOMAIN nas' : seen'[nas'[i].id] # None =>
           \E j \in DOMAIN nas : nas[j] = nas'[i] /\ seen'[nas[j].id] = seen[nas[j].id]
    <3> SUFFICES ASSUME NEW i \in DOMAIN nas'
                 PROVE  \E j \in DOMAIN nas :
                           nas[j] = nas'[i] /\ seen'[nas[j].id] = seen[nas[j].id]
      OBVIOUS
    <3>1. PICK j \in DOMAIN nas : nas'[i] = nas[j] /\ nas[j].id # id
      BY <2>2
    <3>2. seen'[nas[j].id] = seen[nas[j].id]
      BY <1>4, <1>5, <3>1
    <3> QED BY <3>1, <3>2
  <2>5. \A i \in DOMAIN clients' :
           seen'[clients'[i].id] # None => clients'[i].mac = Normal[clients'[i].mac]
    BY <1>1, <1>4, <1>5, <2>1 DEF StationsOnce
  <2> QED BY <1>3, <1>4, <1>5, <2>3, <2>4, <2>5, EditStep
<1>7. CASE DeleteClient(id)
  <2>1. nas' = nas /\ Has(clients, "id", id) /\ clients' = Delete(clients, id)
    BY <1>7 DEF DeleteClient
  <2>2. /\ clients' \in Seq(ClientRow)
        /\ Keyed([nas |-> nas, clients |-> clients', next |-> nextID])
        /\ \A i \in DOMAIN clients' :
              \E j \in DOMAIN clients : clients'[i] = clients[j] /\ clients[j].id # id
    <3>1. /\ Delete(clients, id) \in Seq(ClientRow)
          /\ Keyed([nas |-> nas, clients |-> Delete(clients, id), next |-> nextID])
          /\ RowsWithout(clients, Delete(clients, id), id)
      BY <1>5, <2>1, KeyedFewer
    <3> QED BY <2>1, <3>1 DEF RowsWithout
  <2>3. Catalog' \in Tables /\ Keyed(Catalog)'
    BY <1>3, <1>5, <2>1, <2>2 DEF Catalog, Tables
  <2>4. \A i \in DOMAIN nas' : seen'[nas'[i].id] # None =>
           \E j \in DOMAIN nas : nas[j] = nas'[i] /\ seen'[nas[j].id] = seen[nas[j].id]
    BY <1>4, <1>5, <2>1
  <2>5. \A i \in DOMAIN clients' :
           seen'[clients'[i].id] # None => clients'[i].mac = Normal[clients'[i].mac]
    <3> SUFFICES ASSUME NEW i \in DOMAIN clients', seen'[clients'[i].id] # None
                 PROVE  clients'[i].mac = Normal[clients'[i].mac]
      OBVIOUS
    <3>1. PICK j \in DOMAIN clients : clients'[i] = clients[j]
      BY <2>2
    <3>2. seen[clients[j].id] # None
      BY <1>4, <1>5, <3>1
    <3> QED BY <1>1, <3>1, <3>2 DEF StationsOnce
  <2> QED BY <1>3, <1>4, <1>5, <2>3, <2>4, <2>5, EditStep
<1> QED BY <1>6, <1>7

LEMMA ImportStep ==
  ASSUME CatalogInv, NEW req \in ImportRequest, ImportCatalog(req)
  PROVE  CatalogInv'
<1>1. /\ TypeOK /\ Keyed(Catalog) /\ StationsOnce /\ Catalog \in Tables
      /\ req \in Request
  BY CatalogAssumption DEF CatalogInv, TypeOK
<1>2. PICK cat : cat = Imported(req)
  OBVIOUS
<1>3. /\ Acceptable(req) /\ cat.next <= MaxRows + 1
      /\ nas' = cat.nas /\ clients' = cat.clients /\ nextID' = cat.next
      /\ edits' = edits + 1 /\ worker' = worker
      /\ disturbed' = (disturbed \/ \E w \in Worker : Busy(w))
      /\ seen' = [i \in DOMAIN seen |->
                    IF Has(cat.clients, "id", i)
                    THEN IF i < nextID THEN seen[i] ELSE NothingSeen
                    ELSE IF Has(cat.nas, "id", i) /\ i < nextID
                            /\ First(cat.nas, "id", i) = First(nas, "id", i)
                         THEN seen[i] ELSE None]
  BY <1>2 DEF ImportCatalog
<1>4. Kept(cat)
  BY <1>1, <1>2, <1>3, ImportKeeps
<1>5. cat = Catalog'
  BY <1>3, <1>4, TablesAre DEF Catalog, Kept
<1>6. Catalog' \in Tables /\ Keyed(Catalog)'
  BY <1>4, <1>5 DEF Kept
<1>7. /\ nas \in Seq(NASRow) /\ Once(nas, "id") /\ nextID \in Nat \ {0} /\ MaxRows \in Nat
      /\ seen \in [1 .. MaxRows -> History \cup {None}]
      /\ \A i \in DOMAIN nas : nas[i].id \in 1 .. MaxRows
      /\ \A i \in DOMAIN clients : clients[i].id \in 1 .. MaxRows
  BY <1>1, TypesAre
<1>8. seen' \in [1 .. MaxRows -> History \cup {None}]
  BY <1>3, <1>7, NothingIsHistory
<1>9. /\ nas' \in Seq(NASRow) /\ clients' \in Seq(ClientRow) /\ Once(nas', "id")
      /\ nextID' \in Nat \ {0} /\ nextID' <= MaxRows + 1
      /\ Keyed([nas |-> nas', clients |-> clients', next |-> nextID'])
  BY <1>3, <1>6 DEF Tables, Catalog, Keyed
<1>10. /\ \A i \in DOMAIN nas' : nas'[i].id \in 1 .. MaxRows
       /\ \A i \in DOMAIN clients' : clients'[i].id \in 1 .. MaxRows
  <2>1. /\ \A i \in DOMAIN nas' : /\ nas'[i] \in NASRow /\ nas'[i].id \in Nat
                                  /\ nas'[i].id < nextID'
        /\ \A i \in DOMAIN clients' : /\ clients'[i] \in ClientRow /\ clients'[i].id \in Nat
                                      /\ clients'[i].id < nextID'
    BY <1>9, KeyedIds
  <2>2. /\ \A r \in NASRow : r.id \in Nat \ {0}
        /\ \A r \in ClientRow : r.id \in Nat \ {0}
    BY DEF NASRow, ClientRow
  <2>3. \A i \in Nat \ {0} : i < nextID' => i \in 1 .. MaxRows
    BY <1>7, <1>9
  <2> QED BY <2>1, <2>2, <2>3
<1>11. ASSUME NEW i \in DOMAIN nas', seen'[nas'[i].id] # None
       PROVE  \E j \in DOMAIN nas : nas[j] = nas'[i] /\ seen'[nas[j].id] = seen[nas[j].id]
  <2>1. PICK id : id = nas'[i].id
    OBVIOUS
  <2>2. ~Has(cat.clients, "id", id) /\ id \in 1 .. MaxRows
    BY <1>3, <1>9, <1>10, <2>1 DEF Has, Keyed
  <2>3. /\ id < nextID /\ First(cat.nas, "id", id) = First(nas, "id", id)
        /\ seen'[id] = seen[id]
    BY <1>3, <1>7, <1>11, <2>1, <2>2
  <2>4. PICK j \in DOMAIN nas : nas[j].id = id
    BY <1>3, <1>4, <1>7, <2>1, <2>2, <2>3 DEF Kept, KeptNAS, KeptClient
  <2>5. First(nas, "id", id) = nas[j]
    BY <1>7, <2>4, FirstOnly
  <2>6. First(nas', "id", id) = nas'[i]
    BY <1>9, <2>1, FirstOnly
  <2> QED BY <1>3, <2>3, <2>4, <2>5, <2>6
<1>12. ASSUME NEW i \in DOMAIN clients', seen'[clients'[i].id] # None
       PROVE  clients'[i].mac = Normal[clients'[i].mac]
  <2>1. PICK id : id = clients'[i].id
    OBVIOUS
  <2>2. Has(cat.clients, "id", id) /\ id \in 1 .. MaxRows
    BY <1>3, <1>10, <2>1 DEF Has
  <2>3. CASE id < nextID
    <3>1. seen'[id] = seen[id]
      BY <1>3, <1>7, <2>2, <2>3
    <3>2. PICK j \in DOMAIN clients : clients[j].id = id /\ clients[j].mac = clients'[i].mac
      BY <1>3, <1>4, <1>7, <2>1, <2>2, <2>3 DEF Kept, KeptNAS, KeptClient
    <3> QED BY <1>1, <1>12, <2>1, <3>1, <3>2 DEF StationsOnce
  <2>4. CASE ~(id < nextID)
    <3>1. \A j \in DOMAIN clients : clients[j].id # id
      BY <1>1, <1>7, <2>4, TypesAre DEF Keyed, Catalog
    <3> QED BY <1>3, <1>4, <2>1, <3>1 DEF Kept, KeptClient
  <2> QED BY <2>3, <2>4
<1> QED BY <1>3, <1>6, <1>8, <1>9, <1>11, <1>12, EditStep
----------------------------------------------------------------------------
LEMMA CatalogInitInv ==
  ASSUME Init
  PROVE  CatalogInv
<1>1. /\ nas = <<>> /\ clients = <<>> /\ nextID = 1 /\ edits = 0 /\ disturbed = FALSE
      /\ worker = [w \in Worker |-> Idle] /\ seen = [i \in 1 .. MaxRows |-> None]
      /\ MaxRows \in Nat
  BY CatalogAssumption DEF Init
<1>2. Catalog = [nas |-> <<>>, clients |-> <<>>, next |-> 1]
  BY <1>1 DEF Catalog
<1>3. Catalog \in Tables /\ Keyed(Catalog)
  BY <1>2 DEF Tables, Keyed, Once
<1>4. TypeOK
  <2>1. Idle \in Observing
    BY ObservingMade
  <2> HIDE DEF Idle
  <2>2. worker \in [Worker -> Observing] /\ nextID <= MaxRows + 1
    BY <1>1, <2>1
  <2>3. seen \in [1 .. MaxRows -> History \cup {None}]
    BY <1>1
  <2> QED BY <1>1, <1>3, <2>2, <2>3 DEF TypeOK
<1>5. StationsOnce /\ LearnedOnce /\ NamesAreObserved /\ LabelsDiffer
  BY <1>1 DEF StationsOnce, LearnedOnce, NamesAreObserved, LabelsDiffer
<1>6. CallsApart /\ ReadsHold
  <2>1. \A w \in Worker : worker[w].pc = "idle"
    BY <1>1, ObservingMade
  <2> QED BY <2>1 DEF CallsApart, ReadsHold, ReadHolds, Busy
<1> QED BY <1>3, <1>4, <1>5, <1>6 DEF CatalogInv

LEMMA CatalogInvStep ==
  ASSUME CatalogInv, [Next]_vars
  PROVE  CatalogInv'
<1>1. ASSUME NEW w \in Worker, WorkerNext(w) PROVE CatalogInv'
  <2>1. CASE \E m \in Message : Observe(w, m) \/ ObserveClient(w, m)
    BY <2>1, ObserveStep, ObserveClientStep
  <2>2. CASE EnsureNAS(w)
    BY <2>2, EnsureNASStep
  <2>3. CASE UpdateLearned(w)
    BY <2>3, UpdateLearnedStep
  <2>4. CASE InsertLearned(w)
    BY <2>4, InsertLearnedStep
  <2>5. CASE EnsureFails(w) \/ ClientFails(w)
    BY <2>5, FailStep
  <2>6. CASE EnsureClient(w)
    BY <2>6, EnsureClientStep
  <2>7. CASE NameStation(w)
    BY <2>7, NameStationStep
  <2>8. CASE InsertStation(w)
    BY <2>8, InsertStationStep
  <2> QED BY <1>1, <2>1, <2>2, <2>3, <2>4, <2>5, <2>6, <2>7, <2>8 DEF WorkerNext
<1>2. CASE HandlerNext
  <2>1. CASE (\E item \in NASItem : CreateNAS(item)) \/ \E item \in ClientItem : CreateClient(item)
    BY <2>1, CreateStep
  <2>2. CASE \/ \E id \in 1 .. MaxRows, item \in NASItem : UpdateNAS(id, item)
             \/ \E id \in 1 .. MaxRows, item \in ClientItem : UpdateClient(id, item)
    BY <2>2, UpdateStep
  <2>3. CASE \E id \in 1 .. MaxRows : DeleteNAS(id) \/ DeleteClient(id)
    BY <2>3, DeleteStep
  <2>4. CASE \E req \in ImportRequest : ImportCatalog(req)
    BY <2>4, ImportStep
  <2> QED BY <1>2, <2>1, <2>2, <2>3, <2>4 DEF HandlerNext
<1>3. CASE UNCHANGED vars
  <2>1. /\ nas' = nas /\ clients' = clients /\ nextID' = nextID /\ worker' = worker
        /\ edits' = edits /\ seen' = seen /\ disturbed' = disturbed
    BY <1>3 DEF vars
  <2>2. TypeOK' /\ Keyed(Catalog)' /\ StationsOnce'
    BY <2>1 DEF CatalogInv, TypeOK, Catalog, StationsOnce
  <2>3. LearnedOnce' /\ NamesAreObserved'
    BY <2>1 DEF CatalogInv, LearnedOnce, NamesAreObserved
  <2>4. ASSUME ~disturbed' PROVE CallsApart' /\ ReadsHold' /\ LabelsDiffer'
    BY <2>1, <2>4 DEF CatalogInv, CallsApart, Busy, ReadsHold, ReadHolds, NameFor, LabelsDiffer
  <2> QED BY <2>2, <2>3, <2>4 DEF CatalogInv
<1> QED BY <1>1, <1>2, <1>3 DEF Next

(* The invariant: rows are told apart by their ids, stations by their      *)
(* addresses, and what an undisturbed call has read still holds.           *)
THEOREM CatalogInvariance == Spec => []CatalogInv
BY CatalogInitInv, CatalogInvStep, PTL DEF Spec

(* A NAS that users left alone is named for all that was seen of it, in    *)
(* whatever order requests came and however calls interleaved.             *)
THEOREM NamesStayObserved == Spec => []NamesAreObserved
<1>1. CatalogInv => NamesAreObserved
  BY DEF CatalogInv
<1> QED BY <1>1, CatalogInvariance, PTL

(* Autofill makes one row per address, though select and insert are two    *)
(* statements.                                                             *)
THEOREM EachLearnedOnce == Spec => []LearnedOnce
<1>1. CatalogInv => LearnedOnce
  BY DEF CatalogInv
<1> QED BY <1>1, CatalogInvariance, PTL

(* A station is listed once, in the normal notation, whoever came first.   *)
THEOREM StationsListedOnce == Spec => []StationsOnce
<1>1. CatalogInv => StationsOnce
  BY DEF CatalogInv
<1> QED BY <1>1, CatalogInvariance, PTL

(* Whatever the catalog holds when it is tidy, its export can be imported  *)
(* in either mode and gives the same catalog.                              *)
THEOREM ExportsReturn == Spec => []RoundTrip
<1>1. CatalogInv => RoundTrip
  <2>1. CatalogInv => Catalog \in Tables /\ Keyed(Catalog)
    BY DEF CatalogInv, TypeOK
  <2> QED BY <2>1, ExportsGoRound
<1> QED BY <1>1, CatalogInvariance, PTL

(* No step of autofill takes anything from the catalog. *)
THEOREM AutofillAdds == Spec => AutofillOnlyAdds
<1> DEFINE NASStay ==
             \A i \in DOMAIN nas :
                /\ nas'[i].id = nas[i].id /\ nas'[i].ip = nas[i].ip
                /\ nas'[i].secret = nas[i].secret
                /\ nas'[i].identifier = Or(nas[i].identifier, nas'[i].identifier)
           ClientsStay ==
             \A i \in DOMAIN clients :
                /\ clients'[i].id = clients[i].id /\ clients'[i].mac = clients[i].mac
                /\ disturbed \/ clients[i].username \in {None, clients'[i].username}
<1>1. nas' = nas => NASStay
  BY DEF Or
<1>2. clients' = clients => ClientsStay
  OBVIOUS
<1>3. ASSUME CatalogInv, NEW w \in Worker, WorkerNext(w) PROVE NASStay /\ ClientsStay
  <2>1. TypeOK /\ Keyed(Catalog) /\ worker[w] \in Observing
    BY <1>3, CallIs DEF CatalogInv
  <2>2. CASE UpdateLearned(w)
    <3>1. PICK m, name, id : m = worker[w].msg /\ name = worker[w].name /\ id = worker[w].id
      OBVIOUS
    <3>2. m \in Learning /\ name \in Name
      BY <2>1, <2>2, <3>1, ObservingIs DEF UpdateLearned, Change
    <3>3. NASStay
      BY <2>1, <2>2, <3>1, <3>2, UpdateIs
    <3>4. clients' = clients
      BY <2>2 DEF UpdateLearned, Change
    <3> QED BY <1>2, <3>3, <3>4
  <2>3. CASE InsertLearned(w)
    <3>1. /\ clients' = clients /\ nas \in Seq(NASRow)
          /\ \E r : nas' = Append(nas, r)
      BY <2>1, <2>3, TypesAre DEF InsertLearned, Insert
    <3>2. \A i \in DOMAIN nas : nas'[i] = nas[i]
      BY <3>1
    <3> QED BY <1>2, <3>1, <3>2 DEF Or
  <2>4. CASE NameStation(w)
    <3>1. PICK m, id : m = worker[w].msg /\ id = worker[w].id
      OBVIOUS
    <3>2. m \in Naming /\ nas' = nas /\ worker[w].pc = "user"
      BY <2>1, <2>4, <3>1, ObservingIs DEF NameStation, Change
    <3>3. \A i \in DOMAIN clients :
             /\ clients'[i].id = clients[i].id /\ clients'[i].mac = clients[i].mac
             /\ clients[i].id # id => clients'[i] = clients[i]
      BY <2>1, <2>4, <3>1, <3>2, NamedIs
    <3>4. ASSUME ~disturbed, NEW i \in DOMAIN clients, clients[i].id = id
          PROVE  clients[i].username = None
      <4>1. ReadHolds(worker[w])
        BY <1>3, <3>4 DEF CatalogInv, ReadsHold
      <4>2. PICK k \in DOMAIN clients : clients[k].id = id /\ clients[k].username = None
        BY <3>1, <3>2, <4>1 DEF ReadHolds
      <4> QED BY <2>1, <3>4, <4>2, TypesAre DEF Once
    <3> QED BY <1>1, <3>2, <3>3, <3>4
  <2>5. CASE InsertStation(w)
    <3>1. /\ nas' = nas /\ clients \in Seq(ClientRow)
          /\ clients' = clients \/ \E r : clients' = Append(clients, r)
      BY <2>1, <2>5, TypesAre DEF InsertStation, Insert
    <3>2. \A i \in DOMAIN clients : clients'[i] = clients[i]
      BY <3>1
    <3> QED BY <1>1, <3>1, <3>2
  <2>6. CASE ~UpdateLearned(w) /\ ~InsertLearned(w) /\ ~NameStation(w) /\ ~InsertStation(w)
    <3>1. nas' = nas /\ clients' = clients
      BY <1>3, <2>6
         DEF WorkerNext, Observe, ObserveClient, EnsureNAS, EnsureFails, EnsureClient, ClientFails
    <3> QED BY <1>1, <1>2, <3>1
  <2> QED BY <2>2, <2>3, <2>4, <2>5, <2>6
<1>4. ASSUME CatalogInv, HandlerNext PROVE edits' # edits
  <2>1. edits \in Nat /\ edits' = edits + 1
    BY <1>4 DEF CatalogInv, TypeOK, HandlerNext, CreateNAS, UpdateNAS, DeleteNAS, CreateClient,
                UpdateClient, DeleteClient, ImportCatalog, Edit
  <2> QED BY <2>1
<1>5. CatalogInv /\ [Next]_vars => [edits' = edits => NASStay /\ ClientsStay]_vars
  <2> HIDE DEF NASStay, ClientsStay
  <2> QED BY <1>3, <1>4 DEF Next
<1> QED BY <1>5, CatalogInvariance, PTL DEF Spec, AutofillOnlyAdds

(* No import in mode merge takes anything from the catalog. *)
THEOREM MergesForgetNothing == Spec => MergeForgetsNothing
<1> DEFINE Forgets ==
             \A req \in ImportRequest :
               ImportCatalog(req) /\ req.mode = "merge" =>
                 /\ \A i \in DOMAIN nas :
                      /\ nas'[i].id = nas[i].id
                      /\ nas[i].secret # None => nas'[i].secret # None
                      /\ nas[i].identifier # None => nas'[i].identifier # None
                 /\ \A i \in DOMAIN clients :
                      /\ clients'[i].id = clients[i].id
                      /\ clients[i].username # None => clients'[i].username # None
<1>1. CatalogInv => Forgets
  <2> SUFFICES ASSUME CatalogInv, NEW req \in ImportRequest, ImportCatalog(req), req.mode = "merge"
               PROVE  /\ \A i \in DOMAIN nas :
                           /\ nas'[i].id = nas[i].id
                           /\ nas[i].secret # None => nas'[i].secret # None
                           /\ nas[i].identifier # None => nas'[i].identifier # None
                      /\ \A i \in DOMAIN clients :
                           /\ clients'[i].id = clients[i].id
                           /\ clients[i].username # None => clients'[i].username # None
    OBVIOUS
  <2>1. /\ Catalog \in Tables /\ Keyed(Catalog) /\ req \in Request
    BY CatalogAssumption DEF CatalogInv, TypeOK
  <2>2. PICK cat : cat = Imported(req)
    OBVIOUS
  <2>3. Acceptable(req) /\ nas' = cat.nas /\ clients' = cat.clients
    BY <2>2 DEF ImportCatalog
  <2>4. Extended(cat)
    BY <2>1, <2>2, <2>3, MergeExtends
  <2> QED BY <2>3, <2>4 DEF Extended
<1>2. CatalogInv /\ [Next]_vars => [Forgets]_vars
  BY <1>1
<1> QED BY <1>2, CatalogInvariance, PTL DEF Spec, MergeForgetsNothing
=============================================================================
