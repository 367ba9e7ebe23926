------------------------- MODULE DataProvider_proofs -------------------------
(* Proofs about ReqManager and DataProvider for any number of subscribers, *)
(* items, symbols and ids, any messages and any length of the wire.        *)
EXTENDS DataProvider, TLAPS

-----------------------------------------------------------------------------
(* The registry: what its operations preserve. *)

(* A request of a type has an id of the type's own range. *)
Proper(r) ==
  IF r.type \in FixedType THEN r.id = fixedId[r.type] ELSE r.id \in PoolId

(* The invariant of a registry: ids are unique, the map names listed       *)
(* requests only and none twice, and what has a fixed id has its symbol.   *)
RegistryOK(rm) ==
  /\ rm \in Registry
  /\ \A r \in rm.ids : Proper(r)
  /\ \A r1, r2 \in rm.ids : r1.id = r2.id => r1 = r2
  /\ \A y \in Symbol : rm.ticker[y] # NoReq => rm.ticker[y] \in rm.ids
  /\ \A y, z \in Symbol :
       rm.ticker[y] = rm.ticker[z] /\ rm.ticker[y] # NoReq => y = z
  /\ \A y \in Symbol :
       rm.ticker[y].type \in FixedType => y = fixedSymbol[rm.ticker[y].type]

(* A request may be registered under a symbol: its id is used by no other  *)
(* request, it has no other symbol.                                        *)
Registrable(rm, y, r) ==
  /\ y \in Symbol
  /\ r \in Request
  /\ Proper(r)
  /\ r.type \in FixedType => y = fixedSymbol[r.type]
  /\ \A r1 \in rm.ids : r1.id = r.id => r1 = r
  /\ \A z \in Symbol : rm.ticker[z] = r => z = y

-----------------------------------------------------------------------------
LEMMA NoReqType == NoReq \notin Request /\ NoReq.type \notin ReqType /\ NoReq.id = 0
  BY DEF NoReq, Request, ReqType, KeyedType, OneShotType, FixedType

(* An empty registry is a good one. *)
LEMMA EmptyOK == RegistryOK(EmptyRegistry)
  BY NoReqType DEF RegistryOK, EmptyRegistry, Registry, ReqType

(* Nothing but the empty registry has no requests. *)
LEMMA NoIds ==
  ASSUME NEW rm, RegistryOK(rm), rm.ids = {}
  PROVE  rm = EmptyRegistry
<1>1. rm.ticker = [y \in Symbol |-> NoReq]
  BY DEF RegistryOK, Registry
<1> QED
  BY <1>1 DEF RegistryOK, Registry, EmptyRegistry

(* Fixed ids and fixed symbols tell the fixed types apart. *)
LEMMA FixedDistinct ==
  \A t, u \in FixedType : fixedId[t] = fixedId[u] => t = u
  BY DEF FixedType, fixedId

LEMMA FixedRanges ==
  /\ \A t \in FixedType : fixedId[t] \in -9 .. -4 /\ fixedSymbol[t] \in FixedSymbol
  /\ PoolId \cap (-9 .. -4) = {}
  BY MaxIdAssumption DEF MaxIdAssumption, FixedType, fixedId, fixedSymbol, FixedSymbol, PoolId

-----------------------------------------------------------------------------
(* addReqIdsExt keeps a registry good when the request is registrable. *)
LEMMA AddOK ==
  ASSUME NEW rm, RegistryOK(rm), NEW y, NEW r, Registrable(rm, y, r)
  PROVE  RegistryOK(addReqIdsExt(rm, y, r))
<1> DEFINE new == addReqIdsExt(rm, y, r)
<1>1. /\ new.ids = rm.ids \cup {r}
      /\ new.ticker = [rm.ticker EXCEPT ![y] = r]
      /\ new = [ids |-> new.ids, ticker |-> new.ticker]
  BY DEF addReqIdsExt, addReqIds
<1>2. new \in Registry
  BY <1>1 DEF RegistryOK, Registry, Registrable
<1>3. \A z \in Symbol : new.ticker[z] = IF z = y THEN r ELSE rm.ticker[z]
  BY <1>1 DEF RegistryOK, Registry, Registrable
<1> HIDE DEF new
<1>4. \A q \in new.ids : Proper(q)
  BY <1>1 DEF RegistryOK, Registrable
<1>5. \A r1, r2 \in new.ids : r1.id = r2.id => r1 = r2
  BY <1>1 DEF RegistryOK, Registrable
<1>6. \A z \in Symbol : new.ticker[z] # NoReq => new.ticker[z] \in new.ids
  BY <1>1, <1>3 DEF RegistryOK, Registrable
<1>7. \A z, w \in Symbol :
        new.ticker[z] = new.ticker[w] /\ new.ticker[z] # NoReq => z = w
  BY <1>3 DEF RegistryOK, Registrable
<1>8. \A z \in Symbol :
        new.ticker[z].type \in FixedType => z = fixedSymbol[new.ticker[z].type]
  BY <1>3 DEF RegistryOK, Registrable
<1> QED
  BY <1>2, <1>4, <1>5, <1>6, <1>7, <1>8 DEF RegistryOK, new

(* The id of a request with a fixed id and symbol is nobody else's. *)
LEMMA FixedRegistrable ==
  ASSUME NEW rm, RegistryOK(rm), NEW t \in FixedType
  PROVE  Registrable(rm, fixedSymbol[t], [id |-> fixedId[t], type |-> t])
<1> DEFINE r == [id |-> fixedId[t], type |-> t]
<1>1. r \in Request /\ Proper(r) /\ fixedSymbol[t] \in Symbol
  BY FixedRanges DEF Request, ReqType, ReqId, Symbol, Proper
<1>2. ASSUME NEW r1 \in rm.ids, r1.id = r.id PROVE r1 = r
  <2>1. r1 \in Request /\ Proper(r1)
    BY DEF RegistryOK, Registry
  <2>2. r1.type \in FixedType
    BY <1>2, <2>1, FixedRanges DEF Proper
  <2>3. r1.type = t
    BY <1>2, <2>1, <2>2, FixedDistinct DEF Proper
  <2> QED
    BY <1>2, <2>1, <2>3 DEF Request
<1>3. ASSUME NEW z \in Symbol, rm.ticker[z] = r PROVE z = fixedSymbol[t]
  BY <1>3 DEF RegistryOK
<1> QED
  BY <1>1, <1>2, <1>3 DEF Registrable

(* The id getNextFreeId finds is in the pool and nobody else's. *)
LEMMA FreeId ==
  ASSUME NEW rm, getNextFreeId(rm) # 0
  PROVE  getNextFreeId(rm) \in PoolId /\ isIdFree(rm, getNextFreeId(rm))
<1> DEFINE First(i) == isIdFree(rm, i) /\ \A j \in 1 .. (i - 1) : ~isIdFree(rm, j)
<1>1. getNextFreeId(rm) =
        IF \E i \in PoolId : First(i) THEN CHOOSE i \in PoolId : First(i) ELSE 0
  BY DEF getNextFreeId
<1> HIDE DEF First
<1>2. \E i \in PoolId : First(i)
  BY <1>1
<1>3. getNextFreeId(rm) \in PoolId /\ First(getNextFreeId(rm))
  BY <1>1, <1>2, Zenon
<1> QED
  BY <1>3 DEF First

(* A request with a free id is registrable under any instrument. *)
LEMMA FreeRegistrable ==
  ASSUME NEW rm, RegistryOK(rm), NEW y \in Ticker, NEW id \in PoolId,
         isIdFree(rm, id), NEW t \in ReqType \ FixedType
  PROVE  Registrable(rm, y, [id |-> id, type |-> t])
  BY DEF RegistryOK, Registrable, Registry, Request, ReqId, Symbol, Proper, isIdFree, NoReq, PoolId

(* So is the request the symbol already names. *)
LEMMA NamedRegistrable ==
  ASSUME NEW rm, RegistryOK(rm), NEW y \in Ticker, NEW t \in ReqType \ FixedType,
         getIdbySymbol(rm, y, t) # 0
  PROVE  Registrable(rm, y, [id |-> getIdbySymbol(rm, y, t), type |-> t])
<1>1. rm.ticker[y].type = t /\ getIdbySymbol(rm, y, t) = rm.ticker[y].id /\ y \in Symbol
  BY DEF getIdbySymbol, Symbol
<1>2. rm.ticker[y] # NoReq
  BY <1>1, NoReqType
<1>3. rm.ticker[y] \in rm.ids /\ rm.ids \subseteq Request
  BY <1>1, <1>2 DEF RegistryOK, Registry
<1>4. rm.ticker[y] = [id |-> getIdbySymbol(rm, y, t), type |-> t]
  BY <1>1, <1>3 DEF Request
<1> QED
  BY <1>1, <1>2, <1>3, <1>4 DEF RegistryOK, Registrable

-----------------------------------------------------------------------------
(* Removing keeps a registry good when the symbol is left out or is the    *)
(* one the request has: no entry of the map survives its request.          *)
LEMMA RemoveOK ==
  ASSUME NEW rm, RegistryOK(rm), NEW r \in Request, NEW y,
         y = NoSymbol \/ (y \in Symbol /\ rm.ticker[y] = r)
  PROVE  RegistryOK(removeReqIdsExt(rm, y, r))
<1> DEFINE new == removeReqIdsExt(rm, y, r)
<1>0. \A z \in Symbol : rm.ticker[z] = r =>
        removeItemFromTickerMap(rm, y, r) = [rm.ticker EXCEPT ![z] = NoReq]
  <2> SUFFICES ASSUME NEW z \in Symbol, rm.ticker[z] = r
               PROVE  removeItemFromTickerMap(rm, y, r) = [rm.ticker EXCEPT ![z] = NoReq]
    OBVIOUS
  <2>1. r = [id |-> r.id, type |-> r.type] /\ r # NoReq
    BY NoReqType DEF Request
  <2>2. NoSymbol \notin Symbol
    BY TickerAssumption DEF TickerAssumption, Symbol, NoSymbol, FixedSymbol
  <2>3. CASE y = NoSymbol
    <3>1. {w \in Symbol : rm.ticker[w] = [id |-> r.id, type |-> r.type]} = {z}
      BY <2>1 DEF RegistryOK
    <3>2. getSymbolById(rm, r.id, r.type) = z
      BY <3>1 DEF getSymbolById
    <3> QED
      BY <2>3, <3>2 DEF removeItemFromTickerMap
  <2>4. CASE y # NoSymbol
    BY <2>1, <2>4 DEF removeItemFromTickerMap, RegistryOK
  <2> QED
    BY <2>3, <2>4
<1>1. new.ids = rm.ids \ {r}
  BY DEF removeReqIdsExt, removeReqIds
<1>2. /\ new.ticker \in [Symbol -> Request \cup {NoReq}]
      /\ \A z \in Symbol : new.ticker[z] \in {rm.ticker[z], NoReq}
  BY DEF removeReqIdsExt, removeItemFromTickerMap, RegistryOK, Registry
<1>3. \A z \in Symbol : rm.ticker[z] = r => new.ticker[z] = NoReq
  BY <1>0 DEF removeReqIdsExt, RegistryOK, Registry
<1>4. new \in Registry
  BY <1>1, <1>2 DEF removeReqIdsExt, Registry, RegistryOK
<1> HIDE DEF new
<1>5. \A z \in Symbol : new.ticker[z] # NoReq => new.ticker[z] \in new.ids
  BY <1>1, <1>2, <1>3 DEF RegistryOK
<1>6. \A z, w \in Symbol :
        new.ticker[z] = new.ticker[w] /\ new.ticker[z] # NoReq => z = w
  BY <1>2 DEF RegistryOK
<1>7. \A z \in Symbol :
        new.ticker[z].type \in FixedType => z = fixedSymbol[new.ticker[z].type]
  BY <1>2, NoReqType DEF RegistryOK, ReqType
<1> QED
  BY <1>1, <1>4, <1>5, <1>6, <1>7 DEF RegistryOK, new

(* removeReqData removes what the symbol names. *)
LEMMA RemoveDataOK ==
  ASSUME NEW rm, RegistryOK(rm), NEW y, NEW t \in ReqType
  PROVE  RegistryOK(removeReqData(rm, y, t))
<1>1. CASE y \in Symbol /\ rm.ticker[y].type = t
  <2>1. rm.ticker[y] \in Request
    BY <1>1, NoReqType DEF RegistryOK, Registry
  <2> QED
    BY <1>1, <2>1, RemoveOK DEF removeReqData
<1> QED
  BY <1>1 DEF removeReqData

-----------------------------------------------------------------------------
(* The dispatcher *)

(* The dispatcher's invariant: registries are good, items in the list have *)
(* an owner, a different one each, the others have nothing registered.     *)
DispatcherOK(d) ==
  /\ d \in Dispatcher
  /\ \A i \in Item : RegistryOK(d.rm[i])
  /\ \A i \in d.list : d.owner[i] # Nobody
  /\ \A i \in Item \ d.list : d.rm[i] = EmptyRegistry
  /\ \A i, j \in d.list : d.owner[i] = d.owner[j] => i = j

(* DispatcherOK with the owners being alive is inductive. *)
RegistrationInv ==
  /\ alive \subseteq Subscriber
  /\ DispatcherOK(disp)
  /\ DestroyedUnlisted

-----------------------------------------------------------------------------
(* The items of a subscriber are its one item, or none. *)
LEMMA TheItem ==
  ASSUME NEW d, DispatcherOK(d), NEW s \in Subscriber, hasItem(d, s)
  PROVE  /\ getSubscriberItem(d, s) \in Item /\ getSubscriberItem(d, s) \in d.list
         /\ d.owner[getSubscriberItem(d, s)] = s
         /\ itemsOf(d, s) = {getSubscriberItem(d, s)}
<1>1. getSubscriberItem(d, s) \in itemsOf(d, s)
  BY Zenon DEF hasItem, getSubscriberItem
<1>2. itemsOf(d, s) = {getSubscriberItem(d, s)}
  BY <1>1 DEF itemsOf, DispatcherOK
<1> QED
  BY <1>1, <1>2 DEF itemsOf, DispatcherOK, Dispatcher

(* Subscribe keeps the dispatcher good when the request is registrable. *)
LEMMA SubscribeOK ==
  ASSUME NEW d, DispatcherOK(d), NEW s \in Subscriber, NEW y, NEW r,
         hasItem(d, s) \/ freeItems(d) # {},
         Registrable(IF hasItem(d, s) THEN registryOf(d, s) ELSE EmptyRegistry, y, r)
  PROVE  LET e == Subscribe(d, s, y, r)
         IN  /\ DispatcherOK(e)
             /\ \A i \in e.list : e.owner[i] = s \/ (i \in d.list /\ e.owner[i] = d.owner[i])
<1> DEFINE i == IF hasItem(d, s) THEN getSubscriberItem(d, s)
                                 ELSE CHOOSE k \in freeItems(d) : TRUE
           e == Subscribe(d, s, y, r)
<1>1. i \in Item /\ Registrable(d.rm[i], y, r)
  <2>1. CASE hasItem(d, s)
    BY <2>1, TheItem DEF registryOf
  <2>2. CASE ~hasItem(d, s)
    <3>1. i \in freeItems(d)
      BY <2>2
    <3>2. i \in Item /\ d.owner[i] = Nobody /\ i \notin d.list
      BY <3>1 DEF freeItems, DispatcherOK
    <3> QED
      BY <2>2, <3>2 DEF DispatcherOK
  <2> QED
    BY <2>1, <2>2
<1>2. i \in d.list => d.owner[i] = s
  <2>1. CASE hasItem(d, s)
    BY <2>1, TheItem
  <2>2. CASE ~hasItem(d, s)
    <3>1. i \in freeItems(d)
      BY <2>2
    <3> QED
      BY <3>1 DEF freeItems, DispatcherOK
  <2> QED
    BY <2>1, <2>2
<1>3. \A j \in d.list : d.owner[j] = s => j = i
  BY TheItem DEF hasItem, itemsOf
<1>4. e = [list  |-> d.list \cup {i},
           owner |-> [d.owner EXCEPT ![i] = s],
           rm    |-> [d.rm EXCEPT ![i] = addReqIdsExt(@, y, r)]]
  BY DEF Subscribe
<1> HIDE DEF i, e
<1>5. RegistryOK(addReqIdsExt(d.rm[i], y, r))
  BY <1>1, AddOK DEF DispatcherOK
<1>6. /\ e.list = d.list \cup {i}
      /\ \A j \in Item : e.owner[j] = IF j = i THEN s ELSE d.owner[j]
      /\ \A j \in Item : e.rm[j] = IF j = i THEN addReqIdsExt(d.rm[i], y, r) ELSE d.rm[j]
  BY <1>1, <1>4 DEF DispatcherOK, Dispatcher
<1>7. \A j \in Item : RegistryOK(e.rm[j])
  BY <1>5, <1>6 DEF DispatcherOK
<1>8. e \in Dispatcher
  <2>1. addReqIdsExt(d.rm[i], y, r) \in Registry
    BY <1>5 DEF RegistryOK
  <2> QED
    BY <1>1, <1>4, <2>1 DEF DispatcherOK, Dispatcher
<1>9. e.list \subseteq Item /\ d.list \subseteq Item
  BY <1>8 DEF DispatcherOK, Dispatcher
<1>10. \A j \in e.list : e.owner[j] # Nobody
  BY <1>6, <1>9, DataProviderAssumption DEF DispatcherOK, DataProviderAssumption
<1>11. \A j \in Item \ e.list : e.rm[j] = EmptyRegistry
  BY <1>6 DEF DispatcherOK
<1>12. \A j, k \in e.list : e.owner[j] = e.owner[k] => j = k
  BY <1>3, <1>6, <1>9 DEF DispatcherOK
<1>13. \A j \in e.list : e.owner[j] = s \/ (j \in d.list /\ e.owner[j] = d.owner[j])
  BY <1>6, <1>9
<1> QED
  BY <1>7, <1>8, <1>10, <1>11, <1>12, <1>13 DEF DispatcherOK, e

(* Unsubscribe keeps the dispatcher good when it names the symbol the      *)
(* request has, or none.                                                   *)
LEMMA UnsubscribeOK ==
  ASSUME NEW d, DispatcherOK(d), NEW s \in Subscriber, NEW y, NEW r \in Request,
         y = NoSymbol \/ (y \in Symbol /\ \A i \in itemsOf(d, s) : d.rm[i].ticker[y] = r)
  PROVE  LET e == Unsubscribe(d, s, y, r)
         IN  DispatcherOK(e) /\ e.list \subseteq d.list /\ e.owner = d.owner
<1> DEFINE after(i) == removeReqIdsExt(d.rm[i], y, r)
           e == Unsubscribe(d, s, y, r)
<1>1. e = [d EXCEPT !.rm   = [i \in Item |-> IF i \in itemsOf(d, s) THEN after(i)
                                                                    ELSE d.rm[i]],
                    !.list = {i \in d.list : i \in itemsOf(d, s) => after(i).ids # {}}]
  BY DEF Unsubscribe
<1>2. \A i \in itemsOf(d, s) : i \in Item /\ i \in d.list /\ RegistryOK(after(i))
  BY RemoveOK DEF DispatcherOK, Dispatcher, itemsOf
<1> HIDE DEF after, e
<1>3. /\ e.list = {i \in d.list : i \in itemsOf(d, s) => after(i).ids # {}}
      /\ e.owner = d.owner
      /\ e.rm = [i \in Item |-> IF i \in itemsOf(d, s) THEN after(i) ELSE d.rm[i]]
      /\ e = [list |-> e.list, owner |-> e.owner, rm |-> e.rm]
  BY <1>1 DEF DispatcherOK, Dispatcher
<1>4. \A i \in Item : RegistryOK(e.rm[i])
  BY <1>2, <1>3 DEF DispatcherOK
<1>5. e \in Dispatcher
  <2>1. e.rm \in [Item -> Registry]
    BY <1>3, <1>4 DEF RegistryOK
  <2> QED
    BY <1>3, <2>1 DEF DispatcherOK, Dispatcher
<1>6. \A i \in Item \ e.list : e.rm[i] = EmptyRegistry
  <2> SUFFICES ASSUME NEW i \in Item, i \notin e.list PROVE e.rm[i] = EmptyRegistry
    OBVIOUS
  <2>1. CASE i \in itemsOf(d, s)
    BY <1>2, <1>3, <1>4, <2>1, NoIds
  <2>2. CASE i \notin itemsOf(d, s)
    BY <1>3, <2>2 DEF DispatcherOK
  <2> QED
    BY <2>1, <2>2
<1>7. e.list \subseteq d.list
  BY <1>3
<1> QED
  BY <1>3, <1>4, <1>5, <1>6, <1>7 DEF DispatcherOK, e

(* UnsubscribeAllItemsOfSubscriber leaves the subscriber without an item. *)
LEMMA UnsubscribeAllOK ==
  ASSUME NEW d, DispatcherOK(d), NEW s \in Subscriber
  PROVE  LET e == UnsubscribeAllItemsOfSubscriber(d, s)
         IN  DispatcherOK(e) /\ e.list = d.list \ itemsOf(d, s) /\ e.owner = d.owner
<1> DEFINE cleared(rm) ==
             [ids |-> {}, ticker |-> [y \in Symbol |-> IF rm.ticker[y] \in rm.ids
                                                       THEN NoReq ELSE rm.ticker[y]]]
           e == UnsubscribeAllItemsOfSubscriber(d, s)
<1>1. ASSUME NEW i \in Item PROVE cleared(d.rm[i]) = EmptyRegistry
  BY DEF DispatcherOK, RegistryOK, EmptyRegistry
<1>2. e = [d EXCEPT !.rm   = [i \in Item |-> IF i \in itemsOf(d, s) THEN cleared(d.rm[i])
                                                                    ELSE d.rm[i]],
                    !.list = @ \ itemsOf(d, s)]
  BY DEF UnsubscribeAllItemsOfSubscriber
<1> HIDE DEF cleared, e
<1>3. /\ e.list = d.list \ itemsOf(d, s)
      /\ e.owner = d.owner
      /\ e.rm = [i \in Item |-> IF i \in itemsOf(d, s) THEN cleared(d.rm[i]) ELSE d.rm[i]]
      /\ e = [list |-> e.list, owner |-> e.owner, rm |-> e.rm]
  BY <1>2 DEF DispatcherOK, Dispatcher
<1>4. \A i \in Item : e.rm[i] = IF i \in itemsOf(d, s) THEN EmptyRegistry ELSE d.rm[i]
  BY <1>1, <1>3
<1>5. \A i \in Item : RegistryOK(e.rm[i])
  BY <1>4, EmptyOK DEF DispatcherOK
<1>6. e \in Dispatcher
  <2>1. e.rm \in [Item -> Registry]
    BY <1>3, <1>5 DEF RegistryOK
  <2> QED
    BY <1>3, <2>1 DEF DispatcherOK, Dispatcher
<1> QED
  BY <1>3, <1>4, <1>5, <1>6 DEF DispatcherOK, e

(* The destructors of dropped items leave the dispatcher good, however     *)
(* many of their owners' new items they evict.                             *)
LEMMA ReleaseOK ==
  ASSUME NEW d, DispatcherOK(d), NEW held
  PROVE  LET e == Release(d, held)
         IN  /\ DispatcherOK(e)
             /\ e.list \subseteq d.list
             /\ \A i \in e.list : e.owner[i] = d.owner[i]
<1> DEFINE dead    == unreferenced(d, held)
           evicted == {j \in d.list : \E i \in dead : d.owner[i] = d.owner[j]}
           gone    == dead \cup (evicted \ held)
           e       == Release(d, held)
<1>1. e = [list  |-> d.list \ evicted,
           owner |-> [i \in Item |-> IF i \in gone THEN Nobody ELSE d.owner[i]],
           rm    |-> [i \in Item |-> IF i \in gone \cup evicted THEN EmptyRegistry
                                                                ELSE d.rm[i]]]
  BY DEF Release
<1>2. d.list \subseteq Item /\ dead \cap d.list = {}
  BY DEF DispatcherOK, Dispatcher, unreferenced
<1>3. evicted \subseteq d.list /\ gone \subseteq dead \cup evicted
  OBVIOUS
<1> HIDE DEF dead, evicted, gone, e
<1>4. \A i \in Item : RegistryOK(e.rm[i])
  BY <1>1, EmptyOK DEF DispatcherOK
<1>5. e \in Dispatcher
  <2>1. e.rm \in [Item -> Registry]
    BY <1>1, <1>4 DEF RegistryOK
  <2>2. e.owner \in [Item -> Subscriber \cup {Nobody}]
    BY <1>1 DEF DispatcherOK, Dispatcher
  <2> QED
    BY <1>1, <1>2, <2>1, <2>2 DEF Dispatcher
<1>6. \A i \in e.list : i \in d.list /\ i \in Item /\ e.owner[i] = d.owner[i]
  BY <1>1, <1>2, <1>3
<1>7. \A i \in Item \ e.list : e.rm[i] = EmptyRegistry
  BY <1>1 DEF DispatcherOK
<1> QED
  BY <1>4, <1>5, <1>6, <1>7 DEF DispatcherOK, e

(* The end of a historical answer removes its request, not the item. *)
LEMMA WithoutRequestOK ==
  ASSUME NEW d, DispatcherOK(d), NEW s \in Subscriber, hasItem(d, s), NEW y
  PROVE  LET e == withoutRequest(d, s, y)
         IN  DispatcherOK(e) /\ e.list = d.list /\ e.owner = d.owner
<1> DEFINE i == getSubscriberItem(d, s)
           new == removeReqData(d.rm[i], y, "RT_HISTORICAL_DATA")
           e == withoutRequest(d, s, y)
<1>1. i \in Item /\ i \in d.list
  BY TheItem
<1>2. RegistryOK(new)
  BY <1>1, RemoveDataOK DEF DispatcherOK, ReqType, OneShotType
<1>3. e = [d EXCEPT !.rm = [@ EXCEPT ![i] = new]]
  BY <1>1 DEF withoutRequest, DispatcherOK, Dispatcher
<1> HIDE DEF i, new, e
<1>4. /\ e.list = d.list /\ e.owner = d.owner
      /\ \A j \in Item : e.rm[j] = IF j = i THEN new ELSE d.rm[j]
  BY <1>1, <1>3 DEF DispatcherOK, Dispatcher
<1>5. e \in Dispatcher
  <2>1. new \in Registry
    BY <1>2 DEF RegistryOK
  <2> QED
    BY <1>1, <1>3, <2>1 DEF DispatcherOK, Dispatcher
<1> QED
  BY <1>1, <1>2, <1>4, <1>5 DEF DispatcherOK, e

-----------------------------------------------------------------------------
(* The steps of the GUI thread *)

(* A step that subscribes a registrable request of a living subscriber. *)
LEMMA SubscribeStep ==
  ASSUME RegistrationInv, NEW s \in Subscriber, s \in alive, NEW y, NEW r,
         hasItem(disp, s) \/ freeItems(disp) # {},
         Registrable(IF hasItem(disp, s) THEN registryOf(disp, s) ELSE EmptyRegistry, y, r),
         disp' = Subscribe(disp, s, y, r), alive' = alive
  PROVE  RegistrationInv'
<1>1. DispatcherOK(disp)
  BY DEF RegistrationInv
<1>2. /\ DispatcherOK(disp')
      /\ \A i \in disp'.list :
           disp'.owner[i] = s \/ (i \in disp.list /\ disp'.owner[i] = disp.owner[i])
  BY <1>1, SubscribeOK
<1> QED
  BY <1>2 DEF RegistrationInv, DestroyedUnlisted, DispatcherOK, Dispatcher

(* A step that only drops items, and then releases what nobody refers to. *)
LEMMA ReleaseStep ==
  ASSUME RegistrationInv, NEW d, DispatcherOK(d), d.list \subseteq disp.list,
         d.owner = disp.owner, NEW held, disp' = Release(d, held), alive' = alive
  PROVE  RegistrationInv'
<1>1. /\ DispatcherOK(disp') /\ disp'.list \subseteq d.list
      /\ \A i \in disp'.list : disp'.owner[i] = d.owner[i]
  BY ReleaseOK
<1> QED
  BY <1>1 DEF RegistrationInv, DestroyedUnlisted, DispatcherOK, Dispatcher

(* What a subscriber's next request is registered in. *)
current(s) == IF hasItem(disp, s) THEN registryOf(disp, s) ELSE EmptyRegistry

LEMMA CurrentOK ==
  ASSUME RegistrationInv, NEW s \in Subscriber
  PROVE  RegistryOK(current(s))
  BY TheItem, EmptyOK DEF RegistrationInv, DispatcherOK, registryOf, current

(* The request that a subscriber makes for an instrument is registrable.   *)
LEMMA ChosenRegistrable ==
  ASSUME RegistrationInv, NEW s \in Subscriber, NEW y \in Ticker,
         NEW t \in ReqType \ FixedType, chooseId(s, y, t) # 0
  PROVE  Registrable(current(s), y, [id |-> chooseId(s, y, t), type |-> t])
<1> DEFINE rm == current(s)
<1>1. RegistryOK(rm)
  BY CurrentOK
<1>2. CASE ~hasItem(disp, s)
  <2>1. 1 \in PoolId /\ isIdFree(EmptyRegistry, 1) /\ chooseId(s, y, t) = 1
    BY <1>2, MaxIdAssumption DEF MaxIdAssumption, PoolId, isIdFree, EmptyRegistry, chooseId
  <2>2. rm = EmptyRegistry
    BY <1>2 DEF current
  <2> QED
    BY <1>1, <2>1, <2>2, FreeRegistrable
<1>3. CASE hasItem(disp, s)
  <2>1. \/ chooseId(s, y, t) = getNextFreeId(rm)
        \/ getIdbySymbol(rm, y, t) # 0 /\ chooseId(s, y, t) = getIdbySymbol(rm, y, t)
    BY <1>3 DEF chooseId, getNextFreeIdFor, current
  <2> HIDE DEF rm
  <2>2. Registrable(rm, y, [id |-> chooseId(s, y, t), type |-> t])
    BY <1>1, <2>1, FreeId, FreeRegistrable, NamedRegistrable
  <2> QED
    BY <2>2 DEF rm
<1> QED
  BY <1>2, <1>3

LEMMA RequestStep1 ==
  ASSUME RegistrationInv, NEW s \in Subscriber, NEW y \in Ticker,
         NEW t \in ReqType \ FixedType, requestFor(s, y, t)
  PROVE  RegistrationInv'
  BY ChosenRegistrable, SubscribeStep
     DEF requestFor, CanRequest, subscribeAndRequest, current

(* So is a subscription with a fixed id. *)
LEMMA FixedStep ==
  ASSUME RegistrationInv, NEW s \in Subscriber, NEW t \in FixedType, CanRequest(s, t),
         disp' = Subscribe(disp, s, fixedSymbol[t], fixedRequest(t)), alive' = alive
  PROVE  RegistrationInv'
<1>1. Registrable(current(s), fixedSymbol[t], fixedRequest(t))
  BY CurrentOK, FixedRegistrable DEF fixedRequest
<1> QED
  BY <1>1, SubscribeStep DEF CanRequest, current

(* What a cancel finds is a request under the symbol it names. *)
LEMMA FoundRequest ==
  ASSUME DispatcherOK(disp), NEW s \in Subscriber, NEW y \in Symbol, NEW t \in ReqType,
         requestOf(s, y, t) # NoReq
  PROVE  /\ requestOf(s, y, t) \in Request
         /\ \A i \in itemsOf(disp, s) : disp.rm[i].ticker[y] = requestOf(s, y, t)
<1>1. hasItem(disp, s)
  BY DEF requestOf
<1>2. requestOf(s, y, t) = registryOf(disp, s).ticker[y]
  BY <1>1 DEF requestOf, getReqData
<1>3. itemsOf(disp, s) = {getSubscriberItem(disp, s)} /\ getSubscriberItem(disp, s) \in Item
  BY <1>1, TheItem
<1>4. registryOf(disp, s) \in Registry
  BY <1>3 DEF registryOf, DispatcherOK, RegistryOK
<1> QED
  BY <1>2, <1>3, <1>4 DEF registryOf, Registry

(* A cancel that leaves the symbol out. *)
LEMMA CancelStep1 ==
  ASSUME RegistrationInv, NEW s \in Subscriber, NEW y \in Symbol, NEW t \in ReqType,
         requestOf(s, y, t) # NoReq, alive' = alive,
         disp' = Release(Unsubscribe(disp, s, NoSymbol, requestOf(s, y, t)), sender.held)
  PROVE  RegistrationInv'
<1>1. requestOf(s, y, t) \in Request
  BY FoundRequest DEF RegistrationInv
<1>2. LET e == Unsubscribe(disp, s, NoSymbol, requestOf(s, y, t))
      IN  DispatcherOK(e) /\ e.list \subseteq disp.list /\ e.owner = disp.owner
  BY <1>1, UnsubscribeOK DEF RegistrationInv
<1> QED
  BY <1>2, ReleaseStep

LEMMA RelCancelStep ==
  ASSUME RegistrationInv, NEW s \in Subscriber, NEW y \in Ticker, cancelRealTimeData(s, y)
  PROVE  RegistrationInv'
<1> DEFINE r == requestOf(s, y, "RT_REQ_REL_DATA")
           d == Unsubscribe(disp, s, y, r)
<1>1. r # NoReq /\ disp' = Release(d, sender.held) /\ alive' = alive
  BY DEF cancelRealTimeData
<1>2. y \in Symbol /\ "RT_REQ_REL_DATA" \in ReqType
  BY DEF Symbol, ReqType, KeyedType
<1>3. r \in Request /\ \A i \in itemsOf(disp, s) : disp.rm[i].ticker[y] = r
  BY <1>1, <1>2, FoundRequest DEF RegistrationInv
<1> HIDE DEF r
<1>4. DispatcherOK(d) /\ d.list \subseteq disp.list /\ d.owner = disp.owner
  BY <1>2, <1>3, UnsubscribeOK DEF RegistrationInv
<1> HIDE DEF d
<1> QED
  BY <1>1, <1>4, ReleaseStep

(* The cancel of the account summary, which subscribes again before the    *)
(* items it dropped are released.                                          *)
LEMMA SummaryStep ==
  ASSUME RegistrationInv, NEW s \in Subscriber, bpCancelAccountSummary(s)
  PROVE  RegistrationInv'
<1> DEFINE t  == "RT_REQ_ACCOUNT_SUMMURY"
           r  == requestOf(s, "AccSum", t)
           d  == IF r # NoReq THEN Unsubscribe(disp, s, NoSymbol, r) ELSE disp
           e  == Subscribe(d, s, "AccSum", fixedRequest(t))
<1>1. /\ t \in FixedType /\ t \in ReqType /\ fixedSymbol[t] = "AccSum" /\ "AccSum" \in Symbol
  BY DEF FixedType, ReqType, fixedSymbol, Symbol, FixedSymbol
<1>2. s \in alive /\ freeItems(disp) # {} /\ alive' = alive
  BY DEF bpCancelAccountSummary, CanCancel
<1>3. DispatcherOK(d) /\ d.list \subseteq disp.list /\ d.owner = disp.owner
  <2>1. CASE r # NoReq
    <3>1. r \in Request
      BY <1>1, <2>1, FoundRequest DEF RegistrationInv
    <3> QED
      BY <2>1, <3>1, UnsubscribeOK DEF RegistrationInv
  <2>2. CASE r = NoReq
    BY <2>2 DEF RegistrationInv
  <2> QED
    BY <2>1, <2>2
<1>4. CASE hasItem(disp, s)
  <2>1. disp' = Release(e, sender.held)
    BY <1>4 DEF bpCancelAccountSummary
  <2> HIDE DEF d
  <2>2. freeItems(d) # {}
    BY <1>2, <1>3 DEF freeItems
  <2>3. RegistryOK(IF hasItem(d, s) THEN registryOf(d, s) ELSE EmptyRegistry)
    BY <1>3, TheItem, EmptyOK DEF DispatcherOK, registryOf
  <2>4. Registrable(IF hasItem(d, s) THEN registryOf(d, s) ELSE EmptyRegistry,
                    "AccSum", fixedRequest(t))
    BY <1>1, <2>3, FixedRegistrable DEF fixedRequest
  <2>5. /\ DispatcherOK(e)
        /\ \A i \in e.list : e.owner[i] = s \/ (i \in d.list /\ e.owner[i] = d.owner[i])
    BY <1>3, <2>2, <2>4, SubscribeOK
  <2> HIDE DEF e
  <2>6. /\ DispatcherOK(disp') /\ disp'.list \subseteq e.list
        /\ \A i \in disp'.list : disp'.owner[i] = e.owner[i]
    BY <2>1, <2>5, ReleaseOK
  <2> QED
    BY <1>2, <1>3, <2>5, <2>6 DEF RegistrationInv, DestroyedUnlisted
<1>5. CASE ~hasItem(disp, s)
  BY <1>5 DEF bpCancelAccountSummary, RegistrationInv, DestroyedUnlisted
<1> QED
  BY <1>4, <1>5

LEMMA DestroyStep ==
  ASSUME RegistrationInv, NEW s \in Subscriber, Destroy(s)
  PROVE  RegistrationInv'
<1> DEFINE d == UnsubscribeAllItemsOfSubscriber(disp, s)
<1>1. DispatcherOK(d) /\ d.list = disp.list \ itemsOf(disp, s) /\ d.owner = disp.owner
  BY UnsubscribeAllOK DEF RegistrationInv
<1>2. disp' = Release(d, sender.held) /\ alive' = alive \ {s}
  BY DEF Destroy
<1> HIDE DEF d
<1>3. /\ DispatcherOK(disp') /\ disp'.list \subseteq d.list
      /\ \A i \in disp'.list : disp'.owner[i] = d.owner[i]
  BY <1>1, <1>2, ReleaseOK
<1> QED
  BY <1>1, <1>2, <1>3 DEF RegistrationInv, DestroyedUnlisted, itemsOf

-----------------------------------------------------------------------------
(* The steps of the three actors *)

LEMMA TypesAndSymbols ==
  /\ KeyedType \cup OneShotType = ReqType \ FixedType /\ FixedType \subseteq ReqType
  /\ \A t \in FixedType : fixedSymbol[t] \in Symbol
  /\ Ticker \subseteq Symbol
  BY DEF ReqType, KeyedType, OneShotType, FixedType, fixedSymbol, Symbol, FixedSymbol

LEMMA RequestPreserves ==
  ASSUME RegistrationInv, NEW s \in Subscriber, RequestStep(s)
  PROVE  RegistrationInv'
<1>1. ASSUME NEW y \in Ticker,
             \/ reqestRealTimeData(s, y) \/ requestRealTimeBars(s, y)
             \/ requestTickByTickData(s, y) \/ requestCalculateOptionPrice(s, y)
             \/ reqestHistoricalData(s, y) \/ requestHistoricalTicksData(s, y)
      PROVE  RegistrationInv'
  <2>1. \E t \in KeyedType \cup OneShotType : requestFor(s, y, t)
    BY <1>1 DEF reqestRealTimeData, requestRealTimeBars, requestTickByTickData,
                requestCalculateOptionPrice, reqestHistoricalData,
                requestHistoricalTicksData, KeyedType, OneShotType
  <2> QED
    BY <2>1, RequestStep1, TypesAndSymbols
<1>2. ASSUME \/ requestPosition(s) \/ requestResetSubscription(s)
             \/ requestErrorNotificationSubscription(s)
             \/ requestOrderStatusSubscription(s) \/ bpReqAccountSummary(s)
      PROVE  RegistrationInv'
  <2>1. \E t \in FixedType :
          /\ CanRequest(s, t) /\ alive' = alive
          /\ disp' = Subscribe(disp, s, fixedSymbol[t], fixedRequest(t))
    BY <1>2 DEF requestPosition, requestResetSubscription,
                requestErrorNotificationSubscription, requestOrderStatusSubscription,
                bpReqAccountSummary, subscribeOnly, subscribeAndRequest, fixedSymbol,
                FixedType
  <2> QED
    BY <2>1, FixedStep
<1> QED
  BY <1>1, <1>2 DEF RequestStep

LEMMA CancelPreserves ==
  ASSUME RegistrationInv, NEW s \in Subscriber, CancelStep(s)
  PROVE  RegistrationInv'
<1>1. ASSUME NEW y \in Ticker,
             \/ cancelRealTimeBars(s, y) \/ cancelTickByTickData(s, y)
             \/ cancelCalculateOptionPrice(s, y)
      PROVE  RegistrationInv'
  <2>1. \E t \in KeyedType : cancelFor(s, y, t)
    BY <1>1 DEF cancelRealTimeBars, cancelTickByTickData, cancelCalculateOptionPrice,
                KeyedType
  <2> QED
    BY <2>1, CancelStep1, TypesAndSymbols DEF cancelFor
<1>2. ASSUME \/ cancelPosition(s) \/ cancelResetSubscription(s)
             \/ cancelErrorNotificationSubscription(s)
             \/ cancelOrderStatusubscription(s)
      PROVE  RegistrationInv'
  <2>1. \E t \in FixedType :
          cancelFor(s, fixedSymbol[t], t) \/ unsubscribeOnly(s, t)
    BY <1>2 DEF cancelPosition, cancelResetSubscription,
                cancelErrorNotificationSubscription, cancelOrderStatusubscription,
                fixedSymbol, FixedType
  <2> QED
    BY <2>1, CancelStep1, TypesAndSymbols DEF cancelFor, unsubscribeOnly
<1> QED
  BY <1>1, <1>2, RelCancelStep, SummaryStep DEF CancelStep

LEMMA WorkerPreserves ==
  ASSUME RegistrationInv, WorkerStep
  PROVE  RegistrationInv'
<1>1. CASE SendMessageToSubscribers \/ \E i \in Item : TestItem(i)
  BY <1>1 DEF SendMessageToSubscribers, TestItem, RegistrationInv, DestroyedUnlisted
<1>2. ASSUME NEW i \in Item, MessageHandler(i) \/ getIdFromRM(i) PROVE RegistrationInv'
  BY <1>2 DEF MessageHandler, getIdFromRM, RegistrationInv, DestroyedUnlisted
<1>4. ASSUME NEW i \in Item, removeOldHistoricalRequest(i) PROVE RegistrationInv'
  <2>0. PICK s : s = disp.owner[i]
    OBVIOUS
  <2>1. /\ alive' = alive
        /\ disp' = IF hasItem(disp, s) THEN withoutRequest(disp, s, sender.symbol) ELSE disp
    BY <1>4, <2>0 DEF removeOldHistoricalRequest
  <2>2. CASE ~hasItem(disp, s)
    BY <2>1, <2>2 DEF RegistrationInv, DestroyedUnlisted
  <2>3. CASE hasItem(disp, s)
    <3>1. s \in Subscriber
      BY <2>3 DEF hasItem, itemsOf, RegistrationInv, DispatcherOK, Dispatcher
    <3>2. DispatcherOK(disp') /\ disp'.list = disp.list /\ disp'.owner = disp.owner
      BY <2>1, <2>3, <3>1, WithoutRequestOK DEF RegistrationInv
    <3> QED
      BY <2>1, <3>2 DEF RegistrationInv, DestroyedUnlisted
  <2> QED
    BY <2>2, <2>3
<1>3. ASSUME EndSend PROVE RegistrationInv'
  BY <1>3, ReleaseStep DEF EndSend, RegistrationInv
<1> QED
  BY <1>1, <1>2, <1>3, <1>4 DEF WorkerStep

LEMMA BrokerPreserves ==
  ASSUME RegistrationInv, BrokerStep
  PROVE  RegistrationInv'
<1>1. disp' = disp /\ alive' = alive
  BY DEF BrokerStep, Answer, AnswerBar, AnswerEnd, AnswerError, Notify, Arrives
<1> QED
  BY <1>1 DEF RegistrationInv, DestroyedUnlisted

LEMMA RegistrationInit == Init => RegistrationInv
<1> SUFFICES ASSUME Init PROVE RegistrationInv
  OBVIOUS
<1>1. EmptyRegistry \in Registry
  BY EmptyOK DEF RegistryOK
<1>2. disp \in Dispatcher
  BY <1>1 DEF Init, Dispatcher
<1> QED
  BY <1>2, EmptyOK DEF Init, RegistrationInv, DispatcherOK, DestroyedUnlisted

LEMMA RegistrationStep == RegistrationInv /\ [Next]_vars => RegistrationInv'
<1> SUFFICES ASSUME RegistrationInv, [Next]_vars PROVE RegistrationInv'
  OBVIOUS
<1>1. CASE GuiStep
  BY <1>1, RequestPreserves, CancelPreserves, DestroyStep DEF GuiStep
<1>2. CASE WorkerStep
  BY <1>2, WorkerPreserves
<1>3. CASE BrokerStep
  BY <1>3, BrokerPreserves
<1>4. CASE UNCHANGED vars
  BY <1>4 DEF vars, RegistrationInv, DestroyedUnlisted
<1> QED
  BY <1>1, <1>2, <1>3, <1>4 DEF Next

(* The invariant holds in every state of the program. *)
LEMMA Registration == Spec => []RegistrationInv
  BY RegistrationInit, RegistrationStep, PTL DEF Spec

-----------------------------------------------------------------------------
(* Two registrations of one subscriber never share an id, in whatever      *)
(* order they were requested, cancelled and answered.                      *)
THEOREM UniqueIds == Spec => []IdsUnique
<1>1. RegistrationInv => IdsUnique
  BY DEF RegistrationInv, DispatcherOK, RegistryOK, IdsUnique
<1> QED
  BY <1>1, Registration, PTL

(* The symbol map never names a request that was removed from the list. *)
THEOREM ListedTickers == Spec => []TickerListed
<1>1. RegistrationInv => TickerListed
  BY DEF RegistrationInv, DispatcherOK, RegistryOK, TickerListed
<1> QED
  BY <1>1, Registration, PTL

(* No request has two symbols: what getSymbolById returns is determined. *)
THEOREM InjectiveTickers == Spec => []TickerInjective
<1>1. RegistrationInv => TickerInjective
  BY DEF RegistrationInv, DispatcherOK, RegistryOK, TickerInjective
<1> QED
  BY <1>1, Registration, PTL

(* A subscriber never has two items in the list, whatever items the worker *)
(* still holds and whenever their destructors run.                         *)
THEOREM OneItem == Spec => []OneItemPerSubscriber
<1>1. RegistrationInv => OneItemPerSubscriber
  BY DEF RegistrationInv, DispatcherOK, OneItemPerSubscriber
<1> QED
  BY <1>1, Registration, PTL

(* An item that left the list has nothing registered, so that no later     *)
(* test of a pass that still holds it calls its subscriber.                *)
THEOREM DroppedItems == Spec => []DroppedItemEmpty
<1>1. RegistrationInv => DroppedItemEmpty
  BY DEF RegistrationInv, DispatcherOK, DroppedItemEmpty
<1> QED
  BY <1>1, Registration, PTL

(* A destroyed subscriber has no item in the list: no later pass of the    *)
(* worker calls it.                                                        *)
THEOREM DestroyedSubscribers == Spec => []DestroyedUnlisted
<1>1. RegistrationInv => DestroyedUnlisted
  BY DEF RegistrationInv
<1> QED
  BY <1>1, Registration, PTL

-----------------------------------------------------------------------------
(* The subscriptions for which the broker is asked nothing. *)
SilentType == {"RT_REQ_RESTART_SUBSCRIPTION", "RT_REQ_ORDER_STATUS",
               "RT_REQ_ERROR_SUBSRIPTION"}

(* TypeOK is not inductive: a stream of a silent type would be answered    *)
(* with a message that no response type has, and a handler that had no     *)
(* message would keep a bar of no symbol.                                  *)
TypeInv ==
  /\ RegistrationInv
  /\ TypeOK
  /\ \A x \in streams : x.type \notin SilentType
  /\ sender.at # "start" => sender.msg \in Message

(* What the GUI thread asks the broker for, it serves with the right type. *)
LEMMA StreamsRequested ==
  ASSUME NEW st, st \subseteq Stream, \A x \in st : x.type \notin SilentType,
         NEW r \in Request, r.type \notin SilentType, NEW y \in Symbol
  PROVE  /\ brokerRequest(st, r, y) \subseteq Stream
         /\ \A x \in brokerRequest(st, r, y) : x.type \notin SilentType
<1> DEFINE new == [type |-> r.type, id |-> r.id, symbol |-> y, sent |-> FALSE]
<1>1. r.type \in ReqType /\ r.id \in ReqId
  BY DEF Request
<1>2. new \in Stream /\ new.type = r.type
  BY <1>1 DEF Stream
<1>3. brokerRequest(st, r, y) \subseteq st \cup {new}
  BY DEF brokerRequest
<1> HIDE DEF new
<1> QED
  BY <1>2, <1>3

LEMMA StreamsCancelled ==
  \A st, r : brokerCancel(st, r) \subseteq st
  BY DEF brokerCancel

(* Every GUI step leaves sender, wire and the alive ones alone, and turns  *)
(* streams into streams.                                                   *)
LEMMA RequestTypes ==
  ASSUME TypeInv, NEW s \in Subscriber, RequestStep(s)
  PROVE  TypeInv'
<1>1. RegistrationInv'
  BY RequestPreserves DEF TypeInv
<1>2. /\ alive \subseteq Subscriber /\ disp' \in Dispatcher /\ streams \subseteq Stream
      /\ \A x \in streams : x.type \notin SilentType
  BY <1>1 DEF TypeInv, TypeOK, RegistrationInv, DispatcherOK
<1>3. ASSUME NEW r \in Request, r.type \notin SilentType, NEW y \in Symbol,
             subscribeAndRequest(s, y, r)
      PROVE  TypeInv'
  <2>1. streams' \subseteq Stream /\ \A x \in streams' : x.type \notin SilentType
    BY <1>2, <1>3, StreamsRequested DEF subscribeAndRequest
  <2>2. overlapped' \in BOOLEAN
    BY <1>3 DEF subscribeAndRequest, noted
  <2>3. refused' \subseteq Request /\ UNCHANGED <<alive, sender, history, wire, crashed>>
    BY <1>3 DEF subscribeAndRequest, noted, TypeInv, TypeOK
  <2> QED
    BY <1>1, <1>2, <2>1, <2>2, <2>3 DEF TypeInv, TypeOK, notes
<1>4. ASSUME NEW y \in Ticker, NEW t \in ReqType \ FixedType, requestFor(s, y, t)
      PROVE  TypeInv'
  <2>1. Registrable(current(s), y, [id |-> chooseId(s, y, t), type |-> t])
    BY <1>4, ChosenRegistrable DEF TypeInv, requestFor
  <2>2. t \notin SilentType
    BY DEF SilentType, FixedType
  <2> QED
    BY <1>3, <1>4, <2>1, <2>2 DEF requestFor, Registrable
<1>5. ASSUME NEW y \in Ticker,
             \/ reqestRealTimeData(s, y) \/ requestRealTimeBars(s, y)
             \/ requestTickByTickData(s, y) \/ requestCalculateOptionPrice(s, y)
             \/ reqestHistoricalData(s, y) \/ requestHistoricalTicksData(s, y)
      PROVE  TypeInv'
  <2>1. \E t \in KeyedType \cup OneShotType : requestFor(s, y, t)
    BY <1>5 DEF reqestRealTimeData, requestRealTimeBars, requestTickByTickData,
                requestCalculateOptionPrice, reqestHistoricalData,
                requestHistoricalTicksData, KeyedType, OneShotType
  <2> QED
    BY <2>1, <1>4, TypesAndSymbols
<1>6. ASSUME NEW t \in FixedType \ SilentType,
             subscribeAndRequest(s, fixedSymbol[t], fixedRequest(t))
      PROVE  TypeInv'
  <2>1. Registrable(current(s), fixedSymbol[t], fixedRequest(t))
    BY CurrentOK, FixedRegistrable DEF fixedRequest, TypeInv
  <2> QED
    BY <1>3, <1>6, <2>1 DEF Registrable, fixedRequest
<1>7. CASE requestPosition(s) \/ bpReqAccountSummary(s)
  <2>1. \E t \in FixedType \ SilentType :
          subscribeAndRequest(s, fixedSymbol[t], fixedRequest(t))
    BY <1>7 DEF requestPosition, bpReqAccountSummary, fixedSymbol, FixedType, SilentType
  <2> QED
    BY <1>6, <2>1
<1>8. CASE \/ requestResetSubscription(s) \/ requestErrorNotificationSubscription(s)
           \/ requestOrderStatusSubscription(s)
  <2>1. PICK t : subscribeOnly(s, t)
    BY <1>8 DEF requestResetSubscription, requestErrorNotificationSubscription,
                requestOrderStatusSubscription
  <2>2. UNCHANGED <<alive, sender, history, streams, wire, crashed>>
    BY <2>1 DEF subscribeOnly
  <2>3. overlapped' \in BOOLEAN
    BY <2>1 DEF subscribeOnly, noted
  <2>4. refused' \subseteq Request
    BY <2>1 DEF subscribeOnly, noted, TypeInv, TypeOK
  <2> QED
    BY <1>1, <1>2, <2>2, <2>3, <2>4 DEF TypeInv, TypeOK
<1> QED
  BY <1>5, <1>7, <1>8 DEF RequestStep

LEMMA CancelTypes ==
  ASSUME TypeInv, NEW s \in Subscriber, CancelStep(s)
  PROVE  TypeInv'
<1>1. RegistrationInv'
  BY CancelPreserves DEF TypeInv
<1>2. /\ alive \subseteq Subscriber /\ disp' \in Dispatcher /\ streams \subseteq Stream
      /\ \A x \in streams : x.type \notin SilentType
  BY <1>1 DEF TypeInv, TypeOK, RegistrationInv, DispatcherOK
<1>3. ASSUME UNCHANGED <<alive, sender, history, wire, crashed, notes>>, streams' \subseteq streams
      PROVE  TypeInv'
  BY <1>1, <1>2, <1>3 DEF TypeInv, TypeOK, notes
<1>4. CASE bpCancelAccountSummary(s)
  <2> DEFINE t  == "RT_REQ_ACCOUNT_SUMMURY"
             r  == requestOf(s, "AccSum", t)
             st == IF r # NoReq THEN brokerCancel(streams, r) ELSE streams
  <2>1. \/ streams' = brokerRequest(st, fixedRequest(t), "AccSum")
        \/ streams' = streams
    BY <1>4 DEF bpCancelAccountSummary
  <2>2. st \subseteq streams
    BY StreamsCancelled
  <2>3. /\ fixedRequest(t) \in Request /\ fixedRequest(t).type \notin SilentType
        /\ "AccSum" \in Symbol
    BY FixedRanges DEF fixedRequest, Request, ReqType, FixedType, ReqId, SilentType,
                       Symbol, FixedSymbol
  <2> HIDE DEF st
  <2>4. streams' \subseteq Stream /\ \A x \in streams' : x.type \notin SilentType
    BY <1>2, <2>1, <2>2, <2>3, StreamsRequested
  <2>5. UNCHANGED <<alive, sender, history, wire, notes>> /\ crashed' \in BOOLEAN
    BY <1>4 DEF bpCancelAccountSummary, TypeInv, TypeOK
  <2> QED
    BY <1>1, <1>2, <2>4, <2>5 DEF TypeInv, TypeOK, notes
<1>5. ASSUME NEW y \in Ticker, cancelRealTimeData(s, y) PROVE TypeInv'
  <2>1. UNCHANGED <<alive, sender, history, wire, crashed, notes>> /\ streams' \subseteq streams
    BY <1>5, StreamsCancelled DEF cancelRealTimeData
  <2> QED
    BY <1>3, <2>1
<1>6. ASSUME NEW y, NEW t, cancelFor(s, y, t) \/ unsubscribeOnly(s, t) PROVE TypeInv'
  <2>1. UNCHANGED <<alive, sender, history, wire, crashed, notes>> /\ streams' \subseteq streams
    BY <1>6, StreamsCancelled DEF cancelFor, unsubscribeOnly
  <2> QED
    BY <1>3, <2>1
<1> QED
  BY <1>4, <1>5, <1>6
     DEF CancelStep, cancelRealTimeBars, cancelTickByTickData, cancelCalculateOptionPrice,
         cancelPosition, cancelResetSubscription, cancelErrorNotificationSubscription,
         cancelOrderStatusubscription

LEMMA DestroyTypes ==
  ASSUME TypeInv, NEW s \in Subscriber, Destroy(s)
  PROVE  TypeInv'
<1>1. RegistrationInv'
  BY DestroyStep DEF TypeInv
<1>2. history' \in [Subscriber -> [PoolId -> HistEntry]]
  BY DEF Destroy, TypeInv, TypeOK, HistEntry, NoHist
<1> QED
  BY <1>1, <1>2 DEF TypeInv, TypeOK, Destroy, notes, RegistrationInv, DispatcherOK

LEMMA PassTypes ==
  ASSUME NEW m \in Message \cup {NoMessage}, NEW items \in SUBSET Item
  PROVE  /\ Pass(m, items) \in Sender
         /\ Pass(m, items).at = "start"
  BY DEF Pass, Sender

LEMMA ReturnedTypes ==
  ASSUME sender \in Sender, NEW i
  PROVE  /\ returned(i) \in Sender /\ returned(i).at = "start"
         /\ returned(i).msg = sender.msg /\ returned(i).held = sender.held
         /\ returned(i).todo = sender.todo \ {i} /\ returned(i).called = {}
  BY DEF returned, Sender

(* What the look-ups find. *)
LEMMA FoundTypes ==
  ASSUME RegistrationInv, NEW s, hasItem(disp, s)
  PROVE  /\ \A id : getSymbolById(registryOf(disp, s), id, "RT_HISTORICAL_DATA")
                      \in Symbol \cup {NoSymbol}
         /\ \A y : getIdbySymbol(registryOf(disp, s), y, "RT_HISTORICAL_DATA")
                      \in ReqId \cup {0}
<1>1. s \in Subscriber /\ DispatcherOK(disp)
  BY DEF hasItem, itemsOf, RegistrationInv, DispatcherOK, Dispatcher
<1>2. PICK rm : rm = registryOf(disp, s)
  OBVIOUS
<1>3. RegistryOK(rm)
  BY <1>1, <1>2, TheItem DEF DispatcherOK, registryOf
<1>4. \A id : getSymbolById(rm, id, "RT_HISTORICAL_DATA") \in Symbol \cup {NoSymbol}
  BY DEF getSymbolById
<1>5. \A y : getIdbySymbol(rm, y, "RT_HISTORICAL_DATA") \in ReqId \cup {0}
  BY <1>3 DEF getIdbySymbol, RegistryOK, Registry, Request, NoReq
<1> QED
  BY <1>2, <1>4, <1>5

(* The worker changes the history of the subscriber it calls only. *)
LEMMA HandlerTypes ==
  ASSUME TypeInv, NEW i \in Item,
         MessageHandler(i) \/ getIdFromRM(i) \/ removeOldHistoricalRequest(i)
  PROVE  TypeInv'
<1>0. PICK s : s = disp.owner[i]
  OBVIOUS
<1>1. RegistrationInv'
  BY WorkerPreserves DEF TypeInv, WorkerStep
<1>2. alive' \subseteq Subscriber /\ disp' \in Dispatcher
  BY <1>1 DEF RegistrationInv, DispatcherOK
<1>3. /\ sender \in Sender /\ history \in [Subscriber -> [PoolId -> HistEntry]]
      /\ RegistrationInv /\ UNCHANGED <<streams, wire, overlapped, refused>>
  BY DEF MessageHandler, getIdFromRM, removeOldHistoricalRequest, notes, TypeInv, TypeOK
<1>4. returned(i) \in Sender /\ returned(i).at = "start"
  BY <1>3, ReturnedTypes
<1>5. ASSUME sender' \in Sender, sender'.at # "start" => sender'.msg \in Message,
             history' \in [Subscriber -> [PoolId -> HistEntry]], crashed' \in BOOLEAN
      PROVE  TypeInv'
  BY <1>1, <1>2, <1>3, <1>5 DEF TypeInv, TypeOK
<1>6. CASE MessageHandler(i)
  <2> DEFINE y == IF hasItem(disp, s)
                  THEN getSymbolById(registryOf(disp, s), sender.msg.id, "RT_HISTORICAL_DATA")
                  ELSE NoSymbol
             next == [sender EXCEPT !.at = "symbol", !.symbol = y]
  <2>1. y \in Symbol \cup {NoSymbol}
    BY <1>3, FoundTypes
  <2>2. /\ history' = history /\ crashed' \in BOOLEAN
        /\ \/ sender' = returned(i)
           \/ sender.msg.type = "RT_HISTORICAL_DATA" /\ sender' = next
    BY <1>0, <1>6 DEF MessageHandler
  <2> HIDE DEF y
  <2>3. ASSUME sender.msg.type = "RT_HISTORICAL_DATA"
        PROVE  next \in Sender /\ next.msg \in Message
    <3>1. sender.msg \in Message
      <4>1. sender.msg \in Message \cup {NoMessage}
        BY <1>3 DEF Sender
      <4>2. NoMessage.type # "RT_HISTORICAL_DATA"
        BY DEF NoMessage
      <4> QED
        BY <2>3, <4>1, <4>2
    <3> QED
      BY <1>3, <2>1, <3>1 DEF Sender
  <2> QED
    BY <1>3, <1>4, <1>5, <2>2, <2>3
<1>7. CASE getIdFromRM(i)
  <2> DEFINE id == IF hasItem(disp, s)
                   THEN getIdbySymbol(registryOf(disp, s), sender.symbol, "RT_HISTORICAL_DATA")
                   ELSE 0
             next == [sender EXCEPT !.at = "id", !.id = id]
             kept == [history EXCEPT ![s][id] = withBar(@, sender.msg.symbol)]
  <2>1. id \in ReqId \cup {0}
    BY <1>3, FoundTypes
  <2>2. sender.msg \in Message
    BY <1>7 DEF getIdFromRM, TypeInv
  <2>3. /\ crashed' \in BOOLEAN
        /\ \/ sender' = returned(i) /\ history' = kept
           \/ sender' = next /\ history' = history
    BY <1>0, <1>7 DEF getIdFromRM
  <2> HIDE DEF id
  <2>4. next \in Sender /\ next.msg \in Message
    BY <1>3, <2>1, <2>2 DEF Sender
  <2>5. \A h \in HistEntry : withBar(h, sender.msg.symbol) \in HistEntry
    BY <2>2 DEF withBar, HistEntry, Message
  <2>6. kept \in [Subscriber -> [PoolId -> HistEntry]]
    BY <1>3, <2>5
  <2> QED
    BY <1>3, <1>4, <1>5, <2>3, <2>4, <2>6
<1>8. CASE removeOldHistoricalRequest(i)
  <2> DEFINE marked == [history EXCEPT ![s][sender.id].isAvaliable = TRUE]
  <2>1. /\ sender' = returned(i) /\ crashed' \in BOOLEAN
        /\ history' = history \/ history' = marked
    BY <1>0, <1>8 DEF removeOldHistoricalRequest
  <2>2. \A h \in HistEntry : [h EXCEPT !.isAvaliable = TRUE] \in HistEntry
    BY DEF HistEntry
  <2>3. marked \in [Subscriber -> [PoolId -> HistEntry]]
    BY <1>3, <2>2
  <2> QED
    BY <1>3, <1>4, <1>5, <2>1, <2>3
<1> QED
  BY <1>6, <1>7, <1>8

LEMMA WorkerTypes ==
  ASSUME TypeInv, WorkerStep
  PROVE  TypeInv'
<1>1. RegistrationInv'
  BY WorkerPreserves DEF TypeInv
<1>2. alive' \subseteq Subscriber /\ disp' \in Dispatcher
  BY <1>1 DEF RegistrationInv, DispatcherOK
<1>3. disp.list \subseteq Item /\ IdleSender \in Sender /\ IdleSender.at = "start"
  BY PassTypes DEF TypeInv, TypeOK, Dispatcher, IdleSender
<1>4. CASE SendMessageToSubscribers
  <2>1. wire # <<>> /\ wire \in Seq(Message) /\ Len(wire) <= MaxWire
    BY <1>4 DEF SendMessageToSubscribers, TypeInv, TypeOK
  <2>2. /\ Head(wire) \in Message /\ Tail(wire) \in Seq(Message)
        /\ Len(Tail(wire)) <= MaxWire
    BY <2>1, DataProviderAssumption DEF DataProviderAssumption
  <2>3. sender' \in Sender /\ sender'.at = "start"
    BY <1>3, <1>4, <2>2, PassTypes DEF SendMessageToSubscribers
  <2> QED
    BY <1>1, <1>2, <1>4, <2>2, <2>3 DEF SendMessageToSubscribers, TypeInv, TypeOK, notes
<1>5. ASSUME NEW i \in Item, TestItem(i) PROVE TypeInv'
  <2>1. sender' \in Sender /\ sender'.at = sender.at /\ sender'.msg = sender.msg
    BY <1>5 DEF TestItem, TypeInv, TypeOK, Sender
  <2> QED
    BY <1>1, <1>2, <1>5, <2>1 DEF TestItem, TypeInv, TypeOK, notes
<1>6. CASE EndSend
  BY <1>1, <1>2, <1>3, <1>6 DEF EndSend, TypeInv, TypeOK, notes
<1> QED
  BY <1>4, <1>5, <1>6, HandlerTypes DEF WorkerStep

(* Only the response types of a stream's own type are on the wire. *)
LEMMA Responses ==
  ASSUME NEW x \in Stream, x.type \notin SilentType
  PROVE  /\ responsesTo(x.type) \subseteq ResponseType
         /\ \A t \in ResponseType, end \in BOOLEAN : messageOf(x, t, end) \in Message
<1>1. x.type \in ReqType
  BY DEF Stream
<1>2. responsesTo(x.type) \subseteq ResponseType
  BY <1>1 DEF responsesTo, ResponseType, ReqType, KeyedType, OneShotType, FixedType,
              SilentType
<1>3. \A t \in ResponseType, end \in BOOLEAN : messageOf(x, t, end) \in Message
  BY DEF messageOf, Message, Stream
<1> QED
  BY <1>2, <1>3

LEMMA Notices ==
  /\ \A t \in NoticeType : noticeOf(t) \in Message
  /\ \A t \in Notice : noticeOf(t) \in Message
<1>1. \A t \in NoticeType : noticeOf(t) \in Message
  BY MaxIdAssumption
     DEF MaxIdAssumption, NoticeType, noticeOf, Message, ReqId, PoolId, ResponseType,
         Symbol, FixedSymbol, fixedId, FixedType
<1> QED
  BY <1>1, DataProviderAssumption DEF DataProviderAssumption

LEMMA ArrivalTypes ==
  ASSUME TypeInv, NEW m \in Message, Arrives(m), streams' \subseteq Stream,
         \A x \in streams' : x.type \notin SilentType, refused' \subseteq Request
  PROVE  TypeInv'
<1>1. wire' \in Seq(Message) /\ Len(wire') <= MaxWire
  BY DataProviderAssumption DEF DataProviderAssumption, Arrives, TypeInv, TypeOK
<1>2. RegistrationInv'
  BY DEF Arrives, TypeInv, RegistrationInv, DestroyedUnlisted
<1> QED
  BY <1>1, <1>2 DEF Arrives, TypeInv, TypeOK

LEMMA BrokerTypes ==
  ASSUME TypeInv, BrokerStep
  PROVE  TypeInv'
<1>1. /\ streams \subseteq Stream /\ \A x \in streams : x.type \notin SilentType
      /\ refused \subseteq Request
  BY DEF TypeInv, TypeOK
<1>2. ASSUME NEW x \in streams, Answer(x) PROVE TypeInv'
  <2>1. PICK t \in responsesTo(x.type) : Arrives(messageOf(x, t, FALSE))
    BY <1>2 DEF Answer
  <2>2. messageOf(x, t, FALSE) \in Message
    BY <1>1, <2>1, Responses
  <2>3. streams' \subseteq streams /\ refused' = refused
    BY <1>2 DEF Answer
  <2> QED
    BY <1>1, <2>1, <2>2, <2>3, ArrivalTypes
<1>3. ASSUME NEW x \in streams, AnswerBar(x) \/ AnswerEnd(x) PROVE TypeInv'
  <2>1. \E end \in BOOLEAN : Arrives(messageOf(x, x.type, end))
    BY <1>3 DEF AnswerBar, AnswerEnd
  <2>2. x.type \in ResponseType
    BY <1>3 DEF AnswerBar, AnswerEnd, ResponseType
  <2>3. \A end \in BOOLEAN : messageOf(x, x.type, end) \in Message
    BY <1>1, <2>2, Responses
  <2>4. streams' \subseteq streams \cup {[x EXCEPT !.sent = TRUE]}
    BY <1>3 DEF AnswerBar, AnswerEnd
  <2>5. /\ [x EXCEPT !.sent = TRUE] \in Stream
        /\ [x EXCEPT !.sent = TRUE].type \notin SilentType
    BY <1>1 DEF Stream
  <2>6. streams' \subseteq Stream /\ \A z \in streams' : z.type \notin SilentType
    BY <1>1, <2>4, <2>5
  <2>7. refused' \subseteq Request
    BY <1>1, <1>3 DEF AnswerBar, AnswerEnd
  <2> QED
    BY <2>1, <2>3, <2>6, <2>7, ArrivalTypes
<1>4. ASSUME NEW t \in Notice, Notify(t) PROVE TypeInv'
  BY <1>1, <1>4, Notices, ArrivalTypes DEF Notify
<1>5. ASSUME NEW x \in streams, AnswerError(x) PROVE TypeInv'
  <2>1. noticeOf("RT_REQ_ERROR_SUBSRIPTION") \in Message
    BY Notices DEF NoticeType
  <2>2. [id |-> x.id, type |-> x.type] \in Request
    BY <1>1 DEF Stream, Request
  <2>3. streams' \subseteq streams /\ refused' \subseteq Request
    BY <1>1, <1>5, <2>2 DEF AnswerError
  <2> QED
    BY <1>1, <1>5, <2>1, <2>3, ArrivalTypes DEF AnswerError
<1> QED
  BY <1>2, <1>3, <1>4, <1>5 DEF BrokerStep

LEMMA TypesInit == Init => TypeInv
<1> SUFFICES ASSUME Init PROVE TypeInv
  OBVIOUS
<1>1. RegistrationInv
  BY RegistrationInit
<1>2. wire \in Seq(Message) /\ Len(wire) <= MaxWire
  BY DataProviderAssumption DEF DataProviderAssumption, Init
<1>3. /\ sender \in Sender /\ sender.at = "start"
      /\ history \in [Subscriber -> [PoolId -> HistEntry]]
  BY PassTypes DEF Init, IdleSender, HistEntry, NoHist
<1> QED
  BY <1>1, <1>2, <1>3 DEF Init, TypeInv, TypeOK, RegistrationInv, DispatcherOK

LEMMA TypesStep == TypeInv /\ [Next]_vars => TypeInv'
<1> SUFFICES ASSUME TypeInv, [Next]_vars PROVE TypeInv'
  OBVIOUS
<1>1. CASE GuiStep
  BY <1>1, RequestTypes, CancelTypes, DestroyTypes DEF GuiStep
<1>2. CASE WorkerStep
  BY <1>2, WorkerTypes
<1>3. CASE BrokerStep
  BY <1>3, BrokerTypes
<1>4. CASE UNCHANGED vars
  BY <1>4 DEF vars, notes, TypeInv, TypeOK, RegistrationInv, DestroyedUnlisted
<1> QED
  BY <1>1, <1>2, <1>3, <1>4 DEF Next

LEMMA Types == Spec => []TypeInv
  BY TypesInit, TypesStep, PTL DEF Spec

(* Every variable has its type. *)
THEOREM TypeCorrect == Spec => []TypeOK
<1>1. TypeInv => TypeOK
  BY DEF TypeInv
<1> QED
  BY <1>1, Types, PTL

-----------------------------------------------------------------------------
(* The instruments' entries of the listed items: those of e are entries of *)
(* d or none.                                                              *)
NoNewEntry(d, e) ==
  \A i \in e.list, y \in Ticker :
    \/ e.rm[i].ticker[y] = NoReq
    \/ i \in d.list /\ e.rm[i].ticker[y] = d.rm[i].ticker[y]

LEMMA NoNewTransitive ==
  \A d, e, f : NoNewEntry(d, e) /\ NoNewEntry(e, f) => NoNewEntry(d, f)
  BY DEF NoNewEntry

(* Removing a request from a registry adds no entry. *)
LEMMA RemovedEntries ==
  ASSUME NEW rm, RegistryOK(rm), NEW y, NEW r
  PROVE  \A z \in Symbol : removeReqIdsExt(rm, y, r).ticker[z] \in {rm.ticker[z], NoReq}
  BY DEF removeReqIdsExt, removeItemFromTickerMap, RegistryOK, Registry

LEMMA UnsubscribeEntries ==
  ASSUME NEW d, DispatcherOK(d), NEW s, NEW y, NEW r
  PROVE  NoNewEntry(d, Unsubscribe(d, s, y, r))
<1> DEFINE after(i) == removeReqIdsExt(d.rm[i], y, r)
           e == Unsubscribe(d, s, y, r)
<1>1. /\ e.list = {i \in d.list : i \in itemsOf(d, s) => after(i).ids # {}}
      /\ e.rm = [i \in Item |-> IF i \in itemsOf(d, s) THEN after(i) ELSE d.rm[i]]
  BY DEF Unsubscribe, DispatcherOK, Dispatcher
<1>2. \A i \in Item, z \in Symbol : after(i).ticker[z] \in {d.rm[i].ticker[z], NoReq}
  BY RemovedEntries DEF DispatcherOK
<1>3. d.list \subseteq Item /\ Ticker \subseteq Symbol
  BY DEF DispatcherOK, Dispatcher, Symbol
<1> HIDE DEF after, e
<1> QED
  BY <1>1, <1>2, <1>3 DEF NoNewEntry, e

LEMMA UnsubscribeAllEntries ==
  ASSUME NEW d, DispatcherOK(d), NEW s
  PROVE  NoNewEntry(d, UnsubscribeAllItemsOfSubscriber(d, s))
<1> DEFINE e == UnsubscribeAllItemsOfSubscriber(d, s)
<1>1. e.list = d.list \ itemsOf(d, s)
  BY DEF UnsubscribeAllItemsOfSubscriber, DispatcherOK, Dispatcher
<1>2. \A i \in Item : i \notin itemsOf(d, s) => e.rm[i] = d.rm[i]
  BY DEF UnsubscribeAllItemsOfSubscriber, DispatcherOK, Dispatcher
<1>3. d.list \subseteq Item
  BY DEF DispatcherOK, Dispatcher
<1> HIDE DEF e
<1> QED
  BY <1>1, <1>2, <1>3 DEF NoNewEntry, e

LEMMA ReleaseEntries ==
  ASSUME NEW d, DispatcherOK(d), NEW held
  PROVE  NoNewEntry(d, Release(d, held))
<1> DEFINE dead    == unreferenced(d, held)
           evicted == {j \in d.list : \E i \in dead : d.owner[i] = d.owner[j]}
           gone    == dead \cup (evicted \ held)
           e       == Release(d, held)
<1>1. /\ e.list = d.list \ evicted
      /\ e.rm = [i \in Item |-> IF i \in gone \cup evicted THEN EmptyRegistry ELSE d.rm[i]]
  BY DEF Release
<1>2. d.list \subseteq Item /\ dead \cap d.list = {} /\ gone \subseteq dead \cup evicted
  BY DEF DispatcherOK, Dispatcher, unreferenced
<1> HIDE DEF dead, evicted, gone, e
<1>3. \A i \in e.list : i \in d.list /\ e.rm[i] = d.rm[i]
  BY <1>1, <1>2
<1> HIDE <1>1
<1> QED
  BY <1>3 DEF NoNewEntry, e

(* Subscribing adds the entry of its symbol only. *)
LEMMA SubscribeEntries ==
  ASSUME NEW d, DispatcherOK(d), NEW s \in Subscriber, NEW y \in Symbol, NEW r,
         hasItem(d, s) \/ freeItems(d) # {}
  PROVE  \A i \in Subscribe(d, s, y, r).list, z \in Ticker :
           \/ z = y /\ Subscribe(d, s, y, r).rm[i].ticker[z] = r
           \/ Subscribe(d, s, y, r).rm[i].ticker[z] = NoReq
           \/ i \in d.list /\ Subscribe(d, s, y, r).rm[i].ticker[z] = d.rm[i].ticker[z]
<1> DEFINE i == IF hasItem(d, s) THEN getSubscriberItem(d, s)
                                 ELSE CHOOSE k \in freeItems(d) : TRUE
           e == Subscribe(d, s, y, r)
<1>1. i \in Item
  <2>1. CASE hasItem(d, s)
    BY <2>1, TheItem
  <2>2. CASE ~hasItem(d, s)
    <3>1. i \in freeItems(d)
      BY <2>2
    <3> QED
      BY <3>1 DEF freeItems
  <2> QED
    BY <2>1, <2>2
<1>2. e = [list  |-> d.list \cup {i},
           owner |-> [d.owner EXCEPT ![i] = s],
           rm    |-> [d.rm EXCEPT ![i] = addReqIdsExt(@, y, r)]]
  BY DEF Subscribe
<1> HIDE DEF i, e
<1>3. /\ e.list = d.list \cup {i} /\ d.list \subseteq Item
      /\ \A j \in Item : e.rm[j] = IF j = i THEN addReqIdsExt(d.rm[i], y, r) ELSE d.rm[j]
  BY <1>1, <1>2 DEF DispatcherOK, Dispatcher
<1>4. /\ Ticker \subseteq Symbol
      /\ \A z \in Symbol :
           addReqIdsExt(d.rm[i], y, r).ticker[z] = IF z = y THEN r ELSE d.rm[i].ticker[z]
  BY <1>1 DEF addReqIdsExt, DispatcherOK, RegistryOK, Registry, Symbol
<1>5. i \notin d.list => \A z \in Ticker : d.rm[i].ticker[z] = NoReq
  BY <1>1, <1>4 DEF DispatcherOK, EmptyRegistry
<1> SUFFICES ASSUME NEW j \in e.list, NEW z \in Ticker
             PROVE  \/ z = y /\ e.rm[j].ticker[z] = r
                    \/ e.rm[j].ticker[z] = NoReq
                    \/ j \in d.list /\ e.rm[j].ticker[z] = d.rm[j].ticker[z]
  BY DEF e
<1>6. CASE j = i
  <2>1. e.rm[j].ticker[z] = IF z = y THEN r ELSE d.rm[i].ticker[z]
    BY <1>1, <1>3, <1>4, <1>6
  <2> QED
    BY <1>5, <1>6, <2>1
<1>7. CASE j # i
  <2>1. j \in d.list /\ e.rm[j] = d.rm[j]
    BY <1>3, <1>7
  <2> QED
    BY <2>1
<1> QED
  BY <1>6, <1>7

(* The end of a historical answer adds no entry. *)
LEMMA WithoutRequestEntries ==
  ASSUME NEW d, DispatcherOK(d), NEW s \in Subscriber, hasItem(d, s), NEW y
  PROVE  NoNewEntry(d, withoutRequest(d, s, y))
<1> DEFINE i == getSubscriberItem(d, s)
           new == removeReqData(d.rm[i], y, "RT_HISTORICAL_DATA")
           e == withoutRequest(d, s, y)
<1>1. i \in Item
  BY TheItem
<1>2. \A z \in Symbol : new.ticker[z] \in {d.rm[i].ticker[z], NoReq}
  BY <1>1, RemovedEntries DEF removeReqData, DispatcherOK
<1>3. e = [d EXCEPT !.rm = [@ EXCEPT ![i] = new]]
  BY <1>1 DEF withoutRequest, DispatcherOK, Dispatcher
<1> HIDE DEF i, new, e
<1>4. /\ e.list = d.list /\ d.list \subseteq Item /\ Ticker \subseteq Symbol
      /\ \A j \in Item : e.rm[j] = IF j = i THEN new ELSE d.rm[j]
  BY <1>1, <1>3 DEF DispatcherOK, Dispatcher, Symbol
<1> QED
  BY <1>2, <1>4 DEF NoNewEntry, e

-----------------------------------------------------------------------------
(* Real-time data under one symbol.  The broker's streams of the data have *)
(* that symbol, whoever asked first, so that any listed entry finds one.   *)
RelInv ==
  /\ TypeInv
  /\ RelStreamServed
  /\ \A x \in streams : x.type = "RT_REQ_REL_DATA" => x.symbol \in Ticker

Rel == "RT_REQ_REL_DATA"

(* A step that adds no entry and ends no stream of real-time data. *)
LEMMA RelKept ==
  ASSUME RelInv, NoNewEntry(disp, disp'),
         \A x \in streams : x.type = Rel => x \in streams',
         \A x \in streams' : x.type = Rel => x \in streams
  PROVE  /\ RelStreamServed'
         /\ \A x \in streams' : x.type = Rel => x.symbol \in Ticker
<1>1. NoReq.type # Rel
  BY DEF NoReq, Rel
<1> QED
  BY <1>1 DEF RelInv, RelStreamServed, NoNewEntry, Rel

LEMMA RelRequest ==
  ASSUME RelInv, NEW s \in Subscriber, RequestStep(s), \A y, z \in Ticker : y = z
  PROVE  /\ RelStreamServed'
         /\ \A x \in streams' : x.type = Rel => x.symbol \in Ticker
<1>1. DispatcherOK(disp) /\ Ticker \subseteq Symbol
  BY DEF RelInv, TypeInv, RegistrationInv, Symbol
<1>2. ASSUME NEW r, NEW y \in Symbol, CanRequest(s, r.type), r.type # Rel,
             disp' = Subscribe(disp, s, y, r),
             streams' \in {streams, brokerRequest(streams, r, y)}
      PROVE  /\ RelStreamServed'
             /\ \A x \in streams' : x.type = Rel => x.symbol \in Ticker
  <2>1. /\ \A x \in streams : x \in streams'
        /\ \A x \in streams' : x.type = Rel => x \in streams
    BY <1>2 DEF brokerRequest
  <2>2. \A i \in disp'.list, z \in Ticker :
           \/ disp'.rm[i].ticker[z] = r
           \/ disp'.rm[i].ticker[z] = NoReq
           \/ i \in disp.list /\ disp'.rm[i].ticker[z] = disp.rm[i].ticker[z]
    BY <1>1, <1>2, SubscribeEntries DEF CanRequest
  <2>3. NoReq.type # Rel
    BY DEF NoReq, Rel
  <2>4. RelStreamServed'
    BY <1>2, <2>1, <2>2, <2>3 DEF RelInv, RelStreamServed, Rel
  <2> QED
    BY <2>1, <2>4 DEF RelInv, Rel
<1>3. ASSUME NEW y \in Ticker, NEW t, requestFor(s, y, t), t # Rel
      PROVE  /\ RelStreamServed'
             /\ \A x \in streams' : x.type = Rel => x.symbol \in Ticker
  BY <1>1, <1>2, <1>3 DEF requestFor, subscribeAndRequest
<1>4. ASSUME NEW y \in Ticker, reqestRealTimeData(s, y)
      PROVE  /\ RelStreamServed'
             /\ \A x \in streams' : x.type = Rel => x.symbol \in Ticker
  <2> DEFINE r == [id |-> chooseId(s, y, Rel), type |-> Rel]
             new == [type |-> Rel, id |-> r.id, symbol |-> y, sent |-> FALSE]
  <2>1. /\ CanRequest(s, Rel) /\ disp' = Subscribe(disp, s, y, r)
        /\ streams' = brokerRequest(streams, r, y)
    BY <1>4 DEF reqestRealTimeData, requestFor, subscribeAndRequest, Rel
  <2>2. r.type = Rel
    OBVIOUS
  <2>3. /\ streams \subseteq streams' /\ streams' \subseteq streams \cup {new}
        /\ (\E x \in streams : x.type = Rel /\ x.id = r.id) \/ new \in streams'
    BY <2>1 DEF brokerRequest
  <2>4. \A i \in disp'.list, z \in Ticker :
           \/ disp'.rm[i].ticker[z] = r
           \/ disp'.rm[i].ticker[z] = NoReq
           \/ i \in disp.list /\ disp'.rm[i].ticker[z] = disp.rm[i].ticker[z]
    BY <1>1, <2>1, SubscribeEntries DEF CanRequest
  <2>5. new.type = Rel /\ new.id = r.id /\ new.symbol = y
    OBVIOUS
  <2> HIDE DEF r, new
  <2>6. \A x \in streams' : x.type = Rel => x.symbol \in Ticker
    BY <2>3, <2>5 DEF RelInv, Rel
  <2>7. \E x \in streams' : x.type = Rel /\ x.id = r.id
    BY <2>3, <2>5
  <2>8. NoReq.type # Rel
    BY DEF NoReq, Rel
  <2>9. ASSUME NEW i \in disp'.list, NEW z \in Ticker, disp'.rm[i].ticker[z].type = Rel
        PROVE  \E x \in streams' : x.type = Rel /\ x.symbol = z
                                   /\ x.id = disp'.rm[i].ticker[z].id
    <3>1. CASE disp'.rm[i].ticker[z] = r
      BY <2>6, <2>7, <3>1
    <3>2. CASE i \in disp.list /\ disp'.rm[i].ticker[z] = disp.rm[i].ticker[z]
      BY <2>3, <2>9, <3>2 DEF RelInv, RelStreamServed, Rel
    <3> QED
      BY <2>4, <2>8, <2>9, <3>1, <3>2
  <2> QED
    BY <2>6, <2>9 DEF RelStreamServed, Rel
<1>5. ASSUME NEW t \in FixedType, CanRequest(s, t),
             disp' = Subscribe(disp, s, fixedSymbol[t], fixedRequest(t)),
             streams' \in {streams, brokerRequest(streams, fixedRequest(t), fixedSymbol[t])}
      PROVE  /\ RelStreamServed'
             /\ \A x \in streams' : x.type = Rel => x.symbol \in Ticker
  <2>1. fixedSymbol[t] \in Symbol /\ fixedRequest(t).type = t /\ t # Rel
    BY TypesAndSymbols DEF fixedRequest, Rel, FixedType
  <2> QED
    BY <1>2, <1>5, <2>1
<1>6. CASE \/ requestPosition(s) \/ requestResetSubscription(s)
           \/ requestErrorNotificationSubscription(s)
           \/ requestOrderStatusSubscription(s) \/ bpReqAccountSummary(s)
  <2>1. \E t \in FixedType :
          /\ CanRequest(s, t)
          /\ disp' = Subscribe(disp, s, fixedSymbol[t], fixedRequest(t))
          /\ streams' \in {streams, brokerRequest(streams, fixedRequest(t), fixedSymbol[t])}
    BY <1>6 DEF requestPosition, requestResetSubscription,
                requestErrorNotificationSubscription, requestOrderStatusSubscription,
                bpReqAccountSummary, subscribeOnly, subscribeAndRequest, fixedSymbol,
                FixedType
  <2> QED
    BY <1>5, <2>1
<1>7. ASSUME NEW y \in Ticker,
             \/ requestRealTimeBars(s, y)
             \/ requestTickByTickData(s, y) \/ requestCalculateOptionPrice(s, y)
             \/ reqestHistoricalData(s, y) \/ requestHistoricalTicksData(s, y)
      PROVE  /\ RelStreamServed'
             /\ \A x \in streams' : x.type = Rel => x.symbol \in Ticker
  BY <1>3, <1>7 DEF requestRealTimeBars, requestTickByTickData,
                    requestCalculateOptionPrice, reqestHistoricalData,
                    requestHistoricalTicksData, Rel
<1> QED
  BY <1>4, <1>6, <1>7 DEF RequestStep

(* The broker is told of a cancel only if no listed item has the request   *)
(* under the symbol any more; with one symbol none has it at all.          *)
LEMMA RelCancel ==
  ASSUME RelInv, NEW s \in Subscriber, NEW y \in Ticker, cancelRealTimeData(s, y),
         \A w, z \in Ticker : w = z
  PROVE  /\ RelStreamServed'
         /\ \A x \in streams' : x.type = Rel => x.symbol \in Ticker
<1> DEFINE r == requestOf(s, y, Rel)
           d == Unsubscribe(disp, s, y, r)
<1>1. /\ r # NoReq /\ disp' = Release(d, sender.held)
      /\ streams' = IF isReqIdEmpty(d, y, r) THEN brokerCancel(streams, r) ELSE streams
  BY DEF cancelRealTimeData, Rel
<1>2. DispatcherOK(disp) /\ y \in Symbol /\ Rel \in ReqType
  BY DEF Symbol, ReqType, KeyedType, Rel, RelInv, TypeInv, RegistrationInv
<1>3. r \in Request /\ r.type = Rel /\ \A i \in itemsOf(disp, s) : disp.rm[i].ticker[y] = r
  BY <1>1, <1>2, FoundRequest DEF requestOf, getReqData
<1> HIDE DEF r
<1>4. DispatcherOK(d)
  BY <1>2, <1>3, UnsubscribeOK
<1>5. NoNewEntry(disp, d)
  BY <1>2, UnsubscribeEntries
<1> HIDE DEF d
<1>6. NoNewEntry(d, disp') /\ disp'.list \subseteq d.list /\ DispatcherOK(disp')
  BY <1>1, <1>4, ReleaseEntries, ReleaseOK
<1>7. NoNewEntry(disp, disp')
  BY <1>5, <1>6, NoNewTransitive
<1>8. streams' \subseteq streams
  BY <1>1, StreamsCancelled
<1>9. CASE ~isReqIdEmpty(d, y, r)
  BY <1>1, <1>7, <1>9, RelKept
<1>10. CASE isReqIdEmpty(d, y, r)
  <2>1. \A x \in streams : ~(x.type = Rel /\ x.id = r.id) => x \in streams'
    BY <1>1, <1>3, <1>10 DEF brokerCancel
  <2>2. NoReq.type # Rel
    BY DEF NoReq, Rel
  <2>3. ASSUME NEW i \in disp'.list, NEW z \in Ticker, disp'.rm[i].ticker[z].type = Rel
        PROVE  \E x \in streams' : x.type = Rel /\ x.symbol = z
                                   /\ x.id = disp'.rm[i].ticker[z].id
    <3> DEFINE q == disp'.rm[i].ticker[z]
    <3>1. q # NoReq
      BY <2>2, <2>3
    <3>2. i \in d.list /\ q = d.rm[i].ticker[z]
      BY <1>6, <3>1 DEF NoNewEntry
    <3>3. q # r
      BY <1>10, <3>2 DEF isReqIdEmpty
    <3>4. i \in disp.list /\ q = disp.rm[i].ticker[z]
      BY <1>7, <3>1 DEF NoNewEntry
    <3>5. q \in Request
      BY <1>2, <3>1, <3>4 DEF DispatcherOK, Dispatcher, RegistryOK, Registry, Symbol
    <3>6. q.type = Rel
      BY <2>3
    <3> HIDE DEF q
    <3>7. q.id # r.id
      BY <1>3, <3>3, <3>5, <3>6 DEF Request
    <3>8. \E x \in streams : x.type = Rel /\ x.symbol = z /\ x.id = q.id
      BY <3>4, <3>6 DEF RelInv, RelStreamServed, Rel
    <3> QED
      BY <2>1, <3>7, <3>8 DEF q
  <2> QED
    BY <1>8, <2>3 DEF RelStreamServed, RelInv, Rel
<1> QED
  BY <1>9, <1>10

LEMMA RelCancels ==
  ASSUME RelInv, NEW s \in Subscriber, CancelStep(s), \A y, z \in Ticker : y = z
  PROVE  /\ RelStreamServed'
         /\ \A x \in streams' : x.type = Rel => x.symbol \in Ticker
<1>1. DispatcherOK(disp)
  BY DEF RelInv, TypeInv, RegistrationInv
<1>2. ASSUME NEW y \in Symbol, NEW t \in ReqType \ {Rel},
             cancelFor(s, y, t) \/ (t \in FixedType /\ unsubscribeOnly(s, t))
      PROVE  /\ RelStreamServed'
             /\ \A x \in streams' : x.type = Rel => x.symbol \in Ticker
  <2>1. PICK z \in Symbol :
          /\ requestOf(s, z, t) # NoReq
          /\ disp' = Release(Unsubscribe(disp, s, NoSymbol, requestOf(s, z, t)), sender.held)
          /\ streams' \in {streams, brokerCancel(streams, requestOf(s, z, t))}
    <3>1. CASE cancelFor(s, y, t)
      BY <3>1 DEF cancelFor
    <3>2. CASE t \in FixedType /\ unsubscribeOnly(s, t)
      BY <3>2, TypesAndSymbols DEF unsubscribeOnly
    <3> QED
      BY <1>2, <3>1, <3>2
  <2> DEFINE r == requestOf(s, z, t)
             d == Unsubscribe(disp, s, NoSymbol, r)
  <2>2. r \in Request /\ r.type # Rel
    BY <1>1, <2>1, FoundRequest DEF requestOf, getReqData
  <2> HIDE DEF r
  <2>3. DispatcherOK(d) /\ NoNewEntry(disp, d)
    BY <1>1, <2>2, UnsubscribeOK, UnsubscribeEntries
  <2> HIDE DEF d
  <2>4. NoNewEntry(d, disp')
    BY <2>1, <2>3, ReleaseEntries DEF d, r
  <2>5. NoNewEntry(disp, disp')
    BY <2>3, <2>4, NoNewTransitive
  <2>6. streams' \in {streams, brokerCancel(streams, r)}
    BY <2>1 DEF r
  <2>7. /\ \A x \in streams : x.type = Rel => x \in streams'
        /\ \A x \in streams' : x.type = Rel => x \in streams
    BY <2>2, <2>6 DEF brokerCancel
  <2> QED
    BY <2>5, <2>7, RelKept
<1>3. CASE bpCancelAccountSummary(s)
  <2> DEFINE t  == "RT_REQ_ACCOUNT_SUMMURY"
             r  == requestOf(s, "AccSum", t)
             d  == IF r # NoReq THEN Unsubscribe(disp, s, NoSymbol, r) ELSE disp
             st == IF r # NoReq THEN brokerCancel(streams, r) ELSE streams
             e  == Subscribe(d, s, "AccSum", fixedRequest(t))
  <2>1. /\ t \in FixedType /\ t \in ReqType /\ fixedSymbol[t] = "AccSum"
        /\ "AccSum" \in Symbol /\ "AccSum" \notin Ticker
    BY TickerAssumption DEF TickerAssumption, FixedType, ReqType, fixedSymbol, Symbol,
                            FixedSymbol
  <2>2. /\ DispatcherOK(d) /\ NoNewEntry(disp, d) /\ d.owner = disp.owner
        /\ \A x \in streams : x.type = Rel => x \in st
        /\ \A x \in st : x.type = Rel => x \in streams
    <3>1. CASE r # NoReq
      <4>1. r \in Request /\ r.type = t
        BY <1>1, <2>1, <3>1, FoundRequest DEF requestOf, getReqData
      <4>2. DispatcherOK(d) /\ NoNewEntry(disp, d) /\ d.owner = disp.owner
        BY <1>1, <3>1, <4>1, UnsubscribeOK, UnsubscribeEntries
      <4>3. st = brokerCancel(streams, r)
        BY <3>1
      <4> HIDE DEF st, d, r
      <4> QED
        BY <4>1, <4>2, <4>3 DEF brokerCancel, Rel
    <3>2. CASE r = NoReq
      <4>1. d = disp /\ st = streams
        BY <3>2
      <4> QED
        BY <1>1, <4>1 DEF NoNewEntry
    <3> QED
      BY <3>1, <3>2
  <2>3. CASE hasItem(disp, s)
    <3>1. /\ disp' = Release(e, sender.held)
          /\ streams' = brokerRequest(st, fixedRequest(t), "AccSum")
          /\ freeItems(disp) # {}
      BY <1>3, <2>3 DEF bpCancelAccountSummary
    <3> HIDE DEF d, st, r
    <3>2. freeItems(d) # {}
      BY <2>2, <3>1 DEF freeItems
    <3>3. NoNewEntry(d, e)
      BY <2>1, <2>2, <3>2, SubscribeEntries DEF NoNewEntry
    <3>4. RegistryOK(IF hasItem(d, s) THEN registryOf(d, s) ELSE EmptyRegistry)
      BY <2>2, TheItem, EmptyOK DEF DispatcherOK, registryOf
    <3>5. Registrable(IF hasItem(d, s) THEN registryOf(d, s) ELSE EmptyRegistry,
                      "AccSum", fixedRequest(t))
      BY <2>1, <3>4, FixedRegistrable DEF fixedRequest
    <3>6. DispatcherOK(e)
      BY <2>2, <3>2, <3>5, SubscribeOK
    <3> HIDE DEF e
    <3>7. NoNewEntry(e, disp')
      BY <3>1, <3>6, ReleaseEntries
    <3>8. NoNewEntry(disp, disp')
      BY <2>2, <3>3, <3>7, NoNewTransitive
    <3>9. fixedRequest(t).type # Rel
      BY DEF fixedRequest, Rel
    <3>10. /\ \A x \in streams : x.type = Rel => x \in streams'
           /\ \A x \in streams' : x.type = Rel => x \in streams
      BY <2>2, <3>1, <3>9 DEF brokerRequest
    <3> QED
      BY <3>8, <3>10, RelKept
  <2>4. CASE ~hasItem(disp, s)
    <3>1. disp' = disp /\ streams' = streams
      BY <1>3, <2>4 DEF bpCancelAccountSummary
    <3>2. NoNewEntry(disp, disp')
      BY <3>1 DEF NoNewEntry
    <3> QED
      BY <3>1, <3>2, RelKept
  <2> QED
    BY <2>3, <2>4
<1>4. ASSUME NEW y \in Ticker,
             \/ cancelRealTimeBars(s, y) \/ cancelTickByTickData(s, y)
             \/ cancelCalculateOptionPrice(s, y)
      PROVE  /\ RelStreamServed'
             /\ \A x \in streams' : x.type = Rel => x.symbol \in Ticker
  <2>1. \E t \in KeyedType \ {Rel} : cancelFor(s, y, t)
    BY <1>4 DEF cancelRealTimeBars, cancelTickByTickData, cancelCalculateOptionPrice,
                KeyedType, Rel
  <2> QED
    BY <1>2, <2>1, TypesAndSymbols
<1>5. CASE \/ cancelPosition(s) \/ cancelResetSubscription(s)
           \/ cancelErrorNotificationSubscription(s)
           \/ cancelOrderStatusubscription(s)
  <2>1. \E t \in FixedType \ {Rel} :
          cancelFor(s, fixedSymbol[t], t) \/ unsubscribeOnly(s, t)
    BY <1>5 DEF cancelPosition, cancelResetSubscription,
                cancelErrorNotificationSubscription, cancelOrderStatusubscription,
                fixedSymbol, FixedType, Rel
  <2> QED
    BY <1>2, <2>1, TypesAndSymbols
<1> QED
  BY <1>3, <1>4, <1>5, RelCancel DEF CancelStep

LEMMA RelDestroy ==
  ASSUME RelInv, NEW s \in Subscriber, Destroy(s)
  PROVE  /\ RelStreamServed'
         /\ \A x \in streams' : x.type = Rel => x.symbol \in Ticker
<1> DEFINE d == UnsubscribeAllItemsOfSubscriber(disp, s)
<1>1. DispatcherOK(disp)
  BY DEF RelInv, TypeInv, RegistrationInv
<1>2. DispatcherOK(d) /\ NoNewEntry(disp, d)
  BY <1>1, UnsubscribeAllOK, UnsubscribeAllEntries
<1>3. disp' = Release(d, sender.held) /\ streams' = streams
  BY DEF Destroy
<1> HIDE DEF d
<1>4. NoNewEntry(d, disp')
  BY <1>2, <1>3, ReleaseEntries
<1>5. NoNewEntry(disp, disp')
  BY <1>2, <1>4, NoNewTransitive
<1> QED
  BY <1>3, <1>5, RelKept

LEMMA RelWorker ==
  ASSUME RelInv, WorkerStep
  PROVE  /\ RelStreamServed'
         /\ \A x \in streams' : x.type = Rel => x.symbol \in Ticker
<1>1. DispatcherOK(disp) /\ alive \subseteq Subscriber
  BY DEF RelInv, TypeInv, RegistrationInv
<1>2. streams' = streams
  BY DEF WorkerStep, SendMessageToSubscribers, TestItem, MessageHandler, getIdFromRM,
         removeOldHistoricalRequest, EndSend
<1>3. NoNewEntry(disp, disp')
  <2>1. CASE SendMessageToSubscribers \/ \E i \in Item : TestItem(i)
    BY <2>1 DEF SendMessageToSubscribers, TestItem, NoNewEntry
  <2>2. ASSUME NEW i \in Item, MessageHandler(i) \/ getIdFromRM(i)
        PROVE  NoNewEntry(disp, disp')
    BY <2>2 DEF MessageHandler, getIdFromRM, NoNewEntry
  <2>4. ASSUME NEW i \in Item, removeOldHistoricalRequest(i) PROVE NoNewEntry(disp, disp')
    <3>0. PICK s : s = disp.owner[i]
      OBVIOUS
    <3>1. disp' = IF hasItem(disp, s) THEN withoutRequest(disp, s, sender.symbol) ELSE disp
      BY <2>4, <3>0 DEF removeOldHistoricalRequest
    <3>2. CASE ~hasItem(disp, s)
      BY <3>1, <3>2 DEF NoNewEntry
    <3>3. CASE hasItem(disp, s)
      <4>1. s \in Subscriber
        BY <1>1, <3>3 DEF hasItem, itemsOf, DispatcherOK, Dispatcher
      <4> QED
        BY <1>1, <3>1, <3>3, <4>1, WithoutRequestEntries
    <3> QED
      BY <3>2, <3>3
  <2>3. CASE EndSend
    BY <1>1, <2>3, ReleaseEntries DEF EndSend
  <2> QED
    BY <2>1, <2>2, <2>3, <2>4 DEF WorkerStep
<1> QED
  BY <1>2, <1>3, RelKept

LEMMA RelBroker ==
  ASSUME RelInv, BrokerStep
  PROVE  /\ RelStreamServed'
         /\ \A x \in streams' : x.type = Rel => x.symbol \in Ticker
<1>1. disp' = disp
  BY DEF BrokerStep, Answer, AnswerBar, AnswerEnd, AnswerError, Notify, Arrives
<1>2. NoNewEntry(disp, disp')
  BY <1>1 DEF NoNewEntry
<1>3. /\ \A x \in streams : x.type = Rel => x \in streams'
      /\ \A x \in streams' : x.type = Rel => x \in streams
  <2>1. ASSUME NEW x \in streams,
               Answer(x) \/ AnswerBar(x) \/ AnswerEnd(x) \/ AnswerError(x)
        PROVE  x.type = Rel => streams' = streams
    BY <2>1 DEF Answer, AnswerBar, AnswerEnd, AnswerError, Rel
  <2>2. ASSUME NEW x \in streams,
               Answer(x) \/ AnswerBar(x) \/ AnswerEnd(x) \/ AnswerError(x), x.type # Rel
        PROVE  /\ \A z \in streams : z.type = Rel => z \in streams'
               /\ \A z \in streams' : z.type = Rel => z \in streams
    <3>1. x \in Stream
      BY DEF RelInv, TypeInv, TypeOK
    <3>2. [x EXCEPT !.sent = TRUE].type # Rel
      BY <2>2, <3>1 DEF Stream
    <3> QED
      BY <2>2, <3>2 DEF Answer, AnswerBar, AnswerEnd, AnswerError
  <2> QED
    BY <2>1, <2>2 DEF BrokerStep, Notify
<1> QED
  BY <1>2, <1>3, RelKept

(* A subscriber's real-time data is served as long as it is registered: no *)
(* cancel of another subscriber, in whatever order the two requested and   *)
(* cancelled, ends the stream it needs.  The hypothesis is the property's  *)
(* own: all subscribers want the same symbol.                              *)
THEOREM RelServed ==
  ASSUME \A y, z \in Ticker : y = z
  PROVE  Spec => []RelStreamServed
<1>1. Init => RelInv
  BY TypesInit DEF RelInv, Init, RelStreamServed
<1>2. RelInv /\ [Next]_vars => RelInv'
  <2> SUFFICES ASSUME RelInv, [Next]_vars PROVE RelInv'
    OBVIOUS
  <2>1. TypeInv'
    BY TypesStep DEF RelInv
  <2>2. /\ RelStreamServed'
        /\ \A x \in streams' : x.type = Rel => x.symbol \in Ticker
    <3>1. CASE GuiStep
      BY <3>1, RelRequest, RelCancels, RelDestroy DEF GuiStep
    <3>2. CASE UNCHANGED vars
      <4>1. NoNewEntry(disp, disp')
        BY <3>2 DEF vars, NoNewEntry
      <4> QED
        BY <3>2, <4>1, RelKept DEF vars
    <3> QED
      BY <3>1, <3>2, RelWorker, RelBroker DEF Next
  <2> QED
    BY <2>1, <2>2 DEF RelInv, Rel
<1>3. RelInv => RelStreamServed
  BY DEF RelInv
<1> QED
  BY <1>1, <1>2, <1>3, PTL DEF Spec

-----------------------------------------------------------------------------
(* One subscriber that cancels nothing: the answers to its historical      *)
(* requests.  The flight are the messages the worker has not finished: the *)
(* one it sends, at 0, while items are still to be called, then the wire.  *)
historical(k) == [id |-> k, type |-> "RT_HISTORICAL_DATA"]
histOf(m, k) == m.type = "RT_HISTORICAL_DATA" /\ m.id = k

Flying == (IF sender.todo = {} THEN {} ELSE {0}) \cup 1 .. Len(wire)
flight == [p \in Flying |-> IF p = 0 THEN sender.msg ELSE wire[p]]

(* The bars that a bar arriving now is added to. *)
freshBars(h) == IF h.isAvaliable THEN {} ELSE h.bars

(* What the flight fl, the streams st and the history h of the id k may    *)
(* be, given what the registry rm says of k:                               *)
(*   a free id has left nothing behind;                                    *)
(*   nothing of a request comes after its end, which comes at most once;   *)
(*   one stream at most serves it;                                         *)
(*   while a symbol names it, all of this is of that symbol, and its end   *)
(*   finds a bar, in the history or before it in the flight.               *)
AnswerOK(k, rm, fl, st, h) ==
  /\ historical(k) \notin rm.ids =>
       /\ \A p \in DOMAIN fl : ~histOf(fl[p], k)
       /\ \A x \in st : ~histOf(x, k)
       /\ freshBars(h) = {}
  /\ \A p, q \in DOMAIN fl :
       histOf(fl[p], k) /\ histOf(fl[q], k) /\ p < q => ~fl[p].last
  /\ \A p \in DOMAIN fl, x \in st : histOf(fl[p], k) /\ fl[p].last => ~histOf(x, k)
  /\ \A x, z \in st : histOf(x, k) /\ histOf(z, k) => x = z
  /\ \A y \in Symbol : rm.ticker[y] = historical(k) =>
       /\ \A p \in DOMAIN fl : histOf(fl[p], k) => fl[p].symbol = y
       /\ \A x \in st : histOf(x, k) => x.symbol = y
       /\ freshBars(h) \subseteq {y}
       /\ \A p \in DOMAIN fl : histOf(fl[p], k) /\ fl[p].last =>
            freshBars(h) = {y} \/ \E q \in DOMAIN fl : histOf(fl[q], k) /\ q < p
       /\ \A x \in st : histOf(x, k) /\ x.sent =>
            freshBars(h) = {y} \/ \E q \in DOMAIN fl : histOf(fl[q], k)

(* Nothing is cancelled or destroyed, so that no item ever leaves the list. *)
ItemsStay ==
  /\ \A i \in Item : disp.owner[i] # Nobody => i \in disp.list
  /\ sender.held \subseteq disp.list
  /\ sender.todo \subseteq sender.held
  /\ sender.called \subseteq sender.todo
  /\ alive = Subscriber

AnswersOK ==
  \A s \in Subscriber, k \in PoolId :
    AnswerOK(k, current(s), flight, streams, history[s][k])

(* The request that the worker has looked up still has its symbol; an id   *)
(* it has looked up as well is the one its answer, now at its end, is of.  *)
Handling ==
  /\ sender.called = {} => sender.at = "start"
  /\ \A i \in sender.called, s \in Subscriber :
       sender.at # "start" /\ disp.owner[i] = s =>
         /\ sender.msg.type = "RT_HISTORICAL_DATA" /\ sender.symbol \in Symbol
         /\ current(s).ticker[sender.symbol] = historical(sender.msg.id)
         /\ sender.at = "id" => sender.msg.last /\ sender.id = sender.msg.id

HistoryInv == TypeInv /\ ItemsStay /\ ~crashed /\ AnswersOK /\ Handling

OneSubscriber == \A s, t \in Subscriber : s = t

-----------------------------------------------------------------------------
(* A registry that lists k as before and names it by no new symbol. *)
LEMMA AnswerRegistry ==
  ASSUME NEW k, NEW rm, NEW new, NEW fl, NEW st, NEW h, AnswerOK(k, rm, fl, st, h),
         historical(k) \in new.ids <=> historical(k) \in rm.ids,
         \A y \in Symbol : new.ticker[y] = historical(k) => rm.ticker[y] = historical(k)
  PROVE  AnswerOK(k, new, fl, st, h)
  BY DEF AnswerOK

(* Streams of other requests come and go. *)
LEMMA AnswerStreams ==
  ASSUME NEW k, NEW rm, NEW fl, NEW st, NEW new, NEW h, AnswerOK(k, rm, fl, st, h),
         \A x \in new : histOf(x, k) => x \in st
  PROVE  AnswerOK(k, rm, fl, new, h)
  BY DEF AnswerOK

(* A message leaves the flight that is not of k, or when no symbol names k. *)
LEMMA AnswerDropped ==
  ASSUME NEW k, NEW rm, NEW fl, NEW new, NEW st, NEW h, AnswerOK(k, rm, fl, st, h),
         DOMAIN new = DOMAIN fl \ {0}, \A p \in DOMAIN new : new[p] = fl[p],
         \/ 0 \in DOMAIN fl => ~histOf(fl[0], k)
         \/ \A y \in Symbol : rm.ticker[y] # historical(k)
  PROVE  AnswerOK(k, rm, new, st, h)
<1>1. CASE 0 \in DOMAIN fl => ~histOf(fl[0], k)
  BY <1>1 DEF AnswerOK
<1>2. CASE \A y \in Symbol : rm.ticker[y] # historical(k)
  BY <1>2 DEF AnswerOK
<1> QED
  BY <1>1, <1>2

(* The flight moves on by one. *)
LEMMA AnswerShifted ==
  ASSUME NEW k, NEW rm, NEW fl, NEW new, NEW st, NEW h, AnswerOK(k, rm, fl, st, h),
         DOMAIN fl \subseteq Int, DOMAIN new \subseteq Int,
         \A p \in DOMAIN new : p + 1 \in DOMAIN fl /\ new[p] = fl[p + 1],
         \A p \in DOMAIN fl : histOf(fl[p], k) => p - 1 \in DOMAIN new
  PROVE  AnswerOK(k, rm, new, st, h)
<1>0. \A p \in DOMAIN fl : histOf(fl[p], k) => p - 1 \in DOMAIN new /\ new[p - 1] = fl[p]
  <2> SUFFICES ASSUME NEW p \in DOMAIN fl, histOf(fl[p], k)
               PROVE  p - 1 \in DOMAIN new /\ new[p - 1] = fl[p]
    OBVIOUS
  <2>1. p - 1 \in DOMAIN new /\ (p - 1) + 1 = p
    OBVIOUS
  <2> QED
    BY <2>1
<1>1. historical(k) \notin rm.ids =>
       /\ \A p \in DOMAIN new : ~histOf(new[p], k)
       /\ \A x \in st : ~histOf(x, k)
       /\ freshBars(h) = {}
  BY DEF AnswerOK
<1>2. ASSUME NEW p \in DOMAIN new, NEW q \in DOMAIN new,
             histOf(new[p], k), histOf(new[q], k), p < q
      PROVE  ~new[p].last
  <2>1. p + 1 \in DOMAIN fl /\ q + 1 \in DOMAIN fl /\ p + 1 < q + 1
    BY <1>2
  <2> QED
    BY <1>2, <2>1 DEF AnswerOK
<1>3. \A p \in DOMAIN new, x \in st : histOf(new[p], k) /\ new[p].last => ~histOf(x, k)
  BY DEF AnswerOK
<1>4. ASSUME NEW y \in Symbol, rm.ticker[y] = historical(k), NEW p \in DOMAIN new,
             histOf(new[p], k), new[p].last
      PROVE  freshBars(h) = {y} \/ \E q \in DOMAIN new : histOf(new[q], k) /\ q < p
  <2>1. \/ freshBars(h) = {y}
        \/ \E q \in DOMAIN fl : histOf(fl[q], k) /\ q < p + 1
    BY <1>4 DEF AnswerOK
  <2>2. ASSUME NEW q \in DOMAIN fl, histOf(fl[q], k), q < p + 1
        PROVE  q - 1 \in DOMAIN new /\ histOf(new[q - 1], k) /\ q - 1 < p
    BY <1>0, <2>2
  <2> QED
    BY <2>1, <2>2
<1>5. ASSUME NEW y \in Symbol, rm.ticker[y] = historical(k)
      PROVE  /\ \A p \in DOMAIN new : histOf(new[p], k) => new[p].symbol = y
             /\ \A x \in st : histOf(x, k) => x.symbol = y
             /\ freshBars(h) \subseteq {y}
  BY <1>5 DEF AnswerOK
<1>6. ASSUME NEW y \in Symbol, rm.ticker[y] = historical(k), NEW x \in st, histOf(x, k), x.sent
      PROVE  freshBars(h) = {y} \/ \E q \in DOMAIN new : histOf(new[q], k)
  BY <1>0, <1>6 DEF AnswerOK
<1>7. \A x, z \in st : histOf(x, k) /\ histOf(z, k) => x = z
  BY DEF AnswerOK
<1> QED
  BY <1>1, <1>2, <1>3, <1>4, <1>5, <1>6, <1>7 DEF AnswerOK

(* A message m arrives behind the flight.  If it is one of k, it is of a   *)
(* stream, which stays, marked, after a bar, and goes with the end.        *)
LEMMA AnswerArrived ==
  ASSUME NEW k, NEW rm, NEW fl, NEW fl2, NEW st, NEW st2, NEW h, AnswerOK(k, rm, fl, st, h),
         DOMAIN fl \subseteq Int, NEW n \in Int, \A p \in DOMAIN fl : p < n,
         DOMAIN fl2 = DOMAIN fl \cup {n}, \A p \in DOMAIN fl : fl2[p] = fl[p],
         \/ /\ ~histOf(fl2[n], k)
            /\ \A x \in st2 : histOf(x, k) => x \in st
         \/ \E x \in st :
              /\ histOf(x, k) /\ histOf(fl2[n], k) /\ fl2[n].symbol = x.symbol
              /\ \/ /\ fl2[n].last /\ x.sent
                    /\ \A z \in st2 : z \in st /\ z # x
                 \/ /\ ~fl2[n].last
                    /\ \A z \in st2 : (z \in st /\ z # x) \/ z = [x EXCEPT !.sent = TRUE]
                    /\ [x EXCEPT !.sent = TRUE].symbol = x.symbol
  PROVE  AnswerOK(k, rm, fl2, st2, h)
<1>1. CASE ~histOf(fl2[n], k) /\ \A x \in st2 : histOf(x, k) => x \in st
  <2>1. \A p \in DOMAIN fl2 : histOf(fl2[p], k) => p \in DOMAIN fl /\ fl2[p] = fl[p]
    BY <1>1
  <2> QED
    BY <1>1, <2>1 DEF AnswerOK
<1>2. ASSUME NEW x \in st, histOf(x, k), histOf(fl2[n], k), fl2[n].symbol = x.symbol,
             \/ /\ fl2[n].last /\ x.sent
                /\ \A z \in st2 : z \in st /\ z # x
             \/ /\ ~fl2[n].last
                /\ \A z \in st2 : (z \in st /\ z # x) \/ z = [x EXCEPT !.sent = TRUE]
                /\ [x EXCEPT !.sent = TRUE].symbol = x.symbol
      PROVE  AnswerOK(k, rm, fl2, st2, h)
  <2> DEFINE x1 == [x EXCEPT !.sent = TRUE]
  <2>1. historical(k) \in rm.ids
    BY <1>2 DEF AnswerOK
  <2>2. \A p \in DOMAIN fl : histOf(fl[p], k) => ~fl[p].last
    BY <1>2 DEF AnswerOK
  <2>3. \A z \in st : histOf(z, k) => z = x
    BY <1>2 DEF AnswerOK
  <2>4. fl2[n].last => \A z \in st2 : ~histOf(z, k)
    BY <1>2, <2>3
  <2>5. \A z \in st2 : histOf(z, k) => z = x1 /\ ~fl2[n].last
    BY <1>2, <2>3
  <2>6. ~fl2[n].last => x1.symbol = x.symbol
    BY <1>2
  <2>7. fl2[n].last => x.sent
    BY <1>2
  <2> HIDE DEF x1
  <2>8. ASSUME NEW p \in DOMAIN fl2, NEW q \in DOMAIN fl2,
               histOf(fl2[p], k), histOf(fl2[q], k), p < q
        PROVE  ~fl2[p].last
    <3>1. p # n
      BY <2>8
    <3> QED
      BY <2>2, <2>8, <3>1
  <2>9. \A p \in DOMAIN fl2, z \in st2 : histOf(fl2[p], k) /\ fl2[p].last => ~histOf(z, k)
    BY <2>2, <2>4
  <2>10. ASSUME NEW y \in Symbol, rm.ticker[y] = historical(k)
         PROVE  /\ \A p \in DOMAIN fl2 : histOf(fl2[p], k) => fl2[p].symbol = y
                /\ \A z \in st2 : histOf(z, k) => z.symbol = y
                /\ freshBars(h) \subseteq {y}
                /\ \A p \in DOMAIN fl2 : histOf(fl2[p], k) /\ fl2[p].last =>
                     freshBars(h) = {y} \/ \E q \in DOMAIN fl2 : histOf(fl2[q], k) /\ q < p
                /\ \A z \in st2 : histOf(z, k) /\ z.sent =>
                     freshBars(h) = {y} \/ \E q \in DOMAIN fl2 : histOf(fl2[q], k)
    <3>1. /\ x.symbol = y /\ freshBars(h) \subseteq {y}
          /\ \A p \in DOMAIN fl : histOf(fl[p], k) => fl[p].symbol = y
          /\ x.sent => freshBars(h) = {y} \/ \E q \in DOMAIN fl : histOf(fl[q], k)
      BY <1>2, <2>10 DEF AnswerOK
    <3>2. \A p \in DOMAIN fl2 : histOf(fl2[p], k) => fl2[p].symbol = y
      BY <1>2, <3>1
    <3>3. \A z \in st2 : histOf(z, k) => z.symbol = y
      BY <2>5, <2>6, <3>1
    <3>4. ASSUME NEW p \in DOMAIN fl2, histOf(fl2[p], k), fl2[p].last
          PROVE  freshBars(h) = {y} \/ \E q \in DOMAIN fl2 : histOf(fl2[q], k) /\ q < p
      <4>1. p = n
        BY <2>2, <3>4
      <4>2. freshBars(h) = {y} \/ \E q \in DOMAIN fl : histOf(fl[q], k)
        BY <2>7, <3>1, <3>4, <4>1
      <4>3. \A q \in DOMAIN fl : histOf(fl[q], k) =>
              q \in DOMAIN fl2 /\ histOf(fl2[q], k) /\ q < p
        BY <4>1
      <4> QED
        BY <4>2, <4>3
    <3>5. ASSUME NEW z \in st2, histOf(z, k)
          PROVE  \E q \in DOMAIN fl2 : histOf(fl2[q], k)
      BY <1>2
    <3> QED
      BY <3>1, <3>2, <3>3, <3>4, <3>5
  <2>11. \A z, w \in st2 : histOf(z, k) /\ histOf(w, k) => z = w
    BY <2>5
  <2> QED
    BY <2>1, <2>8, <2>9, <2>10, <2>11 DEF AnswerOK
<1> QED
  BY <1>1, <1>2

(* A free id is requested for y. *)
LEMMA AnswerRequested ==
  ASSUME NEW k, NEW rm, NEW new, NEW fl, NEW st, NEW st2, NEW h, AnswerOK(k, rm, fl, st, h),
         historical(k) \notin rm.ids, historical(k) \in new.ids, NEW y,
         \A z \in Symbol : new.ticker[z] = historical(k) => z = y,
         \A x \in st2 : x \in st \/ (x.symbol = y /\ ~x.sent),
         \A x, z \in st2 : x \notin st /\ z \notin st => x = z
  PROVE  AnswerOK(k, new, fl, st2, h)
<1>1. /\ \A p \in DOMAIN fl : ~histOf(fl[p], k)
      /\ \A x \in st : ~histOf(x, k)
      /\ freshBars(h) = {}
  BY DEF AnswerOK
<1>2. \A x \in st2 : histOf(x, k) => x \notin st /\ x.symbol = y /\ ~x.sent
  BY <1>1
<1> QED
  BY <1>1, <1>2 DEF AnswerOK

(* The end finds the bars of its symbol. *)
LEMMA EndFindsBar ==
  ASSUME NEW k, NEW rm, NEW fl, NEW st, NEW h, AnswerOK(k, rm, fl, st, h),
         DOMAIN fl \subseteq Nat, 0 \in DOMAIN fl, histOf(fl[0], k), fl[0].last,
         NEW y \in Symbol, rm.ticker[y] = historical(k)
  PROVE  freshBars(h) = {y}
<1>1. \A q \in DOMAIN fl : ~(q < 0)
  OBVIOUS
<1> QED
  BY <1>1 DEF AnswerOK

(* A bar is taken to the bars of its symbol. *)
LEMMA AnswerBarTaken ==
  ASSUME NEW k, NEW rm, NEW fl, NEW new, NEW st, NEW h, NEW h2, AnswerOK(k, rm, fl, st, h),
         DOMAIN new = DOMAIN fl \ {0}, \A p \in DOMAIN new : new[p] = fl[p],
         0 \in DOMAIN fl, histOf(fl[0], k),
         NEW y \in Symbol, rm.ticker[y] = historical(k), freshBars(h2) = {y},
         \A z \in Symbol : rm.ticker[z] = historical(k) => z = y
  PROVE  AnswerOK(k, rm, new, st, h2)
<1>1. historical(k) \in rm.ids
  BY DEF AnswerOK
<1>2. /\ \A p \in DOMAIN new : histOf(new[p], k) => new[p].symbol = y
      /\ \A x \in st : histOf(x, k) => x.symbol = y
  BY DEF AnswerOK
<1>3. \A p, q \in DOMAIN new :
        histOf(new[p], k) /\ histOf(new[q], k) /\ p < q => ~new[p].last
  BY DEF AnswerOK
<1>4. \A p \in DOMAIN new, x \in st : histOf(new[p], k) /\ new[p].last => ~histOf(x, k)
  BY DEF AnswerOK
<1>5. \A x, z \in st : histOf(x, k) /\ histOf(z, k) => x = z
  BY DEF AnswerOK
<1> QED
  BY <1>1, <1>2, <1>3, <1>4, <1>5 DEF AnswerOK

(* With its end the request is gone and has left nothing behind. *)
LEMMA AnswerEndTaken ==
  ASSUME NEW k, NEW rm, NEW rm2, NEW fl, NEW new, NEW st, NEW h, NEW h2,
         AnswerOK(k, rm, fl, st, h),
         DOMAIN fl \subseteq Nat, DOMAIN new = DOMAIN fl \ {0},
         \A p \in DOMAIN new : new[p] = fl[p],
         0 \in DOMAIN fl, histOf(fl[0], k), fl[0].last,
         \A z \in Symbol : rm2.ticker[z] # historical(k), freshBars(h2) = {}
  PROVE  AnswerOK(k, rm2, new, st, h2)
<1>1. ASSUME NEW p \in DOMAIN new PROVE ~histOf(new[p], k)
  <2>1. 0 < p /\ p \in DOMAIN fl
    OBVIOUS
  <2> QED
    BY <2>1 DEF AnswerOK
<1>2. \A x \in st : ~histOf(x, k)
  BY DEF AnswerOK
<1> QED
  BY <1>1, <1>2 DEF AnswerOK

-----------------------------------------------------------------------------
(* The one subscriber and its item. *)
LEMMA OneItemListed ==
  ASSUME OneSubscriber, DispatcherOK(disp)
  PROVE  \A i, j \in disp.list : i = j
<1>1. \A i \in disp.list : disp.owner[i] \in Subscriber
  BY DEF DispatcherOK, Dispatcher
<1> QED
  BY <1>1 DEF OneSubscriber, DispatcherOK

LEMMA CurrentItem ==
  ASSUME DispatcherOK(disp), NEW i \in disp.list, NEW s, s = disp.owner[i]
  PROVE  /\ s \in Subscriber /\ i \in Item
         /\ hasItem(disp, s) /\ getSubscriberItem(disp, s) = i
         /\ current(s) = disp.rm[i] /\ registryOf(disp, s) = disp.rm[i]
<1>1. s \in Subscriber /\ i \in Item
  BY DEF DispatcherOK, Dispatcher
<1>2. i \in itemsOf(disp, s) /\ hasItem(disp, s)
  BY DEF itemsOf, hasItem
<1>3. getSubscriberItem(disp, s) = i
  BY <1>1, <1>2, TheItem
<1> QED
  BY <1>1, <1>2, <1>3 DEF current, registryOf

(* A subscription is added to what the subscriber has. *)
LEMMA SubscribeCurrent ==
  ASSUME NEW d, DispatcherOK(d), NEW s \in Subscriber, NEW y, NEW r,
         hasItem(d, s) \/ freeItems(d) # {}, DispatcherOK(Subscribe(d, s, y, r))
  PROVE  LET e  == Subscribe(d, s, y, r)
             rm == IF hasItem(d, s) THEN registryOf(d, s) ELSE EmptyRegistry
         IN  /\ hasItem(e, s) /\ registryOf(e, s) = addReqIdsExt(rm, y, r)
             /\ \A j \in Item : e.owner[j] # d.owner[j] => j \in e.list
             /\ d.list \subseteq e.list
<1> DEFINE i == IF hasItem(d, s) THEN getSubscriberItem(d, s)
                                 ELSE CHOOSE k \in freeItems(d) : TRUE
           e == Subscribe(d, s, y, r)
           rm == IF hasItem(d, s) THEN registryOf(d, s) ELSE EmptyRegistry
<1>1. i \in Item /\ d.rm[i] = rm
  <2>1. CASE hasItem(d, s)
    BY <2>1, TheItem DEF registryOf
  <2>2. CASE ~hasItem(d, s)
    <3>1. i \in freeItems(d)
      BY <2>2
    <3>2. i \in Item /\ d.owner[i] = Nobody /\ i \notin d.list
      BY <3>1 DEF freeItems, DispatcherOK
    <3> QED
      BY <2>2, <3>2 DEF DispatcherOK
  <2> QED
    BY <2>1, <2>2
<1>2. e = [list  |-> d.list \cup {i},
           owner |-> [d.owner EXCEPT ![i] = s],
           rm    |-> [d.rm EXCEPT ![i] = addReqIdsExt(@, y, r)]]
  BY DEF Subscribe
<1> HIDE DEF i, e, rm
<1>3. /\ i \in e.list /\ e.owner[i] = s /\ e.rm[i] = addReqIdsExt(rm, y, r)
      /\ \A j \in Item : e.owner[j] # d.owner[j] => j = i
      /\ d.list \subseteq e.list
  BY <1>1, <1>2 DEF DispatcherOK, Dispatcher
<1>4. i \in itemsOf(e, s) /\ hasItem(e, s)
  BY <1>3 DEF itemsOf, hasItem
<1>5. DispatcherOK(e)
  BY DEF e
<1>6. getSubscriberItem(e, s) = i
  BY <1>4, <1>5, TheItem
<1>7. registryOf(e, s) = addReqIdsExt(rm, y, r)
  BY <1>3, <1>6 DEF registryOf
<1> QED
  BY <1>3, <1>4, <1>7 DEF e, rm

(* The flight stays as it is while wire and pass do. *)
LEMMA FlightTypes ==
  ASSUME HistoryInv
  PROVE  /\ DOMAIN flight = Flying /\ Flying \subseteq 0 .. Len(wire) /\ Len(wire) \in Nat
         /\ \A p \in Flying : flight[p] = IF p = 0 THEN sender.msg ELSE wire[p]
<1>1. Len(wire) \in Nat
  BY DEF HistoryInv, TypeInv, TypeOK
<1> QED
  BY <1>1 DEF flight, Flying

(* A request is added to the registry: for ids other than its own, and for *)
(* a type other than historical data, nothing changes.                     *)
LEMMA HistorySubscribe ==
  ASSUME HistoryInv, OneSubscriber, RegistrationInv', NEW s \in Subscriber, NEW y, NEW r,
         Registrable(current(s), y, r), CanRequest(s, r.type),
         disp' = Subscribe(disp, s, y, r), UNCHANGED <<alive, sender, history, wire>>,
         streams' \in {streams, brokerRequest(streams, r, y)}, ~handling(s, y),
         r.type = "RT_HISTORICAL_DATA" => r \notin current(s).ids
  PROVE  ItemsStay' /\ AnswersOK' /\ Handling'
<1> DEFINE new == [type |-> r.type, id |-> r.id, symbol |-> y, sent |-> FALSE]
<1>1. DispatcherOK(disp) /\ DispatcherOK(disp')
  BY DEF HistoryInv, TypeInv, RegistrationInv
<1>2. /\ hasItem(disp, s)' /\ registryOf(disp, s)' = addReqIdsExt(current(s), y, r)
      /\ \A j \in Item : disp'.owner[j] # disp.owner[j] => j \in disp'.list
      /\ disp.list \subseteq disp'.list
  <2>1. LET e  == Subscribe(disp, s, y, r)
            rm == IF hasItem(disp, s) THEN registryOf(disp, s) ELSE EmptyRegistry
        IN  /\ hasItem(e, s) /\ registryOf(e, s) = addReqIdsExt(rm, y, r)
            /\ \A j \in Item : e.owner[j] # disp.owner[j] => j \in e.list
            /\ disp.list \subseteq e.list
    BY <1>1, SubscribeCurrent DEF CanRequest
  <2>2. hasItem(disp', s) /\ registryOf(disp', s) = addReqIdsExt(current(s), y, r)
    BY <2>1 DEF current
  <2>3. hasItem(disp, s)' /\ registryOf(disp, s)' = addReqIdsExt(current(s), y, r)
    BY <2>2 DEF hasItem, registryOf, itemsOf, getSubscriberItem
  <2> QED
    BY <2>1, <2>3
<1>3. ItemsStay'
  BY <1>2 DEF HistoryInv, ItemsStay
<1>4. flight' = flight
  BY DEF flight, Flying
<1>5. /\ current(s)' = addReqIdsExt(current(s), y, r)
      /\ RegistryOK(current(s))
  BY <1>2, CurrentOK DEF current, HistoryInv, TypeInv
<1>6. /\ current(s)'.ids = current(s).ids \cup {r}
      /\ \A z \in Symbol : current(s)'.ticker[z] = IF z = y THEN r ELSE current(s).ticker[z]
      /\ y \in Symbol /\ r \in Request
  <2>1. y \in Symbol /\ r \in Request
    BY DEF Registrable
  <2> QED
    BY <1>5, <2>1 DEF addReqIdsExt, addReqIds, RegistryOK, Registry
<1>7. /\ \A x \in streams' : x \in streams \/ x = new
      /\ new.type = r.type /\ new.id = r.id /\ new.symbol = y /\ ~new.sent
  BY DEF brokerRequest
<1> HIDE DEF new
<1>8. ASSUME NEW k \in PoolId
      PROVE  AnswerOK(k, current(s)', flight, streams', history[s][k])
  <2> DEFINE h == history[s][k]
  <2>1. AnswerOK(k, current(s), flight, streams, h)
    BY DEF HistoryInv, AnswersOK
  <2> HIDE DEF h
  <2>2. CASE r # historical(k)
    <3>1. ~histOf(new, k)
      BY <1>6, <1>7, <2>2 DEF histOf, historical, Request
    <3>2. AnswerOK(k, current(s)', flight, streams, h)
      BY <1>6, <2>1, <2>2, AnswerRegistry
    <3> QED
      BY <1>7, <3>1, <3>2, AnswerStreams DEF h
  <2>3. CASE r = historical(k)
    <3>1. historical(k) \notin current(s).ids /\ historical(k) \in current(s)'.ids
      BY <1>6, <2>3 DEF historical
    <3>2. \A z \in Symbol : current(s)'.ticker[z] = historical(k) => z = y
      BY <1>6, <2>3 DEF Registrable
    <3>3. \A x \in streams' : x \in streams \/ (x.symbol = y /\ ~x.sent)
      BY <1>7
    <3>4. \A x, z \in streams' : x \notin streams /\ z \notin streams => x = z
      BY <1>7
    <3> QED
      BY <2>1, <3>1, <3>2, <3>3, <3>4, AnswerRequested DEF h
  <2> QED
    BY <2>2, <2>3
<1>9. AnswersOK'
  <2> SUFFICES ASSUME NEW t \in Subscriber, NEW k \in PoolId
               PROVE  AnswerOK(k, current(t)', flight', streams', history'[t][k])
    BY DEF AnswersOK
  <2>1. t = s
    BY DEF OneSubscriber
  <2> QED
    BY <1>4, <1>8, <2>1
<1>10. Handling'
  <2>1. sender' = sender /\ Handling /\ sender.called \subseteq disp.list
    BY DEF HistoryInv, ItemsStay
  <2> SUFFICES ASSUME NEW i \in sender.called, NEW t \in Subscriber, sender.at # "start",
                      disp'.owner[i] = t
               PROVE  /\ sender.msg.type = "RT_HISTORICAL_DATA" /\ sender.symbol \in Symbol
                      /\ current(t)'.ticker[sender.symbol] = historical(sender.msg.id)
                      /\ sender.at = "id" => sender.msg.last /\ sender.id = sender.msg.id
    BY <2>1 DEF Handling
  <2>2. disp.owner[i] = s /\ t = s
    BY <1>1, <2>1 DEF OneSubscriber, DispatcherOK, Dispatcher
  <2>3. sender.symbol # y
    BY <2>2 DEF handling
  <2> QED
    BY <1>6, <2>1, <2>2, <2>3 DEF Handling
<1> QED
  BY <1>3, <1>9, <1>10

LEMMA HistoryRequest ==
  ASSUME HistoryInv, OneSubscriber, NEW s \in Subscriber, RequestStep(s), ~overlapped'
  PROVE  ItemsStay' /\ AnswersOK' /\ Handling' /\ crashed' = crashed
<1>1. RegistrationInv'
  BY RequestPreserves DEF HistoryInv, TypeInv
<1>2. ASSUME NEW y \in Ticker, NEW t \in ReqType \ FixedType, requestFor(s, y, t)
      PROVE  ItemsStay' /\ AnswersOK' /\ Handling' /\ crashed' = crashed
  <2> DEFINE r == [id |-> chooseId(s, y, t), type |-> t]
  <2>1. Registrable(current(s), y, r)
    BY <1>2, ChosenRegistrable DEF HistoryInv, TypeInv, requestFor
  <2>2. ASSUME t = "RT_HISTORICAL_DATA" PROVE r \notin current(s).ids
    <3>1. CASE ~hasItem(disp, s)
      BY <3>1 DEF current, EmptyRegistry
    <3>2. CASE hasItem(disp, s)
      <4>1. chooseId(s, y, t) = getNextFreeId(current(s)) /\ chooseId(s, y, t) # 0
        BY <1>2, <2>2, <3>2 DEF chooseId, OneShotType, current, requestFor
      <4>2. isIdFree(current(s), chooseId(s, y, t))
        BY <4>1, FreeId
      <4> QED
        BY <4>2 DEF isIdFree
    <3> QED
      BY <3>1, <3>2
  <2>3. /\ CanRequest(s, t) /\ disp' = Subscribe(disp, s, y, r)
        /\ streams' = brokerRequest(streams, r, y)
        /\ ~handling(s, y)
        /\ UNCHANGED <<alive, sender, history, wire, crashed>>
    BY <1>2 DEF requestFor, subscribeAndRequest, noted
  <2>4. r.type = t
    OBVIOUS
  <2> HIDE DEF r
  <2> QED
    BY <1>1, <2>1, <2>2, <2>3, <2>4, HistorySubscribe
<1>3. ASSUME NEW t \in FixedType, CanRequest(s, t),
             disp' = Subscribe(disp, s, fixedSymbol[t], fixedRequest(t)),
             streams' \in {streams, brokerRequest(streams, fixedRequest(t), fixedSymbol[t])},
             ~handling(s, fixedSymbol[t]),
             UNCHANGED <<alive, sender, history, wire, crashed>>
      PROVE  ItemsStay' /\ AnswersOK' /\ Handling' /\ crashed' = crashed
  <2>1. Registrable(current(s), fixedSymbol[t], fixedRequest(t))
    BY CurrentOK, FixedRegistrable DEF fixedRequest, HistoryInv, TypeInv
  <2>2. fixedRequest(t).type = t /\ t # "RT_HISTORICAL_DATA"
    BY DEF fixedRequest, FixedType
  <2> QED
    BY <1>1, <1>3, <2>1, <2>2, HistorySubscribe
<1>4. ASSUME NEW y \in Ticker,
             \/ reqestRealTimeData(s, y) \/ requestRealTimeBars(s, y)
             \/ requestTickByTickData(s, y) \/ requestCalculateOptionPrice(s, y)
             \/ reqestHistoricalData(s, y) \/ requestHistoricalTicksData(s, y)
      PROVE  ItemsStay' /\ AnswersOK' /\ Handling' /\ crashed' = crashed
  <2>1. \E t \in KeyedType \cup OneShotType : requestFor(s, y, t)
    BY <1>4 DEF reqestRealTimeData, requestRealTimeBars, requestTickByTickData,
                requestCalculateOptionPrice, reqestHistoricalData,
                requestHistoricalTicksData, KeyedType, OneShotType
  <2> QED
    BY <2>1, <1>2, TypesAndSymbols
<1>5. CASE \/ requestPosition(s) \/ requestResetSubscription(s)
           \/ requestErrorNotificationSubscription(s)
           \/ requestOrderStatusSubscription(s) \/ bpReqAccountSummary(s)
  <2>1. \E t \in FixedType :
          /\ CanRequest(s, t)
          /\ disp' = Subscribe(disp, s, fixedSymbol[t], fixedRequest(t))
          /\ streams' \in {streams, brokerRequest(streams, fixedRequest(t), fixedSymbol[t])}
          /\ ~handling(s, fixedSymbol[t])
          /\ UNCHANGED <<alive, sender, history, wire, crashed>>
    BY <1>5 DEF requestPosition, requestResetSubscription,
                requestErrorNotificationSubscription, requestOrderStatusSubscription,
                bpReqAccountSummary, subscribeOnly, subscribeAndRequest, noted, fixedSymbol,
                FixedType
  <2> QED
    BY <1>3, <2>1
<1> QED
  BY <1>4, <1>5 DEF RequestStep

-----------------------------------------------------------------------------
(* The broker's answers. *)

LEMMA CurrentKept ==
  ASSUME disp' = disp, NEW s
  PROVE  current(s)' = current(s)
  BY DEF current, registryOf, hasItem, itemsOf, getSubscriberItem

LEMMA HandlingKept ==
  ASSUME Handling, disp' = disp, sender' = sender
  PROVE  Handling'
  BY CurrentKept DEF Handling

LEMMA HistoryArrival ==
  ASSUME HistoryInv, NEW m, Arrives(m), NEW k, NEW s \in Subscriber, k \in PoolId,
         \/ /\ ~histOf(m, k)
            /\ \A x \in streams' : histOf(x, k) => x \in streams
         \/ \E x \in streams :
              /\ histOf(x, k) /\ histOf(m, k) /\ m.symbol = x.symbol
              /\ \/ /\ m.last /\ x.sent
                    /\ \A z \in streams' : z \in streams /\ z # x
                 \/ /\ ~m.last
                    /\ \A z \in streams' :
                         (z \in streams /\ z # x) \/ z = [x EXCEPT !.sent = TRUE]
                    /\ [x EXCEPT !.sent = TRUE].symbol = x.symbol
  PROVE  AnswerOK(k, current(s)', flight', streams', history'[s][k])
<1> DEFINE n == Len(wire) + 1
<1>1. /\ DOMAIN flight = Flying /\ Flying \subseteq 0 .. Len(wire) /\ Len(wire) \in Nat
      /\ \A p \in Flying : flight[p] = IF p = 0 THEN sender.msg ELSE wire[p]
  BY FlightTypes
<1>2. /\ wire' = Append(wire, m) /\ wire \in Seq(Message)
      /\ UNCHANGED <<disp, sender, history>>
  BY DEF Arrives, HistoryInv, TypeInv, TypeOK
<1>3. /\ Len(wire') = n /\ wire'[n] = m
      /\ \A p \in 1 .. Len(wire) : wire'[p] = wire[p]
  BY <1>2
<1>4. Flying' = Flying \cup {n}
  BY <1>1, <1>2, <1>3 DEF Flying
<1>5. /\ DOMAIN flight' = Flying'
      /\ \A p \in Flying' : flight'[p] = IF p = 0 THEN sender.msg ELSE wire'[p]
  BY <1>2 DEF flight
<1>6. \A p \in Flying : flight'[p] = flight[p]
  BY <1>1, <1>3, <1>4, <1>5
<1>7. flight'[n] = m
  BY <1>1, <1>3, <1>4, <1>5
<1>8. n \in Int /\ DOMAIN flight \subseteq Int /\ \A p \in DOMAIN flight : p < n
  BY <1>1
<1>9. /\ DOMAIN flight' = DOMAIN flight \cup {n}
      /\ \A p \in DOMAIN flight : flight'[p] = flight[p]
  BY <1>1, <1>4, <1>5, <1>6
<1>10. /\ AnswerOK(k, current(s), flight, streams, history[s][k])
       /\ current(s)' = current(s) /\ history'[s][k] = history[s][k]
  BY <1>2, CurrentKept DEF HistoryInv, AnswersOK
<1> HIDE DEF n
<1>11. AnswerOK(k, current(s), flight', streams', history[s][k])
  BY <1>7, <1>8, <1>9, <1>10, AnswerArrived
<1> QED
  BY <1>10, <1>11

LEMMA HistoryBroker ==
  ASSUME HistoryInv, BrokerStep
  PROVE  ItemsStay' /\ AnswersOK' /\ Handling' /\ crashed' = crashed
<1>1. /\ UNCHANGED <<alive, disp, sender, history, crashed>>
      /\ streams \subseteq Stream
  BY DEF BrokerStep, Answer, AnswerBar, AnswerEnd, AnswerError, Notify, Arrives, HistoryInv, TypeInv, TypeOK
<1>2. ItemsStay'
  BY <1>1 DEF HistoryInv, ItemsStay
<1>3. ASSUME NEW s \in Subscriber, NEW k \in PoolId
      PROVE  AnswerOK(k, current(s)', flight', streams', history'[s][k])
  <2>1. ASSUME NEW x \in streams, Answer(x)
        PROVE  AnswerOK(k, current(s)', flight', streams', history'[s][k])
    <3>1. PICK t \in responsesTo(x.type) : Arrives(messageOf(x, t, FALSE))
      BY <2>1 DEF Answer
    <3>2. t # "RT_HISTORICAL_DATA" /\ streams' \subseteq streams
      BY <2>1, <3>1 DEF Answer, responsesTo
    <3>3. ~histOf(messageOf(x, t, FALSE), k)
      BY <3>2 DEF histOf, messageOf
    <3> QED
      BY <3>1, <3>2, <3>3, HistoryArrival
  <2>2. ASSUME NEW x \in streams, AnswerBar(x)
        PROVE  AnswerOK(k, current(s)', flight', streams', history'[s][k])
    <3> DEFINE m == messageOf(x, x.type, FALSE)
               x1 == [x EXCEPT !.sent = TRUE]
    <3>1. /\ x.type = "RT_HISTORICAL_DATA" /\ Arrives(m) /\ x \in Stream
          /\ streams' = (streams \ {x}) \cup {x1}
      BY <1>1, <2>2 DEF AnswerBar
    <3>2. /\ m.type = x.type /\ m.id = x.id /\ m.symbol = x.symbol /\ ~m.last
          /\ x1.type = x.type /\ x1.id = x.id /\ x1.symbol = x.symbol
      BY <3>1 DEF messageOf, Stream
    <3>3. CASE histOf(x, k)
      <4>1. /\ histOf(m, k) /\ ~m.last /\ m.symbol = x.symbol
            /\ [x EXCEPT !.sent = TRUE].symbol = x.symbol
        BY <3>2, <3>3 DEF histOf
      <4>2. \A z \in streams' : (z \in streams /\ z # x) \/ z = [x EXCEPT !.sent = TRUE]
        BY <3>1
      <4> HIDE DEF m
      <4> QED
        BY <3>1, <3>3, <4>1, <4>2, HistoryArrival
    <3>4. CASE ~histOf(x, k)
      <4>1. ~histOf(m, k) /\ ~histOf(x1, k)
        BY <3>2, <3>4 DEF histOf
      <4> HIDE DEF m, x1
      <4>2. \A z \in streams' : histOf(z, k) => z \in streams
        BY <3>1, <4>1
      <4> QED
        BY <3>1, <4>1, <4>2, HistoryArrival
    <3> QED
      BY <3>3, <3>4
  <2>3. ASSUME NEW x \in streams, AnswerEnd(x)
        PROVE  AnswerOK(k, current(s)', flight', streams', history'[s][k])
    <3> DEFINE m == messageOf(x, x.type, TRUE)
    <3>1. /\ x.type = "RT_HISTORICAL_DATA" /\ Arrives(m) /\ x.sent
          /\ streams' = streams \ {x}
      BY <2>3 DEF AnswerEnd
    <3>2. m.type = x.type /\ m.id = x.id /\ m.symbol = x.symbol /\ m.last
      BY DEF messageOf
    <3>3. CASE histOf(x, k)
      <4>1. histOf(m, k)
        BY <3>2, <3>3 DEF histOf
      <4>2. \A z \in streams' : z \in streams /\ z # x
        BY <3>1
      <4> HIDE DEF m
      <4> QED
        BY <3>1, <3>2, <3>3, <4>1, <4>2, HistoryArrival
    <3>4. CASE ~histOf(x, k)
      <4>1. ~histOf(m, k)
        BY <3>2, <3>4 DEF histOf
      <4>2. \A z \in streams' : histOf(z, k) => z \in streams
        BY <3>1
      <4> HIDE DEF m
      <4> QED
        BY <3>1, <4>1, <4>2, HistoryArrival
    <3> QED
      BY <3>3, <3>4
  <2>4. ASSUME NEW t \in Notice, Notify(t)
        PROVE  AnswerOK(k, current(s)', flight', streams', history'[s][k])
    <3>1. t # "RT_HISTORICAL_DATA"
      BY DataProviderAssumption DEF DataProviderAssumption, NoticeType
    <3>2. ~histOf(noticeOf(t), k)
      BY <3>1 DEF noticeOf, histOf
    <3> QED
      BY <2>4, <3>2, HistoryArrival DEF Notify
  <2>5. ASSUME NEW x \in streams, AnswerError(x)
        PROVE  AnswerOK(k, current(s)', flight', streams', history'[s][k])
    <3>1. ~histOf(noticeOf("RT_REQ_ERROR_SUBSRIPTION"), k)
      BY DEF noticeOf, histOf
    <3>2. Arrives(noticeOf("RT_REQ_ERROR_SUBSRIPTION")) /\ streams' \subseteq streams
      BY <2>5 DEF AnswerError
    <3> QED
      BY <3>1, <3>2, HistoryArrival
  <2> QED
    BY <2>1, <2>2, <2>3, <2>4, <2>5 DEF BrokerStep
<1>4. Handling'
  BY <1>1, HandlingKept DEF HistoryInv
<1> QED
  BY <1>1, <1>2, <1>3, <1>4 DEF AnswersOK

-----------------------------------------------------------------------------
(* The worker. *)

(* The pass on the message is over or the first message of the wire starts *)
(* one; an empty list drops it, but then no answer was on the way.         *)
LEMMA HistorySend ==
  ASSUME HistoryInv, SendMessageToSubscribers
  PROVE  ItemsStay' /\ AnswersOK' /\ Handling'
<1>1. /\ DOMAIN flight = Flying /\ Flying \subseteq 0 .. Len(wire) /\ Len(wire) \in Nat
      /\ \A p \in Flying : flight[p] = IF p = 0 THEN sender.msg ELSE wire[p]
  BY FlightTypes
<1>2. /\ ~sending /\ wire # <<>> /\ wire' = Tail(wire) /\ wire \in Seq(Message)
      /\ UNCHANGED <<alive, disp, history, streams>>
  BY DEF SendMessageToSubscribers, HistoryInv, TypeInv, TypeOK
<1>3. /\ Len(wire') = Len(wire) - 1 /\ Head(wire) = wire[1]
      /\ \A p \in 1 .. Len(wire') : wire'[p] = wire[p + 1]
  BY <1>2
<1>4. /\ disp.list = {} => sender'.todo = {} /\ sender'.held = {}
      /\ disp.list # {} => /\ sender'.msg = Head(wire)
                           /\ sender'.todo = disp.list /\ sender'.held = disp.list
      /\ sender'.called = {} /\ sender'.at = "start"
  BY DEF SendMessageToSubscribers, IdleSender, Pass
<1>5. ItemsStay' /\ Handling'
  <2>1. ItemsStay'
    BY <1>2, <1>4 DEF HistoryInv, ItemsStay
  <2>2. Handling'
    BY <1>4 DEF Handling
  <2> QED
    BY <2>1, <2>2
<1>6. /\ DOMAIN flight' = Flying'
      /\ \A p \in Flying' : flight'[p] = IF p = 0 THEN sender'.msg ELSE wire'[p]
  BY DEF flight
<1>7. Flying' = (IF disp.list = {} THEN {} ELSE {0}) \cup 1 .. (Len(wire) - 1)
  BY <1>3, <1>4 DEF Flying
<1>8. ASSUME NEW p \in DOMAIN flight'
      PROVE  p \in Int /\ p + 1 \in DOMAIN flight /\ flight'[p] = flight[p + 1]
  <2>1. p \in 0 .. (Len(wire) - 1)
    BY <1>2, <1>6, <1>7, <1>8, <1>1
  <2>2. p + 1 \in 1 .. Len(wire) /\ p + 1 # 0
    BY <1>1, <2>1
  <2>3. p + 1 \in Flying /\ flight[p + 1] = wire[p + 1]
    BY <1>1, <2>2 DEF Flying
  <2>4. flight'[p] = wire[p + 1]
    <3>1. CASE p = 0
      <4>1. disp.list # {}
        BY <1>6, <1>7, <1>8, <3>1
      <4> QED
        BY <1>3, <1>4, <1>6, <1>8, <3>1, <4>1
    <3>2. CASE p # 0
      <4>1. p \in 1 .. Len(wire')
        BY <1>1, <1>3, <2>1, <3>2
      <4> QED
        BY <1>3, <1>6, <1>8, <3>2, <4>1
    <3> QED
      BY <3>1, <3>2
  <2> QED
    BY <1>1, <2>1, <2>3, <2>4
<1>9. ASSUME NEW s \in Subscriber, NEW k \in PoolId
      PROVE  AnswerOK(k, current(s)', flight', streams', history'[s][k])
  <2> DEFINE h == history[s][k]
  <2>1. AnswerOK(k, current(s), flight, streams, h)
    BY DEF HistoryInv, AnswersOK
  <2>2. current(s)' = current(s) /\ streams' = streams /\ history'[s][k] = h
    BY <1>2, CurrentKept
  <2> HIDE DEF h
  <2>3. ASSUME NEW p \in DOMAIN flight, histOf(flight[p], k)
        PROVE  p - 1 \in DOMAIN flight'
    <3>1. p # 0
      <4>1. ASSUME p = 0 PROVE FALSE
        <5>1. flight[p] = NoMessage
          BY <1>1, <1>2, <4>1 DEF sending
        <5> QED
          BY <2>3, <5>1 DEF histOf, NoMessage
      <4> QED
        BY <4>1
    <3>2. disp.list # {}
      <4>1. ASSUME disp.list = {} PROVE FALSE
        <5>1. current(s) = EmptyRegistry
          BY <4>1 DEF current, hasItem, itemsOf
        <5>2. historical(k) \notin current(s).ids
          BY <5>1 DEF EmptyRegistry
        <5> QED
          BY <2>1, <2>3, <5>2 DEF AnswerOK
      <4> QED
        BY <4>1
    <3>3. p \in 1 .. Len(wire)
      BY <1>1, <3>1
    <3>4. p - 1 \in 0 .. (Len(wire) - 1)
      BY <1>1, <3>3
    <3> QED
      BY <1>6, <1>7, <3>2, <3>4
  <2>4. DOMAIN flight \subseteq Int
    BY <1>1
  <2>5. DOMAIN flight' \subseteq Int
    BY <1>8
  <2>6. \A p \in DOMAIN flight' : p + 1 \in DOMAIN flight /\ flight'[p] = flight[p + 1]
    BY <1>8
  <2>7. \A p \in DOMAIN flight : histOf(flight[p], k) => p - 1 \in DOMAIN flight'
    BY <2>3
  <2> DEFINE new == flight'
  <2>8. /\ DOMAIN new \subseteq Int
        /\ \A p \in DOMAIN new : p + 1 \in DOMAIN flight /\ new[p] = flight[p + 1]
        /\ \A p \in DOMAIN flight : histOf(flight[p], k) => p - 1 \in DOMAIN new
    BY <2>5, <2>6, <2>7
  <2> HIDE DEF new
  <2>9. AnswerOK(k, current(s), new, streams, h)
    BY <2>1, <2>4, <2>8, AnswerShifted
  <2> QED
    BY <2>2, <2>9 DEF new
<1>10. AnswersOK'
  BY <1>2, <1>9 DEF AnswersOK
<1> QED
  BY <1>5, <1>10

(* The message of the pass is done with when its one item is. *)
LEMMA PassEnds ==
  ASSUME HistoryInv, OneSubscriber, NEW i \in sender.todo,
         sender'.todo = sender.todo \ {i}, wire' = wire
  PROVE  /\ sender'.todo = {} /\ 0 \in DOMAIN flight /\ flight[0] = sender.msg
         /\ DOMAIN flight \subseteq Nat /\ DOMAIN flight' = DOMAIN flight \ {0}
         /\ \A p \in DOMAIN flight' : flight'[p] = flight[p]
<1>1. /\ DOMAIN flight = Flying /\ Flying \subseteq 0 .. Len(wire) /\ Len(wire) \in Nat
      /\ \A p \in Flying : flight[p] = IF p = 0 THEN sender.msg ELSE wire[p]
  BY FlightTypes
<1>2. sender.todo = {i}
  BY OneItemListed DEF HistoryInv, ItemsStay, TypeInv, RegistrationInv
<1>3. sender'.todo = {}
  BY <1>2
<1>4. Flying = {0} \cup 1 .. Len(wire) /\ Flying' = 1 .. Len(wire)
  BY <1>2, <1>3 DEF Flying
<1>5. /\ DOMAIN flight' = Flying'
      /\ \A p \in Flying' : flight'[p] = IF p = 0 THEN sender'.msg ELSE wire'[p]
  BY DEF flight
<1>6. \A p \in Flying' : p \in Flying /\ p # 0
  BY <1>4
<1> QED
  BY <1>1, <1>3, <1>4, <1>5, <1>6

(* A message that no registry asks for is dropped. *)
LEMMA HistoryTest ==
  ASSUME HistoryInv, OneSubscriber, NEW i \in Item, TestItem(i)
  PROVE  ItemsStay' /\ AnswersOK' /\ Handling'
<1>1. i \in sender.todo /\ UNCHANGED <<alive, disp, history, streams, wire, crashed>>
  BY DEF TestItem
<1>5. sender.at = "start"
  BY DEF TestItem, HistoryInv, Handling
<1>2. sender \in Sender
  BY DEF HistoryInv, TypeInv, TypeOK
<1>3. CASE sender' = [sender EXCEPT !.called = {i}]
  <2>1. sender'.msg = sender.msg /\ sender'.todo = sender.todo /\ sender'.held = sender.held
        /\ sender'.called = {i} /\ sender'.at = sender.at
    BY <1>2, <1>3 DEF Sender
  <2>2. flight' = flight
    BY <1>1, <2>1 DEF flight, Flying
  <2>3. \A s : current(s)' = current(s)
    BY <1>1, CurrentKept
  <2> QED
    BY <1>1, <1>5, <2>1, <2>2, <2>3 DEF HistoryInv, ItemsStay, AnswersOK, Handling
<1>4. CASE sender' # [sender EXCEPT !.called = {i}]
  <2>1. /\ ~isPresent(disp.rm[i], sender.msg.id, sender.msg.type)
        /\ sender' = [sender EXCEPT !.todo = @ \ {i}]
    BY <1>4 DEF TestItem
  <2>2. sender'.msg = sender.msg /\ sender'.todo = sender.todo \ {i}
        /\ sender'.held = sender.held /\ sender'.called = sender.called
        /\ sender'.at = sender.at
    BY <1>2, <2>1 DEF Sender
  <2>3. sender.called = {}
    BY DEF TestItem
  <2>4. ItemsStay'
    BY <1>1, <2>2, <2>3 DEF HistoryInv, ItemsStay
  <2>5. /\ 0 \in DOMAIN flight /\ flight[0] = sender.msg
        /\ DOMAIN flight' = DOMAIN flight \ {0}
        /\ \A p \in DOMAIN flight' : flight'[p] = flight[p]
    BY <1>1, <2>2, PassEnds
  <2>6. ASSUME NEW s \in Subscriber, NEW k \in PoolId
        PROVE  AnswerOK(k, current(s)', flight', streams', history'[s][k])
    <3> DEFINE h == history[s][k]
               new == flight'
    <3>1. AnswerOK(k, current(s), flight, streams, h)
      BY DEF HistoryInv, AnswersOK
    <3>2. current(s)' = current(s) /\ streams' = streams /\ history'[s][k] = h
      BY <1>1, CurrentKept
    <3>3. current(s) = disp.rm[i]
      <4>1. DispatcherOK(disp) /\ i \in disp.list
        BY <1>1 DEF HistoryInv, TypeInv, RegistrationInv, ItemsStay
      <4>2. disp.owner[i] = s
        BY <4>1, CurrentItem DEF OneSubscriber
      <4> QED
        BY <4>1, <4>2, CurrentItem
    <3>4. ~histOf(flight[0], k)
      <4>1. ASSUME histOf(sender.msg, k) PROVE FALSE
        <5>1. historical(k) \notin current(s).ids
          BY <2>1, <3>3, <4>1 DEF isPresent, keyOf, histOf, historical
        <5> QED
          BY <2>5, <3>1, <4>1, <5>1 DEF AnswerOK
      <4> QED
        BY <2>5, <4>1
    <3>5. DOMAIN new = DOMAIN flight \ {0} /\ \A p \in DOMAIN new : new[p] = flight[p]
      BY <2>5
    <3> HIDE DEF h, new
    <3>6. AnswerOK(k, current(s), new, streams, h)
      BY <3>1, <3>4, <3>5, AnswerDropped
    <3> QED
      BY <3>2, <3>6 DEF new
  <2>7. AnswersOK'
    BY <1>1, <2>6 DEF AnswersOK
  <2>8. Handling'
    BY <1>5, <2>2, <2>3 DEF Handling
  <2> QED
    BY <2>4, <2>7, <2>8
<1> QED
  BY <1>3, <1>4

(* Letting the copy go releases nothing. *)
LEMMA HistoryEndSend ==
  ASSUME HistoryInv, EndSend
  PROVE  ItemsStay' /\ AnswersOK' /\ Handling' /\ ~crashed'
<1>1. /\ DispatcherOK(disp)
      /\ disp.owner \in [Item -> Subscriber \cup {Nobody}] /\ disp.rm \in [Item -> Registry]
      /\ disp = [list |-> disp.list, owner |-> disp.owner, rm |-> disp.rm]
  BY DEF HistoryInv, TypeInv, RegistrationInv, DispatcherOK, Dispatcher
<1>2. unreferenced(disp, {}) = {}
  BY DEF unreferenced, HistoryInv, ItemsStay
<1>3. Release(disp, {}) = disp
  <2>1. Release(disp, {}) = [list  |-> disp.list,
                             owner |-> [i \in Item |-> disp.owner[i]],
                             rm    |-> [i \in Item |-> disp.rm[i]]]
    BY <1>2 DEF Release
  <2>2. [i \in Item |-> disp.owner[i]] = disp.owner /\ [i \in Item |-> disp.rm[i]] = disp.rm
    BY <1>1
  <2> QED
    BY <1>1, <2>1, <2>2
<1>4. /\ disp' = disp /\ ~crashed' /\ UNCHANGED <<alive, history, streams, wire>>
      /\ sender.todo = {} /\ sender' = IdleSender
  BY <1>2, <1>3 DEF EndSend
<1>5. flight' = flight
  <2>1. Flying = 1 .. Len(wire) /\ Flying' = 1 .. Len(wire)
    BY <1>4 DEF Flying, IdleSender, Pass
  <2>2. \A p \in 1 .. Len(wire) : p # 0
    BY FlightTypes
  <2>3. flight = [p \in 1 .. Len(wire) |-> wire[p]]
    BY <2>1, <2>2 DEF flight
  <2>4. flight' = [p \in 1 .. Len(wire) |-> wire[p]]
    BY <1>4, <2>1, <2>2 DEF flight
  <2> QED
    BY <2>3, <2>4
<1>6. \A s : current(s)' = current(s)
  BY <1>4, CurrentKept
<1>7. /\ sender'.held = {} /\ sender'.todo = {} /\ sender'.called = {}
      /\ sender'.at = "start"
  BY <1>4 DEF IdleSender, Pass
<1>8. Handling'
  BY <1>7 DEF Handling
<1> QED
  BY <1>4, <1>5, <1>6, <1>7, <1>8 DEF HistoryInv, ItemsStay, AnswersOK

(* What the end of an answer leaves in the registry. *)
LEMMA EndedRegistry ==
  ASSUME NEW rm, RegistryOK(rm), NEW y \in Symbol, NEW k, rm.ticker[y] = historical(k)
  PROVE  LET new == removeReqData(rm, y, "RT_HISTORICAL_DATA")
         IN  /\ new.ids = rm.ids \ {historical(k)}
             /\ \A z \in Symbol : new.ticker[z] = IF z = y THEN NoReq ELSE rm.ticker[z]
<1>1. removeReqData(rm, y, "RT_HISTORICAL_DATA") = removeReqIdsExt(rm, y, historical(k))
  BY DEF removeReqData, historical
<1>2. y # NoSymbol
  BY TickerAssumption DEF TickerAssumption, Symbol, NoSymbol, FixedSymbol
<1>3. removeItemFromTickerMap(rm, y, historical(k)) = [rm.ticker EXCEPT ![y] = NoReq]
  BY <1>2 DEF removeItemFromTickerMap
<1>4. rm.ticker \in [Symbol -> Request \cup {NoReq}]
  BY DEF RegistryOK, Registry
<1> QED
  BY <1>1, <1>3, <1>4 DEF removeReqIdsExt, removeReqIds

(* The symbol that names a request is the one getSymbolById finds. *)
LEMMA NamingSymbol ==
  ASSUME NEW rm, RegistryOK(rm), NEW k,
         NEW y, y = getSymbolById(rm, k, "RT_HISTORICAL_DATA")
  PROVE  /\ y # NoSymbol => /\ y \in Symbol /\ rm.ticker[y] = historical(k)
                            /\ \A z \in Symbol : rm.ticker[z] = historical(k) => z = y
         /\ y = NoSymbol => \A z \in Symbol : rm.ticker[z] # historical(k)
<1> DEFINE match == {z \in Symbol : rm.ticker[z] = historical(k)}
<1>1. y = IF match = {} THEN NoSymbol ELSE CHOOSE z \in match : TRUE
  BY DEF getSymbolById, historical
<1>2. NoSymbol \notin Symbol
  BY TickerAssumption DEF TickerAssumption, Symbol, NoSymbol, FixedSymbol
<1>3. historical(k) # NoReq
  BY DEF historical, NoReq
<1>4. CASE match = {}
  BY <1>1, <1>4
<1>5. CASE match # {}
  <2> HIDE DEF match
  <2>1. y \in match
    BY <1>1, <1>5
  <2>2. y \in Symbol /\ rm.ticker[y] = historical(k)
    BY <2>1 DEF match
  <2>3. \A z \in Symbol : rm.ticker[z] = historical(k) => z = y
    BY <1>3, <2>2 DEF RegistryOK
  <2> QED
    BY <1>2, <2>2, <2>3
<1> QED
  BY <1>4, <1>5

(* The worker's call of the one subscriber, for the first message in flight. *)
LEMMA TheCall ==
  ASSUME HistoryInv, OneSubscriber, NEW i \in Item, sender.called = {i},
         NEW s, s = disp.owner[i], NEW rm, rm = disp.rm[i]
  PROVE  /\ i \in sender.todo /\ i \in disp.list /\ DispatcherOK(disp)
         /\ s \in Subscriber /\ s \in alive /\ hasItem(disp, s)
         /\ getSubscriberItem(disp, s) = i
         /\ current(s) = rm /\ registryOf(disp, s) = rm /\ RegistryOK(rm)
         /\ \A t \in Subscriber : t = s
         /\ \A k \in PoolId : AnswerOK(k, rm, flight, streams, history[s][k])
         /\ sender \in Sender /\ history \in [Subscriber -> [PoolId -> HistEntry]]
         /\ DOMAIN flight \subseteq Nat /\ 0 \in DOMAIN flight /\ flight[0] = sender.msg
<1>1. i \in sender.todo /\ i \in disp.list /\ DispatcherOK(disp)
  BY DEF HistoryInv, TypeInv, RegistrationInv, ItemsStay
<1>2. /\ s \in Subscriber /\ s \in alive /\ hasItem(disp, s)
      /\ getSubscriberItem(disp, s) = i
      /\ current(s) = rm /\ registryOf(disp, s) = rm /\ RegistryOK(rm)
  BY <1>1, CurrentItem DEF HistoryInv, ItemsStay, DispatcherOK
<1>3. \A t \in Subscriber : t = s
  BY <1>2 DEF OneSubscriber
<1>4. \A k \in PoolId : AnswerOK(k, rm, flight, streams, history[s][k])
  BY <1>2 DEF HistoryInv, AnswersOK
<1>5. sender \in Sender /\ history \in [Subscriber -> [PoolId -> HistEntry]]
  BY DEF HistoryInv, TypeInv, TypeOK
<1>6. DOMAIN flight \subseteq Nat /\ 0 \in DOMAIN flight /\ flight[0] = sender.msg
  BY <1>1, FlightTypes DEF Flying
<1> QED
  BY <1>1, <1>2, <1>3, <1>4, <1>5, <1>6

(* When it returns, the pass is over. *)
LEMMA CallEnds ==
  ASSUME HistoryInv, OneSubscriber, NEW i \in Item, sender.called = {i},
         sender' = returned(i), wire' = wire
  PROVE  /\ sender'.todo = {} /\ sender'.held = sender.held /\ sender'.called = {}
         /\ Handling'
         /\ DOMAIN flight' = DOMAIN flight \ {0}
         /\ \A p \in DOMAIN flight' : flight'[p] = flight[p]
<1>1. i \in sender.todo /\ sender \in Sender
  BY DEF HistoryInv, ItemsStay, TypeInv, TypeOK
<1>2. /\ sender'.todo = sender.todo \ {i} /\ sender'.held = sender.held
      /\ sender'.called = {} /\ sender'.at = "start"
  BY <1>1, ReturnedTypes
<1>3. Handling'
  BY <1>2 DEF Handling
<1> QED
  BY <1>1, <1>2, <1>3, PassEnds

(* An answer that has been looked up is one of the request its symbol has. *)
LEMMA NamedAnswer ==
  ASSUME HistoryInv, OneSubscriber, NEW i \in Item, sender.called = {i}, sender.at # "start",
         NEW s, s = disp.owner[i], NEW rm, rm = disp.rm[i],
         NEW y, y = sender.symbol, NEW k, k = sender.msg.id
  PROVE  /\ y \in Symbol /\ rm.ticker[y] = historical(k)
         /\ \A z \in Symbol : rm.ticker[z] = historical(k) => z = y
         /\ k \in PoolId /\ history[s][k] \in HistEntry
         /\ histOf(flight[0], k) /\ sender.msg.symbol = y
         /\ AnswerOK(k, rm, flight, streams, history[s][k])
         /\ getIdbySymbol(rm, y, "RT_HISTORICAL_DATA") = k /\ k # 0
         /\ sender.at = "id" => sender.msg.last /\ sender.id = k
<1>1. /\ s \in Subscriber /\ current(s) = rm /\ RegistryOK(rm)
      /\ \A j \in PoolId : AnswerOK(j, rm, flight, streams, history[s][j])
      /\ history \in [Subscriber -> [PoolId -> HistEntry]]
      /\ 0 \in DOMAIN flight /\ flight[0] = sender.msg
  BY TheCall
<1>2. /\ sender.msg.type = "RT_HISTORICAL_DATA" /\ y \in Symbol
      /\ rm.ticker[y] = historical(k)
      /\ sender.at = "id" => sender.msg.last /\ sender.id = k
  BY <1>1 DEF HistoryInv, Handling
<1>3. historical(k) # NoReq /\ historical(k).type = "RT_HISTORICAL_DATA" /\ historical(k).id = k
  BY DEF historical, NoReq
<1>4. historical(k) \in rm.ids /\ \A z \in Symbol : rm.ticker[z] = historical(k) => z = y
  BY <1>1, <1>2, <1>3 DEF RegistryOK
<1>5. k \in PoolId
  BY <1>1, <1>3, <1>4 DEF RegistryOK, Proper, FixedType
<1>6. k # 0 /\ getIdbySymbol(rm, y, "RT_HISTORICAL_DATA") = k
  BY <1>2, <1>3, <1>5 DEF getIdbySymbol, PoolId
<1>7. histOf(flight[0], k) /\ AnswerOK(k, rm, flight, streams, history[s][k])
  BY <1>1, <1>2, <1>5 DEF histOf
<1>8. sender.msg.symbol = y
  BY <1>1, <1>2, <1>7 DEF AnswerOK
<1> QED
  BY <1>1, <1>2, <1>4, <1>5, <1>6, <1>7, <1>8

(* The first look-up: an answer to no named request is dropped. *)
LEMMA HistoryCalled ==
  ASSUME HistoryInv, OneSubscriber, NEW i \in Item, MessageHandler(i)
  PROVE  ItemsStay' /\ AnswersOK' /\ Handling' /\ ~crashed'
<1> DEFINE m == sender.msg
           new == flight'
<1>0. PICK s, rm : s = disp.owner[i] /\ rm = disp.rm[i]
  OBVIOUS
<1>1. sender.called = {i} /\ UNCHANGED <<alive, disp, history, streams, wire>>
  BY DEF MessageHandler
<1>2. /\ i \in sender.todo /\ s \in Subscriber /\ s \in alive /\ hasItem(disp, s)
      /\ current(s) = rm /\ registryOf(disp, s) = rm /\ RegistryOK(rm)
      /\ \A t \in Subscriber : t = s
      /\ \A k \in PoolId : AnswerOK(k, rm, flight, streams, history[s][k])
      /\ sender \in Sender /\ 0 \in DOMAIN flight /\ flight[0] = m
  BY <1>0, <1>1, TheCall
<1>3. PICK y : y = getSymbolById(rm, m.id, "RT_HISTORICAL_DATA")
  OBVIOUS
<1>4. /\ crashed' = (s \notin alive)
      /\ sender' = IF m.type = "RT_HISTORICAL_DATA" /\ y # NoSymbol
                   THEN [sender EXCEPT !.at = "symbol", !.symbol = y]
                   ELSE returned(i)
  BY <1>0, <1>2, <1>3 DEF MessageHandler
<1>5. ~crashed'
  BY <1>2, <1>4
<1>6. current(s)' = rm
  BY <1>1, <1>2, CurrentKept
<1> HIDE DEF m, new
<1>7. /\ y # NoSymbol => y \in Symbol /\ rm.ticker[y] = historical(m.id)
      /\ y = NoSymbol => \A z \in Symbol : rm.ticker[z] # historical(m.id)
  BY <1>2, <1>3, NamingSymbol
<1>8. CASE m.type = "RT_HISTORICAL_DATA" /\ y # NoSymbol
  <2>1. /\ sender'.msg = m /\ sender'.todo = sender.todo /\ sender'.held = sender.held
        /\ sender'.called = {i} /\ sender'.at = "symbol" /\ sender'.symbol = y
    BY <1>1, <1>2, <1>4, <1>8 DEF Sender, m
  <2>2. flight' = flight
    BY <1>1, <2>1 DEF flight, Flying, m
  <2>3. ItemsStay'
    BY <1>1, <2>1 DEF HistoryInv, ItemsStay
  <2>4. AnswersOK'
    BY <1>1, <1>2, <1>6, <2>2 DEF AnswersOK
  <2>5. Handling'
    <3>1. \A t \in Subscriber : current(t)' = rm
      BY <1>2, <1>6
    <3> QED
      BY <1>7, <1>8, <2>1, <3>1 DEF Handling
  <2> QED
    BY <1>5, <2>3, <2>4, <2>5
<1>9. CASE m.type # "RT_HISTORICAL_DATA" \/ y = NoSymbol
  <2>1. sender' = returned(i)
    BY <1>4, <1>9
  <2>2. /\ sender'.todo = {} /\ sender'.held = sender.held /\ sender'.called = {}
        /\ Handling'
        /\ DOMAIN new = DOMAIN flight \ {0}
        /\ \A p \in DOMAIN new : new[p] = flight[p]
    BY <1>1, <2>1, CallEnds DEF new
  <2>3. ItemsStay'
    BY <1>1, <2>2 DEF HistoryInv, ItemsStay
  <2>4. ASSUME NEW k \in PoolId
        PROVE  AnswerOK(k, rm, new, streams, history[s][k])
    <3> DEFINE h == history[s][k]
    <3>1. AnswerOK(k, rm, flight, streams, h)
      BY <1>2
    <3>2. \/ ~histOf(flight[0], k)
          \/ \A z \in Symbol : rm.ticker[z] # historical(k)
      BY <1>2, <1>7, <1>9 DEF histOf
    <3> HIDE DEF h
    <3>3. AnswerOK(k, rm, new, streams, h)
      BY <2>2, <3>1, <3>2, AnswerDropped
    <3> QED
      BY <3>3 DEF h
  <2>5. AnswersOK'
    BY <1>1, <1>2, <1>6, <2>4 DEF AnswersOK, new
  <2> QED
    BY <1>5, <2>2, <2>3, <2>5
<1> QED
  BY <1>8, <1>9

(* The second look-up finds the id the answer is of: a bar is taken.       *)
LEMMA HistoryTaken ==
  ASSUME HistoryInv, OneSubscriber, NEW i \in Item, getIdFromRM(i)
  PROVE  ItemsStay' /\ AnswersOK' /\ Handling' /\ ~crashed'
<1> DEFINE m == sender.msg
           new == flight'
<1>0. PICK s, rm, y, k0 : /\ s = disp.owner[i] /\ rm = disp.rm[i]
                          /\ y = sender.symbol /\ k0 = sender.msg.id
  OBVIOUS
<1>1. /\ sender.called = {i} /\ sender.at = "symbol"
      /\ UNCHANGED <<alive, disp, streams, wire>>
  BY DEF getIdFromRM
<1>2. /\ i \in sender.todo /\ s \in Subscriber /\ s \in alive /\ hasItem(disp, s)
      /\ current(s) = rm /\ registryOf(disp, s) = rm
      /\ \A t \in Subscriber : t = s
      /\ \A k \in PoolId : AnswerOK(k, rm, flight, streams, history[s][k])
      /\ sender \in Sender /\ history \in [Subscriber -> [PoolId -> HistEntry]]
      /\ 0 \in DOMAIN flight /\ flight[0] = m
  BY <1>0, <1>1, TheCall
<1>3. /\ y \in Symbol /\ rm.ticker[y] = historical(k0)
      /\ \A z \in Symbol : rm.ticker[z] = historical(k0) => z = y
      /\ k0 \in PoolId /\ histOf(flight[0], k0) /\ m.symbol = y
      /\ AnswerOK(k0, rm, flight, streams, history[s][k0])
      /\ getIdbySymbol(rm, y, "RT_HISTORICAL_DATA") = k0 /\ k0 # 0
  BY <1>0, <1>1, NamedAnswer
<1>4. /\ crashed' = (s \notin alive)
      /\ ~m.last => /\ sender' = returned(i)
                    /\ history' = [history EXCEPT ![s][k0] = withBar(@, m.symbol)]
      /\ m.last => /\ sender' = [sender EXCEPT !.at = "id", !.id = k0]
                   /\ history' = history
  BY <1>0, <1>2, <1>3 DEF getIdFromRM
<1>5. ~crashed' /\ current(s)' = rm
  BY <1>1, <1>2, <1>4, CurrentKept
<1> HIDE DEF m, new
<1>6. CASE m.last
  <2>1. /\ sender'.msg = m /\ sender'.todo = sender.todo /\ sender'.held = sender.held
        /\ sender'.called = {i} /\ sender'.at = "id" /\ sender'.id = k0
        /\ sender'.symbol = y
    BY <1>0, <1>1, <1>2, <1>4, <1>6 DEF Sender, m
  <2>2. flight' = flight
    BY <1>1, <2>1 DEF flight, Flying, m
  <2>3. ItemsStay'
    BY <1>1, <2>1 DEF HistoryInv, ItemsStay
  <2>4. AnswersOK'
    BY <1>1, <1>2, <1>4, <1>5, <1>6, <2>2 DEF AnswersOK
  <2>5. Handling'
    <3>1. \A t \in Subscriber : current(t)' = rm
      BY <1>2, <1>5
    <3>2. m.type = "RT_HISTORICAL_DATA" /\ m.id = k0
      BY <1>2, <1>3 DEF histOf
    <3> QED
      BY <1>3, <1>6, <2>1, <3>1, <3>2 DEF Handling
  <2> QED
    BY <1>5, <2>3, <2>4, <2>5
<1>7. CASE ~m.last
  <2> DEFINE h0 == history[s][k0]
  <2>1. /\ sender'.todo = {} /\ sender'.held = sender.held /\ sender'.called = {}
        /\ Handling'
        /\ DOMAIN new = DOMAIN flight \ {0}
        /\ \A p \in DOMAIN new : new[p] = flight[p]
    BY <1>1, <1>4, <1>7, CallEnds DEF new
  <2>2. ItemsStay'
    BY <1>1, <2>1 DEF HistoryInv, ItemsStay
  <2>3. \A k \in PoolId : history'[s][k] = IF k = k0 THEN withBar(h0, y) ELSE history[s][k]
    BY <1>2, <1>3, <1>4, <1>7
  <2>4. freshBars(withBar(h0, y)) = {y}
    <3>1. withBar(h0, y) = [bars |-> freshBars(h0) \cup {y}, isAvaliable |-> FALSE]
      BY DEF withBar, freshBars
    <3>2. freshBars(h0) \subseteq {y}
      BY <1>3 DEF AnswerOK
    <3>3. freshBars(withBar(h0, y)) = freshBars(h0) \cup {y}
      BY <3>1 DEF freshBars
    <3> QED
      BY <3>2, <3>3
  <2>5. ASSUME NEW k \in PoolId
        PROVE  AnswerOK(k, rm, new, streams, history'[s][k])
    <3>1. CASE k = k0
      <4> DEFINE h2 == withBar(h0, y)
      <4>1. history'[s][k] = h2 /\ freshBars(h2) = {y}
        BY <2>3, <2>4, <3>1
      <4> HIDE DEF h0, h2
      <4>2. AnswerOK(k0, rm, new, streams, h2)
        BY <1>2, <1>3, <2>1, <4>1, AnswerBarTaken
      <4> QED
        BY <3>1, <4>1, <4>2
    <3>2. CASE k # k0
      <4> DEFINE h == history[s][k]
      <4>1. AnswerOK(k, rm, flight, streams, h) /\ ~histOf(flight[0], k)
        BY <1>2, <1>3, <3>2 DEF histOf
      <4>2. history'[s][k] = h
        BY <2>3, <3>2
      <4> HIDE DEF h
      <4>3. AnswerOK(k, rm, new, streams, h)
        BY <2>1, <4>1, AnswerDropped
      <4> QED
        BY <4>2, <4>3
    <3> QED
      BY <3>1, <3>2
  <2>6. AnswersOK'
    BY <1>1, <1>2, <1>5, <2>5 DEF AnswersOK, new
  <2> QED
    BY <1>5, <2>1, <2>2, <2>6
<1> QED
  BY <1>6, <1>7

(* When the end of an answer is handled, a bar of its symbol is there.     *)
LEMMA EndReports ==
  ASSUME HistoryInv, OneSubscriber, NEW i \in Item, sender.called = {i}, sender.at = "id"
  PROVE  history[disp.owner[i]][sender.id] = [bars |-> {sender.symbol}, isAvaliable |-> FALSE]
<1>0. PICK s, rm, y, k0 : /\ s = disp.owner[i] /\ rm = disp.rm[i]
                          /\ y = sender.symbol /\ k0 = sender.msg.id
  OBVIOUS
<1>1. DOMAIN flight \subseteq Nat /\ 0 \in DOMAIN flight /\ flight[0] = sender.msg
  BY <1>0, TheCall
<1>2. PICK h : h = history[s][k0]
  OBVIOUS
<1>3. /\ y \in Symbol /\ rm.ticker[y] = historical(k0) /\ h \in HistEntry
      /\ histOf(flight[0], k0) /\ AnswerOK(k0, rm, flight, streams, h)
      /\ sender.msg.last /\ sender.id = k0
  BY <1>0, <1>2, NamedAnswer
<1>4. freshBars(h) = {y}
  BY <1>1, <1>3, EndFindsBar
<1>5. ~h.isAvaliable
  BY <1>4 DEF freshBars
<1>6. h.bars = {y}
  BY <1>4, <1>5 DEF freshBars
<1>7. h = [bars |-> h.bars, isAvaliable |-> h.isAvaliable]
  BY <1>3 DEF HistEntry
<1>8. h.isAvaliable = FALSE
  BY <1>3, <1>5 DEF HistEntry
<1> QED
  BY <1>0, <1>2, <1>3, <1>6, <1>7, <1>8

(* The third look-up removes the request that is answered, with nothing    *)
(* left behind.                                                            *)
LEMMA HistoryEnded ==
  ASSUME HistoryInv, OneSubscriber, NEW i \in Item, removeOldHistoricalRequest(i)
  PROVE  ItemsStay' /\ AnswersOK' /\ Handling' /\ ~crashed'
<1> DEFINE new == flight'
<1>0. PICK s, rm, y, k0 : /\ s = disp.owner[i] /\ rm = disp.rm[i]
                          /\ y = sender.symbol /\ k0 = sender.msg.id
  OBVIOUS
<1>1. /\ sender.called = {i} /\ sender.at = "id" /\ sender' = returned(i)
      /\ UNCHANGED <<alive, streams, wire>>
  BY DEF removeOldHistoricalRequest
<1>2. /\ i \in disp.list /\ DispatcherOK(disp)
      /\ s \in Subscriber /\ s \in alive /\ hasItem(disp, s) /\ getSubscriberItem(disp, s) = i
      /\ RegistryOK(rm) /\ \A t \in Subscriber : t = s
      /\ \A k \in PoolId : AnswerOK(k, rm, flight, streams, history[s][k])
      /\ history \in [Subscriber -> [PoolId -> HistEntry]]
      /\ DOMAIN flight \subseteq Nat /\ 0 \in DOMAIN flight /\ flight[0] = sender.msg
  BY <1>0, <1>1, TheCall
<1>3. /\ y \in Symbol /\ rm.ticker[y] = historical(k0)
      /\ \A z \in Symbol : rm.ticker[z] = historical(k0) => z = y
      /\ k0 \in PoolId /\ histOf(flight[0], k0) /\ k0 # 0
      /\ AnswerOK(k0, rm, flight, streams, history[s][k0])
      /\ sender.msg.last /\ sender.id = k0 /\ history[s][k0] \in HistEntry
  BY <1>0, <1>1, NamedAnswer
<1>4. /\ disp' = withoutRequest(disp, s, y)
      /\ history' = [history EXCEPT ![s][k0].isAvaliable = TRUE]
      /\ crashed' = (s \notin alive \/ (k0 # 0 /\ history[s][k0] = NoHist))
  BY <1>0, <1>2, <1>3 DEF removeOldHistoricalRequest
<1>5. ~crashed'
  <2>1. history[s][k0] = [bars |-> {y}, isAvaliable |-> FALSE]
    BY <1>0, <1>1, <1>3, EndReports
  <2>2. history[s][k0] # NoHist
    BY <2>1 DEF NoHist
  <2> QED
    BY <1>2, <1>4, <2>2
<1>6. /\ sender'.todo = {} /\ sender'.held = sender.held /\ sender'.called = {}
      /\ Handling'
      /\ DOMAIN new = DOMAIN flight \ {0}
      /\ \A p \in DOMAIN new : new[p] = flight[p]
  BY <1>1, CallEnds
<1> DEFINE h0 == history[s][k0]
           h1 == [h0 EXCEPT !.isAvaliable = TRUE]
           rm2 == removeReqData(rm, y, "RT_HISTORICAL_DATA")
<1>7. DispatcherOK(disp') /\ disp'.list = disp.list /\ disp'.owner = disp.owner
  BY <1>2, <1>4, WithoutRequestOK
<1>8. disp'.rm[i] = rm2
  BY <1>0, <1>2, <1>4 DEF withoutRequest, DispatcherOK, Dispatcher
<1>9. ItemsStay'
  BY <1>1, <1>6, <1>7 DEF HistoryInv, ItemsStay
<1>10. current(s)' = rm2
  <2>1. itemsOf(disp, s)' = itemsOf(disp, s)
    BY <1>7 DEF itemsOf
  <2>2. hasItem(disp, s)' /\ getSubscriberItem(disp, s)' = i
    BY <1>2, <2>1 DEF hasItem, getSubscriberItem
  <2> QED
    BY <1>8, <2>2 DEF current, registryOf
<1>11. \A k \in PoolId : history'[s][k] = IF k = k0 THEN h1 ELSE history[s][k]
  BY <1>2, <1>3, <1>4
<1>12. freshBars(h1) = {}
  <2>1. h1.isAvaliable
    BY <1>3 DEF HistEntry
  <2> QED
    BY <2>1 DEF freshBars
<1>13. /\ rm2.ids = rm.ids \ {historical(k0)}
       /\ \A z \in Symbol : rm2.ticker[z] = IF z = y THEN NoReq ELSE rm.ticker[z]
  BY <1>2, <1>3, EndedRegistry
<1> HIDE DEF rm2, new
<1>14. ASSUME NEW k \in PoolId
       PROVE  AnswerOK(k, rm2, new, streams, history'[s][k])
  <2>1. CASE k = k0
    <3>1. history'[s][k] = h1
      BY <1>11, <2>1
    <3>2. historical(k0) # NoReq
      BY DEF historical, NoReq
    <3>3. \A z \in Symbol : rm2.ticker[z] # historical(k0)
      BY <1>3, <1>13, <3>2
    <3>4. flight[0].last /\ histOf(flight[0], k0) /\ AnswerOK(k0, rm, flight, streams, h0)
      BY <1>2, <1>3
    <3> HIDE DEF h0, h1
    <3>5. AnswerOK(k0, rm2, new, streams, h1)
      BY <1>2, <1>6, <1>12, <3>3, <3>4, AnswerEndTaken
    <3> QED
      BY <2>1, <3>1, <3>5
  <2>2. CASE k # k0
    <3> DEFINE h == history[s][k]
    <3>1. AnswerOK(k, rm, flight, streams, h) /\ ~histOf(flight[0], k)
      BY <1>2, <1>3, <2>2 DEF histOf
    <3>2. history'[s][k] = h
      BY <1>11, <2>2
    <3>3. historical(k) # historical(k0) /\ historical(k) # NoReq
      BY <2>2 DEF historical, NoReq
    <3>4. /\ historical(k) \in rm2.ids <=> historical(k) \in rm.ids
          /\ \A z \in Symbol : rm2.ticker[z] = historical(k) => rm.ticker[z] = historical(k)
      BY <1>13, <3>3
    <3> HIDE DEF h
    <3>5. AnswerOK(k, rm, new, streams, h)
      BY <1>6, <3>1, AnswerDropped DEF new
    <3>6. AnswerOK(k, rm2, new, streams, h)
      BY <3>4, <3>5, AnswerRegistry
    <3> QED
      BY <3>2, <3>6
  <2> QED
    BY <2>1, <2>2
<1>15. AnswersOK'
  BY <1>1, <1>2, <1>10, <1>14 DEF AnswersOK, new
<1> QED
  BY <1>5, <1>6, <1>9, <1>15

-----------------------------------------------------------------------------
(* One subscriber that lives on and cancels nothing. *)
KeepsAll == OneSubscriber /\ CancelType = {} /\ Destroyable = {}

LEMMA HistoryInit == Init => HistoryInv
<1> SUFFICES ASSUME Init PROVE HistoryInv
  OBVIOUS
<1>1. TypeInv
  BY TypesInit
<1>2. ItemsStay /\ Handling /\ ~crashed
  BY DEF Init, ItemsStay, Handling, IdleSender, Pass
<1>3. Flying = {}
  <2>1. wire = <<>> /\ Len(wire) = 0 /\ sender.todo = {}
    BY DEF Init, IdleSender, Pass
  <2> QED
    BY <2>1 DEF Flying
<1>4. DOMAIN flight = {} /\ streams = {}
  BY <1>3 DEF flight, Init
<1>5. ASSUME NEW s \in Subscriber, NEW k \in PoolId
      PROVE  AnswerOK(k, current(s), flight, streams, history[s][k])
  <2>1. current(s) = EmptyRegistry
    BY DEF Init, current, hasItem, itemsOf
  <2>2. \A y \in Symbol : current(s).ticker[y] # historical(k)
    BY <2>1 DEF EmptyRegistry, historical, NoReq
  <2>3. history[s][k] = NoHist /\ freshBars(NoHist) = {}
    BY DEF Init, freshBars, NoHist
  <2> QED
    BY <1>4, <2>2, <2>3 DEF AnswerOK
<1> QED
  BY <1>1, <1>2, <1>5 DEF HistoryInv, AnswersOK

(* What is noted of an overlap is never forgotten. *)
LEMMA OverlapStays ==
  ASSUME [Next]_vars, overlapped
  PROVE  overlapped'
<1>1. ASSUME NEW s, NEW y, NEW r, noted(s, y, r) PROVE overlapped'
  BY <1>1, Zenon DEF noted
<1>2. CASE \E s \in Subscriber : RequestStep(s)
  BY <1>1, <1>2 DEF RequestStep, reqestRealTimeData, requestRealTimeBars,
     requestTickByTickData, requestCalculateOptionPrice, reqestHistoricalData,
     requestHistoricalTicksData, requestFor, requestPosition, requestResetSubscription,
     requestErrorNotificationSubscription, requestOrderStatusSubscription,
     bpReqAccountSummary, subscribeOnly, subscribeAndRequest
<1>3. CASE \E s \in Subscriber : CancelStep(s) \/ Destroy(s)
  BY <1>3 DEF CancelStep, cancelRealTimeData, cancelRealTimeBars, cancelTickByTickData,
     cancelCalculateOptionPrice, cancelPosition, cancelResetSubscription,
     cancelErrorNotificationSubscription, cancelOrderStatusubscription,
     bpCancelAccountSummary, cancelFor, unsubscribeOnly, Destroy, notes
<1>4. CASE WorkerStep
  BY <1>4 DEF WorkerStep, SendMessageToSubscribers, TestItem, MessageHandler, getIdFromRM,
     removeOldHistoricalRequest, EndSend, notes
<1>5. CASE BrokerStep
  BY <1>5 DEF BrokerStep, Answer, AnswerBar, AnswerEnd, AnswerError, Notify, Arrives
<1>6. CASE UNCHANGED vars
  BY <1>6 DEF vars, notes
<1> QED
  BY <1>2, <1>3, <1>4, <1>5, <1>6 DEF Next, GuiStep

LEMMA HistoryStep ==
  ASSUME KeepsAll, HistoryInv, [Next]_vars, ~overlapped'
  PROVE  HistoryInv'
<1>1. TypeInv'
  BY TypesStep DEF HistoryInv
<1>2. OneSubscriber
  BY DEF KeepsAll
<1>4. CASE GuiStep
  <2>1. PICK s \in Subscriber : RequestStep(s)
    BY <1>4 DEF GuiStep, KeepsAll, Destroy, CancelStep, CanCancel, cancelRealTimeData,
                cancelRealTimeBars, cancelTickByTickData, cancelCalculateOptionPrice,
                cancelPosition, cancelResetSubscription,
                cancelErrorNotificationSubscription, cancelOrderStatusubscription,
                bpCancelAccountSummary, cancelFor, unsubscribeOnly
  <2> QED
    BY <1>1, <1>2, <2>1, HistoryRequest DEF HistoryInv
<1>5. CASE SendMessageToSubscribers
  <2>1. ItemsStay' /\ AnswersOK' /\ Handling'
    BY <1>5, HistorySend
  <2> QED
    BY <1>1, <1>5, <2>1 DEF HistoryInv, SendMessageToSubscribers
<1>6. ASSUME NEW i \in Item, TestItem(i) PROVE HistoryInv'
  <2>1. ItemsStay' /\ AnswersOK' /\ Handling'
    BY <1>2, <1>6, HistoryTest
  <2> QED
    BY <1>1, <1>6, <2>1 DEF HistoryInv, TestItem
<1>7. ASSUME NEW i \in Item,
             MessageHandler(i) \/ getIdFromRM(i) \/ removeOldHistoricalRequest(i)
      PROVE  HistoryInv'
  BY <1>1, <1>2, <1>7, HistoryCalled, HistoryTaken, HistoryEnded DEF HistoryInv
<1>8. CASE EndSend
  <2>1. ItemsStay' /\ AnswersOK' /\ Handling' /\ ~crashed'
    BY <1>8, HistoryEndSend
  <2> QED
    BY <1>1, <1>8, <2>1 DEF HistoryInv, EndSend
<1>9. CASE BrokerStep
  BY <1>1, <1>9, HistoryBroker DEF HistoryInv
<1>10. CASE UNCHANGED vars
  <2>1. flight' = flight
    BY <1>10 DEF vars, flight, Flying
  <2>2. \A s : current(s)' = current(s)
    BY <1>10, CurrentKept DEF vars
  <2>3. Handling'
    BY <1>10, HandlingKept DEF vars, HistoryInv
  <2> QED
    BY <1>1, <1>10, <2>1, <2>2, <2>3 DEF vars, HistoryInv, ItemsStay, AnswersOK
<1> QED
  BY <1>4, <1>5, <1>6, <1>7, <1>8, <1>9, <1>10 DEF Next, WorkerStep

(* The inductive invariant: until a request overlaps the handling of an    *)
(* answer for its symbol.                                                  *)
UntilOverlap == TypeInv /\ (~overlapped => HistoryInv)

LEMMA UntilOverlapStep ==
  ASSUME KeepsAll, UntilOverlap, [Next]_vars
  PROVE  UntilOverlap'
<1>1. TypeInv'
  BY TypesStep DEF UntilOverlap
<1>2. ASSUME ~overlapped' PROVE HistoryInv'
  BY <1>2, OverlapStays, HistoryStep DEF UntilOverlap
<1> QED
  BY <1>1, <1>2 DEF UntilOverlap

(* A subscriber alone with the broker that cancels nothing uses a null or  *)
(* dangling pointer only after a request for a symbol came between the     *)
(* worker's look-ups for an answer of that symbol: until then the end of   *)
(* an answer always finds a bar of the same request, in whatever order its *)
(* requests of all types, messages of all kinds, errors and the worker's   *)
(* look-ups come.                                                          *)
THEOREM NoPointerLost ==
  ASSUME KeepsAll
  PROVE  Spec => []NoCrash
<1>1. Init => UntilOverlap
  BY HistoryInit DEF UntilOverlap, HistoryInv
<1>2. UntilOverlap /\ [Next]_vars => UntilOverlap'
  BY UntilOverlapStep
<1>3. UntilOverlap => NoCrash
  BY DEF UntilOverlap, HistoryInv, NoCrash, TypeInv, TypeOK
<1> QED
  BY <1>1, <1>2, <1>3, PTL DEF Spec

(* Until then it is given the bars of a request under the symbol they are  *)
(* of, although ids are used again as soon as they are free and a later    *)
(* request for the symbol takes its name away from an earlier one.         *)
THEOREM ReportedUnderItsOwn ==
  ASSUME KeepsAll
  PROVE  Spec => ReportedUnderItsSymbol
<1>1. Init => UntilOverlap
  BY HistoryInit DEF UntilOverlap, HistoryInv
<1>2. UntilOverlap /\ [Next]_vars => UntilOverlap'
  BY UntilOverlapStep
<1>3. UntilOverlap /\ [Next]_vars =>
        [\A i \in Item :
           removeOldHistoricalRequest(i) /\ sender.id # 0 /\ ~crashed' /\ ~overlapped =>
             history[disp.owner[i]][sender.id] =
               [bars |-> {sender.symbol}, isAvaliable |-> FALSE]]_vars
  BY EndReports DEF UntilOverlap, KeepsAll, removeOldHistoricalRequest
<1> QED
  BY <1>1, <1>2, <1>3, PTL DEF Spec, ReportedUnderItsSymbol

=============================================================================
