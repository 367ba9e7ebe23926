----------------------------- MODULE ReqManager -----------------------------
(***************************************************************************)
(* The request registry of one subscriber: ReqManager (the list of active  *)
(* (id, type) pairs) and GlobalReqManager (the list plus the map from a    *)
(* symbol to its active request).  Every operation is a function from a    *)
(* registry value to a result or to the new registry; the modules that     *)
(* keep registries in their state apply them.                              *)
(*                                                                         *)
(* m_listIDs is a QList that addReqIds never lets hold a pair twice, and   *)
(* nothing depends on its order: it is a set here.  m_tickerMap is a QMap: *)
(* one entry per symbol, a second insert replaces the first.               *)
(***************************************************************************)
EXTENDS Integers, FiniteSets

CONSTANTS Ticker,    \* the symbols of instruments, e.g. AAPL
          MaxId      \* bound on the pool of request ids (2^31 - 2 in the code)

ASSUME MaxIdAssumption == MaxId \in Nat \ {0}

(* The request types that are keys of a registration; response types such  *)
(* as RT_TICK_PRICE are never registered, only looked up.                  *)
KeyedType == {"RT_REQ_REL_DATA", "RT_REALTIME_BAR", "RT_TICK_BY_TICK_DATA",
              "RT_REQ_OPTION_PRICE"}
OneShotType == {"RT_HISTORICAL_DATA", "RT_HISTORICAL_TICK_DATA"}
FixedType == {"RT_REQ_POSITION", "RT_REQ_RESTART_SUBSCRIPTION",
              "RT_REQ_ORDER_STATUS", "RT_REQ_ACCOUNT_SUMMURY",
              "RT_REQ_ERROR_SUBSRIPTION"}
ReqType == KeyedType \cup OneShotType \cup FixedType

(* tENonPermReqId and the constant symbols of GlobalDef.h: a subscription  *)
(* that names no instrument has one id and one symbol of its own.          *)
fixedId == [t \in FixedType |->
              CASE t = "RT_REQ_POSITION" -> -9
                [] t = "RT_REQ_RESTART_SUBSCRIPTION" -> -7
                [] t = "RT_REQ_ORDER_STATUS" -> -6
                [] t = "RT_REQ_ACCOUNT_SUMMURY" -> -5
                [] t = "RT_REQ_ERROR_SUBSRIPTION" -> -4]

fixedSymbol == [t \in FixedType |->
                  CASE t = "RT_REQ_POSITION" -> "Position"
                    [] t = "RT_REQ_RESTART_SUBSCRIPTION" -> "Restart"
                    [] t = "RT_REQ_ORDER_STATUS" -> "OrderStatus"
                    [] t = "RT_REQ_ACCOUNT_SUMMURY" -> "AccSum"
                    [] t = "RT_REQ_ERROR_SUBSRIPTION" -> "Error"]

FixedSymbol == {"Position", "Restart", "OrderStatus", "AccSum", "Error"}
Symbol == Ticker \cup FixedSymbol

(* The empty QString, which is what a failed look-up returns. *)
NoSymbol == ""

ASSUME TickerAssumption == Ticker \cap (FixedSymbol \cup {NoSymbol}) = {}

PoolId == 1 .. MaxId
ReqId == PoolId \cup (-9 .. -4)

Request == [id : ReqId, type : ReqType]
NoReq == [id |-> 0, type |-> "RT_REQ_NONE"]

Registry == [ids : SUBSET Request, ticker : [Symbol -> Request \cup {NoReq}]]
EmptyRegistry == [ids |-> {}, ticker |-> [s \in Symbol |-> NoReq]]

-----------------------------------------------------------------------------
(* ReqManager *)

(* mapReqToResponseIds: the request type under which a response of type t  *)
(* is looked up.  RT_REQ_OPTION_PRICE is listed under real-time data.      *)
keyOf(t) ==
  IF t \in {"RT_TICK_SIZE", "RT_TICK_PRICE", "RT_TICK_GENERIC",
            "RT_TICK_STRING", "RT_REQ_OPTION_PRICE"}
  THEN "RT_REQ_REL_DATA"
  ELSE IF t \in {"RT_ORDER_STATUS", "RT_ORDER_EXECUTION", "RT_ORDER_COMMISSION"}
       THEN "RT_REQ_ORDER_STATUS"
       ELSE t

addReqIds(ids, r) == ids \cup {r}

removeReqIds(ids, r) == ids \ {r}

isPresent(rm, id, t) == [id |-> id, type |-> keyOf(t)] \in rm.ids

-----------------------------------------------------------------------------
(* GlobalReqManager *)

(* Mutant: an id is looked for among the symbols' current requests only.   *)
isIdFreeInMap(rm, id) == \A s \in Symbol : rm.ticker[s].id # id

isIdFree(rm, id) == \A r \in rm.ids : r.id # id

(* Mutants: the next id is the number of active requests plus one; it is   *)
(* the highest active one plus one.                                        *)
nextIdByCount(rm) == Cardinality(rm.ids) + 1
nextIdAfterLast(rm) ==
  CHOOSE k \in 1 .. (MaxId + 1) :
    /\ \A r \in rm.ids : r.id < k
    /\ k = 1 \/ \E r \in rm.ids : r.id = k - 1

(* The first id of the pool that is free; 0 if the scan finds none. *)
getNextFreeId(rm) ==
  LET First(i) == isIdFree(rm, i) /\ \A j \in 1 .. (i - 1) : ~isIdFree(rm, j)
  IN  IF \E i \in PoolId : First(i) THEN CHOOSE i \in PoolId : First(i) ELSE 0

getIdbySymbol(rm, symbol, t) ==
  IF symbol \in Symbol /\ rm.ticker[symbol].type = t
  THEN rm.ticker[symbol].id
  ELSE 0

(* The overload that first looks for the id the symbol already has. *)
getNextFreeIdFor(rm, symbol, t) ==
  IF getIdbySymbol(rm, symbol, t) # 0
  THEN getIdbySymbol(rm, symbol, t)
  ELSE getNextFreeId(rm)

(* The code takes the first match in key order; TickerInjective (module    *)
(* DataProvider) shows that there is never more than one.                  *)
getSymbolById(rm, id, t) ==
  LET match == {s \in Symbol : rm.ticker[s] = [id |-> id, type |-> t]}
  IN  IF match = {} THEN NoSymbol ELSE CHOOSE s \in match : TRUE

getReqData(rm, symbol, t) ==
  IF rm.ticker[symbol].type = t THEN rm.ticker[symbol] ELSE NoReq

addReqIdsExt(rm, symbol, r) ==
  [ids    |-> addReqIds(rm.ids, r),
   ticker |-> [rm.ticker EXCEPT ![symbol] = r]]

(* Mutant: an empty symbol is looked up as it is. *)
removeNamedItem(rm, symbol, r) ==
  IF symbol \in Symbol /\ rm.ticker[symbol] = r
  THEN [rm.ticker EXCEPT ![symbol] = NoReq]
  ELSE rm.ticker

(* An empty symbol stands for the one the request has in the map. *)
removeItemFromTickerMap(rm, symbol, r) ==
  LET target == IF symbol = NoSymbol THEN getSymbolById(rm, r.id, r.type) ELSE symbol
  IN  IF target \in Symbol /\ rm.ticker[target] = r
      THEN [rm.ticker EXCEPT ![target] = NoReq]
      ELSE rm.ticker

(* The count of remaining equal entries that removeItemFromTickerMap       *)
(* returns is always 0, a QMap having one entry per symbol: the pair       *)
(* always leaves the list too.                                             *)
removeReqIdsExt(rm, symbol, r) ==
  [ids    |-> removeReqIds(rm.ids, r),
   ticker |-> removeItemFromTickerMap(rm, symbol, r)]

(* The entry of the symbol goes if it has type t.  (The loop of the code   *)
(* ends after one removal, before it would use the erased iterator.)       *)
removeReqData(rm, symbol, t) ==
  IF symbol \in Symbol /\ rm.ticker[symbol].type = t
  THEN removeReqIdsExt(rm, symbol, rm.ticker[symbol])
  ELSE rm

=============================================================================
