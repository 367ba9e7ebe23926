------------------------------- MODULE TwsApi -------------------------------
(***************************************************************************)
(* One request of the application, from the call of EClient to the answer  *)
(* in the hands of the subscribers: TwsRequests decides what becomes of    *)
(* the call, TWS answers, TwsDecoder reads the answer and calls            *)
(* IBComClientImpl back, which forwards it to the dispatcher under an id   *)
(* and a type.  EClient and EDecoder remember nothing between two calls    *)
(* but the connection and the version, so that requests with other ids     *)
(* change nothing here.                                                    *)
(*                                                                         *)
(* The steps of the handshake that ends with a version are those of module *)
(* TwsSession; here it is the time in which the client is connected and    *)
(* has no version, and the other thread may call it.  What the dispatcher  *)
(* does with an id and a type is module DataProvider.                      *)
(***************************************************************************)
EXTENDS TwsDecoder

CONSTANTS Versions,   \* the versions TWS may have
          MaxEntries, \* bound on the entries of a list in a message
          AnySet      \* whether the caller may set any attributes together

ASSUME VersionsAssumption == Versions \subseteq Version
ASSUME MaxEntriesAssumption == MaxEntries \in Nat
ASSUME AnySetAssumption == AnySet \in BOOLEAN

R == INSTANCE ReqManager WITH Ticker <- {}, MaxId <- 1

VARIABLES connected, \* isConnected, from the version request on
          call,      \* the last call, the version it found and its outcome
          served,    \* the request TWS is working on
          heard      \* what became of the last message

apiVars == <<version, connected, call, served, heard>>

NoCall == [request |-> "none", set |-> {}, at |-> NoVersion, result |-> Sent({})]
Nothing == [request |-> "none", message |-> "none", fields |-> {}, sends |-> <<>>]

(* What the caller may set: any attributes, but an order has one type; or, *)
(* for a check that visits all states, nothing, one attribute, or one      *)
(* along with what its field depends on.                                   *)
OneType(set) == Cardinality(set \cap OrderTypes) <= 1
ArgumentSets(row) ==
  LET one == {{a} : a \in Attributes(row)}
      along == UNION {{{a} \cup others : others \in row.needs[a]} : a \in DOMAIN row.needs}
  IN  IF AnySet THEN {set \in SUBSET Attributes(row) : OneType(set)}
      ELSE {{}} \cup one \cup {set \in along : set \subseteq Attributes(row) /\ OneType(set)}
-----------------------------------------------------------------------------
(* What the program asks of the library, besides what the library offers:  *)
(* the type under which CBrokerDataProvider registers the request, and the *)
(* id, its own or that of the subscription (an order is heard of through   *)
(* the subscription to order states).                                      *)
RegisteredAs ==
  [reqMktData |-> "RT_REQ_REL_DATA", reqHistoricalData |-> "RT_HISTORICAL_DATA",
   reqHistoricalTicks |-> "RT_HISTORICAL_TICK_DATA",
   reqRealTimeBars |-> "RT_REALTIME_BAR", reqTickByTickData |-> "RT_TICK_BY_TICK_DATA",
   calculateOptionPrice |-> "RT_REQ_OPTION_PRICE", reqPositions |-> "RT_REQ_POSITION",
   reqAccountSummary |-> "RT_REQ_ACCOUNT_SUMMURY", placeOrder |-> "RT_REQ_ORDER_STATUS"]

RegisteredId(request) ==
  IF RegisteredAs[request] \in R!FixedType THEN R!fixedId[RegisteredAs[request]] ELSE "own"

(* The request that ends another one. *)
CancelOf ==
  [reqMktData |-> "cancelMktData", reqMktDepth |-> "cancelMktDepth",
   reqHistoricalData |-> "cancelHistoricalData", reqRealTimeBars |-> "cancelRealTimeBars",
   reqScannerSubscription |-> "cancelScannerSubscription",
   reqFundamentalData |-> "cancelFundamentalData",
   calculateImpliedVolatility |-> "cancelCalculateImpliedVolatility",
   calculateOptionPrice |-> "cancelCalculateOptionPrice",
   reqHeadTimestamp |-> "cancelHeadTimestamp", reqHistogramData |-> "cancelHistogramData",
   reqTickByTickData |-> "cancelTickByTickData", reqNewsBulletins |-> "cancelNewsBulletins",
   reqWshMetaData |-> "cancelWshMetaData", reqWshEventData |-> "cancelWshEventData",
   reqPositions |-> "cancelPositions", reqAccountSummary |-> "cancelAccountSummary",
   reqPositionsMulti |-> "cancelPositionsMulti",
   reqAccountUpdatesMulti |-> "cancelAccountUpdatesMulti", reqPnL |-> "cancelPnL",
   reqPnLSingle |-> "cancelPnLSingle", placeOrder |-> "cancelOrder",
   subscribeToGroupEvents |-> "unsubscribeFromGroupEvents"]

(* The arguments of a cancel: market depth is cancelled as it was asked    *)
(* for, and cancelOrderAPI always gives the time "100".                    *)
CancelSet(request, set) ==
  CASE request = "reqMktDepth" -> set \cap {"isSmartDepth"}
    [] request = "placeOrder" -> {"manualOrderCancelTime"}
    [] OTHER -> {}

(* The messages TWS answers a request with.  Requests that are not listed  *)
(* are answered by nothing the library tells apart.                        *)
TwsAnswers ==
  [reqMktData |-> {"TICK_PRICE", "TICK_SIZE", "TICK_OPTION_COMPUTATION", "TICK_GENERIC",
                   "TICK_STRING", "TICK_EFP", "TICK_SNAPSHOT_END", "MARKET_DATA_TYPE",
                   "TICK_REQ_PARAMS", "TICK_NEWS", "REROUTE_MKT_DATA_REQ",
                   "DELTA_NEUTRAL_VALIDATION"},
   reqMktDepth |-> {"MARKET_DEPTH", "MARKET_DEPTH_L2", "REROUTE_MKT_DEPTH_REQ"},
   reqHistoricalData |-> {"HISTORICAL_DATA", "HISTORICAL_DATA_UPDATE", "HISTORICAL_SCHEDULE"},
   reqRealTimeBars |-> {"REAL_TIME_BARS"}, reqScannerParameters |-> {"SCANNER_PARAMETERS"},
   reqScannerSubscription |-> {"SCANNER_DATA"}, reqFundamentalData |-> {"FUNDAMENTAL_DATA"},
   calculateImpliedVolatility |-> {"TICK_OPTION_COMPUTATION"},
   calculateOptionPrice |-> {"TICK_OPTION_COMPUTATION"},
   reqContractDetails |-> {"CONTRACT_DATA", "BOND_CONTRACT_DATA", "CONTRACT_DATA_END"},
   reqCurrentTime |-> {"CURRENT_TIME"}, reqHeadTimestamp |-> {"HEAD_TIMESTAMP"},
   reqHistogramData |-> {"HISTOGRAM_DATA"},
   reqHistoricalTicks |-> {"HISTORICAL_TICKS", "HISTORICAL_TICKS_BID_ASK",
                           "HISTORICAL_TICKS_LAST"},
   reqTickByTickData |-> {"TICK_BY_TICK"}, reqMarketRule |-> {"MARKET_RULE"},
   reqSmartComponents |-> {"SMART_COMPONENTS"},
   reqMktDepthExchanges |-> {"MKT_DEPTH_EXCHANGES"},
   reqSecDefOptParams |-> {"SECURITY_DEFINITION_OPTION_PARAMETER",
                           "SECURITY_DEFINITION_OPTION_PARAMETER_END"},
   reqMatchingSymbols |-> {"SYMBOL_SAMPLES"}, reqFamilyCodes |-> {"FAMILY_CODES"},
   reqSoftDollarTiers |-> {"SOFT_DOLLAR_TIERS"}, reqNewsBulletins |-> {"NEWS_BULLETINS"},
   reqNewsProviders |-> {"NEWS_PROVIDERS"}, reqNewsArticle |-> {"NEWS_ARTICLE"},
   reqHistoricalNews |-> {"HISTORICAL_NEWS", "HISTORICAL_NEWS_END"},
   reqWshMetaData |-> {"WSH_META_DATA"}, reqWshEventData |-> {"WSH_EVENT_DATA"},
   reqAccountUpdates |-> {"ACCT_VALUE", "PORTFOLIO_VALUE", "ACCT_UPDATE_TIME",
                          "ACCT_DOWNLOAD_END"},
   reqManagedAccts |-> {"MANAGED_ACCTS"}, reqPositions |-> {"POSITION_DATA", "POSITION_END"},
   reqAccountSummary |-> {"ACCOUNT_SUMMARY", "ACCOUNT_SUMMARY_END"},
   reqPositionsMulti |-> {"POSITION_MULTI", "POSITION_MULTI_END"},
   reqAccountUpdatesMulti |-> {"ACCOUNT_UPDATE_MULTI", "ACCOUNT_UPDATE_MULTI_END"},
   reqPnL |-> {"PNL"}, reqPnLSingle |-> {"PNL_SINGLE"}, requestFA |-> {"RECEIVE_FA"},
   replaceFA |-> {"REPLACE_FA_END"}, reqUserInfo |-> {"USER_INFO"},
   verifyRequest |-> {"VERIFY_MESSAGE_API", "VERIFY_COMPLETED"},
   verifyAndAuthRequest |-> {"VERIFY_AND_AUTH_MESSAGE_API", "VERIFY_AND_AUTH_COMPLETED"},
   queryDisplayGroups |-> {"DISPLAY_GROUP_LIST"},
   subscribeToGroupEvents |-> {"DISPLAY_GROUP_UPDATED"},
   reqOpenOrders |-> {"OPEN_ORDER_END", "ORDER_BOUND"},
   reqCompletedOrders |-> {"COMPLETED_ORDER", "COMPLETED_ORDERS_END"},
   reqExecutions |-> {"EXECUTION_DATA", "EXECUTION_DATA_END"},
   reqIds |-> {"NEXT_VALID_ID"},
   placeOrder |-> {"OPEN_ORDER", "ORDER_STATUS", "EXECUTION_DATA",
                   "COMMISSION_REPORT"}]
-----------------------------------------------------------------------------
(* IBComClientImpl: the id and the type a callback is forwarded under.     *)
(* openOrder, openOrderEnd, execDetailsEnd, tickEFP, updateAccountValue    *)
(* only log, accountSummary collects values until accountSummaryEnd, error *)
(* is action Notified; the other callbacks have an empty body.             *)
To(id, type) == <<[id |-> id, type |-> type]>>

forwardTicks ==
  [tickPrice |-> To("own", "RT_TICK_PRICE"), tickSize |-> To("own", "RT_TICK_SIZE"),
   tickGeneric |-> To("own", "RT_TICK_GENERIC"), tickString |-> To("own", "RT_TICK_STRING"),
   historicalData |-> To("own", "RT_HISTORICAL_DATA"),
   historicalDataEnd |-> To("own", "RT_HISTORICAL_DATA"),
   realtimeBar |-> To("own", "RT_REALTIME_BAR"),
   updateMktDepth |-> To("own", "RT_MKT_DEPTH"),
   updateMktDepthL2 |-> To("own", "RT_MKT_DEPTH_L2"),
   tickOptionComputation |-> To("own", "RT_REQ_OPTION_PRICE")]
forwardSession == [nextValidId |-> To("own", "RT_NEXT_VALID_ID"),
                   currentTime |-> To("time", "RT_REQ_CUR_TIME")]
(* Mutant: commissions go out under the id of the account summary. *)
forwardOrdersToAccount ==
  [orderStatus |-> To(-6, "RT_ORDER_STATUS"), execDetails |-> To(-6, "RT_ORDER_EXECUTION"),
   commissionReport |-> To(-5, "RT_ORDER_COMMISSION"),
   position |-> To(-9, "RT_REQ_POSITION"), positionEnd |-> To(-9, "RT_REQ_POSITION"),
   accountSummaryEnd |-> To(-5, "RT_REQ_ACCOUNT_SUMMURY")]
forwardOrders ==
  [orderStatus |-> To(-6, "RT_ORDER_STATUS"), execDetails |-> To(-6, "RT_ORDER_EXECUTION"),
   commissionReport |-> To(-6, "RT_ORDER_COMMISSION"),
   position |-> To(-9, "RT_REQ_POSITION"), positionEnd |-> To(-9, "RT_REQ_POSITION"),
   accountSummaryEnd |-> To(-5, "RT_REQ_ACCOUNT_SUMMURY")]
forwardTickByTick == [historicalTicksLast |-> To("own", "RT_TICK_BY_TICK_DATA"),
                      tickByTickAllLast |-> To("own", "RT_TICK_BY_TICK_DATA")]

Forward ==
  With(With(forwardTicks, forwardSession), With(forwardOrders, forwardTickByTick))
Forwarded(run) ==
  [i \in 1 .. Len(run) |->
     IF run[i] \in DOMAIN Forward THEN Forward[run[i]] ELSE <<>>]

(* What error() does with an id and a code: a request refused for want of  *)
(* a connection, told to no request in particular, dials; news of a lost   *)
(* or failed connection restarts the subscriptions.                        *)
errorDials(id, code) == id = "all" /\ code = "NOT_CONNECTED"
errorSends(code) ==
  CASE code \in {"CONNECT_FAIL", "RESTORED_DATA_LOST", "RESTORED"} ->
         To(-7, "RT_REQ_RESTART_SUBSCRIPTION")
    [] code = "NO_SECURITY" -> To(-4, "RT_REQ_ERROR_SUBSRIPTION")
    [] OTHER -> <<>>
-----------------------------------------------------------------------------
ApiInit ==
  /\ version = NoVersion
  /\ connected = FALSE
  /\ call = NoCall
  /\ served = NoCall
  /\ heard = Nothing

(* connectAPI at the command of the user: the handshake begins. *)
Dialled ==
  /\ ~connected
  /\ connected' = TRUE
  /\ UNCHANGED <<version, call, served, heard>>

(* The handshake ends with the version TWS announces. *)
Answered(v) ==
  /\ connected
  /\ begins(v)
  /\ UNCHANGED <<connected, call, served, heard>>

(* The connection ends, in its handshake or after it; TWS forgets what it  *)
(* served.                                                                 *)
Lost ==
  /\ connected /\ connected' = FALSE
  /\ version' = NoVersion
  /\ call' = NoCall
  /\ served' = NoCall
  /\ heard' = Nothing

(* The application calls a request of the library.  reqIds is called with  *)
(* -1, the number that is taken for an id if there is no connection.       *)
(* error() may begin a handshake, or fail to.  TWS works on no request     *)
(* that comes before startApi, which follows the handshake.                *)
Call(request, set) ==
  /\ call = NoCall
  /\ LET result == Outcome(Requests[request], connected, version, set)
         id == IF result.id = "num" THEN "all" ELSE result.id
         made == [request |-> request, set |-> set, at |-> version,
                  result |-> [result EXCEPT !.id = id]]
     IN  /\ call' = made
         /\ served' = IF /\ result.kind = "sent" /\ request \in DOMAIN TwsAnswers
                         /\ version # NoVersion
                      THEN made ELSE NoCall
         /\ connected' \in IF result.kind = "refused" /\ errorDials(id, result.code)
                           THEN BOOLEAN ELSE {connected}
  /\ heard' = Nothing
  /\ UNCHANGED version

(* The application is done with the call; nothing of it is left. *)
Done ==
  /\ call # NoCall
  /\ served = NoCall
  /\ call' = NoCall
  /\ heard' = Nothing
  /\ UNCHANGED <<version, connected, served>>

(* It cancels the request TWS is working on. *)
Cancel ==
  /\ served.request \in DOMAIN CancelOf
  /\ call = served
  /\ LET cancel == CancelOf[served.request]
         set == CancelSet(served.request, served.set)
         result == Outcome(Requests[cancel], connected, version, set)
     IN  /\ call' = [request |-> cancel, set |-> set, at |-> version, result |-> result]
         /\ served' = IF result.kind = "sent" THEN NoCall ELSE served
  /\ heard' = Nothing
  /\ UNCHANGED <<version, connected>>

(* TWS describes an open order with the fields placeOrder sends, for the   *)
(* same versions.  A decoder that looks for other fields than were written *)
(* takes the values of one for another.                                    *)
Misread(handler, v) ==
  \E f \in DOMAIN handler.reads \cap DOMAIN placeOrder.writes :
    (v \in handler.reads[f]) # (v \in placeOrder.writes[f])

ReadBack(message, v, fields) ==
  CASE message # "OPEN_ORDER" -> {}
    [] message = "OPEN_ORDER" /\ Misread(processOpenOrderMsg, v) -> {"misread"}
    [] OTHER -> Read(processOpenOrderMsg, v, fields)

(* A message of TWS arrives, whole or cut short. *)
Arrives(message, entries, whole) ==
  /\ served # NoCall
  /\ message \in TwsAnswers[served.request]
  /\ \E run \in CallbackRuns(Incoming[message], entries) :
       heard' = [request |-> served.request, message |-> message,
                 fields |-> IF whole THEN ReadBack(message, version, served.result.fields)
                                     ELSE {},
                 sends |-> IF whole THEN Forwarded(run) ELSE <<>>]
  /\ UNCHANGED <<version, connected, call, served>>

(* TWS reports an error or a change of the connection to its servers; that *)
(* an attempt to connect failed is the client's own news.                  *)
Notified(code) ==
  /\ (code = "CONNECT_FAIL") = (version = NoVersion)
  /\ heard' = [Nothing EXCEPT !.message = "ERR_MSG", !.sends = <<errorSends(code)>>]
  /\ UNCHANGED <<version, connected, call, served>>

ErrorCode == {"CONNECT_FAIL", "RESTORED_DATA_LOST", "RESTORED", "NO_SECURITY", "OTHER"}

ApiNext ==
  \/ Dialled
  \/ \E v \in Versions : Answered(v)
  \/ Lost
  \/ \E request \in DOMAIN Requests :
       \E set \in ArgumentSets(Requests[request]) : Call(request, set)
  \/ Done
  \/ Cancel
  \/ \E message \in Message, entries \in 0 .. MaxEntries, whole \in BOOLEAN :
       Arrives(message, entries, whole)
  \/ \E code \in ErrorCode : Notified(code)

ApiSpec == ApiInit /\ [][ApiNext]_apiVars
-----------------------------------------------------------------------------
(* The attributes that some versions lose without a word: there is a test  *)
(* around the field but none that refuses the request.                     *)
DroppedBefore ==
  [reqMktData |-> [regulatorySnapshot |-> "REQ_SMART_COMPONENTS"],
   reqHistoricalData |-> [keepUpToDate |-> "SYNT_REALTIME_BARS"],
   reqScannerSubscription |-> [filterOptions |-> "SCANNER_GENERIC_OPTS"],
   reqNewsArticle |-> [options |-> "NEWS_QUERY_ORIGINS"],
   reqHistoricalNews |-> [options |-> "NEWS_QUERY_ORIGINS"],
   replaceFA |-> [reqId |-> "REPLACE_FA_END"],
   placeOrder |-> [fractionOfQuantity |-> "FRACTIONAL_POSITIONS",
                   pegBenchFields |-> "PEGGED_TO_BENCHMARK",
                   conditions |-> "PEGGED_TO_BENCHMARK",
                   conditionsCancelOrder |-> "PEGGED_TO_BENCHMARK",
                   adjustedOrder |-> "PEGGED_TO_BENCHMARK"]]

Dropped(request, a) ==
  IF request \in DOMAIN DroppedBefore /\ a \in DOMAIN DroppedBefore[request]
  THEN Before(DroppedBefore[request][a]) ELSE {}

(* What the caller sets, TWS receives: in every version, a request that is *)
(* sent carries every attribute the caller has set along with what it      *)
(* depends on, the dropped ones excepted.  The tests that refuse a request *)
(* and the ones that write a field are far apart in the code.  A request   *)
(* that is made while the handshake of the other thread lasts is written   *)
(* for version 0: it may lose, without a word, the attributes that no test *)
(* of their own protects, but no other.                                    *)
NothingLost ==
  call.request # "none" /\ call.result.kind = "sent" =>
    \A a \in call.set \ {"badText"} :
      \/ a \in call.result.fields
      \/ ~Accompanied(Requests[call.request], a, call.set)
      \/ call.at \in Dropped(call.request, a)
      \/ call.at = NoVersion /\ a \notin DOMAIN Requests[call.request].accepts

(* The cancels some versions refuse for a request they know: that of the   *)
(* time of the first data, and that of an order with the time that         *)
(* cancelOrderAPI always gives.                                            *)
CannotCancel(request, v) ==
  \/ request = "reqHeadTimestamp" /\ v \in Before("CANCEL_HEADTIMESTAMP")
  \/ request = "placeOrder" /\ v \in Before("MANUAL_ORDER_TIME")

(* After a cancel TWS is no longer working on the request: whatever        *)
(* version accepts a request accepts the call that ends it.                *)
CancelEnds ==
  served.request \in DOMAIN CancelOf /\ call.request = CancelOf[served.request] =>
    CannotCancel(served.request, version)

(* The messages with the data of the program's requests.  Historical ticks *)
(* and the price of an option are not among them: they are forwarded under *)
(* another type than their request is registered with, and so reach        *)
(* nobody; ticks of bid and ask or of the midpoint only have an empty      *)
(* callback.                                                               *)
DataOf ==
  [reqMktData |-> {"TICK_PRICE", "TICK_SIZE", "TICK_OPTION_COMPUTATION", "TICK_GENERIC",
                   "TICK_STRING"},
   reqHistoricalData |-> {"HISTORICAL_DATA"}, reqRealTimeBars |-> {"REAL_TIME_BARS"},
   reqPositions |-> {"POSITION_DATA", "POSITION_END"},
   reqAccountSummary |-> {"ACCOUNT_SUMMARY_END"},
   placeOrder |-> {"ORDER_STATUS", "EXECUTION_DATA", "COMMISSION_REPORT"}]

(* An answer that carries data of a request of the program is forwarded,   *)
(* every callback of it, under the id and type the request is registered   *)
(* with: the dispatcher will find the subscriber.                          *)
AnswersReach ==
  heard.request \in DOMAIN DataOf /\ heard.message \in DataOf[heard.request] =>
    \A i \in DOMAIN heard.sends :
      /\ heard.sends[i] # <<>>
      /\ heard.sends[i][1].id = RegisteredId(heard.request)
      /\ R!keyOf(heard.sends[i][1].type) = RegisteredAs[heard.request]

(* An order comes back as it was sent: in every version the decoder of     *)
(* open orders reads exactly the fields placeOrder writes, and none of     *)
(* them is lost.  (The pointer to the delta neutral contract it returns    *)
(* is to a variable that no longer exists; nobody follows it.)             *)
OrderComesBack ==
  heard.message = "OPEN_ORDER" /\ heard.fields # {} =>
    heard.fields = served.result.fields \cap DOMAIN processOpenOrderMsg.reads
=============================================================================
