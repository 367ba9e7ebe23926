----------------------------- MODULE TwsRequests -----------------------------
(***************************************************************************)
(* The requests of the TWS client library (class EClient): what each of    *)
(* its functions does with the version that was negotiated with TWS.       *)
(*                                                                         *)
(* All of them have one shape.  Without a connection the request is        *)
(* refused with NOT_CONNECTED; below the version that introduced it, and   *)
(* below the version of an attribute the caller has set, it is refused     *)
(* with UPDATE_TWS; otherwise a message is composed field by field, where  *)
(* many fields are written for some versions only, and sent.  A string     *)
(* that is not printable ASCII stops the composition with an exception     *)
(* that the function catches, or not.  EClient keeps no state of its own   *)
(* besides the connection and the version: a request is a record of those  *)
(* rules, and Outcome applies them.  While the handshake lasts the client  *)
(* is connected and its version 0, which is older than all.                *)
(*                                                                         *)
(*   offline  the id the refusal without connection is told to: the id of  *)
(*            the request ("own"), NO_VALID_ID = -1 ("all"), or the number *)
(*            of ids asked for, which is passed in place of an id ("num")  *)
(*   since    the versions that know the request                           *)
(*   told     the id the refusal of those versions is told to              *)
(*   accepts  for an attribute, the versions in which setting it is no     *)
(*            reason to refuse                                             *)
(*   writes   for an attribute, the versions whose message has its field   *)
(*   needs    for an attribute, the sets of other attributes one of which  *)
(*            must be set too for the field to be written                  *)
(*   text     what becomes of an unprintable string: "own" and "all" are   *)
(*            the id of the error, "thrown" leaves the function, "none"    *)
(*            means that the request has no string                         *)
(*                                                                         *)
(* Attributes that are always tested and written together are one          *)
(* attribute here, named for the first or for the group; fields that are   *)
(* written in every version and never refused are not listed.              *)
(***************************************************************************)
EXTENDS TwsVersion, FiniteSets

(* Two tables made one; no name is in both. *)
With(f, g) ==
  [x \in DOMAIN f \cup DOMAIN g |-> IF x \in DOMAIN f THEN f[x] ELSE g[x]]

MinServerVer ==
  [PTA_ORDERS |-> 39, FUNDAMENTAL_DATA |-> 40, DELTA_NEUTRAL |-> 40,
   SCALE_ORDERS2 |-> 40, ALGO_ORDERS |-> 41,
   NOT_HELD |-> 44, SEC_ID_TYPE |-> 45, PLACE_ORDER_CONID |-> 46,
   REQ_MKT_DATA_CONID |-> 47, REQ_CALC_IMPLIED_VOLAT |-> 49,
   REQ_CALC_OPTION_PRICE |-> 50, CANCEL_CALC_IMPLIED_VOLAT |-> 50,
   CANCEL_CALC_OPTION_PRICE |-> 50, SSHORTX_OLD |-> 51, SSHORTX |-> 52,
   REQ_GLOBAL_CANCEL |-> 53, HEDGE_ORDERS |-> 54, REQ_MARKET_DATA_TYPE |-> 55,
   OPT_OUT_SMART_ROUTING |-> 56, SMART_COMBO_ROUTING_PARAMS |-> 57,
   DELTA_NEUTRAL_CONID |-> 58, SCALE_ORDERS3 |-> 60,
   ORDER_COMBO_LEGS_PRICE |-> 61, TRAILING_PERCENT |-> 62,
   DELTA_NEUTRAL_OPEN_CLOSE |-> 66, POSITIONS |-> 67, ACCOUNT_SUMMARY |-> 67,
   TRADING_CLASS |-> 68, SCALE_TABLE |-> 69, LINKING |-> 70, ALGO_ID |-> 71,
   ORDER_SOLICITED |-> 73, LINKING_AUTH |-> 74, PRIMARYEXCH |-> 75,
   RANDOMIZE_SIZE_AND_PRICE |-> 76,
   FRACTIONAL_POSITIONS |-> 101, PEGGED_TO_BENCHMARK |-> 102,
   MODELS_SUPPORT |-> 103, SEC_DEF_OPT_PARAMS_REQ |-> 104,
   EXT_OPERATOR |-> 105, SOFT_DOLLAR_TIER |-> 106, REQ_FAMILY_CODES |-> 107,
   REQ_MATCHING_SYMBOLS |-> 108, MD_SIZE_MULTIPLIER |-> 110, CASH_QTY |-> 111,
   REQ_MKT_DEPTH_EXCHANGES |-> 112, REQ_SMART_COMPONENTS |-> 114,
   REQ_NEWS_PROVIDERS |-> 115, REQ_NEWS_ARTICLE |-> 116,
   REQ_HISTORICAL_NEWS |-> 117, REQ_HEAD_TIMESTAMP |-> 118,
   REQ_HISTOGRAM |-> 119, SERVICE_DATA_TYPE |-> 120, AGG_GROUP |-> 121,
   UNDERLYING_INFO |-> 122, CANCEL_HEADTIMESTAMP |-> 123,
   SYNT_REALTIME_BARS |-> 124, MARKET_RULES |-> 126, PNL |-> 127,
   NEWS_QUERY_ORIGINS |-> 128, UNREALIZED_PNL |-> 129, HISTORICAL_TICKS |-> 130,
   MARKET_CAP_PRICE |-> 131, REAL_EXPIRATION_DATE |-> 134, REALIZED_PNL |-> 135,
   LAST_LIQUIDITY |-> 136, TICK_BY_TICK |-> 137, DECISION_MAKER |-> 138,
   MIFID_EXECUTION |-> 139, TICK_BY_TICK_IGNORE_SIZE |-> 140,
   AUTO_PRICE_FOR_HEDGE |-> 141, WHAT_IF_EXT_FIELDS |-> 142,
   SCANNER_GENERIC_OPTS |-> 143, ORDER_CONTAINER |-> 145, SMART_DEPTH |-> 146,
   D_PEG_ORDERS |-> 148, MKT_DEPTH_PRIM_EXCHANGE |-> 149,
   COMPLETED_ORDERS |-> 150, PRICE_MGMT_ALGO |-> 151, STOCK_TYPE |-> 152,
   PRICE_BASED_VOLATILITY |-> 156, REPLACE_FA_END |-> 157, DURATION |-> 158,
   POST_TO_ATS |-> 160, WSHE_CALENDAR |-> 161, AUTO_CANCEL_PARENT |-> 162,
   FRACTIONAL_SIZE_SUPPORT |-> 163, SIZE_RULES |-> 164,
   HISTORICAL_SCHEDULE |-> 165, ADVANCED_ORDER_REJECT |-> 166,
   USER_INFO |-> 167, MANUAL_ORDER_TIME |-> 169,
   PEGBEST_PEGMID_OFFSETS |-> 170, WSH_EVENT_DATA_FILTERS |-> 171,
   WSH_EVENT_DATA_FILTERS_DATE |-> 173, BOND_ISSUERID |-> 176,
   FA_PROFILE_DESUPPORT |-> 177, PENDING_PRICE_REVISION |-> 178,
   FUND_DATA_FIELDS |-> 179, MANUAL_ORDER_TIME_EXERCISE_OPTIONS |-> 180]

Since(name) == {v \in Version : v >= MinServerVer[name]}
Before(name) == AnyVersion \ Since(name)

(* The common shapes: a request told of under its own id; one whose        *)
(* refusals name no request; the latter, known from a version on.          *)
Plain == [offline |-> "own", since |-> AnyVersion, told |-> "own",
          accepts |-> <<>>, writes |-> <<>>, needs |-> <<>>, text |-> "none"]
Global == [Plain EXCEPT !.offline = "all", !.told = "all"]
From(name) == [Global EXCEPT !.since = Since(name)]
Text(row) == [row EXCEPT !.text = "own"]

(* Market data. *)
reqMktData ==
  [Plain EXCEPT !.text = "own",
     !.accepts = [deltaNeutralContract |-> Since("DELTA_NEUTRAL"),
                  conId |-> Since("REQ_MKT_DATA_CONID"),
                  tradingClass |-> Since("TRADING_CLASS")],
     !.writes = [conId |-> Since("REQ_MKT_DATA_CONID"),
                 tradingClass |-> Since("TRADING_CLASS"),
                 BAG |-> AnyVersion, comboLegs |-> AnyVersion,
                 deltaNeutralContract |-> Since("DELTA_NEUTRAL"),
                 snapshot |-> AnyVersion,
                 regulatorySnapshot |-> Since("REQ_SMART_COMPONENTS"),
                 options |-> Since("LINKING")],
     !.needs = [comboLegs |-> {{"BAG"}}]]
cancelMktData == Plain

reqMktDepth ==
  [Plain EXCEPT !.text = "own",
     !.accepts = [conId |-> Since("TRADING_CLASS"),
                  tradingClass |-> Since("TRADING_CLASS"),
                  isSmartDepth |-> Since("SMART_DEPTH"),
                  primaryExchange |-> Since("MKT_DEPTH_PRIM_EXCHANGE")],
     !.writes = [conId |-> Since("TRADING_CLASS"),
                 primaryExchange |-> Since("MKT_DEPTH_PRIM_EXCHANGE"),
                 tradingClass |-> Since("TRADING_CLASS"),
                 isSmartDepth |-> Since("SMART_DEPTH"),
                 options |-> Since("LINKING")]]
cancelMktDepth ==
  [Plain EXCEPT !.accepts = [isSmartDepth |-> Since("SMART_DEPTH")],
                !.writes = [isSmartDepth |-> Since("SMART_DEPTH")]]

reqHistoricalData ==
  [Plain EXCEPT !.text = "own",
     !.accepts = [conId |-> Since("TRADING_CLASS"),
                  tradingClass |-> Since("TRADING_CLASS"),
                  SCHEDULE |-> Since("HISTORICAL_SCHEDULE")],
     !.writes = [VERSION |-> Before("SYNT_REALTIME_BARS"),
                 conId |-> Since("TRADING_CLASS"),
                 tradingClass |-> Since("TRADING_CLASS"),
                 SCHEDULE |-> AnyVersion, BAG |-> AnyVersion, comboLegs |-> AnyVersion,
                 keepUpToDate |-> Since("SYNT_REALTIME_BARS"),
                 options |-> Since("LINKING")],
     !.needs = [comboLegs |-> {{"BAG"}}]]
cancelHistoricalData == Plain

reqRealTimeBars ==
  [Plain EXCEPT !.text = "own",
     !.accepts = [conId |-> Since("TRADING_CLASS"),
                  tradingClass |-> Since("TRADING_CLASS")],
     !.writes = [conId |-> Since("TRADING_CLASS"),
                 tradingClass |-> Since("TRADING_CLASS"),
                 options |-> Since("LINKING")]]
cancelRealTimeBars == Plain

reqScannerParameters == Global
reqScannerSubscription ==
  [Plain EXCEPT !.text = "own",
     !.writes = [VERSION |-> Before("SCANNER_GENERIC_OPTS"),
                 filterOptions |-> Since("SCANNER_GENERIC_OPTS"),
                 options |-> Since("LINKING")]]
cancelScannerSubscription == Plain

reqFundamentalData ==
  [Plain EXCEPT !.since = Since("FUNDAMENTAL_DATA"), !.told = "all",
     !.text = "own",
     !.accepts = [conId |-> Since("TRADING_CLASS")],
     !.writes = [conId |-> Since("TRADING_CLASS"), options |-> Since("LINKING")]]
cancelFundamentalData ==
  [Plain EXCEPT !.since = Since("FUNDAMENTAL_DATA"), !.told = "all"]

calculateImpliedVolatility ==
  [Plain EXCEPT !.offline = "all", !.since = Since("REQ_CALC_IMPLIED_VOLAT"),
     !.text = "own",
     !.accepts = [tradingClass |-> Since("TRADING_CLASS")],
     !.writes = [tradingClass |-> Since("TRADING_CLASS"),
                 options |-> Since("LINKING")]]
cancelCalculateImpliedVolatility ==
  [Plain EXCEPT !.offline = "all", !.since = Since("CANCEL_CALC_IMPLIED_VOLAT")]
calculateOptionPrice ==
  [Plain EXCEPT !.offline = "all", !.since = Since("REQ_CALC_OPTION_PRICE"),
     !.text = "own",
     !.accepts = [tradingClass |-> Since("TRADING_CLASS")],
     !.writes = [tradingClass |-> Since("TRADING_CLASS"),
                 options |-> Since("LINKING")]]
cancelCalculateOptionPrice ==
  [Plain EXCEPT !.offline = "all", !.since = Since("CANCEL_CALC_OPTION_PRICE")]

reqContractDetails ==
  [Plain EXCEPT !.offline = "all", !.text = "own",
     !.accepts = [secId |-> Since("SEC_ID_TYPE"),
                  tradingClass |-> Since("TRADING_CLASS"),
                  primaryExchange |-> Since("LINKING"),
                  issuerId |-> Since("BOND_ISSUERID")],
     !.writes = [primaryExchange |-> Since("LINKING"),
                 tradingClass |-> Since("TRADING_CLASS"),
                 secId |-> Since("SEC_ID_TYPE"),
                 issuerId |-> Since("BOND_ISSUERID")]]
reqCurrentTime == Global

reqHeadTimestamp == Text(From("REQ_HEAD_TIMESTAMP"))
cancelHeadTimestamp == From("CANCEL_HEADTIMESTAMP")
reqHistogramData == Text(From("REQ_HISTOGRAM"))
(* Mutant: the version of a later request is asked for. *)
cancelHistogramDataSinceCalendars == From("WSHE_CALENDAR")
cancelHistogramData == From("REQ_HEAD_TIMESTAMP")
reqHistoricalTicks == Text(From("HISTORICAL_TICKS"))
reqTickByTickData ==
  [From("TICK_BY_TICK") EXCEPT !.text = "own",
     !.accepts = [numberOfTicks |-> Since("TICK_BY_TICK_IGNORE_SIZE"),
                  ignoreSize |-> Since("TICK_BY_TICK_IGNORE_SIZE")],
     !.writes = [numberOfTicks |-> Since("TICK_BY_TICK_IGNORE_SIZE"),
                 ignoreSize |-> Since("TICK_BY_TICK_IGNORE_SIZE")]]
cancelTickByTickData == From("TICK_BY_TICK")
reqMarketRule == From("MARKET_RULES")
reqMarketDataType == From("REQ_MARKET_DATA_TYPE")
reqSmartComponents == Text(From("REQ_SMART_COMPONENTS"))
reqMktDepthExchanges == From("REQ_MKT_DEPTH_EXCHANGES")
reqSecDefOptParams == Text(From("SEC_DEF_OPT_PARAMS_REQ"))
reqMatchingSymbols == Text(From("REQ_MATCHING_SYMBOLS"))
reqFamilyCodes == From("REQ_FAMILY_CODES")
reqSoftDollarTiers == Global

(* News and calendars. *)
reqNewsBulletins == Global
cancelNewsBulletins == Global
reqNewsProviders == From("REQ_NEWS_PROVIDERS")
reqNewsArticle ==
  [From("REQ_NEWS_ARTICLE") EXCEPT !.text = "own",
     !.writes = [options |-> Since("NEWS_QUERY_ORIGINS")]]
reqHistoricalNews ==
  [From("REQ_HISTORICAL_NEWS") EXCEPT !.text = "own",
     !.writes = [options |-> Since("NEWS_QUERY_ORIGINS")]]
reqWshMetaData == From("WSHE_CALENDAR")
cancelWshMetaData == From("WSHE_CALENDAR")
reqWshEventData ==
  [From("WSHE_CALENDAR") EXCEPT !.text = "thrown",
     !.accepts = [filter |-> Since("WSH_EVENT_DATA_FILTERS"),
                  dates |-> Since("WSH_EVENT_DATA_FILTERS_DATE")],
     !.writes = [filter |-> Since("WSH_EVENT_DATA_FILTERS"),
                 dates |-> Since("WSH_EVENT_DATA_FILTERS_DATE")],
     !.needs = [badText |-> {{"filter"}, {"dates"}}]]
cancelWshEventData == From("WSHE_CALENDAR")

(* Accounts, positions, profit and loss. *)
reqAccountUpdates == [Global EXCEPT !.text = "all"]
reqManagedAccts == Global
reqPositions == From("POSITIONS")
cancelPositions == From("POSITIONS")
reqAccountSummary == Text(From("ACCOUNT_SUMMARY"))
cancelAccountSummary == From("ACCOUNT_SUMMARY")
reqPositionsMulti == Text(From("MODELS_SUPPORT"))
cancelPositionsMulti == From("MODELS_SUPPORT")
reqAccountUpdatesMulti == Text(From("MODELS_SUPPORT"))
cancelAccountUpdatesMulti == From("MODELS_SUPPORT")
reqPnL == Text(From("PNL"))
cancelPnL == From("PNL")
reqPnLSingle == Text(From("PNL"))
cancelPnLSingle == From("PNL")
requestFA == [Global EXCEPT !.accepts = [profile |-> Before("FA_PROFILE_DESUPPORT")],
                            !.writes = [profile |-> AnyVersion]]
replaceFA ==
  [Plain EXCEPT !.text = "own",
     !.accepts = [profile |-> Before("FA_PROFILE_DESUPPORT")],
     !.writes = [profile |-> AnyVersion, reqId |-> Since("REPLACE_FA_END")]]
reqUserInfo == From("USER_INFO")

(* The session: log level, verification of the application, the display    *)
(* groups of the TWS window.                                               *)
setServerLogLevel == Global
verifyRequest == [From("LINKING") EXCEPT !.text = "all",
                    !.accepts = [withoutExtraAuth |-> {}]]
verifyMessage == [From("LINKING") EXCEPT !.text = "all"]
verifyAndAuthRequest == [From("LINKING_AUTH") EXCEPT !.text = "all",
                           !.accepts = [withoutExtraAuth |-> {}]]
verifyAndAuthMessage == [From("LINKING_AUTH") EXCEPT !.text = "all"]
queryDisplayGroups == From("LINKING")
subscribeToGroupEvents == From("LINKING")
updateDisplayGroup == Text(From("LINKING"))
unsubscribeFromGroupEvents == From("LINKING")

(* Orders other than placeOrder. *)
cancelOrder ==
  [Plain EXCEPT !.text = "thrown",
     !.accepts = [manualOrderCancelTime |-> Since("MANUAL_ORDER_TIME")],
     !.writes = [manualOrderCancelTime |-> Since("MANUAL_ORDER_TIME")],
     !.needs = [badText |-> {{"manualOrderCancelTime"}}]]
reqOpenOrders == Global
reqAutoOpenOrders == Global
reqAllOpenOrders == Global
reqCompletedOrders == From("COMPLETED_ORDERS")
reqExecutions == Text(Global)
reqIds == [Global EXCEPT !.offline = "num"]
reqGlobalCancel == From("REQ_GLOBAL_CANCEL")
exerciseOptions ==
  [Plain EXCEPT !.offline = "all", !.text = "own",
     !.accepts = [conId |-> Since("TRADING_CLASS"),
                  tradingClass |-> Since("TRADING_CLASS"),
                  manualOrderTime |-> Since("MANUAL_ORDER_TIME_EXERCISE_OPTIONS")],
     !.writes = [conId |-> Since("TRADING_CLASS"),
                 tradingClass |-> Since("TRADING_CLASS"),
                 manualOrderTime |-> Since("MANUAL_ORDER_TIME_EXERCISE_OPTIONS")]]

(* placeOrder: the refusals, in the order of the code ... *)
contractAndComboGates ==
  [deltaNeutralContract |-> Since("DELTA_NEUTRAL"),
   scaleSubsLevelSize |-> Since("SCALE_ORDERS2"),
   algoStrategy |-> Since("ALGO_ORDERS"), notHeld |-> Since("NOT_HELD"),
   secId |-> Since("SEC_ID_TYPE"), conId |-> Since("PLACE_ORDER_CONID"),
   exemptCode |-> Since("SSHORTX"), legExemptCode |-> Since("SSHORTX"),
   hedgeType |-> Since("HEDGE_ORDERS"),
   optOutSmartRouting |-> Since("OPT_OUT_SMART_ROUTING"),
   deltaNeutralConId |-> Since("DELTA_NEUTRAL_CONID"),
   deltaNeutralOpenClose |-> Since("DELTA_NEUTRAL_OPEN_CLOSE")]
scaleAndAlgoGates ==
  [scaleAdjustments |-> Since("SCALE_ORDERS3"),
   legPrices |-> Since("ORDER_COMBO_LEGS_PRICE"),
   trailingPercent |-> Since("TRAILING_PERCENT"),
   tradingClass |-> Since("TRADING_CLASS"), scaleTable |-> Since("SCALE_TABLE"),
   algoId |-> Since("ALGO_ID"), solicited |-> Since("ORDER_SOLICITED"),
   modelCode |-> Since("MODELS_SUPPORT"), extOperator |-> Since("EXT_OPERATOR"),
   softDollarTier |-> Since("SOFT_DOLLAR_TIER"), cashQty |-> Since("CASH_QTY"),
   decisionMaker |-> Since("DECISION_MAKER"),
   mifidExecution |-> Since("MIFID_EXECUTION"),
   dontUseAutoPriceForHedge |-> Since("AUTO_PRICE_FOR_HEDGE"),
   isOmsContainer |-> Since("ORDER_CONTAINER"),
   discretionaryUpToLimitPrice |-> Since("D_PEG_ORDERS")]
(* Mutant: the duration of an order is sent without a test. *)
recentGatesWithoutDuration ==
  [usePriceMgmtAlgo |-> Since("PRICE_MGMT_ALGO"),    postToAts |-> Since("POST_TO_ATS"),
   autoCancelParent |-> Since("AUTO_CANCEL_PARENT"),
   advancedErrorOverride |-> Since("ADVANCED_ORDER_REJECT"),
   manualOrderTime |-> Since("MANUAL_ORDER_TIME"),
   minTradeQty |-> Since("PEGBEST_PEGMID_OFFSETS"),
   minCompeteSize |-> Since("PEGBEST_PEGMID_OFFSETS"),
   competeAgainstBestOffset |-> Since("PEGBEST_PEGMID_OFFSETS"),
   midOffsets |-> Since("PEGBEST_PEGMID_OFFSETS")]
recentGates ==
  [usePriceMgmtAlgo |-> Since("PRICE_MGMT_ALGO"), duration |-> Since("DURATION"),
   postToAts |-> Since("POST_TO_ATS"),
   autoCancelParent |-> Since("AUTO_CANCEL_PARENT"),
   advancedErrorOverride |-> Since("ADVANCED_ORDER_REJECT"),
   manualOrderTime |-> Since("MANUAL_ORDER_TIME"),
   minTradeQty |-> Since("PEGBEST_PEGMID_OFFSETS"),
   minCompeteSize |-> Since("PEGBEST_PEGMID_OFFSETS"),
   competeAgainstBestOffset |-> Since("PEGBEST_PEGMID_OFFSETS"),
   midOffsets |-> Since("PEGBEST_PEGMID_OFFSETS")]

(* ... and the fields of the message, in the order in which they are sent. *)
mainOrderFields ==
  [VERSION |-> Before("ORDER_CONTAINER"), conId |-> Since("PLACE_ORDER_CONID"),
   tradingClass |-> Since("TRADING_CLASS"), secId |-> Since("SEC_ID_TYPE"),
   fractionOfQuantity |-> Since("FRACTIONAL_POSITIONS"),
   IBKRATS |-> AnyVersion, pegBench |-> AnyVersion, pegBest |-> AnyVersion,
   pegMid |-> AnyVersion]
comboFields ==
  [BAG |-> AnyVersion, comboLegs |-> AnyVersion, legExemptCode |-> Since("SSHORTX_OLD"),
   legPrices |-> Since("ORDER_COMBO_LEGS_PRICE"),
   smartComboRoutingParams |-> Since("SMART_COMBO_ROUTING_PARAMS")]
extendedFields ==
  [faProfile |-> Before("FA_PROFILE_DESUPPORT"), modelCode |-> Since("MODELS_SUPPORT"),
   exemptCode |-> Since("SSHORTX_OLD"), deltaNeutralOrderType |-> AnyVersion,
   deltaNeutralConId |-> Since("DELTA_NEUTRAL_CONID"),
   deltaNeutralOpenClose |-> Since("DELTA_NEUTRAL_OPEN_CLOSE")]
scaleAndHedgeFields ==
  [trailingPercent |-> Since("TRAILING_PERCENT"),
   scaleSubsLevelSize |-> Since("SCALE_ORDERS2"), scalePriceIncrement |-> AnyVersion,
   scaleAdjustments |-> Since("SCALE_ORDERS3"), scaleTable |-> Since("SCALE_TABLE"),
   hedgeType |-> Since("HEDGE_ORDERS"), hedgeParam |-> Since("HEDGE_ORDERS"),
   optOutSmartRouting |-> Since("OPT_OUT_SMART_ROUTING"),
   clearing |-> Since("PTA_ORDERS"), notHeld |-> Since("NOT_HELD")]
algoAndMiscFields ==
  [deltaNeutralContract |-> Since("DELTA_NEUTRAL"),
   algoStrategy |-> Since("ALGO_ORDERS"), algoParams |-> Since("ALGO_ORDERS"),
   algoId |-> Since("ALGO_ID"), miscOptions |-> Since("LINKING"),
   solicited |-> Since("ORDER_SOLICITED"),
   randomize |-> Since("RANDOMIZE_SIZE_AND_PRICE")]
peggedFields ==
  [pegBenchFields |-> Since("PEGGED_TO_BENCHMARK"),
   conditions |-> Since("PEGGED_TO_BENCHMARK"),
   conditionsCancelOrder |-> Since("PEGGED_TO_BENCHMARK"),
   adjustedOrder |-> Since("PEGGED_TO_BENCHMARK")]
recentFields ==
  [extOperator |-> Since("EXT_OPERATOR"),
   softDollarTier |-> Since("SOFT_DOLLAR_TIER"), cashQty |-> Since("CASH_QTY"),
   decisionMaker |-> Since("DECISION_MAKER"),
   mifidExecution |-> Since("MIFID_EXECUTION"),
   dontUseAutoPriceForHedge |-> Since("AUTO_PRICE_FOR_HEDGE"),
   isOmsContainer |-> Since("ORDER_CONTAINER"),
   discretionaryUpToLimitPrice |-> Since("D_PEG_ORDERS"),
   usePriceMgmtAlgo |-> Since("PRICE_MGMT_ALGO"), duration |-> Since("DURATION"),
   postToAts |-> Since("POST_TO_ATS"),
   autoCancelParent |-> Since("AUTO_CANCEL_PARENT"),
   advancedErrorOverride |-> Since("ADVANCED_ORDER_REJECT"),
   manualOrderTime |-> Since("MANUAL_ORDER_TIME")]
offsetFields ==
  [minTradeQty |-> Since("PEGBEST_PEGMID_OFFSETS"),
   minCompeteSize |-> Since("PEGBEST_PEGMID_OFFSETS"),
   competeAgainstBestOffset |-> Since("PEGBEST_PEGMID_OFFSETS"),
   upToMid |-> Since("PEGBEST_PEGMID_OFFSETS"),
   midOffsets |-> Since("PEGBEST_PEGMID_OFFSETS")]

(* Fields that are only written beside another: a leg of a combination     *)
(* (BAG), the parameters of a delta neutral order, a scale order, a hedge, *)
(* an algorithm, a pegged order type, a condition.                         *)
orderCompanions ==
  [comboLegs |-> {{"BAG"}}, legExemptCode |-> {{"BAG", "comboLegs"}},
   legPrices |-> {{"BAG"}}, smartComboRoutingParams |-> {{"BAG"}},
   deltaNeutralConId |-> {{"deltaNeutralOrderType"}},
   deltaNeutralOpenClose |-> {{"deltaNeutralOrderType"}},
   scaleAdjustments |-> {{"scalePriceIncrement"}},
   hedgeParam |-> {{"hedgeType"}}, algoParams |-> {{"algoStrategy"}},
   pegBenchFields |-> {{"pegBench"}}, conditionsCancelOrder |-> {{"conditions"}},
   minTradeQty |-> {{"IBKRATS"}}, minCompeteSize |-> {{"pegBest"}},
   competeAgainstBestOffset |-> {{"pegBest"}},
   upToMid |-> {{"pegBest", "competeAgainstBestOffset"}},
   midOffsets |-> {{"pegMid"}, {"pegBest", "competeAgainstBestOffset", "upToMid"}}]

placeOrder ==
  [Plain EXCEPT !.text = "own",
     !.accepts = With(contractAndComboGates, With(scaleAndAlgoGates, recentGates)),
     !.writes = With(With(With(mainOrderFields, comboFields),
                          With(extendedFields, scaleAndHedgeFields)),
                     With(With(algoAndMiscFields, peggedFields),
                          With(recentFields, offsetFields))),
     !.needs = orderCompanions]

(***************************************************************************)
(* What a call does.                                                       *)
(***************************************************************************)

(* Values the functions write of their own accord, the caller sets none;   *)
(* the order types, of which an order has one.                             *)
Unasked == {"VERSION", "faProfile"}
OrderTypes == {"pegBench", "pegBest", "pegMid"}

Attributes(row) ==
  ((DOMAIN row.accepts \cup DOMAIN row.writes) \ Unasked)
    \cup (IF row.text = "none" THEN {} ELSE {"badText"})

(* The attribute is set along with the others it depends on. *)
Accompanied(row, a, set) ==
  a \in DOMAIN row.needs => \E others \in row.needs[a] : others \subseteq set

Written(row, v, set) ==
  {a \in set \cap DOMAIN row.writes : v \in row.writes[a] /\ Accompanied(row, a, set)}

Refusing(row, v, set) ==
  {a \in set \cap DOMAIN row.accepts : v \notin row.accepts[a]}

Sent(fields) == [kind |-> "sent", id |-> "own", code |-> "none", fields |-> fields]
Refused(id, code) == [kind |-> "refused", id |-> id, code |-> code, fields |-> {}]
Thrown == [kind |-> "thrown", id |-> "own", code |-> "INVALID_SYMBOL", fields |-> {}]

Outcome(row, online, v, set) ==
  CASE ~online -> Refused(row.offline, "NOT_CONNECTED")
    [] online /\ (v \notin row.since \/ Refusing(row, v, set) # {}) ->
         Refused(row.told, "UPDATE_TWS")
    [] online /\ v \in row.since /\ Refusing(row, v, set) = {} ->
         IF "badText" \in set /\ Accompanied(row, "badText", set)
           THEN IF row.text = "thrown" THEN Thrown
                                       ELSE Refused(row.text, "INVALID_SYMBOL")
           ELSE Sent(Written(row, v, set))

Requests ==
  [reqMktData |-> reqMktData, cancelMktData |-> cancelMktData,
   reqMktDepth |-> reqMktDepth, cancelMktDepth |-> cancelMktDepth,
   reqHistoricalData |-> reqHistoricalData,
   cancelHistoricalData |-> cancelHistoricalData,
   reqRealTimeBars |-> reqRealTimeBars, cancelRealTimeBars |-> cancelRealTimeBars,
   reqScannerParameters |-> reqScannerParameters,
   reqScannerSubscription |-> reqScannerSubscription,
   cancelScannerSubscription |-> cancelScannerSubscription,
   reqFundamentalData |-> reqFundamentalData,
   cancelFundamentalData |-> cancelFundamentalData,
   calculateImpliedVolatility |-> calculateImpliedVolatility,
   cancelCalculateImpliedVolatility |-> cancelCalculateImpliedVolatility,
   calculateOptionPrice |-> calculateOptionPrice,
   cancelCalculateOptionPrice |-> cancelCalculateOptionPrice,
   reqContractDetails |-> reqContractDetails, reqCurrentTime |-> reqCurrentTime,
   reqHeadTimestamp |-> reqHeadTimestamp, cancelHeadTimestamp |-> cancelHeadTimestamp,
   reqHistogramData |-> reqHistogramData, cancelHistogramData |-> cancelHistogramData,
   reqHistoricalTicks |-> reqHistoricalTicks, reqTickByTickData |-> reqTickByTickData,
   cancelTickByTickData |-> cancelTickByTickData, reqMarketRule |-> reqMarketRule,
   reqMarketDataType |-> reqMarketDataType, reqSmartComponents |-> reqSmartComponents,
   reqMktDepthExchanges |-> reqMktDepthExchanges,
   reqSecDefOptParams |-> reqSecDefOptParams,
   reqMatchingSymbols |-> reqMatchingSymbols, reqFamilyCodes |-> reqFamilyCodes,
   reqSoftDollarTiers |-> reqSoftDollarTiers, reqNewsBulletins |-> reqNewsBulletins,
   cancelNewsBulletins |-> cancelNewsBulletins, reqNewsProviders |-> reqNewsProviders,
   reqNewsArticle |-> reqNewsArticle, reqHistoricalNews |-> reqHistoricalNews,
   reqWshMetaData |-> reqWshMetaData, cancelWshMetaData |-> cancelWshMetaData,
   reqWshEventData |-> reqWshEventData, cancelWshEventData |-> cancelWshEventData,
   reqAccountUpdates |-> reqAccountUpdates, reqManagedAccts |-> reqManagedAccts,
   reqPositions |-> reqPositions, cancelPositions |-> cancelPositions,
   reqAccountSummary |-> reqAccountSummary,
   cancelAccountSummary |-> cancelAccountSummary,
   reqPositionsMulti |-> reqPositionsMulti,
   cancelPositionsMulti |-> cancelPositionsMulti,
   reqAccountUpdatesMulti |-> reqAccountUpdatesMulti,
   cancelAccountUpdatesMulti |-> cancelAccountUpdatesMulti,
   reqPnL |-> reqPnL, cancelPnL |-> cancelPnL, reqPnLSingle |-> reqPnLSingle,
   cancelPnLSingle |-> cancelPnLSingle, requestFA |-> requestFA,
   replaceFA |-> replaceFA, reqUserInfo |-> reqUserInfo,
   setServerLogLevel |-> setServerLogLevel, verifyRequest |-> verifyRequest,
   verifyMessage |-> verifyMessage, verifyAndAuthRequest |-> verifyAndAuthRequest,
   verifyAndAuthMessage |-> verifyAndAuthMessage,
   queryDisplayGroups |-> queryDisplayGroups,
   subscribeToGroupEvents |-> subscribeToGroupEvents,
   updateDisplayGroup |-> updateDisplayGroup,
   unsubscribeFromGroupEvents |-> unsubscribeFromGroupEvents,
   cancelOrder |-> cancelOrder, reqOpenOrders |-> reqOpenOrders,
   reqAutoOpenOrders |-> reqAutoOpenOrders, reqAllOpenOrders |-> reqAllOpenOrders,
   reqCompletedOrders |-> reqCompletedOrders, reqExecutions |-> reqExecutions,
   reqIds |-> reqIds, reqGlobalCancel |-> reqGlobalCancel,
   exerciseOptions |-> exerciseOptions, placeOrder |-> placeOrder]
=============================================================================
