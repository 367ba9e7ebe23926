----------------------------- MODULE TwsDecoder -----------------------------
(***************************************************************************)
(* The messages of TWS and what EDecoder and EOrderDecoder make of them.   *)
(* A handler reads all the fields of its message, some of them in some     *)
(* versions only, and then calls the application back; a message that ends *)
(* early makes it return before the callback.  A handler is a record:      *)
(*                                                                         *)
(*   reads  for a field that only some versions have, those versions       *)
(*   needs  the other fields without which it does not look for one        *)
(*   rows   the callback called for every entry of a list, or "none"       *)
(*   call   the callbacks one of which is called at the end, chosen by     *)
(*          the data of the message; none if the set is empty              *)
(*   also   a callback that may follow, chosen by the data, or "none"      *)
(*                                                                         *)
(* The other fields are read in every version.  The tests of the version   *)
(* number a message carries itself are left out: the TWS versions the      *)
(* library accepts send the last one.                                      *)
(***************************************************************************)
EXTENDS TwsRequests, Sequences

Calls(callbacks) ==
  [reads |-> <<>>, needs |-> <<>>, rows |-> "none", call |-> callbacks, also |-> "none"]
Handler(callback) == Calls({callback})
List(row, callback) == [Handler(callback) EXCEPT !.rows = row]
Reading(handler, fields) == [handler EXCEPT !.reads = fields]

(* Market data. *)
processTickPriceMsg == [Handler("tickPrice") EXCEPT !.also = "tickSize"]
processTickSizeMsg == Handler("tickSize")
processTickOptionComputationMsg ==
  Reading(Handler("tickOptionComputation"),
          [version |-> Before("PRICE_BASED_VOLATILITY"),
           tickAttrib |-> Since("PRICE_BASED_VOLATILITY")])
processTickGenericMsg == Handler("tickGeneric")
processTickStringMsg == Handler("tickString")
processTickEfpMsg == Handler("tickEFP")
processMarketDepthMsg == Handler("updateMktDepth")
processMarketDepthL2Msg ==
  Reading(Handler("updateMktDepthL2"), [isSmartDepth |-> Since("SMART_DEPTH")])
processTickSnapshotEndMsg == Handler("tickSnapshotEnd")
processMarketDataTypeMsg == Handler("marketDataType")
processTickReqParamsMsg == Handler("tickReqParams")
processDeltaNeutralValidationMsg == Handler("deltaNeutralValidation")
processRerouteMktDataReqMsg == Handler("rerouteMktDataReq")
processRerouteMktDepthReqMsg == Handler("rerouteMktDepthReq")
processRealTimeBarsMsg == Handler("realtimeBar")
processHistoricalDataMsg ==
  Reading(List("historicalData", "historicalDataEnd"),
          [version |-> Before("SYNT_REALTIME_BARS"),
           hasGaps |-> Before("SYNT_REALTIME_BARS")])
processHistoricalDataUpdateMsg == Handler("historicalDataUpdate")
processHistoricalSchedule == Handler("historicalSchedule")
processHeadTimestampMsg == Handler("headTimestamp")
processHistogramDataMsg == Handler("histogramData")
processHistoricalTicks == Handler("historicalTicks")
processHistoricalTicksBidAsk == Handler("historicalTicksBidAsk")
processHistoricalTicksLast == Handler("historicalTicksLast")
(* The type of the ticks selects the callback; for an unknown one there is *)
(* none.                                                                   *)
processTickByTickDataMsg ==
  Calls({"tickByTickAllLast", "tickByTickBidAsk", "tickByTickMidPoint", "none"})
processMarketRuleMsg == Handler("marketRule")
processSmartComponentsMsg == Handler("smartComponents")
processMktDepthExchangesMsg ==
  Reading(Handler("mktDepthExchanges"),
          [serviceDataType |-> Since("SERVICE_DATA_TYPE"),
           isL2 |-> Before("SERVICE_DATA_TYPE")])

(* Contracts, scanners, fundamental data. *)
processContractDataMsg ==
  Reading(Handler("contractDetails"),
          [version |-> Before("SIZE_RULES"),
           mdSizeMultiplier |-> Since("MD_SIZE_MULTIPLIER") \cap Before("SIZE_RULES"),
           aggGroup |-> Since("AGG_GROUP"), underSymbol |-> Since("UNDERLYING_INFO"),
           marketRuleIds |-> Since("MARKET_RULES"),
           realExpirationDate |-> Since("REAL_EXPIRATION_DATE"),
           stockType |-> Since("STOCK_TYPE"),
           sizeMinTick |-> Since("FRACTIONAL_SIZE_SUPPORT") \cap Before("SIZE_RULES"),
           minSize |-> Since("SIZE_RULES"), fund |-> Since("FUND_DATA_FIELDS")])
processBondContractDataMsg ==
  Reading(Handler("bondContractDetails"),
          [version |-> Before("SIZE_RULES"),
           mdSizeMultiplier |-> Since("MD_SIZE_MULTIPLIER") \cap Before("SIZE_RULES"),
           aggGroup |-> Since("AGG_GROUP"), marketRuleIds |-> Since("MARKET_RULES"),
           minSize |-> Since("SIZE_RULES")])
processContractDataEndMsg == Handler("contractDetailsEnd")
processScannerDataMsg == List("scannerData", "scannerDataEnd")
processScannerParametersMsg == Handler("scannerParameters")
processFundamentalDataMsg == Handler("fundamentalData")
processSecurityDefinitionOptionalParameterMsg ==
  Handler("securityDefinitionOptionalParameter")
processSecurityDefinitionOptionalParameterEndMsg ==
  Handler("securityDefinitionOptionalParameterEnd")
processSymbolSamplesMsg ==
  Reading(Handler("symbolSamples"), [issuerId |-> Since("BOND_ISSUERID")])

(* News and calendars. *)
processNewsBulletinsMsg == Handler("updateNewsBulletin")
processTickNewsMsg == Handler("tickNews")
processNewsProvidersMsg == Handler("newsProviders")
processNewsArticleMsg == Handler("newsArticle")
processHistoricalNewsMsg == Handler("historicalNews")
processHistoricalNewsEndMsg == Handler("historicalNewsEnd")
processWshMetaData == Handler("wshMetaData")
processWshEventData == Handler("wshEventData")

(* Accounts, positions, profit and loss. *)
processAcctValueMsg == Handler("updateAccountValue")
processPortfolioValueMsg == Handler("updatePortfolio")
processAcctUpdateTimeMsg == Handler("updateAccountTime")
processAcctDownloadEndMsg == Handler("accountDownloadEnd")
processManagedAcctsMsg == Handler("managedAccounts")
processReceiveFaMsg == Handler("receiveFA")
processReplaceFAEndMsg == Handler("replaceFAEnd")
processPositionDataMsg == Handler("position")
processPositionEndMsg == Handler("positionEnd")
processAccountSummaryMsg == Handler("accountSummary")
processAccountSummaryEndMsg == Handler("accountSummaryEnd")
processPositionMultiMsg == Handler("positionMulti")
processPositionMultiEndMsg == Handler("positionMultiEnd")
processAccountUpdateMultiMsg == Handler("accountUpdateMulti")
processAccountUpdateMultiEndMsg == Handler("accountUpdateMultiEnd")
processSoftDollarTiersMsg == Handler("softDollarTiers")
processFamilyCodesMsg == Handler("familyCodes")
processPnLMsg ==
  Reading(Handler("pnl"), [unrealizedPnL |-> Since("UNREALIZED_PNL"),
                           realizedPnL |-> Since("REALIZED_PNL")])
processPnLSingleMsg ==
  Reading(Handler("pnlSingle"), [unrealizedPnL |-> Since("UNREALIZED_PNL"),
                                 realizedPnL |-> Since("REALIZED_PNL")])
processUserInfo == Handler("userInfo")

(* The session. *)
processErrMsgMsg ==
  Reading(Handler("error"),
          [advancedOrderRejectJson |-> Since("ADVANCED_ORDER_REJECT")])
processNextValidIdMsg == Handler("nextValidId")
processCurrentTimeMsg == Handler("currentTime")
processVerifyMessageApiMsg == Handler("verifyMessageAPI")
processVerifyCompletedMsg == Handler("verifyCompleted")
processVerifyAndAuthMessageApiMsg == Handler("verifyAndAuthMessageAPI")
processVerifyAndAuthCompletedMsg == Handler("verifyAndAuthCompleted")
processDisplayGroupListMsg == Handler("displayGroupList")
processDisplayGroupUpdatedMsg == Handler("displayGroupUpdated")

(* Executions and the state of orders. *)
processOrderStatusMsg ==
  Reading(Handler("orderStatus"), [version |-> Before("MARKET_CAP_PRICE"),
                                   mktCapPrice |-> Since("MARKET_CAP_PRICE")])
processExecutionDetailsMsg ==
  Reading(Handler("execDetails"),
          [version |-> Before("LAST_LIQUIDITY"), modelCode |-> Since("MODELS_SUPPORT"),
           lastLiquidity |-> Since("LAST_LIQUIDITY"),
           pendingPriceRevision |-> Since("PENDING_PRICE_REVISION")])
processExecutionDetailsEndMsg == Handler("execDetailsEnd")
processCommissionReportMsg == Handler("commissionReport")
processOpenOrderEndMsg == Handler("openOrderEnd")
processCompletedOrdersEndMsg == Handler("completedOrdersEnd")
processOrderBoundMsg == Handler("orderBound")

(* EOrderDecoder: the fields of an order, in the order of the message. *)
(* The quantity is decoded as a decimal number, with a fraction or none.    *)
identityReads == [tradingClass |-> Version]
accountReads == [faProfile |-> Before("FA_PROFILE_DESUPPORT"),
                 modelCode |-> Since("MODELS_SUPPORT"), exemptCode |-> Version]
volatilityAndComboReads ==
  [deltaNeutralOrderType |-> Version, deltaNeutralConId |-> Version,
   deltaNeutralOpenClose |-> Version, trailingPercent |-> Version,
   comboLegs |-> Version, legExemptCode |-> Version, legPrices |-> Version,
   smartComboRoutingParams |-> Version]
scaleAndAlgoReads ==
  [scaleSubsLevelSize |-> Version, scalePriceIncrement |-> Version,
   scaleAdjustments |-> Version, hedgeType |-> Version, hedgeParam |-> Version,
   optOutSmartRouting |-> Version, clearing |-> Version, notHeld |-> Version,
   deltaNeutralContract |-> Version, algoStrategy |-> Version,
   algoParams |-> Version, solicited |-> Version]
whatIfReads == [whatIfBefore |-> Since("WHAT_IF_EXT_FIELDS")]
randomizeReads == [randomize |-> Version]
peggedReads ==
  [pegBenchFields |-> Since("PEGGED_TO_BENCHMARK"),
   conditions |-> Since("PEGGED_TO_BENCHMARK"),
   conditionsCancelOrder |-> Since("PEGGED_TO_BENCHMARK")]
adjustedReads == [adjustedOrder |-> Since("PEGGED_TO_BENCHMARK")]
softDollarTierReads == [softDollarTier |-> Since("SOFT_DOLLAR_TIER")]
sharedRecentReads ==
  [cashQty |-> Since("CASH_QTY"),
   dontUseAutoPriceForHedge |-> Since("AUTO_PRICE_FOR_HEDGE"),
   isOmsContainer |-> Since("ORDER_CONTAINER")]
openRecentReads ==
  [discretionaryUpToLimitPrice |-> Since("D_PEG_ORDERS"),
   usePriceMgmtAlgo |-> Since("PRICE_MGMT_ALGO"), duration |-> Since("DURATION"),
   postToAts |-> Since("POST_TO_ATS")]
(* Mutant: the field is looked for a version late. *)
autoCancelParentReadsLate(minVersion) ==
  [autoCancelParent |-> {v \in Version : v > minVersion}]
autoCancelParentReads(minVersion) ==
  [autoCancelParent |-> {v \in Version : v >= minVersion}]
completedReads == [autoCancelDate |-> Version, shareholder |-> Version,
                   completedTime |-> Version]
offsetReads ==
  [minTradeQty |-> Since("PEGBEST_PEGMID_OFFSETS"),
   minCompeteSize |-> Since("PEGBEST_PEGMID_OFFSETS"),
   competeAgainstBestOffset |-> Since("PEGBEST_PEGMID_OFFSETS"),
   midOffsets |-> Since("PEGBEST_PEGMID_OFFSETS")]

orderNeeds ==
  [legExemptCode |-> {"comboLegs"}, deltaNeutralConId |-> {"deltaNeutralOrderType"},
   deltaNeutralOpenClose |-> {"deltaNeutralOrderType"},
   scaleAdjustments |-> {"scalePriceIncrement"}, hedgeParam |-> {"hedgeType"},
   algoParams |-> {"algoStrategy"}, pegBenchFields |-> {"pegBench"},
   conditionsCancelOrder |-> {"conditions"}]

(* The fields of either kind of order, and those of an open one alone. *)
orderReads ==
  With(With(identityReads, accountReads),
       With(With(volatilityAndComboReads, scaleAndAlgoReads),
            With(With(randomizeReads, peggedReads),
                 With(sharedRecentReads, offsetReads))))
openReads ==
  With(With([version |-> Before("ORDER_CONTAINER")], whatIfReads),
       With(adjustedReads, With(softDollarTierReads, openRecentReads)))

processOpenOrderMsg ==
  [Handler("openOrder") EXCEPT
     !.reads = With(With(orderReads, openReads),
                    autoCancelParentReads(MinServerVer["AUTO_CANCEL_PARENT"])),
     !.needs = orderNeeds]
processCompletedOrderMsg ==
  [Handler("completedOrder") EXCEPT
     !.reads = With(With(orderReads, completedReads),
                    autoCancelParentReads(MIN_CLIENT_VER)),
     !.needs = orderNeeds]

(* parseAndProcessMsg: the handler of every message the switch names. *)
incomingMarketData ==
  [TICK_PRICE |-> processTickPriceMsg, TICK_SIZE |-> processTickSizeMsg,
   TICK_OPTION_COMPUTATION |-> processTickOptionComputationMsg,
   TICK_GENERIC |-> processTickGenericMsg, TICK_STRING |-> processTickStringMsg,
   TICK_EFP |-> processTickEfpMsg, ORDER_STATUS |-> processOrderStatusMsg,
   ERR_MSG |-> processErrMsgMsg, OPEN_ORDER |-> processOpenOrderMsg,
   ACCT_VALUE |-> processAcctValueMsg, PORTFOLIO_VALUE |-> processPortfolioValueMsg,
   ACCT_UPDATE_TIME |-> processAcctUpdateTimeMsg,
   NEXT_VALID_ID |-> processNextValidIdMsg, CONTRACT_DATA |-> processContractDataMsg,
   BOND_CONTRACT_DATA |-> processBondContractDataMsg,
   EXECUTION_DATA |-> processExecutionDetailsMsg,
   MARKET_DEPTH |-> processMarketDepthMsg, MARKET_DEPTH_L2 |-> processMarketDepthL2Msg,
   NEWS_BULLETINS |-> processNewsBulletinsMsg, MANAGED_ACCTS |-> processManagedAcctsMsg,
   RECEIVE_FA |-> processReceiveFaMsg, HISTORICAL_DATA |-> processHistoricalDataMsg,
   SCANNER_DATA |-> processScannerDataMsg,
   SCANNER_PARAMETERS |-> processScannerParametersMsg,
   CURRENT_TIME |-> processCurrentTimeMsg, REAL_TIME_BARS |-> processRealTimeBarsMsg,
   FUNDAMENTAL_DATA |-> processFundamentalDataMsg]
incomingEnds ==
  [CONTRACT_DATA_END |-> processContractDataEndMsg,
   OPEN_ORDER_END |-> processOpenOrderEndMsg,
   ACCT_DOWNLOAD_END |-> processAcctDownloadEndMsg,
   EXECUTION_DATA_END |-> processExecutionDetailsEndMsg,
   DELTA_NEUTRAL_VALIDATION |-> processDeltaNeutralValidationMsg,
   TICK_SNAPSHOT_END |-> processTickSnapshotEndMsg,
   MARKET_DATA_TYPE |-> processMarketDataTypeMsg,
   COMMISSION_REPORT |-> processCommissionReportMsg,
   POSITION_DATA |-> processPositionDataMsg, POSITION_END |-> processPositionEndMsg,
   ACCOUNT_SUMMARY |-> processAccountSummaryMsg,
   ACCOUNT_SUMMARY_END |-> processAccountSummaryEndMsg,
   VERIFY_MESSAGE_API |-> processVerifyMessageApiMsg,
   VERIFY_COMPLETED |-> processVerifyCompletedMsg,
   DISPLAY_GROUP_LIST |-> processDisplayGroupListMsg,
   DISPLAY_GROUP_UPDATED |-> processDisplayGroupUpdatedMsg,
   VERIFY_AND_AUTH_MESSAGE_API |-> processVerifyAndAuthMessageApiMsg,
   VERIFY_AND_AUTH_COMPLETED |-> processVerifyAndAuthCompletedMsg,
   POSITION_MULTI |-> processPositionMultiMsg,
   POSITION_MULTI_END |-> processPositionMultiEndMsg,
   ACCOUNT_UPDATE_MULTI |-> processAccountUpdateMultiMsg,
   ACCOUNT_UPDATE_MULTI_END |-> processAccountUpdateMultiEndMsg,
   SECURITY_DEFINITION_OPTION_PARAMETER |->
     processSecurityDefinitionOptionalParameterMsg,
   SECURITY_DEFINITION_OPTION_PARAMETER_END |->
     processSecurityDefinitionOptionalParameterEndMsg,
   SOFT_DOLLAR_TIERS |-> processSoftDollarTiersMsg,
   FAMILY_CODES |-> processFamilyCodesMsg]
incomingRecent ==
  [SMART_COMPONENTS |-> processSmartComponentsMsg,
   TICK_REQ_PARAMS |-> processTickReqParamsMsg, SYMBOL_SAMPLES |-> processSymbolSamplesMsg,
   MKT_DEPTH_EXCHANGES |-> processMktDepthExchangesMsg, TICK_NEWS |-> processTickNewsMsg,
   NEWS_PROVIDERS |-> processNewsProvidersMsg, NEWS_ARTICLE |-> processNewsArticleMsg,
   HISTORICAL_NEWS |-> processHistoricalNewsMsg,
   HISTORICAL_NEWS_END |-> processHistoricalNewsEndMsg,
   HEAD_TIMESTAMP |-> processHeadTimestampMsg, HISTOGRAM_DATA |-> processHistogramDataMsg,
   HISTORICAL_DATA_UPDATE |-> processHistoricalDataUpdateMsg,
   REROUTE_MKT_DATA_REQ |-> processRerouteMktDataReqMsg,
   REROUTE_MKT_DEPTH_REQ |-> processRerouteMktDepthReqMsg,
   MARKET_RULE |-> processMarketRuleMsg, PNL |-> processPnLMsg,
   PNL_SINGLE |-> processPnLSingleMsg, HISTORICAL_TICKS |-> processHistoricalTicks,
   HISTORICAL_TICKS_BID_ASK |-> processHistoricalTicksBidAsk,
   HISTORICAL_TICKS_LAST |-> processHistoricalTicksLast,
   TICK_BY_TICK |-> processTickByTickDataMsg, ORDER_BOUND |-> processOrderBoundMsg,
   COMPLETED_ORDER |-> processCompletedOrderMsg,
   COMPLETED_ORDERS_END |-> processCompletedOrdersEndMsg,
   REPLACE_FA_END |-> processReplaceFAEndMsg, WSH_META_DATA |-> processWshMetaData,
   WSH_EVENT_DATA |-> processWshEventData,
   HISTORICAL_SCHEDULE |-> processHistoricalSchedule, USER_INFO |-> processUserInfo]

Incoming == With(incomingMarketData, With(incomingEnds, incomingRecent))
Message == DOMAIN Incoming

(* The fields the handler reads from a message that holds the ones given. *)
Read(handler, v, fields) ==
  {f \in fields \cap DOMAIN handler.reads :
     /\ v \in handler.reads[f]
     /\ f \in DOMAIN handler.needs => handler.needs[f] \subseteq fields}

(* The callbacks of a complete message, entries being the length of its    *)
(* list; one of a set, and another or none, as the data chooses.           *)
Once(callback) == IF callback = "none" THEN <<>> ELSE <<callback>>
Rows(handler, entries) ==
  [i \in 1 .. (IF handler.rows = "none" THEN 0 ELSE entries) |-> handler.rows]
CallbackRuns(handler, entries) ==
  {Rows(handler, entries) \o Once(c) \o Once(d) :
     c \in handler.call, d \in {"none", handler.also}}
=============================================================================
