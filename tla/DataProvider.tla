---------------------------- MODULE DataProvider ----------------------------
(***************************************************************************)
(* CDispatcher (Observer), CBrokerDataProvider on top of it, the broker's  *)
(* side of a request, and the receiving half of CProcessingBase_v2 that    *)
(* changes the registries.                                                 *)
(*                                                                         *)
(* Two threads act.  The GUI thread runs the subscribers' request and      *)
(* cancel operations and destroys subscribers; each operation is one step. *)
(* The worker thread takes messages off the wire and runs                  *)
(* SendMessageToSubscribers: it copies the pointer to the subscriber list  *)
(* under the lock and then, without the lock, looks at one subscriber item *)
(* after the other and calls its MessageHandler, so GUI steps fall between *)
(* the copy, each test of isPresent and each call.  The handler of         *)
(* historical data looks at the registry three times without a lock, and   *)
(* GUI steps fall between these look-ups too.  A look-up itself is one     *)
(* step: what the containers do under a concurrent change is left out.     *)
(*                                                                         *)
(* A subscriber item is a reference-counted object: it stays in existence  *)
(* while the list or the worker's copy refers to it, and its destructor    *)
(* calls UnsubscribeHandler of its subscriber, which removes whatever the  *)
(* subscriber has registered by then.                                      *)
(***************************************************************************)
EXTENDS ReqManager, Sequences

CONSTANTS Subscriber,   \* the CProcessingBase_v2 objects
          Item,         \* the CSubscriberItem objects that can exist at once
          Nobody,       \* the owner of an item that does not exist
          UsedType,     \* the request types the subscribers use
          CancelType,   \* the request types they also cancel
          Destroyable,  \* the subscribers that may be destroyed while the program runs
          Notice,       \* the messages that arrive unasked
          MaxWire       \* bound on the messages between the broker and the worker

(* Messages no request asked for, sent to the fixed ids or to everyone. *)
NoticeType == {"RT_REQ_RESTART_SUBSCRIPTION", "RT_REQ_ERROR_SUBSRIPTION",
               "RT_ORDER_EXECUTION", "RT_NEXT_VALID_ID"}

ASSUME DataProviderAssumption ==
  /\ Nobody \notin Subscriber
  /\ UsedType \subseteq ReqType
  /\ CancelType \subseteq UsedType
  /\ Destroyable \subseteq Subscriber
  /\ Notice \subseteq NoticeType
  /\ MaxWire \in Nat \ {0}

VARIABLES
  alive,     \* subscribers not yet destroyed
  disp,      \* the dispatcher: list (m_pSubscriberList), and owner and registry of each item
  sender,    \* the worker's pass over a copy of the list
  history,   \* m_historyMap of each subscriber
  streams,   \* the requests the broker is serving
  wire,      \* messages received and not yet dispatched (the reader's queue)
  crashed,   \* a null or dangling pointer was used: the process is gone
  overlapped, \* (history) a symbol was requested while the worker handled an answer
             \* that it had looked up under that symbol
  refused    \* (history) the historical requests that the broker ended with an error

notes == <<overlapped, refused>>
vars == <<alive, disp, sender, history, streams, wire, crashed, notes>>

-----------------------------------------------------------------------------
(* Types *)

Stream == [type : ReqType, id : ReqId, symbol : Symbol, sent : BOOLEAN]

ResponseType == {"RT_TICK_PRICE", "RT_REQ_OPTION_PRICE", "RT_REALTIME_BAR",
                 "RT_TICK_BY_TICK_DATA", "RT_HISTORICAL_DATA", "RT_REQ_POSITION",
                 "RT_REQ_ACCOUNT_SUMMURY", "RT_REQ_RESTART_SUBSCRIPTION",
                 "RT_REQ_ERROR_SUBSRIPTION", "RT_ORDER_EXECUTION", "RT_NEXT_VALID_ID"}

Message == [id : ReqId, type : ResponseType, symbol : Symbol, last : BOOLEAN]

Dispatcher == [list : SUBSET Item, owner : [Item -> Subscriber \cup {Nobody}],
               rm : [Item -> Registry]]

NoMessage == [id |-> 0, type |-> "RT_REQ_NONE", symbol |-> NoSymbol, last |-> FALSE]

(* msg is dispatched to the items in held; those in todo are still to be   *)
(* looked at; called is the item whose MessageHandler is called, if any.   *)
(* at is how far its recvHistoricalData has come: it has not begun, it has *)
(* looked up retSymbol (symbol), or also realtimeDataId (id).              *)
Sender == [msg : Message \cup {NoMessage}, held : SUBSET Item, todo : SUBSET Item,
           called : SUBSET Item, at : {"start", "symbol", "id"},
           symbol : Symbol \cup {NoSymbol}, id : ReqId \cup {0}]
Pass(m, items) == [msg |-> m, held |-> items, todo |-> items, called |-> {},
                   at |-> "start", symbol |-> NoSymbol, id |-> 0]
IdleSender == Pass(NoMessage, {})
sending == sender.msg # NoMessage

HistEntry == [bars : SUBSET Symbol, isAvaliable : BOOLEAN]
NoHist == [bars |-> {}, isAvaliable |-> FALSE]

-----------------------------------------------------------------------------
(* CDispatcher *)

itemsOf(d, s) == {i \in d.list : d.owner[i] = s}
hasItem(d, s) == itemsOf(d, s) # {}
getSubscriberItem(d, s) == CHOOSE i \in itemsOf(d, s) : TRUE
registryOf(d, s) == d.rm[getSubscriberItem(d, s)]

(* Items no one refers to; the guard of every operation that may create one *)
(* asks for some, which bounds the number of items, not what they do.       *)
freeItems(d) == {i \in Item : d.owner[i] = Nobody}

(* Mutant: every request makes an item of its own. *)
SubscribeNewItem(d, s, symbol, r) ==
  LET i == CHOOSE k \in freeItems(d) : TRUE
  IN  [list  |-> d.list \cup {i},
       owner |-> [d.owner EXCEPT ![i] = s],
       rm    |-> [d.rm EXCEPT ![i] = addReqIdsExt(@, symbol, r)]]

Subscribe(d, s, symbol, r) ==
  LET i == IF hasItem(d, s) THEN getSubscriberItem(d, s)
                            ELSE CHOOSE k \in freeItems(d) : TRUE
  IN  [list  |-> d.list \cup {i},
       owner |-> [d.owner EXCEPT ![i] = s],
       rm    |-> [d.rm EXCEPT ![i] = addReqIdsExt(@, symbol, r)]]

(* Mutant: the item of a last request is dropped as it is. *)
UnsubscribeWholeItem(d, s, symbol, r) ==
  LET after(i) == removeReqIdsExt(d.rm[i], symbol, r)
  IN  [d EXCEPT !.rm   = [i \in Item |-> IF i \in itemsOf(d, s) /\ after(i).ids # {}
                                         THEN after(i) ELSE d.rm[i]],
                !.list = {i \in d.list : i \in itemsOf(d, s) => after(i).ids # {}}]

(* An item left without requests is dropped from the list. *)
Unsubscribe(d, s, symbol, r) ==
  LET after(i) == removeReqIdsExt(d.rm[i], symbol, r)
  IN  [d EXCEPT !.rm   = [i \in Item |-> IF i \in itemsOf(d, s) THEN after(i) ELSE d.rm[i]],
                !.list = {i \in d.list : i \in itemsOf(d, s) => after(i).ids # {}}]

(* Mutant: without the last call, an item without requests is overlooked. *)
UnsubscribeListedIds(d, s) ==
  [d EXCEPT !.rm   = [i \in Item |-> IF i \in itemsOf(d, s) THEN EmptyRegistry ELSE d.rm[i]],
            !.list = {i \in @ : i \in itemsOf(d, s) => d.rm[i].ids = {}}]

(* Every pair of the id list is unsubscribed by id, with its map entry; the *)
(* last call, for a pair nobody has, drops an item whose requests had been  *)
(* removed without the dispatcher (removeReqData).                          *)
UnsubscribeAllItemsOfSubscriber(d, s) ==
  LET cleared(rm) ==
        [ids |-> {}, ticker |-> [y \in Symbol |-> IF rm.ticker[y] \in rm.ids
                                                  THEN NoReq ELSE rm.ticker[y]]]
  IN  [d EXCEPT !.rm   = [i \in Item |-> IF i \in itemsOf(d, s) THEN cleared(d.rm[i])
                                                                ELSE d.rm[i]],
                !.list = @ \ itemsOf(d, s)]

(* Mutant: one subscriber without the request is enough. *)
isReqIdEmptySomewhere(d, symbol, r) ==
  d.list = {} \/ \E i \in d.list : d.rm[i].ticker[symbol] # r

isReqIdEmpty(d, symbol, r) == \A i \in d.list : d.rm[i].ticker[symbol] # r

(* The items whose last reference has gone. *)
unreferenced(d, held) == {i \in Item : d.owner[i] # Nobody /\ i \notin d.list \cup held}

(* Their destructors: UnsubscribeHandler of each owner drops the item the  *)
(* owner has in the list now, which goes in turn unless the worker holds   *)
(* it; UnsubscribeHandler then finds nothing more to drop.                 *)
Release(d, held) ==
  LET dead    == unreferenced(d, held)
      evicted == {j \in d.list : \E i \in dead : d.owner[i] = d.owner[j]}
      gone    == dead \cup (evicted \ held)
  IN  [list  |-> d.list \ evicted,
       owner |-> [i \in Item |-> IF i \in gone THEN Nobody ELSE d.owner[i]],
       rm    |-> [i \in Item |-> IF i \in gone \cup evicted THEN EmptyRegistry
                                                            ELSE d.rm[i]]]

-----------------------------------------------------------------------------
(* The broker, external: it serves a request until it is cancelled, refuses *)
(* an id it is already serving in that request's kind, and ends a           *)
(* historical request by itself.                                            *)

brokerRequest(st, r, symbol) ==
  IF \E x \in st : x.type = r.type /\ x.id = r.id
  THEN st
  ELSE st \cup {[type |-> r.type, id |-> r.id, symbol |-> symbol, sent |-> FALSE]}

brokerCancel(st, r) == {x \in st : ~(x.type = r.type /\ x.id = r.id)}

-----------------------------------------------------------------------------
(* CBrokerDataProvider, called on the GUI thread *)

CanRequest(s, t) ==
  /\ ~crashed /\ s \in alive /\ t \in UsedType
  /\ hasItem(disp, s) \/ freeItems(disp) # {}

CanCancel(s, t) == ~crashed /\ s \in alive /\ t \in CancelType

(* The first request of a subscriber without an item has id 1. *)
chooseId(s, symbol, t) ==
  IF ~hasItem(disp, s) THEN 1
  ELSE IF t \in OneShotType
       THEN getNextFreeId(registryOf(disp, s))
       ELSE getNextFreeIdFor(registryOf(disp, s), symbol, t)

(* The worker is between two look-ups of s for this symbol. *)
handling(s, symbol) ==
  /\ sender.at # "start" /\ sender.symbol = symbol
  /\ \E i \in sender.called : disp.owner[i] = s

noted(s, symbol, r) ==
  /\ overlapped' = (overlapped \/ handling(s, symbol))
  /\ refused' = refused \ {r}

subscribeAndRequest(s, symbol, r) ==
  /\ disp' = Subscribe(disp, s, symbol, r)
  /\ streams' = brokerRequest(streams, r, symbol)
  /\ noted(s, symbol, r)
  /\ UNCHANGED <<alive, sender, history, wire, crashed>>

requestFor(s, symbol, t) ==
  /\ CanRequest(s, t)
  /\ chooseId(s, symbol, t) # 0
  /\ subscribeAndRequest(s, symbol, [id |-> chooseId(s, symbol, t), type |-> t])

reqestRealTimeData(s, y) == requestFor(s, y, "RT_REQ_REL_DATA")
requestRealTimeBars(s, y) == requestFor(s, y, "RT_REALTIME_BAR")
requestTickByTickData(s, y) == requestFor(s, y, "RT_TICK_BY_TICK_DATA")
requestCalculateOptionPrice(s, y) == requestFor(s, y, "RT_REQ_OPTION_PRICE")
reqestHistoricalData(s, y) == requestFor(s, y, "RT_HISTORICAL_DATA")
requestHistoricalTicksData(s, y) == requestFor(s, y, "RT_HISTORICAL_TICK_DATA")

(* What a cancel finds under the symbol, or NoReq: then it returns false.  *)
requestOf(s, symbol, t) ==
  IF hasItem(disp, s) THEN getReqData(registryOf(disp, s), symbol, t) ELSE NoReq

(* Unsubscribed first; the broker is told only when no subscriber has the  *)
(* same request under the same symbol any more.                            *)
cancelRealTimeData(s, y) ==
  LET r == requestOf(s, y, "RT_REQ_REL_DATA")
      d == Unsubscribe(disp, s, y, r)
  IN  /\ CanCancel(s, "RT_REQ_REL_DATA")
      /\ r # NoReq
      /\ disp' = Release(d, sender.held)
      /\ streams' = IF isReqIdEmpty(d, y, r) THEN brokerCancel(streams, r) ELSE streams
      /\ UNCHANGED <<alive, sender, history, wire, crashed, notes>>

(* The other cancels tell the broker at once. *)
cancelFor(s, symbol, t) ==
  LET r == requestOf(s, symbol, t)
  IN  /\ CanCancel(s, t)
      /\ r # NoReq
      /\ streams' = brokerCancel(streams, r)
      /\ disp' = Release(Unsubscribe(disp, s, NoSymbol, r), sender.held)
      /\ UNCHANGED <<alive, sender, history, wire, crashed, notes>>

cancelRealTimeBars(s, y) == cancelFor(s, y, "RT_REALTIME_BAR")
cancelTickByTickData(s, y) == cancelFor(s, y, "RT_TICK_BY_TICK_DATA")
cancelCalculateOptionPrice(s, y) == cancelFor(s, y, "RT_REQ_OPTION_PRICE")

fixedRequest(t) == [id |-> fixedId[t], type |-> t]

requestPosition(s) ==
  /\ CanRequest(s, "RT_REQ_POSITION")
  /\ subscribeAndRequest(s, "Position", fixedRequest("RT_REQ_POSITION"))

cancelPosition(s) == cancelFor(s, "Position", "RT_REQ_POSITION")

(* Restart, error and order-status messages need no request to the broker. *)
subscribeOnly(s, t) ==
  /\ CanRequest(s, t)
  /\ disp' = Subscribe(disp, s, fixedSymbol[t], fixedRequest(t))
  /\ noted(s, fixedSymbol[t], fixedRequest(t))
  /\ UNCHANGED <<alive, sender, history, streams, wire, crashed>>

unsubscribeOnly(s, t) ==
  LET r == requestOf(s, fixedSymbol[t], t)
  IN  /\ CanCancel(s, t)
      /\ r # NoReq
      /\ disp' = Release(Unsubscribe(disp, s, NoSymbol, r), sender.held)
      /\ UNCHANGED <<alive, sender, history, streams, wire, crashed, notes>>

requestResetSubscription(s) == subscribeOnly(s, "RT_REQ_RESTART_SUBSCRIPTION")
cancelResetSubscription(s) == unsubscribeOnly(s, "RT_REQ_RESTART_SUBSCRIPTION")
requestErrorNotificationSubscription(s) == subscribeOnly(s, "RT_REQ_ERROR_SUBSRIPTION")
cancelErrorNotificationSubscription(s) == unsubscribeOnly(s, "RT_REQ_ERROR_SUBSRIPTION")
requestOrderStatusSubscription(s) == subscribeOnly(s, "RT_REQ_ORDER_STATUS")
cancelOrderStatusubscription(s) == unsubscribeOnly(s, "RT_REQ_ORDER_STATUS")

bpReqAccountSummary(s) ==
  /\ CanRequest(s, "RT_REQ_ACCOUNT_SUMMURY")
  /\ subscribeAndRequest(s, "AccSum", fixedRequest("RT_REQ_ACCOUNT_SUMMURY"))

(* After the cancel the code subscribes and requests again.  The item the   *)
(* cancel may have dropped is released on return, after the new Subscribe. *)
(* A subscriber without an item makes the code follow a null pointer.      *)
bpCancelAccountSummary(s) ==
  LET r  == requestOf(s, "AccSum", "RT_REQ_ACCOUNT_SUMMURY")
      r1 == fixedRequest("RT_REQ_ACCOUNT_SUMMURY")
      d  == IF r # NoReq THEN Unsubscribe(disp, s, NoSymbol, r) ELSE disp
      st == IF r # NoReq THEN brokerCancel(streams, r) ELSE streams
  IN  /\ CanCancel(s, "RT_REQ_ACCOUNT_SUMMURY")
      /\ freeItems(disp) # {}
      /\ IF hasItem(disp, s)
         THEN /\ disp' = Release(Subscribe(d, s, "AccSum", r1), sender.held)
              /\ streams' = brokerRequest(st, r1, "AccSum")
              /\ UNCHANGED crashed
         ELSE /\ crashed' = TRUE
              /\ UNCHANGED <<disp, streams>>
      /\ UNCHANGED <<alive, sender, history, wire, notes>>

(* ~CProcessingBase_v2: the broker is not told. *)
Destroy(s) ==
  /\ ~crashed /\ s \in alive \cap Destroyable
  /\ alive' = alive \ {s}
  /\ disp' = Release(UnsubscribeAllItemsOfSubscriber(disp, s), sender.held)
  /\ history' = [history EXCEPT ![s] = [k \in PoolId |-> NoHist]]
  /\ UNCHANGED <<sender, streams, wire, crashed, notes>>

-----------------------------------------------------------------------------
(* The broker and IBComClientImpl, external: what arrives on the wire.     *)

Arrives(m) ==
  /\ ~crashed
  /\ Len(wire) < MaxWire
  /\ wire' = Append(wire, m)
  /\ UNCHANGED <<alive, disp, sender, history, crashed, overlapped>>

messageOf(x, t, end) == [id |-> x.id, type |-> t, symbol |-> x.symbol, last |-> end]

(* The response types a stream answers with; the answer to a request for   *)
(* historical ticks is sent to the subscribers as tick-by-tick data.       *)
responsesTo(t) ==
  CASE t = "RT_REQ_REL_DATA" -> {"RT_TICK_PRICE", "RT_REQ_OPTION_PRICE"}
    [] t = "RT_HISTORICAL_TICK_DATA" -> {"RT_TICK_BY_TICK_DATA"}
    [] OTHER -> {t}

Answer(x) ==
  /\ x.type # "RT_HISTORICAL_DATA"
  /\ \E t \in responsesTo(x.type) : Arrives(messageOf(x, t, FALSE))
  /\ streams' = IF x.type = "RT_HISTORICAL_TICK_DATA" THEN streams \ {x} ELSE streams
  /\ UNCHANGED refused

(* A historical request is answered with one bar or more, then its end. *)
AnswerBar(x) ==
  /\ x.type = "RT_HISTORICAL_DATA"
  /\ Arrives(messageOf(x, x.type, FALSE))
  /\ streams' = (streams \ {x}) \cup {[x EXCEPT !.sent = TRUE]}
  /\ UNCHANGED refused

AnswerEnd(x) ==
  /\ x.type = "RT_HISTORICAL_DATA" /\ x.sent
  /\ Arrives(messageOf(x, x.type, TRUE))
  /\ streams' = streams \ {x}
  /\ UNCHANGED refused

noticeOf(t) ==
  [id   |-> CASE t = "RT_NEXT_VALID_ID" -> 1
              [] t = "RT_ORDER_EXECUTION" -> fixedId["RT_REQ_ORDER_STATUS"]
              [] OTHER -> fixedId[t],
   type |-> t, symbol |-> "Error", last |-> FALSE]

Notify(t) ==
  /\ Arrives(noticeOf(t))
  /\ UNCHANGED <<streams, refused>>

(* Or an error is its only answer, for instance error 200 (no such         *)
(* security): error() tells the error subscribers and removes no request.  *)
AnswerError(x) ==
  /\ x.type = "RT_HISTORICAL_DATA" /\ ~x.sent
  /\ Arrives(noticeOf("RT_REQ_ERROR_SUBSRIPTION"))
  /\ streams' = streams \ {x}
  /\ refused' = refused \cup {[id |-> x.id, type |-> x.type]}

-----------------------------------------------------------------------------
(* The worker thread *)

(* Mutant: the newest message first. *)
SendNewestMessage ==
  /\ ~crashed /\ ~sending /\ wire # <<>>
  /\ wire' = SubSeq(wire, 1, Len(wire) - 1)
  /\ sender' = IF disp.list = {} THEN IdleSender ELSE Pass(wire[Len(wire)], disp.list)
  /\ UNCHANGED <<alive, disp, history, streams, crashed, notes>>

(* SendMessageToSubscribers copies the list; an empty one ends it at once. *)
SendMessageToSubscribers ==
  /\ ~crashed /\ ~sending /\ wire # <<>>
  /\ wire' = Tail(wire)
  /\ sender' = IF disp.list = {} THEN IdleSender ELSE Pass(Head(wire), disp.list)
  /\ UNCHANGED <<alive, disp, history, streams, crashed, notes>>

(* The loop's test on one item, in any order (the code's is the order of   *)
(* subscription).                                                          *)
TestItem(i) ==
  /\ ~crashed /\ i \in sender.todo /\ sender.called = {}
  /\ sender' = IF \/ isPresent(disp.rm[i], sender.msg.id, sender.msg.type)
                  \/ sender.msg.type = "RT_NEXT_VALID_ID"
               THEN [sender EXCEPT !.called = {i}]
               ELSE [sender EXCEPT !.todo = @ \ {i}]
  /\ UNCHANGED <<alive, disp, history, streams, wire, crashed, notes>>

(* Mutant: the bars of the answer before are kept. *)
withBarAppended(h, y) == [bars |-> h.bars \cup {y}, isAvaliable |-> FALSE]

withBar(h, y) == [bars |-> (IF h.isAvaliable THEN {} ELSE h.bars) \cup {y},
                  isAvaliable |-> FALSE]

(* Mutant: the end of the answer removes a request for ticks. *)
withoutTickRequest(d, s, y) ==
  [d EXCEPT !.rm[getSubscriberItem(d, s)] =
              removeReqData(@, y, "RT_HISTORICAL_TICK_DATA")]

withoutRequest(d, s, y) ==
  [d EXCEPT !.rm[getSubscriberItem(d, s)] = removeReqData(@, y, "RT_HISTORICAL_DATA")]

(* The handler of i returns: the pass goes on with the other items. *)
returned(i) == [sender EXCEPT !.todo = @ \ {i}, !.called = {}, !.at = "start",
                              !.symbol = NoSymbol, !.id = 0]

(* The handler is called; a call on a destroyed subscriber is undefined.   *)
(* Of the messages modelled only historical data changes a registry or the *)
(* history.  recvHistoricalData first looks up the symbol of the id, in    *)
(* the item the subscriber has in the list now; nothing is registered      *)
(* under the empty symbol.                                                 *)
MessageHandler(i) ==
  LET s == disp.owner[i]
      y == IF hasItem(disp, s)
           THEN getSymbolById(registryOf(disp, s), sender.msg.id, "RT_HISTORICAL_DATA")
           ELSE NoSymbol
  IN  /\ ~crashed /\ sender.called = {i} /\ sender.at = "start"
      /\ sender' = IF sender.msg.type = "RT_HISTORICAL_DATA" /\ y # NoSymbol
                   THEN [sender EXCEPT !.at = "symbol", !.symbol = y]
                   ELSE returned(i)
      /\ crashed' = (s \notin alive)
      /\ UNCHANGED <<alive, disp, history, streams, wire, notes>>

(* The second look-up: the id the symbol has by then.  A bar is kept under *)
(* that id; the end of an answer, or an id not found, goes on.             *)
getIdFromRM(i) ==
  LET s  == disp.owner[i]
      id == IF hasItem(disp, s)
            THEN getIdbySymbol(registryOf(disp, s), sender.symbol, "RT_HISTORICAL_DATA")
            ELSE 0
      m  == sender.msg
  IN  /\ ~crashed /\ sender.called = {i} /\ sender.at = "symbol"
      /\ crashed' = (s \notin alive)
      /\ IF id # 0 /\ ~m.last
         THEN /\ sender' = returned(i)
              /\ history' = [history EXCEPT ![s][id] = withBar(@, m.symbol)]
         ELSE /\ sender' = [sender EXCEPT !.at = "id", !.id = id]
              /\ UNCHANGED history
      /\ UNCHANGED <<alive, disp, streams, wire, notes>>

(* The third: the request the symbol has by now is removed.  Then the bars *)
(* of the id found before are marked as available and reported under the   *)
(* symbol; without a bar the code writes through the end iterator.         *)
removeOldHistoricalRequest(i) ==
  LET s == disp.owner[i]
      k == sender.id
  IN  /\ ~crashed /\ sender.called = {i} /\ sender.at = "id"
      /\ sender' = returned(i)
      /\ disp' = IF hasItem(disp, s) THEN withoutRequest(disp, s, sender.symbol) ELSE disp
      /\ history' = IF k = 0 THEN history ELSE [history EXCEPT ![s][k].isAvaliable = TRUE]
      /\ crashed' = (s \notin alive \/ (k # 0 /\ history[s][k] = NoHist))
      /\ UNCHANGED <<alive, streams, wire, notes>>

(* Mutant: the copy of the list is not let go. *)
EndSendKeepingItems ==
  /\ ~crashed /\ sending /\ sender.todo = {}
  /\ sender' = IdleSender
  /\ UNCHANGED <<alive, disp, history, streams, wire, crashed, notes>>

(* The copy of the list goes, and with it the items only it referred to;   *)
(* their destructors run on this thread.                                   *)
EndSend ==
  /\ ~crashed /\ sending /\ sender.todo = {}
  /\ sender' = IdleSender
  /\ disp' = Release(disp, {})
  /\ crashed' = (\E i \in unreferenced(disp, {}) : disp.owner[i] \notin alive)
  /\ UNCHANGED <<alive, history, streams, wire, notes>>

-----------------------------------------------------------------------------
Init ==
  /\ alive = Subscriber
  /\ disp = [list |-> {}, owner |-> [i \in Item |-> Nobody],
             rm |-> [i \in Item |-> EmptyRegistry]]
  /\ sender = IdleSender
  /\ history = [s \in Subscriber |-> [k \in PoolId |-> NoHist]]
  /\ streams = {}
  /\ wire = <<>>
  /\ crashed = FALSE
  /\ overlapped = FALSE /\ refused = {}

RequestStep(s) ==
  \/ \E y \in Ticker : \/ reqestRealTimeData(s, y)
                       \/ requestRealTimeBars(s, y)
                       \/ requestTickByTickData(s, y)
                       \/ requestCalculateOptionPrice(s, y)
                       \/ reqestHistoricalData(s, y)
                       \/ requestHistoricalTicksData(s, y)
  \/ requestPosition(s)
  \/ requestResetSubscription(s)
  \/ requestErrorNotificationSubscription(s)
  \/ requestOrderStatusSubscription(s)
  \/ bpReqAccountSummary(s)

CancelStep(s) ==
  \/ \E y \in Ticker : \/ cancelRealTimeData(s, y)
                       \/ cancelRealTimeBars(s, y)
                       \/ cancelTickByTickData(s, y)
                       \/ cancelCalculateOptionPrice(s, y)
  \/ cancelPosition(s)
  \/ cancelResetSubscription(s)
  \/ cancelErrorNotificationSubscription(s)
  \/ cancelOrderStatusubscription(s)
  \/ bpCancelAccountSummary(s)

GuiStep == \E s \in Subscriber : RequestStep(s) \/ CancelStep(s) \/ Destroy(s)

WorkerStep ==
  \/ SendMessageToSubscribers
  \/ \E i \in Item : \/ TestItem(i) \/ MessageHandler(i)
                      \/ getIdFromRM(i) \/ removeOldHistoricalRequest(i)
  \/ EndSend

BrokerStep ==
  \/ \E x \in streams : Answer(x) \/ AnswerBar(x) \/ AnswerEnd(x) \/ AnswerError(x)
  \/ \E t \in Notice : Notify(t)

Next == GuiStep \/ WorkerStep \/ BrokerStep

Spec == Init /\ [][Next]_vars

(* The worker keeps running, and the broker, which may answer late, answers *)
(* the historical requests it serves, with bars or an error, however often *)
(* the queue is full.                                                      *)
BrokerFairness ==
  \A k \in PoolId, y \in Ticker :
    LET x == [type |-> "RT_HISTORICAL_DATA", id |-> k, symbol |-> y, sent |-> FALSE]
        z == [x EXCEPT !.sent = TRUE]
    IN  SF_vars(\/ x \in streams /\ (AnswerBar(x) \/ AnswerError(x))
                \/ z \in streams /\ AnswerEnd(z))

FairSpec == Spec /\ WF_vars(WorkerStep) /\ BrokerFairness

-----------------------------------------------------------------------------
(* Properties *)

(* Every variable has its type. *)
TypeOK ==
  /\ alive \subseteq Subscriber
  /\ disp \in Dispatcher
  /\ sender \in Sender
  /\ history \in [Subscriber -> [PoolId -> HistEntry]]
  /\ streams \subseteq Stream
  /\ wire \in Seq(Message) /\ Len(wire) <= MaxWire
  /\ crashed \in BOOLEAN /\ overlapped \in BOOLEAN /\ refused \subseteq Request

(* Two registrations of one subscriber never have the same id, whatever    *)
(* order it requested, cancelled and was answered in: a message reaches at *)
(* most one of its requests.                                               *)
IdsUnique ==
  \A i \in Item : \A r1, r2 \in disp.rm[i].ids : r1.id = r2.id => r1 = r2

(* The symbol map never names a request that is not in the list: no answer *)
(* is attributed to a request that was removed.                            *)
TickerListed ==
  \A i \in Item, y \in Symbol :
    disp.rm[i].ticker[y] # NoReq => disp.rm[i].ticker[y] \in disp.rm[i].ids

(* No request has two symbols, so getSymbolById has one answer.            *)
TickerInjective ==
  \A i \in Item, y, z \in Symbol :
    /\ disp.rm[i].ticker[y] = disp.rm[i].ticker[z]
    /\ disp.rm[i].ticker[y] # NoReq
    => y = z

(* A subscriber never has two items in the list: getSubscriberItem and the *)
(* worker's loop see the same registry.                                    *)
OneItemPerSubscriber ==
  \A i, j \in disp.list : disp.owner[i] = disp.owner[j] => i = j

(* An item that left the list while the worker still holds it has nothing  *)
(* registered: a later test of the same pass does not call its subscriber. *)
DroppedItemEmpty ==
  \A i \in Item \ disp.list : disp.rm[i] = EmptyRegistry

(* A destroyed subscriber has no item in the list, not even one whose      *)
(* registry the worker had emptied before.                                 *)
DestroyedUnlisted == \A i \in disp.list : disp.owner[i] \in alive

(* While all subscribers want the same symbol, each one that has real-time *)
(* data registered for it is served: a cancel of another one never ends    *)
(* the broker's stream it still needs.                                     *)
RelStreamServed ==
  \A i \in disp.list, y \in Ticker :
    disp.rm[i].ticker[y].type = "RT_REQ_REL_DATA" =>
      \E x \in streams : /\ x.type = "RT_REQ_REL_DATA" /\ x.symbol = y
                         /\ x.id = disp.rm[i].ticker[y].id

(* The bars that the end of an answer reports under a symbol are bars of   *)
(* that symbol and of no other, and not reported before - as long as no    *)
(* symbol was requested while the worker handled an answer for it.         *)
ReportedUnderItsSymbol ==
  [][\A i \in Item :
       removeOldHistoricalRequest(i) /\ sender.id # 0 /\ ~crashed' /\ ~overlapped =>
         history[disp.owner[i]][sender.id] =
           [bars |-> {sender.symbol}, isAvaliable |-> FALSE]]_vars

(* No null or dangling pointer is ever used, unless a symbol was requested *)
(* while the worker handled an answer for it.                              *)
NoCrash == crashed => overlapped

(* A historical request is answered, or another request takes its symbol,  *)
(* or the broker answered it with an error: then it stays registered.      *)
HistoryAnswered ==
  \A s \in Subscriber, y \in Ticker, k \in PoolId :
    LET r == [id |-> k, type |-> "RT_HISTORICAL_DATA"]
        registered == hasItem(disp, s) /\ registryOf(disp, s).ticker[y] = r
    IN  registered ~> (~registered \/ r \in refused \/ crashed)

(* The items of a destroyed subscriber are released in the end, or the     *)
(* release has used the dangling pointer to it.                            *)
ItemsReleased ==
  \A i \in Item : disp.owner[i] \notin alive \cup {Nobody} ~>
                    (disp.owner[i] \in alive \cup {Nobody} \/ crashed)

=============================================================================
