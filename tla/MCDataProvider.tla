--------------------------- MODULE MCDataProvider ---------------------------
(* Instances of DataProvider for TLC: sets of request types, symmetry.     *)
EXTENDS DataProvider, TLC

Symmetry == Permutations(Item) \cup Permutations(Subscriber)
ItemSymmetry == Permutations(Item)

NoType == {}
RelTypes == {"RT_REQ_REL_DATA"}
RelError == {"RT_REQ_REL_DATA", "RT_REQ_ERROR_SUBSRIPTION"}
RelBars == {"RT_REQ_REL_DATA", "RT_REALTIME_BAR"}
HistoryTypes == {"RT_HISTORICAL_DATA"}
StreamTypes == {"RT_REALTIME_BAR", "RT_TICK_BY_TICK_DATA", "RT_REQ_OPTION_PRICE",
                "RT_HISTORICAL_TICK_DATA", "RT_HISTORICAL_DATA"}
FixedTypes == FixedType
FixedAndHistory == FixedType \cup HistoryTypes
AllNotices == NoticeType
ErrorNotice == {"RT_REQ_ERROR_SUBSRIPTION"}
NoNotice == {}

=============================================================================
