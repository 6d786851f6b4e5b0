---------------------------- MODULE ListPageProofs ----------------------------
(***************************************************************************)
(* What the list page keeps for every number of torrents, bulk actions and *)
(* upsets: the types of its state, that nothing is deleted which the       *)
(* dialog did not count, and that a bulk action runs under its class.      *)
(***************************************************************************)
EXTENDS ListPage, TLAPS

RequestState == [at : {"idle", "server", "client"}, attached : BOOLEAN, rows : Rows]
BulkState == [action : Button \cup {"none"}, pending : SUBSET Hash]

-----------------------------------------------------------------------------
(* Listings.                                                               *)

(* A listing is a Boolean function on some of the torrents.                *)
LEMMA RowsAre ==
    ASSUME NEW rs
    PROVE  rs \in Rows <=> DOMAIN rs \in SUBSET Hash /\ rs \in [DOMAIN rs -> BOOLEAN]
<1>1. ASSUME rs \in Rows
      PROVE  DOMAIN rs \in SUBSET Hash /\ rs \in [DOMAIN rs -> BOOLEAN]
    <2>1. PICK hs \in SUBSET Hash : rs \in [hs -> BOOLEAN]
        BY <1>1 DEF Rows
    <2>2. DOMAIN rs = hs
        BY <2>1
    <2> QED
        BY <2>1, <2>2
<1>2. ASSUME DOMAIN rs \in SUBSET Hash, rs \in [DOMAIN rs -> BOOLEAN]
      PROVE  rs \in Rows
    BY <1>2 DEF Rows
<1> QED
    BY <1>1, <1>2

(* The listings that the page and the service make of others.              *)
LEMMA RowsMade ==
    /\ NoRows \in Rows
    /\ [h \in Hash |-> FALSE] \in Rows
    /\ \A rs \in Rows : Listing(rs) \in Rows
    /\ \A rs \in Rows, h \in Hash : Without(rs, h) \in Rows
    /\ \A rs \in Rows, h \in Hash, v \in BOOLEAN :
          h \in DOMAIN rs => [rs EXCEPT ![h] = v] \in Rows
    /\ \A rs \in Rows, h \in Hash : [i \in DOMAIN rs \cup {h} |-> i # h /\ rs[i]] \in Rows
<1>1. NoRows \in Rows /\ [h \in Hash |-> FALSE] \in Rows
    BY RowsAre DEF NoRows
<1>2. ASSUME NEW rs \in Rows PROVE Listing(rs) \in Rows
    BY RowsAre DEF Listing
<1>3. ASSUME NEW rs \in Rows, NEW h \in Hash PROVE Without(rs, h) \in Rows
    <2>1. DOMAIN rs \in SUBSET Hash /\ rs \in [DOMAIN rs -> BOOLEAN]
        BY RowsAre
    <2>2. Without(rs, h) \in [DOMAIN rs \ {h} -> BOOLEAN]
        BY <2>1 DEF Without
    <2> QED
        BY <2>1, <2>2 DEF Rows
<1>4. ASSUME NEW rs \in Rows, NEW h \in Hash, NEW v \in BOOLEAN, h \in DOMAIN rs
      PROVE  [rs EXCEPT ![h] = v] \in Rows
    <2>1. DOMAIN rs \in SUBSET Hash /\ rs \in [DOMAIN rs -> BOOLEAN]
        BY RowsAre
    <2>2. [rs EXCEPT ![h] = v] \in [DOMAIN rs -> BOOLEAN]
        BY <2>1, <1>4
    <2> QED
        BY <2>1, <2>2 DEF Rows
<1>5. ASSUME NEW rs \in Rows, NEW h \in Hash PROVE [i \in DOMAIN rs \cup {h} |-> i # h /\ rs[i]] \in Rows
    <2>1. DOMAIN rs \in SUBSET Hash /\ rs \in [DOMAIN rs -> BOOLEAN]
        BY RowsAre
    <2>2. [i \in DOMAIN rs \cup {h} |-> i # h /\ rs[i]] \in [DOMAIN rs \cup {h} -> BOOLEAN]
        BY <2>1
    <2>3. DOMAIN rs \cup {h} \in SUBSET Hash
        BY <2>1
    <2> QED
        BY <2>2, <2>3 DEF Rows
<1> QED
    BY <1>1, <1>2, <1>3, <1>4, <1>5

-----------------------------------------------------------------------------
(* Requests.                                                               *)

LEMMA RequestsMade ==
    /\ Idle \in RequestState
    /\ \A a \in BOOLEAN : Sent(a) \in RequestState
    /\ \A r \in RequestState : Detach(r) \in RequestState
<1>1. Idle \in RequestState
    BY RowsMade DEF Idle, RequestState
<1>2. ASSUME NEW a \in BOOLEAN PROVE Sent(a) \in RequestState
    BY <1>1 DEF Sent, RequestState
<1>3. ASSUME NEW r \in RequestState PROVE Detach(r) \in RequestState
    BY RowsMade DEF Detach, RequestState
<1> QED
    BY <1>1, <1>2, <1>3

(* What After leaves of the requests.                                      *)
LEMMA AfterType ==
    ASSUME NEW k \in Kind, NEW swapped \in BOOLEAN,
           request \in [Kind -> RequestState],
           queued \in {"none", "attached", "detached"},
           After(k, swapped)
    PROVE  /\ request' \in [Kind -> RequestState]
           /\ queued' \in {"none", "attached", "detached"}
<1> DEFINE gone(r) == IF swapped THEN Detach(r) ELSE r
           left == CASE k = "poll" -> [request EXCEPT !["poll"] = Idle,
                                                   !["refresh"] = gone(@)]
                  [] k = "late" -> [request EXCEPT !["late"] = Idle]
                  [] k = "refresh" ->
                        IF swapped /\ request["poll"].at # "idle"
                        THEN [request EXCEPT !["late"] = Detach(request["poll"]),
                                             !["poll"] = Idle, !["refresh"] = Idle]
                        ELSE [request EXCEPT !["refresh"] = Idle]
           target == IF swapped /\ queued = "attached" THEN "detached" ELSE queued
<1>1. \A r \in RequestState : gone(r) \in RequestState
    BY RequestsMade
<1>2. left \in [Kind -> RequestState]
    <2>1. CASE k = "poll"
        BY <2>1, <1>1, RequestsMade DEF Kind
    <2>2. CASE k = "late"
        BY <2>2, RequestsMade
    <2>3. CASE k = "refresh"
        BY <2>3, RequestsMade DEF Kind
    <2> QED
        BY <2>1, <2>2, <2>3 DEF Kind
<1>3. target \in {"none", "attached", "detached"}
    OBVIOUS
<1>4. (target = "attached") \in BOOLEAN
    OBVIOUS
<1>5. IF k = "refresh" /\ queued # "none"
      THEN /\ request' = [left EXCEPT !["refresh"] = Sent(target = "attached")]
           /\ queued' = "none"
      ELSE request' = left /\ queued' = target
    BY DEF After
<1> HIDE DEF left, target
<1>6. CASE k = "refresh" /\ queued # "none"
    BY <1>6, <1>5, <1>2, <1>4, RequestsMade
<1>7. CASE ~(k = "refresh" /\ queued # "none")
    BY <1>7, <1>5, <1>2, <1>3
<1> QED
    BY <1>6, <1>7
-----------------------------------------------------------------------------
(* Types.                                                                  *)

(* The page's parts of the state: TypeOK without the rest.                 *)
PageType ==
    /\ rows \in Rows
    /\ boxes \subseteq BoxesOf(rows)
    /\ checked \subseteq boxes \ {Master}
    /\ lastChecked \in boxes \cup {Master}
    /\ toolbar \subseteq Button

LEMMA ToolbarType ==
    ASSUME NEW rs, NEW sel, UpdateToolbar(rs, sel)
    PROVE  toolbar' \subseteq Button
BY DEF UpdateToolbar

(* What a click on a row, or on select-all, leaves selected.               *)
LEMMA ClickRowType ==
    ASSUME PageType, NEW h \in Hash, NEW shiftKey \in BOOLEAN, ClickRow(h, shiftKey)
    PROVE  PageType'
<1>1. Hash \subseteq Nat /\ Master \notin Hash
    BY ListPageAssumption DEF Hash, Master
<1>2. boxes \subseteq Hash \cup {Master}
    BY RowsAre DEF PageType, BoxesOf
<1>3. h \in boxes /\ h # Master
    BY <1>1 DEF ClickRow
<1>4. lastChecked # Master => ClickedRange(h) \subseteq boxes \ {Master}
    <2> SUFFICES ASSUME lastChecked # Master, NEW i \in ClickedRange(h)
                 PROVE  i \in boxes /\ i # Master
        OBVIOUS
    <2>1. lastChecked \in 1..NumTorrents /\ h \in 1..NumTorrents
        BY <1>2 DEF PageType, Hash
    <2>2. i \in boxes /\ ((lastChecked <= i /\ i <= h) \/ (h <= i /\ i <= lastChecked))
        BY DEF ClickedRange
    <2> QED
        BY <2>1, <2>2, ListPageAssumption DEF Master
<1> DEFINE range == IF shiftKey /\ lastChecked # Master THEN ClickedRange(h) ELSE {h}
<1>5. range \subseteq boxes \ {Master}
    BY <1>3, <1>4
<1>6. checked' = IF h \in checked THEN checked \ range ELSE checked \cup range
    BY DEF ClickRow
<1> HIDE DEF range
<1>7. checked' \subseteq boxes \ {Master}
    BY <1>5, <1>6 DEF PageType
<1>8. lastChecked' = h /\ rows' = rows /\ boxes' = boxes /\ toolbar' \subseteq Button
    BY ToolbarType DEF ClickRow
<1> QED
    BY <1>3, <1>7, <1>8 DEF PageType, BoxesOf

LEMMA SelectAllType ==
    ASSUME PageType, SelectAll
    PROVE  PageType'
<1>1. checked' \subseteq boxes \ {Master}
    BY DEF SelectAll
<1>2. lastChecked' = Master /\ rows' = rows /\ boxes' = boxes /\ toolbar' \subseteq Button
    BY ToolbarType DEF SelectAll
<1> QED
    BY <1>1, <1>2 DEF PageType, BoxesOf

(* Either swap leaves only boxes of the table that is shown.               *)
LEMMA SwapType ==
    ASSUME PageType, NEW rs \in Rows, Swap(rs) \/ SwapDetached(rs)
    PROVE  PageType'
<1>1. Master \notin Hash
    BY ListPageAssumption DEF Hash, Master
<1>2. DOMAIN rs \subseteq Hash
    BY RowsAre
<1>3. CASE Swap(rs)
    <2>1. toolbar' \subseteq Button
        BY <1>3, ToolbarType DEF Swap
    <2> QED
        BY <1>1, <1>2, <1>3, <2>1 DEF Swap, PageType, BoxesOf
<1>4. CASE SwapDetached(rs)
    <2>1. checked' \subseteq boxes' \ {Master}
        BY <1>1, <1>2, <1>4 DEF SwapDetached, PageType, BoxesOf
    <2>2. lastChecked' \in boxes' \cup {Master}
        BY <1>4 DEF SwapDetached, PageType, BoxesOf
    <2> QED
        BY <1>4, <2>1, <2>2 DEF SwapDetached, PageType
<1> QED
    BY <1>3, <1>4

(* The rest of TypeOK: the service, the bulk actions and the requests.     *)
ActionType ==
    /\ service \in Rows
    /\ dialog \subseteq Hash
    /\ inFlight \in BOOLEAN /\ frame \in BOOLEAN
    /\ bulk \in [Bulk -> BulkState]
    /\ request \in [Kind -> RequestState]
    /\ queued \in {"none", "attached", "detached"}
    /\ actions \in 0..MaxActions /\ upsets \in 0..MaxUpsets

LEMMA TypeParts == TypeOK <=> PageType /\ ActionType
BY DEF TypeOK, PageType, ActionType, RequestState, BulkState

LEMMA TypeInit == Init => PageType /\ ActionType
<1> SUFFICES ASSUME Init PROVE PageType /\ ActionType
    OBVIOUS
<1>1. rows \in Rows /\ service \in Rows
    BY RowsMade DEF Init
<1>2. bulk \in [Bulk -> BulkState]
    BY DEF Init, NoBulk, BulkState
<1>3. request \in [Kind -> RequestState]
    BY RequestsMade DEF Init
<1>4. PageType
    BY <1>1 DEF Init, PageType
<1>5. ActionType
    <2>1. actions \in 0..MaxActions /\ upsets \in 0..MaxUpsets
        BY ListPageAssumption DEF Init
    <2>2. inFlight \in BOOLEAN /\ frame \in BOOLEAN
        BY DEF Init
    <2>3. dialog \subseteq Hash /\ queued = "none"
        BY DEF Init
    <2> QED
        BY <1>1, <1>2, <1>3, <2>1, <2>2, <2>3 DEF ActionType
<1> QED
    BY <1>4, <1>5

(* A bulk action is started for selected torrents.                         *)
LEMMA StartType ==
    ASSUME PageType, ActionType, NEW action \in Button, Start(action)
    PROVE  /\ bulk' \in [Bulk -> BulkState]
           /\ inFlight' \in BOOLEAN
           /\ actions' \in 0..MaxActions
<1>1. CASE checked = {}
    BY <1>1 DEF Start, ActionType
<1>2. CASE checked # {}
    <2>1. checked \subseteq Hash
        BY RowsAre DEF PageType, BoxesOf
    <2>2. [action |-> action, pending |-> checked] \in BulkState
        BY <2>1 DEF BulkState
    <2>3. PICK b \in Bulk :
              bulk' = [bulk EXCEPT ![b] = [action |-> action, pending |-> checked]]
        BY <1>2 DEF Start
    <2>4. bulk' \in [Bulk -> BulkState]
        BY <2>2, <2>3 DEF ActionType
    <2>5. actions' \in 0..MaxActions
        BY <1>2, ListPageAssumption DEF Start, ActionType
    <2>6. inFlight' \in BOOLEAN
        BY <1>2 DEF Start
    <2> QED
        BY <2>4, <2>5, <2>6
<1> QED
    BY <1>1, <1>2

LEMMA HandleType ==
    ASSUME service \in Rows, NEW action \in Button \cup {"none"}, NEW h \in Hash,
           Handle(action, h)
    PROVE  service' \in Rows
<1>1. CASE h \notin DOMAIN service
    BY <1>1 DEF Handle
<1>2. CASE h \in DOMAIN service /\ action = "delete"
    BY <1>2, RowsMade DEF Handle
<1>3. CASE h \in DOMAIN service /\ action # "delete"
    <2>1. (action = "pause") \in BOOLEAN
        OBVIOUS
    <2>2. service' = [service EXCEPT ![h] = (action = "pause")]
        BY <1>3 DEF Handle
    <2> QED
        BY <1>3, <2>1, <2>2, RowsMade
<1> QED
    BY <1>1, <1>2, <1>3

LEMMA TypeStep == PageType /\ ActionType /\ [Next]_vars => PageType' /\ ActionType'
<1> SUFFICES ASSUME PageType, ActionType, [Next]_vars
             PROVE  PageType' /\ ActionType'
    OBVIOUS
<1>1. CASE UNCHANGED vars
    BY <1>1 DEF PageType, ActionType, vars, pageVars, bulkVars, BoxesOf
<1>2. ASSUME NEW h \in Hash, NEW shiftKey \in BOOLEAN, ClickRow(h, shiftKey)
      PROVE  PageType' /\ ActionType'
    <2>1. ActionType'
        BY <1>2 DEF ClickRow, ActionType, bulkVars
    <2> QED
        BY <1>2, <2>1, ClickRowType
<1>3. CASE SelectAll
    <2>1. ActionType'
        BY <1>3 DEF SelectAll, ActionType
    <2> QED
        BY <1>3, <2>1, SelectAllType
<1>4. CASE AnimationFrame
    BY <1>4 DEF AnimationFrame, ActionType, PageType, pageVars, BoxesOf
<1>5. ASSUME NEW button \in Button, ClickToggle(button)
      PROVE  PageType' /\ ActionType'
    <2>1. PageType'
        BY <1>5 DEF ClickToggle, PageType, pageVars, BoxesOf
    <2>2. Start(button)
        BY <1>5 DEF ClickToggle
    <2>3. ActionType'
        BY <1>5, <2>2, StartType DEF ClickToggle, ActionType
    <2> QED
        BY <2>1, <2>3
<1>6. CASE ClickDelete
    <2>1. checked \subseteq Hash
        BY RowsAre DEF PageType, BoxesOf
    <2> QED
        BY <1>6, <2>1 DEF ClickDelete, ActionType, PageType, pageVars, BoxesOf
<1>7. CASE Confirm
    <2>1. PageType'
        BY <1>7 DEF Confirm, PageType, pageVars, BoxesOf
    <2>2. Start("delete") /\ "delete" \in Button
        BY <1>7 DEF Confirm, Button
    <2>3. ActionType'
        BY <1>7, <2>2, StartType DEF Confirm, ActionType
    <2> QED
        BY <2>1, <2>3
<1>8. CASE CloseDialog
    BY <1>8 DEF CloseDialog, ActionType, PageType, pageVars, BoxesOf
<1>9. ASSUME NEW b \in Bulk, Settled(b)
      PROVE  PageType' /\ ActionType'
    <2>1. PageType'
        BY <1>9 DEF Settled, PageType, pageVars, BoxesOf
    <2>2. bulk' \in [Bulk -> BulkState]
        BY <1>9 DEF Settled, ActionType, NoBulk, BulkState
    <2>3. /\ request' \in [Kind -> RequestState]
          /\ queued' \in {"none", "attached", "detached"}
        BY <1>9, RequestsMade DEF Settled, ActionType
    <2>4. ActionType'
        BY <1>9, <2>2, <2>3 DEF Settled, ActionType
    <2> QED
        BY <2>1, <2>4
<1>10. ASSUME NEW b \in Bulk, NEW h \in Hash, Fetch(b, h)
       PROVE  PageType' /\ ActionType'
    <2>1. PageType'
        BY <1>10 DEF Fetch, PageType, pageVars, BoxesOf
    <2>2. bulk' \in [Bulk -> BulkState]
        BY <1>10 DEF Fetch, ActionType, BulkState
    <2>3. bulk[b].action \in Button \cup {"none"}
        BY DEF ActionType, BulkState
    <2>4. service' \in Rows /\ upsets' \in 0..MaxUpsets
        BY <1>10, <2>3, HandleType, ListPageAssumption DEF Fetch, ActionType
    <2>5. ActionType'
        BY <1>10, <2>2, <2>4 DEF Fetch, ActionType
    <2> QED
        BY <2>1, <2>5
<1>11. CASE PollTick
    <2>1. request' \in [Kind -> RequestState]
        BY <1>11, RequestsMade DEF PollTick, ActionType
    <2> QED
        BY <1>11, <2>1 DEF PollTick, ActionType, PageType, pageVars, bulkVars, BoxesOf
<1>12. ASSUME NEW k \in Kind, Table(k)
       PROVE  PageType' /\ ActionType'
    <2> DEFINE rs == IF request[k].attached THEN service ELSE Listing(service)
    <2>1. rs \in Rows
        BY RowsMade DEF ActionType
    <2>2. request' = [request EXCEPT ![k].at = "client", ![k].rows = rs]
        BY <1>12 DEF Table
    <2> HIDE DEF rs
    <2>3. request' \in [Kind -> RequestState]
        BY <2>1, <2>2 DEF ActionType, RequestState
    <2> QED
        BY <1>12, <2>3 DEF Table, ActionType, PageType, pageVars, bulkVars, BoxesOf
<1>13. ASSUME NEW k \in Kind, Receive(k)
       PROVE  PageType' /\ ActionType'
    <2>1. request[k] \in RequestState
        BY DEF ActionType
    <2>2. request[k].rows \in Rows /\ request[k].attached \in BOOLEAN
        BY <2>1 DEF RequestState
    <2>3. PageType'
        BY <1>13, <2>2, SwapType DEF Receive
    <2>4. After(k, request[k].attached)
        BY <1>13 DEF Receive
    <2>5. /\ request' \in [Kind -> RequestState]
          /\ queued' \in {"none", "attached", "detached"}
        BY <2>2, <2>4, AfterType DEF ActionType
    <2>6. ActionType'
        BY <1>13, <2>5 DEF Receive, ActionType, bulkVars
    <2> QED
        BY <2>3, <2>6
<1>14. ASSUME NEW k \in Kind, RequestFails(k)
       PROVE  PageType' /\ ActionType'
    <2>1. /\ request' \in [Kind -> RequestState]
          /\ queued' \in {"none", "attached", "detached"}
        BY <1>14, AfterType DEF RequestFails, ActionType
    <2>2. upsets' \in 0..MaxUpsets
        BY <1>14, ListPageAssumption DEF RequestFails, ActionType
    <2> QED
        BY <1>14, <2>1, <2>2 DEF RequestFails, ActionType, PageType, pageVars, bulkVars, BoxesOf
<1>15. CASE Elsewhere
    <2>1. PICK h \in Hash :
           \/ h \in DOMAIN service /\ service' = Without(service, h)
           \/ h \in DOMAIN service /\ service' = [service EXCEPT ![h] = ~@]
           \/ h \notin DOMAIN service
                /\ service' = [i \in DOMAIN service \cup {h} |-> i # h /\ service[i]]
        BY <1>15 DEF Elsewhere
    <2>2. service \in Rows /\ (~service[h]) \in BOOLEAN
        BY DEF ActionType
    <2>3. service' \in Rows
        BY <2>1, <2>2, RowsMade
    <2>4. upsets' \in 0..MaxUpsets
        BY <1>15, ListPageAssumption DEF Elsewhere, ActionType
    <2> QED
        BY <1>15, <2>3, <2>4 DEF Elsewhere, ActionType, PageType, pageVars, bulkVars, BoxesOf
<1> QED
    BY <1>1, <1>2, <1>3, <1>4, <1>5, <1>6, <1>7, <1>8, <1>9, <1>10, <1>11, <1>12, <1>13,
       <1>14, <1>15
    DEF Next, Button

(* Every part of the page keeps its type: the boxes are those of the table *)
(* that is shown, only they are selected or clicked last, and bulk actions *)
(* and answers are about torrents that were listed.                        *)
THEOREM TypeCorrect == Spec => []TypeOK
<1>1. PageType /\ ActionType => TypeOK
    BY TypeParts
<1> QED
    BY <1>1, TypeInit, TypeStep, PTL DEF Spec

-----------------------------------------------------------------------------
(* The dialog.                                                             *)

(* While the dialog is open the selection only shrinks.                    *)
Counted == DialogOpen => checked \subseteq dialog

LEMMA CountedStep == Counted /\ [Next]_vars => Counted'
<1> SUFFICES ASSUME Counted, [Next]_vars PROVE Counted'
    OBVIOUS
<1> USE DEF Counted, DialogOpen
<1>1. CASE UNCHANGED vars
    BY <1>1 DEF vars, pageVars, bulkVars
<1>2. ASSUME NEW h \in Hash, NEW shiftKey \in BOOLEAN, ClickRow(h, shiftKey)
      PROVE  Counted'
    <2>1. dialog = {} /\ dialog' = dialog
        BY <1>2 DEF ClickRow, bulkVars
    <2> QED
        BY <2>1
<1>3. CASE SelectAll
    <2>1. dialog = {} /\ dialog' = dialog
        BY <1>3 DEF SelectAll
    <2> QED
        BY <2>1
<1>4. CASE AnimationFrame
    BY <1>4 DEF AnimationFrame, pageVars
<1>5. ASSUME NEW button \in Button, ClickToggle(button)
      PROVE  Counted'
    BY <1>5 DEF ClickToggle, pageVars
<1>6. CASE ClickDelete
    BY <1>6 DEF ClickDelete, pageVars
<1>7. CASE Confirm
    BY <1>7 DEF Confirm
<1>8. CASE CloseDialog
    BY <1>8 DEF CloseDialog
<1>9. ASSUME NEW b \in Bulk, Settled(b)
      PROVE  Counted'
    BY <1>9 DEF Settled, pageVars
<1>10. ASSUME NEW b \in Bulk, NEW h \in Hash, Fetch(b, h)
       PROVE  Counted'
    BY <1>10 DEF Fetch, pageVars
<1>11. CASE PollTick
    BY <1>11 DEF PollTick, pageVars, bulkVars
<1>12. ASSUME NEW k \in Kind, Table(k)
       PROVE  Counted'
    BY <1>12 DEF Table, pageVars, bulkVars
<1>13. ASSUME NEW k \in Kind, Receive(k)
       PROVE  Counted'
    <2>1. checked' \subseteq checked
        BY <1>13 DEF Receive, Swap, SwapDetached
    <2>2. dialog' = dialog
        BY <1>13 DEF Receive, bulkVars
    <2> QED
        BY <2>1, <2>2
<1>14. ASSUME NEW k \in Kind, RequestFails(k)
       PROVE  Counted'
    BY <1>14 DEF RequestFails, pageVars, bulkVars
<1>15. CASE Elsewhere
    BY <1>15 DEF Elsewhere, pageVars, bulkVars
<1> QED
    BY <1>1, <1>2, <1>3, <1>4, <1>5, <1>6, <1>7, <1>8, <1>9, <1>10, <1>11, <1>12, <1>13,
       <1>14, <1>15
    DEF Next, Button

(* What a bulk action that starts is for.                                  *)
LEMMA StartEffect ==
    ASSUME ActionType, NEW action \in Button, Start(action), NEW b \in Bulk, bulk[b] = NoBulk
    PROVE  bulk'[b] \in {NoBulk, [action |-> action, pending |-> checked]}
<1>1. CASE checked = {}
    BY <1>1 DEF Start
<1>2. CASE checked # {}
    <2>1. PICK c \in Bulk :
              bulk' = [bulk EXCEPT ![c] = [action |-> action, pending |-> checked]]
        BY <1>2 DEF Start
    <2> QED
        BY <2>1 DEF ActionType
<1> QED
    BY <1>1, <1>2

(* A deletion starts only when the dialog is confirmed, and for what is    *)
(* still selected then.                                                    *)
LEMMA DeletionStep ==
    ASSUME ActionType, Counted, [Next]_vars,
           NEW b \in Bulk, bulk[b] = NoBulk, bulk'[b].action = "delete"
    PROVE  bulk'[b].pending \subseteq dialog
<1>1. bulk'[b] # NoBulk
    BY DEF NoBulk
<1>2. bulk' # bulk
    BY <1>1
<1>3. ASSUME NEW button \in {"pause", "resume"}, ClickToggle(button)
      PROVE  FALSE
    <2>1. Start(button) /\ button \in Button
        BY <1>3 DEF ClickToggle, Button
    <2>2. bulk'[b] = [action |-> button, pending |-> checked]
        BY <1>1, <2>1, StartEffect
    <2> QED
        BY <2>2
<1>4. ASSUME NEW c \in Bulk, Settled(c)
      PROVE  FALSE
    BY <1>1, <1>4 DEF Settled, ActionType
<1>5. ASSUME NEW c \in Bulk, NEW h \in Hash, Fetch(c, h)
      PROVE  FALSE
    <2>1. b # c
        BY <1>5 DEF Fetch, NoBulk
    <2> QED
        BY <1>1, <1>5, <2>1 DEF Fetch, ActionType
<1>6. Confirm
    BY <1>2, <1>3, <1>4, <1>5
    DEF Next, vars, bulkVars, ClickRow, SelectAll, AnimationFrame, ClickDelete, CloseDialog,
        PollTick, Table, Receive, RequestFails, Elsewhere
<1>7. Start("delete") /\ "delete" \in Button
    BY <1>6 DEF Confirm, Button
<1>8. bulk'[b] = [action |-> "delete", pending |-> checked]
    BY <1>1, <1>7, StartEffect
<1> QED
    BY <1>6, <1>8 DEF Confirm, Counted

(* Nothing is deleted that the dialog did not count, whatever is polled,   *)
(* swapped or changed elsewhere between opening it and confirming it.      *)
THEOREM OnlyCountedDeleted == Spec => DeletesWhatWasCounted
<1> DEFINE A == \A b \in Bulk : bulk[b] = NoBulk /\ bulk'[b].action = "delete"
                                  => bulk'[b].pending \subseteq dialog
<1>1. Init => Counted
    BY DEF Init, Counted, DialogOpen
<1>2. ActionType /\ Counted /\ [Next]_vars => A
    BY DeletionStep
<1>3. (PageType /\ ActionType /\ Counted) /\ [Next]_vars => [A]_vars
    BY <1>2
<1>4. DeletesWhatWasCounted <=> [][A]_vars
    BY DEF DeletesWhatWasCounted
<1> HIDE DEF A
<1> QED
    BY <1>1, <1>3, <1>4, TypeInit, TypeStep, CountedStep, PTL DEF Spec

-----------------------------------------------------------------------------
(* The class of the body.                                                  *)

(* One bulk action runs at most.  It and the frame of select-all both hold *)
(* the class and never at once, and the dialog is open without either.     *)
OneBulk ==
    /\ \A b, c \in Bulk : bulk[b] # NoBulk /\ bulk[c] # NoBulk => b = c
    /\ \A b \in Bulk : bulk[b] # NoBulk => inFlight = TRUE /\ frame = FALSE
    /\ frame = TRUE => inFlight = TRUE
    /\ DialogOpen => inFlight = FALSE

(* A bulk action that starts without the class runs alone.                 *)
LEMMA StartAlone ==
    ASSUME ActionType, OneBulk, inFlight = FALSE, NEW action \in Button, Start(action),
           frame' = frame, dialog' = {} \/ (dialog' = dialog /\ dialog = {})
    PROVE  OneBulk'
<1>1. \A b \in Bulk : bulk[b] = NoBulk
    BY DEF OneBulk
<1>2. frame = FALSE
    BY DEF OneBulk, ActionType
<1>3. CASE checked = {}
    BY <1>1, <1>2, <1>3 DEF Start, OneBulk, DialogOpen
<1>4. CASE checked # {}
    <2>1. PICK c \in Bulk :
              bulk' = [bulk EXCEPT ![c] = [action |-> action, pending |-> checked]]
        BY <1>4 DEF Start
    <2>2. \A b \in Bulk : b # c => bulk'[b] = NoBulk
        BY <1>1, <2>1 DEF ActionType
    <2>3. inFlight' = TRUE /\ frame' = FALSE /\ dialog' = {}
        BY <1>2, <1>4 DEF Start
    <2> QED
        BY <2>2, <2>3 DEF OneBulk, DialogOpen
<1> QED
    BY <1>3, <1>4

LEMMA OneBulkStep ==
    ASSUME ~ToggleInBulk, ActionType, OneBulk, [Next]_vars
    PROVE  OneBulk'
<1> USE DEF DialogOpen
<1>1. CASE UNCHANGED bulkVars
    BY <1>1 DEF OneBulk, bulkVars
<1>2. CASE SelectAll
    <2>1. bulk' = bulk /\ \A b \in Bulk : bulk[b] = NoBulk
        BY <1>2 DEF SelectAll
    <2>2. inFlight' = TRUE /\ frame' = TRUE /\ dialog' = {}
        BY <1>2 DEF SelectAll
    <2> QED
        BY <2>1, <2>2 DEF OneBulk
<1>3. CASE AnimationFrame
    <2>1. frame = TRUE /\ bulk' = bulk /\ frame' = FALSE /\ inFlight' = FALSE
        BY <1>3 DEF AnimationFrame, ActionType
    <2>2. \A b \in Bulk : bulk'[b] = NoBulk
        BY <2>1 DEF OneBulk
    <2> QED
        BY <2>1, <2>2 DEF OneBulk
<1>4. ASSUME NEW button \in Button, ClickToggle(button)
      PROVE  OneBulk'
    <2>1. Start(button) /\ inFlight = FALSE /\ frame' = frame
        BY <1>4 DEF ClickToggle, MayClick, ActionType
    <2>2. dialog' = dialog /\ dialog = {}
        BY <1>4 DEF ClickToggle, MayClick
    <2> QED
        BY <2>1, <2>2, StartAlone
<1>5. CASE ClickDelete
    <2>1. inFlight = FALSE /\ inFlight' = inFlight /\ frame' = frame /\ bulk' = bulk
        BY <1>5 DEF ClickDelete, MayClick, ActionType
    <2> QED
        BY <2>1 DEF OneBulk
<1>6. CASE Confirm
    <2>1. Start("delete") /\ inFlight = FALSE /\ frame' = frame /\ "delete" \in Button
        BY <1>6 DEF Confirm, OneBulk, Button
    <2>2. dialog' = {}
        BY <1>6 DEF Confirm
    <2> QED
        BY <2>1, <2>2, StartAlone
<1>7. CASE CloseDialog
    BY <1>7 DEF CloseDialog, OneBulk
<1>8. ASSUME NEW b \in Bulk, Settled(b)
      PROVE  OneBulk'
    <2>1. bulk' = [bulk EXCEPT ![b] = NoBulk] /\ bulk[b] # NoBulk
        BY <1>8 DEF Settled
    <2>2. \A c \in Bulk : bulk'[c] = NoBulk
        BY <2>1 DEF OneBulk, ActionType
    <2>3. frame' = FALSE /\ inFlight' = FALSE
        BY <1>8, <2>1 DEF Settled, OneBulk
    <2> QED
        BY <2>2, <2>3 DEF OneBulk
<1>9. ASSUME NEW b \in Bulk, NEW h \in Hash, Fetch(b, h)
      PROVE  OneBulk'
    <2>1. bulk[b] # NoBulk
        BY <1>9 DEF Fetch, NoBulk
    <2>2. \A c \in Bulk : c # b => bulk'[c] = NoBulk
        BY <1>9, <2>1 DEF Fetch, OneBulk, ActionType
    <2>3. frame' = FALSE /\ inFlight' = TRUE /\ dialog' = dialog
        BY <1>9, <2>1 DEF Fetch, OneBulk
    <2>4. dialog = {}
        BY <2>1 DEF OneBulk
    <2> QED
        BY <2>2, <2>3, <2>4 DEF OneBulk
<1> QED
    BY <1>1, <1>2, <1>3, <1>4, <1>5, <1>6, <1>7, <1>8, <1>9
    DEF Next, vars, bulkVars, Button, ClickRow, PollTick, Table, Receive, RequestFails, Elsewhere

(* Unless select-all is clicked while one runs, every bulk action runs     *)
(* under the class for its whole duration, so the toolbar starts no second *)
(* one: the selection's own frame never takes it away.                     *)
THEOREM BulkMarked == ASSUME ~ToggleInBulk PROVE Spec => []BulkIsMarked
<1>1. Init => OneBulk
    <2> SUFFICES ASSUME Init PROVE OneBulk
        OBVIOUS
    <2>1. \A b \in Bulk : bulk[b] = NoBulk
        BY DEF Init
    <2> QED
        BY <2>1 DEF Init, OneBulk, DialogOpen
<1>2. ActionType /\ OneBulk /\ [Next]_vars => OneBulk'
    BY OneBulkStep
<1>3. OneBulk => BulkIsMarked
    BY DEF OneBulk, BulkIsMarked
<1> QED
    BY <1>1, <1>2, <1>3, TypeInit, TypeStep, PTL DEF Spec
=============================================================================
