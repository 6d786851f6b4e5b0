------------------------------- MODULE ListPage -------------------------------
(***************************************************************************)
(* The list page: the selection script (ui/script/selection.templ), the    *)
(* delete dialog (ui/script/delete_dialog.templ) and the polled table      *)
(* (ui/component/torrent_table.templ) in one browser tab, with htmx        *)
(* (ui/static/htmx.min.js) between them and the UI handlers                *)
(* (ui/ui_torrent.go).  A torrent is its place in the list.                *)
(*                                                                         *)
(* The page has one thread: every event handler, promise callback and      *)
(* response handler is one action.  Requests and their answers are in      *)
(* flight between the actions, and the service changes under them.         *)
(***************************************************************************)
EXTENDS Naturals

CONSTANTS
    NumTorrents,    \* torrents, in the order List returns them
    MaxBulks,       \* bound: bulk actions running at once
    MaxActions,     \* bound: bulk actions of one tab
    MaxUpsets,      \* bound: changes of the service from elsewhere and
                    \* requests that fail, together
    ToggleInBulk    \* whether select-all is clicked during a bulk action

Hash == 1..NumTorrents
Bulk == 1..MaxBulks

(* The box of the select-all checkbox.                                     *)
Master == 0

ASSUME ListPageAssumption ==
    /\ NumTorrents \in Nat /\ MaxBulks \in Nat /\ MaxActions \in Nat
    /\ MaxUpsets \in Nat
    /\ ToggleInBulk \in BOOLEAN

VARIABLES
    service,        \* what List returns: the managed torrents
    rows,           \* the rows of the table that is in the document
    boxes,          \* the checkboxes that are in the document
    checked,        \* the row checkboxes that are checked
    lastChecked,    \* the row clicked last, while its box is in the document
    toolbar,        \* the enabled buttons
    inFlight,       \* the bulk-in-flight class of the body
    frame,          \* an animation frame is to remove the class
    dialog,         \* what the open delete dialog was opened for
    bulk,           \* the running calls of bulk
    request,        \* the requests for the table
    queued,         \* a refresh htmx has queued on the body, and its target
    actions, upsets

pageVars == <<rows, boxes, checked, lastChecked, toolbar>>
bulkVars == <<inFlight, frame, dialog, bulk, actions>>
vars == <<service, pageVars, bulkVars, request, queued, upsets>>

Button == {"pause", "resume", "delete"}

(* The listed torrents, each with its data-paused.                         *)
Rows == UNION {[hs -> BOOLEAN] : hs \in SUBSET Hash}
NoRows == [h \in {} |-> FALSE]

NoBulk == [action |-> "none", pending |-> {}]

(* A request is idle, at the server, or answered; attached: its target is  *)
(* the table in the document.  A poll whose table was replaced is "late".  *)
Idle == [at |-> "idle", attached |-> FALSE, rows |-> NoRows]
Sent(attached) == [Idle EXCEPT !.at = "server", !.attached = attached]
Kind == {"poll", "late", "refresh"}

(* The checkboxes of a rendered table.                                     *)
BoxesOf(rs) == DOMAIN rs \cup (IF DOMAIN rs = {} THEN {} ELSE {Master})

TypeOK ==
    /\ service \in Rows /\ rows \in Rows
    /\ boxes \subseteq BoxesOf(rows)
    /\ checked \subseteq boxes \ {Master}
    /\ lastChecked \in boxes \cup {Master}
    /\ toolbar \subseteq Button
    /\ inFlight \in BOOLEAN /\ frame \in BOOLEAN
    /\ dialog \subseteq Hash
    /\ bulk \in [Bulk -> [action : Button \cup {"none"}, pending : SUBSET Hash]]
    /\ request \in [Kind -> [at : {"idle", "server", "client"}, attached : BOOLEAN, rows : Rows]]
    /\ queued \in {"none", "attached", "detached"}
    /\ actions \in 0..MaxActions /\ upsets \in 0..MaxUpsets

Init ==
    /\ service = [h \in Hash |-> FALSE]
    /\ rows = service
    /\ boxes = BoxesOf(service)
    /\ checked = {}
    /\ lastChecked = Master
    /\ toolbar = {}
    /\ inFlight = FALSE /\ frame = FALSE
    /\ dialog = {}
    /\ bulk = [b \in Bulk |-> NoBulk]
    /\ request = [k \in Kind |-> Idle]
    /\ queued = "none"
    /\ actions = 0 /\ upsets = 0

-----------------------------------------------------------------------------
(* Selection.  An open dialog is modal: the page behind it takes no clicks. *)

DialogOpen == dialog # {}

UpdateToolbar(rs, sel) ==
    toolbar' = {b \in Button : \E h \in sel \cap DOMAIN rs :
                    CASE b = "resume" -> rs[h]
                      [] b = "pause" -> ~rs[h]
                      [] b = "delete" -> TRUE}

(* Mutant: the range takes the row after its end too.                      *)
ClickedRangeOffByOne(h) ==
    {i \in Hash : (lastChecked <= i /\ i <= h + 1) \/ (h <= i /\ i <= lastChecked + 1)}

(* The rows from lastChecked to h.                                         *)
ClickedRange(h) ==
    {i \in boxes : (lastChecked <= i /\ i <= h) \/ (h <= i /\ i <= lastChecked)}

ClickRow(h, shiftKey) ==
    /\ ~DialogOpen
    /\ h \in boxes
    /\ LET range == IF shiftKey /\ lastChecked # Master THEN ClickedRange(h) ELSE {h} IN
       checked' = IF h \in checked THEN checked \ range ELSE checked \cup range
    /\ lastChecked' = h
    /\ UpdateToolbar(rows, checked')
    /\ UNCHANGED <<service, rows, boxes, bulkVars, request, queued, upsets>>

(* The master is checked when every row is, and a click inverts it.        *)
SelectAll ==
    /\ ~DialogOpen
    /\ Master \in boxes
    /\ ToggleInBulk \/ bulk = [b \in Bulk |-> NoBulk]
    /\ LET all == boxes \ {Master} IN
       checked' = IF checked = all /\ all # {} THEN {} ELSE all
    /\ lastChecked' = Master
    /\ UpdateToolbar(rows, checked')
    /\ inFlight' = TRUE
    /\ frame' = TRUE
    /\ UNCHANGED <<service, rows, boxes, dialog, bulk, actions, request, queued, upsets>>

AnimationFrame ==
    /\ frame
    /\ frame' = FALSE
    /\ inFlight' = FALSE
    /\ UNCHANGED <<service, pageVars, dialog, bulk, actions, request, queued, upsets>>

-----------------------------------------------------------------------------
(* Bulk actions.                                                           *)

(* Mutant: the class is left to the caller.                                *)
StartUnmarked(action) ==
    IF checked = {}
    THEN UNCHANGED <<inFlight, bulk, actions>>
    ELSE /\ actions < MaxActions
         /\ actions' = actions + 1
         /\ \E b \in Bulk :
                /\ bulk[b] = NoBulk
                /\ bulk' = [bulk EXCEPT ![b] = [action |-> action, pending |-> checked]]
         /\ UNCHANGED inFlight

(* bulk: a fetch for each torrent that is selected now.                    *)
Start(action) ==
    IF checked = {}
    THEN UNCHANGED <<inFlight, bulk, actions>>
    ELSE /\ actions < MaxActions
         /\ actions' = actions + 1
         /\ \E b \in Bulk :
                /\ bulk[b] = NoBulk
                /\ bulk' = [bulk EXCEPT ![b] = [action |-> action, pending |-> checked]]
         /\ inFlight' = TRUE

MayClick(button) == ~DialogOpen /\ button \in toolbar /\ ~inFlight

ClickToggle(button) ==
    /\ MayClick(button)
    /\ Start(button)
    /\ UNCHANGED <<service, pageVars, frame, dialog, request, queued, upsets>>

(* The dialog counts the selection (which of its files to keep is between  *)
(* the user and the service: module TorrentService).                       *)
ClickDelete ==
    /\ MayClick("delete")
    /\ checked # {}
    /\ dialog' = checked
    /\ UNCHANGED <<service, pageVars, inFlight, frame, bulk, actions, request, queued, upsets>>

(* Mutant: the callback deletes every row when all were selected.          *)
ConfirmAll ==
    /\ DialogOpen
    /\ actions < MaxActions
    /\ actions' = actions + 1
    /\ \E b \in Bulk :
           /\ bulk[b] = NoBulk
           /\ bulk' = [bulk EXCEPT ![b] = [action |-> "delete", pending |-> boxes \ {Master}]]
    /\ inFlight' = TRUE
    /\ dialog' = {}
    /\ UNCHANGED <<service, pageVars, frame, request, queued, upsets>>

(* The callback calls bulk, which reads the selection again.               *)
Confirm ==
    /\ DialogOpen
    /\ Start("delete")
    /\ dialog' = {}
    /\ UNCHANGED <<service, pageVars, frame, request, queued, upsets>>

CloseDialog ==
    /\ DialogOpen
    /\ dialog' = {}
    /\ UNCHANGED <<service, pageVars, inFlight, frame, bulk, actions, request, queued, upsets>>

(* A fetch settles: the handler ran, found no torrent, or failed.          *)
Without(rs, h) == [i \in DOMAIN rs \ {h} |-> rs[i]]

Handle(action, h) ==
    service' = CASE h \notin DOMAIN service -> service
                 [] h \in DOMAIN service /\ action = "delete" -> Without(service, h)
                 [] h \in DOMAIN service /\ action # "delete" ->
                        [service EXCEPT ![h] = (action = "pause")]

Fetch(b, h) ==
    /\ h \in bulk[b].pending
    /\ bulk' = [bulk EXCEPT ![b].pending = @ \ {h}]
    /\ \/ Handle(bulk[b].action, h) /\ UNCHANGED upsets
       \/ upsets < MaxUpsets /\ upsets' = upsets + 1 /\ UNCHANGED service
    /\ UNCHANGED <<pageVars, inFlight, frame, dialog, actions, request, queued>>

(* allSettled: the class goes, then htmx.ajax refreshes the table.  htmx   *)
(* sends one request of the body at a time and keeps the last one waiting, *)
(* with the target it was given.                                           *)
Settled(b) ==
    /\ bulk[b] # NoBulk /\ bulk[b].pending = {}
    /\ bulk' = [bulk EXCEPT ![b] = NoBulk]
    /\ inFlight' = FALSE
    /\ IF request["refresh"].at = "idle"
       THEN request' = [request EXCEPT !["refresh"] = Sent(TRUE)] /\ UNCHANGED queued
       ELSE queued' = "attached" /\ UNCHANGED request
    /\ UNCHANGED <<service, pageVars, frame, dialog, actions, upsets>>

-----------------------------------------------------------------------------
(* The table's requests.                                                   *)

(* Mutant: the filter pauses the poll while rows are selected.             *)
PollTickUnselected ==
    /\ ~inFlight
    /\ checked = {}
    /\ request["poll"].at = "idle"
    /\ request' = [request EXCEPT !["poll"] = Sent(TRUE)]
    /\ UNCHANGED <<service, pageVars, bulkVars, queued, upsets>>

(* The trigger "every 1s" and its filter.                                  *)
PollTick ==
    /\ ~inFlight
    /\ request["poll"].at = "idle"
    /\ request' = [request EXCEPT !["poll"] = Sent(TRUE)]
    /\ UNCHANGED <<service, pageVars, bulkVars, queued, upsets>>

(* The handler Table renders what List returns.  Of an answer for a table  *)
(* that was replaced only the listed torrents matter.                      *)
Listing(rs) == [h \in DOMAIN rs |-> FALSE]

Table(k) ==
    /\ request[k].at = "server"
    /\ request' = [request EXCEPT ![k].at = "client",
                                  ![k].rows = IF request[k].attached THEN service ELSE Listing(service)]
    /\ UNCHANGED <<service, pageVars, bulkVars, queued, upsets>>

(* htmx's outerHTML swap into the table in the document: boxes that are    *)
(* listed again are preserved, the others are new and unchecked.           *)
Swap(rs) ==
    /\ rows' = rs
    /\ boxes' = BoxesOf(rs)
    /\ checked' = checked \cap DOMAIN rs
    /\ lastChecked' = IF lastChecked \in DOMAIN rs THEN lastChecked ELSE Master
    /\ UpdateToolbar(rs, checked')

(* htmx's swap when the table was replaced since: the preserved boxes are  *)
(* moved out of the document into the answer before the swap finds that    *)
(* its target has no parent and does nothing more.                         *)
SwapDetached(rs) ==
    /\ boxes' = boxes \ BoxesOf(rs)
    /\ checked' = checked \ DOMAIN rs
    /\ lastChecked' = IF lastChecked \in DOMAIN rs THEN Master ELSE lastChecked
    /\ UNCHANGED <<rows, toolbar>>

(* What becomes of the requests when the answer of k is through: a swap    *)
(* detaches the targets of the others, and the queued refresh is sent.     *)
Detach(r) == [r EXCEPT !.attached = FALSE, !.rows = Listing(@)]

After(k, swapped) ==
    LET gone(r) == IF swapped THEN Detach(r) ELSE r
        left == CASE k = "poll" -> [request EXCEPT !["poll"] = Idle,
                                                   !["refresh"] = gone(@)]
                  [] k = "late" -> [request EXCEPT !["late"] = Idle]
                  [] k = "refresh" ->
                        IF swapped /\ request["poll"].at # "idle"
                        THEN [request EXCEPT !["late"] = Detach(request["poll"]),
                                             !["poll"] = Idle, !["refresh"] = Idle]
                        ELSE [request EXCEPT !["refresh"] = Idle]
        target == IF swapped /\ queued = "attached" THEN "detached" ELSE queued
    IN  IF k = "refresh" /\ queued # "none"
        THEN /\ request' = [left EXCEPT !["refresh"] = Sent(target = "attached")]
             /\ queued' = "none"
        ELSE request' = left /\ queued' = target

Receive(k) ==
    /\ request[k].at = "client"
    /\ k = "refresh" => request["late"].at = "idle" \* bound: one late poll
    /\ IF request[k].attached THEN Swap(request[k].rows) ELSE SwapDetached(request[k].rows)
    /\ After(k, request[k].attached)
    /\ UNCHANGED <<service, bulkVars, upsets>>

(* A failed request swaps nothing; a poll that ticked meanwhile is sent.   *)
RequestFails(k) ==
    /\ request[k].at = "server"
    /\ upsets < MaxUpsets
    /\ upsets' = upsets + 1
    /\ \/ After(k, FALSE)
       \/ k = "poll" /\ UNCHANGED <<request, queued>>
    /\ UNCHANGED <<service, pageVars, bulkVars>>

-----------------------------------------------------------------------------
(* The service changes from elsewhere: another client or the download.     *)
Elsewhere ==
    /\ upsets < MaxUpsets
    /\ upsets' = upsets + 1
    /\ \E h \in Hash :
           \/ h \in DOMAIN service /\ service' = Without(service, h)
           \/ h \in DOMAIN service /\ service' = [service EXCEPT ![h] = ~@]
           \/ h \notin DOMAIN service /\ service' = [i \in DOMAIN service \cup {h} |-> i # h /\ service[i]]
    /\ UNCHANGED <<pageVars, bulkVars, request, queued>>

Next ==
    \/ \E h \in Hash, shiftKey \in BOOLEAN : ClickRow(h, shiftKey)
    \/ SelectAll \/ AnimationFrame
    \/ ClickToggle("pause") \/ ClickToggle("resume") \/ ClickDelete
    \/ Confirm \/ CloseDialog
    \/ \E b \in Bulk : Settled(b) \/ \E h \in Hash : Fetch(b, h)
    \/ PollTick
    \/ \E k \in Kind : Table(k) \/ Receive(k) \/ RequestFails(k)
    \/ Elsewhere

Spec == Init /\ [][Next]_vars

(* Requests are answered and callbacks run.  The poll's timer ticks for    *)
(* ever: select-all holds the class for one frame, so a tick a second does *)
(* not always meet it.                                                     *)
Fairness ==
    /\ WF_vars(AnimationFrame)
    /\ \A b \in Bulk : WF_vars(Settled(b)) /\ \A h \in Hash : WF_vars(Fetch(b, h))
    /\ \A k \in Kind : WF_vars(Table(k)) /\ WF_vars(Receive(k))
    /\ SF_vars(PollTick)

FairSpec == Spec /\ Fairness

-----------------------------------------------------------------------------
(* Properties.                                                             *)

(* "A `bulk-in-flight` body class is set for the duration" (Selection): no *)
(* bulk action runs without it, so the poll pauses and the toolbar starts  *)
(* no second one.                                                          *)
BulkIsMarked == \A b \in Bulk : bulk[b] # NoBulk => inFlight

(* Nothing is deleted that the dialog did not count: the torrents that the *)
(* confirmed dialog deletes, read from the page only then, are among those *)
(* it was opened for, whatever was polled while it was open.               *)
DeletesWhatWasCounted ==
    [][\A b \in Bulk : bulk[b] = NoBulk /\ bulk'[b].action = "delete"
                           => bulk'[b].pending \subseteq dialog]_vars

(* "selection survives the swap" (TorrentTable): nothing that happens to    *)
(* the table's requests takes the selection off a torrent that the table   *)
(* then lists; only the user does.                                         *)
SelectionSurvives ==
    [][request' # request => checked \cap DOMAIN rows' \subseteq checked']_vars

(* The page catches up: once the service changes no more, the table shows  *)
(* it with all its checkboxes, also after an answer that came too late.    *)
PageCatchesUp == <>[](rows = service /\ boxes = BoxesOf(service))
=============================================================================
