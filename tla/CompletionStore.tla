---------------------------- MODULE CompletionStore ----------------------------
(***************************************************************************)
(* What the users of the piece completion store rely on: a map that every  *)
(* Get, Set and Forget accesses in one step, and that outlives the         *)
(* process.  A Set or a Forget takes effect at one moment between its call *)
(* and its return.  When the process dies, a call that had returned keeps  *)
(* its effect; of the calls under way, each has happened or has not.       *)
(***************************************************************************)
CONSTANTS Hash, Index, Setter, Nil

Key == Hash \X Index
KeysOf(h) == {h} \X Index
Completion == {"unknown", "complete", "incomplete"}

VARIABLES
    completion, \* what Get answers, and what a start of the server finds
    setting,    \* the Set that each caller has under way
    forgetting  \* the torrents with a removal under way

vars == <<completion, setting, forgetting>>

NoSet == [key |-> Nil, mark |-> "unknown"]

Init ==
    /\ completion = [k \in Key |-> "unknown"]
    /\ setting = [s \in Setter |-> NoSet]
    /\ forgetting = {}

BeginSet(s, k, m) ==
    /\ setting[s] = NoSet
    /\ setting' = [setting EXCEPT ![s] = [key |-> k, mark |-> m]]
    /\ UNCHANGED <<completion, forgetting>>

Set(s) ==
    /\ setting[s] # NoSet
    /\ completion' = [completion EXCEPT ![setting[s].key] = setting[s].mark]
    /\ setting' = [setting EXCEPT ![s] = NoSet]
    /\ UNCHANGED forgetting

SetFails(s) ==
    /\ setting[s] # NoSet
    /\ setting' = [setting EXCEPT ![s] = NoSet]
    /\ UNCHANGED <<completion, forgetting>>

BeginForget(h) ==
    /\ h \notin forgetting
    /\ forgetting' = forgetting \cup {h}
    /\ UNCHANGED <<completion, setting>>

Forget(h) ==
    /\ h \in forgetting
    /\ completion' = [k \in Key |-> IF k \in KeysOf(h) THEN "unknown" ELSE completion[k]]
    /\ forgetting' = forgetting \ {h}
    /\ UNCHANGED setting

ForgetFails(h) ==
    /\ h \in forgetting
    /\ forgetting' = forgetting \ {h}
    /\ UNCHANGED <<completion, setting>>

(* What a piece's entry may be after the process died.                     *)
Survivors(k) ==
    {completion[k]}
        \cup {setting[s].mark : s \in {t \in Setter : setting[t].key = k}}
        \cup {"unknown" : h \in {g \in forgetting : k \in KeysOf(g)}}

Die ==
    /\ completion' \in [Key -> Completion]
    /\ \A k \in Key : completion'[k] \in Survivors(k)
    /\ setting' = [s \in Setter |-> NoSet]
    /\ forgetting' = {}

Next ==
    \/ \E s \in Setter : \/ \E k \in Key, m \in {"complete", "incomplete"} : BeginSet(s, k, m)
                         \/ Set(s) \/ SetFails(s)
    \/ \E h \in Hash : BeginForget(h) \/ Forget(h) \/ ForgetFails(h)
    \/ Die

Spec == Init /\ [][Next]_vars
=============================================================================
