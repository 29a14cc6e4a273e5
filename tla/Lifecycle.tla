------------------------------- MODULE Lifecycle -------------------------------
(***************************************************************************)
(* The configuration of the canister, the administrative calls that change *)
(* it, and who hears of new blocks: init, post_upgrade, start, stop,       *)
(* set_bitcoin_rpc_url and notify_new_block.  A loop keeps the subscribers *)
(* that were configured when it was started; it calls them one after the   *)
(* other and awaits each.                                                  *)
(*                                                                         *)
(* Of update_index only the outcome of a round matters here: IndexLoop has *)
(* the calls a round makes before it.  External are the subscribers, any   *)
(* call of which may be rejected and some of which may never answer, and   *)
(* the Internet Computer, which stops a canister for an upgrade only when  *)
(* no call of it is outstanding.                                           *)
(***************************************************************************)
EXTENDS Integers, Sequences

CONSTANTS
  Subscriber,
  Silent,      \* subscribers that never answer
  Lists,       \* values of config.subscribers
  Url,         \* values of config.bitcoin_rpc_url
  Loops,       \* slots for update_index loops
  FirstHeight,
  LastHeight,  \* bound: no block is indexed above this height
  MaxBack      \* bound: blocks rolled back at one time

ASSUME LifecycleAssumption ==
  /\ Silent \subseteq Subscriber
  /\ Lists \subseteq Seq(Subscriber)
  /\ FirstHeight \in Nat \ {0}
  /\ LastHeight \in Nat
  /\ MaxBack \in Nat

VARIABLES
  config,         \* CONFIG, in stable memory: [url, subscribers]
  status,         \* of the canister: running | stopping | stopped
  shutting_down,  \* SHUTTING_DOWN
  at,             \* per loop: idle | timer | round | notify
  frame,          \* per loop: [subscribers, height, called]
  latest,         \* mem_latest_block_height, 0 when there is no block
  heard,          \* history: per subscriber, the latest indexed height it was told
  missed,         \* history: heights whose call to it was rejected since then
  orderly         \* history: every start() found no other loop

told == <<heard, missed>>
vars == <<config, status, shutting_down, at, frame, latest, told, orderly>>

NoFrame == [subscribers |-> << >>, height |-> 0, called |-> 0]

Init ==
  /\ config \in [url : Url, subscribers : Lists]
  /\ status = "running"
  /\ shutting_down = FALSE
  /\ at = [p \in Loops |-> "idle"]
  /\ frame = [p \in Loops |-> NoFrame]
  /\ latest = 0
  /\ heard = [s \in Subscriber |-> 0]
  /\ missed = [s \in Subscriber |-> {}]
  /\ orderly = TRUE

Listed(list) == {list[i] : i \in DOMAIN list}

-----------------------------------------------------------------------------
(* Administration.                                                         *)

Start(p) ==
  /\ status = "running"
  /\ at[p] = "idle"
  /\ shutting_down' = FALSE
  /\ at' = [at EXCEPT ![p] = "timer"]
  /\ frame' = [frame EXCEPT ![p] = [NoFrame EXCEPT !.subscribers = config.subscribers]]
  /\ orderly' = (orderly /\ \A q \in Loops : at[q] = "idle")
  /\ UNCHANGED <<config, status, latest, told>>

Stop ==
  /\ status = "running"
  /\ shutting_down' = TRUE
  /\ UNCHANGED <<config, status, at, frame, latest, told, orderly>>

WithUrl(u) == [config EXCEPT !.url = u]

SetUrl(u) ==
  /\ status = "running"
  /\ config' = WithUrl(u)
  /\ UNCHANGED <<status, shutting_down, at, frame, latest, told, orderly>>

(* The management canister: stop_canister, and start_canister.             *)
StopCanister ==
  /\ status = "running"
  /\ status' = "stopping"
  /\ UNCHANGED <<config, shutting_down, at, frame, latest, told, orderly>>

NoCallOutstanding == \A p \in Loops : at[p] \in {"idle", "timer"}

Stopped ==
  /\ status = "stopping"
  /\ NoCallOutstanding
  /\ status' = "stopped"
  /\ UNCHANGED <<config, shutting_down, at, frame, latest, told, orderly>>

StartCanister ==
  /\ status = "stopped"
  /\ status' = "running"
  /\ UNCHANGED <<config, shutting_down, at, frame, latest, told, orderly>>

(* post_upgrade: the options that are given replace the configuration; the *)
(* heap and the timers are gone, and no loop is started.  A subscriber     *)
(* that is new on the list is owed the blocks from the next one on.        *)
MutUpgraded == at
Upgraded == [p \in Loops |-> "idle"]

Upgrade(url, lists) ==
  /\ status = "stopped"
  /\ \E c \in [url : IF url = {} THEN {config.url} ELSE url,
               subscribers : IF lists = {} THEN {config.subscribers} ELSE lists] :
       LET new == Listed(c.subscribers)
           stays == new \cap Listed(config.subscribers)
       IN /\ config' = c
          /\ heard' = [s \in Subscriber |->
                         CASE s \in stays -> heard[s]
                           [] s \in new \ stays -> latest
                           [] s \notin new -> 0]
          /\ missed' = [s \in Subscriber |->
                          IF s \in stays THEN missed[s] ELSE {}]
  /\ shutting_down' = FALSE
  /\ at' = Upgraded
  /\ UNCHANGED <<status, frame, latest, orderly>>

-----------------------------------------------------------------------------
(* The loop.  A canister that is stopping runs no timer, but takes the     *)
(* answers to its calls and goes on from there.                            *)

Reschedule(p) == at' = [at EXCEPT ![p] = IF shutting_down THEN "idle" ELSE "timer"]

NextHeight == IF latest = 0 THEN FirstHeight ELSE latest + 1

TimerFires(p) ==
  /\ status = "running"
  /\ at[p] = "timer"
  /\ latest < LastHeight
  /\ at' = [at EXCEPT ![p] = "round"]
  /\ frame' = [frame EXCEPT ![p] = [frame[p] EXCEPT !.height = NextHeight]]
  /\ UNCHANGED <<config, status, shutting_down, latest, told, orderly>>

(* Nothing new, a failed call, or a block that is refused.                 *)
RoundEnds(p) ==
  /\ at[p] = "round"
  /\ \/ Reschedule(p)
     \/ at' = [at EXCEPT ![p] = "idle"]
  /\ UNCHANGED <<config, status, shutting_down, frame, latest, told, orderly>>

(* handle_reorg: nobody is told; at least one block is left.  What was     *)
(* heard of the blocks that are undone counts no longer.                   *)
RoundRollsBack(p) ==
  /\ at[p] = "round"
  /\ \E h \in FirstHeight..(latest - 1) :
       /\ h >= latest - MaxBack
       /\ latest' = h
       /\ heard' = [s \in Subscriber |-> IF heard[s] > h THEN h ELSE heard[s]]
       /\ missed' = [s \in Subscriber |-> {m \in missed[s] : m <= h}]
  /\ Reschedule(p)
  /\ UNCHANGED <<config, status, shutting_down, frame, orderly>>

(* notify_new_block: the i-th subscriber is called; after the last one the *)
(* round is over.                                                          *)
MutFirstCall(p) == 2
FirstCall(p) == 1

MutNextCall(p) == frame[p].called
NextCall(p) == frame[p].called + 1

Call(p, i) ==
  LET list == frame[p].subscribers
  IN \/ /\ i > Len(list)
        /\ Reschedule(p)
        /\ UNCHANGED frame
     \/ /\ i <= Len(list)
        /\ at' = [at EXCEPT ![p] = "notify"]
        /\ frame' = [frame EXCEPT ![p] = [frame[p] EXCEPT !.called = i]]

RoundIndexes(p) ==
  /\ at[p] = "round"
  /\ latest' = IF latest > frame[p].height THEN latest ELSE frame[p].height
  /\ Call(p, FirstCall(p))
  /\ UNCHANGED <<config, status, shutting_down, told, orderly>>

Callee(p) == frame[p].subscribers[frame[p].called]
Waits(p) == at[p] = "notify" /\ Callee(p) \in Silent

(* The subscriber took the block; the loop goes on when its reply is back. *)
Answered(p) ==
  /\ at[p] = "notify"
  /\ Callee(p) \notin Silent
  /\ heard' = [heard EXCEPT ![Callee(p)] = frame[p].height]
  /\ missed' = [missed EXCEPT ![Callee(p)] = {}]
  /\ Call(p, NextCall(p))
  /\ UNCHANGED <<config, status, shutting_down, latest, orderly>>

(* The call is rejected: its callee is stopped or traps, a queue is full,  *)
(* cycles are short.  notify_new_block logs it and is Ok(()); the call is  *)
(* not repeated.  A call that cannot even be sent is rejected before       *)
(* anything else happens, which is one of these behaviours.                *)
MutCallAfterRejected(p) == Len(frame[p].subscribers) + 1
CallAfterRejected(p) == NextCall(p)

Rejected(p) ==
  /\ at[p] = "notify"
  /\ missed' = [missed EXCEPT ![Callee(p)] = @ \cup {frame[p].height}]
  /\ Call(p, CallAfterRejected(p))
  /\ UNCHANGED <<config, status, shutting_down, latest, heard, orderly>>

CallReturns(p) ==
  at[p] = "notify" /\ Callee(p) \notin Silent /\ (Answered(p) \/ Rejected(p))

-----------------------------------------------------------------------------
Round(p) == RoundEnds(p) \/ RoundRollsBack(p) \/ RoundIndexes(p)

Admin ==
  \/ \E p \in Loops : Start(p)
  \/ Stop
  \/ \E u \in Url : SetUrl(u)
  \/ StopCanister
  \/ StartCanister
  \/ \E url \in {{}} \cup {{u} : u \in Url} :
       \E lists \in {{}} \cup {{l} : l \in Lists} : Upgrade(url, lists)

Next ==
  \/ Admin
  \/ Stopped
  \/ \E p \in Loops : TimerFires(p) \/ Round(p) \/ Answered(p) \/ Rejected(p)

Spec == Init /\ [][Next]_vars

(* Timers fire while the canister runs, the calls of a round come to an    *)
(* end (CommitCheck and RpcFetch, Ends), the call of a subscriber that is  *)
(* not silent is answered or rejected, and the management canister stops   *)
(* what it can.  No administrator has to do anything.                      *)
FairSpec ==
  /\ Spec
  /\ WF_vars(Stopped)
  /\ \A p \in Loops :
       WF_vars(TimerFires(p)) /\ WF_vars(Round(p)) /\ WF_vars(CallReturns(p))

-----------------------------------------------------------------------------
(* Properties.                                                             *)

(* A loop never calls an outdated list: the subscribers it took when it    *)
(* was started stay the configured ones, because a change of them ends     *)
(* every loop (main.rs:171-262, updater.rs:30-71).                         *)
LoopsUseConfig ==
  \A p \in Loops : at[p] # "idle" => frame[p].subscribers = config.subscribers

(* The heights of the blocks above a height, up to another.                *)
Above(h, top) == {g \in FirstHeight..top : g > h}

(* Whenever a loop begins its next round, a call was made for every block  *)
(* that is indexed to every subscriber that was on the list when it came:  *)
(* what a subscriber has not heard of are blocks for which its call was    *)
(* rejected, through failures of other subscribers, stops, rollbacks and   *)
(* upgrades (updater.rs:63-80, notifier.rs:29-31).                         *)
NoneMissed ==
  orderly => \A p \in Loops : at[p] = "timer" =>
    \A s \in Listed(frame[p].subscribers) : Above(heard[s], latest) \subseteq missed[s]

(* A subscriber hears of the blocks of the indexed chain in their order,   *)
(* those that replace undone ones too, and a height it is not told of in   *)
(* between is one whose call to it was rejected (updater.rs:63-80,         *)
(* notifier.rs:15-33).                                                     *)
HeardWithoutGap ==
  [][\A s \in Listed(config.subscribers) :
       orderly' => Above(heard[s], heard'[s] - 1) \subseteq missed[s]]_vars

(* A canister that is asked to stop, for an upgrade, stops, unless it      *)
(* waits for a subscriber that never answers: this alone keeps it from     *)
(* being stopped (updater.rs:63-71, notifier.rs:29).                       *)
StopCompletes ==
  status = "stopping" ~> (status = "stopped" \/ \E p \in Loops : Waits(p))

(* A loop that is neither stopped nor ended by a refused block goes on     *)
(* with its next round for ever, unless a subscriber never answers         *)
(* (updater.rs:63-71, 124-132).                                            *)
LoopGoesOn ==
  \A p \in Loops :
    <>[](at[p] # "idle" /\ status = "running" /\ latest < LastHeight)
      => []<>(at[p] = "round") \/ <>[]Waits(p)

=============================================================================
