--------------------------- MODULE LifecycleProofs ---------------------------
(***************************************************************************)
(* Machine-checked proofs about Lifecycle, for any subscribers, lists and  *)
(* number of loops.                                                        *)
(***************************************************************************)
EXTENDS Lifecycle, TLAPS

FrameType == [subscribers : Seq(Subscriber), height : Nat, called : Nat]

(* What the proofs need of the types.                                      *)
Typed ==
  /\ config \in [url : Url, subscribers : Lists]
  /\ at \in [Loops -> {"idle", "timer", "round", "notify"}]
  /\ frame \in [Loops -> FrameType]
  /\ latest \in Nat
  /\ heard \in [Subscriber -> Nat]
  /\ missed \in [Subscriber -> SUBSET Nat]
  /\ status \in {"running", "stopping", "stopped"}
  /\ status = "stopped" => NoCallOutstanding

(* Told of every block of the chain up to a height but for the rejected    *)
(* calls.                                                                  *)
ToldUpTo(s, h) == Above(heard[s], h) \subseteq missed[s]

(* At most one loop is alive.                                              *)
OneLoop == \A p, q \in Loops : at[p] # "idle" /\ at[q] # "idle" => p = q

(* A loop that awaits a subscriber: those called before it have been told  *)
(* of the block, the others of all below it.                               *)
Telling(p) ==
  LET list == frame[p].subscribers
  IN /\ frame[p].height = latest
     /\ frame[p].called \in 1..Len(list)
     /\ \A i \in 1..(frame[p].called - 1) : ToldUpTo(list[i], latest)
     /\ \A s \in Listed(list) : ToldUpTo(s, latest - 1)

Told ==
  /\ OneLoop
  /\ (\A p \in Loops : at[p] # "notify") =>
       \A s \in Listed(config.subscribers) : ToldUpTo(s, latest)
  /\ \A p \in Loops :
       /\ at[p] = "round" => frame[p].height = NextHeight
       /\ at[p] = "notify" => Telling(p)

LifecycleInductive == Typed /\ LoopsUseConfig /\ (orderly => Told)

-----------------------------------------------------------------------------
LEMMA ListFacts ==
  ASSUME NEW list \in Seq(Subscriber)
  PROVE  /\ Listed(list) \subseteq Subscriber
         /\ Len(list) \in Nat
         /\ \A s \in Listed(list) : \E i \in 1..Len(list) : list[i] = s
         /\ \A i \in 1..Len(list) : list[i] \in Listed(list)
BY DEF Listed

LEMMA FrameFacts ==
  ASSUME Typed, NEW p \in Loops
  PROVE  /\ frame[p].subscribers \in Seq(Subscriber)
         /\ frame[p].height \in Nat /\ frame[p].called \in Nat
         /\ frame[p] \in FrameType
BY DEF Typed, FrameType

LEMMA NoFrameTyped == NoFrame \in FrameType
BY DEF NoFrame, FrameType

LEMMA InitLives == Init => LifecycleInductive
<1> SUFFICES ASSUME Init PROVE LifecycleInductive
  OBVIOUS
<1>1. Typed
  BY NoFrameTyped DEF Init, Typed, NoCallOutstanding
<1>2. LoopsUseConfig
  BY DEF Init, LoopsUseConfig
<1>3. Told
  <2>1. Above(0, 0) = {}
    BY LifecycleAssumption DEF Above
  <2>2. ASSUME NEW s \in Listed(config.subscribers) PROVE ToldUpTo(s, latest)
    <3>1. s \in Subscriber
      BY LifecycleAssumption, ListFacts DEF Init
    <3> QED BY <2>1, <3>1 DEF Init, ToldUpTo
  <2> QED BY <2>2 DEF Init, Told, OneLoop
<1> QED BY <1>1, <1>2, <1>3 DEF LifecycleInductive

-----------------------------------------------------------------------------
LEMMA AdminKeeps ==
  ASSUME LifecycleInductive, Admin \/ Stopped \/ UNCHANGED vars
  PROVE  LifecycleInductive'
<1> USE DEF LifecycleInductive
<1>1. ASSUME NEW p \in Loops, Start(p)
      PROVE  LifecycleInductive'
  <2>1. /\ at' = [at EXCEPT ![p] = "timer"] /\ at[p] = "idle" /\ status = "running"
        /\ frame' = [frame EXCEPT ![p] =
                       [NoFrame EXCEPT !.subscribers = config.subscribers]]
        /\ UNCHANGED <<config, status, latest, heard, missed>>
    BY <1>1 DEF Start, told
  <2>2. config.subscribers \in Seq(Subscriber)
    BY LifecycleAssumption DEF Typed
  <2>3. /\ frame'[p].subscribers = config.subscribers
        /\ frame'[p] \in FrameType
    BY <2>1, <2>2 DEF Typed, NoFrame, FrameType
  <2>4. Typed'
    BY <2>1, <2>3 DEF Typed, NoCallOutstanding
  <2>5. LoopsUseConfig'
    BY <2>1, <2>3 DEF LoopsUseConfig, Typed
  <2>6. ASSUME orderly' PROVE Told'
    <3>1. orderly /\ Told /\ \A q \in Loops : at[q] = "idle"
      BY <1>1, <2>6 DEF Start
    <3> QED BY <2>1, <3>1 DEF Told, OneLoop, ToldUpTo, Typed
  <2> QED BY <2>4, <2>5, <2>6
<1>2. ASSUME UNCHANGED <<at, frame, latest, heard, missed, orderly>>,
             config' \in [url : Url, subscribers : Lists],
             config'.subscribers = config.subscribers,
             status' \in {"running", "stopping", "stopped"},
             status' = "stopped" => NoCallOutstanding
      PROVE  LifecycleInductive'
  <2>1. Typed'
    BY <1>2 DEF Typed, NoCallOutstanding
  <2>2. LoopsUseConfig'
    BY <1>2 DEF LoopsUseConfig
  <2>3. orderly' => Told'
    BY <1>2 DEF Told, OneLoop, ToldUpTo, Telling, NextHeight
  <2> QED BY <2>1, <2>2, <2>3
<1>3. CASE Stop \/ StopCanister \/ StartCanister \/ Stopped \/ UNCHANGED vars
  BY <1>2, <1>3 DEF Stop, StopCanister, StartCanister, Stopped, vars, told, Typed
<1>4. ASSUME NEW u \in Url, SetUrl(u)
      PROVE  LifecycleInductive'
  BY <1>2, <1>4 DEF SetUrl, WithUrl, told, Typed
<1>5. ASSUME NEW url \in {{}} \cup {{u} : u \in Url},
             NEW lists \in {{}} \cup {{l} : l \in Lists}, Upgrade(url, lists)
      PROVE  LifecycleInductive'
  <2>1. PICK c \in [url : IF url = {} THEN {config.url} ELSE url,
                    subscribers : IF lists = {} THEN {config.subscribers} ELSE lists] :
          LET new == Listed(c.subscribers)
              stays == new \cap Listed(config.subscribers)
          IN /\ config' = c
             /\ heard' = [s \in Subscriber |->
                            CASE s \in stays -> heard[s]
                              [] s \in new \ stays -> latest
                              [] s \notin new -> 0]
             /\ missed' = [s \in Subscriber |->
                             IF s \in stays THEN missed[s] ELSE {}]
    BY <1>5 DEF Upgrade
  <2>2. /\ at' = [p \in Loops |-> "idle"] /\ status = "stopped"
        /\ UNCHANGED <<status, frame, latest, orderly>>
    BY <1>5 DEF Upgrade, Upgraded
  <2>3. c \in [url : Url, subscribers : Lists]
    <3>1. (IF url = {} THEN {config.url} ELSE url) \subseteq Url
      BY DEF Typed
    <3>2. (IF lists = {} THEN {config.subscribers} ELSE lists) \subseteq Lists
      BY DEF Typed
    <3> QED BY <3>1, <3>2
  <2> DEFINE new == Listed(c.subscribers)
             stays == new \cap Listed(config.subscribers)
  <2>4. \A s \in Subscriber :
          /\ s \in stays => heard'[s] = heard[s] /\ missed'[s] = missed[s]
          /\ s \in new \ stays => heard'[s] = latest
          /\ s \notin new => heard'[s] = 0
          /\ s \notin stays => missed'[s] = {}
    BY <2>1
  <2>5. Typed'
    <3>1. \A s \in Subscriber : heard'[s] \in Nat /\ missed'[s] \in SUBSET Nat
      BY <2>4 DEF Typed
    <3>2. /\ heard' = [s \in Subscriber |-> heard'[s]]
          /\ missed' = [s \in Subscriber |-> missed'[s]]
      BY <2>1
    <3>3. heard' \in [Subscriber -> Nat] /\ missed' \in [Subscriber -> SUBSET Nat]
      BY <3>1, <3>2
    <3> QED BY <2>1, <2>2, <2>3, <3>3 DEF Typed, NoCallOutstanding
  <2>6. LoopsUseConfig'
    BY <2>2 DEF LoopsUseConfig
  <2>7. ASSUME orderly,
               NEW s \in Listed(config'.subscribers)
        PROVE  ToldUpTo(s, latest)'
    <3>1. s \in new /\ s \in Subscriber
      BY <2>1, <2>3, LifecycleAssumption, ListFacts
    <3>2. CASE s \in stays
      <4>1. ToldUpTo(s, latest)
        BY <2>2, <2>7, <3>2 DEF Typed, NoCallOutstanding, Told
      <4> QED BY <2>2, <2>4, <3>1, <3>2, <4>1 DEF ToldUpTo
    <3>3. CASE s \notin stays
      BY <2>2, <2>4, <3>1, <3>3, LifecycleAssumption DEF ToldUpTo, Above, Typed
    <3> QED BY <3>2, <3>3
  <2>8. orderly => Told'
    BY <2>2, <2>7 DEF Told, OneLoop
  <2> QED BY <2>2, <2>5, <2>6, <2>8
<1> QED BY <1>1, <1>3, <1>4, <1>5 DEF Admin

-----------------------------------------------------------------------------
LEMMA TimerFiresKeeps ==
  ASSUME LifecycleInductive, NEW p \in Loops, TimerFires(p)
  PROVE  LifecycleInductive'
<1> USE DEF LifecycleInductive
<1>1. /\ at[p] = "timer" /\ at' = [at EXCEPT ![p] = "round"] /\ status = "running"
      /\ frame' = [frame EXCEPT ![p] = [frame[p] EXCEPT !.height = NextHeight]]
      /\ UNCHANGED <<config, status, latest, heard, missed, orderly>>
  BY DEF TimerFires, told
<1>2. NextHeight \in Nat
  BY LifecycleAssumption DEF NextHeight, Typed
<1>3. /\ frame'[p].subscribers = frame[p].subscribers
      /\ frame'[p].height = NextHeight
      /\ frame'[p] \in FrameType
  BY <1>1, <1>2, FrameFacts DEF Typed, FrameType
<1>4. Typed'
  BY <1>1, <1>3 DEF Typed, NoCallOutstanding
<1>5. LoopsUseConfig'
  BY <1>1, <1>3 DEF LoopsUseConfig, Typed
<1>6. orderly' => Told'
  <2>1. SUFFICES ASSUME orderly PROVE Told'
    BY <1>1
  <2>2. \A q \in Loops : at[q] # "notify"
    BY <1>1, <2>1 DEF Told, OneLoop
  <2>3. \A s \in Listed(config'.subscribers) : ToldUpTo(s, latest)'
    BY <1>1, <2>1, <2>2 DEF Told, ToldUpTo
  <2>4. frame'[p].height = NextHeight'
    BY <1>1, <1>3 DEF NextHeight
  <2>5. \A q \in Loops : q # p => at'[q] = "idle"
    BY <1>1, <2>1 DEF Told, OneLoop, Typed
  <2>6. at'[p] = "round"
    BY <1>1 DEF Typed
  <2> QED BY <2>3, <2>4, <2>5, <2>6 DEF Told, OneLoop
<1> QED BY <1>4, <1>5, <1>6

(* A loop that ends a round, and its subscribers know what they should.    *)
LEMMA RoundOver ==
  ASSUME LifecycleInductive, NEW p \in Loops, at[p] \in {"round", "notify"},
         NEW x \in {"idle", "timer"}, at' = [at EXCEPT ![p] = x],
         latest' \in Nat,
         heard' \in [Subscriber -> Nat], missed' \in [Subscriber -> SUBSET Nat],
         UNCHANGED <<config, status, frame, orderly>>,
         orderly => \A s \in Listed(config.subscribers) : ToldUpTo(s, latest)'
  PROVE  LifecycleInductive'
<1> USE DEF LifecycleInductive
<1>1. status # "stopped"
  BY DEF Typed, NoCallOutstanding
<1>2. Typed'
  BY <1>1 DEF Typed, NoCallOutstanding
<1>3. LoopsUseConfig'
  BY DEF LoopsUseConfig, Typed
<1>4. ASSUME orderly PROVE Told'
  <2>1. \A q \in Loops : q # p => at'[q] = "idle"
    BY <1>4 DEF Told, OneLoop, Typed
  <2>2. at'[p] \in {"idle", "timer"}
    BY DEF Typed
  <2> QED BY <1>4, <2>1, <2>2 DEF Told, OneLoop
<1> QED BY <1>2, <1>3, <1>4

(* In a round nobody is waited for.                                        *)
LEMMA RoundFacts ==
  ASSUME LifecycleInductive, orderly, NEW p \in Loops, at[p] = "round"
  PROVE  /\ \A s \in Listed(config.subscribers) : ToldUpTo(s, latest)
         /\ frame[p].height = NextHeight
BY DEF LifecycleInductive, Told, OneLoop

LEMMA QuietRoundKeeps ==
  ASSUME LifecycleInductive, NEW p \in Loops, RoundEnds(p) \/ RoundRollsBack(p)
  PROVE  LifecycleInductive'
<1>1. /\ latest \in Nat /\ FirstHeight \in Nat \ {0}
      /\ heard \in [Subscriber -> Nat] /\ missed \in [Subscriber -> SUBSET Nat]
  BY LifecycleAssumption DEF LifecycleInductive, Typed
<1>2. CASE RoundEnds(p)
  <2>1. PICK x \in {"idle", "timer"} : at' = [at EXCEPT ![p] = x]
    BY <1>2 DEF RoundEnds, Reschedule
  <2>2. /\ at[p] = "round"
        /\ UNCHANGED <<config, status, frame, latest, heard, missed, orderly>>
    BY <1>2 DEF RoundEnds, told
  <2>3. orderly => \A s \in Listed(config.subscribers) : ToldUpTo(s, latest)'
    BY <2>2, RoundFacts DEF ToldUpTo
  <2> QED BY <1>1, <2>1, <2>2, <2>3, RoundOver
<1>3. CASE RoundRollsBack(p)
  <2>1. PICK h \in FirstHeight..(latest - 1) :
          /\ latest' = h
          /\ heard' = [s \in Subscriber |-> IF heard[s] > h THEN h ELSE heard[s]]
          /\ missed' = [s \in Subscriber |-> {m \in missed[s] : m <= h}]
    BY <1>3 DEF RoundRollsBack
  <2>2. h \in Nat /\ h < latest
    BY <1>1
  <2>3. PICK x \in {"idle", "timer"} : at' = [at EXCEPT ![p] = x]
    BY <1>3 DEF RoundRollsBack, Reschedule
  <2>4. at[p] = "round" /\ UNCHANGED <<config, status, frame, orderly>>
    BY <1>3 DEF RoundRollsBack
  <2>5. heard' \in [Subscriber -> Nat] /\ missed' \in [Subscriber -> SUBSET Nat]
    BY <1>1, <2>1, <2>2
  <2>6. ASSUME orderly, NEW s \in Listed(config.subscribers)
        PROVE  ToldUpTo(s, latest)'
    <3>1. s \in Subscriber
      BY ListFacts, LifecycleAssumption DEF LifecycleInductive, Typed
    <3>2. ToldUpTo(s, latest)
      BY <2>4, <2>6, RoundFacts
    <3>3. SUFFICES ASSUME NEW g \in Above(heard'[s], h) PROVE g \in missed'[s]
      BY <2>1 DEF ToldUpTo
    <3>4. g \in FirstHeight..h /\ g > heard'[s]
      BY <3>3 DEF Above
    <3>5. g \in FirstHeight..latest /\ g > heard[s] /\ g <= h
      BY <1>1, <2>1, <2>2, <3>1, <3>4
    <3>6. g \in missed[s]
      BY <3>2, <3>5 DEF ToldUpTo, Above
    <3> QED BY <2>1, <3>1, <3>5, <3>6
  <2> QED BY <2>1, <2>2, <2>3, <2>4, <2>5, <2>6, RoundOver
<1> QED BY <1>2, <1>3

-----------------------------------------------------------------------------
(* A call of the i-th subscriber, when those before it know of the block   *)
(* and the others know of all below it.                                    *)
LEMMA CallKeeps ==
  ASSUME LifecycleInductive, NEW p \in Loops, NEW i \in Nat \ {0}, Call(p, i),
         at[p] \in {"round", "notify"},
         latest' \in Nat,
         heard' \in [Subscriber -> Nat], missed' \in [Subscriber -> SUBSET Nat],
         UNCHANGED <<config, status, orderly>>,
         orderly =>
           /\ frame[p].height = latest'
           /\ i <= Len(frame[p].subscribers) + 1
           /\ \A j \in 1..(i - 1) : \A s \in Subscriber :
                s = frame[p].subscribers[j] => ToldUpTo(s, latest)'
           /\ \A s \in Listed(frame[p].subscribers) : ToldUpTo(s, latest - 1)'
  PROVE  LifecycleInductive'
<1> USE DEF LifecycleInductive
<1> DEFINE list == frame[p].subscribers
<1>1. /\ list \in Seq(Subscriber) /\ Len(list) \in Nat
      /\ \A s \in Listed(list) : \E j \in 1..Len(list) : list[j] = s
  BY FrameFacts, ListFacts
<1>2. status # "stopped" /\ list = config.subscribers
  BY DEF Typed, NoCallOutstanding, LoopsUseConfig
<1>3. orderly => \A q \in Loops : q # p => at[q] = "idle"
  BY DEF Told, OneLoop
<1>4. CASE i > Len(list) /\ Reschedule(p) /\ UNCHANGED frame
  <2>1. PICK x \in {"idle", "timer"} : at' = [at EXCEPT ![p] = x]
    BY <1>4 DEF Reschedule
  <2>2. ASSUME orderly PROVE \A s \in Listed(config.subscribers) : ToldUpTo(s, latest)'
    <3>1. i - 1 = Len(list)
      BY <1>1, <1>4, <2>2
    <3>2. ASSUME NEW s \in Listed(list) PROVE ToldUpTo(s, latest)'
      <4>1. PICK j \in 1..Len(list) : list[j] = s
        BY <1>1
      <4>2. s \in Subscriber
        BY <1>1, ListFacts
      <4> QED BY <2>2, <3>1, <4>1, <4>2
    <3> QED BY <1>2, <3>2
  <2> QED BY <1>4, <2>1, <2>2, RoundOver
<1>5. CASE /\ i <= Len(list)
           /\ at' = [at EXCEPT ![p] = "notify"]
           /\ frame' = [frame EXCEPT ![p] = [frame[p] EXCEPT !.called = i]]
  <2>1. /\ frame'[p].subscribers = list
        /\ frame'[p].called = i
        /\ frame'[p].height = frame[p].height
        /\ frame'[p] \in FrameType
    <3>1. frame[p] \in FrameType
      BY FrameFacts
    <3>2. frame'[p] = [frame[p] EXCEPT !.called = i]
      BY <1>5 DEF Typed
    <3> QED BY <3>1, <3>2 DEF FrameType
  <2>2. Typed'
    BY <1>2, <1>5, <2>1 DEF Typed, NoCallOutstanding
  <2>3. LoopsUseConfig'
    BY <1>2, <1>5, <2>1 DEF LoopsUseConfig, Typed
  <2>4. ASSUME orderly PROVE Told'
    <3>1. Telling(p)'
      <4>1. /\ \A j \in 1..(i - 1) : list[j] \in Subscriber
            /\ i \in 1..Len(list)
        BY <1>1, <1>5
      <4>2. \A j \in 1..(i - 1) : frame'[p].subscribers[j] = list[j]
        BY <2>1
      <4> QED BY <2>1, <2>4, <4>1, <4>2 DEF Telling, ToldUpTo
    <3>2. at'[p] = "notify" /\ \A q \in Loops : q # p => at'[q] = "idle"
      BY <1>3, <1>5, <2>4 DEF Typed
    <3> QED BY <3>1, <3>2 DEF Told, OneLoop
  <2> QED BY <2>2, <2>3, <2>4
<1> QED BY <1>4, <1>5 DEF Call

LEMMA RoundIndexesKeeps ==
  ASSUME LifecycleInductive, NEW p \in Loops, RoundIndexes(p)
  PROVE  LifecycleInductive'
<1>1. /\ at[p] = "round" /\ Call(p, 1)
      /\ UNCHANGED <<config, status, heard, missed, orderly>>
      /\ latest' = IF latest > frame[p].height THEN latest ELSE frame[p].height
  BY DEF RoundIndexes, FirstCall, told
<1>2. /\ latest \in Nat /\ frame[p].height \in Nat /\ Len(frame[p].subscribers) \in Nat
      /\ heard \in [Subscriber -> Nat] /\ missed \in [Subscriber -> SUBSET Nat]
      /\ frame[p].subscribers = config.subscribers
      /\ Listed(config.subscribers) \subseteq Subscriber
  BY <1>1, FrameFacts, ListFacts DEF LifecycleInductive, Typed, LoopsUseConfig
<1>3. latest' \in Nat
  BY <1>1, <1>2
<1>4. ASSUME orderly
      PROVE  /\ frame[p].height = latest'
             /\ \A s \in Listed(frame[p].subscribers) : ToldUpTo(s, latest - 1)'
  <2>1. frame[p].height = NextHeight
        /\ \A s \in Listed(config.subscribers) : ToldUpTo(s, latest)
    BY <1>1, <1>4, RoundFacts
  <2>2. latest' = NextHeight
    BY <1>1, <1>2, <2>1, LifecycleAssumption DEF NextHeight
  <2>3. ASSUME NEW s \in Subscriber
        PROVE  Above(heard[s], latest' - 1) \subseteq Above(heard[s], latest)
    BY <1>2, <2>2, LifecycleAssumption DEF NextHeight, Above
  <2> QED BY <1>1, <1>2, <2>1, <2>2, <2>3 DEF ToldUpTo
<1> QED BY <1>1, <1>2, <1>3, <1>4, CallKeeps

(* The subscriber that is called knows of the block, or its call for it    *)
(* was rejected; nothing is forgotten of the others.                       *)
LEMMA ReturnKeeps ==
  ASSUME LifecycleInductive, NEW p \in Loops, at[p] = "notify",
         Call(p, NextCall(p)),
         UNCHANGED <<config, status, latest, orderly>>,
         heard' \in [Subscriber -> Nat], missed' \in [Subscriber -> SUBSET Nat],
         \A s \in Subscriber \ {Callee(p)} : heard'[s] = heard[s] /\ missed'[s] = missed[s],
         orderly =>
           \/ heard'[Callee(p)] = frame[p].height
           \/ /\ heard'[Callee(p)] = heard[Callee(p)]
              /\ missed'[Callee(p)] = missed[Callee(p)] \cup {frame[p].height}
  PROVE  LifecycleInductive'
<1> DEFINE list == frame[p].subscribers
           i == frame[p].called
           k == i + 1
<1>1. /\ latest \in Nat /\ i \in Nat /\ Len(list) \in Nat
      /\ list \in Seq(Subscriber) /\ Listed(list) \subseteq Subscriber
      /\ \A j \in 1..Len(list) : list[j] \in Listed(list)
      /\ heard \in [Subscriber -> Nat] /\ FirstHeight \in Nat
  BY FrameFacts, ListFacts, LifecycleAssumption DEF LifecycleInductive, Typed
<1>2. ASSUME orderly
      PROVE  /\ frame[p].height = latest'
             /\ k <= Len(list) + 1
             /\ \A j \in 1..(k - 1) : \A s \in Subscriber :
                  s = list[j] => ToldUpTo(s, latest)'
             /\ \A s \in Listed(list) : ToldUpTo(s, latest - 1)'
  <2>1. /\ frame[p].height = latest /\ i \in 1..Len(list)
        /\ \A j \in 1..(i - 1) : ToldUpTo(list[j], latest)
        /\ \A s \in Listed(list) : ToldUpTo(s, latest - 1)
    BY <1>2 DEF LifecycleInductive, Told, Telling
  <2>2. Callee(p) = list[i] /\ list[i] \in Listed(list) /\ list[i] \in Subscriber
    BY <1>1, <2>1 DEF Callee
  <2>3. /\ Above(heard'[list[i]], latest) \subseteq missed'[list[i]]
        /\ Above(heard'[list[i]], latest - 1) \subseteq missed'[list[i]]
    <3>1. CASE heard'[list[i]] = latest
      BY <1>1, <3>1 DEF Above
    <3>2. CASE /\ heard'[list[i]] = heard[list[i]]
               /\ missed'[list[i]] = missed[list[i]] \cup {latest}
      <4>1. Above(heard[list[i]], latest - 1) \subseteq missed[list[i]]
        BY <2>1, <2>2 DEF ToldUpTo
      <4>2. Above(heard[list[i]], latest)
              \subseteq Above(heard[list[i]], latest - 1) \cup {latest}
        BY <1>1, <2>2 DEF Above
      <4> QED BY <3>2, <4>1, <4>2
    <3> QED BY <1>2, <2>1, <2>2, <3>1, <3>2
  <2>4. ASSUME NEW s \in Listed(list) PROVE ToldUpTo(s, latest - 1)'
    <3>1. CASE s = list[i]
      BY <2>3, <3>1 DEF ToldUpTo
    <3>2. CASE s # list[i]
      <4>1. ToldUpTo(s, latest - 1) /\ s \in Subscriber \ {Callee(p)}
        BY <1>1, <2>1, <2>2, <3>2
      <4> QED BY <4>1 DEF ToldUpTo
    <3> QED BY <3>1, <3>2
  <2>5. ASSUME NEW j \in 1..i, NEW s \in Subscriber, s = list[j]
        PROVE  ToldUpTo(s, latest)'
    <3>1. CASE s = list[i]
      BY <2>3, <3>1 DEF ToldUpTo
    <3>2. CASE s # list[i]
      <4>1. j \in 1..(i - 1)
        BY <1>1, <2>5, <3>2
      <4>2. ToldUpTo(s, latest) /\ s \in Subscriber \ {Callee(p)}
        BY <2>1, <2>2, <2>5, <3>2, <4>1
      <4> QED BY <4>2 DEF ToldUpTo
    <3> QED BY <3>1, <3>2
  <2>6. frame[p].height = latest' /\ k <= Len(list) + 1 /\ k - 1 = i
    BY <1>1, <2>1
  <2> QED BY <2>4, <2>5, <2>6
<1>3. /\ k \in Nat \ {0} /\ Call(p, k) /\ latest' \in Nat
      /\ at[p] \in {"round", "notify"} /\ UNCHANGED <<config, status, orderly>>
  BY <1>1 DEF NextCall
<1> HIDE DEF k
<1> QED BY <1>2, <1>3, CallKeeps

LEMMA CalleeListed ==
  ASSUME LifecycleInductive, orderly, NEW p \in Loops, at[p] = "notify"
  PROVE  Callee(p) \in Subscriber /\ Callee(p) \in Listed(config.subscribers)
BY FrameFacts, ListFacts
DEF LifecycleInductive, LoopsUseConfig, Told, Telling, Callee

LEMMA AnsweredKeeps ==
  ASSUME LifecycleInductive, NEW p \in Loops, Answered(p)
  PROVE  LifecycleInductive'
<1>1. /\ at[p] = "notify" /\ Call(p, NextCall(p))
      /\ UNCHANGED <<config, status, latest, orderly>>
      /\ heard' = [heard EXCEPT ![Callee(p)] = frame[p].height]
      /\ missed' = [missed EXCEPT ![Callee(p)] = {}]
  BY DEF Answered
<1>2. /\ heard \in [Subscriber -> Nat] /\ missed \in [Subscriber -> SUBSET Nat]
      /\ frame[p].height \in Nat
  BY FrameFacts DEF LifecycleInductive, Typed
<1>3. /\ heard' \in [Subscriber -> Nat] /\ missed' \in [Subscriber -> SUBSET Nat]
      /\ \A s \in Subscriber \ {Callee(p)} : heard'[s] = heard[s] /\ missed'[s] = missed[s]
  BY <1>1, <1>2
<1>4. orderly => heard'[Callee(p)] = frame[p].height
  BY <1>1, <1>2, CalleeListed
<1> QED BY <1>1, <1>3, <1>4, ReturnKeeps

LEMMA RejectedKeeps ==
  ASSUME LifecycleInductive, NEW p \in Loops, Rejected(p)
  PROVE  LifecycleInductive'
<1>1. /\ at[p] = "notify" /\ Call(p, NextCall(p))
      /\ UNCHANGED <<config, status, latest, heard, orderly>>
      /\ missed' = [missed EXCEPT ![Callee(p)] = @ \cup {frame[p].height}]
  BY DEF Rejected, CallAfterRejected
<1>2. /\ heard \in [Subscriber -> Nat] /\ missed \in [Subscriber -> SUBSET Nat]
      /\ frame[p].height \in Nat
  BY FrameFacts DEF LifecycleInductive, Typed
<1>3. /\ missed' \in [Subscriber -> SUBSET Nat]
      /\ \A s \in Subscriber \ {Callee(p)} : missed'[s] = missed[s]
  BY <1>1, <1>2
<1>4. orderly => missed'[Callee(p)] = missed[Callee(p)] \cup {frame[p].height}
  BY <1>1, <1>2, CalleeListed
<1> QED BY <1>1, <1>2, <1>3, <1>4, ReturnKeeps

LEMMA AlwaysLives == Spec => []LifecycleInductive
<1>1. ASSUME LifecycleInductive, [Next]_vars
      PROVE  LifecycleInductive'
  BY <1>1, AdminKeeps, TimerFiresKeeps, QuietRoundKeeps, RoundIndexesKeeps,
     AnsweredKeeps, RejectedKeeps DEF Next, Round
<1> QED BY InitLives, <1>1, PTL DEF Spec

-----------------------------------------------------------------------------
(* A loop never calls an outdated list of subscribers (main.rs:171-262,    *)
(* updater.rs:30-71).                                                      *)
THEOREM ListsStayCurrent == Spec => []LoopsUseConfig
<1>1. LifecycleInductive => LoopsUseConfig
  BY DEF LifecycleInductive
<1> QED BY AlwaysLives, <1>1, PTL

(* Between two rounds, what a subscriber has not heard of are blocks for   *)
(* which its call was rejected (updater.rs:63-80, notifier.rs:29-31).      *)
THEOREM NoneEverMissed == Spec => []NoneMissed
<1>1. ASSUME LifecycleInductive, orderly, NEW p \in Loops, at[p] = "timer",
             NEW s \in Listed(frame[p].subscribers)
      PROVE  ToldUpTo(s, latest)
  <2>1. \A q \in Loops : at[q] # "notify"
    BY <1>1 DEF LifecycleInductive, Told, OneLoop
  <2> QED BY <1>1, <2>1 DEF LifecycleInductive, LoopsUseConfig, Told
<1>2. LifecycleInductive => NoneMissed
  BY <1>1 DEF NoneMissed, ToldUpTo
<1> QED BY AlwaysLives, <1>2, PTL

(* A subscriber hears of the indexed blocks in their order, and the        *)
(* heights it is not told of in between are those of rejected calls        *)
(* (updater.rs:63-80, notifier.rs:15-33).                                  *)
THEOREM NoHeightSkipped == Spec => HeardWithoutGap
<1> DEFINE A == \A s \in Listed(config.subscribers) :
                  orderly' => Above(heard[s], heard'[s] - 1) \subseteq missed[s]
<1>1. ASSUME LifecycleInductive, [Next]_vars
      PROVE  A
  <2>1. SUFFICES ASSUME NEW s \in Listed(config.subscribers), orderly'
                 PROVE  Above(heard[s], heard'[s] - 1) \subseteq missed[s]
    OBVIOUS
  <2>2. /\ s \in Subscriber /\ heard \in [Subscriber -> Nat]
        /\ latest \in Nat /\ FirstHeight \in Nat
    BY <1>1, LifecycleAssumption, ListFacts DEF LifecycleInductive, Typed
  <2>3. ASSUME heard'[s] \in Nat, heard'[s] <= heard[s]
        PROVE  Above(heard[s], heard'[s] - 1) \subseteq missed[s]
    BY <2>2, <2>3 DEF Above
  <2>4. CASE heard' = heard
    BY <2>2, <2>3, <2>4
  <2>5. ASSUME NEW p \in Loops, Answered(p)
        PROVE  Above(heard[s], heard'[s] - 1) \subseteq missed[s]
    <3>1. /\ at[p] = "notify" /\ orderly
          /\ heard' = [heard EXCEPT ![Callee(p)] = frame[p].height]
      BY <2>1, <2>5 DEF Answered
    <3>2. /\ frame[p].height = latest
          /\ \A q \in Listed(frame[p].subscribers) : ToldUpTo(q, latest - 1)
          /\ frame[p].subscribers = config.subscribers
      BY <1>1, <3>1 DEF LifecycleInductive, Told, Telling, LoopsUseConfig
    <3>3. CASE s = Callee(p)
      BY <2>2, <3>1, <3>2, <3>3 DEF ToldUpTo
    <3>4. CASE s # Callee(p)
      BY <2>2, <2>3, <3>1, <3>4
    <3> QED BY <3>3, <3>4
  <2>6. ASSUME NEW p \in Loops, RoundRollsBack(p)
        PROVE  Above(heard[s], heard'[s] - 1) \subseteq missed[s]
    <3>1. PICK h \in FirstHeight..(latest - 1) :
            heard' = [q \in Subscriber |-> IF heard[q] > h THEN h ELSE heard[q]]
      BY <2>6 DEF RoundRollsBack
    <3> QED BY <2>2, <2>3, <3>1
  <2>7. ASSUME NEW url, NEW lists, Upgrade(url, lists)
        PROVE  Above(heard[s], heard'[s] - 1) \subseteq missed[s]
    <3>1. heard'[s] = heard[s] \/ heard'[s] = 0
      BY <2>2, <2>7 DEF Upgrade
    <3> QED BY <2>2, <2>3, <3>1
  <2>8. CASE UNCHANGED vars
    BY <2>4, <2>8 DEF vars, told
  <2>9. ASSUME Next, heard' # heard
        PROVE  \/ \E p \in Loops : Answered(p) \/ RoundRollsBack(p)
               \/ \E url, lists : Upgrade(url, lists)
    BY <2>9 DEF Next, Admin, Start, Stop, SetUrl, StopCanister, StartCanister, told,
       Stopped, TimerFires, Round, RoundEnds, RoundIndexes, Rejected
  <2> QED BY <1>1, <2>4, <2>5, <2>6, <2>7, <2>8, <2>9
<1>2. LifecycleInductive /\ [Next]_vars => [A]_vars
  BY <1>1
<1> QED BY AlwaysLives, <1>2, PTL DEF Spec, HeardWithoutGap

=============================================================================
