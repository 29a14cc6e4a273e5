--------------------------------- MODULE Logs ---------------------------------
(***************************************************************************)
(* The log of the canister: one ring buffer per priority (the              *)
(* ic_canister_log crate, external), and the page of it that an HTTP query *)
(* for /logs returns; with it, a client that reads the log page by page    *)
(* while the canister goes on logging.                                     *)
(*                                                                         *)
(* All messages of a round of the Internet Computer see one time, which is *)
(* later in the next round, and queries see the state between two rounds.  *)
(* What a query logs is dropped with its other changes of state.           *)
(***************************************************************************)
EXTENDS Integers, SequencesExt

CONSTANTS
  Capacity,   \* of a buffer, 1000
  Usize,      \* 2^32, the width of usize on wasm32
  Message,    \* what the canister logs
  Limits,     \* bound: the limits that the client asks for
  LastTime,   \* bound: no entry is later
  LastCount   \* bound: entries logged in all

ASSUME LogsAssumption ==
  /\ Capacity \in Nat \ {0}
  /\ Usize \in Nat /\ Usize > 5 * Capacity
  /\ Limits \subseteq Nat \ {0}

Priorities == <<"DEBUG", "INFO", "WARNING", "ERROR", "CRITICAL">>

VARIABLES
  buffers,  \* per priority: a sequence of [timestamp, counter, message]
  counter,  \* entries logged so far
  now,      \* ic_cdk::api::time()
  client,   \* what the client asks for with every page: [time, debug]
  got,      \* history: the entries it has got
  evicted   \* history: an entry was dropped since it began

vars == <<buffers, counter, now, client, got, evicted>>

Init ==
  /\ buffers = [p \in ToSet(Priorities) |-> << >>]
  /\ counter = 0
  /\ now = 1
  /\ client \in [time : 0..LastTime, debug : BOOLEAN]
  /\ got = << >>
  /\ evicted = FALSE

-----------------------------------------------------------------------------
(* log!: the oldest entry gives way in a full buffer.                      *)
Full(p) == Len(buffers[p]) = Capacity

Log(p, message) ==
  LET entry == [timestamp |-> now, counter |-> counter, message |-> message]
  IN /\ counter < LastCount
     /\ buffers' = [buffers EXCEPT ![p] =
          Append(IF Full(p) THEN Tail(buffers[p]) ELSE buffers[p], entry)]
     /\ counter' = counter + 1
     /\ evicted' = (evicted \/ Full(p))
     /\ UNCHANGED <<now, client, got>>

(* update_index: a failure to get a hash is only logged if the entry       *)
(* before it says something else.                                          *)
News(message) ==
  buffers["CRITICAL"] = << >> \/ Last(buffers["CRITICAL"]).message # message

HashFails(message) ==
  IF News(message) THEN Log("CRITICAL", message) ELSE UNCHANGED vars

NextRound ==
  /\ now < LastTime
  /\ now' = now + 1
  /\ UNCHANGED <<buffers, counter, client, got, evicted>>

-----------------------------------------------------------------------------
(* do_reply: the entries of one buffer after the other, what is too old    *)
(* left out, sorted by time; entries of one time stay in their order.  An  *)
(* entry is at the place <<number of the buffer, index>>.                  *)
At(x) == buffers[Priorities[x[1]]][x[2]]

Exported(debug) ==
  UNION {{k} \X DOMAIN buffers[Priorities[k]] :
           k \in {k \in DOMAIN Priorities : debug \/ Priorities[k] # "DEBUG"}}

Recent(places, time) == {x \in places : At(x).timestamp >= time}

Precedes(x, y) == x[1] < y[1] \/ (x[1] = y[1] /\ x[2] < y[2])

MutBefore(x, y) == Precedes(x, y)
Before(x, y) ==
  \/ At(x).timestamp < At(y).timestamp
  \/ At(x).timestamp = At(y).timestamp /\ Precedes(x, y)

Sorted(places) ==
  [n \in 1..Cardinality(places) |->
     At(CHOOSE x \in places : Cardinality({y \in places : Before(y, x)}) = n - 1)]

Selected == Sorted(Recent(Exported(client.debug), client.time))

(* skip(offset).take(limit)                                                *)
Stretch(log, offset, limit) ==
  [i \in 1..Min({limit, Max({0, Len(log) - offset})}) |-> log[offset + i]]

MutPage(offset, limit) ==
  SelectSeq(Stretch(Sorted(Exported(client.debug)), offset % Usize, limit % Usize),
            LAMBDA e : e.timestamp >= client.time)
Page(offset, limit) == Stretch(Selected, offset % Usize, limit % Usize)

(* http_request, with an offset behind what the client has; between two    *)
(* rounds, when no entry has the present time yet.                         *)
NextPage(limit) ==
  /\ \A p \in DOMAIN buffers : \A e \in ToSet(buffers[p]) : e.timestamp < now
  /\ got' = got \o Page(Len(got), limit)
  /\ UNCHANGED <<buffers, counter, now, client, evicted>>

Next ==
  \/ \E p \in DOMAIN buffers, m \in Message : Log(p, m)
  \/ \E m \in Message : HashFails(m)
  \/ NextRound
  \/ \E limit \in Limits : NextPage(limit)

Spec == Init /\ [][Next]_vars

-----------------------------------------------------------------------------
(* Properties.                                                             *)

(* No entry is sent twice to a client that goes on where its last page     *)
(* ended, whatever is logged between two pages and however many entries    *)
(* have one time; they come in the order of their times (logs.rs:82-99).   *)
PagesNeverRepeat ==
  \A i, j \in DOMAIN got : i < j =>
    /\ got[i].counter # got[j].counter
    /\ got[i].timestamp <= got[j].timestamp

(* Unless a full buffer drops entries, such a client misses none: what it  *)
(* has is the beginning of the log as it is now (logs.rs:77-99).           *)
PagesComplete ==
  ~evicted => IsPrefix(got, Selected)

=============================================================================
