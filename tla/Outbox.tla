------------------------------- MODULE Outbox -------------------------------
(***************************************************************************)
(* The outbox of a MemoryNode: send_msg, pickup and flush_outbox, and the  *)
(* client that picks its messages up.                                      *)
(*                                                                         *)
(* send_msg reads the clock, in seconds, and then appends the message to   *)
(* the outbox of its channel.  pickup goes through the channels asked for  *)
(* and the messages of each, and takes those sent at or after last_time    *)
(* for which there is room; nothing is removed.  It reads the clock when   *)
(* it has them, and that is the last_time of the client's next pickup.     *)
(* flush_outbox reads the clock and then drops what is too old, channel by *)
(* channel.  An entry of the DashMap is locked while it is iterated over   *)
(* or changed; apart from that the three interleave.                       *)
(*                                                                         *)
(* The Vec of a channel is here the log of what was appended to it and the *)
(* set of what has not been dropped.  The clock never goes back.           *)
(***************************************************************************)
EXTENDS Integers, Sequences

CONSTANTS
  Msgs,     \* the messages, each sent once
  Channels, \* the keys of the outbox: a channel's name, "" for no channel
  Chan,     \* [Msgs -> Channels]
  Size,     \* [Msgs -> Nat]: the length of a message in the outbox
  Wanted,   \* the channel_names of the client's pickups, in order
  MaxBytes, \* the max_bytes of the client's pickups
  MaxAge,   \* the max_age_seconds of the flushes
  None,     \* not sent yet
  Calm,     \* does the clock stand still during a send and during a pickup?
  MaxNow    \* bound: the last second of the clock

ASSUME OutboxAssumption ==
  /\ Chan \in [Msgs -> Channels]
  /\ Size \in [Msgs -> Nat]
  /\ Wanted \in Seq(Channels)
  /\ MaxBytes \in Nat /\ MaxAge \in Nat /\ MaxNow \in Nat
  /\ None \notin Nat
  /\ Calm \in BOOLEAN

VARIABLES
  now,       \* the clock
  stamp,     \* OutboxMsg.timestamp, from when the sender has read the clock
  log,       \* what has been appended to each channel, oldest first
  live,      \* what has not been dropped
  flushAt,   \* current_time of the flush
  flushTodo, \* the channels it has not been to
  pc,        \* where the pickup is
  i,         \* the channel it is at, as an index of Wanted
  k,         \* the message it is at, as an index of the channel's log
  total,     \* total_bytes
  bundle,    \* messages; Bundle.data later on
  time,      \* Bundle.time
  lastTime,  \* the client: last_time of its next pickup
  got,       \* the client: what it has received
  skipped    \* history: what was left out of a bundle for its size

sending == <<stamp, log>>
flush   == <<flushAt, flushTodo>>
pickup  == <<pc, i, k, total, bundle, time>>
client  == <<lastTime, got>>
vars    == <<now, sending, live, flush, pickup, client, skipped>>
-----------------------------------------------------------------------------
Range(s) == {s[p] : p \in DOMAIN s}

Appended(m) == m \in Range(log[Chan[m]])

\* The entry of a channel is locked while pickup iterates over its messages.
Locked(c) == pc = "collect" /\ i <= Len(Wanted) /\ Wanted[i] = c

\* Variants: a message of the second of last_time is old, or none is.
SinceAfter(m) == stamp[m] > lastTime
SinceEver(m)  == stamp[m] >= 0
Since(m) == stamp[m] >= lastTime
\* Variant: room is what the messages before it have left.
FitsBefore(m) == total < MaxBytes
Fits(m) == total + Size[m] <= MaxBytes
Expired(m) == flushAt - stamp[m] >= MaxAge
-----------------------------------------------------------------------------
Init ==
  /\ now = 0
  /\ stamp = [m \in Msgs |-> None]
  /\ log = [c \in Channels |-> <<>>]
  /\ live = {}
  /\ flushAt = 0
  /\ flushTodo = {}
  /\ pc = "idle"
  /\ i = 1
  /\ k = 1
  /\ total = 0
  /\ bundle = <<>>
  /\ time = 0
  /\ lastTime = 0
  /\ got = {}
  /\ skipped = {}

\* A second passes.
Tick ==
  /\ now < MaxNow
  /\ Calm => pc # "collect" /\ \A m \in Msgs : stamp[m] # None => Appended(m)
  /\ now' = now + 1
  /\ UNCHANGED <<sending, live, flush, pickup, client, skipped>>

\* send_msg_internal makes the OutboxMsg.
Stamp(m) ==
  /\ stamp[m] = None
  /\ stamp' = [stamp EXCEPT ![m] = now]
  /\ UNCHANGED <<now, log, live, flush, pickup, client, skipped>>

\* And appends it to the entry of its channel.
Push(m) ==
  /\ stamp[m] # None
  /\ ~ Appended(m)
  /\ ~ Locked(Chan[m])
  /\ log' = [log EXCEPT ![Chan[m]] = Append(@, m)]
  /\ live' = live \cup {m}
  /\ UNCHANGED <<now, stamp, flush, pickup, client, skipped>>

\* flush_outbox reads the clock, and goes to one entry after the other.
StartFlush ==
  /\ flushTodo = {}
  /\ flushAt' = now
  /\ flushTodo' = Channels
  /\ UNCHANGED <<now, sending, live, pickup, client, skipped>>

FlushChannel(c) ==
  /\ c \in flushTodo
  /\ ~ Locked(c)
  /\ live' = live \ {m \in live : Chan[m] = c /\ Expired(m)}
  /\ flushTodo' = flushTodo \ {c}
  /\ flushAt' = IF flushTodo = {c} THEN 0 ELSE flushAt
  /\ UNCHANGED <<now, sending, pickup, client, skipped>>

\* The client asks for the messages since its last_time.
StartPickup ==
  /\ pc = "idle"
  /\ pc' = "collect"
  /\ UNCHANGED <<now, sending, live, flush, i, k, total, bundle, time, client, skipped>>

\* One turn of the loop over the messages of a channel.
TakeMsg ==
  /\ pc = "collect"
  /\ i <= Len(Wanted)
  /\ k <= Len(log[Wanted[i]])
  /\ k' = k + 1
  /\ LET m == log[Wanted[i]][k]
     IN  \/ /\ m \in live /\ Since(m) /\ Fits(m)
            /\ bundle' = Append(bundle, m)
            /\ total' = total + Size[m]
            /\ UNCHANGED skipped
         \/ /\ m \in live /\ Since(m) /\ ~ Fits(m)
            /\ skipped' = skipped \cup {m}
            /\ UNCHANGED <<bundle, total>>
         \/ /\ ~ (m \in live /\ Since(m))
            /\ UNCHANGED <<bundle, total, skipped>>
  /\ UNCHANGED <<now, sending, live, flush, pc, i, time, client>>

\* Variant: the next channel is read from where the last one ended.
NextChannelFromHere ==
  /\ pc = "collect"
  /\ i <= Len(Wanted)
  /\ k > Len(log[Wanted[i]])
  /\ i' = i + 1
  /\ UNCHANGED <<now, sending, live, flush, pc, k, total, bundle, time, client, skipped>>

NextChannel ==
  /\ pc = "collect"
  /\ i <= Len(Wanted)
  /\ k > Len(log[Wanted[i]])
  /\ i' = i + 1
  /\ k' = 1
  /\ UNCHANGED <<now, sending, live, flush, pc, total, bundle, time, client, skipped>>

\* The bundle is made, with the time of now.
Seal ==
  /\ pc = "collect"
  /\ i > Len(Wanted)
  /\ pc' = "answer"
  /\ time' = now
  /\ UNCHANGED <<now, sending, live, flush, i, k, total, bundle, client, skipped>>

\* The pickup is over, and its variables with it.
EndPickup ==
  /\ pc' = "idle"
  /\ i' = 1
  /\ k' = 1
  /\ total' = 0
  /\ bundle' = <<>>
  /\ time' = 0

\* The client gets the bundle: it takes its messages and, unless there are none,
\* moves its last_time.
Receive ==
  /\ pc = "answer"
  /\ EndPickup
  /\ got' = got \cup Range(bundle)
  /\ lastTime' = IF bundle = <<>> THEN lastTime ELSE time
  /\ UNCHANGED <<now, sending, live, flush, skipped>>

\* Variant: the client moves its last_time although the answer is lost.
LoseAndMove ==
  /\ pc = "answer"
  /\ EndPickup
  /\ lastTime' = time
  /\ UNCHANGED <<now, sending, live, flush, got, skipped>>

\* The answer is lost, and the client asks again another time.
Lose ==
  /\ pc = "answer"
  /\ EndPickup
  /\ UNCHANGED <<now, sending, live, flush, client, skipped>>

Pickup == StartPickup \/ TakeMsg \/ NextChannel \/ Seal

Next ==
  \/ Tick
  \/ \E m \in Msgs : Stamp(m) \/ Push(m)
  \/ StartFlush
  \/ \E c \in Channels : FlushChannel(c)
  \/ Pickup
  \/ Receive
  \/ Lose

Spec == Init /\ [][Next]_vars

\* A send and a pickup that have begun go on, the client polls again and again, and
\* the network does not lose every answer.
FairSpec ==
  /\ Spec
  /\ \A m \in Msgs : WF_vars(Push(m))
  /\ WF_vars(Pickup)
  /\ SF_vars(Receive)
-----------------------------------------------------------------------------
TypeOK ==
  /\ now \in 0 .. MaxNow
  /\ stamp \in [Msgs -> Nat \cup {None}]
  /\ log \in [Channels -> Seq(Msgs)]
  /\ live \subseteq Msgs
  /\ flushAt \in Nat
  /\ flushTodo \subseteq Channels
  /\ pc \in {"idle", "collect", "answer"}
  /\ i \in 1 .. Len(Wanted) + 1
  /\ k \in Nat \ {0}
  /\ total \in 0 .. MaxBytes
  /\ bundle \in Seq(Msgs)
  /\ time \in Nat
  /\ lastTime \in Nat
  /\ got \subseteq Msgs
  /\ skipped \subseteq Msgs

\* A message old enough to be dropped.
Aged(m) == now - stamp[m] >= MaxAge

\* The messages that the client asks for.
Asked(m) == Chan[m] \in Range(Wanted)

\* What the client's last_time has moved past, it has received, unless there was no
\* room for it or it grew too old: the next pickups will not offer it again.
NoneLeftBehind ==
  \A m \in Msgs : Appended(m) /\ Asked(m) /\ stamp[m] < lastTime =>
    m \in got \/ m \in skipped \/ Aged(m)

\* Of two messages of a channel the one sent first is not received later, but for
\* the same excuses.
ReceivedInOrder ==
  \A c \in Channels : \A p, q \in 1 .. Len(log[c]) :
    p < q /\ log[c][q] \in got =>
      log[c][p] \in got \/ log[c][p] \in skipped \/ Aged(log[c][p])

\* A message comes again only if it was sent in the very second of the client's
\* last_time.
RepeatsOfLastSecondOnly ==
  \A p \in 1 .. Len(bundle) :
    bundle[p] \in got => stamp[bundle[p]] = lastTime

\* Sends, pickups and the ageing of messages are sends, deliveries and excuses of
\* StoreAndForward: what the client's last_time passes it has, a message just appended
\* has not been passed, and nothing that has arrived, or an excuse, is taken back.
Promise == INSTANCE StoreAndForward WITH
             sent    <- {m \in Msgs : Appended(m)},
             excused <- skipped \cup {m \in Msgs : stamp[m] # None /\ Aged(m)},
             arrived <- got,
             passed  <- {m \in Msgs : Appended(m) /\ Asked(m) /\ stamp[m] < lastTime}
PickupsForward == Promise!Spec

\* A message that the client asks for is received in the end, but for the same
\* excuses.
ReceivedInTheEnd ==
  \A m \in Msgs :
    Appended(m) /\ Asked(m) ~> m \in got \/ m \in skipped \/ m \notin live
=============================================================================
