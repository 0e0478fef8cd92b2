----------------------------- MODULE Outbox_proof -----------------------------
(***************************************************************************)
(* Theorems about Outbox: the types of its state, which messages a client  *)
(* receives twice, and, as long as the clock stands still during sends and *)
(* pickups, that it moves past nothing it has not received and receives in *)
(* order.  For every set of messages and channels, every size limit and    *)
(* every age.                                                              *)
(***************************************************************************)
EXTENDS Outbox, TLAPS

-----------------------------------------------------------------------------
LEMMA InitTypes == Init => TypeOK
<1> SUFFICES ASSUME Init PROVE TypeOK
  OBVIOUS
<1>1. log \in [Channels -> Seq(Msgs)] /\ bundle \in Seq(Msgs)
  BY DEF Init
<1>2. now \in 0 .. MaxNow /\ i \in 1 .. Len(Wanted) + 1 /\ total \in 0 .. MaxBytes
  BY OutboxAssumption DEF Init
<1>3. QED
  BY <1>1, <1>2 DEF Init, TypeOK

\* The message a pickup is at.
LEMMA CurrentMsg ==
  ASSUME TypeOK, i <= Len(Wanted), k <= Len(log[Wanted[i]])
  PROVE  /\ Wanted[i] \in Channels
         /\ k \in 1 .. Len(log[Wanted[i]])
         /\ log[Wanted[i]][k] \in Msgs
<1>1. i \in 1 .. Len(Wanted) /\ Wanted \in Seq(Channels)
  BY OutboxAssumption DEF TypeOK
<1>2. Wanted[i] \in Channels
  BY <1>1
<1>3. log[Wanted[i]] \in Seq(Msgs)
  BY <1>2 DEF TypeOK
<1>4. k \in 1 .. Len(log[Wanted[i]])
  BY <1>3 DEF TypeOK
<1>5. QED
  BY <1>2, <1>3, <1>4

\* What a turn of the loop does with it.
Here == log[Wanted[i]][k]

LEMMA TakeMsgCases ==
  ASSUME TypeOK, TakeMsg
  PROVE  /\ Here \in Msgs
         /\ \/ /\ Here \in live /\ Since(Here) /\ Fits(Here)
               /\ bundle' = Append(bundle, Here)
               /\ total' = total + Size[Here]
               /\ skipped' = skipped
            \/ /\ Here \in live /\ Since(Here)
               /\ skipped' = skipped \cup {Here}
               /\ bundle' = bundle /\ total' = total
            \/ /\ ~ (Here \in live /\ Since(Here))
               /\ bundle' = bundle /\ total' = total /\ skipped' = skipped
         /\ k' = k + 1
         /\ pc = "collect" /\ i <= Len(Wanted) /\ k <= Len(log[Wanted[i]])
         /\ UNCHANGED <<now, stamp, log, live, flushAt, flushTodo, pc, i, time, lastTime, got>>
<1>1. Here \in Msgs
  BY CurrentMsg DEF TakeMsg, Here
<1>2. QED
  BY <1>1 DEF TakeMsg, Here, sending, flush, client

LEMMA StepTypes ==
  ASSUME TypeOK, [Next]_vars
  PROVE  TypeOK'
<1> USE OutboxAssumption
<1>1. CASE Tick
  BY <1>1 DEF Tick, TypeOK, sending, flush, pickup, client
<1>2. ASSUME NEW m \in Msgs, Stamp(m)
      PROVE  TypeOK'
  BY <1>2 DEF Stamp, TypeOK, flush, pickup, client
<1>3. ASSUME NEW m \in Msgs, Push(m)
      PROVE  TypeOK'
  <2>1. log' \in [Channels -> Seq(Msgs)]
    BY <1>3 DEF Push, TypeOK
  <2>2. QED
    BY <1>3, <2>1 DEF Push, TypeOK, flush, pickup, client
<1>4. CASE StartFlush
  BY <1>4 DEF StartFlush, TypeOK, sending, pickup, client
<1>5. ASSUME NEW c \in Channels, FlushChannel(c)
      PROVE  TypeOK'
  BY <1>5 DEF FlushChannel, TypeOK, sending, pickup, client
<1>6. CASE StartPickup
  BY <1>6 DEF StartPickup, TypeOK, sending, flush, client
<1>7. CASE TakeMsg
  <2>1. Size[Here] \in Nat /\ Here \in Msgs
    BY <1>7, TakeMsgCases
  <2>2. bundle' \in Seq(Msgs)
    <3>1. bundle' = bundle \/ bundle' = Append(bundle, Here)
      BY <1>7, TakeMsgCases
    <3>2. bundle \in Seq(Msgs) /\ Append(bundle, Here) \in Seq(Msgs)
      BY <2>1 DEF TypeOK
    <3>3. QED
      BY <3>1, <3>2
  <2>3. skipped' \subseteq Msgs /\ total' \in 0 .. MaxBytes
    <3>1. skipped' = skipped \/ skipped' = skipped \cup {Here}
      BY <1>7, TakeMsgCases
    <3>2. total' = total \/ (total' = total + Size[Here] /\ Fits(Here))
      BY <1>7, TakeMsgCases
    <3>3. total \in 0 .. MaxBytes /\ skipped \subseteq Msgs
      BY DEF TypeOK
    <3>4. QED
      BY <2>1, <3>1, <3>2, <3>3 DEF Fits
  <2>4. k' \in Nat \ {0}
    BY <1>7 DEF TakeMsg, TypeOK
  <2>5. QED
    BY <1>7, <2>2, <2>3, <2>4 DEF TakeMsg, TypeOK, sending, flush, client
<1>8. CASE NextChannel
  <2>1. i' \in 1 .. Len(Wanted) + 1
    BY <1>8 DEF NextChannel, TypeOK
  <2>2. QED
    BY <1>8, <2>1 DEF NextChannel, TypeOK, sending, flush, client
<1>9. CASE Seal
  BY <1>9 DEF Seal, TypeOK, sending, flush, client
<1>10. CASE Receive \/ Lose
  <2>1. /\ pc' = "idle" /\ i' = 1 /\ k' = 1 /\ total' = 0 /\ bundle' = <<>> /\ time' = 0
        /\ <<>> \in Seq(Msgs) /\ Len(Wanted) \in Nat
    BY <1>10 DEF Receive, Lose, EndPickup
  <2>2. got' \subseteq Msgs /\ lastTime' \in Nat
    BY <1>10 DEF Receive, Lose, client, Range, TypeOK
  <2>3. QED
    BY <1>10, <2>1, <2>2 DEF Receive, Lose, TypeOK, sending, flush, client
<1>11. CASE UNCHANGED vars
  BY <1>11 DEF vars, TypeOK, sending, flush, pickup, client
<1>12. QED
  BY <1>1, <1>2, <1>3, <1>4, <1>5, <1>6, <1>7, <1>8, <1>9, <1>10, <1>11 DEF Next, Pickup

\* The types of the state, and the bound on what a bundle takes.
THEOREM TypeCorrect == Spec => []TypeOK
BY InitTypes, StepTypes, PTL DEF Spec
-----------------------------------------------------------------------------
\* What holds of the clock readings, whether or not the clock stands still.
Clock ==
  /\ \A m \in Msgs : stamp[m] # None => stamp[m] <= now
  /\ lastTime <= now /\ time <= now /\ flushAt <= now
  /\ pc = "answer" => lastTime <= time

Logs ==
  \A c \in Channels : \A p \in 1 .. Len(log[c]) :
    Chan[log[c][p]] = c /\ stamp[log[c][p]] # None

Resting == pc = "idle" => i = 1 /\ k = 1 /\ bundle = <<>>

\* What is in a bundle is at least as new as last_time, what has been received is no
\* newer.
Bundled ==
  \A p \in 1 .. Len(bundle) :
    /\ Appended(bundle[p])
    /\ stamp[bundle[p]] >= lastTime
    /\ pc = "answer" => stamp[bundle[p]] <= time
Received == \A m \in got : Appended(m) /\ stamp[m] <= lastTime

Readings == Clock /\ Logs /\ Resting /\ Bundled /\ Received

\* Bundles, logs and the client hold messages.
LEMMA MessagesHeld ==
  ASSUME TypeOK
  PROVE  /\ \A p \in 1 .. Len(bundle) : bundle[p] \in Msgs
         /\ \A c \in Channels : \A p \in 1 .. Len(log[c]) : log[c][p] \in Msgs
         /\ got \subseteq Msgs
<1>1. bundle \in Seq(Msgs) /\ (\A c \in Channels : log[c] \in Seq(Msgs)) /\ got \subseteq Msgs
  BY DEF TypeOK
<1>2. QED
  BY <1>1

\* A message appended is appended to its own channel, and has a timestamp.
LEMMA AppendedStamped ==
  ASSUME TypeOK, Logs, NEW m \in Msgs, Appended(m)
  PROVE  stamp[m] \in Nat
<1>1. PICK p \in DOMAIN log[Chan[m]] : log[Chan[m]][p] = m
  BY DEF Appended, Range
<1>2. Chan[m] \in Channels /\ log[Chan[m]] \in Seq(Msgs)
  BY OutboxAssumption DEF TypeOK
<1>3. stamp[m] # None
  BY <1>1, <1>2 DEF Logs
<1>4. QED
  BY <1>3 DEF TypeOK

\* The log of a channel only grows, by the message pushed.
LEMMA PushGrows ==
  ASSUME TypeOK, NEW m \in Msgs, Push(m)
  PROVE  /\ \A c \in Channels : c # Chan[m] => log'[c] = log[c]
         /\ Len(log'[Chan[m]]) = Len(log[Chan[m]]) + 1
         /\ log'[Chan[m]][Len(log[Chan[m]]) + 1] = m
         /\ \A p \in 1 .. Len(log[Chan[m]]) : log'[Chan[m]][p] = log[Chan[m]][p]
         /\ Len(log[Chan[m]]) \in Nat
         /\ \A x \in Msgs : Appended(x)' <=> Appended(x) \/ x = m
<1>1. Chan[m] \in Channels /\ log[Chan[m]] \in Seq(Msgs)
  BY OutboxAssumption DEF TypeOK
<1>2. log' = [log EXCEPT ![Chan[m]] = Append(log[Chan[m]], m)]
  BY DEF Push
<1>3. /\ \A c \in Channels : c # Chan[m] => log'[c] = log[c]
      /\ log'[Chan[m]] = Append(log[Chan[m]], m)
  BY <1>1, <1>2 DEF TypeOK
<1>4. /\ Len(log'[Chan[m]]) = Len(log[Chan[m]]) + 1
      /\ log'[Chan[m]][Len(log[Chan[m]]) + 1] = m
      /\ \A p \in 1 .. Len(log[Chan[m]]) : log'[Chan[m]][p] = log[Chan[m]][p]
      /\ Len(log[Chan[m]]) \in Nat
      /\ DOMAIN log[Chan[m]] = 1 .. Len(log[Chan[m]])
      /\ DOMAIN log'[Chan[m]] = 1 .. Len(log[Chan[m]]) + 1
  BY <1>1, <1>3
<1>5. \A x \in Msgs : Appended(x)' <=> Appended(x) \/ x = m
  <2> SUFFICES ASSUME NEW x \in Msgs
               PROVE  Appended(x)' <=> Appended(x) \/ x = m
    OBVIOUS
  <2>1. CASE Chan[x] # Chan[m]
    BY <1>3, <2>1, OutboxAssumption DEF Appended, Range
  <2>2. CASE Chan[x] = Chan[m]
    <3>1. ASSUME Appended(x)
          PROVE  Appended(x)'
      <4>1. PICK p \in 1 .. Len(log[Chan[m]]) : log[Chan[m]][p] = x
        BY <1>4, <2>2, <3>1 DEF Appended, Range
      <4>2. p \in DOMAIN log'[Chan[m]] /\ log'[Chan[m]][p] = x
        BY <1>4, <4>1
      <4>3. QED
        BY <2>2, <4>2 DEF Appended, Range
    <3>2. ASSUME x = m
          PROVE  Appended(x)'
      <4>1. Len(log[Chan[m]]) + 1 \in DOMAIN log'[Chan[m]]
        BY <1>4
      <4>2. QED
        BY <1>4, <3>2, <4>1 DEF Appended, Range
    <3>3. ASSUME Appended(x)'
          PROVE  Appended(x) \/ x = m
      <4>1. PICK p \in 1 .. Len(log[Chan[m]]) + 1 : log'[Chan[m]][p] = x
        BY <1>4, <2>2, <3>3 DEF Appended, Range
      <4>2. CASE p = Len(log[Chan[m]]) + 1
        BY <1>4, <4>1, <4>2
      <4>3. CASE p \in 1 .. Len(log[Chan[m]])
        BY <1>4, <2>2, <4>1, <4>3 DEF Appended, Range
      <4>4. QED
        BY <1>4, <4>1, <4>2, <4>3
    <3>4. QED
      BY <3>1, <3>2, <3>3
  <2>3. QED
    BY <2>1, <2>2
<1>6. QED
  BY <1>3, <1>4, <1>5

\* Every step leaves what is appended appended, with the timestamp it has.
LEMMA AppendedStays ==
  ASSUME TypeOK, [Next]_vars, NEW m \in Msgs, Appended(m), stamp[m] # None
  PROVE  Appended(m)' /\ stamp'[m] = stamp[m]
<1>1. ASSUME NEW x \in Msgs, Stamp(x)
      PROVE  Appended(m)' /\ stamp'[m] = stamp[m]
  BY <1>1 DEF Stamp, Appended, Range, TypeOK
<1>2. ASSUME NEW x \in Msgs, Push(x)
      PROVE  Appended(m)' /\ stamp'[m] = stamp[m]
  BY <1>2, PushGrows DEF Push
<1>3. CASE UNCHANGED sending
  BY <1>3 DEF sending, Appended, Range
<1>4. QED
  BY <1>1, <1>2, <1>3
  DEF Next, vars, Tick, StartFlush, FlushChannel, Pickup, StartPickup, TakeMsg, NextChannel,
      Seal, Receive, Lose

LEMMA InitReadings == Init => Readings
<1> SUFFICES ASSUME Init PROVE Readings
  OBVIOUS
<1>1. Clock /\ Resting /\ Received
  BY DEF Init, Clock, Resting, Received
<1>2. Logs /\ Bundled
  BY DEF Init, Logs, Bundled
<1>3. QED
  BY <1>1, <1>2 DEF Readings

LEMMA StepReadings ==
  ASSUME TypeOK, TypeOK', Readings, [Next]_vars
  PROVE  Readings'
<1> USE OutboxAssumption DEF Readings
<1>0. \A m \in Msgs : Appended(m) => Appended(m)' /\ stamp'[m] = stamp[m] /\ stamp[m] \in Nat
  BY AppendedStays, AppendedStamped, OutboxAssumption
<1>1. CASE Tick
  <2>1. Clock'
    BY <1>1 DEF Tick, Clock, TypeOK, sending, flush, pickup, client
  <2>2. Logs' /\ Resting' /\ Bundled' /\ Received'
    BY <1>1 DEF Tick, Logs, Resting, Bundled, Received, Appended, Range, sending, flush,
                pickup, client
  <2>3. QED
    BY <2>1, <2>2
<1>2. ASSUME NEW m \in Msgs, Stamp(m)
      PROVE  Readings'
  <2>1. \A x \in Msgs : stamp'[x] = IF x = m THEN now ELSE stamp[x]
    BY <1>2 DEF Stamp, TypeOK
  <2>2. now \in Nat /\ UNCHANGED <<now, log, live, flushAt, flushTodo, pc, i, k, total, bundle,
                                   time, lastTime, got>>
    BY <1>2 DEF Stamp, TypeOK, flush, pickup, client
  <2>3. Clock'
    BY <2>1, <2>2 DEF Clock
  <2>4. \A c \in Channels : \A p \in 1 .. Len(log[c]) : log[c][p] \in Msgs
    BY MessagesHeld
  <2>5. Logs'
    <3>1. \A x \in Msgs : stamp[x] # None => stamp'[x] # None
      BY <2>1, <2>2, OutboxAssumption
    <3>2. QED
      BY <2>2, <2>4, <3>1 DEF Logs
  <2>6. Bundled' /\ Received'
    <3>1. (\A p \in 1 .. Len(bundle) : bundle[p] \in Msgs) /\ got \subseteq Msgs
      BY MessagesHeld
    <3>2. Bundled'
      BY <1>0, <2>2, <3>1 DEF Bundled
    <3>3. Received'
      BY <1>0, <2>2, <3>1 DEF Received
    <3>4. QED
      BY <3>2, <3>3
  <2>7. QED
    BY <2>2, <2>3, <2>5, <2>6 DEF Resting
<1>3. ASSUME NEW m \in Msgs, Push(m)
      PROVE  Readings'
  <2>1. UNCHANGED <<now, stamp, flushAt, flushTodo, pc, i, k, total, bundle, time, lastTime, got>>
        /\ stamp[m] # None
    BY <1>3 DEF Push, flush, pickup, client
  <2>2. Logs'
    <3> SUFFICES ASSUME NEW c \in Channels, NEW p \in 1 .. Len(log'[c])
                 PROVE  Chan[log'[c][p]] = c /\ stamp'[log'[c][p]] # None
      BY DEF Logs
    <3>1. CASE c # Chan[m]
      BY <1>3, <2>1, <3>1, PushGrows DEF Logs
    <3>2. CASE c = Chan[m]
      <4>1. p = Len(log[c]) + 1 \/ p \in 1 .. Len(log[c])
        BY <1>3, <3>2, PushGrows
      <4>2. CASE p = Len(log[c]) + 1
        BY <1>3, <2>1, <3>2, <4>2, PushGrows
      <4>3. CASE p \in 1 .. Len(log[c])
        <5>1. log'[c][p] = log[c][p]
          BY <1>3, <3>2, <4>3, PushGrows
        <5>2. QED
          BY <2>1, <4>3, <5>1 DEF Logs
      <4>4. QED
        BY <4>1, <4>2, <4>3
    <3>3. QED
      BY <3>1, <3>2
  <2>3. (\A p \in 1 .. Len(bundle) : bundle[p] \in Msgs) /\ got \subseteq Msgs
    BY MessagesHeld
  <2>4. Bundled' /\ Received'
    <3> USE <1>0, <2>1, <2>3
    <3>1. Bundled'
      BY DEF Bundled
    <3>2. Received'
      BY DEF Received
    <3>3. QED
      BY <3>1, <3>2
  <2>5. QED
    BY <2>1, <2>2, <2>4 DEF Clock, Resting
<1>4. CASE StartFlush \/ \E c \in Channels : FlushChannel(c)
  <2>1. /\ UNCHANGED <<now, stamp, log, pc, i, k, total, bundle, time, lastTime, got>>
        /\ flushAt' \in {now, 0, flushAt}
    BY <1>4 DEF StartFlush, FlushChannel, sending, pickup, client
  <2>2. QED
    BY <2>1 DEF Clock, Logs, Resting, Bundled, Received, Appended, Range, TypeOK
<1>5. CASE StartPickup \/ NextChannel
  <2>1. /\ UNCHANGED <<now, stamp, log, flushAt, total, bundle, time, lastTime, got>>
        /\ pc' = "collect"
    BY <1>5 DEF StartPickup, NextChannel, sending, flush, client
  <2>2. QED
    BY <2>1 DEF Clock, Logs, Resting, Bundled, Received, Appended, Range
<1>6. CASE TakeMsg
  <2>1. /\ UNCHANGED <<now, stamp, log, flushAt, pc, time, lastTime, got>>
        /\ pc = "collect"
    BY <1>6, TakeMsgCases
  <2>2. Clock' /\ Logs' /\ Resting' /\ Received'
    BY <2>1 DEF Clock, Logs, Resting, Received, Appended, Range
  <2>3. Bundled'
    <3>1. CASE bundle' = bundle
      BY <2>1, <3>1 DEF Bundled, Appended, Range
    <3>2. CASE bundle' = Append(bundle, Here) /\ Since(Here)
      <4>1. Here \in Msgs /\ bundle \in Seq(Msgs)
        BY <1>6, TakeMsgCases DEF TypeOK
      <4>2. Appended(Here)
        <5>0. /\ Wanted[i] \in Channels
              /\ k \in 1 .. Len(log[Wanted[i]])
          BY <1>6, TakeMsgCases, CurrentMsg
        <5>1. Chan[Here] = Wanted[i] /\ k \in DOMAIN log[Wanted[i]]
          <6>1. log[Wanted[i]] \in Seq(Msgs)
            BY <5>0 DEF TypeOK
          <6>2. QED
            BY <5>0, <6>1 DEF Here, Logs
        <5>2. QED
          BY <5>1 DEF Appended, Range, Here
      <4>3. \A p \in 1 .. Len(bundle') :
              \/ p \in 1 .. Len(bundle) /\ bundle'[p] = bundle[p]
              \/ bundle'[p] = Here
        BY <3>2, <4>1
      <4>4. SUFFICES ASSUME NEW p \in 1 .. Len(bundle')
                     PROVE  Appended(bundle'[p]) /\ stamp[bundle'[p]] >= lastTime
        BY <2>1 DEF Bundled, Appended, Range
      <4>5. CASE p \in 1 .. Len(bundle) /\ bundle'[p] = bundle[p]
        BY <4>5 DEF Bundled
      <4>6. CASE bundle'[p] = Here
        BY <3>2, <4>2, <4>6 DEF Since
      <4>7. QED
        BY <4>3, <4>5, <4>6
    <3>3. QED
      BY <1>6, <3>1, <3>2, TakeMsgCases
  <2>4. QED
    BY <2>2, <2>3
<1>7. CASE Seal
  <2>1. /\ UNCHANGED <<now, stamp, log, flushAt, bundle, lastTime, got>>
        /\ pc' = "answer" /\ time' = now
    BY <1>7 DEF Seal, sending, flush, client
  <2>2. Clock' /\ Logs' /\ Resting' /\ Received'
    BY <2>1 DEF Clock, Logs, Resting, Received, Appended, Range, TypeOK
  <2>3. \A p \in 1 .. Len(bundle) : bundle[p] \in Msgs
    BY MessagesHeld
  <2>4. \A p \in 1 .. Len(bundle) : Appended(bundle[p]) /\ stamp[bundle[p]] <= now
    <3>1. \A p \in 1 .. Len(bundle) : Appended(bundle[p]) /\ stamp[bundle[p]] \in Nat
      BY <1>0, <2>3 DEF Bundled
    <3>2. \A p \in 1 .. Len(bundle) : stamp[bundle[p]] # None
      BY <3>1, OutboxAssumption
    <3>3. QED
      BY <2>3, <3>1, <3>2 DEF Clock
  <2>5. Bundled'
    BY <2>1, <2>4 DEF Bundled, Appended, Range
  <2>6. QED
    BY <2>2, <2>5
<1>8. CASE Receive
  <2>1. /\ UNCHANGED <<now, stamp, log, flushAt>>
        /\ pc = "answer" /\ pc' = "idle" /\ i' = 1 /\ k' = 1 /\ bundle' = <<>> /\ time' = 0
        /\ got' = got \cup Range(bundle)
        /\ lastTime' = IF bundle = <<>> THEN lastTime ELSE time
    BY <1>8 DEF Receive, EndPickup, sending, flush
  <2>2. Clock' /\ Logs' /\ Resting' /\ Bundled'
    BY <2>1 DEF Clock, Logs, Resting, Bundled, TypeOK
  <2>3. Received'
    <3> SUFFICES ASSUME NEW m \in got'
                 PROVE  Appended(m) /\ stamp[m] <= lastTime'
      BY <2>1 DEF Received, Appended, Range
    <3>1. CASE m \in got
      <4>1. Appended(m) /\ stamp[m] <= lastTime /\ m \in Msgs
        BY <3>1 DEF Received, TypeOK
      <4>2. stamp[m] \in Nat
        BY <4>1, AppendedStamped
      <4>3. QED
        BY <2>1, <4>1, <4>2 DEF Clock, TypeOK
    <3>2. CASE m \in Range(bundle)
      <4>1. PICK p \in 1 .. Len(bundle) : bundle[p] = m
        <5>1. bundle \in Seq(Msgs)
          BY DEF TypeOK
        <5>2. DOMAIN bundle = 1 .. Len(bundle)
          BY <5>1
        <5>3. QED
          BY <3>2, <5>2 DEF Range
      <4>2. bundle # <<>>
        BY <4>1
      <4>3. QED
        BY <2>1, <4>1, <4>2 DEF Bundled
    <3>3. QED
      BY <2>1, <3>1, <3>2
  <2>4. QED
    BY <2>2, <2>3
<1>9. CASE Lose
  <2>1. /\ UNCHANGED <<now, stamp, log, flushAt, lastTime, got>>
        /\ pc' = "idle" /\ i' = 1 /\ k' = 1 /\ bundle' = <<>> /\ time' = 0
    BY <1>9 DEF Lose, EndPickup, sending, flush, client
  <2>2. QED
    BY <2>1 DEF Clock, Logs, Resting, Bundled, Received, Appended, Range, TypeOK
<1>10. CASE UNCHANGED vars
  BY <1>10 DEF vars, sending, flush, pickup, client, Clock, Logs, Resting, Bundled, Received,
               Appended, Range
<1>11. QED
  BY <1>1, <1>2, <1>3, <1>4, <1>5, <1>6, <1>7, <1>8, <1>9, <1>10 DEF Next, Pickup

LEMMA ReadingsInvariant == Spec => [](TypeOK /\ Readings)
<1>1. Init => TypeOK /\ Readings
  BY InitTypes, InitReadings
<1>2. TypeOK /\ Readings /\ [Next]_vars => (TypeOK /\ Readings)'
  BY StepTypes, StepReadings
<1>3. QED
  BY <1>1, <1>2, PTL DEF Spec

\* Whatever the clock does during sends and pickups, the client gets a message twice
\* only if it was sent in the second in which its last bundle was made.
THEOREM RepeatsBounded == Spec => []RepeatsOfLastSecondOnly
<1>1. ASSUME TypeOK, Readings
      PROVE  RepeatsOfLastSecondOnly
  <2> SUFFICES ASSUME NEW p \in 1 .. Len(bundle), bundle[p] \in got
               PROVE  stamp[bundle[p]] = lastTime
    BY DEF RepeatsOfLastSecondOnly
  <2>1. Appended(bundle[p]) /\ bundle[p] \in Msgs
    BY <1>1 DEF Readings, Received, TypeOK
  <2>2. stamp[bundle[p]] \in Nat /\ lastTime \in Nat
    BY <1>1, <2>1, AppendedStamped DEF Readings, TypeOK
  <2>3. stamp[bundle[p]] >= lastTime /\ stamp[bundle[p]] <= lastTime
    BY <1>1 DEF Readings, Bundled, Received
  <2>4. QED
    BY <2>2, <2>3
<1>2. QED
  BY <1>1, ReadingsInvariant, PTL
-----------------------------------------------------------------------------
\* What a client may move past: it has the message, or one of the excuses holds.
Excused(m) == m \in got \/ m \in skipped \/ Aged(m)

\* The same of a pickup under way: the message is excused, or in the bundle.
Handled(m) == Excused(m) \/ m \in Range(bundle)

\* A message is in a log once, and is there until it is too old.
Once ==
  \A c \in Channels : \A p, q \in 1 .. Len(log[c]) : log[c][p] = log[c][q] => p = q
KeptYoung == \A m \in Msgs : Appended(m) => m \in live \/ Aged(m)

\* When the clock waits for sends, what is still to be appended was sent this second.
SentThisSecond == \A m \in Msgs : stamp[m] # None /\ ~ Appended(m) => stamp[m] = now

\* A pickup has handled what lies behind it: of the channel it is at all messages, of
\* the channels it has been to the messages sent before this second.
HandledHere ==
  pc = "collect" /\ i <= Len(Wanted) =>
    \A p \in 1 .. Len(log[Wanted[i]]) : \A m \in Msgs :
      p < k /\ m = log[Wanted[i]][p] => Handled(m)
HandledBefore ==
  pc = "collect" =>
    \A j \in 1 .. Len(Wanted) : \A m \in Msgs :
      j < i /\ Chan[m] = Wanted[j] /\ Appended(m) /\ stamp[m] < now => Handled(m)

\* An answer has handled what was sent before its time.
AnswerComplete ==
  pc = "answer" =>
    \A m \in Msgs : Appended(m) /\ Asked(m) /\ stamp[m] < time => Handled(m)

\* No message of a channel is in a bundle, or received, before those sent earlier.
BundleInOrder ==
  \A c \in Channels : \A p, q \in 1 .. Len(log[c]) : \A m \in Msgs :
    p < q /\ m = log[c][p] /\ log[c][q] \in Range(bundle) => Handled(m)
GotInOrder ==
  \A c \in Channels : \A p, q \in 1 .. Len(log[c]) : \A m \in Msgs :
    p < q /\ m = log[c][p] /\ log[c][q] \in got => Excused(m)

Complete ==
  /\ Once /\ KeptYoung /\ SentThisSecond
  /\ HandledHere /\ HandledBefore /\ AnswerComplete /\ BundleInOrder
  /\ NoneLeftBehind /\ GotInOrder

LEMMA InitComplete == Init => Complete
<1> SUFFICES ASSUME Init PROVE Complete
  OBVIOUS
<1>1. \A c \in Channels : Len(log[c]) = 0
  BY DEF Init
<1>2. ASSUME NEW m \in Msgs
      PROVE  ~ Appended(m)
  <2>1. log[Chan[m]] = <<>>
    BY OutboxAssumption DEF Init
  <2>2. QED
    BY <2>1 DEF Appended, Range
<1>3. Once /\ KeptYoung /\ SentThisSecond /\ NoneLeftBehind /\ GotInOrder
  BY <1>1, <1>2 DEF Init, Once, KeptYoung, SentThisSecond, NoneLeftBehind, GotInOrder
<1>4. HandledHere /\ HandledBefore /\ AnswerComplete /\ BundleInOrder
  BY <1>1 DEF Init, HandledHere, HandledBefore, AnswerComplete, BundleInOrder
<1>5. QED
  BY <1>3, <1>4 DEF Complete

\* A message at a place of a channel's log, and a place for a message appended.
LEMMA InLog ==
  ASSUME TypeOK, Logs, NEW c \in Channels, NEW p \in 1 .. Len(log[c])
  PROVE  /\ log[c][p] \in Msgs /\ Chan[log[c][p]] = c
         /\ Appended(log[c][p]) /\ stamp[log[c][p]] \in Nat
<1>1. log[c][p] \in Msgs /\ Chan[log[c][p]] = c /\ p \in DOMAIN log[c]
  BY DEF TypeOK, Logs
<1>2. Appended(log[c][p])
  BY <1>1 DEF Appended, Range
<1>3. QED
  BY <1>1, <1>2, AppendedStamped

LEMMA PlaceInLog ==
  ASSUME TypeOK, NEW m \in Msgs, Appended(m)
  PROVE  \E p \in 1 .. Len(log[Chan[m]]) : log[Chan[m]][p] = m
<1>1. log[Chan[m]] \in Seq(Msgs)
  BY OutboxAssumption DEF TypeOK
<1>2. DOMAIN log[Chan[m]] = 1 .. Len(log[Chan[m]])
  BY <1>1
<1>3. QED
  BY <1>2 DEF Appended, Range

\* A step of a sender's clock, of the clock or of a flush does nothing to the logs, the
\* pickup and the client.
Elsewhere ==
  /\ UNCHANGED <<log, pc, i, k, bundle, time, lastTime, got, skipped>>
  /\ Calm => now' = now \/ pc # "collect"

LEMMA StepKinds ==
  ASSUME [Next]_vars
  PROVE  \/ Elsewhere
         \/ \E m \in Msgs : Push(m)
         \/ StartPickup \/ TakeMsg \/ NextChannel \/ Seal \/ Receive \/ Lose
<1>1. ASSUME Tick \/ StartFlush \/ (\E m \in Msgs : Stamp(m)) \/ (\E c \in Channels : FlushChannel(c))
      PROVE  Elsewhere
  BY <1>1 DEF Tick, StartFlush, Stamp, FlushChannel, Elsewhere, sending, pickup, client
<1>2. ASSUME UNCHANGED vars
      PROVE  Elsewhere
  BY <1>2 DEF vars, Elsewhere, sending, pickup, client
<1>3. QED
  BY <1>1, <1>2 DEF Next, Pickup

\* Excuses last.
LEMMA ExcusedStays ==
  ASSUME TypeOK, TypeOK', Logs, [Next]_vars, NEW m \in Msgs, Appended(m), Excused(m)
  PROVE  Excused(m)'
<1>1. stamp'[m] = stamp[m] /\ stamp[m] \in Nat
  BY AppendedStays, AppendedStamped, OutboxAssumption
<1>2. got \subseteq got' /\ skipped \subseteq skipped' /\ (now' = now \/ now' = now + 1)
  BY DEF Next, vars, Tick, Stamp, Push, StartFlush, FlushChannel, Pickup, StartPickup, TakeMsg,
         NextChannel, Seal, Receive, Lose, client
<1>3. now \in Nat /\ MaxAge \in Nat
  BY OutboxAssumption DEF TypeOK
<1>4. Aged(m) => Aged(m)'
  BY <1>1, <1>2, <1>3 DEF Aged
<1>5. QED
  BY <1>2, <1>4 DEF Excused

\* And while a pickup goes on, so does what it has handled.
LEMMA HandledStays ==
  ASSUME TypeOK, TypeOK', Logs, [Next]_vars, NEW m \in Msgs, Appended(m), Handled(m)
  PROVE  /\ ~ Receive /\ ~ Lose => Handled(m)'
         /\ Receive => Excused(m)'
<1>1. CASE Excused(m)
  BY <1>1, ExcusedStays DEF Handled
<1>2. CASE m \in Range(bundle)
  <2>1. Receive => m \in got'
    BY <1>2 DEF Receive
  <2>2. TakeMsg => m \in Range(bundle')
    <3>1. ASSUME TakeMsg
          PROVE  m \in Range(bundle')
      <4>1. bundle' = bundle \/ bundle' = Append(bundle, Here)
        BY <3>1, TakeMsgCases
      <4>2. bundle \in Seq(Msgs) /\ Here \in Msgs
        BY <3>1, TakeMsgCases DEF TypeOK
      <4>3. PICK p \in DOMAIN bundle : bundle[p] = m
        BY <1>2 DEF Range
      <4>4. p \in DOMAIN bundle' /\ bundle'[p] = m
        BY <4>1, <4>2, <4>3
      <4>5. QED
        BY <4>4 DEF Range
    <3>2. QED
      BY <3>1
  <2>3. ~ Receive /\ ~ Lose /\ ~ TakeMsg => bundle' = bundle
    BY StepKinds DEF Elsewhere, Push, StartPickup, NextChannel, Seal, pickup
  <2>4. QED
    BY <1>2, <2>1, <2>2, <2>3 DEF Handled, Excused, Range
<1>3. QED
  BY <1>1, <1>2 DEF Handled

LEMMA StepOnce ==
  ASSUME TypeOK, TypeOK', Logs, Once, [Next]_vars
  PROVE  Once'
<1>1. CASE log' = log
  BY <1>1 DEF Once
<1>2. ASSUME NEW x \in Msgs, Push(x)
      PROVE  Once'
  <2> SUFFICES ASSUME NEW c \in Channels, NEW p \in 1 .. Len(log'[c]),
                      NEW q \in 1 .. Len(log'[c]), log'[c][p] = log'[c][q]
               PROVE  p = q
    BY DEF Once
  <2>1. CASE c # Chan[x]
    BY <1>2, <2>1, PushGrows DEF Once
  <2>2. CASE c = Chan[x]
    <3> DEFINE n == Len(log[c])
    <3>1. /\ n \in Nat /\ Len(log'[c]) = n + 1
          /\ log'[c][n + 1] = x
          /\ \A r \in 1 .. n : log'[c][r] = log[c][r]
      BY <1>2, <2>2, PushGrows
    <3>2. \A r \in 1 .. n : log[c][r] # x
      BY <1>2, InLog DEF Push
    <3> HIDE DEF n
    <3>3. p \in 1 .. n + 1 /\ q \in 1 .. n + 1
      BY <3>1
    <3>4. CASE p \in 1 .. n /\ q \in 1 .. n
      <4>1. log[c][p] = log[c][q]
        BY <3>1, <3>4
      <4>2. QED
        BY <3>4, <4>1 DEF Once, n
    <3>5. CASE p = n + 1 \/ q = n + 1
      <4>1. p \in 1 .. n => log'[c][p] # x
        BY <3>1, <3>2
      <4>2. q \in 1 .. n => log'[c][q] # x
        BY <3>1, <3>2
      <4>3. p \notin 1 .. n /\ q \notin 1 .. n
        BY <3>1, <3>5, <4>1, <4>2
      <4>4. QED
        BY <3>1, <3>3, <4>3
    <3>6. QED
      BY <3>1, <3>3, <3>4, <3>5
  <2>3. QED
    BY <2>1, <2>2
<1>3. QED
  BY <1>1, <1>2, StepKinds DEF Elsewhere, StartPickup, TakeMsg, NextChannel, Seal, Receive, Lose,
                               sending

LEMMA StepKeptYoung ==
  ASSUME TypeOK, TypeOK', Readings, KeptYoung, [Next]_vars
  PROVE  KeptYoung'
<1> SUFFICES ASSUME NEW m \in Msgs, Appended(m)'
             PROVE  m \in live' \/ Aged(m)'
  BY DEF KeptYoung
<1>1. ASSUME NEW x \in Msgs, Push(x), x = m
      PROVE  m \in live'
  BY <1>1 DEF Push
<1>2. ASSUME Appended(m)
      PROVE  m \in live' \/ Aged(m)'
  <2>1. /\ stamp'[m] = stamp[m] /\ stamp[m] \in Nat /\ now \in Nat /\ flushAt \in Nat
        /\ MaxAge \in Nat /\ (now' = now \/ now' = now + 1) /\ flushAt <= now
    <3>1. stamp'[m] = stamp[m] /\ stamp[m] \in Nat
      BY <1>2, AppendedStays, AppendedStamped, OutboxAssumption DEF Readings
    <3>2. now' = now \/ now' = now + 1
      BY DEF Next, vars, Tick, Stamp, Push, StartFlush, FlushChannel, Pickup, StartPickup, TakeMsg,
             NextChannel, Seal, Receive, Lose
    <3>3. QED
      BY <3>1, <3>2, OutboxAssumption DEF Readings, Clock, TypeOK
  <2>2. CASE Aged(m)
    BY <2>1, <2>2 DEF Aged
  <2>3. CASE m \in live
    <3>1. ASSUME NEW c \in Channels, FlushChannel(c)
          PROVE  m \in live' \/ Aged(m)'
      <4>1. m \in live' \/ Expired(m)
        BY <2>3, <3>1 DEF FlushChannel
      <4>2. now' = now
        BY <3>1 DEF FlushChannel
      <4>3. Expired(m) => Aged(m)'
        BY <2>1, <4>2 DEF Expired, Aged
      <4>4. QED
        BY <4>1, <4>3
    <3>2. ~ (\E c \in Channels : FlushChannel(c)) => live \subseteq live'
      BY DEF Next, vars, Tick, Stamp, Push, StartFlush, Pickup, StartPickup, TakeMsg, NextChannel,
             Seal, Receive, Lose
    <3>3. QED
      BY <2>3, <3>1, <3>2
  <2>4. QED
    BY <1>2, <2>2, <2>3 DEF KeptYoung
<1>3. Appended(m) \/ \E x \in Msgs : Push(x) /\ x = m
  BY PushGrows, StepKinds DEF Elsewhere, StartPickup, TakeMsg, NextChannel, Seal, Receive, Lose,
                              sending, Appended, Range
<1>4. QED
  BY <1>1, <1>2, <1>3

LEMMA StepSentThisSecond ==
  ASSUME Calm, TypeOK, TypeOK', SentThisSecond, [Next]_vars
  PROVE  SentThisSecond'
<1> USE OutboxAssumption DEF SentThisSecond
<1>1. CASE Tick
  BY <1>1 DEF Tick, sending, Appended, Range
<1>2. ASSUME NEW x \in Msgs, Stamp(x)
      PROVE  SentThisSecond'
  <2>1. \A m \in Msgs : stamp'[m] = IF m = x THEN now ELSE stamp[m]
    BY <1>2 DEF Stamp, TypeOK
  <2>2. QED
    BY <1>2, <2>1 DEF Stamp, Appended, Range
<1>3. ASSUME NEW x \in Msgs, Push(x)
      PROVE  SentThisSecond'
  BY <1>3, PushGrows DEF Push
<1>4. CASE UNCHANGED <<now, sending>>
  BY <1>4 DEF sending, Appended, Range
<1>5. QED
  BY <1>1, <1>2, <1>3, <1>4
  DEF Next, vars, StartFlush, FlushChannel, Pickup, StartPickup, TakeMsg, NextChannel, Seal,
      Receive, Lose

\* The turn of the loop handles its message.
LEMMA TakeHandles ==
  ASSUME TypeOK, TypeOK', Readings, KeptYoung, NoneLeftBehind, TakeMsg, [Next]_vars
  PROVE  /\ Here \in Msgs /\ Appended(Here) /\ Chan[Here] = Wanted[i]
         /\ \A m \in Msgs : m = Here => Handled(m)'
<1>0. /\ Wanted[i] \in Channels
      /\ k \in 1 .. Len(log[Wanted[i]])
  BY TakeMsgCases, CurrentMsg
<1>1. Here \in Msgs /\ Appended(Here) /\ Chan[Here] = Wanted[i] /\ stamp[Here] \in Nat
  BY <1>0, InLog DEF Here, Readings
<1>2. Wanted[i] \in Range(Wanted)
  <2>1. i <= Len(Wanted)
    BY DEF TakeMsg
  <2>2. i \in 1 .. Len(Wanted) + 1
    BY DEF TypeOK
  <2>3. Wanted \in Seq(Channels) /\ Len(Wanted) \in Nat
    BY OutboxAssumption
  <2>4. i \in 1 .. Len(Wanted)
    BY <2>1, <2>2, <2>3
  <2>5. QED
    BY <2>3, <2>4 DEF Range
<1>3. ASSUME NEW m \in Msgs, m = Here
      PROVE  Handled(m)'
  <2>1. CASE Here \in Range(bundle') \/ Here \in skipped'
    BY <1>3, <2>1 DEF Handled, Excused
  <2>2. CASE bundle' = Append(bundle, Here)
    <3>1. bundle \in Seq(Msgs)
      BY DEF TypeOK
    <3>2. Len(bundle) + 1 \in DOMAIN bundle' /\ bundle'[Len(bundle) + 1] = Here
      BY <1>1, <2>2, <3>1
    <3>3. QED
      BY <2>1, <3>2 DEF Range
  <2>3. CASE ~ (Here \in live /\ Since(Here))
    <3>1. Excused(m)
      <4>1. CASE Here \notin live
        BY <1>1, <1>3, <4>1 DEF KeptYoung, Excused
      <4>2. CASE ~ Since(Here)
        <5>1. lastTime \in Nat
          BY DEF TypeOK
        <5>2. stamp[m] < lastTime
          BY <1>1, <1>3, <4>2, <5>1 DEF Since
        <5>3. QED
          BY <1>1, <1>2, <1>3, <5>2 DEF NoneLeftBehind, Asked, Excused
      <4>3. QED
        BY <2>3, <4>1, <4>2
    <3>2. Excused(m)'
      BY <1>1, <1>3, <3>1, ExcusedStays DEF Readings
    <3>3. QED
      BY <3>2 DEF Handled
  <2>4. QED
    BY <2>1, <2>2, <2>3, TakeMsgCases
<1>4. QED
  BY <1>1, <1>3

LEMMA StepHandledHere ==
  ASSUME TypeOK, TypeOK', Readings, KeptYoung, NoneLeftBehind, HandledHere, [Next]_vars
  PROVE  HandledHere'
<1> SUFFICES ASSUME pc' = "collect", i' <= Len(Wanted),
                    NEW p \in 1 .. Len(log'[Wanted[i']]), NEW m \in Msgs,
                    p < k', m = log'[Wanted[i']][p]
             PROVE  Handled(m)'
  BY DEF HandledHere
<1>0. Wanted \in Seq(Channels) /\ Len(Wanted) \in Nat
  BY OutboxAssumption
<1>1. i \in Nat \ {0} /\ i' \in 1 .. Len(Wanted)
  BY <1>0 DEF TypeOK
<1>2. Wanted[i'] \in Channels
  BY <1>0, <1>1
<1>3. ASSUME pc = "collect", i' = i, log'[Wanted[i]] = log[Wanted[i]], p < k
      PROVE  Handled(m)'
  <2>1. Appended(m) /\ Handled(m)
    <3>1. p \in 1 .. Len(log[Wanted[i]]) /\ m = log[Wanted[i]][p] /\ Wanted[i] \in Channels
      BY <1>2, <1>3
    <3>2. QED
      BY <1>1, <1>3, <3>1, InLog DEF HandledHere, Readings
  <2>2. ~ Receive /\ ~ Lose
    BY <1>3 DEF Receive, Lose
  <2>3. QED
    BY <2>1, <2>2, HandledStays DEF Readings
<1>4. CASE Elsewhere
  BY <1>3, <1>4 DEF Elsewhere
<1>5. ASSUME NEW x \in Msgs, Push(x)
      PROVE  Handled(m)'
  <2>1. pc = "collect" /\ i' = i /\ k' = k
    BY <1>5 DEF Push, pickup
  <2>2. Wanted[i] # Chan[x]
    BY <1>5, <2>1 DEF Push, Locked
  <2>3. QED
    BY <1>2, <1>3, <1>5, <2>1, <2>2, PushGrows
<1>6. CASE TakeMsg
  <2>1. UNCHANGED <<log, i, pc>> /\ k' = k + 1 /\ k \in Nat
    BY <1>6, TakeMsgCases DEF TypeOK
  <2>2. CASE p < k
    BY <1>3, <2>1, <2>2
  <2>3. CASE p = k
    <3>1. m = Here
      BY <2>1, <2>3 DEF Here
    <3>2. QED
      BY <1>6, <3>1, TakeHandles
  <2>4. QED
    BY <2>1, <2>2, <2>3
<1>7. CASE StartPickup \/ NextChannel
  <2>1. k' = 1
    BY <1>7 DEF StartPickup, NextChannel, Readings, Resting
  <2>2. QED
    BY <2>1
<1>8. CASE Seal \/ Receive \/ Lose
  BY <1>8 DEF Seal, Receive, Lose, EndPickup
<1>9. QED
  BY <1>4, <1>5, <1>6, <1>7, <1>8, StepKinds

LEMMA StepHandledBefore ==
  ASSUME Calm, TypeOK, TypeOK', Readings, SentThisSecond, HandledHere, HandledBefore, [Next]_vars
  PROVE  HandledBefore'
<1> SUFFICES ASSUME pc' = "collect", NEW j \in 1 .. Len(Wanted), NEW m \in Msgs,
                    j < i', Chan[m] = Wanted[j], Appended(m)', stamp'[m] < now'
             PROVE  Handled(m)'
  BY DEF HandledBefore
<1>0. Len(Wanted) \in Nat
  BY OutboxAssumption
<1>1. i \in Nat \ {0}
  <2>1. i \in 1 .. Len(Wanted) + 1
    BY DEF TypeOK
  <2>2. QED
    BY <1>0, <2>1
<1>2. ASSUME pc = "collect", j < i, Appended(m), now' = now
      PROVE  Handled(m)'
  <2>1. stamp'[m] = stamp[m] /\ ~ Receive /\ ~ Lose
    <3>1. stamp[m] # None
      <4>1. stamp[m] \in Nat
        BY <1>2, AppendedStamped DEF Readings
      <4>2. QED
        BY <4>1, OutboxAssumption
    <3>2. stamp'[m] = stamp[m]
      BY <1>2, <3>1, AppendedStays
    <3>3. ~ Receive /\ ~ Lose
      BY <1>2 DEF Receive, Lose
    <3>4. QED
      BY <3>2, <3>3
  <2>2. Handled(m)
    BY <1>2, <2>1 DEF HandledBefore
  <2>3. QED
    BY <1>2, <2>1, <2>2, HandledStays DEF Readings
<1>3. CASE Elsewhere
  <2>1. pc = "collect" /\ j < i /\ now' = now /\ Appended(m)
    BY <1>3 DEF Elsewhere, Appended, Range
  <2>2. QED
    BY <1>2, <2>1
<1>4. ASSUME NEW x \in Msgs, Push(x)
      PROVE  Handled(m)'
  <2>1. pc = "collect" /\ i' = i /\ now' = now /\ stamp' = stamp
    BY <1>4 DEF Push, pickup
  <2>2. stamp[x] = now /\ now \in Nat
    BY <1>4 DEF Push, SentThisSecond, TypeOK
  <2>3. m # x
    BY <2>1, <2>2
  <2>4. QED
    BY <1>2, <1>4, <2>1, <2>3, PushGrows
<1>5. CASE TakeMsg
  BY <1>2, <1>5, TakeMsgCases DEF Appended, Range
<1>6. CASE NextChannel
  <2>1. /\ pc = "collect" /\ i' = i + 1 /\ now' = now /\ log' = log /\ stamp' = stamp
        /\ i <= Len(Wanted) /\ k > Len(log[Wanted[i]])
    BY <1>6 DEF NextChannel, sending
  <2>2. Appended(m)
    BY <2>1 DEF Appended, Range
  <2>3. CASE j < i
    BY <1>2, <2>1, <2>2, <2>3
  <2>4. CASE j = i
    <3>1. PICK p \in 1 .. Len(log[Chan[m]]) : log[Chan[m]][p] = m
      BY <2>2, PlaceInLog
    <3>2. p < k
      <4>1. log[Chan[m]] \in Seq(Msgs)
        BY OutboxAssumption DEF TypeOK
      <4>2. QED
        BY <2>1, <2>4, <3>1, <4>1 DEF TypeOK
    <3>3. Handled(m)
      BY <2>1, <2>4, <3>1, <3>2 DEF HandledHere
    <3>4. ~ Receive /\ ~ Lose
      BY <2>1 DEF Receive, Lose
    <3>5. QED
      BY <2>2, <3>3, <3>4, HandledStays DEF Readings
  <2>5. QED
    BY <1>1, <2>1, <2>3, <2>4
<1>7. CASE StartPickup
  <2>1. i' = 1
    BY <1>7 DEF StartPickup, Readings, Resting
  <2>2. QED
    BY <2>1
<1>8. CASE Seal \/ Receive \/ Lose
  BY <1>8 DEF Seal, Receive, Lose, EndPickup
<1>9. QED
  BY <1>3, <1>4, <1>5, <1>6, <1>7, <1>8, StepKinds

LEMMA StepAnswerComplete ==
  ASSUME Calm, TypeOK, TypeOK', Readings, SentThisSecond, HandledBefore, AnswerComplete,
         [Next]_vars
  PROVE  AnswerComplete'
<1> SUFFICES ASSUME pc' = "answer", NEW m \in Msgs, Appended(m)', Asked(m), stamp'[m] < time'
             PROVE  Handled(m)'
  BY DEF AnswerComplete, Asked
<1>1. ASSUME pc = "answer", pc' = "answer", time' = time, Appended(m)
      PROVE  Handled(m)'
  <2>1. stamp'[m] = stamp[m] /\ ~ Receive /\ ~ Lose
    BY <1>1, AppendedStays, AppendedStamped, OutboxAssumption
    DEF Readings, Receive, Lose, EndPickup
  <2>2. Handled(m)
    BY <1>1, <2>1 DEF AnswerComplete
  <2>3. QED
    BY <1>1, <2>1, <2>2, HandledStays DEF Readings
<1>2. CASE Elsewhere
  <2>1. pc = "answer" /\ time' = time /\ Appended(m)
    BY <1>2 DEF Elsewhere, Appended, Range
  <2>2. QED
    BY <1>1, <2>1
<1>3. ASSUME NEW x \in Msgs, Push(x)
      PROVE  Handled(m)'
  <2>1. pc = "answer" /\ time' = time /\ stamp' = stamp
    BY <1>3 DEF Push, pickup
  <2>2. stamp[x] = now /\ now \in Nat /\ time \in Nat /\ time <= now
    BY <1>3 DEF Push, SentThisSecond, TypeOK, Readings, Clock
  <2>3. m # x
    BY <2>1, <2>2
  <2>4. QED
    BY <1>1, <1>3, <2>1, <2>3, PushGrows
<1>4. CASE Seal
  <2>1. /\ pc = "collect" /\ i > Len(Wanted) /\ time' = now /\ log' = log /\ stamp' = stamp
        /\ ~ Receive /\ ~ Lose
    BY <1>4 DEF Seal, sending, Receive, Lose
  <2>2. Appended(m)
    BY <2>1 DEF Appended, Range
  <2>3. PICK j \in 1 .. Len(Wanted) : Wanted[j] = Chan[m]
    <3>1. DOMAIN Wanted = 1 .. Len(Wanted)
      BY OutboxAssumption
    <3>2. QED
      BY <3>1 DEF Asked, Range
  <2>4. j < i
    BY <2>1, OutboxAssumption DEF TypeOK
  <2>5. Handled(m)
    BY <2>1, <2>2, <2>3, <2>4 DEF HandledBefore
  <2>6. QED
    BY <2>1, <2>2, <2>5, HandledStays DEF Readings
<1>5. CASE StartPickup \/ TakeMsg \/ NextChannel \/ Receive \/ Lose
  BY <1>5 DEF StartPickup, TakeMsg, NextChannel, Receive, Lose, EndPickup
<1>6. QED
  BY <1>2, <1>3, <1>4, <1>5, StepKinds

LEMMA StepBundleInOrder ==
  ASSUME TypeOK, TypeOK', Readings, Once, KeptYoung, NoneLeftBehind, HandledHere, BundleInOrder,
         [Next]_vars
  PROVE  BundleInOrder'
<1>1. CASE Receive \/ Lose
  BY <1>1 DEF Receive, Lose, EndPickup, BundleInOrder, Range
<1>2. CASE ~ Receive /\ ~ Lose
  <2> SUFFICES ASSUME NEW c \in Channels, NEW p \in 1 .. Len(log'[c]),
                      NEW q \in 1 .. Len(log'[c]), NEW m \in Msgs,
                      p < q, m = log'[c][p], log'[c][q] \in Range(bundle')
               PROVE  Handled(m)'
    BY DEF BundleInOrder
  <2>1. ASSUME p \in 1 .. Len(log[c]), q \in 1 .. Len(log[c]), m = log[c][p],
               log[c][q] \in Range(bundle)
        PROVE  Handled(m)'
    <3>1. Handled(m) /\ Appended(m)
      BY <2>1, InLog DEF BundleInOrder, Readings
    <3>2. QED
      BY <1>2, <3>1, HandledStays DEF Readings
  <2>2. CASE bundle' = bundle /\ log' = log
    BY <2>1, <2>2
  <2>3. ASSUME NEW x \in Msgs, Push(x)
        PROVE  Handled(m)'
    <3>1. bundle' = bundle
      BY <2>3 DEF Push, pickup
    <3>2. CASE c # Chan[x]
      BY <2>1, <2>3, <3>1, <3>2, PushGrows
    <3>3. CASE c = Chan[x]
      <4>1. x \notin Range(bundle)
        <5>1. bundle \in Seq(Msgs)
          BY DEF TypeOK
        <5>2. DOMAIN bundle = 1 .. Len(bundle)
          BY <5>1
        <5>3. \A r \in 1 .. Len(bundle) : Appended(bundle[r])
          BY <5>2 DEF Readings, Bundled, Range
        <5>4. ~ Appended(x)
          BY <2>3 DEF Push
        <5>5. QED
          BY <5>2, <5>3, <5>4 DEF Range
      <4>2. q # Len(log[c]) + 1
        <5>1. log'[c][Len(log[c]) + 1] = x
          BY <2>3, <3>3, PushGrows
        <5>2. log'[c][q] \in Range(bundle)
          BY <3>1
        <5>3. QED
          BY <4>1, <5>1, <5>2
      <4>3. /\ p \in 1 .. Len(log[c]) /\ q \in 1 .. Len(log[c])
            /\ log'[c][p] = log[c][p] /\ log'[c][q] = log[c][q]
        <5>1. /\ Len(log'[c]) = Len(log[c]) + 1 /\ Len(log[c]) \in Nat
              /\ \A r \in 1 .. Len(log[c]) : log'[c][r] = log[c][r]
          BY <2>3, <3>3, PushGrows
        <5>2. p \in 1 .. Len(log[c]) /\ q \in 1 .. Len(log[c])
          BY <4>2, <5>1
        <5>3. QED
          BY <5>1, <5>2
      <4>4. QED
        BY <2>1, <3>1, <4>3
    <3>4. QED
      BY <3>2, <3>3
  <2>4. CASE TakeMsg
    <3>1. log' = log /\ pc = "collect" /\ i <= Len(Wanted)
      BY <2>4, TakeMsgCases
    <3>2. CASE log[c][q] \in Range(bundle)
      BY <2>1, <3>1, <3>2
    <3>3. CASE log[c][q] = Here
      <4>1. c = Wanted[i] /\ k \in 1 .. Len(log[c])
        BY <2>4, <3>1, <3>3, InLog, TakeHandles, TakeMsgCases, CurrentMsg DEF Readings
      <4>2. q = k
        BY <3>1, <3>3, <4>1 DEF Once, Here
      <4>3. Handled(m) /\ Appended(m)
        BY <3>1, <4>1, <4>2, InLog DEF HandledHere, Readings
      <4>4. QED
        BY <1>2, <4>3, HandledStays DEF Readings
    <3>4. log[c][q] \in Range(bundle) \/ log[c][q] = Here
      <4>1. bundle' = bundle \/ bundle' = Append(bundle, Here)
        BY <2>4, TakeMsgCases
      <4>2. bundle \in Seq(Msgs) /\ Here \in Msgs
        BY <2>4, TakeMsgCases DEF TypeOK
      <4>3. PICK r \in DOMAIN bundle' : bundle'[r] = log[c][q]
        BY <3>1 DEF Range
      <4>4. (r \in DOMAIN bundle /\ bundle[r] = log[c][q]) \/ log[c][q] = Here
        BY <4>1, <4>2, <4>3
      <4>5. QED
        BY <4>4 DEF Range
    <3>5. QED
      BY <3>2, <3>3, <3>4
  <2>5. QED
    BY <1>2, <2>2, <2>3, <2>4, StepKinds
    DEF Elsewhere, StartPickup, NextChannel, Seal, sending
<1>3. QED
  BY <1>1, <1>2

\* What is moved past in a step was moved past before, or the answer has handled it.
LEMMA StepNoneLeftBehind ==
  ASSUME Calm, TypeOK, TypeOK', Readings, SentThisSecond, AnswerComplete, NoneLeftBehind,
         [Next]_vars
  PROVE  NoneLeftBehind'
<1> SUFFICES ASSUME NEW m \in Msgs, Appended(m)', Asked(m), stamp'[m] < lastTime'
             PROVE  Excused(m)'
  BY DEF NoneLeftBehind, Asked, Excused
<1>1. ASSUME Appended(m)
      PROVE  Excused(m)'
  <2>1. stamp'[m] = stamp[m] /\ (Excused(m) => Excused(m)')
    BY <1>1, AppendedStays, AppendedStamped, ExcusedStays, OutboxAssumption DEF Readings
  <2>2. CASE stamp[m] < lastTime
    BY <1>1, <2>1, <2>2 DEF NoneLeftBehind, Excused
  <2>3. CASE Receive /\ stamp[m] < time
    <3>1. Handled(m)
      BY <1>1, <2>3 DEF AnswerComplete, Receive
    <3>2. QED
      BY <1>1, <2>3, <3>1, HandledStays DEF Readings
  <2>4. lastTime' = lastTime \/ (Receive /\ lastTime' = time)
    BY StepKinds DEF Elsewhere, Push, StartPickup, TakeMsg, NextChannel, Seal, Receive, Lose, client
  <2>5. QED
    BY <2>1, <2>2, <2>3, <2>4
<1>2. ASSUME NEW x \in Msgs, Push(x)
      PROVE  Appended(m)
  <2>1. stamp' = stamp /\ lastTime' = lastTime
    BY <1>2 DEF Push, client
  <2>2. stamp[x] = now /\ now \in Nat /\ lastTime \in Nat /\ lastTime <= now
    BY <1>2 DEF Push, SentThisSecond, TypeOK, Readings, Clock
  <2>3. m # x
    BY <2>1, <2>2
  <2>4. QED
    BY <1>2, <2>3, PushGrows
<1>3. Appended(m)
  BY <1>2, StepKinds DEF Elsewhere, StartPickup, TakeMsg, NextChannel, Seal, Receive, Lose,
                         sending, Appended, Range
<1>4. QED
  BY <1>1, <1>3

LEMMA StepGotInOrder ==
  ASSUME TypeOK, TypeOK', Readings, Once, BundleInOrder, GotInOrder, [Next]_vars
  PROVE  GotInOrder'
<1> SUFFICES ASSUME NEW c \in Channels, NEW p \in 1 .. Len(log'[c]),
                    NEW q \in 1 .. Len(log'[c]), NEW m \in Msgs,
                    p < q, m = log'[c][p], log'[c][q] \in got'
             PROVE  Excused(m)'
  BY DEF GotInOrder
<1>1. ASSUME p \in 1 .. Len(log[c]), q \in 1 .. Len(log[c]), m = log[c][p], log[c][q] \in got
      PROVE  Excused(m)'
  <2>1. Excused(m) /\ Appended(m)
    BY <1>1, InLog DEF GotInOrder, Readings
  <2>2. QED
    BY <2>1, ExcusedStays DEF Readings
<1>2. CASE Receive
  <2>1. log' = log /\ got' = got \cup Range(bundle)
    BY <1>2 DEF Receive, sending
  <2>2. CASE log[c][q] \in Range(bundle)
    <3>1. Handled(m) /\ Appended(m)
      BY <2>1, <2>2, InLog DEF BundleInOrder, Readings
    <3>2. QED
      BY <1>2, <3>1, HandledStays DEF Readings
  <2>3. QED
    BY <1>1, <2>1, <2>2
<1>3. ASSUME NEW x \in Msgs, Push(x)
      PROVE  Excused(m)'
  <2>1. got' = got
    BY <1>3 DEF Push, client
  <2>2. CASE c # Chan[x]
    BY <1>1, <1>3, <2>1, <2>2, PushGrows
  <2>3. CASE c = Chan[x]
    <3>1. x \notin got
      BY <1>3 DEF Push, Readings, Received
    <3>2. q # Len(log[c]) + 1
      BY <1>3, <2>1, <2>3, <3>1, PushGrows
    <3>3. /\ p \in 1 .. Len(log[c]) /\ q \in 1 .. Len(log[c])
          /\ log'[c][p] = log[c][p] /\ log'[c][q] = log[c][q]
      BY <1>3, <2>3, <3>2, PushGrows
    <3>4. QED
      BY <1>1, <2>1, <3>3
  <2>4. QED
    BY <2>2, <2>3
<1>4. CASE log' = log /\ got' = got
  BY <1>1, <1>4
<1>5. QED
  BY <1>2, <1>3, <1>4, StepKinds
  DEF Elsewhere, StartPickup, TakeMsg, NextChannel, Seal, Lose, sending, client

LEMMA CompleteInvariant == Calm => (Spec => [](TypeOK /\ Readings /\ Complete))
<1> SUFFICES ASSUME Calm PROVE Spec => [](TypeOK /\ Readings /\ Complete)
  OBVIOUS
<1>1. Init => TypeOK /\ Readings /\ Complete
  BY InitTypes, InitReadings, InitComplete
<1>2. TypeOK /\ Readings /\ Complete /\ [Next]_vars => (TypeOK /\ Readings /\ Complete)'
  <2> SUFFICES ASSUME TypeOK, Readings, Complete, [Next]_vars
               PROVE  (TypeOK /\ Readings /\ Complete)'
    OBVIOUS
  <2>1. TypeOK' /\ Readings'
    BY StepTypes, StepReadings
  <2>2. Once' /\ KeptYoung' /\ SentThisSecond'
    BY <2>1, StepOnce, StepKeptYoung, StepSentThisSecond DEF Complete, Readings
  <2>3. HandledHere' /\ HandledBefore' /\ AnswerComplete' /\ BundleInOrder'
    BY <2>1, StepHandledHere, StepHandledBefore, StepAnswerComplete, StepBundleInOrder DEF Complete
  <2>4. NoneLeftBehind' /\ GotInOrder'
    BY <2>1, StepNoneLeftBehind, StepGotInOrder DEF Complete
  <2>5. QED
    BY <2>1, <2>2, <2>3, <2>4 DEF Complete
<1>3. QED
  BY <1>1, <1>2, PTL DEF Spec

\* When the clock stands still during sends and pickups, the client's last_time moves
\* past no message it has not received, but for those that were too large for a bundle or
\* grew too old, however sends, flushes, pickups and lost answers interleave.
THEOREM NoneLeft == Calm => (Spec => []NoneLeftBehind)
<1>1. Complete => NoneLeftBehind
  BY DEF Complete
<1>2. QED
  BY <1>1, CompleteInvariant, PTL

\* And of two messages of a channel the one sent first is not received later, but for the
\* same excuses.
THEOREM InOrder == Calm => (Spec => []ReceivedInOrder)
<1>1. TypeOK /\ GotInOrder => ReceivedInOrder
  <2> SUFFICES ASSUME TypeOK, GotInOrder, NEW c \in Channels,
                      NEW p \in 1 .. Len(log[c]), NEW q \in 1 .. Len(log[c]),
                      p < q, log[c][q] \in got
               PROVE  log[c][p] \in got \/ log[c][p] \in skipped \/ Aged(log[c][p])
    BY DEF ReceivedInOrder
  <2>1. log[c][p] \in Msgs
    BY MessagesHeld
  <2>2. Excused(log[c][p])
    BY <2>1 DEF GotInOrder
  <2>3. QED
    BY <2>2 DEF Excused
<1>2. QED
  BY <1>1, CompleteInvariant, PTL DEF Complete
-----------------------------------------------------------------------------
\* A timestamp once read stays, and so does the excuse of age.
LEMMA AgedStays ==
  ASSUME TypeOK, [Next]_vars, NEW m \in Msgs, stamp[m] # None
  PROVE  stamp'[m] = stamp[m] /\ (Aged(m) => Aged(m)')
<1>1. stamp'[m] = stamp[m]
  <2>1. ASSUME NEW x \in Msgs, Stamp(x)
        PROVE  stamp'[m] = stamp[m]
    BY <2>1 DEF Stamp, TypeOK
  <2>2. ASSUME NEW x \in Msgs, Push(x)
        PROVE  stamp'[m] = stamp[m]
    BY <2>2 DEF Push
  <2>3. QED
    BY <2>1, <2>2
    DEF Next, vars, Tick, StartFlush, FlushChannel, Pickup, StartPickup, TakeMsg, NextChannel,
        Seal, Receive, Lose, sending
<1>2. now' = now \/ now' = now + 1
  BY DEF Next, vars, Tick, Stamp, Push, StartFlush, FlushChannel, Pickup, StartPickup, TakeMsg,
         NextChannel, Seal, Receive, Lose
<1>3. now \in Nat /\ MaxAge \in Nat /\ stamp[m] \in Nat
  BY OutboxAssumption DEF TypeOK
<1>4. QED
  BY <1>1, <1>2, <1>3 DEF Aged

\* What a step does not do to the logs and the client, it does not do to what is sent,
\* what has arrived and what is passed; and what is excused only grows.
LEMMA OnlyExcuses ==
  ASSUME TypeOK, Logs, [Next]_vars, UNCHANGED <<log, lastTime, got>>
  PROVE  Promise!Excuse
<1>1. \A m \in Msgs : Appended(m)' = Appended(m)
  BY DEF Appended, Range
<1>2. \A m \in Msgs : Appended(m) => stamp'[m] = stamp[m]
  BY AgedStays, AppendedStamped, OutboxAssumption
<1>3. skipped \subseteq skipped'
  BY DEF Next, vars, Tick, Stamp, Push, StartFlush, FlushChannel, Pickup, StartPickup, TakeMsg,
         NextChannel, Seal, Receive, Lose, client
<1>4. \A m \in Msgs : stamp[m] # None /\ Aged(m) => stamp'[m] # None /\ Aged(m)'
  BY AgedStays
<1>5. \A m \in Msgs : Asked(m)' = Asked(m)
  BY DEF Asked, Range
<1>6. QED
  BY <1>1, <1>2, <1>3, <1>4, <1>5 DEF Promise!Excuse

\* A message appended is sent: when the clock waits for sends it has this second, which
\* the client's last_time has not passed.
LEMMA PushSends ==
  ASSUME TypeOK, Readings, SentThisSecond, NEW x \in Msgs, Push(x)
  PROVE  Promise!Send(x)
<1>1. ~ Appended(x) /\ UNCHANGED <<now, stamp, lastTime, got, skipped>>
  BY DEF Push, client
<1>2. \A m \in Msgs : Appended(m)' <=> Appended(m) \/ m = x
  BY PushGrows
<1>3. ~ (stamp[x] < lastTime)
  <2>1. stamp[x] = now
    BY <1>1 DEF SentThisSecond, Push
  <2>2. lastTime <= now /\ lastTime \in Nat /\ now \in Nat
    BY OutboxAssumption DEF TypeOK, Readings, Clock
  <2>3. QED
    BY <2>1, <2>2
<1>4. \A m \in Msgs : Asked(m)' = Asked(m) /\ Aged(m)' = Aged(m)
  BY <1>1 DEF Asked, Aged, Range
<1>5. QED
  BY <1>1, <1>2, <1>3, <1>4 DEF Promise!Send

\* The client that gets a bundle is delivered to.
LEMMA ReceiveDelivers ==
  ASSUME TypeOK, Readings, Readings', NoneLeftBehind', Receive
  PROVE  Promise!Deliver
<1>1. UNCHANGED <<now, stamp, log, skipped>> /\ got \subseteq got'
  BY DEF Receive, sending
<1>2. \A m \in Msgs : Appended(m)' = Appended(m) /\ Asked(m)' = Asked(m) /\ Aged(m)' = Aged(m)
  BY <1>1 DEF Appended, Asked, Aged, Range
<1>3. ASSUME NEW m \in Msgs, Appended(m), Asked(m), stamp[m] < lastTime'
      PROVE  m \in got' \/ m \in skipped \/ (stamp[m] # None /\ Aged(m))
  <2>1. m \in got' \/ m \in skipped' \/ Aged(m)'
    BY <1>1, <1>2, <1>3 DEF NoneLeftBehind
  <2>2. stamp[m] # None
    BY <1>3, AppendedStamped, OutboxAssumption DEF Readings
  <2>3. QED
    BY <1>1, <1>2, <2>1, <2>2
<1>4. got' \subseteq {m \in Msgs : Appended(m)}
  <2>1. got' \subseteq Msgs
    <3>1. Range(bundle) \subseteq Msgs
      BY MessagesHeld DEF Range, TypeOK
    <3>2. QED
      BY <3>1 DEF Receive, TypeOK
  <2>2. \A m \in got' : Appended(m)'
    BY DEF Readings, Received
  <2>3. QED
    BY <1>2, <2>1, <2>2
<1>5. QED
  BY <1>1, <1>2, <1>3, <1>4 DEF Promise!Deliver

\* When the clock stands still during sends and pickups, the outbox and the client's pickups
\* keep the promise of a store and forward: every step sends, delivers or excuses, or does
\* nothing of that.
THEOREM PickupsKeepPromise == Calm => (Spec => PickupsForward)
<1> SUFFICES ASSUME Calm PROVE Spec => Promise!Spec
  BY DEF PickupsForward
<1>1. Init => Promise!Init
  <2> SUFFICES ASSUME Init PROVE Promise!Init
    OBVIOUS
  <2>1. \A m \in Msgs : ~ Appended(m) /\ stamp[m] = None
    <3> SUFFICES ASSUME NEW m \in Msgs PROVE ~ Appended(m) /\ stamp[m] = None
      OBVIOUS
    <3>1. stamp[m] = None /\ log[Chan[m]] = <<>>
      BY OutboxAssumption DEF Init
    <3>2. QED
      BY <3>1 DEF Appended, Range
  <2>2. QED
    BY <2>1 DEF Init, Promise!Init
<1>2. ASSUME TypeOK, Readings, Complete, (Readings /\ Complete)', [Next]_vars
      PROVE  [Promise!Next]_(Promise!vars)
  <2>1. CASE \E x \in Msgs : Push(x)
    BY <1>2, <2>1, PushSends DEF Complete, Promise!Next
  <2>2. CASE Receive
    BY <1>2, <2>2, ReceiveDelivers DEF Complete, Promise!Next
  <2>3. CASE UNCHANGED <<log, lastTime, got>>
    BY <1>2, <2>3, OnlyExcuses DEF Readings, Promise!Next
  <2>4. QED
    BY <1>2, <2>1, <2>2, <2>3
    DEF Next, vars, Tick, Stamp, StartFlush, FlushChannel, Pickup, StartPickup, TakeMsg,
        NextChannel, Seal, Lose, sending, client
<1>3. QED
  BY <1>1, <1>2, CompleteInvariant, PTL DEF Spec, Promise!Spec
=============================================================================
