-------------------------- MODULE SessionOutputProofs --------------------------
(***************************************************************************)
(* The output of a session, for every number of slots, every limit, frame  *)
(* size and burst and every way the socket cuts the frames: Sound is       *)
(* inductive; Paced and StateDelivered follow, and that SessionOutput      *)
(* implements Delivery.                                                    *)
(***************************************************************************)
EXTENDS SessionOutput, WellFoundedInduction, SequenceTheorems, TLAPS

\* The queues, and the receiving end.
Output == [partial : Frame \cup {NoFrame}, offset : 0 .. FrameBytes, reliable : Seq(Frame),
           messages : Seq(Frame), latest : [Slot -> Frame \cup {NoFrame}], tokens : Int]
Client == [frame : Frame \cup {NoFrame}, bytes : Nat, garbled : BOOLEAN,
           reliable : Nat, message : Nat, shown : [Slot -> Nat]]

\* Everything keeps its type.
Typed ==
    /\ out \in Output /\ client \in Client
    /\ want_write \in BOOLEAN /\ flushing \in BOOLEAN /\ open \in BOOLEAN
    /\ state \in [Slot -> Nat] /\ sent \in [Slot -> Nat]
    /\ queued \in [reliable : Nat, message : Nat]
    /\ ticks \in Nat /\ changes \in Nat

\* The frame in progress was begun on a bucket that was not empty, and has cost what
\* was written of it; the last one has cost a frame.
Thrifty(o) ==
    /\ o.tokens <= Burst
    /\ IF o.partial = NoFrame THEN o.offset = 0 /\ o.tokens >= 1 - FrameBytes
                              ELSE o.offset < FrameBytes /\ o.tokens >= 1 - o.offset

\* The client has of the frame in progress what was written of it.
Aligned(o, c) ==
    /\ ~c.garbled /\ c.bytes = o.offset
    /\ c.frame = IF o.offset = 0 THEN NoFrame ELSE o.partial

\* 1 if the frame in progress is a reliable one.
Underway(o) == IF o.partial # NoFrame /\ o.partial.queue = "reliable" THEN 1 ELSE 0

\* The reliable frames from the one after those that arrived to number n are in
\* the queue, in order, but for the one in progress.
InSequence(o, c, n) ==
    /\ n = c.reliable + Underway(o) + Len(o.reliable)
    /\ Underway(o) = 1 => o.partial.n = c.reliable + 1
    /\ \A i \in 1 .. Len(o.reliable) : o.reliable[i] = Reliable(c.reliable + Underway(o) + i)

\* The messages that wait are newer than any that arrived or is in progress, no
\* newer than number n, and in order; there are not too many.
Rising(o, c, n) ==
    /\ Len(o.messages) <= MESSAGE_QUEUE_LIMIT /\ c.message <= n
    /\ \A i \in 1 .. Len(o.messages) :
         /\ o.messages[i].queue = "message"
         /\ o.messages[i].n \in c.message + 1 .. n
         /\ \A j \in 1 .. i - 1 : o.messages[j].n < o.messages[i].n
    /\ o.partial # NoFrame /\ o.partial.queue = "message" =>
         /\ o.partial.n \in c.message + 1 .. n
         /\ \A i \in 1 .. Len(o.messages) : o.partial.n < o.messages[i].n

\* What waits of a slot is no older than what is in progress, that no older than
\* what is shown, and none is newer than the state v.
Fresh(o, c, v) ==
    \A s \in Slot :
      /\ c.shown[s] <= v[s]
      /\ o.partial # NoFrame /\ o.partial.queue = s => o.partial.n \in c.shown[s] .. v[s]
      /\ o.latest[s] # NoFrame =>
           /\ o.latest[s].queue = s
           /\ o.latest[s].n \in c.shown[s] .. v[s]
           /\ o.partial # NoFrame /\ o.partial.queue = s => o.partial.n <= o.latest[s].n

\* All of it, of queues o and client c, when q frames were queued and v is shown.
Good(o, c, q, v) ==
    /\ o \in Output /\ c \in Client
    /\ Thrifty(o) /\ Aligned(o, c)
    /\ InSequence(o, c, q.reliable) /\ Rising(o, c, q.message) /\ Fresh(o, c, v)

\* What the client will show of slot s when all that waits of it is written.
Coming(o, c, s) ==
    IF o.latest[s] # NoFrame THEN o.latest[s].n
    ELSE IF o.partial # NoFrame /\ o.partial.queue = s THEN o.partial.n ELSE c.shown[s]

\* The inductive invariant: the above, and before the first change of map the session
\* remembers exactly what is on its way.
Sound ==
    /\ Typed /\ Good(out, client, queued, state)
    /\ changes = 0 => \A s \in Slot : Coming(out, client, s) = sent[s]

-----------------------------------------------------------------------------
(* What each operation on the queues keeps.                                 *)

\* The constants, and the frames of the three kinds.
LEMMA Frames ==
    /\ World \in Slot /\ MESSAGE_QUEUE_LIMIT \in Nat \ {0} /\ FrameBytes \in Nat \ {0}
    /\ Burst \in Nat \ {0} /\ "reliable" \notin Slot /\ "message" \notin Slot
    /\ NoFrame \notin Frame
    /\ \A n \in Nat : /\ Reliable(n) \in Frame /\ Reliable(n).queue = "reliable" /\ Reliable(n).n = n
                     /\ Message(n) \in Frame /\ Message(n).queue = "message" /\ Message(n).n = n
    /\ \A f \in Frame : f # NoFrame /\ f.n \in Nat /\ f.queue \in Slot \cup {"reliable", "message"}
  BY OutputAssumption, NoFrameAssumption DEF Frame, Reliable, Message

\* Only the reliable frames become others.
LEMMA ReliableQueued ==
    ASSUME NEW o \in Output, NEW f \in Frame, NEW p, p = queue_reliable(o, f)
    PROVE  /\ p \in Output /\ p.reliable = Append(o.reliable, f) /\ p.partial = o.partial
           /\ p.offset = o.offset /\ p.tokens = o.tokens /\ p.messages = o.messages
           /\ p.latest = o.latest
<1> DEFINE a == Append(o.reliable, f)
<1>1. a \in Seq(Frame)
  BY AppendProperties DEF Output
<1>2. p = [o EXCEPT !.reliable = a]
  BY DEF queue_reliable
<1>3. /\ p.reliable = a
      /\ p \in Output /\ p.partial = o.partial /\ p.offset = o.offset /\ p.tokens = o.tokens
      /\ p.messages = o.messages /\ p.latest = o.latest
  <2> HIDE DEF a
  <2> QED BY <1>1, <1>2 DEF Output
<1> QED BY <1>3

\* Only the messages become others.
LEMMA MessageQueued ==
    ASSUME NEW o \in Output, NEW k \in Seq(Frame), NEW f \in Frame,
           NEW p, p = [o EXCEPT !.messages = Append(k, f)]
    PROVE  /\ p \in Output /\ p.messages = Append(k, f) /\ p.partial = o.partial
           /\ p.offset = o.offset /\ p.tokens = o.tokens /\ p.reliable = o.reliable
           /\ p.latest = o.latest
<1> DEFINE a == Append(k, f)
<1>1. a \in Seq(Frame)
  BY AppendProperties
<1>2. p = [o EXCEPT !.messages = a]
  OBVIOUS
<1>3. /\ p.messages = a
      /\ p \in Output /\ p.partial = o.partial /\ p.offset = o.offset /\ p.tokens = o.tokens
      /\ p.reliable = o.reliable /\ p.latest = o.latest
  <2>1. o \in Output
    OBVIOUS
  <2> HIDE DEF a
  <2>2. /\ p.messages = a
        /\ p.partial = o.partial /\ p.offset = o.offset /\ p.tokens = o.tokens
        /\ p.reliable = o.reliable /\ p.latest = o.latest
    BY <1>2, <2>1 DEF Output
  <2>3. p \in Output
    BY <1>1, <1>2, <2>1 DEF Output
  <2> QED BY <2>2, <2>3
<1> QED BY <1>3

\* A reliable frame more.
LEMMA QueueReliable ==
    ASSUME NEW o, NEW c, NEW q \in [reliable : Nat, message : Nat], NEW v, Good(o, c, q, v),
           NEW p, p = queue_reliable(o, Reliable(q.reliable + 1)),
           NEW r \in [reliable : Nat, message : Nat], r.reliable = q.reliable + 1, r.message = q.message
    PROVE  Good(p, c, r, v) /\ \A s \in Slot : Coming(p, c, s) = Coming(o, c, s)
<1> DEFINE f == Reliable(q.reliable + 1)
<1>1. f \in Frame /\ o.reliable \in Seq(Frame) /\ o \in Output /\ c \in Client
  BY Frames DEF Good, Output
<1>2. /\ p \in Output /\ p.reliable = Append(o.reliable, f)
      /\ p.partial = o.partial /\ p.offset = o.offset /\ p.tokens = o.tokens
      /\ p.messages = o.messages /\ p.latest = o.latest
  BY <1>1, ReliableQueued
<1>3. Thrifty(p) /\ Aligned(p, c) /\ Rising(p, c, r.message) /\ Fresh(p, c, v)
  BY <1>2 DEF Good, Thrifty, Aligned, Rising, Fresh
<1>4. InSequence(p, c, r.reliable)
  <2>1. Len(p.reliable) = Len(o.reliable) + 1 /\ Len(o.reliable) \in Nat
    BY <1>1, <1>2, AppendProperties, LenProperties
  <2>2. Underway(p) = Underway(o) /\ Underway(o) \in {0, 1}
    BY <1>2 DEF Underway
  <2>3. c.reliable \in Nat /\ q.reliable = c.reliable + Underway(o) + Len(o.reliable)
    BY <1>1 DEF Client, Good, InSequence
  <2>4. ASSUME NEW i \in 1 .. Len(p.reliable)
        PROVE  p.reliable[i] = Reliable(c.reliable + Underway(p) + i)
    <3>1. CASE i = Len(o.reliable) + 1
      <4>1. p.reliable[i] = f
        BY <3>1, <1>1, <1>2, AppendProperties
      <4>2. q.reliable + 1 = c.reliable + Underway(p) + i
        BY <3>1, <2>1, <2>2, <2>3
      <4> QED BY <4>1, <4>2
    <3>2. CASE i \in 1 .. Len(o.reliable)
      <4>1. p.reliable[i] = o.reliable[i]
        BY <3>2, <1>1, <1>2, AppendProperties
      <4>2. o.reliable[i] = Reliable(c.reliable + Underway(o) + i)
        BY <3>2 DEF Good, InSequence
      <4> QED BY <4>1, <4>2, <2>2
    <3> QED BY <3>1, <3>2, <2>1
  <2>5. Underway(p) = 1 => p.partial.n = c.reliable + 1
    BY <1>2, <2>2 DEF Good, InSequence
  <2>6. r.reliable = c.reliable + Underway(p) + Len(p.reliable)
    BY <2>1, <2>2, <2>3
  <2> QED BY <2>4, <2>5, <2>6 DEF InSequence
<1> QED BY <1>1, <1>2, <1>3, <1>4 DEF Good, Coming

\* A message more: the oldest goes if there are too many.
LEMMA QueueMessage ==
    ASSUME NEW o, NEW c, NEW q \in [reliable : Nat, message : Nat], NEW v, Good(o, c, q, v),
           NEW p, p = queue_message(o, Message(q.message + 1)),
           NEW r \in [reliable : Nat, message : Nat], r.reliable = q.reliable, r.message = q.message + 1
    PROVE  Good(p, c, r, v) /\ \A s \in Slot : Coming(p, c, s) = Coming(o, c, s)
<1> DEFINE f == Message(q.message + 1)
           kept == IF Len(o.messages) >= MESSAGE_QUEUE_LIMIT THEN Tail(o.messages) ELSE o.messages
<1>1. f \in Frame /\ o.messages \in Seq(Frame) /\ o \in Output /\ c \in Client
  BY Frames DEF Good, Output
<1>a. /\ kept \in Seq(Frame) /\ Len(kept) \in Nat /\ Len(kept) < MESSAGE_QUEUE_LIMIT
      /\ \E d \in {0, 1} : \A i \in 1 .. Len(kept) :
           i + d \in 1 .. Len(o.messages) /\ kept[i] = o.messages[i + d]
  <2>1. Len(o.messages) \in Nat /\ Len(o.messages) <= MESSAGE_QUEUE_LIMIT
    BY <1>1, LenProperties DEF Good, Rising
  <2>2. CASE Len(o.messages) >= MESSAGE_QUEUE_LIMIT
    <3>1. o.messages # <<>> /\ kept = Tail(o.messages)
      BY <2>1, <2>2, <1>1, Frames, EmptySeq
    <3>2. /\ kept \in Seq(Frame) /\ Len(kept) = Len(o.messages) - 1
          /\ \A i \in 1 .. Len(kept) : kept[i] = o.messages[i + 1]
      <4>1. /\ Tail(o.messages) \in Seq(Frame) /\ Len(Tail(o.messages)) = Len(o.messages) - 1
            /\ \A i \in 1 .. Len(Tail(o.messages)) : Tail(o.messages)[i] = o.messages[i + 1]
        BY <3>1, <1>1, HeadTailProperties
      <4> HIDE DEF kept
      <4> QED BY <4>1, <3>1
    <3> HIDE DEF kept
    <3>3. \A i \in 1 .. Len(kept) : i + 1 \in 1 .. Len(o.messages) /\ kept[i] = o.messages[i + 1]
      BY <3>2, <2>1
    <3> QED BY <2>1, <2>2, <3>2, <3>3, Frames
  <2>3. CASE ~(Len(o.messages) >= MESSAGE_QUEUE_LIMIT)
    <3>1. kept = o.messages
      BY <2>3
    <3> QED BY <3>1, <2>1, <2>3, <1>1, Frames
  <2> QED BY <2>2, <2>3
<1>2. kept \in Seq(Frame) /\ Len(kept) \in Nat /\ Len(kept) < MESSAGE_QUEUE_LIMIT
  BY <1>a
<1>3. /\ p \in Output /\ p.messages = Append(kept, f)
      /\ p.partial = o.partial /\ p.offset = o.offset /\ p.tokens = o.tokens
      /\ p.reliable = o.reliable /\ p.latest = o.latest
  <2>1. p = [o EXCEPT !.messages = Append(kept, f)]
    BY DEF queue_message
  <2> HIDE DEF kept
  <2> QED BY <1>1, <1>2, <2>1, MessageQueued
<1> HIDE DEF kept
<1>4. Thrifty(p) /\ Aligned(p, c) /\ InSequence(p, c, r.reliable) /\ Fresh(p, c, v)
  BY <1>3 DEF Good, Thrifty, Aligned, InSequence, Fresh, Underway
<1>5. Rising(p, c, r.message)
  <2>1. /\ Len(p.messages) = Len(kept) + 1
        /\ p.messages[Len(kept) + 1] = f
        /\ \A i \in 1 .. Len(kept) : p.messages[i] = kept[i]
    BY <1>1, <1>2, <1>3, AppendProperties
  <2>2. c.message \in Nat /\ c.message <= q.message /\ q.message \in Nat
    BY <1>1 DEF Client, Good, Rising
  <2>3. \A k \in 1 .. Len(o.messages) :
           /\ o.messages[k].queue = "message" /\ o.messages[k].n \in c.message + 1 .. q.message
           /\ \A l \in 1 .. k - 1 : o.messages[l].n < o.messages[k].n
    BY DEF Good, Rising
  <2>4. /\ \A i \in 1 .. Len(kept) :
              /\ kept[i].queue = "message" /\ kept[i].n \in c.message + 1 .. q.message
              /\ kept[i].n \in Int
        /\ \A i \in 1 .. Len(kept) : \A j \in 1 .. i - 1 : kept[j].n < kept[i].n
    <3>1. PICK d \in {0, 1} : \A i \in 1 .. Len(kept) :
             i + d \in 1 .. Len(o.messages) /\ kept[i] = o.messages[i + d]
      BY <1>a
    <3>2. ASSUME NEW i \in 1 .. Len(kept), NEW j \in 1 .. i - 1
          PROVE  kept[j].n < kept[i].n
      <4>1. j \in 1 .. Len(kept) /\ j + d \in 1 .. (i + d) - 1
        BY <1>2
      <4> QED BY <3>1, <4>1, <2>3
    <3>3. ASSUME NEW i \in 1 .. Len(kept)
          PROVE  /\ kept[i].queue = "message" /\ kept[i].n \in c.message + 1 .. q.message
                 /\ kept[i].n \in Int
      <4>1. PICK j \in 1 .. Len(o.messages) : kept[i] = o.messages[j]
        BY <3>1
      <4>2. o.messages[j].queue = "message" /\ o.messages[j].n \in c.message + 1 .. q.message
        BY <4>1, <2>3
      <4> QED BY <4>1, <4>2, <2>2
    <3> QED BY <3>2, <3>3
  <2>5. f.queue = "message" /\ f.n = q.message + 1
    BY Frames, <2>2
  <2> HIDE DEF f
  <2>6. ASSUME NEW i \in 1 .. Len(p.messages)
        PROVE  /\ p.messages[i].queue = "message" /\ p.messages[i].n \in c.message + 1 .. r.message
               /\ \A j \in 1 .. i - 1 : p.messages[j].n < p.messages[i].n
    <3>1. CASE i \in 1 .. Len(kept)
      <4>1. \A j \in 1 .. i : p.messages[j] = kept[j]
        BY <3>1, <2>1, <1>2
      <4>3. \A j \in 1 .. i - 1 : kept[j].n < kept[i].n
        BY <3>1, <2>4
      <4>4. p.messages[i] = kept[i] /\ \A j \in 1 .. i - 1 : p.messages[j] = kept[j]
        BY <3>1, <4>1
      <4>2. kept[i].n \in c.message + 1 .. r.message
        BY <3>1, <2>4, <2>2
      <4> QED BY <3>1, <4>2, <4>3, <4>4, <2>4
    <3>2. CASE i = Len(kept) + 1
      <4>1. \A j \in 1 .. i - 1 : p.messages[j] = kept[j] /\ j \in 1 .. Len(kept)
        BY <3>2, <2>1, <1>2
      <4>2. p.messages[i] = f /\ f.n = r.message /\ f.n \in c.message + 1 .. r.message
        BY <3>2, <2>1, <2>2, <2>5
      <4>3. \A j \in 1 .. Len(kept) : kept[j].n < f.n
        BY <2>2, <2>4, <2>5
      <4> QED BY <4>1, <4>2, <4>3, <2>5
    <3> QED BY <3>1, <3>2, <2>1, <1>2
  <2>7. ASSUME p.partial # NoFrame, p.partial.queue = "message"
        PROVE  /\ p.partial.n \in c.message + 1 .. r.message
               /\ \A i \in 1 .. Len(p.messages) : p.partial.n < p.messages[i].n
    <3>1. /\ o.partial.n \in c.message + 1 .. q.message
          /\ \A k \in 1 .. Len(o.messages) : o.partial.n < o.messages[k].n
      BY <2>7, <1>3 DEF Good, Rising
    <3>2. ASSUME NEW i \in 1 .. Len(p.messages)
          PROVE  p.partial.n < p.messages[i].n
      <4>1. CASE i \in 1 .. Len(kept)
        <5>1. p.messages[i] = kept[i] /\ \E k \in 1 .. Len(o.messages) : kept[i] = o.messages[k]
          BY <4>1, <2>1, <1>a
        <5> QED BY <5>1, <3>1, <1>3
      <4>2. CASE i = Len(kept) + 1
        BY <4>2, <3>1, <2>1, <2>2, <2>5, <1>3
      <4> QED BY <4>1, <4>2, <2>1, <1>2
    <3> QED BY <3>1, <3>2, <1>3, <2>2
  <2>8. Len(p.messages) <= MESSAGE_QUEUE_LIMIT /\ c.message <= r.message
    BY <2>1, <2>2, <1>2, Frames
  <2> QED BY <2>6, <2>7, <2>8 DEF Rising
<1> QED BY <1>1, <1>3, <1>4, <1>5 DEF Good, Coming

\* The latest slots become others: cleared, or what slots of them show is the state.
LEMMA LatestQueued ==
    ASSUME NEW o, NEW c, NEW q, Good(o, c, q, state), state \in [Slot -> Nat], NEW slots \in SUBSET Slot,
           NEW p, p = queue_latest(o, slots)
    PROVE  /\ Good(p, c, q, state)
           /\ \A s \in Slot : Coming(p, c, s) = IF s \in slots THEN state[s] ELSE Coming(o, c, s)
<1> DEFINE a == [s \in Slot |-> IF s \in slots THEN Latest(s) ELSE o.latest[s]]
<1>1. \A s \in Slot : Latest(s) \in Frame /\ Latest(s).queue = s /\ Latest(s).n = state[s]
  BY DEF Latest, Frame
<1>2. a \in [Slot -> Frame \cup {NoFrame}] /\ p = [o EXCEPT !.latest = a]
  BY <1>1 DEF Good, Output, queue_latest
<1>3. \A s \in Slot : a[s] = IF s \in slots THEN Latest(s) ELSE o.latest[s]
  OBVIOUS
<1> HIDE DEF a
<1>4. /\ p \in Output /\ p.latest = a /\ p.partial = o.partial /\ p.offset = o.offset
      /\ p.tokens = o.tokens /\ p.reliable = o.reliable /\ p.messages = o.messages
  BY <1>2 DEF Good, Output
<1>5. Thrifty(p) /\ Aligned(p, c) /\ InSequence(p, c, q.reliable) /\ Rising(p, c, q.message)
  BY <1>4 DEF Good, Thrifty, Aligned, InSequence, Rising, Underway
<1>6. ASSUME NEW s \in Slot
      PROVE  /\ c.shown[s] <= state[s]
             /\ p.partial # NoFrame /\ p.partial.queue = s => p.partial.n \in c.shown[s] .. state[s]
             /\ p.latest[s] # NoFrame =>
                  /\ p.latest[s].queue = s
                  /\ p.latest[s].n \in c.shown[s] .. state[s]
                  /\ p.partial # NoFrame /\ p.partial.queue = s => p.partial.n <= p.latest[s].n
  <2>1. c.shown[s] \in Nat /\ state[s] \in Nat /\ c.shown[s] <= state[s]
    BY DEF Good, Client, Fresh
  <2>2. CASE s \in slots
    BY <2>1, <2>2, <1>1, <1>3, <1>4 DEF Good, Fresh
  <2>3. CASE s \notin slots
    BY <2>3, <1>3, <1>4 DEF Good, Fresh
  <2> QED BY <2>2, <2>3
<1>7. Good(p, c, q, state)
  BY <1>4, <1>5, <1>6 DEF Good, Fresh
<1>8. ASSUME NEW s \in Slot
      PROVE  Coming(p, c, s) = IF s \in slots THEN state[s] ELSE Coming(o, c, s)
  BY <1>1, <1>3, <1>4, Frames DEF Coming
<1> QED BY <1>7, <1>8

\* Nothing waits of any slot.
LEMMA LatestCleared ==
    ASSUME NEW o, NEW c, NEW q, NEW v, Good(o, c, q, v), NEW p, p = clear_latest(o)
    PROVE  Good(p, c, q, v)
<1> DEFINE a == [s \in Slot |-> NoFrame]
<1>1. a \in [Slot -> Frame \cup {NoFrame}] /\ p = [o EXCEPT !.latest = a]
  BY DEF clear_latest
<1>2. \A s \in Slot : a[s] = NoFrame
  OBVIOUS
<1> HIDE DEF a
<1>3. /\ p \in Output /\ p.latest = a /\ p.partial = o.partial /\ p.offset = o.offset
      /\ p.tokens = o.tokens /\ p.reliable = o.reliable /\ p.messages = o.messages
  BY <1>1 DEF Good, Output
<1>4. Thrifty(p) /\ Aligned(p, c) /\ InSequence(p, c, q.reliable) /\ Rising(p, c, q.message)
  BY <1>3 DEF Good, Thrifty, Aligned, InSequence, Rising, Underway
<1>5. Fresh(p, c, v)
  BY <1>2, <1>3 DEF Good, Fresh
<1> QED BY <1>3, <1>4, <1>5 DEF Good

\* The bucket holds another amount, that does not fall below what is owed.
LEMMA OtherTokens ==
    ASSUME NEW o, NEW c, NEW q, NEW v, Good(o, c, q, v), NEW n \in Int, n <= Burst,
           n >= o.tokens \/ n >= 1, NEW p, p = [o EXCEPT !.tokens = n]
    PROVE  Good(p, c, q, v) /\ \A s \in Slot : Coming(p, c, s) = Coming(o, c, s)
<1>1. /\ p \in Output /\ p.latest = o.latest /\ p.partial = o.partial /\ p.offset = o.offset
      /\ p.tokens = n /\ p.reliable = o.reliable /\ p.messages = o.messages
  BY DEF Good, Output
<1>2. Aligned(p, c) /\ InSequence(p, c, q.reliable) /\ Rising(p, c, q.message) /\ Fresh(p, c, v)
  BY <1>1 DEF Good, Aligned, InSequence, Rising, Fresh, Underway
<1>3. o.offset \in Nat /\ o.tokens \in Int
  BY Frames DEF Good, Output
<1>4. Thrifty(p)
  BY <1>1, <1>3, Frames DEF Good, Thrifty
<1> QED BY <1>1, <1>2, <1>4 DEF Good, Coming

\* Time passes.
LEMMA Refilled ==
    ASSUME NEW o, NEW c, NEW q, NEW v, Good(o, c, q, v), NEW gain \in 0 .. Burst
    PROVE  /\ Good(refill(o, gain), c, q, v)
           /\ \A s \in Slot : Coming(refill(o, gain), c, s) = Coming(o, c, s)
<1> DEFINE n == IF o.tokens + gain < Burst THEN o.tokens + gain ELSE Burst
<1>1. o.tokens \in Int /\ o.tokens <= Burst
  BY DEF Good, Output, Thrifty
<1>2. n \in Int /\ n <= Burst /\ n >= o.tokens
  BY <1>1, Frames
<1>3. refill(o, gain) = [o EXCEPT !.tokens = n]
  BY DEF refill
<1> HIDE DEF n
<1> QED BY <1>2, <1>3, OtherTokens

\* The first slot that holds a frame is one.
LEMMA FirstSlotHolds ==
    ASSUME NEW o, \E s \in Slot : o.latest[s] # NoFrame
    PROVE  FirstSlot(o) \in Slot /\ o.latest[FirstSlot(o)] # NoFrame
<1> DEFINE T == {i \in DOMAIN LATEST_ORDER : o.latest[LATEST_ORDER[i]] # NoFrame}
           First(i) == /\ o.latest[LATEST_ORDER[i]] # NoFrame
                       /\ \A j \in 1 .. i - 1 : o.latest[LATEST_ORDER[j]] = NoFrame
<1>1. DOMAIN LATEST_ORDER = 1 .. Len(LATEST_ORDER) /\ Len(LATEST_ORDER) \in Nat
  BY OutputAssumption, LenProperties
<1>2. T \subseteq Nat /\ T # {}
  BY <1>1 DEF Slot
<1>3. PICK i \in T : \A j \in T : ~(<<j, i>> \in OpToRel(<, Nat))
  <2> HIDE DEF T
  <2> QED BY <1>2, WFMin, NatLessThanWellFounded
<1>4. \A j \in T : ~(j < i)
  BY <1>2, <1>3 DEF OpToRel
<1>5. i \in DOMAIN LATEST_ORDER /\ First(i)
  <2>1. ASSUME NEW j \in 1 .. i - 1
        PROVE  o.latest[LATEST_ORDER[j]] = NoFrame
    BY <1>1, <1>4
  <2> QED BY <2>1
<1>6. \E k \in DOMAIN LATEST_ORDER : First(k)
  BY <1>5
<1> DEFINE k == CHOOSE k \in DOMAIN LATEST_ORDER : First(k)
<1>7. k \in DOMAIN LATEST_ORDER /\ First(k)
  <2> HIDE DEF First
  <2> QED BY <1>6
<1>8. FirstSlot(o) = LATEST_ORDER[k]
  BY DEF FirstSlot
<1> HIDE DEF k
<1> QED BY <1>7, <1>8 DEF Slot

\* A frame is begun only on a bucket that is not empty.
LEMMA FrameBegun ==
    ASSUME NEW o, NEW c, NEW q, NEW v, Good(o, c, q, v), o.partial = NoFrame, pending(o), o.tokens > 0,
           NEW p, p = next_frame(o)
    PROVE  /\ Good(p, c, q, v) /\ p.partial \in Frame
           /\ \A s \in Slot : Coming(p, c, s) = Coming(o, c, s)
<1>1. o \in Output /\ c \in Client /\ o.offset = 0 /\ Underway(o) = 0
  BY DEF Good, Thrifty, Underway
<1>2. /\ o.reliable \in Seq(Frame) /\ o.messages \in Seq(Frame) /\ o.tokens \in Int
      /\ o.latest \in [Slot -> Frame \cup {NoFrame}]
  BY <1>1 DEF Output
<1>3. c.reliable \in Nat /\ c.message \in Nat
  BY <1>1 DEF Client
<1>z. 0 \in 0 .. FrameBytes
  BY Frames
<1>4. CASE o.reliable # <<>>
  <2> DEFINE f == Head(o.reliable)
             a == Tail(o.reliable)
  <2>1. /\ f \in Frame /\ a \in Seq(Frame) /\ f = o.reliable[1] /\ 1 \in 1 .. Len(o.reliable)
        /\ Len(a) = Len(o.reliable) - 1 /\ Len(o.reliable) \in Nat
        /\ \A i \in 1 .. Len(a) : a[i] = o.reliable[i + 1] /\ i + 1 \in 1 .. Len(o.reliable)
    BY <1>2, <1>4, HeadTailProperties, LenProperties, EmptySeq
  <2>2. p = [o EXCEPT !.reliable = a, !.partial = f, !.offset = 0]
    BY <1>4 DEF next_frame
  <2>t. f \in Frame /\ a \in Seq(Frame)
    BY <2>1
  <2> HIDE DEF a, f
  <2>3. /\ p \in Output /\ p.reliable = a /\ p.partial = f /\ p.offset = 0
        /\ p.tokens = o.tokens /\ p.messages = o.messages /\ p.latest = o.latest
    BY <1>1, <1>z, <2>t, <2>2 DEF Output
  <2>4. f = Reliable(c.reliable + 1) /\ f.queue = "reliable" /\ f.n = c.reliable + 1 /\ f # NoFrame
    BY <1>1, <1>3, <2>1, Frames DEF Good, InSequence
  <2>5. Underway(p) = 1
    BY <2>3, <2>4 DEF Underway
  <2>6. Thrifty(p) /\ Aligned(p, c)
    BY <1>1, <1>2, <2>3, <2>4, Frames DEF Good, Thrifty, Aligned
  <2>7. InSequence(p, c, q.reliable)
    <3>1. \A i \in 1 .. Len(o.reliable) : o.reliable[i] = Reliable(c.reliable + i)
      BY <1>1, <1>3 DEF Good, InSequence
    <3>2. q.reliable = c.reliable + Len(o.reliable)
      BY <1>1, <1>3, <2>1 DEF Good, InSequence
    <3>3. ASSUME NEW i \in 1 .. Len(a)
          PROVE  a[i] = Reliable(c.reliable + 1 + i)
      <4>3. a[i] = o.reliable[i + 1] /\ i + 1 \in 1 .. Len(o.reliable)
        BY <2>1
      <4>1. a[i] = Reliable(c.reliable + (i + 1))
        BY <3>1, <4>3
      <4>2. c.reliable + (i + 1) = c.reliable + 1 + i
        BY <1>3
      <4> QED BY <4>1, <4>2
    <3>4. q.reliable = c.reliable + 1 + Len(a)
      BY <1>3, <2>1, <3>2
    <3> QED BY <2>3, <2>4, <2>5, <3>3, <3>4 DEF InSequence
  <2>8. Rising(p, c, q.message)
    BY <2>3, <2>4 DEF Good, Rising
  <2>9. Fresh(p, c, v)
    BY <1>1, <2>3, <2>4, Frames DEF Good, Fresh
  <2>10. ASSUME NEW s \in Slot
         PROVE  Coming(p, c, s) = Coming(o, c, s)
    BY <2>3, <2>4, Frames DEF Coming
  <2> QED BY <1>1, <2>1, <2>3, <2>6, <2>7, <2>8, <2>9, <2>10 DEF Good
<1>5. CASE o.reliable = <<>> /\ \E s \in Slot : o.latest[s] # NoFrame
  <2> DEFINE s == FirstSlot(o)
             a == [o.latest EXCEPT ![s] = NoFrame]
             f == o.latest[s]
  <2>1. s \in Slot /\ f # NoFrame
    BY <1>5, FirstSlotHolds
  <2>2. f \in Frame /\ f.queue = s /\ f.n \in c.shown[s] .. v[s]
    BY <1>2, <2>1 DEF Good, Fresh
  <2>3. p = [o EXCEPT !.latest[s] = NoFrame, !.partial = f, !.offset = 0]
    BY <1>5 DEF next_frame
  <2> HIDE DEF s
  <2>4. /\ a \in [Slot -> Frame \cup {NoFrame}] /\ a[s] = NoFrame
        /\ \A u \in Slot \ {s} : a[u] = o.latest[u]
    BY <1>2, <2>1
  <2> HIDE DEF f
  <2>5. p = [o EXCEPT !.latest = a, !.partial = f, !.offset = 0]
    BY <1>1, <2>3 DEF Output
  <2>t. f \in Frame /\ a \in [Slot -> Frame \cup {NoFrame}]
    BY <2>2, <2>4
  <2> HIDE DEF a
  <2>6. /\ p \in Output /\ p.reliable = o.reliable /\ p.partial = f /\ p.offset = 0
        /\ p.tokens = o.tokens /\ p.messages = o.messages /\ p.latest = a
    BY <1>1, <1>z, <2>t, <2>5 DEF Output
  <2>7. f # NoFrame /\ f.queue # "reliable" /\ f.queue # "message" /\ Underway(p) = 0
    BY <2>1, <2>2, <2>6, Frames DEF Underway
  <2>8. Thrifty(p) /\ Aligned(p, c)
    BY <1>1, <1>2, <2>6, <2>7, Frames DEF Good, Thrifty, Aligned
  <2>9. InSequence(p, c, q.reliable) /\ Rising(p, c, q.message)
    BY <1>1, <2>6, <2>7 DEF Good, InSequence, Rising
  <2>10. Fresh(p, c, v)
    BY <1>1, <2>2, <2>4, <2>6 DEF Good, Fresh
  <2>11. ASSUME NEW u \in Slot
         PROVE  Coming(p, c, u) = Coming(o, c, u)
    <3>1. CASE u = s
      BY <3>1, <2>1, <2>2, <2>4, <2>6, <2>7 DEF Coming, f
    <3>2. CASE u # s
      BY <3>2, <2>2, <2>4, <2>6, <2>7 DEF Coming
    <3> QED BY <3>1, <3>2
  <2> QED BY <1>1, <2>2, <2>6, <2>8, <2>9, <2>10, <2>11 DEF Good
<1>6. CASE o.reliable = <<>> /\ ~\E s \in Slot : o.latest[s] # NoFrame
  <2> DEFINE f == Head(o.messages)
             a == Tail(o.messages)
  <2>1. o.messages # <<>>
    BY <1>6 DEF pending
  <2>2. /\ f \in Frame /\ a \in Seq(Frame) /\ f = o.messages[1] /\ 1 \in 1 .. Len(o.messages)
        /\ Len(a) = Len(o.messages) - 1 /\ Len(o.messages) \in Nat
        /\ \A i \in 1 .. Len(a) : a[i] = o.messages[i + 1] /\ i + 1 \in 1 .. Len(o.messages)
    BY <1>2, <2>1, HeadTailProperties, LenProperties, EmptySeq
  <2>3. p = [o EXCEPT !.messages = a, !.partial = f, !.offset = 0]
    BY <1>6 DEF next_frame
  <2>t. f \in Frame /\ a \in Seq(Frame)
    BY <2>2
  <2> HIDE DEF a, f
  <2>4. /\ p \in Output /\ p.reliable = o.reliable /\ p.partial = f /\ p.offset = 0
        /\ p.tokens = o.tokens /\ p.messages = a /\ p.latest = o.latest
    BY <1>1, <1>z, <2>t, <2>3 DEF Output
  <2>5. /\ Len(o.messages) <= MESSAGE_QUEUE_LIMIT /\ c.message <= q.message
        /\ \A i \in 1 .. Len(o.messages) :
             /\ o.messages[i].queue = "message"
             /\ o.messages[i].n \in c.message + 1 .. q.message
        /\ \A i \in 1 .. Len(o.messages) : \A j \in 1 .. i - 1 : o.messages[j].n < o.messages[i].n
    BY DEF Good, Rising
  <2>6. f.queue = "message" /\ f.n \in c.message + 1 .. q.message /\ f # NoFrame
    BY <2>2, <2>5, Frames
  <2>7. Underway(p) = 0
    BY <2>4, <2>6 DEF Underway
  <2>8. Thrifty(p) /\ Aligned(p, c)
    BY <1>1, <1>2, <2>4, <2>6, Frames DEF Good, Thrifty, Aligned
  <2>9. InSequence(p, c, q.reliable)
    BY <1>1, <2>4, <2>7 DEF Good, InSequence
  <2>10. Rising(p, c, q.message)
    <3>1. ASSUME NEW i \in 1 .. Len(a)
          PROVE  /\ a[i].queue = "message" /\ a[i].n \in c.message + 1 .. q.message
                 /\ f.n < a[i].n
                 /\ \A j \in 1 .. i - 1 : a[j].n < a[i].n
      <4>1. /\ a[i] = o.messages[i + 1] /\ i + 1 \in 1 .. Len(o.messages)
            /\ 1 \in 1 .. (i + 1) - 1
        BY <2>2
      <4>2. ASSUME NEW j \in 1 .. i - 1
            PROVE  a[j].n < a[i].n
        <5>1. a[j] = o.messages[j + 1] /\ j + 1 \in 1 .. (i + 1) - 1
          BY <2>2
        <5> QED BY <4>1, <5>1, <2>5
      <4> QED BY <4>1, <4>2, <2>2, <2>5
    <3>2. Len(a) <= MESSAGE_QUEUE_LIMIT
      BY <2>2, <2>5, Frames
    <3> QED BY <3>1, <3>2, <2>4, <2>5, <2>6 DEF Rising
  <2>11. Fresh(p, c, v)
    BY <1>1, <2>4, <2>6, Frames DEF Good, Fresh
  <2>12. ASSUME NEW s \in Slot
         PROVE  Coming(p, c, s) = Coming(o, c, s)
    BY <2>4, <2>6, Frames DEF Coming
  <2> QED BY <1>1, <2>2, <2>4, <2>8, <2>9, <2>10, <2>11, <2>12 DEF Good
<1> QED BY <1>4, <1>5, <1>6

\* What of a client may change when bytes arrive: nothing that Delivery sees, or the
\* next reliable frame, a newer message, or a newer state of a slot.
Receives(c, d, q, v) ==
    \/ d.reliable = c.reliable /\ d.message = c.message /\ d.shown = c.shown
    \/ /\ c.reliable < q.reliable /\ d.reliable = c.reliable + 1
       /\ d.message = c.message /\ d.shown = c.shown
    \/ /\ d.message \in c.message + 1 .. q.message
       /\ d.reliable = c.reliable /\ d.shown = c.shown
    \/ /\ \E s \in Slot : \E n \in c.shown[s] + 1 .. v[s] : d.shown = [c.shown EXCEPT ![s] = n]
       /\ d.reliable = c.reliable /\ d.message = c.message

\* The queues once the frame in progress is written up to byte number to.
Written(o, to) ==
    LET o2 == [o EXCEPT !.tokens = @ - (to - o.offset)]
    IN  IF to < FrameBytes THEN [o2 EXCEPT !.offset = to]
                           ELSE [o2 EXCEPT !.partial = NoFrame, !.offset = 0]

\* Some of the frame in progress is written, or the rest of it.
LEMMA FrameSent ==
    ASSUME NEW o, NEW c, NEW q \in [reliable : Nat, message : Nat], NEW v, Good(o, c, q, v),
           v \in [Slot -> Nat], o.partial \in Frame, NEW to \in o.offset + 1 .. FrameBytes,
           NEW d, d = Arrive(c, o.partial, o.offset, to), NEW p, p = Written(o, to)
    PROVE  /\ Good(p, d, q, v) /\ Receives(c, d, q, v)
           /\ \A s \in Slot : Coming(p, d, s) = Coming(o, c, s)
<1> DEFINE f == o.partial
           n == o.tokens - (to - o.offset)
<1>0. p = IF to < FrameBytes
          THEN [[o EXCEPT !.tokens = n] EXCEPT !.offset = to]
          ELSE [[o EXCEPT !.tokens = n] EXCEPT !.partial = NoFrame, !.offset = 0]
  BY DEF Written
<1>1. o \in Output /\ c \in Client /\ f \in Frame /\ f # NoFrame
  BY Frames DEF Good
<1>2. o.offset \in Nat /\ o.tokens \in Int /\ to \in Nat /\ to <= FrameBytes /\ to > o.offset
  BY <1>1, Frames DEF Output
<1>3. n \in Int /\ n <= Burst /\ n >= 1 - to /\ o.offset < FrameBytes
  BY <1>1, <1>2, Frames DEF Good, Thrifty
<1> HIDE DEF n
<1>4. c.bytes = o.offset /\ c.frame = (IF o.offset = 0 THEN NoFrame ELSE f) /\ ~c.garbled
  BY DEF Good, Aligned
<1>5. CASE to < FrameBytes
  <2>1. to \in 0 .. FrameBytes
    BY <1>2, <1>5, Frames
  <2>2. /\ p \in Output /\ p.reliable = o.reliable /\ p.partial = f /\ p.offset = to
        /\ p.tokens = n /\ p.messages = o.messages /\ p.latest = o.latest
    BY <1>0, <1>1, <1>3, <1>5, <2>1 DEF Output
  <2>3. d = [c EXCEPT !.frame = f, !.bytes = to]
    BY <1>2, <1>4, <1>5, Frames DEF Arrive
  <2>4. /\ d \in Client /\ d.frame = f /\ d.bytes = to /\ d.garbled = c.garbled
        /\ d.reliable = c.reliable /\ d.message = c.message /\ d.shown = c.shown
    BY <1>1, <1>2, <2>3 DEF Client
  <2>5. Thrifty(p) /\ Aligned(p, d)
    BY <1>1, <1>2, <1>3, <1>4, <1>5, <2>2, <2>4 DEF Thrifty, Aligned
  <2>6. InSequence(p, d, q.reliable) /\ Rising(p, d, q.message) /\ Fresh(p, d, v)
    BY <2>2, <2>4 DEF Good, InSequence, Rising, Fresh, Underway
  <2> QED BY <2>2, <2>4, <2>5, <2>6 DEF Good, Receives, Coming
<1>6. CASE ~(to < FrameBytes)
  <2> DEFINE whole == [c EXCEPT !.frame = NoFrame, !.bytes = 0]
  <2>1. to = FrameBytes /\ 0 \in 0 .. FrameBytes
    BY <1>2, <1>6, Frames
  <2>2. /\ p \in Output /\ p.reliable = o.reliable /\ p.partial = NoFrame /\ p.offset = 0
        /\ p.tokens = n /\ p.messages = o.messages /\ p.latest = o.latest
    BY <1>0, <1>1, <1>3, <1>6, <2>1 DEF Output
  <2>3. d = Taken(whole, f)
    BY <1>2, <1>4, <2>1, Frames DEF Arrive
  <2>4. /\ whole \in Client /\ whole.frame = NoFrame /\ whole.bytes = 0 /\ whole.garbled = c.garbled
        /\ whole.reliable = c.reliable /\ whole.message = c.message /\ whole.shown = c.shown
    BY <1>1 DEF Client
  <2> HIDE DEF whole
  <2>5. Thrifty(p)
    BY <1>3, <2>1, <2>2 DEF Thrifty
  <2>6. Underway(p) = 0
    BY <2>2 DEF Underway
  <2>7. /\ c.reliable \in Nat /\ c.message \in Nat /\ c.shown \in [Slot -> Nat]
        /\ f.n \in Nat /\ o.reliable \in Seq(Frame) /\ Len(o.reliable) \in Nat
    BY <1>1, Frames, LenProperties DEF Client, Output
  <2>8. CASE f.queue = "reliable"
    <3>1. Underway(o) = 1
      BY <1>1, <2>8 DEF Underway
    <3>2. f.n = c.reliable + 1 /\ c.reliable < q.reliable
      BY <2>7, <3>1 DEF Good, InSequence
    <3>3. d = [whole EXCEPT !.reliable = f.n]
      BY <2>3, <2>8 DEF Taken
    <3>4. /\ d \in Client /\ d.frame = NoFrame /\ d.bytes = 0 /\ d.garbled = c.garbled
          /\ d.reliable = c.reliable + 1 /\ d.message = c.message /\ d.shown = c.shown
      BY <2>4, <2>7, <3>2, <3>3 DEF Client
    <3>5. Aligned(p, d)
      BY <1>4, <2>2, <3>4 DEF Aligned
    <3>6. InSequence(p, d, q.reliable)
      <4>1. \A i \in 1 .. Len(o.reliable) : o.reliable[i] = Reliable(c.reliable + 1 + i)
        BY <3>1 DEF Good, InSequence
      <4>2. q.reliable = c.reliable + 1 + Len(o.reliable)
        BY <3>1 DEF Good, InSequence
      <4>3. \A i \in 1 .. Len(o.reliable) : c.reliable + 1 + 0 + i = c.reliable + 1 + i
        BY <2>7
      <4>4. c.reliable + 1 + 0 = c.reliable + 1
        BY <2>7
      <4> QED BY <4>1, <4>2, <4>3, <4>4, <2>2, <2>6, <3>4 DEF InSequence
    <3>7. Rising(p, d, q.message)
      BY <2>2, <3>4 DEF Good, Rising
    <3>8. Fresh(p, d, v)
      BY <2>2, <3>4 DEF Good, Fresh
    <3>9. Receives(c, d, q, v)
      BY <3>2, <3>4 DEF Receives
    <3>10. ASSUME NEW s \in Slot
           PROVE  Coming(p, d, s) = Coming(o, c, s)
      BY <2>2, <2>8, <3>4, Frames DEF Coming
    <3> QED BY <2>2, <2>5, <3>4, <3>5, <3>6, <3>7, <3>8, <3>9, <3>10 DEF Good
  <2>9. CASE f.queue = "message"
    <3>1. Underway(o) = 0
      BY <1>1, <2>9 DEF Underway
    <3>2. /\ f.n \in c.message + 1 .. q.message
          /\ \A i \in 1 .. Len(o.messages) : f.n < o.messages[i].n
      BY <1>1, <2>9 DEF Good, Rising
    <3>3. d = [whole EXCEPT !.message = f.n]
      BY <2>3, <2>9 DEF Taken
    <3>4. /\ d \in Client /\ d.frame = NoFrame /\ d.bytes = 0 /\ d.garbled = c.garbled
          /\ d.reliable = c.reliable /\ d.message = f.n /\ d.shown = c.shown
      BY <2>4, <2>7, <3>3 DEF Client
    <3>5. Aligned(p, d)
      BY <1>4, <2>2, <3>4 DEF Aligned
    <3>6. InSequence(p, d, q.reliable)
      BY <2>2, <2>6, <3>1, <3>4 DEF Good, InSequence
    <3>7. Rising(p, d, q.message)
      <4>1. ASSUME NEW i \in 1 .. Len(o.messages)
            PROVE  /\ o.messages[i].queue = "message" /\ o.messages[i].n \in f.n + 1 .. q.message
                   /\ \A j \in 1 .. i - 1 : o.messages[j].n < o.messages[i].n
        <5>1. /\ o.messages[i].queue = "message" /\ o.messages[i].n \in c.message + 1 .. q.message
              /\ \A j \in 1 .. i - 1 : o.messages[j].n < o.messages[i].n
          BY DEF Good, Rising
        <5> QED BY <5>1, <3>2, <2>7
      <4>2. Len(o.messages) <= MESSAGE_QUEUE_LIMIT /\ f.n <= q.message
        BY <3>2, <2>7 DEF Good, Rising
      <4> QED BY <4>1, <4>2, <2>2, <3>4 DEF Rising
    <3>8. Fresh(p, d, v)
      BY <2>2, <3>4 DEF Good, Fresh
    <3>9. Receives(c, d, q, v)
      BY <3>2, <3>4 DEF Receives
    <3>10. ASSUME NEW s \in Slot
           PROVE  Coming(p, d, s) = Coming(o, c, s)
      BY <2>2, <2>9, <3>4, Frames DEF Coming
    <3> QED BY <2>2, <2>5, <3>4, <3>5, <3>6, <3>7, <3>8, <3>9, <3>10 DEF Good
  <2>10. CASE f.queue \in Slot
    <3> DEFINE s == f.queue
               a == [c.shown EXCEPT ![s] = f.n]
    <3>1. Underway(o) = 0 /\ s # "reliable" /\ s # "message"
      BY <2>10, Frames DEF Underway
    <3>2. f.n \in c.shown[s] .. v[s]
      BY <1>1, <2>10 DEF Good, Fresh
    <3>3. d = [whole EXCEPT !.shown[s] = f.n]
      BY <2>3, <3>1 DEF Taken
    <3>4. /\ a \in [Slot -> Nat] /\ a[s] = f.n /\ \A u \in Slot \ {s} : a[u] = c.shown[u]
      BY <2>7, <2>10
    <3>5. d = [whole EXCEPT !.shown = a]
      BY <2>4, <3>3 DEF Client
    <3>6. a = c.shown \/ \E m \in c.shown[s] + 1 .. v[s] : a = [c.shown EXCEPT ![s] = m]
      <4>1. CASE f.n = c.shown[s]
        BY <4>1, <2>7
      <4>2. CASE f.n # c.shown[s]
        <5>1. c.shown[s] \in Nat /\ v[s] \in Nat
          BY <2>7, <2>10
        <5>2. f.n \in c.shown[s] + 1 .. v[s]
          BY <4>2, <3>2, <2>7, <5>1
        <5> QED BY <5>2
      <4> QED BY <4>1, <4>2
    <3> HIDE DEF a
    <3>7. /\ d \in Client /\ d.frame = NoFrame /\ d.bytes = 0 /\ d.garbled = c.garbled
          /\ d.reliable = c.reliable /\ d.message = c.message /\ d.shown = a
      BY <2>4, <2>7, <3>4, <3>5 DEF Client
    <3>8. Aligned(p, d)
      BY <1>4, <2>2, <3>7 DEF Aligned
    <3>9. InSequence(p, d, q.reliable)
      BY <2>2, <2>6, <3>1, <3>7 DEF Good, InSequence
    <3>10. Rising(p, d, q.message)
      BY <2>2, <3>7 DEF Good, Rising
    <3>11. Fresh(p, d, v)
      <4>1. ASSUME NEW u \in Slot
            PROVE  /\ d.shown[u] <= v[u]
                   /\ p.latest[u] # NoFrame =>
                        p.latest[u].queue = u /\ p.latest[u].n \in d.shown[u] .. v[u]
        <5>1. c.shown[u] \in Nat /\ v[u] \in Nat
          BY <2>7
        <5>2. /\ c.shown[u] <= v[u]
              /\ o.latest[u] # NoFrame =>
                   /\ o.latest[u].queue = u /\ o.latest[u].n \in c.shown[u] .. v[u]
                   /\ f.queue = u => f.n <= o.latest[u].n
          BY <1>1 DEF Good, Fresh
        <5>3. CASE u = s
          BY <5>1, <5>2, <5>3, <2>2, <2>7, <3>2, <3>4, <3>7
        <5>4. CASE u # s
          BY <5>2, <5>4, <2>2, <3>4, <3>7
        <5> QED BY <5>3, <5>4
      <4> QED BY <4>1, <2>2 DEF Fresh
    <3>12. Receives(c, d, q, v)
      BY <2>10, <3>6, <3>7 DEF Receives
    <3>13. ASSUME NEW u \in Slot
           PROVE  Coming(p, d, u) = Coming(o, c, u)
      BY <1>1, <2>2, <3>4, <3>7 DEF Coming
    <3> QED BY <2>2, <2>5, <3>7, <3>8, <3>9, <3>10, <3>11, <3>12, <3>13 DEF Good
  <2> QED BY <1>1, <2>8, <2>9, <2>10, Frames
<1> QED BY <1>5, <1>6

-----------------------------------------------------------------------------
(* What each action keeps, and what Delivery sees of it.                    *)

\* The write interest is a Boolean.
LEMMA Interest == ASSUME NEW o PROVE pending(o) \in BOOLEAN
  BY DEF pending

\* A step that keeps Good, and what is coming, keeps Sound.
LEMMA StaysSound ==
    ASSUME Sound, Good(out', client', queued', state'),
           \A s \in Slot : Coming(out', client', s) = Coming(out, client, s),
           want_write' \in BOOLEAN, flushing' \in BOOLEAN, open' \in BOOLEAN,
           state' \in [Slot -> Nat], queued' \in [reliable : Nat, message : Nat],
           sent' = sent, ticks' = ticks, changes' = changes
    PROVE  Sound'
<1>1. Typed'
  BY DEF Sound, Typed, Good
<1> QED BY <1>1 DEF Sound

\* Delivery sees nothing.
LEMMA Unseen ==
    ASSUME UNCHANGED <<client, queued, state>>
    PROVE  [Promise!Next]_(Promise!vars)
  BY DEF Promise!vars

\* The loop stops.
LEMMA EndFlushKeeps ==
    ASSUME Sound, EndFlush
    PROVE  Sound' /\ [Promise!Next]_(Promise!vars)
<1>1. want_write' \in BOOLEAN
  BY Interest DEF EndFlush, _update_write_interest
<1> QED BY <1>1, StaysSound, Unseen DEF EndFlush, gameVars, Sound, Typed, Good

\* The frame in progress: it may have to be begun first.
LEMMA CurrentGood ==
    ASSUME Sound, ~Stopped
    PROVE  /\ Good(Current, client, queued, state) /\ Current.partial \in Frame
           /\ \A s \in Slot : Coming(Current, client, s) = Coming(out, client, s)
<1>1. Good(out, client, queued, state) /\ out.tokens \in Int /\ out.partial \in Frame \cup {NoFrame}
  BY DEF Sound, Typed, Output
<1>2. CASE out.partial = NoFrame
  <2>1. out.tokens > 0 /\ pending(out)
    BY <1>1, <1>2 DEF Stopped
  <2>2. Current = next_frame(out)
    BY <1>2 DEF Current
  <2> QED BY <1>1, <1>2, <2>1, <2>2, FrameBegun
<1>3. CASE out.partial # NoFrame
  BY <1>1, <1>3 DEF Current
<1> QED BY <1>2, <1>3

\* What is received is what Delivery lets arrive.
LEMMA Arrives ==
    ASSUME Typed, Typed', Receives(client, client', queued, state), UNCHANGED <<queued, state>>
    PROVE  [Promise!Next]_(Promise!vars)
<1> DEFINE got == [reliable |-> client.reliable, message |-> client.message, shown |-> client.shown]
<1>1. got' = [reliable |-> client'.reliable, message |-> client'.message, shown |-> client'.shown]
  OBVIOUS
<1>2. CASE client'.reliable = client.reliable /\ client'.message = client.message /\ client'.shown = client.shown
  BY <1>2 DEF Promise!vars
<1>3. CASE /\ client.reliable < queued.reliable /\ client'.reliable = client.reliable + 1
           /\ client'.message = client.message /\ client'.shown = client.shown
  <2>1. got' = [got EXCEPT !.reliable = @ + 1]
    BY <1>3
  <2> QED BY <1>3, <2>1 DEF Promise!Next, Promise!ReliableArrives
<1>4. CASE /\ client'.message \in client.message + 1 .. queued.message
           /\ client'.reliable = client.reliable /\ client'.shown = client.shown
  <2>1. got' = [got EXCEPT !.message = client'.message]
    BY <1>4
  <2> QED BY <1>4, <2>1 DEF Promise!Next, Promise!MessageArrives
<1>5. CASE /\ \E s \in Slot : \E n \in client.shown[s] + 1 .. state[s] :
                 client'.shown = [client.shown EXCEPT ![s] = n]
           /\ client'.reliable = client.reliable /\ client'.message = client.message
  <2>1. PICK s \in Slot : \E n \in client.shown[s] + 1 .. state[s] :
                 client'.shown = [client.shown EXCEPT ![s] = n]
    BY <1>5
  <2>2. PICK n \in client.shown[s] + 1 .. state[s] : client'.shown = [client.shown EXCEPT ![s] = n]
    BY <2>1
  <2>3. got' = [got EXCEPT !.shown[s] = n]
    BY <1>5, <2>2
  <2>4. Promise!StateArrives(s)
    BY <2>2, <2>3 DEF Promise!StateArrives
  <2> QED BY <2>4 DEF Promise!Next
<1> QED BY <1>2, <1>3, <1>4, <1>5 DEF Receives

\* send() takes some of the frame.
LEMMA SendKeeps ==
    ASSUME Sound, Send
    PROVE  Sound' /\ [Promise!Next]_(Promise!vars)
<1> DEFINE o == Current
<1>1. /\ Good(o, client, queued, state) /\ o.partial \in Frame
      /\ \A s \in Slot : Coming(o, client, s) = Coming(out, client, s)
  BY CurrentGood DEF Send
<1>2. PICK to \in o.offset + 1 .. FrameBytes :
        LET o2 == [o EXCEPT !.tokens = @ - (to - o.offset)]
        IN  /\ client' = Arrive(client, o.partial, o.offset, to)
            /\ IF to < FrameBytes
               THEN /\ out' = [o2 EXCEPT !.offset = to]
                    /\ flushing' = FALSE
                    /\ _update_write_interest
               ELSE /\ out' = [o2 EXCEPT !.partial = NoFrame, !.offset = 0]
                    /\ UNCHANGED <<flushing, want_write>>
  BY DEF Send
<1>3. UNCHANGED <<open, state, sent, queued, ticks, changes>>
  BY DEF Send, gameVars
<1> HIDE DEF o
<1>4. out' = Written(o, to)
  BY <1>2 DEF Written
<1>5. want_write' \in BOOLEAN /\ flushing' \in BOOLEAN
  BY <1>2, Interest DEF _update_write_interest, Sound, Typed
<1>6. client' = Arrive(client, o.partial, o.offset, to)
  BY <1>2
<1>7. state \in [Slot -> Nat] /\ queued \in [reliable : Nat, message : Nat] /\ open \in BOOLEAN
  BY DEF Sound, Typed
<1>8. /\ Good(out', client', queued, state) /\ Receives(client, client', queued, state)
      /\ \A s \in Slot : Coming(out', client', s) = Coming(o, client, s)
  BY <1>1, <1>4, <1>6, <1>7, FrameSent
<1>9. Sound'
  BY <1>1, <1>3, <1>5, <1>7, <1>8, StaysSound
<1> QED BY <1>3, <1>8, <1>9, Arrives DEF Sound

\* The socket takes nothing: the frame stays in progress.
LEMMA BlockKeeps ==
    ASSUME Sound, Block
    PROVE  Sound' /\ [Promise!Next]_(Promise!vars)
<1>1. want_write' \in BOOLEAN
  BY Interest DEF Block, _update_write_interest
<1>2. /\ flushing' = FALSE /\ out' = Current /\ ~Stopped
      /\ UNCHANGED <<open, client, state, sent, queued, ticks, changes>>
  BY DEF Block, gameVars
<1> QED BY <1>1, <1>2, CurrentGood, StaysSound, Unseen DEF Sound, Typed

\* The session is dropped.
LEMMA SendFailsKeeps ==
    ASSUME Sound, SendFails
    PROVE  Sound' /\ [Promise!Next]_(Promise!vars)
  BY StaysSound, Unseen DEF SendFails, gameVars, Sound, Typed

\* A flush begins.
LEMMA WriteReadyKeeps ==
    ASSUME Sound, NEW gain \in 0 .. Burst, WriteReady(gain)
    PROVE  Sound' /\ [Promise!Next]_(Promise!vars)
<1>1. /\ out' = refill(out, gain) /\ flushing' = TRUE
      /\ UNCHANGED <<want_write, open, client, state, sent, queued, ticks, changes>>
  BY DEF WriteReady, BeginFlush, gameVars
<1> QED BY <1>1, Refilled, StaysSound, Unseen DEF Sound, Typed

\* More was queued.
LEMMA Queues ==
    ASSUME UNCHANGED <<client, state>>, queued' \in [reliable : Nat, message : Nat],
           queued'.reliable >= queued.reliable, queued'.message >= queued.message
    PROVE  [Promise!Next]_(Promise!vars)
  BY DEF Promise!Next, Promise!Queue

\* WELCOME and WINDOW are queued.
LEMMA BootstrapKeeps ==
    ASSUME Sound, Bootstrap
    PROVE  Sound' /\ [Promise!Next]_(Promise!vars)
<1> DEFINE n == queued.reliable
           q1 == [queued EXCEPT !.reliable = n + 1]
           q2 == [queued EXCEPT !.reliable = n + 2]
           o1 == queue_reliable(out, Reliable(n + 1))
           o2 == queue_reliable(o1, Reliable(n + 2))
           t == IF o2.tokens < 1 THEN o2.tokens ELSE 1
<1>1. queued \in [reliable : Nat, message : Nat] /\ n \in Nat /\ Good(out, client, queued, state)
  BY DEF Sound, Typed
<1>2. /\ q1 \in [reliable : Nat, message : Nat] /\ q1.reliable = n + 1 /\ q1.message = queued.message
      /\ q2 \in [reliable : Nat, message : Nat] /\ q2.reliable = n + 2 /\ q2.message = queued.message
  BY <1>1
<1>3. /\ out' = [o2 EXCEPT !.tokens = t] /\ queued' = q2 /\ _update_write_interest
      /\ UNCHANGED <<flushing, open, state, sent, client, ticks, changes>>
  BY <1>1 DEF Bootstrap
<1> HIDE DEF q1, q2
<1>4. Good(o1, client, q1, state) /\ \A s \in Slot : Coming(o1, client, s) = Coming(out, client, s)
  BY <1>1, <1>2, QueueReliable
<1>5. Reliable(q1.reliable + 1) = Reliable(n + 2) /\ q2.reliable = q1.reliable + 1
  BY <1>1, <1>2
<1> HIDE DEF o1
<1>6. Good(o2, client, q2, state) /\ \A s \in Slot : Coming(o2, client, s) = Coming(o1, client, s)
  BY <1>2, <1>4, <1>5, QueueReliable
<1> HIDE DEF o2
<1>7. t \in Int /\ t <= Burst /\ (t >= o2.tokens \/ t >= 1)
  BY <1>6, Frames DEF Good, Output, Thrifty
<1> HIDE DEF t
<1>8. /\ Good(out', client, q2, state)
      /\ \A s \in Slot : Coming(out', client, s) = Coming(o2, client, s)
  BY <1>3, <1>6, <1>7, OtherTokens
<1>9. want_write' \in BOOLEAN
  BY <1>3, Interest DEF _update_write_interest
<1>10. Sound'
  BY <1>2, <1>3, <1>4, <1>6, <1>8, <1>9, StaysSound DEF Sound, Typed
<1>11. queued'.reliable >= queued.reliable /\ queued'.message >= queued.message
  BY <1>1, <1>2, <1>3
<1> QED BY <1>2, <1>3, <1>10, <1>11, Queues

\* A handler answers.
LEMMA AnswerKeeps ==
    ASSUME Sound, Answer
    PROVE  Sound' /\ [Promise!Next]_(Promise!vars)
<1> DEFINE q == [queued EXCEPT !.reliable = queued.reliable + 1]
<1>1. queued \in [reliable : Nat, message : Nat] /\ Good(out, client, queued, state)
  BY DEF Sound, Typed
<1>2. /\ q \in [reliable : Nat, message : Nat] /\ q.reliable = queued.reliable + 1
      /\ q.message = queued.message
  BY <1>1
<1>3. /\ out' = queue_reliable(out, Reliable(queued.reliable + 1)) /\ queued' = q
      /\ _update_write_interest
      /\ UNCHANGED <<flushing, open, state, sent, client, ticks, changes>>
  BY DEF Answer
<1> HIDE DEF q
<1>4. Good(out', client, q, state) /\ \A s \in Slot : Coming(out', client, s) = Coming(out, client, s)
  BY <1>1, <1>2, <1>3, QueueReliable
<1>5. want_write' \in BOOLEAN
  BY <1>3, Interest DEF _update_write_interest
<1>6. Sound'
  BY <1>2, <1>3, <1>4, <1>5, StaysSound DEF Sound, Typed
<1>7. queued'.reliable >= queued.reliable /\ queued'.message >= queued.message
  BY <1>1, <1>2, <1>3
<1> QED BY <1>2, <1>3, <1>6, <1>7, Queues

\* The game moves on: what waits is older by one version.
LEMMA StateChangesKeeps ==
    ASSUME Sound, NEW s \in Slot, StateChanges(s)
    PROVE  Sound' /\ [Promise!Next]_(Promise!vars)
<1>1. /\ state' = [state EXCEPT ![s] = @ + 1]
      /\ UNCHANGED <<out, want_write, flushing, open, sent, queued, client, ticks, changes>>
  BY DEF StateChanges
<1>2. /\ state \in [Slot -> Nat] /\ state' \in [Slot -> Nat]
      /\ \A u \in Slot : state'[u] >= state[u]
  BY <1>1 DEF Sound, Typed
<1>3. Fresh(out, client, state')
  <2>1. ASSUME NEW u \in Slot
        PROVE  /\ client.shown[u] <= state'[u]
               /\ \A n \in client.shown[u] .. state[u] : n \in client.shown[u] .. state'[u]
    <3>1. client.shown[u] \in Nat /\ client.shown[u] <= state[u]
      BY DEF Sound, Good, Client, Fresh
    <3>2. state[u] \in Nat /\ state'[u] \in Nat /\ state'[u] >= state[u]
      BY <1>2
    <3> QED BY <3>1, <3>2
  <2>2. Fresh(out, client, state)
    BY DEF Sound, Good
  <2> HIDE DEF Sound, StateChanges
  <2> QED BY <2>1, <2>2 DEF Fresh
<1>4. Good(out', client', queued', state')
  BY <1>1, <1>3 DEF Sound, Good
<1>5. Sound'
  BY <1>1, <1>2, <1>4, StaysSound DEF Sound, Typed
<1>6. Promise!Change(s)
  BY <1>1 DEF Promise!Change
<1> QED BY <1>5, <1>6 DEF Promise!Next

\* The rest of a step that queues: the queues are Good and no later than before.
LEMMA RowQueued ==
    ASSUME NEW o, NEW q \in [reliable : Nat, message : Nat], Good(o, client, q, state),
           NEW row \in BOOLEAN, NEW p, p = IF row THEN queue_reliable(o, Reliable(q.reliable + 1)) ELSE o,
           NEW r \in [reliable : Nat, message : Nat], r.message = q.message,
           r.reliable = q.reliable + (IF row THEN 1 ELSE 0)
    PROVE  Good(p, client, r, state) /\ \A s \in Slot : Coming(p, client, s) = Coming(o, client, s)
<1>1. CASE row
  <2>1. p = queue_reliable(o, Reliable(q.reliable + 1)) /\ r.reliable = q.reliable + 1
    BY <1>1
  <2> QED BY <2>1, QueueReliable
<1>2. CASE ~row
  <2>1. p = o /\ r.reliable = q.reliable
    BY <1>2
  <2> QED BY <2>1 DEF Good
<1> QED BY <1>1, <1>2

\* A tick: a map, a row, the slots that are due and a message, each if there is one.
LEMMA TickKeeps ==
    ASSUME Sound, Tick
    PROVE  Sound' /\ [Promise!Next]_(Promise!vars)
<1> DEFINE Does(map_change, filling, message, refresh, gain, resend) ==
             LET rows == (IF map_change THEN 1 ELSE 0) + (IF filling THEN 1 ELSE 0)
                 announced == IF map_change THEN AnnounceMap(out, resend)
                              ELSE [out |-> out, sent |-> sent]
                 rowed == IF filling
                          THEN queue_reliable(announced.out, Reliable(queued.reliable + rows))
                          ELSE announced.out
                 due == {s \in Slot : state[s] # announced.sent[s]}
                        \cup (IF refresh THEN {Remote} ELSE {})
                 slots == (IF filling THEN {World} ELSE due \cup {World}) \cap Slot
                 stated == queue_latest(rowed, slots)
                 full == IF message /\ ~filling
                         THEN queue_message(stated, Message(queued.message + 1)) ELSE stated
             IN  /\ map_change => (filling \/ resend) /\ changes < MaxMapChanges
                 /\ queued.reliable + rows <= MaxReliable
                 /\ BeginFlush(full, gain)
                 /\ queued' = [reliable |-> queued.reliable + rows,
                               message |-> queued.message + (IF message /\ ~filling THEN 1 ELSE 0)]
                 /\ sent' = [s \in Slot |-> IF s \in slots THEN state[s] ELSE announced.sent[s]]
                 /\ changes' = IF map_change THEN changes + 1 ELSE changes
<1>0. PICK map_change, filling, message, refresh \in BOOLEAN, gain \in 0 .. Burst :
        \E resend \in (IF map_change THEN BOOLEAN ELSE {FALSE}) :
          Does(map_change, filling, message, refresh, gain, resend)
  BY DEF Tick
<1>1. PICK resend \in (IF map_change THEN BOOLEAN ELSE {FALSE}) :
        Does(map_change, filling, message, refresh, gain, resend)
  BY <1>0
<1> DEFINE k == queued.reliable
           m == IF map_change THEN 1 ELSE 0
           rows == m + (IF filling THEN 1 ELSE 0)
           more == message /\ ~filling
           announced == IF map_change THEN AnnounceMap(out, resend) ELSE [out |-> out, sent |-> sent]
           o1 == announced.out
           sent1 == announced.sent
           o2 == IF filling THEN queue_reliable(o1, Reliable(k + rows)) ELSE o1
           due == {s \in Slot : state[s] # sent1[s]} \cup (IF refresh THEN {Remote} ELSE {})
           slots == (IF filling THEN {World} ELSE due \cup {World}) \cap Slot
           o3 == queue_latest(o2, slots)
           o4 == IF more THEN queue_message(o3, Message(queued.message + 1)) ELSE o3
           q1 == [reliable |-> k + m, message |-> queued.message]
           q2 == [reliable |-> k + rows, message |-> queued.message]
           q4 == [reliable |-> k + rows, message |-> queued.message + (IF more THEN 1 ELSE 0)]
<1>2. /\ out' = refill(o4, gain) /\ flushing' = TRUE /\ queued' = q4
      /\ sent' = [s \in Slot |-> IF s \in slots THEN state[s] ELSE sent1[s]]
      /\ changes' = IF map_change THEN changes + 1 ELSE changes
  BY <1>1 DEF BeginFlush
<1>3. ticks' = ticks + 1 /\ UNCHANGED <<want_write, open, state, client>>
  BY DEF Tick
<1>4. /\ queued \in [reliable : Nat, message : Nat] /\ k \in Nat /\ queued.message \in Nat
      /\ Good(out, client, queued, state) /\ state \in [Slot -> Nat] /\ sent \in [Slot -> Nat]
      /\ ticks \in Nat /\ changes \in Nat /\ want_write \in BOOLEAN /\ open \in BOOLEAN
      /\ changes = 0 => \A s \in Slot : Coming(out, client, s) = sent[s]
  BY DEF Sound, Typed
<1>5. /\ q1 \in [reliable : Nat, message : Nat] /\ q1.reliable = k + m /\ q1.message = queued.message
      /\ q2 \in [reliable : Nat, message : Nat] /\ q2.reliable = k + rows /\ q2.message = queued.message
      /\ q4 \in [reliable : Nat, message : Nat] /\ q4.reliable = k + rows
      /\ q4.message = queued.message + (IF more THEN 1 ELSE 0)
      /\ q2.reliable = q1.reliable + (IF filling THEN 1 ELSE 0)
  BY <1>4
<1>6. slots \subseteq Slot
  OBVIOUS
<1> HIDE DEF q1, q2, q4, slots
<1>7. Good(o1, client, q1, state) /\ sent1 \in [Slot -> Nat]
  <2>1. CASE map_change
    <3>1. /\ o1 = queue_reliable(clear_latest(out), Reliable(k + 1))
          /\ sent1 = IF resend \/ Remote \notin Slot THEN sent ELSE [sent EXCEPT ![Remote] = 0]
      BY <2>1 DEF AnnounceMap
    <3> DEFINE o0 == clear_latest(out)
    <3>2. Good(o0, client, queued, state)
      BY <1>4, LatestCleared
    <3> HIDE DEF o0, announced
    <3>3. q1.reliable = k + 1
      BY <2>1, <1>5
    <3>4. Good(o1, client, q1, state)
      BY <3>1, <3>2, <3>3, <1>4, <1>5, QueueReliable DEF o0
    <3> QED BY <3>1, <3>4, <1>4
  <2>2. CASE ~map_change
    <3>1. o1 = out /\ sent1 = sent /\ q1.reliable = k
      BY <2>2, <1>4, <1>5
    <3> QED BY <3>1, <1>4, <1>5 DEF Good
  <2> QED BY <2>1, <2>2
<1>8. ~map_change => o1 = out /\ sent1 = sent
  OBVIOUS
<1> HIDE DEF announced
<1>9. Good(o2, client, q2, state) /\ \A s \in Slot : Coming(o2, client, s) = Coming(o1, client, s)
  <2>1. o2 = IF filling THEN queue_reliable(o1, Reliable(q1.reliable + 1)) ELSE o1
    BY <1>4, <1>5
  <2> HIDE DEF o1, o2, rows
  <2> QED BY <2>1, <1>5, <1>7, RowQueued
<1> HIDE DEF o2
<1>10. /\ Good(o3, client, q2, state)
       /\ \A s \in Slot : Coming(o3, client, s) = IF s \in slots THEN state[s] ELSE Coming(o2, client, s)
  BY <1>4, <1>6, <1>9, LatestQueued
<1> HIDE DEF o3
<1>11. Good(o4, client, q4, state) /\ \A s \in Slot : Coming(o4, client, s) = Coming(o3, client, s)
  <2>1. CASE more
    <3>1. o4 = queue_message(o3, Message(q2.message + 1)) /\ q4.message = q2.message + 1
      BY <2>1, <1>5
    <3> HIDE DEF o4, rows, more
    <3> QED BY <3>1, <1>5, <1>10, QueueMessage
  <2>2. CASE ~more
    <3>1. o4 = o3 /\ q4.message = q2.message /\ q4.reliable = q2.reliable
      BY <2>2, <1>4, <1>5
    <3> QED BY <3>1, <1>10 DEF Good
  <2> QED BY <2>1, <2>2
<1> HIDE DEF o4, rows, more, sent1, o1
<1>12. /\ Good(out', client, q4, state)
       /\ \A s \in Slot : Coming(out', client, s) = Coming(o4, client, s)
  BY <1>2, <1>11, Refilled
<1>13. sent' \in [Slot -> Nat] /\ changes' \in Nat /\ ticks' \in Nat
  BY <1>2, <1>3, <1>4, <1>7
<1>14. Good(out', client', queued', state') /\ Typed'
  BY <1>2, <1>3, <1>4, <1>5, <1>12, <1>13 DEF Typed, Good
<1>15. ASSUME changes' = 0, NEW s \in Slot
       PROVE  Coming(out', client', s) = sent'[s]
  <2>1. ~map_change /\ changes = 0
    BY <1>2, <1>4, <1>15
  <2>2. Coming(out', client', s) = IF s \in slots THEN state[s] ELSE Coming(out, client, s)
    BY <2>1, <1>3, <1>8, <1>9, <1>10, <1>11, <1>12
  <2> QED BY <2>1, <2>2, <1>2, <1>4, <1>8
<1>16. Sound'
  BY <1>14, <1>15 DEF Sound
<1>17. queued'.reliable >= queued.reliable /\ queued'.message >= queued.message
  BY <1>2, <1>4, <1>5 DEF rows
<1> QED BY <1>2, <1>3, <1>5, <1>16, <1>17, Queues

-----------------------------------------------------------------------------
(* The theorems.                                                            *)

\* It holds at first, of empty queues and a client that has nothing.
LEMMA SoundInitially == Init => Sound
<1> SUFFICES ASSUME Init PROVE Sound
  OBVIOUS
<1>1. /\ out = NewOutput /\ client.reliable = 0 /\ client.message = 0 /\ client.frame = NoFrame
      /\ client.bytes = 0 /\ client.garbled = FALSE /\ client.shown = [s \in Slot |-> 0]
      /\ queued.reliable = 0 /\ queued.message = 0
      /\ client \in Client /\ queued \in [reliable : Nat, message : Nat]
      /\ sent = [s \in Slot |-> 0] /\ state = [s \in Slot |-> 1]
  BY DEF Init, Client
<1>2. /\ out.partial = NoFrame /\ out.offset = 0 /\ out.reliable = <<>> /\ out.messages = <<>>
      /\ out.latest = [s \in Slot |-> NoFrame] /\ out.tokens = Burst
      /\ out \in Output /\ Underway(out) = 0 /\ Len(out.reliable) = 0 /\ Len(out.messages) = 0
  <2>1. <<>> \in Seq(Frame) /\ Len(<<>>) = 0
    BY EmptySeq
  <2>2. [s \in Slot |-> NoFrame] \in [Slot -> Frame \cup {NoFrame}]
    OBVIOUS
  <2>3. Burst \in Int /\ 0 \in 0 .. FrameBytes
    BY Frames
  <2> QED BY <1>1, <2>1, <2>2, <2>3 DEF NewOutput, Output, Underway
<1>3. Typed
  <2>1. state \in [Slot -> Nat] /\ sent \in [Slot -> Nat]
    BY <1>1
  <2>2. /\ want_write \in BOOLEAN /\ flushing \in BOOLEAN /\ open \in BOOLEAN
        /\ ticks \in Nat /\ changes \in Nat
    BY DEF Init
  <2> QED BY <1>1, <1>2, <2>1, <2>2 DEF Typed
<1>4. Thrifty(out) /\ Aligned(out, client)
  BY <1>1, <1>2, Frames DEF Thrifty, Aligned
<1>5. InSequence(out, client, queued.reliable) /\ Rising(out, client, queued.message)
  BY <1>1, <1>2, Frames DEF InSequence, Rising
<1>6. Fresh(out, client, state) /\ \A s \in Slot : Coming(out, client, s) = sent[s]
  BY <1>1, <1>2 DEF Fresh, Coming
<1> QED BY <1>1, <1>2, <1>3, <1>4, <1>5, <1>6 DEF Sound, Good

\* Every step keeps it, and is a step of Delivery or one it does not see.
LEMMA SoundNext == Sound /\ [Next]_vars => Sound' /\ [Promise!Next]_(Promise!vars)
<1> SUFFICES ASSUME Sound, [Next]_vars
             PROVE  Sound' /\ [Promise!Next]_(Promise!vars)
  OBVIOUS
<1>1. CASE EndFlush
  BY <1>1, EndFlushKeeps
<1>2. CASE Send
  BY <1>2, SendKeeps
<1>3. CASE Block
  BY <1>3, BlockKeeps
<1>4. CASE SendFails
  BY <1>4, SendFailsKeeps
<1>5. CASE \E gain \in 0 .. Burst : WriteReady(gain)
  BY <1>5, WriteReadyKeeps
<1>6. CASE Bootstrap
  BY <1>6, BootstrapKeeps
<1>7. CASE Answer
  BY <1>7, AnswerKeeps
<1>8. CASE Tick
  BY <1>8, TickKeeps
<1>9. CASE \E s \in Slot : StateChanges(s)
  BY <1>9, StateChangesKeeps
<1>10. CASE UNCHANGED vars
  BY <1>10, StaysSound, Unseen DEF vars, Sound, Typed
<1> QED BY <1>1, <1>2, <1>3, <1>4, <1>5, <1>6, <1>7, <1>8, <1>9, <1>10 DEF Next

\* Whatever the socket takes, of whatever is queued, and however often: the reliable
\* frames stay complete and in order, the messages in order, the slots fresh, the bytes
\* of a frame together, and what was spent stays within a frame of the bucket.
THEOREM SoundAlways == Spec => []Sound
<1>1. Sound /\ [Next]_vars => Sound'
  BY SoundNext
<1> QED BY SoundInitially, <1>1, PTL DEF Spec

\* The bucket is never overdrawn by a whole frame, and the messages that wait are
\* never more than their limit (SessionOutput.flush and queue_message).
THEOREM PacedAlways == Spec => []Paced
<1>1. Sound => Paced
  <2> SUFFICES ASSUME Sound PROVE Paced
    OBVIOUS
  <2>1. out.tokens \in Int /\ out.offset \in Nat
    BY Frames DEF Sound, Typed, Output
  <2>2. Thrifty(out) /\ Len(out.messages) <= MESSAGE_QUEUE_LIMIT
    BY DEF Sound, Good, Rising
  <2> QED BY <2>1, <2>2, Frames DEF Paced, Thrifty
<1> QED BY <1>1, SoundAlways, PTL

\* Until the player changes maps, once everything is written the client shows of every
\* slot what the session remembers having sent, however many states were coalesced.
THEOREM StateDeliveredAlways == Spec => []StateDelivered
<1>1. Sound => StateDelivered
  BY DEF Sound, StateDelivered, ShownIsSent, Empty, Coming
<1> QED BY <1>1, SoundAlways, PTL

\* The queues, the pacing and the socket keep the promise of Delivery: every reliable
\* frame arrives once and in order, messages in order, and no slot goes back.
THEOREM Implements == Spec => Delivers
<1>1. Init => Promise!Init
  BY DEF Init, Promise!Init
<1> QED BY <1>1, SoundInitially, SoundNext, PTL DEF Spec, Delivers, Promise!Spec
=============================================================================
