---------------------------- MODULE SessionOutput ----------------------------
(***************************************************************************)
(* The output of one session of the hybrid server: SessionOutput, the      *)
(* queues of frames and the token bucket that paces them, the flush loop   *)
(* that writes them to a non-blocking socket, the selector's write         *)
(* interest that brings the loop back, and the tick that fills the queues  *)
(* (src/server/hybrid_server.py).                                          *)
(*                                                                         *)
(* A frame is its queue and a number: reliable frames and messages are     *)
(* numbered as they are queued, a frame of a latest slot carries the       *)
(* version of the state it shows.  All frames are FrameBytes long.  The    *)
(* client is its frame decoder and what it has taken from whole frames.    *)
(***************************************************************************)
EXTENDS Integers, Sequences

CONSTANTS
    LATEST_ORDER,          \* the slots of replaceable state, by priority
    World, Remote,         \* the slots of WORLD_STATE and REMOTE_PLAYERS
    MESSAGE_QUEUE_LIMIT,
    FrameBytes, Burst,
    NoFrame,
    MaxTicks, MaxVersion, MaxReliable, MaxMapChanges    \* bounds

Slot == {LATEST_ORDER[i] : i \in DOMAIN LATEST_ORDER}

ASSUME OutputAssumption ==
    /\ LATEST_ORDER \in Seq(Slot)
    /\ World \in Slot
    /\ MESSAGE_QUEUE_LIMIT \in Nat \ {0}
    /\ FrameBytes \in Nat \ {0} /\ Burst \in Nat \ {0}
    /\ {MaxTicks, MaxVersion, MaxReliable, MaxMapChanges} \subseteq Nat
    /\ Slot \cap {"reliable", "message"} = {}

Frame == [queue : Slot \cup {"reliable", "message"}, n : Nat]
ASSUME NoFrameAssumption == NoFrame \notin Frame

VARIABLES
    out,            \* session.out
    want_write,     \* EVENT_WRITE is among the events of the selector key
    flushing,       \* the flush loop is running: nothing else does
    open,           \* the session has not been dropped
    state,          \* the version of what each slot shows, in the game
    sent,           \* hud_sent, remote_sent, ...: the version last queued
    queued,         \* how many reliable frames and messages were queued
    client,         \* the receiving end
    ticks, changes  \* spent bounds

vars == <<out, want_write, flushing, open, state, sent, queued, client, ticks, changes>>
gameVars == <<state, sent, queued, ticks, changes>>

-----------------------------------------------------------------------------
(* SessionOutput.                                                           *)

NewOutput ==
    [partial |-> NoFrame, offset |-> 0, reliable |-> <<>>, messages |-> <<>>,
     latest |-> [s \in Slot |-> NoFrame], tokens |-> Burst]

queue_reliable(o, f) == [o EXCEPT !.reliable = Append(@, f)]

\* Faulty: the new message overtakes those that wait.
QueueInFront(o, f) ==
    LET kept == IF Len(o.messages) >= MESSAGE_QUEUE_LIMIT THEN Tail(o.messages)
                ELSE o.messages
    IN  [o EXCEPT !.messages = <<f>> \o kept]
queue_message(o, f) ==
    LET kept == IF Len(o.messages) >= MESSAGE_QUEUE_LIMIT THEN Tail(o.messages)
                ELSE o.messages
    IN  [o EXCEPT !.messages = Append(kept, f)]

clear_latest(o) == [o EXCEPT !.latest = [s \in Slot |-> NoFrame]]

pending(o) ==
    \/ o.partial # NoFrame
    \/ o.reliable # <<>> \/ o.messages # <<>>
    \/ \E s \in Slot : o.latest[s] # NoFrame

\* The time since the last refill is worth some number of tokens.
refill(o, gain) ==
    [o EXCEPT !.tokens = IF @ + gain < Burst THEN @ + gain ELSE Burst]

FirstSlot(o) ==
    LATEST_ORDER[CHOOSE i \in DOMAIN LATEST_ORDER :
                    /\ o.latest[LATEST_ORDER[i]] # NoFrame
                    /\ \A j \in 1 .. i - 1 : o.latest[LATEST_ORDER[j]] = NoFrame]

\* The queues after next_frame, with the frame it returned as the partial one.
next_frame(o) ==
    IF o.reliable # <<>>
    THEN [o EXCEPT !.reliable = Tail(@), !.partial = Head(o.reliable), !.offset = 0]
    ELSE IF \E s \in Slot : o.latest[s] # NoFrame
    THEN LET s == FirstSlot(o)
         IN  [o EXCEPT !.latest[s] = NoFrame, !.partial = o.latest[s], !.offset = 0]
    ELSE [o EXCEPT !.messages = Tail(@), !.partial = Head(o.messages), !.offset = 0]

-----------------------------------------------------------------------------
(* The client: bytes count..offset of frame f arrive.                       *)

Taken(c, f) ==
    CASE f.queue = "reliable" -> [c EXCEPT !.reliable = f.n]
      [] f.queue = "message" -> [c EXCEPT !.message = f.n]
      [] OTHER -> [c EXCEPT !.shown[f.queue] = f.n]

\* A frame whose bytes are not consecutive fails to decode.
Arrive(c, f, from, to) ==
    LET follows == c.frame = (IF from = 0 THEN NoFrame ELSE f) /\ c.bytes = from
        whole == [c EXCEPT !.frame = NoFrame, !.bytes = 0]
    IN  IF ~follows THEN [c EXCEPT !.garbled = TRUE]
        ELSE IF to = FrameBytes THEN Taken(whole, f)
        ELSE [c EXCEPT !.frame = f, !.bytes = to]

-----------------------------------------------------------------------------
(* The flush loop.                                                          *)

_update_write_interest == want_write' = pending(out')

BeginFlush(o, gain) == out' = refill(o, gain) /\ flushing' = TRUE

\* Faulty: the bucket is looked at only when nothing is left to send.
StopWhenDry == out.partial = NoFrame /\ ~pending(out)

\* Where the loop stops: no frame is begun on an empty bucket.
Stopped == out.partial = NoFrame /\ (out.tokens <= 0 \/ ~pending(out))

EndFlush ==
    /\ flushing /\ Stopped
    /\ flushing' = FALSE
    /\ UNCHANGED <<out, open, client, gameVars>>
    /\ _update_write_interest

Current == IF out.partial = NoFrame THEN next_frame(out) ELSE out

\* send() takes some of the frame; the loop goes on if it took the rest of it.
Send ==
    LET o == Current
    IN  /\ flushing /\ ~Stopped
        /\ \E to \in o.offset + 1 .. FrameBytes :
              LET o2 == [o EXCEPT !.tokens = @ - (to - o.offset)]
              IN  /\ client' = Arrive(client, o.partial, o.offset, to)
                  /\ IF to < FrameBytes
                     THEN /\ out' = [o2 EXCEPT !.offset = to]
                          /\ flushing' = FALSE
                          /\ _update_write_interest
                     ELSE /\ out' = [o2 EXCEPT !.partial = NoFrame, !.offset = 0]
                          /\ UNCHANGED <<flushing, want_write>>
        /\ UNCHANGED <<open, gameVars>>

\* BlockingIOError keeps the frame for the next flush.
Block ==
    /\ flushing /\ ~Stopped
    /\ out' = Current
    /\ flushing' = FALSE
    /\ _update_write_interest
    /\ UNCHANGED <<open, client, gameVars>>

SendFails ==
    /\ flushing /\ ~Stopped
    /\ flushing' = FALSE /\ open' = FALSE /\ want_write' = FALSE
    /\ UNCHANGED <<out, client, gameVars>>

\* The selector reports the socket writable.
WriteReady(gain) ==
    /\ open /\ ~flushing /\ want_write
    /\ BeginFlush(out, gain)
    /\ UNCHANGED <<want_write, open, client, gameVars>>

-----------------------------------------------------------------------------
(* What fills the queues.                                                   *)

Reliable(n) == [queue |-> "reliable", n |-> n]
Message(n) == [queue |-> "message", n |-> n]
Latest(s) == [queue |-> s, n |-> state[s]]

\* Faulty: the selector is not asked for the socket to be writable.
BootstrapUnannounced ==
    /\ open /\ ~flushing /\ queued.reliable + 2 <= MaxReliable
    /\ LET o == queue_reliable(queue_reliable(out, Reliable(queued.reliable + 1)),
                               Reliable(queued.reliable + 2))
       IN  out' = [o EXCEPT !.tokens = IF @ < 1 THEN @ ELSE 1]
    /\ queued' = [queued EXCEPT !.reliable = @ + 2]
    /\ UNCHANGED <<want_write, flushing, open, state, sent, client, ticks, changes>>

\* HELLO: WELCOME and WINDOW are paced from the first byte.
Bootstrap ==
    /\ open /\ ~flushing /\ queued.reliable + 2 <= MaxReliable
    /\ LET o == queue_reliable(queue_reliable(out, Reliable(queued.reliable + 1)),
                               Reliable(queued.reliable + 2))
       IN  out' = [o EXCEPT !.tokens = IF @ < 1 THEN @ ELSE 1]
    /\ queued' = [queued EXCEPT !.reliable = @ + 2]
    /\ _update_write_interest
    /\ UNCHANGED <<flushing, open, state, sent, client, ticks, changes>>

\* A handler answers at once: a commit ACK, the next steps after an ACK.
Answer ==
    /\ open /\ ~flushing /\ queued.reliable < MaxReliable
    /\ out' = queue_reliable(out, Reliable(queued.reliable + 1))
    /\ queued' = [queued EXCEPT !.reliable = @ + 1]
    /\ _update_write_interest
    /\ UNCHANGED <<flushing, open, state, sent, client, ticks, changes>>

StateChanges(s) ==
    /\ ~flushing /\ state[s] < MaxVersion
    /\ state' = [state EXCEPT ![s] = @ + 1]
    /\ UNCHANGED <<out, want_write, flushing, open, sent, queued, client, ticks, changes>>

\* A transition, or the re-send of its MAP_CHANGE, clears the latest slots;
\* only a transition forgets what was sent of remotes (and item drops).
AnnounceMap(o, resend) ==
    [out |-> queue_reliable(clear_latest(o), Reliable(queued.reliable + 1)),
     sent |-> IF resend \/ Remote \notin Slot THEN sent
              ELSE [sent EXCEPT ![Remote] = 0]]

\* Faulty: a slot that is taken is left alone.
LatestKeepsOld(o, slots) ==
    [o EXCEPT !.latest = [s \in Slot |-> IF s \in slots /\ @[s] = NoFrame
                                         THEN Latest(s) ELSE @[s]]]

\* WORLD_STATE goes out every tick, the rest when it changed since it was last
\* queued; remotes are also repeated from time to time.
queue_latest(o, slots) ==
    [o EXCEPT !.latest = [s \in Slot |-> IF s \in slots THEN Latest(s) ELSE @[s]]]

\* No action of another session or of the game runs between the queueing of a
\* tick and its flush.  A tick of a fill queues a row and the world only.
Tick ==
    /\ open /\ ~flushing /\ ticks < MaxTicks
    /\ \E map_change, filling, message, refresh \in BOOLEAN, gain \in 0 .. Burst :
       \E resend \in (IF map_change THEN BOOLEAN ELSE {FALSE}) :
          LET rows == (IF map_change THEN 1 ELSE 0) + (IF filling THEN 1 ELSE 0)
              announced == IF map_change THEN AnnounceMap(out, resend)
                           ELSE [out |-> out, sent |-> sent]
              rowed == IF filling
                       THEN queue_reliable(announced.out, Reliable(queued.reliable + rows))
                       ELSE announced.out
              due == {s \in Slot : state[s] # announced.sent[s]}
                     \cup (IF refresh THEN {Remote} ELSE {})
              slots == (IF filling THEN {World} ELSE due \cup {World}) \cap Slot
              stated == queue_latest(rowed, slots)
              full == IF message /\ ~filling
                      THEN queue_message(stated, Message(queued.message + 1)) ELSE stated
          IN  /\ map_change => (filling \/ resend) /\ changes < MaxMapChanges
              /\ queued.reliable + rows <= MaxReliable
              /\ BeginFlush(full, gain)
              /\ queued' = [reliable |-> queued.reliable + rows,
                            message |-> queued.message +
                                        (IF message /\ ~filling THEN 1 ELSE 0)]
              /\ sent' = [s \in Slot |-> IF s \in slots THEN state[s]
                                         ELSE announced.sent[s]]
              /\ changes' = IF map_change THEN changes + 1 ELSE changes
    /\ ticks' = ticks + 1
    /\ UNCHANGED <<want_write, open, state, client>>

Init ==
    /\ out = NewOutput
    /\ want_write = FALSE /\ flushing = FALSE /\ open = TRUE
    /\ state = [s \in Slot |-> 1]
    /\ sent = [s \in Slot |-> 0]
    /\ queued = [reliable |-> 0, message |-> 0]
    /\ client = [frame |-> NoFrame, bytes |-> 0, garbled |-> FALSE,
                 reliable |-> 0, message |-> 0, shown |-> [s \in Slot |-> 0]]
    /\ ticks = 0 /\ changes = 0

Next ==
    \/ EndFlush \/ Send \/ Block \/ SendFails
    \/ \E gain \in 0 .. Burst : WriteReady(gain)
    \/ Bootstrap \/ Answer \/ Tick
    \/ \E s \in Slot : StateChanges(s)

Spec == Init /\ [][Next]_vars

\* The loop runs on, time passes between two flushes, and the client reads.
Fairness ==
    /\ WF_vars(EndFlush) /\ WF_vars(Send \/ Block \/ SendFails) /\ SF_vars(Send)
    /\ SF_vars(\E gain \in 1 .. Burst : WriteReady(gain))

FairSpec == Spec /\ Fairness

-----------------------------------------------------------------------------

Empty(o) ==
    /\ o.partial = NoFrame /\ o.reliable = <<>> /\ o.messages = <<>>
    /\ \A s \in Slot : o.latest[s] = NoFrame

\* The link is never owed more than the frame in progress, and no more messages wait
\* than their queue may hold: after any write the bucket is overdrawn by less than a
\* frame, however often the session is served between two ticks.
Paced == out.tokens \in 1 - FrameBytes .. Burst /\ Len(out.messages) <= MESSAGE_QUEUE_LIMIT

\* Once everything is written the client shows, for every slot, the state the
\* session remembers having sent; it will not send it again.
ShownIsSent ==
    open /\ ~flushing /\ Empty(out) => \A s \in Slot : client.shown[s] = sent[s]

\* ShownIsSent holds until the player changes maps: states that change while
\* their frames wait are coalesced, and the last of each slot arrives.
StateDelivered == changes = 0 => ShownIsSent

\* What is queued is written in the end, without any tick.
Drains == []<>(~open \/ Empty(out))

\* The client gets what Delivery promises: frames are selected, cut, held back
\* by the bucket and the socket, coalesced and cleared, yet no reliable frame
\* is lost, repeated or overtaken, and no slot shows an older state again.
Promise == INSTANCE Delivery WITH
    got <- [reliable |-> client.reliable, message |-> client.message,
            shown |-> client.shown]
Delivers == Promise!Spec

=============================================================================
