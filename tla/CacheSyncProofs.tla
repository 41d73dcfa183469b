-------------------------- MODULE CacheSyncProofs ---------------------------
(***************************************************************************)
(* Safety of the terrain cache protocol for every window, world, pipeline, *)
(* retry limit, counter width and amount of loss.  First what the handlers *)
(* of CacheSession keep true of a session and of the packets it sends, and *)
(* those of CacheClient of a client, whatever placed packets arrive and in *)
(* whatever order.  Then the whole system: SystemInv is inductive, and     *)
(* TypeOK, TerrainPlaced, OneMechanism and PipelineChained follow.  Then   *)
(* the maps: MapInv, which says what each packet under way is of, gives    *)
(* FirstMapShown.  Last the simulated player, whose server is the same:    *)
(* BotInv gives KnownTerrain.                                              *)
(***************************************************************************)
EXTENDS Bots, SequenceTheorems, TLAPS

-----------------------------------------------------------------------------
(* Geometry.                                                                *)

\* An origin is a pair of two coordinates.
LEMMA OriginParts ==
    ASSUME NEW o \in Origin
    PROVE  /\ o[1] \in 0 .. MaxX /\ o[2] \in 0 .. MaxY
           /\ o = <<o[1], o[2]>>
  BY DEF Origin

\* The distance between two windows is a natural number.
LEMMA GapType ==
    ASSUME NEW a \in Origin, NEW b \in Origin
    PROVE  Gap(a, b) \in Nat
  BY OriginParts, WindowAssumption DEF Gap, Abs

\* The k-th origin on the way to the player lies on the map.
LEMMA OriginAfterType ==
    ASSUME NEW o \in Origin, NEW t \in Origin, NEW k \in 0 .. Gap(o, t)
    PROVE  OriginAfter(o, t, k) \in Origin
<1>1. /\ o[1] \in 0 .. MaxX /\ o[2] \in 0 .. MaxY
      /\ t[1] \in 0 .. MaxX /\ t[2] \in 0 .. MaxY
  BY OriginParts
<1>2. MaxX \in Nat /\ MaxY \in Nat
  BY WindowAssumption
<1>3. k \in Nat /\ k <= Gap(o, t)
  BY GapType
<1>. DEFINE dx == Least(k, Abs(t[1] - o[1]))
<1>4. o[1] + Sign(t[1] - o[1]) * dx \in 0 .. MaxX
  BY <1>1, <1>2, <1>3 DEF Least, Abs, Sign
<1>5. o[2] + Sign(t[2] - o[2]) * (k - dx) \in 0 .. MaxY
  BY <1>1, <1>2, <1>3 DEF Least, Abs, Sign, Gap
<1>. QED  BY <1>4, <1>5 DEF OriginAfter, Origin

\* No step leads nowhere.
LEMMA OriginAfterZero ==
    ASSUME NEW o \in Origin, NEW t \in Origin
    PROVE  OriginAfter(o, t, 0) = o
  BY OriginParts, WindowAssumption DEF OriginAfter, Least, Abs, Sign

\* Two successive origins of the way are one tile apart.
LEMMA OriginAfterGap ==
    ASSUME NEW o \in Origin, NEW t \in Origin, NEW k \in 1 .. Gap(o, t)
    PROVE  Gap(OriginAfter(o, t, k - 1), OriginAfter(o, t, k)) = 1
<1>1. /\ o[1] \in Int /\ o[2] \in Int /\ t[1] \in Int /\ t[2] \in Int
      /\ k \in Nat /\ k >= 1 /\ k <= Gap(o, t)
  BY OriginParts, GapType, WindowAssumption
<1>. DEFINE ax == Abs(t[1] - o[1])
            ay == Abs(t[2] - o[2])
            sx == Sign(t[1] - o[1])
            sy == Sign(t[2] - o[2])
<1>2. /\ ax \in Nat /\ ay \in Nat /\ k <= ax + ay
      /\ (ax # 0 => sx \in {-1, 1}) /\ (ay # 0 => sy \in {-1, 1})
      /\ sx \in {-1, 0, 1} /\ sy \in {-1, 0, 1}
  BY <1>1 DEF Abs, Sign, Gap
<1>3. /\ OriginAfter(o, t, k)
            = <<o[1] + sx * Least(k, ax), o[2] + sy * (k - Least(k, ax))>>
      /\ OriginAfter(o, t, k - 1)
            = <<o[1] + sx * Least(k - 1, ax),
                o[2] + sy * (k - 1 - Least(k - 1, ax))>>
  BY <1>1 DEF OriginAfter
<1>. HIDE DEF ax, ay, sx, sy
<1>4. CASE k <= ax
  <2>1. Least(k, ax) = k /\ Least(k - 1, ax) = k - 1
    BY <1>1, <1>2, <1>4 DEF Least
  <2>2. /\ OriginAfter(o, t, k) = <<o[1] + sx * k, o[2] + sy * 0>>
        /\ OriginAfter(o, t, k - 1) = <<o[1] + sx * (k - 1), o[2] + sy * 0>>
    BY <1>1, <1>3, <2>1
  <2>3. sx \in {-1, 1}
    BY <1>1, <1>2, <1>4
  <2>. QED  BY <1>1, <1>2, <2>2, <2>3 DEF Gap, Abs
<1>5. CASE k > ax
  <2>1. Least(k, ax) = ax /\ Least(k - 1, ax) = ax
    BY <1>1, <1>2, <1>5 DEF Least
  <2>2. sy \in {-1, 1}
    BY <1>1, <1>2, <1>5
  <2>. QED  BY <1>1, <1>2, <1>3, <2>1, <2>2 DEF Gap, Abs
<1>. QED  BY <1>1, <1>2, <1>4, <1>5

\* The strip between two windows one tile apart has the form and the tiles of
\* its place.
LEMMA EdgeGood ==
    ASSUME NEW map \in Maps, NEW ver \in Nat, NEW revision \in 1 .. MaxRevision,
           NEW old \in Origin, NEW new \in Origin, Gap(old, new) = 1
    PROVE  LET e == EdgePacket(revision, edge_window(map, ver, old, new))
           IN  e \in EdgeMsg /\ EdgePlaced(e)
<1>. DEFINE e == EdgePacket(revision, edge_window(map, ver, old, new))
<1>1. /\ old[1] \in 0 .. MaxX /\ old[2] \in 0 .. MaxY
      /\ new[1] \in 0 .. MaxX /\ new[2] \in 0 .. MaxY
  BY OriginParts
<1>2. /\ MaxX \in Nat /\ MaxY \in Nat
      /\ WINDOW_W \in Nat \ {0} /\ WINDOW_H \in Nat \ {0}
      /\ ~(WINDOW_W = 1 /\ WINDOW_H = 1)
  BY WindowAssumption
<1>3. CASE new[1] # old[1]
  <2>. DEFINE x == IF new[1] > old[1] THEN old[1] + WINDOW_W ELSE new[1]
  <2>1. e = [type |-> "edge", revision |-> revision, x |-> x, y |-> old[2],
             width |-> 1, height |-> WINDOW_H,
             tiles |-> window_col_tiles(map, ver, x, old[2])]
    BY <1>3 DEF EdgePacket, edge_window
  <2>2. x \in 0 .. MaxX + WINDOW_W - 1
    BY <1>1, <1>2, <1>3, Gap(old, new) = 1 DEF Gap, Abs
  <2>. HIDE DEF x
  <2>3. window_col_tiles(map, ver, x, old[2]) \in ColTiles
    BY <1>1, <1>2, <2>2 DEF window_col_tiles, ColTiles, TileAt, Tile, Row
  <2>4. ColPlaced(window_col_tiles(map, ver, x, old[2]), x, old[2])
    BY DEF window_col_tiles, ColPlaced, PlacedAt, TileAt
  <2>. QED
    BY <1>1, <2>1, <2>2, <2>3, <2>4 DEF EdgeMsg, ColumnEdgeMsg, EdgePlaced
<1>4. CASE new[1] = old[1]
  <2>. DEFINE y == IF new[2] > old[2] THEN old[2] + WINDOW_H ELSE new[2]
  <2>1. e = [type |-> "edge", revision |-> revision, x |-> old[1], y |-> y,
             width |-> WINDOW_W, height |-> 1,
             tiles |-> window_row_tiles(map, ver, old[1], y)]
    BY <1>4 DEF EdgePacket, edge_window
  <2>2. y \in 0 .. MaxY + WINDOW_H - 1
    BY <1>1, <1>2, <1>4, Gap(old, new) = 1 DEF Gap, Abs
  <2>. HIDE DEF y
  <2>3. window_row_tiles(map, ver, old[1], y) \in RowTiles
    BY <1>1, <1>2, <2>2 DEF window_row_tiles, RowTiles, TileAt, Tile, Col
  <2>4. RowPlaced(window_row_tiles(map, ver, old[1], y), old[1], y)
    BY DEF window_row_tiles, RowPlaced, PlacedAt, TileAt
  <2>. QED
    BY <1>1, <1>2, <2>1, <2>2, <2>3, <2>4 DEF EdgeMsg, RowEdgeMsg, EdgePlaced
<1>. QED  BY <1>3, <1>4

-----------------------------------------------------------------------------
(* Numbers.                                                                 *)

\* A counter that wraps stays between 1 and its maximum.
LEMMA AdvanceType ==
    ASSUME NEW max \in Nat, NEW n \in 0 .. max, NEW k \in 1 .. max
    PROVE  Advance(n, k, max) \in 1 .. max
  BY DEF Advance

\* k steps and then j more are k + j steps.
LEMMA AdvanceAdd ==
    ASSUME NEW max \in Nat, NEW n \in 0 .. max, NEW k \in 0 .. max,
           NEW j \in 0 .. max, k + j <= max
    PROVE  Advance(Advance(n, k, max), j, max) = Advance(n, k + j, max)
  BY DEF Advance

\* Less than a full turn apart, two counts differ.
LEMMA AdvanceInjective ==
    ASSUME NEW max \in Nat, NEW n \in 1 .. max, NEW k \in 0 .. max - 1,
           NEW j \in 0 .. max - 1, Advance(n, k, max) = Advance(n, j, max)
    PROVE  k = j
  BY DEF Advance

-----------------------------------------------------------------------------
(* The simple handlers.                                                     *)

\* Giving up the pipeline keeps the session in order.
LEMMA CancelGood ==
    ASSUME NEW s, SessionInv(s)
    PROVE  SessionInv(_cancel_inflight_step(s))
<1>. DEFINE t == _cancel_inflight_step(s)
<1>1. s \in Session
  BY DEF SessionInv
<1>2. t \in Session
  <2>1. << >> \in Seq(InflightStep) /\ 0 \in 0 .. CACHE_STEP_RETRY_LIMIT
    BY SessionAssumption
  <2>. QED  BY <1>1, <2>1 DEF Session, _cancel_inflight_step
<1>3. /\ t.inflight_steps = << >>
      /\ t.fill_origin = s.fill_origin
      /\ t.resync_rows = s.resync_rows
      /\ t.fill_waiting_for_commit = s.fill_waiting_for_commit
  BY <1>1 DEF Session, _cancel_inflight_step
<1>4. FillExcludesSteps(t)
  BY <1>3 DEF SessionInv, FillExcludesSteps
<1>5. StepsChained(t)
  BY <1>3, SessionAssumption DEF StepsChained, Chained
<1>. QED  BY <1>2, <1>3, <1>4, <1>5 DEF SessionInv

\* So does opening a fill.
LEMMA StartGood ==
    ASSUME NEW s, SessionInv(s), NEW p \in Player, NEW rows \in SUBSET Row
    PROVE  SessionInv(_start_window_resync(s, p, rows))
<1>. DEFINE c == _cancel_inflight_step(s)
            t == _start_window_resync(s, p, rows)
<1>1. c \in Session /\ c.inflight_steps = << >>
  <2>1. s \in Session
    BY DEF SessionInv
  <2>2. c.inflight_steps = << >>
    BY <2>1 DEF Session, _cancel_inflight_step
  <2>. QED  BY <2>2, CancelGood DEF SessionInv
<1>2. t = [c EXCEPT !.fill_id = Advance(@, 1, MaxFillId),
                    !.fill_origin = p.target,
                    !.fill_waiting_for_commit = FALSE,
                    !.resync_rows = rows]
  BY DEF _start_window_resync
<1>. HIDE DEF c
<1>3. p.target \in Origin
  BY DEF Player
<1>4. Advance(c.fill_id, 1, MaxFillId) \in 0 .. MaxFillId
  <2>1. c.fill_id \in 0 .. MaxFillId
    BY <1>1 DEF Session
  <2>2. MaxFillId \in Nat /\ 1 \in 1 .. MaxFillId
    BY SessionAssumption
  <2>3. Advance(c.fill_id, 1, MaxFillId) \in 1 .. MaxFillId
    BY <2>1, <2>2, AdvanceType
  <2>. QED  BY <2>2, <2>3
<1>5. t \in Session
  BY <1>1, <1>2, <1>3, <1>4 DEF Session
<1>6. /\ t.fill_origin = p.target /\ t.resync_rows = rows
      /\ t.fill_waiting_for_commit = FALSE /\ t.inflight_steps = << >>
  BY <1>1, <1>2 DEF Session
<1>. HIDE DEF t
<1>7. FillExcludesSteps(t)
  BY <1>3, <1>6, SessionAssumption DEF FillExcludesSteps
<1>8. StepsChained(t)
  BY <1>6, SessionAssumption DEF StepsChained, Chained
<1>9. t.inflight_steps \in Seq(PlacedStep)
  BY <1>6
<1>10. SessionInv(t)
  BY <1>5, <1>7, <1>8, <1>9 DEF SessionInv
<1>. QED  BY <1>10 DEF t

\* A session of a connection that just came up is in order.
LEMMA NewSessionGood ==
    ASSUME NEW o \in Origin, NEW full \in BOOLEAN, NEW m \in {None} \cup Maps
    PROVE  SessionInv(NewSession(o, full, m))
<1>. DEFINE t == NewSession(o, full, m)
<1>1. << >> \in Seq(InflightStep) /\ << >> \in Seq(PlacedStep)
  OBVIOUS
<1>2. t \in Session
  BY <1>1, SessionAssumption DEF NewSession, Session
<1>3. FillExcludesSteps(t) /\ StepsChained(t)
  BY SessionAssumption DEF NewSession, FillExcludesSteps, StepsChained, Chained
<1>. QED  BY <1>1, <1>2, <1>3 DEF SessionInv, NewSession

-----------------------------------------------------------------------------
(* Cache steps.                                                             *)

\* What a handler promises of its reply.
ReplyInv(reply) ==
    /\ SessionInv(reply.session)
    /\ reply.out \in Seq(PlacedMsg)

\* A handler that says nothing leaves nothing to prove of its packets.
LEMMA SilentGood ==
    ASSUME NEW s, SessionInv(s)
    PROVE  ReplyInv(Silent(s))
  BY DEF ReplyInv, Silent, Reply

\* The packets of the steps in flight are edges in their place.
LEMMA InflightGood ==
    ASSUME NEW s, SessionInv(s)
    PROVE  InflightPackets(s) \in Seq(PlacedMsg)
<1>1. /\ s.inflight_steps \in Seq(PlacedStep)
      /\ Len(s.inflight_steps) \in Nat
      /\ \A i \in 1 .. Len(s.inflight_steps) : s.inflight_steps[i] \in PlacedStep
  BY DEF SessionInv
<1>2. \A i \in PlacedStep : i.packet \in PlacedMsg
  BY DEF PlacedStep, InflightStep, PlacedMsg, ServerMsg, PacketPlaced,
         EdgeMsg, ColumnEdgeMsg, RowEdgeMsg
<1>. QED  BY <1>1, <1>2 DEF InflightPackets

\* Sending the pipeline again, or giving it up for a fill.
LEMMA RetransmitGood ==
    ASSUME NEW s, SessionInv(s), NEW p \in Player
    PROVE  ReplyInv(RetransmitSteps(s, p))
<1>1. CASE s.step_retries >= CACHE_STEP_RETRY_LIMIT
  <2>1. SessionInv(_start_window_resync(s, p, Row))
    BY StartGood
  <2>. QED  BY <1>1, <2>1, SilentGood DEF RetransmitSteps
<1>2. CASE ~(s.step_retries >= CACHE_STEP_RETRY_LIMIT)
  <2>. DEFINE t == [s EXCEPT !.step_retries = @ + 1]
  <2>1. s \in Session
    BY DEF SessionInv
  <2>2. s.step_retries + 1 \in 0 .. CACHE_STEP_RETRY_LIMIT
    <3>1. s.step_retries \in 0 .. CACHE_STEP_RETRY_LIMIT
      BY <2>1 DEF Session
    <3>. QED  BY <1>2, <3>1, SessionAssumption
  <2>3. t \in Session
    BY <2>1, <2>2 DEF Session
  <2>4. /\ t.fill_origin = s.fill_origin /\ t.resync_rows = s.resync_rows
        /\ t.fill_waiting_for_commit = s.fill_waiting_for_commit
        /\ t.inflight_steps = s.inflight_steps
        /\ t.window_origin = s.window_origin
        /\ t.next_cache_revision = s.next_cache_revision
    BY <2>1 DEF Session
  <2>. HIDE DEF t
  <2>5. SessionInv(t)
    <3>1. FillExcludesSteps(t)
      BY <2>4 DEF SessionInv, FillExcludesSteps
    <3>2. StepsChained(t)
      BY <2>4 DEF SessionInv, StepsChained
    <3>3. t.inflight_steps \in Seq(PlacedStep)
      BY <2>4 DEF SessionInv
    <3>. QED  BY <2>3, <3>1, <3>2, <3>3 DEF SessionInv
  <2>6. RetransmitSteps(s, p) = Reply(t, InflightPackets(s))
    BY <1>2 DEF RetransmitSteps, t
  <2>. QED  BY <2>5, <2>6, InflightGood DEF ReplyInv, Reply
<1>. QED  BY <1>1, <1>2

-----------------------------------------------------------------------------
(* Chains of steps.                                                         *)

\* Where a chain of steps ends.
ChainEnd(start, steps) ==
    IF Len(steps) = 0 THEN start ELSE steps[Len(steps)].origin

\* The step k tiles on the way of p from base.
StepOf(s, p, base, k) ==
    LET revision == RevisionAfter(s.next_cache_revision, k)
    IN  [revision |-> revision, origin |-> OriginAfter(base, p.target, k),
         packet |-> EdgePacket(revision,
                        edge_window(p.map, p.ver,
                            OriginAfter(base, p.target, k - 1),
                            OriginAfter(base, p.target, k)))]

\* A chain continued by a chain from its end is a chain.
LEMMA ChainConcat ==
    ASSUME NEW start \in Origin, NEW a \in Seq(InflightStep),
           NEW b \in Seq(InflightStep), NEW last \in 0 .. MaxRevision,
           Len(a) + Len(b) <= MaxRevision,
           Chained(start, a, last),
           Chained(ChainEnd(start, a), b, RevisionAfter(last, Len(b)))
    PROVE  Chained(start, a \o b, RevisionAfter(last, Len(b)))
<1>. DEFINE joined == a \o b
            m == Len(a)
            n == Len(b)
<1>1. /\ m \in Nat /\ n \in Nat /\ Len(joined) = m + n
      /\ \A i \in 1 .. m + n : joined[i] = IF i <= m THEN a[i] ELSE b[i - m]
      /\ \A i \in 1 .. m : a[i] \in InflightStep
  BY ConcatProperties
<1>2. ChainEnd(start, a) = IF m = 0 THEN start ELSE a[m].origin
  BY DEF ChainEnd
<1>3. \A i \in 1 .. m :
        /\ Gap(IF i = 1 THEN start ELSE a[i - 1].origin, a[i].origin) = 1
        /\ RevisionAfter(a[i].revision, m - i) = last
  BY DEF Chained
<1>4. \A i \in 1 .. n :
        /\ Gap(IF i = 1 THEN ChainEnd(start, a) ELSE b[i - 1].origin,
               b[i].origin) = 1
        /\ RevisionAfter(b[i].revision, n - i) = RevisionAfter(last, n)
  BY DEF Chained
<1>. HIDE DEF joined, m, n
<1>5. MaxRevision \in Nat /\ m + n <= MaxRevision
  BY SessionAssumption DEF m, n
<1>6. ASSUME NEW i \in 1 .. m + n
      PROVE  /\ Gap(IF i = 1 THEN start ELSE joined[i - 1].origin,
                    joined[i].origin) = 1
             /\ RevisionAfter(joined[i].revision, m + n - i)
                  = RevisionAfter(last, n)
  <2>1. CASE i <= m
    <3>1. /\ i \in 1 .. m /\ joined[i] = a[i]
          /\ i # 1 => joined[i - 1] = a[i - 1]
      BY <1>1, <2>1
    <3>2. a[i].revision \in 0 .. MaxRevision
      BY <1>1, <1>5, <3>1 DEF InflightStep
    <3>3. /\ m - i \in 0 .. MaxRevision /\ n \in 0 .. MaxRevision
          /\ (m - i) + n <= MaxRevision /\ (m - i) + n = m + n - i
      <4>1. i \in 1 .. m /\ m \in Nat /\ n \in Nat
        BY <1>1, <3>1
      <4> QED BY <1>5, <4>1
    <3>4. RevisionAfter(RevisionAfter(a[i].revision, m - i), n)
            = RevisionAfter(a[i].revision, m + n - i)
      <4>1. /\ (m - i) \in 0 .. MaxRevision
            /\ RevisionAfter(RevisionAfter(a[i].revision, m - i), n)
                 = RevisionAfter(a[i].revision, (m - i) + n)
        BY <1>5, <3>2, <3>3, AdvanceAdd DEF RevisionAfter
      <4> QED BY <4>1, <3>3
    <3>. QED  BY <1>3, <3>1, <3>4
  <2>2. CASE i > m
    <3>1. PICK j \in Int : j = i - m
      BY <1>1
    <3>2. j \in 1 .. n /\ joined[i] = b[j] /\ m + n - i = n - j
      BY <1>1, <2>2, <3>1
    <3>3. (IF i = 1 THEN start ELSE joined[i - 1].origin)
            = IF j = 1 THEN ChainEnd(start, a) ELSE b[j - 1].origin
      <4>1. CASE j = 1
        <5>1. i = m + 1 /\ (m # 0 => i - 1 = m /\ i - 1 \in 1 .. m + n)
          BY <1>1, <3>1, <4>1
        <5>2. m # 0 => joined[i - 1] = a[m]
          BY <1>1, <5>1
        <5>. QED  BY <1>1, <1>2, <4>1, <5>1, <5>2
      <4>2. CASE j # 1
        <5>1. /\ i # 1 /\ i - 1 \in 1 .. m + n /\ i - 1 > m
              /\ i - 1 - m = j - 1
          BY <1>1, <3>1, <3>2, <4>2
        <5>2. joined[i - 1] = b[j - 1]
          BY <1>1, <5>1
        <5>. QED  BY <4>2, <5>1, <5>2
      <4>. QED  BY <4>1, <4>2
    <3>. QED  BY <1>4, <3>2, <3>3
  <2>. QED  BY <1>1, <2>1, <2>2
<1>. QED  BY <1>1, <1>6 DEF Chained, joined, m, n

\* What follows a step of a chain is a chain from there.
LEMMA ChainSuffix ==
    ASSUME NEW start \in Origin, NEW a \in Seq(PlacedStep),
           NEW last \in 0 .. MaxRevision, Chained(start, a, last),
           NEW i \in 1 .. Len(a)
    PROVE  /\ SubSeq(a, i + 1, Len(a)) \in Seq(PlacedStep)
           /\ Len(SubSeq(a, i + 1, Len(a))) = Len(a) - i
           /\ Chained(a[i].origin, SubSeq(a, i + 1, Len(a)), last)
<1>. DEFINE n == Len(a)
            b == SubSeq(a, i + 1, n)
<1>1. /\ n \in Nat /\ i \in 1 .. n
      /\ \A j \in 1 .. n : a[j] \in PlacedStep
  OBVIOUS
<1>2. /\ b \in Seq(PlacedStep) /\ Len(b) = n - i
      /\ \A j \in 1 .. n - i : b[j] = a[i + j]
  BY <1>1, SubSeqProperties
<1>3. \A j \in 1 .. n :
        /\ Gap(IF j = 1 THEN start ELSE a[j - 1].origin, a[j].origin) = 1
        /\ RevisionAfter(a[j].revision, n - j) = last
  BY DEF Chained
<1>. HIDE DEF n, b
<1>4. ASSUME NEW j \in 1 .. n - i
      PROVE  /\ Gap(IF j = 1 THEN a[i].origin ELSE b[j - 1].origin,
                    b[j].origin) = 1
             /\ RevisionAfter(b[j].revision, (n - i) - j) = last
  <2>1. PICK k \in Int : k = i + j
    BY <1>1
  <2>2. k \in 1 .. n /\ k # 1 /\ b[j] = a[k] /\ (n - i) - j = n - k
    BY <1>1, <1>2, <2>1
  <2>3. (IF j = 1 THEN a[i].origin ELSE b[j - 1].origin) = a[k - 1].origin
    <3>1. CASE j = 1
      <4>1. k - 1 = i
        BY <1>1, <2>1, <3>1
      <4>. QED  BY <3>1, <4>1
    <3>2. CASE j # 1
      <4>1. j - 1 \in 1 .. n - i /\ i + (j - 1) = k - 1
        BY <1>1, <2>1, <3>2
      <4>2. b[j - 1] = a[k - 1]
        BY <1>2, <4>1
      <4>. QED  BY <3>2, <4>2
    <3>. QED  BY <3>1, <3>2
  <2>. QED  BY <1>3, <2>2, <2>3
<1>. QED  BY <1>2, <1>4 DEF Chained, b, n

\* No two steps of a pipeline have the same revision, so an ACK names at most
\* one of them.
LEMMA ChainDistinct ==
    ASSUME NEW start \in Origin, NEW a \in Seq(InflightStep),
           Len(a) <= MaxRevision,
           NEW last \in 0 .. MaxRevision, Chained(start, a, last),
           NEW i \in 1 .. Len(a), NEW j \in 1 .. Len(a),
           a[i].revision = a[j].revision
    PROVE  i = j
<1>. DEFINE n == Len(a)
<1>1. n \in Nat /\ i \in 1 .. n /\ j \in 1 .. n /\ n <= MaxRevision
  OBVIOUS
<1>2. MaxRevision \in Nat /\ a[i].revision \in 1 .. MaxRevision
  <2>1. a[i] \in InflightStep
    OBVIOUS
  <2>. QED  BY <2>1, SessionAssumption DEF InflightStep
<1>3. RevisionAfter(a[i].revision, n - i) = RevisionAfter(a[i].revision, n - j)
  BY DEF Chained
<1>. HIDE DEF n
<1>4. n - i \in 0 .. MaxRevision - 1 /\ n - j \in 0 .. MaxRevision - 1
  BY <1>1, <1>2
<1>5. n - i = n - j
  <2>1. Advance(a[i].revision, n - i, MaxRevision)
          = Advance(a[i].revision, n - j, MaxRevision)
    BY <1>3 DEF RevisionAfter
  <2>. QED  BY <1>2, <1>4, <2>1, AdvanceInjective, Zenon
<1>. QED  BY <1>1, <1>5

\* The steps towards the player are a chain of edges in their place.
LEMMA ChainNew ==
    ASSUME NEW s \in Session, NEW p \in Player, NEW base \in Origin,
           NEW n \in 1 .. MaxRevision, n <= Gap(base, p.target)
    PROVE  LET new == [k \in 1 .. n |-> StepOf(s, p, base, k)]
               out == [k \in 1 .. n |-> StepOf(s, p, base, k).packet]
           IN  /\ new \in Seq(PlacedStep) /\ Len(new) = n
               /\ out \in Seq(PlacedMsg)
               /\ Chained(base, new, RevisionAfter(s.next_cache_revision, n))
<1>. DEFINE Rev(k) == RevisionAfter(s.next_cache_revision, k)
            Org(k) == OriginAfter(base, p.target, k)
            Pkt(k) == StepOf(s, p, base, k).packet
            new == [k \in 1 .. n |-> StepOf(s, p, base, k)]
            out == [k \in 1 .. n |-> Pkt(k)]
<1>1. /\ p.target \in Origin /\ p.map \in Maps /\ p.ver \in Nat
      /\ s.next_cache_revision \in 0 .. MaxRevision
      /\ MaxRevision \in Nat /\ n \in Nat /\ n >= 1 /\ n <= MaxRevision
  BY SessionAssumption DEF Player, Session
<1>2. Gap(base, p.target) \in Nat
  BY <1>1, GapType
<1>3. \A k \in 1 .. n : Rev(k) \in 1 .. MaxRevision
  <2>1. \A k \in 1 .. n : k \in 1 .. MaxRevision
    BY <1>1
  <2>. QED  BY <1>1, <2>1, AdvanceType DEF RevisionAfter
<1>4. \A k \in 0 .. n : Org(k) \in Origin
  <2>1. \A k \in 0 .. n : k \in 0 .. Gap(base, p.target)
    BY <1>1, <1>2
  <2>. QED  BY <1>1, <2>1, OriginAfterType
<1>5. \A k \in 1 .. n : Gap(Org(k - 1), Org(k)) = 1
  <2>1. \A k \in 1 .. n : k \in 1 .. Gap(base, p.target)
    BY <1>1, <1>2
  <2>. QED  BY <1>1, <2>1, OriginAfterGap
<1>6. Org(0) = base
  BY <1>1, OriginAfterZero
<1>7. \A k \in 1 .. n :
        StepOf(s, p, base, k) =
          [revision |-> Rev(k), origin |-> Org(k),
           packet |-> EdgePacket(Rev(k),
                          edge_window(p.map, p.ver, Org(k - 1), Org(k)))]
  BY DEF StepOf
<1>. HIDE DEF Rev, Org
<1>8. \A k \in 1 .. n : Pkt(k) \in EdgeMsg /\ EdgePlaced(Pkt(k))
  <2>1. \A k \in 1 .. n : Org(k - 1) \in Origin /\ Org(k) \in Origin
    BY <1>1, <1>4
  <2>. QED  BY <1>1, <1>3, <1>5, <1>7, <2>1, EdgeGood
<1>9. \A k \in 1 .. n : StepOf(s, p, base, k) \in PlacedStep
  <2>1. \A k \in 1 .. n : Org(k) \in Origin
    BY <1>1, <1>4
  <2>. QED  BY <1>3, <1>7, <1>8, <2>1 DEF PlacedStep, InflightStep
<1>10. \A k \in 1 .. n : Pkt(k) \in PlacedMsg
  BY <1>8 DEF PlacedMsg, ServerMsg, PacketPlaced, EdgeMsg, ColumnEdgeMsg,
              RowEdgeMsg
<1>11. /\ new \in Seq(PlacedStep) /\ out \in Seq(PlacedMsg) /\ Len(new) = n
  BY <1>1, <1>9, <1>10
<1>12. \A k \in 1 .. n : new[k].origin = Org(k) /\ new[k].revision = Rev(k)
  BY <1>7
<1>. HIDE DEF new
<1>13. ASSUME NEW k \in 1 .. n
       PROVE  /\ Gap(IF k = 1 THEN base ELSE new[k - 1].origin,
                     new[k].origin) = 1
              /\ RevisionAfter(new[k].revision, n - k) = Rev(n)
  <2>1. (IF k = 1 THEN base ELSE new[k - 1].origin) = Org(k - 1)
    <3>1. CASE k = 1
      BY <1>6, <3>1
    <3>2. CASE k # 1
      <4>1. k - 1 \in 1 .. n
        BY <1>1, <3>2
      <4>. QED  BY <1>12, <3>2, <4>1
    <3>. QED  BY <3>1, <3>2
  <2>2. /\ k \in 0 .. MaxRevision /\ n - k \in 0 .. MaxRevision
        /\ k + (n - k) <= MaxRevision /\ k + (n - k) = n
    BY <1>1
  <2>3. RevisionAfter(Rev(k), n - k) = Rev(n)
    BY <1>1, <2>2, AdvanceAdd DEF RevisionAfter, Rev
  <2>. QED  BY <1>5, <1>12, <2>1, <2>3
<1>. QED  BY <1>11, <1>13 DEF Chained, new, Rev

-----------------------------------------------------------------------------
(* Filling the pipeline and what calls it.                                  *)

\* Filling the pipeline up while no fill is open.
LEMMA ExtendGood ==
    ASSUME NEW s, SessionInv(s), s.fill_origin = None, NEW p \in Player
    PROVE  ReplyInv(ExtendPipeline(s, p))
<1>. DEFINE old == s.inflight_steps
            depth == Len(s.inflight_steps)
            base == ChainEnd(s.window_origin, s.inflight_steps)
            room == IF depth < CACHE_STEP_PIPELINE
                    THEN CACHE_STEP_PIPELINE - depth ELSE 0
            n == Least(room, Gap(base, p.target))
            new == [k \in 1 .. n |-> StepOf(s, p, base, k)]
            out == [k \in 1 .. n |-> StepOf(s, p, base, k).packet]
            retries == IF depth = 0 THEN 0 ELSE s.step_retries
            revision == RevisionAfter(s.next_cache_revision, n)
            t == [s EXCEPT !.next_cache_revision = revision,
                           !.step_retries = retries,
                           !.inflight_steps = s.inflight_steps \o new]
<1>1. /\ s \in Session /\ old \in Seq(PlacedStep)
      /\ FillExcludesSteps(s) /\ StepsChained(s)
  BY DEF SessionInv
<1>2. /\ s.window_origin \in Origin /\ s.next_cache_revision \in 0 .. MaxRevision
      /\ s.step_retries \in 0 .. CACHE_STEP_RETRY_LIMIT
      /\ old \in Seq(InflightStep)
  BY <1>1 DEF Session
<1>3. /\ MaxRevision \in Nat /\ CACHE_STEP_PIPELINE \in Nat
      /\ CACHE_STEP_PIPELINE <= MaxRevision /\ CACHE_STEP_RETRY_LIMIT \in Nat
  BY SessionAssumption
<1>4. /\ depth \in Nat /\ depth <= CACHE_STEP_PIPELINE
      /\ \A i \in 1 .. depth : old[i] \in InflightStep
  BY <1>1, <1>2 DEF StepsChained
<1>5. base \in Origin
  BY <1>2, <1>4 DEF ChainEnd, InflightStep
<1>6. p.target \in Origin /\ Gap(base, p.target) \in Nat
  BY <1>5, GapType DEF Player
<1>7. ExtendPipeline(s, p) = IF n = 0 THEN Silent(s) ELSE Reply(t, out)
  BY DEF ExtendPipeline, StepOf, ChainEnd
<1>. HIDE DEF base
<1>8. /\ n \in Nat /\ n <= Gap(base, p.target)
      /\ n = 0 \/ depth + n <= CACHE_STEP_PIPELINE
  BY <1>3, <1>4, <1>6 DEF Least
<1>. HIDE DEF n
<1>9. CASE n = 0
  BY <1>7, <1>9, SilentGood
<1>10. CASE n # 0
  <2>1. n \in 1 .. MaxRevision /\ depth + n <= MaxRevision
    BY <1>3, <1>4, <1>8, <1>10
  <2>2. /\ new \in Seq(PlacedStep) /\ Len(new) = n
        /\ out \in Seq(PlacedMsg) /\ Chained(base, new, revision)
    BY <1>1, <1>5, <1>8, <2>1, ChainNew
  <2>. HIDE DEF new, out
  <2>3. /\ new \in Seq(InflightStep)
        /\ old \o new \in Seq(PlacedStep) /\ old \o new \in Seq(InflightStep)
        /\ Len(old \o new) = depth + n
    <3>1. new \in Seq(InflightStep)
      BY <2>2 DEF PlacedStep
    <3>. QED  BY <1>1, <1>2, <2>2, <3>1, ConcatProperties
  <2>4. Chained(s.window_origin, old \o new, revision)
    <3>1. Chained(s.window_origin, old, s.next_cache_revision)
      BY <1>1 DEF StepsChained
    <3>. QED  BY <1>2, <2>1, <2>2, <2>3, <3>1, ChainConcat DEF base
  <2>5. /\ revision \in 0 .. MaxRevision
        /\ retries \in 0 .. CACHE_STEP_RETRY_LIMIT
    <3>1. revision \in 1 .. MaxRevision
      BY <1>2, <1>3, <2>1, AdvanceType DEF RevisionAfter
    <3>. QED  BY <1>2, <1>3, <3>1
  <2>. HIDE DEF revision, retries
  <2>6. t \in Session
    BY <1>1, <2>3, <2>5 DEF Session
  <2>7. /\ t.inflight_steps = old \o new /\ t.next_cache_revision = revision
        /\ t.window_origin = s.window_origin /\ t.fill_origin = s.fill_origin
        /\ t.resync_rows = s.resync_rows
        /\ t.fill_waiting_for_commit = s.fill_waiting_for_commit
    BY <1>1 DEF Session
  <2>8. FillExcludesSteps(t)
    BY <1>1, <2>7 DEF FillExcludesSteps
  <2>9. StepsChained(t)
    BY <1>8, <1>10, <2>3, <2>4, <2>7 DEF StepsChained
  <2>10. SessionInv(t)
    BY <2>3, <2>6, <2>7, <2>8, <2>9 DEF SessionInv
  <2>. QED  BY <1>7, <1>10, <2>2, <2>10 DEF ReplyInv, Reply
<1>. QED  BY <1>9, <1>10

\* The service of a session that has no fill open.
LEMMA ServiceGood ==
    ASSUME NEW s, SessionInv(s), s.fill_origin = None, NEW p \in Player,
           NEW timer \in BOOLEAN
    PROVE  ReplyInv(_service_cache_step(s, p, timer))
  BY ExtendGood, RetransmitGood DEF _service_cache_step


\* An ACK moves the window to a step of the chain, repeats the pipeline, or
\* does nothing.
LEMMA AckGood ==
    ASSUME NEW s, SessionInv(s), NEW p \in Player,
           NEW ack \in [type : {"ack"}, revision : 0 .. MaxRevision, origin : Origin],
           NEW settled \in BOOLEAN
    PROVE  ReplyInv(_handle_cache_step_ack(s, p, ack, settled))
<1>. DEFINE steps == s.inflight_steps
            hits == {i \in 1 .. Len(s.inflight_steps) :
                        s.inflight_steps[i].revision = ack.revision}
            reply == _handle_cache_step_ack(s, p, ack, settled)
<1>1. /\ s \in Session /\ steps \in Seq(PlacedStep) /\ Len(steps) \in Nat
      /\ FillExcludesSteps(s) /\ StepsChained(s)
  BY DEF SessionInv
<1>2. CASE hits = {}
  <2>1. reply = Silent(s) \/ reply = Reply(s, InflightPackets(s))
    BY <1>2 DEF _handle_cache_step_ack
  <2>. QED  BY <2>1, SilentGood, InflightGood DEF ReplyInv, Reply
<1>3. CASE hits # {}
  <2>. DEFINE first == CHOOSE h \in hits : \A g \in hits : h <= g
              left == SubSeq(steps, first + 1, Len(steps))
              t == [s EXCEPT !.window_origin = ack.origin,
                             !.last_acked_revision = ack.revision,
                             !.inflight_steps = left,
                             !.step_retries = 0]
  <2>1. first \in 1 .. Len(steps)
    <3>1. /\ s.window_origin \in Origin /\ steps \in Seq(InflightStep)
          /\ s.next_cache_revision \in 0 .. MaxRevision
          /\ Chained(s.window_origin, steps, s.next_cache_revision)
          /\ Len(steps) <= MaxRevision
      BY <1>1, SessionAssumption DEF Session, StepsChained
    <3>2. \A g, h \in hits : g = h
      BY <3>1, ChainDistinct
    <3>3. \A g \in hits : g <= g
      BY <1>1
    <3>. QED  BY <1>3, <3>2, <3>3
  <2>2. reply = IF ack.origin # steps[first].origin THEN Silent(s)
                ELSE _service_cache_step(t, p, FALSE)
    BY <1>3 DEF _handle_cache_step_ack
  <2>3. CASE ack.origin # steps[first].origin
    BY <2>2, <2>3, SilentGood
  <2>4. CASE ack.origin = steps[first].origin
    <3>1. /\ s.window_origin \in Origin
          /\ s.next_cache_revision \in 0 .. MaxRevision
          /\ Chained(s.window_origin, steps, s.next_cache_revision)
          /\ Len(steps) <= CACHE_STEP_PIPELINE
          /\ CACHE_STEP_PIPELINE \in Nat
      BY <1>1, SessionAssumption DEF Session, StepsChained
    <3>2. /\ left \in Seq(PlacedStep) /\ Len(left) = Len(steps) - first
          /\ Chained(ack.origin, left, s.next_cache_revision)
      <4>1. /\ SubSeq(steps, first + 1, Len(steps)) \in Seq(PlacedStep)
            /\ Len(SubSeq(steps, first + 1, Len(steps))) = Len(steps) - first
            /\ Chained(steps[first].origin,
                       SubSeq(steps, first + 1, Len(steps)),
                       s.next_cache_revision)
        <5>. HIDE DEF steps, first
        <5>. QED  BY <1>1, <2>1, <3>1, ChainSuffix
      <4>. QED  BY <2>4, <4>1
    <3>3. left \in Seq(InflightStep) /\ 0 \in 0 .. CACHE_STEP_RETRY_LIMIT
      BY <3>2, SessionAssumption DEF PlacedStep
    <3>. HIDE DEF left, first
    <3>4. t \in Session
      BY <1>1, <3>3 DEF Session
    <3>5. /\ t.inflight_steps = left /\ t.window_origin = ack.origin
          /\ t.next_cache_revision = s.next_cache_revision
          /\ t.fill_origin = s.fill_origin /\ t.resync_rows = s.resync_rows
          /\ t.fill_waiting_for_commit = s.fill_waiting_for_commit
      BY <1>1 DEF Session
    <3>. HIDE DEF t
    <3>6. s.fill_origin = None
      BY <1>1, <2>1 DEF FillExcludesSteps
    <3>7. FillExcludesSteps(t)
      BY <1>1, <3>5, <3>6 DEF FillExcludesSteps
    <3>8. StepsChained(t)
      BY <1>1, <2>1, <3>1, <3>2, <3>5 DEF StepsChained
    <3>9. SessionInv(t)
      BY <3>2, <3>4, <3>5, <3>7, <3>8 DEF SessionInv
    <3>10. ReplyInv(_service_cache_step(t, p, FALSE))
      BY <3>5, <3>6, <3>9, ServiceGood
    <3>. QED  BY <2>2, <2>4, <3>10
  <2>. QED  BY <2>3, <2>4
<1>. QED  BY <1>2, <1>3

-----------------------------------------------------------------------------
(* Fills.                                                                   *)

\* A commit closes the fill it names, is acknowledged again, or is ignored.
LEMMA CommitGood ==
    ASSUME NEW s, SessionInv(s), NEW p \in Player,
           NEW commit \in [type : {"commit"}, fill_id : 0 .. MaxFillId,
                           origin : Origin, map : Maps]
    PROVE  ReplyInv(_handle_window_commit(s, p, commit))
<1>1. s \in Session /\ FillExcludesSteps(s) /\ StepsChained(s)
  BY DEF SessionInv
<1>2. s.fill_id \in 0 .. MaxFillId /\ s.window_origin \in Origin
  BY <1>1 DEF Session
<1>3. ASSUME NEW o \in Origin
      PROVE  <<CommitAckPacket(s.fill_id, o)>> \in Seq(PlacedMsg)
  <2>1. CommitAckPacket(s.fill_id, o) \in PlacedMsg
    BY <1>2 DEF CommitAckPacket, PlacedMsg, ServerMsg, CommitAckMsg, PacketPlaced
  <2>. QED  BY <2>1
<1>4. CASE s.fill_origin = None
  BY <1>2, <1>3, <1>4, SilentGood
     DEF _handle_window_commit, ReplyInv, Reply, Silent
<1>5. CASE s.fill_origin # None
  <2>. DEFINE t == [s EXCEPT !.window_origin = s.fill_origin,
                             !.fill_origin = None,
                             !.fill_waiting_for_commit = FALSE,
                             !.resync_rows = None]
  <2>1. s.fill_origin \in Origin
    BY <1>1, <1>5 DEF Session
  <2>2. t \in Session
    BY <1>1, <2>1 DEF Session
  <2>3. /\ t.inflight_steps = s.inflight_steps /\ t.fill_origin = None
        /\ t.resync_rows = None /\ t.fill_waiting_for_commit = FALSE
        /\ s.inflight_steps = << >>
    BY <1>1, <1>5 DEF Session, FillExcludesSteps
  <2>4. \/ _handle_window_commit(s, p, commit) = Silent(s)
        \/ _handle_window_commit(s, p, commit)
             = Reply(t, <<CommitAckPacket(s.fill_id, s.fill_origin)>>)
    BY <1>5 DEF _handle_window_commit
  <2>. HIDE DEF t
  <2>5. FillExcludesSteps(t)
    BY <2>3 DEF FillExcludesSteps
  <2>6. StepsChained(t)
    BY <2>3, SessionAssumption DEF StepsChained, Chained
  <2>7. SessionInv(t)
    BY <2>2, <2>3, <2>5, <2>6 DEF SessionInv
  <2>8. ReplyInv(Reply(t, <<CommitAckPacket(s.fill_id, s.fill_origin)>>))
    BY <1>3, <2>1, <2>7 DEF ReplyInv, Reply
  <2>. QED  BY <2>4, <2>8, SilentGood DEF t
<1>. QED  BY <1>4, <1>5


\* A resync request starts a fill, reopens the rows of one, abandons one,
\* rewinds the window or does nothing.
LEMMA ResyncGood ==
    ASSUME NEW s, SessionInv(s), NEW p \in Player,
           NEW r \in [type : {"resync"}, clean : BOOLEAN, origin : Origin,
                      fill_id : 0 .. MaxFillId, fill_origin : Origin,
                      rows_have : SUBSET Row]
    PROVE  SessionInv(_handle_resync_request(s, p, r))
<1>1. /\ s \in Session /\ s.inflight_steps \in Seq(PlacedStep)
      /\ FillExcludesSteps(s) /\ StepsChained(s)
  BY DEF SessionInv
<1>2. CASE r.clean
  BY <1>2, StartGood DEF _handle_resync_request
<1>3. CASE ~r.clean /\ s.fill_origin # None /\ r.fill_id = s.fill_id
  <2>. DEFINE t == [s EXCEPT !.resync_rows = Row \ r.rows_have,
                             !.fill_waiting_for_commit = FALSE]
  <2>1. t \in Session
    BY <1>1 DEF Session
  <2>2. /\ t.inflight_steps = s.inflight_steps
        /\ t.window_origin = s.window_origin
        /\ t.next_cache_revision = s.next_cache_revision
        /\ t.fill_origin = s.fill_origin
        /\ t.resync_rows = Row \ r.rows_have
        /\ t.fill_waiting_for_commit = FALSE
    BY <1>1 DEF Session
  <2>3. Row \ r.rows_have # None
    BY SessionAssumption
  <2>4. _handle_resync_request(s, p, r) = t
    BY <1>3 DEF _handle_resync_request
  <2>. HIDE DEF t
  <2>. QED
    BY <1>1, <1>3, <2>1, <2>2, <2>3, <2>4
       DEF SessionInv, FillExcludesSteps, StepsChained
<1>4. CASE ~r.clean /\ ~(s.fill_origin # None /\ r.fill_id = s.fill_id)
  <2>. DEFINE t == AbandonFill(s)
              u == [_cancel_inflight_step(t) EXCEPT !.window_origin = r.origin]
  <2>1. SessionInv(t)
    <3>1. CASE s.fill_waiting_for_commit
      <4>. DEFINE v == [s EXCEPT !.fill_origin = None,
                                 !.fill_waiting_for_commit = FALSE]
      <4>1. v \in Session
        BY <1>1 DEF Session
      <4>2. /\ v.inflight_steps = s.inflight_steps
            /\ v.window_origin = s.window_origin
            /\ v.next_cache_revision = s.next_cache_revision
            /\ v.fill_origin = None
            /\ v.resync_rows = s.resync_rows
            /\ v.fill_waiting_for_commit = FALSE
        BY <1>1 DEF Session
      <4>3. t = v
        BY <3>1 DEF AbandonFill
      <4>. HIDE DEF t, v
      <4>. QED
        BY <1>1, <3>1, <4>1, <4>2, <4>3
           DEF SessionInv, FillExcludesSteps, StepsChained
    <3>2. CASE ~s.fill_waiting_for_commit
      BY <3>2 DEF AbandonFill
    <3>. QED  BY <3>1, <3>2
  <2>2. _handle_resync_request(s, p, r) = ReplayOrRefill(t, p, r)
    BY <1>4 DEF _handle_resync_request
  <2>. HIDE DEF t
  <2>3. ASSUME t.resync_rows = None
        PROVE  SessionInv(u)
    <3>. DEFINE c == _cancel_inflight_step(t)
    <3>1. t \in Session /\ c \in Session /\ SessionInv(c)
      BY <2>1, CancelGood DEF SessionInv
    <3>2. c.inflight_steps = << >>
      BY <3>1 DEF _cancel_inflight_step, Session
    <3>. HIDE DEF c
    <3>3. u = [c EXCEPT !.window_origin = r.origin]
      BY DEF c
    <3>. HIDE DEF u
    <3>4. u \in Session
      <4>1. r.origin \in Origin
        BY <1>1
      <4>. QED  BY <3>1, <3>3, <4>1 DEF Session
    <3>5. /\ u.inflight_steps = << >> /\ u.fill_origin = c.fill_origin
          /\ u.resync_rows = c.resync_rows
          /\ u.fill_waiting_for_commit = c.fill_waiting_for_commit
      BY <3>1, <3>2, <3>3 DEF Session
    <3>. QED
      BY <3>1, <3>4, <3>5, SessionAssumption
         DEF SessionInv, FillExcludesSteps, StepsChained, Chained
  <2>4. RowsFor(p, r) \in SUBSET Row
    BY DEF RowsFor
  <2>5. SessionInv(_start_window_resync(t, p, RowsFor(p, r)))
    BY <2>1, <2>4, StartGood
  <2>. HIDE DEF u
  <2>6. \/ ReplayOrRefill(t, p, r) = t
        \/ t.resync_rows = None /\ ReplayOrRefill(t, p, r) = u
        \/ ReplayOrRefill(t, p, r) = _start_window_resync(t, p, RowsFor(p, r))
    BY DEF ReplayOrRefill, u
  <2>. QED  BY <2>1, <2>2, <2>3, <2>5, <2>6
<1>. QED  BY <1>2, <1>3, <1>4

-----------------------------------------------------------------------------
(* The tick.                                                                *)

\* Announcing a map opens a fill with it, or finds one open.
LEMMA AnnounceGood ==
    ASSUME NEW s, SessionInv(s), NEW p \in Player, NEW resend \in BOOLEAN
    PROVE  ReplyInv(AnnounceMap(s, p, resend))
<1>1. s \in Session
  BY DEF SessionInv
<1>2. ASSUME NEW m \in Maps
      PROVE  <<MapChangePacket(m)>> \in Seq(PlacedMsg)
  <2>1. MapChangePacket(m) \in PlacedMsg
    BY DEF MapChangePacket, PlacedMsg, ServerMsg, MapChangeMsg, PacketPlaced
  <2>. QED  BY <2>1
<1>3. CASE p.pending_map_change # None
  <2>. DEFINE m == p.pending_map_change
              t == [s EXCEPT !.last_map_change = m]
  <2>1. m \in Maps
    BY <1>3 DEF Player
  <2>2. t \in Session
    BY <1>1, <2>1 DEF Session
  <2>3. /\ t.inflight_steps = s.inflight_steps
        /\ t.window_origin = s.window_origin
        /\ t.next_cache_revision = s.next_cache_revision
        /\ t.fill_origin = s.fill_origin /\ t.resync_rows = s.resync_rows
        /\ t.fill_waiting_for_commit = s.fill_waiting_for_commit
    BY <1>1 DEF Session
  <2>4. AnnounceMap(s, p, resend)
          = Reply(_start_window_resync(t, p, Row), <<MapChangePacket(m)>>)
    BY <1>3 DEF AnnounceMap
  <2>. HIDE DEF t
  <2>5. SessionInv(t)
    BY <2>2, <2>3 DEF SessionInv, FillExcludesSteps, StepsChained
  <2>6. SessionInv(_start_window_resync(t, p, Row))
    BY <2>5, StartGood
  <2>. QED  BY <1>2, <2>1, <2>4, <2>6 DEF ReplyInv, Reply
<1>4. CASE p.pending_map_change = None
  <2>1. SessionInv(_start_window_resync(s, p, Row))
    BY StartGood
  <2>2. s.last_map_change # None => s.last_map_change \in Maps
    BY <1>1 DEF Session
  <2>. QED  BY <1>2, <1>4, <2>1, <2>2, SilentGood
            DEF AnnounceMap, ReplyInv, Reply
<1>. QED  BY <1>3, <1>4

\* Opening a fill clears needs_full_resync with it.
LEMMA OpenGood ==
    ASSUME NEW s, SessionInv(s), NEW p \in Player
    PROVE  SessionInv(OpenFill(s, p))
<1>. DEFINE t == [s EXCEPT !.needs_full_resync = FALSE]
<1>1. s \in Session
  BY DEF SessionInv
<1>2. t \in Session
  BY <1>1 DEF Session
<1>3. /\ t.inflight_steps = s.inflight_steps
      /\ t.window_origin = s.window_origin
      /\ t.next_cache_revision = s.next_cache_revision
      /\ t.fill_origin = s.fill_origin /\ t.resync_rows = s.resync_rows
      /\ t.fill_waiting_for_commit = s.fill_waiting_for_commit
  BY <1>1 DEF Session
<1>4. OpenFill(s, p) = s \/ OpenFill(s, p) = _start_window_resync(t, p, Row)
  BY DEF OpenFill
<1>. HIDE DEF t
<1>5. SessionInv(t)
  BY <1>2, <1>3 DEF SessionInv, FillExcludesSteps, StepsChained
<1>6. SessionInv(_start_window_resync(t, p, Row))
  BY <1>5, StartGood
<1>. QED  BY <1>4, <1>6

\* The rows a tick sends carry the tiles of their place.
LEMMA SendRowsGood ==
    ASSUME NEW s, SessionInv(s), s.resync_rows # None, NEW p \in Player,
           NEW batch \in RowBatch(s.resync_rows)
    PROVE  ReplyInv(SendRows(s, p, batch))
<1>. DEFINE left == s.resync_rows \ {batch[i] : i \in DOMAIN batch}
            o == IF s.fill_origin # None THEN s.fill_origin ELSE s.window_origin
            Pkt(i) == RowPacket(s.fill_id, o[1], o[2] + batch[i], batch[i],
                          window_row_tiles(p.map, p.ver, o[1], o[2] + batch[i]))
            out == [i \in DOMAIN batch |-> Pkt(i)]
            t == [s EXCEPT !.resync_rows = IF left = {} THEN None ELSE left,
                           !.fill_waiting_for_commit = (left = {})]
<1>1. /\ s \in Session /\ FillExcludesSteps(s) /\ StepsChained(s)
  BY DEF SessionInv
<1>2. /\ s.resync_rows \in SUBSET Row /\ s.fill_id \in 0 .. MaxFillId
      /\ o \in Origin
  BY <1>1 DEF Session
<1>3. PICK n \in 0 .. ResyncRowBudget : batch \in [1 .. n -> s.resync_rows]
  BY DEF RowBatch
<1>4. /\ DOMAIN batch = 1 .. n /\ n \in Nat
      /\ \A i \in 1 .. n : batch[i] \in Row
  BY <1>2, <1>3, SessionAssumption
<1>. HIDE DEF o
<1>5. ASSUME NEW i \in 1 .. n
      PROVE  Pkt(i) \in PlacedMsg
  <2>1. /\ batch[i] \in Row /\ o[1] \in 0 .. MaxX /\ o[2] \in 0 .. MaxY
        /\ p.map \in Maps /\ p.ver \in Nat
    BY <1>2, <1>4, OriginParts DEF Player
  <2>. DEFINE y == o[2] + batch[i]
              tiles == window_row_tiles(p.map, p.ver, o[1], y)
  <2>2. /\ y \in 0 .. MaxY + WINDOW_H - 1 /\ o[1] \in Int /\ y \in Int
        /\ y - batch[i] \in 0 .. MaxY
    BY <2>1, WindowAssumption DEF Row
  <2>. HIDE DEF y
  <2>3. tiles \in RowTiles
    BY <2>1, <2>2, WindowAssumption
       DEF window_row_tiles, RowTiles, Tile, TileAt, Col
  <2>4. RowPlaced(tiles, o[1], y)
    BY DEF window_row_tiles, RowPlaced, PlacedAt, TileAt
  <2>. HIDE DEF tiles
  <2>5. RowPacket(s.fill_id, o[1], y, batch[i], tiles) \in PlacedMsg
    BY <1>2, <2>1, <2>2, <2>3, <2>4
       DEF RowPacket, PlacedMsg, ServerMsg, RowMsg, PacketPlaced
  <2>. QED  BY <2>5 DEF y, tiles
<1>6. out \in Seq(PlacedMsg)
  BY <1>4, <1>5
<1>7. t \in Session
  BY <1>1, <1>2 DEF Session
<1>8. /\ t.inflight_steps = s.inflight_steps
      /\ t.window_origin = s.window_origin
      /\ t.next_cache_revision = s.next_cache_revision
      /\ t.fill_origin = s.fill_origin
      /\ t.resync_rows = (IF left = {} THEN None ELSE left)
      /\ t.fill_waiting_for_commit = (left = {})
  BY <1>1 DEF Session
<1>9. left # None
  BY <1>2, SessionAssumption
<1>10. SendRows(s, p, batch) = Reply(t, out)
  BY DEF SendRows, o
<1>. HIDE DEF t, left, out
<1>11. FillExcludesSteps(t)
  BY <1>1, <1>8, <1>9 DEF FillExcludesSteps
<1>12. SessionInv(t)
  BY <1>1, <1>7, <1>8, <1>11 DEF SessionInv, StepsChained
<1>. QED  BY <1>6, <1>10, <1>12 DEF ReplyInv, Reply

\* The tile update of a tick is placed, and no tile of another map.
LEMMA WorldTold ==
    ASSUME NEW s, NEW p \in Player, NEW w \in _snapshot_tile_update(s, p)
    PROVE  /\ w \in WorldMsg
           /\ w.tile = Grass \/ w.tile.map = p.map
<1>1. p.map \in Maps /\ p.ver \in Nat
  BY DEF Player
<1>2. CASE w = WorldStatePacket(0, 0, Grass)
  <2>1. /\ 0 \in 0 .. MaxX + WINDOW_W - 1 /\ 0 \in 0 .. MaxY + WINDOW_H - 1
        /\ Grass \in Tile
    BY WindowAssumption DEF Tile
  <2>2. PlacedAt(Grass, 0, 0)
    BY DEF PlacedAt, Grass
  <2>. QED  BY <1>2, <2>1, <2>2 DEF WorldStatePacket, WorldMsg
<1>3. ASSUME NEW d \in Changing,
             w = WorldStatePacket(d[1], d[2], TileAt(p.map, p.ver, d[1], d[2]))
      PROVE  /\ w \in WorldMsg
             /\ w.tile.map = p.map
  <2>1. /\ d[1] \in 0 .. MaxX + WINDOW_W - 1 /\ d[2] \in 0 .. MaxY + WINDOW_H - 1
        /\ d[1] \in Int /\ d[2] \in Int
    BY SessionAssumption, WindowAssumption DEF Place
  <2>2. /\ TileAt(p.map, p.ver, d[1], d[2]) \in Tile
        /\ PlacedAt(TileAt(p.map, p.ver, d[1], d[2]), d[1], d[2])
        /\ TileAt(p.map, p.ver, d[1], d[2]).map = p.map
    BY <1>1, <2>1 DEF TileAt, Tile, PlacedAt
  <2>. QED  BY <1>3, <2>1, <2>2 DEF WorldStatePacket, WorldMsg
<1>4. \/ w = WorldStatePacket(0, 0, Grass)
      \/ \E d \in Changing :
            w = WorldStatePacket(d[1], d[2], TileAt(p.map, p.ver, d[1], d[2]))
  BY DEF _snapshot_tile_update
<1>. QED  BY <1>2, <1>3, <1>4

\* The slot of the WORLD_STATE is no part of either mechanism.
LEMMA QueueGood ==
    ASSUME NEW s, SessionInv(s), NEW w \in {None} \cup WorldMsg
    PROVE  SessionInv(QueueWorld(s, w))
<1>. DEFINE t == QueueWorld(s, w)
<1>1. s \in Session
  BY DEF SessionInv
<1>2. t \in Session
  BY <1>1 DEF QueueWorld, Session
<1>3. /\ t.inflight_steps = s.inflight_steps /\ t.fill_origin = s.fill_origin
      /\ t.resync_rows = s.resync_rows /\ t.window_origin = s.window_origin
      /\ t.fill_waiting_for_commit = s.fill_waiting_for_commit
      /\ t.next_cache_revision = s.next_cache_revision
  BY <1>1 DEF QueueWorld, Session
<1>. HIDE DEF t
<1>4. SessionInv(t)
  BY <1>2, <1>3 DEF SessionInv, FillExcludesSteps, StepsChained
<1>. QED  BY <1>4 DEF t

\* Whatever the timers do, a tick keeps the session in order and the tiles it
\* sends in their place.
LEMMA TickGood ==
    ASSUME NEW s, SessionInv(s), NEW p \in Player,
           NEW timers \in [resend : BOOLEAN, commit : BOOLEAN, step : BOOLEAN],
           NEW t \in _send_tick_packets(s, p, timers)
    PROVE  SessionInv(t.session) /\ t.player \in Player
             /\ t.out \in Seq(PlacedMsg)
<1>. DEFINE announced == AnnounceMap(s, p, timers.resend)
            waited == ExpireCommit(announced.session, p, timers.commit)
            opened == OpenFill(waited, p)
<1>1. ReplyInv(announced)
  BY AnnounceGood
<1>. HIDE DEF announced
<1>2. SessionInv(waited)
  BY <1>1, StartGood DEF ReplyInv, ExpireCommit
<1>. HIDE DEF waited
<1>3. SessionInv(opened)
  BY <1>2, OpenGood
<1>. HIDE DEF opened
<1>4. PICK u \in TransmitTerrain(opened, p, timers.step),
           world \in _snapshot_tile_update(opened, p) :
        t = Ticked(announced, u, world, ConsumeFlags(waited, p))
  BY DEF _send_tick_packets, announced, waited, opened
<1>5. ReplyInv(u)
  <2>1. CASE opened.resync_rows # None
    BY <1>3, <2>1, SendRowsGood DEF TransmitTerrain
  <2>2. CASE opened.resync_rows = None /\ opened.fill_waiting_for_commit
    BY <1>3, <2>2, SilentGood DEF TransmitTerrain
  <2>3. CASE opened.resync_rows = None /\ ~opened.fill_waiting_for_commit
    <3>1. opened.fill_origin = None
      BY <1>3, <2>3 DEF SessionInv, FillExcludesSteps
    <3>. QED  BY <1>3, <2>3, <3>1, ServiceGood DEF TransmitTerrain
  <2>. QED  BY <2>1, <2>2, <2>3
<1>6. ConsumeFlags(waited, p) \in Player
  BY DEF ConsumeFlags, Player
<1>7. announced.out \o u.out \in Seq(PlacedMsg)
  BY <1>1, <1>5, ConcatProperties DEF ReplyInv
<1>8. SessionInv(QueueWorld(u.session, world))
  BY <1>5, WorldTold, QueueGood DEF ReplyInv
<1>. QED  BY <1>4, <1>6, <1>7, <1>8 DEF Ticked

-----------------------------------------------------------------------------
(* The handlers of the client.                                              *)

\* What a handler promises of its answer.
AnswerInv(answer) ==
    /\ ClientInv(answer.client)
    /\ answer.out \in Seq(ClientMsg)

\* The parts of a client that the invariant reads.
LEMMA ClientParts ==
    ASSUME NEW c, ClientInv(c)
    PROVE  /\ c \in ClientState /\ c.origin \in Origin /\ c.terrain \in Cells
           /\ c.origin[1] \in 0 .. MaxX /\ c.origin[2] \in 0 .. MaxY
           /\ c.origin[1] \in Int /\ c.origin[2] \in Int
           /\ c.fill \in StagedFill /\ CellsPlaced(c) /\ StagedPlaced(c.fill)
  BY WindowAssumption DEF ClientInv, ClientState, Origin

\* A client that agrees with another on the terrain and the staged fill is as
\* well placed.
LEMMA SamePlaces ==
    ASSUME NEW c, ClientInv(c), NEW d \in ClientState,
           d.origin = c.origin, d.terrain = c.terrain, d.fill = c.fill
    PROVE  ClientInv(d)
  BY DEF ClientInv, CellsPlaced

\* The empty staged fill is placed.
LEMMA NoFillGood == NoFill \in StagedFill /\ StagedPlaced(NoFill)
<1>1. NoRows \in [Row -> {None} \cup RowTiles]
  BY DEF NoRows
<1>2. <<0, 0>> \in Origin /\ 0 \in 0 .. MaxFillId
  BY WindowAssumption, SessionAssumption DEF Origin
<1>3. NoFill \in StagedFill
  BY <1>1, <1>2 DEF NoFill, StagedFill
<1>4. RowsHave(NoFill) = {}
  BY DEF NoFill, NoRows, RowsHave
<1>. QED  BY <1>3, <1>4 DEF StagedPlaced

-----------------------------------------------------------------------------
(* What a client sends.                                                     *)

\* Its packets are made of its state.
LEMMA PacketTypes ==
    ASSUME NEW c \in ClientState
    PROVE  /\ <<AckPacket(c)>> \in Seq(ClientMsg)
           /\ <<ReadyPacket(c)>> \in Seq(ClientMsg)
           /\ <<CommitPacket(c)>> \in Seq(ClientMsg)
           /\ <<ResyncPacket(c)>> \in Seq(ClientMsg)
<1>1. /\ c.revision \in 0 .. MaxRevision /\ c.origin \in Origin
      /\ c.current_map_id \in Maps /\ c.commit_fill_id \in 0 .. MaxFillId
      /\ c.fill.fill_id \in 0 .. MaxFillId /\ c.fill.origin \in Origin
  BY DEF ClientState, StagedFill
<1>2. RowsHave(c.fill) \in SUBSET Row
  BY DEF RowsHave
<1>3. AckPacket(c) \in ClientMsg
  BY <1>1 DEF AckPacket, ClientMsg, AckMsg
<1>4. ReadyPacket(c) \in ClientMsg
  BY <1>1 DEF ReadyPacket, ClientMsg, ReadyMsg
<1>5. CommitPacket(c) \in ClientMsg
  BY <1>1 DEF CommitPacket, ClientMsg, CommitMsg
<1>6. ResyncPacket(c) \in ClientMsg
  BY <1>1, <1>2 DEF ResyncPacket, ClientMsg, ResyncMsg
<1>. QED  BY <1>3, <1>4, <1>5, <1>6

\* Saying nothing, and reporting ready, leave a placed client as it is.
LEMMA QuietGood ==
    ASSUME NEW c, ClientInv(c)
    PROVE  AnswerInv(Quiet(c)) /\ AnswerInv(send_map_ready(c))
<1>1. <<ReadyPacket(c)>> \in Seq(ClientMsg)
  BY PacketTypes DEF ClientInv
<1>. QED  BY <1>1 DEF AnswerInv, Quiet, send_map_ready, Answer

\* A resync request changes two flags.
LEMMA ResyncRequestGood ==
    ASSUME NEW c, ClientInv(c)
    PROVE  AnswerInv(send_resync_request(c))
<1>. DEFINE d == [c EXCEPT !.revision_trust_next = TRUE,
                           !.resync_pending = TRUE]
<1>1. c \in ClientState
  BY DEF ClientInv
<1>2. d \in ClientState
  BY <1>1 DEF ClientState
<1>3. d.origin = c.origin /\ d.terrain = c.terrain /\ d.fill = c.fill
  BY <1>1 DEF ClientState
<1>4. send_resync_request(c) = Answer(d, <<ResyncPacket(c)>>)
  BY DEF send_resync_request
<1>. HIDE DEF d
<1>5. ClientInv(d)
  BY <1>2, <1>3, SamePlaces
<1>. QED  BY <1>1, <1>4, <1>5, PacketTypes DEF AnswerInv, Answer

-----------------------------------------------------------------------------
(* Edges.                                                                   *)

\* The tiles of a column strip form a column.
LEMMA ColumnTiles ==
    ASSUME NEW e \in EdgeMsg, IsColumn(e)
    PROVE  e.tiles \in ColTiles /\ e.x \in 0 .. MaxX + WINDOW_W - 1
             /\ e.y \in 0 .. MaxY
  BY WindowAssumption DEF EdgeMsg, ColumnEdgeMsg, RowEdgeMsg, IsColumn

\* The tiles of a row strip form a row.
LEMMA RowStripTiles ==
    ASSUME NEW e \in EdgeMsg, IsRow(e)
    PROVE  e.tiles \in RowTiles /\ e.x \in 0 .. MaxX
             /\ e.y \in 0 .. MaxY + WINDOW_H - 1
  BY WindowAssumption DEF EdgeMsg, ColumnEdgeMsg, RowEdgeMsg, IsRow, IsColumn

\* A strip is adjacent on one side only.
LEMMA OneSide ==
    ASSUME NEW c, ClientInv(c), NEW e \in EdgeMsg
    PROVE  /\ ColumnBefore(c, e) => ~ColumnAfter(c, e)
           /\ ColumnBefore(c, e) \/ ColumnAfter(c, e)
                => ~RowBefore(c, e) /\ ~RowAfter(c, e)
           /\ RowBefore(c, e) => ~RowAfter(c, e)
  BY ClientParts, WindowAssumption
     DEF ColumnBefore, ColumnAfter, RowBefore, RowAfter, IsRow

\* Sliding the window by an adjacent strip keeps every cell in its place.
LEMMA SlideGood ==
    ASSUME NEW c, ClientInv(c), NEW e \in EdgeMsg, EdgePlaced(e), Adjacent(c, e)
    PROVE  ClientInv(Slide(c, e))
<1>. DEFINE x == c.origin[1]
            y == c.origin[2]
            t == c.terrain
            To(o, cells) == [c EXCEPT !.origin = o, !.terrain = cells]
<1>1. /\ c \in ClientState /\ x \in 0 .. MaxX /\ y \in 0 .. MaxY
      /\ MaxX \in Nat /\ MaxY \in Nat
      /\ WINDOW_W \in Nat /\ WINDOW_W >= 1 /\ WINDOW_H \in Nat /\ WINDOW_H >= 1
      /\ t \in Cells /\ CellsPlaced(c)
  BY ClientParts, WindowAssumption
<1>2. /\ \A r \in Row : t[r] \in RowTiles
      /\ \A r \in Row, k \in Col : /\ t[r][k] \in Tile
                                  /\ PlacedAt(t[r][k], x + k, y + r)
  BY <1>1 DEF Cells, RowTiles, CellsPlaced, RowPlaced
<1>3. ASSUME NEW o \in Origin, NEW cells \in Cells,
             \A r \in Row, k \in Col : PlacedAt(cells[r][k], o[1] + k, o[2] + r)
      PROVE  ClientInv(To(o, cells))
  <2>. DEFINE d == To(o, cells)
  <2>1. d \in ClientState
    BY <1>1 DEF ClientState
  <2>2. d.origin = o /\ d.terrain = cells /\ d.fill = c.fill
    BY <1>1 DEF ClientState
  <2>. HIDE DEF d
  <2>3. CellsPlaced(d)
    BY <1>3, <2>2 DEF CellsPlaced, RowPlaced
  <2>4. ClientInv(d)
    BY <2>1, <2>2, <2>3 DEF ClientInv
  <2>. QED  BY <2>4 DEF d
<1>. HIDE DEF t, x, y, To
<1>4. CASE ColumnBefore(c, e)
  <2>1. e.tiles \in ColTiles /\ e.x = x - 1 /\ e.y = y /\ x - 1 \in 0 .. MaxX
    BY <1>1, <1>4, ColumnTiles DEF ColumnBefore, x, y
  <2>2. \A r \in Row : PlacedAt(e.tiles[r], x - 1, y + r)
    BY <1>4, <2>1 DEF ColumnBefore, IsColumn, EdgePlaced, ColPlaced
  <2>. DEFINE s == ShiftRight(t, e.tiles)
  <2>3. s \in Cells
    <3>1. \A k \in Col : k # 0 => k - 1 \in Col
      BY <1>1 DEF Col
    <3>. QED  BY <1>2, <2>1, <3>1 DEF ShiftRight, Cells, RowTiles, ColTiles
  <2>4. \A r \in Row, k \in Col : PlacedAt(s[r][k], x - 1 + k, y + r)
    <3>1. \A k \in Col : k # 0 => k - 1 \in Col /\ x + (k - 1) = x - 1 + k
      BY <1>1 DEF Col
    <3>2. x - 1 + 0 = x - 1
      BY <1>1
    <3>. QED  BY <1>2, <2>2, <3>1, <3>2 DEF ShiftRight
  <2>. HIDE DEF s
  <2>5. <<x - 1, y>> \in Origin
    BY <1>1, <2>1 DEF Origin
  <2>6. ClientInv(To(<<x - 1, y>>, s))
    BY <1>3, <2>3, <2>4, <2>5
  <2>7. Slide(c, e) = To(<<x - 1, y>>, s)
    BY <1>4, OneSide DEF Slide, To, s, t, x, y
  <2>. QED  BY <2>6, <2>7
<1>5. CASE ColumnAfter(c, e)
  <2>1. /\ e.tiles \in ColTiles /\ e.x = x + WINDOW_W /\ e.y = y
        /\ x + 1 \in 0 .. MaxX
    BY <1>1, <1>5, ColumnTiles DEF ColumnAfter, x, y
  <2>2. \A r \in Row : PlacedAt(e.tiles[r], x + WINDOW_W, y + r)
    BY <1>5, <2>1 DEF ColumnAfter, IsColumn, EdgePlaced, ColPlaced
  <2>. DEFINE s == ShiftLeft(t, e.tiles)
  <2>3. s \in Cells
    <3>1. \A k \in Col : k # WINDOW_W - 1 => k + 1 \in Col
      BY <1>1 DEF Col
    <3>. QED  BY <1>2, <2>1, <3>1 DEF ShiftLeft, Cells, RowTiles, ColTiles
  <2>4. \A r \in Row, k \in Col : PlacedAt(s[r][k], x + 1 + k, y + r)
    <3>1. \A k \in Col : k # WINDOW_W - 1
                            => k + 1 \in Col /\ x + (k + 1) = x + 1 + k
      BY <1>1 DEF Col
    <3>2. x + 1 + (WINDOW_W - 1) = x + WINDOW_W
      BY <1>1
    <3>. QED  BY <1>2, <2>2, <3>1, <3>2 DEF ShiftLeft
  <2>. HIDE DEF s
  <2>5. <<x + 1, y>> \in Origin
    BY <1>1, <2>1 DEF Origin
  <2>6. ClientInv(To(<<x + 1, y>>, s))
    BY <1>3, <2>3, <2>4, <2>5
  <2>7. Slide(c, e) = To(<<x + 1, y>>, s)
    BY <1>5, OneSide DEF Slide, To, s, t, x, y
  <2>. QED  BY <2>6, <2>7
<1>6. CASE RowBefore(c, e)
  <2>1. e.tiles \in RowTiles /\ e.x = x /\ e.y = y - 1 /\ y - 1 \in 0 .. MaxY
    BY <1>1, <1>6, RowStripTiles DEF RowBefore, x, y
  <2>2. \A k \in Col : PlacedAt(e.tiles[k], x + k, y - 1)
    BY <1>6, <2>1 DEF RowBefore, IsRow, IsColumn, EdgePlaced, RowPlaced, x, y
  <2>. DEFINE s == ShiftDown(t, e.tiles)
  <2>3. s \in Cells
    <3>1. \A r \in Row : r # 0 => r - 1 \in Row
      BY <1>1 DEF Row
    <3>. QED  BY <1>2, <2>1, <3>1 DEF ShiftDown, Cells
  <2>4. \A r \in Row, k \in Col : PlacedAt(s[r][k], x + k, y - 1 + r)
    <3>1. \A r \in Row : r # 0 => r - 1 \in Row /\ y + (r - 1) = y - 1 + r
      BY <1>1 DEF Row
    <3>2. y - 1 + 0 = y - 1
      BY <1>1
    <3>. QED  BY <1>2, <2>2, <3>1, <3>2 DEF ShiftDown
  <2>. HIDE DEF s
  <2>5. <<x, y - 1>> \in Origin
    BY <1>1, <2>1 DEF Origin
  <2>6. ClientInv(To(<<x, y - 1>>, s))
    BY <1>3, <2>3, <2>4, <2>5
  <2>7. Slide(c, e) = To(<<x, y - 1>>, s)
    BY <1>6, OneSide DEF Slide, To, s, t, x, y
  <2>. QED  BY <2>6, <2>7
<1>7. CASE RowAfter(c, e)
  <2>1. /\ e.tiles \in RowTiles /\ e.x = x /\ e.y = y + WINDOW_H
        /\ y + 1 \in 0 .. MaxY
    BY <1>1, <1>7, RowStripTiles DEF RowAfter, x, y
  <2>2. \A k \in Col : PlacedAt(e.tiles[k], x + k, y + WINDOW_H)
    BY <1>7, <2>1 DEF RowAfter, IsRow, IsColumn, EdgePlaced, RowPlaced, x, y
  <2>. DEFINE s == ShiftUp(t, e.tiles)
  <2>3. s \in Cells
    <3>1. \A r \in Row : r # WINDOW_H - 1 => r + 1 \in Row
      BY <1>1 DEF Row
    <3>. QED  BY <1>2, <2>1, <3>1 DEF ShiftUp, Cells
  <2>4. \A r \in Row, k \in Col : PlacedAt(s[r][k], x + k, y + 1 + r)
    <3>1. \A r \in Row : r # WINDOW_H - 1
                            => r + 1 \in Row /\ y + (r + 1) = y + 1 + r
      BY <1>1 DEF Row
    <3>2. y + 1 + (WINDOW_H - 1) = y + WINDOW_H
      BY <1>1
    <3>. QED  BY <1>2, <2>2, <3>1, <3>2 DEF ShiftUp
  <2>. HIDE DEF s
  <2>5. <<x, y + 1>> \in Origin
    BY <1>1, <2>1 DEF Origin
  <2>6. ClientInv(To(<<x, y + 1>>, s))
    BY <1>3, <2>3, <2>4, <2>5
  <2>7. Slide(c, e) = To(<<x, y + 1>>, s)
    BY <1>7, OneSide DEF Slide, To, s, t, x, y
  <2>. QED  BY <2>6, <2>7
<1>. QED  BY <1>4, <1>5, <1>6, <1>7 DEF Adjacent

\* An edge is applied, acknowledged again, dropped, or answered by a request.
LEMMA ReceiveEdgeGood ==
    ASSUME NEW c, ClientInv(c), NEW e \in EdgeMsg, EdgePlaced(e)
    PROVE  AnswerInv(ReceiveEdge(c, e))
<1>1. ASSUME NEW d, ClientInv(d)
      PROVE  AnswerInv(Answer([d EXCEPT !.resync_pending = FALSE],
                              <<AckPacket([d EXCEPT !.resync_pending = FALSE])>>))
               /\ AnswerInv(Answer([d EXCEPT !.resync_pending = FALSE],
                              <<AckPacket(d)>>))
  <2>. DEFINE f == [d EXCEPT !.resync_pending = FALSE]
  <2>1. d \in ClientState
    BY <1>1 DEF ClientInv
  <2>2. f \in ClientState
    BY <2>1 DEF ClientState
  <2>3. f.origin = d.origin /\ f.terrain = d.terrain /\ f.fill = d.fill
    BY <2>1 DEF ClientState
  <2>. HIDE DEF f
  <2>4. ClientInv(f)
    BY <1>1, <2>2, <2>3, SamePlaces
  <2>5. AnswerInv(Answer(f, <<AckPacket(f)>>)) /\ AnswerInv(Answer(f, <<AckPacket(d)>>))
    BY <2>1, <2>2, <2>4, PacketTypes DEF AnswerInv, Answer
  <2>. QED  BY <2>5 DEF f
<1>2. CASE c.fill.active
  BY <1>2, QuietGood DEF ReceiveEdge
<1>3. CASE ~c.fill.active /\ e.revision = c.revision
  BY <1>1, <1>3 DEF ReceiveEdge
<1>4. CASE ~c.fill.active /\ e.revision # c.revision
             /\ Expected(c, e) /\ Adjacent(c, e)
  <2>. DEFINE s == Slide(c, e)
              d == [s EXCEPT !.revision = e.revision, !.revision_trust_next = FALSE]
  <2>1. ClientInv(s)
    BY <1>4, SlideGood
  <2>. HIDE DEF s
  <2>2. e.revision \in 0 .. MaxRevision
    BY SessionAssumption DEF EdgeMsg, ColumnEdgeMsg, RowEdgeMsg
  <2>3. s \in ClientState
    BY <2>1 DEF ClientInv
  <2>4. d \in ClientState
    BY <2>2, <2>3 DEF ClientState
  <2>5. d.origin = s.origin /\ d.terrain = s.terrain /\ d.fill = s.fill
    BY <2>3 DEF ClientState
  <2>6. bootstrap_apply_terrain_edge(c, e) = d
    BY DEF bootstrap_apply_terrain_edge, s
  <2>. HIDE DEF d
  <2>7. ClientInv(d)
    BY <2>1, <2>4, <2>5, SamePlaces
  <2>. QED  BY <1>1, <1>4, <2>6, <2>7 DEF ReceiveEdge
<1>5. CASE ~c.fill.active /\ e.revision # c.revision
             /\ ~(Expected(c, e) /\ Adjacent(c, e))
  BY <1>5, ResyncRequestGood DEF ReceiveEdge
<1>. QED  BY <1>2, <1>3, <1>4, <1>5

-----------------------------------------------------------------------------
(* Fills.                                                                   *)

\* A row joins the staged fill in its place.
LEMMA ApplyRowGood ==
    ASSUME NEW f \in StagedFill, StagedPlaced(f), NEW w \in RowMsg,
           RowPlaced(w.tiles, w.x, w.y), w.y - w.row \in 0 .. MaxY
    PROVE  /\ bootstrap_fill_apply_row(f, w) \in StagedFill
           /\ StagedPlaced(bootstrap_fill_apply_row(f, w))
<1>. DEFINE g == FillOfRow(f, w)
            h == [g EXCEPT !.rows[w.row] = w.tiles]
<1>1. /\ w.row \in Row /\ w.tiles \in RowTiles /\ w.fill_id \in 0 .. MaxFillId
      /\ w.x \in 0 .. MaxX /\ w.y \in Int /\ w.row \in Int
  BY WindowAssumption DEF RowMsg, Row
<1>2. <<w.x, w.y - w.row>> \in Origin
  BY <1>1 DEF Origin
<1>3. g \in StagedFill /\ StagedPlaced(g) /\ g.origin = <<w.x, w.y - w.row>>
  <2>. DEFINE n == [active |-> TRUE, fill_id |-> w.fill_id,
                    origin |-> <<w.x, w.y - w.row>>, rows |-> NoRows]
  <2>1. NoRows \in [Row -> {None} \cup RowTiles] /\ RowsHave(n) = {}
    BY DEF NoRows, RowsHave
  <2>2. n \in StagedFill /\ StagedPlaced(n)
    BY <1>1, <1>2, <2>1 DEF StagedFill, StagedPlaced
  <2>. QED  BY <2>2 DEF FillOfRow
<1>. HIDE DEF g
<1>4. CASE w.row \in RowsHave(g)
  BY <1>3, <1>4 DEF bootstrap_fill_apply_row, g
<1>5. CASE w.row \notin RowsHave(g)
  <2>1. g.rows \in [Row -> {None} \cup RowTiles]
    BY <1>3 DEF StagedFill
  <2>2. [g.rows EXCEPT ![w.row] = w.tiles] \in [Row -> {None} \cup RowTiles]
    BY <1>1, <2>1
  <2>3. h = [g EXCEPT !.rows = [g.rows EXCEPT ![w.row] = w.tiles]]
    OBVIOUS
  <2>4. h \in StagedFill
    BY <1>3, <2>2, <2>3 DEF StagedFill
  <2>5. /\ h.origin = g.origin
        /\ \A r \in Row : h.rows[r] = IF r = w.row THEN w.tiles ELSE g.rows[r]
    BY <1>1, <1>3, <2>1, <2>3 DEF StagedFill
  <2>6. bootstrap_fill_apply_row(f, w) = h
    BY <1>5 DEF bootstrap_fill_apply_row, g
  <2>. HIDE DEF h
  <2>7. ASSUME NEW r \in RowsHave(h)
        PROVE  RowPlaced(h.rows[r], h.origin[1], h.origin[2] + r)
    <3>1. r \in Row
      BY <2>7 DEF RowsHave
    <3>2. CASE r = w.row
      <4>1. h.origin[1] = w.x /\ h.origin[2] + w.row = w.y
        BY <1>1, <1>3, <2>5
      <4>. QED  BY <2>5, <3>1, <3>2, <4>1
    <3>3. CASE r # w.row
      <4>1. r \in RowsHave(g)
        BY <2>5, <2>7, <3>1, <3>3 DEF RowsHave
      <4>. QED  BY <1>3, <2>5, <3>1, <3>3, <4>1 DEF StagedPlaced
    <3>. QED  BY <3>2, <3>3
  <2>8. StagedPlaced(h)
    BY <2>7 DEF StagedPlaced
  <2>. QED  BY <2>4, <2>6, <2>8
<1>. QED  BY <1>4, <1>5

\* A complete staged fill becomes the active window.
LEMMA ActivateGood ==
    ASSUME NEW c, ClientInv(c), NEW f \in StagedFill, StagedPlaced(f),
           RowsHave(f) = Row
    PROVE  ClientInv(bootstrap_fill_activate(c, f))
<1>. DEFINE d == bootstrap_fill_activate(c, f)
<1>1. c \in ClientState
  BY DEF ClientInv
<1>2. f.rows \in [Row -> {None} \cup RowTiles] /\ f.origin \in Origin
        /\ f.fill_id \in 0 .. MaxFillId
  BY DEF StagedFill
<1>3. f.rows \in Cells
  <2>1. \A r \in Row : f.rows[r] \in RowTiles
    BY <1>2 DEF RowsHave
  <2>. QED  BY <1>2, <2>1 DEF Cells
<1>4. NoFill \in StagedFill
  BY NoFillGood
<1>5. d \in ClientState
  BY <1>1, <1>2, <1>3, <1>4 DEF ClientState, bootstrap_fill_activate
<1>6. d.terrain = f.rows /\ d.origin = f.origin /\ d.fill = NoFill
  BY <1>1 DEF ClientState, bootstrap_fill_activate
<1>. HIDE DEF d
<1>7. CellsPlaced(d)
  BY <1>6 DEF CellsPlaced, StagedPlaced
<1>8. ClientInv(d)
  BY <1>5, <1>6, <1>7, NoFillGood DEF ClientInv
<1>. QED  BY <1>8 DEF d

\* A row is staged; the last one activates the fill and may end the load.
LEMMA ReceiveRowGood ==
    ASSUME NEW c, ClientInv(c), NEW w \in RowMsg, PacketPlaced(w)
    PROVE  AnswerInv(ReceiveRow(c, w))
<1>. DEFINE f == bootstrap_fill_apply_row(c.fill, w)
            staged == [c EXCEPT !.fill = f]
            a == bootstrap_fill_activate(c, f)
            d == [a EXCEPT !.resync_pending = FALSE, !.commit_due = TRUE]
            e == [d EXCEPT !.map_loading = FALSE]
<1>1. /\ c \in ClientState /\ c.fill \in StagedFill /\ StagedPlaced(c.fill)
      /\ CellsPlaced(c)
  BY DEF ClientInv, ClientState
<1>2. RowPlaced(w.tiles, w.x, w.y) /\ w.y - w.row \in 0 .. MaxY
  BY DEF PacketPlaced, RowMsg
<1>3. f \in StagedFill /\ StagedPlaced(f)
  BY <1>1, <1>2, ApplyRowGood
<1>4. ReceiveRow(c, w) = IF RowsHave(f) # Row THEN Quiet(staged)
                         ELSE IF c.map_loading THEN send_map_ready(e)
                         ELSE Quiet(d)
  BY DEF ReceiveRow
<1>. HIDE DEF f
<1>5. CASE RowsHave(f) # Row
  <2>1. staged \in ClientState
    BY <1>1, <1>3 DEF ClientState
  <2>2. /\ staged.fill = f /\ staged.origin = c.origin
        /\ staged.terrain = c.terrain
    BY <1>1 DEF ClientState
  <2>. HIDE DEF staged
  <2>3. ClientInv(staged)
    BY <1>1, <1>3, <2>1, <2>2 DEF ClientInv, CellsPlaced
  <2>. QED  BY <1>4, <1>5, <2>3 DEF AnswerInv, Quiet, Answer
<1>6. CASE RowsHave(f) = Row
  <2>1. ClientInv(a)
    BY <1>3, <1>6, ActivateGood
  <2>. HIDE DEF a
  <2>2. a \in ClientState
    BY <2>1 DEF ClientInv
  <2>3. d \in ClientState
    BY <2>2 DEF ClientState
  <2>4. d.origin = a.origin /\ d.terrain = a.terrain /\ d.fill = a.fill
    BY <2>2 DEF ClientState
  <2>. HIDE DEF d
  <2>5. ClientInv(d)
    BY <2>1, <2>3, <2>4, SamePlaces
  <2>6. e \in ClientState
    BY <2>3 DEF ClientState
  <2>7. e.origin = d.origin /\ e.terrain = d.terrain /\ e.fill = d.fill
    BY <2>3 DEF ClientState
  <2>. HIDE DEF e
  <2>8. ClientInv(e)
    BY <2>5, <2>6, <2>7, SamePlaces
  <2>9. \/ ReceiveRow(c, w) = Quiet(d)
        \/ ReceiveRow(c, w) = send_map_ready(e)
    BY <1>4, <1>6, Zenon
  <2>10. AnswerInv(Quiet(d)) /\ AnswerInv(send_map_ready(e))
    BY <2>5, <2>8, QuietGood
  <2>. QED  BY <2>9, <2>10
<1>. QED  BY <1>5, <1>6

\* A commit acknowledgement clears one flag.
LEMMA ReceiveCommitAckGood ==
    ASSUME NEW c, ClientInv(c), NEW a \in CommitAckMsg
    PROVE  AnswerInv(ReceiveCommitAck(c, a))
<1>. DEFINE d == [c EXCEPT !.commit_pending = FALSE]
<1>1. c \in ClientState
  BY DEF ClientInv
<1>2. d \in ClientState
  BY <1>1 DEF ClientState
<1>3. d.origin = c.origin /\ d.terrain = c.terrain /\ d.fill = c.fill
  BY <1>1 DEF ClientState
<1>4. ReceiveCommitAck(c, a) = Quiet(c) \/ ReceiveCommitAck(c, a) = Quiet(d)
  BY DEF ReceiveCommitAck
<1>. HIDE DEF d
<1>5. ClientInv(d)
  BY <1>2, <1>3, SamePlaces
<1>. QED  BY <1>4, <1>5, QuietGood

\* Sending the commit clears its countdown.
LEMMA SendCommitGood ==
    ASSUME NEW c, ClientInv(c)
    PROVE  AnswerInv(SendCommit(c))
<1>. DEFINE d == [c EXCEPT !.commit_due = FALSE]
<1>1. c \in ClientState
  BY DEF ClientInv
<1>2. d \in ClientState
  BY <1>1 DEF ClientState
<1>3. d.origin = c.origin /\ d.terrain = c.terrain /\ d.fill = c.fill
  BY <1>1 DEF ClientState
<1>4. SendCommit(c) = Answer(d, <<CommitPacket(c)>>)
  BY DEF SendCommit
<1>. HIDE DEF d
<1>5. ClientInv(d)
  BY <1>2, <1>3, SamePlaces
<1>. QED  BY <1>1, <1>4, <1>5, PacketTypes DEF AnswerInv, Answer

\* A map change drops the staged fill, or repeats the ready report.
LEMMA ReceiveMapChangeGood ==
    ASSUME NEW c, ClientInv(c), NEW m \in MapChangeMsg
    PROVE  AnswerInv(ReceiveMapChange(c, m))
<1>. DEFINE d == [c EXCEPT !.current_map_id = m.map,
                           !.fill = NoFill,
                           !.commit_pending = FALSE,
                           !.map_loading = TRUE,
                           !.resync_pending = TRUE]
<1>1. c \in ClientState /\ CellsPlaced(c) /\ m.map \in Maps
  BY DEF ClientInv, MapChangeMsg
<1>2. d \in ClientState
  BY <1>1, NoFillGood DEF ClientState
<1>3. d.origin = c.origin /\ d.terrain = c.terrain /\ d.fill = NoFill
  BY <1>1 DEF ClientState
<1>4. \/ ReceiveMapChange(c, m) = Quiet(c)
      \/ ReceiveMapChange(c, m) = send_map_ready(c)
      \/ ReceiveMapChange(c, m) = Quiet(d)
  BY DEF ReceiveMapChange
<1>. HIDE DEF d
<1>5. ClientInv(d)
  BY <1>1, <1>2, <1>3, NoFillGood DEF ClientInv, CellsPlaced
<1>. QED  BY <1>4, <1>5, QuietGood

\* A WORLD_STATE writes at most the cell that it names.
LEMMA WorldWritten ==
    ASSUME NEW c, ClientInv(c), NEW w \in WorldMsg
    PROVE  \E cells \in Cells :
             /\ apply_world_state(c, w) = Answer([c EXCEPT !.terrain = cells], << >>)
             /\ \A r \in Row, k \in Col :
                  \/ cells[r][k] = c.terrain[r][k]
                  \/ /\ cells[r][k] = w.tile
                     /\ c.origin[1] + k = w.x /\ c.origin[2] + r = w.y
<1>1. /\ c \in ClientState /\ c.terrain \in Cells /\ c.origin \in Origin
      /\ w.tile \in Tile /\ w.x \in Int /\ w.y \in Int
  BY WindowAssumption DEF ClientInv, ClientState, WorldMsg
<1>2. CASE ~_in_window(<<w.x, w.y>>, c.origin)
  <2>1. apply_world_state(c, w) = Answer(c, << >>)
    BY <1>2 DEF apply_world_state, Quiet
  <2>2. c = [c EXCEPT !.terrain = c.terrain]
    BY <1>1 DEF ClientState
  <2>. QED  BY <1>1, <2>1, <2>2
<1>3. CASE _in_window(<<w.x, w.y>>, c.origin)
  <2>. DEFINE i == w.x - c.origin[1]
              j == w.y - c.origin[2]
              cells == [c.terrain EXCEPT ![j][i] = w.tile]
  <2>1. /\ i \in Col /\ j \in Row
        /\ c.origin[1] \in Int /\ c.origin[2] \in Int
    BY <1>1, <1>3, OriginParts, WindowAssumption DEF _in_window
  <2>2. c.origin[1] + i = w.x /\ c.origin[2] + j = w.y
    BY <1>1, <2>1
  <2>3. apply_world_state(c, w) = Answer([c EXCEPT !.terrain = cells], << >>)
    BY <1>3 DEF apply_world_state, Quiet
  <2>. HIDE DEF i, j
  <2>4. cells \in Cells
    BY <1>1, <2>1 DEF Cells, RowTiles
  <2>5. \A r \in Row, k \in Col :
          cells[r][k] = IF r = j /\ k = i THEN w.tile ELSE c.terrain[r][k]
    BY <1>1, <2>1 DEF Cells, RowTiles
  <2>. HIDE DEF cells
  <2>. QED  BY <2>2, <2>3, <2>4, <2>5
<1>. QED  BY <1>2, <1>3

LEMMA ApplyWorldGood ==
    ASSUME NEW c, ClientInv(c), NEW w \in WorldMsg
    PROVE  AnswerInv(apply_world_state(c, w))
<1>1. PICK cells \in Cells :
        /\ apply_world_state(c, w) = Answer([c EXCEPT !.terrain = cells], << >>)
        /\ \A r \in Row, k \in Col :
             \/ cells[r][k] = c.terrain[r][k]
             \/ /\ cells[r][k] = w.tile
                /\ c.origin[1] + k = w.x /\ c.origin[2] + r = w.y
  BY WorldWritten
<1>2. /\ c \in ClientState /\ CellsPlaced(c) /\ StagedPlaced(c.fill)
      /\ PlacedAt(w.tile, w.x, w.y)
  BY DEF ClientInv, WorldMsg
<1>. DEFINE d == [c EXCEPT !.terrain = cells]
<1>3. /\ d \in ClientState /\ d.terrain = cells
      /\ d.origin = c.origin /\ d.fill = c.fill
  BY <1>2 DEF ClientState
<1>. HIDE DEF d
<1>4. ASSUME NEW r \in Row, NEW k \in Col
      PROVE  PlacedAt(d.terrain[r][k], d.origin[1] + k, d.origin[2] + r)
  BY <1>1, <1>2, <1>3 DEF CellsPlaced, RowPlaced
<1>5. ClientInv(d)
  BY <1>2, <1>3, <1>4 DEF ClientInv, CellsPlaced, RowPlaced
<1>. QED  BY <1>1, <1>5, QuietGood DEF Quiet, d

\* The dispatch of a placed packet.
LEMMA PumpGood ==
    ASSUME NEW c, ClientInv(c), NEW pkt \in PlacedMsg
    PROVE  AnswerInv(realtime_pump(c, pkt))
<1>1. pkt \in ServerMsg /\ PacketPlaced(pkt)
  BY DEF PlacedMsg
<1>2. CASE pkt \in EdgeMsg
  <2>1. pkt.type = "edge"
    BY <1>2 DEF EdgeMsg, ColumnEdgeMsg, RowEdgeMsg
  <2>2. EdgePlaced(pkt)
    BY <1>1, <2>1 DEF PacketPlaced
  <2>. QED  BY <1>2, <2>1, <2>2, ReceiveEdgeGood DEF realtime_pump
<1>3. CASE pkt \in RowMsg
  <2>1. pkt.type = "row"
    BY <1>3 DEF RowMsg
  <2>. QED  BY <1>1, <1>3, <2>1, ReceiveRowGood DEF realtime_pump
<1>4. CASE pkt \in CommitAckMsg
  <2>1. pkt.type = "commit_ack"
    BY <1>4 DEF CommitAckMsg
  <2>. QED  BY <1>4, <2>1, ReceiveCommitAckGood DEF realtime_pump
<1>5. CASE pkt \in MapChangeMsg
  <2>1. pkt.type = "map_change"
    BY <1>5 DEF MapChangeMsg
  <2>. QED  BY <1>5, <2>1, ReceiveMapChangeGood DEF realtime_pump
<1>6. CASE pkt \in WorldMsg
  <2>1. pkt.type = "world"
    BY <1>6 DEF WorldMsg
  <2>. QED  BY <1>6, <2>1, ApplyWorldGood DEF realtime_pump
<1>. QED  BY <1>1, <1>2, <1>3, <1>4, <1>5, <1>6 DEF ServerMsg

\* The bootstrap delivers a whole window in its place.
LEMMA BootedGood ==
    ASSUME NEW map \in Maps, NEW ver \in Nat, NEW o \in Origin
    PROVE  ClientInv(BootedClient(map, ver, o))
<1>. DEFINE d == BootedClient(map, ver, o)
<1>1. o[1] \in Int /\ o[2] \in Int
  BY WindowAssumption DEF Origin
<1>2. ASSUME NEW r \in Row
      PROVE  /\ window_row_tiles(map, ver, o[1], o[2] + r) \in RowTiles
             /\ RowPlaced(window_row_tiles(map, ver, o[1], o[2] + r),
                          o[1], o[2] + r)
  <2>1. o[2] + r \in Int
    BY <1>1, WindowAssumption DEF Row
  <2>2. window_row_tiles(map, ver, o[1], o[2] + r) \in RowTiles
    BY <1>1, <2>1, WindowAssumption
       DEF window_row_tiles, RowTiles, Tile, TileAt, Col
  <2>. QED  BY <2>2 DEF window_row_tiles, RowPlaced, PlacedAt, TileAt
<1>3. window_at(map, ver, o) \in Cells
  BY <1>2 DEF window_at, Cells
<1>4. d \in ClientState
  BY <1>3, NoFillGood, SessionAssumption, OverworldAssumption
     DEF BootedClient, ClientState
<1>5. d.origin = o /\ d.fill = NoFill
        /\ \A r \in Row : d.terrain[r] = window_row_tiles(map, ver, o[1], o[2] + r)
  BY DEF BootedClient, window_at
<1>. HIDE DEF d
<1>6. CellsPlaced(d)
  BY <1>2, <1>5 DEF CellsPlaced
<1>7. ClientInv(d)
  BY <1>4, <1>5, <1>6, NoFillGood DEF ClientInv
<1>. QED  BY <1>7 DEF d

-----------------------------------------------------------------------------
(* Sequences.                                                               *)

\* The head and the tail of a queue.
LEMMA QueueParts ==
    ASSUME NEW S, NEW q \in Seq(S), q # << >>
    PROVE  Head(q) \in S /\ Tail(q) \in Seq(S)
  OBVIOUS

\* Appending to a queue.
LEMMA QueueConcat ==
    ASSUME NEW S, NEW q \in Seq(S), NEW out \in Seq(S)
    PROVE  q \o out \in Seq(S)
  OBVIOUS

-----------------------------------------------------------------------------
(* The parts of a step.                                                     *)

\* Spending from the bounds leaves natural numbers.
LEMMA SpendGood ==
    ASSUME CountersOK, NEW events \in SUBSET Bounds, Spend(events)
    PROVE  CountersOK'
<1>1. \A b \in events : budget[b] \in Nat /\ budget[b] > 0
  BY DEF Spend, CountersOK
<1>2. \A b \in Bounds :
        (IF b \in events THEN budget[b] - 1 ELSE budget[b]) \in Nat
  BY <1>1 DEF CountersOK
<1>. QED  BY <1>2 DEF Spend, CountersOK

\* Nothing is counted.
LEMMA NoneSpent == SystemInv /\ UNCHANGED counters => CountersOK'
  BY DEF SystemInv, CountersOK, counters

\* What Send puts on the link is placed.
LEMMA SendGood ==
    ASSUME SystemInv, NEW out \in Seq(PlacedMsg), Send(out)
    PROVE  s2c' \in Seq(PlacedMsg) /\ (conn # "up" => s2c' = << >>)
  BY QueueConcat DEF SystemInv, Send

\* The game keeps the player well typed.
LEMMA GameStepGood ==
    ASSUME NEW p \in Player, NEW step \in GameSteps, NEW q \in GameStep(step, p)
    PROVE  q \in Player
<1>1. CASE step = "stay"
  BY <1>1 DEF GameStep
<1>2. CASE step = "move"
  <2>1. q \in Moved(p)
    BY <1>2 DEF GameStep
  <2>2. PICK o \in Origin : q = [p EXCEPT !.target = o]
    BY <2>1 DEF Moved
  <2>. QED  BY <2>2 DEF Player
<1>3. CASE step = "transfer"
  <2>1. q \in _apply_transition_if_present(p)
    BY <1>3 DEF GameStep
  <2>2. PICK m \in Maps : q = [p EXCEPT !.map = m, !.target = Spawn[m],
                                     !.pending_map_change = m,
                                     !.transition_loading = TRUE]
    BY <2>1 DEF _apply_transition_if_present
  <2>3. Spawn[m] \in Origin
    BY SyncAssumption
  <2>. QED  BY <2>2, <2>3 DEF Player
<1>4. CASE step = "retell"
  <2>1. q = [p EXCEPT !.ver = p.ver + 1, !.pending_terrain_resync = TRUE]
    BY <1>4 DEF GameStep, complete_bridge_repair
  <2>2. p.ver + 1 \in Nat
    BY DEF Player
  <2>. QED  BY <2>1, <2>2 DEF Player
<1>. QED  BY <1>1, <1>2, <1>3, <1>4 DEF GameSteps

-----------------------------------------------------------------------------
(* One lemma per action.                                                    *)

\* A tick.
LEMMA TickInv ==
    ASSUME SystemInv, NEW step \in GameSteps, NEW timers \in Timer,
           Tick(step, timers)
    PROVE  SystemInv'
<1>1. /\ player \in Player /\ SessionInv(session)
      /\ UNCHANGED <<client, conn, c2s>>
  BY DEF SystemInv, Tick
<1>2. CountersOK'
  <2>. DEFINE events == ({step} \ {"stay"})
                 \cup (IF timers = NoTimer THEN {} ELSE Expiry)
  <2>1. events \in SUBSET Bounds
    BY DEF GameSteps, Expiry, Bounds
  <2>2. Spend(events)
    BY DEF Tick
  <2>. HIDE DEF events
  <2>. QED  BY <2>1, <2>2, SpendGood DEF SystemInv
<1>3. PICK p \in GameStep(step, player) :
        IF session.latest
        THEN \E t \in _send_tick_packets(session, p, timers) :
                /\ Queued + Len(t.out) <= MaxLink
                /\ Telling(t.session)
                /\ session' = t.session
                /\ player' = t.player
                /\ Send(t.out)
        ELSE player' = p /\ UNCHANGED <<session, s2c>>
  BY DEF Tick
<1>4. p \in Player
  BY <1>1, GameStepGood
<1>5. CASE session.latest
  <2>1. PICK t \in _send_tick_packets(session, p, timers) :
          session' = t.session /\ player' = t.player /\ Send(t.out)
    BY <1>3, <1>5
  <2>2. /\ SessionInv(t.session) /\ t.player \in Player
        /\ t.out \in Seq(PlacedMsg)
    BY <1>1, <1>4, TickGood DEF Timer
  <2>3. s2c' \in Seq(PlacedMsg) /\ (conn # "up" => s2c' = << >>)
    BY <2>1, <2>2, SendGood
  <2>4. SessionInv(session')
    BY <2>1, <2>2
  <2>. QED  BY <1>1, <1>2, <2>1, <2>2, <2>3, <2>4 DEF SystemInv
<1>6. CASE ~session.latest
  BY <1>1, <1>2, <1>3, <1>4, <1>6 DEF SystemInv
<1>. QED  BY <1>5, <1>6

\* A respawn between HELLO and AUTH.
LEMMA IdleTickInv ==
    ASSUME SystemInv, IdleTick
    PROVE  SystemInv'
<1>1. player' \in Player
  BY GameStepGood DEF SystemInv, IdleTick, GameSteps
<1>2. CountersOK'
  <2>1. {"kill"} \in SUBSET Bounds
    BY DEF Bounds
  <2>. QED  BY <2>1, SpendGood DEF SystemInv, IdleTick
<1>. QED  BY <1>1, <1>2 DEF SystemInv, IdleTick

\* A packet that arrives comes from a client that is up.
LEMMA ArrivesGood ==
    ASSUME SystemInv, NEW type, Arrives(type)
    PROVE  /\ conn = "up" /\ SessionInv(session) /\ ClientInv(client)
           /\ Head(c2s) \in ClientMsg /\ Head(c2s).type = type
           /\ c2s' \in Seq(ClientMsg) /\ UNCHANGED <<client, conn>>
  BY QueueParts DEF SystemInv, Arrives

\* A reply in order keeps the system in order.
LEMMA ServeGood ==
    ASSUME SystemInv, conn = "up", NEW reply, ReplyInv(reply), Serve(reply),
           c2s' \in Seq(ClientMsg), UNCHANGED <<player, client, conn>>,
           CountersOK'
    PROVE  SystemInv'
<1>1. SessionInv(session')
  BY DEF Serve, ReplyInv
<1>2. s2c' \in Seq(PlacedMsg)
  BY SendGood DEF Serve, ReplyInv
<1>. QED  BY <1>1, <1>2 DEF SystemInv

\* A cache step ACK.
LEMMA HandleAckInv ==
    ASSUME SystemInv, HandleAck
    PROVE  SystemInv'
<1>1. /\ conn = "up" /\ SessionInv(session) /\ Head(c2s) \in ClientMsg
      /\ Head(c2s).type = "ack" /\ c2s' \in Seq(ClientMsg)
      /\ UNCHANGED <<player, client, conn>>
  BY ArrivesGood DEF HandleAck
<1>2. Head(c2s) \in AckMsg
  BY <1>1 DEF ClientMsg, AckMsg, ReadyMsg, CommitMsg, ResyncMsg
<1>3. PICK settled \in BOOLEAN :
        /\ Spend(IF settled THEN Expiry ELSE {})
        /\ Serve(_handle_cache_step_ack(session, player, Head(c2s), settled))
  BY DEF HandleAck
<1>4. CountersOK'
  <2>1. (IF settled THEN Expiry ELSE {}) \in SUBSET Bounds
    BY DEF Expiry, Bounds
  <2>. QED  BY <1>3, <2>1, SpendGood DEF SystemInv
<1>5. ReplyInv(_handle_cache_step_ack(session, player, Head(c2s), settled))
  BY <1>1, <1>2, AckGood DEF SystemInv, AckMsg
<1>. QED  BY <1>1, <1>3, <1>4, <1>5, ServeGood

\* A window commit.
LEMMA HandleCommitInv ==
    ASSUME SystemInv, HandleCommit
    PROVE  SystemInv'
<1>1. /\ conn = "up" /\ SessionInv(session) /\ Head(c2s) \in ClientMsg
      /\ Head(c2s).type = "commit" /\ c2s' \in Seq(ClientMsg)
      /\ UNCHANGED <<player, client, conn, counters>>
  BY ArrivesGood DEF HandleCommit
<1>2. Head(c2s) \in CommitMsg
  BY <1>1 DEF ClientMsg, AckMsg, ReadyMsg, CommitMsg, ResyncMsg
<1>3. ReplyInv(_handle_window_commit(session, player, Head(c2s)))
  BY <1>1, <1>2, CommitGood DEF SystemInv, CommitMsg
<1>4. Serve(_handle_window_commit(session, player, Head(c2s)))
  BY DEF HandleCommit
<1>5. CountersOK'
  BY <1>1, NoneSpent
<1>. QED  BY <1>1, <1>3, <1>4, <1>5, ServeGood

\* A resync request.
LEMMA HandleResyncInv ==
    ASSUME SystemInv, HandleResync
    PROVE  SystemInv'
<1>1. /\ conn = "up" /\ SessionInv(session) /\ Head(c2s) \in ClientMsg
      /\ Head(c2s).type = "resync" /\ c2s' \in Seq(ClientMsg)
      /\ UNCHANGED <<player, client, conn, s2c, counters>>
  BY ArrivesGood DEF HandleResync
<1>2. Head(c2s) \in ResyncMsg
  BY <1>1 DEF ClientMsg, AckMsg, ReadyMsg, CommitMsg, ResyncMsg
<1>3. SessionInv(session')
  BY <1>1, <1>2, ResyncGood DEF SystemInv, ResyncMsg, HandleResync
<1>. QED  BY <1>1, <1>3, NoneSpent DEF SystemInv

\* A MAP_READY.
LEMMA HandleMapReadyInv ==
    ASSUME SystemInv, HandleMapReady
    PROVE  SystemInv'
<1>1. /\ conn = "up" /\ c2s' \in Seq(ClientMsg)
      /\ UNCHANGED <<session, client, conn, s2c, counters>>
  BY ArrivesGood DEF HandleMapReady
<1>2. player' \in Player
  <2>1. player \in Player
    BY DEF SystemInv
  <2>2. [player EXCEPT !.transition_loading = FALSE] \in Player
    BY <2>1 DEF Player
  <2>. QED  BY <2>1, <2>2 DEF HandleMapReady
<1>. QED  BY <1>1, <1>2, NoneSpent DEF SystemInv

\* The first PLAYER_STATE.
LEMMA HandlePlayerStateInv ==
    ASSUME SystemInv, HandlePlayerState
    PROVE  SystemInv'
<1>. DEFINE t == [session EXCEPT !.latest = TRUE]
<1>1. conn = "up" /\ SessionInv(session) /\ session' = t
  BY DEF SystemInv, HandlePlayerState
<1>2. session \in Session
  BY <1>1 DEF SessionInv
<1>3. t \in Session
  BY <1>2 DEF Session
<1>4. /\ t.inflight_steps = session.inflight_steps
      /\ t.window_origin = session.window_origin
      /\ t.next_cache_revision = session.next_cache_revision
      /\ t.fill_origin = session.fill_origin
      /\ t.resync_rows = session.resync_rows
      /\ t.fill_waiting_for_commit = session.fill_waiting_for_commit
  BY <1>2 DEF Session
<1>. HIDE DEF t
<1>5. SessionInv(t)
  BY <1>1, <1>3, <1>4 DEF SessionInv, FillExcludesSteps, StepsChained
<1>. QED  BY <1>1, <1>5, NoneSpent DEF SystemInv, HandlePlayerState

\* A session whose WORLD_STATE leaves, and the packet that it is.
LEMMA FrameGood ==
    ASSUME NEW s, SessionInv(s), s.world # None
    PROVE  ReplyInv(next_frame(s))
<1>1. s.world \in WorldMsg
  BY DEF SessionInv, Session
<1>2. s.world.type = "world"
  BY <1>1 DEF WorldMsg
<1>3. <<s.world>> \in Seq(PlacedMsg)
  BY <1>1, <1>2 DEF PlacedMsg, PacketPlaced, ServerMsg
<1>4. SessionInv(QueueWorld(s, None))
  BY QueueGood
<1>. QED  BY <1>3, <1>4 DEF ReplyInv, next_frame, QueueWorld, Reply

\* A WORLD_STATE that leaves.
LEMMA SendWorldInv ==
    ASSUME SystemInv, SendWorld
    PROVE  SystemInv'
<1>1. /\ conn = "up" /\ SessionInv(session) /\ session.world # None
      /\ c2s' \in Seq(ClientMsg) /\ UNCHANGED <<player, client, conn, counters>>
      /\ Serve(next_frame(session))
  BY DEF SystemInv, SendWorld, Serve
<1>2. ReplyInv(next_frame(session))
  BY <1>1, FrameGood
<1>3. CountersOK'
  BY <1>1, NoneSpent
<1>. QED  BY <1>1, <1>2, <1>3, ServeGood

\* An answer in order keeps the system in order.
LEMMA TurnGood ==
    ASSUME SystemInv, conn = "up", NEW answer, AnswerInv(answer),
           ClientTurn(answer), s2c' \in Seq(PlacedMsg),
           CountersOK'
    PROVE  SystemInv'
<1>1. ClientInv(client')
  BY DEF ClientTurn, AnswerInv
<1>2. c2s' \in Seq(ClientMsg)
  BY QueueConcat DEF ClientTurn, AnswerInv, SystemInv
<1>3. SessionInv(session') /\ conn' = "up"
  BY DEF ClientTurn, SystemInv
<1>. QED  BY <1>1, <1>2, <1>3 DEF SystemInv, ClientTurn

\* A packet from the server.
LEMMA ClientReceiveInv ==
    ASSUME SystemInv, ClientReceive
    PROVE  SystemInv'
<1>1. /\ conn = "up" /\ ClientInv(client)
      /\ Head(s2c) \in PlacedMsg /\ s2c' \in Seq(PlacedMsg)
      /\ CountersOK'
  BY QueueParts, NoneSpent DEF SystemInv, ClientReceive
<1>2. AnswerInv(realtime_pump(client, Head(s2c)))
  BY <1>1, PumpGood
<1>. QED  BY <1>1, <1>2, TurnGood DEF ClientReceive

\* A retry of the client.
LEMMA ClientRetryInv ==
    ASSUME SystemInv, ClientCommits \/ ClientResyncs
    PROVE  SystemInv'
<1>1. conn = "up" /\ ClientInv(client) /\ s2c' \in Seq(PlacedMsg)
  BY DEF SystemInv, ClientCommits, ClientResyncs
<1>2. CountersOK'
  <2>1. /\ Expiry \in SUBSET Bounds
        /\ {} \in SUBSET Bounds
    BY DEF Expiry, Bounds
  <2>. QED  BY <2>1, SpendGood DEF SystemInv, ClientCommits, ClientResyncs
<1>3. AnswerInv(SendCommit(client)) /\ AnswerInv(send_resync_request(client))
  BY <1>1, SendCommitGood, ResyncRequestGood
<1>. QED  BY <1>1, <1>2, <1>3, TurnGood DEF ClientCommits, ClientResyncs

\* A lost packet.
LEMMA LinkInv ==
    ASSUME SystemInv, Link
    PROVE  SystemInv'
<1>1. CountersOK'
  <2>1. {"drop"} \in SUBSET Bounds
    BY DEF Bounds
  <2>. QED  BY <2>1, SpendGood DEF SystemInv, Link, DropToClient, DropToServer
<1>2. s2c' \in Seq(PlacedMsg) /\ c2s' \in Seq(ClientMsg) /\ conn = "up"
  BY QueueParts DEF SystemInv, Link, DropToClient, DropToServer
<1>. QED  BY <1>1, <1>2 DEF SystemInv, Link, DropToClient, DropToServer

\* A connection that ends or begins.
LEMMA ConnectionInv ==
    ASSUME SystemInv, Connection
    PROVE  SystemInv'
<1>1. CASE Disconnect
  <2>1. CountersOK'
    <3>1. {"reconnect"} \in SUBSET Bounds
      BY DEF Bounds
    <3>. QED  BY <1>1, <3>1, SpendGood DEF SystemInv, Disconnect
  <2>. QED  BY <1>1, <2>1 DEF SystemInv, Disconnect
<1>2. CASE _drop_session
  BY <1>2, NoneSpent DEF SystemInv, _drop_session
<1>3. CASE _process_bootstrap
  <2>1. player \in Player
    BY DEF SystemInv
  <2>2. player.map \in Maps /\ player.ver \in Nat /\ player.target \in Origin
    BY <2>1 DEF Player
  <2>3. ClientInv(client')
    BY <1>3, <2>2, BootedGood DEF _process_bootstrap
  <2>4. player' \in Player
    BY <1>3, <2>1 DEF _process_bootstrap, Player
  <2>. QED  BY <1>3, <2>3, <2>4, NoneSpent DEF SystemInv, _process_bootstrap
<1>4. CASE BootstrapExpires
  <2>1. player' \in Player
    BY <1>4 DEF SystemInv, BootstrapExpires, Player
  <2>. QED  BY <1>4, <2>1, NoneSpent DEF SystemInv, BootstrapExpires
<1>5. CASE _attach_realtime
  <2>1. player \in Player /\ conn = "booted" /\ ClientInv(client)
    BY <1>5 DEF SystemInv, _attach_realtime
  <2>2. /\ player.map \in Maps /\ player.target \in Origin
        /\ player.bootstrapped \in BOOLEAN
        /\ player.transition_loading \in BOOLEAN
    BY <2>1 DEF Player
  <2>. DEFINE needs_full == ~player.bootstrapped
              resume == player.transition_loading /\ needs_full
              announce == ~player.transition_loading /\ player.map # Overworld
              known == IF resume \/ announce THEN player.map ELSE None
  <2>3. session' = NewSession(player.target, needs_full, known)
    BY <1>5 DEF _attach_realtime
  <2>4. known \in {None} \cup Maps /\ needs_full \in BOOLEAN
    BY <2>2
  <2>5. SessionInv(session')
    BY <2>2, <2>3, <2>4, NewSessionGood
  <2>6. player' \in Player
    <3>1. player' = [player EXCEPT !.bootstrapped = FALSE,
                                   !.transition_loading = resume \/ announce]
      BY <1>5 DEF _attach_realtime
    <3>2. (resume \/ announce) \in BOOLEAN
      OBVIOUS
    <3>. HIDE DEF resume, announce
    <3>. QED  BY <2>1, <3>1, <3>2 DEF Player
  <2>7. conn' = "up" /\ UNCHANGED <<client, s2c, c2s, counters>>
    BY <1>5 DEF _attach_realtime
  <2>. QED  BY <2>1, <2>5, <2>6, <2>7, NoneSpent DEF SystemInv
<1>. QED  BY <1>1, <1>2, <1>3, <1>4, <1>5 DEF Connection

-----------------------------------------------------------------------------
(* The theorems.                                                            *)

\* Every initial state satisfies the invariant.
LEMMA InitInv == Init => SystemInv
<1>. SUFFICES ASSUME Init
              PROVE  SystemInv
  OBVIOUS
<1>1. player \in Player
  <2>1. PICK m \in Maps : player = NewPlayer(m, Spawn[m])
    BY DEF Init
  <2>2. Spawn[m] \in Origin
    BY SyncAssumption
  <2>. QED  BY <2>1, <2>2 DEF NewPlayer, Player
<1>2. CountersOK
  BY SyncAssumption DEF Init, CountersOK
<1>. QED  BY <1>1, <1>2 DEF Init, SystemInv

\* Every step preserves it.
LEMMA NextInv == SystemInv /\ [Next]_vars => SystemInv'
<1>. SUFFICES ASSUME SystemInv, [Next]_vars
              PROVE  SystemInv'
  OBVIOUS
<1>1. CASE \E step \in GameSteps, timers \in Timer : Tick(step, timers)
  BY <1>1, TickInv
<1>2. CASE IdleTick
  BY <1>2, IdleTickInv
<1>3. CASE Server
  BY <1>3, HandleAckInv, HandleCommitInv, HandleResyncInv, HandleMapReadyInv,
     HandlePlayerStateInv DEF Server
<1>4. CASE Client
  BY <1>4, ClientReceiveInv, ClientRetryInv DEF Client
<1>5. CASE Link
  BY <1>5, LinkInv
<1>6. CASE Connection
  BY <1>6, ConnectionInv
<1>7. CASE SendWorld
  BY <1>7, SendWorldInv
<1>8. CASE UNCHANGED vars
  <2>1. CountersOK'
    BY <1>8, NoneSpent DEF vars
  <2>. QED  BY <1>8, <2>1 DEF SystemInv, vars
<1>. QED  BY <1>1, <1>2, <1>3, <1>4, <1>5, <1>6, <1>7, <1>8 DEF Next

\* The invariant of the whole protocol holds in every reachable state.
THEOREM Invariance == Spec => []SystemInv
  BY InitInv, NextInv, PTL DEF Spec

\* Every variable keeps its type: no handler of the server or the client, in
\* any order of arrival, leaves a field outside its range.
THEOREM TypeCorrect == Spec => []TypeOK
<1>1. SystemInv => TypeOK
  <2>1. \A q : q \in Seq(PlacedMsg) => q \in Seq(ServerMsg)
    BY DEF PlacedMsg
  <2>. QED  BY <2>1 DEF SystemInv, TypeOK, SessionInv, ClientInv
<1>. QED  BY <1>1, Invariance, PTL

\* Whatever the link loses and whatever is sent again or given up, the client
\* never shows a tile out of its place (bootstrap_apply_terrain_edge,
\* bootstrap_fill_activate, apply_world_state), but for GRASS at the corner (0, 0) of
\* a map, which a WORLD_STATE puts there when no tile has changed.
THEOREM TilesInPlace == Spec => []TerrainPlaced
<1>1. SystemInv => TerrainPlaced
  BY DEF SystemInv, TerrainPlaced, ClientInv
<1>. QED  BY <1>1, Invariance, PTL

\* A session never has steps in flight while a fill is open
\* (_start_window_resync cancels them, _service_cache_step waits).
THEOREM MechanismsExclude == Spec => []OneMechanism
<1>1. SystemInv => OneMechanism
  BY DEF SystemInv, OneMechanism, SessionInv
<1>. QED  BY <1>1, Invariance, PTL

\* The steps in flight always form one chain of single tiles under consecutive
\* revisions, across ACKs, retransmissions and the wrap of the counter.
THEOREM PipelineIsChain == Spec => []PipelineChained
<1>1. SystemInv => PipelineChained
  BY DEF SystemInv, PipelineChained, SessionInv
<1>. QED  BY <1>1, Invariance, PTL

-----------------------------------------------------------------------------
(* The map: what a session sends is of the map its player is on, unless it  *)
(* is about to announce another.                                            *)

\* A packet is of map m: the tiles it shows and the map it announces.
OfMap(pkt, m) ==
    /\ pkt.type = "map_change" => pkt.map = m
    /\ pkt.type \in {"edge", "row"} => \A i \in DOMAIN pkt.tiles : pkt.tiles[i].map = m
    /\ pkt.type = "world" => pkt.tile = Grass \/ pkt.tile.map = m

AllOf(q, m) == \A i \in 1 .. Len(q) : OfMap(q[i], m)
Unannounced(q, m) == \A i \in 1 .. Len(q) : ~(q[i].type = "map_change" /\ q[i].map = m)
StepsOf(s, m) == \A i \in 1 .. Len(s.inflight_steps) : OfMap(s.inflight_steps[i].packet, m)

SlotOf(s, m) == s.world # None => OfMap(s.world, m)

\* Between two steps: a session that has not announced the player's map yet has
\* nothing to send, or to send again; nor has it until its client reports for the
\* first time.
HasNothing(s) == s.inflight_steps = << >> /\ s.world = None
SessionOnMap(s, p) ==
    /\ StepsOf(s, p.map) /\ SlotOf(s, p.map)
    /\ ~s.latest => HasNothing(s)
    /\ p.pending_map_change # None => p.pending_map_change = p.map /\ HasNothing(s)
    /\ p.pending_map_change = None => s.last_map_change \in {None, p.map}

\* A reply of a handler of the session: before a tick has announced the player's map
\* it is about no map.
OfNoMap(q) == \A i \in 1 .. Len(q) : q[i].type = "commit_ack"
ReplyOnMap(reply, p) ==
    /\ SessionOnMap(reply.session, p)
    /\ AllOf(reply.out, p.map)
    /\ p.pending_map_change # None => OfNoMap(reply.out)

\* A reply that is terrain of map m only.
Carries(reply, s, m) ==
    /\ StepsOf(reply.session, m) /\ AllOf(reply.out, m)
    /\ reply.session.latest = s.latest /\ reply.session.last_map_change = s.last_map_change
    /\ reply.session.world = s.world

\* A queue without an end is of any map; so is one of two such queues, and what is
\* left when its head is gone.
LEMMA AllOfNone == OfNoMap(<< >>) /\ \A m : AllOf(<< >>, m)
  BY DEF AllOf, OfNoMap

LEMMA NoMap ==
    ASSUME NEW q, OfNoMap(q), NEW m
    PROVE  AllOf(q, m) /\ Unannounced(q, m)
  BY DEF AllOf, OfMap, OfNoMap, Unannounced

LEMMA ConcatElement ==
    ASSUME NEW S, NEW a \in Seq(S), NEW b \in Seq(S), NEW i \in 1 .. Len(a \o b)
    PROVE  \/ i \in 1 .. Len(a) /\ (a \o b)[i] = a[i]
           \/ i - Len(a) \in 1 .. Len(b) /\ (a \o b)[i] = b[i - Len(a)]
  OBVIOUS

LEMMA AllOfConcat ==
    ASSUME NEW S, NEW a \in Seq(S), NEW b \in Seq(S), NEW m, AllOf(a, m), AllOf(b, m)
    PROVE  AllOf(a \o b, m)
<1>1. ASSUME NEW i \in 1 .. Len(a \o b)
      PROVE  OfMap((a \o b)[i], m)
  <2>. DEFINE q == a \o b
  <2>1. \/ i \in 1 .. Len(a) /\ q[i] = a[i]
        \/ i - Len(a) \in 1 .. Len(b) /\ q[i] = b[i - Len(a)]
    BY ConcatElement
  <2>. HIDE DEF q
  <2>2. OfMap(q[i], m)
    BY <2>1 DEF AllOf
  <2>. QED  BY <2>2 DEF q
<1>. QED  BY <1>1 DEF AllOf

LEMMA TailElement ==
    ASSUME NEW S, NEW a \in Seq(S), a # << >>
    PROVE  /\ Len(Tail(a)) = Len(a) - 1 /\ Len(a) \in Nat /\ Len(a) >= 1 /\ Head(a) = a[1]
           /\ \A i \in 1 .. Len(Tail(a)) : i + 1 \in 1 .. Len(a) /\ Tail(a)[i] = a[i + 1]
  OBVIOUS

LEMMA AllOfTail ==
    ASSUME NEW S, NEW a \in Seq(S), a # << >>, NEW m, AllOf(a, m)
    PROVE  OfMap(Head(a), m) /\ AllOf(Tail(a), m)
<1>. DEFINE t == Tail(a)
<1>1. /\ Len(a) \in Nat /\ Len(a) >= 1 /\ Head(a) = a[1]
      /\ \A i \in 1 .. Len(t) : i + 1 \in 1 .. Len(a) /\ t[i] = a[i + 1]
  BY TailElement
<1>. HIDE DEF t
<1>2. AllOf(t, m)
  BY <1>1 DEF AllOf
<1>3. OfMap(Head(a), m)
  BY <1>1 DEF AllOf
<1>. QED  BY <1>2, <1>3 DEF t

-----------------------------------------------------------------------------
(* The handlers of the session.                                             *)

\* A session that agrees with another on these is on the map as well.
LEMMA SameSteps ==
    ASSUME NEW s, NEW p, SessionOnMap(s, p), NEW t,
           t.inflight_steps = s.inflight_steps \/ t.inflight_steps = << >>,
           t.latest = s.latest, t.last_map_change = s.last_map_change, t.world = s.world
    PROVE  SessionOnMap(t, p)
<1>1. StepsOf(t, p.map) /\ SlotOf(t, p.map)
  BY DEF SessionOnMap, StepsOf, SlotOf
<1>. QED  BY <1>1 DEF SessionOnMap, HasNothing

\* Opening a fill cancels the steps.
LEMMA StartFields ==
    ASSUME NEW s \in Session, NEW p, NEW rows
    PROVE  LET t == _start_window_resync(s, p, rows)
           IN  /\ t.inflight_steps = << >> /\ t.latest = s.latest
               /\ t.last_map_change = s.last_map_change /\ t.world = s.world
  BY DEF _start_window_resync, _cancel_inflight_step, Session

LEMMA StartOnMap ==
    ASSUME NEW s \in Session, NEW p, SessionOnMap(s, p), NEW rows
    PROVE  SessionOnMap(_start_window_resync(s, p, rows), p)
<1>. DEFINE t == _start_window_resync(s, p, rows)
<1>1. /\ t.inflight_steps = << >> /\ t.latest = s.latest
      /\ t.last_map_change = s.last_map_change /\ t.world = s.world
  BY StartFields
<1>. HIDE DEF t
<1>2. SessionOnMap(t, p)
  BY <1>1, SameSteps
<1>. QED  BY <1>2 DEF t

LEMMA SilentOnMap ==
    ASSUME NEW s, NEW p, SessionOnMap(s, p)
    PROVE  ReplyOnMap(Silent(s), p)
  BY AllOfNone DEF ReplyOnMap, Silent, Reply

LEMMA SilentCarries ==
    ASSUME NEW s, NEW m, StepsOf(s, m)
    PROVE  Carries(Silent(s), s, m)
  BY AllOfNone DEF Carries, Silent, Reply

LEMMA InflightCarries ==
    ASSUME NEW s \in Session, NEW m, StepsOf(s, m)
    PROVE  AllOf(InflightPackets(s), m)
<1>1. Len(s.inflight_steps) \in Nat
  BY DEF Session
<1>. QED  BY <1>1 DEF StepsOf, InflightPackets, AllOf

LEMMA RetransmitCarries ==
    ASSUME NEW s \in Session, NEW p, StepsOf(s, p.map)
    PROVE  Carries(RetransmitSteps(s, p), s, p.map)
<1>. DEFINE t == [s EXCEPT !.step_retries = @ + 1]
            u == _start_window_resync(s, p, Row)
<1>1. /\ t.inflight_steps = s.inflight_steps /\ t.latest = s.latest
      /\ t.last_map_change = s.last_map_change /\ t.world = s.world
  BY DEF Session
<1>2. \/ RetransmitSteps(s, p) = Reply(u, << >>)
      \/ RetransmitSteps(s, p) = Reply(t, InflightPackets(s))
  BY DEF RetransmitSteps, Silent
<1>3. /\ u.inflight_steps = << >> /\ u.latest = s.latest
      /\ u.last_map_change = s.last_map_change /\ u.world = s.world
  BY StartFields
<1>. HIDE DEF t, u
<1>4. Carries(Reply(t, InflightPackets(s)), s, p.map)
  BY <1>1, InflightCarries DEF Carries, Reply, StepsOf
<1>5. Carries(Reply(u, << >>), s, p.map)
  BY <1>3, AllOfNone DEF Carries, Reply, StepsOf
<1>. QED  BY <1>2, <1>4, <1>5

\* The strip between two windows is of the map it is read from.
LEMMA EdgeOnMap ==
    ASSUME NEW map, NEW ver, NEW revision, NEW old, NEW new
    PROVE  OfMap(EdgePacket(revision, edge_window(map, ver, old, new)), map)
<1>1. \A x, y : /\ \A i \in DOMAIN window_col_tiles(map, ver, x, y) :
                     window_col_tiles(map, ver, x, y)[i].map = map
                /\ \A i \in DOMAIN window_row_tiles(map, ver, x, y) :
                     window_row_tiles(map, ver, x, y)[i].map = map
  BY DEF window_col_tiles, window_row_tiles, TileAt
<1>2. CASE new[1] # old[1]
  BY <1>1, <1>2 DEF EdgePacket, edge_window, OfMap
<1>3. CASE new[1] = old[1]
  BY <1>1, <1>3 DEF EdgePacket, edge_window, OfMap
<1>. QED  BY <1>2, <1>3

LEMMA RowOnMap ==
    ASSUME NEW map, NEW ver, NEW f, NEW x, NEW y, NEW r
    PROVE  OfMap(RowPacket(f, x, y, r, window_row_tiles(map, ver, x, y)), map)
  BY DEF window_row_tiles, TileAt, RowPacket, OfMap

\* New steps are of the map of the moment.
LEMMA ExtendCarries ==
    ASSUME NEW s \in Session, NEW p \in Player, StepsOf(s, p.map)
    PROVE  Carries(ExtendPipeline(s, p), s, p.map)
<1>. DEFINE depth == Len(s.inflight_steps)
            base == ChainEnd(s.window_origin, s.inflight_steps)
            room == IF depth < CACHE_STEP_PIPELINE
                    THEN CACHE_STEP_PIPELINE - depth ELSE 0
            n == Least(room, Gap(base, p.target))
            new == [k \in 1 .. n |-> StepOf(s, p, base, k)]
            out == [k \in 1 .. n |-> StepOf(s, p, base, k).packet]
            whole == s.inflight_steps \o new
            retries == IF depth = 0 THEN 0 ELSE s.step_retries
            revision == RevisionAfter(s.next_cache_revision, n)
            t == [s EXCEPT !.next_cache_revision = revision,
                           !.step_retries = retries,
                           !.inflight_steps = whole]
<1>1. /\ s \in Session /\ s.inflight_steps \in Seq(InflightStep) /\ depth \in Nat
      /\ s.window_origin \in Origin /\ p.target \in Origin
      /\ \A i \in 1 .. depth : s.inflight_steps[i] \in InflightStep
  BY DEF Session, Player
<1>2. n \in Nat
  <2>1. base \in Origin
    BY <1>1 DEF ChainEnd, InflightStep
  <2>2. Gap(base, p.target) \in Nat
    BY <1>1, <2>1, GapType
  <2>3. room \in Nat
    BY <1>1, SessionAssumption
  <2>. HIDE DEF room, base
  <2>. QED  BY <2>2, <2>3 DEF Least
<1>3. ExtendPipeline(s, p) = IF n = 0 THEN Silent(s) ELSE Reply(t, out)
  BY DEF ExtendPipeline, StepOf, ChainEnd
<1>. HIDE DEF base, n
<1>4. \A k \in 1 .. n : OfMap(new[k].packet, p.map) /\ OfMap(out[k], p.map)
  BY EdgeOnMap DEF StepOf
<1>5. new \in Seq({new[k] : k \in 1 .. n}) /\ Len(new) = n /\ Len(out) = n
  BY <1>2
<1>. HIDE DEF new, out
<1>6. AllOf(out, p.map)
  BY <1>4, <1>5 DEF AllOf
<1>7. ASSUME NEW i \in 1 .. Len(whole)
      PROVE  OfMap(whole[i].packet, p.map)
  <2>. DEFINE S == InflightStep \cup {new[k] : k \in 1 .. n}
              old == s.inflight_steps
  <2>1. old \in Seq(S) /\ new \in Seq(S)
    BY <1>1, <1>5
  <2>2. \/ i \in 1 .. Len(old) /\ whole[i] = old[i]
        \/ i - Len(old) \in 1 .. Len(new) /\ whole[i] = new[i - Len(old)]
    <3>. HIDE DEF S, old
    <3>1. \/ i \in 1 .. Len(old) /\ (old \o new)[i] = old[i]
          \/ i - Len(old) \in 1 .. Len(new) /\ (old \o new)[i] = new[i - Len(old)]
      <4>1. i \in 1 .. Len(old \o new)
        BY <1>7 DEF old
      <4>. QED  BY <2>1, <4>1, ConcatElement
    <3>. QED  BY <3>1 DEF old
  <2>. HIDE DEF whole, S
  <2>. QED  BY <2>2, <1>4, <1>5 DEF StepsOf
<1>. HIDE DEF whole, retries, revision
<1>8. /\ t.inflight_steps = whole /\ t.latest = s.latest
      /\ t.last_map_change = s.last_map_change /\ t.world = s.world
  BY <1>1 DEF Session
<1>. HIDE DEF t
<1>9. Carries(Reply(t, out), s, p.map)
  BY <1>6, <1>7, <1>8 DEF Carries, Reply, StepsOf
<1>. QED  BY <1>3, <1>9, SilentCarries

LEMMA ServiceCarries ==
    ASSUME NEW s \in Session, NEW p \in Player, StepsOf(s, p.map), NEW timer
    PROVE  Carries(_service_cache_step(s, p, timer), s, p.map)
  BY RetransmitCarries, ExtendCarries DEF _service_cache_step

\* An ACK: whoever has a step to acknowledge has announced the map.
LEMMA AckOnMap ==
    ASSUME NEW s \in Session, SessionInv(s), NEW p \in Player, SessionOnMap(s, p),
           NEW ack \in [type : {"ack"}, revision : 0 .. MaxRevision, origin : Origin],
           NEW settled
    PROVE  ReplyOnMap(_handle_cache_step_ack(s, p, ack, settled), p)
<1>. DEFINE steps == s.inflight_steps
            hits == {i \in 1 .. Len(s.inflight_steps) :
                        s.inflight_steps[i].revision = ack.revision}
            i0 == CHOOSE h \in hits : \A g \in hits : h <= g
            left == SubSeq(steps, i0 + 1, Len(steps))
            t == [s EXCEPT !.window_origin = ack.origin,
                           !.last_acked_revision = ack.revision,
                           !.inflight_steps = left,
                           !.step_retries = 0]
            reply == _handle_cache_step_ack(s, p, ack, settled)
<1>1. steps \in Seq(InflightStep) /\ Len(steps) \in Nat
  BY DEF Session
<1>2. \/ reply = Silent(s)
      \/ reply = Reply(s, InflightPackets(s))
      \/ hits # {} /\ reply = _service_cache_step(t, p, FALSE)
  <2>1. CASE hits = {}
    BY <2>1 DEF _handle_cache_step_ack
  <2>2. CASE hits # {}
    <3>1. reply = IF ack.origin # steps[i0].origin THEN Silent(s)
                  ELSE _service_cache_step(t, p, FALSE)
      BY <2>2 DEF _handle_cache_step_ack
    <3>. HIDE DEF hits, reply, t, i0
    <3>. QED  BY <2>2, <3>1
  <2>. QED  BY <2>1, <2>2
<1>3. ReplyOnMap(Silent(s), p) /\ ReplyOnMap(Reply(s, InflightPackets(s)), p)
  <2>1. s.inflight_steps = << >> => InflightPackets(s) = << >>
    BY DEF InflightPackets
  <2>2. AllOf(InflightPackets(s), p.map)
    BY InflightCarries DEF SessionOnMap
  <2>. QED  BY <2>1, <2>2, SilentOnMap, AllOfNone DEF ReplyOnMap, Reply, SessionOnMap, HasNothing
<1>4. ASSUME hits # {}
      PROVE  ReplyOnMap(_service_cache_step(t, p, FALSE), p)
  <2>1. s.latest /\ p.pending_map_change = None
    <3>1. steps # << >>
      BY <1>1, <1>4
    <3>. QED  BY <3>1 DEF SessionOnMap, HasNothing
  <2>2. i0 \in 1 .. Len(steps)
    <3>1. /\ s.window_origin \in Origin /\ s.next_cache_revision \in 0 .. MaxRevision
          /\ Chained(s.window_origin, steps, s.next_cache_revision)
          /\ Len(steps) <= MaxRevision
      BY SessionAssumption DEF Session, SessionInv, StepsChained
    <3>2. ASSUME NEW g \in hits, NEW h \in hits
          PROVE  g = h
      <4>1. /\ g \in 1 .. Len(steps) /\ h \in 1 .. Len(steps)
            /\ steps[g].revision = steps[h].revision
        OBVIOUS
      <4>. HIDE DEF steps, hits
      <4>. QED  BY <1>1, <3>1, <4>1, ChainDistinct
    <3>3. \A g \in hits : g <= g
      OBVIOUS
    <3>. QED  BY <1>4, <3>2, <3>3
  <2>. HIDE DEF i0
  <2>3. /\ left \in Seq(InflightStep) /\ Len(left) = Len(steps) - i0
        /\ \A i \in 1 .. Len(left) : i + i0 \in 1 .. Len(steps) /\ left[i] = steps[i + i0]
    <3>. HIDE DEF steps
    <3>1. /\ left \in Seq(InflightStep) /\ Len(left) = Len(steps) - i0
          /\ \A i \in 1 .. Len(left) : left[i] = steps[i0 + 1 + i - 1]
      BY <1>1, <2>2, SubSeqProperties
    <3>. HIDE DEF left
    <3>. QED  BY <1>1, <2>2, <3>1
  <2>. HIDE DEF left
  <2>4. t \in Session
    <3>1. 0 \in 0 .. CACHE_STEP_RETRY_LIMIT /\ ack.origin \in Origin /\ ack.revision \in 0 .. MaxRevision
      BY SessionAssumption
    <3>. QED  BY <2>3, <3>1 DEF Session
  <2>5. /\ t.inflight_steps = left /\ t.latest = s.latest
        /\ t.last_map_change = s.last_map_change /\ t.world = s.world
    BY DEF Session
  <2>. HIDE DEF t
  <2>6. StepsOf(t, p.map)
    BY <2>3, <2>5 DEF SessionOnMap, StepsOf
  <2>7. Carries(_service_cache_step(t, p, FALSE), t, p.map)
    BY <2>4, <2>6, ServiceCarries
  <2>. QED  BY <2>1, <2>5, <2>7 DEF Carries, ReplyOnMap, SessionOnMap, SlotOf
<1>. HIDE DEF t, hits
<1>. QED  BY <1>2, <1>3, <1>4

\* A commit and a resync request send no terrain.
LEMMA CommitOnMap ==
    ASSUME NEW s \in Session, NEW p, SessionOnMap(s, p), NEW commit
    PROVE  ReplyOnMap(_handle_window_commit(s, p, commit), p)
<1>. DEFINE t == [s EXCEPT !.window_origin = s.fill_origin,
                           !.fill_origin = None,
                           !.fill_waiting_for_commit = FALSE,
                           !.resync_rows = None]
            ack(o) == <<CommitAckPacket(s.fill_id, o)>>
<1>1. _handle_window_commit(s, p, commit) \in
        {Silent(s), Reply(s, ack(s.window_origin)), Reply(t, ack(s.fill_origin))}
  BY DEF _handle_window_commit
<1>2. /\ t.inflight_steps = s.inflight_steps /\ t.latest = s.latest
      /\ t.last_map_change = s.last_map_change /\ t.world = s.world
  BY DEF Session
<1>3. \A o : AllOf(ack(o), p.map) /\ OfNoMap(ack(o))
  BY DEF AllOf, OfMap, OfNoMap, CommitAckPacket
<1>. HIDE DEF t, ack
<1>4. SessionOnMap(t, p)
  BY <1>2, SameSteps
<1>5. /\ ReplyOnMap(Reply(s, ack(s.window_origin)), p)
      /\ ReplyOnMap(Reply(t, ack(s.fill_origin)), p)
  BY <1>3, <1>4 DEF ReplyOnMap, Reply
<1>. QED  BY <1>1, <1>5, SilentOnMap

LEMMA ResyncOnMap ==
    ASSUME NEW s \in Session, NEW p, SessionOnMap(s, p), NEW r
    PROVE  SessionOnMap(_handle_resync_request(s, p, r), p)
<1>. DEFINE reopened == [s EXCEPT !.resync_rows = Row \ r.rows_have,
                                  !.fill_waiting_for_commit = FALSE]
            rewound(t) == [_cancel_inflight_step(t) EXCEPT !.window_origin = r.origin]
<1>1. ASSUME NEW t, t \in {s, AbandonFill(s)}
      PROVE  /\ SessionOnMap(t, p) /\ SessionOnMap(rewound(t), p)
             /\ \A rows : SessionOnMap(_start_window_resync(t, p, rows), p)
  <2>1. /\ t.inflight_steps = s.inflight_steps /\ t.latest = s.latest
        /\ t.last_map_change = s.last_map_change /\ t.world = s.world
    BY <1>1 DEF AbandonFill, Session
  <2>2. SessionOnMap(t, p)
    BY <2>1, SameSteps
  <2>3. /\ rewound(t).inflight_steps = << >> /\ rewound(t).latest = s.latest
        /\ rewound(t).last_map_change = s.last_map_change /\ rewound(t).world = s.world
    BY <1>1 DEF AbandonFill, _cancel_inflight_step, Session
  <2>4. ASSUME NEW rows
        PROVE  SessionOnMap(_start_window_resync(t, p, rows), p)
    <3>. DEFINE u == _start_window_resync(t, p, rows)
    <3>1. /\ u.inflight_steps = << >> /\ u.latest = s.latest
          /\ u.last_map_change = s.last_map_change /\ u.world = s.world
      BY <1>1 DEF AbandonFill, _start_window_resync, _cancel_inflight_step, Session
    <3>. HIDE DEF u
    <3>2. SessionOnMap(u, p)
      BY <3>1, SameSteps
    <3>. QED  BY <3>2 DEF u
  <2>. HIDE DEF rewound
  <2>5. SessionOnMap(rewound(t), p)
    BY <2>3, SameSteps
  <2>. QED  BY <2>2, <2>4, <2>5
<1>2. /\ reopened.inflight_steps = s.inflight_steps /\ reopened.latest = s.latest
      /\ reopened.last_map_change = s.last_map_change /\ reopened.world = s.world
  BY DEF Session
<1>3. _handle_resync_request(s, p, r) \in
        {_start_window_resync(s, p, Row), reopened, AbandonFill(s), rewound(AbandonFill(s)),
         _start_window_resync(AbandonFill(s), p, RowsFor(p, r))}
  BY DEF _handle_resync_request, ReplayOrRefill
<1>. HIDE DEF reopened, rewound
<1>4. SessionOnMap(reopened, p)
  BY <1>2, SameSteps
<1>. QED  BY <1>1, <1>3, <1>4

\* A session that has yet to announce the player's map, or is on it.
MayAnnounce(s, p) ==
    IF p.pending_map_change = None
    THEN SessionOnMap(s, p)
    ELSE p.pending_map_change = p.map

\* What a tick does first announces the map where that is due; of the old map only
\* the WORLD_STATE that was not sent is left.
Announced(reply, m) ==
    /\ StepsOf(reply.session, m) /\ AllOf(reply.out, m)
    /\ reply.session.latest /\ reply.session.last_map_change \in {None, m}

LEMMA AnnounceOnMap ==
    ASSUME NEW s \in Session, NEW p \in Player, MayAnnounce(s, p), s.latest, NEW resend
    PROVE  /\ Announced(AnnounceMap(s, p, resend), p.map)
           /\ p.pending_map_change # None =>
                AnnounceMap(s, p, resend).out = <<MapChangePacket(p.map)>>
<1>1. \A m : m = p.map => AllOf(<<MapChangePacket(m)>>, p.map)
  BY DEF AllOf, OfMap, MapChangePacket
<1>2. CASE p.pending_map_change # None
  <2>. DEFINE m == p.pending_map_change
              t == [s EXCEPT !.last_map_change = m]
              u == _start_window_resync(t, p, Row)
  <2>1. m = p.map
    BY <1>2 DEF MayAnnounce
  <2>2. u.inflight_steps = << >> /\ u.last_map_change = m /\ u.latest
    BY DEF _start_window_resync, _cancel_inflight_step, Session
  <2>3. AnnounceMap(s, p, resend) = Reply(u, <<MapChangePacket(m)>>)
    BY <1>2 DEF AnnounceMap
  <2>. HIDE DEF u, m
  <2>. QED  BY <1>1, <2>1, <2>2, <2>3 DEF Announced, StepsOf, Reply
<1>3. CASE p.pending_map_change = None
  <2>. DEFINE u == IF s.resync_rows = None /\ s.fill_origin = None
                   THEN _start_window_resync(s, p, Row) ELSE s
  <2>1. SessionOnMap(s, p)
    BY <1>3 DEF MayAnnounce
  <2>2. \/ AnnounceMap(s, p, resend) = Silent(s)
        \/ /\ s.last_map_change # None
           /\ AnnounceMap(s, p, resend) = Reply(u, <<MapChangePacket(s.last_map_change)>>)
    BY <1>3 DEF AnnounceMap
  <2>3. SessionOnMap(u, p) /\ u.latest
    BY <2>1, StartOnMap, StartFields
  <2>. HIDE DEF u
  <2>4. s.last_map_change # None
          => Announced(Reply(u, <<MapChangePacket(s.last_map_change)>>), p.map)
    BY <1>1, <1>3, <2>1, <2>3 DEF Announced, Reply, SessionOnMap
  <2>5. Announced(Silent(s), p.map)
    BY <1>3, <2>1, AllOfNone DEF Announced, Silent, Reply, SessionOnMap
  <2>. QED  BY <1>3, <2>2, <2>4, <2>5
<1>. QED  BY <1>2, <1>3

LEMMA SendRowsCarries ==
    ASSUME NEW s \in Session, NEW p, StepsOf(s, p.map),
           NEW batch \in RowBatch(s.resync_rows)
    PROVE  Carries(SendRows(s, p, batch), s, p.map)
<1>. DEFINE left == s.resync_rows \ {batch[i] : i \in DOMAIN batch}
            o == IF s.fill_origin # None THEN s.fill_origin ELSE s.window_origin
            Pkt(i) == RowPacket(s.fill_id, o[1], o[2] + batch[i], batch[i],
                          window_row_tiles(p.map, p.ver, o[1], o[2] + batch[i]))
            out == [i \in DOMAIN batch |-> Pkt(i)]
            t == [s EXCEPT !.resync_rows = IF left = {} THEN None ELSE left,
                           !.fill_waiting_for_commit = (left = {})]
<1>1. PICK n \in 0 .. ResyncRowBudget : batch \in [1 .. n -> s.resync_rows]
  BY DEF RowBatch
<1>2. /\ t.inflight_steps = s.inflight_steps /\ t.latest = s.latest
      /\ t.last_map_change = s.last_map_change /\ t.world = s.world
  BY DEF Session
<1>3. SendRows(s, p, batch) = Reply(t, out)
  BY DEF SendRows, o
<1>. HIDE DEF t, left, o
<1>4. AllOf(out, p.map)
  <2>1. DOMAIN out = 1 .. n /\ n \in Nat
    BY <1>1, SessionAssumption
  <2>2. Len(out) = n
    BY <2>1
  <2>3. \A i \in 1 .. n : out[i] = Pkt(i)
    BY <2>1
  <2>. HIDE DEF out
  <2>. QED  BY <2>2, <2>3, RowOnMap DEF AllOf
<1>. HIDE DEF out
<1>. QED  BY <1>2, <1>3, <1>4 DEF Carries, Reply, StepsOf

\* A tick sends only what is of the player's map, and leaves no change to announce.
LEMMA TickOnMap ==
    ASSUME NEW s \in Session, SessionInv(s), s.latest, NEW p \in Player, MayAnnounce(s, p),
           NEW timers \in Timer, NEW t \in _send_tick_packets(s, p, timers)
    PROVE  /\ SessionOnMap(t.session, t.player) /\ AllOf(t.out, p.map)
           /\ t.player.map = p.map /\ t.player.pending_map_change = None
           /\ t.player.transition_loading = p.transition_loading
           /\ t.player.target = p.target
           /\ p.pending_map_change # None =>
                t.out # << >> /\ t.out[1].type = "map_change"
<1>. DEFINE announced == AnnounceMap(s, p, timers.resend)
            waited == ExpireCommit(announced.session, p, timers.commit)
            opened == OpenFill(waited, p)
            told == ConsumeFlags(waited, p)
<1>2. /\ Announced(announced, p.map)
      /\ p.pending_map_change # None => announced.out = <<MapChangePacket(p.map)>>
  BY AnnounceOnMap
<1>3. ReplyInv(announced) /\ announced.session \in Session
  BY AnnounceGood DEF ReplyInv, SessionInv, Timer
<1>4. /\ told.map = p.map /\ told.pending_map_change = None /\ told.target = p.target
      /\ told.transition_loading = p.transition_loading
  BY DEF ConsumeFlags, Player
<1>5. waited = announced.session \/ waited = _start_window_resync(announced.session, p, Row)
  BY DEF ExpireCommit
<1>6. \E x : x \in {waited, [waited EXCEPT !.needs_full_resync = FALSE]}
        /\ opened \in {x, _start_window_resync(x, p, Row)}
  BY DEF OpenFill
<1>7. PICK u \in TransmitTerrain(opened, p, timers.step),
           world \in _snapshot_tile_update(opened, p) :
        t = Ticked(announced, u, world, told)
  BY DEF _send_tick_packets
<1>. HIDE DEF announced, told
<1>8. /\ SessionInv(waited) /\ waited \in Session /\ StepsOf(waited, p.map) /\ waited.latest
      /\ waited.last_map_change \in {None, p.map}
  <2>. DEFINE a == announced.session
  <2>1. StepsOf(a, p.map) /\ a.latest /\ a.last_map_change \in {None, p.map}
    BY <1>2 DEF Announced
  <2>2. SessionInv(waited)
    BY <1>3, <1>5, StartGood DEF ReplyInv
  <2>3. waited \in Session
    BY <2>2 DEF SessionInv
  <2>4. \/ waited.inflight_steps = a.inflight_steps
        \/ waited.inflight_steps = << >>
    BY <1>3, <1>5, StartFields
  <2>5. waited.latest = a.latest /\ waited.last_map_change = a.last_map_change
    BY <1>3, <1>5, StartFields
  <2>. HIDE DEF waited, a
  <2>. QED  BY <2>1, <2>2, <2>3, <2>4, <2>5 DEF StepsOf
<1>9. /\ SessionInv(opened) /\ opened \in Session /\ StepsOf(opened, p.map)
      /\ opened.latest /\ opened.last_map_change \in {None, p.map}
  <2>1. SessionInv(opened) /\ opened \in Session
    BY <1>8, OpenGood DEF SessionInv
  <2>. HIDE DEF waited, opened
  <2>2. PICK x : x \in {waited, [waited EXCEPT !.needs_full_resync = FALSE]}
                 /\ opened \in {x, _start_window_resync(x, p, Row)}
    BY <1>6
  <2>3. /\ x \in Session /\ x.inflight_steps = waited.inflight_steps /\ x.latest = waited.latest
        /\ x.last_map_change = waited.last_map_change
    BY <1>8, <2>2 DEF Session
  <2>4. \/ opened.inflight_steps = waited.inflight_steps
        \/ opened.inflight_steps = << >>
    BY <2>2, <2>3, StartFields
  <2>5. opened.latest = waited.latest /\ opened.last_map_change = waited.last_map_change
    BY <2>2, <2>3, StartFields
  <2>. QED  BY <1>8, <2>1, <2>4, <2>5 DEF StepsOf
<1>. HIDE DEF waited, opened
<1>10. Carries(u, opened, p.map) /\ u.out \in Seq(PlacedMsg) /\ SessionInv(u.session)
  <2>1. CASE opened.resync_rows # None
    <3>1. PICK batch \in RowBatch(opened.resync_rows) : u = SendRows(opened, p, batch)
      BY <1>7, <2>1 DEF TransmitTerrain
    <3>. QED  BY <1>9, <2>1, <3>1, SendRowsCarries, SendRowsGood DEF ReplyInv
  <2>2. CASE opened.resync_rows = None /\ opened.fill_waiting_for_commit
    <3>1. u = Silent(opened)
      BY <1>7, <2>2 DEF TransmitTerrain
    <3>. QED  BY <1>9, <3>1, SilentCarries, SilentGood DEF ReplyInv
  <2>3. CASE opened.resync_rows = None /\ ~opened.fill_waiting_for_commit
    <3>1. opened.fill_origin = None
      BY <1>9, <2>3 DEF SessionInv, FillExcludesSteps
    <3>2. u = _service_cache_step(opened, p, timers.step)
      BY <1>7, <2>3 DEF TransmitTerrain
    <3>3. timers.step \in BOOLEAN
      BY DEF Timer
    <3>. QED  BY <1>9, <3>1, <3>2, <3>3, ServiceCarries, ServiceGood DEF ReplyInv
  <2>. QED  BY <2>1, <2>2, <2>3
<1>11. AllOf(announced.out \o u.out, p.map)
  <2>1. announced.out \in Seq(PlacedMsg)
    BY <1>3 DEF ReplyInv
  <2>2. AllOf(announced.out, p.map)
    BY <1>2 DEF Announced
  <2>. QED  BY <1>10, <2>1, <2>2, AllOfConcat DEF Carries
<1>12. SessionOnMap(QueueWorld(u.session, world), told)
  <2>. DEFINE v == QueueWorld(u.session, world)
  <2>1. u.session \in Session
    BY <1>10 DEF SessionInv
  <2>2. /\ v.inflight_steps = u.session.inflight_steps /\ v.latest = u.session.latest
        /\ v.last_map_change = u.session.last_map_change /\ v.world = world
    BY <2>1 DEF QueueWorld, Session
  <2>3. OfMap(world, p.map)
    BY WorldTold DEF OfMap, WorldMsg
  <2>. HIDE DEF v
  <2>4. StepsOf(v, p.map) /\ SlotOf(v, p.map)
    BY <1>10, <2>2, <2>3 DEF Carries, StepsOf, SlotOf
  <2>5. v.latest /\ v.last_map_change \in {None, p.map}
    BY <1>9, <1>10, <2>2 DEF Carries
  <2>6. SessionOnMap(v, told)
    BY <1>4, <2>4, <2>5 DEF SessionOnMap
  <2>. QED  BY <2>6 DEF v
<1>13. ASSUME p.pending_map_change # None
       PROVE  t.out # << >> /\ t.out[1].type = "map_change"
  <2>1. announced.out = <<MapChangePacket(p.map)>> /\ t.out = announced.out \o u.out
    BY <1>2, <1>7, <1>13 DEF Ticked
  <2>2. u.out \in Seq(PlacedMsg)
    BY <1>10
  <2>. HIDE DEF announced
  <2>. QED  BY <2>1, <2>2 DEF MapChangePacket
<1>. QED  BY <1>4, <1>7, <1>11, <1>12, <1>13 DEF Ticked

-----------------------------------------------------------------------------
(* The map on the client, and on the way between both.                      *)

\* A client of map m shows it, but for GRASS at its corner, and stages rows of it, unless
\* it still waits for it.
Shows(c, m) ==
    /\ c.map_loading \/ \A r \in Row, k \in Col :
                            c.terrain[r][k] # Grass => c.terrain[r][k].map = m
    /\ \A r \in RowsHave(c.fill), k \in Col : c.fill.rows[r][k].map = m

\* What is under way after the announcement of map m is of map m.
Follows(q, m) ==
    \A i \in 1 .. Len(q) : q[i].type = "map_change" /\ q[i].map = m =>
        \A j \in i .. Len(q) : OfMap(q[j], m)

\* A client that has reported map m shows it, and has reported no other since.
ReadyFor(pkt, m) == pkt.type = "map_ready" => pkt.map = m
AllReady(q, m) == \A i \in 1 .. Len(q) : ReadyFor(q[i], m)
Reported(q, c, m) ==
    \A i \in 1 .. Len(q) : q[i].type = "map_ready" /\ q[i].map = m =>
        /\ c.current_map_id = m /\ ~c.map_loading
        /\ \A j \in i .. Len(q) : ReadyFor(q[j], m)

\* A client whose answer to a packet keeps to the map it is on.
Keeps(c, a, pkt, m) ==
    /\ a.client.current_map_id = c.current_map_id
    /\ ~c.map_loading => ~a.client.map_loading
    /\ \A i \in 1 .. Len(a.out) : a.out[i].type = "map_ready" =>
         a.out[i].map = c.current_map_id /\ ~a.client.map_loading
    /\ OfMap(pkt, m) /\ Shows(c, m) => Shows(a.client, m)

LEMMA FollowsConcat ==
    ASSUME NEW S, NEW a \in Seq(S), NEW b \in Seq(S), NEW m, Follows(a, m), AllOf(b, m)
    PROVE  Follows(a \o b, m)
<1>. DEFINE q == a \o b
<1>1. \A i \in 1 .. Len(q) : \/ i \in 1 .. Len(a) /\ q[i] = a[i]
                             \/ i - Len(a) \in 1 .. Len(b) /\ q[i] = b[i - Len(a)]
  BY ConcatElement
<1>2. Len(q) \in Nat /\ Len(a) \in Nat
  OBVIOUS
<1>. HIDE DEF q
<1>3. ASSUME NEW i \in 1 .. Len(q), q[i].type = "map_change", q[i].map = m,
             NEW j \in i .. Len(q)
      PROVE  OfMap(q[j], m)
  <2>1. j \in 1 .. Len(q)
    BY <1>2
  <2>2. CASE j - Len(a) \in 1 .. Len(b) /\ q[j] = b[j - Len(a)]
    BY <2>2 DEF AllOf
  <2>3. CASE j \in 1 .. Len(a) /\ q[j] = a[j]
    <3>1. i \in 1 .. Len(a) /\ q[i] = a[i] /\ j \in i .. Len(a)
      BY <1>1, <1>2, <2>3
    <3>. QED  BY <1>3, <2>3, <3>1 DEF Follows
  <2>. QED  BY <1>1, <2>1, <2>2, <2>3
<1>4. Follows(q, m)
  BY <1>3 DEF Follows
<1>. QED  BY <1>4 DEF q

LEMMA UnannouncedConcat ==
    ASSUME NEW S, NEW a \in Seq(S), NEW b \in Seq(S), NEW m,
           Unannounced(a, m), Unannounced(b, m)
    PROVE  Unannounced(a \o b, m)
<1>. DEFINE q == a \o b
<1>1. \A i \in 1 .. Len(q) : \/ i \in 1 .. Len(a) /\ q[i] = a[i]
                             \/ i - Len(a) \in 1 .. Len(b) /\ q[i] = b[i - Len(a)]
  BY ConcatElement
<1>. HIDE DEF q
<1>2. Unannounced(q, m)
  BY <1>1 DEF Unannounced
<1>. QED  BY <1>2 DEF q

\* A packet less from the front.
LEMMA TailOnMap ==
    ASSUME NEW S, NEW a \in Seq(S), a # << >>, NEW m, NEW c
    PROVE  /\ Follows(a, m) => Follows(Tail(a), m)
           /\ Unannounced(a, m) => Unannounced(Tail(a), m)
           /\ Reported(a, c, m) => Reported(Tail(a), c, m)
           /\ AllReady(a, m) => AllReady(Tail(a), m)
<1>. DEFINE t == Tail(a)
<1>1. /\ Len(a) \in Nat /\ Len(t) = Len(a) - 1
      /\ \A i \in 1 .. Len(t) : i + 1 \in 1 .. Len(a) /\ t[i] = a[i + 1]
  BY TailElement
<1>2. \A i \in 1 .. Len(t) : \A j \in i .. Len(t) :
        j \in 1 .. Len(t) /\ j + 1 \in (i + 1) .. Len(a) /\ t[j] = a[j + 1]
  BY <1>1
<1>. HIDE DEF t
<1>3. Follows(a, m) => Follows(t, m)
  BY <1>1, <1>2 DEF Follows
<1>4. Unannounced(a, m) => Unannounced(t, m)
  BY <1>1 DEF Unannounced
<1>5. Reported(a, c, m) => Reported(t, c, m)
  BY <1>1, <1>2 DEF Reported
<1>6. AllReady(a, m) => AllReady(t, m)
  BY <1>1 DEF AllReady
<1>. QED  BY <1>3, <1>4, <1>5, <1>6 DEF t

\* Once the report of map m is at the head, only reports of m follow.
LEMMA HeadReported ==
    ASSUME NEW S, NEW a \in Seq(S), a # << >>, NEW m, NEW c, Reported(a, c, m),
           Head(a).type = "map_ready", Head(a).map = m
    PROVE  c.current_map_id = m /\ ~c.map_loading /\ AllReady(a, m)
<1>1. Len(a) \in Nat /\ Len(a) >= 1 /\ Head(a) = a[1]
  BY TailElement
<1>2. 1 \in 1 .. Len(a)
  BY <1>1
<1>. QED  BY <1>1, <1>2 DEF Reported, AllReady

\* Once map m is announced at the head, only map m follows.
LEMMA HeadFollows ==
    ASSUME NEW S, NEW a \in Seq(S), a # << >>, NEW m, Follows(a, m),
           Head(a).type = "map_change", Head(a).map = m
    PROVE  AllOf(a, m) /\ ~Unannounced(a, m)
<1>1. Len(a) \in Nat /\ Len(a) >= 1 /\ Head(a) = a[1]
  BY TailElement
<1>2. 1 \in 1 .. Len(a)
  BY <1>1
<1>. QED  BY <1>1, <1>2 DEF Follows, AllOf, Unannounced

\* An answer is of the map its client is on.
LEMMA AnswerReported ==
    ASSUME NEW S, NEW up \in Seq(S), NEW out \in Seq(S), NEW c, NEW d, NEW m,
           Reported(up, c, m),
           d.current_map_id = c.current_map_id, ~c.map_loading => ~d.map_loading,
           \A i \in 1 .. Len(out) : out[i].type = "map_ready" =>
             out[i].map = c.current_map_id /\ ~d.map_loading
    PROVE  /\ Reported(up \o out, d, m)
           /\ AllReady(up, m) /\ c.current_map_id = m => AllReady(up \o out, m)
<1>. DEFINE q == up \o out
<1>1. \A i \in 1 .. Len(q) : \/ i \in 1 .. Len(up) /\ q[i] = up[i]
                             \/ i - Len(up) \in 1 .. Len(out) /\ q[i] = out[i - Len(up)]
  BY ConcatElement
<1>2. Len(q) \in Nat /\ Len(up) \in Nat
  OBVIOUS
<1>. HIDE DEF q
<1>3. ASSUME NEW i \in 1 .. Len(q), q[i].type = "map_ready", q[i].map = m
      PROVE  /\ d.current_map_id = m /\ ~d.map_loading
             /\ \A j \in i .. Len(q) : ReadyFor(q[j], m)
  <2>1. d.current_map_id = m /\ ~d.map_loading /\ c.current_map_id = m
    BY <1>1, <1>3 DEF Reported
  <2>2. ASSUME NEW j \in i .. Len(q)
        PROVE  ReadyFor(q[j], m)
    <3>1. j \in 1 .. Len(q)
      BY <1>2
    <3>2. CASE j - Len(up) \in 1 .. Len(out) /\ q[j] = out[j - Len(up)]
      BY <2>1, <3>2 DEF ReadyFor
    <3>3. CASE j \in 1 .. Len(up) /\ q[j] = up[j]
      <4>1. i \in 1 .. Len(up) /\ q[i] = up[i] /\ j \in i .. Len(up)
        BY <1>1, <1>2, <3>3
      <4>. QED  BY <1>3, <3>3, <4>1 DEF Reported
    <3>. QED  BY <1>1, <3>1, <3>2, <3>3
  <2>. QED  BY <2>1, <2>2
<1>4. Reported(q, d, m)
  BY <1>3 DEF Reported
<1>5. AllReady(up, m) /\ c.current_map_id = m => AllReady(q, m)
  BY <1>1 DEF AllReady, ReadyFor
<1>. QED  BY <1>4, <1>5 DEF q

\* A client that says nothing of maps, and shows what it showed.
LEMMA QuietKeeps ==
    ASSUME NEW c, NEW d, d.current_map_id = c.current_map_id, d.map_loading = c.map_loading,
           NEW out, \A i \in 1 .. Len(out) : out[i].type # "map_ready",
           NEW pkt, NEW m, OfMap(pkt, m) /\ Shows(c, m) => Shows(d, m)
    PROVE  Keeps(c, Answer(d, out), pkt, m)
  BY DEF Keeps, Answer

LEMMA RequestKeeps ==
    ASSUME NEW c \in ClientState, NEW pkt, NEW m
    PROVE  /\ Keeps(c, Quiet(c), pkt, m)
           /\ Keeps(c, send_resync_request(c), pkt, m)
           /\ Keeps(c, SendCommit(c), pkt, m)
<1>. DEFINE d == [c EXCEPT !.revision_trust_next = TRUE, !.resync_pending = TRUE]
            e == [c EXCEPT !.commit_due = FALSE]
            Silence2(out) == \A i \in 1 .. Len(out) : out[i].type # "map_ready"
<1>1. /\ d.current_map_id = c.current_map_id /\ d.map_loading = c.map_loading
      /\ d.terrain = c.terrain /\ d.fill = c.fill
      /\ e.current_map_id = c.current_map_id /\ e.map_loading = c.map_loading
      /\ e.terrain = c.terrain /\ e.fill = c.fill
  BY DEF ClientState
<1>2. Silence2(<< >>) /\ Silence2(<<ResyncPacket(c)>>) /\ Silence2(<<CommitPacket(c)>>)
  BY DEF ResyncPacket, CommitPacket
<1>3. /\ send_resync_request(c) = Answer(d, <<ResyncPacket(c)>>)
      /\ SendCommit(c) = Answer(e, <<CommitPacket(c)>>)
      /\ Quiet(c) = Answer(c, << >>)
  BY DEF send_resync_request, SendCommit, Quiet
<1>. HIDE DEF d, e
<1>4. (Shows(c, m) => Shows(d, m)) /\ (Shows(c, m) => Shows(e, m))
  BY <1>1 DEF Shows
<1>. QED  BY <1>1, <1>2, <1>3, <1>4, QuietKeeps

\* A strip of map m slides into a window of map m.
LEMMA SlideShows ==
    ASSUME NEW c \in ClientState, NEW e \in EdgeMsg, Adjacent(c, e), NEW m,
           OfMap(e, m), Shows(c, m), ClientInv(c)
    PROVE  Shows(Slide(c, e), m)
<1>. DEFINE s == Slide(c, e)
            All(cells) ==
                \A r \in Row, k \in Col : cells[r][k] # Grass => cells[r][k].map = m
            To(o, cells) == [c EXCEPT !.origin = o, !.terrain = cells]
<1>1. WINDOW_W \in Nat /\ WINDOW_H \in Nat
  BY WindowAssumption
<1>2. /\ \A k \in Col : /\ k # 0 => k - 1 \in Col
                        /\ k # WINDOW_W - 1 => k + 1 \in Col
      /\ \A r \in Row : /\ r # 0 => r - 1 \in Row
                        /\ r # WINDOW_H - 1 => r + 1 \in Row
  BY <1>1 DEF Col, Row
<1>3. \A i \in DOMAIN e.tiles : e.tiles[i].map = m
  BY DEF OfMap, EdgeMsg, ColumnEdgeMsg, RowEdgeMsg
<1>4. /\ IsColumn(e) => \A r \in Row : e.tiles[r].map = m
      /\ IsRow(e) => \A k \in Col : e.tiles[k].map = m
  BY <1>3, ColumnTiles, RowStripTiles DEF ColTiles, RowTiles
<1>5. All(c.terrain) =>
        /\ IsColumn(e) => All(ShiftRight(c.terrain, e.tiles)) /\ All(ShiftLeft(c.terrain, e.tiles))
        /\ IsRow(e) => All(ShiftDown(c.terrain, e.tiles)) /\ All(ShiftUp(c.terrain, e.tiles))
  <2>. SUFFICES ASSUME All(c.terrain)
                PROVE  /\ IsColumn(e) => /\ All(ShiftRight(c.terrain, e.tiles))
                                         /\ All(ShiftLeft(c.terrain, e.tiles))
                       /\ IsRow(e) => /\ All(ShiftDown(c.terrain, e.tiles))
                                      /\ All(ShiftUp(c.terrain, e.tiles))
    OBVIOUS
  <2>1. IsColumn(e) => All(ShiftRight(c.terrain, e.tiles))
    BY <1>2, <1>4 DEF ShiftRight
  <2>2. IsColumn(e) => All(ShiftLeft(c.terrain, e.tiles))
    BY <1>2, <1>4 DEF ShiftLeft
  <2>3. IsRow(e) => All(ShiftDown(c.terrain, e.tiles))
    BY <1>2, <1>4 DEF ShiftDown
  <2>4. IsRow(e) => All(ShiftUp(c.terrain, e.tiles))
    BY <1>2, <1>4 DEF ShiftUp
  <2>. QED  BY <2>1, <2>2, <2>3, <2>4
<1>6. \E o, cells : s = To(o, cells) /\ (All(c.terrain) => All(cells))
  <2>. HIDE DEF All
  <2>1. CASE ColumnBefore(c, e)
    <3>1. s = To(<<c.origin[1] - 1, c.origin[2]>>, ShiftRight(c.terrain, e.tiles))
      BY <2>1, OneSide DEF Slide
    <3>. QED  BY <1>5, <2>1, <3>1 DEF ColumnBefore
  <2>2. CASE ColumnAfter(c, e)
    <3>1. s = To(<<c.origin[1] + 1, c.origin[2]>>, ShiftLeft(c.terrain, e.tiles))
      BY <2>2, OneSide DEF Slide
    <3>. QED  BY <1>5, <2>2, <3>1 DEF ColumnAfter
  <2>3. CASE RowBefore(c, e)
    <3>1. s = To(<<c.origin[1], c.origin[2] - 1>>, ShiftDown(c.terrain, e.tiles))
      BY <2>3, OneSide DEF Slide
    <3>. QED  BY <1>5, <2>3, <3>1 DEF RowBefore
  <2>4. CASE RowAfter(c, e)
    <3>1. s = To(<<c.origin[1], c.origin[2] + 1>>, ShiftUp(c.terrain, e.tiles))
      BY <2>4, OneSide DEF Slide
    <3>. QED  BY <1>5, <2>4, <3>1 DEF RowAfter
  <2>. QED  BY <2>1, <2>2, <2>3, <2>4 DEF Adjacent
<1>7. PICK o, cells : s = To(o, cells) /\ (All(c.terrain) => All(cells))
  BY <1>6
<1>. HIDE DEF s
<1>8. s.terrain = cells /\ s.fill = c.fill /\ s.map_loading = c.map_loading
  BY <1>7 DEF ClientState
<1>9. Shows(s, m)
  BY <1>7, <1>8 DEF Shows
<1>. QED  BY <1>9 DEF s

LEMMA SlideFields ==
    ASSUME NEW c \in ClientState, NEW e \in EdgeMsg, Adjacent(c, e)
    PROVE  /\ Slide(c, e).current_map_id = c.current_map_id
           /\ Slide(c, e).map_loading = c.map_loading
  BY DEF Slide, Adjacent, ClientState

LEMMA EdgeKeeps ==
    ASSUME NEW c, ClientInv(c), NEW e \in EdgeMsg, EdgePlaced(e), NEW m
    PROVE  Keeps(c, ReceiveEdge(c, e), e, m)
<1>1. c \in ClientState
  BY DEF ClientInv
<1>2. ASSUME NEW d \in ClientState, d.current_map_id = c.current_map_id,
             d.map_loading = c.map_loading, OfMap(e, m) /\ Shows(c, m) => Shows(d, m)
      PROVE  \A f : Keeps(c, Answer([d EXCEPT !.resync_pending = FALSE], <<AckPacket(f)>>), e, m)
  <2>. DEFINE g == [d EXCEPT !.resync_pending = FALSE]
  <2>1. /\ g.current_map_id = d.current_map_id /\ g.map_loading = d.map_loading
        /\ g.terrain = d.terrain /\ g.fill = d.fill
    BY <1>2 DEF ClientState
  <2>. HIDE DEF g
  <2>2. Shows(d, m) => Shows(g, m)
    BY <2>1 DEF Shows
  <2>3. \A f : \A i \in 1 .. Len(<<AckPacket(f)>>) : <<AckPacket(f)>>[i].type # "map_ready"
    BY DEF AckPacket
  <2>4. \A f : Keeps(c, Answer(g, <<AckPacket(f)>>), e, m)
    BY <1>2, <2>1, <2>2, <2>3, QuietKeeps
  <2>. QED  BY <2>4 DEF g
<1>3. CASE c.fill.active
  BY <1>1, <1>3, RequestKeeps DEF ReceiveEdge
<1>4. CASE ~c.fill.active /\ e.revision = c.revision
  <2>1. \A f : Keeps(c, Answer([c EXCEPT !.resync_pending = FALSE], <<AckPacket(f)>>), e, m)
    BY <1>1, <1>2
  <2>. QED  BY <1>4, <2>1 DEF ReceiveEdge
<1>5. CASE ~c.fill.active /\ e.revision # c.revision
             /\ Expected(c, e) /\ Adjacent(c, e)
  <2>. DEFINE s == Slide(c, e)
              d == [s EXCEPT !.revision = e.revision, !.revision_trust_next = FALSE]
  <2>1. ClientInv(s)
    BY <1>5, SlideGood
  <2>2. /\ s.current_map_id = c.current_map_id /\ s.map_loading = c.map_loading
        /\ OfMap(e, m) /\ Shows(c, m) => Shows(s, m)
    BY <1>1, <1>5, SlideFields, SlideShows
  <2>. HIDE DEF s
  <2>3. s \in ClientState
    BY <2>1 DEF ClientInv
  <2>4. e.revision \in 0 .. MaxRevision
    BY SessionAssumption DEF EdgeMsg, ColumnEdgeMsg, RowEdgeMsg
  <2>5. d \in ClientState
    BY <2>3, <2>4 DEF ClientState
  <2>6. /\ d.current_map_id = s.current_map_id /\ d.map_loading = s.map_loading
        /\ d.terrain = s.terrain /\ d.fill = s.fill
    BY <2>3 DEF ClientState
  <2>7. bootstrap_apply_terrain_edge(c, e) = d
    BY DEF bootstrap_apply_terrain_edge, s
  <2>. HIDE DEF d
  <2>8. Shows(s, m) => Shows(d, m)
    BY <2>6 DEF Shows
  <2>9. \A f : Keeps(c, Answer([d EXCEPT !.resync_pending = FALSE], <<AckPacket(f)>>), e, m)
    BY <1>2, <2>2, <2>5, <2>6, <2>8
  <2>10. ReceiveEdge(c, e) = Answer([d EXCEPT !.resync_pending = FALSE], <<AckPacket(d)>>)
           \/ ReceiveEdge(c, e) = Answer([d EXCEPT !.resync_pending = FALSE],
                                     <<AckPacket([d EXCEPT !.resync_pending = FALSE])>>)
    BY <1>5, <2>7 DEF ReceiveEdge
  <2>. QED  BY <2>9, <2>10
<1>6. CASE ~c.fill.active /\ e.revision # c.revision
             /\ ~(Expected(c, e) /\ Adjacent(c, e))
  BY <1>1, <1>6, RequestKeeps DEF ReceiveEdge
<1>. QED  BY <1>3, <1>4, <1>5, <1>6

\* A row of map m is staged with rows of map m.
LEMMA ApplyRowShows ==
    ASSUME NEW f \in StagedFill, NEW w \in RowMsg, NEW m, OfMap(w, m),
           \A r \in RowsHave(f), k \in Col : f.rows[r][k].map = m
    PROVE  LET h == bootstrap_fill_apply_row(f, w)
           IN  \A r \in RowsHave(h), k \in Col : h.rows[r][k].map = m
<1>. DEFINE g == FillOfRow(f, w)
            h == [g EXCEPT !.rows[w.row] = w.tiles]
            AllRows(q) == \A r \in RowsHave(q), k \in Col : q.rows[r][k].map = m
<1>1. w.row \in Row /\ \A k \in Col : w.tiles[k].map = m
  BY DEF RowMsg, RowTiles, OfMap
<1>2. AllRows(g) /\ g.rows \in [Row -> {None} \cup RowTiles]
  <2>1. NoRows \in [Row -> {None} \cup RowTiles]
    BY DEF NoRows
  <2>2. f.rows \in [Row -> {None} \cup RowTiles]
    BY DEF StagedFill
  <2>3. CASE g = f
    BY <2>2, <2>3
  <2>4. CASE g = [active |-> TRUE, fill_id |-> w.fill_id,
                  origin |-> <<w.x, w.y - w.row>>, rows |-> NoRows]
    BY <2>1, <2>4 DEF RowsHave, NoRows
  <2>. QED  BY <2>3, <2>4 DEF FillOfRow
<1>3. bootstrap_fill_apply_row(f, w) \in {g, h}
  BY DEF bootstrap_fill_apply_row
<1>4. h.rows = [g.rows EXCEPT ![w.row] = w.tiles]
  <2>1. g \in StagedFill \/ g = [active |-> TRUE, fill_id |-> w.fill_id,
                                 origin |-> <<w.x, w.y - w.row>>, rows |-> NoRows]
    BY DEF FillOfRow
  <2>. HIDE DEF g
  <2>. QED  BY <2>1 DEF StagedFill
<1>. HIDE DEF g
<1>5. \A r \in Row : h.rows[r] = IF r = w.row THEN w.tiles ELSE g.rows[r]
  BY <1>1, <1>2, <1>4
<1>. HIDE DEF h
<1>6. AllRows(h)
  BY <1>1, <1>2, <1>5 DEF RowsHave
<1>. QED  BY <1>2, <1>3, <1>6

\* A row ends a map load only with the whole window.
LEMMA RowKeeps ==
    ASSUME NEW c, ClientInv(c), NEW w \in RowMsg, PacketPlaced(w), NEW m
    PROVE  Keeps(c, ReceiveRow(c, w), w, m)
<1>. DEFINE f == bootstrap_fill_apply_row(c.fill, w)
            staged == [c EXCEPT !.fill = f]
            a == bootstrap_fill_activate(c, f)
            d == [a EXCEPT !.resync_pending = FALSE, !.commit_due = TRUE]
            e == [d EXCEPT !.map_loading = FALSE]
            OfM(g) == \A r \in RowsHave(g), k \in Col : g.rows[r][k].map = m
<1>1. /\ c \in ClientState /\ c.fill \in StagedFill /\ StagedPlaced(c.fill)
  BY DEF ClientInv, ClientState
<1>2. f \in StagedFill
  <2>1. RowPlaced(w.tiles, w.x, w.y) /\ w.y - w.row \in 0 .. MaxY
    BY DEF PacketPlaced, RowMsg
  <2>. QED  BY <1>1, <2>1, ApplyRowGood
<1>3. OfMap(w, m) /\ Shows(c, m) => OfM(f)
  BY <1>1, ApplyRowShows DEF Shows
<1>4. ReceiveRow(c, w) = IF RowsHave(f) # Row THEN Answer(staged, << >>)
                         ELSE IF c.map_loading THEN Answer(e, <<ReadyPacket(e)>>)
                         ELSE Answer(d, << >>)
  BY DEF ReceiveRow, Quiet, send_map_ready
<1>5. a = [c EXCEPT !.terrain = f.rows, !.origin = f.origin, !.revision_trust_next = TRUE,
                    !.commit_pending = TRUE, !.commit_fill_id = f.fill_id, !.fill = NoFill]
  BY DEF bootstrap_fill_activate
<1>. HIDE DEF f
<1>6. /\ staged.current_map_id = c.current_map_id /\ staged.map_loading = c.map_loading
      /\ staged.terrain = c.terrain /\ staged.fill = f
  BY <1>1 DEF ClientState
<1>7. /\ d.current_map_id = c.current_map_id /\ d.map_loading = c.map_loading
      /\ d.terrain = f.rows /\ d.fill = NoFill
      /\ e.current_map_id = c.current_map_id /\ e.map_loading = FALSE
      /\ e.terrain = f.rows /\ e.fill = NoFill
  BY <1>1, <1>5 DEF ClientState
<1>8. RowsHave(NoFill) = {}
  BY DEF NoFill, NoRows, RowsHave
<1>. HIDE DEF staged, d, e, a
<1>9. OfM(f) /\ Shows(c, m) => Shows(staged, m)
  BY <1>6 DEF Shows
<1>10. RowsHave(f) = Row /\ OfM(f) => Shows(d, m) /\ Shows(e, m)
  BY <1>7, <1>8 DEF Shows
<1>11. CASE RowsHave(f) # Row
  <2>1. Keeps(c, Answer(staged, << >>), w, m)
    BY <1>3, <1>6, <1>9, QuietKeeps
  <2>. QED  BY <1>4, <1>11, <2>1
<1>12. CASE RowsHave(f) = Row /\ ~c.map_loading
  <2>1. Keeps(c, Answer(d, << >>), w, m)
    BY <1>3, <1>7, <1>10, <1>12, QuietKeeps
  <2>. QED  BY <1>4, <1>12, <2>1
<1>13. CASE RowsHave(f) = Row /\ c.map_loading
  <2>1. Keeps(c, Answer(e, <<ReadyPacket(e)>>), w, m)
    BY <1>3, <1>7, <1>10, <1>13 DEF Keeps, Answer, ReadyPacket
  <2>. QED  BY <1>4, <1>13, <2>1
<1>. QED  BY <1>11, <1>12, <1>13

LEMMA CommitAckKeeps ==
    ASSUME NEW c \in ClientState, NEW a, NEW m
    PROVE  Keeps(c, ReceiveCommitAck(c, a), a, m)
<1>. DEFINE d == [c EXCEPT !.commit_pending = FALSE]
<1>1. /\ d.current_map_id = c.current_map_id /\ d.map_loading = c.map_loading
      /\ d.terrain = c.terrain /\ d.fill = c.fill
  BY DEF ClientState
<1>2. ReceiveCommitAck(c, a) = Quiet(c) \/ ReceiveCommitAck(c, a) = Answer(d, << >>)
  BY DEF ReceiveCommitAck, Quiet
<1>. HIDE DEF d
<1>3. Shows(c, m) => Shows(d, m)
  BY <1>1 DEF Shows
<1>4. Keeps(c, Answer(d, << >>), a, m)
  BY <1>1, <1>3, QuietKeeps
<1>. QED  BY <1>2, <1>4, RequestKeeps

LEMMA WorldKeeps ==
    ASSUME NEW c, ClientInv(c), NEW w \in WorldMsg, NEW m
    PROVE  Keeps(c, apply_world_state(c, w), w, m)
<1>1. PICK cells \in Cells :
        /\ apply_world_state(c, w) = Answer([c EXCEPT !.terrain = cells], << >>)
        /\ \A r \in Row, k \in Col : cells[r][k] \in {c.terrain[r][k], w.tile}
  <2>1. PICK cells \in Cells :
          /\ apply_world_state(c, w) = Answer([c EXCEPT !.terrain = cells], << >>)
          /\ \A r \in Row, k \in Col :
               \/ cells[r][k] = c.terrain[r][k]
               \/ /\ cells[r][k] = w.tile
                  /\ c.origin[1] + k = w.x /\ c.origin[2] + r = w.y
    BY WorldWritten
  <2>. QED  BY <2>1
<1>. DEFINE d == [c EXCEPT !.terrain = cells]
<1>2. /\ d.current_map_id = c.current_map_id /\ d.map_loading = c.map_loading
      /\ d.terrain = cells /\ d.fill = c.fill
  BY DEF ClientInv, ClientState
<1>. HIDE DEF d
<1>3. w.type = "world"
  BY DEF WorldMsg
<1>4. OfMap(w, m) /\ Shows(c, m) => Shows(d, m)
  BY <1>1, <1>2, <1>3 DEF Shows, OfMap
<1>5. Keeps(c, Answer(d, << >>), w, m)
  BY <1>2, <1>4, QuietKeeps
<1>. QED  BY <1>1, <1>5 DEF d

\* Every packet but an announcement leaves the client on its map.
LEMMA PumpKeeps ==
    ASSUME NEW c, ClientInv(c), NEW pkt \in PlacedMsg, pkt.type # "map_change", NEW m
    PROVE  Keeps(c, realtime_pump(c, pkt), pkt, m)
<1>1. pkt \in ServerMsg /\ PacketPlaced(pkt)
  BY DEF PlacedMsg
<1>2. CASE pkt \in EdgeMsg
  <2>1. pkt.type = "edge"
    BY <1>2 DEF EdgeMsg, ColumnEdgeMsg, RowEdgeMsg
  <2>2. EdgePlaced(pkt)
    BY <1>1, <2>1 DEF PacketPlaced
  <2>. QED  BY <1>2, <2>1, <2>2, EdgeKeeps DEF realtime_pump
<1>3. CASE pkt \in RowMsg
  <2>1. pkt.type = "row"
    BY <1>3 DEF RowMsg
  <2>. QED  BY <1>1, <1>3, <2>1, RowKeeps DEF realtime_pump
<1>4. CASE pkt \in CommitAckMsg
  <2>1. pkt.type = "commit_ack"
    BY <1>4 DEF CommitAckMsg
  <2>. QED  BY <2>1, CommitAckKeeps DEF realtime_pump, ClientInv
<1>5. CASE pkt \in MapChangeMsg
  BY <1>5 DEF MapChangeMsg
<1>6. CASE pkt \in WorldMsg
  <2>1. pkt.type = "world"
    BY <1>6 DEF WorldMsg
  <2>. QED  BY <1>6, <2>1, WorldKeeps DEF realtime_pump
<1>. QED  BY <1>1, <1>2, <1>3, <1>4, <1>5, <1>6 DEF ServerMsg

\* An announcement is answered at once, or the client waits for the map.
TakesMap(c, a, pkt) ==
    \/ /\ pkt.map = c.current_map_id /\ a.client = c
       /\ \A i \in 1 .. Len(a.out) : a.out[i].map = c.current_map_id /\ ~c.map_loading
    \/ /\ pkt.map # c.current_map_id /\ a.out = << >>
       /\ a.client.current_map_id = pkt.map /\ a.client.map_loading
       /\ \A m : Shows(a.client, m)

LEMMA PumpMapChange ==
    ASSUME NEW c, ClientInv(c), NEW pkt, pkt.type = "map_change"
    PROVE  TakesMap(c, realtime_pump(c, pkt), pkt)
<1>. DEFINE d == [c EXCEPT !.current_map_id = pkt.map,
                           !.fill = NoFill,
                           !.commit_pending = FALSE,
                           !.map_loading = TRUE,
                           !.resync_pending = TRUE]
            a == realtime_pump(c, pkt)
<1>1. d.current_map_id = pkt.map /\ d.map_loading /\ d.fill = NoFill
  BY DEF ClientInv, ClientState
<1>2. RowsHave(NoFill) = {}
  BY DEF NoFill, NoRows, RowsHave
<1>3. a = IF pkt.map = c.current_map_id
          THEN IF c.map_loading THEN Answer(c, << >>) ELSE Answer(c, <<ReadyPacket(c)>>)
          ELSE Answer(d, << >>)
  BY DEF realtime_pump, ReceiveMapChange, Quiet, send_map_ready
<1>. HIDE DEF d, a
<1>4. \A m : Shows(d, m)
  BY <1>1, <1>2 DEF Shows
<1>5. CASE pkt.map = c.current_map_id /\ c.map_loading
  <2>1. a = Answer(c, << >>)
    BY <1>3, <1>5
  <2>. QED  BY <1>5, <2>1 DEF Answer, TakesMap, a
<1>6. CASE pkt.map = c.current_map_id /\ ~c.map_loading
  <2>1. a = Answer(c, <<ReadyPacket(c)>>)
    BY <1>3, <1>6
  <2>2. TakesMap(c, a, pkt)
    BY <1>6, <2>1 DEF Answer, ReadyPacket, TakesMap
  <2>. QED  BY <2>2 DEF a
<1>7. CASE pkt.map # c.current_map_id
  <2>1. a = Answer(d, << >>)
    BY <1>3, <1>7
  <2>2. TakesMap(c, a, pkt)
    BY <1>1, <1>4, <1>7, <2>1 DEF Answer, TakesMap
  <2>. QED  BY <2>2 DEF a
<1>. QED  BY <1>5, <1>6, <1>7

-----------------------------------------------------------------------------
(* The map in the whole system.                                             *)

\* In the first connection: a client on the player's map shows it and hears of
\* nothing else, one that is not will be told before it is sent anything of it,
\* and play is paused until it has reported it.
Linked(p, c, down, up) ==
    /\ c.current_map_id = p.map => AllOf(down, p.map) /\ Shows(c, p.map)
    /\ Follows(down, p.map) /\ Reported(up, c, p.map)
    /\ ~p.transition_loading =>
         /\ c.current_map_id = p.map /\ p.pending_map_change = None
         /\ AllReady(up, p.map)
    /\ p.pending_map_change # None =>
         c.current_map_id # p.map /\ Unannounced(down, p.map)

\* Before it, play runs, and a client that is booted shows the player's map.
Unlinked ==
    /\ session = None /\ ~player.transition_loading /\ player.pending_map_change = None
    /\ conn = "booted" =>
         /\ client.current_map_id = Overworld /\ ~client.map_loading
         /\ Shows(client, player.map)

SessionMapInv ==
    /\ player.pending_map_change \in {None, player.map}
    /\ conn = "up" \/ session # None => SessionOnMap(session, player)

MapInv ==
    /\ SessionMapInv
    /\ FirstConnection =>
         IF conn = "up" THEN Linked(player, client, s2c, c2s) ELSE Unlinked

\* Nothing makes a later connection the first.
LEMMA FirstBefore ==
    ASSUME (\E events : Spend(events)) \/ UNCHANGED counters, FirstConnection'
    PROVE  FirstConnection
  BY DEF Spend, counters, FirstConnection

\* What the game does to the player before the session transmits: he stays on his
\* map, or play ran and he goes to another.
LEMMA GameStepMap ==
    ASSUME NEW p \in Player, NEW step \in GameSteps, NEW q \in GameStep(step, p)
    PROVE  \/ /\ q.map = p.map /\ q.pending_map_change = p.pending_map_change
              /\ q.transition_loading = p.transition_loading
           \/ /\ q.map # p.map /\ q.pending_map_change = q.map /\ q.map \in Maps
              /\ ~p.transition_loading /\ q.transition_loading
<1>1. CASE step = "stay"
  BY <1>1 DEF GameStep
<1>2. CASE step = "move"
  <2>1. PICK o \in Origin : q = [p EXCEPT !.target = o]
    BY <1>2 DEF GameStep, Moved
  <2>. QED  BY <2>1 DEF Player
<1>3. CASE step = "transfer"
  <2>1. ~p.transition_loading
    BY <1>3 DEF GameStep, _apply_transition_if_present
  <2>2. PICK m \in Maps \ {p.map} :
          q = [p EXCEPT !.map = m, !.target = Spawn[m], !.pending_map_change = m,
                        !.transition_loading = TRUE]
    BY <1>3 DEF GameStep, _apply_transition_if_present
  <2>. QED  BY <2>1, <2>2 DEF Player
<1>4. CASE step = "retell"
  <2>1. q = [p EXCEPT !.ver = p.ver + 1, !.pending_terrain_resync = TRUE]
    BY <1>4 DEF GameStep, complete_bridge_repair
  <2>. QED  BY <2>1 DEF Player
<1>. QED  BY <1>1, <1>2, <1>3, <1>4 DEF GameSteps

\* Of another map than all that is under way, nothing is under way.
LEMMA OtherMap ==
    ASSUME NEW q, NEW m, NEW n, m # n
    PROVE  /\ AllOf(q, m) => Unannounced(q, n)
           /\ Unannounced(q, n) => Follows(q, n)
           /\ \A c : AllReady(q, m) => Reported(q, c, n)
  BY DEF AllOf, OfMap, Unannounced, Follows, AllReady, ReadyFor, Reported

\* A player who goes to another map while his client is on this one.
LEMMA TransferLinked ==
    ASSUME NEW p, NEW q, NEW c, NEW down, NEW up, Linked(p, c, down, up),
           ~p.transition_loading, q.map # p.map, q.transition_loading
    PROVE  Linked(q, c, down, up) /\ Unannounced(down, q.map)
<1>1. /\ c.current_map_id = p.map /\ AllReady(up, p.map) /\ AllOf(down, p.map)
  BY DEF Linked
<1>2. Unannounced(down, q.map) /\ Follows(down, q.map) /\ Reported(up, c, q.map)
  BY <1>1, OtherMap
<1>. QED  BY <1>1, <1>2 DEF Linked

\* A player who differs in what the map has nothing to do with.
LEMMA SameLinked ==
    ASSUME NEW p, NEW q, NEW c, NEW down, NEW up, Linked(p, c, down, up), q.map = p.map,
           q.pending_map_change = p.pending_map_change,
           q.transition_loading = p.transition_loading
    PROVE  Linked(q, c, down, up)
  BY DEF Linked

\* What a tick sends.
LEMMA TickLinked ==
    ASSUME NEW p, NEW q, NEW c, NEW down \in Seq(PlacedMsg), NEW out \in Seq(PlacedMsg), NEW up,
           Linked(p, c, down, up), AllOf(out, p.map), q.map = p.map,
           q.pending_map_change = None, q.transition_loading = p.transition_loading
    PROVE  Linked(q, c, down \o out, up)
<1>1. /\ Follows(down \o out, q.map)
      /\ c.current_map_id = q.map => AllOf(down \o out, q.map)
  BY FollowsConcat, AllOfConcat DEF Linked
<1>. QED  BY <1>1 DEF Linked

LEMMA SessionOther ==
    ASSUME NEW s, NEW p, NEW q, SessionOnMap(s, p), q.map = p.map,
           q.pending_map_change = p.pending_map_change
    PROVE  SessionOnMap(s, q)
  BY DEF SessionOnMap

\* Whatever the game does, the session may announce the player's map, or is on it.
LEMMA StepOnMap ==
    ASSUME NEW p \in Player, p.pending_map_change \in {None, p.map}, NEW s, SessionOnMap(s, p),
           NEW step \in GameSteps, NEW q \in GameStep(step, p)
    PROVE  /\ MayAnnounce(s, q) /\ q.pending_map_change \in {None, q.map}
           /\ ~s.latest => SessionOnMap(s, q)
<1>1. \/ /\ q.map = p.map /\ q.pending_map_change = p.pending_map_change
         /\ q.transition_loading = p.transition_loading
      \/ /\ q.map # p.map /\ q.pending_map_change = q.map /\ q.map \in Maps
         /\ ~p.transition_loading /\ q.transition_loading
  BY GameStepMap
<1>2. q.pending_map_change \in {None, q.map}
  BY <1>1
<1>3. MayAnnounce(s, q)
  <2>1. CASE q.pending_map_change # None
    BY <1>2, <2>1 DEF MayAnnounce
  <2>2. CASE q.pending_map_change = None
    <3>1. q.map = p.map /\ q.pending_map_change = p.pending_map_change
      BY <1>1, <2>2, SessionAssumption
    <3>2. SessionOnMap(s, q)
      BY <3>1, SessionOther
    <3>. QED  BY <2>2, <3>2 DEF MayAnnounce
  <2>. QED  BY <2>1, <2>2
<1>4. ASSUME ~s.latest
      PROVE  SessionOnMap(s, q)
  <2>1. HasNothing(s)
    BY <1>4 DEF SessionOnMap
  <2>2. StepsOf(s, q.map) /\ SlotOf(s, q.map)
    BY <2>1 DEF StepsOf, SlotOf, HasNothing
  <2>3. q.pending_map_change = None => s.last_map_change \in {None, q.map}
    BY <1>3 DEF MayAnnounce, SessionOnMap
  <2>. QED  BY <1>2, <2>1, <2>2, <2>3 DEF SessionOnMap
<1>. QED  BY <1>2, <1>3, <1>4

\* A tick.
LEMMA TickMap ==
    ASSUME SystemInv, SystemInv', MapInv, NEW step \in GameSteps, NEW timers \in Timer,
           Tick(step, timers)
    PROVE  MapInv'
<1>1. /\ player \in Player /\ session \in Session /\ SessionInv(session) /\ session # None
      /\ UNCHANGED <<client, conn, c2s>> /\ SessionOnMap(session, player)
      /\ s2c \in Seq(PlacedMsg)
  BY DEF SystemInv, Tick, MapInv, SessionMapInv, SessionInv
<1>2. FirstConnection' => FirstConnection
  BY FirstBefore DEF Tick
<1>3. FirstConnection => conn = "up" /\ Linked(player, client, s2c, c2s)
  BY <1>1 DEF MapInv, Unlinked
<1>4. PICK p \in GameStep(step, player) :
        IF session.latest
        THEN \E t \in _send_tick_packets(session, p, timers) :
                /\ Queued + Len(t.out) <= MaxLink
                /\ Telling(t.session)
                /\ session' = t.session
                /\ player' = t.player
                /\ Send(t.out)
        ELSE player' = p /\ UNCHANGED <<session, s2c>>
  BY DEF Tick
<1>5. p \in Player
  BY <1>1, GameStepGood
<1>6. \/ /\ p.map = player.map /\ p.pending_map_change = player.pending_map_change
         /\ p.transition_loading = player.transition_loading
      \/ /\ p.map # player.map /\ p.pending_map_change = p.map /\ p.map \in Maps
         /\ ~player.transition_loading /\ p.transition_loading
  BY <1>1, GameStepMap
<1>8. FirstConnection => Linked(p, client, s2c, c2s)
  <2>1. CASE p.map = player.map
    BY <1>3, <1>6, <2>1, SameLinked
  <2>2. CASE p.map # player.map
    BY <1>3, <1>6, <2>2, TransferLinked
  <2>. QED  BY <2>1, <2>2
<1>9. /\ MayAnnounce(session, p) /\ p.pending_map_change \in {None, p.map}
      /\ ~session.latest => SessionOnMap(session, p)
  BY <1>1, StepOnMap DEF MapInv, SessionMapInv
<1>10. CASE session.latest
  <2>1. PICK t \in _send_tick_packets(session, p, timers) :
          session' = t.session /\ player' = t.player /\ Send(t.out)
    BY <1>4, <1>10
  <2>2. /\ SessionOnMap(t.session, t.player) /\ AllOf(t.out, p.map)
        /\ t.player.map = p.map /\ t.player.pending_map_change = None
        /\ t.player.transition_loading = p.transition_loading
    BY <1>1, <1>5, <1>9, <1>10, TickOnMap
  <2>3. t.out \in Seq(PlacedMsg)
    BY <1>1, <1>5, TickGood DEF Timer
  <2>4. FirstConnection => Linked(t.player, client, s2c \o t.out, c2s)
    BY <1>1, <1>8, <2>2, <2>3, TickLinked
  <2>5. conn = "up" => s2c' = s2c \o t.out
    BY <2>1 DEF Send
  <2>6. SessionMapInv'
    BY <2>1, <2>2 DEF SessionMapInv
  <2>7. FirstConnection' => conn' = "up" /\ Linked(player', client', s2c', c2s')
    BY <1>1, <1>2, <1>3, <2>1, <2>4, <2>5
  <2>. QED  BY <2>6, <2>7 DEF MapInv
<1>11. CASE ~session.latest
  <2>1. player' = p /\ session' = session /\ s2c' = s2c
    BY <1>4, <1>11
  <2>2. SessionOnMap(session, p)
    BY <1>9, <1>11
  <2>3. SessionMapInv'
    BY <1>9, <2>1, <2>2 DEF SessionMapInv
  <2>4. FirstConnection' => conn' = "up" /\ Linked(player', client', s2c', c2s')
    BY <1>1, <1>2, <1>3, <1>8, <2>1
  <2>. QED  BY <2>3, <2>4 DEF MapInv
<1>. QED  BY <1>10, <1>11

\* A WORLD_STATE that leaves is of the player's map, which has been announced.
LEMMA SendWorldMap ==
    ASSUME SystemInv, MapInv, SendWorld
    PROVE  MapInv'
<1>1. /\ conn = "up" /\ session.world # None /\ SessionInv(session)
      /\ UNCHANGED <<player, client, conn, c2s, counters>>
      /\ s2c \in Seq(PlacedMsg)
  BY DEF SystemInv, SendWorld
<1>2. SessionOnMap(session, player)
  BY <1>1 DEF MapInv, SessionMapInv
<1>3. /\ player.pending_map_change = None
      /\ OfMap(session.world, player.map)
  BY <1>1, <1>2 DEF SessionOnMap, HasNothing, SlotOf
<1>. DEFINE u == [session EXCEPT !.world = None]
            out == <<session.world>>
<1>4. session' = u /\ s2c' = s2c \o out
  BY <1>1 DEF SendWorld, next_frame, Reply, Send
<1>5. /\ u.inflight_steps = session.inflight_steps /\ u.latest = session.latest
      /\ u.last_map_change = session.last_map_change /\ u.world = None
  BY <1>1 DEF SessionInv, Session
<1>6. out \in Seq(PlacedMsg)
  BY <1>1, FrameGood DEF ReplyInv, next_frame, Reply
<1>7. AllOf(out, player.map)
  BY <1>3 DEF AllOf
<1>. HIDE DEF u, out
<1>8. SessionOnMap(u, player)
  BY <1>2, <1>5 DEF SessionOnMap, StepsOf, SlotOf, HasNothing
<1>9. ASSUME FirstConnection'
      PROVE  Linked(player', client', s2c', c2s')
  <2>1. Linked(player, client, s2c, c2s)
    BY <1>1, <1>9, FirstBefore DEF MapInv
  <2>. QED  BY <1>1, <1>3, <1>4, <1>6, <1>7, <2>1, TickLinked
<1>. QED  BY <1>1, <1>4, <1>8, <1>9 DEF MapInv, SessionMapInv

\* A respawn between HELLO and AUTH.
LEMMA IdleTickMap ==
    ASSUME SystemInv, MapInv, IdleTick
    PROVE  MapInv'
<1>1. /\ player \in Player /\ session = None /\ conn = "booted"
      /\ UNCHANGED <<session, client, conn, s2c, c2s>>
  BY DEF SystemInv, IdleTick
<1>2. FirstConnection' => FirstConnection
  BY FirstBefore DEF IdleTick
<1>3. /\ player'.map = player.map /\ player'.pending_map_change = player.pending_map_change
      /\ player'.transition_loading = player.transition_loading
  <2>1. PICK o \in Origin : player' = [player EXCEPT !.target = o]
    BY DEF IdleTick, GameStep, Moved
  <2>. QED  BY <1>1, <2>1 DEF Player
<1>. QED  BY <1>1, <1>2, <1>3 DEF MapInv, SessionMapInv, Unlinked

\* A packet of the client is gone, and its handler has replied.
LEMMA ServeMap ==
    ASSUME SystemInv, MapInv, NEW type, Arrives(type), NEW reply, Serve(reply),
           reply.out \in Seq(PlacedMsg), ReplyOnMap(reply, player),
           player' = player, (\E events : Spend(events)) \/ UNCHANGED counters
    PROVE  MapInv'
<1>1. conn = "up" /\ c2s # << >> /\ c2s' = Tail(c2s) /\ UNCHANGED <<client, conn>>
  BY ArrivesGood DEF Arrives
<1>2. session' = reply.session /\ s2c' = s2c \o reply.out
  BY <1>1 DEF Serve, Send
<1>3. s2c \in Seq(PlacedMsg) /\ c2s \in Seq(ClientMsg)
  BY DEF SystemInv
<1>4. SessionMapInv'
  BY <1>2 DEF SessionMapInv, ReplyOnMap, MapInv
<1>5. ASSUME FirstConnection'
      PROVE  Linked(player', client', s2c', c2s')
  <2>. DEFINE m == player.map
  <2>1. Linked(player, client, s2c, c2s)
    BY <1>1, <1>5, FirstBefore DEF MapInv
  <2>2. /\ Reported(c2s, client, m) => Reported(Tail(c2s), client, m)
        /\ AllReady(c2s, m) => AllReady(Tail(c2s), m)
    BY <1>1, <1>3, TailOnMap
  <2>3. AllOf(reply.out, m)
    BY DEF ReplyOnMap
  <2>4. /\ AllOf(s2c, m) => AllOf(s2c \o reply.out, m)
        /\ Follows(s2c, m) => Follows(s2c \o reply.out, m)
    BY <1>3, <2>3, AllOfConcat, FollowsConcat
  <2>5. player.pending_map_change # None => Unannounced(s2c \o reply.out, m)
    BY <1>3, <2>1, NoMap, UnannouncedConcat DEF ReplyOnMap, Linked
  <2>6. Linked(player, client, s2c \o reply.out, Tail(c2s))
    BY <2>1, <2>2, <2>4, <2>5 DEF Linked
  <2>. QED  BY <1>1, <1>2, <2>6
<1>. QED  BY <1>1, <1>4, <1>5 DEF MapInv

LEMMA HandlerMap ==
    ASSUME SystemInv, MapInv, HandleAck \/ HandleCommit \/ HandleResync
    PROVE  MapInv'
<1>1. player \in Player
  BY DEF SystemInv
<1>2. CASE HandleAck
  <2>1. /\ conn = "up" /\ SessionInv(session) /\ Head(c2s) \in ClientMsg
        /\ Head(c2s).type = "ack" /\ UNCHANGED player
    BY <1>2, ArrivesGood DEF HandleAck
  <2>2. Head(c2s) \in AckMsg
    BY <2>1 DEF ClientMsg, AckMsg, ReadyMsg, CommitMsg, ResyncMsg
  <2>3. PICK settled \in BOOLEAN :
          /\ Spend(IF settled THEN Expiry ELSE {})
          /\ Serve(_handle_cache_step_ack(session, player, Head(c2s), settled))
    BY <1>2 DEF HandleAck
  <2>. DEFINE reply == _handle_cache_step_ack(session, player, Head(c2s), settled)
  <2>4. ReplyInv(reply)
    BY <1>1, <2>1, <2>2, AckGood DEF AckMsg
  <2>5. ReplyOnMap(reply, player)
    BY <1>1, <2>1, <2>2, AckOnMap DEF AckMsg, MapInv, SessionMapInv, SessionInv
  <2>6. Arrives("ack")
    BY <1>2 DEF HandleAck
  <2>. HIDE DEF reply
  <2>. QED  BY <2>1, <2>3, <2>4, <2>5, <2>6, ServeMap DEF ReplyInv, reply
<1>3. CASE HandleCommit
  <2>1. /\ conn = "up" /\ SessionInv(session) /\ Head(c2s) \in ClientMsg
        /\ Head(c2s).type = "commit" /\ UNCHANGED <<player, counters>>
    BY <1>3, ArrivesGood DEF HandleCommit
  <2>2. Head(c2s) \in CommitMsg
    BY <2>1 DEF ClientMsg, AckMsg, ReadyMsg, CommitMsg, ResyncMsg
  <2>. DEFINE reply == _handle_window_commit(session, player, Head(c2s))
  <2>3. ReplyInv(reply)
    BY <1>1, <2>1, <2>2, CommitGood DEF CommitMsg
  <2>4. ReplyOnMap(reply, player)
    BY <2>1, CommitOnMap DEF MapInv, SessionMapInv, SessionInv
  <2>5. Arrives("commit") /\ Serve(reply)
    BY <1>3 DEF HandleCommit
  <2>. HIDE DEF reply
  <2>. QED  BY <2>1, <2>3, <2>4, <2>5, ServeMap DEF ReplyInv
<1>4. CASE HandleResync
  <2>1. /\ conn = "up" /\ session \in Session /\ UNCHANGED <<player, s2c, counters>>
        /\ Arrives("resync") /\ session' = _handle_resync_request(session, player, Head(c2s))
    BY <1>4, ArrivesGood DEF HandleResync, SessionInv
  <2>2. SessionOnMap(session', player)
    BY <2>1, ResyncOnMap DEF MapInv, SessionMapInv
  <2>. DEFINE reply == Silent(session')
  <2>3. reply.session = session' /\ reply.out = << >>
    BY DEF Silent, Reply
  <2>4. ReplyOnMap(reply, player)
    BY <2>2, SilentOnMap
  <2>. HIDE DEF reply
  <2>5. Serve(reply)
    <3>1. s2c \o << >> = s2c
      BY DEF SystemInv
    <3>. QED  BY <2>1, <2>3, <3>1 DEF Serve, Send
  <2>6. reply.out \in Seq(PlacedMsg)
    BY <2>3
  <2>. QED  BY <2>1, <2>4, <2>5, <2>6, ServeMap
<1>. QED  BY <1>2, <1>3, <1>4

\* A MAP_READY ends the pause only where the client shows the map.
LEMMA ReadyLinked ==
    ASSUME NEW p, NEW c, NEW down, NEW up \in Seq(ClientMsg), up # << >>,
           Linked(p, c, down, up), Head(up).type = "map_ready", Head(up).map = p.map
    PROVE  /\ c.current_map_id = p.map /\ ~c.map_loading /\ Shows(c, p.map)
           /\ p.pending_map_change = None
           /\ AllReady(Tail(up), p.map) /\ Reported(Tail(up), c, p.map)
<1>1. c.current_map_id = p.map /\ ~c.map_loading /\ AllReady(up, p.map)
  BY HeadReported DEF Linked
<1>2. AllReady(Tail(up), p.map) /\ Reported(Tail(up), c, p.map)
  BY <1>1, TailOnMap DEF Linked
<1>. QED  BY <1>1, <1>2 DEF Linked

LEMMA HandleMapReadyMap ==
    ASSUME SystemInv, MapInv, HandleMapReady
    PROVE  MapInv'
<1>. DEFINE q == [player EXCEPT !.transition_loading = FALSE]
<1>1. /\ conn = "up" /\ c2s # << >> /\ c2s' = Tail(c2s) /\ player \in Player
      /\ UNCHANGED <<session, client, conn, s2c, counters>>
      /\ Head(c2s).type = "map_ready" /\ c2s \in Seq(ClientMsg)
  BY ArrivesGood DEF HandleMapReady, Arrives, SystemInv
<1>2. player' = IF Head(c2s).map = player.map THEN q ELSE player
  BY DEF HandleMapReady
<1>3. /\ q.map = player.map /\ q.pending_map_change = player.pending_map_change
      /\ ~q.transition_loading
  BY <1>1 DEF Player
<1>. HIDE DEF q
<1>4. SessionMapInv'
  <2>1. SessionOnMap(session, player) /\ SessionOnMap(session, q)
    BY <1>1, <1>3, SessionOther DEF MapInv, SessionMapInv
  <2>. QED  BY <1>1, <1>2, <1>3, <2>1 DEF MapInv, SessionMapInv
<1>5. ASSUME FirstConnection
      PROVE  Linked(player', client, s2c, Tail(c2s))
  <2>1. Linked(player, client, s2c, c2s)
    BY <1>1, <1>5 DEF MapInv
  <2>2. CASE Head(c2s).map = player.map
    <3>1. /\ client.current_map_id = player.map /\ ~client.map_loading
          /\ Shows(client, player.map) /\ player.pending_map_change = None
          /\ AllReady(Tail(c2s), player.map) /\ Reported(Tail(c2s), client, player.map)
      BY <1>1, <2>1, <2>2, ReadyLinked
    <3>2. Linked(q, client, s2c, Tail(c2s))
      BY <1>3, <2>1, <3>1 DEF Linked
    <3>. QED  BY <1>2, <2>2, <3>2
  <2>3. CASE Head(c2s).map # player.map
    <3>1. /\ Reported(c2s, client, player.map) => Reported(Tail(c2s), client, player.map)
          /\ AllReady(c2s, player.map) => AllReady(Tail(c2s), player.map)
      BY <1>1, TailOnMap
    <3>2. Linked(player, client, s2c, Tail(c2s))
      BY <2>1, <3>1 DEF Linked
    <3>. QED  BY <1>2, <2>3, <3>2
  <2>. QED  BY <2>2, <2>3
<1>6. FirstConnection' => FirstConnection
  BY <1>1, FirstBefore
<1>. QED  BY <1>1, <1>4, <1>5, <1>6 DEF MapInv

\* The first PLAYER_STATE.
LEMMA HandlePlayerStateMap ==
    ASSUME SystemInv, MapInv, HandlePlayerState
    PROVE  MapInv'
<1>. DEFINE t == [session EXCEPT !.latest = TRUE]
<1>1. /\ conn = "up" /\ session \in Session /\ session' = t
      /\ UNCHANGED <<player, client, conn, s2c, c2s, counters>>
  BY DEF SystemInv, HandlePlayerState, SessionInv
<1>2. /\ t.inflight_steps = session.inflight_steps /\ t.latest
      /\ t.last_map_change = session.last_map_change /\ t.world = session.world
  BY <1>1 DEF Session
<1>. HIDE DEF t
<1>3. SessionOnMap(t, player)
  BY <1>1, <1>2 DEF MapInv, SessionMapInv, SessionOnMap, StepsOf, SlotOf, HasNothing
<1>4. FirstConnection' => FirstConnection
  BY <1>1, FirstBefore
<1>. QED  BY <1>1, <1>3, <1>4 DEF MapInv, SessionMapInv

\* A client that keeps its map, whether it has taken a packet or not.
LEMMA KeepsLinked ==
    ASSUME NEW p, NEW c, NEW down, NEW rest, NEW up \in Seq(ClientMsg), Linked(p, c, down, up),
           NEW a, a.out \in Seq(ClientMsg), NEW pkt, Keeps(c, a, pkt, p.map),
           AllOf(down, p.map) => OfMap(pkt, p.map) /\ AllOf(rest, p.map),
           Follows(rest, p.map), Unannounced(down, p.map) => Unannounced(rest, p.map)
    PROVE  Linked(p, a.client, rest, up \o a.out)
<1>1. /\ Reported(up, c, p.map)
      /\ a.client.current_map_id = c.current_map_id
      /\ ~c.map_loading => ~a.client.map_loading
      /\ \A i \in 1 .. Len(a.out) : a.out[i].type = "map_ready" =>
           a.out[i].map = c.current_map_id /\ ~a.client.map_loading
  BY DEF Linked, Keeps
<1>2. /\ Reported(up \o a.out, a.client, p.map)
      /\ AllReady(up, p.map) /\ c.current_map_id = p.map => AllReady(up \o a.out, p.map)
  BY <1>1, AnswerReported
<1>. QED  BY <1>1, <1>2 DEF Linked, Keeps

LEMMA ReceiveLinked ==
    ASSUME NEW p, NEW c, ClientInv(c), NEW down \in Seq(PlacedMsg), down # << >>,
           NEW up \in Seq(ClientMsg), Linked(p, c, down, up)
    PROVE  LET a == realtime_pump(c, Head(down))
           IN  Linked(p, a.client, Tail(down), up \o a.out)
<1>. DEFINE a == realtime_pump(c, Head(down))
            m == p.map
<1>1. Head(down) \in PlacedMsg
  OBVIOUS
<1>2. a.out \in Seq(ClientMsg)
  BY <1>1, PumpGood DEF AnswerInv
<1>3. /\ AllOf(down, m) => OfMap(Head(down), m) /\ AllOf(Tail(down), m)
      /\ Follows(down, m) => Follows(Tail(down), m)
      /\ Unannounced(down, m) => Unannounced(Tail(down), m)
  BY AllOfTail, TailOnMap
<1>4. CASE Head(down).type # "map_change"
  <2>1. Keeps(c, a, Head(down), m)
    BY <1>1, <1>4, PumpKeeps
  <2>. HIDE DEF a
  <2>2. Linked(p, a.client, Tail(down), up \o a.out)
    BY <1>2, <1>3, <2>1, KeepsLinked DEF Linked
  <2>. QED  BY <2>2 DEF a
<1>5. CASE Head(down).type = "map_change"
  <2>1. TakesMap(c, a, Head(down))
    BY <1>5, PumpMapChange
  <2>. HIDE DEF a
  <2>2. CASE /\ Head(down).map = c.current_map_id /\ a.client = c
             /\ \A i \in 1 .. Len(a.out) : a.out[i].map = c.current_map_id /\ ~c.map_loading
    <3>1. Keeps(c, a, Head(down), m)
      BY <2>2 DEF Keeps
    <3>. QED  BY <1>2, <1>3, <3>1, KeepsLinked DEF Linked, a
  <2>3. CASE /\ Head(down).map # c.current_map_id /\ a.out = << >>
             /\ a.client.current_map_id = Head(down).map /\ a.client.map_loading
             /\ \A n : Shows(a.client, n)
    <3>1. c.current_map_id # m
      <4>1. ASSUME c.current_map_id = m
            PROVE  FALSE
        <5>1. OfMap(Head(down), m)
          BY <1>3, <4>1 DEF Linked
        <5>. QED  BY <1>5, <2>3, <4>1, <5>1 DEF OfMap
      <4>. QED  BY <4>1
    <3>2. Head(down).map = m => AllOf(down, m) /\ p.pending_map_change = None
      BY <1>5, HeadFollows DEF Linked
    <3>3. up \o a.out = up
      BY <2>3
    <3>4. \A i \in 1 .. Len(up) : ~(up[i].type = "map_ready" /\ up[i].map = m)
      BY <3>1 DEF Linked, Reported
    <3>5. Reported(up, a.client, m)
      BY <3>4 DEF Reported
    <3>6. Linked(p, a.client, Tail(down), up)
      BY <1>3, <2>3, <3>1, <3>2, <3>5 DEF Linked
    <3>. QED  BY <3>3, <3>6 DEF a
  <2>. QED  BY <2>1, <2>2, <2>3 DEF TakesMap
<1>. QED  BY <1>4, <1>5

\* A turn of the client.
LEMMA ClientMap ==
    ASSUME SystemInv, MapInv, Client
    PROVE  MapInv'
<1>1. /\ conn = "up" /\ ClientInv(client) /\ client \in ClientState
      /\ s2c \in Seq(PlacedMsg) /\ c2s \in Seq(ClientMsg)
  BY DEF SystemInv, Client, ClientReceive, ClientCommits, ClientResyncs, ClientInv
<1>2. UNCHANGED <<player, session, conn>>
  BY DEF Client, ClientReceive, ClientCommits, ClientResyncs, ClientTurn
<1>3. FirstConnection' => FirstConnection
  BY FirstBefore DEF Client, ClientReceive, ClientCommits, ClientResyncs
<1>4. SessionMapInv'
  BY <1>2 DEF MapInv, SessionMapInv
<1>5. ASSUME FirstConnection
      PROVE  Linked(player, client', s2c', c2s')
  <2>1. Linked(player, client, s2c, c2s)
    BY <1>1, <1>5 DEF MapInv
  <2>2. CASE ClientReceive
    <3>1. /\ s2c # << >> /\ s2c' = Tail(s2c)
          /\ client' = realtime_pump(client, Head(s2c)).client
          /\ c2s' = c2s \o realtime_pump(client, Head(s2c)).out
      BY <2>2 DEF ClientReceive, ClientTurn
    <3>. QED  BY <1>1, <2>1, <3>1, ReceiveLinked
  <2>3. ASSUME NEW a, a \in {SendCommit(client), send_resync_request(client)},
               s2c' = s2c, client' = a.client, c2s' = c2s \o a.out
        PROVE  Linked(player, client', s2c', c2s')
    <3>. DEFINE pkt == [type |-> "commit_ack"]
    <3>1. a.out \in Seq(ClientMsg)
      BY <1>1, <2>3, SendCommitGood, ResyncRequestGood DEF AnswerInv
    <3>2. Keeps(client, a, pkt, player.map)
      BY <1>1, <2>3, RequestKeeps
    <3>3. OfMap(pkt, player.map)
      BY DEF OfMap
    <3>. HIDE DEF pkt
    <3>4. Linked(player, a.client, s2c, c2s \o a.out)
      BY <1>1, <2>1, <3>1, <3>2, <3>3, KeepsLinked DEF Linked
    <3>. QED  BY <2>3, <3>4
  <2>4. CASE ClientCommits
    BY <2>3, <2>4 DEF ClientCommits, ClientTurn
  <2>5. CASE ClientResyncs
    BY <2>3, <2>5 DEF ClientResyncs, ClientTurn
  <2>. QED  BY <2>2, <2>4, <2>5 DEF Client
<1>. QED  BY <1>1, <1>2, <1>3, <1>4, <1>5 DEF MapInv

\* A lost packet.
LEMMA LinkMap ==
    ASSUME SystemInv, MapInv, Link
    PROVE  MapInv'
<1>1. /\ conn = "up" /\ s2c \in Seq(PlacedMsg) /\ c2s \in Seq(ClientMsg)
      /\ UNCHANGED <<player, session, client, conn>>
  BY DEF SystemInv, Link, DropToClient, DropToServer
<1>2. FirstConnection' => FirstConnection
  BY FirstBefore DEF Link, DropToClient, DropToServer
<1>3. SessionMapInv'
  BY <1>1 DEF MapInv, SessionMapInv
<1>4. ASSUME FirstConnection
      PROVE  Linked(player, client, s2c', c2s')
  <2>. DEFINE m == player.map
  <2>1. Linked(player, client, s2c, c2s)
    BY <1>1, <1>4 DEF MapInv
  <2>2. CASE DropToClient
    <3>1. s2c # << >> /\ s2c' = Tail(s2c) /\ c2s' = c2s
      BY <2>2 DEF DropToClient
    <3>2. /\ AllOf(s2c, m) => AllOf(Tail(s2c), m)
          /\ Follows(s2c, m) => Follows(Tail(s2c), m)
          /\ Unannounced(s2c, m) => Unannounced(Tail(s2c), m)
      BY <1>1, <3>1, AllOfTail, TailOnMap
    <3>3. Linked(player, client, Tail(s2c), c2s)
      BY <2>1, <3>2 DEF Linked
    <3>. QED  BY <3>1, <3>3
  <2>3. CASE DropToServer
    <3>1. c2s # << >> /\ c2s' = Tail(c2s) /\ s2c' = s2c
      BY <2>3 DEF DropToServer
    <3>2. /\ Reported(c2s, client, m) => Reported(Tail(c2s), client, m)
          /\ AllReady(c2s, m) => AllReady(Tail(c2s), m)
      BY <1>1, <3>1, TailOnMap
    <3>3. Linked(player, client, s2c, Tail(c2s))
      BY <2>1, <3>2 DEF Linked
    <3>. QED  BY <3>1, <3>3
  <2>. QED  BY <2>2, <2>3 DEF Link
<1>. QED  BY <1>1, <1>2, <1>3, <1>4 DEF MapInv

\* A client that boots shows the window of the moment.
LEMMA BootedShows ==
    ASSUME NEW map, NEW ver, NEW o
    PROVE  LET c == BootedClient(map, ver, o)
           IN  c.current_map_id = Overworld /\ ~c.map_loading /\ Shows(c, map)
<1>1. RowsHave(NoFill) = {}
  BY DEF NoFill, NoRows, RowsHave
<1>2. \A r \in Row, k \in Col : window_at(map, ver, o)[r][k].map = map
  BY DEF window_at, window_row_tiles, TileAt
<1>. QED  BY <1>1, <1>2 DEF BootedClient, Shows

\* A new session has announced nothing yet, or is about to announce the player's map.
LEMMA AttachOnMap ==
    ASSUME player \in Player, SessionMapInv, _attach_realtime
    PROVE  SessionMapInv'
<1>. DEFINE needs_full == ~player.bootstrapped
            resume == player.transition_loading /\ needs_full
            announce == ~player.transition_loading /\ player.map # Overworld
            known == IF resume \/ announce THEN player.map ELSE None
            q == [player EXCEPT !.bootstrapped = FALSE,
                                !.transition_loading = resume \/ announce]
            s == NewSession(player.target, needs_full, known)
<1>1. session' = s /\ player' = q
  BY DEF _attach_realtime
<1>2. q.map = player.map /\ q.pending_map_change = player.pending_map_change
  BY DEF Player
<1>3. HasNothing(s) /\ ~s.latest /\ s.last_map_change = known
  BY DEF NewSession, HasNothing
<1>4. known \in {None, player.map}
  OBVIOUS
<1>. HIDE DEF s, q, known, resume, announce
<1>5. StepsOf(s, q.map) /\ SlotOf(s, q.map)
  BY <1>3 DEF StepsOf, SlotOf, HasNothing
<1>6. SessionOnMap(s, q)
  BY <1>2, <1>3, <1>4, <1>5 DEF SessionOnMap, SessionMapInv
<1>. QED  BY <1>1, <1>2, <1>6 DEF SessionMapInv

\* A new session has announced the player's map, or is about to, or the client
\* assumes that map.
LEMMA AttachMap ==
    ASSUME SystemInv, MapInv, _attach_realtime
    PROVE  MapInv'
<1>. DEFINE needs_full == ~player.bootstrapped
            resume == player.transition_loading /\ needs_full
            announce == ~player.transition_loading /\ player.map # Overworld
            q == [player EXCEPT !.bootstrapped = FALSE,
                                !.transition_loading = resume \/ announce]
<1>1. /\ conn = "booted" /\ conn' = "up" /\ player' = q
      /\ UNCHANGED <<client, s2c, c2s, counters>> /\ s2c = << >> /\ c2s = << >>
      /\ player \in Player
  BY DEF _attach_realtime, SystemInv
<1>2. /\ q.map = player.map /\ q.pending_map_change = player.pending_map_change
      /\ q.transition_loading = (resume \/ announce)
  BY <1>1 DEF Player
<1>5. FirstConnection => /\ ~player.transition_loading /\ player.pending_map_change = None
                         /\ client.current_map_id = Overworld /\ ~client.map_loading
                         /\ Shows(client, player.map)
  BY <1>1 DEF MapInv, Unlinked
<1>6. (resume \/ announce) /\ ~player.transition_loading => player.map # Overworld
  OBVIOUS
<1>7. ~(resume \/ announce) /\ ~player.transition_loading => player.map = Overworld
  OBVIOUS
<1>. HIDE DEF q, resume, announce
<1>9. SessionMapInv'
  BY <1>1, AttachOnMap DEF MapInv
<1>10. FirstConnection' => FirstConnection
  BY <1>1, FirstBefore
<1>11. ASSUME FirstConnection
       PROVE  Linked(q, client, << >>, << >>)
  <2>1. \A m : /\ AllOf(<< >>, m) /\ Follows(<< >>, m) /\ AllReady(<< >>, m)
               /\ Reported(<< >>, client, m)
    BY DEF AllOf, Follows, AllReady, Reported
  <2>. QED  BY <1>2, <1>5, <1>6, <1>7, <1>11, <2>1 DEF Linked
<1>. QED  BY <1>1, <1>9, <1>10, <1>11 DEF MapInv

LEMMA ConnectionMap ==
    ASSUME SystemInv, MapInv, Connection
    PROVE  MapInv'
<1>1. CASE Disconnect
  <2>1. ~FirstConnection'
    BY <1>1 DEF Disconnect, Spend, FirstConnection
  <2>2. SessionMapInv'
    BY <1>1 DEF Disconnect, MapInv, SessionMapInv
  <2>. QED  BY <2>1, <2>2 DEF MapInv
<1>2. CASE _drop_session
  <2>1. ~FirstConnection'
    BY <1>2, FirstBefore DEF _drop_session, MapInv, Unlinked
  <2>2. SessionMapInv'
    BY <1>2 DEF _drop_session, MapInv, SessionMapInv
  <2>. QED  BY <2>1, <2>2 DEF MapInv
<1>3. CASE _process_bootstrap
  <2>1. /\ conn = "off" /\ conn' = "booted" /\ UNCHANGED <<session, counters>>
        /\ player \in Player /\ player' = [player EXCEPT !.bootstrapped = TRUE]
        /\ client' = BootedClient(player.map, player.ver, player.target)
    BY <1>3 DEF _process_bootstrap, SystemInv
  <2>2. /\ player'.map = player.map /\ player'.pending_map_change = player.pending_map_change
        /\ player'.transition_loading = player.transition_loading
    BY <2>1 DEF Player
  <2>3. SessionMapInv'
    BY <2>1, <2>2, SessionOther DEF MapInv, SessionMapInv
  <2>4. FirstConnection' => FirstConnection
    BY <2>1, FirstBefore
  <2>5. /\ client'.current_map_id = Overworld /\ ~client'.map_loading
        /\ Shows(client', player.map)
    BY <2>1, BootedShows
  <2>6. FirstConnection => Unlinked'
    BY <2>1, <2>2, <2>5 DEF MapInv, Unlinked
  <2>. QED  BY <2>1, <2>3, <2>4, <2>6 DEF MapInv
<1>4. CASE BootstrapExpires
  <2>1. /\ conn = "booted" /\ UNCHANGED <<session, client, conn, s2c, c2s, counters>>
        /\ player \in Player /\ player' = [player EXCEPT !.bootstrapped = FALSE]
    BY <1>4 DEF BootstrapExpires, SystemInv
  <2>2. /\ player'.map = player.map /\ player'.pending_map_change = player.pending_map_change
        /\ player'.transition_loading = player.transition_loading
    BY <2>1 DEF Player
  <2>3. SessionMapInv'
    BY <2>1, <2>2, SessionOther DEF MapInv, SessionMapInv
  <2>4. FirstConnection' => FirstConnection
    BY <2>1, FirstBefore
  <2>5. FirstConnection => Unlinked'
    BY <2>1, <2>2 DEF MapInv, Unlinked
  <2>. QED  BY <2>1, <2>3, <2>4, <2>5 DEF MapInv
<1>. QED  BY <1>1, <1>2, <1>3, <1>4, AttachMap DEF Connection

\* The invariant of the map, inductive with that of the protocol.
LEMMA InitMap == Init => MapInv
<1>. SUFFICES ASSUME Init
              PROVE  MapInv
  OBVIOUS
<1>1. conn = "off" /\ session = None
  BY DEF Init
<1>2. ~player.transition_loading /\ player.pending_map_change = None
  BY DEF Init, NewPlayer
<1>. QED  BY <1>1, <1>2 DEF MapInv, SessionMapInv, Unlinked

LEMMA NextMap == SystemInv /\ SystemInv' /\ MapInv /\ [Next]_vars => MapInv'
<1>. SUFFICES ASSUME SystemInv, SystemInv', MapInv, [Next]_vars
              PROVE  MapInv'
  OBVIOUS
<1>1. CASE \E step \in GameSteps, timers \in Timer : Tick(step, timers)
  BY <1>1, TickMap
<1>2. CASE IdleTick
  BY <1>2, IdleTickMap
<1>3. CASE Server
  BY <1>3, HandlerMap, HandleMapReadyMap, HandlePlayerStateMap DEF Server
<1>4. CASE Client
  BY <1>4, ClientMap
<1>5. CASE Link
  BY <1>5, LinkMap
<1>6. CASE Connection
  BY <1>6, ConnectionMap
<1>7. CASE SendWorld
  BY <1>7, SendWorldMap
<1>8. CASE UNCHANGED vars
  BY <1>8 DEF vars, counters, MapInv, SessionMapInv, FirstConnection, Unlinked
<1>. QED  BY <1>1, <1>2, <1>3, <1>4, <1>5, <1>6, <1>7, <1>8 DEF Next

\* The invariant of the map holds in every reachable state.
THEOREM MapInvariance == Spec => [](SystemInv /\ MapInv)
<1>1. Init => SystemInv /\ MapInv
  BY InitInv, InitMap
<1>2. (SystemInv /\ MapInv) /\ [Next]_vars => (SystemInv /\ MapInv)'
  BY NextInv, NextMap
<1>. QED  BY <1>1, <1>2, PTL DEF Spec

\* In the first connection, whatever is lost and however often a map is announced
\* again, play runs only on a client that knows the player's map and shows nothing
\* else, but for GRASS at its corner (ReceiveMapChange, HandleMapReady, AnnounceMap).
THEOREM MapShown == Spec => []FirstMapShown
<1>1. SystemInv /\ MapInv => FirstMapShown
  BY DEF MapInv, Linked, Shows, ShowsMap, FirstMapShown, UnpausedMapKnown
<1>. QED  BY <1>1, MapInvariance, PTL

\* In the first connection a MAP_READY ends the pause only when the client shows the
\* player's map, GRASS at its corner aside (the first half of NothingEndsEarly).
THEOREM PauseEndsOnTheMap ==
    Spec => [][FirstConnection /\ HandleMapReady /\ player' # player =>
                 /\ client.current_map_id = player.map
                 /\ ShowsMap(player.map)]_vars
<1>1. ASSUME SystemInv, MapInv, FirstConnection, HandleMapReady, player' # player
      PROVE  /\ client.current_map_id = player.map
             /\ ShowsMap(player.map)
  <2>1. conn = "up" /\ c2s # << >> /\ c2s \in Seq(ClientMsg) /\ Head(c2s).type = "map_ready"
    BY <1>1, ArrivesGood DEF HandleMapReady, Arrives, SystemInv
  <2>2. Head(c2s).map = player.map
    BY <1>1 DEF HandleMapReady
  <2>3. Linked(player, client, s2c, c2s)
    BY <1>1, <2>1 DEF MapInv
  <2>4. client.current_map_id = player.map /\ ~client.map_loading /\ Shows(client, player.map)
    BY <2>1, <2>2, <2>3, ReadyLinked
  <2>. QED  BY <2>4 DEF Shows, ShowsMap
<1>. QED  BY <1>1, MapInvariance, PTL

-----------------------------------------------------------------------------
(* What a bot remembers.                                                    *)

Memory == [Cell -> {None} \cup Tile]
InPlace(known) == \A cell \in Cell : known[cell] # None => PlacedAt(known[cell], cell[1], cell[2])
OnlyOf(known, m) == \A cell \in Cell : known[cell] # None => known[cell].map = m

\* Everything is filed in its place, and under its map but for the bootstrap's.
Filed(memory) ==
    /\ memory \in [Maps \cup {None} -> Memory]
    /\ \A m \in Maps \cup {None} : InPlace(memory[m])
    /\ \A m \in Maps : OnlyOf(memory[m], m)

Bot ==
    [memory : [Maps \cup {None} -> Memory], playing : BOOLEAN, map : Maps,
     boot_origin : Origin, origin : Origin, last_step_revision : 0 .. MaxRevision,
     fill_id : {None} \cup 0 .. MaxFillId, fill_origin : {None} \cup Origin,
     rows_have : SUBSET Row, commit_pending : BOOLEAN, commit_due : BOOLEAN,
     retries : Nat, hold : BOOLEAN]

\* A bot whose open fill is one, and that has one as long as it asks for its commit.
BotGood(bot) ==
    /\ bot \in Bot /\ Filed(bot.memory)
    /\ bot.fill_id # None \/ bot.commit_pending =>
         bot.fill_id \in 0 .. MaxFillId /\ bot.fill_origin \in Origin

\* A turn that leaves a bot good, on map m.
Turn(answer, m) ==
    /\ BotGood(answer.client) /\ answer.client.map = m
    /\ answer.out \in Seq(ClientMsg)

\* The tiles of a strip or a row, as apply_rect reads them, are those of its place.
Rect(x, y, width, tiles) ==
    /\ x \in Int /\ y \in Int /\ DOMAIN tiles \subseteq Nat
    /\ \A i \in DOMAIN tiles :
         tiles[i] \in Tile /\ IF width = 1 THEN PlacedAt(tiles[i], x, y + i)
                                           ELSE PlacedAt(tiles[i], x + i, y)

LEMMA Difference ==
    ASSUME NEW a \in Int, NEW b \in Int
    PROVE  (a - b = 0 => b = a) /\ b + (a - b) = a
OBVIOUS

LEMMA CellParts ==
    ASSUME NEW cell \in Cell
    PROVE  cell[1] \in Int /\ cell[2] \in Int
BY WindowAssumption DEF Cell, Place

\* A tile and None differ where it matters: what is filed is a tile.
LEMMA RectApplied ==
    ASSUME NEW known \in Memory, InPlace(known), NEW m, OnlyOf(known, m),
           NEW x, NEW y, NEW width, NEW tiles, Rect(x, y, width, tiles),
           \A i \in DOMAIN tiles : tiles[i].map = m
    PROVE  LET next == apply_rect(known, x, y, width, tiles)
           IN  next \in Memory /\ InPlace(next) /\ OnlyOf(next, m)
<1>. DEFINE next == apply_rect(known, x, y, width, tiles)
            Right(t, cell) == /\ t \in {None} \cup Tile
                              /\ t # None => PlacedAt(t, cell[1], cell[2]) /\ t.map = m
<1>1. ASSUME NEW cell \in Cell
      PROVE  Right(next[cell], cell)
  <2>. DEFINE i == cell[1] - x
              j == cell[2] - y
  <2>1. cell[1] \in Int /\ cell[2] \in Int /\ x \in Int /\ y \in Int
    BY CellParts DEF Rect
  <2>2. next[cell] = IF width = 1 /\ i = 0 /\ j \in DOMAIN tiles THEN tiles[j]
                     ELSE IF width # 1 /\ j = 0 /\ i \in DOMAIN tiles THEN tiles[i]
                     ELSE known[cell]
    BY DEF apply_rect
  <2>3. Right(known[cell], cell)
    BY DEF Memory, InPlace, OnlyOf
  <2>4. CASE width = 1 /\ i = 0 /\ j \in DOMAIN tiles
    <3>1. tiles[j] \in Tile /\ PlacedAt(tiles[j], x, y + j) /\ tiles[j].map = m
      BY <2>4 DEF Rect
    <3>2. i = 0
      BY <2>4
    <3>3. x = cell[1] /\ y + j = cell[2]
      BY <2>1, <3>2, Difference
    <3>. QED  BY <2>2, <2>4, <3>1, <3>3
  <2>5. CASE width # 1 /\ j = 0 /\ i \in DOMAIN tiles
    <3>1. tiles[i] \in Tile /\ PlacedAt(tiles[i], x + i, y) /\ tiles[i].map = m
      BY <2>5 DEF Rect
    <3>2. j = 0
      BY <2>5
    <3>3. x + i = cell[1] /\ y = cell[2]
      BY <2>1, <3>2, Difference
    <3>. QED  BY <2>2, <2>5, <3>1, <3>3
  <2>. QED  BY <2>2, <2>3, <2>4, <2>5
<1>2. next = [cell \in Cell |-> next[cell]]
  BY DEF apply_rect
<1>. HIDE DEF next
<1>3. next \in Memory
  BY <1>1, <1>2 DEF Memory
<1>. QED  BY <1>1, <1>3 DEF InPlace, OnlyOf, next

LEMMA EdgeRect ==
    ASSUME NEW e \in EdgeMsg, EdgePlaced(e)
    PROVE  Rect(e.x, e.y, e.width, e.tiles)
<1>1. CASE e \in ColumnEdgeMsg
  <2>1. /\ e.width = 1 /\ e.height = WINDOW_H /\ e.tiles \in [Row -> Tile]
        /\ e.x \in Int /\ e.y \in Int
    BY <1>1, WindowAssumption DEF ColumnEdgeMsg, ColTiles
  <2>2. \A r \in Row : PlacedAt(e.tiles[r], e.x, e.y + r)
    BY <2>1 DEF EdgePlaced, ColPlaced
  <2>3. DOMAIN e.tiles = Row /\ Row \subseteq Nat /\ \A r \in Row : e.tiles[r] \in Tile
    BY <2>1, WindowAssumption DEF Row
  <2>. QED  BY <2>1, <2>2, <2>3 DEF Rect
<1>2. CASE e \in RowEdgeMsg
  <2>1. /\ e.width = WINDOW_W /\ e.height = 1 /\ e.tiles \in [Col -> Tile]
        /\ e.x \in Int /\ e.y \in Int
    BY <1>2, WindowAssumption DEF RowEdgeMsg, RowTiles
  <2>2. ~(e.width = 1 /\ e.height = WINDOW_H)
    BY <2>1, WindowAssumption
  <2>3. \A c \in Col : PlacedAt(e.tiles[c], e.x + c, e.y)
    BY <2>2 DEF EdgePlaced, RowPlaced
  <2>4. ASSUME NEW c \in Col, WINDOW_W = 1
        PROVE  PlacedAt(e.tiles[c], e.x, e.y + c)
    <3>1. c = 0
      BY <2>4 DEF Col
    <3>2. e.x + c = e.x /\ e.y + c = e.y
      BY <2>1, <3>1
    <3>. QED  BY <2>3, <3>2
  <2>5. DOMAIN e.tiles = Col /\ Col \subseteq Nat /\ \A c \in Col : e.tiles[c] \in Tile
    BY <2>1, WindowAssumption DEF Col
  <2>. QED  BY <2>1, <2>3, <2>4, <2>5 DEF Rect
<1>. QED  BY <1>1, <1>2 DEF EdgeMsg

LEMMA RowRect ==
    ASSUME NEW w \in RowMsg, PacketPlaced(w)
    PROVE  Rect(w.x, w.y, WINDOW_W, w.tiles)
<1>1. /\ w.type = "row" /\ w.tiles \in [Col -> Tile] /\ w.x \in Int /\ w.y \in Int
  BY WindowAssumption DEF RowMsg, RowTiles
<1>2. \A c \in Col : PlacedAt(w.tiles[c], w.x + c, w.y)
  BY <1>1 DEF PacketPlaced, RowPlaced
<1>3. ASSUME NEW c \in Col, WINDOW_W = 1
      PROVE  PlacedAt(w.tiles[c], w.x, w.y + c)
  <2>1. c = 0
    BY <1>3 DEF Col
  <2>2. w.x + c = w.x /\ w.y + c = w.y
    BY <1>1, <2>1
  <2>. QED  BY <1>2, <2>2
<1>4. DOMAIN w.tiles = Col /\ Col \subseteq Nat /\ \A c \in Col : w.tiles[c] \in Tile
  BY <1>1, WindowAssumption DEF Col
<1>. QED  BY <1>1, <1>2, <1>3, <1>4 DEF Rect

\* A bot that files a strip or a row under its map has filed it rightly.
LEMMA FiledRect ==
    ASSUME NEW memory, Filed(memory), NEW m \in Maps,
           NEW x, NEW y, NEW width, NEW tiles, Rect(x, y, width, tiles),
           \A i \in DOMAIN tiles : tiles[i].map = m
    PROVE  Filed([memory EXCEPT ![m] = apply_rect(@, x, y, width, tiles)])
<1>. DEFINE known == apply_rect(memory[m], x, y, width, tiles)
            next == [memory EXCEPT ![m] = known]
<1>1. memory[m] \in Memory /\ InPlace(memory[m]) /\ OnlyOf(memory[m], m)
  BY DEF Filed
<1>2. known \in Memory /\ InPlace(known) /\ OnlyOf(known, m)
  BY <1>1, RectApplied
<1>. HIDE DEF known
<1>3. /\ next \in [Maps \cup {None} -> Memory] /\ next[m] = known
      /\ \A n \in Maps \cup {None} : n # m => next[n] = memory[n]
  BY <1>2 DEF Filed
<1>. HIDE DEF next
<1>4. Filed(next)
  BY <1>2, <1>3 DEF Filed
<1>. QED  BY <1>4 DEF next, known

-----------------------------------------------------------------------------
(* The bot's handlers.                                                      *)

LEMMA BotPackets ==
    ASSUME NEW bot, BotGood(bot)
    PROVE  /\ <<BotAck(bot)>> \in Seq(ClientMsg) /\ <<BotReady(bot)>> \in Seq(ClientMsg)
           /\ bot.commit_pending => <<BotCommit(bot)>> \in Seq(ClientMsg)
           /\ bot.fill_id # None => <<BotNack(bot)>> \in Seq(ClientMsg)
           /\ <<CleanFill>> \in Seq(ClientMsg)
<1>1. /\ bot.last_step_revision \in 0 .. MaxRevision /\ bot.origin \in Origin
      /\ bot.map \in Maps /\ bot.rows_have \in SUBSET Row
  BY DEF BotGood, Bot
<1>2. bot.fill_id # None \/ bot.commit_pending =>
        bot.fill_id \in 0 .. MaxFillId /\ bot.fill_origin \in Origin
  BY DEF BotGood
<1>3. BotAck(bot) \in ClientMsg /\ BotReady(bot) \in ClientMsg
  BY <1>1 DEF BotAck, BotReady, ClientMsg, AckMsg, ReadyMsg
<1>4. bot.commit_pending => BotCommit(bot) \in ClientMsg
  BY <1>1, <1>2 DEF BotCommit, ClientMsg, CommitMsg
<1>5. bot.fill_id # None => BotNack(bot) \in ClientMsg
  BY <1>1, <1>2 DEF BotNack, ClientMsg, ResyncMsg
<1>6. CleanFill \in ClientMsg
  <2>1. <<0, 0>> \in Origin /\ 0 \in 0 .. MaxFillId
    BY WindowAssumption, SessionAssumption DEF Origin
  <2>. QED  BY <2>1 DEF CleanFill, ClientMsg, ResyncMsg
<1>. QED  BY <1>3, <1>4, <1>5, <1>6

LEMMA QuietTurn ==
    ASSUME NEW bot, BotGood(bot)
    PROVE  Turn(Quiet(bot), bot.map) /\ Turn(Answer(bot, <<BotAck(bot)>>), bot.map)
BY BotPackets DEF Turn, Quiet, Answer

LEMMA BesideGood ==
    ASSUME NEW o \in Origin, NEW e \in EdgeMsg
    PROVE  Beside(o, e) \in {None} \cup Origin
<1>1. o[1] \in 0 .. MaxX /\ o[2] \in 0 .. MaxY
  BY OriginParts
<1>2. /\ e.x \in 0 .. MaxX + WINDOW_W - 1 /\ e.y \in 0 .. MaxY + WINDOW_H - 1
      /\ e.width = 1 => e.x \in 0 .. MaxX \/ e.height = WINDOW_H
      /\ e.height = 1 => e.y \in 0 .. MaxY \/ e.width = WINDOW_W
  BY WindowAssumption DEF EdgeMsg, ColumnEdgeMsg, RowEdgeMsg
<1>3. e.x = o[1] + WINDOW_W => o[1] + 1 \in 0 .. MaxX
  BY <1>1, <1>2, WindowAssumption
<1>4. e.x = o[1] - 1 => o[1] - 1 \in 0 .. MaxX
  BY <1>1, <1>2, WindowAssumption
<1>5. e.y = o[2] + WINDOW_H => o[2] + 1 \in 0 .. MaxY
  BY <1>1, <1>2, WindowAssumption
<1>6. e.y = o[2] - 1 => o[2] - 1 \in 0 .. MaxY
  BY <1>1, <1>2, WindowAssumption
<1>. QED  BY <1>1, <1>3, <1>4, <1>5, <1>6 DEF Beside, Origin

LEMMA EdgeTurn ==
    ASSUME NEW bot, BotGood(bot), NEW e \in EdgeMsg, EdgePlaced(e), OfMap(e, bot.map)
    PROVE  Turn(_on_terrain_edge(bot, e), bot.map)
<1>. DEFINE to == Beside(bot.origin, e)
            memory == [bot.memory EXCEPT ![bot.map] = apply_rect(@, e.x, e.y, e.width, e.tiles)]
            moved == [bot EXCEPT !.memory[bot.map] = apply_rect(@, e.x, e.y, e.width, e.tiles),
                                 !.origin = to, !.last_step_revision = e.revision]
<1>1. bot \in Bot /\ bot.map \in Maps /\ bot.origin \in Origin /\ Filed(bot.memory)
  BY DEF BotGood, Bot
<1>2. e.type = "edge" /\ e.revision \in 0 .. MaxRevision
  BY SessionAssumption DEF EdgeMsg, ColumnEdgeMsg, RowEdgeMsg
<1>3. \A i \in DOMAIN e.tiles : e.tiles[i].map = bot.map
  BY <1>2 DEF OfMap
<1>4. Filed(memory)
  BY <1>1, <1>3, EdgeRect, FiledRect
<1>5. moved = [bot EXCEPT !.memory = memory, !.origin = to, !.last_step_revision = e.revision]
  BY <1>1 DEF Bot
<1>6. to \in {None} \cup Origin
  BY <1>1, BesideGood
<1>. HIDE DEF memory, to
<1>7. ASSUME to # None
      PROVE  Turn(Answer(moved, <<BotAck(moved)>>), bot.map)
  <2>. DEFINE next == [bot EXCEPT !.memory = memory, !.origin = to, !.last_step_revision = e.revision]
  <2>1. memory \in [Maps \cup {None} -> Memory]
    BY <1>4 DEF Filed
  <2>2. /\ next \in Bot /\ next.memory = memory /\ next.map = bot.map
        /\ next.fill_id = bot.fill_id /\ next.fill_origin = bot.fill_origin
        /\ next.commit_pending = bot.commit_pending
    BY <1>1, <1>2, <1>6, <1>7, <2>1 DEF Bot
  <2>. HIDE DEF next
  <2>3. BotGood(next)
    BY <1>4, <2>2 DEF BotGood
  <2>. QED  BY <1>5, <2>2, <2>3, QuietTurn DEF next
<1>. HIDE DEF moved
<1>8. _on_terrain_edge(bot, e) \in
        {Quiet(bot), Answer(bot, <<BotAck(bot)>>)} \cup
        (IF to # None THEN {Answer(moved, <<BotAck(moved)>>)} ELSE {})
  BY DEF _on_terrain_edge, to, moved
<1>. QED  BY <1>7, <1>8, QuietTurn

LEMMA RowTurn ==
    ASSUME NEW bot, BotGood(bot), NEW w \in RowMsg, PacketPlaced(w), OfMap(w, bot.map)
    PROVE  Turn(_on_window_row(bot, w), bot.map)
<1>. DEFINE o == <<w.x, w.y - w.row>>
            fill == IF bot.fill_id = w.fill_id /\ bot.fill_origin = o THEN bot
                    ELSE [bot EXCEPT !.fill_id = w.fill_id, !.fill_origin = o, !.rows_have = {},
                                     !.commit_pending = FALSE]
            memory == [bot.memory EXCEPT ![bot.map] = apply_rect(@, w.x, w.y, WINDOW_W, w.tiles)]
            next == [fill EXCEPT !.memory[bot.map] = apply_rect(@, w.x, w.y, WINDOW_W, w.tiles),
                                 !.rows_have = @ \cup {w.row}]
            last == [next EXCEPT !.commit_pending = TRUE, !.commit_due = TRUE, !.retries = 0]
<1>1. bot \in Bot /\ bot.map \in Maps /\ Filed(bot.memory)
  BY DEF BotGood, Bot
<1>2. /\ w.type = "row" /\ w.fill_id \in 0 .. MaxFillId /\ w.row \in Row
      /\ w.x \in 0 .. MaxX
  BY DEF RowMsg
<1>3. o \in Origin
  BY <1>2 DEF PacketPlaced, Origin
<1>4. \A i \in DOMAIN w.tiles : w.tiles[i].map = bot.map
  BY <1>2 DEF OfMap
<1>5. Filed(memory)
  BY <1>1, <1>4, RowRect, FiledRect
<1>. HIDE DEF o
<1>6. /\ fill \in Bot /\ fill.memory = bot.memory /\ fill.map = bot.map
      /\ fill.fill_id \in 0 .. MaxFillId /\ fill.fill_origin \in Origin
  BY <1>1, <1>2, <1>3 DEF Bot
<1>. HIDE DEF fill
<1>7. next = [fill EXCEPT !.memory = memory, !.rows_have = @ \cup {w.row}]
  BY <1>6 DEF Bot
<1>8. memory \in [Maps \cup {None} -> Memory]
  BY <1>5 DEF Filed
<1>. HIDE DEF memory
<1>9. /\ next \in Bot /\ next.memory = memory /\ next.map = bot.map
      /\ next.fill_id \in 0 .. MaxFillId /\ next.fill_origin \in Origin
  BY <1>2, <1>6, <1>7, <1>8 DEF Bot
<1>. HIDE DEF next
<1>10. /\ last \in Bot /\ last.memory = memory /\ last.map = bot.map
       /\ last.fill_id \in 0 .. MaxFillId /\ last.fill_origin \in Origin
  BY <1>9 DEF Bot
<1>. HIDE DEF last
<1>11. BotGood(next) /\ BotGood(last)
  BY <1>5, <1>9, <1>10 DEF BotGood
<1>12. _on_window_row(bot, w) \in {Quiet(next), Quiet(last)}
  BY DEF _on_window_row, last, next, fill, o
<1>. QED  BY <1>9, <1>10, <1>11, <1>12, QuietTurn

LEMMA CommitAckTurn ==
    ASSUME NEW bot, BotGood(bot), NEW a \in CommitAckMsg
    PROVE  Turn(_on_commit_ack(bot, a), bot.map)
<1>. DEFINE done == [bot EXCEPT !.origin = a.origin, !.fill_id = None, !.fill_origin = None,
                                !.commit_pending = FALSE, !.last_step_revision = 0, !.hold = FALSE]
<1>1. /\ bot \in Bot /\ Filed(bot.memory) /\ bot.map \in Maps /\ a.origin \in Origin
      /\ 0 \in 0 .. MaxRevision
  BY SessionAssumption DEF BotGood, Bot, CommitAckMsg
<1>2. /\ done \in Bot /\ done.memory = bot.memory /\ done.map = bot.map
      /\ done.fill_id = None /\ ~done.commit_pending
  BY <1>1 DEF Bot
<1>3. BotReady(bot) \in ClientMsg
  BY <1>1 DEF BotReady, ClientMsg, ReadyMsg
<1>. HIDE DEF done
<1>4. BotGood(done)
  BY <1>1, <1>2 DEF BotGood
<1>5. _on_commit_ack(bot, a) \in {Quiet(bot), Answer(done, <<BotReady(bot)>>), Answer(done, << >>)}
  BY DEF _on_commit_ack, done
<1>6. Turn(Answer(done, <<BotReady(bot)>>), bot.map) /\ Turn(Answer(done, << >>), bot.map)
  BY <1>2, <1>3, <1>4 DEF Turn, Answer
<1>. QED  BY <1>5, <1>6, QuietTurn

LEMMA MapChangeTurn ==
    ASSUME NEW bot, BotGood(bot), NEW m \in MapChangeMsg
    PROVE  Turn(_on_map_change(bot, m), m.map)
<1>. DEFINE next == [bot EXCEPT !.map = m.map, !.hold = TRUE, !.fill_id = None, !.fill_origin = None,
                                !.commit_pending = FALSE, !.last_step_revision = 0]
<1>1. /\ bot \in Bot /\ Filed(bot.memory) /\ m.map \in Maps
      /\ 0 \in 0 .. MaxRevision
  BY SessionAssumption DEF BotGood, MapChangeMsg
<1>2. /\ next \in Bot /\ next.memory = bot.memory /\ next.map = m.map
      /\ next.fill_id = None /\ ~next.commit_pending
  BY <1>1 DEF Bot
<1>. HIDE DEF next
<1>3. BotGood(next)
  BY <1>1, <1>2 DEF BotGood
<1>4. \/ m.map = bot.map /\ _on_map_change(bot, m) = Quiet(bot)
      \/ _on_map_change(bot, m) = Quiet(next)
  BY DEF _on_map_change, next
<1>. QED  BY <1>2, <1>3, <1>4, QuietTurn

\* The GRASS of no update is only ever at (0, 0), where it is passed over.
LEMMA WorldTurn ==
    ASSUME NEW bot, BotGood(bot), NEW w \in WorldMsg, OfMap(w, bot.map)
    PROVE  Turn(_on_world_state(bot, w), bot.map)
<1>. DEFINE cell == <<w.x, w.y>>
            known == [bot.memory[bot.map] EXCEPT ![cell] = w.tile]
            memory == [bot.memory EXCEPT ![bot.map] = known]
            next == [bot EXCEPT !.memory[bot.map][cell] = w.tile]
<1>1. /\ bot \in Bot /\ bot.map \in Maps /\ Filed(bot.memory)
      /\ bot.memory[bot.map] \in Memory
  BY DEF BotGood, Bot, Filed
<1>2. /\ w.tile \in Tile /\ PlacedAt(w.tile, w.x, w.y) /\ w.type = "world"
      /\ cell \in Cell /\ cell[1] = w.x /\ cell[2] = w.y
  BY DEF WorldMsg, Cell, Place
<1>3. CASE cell = <<0, 0>>
  <2>1. _on_world_state(bot, w) = Quiet(bot)
    BY <1>3 DEF _on_world_state
  <2>. QED  BY <2>1, QuietTurn
<1>4. CASE cell # <<0, 0>>
  <2>1. w.tile # Grass
    <3>1. w.tile = Grass => w.x = 0 /\ w.y = 0
      BY <1>2 DEF PlacedAt, Grass
    <3>. QED  BY <1>4, <3>1
  <2>2. w.tile.map = bot.map
    BY <1>2, <2>1 DEF OfMap
  <2>3. /\ InPlace(bot.memory[bot.map]) /\ OnlyOf(bot.memory[bot.map], bot.map)
    BY <1>1 DEF Filed
  <2>4. next = [bot EXCEPT !.memory = memory]
    BY <1>1 DEF Bot
  <2>5. _on_world_state(bot, w) = Quiet(next)
    BY <1>4 DEF _on_world_state
  <2>. HIDE DEF next, cell
  <2>6. /\ known \in Memory
        /\ \A d \in Cell : known[d] = IF d = cell THEN w.tile ELSE bot.memory[bot.map][d]
    BY <1>1, <1>2 DEF Memory
  <2>. HIDE DEF known
  <2>7. InPlace(known) /\ OnlyOf(known, bot.map)
    BY <1>2, <2>2, <2>3, <2>6 DEF InPlace, OnlyOf
  <2>8. /\ memory \in [Maps \cup {None} -> Memory] /\ memory[bot.map] = known
        /\ \A n \in Maps \cup {None} : n # bot.map => memory[n] = bot.memory[n]
    BY <1>1, <2>6 DEF Filed
  <2>. HIDE DEF memory
  <2>9. Filed(memory)
    BY <1>1, <2>7, <2>8 DEF Filed
  <2>10. /\ next \in Bot /\ next.memory = memory /\ next.map = bot.map
         /\ next.fill_id = bot.fill_id /\ next.fill_origin = bot.fill_origin
         /\ next.commit_pending = bot.commit_pending
    BY <1>1, <2>4, <2>8 DEF Bot
  <2>11. BotGood(next)
    BY <2>9, <2>10 DEF BotGood
  <2>. QED  BY <2>5, <2>10, <2>11, QuietTurn
<1>. QED  BY <1>3, <1>4

\* A bot that takes a packet stays on its map, whose tiles the packet then carries, or
\* goes to the one that is announced.
LEMMA HandledTurn ==
    ASSUME NEW bot, BotGood(bot), NEW pkt \in PlacedMsg, NEW m, OfMap(pkt, m),
           pkt.type # "map_change" => m = bot.map
    PROVE  Turn(_handle_frame(bot, pkt), m)
<1>0. pkt \in ServerMsg /\ PacketPlaced(pkt)
  BY DEF PlacedMsg
<1>1. CASE pkt \in EdgeMsg
  <2>1. pkt.type = "edge" /\ EdgePlaced(pkt)
    BY <1>0, <1>1 DEF EdgeMsg, ColumnEdgeMsg, RowEdgeMsg, PacketPlaced
  <2>. QED  BY <1>1, <2>1, EdgeTurn DEF _handle_frame
<1>2. CASE pkt \in RowMsg
  <2>1. pkt.type = "row"
    BY <1>2 DEF RowMsg
  <2>. QED  BY <1>0, <1>2, <2>1, RowTurn DEF _handle_frame
<1>3. CASE pkt \in CommitAckMsg
  <2>1. pkt.type = "commit_ack"
    BY <1>3 DEF CommitAckMsg
  <2>. QED  BY <1>3, <2>1, CommitAckTurn DEF _handle_frame
<1>4. CASE pkt \in MapChangeMsg
  <2>1. pkt.type = "map_change" /\ pkt.map = m
    BY <1>4 DEF MapChangeMsg, OfMap
  <2>. QED  BY <1>4, <2>1, MapChangeTurn DEF _handle_frame
<1>5. CASE pkt \in WorldMsg
  <2>1. pkt.type = "world"
    BY <1>5 DEF WorldMsg
  <2>. QED  BY <1>5, <2>1, WorldTurn DEF _handle_frame
<1>. QED  BY <1>0, <1>1, <1>2, <1>3, <1>4, <1>5 DEF ServerMsg

-----------------------------------------------------------------------------
(* What is under way to a bot.                                              *)

\* What is under way leads a bot from map m to map n: each tile is of the map it
\* has been told of last.
Told(q, m, n) ==
    \E at \in [0 .. Len(q) -> Maps] :
        /\ at[0] = m /\ at[Len(q)] = n
        /\ \A i \in 1 .. Len(q) : /\ OfMap(q[i], at[i])
                                  /\ q[i].type # "map_change" => at[i] = at[i - 1]

\* ... to the player's map, unless the session has yet to announce that.
Leads(q, m, p) ==
    \E n \in Maps : Told(q, m, n) /\ (p.pending_map_change = None => n = p.map)

Announces(q) == q # << >> /\ q[1].type = "map_change"

LEMMA ToldNone ==
    ASSUME NEW m \in Maps
    PROVE  Told(<< >>, m, m)
<1>. DEFINE at == [k \in 0 .. Len(<< >>) |-> m]
<1>1. Len(<< >>) = 0
  OBVIOUS
<1>2. at \in [0 .. Len(<< >>) -> Maps] /\ at[0] = m /\ at[Len(<< >>)] = m
  BY <1>1
<1>. HIDE DEF at
<1>3. \A i : i \notin 1 .. Len(<< >>)
  BY <1>1
<1>. QED  BY <1>2, <1>3 DEF Told

LEMMA ToldMore ==
    ASSUME NEW S, NEW a \in Seq(S), NEW b \in Seq(S), NEW m, NEW k, Told(a, m, k),
           NEW n \in Maps, AllOf(b, n), k = n \/ Announces(b)
    PROVE  Told(a \o b, m, n)
<1>1. PICK at \in [0 .. Len(a) -> Maps] :
        /\ at[0] = m /\ at[Len(a)] = k
        /\ \A i \in 1 .. Len(a) : /\ OfMap(a[i], at[i])
                                  /\ a[i].type # "map_change" => at[i] = at[i - 1]
  BY DEF Told
<1>. DEFINE q == a \o b
            to == [i \in 0 .. Len(q) |-> IF i <= Len(a) THEN at[i] ELSE n]
<1>2. /\ Len(a) \in Nat /\ Len(b) \in Nat /\ Len(q) = Len(a) + Len(b)
      /\ b # << >> => Len(b) >= 1
      /\ \A i \in 1 .. Len(a) : q[i] = a[i]
      /\ \A i \in Len(a) + 1 .. Len(q) : q[i] = b[i - Len(a)] /\ i - Len(a) \in 1 .. Len(b)
  OBVIOUS
<1>3. b = << >> => k = n
  BY DEF Announces
<1>. HIDE DEF q
<1>4. /\ k \in Maps
      /\ \A i \in 0 .. Len(a) : at[i] \in Maps
  <2>1. Len(a) \in 0 .. Len(a)
    BY <1>2
  <2>. QED  BY <1>1, <2>1
<1>5. \A i \in 0 .. Len(q) : to[i] = IF i <= Len(a) THEN at[i] ELSE n
  BY <1>1, <1>2
<1>6. to \in [0 .. Len(q) -> Maps]
  <2>1. to = [i \in 0 .. Len(q) |-> to[i]]
    OBVIOUS
  <2>. HIDE DEF to
  <2>2. \A i \in 0 .. Len(q) : to[i] \in Maps
    BY <1>2, <1>4, <1>5
  <2>. QED  BY <2>1, <2>2
<1>. HIDE DEF to
<1>7. to[0] = m /\ to[Len(q)] = n
  <2>1. to[0] = m
    BY <1>1, <1>2, <1>5
  <2>2. CASE Len(b) = 0
    <3>1. Len(q) = Len(a) /\ b = << >>
      BY <1>2, <2>2
    <3>. QED  BY <1>1, <1>2, <1>3, <1>5, <2>1, <3>1
  <2>3. CASE Len(b) # 0
    <3>1. ~(Len(q) <= Len(a)) /\ Len(q) \in 0 .. Len(q)
      BY <1>2, <2>3
    <3>. QED  BY <1>5, <2>1, <3>1
  <2>. QED  BY <2>2, <2>3
<1>8. ASSUME NEW i \in 1 .. Len(q)
      PROVE  OfMap(q[i], to[i]) /\ (q[i].type # "map_change" => to[i] = to[i - 1])
  <2>1. CASE i <= Len(a)
    <3>1. /\ i \in 1 .. Len(a) /\ i \in 0 .. Len(q) /\ i - 1 \in 0 .. Len(q) /\ i - 1 <= Len(a)
      BY <1>2, <2>1
    <3>2. q[i] = a[i] /\ to[i] = at[i] /\ to[i - 1] = at[i - 1]
      BY <1>2, <1>5, <2>1, <3>1
    <3>. QED  BY <1>1, <3>1, <3>2
  <2>2. CASE i = Len(a) + 1
    <3>1. /\ i \in Len(a) + 1 .. Len(q) /\ i - Len(a) = 1 /\ i - 1 = Len(a)
          /\ i \in 0 .. Len(q) /\ i - 1 \in 0 .. Len(q) /\ ~(i <= Len(a)) /\ i - 1 <= Len(a)
      BY <1>2, <2>2
    <3>2. q[i] = b[1] /\ 1 \in 1 .. Len(b)
      BY <1>2, <3>1
    <3>3. to[i] = n /\ to[i - 1] = k
      BY <1>1, <1>5, <3>1
    <3>. QED  BY <3>2, <3>3 DEF AllOf, Announces
  <2>3. CASE i > Len(a) + 1
    <3>1. /\ i \in Len(a) + 1 .. Len(q) /\ i \in 0 .. Len(q) /\ i - 1 \in 0 .. Len(q)
          /\ ~(i <= Len(a)) /\ ~(i - 1 <= Len(a))
      BY <1>2, <2>3
    <3>2. q[i] = b[i - Len(a)] /\ i - Len(a) \in 1 .. Len(b)
      BY <1>2, <3>1
    <3>3. to[i] = n /\ to[i - 1] = n
      BY <1>5, <3>1
    <3>. QED  BY <3>2, <3>3 DEF AllOf
  <2>. QED  BY <1>2, <2>1, <2>2, <2>3
<1>9. Told(q, m, n)
  BY <1>6, <1>7, <1>8 DEF Told
<1>. QED  BY <1>9 DEF q

LEMMA ToldTail ==
    ASSUME NEW S, NEW a \in Seq(S), a # << >>, NEW m, NEW n, Told(a, m, n)
    PROVE  \E k \in Maps : /\ OfMap(Head(a), k) /\ (Head(a).type # "map_change" => k = m)
                           /\ Told(Tail(a), k, n)
<1>1. PICK at \in [0 .. Len(a) -> Maps] :
        /\ at[0] = m /\ at[Len(a)] = n
        /\ \A i \in 1 .. Len(a) : /\ OfMap(a[i], at[i])
                                  /\ a[i].type # "map_change" => at[i] = at[i - 1]
  BY DEF Told
<1>. DEFINE q == Tail(a)
            to == [i \in 0 .. Len(q) |-> at[i + 1]]
<1>2. /\ Len(q) = Len(a) - 1 /\ Len(a) \in Nat /\ Len(a) >= 1 /\ Head(a) = a[1]
      /\ \A i \in 1 .. Len(q) : i + 1 \in 1 .. Len(a) /\ q[i] = a[i + 1]
  BY TailElement
<1>. HIDE DEF q
<1>3. \A i \in 0 .. Len(q) : to[i] = at[i + 1] /\ i + 1 \in 0 .. Len(a)
  BY <1>2
<1>4. to \in [0 .. Len(q) -> Maps] /\ at[1] \in Maps
  BY <1>2, <1>3
<1>. HIDE DEF to
<1>5. to[0] = at[1] /\ to[Len(q)] = n
  BY <1>1, <1>2, <1>3
<1>6. ASSUME NEW i \in 1 .. Len(q)
      PROVE  OfMap(q[i], to[i]) /\ (q[i].type # "map_change" => to[i] = to[i - 1])
  <2>1. i + 1 \in 1 .. Len(a) /\ q[i] = a[i + 1] /\ (i + 1) - 1 = i /\ i \in 0 .. Len(q)
        /\ i - 1 \in 0 .. Len(q) /\ (i - 1) + 1 = i
    BY <1>2
  <2>2. to[i] = at[i + 1] /\ to[i - 1] = at[i]
    BY <1>3, <2>1
  <2>. QED  BY <1>1, <2>1, <2>2
<1>7. Told(q, at[1], n)
  BY <1>4, <1>5, <1>6 DEF Told
<1>8. 1 \in 1 .. Len(a) /\ 1 - 1 = 0
  BY <1>2
<1>9. OfMap(Head(a), at[1]) /\ (Head(a).type # "map_change" => at[1] = m)
  BY <1>1, <1>2, <1>8
<1>. QED  BY <1>4, <1>7, <1>9 DEF q

-----------------------------------------------------------------------------
(* The bot and the server.                                                  *)

\* What holds as long as the bot has not been wrong about where it left off: it is
\* good, and what is under way to it leads it to the player's map.
BotWell ==
    /\ player \in Player
    /\ session = None \/ SessionInv(session)
    /\ client = None \/ BotGood(client)
    /\ conn \in {"off", "booted", "up"}
    /\ s2c \in Seq(PlacedMsg) /\ c2s \in Seq(ClientMsg)
    /\ stored \in {None} \cup Maps
    /\ conn # "off" => BotGood(client) /\ stored # None
    /\ conn = "up" => SessionInv(session) /\ Leads(s2c, client.map, player)
    /\ conn # "up" => s2c = << >> /\ c2s = << >>
    /\ SessionMapInv

BotInv == adopted => BotWell

\* The player stays on his map, and what is to be announced stays so.
LEMMA SameLeads ==
    ASSUME NEW q, NEW m, NEW p, Leads(q, m, p), NEW r, r.map = p.map,
           r.pending_map_change = p.pending_map_change
    PROVE  Leads(q, m, r)
BY DEF Leads

\* What the session sends continues what is under way, if only commit acknowledgements
\* leave before the announcement.
LEMMA ReplyLeads ==
    ASSUME NEW S, NEW q \in Seq(S), NEW m, NEW p, Leads(q, m, p), NEW out \in Seq(S),
           AllOf(out, p.map), p.pending_map_change # None => OfNoMap(out)
    PROVE  Leads(q \o out, m, p)
<1>1. PICK n \in Maps : Told(q, m, n) /\ (p.pending_map_change = None => n = p.map)
  BY DEF Leads
<1>2. AllOf(out, n)
  BY <1>1, NoMap
<1>3. Told(q \o out, m, n)
  BY <1>1, <1>2, ToldMore
<1>. QED  BY <1>1, <1>3 DEF Leads

LEMMA SendWell ==
    ASSUME BotWell, NEW out \in Seq(PlacedMsg), Send(out)
    PROVE  s2c' \in Seq(PlacedMsg) /\ (conn # "up" => s2c' = << >>)
BY QueueConcat DEF BotWell, Send

LEMMA ServerTickWell ==
    ASSUME BotWell, NEW step \in GameSteps, NEW timers \in Timer, ServerTick(step, timers)
    PROVE  BotWell'
<1>1. /\ session # None /\ SessionInv(session) /\ session \in Session
      /\ UNCHANGED <<client, conn, c2s, stored>>
  BY DEF BotWell, ServerTick, SessionInv, disk
<1>2. PICK p \in GameStep(step, player) :
        IF session.latest
        THEN \E t \in _send_tick_packets(session, p, timers) :
                /\ Queued + Len(t.out) <= MaxLink
                /\ Telling(t.session)
                /\ session' = t.session
                /\ player' = t.player
                /\ Send(t.out)
        ELSE player' = p /\ UNCHANGED <<session, s2c>>
  BY DEF ServerTick
<1>3. p \in Player
  BY GameStepGood DEF BotWell
<1>4. /\ MayAnnounce(session, p) /\ p.pending_map_change \in {None, p.map}
      /\ ~session.latest => SessionOnMap(session, p)
  BY <1>1, StepOnMap DEF BotWell, SessionMapInv
<1>5. conn = "up" => Leads(s2c, client.map, player)
  BY DEF BotWell
<1>6. p.pending_map_change = None => p.map = player.map /\ player.pending_map_change = None
  <2>1. player \in Player
    BY DEF BotWell
  <2>2. \A m \in Maps : m # None
    BY SessionAssumption
  <2>. QED  BY <2>1, <2>2, GameStepMap
<1>7. CASE session.latest
  <2>1. PICK t \in _send_tick_packets(session, p, timers) :
          session' = t.session /\ player' = t.player /\ Send(t.out)
    BY <1>2, <1>7
  <2>2. SessionInv(t.session) /\ t.player \in Player /\ t.out \in Seq(PlacedMsg)
    BY <1>1, <1>3, TickGood DEF Timer
  <2>3. /\ SessionOnMap(t.session, t.player) /\ AllOf(t.out, p.map)
        /\ t.player.map = p.map /\ t.player.pending_map_change = None
        /\ p.pending_map_change # None => t.out # << >> /\ t.out[1].type = "map_change"
    BY <1>1, <1>3, <1>4, <1>7, TickOnMap
  <2>4. s2c' \in Seq(PlacedMsg) /\ (conn # "up" => s2c' = << >>)
    BY <2>1, <2>2, SendWell
  <2>5. ASSUME conn = "up"
        PROVE  Leads(s2c', client.map, t.player)
    <3>1. PICK n \in Maps :
            Told(s2c, client.map, n) /\ (player.pending_map_change = None => n = player.map)
      BY <1>5, <2>5 DEF Leads
    <3>2. s2c' = s2c \o t.out /\ s2c \in Seq(PlacedMsg) /\ p.map \in Maps
      BY <1>3, <2>1, <2>5 DEF Send, BotWell, Player
    <3>3. n = p.map \/ Announces(t.out)
      BY <1>6, <2>3, <3>1 DEF Announces
    <3>4. Told(s2c', client.map, p.map)
      BY <2>2, <2>3, <3>1, <3>2, <3>3, ToldMore
    <3>. QED  BY <2>3, <3>2, <3>4 DEF Leads
  <2>6. SessionMapInv'
    BY <2>1, <2>3 DEF SessionMapInv
  <2>. QED  BY <1>1, <2>1, <2>2, <2>4, <2>5, <2>6 DEF BotWell
<1>8. CASE ~session.latest
  <2>1. player' = p /\ session' = session /\ s2c' = s2c
    BY <1>2, <1>8
  <2>2. ASSUME conn = "up"
        PROVE  Leads(s2c, client.map, p)
    BY <1>5, <1>6, <2>2 DEF Leads
  <2>3. SessionMapInv'
    BY <1>4, <1>8, <2>1 DEF SessionMapInv
  <2>. QED  BY <1>1, <1>3, <2>1, <2>2, <2>3 DEF BotWell
<1>. QED  BY <1>7, <1>8

LEMMA ArrivesWell ==
    ASSUME BotWell, NEW type, Arrives(type)
    PROVE  /\ conn = "up" /\ SessionInv(session) /\ session \in Session /\ SessionOnMap(session, player)
           /\ Head(c2s) \in ClientMsg /\ Head(c2s).type = type
           /\ c2s' \in Seq(ClientMsg) /\ UNCHANGED <<client, conn>>
<1>1. c2s # << >> /\ Head(c2s).type = type /\ c2s' = Tail(c2s) /\ UNCHANGED <<client, conn>>
  BY DEF Arrives
<1>2. conn = "up" /\ SessionInv(session) /\ c2s \in Seq(ClientMsg)
  BY <1>1 DEF BotWell
<1>. QED  BY <1>1, <1>2, QueueParts DEF BotWell, SessionMapInv, SessionInv

LEMMA ServeWell ==
    ASSUME BotWell, NEW type, Arrives(type), NEW reply, Serve(reply), ReplyInv(reply),
           ReplyOnMap(reply, player), player' = player, UNCHANGED stored
    PROVE  BotWell'
<1>1. /\ conn = "up" /\ c2s' \in Seq(ClientMsg) /\ UNCHANGED <<client, conn>>
  BY ArrivesWell
<1>2. /\ session' = reply.session /\ s2c' = s2c \o reply.out
      /\ SessionInv(session') /\ reply.out \in Seq(PlacedMsg)
  BY <1>1 DEF Serve, Send, ReplyInv
<1>3. s2c' \in Seq(PlacedMsg)
  BY <1>2, QueueConcat DEF BotWell
<1>4. Leads(s2c', client.map, player)
  BY <1>1, <1>2, ReplyLeads DEF BotWell, ReplyOnMap
<1>5. SessionMapInv'
  BY <1>1, <1>2 DEF BotWell, SessionMapInv, ReplyOnMap
<1>. QED  BY <1>1, <1>2, <1>3, <1>4, <1>5 DEF BotWell

LEMMA AcknowledgedWell ==
    ASSUME BotWell, Acknowledged
    PROVE  BotWell'
<1>1. Arrives("ack") /\ player' = player /\ UNCHANGED stored
  BY DEF Acknowledged, disk
<1>2. PICK settled \in BOOLEAN : Serve(_handle_cache_step_ack(session, player, Head(c2s), settled))
  BY DEF Acknowledged
<1>3. /\ SessionInv(session) /\ session \in Session /\ SessionOnMap(session, player)
      /\ Head(c2s) \in ClientMsg /\ Head(c2s).type = "ack" /\ player \in Player
  BY <1>1, ArrivesWell DEF BotWell
<1>4. Head(c2s) \in [type : {"ack"}, revision : 0 .. MaxRevision, origin : Origin]
  BY <1>3 DEF ClientMsg, AckMsg, ReadyMsg, CommitMsg, ResyncMsg
<1>5. /\ ReplyInv(_handle_cache_step_ack(session, player, Head(c2s), settled))
      /\ ReplyOnMap(_handle_cache_step_ack(session, player, Head(c2s), settled), player)
  BY <1>3, <1>4, AckGood, AckOnMap
<1>. QED  BY <1>1, <1>2, <1>5, ServeWell

LEMMA CommitWell ==
    ASSUME BotWell, HandleCommit, UNCHANGED stored
    PROVE  BotWell'
<1>1. /\ Arrives("commit") /\ player' = player
      /\ Serve(_handle_window_commit(session, player, Head(c2s)))
  BY DEF HandleCommit
<1>2. /\ SessionInv(session) /\ session \in Session /\ SessionOnMap(session, player)
      /\ Head(c2s) \in ClientMsg /\ Head(c2s).type = "commit" /\ player \in Player
  BY <1>1, ArrivesWell DEF BotWell
<1>3. Head(c2s) \in [type : {"commit"}, fill_id : 0 .. MaxFillId, origin : Origin, map : Maps]
  BY <1>2 DEF ClientMsg, AckMsg, ReadyMsg, CommitMsg, ResyncMsg
<1>4. /\ ReplyInv(_handle_window_commit(session, player, Head(c2s)))
      /\ ReplyOnMap(_handle_window_commit(session, player, Head(c2s)), player)
  BY <1>2, <1>3, CommitGood, CommitOnMap
<1>. QED  BY <1>1, <1>4, ServeWell

LEMMA ResyncWell ==
    ASSUME BotWell, HandleResync, UNCHANGED stored
    PROVE  BotWell'
<1>1. /\ Arrives("resync") /\ UNCHANGED <<player, s2c>>
      /\ session' = _handle_resync_request(session, player, Head(c2s))
  BY DEF HandleResync
<1>2. /\ SessionInv(session) /\ session \in Session /\ SessionOnMap(session, player)
      /\ Head(c2s) \in ClientMsg /\ Head(c2s).type = "resync" /\ player \in Player
      /\ conn = "up" /\ c2s' \in Seq(ClientMsg) /\ UNCHANGED <<client, conn>>
  BY <1>1, ArrivesWell DEF BotWell
<1>3. Head(c2s) \in [type : {"resync"}, clean : BOOLEAN, origin : Origin,
                     fill_id : 0 .. MaxFillId, fill_origin : Origin, rows_have : SUBSET Row]
  BY <1>2 DEF ClientMsg, AckMsg, ReadyMsg, CommitMsg, ResyncMsg
<1>4. SessionInv(session')
  BY <1>1, <1>2, <1>3, ResyncGood
<1>5. SessionOnMap(session', player)
  BY <1>1, <1>2, ResyncOnMap
<1>6. SessionMapInv'
  BY <1>1, <1>2, <1>5 DEF BotWell, SessionMapInv
<1>. QED  BY <1>1, <1>2, <1>4, <1>6 DEF BotWell

LEMMA MapReadyWell ==
    ASSUME BotWell, HandleMapReady, UNCHANGED stored
    PROVE  BotWell'
<1>1. /\ Arrives("map_ready") /\ UNCHANGED <<session, s2c>>
      /\ player' \in {player, [player EXCEPT !.transition_loading = FALSE]}
  BY DEF HandleMapReady
<1>2. /\ conn = "up" /\ c2s' \in Seq(ClientMsg) /\ UNCHANGED <<client, conn>>
      /\ SessionOnMap(session, player)
  BY <1>1, ArrivesWell
<1>3. /\ player' \in Player /\ player'.map = player.map
      /\ player'.pending_map_change = player.pending_map_change
  BY <1>1 DEF BotWell, Player
<1>4. Leads(s2c, client.map, player')
  BY <1>2, <1>3, SameLeads DEF BotWell
<1>5. SessionOnMap(session, player')
  BY <1>2, <1>3, SessionOther
<1>6. SessionMapInv'
  BY <1>1, <1>2, <1>3, <1>5 DEF BotWell, SessionMapInv
<1>. QED  BY <1>1, <1>2, <1>3, <1>4, <1>6 DEF BotWell

LEMMA PlayerStateWell ==
    ASSUME BotWell, HandlePlayerState, UNCHANGED stored
    PROVE  BotWell'
<1>. DEFINE t == [session EXCEPT !.latest = TRUE]
<1>1. /\ conn = "up" /\ SessionInv(session) /\ session \in Session /\ session' = t
      /\ UNCHANGED <<player, client, conn, s2c, c2s>>
  BY DEF BotWell, HandlePlayerState, SessionInv
<1>2. /\ t.inflight_steps = session.inflight_steps /\ t.latest
      /\ t.last_map_change = session.last_map_change /\ t.world = session.world
  BY <1>1 DEF Session
<1>3. /\ t \in Session /\ t.window_origin = session.window_origin
      /\ t.next_cache_revision = session.next_cache_revision
      /\ t.fill_origin = session.fill_origin /\ t.resync_rows = session.resync_rows
      /\ t.fill_waiting_for_commit = session.fill_waiting_for_commit
  BY <1>1 DEF Session
<1>. HIDE DEF t
<1>6. SessionInv(t)
  BY <1>1, <1>2, <1>3 DEF SessionInv, FillExcludesSteps, StepsChained
<1>4. SessionOnMap(t, player)
  BY <1>1, <1>2 DEF BotWell, SessionMapInv, SessionOnMap, StepsOf, SlotOf, HasNothing
<1>5. SessionMapInv'
  BY <1>1, <1>4 DEF BotWell, SessionMapInv
<1>. QED  BY <1>1, <1>5, <1>6 DEF BotWell

LEMMA SendWorldWell ==
    ASSUME BotWell, SendWorld, UNCHANGED stored
    PROVE  BotWell'
<1>1. /\ conn = "up" /\ session.world # None /\ SessionInv(session)
      /\ UNCHANGED <<player, client, conn, c2s>>
      /\ SessionOnMap(session, player) /\ s2c \in Seq(PlacedMsg)
      /\ Leads(s2c, client.map, player)
  BY DEF BotWell, SendWorld, SessionMapInv
<1>2. player.pending_map_change = None /\ OfMap(session.world, player.map)
  BY <1>1 DEF SessionOnMap, HasNothing, SlotOf
<1>. DEFINE u == [session EXCEPT !.world = None]
            out == <<session.world>>
<1>3. session' = u /\ s2c' = s2c \o out
  BY <1>1 DEF SendWorld, next_frame, Reply, Send
<1>4. SessionInv(u) /\ out \in Seq(PlacedMsg)
  BY <1>1, FrameGood DEF ReplyInv, next_frame, Reply
<1>5. /\ u.inflight_steps = session.inflight_steps /\ u.latest = session.latest
      /\ u.last_map_change = session.last_map_change /\ u.world = None
  BY <1>1 DEF SessionInv, Session
<1>6. AllOf(out, player.map)
  BY <1>2 DEF AllOf
<1>. HIDE DEF u, out
<1>7. SessionOnMap(u, player)
  BY <1>1, <1>5 DEF SessionOnMap, StepsOf, SlotOf, HasNothing
<1>8. SessionMapInv'
  BY <1>1, <1>3, <1>7 DEF BotWell, SessionMapInv
<1>9. Leads(s2c', client.map, player)
  BY <1>1, <1>2, <1>3, <1>4, <1>6, ReplyLeads
<1>10. s2c' \in Seq(PlacedMsg)
  BY <1>1, <1>3, <1>4, QueueConcat
<1>. QED  BY <1>1, <1>3, <1>4, <1>8, <1>9, <1>10 DEF BotWell

LEMMA ServesWell ==
    ASSUME BotWell, Serves
    PROVE  BotWell'
BY CommitWell, ResyncWell, MapReadyWell, PlayerStateWell, SendWorldWell DEF Serves, disk

\* The bot is attached where AUTH finds the player on its map: nothing is under way.
LEMMA AttachesWell ==
    ASSUME BotWell, Attaches, adopted'
    PROVE  BotWell'
<1>1. /\ _attach_realtime /\ client.map = player.map /\ conn = "booted"
      /\ conn' = "up" /\ UNCHANGED <<client, s2c, c2s, stored>>
  BY DEF Attaches, _attach_realtime
<1>2. /\ player \in Player /\ player.map \in Maps /\ player.target \in Origin
      /\ s2c = << >> /\ BotGood(client) /\ stored # None
  BY <1>1 DEF BotWell, Player
<1>3. SessionMapInv'
  BY <1>1, <1>2, AttachOnMap DEF BotWell
<1>. DEFINE needs_full == ~player.bootstrapped
            resume == player.transition_loading /\ needs_full
            announce == ~player.transition_loading /\ player.map # Overworld
            known == IF resume \/ announce THEN player.map ELSE None
<1>4. /\ session' = NewSession(player.target, needs_full, known)
      /\ player' = [player EXCEPT !.bootstrapped = FALSE,
                                  !.transition_loading = resume \/ announce]
  BY <1>1 DEF _attach_realtime
<1>5. /\ needs_full \in BOOLEAN /\ (resume \/ announce) \in BOOLEAN
      /\ known \in {None} \cup Maps
  BY <1>2 DEF Player
<1>. HIDE DEF needs_full, resume, announce, known
<1>6. SessionInv(session')
  BY <1>2, <1>4, <1>5, NewSessionGood
<1>7. player' \in Player /\ player'.map = player.map
  BY <1>2, <1>4, <1>5 DEF Player
<1>8. Leads(s2c, client.map, player')
  BY <1>1, <1>2, <1>7, ToldNone DEF Leads
<1>. QED  BY <1>1, <1>2, <1>3, <1>6, <1>7, <1>8 DEF BotWell

LEMMA LeavesWell ==
    ASSUME BotWell, Leaves
    PROVE  BotWell'
<1>0. UNCHANGED stored
  BY DEF Leaves, disk
<1>1. CASE Disconnect
  <2>1. /\ conn = "up" /\ conn' = "off" /\ s2c' = << >> /\ c2s' = << >>
        /\ UNCHANGED <<player, session, client>>
    BY <1>1 DEF Disconnect
  <2>2. SessionMapInv'
    BY <2>1 DEF BotWell, SessionMapInv
  <2>. QED  BY <1>0, <2>1, <2>2 DEF BotWell
<1>2. CASE _drop_session
  <2>1. /\ session # None /\ conn # "up" /\ session' = None
        /\ UNCHANGED <<player, client, conn, s2c, c2s>>
    BY <1>2 DEF _drop_session
  <2>2. SessionMapInv'
    BY <2>1 DEF BotWell, SessionMapInv
  <2>. QED  BY <1>0, <2>1, <2>2 DEF BotWell
<1>3. ASSUME player' \in Player, player'.map = player.map, conn # "up",
             player'.pending_map_change = player.pending_map_change,
             UNCHANGED <<session, client, conn, s2c, c2s>>
      PROVE  BotWell'
  <2>1. ASSUME session # None
        PROVE  SessionOnMap(session, player')
    BY <1>3, <2>1, SessionOther DEF BotWell, SessionMapInv
  <2>2. SessionMapInv'
    BY <1>3, <2>1 DEF BotWell, SessionMapInv
  <2>. QED  BY <1>0, <1>3, <2>2 DEF BotWell
<1>4. CASE BootstrapExpires
  <2>1. /\ conn = "booted" /\ player' = [player EXCEPT !.bootstrapped = FALSE]
        /\ UNCHANGED <<session, client, conn, s2c, c2s>>
    BY <1>4 DEF BootstrapExpires
  <2>2. /\ player' \in Player /\ player'.map = player.map
        /\ player'.pending_map_change = player.pending_map_change
    BY <2>1 DEF BotWell, Player
  <2>. QED  BY <1>3, <2>1, <2>2
<1>5. CASE IdleTick
  <2>1. /\ conn = "booted" /\ player' \in GameStep("move", player)
        /\ UNCHANGED <<session, client, conn, s2c, c2s>>
    BY <1>5 DEF IdleTick
  <2>2. /\ player' \in Player /\ player'.map = player.map
        /\ player'.pending_map_change = player.pending_map_change
    <3>1. PICK o \in Origin : player' = [player EXCEPT !.target = o]
      BY <2>1 DEF GameStep, Moved
    <3>. QED  BY <3>1 DEF BotWell, Player
  <2>. QED  BY <1>3, <2>1, <2>2
<1>. QED  BY <1>1, <1>2, <1>4, <1>5 DEF Leaves

LEMMA IdentityWell ==
    ASSUME BotWell, _ensure_identity \/ Restart
    PROVE  BotWell'
<1>1. /\ conn = "off" /\ UNCHANGED <<player, session, conn, s2c, c2s>>
      /\ stored' \in {None} \cup Maps /\ client' \in {client, None}
  BY OverworldAssumption DEF _ensure_identity, Restart, BotWell, vars, disk
<1>2. SessionMapInv'
  BY <1>1 DEF BotWell, SessionMapInv
<1>. QED  BY <1>1, <1>2 DEF BotWell

LEMMA NewBotGood == BotGood(NewBot)
<1>1. Unknown \in Memory /\ InPlace(Unknown) /\ \A m : OnlyOf(Unknown, m)
  BY DEF Unknown, Memory, InPlace, OnlyOf
<1>2. [m \in Maps \cup {None} |-> Unknown] \in [Maps \cup {None} -> Memory]
  BY <1>1
<1>3. <<0, 0>> \in Origin /\ 0 \in 0 .. MaxRevision
  BY WindowAssumption, SessionAssumption DEF Origin
<1>4. NewBot \in Bot /\ NewBot.fill_id = None /\ ~NewBot.commit_pending
  BY <1>2, <1>3, OverworldAssumption DEF NewBot, Bot
<1>5. Filed(NewBot.memory)
  BY <1>1, <1>2 DEF NewBot, Filed
<1>. QED  BY <1>4, <1>5 DEF BotGood

\* The rows of a window are filed in their places.
LEMMA RowsApplied ==
    ASSUME NEW known \in Memory, InPlace(known), NEW map \in Maps, NEW ver \in Nat,
           NEW o \in Origin, NEW n \in 1 .. WINDOW_H
    PROVE  LET next == apply_rows(known, window_at(map, ver, o), o, n)
           IN  next \in Memory /\ InPlace(next)
<1>. DEFINE window == window_at(map, ver, o)
            next == apply_rows(known, window, o, n)
            Right(t, cell) == t \in {None} \cup Tile /\ (t # None => PlacedAt(t, cell[1], cell[2]))
<1>1. o[1] \in Int /\ o[2] \in Int
  BY OriginParts, WindowAssumption
<1>2. ASSUME NEW cell \in Cell
      PROVE  Right(next[cell], cell)
  <2>. DEFINE i == cell[1] - o[1]
              j == cell[2] - o[2]
  <2>1. cell[1] \in Int /\ cell[2] \in Int
    BY CellParts
  <2>2. next[cell] = IF i \in Col /\ j \in 0 .. n - 1 THEN window[j][i] ELSE known[cell]
    BY DEF apply_rows
  <2>3. Right(known[cell], cell)
    BY DEF Memory, InPlace
  <2>4. CASE i \in Col /\ j \in 0 .. n - 1
    <3>1. j \in Row
      BY <2>4, WindowAssumption DEF Row
    <3>2. window[j][i] = TileAt(map, ver, o[1] + i, o[2] + j)
      BY <2>4, <3>1 DEF window_at, window_row_tiles
    <3>3. o[1] + i = cell[1] /\ o[2] + j = cell[2]
      BY <1>1, <2>1, Difference
    <3>. QED  BY <2>1, <2>2, <2>4, <3>2, <3>3 DEF TileAt, Tile, PlacedAt
  <2>. QED  BY <2>2, <2>3, <2>4
<1>3. next = [cell \in Cell |-> next[cell]]
  BY DEF apply_rows
<1>. HIDE DEF next
<1>4. next \in Memory
  BY <1>2, <1>3 DEF Memory
<1>. QED  BY <1>2, <1>4 DEF InPlace, next

LEMMA BootstrapWell ==
    ASSUME BotWell, _bootstrap_terrain
    PROVE  BotWell'
<1>. DEFINE bot == IF client = None THEN NewBot ELSE client
            rows(n) == apply_rows(bot.memory[None], window_at(player.map, player.ver, player.target),
                                  player.target, n)
<1>1. PICK n \in 1 .. WINDOW_H :
        /\ client' = [bot EXCEPT
                        !.memory[None] = apply_rows(@, window_at(player.map, player.ver, player.target),
                                                    player.target, n),
                        !.boot_origin = IF n = WINDOW_H THEN player.target ELSE @,
                        !.playing = FALSE]
        /\ conn' = IF n = WINDOW_H THEN "booted" ELSE "off"
  BY DEF _bootstrap_terrain
<1>2. /\ conn = "off" /\ stored # None /\ UNCHANGED <<session, s2c, c2s, stored>>
      /\ player' = [player EXCEPT !.bootstrapped = TRUE]
  BY DEF _bootstrap_terrain, disk
<1>3. player \in Player /\ player.map \in Maps /\ player.ver \in Nat /\ player.target \in Origin
  BY DEF BotWell, Player
<1>4. BotGood(bot)
  BY NewBotGood DEF BotWell
<1>. HIDE DEF bot
<1>5. bot \in Bot /\ Filed(bot.memory)
  BY <1>4 DEF BotGood
<1>6. bot.memory[None] \in Memory /\ InPlace(bot.memory[None])
  BY <1>5 DEF Filed
<1>7. rows(n) \in Memory /\ InPlace(rows(n))
  BY <1>3, <1>6, RowsApplied
<1>. DEFINE memory == [bot.memory EXCEPT ![None] = rows(n)]
            origin == IF n = WINDOW_H THEN player.target ELSE bot.boot_origin
<1>8. client' = [bot EXCEPT !.memory = memory, !.boot_origin = origin, !.playing = FALSE]
  BY <1>1, <1>5 DEF Bot
<1>9. origin \in Origin
  BY <1>3, <1>5 DEF Bot
<1>. HIDE DEF rows, origin
<1>10. /\ memory \in [Maps \cup {None} -> Memory] /\ memory[None] = rows(n)
       /\ \A m \in Maps : memory[m] = bot.memory[m]
  BY <1>5, <1>7, SessionAssumption DEF Filed
<1>. HIDE DEF memory
<1>11. Filed(memory)
  BY <1>5, <1>7, <1>10 DEF Filed
<1>12. /\ client' \in Bot /\ client'.memory = memory /\ client'.fill_id = bot.fill_id
       /\ client'.fill_origin = bot.fill_origin /\ client'.commit_pending = bot.commit_pending
  BY <1>5, <1>8, <1>9, <1>10 DEF Bot
<1>13. BotGood(client')
  BY <1>4, <1>11, <1>12 DEF BotGood
<1>14. /\ player' \in Player /\ player'.map = player.map
       /\ player'.pending_map_change = player.pending_map_change
  BY <1>2, <1>3 DEF Player
<1>15. conn' \in {"off", "booted"}
  BY <1>1
<1>16. session # None => SessionOnMap(session, player')
  BY <1>14, SessionOther DEF BotWell, SessionMapInv
<1>17. SessionMapInv'
  BY <1>2, <1>14, <1>15, <1>16 DEF BotWell, SessionMapInv
<1>. QED  BY <1>2, <1>13, <1>14, <1>15, <1>17 DEF BotWell

\* What the bootstrap brought is filed under the bot's map, if it is of that map.
LEMMA AdoptedFiled ==
    ASSUME NEW memory, Filed(memory), NEW map \in Maps, OnlyOf(memory[None], map)
    PROVE  Filed(_adopt_bootstrap(memory, map))
<1>. DEFINE known == [cell \in Cell |-> IF memory[None][cell] # None THEN memory[None][cell]
                                        ELSE memory[map][cell]]
            next == [memory EXCEPT ![map] = known, ![None] = Unknown]
<1>1. /\ memory \in [Maps \cup {None} -> Memory] /\ memory[None] \in Memory /\ memory[map] \in Memory
      /\ InPlace(memory[None]) /\ InPlace(memory[map]) /\ OnlyOf(memory[map], map)
  BY DEF Filed
<1>2. known \in Memory
  BY <1>1 DEF Memory
<1>3. InPlace(known)
  BY <1>1 DEF InPlace
<1>4. OnlyOf(known, map)
  BY <1>1 DEF OnlyOf
<1>5. Unknown \in Memory /\ InPlace(Unknown)
  BY DEF Unknown, Memory, InPlace
<1>6. map # None
  BY SessionAssumption
<1>7. _adopt_bootstrap(memory, map) = next
  BY <1>1 DEF _adopt_bootstrap
<1>. HIDE DEF known
<1>8. /\ next \in [Maps \cup {None} -> Memory] /\ next[map] = known /\ next[None] = Unknown
      /\ \A m \in Maps : m # map => next[m] = memory[m]
  <2>1. \A m \in Maps : m # None
    BY SessionAssumption
  <2>. QED  BY <1>1, <1>2, <1>5, <1>6, <2>1
<1>. HIDE DEF next
<1>9. ASSUME NEW m \in Maps \cup {None}
      PROVE  InPlace(next[m]) /\ (m \in Maps => OnlyOf(next[m], m))
  BY <1>3, <1>4, <1>5, <1>8, SessionAssumption DEF Filed
<1>. QED  BY <1>7, <1>8, <1>9 DEF Filed

LEMMA PlayWell ==
    ASSUME BotWell, _play_realtime, adopted'
    PROVE  BotWell'
<1>1. /\ conn = "booted" /\ UNCHANGED <<player, session, conn, s2c, c2s, stored>>
      /\ client' = [_reset_session_state(client) EXCEPT !.memory = _adopt_bootstrap(@, stored)]
      /\ \A cell \in Cell : client.memory[None][cell] # None => client.memory[None][cell].map = stored
  BY DEF _play_realtime
<1>2. BotGood(client) /\ client \in Bot /\ Filed(client.memory) /\ stored \in Maps
  BY <1>1 DEF BotWell, BotGood
<1>3. OnlyOf(client.memory[None], stored)
  BY <1>1 DEF OnlyOf
<1>. DEFINE memory == _adopt_bootstrap(client.memory, stored)
<1>4. Filed(memory)
  BY <1>2, <1>3, AdoptedFiled
<1>5. NewBot \in Bot /\ NewBot.fill_id = None /\ ~NewBot.commit_pending
  BY NewBotGood DEF BotGood, NewBot
<1>6. client' = [NewBot EXCEPT !.memory = memory, !.boot_origin = client.boot_origin,
                               !.map = stored, !.origin = client.boot_origin, !.playing = TRUE]
  BY <1>1, <1>5 DEF _reset_session_state, Bot
<1>. HIDE DEF memory
<1>7. memory \in [Maps \cup {None} -> Memory] /\ client.boot_origin \in Origin
  BY <1>2, <1>4 DEF Filed, Bot
<1>8. /\ client' \in Bot /\ client'.memory = memory
      /\ client'.fill_id = None /\ ~client'.commit_pending
  BY <1>2, <1>5, <1>6, <1>7 DEF Bot
<1>9. BotGood(client')
  BY <1>4, <1>8 DEF BotGood
<1>10. SessionMapInv'
  BY <1>1 DEF BotWell, SessionMapInv
<1>. QED  BY <1>1, <1>9, <1>10 DEF BotWell

LEMMA ReceivesWell ==
    ASSUME BotWell, Receives
    PROVE  BotWell'
<1>. DEFINE answer == _handle_frame(client, Head(s2c))
<1>1. /\ s2c # << >> /\ s2c' = Tail(s2c) /\ client' = answer.client /\ c2s' = c2s \o answer.out
      /\ UNCHANGED <<player, session, conn>>
      /\ stored' = IF client' # client THEN client'.map ELSE stored
  BY DEF Receives, ClientTurn, update_map
<1>2. /\ conn = "up" /\ SessionInv(session) /\ BotGood(client) /\ stored \in Maps
      /\ s2c \in Seq(PlacedMsg) /\ c2s \in Seq(ClientMsg) /\ Leads(s2c, client.map, player)
  BY <1>1 DEF BotWell
<1>3. Head(s2c) \in PlacedMsg /\ Tail(s2c) \in Seq(PlacedMsg)
  BY <1>1, <1>2, QueueParts
<1>4. PICK n \in Maps :
        Told(s2c, client.map, n) /\ (player.pending_map_change = None => n = player.map)
  BY <1>2 DEF Leads
<1>5. PICK k \in Maps :
        /\ OfMap(Head(s2c), k) /\ (Head(s2c).type # "map_change" => k = client.map)
        /\ Told(Tail(s2c), k, n)
  BY <1>1, <1>2, <1>4, ToldTail
<1>6. Turn(answer, k)
  BY <1>2, <1>3, <1>5, HandledTurn
<1>. HIDE DEF answer
<1>7. BotGood(client') /\ client'.map = k /\ c2s' \in Seq(ClientMsg)
  BY <1>1, <1>2, <1>6, QueueConcat DEF Turn
<1>8. Leads(s2c', client'.map, player)
  BY <1>1, <1>4, <1>5, <1>7 DEF Leads
<1>9. stored' \in Maps /\ stored' # None
  BY <1>1, <1>2, <1>7, SessionAssumption
<1>10. SessionMapInv'
  BY <1>1 DEF BotWell, SessionMapInv
<1>. QED  BY <1>1, <1>2, <1>3, <1>7, <1>8, <1>9, <1>10 DEF BotWell

LEMMA ServiceWell ==
    ASSUME BotWell, _service_commit \/ _service_nack
    PROVE  BotWell'
<1>. DEFINE gaveUp == [client EXCEPT !.fill_id = None, !.commit_pending = FALSE]
            again == client.retries + 1
            asked == [client EXCEPT !.commit_due = FALSE, !.retries = again]
<1>1. /\ conn = "up" /\ BotGood(client) /\ client \in Bot /\ c2s \in Seq(ClientMsg)
      /\ again \in Nat
  BY DEF _service_commit, _service_nack, BotWell, BotGood, Bot
<1>2. /\ gaveUp \in Bot /\ gaveUp.memory = client.memory /\ gaveUp.map = client.map
      /\ gaveUp.fill_id = None /\ ~gaveUp.commit_pending
  BY <1>1 DEF Bot
<1>. HIDE DEF again
<1>3. /\ asked \in Bot /\ asked.memory = client.memory /\ asked.map = client.map
      /\ asked.fill_id = client.fill_id /\ asked.fill_origin = client.fill_origin
      /\ asked.commit_pending = client.commit_pending
  BY <1>1 DEF Bot
<1>. HIDE DEF gaveUp, asked
<1>4. BotGood(gaveUp) /\ BotGood(asked)
  BY <1>1, <1>2, <1>3 DEF BotGood
<1>5. ASSUME NEW answer, Turn(answer, client.map), ClientTurn(answer), UNCHANGED <<s2c, stored>>
      PROVE  BotWell'
  <2>1. /\ client' = answer.client /\ c2s' = c2s \o answer.out /\ UNCHANGED <<player, session, conn>>
        /\ BotGood(answer.client) /\ answer.client.map = client.map /\ answer.out \in Seq(ClientMsg)
    BY <1>5 DEF ClientTurn, Turn
  <2>2. c2s' \in Seq(ClientMsg)
    BY <1>1, <2>1, QueueConcat
  <2>3. SessionMapInv'
    BY <2>1 DEF BotWell, SessionMapInv
  <2>. QED  BY <1>1, <1>5, <2>1, <2>2, <2>3 DEF BotWell
<1>6. CASE _service_commit
  <2>1. Turn(Answer(gaveUp, <<CleanFill>>), client.map)
    BY <1>1, <1>2, <1>4, BotPackets DEF Turn, Answer
  <2>2. Turn(Answer(asked, <<BotCommit(client)>>), client.map)
    BY <1>1, <1>3, <1>4, <1>6, BotPackets DEF Turn, Answer, _service_commit
  <2>3. /\ UNCHANGED <<s2c, stored>>
        /\ \/ ClientTurn(Answer(gaveUp, <<CleanFill>>))
           \/ ClientTurn(Answer(asked, <<BotCommit(client)>>))
    BY <1>6 DEF _service_commit, disk, gaveUp, asked, again
  <2>. QED  BY <1>5, <2>1, <2>2, <2>3
<1>7. CASE _service_nack
  <2>1. Turn(Answer(client, <<BotNack(client)>>), client.map)
    BY <1>1, <1>7, BotPackets DEF Turn, Answer, _service_nack
  <2>2. UNCHANGED <<s2c, stored>> /\ ClientTurn(Answer(client, <<BotNack(client)>>))
    BY <1>7 DEF _service_nack, disk
  <2>. QED  BY <1>5, <2>1, <2>2
<1>. QED  BY <1>6, <1>7

LEMMA InitWell == BotInit => BotInv
<1>. SUFFICES ASSUME BotInit
              PROVE  BotWell
  BY DEF BotInv
<1>1. PICK m \in Maps : player = NewPlayer(m, Spawn[m])
  BY DEF BotInit, Init
<1>2. /\ session = None /\ client = None /\ conn = "off" /\ s2c = << >> /\ c2s = << >>
      /\ stored = None \/ stored = player.map
  BY DEF BotInit, Init
<1>3. player \in Player /\ player.map \in Maps /\ player.pending_map_change = None
  BY <1>1, SyncAssumption DEF NewPlayer, Player
<1>4. SessionMapInv
  BY <1>2, <1>3 DEF SessionMapInv
<1>. QED  BY <1>2, <1>3, <1>4 DEF BotWell

LEMMA NextWell == BotInv /\ [BotNext]_all => BotInv'
<1>. SUFFICES ASSUME BotInv, [BotNext]_all, adopted'
              PROVE  BotWell'
  BY DEF BotInv
<1>1. adopted
  BY DEF BotNext, ServerTick, Acknowledged, Serves, Attaches, Leaves, _ensure_identity,
         _bootstrap_terrain, _play_realtime, Restart, Receives, _service_commit, _service_nack,
         all, disk
<1>2. BotWell
  BY <1>1 DEF BotInv
<1>3. CASE BotNext
  BY <1>2, <1>3, ServerTickWell, AcknowledgedWell, ServesWell, AttachesWell, LeavesWell,
     IdentityWell, BootstrapWell, PlayWell, ReceivesWell, ServiceWell DEF BotNext
<1>4. CASE UNCHANGED all
  BY <1>2, <1>4 DEF all, vars, disk, BotWell, SessionMapInv
<1>. QED  BY <1>3, <1>4

\* A simulated player that left off where its store says, and was found there, keeps what
\* it was sent on the map it was sent of, however its sessions end and its fills are
\* abandoned (ai_player.py, MapMemory and the handlers that write it).
THEOREM BotInvariance == BotSpec => []BotInv
BY InitWell, NextWell, PTL DEF BotSpec

\* Each tile it remembers is the tile of its place, on its map.
THEOREM BotRemembers == BotSpec => []KnownTerrain
<1>1. BotInv => KnownTerrain
  BY DEF BotInv, BotWell, BotGood, Filed, InPlace, OnlyOf, KnownTerrain
<1>. QED  BY <1>1, BotInvariance, PTL

=============================================================================
