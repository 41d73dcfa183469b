----------------------------- MODULE CacheSync ------------------------------
(***************************************************************************)
(* The terrain cache protocol of one player: the game moves the player,    *)
(* the hybrid server's session brings the client's window after him, the   *)
(* client follows, and the serial link between them loses packets.         *)
(*                                                                         *)
(* The link is one FIFO a direction: TCP keeps the order up to the         *)
(* FujiNet, and the serial line behind it, which has no flow control,      *)
(* drops frames whose CRC fails.  s2c stands for the session's reliable    *)
(* output queue and the line together; a WORLD_STATE, which waits in a     *)
(* slot until that queue is empty, joins it when it leaves for the line.   *)
(***************************************************************************)
EXTENDS CacheClient

CONSTANTS
    Spawn,             \* Spawn[m]: the window origin of the portal into map m
    MaxLink,           \* bound: packets in flight (server replies exceed it)
    Budgets,           \* bounds: how often each of Bounds may happen, one
                       \* function for each scenario
    PatientTimers      \* TRUE: retry timers outlast the packets in flight

\* What is bounded: moves of the player, map changes, story changes of the
\* terrain, respawns between HELLO and AUTH, packets the link loses,
\* connections after the first, impatient timers that run out, and, at any one
\* time, the WORLD_STATEs in flight.
Bounds ==
    {"move", "transfer", "retell", "kill", "drop", "reconnect", "timer", "world"}

ASSUME SyncAssumption ==
    /\ Spawn \in [Maps -> Origin]
    /\ MaxLink \in Nat
    /\ MaxLink > ResyncRowBudget        \* room for what one tick sends
    /\ MaxLink >= CACHE_STEP_PIPELINE
    /\ \A b \in Budgets : b \in [Bounds -> Nat]
    /\ PatientTimers \in BOOLEAN

VARIABLES
    player,    \* the game's PlayerState, what of it decides the terrain
    session,   \* the ClientSession that owns the player's token, or None
    client,    \* the client program, or None before its first bootstrap
    conn,      \* the client's connection: "off", "booted" (the bootstrap is
               \* done, AUTH is not) or "up" (session is its session)
    s2c, c2s,  \* packets in flight
    budget,    \* what is left of each bound
    seen       \* which of Bounds have happened

IsWorld(pkt) == pkt.type = "world"
Worlds == Len(SelectSeq(s2c, IsWorld))
Queued == Len(s2c) - Worlds

counters == <<budget, seen>>
vars == <<player, session, client, conn, s2c, c2s, counters>>

-----------------------------------------------------------------------------
\* The events happen once more, within their bounds.
Spend(events) ==
    /\ \A b \in events : budget[b] > 0
    /\ budget' = [b \in Bounds |->
                    IF b \in events THEN budget[b] - 1 ELSE budget[b]]
    /\ seen' = seen \cup events

NewPlayer(map, o) ==
    [target |-> o,                     \* game.window_origin(token)
     map |-> map,
     ver |-> 0,
     transition_loading |-> FALSE,
     pending_map_change |-> None,
     pending_terrain_resync |-> FALSE,
     bootstrapped |-> FALSE]           \* token in server.bootstrapped_tokens

\* A player is restored from his record on any map, never mid-transition.
Init ==
    /\ \E m \in Maps : player = NewPlayer(m, Spawn[m])
    /\ session = None
    /\ client = None
    /\ conn = "off"
    /\ s2c = << >>
    /\ c2s = << >>
    /\ budget \in Budgets
    /\ seen = {}

-----------------------------------------------------------------------------
(* The game's half of a tick: what apply_player_state and finish_tick may   *)
(* do to the player.  While he is loading a map, apply_player_state holds   *)
(* him at the spawn.                                                        *)

\* Walking, or a respawn at a grave of the same map.
Moved(p) ==
    IF p.transition_loading THEN {}
    ELSE {[p EXCEPT !.target = o] : o \in Origin \ {p.target}}

\* Stepping on a portal pauses play until MAP_READY.
_apply_transition_if_present(p) ==
    IF p.transition_loading THEN {}
    ELSE {[p EXCEPT !.map = m, !.target = Spawn[m], !.pending_map_change = m,
                    !.transition_loading = TRUE] : m \in Maps \ {p.map}}

\* complete_bridge_repair and its like: the tiles this player sees change.
complete_bridge_repair(p) ==
    {[p EXCEPT !.ver = @ + 1, !.pending_terrain_resync = TRUE]}

GameSteps == {"stay", "move", "transfer", "retell"}

GameStep(step, p) ==
    CASE step = "stay" -> {p}
      [] step = "move" -> Moved(p)
      [] step = "transfer" -> _apply_transition_if_present(p)
      [] step = "retell" -> complete_bridge_repair(p)

-----------------------------------------------------------------------------
(* Ticks.                                                                   *)

Timer == [resend : BOOLEAN, commit : BOOLEAN, step : BOOLEAN]
NoTimer == [resend |-> FALSE, commit |-> FALSE, step |-> FALSE]

\* Patient timers outlast everything that is still under way; the others may
\* run out at any time, as often as the budget has it.  No timer waits for a
\* WORLD_STATE.
Underway == \/ Queued # 0
            \/ c2s # << >>
            \/ conn = "up" /\ client.commit_pending /\ client.commit_due
MayExpire == PatientTimers => ~Underway
Expiry == IF PatientTimers THEN {} ELSE {"timer"}

\* Bound: where no WORLD_STATE leaves, what it would have said is of no matter.
Telling(s) == budget["world"] > 0 \/ s.world.tile = Grass

\* What a session sends reaches the link only while its client is there.
Send(out) == s2c' = IF conn = "up" THEN s2c \o out ELSE s2c

\* _tick for this session: the game steps, then the session transmits,
\* unless its client has not sent a PLAYER_STATE yet.
Tick(step, timers) ==
    /\ session # None
    /\ timers = NoTimer \/ MayExpire
    /\ Spend(({step} \ {"stay"})
                \cup (IF timers = NoTimer THEN {} ELSE Expiry))
    /\ \E p \in GameStep(step, player) :
        IF session.latest
        THEN \E t \in _send_tick_packets(session, p, timers) :
                /\ Queued + Len(t.out) <= MaxLink
                /\ Telling(t.session)
                /\ session' = t.session
                /\ player' = t.player
                /\ Send(t.out)
        ELSE player' = p /\ UNCHANGED <<session, s2c>>
    /\ UNCHANGED <<client, conn, c2s>>

\* The latest WORLD_STATE leaves for the client; or it never does, and a newer
\* one takes its place.
SendWorld ==
    /\ conn = "up" /\ session.world # None /\ Worlds < budget["world"]
    /\ session' = next_frame(session).session
    /\ Send(next_frame(session).out)
    /\ UNCHANGED <<player, client, conn, c2s, counters>>

\* Between HELLO and AUTH the player stands in the world without a session
\* and can be killed, which moves him.
IdleTick ==
    /\ session = None /\ conn = "booted"
    /\ Spend({"kill"})
    /\ player' \in GameStep("move", player)
    /\ UNCHANGED <<session, client, conn, s2c, c2s>>

-----------------------------------------------------------------------------
(* Packets from the client.                                                 *)

Serve(reply) ==
    /\ session' = reply.session
    /\ Send(reply.out)

\* The head of c2s is delivered to the session.
Arrives(type) ==
    /\ c2s # << >>
    /\ Head(c2s).type = type
    /\ c2s' = Tail(c2s)
    /\ UNCHANGED <<client, conn>>

HandleAck ==
    /\ Arrives("ack")
    /\ \E settled \in BOOLEAN :
        /\ settled => Queued + CACHE_STEP_PIPELINE <= MaxLink
        /\ Spend(IF settled THEN Expiry ELSE {})
        /\ Serve(_handle_cache_step_ack(session, player, Head(c2s), settled))
    /\ UNCHANGED player

HandleCommit ==
    /\ Arrives("commit")
    /\ Serve(_handle_window_commit(session, player, Head(c2s)))
    /\ UNCHANGED <<player, counters>>

HandleResync ==
    /\ Arrives("resync")
    /\ session' = _handle_resync_request(session, player, Head(c2s))
    /\ UNCHANGED <<player, s2c, counters>>

\* Faulty: any MAP_READY ends the pause.
HandleAnyMapReady ==
    /\ Arrives("map_ready")
    /\ player' = [player EXCEPT !.transition_loading = FALSE]
    /\ UNCHANGED <<session, s2c, counters>>

\* MAP_READY for the player's map ends the pause; any other is ignored.
HandleMapReady ==
    /\ Arrives("map_ready")
    /\ player' = IF Head(c2s).map = player.map
                 THEN [player EXCEPT !.transition_loading = FALSE]
                 ELSE player
    /\ UNCHANGED <<session, s2c, counters>>

\* The first PLAYER_STATE; later ones change nothing here.
HandlePlayerState ==
    /\ conn = "up" /\ ~session.latest
    /\ session' = [session EXCEPT !.latest = TRUE]
    /\ UNCHANGED <<player, client, conn, s2c, c2s, counters>>

-----------------------------------------------------------------------------
(* The client.                                                              *)

ClientTurn(answer) ==
    /\ Len(c2s) + Len(answer.out) <= MaxLink
    /\ client' = answer.client
    /\ c2s' = c2s \o answer.out
    /\ UNCHANGED <<player, session, conn>>

ClientReceive ==
    /\ s2c # << >>
    /\ ClientTurn(realtime_pump(client, Head(s2c)))
    /\ s2c' = Tail(s2c)
    /\ UNCHANGED counters

\* service_cache_retries: the commit until it is acknowledged ...
ClientCommits ==
    /\ conn = "up" /\ client.commit_pending
    /\ client.commit_due \/ MayExpire
    /\ Spend(IF client.commit_due THEN {} ELSE Expiry)
    /\ ClientTurn(SendCommit(client))
    /\ UNCHANGED s2c

\* ... and the resync request until edges or a whole fill arrive.
ClientResyncs ==
    /\ conn = "up" /\ client.resync_pending /\ MayExpire
    /\ Spend(Expiry)
    /\ ClientTurn(send_resync_request(client))
    /\ UNCHANGED s2c

-----------------------------------------------------------------------------
(* The link and the connection.                                             *)

DropToClient ==
    /\ s2c # << >> /\ s2c' = Tail(s2c)
    /\ Spend({"drop"})
    /\ UNCHANGED <<player, session, client, conn, c2s>>

DropToServer ==
    /\ c2s # << >> /\ c2s' = Tail(c2s)
    /\ Spend({"drop"})
    /\ UNCHANGED <<player, session, client, conn, s2c>>

\* The client goes away; the server may not notice for a while.
Disconnect ==
    /\ conn = "up"
    /\ Spend({"reconnect"})
    /\ conn' = "off" /\ s2c' = << >> /\ c2s' = << >>
    /\ UNCHANGED <<player, session, client>>

\* The server notices (closed socket, idle timeout) and parks the player.
_drop_session ==
    /\ session # None /\ conn # "up"
    /\ session' = None
    /\ UNCHANGED <<player, client, conn, s2c, c2s, counters>>

\* HELLO, WELCOME and the WINDOW chunks: the client boots on the window of
\* this moment.
_process_bootstrap ==
    /\ conn = "off"
    /\ conn' = "booted"
    /\ client' = BootedClient(player.map, player.ver, player.target)
    /\ player' = [player EXCEPT !.bootstrapped = TRUE]
    /\ UNCHANGED <<session, s2c, c2s, counters>>

\* AUTH came later than BOOTSTRAP_TOKEN_TTL after the bootstrap.
BootstrapExpires ==
    /\ conn = "booted" /\ player.bootstrapped
    /\ player' = [player EXCEPT !.bootstrapped = FALSE]
    /\ UNCHANGED <<session, client, conn, s2c, c2s, counters>>

\* AUTH: a new session supersedes whatever session holds the token.
_attach_realtime ==
    LET needs_full == ~player.bootstrapped
        resume == player.transition_loading /\ needs_full
        announce == ~player.transition_loading /\ player.map # Overworld
    IN  /\ conn = "booted"
        /\ conn' = "up"
        /\ session' = NewSession(player.target, needs_full,
                          IF resume \/ announce THEN player.map ELSE None)
        /\ player' = [player EXCEPT !.bootstrapped = FALSE,
                                    !.transition_loading = resume \/ announce]
        /\ UNCHANGED <<client, s2c, c2s, counters>>

-----------------------------------------------------------------------------
Server == HandleAck \/ HandleCommit \/ HandleResync \/ HandleMapReady
              \/ HandlePlayerState
Client == ClientReceive \/ ClientCommits \/ ClientResyncs
Link == DropToClient \/ DropToServer
Connection == Disconnect \/ _drop_session \/ _process_bootstrap
                  \/ BootstrapExpires \/ _attach_realtime

Next ==
    \/ \E step \in GameSteps, timers \in Timer : Tick(step, timers)
    \/ SendWorld
    \/ IdleTick
    \/ Server
    \/ Client
    \/ Link
    \/ Connection

Spec == Init /\ [][Next]_vars

\* The tick loop never stops, frames keep coming, sockets are served: each
\* process gets its turn, and each timer that keeps running runs out.
Fairness ==
    /\ WF_vars(Tick("stay", NoTimer))
    /\ \A t \in {"resend", "commit", "step"} :
        SF_vars(Tick("stay", [NoTimer EXCEPT ![t] = TRUE]))
    /\ WF_vars(Server)
    /\ WF_vars(ClientReceive)
    /\ SF_vars(ClientCommits)
    /\ SF_vars(ClientResyncs)
    /\ WF_vars(_process_bootstrap)
    /\ WF_vars(_attach_realtime)

FairSpec == Spec /\ Fairness

-----------------------------------------------------------------------------
(* Types.                                                                   *)

CountersOK == budget \in [Bounds -> Nat] /\ seen \subseteq Bounds

\* Every variable has its type.
TypeOK ==
    /\ player \in Player
    /\ session \in {None} \cup Session
    /\ client \in {None} \cup ClientState
    /\ conn \in {"off", "booted", "up"}
    /\ s2c \in Seq(ServerMsg)
    /\ c2s \in Seq(ClientMsg)
    /\ CountersOK

-----------------------------------------------------------------------------
(* Safety.                                                                  *)

\* Whatever was lost, repeated or abandoned on the way, every cell of the
\* client's active window shows the tile of its own absolute position: no
\* strip is ever slid in at the wrong side, twice, or one tile off
\* (bootstrap_apply_terrain_edge, bootstrap_fill_activate).  Only the corner of
\* a map, (0, 0), may show GRASS instead (apply_world_state).
TerrainPlaced == client # None => CellsPlaced(client)

\* A session uses one mechanism at a time: while a fill is open no step is in
\* flight, so no ACK can move window_origin under the fill; and a fill is
\* open exactly while its rows are being sent or its commit is awaited.
OneMechanism == session # None => FillExcludesSteps(session)

\* The steps in flight chain from window_origin one tile at a time under
\* consecutive revisions, never more than the pipeline holds: a client that
\* applies them in order can acknowledge any prefix.
PipelineChained == session # None => StepsChained(session)

\* The inductive invariant behind the invariants above (CacheSyncProofs): it
\* adds what the packets on the way carry, and that a connection that is up
\* has both its ends.
SystemInv ==
    /\ player \in Player
    /\ session = None \/ SessionInv(session)
    /\ client = None \/ ClientInv(client)
    /\ conn \in {"off", "booted", "up"}
    /\ s2c \in Seq(PlacedMsg)
    /\ c2s \in Seq(ClientMsg)
    /\ CountersOK
    /\ conn = "booted" => ClientInv(client)
    /\ conn = "up" => SessionInv(session) /\ ClientInv(client)
    /\ conn # "up" => s2c = << >> /\ c2s = << >>

\* Nothing is under way or about to be retried on either side.
Silence ==
    /\ conn = "up" /\ s2c = << >> /\ c2s = << >>
    /\ session.latest /\ Idle(session) /\ session.inflight_steps = << >>
    /\ ~NeedsFill(session, player)
    /\ ~player.transition_loading /\ ~client.map_loading
    /\ ~client.resync_pending /\ ~client.commit_pending
    /\ ~client.fill.active

\* When both sides are done, the session knows where the client's window is.
Agreement == Silence => client.origin = session.window_origin

\* When both sides are done, the client shows the terrain of the player's
\* story as it is now, the corner of the map excepted.
Fresh ==
    Silence => \A r \in Row, k \in Col :
                  client.terrain[r][k] # Grass => client.terrain[r][k].ver = player.ver

\* Once play runs, the client knows which map it shows.
UnpausedMapKnown ==
    (conn = "up" /\ ~player.transition_loading
        /\ player.pending_map_change = None)
    => client.current_map_id = player.map

\* The player's first connection of this run of the server (how the next ones
\* may go wrong: ResumeUnready).
FirstConnection == "reconnect" \notin seen

\* Every cell the client shows is a tile of the map, but for GRASS at its corner.
ShowsMap(map) ==
    \A r \in Row, k \in Col :
        client.terrain[r][k] # Grass => client.terrain[r][k].map = map

\* Nothing is lost, nor does the player move between HELLO and AUTH.
Lossless == FirstConnection /\ seen \cap {"drop", "kill"} = {}

\* While nothing is lost, Agreement and Fresh hold whatever the timers do.
SilentlyAgreed == Lossless => Agreement /\ Fresh

\* In the first connection, whatever is lost, the client knows the map once play
\* runs; and while both sides play on the same map, every cell the client shows is
\* a tile of that map, but for GRASS at its corner.
FirstMapShown ==
    FirstConnection =>
        /\ UnpausedMapKnown
        /\ (conn = "up" /\ ~player.transition_loading
             /\ ~client.map_loading /\ client.current_map_id = player.map)
           => ShowsMap(player.map)

-----------------------------------------------------------------------------
(* Action properties.                                                       *)

\* Nothing is taken for done before it is: in the first connection MAP_READY ends
\* the pause only when the client shows the player's map, and in any connection a
\* fill is closed only when the client shows that whole window.
NothingEndsEarly ==
    [][/\ FirstConnection /\ HandleMapReady /\ player' # player =>
            /\ client.current_map_id = player.map
            /\ ShowsMap(player.map)
       /\ HandleCommit /\ session'.fill_origin # session.fill_origin =>
            /\ client.origin = session'.window_origin
            /\ client.current_map_id = player.map]_vars

-----------------------------------------------------------------------------
(* Liveness.                                                                *)

Converged ==
    /\ session # None /\ conn = "up"
    /\ client.origin = player.target
    /\ session.window_origin = player.target
    /\ \A r \in Row, k \in Col :
         \/ client.terrain[r][k] = window_at(player.map, player.ver, player.target)[r][k]
         \/ client.terrain[r][k] = Grass /\ <<client.origin[1] + k, client.origin[2] + r>> = <<0, 0>>

\* Once the player stands still and the link has lost its last packet, the
\* client ends up showing the terrain around him, but for GRASS at the corner of
\* the map, and the server knows it.
EventuallyConverged == <>[]Converged

\* A player held at a portal is released.
TransitionEnds == player.transition_loading ~> ~player.transition_loading
=============================================================================
