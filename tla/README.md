# Fuji Realm: TLA+ models and proofs

Fuji Realm is a small multiplayer game for eight- and sixteen-bit machines
(Lynx, Amiga, Palm, Atari, CoCo, Intellivision) that reach a Python server
through a FujiNet: a slow serial line that loses frames. This directory holds
TLA+ models of the parts of the server, and of the client that faces it, in
which the order of events matters; the TLC runs that check them on small
instances; and proofs that TLAPS checks for every instance.

Paths below are those of the repository, read from its root as `src/...`.
`hybrid` is `src/server/hybrid_server.py`, `game` is `src/server/game.py`,
`login` is `src/server/login_server.py`, `bootstrap.c` and `main.c` are those of
`src/lynx-client/src`.

    tlc -config Safety.cfg MCCacheSync.tla     one run
    tlapm CacheSyncProofs.tla                  one module's proofs

## 1. The system

### Processes and how they talk

| Process | State it keeps | Talks to |
|---|---|---|
| game server (`hybrid`, `game`): one thread around a selector, which ticks the game | sessions (one per connection), the registry `realtime_by_token`, `bootstrapped_tokens`, players, enemies, maps, encounters | clients over TCP; `sessions.json`; the lobby over HTTP |
| login server (`login`): one thread, a connection at a time is served to the end of its request | nothing between requests | clients over TCP; `sessions.json` |
| client (six ports; `bootstrap.c` and `main.c` are shared by Lynx, Amiga and Palm) | the window of terrain it shows, a staged fill, what it must acknowledge, predicted movement | the game server through FujiNet |
| `tools/reset_old_sessions.py` | a plan made from the file | `sessions.json` |

A client logs in (REGISTER, LOGIN, RENAME), gets a token, opens a game
connection, says HELLO, receives WELCOME and its first WINDOW, says AUTH with the
token, and then plays: PLAYER_STATE up; terrain, world state, HUD and messages
down.

### Components

| Component | State | Operations | What is hard | What makes it correct |
|---|---|---|---|---|
| **Terrain cache, server** (`hybrid:1228-1680`) | per session: `window_origin`, steps in flight, `fill_origin`, rows left, revision and fill counters | extend and retransmit the step pipeline, ACK, open and send a fill, commit, resync | loss, repeats, crossing retries, rewinding, counters that wrap | window and server agree once quiet; one mechanism at a time; a transaction closes only on what the client shows |
| **Terrain cache, client** (`bootstrap.c`, `main.c:1151-1252`) | active window, staged fill, pending commit or resync | slide by an edge, stage a row, activate a fill, write the tile of a WORLD_STATE, send ACK, COMMIT, RESYNC_REQUEST | edges out of order, rows of several fills, a tile update that names no map | no tile out of place, but at a map's corner |
| **Map transitions** (`hybrid:1049, 1181, 1557`, `game:3129`) | `transition_loading`, `pending_map_change`, client's map | MAP_CHANGE, its re-send, MAP_READY, attach during one | reconnecting in the middle, stale MAP_READY | play runs only on a client that shows the map; nobody is stuck |
| **Session lifecycle** (`hybrid:664-951, 1137-1226`) | connections, registry, HELLO marks, online flags, lobby count | accept, preamble, HELLO, AUTH, supersede, drop, sweep, stop | two connections with one token, half-open ones, handlers that fail half way | the registry knows live sessions only; no ghosts; arrivals and departures alternate |
| **Session output** (`hybrid:306-380, 1301-1351`) | reliable queue, message queue, latest slots, frame in progress, token bucket | queue, flush, block, write-ready | partial writes, coalescing, pacing, no tick to flush | frames whole, in order, all delivered; link not overdrawn |
| **Identity and progress store** (`login:81-207`) | `sessions.json`, a temporary file | register, resume, rename, save, online flags, reset | two processes, crashes inside a save | names kept and unique, progress kept, file readable |
| Login connections (`login:210-`) | a socket and a deadline | parse, answer | slow clients, 64-client cap | every client answered or dropped |
| **Movement and combat** (`game:1326-1545, 1670-1770, 3015-3170`) | place, hit points, PvP flag, the last report and its counters, timers of arrival | apply a report, refuse it, correct; shoot, bite, die, pick up, pass a gate | one report is applied in every tick until the next; order of players in a tick; reports from before a gate | every press spent once; nobody moved or hurt on arrival; PvP as chosen |
| **Zones, herbs, trees, respawns** (`zones.py`, `game:3196-3305, 4392-4850`) | awake zones, timers, the one `tile_update` of a tick | wake, eat, fell, grow, respawn | two changes in one tick, ids used again | what is eaten grows again; every change is told |
| **Dialogue** (`game:1834-1990`, `rt_state.c:235-275`, `dlgmodal.c`) | page, chunk, resends; the page the client has put together | page, send again, assemble, answer | lost chunks, late copies, an answer in one bit of one report | nothing is turned unseen; the scene ends |
| **Quests and story** (`quests.py`, `story.py`, `game:1191-1226, 1879-2180`) | stage, step, quest, milestones, samples, rewards | talk, accept, kill, pick up, restore | a crash between two saves, stale confirmation, deaths in the middle | stage never goes back; rewards once; always a way on |
| **Scripted encounters** (`encounters.py`, `game:2180-2560, 3753-4200`) | phase, what it spawned, its owner | start, escort, waves, summon, win, fail, clean up | owner leaves or dies in mid-phase; entity ids are used again | cleaned up, and only what is its own |
| **Frame and packet codec** (`protocol.py`) | a decoder's buffer | encode, decode, checksum | damage of any kind; encoders and decoders written apart | read as written; damage costs its frame |
| **Simulated player** (`ai_player.py`) | a memory of every map, `TokenStore` on disk | log in, bootstrap, play, restart | map changes repeated, restarts in another map | what it remembers is of that map |
| Lobby client, positions file, load generator, tools, presentation | - | - | I/O, hardware | - |

The components in bold are modelled; `PROJECT.json` lists all with what is left
out.

### Shared state and interactions

* The tick (`hybrid:1515`) first lets the game apply input and move everybody,
  then every attached session transmits what its client lacks. A handler of a
  packet runs between two ticks. Both run in one thread: a handler is atomic.
* `session.window_origin` is what the server believes; `player` is what the game
  wants; the client's window is what is true. Only packets connect the three.
* `sessions.json` is the one thing two processes share, by whole-file rewriting,
  without a lock.
* A token, not a connection, owns a player: connections come and go under it.
* `session.latest`, the last report of a client, is all the tick sees of it: a
  report that comes before the tick takes the place of the one before.
* The entity table is one for all maps, with 255 ids that are used again. Players,
  enemies, encounters and zones refer to it by id.
* The story decides which encounter a player may begin, and an encounter's end
  moves the story on; a story change may change the terrain that he alone sees.

## 2. The modules

| Module | Models | Built on |
|---|---|---|
| `TerrainGrid` | windows, origins, edges, the wrapping counter; a tile is its place, map and story version | - |
| `CacheSession` | the server's half of the terrain protocol: every handler an operator from a session to its successor and what it sends | `TerrainGrid` |
| `CacheClient` | the client's half, likewise | `CacheSession` |
| `CacheSync` | both halves, the game that moves the player, the link, the connection | `CacheClient` |
| `CacheSyncProofs` | lemmas on each handler of server, client and simulated player; the theorems of tiles, of maps and of the simulated player | `CacheSync`, `Bots` |
| `SessionLifecycle`, `SessionLifecycleProofs` | connections, tokens, marks, timers; the theorems | - |
| `SessionOutput` | queues, bucket, flush loop, socket | - |
| `Delivery` | abstract: what `SessionOutput` promises (`Delivers`) | - |
| `SessionOutputProofs` | its invariant, the theorems, the refinement of `Delivery` | `SessionOutput` |
| `SessionStore` | `sessions.json`, its processes, their system calls | - |
| `SessionStoreProofs` | the invariant of the file and the theorems, until two calls overlap | `SessionStore` |
| `Story` | one player's campaign: talk, quests, milestones, rewards, what is saved of it and when | - |
| `StoryProofs` | the invariants of the campaign and of the rewards; over them that of the way on; the theorems | `Story` |
| `Encounters` | the entity table, zones, the bridge's and Gorvak's encounters of several players | - |
| `EncountersProofs` | what each step of the world keeps, the theorems | `Encounters` |
| `Combat` | a tick of the world: reports applied, gates, shots, bites, loot, herbs and trees | - |
| `CombatProofs` | what each part of a tick does to each player, the reports in their order, the theorems | `Combat` |
| `Dialogue` | a scene on its way to a client and its answer | - |
| `DialogueProofs` | pagination; what is counted and shown on both sides, the theorems | `Dialogue` |
| `Frames`, `Packets` | bytes of frames and fields of packets, both ways | - |
| `Wire` | a stream of packets through a damaging link to the decoder | `Packets` |
| `Bots` | the simulated player in the client's place | `CacheSync` |
| `MC*` | values of constants for TLC | each on its module |

Definitions keep the names of the code where TLA+ allows. A definition whose
comment begins with "Faulty" is a variant with a plausible bug; nothing uses
it. It is there to show that a property can fail: replacing the real definition
with it makes TLC find the property violated (`PROJECT.json`, "mutants").

The components are composed where they share state within one module:
`CacheSync` joins session, client, link and game; `Bots` joins `CacheSync` with
another client; `Wire` joins encoders, link and decoders; `Dialogue` joins
server, link and client. `Story` and `Encounters` meet in the phases of an
encounter: `Story` takes each as one action, `Encounters` plays it.

### CacheSync: state and actions

| Variable | Code |
|---|---|
| `player` | the fields of `PlayerState` that decide what terrain he must see: window origin, map, story version of the terrain, `transition_loading`, `pending_map_change`, `pending_terrain_resync`; and whether his token is in `bootstrapped_tokens` |
| `session` | the `ClientSession` registered for the token, or `None` |
| `client` | `struct bootstrap_state`, `struct bootstrap_fill` and the flags of `main.c` |
| `conn` | off, booted (HELLO answered) or up (AUTH taken) |
| `s2c`, `c2s` | packets under way: the reliable queue, TCP and the serial line together |
| `budget`, `seen` | the bounds left, and which events have happened |

`Tick` is one tick for this session: the game stays, moves the player, takes him
through a portal or changes the story, then `_send_tick_packets` runs as a whole,
in the code's order: announce, expire a commit, open a fill, send rows or steps, and
put the WORLD_STATE into its slot, over one that has not gone out (`QueueWorld`).
`SendWorld` is the flush taking it from there; it may never do so. A WORLD_STATE is
here what it says of the terrain: a changed tile of the session's window (`Changing`
says which places change of themselves), or (0, 0, 0), which the client takes for
GRASS at the corner of the map it shows (`apply_world_state`).
Its three timers (retransmission, commit, MAP_CHANGE re-send) are parameters.
`HandleAck`, `HandleCommit`, `HandleResync`, `HandleMapReady` and
`HandlePlayerState` are the branches of `_process_realtime`; `ClientReceive` is
`realtime_pump`; `ClientCommits` and `ClientResyncs` are `service_cache_retries`.
`DropToClient` and `DropToServer` lose the packet at the head of a queue.
`_process_bootstrap`, `_attach_realtime`, `_drop_session`, `Disconnect` and
`BootstrapExpires` are the connection; `IdleTick` moves a player who stands in
the world between HELLO and AUTH.

The link keeps order, because TCP does and the serial line has one writer; it
loses single packets, because the line has no flow control and the client
discards a frame whose checksum fails. Replies of the server are assumed to fit
the client's buffers; `MaxLink` bounds what may be under way, WORLD_STATEs aside, of
which no more are under way at a time than the scenario's `world`.

### SessionLifecycle

One record `server` holds what the game server keeps: a session per connection,
the registry, the marks of HELLO, the players in the world, the online flags of
the file, the "entered" messages less the "left" ones for each token, and the
lobby's count. One action per handler and per timer of the sweep. `HelloFails`,
`AuthFails` and a failing preamble are the handlers that stop half way: an
exception while saving, or a probe whose answer cannot be sent. `failed` records
that one of them happened.

### SessionOutput

`out` is `SessionOutput`; `flushing` says the flush loop is running, during
which nothing else does; `Send`, `Block`, `SendFails` are what a non-blocking
socket may do with a frame; `EndFlush` is where the loop leaves and sets the
write interest; `WriteReady` is the selector coming back. `Tick`, `Answer` and
`Bootstrap` fill the queues. The client is a frame decoder that notices bytes
that do not follow each other.

`Delivery` says what all this is for. Its `got` is what arrived: reliable frames
one after the other, messages in order with gaps, of each slot a version that
never goes back. `Promise` maps it to the client of `SessionOutput`; every
action of the flush loop is one arrival or a stutter.

### SessionStore

A process is what it is asked to do (`todo`, a sequence of calls) and how far the
first call is: load, open the temporary file (which truncates it), write,
replace. `Crash` may come between any two. Files are inodes, so that two writers
of the one temporary name behave as the file system makes them. Nothing in the code
keeps two processes from being inside a call at once; `overlaps` counts how often a
call has begun inside another's. The properties are promised until the first such
call, and TLC looks at behaviours with up to `MaxOverlaps` of them.

### Story

`s` is a player's `PlayerState` with his encounters and `s.saved`, what
`sessions.json` has of him. A handler is an operator that returns the sequence of
states right after each of its saves (`_mark_player_state_dirty`), the last being
where it ends: `Do` takes the last, `Crash` any of them and then forgets all that
is not saved. `Interact` speaks to somebody, `Acknowledge` answers a page,
`Kill`, `CollectSticks`, `CollectKey` advance quests, `Bridge` and `Boss` are what
becomes of an encounter, `Die`, `Leave`, `Return` what interrupts one. Every
restore goes through `_normalize_story_state`, as in the code.

### Encounters

`w` is `GameState`: the entity table, zones, encounters, players. `Tick` is
`finish_tick` as a whole, the outcome of its timers and dice being chosen (`Chances`):
whether a beaver is slain, the escort arrives, Gorvak calls somebody, bites, walks
away, what decays and what respawns. `MaxId` ids are few, so that they are soon
used again. `robbed` is history: who has lost his entity, or Wilhelm, to Gorvak's
defeat, which removes whatever has the id of the last summon.

### Combat

`v` is `GameState`, `latest` the last report of each player. `Tick` is
`begin_tick`, `apply_player_state` for each player in order and `finish_tick`;
`_snapshot_tile_update` is what the snapshot after it says of the terrain to a client
that holds a given window of it (`Windows`). `Receive` takes any report from a place near where the player is or
reported last, with any of the presses left: clients of this model do not have
to be right about where they are.

### Dialogue

`scene` is `ActiveDialogue`; `slot` the place for it among the latest frames of
`SessionOutput`, where the next chunk replaces one that has not gone out; `down`
and `up` the link; `client` the page under assembly, the modal and the pickup
counter. `ModalStep` is `dlg_modal_step` with a button, `Heartbeat` the report that
is sent when nothing is pressed, `Interact` a press outside the modal.

### Frames, Packets, Wire

`encode_cobs`, `crc16_ccitt` and the stream decoders are operators from a buffer
and a byte to the next buffer and the frames it completed. A packet's format is
how its encoder lays it out and where its decoder reads, written down apart
because the code has them apart. `Wire` sends packets, delivers bytes in pieces,
and loses, changes, inserts or adds one anywhere.

### Bots

`client` is the bot instead of `bootstrap.c`: a memory of tiles by map, filled from
the same packets; `stored` is what its `TokenStore` has on disk, `name` how far it
came with the login server. A tile it is told of by a WORLD_STATE is filed under the
map it is on, unless it is (0, 0) (`_on_world_state`). `Restart` is the bot's program
beginning again; the server's actions are those of `CacheSync`.

## 3. The runs

### Passing

| Run | What it asks | Bounds, distinct states |
|---|---|---|
| `Safety` | terrain protocol: `SystemInv` (the invariant of the proofs), `TerrainPlaced`, `FirstMapShown` (until a reconnection, play runs only on a client that shows the map), `SilentlyAgreed` (with nothing lost both sides end up agreeing, story changes included), `NothingEndsEarly` (a fill or a pause ends only on what the client shows) | six scenarios; 0.96 million |
| `Live` | `TransitionEnds`, `EventuallyConverged` under fairness | four scenarios; 16 thousand |
| `Sessions` | `Served` (whatever fails, who is served is registered and in the world), `InStep` (until something fails, registry, world, flags and lobby agree, announcements alternate, no ghosts); `WorldEmpties` under fairness | 3 connections, 2 tokens; 64 thousand |
| `Output` | `Paced` (the link is never owed more than a frame, queues keep their limits), `StateDelivered`; the refinement `Delivers`; `Drains` under fairness | 3 ticks; 0.99 million |
| `Store` | `NamesHeld`, `ProgressKept`, `OnlineHonest`, `ResetComplete` | 3 processes, 2 tokens, crashes anywhere, no overlapping calls; 2.3 million |
| `Quests` | `StageForward`, `MilestonesPaid`, `ObjectiveHeld` (always a way on, unless a quest was replaced or, of the last sample, a handler was torn), `SceneStillDue` (no stale confirmation), `NothingToLose` (a crash costs no more than a reconnection) | the campaign, one crash, death, departure; 38 thousand |
| `Encounters` | `CleanedUp`, `WilhelmPresent`, `InWorldTogether` | 2 players, 4 ids, 5 spawns, 1 departure; 471 thousand |
| `Combat` | `EdgesSettled` (every press spent in its tick), `NoStacking`, `PvpByChoice`, `SafeArrival`, `Regrows`, `TerrainTold` (a change of terrain is told to every window it is in) | 2 players, a beaver, 10 cells on three maps, two windows, four scenes; 183 thousand |
| `Dialogue` | `ReadFirst` (no page turned unseen, whatever is lost), `AsSaid` (accepted means read to the letter, nothing lost); `Concluded` under fairness | 2 texts, one loss, one early press; 50 thousand |
| `Frames` | `ReadAsWritten` (every kind of packet, extreme fields, in pieces), `Realigned` (damage costs the frame it hits) | one packet of each kind and variant; three frames and one byte of damage; 17 thousand |
| `Bots` | `KnownTerrain`, `BotAgreement`, `BotCommitHonest` | nine scenarios with restarts; 1.45 million |

`Safety` starts from any of six scenarios (`SafetyBudgets`), each a bound on how
often every kind of event may happen:

* *Walks*: two moves, one loss, two timers;
* *Portals*: two map changes, one loss, two timers;
* *Returns*: a move, a portal, one loss, one more connection, one timer;
* *Deaths*: a move, a story change, a respawn before AUTH, one more connection,
  one timer;
* *Tells*: two moves, one story change, no loss, two timers;
* *Updates*: a move, a portal, one loss, one timer, and a WORLD_STATE at a time
  under way, as often as the ticks send one.

The window is 2 by 2 in a world of 3 by 3 with two maps, so that edges come from
all four sides and a move may be diagonal (two steps, the whole pipeline); a fill
takes two ticks; the revision counter has 3 values and so wraps under a pipeline
of 2; one retransmission is allowed before a refill. One loss is enough to start
every recovery there is; the second timer lets one recovery cross another. Where no
WORLD_STATE leaves, a tick is not told of a changed tile (`Telling`), which would
make no difference. One of the first rows' places changes of itself: both windows
with and without it, and with and without the corner, are reached.

`Live` uses patient timers: a retry timer runs out only when nothing is on the
way. With a loss of any two packets of a map change, or any one of two walks, or with
WORLD_STATEs at any moment, in a
world of three columns (with `WINDOW_RESYNC_DISTANCE` 1, so that walks refill as
well), everything ends where it should. Patience is needed: with timers that run
out at will and lose their race every time, `StaleStep` shows that the two
sides need not converge. Its fill counter has 3 values, to keep the graph
finite and small.

`Store` starts from no file and from one with a save of the previous
generation. The game server may be started twice, the others once. Both tokens
fall back to the same default name, which a client may also ask for: the
collision is the interesting case.

`Output` has two slots, the world, which goes out every tick, and the remote
players, which go out when they change; frames of two bytes, so that a frame
can be cut; a bucket of one frame; a message queue of two under three messages.

`Quests` needs no more than one interruption of each kind: after one the player is
where a restore or a respawn puts him, and every place of the campaign has been
reached with none of them used. Sixteen of the pages and targets are cut: a
scene has two pages, a quest needs two or four of something, one sample of each
kind. `NothingToLose` compares what a restore of the last save gives with what a
restore of the present would.

`Encounters` runs with the bridge's or Gorvak's encounter on one player and a
helper beside him, or with one of them on each. Four ids hold two players, a boss and a summon, or a villager
and a beaver: one more spawn uses an id again.

`Combat` has a scene for each thing that needs many reports: a hunt where a second
player stands by the beaver, two walks, an arrival in an arena where somebody
waits, a duel. Cooldown, grace and the beaver's timers are one tick, the correction
and growth two: each lasts at least as long as one report is repeated. A client's
window is everything, or all but the right column.

`Dialogue` has a text of two paragraphs, with a page of two chunks, and one whose
only word is longer than a page. One resend is allowed where the code has six;
the bound of one loss makes that enough.

`Frames` damages one byte of three frames: the frame before, the one hit and the
one after. A changed or added byte is a delimiter or a 3, which is a length too.

### A disagreement

The run `Declined` checks what `main.c:2161` and
`test_quest_offer_decline_does_not_accept` say: who declines has not accepted. The
decline bit is in one PLAYER_STATE only. If that frame is lost, or the next report
replaces it in `session.latest` before the tick, the report on which the server
acts has the new counter and no buttons, which is accept (`game:1525`).

### More of them

These configurations are beside the runs and are checked by hand. Each checks one
statement of a comment, docstring or test and finds behaviour of the code
that breaks it; the passing runs check the same under the condition that
excludes it.

| Configuration, module | Broken | How |
|---|---|---|
| `ResumeUnready`, `MCCacheSync` | a bootstrapped client "is effectively ready" (`hybrid:1182`) | a client that reconnects between MAP_CHANGE and MAP_READY boots with the overworld's art on the cave's cells; the server ends the pause without telling it the map |
| `StoryLost`, `MCCacheSync` | the flag "makes the session re-send the now-road cells" (`game:1438`) | the flag is consumed when the fill opens; a late resync request abandons that fill, and a gap of 0 opens no other |
| `StaleStep`, `MCCacheSync` | `window_origin` "is the origin the client has committed" (`hybrid:1358`) | a resync rewinds it while a copy of a cancelled step is still under way, which the client applies |
| `StoreOverlap`, `MCSessionStore` | a registered name stays registered (`test_login_protocol.py:113`) | the game server writes back a file it read before |
| `ResetWhileLive`, `MCSessionStore` | "anyone who played in the meantime keeps what they earned" (`reset_old_sessions.py:12`) | the plan is applied without looking again |
| `StateCleared`, `MCSessionOutput` | the newest unsent state is kept (`hybrid:310`) | MAP_CHANGE clears slots that the session takes for sent |
| `GhostPlayer`, `MCSessionLifecycle` | the player of a HELLO without AUTH is released (`hybrid:880`) | saving its name raises before it is marked |
| `QuestOverwritten`, `MCStory` | "A player may only chase one quest at a time" (`game:1992`) | Lucian offers without asking `_can_offer_quest`; accepting replaces the quest under way |
| `GorvakRemovesPlayer`, `MCEncounters` | "two players run independent encounters without cleanup crosstalk" (`test_scripted_encounters.py:332`) | `summon_entity_id` outlives the summon; its id goes to a player who joins, and killing Gorvak removes him |
| `StaleTeleport`, `MCCombat` | stale coordinates "cannot teleport the player around the new one" (`game:3172`) | each tick applies the last report again and uses up a tick of the correction; after the last of them it is believed |
| `TornPage`, `MCDialogue` | a gap is dropped "rather than assembling torn text" (`rt_state.c:252`) | after a lost first chunk, the second of the next page has the number that is due |
| `TwoHerbs`, `MCCombat` | a snapshot carries the tick's tile update (`game:3344`; `HerbsTold`) | two herbs eaten in one tick share the one `tile_update` |

Some came up on the way and have no configuration of their own:

* a WORLD_STATE in which nothing changed says (0, 0, 0) (`game:3350`), and the client
  takes every one as an update (`rt_state.c:168`): a window whose origin is (0, 0), as
  in the starter cave, has its corner turned into GRASS by each tick, with nothing lost.
  `TerrainPlaced`, `FirstMapShown`, `SilentlyAgreed`, `NothingEndsEarly` and
  `EventuallyConverged` except that cell, and only GRASS in it. The simulated player
  takes (0, 0) for none (`ai_player.py:680`), and so needs no exception;
* a tile update is told once. The frame waits in a slot that the next tick's replaces
  (`hybrid:1695`) and a map change clears (`hybrid:1568, 1602`), and may be lost; its
  tile then stays wrong on the client until the place leaves the window or is filled;
* a WORLD_STATE names no map: what keeps one of the old map off the new is only that
  MAP_CHANGE clears the slot and that the link keeps order (`FirstMapShown`);
* a player killed between HELLO and AUTH (`IdleTick`) gives the session another
  window than the client booted on (`hybrid:1150`), so that both disagree without
  any loss;
* a session dropped because the answer to its smoke probe could not be sent may
  still be registered by the AUTH in the same chunk (`hybrid:930`);
* a MAP_CHANGE sent again while MAP_READY is under way holds the simulated player
  again and drops the fill that would release it (`ai_player.py:832`);
  `BotAgreement` excepts it; and the docstring at `ai_player.py:210` says that the
  server restores a player with no MAP_CHANGE, but `_attach_realtime` sends one on
  every map except the overworld;
* killed summons of Gorvak and beavers of a wave respawn; a boss that kills his
  owner may still summon in the same tick; `_bridge_repair_success` expects the
  escort in the table;
* a server that dies between the save of the last sample and that of the quest
  (`game:_grant_living_mud_sample`) leaves a quest that is active with all its samples: no
  slime gives another, and nothing makes it ready (`ObjectiveHeld` excepts it);
* closing a page with B is local while the server only turns it: the scene opens
  again; a late copy may open the modal on an earlier page, and A then accepts a
  last page that was not read (`Early` of `Dialogue` is one such press).

### Fairness

* `CacheSync`: a tick, a turn of the packet handlers and a turn of the client are
  weakly fair: the loops never stop. A timer that keeps becoming due runs out
  (strong fairness: it is interrupted by what it waits for). HELLO and AUTH are
  weakly fair: a client that starts goes on. Nothing is assumed of the game,
  the losses or disconnection, which the bounds end.
* `SessionOutput`: the loop runs on; a socket that is asked again and again takes
  at least a byte (strong fairness of `Send`), because the client reads or TCP
  breaks, which `SendFails` is; between two flushes time passes, so the refill
  is positive.
* `SessionLifecycle`: the sweep runs on every turn of the loop. A mark is as old
  as the last HELLO, so its expiry is fair only while nobody is heard.
* `Dialogue`: the server ticks and flushes, the link delivers, the client's loop
  turns and sends its heartbeats, and a player who is shown a page presses A in the
  end; which pages come again is not assumed.
* The others have no liveness property: a crashed process need not return, a
  player need not play, and the rounds of a run are used up.

Deadlock is checked for `CacheSync`, `Story`, `Combat` and `Dialogue`. The others
stop by design: the server is shut down, the ticks or the entities of the run
are used up, every process is down, all bytes are read.

## 4. The proofs

All are theorems of the specification, `Spec => []Inv`, for every value of the
constants that satisfies the named assumptions: `WindowAssumption`,
`SessionAssumption`, `OverworldAssumption` and `SyncAssumption` (sizes are
positive, `None` is no origin, row set or map, a pipeline does not exceed the
range of revisions), `LifecycleAssumption` (finitely many tokens; the
"no token" and "no connection" values are none), `StoryAssumption` (what a quest
counts, a scene's pages and the bound on payments are positive),
`OutputAssumption` and `NoFrameAssumption` (frames have a length, the bucket and
the queue hold something; "no frame" is none), `StoreAssumption` and
`StoredAssumption` (finitely many tokens, each with a default name; stored files
are of the right type and of held tokens), `CombatAssumption` (places are cells of
the three maps, no tree is felled when a map is built, every exit is a place and
every map has its grave on it, where `nearest_respawn_point` looks; each player has
one turn in a tick, timers and health are positive),
`DialogueAssumption` and `NothingAssumption` (a page and a chunk hold something, what
is said has words and no word is empty; "nothing" is none), `EncountersAssumption`
(finitely many players; "no one" is none), `BotAssumption` (a retry limit is a
number). A theorem with a further hypothesis says so in its statement.

**Terrain protocol.** `Invariance` proves `SystemInv`, from which follow

* `TypeCorrect`: every field of server, client and packets keeps its range;
* `TilesInPlace`: no cell of a client's window ever shows a tile of another place, but
  for GRASS at the corner of a map;
* `MechanismsExclude`: no step is in flight while a fill is open;
* `PipelineIsChain`: the steps in flight start at `window_origin`, are adjacent
  and have consecutive revisions.

None of the last three is inductive alone. A client that slides in a strip is
right only if the strip is; so `SystemInv` says of every packet under way that
its tiles are those of the place it names (`PlacedMsg`), of the WORLD_STATE that waits
the same, of every step kept for
retransmission the same (`PlacedStep`), of a staged fill that each row it holds
is placed, and of the session that its chain ends with the last revision used,
which is what lets the next one be appended. Types come along, since an
edge is told from a row by its shape. It is proved by a lemma per handler
(what an ACK, a commit, a resync, a tick returns and sends; what a packet does to a
client), then one lemma per action. The link may lose anything: removing packets from a queue
of placed packets leaves one. Nothing in these proofs depends on bounds.

**Maps.** `MapInvariance` proves `MapInv` over `SystemInv`; it gives `MapShown`
(`FirstMapShown`) and `PauseEndsOnTheMap`, the first half of `NothingEndsEarly`. Of
every connection it says what the session's steps, rows and last announcement are
of (`SessionMapInv`). Of the first one it says what has to be true of everything
under way for the client to be where it should be (`Linked`). A client on the
player's map shows that map, or still waits for it, and hears of no other; what follows
the announcement of a map is of that map; a MAP_READY under way for the player's map
means that the client shows it and has reported no other since; the tile a WORLD_STATE
tells, waiting or under way, is of the map the packets before it lead to; while play
runs, the client is on the player's map. To show a map is to show no tile of another,
the corner's GRASS aside (`ShowsMap`). Losing a packet leaves each of these true: they say
what a packet under way means, not that it comes. In later connections it does not
hold (`ResumeUnready`).

**Simulated player.** `BotInvariance` proves `BotInv`: as long as each bootstrap
brought the map it was filed under and AUTH found the player where it had shown him
(`adopted`), what the bot remembers is placed and filed under the
map it is of, and the packets under way lead it from its map to the player's
(`Leads`): there is a map for each of them, that of its tiles, which changes only at a
MAP_CHANGE. It gives `BotRemembers` (`KnownTerrain`), in every connection, through
restarts, retries that give up and fills that are replaced.

**Session lifecycle.** `LifecycleInvariance` proves `Inv`:

* `Held`: types, a live session with a token is the registered one, registered
  tokens have players. It survives every failure, and gives
  `LiveSessionsRegistered` and `PlayersInWorld`, together `ServedInWorld`;
* `Exact` and `Counted`, until something has failed: registered sessions are
  live and carry the token, players are registered or marked, announcements and
  flags agree with the registry, the lobby with its size. It gives
  `OnlineMeansLive`, `WorldHasNoGhosts` and `AnnouncementsAgree`, together
  `AllInStep`.

The parts need each other. That dropping a session which is not registered
changes nothing of the registry (`DropGood`) needs that a registered session is
live and carries its token; that dropping a registered one is right
(`LeaveExact`) needs that no two tokens are registered for one session, which
follows from the same. Superseding takes the token from the old session first,
so that its drop does not take the player along (`SupersedeIs`).

**Story.** `AlwaysSound` proves `Sound`: types; a later milestone presupposes
the earlier ones (`Chain`), in memory and in the file alike; the encounters under
way, the key and the scene shown agree with the milestones (`Staged`); the file is
at no earlier stage than memory; and a crash now would bring back what a
reconnection would (`Safe`). It gives `StoryNeverGoesBack`, `CrashHarmless` and
`ChainedMilestones`. The file is part of the invariant because a restart puts it in
the place of memory: what holds of memory only would be lost there. A handler that
saves several times is a sequence of states, any of which a crash may keep, so the
lemmas on handlers speak of every element (`Fine`).

`AlwaysSettled` proves of a campaign that no crash inside a handler has torn
(`~torn`) that the later milestones are paid exactly when they are reached, the
bridge at most once, in memory and in the file, and that a scene which pays is
shown only while its payment is due (`Settled`), over `Sound`. From it follows
`MilestonesPaidOnce`. After a torn save `MilestonesPaid` claims only the chain.

`AlwaysFocused` proves, over `Sound`, `Focused`: the quest a record names fits its
stage, a stage that ends with a quest has that quest unless one was replaced, no
sample is held before its quest, and the scene that is open is due. It gives `WayOn`
(`ObjectiveHeld`) and `NeverStale` (`SceneStillDue`). Neither is inductive: that Wilhelm's
scene is still due after the bridge opened behind it needs that no encounter runs
at a repaired bridge (`Crossing`) and that no scene of the east is open before
(`Staged`); that a mud quest can be finished when it begins needs that no sample
is there yet. What a handler saves on the way (`Aims`) is weaker than what it ends
with: between the save of the last sample and that of the quest it is not whole.

**Session output.** `SoundAlways` proves `Sound`: the client has exactly what was
written of the frame in progress (`Aligned`); the reliable frames after those that
arrived are in the queue, in order and without gaps (`InSequence`); the messages
that wait are newer than those that arrived and rise (`Rising`); of a slot nothing
that waits is older than what is in progress or shown (`Fresh`); the frame in progress
was begun on a bucket that was not empty and has cost what was written (`Thrifty`). It
gives `PacedAlways` and `StateDeliveredAlways`, and `Implements`: each step of the
flush loop is one arrival of `Delivery` or a stutter, whatever the socket takes.

**Session store.** `KeptAlways` proves of every behaviour that until a call begins inside
another process's (`overlaps = 0`) `Kept` holds: at most one process is inside a call, its temporary file is another
inode than the file, and holds what it read with its call applied (`OneWriter`); what
each process still has to do says how far the file may be behind it (`LoginWork`,
`GameWork`, `ResetWork`); players in memory are no poorer than the file (`Ahead`). It
gives `ProgressKeptAlways`, `OnlineHonestAlways`, `ResetCompleteAlways`, and, if no
stored file gives one name to two tokens, `NamesHeldAlways`. The properties themselves say
"until two calls overlap", and no theorem assumes that they never do: nothing in the
code excludes it, and `StoreOverlap` shows that names are lost after the first overlap.

**Combat.** `InvariantAlways` proves `World`, of any maps, number of players and
timers: types; `NoStacking`, `PvpByChoice` and `Regrows`, of which the last needs that
no tile where a herb belongs is anything but grass or a herb, so that a stump and an
eaten herb are never one place. These three are `NoStackingAlways`,
`PvpByChoiceAlways` and `RegrowsAlways`. `EdgesSettledAlways` and `SafeArrivalAlways` are
about all the reports of a tick, applied one after the other. What one of them does is
split: to the player it is of (`Tells`: it is told, and neither moves him while the
correction lasts nor ends what protects him), and to everybody else (`Bystander`: he may
be hurt if nothing protects him, and wakes at a grave of his map, but keeps his
counters, what protects him and where he was put). `Round` says what holds after the first `i` turns:
whose turn has come has no press pending, whose turn has not is still held. That it
holds after all is an induction over the turns, by a least counterexample
(`Smallest`), as the library's induction theorem cannot be used. The rest of the tick
(`Finished`) is something that happens to bystanders only.

What a tick does to the land is told apart in the same lemmas: reports eat herbs, and the
last one eaten is told (`Grazed`); of the rest of the tick nothing changes a tile
unless there is nothing to tell yet, and then one tile and tells it (`Grows`): of the
tiles that are ready only the first grows (`OneGrows`), and a beaver chops only then
(`CanChop`). So a tick that eats no two herbs changes one tile at most, and tells it
(`OneTold`), and one that eats more tells the last. From this `TerrainToldAlways` follows,
for any layout, players and windows: what the snapshot says is so, and what the tick
changed within a window the snapshot tells, of several herbs the last. What
becomes of the snapshot after that is no part of it (section 5).

**Dialogue.** `Paginated` says what `paginate_dialogue_text` does with any text: the
pages hold its letters in order, none is empty, each fits. The pages are built word by
word, and that each step keeps this, so that the last one has it, is again
proved by a least counterexample. `Invariant` proves `DialogueInv`, for every text,
chunk, number of resends and of losses. `Counted` orders what both sides count, if the player waits for
his pages: pages turned, answers the server took, the last report, the answers under
way, the client's counter, pages drawn; it gives `PagesReadFirst` (`ReadFirst`),
whatever is lost or sent again. `Following` says, while nothing was lost or sent
again, where the one page under way is: in the server's hands, on the link, in
the client's buffer, drawn, or answered; the buffer is then that page up to the chunk
that came last. With `Paginated` it gives `ToldAsSaid` (`AsSaid`).

**Encounters.** `Stands` proves `Standing`: a player in the world has an entity there
and only that one; what an encounter will remove is of an encounter and of its owner;
a phase fits its kind and the quest. It gives `TogetherInTheWorld` (`InWorldTogether`)
and `RemovesItsOwn`, for any players, ids and parties. A tick is a long composition;
its parts make four kinds of change (entities move, one is spawned, some are removed,
an encounter changes), each shown to keep the invariant once (`Keeps`).
`NothingLeft` (`CleanedUp`) and `WilhelmStays` (`WilhelmPresent`) need `Settled` too:
what belongs to an encounter has its owner in the world, and Wilhelm is there as
long as he leads. Gorvak's defeat removes whatever has the id of his last summon, which is
kept after the summon is gone: a player's entity or Wilhelm may be what goes
(`GorvakRemovesPlayer`). `robbed` records whose, and for everybody else both hold, whatever
stages the players are at. In the run `Encounters` both happen.

**Only model-checked**:

* liveness, which the prover cannot treat;
* `SilentlyAgreed`, the second half of `NothingEndsEarly`, `BotAgreement` and
  `BotCommitHonest`: they compare ids of fills, and revisions, that wrap. They hold as long as no
  more fills are under way than there are ids, which the bounds of a run
  see to (`budget`), and not for every value of `MaxFillId` and `MaxRevision`;
* `Wire`: the codec folds over data and is recursive, which puts what it computes for
  every input out of the prover's reach.

## 5. Not modelled

* Contents: a tile is its place, map and version; a saved state is an amount and
  a schema stamp in `SessionStore` and the fields of the story in `Story`; a frame is
  its queue and number in `SessionOutput` and its bytes in `Wire`.
* Real time: timers run out at any time, or patiently; two seconds of waiting
  for the lobby's HTTP answer (`hybrid:651`) do not exist here.
* The link profile of a HELLO, which changes budgets and rates of a session.
* The clean-fill flag of the Atari client and the terrain caches of the Atari,
  CoCo and Intellivision clients, which are programs of their own.
* The client's prediction (`predict.c`): what it shows between two snapshots is
  local; what it reports is any report in `Combat`.
* Weapon damage, experience, levels, the slots of the inventory: arithmetic on
  one player's record that no other component waits for.
* In `Combat`, the way of a snapshot to the client. A change of terrain is told in one
  WORLD_STATE, which may be replaced in its slot, cleared by a map change or lost, and
  is not told again; `TerrainTold` ends where the snapshot is made. `SessionOutput` has
  the slot and `CacheSync` the slot, the link and the client's write, where a tile's
  version is that of the player's story and not that of its own changes: it says which
  tile is where, not whether grass is still grass.
* Where actors walk within a zone, path finding, and the zone spawn tables, which
  the server leaves switched off.
* Where the simulated player walks and whom it shoots; `pvp_bots.py`.
* The connection loop of the login server, with its cap and deadlines.
* Half-received frames and reset connections are in `SessionOutput` and `Wire` only;
  elsewhere a frame comes whole or not at all.
* Rendering, sound, input, drivers, tools, generated map data, the legacy servers.

## 6. The plan and what is left of it

Done, in the order of importance for what every client depends on: the terrain
cache with proofs, the store with proofs, output with proofs and the abstract
specification it implements, the lifecycle with proofs; then dialogue, the story
and encounters, with proofs; combat, movement and zones, with proofs; the codec; the
simulated player, with proofs of what it remembers.

Left, each with the reason why it comes last:

1. an abstract presence service (each token offline or online, announced in turn)
   that `SessionLifecycle` implements until something fails: `InStep` says most of it;
2. that both ends of `CacheSync` end up agreeing, for counters wide enough for the fills and
   steps that may be under way: the bound on what is under way would have to be an assumption
   on the constants, and everything under way described;
3. one model of `Story` and `Encounters` together: the composed graph is beyond
   TLC with more than one player;
4. the login server's connection loop and the link profiles.
