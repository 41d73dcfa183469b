--------------------------- MODULE SessionLifecycle ---------------------------
(***************************************************************************)
(* Who is in the realm: the connections of the game server, from accept to *)
(* drop, the registry realtime_by_token they enter with AUTH, the tokens a *)
(* HELLO has marked, and what follows from them: the players in the world, *)
(* the online flags of sessions.json, the "entered" and "left" messages    *)
(* and the count shown in the lobby (src/server/hybrid_server.py).         *)
(*                                                                         *)
(* The server is one thread around a selector, so every handler is one     *)
(* step; the races are between connections that use the same token and     *)
(* the timers of the sweep.  Packets that do not change who is in the      *)
(* realm, the link profile and the diagnostics of a drop are left out; a   *)
(* chunk of bytes is the one packet in it that matters.                    *)
(***************************************************************************)
EXTENDS Integers, FiniteSets

CONSTANTS
    Conn,           \* one for every connection ever accepted
    Token,
    NoToken, NoConn,
    Deleted         \* the lobby entry after shutdown

ASSUME LifecycleAssumption ==
    /\ IsFiniteSet(Token)
    /\ NoToken \notin Token /\ NoConn \notin Conn /\ Deleted \notin Nat

VARIABLES
    server,     \* what the server keeps
    silent,     \* the connections whose client will not be heard again
    failed      \* an answer to a smoke probe could not be sent, or writing
                \* sessions.json raised an exception (history)

vars == <<server, silent, failed>>

Session == [phase : {"new", "live", "dropped"}, kind : {"unknown", "realtime"},
            token : Token \cup {NoToken}, bootstrap_done : BOOLEAN]

NewSession == [phase |-> "new", kind |-> "unknown", token |-> NoToken,
               bootstrap_done |-> FALSE]
GoneSession == [NewSession EXCEPT !.phase = "dropped"]

Live(s) == {c \in Conn : s.session[c].phase = "live"}
Online(s) == {t \in Token : s.realtime_by_token[t] # NoConn}

-----------------------------------------------------------------------------
(* What the handlers call.                                                  *)

_publish_lobby(s) ==
    IF s.serving THEN [s EXCEPT !.lobby = Cardinality(Online(s))] ELSE s

ensure_player(s, t) == [s EXCEPT !.players = @ \cup {t}]
detach_player(s, t) == [s EXCEPT !.players = @ \ {t}]

\* The player leaves with the session its token is registered for.
Leave(s, t) ==
    _publish_lobby([detach_player(s, t) EXCEPT
                      !.realtime_by_token[t] = NoConn,
                      !.stored_online = @ \ {t},
                      !.entered[t] = @ - 1])

_drop_session(s, c) ==
    LET t == s.session[c].token
        gone == [s EXCEPT !.session[c] = GoneSession]
    IN  IF t # NoToken /\ s.realtime_by_token[t] = c THEN Leave(gone, t) ELSE gone

\* Faulty: the session an AUTH supersedes keeps its token.
SupersedeAttached(s, t) ==
    IF s.realtime_by_token[t] = NoConn THEN s
    ELSE _drop_session(s, s.realtime_by_token[t])

\* Faulty: the superseded session lives on.
SupersedeOnly(s, t) == s

\* A reconnect: the old session gives up its token before it is dropped, so
\* that the player stays.
Supersede(s, t) ==
    LET stale == s.realtime_by_token[t]
    IN  IF stale = NoConn THEN s
        ELSE _drop_session([s EXCEPT !.session[stale].token = NoToken], stale)

\* The player is announced when the registry did not know the token before.
Enter(s, t, was_realtime_online) ==
    IF was_realtime_online THEN s
    ELSE _publish_lobby([s EXCEPT !.entered[t] = @ + 1])

Register(s, c, t) ==
    [ensure_player(Supersede(s, t), t) EXCEPT
        !.session[c].token = t,
        !.bootstrapped_tokens = @ \ {t},
        !.realtime_by_token[t] = c]

_attach_realtime(s, c, t) ==
    Enter([Register(s, c, t) EXCEPT !.stored_online = @ \cup {t}], t, t \in Online(s))

\* HELLO: the player enters the world before AUTH.
_process_bootstrap(s, c, t) ==
    IF t = NoToken THEN _drop_session(s, c)
    ELSE [ensure_player(s, t) EXCEPT
             !.bootstrapped_tokens = @ \cup {t},
             !.session[c].bootstrap_done = TRUE]

\* AUTH, the first of a session; any later one changes nothing.
_process_realtime(s, c, t) ==
    IF t = NoToken THEN _drop_session(s, c)
    ELSE IF s.session[c].token = NoToken THEN _attach_realtime(s, c, t)
    ELSE s

-----------------------------------------------------------------------------
(* The main loop.                                                           *)

Speaks(c) == server.serving /\ c \in Live(server) \ silent

Accept(c) ==
    /\ server.serving /\ server.session[c].phase = "new"
    /\ server' = [server EXCEPT !.session[c] = [NewSession EXCEPT !.phase = "live"]]
    /\ UNCHANGED <<silent, failed>>

\* REGISTER and smoke probes may precede what the client says first.  When the
\* answer to a probe cannot be sent the session is dropped, and the handler
\* goes on with the rest of the chunk all the same.
_consume_preamble(c) ==
    {[server |-> server, failed |-> failed]}
    \cup (IF server.session[c].kind = "unknown"
          THEN {[server |-> _drop_session(server, c), failed |-> TRUE]} ELSE {})

\* The handler changes what the preamble left.
After(s, after) == server' = after /\ failed' = s.failed /\ UNCHANGED silent

Classified(s, c) == [s EXCEPT !.session[c].kind = "realtime"]

Hello(c, t) ==
    /\ Speaks(c) /\ server.session[c].kind = "unknown"
    /\ \E s \in _consume_preamble(c) : After(s, _process_bootstrap(s.server, c, t))

Preamble(c) ==
    /\ Speaks(c) /\ server.session[c].kind = "unknown"
    /\ \E s \in _consume_preamble(c) : After(s, Classified(s.server, c))

\* With the realtime preamble before it on a session not yet classified.
Auth(c, t) ==
    /\ Speaks(c)
    /\ \E s \in _consume_preamble(c) :
          After(s, _process_realtime(Classified(s.server, c), c, t))

\* An exception drops the session it came up in: writing the player's name
\* comes after ensure_player and before anything else is recorded, setting
\* the online flag just after the session is registered.
HelloFails(c, t) ==
    /\ Speaks(c) /\ server.session[c].kind = "unknown"
    /\ server' = _drop_session(ensure_player(server, t), c)
    /\ failed' = TRUE
    /\ UNCHANGED silent

AuthFails(c, t) ==
    /\ Speaks(c) /\ server.session[c].token = NoToken
    /\ \/ server' = _drop_session(ensure_player(Supersede(server, t), t), c)
       \/ server' = _drop_session(Register(server, c, t), c)
    /\ failed' = TRUE
    /\ UNCHANGED silent

FallSilent(c) ==
    /\ Speaks(c)
    /\ silent' = silent \cup {c}
    /\ UNCHANGED <<server, failed>>

\* The client closes, a send to it fails or its packet raises an exception.
Close(c) ==
    /\ server.serving /\ c \in Live(server)
    /\ server' = _drop_session(server, c)
    /\ UNCHANGED <<silent, failed>>

\* The sweep gives an attached session, and one that has just been
\* bootstrapped, the idle deadline; any other must send AUTH in time.
HasIdleDeadline(session) ==
    IF session.kind = "realtime" THEN session.token # NoToken
                                 ELSE session.bootstrap_done

IdleTimeout(c) ==
    /\ server.serving /\ c \in Live(server) \cap silent
    /\ HasIdleDeadline(server.session[c])
    /\ server' = _drop_session(server, c)
    /\ UNCHANGED <<silent, failed>>

AuthTimeout(c) ==
    /\ server.serving /\ c \in Live(server)
    /\ ~HasIdleDeadline(server.session[c])
    /\ server' = _drop_session(server, c)
    /\ UNCHANGED <<silent, failed>>

\* Faulty: the player that no AUTH has claimed stays.
ExpireMark(t) ==
    /\ server.serving /\ t \in server.bootstrapped_tokens
    /\ server' = [server EXCEPT !.bootstrapped_tokens = @ \ {t}]
    /\ UNCHANGED <<silent, failed>>

\* BOOTSTRAP_TOKEN_TTL after the last HELLO.
Expire(t) ==
    /\ server.serving /\ t \in server.bootstrapped_tokens
    /\ LET s == [server EXCEPT !.bootstrapped_tokens = @ \ {t}]
       IN  server' = IF t \in Online(s) THEN s ELSE detach_player(s, t)
    /\ UNCHANGED <<silent, failed>>

\* Every session is dropped; nothing is published but the end of the entry.
Stop ==
    /\ server.serving
    /\ LET left == {t \in Token : \E c \in Live(server) :
                       /\ server.session[c].token = t
                       /\ server.realtime_by_token[t] = c}
       IN  server' = [server EXCEPT
               !.serving = FALSE, !.lobby = Deleted,
               !.session = [c \in Conn |-> IF c \in Live(server) THEN GoneSession
                                           ELSE server.session[c]],
               !.realtime_by_token =
                   [t \in Token |-> IF t \in left THEN NoConn
                                    ELSE server.realtime_by_token[t]],
               !.players = @ \ left,
               !.stored_online = @ \ left,
               !.entered = [t \in Token |-> IF t \in left THEN server.entered[t] - 1
                                            ELSE server.entered[t]]]
    /\ UNCHANGED <<silent, failed>>

Init ==
    /\ server = [session |-> [c \in Conn |-> NewSession],
                 realtime_by_token |-> [t \in Token |-> NoConn],
                 bootstrapped_tokens |-> {}, players |-> {}, stored_online |-> {},
                 entered |-> [t \in Token |-> 0], lobby |-> 0, serving |-> TRUE]
    /\ silent = {} /\ failed = FALSE

Next ==
    \/ \E c \in Conn : \/ Accept(c) \/ Preamble(c) \/ FallSilent(c) \/ Close(c)
                       \/ IdleTimeout(c) \/ AuthTimeout(c)
    \/ \E c \in Conn, t \in Token \cup {NoToken} : Hello(c, t) \/ Auth(c, t)
    \/ \E c \in Conn, t \in Token : HelloFails(c, t) \/ AuthFails(c, t)
    \/ \E t \in Token : Expire(t)
    \/ Stop

Spec == Init /\ [][Next]_vars

\* The sweep runs on every turn of the loop.  A mark is as old as the last
\* HELLO, so it need not expire while a client may still send another.
Quiet == Live(server) \subseteq silent

Fairness ==
    /\ \A c \in Conn : WF_vars(IdleTimeout(c)) /\ WF_vars(AuthTimeout(c))
    /\ \A t \in Token : WF_vars(Quiet /\ Expire(t))

FairSpec == Spec /\ Fairness

-----------------------------------------------------------------------------

\* Every variable holds what the code can keep in it.
TypeOK ==
    /\ server \in [session : [Conn -> Session],
                   realtime_by_token : [Token -> Conn \cup {NoConn}],
                   bootstrapped_tokens : SUBSET Token, players : SUBSET Token,
                   stored_online : SUBSET Token, entered : [Token -> Int],
                   lobby : Nat \cup {Deleted}, serving : BOOLEAN]
    /\ silent \in SUBSET Conn /\ failed \in BOOLEAN

\* A live session that carries a token is the one the token is registered for:
\* any other would go on being served without ever being superseded.  It holds
\* whatever fails.
LiveRegistered ==
    \A c \in Live(server) :
        server.session[c].token # NoToken =>
            server.realtime_by_token[server.session[c].token] = c

\* "Only players currently attached to a realtime session appear" among those
\* online: a dropped session that is still registered is one that no timer
\* will ever look at again.  It holds while nothing fails: the chunk whose
\* probe could not be answered may go on to attach the dropped session.
OnlyLiveRegistered == ~failed =>
    \A t \in Online(server) :
        LET c == server.realtime_by_token[t]
        IN  c \in Live(server) /\ server.session[c].token = t

\* The player of an attached session is in the world: the tick asks for it by
\* its token, and its failure would end the tick for everyone.  It holds
\* whatever fails.
AttachedInWorld == Online(server) \subseteq server.players

\* A player is in the world, where it blocks a tile and can be hit, only while
\* its client is attached or has been bootstrapped and may still attach.
NoGhosts == server.serving =>
    server.players \subseteq Online(server) \cup server.bootstrapped_tokens

\* NoGhosts holds while nothing fails (how it may go wrong: GhostPlayer).
NoGhostsYet == ~failed => NoGhosts

\* Whatever sessions come and go for a token, every "has entered the realm"
\* is followed by one "has left the realm" before the next, and the flag in
\* sessions.json and the count in the lobby are those of the registry, while
\* nothing fails.
AnnouncedOnce == ~failed =>
    /\ \A t \in Token : server.entered[t] = IF t \in Online(server) THEN 1 ELSE 0
    /\ server.stored_online = Online(server)
    /\ server.serving => server.lobby = Cardinality(Online(server))

\* Whoever is served is registered and in the world, whatever fails.
Served == LiveRegistered /\ AttachedInWorld

\* Until something fails, the registry, the world, sessions.json and the lobby tell
\* the same story.
InStep == OnlyLiveRegistered /\ NoGhostsYet /\ AnnouncedOnce

\* A connection whose client is not heard again is dropped.  Once nobody
\* is heard the world empties: no player is left behind by a client that went away
\* between HELLO and AUTH, unless something failed.
WorldEmpties ==
    /\ \A c \in Conn : c \in silent ~> (server.session[c].phase = "dropped")
    /\ <>[](Quiet /\ ~failed) => <>[](server.serving => server.players = {} /\ Online(server) = {})

=============================================================================
