------------------------ MODULE SessionLifecycleProofs ------------------------
(***************************************************************************)
(* Safety of the session registry for every number of connections and      *)
(* tokens: whatever fails, every live session is the registered one and    *)
(* its player is in the world; until a probe or a save fails, only live    *)
(* sessions are registered, no player is left behind and every arrival and *)
(* departure is announced once.                                            *)
(***************************************************************************)
EXTENDS SessionLifecycle, FiniteSetTheorems, TLAPS

Server ==
    [session : [Conn -> Session], realtime_by_token : [Token -> Conn \cup {NoConn}],
     bootstrapped_tokens : SUBSET Token, players : SUBSET Token,
     stored_online : SUBSET Token, entered : [Token -> Int],
     lobby : Nat \cup {Deleted}, serving : BOOLEAN]

\* LiveRegistered and AttachedInWorld, of a server in the middle of a handler.
Held(s) ==
    /\ s \in Server
    /\ \A c \in Conn : s.session[c].phase = "live" /\ s.session[c].token # NoToken
                          => s.realtime_by_token[s.session[c].token] = c
    /\ \A t \in Token : s.realtime_by_token[t] # NoConn => t \in s.players

\* OnlyLiveRegistered, NoGhosts and AnnouncedOnce but for the lobby.
Exact(s) ==
    /\ \A t \in Token : s.realtime_by_token[t] # NoConn =>
          /\ s.session[s.realtime_by_token[t]].phase = "live"
          /\ s.session[s.realtime_by_token[t]].token = t
    /\ s.serving => \A t \in s.players : s.realtime_by_token[t] # NoConn
                                         \/ t \in s.bootstrapped_tokens
    /\ \A t \in Token :
          /\ s.entered[t] = IF s.realtime_by_token[t] # NoConn THEN 1 ELSE 0
          /\ t \in s.stored_online <=> s.realtime_by_token[t] # NoConn

\* The lobby shows how many tokens are registered.
Counted(s) == s.serving => s.lobby = Cardinality(Online(s))

-----------------------------------------------------------------------------
(* What the handlers call.                                                  *)

\* Publishing changes the lobby entry only, and makes it right.
LEMMA PublishGood ==
    ASSUME NEW s \in Server
    PROVE  /\ _publish_lobby(s) \in Server
           /\ Held(s) => Held(_publish_lobby(s))
           /\ Exact(s) => Exact(_publish_lobby(s))
           /\ Counted(_publish_lobby(s))
<1>1. Cardinality(Online(s)) \in Nat
  BY LifecycleAssumption, FS_Subset, FS_CardinalityType DEF Online
<1>2. CASE s.serving
  <2>. DEFINE r == [s EXCEPT !.lobby = Cardinality(Online(s))]
  <2>1. r \in Server /\ r.lobby = Cardinality(Online(s)) /\ Online(r) = Online(s)
    BY <1>1 DEF Server, Online
  <2>2. _publish_lobby(s) = r
    BY <1>2 DEF _publish_lobby
  <2>. QED  BY <2>1, <2>2 DEF Server, Held, Exact, Counted
<1>3. CASE ~s.serving
  BY <1>3 DEF _publish_lobby, Counted
<1>. QED  BY <1>2, <1>3 DEF Server

\* The three fields a departure changes may be replaced by any of their type.
LEMMA Replaced ==
    ASSUME NEW d \in Server, NEW a \in [Token -> Conn \cup {NoConn}],
           NEW o \in SUBSET Token, NEW e \in [Token -> Int]
    PROVE  [d EXCEPT !.realtime_by_token = a, !.stored_online = o, !.entered = e] \in Server
BY DEF Server

\* A player that leaves takes its registration along.
LEMMA LeaveGood ==
    ASSUME NEW s, Held(s), NEW t \in Token,
           \A c \in Conn : s.session[c].phase = "live" => s.session[c].token # t
    PROVE  Held(Leave(s, t)) /\ Counted(Leave(s, t))
<1>. DEFINE r == [detach_player(s, t) EXCEPT
                    !.realtime_by_token[t] = NoConn,
                    !.stored_online = @ \ {t},
                    !.entered[t] = @ - 1]
<1>. DEFINE d == detach_player(s, t)
<1>1. d \in Server
  BY DEF Held, Server, detach_player
<1>2. /\ [d.realtime_by_token EXCEPT ![t] = NoConn] \in [Token -> Conn \cup {NoConn}]
      /\ [d.entered EXCEPT ![t] = @ - 1] \in [Token -> Int]
      /\ d.stored_online \ {t} \in SUBSET Token
  BY <1>1 DEF Server
<1>3. r = [d EXCEPT !.realtime_by_token = [d.realtime_by_token EXCEPT ![t] = NoConn],
                    !.stored_online = d.stored_online \ {t},
                    !.entered = [d.entered EXCEPT ![t] = @ - 1]]
  BY <1>1 DEF Server
<1>4. r \in Server
  <2>. HIDE DEF r, d
  <2>. QED  BY <1>1, <1>2, <1>3, Replaced
<1>5. Held(r)
  BY <1>1, <1>3, <1>4 DEF Held, Server, Session, detach_player
<1>. QED  BY <1>4, <1>5, PublishGood DEF Leave

\* Leaving keeps the books when the session of the token is the one that goes.
LEMMA LeaveExact ==
    ASSUME NEW s, Held(s), NEW c \in Conn, NEW t \in Token, Exact(s),
           s.realtime_by_token[t] = c, s.session[c].token = t
    PROVE  Exact(Leave([s EXCEPT !.session[c] = GoneSession], t))
<1>. DEFINE g == [s EXCEPT !.session[c] = GoneSession]
            d == detach_player(g, t)
            r == [d EXCEPT
                    !.realtime_by_token[t] = NoConn,
                    !.stored_online = @ \ {t},
                    !.entered[t] = @ - 1]
<1>1. /\ g \in Server /\ g = [s EXCEPT !.session = [s.session EXCEPT ![c] = GoneSession]]
      /\ d \in Server /\ d = [g EXCEPT !.players = g.players \ {t}]
  BY DEF Held, Server, Session, GoneSession, NewSession, detach_player
<1>2. r = [d EXCEPT !.realtime_by_token = [d.realtime_by_token EXCEPT ![t] = NoConn],
                    !.stored_online = d.stored_online \ {t},
                    !.entered = [d.entered EXCEPT ![t] = @ - 1]]
  BY <1>1 DEF Server
<1>3. /\ [d.realtime_by_token EXCEPT ![t] = NoConn] \in [Token -> Conn \cup {NoConn}]
      /\ [d.entered EXCEPT ![t] = @ - 1] \in [Token -> Int]
      /\ d.stored_online \ {t} \in SUBSET Token
  <2>1. /\ d.realtime_by_token \in [Token -> Conn \cup {NoConn}]
        /\ d.entered \in [Token -> Int] /\ d.stored_online \in SUBSET Token
    <3>. HIDE DEF d
    <3>. QED  BY <1>1 DEF Server
  <2>2. \A u \in Token : d.entered[u] - 1 \in Int
    <3>. HIDE DEF d
    <3>. QED  BY <2>1
  <2>. HIDE DEF d
  <2>. QED  BY <2>1, <2>2
<1>4. r \in Server
  <2>. HIDE DEF r, d
  <2>. QED  BY <1>1, <1>2, <1>3, Replaced
<1>5. \A u \in Token : u # t /\ s.realtime_by_token[u] # NoConn
                         => s.realtime_by_token[u] # c
  BY DEF Exact
<1>6. c # NoConn
  BY LifecycleAssumption
<1>f. /\ r.session = [s.session EXCEPT ![c] = GoneSession]
      /\ r.realtime_by_token = [s.realtime_by_token EXCEPT ![t] = NoConn]
      /\ r.entered = [s.entered EXCEPT ![t] = @ - 1]
      /\ r.players = s.players \ {t} /\ r.stored_online = s.stored_online \ {t}
      /\ r.bootstrapped_tokens = s.bootstrapped_tokens /\ r.serving = s.serving
  BY <1>1, <1>2, ZenonT(60) DEF Server
<1>g. /\ s.session \in [Conn -> Session] /\ s.entered \in [Token -> Int]
      /\ s.realtime_by_token \in [Token -> Conn \cup {NoConn}]
      /\ s.players \in SUBSET Token
  BY DEF Held, Server
<1>. HIDE DEF r, d, g
<1>7. Exact(r)
  <2>1. \A u \in Token : r.realtime_by_token[u] # NoConn =>
          /\ r.session[r.realtime_by_token[u]].phase = "live"
          /\ r.session[r.realtime_by_token[u]].token = u
    BY <1>5, <1>f, <1>g DEF Exact
  <2>2. r.serving => \A u \in r.players : r.realtime_by_token[u] # NoConn
                                          \/ u \in r.bootstrapped_tokens
    BY <1>f, <1>g DEF Exact
  <2>3. \A u \in Token :
          /\ r.entered[u] = IF r.realtime_by_token[u] # NoConn THEN 1 ELSE 0
          /\ u \in r.stored_online <=> r.realtime_by_token[u] # NoConn
    BY <1>6, <1>f, <1>g DEF Exact
  <2>. QED  BY <2>1, <2>2, <2>3 DEF Exact
<1>. QED  BY <1>4, <1>7, PublishGood DEF Leave, r, d, g

\* Dropping a session, registered or not.
LEMMA DropGood ==
    ASSUME NEW s, Held(s), NEW c \in Conn
    PROVE  /\ Held(_drop_session(s, c))
           /\ Counted(s) => Counted(_drop_session(s, c))
           /\ Exact(s) /\ s.session[c].phase = "live" => Exact(_drop_session(s, c))
<1>. DEFINE t == s.session[c].token
            gone == [s EXCEPT !.session[c] = GoneSession]
<1>1. /\ gone \in Server
      /\ gone = [s EXCEPT !.session = [s.session EXCEPT ![c] = GoneSession]]
      /\ Online(gone) = Online(s)
  BY DEF Held, Server, Session, GoneSession, NewSession, Online
<1>2. Held(gone)
  BY <1>1 DEF Held, Server, Session, GoneSession, NewSession
<1>3. Counted(s) => Counted(gone)
  BY <1>1 DEF Counted, Server, Held
<1>4. t \in Token \cup {NoToken}
  BY DEF Held, Server, Session
<1>5. CASE t # NoToken /\ s.realtime_by_token[t] = c
  <2>1. t \in Token
    BY <1>4, <1>5
  <2>2. \A d \in Conn : gone.session[d].phase = "live" => gone.session[d].token # t
    BY <1>1, <1>5 DEF Held, Server, GoneSession, NewSession
  <2>3. _drop_session(s, c) = Leave(gone, t)
    BY <1>5 DEF _drop_session
  <2>. QED  BY <1>2, <1>5, <2>1, <2>2, <2>3, LeaveGood, LeaveExact
<1>6. CASE ~(t # NoToken /\ s.realtime_by_token[t] = c)
  <2>1. _drop_session(s, c) = gone
    BY <1>6 DEF _drop_session
  <2>2. ASSUME Exact(s), s.session[c].phase = "live" PROVE Exact(gone)
    <3>1. \A u \in Token : s.realtime_by_token[u] # c
      BY <1>6, <2>2, LifecycleAssumption DEF Exact
    <3>. QED  BY <1>1, <2>2, <3>1 DEF Exact, Held, Server
  <2>. QED  BY <1>2, <1>3, <2>1, <2>2
<1>. QED  BY <1>5, <1>6

\* Superseding drops the registered session and nothing else.
LEMMA SupersedeIs ==
    ASSUME NEW s, Held(s), NEW t \in Token
    PROVE  Supersede(s, t) = IF s.realtime_by_token[t] = NoConn THEN s
                             ELSE [s EXCEPT !.session[s.realtime_by_token[t]] = GoneSession]
<1>. DEFINE stale == s.realtime_by_token[t]
            mute == [s EXCEPT !.session[stale].token = NoToken]
<1>1. CASE stale = NoConn
  BY <1>1 DEF Supersede
<1>2. CASE stale # NoConn
  <2>1. stale \in Conn
    BY <1>2 DEF Held, Server
  <2>2. mute.session[stale].token = NoToken
    BY <2>1 DEF Held, Server, Session
  <2>3. _drop_session(mute, stale) = [mute EXCEPT !.session[stale] = GoneSession]
    BY <2>2 DEF _drop_session
  <2>4. [mute EXCEPT !.session[stale] = GoneSession] = [s EXCEPT !.session[stale] = GoneSession]
    BY <2>1 DEF Held, Server, Session
  <2>. QED  BY <1>2, <2>3, <2>4 DEF Supersede
<1>. QED  BY <1>1, <1>2

\* After it no live session carries the token.
LEMMA SupersedeGood ==
    ASSUME NEW s, Held(s), NEW t \in Token
    PROVE  /\ Held(Supersede(s, t))
           /\ \A c \in Conn : Supersede(s, t).session[c].phase = "live"
                               => Supersede(s, t).session[c].token # t
<1>. DEFINE stale == s.realtime_by_token[t]
            gone == [s EXCEPT !.session[stale] = GoneSession]
<1>1. CASE stale = NoConn
  BY <1>1, SupersedeIs, LifecycleAssumption DEF Held
<1>2. CASE stale # NoConn
  <2>1. stale \in Conn
    BY <1>2 DEF Held, Server
  <2>2. gone \in Server
    BY <2>1 DEF Held, Server, Session, GoneSession, NewSession
  <2>3. Held(gone)
    BY <2>1, <2>2 DEF Held, Server, GoneSession, NewSession
  <2>4. \A c \in Conn : gone.session[c].phase = "live" => gone.session[c].token # t
    BY <2>1, <2>2, LifecycleAssumption DEF Held, Server, GoneSession, NewSession
  <2>. QED  BY <1>2, <2>3, <2>4, SupersedeIs
<1>. QED  BY <1>1, <1>2

\* What an AUTH records.
LEMMA RegisterIs ==
    ASSUME NEW s, Held(s), NEW c \in Conn, NEW t \in Token
    PROVE  LET u == Supersede(s, t)
               r == Register(s, c, t)
           IN  /\ r \in Server
               /\ r.session = [u.session EXCEPT ![c].token = t]
               /\ r.realtime_by_token = [s.realtime_by_token EXCEPT ![t] = c]
               /\ r.players = s.players \cup {t}
               /\ r.bootstrapped_tokens = s.bootstrapped_tokens \ {t}
               /\ r.stored_online = s.stored_online /\ r.entered = s.entered
               /\ r.lobby = s.lobby /\ r.serving = s.serving
<1>. DEFINE u == Supersede(s, t)
            e == ensure_player(u, t)
<1>1. /\ u \in Server
      /\ u.realtime_by_token = s.realtime_by_token /\ u.players = s.players
      /\ u.bootstrapped_tokens = s.bootstrapped_tokens
      /\ u.stored_online = s.stored_online /\ u.entered = s.entered
      /\ u.lobby = s.lobby /\ u.serving = s.serving
  BY SupersedeGood, SupersedeIs DEF Held, Server
<1>2. /\ e \in Server /\ e = [u EXCEPT !.players = u.players \cup {t}]
  BY <1>1 DEF ensure_player, Server
<1>3. Register(s, c, t) =
        [e EXCEPT !.session = [e.session EXCEPT ![c].token = t],
                  !.bootstrapped_tokens = e.bootstrapped_tokens \ {t},
                  !.realtime_by_token = [e.realtime_by_token EXCEPT ![t] = c]]
  BY <1>2 DEF Register, Server
<1>4. /\ [e.session EXCEPT ![c].token = t] \in [Conn -> Session]
      /\ [e.realtime_by_token EXCEPT ![t] = c] \in [Token -> Conn \cup {NoConn}]
  <2>1. /\ e.session \in [Conn -> Session]
        /\ e.realtime_by_token \in [Token -> Conn \cup {NoConn}]
    BY <1>2 DEF Server
  <2>2. e.session[c] \in Session
    BY <2>1
  <2>3. [e.session[c] EXCEPT !.token = t] \in Session
    BY <2>2 DEF Session
  <2>. QED  BY <2>1, <2>3
<1>. HIDE DEF u, e
<1>5. Register(s, c, t) \in Server
  <2>. DEFINE S == [e.session EXCEPT ![c].token = t]
              R == [e.realtime_by_token EXCEPT ![t] = c]
              B == e.bootstrapped_tokens \ {t}
  <2>1. S \in [Conn -> Session] /\ R \in [Token -> Conn \cup {NoConn}] /\ B \in SUBSET Token
    BY <1>2, <1>4 DEF Server
  <2>2. Register(s, c, t) = [e EXCEPT !.session = S, !.bootstrapped_tokens = B,
                                      !.realtime_by_token = R]
    BY <1>3
  <2>. HIDE DEF S, R, B
  <2>. QED  BY <1>2, <2>1, <2>2 DEF Server
<1>. QED  BY <1>1, <1>2, <1>3, <1>5 DEF Server, u

LEMMA RegisterGood ==
    ASSUME NEW s, Held(s), NEW c \in Conn, NEW t \in Token
    PROVE  Held(Register(s, c, t))
<1>. DEFINE u == Supersede(s, t)
            r == Register(s, c, t)
<1>1. /\ Held(u)
      /\ \A d \in Conn : u.session[d].phase = "live" => u.session[d].token # t
      /\ u.realtime_by_token = s.realtime_by_token
  BY SupersedeGood, SupersedeIs DEF Held, Server
<1>2. /\ r \in Server
      /\ r.session = [u.session EXCEPT ![c].token = t]
      /\ r.realtime_by_token = [s.realtime_by_token EXCEPT ![t] = c]
      /\ r.players = s.players \cup {t}
  BY RegisterIs
<1>. HIDE DEF u, r
<1>3. \A d \in Conn : r.session[d].phase = "live" /\ r.session[d].token # NoToken
                          => r.realtime_by_token[r.session[d].token] = d
  BY <1>1, <1>2 DEF Held, Server, Session
<1>4. \A v \in Token : r.realtime_by_token[v] # NoConn => v \in r.players
  BY <1>2 DEF Held, Server
<1>. QED  BY <1>2, <1>3, <1>4 DEF Held, r

\* AUTH attaches the session and announces the player unless it was online.
LEMMA AttachGood ==
    ASSUME NEW s, Held(s), NEW c \in Conn, NEW t \in Token
    PROVE  LET a == _attach_realtime(s, c, t)
           IN  /\ Held(a)
               /\ Counted(s) => Counted(a)
               /\ /\ Exact(s) /\ s.session[c].phase = "live"
                  /\ s.session[c].token = NoToken
                  => Exact(a)
<1>. DEFINE u == Supersede(s, t)
            r == Register(s, c, t)
            q == [r EXCEPT !.stored_online = @ \cup {t}]
            w == [q EXCEPT !.entered[t] = @ + 1]
            a == _attach_realtime(s, c, t)
<1>1. /\ r \in Server
      /\ r.session = [u.session EXCEPT ![c].token = t]
      /\ r.realtime_by_token = [s.realtime_by_token EXCEPT ![t] = c]
      /\ r.players = s.players \cup {t}
      /\ r.bootstrapped_tokens = s.bootstrapped_tokens \ {t}
      /\ r.stored_online = s.stored_online /\ r.entered = s.entered
      /\ r.lobby = s.lobby /\ r.serving = s.serving
  BY RegisterIs
<1>2. Held(r)
  BY RegisterGood
<1>3. /\ q \in Server /\ q = [r EXCEPT !.stored_online = r.stored_online \cup {t}]
      /\ w \in Server /\ w = [q EXCEPT !.entered = [q.entered EXCEPT ![t] = @ + 1]]
  <2>1. /\ q \in Server /\ q = [r EXCEPT !.stored_online = r.stored_online \cup {t}]
    BY <1>1 DEF Server
  <2>2. [q.entered EXCEPT ![t] = @ + 1] \in [Token -> Int]
    BY <2>1 DEF Server
  <2>3. w = [q EXCEPT !.entered = [q.entered EXCEPT ![t] = @ + 1]]
    BY <2>1 DEF Server
  <2>. HIDE DEF q, r
  <2>4. w \in Server
    BY <2>1, <2>2, <2>3 DEF Server
  <2>. QED  BY <2>1, <2>3, <2>4 DEF q
<1>4. a = IF t \in Online(s) THEN q ELSE _publish_lobby(w)
  BY DEF _attach_realtime, Enter
<1>. HIDE DEF r, q, w, a
<1>5. Held(q) /\ Held(w)
  BY <1>2, <1>3 DEF Held, Server
<1>6. c # NoConn
  BY LifecycleAssumption
<1>7. ASSUME Exact(s), s.session[c].phase = "live", s.session[c].token = NoToken
      PROVE  /\ \A v \in Token : q.realtime_by_token[v] # NoConn =>
                   /\ q.session[q.realtime_by_token[v]].phase = "live"
                   /\ q.session[q.realtime_by_token[v]].token = v
             /\ q.serving => \A v \in q.players : q.realtime_by_token[v] # NoConn
                                                   \/ v \in q.bootstrapped_tokens
             /\ \A v \in Token : v \in q.stored_online <=> q.realtime_by_token[v] # NoConn
  <2>1. /\ q.session = r.session /\ q.realtime_by_token = r.realtime_by_token
        /\ q.players = r.players /\ q.serving = r.serving
        /\ q.bootstrapped_tokens = r.bootstrapped_tokens
        /\ q.stored_online = r.stored_online \cup {t}
    BY <1>1, <1>3 DEF Server
  <2>2. u.session = IF s.realtime_by_token[t] = NoConn THEN s.session
                    ELSE [s.session EXCEPT ![s.realtime_by_token[t]] = GoneSession]
    BY SupersedeIs DEF Held, Server
  <2>3. c # s.realtime_by_token[t]
    BY <1>6, <1>7, LifecycleAssumption DEF Exact
  <2>4. s.session \in [Conn -> Session] /\ s.realtime_by_token \in [Token -> Conn \cup {NoConn}]
        /\ s.players \in SUBSET Token
    BY DEF Held, Server
  <2>. HIDE DEF u
  <2>5. \A v \in Token : q.realtime_by_token[v] # NoConn =>
                   /\ q.session[q.realtime_by_token[v]].phase = "live"
                   /\ q.session[q.realtime_by_token[v]].token = v
    <3>. TAKE v \in Token
    <3>. HAVE q.realtime_by_token[v] # NoConn
    <3>1. CASE v = t
      <4>1. q.realtime_by_token[v] = c
        BY <1>1, <2>1, <2>4, <3>1
      <4>2. u.session[c] = s.session[c] /\ u.session \in [Conn -> Session]
        <5>1. GoneSession \in Session
          BY DEF Session, GoneSession, NewSession
        <5>. QED  BY <2>2, <2>3, <2>4, <5>1
      <4>. QED  BY <1>1, <1>7, <2>1, <3>1, <4>1, <4>2 DEF Session
    <3>2. CASE v # t
      <4>1. q.realtime_by_token[v] = s.realtime_by_token[v]
        BY <1>1, <2>1, <2>4, <3>2
      <4>. DEFINE d == s.realtime_by_token[v]
      <4>2. d \in Conn /\ s.session[d].phase = "live" /\ s.session[d].token = v
        BY <1>7, <2>4, <4>1 DEF Exact
      <4>3. d # c /\ d # s.realtime_by_token[t]
        BY <1>7, <3>2, <4>2, LifecycleAssumption DEF Exact
      <4>4. q.session[d] = s.session[d]
        BY <1>1, <2>1, <2>2, <2>4, <4>2, <4>3
      <4>. QED  BY <4>1, <4>2, <4>4
    <3>. QED  BY <3>1, <3>2
  <2>6. q.serving => \A v \in q.players : q.realtime_by_token[v] # NoConn
                                          \/ v \in q.bootstrapped_tokens
    BY <1>1, <1>6, <1>7, <2>1, <2>4 DEF Exact
  <2>7. \A v \in Token : v \in q.stored_online <=> q.realtime_by_token[v] # NoConn
    BY <1>1, <1>6, <1>7, <2>1, <2>4 DEF Exact
  <2>. QED  BY <2>5, <2>6, <2>7
<1>8. CASE t \in Online(s)
  <2>1. Online(q) = Online(s)
    BY <1>1, <1>3, <1>6, <1>8 DEF Online, Server, Held
  <2>2. Counted(s) => Counted(q)
    BY <1>1, <1>3, <2>1 DEF Counted, Server
  <2>3. ASSUME Exact(s), s.session[c].phase = "live", s.session[c].token = NoToken
        PROVE  Exact(q)
    <3>1. q.entered = s.entered /\ q.realtime_by_token = r.realtime_by_token
      BY <1>1, <1>3 DEF Server
    <3>2. \A v \in Token : q.entered[v] = IF q.realtime_by_token[v] # NoConn THEN 1 ELSE 0
      BY <1>1, <1>6, <1>8, <2>3, <3>1 DEF Exact, Online, Held, Server
    <3>. QED  BY <1>7, <2>3, <3>2 DEF Exact
  <2>. QED  BY <1>4, <1>5, <1>8, <2>2, <2>3 DEF a
<1>9. CASE t \notin Online(s)
  <2>1. ASSUME Exact(s), s.session[c].phase = "live", s.session[c].token = NoToken
        PROVE  Exact(w)
    <3>1. /\ w.session = q.session /\ w.realtime_by_token = q.realtime_by_token
          /\ w.serving = q.serving /\ w.players = q.players
          /\ w.bootstrapped_tokens = q.bootstrapped_tokens
          /\ w.stored_online = q.stored_online
          /\ w.entered = [s.entered EXCEPT ![t] = @ + 1]
          /\ w.realtime_by_token = [s.realtime_by_token EXCEPT ![t] = c]
      BY <1>1, <1>3 DEF Server
    <3>2. \A v \in Token : w.entered[v] = IF w.realtime_by_token[v] # NoConn THEN 1 ELSE 0
      BY <1>6, <1>9, <2>1, <3>1 DEF Exact, Online, Held, Server
    <3>. QED  BY <1>7, <2>1, <3>1, <3>2 DEF Exact
  <2>. QED  BY <1>3, <1>4, <1>5, <1>9, <2>1, PublishGood DEF a
<1>. QED  BY <1>8, <1>9 DEF a

\* Bringing a player into the world needs no more than a mark for it.
LEMMA EnsureGood ==
    ASSUME NEW s, Held(s), NEW t \in Token
    PROVE  Held(ensure_player(s, t))
  BY DEF Held, Server, ensure_player

\* A HELLO.
LEMMA BootstrapGood ==
    ASSUME NEW s, Held(s), NEW c \in Conn, NEW t \in Token \cup {NoToken}
    PROVE  LET b == _process_bootstrap(s, c, t)
           IN  /\ Held(b)
               /\ Counted(s) => Counted(b)
               /\ Exact(s) /\ s.session[c].phase = "live" => Exact(b)
<1>. DEFINE b == _process_bootstrap(s, c, t)
            e == ensure_player(s, t)
            S == [s.session EXCEPT ![c].bootstrap_done = TRUE]
<1>1. CASE t = NoToken
  BY <1>1, DropGood DEF _process_bootstrap
<1>2. CASE t # NoToken
  <2>1. t \in Token
    BY <1>2
  <2>2. /\ e \in Server /\ e.session = s.session /\ e.players = s.players \cup {t}
        /\ e.bootstrapped_tokens = s.bootstrapped_tokens
        /\ e.realtime_by_token = s.realtime_by_token
        /\ e.stored_online = s.stored_online /\ e.entered = s.entered
        /\ e.lobby = s.lobby /\ e.serving = s.serving
    BY <2>1 DEF Held, Server, ensure_player
  <2>3. b = [e EXCEPT !.bootstrapped_tokens = e.bootstrapped_tokens \cup {t}, !.session = S]
    BY <1>2, <2>2 DEF _process_bootstrap, Server
  <2>4. S \in [Conn -> Session] /\ e.bootstrapped_tokens \cup {t} \in SUBSET Token
    <3>1. /\ s.session \in [Conn -> Session]
          /\ s.bootstrapped_tokens \in SUBSET Token
      BY DEF Held, Server
    <3>2. [s.session[c] EXCEPT !.bootstrap_done = TRUE] \in Session
      BY <3>1 DEF Session
    <3>. QED  BY <2>1, <2>2, <3>1, <3>2
  <2>5. \A d \in Conn : /\ S[d].phase = s.session[d].phase
                        /\ S[d].token = s.session[d].token
    BY DEF Held, Server, Session
  <2>. HIDE DEF S, e, b
  <2>6. /\ b \in Server /\ b.session = S /\ b.players = s.players \cup {t}
        /\ b.bootstrapped_tokens = s.bootstrapped_tokens \cup {t}
        /\ b.realtime_by_token = s.realtime_by_token
        /\ b.stored_online = s.stored_online /\ b.entered = s.entered
        /\ b.lobby = s.lobby /\ b.serving = s.serving
    BY <2>2, <2>3, <2>4 DEF Server
  <2>7. Held(b)
    BY <2>5, <2>6 DEF Held, Server
  <2>8. Exact(s) => Exact(b)
    BY <2>5, <2>6 DEF Exact, Held, Server
  <2>9. Counted(s) => Counted(b)
    BY <2>6 DEF Counted, Online
  <2>. QED  BY <2>7, <2>8, <2>9 DEF b
<1>. QED  BY <1>1, <1>2

\* The realtime preamble only classifies the session.
LEMMA KindGood ==
    ASSUME NEW s, Held(s), NEW c \in Conn
    PROVE  LET k == [s EXCEPT !.session[c].kind = "realtime"]
           IN  /\ Held(k)
               /\ Counted(s) => Counted(k)
               /\ Exact(s) => Exact(k)
               /\ k.session[c].phase = s.session[c].phase
               /\ k.session[c].token = s.session[c].token
<1>. DEFINE k == [s EXCEPT !.session[c].kind = "realtime"]
            S == [s.session EXCEPT ![c].kind = "realtime"]
<1>1. k = [s EXCEPT !.session = S]
  BY DEF Held, Server
<1>2. S \in [Conn -> Session]
  BY DEF Held, Server, Session
<1>3. \A d \in Conn : S[d].phase = s.session[d].phase /\ S[d].token = s.session[d].token
  BY DEF Held, Server, Session
<1>. HIDE DEF k, S
<1>4. /\ k \in Server /\ k.session = S /\ k.players = s.players
      /\ k.bootstrapped_tokens = s.bootstrapped_tokens
      /\ k.realtime_by_token = s.realtime_by_token
      /\ k.stored_online = s.stored_online /\ k.entered = s.entered
      /\ k.lobby = s.lobby /\ k.serving = s.serving
  BY <1>1, <1>2 DEF Held, Server
<1>5. Held(k)
  BY <1>3, <1>4 DEF Held, Server
<1>6. Exact(s) => Exact(k)
  BY <1>3, <1>4 DEF Exact, Held, Server
<1>7. Counted(s) => Counted(k)
  BY <1>4 DEF Counted, Online
<1>. QED  BY <1>3, <1>4, <1>5, <1>6, <1>7 DEF k

\* An AUTH.
LEMMA RealtimeGood ==
    ASSUME NEW s, Held(s), NEW c \in Conn, NEW t \in Token \cup {NoToken}
    PROVE  LET r == _process_realtime(s, c, t)
           IN  /\ Held(r)
               /\ Counted(s) => Counted(r)
               /\ Exact(s) /\ s.session[c].phase = "live" => Exact(r)
<1>1. CASE t = NoToken
  BY <1>1, DropGood DEF _process_realtime
<1>2. CASE t # NoToken /\ s.session[c].token = NoToken
  BY <1>2, AttachGood DEF _process_realtime
<1>3. CASE t # NoToken /\ s.session[c].token # NoToken
  BY <1>3 DEF _process_realtime
<1>. QED  BY <1>1, <1>2, <1>3

-----------------------------------------------------------------------------
(* The steps of the main loop.                                              *)

\* The invariant: Held always, the books until something fails.
Inv ==
    /\ Held(server)
    /\ failed \in BOOLEAN
    /\ ~failed => Exact(server) /\ Counted(server)

\* What the handler goes on with after the preamble.
LEMMA PreambleGood ==
    ASSUME Inv, NEW c \in Conn, c \in Live(server), NEW s \in _consume_preamble(c)
    PROVE  /\ Held(s.server) /\ s.failed \in BOOLEAN
           /\ ~s.failed => /\ Exact(s.server) /\ Counted(s.server)
                           /\ s.server.session[c].phase = "live"
<1>1. CASE s = [server |-> server, failed |-> failed]
  BY <1>1 DEF Inv, Live
<1>2. CASE s = [server |-> _drop_session(server, c), failed |-> TRUE]
  BY <1>2, DropGood DEF Inv
<1>. QED  BY <1>1, <1>2 DEF _consume_preamble

\* A HELLO keeps the invariant.
LEMMA HelloStep ==
    ASSUME Inv, NEW c \in Conn, NEW t \in Token \cup {NoToken}, Hello(c, t)
    PROVE  Inv'
<1>1. PICK s \in _consume_preamble(c) : After(s, _process_bootstrap(s.server, c, t))
  BY DEF Hello
<1>2. c \in Live(server)
  BY DEF Hello, Speaks
<1>3. /\ Held(s.server) /\ s.failed \in BOOLEAN
      /\ ~s.failed => /\ Exact(s.server) /\ Counted(s.server)
                      /\ s.server.session[c].phase = "live"
  BY <1>2, PreambleGood
<1>4. /\ server' = _process_bootstrap(s.server, c, t) /\ failed' = s.failed
  BY <1>1 DEF After
<1>5. Held(server') /\ (~s.failed => Exact(server') /\ Counted(server'))
  BY <1>3, <1>4, BootstrapGood
<1>. QED  BY <1>3, <1>4, <1>5 DEF Inv

\* A bare preamble keeps it.
LEMMA PreambleStep ==
    ASSUME Inv, NEW c \in Conn, Preamble(c)
    PROVE  Inv'
<1>1. PICK s \in _consume_preamble(c) : After(s, Classified(s.server, c))
  BY DEF Preamble
<1>2. c \in Live(server)
  BY DEF Preamble, Speaks
<1>3. /\ Held(s.server) /\ s.failed \in BOOLEAN
      /\ ~s.failed => Exact(s.server) /\ Counted(s.server)
  BY <1>2, PreambleGood
<1>4. server' = Classified(s.server, c) /\ failed' = s.failed
  BY <1>1 DEF After
<1>5. Held(server') /\ (~s.failed => Exact(server') /\ Counted(server'))
  BY <1>3, <1>4, KindGood DEF Classified
<1>. QED  BY <1>3, <1>4, <1>5 DEF Inv

\* An AUTH keeps it.
LEMMA AuthStep ==
    ASSUME Inv, NEW c \in Conn, NEW t \in Token \cup {NoToken}, Auth(c, t)
    PROVE  Inv'
<1>1. PICK s \in _consume_preamble(c) :
        After(s, _process_realtime(Classified(s.server, c), c, t))
  BY DEF Auth
<1>2. c \in Live(server)
  BY DEF Auth, Speaks
<1>. DEFINE k == Classified(s.server, c)
<1>3. /\ Held(s.server) /\ s.failed \in BOOLEAN
      /\ ~s.failed => /\ Exact(s.server) /\ Counted(s.server)
                      /\ s.server.session[c].phase = "live"
  BY <1>2, PreambleGood
<1>4. server' = _process_realtime(k, c, t) /\ failed' = s.failed
  BY <1>1 DEF After
<1>5. /\ Held(k)
      /\ ~s.failed => Exact(k) /\ Counted(k) /\ k.session[c].phase = "live"
  BY <1>3, KindGood DEF Classified
<1>. HIDE DEF k
<1>6. Held(server') /\ (~s.failed => Exact(server') /\ Counted(server'))
  BY <1>4, <1>5, RealtimeGood
<1>. QED  BY <1>3, <1>4, <1>6 DEF Inv

\* A handler that fails leaves Held: the session it served is dropped.
LEMMA FailStep ==
    ASSUME Inv, NEW c \in Conn, NEW t \in Token, HelloFails(c, t) \/ AuthFails(c, t)
    PROVE  Inv'
<1>1. failed' = TRUE
  BY DEF HelloFails, AuthFails
<1>. DEFINE e == ensure_player(server, t)
            u == ensure_player(Supersede(server, t), t)
            r == Register(server, c, t)
<1>2. Held(e) /\ Held(u) /\ Held(r)
  BY EnsureGood, SupersedeGood, RegisterGood DEF Inv
<1>3. Held(server')
  BY <1>2, DropGood DEF HelloFails, AuthFails
<1>. QED  BY <1>1, <1>3 DEF Inv

\* Dropping a live session keeps it, for whatever reason.
LEMMA DropStep ==
    ASSUME Inv, NEW c \in Conn, Close(c) \/ IdleTimeout(c) \/ AuthTimeout(c)
    PROVE  Inv'
<1>1. server' = _drop_session(server, c) /\ c \in Live(server) /\ failed' = failed
  BY DEF Close, IdleTimeout, AuthTimeout
<1>2. Held(server') /\ (~failed => Exact(server') /\ Counted(server'))
  BY <1>1, DropGood DEF Inv, Live
<1>. QED  BY <1>1, <1>2 DEF Inv

\* A new session has no token.
LEMMA AcceptStep ==
    ASSUME Inv, NEW c \in Conn, Accept(c)
    PROVE  Inv'
<1>. DEFINE fresh == [NewSession EXCEPT !.phase = "live"]
            S == [server.session EXCEPT ![c] = fresh]
<1>1. server' = [server EXCEPT !.session = S] /\ server.session[c].phase = "new"
  BY DEF Accept, Inv, Held, Server
<1>2. /\ fresh \in Session /\ fresh.token = NoToken /\ fresh.phase = "live"
      /\ server \in Server
  BY DEF Session, NewSession, Inv, Held
<1>. HIDE DEF fresh
<1>3. S \in [Conn -> Session]
  BY <1>2 DEF Server
<1>. HIDE DEF S
<1>4. /\ server' \in Server /\ server'.session = S /\ server'.players = server.players
      /\ server'.bootstrapped_tokens = server.bootstrapped_tokens
      /\ server'.realtime_by_token = server.realtime_by_token
      /\ server'.stored_online = server.stored_online
      /\ server'.entered = server.entered
      /\ server'.lobby = server.lobby /\ server'.serving = server.serving
  BY <1>1, <1>2, <1>3 DEF Server
<1>5. Held(server')
  BY <1>2, <1>4 DEF Inv, Held, Server, S
<1>6. Exact(server) => Exact(server')
  BY <1>1, <1>2, <1>4 DEF Exact, Server, S
<1>7. Counted(server) => Counted(server')
  BY <1>4 DEF Counted, Online
<1>8. failed' = failed
  BY DEF Accept
<1>. QED  BY <1>5, <1>6, <1>7, <1>8 DEF Inv

\* A mark expires, and the player with it unless it is attached.
LEMMA ExpireStep ==
    ASSUME Inv, NEW t \in Token, Expire(t)
    PROVE  Inv'
<1>. DEFINE B == server.bootstrapped_tokens \ {t}
            s == [server EXCEPT !.bootstrapped_tokens = B]
<1>1. server' = IF t \in Online(s) THEN s ELSE detach_player(s, t)
  BY DEF Expire
<1>2. server \in Server /\ B \in SUBSET Token
  BY DEF Inv, Held, Server
<1>3. /\ s \in Server /\ s.session = server.session /\ s.players = server.players
      /\ s.bootstrapped_tokens = B
      /\ s.realtime_by_token = server.realtime_by_token
      /\ s.stored_online = server.stored_online /\ s.entered = server.entered
      /\ s.lobby = server.lobby /\ s.serving = server.serving
  BY <1>2 DEF Server
<1>. HIDE DEF s
<1>4. /\ server' \in Server /\ server'.session = server.session
      /\ server'.players = IF t \in Online(s) THEN server.players
                                               ELSE server.players \ {t}
      /\ server'.bootstrapped_tokens = B
      /\ server'.realtime_by_token = server.realtime_by_token
      /\ server'.stored_online = server.stored_online
      /\ server'.entered = server.entered
      /\ server'.lobby = server.lobby /\ server'.serving = server.serving
  BY <1>1, <1>3 DEF Server, detach_player
<1>5. t \in Online(s) <=> server.realtime_by_token[t] # NoConn
  BY <1>3 DEF Online
<1>6. Held(server')
  BY <1>4, <1>5 DEF Inv, Held
<1>7. Exact(server) => Exact(server')
  BY <1>2, <1>4, <1>5 DEF Exact, Server, B
<1>8. Counted(server) => Counted(server')
  BY <1>4 DEF Counted, Online
<1>9. failed' = failed
  BY DEF Expire
<1>. QED  BY <1>6, <1>7, <1>8, <1>9 DEF Inv

\* Shutdown empties the registry of live sessions.
LEMMA StopStep ==
    ASSUME Inv, Stop
    PROVE  Inv'
<1>. DEFINE left == {t \in Token : \E c \in Live(server) :
                       /\ server.session[c].token = t
                       /\ server.realtime_by_token[t] = c}
            S == [c \in Conn |-> IF c \in Live(server) THEN GoneSession
                                 ELSE server.session[c]]
            R == [t \in Token |-> IF t \in left THEN NoConn
                                  ELSE server.realtime_by_token[t]]
            E == [t \in Token |-> IF t \in left THEN server.entered[t] - 1
                                  ELSE server.entered[t]]
            P == server.players \ left
            O == server.stored_online \ left
<1>1. server' = [server EXCEPT !.serving = FALSE, !.lobby = Deleted, !.session = S,
                               !.realtime_by_token = R, !.players = P,
                               !.stored_online = O, !.entered = E]
  BY DEF Stop
<1>2. server \in Server
  BY DEF Inv, Held
<1>3. GoneSession \in Session
  BY DEF Session, GoneSession, NewSession
<1>4. S \in [Conn -> Session]
  BY <1>2, <1>3 DEF Server
<1>5. R \in [Token -> Conn \cup {NoConn}]
  BY <1>2 DEF Server
<1>6. E \in [Token -> Int]
  BY <1>2 DEF Server
<1>7. P \in SUBSET Token /\ O \in SUBSET Token
  BY <1>2 DEF Server
<1>8. \A c \in Conn : S[c].phase # "live"
  BY DEF Live, GoneSession, NewSession
<1>9. \A t \in Token : R[t] # NoConn => t \notin left /\ t \in server.players
  BY DEF Inv, Held
<1>10. ASSUME Exact(server)
       PROVE  \A t \in Token : t \in left <=> server.realtime_by_token[t] # NoConn
  BY <1>2, <1>10, LifecycleAssumption DEF Exact, Server, Live
<1>11. Exact(server) => /\ \A t \in Token : R[t] = NoConn /\ E[t] = 0 /\ t \notin O
  BY <1>2, <1>10 DEF Exact, Server
<1>. HIDE DEF left, S, R, E, P, O
<1>12. /\ server' \in Server /\ server'.session = S /\ server'.players = P
       /\ server'.realtime_by_token = R /\ server'.stored_online = O
       /\ server'.entered = E /\ server'.serving = FALSE
  BY <1>1, <1>2, <1>4, <1>5, <1>6, <1>7 DEF Server
<1>13. Held(server')
  BY <1>8, <1>9, <1>12 DEF Held, P
<1>14. Exact(server) => Exact(server')
  BY <1>11, <1>12 DEF Exact
<1>15. Counted(server')
  BY <1>12 DEF Counted
<1>16. failed' = failed
  BY DEF Stop
<1>. QED  BY <1>13, <1>14, <1>15, <1>16 DEF Inv

-----------------------------------------------------------------------------

\* The invariant holds at first.
LEMMA InitGood == Init => Inv
<1>. SUFFICES ASSUME Init PROVE Inv
  OBVIOUS
<1>1. Held(server)
  BY DEF Init, Held, Server, Session, NewSession
<1>2. Exact(server)
  BY DEF Init, Exact
<1>3. Online(server) = {}
  BY DEF Init, Online
<1>4. Counted(server)
  BY <1>3, FS_EmptySet DEF Init, Counted
<1>5. failed = FALSE
  BY DEF Init
<1>. QED  BY <1>1, <1>2, <1>4, <1>5 DEF Inv

\* Every step keeps it.
LEMMA NextGood == Inv /\ [Next]_vars => Inv'
<1>. SUFFICES ASSUME Inv, [Next]_vars PROVE Inv'
  OBVIOUS
<1>1. CASE UNCHANGED vars
  BY <1>1 DEF vars, Inv
<1>2. ASSUME NEW c \in Conn, Accept(c) \/ Preamble(c) \/ FallSilent(c) \/ Close(c)
                             \/ IdleTimeout(c) \/ AuthTimeout(c)
      PROVE  Inv'
  <2>1. CASE FallSilent(c)
    BY <2>1 DEF FallSilent, Inv
  <2>. QED  BY <1>2, <2>1, AcceptStep, PreambleStep, DropStep
<1>3. ASSUME NEW c \in Conn, NEW t \in Token \cup {NoToken}, Hello(c, t) \/ Auth(c, t)
      PROVE  Inv'
  BY <1>3, HelloStep, AuthStep
<1>4. ASSUME NEW c \in Conn, NEW t \in Token, HelloFails(c, t) \/ AuthFails(c, t)
      PROVE  Inv'
  BY <1>4, FailStep
<1>5. ASSUME NEW t \in Token, Expire(t) PROVE Inv'
  BY <1>5, ExpireStep
<1>6. CASE Stop
  BY <1>6, StopStep
<1>. QED  BY <1>1, <1>2, <1>3, <1>4, <1>5, <1>6 DEF Next

\* Inv holds in every reachable state.
THEOREM LifecycleInvariance == Spec => []Inv
<1>. QED  BY InitGood, NextGood, PTL DEF Spec

\* Whatever fails, a live session that carries a token is the registered one.
THEOREM LiveSessionsRegistered == Spec => []LiveRegistered
<1>1. Inv => LiveRegistered
  BY DEF Inv, Held, LiveRegistered, Live
<1>. QED  BY <1>1, LifecycleInvariance, PTL

\* Whatever fails, the tick finds the player of every attached session.
THEOREM PlayersInWorld == Spec => []AttachedInWorld
<1>1. Inv => AttachedInWorld
  BY DEF Inv, Held, AttachedInWorld, Online
<1>. QED  BY <1>1, LifecycleInvariance, PTL

\* Until a probe or a save fails, only live sessions are registered: every
\* token shown as online has a client that the timers watch.
THEOREM OnlineMeansLive == Spec => []OnlyLiveRegistered
<1>1. Inv => OnlyLiveRegistered
  BY LifecycleAssumption DEF Inv, Held, Server, Exact, OnlyLiveRegistered, Online, Live
<1>. QED  BY <1>1, LifecycleInvariance, PTL

\* Until a probe or a save fails, no player is left in the world without a
\* client that is attached or may still attach.
THEOREM WorldHasNoGhosts == Spec => []NoGhostsYet
<1>1. Inv => NoGhostsYet
  BY DEF Inv, Held, Server, Exact, NoGhostsYet, NoGhosts, Online
<1>. QED  BY <1>1, LifecycleInvariance, PTL

\* Until a probe or a save fails, arrivals and departures are announced once,
\* and sessions.json and the lobby agree with the registry.
THEOREM AnnouncementsAgree == Spec => []AnnouncedOnce
<1>1. Inv => AnnouncedOnce
  BY DEF Inv, Held, Server, Exact, Counted, AnnouncedOnce, Online
<1>. QED  BY <1>1, LifecycleInvariance, PTL

\* Whoever is served is registered and in the world, whatever fails.
THEOREM ServedInWorld == Spec => []Served
<1>1. LiveRegistered /\ AttachedInWorld => Served
  BY DEF Served
<1>. QED  BY <1>1, LiveSessionsRegistered, PlayersInWorld, PTL

\* Until a probe or a save fails, the registry, the world, sessions.json and the
\* lobby tell the same story.
THEOREM AllInStep == Spec => []InStep
<1>1. OnlyLiveRegistered /\ NoGhostsYet /\ AnnouncedOnce => InStep
  BY DEF InStep
<1>. QED  BY <1>1, OnlineMeansLive, WorldHasNoGhosts, AnnouncementsAgree, PTL
=============================================================================
