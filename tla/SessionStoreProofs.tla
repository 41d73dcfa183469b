-------------------------- MODULE SessionStoreProofs --------------------------
(***************************************************************************)
(* sessions.json until the calls of two processes overlap, for every       *)
(* number of clients, names, saves, restarts and overlaps and a crash at   *)
(* any point: KeptUntil is inductive; NamesHeld, ProgressKept,             *)
(* OnlineHonest and ResetComplete follow.                                  *)
(***************************************************************************)
EXTENDS SessionStore, FiniteSetTheorems, SequenceTheorems, TLAPS

\* A process, and what the game server has in memory.
Proc == [pc : {"down", "idle", "open", "write", "replace"}, todo : Seq(Call),
         sessions : Sessions, handle : Inode \cup {NoFile}, boots : Nat]
Players == UNION {[tokens -> [username : Name, progress : Progress]] : tokens \in SUBSET Token}

\* Everything keeps its type, and the file can always be read.
Typed ==
    /\ path \in Inode \cup {NoFile} /\ tmp_path \in Inode \cup {NoFile}
    /\ content \in [Inode -> Sessions \cup {Torn}]
    /\ proc \in [Process -> Proc]
    /\ players \in Players /\ realtime \subseteq DOMAIN players
    /\ DOMAIN players \subseteq issued /\ issued \subseteq Token
    /\ File \in Sessions

\* What a process has of the file: only one is inside a call, the temporary file is
\* its own, and what it is going to write is the file with its call applied.
Holds(p) ==
    LET me == proc[p]
    IN  /\ Busy(p) => /\ \A q \in Process : Busy(q) => q = p
                      /\ me.todo # <<>> /\ Saves(Head(me.todo), File)
                      /\ me.sessions = Changed(Head(me.todo), File)
        /\ me.pc \in {"down", "idle", "open"} => me.handle = NoFile
        /\ me.pc \in {"write", "replace"} => me.handle = tmp_path /\ tmp_path \in Inode
        /\ me.pc = "write" => content[me.handle] = Torn
        /\ me.pc = "replace" => content[me.handle] = me.sessions
        /\ me.pc = "down" => me.todo = <<>>

\* Only one process writes, and never to the file itself.
OneWriter ==
    /\ tmp_path # NoFile => tmp_path # path
    /\ \A p \in Process : Holds(p)

\* Whoever is in the file holds a token, and has the name it was told.
Registered ==
    /\ DOMAIN File \subseteq issued
    /\ DOMAIN granted \subseteq DOMAIN File
    /\ \A t \in DOMAIN granted : File[t].username = granted[t]

\* No player in memory is behind its save.
Ahead ==
    \A t \in DOMAIN players :
        StateIn(File, t) # NoState => players[t].progress >= StateIn(File, t).progress

\* The login server serves one request: a new token is nobody's yet.
LoginWork ==
    Login \in Process =>
      \/ proc[Login].todo = <<>>
      \/ \E t \in Token, n \in Name :
           \/ t \notin issued /\ proc[Login].todo = <<RegisterCall(t, n)>>
           \/ t \in issued /\ proc[Login].todo \in {<<ResumeCall(t)>>, <<RenameCall(t, n)>>}

\* But for the tokens T the file shows online exactly who is attached.
Honest(T) == \A t \in Token \ T : OnlineIn(File, t) <=> t \in realtime

\* The game server has just started, or saves one player as it is in memory and may
\* then set it on- or offline; for the rest the file is honest.
GameWork ==
    Game \in Process =>
      LET me == proc[Game]
      IN  \/ me.pc = "down" /\ players = <<>> /\ realtime = {}
          \/ me.todo = <<>> /\ me.pc = "idle" /\ Honest({})
          \/ me.todo = <<OfflineCall>> /\ realtime = {}
          \/ \E t \in DOMAIN players : me.todo = <<SaveOf(t)>> /\ Honest({})
          \/ \E t \in DOMAIN players, online \in BOOLEAN :
               /\ me.todo \in {<<SaveOf(t), OnlineCall(t, online)>>, <<OnlineCall(t, online)>>}
               /\ Honest({t})
               /\ ~online => t \notin realtime
               /\ Busy(Game) /\ me.todo = <<OnlineCall(t, TRUE)>> => t \in realtime

\* The reset tool has still to reset every old save that is left.
ResetWork ==
    Reset \in Process =>
      /\ \A i \in DOMAIN proc[Reset].todo :
           \E t \in issued, n \in Name : proc[Reset].todo[i] = SaveCall(t, n, FreshState)
      /\ proc[Reset].pc # "down" =>
           \A t \in OldSaves : \E i \in DOMAIN proc[Reset].todo : proc[Reset].todo[i].token = t

\* The inductive invariant.
Kept ==
    /\ Typed /\ OneWriter /\ Registered /\ Ahead
    /\ LoginWork /\ GameWork /\ ResetWork

-----------------------------------------------------------------------------
(* What a call changes.                                                     *)

\* The sessions of a file are a function from some tokens to records.
LEMMA SessionsAre ==
    \A s : s \in Sessions <=> DOMAIN s \subseteq Token /\ s \in [DOMAIN s -> Record]
<1> SUFFICES ASSUME NEW s
             PROVE  s \in Sessions <=> DOMAIN s \subseteq Token /\ s \in [DOMAIN s -> Record]
  OBVIOUS
<1>1. ASSUME s \in Sessions PROVE DOMAIN s \subseteq Token /\ s \in [DOMAIN s -> Record]
  <2>1. PICK tokens \in SUBSET Token : s \in [tokens -> Record]
    BY <1>1 DEF Sessions
  <2> QED BY <2>1
<1>2. ASSUME DOMAIN s \subseteq Token, s \in [DOMAIN s -> Record] PROVE s \in Sessions
  BY <1>2 DEF Sessions
<1> QED BY <1>1, <1>2

\* No file, and no player.
LEMMA EmptyIs == <<>> \in Sessions /\ <<>> \in Players /\ DOMAIN <<>> = {} /\ <<>> \in Seq(Call)
<1>1. <<>> \in [{} -> Record] /\ <<>> \in [{} -> [username : Name, progress : Progress]]
  OBVIOUS
<1> QED BY <1>1 DEF Sessions, Players

\* The four kinds of state and their fields.
LEMMA RecordIs ==
    ASSUME NEW s \in Sessions, NEW t \in DOMAIN s
    PROVE  /\ t \in Token /\ s[t] \in Record /\ s[t].username \in Name
           /\ s[t].state \in PlayerState \cup {NoState} /\ s[t].online \in BOOLEAN
<1>1. t \in Token /\ s[t] \in Record
  BY SessionsAre
<1> QED BY <1>1 DEF Record

\* The record of one token becomes another.
LEMMA PutIs ==
    ASSUME NEW s \in Sessions, NEW t \in Token, NEW r \in Record, NEW n, n = Put(s, t, r)
    PROVE  /\ n \in Sessions /\ DOMAIN n = DOMAIN s \cup {t} /\ n[t] = r
           /\ \A u \in DOMAIN s : u # t => n[u] = s[u]
<1>1. DOMAIN s \subseteq Token /\ s \in [DOMAIN s -> Record]
  BY SessionsAre
<1>2. n = [u \in DOMAIN s \cup {t} |-> IF u = t THEN r ELSE s[u]]
  BY DEF Put
<1>3. /\ DOMAIN n = DOMAIN s \cup {t} /\ n[t] = r
      /\ \A u \in DOMAIN s : u # t => n[u] = s[u]
  BY <1>2
<1>4. n \in [DOMAIN n -> Record] /\ DOMAIN n \subseteq Token
  BY <1>1, <1>2
<1> QED BY <1>3, <1>4, SessionsAre

\* The calls and their arguments.
LEMMA CallIs ==
    ASSUME NEW c \in Call
    PROVE  /\ c.call \in {"register", "rename", "resume", "save_player_state", "set_online",
                          "set_all_offline"}
           /\ c.call # "set_all_offline" => c.token \in Token
           /\ c.call \in {"register", "rename", "save_player_state"} => c.username \in Name
           /\ c.call = "save_player_state" => c.state \in PlayerState
           /\ c.call = "set_online" => c.online \in BOOLEAN
  BY DEF Call

\* The calls as they are made.
LEMMA CallsMade ==
    /\ \A t \in Token, n \in Name :
         /\ RegisterCall(t, n) \in Call /\ RegisterCall(t, n).call = "register"
         /\ RegisterCall(t, n).token = t /\ RegisterCall(t, n).username = n
         /\ RenameCall(t, n) \in Call /\ RenameCall(t, n).call = "rename"
         /\ RenameCall(t, n).token = t /\ RenameCall(t, n).username = n
    /\ \A t \in Token :
         /\ ResumeCall(t) \in Call /\ ResumeCall(t).call = "resume" /\ ResumeCall(t).token = t
    /\ \A t \in Token, n \in Name, state \in PlayerState :
         /\ SaveCall(t, n, state) \in Call /\ SaveCall(t, n, state).call = "save_player_state"
         /\ SaveCall(t, n, state).token = t /\ SaveCall(t, n, state).state = state
    /\ \A t \in Token, online \in BOOLEAN :
         /\ OnlineCall(t, online) \in Call /\ OnlineCall(t, online).call = "set_online"
         /\ OnlineCall(t, online).token = t /\ OnlineCall(t, online).online = online
    /\ OfflineCall \in Call /\ OfflineCall.call = "set_all_offline"
  BY DEF RegisterCall, RenameCall, ResumeCall, SaveCall, OnlineCall, OfflineCall, Call

\* One call, or two.
LEMMA ShortSequences ==
    ASSUME NEW c \in Call, NEW d \in Call
    PROVE  /\ <<c>> \in Seq(Call) /\ <<c, d>> \in Seq(Call)
           /\ <<c>> \o <<>> = <<c>> /\ <<c>> \o <<d>> = <<c, d>>
<1>1. <<c>> \in Seq(Call) /\ <<c, d>> \in Seq(Call)
  OBVIOUS
<1>2. <<c>> \o <<>> = <<c>>
  BY <1>1, ConcatEmptySeq
<1>3. <<c>> \o <<d>> = Append(<<c>>, d)
  BY <1>1, AppendIsConcat
<1>4. Append(<<c>>, d) = <<c, d>>
  <2> DEFINE a == Append(<<c>>, d)
  <2>1. Len(<<c>>) = 1 /\ <<c>>[1] = c
    OBVIOUS
  <2>2. a \in Seq(Call) /\ Len(a) = 2 /\ a[1] = c /\ a[2] = d
    BY <1>1, <2>1, AppendProperties
  <2> HIDE DEF a
  <2>3. Len(<<c, d>>) = 2 /\ <<c, d>>[1] = c /\ <<c, d>>[2] = d
    OBVIOUS
  <2>4. \A i \in 1 .. Len(a) : a[i] = <<c, d>>[i]
    <3>1. \A i \in 1 .. Len(a) : i = 1 \/ i = 2
      BY <2>2
    <3> QED BY <3>1, <2>2, <2>3
  <2>5. a = <<c, d>>
    BY <1>1, <2>2, <2>3, <2>4, SeqEqual
  <2> QED BY <2>5 DEF a
<1> QED BY <1>1, <1>2, <1>3, <1>4

\* What is after a call that saves: the names ...
NamesAfter(c, s, n) ==
    /\ \A t \in DOMAIN s :
         n[t].username = IF c.call \in {"register", "rename"} /\ t = c.token
                         THEN c.username ELSE s[t].username
    /\ c.call \in {"register", "rename"} => c.token \in DOMAIN n /\ n[c.token].username = c.username

\* ... the saves ...
StatesAfter(c, s, n) ==
    \A t \in Token :
        StateIn(n, t) = IF c.call = "save_player_state" /\ t = c.token THEN c.state
                        ELSE IF c.call = "register" /\ t = c.token THEN NoState
                        ELSE StateIn(s, t)

\* ... and who is online.
OnlineAfter(c, s, n) ==
    \A t \in Token :
        OnlineIn(n, t) <=>
            \/ c.call = "set_online" /\ t = c.token /\ c.online = TRUE
            \/ /\ OnlineIn(s, t)
               /\ c.call # "set_all_offline" /\ ~(c.call \in {"register", "set_online"} /\ t = c.token)

\* One record is put into the sessions.
LEMMA PutEffect ==
    ASSUME NEW s \in Sessions, NEW t \in Token, NEW r \in Record, NEW n, n = Put(s, t, r)
    PROVE  /\ n \in Sessions /\ DOMAIN n = DOMAIN s \cup {t}
           /\ n[t] = r /\ StateIn(n, t) = r.state /\ (OnlineIn(n, t) <=> r.online)
           /\ \A u \in DOMAIN s : u # t => n[u] = s[u]
           /\ \A u : u # t => StateIn(n, u) = StateIn(s, u) /\ (OnlineIn(n, u) <=> OnlineIn(s, u))
<1>1. /\ n \in Sessions /\ DOMAIN n = DOMAIN s \cup {t} /\ n[t] = r
      /\ \A u \in DOMAIN s : u # t => n[u] = s[u]
  BY PutIs
<1>2. t \in DOMAIN n
  BY <1>1
<1>3. StateIn(n, t) = r.state /\ (OnlineIn(n, t) <=> r.online)
  BY <1>1, <1>2 DEF StateIn, OnlineIn
<1>4. ASSUME NEW u, u # t
      PROVE  StateIn(n, u) = StateIn(s, u) /\ (OnlineIn(n, u) <=> OnlineIn(s, u))
  <2>1. u \in DOMAIN n <=> u \in DOMAIN s
    BY <1>1, <1>4
  <2>2. u \in DOMAIN s => n[u] = s[u]
    BY <1>1, <1>4
  <2> QED BY <2>1, <2>2 DEF StateIn, OnlineIn
<1> QED BY <1>1, <1>3, <1>4

\* A call that saves leaves sessions, of at most one token more.
LEMMA Effect ==
    ASSUME NEW s \in Sessions, NEW c \in Call, Saves(c, s), NEW n, n = Changed(c, s)
    PROVE  /\ n \in Sessions /\ NamesAfter(c, s, n) /\ StatesAfter(c, s, n) /\ OnlineAfter(c, s, n)
           /\ DOMAIN n = IF c.call = "set_all_offline" THEN DOMAIN s ELSE DOMAIN s \cup {c.token}
<1>1. CASE c.call = "register"
  <2> DEFINE r == NewRecord(c.username)
  <2>1. /\ r \in Record /\ r.username = c.username /\ r.state = NoState /\ r.online = FALSE
        /\ c.token \in Token
    BY <1>1, CallIs DEF NewRecord, Record
  <2>2. n = Put(s, c.token, r)
    BY <1>1 DEF Changed, register
  <2> HIDE DEF r
  <2>p. /\ n \in Sessions /\ DOMAIN n = DOMAIN s \cup {c.token}
        /\ n[c.token] = r /\ StateIn(n, c.token) = r.state /\ (OnlineIn(n, c.token) <=> r.online)
        /\ \A u \in DOMAIN s : u # c.token => n[u] = s[u]
        /\ \A u : u # c.token => StateIn(n, u) = StateIn(s, u) /\ (OnlineIn(n, u) <=> OnlineIn(s, u))
    <3> DEFINE t == c.token
    <3>1. t \in Token /\ r \in Record /\ n = Put(s, t, r)
      BY <2>1, <2>2
    <3> HIDE DEF t
    <3>2. /\ n \in Sessions /\ DOMAIN n = DOMAIN s \cup {t}
          /\ n[t] = r /\ StateIn(n, t) = r.state /\ (OnlineIn(n, t) <=> r.online)
          /\ \A u \in DOMAIN s : u # t => n[u] = s[u]
          /\ \A u : u # t => StateIn(n, u) = StateIn(s, u) /\ (OnlineIn(n, u) <=> OnlineIn(s, u))
      BY <3>1, PutEffect
    <3> QED BY <3>2 DEF t
  <2>n. NamesAfter(c, s, n)
    BY <1>1, <2>1, <2>2, <2>p DEF NamesAfter
  <2>s. StatesAfter(c, s, n)
    BY <1>1, <2>1, <2>2, <2>p DEF StatesAfter
  <2>o. OnlineAfter(c, s, n)
    BY <1>1, <2>1, <2>2, <2>p DEF OnlineAfter
  <2> QED BY <1>1, <2>1, <2>2, <2>p, <2>n, <2>s, <2>o
<1>2. CASE c.call = "resume"
  <2> DEFINE r == NewRecord(ResumeName[c.token])
  <2>1. /\ r \in Record /\ r.state = NoState /\ r.online = FALSE /\ c.token \in Token
        /\ c.token \notin DOMAIN s
    BY <1>2, CallIs, StoreAssumption DEF NewRecord, Record, Saves
  <2>2. n = Put(s, c.token, r)
    BY <1>2 DEF Changed, resume
  <2>3. StateIn(s, c.token) = NoState /\ ~OnlineIn(s, c.token)
    BY <2>1 DEF StateIn, OnlineIn
  <2> HIDE DEF r
  <2>p. /\ n \in Sessions /\ DOMAIN n = DOMAIN s \cup {c.token}
        /\ n[c.token] = r /\ StateIn(n, c.token) = r.state /\ (OnlineIn(n, c.token) <=> r.online)
        /\ \A u \in DOMAIN s : u # c.token => n[u] = s[u]
        /\ \A u : u # c.token => StateIn(n, u) = StateIn(s, u) /\ (OnlineIn(n, u) <=> OnlineIn(s, u))
    BY <2>1, <2>2, PutEffect
  <2>n. NamesAfter(c, s, n)
    BY <1>2, <2>1, <2>2, <2>3, <2>p DEF NamesAfter
  <2>s. StatesAfter(c, s, n)
    BY <1>2, <2>1, <2>2, <2>3, <2>p DEF StatesAfter
  <2>o. OnlineAfter(c, s, n)
    BY <1>2, <2>1, <2>2, <2>3, <2>p DEF OnlineAfter
  <2> QED BY <1>2, <2>1, <2>2, <2>3, <2>p, <2>n, <2>s, <2>o
<1>3. CASE c.call = "rename"
  <2> DEFINE r == [s[c.token] EXCEPT !.username = c.username]
  <2>1. c.token \in DOMAIN s /\ c.username \in Name /\ c.token \in Token
    BY <1>3, CallIs DEF Saves
  <2>2. s[c.token] \in Record /\ s[c.token].online \in BOOLEAN
    BY <2>1, RecordIs
  <2>3. /\ r \in Record /\ r.username = c.username /\ r.state = s[c.token].state
        /\ r.online = s[c.token].online
    BY <2>1, <2>2 DEF Record
  <2>4. n = [s EXCEPT ![c.token] = r]
    BY <1>3 DEF Changed, rename
  <2> HIDE DEF r
  <2>5. s \in [DOMAIN s -> Record] /\ DOMAIN s \subseteq Token
    BY SessionsAre
  <2>6. n = Put(s, c.token, r)
    BY <2>1, <2>4, <2>5 DEF Put
  <2>7. StateIn(s, c.token) = s[c.token].state /\ (OnlineIn(s, c.token) <=> s[c.token].online)
    BY <2>1 DEF StateIn, OnlineIn
  <2>q. c.token \in Token /\ r \in Record /\ r.online \in BOOLEAN
    BY <2>1, <2>2, <2>3
  <2>p. /\ n \in Sessions /\ DOMAIN n = DOMAIN s \cup {c.token}
        /\ n[c.token] = r /\ StateIn(n, c.token) = r.state /\ (OnlineIn(n, c.token) <=> r.online)
        /\ \A u \in DOMAIN s : u # c.token => n[u] = s[u]
        /\ \A u : u # c.token => StateIn(n, u) = StateIn(s, u) /\ (OnlineIn(n, u) <=> OnlineIn(s, u))
    BY <2>q, <2>6, PutEffect
  <2>n. NamesAfter(c, s, n)
    BY <1>3, <2>1, <2>3, <2>6, <2>7, <2>p DEF NamesAfter
  <2>s. StatesAfter(c, s, n)
    BY <1>3, <2>1, <2>3, <2>6, <2>7, <2>p DEF StatesAfter
  <2>o. OnlineAfter(c, s, n)
    BY <1>3, <2>1, <2>3, <2>6, <2>7, <2>p DEF OnlineAfter
  <2> QED BY <1>3, <2>1, <2>3, <2>6, <2>7, <2>p, <2>n, <2>s, <2>o
<1>4. CASE c.call = "save_player_state"
  <2> DEFINE r == [username |-> NameIn(s, c.token, c.username), state |-> c.state,
                   online |-> OnlineIn(s, c.token)]
  <2>1. /\ NameIn(s, c.token, c.username) \in Name /\ OnlineIn(s, c.token) \in BOOLEAN
        /\ c.state \in PlayerState /\ c.token \in Token
    BY <1>4, CallIs, RecordIs DEF NameIn, OnlineIn
  <2>2. /\ r \in Record /\ r.username = NameIn(s, c.token, c.username) /\ r.state = c.state
        /\ r.online = OnlineIn(s, c.token)
    BY <2>1 DEF Record
  <2>3. n = Put(s, c.token, r)
    BY <1>4 DEF Changed, save_player_state
  <2>4. c.token \in DOMAIN s => NameIn(s, c.token, c.username) = s[c.token].username
    BY DEF NameIn
  <2> HIDE DEF r
  <2>p. /\ n \in Sessions /\ DOMAIN n = DOMAIN s \cup {c.token}
        /\ n[c.token] = r /\ StateIn(n, c.token) = r.state /\ (OnlineIn(n, c.token) <=> r.online)
        /\ \A u \in DOMAIN s : u # c.token => n[u] = s[u]
        /\ \A u : u # c.token => StateIn(n, u) = StateIn(s, u) /\ (OnlineIn(n, u) <=> OnlineIn(s, u))
    BY <2>1, <2>2, <2>3, PutEffect
  <2>n. NamesAfter(c, s, n)
    BY <1>4, <2>1, <2>2, <2>3, <2>4, <2>p DEF NamesAfter
  <2>s. StatesAfter(c, s, n)
    BY <1>4, <2>1, <2>2, <2>3, <2>4, <2>p DEF StatesAfter
  <2>o. OnlineAfter(c, s, n)
    BY <1>4, <2>1, <2>2, <2>3, <2>4, <2>p DEF OnlineAfter
  <2> QED BY <1>4, <2>1, <2>2, <2>3, <2>4, <2>p, <2>n, <2>s, <2>o
<1>5. CASE c.call = "set_online"
  <2> DEFINE r == [username |-> NameIn(s, c.token, HexName[c.token]), state |-> StateIn(s, c.token),
                   online |-> c.online]
  <2>1. /\ NameIn(s, c.token, HexName[c.token]) \in Name /\ c.online \in BOOLEAN
        /\ StateIn(s, c.token) \in PlayerState \cup {NoState} /\ c.token \in Token
    BY <1>5, CallIs, RecordIs, StoreAssumption DEF NameIn, StateIn
  <2>2. /\ r \in Record /\ r.username = NameIn(s, c.token, HexName[c.token])
        /\ r.state = StateIn(s, c.token) /\ r.online = c.online
    BY <2>1 DEF Record
  <2>3. n = Put(s, c.token, r)
    BY <1>5 DEF Changed, set_online
  <2>4. c.token \in DOMAIN s => NameIn(s, c.token, HexName[c.token]) = s[c.token].username
    BY DEF NameIn
  <2> HIDE DEF r
  <2>q. c.token \in Token /\ r \in Record /\ r.online \in BOOLEAN
    BY <2>1, <2>2
  <2>p. /\ n \in Sessions /\ DOMAIN n = DOMAIN s \cup {c.token}
        /\ n[c.token] = r /\ StateIn(n, c.token) = r.state /\ (OnlineIn(n, c.token) <=> r.online)
        /\ \A u \in DOMAIN s : u # c.token => n[u] = s[u]
        /\ \A u : u # c.token => StateIn(n, u) = StateIn(s, u) /\ (OnlineIn(n, u) <=> OnlineIn(s, u))
    BY <2>q, <2>3, PutEffect
  <2>n. NamesAfter(c, s, n)
    BY <1>5, <2>1, <2>2, <2>3, <2>4, <2>p DEF NamesAfter
  <2>s. StatesAfter(c, s, n)
    BY <1>5, <2>1, <2>2, <2>3, <2>4, <2>p DEF StatesAfter
  <2>o. OnlineAfter(c, s, n)
    BY <1>5, <2>1, <2>2, <2>3, <2>4, <2>p DEF OnlineAfter
  <2> QED BY <1>5, <2>1, <2>2, <2>3, <2>4, <2>p, <2>n, <2>s, <2>o
<1>6. CASE c.call = "set_all_offline"
  <2>1. n = [t \in DOMAIN s |-> [s[t] EXCEPT !.online = FALSE]]
    BY <1>6 DEF Changed, set_all_offline
  <2>2. DOMAIN n = DOMAIN s /\ \A t \in DOMAIN s : n[t] = [s[t] EXCEPT !.online = FALSE]
    BY <2>1
  <2>3. \A t \in DOMAIN s :
          /\ n[t] \in Record /\ n[t].username = s[t].username /\ n[t].state = s[t].state
          /\ n[t].online = FALSE
    BY <2>2, RecordIs DEF Record
  <2>4. n \in Sessions
    BY <2>1, <2>2, <2>3, SessionsAre
  <2> QED BY <1>6, <2>2, <2>3, <2>4 DEF NamesAfter, StatesAfter, OnlineAfter, StateIn, OnlineIn
<1> QED BY <1>1, <1>2, <1>3, <1>4, <1>5, <1>6, CallIs
-----------------------------------------------------------------------------
(* The processes and the file.                                              *)

\* A process that is not inside a call has no part in the file.
LEMMA QuietHolds ==
    ASSUME NEW q \in Process, Holds(q), ~Busy(q), proc'[q] = proc[q]
    PROVE  Holds(q)'
  BY DEF Holds, Busy

\* Nor is any process disturbed while the file stays and no other enters a call.
LEMMA StillHolds ==
    ASSUME NEW q \in Process, Holds(q), UNCHANGED files, proc'[q] = proc[q],
           \A r \in Process : Busy(r)' => Busy(r)
    PROVE  Holds(q)'
<1>1. File' = File
  BY DEF File, files
<1> QED BY <1>1 DEF Holds, Busy, files

\* One process changes.
LEMMA OneChanges ==
    ASSUME NEW p \in Process, proc \in [Process -> Proc], NEW x \in Proc,
           proc' = [proc EXCEPT ![p] = x]
    PROVE  /\ proc' \in [Process -> Proc] /\ proc'[p] = x
           /\ \A q \in Process : q # p => proc'[q] = proc[q]
  OBVIOUS

\* The fields of a process.
LEMMA ProcIs ==
    ASSUME NEW x \in Proc
    PROVE  /\ x.pc \in {"down", "idle", "open", "write", "replace"} /\ x.todo \in Seq(Call)
           /\ x.sessions \in Sessions /\ x.handle \in Inode \cup {NoFile} /\ x.boots \in Nat
  BY DEF Proc

\* A process that has ended, or returned from a call.
LEMMA DownIs ==
    ASSUME NEW b \in Nat, NEW todo \in Seq(Call)
    PROVE  /\ Down(b) \in Proc /\ Down(b).pc = "down" /\ Down(b).todo = <<>>
           /\ Down(b).handle = NoFile
           /\ LET x == [Down(b) EXCEPT !.pc = "idle", !.todo = todo]
              IN  x \in Proc /\ x.pc = "idle" /\ x.todo = todo /\ x.handle = NoFile
  BY EmptyIs DEF Down, Proc

\* What the login server is asked for.
LEMMA LoginHead ==
    ASSUME Kept, Login \in Process, proc[Login].todo # <<>>
    PROVE  LET c == Head(proc[Login].todo)
           IN  /\ Tail(proc[Login].todo) = <<>> /\ c \in Call
               /\ \/ c.call = "register" /\ c.token \in Token \ issued
                  \/ c.call \in {"resume", "rename"} /\ c.token \in issued
<1>1. issued \subseteq Token
  BY DEF Kept, Typed
<1>2. PICK t \in Token, n \in Name :
           \/ t \notin issued /\ proc[Login].todo = <<RegisterCall(t, n)>>
           \/ t \in issued /\ proc[Login].todo \in {<<ResumeCall(t)>>, <<RenameCall(t, n)>>}
  BY DEF Kept, LoginWork
<1>3. CASE t \notin issued /\ proc[Login].todo = <<RegisterCall(t, n)>>
  <2>1. Head(proc[Login].todo) = RegisterCall(t, n) /\ Tail(proc[Login].todo) = <<>>
    BY <1>3
  <2> QED BY <1>3, <2>1, CallsMade
<1>4. CASE t \in issued /\ proc[Login].todo = <<ResumeCall(t)>>
  <2>1. Head(proc[Login].todo) = ResumeCall(t) /\ Tail(proc[Login].todo) = <<>>
    BY <1>4
  <2> QED BY <1>4, <2>1, CallsMade
<1>5. CASE t \in issued /\ proc[Login].todo = <<RenameCall(t, n)>>
  <2>1. Head(proc[Login].todo) = RenameCall(t, n) /\ Tail(proc[Login].todo) = <<>>
    BY <1>5
  <2> QED BY <1>5, <2>1, CallsMade
<1> QED BY <1>2, <1>3, <1>4, <1>5

\* What the reset tool does next.
LEMMA ResetHead ==
    ASSUME Kept, Reset \in Process, proc[Reset].todo # <<>>
    PROVE  LET c == Head(proc[Reset].todo)
           IN  /\ c \in Call /\ c.call = "save_player_state" /\ c.state = FreshState
               /\ c.token \in issued
<1>1. issued \subseteq Token /\ proc[Reset].todo \in Seq(Call)
  BY ProcIs DEF Kept, Typed
<1>2. Head(proc[Reset].todo) = proc[Reset].todo[1] /\ 1 \in DOMAIN proc[Reset].todo
  BY <1>1, HeadTailProperties, LenProperties, EmptySeq
<1>3. PICK t \in issued, n \in Name : proc[Reset].todo[1] = SaveCall(t, n, FreshState)
  BY <1>2 DEF Kept, ResetWork
<1>4. FreshState \in PlayerState
  BY StoreAssumption DEF FreshState, PlayerState, Progress
<1> QED BY <1>1, <1>2, <1>3, <1>4, CallsMade

\* A player in memory.
LEMMA PlayerIs ==
    ASSUME Typed, NEW t \in DOMAIN players
    PROVE  /\ t \in issued /\ t \in Token /\ players[t].username \in Name
           /\ players[t].progress \in Progress /\ StateOf(t) \in PlayerState
           /\ StateOf(t).current = TRUE /\ StateOf(t).progress = players[t].progress
<1>1. PICK tokens \in SUBSET Token : players \in [tokens -> [username : Name, progress : Progress]]
  BY DEF Typed, Players
<1> QED BY <1>1 DEF Typed, StateOf, PlayerState

\* What the game server may be about to do: to set everybody offline, ...
Sweeps ==
    /\ proc[Game].todo = <<OfflineCall>> /\ Tail(proc[Game].todo) = <<>> /\ realtime = {}
    /\ Head(proc[Game].todo) \in Call /\ Head(proc[Game].todo).call = "set_all_offline"

\* ... to save a player, with the calls of rest to make after that, ...
SavesPlayer(t, rest) ==
    /\ Head(proc[Game].todo) = SaveOf(t) /\ Tail(proc[Game].todo) = rest
    /\ SaveOf(t) \in Call /\ SaveOf(t).call = "save_player_state"
    /\ SaveOf(t).token = t /\ SaveOf(t).state = StateOf(t)

\* ... or to set one on- or offline.
SetsOnline(t, online) ==
    /\ proc[Game].todo = <<OnlineCall(t, online)>> /\ Tail(proc[Game].todo) = <<>>
    /\ Head(proc[Game].todo) \in Call /\ Head(proc[Game].todo).call = "set_online"
    /\ Head(proc[Game].todo).token = t /\ Head(proc[Game].todo).online = online
    /\ Honest({t}) /\ (~online => t \notin realtime)
    /\ Busy(Game) /\ online = TRUE => t \in realtime

\* What the game server does next.
LEMMA GameHead ==
    ASSUME Kept, Game \in Process, proc[Game].todo # <<>>
    PROVE  \/ Sweeps
           \/ \E t \in DOMAIN players : SavesPlayer(t, <<>>) /\ Honest({})
           \/ \E t \in DOMAIN players, online \in BOOLEAN :
                SavesPlayer(t, <<OnlineCall(t, online)>>) /\ Honest({t}) /\ (~online => t \notin realtime)
           \/ \E t \in DOMAIN players, online \in BOOLEAN : SetsOnline(t, online)
<1>1. proc[Game].pc # "down" /\ Typed /\ GameWork
  BY DEF Kept, OneWriter, Holds
<1>2. ASSUME NEW t \in DOMAIN players
      PROVE  /\ t \in Token /\ SaveOf(t) \in Call /\ SaveOf(t).call = "save_player_state"
             /\ SaveOf(t).token = t /\ SaveOf(t).state = StateOf(t)
  <2>1. t \in Token /\ players[t].username \in Name /\ StateOf(t) \in PlayerState
    BY <1>1, PlayerIs
  <2> QED BY <2>1, CallsMade DEF SaveOf
<1>3. CASE proc[Game].todo = <<OfflineCall>> /\ realtime = {}
  <2>1. Head(proc[Game].todo) = OfflineCall /\ Tail(proc[Game].todo) = <<>>
    BY <1>3
  <2> QED BY <1>3, <2>1, CallsMade DEF Sweeps
<1>4. ASSUME NEW t \in DOMAIN players, proc[Game].todo = <<SaveOf(t)>>
      PROVE  SavesPlayer(t, <<>>)
  <2>1. Head(proc[Game].todo) = SaveOf(t) /\ Tail(proc[Game].todo) = <<>>
    BY <1>4
  <2> QED BY <2>1, <1>2 DEF SavesPlayer
<1>5. ASSUME NEW t \in DOMAIN players, NEW online \in BOOLEAN,
             proc[Game].todo = <<SaveOf(t), OnlineCall(t, online)>>
      PROVE  SavesPlayer(t, <<OnlineCall(t, online)>>)
  <2>1. Head(proc[Game].todo) = SaveOf(t) /\ Tail(proc[Game].todo) = <<OnlineCall(t, online)>>
    BY <1>5
  <2> QED BY <2>1, <1>2 DEF SavesPlayer
<1>6. ASSUME NEW t \in DOMAIN players, NEW online \in BOOLEAN, proc[Game].todo = <<OnlineCall(t, online)>>,
             Honest({t}), ~online => t \notin realtime,
             Busy(Game) /\ proc[Game].todo = <<OnlineCall(t, TRUE)>> => t \in realtime
      PROVE  SetsOnline(t, online)
  <2>1. Head(proc[Game].todo) = OnlineCall(t, online) /\ Tail(proc[Game].todo) = <<>>
    BY <1>6
  <2>2. /\ Head(proc[Game].todo) \in Call /\ Head(proc[Game].todo).call = "set_online"
        /\ Head(proc[Game].todo).token = t /\ Head(proc[Game].todo).online = online
    BY <2>1, <1>2, CallsMade
  <2>3. Busy(Game) /\ online = TRUE => t \in realtime
    BY <1>6
  <2> QED BY <1>6, <2>1, <2>2, <2>3 DEF SetsOnline
<1>7. CASE \E t \in DOMAIN players : proc[Game].todo = <<SaveOf(t)>> /\ Honest({})
  BY <1>7, <1>4
<1>8. CASE \E t \in DOMAIN players, online \in BOOLEAN :
             /\ proc[Game].todo \in {<<SaveOf(t), OnlineCall(t, online)>>, <<OnlineCall(t, online)>>}
             /\ Honest({t})
             /\ ~online => t \notin realtime
             /\ Busy(Game) /\ proc[Game].todo = <<OnlineCall(t, TRUE)>> => t \in realtime
  <2>1. PICK t \in DOMAIN players, online \in BOOLEAN :
             /\ proc[Game].todo \in {<<SaveOf(t), OnlineCall(t, online)>>, <<OnlineCall(t, online)>>}
             /\ Honest({t})
             /\ ~online => t \notin realtime
             /\ Busy(Game) /\ proc[Game].todo = <<OnlineCall(t, TRUE)>> => t \in realtime
    BY <1>8
  <2>2. CASE proc[Game].todo = <<SaveOf(t), OnlineCall(t, online)>>
    BY <2>1, <2>2, <1>5
  <2>3. CASE proc[Game].todo = <<OnlineCall(t, online)>>
    BY <2>1, <2>3, <1>6
  <2> QED BY <2>1, <2>2, <2>3
<1> QED BY <1>1, <1>3, <1>7, <1>8 DEF GameWork
-----------------------------------------------------------------------------
(* What stays as it is.                                                     *)

\* The old saves, told by the states alone.
LEMMA OldIs ==
    \A t : t \in OldSaves <=> StateIn(File, t) # NoState /\ ~StateIn(File, t).current
  BY DEF OldSaves, StateIn

\* The requests of the login server, while nobody gets a token.
LEMMA LoginSame ==
    ASSUME LoginWork, issued' = issued, Login \in Process => proc'[Login].todo = proc[Login].todo
    PROVE  LoginWork'
  BY DEF LoginWork

\* The work of the game server, while it goes on with a call and nobody else changes
\* who is online.
LEMMA GameSame ==
    ASSUME Kept, UNCHANGED gameVars, \A t \in Token : OnlineIn(File', t) <=> OnlineIn(File, t),
           Game \in Process => /\ proc'[Game].todo = proc[Game].todo
                               /\ \/ proc'[Game].pc = proc[Game].pc
                                  \/ /\ proc[Game].todo # <<>>
                                     /\ Busy(Game) \/ Head(proc[Game].todo).call # "set_online"
    PROVE  GameWork'
<1> SUFFICES ASSUME Game \in Process PROVE GameWork'
  BY DEF GameWork
<1>1. /\ players' = players /\ realtime' = realtime /\ GameWork
      /\ proc'[Game].todo = proc[Game].todo
  BY DEF gameVars, Kept
<1>2. \A T : Honest(T) => Honest(T)'
  BY <1>1 DEF Honest
<1>3. \A t : SaveOf(t)' = SaveOf(t)
  BY <1>1 DEF SaveOf, StateOf
<1>4. /\ \/ proc'[Game].pc = proc[Game].pc
         \/ proc[Game].todo # <<>> /\ (Busy(Game) \/ Head(proc[Game].todo).call # "set_online")
      /\ proc[Game].pc = "down" => proc[Game].todo = <<>>
  BY DEF Kept, OneWriter, Holds
<1>5. Busy(Game)' => Busy(Game) \/ Head(proc[Game].todo).call # "set_online"
  BY <1>4 DEF Busy
<1>6. CASE proc[Game].pc = "down" /\ players = <<>> /\ realtime = {}
  BY <1>1, <1>4, <1>6 DEF GameWork, Busy
<1>7. CASE proc[Game].todo = <<>> /\ proc[Game].pc = "idle" /\ Honest({})
  BY <1>1, <1>2, <1>4, <1>7 DEF GameWork, Busy
<1>8. CASE proc[Game].todo = <<OfflineCall>> /\ realtime = {}
  BY <1>1, <1>8 DEF GameWork
<1>9. CASE \E t \in DOMAIN players : proc[Game].todo = <<SaveOf(t)>> /\ Honest({})
  BY <1>1, <1>2, <1>3, <1>9 DEF GameWork
<1>10. CASE \E t \in DOMAIN players, online \in BOOLEAN :
              /\ proc[Game].todo \in {<<SaveOf(t), OnlineCall(t, online)>>, <<OnlineCall(t, online)>>}
              /\ Honest({t})
              /\ ~online => t \notin realtime
              /\ Busy(Game) /\ proc[Game].todo = <<OnlineCall(t, TRUE)>> => t \in realtime
  <2>1. PICK t \in DOMAIN players, online \in BOOLEAN :
              /\ proc[Game].todo \in {<<SaveOf(t), OnlineCall(t, online)>>, <<OnlineCall(t, online)>>}
              /\ Honest({t})
              /\ ~online => t \notin realtime
              /\ Busy(Game) /\ proc[Game].todo = <<OnlineCall(t, TRUE)>> => t \in realtime
    BY <1>10
  <2>2. /\ proc'[Game].todo \in {<<SaveOf(t)', OnlineCall(t, online)>>, <<OnlineCall(t, online)>>}
        /\ Honest({t})'
        /\ ~online => t \notin realtime'
        /\ Busy(Game)' /\ proc'[Game].todo = <<OnlineCall(t, TRUE)>> => t \in realtime'
    <3>1. Head(<<OnlineCall(t, TRUE)>>).call = "set_online"
      <4>1. Head(<<OnlineCall(t, TRUE)>>) = OnlineCall(t, TRUE)
        OBVIOUS
      <4> QED BY <4>1 DEF OnlineCall
    <3> QED BY <2>1, <3>1, <1>1, <1>2, <1>3, <1>5
  <2> QED BY <2>2, <1>1 DEF GameWork
<1> QED BY <1>1, <1>6, <1>7, <1>8, <1>9, <1>10 DEF GameWork

\* The work of the reset tool, while nobody else leaves an old save.
LEMMA ResetSame ==
    ASSUME ResetWork, issued \subseteq issued', OldSaves' \subseteq OldSaves,
           Reset \in Process => /\ proc'[Reset].todo = proc[Reset].todo
                                /\ proc'[Reset].pc # "down" => proc[Reset].pc # "down"
    PROVE  ResetWork'
<1>1. FreshState' = FreshState
  BY DEF FreshState
<1> QED BY <1>1 DEF ResetWork

\* What depends on the file and on who was told what alone.
LEMMA FileSame ==
    ASSUME Kept, File' = File, granted' = granted, issued \subseteq issued'
    PROVE  /\ Registered' /\ OldSaves' = OldSaves
           /\ \A t \in Token : OnlineIn(File', t) <=> OnlineIn(File, t)
  BY DEF Kept, Registered, OldSaves

\* What is ahead of the file stays so while neither changes.
LEMMA MemorySame ==
    ASSUME Kept, File' = File, UNCHANGED players
    PROVE  Ahead'
  BY DEF Kept, Ahead

\* A step inside a call: only the process and the temporary file change.
LEMMA InsideKeeps ==
    ASSUME Kept, NEW p \in Process, Busy(p), Busy(p)', NEW x \in Proc, proc' = [proc EXCEPT ![p] = x],
           x.todo = proc[p].todo, Holds(p)', File' = File, path' = path,
           tmp_path' \in Inode \cup {NoFile}, tmp_path' # NoFile => tmp_path' # path,
           content' \in [Inode -> Sessions \cup {Torn}], UNCHANGED <<gameVars, issued, granted>>
    PROVE  Kept'
<1>1. /\ proc' \in [Process -> Proc] /\ proc'[p] = x
      /\ \A q \in Process : q # p => proc'[q] = proc[q]
  BY OneChanges DEF Kept, Typed
<1>2. Typed'
  BY <1>1 DEF Kept, Typed, gameVars
<1>3. \A q \in Process : Holds(q) /\ (Busy(q) => q = p)
  BY DEF Kept, OneWriter, Holds
<1>4. \A q \in Process : Holds(q)'
  BY <1>1, <1>3, QuietHolds
<1>5. OneWriter'
  BY <1>4 DEF OneWriter
<1>6. \A q \in Process : /\ proc'[q].todo = proc[q].todo
                         /\ proc'[q].pc = proc[q].pc \/ (proc[q].todo # <<>> /\ Busy(q))
                         /\ proc'[q].pc # "down" => proc[q].pc # "down"
  <2>1. proc[p].todo # <<>>
    BY <1>3 DEF Holds
  <2> QED BY <1>1, <2>1 DEF Busy
<1>7. /\ Registered' /\ Ahead' /\ OldSaves' = OldSaves
      /\ \A t \in Token : OnlineIn(File', t) <=> OnlineIn(File, t)
  BY FileSame, MemorySame DEF gameVars
<1>8. LoginWork'
  BY <1>6, LoginSame DEF Kept
<1>9. GameWork'
  BY <1>6, <1>7, GameSame
<1>10. ResetWork'
  BY <1>6, <1>7, ResetSame DEF Kept
<1> QED BY <1>2, <1>5, <1>7, <1>8, <1>9, <1>10 DEF Kept

\* The temporary file is opened: it is not the file.
LEMMA OpenTmpKeeps ==
    ASSUME Kept, NEW p \in Process, OpenTmp(p)
    PROVE  Kept' /\ File' = File
<1> DEFINE unused == Inode \ ({path} \cup {proc[q].handle : q \in Process})
           i == IF tmp_path = NoFile THEN CHOOSE j \in unused : TRUE ELSE tmp_path
           x == [proc[p] EXCEPT !.pc = "write", !.handle = i]
<1>1. /\ proc[p].pc = "open" /\ tmp_path' = i /\ content' = [content EXCEPT ![i] = Torn]
      /\ proc' = [proc EXCEPT ![p].pc = "write", ![p].handle = i]
      /\ UNCHANGED <<path, gameVars, issued, granted>>
  BY DEF OpenTmp
<1>2. /\ proc \in [Process -> Proc] /\ tmp_path \in Inode \cup {NoFile} /\ NoFile \notin Inode
      /\ content \in [Inode -> Sessions \cup {Torn}] /\ proc[p] \in Proc /\ Busy(p)
      /\ tmp_path # NoFile => tmp_path # path
  BY <1>1, StoredAssumption DEF Kept, Typed, OneWriter, Busy
<1>3. \A q \in Process : proc[q].handle = NoFile
  <2>1. ASSUME NEW q \in Process PROVE proc[q].handle = NoFile
    <3>1. Holds(p) /\ Holds(q) /\ proc[q].pc \in {"down", "idle", "open", "write", "replace"}
      BY <1>2, ProcIs DEF Kept, OneWriter
    <3> QED BY <1>1, <3>1 DEF Holds, Busy
  <2> QED BY <2>1
<1>4. i \in Inode /\ i # path
  <2>1. CASE tmp_path = NoFile
    <3>1. 0 \in Inode /\ 1 \in Inode
      BY DEF Inode
    <3>2. 0 \in unused \/ 1 \in unused
      BY <1>2, <1>3, <3>1
    <3>3. \E j \in unused : TRUE
      BY <3>2
    <3>4. i \in unused
      BY <3>3, <2>1
    <3> QED BY <3>4
  <2>2. CASE tmp_path # NoFile
    BY <2>2, <1>2
  <2> QED BY <2>1, <2>2
<1> HIDE DEF i
<1>5. /\ x \in Proc /\ x.pc = "write" /\ x.handle = i /\ x.todo = proc[p].todo
      /\ x.sessions = proc[p].sessions /\ proc' = [proc EXCEPT ![p] = x]
  BY <1>1, <1>2, <1>4 DEF Proc
<1> HIDE DEF x
<1>6. /\ content' \in [Inode -> Sessions \cup {Torn}] /\ content'[i] = Torn
      /\ \A j \in Inode : j # i => content'[j] = content[j]
  BY <1>1, <1>2, <1>4
<1>7. File' = File
  BY <1>1, <1>4, <1>6 DEF File, Kept, Typed
<1>8. proc'[p] = x /\ \A q \in Process : q # p => proc'[q] = proc[q]
  BY <1>2, <1>5, OneChanges
<1>9. Holds(p)' /\ Busy(p)'
  <2>1. Holds(p)
    BY DEF Kept, OneWriter
  <2>2. \A q \in Process : Busy(q)' => q = p
    BY <1>2, <1>8, <2>1 DEF Holds, Busy
  <2> QED BY <1>1, <1>2, <1>4, <1>5, <1>6, <1>7, <1>8, <2>1, <2>2 DEF Holds, Busy
<1> QED BY <1>1, <1>2, <1>4, <1>5, <1>6, <1>7, <1>9, InsideKeeps

\* The text is written to the temporary file.
LEMMA WriteTmpKeeps ==
    ASSUME Kept, NEW p \in Process, WriteTmp(p)
    PROVE  Kept' /\ File' = File
<1> DEFINE x == [proc[p] EXCEPT !.pc = "replace"]
<1>1. /\ proc[p].pc = "write" /\ proc' = [proc EXCEPT ![p].pc = "replace"]
      /\ UNCHANGED <<path, tmp_path, gameVars, issued, granted>>
  BY DEF WriteTmp
<1>2. /\ proc \in [Process -> Proc] /\ content \in [Inode -> Sessions \cup {Torn}] /\ proc[p] \in Proc
      /\ tmp_path \in Inode \cup {NoFile}
      /\ tmp_path # NoFile => tmp_path # path
      /\ Busy(p) /\ Holds(p) /\ NoFile \notin Inode
  BY <1>1, StoredAssumption DEF Kept, Typed, OneWriter, Busy
<1>3. proc[p].handle = tmp_path /\ tmp_path \in Inode /\ content[tmp_path] = Torn
  BY <1>1, <1>2 DEF Holds
<1>4. content' = [content EXCEPT ![tmp_path] = proc[p].sessions]
  BY <1>3 DEF WriteTmp
<1>5. /\ x \in Proc /\ x.pc = "replace" /\ x.handle = tmp_path /\ x.todo = proc[p].todo
      /\ x.sessions = proc[p].sessions /\ proc' = [proc EXCEPT ![p] = x]
  BY <1>1, <1>2, <1>3 DEF Proc
<1> HIDE DEF x
<1>6. /\ content' \in [Inode -> Sessions \cup {Torn}] /\ content'[tmp_path] = proc[p].sessions
      /\ \A j \in Inode : j # tmp_path => content'[j] = content[j]
  BY <1>2, <1>3, <1>4, ProcIs
<1>7. File' = File
  BY <1>1, <1>2, <1>3, <1>6 DEF File, Kept, Typed
<1>8. proc'[p] = x /\ \A q \in Process : q # p => proc'[q] = proc[q]
  BY <1>2, <1>5, OneChanges
<1>9. Holds(p)' /\ Busy(p)'
  <2>1. \A q \in Process : Busy(q)' => q = p
    BY <1>2, <1>8 DEF Holds, Busy
  <2>2. /\ proc[p].todo # <<>> /\ Saves(Head(proc[p].todo), File)
        /\ proc[p].sessions = Changed(Head(proc[p].todo), File)
    BY <1>2 DEF Holds
  <2>3. tmp_path' = tmp_path /\ content'[tmp_path] = proc[p].sessions
    BY <1>1, <1>6
  <2>4. /\ proc'[p].pc = "replace" /\ proc'[p].handle = tmp_path' /\ tmp_path' \in Inode
        /\ proc'[p].todo = proc[p].todo /\ proc'[p].sessions = proc[p].sessions
    BY <1>3, <1>5, <1>8, <2>3
  <2>5. content'[proc'[p].handle] = proc'[p].sessions
    BY <2>3, <2>4
  <2> HIDE DEF x
  <2> QED BY <1>7, <2>1, <2>2, <2>4, <2>5 DEF Holds, Busy
<1>10. /\ path' = path /\ tmp_path' \in Inode \cup {NoFile}
       /\ tmp_path' # NoFile => tmp_path' # path
       /\ UNCHANGED <<gameVars, issued, granted>>
  BY <1>1, <1>2
<1>11. content' \in [Inode -> Sessions \cup {Torn}] /\ Busy(p)
  BY <1>2, <1>6
<1> QED BY <1>5, <1>7, <1>9, <1>10, <1>11, InsideKeeps
-----------------------------------------------------------------------------
(* What the processes do outside a call.                                    *)

\* The process ends, starts, or is asked for something.
LEMMA OutsideKeeps ==
    ASSUME Kept, NEW p \in Process, NEW x \in Proc, proc' = [proc EXCEPT ![p] = x], UNCHANGED files,
           x.pc \in {"down", "idle"}, x.handle = NoFile, x.pc = "down" => x.todo = <<>>
    PROVE  /\ proc' \in [Process -> Proc] /\ proc'[p] = x
           /\ \A q \in Process : q # p => proc'[q] = proc[q]
           /\ File' = File /\ OneWriter'
           /\ path' \in Inode \cup {NoFile} /\ tmp_path' \in Inode \cup {NoFile}
           /\ content' \in [Inode -> Sessions \cup {Torn}] /\ File' \in Sessions
<1>1. /\ proc' \in [Process -> Proc] /\ proc'[p] = x
      /\ \A q \in Process : q # p => proc'[q] = proc[q]
  BY OneChanges DEF Kept, Typed
<1>2. File' = File
  BY DEF File, files
<1>3. Holds(p)'
  BY <1>1 DEF Holds, Busy
<1>4. \A r \in Process : Busy(r)' => Busy(r)
  BY <1>1 DEF Busy
<1>5. ASSUME NEW q \in Process, q # p PROVE Holds(q)'
  <2>1. Holds(q) /\ proc'[q] = proc[q]
    BY <1>1, <1>5 DEF Kept, OneWriter
  <2> QED BY <2>1, <1>4, StillHolds
<1>6. OneWriter'
  BY <1>3, <1>5 DEF Kept, OneWriter, files
<1> QED BY <1>1, <1>2, <1>6 DEF Kept, Typed, files

\* A process that is down, or idle, has no handle.
LEMMA QuietIs ==
    ASSUME Kept, NEW p \in Process
    PROVE  /\ proc[p] \in Proc
           /\ proc[p].pc \in {"down", "idle"} => proc[p].handle = NoFile
           /\ proc[p].pc = "down" => proc[p].todo = <<>>
  BY DEF Kept, Typed, OneWriter, Holds

\* A process crashes: what it was doing, and what it had in memory, is gone.
LEMMA CrashKeeps ==
    ASSUME Kept, NEW p \in Process, Crash(p)
    PROVE  Kept' /\ File' = File
<1> DEFINE x == Down(proc[p].boots)
<1>1. /\ proc' = [proc EXCEPT ![p] = x] /\ UNCHANGED <<files, issued, granted>>
      /\ IF p = Game THEN players' = <<>> /\ realtime' = {} ELSE UNCHANGED gameVars
  BY DEF Crash, Stop
<1>2. x \in Proc /\ x.pc = "down" /\ x.todo = <<>> /\ x.handle = NoFile
  BY QuietIs, ProcIs, DownIs, EmptyIs
<1> HIDE DEF x
<1>3. /\ proc' \in [Process -> Proc] /\ proc'[p] = x
      /\ \A q \in Process : q # p => proc'[q] = proc[q]
      /\ File' = File /\ OneWriter'
      /\ path' \in Inode \cup {NoFile} /\ tmp_path' \in Inode \cup {NoFile}
      /\ content' \in [Inode -> Sessions \cup {Torn}] /\ File' \in Sessions
  BY <1>1, <1>2, OutsideKeeps
<1>4. /\ players' \in Players /\ realtime' \subseteq DOMAIN players'
      /\ DOMAIN players' \subseteq issued' /\ issued' \subseteq Token /\ Ahead'
  <2>1. CASE p = Game
    BY <1>1, <2>1, EmptyIs DEF Kept, Typed, Ahead
  <2>2. CASE p # Game
    BY <1>1, <1>3, <2>2, MemorySame DEF Kept, Typed, gameVars
  <2> QED BY <2>1, <2>2
<1>5. Typed'
  BY <1>3, <1>4 DEF Typed
<1>6. /\ Registered' /\ OldSaves' = OldSaves
      /\ \A t \in Token : OnlineIn(File', t) <=> OnlineIn(File, t)
  BY <1>1, <1>3, FileSame
<1>7. LoginWork'
  <2>1. CASE p = Login
    BY <1>2, <1>3, <2>1 DEF LoginWork
  <2>2. CASE p # Login
    BY <1>1, <1>3, <2>2, LoginSame DEF Kept
  <2> QED BY <2>1, <2>2
<1>8. GameWork'
  <2>1. CASE p = Game
    BY <1>1, <1>2, <1>3, <2>1 DEF GameWork
  <2>2. CASE p # Game
    BY <1>1, <1>3, <1>6, <2>2, GameSame
  <2> QED BY <2>1, <2>2
<1>9. ResetWork'
  <2>1. CASE p = Reset
    BY <1>2, <1>3, <2>1 DEF ResetWork
  <2>2. CASE p # Reset
    BY <1>1, <1>3, <1>6, <2>2, ResetSame DEF Kept
  <2> QED BY <2>1, <2>2
<1> QED BY <1>3, <1>4, <1>5, <1>6, <1>7, <1>8, <1>9 DEF Kept

\* A process that is not inside a call is given calls; the players in memory may change.
LEMMA GivenKeeps ==
    ASSUME Kept, NEW p \in Process, proc[p].pc \in {"down", "idle"}, NEW calls \in Seq(Call),
           NEW x \in Proc, proc' = [proc EXCEPT ![p] = x], x.pc = "idle", x.todo = calls,
           x.handle = NoFile, UNCHANGED <<files, issued, granted>>,
           p # Game => UNCHANGED gameVars,
           players' \in Players, realtime' \subseteq DOMAIN players', DOMAIN players' \subseteq issued,
           Ahead', p = Login => LoginWork', p = Game => GameWork', p = Reset => ResetWork'
    PROVE  Kept' /\ File' = File
<1>3. /\ proc' \in [Process -> Proc] /\ proc'[p] = x
      /\ \A q \in Process : q # p => proc'[q] = proc[q]
      /\ File' = File /\ OneWriter'
      /\ path' \in Inode \cup {NoFile} /\ tmp_path' \in Inode \cup {NoFile}
      /\ content' \in [Inode -> Sessions \cup {Torn}] /\ File' \in Sessions
  BY OutsideKeeps
<1>5. Typed'
  BY <1>3 DEF Kept, Typed
<1>6. /\ Registered' /\ OldSaves' = OldSaves
      /\ \A t \in Token : OnlineIn(File', t) <=> OnlineIn(File, t)
  BY <1>3, FileSame
<1>7. LoginWork'
  <2>1. CASE p # Login
    BY <1>3, <2>1, LoginSame DEF Kept
  <2> QED BY <2>1
<1>8. GameWork'
  <2>1. CASE p # Game
    BY <1>3, <1>6, <2>1, GameSame
  <2> QED BY <2>1
<1>9. ResetWork'
  <2>1. CASE p # Reset
    BY <1>3, <1>6, <2>1, ResetSame DEF Kept
  <2> QED BY <2>1
<1> QED BY <1>3, <1>5, <1>6, <1>7, <1>8, <1>9 DEF Kept

\* The process starts, or begins what it is asked for.
LEMMA GivenIs ==
    ASSUME Kept, NEW p, NEW calls \in Seq(Call), Start(p, calls) \/ Begin(p, calls)
    PROVE  /\ p \in Process /\ proc[p].pc \in {"down", "idle"}
           /\ \E x \in Proc : /\ x.pc = "idle" /\ x.todo = calls /\ x.handle = NoFile
                              /\ proc' = [proc EXCEPT ![p] = x]
           /\ \A q \in Process : proc'[q] = IF q = p THEN proc'[p] ELSE proc[q]
           /\ proc'[p].pc = "idle" /\ proc'[p].todo = calls
<1>1. p \in Process /\ proc[p].pc \in {"down", "idle"}
  BY DEF Start, Begin, Idle
<1>2. proc[p] \in Proc /\ proc[p].handle = NoFile /\ proc \in [Process -> Proc]
  BY <1>1, QuietIs DEF Kept, Typed
<1>3. CASE Start(p, calls)
  <2> DEFINE k == proc[p].boots + 1
             x == [proc[p] EXCEPT !.pc = "idle", !.todo = calls, !.boots = k]
  <2>2. proc' = [proc EXCEPT ![p] = x]
    BY <1>1, <1>2, <1>3 DEF Start
  <2>3. k \in Nat
    BY <1>2, ProcIs
  <2> HIDE DEF k
  <2>1. x \in Proc /\ x.pc = "idle" /\ x.todo = calls /\ x.handle = NoFile
    BY <1>2, <2>3 DEF Proc
  <2> HIDE DEF x
  <2> QED BY <1>1, <1>2, <2>1, <2>2
<1>4. CASE Begin(p, calls)
  <2> DEFINE x == [proc[p] EXCEPT !.todo = calls]
  <2>1. x \in Proc /\ x.pc = "idle" /\ x.todo = calls /\ x.handle = NoFile
    BY <1>2, <1>4 DEF Proc, Begin, Idle
  <2>2. proc' = [proc EXCEPT ![p] = x]
    BY <1>1, <1>2, <1>4 DEF Begin
  <2> HIDE DEF x
  <2> QED BY <1>1, <1>2, <2>1, <2>2
<1> QED BY <1>3, <1>4

\* The memory of the game server as Kept has it.
LEMMA MemoryIs ==
    ASSUME Kept
    PROVE  /\ players \in Players /\ realtime \subseteq DOMAIN players /\ DOMAIN players \subseteq issued
           /\ issued \subseteq Token /\ Ahead /\ File \in Sessions
  BY DEF Kept, Typed

\* The login server starts, or is asked for a name.
LEMMA LoginKeeps ==
    ASSUME Kept, LoginNext
    PROVE  Kept' /\ File' = File
<1>1. ASSUME NEW calls \in Seq(Call), Start(Login, calls) \/ Begin(Login, calls),
             UNCHANGED <<files, gameVars, issued, granted>>,
             \/ calls = <<>>
             \/ \E t \in Token, n \in Name :
                  \/ t \notin issued /\ calls = <<RegisterCall(t, n)>>
                  \/ t \in issued /\ calls \in {<<ResumeCall(t)>>, <<RenameCall(t, n)>>}
      PROVE  Kept' /\ File' = File
  <2>1. /\ Login \in Process /\ proc[Login].pc \in {"down", "idle"}
        /\ proc'[Login].todo = calls
        /\ \E x \in Proc : /\ x.pc = "idle" /\ x.todo = calls /\ x.handle = NoFile
                           /\ proc' = [proc EXCEPT ![Login] = x]
    BY <1>1, GivenIs
  <2>2. LoginWork'
    BY <1>1, <2>1 DEF LoginWork
  <2>3. Ahead'
    <3>1. File' = File
      BY <1>1 DEF File, files
    <3> QED BY <1>1, <3>1, MemorySame DEF gameVars
  <2>4. Login # Game /\ Login # Reset /\ UNCHANGED gameVars /\ UNCHANGED <<files, issued, granted>>
    BY <1>1, StoreAssumption
  <2>5. /\ players' \in Players /\ realtime' \subseteq DOMAIN players'
        /\ DOMAIN players' \subseteq issued
    BY <1>1, MemoryIs DEF gameVars
  <2> QED BY <2>1, <2>2, <2>3, <2>4, <2>5, GivenKeeps
<1>2. CASE StartLogin
  BY <1>1, <1>2, EmptyIs DEF StartLogin, Start
<1>3. CASE LoginRequest
  <2>1. PICK t \in Token \ issued, n \in Name :
          Begin(Login, <<RegisterCall(t, n)>>) /\ UNCHANGED <<files, gameVars, issued, granted>>
    BY <1>3 DEF LoginRequest
  <2>2. <<RegisterCall(t, n)>> \in Seq(Call)
    BY CallsMade
  <2> QED BY <2>1, <2>2, <1>1
<1>4. CASE ResumeRequest
  <2>1. PICK t \in issued :
          Begin(Login, <<ResumeCall(t)>>) /\ UNCHANGED <<files, gameVars, issued, granted>>
    BY <1>4 DEF ResumeRequest
  <2>2. t \in Token /\ <<ResumeCall(t)>> \in Seq(Call) /\ HexName[t] \in Name
    BY CallsMade, MemoryIs, StoreAssumption
  <2> QED BY <2>1, <2>2, <1>1
<1>5. CASE RenameRequest
  <2>1. PICK t \in issued, n \in Name :
          Begin(Login, <<RenameCall(t, n)>>) /\ UNCHANGED <<files, gameVars, issued, granted>>
    BY <1>5 DEF RenameRequest
  <2>2. t \in Token /\ <<RenameCall(t, n)>> \in Seq(Call)
    BY CallsMade, MemoryIs
  <2> QED BY <2>1, <2>2, <1>1
<1> QED BY <1>2, <1>3, <1>4, <1>5 DEF LoginNext

\* The game server starts, or is asked for something, and means to save what it holds.
LEMMA GameGiven ==
    ASSUME Kept, NEW calls \in Seq(Call), Start(Game, calls) \/ Begin(Game, calls),
           UNCHANGED <<files, issued, granted>>,
           players' \in Players, realtime' \subseteq DOMAIN players', DOMAIN players' \subseteq issued,
           Ahead', GameWork'
    PROVE  Kept' /\ File' = File
<1>1. /\ Game \in Process /\ proc[Game].pc \in {"down", "idle"}
      /\ \E x \in Proc : /\ x.pc = "idle" /\ x.todo = calls /\ x.handle = NoFile
                         /\ proc' = [proc EXCEPT ![Game] = x]
  BY GivenIs
<1>2. Game # Login /\ Game # Reset
  BY StoreAssumption
<1> QED BY <1>1, <1>2, GivenKeeps

\* Between two events of the game server the file is honest.
LEMMA IdleHonest ==
    ASSUME Kept, Idle(Game)
    PROVE  Honest({})
<1>1. Game \in Process /\ proc[Game].pc = "idle" /\ proc[Game].todo = <<>>
  BY DEF Idle
<1>2. \A c : <<c>> # <<>>
  OBVIOUS
<1>3. \A c, d : <<c, d>> # <<>>
  OBVIOUS
<1> QED BY <1>1, <1>2, <1>3 DEF Kept, GameWork

\* When it is down it remembers nobody.
LEMMA DownForgets ==
    ASSUME Kept, Game \in Process, proc[Game].pc = "down"
    PROVE  players = <<>> /\ realtime = {}
<1>1. proc[Game].todo = <<>>
  BY QuietIs
<1>2. \A c : <<c>> # <<>>
  OBVIOUS
<1>3. \A c, d : <<c, d>> # <<>>
  OBVIOUS
<1> QED BY <1>1, <1>2, <1>3 DEF Kept, GameWork

\* The game server starts.
LEMMA StartGameKeeps ==
    ASSUME Kept, StartGame
    PROVE  Kept' /\ File' = File
<1> DEFINE calls == <<OfflineCall>>
<1>1. /\ calls \in Seq(Call) /\ Start(Game, calls)
      /\ UNCHANGED <<files, gameVars, issued, granted>>
  BY CallsMade DEF StartGame, Start
<1>2. players' = players /\ realtime' = realtime /\ File' = File
  BY <1>1 DEF gameVars, File, files
<1>3. Game \in Process /\ proc[Game].pc = "down" /\ proc'[Game].todo = calls
  BY <1>1, GivenIs DEF Start
<1>4. GameWork'
  BY <1>2, <1>3, DownForgets DEF GameWork
<1>5. Ahead'
  BY <1>2, MemorySame
<1> QED BY <1>1, <1>2, <1>4, <1>5, MemoryIs, GameGiven

\* A player enters or changes in memory, ahead of its save.
LEMMA PlayerPut ==
    ASSUME Kept, File' = File, NEW t \in issued,
           NEW player \in [username : Name, progress : Progress], players' = Put(players, t, player),
           StateIn(File, t) # NoState => player.progress >= StateIn(File, t).progress
    PROVE  /\ players' \in Players /\ DOMAIN players' = DOMAIN players \cup {t} /\ players'[t] = player
           /\ DOMAIN players' \subseteq issued /\ Ahead'
<1>1. /\ DOMAIN players \subseteq issued /\ issued \subseteq Token /\ Ahead
      /\ players \in [DOMAIN players -> [username : Name, progress : Progress]]
  BY MemoryIs DEF Players
<1>2. players' = [u \in DOMAIN players \cup {t} |-> IF u = t THEN player ELSE players[u]]
  BY DEF Put
<1>3. /\ DOMAIN players' = DOMAIN players \cup {t} /\ players'[t] = player
      /\ \A u \in DOMAIN players : u # t => players'[u] = players[u]
  BY <1>2
<1>4. players' \in [DOMAIN players' -> [username : Name, progress : Progress]] /\ DOMAIN players' \subseteq Token
  BY <1>1, <1>2
<1>5. players' \in Players
  BY <1>4 DEF Players
<1>6. Ahead'
  BY <1>1, <1>3 DEF Ahead
<1> QED BY <1>1, <1>3, <1>5, <1>6

\* HELLO and AUTH.
LEMMA AttachKeeps ==
    ASSUME Kept, NEW t \in Token, NEW rest \in {<<>>, <<OnlineCall(t, TRUE)>>}, Attach(t, rest)
    PROVE  Kept' /\ File' = File
<1> DEFINE player == [username |-> username_for_token(t), progress |-> ensure_player(t)]
           state == [current |-> TRUE, progress |-> player.progress]
           save == SaveCall(t, player.username, state)
           calls == <<save>> \o rest
<1>1. /\ t \in issued /\ Begin(Game, calls) /\ players' = Put(players, t, player)
      /\ UNCHANGED <<files, realtime, issued, granted>>
  BY DEF Attach
<1>2. File' = File
  BY <1>1 DEF File, files
<1>3. player \in [username : Name, progress : Progress]
  <2>1. username_for_token(t) \in Name
    BY MemoryIs, RecordIs, StoreAssumption DEF username_for_token, NameIn
  <2>2. ensure_player(t) \in Progress
    <3>1. t \in DOMAIN players => players[t].progress \in Progress
      BY PlayerIs DEF Kept
    <3>2. StateIn(File, t) # NoState => StateIn(File, t).progress \in Progress
      BY MemoryIs, RecordIs DEF StateIn, PlayerState
    <3>3. 0 \in Progress
      BY StoreAssumption DEF Progress
    <3> QED BY <3>1, <3>2, <3>3 DEF ensure_player
  <2> QED BY <2>1, <2>2
<1>4. StateIn(File, t) # NoState => player.progress >= StateIn(File, t).progress
  <2>1. t \in DOMAIN players /\ StateIn(File, t) # NoState
          => players[t].progress >= StateIn(File, t).progress
    BY MemoryIs DEF Ahead
  <2>2. StateIn(File, t) # NoState => StateIn(File, t).progress \in Nat
    BY MemoryIs, RecordIs DEF StateIn, PlayerState, Progress
  <2> QED BY <2>1, <2>2 DEF ensure_player
<1>5. state \in PlayerState /\ save \in Call
  <2>1. state \in PlayerState
    BY <1>3 DEF PlayerState
  <2> HIDE DEF state
  <2> QED BY <1>3, <2>1, CallsMade
<1> HIDE DEF player
<1>6. /\ players' \in Players /\ DOMAIN players' = DOMAIN players \cup {t} /\ players'[t] = player
      /\ DOMAIN players' \subseteq issued /\ Ahead'
  BY <1>1, <1>2, <1>3, <1>4, PlayerPut
<1>7. SaveOf(t)' = save
  BY <1>6 DEF SaveOf, StateOf
<1> HIDE DEF save, state
<1>8. \/ rest = <<>> /\ calls = <<save>>
      \/ rest = <<OnlineCall(t, TRUE)>> /\ calls = <<save, OnlineCall(t, TRUE)>>
  <2>1. OnlineCall(t, TRUE) \in Call
    BY CallsMade
  <2>2. <<save>> \o <<>> = <<save>> /\ <<save>> \o <<OnlineCall(t, TRUE)>> = <<save, OnlineCall(t, TRUE)>>
    BY <1>5, <2>1, ShortSequences
  <2> QED BY <2>2
<1>9. calls \in Seq(Call)
  <2>1. OnlineCall(t, TRUE) \in Call
    BY CallsMade
  <2> HIDE DEF calls
  <2> QED BY <1>5, <1>8, <2>1, ShortSequences
<1> HIDE DEF calls
<1>10. Game \in Process /\ proc'[Game].pc = "idle" /\ proc'[Game].todo = calls
  BY <1>1, <1>9, GivenIs
<1>11. Honest({})' /\ Honest({t})'
  <2>1. Honest({}) /\ realtime' = realtime
    BY <1>1, IdleHonest DEF Begin
  <2> QED BY <1>2, <2>1 DEF Honest
<1>12. GameWork'
  <2>1. CASE calls = <<save>>
    BY <1>6, <1>7, <1>10, <1>11, <2>1 DEF GameWork
  <2>2. CASE calls = <<save, OnlineCall(t, TRUE)>>
    <3>1. ~Busy(Game)'
      BY <1>10 DEF Busy
    <3>2. /\ t \in DOMAIN players'
          /\ proc'[Game].todo \in {<<SaveOf(t)', OnlineCall(t, TRUE)>>, <<OnlineCall(t, TRUE)>>}
      BY <1>6, <1>7, <1>10, <2>2
    <3> QED BY <1>11, <3>1, <3>2 DEF GameWork
  <2> QED BY <1>8, <2>1, <2>2
<1>13. realtime' \subseteq DOMAIN players'
  BY <1>1, <1>6, MemoryIs
<1> QED BY <1>1, <1>6, <1>9, <1>12, <1>13, GameGiven

\* A player gets further.
LEMMA EarnKeeps ==
    ASSUME Kept, NEW t \in Token, Earn(t)
    PROVE  Kept' /\ File' = File
<1> DEFINE player == [players[t] EXCEPT !.progress = players[t].progress + 1]
           state == [current |-> TRUE, progress |-> players[t].progress + 1]
           save == SaveCall(t, players[t].username, state)
           calls == <<save>>
<1>1. /\ t \in realtime /\ players[t].progress < MaxProgress /\ Begin(Game, calls)
      /\ players' = [players EXCEPT ![t].progress = @ + 1]
      /\ UNCHANGED <<files, realtime, issued, granted>>
  BY DEF Earn
<1>2. File' = File
  BY <1>1 DEF File, files
<1>3. /\ t \in DOMAIN players /\ t \in issued
      /\ players \in [DOMAIN players -> [username : Name, progress : Progress]]
  BY <1>1, MemoryIs DEF Players
<1>4. /\ players[t] \in [username : Name, progress : Progress]
      /\ players[t].progress + 1 \in Progress /\ players[t].username \in Name
  BY <1>1, <1>3, StoreAssumption DEF Progress
<1>5. /\ player \in [username : Name, progress : Progress] /\ player.username = players[t].username
      /\ player.progress = players[t].progress + 1
  BY <1>4
<1>6. players' = Put(players, t, player)
  BY <1>1, <1>3 DEF Put
<1>7. StateIn(File, t) # NoState => player.progress >= StateIn(File, t).progress
  <2>1. StateIn(File, t) # NoState => players[t].progress >= StateIn(File, t).progress
    BY <1>3, MemoryIs DEF Ahead
  <2>2. StateIn(File, t) # NoState => StateIn(File, t).progress \in Nat
    BY MemoryIs, RecordIs DEF StateIn, PlayerState, Progress
  <2>3. players[t].progress \in Nat
    BY <1>4 DEF Progress
  <2> QED BY <1>5, <2>1, <2>2, <2>3
<1>8. state \in PlayerState
  BY <1>4 DEF PlayerState
<1> HIDE DEF player
<1>9. /\ players' \in Players /\ DOMAIN players' = DOMAIN players \cup {t} /\ players'[t] = player
      /\ DOMAIN players' \subseteq issued /\ Ahead'
  BY <1>2, <1>3, <1>5, <1>6, <1>7, PlayerPut
<1>10. SaveOf(t)' = save
  BY <1>5, <1>9 DEF SaveOf, StateOf
<1> HIDE DEF state
<1>11. calls \in Seq(Call)
  BY <1>3, <1>4, <1>8, CallsMade
<1> HIDE DEF save
<1>12. Game \in Process /\ proc'[Game].pc = "idle" /\ proc'[Game].todo = calls
  BY <1>1, <1>11, GivenIs
<1>13. Honest({})'
  <2>1. Honest({}) /\ realtime' = realtime
    BY <1>1, IdleHonest DEF Begin
  <2> QED BY <1>2, <2>1 DEF Honest
<1>14. GameWork'
  BY <1>9, <1>10, <1>12, <1>13 DEF GameWork
<1>15. realtime' \subseteq DOMAIN players'
  BY <1>1, <1>9, MemoryIs
<1> HIDE DEF calls
<1> QED BY <1>1, <1>9, <1>11, <1>14, <1>15, GameGiven

\* A session is dropped.
LEMMA DropKeeps ==
    ASSUME Kept, NEW t \in Token, Drop(t)
    PROVE  Kept' /\ File' = File
<1> DEFINE calls == <<SaveOf(t), OnlineCall(t, FALSE)>>
<1>1. /\ t \in realtime /\ realtime' = realtime \ {t} /\ Begin(Game, calls)
      /\ UNCHANGED <<files, players, issued, granted>>
  BY DEF Drop, DetachCalls
<1>2. File' = File /\ t \in DOMAIN players
  BY <1>1, MemoryIs DEF File, files
<1>3. calls \in Seq(Call)
  <2>1. players[t].username \in Name /\ StateOf(t) \in PlayerState
    BY <1>2, PlayerIs DEF Kept
  <2>2. SaveOf(t) \in Call /\ OnlineCall(t, FALSE) \in Call
    BY <2>1, CallsMade DEF SaveOf
  <2> QED BY <2>2, ShortSequences
<1>4. SaveOf(t)' = SaveOf(t) /\ players' = players
  BY <1>1 DEF SaveOf, StateOf
<1>5. Game \in Process /\ proc'[Game].pc = "idle" /\ proc'[Game].todo = calls
  BY <1>1, <1>3, GivenIs
<1>6. Honest({t})'
  <2>1. Honest({})
    BY <1>1, IdleHonest DEF Begin
  <2> QED BY <1>1, <1>2, <2>1 DEF Honest
<1>7. GameWork'
  <2>1. ~Busy(Game)'
    BY <1>5 DEF Busy
  <2>2. /\ t \in DOMAIN players' /\ t \notin realtime'
        /\ proc'[Game].todo \in {<<SaveOf(t)', OnlineCall(t, FALSE)>>, <<OnlineCall(t, FALSE)>>}
    BY <1>1, <1>2, <1>4, <1>5
  <2> QED BY <1>6, <2>1, <2>2 DEF GameWork
<1>8. Ahead'
  BY <1>2, <1>4, MemorySame
<1>9. /\ players' \in Players /\ realtime' \subseteq DOMAIN players' /\ DOMAIN players' \subseteq issued
  BY <1>1, <1>4, MemoryIs
<1> HIDE DEF calls
<1> QED BY <1>1, <1>3, <1>7, <1>8, <1>9, GameGiven

\* The game server, outside its calls.
LEMMA GameKeeps ==
    ASSUME Kept, GameNext
    PROVE  Kept' /\ File' = File
<1>1. CASE StartGame
  BY <1>1, StartGameKeeps
<1>2. ASSUME NEW t \in Token, Hello(t) \/ Auth(t) \/ Earn(t) \/ Drop(t)
      PROVE  Kept' /\ File' = File
  <2>1. CASE Hello(t)
    <3>1. Attach(t, <<>>)
      BY <2>1 DEF Hello
    <3> QED BY <3>1, AttachKeeps
  <2>2. CASE Auth(t)
    <3>1. Attach(t, <<OnlineCall(t, TRUE)>>)
      BY <2>2 DEF Auth
    <3> QED BY <3>1, AttachKeeps
  <2> QED BY <1>2, <2>1, <2>2, EarnKeeps, DropKeeps
<1> QED BY <1>1, <1>2 DEF GameNext

\* The reset tool starts: it means to reset every old save of the file.
LEMMA StartResetKeeps ==
    ASSUME Kept, StartReset
    PROVE  Kept' /\ File' = File
<1>1. PICK order \in [1 .. Cardinality(OldSaves) -> OldSaves] :
        /\ \A t \in OldSaves : \E i \in DOMAIN order : order[i] = t
        /\ Start(Reset, [i \in DOMAIN order |->
                            SaveCall(order[i], File[order[i]].username, FreshState)])
  BY DEF StartReset
<1> DEFINE calls == [i \in DOMAIN order |-> SaveCall(order[i], File[order[i]].username, FreshState)]
<1>2. DOMAIN File \subseteq issued /\ issued \subseteq Token /\ File \in Sessions
  BY DEF Kept, Typed, Registered
<1>3. Cardinality(OldSaves) \in Nat
  <2>1. OldSaves \subseteq Token
    BY <1>2 DEF OldSaves
  <2> QED BY <2>1, FS_Subset, FS_CardinalityType, StoreAssumption
<1>4. FreshState \in PlayerState
  BY StoreAssumption DEF FreshState, PlayerState, Progress
<1>5. \A i \in DOMAIN order : /\ order[i] \in issued /\ order[i] \in Token
                              /\ File[order[i]].username \in Name
  BY <1>2, RecordIs DEF OldSaves
<1>6. calls \in Seq(Call)
  <2>1. \A i \in DOMAIN order : SaveCall(order[i], File[order[i]].username, FreshState) \in Call
    BY <1>4, <1>5, CallsMade
  <2>2. calls \in [1 .. Cardinality(OldSaves) -> Call]
    BY <2>1
  <2> QED BY <1>3, <2>2, SeqDef
<1>7. /\ DOMAIN calls = DOMAIN order
      /\ \A i \in DOMAIN order : \E t \in issued, n \in Name :
            calls[i] = SaveCall(t, n, FreshState) /\ t = order[i] /\ calls[i].token = t
  <2>1. ASSUME NEW i \in DOMAIN order
        PROVE  \E t \in issued, n \in Name :
                 calls[i] = SaveCall(t, n, FreshState) /\ t = order[i] /\ calls[i].token = t
    <3>1. calls[i] = SaveCall(order[i], File[order[i]].username, FreshState)
      OBVIOUS
    <3>2. calls[i].token = order[i]
      BY <1>4, <1>5, <3>1, CallsMade
    <3> QED BY <1>5, <3>1, <3>2
  <2> QED BY <2>1
<1>8. Start(Reset, calls)
  BY <1>1
<1> HIDE DEF calls
<1>9. /\ Reset \in Process /\ proc[Reset].pc \in {"down", "idle"}
      /\ proc'[Reset].todo = calls
      /\ \E x \in Proc : /\ x.pc = "idle" /\ x.todo = calls /\ x.handle = NoFile
                         /\ proc' = [proc EXCEPT ![Reset] = x]
  BY <1>6, <1>8, GivenIs
<1>10. /\ UNCHANGED <<files, issued, granted>> /\ UNCHANGED gameVars
       /\ File' = File /\ FreshState' = FreshState
  BY <1>8 DEF Start, File, files, FreshState
<1>11. OldSaves' = OldSaves
  BY <1>10 DEF OldSaves
<1>12. ResetWork'
  <2>1. \A i \in DOMAIN calls : \E t \in issued', n \in Name : calls[i] = SaveCall(t, n, FreshState')
    BY <1>7, <1>10
  <2>2. ASSUME NEW t \in OldSaves'
        PROVE  \E i \in DOMAIN calls : calls[i].token = t
    <3>1. PICK i \in DOMAIN order : order[i] = t
      BY <1>1, <1>11
    <3> QED BY <1>7, <3>1
  <2> QED BY <1>9, <2>1, <2>2 DEF ResetWork
<1>13. Ahead'
  BY <1>10, MemorySame DEF gameVars
<1>14. /\ players' \in Players /\ realtime' \subseteq DOMAIN players' /\ DOMAIN players' \subseteq issued
  BY <1>10, MemoryIs DEF gameVars
<1>15. Reset # Login /\ Reset # Game
  BY StoreAssumption
<1> QED BY <1>6, <1>9, <1>10, <1>12, <1>13, <1>14, <1>15, GivenKeeps

-----------------------------------------------------------------------------
(* What the processes do with the file.                                     *)

\* Whoever makes a call makes one of its own, for a token that is known or new.
LEMMA HeadIs ==
    ASSUME Kept, NEW p \in Process, proc[p].todo # <<>>
    PROVE  LET c == Head(proc[p].todo)
           IN  /\ c \in Call
               /\ c.call = "register" => p = Login /\ c.token \in Token \ issued
               /\ c.call \notin {"register", "set_all_offline"} => c.token \in issued
               /\ p = Login => c.call \in {"register", "resume", "rename"}
               /\ p = Reset => c.call = "save_player_state" /\ c.state = FreshState
               /\ c.call \in {"register", "resume", "rename"} => p = Login
               /\ c.call = "save_player_state" /\ p = Game =>
                    c.token \in DOMAIN players /\ c.state = StateOf(c.token)
               /\ c.call = "set_online" => p = Game
               /\ proc[p].todo \in Seq(Call) /\ Tail(proc[p].todo) \in Seq(Call)
<1>1. proc[p].todo \in Seq(Call) /\ Tail(proc[p].todo) \in Seq(Call)
  BY ProcIs, HeadTailProperties DEF Kept, Typed
<1>2. p \in {Login, Game, Reset} /\ Login # Game /\ Game # Reset /\ Login # Reset
  BY StoreAssumption
<1>3. CASE p = Login
  BY <1>1, <1>2, <1>3, LoginHead
<1>4. CASE p = Reset
  BY <1>1, <1>2, <1>4, ResetHead
<1>5. CASE p = Game
  <2>1. DOMAIN players \subseteq issued
    BY MemoryIs
  <2>2. CASE Sweeps
    BY <1>1, <1>2, <1>5, <2>2 DEF Sweeps
  <2>3. ASSUME NEW t \in DOMAIN players, NEW rest, SavesPlayer(t, rest)
        PROVE  LET c == Head(proc[p].todo)
               IN  /\ c \in Call /\ c.call = "save_player_state" /\ c.token \in issued
                   /\ c.token \in DOMAIN players /\ c.state = StateOf(c.token)
    BY <1>5, <2>1, <2>3 DEF SavesPlayer
  <2>4. ASSUME NEW t \in DOMAIN players, NEW online \in BOOLEAN, SetsOnline(t, online)
        PROVE  LET c == Head(proc[p].todo)
               IN  c \in Call /\ c.call = "set_online" /\ c.token \in issued
    BY <1>5, <2>1, <2>4 DEF SetsOnline
  <2>5. CASE \E t \in DOMAIN players, rest \in Seq(Call) \cup {<<>>} : SavesPlayer(t, rest)
    BY <1>1, <1>2, <1>5, <2>3, <2>5
  <2>6. CASE \E t \in DOMAIN players, online \in BOOLEAN : SetsOnline(t, online)
    BY <1>1, <1>2, <1>5, <2>4, <2>6
  <2>7. ASSUME NEW t \in DOMAIN players, NEW online \in BOOLEAN PROVE <<OnlineCall(t, online)>> \in Seq(Call)
    <3>1. t \in Token
      BY MemoryIs
    <3> QED BY <3>1, CallsMade
  <2> QED BY <1>5, <2>2, <2>5, <2>6, <2>7, GameHead
<1> QED BY <1>2, <1>3, <1>4, <1>5

\* The calls that always save.
LEMMA AlwaysSaves ==
    ASSUME NEW c, NEW s, c.call \in {"save_player_state", "set_online"}
    PROVE  Saves(c, s)
  BY DEF Saves

\* A call begins: the file is read, and the game server may enter a player.
LEMMA LoadIs ==
    ASSUME Kept, overlaps \in Nat, overlaps' = 0, NEW p \in Process, Load(p)
    PROVE  LET c == Head(proc[p].todo)
           IN  /\ proc[p].pc = "idle" /\ proc[p].todo # <<>> /\ \A q \in Process : ~Busy(q)
               /\ proc' = IF Saves(c, File)
                          THEN [proc EXCEPT ![p].pc = "open", ![p].sessions = Changed(c, File)]
                          ELSE [proc EXCEPT ![p].todo = Tail(@)]
               /\ realtime' = IF c.call = "set_online" /\ c.online
                              THEN realtime \cup {c.token} ELSE realtime
               /\ UNCHANGED players /\ UNCHANGED <<files, issued, granted>> /\ File' = File
               /\ realtime' \subseteq DOMAIN players'
<1>1. File # Torn
  BY MemoryIs, StoredAssumption
<1> DEFINE c == Head(proc[p].todo)
<1>2. /\ proc[p].pc = "idle" /\ proc[p].todo # <<>> /\ \A q \in Process : ~Busy(q)
      /\ proc' = IF Saves(c, File)
                 THEN [proc EXCEPT ![p].pc = "open", ![p].sessions = Changed(c, File)]
                 ELSE [proc EXCEPT ![p].todo = Tail(@)]
      /\ realtime' = IF c.call = "set_online" /\ c.online
                     THEN realtime \cup {c.token} ELSE realtime
      /\ UNCHANGED players /\ UNCHANGED <<files, issued, granted>>
  BY <1>1 DEF Load
<1>3. File' = File
  BY <1>2 DEF File, files
<1>4. c.call = "set_online" => c.token \in DOMAIN players
  <2>1. ASSUME c.call = "set_online"
        PROVE  c.token \in DOMAIN players
    <3>1. p = Game /\ Game \in Process
      BY <1>2, <2>1, HeadIs
    <3>2. PICK t \in DOMAIN players, online \in BOOLEAN : SetsOnline(t, online)
      BY <1>2, <2>1, <3>1, GameHead DEF Sweeps, SavesPlayer
    <3> QED BY <3>1, <3>2 DEF SetsOnline
  <2> QED BY <2>1
<1>5. realtime' \subseteq DOMAIN players'
  BY <1>2, <1>4, MemoryIs
<1> QED BY <1>2, <1>3, <1>5

\* A call begins that will save.
LEMMA LoadSaves ==
    ASSUME Kept, overlaps \in Nat, overlaps' = 0, NEW p \in Process, Load(p), Saves(Head(proc[p].todo), File)
    PROVE  Kept' /\ File' = File
<1> DEFINE c == Head(proc[p].todo)
           n == Changed(c, File)
           x == [proc[p] EXCEPT !.pc = "open", !.sessions = n]
<1>1. /\ proc[p].pc = "idle" /\ proc[p].todo # <<>> /\ \A q \in Process : ~Busy(q)
      /\ proc' = [proc EXCEPT ![p].pc = "open", ![p].sessions = n]
      /\ realtime' = IF c.call = "set_online" /\ c.online
                     THEN realtime \cup {c.token} ELSE realtime
      /\ players' = players /\ UNCHANGED <<files, issued, granted>> /\ File' = File
      /\ realtime' \subseteq DOMAIN players'
  BY LoadIs
<1>2. c \in Call /\ n \in Sessions
  <2>1. c \in Call /\ File \in Sessions
    BY <1>1, HeadIs, MemoryIs
  <2> QED BY <2>1, Effect
<1>3. proc[p] \in Proc /\ proc[p].handle = NoFile /\ proc \in [Process -> Proc]
  BY <1>1, QuietIs DEF Kept, Typed
<1> HIDE DEF n
<1>4. /\ x \in Proc /\ x.pc = "open" /\ x.todo = proc[p].todo /\ x.sessions = n
      /\ x.handle = NoFile /\ proc' = [proc EXCEPT ![p] = x]
  BY <1>1, <1>2, <1>3 DEF Proc
<1> HIDE DEF x
<1>5. /\ proc' \in [Process -> Proc] /\ proc'[p] = x
      /\ \A q \in Process : q # p => proc'[q] = proc[q]
  BY <1>3, <1>4, OneChanges
<1>6. OneWriter'
  <2>1. ASSUME NEW q \in Process PROVE Holds(q)'
    <3>1. CASE q # p
      BY <1>1, <1>5, <3>1, QuietHolds DEF Kept, OneWriter
    <3>2. CASE q = p
      <4>1. \A r \in Process : Busy(r)' => r = p
        BY <1>1, <1>5 DEF Busy
      <4> QED BY <1>1, <1>4, <1>5, <3>2, <4>1 DEF Holds, n
    <3> QED BY <3>1, <3>2
  <2> QED BY <1>1, <2>1 DEF Kept, OneWriter, files
<1>7. Typed'
  BY <1>1, <1>5 DEF Kept, Typed, files
<1>8. /\ Registered' /\ OldSaves' = OldSaves /\ Ahead'
      /\ \A t \in Token : OnlineIn(File', t) <=> OnlineIn(File, t)
  BY <1>1, FileSame, MemorySame
<1>9. \A q \in Process : proc'[q].todo = proc[q].todo /\ (proc'[q].pc # "down" => proc[q].pc # "down")
  BY <1>1, <1>4, <1>5
<1>10. LoginWork'
  BY <1>1, <1>9, LoginSame DEF Kept
<1>11. ResetWork'
  BY <1>1, <1>8, <1>9, ResetSame DEF Kept
<1>12. GameWork'
  <2>1. CASE c.call # "set_online"
    <3>1. UNCHANGED gameVars
      BY <1>1, <2>1 DEF gameVars
    <3>2. Game \in Process =>
             /\ proc'[Game].todo = proc[Game].todo
             /\ \/ proc'[Game].pc = proc[Game].pc
                \/ proc[Game].todo # <<>> /\ Head(proc[Game].todo).call # "set_online"
      BY <1>1, <1>5, <1>9, <2>1
    <3> QED BY <1>8, <3>1, <3>2, GameSame
  <2>2. CASE c.call = "set_online"
    <3>1. p = Game /\ Game \in Process
      BY <1>1, <2>2, HeadIs
    <3>2. PICK t \in DOMAIN players, online \in BOOLEAN : SetsOnline(t, online)
      BY <1>1, <2>2, <3>1, GameHead DEF Sweeps, SavesPlayer
    <3>3. /\ proc[Game].todo = <<OnlineCall(t, online)>> /\ c.token = t /\ c.online = online
          /\ Honest({t}) /\ (~online => t \notin realtime)
      BY <3>1, <3>2 DEF SetsOnline
    <3>4. realtime' = IF online THEN realtime \cup {t} ELSE realtime
      BY <1>1, <2>2, <3>3
    <3>5. Honest({t})'
      BY <1>8, <3>3, <3>4 DEF Honest
    <3>6. proc'[Game].todo = <<OnlineCall(t, online)>>
      BY <1>9, <3>1, <3>3
    <3>7. proc'[Game].todo = <<OnlineCall(t, TRUE)>> => t \in realtime'
      <4>2. OnlineCall(t, online).online = online /\ OnlineCall(t, TRUE).online = TRUE
        BY DEF OnlineCall
      <4>3. <<OnlineCall(t, online)>> = <<OnlineCall(t, TRUE)>> => OnlineCall(t, online) = OnlineCall(t, TRUE)
        OBVIOUS
      <4> QED BY <3>4, <3>6, <4>2, <4>3
    <3>8. ~online => t \notin realtime'
      BY <3>3, <3>4
    <3> QED BY <1>1, <3>1, <3>5, <3>6, <3>7, <3>8 DEF GameWork
  <2> QED BY <2>1, <2>2
<1> QED BY <1>1, <1>6, <1>7, <1>8, <1>10, <1>11, <1>12 DEF Kept

\* A call that finds nothing to change.
LEMMA LoadIdles ==
    ASSUME Kept, overlaps \in Nat, overlaps' = 0, NEW p \in Process, Load(p), ~Saves(Head(proc[p].todo), File)
    PROVE  Kept' /\ File' = File
<1> DEFINE c == Head(proc[p].todo)
           calls == Tail(proc[p].todo)
           x == [proc[p] EXCEPT !.todo = calls]
<1>1. /\ proc[p].pc = "idle" /\ proc[p].todo # <<>>
      /\ proc' = [proc EXCEPT ![p].todo = Tail(@)]
      /\ realtime' = IF c.call = "set_online" /\ c.online
                     THEN realtime \cup {c.token} ELSE realtime
      /\ players' = players /\ UNCHANGED <<files, issued, granted>> /\ File' = File
  BY LoadIs
<1>2. c \in Call /\ calls \in Seq(Call)
  BY <1>1, HeadIs
<1>3. c.call \notin {"save_player_state", "set_online"}
  BY AlwaysSaves
<1>4. proc[p] \in Proc /\ proc[p].handle = NoFile /\ proc \in [Process -> Proc]
  BY <1>1, QuietIs DEF Kept, Typed
<1>5. proc' = [proc EXCEPT ![p] = x]
  BY <1>1, <1>4
<1>6. p # Reset /\ UNCHANGED gameVars
  BY <1>1, <1>3, HeadIs DEF gameVars
<1>7. p = Login => calls = <<>>
  BY <1>1, LoginHead
<1>8. p = Game => Sweeps /\ ~Saves(c, File)
  <2>1. p = Game =>
           \/ Sweeps
           \/ \E t \in DOMAIN players, rest \in Seq(Call) \cup {<<>>} : SavesPlayer(t, rest)
           \/ \E t \in DOMAIN players, online \in BOOLEAN : SetsOnline(t, online)
    <3>1. ASSUME NEW t \in DOMAIN players, NEW online \in BOOLEAN
          PROVE  <<OnlineCall(t, online)>> \in Seq(Call)
      <4>1. t \in Token
        BY MemoryIs
      <4> QED BY <4>1, CallsMade
    <3> QED BY <1>1, <3>1, GameHead
  <2> QED BY <1>3, <2>1 DEF SavesPlayer, SetsOnline
<1> HIDE DEF calls
<1>9. x \in Proc /\ x.pc = "idle" /\ x.todo = calls /\ x.handle = NoFile
  BY <1>1, <1>2, <1>4 DEF Proc
<1> HIDE DEF x
<1>10. proc'[p] = x
  BY <1>4, <1>5
<1>11. p = Login => LoginWork'
  BY <1>7, <1>9, <1>10 DEF LoginWork
<1>12. p = Game => GameWork'
  <2>1. ASSUME p = Game PROVE GameWork'
    <3>1. calls = <<>> /\ realtime = {} /\ c.call = "set_all_offline"
      BY <1>8, <2>1 DEF Sweeps, calls
    <3>2. \A t \in DOMAIN File : ~File[t].online
      BY <1>8, <2>1, <3>1 DEF Saves
    <3>3. Honest({})'
      BY <1>1, <1>6, <3>1, <3>2 DEF Honest, OnlineIn, gameVars
    <3> QED BY <1>9, <1>10, <2>1, <3>1, <3>3 DEF GameWork
  <2> QED BY <2>1
<1>13. Ahead'
  BY <1>1, MemorySame
<1>14. /\ players' \in Players /\ realtime' \subseteq DOMAIN players' /\ DOMAIN players' \subseteq issued
  BY <1>1, <1>6, MemoryIs DEF gameVars
<1> QED BY <1>1, <1>2, <1>5, <1>6, <1>9, <1>11, <1>12, <1>13, <1>14, GivenKeeps

\* The call returns: the file is what it was with the call applied.
LEMMA ReplaceIs ==
    ASSUME Kept, NEW p \in Process, Replace(p)
    PROVE  LET c == Head(proc[p].todo)
           IN  /\ Busy(p) /\ proc[p].todo # <<>> /\ Saves(c, File) /\ c \in Call
               /\ File' = Changed(c, File) /\ File' \in Sessions
               /\ proc' \in [Process -> Proc] /\ proc'[p].pc = "idle" /\ proc'[p].todo = Tail(proc[p].todo)
               /\ \A q \in Process : q # p => proc'[q] = proc[q] /\ ~Busy(q)
               /\ path' \in Inode \cup {NoFile} /\ tmp_path' \in Inode \cup {NoFile}
               /\ content' \in [Inode -> Sessions \cup {Torn}] /\ OneWriter'
               /\ granted' = IF c.call \in {"register", "rename"}
                             THEN Put(granted, c.token, c.username) ELSE granted
               /\ issued' = IF c.call = "register" THEN issued \cup {c.token} ELSE issued
               /\ UNCHANGED gameVars
<1> DEFINE c == Head(proc[p].todo)
           x == [Down(proc[p].boots) EXCEPT !.pc = "idle", !.todo = Tail(proc[p].todo)]
<1>1. /\ proc[p].pc = "replace" /\ Busy(p) /\ Holds(p) /\ proc[p] \in Proc /\ NoFile \notin Inode
      /\ proc \in [Process -> Proc]
      /\ tmp_path # NoFile => tmp_path # path
      /\ content \in [Inode -> Sessions \cup {Torn}]
      /\ path \in Inode \cup {NoFile}
  BY StoredAssumption DEF Replace, Kept, Typed, OneWriter, Busy
<1>2. /\ tmp_path \in Inode /\ tmp_path # NoFile /\ tmp_path # path
      /\ content[tmp_path] = proc[p].sessions /\ proc[p].sessions = Changed(c, File)
      /\ proc[p].todo # <<>> /\ Saves(c, File)
      /\ \A q \in Process : Busy(q) => q = p
  BY <1>1 DEF Holds
<1>3. /\ path' = tmp_path /\ tmp_path' = NoFile
      /\ content' = [i \in Inode |-> IF i = path THEN Torn ELSE content[i]]
      /\ proc' = [proc EXCEPT ![p] = x]
      /\ granted' = IF c.call \in {"register", "rename"}
                    THEN Put(granted, c.token, c.username) ELSE granted
      /\ issued' = IF c.call = "register" THEN issued \cup {c.token} ELSE issued
      /\ UNCHANGED gameVars
  BY <1>1, <1>2 DEF Replace, Abandon
<1>4. c \in Call /\ Tail(proc[p].todo) \in Seq(Call)
  BY <1>2, HeadIs
<1>5. x \in Proc /\ x.pc = "idle" /\ x.todo = Tail(proc[p].todo) /\ x.handle = NoFile
  <2>1. proc[p].boots \in Nat
    BY <1>1, ProcIs
  <2>2. ASSUME NEW b \in Nat, NEW todo \in Seq(Call)
        PROVE  LET y == [Down(b) EXCEPT !.pc = "idle", !.todo = todo]
               IN  y \in Proc /\ y.pc = "idle" /\ y.todo = todo /\ y.handle = NoFile
    BY DownIs
  <2> HIDE DEF x
  <2> QED BY <1>4, <2>1, <2>2 DEF x
<1> HIDE DEF x
<1>6. /\ proc' \in [Process -> Proc] /\ proc'[p] = x
      /\ \A q \in Process : q # p => proc'[q] = proc[q]
  BY <1>1, <1>3, <1>5, OneChanges
<1>7. File' = proc[p].sessions /\ proc[p].sessions \in Sessions
  <2>1. content'[path'] = proc[p].sessions /\ path' # NoFile
    BY <1>2, <1>3
  <2> QED BY <2>1, <1>1, ProcIs DEF File
<1>8. OneWriter'
  <2>1. ASSUME NEW q \in Process PROVE Holds(q)'
    <3>1. CASE q # p
      <4>1. Holds(q) /\ ~Busy(q) /\ proc'[q] = proc[q]
        BY <1>2, <1>6, <3>1 DEF Kept, OneWriter
      <4> QED BY <4>1, QuietHolds
    <3>2. CASE q = p
      BY <1>5, <1>6, <3>2 DEF Holds, Busy
    <3> QED BY <3>1, <3>2
  <2> QED BY <1>3, <2>1 DEF OneWriter
<1>9. content' \in [Inode -> Sessions \cup {Torn}]
  BY <1>1, <1>3
<1> QED BY <1>1, <1>2, <1>3, <1>4, <1>5, <1>6, <1>7, <1>8, <1>9

\* The states of the file after a call of a process: no save is undone but by the
\* reset tool, and no old save appears.
LEMMA ReplaceStates ==
    ASSUME Kept, NEW p \in Process, Replace(p), NEW t \in Token
    PROVE  /\ p # Reset /\ StateIn(File, t) # NoState =>
                /\ StateIn(File', t) # NoState
                /\ StateIn(File', t).progress >= StateIn(File, t).progress
           /\ t \in OldSaves' => t \in OldSaves /\ (p = Reset => t # Head(proc[p].todo).token)
           /\ t \in DOMAIN players /\ StateIn(File', t) # NoState =>
                players[t].progress >= StateIn(File', t).progress
<1> DEFINE c == Head(proc[p].todo)
<1>1. /\ Saves(c, File) /\ c \in Call /\ File' = Changed(c, File) /\ File' \in Sessions
      /\ File \in Sessions /\ proc[p].todo # <<>>
  BY ReplaceIs, MemoryIs
<1>2. StateIn(File', t) = IF c.call = "save_player_state" /\ t = c.token THEN c.state
                          ELSE IF c.call = "register" /\ t = c.token THEN NoState
                          ELSE StateIn(File, t)
  BY <1>1, Effect DEF StatesAfter
<1>3. /\ c.call = "register" => c.token \notin issued
      /\ c.call = "save_player_state" => p \in {Game, Reset}
      /\ p = Reset => c.call = "save_player_state" /\ c.state = FreshState
      /\ c.call = "save_player_state" /\ p = Game =>
           c.token \in DOMAIN players /\ c.state = StateOf(c.token)
  BY <1>1, HeadIs, StoreAssumption
<1>4. t \notin issued => StateIn(File, t) = NoState
  BY DEF Kept, Registered, StateIn
<1>5. /\ FreshState \in PlayerState /\ FreshState.current = TRUE /\ FreshState.progress = 0
      /\ NoState \notin PlayerState
  BY StoreAssumption, StoredAssumption DEF FreshState, PlayerState, Progress
<1>6. StateIn(File, t) # NoState => StateIn(File, t).progress \in Nat
  BY MemoryIs, RecordIs DEF StateIn, PlayerState, Progress
<1>7. t \in DOMAIN players =>
        /\ players[t].progress \in Nat /\ StateOf(t) \in PlayerState
        /\ StateOf(t).current = TRUE /\ StateOf(t).progress = players[t].progress
        /\ StateIn(File, t) # NoState => players[t].progress >= StateIn(File, t).progress
  <2>1. t \in DOMAIN players =>
          /\ players[t].progress \in Progress /\ StateOf(t) \in PlayerState
          /\ StateOf(t).current = TRUE /\ StateOf(t).progress = players[t].progress
    BY PlayerIs DEF Kept
  <2>2. t \in DOMAIN players /\ StateIn(File, t) # NoState
          => players[t].progress >= StateIn(File, t).progress
    BY MemoryIs DEF Ahead
  <2> QED BY <2>1, <2>2 DEF Progress
<1>8. /\ t \in OldSaves <=> StateIn(File, t) # NoState /\ ~StateIn(File, t).current
      /\ t \in OldSaves' <=> StateIn(File', t) # NoState /\ ~StateIn(File', t).current
  BY OldIs DEF OldSaves, StateIn
<1>9. CASE c.call = "save_player_state" /\ t = c.token /\ p = Game
  <2>1. t \in DOMAIN players /\ StateIn(File', t) = StateOf(t) /\ Game # Reset
    BY <1>2, <1>3, <1>9, StoreAssumption
  <2> QED BY <2>1, <1>5, <1>7, <1>8, <1>9
<1>10. CASE c.call = "save_player_state" /\ t = c.token /\ p = Reset
  <2>1. StateIn(File', t) = FreshState
    BY <1>2, <1>3, <1>10
  <2> QED BY <2>1, <1>5, <1>7, <1>8, <1>10
<1>11. CASE c.call = "register" /\ t = c.token
  <2>1. StateIn(File, t) = NoState /\ StateIn(File', t) = NoState
    BY <1>2, <1>3, <1>4, <1>11
  <2> QED BY <2>1, <1>8
<1>12. CASE ~(c.call \in {"save_player_state", "register"} /\ t = c.token)
  <2>1. StateIn(File', t) = StateIn(File, t) /\ (p = Reset => t # c.token)
    BY <1>2, <1>3, <1>12
  <2> QED BY <2>1, <1>6, <1>7, <1>8
<1> QED BY <1>3, <1>9, <1>10, <1>11, <1>12

\* Whoever was told a name has it, and who is in the file holds a token.
LEMMA ReplaceRegistered ==
    ASSUME Kept, NEW p \in Process, Replace(p)
    PROVE  Registered' /\ issued \subseteq issued' /\ issued' \subseteq Token
<1> DEFINE c == Head(proc[p].todo)
<1>1. /\ Saves(c, File) /\ c \in Call /\ File' = Changed(c, File)
      /\ File \in Sessions /\ proc[p].todo # <<>>
      /\ granted' = IF c.call \in {"register", "rename"}
                    THEN Put(granted, c.token, c.username) ELSE granted
      /\ issued' = IF c.call = "register" THEN issued \cup {c.token} ELSE issued
  BY ReplaceIs, MemoryIs
<1>2. /\ NamesAfter(c, File, File')
      /\ DOMAIN File' = IF c.call = "set_all_offline" THEN DOMAIN File ELSE DOMAIN File \cup {c.token}
  BY <1>1, Effect
<1>3. /\ c.call = "register" => c.token \in Token
      /\ c.call \notin {"register", "set_all_offline"} => c.token \in issued
  BY <1>1, HeadIs
<1>4. /\ DOMAIN File \subseteq issued /\ DOMAIN granted \subseteq DOMAIN File /\ issued \subseteq Token
      /\ \A t \in DOMAIN granted : File[t].username = granted[t]
  BY DEF Kept, Registered, Typed
<1>5. issued \subseteq issued' /\ issued' \subseteq Token /\ DOMAIN File' \subseteq issued'
  BY <1>1, <1>2, <1>3, <1>4
<1>6. CASE c.call \in {"register", "rename"}
  <2>1. granted' = [u \in DOMAIN granted \cup {c.token} |-> IF u = c.token THEN c.username ELSE granted[u]]
    BY <1>1, <1>6 DEF Put
  <2>2. /\ DOMAIN granted' = DOMAIN granted \cup {c.token} /\ granted'[c.token] = c.username
        /\ \A u \in DOMAIN granted : u # c.token => granted'[u] = granted[u]
    BY <2>1
  <2>3. ASSUME NEW u \in DOMAIN granted'
        PROVE  u \in DOMAIN File' /\ File'[u].username = granted'[u]
    <3>1. CASE u = c.token
      BY <1>2, <1>6, <2>2, <3>1 DEF NamesAfter
    <3>2. CASE u # c.token
      BY <1>2, <1>4, <2>2, <2>3, <3>2 DEF NamesAfter
    <3> QED BY <3>1, <3>2
  <2> QED BY <1>5, <2>3 DEF Registered
<1>7. CASE c.call \notin {"register", "rename"}
  <2>1. granted' = granted
    BY <1>1, <1>7
  <2>2. \A u \in DOMAIN File : u \in DOMAIN File' /\ File'[u].username = File[u].username
    BY <1>2, <1>7 DEF NamesAfter
  <2> QED BY <1>4, <1>5, <2>1, <2>2 DEF Registered
<1> QED BY <1>5, <1>6, <1>7

\* The call returns.
LEMMA ReplaceKeeps ==
    ASSUME Kept, NEW p \in Process, Replace(p)
    PROVE  Kept'
<1> DEFINE c == Head(proc[p].todo)
<1>1. /\ Busy(p) /\ proc[p].todo # <<>> /\ Saves(c, File) /\ c \in Call
      /\ File' = Changed(c, File) /\ File' \in Sessions
      /\ proc' \in [Process -> Proc] /\ proc'[p].pc = "idle" /\ proc'[p].todo = Tail(proc[p].todo)
      /\ \A q \in Process : q # p => proc'[q] = proc[q] /\ ~Busy(q)
      /\ path' \in Inode \cup {NoFile} /\ tmp_path' \in Inode \cup {NoFile}
      /\ content' \in [Inode -> Sessions \cup {Torn}] /\ OneWriter'
      /\ issued' = IF c.call = "register" THEN issued \cup {c.token} ELSE issued
      /\ UNCHANGED gameVars
  BY ReplaceIs
<1>2. players' = players /\ realtime' = realtime
  BY <1>1 DEF gameVars
<1>3. Registered' /\ issued \subseteq issued' /\ issued' \subseteq Token
  BY ReplaceRegistered
<1>4. Typed'
  BY <1>1, <1>2, <1>3, MemoryIs DEF Typed
<1>5. Ahead'
  <2>1. DOMAIN players \subseteq Token
    BY MemoryIs
  <2> QED BY <1>2, <2>1, ReplaceStates DEF Ahead
<1>6. File \in Sessions /\ OnlineAfter(c, File, File')
  BY <1>1, Effect, MemoryIs
<1>7. p # Login => c.call # "register" /\ issued' = issued
  BY <1>1, HeadIs
<1>8. LoginWork'
  <2>1. CASE p = Login
    BY <1>1, <2>1, LoginHead DEF LoginWork
  <2>2. CASE p # Login
    BY <1>1, <1>7, <2>2, LoginSame DEF Kept
  <2> QED BY <2>1, <2>2
<1>9. ResetWork'
  <2>1. CASE p # Reset
    <3>1. OldSaves' \subseteq OldSaves
      <4>1. OldSaves' \subseteq Token
        BY <1>1, SessionsAre DEF OldSaves
      <4> QED BY <4>1, ReplaceStates
    <3> QED BY <1>1, <1>3, <2>1, <3>1, ResetSame DEF Kept
  <2>2. CASE p = Reset
    <3> DEFINE q == proc[Reset].todo
    <3>1. /\ \A i \in DOMAIN q : \E t \in issued, n \in Name : q[i] = SaveCall(t, n, FreshState)
          /\ proc[Reset].pc # "down"
      BY <1>1, <2>2 DEF Kept, ResetWork, Busy
    <3>2. \A t \in OldSaves : \E i \in DOMAIN q : q[i].token = t
      BY <2>2, <3>1 DEF Kept, ResetWork
    <3>3. q # <<>> /\ q \in Seq(Call)
      BY <1>1, <2>2, HeadIs
    <3> HIDE DEF q
    <3>4. /\ Head(q) = q[1] /\ Len(Tail(q)) = Len(q) - 1 /\ Len(q) \in Nat /\ DOMAIN q = 1 .. Len(q)
          /\ \A i \in 1 .. Len(Tail(q)) : Tail(q)[i] = q[i + 1] /\ i + 1 \in 1 .. Len(q)
          /\ DOMAIN Tail(q) = 1 .. Len(Tail(q))
      BY <3>3, HeadTailProperties, LenProperties, EmptySeq
    <3>5. proc'[Reset].todo = Tail(q) /\ c = Head(q) /\ FreshState' = FreshState
      BY <1>1, <2>2 DEF q, FreshState
    <3>6. ASSUME NEW i \in DOMAIN Tail(q)
          PROVE  \E t \in issued', n \in Name : Tail(q)[i] = SaveCall(t, n, FreshState)
      <4>1. Tail(q)[i] = q[i + 1] /\ i + 1 \in DOMAIN q
        BY <3>4
      <4> QED BY <1>3, <3>1, <4>1
    <3>7. ASSUME NEW t \in OldSaves'
          PROVE  \E i \in DOMAIN Tail(q) : Tail(q)[i].token = t
      <4>1. t \in Token
        BY <1>1, SessionsAre DEF OldSaves
      <4>2. t \in OldSaves /\ t # q[1].token
        BY <2>2, <3>4, <3>5, <4>1, ReplaceStates
      <4>3. PICK i \in DOMAIN q : q[i].token = t
        BY <3>2, <4>2
      <4>4. i # 1
        BY <4>2, <4>3
      <4>5. i - 1 \in DOMAIN Tail(q) /\ (i - 1) + 1 = i
        BY <3>4, <4>4
      <4>6. Tail(q)[i - 1] = q[i]
        BY <3>4, <4>5
      <4> QED BY <4>3, <4>5, <4>6
    <3> QED BY <3>5, <3>6, <3>7 DEF ResetWork
  <2> QED BY <2>1, <2>2
<1>10. GameWork'
  <2>1. CASE p # Game
    <3>1. c.call \notin {"set_all_offline", "set_online"}
      BY <1>1, <2>1, HeadIs, StoreAssumption
    <3>2. ASSUME NEW t \in Token
          PROVE  OnlineIn(File', t) <=> OnlineIn(File, t)
      <4>1. c.call = "register" => c.token \notin issued
        BY <1>1, HeadIs
      <4>2. t \notin issued => ~OnlineIn(File, t)
        BY DEF OnlineIn, Kept, Registered
      <4> QED BY <1>6, <3>1, <4>1, <4>2 DEF OnlineAfter
    <3> QED BY <1>1, <2>1, <3>2, GameSame
  <2>2. CASE p = Game
    <3>1. /\ proc'[Game].pc = "idle" /\ ~Busy(Game)' /\ Busy(Game) /\ Game \in Process
          /\ c = Head(proc[Game].todo) /\ proc'[Game].todo = Tail(proc[Game].todo)
          /\ proc[Game].todo # <<>>
      BY <1>1, <2>2 DEF Busy
    <3>2. ASSUME c.call = "save_player_state", NEW T, Honest(T)
          PROVE  Honest(T)'
      BY <1>2, <1>6, <3>2 DEF Honest, OnlineAfter
    <3>3. CASE Sweeps
      <4>1. proc'[Game].todo = <<>> /\ realtime' = {} /\ c.call = "set_all_offline"
        BY <1>2, <3>1, <3>3 DEF Sweeps
      <4>2. Honest({})'
        BY <1>6, <4>1 DEF Honest, OnlineAfter
      <4> QED BY <3>1, <4>1, <4>2 DEF GameWork
    <3>4. CASE \E t \in DOMAIN players : SavesPlayer(t, <<>>) /\ Honest({})
      <4>1. proc'[Game].todo = <<>> /\ c.call = "save_player_state" /\ Honest({})
        BY <3>1, <3>4 DEF SavesPlayer
      <4> QED BY <3>1, <3>2, <4>1 DEF GameWork
    <3>5. CASE \E t \in DOMAIN players, online \in BOOLEAN :
                 /\ SavesPlayer(t, <<OnlineCall(t, online)>>)
                 /\ Honest({t}) /\ (~online => t \notin realtime)
      <4>1. PICK t \in DOMAIN players, online \in BOOLEAN :
                 /\ SavesPlayer(t, <<OnlineCall(t, online)>>)
                 /\ Honest({t}) /\ (~online => t \notin realtime)
        BY <3>5
      <4>2. proc'[Game].todo = <<OnlineCall(t, online)>> /\ c.call = "save_player_state"
        BY <3>1, <4>1 DEF SavesPlayer
      <4>3. Honest({t})'
        BY <3>2, <4>1, <4>2
      <4> QED BY <1>2, <3>1, <4>1, <4>2, <4>3 DEF GameWork
    <3>6. CASE \E t \in DOMAIN players, online \in BOOLEAN : SetsOnline(t, online)
      <4>1. PICK t \in DOMAIN players, online \in BOOLEAN : SetsOnline(t, online)
        BY <3>6
      <4>2. /\ proc'[Game].todo = <<>> /\ c.call = "set_online" /\ c.token = t /\ c.online = online
            /\ Honest({t})
        BY <3>1, <4>1 DEF SetsOnline
      <4>3. (online = TRUE) <=> t \in realtime
        BY <3>1, <4>1 DEF SetsOnline
      <4>4. Honest({})'
        BY <1>2, <1>6, <4>2, <4>3 DEF Honest, OnlineAfter
      <4> QED BY <3>1, <4>2, <4>4 DEF GameWork
    <3> QED BY <3>1, <3>3, <3>4, <3>5, <3>6, GameHead
  <2> QED BY <2>1, <2>2
<1> QED BY <1>1, <1>3, <1>4, <1>5, <1>8, <1>9, <1>10 DEF Kept

-----------------------------------------------------------------------------
(* The invariant, and what follows from it.                                 *)

\* At first the file holds one of the old saves, and no process runs.
LEMMA KeptInitially == Init => Kept
<1> SUFFICES ASSUME Init PROVE Kept
  OBVIOUS
<1>1. PICK stored \in Stored :
        /\ path = IF stored = <<>> THEN NoFile ELSE 0
        /\ tmp_path = NoFile
        /\ content = [i \in Inode |-> IF i = path THEN stored ELSE Torn]
        /\ proc = [p \in Process |-> Down(0)]
        /\ players = <<>> /\ realtime = {}
        /\ issued = Held
        /\ granted = [t \in DOMAIN stored |-> stored[t].username]
  BY DEF Init
<1>2. stored \in Sessions /\ DOMAIN stored \subseteq Held /\ Held \subseteq Token
  BY StoreAssumption, StoredAssumption
<1>3. File = stored /\ path \in Inode \cup {NoFile} /\ tmp_path = NoFile
  BY <1>1, StoredAssumption DEF File, Inode
<1>4. content \in [Inode -> Sessions \cup {Torn}]
  BY <1>1, <1>2
<1>5. ASSUME NEW p \in Process
      PROVE  /\ proc[p] \in Proc /\ proc[p].pc = "down" /\ proc[p].todo = <<>>
             /\ proc[p].handle = NoFile
  <2>1. proc[p] = Down(0)
    BY <1>1
  <2>2. Down(0) \in Proc /\ Down(0).pc = "down" /\ Down(0).todo = <<>> /\ Down(0).handle = NoFile
    BY EmptyIs, DownIs
  <2> QED BY <2>1, <2>2
<1>6. proc \in [Process -> Proc]
  BY <1>1, <1>5
<1>7. Typed
  BY <1>1, <1>2, <1>3, <1>4, <1>6, EmptyIs DEF Typed
<1>8. OneWriter
  BY <1>3, <1>5 DEF OneWriter, Holds, Busy
<1>9. Registered
  <2>1. DOMAIN granted = DOMAIN stored /\ \A t \in DOMAIN stored : granted[t] = stored[t].username
    BY <1>1
  <2> QED BY <1>1, <1>2, <1>3, <2>1 DEF Registered
<1>10. Ahead
  BY <1>1, EmptyIs DEF Ahead
<1>11. LoginWork /\ GameWork
  BY <1>1, <1>5 DEF LoginWork, GameWork
<1>12. ResetWork
  BY <1>5, EmptyIs DEF ResetWork
<1> QED BY <1>7, <1>8, <1>9, <1>10, <1>11, <1>12 DEF Kept

\* A step other than the end of a call leaves the file as it is.
LEMMA NextKeeps ==
    ASSUME Kept, overlaps \in Nat, overlaps' = 0, [Next]_vars
    PROVE  /\ Kept'
           /\ File' = File \/ \E p \in Process : Replace(p)
<1>1. ASSUME NEW p \in Process, Load(p) PROVE Kept' /\ File' = File
  BY <1>1, LoadSaves, LoadIdles
<1>2. ASSUME NEW p \in Process, OpenTmp(p) \/ WriteTmp(p) \/ Crash(p) PROVE Kept' /\ File' = File
  BY <1>2, OpenTmpKeeps, WriteTmpKeeps, CrashKeeps
<1>3. ASSUME NEW p \in Process, Replace(p) PROVE Kept'
  BY <1>3, ReplaceKeeps
<1>4. CASE LoginNext \/ GameNext \/ StartReset
  BY <1>4, LoginKeeps, GameKeeps, StartResetKeeps
<1>5. CASE UNCHANGED vars
  <2>1. /\ path' = path /\ tmp_path' = tmp_path /\ content' = content /\ proc' = proc
        /\ players' = players /\ realtime' = realtime /\ issued' = issued /\ granted' = granted
    BY <1>5 DEF vars
  <2>2. File' = File
    BY <2>1 DEF File
  <2>3. Typed' /\ Registered' /\ Ahead' /\ OneWriter'
    BY <2>1, <2>2 DEF Kept, Typed, Registered, Ahead, OneWriter, Holds, Busy
  <2>4. LoginWork' /\ ResetWork'
    BY <2>1, <2>2 DEF Kept, LoginWork, ResetWork, StateOf, FreshState, OldSaves, Busy
  <2>5. GameWork'
    BY <2>1, <2>2 DEF Kept, GameWork, Honest, SaveOf, StateOf, FreshState, Busy
  <2> QED BY <2>2, <2>3, <2>4, <2>5 DEF Kept
<1> QED BY <1>1, <1>2, <1>3, <1>4, <1>5 DEF Next

\* overlaps never goes back.
LEMMA OverlapsGrow ==
    ASSUME overlaps \in Nat, [Next]_vars
    PROVE  overlaps' \in Nat /\ overlaps' >= overlaps
<1>1. ASSUME NEW p \in Process, Load(p) PROVE overlaps' \in Nat /\ overlaps' >= overlaps
  BY <1>1 DEF Load
<1>2. ASSUME NEW p \in Process, OpenTmp(p) \/ WriteTmp(p) \/ Replace(p) \/ Crash(p)
      PROVE  overlaps' = overlaps
  BY <1>2 DEF OpenTmp, WriteTmp, Replace, Crash
<1>3. ASSUME LoginNext \/ StartReset \/ GameNext PROVE overlaps' = overlaps
  <2>1. CASE LoginNext
    BY <2>1 DEF LoginNext, StartLogin, Start, LoginRequest, ResumeRequest, RenameRequest
  <2>2. CASE StartReset
    BY <2>2 DEF StartReset, Start
  <2>3. CASE StartGame
    BY <2>3 DEF StartGame, Start
  <2>4. ASSUME NEW t \in Token, Hello(t) \/ Auth(t) \/ Earn(t) \/ Drop(t)
        PROVE  overlaps' = overlaps
    BY <2>4 DEF Hello, Auth, Attach, Earn, Drop
  <2> QED BY <1>3, <2>1, <2>2, <2>3, <2>4 DEF GameNext
<1>5. CASE UNCHANGED vars
  BY <1>5 DEF vars
<1> QED BY <1>1, <1>2, <1>3, <1>5 DEF Next

\* Until two calls overlap Kept holds: only one process writes, never to sessions.json
\* itself, and what it is going to write is the file with its call applied, whoever
\* crashes and starts again.
KeptUntil == overlaps \in Nat /\ (overlaps = 0 => Kept)

THEOREM KeptAlways == Spec => []KeptUntil
<1>1. Init => KeptUntil
  BY KeptInitially DEF Init, KeptUntil
<1>2. KeptUntil /\ [Next]_vars => KeptUntil'
  <2> SUFFICES ASSUME KeptUntil, [Next]_vars PROVE KeptUntil'
    OBVIOUS
  <2>1. overlaps \in Nat /\ overlaps' \in Nat /\ (overlaps' = 0 => overlaps = 0)
    BY OverlapsGrow DEF KeptUntil
  <2>2. ASSUME overlaps' = 0 PROVE Kept'
    BY <2>1, <2>2, NextKeeps DEF KeptUntil
  <2> QED BY <2>1, <2>2 DEF KeptUntil
<1> QED BY <1>1, <1>2, PTL DEF Spec

\* Until two calls overlap sessions.json shows online, between two events of the game
\* server, exactly the players attached to it (set_online, set_all_offline at its start).
THEOREM OnlineHonestAlways == Spec => []OnlineHonest
<1>1. KeptUntil => OnlineHonest
  BY IdleHonest DEF OnlineHonest, Honest, KeptUntil
<1> QED BY <1>1, KeptAlways, PTL

\* Until two calls overlap, when reset_old_sessions.py has ended its work no save of the
\* previous generation is left, and none comes back.
THEOREM ResetCompleteAlways == Spec => []ResetComplete
<1>1. ASSUME Kept, Idle(Reset) PROVE OldSaves = {}
  <2>1. Reset \in Process /\ proc[Reset].pc # "down" /\ DOMAIN proc[Reset].todo = {}
    BY <1>1, EmptyIs DEF Idle
  <2> QED BY <1>1, <2>1 DEF Kept, ResetWork
<1>2. KeptUntil => ResetComplete
  BY <1>1 DEF ResetComplete, KeptUntil
<1> QED BY <1>2, KeptAlways, PTL

\* Until two calls overlap the file can be read whatever happens, and no step of the login or the game server
\* takes progress out of it that has reached it, crashes and restarts included
\* (load_sessions, ensure_player, save_player_state).
THEOREM ProgressKeptAlways == Spec => ProgressKept
<1> DEFINE Kind ==
      /\ File' # Torn
      /\ ~ResetActs =>
           \A t \in DOMAIN File :
             File[t].state # NoState =>
                 /\ StateIn(File', t) # NoState
                 /\ StateIn(File', t).progress >= File[t].state.progress
<1>1. ASSUME Kept, overlaps \in Nat, overlaps' = 0, [Next]_vars PROVE Kind
  <2>1. File' # Torn
    <3>1. File' \in Sessions
      BY <1>1, NextKeeps DEF Kept, Typed
    <3> QED BY <3>1, StoredAssumption
  <2>2. ASSUME ~ResetActs, NEW t \in DOMAIN File, File[t].state # NoState
        PROVE  /\ StateIn(File', t) # NoState
               /\ StateIn(File', t).progress >= File[t].state.progress
    <3>1. t \in Token /\ File[t].state \in PlayerState /\ StateIn(File, t) = File[t].state
      BY <1>1, <2>2, MemoryIs, RecordIs DEF StateIn
    <3>2. CASE File' = File
      <4>1. File[t].state.progress \in Nat
        BY <3>1 DEF PlayerState, Progress
      <4> QED BY <2>2, <3>1, <3>2, <4>1
    <3>3. ASSUME NEW p \in Process, Replace(p) PROVE p # Reset
      <4>1. Busy(p) /\ proc'[p].pc = "idle"
        BY <1>1, <3>3, ReplaceIs
      <4>2. proc[p] # proc'[p]
        BY <4>1 DEF Busy
      <4> QED BY <2>2, <4>2 DEF ResetActs
    <3>4. CASE \E p \in Process : Replace(p)
      BY <1>1, <2>2, <3>1, <3>3, <3>4, ReplaceStates
    <3> QED BY <1>1, <3>2, <3>4, NextKeeps
  <2> QED BY <2>1, <2>2
<1>2. KeptUntil /\ [Next]_vars => [overlaps' = 0 => Kind]_vars
  <2> SUFFICES ASSUME KeptUntil, [Next]_vars, overlaps' = 0 PROVE Kind
    OBVIOUS
  <2>1. overlaps \in Nat /\ overlaps = 0
    BY OverlapsGrow DEF KeptUntil
  <2> QED BY <1>1, <2>1 DEF KeptUntil
<1> QED BY <1>2, KeptAlways, PTL DEF Spec, ProgressKept

\* No two clients were told the same name is theirs.
NamesApart == \A t, u \in DOMAIN granted : t # u => granted[t] # granted[u]

\* A name is granted when nobody in the file has it.
LEMMA ReplaceNames ==
    ASSUME Kept, NamesApart, NEW p \in Process, Replace(p)
    PROVE  NamesApart'
<1> DEFINE c == Head(proc[p].todo)
<1>1. /\ Saves(c, File) /\ c \in Call
      /\ granted' = IF c.call \in {"register", "rename"}
                    THEN Put(granted, c.token, c.username) ELSE granted
  BY ReplaceIs
<1>2. CASE c.call \notin {"register", "rename"}
  BY <1>1, <1>2 DEF NamesApart
<1>3. CASE c.call \in {"register", "rename"}
  <2>1. granted' = [u \in DOMAIN granted \cup {c.token} |-> IF u = c.token THEN c.username ELSE granted[u]]
    BY <1>1, <1>3 DEF Put
  <2>2. /\ DOMAIN granted' = DOMAIN granted \cup {c.token} /\ granted'[c.token] = c.username
        /\ \A u \in DOMAIN granted : u # c.token => granted'[u] = granted[u]
    BY <2>1
  <2>3. \A u \in DOMAIN File \ {c.token} : File[u].username # c.username
    BY <1>1, <1>3 DEF Saves, username_taken
  <2>4. \A u \in DOMAIN granted \ {c.token} : granted[u] # c.username
    BY <2>3 DEF Kept, Registered
  <2> QED BY <2>2, <2>4 DEF NamesApart
<1> QED BY <1>2, <1>3

\* Only the end of a call grants a name.
LEMMA GrantedBy ==
    ASSUME [Next]_vars
    PROVE  granted' = granted \/ \E p \in Process : Replace(p)
<1>1. CASE LoginNext
  BY <1>1 DEF LoginNext, StartLogin, Start, LoginRequest, ResumeRequest, RenameRequest
<1>2. CASE GameNext
  BY <1>2 DEF GameNext, StartGame, Start, Hello, Auth, Attach, Earn, Drop
<1>3. CASE StartReset
  BY <1>3 DEF StartReset, Start
<1>4. ASSUME NEW p \in Process, Load(p) \/ OpenTmp(p) \/ WriteTmp(p) \/ Crash(p)
      PROVE  granted' = granted
  BY <1>4 DEF Load, OpenTmp, WriteTmp, Crash
<1>5. CASE UNCHANGED vars
  BY <1>5 DEF vars
<1> QED BY <1>1, <1>2, <1>3, <1>4, <1>5 DEF Next

\* Until two calls overlap a client that was told a name is its own keeps it in the file,
\* and nobody else is told the same, if the file the servers start from gives no name
\* twice (username_taken, save_player_state).
THEOREM NamesHeldAlways ==
    ASSUME \A s \in Stored : \A t, u \in DOMAIN s : t # u => s[t].username # s[u].username
    PROVE  Spec => []NamesHeld
<1> DEFINE Apart == overlaps = 0 => NamesApart
<1>1. Init => Apart
  BY DEF Init, NamesApart
<1>2. KeptUntil /\ Apart /\ [Next]_vars => Apart'
  <2> SUFFICES ASSUME KeptUntil, Apart, [Next]_vars, overlaps' = 0 PROVE NamesApart'
    OBVIOUS
  <2>1. overlaps = 0
    BY OverlapsGrow DEF KeptUntil
  <2>2. Kept /\ NamesApart
    BY <2>1 DEF KeptUntil
  <2>3. ASSUME granted' = granted PROVE NamesApart'
    BY <2>2, <2>3 DEF NamesApart
  <2> QED BY <2>2, <2>3, GrantedBy, ReplaceNames
<1>3. KeptUntil /\ Apart => NamesHeld
  BY DEF NamesHeld, NamesApart, GrantedKept, Kept, KeptUntil, Registered, NameIn
<1> QED BY <1>1, <1>2, <1>3, KeptAlways, PTL DEF Spec
=============================================================================
