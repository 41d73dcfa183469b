---------------------------- MODULE SessionStore ----------------------------
(***************************************************************************)
(* sessions.json, the file of identities and progress, and the processes   *)
(* that share it: the login server, the game server and the reset tool,    *)
(* each with a SessionStore of its own (src/server/login_server.py).       *)
(* Every call of a SessionStore reads the whole file, changes its copy and *)
(* writes it all back through a temporary file; nothing locks the file, so *)
(* the calls of two processes may overlap.  overlaps counts the calls that *)
(* began inside another process's call: what a writer promises is promised *)
(* until then, and TLC explores the behaviours with at most MaxOverlaps of *)
(* them.  A process can crash between any two of its system calls.         *)
(*                                                                         *)
(* A name is a model value and a saved player_state is how far the player  *)
(* got and whether the save carries the current schema_version;            *)
(* last_seen_at and the formatting of the file are left out.               *)
(***************************************************************************)
EXTENDS Naturals, Sequences, FiniteSets

CONSTANTS
    Login, Game, Reset,     \* the processes
    Process,                \* those of them that run
    Token, Name,
    NoState, NoFile, Torn,
    ResumeName,             \* "Player" and the last four digits of a token
    HexName,                \* "Player" and its low 16 bits in hex
    Stored,                 \* what the file may hold at first: old saves
    Held,                   \* the tokens the clients hold at first
    MaxOverlaps, MaxProgress, MaxBoots      \* bounds

ASSUME StoreAssumption ==
    /\ Process \subseteq {Login, Game, Reset}
    /\ Login # Game /\ Game # Reset /\ Login # Reset
    /\ ResumeName \in [Token -> Name] /\ HexName \in [Token -> Name]
    /\ Held \subseteq Token
    /\ \A s \in Stored : DOMAIN s \subseteq Held
    /\ IsFiniteSet(Token)
    /\ MaxOverlaps \in Nat /\ MaxProgress \in Nat /\ MaxBoots \in [Process -> Nat]

Progress == 0 .. MaxProgress
PlayerState == [current : BOOLEAN, progress : Progress]
Record == [username : Name, state : PlayerState \cup {NoState}, online : BOOLEAN]
Sessions == UNION {[tokens -> Record] : tokens \in SUBSET Token}

\* One inode each for the file, the temporary file and every open handle.
Inode == 0 .. 4

ASSUME StoredAssumption ==
    /\ Stored \subseteq Sessions
    /\ NoState \notin PlayerState /\ Torn \notin Sessions /\ NoFile \notin Inode

VARIABLES
    path, tmp_path,     \* the inodes the two names lead to
    content,            \* what every inode holds
    proc,               \* the processes
    players,            \* Game: players and offline_players, in memory
    realtime,           \* Game: realtime_by_token
    issued,             \* the tokens clients hold
    granted,            \* the names clients were told they own
    overlaps            \* how many calls began inside another process's call

vars == <<path, tmp_path, content, proc, players, realtime, issued, granted, overlaps>>
files == <<path, tmp_path, content>>
gameVars == <<players, realtime>>

File == IF path = NoFile THEN <<>> ELSE content[path]

-----------------------------------------------------------------------------
(* The calls of a SessionStore: when they save, and what they change.       *)

Put(s, t, record) == [u \in DOMAIN s \cup {t} |-> IF u = t THEN record ELSE s[u]]

username_taken(s, username, except) ==
    \E t \in DOMAIN s \ except : s[t].username = username

NameIn(s, t, default) == IF t \in DOMAIN s THEN s[t].username ELSE default
StateIn(s, t) == IF t \in DOMAIN s THEN s[t].state ELSE NoState
OnlineIn(s, t) == t \in DOMAIN s /\ s[t].online

NewRecord(username) == [username |-> username, state |-> NoState, online |-> FALSE]

\* Whether the call c, on the sessions s just loaded, reaches save().
Saves(c, s) ==
    CASE c.call = "register" -> ~username_taken(s, c.username, {})
      [] c.call = "resume" -> c.token \notin DOMAIN s
      [] c.call = "rename" -> c.token \in DOMAIN s
                              /\ ~username_taken(s, c.username, {c.token})
      [] c.call = "set_all_offline" -> \E t \in DOMAIN s : s[t].online
      [] OTHER -> TRUE

register(c, s) == Put(s, c.token, NewRecord(c.username))
resume(c, s) == Put(s, c.token, NewRecord(ResumeName[c.token]))
rename(c, s) == [s EXCEPT ![c.token].username = c.username]
\* Faulty: the name the game server remembers wins over the record's.
SaveOverName(c, s) ==
    Put(s, c.token, [username |-> c.username, state |-> c.state,
                     online |-> OnlineIn(s, c.token)])
save_player_state(c, s) ==
    Put(s, c.token, [username |-> NameIn(s, c.token, c.username),
                     state |-> c.state, online |-> OnlineIn(s, c.token)])
set_online(c, s) ==
    Put(s, c.token, [username |-> NameIn(s, c.token, HexName[c.token]),
                     state |-> StateIn(s, c.token), online |-> c.online])
set_all_offline(s) == [t \in DOMAIN s |-> [s[t] EXCEPT !.online = FALSE]]

Changed(c, s) ==
    CASE c.call = "register" -> register(c, s)
      [] c.call = "resume" -> resume(c, s)
      [] c.call = "rename" -> rename(c, s)
      [] c.call = "save_player_state" -> save_player_state(c, s)
      [] c.call = "set_online" -> set_online(c, s)
      [] c.call = "set_all_offline" -> set_all_offline(s)

Call == [call : {"register", "rename"}, token : Token, username : Name]
        \cup [call : {"resume"}, token : Token]
        \cup [call : {"save_player_state"}, token : Token, username : Name,
              state : PlayerState]
        \cup [call : {"set_online"}, token : Token, online : BOOLEAN]
        \cup [call : {"set_all_offline"}]

RegisterCall(t, n) == [call |-> "register", token |-> t, username |-> n]
RenameCall(t, n) == [call |-> "rename", token |-> t, username |-> n]
ResumeCall(t) == [call |-> "resume", token |-> t]
SaveCall(t, n, state) ==
    [call |-> "save_player_state", token |-> t, username |-> n, state |-> state]
OnlineCall(t, online) == [call |-> "set_online", token |-> t, online |-> online]
OfflineCall == [call |-> "set_all_offline"]

-----------------------------------------------------------------------------
(* A process: the calls it has still to make, and how far the first one is. *)

Down(boots) ==
    [pc |-> "down", todo |-> <<>>, sessions |-> <<>>, handle |-> NoFile,
     boots |-> boots]

Busy(p) == proc[p].pc \in {"open", "write", "replace"}
Idle(p) == p \in Process /\ proc[p].pc = "idle" /\ proc[p].todo = <<>>

\* The process ends, and with it what it kept in memory.
Stop(p) ==
    /\ proc' = [proc EXCEPT ![p] = Down(@.boots)]
    /\ IF p = Game THEN players' = <<>> /\ realtime' = {}
                   ELSE UNCHANGED gameVars

Abandon(p, todo) ==
    proc' = [proc EXCEPT ![p] = [Down(@.boots) EXCEPT !.pc = "idle", !.todo = todo]]

StateOf(t) == [current |-> TRUE, progress |-> players[t].progress]
SaveOf(t) == SaveCall(t, players[t].username, StateOf(t))

\* What _drop_session does to an attached player's record.
DetachCalls(t) == <<SaveOf(t), OnlineCall(t, FALSE)>>

\* An exception ends the handler that made the call.  Login contains it, the
\* reset tool dies.  In the game server AUTH drops the session it was
\* attaching; elsewhere the handler is abandoned, or the server ends when no
\* try of serve encloses it.
Fail(p) ==
    LET c == Head(proc[p].todo)
    IN  IF c.call = "set_online" /\ c.online
        THEN /\ Abandon(p, DetachCalls(c.token))
             /\ realtime' = realtime \ {c.token} /\ UNCHANGED players
        ELSE \/ p # Reset /\ Abandon(p, <<>>) /\ UNCHANGED gameVars
             \/ p # Login /\ Stop(p)

\* Every call starts by reading the file, so that what a process has in memory
\* matters only until the call returns.  AUTH enters the token in
\* realtime_by_token just before it sets it online.
Load(p) ==
    LET c == Head(proc[p].todo)
        s == File
    IN  /\ proc[p].pc = "idle" /\ proc[p].todo # <<>>
        /\ overlaps' = overlaps + (IF \E q \in Process : Busy(q) THEN 1 ELSE 0)
        /\ overlaps' <= MaxOverlaps
        /\ IF s = Torn
           THEN Fail(p)
           ELSE /\ proc' = IF Saves(c, s)
                           THEN [proc EXCEPT ![p].pc = "open",
                                             ![p].sessions = Changed(c, s)]
                           ELSE [proc EXCEPT ![p].todo = Tail(@)]
                /\ realtime' = IF c.call = "set_online" /\ c.online
                               THEN realtime \cup {c.token} ELSE realtime
                /\ UNCHANGED players
        /\ UNCHANGED <<files, issued, granted>>

\* Faulty: the file is written in place.
OpenInPlace(p) ==
    LET i == IF path = NoFile THEN CHOOSE j \in Inode : TRUE ELSE path
    IN  /\ proc[p].pc = "open"
        /\ path' = i /\ tmp_path' = i
        /\ content' = [content EXCEPT ![i] = Torn]
        /\ proc' = [proc EXCEPT ![p].pc = "write", ![p].handle = i]
        /\ UNCHANGED <<gameVars, issued, granted, overlaps>>

\* write_text opens the one temporary file, cutting it to nothing if some
\* process has just written it.
OpenTmp(p) ==
    LET unused == Inode \ ({path} \cup {proc[q].handle : q \in Process})
        i == IF tmp_path = NoFile THEN CHOOSE j \in unused : TRUE ELSE tmp_path
    IN  /\ proc[p].pc = "open"
        /\ tmp_path' = i
        /\ content' = [content EXCEPT ![i] = Torn]
        /\ proc' = [proc EXCEPT ![p].pc = "write", ![p].handle = i]
        /\ UNCHANGED <<path, gameVars, issued, granted, overlaps>>

\* Over what another process wrote to the same inode the text may be mixed.
WriteTmp(p) ==
    LET i == proc[p].handle
        mixed == IF content[i] = Torn THEN {} ELSE {Torn}
    IN  /\ proc[p].pc = "write"
        /\ \E text \in {proc[p].sessions} \cup mixed :
              content' = [content EXCEPT ![i] = text]
        /\ proc' = [proc EXCEPT ![p].pc = "replace"]
        /\ UNCHANGED <<path, tmp_path, gameVars, issued, granted, overlaps>>

\* The call returns; register and rename tell the client the name is theirs.
\* The inode of the old file is free.
Replace(p) ==
    LET c == Head(proc[p].todo)
    IN  /\ proc[p].pc = "replace"
        /\ IF tmp_path = NoFile
           THEN Fail(p) /\ UNCHANGED <<files, issued, granted>>
           ELSE /\ path' = tmp_path /\ tmp_path' = NoFile
                /\ content' = [i \in Inode |-> IF i = path THEN Torn ELSE content[i]]
                /\ Abandon(p, Tail(proc[p].todo))
                /\ granted' = IF c.call \in {"register", "rename"}
                              THEN Put(granted, c.token, c.username) ELSE granted
                /\ issued' = IF c.call = "register" THEN issued \cup {c.token} ELSE issued
                /\ UNCHANGED gameVars
        /\ UNCHANGED overlaps

Crash(p) ==
    /\ proc[p].pc # "down"
    /\ Stop(p)
    /\ UNCHANGED <<files, issued, granted, overlaps>>

-----------------------------------------------------------------------------
(* What the processes are asked to do.                                      *)

Begin(p, calls) == Idle(p) /\ proc' = [proc EXCEPT ![p].todo = calls]

\* The constructor loads the file, so that an unreadable one stops the start.
Start(p, calls) ==
    /\ p \in Process /\ proc[p].pc = "down" /\ proc[p].boots < MaxBoots[p]
    /\ File # Torn
    /\ proc' = [proc EXCEPT ![p].pc = "idle", ![p].todo = calls, ![p].boots = @ + 1]
    /\ UNCHANGED <<files, gameVars, issued, granted, overlaps>>

StartLogin == Start(Login, <<>>)
\* Faulty: whoever was online when the server died stays so.
StartAsLeft == Start(Game, <<>>)
StartGame == Start(Game, <<OfflineCall>>)

\* reset_old_sessions.py finds the old saves and resets them one by one.
OldSaves == {t \in DOMAIN File : File[t].state # NoState /\ ~File[t].state.current}

\* Faulty: the fresh state is not stamped with the schema version.
FreshUnstamped == [current |-> FALSE, progress |-> 0]
FreshState == [current |-> TRUE, progress |-> 0]

StartReset ==
    File # Torn /\ \E order \in [1 .. Cardinality(OldSaves) -> OldSaves] :
        /\ \A t \in OldSaves : \E i \in DOMAIN order : order[i] = t
        /\ Start(Reset, [i \in DOMAIN order |->
                            SaveCall(order[i], File[order[i]].username, FreshState)])

\* Login server: one request per connection, served to its end.  A token is
\* 32 random bits and taken to be new.
LoginRequest ==
    \E t \in Token \ issued, n \in Name :
        /\ Begin(Login, <<RegisterCall(t, n)>>)
        /\ UNCHANGED <<files, gameVars, issued, granted, overlaps>>

ResumeRequest ==
    \E t \in issued :
        /\ Begin(Login, <<ResumeCall(t)>>)
        /\ UNCHANGED <<files, gameVars, issued, granted, overlaps>>

RenameRequest ==
    \E t \in issued, n \in Name :
        /\ Begin(Login, <<RenameCall(t, n)>>)
        /\ UNCHANGED <<files, gameVars, issued, granted, overlaps>>

\* Game server: the player in memory, or the one of the record, or a new one.
ensure_player(t) ==
    IF t \in DOMAIN players THEN players[t].progress
    ELSE IF StateIn(File, t) # NoState THEN StateIn(File, t).progress ELSE 0

username_for_token(t) == NameIn(File, t, HexName[t])

\* HELLO and AUTH attach the player and save the name; the client of a file
\* that cannot be read loses its connection instead.
Attach(t, calls) ==
    LET player == [username |-> username_for_token(t), progress |-> ensure_player(t)]
        state == [current |-> TRUE, progress |-> player.progress]
    IN  /\ t \in issued /\ File # Torn
        /\ Begin(Game, <<SaveCall(t, player.username, state)>> \o calls)
        /\ players' = Put(players, t, player)
        /\ UNCHANGED <<files, realtime, issued, granted, overlaps>>

Hello(t) == Attach(t, <<>>)
Auth(t) == Attach(t, <<OnlineCall(t, TRUE)>>)

\* Experience, gold, a quest step: whatever marks the player's state dirty.
Earn(t) ==
    LET state == [current |-> TRUE, progress |-> players[t].progress + 1]
    IN  /\ t \in realtime /\ players[t].progress < MaxProgress
        /\ players' = [players EXCEPT ![t].progress = @ + 1]
        /\ Begin(Game, <<SaveCall(t, players[t].username, state)>>)
        /\ UNCHANGED <<files, realtime, issued, granted, overlaps>>

Drop(t) ==
    /\ t \in realtime
    /\ realtime' = realtime \ {t}
    /\ Begin(Game, DetachCalls(t))
    /\ UNCHANGED <<files, players, issued, granted, overlaps>>

Init ==
    \E stored \in Stored :
        /\ path = IF stored = <<>> THEN NoFile ELSE 0
        /\ tmp_path = NoFile
        /\ content = [i \in Inode |-> IF i = path THEN stored ELSE Torn]
        /\ proc = [p \in Process |-> Down(0)]
        /\ players = <<>> /\ realtime = {}
        /\ issued = Held
        /\ granted = [t \in DOMAIN stored |-> stored[t].username]
        /\ overlaps = 0

LoginNext == StartLogin \/ LoginRequest \/ ResumeRequest \/ RenameRequest
GameNext ==
    \/ StartGame
    \/ \E t \in Token : Hello(t) \/ Auth(t) \/ Earn(t) \/ Drop(t)

Next ==
    \/ \E p \in Process : Load(p) \/ OpenTmp(p) \/ WriteTmp(p) \/ Replace(p) \/ Crash(p)
    \/ LoginNext
    \/ GameNext
    \/ StartReset

Spec == Init /\ [][Next]_vars

-----------------------------------------------------------------------------

\* A client that was told a name is its own keeps it, in the file, until it
\* asks for another: no save of a player, no login and no crash takes it away.
\* Two overlapping calls can.
GrantedKept ==
    File # Torn => \A t \in DOMAIN granted : NameIn(File, t, NoState) = granted[t]

\* Until two calls overlap names are kept, and no two clients were told the
\* same name is theirs.
NamesHeld ==
    overlaps = 0 =>
        /\ GrantedKept
        /\ \A t, u \in DOMAIN granted : t # u => granted[t] # granted[u]

\* Until two calls overlap, while the game server is between two events the
\* file shows online exactly the players attached to it.
OnlineHonest ==
    (overlaps = 0 /\ Idle(Game) /\ File # Torn) =>
        \A t \in Token : OnlineIn(File, t) <=> t \in realtime

\* The step is one of the reset tool.
ResetActs == Reset \in Process /\ proc[Reset] # proc'[Reset]

\* Until two calls overlap, whenever the file is read it is one that a save
\* wrote to its end, although the process that writes it may crash at any
\* point; and neither server undoes progress that reached the file, restarts
\* included.
ProgressKept ==
    [][overlaps' = 0 =>
         /\ File' # Torn
         /\ ~ResetActs =>
              \A t \in DOMAIN File :
                File[t].state # NoState =>
                    /\ StateIn(File', t) # NoState
                    /\ StateIn(File', t).progress >= File[t].state.progress]_vars

\* Once the reset tool has ended its work, and until two calls overlap, no save
\* of the previous generation is left, or comes back, so that a second run does
\* nothing.
ResetComplete ==
    (overlaps = 0 /\ Idle(Reset) /\ File # Torn) => OldSaves = {}

\* "Anyone who played in the meantime keeps what they earned": the reset tool
\* leaves a save of the current generation as it is.
ResetKeepsCurrent ==
    [][ResetActs /\ File # Torn /\ File' # Torn =>
          \A t \in DOMAIN File :
              (File[t].state # NoState /\ File[t].state.current)
                  => StateIn(File', t) = File[t].state]_vars

=============================================================================
