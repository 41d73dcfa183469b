-------------------------------- MODULE Dialogue --------------------------------
(***************************************************************************)
(* A scene told to a player page by page: how the server cuts the text and *)
(* streams it (src/server/game.py), the link, the client that puts a page  *)
(* together and answers it (rt_state.c, dlgmodal.c, main.c of the Lynx     *)
(* client).  What a scene does to the story when it closes is in Story.    *)
(*                                                                         *)
(* A letter is a number, and 0 is the space.  A page is drawn once, where  *)
(* the client draws it on both of its buffers.  Nobody is on a map that    *)
(* loads.                                                                  *)
(***************************************************************************)
EXTENDS Integers, SequencesExt

CONSTANTS
    Scenes,             \* each a sequence of paragraphs, which are sequences of words
    Width, Chunk,       \* DIALOGUE_PAGE_MAX_CHARS, REALTIME_DIALOGUE_MAX_TEXT
    Interval, Resends,  \* DIALOGUE_RESEND_INTERVAL_TICKS, DIALOGUE_MAX_RESENDS
    Losses, Early,      \* bounds: chunks and reports lost, answers nobody asked for
    Capacity,           \* bound: frames under way in one direction
    Nothing

ASSUME DialogueAssumption ==
    /\ {Width, Chunk, Interval, Capacity} \subseteq Nat \ {0} /\ {Resends, Losses, Early} \subseteq Nat
    /\ Scenes \subseteq Seq(Seq(Seq(Nat \ {0})))
    /\ \A speech \in Scenes :
          speech # <<>> /\ \A i \in DOMAIN speech : speech[i] # <<>> /\ <<>> \notin Range(speech[i])

Text == Seq(Nat)
Scene == [pages : Seq(Text), index : Nat \ {0}, chunk : Nat, resend_timer : Nat, resends_left : Nat]
Packet == [index : Nat \ {0}, chunk : Nat, text : Text, end : BOOLEAN, last : BOOLEAN]

ASSUME NothingAssumption == Nothing \notin Scene \cup Packet

VARIABLES
    speech,     \* what is said
    scene,      \* ActiveDialogue, or Nothing
    answered,   \* PlayerState.last_pickup_counter
    outcome,    \* how the scene closed
    latest,     \* ClientSession.latest
    slot,       \* the slot "dialogue" of SessionOutput
    down, up,   \* frames under way
    client,     \* rt_dialogue, dlg_modal and pickup_counter
    past        \* history: losses, early answers, pages drawn, whether one was sent again, the last answer

vars == <<speech, scene, answered, outcome, latest, slot, down, up, client, past>>

-----------------------------------------------------------------------------
(* Pages.                                                                  *)

\* A word that is too long is cut; then it goes on the page, or on the next.
AddWord(made, word) ==
    LET cuts == (Len(word) - 1) \div Width
        rest == SubSeq(word, cuts * Width + 1, Len(word))
        closed == IF cuts > 0 /\ made.current # <<>> THEN Append(made.pages, made.current) ELSE made.pages
        pages == closed \o [i \in 1..cuts |-> SubSeq(word, (i - 1) * Width + 1, i * Width)]
        current == IF cuts > 0 THEN <<>> ELSE made.current
        candidate == IF current = <<>> THEN rest ELSE current \o <<0>> \o rest
    IN  IF Len(candidate) <= Width THEN [pages |-> pages, current |-> candidate]
        ELSE [pages |-> Append(pages, current), current |-> rest]

\* A paragraph begins a page.
AddParagraph(pages, words) ==
    LET made[i \in 0..Len(words)] ==
            IF i = 0 THEN [pages |-> pages, current |-> <<>>] ELSE AddWord(made[i - 1], words[i])
    IN  Append(made[Len(words)].pages, made[Len(words)].current)

paginate_dialogue_text(paragraphs) ==
    LET pages[i \in 0..Len(paragraphs)] ==
            IF i = 0 THEN <<>> ELSE AddParagraph(pages[i - 1], paragraphs[i])
    IN  pages[Len(paragraphs)]

dialogue_page_chunks(page) ==
    [i \in 1..((Len(page) + Chunk - 1) \div Chunk) |-> SubSeq(page, (i - 1) * Chunk + 1, Min({i * Chunk, Len(page)}))]

-----------------------------------------------------------------------------
(* The server.                                                             *)

AtPage(pages, index) ==
    [pages |-> pages, index |-> index, chunk |-> 0, resend_timer |-> Interval, resends_left |-> Resends]

open_dialogue(paragraphs) == AtPage(paginate_dialogue_text(paragraphs), 1)

\* The scene and its outcome once a page is acknowledged.
advance_dialogue(accept) ==
    IF scene.index < Len(scene.pages) THEN <<AtPage(scene.pages, scene.index + 1), outcome>>
    ELSE <<Nothing, IF accept THEN "accepted" ELSE "declined">>

_apply_player_state_pickup(s) ==
    IF s.pickup # answered /\ scene # Nothing THEN advance_dialogue(~s.decline) ELSE <<scene, outcome>>

_build_dialogue_packet(d) ==
    LET chunks == dialogue_page_chunks(d.pages[d.index])
    IN  [index |-> d.index, chunk |-> d.chunk, text |-> chunks[d.chunk + 1],
         end |-> d.chunk + 1 = Len(chunks), last |-> d.chunk + 1 = Len(chunks) /\ d.index = Len(d.pages)]

\* Faulty: only the chunk that was sent last is sent again.
ResendTail(d) ==
    IF d.chunk < Len(dialogue_page_chunks(d.pages[d.index])) THEN d
    ELSE IF d.resends_left = 0 THEN d
    ELSE IF d.resend_timer > 1 THEN [d EXCEPT !.resend_timer = @ - 1]
    ELSE [d EXCEPT !.resend_timer = Interval, !.resends_left = @ - 1, !.chunk = @ - 1]

\* A page that was sent whole is sent again from its first chunk, when it is time.
Rewound(d) ==
    IF d.chunk < Len(dialogue_page_chunks(d.pages[d.index])) THEN d
    ELSE IF d.resends_left = 0 THEN d
    ELSE IF d.resend_timer > 1 THEN [d EXCEPT !.resend_timer = @ - 1]
    ELSE [d EXCEPT !.resend_timer = Interval, !.resends_left = @ - 1, !.chunk = 0]

dialogue_page_to_send(d) ==
    IF d = Nothing THEN <<d, Nothing>>
    ELSE LET r == Rewound(d)
         IN  IF r.chunk = Len(dialogue_page_chunks(r.pages[r.index])) THEN <<r, Nothing>>
             ELSE <<[r EXCEPT !.chunk = @ + 1], _build_dialogue_packet(r)>>

\* One tick: the latest report is applied, and the newest chunk takes the slot.
Tick ==
    LET after == _apply_player_state_pickup(latest)
        out == dialogue_page_to_send(after[1])
        over == out[2] # Nothing /\ slot # Nothing
    IN  /\ over => past.lost < Losses
        /\ scene' = out[1] /\ outcome' = after[2]
        /\ answered' = latest.pickup
        /\ slot' = IF out[2] = Nothing THEN slot ELSE out[2]
        /\ past' = [past EXCEPT !.lost = IF over THEN @ + 1 ELSE @,
                                !.again = @ \/ (after[1] # Nothing /\ out[1].resends_left < after[1].resends_left)]
        /\ UNCHANGED <<speech, latest, down, up, client>>

Flush ==
    /\ slot # Nothing /\ Len(down) < Capacity
    /\ down' = Append(down, slot) /\ slot' = Nothing
    /\ UNCHANGED <<speech, scene, answered, outcome, latest, up, client, past>>

ReceiveReport ==
    /\ up # <<>>
    /\ latest' = Head(up) /\ up' = Tail(up)
    /\ UNCHANGED <<speech, scene, answered, outcome, slot, down, client, past>>

\* A damaged frame is dropped.
Lose ==
    /\ past.lost < Losses
    /\ \/ down # <<>> /\ down' = Tail(down) /\ up' = up
       \/ up # <<>> /\ up' = Tail(up) /\ down' = down
    /\ past' = [past EXCEPT !.lost = @ + 1]
    /\ UNCHANGED <<speech, scene, answered, outcome, latest, slot, client>>

-----------------------------------------------------------------------------
(* The client.                                                             *)

\* Faulty: a first chunk is appended to what is there.
AppendAlways(c, w) ==
    IF w.chunk # 0 /\ w.chunk # c.next_chunk THEN c
    ELSE [c EXCEPT !.text = @ \o w.text, !.next_chunk = w.chunk + 1, !.page_index = w.index,
                   !.last = IF w.end THEN w.last ELSE @, !.dirty = @ \/ w.end,
                   !.request = @ \/ (w.end /\ ~c.active)]

apply_dialogue_page(c, w) ==
    IF w.chunk # 0 /\ w.chunk # c.next_chunk THEN c
    ELSE [c EXCEPT !.text = IF w.chunk = 0 THEN w.text ELSE @ \o w.text,
                   !.next_chunk = w.chunk + 1, !.page_index = w.index,
                   !.last = IF w.end THEN w.last ELSE @, !.dirty = @ \/ w.end,
                   !.request = @ \/ (w.end /\ ~c.active)]

ReceiveChunk ==
    /\ down # <<>>
    /\ client' = apply_dialogue_page(client, Head(down)) /\ down' = Tail(down)
    /\ UNCHANGED <<speech, scene, answered, outcome, latest, slot, up, past>>

\* The game loop gives way to the scene.
OpenModal ==
    /\ client.request /\ ~client.active
    /\ client' = [client EXCEPT !.request = FALSE, !.active = TRUE, !.shown = 0, !.waiting = FALSE]
    /\ UNCHANGED <<speech, scene, answered, outcome, latest, slot, down, up, past>>

Closed(c) == [c EXCEPT !.active = FALSE, !.dirty = FALSE, !.request = FALSE]

\* Faulty: any page that comes arms the button.
StepRearmed(c, button) ==
    LET drawn == IF c.dirty THEN [c EXCEPT !.shown = c.page_index, !.waiting = FALSE, !.dirty = FALSE] ELSE c
    IN  IF button = "B" THEN Closed([drawn EXCEPT !.pickup = @ + 1])
        ELSE IF button = "A" /\ ~drawn.waiting
             THEN IF drawn.last THEN Closed([drawn EXCEPT !.pickup = @ + 1])
                  ELSE [drawn EXCEPT !.pickup = @ + 1, !.waiting = TRUE]
        ELSE drawn

\* The page that came is drawn, unless it is there already; then the button counts.
dlg_modal_step(c, button) ==
    LET turned == c.dirty /\ c.page_index # c.shown
        drawn == [c EXCEPT !.dirty = FALSE, !.shown = IF turned THEN c.page_index ELSE @,
                           !.waiting = @ /\ ~turned]
    IN  IF button = "B" THEN Closed([drawn EXCEPT !.pickup = @ + 1])
        ELSE IF button = "A" /\ ~drawn.waiting
             THEN IF drawn.last THEN Closed([drawn EXCEPT !.pickup = @ + 1])
                  ELSE [drawn EXCEPT !.pickup = @ + 1, !.waiting = TRUE]
        ELSE drawn

Report(c, decline) == [pickup |-> c.pickup, decline |-> decline]

\* One turn of the modal's loop.  An answer is written at once; it is early if no
\* question stands.
ModalStep(button) ==
    LET after == dlg_modal_step(client, button)
        early == button = "B" /\ (client.waiting \/ ~client.last)
    IN  /\ client.active
        /\ IF button = "none" THEN client.dirty ELSE client.shown # 0 /\ ~client.dirty
        /\ button = "A" => ~client.waiting
        /\ early => past.early < Early
        /\ after.pickup # client.pickup => Len(up) < Capacity
        /\ client' = after
        /\ up' = IF after.pickup = client.pickup THEN up ELSE Append(up, Report(after, button = "B"))
        /\ past' = [past EXCEPT
                      !.early = IF early THEN @ + 1 ELSE @,
                      !.drawn = IF client.dirty /\ client.page_index # client.shown
                                THEN Append(@, client.text) ELSE @,
                      !.said = IF client.last /\ button # "none" THEN button ELSE @]
        /\ UNCHANGED <<speech, scene, answered, outcome, latest, slot, down>>

\* He does not see a scene, and speaks to whoever is there once more.
Interact ==
    /\ ~client.active /\ outcome = "none" /\ past.early < Early /\ Len(up) < Capacity
    /\ client' = [client EXCEPT !.pickup = @ + 1]
    /\ up' = Append(up, Report(client', FALSE))
    /\ past' = [past EXCEPT !.early = @ + 1]
    /\ UNCHANGED <<speech, scene, answered, outcome, latest, slot, down>>

\* What the client writes when nothing happens, in a scene or not: seldom enough
\* that the one before has been read.  None matters after the scene.
Heartbeat ==
    /\ up = <<>> /\ outcome = "none"
    /\ up' = Append(up, Report(client, FALSE))
    /\ UNCHANGED <<speech, scene, answered, outcome, latest, slot, down, client, past>>

-----------------------------------------------------------------------------

Init ==
    /\ speech \in Scenes
    /\ scene = open_dialogue(speech) /\ answered = 0 /\ outcome = "none"
    /\ latest = [pickup |-> 0, decline |-> FALSE]
    /\ slot = Nothing /\ down = <<>> /\ up = <<>>
    /\ client = [text |-> <<>>, next_chunk |-> 0, page_index |-> 0, last |-> FALSE, dirty |-> FALSE,
                 request |-> FALSE, active |-> FALSE, shown |-> 0, waiting |-> FALSE, pickup |-> 0]
    /\ past = [lost |-> 0, early |-> 0, drawn |-> <<>>, again |-> FALSE, said |-> "none"]

Next ==
    \/ Tick \/ Flush \/ ReceiveReport \/ Lose \/ ReceiveChunk \/ OpenModal
    \/ ModalStep("none") \/ ModalStep("A") \/ ModalStep("B")
    \/ Interact \/ Heartbeat

Spec == Init /\ [][Next]_vars

\* The server ticks and flushes, the link delivers, the client's loop turns, and a
\* player who is asked answers in the end.
FairSpec ==
    /\ Spec
    /\ WF_vars(Tick) /\ WF_vars(Flush) /\ WF_vars(ReceiveReport) /\ WF_vars(ReceiveChunk)
    /\ WF_vars(OpenModal) /\ WF_vars(ModalStep("none")) /\ WF_vars(ModalStep("A"))
    /\ WF_vars(Heartbeat)

-----------------------------------------------------------------------------
(* Properties.                                                             *)

\* A text without its spaces.
Letters(text) ==
    LET kept[i \in 0..Len(text)] ==
            IF i = 0 THEN <<>> ELSE IF text[i] = 0 THEN kept[i - 1] ELSE Append(kept[i - 1], text[i])
    IN  kept[Len(text)]

Turned == IF scene = Nothing THEN Len(open_dialogue(speech).pages) ELSE scene.index - 1

\* Who accepts a scene has read what was said, to the letter and on pages that fit,
\* if nothing was lost or sent again and he waited for every page.
AsSaid ==
    outcome = "accepted" /\ past.lost = 0 /\ past.early = 0 /\ ~past.again =>
        /\ Letters(FlattenSeq(past.drawn)) = FlattenSeq(FlattenSeq(speech))
        /\ \A i \in DOMAIN past.drawn : Len(past.drawn[i]) <= Width

\* The server never goes past a page that a player who waits for his pages has not
\* seen, whatever is lost, late or sent again.
ReadFirst == past.early = 0 => Turned <= Len(past.drawn)

\* The scene ends: a page that was lost comes again, and so does an answer.
Concluded == <>(outcome # "none")

\* Who declines has not accepted.  It does not hold: the answer is in one report,
\* and any later one with its counter says yes.
DeclineStands == outcome = "accepted" => past.said # "B"

\* A page is drawn as the server has it.  It does not hold: the chunk after a lost
\* one may be the next of the page before.
NeverTorn == Range(past.drawn) \subseteq Range(open_dialogue(speech).pages)
=============================================================================
