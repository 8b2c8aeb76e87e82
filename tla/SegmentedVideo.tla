--------------------------- MODULE SegmentedVideo ---------------------------
(***************************************************************************)
(* The two-deck video transport of the editor timeline                     *)
(* (segmented-video-controller.ts): commands to show a segment, to pause,  *)
(* to stop and to preload, the asynchronous operation each segment command *)
(* starts, and the media elements whose answers arrive late.               *)
(*                                                                         *)
(* Media elements are external: play() unpauses at once, unless the browser *)
(* forbids it, and its promise settles later; pause() and load() reject the *)
(* promises that are open, but not one whose settlement is queued already.  *)
(* An operation is a record; it waits (for metadata, a seek or data), has   *)
(* called play(), or its promise is "played" or "refused".  What follows    *)
(* the end of a wait runs before any other task, so it is the same step.    *)
(* No caller pauses in the task that shows a segment, where an operation    *)
(* that finds its metadata has not begun to wait.                           *)
(***************************************************************************)
EXTENDS Naturals, FiniteSets

CONSTANTS
  Segments,    \* the scenes of the timeline
  SourceOf,    \* the video each is cut from
  MaxTransports \* bound: segment and stop commands

Decks == {1, 2}
NoSegment == "none"

ASSUME VideoAssumption == NoSegment \notin Segments /\ MaxTransports \in Nat

VARIABLES
  transport, \* commandId, and whether its AbortController exists (live)
  current,   \* currentCommand: its segment and whether it plays
  shown,     \* activeCommand: the segment of the command that owns the deck
  activeDeck, pendingDeck, \* activeDeckIndex, pendingDeckIndex (0 when null)
  deck,      \* the media elements: source, readiness, paused, clock, commandId
  operation, \* the asynchronous operations that have not returned
  armed, ended, \* playbackArmedCommandId, endedCommandId (0 when none)
  paused     \* history: pause() was the last command
videoVars == <<transport, current, shown, activeDeck, pendingDeck, deck, operation, armed, ended, paused>>

VideoInit ==
  /\ transport = [id |-> 0, live |-> FALSE]
  /\ current = [segment |-> NoSegment, play |-> FALSE]
  /\ shown = NoSegment
  /\ activeDeck = 1 /\ pendingDeck = 0
  /\ deck = [d \in Decks |-> [src |-> "none", ready |-> FALSE, playing |-> FALSE,
                              at |-> NoSegment, end |-> FALSE, owner |-> 0]]
  /\ operation = {}
  /\ armed = 0 /\ ended = 0
  /\ paused = FALSE

-----------------------------------------------------------------------------
Waits(o) == o.phase \in {"metadata", "seek", "data", "again", "adrift"}

\* deck.pause() on some decks: promises still open are rejected.
Rejected(decks, operations) ==
  {IF o.phase = "play" /\ o.deck \in decks THEN [o EXCEPT !.phase = "refused"]
   ELSE IF o.phase = "replay" /\ o.deck \in decks THEN [o EXCEPT !.phase = "lost"]
   ELSE o : o \in operations}
Halted(decks, all) == [d \in Decks |-> IF d \in decks THEN [all[d] EXCEPT !.playing = FALSE] ELSE all[d]]

\* invalidateCommand: operations that wait on the signal return; the wait of one
\* that resumed after pause() is without a signal, and returns later (GiveUp).
Surviving == {o \in operation : ~Waits(o) \/ o.phase = "adrift"}

\* isCurrent.  The AbortController of an invalidated command is gone (null), and
\* a missing one counts as not aborted.
IsCurrent(o) == o.id = transport.id

\* deckIndexForSource
DeckFor(s) == IF deck[activeDeck].src = SourceOf[s] THEN activeDeck ELSE 3 - activeDeck

\* prepareSource: a deck that has the source keeps it, unless it has failed: an
\* expired address or a cut connection, which may happen at any time.
Prepared(all, d, src, failed) ==
  IF all[d].src = src /\ ~failed THEN all
  ELSE [all EXCEPT ![d] = [@ EXCEPT !.src = src, !.ready = FALSE, !.playing = FALSE,
                                    !.at = NoSegment, !.end = FALSE]]

\* Whether a new segment leaves what is on the decks playing until it is ready.
Replaces(s) == DeckFor(s) # activeDeck
Halts_Never(s, play) == Replaces(s) /\ ~play
Halts(s, play) ==
  \/ Replaces(s)
  \/ /\ shown # s
     /\ ~(shown # NoSegment /\ SourceOf[shown] = SourceOf[s] /\ deck[activeDeck].playing /\ play)

\* play() on the deck of an operation, "replay" when it is the second attempt.
Plays(o, phase, allowed) ==
  [o EXCEPT !.phase = IF allowed THEN phase ELSE IF phase = "play" THEN "refused" ELSE "lost"]
Unpaused(all, d, allowed) == [all EXCEPT ![d].playing = @ \/ allowed]

\* A playing deck whose clock is in the segment goes on, unless the command
\* names a position elsewhere (positioned).
Continues(s, play, positioned) ==
  /\ DeckFor(s) = activeDeck /\ deck[activeDeck].playing /\ play /\ ~positioned
  /\ deck[activeDeck].at = s /\ ~deck[activeDeck].end

\* setSegment to its first await, which for a deck that goes on is play(); another
\* deck is prepared.
SetSegment(s, play, positioned, allowed, failed) ==
  /\ transport.id < MaxTransports
  /\ LET id == transport.id + 1
         d == DeckFor(s)
         goesOn == Continues(s, play, positioned)
         preserves == ~positioned /\ shown = s /\ d = activeDeck /\ deck[d].at = s /\ ~deck[d].end
         halted == IF Halts(s, play) THEN Decks ELSE {}
         kept == Prepared(Halted(halted, deck), d, SourceOf[s], failed)
         reassigned == IF deck[d].src = SourceOf[s] /\ ~failed THEN halted
                       ELSE halted \cup {d}
         o == [id |-> id, segment |-> s, play |-> play, deck |-> d, previous |-> activeDeck,
               seeks |-> ~preserves \/ failed, phase |-> "metadata"]
     IN /\ failed => ~goesOn /\ deck[d].src = SourceOf[s]
        /\ allowed \/ goesOn
        /\ transport' = [id |-> id, live |-> TRUE]
        /\ current' = [segment |-> s, play |-> play]
        /\ pendingDeck' = IF goesOn THEN 0 ELSE d
        /\ shown' = IF goesOn THEN s ELSE shown
        /\ deck' = [kept EXCEPT ![d].owner = id]
        /\ operation' = Rejected(reassigned, Surviving)
                          \cup {IF goesOn THEN Plays(o, "play", allowed) ELSE o}
  /\ armed' = 0 /\ ended' = 0 /\ paused' = FALSE
  /\ UNCHANGED activeDeck

PauseVideo ==
  /\ transport' = [transport EXCEPT !.live = FALSE]
  /\ operation' = Rejected(Decks, Surviving)
  /\ deck' = Halted(Decks, deck)
  /\ pendingDeck' = 0 /\ armed' = 0 /\ paused' = TRUE
  /\ UNCHANGED <<current, shown, activeDeck, ended>>

StopVideo ==
  /\ transport.id < MaxTransports
  /\ transport' = [id |-> transport.id + 1, live |-> FALSE]
  /\ operation' = Rejected(Decks, Surviving)
  /\ deck' = Halted(Decks, deck)
  /\ current' = [segment |-> NoSegment, play |-> FALSE] /\ shown' = NoSegment
  /\ pendingDeck' = 0 /\ armed' = 0 /\ paused' = FALSE
  /\ UNCHANGED <<activeDeck, ended>>

PreloadSegment(s, failed) ==
  LET d == DeckFor(s)
  IN /\ d # activeDeck /\ d # pendingDeck
     /\ failed => deck[d].src = SourceOf[s]
     /\ deck' = [Prepared(deck, d, SourceOf[s], failed) EXCEPT ![d].at = s, ![d].end = FALSE]
     /\ operation' =
          Rejected(IF deck[d].src = SourceOf[s] /\ ~failed THEN {} ELSE {d}, operation)
     /\ UNCHANGED <<transport, current, shown, activeDeck, pendingDeck, armed, ended, paused>>

-----------------------------------------------------------------------------
\* The continuations of an operation.
Becomes(o, phase) == operation' = (operation \ {o}) \cup {[o EXCEPT !.phase = phase]}
Returns(o) == operation' = operation \ {o}

\* Metadata has arrived: the clock is set; for a still picture the data is awaited too.
Prepare(o) ==
  /\ \/ /\ o.phase = "metadata" /\ Becomes(o, "seek")
        /\ deck' = [deck EXCEPT ![o.deck].ready = TRUE,
                      ![o.deck].at = IF o.seeks THEN o.segment ELSE @,
                      ![o.deck].end = IF o.seeks THEN FALSE ELSE @]
     \/ o.phase = "seek" /\ ~o.play /\ Becomes(o, "data") /\ UNCHANGED deck
  /\ UNCHANGED <<transport, current, shown, activeDeck, pendingDeck, armed, ended, paused>>

\* A wait ends with an error, after READY_TIMEOUT_MS, or stale (an operation that
\* resumed after pause() waits without a signal).
GiveUp(o) ==
  /\ Waits(o) /\ Returns(o)
  /\ UNCHANGED <<transport, current, shown, activeDeck, pendingDeck, deck, armed, ended, paused>>

\* The deck takes over: it stays still, or plays while the deck before it halts.
TakeOver(o, allowed) ==
  /\ o.phase = IF o.play THEN "seek" ELSE "data"
  /\ activeDeck' = o.deck /\ pendingDeck' = 0 /\ shown' = current.segment
  /\ LET halted == IF o.play THEN {o.previous} \ {o.deck} ELSE Decks
     IN /\ deck' = Unpaused(Halted(halted, deck), o.deck, o.play /\ allowed)
        /\ operation' = Rejected(halted, operation \ {o})
                          \cup (IF o.play THEN {Plays(o, "play", allowed)} ELSE {})
  /\ UNCHANGED <<transport, current, armed, ended, paused>>

\* The media element plays, or fails to: a pending promise is settled.
PromiseSettles(o) ==
  /\ \/ o.phase \in {"play", "replay"} /\ Becomes(o, "played")
     \/ o.phase = "play" /\ Becomes(o, "refused")
     \/ o.phase = "replay" /\ Becomes(o, "lost")
  /\ UNCHANGED <<transport, current, shown, activeDeck, pendingDeck, deck, armed, ended, paused>>

\* A stale operation pauses the deck only while the deck is its own.
Owned_Any(o) == deck[o.deck].owner # 0
Owned(o) == deck[o.deck].owner = o.id
ContinuePlayed(o) ==
  /\ o.phase = "played"
  /\ \/ /\ ~IsCurrent(o)
        /\ deck' = IF Owned(o) THEN Halted({o.deck}, deck) ELSE deck
        /\ operation' = Rejected(IF Owned(o) THEN {o.deck} ELSE {}, operation \ {o})
        /\ UNCHANGED armed
     \/ /\ IsCurrent(o)
        /\ Returns(o)
        /\ armed' = IF current.segment = NoSegment THEN armed ELSE o.id
        /\ UNCHANGED deck
  /\ UNCHANGED <<transport, current, shown, activeDeck, pendingDeck, ended, paused>>

\* catch (firstError): data is awaited, then play() is called once more.
ContinueRefused(o) ==
  /\ o.phase = "refused"
  /\ IF IsCurrent(o) THEN Becomes(o, IF transport.live THEN "again" ELSE "adrift") ELSE Returns(o)
  /\ UNCHANGED <<transport, current, shown, activeDeck, pendingDeck, deck, armed, ended, paused>>
PlayAgain(o, allowed) ==
  /\ o.phase \in {"again", "adrift"}
  /\ IF IsCurrent(o)
     THEN /\ operation' = (operation \ {o}) \cup {Plays(o, "replay", allowed)}
          /\ deck' = Unpaused(deck, o.deck, allowed)
     ELSE Returns(o) /\ UNCHANGED deck
  /\ UNCHANGED <<transport, current, shown, activeDeck, pendingDeck, armed, ended, paused>>
ContinueLost(o) ==
  /\ o.phase = "lost" /\ Returns(o)
  /\ UNCHANGED <<transport, current, shown, activeDeck, pendingDeck, deck, armed, ended, paused>>

-----------------------------------------------------------------------------
\* finishIfCurrent: the armed command's deck is at the end of its segment.
Finishes(d) ==
  /\ current.segment # NoSegment /\ d = activeDeck /\ pendingDeck = 0
  /\ armed = transport.id /\ ended # transport.id
  /\ deck[d].src = SourceOf[current.segment]
  /\ deck[d].at = current.segment /\ deck[d].end

\* The clock of a playing deck passes the end of the segment it is in, into the
\* next segment of the same source or the end of the medium.
ReachEnd(d) ==
  /\ deck[d].playing /\ deck[d].ready
  /\ \/ ~deck[d].end /\ deck' = [deck EXCEPT ![d].end = TRUE]
     \/ \E t \in Segments : /\ deck[d].end /\ SourceOf[t] = deck[d].src
                            /\ deck' = [deck EXCEPT ![d].end = FALSE, ![d].at = t]
  /\ UNCHANGED <<transport, current, shown, activeDeck, pendingDeck, operation, armed, ended, paused>>
\* The progress monitor, or the native event, reports it; the deck halts unless
\* the next segment follows seamlessly.
FinishSegment(d, seamless) ==
  /\ Finishes(d)
  /\ ended' = transport.id
  /\ IF seamless THEN UNCHANGED <<deck, operation>>
     ELSE /\ deck' = Halted({d}, deck)
          /\ operation' = Rejected({d}, operation)
  /\ UNCHANGED <<transport, current, shown, activeDeck, pendingDeck, armed, paused>>

VideoNext ==
  \/ \E s \in Segments, failed \in BOOLEAN :
       \/ PreloadSegment(s, failed)
       \/ \E play, positioned, allowed \in BOOLEAN :
            SetSegment(s, play, positioned, allowed, failed)
  \/ PauseVideo \/ StopVideo
  \/ \E o \in operation : \/ Prepare(o) \/ GiveUp(o) \/ PromiseSettles(o)
                          \/ ContinuePlayed(o) \/ ContinueRefused(o) \/ ContinueLost(o)
                          \/ \E allowed \in BOOLEAN : TakeOver(o, allowed) \/ PlayAgain(o, allowed)
  \/ \E d \in Decks : \/ ReachEnd(d)
                      \/ \E seamless \in BOOLEAN : FinishSegment(d, seamless)
VideoSpec == VideoInit /\ [][VideoNext]_videoVars

-----------------------------------------------------------------------------
\* Whatever order commands, seeks and promises arrive in, one deck plays at most,
\* it has the source of the latest command, and nothing an interrupted command
\* left behind plays ("keeps only the last command active",
\* segmented-video-controller.test.ts:387).
OnlyTheLastCommandPlays ==
  /\ \A d \in Decks : deck[d].playing =>
       /\ current.segment # NoSegment /\ deck[d].src = SourceOf[current.segment]
       /\ d \in {activeDeck, pendingDeck}
  /\ ~(deck[1].playing /\ deck[2].playing)

\* A deck that the latest command plays is not halted by an operation of an earlier
\* one: only a command, the end of the segment or the media element halts it.
PlayingGoesOn ==
  [][armed = transport.id /\ armed' = armed /\ ended' = ended /\ deck[activeDeck].playing
       => deck'[activeDeck].playing]_videoVars

\* "Every transport command invalidates the previous command. A late browser event
\* or play() promise from an interrupted clip therefore cannot revive that clip"
\* (segmented-video-controller.ts:66).  After pause() nothing plays.
PausedStaysPaused == paused => \A d \in Decks : ~deck[d].playing
=============================================================================
