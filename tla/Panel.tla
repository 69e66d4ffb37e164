-------------------------------- MODULE Panel --------------------------------
(***************************************************************************)
(* The board's BOOT button, LED and buzzer: button_poll() and the restarts *)
(* it asks for (main.c), the requests other tasks make of the buzzer, and  *)
(* indicator_task(), which serves them (indicator.c, tone_player.c).       *)
(*                                                                         *)
(* indicator_task has the lowest priority, so any task may run between two *)
(* of its reads of what they share.  A pass of its loop is split there:    *)
(*   "look"     the override                                               *)
(*   "decide"   the alarms; drops requests, starts a test or an alarm      *)
(*   "chirp"    takes a request for a tone of the library                  *)
(*   "preview"  takes a request for a tone sent by a browser ...           *)
(*   "copy"     ... and copies it                                          *)
(*   "sound"    steps what sounds; the buzzer is busy or it is not         *)
(* A tone's length is a number of passes.  An alarm is the set of inputs   *)
(* it is for, {} for a health alarm; the same sets stand for the Morse     *)
(* texts.  Of the LED only the override of the last "look" is kept.        *)
(***************************************************************************)
EXTENDS ButtonLogic, Integers

CONSTANTS
    Inputs,        \* the digital inputs
    Settings,      \* what a save may install
    Texts,         \* the tones a browser may send
    Passes,        \* the longest tone or test, in passes of the loop
    Delays         \* the time from one poll of the button to the next

\* device_config_t, as far as the indicator reads it; `tones` is the size of
\* the library, whose tones are numbered from 0.
Setting == [events : BOOLEAN, buzzer : BOOLEAN, buzzing : SUBSET Inputs, tones : Nat]

ASSUME PanelAssumption ==
    /\ Settings \subseteq Setting
    /\ Passes \in Nat \ {0, 1}
    /\ Delays \subseteq Nat \ {0}
    /\ "none" \notin Texts

NoTone == -1

Alarm  == [on : BOOLEAN, inputs : SUBSET Inputs]
Calm   == [on |-> FALSE, inputs |-> {}]

\* How far the time of a press is followed.
Longest == ResetTime + DebounceTicks - 1

Player == [what : {"none", "chirp", "preview"}, left : 0 .. Passes]
Silent == [what |-> "none", left |-> 0]

VARIABLES
    button,       \* s_button
    restarting,   \* s_restart_pending, and what for
    override,     \* s.override
    settings,     \* what the last indicator_update_config() stored
    started,      \* s.started
    tripped,      \* s.input_mask
    unwell,       \* is the worst espOS health an alarm?
    chirp,        \* s.chirp_request
    test,         \* s.test_requested
    flagged,      \* s.preview_requested
    preview,      \* s.preview
    sending,      \* the tone the web server has stored and not flagged yet
    pc,           \* where indicator_task is
    seen,         \* the override it looked at in this pass
    alarm,        \* alarm_was, alarm_inputs_was
    segs,         \* the text it has encoded
    testing,      \* passes left of a test, 0 = none
    player,       \* player
    sounding,     \* what had the buzzer in the last pass; s.busy
    stretch,      \* time since the first reading of the button's press
    released,     \* how many times in a row it was read as released
    letGo,        \* it has been let go since start-up
    owed          \* the tone accepted last, neither played nor dropped yet

buttonVars == <<button, restarting, override, stretch, released, letGo>>
webVars    == <<test, flagged, preview, sending, owed>>
worldVars  == <<settings, started, tripped, unwell>>
passVars   == <<pc, seen, alarm, segs, testing, player, sounding>>
vars == <<buttonVars, chirp, webVars, worldVars, passVars>>

Busy == sounding # "none"

\* An input alarm, or a health alarm if the buzzer is on for those.
AlarmNow ==
    LET inputs == tripped \cap settings.buzzing IN
    [on |-> inputs # {} \/ (unwell /\ settings.buzzer), inputs |-> inputs]

---------------------------------------------------------------------------
\* Requests of other tasks.

\* A tone that is assigned to an event, if any: tone_library_find().
Assigned == {NoTone} \cup 0 .. settings.tones - 1

\* request_chirp(): the latest request replaces one that waits.
RequestChirp(tone) ==
    IF started /\ settings.events /\ tone # NoTone
    THEN chirp' = tone
    ELSE UNCHANGED chirp

\* indicator_play_...(), for a relay, an input or the start-up.
PlayTone ==
    /\ \E tone \in Assigned : RequestChirp(tone)
    /\ UNCHANGED <<buttonVars, webVars, worldVars, passVars>>

\* indicator_test_buzzer(), on the web server's only task.
TestBuzzer ==
    /\ started /\ ~Busy /\ ~test
    /\ sending = "none"
    /\ test' = TRUE
    /\ UNCHANGED <<buttonVars, chirp, flagged, preview, sending, owed, worldVars, passVars>>

\* indicator_play_rtttl(): the tone is stored, ...
StorePreview(text) ==
    /\ started /\ ~Busy /\ ~flagged
    /\ sending = "none"
    /\ preview' = text
    /\ sending' = text
    /\ UNCHANGED <<buttonVars, chirp, test, flagged, owed, worldVars, passVars>>

\* ... then flagged.
FlagPreview ==
    /\ sending # "none"
    /\ flagged' = TRUE
    /\ owed' = sending
    /\ sending' = "none"
    /\ UNCHANGED <<buttonVars, chirp, test, preview, worldVars, passVars>>

\* indicator_update_config() and the input listener run on io_task.
UpdateConfig(s) ==
    /\ restarting = "no"
    /\ settings' = s
    /\ UNCHANGED <<buttonVars, chirp, webVars, started, tripped, unwell, passVars>>

SetInputs(S) ==
    /\ restarting = "no"
    /\ tripped' = S
    /\ UNCHANGED <<buttonVars, chirp, webVars, settings, started, unwell, passVars>>

HealthChanges ==
    /\ unwell' = ~unwell
    /\ UNCHANGED <<buttonVars, chirp, webVars, settings, started, tripped, passVars>>

---------------------------------------------------------------------------
\* io_task: button_poll(), do_reopen_portal() and do_factory_reset(), and
\* restart_after_chirp().  A pending restart ends the polling.

PollButton(pressed, delay) ==
    LET after == Polled(button, pressed, delay)
        ask   == Action(button, after)
    IN
    /\ restarting = "no"
    /\ button' = after
    /\ override' = Feedback(after)
    /\ IF ask = "none"
       THEN UNCHANGED <<restarting, chirp>>
       ELSE restarting' = ask /\ \E tone \in Assigned : RequestChirp(tone)
    /\ released' = CASE pressed -> 0
                     [] ~pressed /\ released < DebounceTicks -> released + 1
                     [] OTHER -> released
    /\ stretch' = CASE released = DebounceTicks -> 0
                    [] released < DebounceTicks /\ stretch + delay <= Longest -> stretch + delay
                    [] OTHER -> Longest
    /\ letGo' = (letGo \/ released' = DebounceTicks)
    /\ UNCHANGED <<webVars, worldVars, passVars>>

\* restart_cb(), or at once if there is no timer; the button may be held.
Restart(pressed) ==
    /\ restarting # "no"
    /\ button' = AtBoot(pressed)
    /\ released' = IF pressed THEN 0 ELSE DebounceTicks
    /\ letGo' = ~pressed
    /\ stretch' = 0
    /\ restarting' = "no" /\ override' = "none"
    /\ chirp' = NoTone
    /\ test' = FALSE /\ flagged' = FALSE
    /\ preview' = "none" /\ sending' = "none" /\ owed' = "none"
    /\ started' = FALSE /\ tripped' = {} /\ unwell' = FALSE /\ settings' = settings
    /\ pc' = "off" /\ seen' = "none" /\ alarm' = Calm /\ segs' = {}
    /\ testing' = 0 /\ player' = Silent /\ sounding' = "none"

---------------------------------------------------------------------------
\* indicator_task.

\* indicator_start()
StartIndicator ==
    /\ pc = "off"
    /\ pc' = "look"
    /\ started' = TRUE
    /\ UNCHANGED <<buttonVars, chirp, webVars, settings, tripped, unwell,
                   seen, alarm, segs, testing, player, sounding>>

Look ==
    /\ pc = "look"
    /\ pc' = "decide"
    /\ seen' = override
    /\ UNCHANGED <<buttonVars, chirp, webVars, worldVars,
                   alarm, segs, testing, player, sounding>>

\* tone_priority_allowed(): chirps give way to the override and to alarms.
Suppressed(a) == seen # "none" \/ a.on

\* Tones are skipped then, not queued (indicator.h:22-25).
DropRequests(a) ==
    IF Suppressed(a)
    THEN /\ player' = Silent
         /\ chirp' = NoTone
         /\ flagged' = FALSE
         /\ owed' = IF flagged THEN "none" ELSE owed
    ELSE UNCHANGED <<player, chirp, flagged, owed>>

\* Mutant: the text stays that of the inputs the alarm began with.
EncodesOnce(a) == a.on /\ ~alarm.on

\* The text is encoded when an alarm begins or is for other inputs.
Encodes(a) == a.on /\ (~alarm.on \/ a.inputs # alarm.inputs)

Decide ==
    LET a      == AlarmNow
        begins == ~a.on /\ testing = 0 /\ player'.what = "none" /\ test
    IN
    /\ pc = "decide"
    /\ pc' = "chirp"
    /\ DropRequests(a)
    /\ alarm' = a
    /\ test' = (test /\ ~begins)
    /\ IF begins THEN testing' \in 2 .. Passes
                 ELSE testing' = IF a.on THEN 0 ELSE testing
    /\ segs' = CASE begins -> {}
                 [] Encodes(a) -> a.inputs
                 [] OTHER -> segs
    /\ UNCHANGED <<buttonVars, preview, sending, worldVars, seen, sounding>>

Free == ~Suppressed(alarm) /\ testing = 0 /\ player.what = "none"

\* A tone that has left the library since it was requested is not played.
Chirp ==
    /\ pc = "chirp"
    /\ pc' = "preview"
    /\ chirp' = IF Free THEN NoTone ELSE chirp
    /\ IF Free /\ chirp # NoTone /\ chirp < settings.tones
       THEN \E n \in 2 .. Passes : player' = [what |-> "chirp", left |-> n]
       ELSE UNCHANGED player
    /\ UNCHANGED <<buttonVars, webVars, worldVars, seen, alarm, segs, testing, sounding>>

\* Mutant: takes the request before it knows that it can be played.
TakesAnyPreview == flagged

TakesPreview == Free /\ flagged

TakePreview ==
    /\ pc = "preview"
    /\ pc' = IF TakesPreview /\ Free THEN "copy" ELSE "sound"
    /\ flagged' = (flagged /\ ~TakesPreview)
    /\ UNCHANGED <<buttonVars, chirp, test, preview, sending, owed, worldVars,
                   seen, alarm, segs, testing, player, sounding>>

CopyPreview ==
    /\ pc = "copy"
    /\ pc' = "sound"
    /\ \E n \in 2 .. Passes : player' = [what |-> "preview", left |-> n]
    /\ owed' = IF preview = owed THEN "none" ELSE owed
    /\ UNCHANGED <<buttonVars, chirp, test, flagged, preview, sending, worldVars,
                   seen, alarm, segs, testing, sounding>>

\* The last pass of a test or a tone finds it over; both sound one pass only.
Sounding ==
    CASE alarm.on -> "alarm"
      [] ~alarm.on /\ testing > 1 -> "test"
      [] ~alarm.on /\ testing = 0 /\ player.left > 1 -> "tone"
      [] OTHER -> "none"

Sound ==
    /\ pc = "sound"
    /\ pc' = "look"
    /\ seen' = "none"
    /\ sounding' = Sounding
    /\ testing' = IF testing > 0 THEN testing - 1 ELSE 0
    /\ player' = CASE alarm.on \/ testing > 0 -> player
                   [] ~alarm.on /\ testing = 0 /\ player.left > 1 ->
                          [player EXCEPT !.left = player.left - 1]
                   [] OTHER -> Silent
    /\ UNCHANGED <<buttonVars, chirp, webVars, worldVars, alarm, segs>>

Pass == Look \/ Decide \/ Chirp \/ TakePreview \/ CopyPreview \/ Sound

---------------------------------------------------------------------------
\* start_io() may find the button held.
Init ==
    /\ \E pressed \in BOOLEAN :
          /\ button = AtBoot(pressed)
          /\ released = IF pressed THEN 0 ELSE DebounceTicks
          /\ letGo = ~pressed
    /\ stretch = 0
    /\ restarting = "no" /\ override = "none"
    /\ chirp = NoTone
    /\ test = FALSE /\ flagged = FALSE
    /\ preview = "none" /\ sending = "none" /\ owed = "none"
    /\ settings \in Settings
    /\ started = FALSE /\ tripped = {} /\ unwell = FALSE
    /\ pc = "off" /\ seen = "none" /\ alarm = Calm /\ segs = {}
    /\ testing = 0 /\ player = Silent /\ sounding = "none"

Next ==
    \/ PlayTone
    \/ TestBuzzer
    \/ \E text \in Texts : StorePreview(text)
    \/ FlagPreview
    \/ \E s \in Settings : UpdateConfig(s)
    \/ \E S \in SUBSET Inputs : SetInputs(S)
    \/ HealthChanges
    \/ \E pressed \in BOOLEAN, delay \in Delays : PollButton(pressed, delay)
    \/ \E pressed \in BOOLEAN : Restart(pressed)
    \/ StartIndicator
    \/ Pass

Spec == Init /\ [][Next]_vars

\* indicator_task and the web server's task are scheduled.
FairSpec == Spec /\ WF_vars(StartIndicator) /\ WF_vars(Pass) /\ WF_vars(FlagPreview)

---------------------------------------------------------------------------
\* Every variable has its type.
TypeOK ==
    /\ button \in Button
    /\ restarting \in {"no", "portal", "reset"}
    /\ override \in Asks /\ seen \in Asks
    /\ settings \in Settings
    /\ started \in BOOLEAN /\ unwell \in BOOLEAN
    /\ tripped \subseteq Inputs
    /\ chirp \in Int
    /\ test \in BOOLEAN /\ flagged \in BOOLEAN
    /\ preview \in {"none"} \cup Texts
    /\ sending \in {"none"} \cup Texts
    /\ owed \in {"none"} \cup Texts
    /\ pc \in {"off", "look", "decide", "chirp", "preview", "copy", "sound"}
    /\ alarm \in Alarm
    /\ segs \subseteq Inputs
    /\ testing \in 0 .. Passes
    /\ player \in Player
    /\ sounding \in {"none", "tone", "test", "alarm"}
    /\ stretch \in 0 .. Longest
    /\ released \in 0 .. DebounceTicks
    /\ letGo \in BOOLEAN

\* Nothing but a full hold acts, however the contact bounces and however late
\* the polls come: the button had been let go since start-up, was held for the
\* action's time after it had settled, without being let go in between, and
\* now it is let go.
ActsOnFullHold ==
    [][restarting' \notin {"no", restarting} =>
          /\ letGo
          /\ released' = DebounceTicks
          /\ stretch' >= DebounceTicks - 1
                            + IF restarting' = "reset" THEN ResetTime ELSE PortalTime]_vars

\* What the buzzer sounds during an alarm is what the alarm is for, and nothing
\* else, although tests use the same buffer, inputs trip and clear and requests
\* come in between any two steps of a pass.
AlarmSaysWhy == alarm.on => segs = alarm.inputs /\ testing = 0 /\ player.what = "none"

\* An alarm that lasts is heard in the end, with the inputs it is for, although
\* tests use the same buffer and inputs trip and clear meanwhile.
AlarmHeard ==
    \A S \in SUBSET Inputs :
        <>[](AlarmNow.on /\ AlarmNow.inputs = S)
            => <>[](sounding = "alarm" /\ segs = S)

\* An accepted test starts unless alarms keep coming; an accepted tone is
\* played, dropped for an alarm or the button, or replaced by another one,
\* unless chirps or tests keep coming.
AcceptedHeard ==
    /\ []<>~test \/ []<>AlarmNow.on
    /\ \/ \A text \in Texts : []<>(owed # text)
       \/ []<><<PlayTone \/ TestBuzzer>>_vars
=============================================================================
