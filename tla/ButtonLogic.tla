------------------------------ MODULE ButtonLogic ------------------------------
(***************************************************************************)
(* The BOOT button's state machine (components/button/src/button_logic.c): *)
(* pure functions of one poll each.  Levels are TRUE while pressed.  The   *)
(* press's start is kept as the time since then, `held`, which counts no   *)
(* further than the longest threshold.                                     *)
(***************************************************************************)
EXTENDS Naturals

CONSTANTS
    DebounceTicks,   \* BUTTON_DEBOUNCE_TICKS
    PortalTime,      \* BUTTON_PORTAL_MS, in units of time
    ResetTime        \* BUTTON_RESET_MS

ASSUME ButtonAssumption ==
    /\ DebounceTicks \in Nat \ {0}
    /\ PortalTime \in Nat \ {0}
    /\ ResetTime \in Nat
    /\ PortalTime < ResetTime

Asks == {"none", "portal", "reset"}

Capped(time) == IF time < ResetTime THEN time ELSE ResetTime

\* What holding the button for so long asks for.
AskOf(held) == CASE held >= ResetTime -> "reset"
                 [] held >= PortalTime /\ held < ResetTime -> "portal"
                 [] OTHER -> "none"

\* button_state_t
Button == [ ignoring  : BOOLEAN,
            raw       : BOOLEAN,
            same      : 0 .. DebounceTicks,
            debounced : BOOLEAN,
            was       : BOOLEAN,
            held      : 0 .. ResetTime ]

\* Mutant: a button held at start-up counts as pressed.
AtBootTrusting(pressed) ==
    [ignoring |-> FALSE, raw |-> pressed, same |-> DebounceTicks,
     debounced |-> pressed, was |-> pressed, held |-> 0]

\* button_logic_init()
AtBoot(pressed) ==
    [ignoring |-> pressed, raw |-> pressed, same |-> DebounceTicks,
     debounced |-> pressed, was |-> pressed, held |-> 0]

\* Mutant: counts on although the level has changed.
DebounceLoose(button, pressed) ==
    LET same == IF button.same < DebounceTicks THEN button.same + 1 ELSE DebounceTicks IN
    [button EXCEPT !.raw = pressed,
                   !.same = same,
                   !.debounced = IF same = DebounceTicks THEN pressed ELSE button.debounced]

\* A level counts once it has been read DebounceTicks times in a row.
Debounce(button, pressed) ==
    LET before == IF pressed = button.raw THEN button.same ELSE 0
        same   == IF before < DebounceTicks THEN before + 1 ELSE DebounceTicks
    IN
    [button EXCEPT !.raw = pressed,
                   !.same = same,
                   !.debounced = IF same = DebounceTicks THEN pressed ELSE button.debounced]

\* Mutant: the press goes on counting from the one before.
PolledOn(button, pressed, delay) ==
    LET b == Debounce(button, pressed) IN
    [b EXCEPT !.ignoring = b.ignoring /\ b.debounced,
              !.was = b.debounced,
              !.held = IF b.ignoring THEN 0 ELSE Capped(b.held + delay)]

\* button_logic_update(): the button after a poll that comes `delay` after
\* the one before; only a press that the poll before saw has a length, ...
Polled(button, pressed, delay) ==
    LET b == Debounce(button, pressed) IN
    [b EXCEPT !.ignoring = b.ignoring /\ b.debounced,
              !.was = b.debounced,
              !.held = IF b.ignoring \/ ~b.was THEN 0 ELSE Capped(b.held + delay)]

\* ... what a release would do, shown while the button is held, ...
Feedback(button) ==
    IF button.ignoring \/ ~button.debounced THEN "none" ELSE AskOf(button.held)

\* ... and what the poll that sees the release does.
Action(before, after) ==
    IF before.ignoring \/ ~before.was \/ after.debounced THEN "none" ELSE AskOf(after.held)
=============================================================================
