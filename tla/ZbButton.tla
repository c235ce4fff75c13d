------------------------------ MODULE ZbButton ------------------------------
(***************************************************************************)
(* The push-button (zb_button.c): a task that samples a bouncing pin,      *)
(* debounces it and tells single, double and long presses apart, on the    *)
(* tick count of FreeRTOS, which wraps around.                             *)
(***************************************************************************)
EXTENDS Ticks

CONSTANTS
    Debounce,       \* debounce_ticks
    LongPress,      \* long_press_ticks
    MultiPress,     \* multi_press_ticks
    MaxStep         \* a bound: ticks between two samples at most

VARIABLES
    state, state_enter, press_count, long_fired,    \* of button_task
    event,          \* what the last sample made it emit, "" for nothing
    level, run,     \* the last sample, and for how long all were like it
    down, hold,     \* the debounced level, and for how long it is TRUE
    gap, apart,     \* time since it was, and that up to the current press
    taps,           \* short presses closer to each other than MultiPress
    told,           \* LONG has been emitted for this press
    owed,           \* the last short press is not reported
    glitch          \* since then the pin was pressed too shortly

fsm == <<state, state_enter, press_count, long_fired>>
gesture == <<level, run, down, hold, gap, apart, taps, told, owed, glitch>>
vars == <<now, fsm, event, gesture>>

ASSUME ButtonAssumption ==
    /\ MaxStep \in Nat \ {0} /\ Debounce \in Nat \ {0}
    /\ LongPress \in Nat \ {0} /\ MultiPress \in Nat \ {0}
    /\ Wrap > Debounce + LongPress + MultiPress + MaxStep

-----------------------------------------------------------------------------
(* button_task() *)

In_state == Minus(now', state_enter)

\* A bug: the end of the time to wait is kept, a sum that does not wrap.
EnterUntil(s) == state' = s /\ state_enter' = now' + Debounce
Enter(s) == state' = s /\ state_enter' = now'
Emit(kind) == event' = kind
Quietly == Emit("")

Capped(n, top) == IF n > top THEN top ELSE n

FromIdle(pressed) ==
    /\ state = "IDLE"
    /\ IF pressed THEN Enter("DEBOUNCE_PRESS") ELSE UNCHANGED <<state, state_enter>>
    /\ Quietly
    /\ UNCHANGED <<press_count, long_fired>>

\* A press that bounces back is noise; the presses counted so far stay.
FromDebouncePress(pressed) ==
    /\ state = "DEBOUNCE_PRESS"
    /\ \/ /\ ~pressed
          /\ state' = "IDLE"
          /\ UNCHANGED <<state_enter, long_fired>>
       \/ /\ pressed /\ In_state >= Debounce
          /\ Enter("HELD")
          /\ long_fired' = FALSE
       \/ /\ pressed /\ In_state < Debounce
          /\ UNCHANGED <<state, state_enter, long_fired>>
    /\ Quietly
    /\ UNCHANGED press_count

\* A bug: LONG is emitted at every sample of a long press.
FromHeldRepeating(pressed) ==
    /\ state = "HELD"
    /\ IF In_state >= LongPress
       THEN Emit("LONG") /\ long_fired' = TRUE
       ELSE Quietly /\ UNCHANGED long_fired
    /\ IF pressed THEN UNCHANGED <<state, state_enter>>
                  ELSE Enter("DEBOUNCE_RELEASE")
    /\ UNCHANGED press_count

FromHeld(pressed) ==
    /\ state = "HELD"
    /\ IF ~long_fired /\ In_state >= LongPress
       THEN Emit("LONG") /\ long_fired' = TRUE
       ELSE Quietly /\ UNCHANGED long_fired
    /\ IF pressed THEN UNCHANGED <<state, state_enter>>
                  ELSE Enter("DEBOUNCE_RELEASE")
    /\ UNCHANGED press_count

\* A bug: a release is taken at its first sample.
FromReleaseAtOnce(pressed) ==
    /\ state = "DEBOUNCE_RELEASE"
    /\ press_count' = IF long_fired THEN 0 ELSE Capped(press_count + 1, 3)
    /\ long_fired' = FALSE
    /\ IF long_fired THEN state' = "IDLE" /\ UNCHANGED state_enter
                     ELSE Enter("INTER_PRESS")
    /\ Quietly

\* Presses counted before a long press are discarded; a fourth press makes no
\* difference.
FromDebounceRelease(pressed) ==
    /\ state = "DEBOUNCE_RELEASE"
    /\ \/ /\ pressed
          /\ Enter("HELD")
          /\ UNCHANGED <<press_count, long_fired>>
       \/ /\ ~pressed /\ In_state >= Debounce /\ long_fired
          /\ press_count' = 0
          /\ long_fired' = FALSE
          /\ state' = "IDLE"
          /\ UNCHANGED state_enter
       \/ /\ ~pressed /\ In_state >= Debounce /\ ~long_fired
          /\ press_count' = Capped(press_count + 1, 3)
          /\ Enter("INTER_PRESS")
          /\ UNCHANGED long_fired
       \/ /\ ~pressed /\ In_state < Debounce
          /\ UNCHANGED <<fsm>>
    /\ Quietly

\* A bug: the count is not reset once it is reported.
FromInterPressKeeping(pressed) ==
    /\ state = "INTER_PRESS"
    /\ \/ pressed /\ Enter("DEBOUNCE_PRESS") /\ Quietly
       \/ /\ ~pressed /\ In_state >= MultiPress
          /\ Emit(IF press_count = 2 THEN "DOUBLE" ELSE "SINGLE")
          /\ state' = "IDLE"
          /\ UNCHANGED state_enter
       \/ /\ ~pressed /\ In_state < MultiPress
          /\ UNCHANGED <<state, state_enter>>
          /\ Quietly
    /\ UNCHANGED <<press_count, long_fired>>

\* A bug: the window starts again at every sample.
FromInterPressForever(pressed) ==
    /\ state = "INTER_PRESS"
    /\ IF pressed THEN Enter("DEBOUNCE_PRESS") ELSE Enter("INTER_PRESS")
    /\ Quietly
    /\ UNCHANGED <<press_count, long_fired>>

\* Three presses and more are reported as one.
FromInterPress(pressed) ==
    /\ state = "INTER_PRESS"
    /\ \/ /\ pressed
          /\ Enter("DEBOUNCE_PRESS")
          /\ Quietly
          /\ UNCHANGED press_count
       \/ /\ ~pressed /\ In_state >= MultiPress
          /\ Emit(IF press_count = 2 THEN "DOUBLE" ELSE "SINGLE")
          /\ press_count' = 0
          /\ state' = "IDLE"
          /\ UNCHANGED state_enter
       \/ /\ ~pressed /\ In_state < MultiPress
          /\ UNCHANGED <<state, state_enter, press_count>>
          /\ Quietly
    /\ UNCHANGED long_fired

-----------------------------------------------------------------------------
(* The presses, told from the samples alone *)

Released == down /\ ~down'

\* For how long, counted up to what the task waits for.
Timing(step, pressed) ==
    /\ level' = pressed
    /\ run' = IF pressed = level THEN Capped(run + step, Debounce) ELSE 0
    /\ down' = IF run' = Debounce THEN level' ELSE down
    /\ gap' = IF down \/ down' THEN 0 ELSE Capped(gap + step, MultiPress)
    /\ apart' = IF ~down /\ pressed /\ ~level THEN gap ELSE apart

\* A bounce starts a hold anew.
Holding(step) ==
    hold' = IF down /\ down' /\ level THEN Capped(hold + step, LongPress) ELSE 0

Counting ==
    /\ told' = (down' /\ (told \/ event' = "LONG"))
    /\ taps' = IF ~Released THEN taps
               ELSE IF told THEN 0
               ELSE IF apart < MultiPress THEN Capped(taps + 1, 3) ELSE 1
    /\ owed' = (IF Released THEN ~told
                ELSE owed /\ event' \notin {"SINGLE", "DOUBLE"})
    /\ glitch' = /\ owed' /\ event' = ""
                 /\ glitch \/ (owed /\ ~down /\ level /\ ~level')

-----------------------------------------------------------------------------
(* The specification *)

Init ==
    /\ now \in {0, Wrap - LongPress}
    /\ state = "IDLE" /\ state_enter = 0 /\ press_count = 0 /\ long_fired = FALSE
    /\ event = "" /\ level = FALSE /\ run = 0 /\ down = FALSE /\ hold = 0
    /\ gap = MultiPress /\ apart = MultiPress /\ taps = 0
    /\ told = FALSE /\ owed = FALSE /\ glitch = FALSE

Sample(step, pressed) ==
    /\ now' = Plus(now, step)
    /\ \/ FromIdle(pressed) \/ FromDebouncePress(pressed) \/ FromHeld(pressed)
       \/ FromDebounceRelease(pressed) \/ FromInterPress(pressed)
    /\ Timing(step, pressed) /\ Holding(step) /\ Counting

\* The pin has any level whenever it is read.
Poll == \E step \in 1 .. MaxStep, pressed \in BOOLEAN : Sample(step, pressed)

Spec == Init /\ [][Poll]_vars

-----------------------------------------------------------------------------
(* Properties *)

Sampled == now' # now

States == {"IDLE", "DEBOUNCE_PRESS", "HELD", "DEBOUNCE_RELEASE", "INTER_PRESS"}

TypeOK ==
    /\ now \in TickType /\ state_enter \in TickType /\ state \in States
    /\ press_count \in 0 .. 3 /\ long_fired \in BOOLEAN
    /\ event \in {"", "SINGLE", "DOUBLE", "LONG"}
    /\ level \in BOOLEAN /\ down \in BOOLEAN
    /\ told \in BOOLEAN /\ owed \in BOOLEAN /\ glitch \in BOOLEAN
    /\ run \in 0 .. Debounce /\ hold \in 0 .. LongPress /\ taps \in 0 .. 3
    /\ gap \in 0 .. MultiPress /\ apart \in 0 .. MultiPress

\* FR-10.2: the task takes the button for pressed exactly while the pin has
\* been so, or has been released, for less than the debounce time, whatever
\* it was doing before and wherever the tick count wraps.
FsmFollowsPin == state \in {"HELD", "DEBOUNCE_RELEASE"} <=> down

\* FR-10.3: DOUBLE is emitted for two presses within the multi-press time of
\* each other and for nothing else, and of one press or two only one gives
\* SINGLE, unless a glitch came between. Nothing is claimed of three or more:
\* FR-10.3 names no event for them and has SINGLE for a press without a second
\* one, but the code reports them as SINGLE (zb_button.c:121).
CountTellsTaps ==
    [][Sampled /\ ~glitch =>
        /\ event' = "DOUBLE" => taps = 2
        /\ event' = "SINGLE" /\ taps <= 2 => taps = 1]_vars

\* FR-10.3: LONG is emitted while the button is held, after the long-press
\* time without a bounce, and once however long and often the pin bounces.
LongOncePerPress ==
    [][Sampled /\ event' = "LONG" => hold' = LongPress /\ ~told]_vars

\* A short press is reported when the multi-press time has gone by without
\* another, unless a glitch came in between.
PressReported == owed /\ ~glitch /\ ~level /\ ~down => gap < MultiPress
=============================================================================
