--------------------------- MODULE ZbButtonProofs ---------------------------
(***************************************************************************)
(* Proofs about ZbButton: for all thresholds, sampling intervals and       *)
(* widths of the tick count, the state machine follows the debounced pin,  *)
(* also where the tick count wraps around.                                 *)
(***************************************************************************)
EXTENDS ZbButton, TLAPS

-----------------------------------------------------------------------------
(* Tick arithmetic *)

LEMMA ModOnce ==
    ASSUME NEW n \in Int
    PROVE  /\ n \in TickType => n % Wrap = n
           /\ n \in Wrap .. 2 * Wrap - 1 => n % Wrap = n - Wrap
           /\ n \in -Wrap .. -1 => n % Wrap = n + Wrap
  BY WrapAssumption DEF TickType

\* A time that is less than the count wraps in is measured right by a
\* difference of counts, wherever between the two the count wraps.
LEMMA Elapsed ==
    ASSUME NEW a \in TickType, NEW e \in TickType, NEW s \in Nat,
           Minus(a, e) + s < Wrap
    PROVE  /\ Minus(a, e) \in TickType /\ Plus(a, s) \in TickType
           /\ Minus(Plus(a, s), e) = Minus(a, e) + s
  BY ModOnce, WrapAssumption DEF TickType, Minus, Plus

-----------------------------------------------------------------------------
(* The inductive invariant *)

\* What each state knows of the pin. A state that debounces has been entered
\* when the pin changed last, so that the time since is the time the pin has
\* been as it is.
Debouncing == run < Debounce /\ Minus(now, state_enter) = run
Knows ==
    /\ state \in {"IDLE", "INTER_PRESS"} => ~level /\ ~down
    /\ state = "DEBOUNCE_PRESS" => level /\ ~down /\ Debouncing
    /\ state = "HELD" => level /\ down
    /\ state = "DEBOUNCE_RELEASE" => ~level /\ down /\ Debouncing

\* Until LONG is emitted, the time in HELD is the time the pin has been held.
Holds ==
    /\ told => down
    /\ state \in {"HELD", "DEBOUNCE_RELEASE"} => told = long_fired
    /\ state = "HELD" /\ ~long_fired =>
        hold < LongPress /\ Minus(now, state_enter) = hold

IInv == TypeOK /\ Knows /\ Holds

Numbers ==
    /\ Debounce \in Nat /\ Debounce > 0 /\ MaxStep \in Nat
    /\ LongPress \in Nat /\ LongPress > 0 /\ MultiPress \in Nat
    /\ Wrap \in Nat /\ Wrap > Debounce + LongPress + MultiPress + MaxStep

LEMMA Bounds == Numbers
  BY ButtonAssumption, WrapAssumption DEF Numbers

LEMMA Tick ==
    ASSUME NEW a \in TickType, NEW s \in 1 .. MaxStep
    PROVE  Plus(a, s) \in TickType /\ Minus(Plus(a, s), Plus(a, s)) = 0
  BY Bounds, ModOnce DEF TickType, Numbers, Plus, Minus

LEMMA InitIInv == Init => IInv
<1> SUFFICES ASSUME Init PROVE IInv
  OBVIOUS
<1>1. now \in TickType /\ state_enter \in TickType
  <2>1. now \in {0, Wrap - LongPress} /\ state_enter = 0
    BY DEF Init
  <2> QED  BY <2>1, Bounds DEF Numbers, TickType
<1>2. /\ run \in 0 .. Debounce /\ hold \in 0 .. LongPress /\ taps \in 0 .. 3
      /\ gap \in 0 .. MultiPress /\ apart \in 0 .. MultiPress
      /\ press_count \in 0 .. 3
  <2>1. /\ run = 0 /\ hold = 0 /\ taps = 0 /\ press_count = 0
        /\ gap = MultiPress /\ apart = MultiPress
    BY DEF Init
  <2> QED  BY <2>1, Bounds DEF Numbers
<1>3. TypeOK
  BY <1>1, <1>2 DEF Init, TypeOK, States
<1>4. Knows /\ Holds
  BY DEF Init, Knows, Holds
<1> QED  BY <1>3, <1>4 DEF IInv

LEMMA CappedBelow ==
    ASSUME NEW n \in Nat, NEW top \in Nat
    PROVE  /\ Capped(n, top) \in 0 .. top
           /\ n < top => Capped(n, top) = n
           /\ n >= top => Capped(n, top) = top
  BY DEF Capped

\* The state machine's own variables keep their types.
LEMMA FsmTypes ==
    ASSUME IInv, NEW step \in 1 .. MaxStep, NEW pressed \in BOOLEAN,
           Sample(step, pressed)
    PROVE  /\ now' \in TickType /\ state_enter' \in TickType /\ state' \in States
           /\ press_count' \in 0 .. 3 /\ long_fired' \in BOOLEAN
           /\ event' \in {"", "SINGLE", "DOUBLE", "LONG"}
<1>1. now' \in TickType
  BY Tick DEF Sample, IInv, TypeOK
<1>2. CASE FromIdle(pressed)
  BY <1>1, <1>2 DEF FromIdle, Enter, Emit, Quietly, IInv, TypeOK, States
<1>3. CASE FromDebouncePress(pressed)
  BY <1>1, <1>3 DEF FromDebouncePress, Enter, Emit, Quietly, IInv, TypeOK, States
<1>4. CASE FromHeld(pressed)
  BY <1>1, <1>4 DEF FromHeld, Enter, Emit, Quietly, IInv, TypeOK, States
<1>5. CASE FromDebounceRelease(pressed)
  <2>0. press_count \in 0 .. 3
    BY DEF IInv, TypeOK
  <2>1. Capped(press_count + 1, 3) \in 0 .. 3
    BY <2>0 DEF Capped
  <2>2. press_count' \in {0, press_count, Capped(press_count + 1, 3)}
    BY <1>5 DEF FromDebounceRelease, fsm
  <2>3. press_count' \in 0 .. 3
    BY <2>0, <2>1, <2>2
  <2>4. state' \in States /\ state_enter' \in TickType /\ event' = ""
    BY <1>1, <1>5
       DEF FromDebounceRelease, Enter, Emit, Quietly, fsm, IInv, TypeOK, States
  <2>5. long_fired' \in BOOLEAN
    BY <1>5 DEF FromDebounceRelease, fsm, IInv, TypeOK
  <2> QED  BY <1>1, <2>3, <2>4, <2>5
<1>6. CASE FromInterPress(pressed)
  <2>1. press_count' \in {0, press_count} /\ press_count \in 0 .. 3
    BY <1>6 DEF FromInterPress, IInv, TypeOK
  <2>2. state' \in States /\ state_enter' \in TickType
    BY <1>1, <1>6 DEF FromInterPress, Enter, IInv, TypeOK, States
  <2>3. event' \in {"", "SINGLE", "DOUBLE", "LONG"}
    BY <1>6 DEF FromInterPress, Emit, Quietly
  <2>4. long_fired' \in BOOLEAN
    BY <1>6 DEF FromInterPress, IInv, TypeOK
  <2>5. press_count' \in 0 .. 3
    BY <2>1
  <2> QED  BY <1>1, <2>2, <2>3, <2>4, <2>5
<1> QED  BY <1>2, <1>3, <1>4, <1>5, <1>6 DEF Sample

\* So do the variables that tell the presses from the samples.
LEMMA GestureTypes ==
    ASSUME IInv, NEW step \in 1 .. MaxStep, NEW pressed \in BOOLEAN,
           Sample(step, pressed)
    PROVE  /\ level' \in BOOLEAN /\ down' \in BOOLEAN
           /\ told' \in BOOLEAN /\ owed' \in BOOLEAN /\ glitch' \in BOOLEAN
           /\ run' \in 0 .. Debounce /\ hold' \in 0 .. LongPress
           /\ taps' \in 0 .. 3
           /\ gap' \in 0 .. MultiPress /\ apart' \in 0 .. MultiPress
<1>1. /\ level \in BOOLEAN /\ down \in BOOLEAN
      /\ told \in BOOLEAN /\ owed \in BOOLEAN /\ glitch \in BOOLEAN
      /\ run \in 0 .. Debounce /\ hold \in 0 .. LongPress /\ taps \in 0 .. 3
      /\ gap \in 0 .. MultiPress /\ apart \in 0 .. MultiPress
  BY DEF IInv, TypeOK
<1>2. Timing(step, pressed) /\ Holding(step) /\ Counting
  BY DEF Sample
<1>3. run' \in 0 .. Debounce
  BY <1>1, <1>2, Bounds DEF Timing, Capped, Numbers
<1>4. level' \in BOOLEAN /\ down' \in BOOLEAN
  BY <1>1, <1>2 DEF Timing
<1>5. hold' \in 0 .. LongPress
  BY <1>1, <1>2, Bounds DEF Holding, Capped, Numbers
<1>6. gap' \in 0 .. MultiPress /\ apart' \in 0 .. MultiPress
  BY <1>1, <1>2, Bounds DEF Timing, Capped, Numbers
<1>7. taps' \in 0 .. 3
  <2>1. Capped(taps + 1, 3) \in 0 .. 3
    <3>1. taps \in 0 .. 3
      BY <1>1
    <3> QED  BY <3>1 DEF Capped
  <2>2. taps' \in {taps, 0, Capped(taps + 1, 3), 1}
    BY <1>2 DEF Counting
  <2> QED  BY <1>1, <2>1, <2>2
<1>8. told' \in BOOLEAN /\ owed' \in BOOLEAN /\ glitch' \in BOOLEAN
  BY <1>1, <1>2 DEF Counting
<1> QED  BY <1>3, <1>4, <1>5, <1>6, <1>7, <1>8

\* A state that debounces leaves when the pin has been the same for long
\* enough, and not before.
LEMMA DebounceTimer ==
    ASSUME IInv, Debouncing, NEW step \in 1 .. MaxStep,
           now' = Plus(now, step)
    PROVE  In_state = run + step
<1>0. now \in TickType /\ state_enter \in TickType /\ run \in 0 .. Debounce
  BY DEF IInv, TypeOK
<1>1. now \in TickType /\ state_enter \in TickType /\ run \in Nat /\ step \in Nat
  BY <1>0, Bounds DEF Numbers
<1>2. Minus(now, state_enter) = run /\ Minus(now, state_enter) + step < Wrap
  BY <1>1, Bounds DEF Numbers, Debouncing
<1>3. Minus(Plus(now, step), state_enter) = Minus(now, state_enter) + step
  BY <1>1, <1>2, Elapsed
<1> QED  BY <1>2, <1>3 DEF In_state

LEMMA RunNumbers ==
    ASSUME IInv, NEW step \in 1 .. MaxStep
    PROVE  run + step \in Nat /\ Debounce \in Nat
<1>1. run \in 0 .. Debounce
  BY DEF IInv, TypeOK
<1> QED  BY <1>1, Bounds DEF Numbers

\* The ghosts of the pin, when it changes and when it does not.
LEMMA PinTimes ==
    ASSUME IInv, NEW step \in 1 .. MaxStep, NEW pressed \in BOOLEAN,
           Sample(step, pressed)
    PROVE  /\ now' = Plus(now, step) /\ Minus(now', now') = 0 /\ 0 < Debounce
           /\ level' = pressed
           /\ pressed # level => run' = 0 /\ down' = down
           /\ pressed = level /\ run + step < Debounce =>
                run' = run + step /\ down' = down
           /\ pressed = level /\ run + step >= Debounce => down' = pressed
           /\ down' = down \/ down' = pressed
<1>1. /\ now \in TickType /\ now' = Plus(now, step)
      /\ Timing(step, pressed) /\ run \in 0 .. Debounce
  BY DEF Sample, IInv, TypeOK
<1>2. Minus(now', now') = 0
  BY <1>1, Tick
<1>3. Debounce \in Nat /\ 0 < Debounce /\ run \in Nat /\ step \in Nat /\ run + step \in Nat
  BY <1>1, Bounds DEF Numbers
<1>4. /\ run + step < Debounce => Capped(run + step, Debounce) = run + step
      /\ run + step >= Debounce => Capped(run + step, Debounce) = Debounce
  BY <1>3 DEF Capped
<1>5. /\ level' = pressed
      /\ run' = IF pressed = level THEN Capped(run + step, Debounce) ELSE 0
      /\ down' = IF run' = Debounce THEN level' ELSE down
  BY <1>1 DEF Timing
<1>6. pressed # level => run' = 0 /\ down' = down
  BY <1>3, <1>5
<1>7. pressed = level /\ run + step < Debounce => run' = run + step /\ down' = down
  BY <1>3, <1>4, <1>5
<1>8. pressed = level /\ run + step >= Debounce => down' = pressed
  BY <1>3, <1>4, <1>5
<1> QED  BY <1>1, <1>2, <1>3, <1>5, <1>6, <1>7, <1>8

LEMMA StepKnows ==
    ASSUME IInv, NEW step \in 1 .. MaxStep, NEW pressed \in BOOLEAN,
           Sample(step, pressed)
    PROVE  Knows'
<1> USE PinTimes
<1>0. level \in BOOLEAN /\ down \in BOOLEAN
  BY DEF IInv, TypeOK
<1>1. CASE FromIdle(pressed)
  <2>1. ~level /\ ~down
    BY <1>1 DEF FromIdle, IInv, Knows
  <2>2. CASE pressed
    BY <1>1, <2>1, <2>2 DEF FromIdle, Enter, Knows, Debouncing
  <2>3. CASE ~pressed
    BY <1>0, <1>1, <2>1, <2>3 DEF FromIdle, Knows, IInv
  <2> QED  BY <2>2, <2>3
<1>2. CASE FromDebouncePress(pressed)
  <2>1. state = "DEBOUNCE_PRESS" /\ level /\ ~down /\ Debouncing
    BY <1>2 DEF FromDebouncePress, IInv, Knows
  <2>2. In_state = run + step
    BY <2>1, DebounceTimer
  <2>3. CASE ~pressed
    <3>1. state' = "IDLE" /\ ~level' /\ ~down'
      BY <1>2, <2>1, <2>3 DEF FromDebouncePress
    <3> QED  BY <3>1 DEF Knows
  <2>4. CASE pressed /\ In_state >= Debounce
    <3>1. state' = "HELD" /\ level' /\ down'
      BY <1>0, <1>2, <2>1, <2>2, <2>4, Bounds DEF FromDebouncePress, Enter, Numbers
    <3> QED  BY <3>1 DEF Knows
  <2>5. CASE pressed /\ ~ (In_state >= Debounce)
    <3>1. In_state < Debounce
      BY <2>2, <2>5, RunNumbers
    <3>2. state' = "DEBOUNCE_PRESS" /\ state_enter' = state_enter
      BY <1>2, <2>1, <2>5 DEF FromDebouncePress
    <3>3. level' /\ run' = run + step /\ ~down'
      BY <1>0, <2>1, <2>2, <2>5, <3>1
    <3>4. Debouncing'
      BY <2>2, <3>1, <3>2, <3>3 DEF Debouncing, In_state
    <3> QED  BY <3>2, <3>3, <3>4 DEF Knows
  <2> QED  BY <2>3, <2>4, <2>5
<1>3. CASE FromHeld(pressed)
  <2>1. state = "HELD" /\ level /\ down
    BY <1>3 DEF FromHeld, IInv, Knows
  <2>2. CASE pressed
    BY <1>0, <1>3, <2>1, <2>2 DEF FromHeld, Knows
  <2>3. CASE ~pressed
    BY <1>3, <2>1, <2>3 DEF FromHeld, Enter, Knows, Debouncing
  <2> QED  BY <2>2, <2>3
<1>4. CASE FromDebounceRelease(pressed)
  <2>1. state = "DEBOUNCE_RELEASE" /\ ~level /\ down /\ Debouncing
    BY <1>4 DEF FromDebounceRelease, IInv, Knows
  <2>2. In_state = run + step
    BY <2>1, DebounceTimer
  <2>3. CASE pressed
    <3>1. state' = "HELD" /\ level' /\ down'
      BY <1>4, <2>1, <2>3 DEF FromDebounceRelease, Enter
    <3> QED  BY <3>1 DEF Knows
  <2>4. CASE ~pressed /\ In_state >= Debounce
    <3>1. state' \in {"IDLE", "INTER_PRESS"}
      <4>1. ~ (In_state < Debounce)
        BY <2>2, <2>4, RunNumbers
      <4> QED  BY <1>4, <2>1, <2>4, <4>1 DEF FromDebounceRelease, Enter
    <3>2. ~level' /\ ~down'
      BY <1>0, <2>1, <2>2, <2>4
    <3> QED  BY <3>1, <3>2 DEF Knows
  <2>5. CASE ~pressed /\ ~ (In_state >= Debounce)
    <3>1. In_state < Debounce
      BY <2>2, <2>5, RunNumbers
    <3>2. state' = "DEBOUNCE_RELEASE" /\ state_enter' = state_enter
      BY <1>4, <2>1, <2>5, <3>1 DEF FromDebounceRelease, fsm
    <3>3. ~level' /\ run' = run + step /\ down'
      BY <1>0, <2>1, <2>2, <2>5, <3>1
    <3>4. Debouncing'
      BY <2>2, <3>1, <3>2, <3>3 DEF Debouncing, In_state
    <3> QED  BY <3>2, <3>3, <3>4 DEF Knows
  <2> QED  BY <2>3, <2>4, <2>5
<1>5. CASE FromInterPress(pressed)
  <2>1. ~level /\ ~down
    BY <1>5 DEF FromInterPress, IInv, Knows
  <2>2. CASE pressed
    BY <1>5, <2>1, <2>2 DEF FromInterPress, Enter, Knows, Debouncing
  <2>3. CASE ~pressed
    BY <1>0, <1>5, <2>1, <2>3 DEF FromInterPress, Knows, IInv
  <2> QED  BY <2>2, <2>3
<1> QED  BY <1>1, <1>2, <1>3, <1>4, <1>5 DEF Sample

\* The time in HELD, while LONG has not been emitted.
LEMMA HeldTimer ==
    ASSUME IInv, NEW step \in 1 .. MaxStep, now' = Plus(now, step),
           state = "HELD", ~long_fired
    PROVE  /\ In_state = hold + step /\ hold + step \in Nat /\ LongPress \in Nat
           /\ hold + step < LongPress => Capped(hold + step, LongPress) = hold + step
           /\ hold + step >= LongPress => Capped(hold + step, LongPress) = LongPress
<1>0. now \in TickType /\ state_enter \in TickType /\ hold \in 0 .. LongPress
  BY DEF IInv, TypeOK
<1>1. hold \in Nat /\ step \in Nat /\ LongPress \in Nat
  BY <1>0, Bounds DEF Numbers
<1>2. Minus(now, state_enter) = hold /\ hold < LongPress
  BY DEF IInv, Holds
<1>3. Minus(now, state_enter) + step < Wrap
  BY <1>1, <1>2, Bounds DEF Numbers
<1>4. Minus(Plus(now, step), state_enter) = Minus(now, state_enter) + step
  BY <1>0, <1>1, <1>3, Elapsed
<1>5. hold + step < LongPress => Capped(hold + step, LongPress) = hold + step
  BY <1>1 DEF Capped
<1>6. hold + step >= LongPress => Capped(hold + step, LongPress) = LongPress
  BY <1>1 DEF Capped
<1> QED  BY <1>1, <1>2, <1>4, <1>5, <1>6 DEF In_state

\* A sample of a held button: LONG when it is due, the time otherwise.
LEMMA HeldStep ==
    ASSUME IInv, NEW step \in 1 .. MaxStep, NEW pressed \in BOOLEAN,
           Sample(step, pressed), FromHeld(pressed)
    PROVE  /\ event' = "LONG" => hold' = LongPress /\ ~told
           /\ told' = long_fired'
           /\ state' = "HELD" /\ ~long_fired' =>
                hold' < LongPress /\ Minus(now', state_enter') = hold'
<1>1. state = "HELD" /\ level /\ down /\ told = long_fired
  BY DEF FromHeld, IInv, Knows, Holds
<1>2. now' = Plus(now, step) /\ Holding(step) /\ Counting
  BY DEF Sample
<1>3. down'
  <2>1. pressed # level => down' = down
    BY PinTimes
  <2>2. down' = down \/ down' = pressed
    BY PinTimes
  <2>3. level \in BOOLEAN
    BY DEF IInv, TypeOK
  <2> QED  BY <1>1, <2>1, <2>2, <2>3
<1>4. hold' = Capped(hold + step, LongPress)
  BY <1>1, <1>2, <1>3 DEF Holding
<1>5. told' = (told \/ event' = "LONG")
  BY <1>2, <1>3 DEF Counting
<1>6. long_fired \in BOOLEAN
  BY DEF IInv, TypeOK
<1>7. CASE long_fired
  <2>1. event' = "" /\ long_fired' = long_fired
    BY <1>7 DEF FromHeld, Quietly, Emit
  <2> QED  BY <1>1, <1>5, <1>6, <1>7, <2>1
<1>8. CASE ~long_fired /\ In_state >= LongPress
  <2>1. event' = "LONG" /\ long_fired' = TRUE
    BY <1>8 DEF FromHeld, Emit
  <2>2. hold' = LongPress
    BY <1>1, <1>2, <1>4, <1>8, HeldTimer
  <2> QED  BY <1>1, <1>5, <1>8, <2>1, <2>2
<1>9. CASE ~long_fired /\ ~ (In_state >= LongPress)
  <2>1. event' = "" /\ long_fired' = long_fired
    BY <1>9 DEF FromHeld, Quietly, Emit
  <2>2. In_state = hold + step /\ hold' = hold + step /\ hold' < LongPress
    BY <1>1, <1>2, <1>4, <1>9, HeldTimer
  <2>3. state' = "HELD" => state_enter' = state_enter
    BY DEF FromHeld, Enter
  <2>4. state' = "HELD" => Minus(now', state_enter') = hold'
    BY <2>2, <2>3 DEF In_state
  <2> QED  BY <1>1, <1>5, <1>6, <1>9, <2>1, <2>2, <2>4
<1> QED  BY <1>7, <1>8, <1>9

LEMMA StepHolds ==
    ASSUME IInv, NEW step \in 1 .. MaxStep, NEW pressed \in BOOLEAN,
           Sample(step, pressed)
    PROVE  Holds'
<1>1. /\ Minus(now', now') = 0 /\ Holding(step) /\ Counting
      /\ told' = (down' /\ (told \/ event' = "LONG"))
  BY PinTimes DEF Sample, Counting
<1>2. 0 < LongPress
  BY Bounds DEF Numbers
<1>3. told' => down'
  BY <1>1
<1>4. CASE FromIdle(pressed)
  <2>1. state' \in {"IDLE", "DEBOUNCE_PRESS"}
    BY <1>4 DEF FromIdle, Enter
  <2> QED  BY <1>3, <2>1 DEF Holds
<1>5. CASE FromDebouncePress(pressed)
  <2>1. state = "DEBOUNCE_PRESS" /\ ~down /\ ~told /\ event' = ""
    BY <1>5 DEF FromDebouncePress, Quietly, Emit, IInv, Knows, Holds
  <2>2. hold' = 0 /\ told' = FALSE
    BY <1>1, <2>1 DEF Holding
  <2>3. CASE state' = "HELD"
    <3>1. long_fired' = FALSE /\ state_enter' = now'
      BY <1>5, <2>1, <2>3 DEF FromDebouncePress, Enter
    <3> QED  BY <1>1, <1>2, <2>2, <3>1 DEF Holds
  <2>4. CASE state' # "HELD"
    <3>1. state' \in {"IDLE", "DEBOUNCE_PRESS"}
      BY <1>5, <2>1, <2>4 DEF FromDebouncePress, Enter
    <3> QED  BY <1>3, <3>1 DEF Holds
  <2> QED  BY <2>3, <2>4
<1>6. CASE FromHeld(pressed)
  BY <1>3, <1>6, HeldStep DEF Holds
<1>7. CASE FromDebounceRelease(pressed)
  <2>1. state = "DEBOUNCE_RELEASE" /\ ~level /\ down /\ event' = ""
        /\ told = long_fired /\ told \in BOOLEAN /\ long_fired \in BOOLEAN
    BY <1>7 DEF FromDebounceRelease, Quietly, Emit, IInv, TypeOK, Knows, Holds
  <2>2. hold' = 0
    BY <1>1, <2>1 DEF Holding
  <2>3. CASE state' \in {"HELD", "DEBOUNCE_RELEASE"}
    <3>1. long_fired' = long_fired /\ (state' = "HELD" => state_enter' = now')
      BY <1>7, <2>1, <2>3 DEF FromDebounceRelease, Enter, fsm
    <3>2. down'
      BY <2>3, <1>7, StepKnows DEF Knows
    <3>3. told' = told
      BY <1>1, <2>1, <3>2
    <3> QED  BY <1>1, <1>2, <1>3, <2>1, <2>2, <3>1, <3>3 DEF Holds
  <2>4. CASE state' \notin {"HELD", "DEBOUNCE_RELEASE"}
    BY <1>3, <2>4 DEF Holds
  <2> QED  BY <2>3, <2>4
<1>8. CASE FromInterPress(pressed)
  <2>1. state' \in {"IDLE", "INTER_PRESS", "DEBOUNCE_PRESS"}
    BY <1>8 DEF FromInterPress, Enter
  <2> QED  BY <1>3, <2>1 DEF Holds
<1> QED  BY <1>4, <1>5, <1>6, <1>7, <1>8 DEF Sample

LEMMA StutterIInv == IInv /\ UNCHANGED vars => IInv'
<1> SUFFICES ASSUME IInv, UNCHANGED vars PROVE IInv'
  OBVIOUS
<1>1. /\ UNCHANGED <<now, state, state_enter, press_count, long_fired, event>>
      /\ UNCHANGED <<level, run, down, hold, gap, apart, taps, told, owed, glitch>>
  BY DEF vars, fsm, gesture
<1>2. TypeOK'
  BY <1>1 DEF IInv, TypeOK
<1>3. Knows'
  BY <1>1 DEF IInv, Knows, Debouncing
<1>4. Holds'
  BY <1>1 DEF IInv, Holds
<1> QED  BY <1>2, <1>3, <1>4 DEF IInv

\* At every sample the time in the state tells the time since the pin changed,
\* or, in HELD, since the press: with it the machine knows what the pin did.
THEOREM ButtonInvariant == Spec => []IInv
<1>1. IInv /\ [Poll]_vars => IInv'
  <2>1. ASSUME IInv, Poll PROVE IInv'
    <3>1. PICK step \in 1 .. MaxStep, pressed \in BOOLEAN : Sample(step, pressed)
      BY <2>1 DEF Poll
    <3>2. TypeOK'
      BY <2>1, <3>1, FsmTypes, GestureTypes DEF TypeOK
    <3>3. Knows'
      BY <2>1, <3>1, StepKnows
    <3>4. Holds'
      BY <2>1, <3>1, StepHolds
    <3> QED  BY <3>2, <3>3, <3>4 DEF IInv
  <2> QED  BY <2>1, StutterIInv
<1> QED  BY InitIInv, <1>1, PTL DEF Spec

\* The state machine keeps its types.
THEOREM TypeCorrect == Spec => []TypeOK
<1>1. IInv => TypeOK
  BY DEF IInv
<1> QED  BY ButtonInvariant, <1>1, PTL

\* FR-10.2 for every debounce time, sampling interval and width of the tick
\* count: the task holds the button for pressed exactly while the debounced
\* pin is, wherever the tick count wraps.
THEOREM FollowsPin == Spec => []FsmFollowsPin
<1>1. IInv => FsmFollowsPin
  BY DEF IInv, TypeOK, Knows, FsmFollowsPin, States
<1> QED  BY ButtonInvariant, <1>1, PTL

\* FR-10.3 for every long-press time, sampling interval and width of the tick
\* count: LONG means that the pin has been held for the long-press time, and
\* comes once, however long the button is held and often the count wraps.
THEOREM LongOnce == Spec => LongOncePerPress
<1> DEFINE Once == Sampled /\ event' = "LONG" => hold' = LongPress /\ ~told
<1>1. IInv /\ [Poll]_vars => [Once]_vars
  <2> SUFFICES ASSUME IInv, Poll, event' = "LONG"
               PROVE  hold' = LongPress /\ ~told
    OBVIOUS
  <2>1. PICK step \in 1 .. MaxStep, pressed \in BOOLEAN : Sample(step, pressed)
    BY DEF Poll
  <2>2. FromHeld(pressed)
    BY <2>1 DEF Sample, FromIdle, FromDebouncePress, FromDebounceRelease,
                FromInterPress, Quietly, Emit
  <2> QED  BY <2>1, <2>2, HeldStep
<1>2. Spec => [][Once]_vars
  BY ButtonInvariant, <1>1, PTL DEF Spec
<1> QED  BY <1>2 DEF LongOncePerPress

-----------------------------------------------------------------------------
(* What the count of presses knows *)

\* In the state that waits for another press the time in the state is the time
\* since the last one. The count is that of the presses close to each other,
\* unless a bounce sent the machine to IDLE with presses not yet reported; in
\* IDLE nothing is owed, and a press that comes now is the first.
Owing ==
    /\ owed <=> press_count > 0
    /\ glitch => owed
    /\ state = "INTER_PRESS" => owed
Waiting ==
    /\ state = "INTER_PRESS" => gap < MultiPress /\ Minus(now, state_enter) = gap
    /\ state = "DEBOUNCE_PRESS" => apart <= gap
Tallied ==
    ~glitch =>
        /\ state = "IDLE" => ~owed /\ (gap = MultiPress \/ taps = 0)
        /\ state = "INTER_PRESS" => press_count = taps
        /\ state \in {"DEBOUNCE_PRESS", "HELD", "DEBOUNCE_RELEASE"} /\ ~told =>
            press_count = IF apart < MultiPress THEN taps ELSE 0
Counts == Owing /\ Waiting /\ Tallied

LEMMA InitCounts == Init => Counts
<1> SUFFICES ASSUME Init PROVE Counts
  OBVIOUS
<1>1. ~owed /\ ~glitch /\ press_count = 0 /\ state = "IDLE" /\ taps = 0
  BY DEF Init
<1>2. ~ (press_count > 0)
  BY <1>1
<1>3. Owing
  BY <1>1, <1>2 DEF Owing
<1>4. Waiting
  BY <1>1 DEF Waiting
<1>5. Tallied
  BY <1>1 DEF Tallied
<1> QED  BY <1>3, <1>4, <1>5 DEF Counts

LEMMA NoneCounted == IInv /\ Counts /\ ~owed => press_count = 0
<1> SUFFICES ASSUME IInv, Counts, ~owed PROVE press_count = 0
  OBVIOUS
<1>1. press_count \in 0 .. 3
  BY DEF IInv, TypeOK
<1>2. ~ (press_count > 0)
  BY DEF Counts, Owing
<1> QED  BY <1>1, <1>2

\* The time since the last press, counted on while the pin is released.
LEMMA GapNumbers ==
    ASSUME IInv, NEW step \in 1 .. MaxStep
    PROVE  /\ gap \in Nat /\ apart \in Nat /\ step \in Nat /\ MultiPress \in Nat
           /\ gap <= MultiPress /\ apart <= MultiPress /\ 0 < MultiPress
           /\ Capped(gap + step, MultiPress) >= gap
           /\ gap + step >= MultiPress => Capped(gap + step, MultiPress) = MultiPress
           /\ gap + step < MultiPress => Capped(gap + step, MultiPress) = gap + step
<1>1. gap \in 0 .. MultiPress /\ apart \in 0 .. MultiPress
  BY DEF IInv, TypeOK
<1>2. MultiPress \in Nat /\ MultiPress > 0
  BY ButtonAssumption
<1> QED  BY <1>1, <1>2 DEF Capped

\* A window measured from the release is measured right.
LEMMA InterTimer ==
    ASSUME IInv, Counts, NEW step \in 1 .. MaxStep, now' = Plus(now, step),
           state = "INTER_PRESS"
    PROVE  In_state = gap + step
<1>1. now \in TickType /\ state_enter \in TickType
  BY DEF IInv, TypeOK
<1>2. Minus(now, state_enter) = gap /\ gap < MultiPress /\ gap \in Nat /\ step \in Nat
  BY GapNumbers DEF Counts, Waiting
<1>3. Minus(now, state_enter) + step < Wrap
  BY <1>2, Bounds DEF Numbers
<1>4. Minus(Plus(now, step), state_enter) = Minus(now, state_enter) + step
  BY <1>1, <1>2, <1>3, Elapsed
<1> QED  BY <1>2, <1>4 DEF In_state

\* What a sample does to what is told of the presses, when it ends none.
LEMMA NoneEnds ==
    ASSUME IInv, NEW step \in 1 .. MaxStep, NEW pressed \in BOOLEAN,
           Sample(step, pressed), ~Released
    PROVE  /\ taps' = taps /\ owed' = (owed /\ event' \notin {"SINGLE", "DOUBLE"})
           /\ glitch' => owed'
           /\ down => gap' = 0 /\ apart' = apart
           /\ ~down /\ ~down' => gap' = Capped(gap + step, MultiPress)
           /\ level => apart' = apart
           /\ ~down /\ pressed /\ ~level => apart' = gap
           /\ event' = "" /\ glitch /\ owed => glitch'
           /\ event' = "" /\ owed /\ ~down /\ level /\ ~pressed => glitch'
<1>1. Timing(step, pressed) /\ Counting /\ owed \in BOOLEAN
  BY DEF Sample, IInv, TypeOK
<1>2. taps' = taps /\ owed' = (owed /\ event' \notin {"SINGLE", "DOUBLE"})
  BY <1>1 DEF Counting
<1>3. glitch' = (owed' /\ event' = "" /\ (glitch \/ (owed /\ ~down /\ level /\ ~level')))
  BY <1>1 DEF Counting
<1>4. event' = "" /\ owed => owed'
  BY <1>2
<1>5. /\ down => gap' = 0 /\ apart' = apart
      /\ ~down /\ ~down' => gap' = Capped(gap + step, MultiPress)
      /\ level => apart' = apart
      /\ ~down /\ pressed /\ ~level => apart' = gap
      /\ level' = pressed
  BY <1>1 DEF Timing
<1> QED  BY <1>2, <1>3, <1>4, <1>5

LEMMA IdleCounts ==
    ASSUME IInv, Counts, NEW step \in 1 .. MaxStep, NEW pressed \in BOOLEAN,
           Sample(step, pressed), FromIdle(pressed)
    PROVE  Counts'
<1>1. state = "IDLE" /\ ~level /\ ~down /\ event' = "" /\ press_count' = press_count
  BY DEF FromIdle, Quietly, Emit, IInv, Knows
<1>2. state' = (IF pressed THEN "DEBOUNCE_PRESS" ELSE "IDLE")
  BY <1>1 DEF FromIdle, Enter
<1>3. ~down' /\ ~Released
  BY <1>1, <1>2, StepKnows DEF Knows, Released
<1>4. /\ taps' = taps /\ owed' = owed /\ (glitch' => owed')
      /\ gap' = Capped(gap + step, MultiPress) /\ (pressed => apart' = gap)
      /\ (glitch /\ owed => glitch')
  <2>1. owed \in BOOLEAN
    BY DEF IInv, TypeOK
  <2> QED  BY <1>1, <1>3, <2>1, NoneEnds
<1>5. Owing'
  BY <1>1, <1>2, <1>4 DEF Counts, Owing
<1>6. Waiting'
  BY <1>2, <1>4, GapNumbers DEF Waiting
<1>7. ASSUME ~glitch' PROVE ~owed' /\ press_count' = 0 /\ (gap = MultiPress \/ taps = 0)
  <2>1. ~glitch
    BY <1>4, <1>7 DEF Counts, Owing
  <2>2. ~owed /\ (gap = MultiPress \/ taps = 0)
    BY <1>1, <2>1 DEF Counts, Tallied
  <2>3. press_count = 0
    BY <2>2, NoneCounted
  <2> QED  BY <1>1, <1>4, <2>2, <2>3
<1>8. Tallied'
  <2> SUFFICES ASSUME ~glitch' PROVE Tallied'
    BY DEF Tallied
  <2>1. CASE pressed
    <3>1. press_count' = IF apart' < MultiPress THEN taps' ELSE 0
      BY <1>4, <1>7, <2>1, GapNumbers
    <3> QED  BY <1>2, <2>1, <3>1 DEF Tallied
  <2>2. CASE ~pressed
    <3>1. ~owed' /\ (gap' = MultiPress \/ taps' = 0)
      BY <1>4, <1>7, GapNumbers
    <3> QED  BY <1>2, <2>2, <3>1 DEF Tallied
  <2> QED  BY <2>1, <2>2
<1> QED  BY <1>5, <1>6, <1>8 DEF Counts

\* A press that was noise: IDLE, and a glitch when presses are owed.
LEMMA DebouncePressCounts ==
    ASSUME IInv, Counts, NEW step \in 1 .. MaxStep, NEW pressed \in BOOLEAN,
           Sample(step, pressed), FromDebouncePress(pressed)
    PROVE  Counts'
<1>1. /\ state = "DEBOUNCE_PRESS" /\ level /\ ~down /\ ~told /\ event' = ""
      /\ press_count' = press_count /\ ~Released
  BY DEF FromDebouncePress, Quietly, Emit, IInv, Knows, Holds, Released
<1>2. /\ state' \in {"IDLE", "HELD", "DEBOUNCE_PRESS"}
      /\ pressed => state' # "IDLE"
      /\ state' # "HELD" => ~down'
      /\ state' = "IDLE" => ~pressed
  <2>1. /\ state' \in {"IDLE", "HELD", "DEBOUNCE_PRESS"}
        /\ pressed => state' # "IDLE"
        /\ state' = "IDLE" => ~pressed
    BY <1>1 DEF FromDebouncePress, Enter
  <2> QED  BY <2>1, StepKnows DEF Knows
<1>3. /\ taps' = taps /\ owed' = owed /\ (glitch' => owed') /\ apart' = apart
      /\ ~down' => gap' = Capped(gap + step, MultiPress)
      /\ glitch /\ owed => glitch'
      /\ owed /\ ~pressed => glitch'
  <2>1. owed \in BOOLEAN
    BY DEF IInv, TypeOK
  <2> QED  BY <1>1, <2>1, NoneEnds
<1>4. Owing'
  BY <1>1, <1>2, <1>3 DEF Counts, Owing
<1>5. apart <= gap
  BY <1>1 DEF Counts, Waiting
<1>6. Waiting'
  <2>1. state' = "DEBOUNCE_PRESS" => apart' <= gap'
    BY <1>2, <1>3, <1>5, GapNumbers
  <2> QED  BY <1>2, <2>1 DEF Waiting
<1>7. ASSUME ~glitch' PROVE press_count = IF apart < MultiPress THEN taps ELSE 0
  <2>1. ~glitch
    BY <1>3, <1>7 DEF Counts, Owing
  <2> QED  BY <1>1, <2>1 DEF Counts, Tallied
<1>8. ASSUME ~glitch', state' = "IDLE"
      PROVE  ~owed' /\ (gap' = MultiPress \/ taps' = 0)
  <2>1. ~owed /\ ~down'
    BY <1>2, <1>3, <1>8
  <2>2. press_count = 0
    BY <2>1, NoneCounted
  <2>3. taps = 0 \/ ~ (apart < MultiPress)
    BY <1>7, <1>8, <2>2
  <2>4. taps = 0 \/ gap' = MultiPress
    BY <1>3, <1>5, <2>1, <2>3, GapNumbers
  <2> QED  BY <1>3, <2>1, <2>4
<1>9. Tallied'
  BY <1>1, <1>2, <1>3, <1>7, <1>8 DEF Tallied
<1> QED  BY <1>4, <1>6, <1>9 DEF Counts

LEMMA HeldCounts ==
    ASSUME IInv, Counts, NEW step \in 1 .. MaxStep, NEW pressed \in BOOLEAN,
           Sample(step, pressed), FromHeld(pressed)
    PROVE  Counts'
<1>1. /\ state = "HELD" /\ level /\ down /\ press_count' = press_count
      /\ event' \in {"", "LONG"} /\ state' \in {"HELD", "DEBOUNCE_RELEASE"}
  BY DEF FromHeld, Quietly, Emit, Enter, IInv, Knows
<1>2. down' /\ ~Released
  BY <1>1, StepKnows DEF Knows, Released
<1>3. /\ taps' = taps /\ owed' = owed /\ (glitch' => owed') /\ apart' = apart
      /\ event' = "" /\ glitch /\ owed => glitch'
  <2>1. owed \in BOOLEAN
    BY DEF IInv, TypeOK
  <2> QED  BY <1>1, <1>2, <2>1, NoneEnds
<1>4. told' = (told \/ event' = "LONG")
  BY <1>2 DEF Sample, Counting
<1>5. Owing'
  BY <1>1, <1>3 DEF Counts, Owing
<1>6. Waiting'
  BY <1>1 DEF Waiting
<1>7. ASSUME ~glitch', ~told'
      PROVE  press_count' = IF apart' < MultiPress THEN taps' ELSE 0
  <2>1. event' = "" /\ ~told
    BY <1>1, <1>4, <1>7
  <2>2. ~glitch
    BY <1>3, <1>7, <2>1 DEF Counts, Owing
  <2>3. press_count = IF apart < MultiPress THEN taps ELSE 0
    BY <1>1, <2>1, <2>2 DEF Counts, Tallied
  <2> QED  BY <1>1, <1>3, <2>3
<1>8. Tallied'
  BY <1>1, <1>7 DEF Tallied
<1> QED  BY <1>5, <1>6, <1>8 DEF Counts

\* The end of a press: it counts unless LONG was emitted for it, and starts
\* the count anew when it came late.
LEMMA DebounceReleaseCounts ==
    ASSUME IInv, Counts, NEW step \in 1 .. MaxStep, NEW pressed \in BOOLEAN,
           Sample(step, pressed), FromDebounceRelease(pressed)
    PROVE  Counts'
<1>1. /\ state = "DEBOUNCE_RELEASE" /\ ~level /\ down /\ event' = ""
      /\ told = long_fired
  BY DEF FromDebounceRelease, Quietly, Emit, IInv, Knows, Holds
<1>2. Counting /\ Timing(step, pressed) /\ Minus(now', now') = 0
  BY PinTimes DEF Sample
<1>3. CASE state' \in {"HELD", "DEBOUNCE_RELEASE"}
  <2>1. down' /\ ~Released
    BY <1>3, StepKnows DEF Knows, Released
  <2>2. press_count' = press_count
    BY <1>3 DEF FromDebounceRelease, Enter, fsm
  <2>3. /\ taps' = taps /\ owed' = owed /\ (glitch' => owed') /\ apart' = apart
        /\ glitch /\ owed => glitch'
    <3>1. owed \in BOOLEAN
      BY DEF IInv, TypeOK
    <3> QED  BY <1>1, <2>1, <3>1, NoneEnds
  <2>4. told' => told
    <3>1. told' = (down' /\ (told \/ event' = "LONG"))
      BY <1>2 DEF Counting
    <3> QED  BY <1>1, <3>1
  <2>5. told => told'
    <3>1. told' = (down' /\ (told \/ event' = "LONG"))
      BY <1>2 DEF Counting
    <3> QED  BY <2>1, <3>1
  <2>6. Owing'
    BY <1>3, <2>2, <2>3 DEF Counts, Owing
  <2>7. Waiting'
    BY <1>3 DEF Waiting
  <2>8. ASSUME ~glitch', ~told'
        PROVE  press_count' = IF apart' < MultiPress THEN taps' ELSE 0
    <3>1. ~told /\ ~glitch
      BY <2>3, <2>5, <2>8 DEF Counts, Owing
    <3>2. press_count = IF apart < MultiPress THEN taps ELSE 0
      BY <1>1, <3>1 DEF Counts, Tallied
    <3> QED  BY <2>2, <2>3, <3>2
  <2>9. Tallied'
    BY <1>3, <2>8 DEF Tallied
  <2> QED  BY <2>6, <2>7, <2>9 DEF Counts
<1>4. CASE state' \notin {"HELD", "DEBOUNCE_RELEASE"}
  <2>1. \/ /\ told /\ press_count' = 0 /\ state' = "IDLE"
        \/ /\ ~told /\ press_count' = Capped(press_count + 1, 3)
           /\ state' = "INTER_PRESS" /\ state_enter' = now'
    BY <1>1, <1>4 DEF FromDebounceRelease, Enter, fsm
  <2>2. ~down' /\ Released
    BY <1>1, <2>1, StepKnows DEF Knows, Released
  <2>3. gap' = 0
    BY <1>1, <1>2 DEF Timing
  <2>4. owed' = ~told
    BY <1>2, <2>2 DEF Counting
  <2>5. glitch' => owed'
    BY <1>2 DEF Counting
  <2>6. taps' = IF told THEN 0
                ELSE IF apart < MultiPress THEN Capped(taps + 1, 3) ELSE 1
    BY <1>2, <2>2 DEF Counting
  <2>7. CASE told
    <3>1. press_count' = 0 /\ state' = "IDLE" /\ ~owed' /\ taps' = 0
      BY <2>1, <2>4, <2>6, <2>7
    <3>2. Owing'
      BY <2>5, <3>1 DEF Owing
    <3> QED  BY <3>1, <3>2 DEF Counts, Waiting, Tallied
  <2>8. CASE ~told
    <3>1. /\ press_count' = Capped(press_count + 1, 3) /\ owed'
          /\ state' = "INTER_PRESS" /\ state_enter' = now'
      BY <2>1, <2>4, <2>8
    <3>2. press_count' > 0
      <4>1. press_count \in 0 .. 3
        BY DEF IInv, TypeOK
      <4> QED  BY <3>1, <4>1 DEF Capped
    <3>3. Owing'
      BY <3>1, <3>2 DEF Owing
    <3>4. Waiting'
      BY <1>2, <2>3, <3>1, GapNumbers DEF Waiting
    <3>5. glitch => glitch'
      BY <1>1, <1>2, <3>1 DEF Counting
    <3>6. ASSUME ~glitch' PROVE press_count' = taps'
      <4>1. press_count = IF apart < MultiPress THEN taps ELSE 0
        BY <1>1, <2>8, <3>5, <3>6 DEF Counts, Tallied
      <4>2. Capped(0 + 1, 3) = 1
        BY DEF Capped
      <4>3. CASE apart < MultiPress
        BY <2>6, <2>8, <3>1, <4>1, <4>3
      <4>4. CASE ~ (apart < MultiPress)
        <5>1. press_count = 0 /\ taps' = 1
          BY <2>6, <2>8, <4>1, <4>4
        <5> QED  BY <3>1, <4>2, <5>1
      <4> QED  BY <4>3, <4>4
    <3>7. Tallied'
      BY <3>1, <3>6 DEF Tallied
    <3> QED  BY <3>3, <3>4, <3>7 DEF Counts
  <2> QED  BY <2>7, <2>8
<1> QED  BY <1>3, <1>4

\* The end of the window: the count is reported when nothing came within it.
LEMMA InterPressCounts ==
    ASSUME IInv, Counts, NEW step \in 1 .. MaxStep, NEW pressed \in BOOLEAN,
           Sample(step, pressed), FromInterPress(pressed)
    PROVE  Counts'
<1>1. /\ state = "INTER_PRESS" /\ ~level /\ ~down /\ gap < MultiPress
      /\ (~glitch => press_count = taps)
  BY DEF FromInterPress, IInv, Knows, Counts, Waiting, Tallied
<1>2. now' = Plus(now, step) /\ In_state = gap + step
  BY <1>1, InterTimer DEF Sample
<1>3. state' \in {"DEBOUNCE_PRESS", "IDLE", "INTER_PRESS"}
  BY <1>1 DEF FromInterPress, Enter
<1>4. ~down' /\ ~Released
  BY <1>1, <1>3, StepKnows DEF Knows, Released
<1>5. /\ taps' = taps /\ owed' = (owed /\ event' \notin {"SINGLE", "DOUBLE"})
      /\ gap' = Capped(gap + step, MultiPress) /\ (pressed => apart' = gap)
      /\ (glitch' => owed') /\ (event' = "" /\ glitch /\ owed => glitch')
  BY <1>1, <1>4, NoneEnds
<1>6. CASE pressed
  <2>1. /\ state' = "DEBOUNCE_PRESS" /\ event' = "" /\ press_count' = press_count
    BY <1>1, <1>6 DEF FromInterPress, Enter, Quietly, Emit
  <2>2. owed' = owed
    <3>1. owed \in BOOLEAN
      BY DEF IInv, TypeOK
    <3> QED  BY <1>5, <2>1, <3>1
  <2>3. Owing'
    BY <1>5, <2>1, <2>2 DEF Counts, Owing
  <2>4. Waiting'
    BY <1>5, <1>6, <2>1, GapNumbers DEF Waiting
  <2>5. ASSUME ~glitch'
        PROVE  press_count' = IF apart' < MultiPress THEN taps' ELSE 0
    <3>1. ~glitch
      BY <1>5, <2>1, <2>5 DEF Counts, Owing
    <3> QED  BY <1>1, <1>5, <1>6, <2>1, <3>1
  <2>6. Tallied'
    BY <2>1, <2>5 DEF Tallied
  <2> QED  BY <2>3, <2>4, <2>6 DEF Counts
<1>7. CASE ~pressed /\ In_state >= MultiPress
  <2>1. ~ (In_state < MultiPress)
    BY <1>2, <1>7, GapNumbers
  <2>2. /\ state' = "IDLE" /\ event' \in {"SINGLE", "DOUBLE"} /\ press_count' = 0
    BY <1>1, <1>7, <2>1 DEF FromInterPress, Emit
  <2>3. ~owed' /\ ~glitch'
    BY <1>5, <2>2
  <2>4. gap' = MultiPress
    BY <1>2, <1>5, <1>7, GapNumbers
  <2>5. Owing'
    BY <2>2, <2>3 DEF Owing
  <2> QED  BY <2>2, <2>3, <2>4, <2>5 DEF Counts, Waiting, Tallied
<1>8. CASE ~pressed /\ ~ (In_state >= MultiPress)
  <2>1. In_state < MultiPress
    BY <1>2, <1>8, GapNumbers
  <2>2. /\ state' = "INTER_PRESS" /\ state_enter' = state_enter /\ event' = ""
        /\ press_count' = press_count
    BY <1>1, <1>8 DEF FromInterPress, Quietly, Emit
  <2>3. owed' = owed
    <3>1. owed \in BOOLEAN
      BY DEF IInv, TypeOK
    <3> QED  BY <1>5, <2>2, <3>1
  <2>4. Owing'
    BY <1>1, <1>5, <2>2, <2>3 DEF Counts, Owing
  <2>5. gap' = gap + step /\ gap' < MultiPress
    BY <1>2, <1>5, <2>1, GapNumbers
  <2>6. Minus(now', state_enter') = gap'
    BY <1>2, <2>2, <2>5 DEF In_state
  <2>7. Waiting'
    BY <2>2, <2>5, <2>6 DEF Waiting
  <2>8. ~glitch' => press_count' = taps'
    BY <1>1, <1>5, <2>2, <2>3 DEF Counts, Owing
  <2>9. Tallied'
    BY <2>2, <2>8 DEF Tallied
  <2> QED  BY <2>4, <2>7, <2>9 DEF Counts
<1> QED  BY <1>6, <1>7, <1>8

LEMMA CountsInvariant == Spec => []Counts
<1>1. IInv /\ Counts /\ [Poll]_vars => Counts'
  <2>1. ASSUME IInv, Counts, Poll PROVE Counts'
    <3>1. PICK step \in 1 .. MaxStep, pressed \in BOOLEAN : Sample(step, pressed)
      BY <2>1 DEF Poll
    <3> QED  BY <2>1, <3>1, IdleCounts, DebouncePressCounts, HeldCounts,
                DebounceReleaseCounts, InterPressCounts DEF Sample
  <2>2. ASSUME Counts, UNCHANGED vars PROVE Counts'
    <3>1. /\ UNCHANGED <<now, state, state_enter, press_count>>
          /\ UNCHANGED <<gap, apart, taps, told, owed, glitch>>
      BY <2>2 DEF vars, fsm, gesture
    <3> QED  BY <2>2, <3>1 DEF Counts, Owing, Waiting, Tallied
  <2> QED  BY <2>1, <2>2
<1> QED  BY InitCounts, <1>1, ButtonInvariant, PTL DEF Spec

\* FR-10.3 for every multi-press time, sampling interval and width of the tick
\* count: a short press is reported when the window has gone by, unless a
\* glitch came in between.
THEOREM PressIsReported == Spec => []PressReported
<1>1. IInv /\ Counts => PressReported
  <2> SUFFICES ASSUME IInv, Counts, owed, ~glitch, ~level, ~down
               PROVE  gap < MultiPress
    BY DEF PressReported
  <2>1. state \in {"IDLE", "INTER_PRESS"}
    BY DEF IInv, TypeOK, States, Knows
  <2> QED  BY <2>1 DEF Counts, Waiting, Tallied
<1> QED  BY ButtonInvariant, CountsInvariant, <1>1, PTL

\* FR-10.3 for every multi-press time, sampling interval and width of the tick
\* count: DOUBLE is emitted for exactly two presses close to each other, and of
\* one press or two only one gives SINGLE, unless a glitch came between. It says
\* nothing of three or more, which FR-10.3 does not want reported as SINGLE.
THEOREM CountIsTaps == Spec => CountTellsTaps
<1> DEFINE Tells == Sampled /\ ~glitch =>
                        /\ event' = "DOUBLE" => taps = 2
                        /\ event' = "SINGLE" /\ taps <= 2 => taps = 1
<1>1. IInv /\ Counts /\ [Poll]_vars => [Tells]_vars
  <2> SUFFICES ASSUME IInv, Counts, Poll, ~glitch, event' \in {"SINGLE", "DOUBLE"}
               PROVE  /\ event' = "DOUBLE" => taps = 2
                      /\ event' = "SINGLE" /\ taps <= 2 => taps = 1
    OBVIOUS
  <2>1. PICK step \in 1 .. MaxStep, pressed \in BOOLEAN : Sample(step, pressed)
    BY DEF Poll
  <2>2. FromInterPress(pressed)
    BY <2>1 DEF Sample, FromIdle, FromDebouncePress, FromDebounceRelease,
                FromHeld, Quietly, Emit
  <2>3. press_count = taps /\ press_count > 0
    BY <2>2 DEF FromInterPress, Counts, Tallied, Owing
  <2>4. event' = IF press_count = 2 THEN "DOUBLE" ELSE "SINGLE"
    BY <2>2 DEF FromInterPress, Quietly, Emit
  <2>5. taps \in 0 .. 3
    BY DEF IInv, TypeOK
  <2> QED  BY <2>3, <2>4, <2>5
<1>2. Spec => [][Tells]_vars
  BY ButtonInvariant, CountsInvariant, <1>1, PTL DEF Spec
<1> QED  BY <1>2 DEF CountTellsTaps
=============================================================================
