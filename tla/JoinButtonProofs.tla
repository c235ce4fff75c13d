-------------------------- MODULE JoinButtonProofs --------------------------
(***************************************************************************)
(* Proofs about JoinButton: for every tick rate, duration and width of the *)
(* tick count, the time to live the hub shows is that of the window in the *)
(* coprocessor.                                                            *)
(***************************************************************************)
EXTENDS JoinButton, TLAPS

-----------------------------------------------------------------------------
(* Tick arithmetic *)

Numbers ==
    /\ Wrap \in Nat /\ Half \in Nat /\ Half > 0 /\ Wrap = 2 * Half
    /\ Forever = Wrap - 1 /\ Hz \in Nat /\ Hz > 0
    /\ MaxStep \in Nat /\ MaxStep > 0 /\ Always \notin Nat
    /\ BusDepth \in Nat /\ CmdDepth \in Nat

LEMMA Bounds == Numbers
  BY WrapAssumption, WindowAssumption, JoinAssumption DEF Numbers, Half, Forever

LEMMA ModOnce ==
    ASSUME NEW n \in Int
    PROVE  /\ n \in TickType => n % Wrap = n
           /\ n \in Wrap .. 2 * Wrap - 1 => n % Wrap = n - Wrap
           /\ n \in -Wrap .. -1 => n % Wrap = n + Wrap
  BY WrapAssumption DEF TickType

\* A count is in front of another by the signed difference of the two, as long
\* as that is less than half the counts, and time takes from it what goes by.
Ahead(a, b) == Signed(Minus(a, b))

LEMMA AheadRange ==
    ASSUME NEW a \in TickType, NEW b \in TickType
    PROVE  Ahead(a, b) \in -Half .. Half - 1
  BY Bounds, ModOnce DEF Numbers, TickType, Ahead, Signed, Minus

LEMMA AheadPasses ==
    ASSUME NEW a \in TickType, NEW b \in TickType, NEW s \in Nat,
           s <= Half, Ahead(a, b) - s >= -Half
    PROVE  Plus(b, s) \in TickType /\ Ahead(a, Plus(b, s)) = Ahead(a, b) - s
  BY Bounds, ModOnce DEF Numbers, TickType, Ahead, Signed, Minus, Plus

LEMMA DeadlineAhead ==
    ASSUME now \in TickType, NEW t \in Nat, t > 0, t < Half
    PROVE  /\ DeadlineAfter(t) \in TickType /\ DeadlineAfter(t) # Forever
           /\ Ahead(DeadlineAfter(t), now) \in {t, t - 1}
  BY Bounds, ModOnce DEF Numbers, TickType, Ahead, Signed, Minus, Plus, DeadlineAfter

LEMMA DurationTicks ==
    ASSUME NEW d \in Durations
    PROVE  /\ d \in Nat /\ d * Hz \in Nat /\ d * Hz < Half
           /\ d # 0 => d * Hz > 0
  BY Bounds, WindowAssumption DEF Numbers

LEMMA DivideTicks ==
    ASSUME NEW n \in Nat
    PROVE  /\ n \div Hz \in Nat
           /\ n > 0 => (n - 1) \div Hz \in 0 .. n \div Hz
  BY Bounds DEF Numbers

-----------------------------------------------------------------------------
(* The inductive invariant *)

\* While the coprocessor has what was last asked for, the deadline is the end
\* of its window, or its start once it has passed; it may be a tick short.
DeadlineTellsWindow ==
    age < Half /\ ~refused =>
        \/ open = Always /\ deadline = Forever
        \/ open # Always /\ deadline = 0
        \/ /\ open \in Nat /\ deadline # Forever
           /\ open > 0 => Ahead(deadline, now) \in {open, open - 1}
           /\ open = 0 => Ahead(deadline, now) \in -age .. 0

IInv == TypeOK /\ DeadlineTellsWindow

LEMMA InitIInv == Init => IInv
<1> SUFFICES ASSUME Init PROVE IInv
  OBVIOUS
<1>1. WindowTypeOK
  <2>1. deadline = 0 /\ open = 0 /\ age = 0 /\ refused = FALSE
    BY DEF Init, WindowInit
  <2>2. 0 \in 0 .. Half /\ 0 \in 0 .. Forever
    BY Bounds DEF Numbers
  <2> QED  BY <2>1, <2>2 DEF WindowTypeOK
<1>2. /\ bus \in Seq([kind : Kinds, followed : BOOLEAN]) /\ Len(bus) <= BusDepth
      /\ cmds \in Seq([kind : Orders, followed : BOOLEAN]) /\ Len(cmds) <= CmdDepth
  BY Bounds DEF Numbers, Init
<1>3. TypeOK
  BY <1>1, <1>2 DEF Init, TypeOK
<1>4. DeadlineTellsWindow
  <2>1. open = 0 /\ deadline = 0
    BY DEF Init, WindowInit
  <2> QED  BY <2>1, Bounds DEF Numbers, DeadlineTellsWindow
<1> QED  BY <1>3, <1>4 DEF IInv

LEMMA PermitJoinStep ==
    ASSUME IInv, NEW d \in Durations \cup {Always}, PermitJoin(d), now' = now
    PROVE  WindowTypeOK' /\ DeadlineTellsWindow'
<1>0. now \in TickType /\ WindowTypeOK /\ age' = 0 /\ SetDeadline(d)
  BY DEF IInv, TypeOK, PermitJoin
<1>1. CASE d = Always
  <2>1. deadline' = Forever /\ (open' = Always \/ (refused' = TRUE /\ open' = open))
        /\ refused' \in BOOLEAN
    BY <1>0, <1>1 DEF PermitJoin, SetDeadline
  <2>2. Forever \in 0 .. Forever /\ 0 \in 0 .. Half
    BY Bounds DEF Numbers
  <2>3. WindowTypeOK'
    BY <1>0, <2>1, <2>2 DEF WindowTypeOK
  <2> QED  BY <2>1, <2>3 DEF DeadlineTellsWindow
<1>2. CASE d # Always /\ d = 0
  <2>1. deadline' = 0 /\ (open' = d * Hz \/ (refused' = TRUE /\ open' = open))
        /\ refused' \in BOOLEAN
    BY <1>0, <1>2 DEF PermitJoin, SetDeadline
  <2>2. d * Hz = 0 /\ 0 \in 0 .. Half /\ 0 \in 0 .. Forever /\ 0 # Always
    BY <1>2, Bounds DEF Numbers
  <2>3. WindowTypeOK'
    BY <1>0, <2>1, <2>2 DEF WindowTypeOK
  <2> QED  BY <2>1, <2>2, <2>3 DEF DeadlineTellsWindow
<1>3. CASE d # Always /\ d # 0
  <2> DEFINE t == d * Hz
  <2>1. t \in Nat /\ t > 0 /\ t < Half
    BY <1>3, DurationTicks
  <2>2. /\ deadline' = DeadlineAfter(t) /\ refused' \in BOOLEAN
        /\ open' = t \/ (refused' = TRUE /\ open' = open)
    BY <1>0, <1>3 DEF PermitJoin, SetDeadline
  <2> HIDE DEF t
  <2>3. deadline' \in TickType /\ deadline' # Forever
        /\ Ahead(deadline', now') \in {t, t - 1}
    BY <1>0, <2>1, <2>2, DeadlineAhead
  <2>4. deadline' \in 0 .. Forever /\ t \in 0 .. Half /\ 0 \in 0 .. Half
        /\ t # Always
    BY <2>1, <2>3, Bounds DEF Numbers, TickType
  <2>5. WindowTypeOK'
    BY <1>0, <2>2, <2>4 DEF WindowTypeOK
  <2> QED  BY <2>1, <2>2, <2>3, <2>4, <2>5 DEF DeadlineTellsWindow
<1> QED  BY <1>1, <1>2, <1>3

LEMMA PassStep ==
    ASSUME IInv, NEW step \in 1 .. MaxStep, Pass(step), now' = Plus(now, step)
    PROVE  WindowTypeOK' /\ DeadlineTellsWindow' /\ now' \in TickType
<1>0. /\ now \in TickType /\ deadline \in 0 .. Forever /\ refused \in BOOLEAN
      /\ open \in 0 .. Half \cup {Always} /\ age \in 0 .. Half
      /\ deadline' = deadline /\ refused' = refused
      /\ open' = IF open = Always THEN Always
                 ELSE IF open > step THEN open - step ELSE 0
      /\ age' = IF age + step > Half THEN Half ELSE age + step
  BY DEF IInv, TypeOK, WindowTypeOK, Pass
<1>1. /\ step \in Nat /\ step > 0 /\ age \in Nat /\ Half \in Nat
      /\ deadline \in TickType /\ Always \notin Nat
      /\ 0 \in 0 .. Half
  BY <1>0, Bounds DEF Numbers, TickType
<1>2. now' \in TickType
  BY <1>0, <1>1, Bounds, ModOnce DEF Numbers, TickType, Plus
<1>3. age' \in 0 .. Half
  BY <1>0, <1>1
<1>4. open' \in 0 .. Half \cup {Always}
  BY <1>0, <1>1
<1>5. WindowTypeOK'
  BY <1>0, <1>3, <1>4 DEF WindowTypeOK
<1>6. DeadlineTellsWindow'
  <2> SUFFICES ASSUME age' < Half, ~refused' PROVE DeadlineTellsWindow'
    BY DEF DeadlineTellsWindow
  <2>1. age' = age + step /\ age < Half /\ step < Half /\ ~refused
    BY <1>0, <1>1
  <2>2. CASE open = Always /\ deadline = Forever
    BY <1>0, <2>2 DEF DeadlineTellsWindow
  <2>3. CASE open # Always /\ deadline = 0
    <3>1. open' # Always /\ deadline' = 0
      BY <1>0, <1>1, <2>3
    <3> QED  BY <3>1 DEF DeadlineTellsWindow
  <2>4. CASE /\ open \in Nat /\ deadline # Forever
             /\ open > 0 => Ahead(deadline, now) \in {open, open - 1}
             /\ open = 0 => Ahead(deadline, now) \in -age .. 0
    <3> DEFINE r == Ahead(deadline, now)
    <3>1. r \in Int /\ r >= -age
      BY <1>1, <2>4
    <3>2. r - step >= -Half /\ step <= Half
      BY <1>1, <2>1, <3>1
    <3>3. Ahead(deadline, now') = r - step
      BY <1>0, <1>1, <3>2, AheadPasses
    <3> HIDE DEF r
    <3>4. (open > 0 => r \in {open, open - 1}) /\ (open = 0 => r \in -age .. 0)
      BY <2>4 DEF r
    <3>5. CASE open > step
      <4>1. open' = open - step /\ open' \in Nat /\ open' > 0
        BY <1>0, <1>1, <2>4, <3>5
      <4>2. r - step \in {open', open' - 1}
        BY <1>1, <2>4, <3>4, <3>5, <4>1
      <4> QED  BY <1>0, <2>4, <3>3, <4>1, <4>2 DEF DeadlineTellsWindow
    <3>6. CASE ~ (open > step)
      <4>1. open' = 0 /\ open' \in Nat
        BY <1>0, <1>1, <2>4, <3>6
      <4>2. r - step \in -age' .. 0
        BY <1>1, <2>1, <2>4, <3>1, <3>4, <3>6
      <4> QED  BY <1>0, <2>4, <3>3, <4>1, <4>2 DEF DeadlineTellsWindow
    <3> QED  BY <3>5, <3>6
  <2> QED  BY <2>1, <2>2, <2>3, <2>4 DEF IInv, DeadlineTellsWindow
<1> QED  BY <1>2, <1>5, <1>6

LEMMA CloseStep ==
    ASSUME CloseWindow
    PROVE  WindowTypeOK' /\ DeadlineTellsWindow'
<1>1. deadline' = 0 /\ open' = 0 /\ age' = 0 /\ refused' = FALSE
  BY DEF CloseWindow
<1>2. 0 \in 0 .. Half /\ 0 \in 0 .. Forever /\ 0 # Always
  BY Bounds DEF Numbers
<1> QED  BY <1>1, <1>2 DEF WindowTypeOK, DeadlineTellsWindow

\* The queues stay within their depths.
Events == [kind : Kinds, followed : BOOLEAN]
Commands == [kind : Orders, followed : BOOLEAN]
Fates == {"none", "wanted", "opened", "refused", "dropped", "ignored"}

LEMMA QueueTypes ==
    ASSUME IInv, Next
    PROVE  /\ phase' \in {"down", "drain", "wait"}
           /\ calling' \in {"none", "other", "followed"} /\ fate' \in Fates
           /\ bus' \in Seq(Events) /\ Len(bus') <= BusDepth
           /\ cmds' \in Seq(Commands) /\ Len(cmds') <= CmdDepth
<1>1. /\ phase \in {"down", "drain", "wait"}
      /\ calling \in {"none", "other", "followed"} /\ fate \in Fates
      /\ bus \in Seq(Events) /\ Len(bus) <= BusDepth
      /\ cmds \in Seq(Commands) /\ Len(cmds) <= CmdDepth
  BY DEF IInv, TypeOK, Events, Commands, Fates
<1>2. BusDepth \in Nat /\ CmdDepth \in Nat
  BY Bounds DEF Numbers
<1>3. ASSUME NEW c \in Commands, Enqueue(c)
      PROVE  cmds' \in Seq(Commands) /\ Len(cmds') <= CmdDepth
  BY <1>1, <1>2, <1>3 DEF Enqueue
<1>4. CASE Tick
  BY <1>1, <1>4 DEF Tick
<1>5. ASSUME NEW kind \in Kinds, Press(kind)
      PROVE  /\ bus' \in Seq(Events) /\ Len(bus') <= BusDepth /\ fate' \in Fates
             /\ phase' = phase /\ calling' = calling /\ cmds' = cmds
  <2>1. Item(kind, TRUE) \in Events /\ Item(kind, FALSE) \in Events
    BY DEF Item, Events
  <2>2. \/ bus' = bus
        \/ Len(bus) < BusDepth /\ \E e \in Events : bus' = Append(bus, e)
    BY <1>5, <2>1 DEF Press
  <2>3. fate' \in Fates
    BY <1>1, <1>5 DEF Press, Fates
  <2>4. phase' = phase /\ calling' = calling /\ cmds' = cmds
    BY <1>5 DEF Press
  <2>5. bus' \in Seq(Events) /\ Len(bus') <= BusDepth
    BY <1>1, <1>2, <2>2
  <2> QED  BY <2>3, <2>4, <2>5
<1>6. CASE Handle
  <2>1. bus' \in Seq(Events) /\ Len(bus') <= BusDepth
    BY <1>1, <1>2, <1>6 DEF Handle
  <2>2. calling' \in {"none", "other", "followed"} /\ fate' \in Fates
    BY <1>1, <1>6 DEF Handle, Fates
  <2>3. phase' = phase /\ cmds' = cmds
    BY <1>6 DEF Handle
  <2> QED  BY <1>1, <2>1, <2>2, <2>3
<1>7. CASE Permit
  <2>1. Item(PressDuration, calling = "followed") \in Commands
    BY JoinAssumption DEF Item, Commands, Orders
  <2>2. Enqueue(Item(PressDuration, calling = "followed"))
    BY <1>7 DEF Permit
  <2>3. cmds' \in Seq(Commands) /\ Len(cmds') <= CmdDepth
    BY <1>3, <2>1, <2>2
  <2>4. calling' = "none" /\ fate' \in Fates /\ phase' = phase /\ bus' = bus
    BY <1>1, <1>7 DEF Permit, Fates
  <2> QED  BY <1>1, <2>3, <2>4
<1>8. CASE AppCommands
  <2>1. PICK c \in Orders : Enqueue(Item(c, FALSE))
    BY <1>8 DEF AppCommands
  <2>2. Item(c, FALSE) \in Commands
    BY DEF Item, Commands
  <2>3. cmds' \in Seq(Commands) /\ Len(cmds') <= CmdDepth
    BY <1>3, <2>1, <2>2
  <2> QED  BY <1>1, <1>8, <2>3 DEF AppCommands
<1>9. CASE Run
  <2>1. cmds' \in Seq(Commands) /\ Len(cmds') <= CmdDepth
    BY <1>1, <1>2, <1>9 DEF Run
  <2>2. phase' \in {"down", "drain", "wait"} /\ bus' = bus /\ calling' = calling
    BY <1>1, <1>9 DEF Run
  <2>3. fate' \in Fates
    BY <1>1, <1>9 DEF Run, Fates
  <2> QED  BY <1>1, <2>1, <2>2, <2>3
<1>10. CASE Wait \/ Leave \/ Reach
  BY <1>1, <1>10 DEF Wait, Leave, Reach
<1> QED  BY <1>1, <1>4, <1>5, <1>6, <1>7, <1>8, <1>9, <1>10 DEF Next

LEMMA WindowStep ==
    ASSUME IInv, Next
    PROVE  now' \in TickType /\ WindowTypeOK' /\ DeadlineTellsWindow'
<1>1. now \in TickType /\ WindowTypeOK /\ DeadlineTellsWindow
  BY DEF IInv, TypeOK
<1>2. CASE Tick
  <2>1. PICK step \in 1 .. MaxStep : now' = Plus(now, step) /\ Pass(step)
    BY <1>2 DEF Tick
  <2> QED  BY <2>1, PassStep
<1>3. CASE Run
  <2>1. now' = now /\ cmds # <<>> /\ cmds \in Seq(Commands)
    BY <1>3 DEF Run, IInv, TypeOK, Commands
  <2>2. Head(cmds) \in Commands
    BY <2>1
  <2>3. \/ CloseWindow
        \/ Head(cmds).kind # Reinit /\ PermitJoin(Head(cmds).kind)
    BY <1>3 DEF Run
  <2>4. Head(cmds).kind \in Orders
    BY <2>2 DEF Commands
  <2>5. CASE CloseWindow
    BY <1>1, <2>1, <2>5, CloseStep
  <2>6. CASE Head(cmds).kind # Reinit /\ PermitJoin(Head(cmds).kind)
    <3>1. Head(cmds).kind \in Durations \cup {Always}
      BY <2>4, <2>6 DEF Orders
    <3> QED  BY <1>1, <2>1, <2>6, <3>1, PermitJoinStep
  <2> QED  BY <2>3, <2>5, <2>6
<1>4. CASE Leave
  BY <1>1, <1>4, CloseStep DEF Leave
<1>5. CASE UNCHANGED <<now, windowVars>>
  BY <1>1, <1>5 DEF windowVars, WindowTypeOK, DeadlineTellsWindow, Ahead, Minus
<1> QED
  BY <1>2, <1>3, <1>4, <1>5 DEF Next, Press, Handle, Permit, AppCommands, Wait, Reach

\* The deadline is ahead of the tick count by what the window has left, as long
\* as less than half a turn of the count has passed since it closed.
THEOREM JoinInvariant == Spec => []IInv
<1>1. ASSUME IInv, Next PROVE IInv'
  BY <1>1, QueueTypes, WindowStep DEF IInv, TypeOK, Events, Commands, Fates
<1>2. IInv /\ UNCHANGED vars => IInv'
  BY DEF vars, windowVars, IInv, TypeOK, WindowTypeOK, DeadlineTellsWindow, Ahead,
         Minus
<1> QED  BY InitIInv, <1>1, <1>2, PTL DEF Spec

\* The deadline stays a tick count and both queues stay within their depths.
THEOREM TypeCorrect == Spec => []TypeOK
<1>1. IInv => TypeOK
  BY DEF IInv
<1> QED  BY JoinInvariant, <1>1, PTL

\* FR-11.6 for every tick rate, duration and width of the tick count.
THEOREM TtlIsWindows == Spec => []TtlTellsWindow
<1>1. IInv => TtlTellsWindow
  <2> SUFFICES ASSUME IInv, age < Half, ~refused
               PROVE  IF open = Always THEN Permit_join_ttl = Always
                      ELSE /\ Permit_join_ttl \in 0 .. open \div Hz
                           /\ deadline # 0 /\ open > 0
                                => Permit_join_ttl >= (open - 1) \div Hz
    BY DEF TtlTellsWindow
  <2>1. open \in 0 .. Half \cup {Always} /\ DeadlineTellsWindow
    BY DEF IInv, TypeOK, WindowTypeOK
  <2>2. CASE open = Always /\ deadline = Forever
    BY <2>2, Bounds DEF Numbers, Permit_join_ttl
  <2>3. CASE open # Always /\ deadline = 0
    <3>1. open \in Nat /\ open \div Hz \in Nat
      BY <2>1, <2>3, DivideTicks, Bounds DEF Numbers
    <3> QED  BY <2>3, <3>1 DEF Permit_join_ttl
  <2>4. CASE /\ open \in Nat /\ deadline # Forever /\ deadline # 0
             /\ open > 0 => Ahead(deadline, now) \in {open, open - 1}
             /\ open = 0 => Ahead(deadline, now) \in -age .. 0
    <3> DEFINE r == Ahead(deadline, now)
    <3>1. Permit_join_ttl = IF r <= 0 THEN 0 ELSE r \div Hz
      BY <2>4 DEF Permit_join_ttl, Remaining, Ahead
    <3> HIDE DEF r
    <3>2. CASE open = 0
      <4>1. r <= 0
        BY <2>4, <3>2 DEF r
      <4> QED  BY <2>4, <3>1, <3>2, <4>1, DivideTicks, Bounds DEF Numbers
    <3>3. CASE open > 0 /\ r = open
      BY <2>4, <3>1, <3>3, DivideTicks, Bounds DEF Numbers
    <3>4. CASE open > 0 /\ r = open - 1
      BY <2>4, <3>1, <3>4, DivideTicks, Bounds DEF Numbers
    <3> QED  BY <2>4, <3>2, <3>3, <3>4 DEF r
  <2>5. open \in Nat => open # Always
    BY Bounds DEF Numbers
  <2> QED  BY <2>1, <2>2, <2>3, <2>4, <2>5 DEF DeadlineTellsWindow
<1> QED  BY JoinInvariant, <1>1, PTL
=============================================================================
