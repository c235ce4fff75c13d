---------------------------- MODULE ZbJoinWindow ----------------------------
(***************************************************************************)
(* The join window: the deadline process_cmd() keeps of it                 *)
(* (zb_framework.c), the time to live that zb_network_info_get() derives,  *)
(* and the window itself, in the coprocessor.                              *)
(***************************************************************************)
EXTENDS Ticks

CONSTANTS
    Hz,             \* configTICK_RATE_HZ
    Durations,      \* durations, in seconds
    Always          \* the duration 0xFF

VARIABLES
    deadline,       \* s_permit_join_deadline
    open,           \* ticks that the window stays open, or Always
    age,            \* ticks since it was last set, counted up to Half
    refused         \* the coprocessor did not take the last request

windowVars == <<deadline, open, age, refused>>

Forever == Wrap - 1     \* UINT32_MAX

ASSUME WindowAssumption ==
    /\ Hz \in Nat \ {0} /\ Durations \subseteq Nat
    /\ Always \notin Nat
    /\ \A d \in Durations : d * Hz < Half

-----------------------------------------------------------------------------
(* process_cmd() *)

\* A bug: the sentinel for a window without an end is not avoided.
DeadlineAfterPlain(ticks) == Plus(now, ticks)

\* A sum that is the sentinel is one less.
DeadlineAfter(ticks) ==
    LET sum == Plus(now, ticks)
    IN  IF sum = Forever THEN sum - 1 ELSE sum

SetDeadline(d) ==
    deadline' = IF d = Always THEN Forever ELSE IF d = 0 THEN 0
                ELSE DeadlineAfter(d * Hz)

\* ZB_CMD_PERMIT_JOIN. What zb_net_permit_join() returns is not looked at.
PermitJoin(d) ==
    /\ \/ /\ open' = IF d = Always THEN Always ELSE d * Hz
          /\ refused' = FALSE
       \/ /\ refused' = TRUE
          /\ UNCHANGED open
    /\ SetDeadline(d)
    /\ age' = 0

\* The hub leaves READY, and the coprocessor is reset.
CloseWindow ==
    /\ deadline' = 0
    /\ open' = 0 /\ age' = 0 /\ refused' = FALSE

\* The window as time goes by.
Pass(step) ==
    /\ open' = IF open = Always THEN Always
               ELSE IF open > step THEN open - step ELSE 0
    /\ age' = IF age + step > Half THEN Half ELSE age + step
    /\ UNCHANGED <<deadline, refused>>

-----------------------------------------------------------------------------
(* zb_network_info_get() *)

Remaining == Signed(Minus(deadline, now))

Permit_join_ttl ==
    IF deadline = 0 THEN 0
    ELSE IF deadline = Forever THEN Always
    ELSE IF Remaining <= 0 THEN 0 ELSE Remaining \div Hz

WindowInit ==
    /\ deadline = 0 /\ open = 0 /\ age = 0 /\ refused = FALSE

-----------------------------------------------------------------------------
(* Properties *)

WindowTypeOK ==
    /\ deadline \in 0 .. Forever
    /\ open \in 0 .. Half \cup {Always}
    /\ age \in 0 .. Half /\ refused \in BOOLEAN

\* FR-11.6: for as long as half the tick counts after it was set, the time to
\* live is that of the window, to a tick less, wherever the count wraps. A
\* deadline whose sum is 0 reads as closed, so that it may be too short but
\* never tells of a window that is shut.
TtlTellsWindow ==
    age < Half /\ ~refused =>
        IF open = Always THEN Permit_join_ttl = Always
        ELSE /\ Permit_join_ttl \in 0 .. open \div Hz
             /\ deadline # 0 /\ open > 0 => Permit_join_ttl >= (open - 1) \div Hz
=============================================================================
