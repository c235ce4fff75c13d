------------------------------- MODULE Ticks -------------------------------
(* The tick count of FreeRTOS, an unsigned number that wraps around, and the *)
(* arithmetic of TickType_t.                                                *)
EXTENDS Integers

CONSTANT Wrap       \* the number of tick counts, 2^32
VARIABLE now        \* xTaskGetTickCount()

ASSUME WrapAssumption == Wrap \in Nat \ {0} /\ Wrap % 2 = 0

TickType == 0 .. Wrap - 1
Half == Wrap \div 2

Plus(a, b) == (a + b) % Wrap
Minus(a, b) == (a - b) % Wrap

\* The cast of a difference to int32_t.
Signed(n) == IF n < Half THEN n ELSE n - Wrap
=============================================================================
