--------------------------- MODULE CuentaRegresiva ---------------------------
(***************************************************************************)
(* What the shut-off timer promises, without the registers that implement  *)
(* it.  Orders come first in each turn and set it or cancel it; then it    *)
(* may count one second down, and the second it ends on is the one that    *)
(* closes the low valve.  No other step of a turn moves it.  gas may       *)
(* otherwise come and go: the timer does not own the valve.                *)
(***************************************************************************)
EXTENDS Integers

CONSTANTS PorMinuto,        \* seconds in a minute
          PrimerMinuto,     \* seconds that the first one may last
          Ajustes           \* minutes the timer may be set to

VARIABLES fase,             \* "ordenes" while orders are taken, then "pasada"
          restan,           \* seconds left, 0 when no timer runs
          gas               \* the low valve is open

Init == fase = "ordenes" /\ restan = 0 /\ gas = FALSE

\* The minute under way, which may be partly spent, counts as the first.
Fijar ==
  /\ fase = "ordenes" /\ UNCHANGED fase
  /\ \E v \in Ajustes, s \in 1..PrimerMinuto : restan' = (v - 1) * PorMinuto + s
  /\ gas' \in BOOLEAN

\* A negative setting.
Anular ==
  /\ fase = "ordenes" /\ UNCHANGED fase
  /\ restan' = 0
  /\ gas' \in BOOLEAN

\* An order to stop, or a restart.
Parar ==
  /\ restan' = 0 /\ ~gas'
  /\ fase' \in {"ordenes", "pasada"}

Contar ==
  /\ fase = "pasada" /\ fase' = "ordenes"
  /\ restan > 0 /\ restan' = restan - 1
  /\ gas' => gas /\ restan > 1

Otro ==
  /\ UNCHANGED restan
  /\ fase' \in {"ordenes", "pasada"}
  /\ gas' \in BOOLEAN

Next == Fijar \/ Anular \/ Parar \/ Contar \/ Otro

Spec == Init /\ [][Next]_<<fase, restan, gas>>
=============================================================================
