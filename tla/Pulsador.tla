------------------------------ MODULE Pulsador ------------------------------
(***************************************************************************)
(* The trial sketch of a light with a push button and a WebSocket           *)
(* (test.ino): loop() reads and debounces the button, the task of AsyncTCP  *)
(* receives the "toggle" of the pages, and both switch led.on and tell the   *)
(* pages without a lock.                                                     *)
(***************************************************************************)
EXTENDS Integers

CONSTANTS
  Retardo,   \* DEBOUNCE_DELAY, in units of the clock
  Tope       \* the largest value of the uint16_t state, 0xffff

ASSUME TopeAssumption == Retardo \in Nat /\ Tope \in Nat /\ Tope >= 3

VARIABLES
  bajo,      \* the pin reads LOW: the button is down
  button,    \* lastReading (as LOW), the time since lastDebounceTime, and state
  on, pin,   \* led.on and the output
  hilo,      \* where each of the two tasks is, and the value it read
  paginas,   \* the status the pages were told last
  doble,     \* history: a reading changed while state was 1
  veces,     \* history: how often the button switched since state was 0, up to 2
  cruzados   \* history: the two tasks switched at once

pulsador == <<bajo, button, on, pin, hilo, paginas, doble, veces, cruzados>>
Tareas == {"loop", "async"}

PulsadorInit ==
  /\ bajo = FALSE /\ on = FALSE /\ pin = FALSE /\ paginas = FALSE
  /\ button = [ultima |-> FALSE, quieto |-> Retardo + 1, state |-> 0]
  /\ hilo = [t \in Tareas |-> [en |-> "libre", valor |-> FALSE]]
  /\ doble = FALSE /\ veces = 0 /\ cruzados = FALSE

\* The button, which bounces as it likes, and the clock.
Mover == bajo' = ~bajo /\ UNCHANGED <<button, on, pin, hilo, paginas, doble, veces, cruzados>>
Milisegundo ==
  /\ button.quieto <= Retardo
  /\ button' = [button EXCEPT !.quieto = @ + 1]
  /\ UNCHANGED <<bajo, on, pin, hilo, paginas, doble, veces, cruzados>>

\* The logical state of the button.  The mutant begins a long press again.
EstadoTras_Reinicia(state) ==
  IF bajo THEN (IF state < Tope - 1 THEN state + 1 ELSE IF state = Tope - 1 THEN 1 ELSE state)
  ELSE IF state = 0 \/ state = Tope THEN 0 ELSE Tope
EstadoTras(state) ==
  IF bajo THEN (IF state < Tope - 1 THEN state + 1 ELSE IF state = Tope - 1 THEN 2 ELSE state)
  ELSE IF state = 0 \/ state = Tope THEN 0 ELSE Tope
Pressed(b) == b.state = 1

\* Button::read(), and with a press the read of led.on.
read ==
  LET quieto == IF bajo # button.ultima THEN 0 ELSE button.quieto
      nuevo == [ultima |-> bajo, quieto |-> quieto,
                state |-> IF quieto > Retardo THEN EstadoTras(button.state) ELSE button.state]
  IN  /\ hilo["loop"].en = "libre"
      /\ button' = nuevo
      /\ hilo' = IF Pressed(nuevo) THEN [hilo EXCEPT !["loop"] = [en |-> "cambiar", valor |-> on]]
                 ELSE [hilo EXCEPT !["loop"].en = "update"]
      /\ doble' = (nuevo.state # 0 /\ (doble \/ (Pressed(button) /\ quieto <= Retardo)))
      /\ veces' = IF nuevo.state = 0 THEN 0
                  ELSE IF Pressed(nuevo) /\ veces < 2 THEN veces + 1 ELSE veces
      /\ cruzados' = (cruzados \/ (Pressed(nuevo) /\ hilo["async"].en # "libre"))
      /\ UNCHANGED <<bajo, on, pin, paginas>>

\* handleWebSocketMessage(): a whole text frame with the action "toggle".
handleWebSocketMessage ==
  /\ hilo["async"].en = "libre"
  /\ hilo' = [hilo EXCEPT !["async"] = [en |-> "cambiar", valor |-> on]]
  /\ cruzados' = (cruzados \/ hilo["loop"].en \in {"cambiar", "avisar", "textAll"})
  /\ UNCHANGED <<bajo, button, on, pin, paginas, doble, veces>>

\* led.on = !led.on, of the value that was read; the mutant tells the pages of that one.
Cambiar_AvisaAntes(t) ==
  /\ hilo[t].en = "cambiar"
  /\ on' = ~hilo[t].valor
  /\ hilo' = [hilo EXCEPT ![t].en = "textAll"]
  /\ UNCHANGED <<bajo, button, pin, paginas, doble, veces, cruzados>>
Cambiar(t) ==
  /\ hilo[t].en = "cambiar"
  /\ on' = ~hilo[t].valor
  /\ hilo' = [hilo EXCEPT ![t].en = "avisar"]
  /\ UNCHANGED <<bajo, button, pin, paginas, doble, veces, cruzados>>

\* notifyClients(): the text is made of led.on as it is then, and queued after that.
notifyClients(t) ==
  /\ hilo[t].en = "avisar"
  /\ hilo' = [hilo EXCEPT ![t] = [en |-> "textAll", valor |-> on]]
  /\ UNCHANGED <<bajo, button, on, pin, paginas, doble, veces, cruzados>>
textAll(t) ==
  /\ hilo[t].en = "textAll"
  /\ paginas' = hilo[t].valor
  /\ hilo' = [hilo EXCEPT ![t].en = IF t = "loop" THEN "update" ELSE "libre"]
  /\ UNCHANGED <<bajo, button, on, pin, doble, veces, cruzados>>

\* led.update(), at the end of each pass.
update ==
  /\ hilo["loop"].en = "update" /\ hilo' = [hilo EXCEPT !["loop"].en = "libre"]
  /\ pin' = on
  /\ UNCHANGED <<bajo, button, on, paginas, doble, veces, cruzados>>

PulsadorNext ==
  \/ Mover \/ Milisegundo \/ read \/ update \/ handleWebSocketMessage
  \/ \E t \in Tareas : Cambiar(t) \/ notifyClients(t) \/ textAll(t)

\* However the button bounces and however long it is held, past the end of the
\* counter too, it switches the light once until it is let go; excepted is a bounce
\* in the very pass after the one that counted, in which state stays 1 and every
\* pass switches again (test.ino:61-93, 244-247).
UnaPorPulsacion == doble \/ veces <= 1

\* While the tasks have not switched at once, the pages know the light when neither
\* is switching it, and the output follows with the next pass.
PulsadorContado ==
  ~cruzados /\ (\A t \in Tareas : hilo[t].en \in {"libre", "update"}) => paginas = on
=============================================================================
