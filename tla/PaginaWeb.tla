----------------------------- MODULE PaginaWeb -----------------------------
(***************************************************************************)
(* The trial sketch web.ino: a page with a link that switches a light.       *)
(* loop() serves one connection at a time and stays with it until the        *)
(* request ends, the client leaves, or a byte arrives after the deadline.    *)
(* A request is a sequence of texts and line ends.                           *)
(***************************************************************************)
EXTENDS Integers, Sequences

CONSTANTS
  Peticiones,          \* the requests that browsers send
  TiempoCancelacion,   \* in units of the clock
  PeticionesMax        \* bound on the connections of a behaviour

VARIABLES
  cliente,   \* where loop() is, and what comes and came of the request
  Estado,
  pinLed,
  reloj,     \* the time since the client was taken, and TiempoActual - TiempoAnterior
  hechas,    \* how many connections there were
  cortada    \* history: a request with an order ended without its answer since the last one

web == <<cliente, Estado, pinLed, reloj, hechas, cortada>>
LF == "LF"
SinCliente == [en |-> "libre", conectado |-> FALSE, falta |-> <<>>, llegado |-> <<>>, LineaActual |-> ""]

WebInit ==
  /\ cliente = SinCliente /\ Estado = FALSE /\ pinLed = FALSE
  /\ reloj = [ahora |-> 0, visto |-> 0] /\ hechas = 0 /\ cortada = FALSE

\* servidor.available(): the next browser.
Aceptar(p) ==
  /\ cliente.en = "libre" /\ hechas < PeticionesMax
  /\ cliente' = [SinCliente EXCEPT !.en = "lazo", !.conectado = TRUE, !.falta = p]
  /\ reloj' = [ahora |-> 0, visto |-> 0]
  /\ hechas' = hechas + 1
  /\ UNCHANGED <<Estado, pinLed, cortada>>

\* The browser and the clock: a text or a line end arrives, the browser leaves.
Llega ==
  /\ cliente.conectado /\ cliente.falta # <<>>
  /\ cliente' = [cliente EXCEPT !.falta = Tail(@), !.llegado = Append(@, Head(cliente.falta))]
  /\ UNCHANGED <<Estado, pinLed, reloj, hechas, cortada>>
Irse ==
  /\ cliente.conectado /\ cliente' = [cliente EXCEPT !.conectado = FALSE, !.falta = <<>>]
  /\ UNCHANGED <<Estado, pinLed, reloj, hechas, cortada>>
Reloj ==
  /\ cliente.en = "lazo" /\ reloj.ahora <= TiempoCancelacion
  /\ reloj' = [reloj EXCEPT !.ahora = @ + 1]
  /\ UNCHANGED <<cliente, Estado, pinLed, hechas, cortada>>

\* VerificarMensaje()
VerificarMensaje(Mensaje) ==
  Estado' = IF Mensaje = "encender" THEN TRUE ELSE IF Mensaje = "apagar" THEN FALSE ELSE Estado

\* The condition of the loop: connected() is true while bytes are left to read, and
\* the time is that of the last byte.
Sigue == (cliente.conectado \/ cliente.llegado # <<>>) /\ reloj.visto <= TiempoCancelacion

\* The empty line: the pin follows Estado and the page tells it.  The mutant answers
\* without switching.
ResponderCliente_SinPin ==
  /\ cliente' = SinCliente /\ cortada' = FALSE
  /\ UNCHANGED <<Estado, pinLed>>
ResponderCliente ==
  /\ pinLed' = Estado
  /\ cliente' = SinCliente /\ cortada' = FALSE
  /\ UNCHANGED Estado

\* A pass of the loop with a byte to read.
LeerLetra ==
  LET Letra == Head(cliente.llegado)
      resto == Tail(cliente.llegado)
  IN  /\ cliente.en = "lazo" /\ Sigue /\ cliente.llegado # <<>>
      /\ reloj' = [reloj EXCEPT !.visto = reloj.ahora]
      /\ \/ Letra = LF /\ cliente.LineaActual = "" /\ ResponderCliente
         \/ /\ Letra = LF /\ cliente.LineaActual # ""
            /\ VerificarMensaje(cliente.LineaActual)
            /\ cliente' = [cliente EXCEPT !.llegado = resto, !.LineaActual = ""]
            /\ UNCHANGED <<pinLed, cortada>>
         \/ /\ Letra # LF /\ cliente' = [cliente EXCEPT !.llegado = resto, !.LineaActual = Letra]
            /\ UNCHANGED <<Estado, pinLed, cortada>>
      /\ UNCHANGED hechas

\* The loop ends without an answer: cliente.stop().  The mutant does not look at the
\* connection.
Dejar_SinMirar ==
  /\ cliente.en = "lazo" /\ reloj.visto > TiempoCancelacion
  /\ cliente' = SinCliente /\ cortada' = (cortada \/ pinLed # Estado)
  /\ UNCHANGED <<Estado, pinLed, reloj, hechas>>
Dejar ==
  /\ cliente.en = "lazo" /\ ~Sigue
  /\ cliente' = SinCliente /\ cortada' = (cortada \/ pinLed # Estado)
  /\ UNCHANGED <<Estado, pinLed, reloj, hechas>>

WebNext == (\E p \in Peticiones : Aceptar(p)) \/ Llega \/ Irse \/ Reloj \/ LeerLetra \/ Dejar
WebJusticia == WF_web(LeerLetra \/ Dejar)

\* Between two requests the light is as the last one ordered, or one that ordered it
\* was cut before its empty line (web.ino:61-95).
WebContada == cliente.en = "libre" /\ ~cortada => pinLed = Estado

\* loop() leaves a client for the next one, but for one that stays connected and sends
\* nothing more: the clock of the deadline only moves with a byte (web.ino:61-63).
WebVuelve == <>[](cliente.en = "lazo") => <>[](cliente.conectado /\ cliente.llegado = <<>>)
=============================================================================
