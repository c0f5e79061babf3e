-------------------------- MODULE ChimeneaHistoria --------------------------
(***************************************************************************)
(* Chimenea with two history variables that the code does not keep and the *)
(* properties need: who had the last word, and how long gas has flowed     *)
(* without a flame.  They constrain no step of Chimenea.                   *)
(*   orden  "encender" after a request to burn (button, remote, frame,     *)
(*          timer set), "apagar" after an order to stop, a timer that ran  *)
(*          out or a restart, "agotada" after the attempts ran out.        *)
(*   secos  intervals in a row, since the last request, at whose end the   *)
(*          low valve was open and the sensor read below the threshold.    *)
(***************************************************************************)
EXTENDS Chimenea

VARIABLES orden, secos

hvars == <<vars, orden, secos>>

HInit == Init /\ orden = "apagar" /\ secos = 0

OrdenDeApagar ==
  \/ \E m \in Mensajes : PideApagar(m) /\ webSocketEvent(m)
  \/ BotonApagado(TRUE)
  \/ ControlApagado(TRUE)
  \/ Segundo /\ Vence
  \/ Reinicio

Agotada == Segundo /\ Bloqueo /\ ~Vence

PasoDeLazo ==
  \/ \E m \in Mensajes : Neutra(m) /\ webSocketEvent(m)
  \/ \E valor \in Lecturas : LeerSensor(valor)
  \/ BotonEncendido(FALSE) \/ BotonApagado(FALSE)
  \/ ControlBajo(FALSE) \/ ControlApagado(FALSE)
  \/ \E nivel \in BOOLEAN : ControlAlto(nivel)
  \/ PulsacionLarga \/ SoltarBoton
  \/ Llama \/ Alto \/ Limpiar
  \/ SinSegundo

PasoDeSegundo == SegundoDeChispa \/ (Segundo /\ ~Bloqueo /\ ~Vence)

GasSinLlama == GasBajo /\ SinLlama

HNext ==
  \/ Peticion /\ orden' = "encender" /\ secos' = 0
  \/ OrdenDeApagar /\ orden' = "apagar" /\ secos' = 0
  \/ Agotada /\ orden' = "agotada" /\ secos' = 0
  \/ PasoDeLazo /\ UNCHANGED orden /\ secos' = IF GasBajo' THEN secos ELSE 0
  \/ PasoDeSegundo /\ UNCHANGED orden /\ secos' = IF GasSinLlama THEN secos + 1 ELSE 0

HSpec == HInit /\ [][HNext]_hvars

-----------------------------------------------------------------------------
\* After an order to stop, an expired timer or a restart both valves stay
\* closed until the next request, however buttons, remote and sensor behave in
\* between: lines 393-402, 416-426, 463-472, 515-522 and 606-618 leave nothing
\* behind that reopens them, save the pulse that Enclavamiento excepts.
ApagadoDuradero ==
  orden = "apagar" => ~GasBajo /\ (pc # "limpiar" => ~GasAlto)

\* Gas flows without a flame for fewer than 2 * MaxIntentos intervals in a row
\* after the last request: lines 493-502 and 525-534, with the spark and pause
\* phases alternating, the flame lost and found, and the timer relighting.
PurgaAcotada == secos < 2 * MaxIntentos

-----------------------------------------------------------------------------
\* What the header of the sketch and the pages say and the code does not do: each
\* of the two is checked by a run that expects TLC to refute it.

\* "Tiempo restante para apagado ... minutos" (index.html:26): the minute under
\* way has at most its 60 seconds left.  Line 614 clears contadorMinuto, so the
\* countdown after a web "off" starts by wrapping an unsigned zero.
TiempoRestante == minutos > 0 => contadorMinuto <= SegundosPorMinuto

\* "si no arranca apagado total" (header, line 8): after the last attempt the
\* gas stays closed until somebody asks again.  A running timer relights it.
ApagadoTotal == orden = "agotada" => ~GasBajo
=============================================================================
