---------------------------- MODULE AsyncFlujos ----------------------------
(***************************************************************************)
(* The two handlers of ESPAsyncWebServer that keep a connection after its     *)
(* response.  They share no state: a behaviour is of one or of the other.     *)
(***************************************************************************)
EXTENDS AsyncWebSocket

CONSTANTS LargosSse, Restos, EventosMax

VARIABLES handler, fuente, eventos, recibidos, adelantado

Sse == INSTANCE AsyncEventSource
ASSUME EventSourceAssumption == Sse!EventSourceAssumption
ssevars == <<fuente, eventos, recibidos, adelantado>>
flujos == <<handler, wsvars, ssevars>>

Init == handler \in {"ws", "sse"} /\ WsInit /\ Sse!SseInit

Next ==
  \/ handler = "ws" /\ WsNext /\ UNCHANGED <<handler, ssevars>>
  \/ handler = "sse" /\ Sse!SseNext /\ UNCHANGED <<handler, wsvars>>

FlujosSpec == Init /\ [][Next]_flujos /\ WsJusticia /\ Sse!SseJusticia

EventosLlegan == Sse!EventosLlegan

\* What either of the two keeps for a connection goes out in the end: the queues of
\* AsyncWebSocket.cpp:299-551 by acks and polls, and the events of
\* AsyncEventSource.cpp:225-308 in their order, with the exceptions each states.
FlujosAvanzan == ColasAvanzan /\ EventosLlegan
=============================================================================
