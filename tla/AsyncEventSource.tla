-------------------------- MODULE AsyncEventSource --------------------------
(***************************************************************************)
(* AsyncEventSource.cpp: one client of an event source and the events that    *)
(* wait for it.  An event is sent whole or not at all, and the acks of a      *)
(* connection are shared out over its events from the oldest on.              *)
(***************************************************************************)
EXTENDS Integers, Sequences, SequencesExt

CONSTANTS
  Ventana,    \* send buffer of a connection
  ColaMax,    \* SSE_MAX_QUEUED_MESSAGES (32)
  LargosSse,  \* lengths of the events
  Restos,     \* what may be missing of the acks of the head of the response
  Partes,     \* sizes of the acks that are not of all that was sent
  EventosMax  \* events that find room in the queue (a bound)

\* The head of the response is short beside the window, and no event is longer than it.
EventSourceAssumption ==
  /\ {Ventana, ColaMax, EventosMax} \subseteq Nat \ {0}
  /\ LargosSse \subseteq 1..Ventana /\ Restos \subseteq 0..Ventana \div 3
  /\ Partes \subseteq Nat

VARIABLES
  fuente,     \* AsyncEventSourceClient, and its connection
  eventos,    \* events so far
  recibidos,  \* those that the peer got, in order
  adelantado  \* an event was sent while one before it was waiting for room

ssevars == <<fuente, eventos, recibidos, adelantado>>

SinFuente == [est |-> "no", cola |-> <<>>, vuelo |-> 0, porAvisar |-> 0]
SseInit == fuente = SinFuente /\ eventos = 0 /\ recibidos = <<>> /\ adelantado = FALSE

Abierta == fuente.est = "CONNECTED"
Evento(n, l) == [n |-> n, largo |-> l, sent |-> FALSE, acked |-> 0]

\* AsyncEventSourceMessage::ack() over the queue of _onAck(): what is too much for
\* one event goes on to the next.  The mutant passes all of it on.
Sobra_Todo(m, len) == len
Sobra(m, len) == len - (m.largo - m.acked)
Repartir(cola, len) ==
  LET paso(a, m) ==
        IF a.len > 0 /\ m.acked + a.len >= m.largo
        THEN [a EXCEPT !.len = Sobra(m, @)]
        ELSE [len |-> 0, cola |-> Append(a.cola, [m EXCEPT !.acked = @ + a.len])]
  IN  FoldLeft(paso, [len |-> len, cola |-> <<>>], cola).cola

\* The finished events at the front of the queue go.
Pendientes(cola) ==
  LET i == SelectInSeq(cola, LAMBDA m : m.acked < m.largo)
  IN  IF i = 0 THEN <<>> ELSE SubSeq(cola, i, Len(cola))

\* send(), and the loop of _runQueue() over every event that was not sent.  The mutant
\* wants one byte more than the event has.
SinSitio_UnoDeMas(a, m) == Ventana - a.vuelo <= m.largo
SinSitio(a, m) == Ventana - a.vuelo < m.largo
Enviar(a, m) ==
  IF m.sent THEN [a EXCEPT !.cola = Append(@, m)]
  ELSE IF SinSitio(a, m) THEN [a EXCEPT !.cola = Append(@, m), !.saltado = TRUE]
  ELSE [a EXCEPT !.cola = Append(@, [m EXCEPT !.sent = TRUE]), !.vuelo = @ + m.largo,
                 !.recibidos = Append(@, m.n), !.adelantado = @ \/ a.saltado]
SseRunQueue(f) ==
  LET a0 == [cola |-> <<>>, vuelo |-> f.vuelo, recibidos |-> recibidos,
             adelantado |-> adelantado, saltado |-> FALSE]
      a == FoldLeft(Enviar, a0, Pendientes(f.cola))
  IN  /\ fuente' = [f EXCEPT !.cola = a.cola, !.vuelo = a.vuelo]
      /\ recibidos' = a.recibidos
      /\ adelantado' = a.adelantado

\* AsyncEventSourceResponse::_ack() and the constructor.
AbrirFuente(resto) ==
  /\ fuente.est = "no"
  /\ fuente' = [fuente EXCEPT !.est = "CONNECTED", !.vuelo = resto]
  /\ UNCHANGED <<eventos, recibidos, adelantado>>

\* send() and write(), by _queueMessage(): an event for which the queue has no room is
\* thrown away.
SendEvento(l) ==
  LET sitio == Len(fuente.cola) < ColaMax
      f == [fuente EXCEPT !.cola = IF sitio THEN Append(@, Evento(eventos + 1, l)) ELSE @]
  IN  /\ Abierta /\ eventos < EventosMax
      /\ eventos' = eventos + (IF sitio THEN 1 ELSE 0)
      /\ IF f.vuelo < Ventana THEN SseRunQueue(f)
         ELSE fuente' = f /\ UNCHANGED <<recibidos, adelantado>>

AcuseSse ==
  /\ Abierta
  /\ \E n \in {x \in {fuente.vuelo} \cup Partes : 0 < x /\ x <= fuente.vuelo} :
       fuente' = [fuente EXCEPT !.vuelo = @ - n, !.porAvisar = @ + n]
  /\ UNCHANGED <<eventos, recibidos, adelantado>>

OnAckSse ==
  /\ Abierta /\ fuente.porAvisar > 0
  /\ SseRunQueue([fuente EXCEPT !.porAvisar = 0, !.cola = Repartir(@, fuente.porAvisar)])
  /\ UNCHANGED eventos

OnPollSse ==
  /\ Abierta /\ fuente.cola # <<>>
  /\ SseRunQueue(fuente)
  /\ UNCHANGED eventos

\* close(), _onTimeout() and the end of the connection come to _onDisconnect().
CerrarFuente ==
  /\ Abierta
  /\ fuente' = [SinFuente EXCEPT !.est = "fuera"]
  /\ UNCHANGED <<eventos, recibidos, adelantado>>

SseNext ==
  \/ \E r \in Restos : AbrirFuente(r)
  \/ \E l \in LargosSse : SendEvento(l)
  \/ AcuseSse \/ OnAckSse \/ OnPollSse \/ CerrarFuente

\* What is in flight is acked or the connection ends, and the task of AsyncTCP handles
\* its events.  Each ack takes from what is in flight and no more than EventosMax
\* events are sent, so the weak fairness of AcuseSse \/ CerrarFuente and of OnAckSse
\* comes to this.
SseJusticia == []<>(fuente.vuelo = 0) /\ []<>(fuente.porAvisar = 0)
SseSpec == SseInit /\ [][SseNext]_ssevars /\ SseJusticia

-----------------------------------------------------------------------------
\* The peer gets every event once and in order, and none leaves the queue before it
\* was sent (AsyncEventSource.cpp, ack(), _onAck() and _runQueue()).  Once an event
\* overtook one that waited for room this does not hold: its acks are counted for
\* the one that waits, which may be taken for finished and never be sent.
EventosEnOrden ==
  ~adelantado =>
    /\ \A i \in 1..Len(recibidos) : recibidos[i] = i
    /\ \A n \in 1..eventos :
         Abierta => (\E i \in 1..Len(fuente.cola) : fuente.cola[i].n = n) \/ n <= Len(recibidos)

\* That, and the queue of an open connection comes to be empty, unless an event
\* overtook one.
EventosLlegan ==
  []EventosEnOrden /\ []<>(adelantado \/ ~Abierta \/ fuente.cola = <<>>)
=============================================================================
